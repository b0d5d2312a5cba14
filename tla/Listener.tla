------------------------------- MODULE Listener -------------------------------
(***************************************************************************)
(* NetListener (transport/listen_net.go and listen_ws.go): sessions over   *)
(* accepted connections reach the callers of Accept through an unbuffered  *)
(* Go channel, errors through errs, and the end through closer.  In mode   *)
(* net one goroutine accepts connections and offers their sessions; in     *)
(* mode ws http.Server.Serve accepts them and each has a HandleWS of its   *)
(* own.  The operating system's listener and http.Server are external.     *)
(***************************************************************************)
EXTENDS Naturals, FiniteSets

CONSTANTS
    Conns,      \* connections that are dialled
    Accepters,  \* programs that call Accept until it returns an error
    Closers     \* calls of Close

ASSUME ListenerAssumption ==
    IsFiniteSet(Conns) /\ IsFiniteSet(Accepters) /\ IsFiniteSet(Closers)

VARIABLES
    mode,    \* net or ws
    osOpen,  \* whether the operating system's listener is open
    serve,   \* the goroutine around l.Accept or s.Serve: run, report, done
    conn,    \* idle, dialled, offered, accepted, ended, reported, reset
    errs,    \* the number of errors on errs
    closer,  \* the number of values on closer
    acc,     \* where each accepter is: idle, wait, err
    cpc      \* where each Close is: idle, token, os, done

vars == <<mode, osOpen, serve, conn, errs, closer, acc, cpc>>

Init ==
    /\ mode \in {"net", "ws"}
    /\ osOpen = TRUE /\ serve = "run"
    /\ conn = [c \in Conns |-> "idle"]
    /\ errs = 0 /\ closer = 0
    /\ acc = [p \in Accepters |-> "idle"]
    /\ cpc = [k \in Closers |-> "idle"]

Offered == {c \in Conns : conn[c] = "offered"}
Waiting == {p \in Accepters : acc[p] = "wait"}
-----------------------------------------------------------------------------
(* errs holds one error in mode net and two in mode ws.  Mutants: it is    *)
(* not respected, and errs is unbuffered.                                  *)
ErrsCap == IF mode = "net" THEN 1 ELSE 2

ErrsRoomOff == errs <= ErrsCap
ErrsRoomUnbuffered == Waiting # {}
ErrsRoom == errs < ErrsCap

Dial(c) ==
    /\ osOpen /\ conn[c] = "idle"
    /\ conn' = [conn EXCEPT ![c] = "dialled"]
    /\ UNCHANGED <<mode, osOpen, serve, errs, closer, acc, cpc>>

(* A connection is accepted and a session made of it; the goroutine of     *)
(* mode net offers one at a time.                                          *)
Take(c) ==
    /\ serve = "run" /\ conn[c] = "dialled"
    /\ mode = "net" => Offered = {}
    /\ conn' = [conn EXCEPT ![c] = "offered"]
    /\ UNCHANGED <<mode, osOpen, serve, errs, closer, acc, cpc>>

(* An error ends the goroutine: Serve retries passing errors, the loop of  *)
(* mode net does not.                                                      *)
ServeError ==
    /\ serve = "run"
    /\ mode = "net" => Offered = {}
    /\ ~osOpen \/ mode = "net"
    /\ serve' = "report"
    /\ UNCHANGED <<mode, osOpen, conn, errs, closer, acc, cpc>>

Report ==
    /\ serve = "report" /\ ErrsRoom
    /\ serve' = "done" /\ errs' = errs + 1
    /\ UNCHANGED <<mode, osOpen, conn, closer, acc, cpc>>

SessionEnds(c) ==
    /\ conn[c] = "accepted"
    /\ conn' = [conn EXCEPT ![c] = "ended"]
    /\ UNCHANGED <<mode, osOpen, serve, errs, closer, acc, cpc>>

(* HandleWS: mux.Wait has returned, and its error goes to errs. *)
ReportSession(c) ==
    /\ mode = "ws" /\ conn[c] = "ended" /\ ErrsRoom
    /\ conn' = [conn EXCEPT ![c] = "reported"] /\ errs' = errs + 1
    /\ UNCHANGED <<mode, osOpen, serve, closer, acc, cpc>>
-----------------------------------------------------------------------------
(* NetListener.Accept: the three cases of its select. *)
AcceptCall(p) ==
    /\ acc[p] = "idle"
    /\ acc' = [acc EXCEPT ![p] = "wait"]
    /\ UNCHANGED <<mode, osOpen, serve, conn, errs, closer, cpc>>

AcceptSession(p) ==
    /\ acc[p] = "wait"
    /\ \E c \in Offered : conn' = [conn EXCEPT ![c] = "accepted"]
    /\ acc' = [acc EXCEPT ![p] = "idle"]
    /\ UNCHANGED <<mode, osOpen, serve, errs, closer, cpc>>

AcceptErr(p) ==
    /\ acc[p] = "wait" /\ errs > 0
    /\ errs' = errs - 1
    /\ acc' = [acc EXCEPT ![p] = "err"]
    /\ UNCHANGED <<mode, osOpen, serve, conn, closer, cpc>>

(* Mutant: the value stays on closer. *)
AfterTokenKept == closer
AfterToken == closer - 1

AcceptEOF(p) ==
    /\ acc[p] = "wait" /\ closer > 0
    /\ closer' = AfterToken
    /\ acc' = [acc EXCEPT ![p] = "err"]
    /\ UNCHANGED <<mode, osOpen, serve, conn, errs, cpc>>

Accept(p) == AcceptSession(p) \/ AcceptErr(p) \/ AcceptEOF(p)
-----------------------------------------------------------------------------
(* NetListener.Close: l.closer <- true, then Listener.Close.  Mutants: an  *)
(* unbuffered closer, and a listener that stays open.                      *)
CloserRoomUnbuffered == closer = 0 /\ Waiting # {}
CloserRoom == closer = 0

StillOpen == osOpen
Shut == FALSE

CloseCall(k) ==
    /\ cpc[k] = "idle"
    /\ cpc' = [cpc EXCEPT ![k] = "token"]
    /\ UNCHANGED <<mode, osOpen, serve, conn, errs, closer, acc>>

CloseToken(k) ==
    /\ cpc[k] = "token" /\ CloserRoom
    /\ closer' = 1
    /\ cpc' = [cpc EXCEPT ![k] = "os"]
    /\ UNCHANGED <<mode, osOpen, serve, conn, errs, acc>>

(* The connections that wait in the backlog are reset. *)
CloseOS(k) ==
    /\ cpc[k] = "os"
    /\ osOpen' = Shut
    /\ conn' = [c \in Conns |-> IF conn[c] = "dialled" THEN "reset" ELSE conn[c]]
    /\ cpc' = [cpc EXCEPT ![k] = "done"]
    /\ UNCHANGED <<mode, serve, errs, closer, acc>>
-----------------------------------------------------------------------------
Close(k) == CloseToken(k) \/ CloseOS(k)
Goroutines == Report \/ \E c \in Conns : Take(c) \/ ReportSession(c)

Next ==
    \/ ServeError \/ Goroutines
    \/ \E c \in Conns : Dial(c) \/ SessionEnds(c)
    \/ \E p \in Accepters : AcceptCall(p) \/ Accept(p)
    \/ \E k \in Closers : CloseCall(k) \/ Close(k)

(* Goroutines and calls that can go on do, and a closed listener fails;    *)
(* nobody has to dial or to call Accept or Close.                          *)
Fairness ==
    /\ WF_vars(Goroutines) /\ WF_vars(~osOpen /\ ServeError)
    /\ \A p \in Accepters : WF_vars(Accept(p))
    /\ \A k \in Closers : WF_vars(Close(k))

Spec == Init /\ [][Next]_vars /\ Fairness
-----------------------------------------------------------------------------
(* The values of the state; errs and closer never exceed their capacity. *)
TypeOK ==
    /\ mode \in {"net", "ws"} /\ osOpen \in BOOLEAN
    /\ serve \in {"run", "report", "done"}
    /\ conn \in [Conns -> {"idle", "dialled", "offered", "accepted", "ended",
                           "reported", "reset"}]
    /\ errs \in 0..ErrsCap /\ closer \in 0..1
    /\ acc \in [Accepters -> {"idle", "wait", "err"}]
    /\ cpc \in [Closers -> {"idle", "token", "os", "done"}]

(* No error is lost and none is made up: the errors that Accept has        *)
(* returned or that are still queued are one for each Close that has put   *)
(* its value, one for the end of the serving goroutine, and, in mode ws,   *)
(* one for each session that has ended, although the listener is open.     *)
ErrorsAccounted ==
    Cardinality({p \in Accepters : acc[p] = "err"}) + errs + closer =
        Cardinality({k \in Closers : cpc[k] \in {"os", "done"}})
          + (IF serve = "done" THEN 1 ELSE 0)
          + Cardinality({c \in Conns : conn[c] = "reported"})

(* listen.go:6, "Any blocked Accept operations will be unblocked and       *)
(* return errors": an Accept that waits when Close is called returns, for  *)
(* up to two accepters, one released by closer and one by the failing      *)
(* listener.                                                               *)
BlockedReleased ==
    \A p \in Accepters, k \in Closers :
        (acc[p] = "wait" /\ cpc[k] = "token") ~> acc[p] # "wait"

(* Close returns although nobody accepts, unless the value of an earlier   *)
(* Close is still waiting for an Accept (listen_net.go:35).                *)
CloseReturns ==
    \A k \in Closers :
        cpc[k] = "token" ~> \/ cpc[k] = "done"
                            \/ closer = 1 /\ \E j \in Closers \ {k} : cpc[j] = "done"

(* A closed listener leaves no serving goroutine behind, unless a session  *)
(* is on offer that nobody accepts or, in mode ws, the errors of sessions  *)
(* that nobody collects fill errs.                                         *)
ServeEnds ==
    ~osOpen ~> \/ serve = "done"
               \/ Offered # {} /\ mode = "net"
               \/ errs = ErrsCap /\ mode = "ws"
=============================================================================

-------------------------------- MODULE Vhost --------------------------------
(***************************************************************************)
(* The virtual-host muxer (localPackages/go-vhost/mux.go) as the server    *)
(* uses it: the accept loop, one goroutine per connection that finds the   *)
(* listener of the requested host and hands the connection over, the       *)
(* registry with Listen and Listener.Close, and the error loop of          *)
(* server.go's main, which closes what could not be muxed.                 *)
(*                                                                         *)
(* An owner is one call of Listen and the Listener it made.  The sends on  *)
(* accept and on muxErrors are unbuffered: sender and receiver move in one *)
(* step.                                                                   *)
(***************************************************************************)
EXTENDS Naturals, Sequences, FiniteSets

CONSTANTS
    Conns,         \* connections that may arrive
    Hosts,         \* host names, wildcards included
    Candidates,    \* of each host: itself, then the wildcards that match it
    Owners,        \* calls of Listen
    None,          \* not a host and not an owner
    BadRequests,   \* whether a connection may fail before it names a host
    AcceptErrors   \* whether the underlying Accept may fail

ASSUME VhostAssumption ==
    /\ None \notin Hosts \cup Owners
    /\ BadRequests \in BOOLEAN /\ AcceptErrors \in BOOLEAN

ASSUME CandidatesAssumption == Candidates \in [Hosts -> Seq(Hosts)]

VARIABLES
    lis,       \* the underlying listener: "open" or "closed"
    rpc,       \* where VhostMuxer.run is
    rerr,      \* the error that run is reporting
    registry,  \* VhostMuxer.registry
    name,      \* Listener.name of each owner
    lstate,    \* of each Listener: unused, bound, unbound (deleted), shut
    cpc,       \* where VhostMuxer.handle is with each connection
    host,      \* the host that each connection asks for
    target,    \* the listener that get returned
    taken,     \* the owner whose Accept returned the connection
    dead       \* the connections that have been closed

runVars == <<lis, rpc, rerr>>
listenerVars == <<registry, name, lstate>>
connVars == <<cpc, host, target, taken, dead>>
vhostVars == <<runVars, listenerVars, connVars>>

VhostInit ==
    /\ lis = "open" /\ rpc = "accept" /\ rerr = "none"
    /\ registry = [n \in Hosts |-> None]
    /\ name = [o \in Owners |-> None]
    /\ lstate = [o \in Owners |-> "unused"]
    /\ cpc = [c \in Conns |-> "new"]
    /\ host = [c \in Conns |-> None]
    /\ target = [c \in Conns |-> None]
    /\ taken = [c \in Conns |-> None]
    /\ dead = {}
-----------------------------------------------------------------------------
(* VhostMuxer.run. *)
RunAccept(c) ==
    /\ rpc = "accept" /\ lis = "open"
    /\ cpc[c] = "new"
    /\ cpc' = [cpc EXCEPT ![c] = "mux"]
    /\ UNCHANGED <<runVars, listenerVars, host, target, taken, dead>>

RunError ==
    /\ AcceptErrors
    /\ rpc = "accept"
    /\ rpc' = "report"
    /\ rerr' = IF lis = "open" THEN "temporary" ELSE "closed"
    /\ UNCHANGED <<lis, listenerVars, connVars>>

IsClosed(err) == err = "temporary"

(* NextError of the main loop takes the error of run. *)
RunReport ==
    /\ rpc = "report"
    /\ rpc' = IF IsClosed(rerr) THEN "stopped" ELSE "accept"
    /\ UNCHANGED <<lis, rerr, listenerVars, connVars>>

(* VhostMuxer.Close. *)
MuxerClose ==
    /\ AcceptErrors
    /\ lis = "open"
    /\ lis' = "closed"
    /\ UNCHANGED <<rpc, rerr, listenerVars, connVars>>
-----------------------------------------------------------------------------
Step(c, pc) == cpc' = [cpc EXCEPT ![c] = pc]

(* handle: the first SetDeadline, then the request is read for its host.   *)
(* Without a deadline handle reports and returns; without a host it        *)
(* reports and then runs the deferred reset of the deadline.               *)
Mux(c) ==
    /\ cpc[c] = "mux"
    /\ \/ \E n \in Hosts : Step(c, "get") /\ host' = [host EXCEPT ![c] = n]
       \/ BadRequests /\ (Step(c, "report") \/ Step(c, "reportUnset")) /\ UNCHANGED host
    /\ UNCHANGED <<runVars, listenerVars, target, taken, dead>>

(* VhostMuxer.get: the listener of the first candidate that is bound, or   *)
(* none.  Mutant: the listener of any name that is bound.                  *)
Bound(n, i) == registry[Candidates[n][i]] # None
First(n) == {i \in DOMAIN Candidates[n] : Bound(n, i) /\ \A j \in 1..(i - 1) : ~Bound(n, j)}

LookupAny(n) == LET bound == {m \in Hosts : registry[m] # None}
                IN  IF bound = {} THEN None ELSE registry[CHOOSE m \in bound : TRUE]
Lookup(n) == IF First(n) = {} THEN None ELSE registry[Candidates[n][CHOOSE i \in First(n) : TRUE]]

(* Mutant: the listener is used although get found none. *)
AfterGetUnchecked(l) == "send"
AfterGet(l) == IF l = None THEN "reportUnset" ELSE "send"

Get(c) ==
    /\ cpc[c] = "get"
    /\ target' = [target EXCEPT ![c] = Lookup(host[c])]
    /\ Step(c, AfterGet(Lookup(host[c])))
    /\ UNCHANGED <<runVars, listenerVars, host, taken, dead>>

(* l.accept <- vconn panics when accept is or gets closed; the deferred    *)
(* reset runs, then the recovery, which reports the panic.                 *)
PanicSend(c) ==
    /\ cpc[c] = "send"
    /\ lstate[target[c]] = "shut"
    /\ Step(c, "panicUnset")
    /\ UNCHANGED <<runVars, listenerVars, host, target, taken, dead>>

(* Mutant: the reset of the deadline is always reported as failed. *)
UnsetReports(c) ==
    /\ cpc[c] = "unset" \/ cpc[c] = "panicUnset"
    /\ Step(c, IF cpc[c] = "unset" THEN "report" ELSE "panicReport")
    /\ UNCHANGED <<runVars, listenerVars, host, target, taken, dead>>

(* The deferred reset of the deadline fails on a closed connection. *)
Unset(c) ==
    /\ \/ cpc[c] = "unset" /\ Step(c, IF c \in dead THEN "report" ELSE "end")
       \/ cpc[c] = "panicUnset" /\ Step(c, IF c \in dead THEN "panicReport" ELSE "report")
    /\ UNCHANGED <<runVars, listenerVars, host, target, taken, dead>>

Reporting == {"report", "reportUnset", "panicReport"}

AfterReport(pc) == CASE pc = "report" -> "end"
                     [] pc = "reportUnset" -> "unset"
                     [] pc = "panicReport" -> "report"

(* Mutant: the main loop takes the error and leaves the connection open. *)
NextErrorLeavesOpen(c) ==
    /\ cpc[c] \in Reporting
    /\ Step(c, AfterReport(cpc[c]))
    /\ UNCHANGED <<runVars, listenerVars, host, target, taken, dead>>

(* sendError meets NextError, and the main loop closes the connection. *)
NextError(c) ==
    /\ cpc[c] \in Reporting
    /\ Step(c, AfterReport(cpc[c]))
    /\ dead' = dead \cup {c}
    /\ UNCHANGED <<runVars, listenerVars, host, target, taken>>
-----------------------------------------------------------------------------
(* Mutant: a name that is bound can be taken over. *)
ListenTakesOver(o, n) ==
    /\ lstate[o] = "unused"
    /\ registry' = [registry EXCEPT ![n] = o]
    /\ name' = [name EXCEPT ![o] = n]
    /\ lstate' = [lstate EXCEPT ![o] = "bound"]
    /\ UNCHANGED <<runVars, connVars>>

(* VhostMuxer.Listen succeeds; it fails when the name is bound. *)
Listen(o, n) ==
    /\ lstate[o] = "unused"
    /\ registry[n] = None
    /\ registry' = [registry EXCEPT ![n] = o]
    /\ name' = [name EXCEPT ![o] = n]
    /\ lstate' = [lstate EXCEPT ![o] = "bound"]
    /\ UNCHANGED <<runVars, connVars>>

(* Listener.Accept receives the connection that handle is sending. *)
Accept(o, c) ==
    /\ cpc[c] = "send" /\ target[c] = o
    /\ lstate[o] \in {"bound", "unbound"}
    /\ taken' = [taken EXCEPT ![c] = o]
    /\ Step(c, "unset")
    /\ UNCHANGED <<runVars, listenerVars, host, target, dead>>

(* Listener.Close: del, which deletes the name, then close(l.accept). *)
CloseDel(o) ==
    /\ lstate[o] = "bound"
    /\ registry' = [registry EXCEPT ![name[o]] = None]
    /\ lstate' = [lstate EXCEPT ![o] = "unbound"]
    /\ UNCHANGED <<runVars, name, connVars>>

CloseAccept(o) ==
    /\ lstate[o] = "unbound"
    /\ lstate' = [lstate EXCEPT ![o] = "shut"]
    /\ UNCHANGED <<runVars, registry, name, connVars>>

(* The owner closes a connection it has accepted. *)
CloseConn(c) ==
    /\ taken[c] # None
    /\ c \notin dead
    /\ dead' = dead \cup {c}
    /\ UNCHANGED <<runVars, listenerVars, cpc, host, target, taken>>
-----------------------------------------------------------------------------
(* The steps of the muxer itself. *)
Handle(c) == Mux(c) \/ Get(c) \/ PanicSend(c) \/ Unset(c) \/ NextError(c)

MuxerStep ==
    \/ RunError \/ RunReport \/ MuxerClose
    \/ \E c \in Conns : RunAccept(c) \/ Handle(c)

(* Owners that listen, accept and close as they like. *)
VhostNext ==
    \/ MuxerStep
    \/ \E o \in Owners : \/ \E n \in Hosts : Listen(o, n)
                         \/ \E c \in Conns : Accept(o, c)
                         \/ CloseDel(o) \/ CloseAccept(o)
    \/ \E c \in Conns : CloseConn(c)

(* Goroutines that can move do; no connection has to come, no owner has to *)
(* accept, and the deadline of three seconds ends the reading of the host. *)
HandleFairness == \A c \in Conns : WF_vhostVars(Handle(c))

VhostSpec == VhostInit /\ [][VhostNext]_vhostVars
VhostFairSpec ==
    VhostSpec /\ HandleFairness /\ \A o \in Owners : WF_vhostVars(CloseAccept(o))
-----------------------------------------------------------------------------
(* The values of the state; a connection is only sent to a listener that   *)
(* get has found, never to a nil one.                                      *)
VhostTypeOK ==
    /\ lis \in {"open", "closed"}
    /\ rpc \in {"accept", "report", "stopped"}
    /\ rerr \in {"none", "temporary", "closed"}
    /\ registry \in [Hosts -> Owners \cup {None}]
    /\ name \in [Owners -> Hosts \cup {None}]
    /\ lstate \in [Owners -> {"unused", "bound", "unbound", "shut"}]
    /\ cpc \in [Conns -> {"new", "mux", "get", "send", "unset", "panicUnset", "end"}
                             \cup Reporting]
    /\ host \in [Conns -> Hosts \cup {None}]
    /\ target \in [Conns -> Owners \cup {None}]
    /\ taken \in [Conns -> Owners \cup {None}]
    /\ dead \subseteq Conns
    /\ \A c \in Conns : cpc[c] = "send" => target[c] # None

(* Close deletes by name (mux.go:191-195), and still a name is in the      *)
(* registry exactly while the one listener that bound it has not been      *)
(* closed: nobody unbinds, or takes, the name of another.                  *)
RegistryExact ==
    \A o \in Owners, n \in Hosts :
        registry[n] = o <=> (lstate[o] = "bound" /\ name[o] = n)

(* mux.go:297, "A Listener only receives connections that were made to the *)
(* name passed into the muxer's Listen call", or that its wildcard         *)
(* matches, also when names were closed and bound again between get and    *)
(* the hand-over.                                                          *)
Matches(n, h) == \E i \in DOMAIN Candidates[h] : Candidates[h][i] = n

DeliveredByName ==
    \A c \in Conns : taken[c] # None => Matches(name[taken[c]], host[c])

(* The error loop does not close a connection under the owner that has     *)
(* accepted it: a late failure of the deadline reset is reported only when *)
(* the owner has closed the connection (mux.go:132-136, server.go:97).     *)
ServedNotClosed ==
    \A c \in Conns : cpc[c] \in Reporting /\ taken[c] # None => c \in dead

(* A connection that came in is accepted or closed, unless it waits for a  *)
(* listener that is still open: a listener closed at the wrong moment      *)
(* loses none (mux.go:120-125).                                            *)
ConnSettled ==
    \A c \in Conns :
        cpc[c] # "new" ~> \/ taken[c] # None \/ c \in dead
                          \/ (cpc[c] = "send" /\ lstate[target[c]] = "bound")
=============================================================================

---------------------------- MODULE ListenerProofs ----------------------------
(***************************************************************************)
(* Proofs about NetListener for any numbers of connections, accepters and  *)
(* calls of Close, in both modes: errs and closer keep within their        *)
(* capacity, and errors are neither lost nor made up.  The account counts  *)
(* programs, not messages: each step moves one program into or out of one  *)
(* of three sets, whose sizes the lemmas below follow.                     *)
(***************************************************************************)
EXTENDS Listener, FiniteSetTheorems, TLAPS

(* The three sets that ErrorsAccounted counts. *)
Failed == {p \in Accepters : acc[p] = "err"}
Closed == {k \in Closers : cpc[k] \in {"os", "done"}}
Reported == {c \in Conns : conn[c] = "reported"}

Account ==
    Cardinality(Failed) + errs + closer =
        Cardinality(Closed) + (IF serve = "done" THEN 1 ELSE 0) + Cardinality(Reported)

ListenerInv == TypeOK /\ Account

(* ErrorsAccounted is the account of these sets. *)
LEMMA AccountIsErrorsAccounted == Account <=> ErrorsAccounted
BY DEF Account, ErrorsAccounted, Failed, Closed, Reported

(* The sets are finite, and their sizes natural numbers. *)
LEMMA SetsFinite ==
    /\ IsFiniteSet(Failed) /\ IsFiniteSet(Closed) /\ IsFiniteSet(Reported)
    /\ Cardinality(Failed) \in Nat /\ Cardinality(Closed) \in Nat
    /\ Cardinality(Reported) \in Nat
<1>1. /\ Failed \in SUBSET Accepters
      /\ Closed \in SUBSET Closers
      /\ Reported \in SUBSET Conns
  BY DEF Failed, Closed, Reported
<1>2. IsFiniteSet(Failed) /\ IsFiniteSet(Closed) /\ IsFiniteSet(Reported)
  BY <1>1, ListenerAssumption, FS_Subset
<1> QED BY <1>2, FS_CardinalityType

(* A set that gains one element grows by one. *)
LEMMA OneMore ==
    ASSUME NEW S, NEW x, IsFiniteSet(S), x \notin S
    PROVE  Cardinality(S \cup {x}) = Cardinality(S) + 1
BY FS_AddElement

(* The capacities of the two Go channels. *)
LEMMA ErrsCapValue == ErrsCap \in 1..2
BY DEF ErrsCap

LEMMA ListenerInit == Init => ListenerInv
<1> SUFFICES ASSUME Init PROVE ListenerInv
  OBVIOUS
<1>1. Failed = {} /\ Closed = {} /\ Reported = {}
  BY DEF Init, Failed, Closed, Reported
<1>2. Cardinality({}) = 0
  BY FS_EmptySet
<1>3. TypeOK
  BY ErrsCapValue DEF Init, TypeOK
<1>4. Account
  BY <1>1, <1>2 DEF Init, Account
<1> QED BY <1>3, <1>4 DEF ListenerInv

(* The steps that leave the account alone: connections that come and go,   *)
(* calls that begin or end, and sessions handed over.                      *)
LEMMA QuietStep ==
    ASSUME ListenerInv,
           \/ \E c \in Conns : Dial(c) \/ Take(c) \/ SessionEnds(c)
           \/ ServeError
           \/ \E p \in Accepters : AcceptCall(p) \/ AcceptSession(p)
           \/ \E k \in Closers : CloseCall(k) \/ CloseOS(k)
           \/ UNCHANGED vars
    PROVE  ListenerInv'
<1>1. TypeOK'
  <2>1. CASE \E c \in Conns : Dial(c) \/ Take(c) \/ SessionEnds(c)
    BY <2>1 DEF ListenerInv, TypeOK, Dial, Take, SessionEnds, ErrsCap
  <2>2. CASE ServeError \/ UNCHANGED vars
    BY <2>2 DEF ListenerInv, TypeOK, ServeError, vars, ErrsCap
  <2>3. CASE \E p \in Accepters : AcceptCall(p) \/ AcceptSession(p)
    BY <2>3 DEF ListenerInv, TypeOK, AcceptCall, AcceptSession, Offered, ErrsCap
  <2>4. ASSUME NEW k \in Closers, CloseCall(k) PROVE TypeOK'
    BY <2>4 DEF ListenerInv, TypeOK, CloseCall, ErrsCap
  <2>5. ASSUME NEW k \in Closers, CloseOS(k) PROVE TypeOK'
    <3>1. conn' \in [Conns -> {"idle", "dialled", "offered", "accepted", "ended",
                               "reported", "reset"}]
      BY <2>5 DEF ListenerInv, TypeOK, CloseOS
    <3> QED BY <2>5, <3>1 DEF ListenerInv, TypeOK, CloseOS, Shut, ErrsCap
  <2> QED BY <2>1, <2>2, <2>3, <2>4, <2>5
<1>2. Failed' = Failed /\ Closed' = Closed /\ Reported' = Reported
  <2>1. CASE \E c \in Conns : Dial(c) \/ Take(c) \/ SessionEnds(c)
    BY <2>1 DEF ListenerInv, TypeOK, Dial, Take, SessionEnds, Failed, Closed, Reported
  <2>2. CASE ServeError \/ UNCHANGED vars
    BY <2>2 DEF ServeError, vars, Failed, Closed, Reported
  <2>3. CASE \E p \in Accepters : AcceptCall(p) \/ AcceptSession(p)
    BY <2>3 DEF ListenerInv, TypeOK, AcceptCall, AcceptSession, Offered, Failed, Closed, Reported
  <2>4. CASE \E k \in Closers : CloseCall(k) \/ CloseOS(k)
    BY <2>4 DEF ListenerInv, TypeOK, CloseCall, CloseOS, Failed, Closed, Reported
  <2> QED BY <2>1, <2>2, <2>3, <2>4
<1>3. errs' = errs /\ closer' = closer /\ (serve = "done") = (serve' = "done")
  BY DEF Dial, Take, SessionEnds, ServeError, AcceptCall, AcceptSession, CloseCall, CloseOS, vars
<1> QED BY <1>1, <1>2, <1>3 DEF ListenerInv, Account

(* The serving goroutine, or a handler in mode ws, reports its error. *)
LEMMA ReportStep ==
    ASSUME ListenerInv, Report \/ \E c \in Conns : ReportSession(c)
    PROVE  ListenerInv'
<1> USE ErrsCapValue, SetsFinite DEF ListenerInv
<1>1. CASE Report
  <2>1. Failed' = Failed /\ Closed' = Closed /\ Reported' = Reported
    BY <1>1 DEF Report, Failed, Closed, Reported
  <2>2. TypeOK'
    BY <1>1 DEF Report, ErrsRoom, ErrsCap, TypeOK
  <2>3. Account'
    BY <1>1, <2>1 DEF Report, Account, TypeOK
  <2> QED BY <2>2, <2>3
<1>2. ASSUME NEW c \in Conns, ReportSession(c) PROVE ListenerInv'
  <2>1. /\ Failed' = Failed /\ Closed' = Closed
        /\ Reported' = Reported \cup {c} /\ c \notin Reported
    BY <1>2 DEF ReportSession, Failed, Closed, Reported, TypeOK
  <2>2. Cardinality(Reported') = Cardinality(Reported) + 1
    BY <2>1, OneMore
  <2>3. TypeOK'
    BY <1>2 DEF ReportSession, ErrsRoom, ErrsCap, TypeOK
  <2>4. Account'
    BY <1>2, <2>1, <2>2 DEF ReportSession, Account, TypeOK
  <2> QED BY <2>3, <2>4
<1> QED BY <1>1, <1>2

(* An Accept returns an error: one of errs, or io.EOF for a value of       *)
(* closer.                                                                 *)
LEMMA AcceptFailsStep ==
    ASSUME ListenerInv, NEW p \in Accepters, AcceptErr(p) \/ AcceptEOF(p)
    PROVE  ListenerInv'
<1> USE ErrsCapValue, SetsFinite DEF ListenerInv
<1>1. /\ Closed' = Closed /\ Reported' = Reported
      /\ Failed' = Failed \cup {p} /\ p \notin Failed
  BY DEF AcceptErr, AcceptEOF, Failed, Closed, Reported, TypeOK
<1>2. Cardinality(Failed') = Cardinality(Failed) + 1
  BY <1>1, OneMore
<1>3. TypeOK'
  BY DEF AcceptErr, AcceptEOF, AfterToken, ErrsCap, TypeOK
<1>4. Account'
  BY <1>1, <1>2 DEF AcceptErr, AcceptEOF, AfterToken, Account, TypeOK
<1> QED BY <1>3, <1>4

(* A Close puts its value on closer. *)
LEMMA CloseTokenStep ==
    ASSUME ListenerInv, NEW k \in Closers, CloseToken(k)
    PROVE  ListenerInv'
<1> USE ErrsCapValue, SetsFinite DEF ListenerInv
<1>1. /\ Failed' = Failed /\ Reported' = Reported
      /\ Closed' = Closed \cup {k} /\ k \notin Closed
  BY DEF CloseToken, Failed, Closed, Reported, TypeOK
<1>2. Cardinality(Closed') = Cardinality(Closed) + 1
  BY <1>1, OneMore
<1>3. TypeOK'
  BY DEF CloseToken, ErrsCap, TypeOK
<1>4. Account'
  BY <1>1, <1>2 DEF CloseToken, CloserRoom, Account, TypeOK
<1> QED BY <1>3, <1>4

(* Every step keeps types and account. *)
LEMMA ListenerStep == ListenerInv /\ [Next]_vars => ListenerInv'
BY QuietStep, ReportStep, AcceptFailsStep, CloseTokenStep DEF Next, Goroutines, Accept, Close

(* errs and closer never hold more than they were made for, so that a send *)
(* on them blocks in the states the model says it does (listen_net.go:45). *)
THEOREM ListenerTypes == Spec => []TypeOK
<1>1. ListenerInv => TypeOK
  BY DEF ListenerInv
<1> QED BY <1>1, ListenerInit, ListenerStep, PTL DEF Spec

(* Every error that Accept returns stands for one Close, for the end of    *)
(* the serving goroutine or for one ended session of mode ws, and each of  *)
(* these is returned at most once (listen_net.go:18-38, listen_ws.go:17).  *)
THEOREM ListenerErrorsAccounted == Spec => []ErrorsAccounted
<1>1. ListenerInv => ErrorsAccounted
  BY AccountIsErrorsAccounted DEF ListenerInv
<1> QED BY <1>1, ListenerInit, ListenerStep, PTL DEF Spec
=============================================================================

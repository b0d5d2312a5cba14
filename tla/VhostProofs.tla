----------------------------- MODULE VhostProofs -----------------------------
(***************************************************************************)
(* Proofs about the muxer of Vhost, for any connections, hosts and calls   *)
(* of Listen.  The invariant adds to the four checked ones what a step of  *)
(* handle relies on: a connection is with no owner before the hand-over,   *)
(* and a listener that get has returned keeps the name it was found under, *)
(* also after it was closed and the name was bound again.                  *)
(***************************************************************************)
EXTENDS Vhost, TLAPS

Untaken == {"new", "mux", "get", "send", "panicUnset"}

(* Before the hand-over nobody has the connection, and before get no       *)
(* listener is known for it.                                               *)
Progress ==
    \A c \in Conns : /\ cpc[c] \in Untaken => taken[c] = None
                     /\ cpc[c] \in {"new", "mux", "get"} => target[c] = None
                     /\ cpc[c] \in {"get", "send"} => host[c] \in Hosts

(* A listener that was found or that accepted has a name that matches the  *)
(* connection's host, and is past Listen.                                  *)
Found ==
    \A c \in Conns : \A o \in Owners :
        o = target[c] \/ o = taken[c] => Matches(name[o], host[c]) /\ lstate[o] # "unused"

(* A listener has a name from Listen on. *)
Named == \A o \in Owners : lstate[o] # "unused" => name[o] \in Hosts

VhostInv ==
    VhostTypeOK /\ RegistryExact /\ Progress /\ Found /\ Named /\ ServedNotClosed

USE VhostAssumption DEF Step

(* The muxer starts with an empty registry and no connection. *)
LEMMA VhostInitInv == VhostInit => VhostInv
BY DEF VhostInit, VhostInv, VhostTypeOK, RegistryExact, Progress, Found, Named,
       ServedNotClosed, Untaken, Reporting

(* The accept loop of run. *)
LEMMA RunStep ==
    ASSUME VhostInv,
           RunError \/ RunReport \/ MuxerClose \/ \E c \in Conns : RunAccept(c)
    PROVE  VhostInv'
<1>1. CASE RunError
  BY <1>1 DEF RunError, VhostInv, VhostTypeOK, RegistryExact, Progress, Found, Named,
              ServedNotClosed, Untaken, Reporting, listenerVars, connVars
<1>2. CASE RunReport
  BY <1>2 DEF RunReport, IsClosed, VhostInv, VhostTypeOK, RegistryExact, Progress, Found, Named,
              ServedNotClosed, Untaken, Reporting, listenerVars, connVars
<1>3. CASE MuxerClose
  BY <1>3 DEF MuxerClose, VhostInv, VhostTypeOK, RegistryExact, Progress, Found, Named,
              ServedNotClosed, Untaken, Reporting, listenerVars, connVars
<1>4. ASSUME NEW c \in Conns, RunAccept(c) PROVE VhostInv'
  BY <1>4 DEF RunAccept, VhostInv, VhostTypeOK, RegistryExact, Progress, Found, Named,
              ServedNotClosed, Untaken, Reporting, listenerVars, runVars
<1> QED BY <1>1, <1>2, <1>3, <1>4

(* What get returns for a host is no listener, or one that is bound to a   *)
(* name that matches the host (mux.go:162-179).                            *)
LEMMA LookupFinds ==
    ASSUME VhostTypeOK, RegistryExact, NEW n \in Hosts
    PROVE  /\ Lookup(n) \in Owners \cup {None}
           /\ Lookup(n) \in Owners => /\ Matches(name[Lookup(n)], n)
                                      /\ lstate[Lookup(n)] = "bound"
<1>1. CASE First(n) = {}
  BY <1>1 DEF Lookup
<1>2. CASE First(n) # {}
  <2>1. PICK i \in First(n) : i = CHOOSE k \in First(n) : TRUE
    BY <1>2
  <2>2. Candidates[n] \in Seq(Hosts) /\ i \in DOMAIN Candidates[n]
    BY CandidatesAssumption DEF First
  <2>3. Candidates[n][i] \in Hosts
    BY <2>2
  <2>4. Lookup(n) = registry[Candidates[n][i]]
    BY <1>2, <2>1 DEF Lookup
  <2>5. Lookup(n) \in Owners \cup {None}
    BY <2>3, <2>4 DEF VhostTypeOK
  <2>6. ASSUME Lookup(n) \in Owners
        PROVE  name[Lookup(n)] = Candidates[n][i] /\ lstate[Lookup(n)] = "bound"
    BY <2>3, <2>4, <2>6 DEF RegistryExact
  <2> QED BY <2>2, <2>5, <2>6 DEF Matches
<1> QED BY <1>1, <1>2

(* One step of handle, or of the error loop, with one connection. *)
LEMMA HandleStep ==
    ASSUME VhostInv, NEW c \in Conns, Handle(c)
    PROVE  VhostInv'
<1>1. CASE Mux(c)
  BY <1>1 DEF Mux, VhostInv, VhostTypeOK, RegistryExact, Progress, Found, Named,
              ServedNotClosed, Untaken, Reporting, listenerVars, runVars
<1>2. CASE Get(c)
  <2>1. host[c] \in Hosts /\ taken[c] = None
    BY <1>2 DEF Get, VhostInv, Progress, Untaken
  <2>2. /\ Lookup(host[c]) \in Owners \cup {None}
        /\ Lookup(host[c]) \in Owners =>
              /\ Matches(name[Lookup(host[c])], host[c])
              /\ lstate[Lookup(host[c])] = "bound"
    BY <2>1, LookupFinds DEF VhostInv
  <2>3. VhostTypeOK' /\ RegistryExact'
    BY <1>2, <2>1, <2>2 DEF Get, AfterGet, VhostInv, VhostTypeOK, RegistryExact, Reporting,
                            listenerVars, runVars
  <2>4. Progress' /\ ServedNotClosed'
    BY <1>2, <2>1 DEF Get, AfterGet, VhostInv, VhostTypeOK, Progress, ServedNotClosed, Untaken,
                      Reporting, listenerVars, runVars
  <2>5. Found' /\ Named'
    BY <1>2, <2>1, <2>2 DEF Get, VhostInv, VhostTypeOK, Found, Named, listenerVars, runVars
  <2> QED BY <2>3, <2>4, <2>5 DEF VhostInv
<1>3. CASE PanicSend(c)
  BY <1>3 DEF PanicSend, VhostInv, VhostTypeOK, RegistryExact, Progress, Found, Named,
              ServedNotClosed, Untaken, Reporting, listenerVars, runVars
<1>4. CASE Unset(c)
  BY <1>4 DEF Unset, VhostInv, VhostTypeOK, RegistryExact, Progress, Found, Named,
              ServedNotClosed, Untaken, Reporting, listenerVars, runVars
<1>5. CASE NextError(c)
  BY <1>5 DEF NextError, AfterReport, VhostInv, VhostTypeOK, RegistryExact, Progress,
              Found, Named, ServedNotClosed, Untaken, Reporting, listenerVars, runVars
<1> QED BY <1>1, <1>2, <1>3, <1>4, <1>5 DEF Handle

(* One step of the owner of a listener. *)
LEMMA OwnerStep ==
    ASSUME VhostInv, NEW o \in Owners,
           \/ \E n \in Hosts : Listen(o, n)
           \/ \E c \in Conns : Accept(o, c)
           \/ CloseDel(o) \/ CloseAccept(o)
    PROVE  VhostInv'
<1>1. ASSUME NEW n \in Hosts, Listen(o, n) PROVE VhostInv'
  <2>1. VhostTypeOK'
    BY <1>1 DEF Listen, VhostInv, VhostTypeOK, Reporting, connVars, runVars
  <2>2. RegistryExact'
    BY <1>1 DEF Listen, VhostInv, VhostTypeOK, RegistryExact, connVars, runVars
  <2>3. Progress' /\ ServedNotClosed'
    BY <1>1 DEF Listen, VhostInv, Progress, ServedNotClosed, Untaken, Reporting,
                connVars, runVars
  <2>4. Found' /\ Named'
    BY <1>1 DEF Listen, VhostInv, VhostTypeOK, Found, Named, connVars, runVars
  <2> QED BY <2>1, <2>2, <2>3, <2>4 DEF VhostInv
<1>2. ASSUME NEW c \in Conns, Accept(o, c) PROVE VhostInv'
  BY <1>2 DEF Accept, VhostInv, VhostTypeOK, RegistryExact, Progress, Found, Named,
              ServedNotClosed, Untaken, Reporting, listenerVars, runVars
<1>3. CASE CloseDel(o)
  <2>1. name[o] \in Hosts /\ registry[name[o]] = o
    BY <1>3 DEF CloseDel, VhostInv, VhostTypeOK, Named, RegistryExact
  <2>2. VhostTypeOK'
    BY <1>3 DEF CloseDel, VhostInv, VhostTypeOK, Reporting, connVars, runVars
  <2>3. RegistryExact'
    BY <1>3, <2>1 DEF CloseDel, VhostInv, VhostTypeOK, RegistryExact, connVars, runVars
  <2>4. Progress' /\ ServedNotClosed' /\ Found' /\ Named'
    BY <1>3 DEF CloseDel, VhostInv, VhostTypeOK, Progress, ServedNotClosed, Found, Named,
                Untaken, Reporting, connVars, runVars
  <2> QED BY <2>2, <2>3, <2>4 DEF VhostInv
<1>4. CASE CloseAccept(o)
  BY <1>4 DEF CloseAccept, VhostInv, VhostTypeOK, RegistryExact, Progress, Found, Named,
              ServedNotClosed, Untaken, Reporting, connVars, runVars
<1> QED BY <1>1, <1>2, <1>3, <1>4

(* An owner closes a connection. *)
LEMMA CloseConnStep ==
    ASSUME VhostInv, NEW c \in Conns, CloseConn(c)
    PROVE  VhostInv'
BY DEF CloseConn, VhostInv, VhostTypeOK, RegistryExact, Progress, Found, Named,
       ServedNotClosed, Untaken, Reporting, listenerVars, runVars

(* Nothing happens in the muxer. *)
LEMMA VhostStutter ==
    ASSUME VhostInv, UNCHANGED vhostVars
    PROVE  VhostInv'
BY DEF vhostVars, connVars, VhostInv, VhostTypeOK, RegistryExact, Progress, Found, Named,
       ServedNotClosed, Untaken, Reporting, listenerVars, runVars

(* Every step keeps the invariant. *)
LEMMA VhostNextInv == VhostInv /\ [VhostNext]_vhostVars => VhostInv'
BY RunStep, HandleStep, OwnerStep, CloseConnStep, VhostStutter DEF VhostNext, MuxerStep

(* The invariant implies that an accepted connection is with a listener    *)
(* whose name matches its host.                                            *)
LEMMA InvDelivered == VhostInv => DeliveredByName
BY DEF VhostInv, VhostTypeOK, Found, DeliveredByName

(* The state keeps its types, and no connection is sent to a nil listener. *)
THEOREM VhostTypes == VhostSpec => []VhostTypeOK
<1>1. VhostInv => VhostTypeOK
  BY DEF VhostInv
<1> QED BY <1>1, VhostInitInv, VhostNextInv, PTL DEF VhostSpec

(* Names and listeners correspond one to one, although Close deletes by    *)
(* name and Listen and Close of many owners interleave (mux.go:181-195).   *)
THEOREM VhostRegistryExact == VhostSpec => []RegistryExact
<1>1. VhostInv => RegistryExact
  BY DEF VhostInv
<1> QED BY <1>1, VhostInitInv, VhostNextInv, PTL DEF VhostSpec

(* A listener receives only connections made to its name, or to one that   *)
(* its wildcard matches (mux.go:297).                                      *)
THEOREM VhostDeliveredByName == VhostSpec => []DeliveredByName
BY InvDelivered, VhostInitInv, VhostNextInv, PTL DEF VhostSpec

(* The error loop of main never closes a connection that its owner still   *)
(* uses (mux.go:132-136, server.go:92-100).                                *)
THEOREM VhostServedNotClosed == VhostSpec => []ServedNotClosed
<1>1. VhostInv => ServedNotClosed
  BY DEF VhostInv
<1> QED BY <1>1, VhostInitInv, VhostNextInv, PTL DEF VhostSpec
=============================================================================

----------------------------- MODULE TunnelProofs -----------------------------
(***************************************************************************)
(* Proofs about the tunnels of Tunnel, for any requests, visitors,         *)
(* addresses, subscriptions and limits.  The counts of active and of the   *)
(* limit are not inductive by themselves: that a slot is given back to the *)
(* entry it was taken from needs that a visitor is held by one loop or one *)
(* JoinEncrypted, below the request whose listener accepted it, and that   *)
(* a request does not change its entry or subscription while it serves.    *)
(* No finiteness of the constants is assumed: at any time finitely many    *)
(* loops and joins have started.                                           *)
(***************************************************************************)
EXTENDS Tunnel, VhostProofs, FiniteSetTheorems

Serving(h) == gpc[h] # "none"

(* What the handler has set before each of its steps uses it. *)
Entries ==
    \A h \in Owners :
        /\ hpc[h] \notin {"idle", "done"} => addr[h] \in Addrs
        /\ hpc[h] \notin {"idle", "signin", "done"} => sub[h] \in Subs
        /\ hpc[h] \in {"listen", "details", "keys"} => clientConn[h] \in Owners
        /\ hpc[h] \in {"idle", "signin", "entry", "listen", "details", "keys"} => ~Serving(h)
        /\ Serving(h) => clientConn[h] \in Owners /\ sub[h] \in Subs

(* A visitor is with the loop that accepted it, or with a JoinEncrypted    *)
(* below that loop, and not with both.                                     *)
Visitors ==
    /\ \A v \in joins : taken[v] \in Owners /\ Serving(taken[v])
    /\ \A h \in Owners : gpc[h] = "open" => /\ holding[h] \in Conns \ joins
                                            /\ taken[holding[h]] = h

(* Finitely many loops and joins are running. *)
FinitelyMany ==
    IsFiniteSet(joins) /\ IsFiniteSet({h \in Owners : Serving(h)})

Held(k) == {h \in Owners : clientConn[h] = k /\ Slot(h)}
Joined(k) == {v \in joins : clientConn[taken[v]] = k}

TunnelInv ==
    /\ VhostInv /\ TunnelTypeOK
    /\ Entries /\ Visitors /\ FinitelyMany
    /\ SlotsAccounted /\ WithinLimit

(* The sets that are counted are finite. *)
LEMMA CountedFinite ==
    ASSUME FinitelyMany, NEW k
    PROVE  IsFiniteSet(Held(k)) /\ IsFiniteSet(Joined(k)) /\ IsFiniteSet(Joins(k))
<1>1. Held(k) \subseteq {h \in Owners : Serving(h)}
  BY DEF Held, Slot, Serving
<1>2. Joined(k) \subseteq joins /\ Joins(k) \subseteq joins
  BY DEF Joined, Joins
<1> QED BY <1>1, <1>2, FS_Subset DEF FinitelyMany

(* Nothing runs at first. *)
LEMMA TunnelInit == Init => TunnelInv
<1> SUFFICES ASSUME Init PROVE TunnelInv
  OBVIOUS
<1>1. VhostInv
  BY VhostInitInv DEF Init
<1>2. TunnelTypeOK
  BY <1>1 DEF Init, TunnelTypeOK, VhostInv
<1>3. Entries /\ Visitors
  BY DEF Init, Entries, Visitors, Serving
<1>4. {h \in Owners : Serving(h)} = {} /\ joins = {}
  BY DEF Init, Serving
<1>5. FinitelyMany
  BY <1>4, FS_EmptySet DEF FinitelyMany
<1>6. SlotsAccounted
  <2> SUFFICES ASSUME NEW k \in Owners
               PROVE  active[k] = Cardinality({h \in Owners : clientConn[h] = k /\ Slot(h)})
                                    + Cardinality({v \in joins : clientConn[taken[v]] = k})
    BY DEF SlotsAccounted
  <2>1. /\ {h \in Owners : clientConn[h] = k /\ Slot(h)} = {}
        /\ {v \in joins : clientConn[taken[v]] = k} = {}
    BY DEF Init, Slot
  <2> QED BY <2>1, FS_EmptySet DEF Init
<1>7. WithinLimit
  BY DEF Init, WithinLimit
<1> QED BY <1>1, <1>2, <1>3, <1>5, <1>6, <1>7 DEF TunnelInv

(* A step that leaves the loops, the joins, the counts and the entries of  *)
(* the requests that serve alone keeps the accounts.                       *)
LEMMA Steady ==
    ASSUME TunnelInv, UNCHANGED <<serveVars, taken>>,
           \A h \in Owners : Serving(h) => clientConn'[h] = clientConn[h] /\ sub'[h] = sub[h]
    PROVE  Visitors' /\ FinitelyMany' /\ SlotsAccounted' /\ WithinLimit'
<1>0. UNCHANGED <<active, gpc, holding, joins, taken>>
  BY DEF serveVars
<1>1. Visitors' /\ FinitelyMany'
  BY <1>0 DEF TunnelInv, Visitors, FinitelyMany, Serving
<1>2. SlotsAccounted'
  <2> SUFFICES ASSUME NEW k \in Owners
               PROVE  active'[k] = Cardinality({h \in Owners : clientConn'[h] = k /\ Slot(h)'})
                                     + Cardinality({v \in joins' : clientConn'[taken'[v]] = k})
    BY DEF SlotsAccounted
  <2>1. {h \in Owners : clientConn'[h] = k /\ Slot(h)'}
          = {h \in Owners : clientConn[h] = k /\ Slot(h)}
    BY <1>0 DEF Slot, Serving
  <2>2. {v \in joins' : clientConn'[taken'[v]] = k} = {v \in joins : clientConn[taken[v]] = k}
    BY <1>0 DEF TunnelInv, Visitors
  <2> QED BY <1>0, <2>1, <2>2 DEF TunnelInv, SlotsAccounted
<1>3. WithinLimit'
  <2> SUFFICES ASSUME NEW h \in Owners, gpc'[h] # "none"
               PROVE  Cardinality(Joins(h)') + (IF Slot(h)' THEN 1 ELSE 0) <= Limit[sub'[h]]
    BY DEF WithinLimit
  <2>1. Joins(h)' = Joins(h) /\ (Slot(h)' <=> Slot(h)) /\ sub'[h] = sub[h] /\ Serving(h)
    BY <1>0 DEF Joins, Slot, Serving
  <2> QED BY <2>1 DEF TunnelInv, WithinLimit, Serving
<1> QED BY <1>1, <1>2, <1>3

(* The steps of a handler up to the key exchange and after it, of the      *)
(* session, and of the muxer: none touches the loops.                      *)
LEMMA HandlerStep ==
    ASSUME TunnelInv, NEW h \in Owners,
           \/ \E a \in Addrs : Request(h, a)
           \/ SignIn(h) \/ GetEntry(h) \/ ListenPublic(h) \/ AddDetails(h)
           \/ SessionEnds(h) \/ WaitReturns(h) \/ DeleteEntry(h) \/ ClosePublic(h)
    PROVE  TunnelInv'
<1> USE TunnelAssumption DEF Goto
<1>0. UNCHANGED <<serveVars, taken>>
  BY DEF Request, SignIn, GetEntry, ListenPublic, AddDetails, SessionEnds, WaitReturns,
         DeleteEntry, ClosePublic, Listen, CloseDel, CloseAccept, vhostVars, connVars
<1>1. VhostInv'
  <2>1. \/ UNCHANGED vhostVars \/ \E n \in Hosts : Listen(h, n)
        \/ CloseDel(h) \/ CloseAccept(h)
    BY DEF Request, SignIn, GetEntry, ListenPublic, AddDetails, SessionEnds, WaitReturns,
           DeleteEntry, ClosePublic
  <2> QED BY <2>1, VhostStutter, OwnerStep DEF TunnelInv
<1>2. gpc' = gpc /\ active' = active /\ holding' = holding /\ joins' = joins
  BY <1>0 DEF serveVars
<1>3. TunnelTypeOK' /\ Entries'
  <2>0. VhostTypeOK' /\ \A k \in Owners : Serving(k)' <=> Serving(k)
    BY <1>1, <1>2 DEF VhostInv, Serving
  <2>1. ASSUME NEW a \in Addrs, Request(h, a) PROVE TunnelTypeOK' /\ Entries'
    BY <1>2, <2>0, <2>1 DEF Request, TunnelInv, TunnelTypeOK, Entries
  <2>2. CASE SignIn(h)
    BY <1>2, <2>0, <2>2 DEF SignIn, TunnelInv, TunnelTypeOK, Entries
  <2>3. CASE GetEntry(h)
    <3>1. addr[h] \in Addrs /\ h \in Owners /\ ~Serving(h)
      BY <2>3 DEF GetEntry, TunnelInv, Entries
    <3>2. PICK k \in Owners : /\ connections' = [connections EXCEPT ![addr[h]] = k]
                              /\ clientConn' = [clientConn EXCEPT ![h] = k]
      BY <2>3, <3>1 DEF GetEntry, TunnelInv, TunnelTypeOK
    <3>3. TunnelTypeOK'
      BY <1>2, <2>0, <2>3, <3>1, <3>2 DEF GetEntry, TunnelInv, TunnelTypeOK
    <3>4. Entries'
      BY <1>2, <2>0, <2>3, <3>1, <3>2 DEF GetEntry, TunnelInv, TunnelTypeOK, Entries
    <3> QED BY <3>3, <3>4
  <2>4. CASE ListenPublic(h)
    BY <1>2, <2>0, <2>4 DEF ListenPublic, TunnelInv, TunnelTypeOK, Entries
  <2>5. CASE AddDetails(h)
    BY <1>2, <2>0, <2>5 DEF AddDetails, TunnelInv, TunnelTypeOK, Entries
  <2>6. CASE SessionEnds(h)
    BY <1>2, <2>0, <2>6 DEF SessionEnds, TunnelInv, TunnelTypeOK, Entries
  <2>7. CASE WaitReturns(h)
    BY <1>2, <2>0, <2>7 DEF WaitReturns, TunnelInv, TunnelTypeOK, Entries
  <2>8. CASE DeleteEntry(h)
    BY <1>2, <2>0, <2>8 DEF DeleteEntry, EntryDeleted, TunnelInv, TunnelTypeOK, Entries
  <2>9. CASE ClosePublic(h)
    BY <1>2, <2>0, <2>9 DEF ClosePublic, TunnelInv, TunnelTypeOK, Entries
  <2> QED BY <2>1, <2>2, <2>3, <2>4, <2>5, <2>6, <2>7, <2>8, <2>9
<1>4. \A k \in Owners : Serving(k) => clientConn'[k] = clientConn[k] /\ sub'[k] = sub[k]
  BY DEF Request, SignIn, GetEntry, ListenPublic, AddDetails, SessionEnds, WaitReturns,
         DeleteEntry, ClosePublic, TunnelInv, TunnelTypeOK, Entries
<1> QED BY <1>0, <1>1, <1>3, <1>4, Steady DEF TunnelInv

(* A step of the muxer. *)
LEMMA MuxerKeeps ==
    ASSUME TunnelInv, Muxer
    PROVE  TunnelInv'
<1>1. VhostInv'
  BY VhostNextInv DEF TunnelInv, Muxer, VhostNext
<1>2. UNCHANGED <<handlerVars, serveVars, crashed>>
  BY DEF Muxer, Apart
<1>3. taken' = taken
  BY DEF Muxer, MuxerStep, RunError, RunReport, MuxerClose, RunAccept, Handle, Mux, Get,
         PanicSend, Unset, NextError, connVars
<1>4. TunnelTypeOK' /\ Entries'
  BY <1>1, <1>2 DEF TunnelInv, TunnelTypeOK, VhostInv, Entries, Serving, handlerVars, serveVars
<1>5. clientConn' = clientConn /\ sub' = sub
  BY <1>2 DEF handlerVars
<1> QED BY <1>1, <1>2, <1>3, <1>4, <1>5, Steady DEF TunnelInv

(* SlotsAccounted in terms of the sets that it counts. *)
LEMMA Accounts ==
    /\ SlotsAccounted <=>
          \A k \in Owners : active[k] = Cardinality(Held(k)) + Cardinality(Joined(k))
    /\ SlotsAccounted' <=>
          \A k \in Owners : active'[k] = Cardinality(Held(k)') + Cardinality(Joined(k)')
BY DEF SlotsAccounted, Held, Joined

(* The counted sets after an element was added or removed. *)
LEMMA CountOneMore ==
    ASSUME NEW S, IsFiniteSet(S), NEW x, x \notin S
    PROVE  /\ IsFiniteSet(S \cup {x})
           /\ Cardinality(S \cup {x}) = Cardinality(S) + 1
BY FS_AddElement

LEMMA CountOneLess ==
    ASSUME NEW S, IsFiniteSet(S), NEW x \in S
    PROVE  /\ IsFiniteSet(S \ {x})
           /\ Cardinality(S \ {x}) = Cardinality(S) - 1
           /\ Cardinality(S) \in Nat /\ Cardinality(S) > 0
BY FS_RemoveElement, FS_CardinalityType, FS_EmptySet

(* A step of a loop that neither takes nor gives back a slot, whatever it  *)
(* accepts meanwhile.                                                      *)
LEMMA SlotsKept ==
    ASSUME TunnelInv, UNCHANGED <<active, joins, clientConn, sub>>,
           \A k \in Owners : (Slot(k)' <=> Slot(k)) /\ (Serving(k)' <=> Serving(k)),
           \A v \in joins : taken'[v] = taken[v]
    PROVE  FinitelyMany' /\ SlotsAccounted' /\ WithinLimit'
<1>1. \A k \in Owners : /\ Held(k)' = Held(k) /\ Joined(k)' = Joined(k)
                        /\ Joins(k)' = Joins(k)
  BY DEF Held, Joined, Joins
<1>2. FinitelyMany'
  <2>1. {k \in Owners : Serving(k)}' = {k \in Owners : Serving(k)}
    OBVIOUS
  <2> QED BY <2>1 DEF FinitelyMany, TunnelInv
<1>3. SlotsAccounted'
  BY <1>1, Accounts DEF TunnelInv
<1>4. WithinLimit'
  BY <1>1 DEF WithinLimit, TunnelInv, Serving
<1> QED BY <1>2, <1>3, <1>4

(* Those steps of a loop. *)
LEMMA LoopMoves ==
    ASSUME TunnelInv, NEW h \in Owners,
           \/ CheckLimit(h) /\ AtLimit(h)
           \/ Increment(h)
           \/ RateWait(h) /\ Limit[sub[clientConn[h]]] > 0
           \/ AcceptVisitor(h) /\ \E v \in Conns : /\ Accept(h, v) /\ Serve(h, "open")
                                                   /\ holding' = [holding EXCEPT ![h] = v]
                                                   /\ UNCHANGED active
           \/ Drain(h)
    PROVE  TunnelInv'
<1> USE DEF Serve
<1>1. /\ UNCHANGED <<handlerVars, active, joins>> /\ crashed' \in BOOLEAN
      /\ gpc \in [Owners -> {"none", "limit", "increment", "rate", "accept", "open",
                              "drain", "done"}]
      /\ gpc' \in [Owners -> {"none", "limit", "increment", "rate", "accept", "open",
                              "drain", "done"}]
  BY DEF CheckLimit, Increment, RateWait, AcceptVisitor, Drain, TunnelInv, TunnelTypeOK
<1>2. \A k \in Owners : (Slot(k)' <=> Slot(k)) /\ (Serving(k)' <=> Serving(k))
  BY <1>1 DEF CheckLimit, Increment, RateWait, AcceptVisitor, Drain, Slot, Serving
<1>3. UNCHANGED <<hpc, addr, sub, connections, clientConn, sess, active, joins>>
  BY <1>1 DEF handlerVars
<1>4. Entries'
  BY <1>2, <1>3 DEF TunnelInv, Entries
<1>5. CASE UNCHANGED <<vhostVars, holding>> /\ gpc'[h] # "open"
  <2>1. VhostInv' /\ taken' = taken
    BY <1>5, VhostStutter DEF TunnelInv, vhostVars, connVars
  <2>2. TunnelTypeOK'
    BY <1>1, <1>3, <1>5, <2>1 DEF TunnelInv, TunnelTypeOK, VhostInv
  <2>3. \A k \in Owners : gpc'[k] = "open" => gpc[k] = "open"
    BY <1>1, <1>5 DEF CheckLimit, Increment, RateWait, AcceptVisitor, Drain
  <2>4. Visitors'
    BY <1>2, <1>3, <1>5, <2>1, <2>3 DEF TunnelInv, TunnelTypeOK, VhostTypeOK, Visitors
  <2> QED BY <1>2, <1>3, <1>4, <2>1, <2>2, <2>4, SlotsKept DEF TunnelInv
<1>6. ASSUME NEW v \in Conns, Accept(h, v), Serve(h, "open"), gpc[h] = "accept",
             holding' = [holding EXCEPT ![h] = v]
      PROVE  TunnelInv'
  <2>1. VhostInv'
    BY <1>6, OwnerStep DEF TunnelInv
  <2>2. TunnelTypeOK'
    BY <1>1, <1>3, <1>6, <2>1 DEF TunnelInv, TunnelTypeOK, VhostInv
  <2>3. taken[v] = None /\ taken' = [taken EXCEPT ![v] = h] /\ taken \in [Conns -> Owners \cup {None}]
    BY <1>6 DEF Accept, TunnelInv, VhostInv, VhostTypeOK, Progress, Untaken
  <2>4. v \notin joins
    BY <2>3, VhostAssumption DEF TunnelInv, Visitors
  <2>5. \A w \in joins : taken'[w] = taken[w]
    BY <2>3, <2>4 DEF TunnelInv, TunnelTypeOK
  <2>6. Visitors'
    <3>1. \A w \in joins' : taken'[w] \in Owners /\ gpc'[taken'[w]] # "none"
      BY <1>2, <1>3, <2>5 DEF TunnelInv, Visitors, Serving
    <3>2. ASSUME NEW k \in Owners, gpc'[k] = "open"
          PROVE  holding'[k] \in Conns \ joins' /\ taken'[holding'[k]] = k
      <4>1. CASE k = h
        BY <1>3, <1>6, <2>3, <2>4, <4>1 DEF TunnelInv, TunnelTypeOK
      <4>2. CASE k # h
        <5>1. /\ gpc[k] = "open" /\ holding'[k] = holding[k]
              /\ holding[k] \in Conns \ joins /\ taken[holding[k]] = k
          BY <1>1, <1>6, <3>2, <4>2 DEF TunnelInv, TunnelTypeOK, Visitors
        <5>2. holding[k] # v
          BY <2>3, <5>1, VhostAssumption
        <5> QED BY <1>3, <2>3, <5>1, <5>2
      <4> QED BY <4>1, <4>2
    <3> QED BY <3>1, <3>2 DEF Visitors, Serving
  <2> QED BY <1>2, <1>3, <1>4, <2>1, <2>2, <2>5, <2>6, SlotsKept DEF TunnelInv
<1>7. \/ UNCHANGED <<vhostVars, holding>> /\ gpc'[h] # "open"
      \/ gpc[h] = "accept" /\ \E v \in Conns : /\ Accept(h, v) /\ Serve(h, "open")
                                               /\ holding' = [holding EXCEPT ![h] = v]
  BY <1>1 DEF CheckLimit, Increment, RateWait, AcceptVisitor, Drain
<1> QED BY <1>5, <1>6, <1>7

Places == {"none", "limit", "increment", "rate", "accept", "open", "drain", "done"}

(* The key exchange starts the loop, with no visitor below it. *)
LEMMA KeyExchangeStep ==
    ASSUME TunnelInv, NEW h \in Owners, KeyExchange(h)
    PROVE  TunnelInv'
<1> USE DEF Goto
<1>1. VhostInv' /\ taken' = taken
  BY VhostStutter DEF KeyExchange, TunnelInv, vhostVars, connVars
<1>2. UNCHANGED <<addr, sub, connections, clientConn, active, holding, joins>>
  BY DEF KeyExchange
<1>3. /\ gpc \in [Owners -> Places] /\ sub \in [Owners -> Subs \cup {None}]
      /\ gpc[h] = "none" /\ sub[h] \in Subs /\ clientConn[h] \in Owners
  BY DEF KeyExchange, TunnelInv, TunnelTypeOK, Entries, Serving, Places
<1>4. gpc' = gpc \/ gpc' = [gpc EXCEPT ![h] = "limit"]
  BY DEF KeyExchange
<1>5. TunnelTypeOK'
  BY <1>1, <1>2 DEF KeyExchange, TunnelInv, TunnelTypeOK, VhostInv
<1>6. Entries'
  BY <1>2, <1>3 DEF KeyExchange, TunnelInv, TunnelTypeOK, Entries, Serving
<1>7. Visitors'
  BY <1>1, <1>2, <1>3, <1>4 DEF TunnelInv, Visitors, Serving
<1>8. FinitelyMany'
  <2>1. {k \in Owners : Serving(k)}' \subseteq {k \in Owners : Serving(k)} \cup {h}
    BY <1>3, <1>4 DEF Serving
  <2>2. IsFiniteSet({k \in Owners : Serving(k)} \cup {h})
    BY FS_AddElement DEF TunnelInv, FinitelyMany
  <2> QED BY <1>2, <2>1, <2>2, FS_Subset DEF TunnelInv, FinitelyMany
<1>9. \A k \in Owners : /\ Held(k)' = Held(k) /\ Joined(k)' = Joined(k)
                        /\ Joins(k)' = Joins(k) /\ (Slot(k)' <=> Slot(k))
  BY <1>1, <1>2, <1>3, <1>4 DEF Held, Joined, Joins, Slot
<1>10. SlotsAccounted'
  BY <1>2, <1>9, Accounts DEF TunnelInv
<1>11. WithinLimit'
  <2> SUFFICES ASSUME NEW k \in Owners, gpc'[k] # "none"
               PROVE  Cardinality(Joins(k)') + (IF Slot(k)' THEN 1 ELSE 0) <= Limit[sub'[k]]
    BY DEF WithinLimit
  <2>1. CASE gpc[k] # "none"
    BY <1>2, <1>9, <2>1 DEF TunnelInv, WithinLimit
  <2>2. CASE gpc[k] = "none"
    <3>1. k = h
      BY <1>3, <1>4, <2>2
    <3>2. Joins(k)' = {} /\ ~Slot(k)'
      BY <1>9, <2>2 DEF Joins, Slot, TunnelInv, Visitors, Serving
    <3>3. Limit[sub'[k]] \in Nat
      BY <1>2, <1>3, <3>1, TunnelAssumption
    <3> QED BY <3>2, <3>3, FS_EmptySet
  <2> QED BY <2>1, <2>2
<1> QED BY <1>1, <1>5, <1>6, <1>7, <1>8, <1>10, <1>11 DEF TunnelInv

(* An iteration below the limit takes a slot: the visitors of the tunnel   *)
(* are among those that active counts for its entry.                       *)
LEMMA TakeSlot ==
    ASSUME TunnelInv, NEW h \in Owners, CheckLimit(h), ~AtLimit(h)
    PROVE  TunnelInv'
<1> DEFINE e == clientConn[h]
<1>1. /\ UNCHANGED <<vhostVars, handlerVars, holding, joins, crashed>>
      /\ gpc[h] = "limit" /\ gpc' = [gpc EXCEPT ![h] = "increment"]
      /\ active' = [active EXCEPT ![e] = @ + 1]
  BY DEF CheckLimit, Serve
<1>2. VhostInv' /\ taken' = taken
  BY <1>1, VhostStutter DEF TunnelInv, vhostVars, connVars
<1>3. UNCHANGED <<hpc, addr, sub, connections, clientConn, sess>>
  BY <1>1 DEF handlerVars
<1>4. e \in Owners /\ sub[h] \in Subs
  BY <1>1 DEF TunnelInv, Entries, Serving
<1>5. gpc \in [Owners -> Places] /\ active \in [Owners -> Nat]
  BY DEF TunnelInv, TunnelTypeOK, Places
<1>6. TunnelTypeOK'
  <2>1. gpc' \in [Owners -> Places] /\ active' \in [Owners -> Nat]
    BY <1>1, <1>4, <1>5 DEF Places
  <2> QED BY <1>1, <1>2, <1>3, <2>1 DEF TunnelInv, TunnelTypeOK, VhostInv, Places
<1>7. \A k \in Owners : Serving(k)' <=> Serving(k)
  BY <1>1, <1>5 DEF Serving
<1>8. Entries' /\ Visitors'
  BY <1>1, <1>2, <1>3, <1>5, <1>7 DEF TunnelInv, Entries, Visitors
<1>9. FinitelyMany'
  <2>1. {k \in Owners : Serving(k)}' = {k \in Owners : Serving(k)}
    BY <1>7
  <2> QED BY <1>1, <2>1 DEF TunnelInv, FinitelyMany
<1>10. \A k \in Owners : Joined(k)' = Joined(k) /\ Joins(k)' = Joins(k)
  BY <1>1, <1>2, <1>3 DEF Joined, Joins
<1>11. SlotsAccounted'
  <2> SUFFICES ASSUME NEW k \in Owners
               PROVE  active'[k] = Cardinality(Held(k)') + Cardinality(Joined(k)')
    BY Accounts
  <2>1. active[k] = Cardinality(Held(k)) + Cardinality(Joined(k))
    BY Accounts DEF TunnelInv
  <2>2. /\ IsFiniteSet(Held(k)) /\ IsFiniteSet(Joined(k))
        /\ Cardinality(Held(k)) \in Nat /\ Cardinality(Joined(k)) \in Nat
    BY CountedFinite, FS_CardinalityType DEF TunnelInv
  <2>3. CASE k = e
    <3>1. h \notin Held(k) /\ Held(k)' = Held(k) \cup {h}
      BY <1>1, <1>3, <1>5, <2>3 DEF Held, Slot
    <3>2. Cardinality(Held(k)') = Cardinality(Held(k)) + 1
      BY <2>2, <3>1, CountOneMore
    <3>3. active'[k] = active[k] + 1
      BY <1>1, <1>5, <2>3
    <3> QED BY <1>10, <2>1, <2>2, <3>2, <3>3
  <2>4. CASE k # e
    <3>1. Held(k)' = Held(k)
      BY <1>1, <1>3, <1>5, <2>4 DEF Held, Slot
    <3> QED BY <1>1, <1>5, <1>10, <2>1, <2>4, <3>1
  <2> QED BY <2>3, <2>4
<1>12. WithinLimit'
  <2> SUFFICES ASSUME NEW k \in Owners, gpc'[k] # "none"
               PROVE  Cardinality(Joins(k)') + (IF Slot(k)' THEN 1 ELSE 0) <= Limit[sub'[k]]
    BY DEF WithinLimit
  <2>1. CASE k # h
    BY <1>1, <1>3, <1>5, <1>10, <2>1 DEF TunnelInv, WithinLimit, Slot
  <2>2. CASE k = h
    <3>1. Joins(h) \subseteq Joined(e)
      BY DEF Joins, Joined
    <3>2. /\ Cardinality(Joins(h)) <= Cardinality(Joined(e))
          /\ Cardinality(Joins(h)) \in Nat /\ Cardinality(Joined(e)) \in Nat
          /\ Cardinality(Held(e)) \in Nat
      BY <3>1, CountedFinite, FS_Subset, FS_CardinalityType DEF TunnelInv
    <3>3. active[e] = Cardinality(Held(e)) + Cardinality(Joined(e))
      BY <1>4, Accounts DEF TunnelInv
    <3>4. active[e] < Limit[sub[h]]
      BY <1>4, <1>5, TunnelAssumption DEF AtLimit
    <3>5. Limit[sub[h]] \in Nat
      BY <1>4, TunnelAssumption
    <3>6. Slot(h)' /\ Joins(h)' = Joins(h) /\ sub' = sub
      BY <1>1, <1>3, <1>5, <1>10 DEF Slot
    <3> HIDE DEF e
    <3>7. Cardinality(Joins(h)) + 1 <= Limit[sub[h]]
      BY <3>2, <3>3, <3>4, <3>5
    <3> QED BY <2>2, <3>6, <3>7
  <2> QED BY <2>1, <2>2
<1> QED BY <1>2, <1>6, <1>8, <1>9, <1>11, <1>12 DEF TunnelInv

(* A loop that ends gives its slot back: the limiter failed, the listener  *)
(* is closed, or the client refused the channel.                           *)
LEMMA GiveBack ==
    ASSUME TunnelInv, NEW h \in Owners, VhostInv', Slot(h), Serve(h, "drain"), Release(h),
           UNCHANGED <<handlerVars, joins, crashed, taken>>,
           holding' = holding \/ holding' = [holding EXCEPT ![h] = None]
    PROVE  TunnelInv'
<1>3. PICK e \in Owners : e = clientConn[h]
  BY DEF TunnelInv, Entries, Serving, Slot
<1>1. /\ gpc' = [gpc EXCEPT ![h] = "drain"] /\ active' = [active EXCEPT ![e] = @ - 1]
      /\ gpc[h] # "none"
  BY <1>3 DEF Serve, Release, Entry, Slot
<1>2. UNCHANGED <<hpc, addr, sub, connections, clientConn, sess, joins, crashed, taken>>
  BY DEF handlerVars
<1>4. gpc \in [Owners -> Places] /\ active \in [Owners -> Nat]
  BY DEF TunnelInv, TunnelTypeOK, Places
<1>5. \A k \in Owners : /\ active[k] = Cardinality(Held(k)) + Cardinality(Joined(k))
                        /\ IsFiniteSet(Held(k))
                        /\ Cardinality(Held(k)) \in Nat /\ Cardinality(Joined(k)) \in Nat
  BY Accounts, CountedFinite, FS_CardinalityType DEF TunnelInv
<1>6. /\ h \in Held(e) /\ Held(e)' = Held(e) \ {h}
      /\ \A k \in Owners : k # e => Held(k)' = Held(k)
      /\ \A k \in Owners : Joined(k)' = Joined(k) /\ Joins(k)' = Joins(k)
  BY <1>1, <1>2, <1>3, <1>4 DEF Held, Slot, Joined, Joins
<1>7. Cardinality(Held(e)') = Cardinality(Held(e)) - 1 /\ Cardinality(Held(e)) > 0
  BY <1>3, <1>5, <1>6, CountOneLess
<1>8. active[e] > 0 /\ active'[e] = active[e] - 1 /\ \A k \in Owners : k # e => active'[k] = active[k]
  BY <1>1, <1>3, <1>4, <1>5, <1>7
<1>9. SlotsAccounted'
  <2>1. ASSUME NEW k \in Owners
        PROVE  active'[k] = Cardinality(Held(k)') + Cardinality(Joined(k)')
    BY <1>3, <1>5, <1>6, <1>7, <1>8
  <2> QED BY <2>1, Accounts
<1>10. TunnelTypeOK'
  <2>1. gpc' \in [Owners -> Places]
    BY <1>1, <1>4 DEF Places
  <2>2. active' \in [Owners -> Nat]
    BY <1>1, <1>3, <1>4, <1>8
  <2>3. holding' \in [Owners -> Conns \cup {None}]
    BY DEF TunnelInv, TunnelTypeOK
  <2> QED BY <1>2, <2>1, <2>2, <2>3 DEF TunnelInv, TunnelTypeOK, VhostInv, Places
<1>11. \A k \in Owners : Serving(k)' <=> Serving(k)
  BY <1>1, <1>4 DEF Serving
<1>12. Entries'
  BY <1>2, <1>11 DEF TunnelInv, Entries
<1>13. Visitors'
  <2>1. \A k \in Owners : gpc'[k] = "open" => gpc[k] = "open" /\ holding'[k] = holding[k]
    BY <1>1, <1>4 DEF TunnelInv, TunnelTypeOK
  <2> QED BY <1>2, <1>11, <2>1 DEF TunnelInv, Visitors
<1>14. FinitelyMany'
  <2>1. {k \in Owners : Serving(k)}' = {k \in Owners : Serving(k)}
    BY <1>11
  <2> QED BY <1>2, <2>1 DEF TunnelInv, FinitelyMany
<1>15. WithinLimit'
  <2> SUFFICES ASSUME NEW k \in Owners, gpc'[k] # "none"
               PROVE  Cardinality(Joins(k)') + (IF Slot(k)' THEN 1 ELSE 0) <= Limit[sub'[k]]
    BY DEF WithinLimit
  <2>1. /\ gpc[k] # "none" /\ Joins(k)' = Joins(k) /\ sub'[k] = sub[k]
        /\ Slot(k)' => Slot(k)
    BY <1>1, <1>2, <1>4, <1>6 DEF Slot
  <2>2. /\ Cardinality(Joins(k)) + (IF Slot(k) THEN 1 ELSE 0) <= Limit[sub[k]]
        /\ Cardinality(Joins(k)) \in Nat /\ Limit[sub[k]] \in Nat
    BY <2>1, CountedFinite, FS_CardinalityType, TunnelAssumption
       DEF TunnelInv, WithinLimit, Entries, Serving
  <2> QED BY <2>1, <2>2
<1> QED BY <1>9, <1>10, <1>12, <1>13, <1>14, <1>15 DEF TunnelInv

(* JoinEncrypted starts and takes the slot over: what the loop held the    *)
(* join holds, for the same entry.                                         *)
LEMMA HandOver ==
    ASSUME TunnelInv, NEW h \in Owners, gpc[h] = "open", Serve(h, "limit"),
           joins' = joins \cup {holding[h]}, holding' = [holding EXCEPT ![h] = None],
           UNCHANGED <<vhostVars, active, handlerVars, crashed>>
    PROVE  TunnelInv'
<1>0. PICK e \in Owners, w \in Conns :
           e = clientConn[h] /\ w = holding[h]
  BY DEF TunnelInv, Entries, Serving, Visitors
<1>1. gpc' = [gpc EXCEPT ![h] = "limit"]
  BY DEF Serve
<1>2. UNCHANGED <<hpc, addr, sub, connections, clientConn, sess, active, crashed>>
  BY DEF handlerVars
<1>3. VhostInv' /\ taken' = taken
  BY VhostStutter DEF TunnelInv, vhostVars, connVars
<1>4. gpc \in [Owners -> Places] /\ active \in [Owners -> Nat]
  BY DEF TunnelInv, TunnelTypeOK, Places
<1>5. w \notin joins /\ joins' = joins \cup {w} /\ taken[w] = h
  BY <1>0 DEF TunnelInv, Visitors
<1>6. \A k \in Owners : /\ active[k] = Cardinality(Held(k)) + Cardinality(Joined(k))
                        /\ IsFiniteSet(Held(k)) /\ IsFiniteSet(Joined(k)) /\ IsFiniteSet(Joins(k))
                        /\ Cardinality(Held(k)) \in Nat /\ Cardinality(Joined(k)) \in Nat
                        /\ Cardinality(Joins(k)) \in Nat
  BY Accounts, CountedFinite, FS_CardinalityType DEF TunnelInv
<1>7. /\ h \in Held(e) /\ Held(e)' = Held(e) \ {h}
      /\ \A k \in Owners : k # e => Held(k)' = Held(k)
  BY <1>0, <1>1, <1>2, <1>4 DEF Held, Slot
<1>8. /\ w \notin Joined(e) /\ Joined(e)' = Joined(e) \cup {w}
      /\ \A k \in Owners : k # e => Joined(k)' = Joined(k)
  BY <1>0, <1>2, <1>3, <1>5 DEF Joined
<1>9. /\ w \notin Joins(h) /\ Joins(h)' = Joins(h) \cup {w}
      /\ \A k \in Owners : k # h => Joins(k)' = Joins(k)
  BY <1>3, <1>5 DEF Joins
<1>10. /\ Cardinality(Held(e)') = Cardinality(Held(e)) - 1
       /\ Cardinality(Joined(e)') = Cardinality(Joined(e)) + 1
       /\ Cardinality(Joins(h)') = Cardinality(Joins(h)) + 1
  BY <1>5, <1>6, <1>7, <1>8, <1>9, CountOneLess, CountOneMore
<1>11. SlotsAccounted'
  <2> SUFFICES ASSUME NEW k \in Owners
               PROVE  active'[k] = Cardinality(Held(k)') + Cardinality(Joined(k)')
    BY Accounts
  <2>1. CASE k = e
    BY <1>2, <1>6, <1>10, <2>1
  <2>2. CASE k # e
    BY <1>2, <1>6, <1>7, <1>8, <2>2
  <2> QED BY <2>1, <2>2
<1>12. TunnelTypeOK'
  <2>1. gpc' \in [Owners -> Places] /\ holding' \in [Owners -> Conns \cup {None}]
    BY <1>1, <1>4 DEF Places, TunnelInv, TunnelTypeOK
  <2> QED BY <1>2, <1>3, <1>5, <2>1 DEF TunnelInv, TunnelTypeOK, VhostInv, Places
<1>13. \A k \in Owners : Serving(k)' <=> Serving(k)
  BY <1>1, <1>4 DEF Serving
<1>14. Entries'
  BY <1>2, <1>13 DEF TunnelInv, Entries
<1>15. Visitors'
  <2>1. \A k \in Owners : gpc'[k] = "open" => gpc[k] = "open" /\ k # h /\ holding'[k] = holding[k]
    BY <1>1, <1>4 DEF TunnelInv, TunnelTypeOK
  <2>2. \A k \in Owners : gpc'[k] = "open" => holding'[k] \in Conns \ joins' /\ taken'[holding'[k]] = k
    BY <1>3, <1>5, <2>1 DEF TunnelInv, Visitors
  <2>3. \A v \in joins' : taken'[v] \in Owners /\ gpc'[taken'[v]] # "none"
    BY <1>1, <1>3, <1>4, <1>5 DEF TunnelInv, Visitors, Serving
  <2> QED BY <2>2, <2>3 DEF Visitors, Serving
<1>16. FinitelyMany'
  <2>1. {k \in Owners : Serving(k)}' = {k \in Owners : Serving(k)}
    BY <1>13
  <2>2. IsFiniteSet(joins')
    BY <1>5, CountOneMore DEF TunnelInv, FinitelyMany
  <2> QED BY <2>1, <2>2 DEF TunnelInv, FinitelyMany
<1>17. WithinLimit'
  <2> SUFFICES ASSUME NEW k \in Owners, gpc'[k] # "none"
               PROVE  Cardinality(Joins(k)') + (IF Slot(k)' THEN 1 ELSE 0) <= Limit[sub'[k]]
    BY DEF WithinLimit
  <2>1. CASE k # h
    BY <1>1, <1>2, <1>4, <1>9, <2>1 DEF TunnelInv, WithinLimit, Slot
  <2>2. CASE k = h
    <3>1. Slot(h) /\ ~Slot(h)' /\ gpc[h] # "none" /\ sub' = sub
      BY <1>1, <1>2, <1>4 DEF Slot
    <3>2. Cardinality(Joins(h)) + 1 <= Limit[sub[h]]
      BY <3>1 DEF TunnelInv, WithinLimit
    <3> QED BY <1>6, <1>10, <2>2, <3>1, <3>2
  <2> QED BY <2>1, <2>2
<1> QED BY <1>3, <1>11, <1>12, <1>14, <1>15, <1>16, <1>17 DEF TunnelInv

(* JoinEncrypted returns and gives the slot back to the entry of the       *)
(* request whose loop accepted the visitor.                                *)
LEMMA JoinEndsStep ==
    ASSUME TunnelInv, NEW v \in Conns, JoinEnds(v)
    PROVE  TunnelInv'
<1>0. PICK o \in Owners, e \in Owners : o = taken[v] /\ e = clientConn[o]
  BY DEF JoinEnds, TunnelInv, Visitors, Entries
<1>1. /\ v \in joins /\ joins' = joins \ {v} /\ active' = [active EXCEPT ![e] = @ - 1]
      /\ UNCHANGED <<handlerVars, gpc, holding, crashed>>
  BY <1>0 DEF JoinEnds, Release, Entry
<1>2. UNCHANGED <<hpc, addr, sub, connections, clientConn, sess>>
  BY <1>1 DEF handlerVars
<1>3. VhostInv' /\ taken' = taken
  BY VhostStutter, CloseConnStep DEF JoinEnds, TunnelInv, CloseConn, vhostVars, connVars
<1>4. active \in [Owners -> Nat]
  BY DEF TunnelInv, TunnelTypeOK
<1>5. \A k \in Owners : /\ active[k] = Cardinality(Held(k)) + Cardinality(Joined(k))
                        /\ IsFiniteSet(Joined(k)) /\ IsFiniteSet(Joins(k))
                        /\ Cardinality(Held(k)) \in Nat /\ Cardinality(Joined(k)) \in Nat
                        /\ Cardinality(Joins(k)) \in Nat
  BY Accounts, CountedFinite, FS_CardinalityType DEF TunnelInv
<1>6. \A k \in Owners : Held(k)' = Held(k) /\ (Slot(k)' <=> Slot(k))
  BY <1>1, <1>2 DEF Held, Slot
<1>7. /\ v \in Joined(e) /\ Joined(e)' = Joined(e) \ {v}
      /\ \A k \in Owners : k # e => Joined(k)' = Joined(k)
  BY <1>0, <1>1, <1>2, <1>3 DEF Joined
<1>8. /\ v \in Joins(o) /\ Joins(o)' = Joins(o) \ {v}
      /\ \A k \in Owners : k # o => Joins(k)' = Joins(k)
  BY <1>0, <1>1, <1>3 DEF Joins
<1>9. /\ Cardinality(Joined(e)') = Cardinality(Joined(e)) - 1 /\ Cardinality(Joined(e)) > 0
      /\ Cardinality(Joins(o)') = Cardinality(Joins(o)) - 1
  BY <1>5, <1>7, <1>8, CountOneLess
<1>10. /\ active[e] > 0 /\ active'[e] = active[e] - 1
       /\ \A k \in Owners : k # e => active'[k] = active[k]
  BY <1>1, <1>4, <1>5, <1>9
<1>11. SlotsAccounted'
  <2> SUFFICES ASSUME NEW k \in Owners
               PROVE  active'[k] = Cardinality(Held(k)') + Cardinality(Joined(k)')
    BY Accounts
  <2>1. CASE k = e
    BY <1>5, <1>6, <1>9, <1>10, <2>1
  <2>2. CASE k # e
    BY <1>5, <1>6, <1>7, <1>10, <2>2
  <2> QED BY <2>1, <2>2
<1>12. TunnelTypeOK'
  <2>1. active' \in [Owners -> Nat]
    BY <1>1, <1>4, <1>10
  <2> QED BY <1>1, <1>2, <1>3, <2>1 DEF TunnelInv, TunnelTypeOK, VhostInv
<1>13. Entries' /\ Visitors'
  BY <1>1, <1>2, <1>3 DEF TunnelInv, Entries, Visitors, Serving
<1>14. FinitelyMany'
  <2>1. {k \in Owners : Serving(k)}' = {k \in Owners : Serving(k)}
    BY <1>1 DEF Serving
  <2>2. IsFiniteSet(joins')
    BY <1>1, FS_Subset DEF TunnelInv, FinitelyMany
  <2> QED BY <2>1, <2>2 DEF TunnelInv, FinitelyMany
<1>15. WithinLimit'
  <2> SUFFICES ASSUME NEW k \in Owners, gpc'[k] # "none"
               PROVE  Cardinality(Joins(k)') + (IF Slot(k)' THEN 1 ELSE 0) <= Limit[sub'[k]]
    BY DEF WithinLimit
  <2>1. /\ Cardinality(Joins(k)) + (IF Slot(k) THEN 1 ELSE 0) <= Limit[sub[k]]
        /\ Limit[sub[k]] \in Nat
    BY <1>1, TunnelAssumption DEF TunnelInv, WithinLimit, Entries, Serving
  <2>2. CASE k = o
    BY <1>2, <1>5, <1>6, <1>9, <2>1, <2>2
  <2>3. CASE k # o
    BY <1>2, <1>6, <1>8, <2>1, <2>3
  <2> QED BY <2>2, <2>3
<1> QED BY <1>3, <1>11, <1>12, <1>13, <1>14, <1>15 DEF TunnelInv

(* The steps of handleConnections. *)
LEMMA LoopStep ==
    ASSUME TunnelInv, NEW h \in Owners, Loop(h)
    PROVE  TunnelInv'
<1>1. CASE CheckLimit(h)
  BY <1>1, LoopMoves, TakeSlot
<1>2. CASE Increment(h) \/ Drain(h)
  BY <1>2, LoopMoves
<1>3. CASE RateWait(h)
  <2>1. CASE Limit[sub[clientConn[h]]] > 0
    BY <1>3, <2>1, LoopMoves
  <2>2. CASE ~(Limit[sub[clientConn[h]]] > 0)
    <3>1. /\ Slot(h) /\ Serve(h, "drain") /\ Release(h) /\ UNCHANGED vhostVars
          /\ UNCHANGED <<handlerVars, holding, joins, crashed>>
      BY <1>3, <2>2 DEF RateWait, Slot
    <3>2. VhostInv' /\ taken' = taken
      BY <3>1, VhostStutter DEF TunnelInv, vhostVars, connVars
    <3> QED BY <3>1, <3>2, GiveBack
  <2> QED BY <2>1, <2>2
<1>4. CASE AcceptVisitor(h)
  <2>1. CASE \E v \in Conns : /\ Accept(h, v) /\ Serve(h, "open")
                              /\ holding' = [holding EXCEPT ![h] = v]
                              /\ UNCHANGED active
    BY <1>4, <2>1, LoopMoves
  <2>2. CASE Serve(h, "drain") /\ Release(h) /\ UNCHANGED <<vhostVars, holding>>
    <3>1. Slot(h) /\ UNCHANGED <<handlerVars, joins, crashed>>
      BY <1>4 DEF AcceptVisitor, Slot
    <3>2. VhostInv' /\ taken' = taken
      BY <2>2, VhostStutter DEF TunnelInv, vhostVars, connVars
    <3> QED BY <2>2, <3>1, <3>2, GiveBack
  <2> QED BY <1>4, <2>1, <2>2 DEF AcceptVisitor
<1>5. CASE OpenChannel(h)
  <2>1. CASE joins' = joins \cup {holding[h]} /\ Serve(h, "limit") /\ UNCHANGED <<vhostVars, active>>
    BY <1>5, <2>1, HandOver DEF OpenChannel
  <2>2. CASE CloseConn(holding[h]) /\ Serve(h, "drain") /\ Release(h) /\ UNCHANGED joins
    <3>1. /\ Slot(h) /\ UNCHANGED <<handlerVars, crashed>>
          /\ holding' = [holding EXCEPT ![h] = None] /\ holding[h] \in Conns
      BY <1>5 DEF OpenChannel, Slot, TunnelInv, Visitors
    <3>2. VhostInv' /\ taken' = taken
      BY <2>2, <3>1, CloseConnStep DEF TunnelInv, CloseConn
    <3> QED BY <2>2, <3>1, <3>2, GiveBack
  <2> QED BY <1>5, <2>1, <2>2 DEF OpenChannel
<1> QED BY <1>1, <1>2, <1>3, <1>4, <1>5 DEF Loop

(* Every step keeps the invariant. *)
LEMMA TunnelNext == TunnelInv /\ [Next]_vars => TunnelInv'
<1> SUFFICES ASSUME TunnelInv, [Next]_vars PROVE TunnelInv'
  OBVIOUS
<1>1. CASE Next
  BY <1>1, HandlerStep, MuxerKeeps, KeyExchangeStep, LoopStep, JoinEndsStep DEF Next, Handler
<1>2. CASE UNCHANGED vars
  <2>1. VhostInv' /\ UNCHANGED <<serveVars, taken>>
    BY <1>2, VhostStutter DEF TunnelInv, vars, vhostVars, connVars
  <2>2. UNCHANGED <<hpc, addr, sub, connections, clientConn, sess, active, gpc, holding, joins,
                    crashed>>
    BY <1>2 DEF vars, handlerVars, serveVars
  <2>3. TunnelTypeOK' /\ Entries'
    BY <2>1, <2>2 DEF TunnelInv, TunnelTypeOK, VhostInv, Entries, Serving
  <2> QED BY <2>1, <2>2, <2>3, Steady DEF TunnelInv
<1> QED BY <1>1, <1>2

(* The state keeps its types; the count of an entry never drops below zero *)
(* (server.go, handleConnections).                                         *)
THEOREM TunnelTypes == Spec => []TunnelTypeOK
<1>1. TunnelInv => TunnelTypeOK
  BY DEF TunnelInv
<1> QED BY <1>1, TunnelInit, TunnelNext, PTL DEF Spec

(* ClientConnection.active counts the slots exactly, on every path by      *)
(* which a loop or a JoinEncrypted ends (server.go, handleConnections).    *)
THEOREM TunnelSlotsAccounted == Spec => []SlotsAccounted
<1>1. TunnelInv => SlotsAccounted
  BY DEF TunnelInv
<1> QED BY <1>1, TunnelInit, TunnelNext, PTL DEF Spec

(* A tunnel serves no more visitors at once than its subscription allows,  *)
(* also when a reconnection shares its entry (server.go,                   *)
(* handleConnections).                                                     *)
THEOREM TunnelWithinLimit == Spec => []WithinLimit
<1>1. TunnelInv => WithinLimit
  BY DEF TunnelInv
<1> QED BY <1>1, TunnelInit, TunnelNext, PTL DEF Spec

(* The server uses the muxer as Vhost allows: every step of it is a step   *)
(* of the muxer or of an owner there, or leaves the muxer alone, so that   *)
(* what is proved of VhostSpec holds below the tunnels.                    *)
THEOREM TunnelImplementsVhost == Spec => VhostSpec
<1>1. Init => VhostInit
  BY DEF Init
<1>2. TunnelInv /\ [Next]_vars => [VhostNext]_vhostVars
  <2> SUFFICES ASSUME TunnelInv, [Next]_vars PROVE VhostNext \/ UNCHANGED vhostVars
    OBVIOUS
  <2>1. CASE Muxer
    BY <2>1 DEF Muxer, VhostNext
  <2>2. ASSUME NEW h \in Owners,
               \/ \E a \in Addrs : Request(h, a)
               \/ SignIn(h) \/ AddDetails(h) \/ Handler(h) \/ SessionEnds(h)
        PROVE  VhostNext \/ UNCHANGED vhostVars
    BY <2>2 DEF Request, SignIn, AddDetails, Handler, GetEntry, ListenPublic, KeyExchange,
                WaitReturns, DeleteEntry, ClosePublic, SessionEnds, VhostNext
  <2>3. ASSUME NEW h \in Owners, Loop(h)
        PROVE  VhostNext \/ UNCHANGED vhostVars
    <3>1. gpc[h] = "open" => holding[h] \in Conns
      BY DEF TunnelInv, Visitors
    <3> QED BY <2>3, <3>1 DEF Loop, CheckLimit, Increment, RateWait, AcceptVisitor, OpenChannel,
                              Drain, VhostNext
  <2>4. ASSUME NEW v \in Conns, JoinEnds(v)
        PROVE  VhostNext \/ UNCHANGED vhostVars
    BY <2>4 DEF JoinEnds, VhostNext
  <2>5. CASE UNCHANGED vars
    BY <2>5 DEF vars
  <2> QED BY <2>1, <2>2, <2>3, <2>4, <2>5 DEF Next
<1> QED BY <1>1, <1>2, TunnelInit, TunnelNext, PTL DEF Spec, VhostSpec
=============================================================================

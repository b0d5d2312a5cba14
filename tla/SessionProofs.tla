---------------------------- MODULE SessionProofs ----------------------------
(***************************************************************************)
(* Why a message reaches the channel it was sent to although ids are       *)
(* reused, and why a session ends only with its transport or after one of  *)
(* two races: for every number of calls of Open, of accepters and of       *)
(* writes, every capacity of the transport and of the inbox.               *)
(***************************************************************************)
EXTENDS Session, SequenceTheorems, WellFoundedInduction, TLAPS

(* The two ends, and the two channels of a call of Open. *)
LEMMA EndFacts ==
    ASSUME NEW e \in Ends
    PROVE  Peer(e) \in Ends /\ Peer(Peer(e)) = e /\ Peer(e) # e
  BY DEF Ends, Peer

LEMMA ChannelFacts ==
    ASSUME NEW c \in Channels
    PROVE  /\ c[1] \in Opens /\ c[2] \in {"out", "in"} /\ c # Nil
           /\ c[2] = "out" <=> c = Out(c[1])
           /\ c[2] = "in" <=> c = In(c[1])
           /\ Home(c) \in Ends /\ Partner(c) \in Channels
           /\ Home(Partner(c)) = Peer(Home(c)) /\ Partner(Partner(c)) = c
<1>1. PICK o \in Opens, d \in {"out", "in"} : c = <<o, d>>
  BY DEF Channels
<1>2. c[1] = o /\ c[2] = d /\ c # Nil
  BY <1>1 DEF Nil
<1>3. Caller(o) \in Ends
  BY DEF Caller, Ends
<1> QED BY <1>1, <1>2, <1>3, EndFacts DEF Out, In, Partner, Home, Channels

LEMMA PairFacts ==
    ASSUME NEW o \in Opens
    PROVE  /\ Out(o) \in Channels /\ In(o) \in Channels /\ Out(o) # In(o)
           /\ Out(o)[1] = o /\ In(o)[1] = o /\ Out(o)[2] = "out" /\ In(o)[2] = "in"
           /\ Partner(Out(o)) = In(o) /\ Partner(In(o)) = Out(o)
           /\ Home(Out(o)) = Caller(o) /\ Home(In(o)) = Peer(Caller(o))
           /\ Caller(o) \in Ends
           /\ \A p \in Opens : /\ Out(p) # In(o)
                               /\ Out(p) = Out(o) => p = o
                               /\ In(p) = In(o) => p = o
  BY DEF Out, In, Channels, Partner, Home, Caller, Ends
-----------------------------------------------------------------------------
(* chanList.add takes a free slot, or one more. *)
LEMMA FirstFreeFacts ==
    ASSUME NEW S, NEW q \in Seq(S)
    PROVE  /\ FirstFree(q) \in 1..(Len(q) + 1)
           /\ FirstFree(q) <= Len(q) => q[FirstFree(q)] = Nil
<1>1. CASE FreeSlots(q) = {}
  BY <1>1 DEF FirstFree
<1>2. CASE FreeSlots(q) # {}
  <2>1. FreeSlots(q) \subseteq Nat
    BY DEF FreeSlots
  <2> DEFINE R == {p \in Nat \X Nat : p[1] < p[2]}
  <2>2. IsWellFoundedOn(R, Nat)
    BY NatLessThanWellFounded DEF OpToRel
  <2>3. \E i \in FreeSlots(q) : \A j \in FreeSlots(q) : i <= j
    <3>1. PICK i \in FreeSlots(q) : \A j \in FreeSlots(q) : ~(<<j, i>> \in R)
      <4> HIDE DEF R
      <4> QED BY <1>2, <2>1, <2>2, WFMin
    <3>2. ASSUME NEW j \in FreeSlots(q) PROVE i <= j
      <4>1. i \in Nat /\ j \in Nat
        BY <2>1
      <4>2. j < i => <<j, i>> \in R
        BY <4>1
      <4>3. ~(j < i)
        BY <3>1, <4>2
      <4> QED BY <4>1, <4>3
    <3> QED BY <3>2
  <2>4. FirstFree(q) \in FreeSlots(q)
    BY <1>2, <2>3 DEF FirstFree
  <2> QED BY <2>4 DEF FreeSlots
<1> QED BY <1>1, <1>2

LEMMA AddChanFacts ==
    ASSUME NEW S, NEW q \in Seq(S), NEW c \in S
    PROVE  /\ AddChan(q, c) \in Seq(S) /\ Len(AddChan(q, c)) >= Len(q)
           /\ FirstFree(q) \in 1..Len(AddChan(q, c))
           /\ AddChan(q, c)[FirstFree(q)] = c
           /\ \A i \in 1..Len(q) : q[i] # Nil => AddChan(q, c)[i] = q[i]
<1>1. /\ FirstFree(q) \in 1..(Len(q) + 1) /\ Len(q) \in Nat
      /\ FirstFree(q) <= Len(q) => q[FirstFree(q)] = Nil
  BY FirstFreeFacts
<1>2. CASE FirstFree(q) > Len(q)
  <2>1. AddChan(q, c) = Append(q, c) /\ FirstFree(q) = Len(q) + 1
    BY <1>1, <1>2 DEF AddChan
  <2> QED BY <1>1, <2>1, AppendProperties
<1>3. CASE FirstFree(q) <= Len(q)
  <2>1. AddChan(q, c) = [q EXCEPT ![FirstFree(q)] = c] /\ FirstFree(q) \in 1..Len(q)
    BY <1>1, <1>3 DEF AddChan
  <2>2. AddChan(q, c) \in Seq(S) /\ Len(AddChan(q, c)) = Len(q)
    BY <2>1, ExceptSeq
  <2> QED BY <1>1, <2>1, <2>2
<1> QED BY <1>1, <1>2, <1>3

LEMMA RemoveChanFacts ==
    ASSUME NEW S, NEW q \in Seq(S), Nil \in S, NEW id \in Nat
    PROVE  /\ RemoveChan(q, id) \in Seq(S) /\ Len(RemoveChan(q, id)) = Len(q)
           /\ \A i \in 1..Len(q) : i # id + 1 => RemoveChan(q, id)[i] = q[i]
<1>1. CASE id < Len(q)
  <2>1. RemoveChan(q, id) = [q EXCEPT ![id + 1] = Nil] /\ id + 1 \in 1..Len(q)
    BY <1>1 DEF RemoveChan
  <2>2. RemoveChan(q, id) \in Seq(S) /\ Len(RemoveChan(q, id)) = Len(q)
    BY <2>1, ExceptSeq
  <2> QED BY <2>1, <2>2
<1>2. CASE ~(id < Len(q))
  BY <1>2 DEF RemoveChan
<1> QED BY <1>1, <1>2
-----------------------------------------------------------------------------
(* The type invariant, with what the sequences hold and that a loop that   *)
(* is working on a channel has one.                                        *)
Packet == [type : MessageTypes, id : Nat, sender : Nat, from : Channels, late : BOOLEAN]

Working == {"run", "inbox", "confirm", "refuse", "reply", "remove"}
LoopStates == Working \cup {"drop", "tclose", "token", "err", "done"}

ListTypes == chans \in [Ends -> Seq(Channels \cup {Nil})]

ObjectTypes ==
    /\ localId \in [Channels -> Nat] /\ remoteId \in [Channels -> Nat]
    /\ sentClose \in [Channels -> BOOLEAN] /\ closed \in [Channels -> BOOLEAN]
    /\ msg \in [Opens -> {"empty", "confirm", "failure"}]

ProgramTypes ==
    /\ opc \in [Opens -> {"idle", "encode", "wait", "ok", "failed"}]
    /\ held \subseteq Channels /\ writing \subseteq held /\ writes \in 0..MaxData
    /\ inbox \in [Ends -> Seq(Channels)] /\ \A e \in Ends : Len(inbox[e]) <= ChanSize
    /\ apc \in [Ends -> [Accepters -> {"wait", "eof"}]]
    /\ token \in [Ends -> BOOLEAN]

LoopTypes ==
    /\ lpc \in [Ends -> LoopStates]
    /\ cur \in [Ends -> Channels \cup {Nil}]
    /\ why \in [Ends -> {"none", "net", "invalidChannel", "response"}]
    /\ up \in [Ends -> BOOLEAN] /\ odd \subseteq {"earlyClose", "lateData"}
    /\ \A e \in Ends : lpc[e] \in Working \ {"run"} => cur[e] \in Channels

Types == /\ ListTypes /\ ObjectTypes /\ ProgramTypes /\ LoopTypes
         /\ wire \in [Ends -> Seq(Packet)]

LEMMA TypesImply == Types => TypeOK
<1> SUFFICES ASSUME Types PROVE TypeOK
  OBVIOUS
<1>1. \A e \in Ends : \A i \in 1..Len(chans[e]) : chans[e][i] \in Channels \cup {Nil}
  BY ElementOfSeq DEF Types, ListTypes
<1>2. \A e \in Ends : \A i \in 1..Len(wire[e]) : wire[e][i].type \in MessageTypes
  <2>1. \A e \in Ends : \A i \in 1..Len(wire[e]) : wire[e][i] \in Packet
    BY ElementOfSeq DEF Types
  <2> QED BY <2>1 DEF Packet
<1> QED BY <1>1, <1>2 DEF Types, ObjectTypes, ProgramTypes, LoopTypes, TypeOK, LoopStates, Working

LEMMA TypesInit == Init => Types
<1> SUFFICES ASSUME Init PROVE Types
  OBVIOUS
<1>1. ListTypes /\ ObjectTypes
  BY DEF Init, ListTypes, ObjectTypes
<1>2. ProgramTypes
  BY SessionAssumption DEF Init, ProgramTypes
<1>3. LoopTypes /\ wire \in [Ends -> Seq(Packet)]
  BY DEF Init, LoopTypes, LoopStates, Working
<1> QED BY <1>1, <1>2, <1>3 DEF Types

(* Encode appends one packet to the wire towards the other end. *)
LEMMA EncodeFacts ==
    ASSUME Types, NEW c \in Channels, NEW t \in MessageTypes, NEW id \in Nat, NEW n \in Nat,
           Encode(c, t, id, n)
    PROVE  /\ wire' \in [Ends -> Seq(Packet)]
           /\ Message(t, id, n, c) \in Packet
           /\ wire'[Peer(Home(c))] = Append(wire[Peer(Home(c))], Message(t, id, n, c))
           /\ wire'[Home(c)] = wire[Home(c)]
<1>1. Home(c) \in Ends /\ Peer(Home(c)) \in Ends /\ Peer(Home(c)) # Home(c)
  BY ChannelFacts, EndFacts
<1>2. Message(t, id, n, c) \in Packet
  BY DEF Message, Packet, Types, ObjectTypes
<1>3. /\ wire'[Peer(Home(c))] = Append(wire[Peer(Home(c))], Message(t, id, n, c))
      /\ wire'[Home(c)] = wire[Home(c)]
  BY <1>1 DEF Encode, Types
<1>4. Append(wire[Peer(Home(c))], Message(t, id, n, c)) \in Seq(Packet)
  BY <1>1, <1>2, AppendProperties DEF Types
<1>5. wire' \in [Ends -> Seq(Packet)]
  BY <1>1, <1>4 DEF Encode, Types
<1> QED BY <1>2, <1>3, <1>5

(* newChannel. *)
LEMMA NewChannelFacts ==
    ASSUME Types, NEW c \in Channels, NewChannel(c)
    PROVE  /\ ListTypes' /\ localId' \in [Channels -> Nat]
           /\ \A d \in Channels : d # c => localId'[d] = localId[d]
           /\ localId'[c] = FirstFree(chans[Home(c)]) - 1
           /\ chans'[Home(c)] = AddChan(chans[Home(c)], c)
           /\ \A e \in Ends : e # Home(c) => chans'[e] = chans[e]
<1>1. Home(c) \in Ends
  BY ChannelFacts
<1>2. chans[Home(c)] \in Seq(Channels \cup {Nil})
  BY <1>1 DEF Types, ListTypes
<1>3. /\ AddChan(chans[Home(c)], c) \in Seq(Channels \cup {Nil})
      /\ FirstFree(chans[Home(c)]) \in 1..(Len(chans[Home(c)]) + 1) /\ Len(chans[Home(c)]) \in Nat
  BY <1>2, AddChanFacts, FirstFreeFacts
<1>4. FirstFree(chans[Home(c)]) - 1 \in Nat
  BY <1>3
<1> QED BY <1>1, <1>3, <1>4 DEF NewChannel, Types, ListTypes, ObjectTypes

(* getChan returns a listed channel, or nil. *)
LEMMA GetChanType ==
    ASSUME Types, NEW e \in Ends, NEW id \in Nat
    PROVE  GetChan(e, id) \in Channels \cup {Nil}
<1>1. CASE id < Len(chans[e])
  <2>1. id + 1 \in 1..Len(chans[e]) /\ chans[e] \in Seq(Channels \cup {Nil})
    BY <1>1 DEF Types, ListTypes
  <2>2. chans[e][id + 1] \in Channels \cup {Nil}
    BY <2>1, ElementOfSeq
  <2> QED BY <1>1, <2>2 DEF GetChan
<1>2. CASE ~(id < Len(chans[e]))
  BY <1>2 DEF GetChan
<1> QED BY <1>1, <1>2

(* The first message on a wire. *)
LEMMA HeadFacts ==
    ASSUME Types, NEW e \in Ends, wire[e] # <<>>, wire' = [wire EXCEPT ![e] = Tail(@)]
    PROVE  /\ Head(wire[e]) \in Packet /\ Head(wire[e]) = wire[e][1]
           /\ wire' \in [Ends -> Seq(Packet)]
           /\ Len(wire[e]) \in Nat /\ Len(wire[e]) > 0
           /\ Len(wire'[e]) = Len(wire[e]) - 1
           /\ \A i \in 1..Len(wire'[e]) : wire'[e][i] = wire[e][i + 1]
           /\ \A f \in Ends : f # e => wire'[f] = wire[f]
<1>1. wire[e] \in Seq(Packet) /\ wire'[e] = Tail(wire[e])
  BY DEF Types
<1>2. /\ Head(wire[e]) \in Packet /\ Tail(wire[e]) \in Seq(Packet)
      /\ Len(Tail(wire[e])) = Len(wire[e]) - 1
      /\ \A i \in 1..Len(Tail(wire[e])) : Tail(wire[e])[i] = wire[e][i + 1]
  BY <1>1, HeadTailProperties
<1>3. Len(wire[e]) \in Nat /\ Len(wire[e]) > 0
  BY <1>1, EmptySeq, LenProperties
<1>4. Head(wire[e]) = wire[e][1]
  BY <1>1
<1>5. wire' \in [Ends -> Seq(Packet)]
  BY <1>2 DEF Types
<1> QED BY <1>1, <1>2, <1>3, <1>4, <1>5 DEF Types

(* Channel.send of a Close. *)
LEMMA SendCloseTypes ==
    ASSUME Types, NEW c \in Channels, SendClose(c)
    PROVE  sentClose' \in [Channels -> BOOLEAN] /\ wire' \in [Ends -> Seq(Packet)]
<1>1. sentClose' \in [Channels -> BOOLEAN]
  BY DEF SendClose, Types, ObjectTypes
<1>2. remoteId[c] \in Nat /\ "Close" \in MessageTypes
  BY DEF Types, ObjectTypes, MessageTypes
<1>3. Encode(c, "Close", remoteId[c], 0) => wire' \in [Ends -> Seq(Packet)]
  BY <1>2, EncodeFacts
<1> QED BY <1>1, <1>3 DEF SendClose, Types

LEMMA OpenTypes ==
    ASSUME Types, NEW o \in Opens, OpenCall(o) \/ Open(o) \/ OpenCancel(o)
    PROVE  Types'
<1> USE DEF Types
<1>0. Out(o) \in Channels
  BY PairFacts
<1>1. CASE OpenCall(o)
  BY <1>0, <1>1, NewChannelFacts DEF OpenCall, ObjectTypes, ProgramTypes, LoopTypes, loops
<1>2. CASE OpenEncode(o)
  <2>1. ListTypes' /\ ObjectTypes' /\ ProgramTypes' /\ LoopTypes'
    BY <1>2 DEF OpenEncode, ListTypes, ObjectTypes, ProgramTypes, LoopTypes, objects, loops
  <2>2. wire' \in [Ends -> Seq(Packet)]
    <3>1. \A s \in Sizes : (IF s = "ok" THEN "Open" ELSE "OpenBad") \in MessageTypes
      BY DEF MessageTypes
    <3>2. localId[Out(o)] \in Nat
      BY <1>0 DEF ObjectTypes
    <3>3. ASSUME NEW s \in Sizes,
                 Encode(Out(o), IF s = "ok" THEN "Open" ELSE "OpenBad", 0, localId[Out(o)])
          PROVE  wire' \in [Ends -> Seq(Packet)]
      BY <1>0, <3>1, <3>2, <3>3, EncodeFacts
    <3> QED BY <1>2, <3>3 DEF OpenEncode
  <2> QED BY <2>1, <2>2
<1>3. CASE OpenReturn(o) \/ OpenCancel(o)
  BY <1>0, <1>3 DEF OpenReturn, OpenCancel, ListTypes, ObjectTypes, ProgramTypes, LoopTypes, objects, loops
<1> QED BY <1>1, <1>2, <1>3 DEF Open

LEMMA AcceptTypes ==
    ASSUME Types, NEW e \in Ends, Accept(e)
    PROVE  Types'
<1> USE DEF Types
<1>1. PICK x \in Accepters : AcceptChan(e, x) \/ AcceptEOF(e, x)
  BY DEF Accept
<1>2. CASE AcceptChan(e, x)
  <2>1. /\ Head(inbox[e]) \in Channels /\ Tail(inbox[e]) \in Seq(Channels)
        /\ Len(Tail(inbox[e])) = Len(inbox[e]) - 1 /\ Len(inbox[e]) \in Nat
    BY <1>2, HeadTailProperties, LenProperties DEF AcceptChan, ProgramTypes
  <2>2. ProgramTypes'
    <3>1. \A f \in Ends : Len(inbox'[f]) <= ChanSize
      BY <1>2, <2>1, SessionAssumption DEF AcceptChan, ProgramTypes
    <3> QED BY <1>2, <2>1, <3>1 DEF AcceptChan, ProgramTypes
  <2> QED BY <1>2, <2>2 DEF AcceptChan, ListTypes, ObjectTypes, LoopTypes, objects, loops
<1>3. CASE AcceptEOF(e, x)
  BY <1>3 DEF AcceptEOF, ListTypes, ObjectTypes, ProgramTypes, LoopTypes, objects, loops
<1> QED BY <1>1, <1>2, <1>3

LEMMA ChannelTypes ==
    ASSUME Types, NEW c \in Channels, CloseChannel(c) \/ WriteReserve(c) \/ WriteEncode(c)
    PROVE  Types'
<1> USE DEF Types
<1>1. CASE CloseChannel(c)
  BY <1>1, SendCloseTypes DEF CloseChannel, ListTypes, ObjectTypes, ProgramTypes, LoopTypes, programs, loops
<1>2. CASE WriteReserve(c)
  BY <1>2, SessionAssumption DEF WriteReserve, ListTypes, ObjectTypes, ProgramTypes, LoopTypes, objects, loops
<1>3. CASE WriteEncode(c)
  <2>1. remoteId[c] \in Nat /\ "Data" \in MessageTypes
    BY DEF ObjectTypes, MessageTypes
  <2>2. wire' \in [Ends -> Seq(Packet)]
    BY <1>3, <2>1, EncodeFacts DEF WriteEncode
  <2> QED BY <1>3, <2>2 DEF WriteEncode, ListTypes, ObjectTypes, ProgramTypes, LoopTypes, objects, loops
<1> QED BY <1>1, <1>2, <1>3

(* The loop: onePacket. *)
LEMMA HandleTypes ==
    ASSUME Types, NEW e \in Ends, NEW m \in Packet, lpc[e] = "run", Handle(e, m)
    PROVE  ListTypes' /\ ObjectTypes' /\ UNCHANGED <<sentClose, closed>>
           /\ (UNCHANGED <<up, odd>> => LoopTypes')
<1> USE DEF Types
<1> DEFINE c == GetChan(e, m.id)
<1>0. m.id \in Nat /\ m.sender \in Nat /\ m.type \in MessageTypes /\ m.from \in Channels
  BY DEF Packet
<1>1. c \in Channels \cup {Nil} /\ Partner(m.from) \in Channels
  BY <1>0, GetChanType, ChannelFacts
<1>2. \A f \in {"run", "inbox", "refuse", "reply"}, d \in Channels \cup {Nil} :
         Goto(e, f, d) /\ (f # "run" => d \in Channels) /\ UNCHANGED <<up, odd>> => LoopTypes'
  BY DEF Goto, LoopTypes, LoopStates, Working
<1>3. \A r \in {"invalidChannel", "response"} : Exit(e, r) /\ UNCHANGED <<up, odd>> => LoopTypes'
  BY DEF Exit, LoopTypes, LoopStates, Working
<1>4. UNCHANGED loops /\ UNCHANGED <<up, odd>> => LoopTypes'
  BY DEF loops, LoopTypes
<1>5. UNCHANGED <<chans, objects>> => ListTypes' /\ ObjectTypes' /\ UNCHANGED <<sentClose, closed>>
  BY DEF objects, ListTypes, ObjectTypes
<1> HIDE DEF c
<1>6. CASE m.type \in {"Open", "OpenBad"}
  <2>1. HandleOpen(e, m)
    BY <1>6 DEF Handle
  <2>2. remoteId' \in [Channels -> Nat] /\ UNCHANGED <<sentClose, closed, msg>>
    BY <1>0, <2>1 DEF HandleOpen, ObjectTypes
  <2>3. ListTypes' /\ localId' \in [Channels -> Nat]
    BY <1>1, <2>1, NewChannelFacts DEF HandleOpen, ListTypes, ObjectTypes
  <2>4. Goto(e, "inbox", Partner(m.from)) \/ Goto(e, "refuse", Partner(m.from))
    BY <2>1 DEF HandleOpen
  <2> QED BY <1>1, <1>2, <2>2, <2>3, <2>4 DEF ObjectTypes
<1>7. CASE m.type \notin {"Open", "OpenBad"} /\ c = Nil
  BY <1>3, <1>5, <1>7 DEF Handle, c
<1>8. CASE m.type = "Confirm" /\ c # Nil
  <2>1. HandleConfirm(e, c, m) /\ c \in Channels /\ c[1] \in Opens
    BY <1>1, <1>8, ChannelFacts DEF Handle, c
  <2>2. CASE c[2] = "in"
    BY <1>3, <1>5, <2>1, <2>2 DEF HandleConfirm
  <2>3. CASE c[2] # "in"
    <3>1. /\ remoteId' = [remoteId EXCEPT ![c] = PeersId(c, m)] /\ Deliver(c[1], "confirm")
          /\ UNCHANGED <<chans, localId, sentClose, closed, loops>>
      BY <2>1, <2>3 DEF HandleConfirm
    <3> QED BY <1>0, <1>4, <2>1, <3>1 DEF Deliver, PeersId, ListTypes, ObjectTypes
  <2> QED BY <2>2, <2>3
<1>9. CASE m.type = "Failure" /\ c # Nil
  <2>1. HandleFailure(e, c, m) /\ c \in Channels /\ c[1] \in Opens
    BY <1>1, <1>9, ChannelFacts DEF Handle, c
  <2>2. CASE c[2] = "in"
    BY <1>3, <1>5, <2>1, <2>2 DEF HandleFailure
  <2>3. CASE c[2] # "in"
    <3>1. /\ chans' = [chans EXCEPT ![e] = RemoveChan(@, m.id)] /\ Deliver(c[1], "failure")
          /\ UNCHANGED <<localId, remoteId, sentClose, closed, loops>>
      BY <2>1, <2>3 DEF HandleFailure
    <3>2. RemoveChan(chans[e], m.id) \in Seq(Channels \cup {Nil})
      BY <1>0, RemoveChanFacts DEF ListTypes
    <3>3. ListTypes'
      BY <3>1, <3>2 DEF ListTypes
    <3> QED BY <1>4, <2>1, <3>1, <3>3 DEF Deliver, ObjectTypes
  <2> QED BY <2>2, <2>3
<1>10. CASE m.type = "Close" /\ c # Nil
  <2>1. Goto(e, "reply", c) /\ UNCHANGED <<chans, objects>> /\ c \in Channels
    BY <1>1, <1>10 DEF Handle, c
  <2> QED BY <1>2, <1>5, <2>1
<1>11. CASE m.type = "Data" /\ c # Nil
  BY <1>4, <1>5, <1>11 DEF Handle, c
<1> QED BY <1>0, <1>6, <1>7, <1>8, <1>9, <1>10, <1>11 DEF MessageTypes

LEMMA LoopStepTypes ==
    ASSUME Types, NEW e \in Ends, Loop(e) \/ ReadError(e) \/ SessionClose(e)
    PROVE  Types'
<1> USE DEF Types
<1>1. CASE OnePacket(e)
  <2>1. Head(wire[e]) \in Packet /\ wire' \in [Ends -> Seq(Packet)]
    BY <1>1, HeadFacts DEF OnePacket
  <2>2. ListTypes' /\ ObjectTypes' /\ LoopTypes'
    BY <1>1, <2>1, HandleTypes DEF OnePacket
  <2> QED BY <1>1, <2>1, <2>2 DEF OnePacket, ProgramTypes, programs
<1>2. CASE PushInbox(e)
  <2>1. cur[e] \in Channels
    BY <1>2 DEF PushInbox, LoopTypes, Working
  <2>2. /\ Append(inbox[e], cur[e]) \in Seq(Channels)
        /\ Len(Append(inbox[e], cur[e])) = Len(inbox[e]) + 1 /\ Len(inbox[e]) \in Nat
    BY <2>1, AppendProperties, LenProperties DEF ProgramTypes
  <2>3. ProgramTypes'
    <3>1. \A f \in Ends : Len(inbox'[f]) <= ChanSize
      BY <1>2, <2>2, SessionAssumption DEF PushInbox, ProgramTypes, HasRoom
    <3> QED BY <1>2, <2>2, <3>1 DEF PushInbox, ProgramTypes
  <2>4. LoopTypes'
    BY <1>2, <2>1 DEF PushInbox, Goto, LoopTypes, LoopStates, Working
  <2> QED BY <1>2, <2>3, <2>4 DEF PushInbox, ListTypes, ObjectTypes, objects
<1>3. CASE AnswerOpen(e)
  <2>1. cur[e] \in Channels
    BY <1>3 DEF AnswerOpen, LoopTypes, Working
  <2>2. wire' \in [Ends -> Seq(Packet)]
    <3>1. /\ remoteId[cur[e]] \in Nat /\ localId[cur[e]] \in Nat
          /\ (IF lpc[e] = "confirm" THEN "Confirm" ELSE "Failure") \in MessageTypes
      BY <2>1 DEF ObjectTypes, MessageTypes
    <3> QED BY <1>3, <2>1, <3>1, EncodeFacts DEF AnswerOpen, EncodeAnswer
  <2>3. LoopTypes'
    BY <1>3 DEF AnswerOpen, Goto, Exit, LoopTypes, LoopStates, Working
  <2> QED BY <1>3, <2>2, <2>3 DEF AnswerOpen, ListTypes, ObjectTypes, ProgramTypes, objects, programs
<1>4. CASE ReplyClose(e)
  <2>1. cur[e] \in Channels
    BY <1>4 DEF ReplyClose, LoopTypes, Working
  <2>2. LoopTypes'
    BY <1>4, <2>1 DEF ReplyClose, Goto, LoopTypes, LoopStates, Working
  <2> QED BY <1>4, <2>1, <2>2, SendCloseTypes DEF ReplyClose, ListTypes, ObjectTypes, ProgramTypes, programs
<1>5. CASE FinishClose(e)
  <2>1. cur[e] \in Channels
    BY <1>5 DEF FinishClose, LoopTypes, Working
  <2>2. Without(cur[e]) \in Seq(Channels \cup {Nil})
    <3>1. chans[Home(cur[e])] \in Seq(Channels \cup {Nil}) /\ localId[cur[e]] \in Nat
      BY <2>1, ChannelFacts DEF ListTypes, ObjectTypes
    <3> QED BY <3>1, RemoveChanFacts DEF Without
  <2>3. ListTypes' /\ ObjectTypes'
    BY <1>5, <2>1, <2>2 DEF FinishClose, ListTypes, ObjectTypes
  <2>4. LoopTypes'
    BY <1>5 DEF FinishClose, Goto, LoopTypes, LoopStates, Working
  <2> QED BY <1>5, <2>3, <2>4 DEF FinishClose, ProgramTypes, programs
<1>6. CASE DropAll(e)
  <2>1. ListTypes' /\ ObjectTypes'
    BY <1>6 DEF DropAll, ListTypes, ObjectTypes
  <2>2. LoopTypes'
    BY <1>6 DEF DropAll, Goto, LoopTypes, LoopStates, Working
  <2> QED BY <1>6, <2>1, <2>2 DEF DropAll, ProgramTypes, programs
<1>7. CASE CloseTransport(e) \/ PutToken(e) \/ SetErr(e) \/ ReadError(e) \/ SessionClose(e)
  <2>1. ListTypes' /\ ObjectTypes' /\ ProgramTypes' /\ UNCHANGED wire
    BY <1>7 DEF CloseTransport, PutToken, SetErr, ReadError, SessionClose, ListTypes, ObjectTypes,
                ProgramTypes, objects, programs
  <2>2. LoopTypes'
    BY <1>7 DEF CloseTransport, PutToken, SetErr, ReadError, SessionClose, Goto, Exit, loops,
                LoopTypes, LoopStates, Working
  <2> QED BY <2>1, <2>2
<1> QED BY <1>1, <1>2, <1>3, <1>4, <1>5, <1>6, <1>7 DEF Loop

LEMMA TypesStep == Types /\ [Next]_vars => Types'
<1> SUFFICES ASSUME Types, [Next]_vars PROVE Types'
  OBVIOUS
<1>1. CASE UNCHANGED vars
  BY <1>1 DEF Types, ListTypes, ObjectTypes, ProgramTypes, LoopTypes, vars, objects, programs, loops
<1>2. CASE Next
  BY <1>2, OpenTypes, AcceptTypes, ChannelTypes, LoopStepTypes DEF Next
<1> QED BY <1>1, <1>2

(* The state keeps its types; in particular the inbox (session.go:54)      *)
(* never holds more than chanSize channels, and a write in progress is on  *)
(* a channel that the program has.                                         *)
THEOREM SessionTypes == Spec => []TypeOK
  BY TypesInit, TypesStep, TypesImply, PTL DEF Spec
-----------------------------------------------------------------------------
(* The messages on their way to end e, and those of type t from channel c. *)
Flying(e) == {wire[e][i] : i \in 1..Len(wire[e])}
Sent(c, t) == \E m \in Flying(Peer(Home(c))) : m.from = c /\ m.type = t

(* The loop at c's end is at step pc, working on c. *)
At(c, pc) == cur[Home(c)] = c /\ lpc[Home(c)] = pc
Removing(c) == At(c, "reply") \/ At(c, "remove")

(* End e may still handle a message. *)
Alive(e) == up[e] /\ lpc[e] \in Working

(* Channel c stands in the list where its id says. *)
Slot(c) == GetChan(Home(c), localId[c]) = c

Inboxed(c) == \E i \in 1..Len(inbox[Home(c)]) : inbox[Home(c)][i] = c

Early == "earlyClose" \in odd
Offers == {"Open", "OpenBad"}

(* What may follow what on a wire, of the messages of one channel. *)
Follows(m, n) ==
    /\ m.type \in {"Data", "Confirm", "Close"} /\ n.type \in {"Data", "Confirm", "Close"}
    /\ m.type = "Close" => n.type = "Data" /\ n.late
    /\ n.type = "Confirm" => m.type = "Data"

Order ==
    \A e \in Ends : \A i, j \in 1..Len(wire[e]) :
        i < j /\ wire[e][i].from = wire[e][j].from => Follows(wire[e][i], wire[e][j])

PacketForm(e, m) ==
    /\ Home(m.from) = Peer(e)
    /\ m.type \in Offers => m.from[2] = "out"
    /\ m.type \in {"Confirm", "Failure"} => m.from[2] = "in"
    /\ m.late => m.type \in Offers \cup {"Data"}
    /\ m.late /\ m.type = "Data" => "lateData" \in odd
    /\ m.type = "Close" => sentClose[m.from]

WireForm == \A e \in Ends : \A m \in Flying(e) : PacketForm(e, m)

InboxForm ==
    \A e \in Ends : \A i \in 1..Len(inbox[e]) : inbox[e][i][2] = "in" /\ Home(inbox[e][i]) = e

CurForm ==
    \A e \in Ends : lpc[e] \in Working \ {"run"} =>
        /\ Home(cur[e]) = e
        /\ lpc[e] \in {"inbox", "confirm", "refuse"} => cur[e][2] = "in"

Form == Order /\ WireForm /\ InboxForm /\ CurForm
-----------------------------------------------------------------------------
(* A call of Open is in one stage of its handshake: the call, the offer on *)
(* the wire, the other end answering it, the answer on the wire, the       *)
(* answer delivered.                                                       *)
Callee(o) == Peer(Caller(o))
Calling(o) == opc[o] \in {"idle", "encode"}
Offered(o) == Sent(Out(o), "Open") \/ Sent(Out(o), "OpenBad")
Answering(o) == At(In(o), "inbox") \/ At(In(o), "confirm") \/ At(In(o), "refuse")
Answered(o) == Sent(In(o), "Confirm") \/ Sent(In(o), "Failure")

Stages(o) ==
    /\ Calling(o) => ~Offered(o)
    /\ Calling(o) \/ Offered(o) => ~Answering(o)
    /\ Calling(o) \/ Offered(o) \/ Answering(o) => ~Answered(o)
    /\ Calling(o) \/ Offered(o) \/ Answering(o) \/ Answered(o) => msg[o] = "empty"

(* The accepted channel is known to a program only once it is in the       *)
(* inbox, and then the offer was not refused.                              *)
Accepted(o) == \/ In(o) \in held \/ Inboxed(In(o)) \/ Removing(In(o))
               \/ Sent(In(o), "Data") \/ Sent(In(o), "Close")

InUse(o) ==
    Accepted(o) => /\ ~Calling(o) /\ ~Offered(o)
                   /\ ~At(In(o), "inbox") /\ ~At(In(o), "refuse")
                   /\ ~Sent(In(o), "Failure") /\ msg[o] # "failure"

(* Each of the two channels has, or is about to get, the other's id. *)
Ids(o) ==
    /\ Answering(o) \/ Accepted(o) \/ msg[o] = "confirm" \/ Sent(In(o), "Confirm") =>
          remoteId[In(o)] = localId[Out(o)]
    /\ msg[o] = "confirm" => remoteId[Out(o)] = localId[In(o)]
    /\ \A m \in Flying(Callee(o)) :
          m.from = Out(o) /\ m.type \in Offers => m.sender = localId[Out(o)]
    /\ \A m \in Flying(Caller(o)) :
          m.from = In(o) /\ m.type = "Confirm" => m.sender = localId[In(o)]

(* The opened channel is used only after the answer. *)
Opened(o) ==
    Out(o) \in held \/ Removing(Out(o)) \/ Removing(In(o)) \/ Sent(Out(o), "Data")
        \/ Sent(Out(o), "Close") => msg[o] = "confirm"

(* A Close of the accepted channel comes after the OpenConfirm. *)
Confirmed(o) ==
    /\ Sent(In(o), "Close") =>
          msg[o] = "confirm" \/ Sent(In(o), "Confirm") \/ ~Alive(Caller(o))
    /\ Accepted(o) /\ ~Answering(o) =>
          \/ msg[o] = "confirm" \/ Sent(In(o), "Confirm")
          \/ ~Alive(Caller(o)) \/ ~up[Callee(o)]

(* A channel is removed after its partner's Close, and the accepted one is *)
(* not closed before it is confirmed.                                      *)
Closes(o) ==
    /\ Removing(Out(o)) => sentClose[In(o)]
    /\ Removing(In(o)) => sentClose[Out(o)]
    /\ (Calling(o) \/ Offered(o) \/ Answering(o)) /\ lpc[Callee(o)] \in Working
          => ~sentClose[In(o)]

(* A channel stays listed until its partner has sent its Close. *)
Lists(o) ==
    /\ opc[o] # "idle" /\ msg[o] # "failure" /\ ~sentClose[In(o)] /\ Alive(Caller(o))
          => Slot(Out(o))
    /\ (At(In(o), "inbox") \/ At(In(o), "confirm") \/ Sent(In(o), "Confirm") \/ msg[o] = "confirm")
          /\ ~sentClose[Out(o)] /\ Alive(Callee(o)) => Slot(In(o))
    /\ Removing(Out(o)) /\ Alive(Caller(o)) => Slot(Out(o))
    /\ Removing(In(o)) /\ Alive(Callee(o)) => Slot(In(o))

(* A message sent before its channel's Close finds the partner. *)
Reach(o) ==
    /\ \A m \in Flying(Caller(o)) :
          m.from = In(o) /\ ~m.late /\ Alive(Caller(o)) =>
             Slot(Out(o)) /\ m.id = localId[Out(o)] /\ ~Removing(Out(o))
    /\ \A m \in Flying(Callee(o)) :
          m.from = Out(o) /\ ~m.late /\ m.type \notin Offers /\ Alive(Callee(o)) =>
             Slot(In(o)) /\ m.id = localId[In(o)] /\ ~Removing(In(o))

Pair(o) == /\ Stages(o) /\ InUse(o) /\ Ids(o) /\ Opened(o) /\ Confirmed(o)
           /\ Closes(o) /\ Lists(o) /\ Reach(o)

RouteInv == Form /\ \A o \in Opens : Pair(o)

SessionInv == Types /\ (Early \/ RouteInv) /\ OnlyRacesKill
-----------------------------------------------------------------------------
LEMMA OrderPrimed ==
    ASSUME \A e \in Ends : \A i, j \in 1..Len(wire'[e]) :
              i < j /\ wire'[e][i].from = wire'[e][j].from => Follows(wire'[e][i], wire'[e][j])
    PROVE  Order'
  BY DEF Order, Follows

(* A message is put on a wire. *)
LEMMA FlyEncode ==
    ASSUME Types, NEW c \in Channels, NEW t \in MessageTypes, NEW id \in Nat, NEW n \in Nat,
           Encode(c, t, id, n)
    PROVE  /\ \A m : m \in Flying(Peer(Home(c)))' <=>
                        m \in Flying(Peer(Home(c))) \/ m = Message(t, id, n, c)
           /\ \A e \in Ends : e # Peer(Home(c)) => wire'[e] = wire[e]
           /\ (Order /\ \A m \in Flying(Peer(Home(c))) :
                           m.from = c => Follows(m, Message(t, id, n, c))) => Order'
<1>1. PICK f \in Ends, M \in Packet : f = Peer(Home(c)) /\ M = Message(t, id, n, c)
  BY EncodeFacts, ChannelFacts, EndFacts
<1>2. wire[f] \in Seq(Packet) /\ wire'[f] = Append(wire[f], M)
  BY <1>1, EncodeFacts DEF Types
<1>3. /\ Len(wire[f]) \in Nat /\ Len(wire'[f]) = Len(wire[f]) + 1
      /\ \A i \in 1..Len(wire[f]) : wire'[f][i] = wire[f][i]
      /\ wire'[f][Len(wire[f]) + 1] = M
  BY <1>2, AppendProperties, LenProperties
<1>4. \A m : m \in Flying(f)' <=> m \in Flying(f) \/ m = M
  <2>1. ASSUME NEW m, m \in Flying(f)' PROVE m \in Flying(f) \/ m = M
    <3>1. PICK i \in 1..Len(wire'[f]) : m = wire'[f][i]
      BY <2>1 DEF Flying
    <3>2. CASE i = Len(wire[f]) + 1
      BY <1>3, <3>1, <3>2
    <3>3. CASE i \in 1..Len(wire[f])
      BY <1>3, <3>1, <3>3 DEF Flying
    <3> QED BY <1>3, <3>2, <3>3
  <2>2. ASSUME NEW m \in Flying(f) PROVE m \in Flying(f)'
    <3>1. PICK i \in 1..Len(wire[f]) : m = wire[f][i]
      BY DEF Flying
    <3>2. i \in 1..Len(wire'[f]) /\ m = wire'[f][i]
      BY <1>3, <3>1
    <3> QED BY <3>2 DEF Flying
  <2>3. M \in Flying(f)'
    <3>1. Len(wire[f]) + 1 \in 1..Len(wire'[f])
      BY <1>3
    <3> QED BY <1>3, <3>1 DEF Flying
  <2> QED BY <2>1, <2>2, <2>3
<1>5. \A e \in Ends : e # f => wire'[e] = wire[e]
  BY <1>1 DEF Encode, Types
<1>6. ASSUME Order, \A m \in Flying(f) : m.from = c => Follows(m, M) PROVE Order'
  <2> SUFFICES ASSUME NEW e \in Ends, NEW i \in 1..Len(wire'[e]), NEW j \in 1..Len(wire'[e]),
                      i < j, wire'[e][i].from = wire'[e][j].from
               PROVE  Follows(wire'[e][i], wire'[e][j])
    BY OrderPrimed
  <2>1. CASE e # f
    BY <1>5, <1>6, <2>1 DEF Order
  <2>2. CASE e = f /\ j # Len(wire[f]) + 1
    <3>1. i \in 1..Len(wire[f]) /\ j \in 1..Len(wire[f])
      BY <1>3, <2>2
    <3>2. wire'[f][i] = wire[f][i] /\ wire'[f][j] = wire[f][j]
      BY <1>3, <3>1
    <3>3. Follows(wire[f][i], wire[f][j])
      BY <1>6, <2>2, <3>1, <3>2 DEF Order
    <3> QED BY <2>2, <3>2, <3>3
  <2>3. CASE e = f /\ j = Len(wire[f]) + 1
    <3>1. i \in 1..Len(wire[f]) /\ wire'[f][j] = M
      BY <1>3, <2>3
    <3>2. wire'[f][i] = wire[f][i] /\ wire[f][i] \in Flying(f)
      BY <1>3, <3>1 DEF Flying
    <3>3. M.from = c
      BY <1>1 DEF Message
    <3>4. Follows(wire[f][i], M)
      BY <1>6, <2>3, <3>1, <3>2, <3>3
    <3> QED BY <2>3, <3>1, <3>2, <3>4
  <2> QED BY <2>1, <2>2, <2>3
<1> QED BY <1>1, <1>4, <1>5, <1>6

(* A message is taken off a wire. *)
LEMMA FlyDecode ==
    ASSUME Types, NEW e \in Ends, wire[e] # <<>>, wire' = [wire EXCEPT ![e] = Tail(@)]
    PROVE  /\ Head(wire[e]) \in Flying(e)
           /\ \A m : m \in Flying(e)' => m \in Flying(e)
           /\ \A m \in Flying(e) : m \in Flying(e)' \/ m = Head(wire[e])
           /\ \A f \in Ends : f # e => wire'[f] = wire[f]
           /\ Order => /\ Order'
                       /\ \A m : m \in Flying(e)' /\ m.from = Head(wire[e]).from =>
                                    Follows(Head(wire[e]), m)
<1>1. /\ Head(wire[e]) = wire[e][1]
      /\ Len(wire[e]) \in Nat /\ Len(wire[e]) > 0
      /\ Len(wire'[e]) = Len(wire[e]) - 1
      /\ \A i \in 1..Len(wire'[e]) : wire'[e][i] = wire[e][i + 1]
      /\ \A f \in Ends : f # e => wire'[f] = wire[f]
  BY HeadFacts
<1>2. \A i \in 1..Len(wire'[e]) : i + 1 \in 1..Len(wire[e]) /\ 1 < i + 1
  BY <1>1
<1>3. 1 \in 1..Len(wire[e])
  BY <1>1
<1>4. Head(wire[e]) \in Flying(e)
  BY <1>1, <1>3 DEF Flying
<1>5. \A m : m \in Flying(e)' => \E i \in 1..Len(wire[e]) : 1 < i /\ m = wire[e][i]
  BY <1>1, <1>2 DEF Flying
<1>6. \A m : m \in Flying(e)' => m \in Flying(e)
  BY <1>5 DEF Flying
<1>7. ASSUME NEW m \in Flying(e) PROVE m \in Flying(e)' \/ m = Head(wire[e])
  <2>1. PICK i \in 1..Len(wire[e]) : m = wire[e][i]
    BY DEF Flying
  <2>2. CASE i = 1
    BY <1>1, <2>1, <2>2
  <2>3. CASE i # 1
    <3>1. i - 1 \in 1..Len(wire'[e]) /\ (i - 1) + 1 = i
      BY <1>1, <2>3
    <3>2. m = wire'[e][i - 1]
      BY <1>1, <2>1, <3>1
    <3> QED BY <3>1, <3>2 DEF Flying
  <2> QED BY <2>2, <2>3
<1>8. ASSUME Order PROVE Order'
  <2> SUFFICES ASSUME NEW f \in Ends, NEW i \in 1..Len(wire'[f]), NEW j \in 1..Len(wire'[f]),
                      i < j, wire'[f][i].from = wire'[f][j].from
               PROVE  Follows(wire'[f][i], wire'[f][j])
    BY OrderPrimed
  <2>1. CASE f # e
    BY <1>1, <1>8, <2>1 DEF Order
  <2>2. CASE f = e
    <3>1. /\ i + 1 \in 1..Len(wire[e]) /\ j + 1 \in 1..Len(wire[e]) /\ i + 1 < j + 1
          /\ wire'[e][i] = wire[e][i + 1] /\ wire'[e][j] = wire[e][j + 1]
      BY <1>1, <1>2, <2>2
    <3>2. Follows(wire[e][i + 1], wire[e][j + 1])
      BY <1>8, <2>2, <3>1 DEF Order
    <3> QED BY <2>2, <3>1, <3>2
  <2> QED BY <2>1, <2>2
<1>9. ASSUME Order, NEW m, m \in Flying(e)', m.from = Head(wire[e]).from
      PROVE  Follows(Head(wire[e]), m)
  <2>1. PICK i \in 1..Len(wire[e]) : 1 < i /\ m = wire[e][i]
    BY <1>5, <1>9
  <2> QED BY <1>1, <1>3, <1>9, <2>1 DEF Order
<1> QED BY <1>1, <1>4, <1>6, <1>7, <1>8, <1>9

(* What the two do to Sent. *)
LEMMA SentEncode ==
    ASSUME Types, NEW c \in Channels, NEW t \in MessageTypes, NEW id \in Nat, NEW n \in Nat,
           Encode(c, t, id, n)
    PROVE  /\ \A d \in Channels : \A x : Sent(d, x)' <=> Sent(d, x) \/ (d = c /\ x = t)
           /\ \A e \in Ends : \A m : m \in Flying(e)' <=>
                 m \in Flying(e) \/ (e = Peer(Home(c)) /\ m = Message(t, id, n, c))
<1>1. /\ \A m : m \in Flying(Peer(Home(c)))' <=>
                   m \in Flying(Peer(Home(c))) \/ m = Message(t, id, n, c)
      /\ \A e \in Ends : e # Peer(Home(c)) => wire'[e] = wire[e]
  BY FlyEncode
<1>2. \A e \in Ends : \A m : m \in Flying(e)' <=>
          m \in Flying(e) \/ (e = Peer(Home(c)) /\ m = Message(t, id, n, c))
  <2> SUFFICES ASSUME NEW e \in Ends
               PROVE  \A m : m \in Flying(e)' <=>
                         m \in Flying(e) \/ (e = Peer(Home(c)) /\ m = Message(t, id, n, c))
    OBVIOUS
  <2>1. CASE e = Peer(Home(c))
    <3>1. \A m : m \in Flying(e)' <=> m \in Flying(e) \/ m = Message(t, id, n, c)
      BY <1>1, <2>1
    <3> QED BY <2>1, <3>1
  <2>2. CASE e # Peer(Home(c))
    BY <1>1, <2>2 DEF Flying
  <2> QED BY <2>1, <2>2
<1>3. ASSUME NEW d \in Channels, NEW x
      PROVE  Sent(d, x)' <=> Sent(d, x) \/ (d = c /\ x = t)
  <2>1. Peer(Home(d)) \in Ends
    BY ChannelFacts, EndFacts
  <2>2. Message(t, id, n, c).from = c /\ Message(t, id, n, c).type = t
    BY DEF Message
  <2> QED BY <1>2, <2>1, <2>2 DEF Sent
<1> QED BY <1>2, <1>3

LEMMA SentDecode ==
    ASSUME Types, Order, NEW e \in Ends, NEW h, wire[e] # <<>>, h = Head(wire[e]),
           wire' = [wire EXCEPT ![e] = Tail(@)]
    PROVE  /\ h \in Packet /\ h \in Flying(e) /\ Order'
           /\ \A f \in Ends : \A m : m \in Flying(f)' => m \in Flying(f)
           /\ \A m : m \in Flying(e)' /\ m.from = h.from => Follows(h, m)
           /\ \A d \in Channels : \A x :
                 /\ Sent(d, x)' => Sent(d, x)
                 /\ Sent(d, x) => Sent(d, x)' \/ (d = h.from /\ x = h.type)
           /\ PacketForm(e, h) =>
                 \A x : Sent(h.from, x)' => /\ x \in {"Data", "Confirm", "Close"}
                                            /\ h.type \in {"Data", "Confirm", "Close"}
                                            /\ h.type = "Close" => x = "Data"
                                            /\ x = "Confirm" => h.type = "Data"
<1>1. /\ h \in Flying(e)
      /\ \A m : m \in Flying(e)' => m \in Flying(e)
      /\ \A m \in Flying(e) : m \in Flying(e)' \/ m = h
      /\ \A f \in Ends : f # e => wire'[f] = wire[f]
      /\ Order'
      /\ \A m : m \in Flying(e)' /\ m.from = h.from => Follows(h, m)
  BY FlyDecode
<1>2. h \in Packet
  BY HeadFacts
<1>3. \A f \in Ends : f # e => \A m : m \in Flying(f)' <=> m \in Flying(f)
  BY <1>1 DEF Flying
<1>4. \A f \in Ends : \A m : m \in Flying(f)' => m \in Flying(f)
  BY <1>1, <1>3
<1>5. ASSUME NEW d \in Channels, NEW x
      PROVE  /\ Sent(d, x)' => Sent(d, x)
             /\ Sent(d, x) => Sent(d, x)' \/ (d = h.from /\ x = h.type)
  <2>1. PICK f \in Ends : f = Peer(Home(d))
    BY ChannelFacts, EndFacts
  <2>2. Sent(d, x)' <=> \E m : m \in Flying(f)' /\ m.from = d /\ m.type = x
    BY <2>1 DEF Sent
  <2>3. Sent(d, x) <=> \E m \in Flying(f) : m.from = d /\ m.type = x
    BY <2>1 DEF Sent
  <2> QED BY <1>1, <1>3, <1>4, <2>2, <2>3
<1>6. ASSUME PacketForm(e, h), NEW x, Sent(h.from, x)'
      PROVE  /\ x \in {"Data", "Confirm", "Close"} /\ h.type \in {"Data", "Confirm", "Close"}
             /\ h.type = "Close" => x = "Data"
             /\ x = "Confirm" => h.type = "Data"
  <2>1. Peer(Home(h.from)) = e
    BY <1>6, EndFacts DEF PacketForm
  <2>2. PICK m : m \in Flying(e)' /\ m.from = h.from /\ m.type = x
    BY <1>6, <2>1 DEF Sent
  <2>3. Follows(h, m)
    BY <1>1, <2>2
  <2> QED BY <2>2, <2>3 DEF Follows
<1> HIDE DEF Flying, Sent, PacketForm, Follows
<1> QED BY <1>1, <1>2, <1>4, <1>5, <1>6

Busy == {"inbox", "confirm", "refuse", "reply", "remove"}

(* A step that does nothing to a pair of channels but, perhaps, takes      *)
(* their messages off the wire, or ends a loop.                            *)
LEMMA PairFrame ==
    ASSUME NEW o \in Opens, Pair(o),
           Calling(o)' <=> Calling(o), opc[o] = "idle" => opc'[o] = "idle",
           msg'[o] = msg[o],
           localId'[Out(o)] = localId[Out(o)], localId'[In(o)] = localId[In(o)],
           remoteId'[Out(o)] = remoteId[Out(o)], remoteId'[In(o)] = remoteId[In(o)],
           \A x : Sent(Out(o), x)' => Sent(Out(o), x),
           \A x : Sent(In(o), x)' => Sent(In(o), x),
           Sent(In(o), "Confirm") => Sent(In(o), "Confirm")',
           \A m : m \in Flying(Caller(o))' /\ m.from = In(o) => m \in Flying(Caller(o)),
           \A m : m \in Flying(Callee(o))' /\ m.from = Out(o) => m \in Flying(Callee(o)),
           \A pc \in Busy : At(Out(o), pc)' => At(Out(o), pc),
           \A pc \in Busy : At(In(o), pc)' <=> At(In(o), pc),
           Out(o) \in held' => Out(o) \in held \/ msg[o] = "confirm",
           In(o) \in held' \/ Inboxed(In(o))' => In(o) \in held \/ Inboxed(In(o)),
           sentClose[Out(o)] => sentClose'[Out(o)], sentClose[In(o)] => sentClose'[In(o)],
           lpc'[Callee(o)] \in Working =>
              lpc[Callee(o)] \in Working /\ (sentClose'[In(o)] => sentClose[In(o)]),
           Alive(Caller(o))' => Alive(Caller(o)), Alive(Callee(o))' => Alive(Callee(o)),
           up'[Callee(o)] => up[Callee(o)],
           Slot(Out(o)) /\ Alive(Caller(o))' => Slot(Out(o))',
           Slot(In(o)) /\ Alive(Callee(o))' => Slot(In(o))'
    PROVE  Pair(o)'
<1>1. Stages(o) /\ InUse(o) /\ Ids(o) /\ Opened(o) /\ Confirmed(o) /\ Closes(o) /\ Lists(o) /\ Reach(o)
  BY DEF Pair
<1>2. /\ Offered(o)' => Offered(o)
      /\ Answering(o)' <=> Answering(o)
      /\ Answered(o)' => Answered(o)
      /\ Removing(Out(o))' => Removing(Out(o))
      /\ Removing(In(o))' => Removing(In(o))
      /\ Accepted(o)' => Accepted(o)
  BY DEF Offered, Answering, Answered, Removing, Accepted, Busy
<1>3. /\ \A pc \in Busy : At(In(o), pc)' => At(In(o), pc)
      /\ "inbox" \in Busy /\ "confirm" \in Busy /\ "refuse" \in Busy
  BY DEF Busy
<1>4. Stages(o)'
  BY <1>1, <1>2 DEF Stages
<1>5. InUse(o)'
  BY <1>1, <1>2, <1>3 DEF InUse
<1>6. Ids(o)'
  BY <1>1, <1>2 DEF Ids
<1>7. Opened(o)'
  BY <1>1, <1>2 DEF Opened
<1>8. Confirmed(o)'
  BY <1>1, <1>2 DEF Confirmed
<1>9. Closes(o)'
  BY <1>1, <1>2 DEF Closes
<1>10. Lists(o)'
  BY <1>1, <1>2, <1>3 DEF Lists
<1>11. Reach(o)'
  BY <1>1, <1>2 DEF Reach
<1> QED BY <1>4, <1>5, <1>6, <1>7, <1>8, <1>9, <1>10, <1>11 DEF Pair

(* The parts of the state that a step leaves alone. *)
LEMMA SameLoops ==
    ASSUME UNCHANGED <<lpc, cur>>
    PROVE  \A c \in Channels : \A x : At(c, x)' <=> At(c, x)
  BY DEF At

LEMMA SameLists ==
    ASSUME UNCHANGED <<chans, localId>>
    PROVE  \A c \in Channels : Slot(c)' <=> Slot(c)
  BY DEF Slot, GetChan

LEMMA SameWire ==
    ASSUME UNCHANGED wire
    PROVE  /\ \A e \in Ends : \A m : m \in Flying(e)' <=> m \in Flying(e)
           /\ \A c \in Channels : \A x : Sent(c, x)' <=> Sent(c, x)
           /\ Order => Order'
<1>1. \A e \in Ends : \A m : m \in Flying(e)' <=> m \in Flying(e)
  BY DEF Flying
<1>2. \A c \in Channels : \A x : Sent(c, x)' <=> Sent(c, x)
  BY DEF Sent, Flying
<1>3. Order => Order'
  BY DEF Order, Follows
<1> QED BY <1>1, <1>2, <1>3

LEMMA SameInbox ==
    ASSUME UNCHANGED inbox
    PROVE  (\A c \in Channels : Inboxed(c)' <=> Inboxed(c)) /\ (InboxForm => InboxForm')
  BY DEF Inboxed, InboxForm

LEMMA FlyingType ==
    ASSUME Types, NEW e \in Ends, NEW m \in Flying(e)
    PROVE  m \in Packet /\ m.from \in Channels
<1>1. wire[e] \in Seq(Packet)
  BY DEF Types
<1>2. m \in Packet
  BY <1>1, ElementOfSeq DEF Flying
<1> QED BY <1>2 DEF Packet

LEMMA WireFormFrame ==
    ASSUME Types, WireForm, odd \subseteq odd',
           \A c \in Channels : sentClose[c] => sentClose'[c],
           \A e \in Ends : \A m : m \in Flying(e)' => m \in Flying(e) \/ PacketForm(e, m)'
    PROVE  WireForm'
<1> SUFFICES ASSUME NEW e \in Ends, NEW m, m \in Flying(e)' PROVE PacketForm(e, m)'
  BY DEF WireForm
<1>1. CASE m \in Flying(e)
  <2>1. m.from \in Channels /\ PacketForm(e, m)
    BY <1>1, FlyingType DEF WireForm
  <2> QED BY <2>1 DEF PacketForm
<1> QED BY <1>1

(* The loop at end e moves on. *)
LEMMA AtMoves ==
    ASSUME Types, NEW e \in Ends, NEW pc, NEW d,
           lpc' = [lpc EXCEPT ![e] = pc], cur' = [cur EXCEPT ![e] = d]
    PROVE  /\ \A c \in Channels : \A x :
                 /\ Home(c) # e => (At(c, x)' <=> At(c, x))
                 /\ Home(c) = e => (At(c, x)' <=> c = d /\ x = pc)
           /\ lpc'[e] = pc /\ cur'[e] = d
           /\ \A f \in Ends : f # e => lpc'[f] = lpc[f] /\ cur'[f] = cur[f]
<1>1. /\ lpc'[e] = pc /\ cur'[e] = d
      /\ \A f \in Ends : f # e => lpc'[f] = lpc[f] /\ cur'[f] = cur[f]
  BY DEF Types, LoopTypes
<1> QED BY <1>1, ChannelFacts DEF At

LEMMA SlotAdd ==
    ASSUME Types, NEW c \in Channels, NewChannel(c)
    PROVE  Slot(c)' /\ \A d \in Channels : d # c /\ Slot(d) => Slot(d)'
<1>1. PICK e \in Ends : e = Home(c)
  BY ChannelFacts
<1>2. PICK q \in Seq(Channels \cup {Nil}) : q = chans[e]
  BY DEF Types, ListTypes
<1>3. /\ chans'[e] = AddChan(q, c) /\ localId'[c] = FirstFree(q) - 1
      /\ \A d \in Channels : d # c => localId'[d] = localId[d]
      /\ \A f \in Ends : f # e => chans'[f] = chans[f]
  BY <1>1, <1>2, NewChannelFacts
<1>4. /\ Len(AddChan(q, c)) >= Len(q) /\ Len(q) \in Nat /\ Len(AddChan(q, c)) \in Nat
      /\ FirstFree(q) \in 1..Len(AddChan(q, c))
      /\ AddChan(q, c)[FirstFree(q)] = c
      /\ \A i \in 1..Len(q) : q[i] # Nil => AddChan(q, c)[i] = q[i]
  <2>1. PICK S : S = Channels \cup {Nil} /\ c \in S /\ q \in Seq(S)
    OBVIOUS
  <2> QED BY <2>1, AddChanFacts, LenProperties
<1>5. Slot(c)'
  <2>1. localId'[c] < Len(chans'[e]) /\ localId'[c] + 1 = FirstFree(q)
    BY <1>3, <1>4
  <2>2. chans'[e][localId'[c] + 1] = c
    BY <1>3, <1>4, <2>1
  <2> QED BY <1>1, <2>1, <2>2 DEF Slot, GetChan
<1>6. ASSUME NEW d \in Channels, d # c, Slot(d) PROVE Slot(d)'
  <2>0. localId'[d] = localId[d] /\ localId[d] \in Nat /\ d # Nil /\ Home(d) \in Ends
    BY <1>3, <1>6, ChannelFacts DEF Types, ObjectTypes
  <2>1. CASE Home(d) # e
    BY <1>3, <1>6, <2>0, <2>1 DEF Slot, GetChan
  <2>2. CASE Home(d) = e
    <3>1. localId[d] < Len(q) /\ q[localId[d] + 1] = d
      BY <1>2, <1>6, <2>0, <2>2 DEF Slot, GetChan
    <3>2. localId[d] + 1 \in 1..Len(q)
      BY <1>4, <2>0, <3>1
    <3>3. AddChan(q, c)[localId[d] + 1] = d /\ localId[d] < Len(AddChan(q, c))
      BY <1>4, <2>0, <3>1, <3>2
    <3> QED BY <1>3, <2>0, <2>2, <3>3 DEF Slot, GetChan
  <2> QED BY <2>1, <2>2
<1> QED BY <1>5, <1>6

LEMMA SlotRemove ==
    ASSUME Types, NEW e \in Ends, NEW id \in Nat,
           chans' = [chans EXCEPT ![e] = RemoveChan(chans[e], id)], UNCHANGED localId,
           NEW d \in Channels, Slot(d), Home(d) # e \/ localId[d] # id
    PROVE  Slot(d)'
<1>0. localId'[d] = localId[d] /\ localId[d] \in Nat /\ d # Nil /\ Home(d) \in Ends
  BY ChannelFacts DEF Types, ObjectTypes
<1>1. CASE Home(d) # e
  BY <1>0, <1>1 DEF Slot, GetChan, Types, ListTypes
<1>2. CASE Home(d) = e
  <2>1. PICK q \in Seq(Channels \cup {Nil}) : q = chans[e]
    BY DEF Types, ListTypes
  <2>2. chans'[e] = RemoveChan(q, id)
    BY <2>1 DEF Types, ListTypes
  <2>3. /\ Len(RemoveChan(q, id)) = Len(q) /\ Len(q) \in Nat
        /\ \A i \in 1..Len(q) : i # id + 1 => RemoveChan(q, id)[i] = q[i]
    BY RemoveChanFacts, LenProperties
  <2>4. localId[d] < Len(q) /\ q[localId[d] + 1] = d
    BY <1>0, <1>2, <2>1 DEF Slot, GetChan
  <2>5. localId[d] + 1 \in 1..Len(q) /\ localId[d] + 1 # id + 1
    BY <1>0, <1>2, <2>3, <2>4
  <2>6. RemoveChan(q, id)[localId[d] + 1] = d
    BY <2>3, <2>4, <2>5
  <2> QED BY <1>0, <1>2, <2>2, <2>3, <2>4, <2>6 DEF Slot, GetChan
<1> QED BY <1>1, <1>2

(* A step of a program that neither creates a channel nor sends. *)
LEMMA RouteProgram ==
    ASSUME Types, RouteInv,
           UNCHANGED <<chans, objects, loops, up, wire>>, odd \subseteq odd',
           \A o \in Opens : /\ Calling(o)' <=> Calling(o)
                            /\ opc[o] = "idle" => opc'[o] = "idle"
                            /\ Out(o) \in held' => Out(o) \in held \/ msg[o] = "confirm"
                            /\ In(o) \in held' \/ Inboxed(In(o))' => In(o) \in held \/ Inboxed(In(o)),
           InboxForm'
    PROVE  RouteInv'
<1>1. /\ \A c \in Channels : Slot(c)' <=> Slot(c)
      /\ \A c \in Channels : \A x : At(c, x)' <=> At(c, x)
      /\ \A c \in Channels : \A x : Sent(c, x)' <=> Sent(c, x)
      /\ \A e \in Ends : \A m : m \in Flying(e)' <=> m \in Flying(e)
      /\ \A e \in Ends : (Alive(e)' <=> Alive(e)) /\ lpc'[e] = lpc[e] /\ up'[e] = up[e]
      /\ Order'
  BY SameLists, SameLoops, SameWire DEF objects, loops, Alive, RouteInv, Form
<1>2. WireForm'
  BY <1>1, WireFormFrame DEF objects, RouteInv, Form
<1>3. CurForm'
  BY DEF CurForm, loops, RouteInv, Form
<1>4. ASSUME NEW o \in Opens PROVE Pair(o)'
  <2>1. Out(o) \in Channels /\ In(o) \in Channels /\ Caller(o) \in Ends /\ Callee(o) \in Ends
    BY PairFacts, EndFacts DEF Callee
  <2>2. Pair(o)
    BY DEF RouteInv
  <2>3. UNCHANGED <<localId, remoteId, sentClose, msg>>
    BY DEF objects
  <2> QED BY <1>1, <2>1, <2>2, <2>3, PairFrame
<1> QED BY <1>1, <1>2, <1>3, <1>4 DEF RouteInv, Form

LEMMA RouteOpenReturn ==
    ASSUME Types, RouteInv, NEW o \in Opens, OpenReturn(o) \/ OpenCancel(o)
    PROVE  RouteInv'
<1>1. /\ UNCHANGED <<chans, objects, loops, up, wire, odd, inbox>>
      /\ opc[o] = "wait" /\ opc' = [opc EXCEPT ![o] = opc'[o]] /\ opc'[o] \in {"ok", "failed"}
      /\ held' = held \/ (held' = held \cup {Out(o)} /\ msg[o] = "confirm")
  BY DEF OpenReturn, OpenCancel, Types, ProgramTypes
<1>2. \A p \in Opens : Out(p) = Out(o) => p = o
  BY PairFacts
<1>3. \A p \in Opens : In(p) # Out(o)
  BY PairFacts
<1>4. ASSUME NEW p \in Opens
      PROVE  /\ Calling(p)' <=> Calling(p)
             /\ opc[p] = "idle" => opc'[p] = "idle"
             /\ Out(p) \in held' => Out(p) \in held \/ msg[p] = "confirm"
             /\ In(p) \in held' \/ Inboxed(In(p))' => In(p) \in held \/ Inboxed(In(p))
  <2>1. (Calling(p)' <=> Calling(p)) /\ (opc[p] = "idle" => opc'[p] = "idle")
    BY <1>1 DEF Calling, Types, ProgramTypes
  <2>2. Inboxed(In(p))' <=> Inboxed(In(p))
    BY <1>1, PairFacts, SameInbox
  <2> QED BY <1>1, <1>2, <1>3, <2>1, <2>2
<1>5. InboxForm'
  BY <1>1, SameInbox DEF RouteInv, Form
<1> QED BY <1>1, <1>4, <1>5, RouteProgram

LEMMA RouteAccept ==
    ASSUME Types, RouteInv, NEW e \in Ends, Accept(e)
    PROVE  RouteInv'
<1>1. PICK x \in Accepters : AcceptChan(e, x) \/ AcceptEOF(e, x)
  BY DEF Accept
<1>2. UNCHANGED <<chans, objects, loops, up, wire, odd, opc>>
  BY <1>1 DEF AcceptChan, AcceptEOF
<1>3. \A o \in Opens : (Calling(o)' <=> Calling(o)) /\ (opc[o] = "idle" => opc'[o] = "idle")
  BY <1>2 DEF Calling
<1>4. CASE AcceptEOF(e, x)
  <2>1. UNCHANGED <<held, inbox>>
    BY <1>4 DEF AcceptEOF
  <2>2. \A o \in Opens : Inboxed(In(o))' <=> Inboxed(In(o))
    BY <2>1, PairFacts, SameInbox
  <2>3. InboxForm'
    BY <2>1, SameInbox DEF RouteInv, Form
  <2> QED BY <1>2, <1>3, <2>1, <2>2, <2>3, RouteProgram
<1>5. CASE AcceptChan(e, x)
  <2>1. PICK q \in Seq(Channels), h \in Channels : q = inbox[e] /\ q # <<>> /\ h = Head(q)
    BY <1>5, HeadTailProperties DEF AcceptChan, Types, ProgramTypes
  <2>2. /\ inbox'[e] = Tail(q) /\ \A f \in Ends : f # e => inbox'[f] = inbox[f]
        /\ held' = held \cup {h}
    BY <1>5, <2>1 DEF AcceptChan, Types, ProgramTypes
  <2>3. /\ Len(q) \in Nat /\ Len(q) > 0 /\ Len(Tail(q)) = Len(q) - 1
        /\ \A i \in 1..Len(Tail(q)) : Tail(q)[i] = q[i + 1] /\ i + 1 \in 1..Len(q)
        /\ h = q[1] /\ 1 \in 1..Len(q)
    BY <2>1, HeadTailProperties, EmptySeq, LenProperties
  <2>4. h[2] = "in" /\ Home(h) = e /\ Inboxed(h)
    BY <2>1, <2>3 DEF RouteInv, Form, InboxForm, Inboxed
  <2>5. \A c \in Channels : Inboxed(c)' => Inboxed(c)
    <3> SUFFICES ASSUME NEW c \in Channels, Inboxed(c)' PROVE Inboxed(c)
      OBVIOUS
    <3>1. PICK f \in Ends : f = Home(c)
      BY ChannelFacts
    <3>2. PICK i \in 1..Len(inbox'[f]) : inbox'[f][i] = c
      BY <3>1 DEF Inboxed
    <3>3. CASE f = e
      <4>1. q[i + 1] = c /\ i + 1 \in 1..Len(inbox[f])
        BY <2>1, <2>2, <2>3, <3>2, <3>3
      <4>2. \E k \in 1..Len(inbox[f]) : inbox[f][k] = c
        BY <2>1, <3>3, <4>1
      <4> QED BY <3>1, <4>2 DEF Inboxed
    <3>4. CASE f # e
      BY <2>2, <3>1, <3>2, <3>4 DEF Inboxed
    <3> QED BY <3>3, <3>4
  <2>6. InboxForm'
    <3> SUFFICES ASSUME NEW f \in Ends, NEW i \in 1..Len(inbox'[f])
                 PROVE  inbox'[f][i][2] = "in" /\ Home(inbox'[f][i]) = f
      BY DEF InboxForm
    <3>1. CASE f = e
      <4>1. inbox'[f][i] = q[i + 1] /\ i + 1 \in 1..Len(q)
        BY <2>2, <2>3, <3>1
      <4>2. \A k \in 1..Len(q) : q[k][2] = "in" /\ Home(q[k]) = e
        BY <2>1 DEF RouteInv, Form, InboxForm
      <4> QED BY <3>1, <4>1, <4>2
    <3>2. CASE f # e
      BY <2>2, <3>2 DEF RouteInv, Form, InboxForm
    <3> QED BY <3>1, <3>2
  <2>7. \A o \in Opens :
           /\ Out(o) \in held' => Out(o) \in held
           /\ In(o) \in held' \/ Inboxed(In(o))' => In(o) \in held \/ Inboxed(In(o))
    <3>1. \A o \in Opens : Out(o) # h /\ In(o) \in Channels
      BY <2>4, PairFacts
    <3> QED BY <2>2, <2>4, <2>5, <3>1
  <2> QED BY <1>2, <1>3, <2>6, <2>7, RouteProgram
<1> QED BY <1>1, <1>4, <1>5

(* Steps of a loop that has left its for loop, the step that makes it      *)
(* leave, and Session.Close.                                               *)
LEMMA RouteEnding ==
    ASSUME Types, RouteInv, NEW e \in Ends,
           \/ ReadError(e) \/ DropAll(e) \/ CloseTransport(e) \/ PutToken(e) \/ SetErr(e)
           \/ SessionClose(e)
    PROVE  RouteInv'
<1>1. /\ UNCHANGED <<localId, remoteId, msg, opc, held, inbox, wire, odd>>
      /\ \A f \in Ends : /\ up'[f] => up[f]
                         /\ lpc'[f] \in Working => lpc'[f] = lpc[f] /\ cur'[f] = cur[f] /\ chans'[f] = chans[f]
                         /\ lpc[f] \in Busy => lpc'[f] = lpc[f] /\ cur'[f] = cur[f]
      /\ \A c \in Channels : /\ sentClose[c] => sentClose'[c]
                             /\ lpc'[Home(c)] \in Working => sentClose'[c] = sentClose[c]
  <2>1. CASE DropAll(e)
    <3>1. /\ lpc'[e] = "tclose" /\ lpc[e] = "drop"
          /\ \A f \in Ends : f # e => lpc'[f] = lpc[f] /\ cur'[f] = cur[f]
      BY <2>1 DEF DropAll, Goto, Types, LoopTypes
    <3>2. \A f \in Ends : f # e => chans'[f] = chans[f]
      BY <2>1 DEF DropAll, Types, ListTypes
    <3>3. "tclose" \notin Working /\ "drop" \notin Busy
      BY DEF Working, Busy
    <3>4. ASSUME NEW c \in Channels
          PROVE  /\ sentClose[c] => sentClose'[c]
                 /\ lpc'[Home(c)] \in Working => sentClose'[c] = sentClose[c]
      <4>1. sentClose'[c] = (sentClose[c] \/ c \in Dropped(e)) /\ sentClose[c] \in BOOLEAN
        BY <2>1, Zenon DEF DropAll, Types, ObjectTypes
      <4>2. lpc'[Home(c)] \in Working => c \notin Dropped(e)
        BY <3>1, <3>3 DEF Dropped
      <4> QED BY <4>1, <4>2
    <3>5. UNCHANGED <<localId, remoteId, msg, opc, held, inbox, wire, odd, up>>
      BY <2>1 DEF DropAll, programs
    <3> QED BY <3>1, <3>2, <3>3, <3>4, <3>5
  <2>2. CASE SessionClose(e)
    BY <2>2 DEF SessionClose, objects, programs, loops, Types, LoopTypes
  <2>3. CASE ReadError(e) \/ CloseTransport(e) \/ PutToken(e) \/ SetErr(e)
    BY <2>3 DEF ReadError, CloseTransport, PutToken, SetErr, Goto, Exit, objects, programs, Types,
                LoopTypes, Working, Busy
  <2> QED BY <2>1, <2>2, <2>3
<1>2. /\ \A c \in Channels : \A x : Sent(c, x)' <=> Sent(c, x)
      /\ \A f \in Ends : \A m : m \in Flying(f)' <=> m \in Flying(f)
      /\ \A c \in Channels : Inboxed(c)' <=> Inboxed(c)
      /\ Order' /\ InboxForm'
  BY <1>1, SameWire, SameInbox DEF RouteInv, Form
<1>3. \A c \in Channels : \A pc \in Busy : At(c, pc)' <=> At(c, pc)
  <2>1. Busy \subseteq Working
    BY DEF Busy, Working
  <2> QED BY <1>1, <2>1, ChannelFacts DEF At
<1>4. \A f \in Ends : Alive(f)' => Alive(f)
  BY <1>1 DEF Alive
<1>5. \A c \in Channels : Slot(c) /\ Alive(Home(c))' => Slot(c)'
  BY <1>1, ChannelFacts DEF Slot, GetChan, Alive
<1>6. WireForm'
  BY <1>1, <1>2, WireFormFrame DEF RouteInv, Form
<1>7. CurForm'
  BY <1>1 DEF CurForm, RouteInv, Form
<1>8. ASSUME NEW o \in Opens PROVE Pair(o)'
  <2>1. /\ Out(o) \in Channels /\ In(o) \in Channels /\ Caller(o) \in Ends /\ Callee(o) \in Ends
        /\ Home(Out(o)) = Caller(o) /\ Home(In(o)) = Callee(o)
    BY PairFacts, EndFacts DEF Callee
  <2>2. Pair(o)
    BY DEF RouteInv
  <2>3. (Calling(o)' <=> Calling(o)) /\ (opc[o] = "idle" => opc'[o] = "idle")
    BY <1>1 DEF Calling
  <2>4. /\ Slot(Out(o)) /\ Alive(Caller(o))' => Slot(Out(o))'
        /\ Slot(In(o)) /\ Alive(Callee(o))' => Slot(In(o))'
    BY <1>5, <2>1
  <2>5. lpc'[Callee(o)] \in Working =>
              lpc[Callee(o)] \in Working /\ (sentClose'[In(o)] => sentClose[In(o)])
    BY <1>1, <2>1
  <2> QED BY <1>1, <1>2, <1>3, <1>4, <2>1, <2>2, <2>3, <2>4, <2>5, PairFrame
<1> QED BY <1>2, <1>6, <1>7, <1>8 DEF RouteInv, Form

(* Before its OpenMessage is sent, nothing is known of the two channels. *)
LEMMA Quiet ==
    ASSUME Types, RouteInv, NEW o \in Opens, Calling(o)
    PROVE  /\ ~Offered(o) /\ ~Answering(o) /\ ~Answered(o) /\ ~Accepted(o) /\ msg[o] = "empty"
           /\ Out(o) \notin held /\ ~Removing(Out(o)) /\ ~Removing(In(o))
           /\ \A x : ~Sent(Out(o), x) /\ ~Sent(In(o), x)
<1>1. Stages(o) /\ InUse(o) /\ Opened(o)
  BY DEF RouteInv, Pair
<1>2. /\ ~Offered(o) /\ ~Answering(o) /\ ~Answered(o) /\ ~Accepted(o) /\ msg[o] = "empty"
      /\ Out(o) \notin held /\ ~Removing(Out(o)) /\ ~Removing(In(o))
      /\ ~Sent(Out(o), "Data") /\ ~Sent(Out(o), "Close")
  BY <1>1 DEF Stages, InUse, Opened
<1>3. ASSUME NEW x, NEW c \in {Out(o), In(o)}, Sent(c, x) PROVE FALSE
  <2>1. PICK f \in Ends : f = Peer(Home(c))
    BY PairFacts, EndFacts
  <2>2. PICK m \in Flying(f) : m.from = c /\ m.type = x
    BY <1>3, <2>1 DEF Sent
  <2>3. m.type \in MessageTypes /\ PacketForm(f, m)
    BY FlyingType DEF Packet, RouteInv, Form, WireForm
  <2>4. (x \in Offers => c = Out(o)) /\ (x \in {"Confirm", "Failure"} => c = In(o))
    BY <2>2, <2>3, PairFacts DEF PacketForm
  <2> QED BY <1>2, <1>3, <2>2, <2>3, <2>4 DEF MessageTypes, Offered, Answered, Accepted, Offers
<1> QED BY <1>2, <1>3

LEMMA RouteOpenCall ==
    ASSUME Types, RouteInv, NEW o \in Opens, OpenCall(o)
    PROVE  RouteInv'
<1>1. /\ UNCHANGED <<remoteId, sentClose, msg, held, inbox, loops, up, odd, wire>>
      /\ opc[o] = "idle" /\ opc' = [opc EXCEPT ![o] = "encode"] /\ NewChannel(Out(o))
  BY DEF OpenCall
<1>2. /\ \A c \in Channels : \A x : At(c, x)' <=> At(c, x)
      /\ \A c \in Channels : \A x : Sent(c, x)' <=> Sent(c, x)
      /\ \A c \in Channels : Inboxed(c)' <=> Inboxed(c)
      /\ \A e \in Ends : \A m : m \in Flying(e)' <=> m \in Flying(e)
      /\ \A e \in Ends : (Alive(e)' <=> Alive(e)) /\ lpc'[e] = lpc[e] /\ up'[e] = up[e]
      /\ Order' /\ InboxForm'
  BY <1>1, SameLoops, SameWire, SameInbox DEF loops, Alive, RouteInv, Form
<1>3. WireForm' /\ CurForm'
  <2>1. WireForm'
    BY <1>1, <1>2, WireFormFrame DEF RouteInv, Form
  <2> QED BY <1>1, <2>1 DEF CurForm, loops, RouteInv, Form
<1>4. /\ Slot(Out(o))' /\ \A d \in Channels : d # Out(o) /\ Slot(d) => Slot(d)'
      /\ \A d \in Channels : d # Out(o) => localId'[d] = localId[d]
  BY <1>1, PairFacts, SlotAdd, NewChannelFacts
<1>5. ASSUME NEW p \in Opens PROVE Pair(p)'
  <2>1. /\ Out(p) \in Channels /\ In(p) \in Channels /\ Caller(p) \in Ends /\ Callee(p) \in Ends
        /\ In(p) # Out(o) /\ (p # o => Out(p) # Out(o))
    BY PairFacts, EndFacts DEF Callee
  <2>2. CASE p # o
    <3>1. Pair(p)
      BY DEF RouteInv
    <3>2. (Calling(p)' <=> Calling(p)) /\ (opc[p] = "idle" => opc'[p] = "idle")
      BY <1>1, <2>2 DEF Calling, Types, ProgramTypes
    <3> QED BY <1>1, <1>2, <1>4, <2>1, <2>2, <3>1, <3>2, PairFrame
  <2>3. CASE p = o
    <3>1. Calling(o) /\ Calling(o)' /\ opc'[o] = "encode"
      BY <1>1 DEF Calling, Types, ProgramTypes
    <3>2. /\ ~Offered(o) /\ ~Answering(o) /\ ~Answered(o) /\ ~Accepted(o) /\ msg[o] = "empty"
          /\ Out(o) \notin held /\ ~Removing(Out(o)) /\ ~Removing(In(o))
          /\ \A x : ~Sent(Out(o), x) /\ ~Sent(In(o), x)
      BY <3>1, Quiet
    <3>3. /\ ~Offered(o)' /\ ~Answering(o)' /\ ~Answered(o)' /\ ~Accepted(o)' /\ msg'[o] = "empty"
          /\ Out(o) \notin held' /\ ~Removing(Out(o))' /\ ~Removing(In(o))'
          /\ \A x : ~Sent(Out(o), x)' /\ ~Sent(In(o), x)'
      BY <1>1, <1>2, <2>1, <2>3, <3>2 DEF Offered, Answering, Answered, Accepted, Removing
    <3>4. /\ \A m : m \in Flying(Caller(o))' => m.from # In(o)
          /\ \A m : m \in Flying(Callee(o))' => m.from # Out(o)
      BY <3>3, PairFacts, EndFacts DEF Sent, Callee
    <3>5. Stages(o)' /\ InUse(o)' /\ Ids(o)' /\ Opened(o)' /\ Confirmed(o)'
      BY <3>1, <3>3, <3>4 DEF Stages, InUse, Ids, Opened, Confirmed
    <3>6. Closes(o)'
      <4>1. Closes(o)
        BY DEF RouteInv, Pair
      <4> QED BY <1>1, <1>2, <2>1, <2>3, <3>1, <3>3, <4>1 DEF Closes
    <3>7. Lists(o)' /\ Reach(o)'
      BY <1>4, <3>3, <3>4 DEF Lists, Reach, Answering
    <3> QED BY <2>3, <3>5, <3>6, <3>7 DEF Pair
  <2> QED BY <2>2, <2>3
<1> QED BY <1>2, <1>3, <1>5 DEF RouteInv, Form

(* The OpenMessage is sent, or cannot be. *)
LEMMA RouteOpenEncode ==
    ASSUME Types, RouteInv, NEW o \in Opens, OpenEncode(o)
    PROVE  RouteInv'
<1> DEFINE c == Out(o)
<1>1. /\ UNCHANGED <<chans, objects, held, inbox, loops, up, odd>>
      /\ opc[o] = "encode" /\ Calling(o)
  BY DEF OpenEncode, Calling
<1>2. opc'[o] \in {"wait", "failed"} /\ \A p \in Opens : p # o => opc'[p] = opc[p]
  BY DEF OpenEncode, Types, ProgramTypes
<1>3. UNCHANGED <<localId, remoteId, sentClose, msg, lpc, cur>>
  BY <1>1 DEF objects, loops
<1>4. c \in Channels /\ Home(c) = Caller(o) /\ localId[c] \in Nat
  BY PairFacts DEF Types, ObjectTypes
<1>5. PICK t \in Offers : UNCHANGED wire \/ Encode(c, t, 0, localId[c])
  BY DEF OpenEncode, Offers
<1>6. /\ \A x : ~Sent(Out(o), x) /\ ~Sent(In(o), x)
      /\ ~Offered(o) /\ ~Answering(o) /\ ~Answered(o) /\ ~Accepted(o) /\ msg[o] = "empty"
      /\ Out(o) \notin held /\ ~Removing(Out(o)) /\ ~Removing(In(o))
  BY <1>1, Quiet
<1>7. PICK M : M = Message(t, 0, localId[c], c)
  OBVIOUS
<1>8. M.type = t /\ M.sender = localId[c] /\ M.from = c
  BY <1>7 DEF Message
<1>9. /\ \A d \in Channels : \A x : Sent(d, x)' => Sent(d, x) \/ (d = c /\ x \in Offers)
      /\ \A d \in Channels : \A x : Sent(d, x) => Sent(d, x)'
      /\ \A e \in Ends : \A m : m \in Flying(e)' => m \in Flying(e) \/ (e = Callee(o) /\ m = M)
      /\ Order'
  <2>1. CASE UNCHANGED wire
    BY <2>1, SameWire DEF RouteInv, Form
  <2>2. CASE Encode(c, t, 0, localId[c])
    <3>1. t \in MessageTypes /\ 0 \in Nat
      BY DEF Offers, MessageTypes
    <3>2. \A m \in Flying(Peer(Home(c))) : m.from # c
      BY <1>6 DEF Sent
    <3>3. Order'
      BY <1>4, <2>2, <3>1, <3>2, FlyEncode DEF RouteInv, Form
    <3>4. /\ \A d \in Channels : \A x : Sent(d, x)' <=> Sent(d, x) \/ (d = c /\ x = t)
          /\ \A e \in Ends : \A m : m \in Flying(e)' <=>
                 m \in Flying(e) \/ (e = Peer(Home(c)) /\ m = M)
      BY <1>4, <1>7, <2>2, <3>1, SentEncode
    <3> QED BY <1>4, <3>3, <3>4 DEF Callee
  <2> QED BY <1>5, <2>1, <2>2
<1>10. /\ \A d \in Channels : \A x : At(d, x)' <=> At(d, x)
       /\ \A d \in Channels : Slot(d)' <=> Slot(d)
       /\ \A d \in Channels : Inboxed(d)' <=> Inboxed(d)
       /\ \A e \in Ends : (Alive(e)' <=> Alive(e)) /\ lpc'[e] = lpc[e] /\ up'[e] = up[e]
       /\ InboxForm'
  BY <1>1, <1>3, SameLoops, SameLists, SameInbox DEF Alive, RouteInv, Form
<1>11. PacketForm(Callee(o), M)'
  <2>1. Home(c) = Peer(Callee(o)) /\ c[2] = "out"
    BY <1>4, PairFacts, EndFacts DEF Callee
  <2> QED BY <1>8, <2>1 DEF PacketForm, Offers
<1>12. WireForm' /\ CurForm'
  <2>1. WireForm'
    <3> HIDE DEF c
    <3> QED BY <1>1, <1>3, <1>9, <1>11, WireFormFrame DEF RouteInv, Form
  <2> QED BY <1>3, <2>1 DEF CurForm, RouteInv, Form
<1>13. ASSUME NEW p \in Opens PROVE Pair(p)'
  <2>1. /\ Out(p) \in Channels /\ In(p) \in Channels /\ Caller(p) \in Ends /\ Callee(p) \in Ends
        /\ In(p) # Out(o) /\ (p # o => Out(p) # Out(o))
    BY PairFacts, EndFacts DEF Callee
  <2>2. CASE p # o
    <3>1. Pair(p)
      BY DEF RouteInv
    <3>2. (Calling(p)' <=> Calling(p)) /\ (opc[p] = "idle" => opc'[p] = "idle")
      BY <1>2, <2>2 DEF Calling
    <3>3. /\ \A m : m \in Flying(Caller(p))' /\ m.from = In(p) => m \in Flying(Caller(p))
          /\ \A m : m \in Flying(Callee(p))' /\ m.from = Out(p) => m \in Flying(Callee(p))
          /\ \A x : Sent(Out(p), x)' => Sent(Out(p), x)
          /\ \A x : Sent(In(p), x)' => Sent(In(p), x)
          /\ Sent(In(p), "Confirm") => Sent(In(p), "Confirm")'
      BY <1>8, <1>9, <2>1, <2>2
    <3> QED BY <1>1, <1>3, <1>10, <2>1, <2>2, <3>1, <3>2, <3>3, PairFrame
  <2>3. CASE p = o
    <3>1. /\ ~Calling(o)' /\ opc[o] # "idle" /\ opc'[o] # "idle"
      BY <1>1, <1>2 DEF Calling
    <3>2. /\ ~Answering(o)' /\ ~Answered(o)' /\ ~Accepted(o)' /\ msg'[o] = "empty"
          /\ Out(o) \notin held' /\ ~Removing(Out(o))' /\ ~Removing(In(o))'
          /\ \A x : ~Sent(In(o), x)' /\ (Sent(Out(o), x)' => x \in Offers)
      BY <1>1, <1>3, <1>6, <1>9, <1>10, <2>1, <2>3 DEF Answering, Answered, Accepted, Removing
    <3>3. ~Sent(Out(o), "Data")' /\ ~Sent(Out(o), "Close")'
      BY <3>2 DEF Offers
    <3>4. /\ \A m : m \in Flying(Caller(o))' => m.from # In(o)
          /\ \A m : m \in Flying(Callee(o))' /\ m.from = Out(o) => m = M
      <4>1. Peer(Home(In(o))) = Caller(o) /\ Peer(Home(Out(o))) = Callee(o)
        BY PairFacts, EndFacts DEF Callee
      <4>2. \A m : m \in Flying(Caller(o))' => m.from # In(o)
        BY <3>2, <4>1 DEF Sent
      <4>3. \A m \in Flying(Callee(o)) : m.from # Out(o)
        BY <1>6, <4>1 DEF Sent
      <4> QED BY <1>9, <2>1, <2>3, <4>2, <4>3
    <3>5. Stages(o)' /\ InUse(o)' /\ Opened(o)' /\ Confirmed(o)'
      BY <3>1, <3>2, <3>3, <3>4 DEF Stages, InUse, Opened, Confirmed
    <3>6. Ids(o)'
      BY <1>3, <1>8, <3>2, <3>4 DEF Ids
    <3>7. Closes(o)'
      <4>1. Closes(o)
        BY DEF RouteInv, Pair
      <4> QED BY <1>1, <1>3, <1>10, <2>1, <2>3, <3>2, <4>1 DEF Closes
    <3>8. Lists(o)'
      <4>1. Lists(o)
        BY DEF RouteInv, Pair
      <4> QED BY <1>1, <1>3, <1>6, <1>10, <2>1, <2>3, <3>1, <3>2, <4>1 DEF Lists, Answering
    <3>9. Reach(o)'
      BY <1>8, <3>4 DEF Reach
    <3> QED BY <2>3, <3>5, <3>6, <3>7, <3>8, <3>9 DEF Pair
  <2> QED BY <2>2, <2>3
<1> QED BY <1>9, <1>10, <1>12, <1>13 DEF RouteInv, Form

(* A channel that a program has, or that the loop is removing, sends data  *)
(* or its Close, or tries to.                                              *)
LEMMA RouteSend ==
    ASSUME Types, RouteInv, NEW o \in Opens, NEW c \in {Out(o), In(o)}, NEW t \in {"Data", "Close"},
           c \in held \/ Removing(c),
           \/ UNCHANGED wire
           \/ /\ Encode(c, t, remoteId[c], 0)
              /\ t = "Close" => up[Home(c)]
              /\ t = "Data" /\ sentClose[c] => "lateData" \in odd',
           t = "Close" => ~sentClose[c] /\ ~At(c, "confirm"),
           sentClose'[c] = (sentClose[c] \/ t = "Close"),
           \A d \in Channels : d # c => sentClose'[d] = sentClose[d],
           UNCHANGED <<chans, localId, remoteId, msg, opc, held, inbox, up>>,
           odd \subseteq odd',
           \A d \in Channels : d # c => \A x : At(d, x)' <=> At(d, x),
           \A x \in {"inbox", "confirm", "refuse"} : At(c, x)' <=> At(c, x),
           Removing(c)' <=> Removing(c),
           \A e \in Ends : lpc'[e] \in Working <=> lpc[e] \in Working
    PROVE  Order' /\ WireForm' /\ InboxForm' /\ \A p \in Opens : Pair(p)'
<1>1. /\ c \in Channels /\ Home(c) \in Ends /\ Peer(Home(c)) \in Ends
      /\ Peer(Peer(Home(c))) = Home(c)
      /\ remoteId[c] \in Nat /\ t \in MessageTypes /\ 0 \in Nat /\ sentClose[c] \in BOOLEAN
  BY PairFacts, ChannelFacts, EndFacts DEF Types, ObjectTypes, MessageTypes
<1>2. /\ \A d \in Channels : Slot(d)' <=> Slot(d)
      /\ \A d \in Channels : Inboxed(d)' <=> Inboxed(d)
      /\ \A e \in Ends : (Alive(e)' <=> Alive(e)) /\ up'[e] = up[e]
      /\ InboxForm'
      /\ \A p \in Opens : (Calling(p)' <=> Calling(p)) /\ opc'[p] = opc[p]
  BY SameLists, SameInbox DEF Alive, RouteInv, Form, Calling
<1>3. /\ Stages(o) /\ InUse(o) /\ Ids(o) /\ Opened(o) /\ Confirmed(o)
      /\ Closes(o) /\ Lists(o) /\ Reach(o) /\ WireForm /\ Order
  BY DEF RouteInv, Pair, Form
<1>4. /\ c = Out(o) => msg[o] = "confirm"
      /\ c = In(o) => Accepted(o)
  BY <1>3 DEF Opened, Accepted
<1>5. PICK M : M = Message(t, remoteId[c], 0, c)
  OBVIOUS
<1>6. M.type = t /\ M.from = c /\ M.id = remoteId[c] /\ M.late = sentClose[c]
  BY <1>5 DEF Message
<1>7. ASSUME NEW m \in Flying(Peer(Home(c))), m.from = c PROVE Follows(m, M)
  <2>1. m.type \in MessageTypes /\ PacketForm(Peer(Home(c)), m) /\ Sent(c, m.type)
    BY <1>1, <1>3, <1>7, FlyingType DEF Packet, WireForm, Sent
  <2>2. m.type \notin Offers
    <3>1. CASE c = Out(o)
      BY <1>3, <1>4, <2>1, <3>1 DEF Stages, Offered, Offers
    <3>2. CASE c = In(o)
      BY <1>7, <2>1, <3>2, PairFacts DEF PacketForm
    <3> QED BY <3>1, <3>2
  <2>3. m.type # "Failure"
    <3>1. CASE c = Out(o)
      BY <1>7, <2>1, <3>1, PairFacts DEF PacketForm
    <3>2. CASE c = In(o)
      BY <1>3, <1>4, <2>1, <3>2 DEF InUse
    <3> QED BY <3>1, <3>2
  <2>4. m.type = "Close" => sentClose[c]
    BY <1>7, <2>1 DEF PacketForm
  <2> QED BY <1>6, <2>1, <2>2, <2>3, <2>4 DEF Follows, MessageTypes, Offers
<1>8. /\ \A d \in Channels : \A x : Sent(d, x)' => Sent(d, x) \/ (d = c /\ x = t)
      /\ \A d \in Channels : \A x : Sent(d, x) => Sent(d, x)'
      /\ \A e \in Ends : \A m : m \in Flying(e)' => m \in Flying(e) \/ (e = Peer(Home(c)) /\ m = M)
      /\ t = "Close" /\ ~up[Home(c)] => \A d \in Channels : \A x : Sent(d, x)' => Sent(d, x)
      /\ (\A e \in Ends : \A m : m \in Flying(e)' => m \in Flying(e))
            \/ (t = "Data" /\ sentClose[c] => "lateData" \in odd')
      /\ Order'
  <2>1. CASE UNCHANGED wire
    BY <1>3, <2>1, SameWire
  <2>2. CASE /\ Encode(c, t, remoteId[c], 0)
             /\ t = "Close" => up[Home(c)]
             /\ t = "Data" /\ sentClose[c] => "lateData" \in odd'
    <3>1. Order'
      BY <1>1, <1>3, <1>5, <1>7, <2>2, FlyEncode
    <3>2. /\ \A d \in Channels : \A x : Sent(d, x)' <=> Sent(d, x) \/ (d = c /\ x = t)
          /\ \A e \in Ends : \A m : m \in Flying(e)' <=>
                 m \in Flying(e) \/ (e = Peer(Home(c)) /\ m = M)
      BY <1>1, <1>5, <2>2, SentEncode
    <3> QED BY <2>2, <3>1, <3>2
  <2> QED BY <2>1, <2>2
<1>9. WireForm'
  <2>1. ASSUME NEW e \in Ends, NEW m, m \in Flying(e)' PROVE m \in Flying(e) \/ PacketForm(e, m)'
    <3>1. CASE m \notin Flying(e)
      <4>1. e = Peer(Home(c)) /\ m = M /\ (t = "Data" /\ sentClose[c] => "lateData" \in odd')
        BY <1>8, <2>1, <3>1
      <4>2. (t = "Close" => sentClose'[c] /\ ~sentClose[c]) /\ Home(c) = Peer(e)
        BY <1>1, <4>1
      <4> QED BY <1>6, <4>1, <4>2 DEF PacketForm, Offers
    <3> QED BY <3>1
  <2>2. \A d \in Channels : sentClose[d] => sentClose'[d]
    OBVIOUS
  <2> QED BY <1>3, <2>1, <2>2, WireFormFrame
<1>10. ASSUME NEW p \in Opens, p # o PROVE Pair(p)'
  <2>1. /\ Out(p) \in Channels /\ In(p) \in Channels /\ Caller(p) \in Ends /\ Callee(p) \in Ends
        /\ In(p) # c /\ Out(p) # c
    BY <1>10, PairFacts, EndFacts DEF Callee
  <2>2. Pair(p)
    BY DEF RouteInv
  <2>3. /\ \A m : m \in Flying(Caller(p))' /\ m.from = In(p) => m \in Flying(Caller(p))
        /\ \A m : m \in Flying(Callee(p))' /\ m.from = Out(p) => m \in Flying(Callee(p))
        /\ \A x : Sent(Out(p), x)' => Sent(Out(p), x)
        /\ \A x : Sent(In(p), x)' => Sent(In(p), x)
        /\ Sent(In(p), "Confirm") => Sent(In(p), "Confirm")'
    BY <1>6, <1>8, <2>1
  <2> QED BY <1>2, <2>1, <2>2, <2>3, PairFrame
<1>11. /\ Out(o) \in Channels /\ In(o) \in Channels /\ Caller(o) \in Ends /\ Callee(o) \in Ends
       /\ Home(Out(o)) = Caller(o) /\ Home(In(o)) = Callee(o) /\ Out(o) # In(o)
       /\ Peer(Caller(o)) = Callee(o) /\ Peer(Callee(o)) = Caller(o)
  BY PairFacts, EndFacts DEF Callee
<1>12. /\ \A x \in {"inbox", "confirm", "refuse"} : At(In(o), x)' <=> At(In(o), x)
       /\ Removing(Out(o))' <=> Removing(Out(o))
       /\ Removing(In(o))' <=> Removing(In(o))
  BY <1>11 DEF Removing
<1>13. /\ Answering(o)' <=> Answering(o)
       /\ Offered(o)' <=> Offered(o)
       /\ Answered(o)' <=> Answered(o)
       /\ Accepted(o)' <=> Accepted(o)
       /\ Sent(In(o), "Confirm")' <=> Sent(In(o), "Confirm")
       /\ Sent(In(o), "Failure")' <=> Sent(In(o), "Failure")
  BY <1>2, <1>4, <1>8, <1>11, <1>12 DEF Answering, Offered, Answered, Accepted
<1>14. /\ At(In(o), "inbox")' <=> At(In(o), "inbox")
       /\ At(In(o), "refuse")' <=> At(In(o), "refuse")
       /\ At(In(o), "confirm")' <=> At(In(o), "confirm")
  BY <1>12
<1>15. Stages(o)' /\ InUse(o)'
  BY <1>2, <1>3, <1>13, <1>14 DEF Stages, InUse
<1>16. Ids(o)'
  BY <1>3, <1>6, <1>8, <1>11, <1>13 DEF Ids, Offers
<1>17. Opened(o)'
  BY <1>3, <1>4, <1>8, <1>11, <1>12 DEF Opened
<1>18. Confirmed(o)'
  <2>1. Accepted(o)' /\ ~Answering(o)' =>
           \/ msg'[o] = "confirm" \/ Sent(In(o), "Confirm")'
           \/ ~Alive(Caller(o))' \/ ~up'[Callee(o)]
    BY <1>2, <1>3, <1>11, <1>13 DEF Confirmed
  <2>2. ASSUME Sent(In(o), "Close")', ~Sent(In(o), "Close")
        PROVE  msg'[o] = "confirm" \/ Sent(In(o), "Confirm")' \/ ~Alive(Caller(o))'
    <3>1. c = In(o) /\ t = "Close" /\ up[Callee(o)]
      BY <1>8, <1>11, <2>2
    <3>2. ~Answering(o) /\ Accepted(o)
      BY <1>3, <1>4, <3>1 DEF Answering, InUse
    <3> QED BY <1>2, <1>11, <1>13, <2>1, <3>1, <3>2
  <2>3. Sent(In(o), "Close") =>
          msg'[o] = "confirm" \/ Sent(In(o), "Confirm")' \/ ~Alive(Caller(o))'
    BY <1>2, <1>3, <1>11, <1>13 DEF Confirmed
  <2> QED BY <2>1, <2>2, <2>3 DEF Confirmed
<1>19. Closes(o)'
  <2>1. /\ sentClose[Out(o)] => sentClose'[Out(o)]
        /\ sentClose[In(o)] => sentClose'[In(o)]
    BY <1>11
  <2>2. c = In(o) /\ t = "Close" => ~Calling(o) /\ ~Offered(o) /\ ~Answering(o)
    BY <1>3, <1>4 DEF InUse, Answering
  <2>3. Calling(o) \/ Offered(o) \/ Answering(o) => sentClose'[In(o)] = sentClose[In(o)]
    <3>1. CASE c = In(o) /\ t = "Close"
      BY <2>2, <3>1
    <3>2. CASE c # In(o)
      BY <1>11, <3>2
    <3>3. CASE c = In(o) /\ t = "Data"
      BY <1>1, <3>3
    <3> QED BY <3>1, <3>2, <3>3
  <2> QED BY <1>2, <1>3, <1>11, <1>12, <1>13, <2>1, <2>3 DEF Closes
<1>20. Lists(o)'
  <2>1. /\ ~sentClose'[Out(o)] => ~sentClose[Out(o)]
        /\ ~sentClose'[In(o)] => ~sentClose[In(o)]
    BY <1>11
  <2> QED BY <1>2, <1>3, <1>11, <1>12, <1>13, <1>14, <2>1 DEF Lists
<1>21. Reach(o)'
  <2>1. ASSUME NEW m, m \in Flying(Caller(o))', m.from = In(o), ~m.late, Alive(Caller(o))'
        PROVE  Slot(Out(o))' /\ m.id = localId'[Out(o)] /\ ~Removing(Out(o))'
    <3>1. CASE m \in Flying(Caller(o))
      BY <1>2, <1>3, <1>11, <1>12, <2>1, <3>1 DEF Reach
    <3>2. CASE m = M /\ c = In(o)
      <4>1. ~Calling(o) /\ msg[o] # "failure" /\ remoteId[In(o)] = localId[Out(o)]
        BY <1>3, <1>4, <3>2 DEF InUse, Ids
      <4>2. ~sentClose[In(o)] /\ opc[o] # "idle"
        BY <1>6, <2>1, <3>2, <4>1 DEF Calling
      <4>3. Slot(Out(o)) /\ ~Removing(Out(o))
        BY <1>2, <1>3, <1>11, <2>1, <4>1, <4>2 DEF Lists, Closes
      <4> QED BY <1>2, <1>6, <1>11, <1>12, <3>2, <4>1, <4>3
    <3> QED BY <1>6, <1>8, <1>11, <2>1, <3>1, <3>2
  <2>2. ASSUME NEW m, m \in Flying(Callee(o))', m.from = Out(o), ~m.late, m.type \notin Offers,
               Alive(Callee(o))'
        PROVE  Slot(In(o))' /\ m.id = localId'[In(o)] /\ ~Removing(In(o))'
    <3>1. CASE m \in Flying(Callee(o))
      BY <1>2, <1>3, <1>11, <1>12, <2>2, <3>1 DEF Reach
    <3>2. CASE m = M /\ c = Out(o)
      <4>1. msg[o] = "confirm" /\ remoteId[Out(o)] = localId[In(o)] /\ ~sentClose[Out(o)]
        BY <1>3, <1>4, <1>6, <2>2, <3>2 DEF Ids
      <4>2. Slot(In(o)) /\ ~Removing(In(o))
        BY <1>2, <1>3, <1>11, <2>2, <4>1 DEF Lists, Closes
      <4> QED BY <1>2, <1>6, <1>11, <1>12, <3>2, <4>1, <4>2
    <3> QED BY <1>6, <1>8, <1>11, <2>2, <3>1, <3>2
  <2> QED BY <2>1, <2>2 DEF Reach
<1> QED BY <1>2, <1>8, <1>9, <1>10, <1>15, <1>16, <1>17, <1>18, <1>19, <1>20, <1>21 DEF Pair

LEMMA SendCloseFacts ==
    ASSUME Types, NEW c \in Channels, SendClose(c)
    PROVE  /\ \A d \in Channels : d # c => sentClose'[d] = sentClose[d]
           /\ \/ sentClose[c] /\ sentClose'[c] /\ UNCHANGED wire
              \/ /\ ~sentClose[c] /\ sentClose'[c]
                 /\ UNCHANGED wire \/ (up[Home(c)] /\ Encode(c, "Close", remoteId[c], 0))
<1>1. CASE ~MaySend(c) /\ UNCHANGED <<sentClose, wire>>
  BY <1>1 DEF MaySend, Types, ObjectTypes
<1>2. CASE /\ MaySend(c)
           /\ sentClose' = [sentClose EXCEPT ![c] = TRUE]
           /\ \/ CanEncode(Home(c)) /\ Encode(c, "Close", remoteId[c], 0)
              \/ CanFailEncode(Home(c)) /\ UNCHANGED wire
  BY <1>2 DEF MaySend, Types, ObjectTypes, CanEncode
<1> QED BY <1>1, <1>2 DEF SendClose

LEMMA ChannelOfOpen ==
    ASSUME NEW c \in Channels
    PROVE  \E o \in Opens : c \in {Out(o), In(o)}
  BY DEF Channels, Out, In

LEMMA RouteWrite ==
    ASSUME Types, RouteInv, NEW c \in Channels, WriteReserve(c) \/ WriteEncode(c)
    PROVE  RouteInv'
<1>1. CASE WriteReserve(c)
  <2>1. UNCHANGED <<chans, objects, loops, up, wire, odd, held, inbox, opc>>
    BY <1>1 DEF WriteReserve
  <2>2. /\ \A d \in Channels : Inboxed(d)' <=> Inboxed(d)
        /\ InboxForm'
        /\ \A o \in Opens : Calling(o)' <=> Calling(o)
    BY <2>1, SameInbox DEF Calling, RouteInv, Form
  <2> QED BY <2>1, <2>2, PairFacts, RouteProgram
<1>2. CASE WriteEncode(c)
  <2>1. PICK o \in Opens : c \in {Out(o), In(o)}
    BY ChannelOfOpen
  <2>2. /\ UNCHANGED <<chans, localId, remoteId, sentClose, msg, opc, held, inbox, up, lpc, cur>>
        /\ odd \subseteq odd' /\ (sentClose[c] => "lateData" \in odd')
        /\ UNCHANGED wire \/ Encode(c, "Data", remoteId[c], 0)
        /\ c \in held
    BY <1>2 DEF WriteEncode, objects, loops, Types, ProgramTypes
  <2>3. \A d \in Channels : \A x : At(d, x)' <=> At(d, x)
    BY <2>2, SameLoops
  <2>4. sentClose[c] \in BOOLEAN
    BY DEF Types, ObjectTypes
  <2>5. sentClose'[c] = (sentClose[c] \/ "Data" = "Close")
    BY <2>2, <2>4
  <2>6. Removing(c)' <=> Removing(c)
    BY <2>3 DEF Removing
  <2>7. Order' /\ WireForm' /\ InboxForm' /\ \A p \in Opens : Pair(p)'
    <3>1. PICK t \in {"Data", "Close"} : t = "Data"
      OBVIOUS
    <3> QED BY <2>1, <2>2, <2>3, <2>5, <2>6, <3>1, RouteSend
  <2>8. CurForm'
    BY <2>2 DEF CurForm, RouteInv, Form
  <2> QED BY <2>7, <2>8 DEF RouteInv, Form
<1> QED BY <1>1, <1>2

LEMMA RouteCloseChannel ==
    ASSUME Types, RouteInv, ~Early', NEW c \in Channels, CloseChannel(c)
    PROVE  RouteInv'
<1>1. PICK o \in Opens : c \in {Out(o), In(o)}
  BY ChannelOfOpen
<1>2. /\ UNCHANGED <<chans, localId, remoteId, msg, opc, held, inbox, up, lpc, cur>>
      /\ odd \subseteq odd' /\ c \in held /\ SendClose(c) /\ ~sentClose[c]
  BY DEF CloseChannel, programs, loops
<1>3. ~At(c, "confirm")
  BY DEF CloseChannel, Early, At
<1>4. \A d \in Channels : \A x : At(d, x)' <=> At(d, x)
  BY <1>2, SameLoops
<1>5. Removing(c)' <=> Removing(c)
  BY <1>4 DEF Removing
<1>6. /\ \A d \in Channels : d # c => sentClose'[d] = sentClose[d]
      /\ UNCHANGED wire \/ (up[Home(c)] /\ Encode(c, "Close", remoteId[c], 0))
      /\ sentClose'[c]
  BY <1>2, SendCloseFacts
<1>7. sentClose'[c] = (sentClose[c] \/ "Close" = "Close")
  <2>1. sentClose'[c] \in BOOLEAN
    BY <1>2, SendCloseTypes
  <2> QED BY <1>6, <2>1
<1>8. Order' /\ WireForm' /\ InboxForm' /\ \A p \in Opens : Pair(p)'
  <2>1. PICK t \in {"Data", "Close"} : t = "Close"
    OBVIOUS
  <2> QED BY <1>1, <1>2, <1>3, <1>4, <1>5, <1>6, <1>7, <2>1, RouteSend
<1>9. CurForm'
  BY <1>2 DEF CurForm, RouteInv, Form
<1> QED BY <1>8, <1>9 DEF RouteInv, Form

LEMMA RouteReplyClose ==
    ASSUME Types, RouteInv, NEW e \in Ends, ReplyClose(e)
    PROVE  RouteInv'
<1>1. PICK c \in Channels : c = cur[e]
  BY DEF ReplyClose, Types, LoopTypes, Working
<1>2. lpc[e] = "reply" /\ Home(c) = e
  BY <1>1 DEF ReplyClose, RouteInv, Form, CurForm, Working
<1>3. PICK o \in Opens : c \in {Out(o), In(o)}
  BY ChannelOfOpen
<1>4. /\ UNCHANGED <<chans, localId, remoteId, msg, opc, held, inbox, up, odd>>
      /\ SendClose(c)
      /\ lpc' = [lpc EXCEPT ![e] = "remove"] /\ cur' = [cur EXCEPT ![e] = c]
  BY <1>1 DEF ReplyClose, Goto, programs
<1>5. /\ \A d \in Channels : \A x :
            /\ Home(d) # e => (At(d, x)' <=> At(d, x))
            /\ Home(d) = e => (At(d, x)' <=> d = c /\ x = "remove")
      /\ lpc'[e] = "remove" /\ cur'[e] = c
      /\ \A f \in Ends : f # e => lpc'[f] = lpc[f] /\ cur'[f] = cur[f]
  BY <1>4, AtMoves
<1>6. \A d \in Channels : d # c => \A x : At(d, x)' <=> At(d, x)
  BY <1>1, <1>5 DEF At
<1>7. /\ \A x \in {"inbox", "confirm", "refuse"} : At(c, x)' <=> At(c, x)
      /\ Removing(c) /\ Removing(c)' /\ ~At(c, "confirm")
  BY <1>1, <1>2, <1>5 DEF At, Removing
<1>8. /\ \A d \in Channels : d # c => sentClose'[d] = sentClose[d]
      /\ \/ sentClose[c] /\ sentClose'[c] /\ UNCHANGED wire
         \/ /\ ~sentClose[c] /\ sentClose'[c]
            /\ UNCHANGED wire \/ (up[Home(c)] /\ Encode(c, "Close", remoteId[c], 0))
      /\ sentClose[c] \in BOOLEAN /\ sentClose'[c] \in BOOLEAN
  BY <1>4, SendCloseFacts, SendCloseTypes DEF Types, ObjectTypes
<1>9. PICK t \in {"Data", "Close"} : t = IF sentClose[c] THEN "Data" ELSE "Close"
  OBVIOUS
<1>10. /\ t = "Close" => ~sentClose[c]
       /\ sentClose'[c] = (sentClose[c] \/ t = "Close")
       /\ \/ UNCHANGED wire
          \/ /\ Encode(c, t, remoteId[c], 0)
             /\ t = "Close" => up[Home(c)]
             /\ t = "Data" /\ sentClose[c] => "lateData" \in odd'
  <2>1. CASE sentClose[c]
    BY <1>8, <1>9, <2>1
  <2>2. CASE ~sentClose[c]
    BY <1>8, <1>9, <2>2
  <2> QED BY <2>1, <2>2
<1>11. \A f \in Ends : lpc'[f] \in Working <=> lpc[f] \in Working
  BY <1>2, <1>5 DEF Working
<1>12. Order' /\ WireForm' /\ InboxForm' /\ \A p \in Opens : Pair(p)'
  BY <1>3, <1>4, <1>6, <1>7, <1>8, <1>10, <1>11, RouteSend
<1>13. CurForm'
  BY <1>2, <1>5 DEF CurForm, RouteInv, Form
<1> QED BY <1>12, <1>13 DEF RouteInv, Form

(* The channel that a loop is answering the Open of. *)
LEMMA AnsweringFacts ==
    ASSUME Types, RouteInv, NEW e \in Ends, lpc[e] \in {"inbox", "confirm", "refuse"}
    PROVE  \E o \in Opens : /\ cur[e] = In(o) /\ Callee(o) = e /\ Caller(o) = Peer(e)
                            /\ Answering(o) /\ ~Calling(o) /\ ~Offered(o) /\ ~Answered(o)
                            /\ msg[o] = "empty" /\ ~sentClose[In(o)]
                            /\ remoteId[In(o)] = localId[Out(o)]
                            /\ ~Removing(In(o)) /\ ~Removing(Out(o)) /\ ~Sent(In(o), "Close")
<1>1. PICK c \in Channels : c = cur[e]
  BY DEF Types, LoopTypes, Working
<1>2. Home(c) = e /\ c[2] = "in" /\ lpc[e] \in Working
  BY <1>1 DEF RouteInv, Form, CurForm, Working
<1>3. PICK o \in Opens : c = In(o)
  BY <1>2, ChannelFacts
<1>4. Callee(o) = e /\ Caller(o) = Peer(e)
  BY <1>2, <1>3, PairFacts, EndFacts DEF Callee
<1>5. Answering(o)
  BY <1>1, <1>2, <1>3 DEF Answering, At
<1>6. Stages(o) /\ Closes(o) /\ Ids(o) /\ Opened(o)
  BY DEF RouteInv, Pair
<1>7. /\ ~Calling(o) /\ ~Offered(o) /\ ~Answered(o) /\ msg[o] = "empty"
      /\ remoteId[In(o)] = localId[Out(o)] /\ ~Removing(In(o)) /\ ~Removing(Out(o))
  BY <1>5, <1>6 DEF Stages, Ids, Opened
<1>8. ~sentClose[In(o)]
  BY <1>2, <1>4, <1>5, <1>6 DEF Closes
<1>9. ~Sent(In(o), "Close")
  BY <1>8, PairFacts, EndFacts DEF RouteInv, Form, WireForm, PacketForm, Sent
<1> QED BY <1>1, <1>3, <1>4, <1>5, <1>7, <1>8, <1>9

LEMMA RoutePushInbox ==
    ASSUME Types, RouteInv, NEW e \in Ends, PushInbox(e)
    PROVE  RouteInv'
<1>1. PICK o \in Opens : /\ cur[e] = In(o) /\ Callee(o) = e /\ Caller(o) = Peer(e)
                         /\ Answering(o) /\ ~Calling(o) /\ ~Offered(o) /\ ~Answered(o)
                         /\ msg[o] = "empty" /\ ~sentClose[In(o)]
                         /\ remoteId[In(o)] = localId[Out(o)]
                         /\ ~Removing(In(o)) /\ ~Removing(Out(o)) /\ ~Sent(In(o), "Close")
  BY AnsweringFacts DEF PushInbox
<1>2. PICK c \in Channels : c = In(o) /\ Home(c) = e /\ c[2] = "in"
  BY <1>1, PairFacts DEF Callee
<1>3. /\ UNCHANGED <<chans, localId, remoteId, sentClose, msg, opc, held, up, odd, wire>>
      /\ lpc[e] = "inbox" /\ inbox' = [inbox EXCEPT ![e] = Append(@, c)]
      /\ lpc' = [lpc EXCEPT ![e] = "confirm"] /\ cur' = [cur EXCEPT ![e] = c]
  BY <1>1, <1>2 DEF PushInbox, Goto, objects
<1>4. /\ \A d \in Channels : \A x :
            /\ Home(d) # e => (At(d, x)' <=> At(d, x))
            /\ Home(d) = e => (At(d, x)' <=> d = c /\ x = "confirm")
      /\ lpc'[e] = "confirm" /\ cur'[e] = c
      /\ \A f \in Ends : f # e => lpc'[f] = lpc[f] /\ cur'[f] = cur[f]
  BY <1>3, AtMoves
<1>5. \A d \in Channels : d # c => \A x : At(d, x)' <=> At(d, x)
  BY <1>1, <1>2, <1>4 DEF At
<1>6. PICK q \in Seq(Channels) : q = inbox[e]
  BY DEF Types, ProgramTypes
<1>7. /\ inbox'[e] = Append(q, c) /\ \A f \in Ends : f # e => inbox'[f] = inbox[f]
  BY <1>3, <1>6 DEF Types, ProgramTypes
<1>8. /\ Len(q) \in Nat /\ Len(inbox'[e]) = Len(q) + 1
      /\ \A i \in 1..Len(q) : inbox'[e][i] = q[i]
      /\ inbox'[e][Len(q) + 1] = c
  BY <1>6, <1>7, AppendProperties, LenProperties
<1>9. \A i \in 1..Len(inbox'[e]) : i \in 1..Len(q) \/ i = Len(q) + 1
  BY <1>8
<1>10. InboxForm'
  <2> SUFFICES ASSUME NEW f \in Ends, NEW i \in 1..Len(inbox'[f])
               PROVE  inbox'[f][i][2] = "in" /\ Home(inbox'[f][i]) = f
    BY DEF InboxForm
  <2>1. CASE f # e
    BY <1>7, <2>1 DEF RouteInv, Form, InboxForm
  <2>2. CASE f = e
    <3>1. \A k \in 1..Len(q) : q[k][2] = "in" /\ Home(q[k]) = e
      BY <1>6 DEF RouteInv, Form, InboxForm
    <3> QED BY <1>2, <1>8, <1>9, <2>2, <3>1
  <2> QED BY <2>1, <2>2
<1>11. \A d \in Channels : Inboxed(d)' => Inboxed(d) \/ d = c
  <2> SUFFICES ASSUME NEW d \in Channels, Inboxed(d)', d # c PROVE Inboxed(d)
    OBVIOUS
  <2>1. PICK f \in Ends : f = Home(d)
    BY ChannelFacts
  <2>2. PICK i \in 1..Len(inbox'[f]) : inbox'[f][i] = d
    BY <2>1 DEF Inboxed
  <2>3. CASE f # e
    BY <1>7, <2>1, <2>2, <2>3 DEF Inboxed
  <2>4. CASE f = e
    <3>1. i \in 1..Len(q) /\ q[i] = d
      BY <1>8, <1>9, <2>2, <2>4
    <3> QED BY <1>6, <2>1, <2>4, <3>1 DEF Inboxed
  <2> QED BY <2>3, <2>4
<1>12. /\ \A d \in Channels : Slot(d)' <=> Slot(d)
       /\ \A d \in Channels : \A x : Sent(d, x)' <=> Sent(d, x)
       /\ \A f \in Ends : \A m : m \in Flying(f)' <=> m \in Flying(f)
       /\ Order'
       /\ \A p \in Opens : (Calling(p)' <=> Calling(p)) /\ opc'[p] = opc[p]
  BY <1>3, SameLists, SameWire DEF Calling, RouteInv, Form
<1>13. \A f \in Ends : /\ Alive(f)' <=> Alive(f)
                       /\ lpc'[f] \in Working <=> lpc[f] \in Working
  BY <1>3, <1>4 DEF Alive, Working
<1>14. WireForm' /\ CurForm'
  <2>1. WireForm'
    BY <1>3, <1>12, WireFormFrame DEF RouteInv, Form
  <2> QED BY <1>2, <1>4, <2>1 DEF CurForm, RouteInv, Form
<1>15. ASSUME NEW p \in Opens, p # o PROVE Pair(p)'
  <2>1. /\ Out(p) \in Channels /\ In(p) \in Channels /\ Caller(p) \in Ends /\ Callee(p) \in Ends
        /\ In(p) # c /\ Out(p) # c
    BY <1>2, <1>15, PairFacts, EndFacts DEF Callee
  <2>2. Pair(p)
    BY DEF RouteInv
  <2> QED BY <1>3, <1>5, <1>11, <1>12, <1>13, <2>1, <2>2, PairFrame
<1>16. Pair(o)'
  <2>1. /\ Out(o) \in Channels /\ In(o) \in Channels /\ Caller(o) \in Ends /\ Callee(o) \in Ends
        /\ Out(o) # c
    BY <1>2, PairFacts, EndFacts DEF Callee
  <2>2. Stages(o) /\ Ids(o) /\ Opened(o) /\ Confirmed(o) /\ Closes(o) /\ Lists(o) /\ Reach(o)
    BY DEF RouteInv, Pair
  <2>3. /\ At(In(o), "inbox") /\ At(In(o), "confirm")' /\ ~At(In(o), "inbox")'
        /\ ~At(In(o), "refuse")' /\ ~Removing(In(o))' /\ ~Removing(Out(o))' /\ Answering(o)'
    BY <1>1, <1>2, <1>3, <1>4, <1>5, <2>1 DEF At, Removing, Answering
  <2>4. ~Offered(o)' /\ ~Answered(o)' /\ ~Calling(o)' /\ msg'[o] = "empty"
    BY <1>1, <1>3, <1>12, <2>1 DEF Offered, Answered
  <2>5. Stages(o)' /\ InUse(o)' /\ Opened(o)' /\ Confirmed(o)'
    BY <1>1, <1>3, <1>12, <2>1, <2>2, <2>3, <2>4
       DEF Stages, InUse, Opened, Confirmed, Answered
  <2>6. Ids(o)'
    BY <1>1, <1>3, <1>12, <2>1, <2>2 DEF Ids
  <2>7. Closes(o)' /\ Lists(o)' /\ Reach(o)'
    BY <1>1, <1>3, <1>12, <1>13, <2>1, <2>2, <2>3, <2>4 DEF Closes, Lists, Reach
  <2> QED BY <2>5, <2>6, <2>7 DEF Pair
<1> QED BY <1>10, <1>12, <1>14, <1>15, <1>16 DEF RouteInv, Form

(* The answer to an Open is sent; or it cannot be, and the loop ends. *)
LEMMA RouteAnswerOpen ==
    ASSUME Types, RouteInv, NEW e \in Ends, AnswerOpen(e)
    PROVE  RouteInv'
<1>1. PICK o \in Opens : /\ cur[e] = In(o) /\ Callee(o) = e /\ Caller(o) = Peer(e)
                         /\ Answering(o) /\ ~Calling(o) /\ ~Offered(o) /\ ~Answered(o)
                         /\ msg[o] = "empty" /\ ~sentClose[In(o)]
                         /\ remoteId[In(o)] = localId[Out(o)]
                         /\ ~Removing(In(o)) /\ ~Removing(Out(o)) /\ ~Sent(In(o), "Close")
  BY AnsweringFacts DEF AnswerOpen
<1>2. PICK c \in Channels : c = In(o) /\ Home(c) = e /\ c[2] = "in"
  BY <1>1, PairFacts DEF Callee
<1>3. PICK t \in {"Confirm", "Failure"} : t = IF lpc[e] = "confirm" THEN "Confirm" ELSE "Failure"
  OBVIOUS
<1>4. /\ UNCHANGED <<chans, localId, remoteId, sentClose, msg, opc, held, inbox, up, odd>>
      /\ lpc[e] \in {"confirm", "refuse"}
  BY DEF AnswerOpen, objects, programs
<1>5. PICK pc \in {"run", "drop"} :
         /\ lpc' = [lpc EXCEPT ![e] = pc] /\ cur' = [cur EXCEPT ![e] = Nil]
         /\ pc = "run" => Encode(c, t, remoteId[c], localId[c])
         /\ pc = "drop" => UNCHANGED wire /\ CanFailEncode(e)
  BY <1>1, <1>2, <1>3 DEF AnswerOpen, Goto, Exit, EncodeAnswer
<1>6. /\ \A d \in Channels : \A x :
            /\ Home(d) # e => (At(d, x)' <=> At(d, x))
            /\ Home(d) = e => (At(d, x)' <=> d = Nil /\ x = pc)
      /\ lpc'[e] = pc /\ cur'[e] = Nil
      /\ \A f \in Ends : f # e => lpc'[f] = lpc[f] /\ cur'[f] = cur[f]
  BY <1>5, AtMoves
<1>7. /\ \A d \in Channels : d # c => \A x : At(d, x)' <=> At(d, x)
      /\ \A x : ~At(c, x)'
  BY <1>1, <1>2, <1>6, ChannelFacts DEF At
<1>8. PICK M : M = Message(t, remoteId[c], localId[c], c)
  OBVIOUS
<1>9. /\ M.type = t /\ M.from = c /\ M.id = remoteId[c] /\ M.sender = localId[c]
      /\ ~M.late
  BY <1>1, <1>2, <1>8 DEF Message
<1>10. InUse(o) /\ Stages(o) /\ Ids(o) /\ Opened(o) /\ Confirmed(o) /\ Lists(o) /\ Reach(o)
  BY DEF RouteInv, Pair
<1>11. /\ t = "Confirm" <=> At(In(o), "confirm")
       /\ t = "Failure" => ~Accepted(o)
  BY <1>1, <1>2, <1>3, <1>4, <1>10 DEF At, InUse
<1>12. ASSUME NEW m \in Flying(Peer(e)), m.from = c PROVE Follows(m, M)
  <2>1. m.type \in MessageTypes /\ PacketForm(Peer(e), m) /\ Sent(c, m.type)
    BY <1>2, <1>12, FlyingType, EndFacts DEF Packet, Sent, RouteInv, Form, WireForm
  <2>2. m.type \notin Offers /\ m.type # "Close" /\ m.type # "Confirm" /\ m.type # "Failure"
    BY <1>1, <1>2, <1>12, <2>1, PairFacts DEF PacketForm, Answered
  <2>3. m.type = "Data" /\ Accepted(o)
    BY <1>2, <2>1, <2>2 DEF MessageTypes, Offers, Accepted
  <2> QED BY <1>9, <1>11, <2>3 DEF Follows
<1>13. /\ \A d \in Channels : \A x : Sent(d, x)' => Sent(d, x) \/ (d = c /\ x = t)
       /\ \A d \in Channels : \A x : Sent(d, x) => Sent(d, x)'
       /\ pc = "run" => Sent(c, t)'
       /\ \A f \in Ends : \A m : m \in Flying(f)' =>
             m \in Flying(f) \/ (f = Peer(e) /\ m = M)
       /\ Order'
  <2>1. CASE pc = "drop"
    BY <1>5, <2>1, SameWire DEF RouteInv, Form
  <2>2. CASE pc = "run"
    <3>1. t \in MessageTypes /\ remoteId[c] \in Nat /\ localId[c] \in Nat
      BY DEF MessageTypes, Types, ObjectTypes
    <3>2. Order'
      BY <1>2, <1>5, <1>8, <1>12, <2>2, <3>1, FlyEncode DEF RouteInv, Form
    <3>3. /\ \A d \in Channels : \A x : Sent(d, x)' <=> Sent(d, x) \/ (d = c /\ x = t)
          /\ \A f \in Ends : \A m : m \in Flying(f)' <=>
                 m \in Flying(f) \/ (f = Peer(Home(c)) /\ m = M)
      BY <1>5, <1>8, <2>2, <3>1, SentEncode
    <3> QED BY <1>2, <3>2, <3>3
  <2> QED BY <2>1, <2>2
<1>14. /\ \A d \in Channels : Slot(d)' <=> Slot(d)
       /\ \A d \in Channels : Inboxed(d)' <=> Inboxed(d)
       /\ InboxForm'
       /\ \A p \in Opens : (Calling(p)' <=> Calling(p)) /\ opc'[p] = opc[p]
  BY <1>4, SameLists, SameInbox DEF Calling, RouteInv, Form
<1>15. /\ \A f \in Ends : /\ Alive(f)' => Alive(f)
                          /\ lpc'[f] \in Working => lpc[f] \in Working
       /\ Alive(Peer(e))' <=> Alive(Peer(e))
  BY <1>4, <1>6, EndFacts DEF Alive, Working
<1>16. WireForm' /\ CurForm'
  <2>1. PacketForm(Peer(e), M)'
    BY <1>2, <1>9, EndFacts DEF PacketForm, Offers
  <2>2. WireForm'
    BY <1>4, <1>13, <2>1, WireFormFrame DEF RouteInv, Form
  <2>3. CurForm'
    BY <1>6 DEF CurForm, RouteInv, Form, Working
  <2> QED BY <2>2, <2>3
<1>17. ASSUME NEW p \in Opens, p # o PROVE Pair(p)'
  <2>1. /\ Out(p) \in Channels /\ In(p) \in Channels /\ Caller(p) \in Ends /\ Callee(p) \in Ends
        /\ In(p) # c /\ Out(p) # c
    BY <1>2, <1>17, PairFacts, EndFacts DEF Callee
  <2>2. Pair(p)
    BY DEF RouteInv
  <2>3. /\ \A m : m \in Flying(Caller(p))' /\ m.from = In(p) => m \in Flying(Caller(p))
        /\ \A m : m \in Flying(Callee(p))' /\ m.from = Out(p) => m \in Flying(Callee(p))
        /\ \A x : Sent(Out(p), x)' => Sent(Out(p), x)
        /\ \A x : Sent(In(p), x)' => Sent(In(p), x)
        /\ Sent(In(p), "Confirm") => Sent(In(p), "Confirm")'
    BY <1>9, <1>13, <2>1
  <2> QED BY <1>4, <1>7, <1>14, <1>15, <2>1, <2>2, <2>3, PairFrame
<1>18. Pair(o)'
  <2>1. /\ Out(o) \in Channels /\ In(o) \in Channels /\ Caller(o) \in Ends /\ Callee(o) \in Ends
        /\ Out(o) # c
    BY <1>2, PairFacts, EndFacts DEF Callee
  <2>2. /\ ~At(In(o), "inbox")' /\ ~At(In(o), "confirm")' /\ ~At(In(o), "refuse")'
        /\ ~Removing(In(o))' /\ ~Removing(Out(o))' /\ ~Answering(o)'
    BY <1>1, <1>2, <1>7, <2>1 DEF Removing, Answering
  <2>3. ~Offered(o)' /\ ~Calling(o)' /\ msg'[o] = "empty"
    BY <1>1, <1>2, <1>4, <1>13, <1>14, <2>1 DEF Offered
  <2>4. /\ Accepted(o)' => Accepted(o)
        /\ Sent(In(o), "Failure")' => t = "Failure"
        /\ Sent(In(o), "Confirm")' => t = "Confirm"
        /\ ~Sent(In(o), "Close")'
        /\ Sent(Out(o), "Data")' => Sent(Out(o), "Data")
        /\ Sent(Out(o), "Close")' => Sent(Out(o), "Close")
    BY <1>1, <1>2, <1>4, <1>13, <1>14, <2>1, <2>2 DEF Accepted, Answered
  <2>5. Stages(o)' /\ InUse(o)' /\ Opened(o)'
    BY <1>4, <1>10, <1>11, <2>2, <2>3, <2>4 DEF Stages, InUse, Opened
  <2>6. Confirmed(o)'
    <3>1. ASSUME Accepted(o)' PROVE Sent(In(o), "Confirm")' \/ ~Alive(Caller(o))' \/ ~up'[Callee(o)]
      <4>1. t = "Confirm"
        BY <1>11, <2>4, <3>1
      <4>2. CASE pc = "run"
        BY <1>2, <1>13, <4>1, <4>2
      <4>3. CASE pc = "drop"
        BY <1>1, <1>4, <1>5, <4>3 DEF CanFailEncode, Alive
      <4> QED BY <4>2, <4>3
    <3> QED BY <2>4, <3>1 DEF Confirmed
  <2>7. Ids(o)'
    <3>1. remoteId'[In(o)] = localId'[Out(o)]
      BY <1>1, <1>4
    <3>2. \A m : m \in Flying(Callee(o))' => m \in Flying(Callee(o))
      BY <1>1, <1>13, <2>1, EndFacts
    <3>3. \A m : m \in Flying(Caller(o))' => m \in Flying(Caller(o)) \/ m = M
      BY <1>13, <2>1
    <3> QED BY <1>2, <1>4, <1>9, <1>10, <2>3, <3>1, <3>2, <3>3 DEF Ids
  <2>8. Closes(o)'
    BY <2>2, <2>3 DEF Closes
  <2>9. Lists(o)'
    <3>1. t = "Confirm" => At(In(o), "confirm")
      BY <1>11
    <3> QED BY <1>1, <1>4, <1>10, <1>14, <1>15, <2>1, <2>2, <2>3, <2>4, <3>1 DEF Lists
  <2>10. Reach(o)'
    <3>1. \A m : m \in Flying(Callee(o))' => m \in Flying(Callee(o))
      BY <1>1, <1>13, <2>1, EndFacts
    <3>2. \A m : m \in Flying(Caller(o))' => m \in Flying(Caller(o)) \/ m = M
      BY <1>13, <2>1
    <3>3. Alive(Caller(o)) => Slot(Out(o)) /\ M.id = localId[Out(o)]
      <4>1. opc[o] # "idle"
        BY <1>1 DEF Calling
      <4> QED BY <1>1, <1>2, <1>9, <1>10, <4>1 DEF Lists
    <3> QED BY <1>1, <1>4, <1>10, <1>14, <1>15, <2>1, <2>2, <3>1, <3>2, <3>3 DEF Reach
  <2> QED BY <2>5, <2>6, <2>7, <2>8, <2>9, <2>10 DEF Pair
<1> QED BY <1>13, <1>14, <1>16, <1>17, <1>18 DEF RouteInv, Form

(* The slot of a channel is given back: only that one, since the id of the *)
(* channel is still where the list has it.                                 *)
LEMMA RouteFinishClose ==
    ASSUME Types, RouteInv, NEW e \in Ends, FinishClose(e)
    PROVE  RouteInv'
<1>1. PICK c \in Channels : c = cur[e]
  BY DEF FinishClose, Types, LoopTypes, Working
<1>2. lpc[e] = "remove" /\ Home(c) = e /\ Removing(c) /\ localId[c] \in Nat
  BY <1>1 DEF FinishClose, RouteInv, Form, CurForm, Working, Removing, At, Types, ObjectTypes
<1>3. PICK o \in Opens : c \in {Out(o), In(o)}
  BY ChannelOfOpen
<1>4. /\ UNCHANGED <<localId, remoteId, msg, opc, held, inbox, up, odd, wire>>
      /\ chans' = [chans EXCEPT ![e] = RemoveChan(chans[e], localId[c])]
      /\ lpc' = [lpc EXCEPT ![e] = "run"] /\ cur' = [cur EXCEPT ![e] = Nil]
      /\ sentClose' = [sentClose EXCEPT ![c] = TRUE]
  BY <1>1, <1>2 DEF FinishClose, Goto, programs, Without
<1>5. /\ sentClose'[c] /\ \A d \in Channels : d # c => sentClose'[d] = sentClose[d]
  BY <1>4 DEF Types, ObjectTypes
<1>6. /\ \A d \in Channels : \A x :
            /\ Home(d) # e => (At(d, x)' <=> At(d, x))
            /\ Home(d) = e => (At(d, x)' <=> d = Nil /\ x = "run")
      /\ lpc'[e] = "run" /\ cur'[e] = Nil
      /\ \A f \in Ends : f # e => lpc'[f] = lpc[f] /\ cur'[f] = cur[f]
  BY <1>4, AtMoves
<1>7. /\ \A d \in Channels : d # c => \A x : At(d, x)' <=> At(d, x)
      /\ \A x : ~At(c, x)'
      /\ \A x \in {"inbox", "confirm", "refuse"} : ~At(c, x)
  BY <1>1, <1>2, <1>6, ChannelFacts DEF At
<1>8. /\ \A d \in Channels : \A x : Sent(d, x)' <=> Sent(d, x)
      /\ \A f \in Ends : \A m : m \in Flying(f)' <=> m \in Flying(f)
      /\ \A d \in Channels : Inboxed(d)' <=> Inboxed(d)
      /\ Order' /\ InboxForm'
      /\ \A p \in Opens : (Calling(p)' <=> Calling(p)) /\ opc'[p] = opc[p]
  BY <1>4, SameWire, SameInbox DEF Calling, RouteInv, Form
<1>9. \A f \in Ends : /\ Alive(f)' <=> Alive(f)
                      /\ lpc'[f] \in Working <=> lpc[f] \in Working
  BY <1>2, <1>4, <1>6 DEF Alive, Working
<1>10. /\ Stages(o) /\ InUse(o) /\ Ids(o) /\ Opened(o) /\ Confirmed(o)
       /\ Closes(o) /\ Lists(o) /\ Reach(o)
  BY DEF RouteInv, Pair
<1>11. /\ Out(o) \in Channels /\ In(o) \in Channels /\ Caller(o) \in Ends /\ Callee(o) \in Ends
       /\ Home(Out(o)) = Caller(o) /\ Home(In(o)) = Callee(o) /\ Out(o) # In(o)
       /\ Caller(o) # Callee(o)
  BY PairFacts, EndFacts DEF Callee
<1>12. Alive(e) => Slot(c)
  BY <1>2, <1>3, <1>10, <1>11 DEF Lists
<1>13. ASSUME NEW d \in Channels, d # c, Slot(d), Home(d) = e => Alive(e) PROVE Slot(d)'
  <2>1. Home(d) # e \/ localId[d] # localId[c]
    BY <1>2, <1>12, <1>13 DEF Slot
  <2>2. PICK id \in Nat : id = localId[c]
    BY <1>2
  <2> QED BY <1>4, <1>13, <2>1, <2>2, SlotRemove
<1>14. WireForm' /\ CurForm'
  <2>1. WireForm'
    BY <1>4, <1>5, <1>8, WireFormFrame DEF RouteInv, Form
  <2> QED BY <1>6, <2>1 DEF CurForm, RouteInv, Form
<1>15. ASSUME NEW p \in Opens, p # o PROVE Pair(p)'
  <2>1. /\ Out(p) \in Channels /\ In(p) \in Channels /\ Caller(p) \in Ends /\ Callee(p) \in Ends
        /\ Home(Out(p)) = Caller(p) /\ Home(In(p)) = Callee(p)
        /\ In(p) # c /\ Out(p) # c
    BY <1>3, <1>15, PairFacts, EndFacts DEF Callee
  <2>2. Pair(p)
    BY DEF RouteInv
  <2>3. /\ Slot(Out(p)) /\ Alive(Caller(p))' => Slot(Out(p))'
        /\ Slot(In(p)) /\ Alive(Callee(p))' => Slot(In(p))'
    BY <1>9, <1>13, <2>1
  <2> QED BY <1>4, <1>5, <1>7, <1>8, <1>9, <2>1, <2>2, <2>3, PairFrame
<1>16. Pair(o)'
  <2>1. /\ msg[o] = "confirm" /\ ~Answering(o)' /\ (c = In(o) => Accepted(o))
        /\ Removing(Out(o))' => Removing(Out(o)) /\ c # Out(o)
        /\ Removing(In(o))' => Removing(In(o)) /\ c # In(o)
    <3>1. msg[o] = "confirm" /\ (c = In(o) => Accepted(o))
      BY <1>2, <1>3, <1>10 DEF Opened, Accepted
    <3>2. ~Answering(o)
      BY <1>10, <3>1 DEF Stages
    <3> QED BY <1>3, <1>7, <1>11, <3>1, <3>2 DEF Answering, Removing
  <2>2. /\ Offered(o)' <=> Offered(o)
        /\ Answered(o)' <=> Answered(o)
        /\ Accepted(o)' => Accepted(o)
    BY <1>4, <1>8, <1>11, <2>1 DEF Offered, Answered, Accepted
  <2>3. ~Calling(o) /\ ~Offered(o) /\ ~Answered(o) /\ ~Answering(o)
    BY <1>10, <2>1 DEF Stages
  <2>4. /\ ~At(In(o), "inbox")' /\ ~At(In(o), "confirm")' /\ ~At(In(o), "refuse")'
        /\ ~Sent(In(o), "Failure")' /\ ~Sent(In(o), "Confirm")'
    BY <1>8, <1>11, <2>1, <2>2, <2>3 DEF Answering, Answered
  <2>5. Stages(o)' /\ InUse(o)' /\ Opened(o)' /\ Confirmed(o)'
    BY <1>4, <1>8, <2>1, <2>2, <2>3, <2>4 DEF Stages, InUse, Opened, Confirmed
  <2>6. Ids(o)'
    BY <1>4, <1>8, <1>10, <1>11, <2>1 DEF Ids
  <2>7. Closes(o)'
    BY <1>5, <1>8, <1>10, <1>11, <2>1, <2>2, <2>3 DEF Closes
  <2>8. /\ c = Out(o) => sentClose[In(o)]
        /\ c = In(o) => sentClose[Out(o)]
    BY <1>2, <1>10 DEF Closes
  <2>9. /\ c # Out(o) /\ Slot(Out(o)) => Slot(Out(o))'
        /\ c # In(o) /\ Slot(In(o)) => Slot(In(o))'
    BY <1>2, <1>3, <1>11, <1>13
  <2>10. Lists(o)'
    BY <1>3, <1>4, <1>5, <1>8, <1>9, <1>10, <1>11, <2>1, <2>4, <2>8, <2>9 DEF Lists
  <2>11. Reach(o)'
    <3>1. \A m \in Flying(Caller(o)) : m.from = In(o) /\ ~m.late /\ Alive(Caller(o)) => c # Out(o)
      BY <1>2, <1>10 DEF Reach
    <3>2. \A m \in Flying(Callee(o)) :
             m.from = Out(o) /\ ~m.late /\ m.type \notin Offers /\ Alive(Callee(o)) => c # In(o)
      BY <1>2, <1>10 DEF Reach
    <3> QED BY <1>4, <1>8, <1>9, <1>10, <1>11, <2>1, <2>9, <3>1, <3>2 DEF Reach
  <2> QED BY <2>5, <2>6, <2>7, <2>10, <2>11 DEF Pair
<1> QED BY <1>8, <1>14, <1>15, <1>16 DEF RouteInv, Form
-----------------------------------------------------------------------------
(* Session.onePacket: the loop at end e takes message h off its wire. *)
Decodes(e, h) ==
    /\ lpc[e] = "run" /\ up[e]
    /\ wire[e] # <<>> /\ h = Head(wire[e])
    /\ wire' = [wire EXCEPT ![e] = Tail(@)]
    /\ UNCHANGED <<programs, up, odd>>

(* The message is from one of the two channels of a call of Open; unless   *)
(* it is an offer, or data behind a Close, its id is that of the other.    *)
LEMMA Arrives ==
    ASSUME Types, RouteInv, NEW e \in Ends, NEW h,
           lpc[e] = "run", up[e], h \in Flying(e), h \in Packet
    PROVE  /\ \E o \in Opens : \/ h.from = Out(o) /\ Callee(o) = e /\ Caller(o) = Peer(e)
                               \/ h.from = In(o) /\ Caller(o) = e /\ Callee(o) = Peer(e)
           /\ PacketForm(e, h)
           /\ h.type \notin Offers /\ ~h.late =>
                 /\ GetChan(e, h.id) = Partner(h.from)
                 /\ Slot(Partner(h.from)) /\ h.id = localId[Partner(h.from)]
<1>1. PacketForm(e, h) /\ h.from \in Channels
  BY DEF RouteInv, Form, WireForm, Packet
<1>2. PICK o \in Opens : h.from \in {Out(o), In(o)}
  BY <1>1, ChannelOfOpen
<1>3. /\ Home(Out(o)) = Caller(o) /\ Home(In(o)) = Callee(o) /\ Caller(o) \in Ends
      /\ Peer(Caller(o)) = Callee(o) /\ Peer(Callee(o)) = Caller(o)
      /\ Partner(Out(o)) = In(o) /\ Partner(In(o)) = Out(o) /\ Peer(Peer(e)) = e
  BY PairFacts, EndFacts DEF Callee
<1>4. Home(h.from) = Peer(e)
  BY <1>1 DEF PacketForm
<1>5. \/ h.from = Out(o) /\ Callee(o) = e /\ Caller(o) = Peer(e)
      \/ h.from = In(o) /\ Caller(o) = e /\ Callee(o) = Peer(e)
  BY <1>2, <1>3, <1>4
<1>6. Reach(o) /\ Alive(e)
  BY DEF RouteInv, Pair, Alive, Working
<1>7. ASSUME h.type \notin Offers, ~h.late
      PROVE  /\ GetChan(e, h.id) = Partner(h.from)
             /\ Slot(Partner(h.from)) /\ h.id = localId[Partner(h.from)]
  <2>1. Slot(Partner(h.from)) /\ h.id = localId[Partner(h.from)] /\ Home(Partner(h.from)) = e
    BY <1>3, <1>5, <1>6, <1>7 DEF Reach
  <2> QED BY <2>1 DEF Slot
<1> QED BY <1>1, <1>5, <1>7

(* What taking a message off the wire does to all pairs but the one that   *)
(* the message belongs to.                                                 *)
LEMMA RouteDecode ==
    ASSUME Types, RouteInv, NEW e \in Ends, NEW h, Decodes(e, h),
           NEW o \in Opens, h.from \in {Out(o), In(o)}, UNCHANGED sentClose,
           \A p \in Opens : p # o =>
              /\ msg'[p] = msg[p]
              /\ localId'[Out(p)] = localId[Out(p)] /\ localId'[In(p)] = localId[In(p)]
              /\ remoteId'[Out(p)] = remoteId[Out(p)] /\ remoteId'[In(p)] = remoteId[In(p)]
              /\ Slot(Out(p)) => Slot(Out(p))'
              /\ Slot(In(p)) => Slot(In(p))'
              /\ \A x \in Busy : (At(Out(p), x)' <=> At(Out(p), x)) /\ (At(In(p), x)' <=> At(In(p), x)),
           \A f \in Ends : lpc'[f] \in Working => lpc[f] \in Working
    PROVE  Order' /\ WireForm' /\ InboxForm' /\ \A p \in Opens : p # o => Pair(p)'
<1>1. /\ UNCHANGED <<opc, held, inbox, up, odd>>
      /\ wire[e] # <<>> /\ h = Head(wire[e]) /\ wire' = [wire EXCEPT ![e] = Tail(@)]
  BY DEF Decodes, programs
<1>2. Order /\ WireForm /\ InboxForm
  BY DEF RouteInv, Form
<1>3. /\ Order' /\ h \in Packet
      /\ \A f \in Ends : \A m : m \in Flying(f)' => m \in Flying(f)
      /\ \A d \in Channels : \A x :
            /\ Sent(d, x)' => Sent(d, x)
            /\ Sent(d, x) => Sent(d, x)' \/ (d = h.from /\ x = h.type)
  BY <1>1, <1>2, SentDecode
<1>4. /\ \A d \in Channels : Inboxed(d)' <=> Inboxed(d)
      /\ InboxForm'
      /\ \A p \in Opens : (Calling(p)' <=> Calling(p)) /\ opc'[p] = opc[p]
      /\ \A f \in Ends : (Alive(f)' => Alive(f)) /\ up'[f] = up[f]
  BY <1>1, <1>2, SameInbox DEF Calling, Alive
<1>5. WireForm'
  BY <1>1, <1>2, <1>3, WireFormFrame
<1>6. ASSUME NEW p \in Opens, p # o PROVE Pair(p)'
  <2>1. /\ Out(p) \in Channels /\ In(p) \in Channels /\ Caller(p) \in Ends /\ Callee(p) \in Ends
        /\ In(p) # h.from /\ Out(p) # h.from
    BY <1>6, PairFacts, EndFacts DEF Callee
  <2>2. Pair(p)
    BY DEF RouteInv
  <2>3. /\ \A m : m \in Flying(Caller(p))' /\ m.from = In(p) => m \in Flying(Caller(p))
        /\ \A m : m \in Flying(Callee(p))' /\ m.from = Out(p) => m \in Flying(Callee(p))
        /\ \A x : Sent(Out(p), x)' => Sent(Out(p), x)
        /\ \A x : Sent(In(p), x)' => Sent(In(p), x)
        /\ Sent(In(p), "Confirm") => Sent(In(p), "Confirm")'
    BY <1>3, <2>1
  <2>4. /\ msg'[p] = msg[p]
        /\ localId'[Out(p)] = localId[Out(p)] /\ localId'[In(p)] = localId[In(p)]
        /\ remoteId'[Out(p)] = remoteId[Out(p)] /\ remoteId'[In(p)] = remoteId[In(p)]
        /\ Slot(Out(p)) => Slot(Out(p))'
        /\ Slot(In(p)) => Slot(In(p))'
        /\ \A x \in Busy : (At(Out(p), x)' <=> At(Out(p), x)) /\ (At(In(p), x)' <=> At(In(p), x))
    BY <1>6
  <2> QED BY <1>1, <1>4, <2>1, <2>2, <2>3, <2>4, PairFrame
<1> QED BY <1>3, <1>4, <1>5, <1>6

(* A message that changes nothing: data for a channel, and data that ends  *)
(* the loop.                                                               *)
LEMMA RouteData ==
    ASSUME Types, RouteInv, NEW e \in Ends, NEW h, Decodes(e, h), h.type = "Data",
           UNCHANGED <<chans, objects>>,
           UNCHANGED loops \/ Exit(e, "invalidChannel")
    PROVE  RouteInv'
<1>1. /\ UNCHANGED <<opc, held, inbox, up, odd, localId, remoteId, sentClose, msg>>
      /\ wire[e] # <<>> /\ h = Head(wire[e]) /\ wire' = [wire EXCEPT ![e] = Tail(@)]
      /\ lpc[e] = "run" /\ up[e]
  BY DEF Decodes, programs, objects
<1>2. /\ h \in Flying(e) /\ h \in Packet
      /\ \A f \in Ends : \A m : m \in Flying(f)' => m \in Flying(f)
      /\ \A d \in Channels : \A x :
            /\ Sent(d, x)' => Sent(d, x)
            /\ Sent(d, x) => Sent(d, x)' \/ (d = h.from /\ x = h.type)
  BY <1>1, SentDecode DEF RouteInv, Form
<1>3. PICK o \in Opens : h.from \in {Out(o), In(o)}
  BY <1>1, <1>2, Arrives
<1>4. /\ \A d \in Channels : \A x \in Busy : At(d, x)' <=> At(d, x)
      /\ \A f \in Ends : lpc'[f] \in Working => lpc'[f] = lpc[f] /\ cur'[f] = cur[f]
  <2>1. CASE UNCHANGED loops
    BY <2>1, SameLoops DEF loops
  <2>2. CASE Exit(e, "invalidChannel")
    <3>1. lpc' = [lpc EXCEPT ![e] = "drop"] /\ cur' = [cur EXCEPT ![e] = Nil]
      BY <2>2 DEF Exit
    <3>2. /\ \A d \in Channels : \A x :
                /\ Home(d) # e => (At(d, x)' <=> At(d, x))
                /\ Home(d) = e => (At(d, x)' <=> d = Nil /\ x = "drop")
          /\ lpc'[e] = "drop"
          /\ \A f \in Ends : f # e => lpc'[f] = lpc[f] /\ cur'[f] = cur[f]
      BY <3>1, AtMoves
    <3> QED BY <1>1, <3>2, ChannelFacts DEF At, Busy, Working
  <2> QED BY <2>1, <2>2
<1>5. \A d \in Channels : Slot(d)' <=> Slot(d)
  BY <1>1, SameLists
<1>6. Order' /\ WireForm' /\ InboxForm' /\ \A p \in Opens : p # o => Pair(p)'
  <2>1. \A p \in Opens : Out(p) \in Channels /\ In(p) \in Channels
    BY PairFacts
  <2> QED BY <1>1, <1>3, <1>4, <1>5, <2>1, RouteDecode
<1>7. CurForm'
  <2>1. CurForm
    BY DEF RouteInv, Form
  <2> QED BY <1>4, <2>1 DEF CurForm
<1>8. Pair(o)'
  <2>1. /\ Out(o) \in Channels /\ In(o) \in Channels /\ Caller(o) \in Ends /\ Callee(o) \in Ends
    BY PairFacts, EndFacts DEF Callee
  <2>2. Pair(o)
    BY DEF RouteInv
  <2>3. /\ \A d \in Channels : Inboxed(d)' <=> Inboxed(d)
        /\ (Calling(o)' <=> Calling(o)) /\ opc'[o] = opc[o]
        /\ \A f \in Ends : (Alive(f)' => Alive(f)) /\ up'[f] = up[f]
    BY <1>1, <1>4, SameInbox DEF Calling, Alive
  <2>4. Sent(In(o), "Confirm") => Sent(In(o), "Confirm")'
    BY <1>2, <2>1
  <2> QED BY <1>1, <1>2, <1>4, <1>5, <2>1, <2>2, <2>3, <2>4, PairFrame
<1> QED BY <1>6, <1>7, <1>8 DEF RouteInv, Form

(* An offer: the accepted channel gets its id, and the loop its answer to  *)
(* give.                                                                   *)
LEMMA RouteHandleOpen ==
    ASSUME Types, RouteInv, NEW e \in Ends, NEW h, Decodes(e, h), h.type \in Offers,
           HandleOpen(e, h)
    PROVE  RouteInv'
<1>1. /\ UNCHANGED <<opc, held, inbox, up, odd, sentClose, msg>>
      /\ wire[e] # <<>> /\ h = Head(wire[e]) /\ wire' = [wire EXCEPT ![e] = Tail(@)]
      /\ lpc[e] = "run" /\ up[e]
  BY DEF Decodes, programs, HandleOpen
<1>2. /\ h \in Flying(e) /\ h \in Packet
      /\ \A f \in Ends : \A m : m \in Flying(f)' => m \in Flying(f)
      /\ \A d \in Channels : \A x : Sent(d, x)' => Sent(d, x)
      /\ PacketForm(e, h) => \A x : Sent(h.from, x)' => h.type \in {"Data", "Confirm", "Close"}
  BY <1>1, SentDecode DEF RouteInv, Form
<1>3. PacketForm(e, h) /\ h.from[2] = "out"
  BY <1>1, <1>2, Arrives DEF PacketForm
<1>4. PICK o \in Opens : h.from = Out(o) /\ Callee(o) = e /\ Caller(o) = Peer(e)
  BY <1>1, <1>2, <1>3, Arrives, PairFacts
<1>5. PICK c \in Channels : c = In(o) /\ c = Partner(h.from) /\ Home(c) = e /\ c[2] = "in"
  BY <1>4, PairFacts DEF Callee
<1>6. /\ Out(o) \in Channels /\ In(o) \in Channels /\ Caller(o) \in Ends /\ Callee(o) \in Ends
      /\ Out(o) # c /\ Peer(Home(Out(o))) = Callee(o) /\ Peer(Home(In(o))) = Caller(o)
  BY <1>5, PairFacts, EndFacts DEF Callee
<1>7. /\ Offered(o) /\ \A x : ~Sent(Out(o), x)'
  <2>1. Sent(Out(o), h.type)
    BY <1>2, <1>4, <1>6 DEF Sent
  <2> QED BY <1>2, <1>3, <1>4, <2>1 DEF Offered, Offers
<1>8. Stages(o) /\ InUse(o) /\ Ids(o) /\ Opened(o) /\ Closes(o) /\ Lists(o)
  BY DEF RouteInv, Pair
<1>9. /\ ~Calling(o) /\ ~Answered(o) /\ ~Accepted(o) /\ msg[o] = "empty" /\ Out(o) \notin held
      /\ ~Removing(Out(o)) /\ h.sender = localId[Out(o)] /\ ~sentClose[In(o)]
  BY <1>1, <1>2, <1>4, <1>7, <1>8 DEF Stages, InUse, Ids, Opened, Closes, Working
<1>10. ASSUME NEW x PROVE ~Sent(In(o), x)'
  <2>1. SUFFICES ASSUME Sent(In(o), x) PROVE FALSE
    BY <1>2, <1>6
  <2>2. PICK m \in Flying(Caller(o)) : m.from = In(o) /\ m.type = x
    BY <1>6, <2>1 DEF Sent
  <2>3. m.type \in MessageTypes /\ PacketForm(Caller(o), m)
    BY <1>6, FlyingType DEF Packet, RouteInv, Form, WireForm
  <2> QED BY <1>9, <2>1, <2>2, <2>3, PairFacts DEF PacketForm, MessageTypes, Answered, Accepted, Offers
<1>11. PICK pc \in {"inbox", "refuse"} :
          /\ lpc' = [lpc EXCEPT ![e] = pc] /\ cur' = [cur EXCEPT ![e] = c]
          /\ pc = "inbox" => NewChannel(c)
          /\ pc = "refuse" => UNCHANGED <<chans, localId>>
  BY <1>5 DEF HandleOpen, Goto
<1>12. /\ \A d \in Channels : \A x :
             /\ Home(d) # e => (At(d, x)' <=> At(d, x))
             /\ Home(d) = e => (At(d, x)' <=> d = c /\ x = pc)
       /\ lpc'[e] = pc /\ cur'[e] = c
       /\ \A f \in Ends : f # e => lpc'[f] = lpc[f] /\ cur'[f] = cur[f]
  BY <1>11, AtMoves
<1>13. /\ \A d \in Channels : d # c => \A x \in Busy : At(d, x)' <=> At(d, x)
       /\ At(c, pc)'
       /\ \A x : At(c, x)' => x = pc
  <2>1. \A d \in Channels : \A x \in Busy : Home(d) = e => ~At(d, x)
    BY <1>1 DEF At, Busy
  <2> QED BY <1>5, <1>12, <2>1
<1>14. /\ \A d \in Channels : d # c => localId'[d] = localId[d] /\ (Slot(d) => Slot(d)')
       /\ pc = "inbox" => Slot(c)'
  <2>1. CASE pc = "inbox"
    BY <1>11, <2>1, SlotAdd, NewChannelFacts
  <2>2. CASE pc = "refuse"
    BY <1>11, <2>2, SameLists
  <2> QED BY <2>1, <2>2
<1>15. /\ remoteId'[c] = h.sender /\ \A d \in Channels : d # c => remoteId'[d] = remoteId[d]
  BY <1>5 DEF HandleOpen, Types, ObjectTypes
<1>16. \A f \in Ends : /\ lpc'[f] \in Working <=> lpc[f] \in Working
                       /\ Alive(f)' <=> Alive(f)
  BY <1>1, <1>12 DEF Working, Alive
<1>17. Order' /\ WireForm' /\ InboxForm' /\ \A p \in Opens : p # o => Pair(p)'
  <2>1. ASSUME NEW p \in Opens, p # o
        PROVE  Out(p) \in Channels /\ In(p) \in Channels /\ Out(p) # c /\ In(p) # c
    <3>1. \A q \in Opens : Out(q) # In(o) /\ (In(q) = In(o) => q = o)
      BY PairFacts
    <3>2. Out(p) \in Channels /\ In(p) \in Channels
      BY PairFacts
    <3> QED BY <1>5, <2>1, <3>1, <3>2
  <2> QED BY <1>1, <1>4, <1>13, <1>14, <1>15, <1>16, <2>1, RouteDecode
<1>18. CurForm'
  <2>1. CurForm
    BY DEF RouteInv, Form
  <2> QED BY <1>5, <1>12, <2>1 DEF CurForm
<1>19. Pair(o)'
  <2>1. /\ Answering(o)' /\ ~Removing(In(o))' /\ ~Removing(Out(o))'
        /\ (At(In(o), "inbox")' => pc = "inbox") /\ ~At(In(o), "confirm")'
    BY <1>5, <1>6, <1>9, <1>13 DEF Answering, Removing, Busy
  <2>2. ~Offered(o)' /\ ~Answered(o)' /\ ~Calling(o)' /\ msg'[o] = "empty"
    BY <1>1, <1>7, <1>9, <1>10 DEF Offered, Answered, Calling
  <2>3. ~Accepted(o)'
    <3>1. Inboxed(In(o))' <=> Inboxed(In(o))
      BY <1>1, <1>6, SameInbox
    <3> QED BY <1>1, <1>9, <1>10, <2>1, <3>1 DEF Accepted
  <2>4. /\ \A m : m \in Flying(Caller(o))' => m.from # In(o)
        /\ \A m : m \in Flying(Callee(o))' => m.from # Out(o)
    BY <1>6, <1>7, <1>10 DEF Sent
  <2>5. Stages(o)' /\ InUse(o)' /\ Opened(o)' /\ Confirmed(o)'
    BY <1>1, <1>7, <1>9, <1>10, <2>1, <2>2, <2>3 DEF Stages, InUse, Opened, Confirmed
  <2>6. Ids(o)'
    BY <1>5, <1>6, <1>9, <1>14, <1>15, <2>2, <2>4 DEF Ids
  <2>7. Closes(o)'
    BY <1>1, <1>9, <2>1 DEF Closes
  <2>8. Lists(o)'
    <3>1. opc[o] # "idle" /\ opc'[o] = opc[o]
      BY <1>1, <1>9 DEF Calling
    <3>2. Alive(Caller(o))' => Slot(Out(o))'
      BY <1>6, <1>8, <1>9, <1>14, <1>16, <3>1 DEF Lists
    <3> QED BY <1>5, <1>10, <1>14, <2>1, <2>2, <3>2 DEF Lists
  <2>9. Reach(o)'
    BY <2>4 DEF Reach
  <2> QED BY <2>5, <2>6, <2>7, <2>8, <2>9 DEF Pair
<1> QED BY <1>17, <1>18, <1>19 DEF RouteInv, Form

(* The answer to an Open finds the channel that waits for it. *)
LEMMA AnswerFacts ==
    ASSUME Types, RouteInv, NEW e \in Ends, NEW h, Decodes(e, h), h.type \in {"Confirm", "Failure"}
    PROVE  \E o \in Opens :
              /\ h.from = In(o) /\ Caller(o) = e /\ Callee(o) = Peer(e)
              /\ GetChan(e, h.id) = Out(o) /\ Slot(Out(o)) /\ h.id = localId[Out(o)]
              /\ Sent(In(o), h.type) /\ ~Sent(In(o), "Confirm")' /\ ~Sent(In(o), "Failure")'
              /\ h.type = "Failure" => \A x : ~Sent(In(o), x)'
              /\ ~Calling(o) /\ ~Offered(o) /\ ~Answering(o) /\ msg[o] = "empty"
              /\ Out(o) \notin held /\ ~Removing(Out(o)) /\ ~Removing(In(o))
<1>1. /\ wire[e] # <<>> /\ h = Head(wire[e]) /\ wire' = [wire EXCEPT ![e] = Tail(@)]
      /\ lpc[e] = "run" /\ up[e]
  BY DEF Decodes
<1>2. /\ h \in Flying(e) /\ h \in Packet
      /\ PacketForm(e, h) =>
            \A x : Sent(h.from, x)' => /\ x \in {"Data", "Confirm", "Close"}
                                       /\ h.type \in {"Data", "Confirm", "Close"}
                                       /\ x = "Confirm" => h.type = "Data"
  BY <1>1, SentDecode DEF RouteInv, Form
<1>3. /\ PacketForm(e, h) /\ h.from[2] = "in" /\ h.type \notin Offers /\ ~h.late
  BY <1>1, <1>2, Arrives DEF PacketForm, Offers
<1>4. PICK o \in Opens : h.from = In(o) /\ Caller(o) = e /\ Callee(o) = Peer(e)
  BY <1>1, <1>2, <1>3, Arrives, PairFacts
<1>5. Partner(In(o)) = Out(o) /\ Peer(Home(In(o))) = Caller(o)
  BY PairFacts, EndFacts
<1>6. GetChan(e, h.id) = Out(o) /\ Slot(Out(o)) /\ h.id = localId[Out(o)]
  BY <1>1, <1>2, <1>3, <1>4, <1>5, Arrives
<1>7. Sent(In(o), h.type)
  BY <1>2, <1>4, <1>5 DEF Sent
<1>8. /\ ~Sent(In(o), "Confirm")' /\ ~Sent(In(o), "Failure")'
      /\ h.type = "Failure" => \A x : ~Sent(In(o), x)'
  BY <1>2, <1>3, <1>4
<1>9. Stages(o) /\ Opened(o) /\ Answered(o)
  BY <1>7 DEF RouteInv, Pair, Answered
<1>10. /\ ~Calling(o) /\ ~Offered(o) /\ ~Answering(o) /\ msg[o] = "empty"
       /\ Out(o) \notin held /\ ~Removing(Out(o)) /\ ~Removing(In(o))
  BY <1>9 DEF Stages, Opened
<1> QED BY <1>4, <1>6, <1>7, <1>8, <1>10

LEMMA RouteHandleConfirm ==
    ASSUME Types, RouteInv, NEW e \in Ends, NEW h, Decodes(e, h), h.type = "Confirm",
           HandleConfirm(e, GetChan(e, h.id), h)
    PROVE  RouteInv' /\ UNCHANGED why
<1>1. PICK o \in Opens :
         /\ h.from = In(o) /\ Caller(o) = e /\ Callee(o) = Peer(e)
         /\ GetChan(e, h.id) = Out(o)
         /\ Sent(In(o), h.type) /\ ~Sent(In(o), "Confirm")' /\ ~Sent(In(o), "Failure")'
         /\ ~Calling(o) /\ ~Offered(o) /\ ~Answering(o) /\ msg[o] = "empty"
         /\ Out(o) \notin held /\ ~Removing(Out(o)) /\ ~Removing(In(o))
  BY AnswerFacts
<1>2. /\ Out(o) \in Channels /\ In(o) \in Channels /\ Caller(o) \in Ends /\ Callee(o) \in Ends
      /\ Out(o) # In(o) /\ Out(o)[2] = "out" /\ Out(o)[1] = o
  BY PairFacts, EndFacts DEF Callee
<1>3. /\ remoteId' = [remoteId EXCEPT ![Out(o)] = h.sender]
      /\ msg' = [msg EXCEPT ![o] = IF @ = "empty" THEN "confirm" ELSE @]
      /\ UNCHANGED <<chans, localId, sentClose, loops>>
  BY <1>1, <1>2 DEF HandleConfirm, Deliver, PeersId
<1>4. /\ msg'[o] = "confirm" /\ \A p \in Opens : p # o => msg'[p] = msg[p]
      /\ remoteId'[Out(o)] = h.sender
      /\ \A d \in Channels : d # Out(o) => remoteId'[d] = remoteId[d]
  BY <1>1, <1>2, <1>3 DEF Types, ObjectTypes
<1>5. /\ UNCHANGED <<opc, held, inbox, up, odd, lpc, cur, why>>
      /\ wire[e] # <<>> /\ h = Head(wire[e]) /\ wire' = [wire EXCEPT ![e] = Tail(@)]
      /\ lpc[e] = "run" /\ up[e]
  BY <1>3 DEF Decodes, programs, loops
<1>6. /\ h \in Flying(e)
      /\ \A f \in Ends : \A m : m \in Flying(f)' => m \in Flying(f)
      /\ \A d \in Channels : \A x : Sent(d, x)' => Sent(d, x)
  BY <1>5, SentDecode DEF RouteInv, Form
<1>7. /\ \A d \in Channels : \A x : At(d, x)' <=> At(d, x)
      /\ \A d \in Channels : Slot(d)' <=> Slot(d)
      /\ \A d \in Channels : Inboxed(d)' <=> Inboxed(d)
      /\ \A f \in Ends : (Alive(f)' <=> Alive(f)) /\ lpc'[f] = lpc[f]
      /\ \A p \in Opens : Calling(p)' <=> Calling(p)
      /\ CurForm'
  BY <1>3, <1>5, SameLoops, SameLists, SameInbox DEF Alive, Calling, CurForm, RouteInv, Form
<1>8. Order' /\ WireForm' /\ InboxForm' /\ \A p \in Opens : p # o => Pair(p)'
  <2>1. ASSUME NEW p \in Opens, p # o
        PROVE  Out(p) \in Channels /\ In(p) \in Channels /\ Out(p) # Out(o) /\ In(p) # Out(o)
    BY <2>1, PairFacts
  <2> QED BY <1>1, <1>3, <1>4, <1>7, <2>1, RouteDecode
<1>9. Pair(o)'
  <2>1. /\ Stages(o) /\ InUse(o) /\ Ids(o) /\ Opened(o) /\ Confirmed(o)
        /\ Closes(o) /\ Lists(o) /\ Reach(o)
    BY DEF RouteInv, Pair
  <2>2. /\ ~Answering(o)' /\ ~Removing(Out(o))' /\ ~Removing(In(o))' /\ ~Calling(o)'
        /\ ~Offered(o)' /\ ~Answered(o)' /\ (Accepted(o)' => Accepted(o))
    BY <1>1, <1>2, <1>5, <1>6, <1>7 DEF Answering, Removing, Offered, Answered, Accepted
  <2>3. Stages(o)' /\ InUse(o)' /\ Opened(o)' /\ Confirmed(o)' /\ Closes(o)'
    BY <1>1, <1>4, <2>2 DEF Stages, InUse, Opened, Confirmed, Closes, Answering
  <2>4. Ids(o)'
    <3>1. h.sender = localId[In(o)] /\ remoteId[In(o)] = localId[Out(o)]
      BY <1>1, <1>6, <2>1 DEF Ids
    <3> QED BY <1>2, <1>3, <1>4, <1>6, <2>1, <3>1 DEF Ids
  <2>5. Lists(o)'
    BY <1>1, <1>2, <1>3, <1>4, <1>5, <1>7, <2>1, <2>2 DEF Lists
  <2>6. Reach(o)'
    BY <1>2, <1>3, <1>6, <1>7, <2>1, <2>2 DEF Reach
  <2> QED BY <2>3, <2>4, <2>5, <2>6 DEF Pair
<1> QED BY <1>5, <1>7, <1>8, <1>9 DEF RouteInv, Form

LEMMA RouteHandleFailure ==
    ASSUME Types, RouteInv, NEW e \in Ends, NEW h, Decodes(e, h), h.type = "Failure",
           HandleFailure(e, GetChan(e, h.id), h)
    PROVE  RouteInv' /\ UNCHANGED why
<1>1. PICK o \in Opens :
         /\ h.from = In(o) /\ Caller(o) = e /\ Callee(o) = Peer(e)
         /\ GetChan(e, h.id) = Out(o) /\ h.id = localId[Out(o)] /\ Sent(In(o), h.type)
         /\ \A x : ~Sent(In(o), x)'
         /\ ~Calling(o) /\ ~Offered(o) /\ ~Answering(o) /\ msg[o] = "empty"
         /\ Out(o) \notin held /\ ~Removing(Out(o)) /\ ~Removing(In(o))
  BY AnswerFacts
<1>2. /\ Out(o) \in Channels /\ In(o) \in Channels /\ Caller(o) \in Ends /\ Callee(o) \in Ends
      /\ Out(o) # In(o) /\ Out(o)[2] = "out" /\ Out(o)[1] = o
      /\ Peer(Home(Out(o))) = Callee(o) /\ Peer(Home(In(o))) = Caller(o)
  BY PairFacts, EndFacts DEF Callee
<1>3. /\ chans' = [chans EXCEPT ![e] = RemoveChan(chans[e], h.id)]
      /\ msg' = [msg EXCEPT ![o] = IF @ = "empty" THEN "failure" ELSE @]
      /\ UNCHANGED <<localId, remoteId, sentClose, loops>>
  BY <1>1, <1>2 DEF HandleFailure, Deliver
<1>4. msg'[o] = "failure" /\ \A p \in Opens : p # o => msg'[p] = msg[p]
  BY <1>1, <1>2, <1>3 DEF Types, ObjectTypes
<1>5. /\ UNCHANGED <<opc, held, inbox, up, odd, lpc, cur, why>>
      /\ wire[e] # <<>> /\ h = Head(wire[e]) /\ wire' = [wire EXCEPT ![e] = Tail(@)]
      /\ lpc[e] = "run" /\ up[e]
  BY <1>3 DEF Decodes, programs, loops
<1>6. /\ h \in Flying(e) /\ h \in Packet
      /\ \A f \in Ends : \A m : m \in Flying(f)' => m \in Flying(f)
      /\ \A d \in Channels : \A x : Sent(d, x)' => Sent(d, x)
  BY <1>5, SentDecode DEF RouteInv, Form
<1>7. /\ \A d \in Channels : \A x : At(d, x)' <=> At(d, x)
      /\ \A d \in Channels : Inboxed(d)' <=> Inboxed(d)
      /\ \A f \in Ends : (Alive(f)' <=> Alive(f)) /\ lpc'[f] = lpc[f]
      /\ \A p \in Opens : Calling(p)' <=> Calling(p)
      /\ CurForm'
  BY <1>5, SameLoops, SameInbox DEF Alive, Calling, CurForm, RouteInv, Form
<1>8. ASSUME NEW d \in Channels, d # Out(o), Slot(d) PROVE Slot(d)'
  <2>1. Home(d) # e \/ localId[d] # h.id
    BY <1>1, <1>8 DEF Slot
  <2>2. PICK id \in Nat : id = h.id
    BY <1>6 DEF Packet
  <2> QED BY <1>3, <1>8, <2>1, <2>2, SlotRemove
<1>9. Order' /\ WireForm' /\ InboxForm' /\ \A p \in Opens : p # o => Pair(p)'
  <2>1. ASSUME NEW p \in Opens, p # o
        PROVE  Out(p) \in Channels /\ In(p) \in Channels /\ Out(p) # Out(o) /\ In(p) # Out(o)
    BY <2>1, PairFacts
  <2> QED BY <1>1, <1>3, <1>4, <1>7, <1>8, <2>1, RouteDecode
<1>10. Pair(o)'
  <2>1. InUse(o) /\ Ids(o) /\ Opened(o) /\ Closes(o)
    BY DEF RouteInv, Pair
  <2>2. ~Accepted(o)
    BY <1>1, <2>1 DEF InUse
  <2>3. /\ ~Answering(o)' /\ ~Removing(Out(o))' /\ ~Removing(In(o))' /\ ~Calling(o)'
        /\ ~Offered(o)' /\ ~Answered(o)' /\ ~Accepted(o)'
    BY <1>1, <1>2, <1>5, <1>6, <1>7, <2>2 DEF Answering, Removing, Offered, Answered, Accepted
  <2>4. ~Sent(Out(o), "Data")' /\ ~Sent(Out(o), "Close")'
    BY <1>1, <1>2, <1>6, <2>1 DEF Opened
  <2>5. Stages(o)' /\ InUse(o)' /\ Opened(o)' /\ Confirmed(o)' /\ Closes(o)'
    BY <1>1, <1>4, <1>5, <2>3, <2>4 DEF Stages, InUse, Opened, Confirmed, Closes
  <2>6. /\ \A m : m \in Flying(Caller(o))' => m.from # In(o)
        /\ \A m : m \in Flying(Callee(o))' /\ m.from = Out(o) => m.type \in Offers
    <3>1. \A m : m \in Flying(Caller(o))' => m.from # In(o)
      BY <1>1, <1>2 DEF Sent
    <3>2. ASSUME NEW m, m \in Flying(Callee(o))', m.from = Out(o) PROVE m.type \in Offers
      <4>1. m \in Flying(Callee(o)) /\ m.type # "Data" /\ m.type # "Close"
        BY <1>2, <1>6, <2>4, <3>2 DEF Sent
      <4>2. m.type \in MessageTypes /\ PacketForm(Callee(o), m)
        BY <1>2, <4>1, FlyingType DEF Packet, RouteInv, Form, WireForm
      <4> QED BY <1>2, <3>2, <4>1, <4>2 DEF PacketForm, MessageTypes, Offers
    <3> QED BY <3>1, <3>2
  <2>7. Ids(o)'
    BY <1>1, <1>2, <1>3, <1>4, <1>6, <2>1, <2>3, <2>6 DEF Ids
  <2>8. Lists(o)' /\ Reach(o)'
    BY <1>1, <1>4, <2>3, <2>6 DEF Lists, Reach, Answering
  <2> QED BY <2>5, <2>7, <2>8 DEF Pair
<1> QED BY <1>5, <1>7, <1>9, <1>10 DEF RouteInv, Form

(* A Close: the loop turns to the partner of the channel that sent it, and *)
(* what that channel may still have on the wire is data behind its Close.  *)
LEMMA RouteHandleClose ==
    ASSUME Types, RouteInv, NEW e \in Ends, NEW h, Decodes(e, h), h.type = "Close",
           Goto(e, "reply", GetChan(e, h.id)), UNCHANGED <<chans, objects>>
    PROVE  RouteInv'
<1>1. /\ UNCHANGED <<opc, held, inbox, up, odd, localId, remoteId, sentClose, msg>>
      /\ wire[e] # <<>> /\ h = Head(wire[e]) /\ wire' = [wire EXCEPT ![e] = Tail(@)]
      /\ lpc[e] = "run" /\ up[e]
  BY DEF Decodes, programs, objects
<1>2. /\ h \in Flying(e) /\ h \in Packet
      /\ \A f \in Ends : \A m : m \in Flying(f)' => m \in Flying(f)
      /\ \A m : m \in Flying(e)' /\ m.from = h.from => Follows(h, m)
      /\ \A d \in Channels : \A x :
            /\ Sent(d, x)' => Sent(d, x)
            /\ Sent(d, x) => Sent(d, x)' \/ (d = h.from /\ x = h.type)
      /\ PacketForm(e, h) =>
            \A x : Sent(h.from, x)' => (h.type = "Close" => x = "Data")
  BY <1>1, SentDecode DEF RouteInv, Form
<1>3. PacketForm(e, h) /\ ~h.late /\ h.type \notin Offers /\ sentClose[h.from]
  BY <1>1, <1>2, Arrives DEF PacketForm, Offers
<1>4. PICK o \in Opens : \/ h.from = Out(o) /\ Callee(o) = e /\ Caller(o) = Peer(e)
                         \/ h.from = In(o) /\ Caller(o) = e /\ Callee(o) = Peer(e)
  BY <1>1, <1>2, Arrives
<1>5. /\ Out(o) \in Channels /\ In(o) \in Channels /\ Caller(o) \in Ends /\ Callee(o) \in Ends
      /\ Home(Out(o)) = Caller(o) /\ Home(In(o)) = Callee(o) /\ Out(o) # In(o)
      /\ Peer(Caller(o)) = Callee(o) /\ Peer(Callee(o)) = Caller(o) /\ Caller(o) # Callee(o)
      /\ Partner(Out(o)) = In(o) /\ Partner(In(o)) = Out(o)
  BY PairFacts, EndFacts DEF Callee
<1>6. PICK c \in Channels : /\ c = Partner(h.from) /\ c \in {Out(o), In(o)} /\ Home(c) = e
                            /\ c = Out(o) <=> h.from = In(o)
                            /\ c = In(o) <=> h.from = Out(o)
  BY <1>4, <1>5
<1>7. GetChan(e, h.id) = c /\ Slot(c)
  BY <1>1, <1>2, <1>3, <1>6, Arrives
<1>8. Sent(h.from, "Close")
  BY <1>2, <1>4, <1>5 DEF Sent
<1>9. /\ Stages(o) /\ InUse(o) /\ Ids(o) /\ Opened(o) /\ Confirmed(o)
      /\ Closes(o) /\ Lists(o) /\ Reach(o)
  BY DEF RouteInv, Pair
<1>10. msg[o] = "confirm"
  <2>1. CASE h.from = Out(o)
    BY <1>8, <1>9, <2>1 DEF Opened
  <2>2. CASE h.from = In(o)
    <3>1. Alive(Caller(o))
      BY <1>1, <1>4, <1>5, <2>2 DEF Alive, Working
    <3>2. ~Sent(In(o), "Confirm")
      BY <1>2, <1>3, <1>5, <2>2
    <3> QED BY <1>8, <1>9, <2>2, <3>1, <3>2 DEF Confirmed
  <2> QED BY <1>4, <2>1, <2>2
<1>11. ~Calling(o) /\ ~Offered(o) /\ ~Answering(o) /\ ~Answered(o)
  BY <1>9, <1>10 DEF Stages
<1>12. lpc' = [lpc EXCEPT ![e] = "reply"] /\ cur' = [cur EXCEPT ![e] = c]
  BY <1>7 DEF Goto
<1>13. /\ \A d \in Channels : \A x :
             /\ Home(d) # e => (At(d, x)' <=> At(d, x))
             /\ Home(d) = e => (At(d, x)' <=> d = c /\ x = "reply")
       /\ lpc'[e] = "reply" /\ cur'[e] = c
       /\ \A f \in Ends : f # e => lpc'[f] = lpc[f] /\ cur'[f] = cur[f]
  BY <1>12, AtMoves
<1>14. /\ \A d \in Channels : d # c => \A x \in Busy : At(d, x)' <=> At(d, x)
       /\ \A x : At(c, x)' => x = "reply"
  <2>1. \A d \in Channels : \A x \in Busy : Home(d) = e => ~At(d, x)
    BY <1>1 DEF At, Busy
  <2> QED BY <1>6, <1>13, <2>1
<1>15. /\ \A d \in Channels : Slot(d)' <=> Slot(d)
       /\ \A d \in Channels : Inboxed(d)' <=> Inboxed(d)
       /\ \A p \in Opens : Calling(p)' <=> Calling(p)
  BY <1>1, SameLists, SameInbox DEF Calling
<1>16. \A f \in Ends : /\ lpc'[f] \in Working <=> lpc[f] \in Working
                       /\ Alive(f)' <=> Alive(f)
  BY <1>1, <1>13 DEF Working, Alive
<1>17. Order' /\ WireForm' /\ InboxForm' /\ \A p \in Opens : p # o => Pair(p)'
  <2>1. ASSUME NEW p \in Opens, p # o
        PROVE  Out(p) \in Channels /\ In(p) \in Channels /\ Out(p) # c /\ In(p) # c
    <3>1. \A q \in Opens : /\ Out(q) # In(o) /\ (In(q) = In(o) => q = o)
                           /\ (Out(q) = Out(o) => q = o)
      BY PairFacts
    <3>2. Out(p) \in Channels /\ In(p) \in Channels /\ Out(o) # In(p)
      BY PairFacts
    <3> QED BY <1>6, <2>1, <3>1, <3>2
  <2>2. h.from \in {Out(o), In(o)}
    BY <1>4
  <2> QED BY <1>1, <1>14, <1>15, <1>16, <2>1, <2>2, RouteDecode
<1>18. CurForm'
  <2>1. CurForm
    BY DEF RouteInv, Form
  <2> QED BY <1>6, <1>13, <2>1 DEF CurForm
<1>19. Pair(o)'
  <2>1. /\ ~At(In(o), "inbox")' /\ ~At(In(o), "confirm")' /\ ~At(In(o), "refuse")'
    BY <1>5, <1>6, <1>11, <1>14 DEF Answering, Busy
  <2>2. /\ Removing(Out(o))' => Removing(Out(o)) \/ c = Out(o)
        /\ Removing(In(o))' => Removing(In(o)) \/ c = In(o)
    BY <1>5, <1>14 DEF Removing, Busy
  <2>3. ~Calling(o)' /\ ~Offered(o)' /\ ~Answering(o)' /\ ~Answered(o)'
    BY <1>2, <1>5, <1>11, <1>15, <2>1 DEF Answering, Offered, Answered
  <2>4. msg'[o] = "confirm"
    BY <1>1, <1>10
  <2>5. Stages(o)' /\ InUse(o)' /\ Opened(o)' /\ Confirmed(o)'
    BY <2>1, <2>3, <2>4 DEF Stages, InUse, Opened, Confirmed, Answered
  <2>6. Ids(o)'
    BY <1>1, <1>2, <1>5, <1>9, <1>10 DEF Ids
  <2>7. Closes(o)'
    <3>1. /\ c = Out(o) => sentClose[In(o)]
          /\ c = In(o) => sentClose[Out(o)]
      BY <1>3, <1>6
    <3> QED BY <1>1, <1>9, <2>2, <2>3, <3>1 DEF Closes
  <2>8. Lists(o)'
    <3>1. opc'[o] = opc[o]
      BY <1>1
    <3> QED BY <1>1, <1>5, <1>7, <1>9, <1>10, <1>15, <1>16, <2>1, <2>2, <3>1 DEF Lists
  <2>9. Reach(o)'
    <3>1. \A m : m \in Flying(e)' /\ m.from = h.from => m.late
      BY <1>2 DEF Follows
    <3>2. /\ \A m : m \in Flying(Caller(o))' /\ m.from = In(o) => m.late \/ c # Out(o)
          /\ \A m : m \in Flying(Callee(o))' /\ m.from = Out(o) => m.late \/ c # In(o)
      BY <1>5, <1>6, <3>1
    <3> QED BY <1>1, <1>2, <1>5, <1>9, <1>15, <1>16, <2>2, <3>2 DEF Reach
  <2> QED BY <2>5, <2>6, <2>7, <2>8, <2>9 DEF Pair
<1> QED BY <1>17, <1>18, <1>19 DEF RouteInv, Form

LEMMA RouteOnePacket ==
    ASSUME Types, RouteInv, NEW e \in Ends, OnePacket(e)
    PROVE  RouteInv' /\ (UNCHANGED why \/ "lateData" \in odd)
<1>1. PICK h : h = Head(wire[e])
  OBVIOUS
<1>2. Decodes(e, h) /\ Handle(e, h)
  BY <1>1 DEF OnePacket, Decodes
<1>3. h \in Flying(e) /\ h \in Packet /\ lpc[e] = "run" /\ up[e]
  BY <1>2, SentDecode DEF Decodes, RouteInv, Form
<1>4. /\ PacketForm(e, h) /\ h.type \in MessageTypes /\ h.from \in Channels
      /\ h.type \notin Offers /\ ~h.late => GetChan(e, h.id) = Partner(h.from)
  BY <1>3, Arrives DEF Packet
<1>5. CASE h.type \in Offers
  <2>1. HandleOpen(e, h)
    BY <1>2, <1>5 DEF Handle, Offers
  <2>2. UNCHANGED why
    BY <2>1 DEF HandleOpen, Goto
  <2> QED BY <1>2, <1>5, <2>1, <2>2, RouteHandleOpen
<1>6. CASE h.type \notin Offers /\ GetChan(e, h.id) = Nil
  <2>1. Exit(e, "invalidChannel") /\ UNCHANGED <<chans, objects>>
    BY <1>2, <1>6 DEF Handle, Offers
  <2>2. Partner(h.from) # Nil
    BY <1>4, ChannelFacts
  <2>3. h.late
    BY <1>4, <1>6, <2>2
  <2>4. h.type = "Data" /\ "lateData" \in odd
    BY <1>4, <1>6, <2>3 DEF PacketForm
  <2> QED BY <1>2, <2>1, <2>4, RouteData
<1>7. CASE h.type = "Confirm" /\ GetChan(e, h.id) # Nil
  <2>1. HandleConfirm(e, GetChan(e, h.id), h)
    BY <1>2, <1>7 DEF Handle
  <2> QED BY <1>2, <1>7, <2>1, RouteHandleConfirm
<1>8. CASE h.type = "Failure" /\ GetChan(e, h.id) # Nil
  <2>1. HandleFailure(e, GetChan(e, h.id), h)
    BY <1>2, <1>8 DEF Handle
  <2> QED BY <1>2, <1>8, <2>1, RouteHandleFailure
<1>9. CASE h.type = "Close" /\ GetChan(e, h.id) # Nil
  <2>1. Goto(e, "reply", GetChan(e, h.id)) /\ UNCHANGED <<chans, objects>>
    BY <1>2, <1>9 DEF Handle
  <2>2. UNCHANGED why
    BY <2>1 DEF Goto
  <2> QED BY <1>2, <1>9, <2>1, <2>2, RouteHandleClose
<1>10. CASE h.type = "Data" /\ GetChan(e, h.id) # Nil
  <2>1. UNCHANGED <<chans, objects, loops>>
    BY <1>2, <1>10 DEF Handle
  <2>2. UNCHANGED why
    BY <2>1 DEF loops
  <2> QED BY <1>2, <1>10, <2>1, <2>2, RouteData
<1> QED BY <1>4, <1>5, <1>6, <1>7, <1>8, <1>9, <1>10 DEF MessageTypes, Offers
-----------------------------------------------------------------------------
LEMMA RouteInit == Init => RouteInv
<1> SUFFICES ASSUME Init PROVE RouteInv
  OBVIOUS
<1>1. \A e \in Ends : Flying(e) = {} /\ Len(wire[e]) = 0 /\ Len(inbox[e]) = 0 /\ lpc[e] = "run"
  BY DEF Init, Flying
<1>2. \A c \in Channels : /\ \A x : ~Sent(c, x) /\ ~At(c, x)
                          /\ ~Inboxed(c) /\ ~Removing(c) /\ ~sentClose[c] /\ c \notin held
  <2> SUFFICES ASSUME NEW c \in Channels
               PROVE  /\ \A x : ~Sent(c, x) /\ ~At(c, x)
                      /\ ~Inboxed(c) /\ ~Removing(c) /\ ~sentClose[c] /\ c \notin held
    OBVIOUS
  <2>1. Home(c) \in Ends /\ Peer(Home(c)) \in Ends /\ c # Nil
    BY ChannelFacts, EndFacts
  <2>2. \A x : ~At(c, x)
    BY <2>1 DEF Init, At
  <2>3. \A x : ~Sent(c, x)
    BY <1>1, <2>1 DEF Sent
  <2>4. ~Inboxed(c)
    BY <1>1, <2>1 DEF Inboxed
  <2>5. ~sentClose[c] /\ c \notin held
    BY DEF Init
  <2> QED BY <2>2, <2>3, <2>4, <2>5 DEF Removing
<1>3. Form
  <2>1. Order /\ InboxForm
    BY <1>1 DEF Order, InboxForm
  <2>2. WireForm /\ CurForm
    BY <1>1 DEF WireForm, CurForm
  <2> QED BY <2>1, <2>2 DEF Form
<1>4. ASSUME NEW o \in Opens PROVE Pair(o)
  <2>1. Out(o) \in Channels /\ In(o) \in Channels /\ Caller(o) \in Ends /\ Callee(o) \in Ends
    BY PairFacts, EndFacts DEF Callee
  <2>2. opc[o] = "idle" /\ msg[o] = "empty"
    BY DEF Init
  <2>3. ~Offered(o) /\ ~Answering(o) /\ ~Answered(o) /\ ~Accepted(o)
    BY <1>2, <2>1 DEF Offered, Answering, Answered, Accepted
  <2>4. Stages(o) /\ InUse(o) /\ Opened(o) /\ Confirmed(o) /\ Closes(o)
    BY <1>2, <2>1, <2>2, <2>3 DEF Stages, InUse, Opened, Confirmed, Closes
  <2>5. Ids(o) /\ Lists(o) /\ Reach(o)
    BY <1>1, <1>2, <2>1, <2>2, <2>3 DEF Ids, Lists, Reach
  <2> QED BY <2>4, <2>5 DEF Pair
<1> QED BY <1>3, <1>4 DEF RouteInv

LEMMA RouteStep ==
    ASSUME Types, RouteInv, ~Early', Next
    PROVE  RouteInv' /\ \A e \in Ends : why'[e] = why[e] \/ why'[e] = "net" \/ "lateData" \in odd
<1>1. ASSUME NEW e \in Ends, Loop(e) \/ ReadError(e) \/ Accept(e) \/ SessionClose(e)
      PROVE  RouteInv' /\ \A f \in Ends : why'[f] = why[f] \/ why'[f] = "net" \/ "lateData" \in odd
  <2>1. CASE OnePacket(e)
    BY <2>1, RouteOnePacket
  <2>2. CASE PushInbox(e)
    BY <2>2, RoutePushInbox DEF PushInbox, Goto
  <2>3. CASE AnswerOpen(e)
    <3>1. \A f \in Ends : why'[f] = why[f] \/ why'[f] = "net"
      BY <2>3 DEF AnswerOpen, Goto, Exit, Types, LoopTypes
    <3> QED BY <2>3, <3>1, RouteAnswerOpen
  <2>4. CASE ReplyClose(e)
    BY <2>4, RouteReplyClose DEF ReplyClose, Goto
  <2>5. CASE FinishClose(e)
    BY <2>5, RouteFinishClose DEF FinishClose, Goto
  <2>6. CASE DropAll(e) \/ CloseTransport(e) \/ PutToken(e) \/ SetErr(e) \/ ReadError(e) \/ SessionClose(e)
    <3>1. \A f \in Ends : why'[f] = why[f] \/ why'[f] = "net"
      BY <2>6 DEF DropAll, CloseTransport, PutToken, SetErr, ReadError, SessionClose, Goto, Exit,
                  loops, Types, LoopTypes
    <3> QED BY <2>6, <3>1, RouteEnding
  <2>7. CASE Accept(e)
    <3>1. UNCHANGED why
      BY <2>7 DEF Accept, AcceptChan, AcceptEOF, loops
    <3> QED BY <2>7, <3>1, RouteAccept
  <2> QED BY <1>1, <2>1, <2>2, <2>3, <2>4, <2>5, <2>6, <2>7 DEF Loop
<1>2. ASSUME NEW o \in Opens, OpenCall(o) \/ Open(o) \/ OpenCancel(o)
      PROVE  RouteInv' /\ UNCHANGED why
  <2>1. UNCHANGED why
    BY <1>2 DEF OpenCall, Open, OpenEncode, OpenReturn, OpenCancel, loops
  <2> QED BY <1>2, <2>1, RouteOpenCall, RouteOpenEncode, RouteOpenReturn DEF Open
<1>3. ASSUME NEW c \in Channels, CloseChannel(c) \/ WriteReserve(c) \/ WriteEncode(c)
      PROVE  RouteInv' /\ UNCHANGED why
  <2>1. UNCHANGED why
    BY <1>3 DEF CloseChannel, WriteReserve, WriteEncode, loops
  <2> QED BY <1>3, <2>1, RouteCloseChannel, RouteWrite
<1> QED BY <1>1, <1>2, <1>3 DEF Next

LEMMA OddGrows == Next => odd \subseteq odd'
  BY DEF Next, Loop, OnePacket, PushInbox, AnswerOpen, ReplyClose, FinishClose, DropAll,
         CloseTransport, PutToken, SetErr, ReadError, Accept, AcceptChan, AcceptEOF, SessionClose,
         OpenCall, Open, OpenEncode, OpenReturn, OpenCancel, CloseChannel, WriteReserve, WriteEncode

LEMMA SessionInit == Init => SessionInv
  BY TypesInit, RouteInit DEF SessionInv, OnlyRacesKill, Init

LEMMA SessionStep == SessionInv /\ [Next]_vars => SessionInv'
<1> SUFFICES ASSUME SessionInv, [Next]_vars PROVE SessionInv'
  OBVIOUS
<1>1. Types'
  BY TypesStep DEF SessionInv
<1>2. CASE Next
  <2>1. odd \subseteq odd'
    BY <1>2, OddGrows
  <2>2. CASE Early'
    BY <1>1, <2>2 DEF SessionInv, Early, OnlyRacesKill
  <2>3. CASE ~Early'
    <3>1. RouteInv
      BY <2>1, <2>3 DEF SessionInv, Early
    <3>2. RouteInv' /\ \A e \in Ends : why'[e] = why[e] \/ why'[e] = "net" \/ "lateData" \in odd
      BY <1>2, <2>3, <3>1, RouteStep DEF SessionInv
    <3>3. OnlyRacesKill'
      BY <2>1, <3>2 DEF SessionInv, OnlyRacesKill
    <3> QED BY <1>1, <3>2, <3>3 DEF SessionInv
  <2> QED BY <2>2, <2>3
<1>3. CASE UNCHANGED vars
  <2>1. UNCHANGED <<chans, objects, programs, loops, up, odd, wire>>
    BY <1>3 DEF vars
  <2>2. CASE Early
    BY <1>1, <2>1, <2>2 DEF SessionInv, Early, OnlyRacesKill
  <2>3. CASE RouteInv
    <3>1. \A o \in Opens : Inboxed(In(o))' <=> Inboxed(In(o))
      BY <2>1, PairFacts, SameInbox DEF programs
    <3>2. InboxForm'
      BY <2>1, <2>3, SameInbox DEF programs, RouteInv, Form
    <3>3. RouteInv'
      BY <2>1, <2>3, <3>1, <3>2, RouteProgram DEF SessionInv, programs, Calling
    <3>4. OnlyRacesKill'
      BY <2>1 DEF SessionInv, OnlyRacesKill, loops
    <3> QED BY <1>1, <3>3, <3>4 DEF SessionInv
  <2> QED BY <2>2, <2>3 DEF SessionInv
<1> QED BY <1>2, <1>3

LEMMA SessionRoutes == SessionInv => Routed
<1> SUFFICES ASSUME SessionInv, "earlyClose" \notin odd, NEW e \in Ends, Arriving(e),
                    ~Head(wire[e]).late
             PROVE  GetChan(e, Head(wire[e]).id) = Partner(Head(wire[e]).from)
  BY DEF Routed
<1>1. Types /\ RouteInv
  BY DEF SessionInv, Early
<1>2. PICK h : h = Head(wire[e])
  OBVIOUS
<1>3. /\ lpc[e] = "run" /\ up[e] /\ wire[e] # <<>> /\ h.type \notin Offers
      /\ wire[e] \in Seq(Packet)
  BY <1>1, <1>2 DEF Arriving, Offers, Types
<1>4. h = wire[e][1] /\ 1 \in 1..Len(wire[e]) /\ h \in Packet
  BY <1>2, <1>3, HeadTailProperties, EmptySeq, LenProperties, ElementOfSeq
<1>5. h \in Flying(e)
  BY <1>4 DEF Flying
<1> QED BY <1>1, <1>2, <1>3, <1>4, <1>5, Arrives

(* Although ids are reused (util_chanlist.go:19-24), onePacket hands every *)
(* message that was sent before its channel's Close to that channel's      *)
(* partner, in every history without a Close ahead of the OpenConfirm.     *)
THEOREM SessionRouted == Spec => []Routed
  BY SessionInit, SessionStep, SessionRoutes, PTL DEF Spec

(* A loop ends (session.go:139-148) only because the transport did, or     *)
(* after one of the two races.                                             *)
THEOREM SessionOnlyRacesKill == Spec => []OnlyRacesKill
<1>1. SessionInv => OnlyRacesKill
  BY DEF SessionInv
<1> QED BY <1>1, SessionInit, SessionStep, PTL DEF Spec
=============================================================================

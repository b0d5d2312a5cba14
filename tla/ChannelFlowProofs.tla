-------------------------- MODULE ChannelFlowProofs --------------------------
(***************************************************************************)
(* Proofs about ChannelFlow for every window, packet size and modulus: the *)
(* type invariant, that flow control never ends a session, that credit is  *)
(* conserved, and that the Close handshake leaves no stray control         *)
(* message.                                                                *)
(*                                                                         *)
(* None of these is inductive by itself.  What makes them so is the shape  *)
(* of the two wires: each is a chain, every message starting where the one *)
(* before it ended, from what the receiving end has processed up to what   *)
(* the sending end has announced.  The facts about a wire are stated       *)
(* message by message, so that no sum over a sequence is needed.           *)
(***************************************************************************)
EXTENDS ChannelFlow, SequenceTheorems, TLAPS

(* The type invariant in four parts. *)
Numbers ==
    /\ win \in 0..(Mod - 1) /\ myWindow \in 0..(Mod - 1)
    /\ todo \in Nat /\ hold \in Nat /\ taken \in Nat
    /\ sent \in Nat /\ credited \in Nat /\ mark \in Nat

Flags ==
    /\ winClosed \in BOOLEAN /\ sentEOF \in BOOLEAN
    /\ bufClosed \in BOOLEAN /\ ended \in BOOLEAN
    /\ sentClose \in [Ends -> BOOLEAN] /\ known \in [Ends -> BOOLEAN]
    /\ up \in [Ends -> BOOLEAN]

Wires ==
    /\ data \in Seq(Messages({"Data", "EOF", "Close"}))
    /\ ctl \in Seq(Messages({"WindowAdjust", "Close"}))
    /\ pending \in Seq(Nat) /\ got \in Seq(Nat)

Control ==
    /\ wpc \in {"idle", "reserve", "wait", "encode"}
    /\ rpc \in {"idle", "read", "wait", "adjust", "send", "eof"}
    /\ loop \in [Ends -> {"run", "reply", "closing", "dropped", "dead"}]
    /\ err \in [Ends -> {"none", "net", "payload", "tooMuch", "window",
                         "invalidChannel"}]

(* Every message on wire q ends where the next one starts, the last one at *)
(* total, and none beyond it.                                              *)
Chain(q, total) ==
    /\ \A i \in 1..Len(q) : q[i].off + q[i].len <= total
    /\ \A i \in 1..(Len(q) - 1) : q[i].off + q[i].len = q[i + 1].off
    /\ q # <<>> => q[Len(q)].off + q[Len(q)].len = total

(* Where the first message of wire q starts. *)
Start(q, total) == IF q = <<>> THEN total ELSE q[1].off

Packets ==
    \A i \in 1..Len(data) : /\ data[i].len <= MaxPacket
                            /\ data[i].type # "Data" => data[i].len = 0

DataWire ==
    /\ Chain(data, sent)
    /\ Packets
    /\ Len(got) + Len(pending) <= sent
    /\ err["r"] = "none" => Start(data, sent) = Len(got) + Len(pending)

CtlWire ==
    /\ Chain(ctl, credited)
    /\ \A i \in 1..Len(ctl) : ctl[i].type = "Close" => ctl[i].len = 0
    /\ credited + taken <= Len(got)
    /\ Start(ctl, credited) <= credited

Program ==
    /\ hold <= MaxPacket
    /\ hold <= todo
    /\ rpc \notin {"adjust", "send"} => taken = 0
    /\ wpc # "encode" => hold = 0
    /\ wpc = "encode" => hold > 0
    /\ wpc \in {"reserve", "wait"} => todo > 0

Life ==
    /\ \A e \in Ends : ~known[e] => sentClose[e]
    /\ ~known["w"] => winClosed
    /\ \A e \in Ends : (loop[e] \in {"dropped", "dead"}) = (err[e] # "none")
    /\ \A e \in Ends : loop[e] \in {"dropped", "dead"} => ~known[e]

(* CreditConserved, in terms of Start. *)
Credit ==
    /\ myWindow + Len(pending) + (IF rpc = "adjust" THEN taken ELSE 0) = Window
    /\ win + hold + sent <= Window + Start(ctl, credited)
    /\ (~winClosed /\ ~sentClose["r"] /\ up["w"] /\ up["r"]) =>
          win + hold + (sent - Len(got)) + taken + (credited - Start(ctl, credited)) = Window

FlowInv ==
    /\ Numbers /\ Flags /\ Wires /\ Control
    /\ DataWire /\ CtlWire /\ Program /\ Life /\ Credit /\ NoOverrun

(* The control wire carries nothing behind a Close, and the data wire only *)
(* data.                                                                   *)
Closing(e) == loop[e] \in {"reply", "closing"} \/ (~known[e] /\ err[e] = "none")

CtlClosed ==
    /\ \A i \in 1..Len(ctl) : ctl[i].type = "Close" => i = Len(ctl) /\ sentClose["r"]
    /\ Closing("w") => ctl = <<>> /\ sentClose["r"]

LateData(m) == m.type = "Data" /\ m.len > 0 /\ m.off >= mark

DataClosed ==
    /\ sent >= mark
    /\ err["r"] = "invalidChannel" => ended
    /\ \A i \in 1..Len(data) : data[i].type = "Close" =>
          /\ ended /\ sentClose["w"]
          /\ \A j \in (i + 1)..Len(data) : LateData(data[j])
    /\ Closing("r") => /\ ended /\ sentClose["w"]
                       /\ \A j \in 1..Len(data) : LateData(data[j])

StrayInv == FlowInv /\ CtlClosed /\ DataClosed /\ StrayOnlyLateData
-----------------------------------------------------------------------------
Msg == [type : {"Data", "EOF", "Close", "WindowAdjust"}, off : Nat, len : Nat]

(* Encoding a message that starts where the wire ends keeps the chain and  *)
(* its start.                                                              *)
LEMMA ChainAppend ==
    ASSUME NEW q \in Seq(Msg), NEW total \in Nat, NEW m \in Msg,
           Chain(q, total), m.off = total
    PROVE  /\ Chain(Append(q, m), total + m.len)
           /\ Start(Append(q, m), total + m.len) = Start(q, total)
  <1> DEFINE r == Append(q, m)
  <1>1. /\ Len(r) = Len(q) + 1 /\ r # <<>>
        /\ \A i \in 1..Len(q) : r[i] = q[i]
        /\ r[Len(q) + 1] = m
        /\ Len(q) \in Nat
        /\ m.off \in Nat /\ m.len \in Nat
        /\ \A i \in 1..Len(q) : q[i].off \in Nat /\ q[i].len \in Nat
    <2>1. /\ Len(q) \in Nat
          /\ \A i \in 1..Len(q) : q[i] \in Msg
      BY LenProperties
    <2>2. m.off \in Nat /\ m.len \in Nat
      BY DEF Msg
    <2>3. \A i \in 1..Len(q) : q[i].off \in Nat /\ q[i].len \in Nat
      BY <2>1 DEF Msg
    <2>4. /\ r # <<>> /\ Len(r) = Len(q) + 1
          /\ \A i \in 1..Len(q) : r[i] = q[i]
          /\ r[Len(q) + 1] = m
      BY AppendProperties
    <2> QED BY <2>1, <2>2, <2>3, <2>4
  <1>2. q = <<>> <=> Len(q) = 0
    BY EmptySeq
  <1> HIDE DEF r
  <1>3. Chain(r, total + m.len)
    <2>1. ASSUME NEW i \in 1..Len(r) PROVE r[i].off + r[i].len <= total + m.len
      <3>1. CASE i = Len(q) + 1
        BY <1>1, <3>1
      <3>2. CASE i \in 1..Len(q)
        <4>1. r[i] = q[i] /\ q[i].off \in Nat /\ q[i].len \in Nat
          BY <1>1, <3>2
        <4>2. q[i].off + q[i].len <= total
          BY <3>2 DEF Chain
        <4>3. m.len \in Nat /\ total \in Nat
          BY <1>1
        <4> DEFINE x == q[i].off + q[i].len
        <4>4. x \in Nat /\ x <= total
          BY <4>1, <4>2
        <4> HIDE DEF x
        <4>5. x <= total + m.len
          BY <4>3, <4>4
        <4> QED BY <4>1, <4>5 DEF x
      <3> QED BY <1>1, <3>1, <3>2
    <2>2. ASSUME NEW i \in 1..(Len(r) - 1) PROVE r[i].off + r[i].len = r[i + 1].off
      <3>1. CASE i = Len(q)
        <4>1. q # <<>> /\ i \in 1..Len(q)
          BY <1>1, <1>2, <3>1
        <4>2. q[i].off + q[i].len = total
          BY <3>1, <4>1 DEF Chain
        <4> QED BY <1>1, <3>1, <4>1, <4>2
      <3>2. CASE i \in 1..(Len(q) - 1)
        <4>1. r[i] = q[i] /\ r[i + 1] = q[i + 1]
          BY <1>1, <3>2
        <4> QED BY <3>2, <4>1 DEF Chain
      <3> QED BY <1>1, <3>1, <3>2
    <2>3. r[Len(r)].off + r[Len(r)].len = total + m.len
      BY <1>1
    <2> QED BY <2>1, <2>2, <2>3 DEF Chain
  <1>4. Start(r, total + m.len) = Start(q, total)
    BY <1>1, <1>2 DEF Start
  <1> QED BY <1>3, <1>4 DEF r

(* Decoding the first message keeps the chain and moves its start behind   *)
(* that message.                                                           *)
LEMMA ChainTail ==
    ASSUME NEW q \in Seq(Msg), NEW total \in Nat, q # <<>>, Chain(q, total)
    PROVE  /\ Chain(Tail(q), total)
           /\ Start(Tail(q), total) = q[1].off + q[1].len
           /\ q[1].off + q[1].len <= total
  <1> DEFINE r == Tail(q)
  <1>1. /\ Len(r) = Len(q) - 1
        /\ \A i \in 1..Len(r) : r[i] = q[i + 1]
        /\ Len(q) \in Nat /\ Len(q) > 0
        /\ \A i \in 1..Len(q) : q[i].off \in Nat /\ q[i].len \in Nat
    <2>1. /\ Len(q) \in Nat /\ Len(q) > 0
          /\ \A i \in 1..Len(q) : q[i] \in Msg
      BY LenProperties, EmptySeq
    <2> QED BY <2>1, HeadTailProperties DEF Msg
  <1>2. r = <<>> <=> Len(r) = 0
    BY HeadTailProperties, EmptySeq
  <1> HIDE DEF r
  <1>3. Chain(r, total)
    <2>1. ASSUME NEW i \in 1..Len(r) PROVE r[i].off + r[i].len <= total
      <3>1. r[i] = q[i + 1] /\ i + 1 \in 1..Len(q)
        BY <1>1
      <3> QED BY <3>1 DEF Chain
    <2>2. ASSUME NEW i \in 1..(Len(r) - 1) PROVE r[i].off + r[i].len = r[i + 1].off
      <3>1. /\ r[i] = q[i + 1] /\ r[i + 1] = q[(i + 1) + 1]
            /\ i + 1 \in 1..(Len(q) - 1)
        BY <1>1
      <3> QED BY <3>1 DEF Chain
    <2>3. ASSUME r # <<>> PROVE r[Len(r)].off + r[Len(r)].len = total
      <3>1. Len(r) > 0 /\ Len(r) + 1 = Len(q) /\ r[Len(r)] = q[Len(q)]
        BY <1>1, <1>2, <2>3
      <3> QED BY <3>1 DEF Chain
    <2> QED BY <2>1, <2>2, <2>3 DEF Chain
  <1>4. Start(r, total) = q[1].off + q[1].len
    BY <1>1, <1>2 DEF Start, Chain
  <1>5. q[1].off + q[1].len <= total
    BY <1>1 DEF Chain
  <1> QED BY <1>3, <1>4, <1>5 DEF r

(* Both invariants hold initially. *)
LEMMA FlowInit == Init => StrayInv
  <1> SUFFICES ASSUME Init PROVE StrayInv
    OBVIOUS
  <1> USE FlowAssumption DEF Init
  <1>1. Numbers
    BY DEF Numbers
  <1>2. Flags
    BY Zenon DEF Flags
  <1>3. Wires
    BY EmptySeq DEF Wires
  <1>4. Control
    BY DEF Control
  <1>5. DataWire /\ CtlWire
    BY DEF DataWire, Packets, CtlWire, Chain, Start, Ends
  <1>6. Program /\ Life /\ NoOverrun /\ StrayOnlyLateData
    BY DEF Program, Life, NoOverrun, StrayOnlyLateData, Ends
  <1>7. Credit
    BY DEF Credit, Start
  <1>8. CtlClosed /\ DataClosed
    BY DEF CtlClosed, DataClosed, Closing, Ends
  <1> QED BY <1>1, <1>2, <1>3, <1>4, <1>5, <1>6, <1>7, <1>8 DEF StrayInv, FlowInv

(* FlowInv implies the invariants it is made for. *)
LEMMA FlowInvImplies == FlowInv => TypeOK /\ CreditConserved
  <1> SUFFICES ASSUME FlowInv PROVE TypeOK /\ CreditConserved
    OBVIOUS
  <1>1. TypeOK
    BY DEF FlowInv, Numbers, Flags, Wires, Control, TypeOK
  <1>2. Granted = Start(ctl, credited)
    BY DEF Granted, Start, FlowInv, Wires
  <1>3. CreditConserved
    BY <1>2 DEF FlowInv, Credit, CreditConserved
  <1> QED BY <1>1, <1>3

(* Where a wire starts is a natural number. *)
LEMMA StartType ==
    FlowInv => Start(ctl, credited) \in Nat /\ Start(data, sent) \in Nat
  <1> SUFFICES ASSUME FlowInv
               PROVE  Start(ctl, credited) \in Nat /\ Start(data, sent) \in Nat
    OBVIOUS
  <1>1. /\ ctl # <<>> => ctl[1].off \in Nat
        /\ data # <<>> => data[1].off \in Nat
    <2>1. ASSUME NEW T, NEW q \in Seq(Messages(T)), q # <<>> PROVE q[1].off \in Nat
      <3>1. 1 \in 1..Len(q)
        BY <2>1, EmptySeq
      <3>2. q[1] \in Messages(T)
        BY <3>1, ElementOfSeq
      <3> QED BY <3>2 DEF Messages
    <2> QED BY <2>1 DEF FlowInv, Wires
  <1> QED BY <1>1 DEF Start, FlowInv, Numbers

(* A step that touches no message, no byte and no account. *)
LEMMA FlowFrame ==
    ASSUME FlowInv,
           UNCHANGED <<nvars, got, pending, myWindow, taken, win, todo, hold>>,
           (rpc = "adjust") = (rpc' = "adjust"),
           winClosed => winClosed', sentClose["r"] => sentClose'["r"],
           up'["w"] => up["w"], up'["r"] => up["r"],
           err'["r"] = "none" => err["r"] = "none"
    PROVE  Numbers' /\ Wires' /\ DataWire' /\ CtlWire' /\ Credit'
  <1>1. Numbers' /\ Wires'
    BY DEF FlowInv, Numbers, Wires, nvars
  <1>2. DataWire'
    BY DEF FlowInv, DataWire, Packets, nvars, Chain, Start
  <1>3. CtlWire'
    BY DEF FlowInv, CtlWire, nvars, Chain, Start
  <1>4. Credit'
    BY DEF FlowInv, Credit, nvars, Start
  <1> QED BY <1>1, <1>2, <1>3, <1>4

(* A call of Write touches only the writing program. *)
LEMMA WriteCallStep ==
    ASSUME FlowInv, NEW n \in 1..MaxBytes, WriteCall(n) PROVE FlowInv'
  <1> USE FlowAssumption DEF WriteCall, FlowInv, wvars, rvars, cvars, nvars
  <1>1. Numbers' /\ Wires' /\ Control'
    BY DEF Numbers, Wires, Control
  <1>2. Flags'
    BY Zenon DEF Flags
  <1>3. DataWire' /\ CtlWire' /\ Life' /\ NoOverrun'
    BY DEF DataWire, Packets, CtlWire, Life, NoOverrun, Chain, Start
  <1>4. Program'
    BY DEF Program, Numbers
  <1>5. Credit'
    BY DEF Credit, Start
  <1> QED BY <1>1, <1>2, <1>3, <1>4, <1>5

(* window.reserve moves credit from win to hold. *)
LEMMA ReserveStep == ASSUME FlowInv, Reserve PROVE FlowInv'
  <1> USE FlowAssumption DEF Reserve, FlowInv, rvars, cvars, nvars
  <1>0. /\ Space \in Nat /\ Space <= win /\ Space <= todo /\ Space <= MaxPacket
        /\ (win > 0 /\ todo > 0) => Space > 0
    BY DEF Space, min, Numbers
  <1>1. Numbers' /\ Wires' /\ Control'
    BY <1>0 DEF Numbers, Wires, Control
  <1>2. Flags'
    BY Zenon DEF Flags
  <1>3. DataWire' /\ CtlWire' /\ Life' /\ NoOverrun'
    BY DEF DataWire, Packets, CtlWire, Life, NoOverrun, Chain, Start
  <1>4. Program'
    BY <1>0 DEF Program, Numbers
  <1>5. Credit'
    <2>1. /\ Start(ctl, credited)' = Start(ctl, credited)
          /\ Start(ctl, credited) \in Nat
      BY StartType DEF Start
    <2>2. hold = 0
      BY DEF Program
    <2>3. \/ win' = win /\ hold' = 0
          \/ win' = win - Space /\ hold' = Space
          \/ win' = win - Space /\ hold' = 0 /\ winClosed
      BY <2>2
    <2>4. win' + hold' + sent' <= Window + Start(ctl, credited)'
      BY <1>0, <2>1, <2>2, <2>3 DEF Credit, Numbers
    <2>5. (myWindow + Len(pending) + (IF rpc = "adjust" THEN taken ELSE 0) = Window)'
      BY DEF Credit
    <2>6. ASSUME ~winClosed', ~sentClose'["r"], up'["w"], up'["r"]
          PROVE  (win + hold + (sent - Len(got)) + taken
                    + (credited - Start(ctl, credited)) = Window)'
      <3>1. win' + hold' = win + hold
        BY <1>0, <2>2, <2>6 DEF Numbers
      <3> QED BY <2>1, <2>6, <3>1 DEF Credit, Numbers, Wires
    <2> QED BY <2>4, <2>5, <2>6 DEF Credit
  <1> QED BY <1>1, <1>2, <1>3, <1>4, <1>5

(* A call of Read touches only the reading program. *)
LEMMA ReadCallStep == ASSUME FlowInv, ReadCall PROVE FlowInv'
  <1> USE DEF ReadCall, FlowInv, wvars, cvars, nvars
  <1>1. Control'
    BY DEF Control
  <1>2. Flags'
    BY Zenon DEF Flags
  <1>3. Life' /\ NoOverrun' /\ Program'
    BY DEF Life, NoOverrun, Program
  <1> QED BY <1>1, <1>2, <1>3, FlowFrame

(* The first half of adjustWindow moves the bytes read into myWindow. *)
LEMMA AdjustWindowStep == ASSUME FlowInv, AdjustWindow PROVE FlowInv'
  <1> USE FlowAssumption DEF AdjustWindow, FlowInv, wvars, cvars, nvars
  <1>0. myWindow' = myWindow + taken /\ myWindow' \in 0..(Mod - 1)
    BY DEF Credit, Add32, Numbers, Wires
  <1>1. Numbers' /\ Wires' /\ Control'
    BY <1>0 DEF Numbers, Wires, Control
  <1>2. Flags'
    BY Zenon DEF Flags
  <1>3. DataWire' /\ CtlWire' /\ Life' /\ NoOverrun' /\ Program'
    BY DEF DataWire, Packets, CtlWire, Life, NoOverrun, Chain, Start, Program
  <1>4. Credit'
    BY <1>0 DEF Credit, Start, Numbers
  <1> QED BY <1>1, <1>2, <1>3, <1>4
(* buffer.Read moves bytes from pending to the reading program. *)
LEMMA ReadBufferStep == ASSUME FlowInv, ReadBuffer PROVE FlowInv'
  <1> USE FlowAssumption DEF FlowInv, wvars, cvars, nvars
  <1>1. CASE pending = <<>> /\ rpc' = (IF bufClosed THEN "eof" ELSE "wait")
             /\ UNCHANGED <<got, pending, taken>>
    <2> USE DEF ReadBuffer
    <2>1. Control'
      BY <1>1 DEF Control
    <2>2. Flags'
      BY Zenon DEF Flags
    <2>3. Life' /\ NoOverrun' /\ Program'
      BY <1>1 DEF Life, NoOverrun, Program
    <2> QED BY <1>1, <2>1, <2>2, <2>3, FlowFrame
  <1>2. ASSUME NEW k \in 1..min(MaxRead, Len(pending)),
               rpc = "read",
               got' = got \o SubSeq(pending, 1, k),
               pending' = SubSeq(pending, k + 1, Len(pending)),
               taken' = k, rpc' = "adjust",
               UNCHANGED <<wvars, myWindow, bufClosed, cvars, nvars>>
        PROVE  FlowInv'
    <2>1. k \in Nat /\ k >= 1 /\ k <= Len(pending) /\ Len(pending) \in Nat /\ Len(got) \in Nat
      BY <1>2 DEF min, Wires
    <2>2. /\ SubSeq(pending, 1, k) \in Seq(Nat) /\ Len(SubSeq(pending, 1, k)) = k
          /\ pending' \in Seq(Nat) /\ Len(pending') = Len(pending) - k
      <3>1. \A i \in 1..Len(pending) : pending[i] \in Nat
        BY ElementOfSeq DEF Wires
      <3>2. /\ SubSeq(pending, 1, k) \in Seq(Nat)
            /\ Len(SubSeq(pending, 1, k)) = k
        <4>1. \A i \in 1..k : pending[i] \in Nat
          BY <2>1, <3>1
        <4> QED BY <2>1, <4>1, SubSeqProperties
      <3>3. /\ SubSeq(pending, k + 1, Len(pending)) \in Seq(Nat)
            /\ Len(SubSeq(pending, k + 1, Len(pending))) = Len(pending) - k
        <4>1. \A i \in (k + 1)..Len(pending) : pending[i] \in Nat
          BY <2>1, <3>1
        <4> QED BY <2>1, <4>1, SubSeqProperties
      <3> QED BY <1>2, <3>2, <3>3
    <2>3. got' \in Seq(Nat) /\ Len(got') = Len(got) + k
      BY <1>2, <2>2, ConcatProperties DEF Wires
    <2>4. taken = 0 /\ hold' = hold /\ win' = win
      BY <1>2 DEF Program
    <2>5. Numbers'
      BY <1>2, <2>1 DEF Numbers
    <2>6. Wires'
      BY <1>2, <2>2, <2>3 DEF Wires
    <2>7. Flags'
      BY <1>2, Zenon DEF Flags
    <2>8. Control' /\ Life' /\ NoOverrun' /\ Program'
      BY <1>2 DEF Control, Life, NoOverrun, Program
    <2>9. Len(got') + Len(pending') = Len(got) + Len(pending)
      BY <2>1, <2>2, <2>3
    <2>10. DataWire'
      BY <1>2, <2>9 DEF DataWire, Packets, Chain, Start
    <2>11. CtlWire'
      <3>1. credited' + taken' <= Len(got')
        BY <1>2, <2>1, <2>3, <2>4 DEF CtlWire, Numbers
      <3> QED BY <1>2, <3>1 DEF CtlWire, Chain, Start
    <2>12. Credit'
      <3>1. Start(ctl, credited)' = Start(ctl, credited) /\ Start(ctl, credited) \in Nat
        BY <1>2, StartType DEF Start
      <3>2. (myWindow + Len(pending) + (IF rpc = "adjust" THEN taken ELSE 0) = Window)'
        BY <1>2, <2>1, <2>2 DEF Credit, Numbers
      <3>3. (win + hold + sent <= Window + Start(ctl, credited))'
        BY <1>2, <3>1 DEF Credit
      <3>4. ASSUME ~winClosed', ~sentClose'["r"], up'["w"], up'["r"]
            PROVE  (win + hold + (sent - Len(got)) + taken
                      + (credited - Start(ctl, credited)) = Window)'
        <4>1. win + hold + (sent - Len(got)) + taken
                 + (credited - Start(ctl, credited)) = Window
          BY <1>2, <3>4 DEF Credit
        <4> QED BY <1>2, <2>1, <2>3, <2>4, <3>1, <4>1 DEF Numbers
      <3> QED BY <3>2, <3>3, <3>4 DEF Credit
    <2> QED BY <2>5, <2>6, <2>7, <2>8, <2>10, <2>11, <2>12
  <1> QED BY <1>1, <1>2 DEF ReadBuffer

(* What Channel.close and the exit of a loop leave alone. *)
LEMMA LoopExitStep ==
    ASSUME FlowInv, NEW e \in Ends, NEW why \in {"net", "invalidChannel"},
           loop[e] = "run", LoopExit(e, why), ended' = ended
    PROVE  /\ Flags' /\ Control' /\ Program' /\ Life' /\ NoOverrun'
           /\ UNCHANGED <<pending, myWindow, taken, win, todo, hold, up>>
           /\ (rpc = "adjust") = (rpc' = "adjust")
           /\ winClosed => winClosed'
           /\ sentClose["r"] => sentClose'["r"]
           /\ err'["r"] = "none" => err["r"] = "none"
           /\ ~known'[e] /\ err'[e] # "none"
           /\ e = "r" => sentClose'["r"]
           /\ e = "w" => winClosed'
  <1> USE DEF FlowInv, LoopExit, CloseChannel, WakeWriter, WakeReader, wvars, rvars
  <1>1. Flags'
    BY DEF Flags, Ends
  <1>2. Control'
    BY DEF Control, Ends
  <1>3. Program'
    BY DEF Program
  <1>4. Life'
    BY DEF Life, Flags, Control, Ends
  <1>5. NoOverrun'
    BY DEF NoOverrun, Control, Ends
  <1>6. /\ UNCHANGED <<pending, myWindow, taken, win, todo, hold, up>>
        /\ (rpc = "adjust") = (rpc' = "adjust")
        /\ winClosed => winClosed'
    BY DEF Ends
  <1>7. /\ sentClose["r"] => sentClose'["r"]
        /\ err'["r"] = "none" => err["r"] = "none"
        /\ ~known'[e] /\ err'[e] # "none"
        /\ e = "r" => sentClose'["r"]
        /\ e = "w" => winClosed'
    BY DEF Flags, Control, Ends, Life
  <1> QED BY <1>1, <1>2, <1>3, <1>4, <1>5, <1>6, <1>7
(* Appending a message to the data wire. *)
LEMMA EncodeDataStep ==
    ASSUME FlowInv, NEW t \in {"Data", "EOF", "Close"}, NEW n \in Nat,
           n <= MaxPacket, t # "Data" => n = 0,
           EncodeData(t, n), UNCHANGED <<got, pending, err>>
    PROVE  /\ DataWire'
           /\ data' \in Seq(Messages({"Data", "EOF", "Close"}))
           /\ sent' = sent + n /\ UNCHANGED <<ctl, credited>>
           /\ ended' \in BOOLEAN /\ mark' \in Nat
  <1> DEFINE m == Message(t, sent, n)
             T == {"Data", "EOF", "Close"}
  <1> USE FlowAssumption DEF FlowInv
  <1>1. m \in Messages(T) /\ m.off = sent /\ m.len = n /\ m.type = t
    BY DEF Message, Messages, Numbers
  <1>2. m \in Msg /\ data \in Seq(Msg)
    <2>1. Messages(T) \subseteq Msg
      BY DEF Messages, Msg
    <2> QED BY <1>1, <2>1, SeqMonotonic DEF Wires
  <1>3. /\ data' = Append(data, m) /\ sent' = sent + n
        /\ UNCHANGED <<ctl, credited>>
    BY DEF EncodeData
  <1>4. ended' \in BOOLEAN /\ mark' \in Nat
    <2>1. ended' \in BOOLEAN
      BY Zenon DEF EncodeData, Flags
    <2> QED BY <2>1 DEF EncodeData, Numbers
  <1> HIDE DEF m
  <1>5. data' \in Seq(Messages(T))
    BY <1>1, <1>3, AppendProperties DEF Wires
  <1>6. Chain(data', sent') /\ Start(data', sent') = Start(data, sent)
    BY <1>1, <1>2, <1>3, ChainAppend DEF DataWire, Numbers
  <1>7. Packets'
    <2>1. /\ Len(data') = Len(data) + 1 /\ Len(data) \in Nat
          /\ \A i \in 1..Len(data) : data'[i] = data[i]
          /\ data'[Len(data) + 1] = m
      BY <1>2, <1>3, AppendProperties, LenProperties
    <2> QED BY <1>1, <2>1 DEF DataWire, Packets
  <1>8. Len(got') + Len(pending') <= sent'
    BY <1>3 DEF DataWire, Numbers, Wires
  <1>9. err'["r"] = "none" => Start(data', sent') = Len(got') + Len(pending')
    BY <1>6 DEF DataWire
  <1>10. DataWire'
    BY <1>6, <1>7, <1>8, <1>9 DEF DataWire
  <1> QED BY <1>3, <1>4, <1>5, <1>10

(* Appending a message to the control wire. *)
LEMMA EncodeCtlStep ==
    ASSUME FlowInv, NEW t \in {"WindowAdjust", "Close"}, NEW n \in Nat,
           t = "Close" => n = 0, EncodeCtl(t, n), UNCHANGED got,
           credited + n + taken' <= Len(got)
    PROVE  /\ CtlWire'
           /\ ctl' \in Seq(Messages({"WindowAdjust", "Close"}))
           /\ credited' = credited + n
           /\ UNCHANGED <<data, sent, ended, mark>>
           /\ Start(ctl, credited)' = Start(ctl, credited)
  <1> DEFINE m == Message(t, credited, n)
             T == {"WindowAdjust", "Close"}
  <1> USE FlowAssumption DEF FlowInv
  <1>1. m \in Messages(T) /\ m.off = credited /\ m.len = n /\ m.type = t
    BY DEF Message, Messages, Numbers
  <1>2. m \in Msg /\ ctl \in Seq(Msg)
    <2>1. Messages(T) \subseteq Msg
      BY DEF Messages, Msg
    <2> QED BY <1>1, <2>1, SeqMonotonic DEF Wires
  <1>3. /\ ctl' = Append(ctl, m) /\ credited' = credited + n
        /\ UNCHANGED <<data, sent, ended, mark>>
    BY DEF EncodeCtl
  <1> HIDE DEF m
  <1>4. ctl' \in Seq(Messages(T))
    BY <1>1, <1>3, AppendProperties DEF Wires
  <1>5. Chain(ctl', credited') /\ Start(ctl', credited') = Start(ctl, credited)
    BY <1>1, <1>2, <1>3, ChainAppend DEF CtlWire, Numbers
  <1>6. \A i \in 1..Len(ctl') : ctl'[i].type = "Close" => ctl'[i].len = 0
    <2>1. /\ Len(ctl') = Len(ctl) + 1 /\ Len(ctl) \in Nat
          /\ \A i \in 1..Len(ctl) : ctl'[i] = ctl[i]
          /\ ctl'[Len(ctl) + 1] = m
      BY <1>2, <1>3, AppendProperties, LenProperties
    <2> QED BY <1>1, <2>1 DEF CtlWire
  <1>7. Start(ctl', credited') <= credited'
    BY <1>3, <1>5, StartType DEF CtlWire, Numbers
  <1>8. credited' + taken' <= Len(got')
    BY <1>3
  <1>9. CtlWire'
    BY <1>5, <1>6, <1>7, <1>8 DEF CtlWire
  <1> QED BY <1>3, <1>4, <1>5, <1>9

(* Write puts the bytes it holds on the data wire. *)
LEMMA WritePacketStep == ASSUME FlowInv, WritePacket PROVE FlowInv'
  <1> USE FlowAssumption DEF FlowInv, WritePacket, rvars, cvars
  <1>0. hold > 0 /\ hold <= todo /\ hold <= MaxPacket /\ hold \in Nat /\ todo \in Nat
    BY DEF Program, Numbers
  <1>1. Control' /\ Life' /\ NoOverrun'
    BY DEF Control, Life, NoOverrun
  <1>2. Program'
    BY <1>0 DEF Program
  <1>3. CASE EncodeData("Data", hold) /\ todo' = todo - hold
    <2>1. /\ DataWire'
          /\ data' \in Seq(Messages({"Data", "EOF", "Close"}))
          /\ sent' = sent + hold /\ UNCHANGED <<ctl, credited>>
          /\ ended' \in BOOLEAN /\ mark' \in Nat
      BY <1>0, <1>3, EncodeDataStep
    <2>2. Flags'
      BY <2>1, Zenon DEF Flags
    <2>3. Numbers' /\ Wires'
      BY <1>0, <1>3, <2>1 DEF Numbers, Wires
    <2>4. CtlWire'
      BY <2>1 DEF CtlWire, Chain, Start
    <2>5. Credit'
      <3>1. Start(ctl, credited)' = Start(ctl, credited) /\ Start(ctl, credited) \in Nat
        BY <2>1, StartType DEF Start
      <3>2. win' = win /\ hold' = 0 /\ sent' = sent + hold
        BY <2>1
      <3>3. (win + hold + sent <= Window + Start(ctl, credited))'
        BY <1>0, <3>1, <3>2 DEF Credit, Numbers
      <3>4. ASSUME ~winClosed', ~sentClose'["r"], up'["w"], up'["r"]
            PROVE  (win + hold + (sent - Len(got)) + taken
                      + (credited - Start(ctl, credited)) = Window)'
        <4>1. win + hold + (sent - Len(got)) + taken
                 + (credited - Start(ctl, credited)) = Window
          BY <3>4 DEF Credit
        <4> QED BY <1>0, <2>1, <3>1, <3>2, <4>1 DEF Numbers, Wires
      <3>5. (myWindow + Len(pending) + (IF rpc = "adjust" THEN taken ELSE 0) = Window)'
        BY DEF Credit
      <3> QED BY <3>3, <3>4, <3>5 DEF Credit
    <2> QED BY <1>1, <1>2, <2>1, <2>2, <2>3, <2>4, <2>5
  <1>4. CASE CanFailEncode("w") /\ todo' = 0 /\ UNCHANGED nvars
    <2> USE DEF nvars
    <2>1. Flags'
      BY <1>4, Zenon DEF Flags
    <2>2. Numbers' /\ Wires'
      BY <1>4 DEF Numbers, Wires
    <2>3. DataWire' /\ CtlWire'
      BY <1>4 DEF DataWire, Packets, CtlWire, Chain, Start
    <2>4. Credit'
      <3>1. Start(ctl, credited)' = Start(ctl, credited) /\ Start(ctl, credited) \in Nat
        BY <1>4, StartType DEF Start
      <3>2. (win + hold + sent <= Window + Start(ctl, credited))'
        BY <1>0, <1>4, <3>1 DEF Credit, Numbers
      <3>3. ~(up'["w"] /\ up'["r"])
        BY <1>4 DEF CanFailEncode, Peer
      <3> QED BY <3>2, <3>3 DEF Credit
    <2> QED BY <1>1, <1>2, <2>1, <2>2, <2>3, <2>4
  <1> QED BY <1>3, <1>4

(* Channel.send of an EOF or a Close. *)
LEMMA SendEndStep ==
    ASSUME FlowInv, NEW e \in Ends, NEW t \in {"EOF", "Close"},
           t = "EOF" => e = "w", Send(e, t, 0),
           UNCHANGED <<win, winClosed, wpc, todo, hold, rvars, known, up, err, got>>
    PROVE  /\ Numbers' /\ Wires' /\ DataWire' /\ CtlWire' /\ Credit' /\ Program'
           /\ NoOverrun'
           /\ sentClose' \in [Ends -> BOOLEAN] /\ ended' \in BOOLEAN
           /\ \A x \in Ends : sentClose[x] => sentClose'[x]
  <1> USE FlowAssumption DEF FlowInv, rvars
  <1>1. Program' /\ NoOverrun'
    BY DEF Program, NoOverrun
  <1>2. /\ sentClose' \in [Ends -> BOOLEAN]
        /\ \A x \in Ends : sentClose[x] => sentClose'[x]
    BY DEF Send, Flags
  <1>3. CASE UNCHANGED nvars
    <2>1. Numbers' /\ Wires' /\ DataWire' /\ CtlWire' /\ Credit'
      BY <1>2, <1>3, FlowFrame DEF Ends
    <2>2. ended' \in BOOLEAN
      BY <1>3, Zenon DEF nvars, Flags
    <2> QED BY <1>1, <1>2, <2>1, <2>2
  <1>4. CASE e = "w" /\ EncodeData(t, 0)
    <2>1. /\ DataWire'
          /\ data' \in Seq(Messages({"Data", "EOF", "Close"}))
          /\ sent' = sent + 0 /\ UNCHANGED <<ctl, credited>>
          /\ ended' \in BOOLEAN /\ mark' \in Nat
      BY <1>4, EncodeDataStep
    <2>2. sent' = sent
      BY <2>1 DEF Numbers
    <2>3. Numbers' /\ Wires'
      BY <2>1, <2>2 DEF Numbers, Wires
    <2>4. CtlWire' /\ Credit'
      BY <1>2, <2>1, <2>2 DEF CtlWire, Credit, Chain, Start, Ends
    <2> QED BY <1>1, <1>2, <2>1, <2>3, <2>4
  <1>5. CASE e = "r" /\ t = "Close" /\ EncodeCtl("Close", 0)
    <2>0. credited + 0 + taken' <= Len(got)
      BY DEF CtlWire, Numbers
    <2>1. /\ CtlWire'
          /\ ctl' \in Seq(Messages({"WindowAdjust", "Close"}))
          /\ credited' = credited + 0
          /\ UNCHANGED <<data, sent, ended, mark>>
          /\ Start(ctl, credited)' = Start(ctl, credited)
      BY <1>5, <2>0, EncodeCtlStep
    <2>2. credited' = credited
      BY <2>1 DEF Numbers
    <2>3. Numbers' /\ Wires'
      BY <2>1, <2>2 DEF Numbers, Wires
    <2>4. DataWire'
      BY <2>1 DEF DataWire, Packets, Chain, Start
    <2>5. Credit'
      BY <1>2, <2>1, <2>2 DEF Credit, Ends
    <2>6. ended' \in BOOLEAN
      BY <2>1, Zenon DEF Flags
    <2> QED BY <1>1, <1>2, <2>1, <2>3, <2>4, <2>5, <2>6
  <1>6. \/ UNCHANGED nvars \/ Encode(e, t, 0)
    BY DEF Send
  <1> QED BY <1>3, <1>4, <1>5, <1>6 DEF Encode, Ends
(* CloseWrite puts an empty message on the data wire. *)
LEMMA CloseWriteStep == ASSUME FlowInv, CloseWrite PROVE FlowInv'
  <1> USE DEF CloseWrite
  <1>1. /\ Numbers' /\ Wires' /\ DataWire' /\ CtlWire' /\ Credit' /\ Program'
        /\ NoOverrun'
        /\ sentClose' \in [Ends -> BOOLEAN] /\ ended' \in BOOLEAN
        /\ \A x \in Ends : sentClose[x] => sentClose'[x]
    BY SendEndStep DEF Ends
  <1>2. Flags'
    BY <1>1, Zenon DEF FlowInv, Flags, rvars
  <1>3. Control' /\ Life'
    BY <1>1 DEF FlowInv, Control, Life, rvars, Ends
  <1> QED BY <1>1, <1>2, <1>3 DEF FlowInv

(* Channel.Close puts an empty message on a wire. *)
LEMMA CloseStep == ASSUME FlowInv, NEW e \in Ends, Close(e) PROVE FlowInv'
  <1> USE DEF Close, wvars
  <1>1. /\ Numbers' /\ Wires' /\ DataWire' /\ CtlWire' /\ Credit' /\ Program'
        /\ NoOverrun'
        /\ sentClose' \in [Ends -> BOOLEAN] /\ ended' \in BOOLEAN
        /\ \A x \in Ends : sentClose[x] => sentClose'[x]
    BY SendEndStep
  <1>2. Flags'
    BY <1>1, Zenon DEF FlowInv, Flags, rvars
  <1>3. Control' /\ Life'
    BY <1>1 DEF FlowInv, Control, Life, rvars, Ends
  <1> QED BY <1>1, <1>2, <1>3 DEF FlowInv

(* So does the answer to a Close. *)
LEMMA ReplyCloseStep == ASSUME FlowInv, NEW e \in Ends, ReplyClose(e) PROVE FlowInv'
  <1> USE DEF ReplyClose, wvars
  <1>1. /\ Numbers' /\ Wires' /\ DataWire' /\ CtlWire' /\ Credit' /\ Program'
        /\ NoOverrun'
        /\ sentClose' \in [Ends -> BOOLEAN] /\ ended' \in BOOLEAN
        /\ \A x \in Ends : sentClose[x] => sentClose'[x]
    BY SendEndStep
  <1>2. Flags'
    BY <1>1, Zenon DEF FlowInv, Flags, rvars
  <1>3. Control' /\ Life'
    BY <1>1 DEF FlowInv, Control, Life, rvars, Ends
  <1> QED BY <1>1, <1>2, <1>3 DEF FlowInv

(* The second half of adjustWindow announces the credit. *)
LEMMA SendAdjustStep == ASSUME FlowInv, SendAdjust PROVE FlowInv'
  <1> USE FlowAssumption DEF FlowInv, SendAdjust, wvars
  <1>0. UNCHANGED sentClose
    BY DEF Send, Flags
  <1>1. Program' /\ NoOverrun' /\ Control' /\ Life'
    BY <1>0 DEF Program, NoOverrun, Control, Life
  <1>2. CASE UNCHANGED nvars /\ (sentClose["r"] \/ ~(up["w"] /\ up["r"]))
             /\ UNCHANGED sentClose
    <2> USE DEF nvars
    <2>1. Numbers' /\ Wires'
      BY <1>2 DEF Numbers, Wires
    <2>2. Flags'
      BY <1>2, Zenon DEF Flags
    <2>3. DataWire'
      BY <1>2 DEF DataWire, Packets, Chain, Start
    <2>4. CtlWire'
      <3>1. credited + 0 <= Len(got)
        BY DEF CtlWire, Numbers, Wires
      <3> QED BY <1>2, <3>1 DEF CtlWire, Chain, Start
    <2>5. Credit'
      BY <1>2 DEF Credit, Start
    <2> QED BY <1>1, <2>1, <2>2, <2>3, <2>4, <2>5
  <1>3. CASE EncodeCtl("WindowAdjust", taken) /\ UNCHANGED sentClose
    <2>0. credited + taken + taken' <= Len(got)
      BY DEF CtlWire, Numbers, Wires
    <2>1. /\ CtlWire'
          /\ ctl' \in Seq(Messages({"WindowAdjust", "Close"}))
          /\ credited' = credited + taken
          /\ UNCHANGED <<data, sent, ended, mark>>
          /\ Start(ctl, credited)' = Start(ctl, credited)
      BY <1>3, <2>0, EncodeCtlStep DEF Numbers
    <2>2. Numbers' /\ Wires'
      BY <2>1 DEF Numbers, Wires
    <2>3. Flags'
      BY <1>3, <2>1, Zenon DEF Flags
    <2>4. DataWire'
      BY <2>1 DEF DataWire, Packets, Chain, Start
    <2>5. Credit'
      <3>1. (myWindow + Len(pending) + (IF rpc = "adjust" THEN taken ELSE 0) = Window)'
        BY DEF Credit
      <3>2. (win + hold + sent <= Window + Start(ctl, credited))'
        BY <2>1 DEF Credit
      <3>3. ASSUME ~winClosed', ~sentClose'["r"], up'["w"], up'["r"]
            PROVE  (win + hold + (sent - Len(got)) + taken
                      + (credited - Start(ctl, credited)) = Window)'
        <4>1. win + hold + (sent - Len(got)) + taken
                 + (credited - Start(ctl, credited)) = Window
          BY <1>3, <3>3 DEF Credit
        <4>2. Start(ctl, credited) \in Nat
          BY StartType
        <4> QED BY <2>1, <4>1, <4>2 DEF Numbers, Wires
      <3> QED BY <3>1, <3>2, <3>3 DEF Credit
    <2> QED BY <1>1, <2>1, <2>2, <2>3, <2>4, <2>5
  <1>4. \/ UNCHANGED nvars /\ (sentClose["r"] \/ ~(up["w"] /\ up["r"]))
        \/ EncodeCtl("WindowAdjust", taken)
    BY DEF Send, Encode, CanFailEncode, Peer
  <1> QED BY <1>0, <1>2, <1>3, <1>4

(* The end of the Close handshake closes one half of the channel. *)
LEMMA FinishCloseStep == ASSUME FlowInv, NEW e \in Ends, FinishClose(e) PROVE FlowInv'
  <1> USE DEF FlowInv, FinishClose, CloseChannel, WakeWriter, WakeReader, wvars, rvars
  <1>1. Flags'
    BY DEF Flags, nvars, Ends
  <1>2. Control'
    BY DEF Control, Ends
  <1>3. Program' /\ NoOverrun'
    BY DEF Program, NoOverrun
  <1>4. Life'
    BY DEF Life, Flags, Control, Ends
  <1>5. /\ UNCHANGED <<nvars, got, pending, myWindow, taken, win, todo, hold, up, err>>
        /\ (rpc = "adjust") = (rpc' = "adjust")
        /\ winClosed => winClosed'
        /\ sentClose["r"] => sentClose'["r"]
    BY DEF Flags, Ends
  <1>6. Numbers' /\ Wires' /\ DataWire' /\ CtlWire' /\ Credit'
    BY <1>5, FlowFrame
  <1> QED BY <1>1, <1>2, <1>3, <1>4, <1>6

(* A loop that leaves closes the channel and moves no byte. *)
LEMMA ReadErrorStep ==
    ASSUME FlowInv, NEW e \in Ends, ReadError(e) \/ NetFault(e) PROVE FlowInv'
  <1>1. loop[e] = "run" /\ LoopExit(e, "net") /\ UNCHANGED <<nvars, got>>
    BY DEF ReadError, NetFault
  <1>2. ended' = ended
    BY <1>1 DEF nvars
  <1>3. /\ Flags' /\ Control' /\ Program' /\ Life' /\ NoOverrun'
        /\ UNCHANGED <<pending, myWindow, taken, win, todo, hold, up>>
        /\ (rpc = "adjust") = (rpc' = "adjust")
        /\ winClosed => winClosed'
        /\ sentClose["r"] => sentClose'["r"]
        /\ err'["r"] = "none" => err["r"] = "none"
    BY <1>1, <1>2, LoopExitStep
  <1>4. Numbers' /\ Wires' /\ DataWire' /\ CtlWire' /\ Credit'
    BY <1>1, <1>3, FlowFrame
  <1> QED BY <1>3, <1>4 DEF FlowInv

(* Closing a transport moves no byte. *)
LEMMA TransportStep ==
    ASSUME FlowInv, NEW e \in Ends, CloseTransport(e) \/ SessionClose(e) PROVE FlowInv'
  <1> USE DEF CloseTransport, SessionClose
  <1>1. /\ UNCHANGED <<wvars, rvars, sentClose, known, err, nvars, got>>
        /\ up' = [up EXCEPT ![e] = FALSE]
        /\ \/ loop' = loop
           \/ loop[e] = "dropped" /\ loop' = [loop EXCEPT ![e] = "dead"]
    OBVIOUS
  <1> HIDE DEF CloseTransport, SessionClose
  <1> USE DEF FlowInv, wvars, rvars
  <1>2. Flags'
    BY <1>1 DEF Flags, nvars, Ends
  <1>3. Control' /\ Life'
    BY <1>1 DEF Control, Life, Ends
  <1>4. Program' /\ NoOverrun'
    BY <1>1 DEF Program, NoOverrun
  <1>5. (up'["w"] => up["w"]) /\ (up'["r"] => up["r"])
    BY <1>1 DEF Flags, Ends
  <1>6. Numbers' /\ Wires' /\ DataWire' /\ CtlWire' /\ Credit'
    BY <1>1, <1>5, FlowFrame
  <1> QED BY <1>2, <1>3, <1>4, <1>6
(* Decoding a message from the data wire. *)
LEMMA DecodeDataStep ==
    ASSUME FlowInv, data # <<>>, data' = Tail(data), UNCHANGED sent
    PROVE  /\ data' \in Seq(Messages({"Data", "EOF", "Close"}))
           /\ Chain(data', sent') /\ Packets'
           /\ Start(data', sent') = Head(data).off + Head(data).len
           /\ Head(data).off = Start(data, sent)
           /\ Head(data) = data[1]
           /\ Head(data) \in Messages({"Data", "EOF", "Close"})
           /\ Head(data).len <= MaxPacket
           /\ Head(data).type # "Data" => Head(data).len = 0
           /\ Head(data).off + Head(data).len <= sent
  <1> DEFINE T == {"Data", "EOF", "Close"}
  <1> USE DEF FlowInv
  <1>1. data \in Seq(Messages(T)) /\ data \in Seq(Msg)
    <2>1. Messages(T) \subseteq Msg
      BY DEF Messages, Msg
    <2> QED BY <2>1, SeqMonotonic DEF Wires
  <1>2. /\ data' \in Seq(Messages(T)) /\ Head(data) \in Messages(T)
        /\ Len(data') = Len(data) - 1 /\ Len(data) \in Nat /\ Len(data) > 0
        /\ \A i \in 1..Len(data') : data'[i] = data[i + 1]
    BY <1>1, HeadTailProperties, EmptySeq
  <1>3. Head(data) = data[1]
    BY <1>1
  <1>4. /\ Chain(data', sent') /\ Start(data', sent') = data[1].off + data[1].len
        /\ data[1].off + data[1].len <= sent
    BY <1>1, ChainTail DEF DataWire, Numbers
  <1>5. Packets'
    BY <1>2 DEF DataWire, Packets
  <1>6. data[1].len <= MaxPacket /\ (data[1].type # "Data" => data[1].len = 0)
    BY <1>2 DEF DataWire, Packets
  <1>7. data[1].off = Start(data, sent)
    BY DEF Start
  <1> QED BY <1>2, <1>3, <1>4, <1>5, <1>6, <1>7

(* A received message that carries no byte into pending. *)
LEMMA ReceiveFrame ==
    ASSUME FlowInv, data # <<>>, data' = Tail(data),
           UNCHANGED <<ctl, sent, credited, ended, mark, got>>,
           UNCHANGED <<pending, myWindow, taken, win, todo, hold, up>>,
           (rpc = "adjust") = (rpc' = "adjust"),
           winClosed => winClosed', sentClose["r"] => sentClose'["r"],
           err'["r"] = "none" => err["r"] = "none" /\ Head(data).type # "Data"
    PROVE  Numbers' /\ Wires' /\ DataWire' /\ CtlWire' /\ Credit'
  <1>1. /\ data' \in Seq(Messages({"Data", "EOF", "Close"}))
        /\ Chain(data', sent') /\ Packets'
        /\ Start(data', sent') = Head(data).off + Head(data).len
        /\ Head(data).off = Start(data, sent)
        /\ Head(data).type # "Data" => Head(data).len = 0
    BY DecodeDataStep
  <1> USE DEF FlowInv
  <1>2. Numbers' /\ Wires'
    BY <1>1 DEF Numbers, Wires
  <1>3. err'["r"] = "none" => Start(data', sent') = Len(got') + Len(pending')
    BY <1>1, StartType DEF DataWire, Wires
  <1>4. DataWire'
    BY <1>1, <1>3 DEF DataWire
  <1>5. CtlWire'
    BY DEF CtlWire, Chain, Start
  <1>6. Credit'
    BY DEF Credit, Start
  <1> QED BY <1>2, <1>4, <1>5, <1>6

(* handleData moves the first packet from the wire to pending; neither of its checks fails. *)
LEMMA HandleDataStep ==
    ASSUME FlowInv, loop["r"] = "run", data # <<>>, data' = Tail(data),
           Head(data).type = "Data", HandleData(Head(data)),
           UNCHANGED <<ctl, sent, credited, ended, mark, got>>
    PROVE  FlowInv'
  <1> DEFINE m == Head(data)
             T == {"Data", "EOF", "Close"}
  <1> USE FlowAssumption DEF FlowInv
  <1>1. /\ data' \in Seq(Messages(T))
        /\ Chain(data', sent') /\ Packets'
        /\ Start(data', sent') = m.off + m.len
        /\ m.off = Start(data, sent) /\ m \in Messages(T)
        /\ m.len <= MaxPacket /\ m.off + m.len <= sent
    BY DecodeDataStep
  <1>2. m.off = Len(got) + Len(pending) /\ m.off \in Nat /\ m.len \in Nat
    BY <1>1 DEF Life, DataWire, Messages, Ends
  <1> HIDE DEF m
  <1>3. myWindow >= m.len
    <2>1. Start(ctl, credited) \in Nat
      BY StartType
    <2>2. (IF rpc = "adjust" THEN taken ELSE 0) <= taken /\ taken \in Nat
      BY DEF Numbers
    <2>3. m.off + m.len <= Window + Len(got) - taken
      <3>1. /\ win + hold + sent <= Window + Start(ctl, credited)
            /\ Start(ctl, credited) <= credited
            /\ credited + taken <= Len(got)
            /\ m.off + m.len <= sent
        BY <1>1 DEF Credit, CtlWire
      <3>2. /\ win \in Nat /\ hold \in Nat /\ sent \in Nat /\ credited \in Nat
            /\ Len(got) \in Nat
        BY DEF Numbers, Wires
      <3> QED BY <1>2, <2>1, <2>2, <3>1, <3>2
    <2> QED BY <1>2, <2>2, <2>3 DEF Credit, Numbers, Wires
  <1>4. /\ myWindow' = myWindow - m.len
        /\ pending' = pending \o Run(m.off, m.len)
        /\ WakeReader /\ UNCHANGED <<wvars, bufClosed, taken, cvars>>
    <2>1. ~Oversize(m)
      BY <1>1, <1>2 DEF Oversize
    <2> QED BY <1>2, <1>3, <2>1 DEF HandleData, m, Numbers
  <1>5. /\ Run(m.off, m.len) \in Seq(Nat) /\ Len(Run(m.off, m.len)) = m.len
    BY <1>2 DEF Run
  <1>6. /\ pending' \in Seq(Nat) /\ Len(pending') = Len(pending) + m.len
        /\ Len(pending) \in Nat
    <2>1. pending \in Seq(Nat)
      BY DEF Wires
    <2>2. \A r \in Seq(Nat) : /\ pending \o r \in Seq(Nat)
                               /\ Len(pending \o r) = Len(pending) + Len(r)
      BY <2>1, ConcatProperties
    <2>3. /\ pending \o Run(m.off, m.len) \in Seq(Nat)
          /\ Len(pending \o Run(m.off, m.len)) = Len(pending) + m.len
      BY <1>5, <2>2
    <2>4. pending' = pending \o Run(m.off, m.len)
      BY <1>4
    <2> QED BY <2>1, <2>3, <2>4
  <1>7. Numbers' /\ Wires'
    <2>1. Wires'
      BY <1>1, <1>6 DEF Wires
    <2>2. myWindow' \in 0..(Mod - 1)
      BY <1>2, <1>3, <1>4 DEF Numbers
    <2> QED BY <1>4, <2>1, <2>2 DEF Numbers, wvars
  <1>8. Flags'
    BY <1>4, Zenon DEF Flags, wvars, cvars
  <1>9. Control' /\ Program' /\ Life' /\ NoOverrun'
    BY <1>4 DEF Control, Program, Life, NoOverrun, wvars, cvars, WakeReader
  <1>10. DataWire'
    <2>1. Len(got') + Len(pending') = m.off + m.len
      BY <1>2, <1>6 DEF Wires
    <2> QED BY <1>1, <2>1 DEF DataWire
  <1>11. CtlWire'
    BY <1>4 DEF CtlWire, Chain, Start
  <1>12. Credit'
    <2>1. /\ (rpc' = "adjust") = (rpc = "adjust")
          /\ Start(ctl, credited)' = Start(ctl, credited)
      BY <1>4 DEF WakeReader, Start
    <2>2. (myWindow + Len(pending) + (IF rpc = "adjust" THEN taken ELSE 0) = Window)'
      <3>1. myWindow' = myWindow - m.len /\ taken' = taken
        BY <1>4
      <3>2. myWindow \in Nat /\ taken \in Nat
        BY DEF Numbers
      <3>3. CASE rpc = "adjust"
        <4>1. myWindow + Len(pending) + taken = Window
          BY <3>3 DEF Credit
        <4>2. (myWindow - m.len) + (Len(pending) + m.len) + taken = Window
          BY <1>2, <1>6, <3>2, <4>1
        <4>3. myWindow' + Len(pending') + taken' = Window
          BY <1>6, <3>1, <4>2
        <4> QED BY <2>1, <3>3, <4>3
      <3>4. CASE rpc # "adjust"
        <4>1. myWindow + Len(pending) + 0 = Window
          BY <3>4 DEF Credit
        <4>2. myWindow' + Len(pending') + 0 = Window
          BY <1>2, <1>6, <3>1, <3>2, <4>1
        <4> QED BY <2>1, <3>4, <4>2
      <3> QED BY <3>3, <3>4
    <2> QED BY <1>4, <2>1, <2>2 DEF Credit, wvars, cvars
  <1> QED BY <1>7, <1>8, <1>9, <1>10, <1>11, <1>12

(* One packet at the reading end. *)
LEMMA ReceiveDataStep == ASSUME FlowInv, ReceiveData PROVE FlowInv'
  <1>0. /\ loop["r"] = "run" /\ data # <<>> /\ data' = Tail(data)
        /\ UNCHANGED <<ctl, sent, credited, ended, mark, got>>
        /\ err["r"] = "none"
    BY DEF ReceiveData, FlowInv, Life, Ends
  <1>1. CASE ~known["r"] /\ LoopExit("r", "invalidChannel")
    <2>1. /\ Flags' /\ Control' /\ Program' /\ Life' /\ NoOverrun'
          /\ UNCHANGED <<pending, myWindow, taken, win, todo, hold, up>>
          /\ (rpc = "adjust") = (rpc' = "adjust")
          /\ winClosed => winClosed'
          /\ sentClose["r"] => sentClose'["r"]
          /\ err'["r"] # "none"
      BY <1>0, <1>1, LoopExitStep DEF Ends
    <2>2. Numbers' /\ Wires' /\ DataWire' /\ CtlWire' /\ Credit'
      BY <1>0, <2>1, ReceiveFrame
    <2> QED BY <2>1, <2>2 DEF FlowInv
  <1>2. CASE Head(data).type = "Data" /\ HandleData(Head(data))
    BY <1>0, <1>2, HandleDataStep
  <1>3. CASE Head(data).type = "EOF" /\ HandleEOF
    <2> USE DEF FlowInv, HandleEOF, wvars, cvars, WakeReader
    <2>1. Flags'
      BY <1>0, <1>3 DEF Flags
    <2>2. Control' /\ Program' /\ Life' /\ NoOverrun'
      BY <1>3 DEF Control, Program, Life, NoOverrun
    <2>3. Numbers' /\ Wires' /\ DataWire' /\ CtlWire' /\ Credit'
      BY <1>0, <1>3, ReceiveFrame
    <2> QED BY <2>1, <2>2, <2>3
  <1>4. CASE Head(data).type = "Close" /\ HandleClose("r")
    <2> USE DEF FlowInv, HandleClose, wvars, rvars
    <2>1. Flags'
      BY <1>0, <1>4, Zenon DEF Flags
    <2>2. Control' /\ Program' /\ Life' /\ NoOverrun'
      BY <1>0, <1>4 DEF Control, Program, Life, NoOverrun, Ends
    <2>3. Numbers' /\ Wires' /\ DataWire' /\ CtlWire' /\ Credit'
      BY <1>0, <1>4, ReceiveFrame
    <2> QED BY <2>1, <2>2, <2>3
  <1> QED BY <1>1, <1>2, <1>3, <1>4 DEF ReceiveData
(* Decoding a message from the control wire. *)
LEMMA DecodeCtlStep ==
    ASSUME FlowInv, ctl # <<>>, ctl' = Tail(ctl), UNCHANGED <<credited, got, taken>>
    PROVE  /\ ctl' \in Seq(Messages({"WindowAdjust", "Close"}))
           /\ CtlWire'
           /\ Start(ctl, credited)' = Head(ctl).off + Head(ctl).len
           /\ Start(ctl, credited) = Head(ctl).off
           /\ Head(ctl) = ctl[1]
           /\ Head(ctl) \in Messages({"WindowAdjust", "Close"})
           /\ Head(ctl).type = "Close" => Head(ctl).len = 0
           /\ Head(ctl).off + Head(ctl).len <= credited
  <1> DEFINE T == {"WindowAdjust", "Close"}
  <1> USE DEF FlowInv
  <1>1. ctl \in Seq(Messages(T)) /\ ctl \in Seq(Msg)
    <2>1. Messages(T) \subseteq Msg
      BY DEF Messages, Msg
    <2> QED BY <2>1, SeqMonotonic DEF Wires
  <1>2. /\ ctl' \in Seq(Messages(T)) /\ Head(ctl) \in Messages(T)
        /\ Len(ctl') = Len(ctl) - 1 /\ Len(ctl) \in Nat /\ Len(ctl) > 0
        /\ \A i \in 1..Len(ctl') : ctl'[i] = ctl[i + 1]
    BY <1>1, HeadTailProperties, EmptySeq
  <1>3. Head(ctl) = ctl[1]
    BY <1>1
  <1>4. /\ Chain(ctl', credited') /\ Start(ctl', credited') = ctl[1].off + ctl[1].len
        /\ ctl[1].off + ctl[1].len <= credited
    BY <1>1, ChainTail DEF CtlWire, Numbers
  <1>5. \A i \in 1..Len(ctl') : ctl'[i].type = "Close" => ctl'[i].len = 0
    BY <1>2 DEF CtlWire
  <1>6. ctl[1].type = "Close" => ctl[1].len = 0
    BY <1>2 DEF CtlWire
  <1>7. Start(ctl, credited) = ctl[1].off
    BY DEF Start
  <1>8. CtlWire'
    BY <1>4, <1>5 DEF CtlWire
  <1> QED BY <1>2, <1>3, <1>4, <1>6, <1>7, <1>8

(* One packet at the writing end; window.add does not wrap. *)
LEMMA ReceiveCtlStep == ASSUME FlowInv, ReceiveCtl PROVE FlowInv'
  <1> DEFINE m == Head(ctl)
  <1>0. /\ loop["w"] = "run" /\ ctl # <<>> /\ ctl' = Tail(ctl)
        /\ UNCHANGED <<data, sent, credited, ended, mark, got>>
    BY DEF ReceiveCtl
  <1>1. CASE ~known["w"] /\ LoopExit("w", "invalidChannel")
    <2>1. /\ Flags' /\ Control' /\ Program' /\ Life' /\ NoOverrun'
          /\ UNCHANGED <<pending, myWindow, taken, win, todo, hold, up>>
          /\ (rpc = "adjust") = (rpc' = "adjust")
          /\ winClosed'
          /\ err'["r"] = "none" => err["r"] = "none"
      BY <1>0, <1>1, LoopExitStep DEF Ends
    <2>2. /\ ctl' \in Seq(Messages({"WindowAdjust", "Close"})) /\ CtlWire'
          /\ Start(ctl, credited)' = m.off + m.len
          /\ Start(ctl, credited) = m.off
          /\ m \in Messages({"WindowAdjust", "Close"})
      BY <1>0, <2>1, DecodeCtlStep
    <2> USE DEF FlowInv
    <2>3. Numbers' /\ Wires'
      BY <1>0, <2>1, <2>2 DEF Numbers, Wires
    <2>4. DataWire'
      BY <1>0, <2>1 DEF DataWire, Packets, Chain, Start
    <2>5. Credit'
      <3>1. m.off \in Nat /\ m.len \in Nat
        BY <2>2 DEF Messages
      <3> HIDE DEF m
      <3>2. win + hold + sent <= Window + (m.off + m.len)
        BY <2>2, <3>1, FlowAssumption DEF Credit, Numbers
      <3> QED BY <1>0, <2>1, <2>2, <3>2 DEF Credit
    <2> QED BY <2>1, <2>2, <2>3, <2>4, <2>5
  <1>2. CASE m.type = "WindowAdjust" /\ HandleAdjust(m)
    <2> USE FlowAssumption DEF FlowInv
    <2>0. taken' = taken /\ rvars' = rvars
      BY <1>2 DEF HandleAdjust, LoopExit, CloseChannel, rvars
    <2>1. /\ ctl' \in Seq(Messages({"WindowAdjust", "Close"})) /\ CtlWire'
          /\ Start(ctl, credited)' = m.off + m.len
          /\ Start(ctl, credited) = m.off
          /\ m \in Messages({"WindowAdjust", "Close"})
          /\ m.off + m.len <= credited
      BY <1>0, <2>0, DecodeCtlStep
    <2>2. m.off \in Nat /\ m.len \in Nat
      BY <2>1 DEF Messages
    <2> HIDE DEF m
    <2>3. win + m.len + hold <= Window
      <3>1. /\ win + hold + sent <= Window + m.off
            /\ credited + taken <= Len(got) /\ Len(got) + Len(pending) <= sent
        BY <2>1 DEF Credit, CtlWire, DataWire
      <3>2. /\ win \in Nat /\ hold \in Nat /\ sent \in Nat /\ credited \in Nat
            /\ Len(got) \in Nat /\ Len(pending) \in Nat /\ taken \in Nat
        BY DEF Numbers, Wires
      <3> DEFINE o == m.off  l == m.len  g == Len(got)  p == Len(pending)
      <3>3. /\ o \in Nat /\ l \in Nat /\ g \in Nat /\ p \in Nat
            /\ win + hold + sent <= Window + o /\ o + l <= credited
            /\ credited + taken <= g /\ g + p <= sent
        BY <2>1, <2>2, <3>1, <3>2
      <3> HIDE DEF FlowInv, o, l, g, p
      <3>4. o + l <= sent
        BY <3>2, <3>3
      <3>5. win + l + hold <= Window
        BY <3>2, <3>3, <3>4
      <3> QED BY <3>5 DEF l
    <2>4. Add32(win, m.len) = win + m.len /\ win + m.len \in 0..(Mod - 1)
      BY <2>2, <2>3 DEF Add32, Numbers
    <2>5. /\ win' = win + m.len /\ WakeWriter
          /\ UNCHANGED <<winClosed, todo, hold, sentEOF, rvars, cvars>>
      BY <1>2, <2>2, <2>4 DEF HandleAdjust, Numbers
    <2>6. Numbers' /\ Wires'
      BY <1>0, <2>1, <2>4, <2>5 DEF Numbers, Wires, rvars
    <2>7. Flags'
      BY <1>0, <2>5, Zenon DEF Flags, rvars, cvars
    <2>8. Control' /\ Program' /\ Life' /\ NoOverrun'
      BY <2>5 DEF Control, Program, Life, NoOverrun, rvars, cvars, WakeWriter
    <2>9. DataWire'
      BY <1>0, <2>5 DEF DataWire, Packets, Chain, Start, rvars, cvars
    <2>10. Credit'
      <3>1. (myWindow + Len(pending) + (IF rpc = "adjust" THEN taken ELSE 0) = Window)'
        BY <2>5 DEF Credit, rvars
      <3>2. (win + hold + sent <= Window + Start(ctl, credited))'
        <4>1. (win + m.len) + hold + sent <= Window + (m.off + m.len)
          <5> DEFINE o == m.off  l == m.len
          <5>1. /\ win \in Int /\ hold \in Int /\ sent \in Int
                /\ o \in Int /\ l \in Int /\ Window \in Int
                /\ win + hold + sent <= Window + o
            BY <2>1, <2>2 DEF Credit, Numbers
          <5> HIDE DEF FlowInv, o, l
          <5>2. (win + l) + hold + sent <= Window + (o + l)
            BY <5>1
          <5> QED BY <5>2 DEF o, l
        <4>2. win' = win + m.len /\ hold' = hold /\ sent' = sent
          BY <1>0, <2>5
        <4> HIDE DEF FlowInv
        <4> QED BY <2>1, <4>1, <4>2
      <3>3. ASSUME ~winClosed', ~sentClose'["r"], up'["w"], up'["r"]
            PROVE  (win + hold + (sent - Len(got)) + taken
                      + (credited - Start(ctl, credited)) = Window)'
        <4>1. win + hold + (sent - Len(got)) + taken + (credited - m.off) = Window
          BY <2>1, <2>5, <3>3 DEF Credit, cvars
        <4>2. (win + m.len) + hold + (sent - Len(got)) + taken
                 + (credited - (m.off + m.len)) = Window
          <5> DEFINE o == m.off  l == m.len  g == Len(got)
          <5>1. /\ win \in Int /\ hold \in Int /\ sent \in Int /\ g \in Int
                /\ taken \in Int /\ credited \in Int
                /\ o \in Int /\ l \in Int /\ Window \in Int
            BY <2>2 DEF Numbers, Wires
          <5>2. win + hold + (sent - g) + taken + (credited - o) = Window
            BY <4>1
          <5> HIDE DEF FlowInv, o, l, g
          <5>3. (win + l) + hold + (sent - g) + taken + (credited - (o + l)) = Window
            BY <5>1, <5>2
          <5> QED BY <5>3 DEF o, l, g
        <4>3. /\ win' = win + m.len /\ hold' = hold /\ sent' = sent /\ got' = got
              /\ taken' = taken /\ credited' = credited
          BY <1>0, <2>5 DEF rvars
        <4> HIDE DEF FlowInv
        <4> QED BY <2>1, <4>2, <4>3
      <3> QED BY <3>1, <3>2, <3>3 DEF Credit
    <2> QED BY <2>1, <2>6, <2>7, <2>8, <2>9, <2>10
  <1>3. CASE m.type = "Close" /\ HandleClose("w")
    <2> USE DEF FlowInv, HandleClose, wvars, rvars
    <2>1. /\ ctl' \in Seq(Messages({"WindowAdjust", "Close"})) /\ CtlWire'
          /\ Start(ctl, credited)' = m.off + 0
          /\ Start(ctl, credited) = m.off
      BY <1>0, <1>3, DecodeCtlStep
    <2>2. Start(ctl, credited)' = Start(ctl, credited)
      BY <2>1, StartType
    <2>3. Flags'
      BY <1>0, <1>3, Zenon DEF Flags
    <2>4. Control' /\ Program' /\ Life' /\ NoOverrun'
      BY <1>0, <1>3 DEF Control, Program, Life, NoOverrun, Ends
    <2>5. Numbers' /\ Wires'
      BY <1>0, <1>3, <2>1 DEF Numbers, Wires
    <2>6. DataWire'
      BY <1>0, <1>3 DEF DataWire, Packets, Chain, Start
    <2>7. Credit'
      BY <1>0, <1>3, <2>2 DEF Credit
    <2> QED BY <2>1, <2>3, <2>4, <2>5, <2>6, <2>7
  <1> QED BY <1>1, <1>2, <1>3 DEF ReceiveCtl

(* Every step keeps the first invariant. *)
LEMMA FlowStep == FlowInv /\ [Next]_vars => FlowInv'
  <1> SUFFICES ASSUME FlowInv, [Next]_vars PROVE FlowInv'
    OBVIOUS
  <1>1. CASE \E n \in 1..MaxBytes : WriteCall(n)
    BY <1>1, WriteCallStep
  <1>2. CASE Reserve
    BY <1>2, ReserveStep
  <1>3. CASE WritePacket
    BY <1>3, WritePacketStep
  <1>4. CASE CloseWrite
    BY <1>4, CloseWriteStep
  <1>5. CASE ReadCall
    BY <1>5, ReadCallStep
  <1>6. CASE ReadBuffer
    BY <1>6, ReadBufferStep
  <1>7. CASE AdjustWindow
    BY <1>7, AdjustWindowStep
  <1>8. CASE SendAdjust
    BY <1>8, SendAdjustStep
  <1>9. CASE ReceiveData
    BY <1>9, ReceiveDataStep
  <1>10. CASE ReceiveCtl
    BY <1>10, ReceiveCtlStep
  <1>11. ASSUME NEW e \in Ends, Loop(e) \/ Close(e) \/ NetFault(e) \/ SessionClose(e)
         PROVE  FlowInv'
    BY <1>11, ReplyCloseStep, FinishCloseStep, ReadErrorStep, TransportStep, CloseStep
       DEF Loop
  <1>12. CASE UNCHANGED vars
    <2> USE <1>12 DEF vars, wvars, rvars, cvars, FlowInv
    <2>1. Numbers' /\ Wires' /\ DataWire' /\ CtlWire' /\ Credit'
      BY FlowFrame
    <2>2. Flags'
      BY Zenon DEF Flags, nvars
    <2>3. Control' /\ Program' /\ Life' /\ NoOverrun'
      BY DEF Control, Program, Life, NoOverrun
    <2> QED BY <2>1, <2>2, <2>3
  <1> QED BY <1>1, <1>2, <1>3, <1>4, <1>5, <1>6, <1>7, <1>8, <1>9, <1>10, <1>11, <1>12
          DEF Next, Writer, Reader

(* Every state of a channel has the type the code gives it: for any        *)
(* channelWindowSize below 2^32, both windows stay within uint32           *)
(* (channel.go:151, util_window.go:29, 62).                                *)
THEOREM FlowTypeOK == Spec => []TypeOK
  <1>1. Init => FlowInv
    BY FlowInit DEF StrayInv
  <1>2. FlowInv => TypeOK
    BY FlowInvImplies
  <1> QED BY <1>1, <1>2, FlowStep, PTL DEF Spec

(* No packet and no window update of this code ever trips the checks that  *)
(* end the session (channel.go:231, 241 and util_window.go:25).            *)
THEOREM FlowNoOverrun == Spec => []NoOverrun
  <1>1. Init => FlowInv
    BY FlowInit DEF StrayInv
  <1>2. FlowInv => NoOverrun
    BY DEF FlowInv
  <1> QED BY <1>1, <1>2, FlowStep, PTL DEF Spec

(* Window credit is neither minted nor lost (channel.go:147-157, 230-251). *)
THEOREM FlowCreditConserved == Spec => []CreditConserved
  <1>1. Init => FlowInv
    BY FlowInit DEF StrayInv
  <1>2. FlowInv => CreditConserved
    BY FlowInvImplies
  <1> QED BY <1>1, <1>2, FlowStep, PTL DEF Spec
-----------------------------------------------------------------------------
(* A step that neither encodes nor decodes, and starts no Close at either  *)
(* end.                                                                    *)
LEMMA StrayFrame ==
    ASSUME StrayInv, UNCHANGED nvars,
           \A e \in Ends : sentClose[e] => sentClose'[e],
           \A e \in Ends : Closing(e)' => Closing(e),
           \A e \in Ends : err'[e] = "invalidChannel" => err[e] = "invalidChannel"
    PROVE  CtlClosed' /\ DataClosed' /\ StrayOnlyLateData'
  <1> USE DEF StrayInv, nvars, Ends
  <1>1. CtlClosed'
    BY DEF CtlClosed
  <1>2. DataClosed'
    BY DEF DataClosed, LateData
  <1>3. StrayOnlyLateData'
    BY DEF StrayOnlyLateData
  <1> QED BY <1>1, <1>2, <1>3

(* Channel.send, by either end: what it encodes is the first message after *)
(* which nothing but late data may follow, or precedes it.                 *)
LEMMA StraySend ==
    ASSUME StrayInv, FlowInv', NEW e \in Ends,
           NEW t \in {"EOF", "Close", "WindowAdjust"}, NEW n \in Nat,
           t = "EOF" => e = "w", t = "WindowAdjust" => e = "r",
           t # "WindowAdjust" => n = 0,
           Send(e, t, n), UNCHANGED <<known, err>>,
           \A x \in Ends : Closing(x)' => Closing(x)
    PROVE  CtlClosed' /\ DataClosed' /\ StrayOnlyLateData'
  <1> USE DEF StrayInv
  <1>1. \A x \in Ends : sentClose[x] => sentClose'[x]
    BY DEF Send, FlowInv, Flags
  <1>2. CASE UNCHANGED nvars
    BY <1>1, <1>2, StrayFrame
  <1>3. CASE ~sentClose["w"] /\ e = "w" /\ EncodeData(t, 0)
             /\ sentClose' = [sentClose EXCEPT !["w"] = (t = "Close")]
    <2>1. ~Closing("r") /\ ~Closing("r")'
      BY <1>3 DEF DataClosed, Ends
    <2>2. \A i \in 1..Len(data) : data[i].type # "Close"
      BY <1>3 DEF DataClosed
    <2>3. /\ Len(data') = Len(data) + 1 /\ Len(data) \in Nat
          /\ \A i \in 1..Len(data) : data'[i] = data[i]
          /\ data'[Len(data) + 1].type = t
      <3>1. data \in Seq(Msg) /\ Message(t, sent, 0) \in Msg
            /\ Message(t, sent, 0).type = t
        <4>1. Messages({"Data", "EOF", "Close"}) \subseteq Msg
          BY DEF Messages, Msg
        <4> QED BY <4>1, SeqMonotonic DEF FlowInv, Wires, Numbers, Message, Msg
      <3> QED BY <1>3, <3>1, AppendProperties, LenProperties DEF EncodeData
    <2>4. /\ sent' = sent /\ sent \in Nat /\ mark' \in {mark, sent}
          /\ ended' /\ UNCHANGED ctl
      <3>1. t # "Data"
        OBVIOUS
      <3>2. ended'
        BY <1>3, <3>1, Zenon DEF EncodeData
      <3> QED BY <1>3, <3>1, <3>2 DEF EncodeData, FlowInv, Numbers
    <2>5. t = "Close" => sentClose'["w"]
      BY <1>3 DEF FlowInv, Flags, Ends
    <2>6. DataClosed'
      <3>1. (sent >= mark)'
        BY <2>4 DEF DataClosed, FlowInv, Numbers
      <3>2. ASSUME NEW i \in 1..Len(data'), data'[i].type = "Close"
            PROVE  /\ ended' /\ sentClose'["w"]
                   /\ \A j \in (i + 1)..Len(data') : LateData(data[j])'
        <4>1. i = Len(data) + 1 /\ t = "Close"
          BY <2>2, <2>3, <3>2
        <4> QED BY <2>3, <2>4, <2>5, <4>1
      <3> QED BY <2>1, <2>4, <3>1, <3>2 DEF DataClosed
    <2>7. CtlClosed'
      BY <1>1, <2>4 DEF CtlClosed, Ends
    <2>8. StrayOnlyLateData'
      <3>1. err["r"] # "invalidChannel" \/ (ended /\ mark' = mark)
        BY <1>3 DEF StrayOnlyLateData, DataClosed, EncodeData
      <3> QED BY <2>4, <3>1 DEF StrayOnlyLateData
    <2> QED BY <2>6, <2>7, <2>8
  <1>4. CASE ~sentClose["r"] /\ e = "r" /\ EncodeCtl(t, n)
             /\ sentClose' = [sentClose EXCEPT !["r"] = (t = "Close")]
    <2>1. ~Closing("w") /\ ~Closing("w")'
      BY <1>4 DEF CtlClosed, Ends
    <2>2. \A i \in 1..Len(ctl) : ctl[i].type # "Close"
      BY <1>4 DEF CtlClosed
    <2>3. /\ Len(ctl') = Len(ctl) + 1 /\ Len(ctl) \in Nat
          /\ \A i \in 1..Len(ctl) : ctl'[i] = ctl[i]
          /\ ctl'[Len(ctl) + 1].type = t
      <3>1. ctl \in Seq(Msg) /\ Message(t, credited, n) \in Msg
            /\ Message(t, credited, n).type = t
        <4>1. Messages({"WindowAdjust", "Close"}) \subseteq Msg
          BY DEF Messages, Msg
        <4> QED BY <4>1, SeqMonotonic DEF FlowInv, Wires, Numbers, Message, Msg
      <3> QED BY <1>4, <3>1, AppendProperties, LenProperties DEF EncodeCtl
    <2>4. t = "Close" => sentClose'["r"]
      BY <1>4 DEF FlowInv, Flags, Ends
    <2>5. CtlClosed'
      BY <2>1, <2>2, <2>3, <2>4 DEF CtlClosed
    <2>6. DataClosed' /\ StrayOnlyLateData'
      BY <1>1, <1>4 DEF DataClosed, LateData, StrayOnlyLateData, EncodeCtl, Ends
    <2> QED BY <2>5, <2>6
  <1>5. \/ UNCHANGED nvars
        \/ /\ ~sentClose[e] /\ Encode(e, t, n)
           /\ sentClose' = [sentClose EXCEPT ![e] = (t = "Close")]
    BY DEF Send
  <1>6. e = "w" => n = 0
    OBVIOUS
  <1> QED BY <1>2, <1>3, <1>4, <1>5, <1>6 DEF Encode, Ends
(* Data behind a Close or an EOF is past the mark. *)
LEMMA StrayWritePacket ==
    ASSUME StrayInv, WritePacket PROVE CtlClosed' /\ DataClosed' /\ StrayOnlyLateData'
  <1> USE DEF StrayInv, WritePacket, cvars
  <1>0. \A e \in Ends : /\ sentClose'[e] = sentClose[e] /\ err'[e] = err[e]
                        /\ Closing(e)' = Closing(e)
    BY DEF Closing
  <1>1. CASE UNCHANGED nvars
    BY <1>0, <1>1, StrayFrame
  <1>2. CASE EncodeData("Data", hold)
    <2>1. hold \in Nat /\ hold > 0 /\ sent \in Nat /\ mark \in Nat /\ sent >= mark
      BY DEF FlowInv, Program, Numbers, DataClosed
    <2>2. sent' = sent + hold /\ mark' = mark /\ UNCHANGED ctl
      BY <1>2 DEF EncodeData
    <2>3. ended' = ended
      BY <1>2, Zenon DEF EncodeData, FlowInv, Flags
    <2>4. /\ Len(data') = Len(data) + 1 /\ Len(data) \in Nat
          /\ \A i \in 1..Len(data) : data'[i] = data[i]
          /\ data'[Len(data) + 1] = Message("Data", sent, hold)
      <3>1. data \in Seq(Msg) /\ Message("Data", sent, hold) \in Msg
        <4>1. Messages({"Data", "EOF", "Close"}) \subseteq Msg
          BY DEF Messages, Msg
        <4> QED BY <2>1, <4>1, SeqMonotonic DEF FlowInv, Wires, Message, Msg
      <3> QED BY <1>2, <3>1, AppendProperties, LenProperties DEF EncodeData
    <2>5. /\ data'[Len(data) + 1].type = "Data" /\ data'[Len(data) + 1].len > 0
          /\ data'[Len(data) + 1].off >= mark'
      BY <2>1, <2>2, <2>4 DEF Message
    <2>6. DataClosed'
      <3>1. (sent >= mark)'
        BY <2>1, <2>2
      <3>2. ASSUME NEW i \in 1..Len(data'), data'[i].type = "Close"
            PROVE  /\ ended' /\ sentClose'["w"]
                   /\ \A j \in (i + 1)..Len(data') : LateData(data'[j])
        <4>1. i \in 1..Len(data) /\ data[i].type = "Close"
          BY <2>4, <2>5, <3>2
        <4>2. ended /\ sentClose["w"] /\ \A j \in (i + 1)..Len(data) : LateData(data[j])
          BY <4>1 DEF DataClosed
        <4> QED BY <1>0, <2>2, <2>3, <2>4, <2>5, <4>1, <4>2 DEF LateData, Ends
      <3>3. ASSUME Closing("r")'
            PROVE  /\ ended' /\ sentClose'["w"]
                   /\ \A j \in 1..Len(data') : LateData(data'[j])
        <4>1. ended /\ sentClose["w"] /\ \A j \in 1..Len(data) : LateData(data[j])
          BY <1>0, <3>3 DEF DataClosed, Ends
        <4> QED BY <1>0, <2>2, <2>3, <2>4, <2>5, <4>1 DEF LateData, Ends
      <3>4. (err["r"] = "invalidChannel" => ended)'
        BY <1>0, <2>3 DEF DataClosed, Ends
      <3> QED BY <2>2, <3>1, <3>2, <3>3, <3>4 DEF DataClosed, LateData
    <2>7. CtlClosed'
      BY <1>0, <2>2 DEF CtlClosed, Ends
    <2>8. StrayOnlyLateData'
      BY <1>0, <2>1, <2>2 DEF StrayOnlyLateData, Ends
    <2> QED BY <2>6, <2>7, <2>8
  <1> QED BY <1>1, <1>2
(* The reading end meets a removed channel only with such data. *)
LEMMA StrayReceiveData ==
    ASSUME StrayInv, FlowInv', ReceiveData
    PROVE  CtlClosed' /\ DataClosed' /\ StrayOnlyLateData'
  <1> USE DEF StrayInv
  <1>1. /\ loop["r"] = "run" /\ data # <<>> /\ data' = Tail(data)
        /\ UNCHANGED <<ctl, sent, credited, ended, mark, got>>
        /\ err["r"] = "none"
    BY DEF ReceiveData, FlowInv, Life, Ends
  <1>2. /\ Head(data) = data[1]
        /\ Head(data).off \in Nat /\ Head(data).len \in Nat
        /\ Head(data).off + Head(data).len <= sent
    BY <1>1, DecodeDataStep DEF Messages
  <1>3. /\ Len(data') = Len(data) - 1 /\ Len(data) \in Nat /\ Len(data) > 0
        /\ \A i \in 1..Len(data') : data'[i] = data[i + 1]
    BY <1>1, HeadTailProperties, EmptySeq DEF FlowInv, Wires
  <1>4. \A i \in 1..Len(data') : data'[i].type = "Close" =>
            /\ ended /\ sentClose["w"]
            /\ \A j \in (i + 1)..Len(data') : LateData(data'[j])
    <2> SUFFICES ASSUME NEW i \in 1..Len(data'), data'[i].type = "Close"
                 PROVE  /\ ended /\ sentClose["w"]
                        /\ \A j \in (i + 1)..Len(data') : LateData(data'[j])
      OBVIOUS
    <2>1. i + 1 \in 1..Len(data) /\ data[i + 1].type = "Close"
      BY <1>3
    <2>2. /\ ended /\ sentClose["w"]
          /\ \A j \in ((i + 1) + 1)..Len(data) : LateData(data[j])
      BY <2>1 DEF DataClosed
    <2>3. ASSUME NEW j \in (i + 1)..Len(data') PROVE LateData(data'[j])
      <3>1. j + 1 \in ((i + 1) + 1)..Len(data) /\ data'[j] = data[j + 1]
        BY <1>3
      <3> QED BY <2>2, <3>1
    <2> QED BY <2>2, <2>3
  <1>5. CASE ~known["r"] /\ LoopExit("r", "invalidChannel")
    <2>1. Closing("r")
      BY <1>1, <1>5 DEF Closing
    <2>2. ended /\ sentClose["w"] /\ LateData(data[1])
      BY <1>3, <2>1 DEF DataClosed
    <2>3. sent > mark
      BY <1>2, <2>2 DEF LateData, FlowInv, Numbers
    <2>4. /\ UNCHANGED sentClose /\ loop'["r"] = "dropped"
          /\ err'["r"] = "invalidChannel"
          /\ loop'["w"] = loop["w"] /\ known'["w"] = known["w"] /\ err'["w"] = err["w"]
      BY <1>5 DEF LoopExit, FlowInv, Control, Flags, Ends
    <2>5. ~Closing("r")' /\ (Closing("w")' => Closing("w"))
      BY <2>4 DEF Closing
    <2>6. DataClosed'
      <3>1. (sent >= mark)'
        BY <1>1 DEF DataClosed
      <3> QED BY <1>1, <1>4, <2>2, <2>4, <2>5, <3>1 DEF DataClosed, LateData
    <2>7. CtlClosed'
      BY <1>1, <2>4, <2>5 DEF CtlClosed
    <2>8. StrayOnlyLateData'
      BY <1>1, <2>3, <2>4 DEF StrayOnlyLateData
    <2> QED BY <2>6, <2>7, <2>8
  <1>6. CASE Head(data).type # "Close" /\ UNCHANGED cvars
    <2>1. Closing("r")' = Closing("r") /\ Closing("w")' = Closing("w")
      BY <1>6 DEF Closing, cvars
    <2>2. ASSUME Closing("r")'
          PROVE  ended /\ sentClose["w"] /\ \A j \in 1..Len(data') : LateData(data'[j])
      <3>1. ended /\ sentClose["w"] /\ \A j \in 1..Len(data) : LateData(data[j])
        BY <2>1, <2>2 DEF DataClosed
      <3> QED BY <1>3, <3>1
    <2>3. DataClosed'
      <3>1. (sent >= mark)' /\ (err["r"] = "invalidChannel" => ended)'
        BY <1>1, <1>6 DEF DataClosed, cvars
      <3> QED BY <1>1, <1>4, <1>6, <2>2, <3>1 DEF DataClosed, LateData, cvars
    <2>4. CtlClosed'
      BY <1>1, <1>6, <2>1 DEF CtlClosed, cvars
    <2>5. StrayOnlyLateData'
      BY <1>1, <1>6 DEF StrayOnlyLateData, cvars
    <2> QED BY <2>3, <2>4, <2>5
  <1>7. CASE Head(data).type = "Close" /\ HandleClose("r")
    <2>1. /\ UNCHANGED <<sentClose, known, err>>
          /\ loop'["w"] = loop["w"]
      BY <1>7 DEF HandleClose, FlowInv, Control, Ends
    <2>2. Closing("w")' = Closing("w")
      BY <2>1 DEF Closing
    <2>3. /\ ended /\ sentClose["w"]
          /\ \A j \in (1 + 1)..Len(data) : LateData(data[j])
      BY <1>2, <1>3, <1>7 DEF DataClosed
    <2>4. \A j \in 1..Len(data') : LateData(data'[j])
      <3> SUFFICES ASSUME NEW j \in 1..Len(data') PROVE LateData(data'[j])
        OBVIOUS
      <3>1. j + 1 \in (1 + 1)..Len(data) /\ data'[j] = data[j + 1]
        BY <1>3
      <3> QED BY <2>3, <3>1
    <2>5. DataClosed'
      <3>1. (sent >= mark)' /\ (err["r"] = "invalidChannel" => ended)'
        BY <1>1, <2>1 DEF DataClosed
      <3> QED BY <1>1, <1>4, <2>1, <2>3, <2>4, <3>1 DEF DataClosed, LateData
    <2>6. CtlClosed'
      BY <1>1, <2>1, <2>2 DEF CtlClosed
    <2>7. StrayOnlyLateData'
      BY <1>1, <2>1 DEF StrayOnlyLateData
    <2> QED BY <2>5, <2>6, <2>7
  <1>8. ASSUME HandleData(Head(data)), Head(data).type = "Data" PROVE UNCHANGED cvars
    <2>1. ~(LoopExit("r", "payload") \/ LoopExit("r", "tooMuch"))
      BY DEF LoopExit, FlowInv, NoOverrun, Control, Ends
    <2> QED BY <1>8, <2>1 DEF HandleData
  <1>9. Head(data).type = "EOF" /\ HandleEOF => UNCHANGED cvars
    BY DEF HandleEOF
  <1> QED BY <1>5, <1>6, <1>7, <1>8, <1>9 DEF ReceiveData

(* The writing end never meets a removed channel. *)
LEMMA StrayReceiveCtl ==
    ASSUME StrayInv, FlowInv', ReceiveCtl
    PROVE  CtlClosed' /\ DataClosed' /\ StrayOnlyLateData'
  <1> USE DEF StrayInv
  <1>1. /\ loop["w"] = "run" /\ ctl # <<>> /\ ctl' = Tail(ctl)
        /\ UNCHANGED <<data, sent, credited, ended, mark, got>>
        /\ err["w"] = "none"
    BY DEF ReceiveCtl, FlowInv, Life, Ends
  <1>2. /\ Len(ctl') = Len(ctl) - 1 /\ Len(ctl) \in Nat /\ Len(ctl) > 0
        /\ \A i \in 1..Len(ctl') : ctl'[i] = ctl[i + 1]
        /\ Head(ctl) = ctl[1]
    BY <1>1, HeadTailProperties, EmptySeq DEF FlowInv, Wires
  <1>3. ~Closing("w") /\ known["w"]
    BY <1>1 DEF CtlClosed, Closing
  <1>4. \A i \in 1..Len(ctl') : ctl'[i].type = "Close" => i = Len(ctl') /\ sentClose["r"]
    <2> SUFFICES ASSUME NEW i \in 1..Len(ctl'), ctl'[i].type = "Close"
                 PROVE  i = Len(ctl') /\ sentClose["r"]
      OBVIOUS
    <2>1. i + 1 \in 1..Len(ctl) /\ ctl[i + 1].type = "Close"
      BY <1>2
    <2>2. i + 1 = Len(ctl) /\ sentClose["r"]
      BY <2>1 DEF CtlClosed
    <2> QED BY <1>2, <2>2
  <1>5. CASE UNCHANGED cvars
    <2>1. Closing("r")' = Closing("r") /\ Closing("w")' = Closing("w")
      BY <1>5 DEF Closing, cvars
    <2>2. CtlClosed'
      BY <1>3, <1>4, <1>5, <2>1 DEF CtlClosed, cvars
    <2>3. DataClosed' /\ StrayOnlyLateData'
      BY <1>1, <1>5, <2>1 DEF DataClosed, LateData, StrayOnlyLateData, cvars
    <2> QED BY <2>2, <2>3
  <1>6. CASE Head(ctl).type = "Close" /\ HandleClose("w")
    <2>1. /\ UNCHANGED <<sentClose, known, err>>
          /\ loop'["r"] = loop["r"]
      BY <1>6 DEF HandleClose, FlowInv, Control, Ends
    <2>2. Closing("r")' = Closing("r")
      BY <2>1 DEF Closing
    <2>3. 1 = Len(ctl) /\ sentClose["r"]
      BY <1>2, <1>6 DEF CtlClosed
    <2>4. ctl' = <<>>
      <3>1. Len(ctl') = Len(ctl) - 1 /\ Len(ctl) = 1
        BY <1>2, <2>3
      <3>2. ctl' \in Seq(Messages({"WindowAdjust", "Close"}))
        BY DEF FlowInv, Wires
      <3> QED BY <3>1, <3>2, EmptySeq
    <2>5. CtlClosed'
      BY <1>4, <2>1, <2>3, <2>4 DEF CtlClosed
    <2>6. DataClosed' /\ StrayOnlyLateData'
      BY <1>1, <2>1, <2>2 DEF DataClosed, LateData, StrayOnlyLateData
    <2> QED BY <2>5, <2>6
  <1>7. ASSUME HandleAdjust(Head(ctl)) PROVE UNCHANGED cvars
    <2>1. ~LoopExit("w", "window")
      BY DEF LoopExit, FlowInv, NoOverrun, Control, Ends
    <2> QED BY <1>7, <2>1 DEF HandleAdjust
  <1> QED BY <1>3, <1>5, <1>6, <1>7 DEF ReceiveCtl

(* Every step keeps the second invariant. *)
LEMMA StrayStep == StrayInv /\ [Next]_vars => StrayInv'
  <1> SUFFICES ASSUME StrayInv, [Next]_vars PROVE StrayInv'
    OBVIOUS
  <1>0. FlowInv'
    BY FlowStep DEF StrayInv
  <1>1. SUFFICES CtlClosed' /\ DataClosed' /\ StrayOnlyLateData'
    BY <1>0 DEF StrayInv
  <1>2. CASE UNCHANGED <<cvars, nvars>>
    <2>1. \A e \in Ends : Closing(e)' = Closing(e)
      BY <1>2 DEF Closing, cvars
    <2> QED BY <1>2, <2>1, StrayFrame DEF cvars
  <1>3. CASE WritePacket
    BY <1>3, StrayWritePacket
  <1>4. CASE ReceiveData
    BY <1>0, <1>4, StrayReceiveData
  <1>5. CASE ReceiveCtl
    BY <1>0, <1>5, StrayReceiveCtl
  <1>6. CASE CloseWrite
    <2>1. Send("w", "EOF", 0) /\ UNCHANGED <<known, loop, err>>
      BY <1>6 DEF CloseWrite
    <2>2. \A x \in Ends : Closing(x)' = Closing(x)
      BY <2>1 DEF Closing
    <2> QED BY <1>0, <2>1, <2>2, StraySend DEF Ends
  <1>7. CASE SendAdjust
    <2>1. Send("r", "WindowAdjust", taken) /\ UNCHANGED <<known, loop, err>>
      BY <1>7 DEF SendAdjust
    <2>2. \A x \in Ends : Closing(x)' = Closing(x)
      BY <2>1 DEF Closing
    <2>3. taken \in Nat
      BY DEF StrayInv, FlowInv, Numbers
    <2> QED BY <1>0, <2>1, <2>2, <2>3, StraySend DEF Ends
  <1>8. ASSUME NEW e \in Ends, Close(e) \/ ReplyClose(e)
        PROVE  CtlClosed' /\ DataClosed' /\ StrayOnlyLateData'
    <2>1. Send(e, "Close", 0) /\ UNCHANGED <<known, err>>
      BY <1>8 DEF Close, ReplyClose
    <2>2. \A x \in Ends : Closing(x)' => Closing(x)
      BY <1>8 DEF Close, ReplyClose, Closing, StrayInv, FlowInv, Control
    <2> QED BY <1>0, <2>1, <2>2, StraySend
  <1>9. ASSUME NEW e \in Ends,
               FinishClose(e) \/ CloseTransport(e) \/ SessionClose(e)
        PROVE  CtlClosed' /\ DataClosed' /\ StrayOnlyLateData'
    <2>1. /\ UNCHANGED <<nvars, err>>
          /\ \A x \in Ends : sentClose[x] => sentClose'[x]
      BY <1>9 DEF FinishClose, CloseTransport, SessionClose, CloseChannel,
                  StrayInv, FlowInv, Flags
    <2>2. \A x \in Ends : Closing(x)' => Closing(x)
      BY <1>9 DEF FinishClose, CloseTransport, SessionClose, Closing,
                  StrayInv, FlowInv, Flags, Control, Life
    <2> QED BY <2>1, <2>2, StrayFrame
  <1>10. ASSUME NEW e \in Ends, ReadError(e) \/ NetFault(e)
         PROVE  CtlClosed' /\ DataClosed' /\ StrayOnlyLateData'
    <2>1. LoopExit(e, "net") /\ UNCHANGED nvars
      BY <1>10 DEF ReadError, NetFault
    <2>2. /\ \A x \in Ends : sentClose[x] => sentClose'[x]
          /\ \A x \in Ends : Closing(x)' => Closing(x)
          /\ \A x \in Ends : err'[x] = "invalidChannel" => err[x] = "invalidChannel"
      BY <2>1 DEF LoopExit, CloseChannel, Closing, StrayInv, FlowInv, Flags, Control
    <2> QED BY <2>1, <2>2, StrayFrame
  <1>11. ASSUME \/ \E n \in 1..MaxBytes : WriteCall(n)
                \/ Reserve \/ ReadCall \/ ReadBuffer \/ AdjustWindow
                \/ UNCHANGED vars
         PROVE  UNCHANGED <<cvars, nvars>>
    BY <1>11 DEF WriteCall, Reserve, ReadCall, ReadBuffer, AdjustWindow, vars, cvars, nvars
  <1> QED BY <1>2, <1>3, <1>4, <1>5, <1>6, <1>7, <1>8, <1>9, <1>10, <1>11
          DEF Next, Writer, Reader, Loop

(* The Close handshake (channel.go:186-192) leaves no stray message: only  *)
(* data encoded after the end of the stream can meet a removed channel and *)
(* end the session (session.go:173-176).                                   *)
THEOREM FlowStrayOnlyLateData == Spec => []StrayOnlyLateData
  <1>1. StrayInv => StrayOnlyLateData
    BY DEF StrayInv
  <1> QED BY <1>1, FlowInit, StrayStep, PTL DEF Spec
=============================================================================

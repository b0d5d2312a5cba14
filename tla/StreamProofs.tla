----------------------------- MODULE StreamProofs -----------------------------
(***************************************************************************)
(* A direction of a channel implements ByteStream, for every window,       *)
(* packet size and modulus.  To the invariant of the Close handshake it    *)
(* adds what is buffered, where EOF and Close stand in the stream, that    *)
(* data behind the end is behind a Close, and that the reader has all up   *)
(* to the end when its buffer is closed.                                   *)
(***************************************************************************)
EXTENDS ChannelFlowProofs

(* The buffer continues what Read has returned. *)
PendingRun == \A i \in 1..Len(pending) : pending[i] = Len(got) + i

(* EOF and Close are encoded where the stream ends. *)
EndsAtMark == \A i \in 1..Len(data) : data[i].type # "Data" => ended /\ data[i].off = mark

(* The writing program stops with CloseWrite; only a Close can overtake    *)
(* its data.                                                               *)
WriterStops ==
    /\ sentEOF => wpc = "idle"
    /\ ended /\ ~sentClose["w"] => sentEOF /\ sent = mark

(* The reading end has seen Close, or its loop has ended. *)
Gone == Closing("r") \/ err["r"] # "none"

CloseBefore(n) == \E j \in 1..n : data[j].type = "Close"

LateBehindClose ==
    ended => /\ \A i \in 1..Len(data) :
                   data[i].off + data[i].len > mark => Gone \/ CloseBefore(i - 1)
             /\ ~sentEOF => Gone \/ CloseBefore(Len(data))

(* The reader has nothing behind the end, and all before it when it is     *)
(* told of the end.                                                        *)
HandedOver ==
    /\ ended => Len(got) + Len(pending) <= mark
    /\ Closing("r") => ended /\ Len(got) + Len(pending) = mark
    /\ bufClosed => err["r"] = "net" \/ (ended /\ Len(got) + Len(pending) = mark)

StreamPart == PendingRun /\ EndsAtMark /\ WriterStops /\ LateBehindClose /\ HandedOver

StreamInv == StrayInv /\ StreamPart
-----------------------------------------------------------------------------
(* At first nothing is sent. *)
LEMMA StreamInit == Init => StreamInv
<1> SUFFICES ASSUME Init PROVE StreamPart
  BY FlowInit DEF StreamInv
<1> QED BY DEF Init, StreamPart, PendingRun, EndsAtMark, WriterStops, LateBehindClose, HandedOver,
               Closing, Ends

(* A step that leaves the stream alone, and closes the buffer only when    *)
(* the reading end has seen Close or lost its transport.                   *)
LEMMA StreamFrame ==
    ASSUME StreamPart, UNCHANGED <<data, sent, ended, mark, got, pending>>,
           sentEOF => sentEOF', sentEOF' => wpc' = "idle",
           sentClose["w"] => sentClose'["w"],
           Gone => Gone', Closing("r")' => Closing("r"),
           err["r"] = "net" => err'["r"] = "net",
           bufClosed' => bufClosed \/ Closing("r") \/ err'["r"] = "net"
    PROVE  StreamPart'
<1>1. PendingRun' /\ EndsAtMark'
  BY DEF StreamPart, PendingRun, EndsAtMark
<1>2. WriterStops'
  BY DEF StreamPart, WriterStops
<1>3. LateBehindClose'
  <2>1. \A n : CloseBefore(n)' <=> CloseBefore(n)
    BY DEF CloseBefore
  <2> HIDE DEF Gone, CloseBefore
  <2> QED BY <2>1 DEF StreamPart, LateBehindClose
<1>4. HandedOver'
  BY DEF StreamPart, HandedOver
<1> QED BY <1>1, <1>2, <1>3, <1>4 DEF StreamPart

(* The wire with one more message. *)
LEMMA OneMoreMessage ==
    ASSUME FlowInv, NEW t \in {"Data", "EOF", "Close"}, NEW n \in Nat,
           data' = Append(data, Message(t, sent, n))
    PROVE  /\ Len(data') = Len(data) + 1 /\ Len(data) \in Nat
           /\ \A i \in 1..Len(data) : data'[i] = data[i]
           /\ data'[Len(data) + 1].type = t /\ data'[Len(data) + 1].off = sent
           /\ data'[Len(data) + 1].len = n
           /\ \A i \in 1..Len(data) :
                 data[i].off \in Nat /\ data[i].len \in Nat /\ data[i].off + data[i].len <= sent
<1>1. data \in Seq(Msg) /\ Message(t, sent, n) \in Msg
  <2>1. Messages({"Data", "EOF", "Close"}) \subseteq Msg
    BY DEF Messages, Msg
  <2> QED BY <2>1, SeqMonotonic DEF FlowInv, Wires, Numbers, Message, Msg
<1>2. /\ Len(data') = Len(data) + 1 /\ Len(data) \in Nat
      /\ \A i \in 1..Len(data) : data'[i] = data[i]
      /\ data'[Len(data) + 1] = Message(t, sent, n)
  BY <1>1, AppendProperties, LenProperties
<1>3. \A i \in 1..Len(data) : data[i].off \in Nat /\ data[i].len \in Nat
  <2>1. \A i \in 1..Len(data) : data[i] \in Msg
    BY <1>1, ElementOfSeq
  <2> QED BY <2>1 DEF Msg
<1>4. \A i \in 1..Len(data) : data[i].off + data[i].len <= sent
  BY DEF FlowInv, DataWire, Chain
<1> QED BY <1>2, <1>3, <1>4 DEF Message

(* EOF or Close is encoded: at the end of what was sent, which is the end  *)
(* of the stream.                                                          *)
LEMMA EncodeEnd ==
    ASSUME StreamInv, NEW t \in {"EOF", "Close"}, ~sentClose["w"],
           t = "EOF" => ~sentEOF /\ sentEOF', EncodeData(t, 0),
           sentClose' = [sentClose EXCEPT !["w"] = (t = "Close")],
           sentEOF => sentEOF', sentEOF' => wpc' = "idle",
           UNCHANGED <<got, pending, bufClosed>>,
           Gone' <=> Gone, Closing("r")' <=> Closing("r"), err' = err
    PROVE  StreamPart'
<1> USE DEF StreamInv
<1>0. /\ FlowInv /\ DataClosed /\ sent \in Nat /\ mark \in Nat
      /\ Len(got) \in Nat /\ Len(pending) \in Nat /\ Len(got) + Len(pending) <= sent
  BY DEF StrayInv, FlowInv, Numbers, Wires, DataWire
<1>1. ~Closing("r") /\ \A i \in 1..Len(data) : data[i].type # "Close"
  BY <1>0 DEF DataClosed
<1>2. sent' = sent /\ ended' /\ mark' = sent
  <2>1. t # "Data"
    OBVIOUS
  <2>2. ended' /\ sent' = sent + 0 /\ mark' = IF ~ended THEN sent ELSE mark
    BY <2>1, Zenon DEF EncodeData
  <2>3. ended => sent = mark
    BY DEF StreamPart, WriterStops
  <2> QED BY <1>0, <2>2, <2>3
<1>3. /\ Len(data') = Len(data) + 1 /\ Len(data) \in Nat
      /\ \A i \in 1..Len(data) : data'[i] = data[i]
      /\ data'[Len(data) + 1].type = t /\ data'[Len(data) + 1].off = sent
      /\ data'[Len(data) + 1].len = 0
      /\ \A i \in 1..Len(data) :
            data[i].off \in Nat /\ data[i].len \in Nat /\ data[i].off + data[i].len <= sent
  BY <1>0, OneMoreMessage DEF EncodeData
<1>4. ended => mark = sent
  BY DEF StreamPart, WriterStops
<1>5. PendingRun'
  BY DEF StreamPart, PendingRun
<1>6. EndsAtMark'
  BY <1>2, <1>3, <1>4 DEF StreamPart, EndsAtMark
<1>7. WriterStops'
  <2>1. t = "Close" => sentClose'["w"]
    BY <1>0 DEF FlowInv, Flags, Ends
  <2> QED BY <1>2, <2>1 DEF StreamPart, WriterStops
<1>8. LateBehindClose'
  <2>1. \A i \in 1..Len(data') : ~(data'[i].off + data'[i].len > mark')
    <3> SUFFICES ASSUME NEW i \in 1..Len(data') PROVE data'[i].off + data'[i].len <= sent
      BY <1>0, <1>2, <1>3
    <3>1. CASE i = Len(data) + 1
      BY <1>0, <1>3, <3>1
    <3>2. CASE i \in 1..Len(data)
      BY <1>3, <3>2
    <3> QED BY <1>3, <3>1, <3>2
  <2>2. ASSUME ~sentEOF' PROVE (Gone \/ CloseBefore(Len(data)))'
    <3>1. t = "Close"
      BY <2>2
    <3>2. Len(data') \in 1..Len(data') /\ data'[Len(data')].type = "Close"
      BY <1>3, <3>1
    <3> QED BY <3>2 DEF CloseBefore
  <2> HIDE DEF Gone, CloseBefore
  <2> QED BY <2>1, <2>2 DEF LateBehindClose
<1>9. HandedOver'
  <2>1. Len(got') + Len(pending') <= mark'
    BY <1>0, <1>2
  <2>2. ~Closing("r")'
    BY <1>1
  <2>3. bufClosed => err["r"] = "net" \/ (ended /\ Len(got) + Len(pending) = mark)
    BY DEF StreamPart, HandedOver
  <2>4. (bufClosed => err["r"] = "net" \/ (ended /\ Len(got) + Len(pending) = mark))'
    BY <1>2, <1>4, <2>3
  <2> QED BY <1>2, <2>1, <2>2, <2>4 DEF HandedOver
<1> QED BY <1>5, <1>6, <1>7, <1>8, <1>9 DEF StreamPart

(* A data packet is encoded: before the end, or behind a Close that the    *)
(* reading end has met or will meet first.                                 *)
LEMMA EncodePacket ==
    ASSUME StreamInv, WritePacket, EncodeData("Data", hold)
    PROVE  StreamPart'
<1> USE DEF StreamInv
<1>0. /\ FlowInv /\ DataClosed /\ sent \in Nat /\ hold \in Nat /\ hold > 0
      /\ mark \in Nat /\ sent >= mark
  BY DEF StrayInv, FlowInv, Numbers, Program, WritePacket, DataClosed
<1>1. /\ sent' = sent + hold /\ mark' = mark /\ wpc = "encode"
      /\ UNCHANGED <<got, pending, bufClosed, sentEOF, sentClose, known, loop, err>>
  BY DEF WritePacket, EncodeData, rvars, cvars
<1>2. ended' = ended
  BY <1>0, Zenon DEF EncodeData, FlowInv, Flags
<1>3. /\ Len(data') = Len(data) + 1 /\ Len(data) \in Nat
      /\ \A i \in 1..Len(data) : data'[i] = data[i]
      /\ data'[Len(data) + 1].type = "Data"
  BY <1>0, OneMoreMessage DEF EncodeData
<1>4. (Gone' <=> Gone) /\ (Closing("r")' <=> Closing("r"))
  BY <1>1 DEF Gone, Closing
<1>5. ~sentEOF
  BY <1>1 DEF StreamPart, WriterStops
<1>6. PendingRun' /\ HandedOver'
  BY <1>1, <1>2, <1>4 DEF StreamPart, PendingRun, HandedOver
<1>7. EndsAtMark'
  BY <1>1, <1>2, <1>3 DEF StreamPart, EndsAtMark
<1>8. WriterStops'
  BY <1>1, <1>2, <1>5 DEF StreamPart, WriterStops
<1>9. LateBehindClose'
  <2> SUFFICES ASSUME ended
               PROVE  /\ \A i \in 1..Len(data') :
                            data'[i].off + data'[i].len > mark => Gone \/ CloseBefore(i - 1)'
                      /\ Gone \/ CloseBefore(Len(data))'
    BY <1>1, <1>2, <1>4 DEF LateBehindClose
  <2>1. \A n \in 0..Len(data) : CloseBefore(n)' <=> CloseBefore(n)
    BY <1>3 DEF CloseBefore
  <2>2. Gone \/ CloseBefore(Len(data))
    BY <1>5 DEF StreamPart, LateBehindClose
  <2>3. CloseBefore(Len(data)) => \E j \in 1..Len(data') : data'[j].type = "Close"
    BY <1>3 DEF CloseBefore
  <2>4. ASSUME NEW i \in 1..Len(data'), data'[i].off + data'[i].len > mark
        PROVE  Gone \/ \E j \in 1..(i - 1) : data'[j].type = "Close"
    <3>1. CASE i = Len(data) + 1
      BY <1>3, <2>2, <3>1 DEF CloseBefore
    <3>2. CASE i \in 1..Len(data)
      <4>1. Gone \/ CloseBefore(i - 1)
        BY <1>3, <2>4, <3>2 DEF StreamPart, LateBehindClose
      <4> QED BY <1>3, <3>2, <4>1 DEF CloseBefore
    <3> QED BY <1>3, <3>1, <3>2
  <2> QED BY <2>2, <2>3, <2>4 DEF CloseBefore
<1> QED BY <1>6, <1>7, <1>8, <1>9 DEF StreamPart

(* Read takes the next bytes out of the buffer. *)
LEMMA ReadTakes ==
    ASSUME StreamInv, NEW k \in 1..min(MaxRead, Len(pending)),
           got' = got \o SubSeq(pending, 1, k),
           pending' = SubSeq(pending, k + 1, Len(pending))
    PROVE  /\ got' = got \o Run(Len(got), k)
           /\ Len(got') = Len(got) + k /\ Len(pending') = Len(pending) - k
           /\ k \in Nat /\ k > 0 /\ k <= Len(pending)
           /\ Len(got) \in Nat /\ Len(pending) \in Nat
           /\ Len(got') + Len(pending') = Len(got) + Len(pending)
           /\ PendingRun'
<1>0. got \in Seq(Nat) /\ pending \in Seq(Nat)
  BY DEF StreamInv, StrayInv, FlowInv, Wires
<1>1. PICK g \in Nat, n \in Nat : g = Len(got) /\ n = Len(pending)
  BY <1>0, LenProperties
<1>2. k \in Nat /\ k > 0 /\ k <= n
  BY <1>1, FlowAssumption DEF min
<1>3. \A i \in 1..n : pending[i] = g + i
  BY <1>1 DEF StreamInv, StreamPart, PendingRun
<1>4. /\ SubSeq(pending, 1, k) \in Seq(Nat) /\ Len(SubSeq(pending, 1, k)) = k
      /\ \A i \in 1..k : SubSeq(pending, 1, k)[i] = pending[i]
  <2>1. \A i \in 1..Len(pending) : pending[i] \in Nat
    BY <1>0, ElementOfSeq
  <2>2. /\ SubSeq(pending, 1, k) \in Seq(Nat) /\ Len(SubSeq(pending, 1, k)) = k
        /\ \A i \in 1..(k - 1 + 1) : SubSeq(pending, 1, k)[i] = pending[1 + i - 1]
    <3>1. \A i \in 1..k : pending[i] \in Nat
      BY <1>1, <1>2, <2>1
    <3> QED BY <1>2, <3>1, SubSeqProperties
  <2>3. k - 1 + 1 = k /\ \A i \in 1..k : 1 + i - 1 = i
    BY <1>2
  <2> QED BY <2>2, <2>3
<1>5. SubSeq(pending, 1, k) = Run(g, k)
  <2>1. SubSeq(pending, 1, k) = [i \in 1..k |-> SubSeq(pending, 1, k)[i]]
    BY <1>4
  <2>2. \A i \in 1..k : SubSeq(pending, 1, k)[i] = g + i
    BY <1>2, <1>3, <1>4
  <2> QED BY <2>1, <2>2 DEF Run
<1>6. Len(got') = g + k
  BY <1>0, <1>1, <1>4
<1>7. /\ Len(pending') = n - k
      /\ \A i \in 1..(n - k) : pending'[i] = pending[k + i]
  BY <1>0, <1>1, <1>2
<1>8. PendingRun'
  <2> SUFFICES ASSUME NEW i \in 1..(n - k) PROVE pending'[i] = (g + k) + i
    BY <1>6, <1>7 DEF PendingRun
  <2>1. k + i \in 1..n
    BY <1>2
  <2>2. pending'[i] = g + (k + i)
    BY <1>3, <1>7, <2>1
  <2>3. g + (k + i) = (g + k) + i
    BY <1>2
  <2> QED BY <2>2, <2>3
<1>9. (g + k) + (n - k) = g + n
  BY <1>2
<1> QED BY <1>1, <1>2, <1>5, <1>6, <1>7, <1>8, <1>9

LEMMA StreamReadBuffer ==
    ASSUME StreamInv, ReadBuffer
    PROVE  StreamPart'
<1>0. UNCHANGED <<data, sent, ended, mark, sentEOF, wpc, sentClose, known, loop, err, bufClosed>>
  BY DEF ReadBuffer, wvars, cvars, nvars
<1>1. (Gone' <=> Gone) /\ (Closing("r")' <=> Closing("r"))
  BY <1>0 DEF Gone, Closing
<1>2. CASE UNCHANGED <<got, pending>>
  BY <1>0, <1>1, <1>2, StreamFrame DEF StreamInv, StreamPart, WriterStops
<1>3. ASSUME NEW k \in 1..min(MaxRead, Len(pending)),
             got' = got \o SubSeq(pending, 1, k),
             pending' = SubSeq(pending, k + 1, Len(pending))
      PROVE  StreamPart'
  <2>1. PendingRun' /\ Len(got') + Len(pending') = Len(got) + Len(pending)
    BY <1>3, ReadTakes
  <2>2. EndsAtMark' /\ WriterStops'
    BY <1>0 DEF StreamInv, StreamPart, EndsAtMark, WriterStops
  <2>3. LateBehindClose'
    <3>1. \A n : CloseBefore(n)' <=> CloseBefore(n)
      BY <1>0 DEF CloseBefore
    <3> QED BY <1>0, <1>1, <3>1 DEF StreamInv, StreamPart, LateBehindClose
  <2>4. HandedOver'
    BY <1>0, <1>1, <2>1 DEF StreamInv, StreamPart, HandedOver
  <2> QED BY <2>1, <2>2, <2>3, <2>4 DEF StreamPart
<1> QED BY <1>2, <1>3 DEF ReadBuffer

(* Taking the first message off the wire keeps what is behind it in order. *)
LEMMA ReceiveShift ==
    ASSUME StreamInv, data # <<>>, data' = Tail(data),
           UNCHANGED <<ended, mark, sentEOF, sent, wpc, sentClose>>,
           Gone => Gone', data[1].type = "Close" => Gone'
    PROVE  EndsAtMark' /\ WriterStops' /\ LateBehindClose'
<1> USE DEF StreamInv, StreamPart
<1>1. /\ Len(data') = Len(data) - 1 /\ Len(data) \in Nat /\ Len(data) > 0
      /\ \A i \in 1..Len(data') : data'[i] = data[i + 1]
  BY HeadTailProperties, EmptySeq DEF StrayInv, FlowInv, Wires
<1>2. \A i \in 1..Len(data') : i + 1 \in 1..Len(data) /\ data'[i] = data[i + 1]
  BY <1>1
<1>3. EndsAtMark' /\ WriterStops'
  BY <1>2 DEF EndsAtMark, WriterStops
<1>4. ASSUME NEW n \in 1..Len(data), CloseBefore(n), ~Gone'
      PROVE  CloseBefore(n - 1)'
  <2>1. PICK j \in 1..n : data[j].type = "Close"
    BY <1>4 DEF CloseBefore
  <2>2. j # 1
    BY <1>4, <2>1
  <2>3. j - 1 \in 1..(n - 1) /\ j - 1 \in 1..Len(data') /\ (j - 1) + 1 = j
    BY <1>1, <2>2
  <2>4. data'[j - 1].type = "Close"
    BY <1>1, <2>1, <2>3
  <2> QED BY <2>3, <2>4 DEF CloseBefore
<1>5. ASSUME ended, ~Gone',
             NEW i \in 1..Len(data'), data'[i].off + data'[i].len > mark
      PROVE  CloseBefore(i - 1)'
  <2>1. CloseBefore((i + 1) - 1)
    <3> HIDE DEF Gone, CloseBefore
    <3> QED BY <1>2, <1>5 DEF LateBehindClose
  <2>2. (i + 1) - 1 = i /\ i \in 1..Len(data)
    BY <1>1
  <2>3. CloseBefore(i)
    BY <2>1, <2>2
  <2> QED BY <1>4, <1>5, <2>2, <2>3
<1>6. ASSUME ended, ~Gone', ~sentEOF PROVE CloseBefore(Len(data))'
  <2>1. CloseBefore(Len(data))
    <3> HIDE DEF Gone, CloseBefore
    <3> QED BY <1>6 DEF LateBehindClose
  <2>2. PICK n \in 1..Len(data) : n = Len(data) /\ n - 1 = Len(data')
    <3>1. Len(data) \in 1..Len(data) /\ Len(data) - 1 = Len(data')
      BY <1>1
    <3> QED BY <3>1, Zenon
  <2>3. CloseBefore(n - 1)'
    BY <1>4, <1>6, <2>1, <2>2
  <2> QED BY <2>2, <2>3 DEF CloseBefore
<1>7. LateBehindClose'
  <2>1. ended' = ended /\ mark' = mark /\ sentEOF' = sentEOF
    OBVIOUS
  <2>2. ended' => \A i \in 1..Len(data') :
            data'[i].off + data'[i].len > mark' => Gone' \/ CloseBefore(i - 1)'
    <3> HIDE DEF Gone, CloseBefore
    <3> QED BY <1>5, <2>1
  <2>3. ended' /\ ~sentEOF' => Gone' \/ CloseBefore(Len(data))'
    <3> HIDE DEF Gone, CloseBefore
    <3> QED BY <1>6, <2>1
  <2> QED BY <2>2, <2>3 DEF LateBehindClose, CloseBefore
<1> QED BY <1>3, <1>7

(* onePacket at the reading end: data goes to the buffer unless the reader *)
(* has seen Close; EOF and Close come after all that precedes them.        *)
LEMMA StreamReceiveData ==
    ASSUME StreamInv, FlowInv', ReceiveData
    PROVE  StreamPart'
<1> USE DEF StreamInv
<1>0. FlowInv /\ DataClosed /\ PendingRun /\ EndsAtMark /\ LateBehindClose /\ HandedOver
  BY DEF StrayInv, StreamPart
<1>1. /\ loop["r"] = "run" /\ data # <<>> /\ data' = Tail(data)
      /\ UNCHANGED <<ctl, sent, credited, ended, mark, got>>
      /\ err["r"] = "none"
  BY <1>0 DEF ReceiveData, FlowInv, Life, Ends
<1>2. Closing("r") <=> ~known["r"]
  BY <1>1 DEF Closing
<1>3. /\ Head(data) = data[1] /\ data[1] \in Messages({"Data", "EOF", "Close"})
      /\ data[1].off = Len(got) + Len(pending)
      /\ data[1].type # "Data" => data[1].len = 0
      /\ Len(data) \in Nat /\ 1 \in 1..Len(data)
  <2>1. Len(data) \in Nat /\ Len(data) > 0
    BY <1>0, <1>1, HeadTailProperties, EmptySeq DEF FlowInv, Wires
  <2> QED BY <1>0, <1>1, <2>1, DecodeDataStep DEF FlowInv, DataWire
<1>4. PICK o \in Nat, l \in Nat, g \in Nat, n \in Nat :
        o = data[1].off /\ l = data[1].len /\ g = Len(got) /\ n = Len(pending)
  BY <1>0, <1>3, LenProperties DEF Messages, FlowInv, Wires
<1>5. got \in Seq(Nat) /\ pending \in Seq(Nat) /\ o = g + n
  BY <1>0, <1>3, <1>4 DEF FlowInv, Wires
<1>6. CASE ~known["r"] /\ LoopExit("r", "invalidChannel")
  <2>1. UNCHANGED <<wvars, rvars, sentClose>> /\ err'["r"] = "invalidChannel" /\ loop'["r"] = "dropped"
    BY <1>0, <1>6 DEF LoopExit, FlowInv, Control, Ends
  <2>2. Gone' /\ ~Closing("r")'
    BY <2>1 DEF Gone, Closing
  <2>3. EndsAtMark' /\ WriterStops' /\ LateBehindClose'
    BY <1>1, <2>1, <2>2, ReceiveShift DEF wvars
  <2>4. PendingRun' /\ HandedOver'
    BY <1>0, <1>1, <2>1, <2>2 DEF PendingRun, HandedOver, rvars
  <2> QED BY <2>3, <2>4 DEF StreamPart
<1>7. CASE known["r"] /\ data[1].type = "Data" /\ HandleData(Head(data))
  <2>1. /\ pending' = pending \o Run(o, l)
        /\ UNCHANGED <<wvars, bufClosed, cvars>>
    <3>1. ~(LoopExit("r", "payload") \/ LoopExit("r", "tooMuch"))
      BY <1>0 DEF LoopExit, FlowInv, NoOverrun, Control, Ends
    <3> QED BY <1>3, <1>4, <1>7, <3>1 DEF HandleData
  <2>2. (Gone' <=> Gone) /\ ~Gone /\ ~Closing("r")'
    BY <1>1, <1>2, <1>7, <2>1 DEF Gone, Closing, cvars
  <2>3. EndsAtMark' /\ WriterStops' /\ LateBehindClose'
    BY <1>1, <1>7, <2>1, <2>2, ReceiveShift DEF wvars, cvars
  <2>4. ended => o + l <= mark
    <3>1. ~CloseBefore(1 - 1)
      BY DEF CloseBefore
    <3>2. ended => ~(o + l > mark)
      <4> HIDE DEF Gone, CloseBefore
      <4> QED BY <1>0, <1>3, <1>4, <2>2, <3>1 DEF LateBehindClose
    <3> QED BY <1>0, <3>2 DEF FlowInv, Numbers
  <2>5. /\ Run(o, l) \in Seq(Nat) /\ Len(Run(o, l)) = l
        /\ \A i \in 1..l : Run(o, l)[i] = o + i
    BY DEF Run
  <2>6. /\ Len(pending') = n + l
        /\ \A i \in 1..(n + l) : i <= n => pending'[i] = pending[i]
        /\ \A i \in 1..(n + l) : i > n => pending'[i] = Run(o, l)[i - n]
    <3>1. PICK r \in Seq(Nat) : r = Run(o, l)
      BY <2>5
    <3>2. /\ Len(pending \o r) = Len(pending) + Len(r)
          /\ \A i \in 1..Len(pending) + Len(r) :
                (pending \o r)[i] = IF i <= Len(pending) THEN pending[i] ELSE r[i - Len(pending)]
      BY <1>5, ConcatProperties
    <3>3. pending' = pending \o r /\ Len(pending) = n /\ Len(r) = l
      BY <1>4, <2>1, <2>5, <3>1
    <3>4. /\ Len(pending') = n + l
          /\ \A i \in 1..(n + l) : pending'[i] = IF i <= n THEN pending[i] ELSE r[i - n]
      BY <3>2, <3>3
    <3>5. \A i \in 1..(n + l) : i > n => ~(i <= n)
      OBVIOUS
    <3> HIDE DEF Run
    <3> QED BY <3>1, <3>4, <3>5
  <2>7. Len(got') + Len(pending') = o + l
    <3>1. Len(got') = g /\ Len(pending') = n + l
      BY <1>1, <1>4, <2>6
    <3>2. g + (n + l) = o + l
      BY <1>5
    <3> QED BY <3>1, <3>2
  <2>8. PendingRun'
    <3>0. Len(pending') = n + l /\ Len(got') = g
      BY <1>1, <1>4, <2>6
    <3>1. ASSUME NEW i \in 1..(n + l), i <= n PROVE pending'[i] = g + i
      <4>1. pending'[i] = pending[i]
        BY <2>6, <3>1
      <4>2. i \in 1..Len(pending)
        BY <1>4, <3>1
      <4>3. pending[i] = Len(got) + i
        BY <1>0, <4>2 DEF PendingRun
      <4> QED BY <1>4, <4>1, <4>3
    <3>2. ASSUME NEW i \in 1..(n + l), i > n PROVE pending'[i] = g + i
      <4>1. i - n \in 1..l /\ o + (i - n) = g + i
        BY <1>5, <3>2
      <4>2. pending'[i] = Run(o, l)[i - n]
        BY <2>6, <3>2
      <4>3. Run(o, l)[i - n] = o + (i - n)
        BY <2>5, <4>1
      <4> QED BY <4>1, <4>2, <4>3
    <3>3. \A i \in 1..(n + l) : i <= n \/ i > n
      OBVIOUS
    <3> QED BY <3>0, <3>1, <3>2, <3>3 DEF PendingRun
  <2>9. HandedOver'
    <3>1. bufClosed => ended /\ g + n = mark
      BY <1>0, <1>1, <1>4 DEF HandedOver
    <3>2. bufClosed => ended /\ o + l = mark
      BY <1>0, <1>5, <2>4, <3>1 DEF FlowInv, Numbers
    <3> QED BY <1>1, <2>1, <2>2, <2>4, <2>7, <3>2 DEF HandedOver
  <2> QED BY <2>3, <2>8, <2>9 DEF StreamPart
<1>8. ASSUME data[1].type # "Data" PROVE ended /\ Len(got) + Len(pending) = mark
  BY <1>0, <1>3, <1>8 DEF EndsAtMark
<1>9. CASE known["r"] /\ data[1].type = "EOF" /\ HandleEOF
  <2>1. bufClosed' /\ UNCHANGED <<wvars, pending, cvars>>
    BY <1>9 DEF HandleEOF
  <2>2. (Gone' <=> Gone) /\ ~Closing("r")'
    BY <1>1, <1>2, <1>9, <2>1 DEF Gone, Closing, cvars
  <2>3. EndsAtMark' /\ WriterStops' /\ LateBehindClose'
    BY <1>1, <1>9, <2>1, <2>2, ReceiveShift DEF wvars, cvars
  <2>4. PendingRun' /\ HandedOver'
    BY <1>0, <1>1, <1>8, <1>9, <2>1, <2>2 DEF PendingRun, HandedOver
  <2> QED BY <2>3, <2>4 DEF StreamPart
<1>10. CASE known["r"] /\ data[1].type = "Close" /\ HandleClose("r")
  <2>1. UNCHANGED <<wvars, rvars, sentClose, known, err>> /\ loop'["r"] = "reply"
    BY <1>0, <1>10 DEF HandleClose, FlowInv, Control, Ends
  <2>2. Gone'
    BY <2>1 DEF Gone, Closing
  <2>3. EndsAtMark' /\ WriterStops' /\ LateBehindClose'
    BY <1>1, <2>1, <2>2, ReceiveShift DEF wvars
  <2>4. PendingRun' /\ HandedOver'
    BY <1>0, <1>1, <1>8, <1>10, <2>1 DEF PendingRun, HandedOver, rvars
  <2> QED BY <2>3, <2>4 DEF StreamPart
<1> QED BY <1>3, <1>6, <1>7, <1>9, <1>10 DEF ReceiveData

(* Send of EOF or Close by the writing end: it is refused, it fails, or it *)
(* is encoded.                                                             *)
LEMMA StreamSendEnd ==
    ASSUME StreamInv, NEW t \in {"EOF", "Close"}, Send("w", t, 0),
           t = "EOF" => ~sentEOF /\ sentEOF', sentEOF => sentEOF', sentEOF' => wpc' = "idle",
           UNCHANGED <<got, pending, bufClosed, known, err>>, Closing("r")' <=> Closing("r")
    PROVE  StreamPart'
<1>1. Gone' <=> Gone
  BY DEF Gone
<1>2. CASE UNCHANGED nvars
  <2>1. sentClose["w"] => sentClose'["w"]
    BY DEF Send
  <2> QED BY <1>1, <1>2, <2>1, StreamFrame DEF StreamInv, nvars
<1>3. CASE /\ ~sentClose["w"] /\ sentClose' = [sentClose EXCEPT !["w"] = (t = "Close")]
           /\ EncodeData(t, 0)
  BY <1>1, <1>3, EncodeEnd
<1> QED BY <1>2, <1>3 DEF Send, Encode

(* Every step keeps the invariant. *)
LEMMA StreamStep == StreamInv /\ [Next]_vars => StreamInv'
<1> SUFFICES ASSUME StreamInv, [Next]_vars PROVE StreamInv'
  OBVIOUS
<1>0. StrayInv' /\ FlowInv' /\ FlowInv
  BY StrayStep DEF StreamInv, StrayInv
<1>1. SUFFICES StreamPart'
  BY <1>0 DEF StreamInv
<1>2. StreamPart /\ WriterStops
  BY DEF StreamInv, StreamPart
<1>3. CASE UNCHANGED <<cvars, nvars, got, pending, bufClosed>> /\ sentEOF' = sentEOF /\ (sentEOF => wpc' = "idle")
  <2>1. (Gone' <=> Gone) /\ (Closing("r")' <=> Closing("r"))
    BY <1>3 DEF Gone, Closing, cvars
  <2> QED BY <1>2, <1>3, <2>1, StreamFrame DEF cvars, nvars
<1>4. ASSUME \/ \E n \in 1..MaxBytes : WriteCall(n)
             \/ Reserve \/ ReadCall \/ AdjustWindow \/ UNCHANGED vars
      PROVE  /\ UNCHANGED <<cvars, nvars, got, pending, bufClosed>>
             /\ sentEOF' = sentEOF /\ (sentEOF => wpc' = "idle")
  BY <1>2, <1>4 DEF WriteCall, Reserve, ReadCall, AdjustWindow, vars, cvars, nvars, rvars, wvars,
                    WriterStops
<1>5. CASE WritePacket
  <2>1. CASE EncodeData("Data", hold)
    BY <1>5, <2>1, EncodePacket
  <2>2. CASE UNCHANGED nvars /\ wpc' = "idle"
    BY <1>3, <1>5, <2>2 DEF WritePacket, rvars
  <2> QED BY <1>5, <2>1, <2>2 DEF WritePacket
<1>6. CASE CloseWrite
  <2>1. /\ Send("w", "EOF", 0) /\ ~sentEOF /\ sentEOF' /\ wpc' = "idle"
        /\ UNCHANGED <<got, rvars, known, loop, err>>
    BY <1>6 DEF CloseWrite
  <2>2. Closing("r")' <=> Closing("r")
    BY <2>1 DEF Closing
  <2> QED BY <2>1, <2>2, StreamSendEnd DEF rvars
<1>7. CASE ReadBuffer
  BY <1>7, StreamReadBuffer
<1>8. CASE ReceiveData
  BY <1>0, <1>8, StreamReceiveData
<1>9. CASE Close("w") \/ ReplyClose("w")
  <2>1. Send("w", "Close", 0) /\ UNCHANGED <<got, wvars, rvars, known, err>> /\ loop'["r"] = loop["r"]
    BY <1>0, <1>9 DEF Close, ReplyClose, FlowInv, Control, Ends
  <2>2. Closing("r")' <=> Closing("r")
    BY <2>1 DEF Closing
  <2> QED BY <1>2, <2>1, <2>2, StreamSendEnd DEF rvars, wvars, WriterStops
<1>10. CASE SendAdjust \/ Close("r") \/ ReplyClose("r")
  <2>1. /\ UNCHANGED <<wvars, pending, bufClosed, known, err, got, data, sent, ended, mark>>
        /\ sentClose'["w"] = sentClose["w"]
        /\ loop'["r"] = loop["r"] \/ (loop["r"] = "reply" /\ loop'["r"] = "closing")
    BY <1>0, <1>10 DEF SendAdjust, Close, ReplyClose, Send, Encode, EncodeCtl, nvars, rvars,
                       FlowInv, Control, Flags, Ends
  <2>2. (Gone' <=> Gone) /\ (Closing("r")' <=> Closing("r"))
    BY <2>1 DEF Gone, Closing
  <2> QED BY <1>2, <2>1, <2>2, StreamFrame DEF wvars, WriterStops
<1>11. CASE ReceiveCtl
  <2>1. known["w"]
    BY <1>11 DEF StreamInv, StrayInv, CtlClosed, Closing, ReceiveCtl, FlowInv, Life, Ends
  <2>2. ~LoopExit("w", "window")
    BY <1>0 DEF LoopExit, FlowInv, NoOverrun, Control, Ends
  <2>3. /\ UNCHANGED <<pending, bufClosed, known, err, sentClose, got, data, sent, ended, mark, sentEOF>>
        /\ loop'["r"] = loop["r"] /\ (wpc = "idle" => wpc' = "idle")
    BY <1>0, <1>11, <2>1, <2>2 DEF ReceiveCtl, HandleAdjust, HandleClose, WakeWriter, rvars, wvars, cvars,
                             FlowInv, Control, Ends
  <2>4. (Gone' <=> Gone) /\ (Closing("r")' <=> Closing("r"))
    BY <2>3 DEF Gone, Closing
  <2> QED BY <1>2, <2>3, <2>4, StreamFrame DEF WriterStops
<1>12. ASSUME NEW e \in Ends, FinishClose(e) \/ CloseTransport(e) \/ SessionClose(e)
       PROVE  StreamPart'
  <2>1. /\ UNCHANGED <<nvars, got, pending, err, sentEOF>>
        /\ sentClose["w"] => sentClose'["w"]
        /\ wpc = "idle" => wpc' = "idle"
    BY <1>0, <1>12 DEF FinishClose, CloseTransport, SessionClose, CloseChannel, WakeWriter,
                       WakeReader, rvars, wvars, FlowInv, Flags, Ends
  <2>2. Closing("r")' <=> Closing("r")
    BY <1>0, <1>12 DEF FinishClose, CloseTransport, SessionClose, Closing, FlowInv, Flags, Control, Life, Ends
  <2>3. Gone' <=> Gone
    BY <2>1, <2>2 DEF Gone
  <2>4. bufClosed' => bufClosed \/ Closing("r")
    BY <1>0, <1>12 DEF FinishClose, CloseTransport, SessionClose, CloseChannel, Closing, rvars, Ends
  <2> QED BY <1>2, <2>1, <2>2, <2>3, <2>4, StreamFrame DEF nvars, WriterStops
<1>13. ASSUME NEW e \in Ends, ReadError(e) \/ NetFault(e) PROVE StreamPart'
  <2>1. /\ LoopExit(e, "net") /\ UNCHANGED <<nvars, got>> /\ loop[e] = "run" /\ err[e] = "none"
    BY <1>0, <1>13 DEF ReadError, NetFault, FlowInv, Life
  <2>2. /\ UNCHANGED <<pending, sentEOF>>
        /\ sentClose["w"] => sentClose'["w"]
        /\ wpc = "idle" => wpc' = "idle"
        /\ bufClosed' => bufClosed \/ e = "r"
    BY <1>0, <2>1 DEF LoopExit, CloseChannel, WakeWriter, WakeReader, rvars, wvars, FlowInv,
                      Flags, Ends
  <2>3. /\ e = "r" => err'["r"] = "net" /\ loop'["r"] = "dropped"
        /\ e # "r" => err'["r"] = err["r"] /\ loop'["r"] = loop["r"] /\ known'["r"] = known["r"]
    BY <1>0, <2>1 DEF LoopExit, FlowInv, Control, Flags, Ends
  <2>4. (Gone => Gone') /\ (Closing("r")' => Closing("r"))
    BY <2>3 DEF Gone, Closing
  <2> QED BY <1>2, <2>1, <2>2, <2>3, <2>4, StreamFrame DEF nvars, WriterStops
<1> QED BY <1>3, <1>4, <1>5, <1>6, <1>7, <1>8, <1>9, <1>10, <1>11, <1>12, <1>13
        DEF Next, Writer, Reader, Loop, Ends
-----------------------------------------------------------------------------
(* A step that changes none of the variables of the abstract stream. *)
LEMMA StreamStutters ==
    ASSUME UNCHANGED <<sent, ended, mark, got>>,
           (err'["r"] = "net") <=> (err["r"] = "net"), (rpc' = "eof") <=> (rpc = "eof")
    PROVE  UNCHANGED Stream!vars
  BY DEF Stream!vars

(* A data packet is encoded: Write.  EOF or Close: End, or nothing new. *)
LEMMA EncodeImplements ==
    ASSUME StreamInv, NEW t \in {"Data", "EOF", "Close"}, NEW n \in Nat,
           EncodeData(t, n), (t = "Data") = (n > 0), UNCHANGED <<got, err, rpc>>
    PROVE  Stream!Write \/ Stream!End \/ UNCHANGED Stream!vars
<1>0. sent \in Nat /\ ended \in BOOLEAN
  BY DEF StreamInv, StrayInv, FlowInv, Numbers, Flags
<1>1. /\ sent' = sent + n
      /\ mark' = IF t # "Data" /\ ~ended THEN sent ELSE mark
  BY DEF EncodeData
<1>2. ended' = (ended \/ t # "Data")
  BY DEF EncodeData
<1>3. CASE t = "Data"
  <2>1. ended' = ended
    BY <1>0, <1>2, <1>3, Zenon
  <2>2. sent' \in Nat /\ sent' > sent
    BY <1>0, <1>1, <1>3
  <2> QED BY <1>1, <1>3, <2>1, <2>2 DEF Stream!Write
<1>4. CASE t # "Data" /\ ~ended
  <2>1. ended' = TRUE
    BY <1>2, <1>4, Zenon
  <2>2. sent' = sent /\ mark' = sent
    BY <1>0, <1>1, <1>4
  <2> QED BY <1>4, <2>1, <2>2 DEF Stream!End
<1>5. CASE t # "Data" /\ ended
  <2>1. ended' = ended
    BY <1>0, <1>2, <1>5, Zenon
  <2>2. sent' = sent /\ mark' = mark
    BY <1>0, <1>1, <1>5
  <2> QED BY <2>1, <2>2, StreamStutters
<1> QED BY <1>3, <1>4, <1>5

(* buffer.Read: Read of what is next, or ReadEOF when all is read. *)
LEMMA ReadBufferImplements ==
    ASSUME StreamInv, ReadBuffer
    PROVE  Stream!Read \/ Stream!ReadEOF \/ UNCHANGED Stream!vars
<1>0. /\ FlowInv /\ HandedOver
      /\ UNCHANGED <<sent, ended, mark, err>> /\ rpc = "read"
  BY DEF StreamInv, StreamPart, StrayInv, ReadBuffer, cvars, nvars
<1>1. ASSUME NEW k \in 1..min(MaxRead, Len(pending)),
             got' = got \o SubSeq(pending, 1, k),
             pending' = SubSeq(pending, k + 1, Len(pending)), rpc' = "adjust"
      PROVE  Stream!Read
  <2>1. /\ got' = got \o Run(Len(got), k) /\ k \in Nat /\ k > 0 /\ k <= Len(pending)
        /\ Len(got) \in Nat /\ Len(pending) \in Nat
    BY <1>1, ReadTakes
  <2>2. k \in 1..(Stream!Readable - Len(got))
    <3>1. Len(got) + Len(pending) <= Stream!Readable /\ Stream!Readable \in Nat
      BY <1>0 DEF Stream!Readable, HandedOver, FlowInv, DataWire, Numbers
    <3> HIDE DEF Stream!Readable
    <3> QED BY <2>1, <3>1
  <2>3. got' = got \o Stream!Run(Len(got), k)
    BY <2>1 DEF Run, Stream!Run
  <2> QED BY <1>0, <1>1, <2>2, <2>3 DEF Stream!Read
<1>2. ASSUME pending = <<>>, bufClosed, rpc' = "eof", UNCHANGED got
      PROVE  Stream!ReadEOF
  <2>1. err["r"] = "net" \/ (ended /\ Len(got) = mark)
    BY <1>0, <1>2 DEF HandedOver, FlowInv, Wires
  <2> QED BY <1>0, <1>2, <2>1 DEF Stream!ReadEOF
<1>3. ASSUME rpc' = "wait", UNCHANGED got PROVE UNCHANGED Stream!vars
  BY <1>0, <1>3, StreamStutters
<1> QED BY <1>0, <1>1, <1>2, <1>3 DEF ReadBuffer

(* The reader's loop ends for want of its transport: Break. *)
LEMMA LoopExitImplements ==
    ASSUME FlowInv, NEW e \in Ends, loop[e] = "run", LoopExit(e, "net"), UNCHANGED <<nvars, got>>
    PROVE  Stream!Break \/ UNCHANGED Stream!vars
<1>1. (rpc' = "eof") <=> (rpc = "eof")
  BY DEF LoopExit, CloseChannel, WakeReader, rvars
<1>2. CASE e = "r"
  <2>1. err'["r"] = "net"
    BY <1>2 DEF LoopExit, FlowInv, Control
  <2> QED BY <1>1, <2>1 DEF Stream!Break, nvars
<1>3. CASE e # "r"
  <2>1. err'["r"] = err["r"]
    BY <1>3 DEF LoopExit, FlowInv, Control, Ends
  <2> QED BY <1>1, <2>1, StreamStutters DEF nvars
<1> QED BY <1>2, <1>3

(* Channel.send of anything but data. *)
LEMMA SendImplements ==
    ASSUME StreamInv, NEW e \in Ends, NEW t \in {"EOF", "Close", "WindowAdjust"}, NEW n \in Nat,
           e = "w" => n = 0 /\ t # "WindowAdjust", Send(e, t, n),
           UNCHANGED <<got, err>>, (rpc' = "eof") <=> (rpc = "eof"), e = "w" => rpc' = rpc
    PROVE  Stream!Write \/ Stream!End \/ UNCHANGED Stream!vars
<1>1. CASE UNCHANGED nvars
  BY <1>1, StreamStutters DEF nvars
<1>2. CASE e = "w" /\ EncodeData(t, n)
  BY <1>2, EncodeImplements
<1>3. CASE e = "r" /\ EncodeCtl(t, n)
  BY <1>3, StreamStutters DEF EncodeCtl
<1> QED BY <1>1, <1>2, <1>3 DEF Send, Encode, Ends

(* Every step of the channel is a step of the abstract stream, or none. *)
LEMMA ImplementsStep == StreamInv /\ [Next]_vars => [Stream!Next]_(Stream!vars)
<1> SUFFICES ASSUME StreamInv, [Next]_vars
             PROVE  \/ Stream!Write \/ Stream!End \/ Stream!Read \/ Stream!ReadEOF
                    \/ Stream!Break \/ UNCHANGED Stream!vars
  BY DEF Stream!Next
<1> HIDE DEF Stream!Write, Stream!End, Stream!Read, Stream!ReadEOF, Stream!Break, Stream!vars
<1>0. FlowInv /\ FlowInv'
  BY FlowStep DEF StreamInv, StrayInv
<1>1. ASSUME \/ \E n \in 1..MaxBytes : WriteCall(n)
             \/ Reserve \/ ReadCall \/ AdjustWindow \/ UNCHANGED vars
             \/ \E e \in Ends : FinishClose(e) \/ CloseTransport(e) \/ SessionClose(e)
      PROVE  UNCHANGED Stream!vars
  <2>1. UNCHANGED <<sent, ended, mark, got, err>> /\ ((rpc' = "eof") <=> (rpc = "eof"))
    BY <1>1 DEF WriteCall, Reserve, ReadCall, AdjustWindow, vars, cvars, nvars, rvars,
                FinishClose, CloseChannel, WakeReader, CloseTransport, SessionClose
  <2> QED BY <2>1, StreamStutters
<1>2. ASSUME WritePacket PROVE Stream!Write \/ Stream!End \/ UNCHANGED Stream!vars
  <2>1. UNCHANGED <<got, err, rpc>> /\ hold \in Nat /\ hold > 0
    BY <1>0, <1>2 DEF WritePacket, rvars, cvars, FlowInv, Numbers, Program
  <2>2. CASE EncodeData("Data", hold)
    <3>1. ("Data" = "Data") = (hold > 0)
      BY <2>1
    <3> QED BY <2>1, <2>2, <3>1, EncodeImplements
  <2>3. CASE UNCHANGED nvars
    BY <2>1, <2>3, StreamStutters DEF nvars
  <2> QED BY <1>2, <2>2, <2>3 DEF WritePacket
<1>3. ASSUME \/ CloseWrite \/ SendAdjust
             \/ \E e \in Ends : Close(e) \/ ReplyClose(e)
      PROVE  Stream!Write \/ Stream!End \/ UNCHANGED Stream!vars
  <2>1. CASE CloseWrite
    BY <2>1, SendImplements DEF CloseWrite, rvars, Ends
  <2>2. CASE SendAdjust
    <3>1. taken \in Nat
      BY <1>0 DEF FlowInv, Numbers
    <3> QED BY <2>2, <3>1, SendImplements DEF SendAdjust, Ends
  <2>3. ASSUME NEW e \in Ends, Close(e) \/ ReplyClose(e)
        PROVE  Stream!Write \/ Stream!End \/ UNCHANGED Stream!vars
    BY <2>3, SendImplements DEF Close, ReplyClose, rvars
  <2> QED BY <1>3, <2>1, <2>2, <2>3
<1>4. ASSUME ReadBuffer PROVE Stream!Read \/ Stream!ReadEOF \/ UNCHANGED Stream!vars
  BY <1>4, ReadBufferImplements
<1>5. ASSUME NEW e \in Ends, ReadError(e) \/ NetFault(e) PROVE Stream!Break \/ UNCHANGED Stream!vars
  BY <1>0, <1>5, LoopExitImplements DEF ReadError, NetFault
<1>6. ASSUME ReceiveData PROVE UNCHANGED Stream!vars
  <2>1. UNCHANGED <<sent, ended, mark, got>> /\ err["r"] = "none"
    BY <1>0, <1>6 DEF ReceiveData, FlowInv, Life, Ends
  <2>2. (rpc' = "eof") <=> (rpc = "eof")
    BY <1>6 DEF ReceiveData, LoopExit, HandleData, HandleEOF, HandleClose, CloseChannel, WakeReader, rvars
  <2>3. err'["r"] # "net"
    BY <1>0, <1>6, <2>1 DEF ReceiveData, LoopExit, HandleData, HandleEOF, HandleClose, cvars,
                            FlowInv, Control, Ends
  <2> QED BY <2>1, <2>2, <2>3, StreamStutters
<1>7. ASSUME ReceiveCtl PROVE UNCHANGED Stream!vars
  <2>1. UNCHANGED <<sent, ended, mark, got, rpc>>
    BY <1>7 DEF ReceiveCtl, LoopExit, HandleAdjust, HandleClose, CloseChannel, rvars
  <2>2. err'["r"] = err["r"]
    BY <1>0, <1>7 DEF ReceiveCtl, LoopExit, HandleAdjust, HandleClose, cvars, FlowInv, Control, Ends
  <2> QED BY <2>1, <2>2, StreamStutters
<1> QED BY <1>1, <1>2, <1>3, <1>4, <1>5, <1>6, <1>7 DEF Next, Writer, Reader, Loop

(* Every behaviour of the channel is one of the stream that api.go:21      *)
(* promises, "ordered, reliable": Read (util_buffer.go:60) returns the     *)
(* bytes given to Write in order, each once, and io.EOF only after all     *)
(* that preceded EOF or Close, unless the reader's transport has failed.   *)
(* It holds for every window, packet size and uint32 modulus.              *)
THEOREM FlowImplementsStream == Spec => ImplementsStream
<1>1. Init => Stream!Init
  BY DEF Init, Stream!Init, Ends
<1> QED BY <1>1, StreamInit, StreamStep, ImplementsStep, PTL DEF Spec, ImplementsStream, Stream!Spec
=============================================================================

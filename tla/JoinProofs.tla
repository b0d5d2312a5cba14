------------------------------ MODULE JoinProofs ------------------------------
(***************************************************************************)
(* Proofs about JoinEncrypted of Join, for any length of the buffer and    *)
(* any number of bytes.  What has been written is not inductive: the       *)
(* invariant also says what each reader and writer holds, where it stands  *)
(* in its stream, and what a cell that a Read has filled can hold while    *)
(* the other reader stores into the same buffer.                           *)
(***************************************************************************)
EXTENDS Join, TLAPS

Bytes == {"zero", "down", "up"} \X Nat

(* The types that TypeOK leaves open. *)
DataTypes ==
    /\ got \in [Dirs -> Nat]
    /\ part \in [Dirs -> Seq(Bytes)]
    /\ data \in [Dirs -> [r : Seq(Bytes), w : Seq(Bytes)]]
    /\ out \in [Dirs -> Seq(Bytes)]
    /\ buffer \in [1..Cells -> Bytes]

(* A Read that is under way holds the last bytes that came in; a goroutine *)
(* that holds nothing offers nothing.                                      *)
Holds(d) ==
    /\ \A i \in 1..Len(part[d]) : part[d][i] = <<d, got[d] - Len(part[d]) + i>>
    /\ Len(part[d]) <= got[d]
    /\ left[d] \subseteq 1..Len(part[d])
    /\ rpc[d] \in {"work", "open"} => left[d] = {}
    /\ rpc[d] \notin {"copy", "work", "open", "failed"} => part[d] = <<>>
    /\ rpc[d] # "send" => data[d].r = <<>>
    /\ wpc[d] # "write" => data[d].w = <<>>

(* A cell that the Read has filled keeps its byte, or the other reader has *)
(* stored one of its own there; that is a race.  The ciphertext of a       *)
(* packet whose tag was accepted is there, or has been torn.               *)
Filled(d) ==
    /\ rpc[d] # "failed" =>
          \A i \in (1..Len(part[d])) \ left[d] :
              buffer[i] = part[d][i] \/ (raced /\ buffer[i] \in {Other(d)} \X Nat)
    /\ rpc[d] = "open" =>
          d = "up" /\ Len(part[d]) = 2 /\ (torn \/ buffer[2] = part[d][2])

(* The n-th byte of out is byte Place(d, n) of the source.  A live writer *)
(* continues what is written, a reader what the writer holds, and nothing  *)
(* that came in is missing between them.                                   *)
Place(d, n) == IF d = "up" THEN 2 * n ELSE n

Continues(d) ==
    LET o == Len(out[d])
        w == Len(data[d].w)
        r == Len(data[d].r)
    IN  /\ \A i \in 1..w : data[d].w[i] = <<d, Place(d, o + i)>>
        /\ \A i \in 1..r : data[d].r[i] = <<d, Place(d, o + w + i)>>
        /\ ~Closed(d) => got[d] = Place(d, o + w + r) + Len(part[d])

Written(d) == \A i \in 1..Len(out[d]) : out[d][i] = <<d, Place(d, i)>>

(* The overlap that a direction does not survive has not happened. *)
Clean(d) == IF d = "up" THEN ~torn ELSE ~raced

Flows(d) ==
    Clean(d) => Written(d) /\ (wpc[d] # "failed" => Continues(d))

JoinInv ==
    /\ TypeOK /\ DataTypes
    /\ \A d \in Dirs : Holds(d) /\ Filled(d) /\ Flows(d)

LEMMA PlaceNat ==
    ASSUME NEW d, NEW n \in Nat
    PROVE  Place(d, n) \in Nat
BY DEF Place

(* The lengths of what a direction has written and holds. *)
LEMMA Lengths ==
    ASSUME DataTypes, NEW d \in Dirs
    PROVE  \E o \in Nat, w \in Nat, r \in Nat :
               o = Len(out[d]) /\ w = Len(data[d].w) /\ r = Len(data[d].r)
<1>1. Len(out[d]) \in Nat
  BY DEF DataTypes
<1>2. Len(data[d].w) \in Nat
  BY DEF DataTypes
<1>3. Len(data[d].r) \in Nat
  BY DEF DataTypes
<1> QED BY <1>1, <1>2, <1>3

(* Nothing has come in. *)
LEMMA JoinInit == Init => JoinInv
<1> SUFFICES ASSUME Init PROVE JoinInv
  OBVIOUS
<1>1. DataTypes
  <2>1. buffer \in [1..Cells -> Bytes]
    BY JoinAssumption DEF Init, Bytes
  <2>2. <<>> \in Seq(Bytes)
    OBVIOUS
  <2>3. /\ got \in [Dirs -> Nat] /\ part \in [Dirs -> Seq(Bytes)] /\ out \in [Dirs -> Seq(Bytes)]
    BY <2>2 DEF Init
  <2>4. data \in [Dirs -> [r : Seq(Bytes), w : Seq(Bytes)]]
    BY <2>2 DEF Init
  <2> QED BY <2>1, <2>3, <2>4 DEF DataTypes
<1>2. TypeOK
  <2>1. \A d \in Dirs : got[d] <= Most(d) /\ Len(part[d]) <= Cells
    BY JoinAssumption DEF Init, Most
  <2>2. /\ plain \in BOOLEAN /\ raced \in BOOLEAN /\ torn \in BOOLEAN
        /\ fin \cup gone \cup shut \subseteq {"ch", "conn"} /\ DOMAIN buffer = 1..Cells
    BY DEF Init
  <2>3. /\ rpc \in [Dirs -> {"read", "copy", "work", "open", "send", "done", "failed"}]
        /\ left \in [Dirs -> SUBSET (1..Cells)]
        /\ wpc \in [Dirs -> {"recv", "write", "closeCh", "closeConn", "done", "failed"}]
    BY DEF Init
  <2> QED BY <2>1, <2>2, <2>3 DEF TypeOK
<1>3. ASSUME NEW d \in Dirs PROVE Holds(d) /\ Filled(d) /\ Flows(d)
  <2>1. /\ part[d] = <<>> /\ left[d] = {} /\ got[d] = 0 /\ out[d] = <<>>
        /\ data[d].r = <<>> /\ data[d].w = <<>> /\ rpc[d] = "read"
    BY <1>3 DEF Init
  <2> QED BY <2>1 DEF Holds, Filled, Flows, Clean, Written, Continues, Place, Closed
<1> QED BY <1>1, <1>2, <1>3 DEF JoinInv

(* What a step leaves alone of a direction. *)
SameReader(d) == part'[d] = part[d] /\ left'[d] = left[d] /\ rpc'[d] = rpc[d] /\ got'[d] = got[d]
SameWriter(d) == wpc'[d] = wpc[d] /\ out'[d] = out[d]

(* A direction that a step leaves alone keeps its part of the invariant. *)
LEMMA Frame ==
    ASSUME NEW d \in Dirs, Holds(d), Filled(d), Flows(d),
           SameReader(d), SameWriter(d), data'[d] = data[d], UNCHANGED <<buffer, raced, torn>>
    PROVE  Holds(d)' /\ Filled(d)' /\ Flows(d)'
<1>1. Holds(d)'
  BY DEF Holds, SameReader, SameWriter
<1>2. Filled(d)'
  BY DEF Filled, SameReader
<1>3. Flows(d)'
  BY DEF Flows, Clean, Written, Continues, Closed, SameReader, SameWriter
<1> QED BY <1>1, <1>2, <1>3

(* The peers stop or go; the caller closes an end or starts to. *)
LEMMA EndsStep ==
    ASSUME JoinInv,
           \/ \E d \in Dirs : Finish(d)
           \/ \E e \in {"ch", "conn"} : Leave(e)
           \/ CloseEnds
    PROVE  JoinInv'
<1>1. /\ UNCHANGED <<plain, got, buffer, rpc, part, left, data, out, raced, torn>>
      /\ fin' \cup gone' \cup shut' \subseteq {"ch", "conn"}
  BY DEF Finish, Leave, CloseEnds, WithClosed, reader, races, JoinInv, TypeOK, Src
<1>2. \/ wpc' = wpc
      \/ /\ wpc["up"] \in {"closeCh", "closeConn"}
         /\ \/ wpc' = [wpc EXCEPT !["up"] = "closeConn"]
            \/ wpc' = [wpc EXCEPT !["up"] = "done"]
  BY DEF Finish, Leave, CloseEnds, WriterAt
<1>3. TypeOK' /\ DataTypes'
  <2>1. wpc' \in [Dirs -> {"recv", "write", "closeCh", "closeConn", "done", "failed"}]
    BY <1>2 DEF JoinInv, TypeOK
  <2> QED BY <1>1, <2>1 DEF JoinInv, TypeOK, DataTypes
<1>4. ASSUME NEW d \in Dirs PROVE Holds(d)' /\ Filled(d)' /\ Flows(d)'
  <2>0. Holds(d) /\ Filled(d) /\ Flows(d)
    BY <1>4 DEF JoinInv
  <2>1. \/ wpc'[d] = wpc[d]
        \/ wpc[d] \in {"closeCh", "closeConn"} /\ wpc'[d] \in {"closeConn", "done"}
    BY <1>2, <1>4 DEF JoinInv, TypeOK
  <2>2. Holds(d)' /\ Filled(d)'
    BY <1>1, <2>0, <2>1 DEF Holds, Filled
  <2>3. Flows(d)'
    BY <1>1, <2>0, <2>1 DEF Flows, Clean, Written, Continues, Closed
  <2> QED BY <2>2, <2>3
<1> QED BY <1>3, <1>4 DEF JoinInv

(* A Read returns: its bytes follow what came in before. *)
LEMMA ReadBytesStep ==
    ASSUME JoinInv, NEW d \in Dirs, ReadBytes(d)
    PROVE  JoinInv'
<1>1. PICK n \in ReadSizes(d) :
          /\ part' = [part EXCEPT ![d] = [i \in 1..n |-> <<d, got[d] + i>>]]
          /\ left' = [left EXCEPT ![d] = 1..n]
          /\ got' = [got EXCEPT ![d] = @ + n]
  BY DEF ReadBytes
<1>2. /\ rpc[d] = "read" /\ rpc' = [rpc EXCEPT ![d] = "copy"]
      /\ UNCHANGED <<plain, fin, gone, shut, buffer, wpc, data, out, raced, torn>>
  BY DEF ReadBytes, ReaderAt, ends, races
<1>3. /\ n \in Nat \ {0} /\ n <= Cells /\ n <= Most(d) - got[d] /\ Most(d) \in Nat
      /\ got[d] \in Nat /\ got[d] <= Most(d)
  BY <1>1, JoinAssumption DEF ReadSizes, JoinInv, DataTypes, TypeOK, Most
<1>4. [i \in 1..n |-> <<d, got[d] + i>>] \in Seq(Bytes)
  <2>1. \A i \in 1..n : <<d, got[d] + i>> \in Bytes
    BY <1>3 DEF Bytes, Dirs
  <2> QED BY <1>3, <2>1
<1>5. DataTypes'
  BY <1>1, <1>2, <1>3, <1>4 DEF JoinInv, DataTypes
<1>6. TypeOK'
  <2>1. rpc' \in [Dirs -> {"read", "copy", "work", "open", "send", "done", "failed"}]
    BY <1>2 DEF JoinInv, TypeOK
  <2>2. left' \in [Dirs -> SUBSET (1..Cells)]
    BY <1>1, <1>3, JoinAssumption DEF JoinInv, TypeOK
  <2>3. \A k \in Dirs : got'[k] <= Most(k) /\ Len(part'[k]) <= Cells
    BY <1>1, <1>3 DEF JoinInv, TypeOK, DataTypes
  <2> QED BY <1>2, <2>1, <2>2, <2>3 DEF JoinInv, TypeOK
<1>7. ASSUME NEW k \in Dirs PROVE Holds(k)' /\ Filled(k)' /\ Flows(k)'
  <2>0. Holds(k) /\ Filled(k) /\ Flows(k)
    BY <1>7 DEF JoinInv
  <2>1. CASE k # d
    <3>1. SameReader(k) /\ SameWriter(k) /\ data'[k] = data[k]
      BY <1>1, <1>2, <2>1 DEF SameReader, SameWriter, JoinInv, DataTypes, TypeOK
    <3> QED BY <1>2, <2>0, <3>1, Frame
  <2>2. CASE k = d
    <3>1. /\ part'[d] = [i \in 1..n |-> <<d, got[d] + i>>] /\ left'[d] = 1..n
          /\ got'[d] = got[d] + n /\ rpc'[d] = "copy" /\ Len(part'[d]) = n
      BY <1>1, <1>2, <1>3 DEF JoinInv, DataTypes, TypeOK
    <3>2. part[d] = <<>> /\ data[d].r = <<>> /\ (wpc[d] # "write" => data[d].w = <<>>)
      BY <1>2, <2>0, <2>2 DEF Holds
    <3>3. Holds(d)'
      BY <1>2, <1>3, <3>1, <3>2 DEF Holds
    <3>4. Filled(d)'
      BY <3>1 DEF Filled
    <3>5. Flows(d)'
      <4>1. Written(d)' <=> Written(d)
        BY <1>2 DEF Written
      <4>2. Continues(d) => Continues(d)'
        <5> SUFFICES ASSUME Continues(d) PROVE Continues(d)'
          OBVIOUS
        <5>1. PICK o \in Nat, w \in Nat, r \in Nat :
                  o = Len(out[d]) /\ w = Len(data[d].w) /\ r = Len(data[d].r)
          BY Lengths DEF JoinInv
        <5>2. got[d] = Place(d, o + w + r) + Len(part[d])
          BY <1>2, <5>1 DEF Continues, Closed
        <5>3. Place(d, o + w + r) \in Nat
          BY PlaceNat
        <5>4. got'[d] = Place(d, o + w + r) + Len(part'[d])
          BY <1>3, <3>1, <3>2, <5>2, <5>3
        <5> QED BY <1>2, <5>1, <5>4 DEF Continues
      <4> QED BY <1>2, <2>0, <2>2, <4>1, <4>2 DEF Flows, Clean
    <3> QED BY <2>2, <3>3, <3>4, <3>5
  <2> QED BY <2>1, <2>2
<1> QED BY <1>5, <1>6, <1>7 DEF JoinInv

(* The source ends, or a writer's range loop does: nobody holds anything   *)
(* that was not held before.                                               *)
LEMMA StopStep ==
    ASSUME JoinInv, NEW d \in Dirs, ReadEnd(d) \/ RangeEnds(d)
    PROVE  JoinInv'
<1>1. UNCHANGED <<plain, fin, gone, shut, got, buffer, part, left, data, out, raced, torn>>
  BY DEF ReadEnd, RangeEnds, ends, reader, races
<1>2. /\ rpc \in [Dirs -> {"read", "copy", "work", "open", "send", "done", "failed"}]
      /\ wpc \in [Dirs -> {"recv", "write", "closeCh", "closeConn", "done", "failed"}]
  BY DEF JoinInv, TypeOK
<1>3. \/ wpc' = wpc /\ rpc[d] = "read" /\ rpc' = [rpc EXCEPT ![d] = "done"]
      \/ /\ rpc' = rpc /\ wpc[d] = "recv"
         /\ \/ wpc' = [wpc EXCEPT ![d] = "done"]
            \/ wpc' = [wpc EXCEPT ![d] = "closeCh"]
  BY DEF ReadEnd, RangeEnds, ReaderAt, WriterAt, reader, races
<1>4. TypeOK' /\ DataTypes'
  <2>1. /\ rpc' \in [Dirs -> {"read", "copy", "work", "open", "send", "done", "failed"}]
        /\ wpc' \in [Dirs -> {"recv", "write", "closeCh", "closeConn", "done", "failed"}]
    BY <1>2, <1>3
  <2> QED BY <1>1, <2>1 DEF JoinInv, TypeOK, DataTypes
<1>5. ASSUME NEW k \in Dirs PROVE Holds(k)' /\ Filled(k)' /\ Flows(k)'
  <2>0. Holds(k) /\ Filled(k) /\ Flows(k)
    BY <1>5 DEF JoinInv
  <2>1. /\ \/ rpc'[k] = rpc[k]
           \/ rpc[k] = "read" /\ rpc'[k] = "done"
        /\ \/ wpc'[k] = wpc[k]
           \/ wpc[k] = "recv" /\ wpc'[k] \in {"done", "closeCh"}
    BY <1>2, <1>3, <1>5
  <2>2. Holds(k)'
    BY <1>1, <2>0, <2>1 DEF Holds
  <2>3. Filled(k)'
    BY <1>1, <2>0, <2>1 DEF Filled
  <2>4. Flows(k)'
    BY <1>1, <2>0, <2>1 DEF Flows, Clean, Written, Continues, Closed
  <2> QED BY <2>2, <2>3, <2>4
<1> QED BY <1>4, <1>5 DEF JoinInv

(* The bytes of a Read fit the buffer. *)
LEMMA Cell ==
    ASSUME JoinInv, NEW k \in Dirs, NEW j \in 1..Len(part[k])
    PROVE  j \in 1..Cells
<1>1. Len(part[k]) \in Nat /\ Len(part[k]) <= Cells
  BY DEF JoinInv, TypeOK, DataTypes
<1> QED BY <1>1, JoinAssumption

(* A Read stores a byte.  A cell that the other reader has filled is lost  *)
(* to it, and the race is recorded.                                        *)
LEMMA CopyStep ==
    ASSUME JoinInv, NEW d \in Dirs, NEW i \in 1..Cells, Copy(d, i)
    PROVE  JoinInv'
<1>1. /\ UNCHANGED <<plain, fin, gone, shut, got, part, wpc, data, out>>
      /\ rpc[d] = "copy" /\ i \in left[d]
      /\ buffer' = [buffer EXCEPT ![i] = part[d][i]]
      /\ left' = [left EXCEPT ![d] = @ \ {i}]
      /\ raced' = (raced \/ rpc[Other(d)] \in {"copy", "work", "open"})
      /\ torn' = (torn \/ rpc[Other(d)] = "open")
      /\ \/ left[d] = {i} /\ rpc' = [rpc EXCEPT ![d] = "work"]
         \/ left[d] # {i} /\ rpc' = rpc
  BY DEF Copy, ends, ReaderAt
<1>2. /\ rpc \in [Dirs -> {"read", "copy", "work", "open", "send", "done", "failed"}]
      /\ left \in [Dirs -> SUBSET (1..Cells)] /\ raced \in BOOLEAN /\ torn \in BOOLEAN
      /\ buffer \in [1..Cells -> Bytes] /\ part \in [Dirs -> Seq(Bytes)]
      /\ got \in [Dirs -> Nat]
  BY DEF JoinInv, TypeOK, DataTypes
<1>3. /\ i \in 1..Len(part[d]) /\ part[d][i] = <<d, got[d] - Len(part[d]) + i>>
      /\ Len(part[d]) <= got[d]
  BY <1>1 DEF JoinInv, Holds
<1>4. part[d][i] \in Bytes /\ part[d][i] \in {d} \X Nat
  <2>1. part[d] \in Seq(Bytes) /\ got[d] \in Nat
    BY <1>2
  <2>2. part[d][i] \in Bytes
    BY <1>3, <2>1
  <2>3. Len(part[d]) \in Nat
    BY <2>1
  <2>4. got[d] - Len(part[d]) + i \in Nat
    BY <1>3, <2>1, <2>3
  <2> QED BY <1>3, <2>2, <2>4
<1>5. buffer' \in [1..Cells -> Bytes]
  BY <1>1, <1>2, <1>4
<1>6. /\ rpc' \in [Dirs -> {"read", "copy", "work", "open", "send", "done", "failed"}]
      /\ left' \in [Dirs -> SUBSET (1..Cells)]
  BY <1>1, <1>2
<1>7. TypeOK' /\ DataTypes'
  BY <1>1, <1>2, <1>5, <1>6 DEF JoinInv, TypeOK, DataTypes
<1>8. ASSUME NEW k \in Dirs PROVE Holds(k)' /\ Filled(k)' /\ Flows(k)'
  <2>0. Holds(k) /\ Filled(k) /\ Flows(k)
    BY <1>8 DEF JoinInv
  <2>1. Holds(k)'
    <3>1. CASE k = d
      BY <1>1, <1>2, <2>0, <3>1 DEF Holds
    <3>2. CASE k # d
      <4>1. left'[k] = left[k] /\ rpc'[k] = rpc[k]
        BY <1>1, <1>2, <3>2
      <4> QED BY <1>1, <2>0, <4>1 DEF Holds
    <3> QED BY <3>1, <3>2
  <2>2. Filled(k)'
    <3>1. CASE k = d
      <4>1. /\ rpc'[d] \in {"copy", "work"} /\ part'[d] = part[d]
            /\ left'[d] = left[d] \ {i} /\ rpc[d] = "copy"
        BY <1>1, <1>2
      <4>2. ASSUME NEW j \in (1..Len(part[d])) \ left'[d]
            PROVE  \/ buffer'[j] = part[d][j]
                   \/ raced' /\ buffer'[j] \in {Other(d)} \X Nat
        <5>0. j \in 1..Cells
          BY Cell
        <5>1. CASE j = i
          BY <1>1, <1>2, <5>0, <5>1
        <5>2. CASE j # i
          <6>1. buffer'[j] = buffer[j] /\ j \in (1..Len(part[d])) \ left[d]
            BY <1>1, <1>2, <4>1, <4>2, <5>0, <5>2
          <6> QED BY <1>1, <2>0, <3>1, <4>1, <6>1 DEF Filled
        <5> QED BY <5>1, <5>2
      <4> QED BY <3>1, <4>1, <4>2 DEF Filled
    <3>2. CASE k # d
      <4>1. /\ d = Other(k) /\ k = Other(d)
            /\ rpc'[k] = rpc[k] /\ part'[k] = part[k] /\ left'[k] = left[k]
        BY <1>1, <1>2, <3>2 DEF Dirs, Other
      <4>2. ASSUME rpc[k] # "failed", NEW j \in (1..Len(part[k])) \ left[k]
            PROVE  \/ buffer'[j] = part[k][j]
                   \/ raced' /\ buffer'[j] \in {Other(k)} \X Nat
        <5>0. j \in 1..Cells
          BY Cell
        <5>1. CASE j = i
          <6>1. rpc[k] \in {"copy", "work", "open"}
            <7>1. part[k] # <<>>
              BY <4>2
            <7> QED BY <1>2, <2>0, <4>2, <7>1 DEF Holds
          <6>2. buffer'[j] = part[d][i]
            BY <1>1, <1>2, <5>1
          <6> QED BY <1>1, <1>4, <4>1, <6>1, <6>2
        <5>2. CASE j # i
          <6>1. buffer'[j] = buffer[j]
            BY <1>1, <1>2, <5>0, <5>2
          <6> QED BY <1>1, <2>0, <4>2, <6>1 DEF Filled
        <5> QED BY <5>1, <5>2
      <4>3. ASSUME rpc[k] = "open"
            PROVE  k = "up" /\ Len(part[k]) = 2 /\ torn'
        <5>1. torn'
          BY <1>1, <4>1, <4>3
        <5> QED BY <2>0, <4>3, <5>1 DEF Filled
      <4> QED BY <4>1, <4>2, <4>3 DEF Filled
    <3> QED BY <3>1, <3>2
  <2>3. Flows(k)'
    <3>1. Closed(k)' <=> Closed(k)
      BY <1>1, <1>2 DEF Closed
    <3>2. raced => raced'
      BY <1>1
    <3> QED BY <1>1, <2>0, <3>1, <3>2 DEF Flows, Clean, Written, Continues
  <2> QED BY <2>1, <2>2, <2>3
<1> QED BY <1>7, <1>8 DEF JoinInv

(* What Seal returns: the bytes of the Read, unless the buffer was shared  *)
(* at the wrong moment.                                                    *)
LEMMA SealExact ==
    ASSUME JoinInv, NEW d \in Dirs, rpc[d] = "work", NEW n \in Nat, n = Len(part[d])
    PROVE  /\ Seal(n) \in Seq(Bytes) /\ Len(Seal(n)) = n
           /\ ~raced => \A i \in 1..n : Seal(n)[i] = <<d, got[d] - n + i>>
<1>1. buffer \in Seq(Bytes) /\ Len(buffer) = Cells /\ n <= Cells
  BY JoinAssumption DEF JoinInv, DataTypes, TypeOK
<1>2. /\ Seal(n) \in Seq(Bytes) /\ Len(Seal(n)) = n
      /\ \A i \in 1..n : Seal(n)[i] = buffer[i]
  BY <1>1, JoinAssumption DEF Seal
<1>3. ~raced => \A i \in 1..n : buffer[i] = part[d][i]
  BY DEF JoinInv, Filled, Holds
<1>4. \A i \in 1..n : part[d][i] = <<d, got[d] - n + i>>
  BY DEF JoinInv, Holds
<1> QED BY <1>2, <1>3, <1>4

(* What is accepted is the one packet that this Read took: bytes that the  *)
(* other reader stored are not of a packet.                                *)
LEMMA AcceptedIsRead ==
    ASSUME JoinInv, rpc["up"] = "work", NEW n \in Nat, n = Len(part["up"]), Authentic(n)
    PROVE  n = 2 /\ buffer[2] = part["up"][2]
<1>0. "up" \in Dirs
  BY DEF Dirs
<1>1. PICK p \in 1..(MaxUp \div 2) : buffer[2] = <<"up", 2*p>>
  BY DEF Authentic
<1>2. n = 2
  BY DEF Authentic
<1>3. left["up"] = {}
  BY <1>0 DEF JoinInv, Holds
<1>4. buffer[2] = part["up"][2] \/ buffer[2] \in {Other("up")} \X Nat
  <2>1. Filled("up")
    BY <1>0 DEF JoinInv
  <2>2. 2 \in (1..Len(part["up"])) \ left["up"]
    BY <1>2, <1>3
  <2> QED BY <2>1, <2>2 DEF Filled
<1>5. buffer[2] \notin {Other("up")} \X Nat
  BY <1>1 DEF Other
<1> QED BY <1>2, <1>4, <1>5

(* A reader offers x to its writer, in place of the n bytes of its Read. *)
Offers(d, x) ==
    /\ rpc[d] \in {"work", "open"}
    /\ rpc' = [rpc EXCEPT ![d] = "send"]
    /\ data' = [data EXCEPT ![d].r = x]
    /\ part' = [part EXCEPT ![d] = <<>>]
    /\ UNCHANGED <<plain, fin, gone, shut, got, buffer, left, wpc, out, raced, torn>>

Exact(d, n, x) ==
    Clean(d) =>
        \/ d = "down" /\ Len(x) = n /\ \A i \in 1..n : x[i] = <<d, got[d] - n + i>>
        \/ d = "up" /\ n = 2 /\ x = << <<d, got[d]>> >>

LEMMA OffersStep ==
    ASSUME JoinInv, NEW d \in Dirs, NEW n \in Nat, n = Len(part[d]),
           NEW x \in Seq(Bytes), Offers(d, x), Exact(d, n, x)
    PROVE  JoinInv'
<1>0. DataTypes /\ got[d] \in Nat /\ Holds(d) /\ Flows(d)
  BY DEF JoinInv, DataTypes
<1>2. /\ data' = [data EXCEPT ![d].r = x]
      /\ rpc' = [rpc EXCEPT ![d] = "send"]
  BY DEF Offers
<1>3. /\ rpc[d] \in {"work", "open"} /\ part' = [part EXCEPT ![d] = <<>>]
      /\ UNCHANGED <<plain, fin, gone, shut, got, buffer, left, wpc, out, raced, torn>>
  BY DEF Offers
<1>4. PICK o \in Nat, w \in Nat, r \in Nat :
          o = Len(out[d]) /\ w = Len(data[d].w) /\ r = Len(data[d].r)
  BY <1>0, Lengths
<1>5. r = 0 /\ (wpc[d] # "write" => data[d].w = <<>>) /\ left[d] = {}
  BY <1>0, <1>3, <1>4 DEF Holds
<1>6. Clean(d) /\ wpc[d] # "failed" => got[d] = Place(d, o + w) + n
  <2>1. o + w + r = o + w
    BY <1>5
  <2>2. Clean(d) /\ wpc[d] # "failed" => got[d] = Place(d, o + w + r) + n
    BY <1>0, <1>3, <1>4 DEF Flows, Clean, Continues, Closed
  <2> QED BY <2>1, <2>2
<1>7. Clean(d) /\ wpc[d] # "failed" =>
          /\ \A i \in 1..Len(x) : x[i] = <<d, Place(d, o + w + i)>>
          /\ got[d] = Place(d, o + w + Len(x))
  <2> SUFFICES ASSUME Clean(d), wpc[d] # "failed"
               PROVE  /\ \A i \in 1..Len(x) : x[i] = <<d, Place(d, o + w + i)>>
                      /\ got[d] = Place(d, o + w + Len(x))
    OBVIOUS
  <2>1. CASE d = "down" /\ Len(x) = n /\ \A i \in 1..n : x[i] = <<d, got[d] - n + i>>
    <3>1. got[d] = o + w + n
      BY <1>6, <2>1 DEF Place
    <3>2. ASSUME NEW i \in 1..n PROVE x[i] = <<d, Place(d, o + w + i)>>
      <4>1. got[d] - n + i = o + w + i
        BY <3>1
      <4>2. Place(d, o + w + i) = o + w + i
        BY <2>1 DEF Place
      <4> QED BY <2>1, <4>1, <4>2
    <3>3. Place(d, o + w + n) = o + w + n
      BY <2>1 DEF Place
    <3> QED BY <2>1, <3>1, <3>2, <3>3
  <2>2. CASE d = "up" /\ n = 2 /\ x = << <<d, got[d]>> >>
    <3>1. Len(x) = 1 /\ x[1] = <<d, got[d]>>
      BY <2>2
    <3>2. got[d] = Place(d, o + w + 1)
      <4>1. got[d] = Place(d, o + w) + 2
        BY <1>6, <2>2
      <4>2. Place(d, o + w) = 2 * (o + w) /\ Place(d, o + w + 1) = 2 * (o + w + 1)
        BY <2>2 DEF Place
      <4>3. 2 * (o + w) + 2 = 2 * (o + w + 1)
        OBVIOUS
      <4> QED BY <4>1, <4>2, <4>3
    <3>3. \A i \in 1..1 : i = 1
      OBVIOUS
    <3> QED BY <3>1, <3>2, <3>3
  <2> QED BY <2>1, <2>2 DEF Exact
<1>8. data' \in [Dirs -> [r : Seq(Bytes), w : Seq(Bytes)]]
  BY <1>0, <1>2 DEF DataTypes
<1>9. /\ part' \in [Dirs -> Seq(Bytes)]
      /\ rpc' \in [Dirs -> {"read", "copy", "work", "open", "send", "done", "failed"}]
  BY <1>0, <1>2, <1>3 DEF DataTypes, JoinInv, TypeOK
<1>10. TypeOK' /\ DataTypes'
  <2>1. \A k \in Dirs : Len(part'[k]) <= Cells
    BY <1>0, <1>3, JoinAssumption DEF JoinInv, TypeOK, DataTypes
  <2> QED BY <1>0, <1>3, <1>8, <1>9, <2>1 DEF JoinInv, TypeOK, DataTypes
<1>11. ASSUME NEW k \in Dirs PROVE Holds(k)' /\ Filled(k)' /\ Flows(k)'
  <2>0. Holds(k) /\ Filled(k) /\ Flows(k)
    BY <1>11 DEF JoinInv
  <2>1. CASE k # d
    <3>1. SameReader(k) /\ SameWriter(k) /\ data'[k] = data[k]
      BY <1>2, <1>3, <2>1 DEF SameReader, SameWriter, JoinInv, DataTypes, TypeOK
    <3> QED BY <1>3, <2>0, <3>1, Frame
  <2>2. CASE k = d
    <3>1. /\ data'[d].r = x /\ data'[d].w = data[d].w /\ part'[d] = <<>> /\ left'[d] = {}
          /\ rpc'[d] = "send"
      BY <1>0, <1>2, <1>3, <1>5 DEF DataTypes, JoinInv, TypeOK
    <3>2. Holds(d)'
      BY <1>0, <1>3, <1>5, <3>1 DEF Holds
    <3>3. Filled(d)'
      BY <3>1 DEF Filled
    <3>4. Flows(d)'
      <4>1. Written(d)' <=> Written(d)
        BY <1>3 DEF Written
      <4>2. ASSUME Clean(d), wpc[d] # "failed" PROVE Continues(d)'
        <5>1. Len(out'[d]) = o /\ Len(data'[d].w) = w /\ got'[d] = got[d] /\ Len(part'[d]) = 0
          BY <1>3, <1>4, <3>1
        <5>2. \A i \in 1..w : data'[d].w[i] = <<d, Place(d, o + i)>>
          BY <1>0, <1>4, <3>1, <4>2 DEF Flows, Continues
        <5>3. \A i \in 1..Len(x) : data'[d].r[i] = <<d, Place(d, o + w + i)>>
          BY <1>7, <3>1, <4>2
        <5>4. got'[d] = Place(d, o + w + Len(x)) + 0
          <6>1. got[d] = Place(d, o + w + Len(x)) /\ got[d] \in Nat
            BY <1>0, <1>3, <1>7, <4>2 DEF Clean
          <6> QED BY <5>1, <6>1
        <5> QED BY <3>1, <5>1, <5>2, <5>3, <5>4 DEF Continues
      <4> QED BY <1>0, <1>3, <4>1, <4>2 DEF Flows, Clean
    <3> QED BY <2>2, <3>2, <3>3, <3>4
  <2> QED BY <2>1, <2>2
<1> QED BY <1>10, <1>11 DEF JoinInv

(* A reader fails with its bytes, or goes on to decrypt them. *)
LEMMA TurnStep ==
    ASSUME JoinInv, NEW d \in Dirs, rpc[d] = "work", NEW pc \in {"failed", "open"},
           rpc' = [rpc EXCEPT ![d] = pc],
           UNCHANGED <<plain, fin, gone, shut, got, buffer, part, left, wpc, data, out,
                       raced, torn>>,
           pc = "open" => d = "up" /\ Len(part[d]) = 2 /\ buffer[2] = part[d][2]
    PROVE  JoinInv'
<1>1. rpc \in [Dirs -> {"read", "copy", "work", "open", "send", "done", "failed"}]
  BY DEF JoinInv, TypeOK
<1>2. TypeOK' /\ DataTypes'
  <2>1. rpc' \in [Dirs -> {"read", "copy", "work", "open", "send", "done", "failed"}]
    BY <1>1
  <2> QED BY <2>1 DEF JoinInv, TypeOK, DataTypes
<1>3. ASSUME NEW k \in Dirs PROVE Holds(k)' /\ Filled(k)' /\ Flows(k)'
  <2>0. Holds(k) /\ Filled(k) /\ Flows(k)
    BY <1>3 DEF JoinInv
  <2>1. rpc'[k] = rpc[k] \/ (k = d /\ rpc[k] = "work" /\ rpc'[k] = pc)
    BY <1>1
  <2>2. Holds(k)'
    BY <2>0, <2>1 DEF Holds
  <2>3. Filled(k)'
    BY <2>0, <2>1 DEF Filled
  <2>4. Flows(k)'
    BY <2>0, <2>1 DEF Flows, Clean, Written, Continues, Closed
  <2> QED BY <2>2, <2>3, <2>4
<1> QED BY <1>2, <1>3 DEF JoinInv

(* The transformation of what a Read returned. *)
LEMMA WorkStep ==
    ASSUME JoinInv, NEW d \in Dirs, Work(d)
    PROVE  JoinInv'
<1>0. rpc[d] = "work" /\ part[d] \in Seq(Bytes)
  BY DEF Work, JoinInv, DataTypes
<1>1. PICK n \in Nat : n = Len(part[d])
  BY <1>0
<1>2. CASE d = "down" /\ data' = [data EXCEPT ![d].r = Seal(n)] /\ part' = [part EXCEPT ![d] = <<>>]
           /\ ReaderAt(d, "send")
  <2>1. /\ Seal(n) \in Seq(Bytes) /\ Len(Seal(n)) = n
        /\ ~raced => \A i \in 1..n : Seal(n)[i] = <<d, got[d] - n + i>>
    BY <1>0, <1>1, SealExact
  <2>2. Offers(d, Seal(n))
    BY <1>0, <1>2 DEF Offers, Work, ReaderAt, ends, races
  <2>3. Exact(d, n, Seal(n))
    BY <1>2, <2>1 DEF Exact, Clean
  <2> QED BY <1>1, <2>1, <2>2, <2>3, OffersStep
<1>3. CASE ReaderAt(d, "failed") /\ UNCHANGED <<part, data>>
  BY <1>0, <1>3, TurnStep DEF Work, ReaderAt, ends, races
<1>4. CASE d = "up" /\ Authentic(n) /\ ReaderAt(d, "open") /\ UNCHANGED <<part, data>>
  <2>1. n = 2 /\ buffer[2] = part[d][2]
    BY <1>0, <1>1, <1>4, AcceptedIsRead
  <2> QED BY <1>0, <1>1, <1>4, <2>1, TurnStep DEF Work, ReaderAt, ends, races
<1> QED BY <1>1, <1>2, <1>3, <1>4 DEF Work

(* The credit of a Read could not be announced. *)
LEMMA ReadDroppedStep ==
    ASSUME JoinInv, ReadDropped
    PROVE  JoinInv'
<1>1. "down" \in Dirs
  BY DEF Dirs
<1> QED BY <1>1, TurnStep DEF ReadDropped, ReaderAt, ends, races

(* The packet is decrypted: as it was when its tag was accepted, or torn. *)
LEMMA DecryptStep ==
    ASSUME JoinInv, Decrypt
    PROVE  JoinInv'
<1>0. "up" \in Dirs /\ rpc["up"] = "open"
  BY DEF Dirs, Decrypt
<1>1. /\ Len(part["up"]) = 2 /\ Holds("up")
      /\ torn \/ buffer[2] = part["up"][2]
  BY <1>0 DEF JoinInv, Filled
<1>2. PICK g \in Nat : g = got["up"]
  BY <1>0 DEF JoinInv, DataTypes
<1>3. part["up"][2] = <<"up", g>>
  <2>1. part["up"][2] = <<"up", g - 2 + 2>>
    BY <1>1, <1>2 DEF Holds
  <2>2. g - 2 + 2 = g
    OBVIOUS
  <2> QED BY <2>1, <2>2
<1>4. <<buffer[2]>> \in Seq(Bytes)
  <2>1. buffer[2] \in Bytes
    BY JoinAssumption DEF JoinInv, DataTypes
  <2> QED BY <2>1
<1>5. Offers("up", <<buffer[2]>>)
  BY <1>0 DEF Offers, Decrypt, ReaderAt, ends, races
<1>6. Exact("up", 2, <<buffer[2]>>)
  BY <1>1, <1>2, <1>3 DEF Exact, Clean
<1> QED BY <1>0, <1>1, <1>4, <1>5, <1>6, OffersStep

(* The Go channel between reader and writer. *)
LEMMA HandOverStep ==
    ASSUME JoinInv, NEW d \in Dirs, HandOver(d)
    PROVE  JoinInv'
<1>0. DataTypes /\ Holds(d) /\ Flows(d)
  BY DEF JoinInv
<1>1. /\ rpc[d] = "send" /\ wpc[d] = "recv"
      /\ data' = [data EXCEPT ![d] = [r |-> <<>>, w |-> data[d].r]]
      /\ rpc' = [rpc EXCEPT ![d] = "read"] /\ wpc' = [wpc EXCEPT ![d] = "write"]
      /\ UNCHANGED <<plain, fin, gone, shut, got, buffer, part, left, out, raced, torn>>
  BY DEF HandOver, ReaderAt, WriterAt, ends, races
<1>2. data[d].r \in Seq(Bytes) /\ part[d] = <<>> /\ data[d].w = <<>>
  BY <1>0, <1>1 DEF DataTypes, Holds
<1>3. data' \in [Dirs -> [r : Seq(Bytes), w : Seq(Bytes)]]
  <2>1. [r |-> <<>>, w |-> data[d].r] \in [r : Seq(Bytes), w : Seq(Bytes)]
    BY <1>2
  <2> QED BY <1>0, <1>1, <2>1 DEF DataTypes
<1>4. /\ rpc' \in [Dirs -> {"read", "copy", "work", "open", "send", "done", "failed"}]
      /\ wpc' \in [Dirs -> {"recv", "write", "closeCh", "closeConn", "done", "failed"}]
  BY <1>1 DEF JoinInv, TypeOK
<1>5. TypeOK' /\ DataTypes'
  BY <1>0, <1>1, <1>3, <1>4 DEF JoinInv, TypeOK, DataTypes
<1>6. ASSUME NEW k \in Dirs PROVE Holds(k)' /\ Filled(k)' /\ Flows(k)'
  <2>0. Holds(k) /\ Filled(k) /\ Flows(k)
    BY <1>6 DEF JoinInv
  <2>1. CASE k # d
    <3>1. SameReader(k) /\ SameWriter(k) /\ data'[k] = data[k]
      BY <1>1, <2>1 DEF SameReader, SameWriter, JoinInv, DataTypes, TypeOK
    <3> QED BY <1>1, <2>0, <3>1, Frame
  <2>2. CASE k = d
    <3>1. /\ data'[d].r = <<>> /\ data'[d].w = data[d].r
          /\ rpc'[d] = "read" /\ wpc'[d] = "write"
      BY <1>0, <1>1 DEF DataTypes, JoinInv, TypeOK
    <3>2. Holds(d)'
      BY <1>0, <1>1, <1>2, <3>1 DEF Holds
    <3>3. Filled(d)'
      BY <1>1, <2>0, <2>2 DEF Filled
    <3>4. Flows(d)'
      <4>1. Written(d)' <=> Written(d)
        BY <1>1 DEF Written
      <4>2. ASSUME Clean(d) PROVE Continues(d)'
        <5>0. PICK o \in Nat, w \in Nat, r \in Nat :
                  o = Len(out[d]) /\ w = Len(data[d].w) /\ r = Len(data[d].r)
          BY <1>0, Lengths
        <5>1. /\ w = 0 /\ Len(out'[d]) = o /\ Len(data'[d].w) = r /\ Len(data'[d].r) = 0
              /\ got'[d] = got[d] /\ part'[d] = part[d]
          BY <1>1, <1>2, <3>1, <5>0
        <5>2. /\ \A i \in 1..r : data[d].r[i] = <<d, Place(d, o + w + i)>>
              /\ got[d] = Place(d, o + w + r) + Len(part[d])
          BY <1>0, <1>1, <4>2, <5>0 DEF Flows, Clean, Continues, Closed
        <5>3. o + w + r = o + r + 0 /\ \A i \in 1..r : o + w + i = o + i
          BY <5>1
        <5>4. /\ \A i \in 1..r : data'[d].w[i] = <<d, Place(d, o + i)>>
              /\ got'[d] = Place(d, o + r + 0) + Len(part'[d])
          BY <3>1, <5>1, <5>2, <5>3
        <5> QED BY <5>1, <5>4 DEF Continues
      <4> QED BY <1>0, <1>1, <4>1, <4>2 DEF Flows, Clean
    <3> QED BY <2>2, <3>2, <3>3, <3>4
  <2> QED BY <2>1, <2>2
<1> QED BY <1>5, <1>6 DEF JoinInv

(* A writer writes what it holds, or fails and drops it for good. *)
LEMMA WriteStep ==
    ASSUME JoinInv, NEW d \in Dirs, Write(d)
    PROVE  JoinInv'
<1>0. DataTypes /\ Holds(d) /\ Flows(d)
  BY DEF JoinInv
<1>1. /\ wpc[d] = "write" /\ data' = [data EXCEPT ![d].w = <<>>]
      /\ \/ /\ out' = [out EXCEPT ![d] = out[d] \o data[d].w]
            /\ wpc' = [wpc EXCEPT ![d] = "recv"]
         \/ out' = out /\ wpc' = [wpc EXCEPT ![d] = "failed"]
      /\ UNCHANGED <<plain, fin, gone, shut, got, buffer, rpc, part, left, raced, torn>>
  BY DEF Write, WriterAt, AfterWrite, ends, reader, races
<1>2. out[d] \in Seq(Bytes) /\ data[d].w \in Seq(Bytes) /\ data[d].r \in Seq(Bytes)
  BY <1>0 DEF DataTypes
<1>3. data' \in [Dirs -> [r : Seq(Bytes), w : Seq(Bytes)]] /\ out' \in [Dirs -> Seq(Bytes)]
  <2>1. out[d] \o data[d].w \in Seq(Bytes)
    BY <1>2
  <2>2. out' \in [Dirs -> Seq(Bytes)]
    BY <1>0, <1>1, <2>1 DEF DataTypes
  <2>3. <<>> \in Seq(Bytes)
    OBVIOUS
  <2>4. data' \in [Dirs -> [r : Seq(Bytes), w : Seq(Bytes)]]
    BY <1>0, <1>1, <2>3 DEF DataTypes
  <2> QED BY <2>2, <2>4
<1>4. wpc' \in [Dirs -> {"recv", "write", "closeCh", "closeConn", "done", "failed"}]
  BY <1>1 DEF JoinInv, TypeOK
<1>5. TypeOK' /\ DataTypes'
  BY <1>0, <1>1, <1>3, <1>4 DEF JoinInv, TypeOK, DataTypes
<1>6. ASSUME NEW k \in Dirs PROVE Holds(k)' /\ Filled(k)' /\ Flows(k)'
  <2>0. Holds(k) /\ Filled(k) /\ Flows(k)
    BY <1>6 DEF JoinInv
  <2>1. CASE k # d
    <3>1. SameReader(k) /\ SameWriter(k) /\ data'[k] = data[k]
      BY <1>1, <2>1 DEF SameReader, SameWriter, JoinInv, DataTypes, TypeOK
    <3> QED BY <1>1, <2>0, <3>1, Frame
  <2>2. CASE k = d
    <3>1. data'[d].r = data[d].r /\ data'[d].w = <<>>
      BY <1>0, <1>1 DEF DataTypes
    <3>2. Holds(d)'
      BY <1>0, <1>1, <3>1 DEF Holds
    <3>3. Filled(d)'
      BY <1>1, <2>0, <2>2 DEF Filled
    <3>4. CASE out' = out /\ wpc' = [wpc EXCEPT ![d] = "failed"]
      <4>1. wpc'[d] = "failed" /\ (Written(d)' <=> Written(d))
        BY <3>4 DEF Written, JoinInv, TypeOK
      <4> QED BY <1>0, <1>1, <2>2, <3>2, <3>3, <4>1 DEF Flows, Clean
    <3>5. CASE /\ out' = [out EXCEPT ![d] = out[d] \o data[d].w]
               /\ wpc' = [wpc EXCEPT ![d] = "recv"]
      <4>1. PICK o \in Nat, w \in Nat, r \in Nat :
                o = Len(out[d]) /\ w = Len(data[d].w) /\ r = Len(data[d].r)
        BY <1>0, Lengths
      <4>3. out'[d] = out[d] \o data[d].w /\ wpc'[d] = "recv"
        BY <1>0, <3>5 DEF DataTypes, JoinInv, TypeOK
      <4>2. PICK a \in Seq(Bytes), b \in Seq(Bytes) : a = out[d] /\ b = data[d].w
        BY <1>2
      <4>4. /\ Len(out'[d]) = o + w
            /\ \A i \in 1..o : out'[d][i] = a[i]
            /\ \A i \in (o + 1)..(o + w) : out'[d][i] = b[i - o]
        <5>1. /\ Len(a \o b) = Len(a) + Len(b)
              /\ \A i \in 1..Len(a) : (a \o b)[i] = a[i]
              /\ \A i \in (Len(a) + 1)..(Len(a) + Len(b)) : (a \o b)[i] = b[i - Len(a)]
          OBVIOUS
        <5>2. out'[d] = a \o b /\ Len(a) = o /\ Len(b) = w
          BY <4>1, <4>3, <4>2
        <5> QED BY <5>1, <5>2
      <4>5. ASSUME Clean(d) PROVE Written(d)' /\ Continues(d)'
        <5>1. /\ \A i \in 1..o : a[i] = <<d, Place(d, i)>>
              /\ \A i \in 1..w : b[i] = <<d, Place(d, o + i)>>
              /\ \A i \in 1..r : data[d].r[i] = <<d, Place(d, o + w + i)>>
              /\ ~Closed(d) => got[d] = Place(d, o + w + r) + Len(part[d])
          BY <1>0, <1>1, <4>1, <4>2, <4>5 DEF Flows, Clean, Written, Continues
        <5>2. ASSUME NEW i \in 1..(o + w) PROVE out'[d][i] = <<d, Place(d, i)>>
          <6>1. CASE i \in 1..o
            BY <4>4, <5>1, <6>1
          <6>2. CASE i \in (o + 1)..(o + w)
            <7>1. i - o \in 1..w /\ o + (i - o) = i
              BY <6>2
            <7> QED BY <4>4, <5>1, <6>2, <7>1
          <6> QED BY <6>1, <6>2
        <5>3. Written(d)'
          BY <4>4, <5>2 DEF Written
        <5>4. Len(data'[d].w) = 0 /\ Len(data'[d].r) = r
          BY <3>1, <4>1
        <5>5. /\ o + w + 0 + r = o + w + r
              /\ \A i \in 1..r : o + w + 0 + i = o + w + i
          OBVIOUS
        <5>6. /\ \A i \in 1..r : data'[d].r[i] = <<d, Place(d, o + w + 0 + i)>>
              /\ ~Closed(d)' => got'[d] = Place(d, o + w + 0 + r) + Len(part'[d])
          BY <1>1, <3>1, <5>1, <5>5 DEF Closed
        <5>7. Continues(d)'
          BY <4>4, <5>4, <5>6 DEF Continues
        <5> QED BY <5>3, <5>7
      <4> QED BY <1>1, <2>2, <3>2, <3>3, <4>5 DEF Flows, Clean
    <3> QED BY <1>1, <3>4, <3>5
  <2> QED BY <2>1, <2>2
<1> QED BY <1>5, <1>6 DEF JoinInv

(* Every step keeps the invariant. *)
LEMMA JoinNext == JoinInv /\ [Next]_vars => JoinInv'
<1> SUFFICES ASSUME JoinInv, [Next]_vars PROVE JoinInv'
  OBVIOUS
<1>1. CASE Next
  BY <1>1, EndsStep, ReadBytesStep, StopStep, CopyStep, WorkStep, ReadDroppedStep,
     DecryptStep, HandOverStep, WriteStep
     DEF Next, Reader, Writer
<1>2. CASE UNCHANGED vars
  <2>1. UNCHANGED <<plain, fin, gone, shut, got, buffer, rpc, part, left, wpc, data, out, raced, torn>>
    BY <1>2 DEF vars, ends, reader, races
  <2>2. TypeOK' /\ DataTypes'
    BY <2>1 DEF JoinInv, TypeOK, DataTypes
  <2>3. \A d \in Dirs : Holds(d)' /\ Filled(d)' /\ Flows(d)'
    BY <2>1, Frame DEF JoinInv, SameReader, SameWriter
  <2> QED BY <2>2, <2>3 DEF JoinInv
<1> QED BY <1>1, <1>2

(* The state keeps its types, and no Read overruns the buffer              *)
(* (assetsFunctions.go, JoinEncrypted).                                    *)
THEOREM JoinTypes == Spec => []TypeOK
<1>1. JoinInv => TypeOK
  BY DEF JoinInv
<1> QED BY <1>1, JoinInit, JoinNext, PTL DEF Spec

(* Unless a Read of the other direction stored between the two looks that  *)
(* Open takes at a packet, the client gets only what the visitor sealed,   *)
(* in order and without a gap, whatever else both readers did to their     *)
(* one buffer.                                                             *)
THEOREM JoinUplinkAuthentic == Spec => []UplinkAuthentic
<1>1. JoinInv => UplinkAuthentic
  <2> SUFFICES ASSUME JoinInv, ~torn
               PROVE  \A i \in 1..Len(out["up"]) : out["up"][i] = <<"up", 2*i>>
    BY DEF UplinkAuthentic
  <2>1. Written("up")
    BY DEF JoinInv, Flows, Clean, Dirs
  <2> QED BY <2>1 DEF Written, Place
<1> QED BY <1>1, JoinInit, JoinNext, PTL DEF Spec

(* As long as the readers have not used the buffer at the same time, the   *)
(* visitor gets what the client sent, in order and without a gap.          *)
THEOREM JoinDownlinkExact == Spec => []DownlinkExact
<1>1. JoinInv => DownlinkExact
  <2> SUFFICES ASSUME JoinInv, ~raced PROVE out["down"] = Stream("down", Len(out["down"]))
    BY DEF DownlinkExact
  <2>1. Written("down") /\ out["down"] \in Seq(Bytes)
    BY DEF JoinInv, Flows, Clean, Dirs, DataTypes
  <2>2. PICK s \in Seq(Bytes) : s = out["down"]
    BY <2>1
  <2>3. \A i \in 1..Len(s) : s[i] = <<"down", i>>
    BY <2>1, <2>2 DEF Written, Place
  <2>4. s = [i \in 1..Len(s) |-> s[i]]
    OBVIOUS
  <2>5. s = [i \in 1..Len(s) |-> <<"down", i>>]
    BY <2>3, <2>4
  <2> QED BY <2>2, <2>5 DEF Stream
<1> QED BY <1>1, JoinInit, JoinNext, PTL DEF Spec
=============================================================================

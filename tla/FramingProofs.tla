---------------------------- MODULE FramingProofs ----------------------------
(***************************************************************************)
(* Why the readers of a byte stream do what is promised, for every input,  *)
(* every way it is cut into segments and every size of the blocks: the     *)
(* owner of a connection reads what the peer sent although a muxer has     *)
(* read from it before; a block stays in its room; TLS and HTTP find what  *)
(* the whole stream means; and the Decoder returns the messages that were  *)
(* encoded as long as none of its Reads is short.                          *)
(*                                                                         *)
(* The parts: induction for a set and the functions that the model defines *)
(* by calling themselves; the codec; then, each with its invariant, the    *)
(* theorems on ReplayExact, TypeOK, OutcomeExact and DecodedExact.         *)
(***************************************************************************)
EXTENDS Framing, SequenceTheorems, WellFoundedInduction, TLAPS

(* Induction over the naturals, for a set. *)
LEMMA Induction ==
    ASSUME NEW S, 0 \in S, \A n \in Nat : n \in S => n + 1 \in S
    PROVE  Nat \subseteq S
<1> DEFINE R == {p \in Nat \X Nat : p[1] < p[2]}
<1> DEFINE T == Nat \ S
<1>1. IsWellFoundedOn(R, Nat)
  BY NatLessThanWellFounded DEF OpToRel
<1>2. SUFFICES ASSUME T # {} PROVE FALSE
  OBVIOUS
<1>3. PICK n \in T : \A m \in T : ~(<<m, n>> \in R)
  <2> HIDE DEF R
  <2>1. T \subseteq Nat
    OBVIOUS
  <2> HIDE DEF T
  <2> QED BY <1>1, <1>2, <2>1, WFMin
<1>4. n \in Nat /\ n # 0 /\ n \notin S
  OBVIOUS
<1>5. n - 1 \in Nat /\ (n - 1) + 1 = n
  BY <1>4
<1>6. n - 1 \in T
  BY <1>4, <1>5
<1>7. <<n - 1, n>> \in R
  BY <1>4, <1>5
<1> QED BY <1>3, <1>6, <1>7

(* A function that is defined by calling itself in the last place: outside *)
(* E its value at x is that at next[x], which is smaller.                  *)
Descends(D, E, V, size, next, val) ==
    /\ size \in [D -> Nat] /\ next \in [D \ E -> D] /\ val \in [D -> V]
    /\ \A x \in D \ E : size[next[x]] < size[x]

Unfolds(f, D, E, V, next, val) ==
    /\ f \in [D -> V]
    /\ \A x \in D : f[x] = IF x \in E THEN val[x] ELSE f[next[x]]

(* Such a function exists, if the arguments become smaller.                *)
LEMMA TailRecursion ==
    ASSUME NEW D, NEW E, NEW V, NEW size, NEW next, NEW val, Descends(D, E, V, size, next, val)
    PROVE  \E f : Unfolds(f, D, E, V, next, val)
<1> USE DEF Descends
<1> DEFINE Below(n) == {x \in D : size[x] < n}
<1> DEFINE Solves(f, n) == /\ f \in [Below(n) -> V]
                           /\ \A x \in Below(n) : f[x] = IF x \in E THEN val[x] ELSE f[next[x]]
<1>1. ASSUME NEW n \in Nat, NEW x \in Below(n + 1), x \notin E
      PROVE  next[x] \in Below(n)
  <2>1. x \in D /\ next[x] \in D /\ size[x] \in Nat /\ size[next[x]] \in Nat
    BY <1>1
  <2> QED BY <1>1, <2>1
<1>2. ASSUME NEW n \in Nat PROVE \E f : Solves(f, n)
  <2> DEFINE S == {k \in Nat : \E f : Solves(f, k)}
  <2>1. 0 \in S
    <3>1. Below(0) = {}
      OBVIOUS
    <3>2. Solves([x \in Below(0) |-> val[x]], 0)
      BY <3>1
    <3> QED BY <3>2
  <2>2. ASSUME NEW k \in Nat, k \in S PROVE k + 1 \in S
    <3>1. PICK f : Solves(f, k)
      BY <2>2
    <3> DEFINE g == [x \in Below(k + 1) |-> IF x \in E THEN val[x] ELSE f[next[x]]]
    <3>2. ASSUME NEW x \in Below(k + 1)
          PROVE  g[x] \in V /\ g[x] = IF x \in E THEN val[x] ELSE g[next[x]]
      <4>1. CASE x \in E
        BY <4>1
      <4>2. CASE x \notin E
        <5>1. next[x] \in Below(k)
          BY <1>1, <4>2
        <5>2. g[x] = f[next[x]] /\ f[next[x]] \in V
          BY <3>1, <4>2, <5>1
        <5>3. next[x] \in Below(k + 1)
          BY <5>1
        <5>4. g[next[x]] = IF next[x] \in E THEN val[next[x]] ELSE f[next[next[x]]]
          BY <5>3
        <5>5. f[next[x]] = IF next[x] \in E THEN val[next[x]] ELSE f[next[next[x]]]
          BY <3>1, <5>1
        <5> QED BY <4>2, <5>2, <5>4, <5>5
      <4> QED BY <4>1, <4>2
    <3>3. Solves(g, k + 1)
      BY <3>2
    <3>4. k + 1 \in Nat
      OBVIOUS
    <3> HIDE DEF Solves, g
    <3> QED BY <3>3, <3>4
  <2>3. n \in S
    <3>1. \A k \in Nat : k \in S => k + 1 \in S
      BY <2>2
    <3> HIDE DEF S
    <3> QED BY <2>1, <3>1, Induction
  <2> QED BY <2>3
<1>3. ASSUME NEW m \in Nat, NEW n \in Nat, NEW f, NEW g, Solves(f, m), Solves(g, n),
             NEW x \in Below(m), x \in Below(n)
      PROVE  f[x] = g[x]
  <2> DEFINE S == {k \in Nat : \A y \in Below(m) \cap Below(n) : size[y] < k => f[y] = g[y]}
  <2>1. 0 \in S
    <3>1. \A y \in Below(m) : ~(size[y] < 0)
      OBVIOUS
    <3> QED BY <3>1
  <2>2. ASSUME NEW k \in Nat, k \in S PROVE k + 1 \in S
    <3>1. ASSUME NEW y \in Below(m) \cap Below(n), size[y] < k + 1 PROVE f[y] = g[y]
      <4>1. CASE y \in E
        BY <1>3, <4>1
      <4>2. CASE y \notin E
        <5>1. /\ next[y] \in D /\ size[y] \in Nat /\ size[next[y]] \in Nat
              /\ size[next[y]] < size[y]
          BY <4>2
        <5>2. next[y] \in Below(m) \cap Below(n) /\ size[next[y]] < k
          BY <3>1, <5>1
        <5>3. f[next[y]] = g[next[y]]
          BY <2>2, <5>2
        <5> QED BY <1>3, <4>2, <5>3
      <4> QED BY <4>1, <4>2
    <3> QED BY <3>1
  <2>3. m \in S
    <3>1. \A k \in Nat : k \in S => k + 1 \in S
      BY <2>2
    <3> HIDE DEF S
    <3> QED BY <2>1, <3>1, Induction
  <2> QED BY <1>3, <2>3
<1> DEFINE Sol(n) == CHOOSE f : Solves(f, n)
<1> DEFINE h == [x \in D |-> Sol(size[x] + 1)[x]]
<1>4. ASSUME NEW n \in Nat PROVE Solves(Sol(n), n)
  <2> HIDE DEF Solves
  <2> QED BY <1>2
<1>5. ASSUME NEW x \in D
      PROVE  h[x] \in V /\ h[x] = IF x \in E THEN val[x] ELSE h[next[x]]
  <2>1. size[x] \in Nat /\ size[x] + 1 \in Nat /\ x \in Below(size[x] + 1)
    OBVIOUS
  <2>2. PICK n \in Nat : n = size[x] + 1
    BY <2>1
  <2>3. PICK f : f = Sol(n)
    OBVIOUS
  <2>4. Solves(f, n) /\ h[x] = f[x] /\ x \in Below(n)
    <3> HIDE DEF Solves
    <3> QED BY <1>4, <2>1, <2>2, <2>3
  <2>5. f[x] \in V /\ f[x] = IF x \in E THEN val[x] ELSE f[next[x]]
    <3> HIDE DEF Sol, Below
    <3> QED BY <2>4
  <2>6. CASE x \in E
    BY <2>4, <2>5, <2>6
  <2>7. CASE x \notin E
    <3>1. /\ next[x] \in D /\ size[next[x]] \in Nat /\ size[next[x]] < size[x]
      BY <2>7
    <3>2. PICK m \in Nat : m = size[next[x]] + 1
      BY <3>1
    <3>3. next[x] \in Below(m) /\ next[x] \in Below(n)
      BY <2>1, <2>2, <3>1, <3>2
    <3>4. PICK g : g = Sol(m)
      OBVIOUS
    <3>5. Solves(g, m) /\ h[next[x]] = g[next[x]]
      <4> HIDE DEF Solves
      <4> QED BY <1>4, <3>1, <3>2, <3>4
    <3>6. g[next[x]] = f[next[x]]
      <4> HIDE DEF Solves, Below
      <4> QED BY <1>3, <2>4, <3>3, <3>5
    <3> QED BY <2>4, <2>5, <2>7, <3>5, <3>6
  <2> QED BY <2>6, <2>7
<1>6. h \in [D -> V]
  BY <1>5
<1> HIDE DEF h
<1>7. Unfolds(h, D, E, V, next, val)
  BY <1>5, <1>6 DEF Unfolds
<1> QED BY <1>7

(* The function of block.reserve, and what it computes. *)
LEMMA RoomFunction ==
    ASSUME NEW n \in Nat
    PROVE  \E d : /\ Room(n) = d[BlockSize]
                  /\ \A m \in Nat : d[m] = IF m >= n THEN m ELSE d[2 * m]
<1> DEFINE Step(d) == [m \in Nat |-> IF m >= n THEN m ELSE d[2 * m]]
<1> DEFINE doubled == CHOOSE d : d = Step(d)
<1>1. Room(n) = doubled[BlockSize]
  BY DEF Room
<1>2. \E d \in [Nat -> Nat] : \A m \in Nat : d[m] = IF m >= n THEN m ELSE d[2 * m]
  <2> DEFINE E == {m \in Nat : m >= n \/ m = 0}
  <2> DEFINE size == [m \in Nat |-> IF m >= n THEN 0 ELSE n - m]
  <2> DEFINE next == [m \in Nat \ E |-> 2 * m]
  <2> DEFINE val == [m \in Nat |-> m]
  <2>1. size \in [Nat -> Nat] /\ next \in [Nat \ E -> Nat] /\ val \in [Nat -> Nat]
    OBVIOUS
  <2>2. \A m \in Nat \ E : size[next[m]] < size[m]
    <3> SUFFICES ASSUME NEW m \in Nat \ E PROVE size[next[m]] < size[m]
      OBVIOUS
    <3>1. m \in Nat /\ m < n /\ m > 0 /\ next[m] = 2 * m /\ 2 * m \in Nat
      OBVIOUS
    <3>2. size[m] = n - m /\ size[2 * m] = IF 2 * m >= n THEN 0 ELSE n - (2 * m)
      BY <3>1
    <3> QED BY <3>1, <3>2
  <2>3. Descends(Nat, E, Nat, size, next, val)
    <3> HIDE DEF E, size, next, val
    <3> QED BY <2>1, <2>2 DEF Descends
  <2>4. PICK f \in [Nat -> Nat] : \A m \in Nat : f[m] = IF m \in E THEN val[m] ELSE f[next[m]]
    <3>1. \E f : Unfolds(f, Nat, E, Nat, next, val)
      BY <2>3, TailRecursion
    <3> HIDE DEF E, size, next, val
    <3> QED BY <3>1 DEF Unfolds
  <2>5. ASSUME NEW m \in Nat PROVE f[m] = IF m >= n THEN m ELSE f[2 * m]
    <3>1. CASE m \in E
      <4>1. f[m] = m
        BY <2>4, <3>1
      <4>2. m = 0 => 2 * m = m
        OBVIOUS
      <4> QED BY <3>1, <4>1, <4>2
    <3>2. CASE m \notin E
      <4>1. f[m] = f[2 * m]
        BY <2>4, <3>2
      <4> QED BY <3>2, <4>1
    <3> QED BY <3>1, <3>2
  <2> HIDE DEF E, size, next, val
  <2> QED BY <2>5
<1>3. \E d : d = Step(d)
  <2>1. PICK d \in [Nat -> Nat] : \A m \in Nat : d[m] = IF m >= n THEN m ELSE d[2 * m]
    BY <1>2
  <2>2. d = Step(d)
    BY <2>1
  <2> HIDE DEF Step
  <2> QED BY <2>2
<1>4. doubled = Step(doubled)
  <2> HIDE DEF Step
  <2> QED BY <1>3
<1> DEFINE Holds(d) == \A m \in Nat : d[m] = IF m >= n THEN m ELSE d[2 * m]
<1>5. Holds(doubled)
  <2>1. PICK d : d = doubled
    OBVIOUS
  <2>2. d = Step(d)
    BY <1>4, <2>1
  <2>3. Holds(d)
    BY <2>2
  <2> QED BY <2>1, <2>3
<1> HIDE DEF doubled
<1> QED BY <1>1, <1>5

(* It doubles its argument until that is at least n.                       *)
LEMMA Doubling ==
    ASSUME NEW n \in Nat, NEW d, \A m \in Nat : d[m] = IF m >= n THEN m ELSE d[2 * m],
           NEW x \in Nat, x > 0
    PROVE  d[x] \in Nat /\ d[x] >= x /\ d[x] >= n
<1> DEFINE S == {k \in Nat : \A m \in Nat : m > 0 /\ m + k >= n => d[m] \in Nat /\ d[m] >= m /\ d[m] >= n}
<1>1. 0 \in S
  OBVIOUS
<1>2. ASSUME NEW k \in Nat, k \in S PROVE k + 1 \in S
  <2>1. ASSUME NEW m \in Nat, m > 0, m + (k + 1) >= n PROVE d[m] \in Nat /\ d[m] >= m /\ d[m] >= n
    <3>1. CASE m >= n
      BY <3>1
    <3>2. CASE ~(m >= n)
      <4>1. 2 * m \in Nat /\ 2 * m > 0 /\ 2 * m + k >= n /\ 2 * m >= m
        BY <2>1
      <4>2. PICK j \in Nat : j = 2 * m
        BY <4>1
      <4>3. d[j] \in Nat /\ d[j] >= j /\ d[j] >= n
        BY <1>2, <4>1, <4>2
      <4>4. d[m] = d[j]
        BY <3>2, <4>2
      <4> QED BY <4>1, <4>2, <4>3, <4>4
    <3> QED BY <3>1, <3>2
  <2> QED BY <2>1
<1>3. \A k \in Nat : k \in S => k + 1 \in S
  BY <1>2
<1>4. n \in S
  <2> HIDE DEF S
  <2> QED BY <1>1, <1>3, Induction
<1> QED BY <1>4

(* block.reserve makes room enough, and more of it for more bytes. *)
LEMMA RoomFacts ==
    ASSUME NEW n \in Nat, NEW l \in Nat, l <= n
    PROVE  Room(n) \in Nat /\ Room(n) >= n /\ Room(l) \in Nat /\ Room(l) <= Room(n)
<1>1. BlockSize \in Nat /\ BlockSize > 0
  BY FramingAssumption
<1>2. PICK d : Room(n) = d[BlockSize] /\ \A m \in Nat : d[m] = IF m >= n THEN m ELSE d[2 * m]
  BY RoomFunction
<1>3. PICK e : Room(l) = e[BlockSize] /\ \A m \in Nat : e[m] = IF m >= l THEN m ELSE e[2 * m]
  BY RoomFunction
<1>4. \A x \in Nat : x > 0 => d[x] \in Nat /\ d[x] >= x /\ d[x] >= n
  BY <1>2, Doubling
<1>5. \A x \in Nat : x > 0 => e[x] \in Nat /\ e[x] >= x /\ e[x] >= l
  BY <1>3, Doubling
<1> DEFINE S == {k \in Nat : \A m \in Nat : m > 0 /\ m + k >= n => e[m] <= d[m]}
<1>6. 0 \in S
  BY <1>2, <1>3
<1>7. ASSUME NEW k \in Nat, k \in S PROVE k + 1 \in S
  <2>1. ASSUME NEW m \in Nat, m > 0, m + (k + 1) >= n PROVE e[m] <= d[m]
    <3>1. CASE m >= l
      <4>1. e[m] = m
        BY <1>3, <3>1
      <4> QED BY <1>4, <2>1, <4>1
    <3>2. CASE ~(m >= l)
      <4>1. 2 * m \in Nat /\ 2 * m > 0 /\ 2 * m + k >= n /\ ~(m >= n)
        BY <2>1, <3>2
      <4>2. PICK j \in Nat : j = 2 * m
        BY <4>1
      <4>3. e[j] <= d[j]
        BY <1>7, <4>1, <4>2
      <4>4. d[m] = d[j] /\ e[m] = e[j]
        BY <1>2, <1>3, <3>2, <4>1, <4>2
      <4> QED BY <4>3, <4>4
    <3> QED BY <3>1, <3>2
  <2> QED BY <2>1
<1>8. n \in S
  <2>1. \A k \in Nat : k \in S => k + 1 \in S
    BY <1>7
  <2> HIDE DEF S
  <2> QED BY <1>6, <2>1, Induction
<1>9. e[BlockSize] <= d[BlockSize]
  BY <1>1, <1>8
<1> QED BY <1>1, <1>2, <1>3, <1>4, <1>5, <1>9



(* A byte is a natural number.                                             *)
LEMMA ByteFacts == \A x \in Byte : x \in Nat /\ x <= 255
  BY DEF Byte

(* A part of a sequence. *)
LEMMA Slice ==
    ASSUME NEW S, NEW s \in Seq(S), NEW m \in Nat, NEW n \in Nat, m >= 1, m <= n + 1, n <= Len(s)
    PROVE  /\ SubSeq(s, m, n) \in Seq(S) /\ Len(SubSeq(s, m, n)) = (n + 1) - m
           /\ \A i \in 1..((n + 1) - m) : SubSeq(s, m, n)[i] = s[(m + i) - 1]
<1>1. Len(s) \in Nat
  BY LenProperties
<1>2. \A i \in m..n : s[i] \in S
  <2>1. \A i \in m..n : i \in 1..Len(s)
    BY <1>1
  <2> QED BY <2>1, ElementOfSeq
<1>3. /\ SubSeq(s, m, n) \in Seq(S)
      /\ Len(SubSeq(s, m, n)) = IF m <= n THEN n - m + 1 ELSE 0
      /\ \A i \in 1..(n - m + 1) : SubSeq(s, m, n)[i] = s[m + i - 1]
  BY <1>2, SubSeqProperties
<1>4. /\ (IF m <= n THEN n - m + 1 ELSE 0) = (n + 1) - m /\ n - m + 1 = (n + 1) - m
      /\ \A i \in 1..((n + 1) - m) : m + i - 1 = (m + i) - 1
  OBVIOUS
<1> QED BY <1>3, <1>4

(* A record that settles nothing leaves a shorter rest to read.            *)
LEMMA TlsStep ==
    ASSUME NEW h \in Seq(Byte), NEW d \in Seq(Byte), RecordOutcome(h, d) = None
    PROVE  /\ Len(d) \in Nat /\ Len(d) >= RecordHeader /\ RecordLen(d) \in Nat
           /\ RecordLen(d) > 0 /\ RecordLen(d) <= Len(d) /\ HeaderError(d) = None
           /\ h \o Payload(d) \in Seq(Byte)
           /\ From(d, RecordLen(d) + 1) \in Seq(Byte)
           /\ Len(From(d, RecordLen(d) + 1)) = Len(d) - RecordLen(d)
<1>1. Len(d) \in Nat /\ Len(d) >= RecordHeader /\ HeaderError(d) = None /\ RecordLen(d) <= Len(d)
  <2>1. Err("eof") # None
    BY DEF Err, None
  <2>2. Len(d) \in Nat /\ RecordHeader \in Nat
    BY LenProperties DEF RecordHeader
  <2>3. ~(Len(d) < RecordHeader) /\ HeaderError(d) = None /\ ~(Len(d) < RecordLen(d))
    BY <2>1 DEF RecordOutcome
  <2>4. RecordLen(d) \in Nat
    <3>1. 3 \in 1..Len(d)
      BY <2>2, <2>3 DEF RecordHeader
    <3>2. d[3] \in Byte
      BY <3>1, ElementOfSeq
    <3> QED BY <3>2, ByteFacts DEF RecordLen, RecordHeader
  <2> QED BY <2>2, <2>3, <2>4
<1>2. d[3] \in Byte
  <2>1. 3 \in 1..Len(d)
    BY <1>1 DEF RecordHeader
  <2> QED BY <2>1, ElementOfSeq
<1>3. RecordLen(d) \in Nat /\ RecordLen(d) >= 3
  BY <1>2, ByteFacts DEF RecordLen, RecordHeader
<1>4. Payload(d) \in Seq(Byte)
  <2>1. RecordHeader + 1 \in Nat /\ RecordHeader + 1 >= 1 /\ RecordHeader + 1 <= RecordLen(d) + 1
    BY <1>3 DEF RecordHeader
  <2> QED BY <1>1, <1>3, <2>1, Slice DEF Payload
<1>5. h \o Payload(d) \in Seq(Byte)
  BY <1>4, ConcatProperties
<1>6. /\ From(d, RecordLen(d) + 1) \in Seq(Byte)
      /\ Len(From(d, RecordLen(d) + 1)) = (Len(d) + 1) - (RecordLen(d) + 1)
  <2>1. PICK k \in Nat : k = RecordLen(d) + 1
    BY <1>3
  <2>2. k >= 1 /\ k <= Len(d) + 1
    BY <1>1, <1>3, <2>1
  <2> QED BY <1>1, <2>1, <2>2, Slice DEF From
<1> QED BY <1>1, <1>3, <1>5, <1>6

(* So the reading of a stream is what its definition says, for every one.  *)
LEMMA TlsUnfolds ==
    ASSUME NEW h \in Seq(Byte), NEW d \in Seq(Byte)
    PROVE  TlsReading[<<h, d>>] =
              IF RecordOutcome(h, d) # None THEN RecordOutcome(h, d)
              ELSE TlsReading[<<h \o Payload(d), From(d, RecordLen(d) + 1)>>]
<1> DEFINE D == Seq(Byte) \X Seq(Byte)
<1> DEFINE Out(s) == RecordOutcome(s[1], s[2])
<1> DEFINE Rest(s) == <<s[1] \o Payload(s[2]), From(s[2], RecordLen(s[2]) + 1)>>
<1> DEFINE Step(f) == [s \in D |-> IF Out(s) # None THEN Out(s) ELSE f[Rest(s)]]
<1>1. TlsReading = CHOOSE f : f = Step(f)
  BY DEF TlsReading
<1>2. ASSUME NEW s \in D, Out(s) = None
      PROVE  Rest(s) \in D /\ Len(Rest(s)[2]) \in Nat /\ Len(s[2]) \in Nat /\ Len(Rest(s)[2]) < Len(s[2])
  <2>1. PICK a \in Seq(Byte), b \in Seq(Byte) : s = <<a, b>>
    OBVIOUS
  <2>2. /\ a \o Payload(b) \in Seq(Byte) /\ From(b, RecordLen(b) + 1) \in Seq(Byte)
        /\ Len(b) \in Nat /\ RecordLen(b) \in Nat /\ RecordLen(b) > 0 /\ RecordLen(b) <= Len(b)
        /\ Len(From(b, RecordLen(b) + 1)) = Len(b) - RecordLen(b)
    BY <1>2, <2>1, TlsStep
  <2>3. Len(b) - RecordLen(b) \in Nat /\ Len(b) - RecordLen(b) < Len(b)
    BY <2>2
  <2> QED BY <2>1, <2>2, <2>3
<1> DEFINE E == {s \in D : Out(s) # None}
<1> DEFINE size == [s \in D |-> Len(s[2])]
<1> DEFINE next == [s \in D \ E |-> Rest(s)]
<1> DEFINE val == [s \in D |-> Out(s)]
<1> DEFINE V == {Out(s) : s \in D}
<1>3. Descends(D, E, V, size, next, val)
  <2>1. size \in [D -> Nat]
    <3>1. \A s \in D : Len(s[2]) \in Nat
      BY LenProperties
    <3> QED BY <3>1
  <2>2. next \in [D \ E -> D] /\ \A s \in D \ E : size[next[s]] < size[s]
    <3>1. \A s \in D \ E : s \in D /\ Out(s) = None
      OBVIOUS
    <3> HIDE DEF D, E, Out, Rest
    <3>2. \A s \in D \ E : Rest(s) \in D /\ Len(Rest(s)[2]) < Len(s[2])
      BY <1>2, <3>1
    <3> QED BY <3>1, <3>2
  <2>3. val \in [D -> V]
    <3> HIDE DEF D, Out
    <3> QED OBVIOUS
  <2> HIDE DEF D, E, V, size, next, val
  <2> QED BY <2>1, <2>2, <2>3 DEF Descends
<1>4. \E f : f = Step(f)
  <2>1. PICK f : Unfolds(f, D, E, V, next, val)
    <3> HIDE DEF D, E, V, size, next, val
    <3> QED BY <1>3, TailRecursion
  <2>2. f \in [D -> V] /\ \A s \in D : f[s] = IF s \in E THEN val[s] ELSE f[next[s]]
    <3> HIDE DEF D, E, V, size, next, val
    <3> QED BY <2>1 DEF Unfolds
  <2>3. \A s \in D : f[s] = IF Out(s) # None THEN Out(s) ELSE f[Rest(s)]
    <3> HIDE DEF D, Out, Rest, V
    <3> QED BY <2>2
  <2>4. f = Step(f)
    <3> HIDE DEF D, Out, Rest, V
    <3> QED BY <2>2, <2>3
  <2> HIDE DEF Step
  <2> QED BY <2>4
<1>5. TlsReading = Step(TlsReading)
  <2> HIDE DEF Step
  <2> QED BY <1>1, <1>4
<1>6. <<h, d>> \in D
  OBVIOUS
<1>7. TlsReading[<<h, d>>] = IF Out(<<h, d>>) # None THEN Out(<<h, d>>) ELSE TlsReading[Rest(<<h, d>>)]
  <2>1. PICK f : f = TlsReading
    OBVIOUS
  <2>2. f = Step(f)
    BY <1>5, <2>1
  <2>3. f[<<h, d>>] = IF Out(<<h, d>>) # None THEN Out(<<h, d>>) ELSE f[Rest(<<h, d>>)]
    <3> HIDE DEF D, Out, Rest
    <3> QED BY <1>6, <2>2
  <2> QED BY <2>1, <2>3
<1> QED BY <1>7

(* The sequences that are g one after the other. *)
Concats(e, S, n, g) ==
    /\ e \in [0..n -> Seq(S)] /\ e[0] = <<>>
    /\ \A k \in 1..n : e[k] = e[k - 1] \o g[k]

(* There are such sequences.                                               *)
LEMMA ConcatsExist ==
    ASSUME NEW S, NEW n \in Nat, NEW g \in [1..n -> Seq(S)]
    PROVE  \E e : Concats(e, S, n, g)
<1> DEFINE T == {j \in Nat : j <= n => \E e : Concats(e, S, j, g)}
<1>1. 0 \in T
  <2> DEFINE e == [k \in 0..0 |-> <<>>]
  <2>1. e \in [0..0 -> Seq(S)] /\ e[0] = <<>>
    BY EmptySeq
  <2>2. Concats(e, S, 0, g)
    <3> HIDE DEF e
    <3> QED BY <2>1 DEF Concats
  <2> HIDE DEF e
  <2> QED BY <2>2
<1>2. ASSUME NEW j \in Nat, j \in T PROVE j + 1 \in T
  <2> SUFFICES ASSUME j + 1 <= n PROVE \E e : Concats(e, S, j + 1, g)
    OBVIOUS
  <2>1. PICK f : Concats(f, S, j, g)
    BY <1>2
  <2> DEFINE e == [k \in 0..(j + 1) |-> IF k <= j THEN f[k] ELSE f[j] \o g[j + 1]]
  <2>2. f[j] \in Seq(S) /\ g[j + 1] \in Seq(S)
    BY <2>1 DEF Concats
  <2>3. f[j] \o g[j + 1] \in Seq(S)
    BY <2>2, ConcatProperties
  <2>4. e \in [0..(j + 1) -> Seq(S)] /\ e[0] = <<>>
    BY <2>1, <2>3 DEF Concats
  <2>5. ASSUME NEW k \in 1..(j + 1) PROVE e[k] = e[k - 1] \o g[k]
    <3>1. CASE k <= j
      <4>1. k \in 1..j /\ k - 1 \in 0..(j + 1) /\ k - 1 <= j
        BY <3>1
      <4>2. e[k] = f[k] /\ e[k - 1] = f[k - 1]
        BY <3>1, <4>1
      <4> QED BY <2>1, <4>1, <4>2 DEF Concats
    <3>2. CASE ~(k <= j)
      <4>1. k = j + 1 /\ k - 1 = j /\ j \in 0..(j + 1)
        BY <3>2
      <4>2. e[j + 1] = f[j] \o g[j + 1]
        <5>1. j + 1 \in 0..(j + 1) /\ ~(j + 1 <= j)
          OBVIOUS
        <5> QED BY <5>1
      <4>3. e[j] = f[j]
        BY <4>1
      <4> HIDE DEF e
      <4> QED BY <4>1, <4>2, <4>3
    <3> QED BY <3>1, <3>2
  <2>6. Concats(e, S, j + 1, g)
    <3> HIDE DEF e
    <3> QED BY <2>4, <2>5 DEF Concats
  <2> HIDE DEF e
  <2> QED BY <2>6
<1>3. n \in T
  <2>1. \A j \in Nat : j \in T => j + 1 \in T
    BY <1>2
  <2> HIDE DEF T
  <2> QED BY <1>1, <2>1, Induction
<1> QED BY <1>3

(* Where each of them stands in the whole. *)
PartOf(e, g, n, j, k) ==
    /\ Len(e[j]) \in Nat /\ Len(g[k]) \in Nat /\ Len(e[n]) \in Nat
    /\ Len(e[k]) = Len(e[j]) + Len(g[k]) /\ Len(e[k]) <= Len(e[n])
    /\ \A i \in 1..Len(g[k]) : e[n][Len(e[j]) + i] = g[k][i]

LEMMA ConcatsFacts ==
    ASSUME NEW S, NEW n \in Nat, NEW g \in [1..n -> Seq(S)], NEW e, Concats(e, S, n, g)
    PROVE  \A k \in 1..n : PartOf(e, g, n, k - 1, k)
<1> SUFFICES ASSUME NEW k \in 1..n PROVE PartOf(e, g, n, k - 1, k)
  OBVIOUS
<1>1. ASSUME NEW j \in 1..n
      PROVE  /\ Len(e[j - 1]) \in Nat /\ Len(g[j]) \in Nat /\ Len(e[j]) = Len(e[j - 1]) + Len(g[j])
             /\ \A i \in 1..Len(e[j - 1]) : e[j][i] = e[j - 1][i]
             /\ \A i \in 1..Len(g[j]) : e[j][Len(e[j - 1]) + i] = g[j][i]
  <2>0. j - 1 \in 0..n
    OBVIOUS
  <2>1. e[j] = e[j - 1] \o g[j]
    BY DEF Concats
  <2>2. PICK a \in Seq(S), b \in Seq(S) : a = e[j - 1] /\ b = g[j]
    BY <2>0 DEF Concats
  <2>3. /\ Len(a) \in Nat /\ Len(b) \in Nat /\ Len(a \o b) = Len(a) + Len(b)
        /\ \A i \in 1..(Len(a) + Len(b)) : (a \o b)[i] = IF i <= Len(a) THEN a[i] ELSE b[i - Len(a)]
    BY ConcatProperties, LenProperties
  <2>4. \A i \in 1..Len(a) : (a \o b)[i] = a[i]
    BY <2>3
  <2>5. ASSUME NEW i \in 1..Len(b) PROVE (a \o b)[Len(a) + i] = b[i]
    <3>1. Len(a) + i \in 1..(Len(a) + Len(b)) /\ ~(Len(a) + i <= Len(a)) /\ (Len(a) + i) - Len(a) = i
      BY <2>3
    <3> QED BY <2>3, <3>1
  <2> QED BY <2>1, <2>2, <2>3, <2>4, <2>5
<1>2. ASSUME NEW j \in 0..n PROVE Len(e[j]) \in Nat
  BY LenProperties DEF Concats
<1> DEFINE T == {j \in Nat : j <= n => /\ Len(e[n - j]) <= Len(e[n])
                                       /\ \A i \in 1..Len(e[n - j]) : e[n][i] = e[n - j][i]}
<1>3. 0 \in T
  BY <1>2
<1>4. ASSUME NEW j \in Nat, j \in T PROVE j + 1 \in T
  <2> SUFFICES ASSUME j + 1 <= n
               PROVE  /\ Len(e[n - (j + 1)]) <= Len(e[n])
                      /\ \A i \in 1..Len(e[n - (j + 1)]) : e[n][i] = e[n - (j + 1)][i]
    OBVIOUS
  <2>1. PICK m \in 1..n : m = n - j
    OBVIOUS
  <2>2. m - 1 = n - (j + 1) /\ m - 1 \in 0..n
    BY <2>1
  <2>3. Len(e[m]) <= Len(e[n]) /\ \A i \in 1..Len(e[m]) : e[n][i] = e[m][i]
    BY <1>4, <2>1
  <2>4. /\ Len(e[m - 1]) \in Nat /\ Len(g[m]) \in Nat /\ Len(e[m]) = Len(e[m - 1]) + Len(g[m])
        /\ \A i \in 1..Len(e[m - 1]) : e[m][i] = e[m - 1][i]
    BY <1>1
  <2>5. Len(e[n]) \in Nat
    BY <1>2
  <2>6. Len(e[m - 1]) <= Len(e[n]) /\ \A i \in 1..Len(e[m - 1]) : e[n][i] = e[m - 1][i]
    BY <2>3, <2>4, <2>5
  <2> QED BY <2>2, <2>6
<1>5. \A j \in Nat : j \in T
  <2>1. \A j \in Nat : j \in T => j + 1 \in T
    BY <1>4
  <2> HIDE DEF T
  <2> QED BY <1>3, <2>1, Induction
<1>6. Len(e[k]) <= Len(e[n]) /\ \A i \in 1..Len(e[k]) : e[n][i] = e[k][i]
  <2>1. PICK j \in Nat : j = n - k
    OBVIOUS
  <2>2. n - j = k /\ j <= n
    BY <2>1
  <2> QED BY <1>5, <2>1, <2>2
<1>7. /\ Len(e[k - 1]) \in Nat /\ Len(g[k]) \in Nat /\ Len(e[k]) = Len(e[k - 1]) + Len(g[k])
      /\ \A i \in 1..Len(g[k]) : e[k][Len(e[k - 1]) + i] = g[k][i]
  BY <1>1
<1>8. ASSUME NEW i \in 1..Len(g[k]) PROVE e[n][Len(e[k - 1]) + i] = g[k][i]
  <2>1. Len(e[k - 1]) + i \in 1..Len(e[k])
    BY <1>7
  <2> QED BY <1>6, <1>7, <2>1
<1> QED BY <1>2, <1>6, <1>7, <1>8 DEF PartOf

(* Encoding computes them, of the packets of the messages.                 *)
LEMMA EncodingConcats ==
    ASSUME NEW ms, NEW n \in Nat, n = Len(ms), \A k \in 1..n : Marshal(ms[k]) \in Seq(Byte)
    PROVE  Concats(Encoding(ms), Byte, n, [k \in 1..n |-> Marshal(ms[k])])
<1> DEFINE g == [k \in 1..n |-> Marshal(ms[k])]
<1> DEFINE Step(f) == [k \in 0..Len(ms) |-> IF k = 0 THEN <<>> ELSE f[k - 1] \o Marshal(ms[k])]
<1>1. Encoding(ms) = CHOOSE f : f = Step(f)
  BY DEF Encoding
<1>2. g \in [1..n -> Seq(Byte)]
  OBVIOUS
<1>3. PICK e : Concats(e, Byte, n, g)
  <2> HIDE DEF g
  <2> QED BY <1>2, ConcatsExist
<1>4. e = Step(e)
  <2>1. \A k \in 0..n : e[k] = IF k = 0 THEN <<>> ELSE e[k - 1] \o Marshal(ms[k])
    BY <1>3 DEF Concats
  <2> QED BY <1>3, <2>1 DEF Concats
<1>5. Encoding(ms) = Step(Encoding(ms))
  <2> HIDE DEF Step
  <2> QED BY <1>1, <1>4
<1>6. PICK f : f = Encoding(ms)
  OBVIOUS
<1>7. f = Step(f)
  BY <1>5, <1>6
<1>8. f[0] = <<>> /\ \A k \in 1..n : f[k] = f[k - 1] \o g[k]
  <2>1. \A k \in 0..n : f[k] = IF k = 0 THEN <<>> ELSE f[k - 1] \o Marshal(ms[k])
    <3> DEFINE F(k) == IF k = 0 THEN <<>> ELSE f[k - 1] \o Marshal(ms[k])
    <3>1. f = [k \in 0..n |-> F(k)]
      BY <1>7
    <3>2. \A k \in 0..n : f[k] = F(k)
      <4> HIDE DEF F
      <4> QED BY <3>1
    <3> QED BY <3>2
  <2>2. 0 \in 0..n
    OBVIOUS
  <2>3. ASSUME NEW k \in 1..n PROVE f[k] = f[k - 1] \o g[k]
    <3>1. k \in 0..n /\ k # 0 /\ g[k] = Marshal(ms[k])
      OBVIOUS
    <3> QED BY <2>1, <3>1
  <2> QED BY <2>1, <2>2, <2>3
<1> DEFINE T == {j \in Nat : j <= n => f[j] = e[j]}
<1>9. ASSUME NEW j \in 0..n PROVE f[j] = e[j]
  <2>1. 0 \in T
    BY <1>3, <1>8 DEF Concats
  <2>2. ASSUME NEW i \in Nat, i \in T PROVE i + 1 \in T
    <3> SUFFICES ASSUME i + 1 <= n PROVE f[i + 1] = e[i + 1]
      OBVIOUS
    <3>1. f[i] = e[i] /\ i + 1 \in 1..n /\ (i + 1) - 1 = i
      BY <2>2
    <3>2. f[i + 1] = f[i] \o g[i + 1]
      <4> HIDE DEF g
      <4> QED BY <1>8, <3>1
    <3>3. e[i + 1] = e[i] \o g[i + 1]
      <4> HIDE DEF g
      <4> QED BY <1>3, <3>1 DEF Concats
    <3> QED BY <3>1, <3>2, <3>3
  <2>3. \A i \in Nat : i \in T => i + 1 \in T
    BY <2>2
  <2>4. j \in T
    <3> HIDE DEF T
    <3> QED BY <2>1, <2>3, Induction
  <2> QED BY <2>4
<1>10. f = e
  <2>1. f = [k \in 0..n |-> f[k]]
    <3> DEFINE F(k) == IF k = 0 THEN <<>> ELSE f[k - 1] \o Marshal(ms[k])
    <3>1. f = [k \in 0..n |-> F(k)]
      BY <1>7
    <3> HIDE DEF F
    <3> QED BY <3>1
  <2> QED BY <1>3, <1>9, <2>1 DEF Concats
<1> QED BY <1>3, <1>6, <1>10
-----------------------------------------------------------------------------
(* The layouts: how many fields there are, and that no name stands twice. *)
LEMMA LayoutFacts ==
    ASSUME NEW t \in MessageTypes
    PROVE  /\ DOMAIN Layout(t) = 1..Len(Layout(t)) /\ Len(Layout(t)) \in 1..4
           /\ PayloadSize(t) = 2 * Len(Layout(t))
           /\ \A i, j \in DOMAIN Layout(t) : Layout(t)[i] = Layout(t)[j] => i = j
           /\ t = DataType => "Length" \in Range(Layout(t)) /\ Len(Layout(t)) = 2 /\ Layout(t)[2] = "Length"
<1>1. CASE t = 100
  BY <1>1 DEF Layout, OpenMessage, PayloadSize, MessageTypes, IntSize, DataType
<1>2. CASE t = 101
  BY <1>2 DEF Layout, OpenConfirmMessage, PayloadSize, MessageTypes, IntSize, DataType
<1>3. CASE t = 102
  BY <1>3 DEF Layout, OpenFailureMessage, PayloadSize, MessageTypes, IntSize, DataType
<1>4. CASE t = 103
  BY <1>4 DEF Layout, WindowAdjustMessage, PayloadSize, MessageTypes, IntSize, DataType
<1>5. CASE t = 104
  BY <1>5 DEF Layout, DataMessage, PayloadSize, MessageTypes, IntSize, DataType, Range
<1>6. CASE t = 105
  BY <1>6 DEF Layout, EOFMessage, PayloadSize, MessageTypes, IntSize, DataType
<1>7. CASE t = 106
  BY <1>7 DEF Layout, CloseMessage, PayloadSize, MessageTypes, IntSize, DataType
<1> QED BY <1>1, <1>2, <1>3, <1>4, <1>5, <1>6, <1>7 DEF MessageTypes

(* What PutUint writes, Uint reads.                                        *)
LEMMA UintFacts ==
    ASSUME NEW v \in Word
    PROVE  /\ PutUint(v)[1] \in Byte /\ PutUint(v)[2] \in Byte
           /\ PutUint(v)[1] * 256 + PutUint(v)[2] = v
<1>1. v \div 256 \in 0..255 /\ v % 256 \in 0..255 /\ (v \div 256) * 256 + (v % 256) = v
  BY DEF Word, MaxWord
<1> QED BY <1>1 DEF PutUint, Byte

(* The integer that each byte belongs to.                                  *)
LEMMA Halves ==
    ASSUME NEW k \in Nat, NEW i \in 1..(2 * k)
    PROVE  (i + 1) \div IntSize \in 1..k /\ 2 - (i % IntSize) \in {1, 2}
  BY DEF IntSize

(* The two bytes of the i-th integer.                                      *)
LEMMA HalvesOf ==
    ASSUME NEW i \in Nat, i >= 1
    PROVE  /\ ((2 * i - 1) + 1) \div IntSize = i /\ 2 - ((2 * i - 1) % IntSize) = 1
           /\ ((2 * i) + 1) \div IntSize = i /\ 2 - ((2 * i) % IntSize) = 2
<1>1. /\ (2 * i) \div 2 = i /\ (2 * i + 1) \div 2 = i /\ (2 * i) % 2 = 0 /\ (2 * i - 1) % 2 = 1
      /\ (2 * i - 1) + 1 = 2 * i
  OBVIOUS
<1> QED BY <1>1 DEF IntSize

(* A record is its four fields.                                            *)
LEMMA RecordFacts ==
    ASSUME NEW t, NEW F, NEW D, NEW m, m \in [type : {t}, fields : F, data : D, zeros : {0}]
    PROVE  /\ m.type = t /\ m.fields \in F /\ m.data \in D /\ m.zeros = 0
           /\ m = [type |-> m.type, fields |-> m.fields, data |-> m.data, zeros |-> 0]
  OBVIOUS

(* The parts of a message.                                                 *)
LEMMA IsMessageFacts ==
    ASSUME NEW m, IsMessage(m)
    PROVE  /\ m.type \in MessageTypes /\ m.fields \in [Range(Layout(m.type)) -> Word]
           /\ m.data \in Seq(Byte) /\ m.zeros = 0
           /\ m = [type |-> m.type, fields |-> m.fields, data |-> m.data, zeros |-> 0]
           /\ Len(m.data) = IF m.type = DataType THEN m.fields["Length"] ELSE 0
<1>1. PICK t \in MessageTypes :
        m \in [type : {t}, fields : [Range(Layout(t)) -> Word], data : Seq(Byte), zeros : {0}]
  BY Zenon DEF IsMessage
<1>2. PICK F, D : F = [Range(Layout(t)) -> Word] /\ D = Seq(Byte)
  OBVIOUS
<1>3. m \in [type : {t}, fields : F, data : D, zeros : {0}]
  BY <1>1, <1>2, Zenon
<1>4. /\ m.type = t /\ m.fields \in F /\ m.data \in D /\ m.zeros = 0
      /\ m = [type |-> m.type, fields |-> m.fields, data |-> m.data, zeros |-> 0]
  BY <1>3, RecordFacts, Zenon
<1>5. Len(m.data) = IF m.type = DataType THEN m.fields["Length"] ELSE 0
  BY Zenon DEF IsMessage
<1> QED BY <1>2, <1>4, <1>5, Zenon DEF Byte

(* A packet: the type, the integers, the data. *)
LEMMA MarshalFacts ==
    ASSUME NEW m, IsMessage(m)
    PROVE  /\ Marshal(m) \in Seq(Byte) /\ PayloadSize(m.type) \in Nat /\ Len(m.data) \in Nat
           /\ Len(Marshal(m)) = 1 + PayloadSize(m.type) + Len(m.data)
           /\ Marshal(m)[1] = m.type
           /\ \A i \in 1..Len(Layout(m.type)) :
                 /\ Marshal(m)[2 * i] = PutUint(m.fields[Layout(m.type)[i]])[1]
                 /\ Marshal(m)[2 * i + 1] = PutUint(m.fields[Layout(m.type)[i]])[2]
           /\ \A i \in 1..Len(m.data) : Marshal(m)[1 + PayloadSize(m.type) + i] = m.data[i]
<1>1. /\ m.type \in MessageTypes /\ m.fields \in [Range(Layout(m.type)) -> Word]
      /\ m.data \in Seq(Byte)
  BY IsMessageFacts
<1>2. PICK t \in MessageTypes : t = m.type
  BY <1>1
<1>3. PICK F \in [Range(Layout(t)) -> Word], a \in Seq(Byte) :
        t = m.type /\ F = m.fields /\ a = m.data
  BY <1>2, <1>1
<1>4. PICK k \in 1..4 : /\ k = Len(Layout(t)) /\ DOMAIN Layout(t) = 1..k /\ PayloadSize(t) = 2 * k
  BY LayoutFacts
<1> DEFINE B(i) == PutUint(F[Layout(t)[(i + 1) \div IntSize]])[2 - (i % IntSize)]
<1> DEFINE ints == [i \in 1..(2 * k) |-> B(i)]
<1>5. Marshal(m) = <<t>> \o ints \o a
  BY <1>3, <1>4 DEF Marshal
<1>6. ASSUME NEW i \in 1..k PROVE F[Layout(t)[i]] \in Word
  <2>1. Layout(t)[i] \in Range(Layout(t))
    BY <1>4 DEF Range
  <2> QED BY <2>1
<1>7. ASSUME NEW i \in 1..(2 * k) PROVE B(i) \in Byte
  <2>0. (i + 1) \div IntSize \in 1..k /\ 2 - (i % IntSize) \in {1, 2}
    <3>1. k \in Nat
      OBVIOUS
    <3> QED BY <3>1, Halves
  <2>1. PICK q \in 1..k : q = (i + 1) \div IntSize
    BY <2>0
  <2>2. PICK w \in {1, 2} : w = 2 - (i % IntSize)
    BY <2>0
  <2>3. PutUint(F[Layout(t)[q]])[w] \in Byte
    BY <1>6, UintFacts
  <2> QED BY <2>1, <2>2, <2>3
<1>8. ints \in Seq(Byte) /\ Len(ints) = 2 * k /\ \A i \in 1..(2 * k) : ints[i] = B(i)
  <2>1. PICK n \in Nat : n = 2 * k
    OBVIOUS
  <2>2. ints \in [1..n -> Byte] /\ \A i \in 1..(2 * k) : ints[i] = B(i)
    <3> HIDE DEF B
    <3> QED BY <1>7, <2>1
  <2> HIDE DEF ints, B
  <2>3. ints \in Seq(Byte)
    BY <2>2, SeqDef
  <2>4. Len(ints) = n
    BY <2>2, <2>3, LenProperties
  <2> QED BY <2>1, <2>2, <2>3, <2>4
<1>9. /\ <<t>> \in Seq(Byte) /\ Len(<<t>>) = 1 /\ <<t>>[1] = t
  BY DEF MessageTypes, Byte
<1> HIDE DEF ints
<1>10. PICK p \in Seq(Byte) : /\ p = <<t>> \o ints /\ Len(p) = 1 + 2 * k /\ p[1] = t
                              /\ \A i \in 1..(2 * k) : p[1 + i] = ints[i]
  <2>1. PICK u \in Seq(Byte) : u = <<t>> /\ Len(u) = 1 /\ u[1] = t
    BY <1>9
  <2>2. /\ u \o ints \in Seq(Byte) /\ Len(u \o ints) = 1 + 2 * k
        /\ \A i \in 1..(1 + 2 * k) : (u \o ints)[i] = IF i <= 1 THEN u[i] ELSE ints[i - 1]
    BY <1>8, <2>1, ConcatProperties
  <2>3. (u \o ints)[1] = t
    BY <2>1, <2>2
  <2>4. ASSUME NEW i \in 1..(2 * k) PROVE (u \o ints)[1 + i] = ints[i]
    <3>1. 1 + i \in 1..(1 + 2 * k) /\ ~(1 + i <= 1) /\ (1 + i) - 1 = i
      OBVIOUS
    <3> QED BY <2>2, <3>1
  <2> QED BY <2>1, <2>2, <2>3, <2>4
<1>11. PICK b \in Seq(Byte) : b = p \o a
  BY ConcatProperties
<1>12. /\ Len(a) \in Nat /\ Len(b) = (1 + 2 * k) + Len(a)
       /\ \A i \in 1..((1 + 2 * k) + Len(a)) : b[i] = IF i <= 1 + 2 * k THEN p[i] ELSE a[i - (1 + 2 * k)]
  BY <1>10, <1>11, ConcatProperties, LenProperties
<1>13. b[1] = t
  BY <1>10, <1>12
<1>14. ASSUME NEW i \in 1..(2 * k) PROVE b[1 + i] = B(i)
  <2>1. 1 + i \in 1..((1 + 2 * k) + Len(a)) /\ 1 + i <= 1 + 2 * k
    BY <1>12
  <2>2. b[1 + i] = p[1 + i]
    BY <1>12, <2>1
  <2>3. p[1 + i] = ints[i] /\ ints[i] = B(i)
    BY <1>8, <1>10
  <2> QED BY <2>2, <2>3
<1>15. ASSUME NEW i \in 1..k
       PROVE  b[2 * i] = PutUint(F[Layout(t)[i]])[1] /\ b[2 * i + 1] = PutUint(F[Layout(t)[i]])[2]
  <2>1. 2 * i - 1 \in 1..(2 * k) /\ 2 * i \in 1..(2 * k) /\ 1 + (2 * i - 1) = 2 * i /\ 1 + 2 * i = 2 * i + 1
    OBVIOUS
  <2>2. /\ ((2 * i - 1) + 1) \div IntSize = i /\ 2 - ((2 * i - 1) % IntSize) = 1
        /\ ((2 * i) + 1) \div IntSize = i /\ 2 - ((2 * i) % IntSize) = 2
    <3>1. i \in Nat /\ i >= 1
      OBVIOUS
    <3> QED BY <3>1, HalvesOf
  <2>3. B(2 * i - 1) = PutUint(F[Layout(t)[i]])[1] /\ B(2 * i) = PutUint(F[Layout(t)[i]])[2]
    BY <2>2
  <2>4. b[1 + (2 * i - 1)] = B(2 * i - 1)
    <3> HIDE DEF B
    <3> QED BY <1>14, <2>1
  <2>5. b[1 + 2 * i] = B(2 * i)
    <3> HIDE DEF B
    <3> QED BY <1>14, <2>1
  <2> HIDE DEF B
  <2> QED BY <2>1, <2>3, <2>4, <2>5
<1>16. ASSUME NEW i \in 1..Len(a) PROVE b[(1 + 2 * k) + i] = a[i]
  <2>1. /\ (1 + 2 * k) + i \in 1..((1 + 2 * k) + Len(a)) /\ ~((1 + 2 * k) + i <= 1 + 2 * k)
        /\ ((1 + 2 * k) + i) - (1 + 2 * k) = i
    BY <1>12
  <2> QED BY <1>12, <2>1
<1>17. Marshal(m) = b /\ PayloadSize(m.type) = 2 * k
  BY <1>3, <1>4, <1>5, <1>10, <1>11
<1>18. 2 * k \in Nat
  OBVIOUS
<1> HIDE DEF B
<1>19. /\ Len(b) = 1 + PayloadSize(t) + Len(a)
       /\ \A i \in 1..Len(Layout(t)) : /\ b[2 * i] = PutUint(F[Layout(t)[i]])[1]
                                       /\ b[2 * i + 1] = PutUint(F[Layout(t)[i]])[2]
       /\ \A i \in 1..Len(a) : b[1 + PayloadSize(t) + i] = a[i]
  <2>1. Len(b) = 1 + PayloadSize(t) + Len(a)
    BY <1>4, <1>12
  <2>2. \A i \in 1..Len(Layout(t)) : /\ b[2 * i] = PutUint(F[Layout(t)[i]])[1]
                                     /\ b[2 * i + 1] = PutUint(F[Layout(t)[i]])[2]
    BY <1>4, <1>15
  <2>3. \A i \in 1..Len(a) : b[1 + PayloadSize(t) + i] = a[i]
    BY <1>4, <1>16
  <2> QED BY <2>1, <2>2, <2>3
<1>20. b \in Seq(Byte) /\ PayloadSize(t) \in Nat /\ Len(a) \in Nat
  BY <1>4, <1>12, <1>18
<1> QED BY <1>3, <1>13, <1>17, <1>19, <1>20, Zenon

(* Decoding a packet gives the message back. *)
LEMMA RoundTrip ==
    ASSUME NEW m, IsMessage(m)
    PROVE  Unmarshal(Marshal(m), 0) = m
<1>1. /\ m.type \in MessageTypes /\ m.fields \in [Range(Layout(m.type)) -> Word]
      /\ m.data \in Seq(Byte)
      /\ m = [type |-> m.type, fields |-> m.fields, data |-> m.data, zeros |-> 0]
  BY IsMessageFacts
<1>2. PICK t \in MessageTypes : t = m.type
  BY <1>1
<1>3. PICK F \in [Range(Layout(t)) -> Word], a \in Seq(Byte) :
        t = m.type /\ F = m.fields /\ a = m.data
  BY <1>2, <1>1
<1>4. PICK b \in Seq(Byte) : b = Marshal(m)
  BY MarshalFacts
<1>5. /\ PayloadSize(t) \in Nat /\ Len(a) \in Nat /\ Len(b) = 1 + PayloadSize(t) + Len(a) /\ b[1] = t
      /\ \A i \in 1..Len(Layout(t)) : /\ b[2 * i] = PutUint(F[Layout(t)[i]])[1]
                                      /\ b[2 * i + 1] = PutUint(F[Layout(t)[i]])[2]
      /\ \A i \in 1..Len(a) : b[1 + PayloadSize(t) + i] = a[i]
  BY <1>3, <1>4, MarshalFacts
<1> DEFINE names == Layout(b[1])
<1>6. names = Layout(t)
  BY <1>5
<1> HIDE DEF names
<1>7. /\ DOMAIN names = 1..Len(names) /\ Len(names) \in Nat
      /\ \A i, j \in DOMAIN names : names[i] = names[j] => i = j
  BY <1>6, LayoutFacts
<1>8. ASSUME NEW f \in Range(names)
      PROVE  Uint(b, IntSize * (CHOOSE i \in DOMAIN names : names[i] = f)) = F[f]
  <2>1. \E i \in DOMAIN names : names[i] = f
    BY DEF Range
  <2>2. PICK i \in DOMAIN names : i = CHOOSE j \in DOMAIN names : names[j] = f
    BY <2>1
  <2>3. names[i] = f
    BY <2>1, <2>2
  <2>4. i \in 1..Len(names) /\ i \in Nat
    BY <1>7
  <2>5. b[2 * i] = PutUint(F[f])[1] /\ b[2 * i + 1] = PutUint(F[f])[2]
    BY <1>5, <1>6, <2>3, <2>4
  <2>6. F[f] \in Word
    BY <1>6
  <2>7. PutUint(F[f])[1] * 256 + PutUint(F[f])[2] = F[f]
    BY <2>6, UintFacts
  <2> QED BY <2>2, <2>5, <2>7 DEF Uint, IntSize
<1>9. [f \in Range(names) |-> Uint(b, IntSize * (CHOOSE i \in DOMAIN names : names[i] = f))] = F
  <2> DEFINE U(f) == Uint(b, IntSize * (CHOOSE i \in DOMAIN names : names[i] = f))
  <2>1. \A f \in Range(names) : U(f) = F[f]
    BY <1>8
  <2>2. [f \in Range(names) |-> U(f)] = F
    <3> HIDE DEF U
    <3> QED BY <1>6, <2>1
  <2> QED BY <2>2
<1>10. SubSeq(b, 2 + PayloadSize(t), Len(b)) = a
  <2>1. PICK n \in Nat : n = 2 + PayloadSize(t)
    BY <1>5
  <2>2. PICK l \in Nat : l = Len(b)
    BY <1>5
  <2>3. n >= 1 /\ n <= l + 1 /\ l <= Len(b) /\ (l + 1) - n = Len(a)
    BY <1>5, <2>1, <2>2
  <2>4. PICK c \in Seq(Byte) : /\ c = SubSeq(b, n, l) /\ Len(c) = (l + 1) - n
                               /\ \A i \in 1..((l + 1) - n) : c[i] = b[(n + i) - 1]
    <3>1. /\ SubSeq(b, n, l) \in Seq(Byte) /\ Len(SubSeq(b, n, l)) = (l + 1) - n
          /\ \A i \in 1..((l + 1) - n) : SubSeq(b, n, l)[i] = b[(n + i) - 1]
      BY <2>3, Slice
    <3> QED BY <3>1
  <2>5. ASSUME NEW i \in 1..Len(a) PROVE c[i] = a[i]
    <3>1. (n + i) - 1 = 1 + PayloadSize(t) + i
      BY <1>5, <2>1
    <3>2. c[i] = b[(n + i) - 1]
      BY <2>3, <2>4
    <3> QED BY <1>5, <3>1, <3>2
  <2>6. c = a
    BY <2>3, <2>4, <2>5, SeqEqual
  <2> QED BY <2>1, <2>2, <2>4, <2>6
<1>11. Unmarshal(b, 0) = [type |-> t, fields |-> F, data |-> a, zeros |-> 0]
  <2>1. SubSeq(b, 2 + PayloadSize(b[1]), Len(b)) = a
    BY <1>5, <1>10
  <2> QED BY <1>5, <1>9, <2>1, Zenon DEF Unmarshal, names
<1> QED BY <1>1, <1>3, <1>4, <1>11
-----------------------------------------------------------------------------
Bytes == input.bytes

InputType ==
    /\ input \in Inputs /\ input.proto \in {"qmux", "tls", "http"}
    /\ Bytes \in Seq(Byte) /\ pos \in 0..Len(Bytes)
    /\ tee \in Seq(Byte) /\ served \in Seq(Byte)

(* Nothing is kept of a qmux stream; of the others, what has been served   *)
(* and what is kept are together what has been read.                       *)
Kept ==
    IF input.proto = "qmux" THEN served = <<>> /\ tee = <<>>
    ELSE served \o tee = SubSeq(Bytes, 1, pos)

(* Where the reader is, what it has found and what the owner has read. *)
Place ==
    /\ pc \in {"type", "rest", "data"} <=> input.proto = "qmux" /\ pc # "end"
    /\ pc = "replay" => input.proto # "qmux" /\ outcome # None /\ outcome[1] = "host"
    /\ pc \notin {"replay", "end"} => outcome = None /\ served = <<>>
    /\ pc = "end" /\ outcome[1] = "host" => input.proto # "qmux" /\ tee = <<>> /\ pos = Len(Bytes)
    /\ pc = "end" => outcome # None

ReplayInv == InputType /\ Kept /\ Place
-----------------------------------------------------------------------------
(* A segment continues what has been read. *)
LEMMA SegmentFacts ==
    ASSUME InputType, NEW max, NEW s \in Segments(max)
    PROVE  /\ s \in Seq(Byte) /\ Len(s) \in Nat /\ pos + Len(s) \in 0..Len(Bytes)
           /\ SubSeq(Bytes, 1, pos) \o s = SubSeq(Bytes, 1, pos + Len(s))
           /\ Len(s) >= 1 /\ Len(s) <= max /\ s = SubSeq(Bytes, pos + 1, pos + Len(s))
<1>1. Bytes \in Seq(Byte) /\ pos \in Nat /\ Len(Bytes) \in Nat /\ pos <= Len(Bytes)
  BY LenProperties DEF InputType
<1>2. PICK n \in 1..(Len(Bytes) - pos) : n <= max /\ s = SubSeq(Bytes, pos + 1, pos + n)
  BY DEF Segments, Bytes
<1>3. n \in Nat /\ n >= 1 /\ pos + n <= Len(Bytes) /\ (pos + n) - (pos + 1) + 1 = n
  BY <1>1, <1>2
<1>4. s \in Seq(Byte) /\ Len(s) = n
  <2>1. \A i \in (pos + 1)..(pos + n) : i \in 1..Len(Bytes)
    BY <1>1, <1>3
  <2>2. PICK S : S = Byte
    OBVIOUS
  <2>3. \A i \in (pos + 1)..(pos + n) : Bytes[i] \in S
    BY <1>1, <2>1, <2>2, ElementOfSeq
  <2>4. pos + 1 \in Int /\ pos + n \in Int /\ pos + 1 <= pos + n
    BY <1>1, <1>3
  <2> QED BY <1>2, <1>3, <2>2, <2>3, <2>4, SubSeqProperties
<1>5. SubSeq(Bytes, 1, pos) \o SubSeq(Bytes, pos + 1, pos + n) = SubSeq(Bytes, 1, pos + n)
  <2>1. /\ 1 \in 1..(Len(Bytes) + 1) /\ pos \in (1 - 1)..Len(Bytes) /\ pos + n \in pos..Len(Bytes)
    BY <1>1, <1>3
  <2> QED BY <1>1, <2>1, ConcatAdjacentSubSeq
<1> QED BY <1>1, <1>2, <1>3, <1>4, <1>5

(* A muxer reads a segment and keeps it. *)
LEMMA TeeKeeps ==
    ASSUME ReplayInv, input.proto # "qmux", NEW max, NEW s \in Segments(max),
           UNCHANGED input, pos' = pos + Len(s), tee' = tee \o s, served' = served
    PROVE  InputType' /\ Kept'
<1>1. InputType /\ Kept
  BY DEF ReplayInv
<1>2. /\ s \in Seq(Byte) /\ pos + Len(s) \in 0..Len(Bytes)
      /\ SubSeq(Bytes, 1, pos) \o s = SubSeq(Bytes, 1, pos + Len(s))
  BY <1>1, SegmentFacts
<1>3. served \o (tee \o s) = (served \o tee) \o s /\ tee \o s \in Seq(Byte)
  <2>1. PICK S : S = Byte /\ served \in Seq(S) /\ tee \in Seq(S) /\ s \in Seq(S)
    BY <1>1, <1>2 DEF InputType
  <2>2. (served \o tee) \o s = served \o (tee \o s)
    BY <2>1, ConcatAssociative
  <2>3. tee \o s \in Seq(S)
    BY <2>1, ConcatProperties
  <2> QED BY <2>1, <2>2, <2>3
<1>4. served \o (tee \o s) = SubSeq(Bytes, 1, pos + Len(s))
  BY <1>1, <1>2, <1>3 DEF Kept
<1> QED BY <1>1, <1>2, <1>3, <1>4 DEF InputType, Kept, Bytes

(* The steps of the invariant: the initial states, and each action.        *)
LEMMA ReplayInit == Init => ReplayInv
<1> SUFFICES ASSUME Init PROVE ReplayInv
  OBVIOUS
<1>1. InputType
  BY FramingAssumption, LenProperties, EmptySeq DEF Init, InputType, Bytes
<1>2. Kept
  <2>1. SubSeq(Bytes, 1, 0) = <<>> /\ <<>> \o <<>> = <<>>
    BY <1>1, SubSeqEmpty, ConcatEmptySeq, EmptySeq DEF InputType
  <2> QED BY <2>1 DEF Init, Kept
<1>3. Place
  <2>1. /\ pc = "type" <=> input.proto = "qmux"
        /\ pc \in {"type", "header", "head"}
    BY <1>1 DEF Init, InputType
  <2> QED BY <2>1 DEF Init, Place
<1> QED BY <1>1, <1>2, <1>3 DEF ReplayInv

(* The muxer has its outcome. *)
LEMMA Settled ==
    ASSUME ReplayInv, NEW o, o # None, input.proto = "qmux" => o[1] # "host",
           pc \notin {"replay", "end"}, Settle(o), UNCHANGED <<input, pos, tee, served>>
    PROVE  ReplayInv'
<1>1. InputType' /\ Kept'
  BY DEF ReplayInv, InputType, Kept, Bytes
<1>2. /\ outcome' = o /\ served = <<>>
      /\ \/ pc' = "replay" /\ o[1] = "host"
         \/ pc' = "end" /\ o[1] # "host"
  BY DEF Settle, ReplayInv, Place
<1>3. Place'
  BY <1>2 DEF Place, ReplayInv, InputType
<1> QED BY <1>1, <1>3 DEF ReplayInv

(* An outcome is no None, and an error no host.                            *)
LEMMA Outcomes ==
    ASSUME NEW x
    PROVE  /\ Err(x) # None /\ Err(x)[1] = "error" /\ Err(x)[1] # "host"
           /\ Host(x) # None /\ Host(x)[1] = "host"
  BY DEF Err, Host, None

LEMMA HeaderErrors ==
    ASSUME NEW b, HeaderError(b) # None
    PROVE  \E x : HeaderError(b) = Err(x)
  BY DEF HeaderError

LEMMA HelloOutcomes ==
    ASSUME NEW h, HelloOutcome(h) # None
    PROVE  \E x : HelloOutcome(h) = Err(x) \/ HelloOutcome(h) = Host(x)
  BY Zenon DEF HelloOutcome

(* Steps that move the reader of a muxer on without reading. *)
LEMMA Stays ==
    ASSUME ReplayInv, input.proto # "qmux", pc \notin {"replay", "end"},
           pc' \in {"header", "payload", "head"}, UNCHANGED <<input, pos, outcome, tee, served>>
    PROVE  ReplayInv'
<1>1. InputType' /\ Kept'
  BY DEF ReplayInv, InputType, Kept, Bytes
<1>2. Place'
  BY DEF ReplayInv, Place
<1> QED BY <1>1, <1>2 DEF ReplayInv

LEMMA ReplayDecode == ReplayInv /\ Decode => ReplayInv'
<1> SUFFICES ASSUME ReplayInv, Decode PROVE ReplayInv'
  OBVIOUS
<1>1. input.proto = "qmux" /\ served = <<>> /\ tee = <<>> /\ outcome = None /\ InputType
  BY DEF Decode, ReadType, ReadRest, ReadData, ReplayInv, Place, Kept
<1>2. UNCHANGED <<input, tee, served>> /\ \E max : \E s \in Segments(max) : pos' = pos + Len(s)
  BY DEF Decode, ReadType, ReadRest, ReadData
<1>3. pos' \in 0..Len(Bytes)
  BY <1>1, <1>2, SegmentFacts
<1>4. InputType' /\ Kept'
  BY <1>1, <1>2, <1>3 DEF InputType, Kept, Bytes
<1>5. \/ pc' \in {"type", "rest", "data"} /\ UNCHANGED outcome
      \/ pc' = "end" /\ outcome' = Err("type")
  <2>1. CASE ReadType
    BY <2>1 DEF ReadType
  <2>2. CASE ReadRest
    BY <2>2 DEF ReadRest, Decoded
  <2>3. CASE ReadData
    BY <2>3 DEF ReadData, Decoded
  <2> QED BY <2>1, <2>2, <2>3 DEF Decode
<1>6. Place'
  BY <1>1, <1>2, <1>5, Outcomes DEF Place
<1> QED BY <1>4, <1>6 DEF ReplayInv

LEMMA ReplayTLS == ReplayInv /\ TLS => ReplayInv'
<1> SUFFICES ASSUME ReplayInv, TLS PROVE ReplayInv'
  OBVIOUS
<1>1. pc \in {"header", "payload"} /\ input.proto # "qmux"
  BY DEF TLS, FillBlock, CheckHeader, TakeRecord, ReplayInv, Place
<1>2. CASE FillBlock
  <2>1. /\ UNCHANGED <<input, pc, outcome, served>>
        /\ \E max : \E s \in Segments(max) : pos' = pos + Len(s) /\ tee' = tee \o s
    BY <1>2 DEF FillBlock, Tee
  <2>2. InputType' /\ Kept'
    BY <1>1, <2>1, TeeKeeps
  <2>3. Place'
    BY <1>1, <2>1 DEF ReplayInv, Place
  <2> QED BY <2>2, <2>3 DEF ReplayInv
<1>3. CASE CheckHeader
  <2>1. /\ UNCHANGED <<input, pos, tee, served>>
        /\ (\E x : Settle(Err(x))) \/ (pc' = "payload" /\ UNCHANGED outcome)
    BY <1>3, HeaderErrors DEF CheckHeader
  <2> QED BY <1>1, <2>1, Outcomes, Settled, Stays
<1>4. CASE TakeRecord
  <2>1. /\ UNCHANGED <<input, pos, tee, served>>
        /\ \/ \E x : Settle(Err(x))
           \/ \E x : Settle(Host(x))
           \/ pc' = "header" /\ UNCHANGED outcome
    BY <1>4, HelloOutcomes DEF TakeRecord
  <2> QED BY <1>1, <2>1, Outcomes, Settled, Stays
<1> QED BY <1>2, <1>3, <1>4 DEF TLS

LEMMA ReplayHTTP == ReplayInv /\ HTTP => ReplayInv'
<1> SUFFICES ASSUME ReplayInv, HTTP PROVE ReplayInv'
  OBVIOUS
<1>1. pc = "head" /\ input.proto # "qmux"
  BY DEF HTTP, FillRequest, TakeRequest, ReplayInv, Place
<1>2. CASE FillRequest
  <2>1. /\ UNCHANGED <<input, pc, outcome, served>>
        /\ \E max : \E s \in Segments(max) : pos' = pos + Len(s) /\ tee' = tee \o s
    BY <1>2 DEF FillRequest, Tee
  <2>2. InputType' /\ Kept'
    BY <1>1, <2>1, TeeKeeps
  <2>3. Place'
    BY <1>1, <2>1 DEF ReplayInv, Place
  <2> QED BY <2>2, <2>3 DEF ReplayInv
<1>3. CASE TakeRequest
  <2>1. /\ UNCHANGED <<input, pos, tee, served>>
        /\ (\E x : Settle(Err(x))) \/ (\E x : Settle(Host(x)))
    BY <1>3 DEF TakeRequest
  <2> QED BY <1>1, <2>1, Outcomes, Settled
<1> QED BY <1>2, <1>3 DEF HTTP

LEMMA ReplayReadFails == ReplayInv /\ ReadFails => ReplayInv'
<1> SUFFICES ASSUME ReplayInv, ReadFails PROVE ReplayInv'
  OBVIOUS
<1>1. /\ UNCHANGED <<input, pos, tee, served>> /\ Settle(Err("eof"))
      /\ pc \notin {"replay", "end"}
  BY DEF ReadFails
<1> QED BY <1>1, Outcomes, Settled

(* sharedConn.Read moves bytes from the buffer to the owner, and reads on  *)
(* only when the buffer is empty.                                          *)
LEMMA ReplayServes ==
    ASSUME ReplayInv, NEW max \in 1..MaxRead, ReplayBuffer(max) \/ ReadThrough(max)
    PROVE  ReplayInv'
<1>1. /\ InputType /\ Kept /\ Place /\ pc = "replay" /\ UNCHANGED <<input, outcome>>
      /\ input.proto # "qmux" /\ outcome # None /\ outcome[1] = "host" /\ max \in Nat
  BY FramingAssumption DEF ReplayInv, Place, ReplayBuffer, ReadThrough
<1>2. PICK S : S = Byte /\ tee \in Seq(S) /\ served \in Seq(S)
  BY <1>1 DEF InputType
<1>3. CASE ReplayBuffer(max)
  <2>1. Len(tee) \in Nat /\ tee # <<>>
    BY <1>2, <1>3, LenProperties DEF ReplayBuffer
  <2>2. PICK n \in 0..Len(tee) : /\ served' = served \o SubSeq(tee, 1, n)
                                 /\ tee' = SubSeq(tee, n + 1, Len(tee))
    <3>1. PICK n : /\ n = IF max < Len(tee) THEN max ELSE Len(tee)
                   /\ served' = served \o SubSeq(tee, 1, n) /\ tee' = From(tee, n + 1)
      BY <1>3 DEF ReplayBuffer
    <3>2. n \in 0..Len(tee)
      BY <1>1, <2>1, <3>1
    <3> QED BY <3>1, <3>2 DEF From
  <2>3. UNCHANGED <<pos, pc>>
    BY <1>3 DEF ReplayBuffer
  <2>4. SubSeq(tee, 1, n) \o SubSeq(tee, n + 1, Len(tee)) = tee
    <3>1. /\ 1 \in 1..(Len(tee) + 1) /\ n \in (1 - 1)..Len(tee) /\ Len(tee) \in n..Len(tee)
      BY <2>1, <2>2
    <3>2. SubSeq(tee, 1, n) \o SubSeq(tee, n + 1, Len(tee)) = SubSeq(tee, 1, Len(tee))
      BY <1>2, <3>1, ConcatAdjacentSubSeq
    <3> QED BY <1>2, <3>2, SubSeqFull
  <2>5. SubSeq(tee, 1, n) \in Seq(S) /\ SubSeq(tee, n + 1, Len(tee)) \in Seq(S)
    <3>1. \A i \in 1..Len(tee) : tee[i] \in S
      BY <1>2, ElementOfSeq
    <3>2. /\ \A i \in 1..n : tee[i] \in S
          /\ \A i \in (n + 1)..Len(tee) : tee[i] \in S
          /\ 1 \in Int /\ n \in Int /\ n + 1 \in Int /\ Len(tee) \in Int
      BY <2>1, <2>2, <3>1
    <3> QED BY <3>2, SubSeqProperties
  <2>6. served' \o tee' = served \o tee
    <3>1. PICK a \in Seq(S), b \in Seq(S) : a = SubSeq(tee, 1, n) /\ b = SubSeq(tee, n + 1, Len(tee))
      BY <2>5
    <3>2. served \in Seq(S)
      BY <1>2
    <3>3. (served \o a) \o b = served \o (a \o b)
      BY <3>2, ConcatAssociative
    <3> QED BY <2>2, <2>4, <3>1, <3>3
  <2>7. served' \in Seq(S) /\ tee' \in Seq(S)
    BY <1>2, <2>2, <2>5, ConcatProperties
  <2>8. InputType'
    BY <1>1, <1>2, <2>3, <2>7 DEF InputType, Bytes
  <2>9. Kept'
    BY <1>1, <2>3, <2>6 DEF Kept, Bytes
  <2>10. Place'
    BY <1>1, <2>3 DEF Place
  <2> QED BY <2>8, <2>9, <2>10 DEF ReplayInv
<1>4. CASE ReadThrough(max)
  <2>1. tee = <<>> /\ UNCHANGED tee /\ served = SubSeq(Bytes, 1, pos)
    BY <1>1, <1>2, <1>4, ConcatEmptySeq DEF ReadThrough, Kept
  <2>2. CASE \E s \in Segments(max) : pos' = pos + Len(s) /\ served' = served \o s /\ UNCHANGED pc
    <3>1. PICK s \in Segments(max) : pos' = pos + Len(s) /\ served' = served \o s /\ UNCHANGED pc
      BY <2>2
    <3>2. /\ s \in Seq(Byte) /\ pos + Len(s) \in 0..Len(Bytes)
          /\ SubSeq(Bytes, 1, pos) \o s = SubSeq(Bytes, 1, pos + Len(s))
      BY <1>1, SegmentFacts
    <3>3. served' \in Seq(S) /\ served' \o tee' = served'
      BY <1>2, <2>1, <3>1, <3>2, ConcatProperties, ConcatEmptySeq
    <3>4. InputType'
      BY <1>1, <1>2, <2>1, <3>1, <3>2, <3>3 DEF InputType, Bytes
    <3>5. Kept'
      BY <1>1, <2>1, <3>1, <3>2, <3>3 DEF Kept, Bytes
    <3>6. Place'
      BY <1>1, <3>1 DEF Place
    <3> QED BY <3>4, <3>5, <3>6 DEF ReplayInv
  <2>3. CASE EndOfStream /\ pc' = "end" /\ UNCHANGED <<pos, served>>
    <3>1. InputType' /\ Kept'
      BY <1>1, <2>1, <2>3 DEF InputType, Kept, Bytes
    <3>2. Place'
      BY <1>1, <2>1, <2>3 DEF Place, EndOfStream, Bytes
    <3> QED BY <3>1, <3>2 DEF ReplayInv
  <2> QED BY <1>4, <2>2, <2>3 DEF ReadThrough
<1> QED BY <1>3, <1>4

LEMMA ReplayStep == ReplayInv /\ [Next]_vars => ReplayInv'
<1> SUFFICES ASSUME ReplayInv, [Next]_vars PROVE ReplayInv'
  OBVIOUS
<1>1. CASE UNCHANGED vars
  BY <1>1 DEF vars, ReplayInv, InputType, Kept, Place, Bytes
<1>2. CASE Next
  BY <1>2, ReplayDecode, ReplayTLS, ReplayHTTP, ReplayReadFails, ReplayServes DEF Next
<1> QED BY <1>1, <1>2

LEMMA ReplayExactHolds == ReplayInv => ReplayExact
<1> SUFFICES ASSUME ReplayInv PROVE ReplayExact
  OBVIOUS
<1>1. InputType /\ Kept /\ Place
  BY DEF ReplayInv
<1>2. PICK S : /\ S = Byte /\ tee \in Seq(S) /\ served \in Seq(S) /\ Bytes \in Seq(S)
  BY <1>1 DEF InputType
<1>3. Len(served) \in Nat /\ Len(tee) \in Nat /\ Len(Bytes) \in Nat /\ pos \in 0..Len(Bytes)
  BY <1>1, <1>2, LenProperties DEF InputType
<1>4. IsPrefix(served, input.bytes)
  <2>1. CASE served = <<>>
    <3>1. Len(served) = 0 /\ SubSeq(served, 1, 0) = <<>> /\ SubSeq(Bytes, 1, 0) = <<>>
      BY <2>1, SubSeqEmpty, EmptySeq
    <3> QED BY <1>3, <3>1 DEF IsPrefix, Bytes
  <2>2. CASE served # <<>>
    <3>1. served \o tee = SubSeq(Bytes, 1, pos)
      BY <1>1, <2>2 DEF Kept
    <3>2. /\ Len(served \o tee) = Len(served) + Len(tee)
          /\ \A i \in 1..(Len(served) + Len(tee)) :
                (served \o tee)[i] = IF i <= Len(served) THEN served[i] ELSE tee[i - Len(served)]
      BY <1>2, ConcatProperties
    <3>3. /\ Len(SubSeq(Bytes, 1, pos)) = pos
          /\ \A i \in 1..pos : SubSeq(Bytes, 1, pos)[i] = Bytes[i]
      <4>0. \A i \in 1..Len(Bytes) : Bytes[i] \in S
        BY <1>2, ElementOfSeq
      <4>1. \A i \in 1..pos : Bytes[i] \in S
        BY <1>3, <4>0
      <4>2. /\ Len(SubSeq(Bytes, 1, pos)) = IF 1 <= pos THEN pos - 1 + 1 ELSE 0
            /\ \A i \in 1..(pos - 1 + 1) : SubSeq(Bytes, 1, pos)[i] = Bytes[1 + i - 1]
        BY <1>3, <4>1, SubSeqProperties
      <4> QED BY <1>3, <4>2
    <3>4. Len(served) <= Len(Bytes) /\ \A i \in 1..Len(served) : served[i] = Bytes[i]
      BY <1>3, <3>1, <3>2, <3>3
    <3>5. SubSeq(served, 1, Len(served)) = served
      BY <1>2, SubSeqFull
    <3>6. SubSeq(Bytes, 1, Len(served)) = served
      <4>1. \A i \in 1..Len(served) : Bytes[i] \in S
        BY <1>2, <1>3, <3>4, ElementOfSeq
      <4>2. /\ SubSeq(Bytes, 1, Len(served)) \in Seq(S)
            /\ Len(SubSeq(Bytes, 1, Len(served))) =
                  IF 1 <= Len(served) THEN Len(served) - 1 + 1 ELSE 0
            /\ \A i \in 1..(Len(served) - 1 + 1) :
                  SubSeq(Bytes, 1, Len(served))[i] = Bytes[1 + i - 1]
        BY <1>3, <4>1, SubSeqProperties
      <4>3. /\ Len(SubSeq(Bytes, 1, Len(served))) = Len(served)
            /\ \A i \in 1..Len(served) : SubSeq(Bytes, 1, Len(served))[i] = served[i]
        BY <1>3, <3>4, <4>2
      <4> QED BY <1>2, <4>2, <4>3, SeqEqual
    <3> QED BY <3>4, <3>5, <3>6 DEF IsPrefix, Bytes
  <2> QED BY <2>1, <2>2
<1>5. ASSUME pc = "end", outcome[1] = "host" PROVE served = input.bytes
  <2>1. tee = <<>> /\ pos = Len(Bytes) /\ input.proto # "qmux"
    BY <1>1, <1>5 DEF Place
  <2>2. served \o tee = SubSeq(Bytes, 1, Len(Bytes))
    BY <1>1, <2>1 DEF Kept
  <2>3. served \o tee = served
    BY <1>2, <2>1, ConcatEmptySeq
  <2> QED BY <1>2, <2>2, <2>3, SubSeqFull DEF Bytes
<1> QED BY <1>4, <1>5 DEF ReplayExact

(* The owner of a connection that HTTP or TLS has looked into reads        *)
(* exactly what the peer sent (shared.go:29-52), although the muxer has    *)
(* read ahead by an amount that depends on the segments.                   *)
THEOREM FramingReplayExact == Spec => []ReplayExact
  BY ReplayInit, ReplayStep, ReplayExactHolds, PTL DEF Spec
-----------------------------------------------------------------------------
(* The messages that Decode can return: Data has as many bytes as Length   *)
(* announces, of which the last may never have been read.                  *)
Received ==
    {m \in [type : MessageTypes, fields : UNION {[Range(Layout(t)) -> Word] : t \in MessageTypes},
            data : Seq(Byte), zeros : Nat] :
        Len(m.data) + m.zeros = IF m.type = DataType THEN m.fields.Length ELSE 0}

Buffers ==
    /\ pc \in {"type", "rest", "data", "header", "payload", "head", "replay", "end"}
    /\ pc = "rest" => buf \in Seq(Byte) /\ Len(buf) = 1 /\ buf[1] \in MessageTypes
    /\ pc = "data" => /\ buf \in Seq(Byte) /\ Len(buf) = 5 /\ buf[1] = DataType
                      /\ Uint(buf, 2 + IntSize) > 0
    /\ pc \in {"header", "payload"} =>
          buf \in Seq(Byte) /\ Len(buf) <= Room(RecordHeader + MaxCiphertext)
    /\ pc = "payload" => Len(buf) >= RecordHeader /\ buf[3] <= MaxCiphertext

TypeInv == ReplayInv /\ Buffers /\ decoded \in Seq(Received) /\ short \in BOOLEAN

(* An integer that is read from a packet.                                  *)
LEMMA UintWord ==
    ASSUME NEW b \in Seq(Byte), NEW i \in Nat, i >= 1, i + 1 <= Len(b)
    PROVE  Uint(b, i) \in Word /\ Uint(b, i) \in Nat
<1>1. i \in 1..Len(b) /\ i + 1 \in 1..Len(b)
  BY LenProperties
<1>2. b[i] \in Byte
  BY <1>1, ElementOfSeq
<1>3. b[i + 1] \in Byte
  BY <1>1, ElementOfSeq
<1>4. PICK x \in Nat, y \in Nat : x = b[i] /\ y = b[i + 1] /\ x <= 255 /\ y <= 255
  BY <1>2, <1>3, ByteFacts
<1>5. PICK v \in Nat : v = x * 256 + y /\ v <= 65535
  BY <1>4
<1>6. v \in Word
  <2>1. MaxWord \in Nat /\ v <= MaxWord
    BY <1>5 DEF MaxWord
  <2> QED BY <2>1 DEF Word
<1> QED BY <1>4, <1>5, <1>6 DEF Uint

(* The place of Length in a Data message.                                  *)
LEMMA LengthIndex ==
    (CHOOSE i \in DOMAIN Layout(DataType) : Layout(DataType)[i] = "Length") = 2
  BY LayoutFacts DEF MessageTypes, DataType

(* What a packet decodes to, filled or not. *)
LEMMA UnmarshalFacts ==
    ASSUME NEW b \in Seq(Byte), b[1] \in MessageTypes, Len(b) >= 1 + PayloadSize(b[1]), NEW z \in Nat
    PROVE  \E m \in [type : MessageTypes, data : Seq(Byte), zeros : Nat,
                     fields : UNION {[Range(Layout(t)) -> Word] : t \in MessageTypes}] :
              /\ m = Unmarshal(b, z) /\ m.type = b[1] /\ m.zeros = z
              /\ Len(m.data) = Len(b) - (1 + PayloadSize(b[1]))
              /\ b[1] = DataType => m.fields.Length = Uint(b, 2 + IntSize)
<1>1. PICK t \in MessageTypes : t = b[1]
  OBVIOUS
<1>2. /\ DOMAIN Layout(t) = 1..Len(Layout(t)) /\ Len(Layout(t)) \in Nat
      /\ PayloadSize(t) = 2 * Len(Layout(t)) /\ Len(b) \in Nat
  BY LayoutFacts, LenProperties
<1> DEFINE names == Layout(b[1])
<1> DEFINE U(f) == Uint(b, IntSize * (CHOOSE i \in DOMAIN names : names[i] = f))
<1> DEFINE F == [f \in Range(names) |-> U(f)]
<1> DEFINE a == SubSeq(b, 2 + PayloadSize(b[1]), Len(b))
<1>3. names = Layout(t)
  BY <1>1
<1>4. ASSUME NEW f \in Range(names) PROVE U(f) \in Word
  <2> HIDE DEF names
  <2>1. \E i \in DOMAIN names : names[i] = f
    BY DEF Range
  <2>2. PICK i \in DOMAIN names : i = CHOOSE j \in DOMAIN names : names[j] = f
    BY <2>1
  <2>3. i \in 1..Len(Layout(t)) /\ i \in Nat
    BY <1>2, <1>3
  <2>4. 2 * i \in Nat /\ 2 * i >= 1 /\ 2 * i + 1 <= Len(b)
    BY <1>1, <1>2, <2>3
  <2>5. Uint(b, 2 * i) \in Word
    BY <2>4, UintWord
  <2> QED BY <2>2, <2>5 DEF IntSize
<1>5. F \in UNION {[Range(Layout(u)) -> Word] : u \in MessageTypes}
  <2>1. F \in [Range(names) -> Word]
    <3> HIDE DEF names, U
    <3> QED BY <1>4
  <2> HIDE DEF names, F
  <2> QED BY <1>3, <2>1
<1>6. a \in Seq(Byte) /\ Len(a) = Len(b) - (1 + PayloadSize(b[1]))
  <2>1. PICK n \in Nat, l \in Nat : n = 2 + PayloadSize(b[1]) /\ l = Len(b)
    BY <1>1, <1>2
  <2>2. n >= 1 /\ n <= l + 1 /\ l <= Len(b)
    BY <1>1, <1>2, <2>1
  <2>3. SubSeq(b, n, l) \in Seq(Byte) /\ Len(SubSeq(b, n, l)) = (l + 1) - n
    BY <2>2, Slice
  <2>4. (l + 1) - n = Len(b) - (1 + PayloadSize(b[1]))
    BY <1>1, <1>2, <2>1
  <2> QED BY <2>1, <2>3, <2>4
<1>7. ASSUME b[1] = DataType PROVE F["Length"] = Uint(b, 2 + IntSize)
  <2>1. names = Layout(DataType) /\ "Length" \in Range(Layout(DataType))
    BY <1>7, LayoutFacts DEF DataType, MessageTypes
  <2>2. F["Length"] = U("Length")
    <3> HIDE DEF names, U
    <3> QED BY <2>1
  <2>3. U("Length") = Uint(b, IntSize * 2)
    <3> HIDE DEF names
    <3> QED BY <2>1, LengthIndex
  <2>4. IntSize * 2 = 2 + IntSize
    BY DEF IntSize
  <2> QED BY <2>2, <2>3, <2>4
<1>8. Unmarshal(b, z) = [type |-> b[1], fields |-> F, data |-> a, zeros |-> z]
  BY Zenon DEF Unmarshal
<1> HIDE DEF F, a
<1> QED BY <1>5, <1>6, <1>7, <1>8

(* A slice is filled up to its length. *)
LEMMA PaddedFacts ==
    ASSUME NEW s \in Seq(Byte), NEW n \in Nat, Len(s) <= n
    PROVE  Padded(s, n) \in Seq(Byte) /\ Len(Padded(s, n)) = n
<1>1. PICK k \in Nat : k = n - Len(s)
  BY LenProperties
<1>2. PICK z : z = [i \in 1..k |-> 0]
  OBVIOUS
<1>3. z \in [1..k -> Byte]
  BY <1>2 DEF Byte
<1>4. z \in Seq(Byte)
  BY <1>3, SeqDef
<1>5. Len(z) = k
  BY <1>3, <1>4, LenProperties
<1>6. s \o z \in Seq(Byte) /\ Len(s \o z) = Len(s) + Len(z)
  BY <1>4, ConcatProperties
<1> QED BY <1>1, <1>2, <1>5, <1>6, LenProperties DEF Padded

(* payloadSizes has an entry for every type of message, and no other.      *)
LEMMA PayloadSizes ==
    /\ \A t \in MessageTypes : PayloadSize(t) \in Nat /\ PayloadSize(t) >= 2
    /\ \A t : PayloadSize(t) # 0 => t \in MessageTypes
    /\ DataType \in MessageTypes /\ PayloadSize(DataType) = 4
<1>1. ASSUME NEW t \in MessageTypes PROVE PayloadSize(t) \in Nat /\ PayloadSize(t) >= 2
  BY LayoutFacts
<1>2. \A t : PayloadSize(t) # 0 => t \in MessageTypes
  BY DEF PayloadSize
<1>3. DataType \in MessageTypes
  BY DEF DataType, MessageTypes
<1>4. PayloadSize(DataType) = 4
  BY DEF PayloadSize, DataType, MessageTypes, IntSize
<1> QED BY <1>1, <1>2, <1>3, <1>4

(* What Decode returns from a packet, filled or not.                       *)
LEMMA DecodedType ==
    ASSUME NEW b \in Seq(Byte), b[1] \in MessageTypes, NEW z \in Nat,
           Len(b) >= 1 + PayloadSize(b[1]),
           (Len(b) - (1 + PayloadSize(b[1]))) + z = IF b[1] = DataType THEN Uint(b, 2 + IntSize) ELSE 0,
           decoded \in Seq(Received), Decoded(b, z)
    PROVE  decoded' \in Seq(Received) /\ pc' = "type"
<1>1. PICK m \in [type : MessageTypes, data : Seq(Byte), zeros : Nat,
                  fields : UNION {[Range(Layout(t)) -> Word] : t \in MessageTypes}] :
        /\ m = Unmarshal(b, z) /\ m.type = b[1] /\ m.zeros = z
        /\ Len(m.data) = Len(b) - (1 + PayloadSize(b[1]))
        /\ b[1] = DataType => m.fields.Length = Uint(b, 2 + IntSize)
  BY UnmarshalFacts
<1>2. Len(m.data) + m.zeros = IF m.type = DataType THEN m.fields.Length ELSE 0
  BY <1>1
<1>3. m \in Received
  BY <1>1, <1>2 DEF Received
<1>4. decoded' = Append(decoded, m) /\ pc' = "type"
  BY <1>1 DEF Decoded
<1>5. Append(decoded, m) \in Seq(Received)
  BY <1>3, AppendProperties
<1> QED BY <1>4, <1>5

(* Steps that end in a place where buf is not looked at. *)
LEMMA Unlooked ==
    ASSUME pc' \in {"type", "head", "replay", "end"}
    PROVE  Buffers'
  BY DEF Buffers

(* A reader that has its outcome is done.                                  *)
LEMMA SettleEnds ==
    ASSUME NEW o, Settle(o)
    PROVE  pc' \in {"replay", "end"}
  BY DEF Settle

(* The steps of the Decoder, and of the muxers, keep the buffers typed.    *)
LEMMA TypesDecode == TypeInv /\ Decode => Buffers' /\ decoded' \in Seq(Received) /\ short' \in BOOLEAN
<1> SUFFICES ASSUME TypeInv, Decode PROVE Buffers' /\ decoded' \in Seq(Received) /\ short' \in BOOLEAN
  OBVIOUS
<1>1. InputType /\ Buffers /\ decoded \in Seq(Received) /\ short \in BOOLEAN
  BY DEF TypeInv, ReplayInv
<1>2. CASE ReadType
  <2>1. PICK s \in Segments(1) : /\ buf' = s
                                 /\ IF PayloadSize(s[1]) = 0 THEN pc' = "end" ELSE pc' = "rest"
    BY <1>2 DEF ReadType
  <2>2. s \in Seq(Byte) /\ Len(s) \in Nat /\ Len(s) >= 1 /\ Len(s) <= 1
    BY <1>1, SegmentFacts
  <2>3. UNCHANGED <<decoded, short>>
    BY <1>2 DEF ReadType
  <2>4. CASE PayloadSize(s[1]) = 0
    BY <1>1, <2>1, <2>3, <2>4, Unlooked
  <2>5. CASE PayloadSize(s[1]) # 0
    <3>1. pc' = "rest" /\ buf' \in Seq(Byte) /\ Len(buf') = 1 /\ buf'[1] \in MessageTypes
      <4>1. s[1] \in MessageTypes
        BY <2>5, PayloadSizes, Zenon
      <4>2. Len(s) = 1
        <5>1. PICK n \in Nat : n = Len(s)
          BY <2>2
        <5>2. n >= 1 /\ n <= 1
          BY <2>2, <5>1
        <5> QED BY <5>1, <5>2
      <4> QED BY <2>1, <2>2, <2>5, <4>1, <4>2
    <3>2. Buffers'
      BY <3>1 DEF Buffers
    <3> QED BY <1>1, <2>3, <3>2
  <2> QED BY <2>4, <2>5
<1>3. CASE ReadRest
  <2>1. PICK size : size = PayloadSize(buf[1])
    OBVIOUS
  <2>2. /\ size \in Nat /\ size >= 2 /\ buf[1] \in MessageTypes /\ buf \in Seq(Byte) /\ Len(buf) = 1
    BY <1>1, <1>3, <2>1, PayloadSizes DEF Buffers, ReadRest
  <2>3. PICK s \in Segments(size) :
          /\ short' = (short \/ Len(s) < size)
          /\ LET b == buf \o Padded(s, size)
             IN  IF b[1] = DataType /\ Uint(b, 2 + IntSize) > 0
                 THEN pc' = "data" /\ buf' = b /\ UNCHANGED decoded
                 ELSE Decoded(b, 0)
    BY <1>3, <2>1 DEF ReadRest
  <2>4. s \in Seq(Byte) /\ Len(s) \in Nat /\ Len(s) <= size
    BY <1>1, SegmentFacts
  <2>5. PICK p \in Seq(Byte) : p = Padded(s, size) /\ Len(p) = size
    BY <2>2, <2>4, PaddedFacts
  <2>6. PICK b \in Seq(Byte) : b = buf \o p
    BY <2>2, ConcatProperties
  <2>7. Len(b) = 1 + size /\ b[1] = buf[1]
    <3>1. /\ Len(b) = Len(buf) + Len(p)
          /\ \A i \in 1..(Len(buf) + Len(p)) : b[i] = IF i <= Len(buf) THEN buf[i] ELSE p[i - Len(buf)]
      BY <2>2, <2>5, <2>6, ConcatProperties
    <3>2. 1 \in 1..(Len(buf) + Len(p)) /\ 1 <= Len(buf)
      BY <2>2, <2>5
    <3> QED BY <2>2, <2>5, <3>1, <3>2
  <2>8. short' \in BOOLEAN
    BY <2>3
  <2>9. CASE b[1] = DataType /\ Uint(b, 2 + IntSize) > 0
    <3>1. pc' = "data" /\ buf' = b /\ UNCHANGED decoded
      BY <2>3, <2>5, <2>6, <2>9
    <3>2. Len(b) = 5
      BY <2>1, <2>7, <2>9, PayloadSizes
    <3>3. Buffers'
      BY <2>9, <3>1, <3>2 DEF Buffers
    <3> QED BY <1>1, <2>8, <3>1, <3>3
  <2>10. CASE ~(b[1] = DataType /\ Uint(b, 2 + IntSize) > 0)
    <3>1. Decoded(b, 0)
      BY <2>3, <2>5, <2>6, <2>10
    <3>2. b[1] = DataType => Uint(b, 2 + IntSize) = 0
      <4>1. SUFFICES ASSUME b[1] = DataType PROVE Uint(b, 2 + IntSize) = 0
        OBVIOUS
      <4>2. Len(b) = 5
        BY <2>1, <2>7, <4>1, PayloadSizes
      <4>3. PICK i \in Nat : i = 2 + IntSize /\ i >= 1 /\ i + 1 <= Len(b)
        BY <4>2 DEF IntSize
      <4>4. Uint(b, i) \in Nat
        BY <4>3, UintWord
      <4> QED BY <2>10, <4>1, <4>3, <4>4
    <3>3. (Len(b) - (1 + PayloadSize(b[1]))) + 0 = IF b[1] = DataType THEN Uint(b, 2 + IntSize) ELSE 0
      BY <2>1, <2>2, <2>7, <3>2
    <3>4. b[1] \in MessageTypes /\ Len(b) >= 1 + PayloadSize(b[1])
      BY <2>1, <2>2, <2>7
    <3>5. decoded' \in Seq(Received) /\ pc' = "type"
      BY <1>1, <3>1, <3>3, <3>4, DecodedType
    <3> QED BY <2>8, <3>5, Unlooked
  <2> QED BY <2>9, <2>10
<1>4. CASE ReadData
  <2>1. PICK size : size = Uint(buf, 2 + IntSize)
    OBVIOUS
  <2>2. buf \in Seq(Byte) /\ Len(buf) = 5 /\ buf[1] = DataType /\ size > 0
    BY <1>1, <1>4, <2>1 DEF Buffers, ReadData
  <2>3. size \in Nat
    <3>1. PICK i \in Nat : i = 2 + IntSize /\ i >= 1 /\ i + 1 <= Len(buf)
      BY <2>2 DEF IntSize
    <3>2. Uint(buf, i) \in Nat
      BY <2>2, <3>1, UintWord
    <3> QED BY <2>1, <3>1, <3>2
  <2>4. PICK s \in Segments(size) : /\ short' = (short \/ Len(s) < size)
                                    /\ Decoded(buf \o s, size - Len(s))
    BY <1>4, <2>1 DEF ReadData
  <2>5. s \in Seq(Byte) /\ Len(s) \in Nat /\ Len(s) <= size
    BY <1>1, SegmentFacts
  <2>6. PICK b \in Seq(Byte) : b = buf \o s
    BY <2>2, <2>5, ConcatProperties
  <2>7. Len(b) = 5 + Len(s) /\ \A i \in 1..5 : b[i] = buf[i]
    <3>1. /\ Len(b) = Len(buf) + Len(s)
          /\ \A i \in 1..(Len(buf) + Len(s)) : b[i] = IF i <= Len(buf) THEN buf[i] ELSE s[i - Len(buf)]
      BY <2>2, <2>5, <2>6, ConcatProperties
    <3> QED BY <2>2, <2>5, <3>1
  <2>8. b[1] = DataType /\ Uint(b, 2 + IntSize) = size
    BY <2>1, <2>2, <2>7 DEF Uint, IntSize
  <2>9. PICK z \in Nat : z = size - Len(s)
    BY <2>3, <2>5
  <2>10. b[1] \in MessageTypes /\ PayloadSize(b[1]) = 4
    BY <2>8, PayloadSizes
  <2>11. (Len(b) - (1 + PayloadSize(b[1]))) + z = IF b[1] = DataType THEN Uint(b, 2 + IntSize) ELSE 0
    BY <2>3, <2>5, <2>7, <2>8, <2>9, <2>10
  <2>12. Len(b) >= 1 + PayloadSize(b[1])
    BY <2>5, <2>7, <2>10
  <2>13. Decoded(b, z)
    BY <2>4, <2>6, <2>9
  <2>14. decoded' \in Seq(Received) /\ pc' = "type"
    BY <1>1, <2>10, <2>11, <2>12, <2>13, DecodedType
  <2>15. short' \in BOOLEAN
    BY <2>4
  <2> QED BY <2>14, <2>15, Unlooked
<1> QED BY <1>2, <1>3, <1>4 DEF Decode

(* A header that is accepted announces no more than the longest record.    *)
LEMMA HeaderFacts ==
    ASSUME NEW b \in Seq(Byte), Len(b) >= RecordHeader
    PROVE  /\ b[3] \in Nat /\ RecordLen(b) \in Nat /\ RecordLen(b) >= RecordHeader
           /\ RecordLen(b) = RecordHeader + b[3] /\ Len(b) \in Nat
           /\ HeaderError(b) = None => b[3] <= MaxCiphertext
<1>1. 3 \in 1..Len(b) /\ Len(b) \in Nat
  BY LenProperties DEF RecordHeader
<1>2. b[3] \in Byte
  BY <1>1, ElementOfSeq
<1>3. b[3] \in Nat
  BY <1>2, ByteFacts
<1>4. HeaderError(b) = None => ~(b[3] > MaxCiphertext)
  BY Outcomes DEF HeaderError
<1>5. MaxCiphertext \in Nat
  BY FramingAssumption
<1> QED BY <1>1, <1>3, <1>4, <1>5 DEF RecordLen, RecordHeader

(* A segment fits the room that is made for the record.                    *)
LEMMA TypesFill ==
    ASSUME TypeInv, FillBlock
    PROVE  Buffers'
<1>1. /\ InputType /\ buf \in Seq(Byte) /\ Len(buf) <= Room(RecordHeader + MaxCiphertext)
      /\ pc = "payload" => Len(buf) >= RecordHeader /\ buf[3] <= MaxCiphertext
      /\ pc \in {"header", "payload"} /\ UNCHANGED pc
  BY DEF TypeInv, ReplayInv, Buffers, FillBlock
<1>2. PICK most \in Nat : most = RecordHeader + MaxCiphertext
  BY FramingAssumption DEF RecordHeader
<1>3. PICK need \in Nat : need = Need /\ need <= most
  <2>1. CASE pc = "header"
    BY <1>2, <2>1, FramingAssumption DEF Need, RecordHeader
  <2>2. CASE pc = "payload"
    <3>1. /\ RecordLen(buf) \in Nat /\ RecordLen(buf) = RecordHeader + buf[3] /\ buf[3] \in Nat
          /\ buf[3] <= MaxCiphertext
      BY <1>1, <2>2, HeaderFacts
    <3> QED BY <1>2, <2>2, <3>1, FramingAssumption DEF Need, RecordHeader
  <2> QED BY <1>1, <2>1, <2>2
<1>4. Room(need) \in Nat /\ Room(most) \in Nat /\ Room(need) <= Room(most)
  BY <1>3, RoomFacts
<1>5. PICK s \in Segments(Room(need) - Len(buf)) : buf' = buf \o s
  BY <1>3 DEF FillBlock
<1>6. s \in Seq(Byte) /\ Len(s) \in Nat /\ Len(s) <= Room(need) - Len(buf)
  BY <1>1, SegmentFacts
<1>7. PICK b \in Seq(Byte) : b = buf \o s
  BY <1>1, <1>6, ConcatProperties
<1>8. /\ Len(buf) \in Nat /\ Len(b) = Len(buf) + Len(s)
      /\ \A i \in 1..(Len(buf) + Len(s)) : b[i] = IF i <= Len(buf) THEN buf[i] ELSE s[i - Len(buf)]
  BY <1>1, <1>6, <1>7, ConcatProperties, LenProperties
<1>9. Len(b) <= Room(most)
  BY <1>4, <1>6, <1>8
<1>10. pc = "payload" => Len(b) >= RecordHeader /\ b[3] <= MaxCiphertext
  <2> SUFFICES ASSUME pc = "payload" PROVE Len(b) >= RecordHeader /\ b[3] <= MaxCiphertext
    OBVIOUS
  <2>1. 3 \in 1..(Len(buf) + Len(s)) /\ 3 <= Len(buf)
    BY <1>1, <1>6, <1>8 DEF RecordHeader
  <2>2. b[3] = buf[3]
    BY <1>8, <2>1
  <2> QED BY <1>1, <1>6, <1>8, <2>2 DEF RecordHeader
<1>11. buf' = b /\ pc' = pc
  BY <1>1, <1>5, <1>7
<1> QED BY <1>1, <1>2, <1>9, <1>10, <1>11 DEF Buffers

LEMMA TypesTLS == TypeInv /\ TLS => Buffers'
<1> SUFFICES ASSUME TypeInv, TLS PROVE Buffers'
  OBVIOUS
<1>1. CASE FillBlock
  BY <1>1, TypesFill
<1>2. CASE CheckHeader
  <2>1. buf \in Seq(Byte) /\ Len(buf) <= Room(RecordHeader + MaxCiphertext) /\ Len(buf) >= RecordHeader
    BY <1>2 DEF TypeInv, Buffers, CheckHeader, Need
  <2>2. CASE HeaderError(buf) = None
    <3>1. pc' = "payload" /\ UNCHANGED buf
      BY <1>2, <2>2 DEF CheckHeader
    <3>2. buf[3] <= MaxCiphertext
      BY <2>1, <2>2, HeaderFacts
    <3> QED BY <2>1, <3>1, <3>2 DEF Buffers
  <2>3. CASE HeaderError(buf) # None
    BY <1>2, <2>3, SettleEnds, Unlooked DEF CheckHeader
  <2> QED BY <2>2, <2>3
<1>3. CASE TakeRecord
  <2>1. /\ buf \in Seq(Byte) /\ Len(buf) <= Room(RecordHeader + MaxCiphertext)
        /\ pc = "payload" /\ Len(buf) >= RecordHeader /\ Len(buf) >= RecordLen(buf)
        /\ buf' = From(buf, RecordLen(buf) + 1)
    BY <1>3 DEF TypeInv, Buffers, TakeRecord, Need, Remainder
  <2>2. RecordLen(buf) \in Nat /\ Len(buf) \in Nat
    BY <2>1, HeaderFacts
  <2>3. PICK n \in Nat : n = RecordLen(buf) + 1 /\ n >= 1 /\ n <= Len(buf) + 1
    BY <2>1, <2>2
  <2>4. buf' \in Seq(Byte) /\ Len(buf') = (Len(buf) + 1) - n
    BY <2>1, <2>2, <2>3, Slice DEF From
  <2>5. PICK room \in Nat : room = Room(RecordHeader + MaxCiphertext)
    <3>1. RecordHeader + MaxCiphertext \in Nat
      BY FramingAssumption DEF RecordHeader
    <3> QED BY <3>1, RoomFacts
  <2>6. Len(buf') <= Room(RecordHeader + MaxCiphertext)
    <3>1. PICK l \in Nat : l = Len(buf') /\ l = (Len(buf) + 1) - n
      BY <2>2, <2>3, <2>4
    <3>2. l <= Len(buf)
      BY <2>2, <2>3, <3>1
    <3> QED BY <2>1, <2>2, <2>5, <3>1, <3>2
  <2>7. pc' \in {"header", "replay", "end"}
    <3>1. pc' = "header" \/ \E o : Settle(o)
      BY <1>3 DEF TakeRecord
    <3> QED BY <3>1, SettleEnds
  <2> QED BY <2>4, <2>6, <2>7 DEF Buffers
<1> QED BY <1>1, <1>2, <1>3 DEF TLS

LEMMA TypesStep == TypeInv /\ [Next]_vars => TypeInv'
<1> SUFFICES ASSUME TypeInv, [Next]_vars PROVE TypeInv'
  OBVIOUS
<1> DEFINE Goal == Buffers' /\ decoded' \in Seq(Received) /\ short' \in BOOLEAN
<1>1. Buffers /\ decoded \in Seq(Received) /\ short \in BOOLEAN
  BY DEF TypeInv
<1>2. ASSUME Decode PROVE Goal
  BY <1>2, TypesDecode
<1>3. ASSUME TLS PROVE Goal
  <2>1. UNCHANGED <<decoded, short>>
    BY <1>3 DEF TLS, FillBlock, CheckHeader, TakeRecord
  <2> QED BY <1>1, <1>3, <2>1, TypesTLS
<1>4. ASSUME HTTP PROVE Goal
  <2>1. UNCHANGED <<decoded, short>> /\ pc' \in {"head", "replay", "end"}
    <3>1. CASE FillRequest
      BY <3>1 DEF FillRequest
    <3>2. CASE TakeRequest
      BY <3>2, SettleEnds DEF TakeRequest
    <3> QED BY <1>4, <3>1, <3>2 DEF HTTP
  <2> QED BY <1>1, <2>1, Unlooked
<1>5. ASSUME ReadFails PROVE Goal
  <2>1. UNCHANGED <<decoded, short>> /\ pc' \in {"replay", "end"}
    BY <1>5, SettleEnds DEF ReadFails
  <2> QED BY <1>1, <2>1, Unlooked
<1>6. ASSUME \E max \in 1..MaxRead : ReplayBuffer(max) \/ ReadThrough(max) PROVE Goal
  <2>1. UNCHANGED <<decoded, short>> /\ pc' \in {"replay", "end"}
    BY <1>6 DEF ReplayBuffer, ReadThrough
  <2> QED BY <1>1, <2>1, Unlooked
<1>7. ASSUME UNCHANGED vars PROVE Goal
  BY <1>1, <1>7 DEF vars, Buffers
<1>8. Goal
  <2> HIDE DEF Goal
  <2> QED BY <1>2, <1>3, <1>4, <1>5, <1>6, <1>7 DEF Next
<1>9. ReplayInv'
  BY ReplayStep DEF TypeInv
<1> QED BY <1>8, <1>9 DEF TypeInv

LEMMA TypesInit == Init => TypeInv
<1> SUFFICES ASSUME Init PROVE TypeInv
  OBVIOUS
<1>1. ReplayInv
  BY ReplayInit
<1>2. buf \in Seq(Byte) /\ Len(buf) = 0 /\ decoded \in Seq(Received) /\ short \in BOOLEAN
  BY EmptySeq DEF Init
<1>3. PICK room \in Nat : room = Room(RecordHeader + MaxCiphertext)
  <2>1. RecordHeader + MaxCiphertext \in Nat
    BY FramingAssumption DEF RecordHeader
  <2> QED BY <2>1, RoomFacts
<1>4. pc \in {"type", "header", "head"}
  BY <1>1 DEF Init, ReplayInv, InputType
<1>5. Buffers
  BY <1>2, <1>3, <1>4 DEF Buffers
<1> QED BY <1>1, <1>2, <1>5 DEF TypeInv

LEMMA TypeOKHolds == TypeInv => TypeOK
<1> SUFFICES ASSUME TypeInv PROVE TypeOK
  OBVIOUS
<1>1. ASSUME NEW i \in DOMAIN decoded
      PROVE  Len(decoded[i].data) + decoded[i].zeros =
                IF decoded[i].type = DataType THEN decoded[i].fields.Length ELSE 0
  <2>1. i \in 1..Len(decoded) /\ decoded \in Seq(Received)
    BY LenProperties DEF TypeInv
  <2>2. decoded[i] \in Received
    BY <2>1, ElementOfSeq
  <2> QED BY <2>2 DEF Received
<1>2. input \in Inputs /\ pos \in 0..Len(input.bytes)
  BY DEF TypeInv, ReplayInv, InputType, Bytes
<1>3. Buffers /\ short \in BOOLEAN
  BY DEF TypeInv
<1> QED BY <1>1, <1>2, <1>3 DEF TypeOK, Buffers

(* Every block stays within the room that is made for it (tls.go:123-161), *)
(* whatever is sent, and the Data of every message that Decode returns has *)
(* the Length that it announces, filled or not (decoder.go:57-65).         *)
THEOREM FramingTypes == Spec => []TypeOK
  BY TypesInit, TypesStep, TypeOKHolds, PTL DEF Spec
-----------------------------------------------------------------------------
(* What a muxer has read and not yet settled is a block that begins at st, *)
(* and the whole stream means what the bytes from there on mean.           *)
Muxed ==
    /\ input.proto = "tls" => pc \in {"header", "payload", "replay", "end"} /\ hand \in Seq(Byte)
    /\ input.proto = "http" => pc \in {"head", "replay", "end"}
    /\ pc \in {"header", "payload"} =>
          \E st \in 0..pos : /\ buf = SubSeq(Bytes, st + 1, pos)
                             /\ input.means = TlsReading[<<hand, From(Bytes, st + 1)>>]
    /\ pc = "payload" => Len(buf) >= RecordHeader /\ HeaderError(buf) = None
    /\ pc = "head" => buf = SubSeq(Bytes, 1, pos)

OutcomeInv == ReplayInv /\ Muxed /\ OutcomeExact

(* Two sequences that agree as far as the shorter one, b, goes. *)
Agree(b, d) ==
    /\ b \in Seq(Byte) /\ d \in Seq(Byte) /\ Len(b) \in Nat /\ Len(d) \in Nat
    /\ Len(b) <= Len(d) /\ \A i \in 1..Len(b) : b[i] = d[i]

(* A block is the beginning of the rest of the stream.                     *)
LEMMA Blocks ==
    ASSUME NEW d \in Seq(Byte), NEW st \in Nat, NEW p \in Nat, st <= p, p <= Len(d)
    PROVE  /\ Agree(SubSeq(d, st + 1, p), From(d, st + 1))
           /\ Len(SubSeq(d, st + 1, p)) = p - st
           /\ p = Len(d) => SubSeq(d, st + 1, p) = From(d, st + 1)
<1>1. Len(d) \in Nat
  BY LenProperties
<1>2. PICK m \in Nat : m = st + 1
  OBVIOUS
<1>3. PICK l \in Nat : l = Len(d)
  BY <1>1
<1>4. m >= 1 /\ m <= p + 1 /\ m <= l + 1 /\ p <= Len(d) /\ l <= Len(d)
  BY <1>2, <1>3
<1>5. PICK b : b = SubSeq(d, m, p)
  OBVIOUS
<1>6. b \in Seq(Byte) /\ Len(b) = (p + 1) - m /\ \A i \in 1..((p + 1) - m) : b[i] = d[(m + i) - 1]
  BY <1>4, <1>5, Slice
<1>7. PICK r : r = SubSeq(d, m, l)
  OBVIOUS
<1>8. r \in Seq(Byte) /\ Len(r) = (l + 1) - m /\ \A i \in 1..((l + 1) - m) : r[i] = d[(m + i) - 1]
  BY <1>4, <1>7, Slice
<1>9. Len(b) \in Nat /\ Len(r) \in Nat /\ Len(b) <= Len(r) /\ Len(b) = p - st
  BY <1>3, <1>2, <1>4, <1>6, <1>8
<1>10. ASSUME NEW i \in 1..Len(b) PROVE b[i] = r[i]
  <2>1. i \in 1..((p + 1) - m) /\ i \in 1..((l + 1) - m)
    BY <1>4, <1>6, <1>9, <1>2, <1>3
  <2> QED BY <1>6, <1>8, <2>1
<1>11. Agree(b, r)
  BY <1>6, <1>8, <1>9, <1>10 DEF Agree
<1>12. SubSeq(d, st + 1, p) = b /\ From(d, st + 1) = r
  BY <1>3, <1>2, <1>5, <1>7 DEF From
<1>13. p = Len(d) => b = r
  BY <1>3, <1>2, <1>5, <1>7
<1> QED BY <1>9, <1>11, <1>12, <1>13

(* A header that has been read is that of the stream. *)
LEMMA HeadersAgree ==
    ASSUME NEW b, NEW d, Agree(b, d), Len(b) >= RecordHeader
    PROVE  /\ HeaderError(b) = HeaderError(d) /\ RecordLen(b) = RecordLen(d)
           /\ RecordLen(d) \in Nat /\ RecordLen(d) >= RecordHeader /\ Len(d) >= RecordHeader
<1>1. b[1] = d[1] /\ b[2] = d[2] /\ b[3] = d[3] /\ Len(d) >= RecordHeader
  BY DEF Agree, RecordHeader
<1>2. HeaderError(b) = HeaderError(d) /\ RecordLen(b) = RecordLen(d)
  BY <1>1, Zenon DEF HeaderError, RecordLen
<1>3. RecordLen(d) \in Nat /\ RecordLen(d) >= RecordHeader
  BY <1>1, HeaderFacts DEF Agree
<1> QED BY <1>1, <1>2, <1>3

(* So is the payload of a record.                                          *)
LEMMA PayloadsAgree ==
    ASSUME NEW b, NEW d, Agree(b, d), Len(b) >= RecordHeader, Len(b) >= RecordLen(b)
    PROVE  Payload(b) = Payload(d) /\ Payload(d) \in Seq(Byte)
<1>1. PICK n \in Nat : n = RecordLen(b) /\ n = RecordLen(d) /\ n >= RecordHeader
  BY HeadersAgree
<1>2. PICK m \in Nat : m = RecordHeader + 1 /\ m >= 1 /\ m <= n + 1 /\ n <= Len(b) /\ n <= Len(d)
  BY <1>1 DEF Agree, RecordHeader
<1>3. PICK x : x = SubSeq(b, m, n)
  OBVIOUS
<1>4. PICK y : y = SubSeq(d, m, n)
  OBVIOUS
<1>5. x \in Seq(Byte) /\ Len(x) = (n + 1) - m /\ \A i \in 1..((n + 1) - m) : x[i] = b[(m + i) - 1]
  BY <1>2, <1>3, Slice DEF Agree
<1>6. y \in Seq(Byte) /\ Len(y) = (n + 1) - m /\ \A i \in 1..((n + 1) - m) : y[i] = d[(m + i) - 1]
  BY <1>2, <1>4, Slice DEF Agree
<1>7. ASSUME NEW i \in 1..Len(x) PROVE x[i] = y[i]
  <2>1. i \in 1..((n + 1) - m) /\ (m + i) - 1 \in 1..Len(b)
    BY <1>2, <1>5 DEF Agree
  <2>2. b[(m + i) - 1] = d[(m + i) - 1]
    BY <2>1 DEF Agree
  <2> QED BY <1>5, <1>6, <2>1, <2>2
<1>8. x = y
  BY <1>5, <1>6, <1>7, SeqEqual
<1> QED BY <1>1, <1>2, <1>3, <1>4, <1>6, <1>8 DEF Payload

(* What follows a part of what follows a part. *)
Inside(d, m, k, j, p) ==
    /\ d \in Seq(Byte) /\ m \in Nat /\ k \in Nat /\ j \in Nat /\ p \in Nat
    /\ m >= 1 /\ k >= 1 /\ j = (m + k) - 1 /\ j <= p + 1 /\ p <= Len(d)

(* This rest, of a block and of the stream.                                *)
LEMMA RestOfBlock ==
    ASSUME NEW d, NEW m, NEW k, NEW j, NEW p, Inside(d, m, k, j, p)
    PROVE  From(SubSeq(d, m, p), k) = SubSeq(d, j, p)
<1>1. /\ d \in Seq(Byte) /\ m \in Nat /\ k \in Nat /\ j \in Nat /\ p \in Nat
      /\ m >= 1 /\ k >= 1 /\ j = (m + k) - 1 /\ j <= p + 1 /\ m <= p + 1 /\ p <= Len(d)
  BY DEF Inside
<1>2. PICK b : b = SubSeq(d, m, p)
  OBVIOUS
<1>3. b \in Seq(Byte) /\ Len(b) = (p + 1) - m /\ \A i \in 1..((p + 1) - m) : b[i] = d[(m + i) - 1]
  BY <1>1, <1>2, Slice
<1>4. PICK l \in Nat : l = (p + 1) - m
  BY <1>1
<1>5. l = Len(b) /\ k <= l + 1 /\ l <= Len(b)
  BY <1>1, <1>3, <1>4
<1>6. PICK x : x = SubSeq(b, k, l)
  OBVIOUS
<1>7. x \in Seq(Byte) /\ Len(x) = (l + 1) - k /\ \A i \in 1..((l + 1) - k) : x[i] = b[(k + i) - 1]
  <2>1. b \in Seq(Byte) /\ k \in Nat /\ k >= 1 /\ k <= l + 1 /\ l <= Len(b)
    BY <1>1, <1>3, <1>5
  <2> QED BY <1>6, <2>1, Slice
<1>8. PICK y : y = SubSeq(d, j, p)
  OBVIOUS
<1>9. y \in Seq(Byte) /\ Len(y) = (p + 1) - j /\ \A i \in 1..((p + 1) - j) : y[i] = d[(j + i) - 1]
  <2>1. j >= 1
    BY <1>1
  <2>2. d \in Seq(Byte) /\ j \in Nat /\ p \in Nat /\ j <= p + 1 /\ p <= Len(d)
    BY <1>1
  <2> QED BY <1>8, <2>1, <2>2, Slice
<1>10. Len(x) = Len(y)
  BY <1>1, <1>4, <1>7, <1>9
<1>11. ASSUME NEW i \in 1..Len(x) PROVE x[i] = y[i]
  <2>1. i \in 1..((l + 1) - k) /\ i \in 1..((p + 1) - j)
    BY <1>7, <1>9, <1>10
  <2>2. PICK q \in Nat : q = (k + i) - 1 /\ q \in 1..((p + 1) - m)
    BY <1>1, <1>4, <2>1
  <2>3. (m + q) - 1 = (j + i) - 1
    BY <1>1, <2>1, <2>2
  <2>4. b[q] = d[(m + q) - 1]
    BY <1>3, <2>2
  <2> QED BY <1>7, <1>9, <2>1, <2>2, <2>3, <2>4
<1>12. x = y
  BY <1>7, <1>9, <1>10, <1>11, SeqEqual
<1> QED BY <1>2, <1>5, <1>6, <1>8, <1>12 DEF From

LEMMA RestOfRest ==
    ASSUME NEW d, NEW m, NEW k, NEW j, Inside(d, m, k, j, Len(d))
    PROVE  From(From(d, m), k) = From(d, j)
<1>1. PICK p : p = Len(d)
  OBVIOUS
<1>2. From(SubSeq(d, m, p), k) = SubSeq(d, j, p)
  BY <1>1, RestOfBlock
<1> QED BY <1>1, <1>2 DEF From

(* A segment continues a block. *)
LEMMA Continues ==
    ASSUME InputType, NEW max, NEW s \in Segments(max), NEW st \in 0..pos
    PROVE  SubSeq(Bytes, st + 1, pos) \o s = SubSeq(Bytes, st + 1, pos + Len(s))
<1>1. /\ s = SubSeq(Bytes, pos + 1, pos + Len(s)) /\ Len(s) \in Nat /\ pos + Len(s) \in 0..Len(Bytes)
      /\ Bytes \in Seq(Byte) /\ pos \in 0..Len(Bytes) /\ Len(Bytes) \in Nat
  BY SegmentFacts, LenProperties DEF InputType
<1>2. PICK m \in Nat : m = st + 1
  OBVIOUS
<1>3. PICK q \in Nat : q = pos + Len(s)
  BY <1>1
<1>4. m \in 1..(Len(Bytes) + 1) /\ pos \in (m - 1)..Len(Bytes) /\ q \in pos..Len(Bytes)
  BY <1>1, <1>2, <1>3
<1>5. SubSeq(Bytes, m, pos) \o SubSeq(Bytes, pos + 1, q) = SubSeq(Bytes, m, q)
  BY <1>1, <1>4, ConcatAdjacentSubSeq
<1> QED BY <1>1, <1>2, <1>3, <1>5

(* The cases of the reading of a stream. *)
LEMMA ReadingCases ==
    ASSUME NEW h \in Seq(Byte), NEW d \in Seq(Byte)
    PROVE  /\ Len(d) < RecordHeader => TlsReading[<<h, d>>] = Err("eof")
           /\ ~(Len(d) < RecordHeader) =>
                 /\ HeaderError(d) # None => TlsReading[<<h, d>>] = HeaderError(d)
                 /\ HeaderError(d) = None /\ Len(d) < RecordLen(d) => TlsReading[<<h, d>>] = Err("eof")
                 /\ HeaderError(d) = None /\ ~(Len(d) < RecordLen(d)) =>
                       /\ HelloOutcome(h \o Payload(d)) # None =>
                             TlsReading[<<h, d>>] = HelloOutcome(h \o Payload(d))
                       /\ HelloOutcome(h \o Payload(d)) = None =>
                             TlsReading[<<h, d>>] =
                                TlsReading[<<h \o Payload(d), From(d, RecordLen(d) + 1)>>]
<1>1. TlsReading[<<h, d>>] =
         IF RecordOutcome(h, d) # None THEN RecordOutcome(h, d)
         ELSE TlsReading[<<h \o Payload(d), From(d, RecordLen(d) + 1)>>]
  BY TlsUnfolds
<1>2. Err("eof") # None
  BY Outcomes
<1> QED BY <1>1, <1>2, Zenon DEF RecordOutcome

(* The block that a muxer has read, and what the rest of the stream means. *)
Means(st, b, h, p) ==
    /\ st \in Nat /\ st <= p /\ b = SubSeq(Bytes, st + 1, p)
    /\ input.means = TlsReading[<<h, From(Bytes, st + 1)>>]

(* What the invariant says of a block in the making.                       *)
LEMMA MuxedFacts ==
    ASSUME OutcomeInv, pc \in {"header", "payload"}
    PROVE  /\ input.proto = "tls" /\ hand \in Seq(Byte) /\ InputType
           /\ \E st \in 0..pos : Means(st, buf, hand, pos)
           /\ pos \in Nat /\ pos <= Len(Bytes) /\ Len(Bytes) \in Nat
<1>1. InputType /\ Muxed /\ Place
  BY DEF OutcomeInv, ReplayInv
<1>2. input.proto = "tls" /\ hand \in Seq(Byte)
  BY <1>1 DEF Muxed, InputType, Place
<1>3. PICK st \in 0..pos : buf = SubSeq(Bytes, st + 1, pos)
                           /\ input.means = TlsReading[<<hand, From(Bytes, st + 1)>>]
  BY <1>1 DEF Muxed
<1>4. pos \in Nat /\ pos <= Len(Bytes) /\ Len(Bytes) \in Nat
  BY <1>1, LenProperties DEF InputType
<1>5. Means(st, buf, hand, pos)
  BY <1>3, <1>4 DEF Means
<1> QED BY <1>1, <1>2, <1>4, <1>5

(* The muxer has the outcome that the stream means. *)
LEMMA SettlesMuxed ==
    ASSUME OutcomeInv, input.proto # "qmux", NEW o, Settle(o), o = input.means,
           UNCHANGED <<input, hand>>
    PROVE  Muxed' /\ OutcomeExact'
<1>1. pc' \in {"replay", "end"} /\ outcome' = o
  BY DEF Settle
<1>2. Muxed'
  BY <1>1 DEF Muxed, OutcomeInv
<1>3. OutcomeExact'
  BY <1>1 DEF OutcomeExact
<1> QED BY <1>2, <1>3

(* The steps of TLS: the meaning of what is ahead stays the same.          *)
LEMMA MuxedFill ==
    ASSUME OutcomeInv, FillBlock
    PROVE  Muxed' /\ OutcomeExact'
<1>1. /\ pc \in {"header", "payload"} /\ UNCHANGED <<input, pc, hand, outcome>>
      /\ InputType /\ Muxed /\ OutcomeExact
  BY DEF FillBlock, OutcomeInv, ReplayInv
<1>2. PICK max : \E s \in Segments(max) : pos' = pos + Len(s) /\ buf' = buf \o s
  BY DEF FillBlock
<1>3. PICK s \in Segments(max) : pos' = pos + Len(s) /\ buf' = buf \o s
  BY <1>2
<1>4. PICK st \in 0..pos : Means(st, buf, hand, pos)
  BY <1>1, MuxedFacts
<1>5. /\ pos \in Nat /\ pos <= Len(Bytes) /\ Len(Bytes) \in Nat /\ input.proto = "tls" /\ hand \in Seq(Byte)
      /\ Bytes \in Seq(Byte) /\ s \in Seq(Byte) /\ Len(s) \in Nat
  BY <1>1, MuxedFacts, SegmentFacts DEF InputType
<1>6. buf' = SubSeq(Bytes, st + 1, pos')
  BY <1>1, <1>3, <1>4, Continues DEF Means
<1>7. st \in 0..pos' /\ input'.means = TlsReading[<<hand', From(Bytes', st + 1)>>] /\ Bytes' = Bytes
  BY <1>1, <1>3, <1>4, <1>5 DEF Means, Bytes
<1>8. buf \in Seq(Byte)
  <2>1. Agree(buf, From(Bytes, st + 1))
    BY <1>4, <1>5, Blocks DEF Means
  <2> QED BY <2>1 DEF Agree
<1>9. ASSUME pc = "payload" PROVE Len(buf') >= RecordHeader /\ HeaderError(buf') = None
  <2>1. Len(buf) >= RecordHeader /\ HeaderError(buf) = None
    BY <1>1, <1>9 DEF Muxed
  <2>2. PICK b \in Seq(Byte) : b = buf \o s
    BY <1>5, <1>8, ConcatProperties
  <2>3. /\ Len(buf) \in Nat /\ Len(b) = Len(buf) + Len(s)
        /\ \A i \in 1..(Len(buf) + Len(s)) : b[i] = IF i <= Len(buf) THEN buf[i] ELSE s[i - Len(buf)]
    BY <1>5, <1>8, <2>2, ConcatProperties, LenProperties
  <2>4. Agree(buf, b)
    BY <1>5, <1>8, <2>2, <2>3 DEF Agree
  <2>5. HeaderError(b) = None /\ Len(b) >= RecordHeader
    BY <2>1, <2>4, HeadersAgree
  <2> QED BY <1>3, <2>2, <2>5
<1>10. Muxed'
  BY <1>1, <1>5, <1>6, <1>7, <1>9 DEF Muxed
<1>11. OutcomeExact'
  BY <1>1 DEF OutcomeExact
<1> QED BY <1>10, <1>11

LEMMA MuxedCheck ==
    ASSUME OutcomeInv, CheckHeader
    PROVE  Muxed' /\ OutcomeExact'
<1>1. /\ pc = "header" /\ UNCHANGED <<input, pos, buf, hand>> /\ Len(buf) >= RecordHeader
      /\ IF HeaderError(buf) = None THEN pc' = "payload" /\ UNCHANGED outcome ELSE Settle(HeaderError(buf))
  BY DEF CheckHeader, Need
<1>2. PICK st \in 0..pos : Means(st, buf, hand, pos)
  BY <1>1, MuxedFacts
<1>3. /\ pos \in Nat /\ pos <= Len(Bytes) /\ Len(Bytes) \in Nat /\ input.proto = "tls" /\ hand \in Seq(Byte)
      /\ Bytes \in Seq(Byte)
  BY <1>1, MuxedFacts DEF InputType
<1>4. PICK d \in Seq(Byte) : d = From(Bytes, st + 1) /\ Agree(buf, d)
  <2>1. Agree(buf, From(Bytes, st + 1))
    BY <1>2, <1>3, Blocks DEF Means
  <2> QED BY <2>1 DEF Agree
<1>5. HeaderError(buf) = HeaderError(d) /\ Len(d) >= RecordHeader /\ Len(d) \in Nat
  BY <1>1, <1>4, HeadersAgree DEF Agree
<1>6. CASE HeaderError(buf) = None
  <2>1. pc' = "payload" /\ UNCHANGED outcome
    BY <1>1, <1>6
  <2>2. Muxed'
    BY <1>1, <1>2, <1>3, <1>6, <2>1 DEF Muxed, Means, Bytes
  <2>3. OutcomeExact'
    BY <1>1, <2>1 DEF OutcomeExact, OutcomeInv
  <2> QED BY <2>2, <2>3
<1>7. CASE HeaderError(buf) # None
  <2>1. ~(Len(d) < RecordHeader)
    BY <1>5 DEF RecordHeader
  <2>2. input.means = HeaderError(buf)
    BY <1>2, <1>3, <1>4, <1>5, <1>7, <2>1, ReadingCases DEF Means
  <2> QED BY <1>1, <1>3, <1>7, <2>2, SettlesMuxed
<1> QED BY <1>6, <1>7

LEMMA MuxedTake ==
    ASSUME OutcomeInv, TakeRecord
    PROVE  Muxed' /\ OutcomeExact'
<1>1. /\ pc = "payload" /\ UNCHANGED <<input, pos>> /\ Len(buf) >= RecordLen(buf)
      /\ hand' = hand \o Payload(buf) /\ buf' = From(buf, RecordLen(buf) + 1)
      /\ IF HelloOutcome(hand \o Payload(buf)) = None THEN pc' = "header" /\ UNCHANGED outcome
         ELSE Settle(HelloOutcome(hand \o Payload(buf)))
  BY Zenon DEF TakeRecord, Need, Remainder
<1>2. PICK st \in 0..pos : Means(st, buf, hand, pos)
  BY <1>1, MuxedFacts
<1>3. /\ pos \in Nat /\ pos <= Len(Bytes) /\ Len(Bytes) \in Nat /\ input.proto = "tls" /\ hand \in Seq(Byte)
      /\ Bytes \in Seq(Byte) /\ st \in Nat /\ st <= pos
  BY <1>1, MuxedFacts DEF InputType
<1>4. PICK d \in Seq(Byte) : d = From(Bytes, st + 1) /\ Agree(buf, d)
  <2>1. Agree(buf, From(Bytes, st + 1))
    BY <1>2, <1>3, Blocks DEF Means
  <2> QED BY <2>1 DEF Agree
<1>5. Len(buf) >= RecordHeader /\ HeaderError(buf) = None
  BY <1>1 DEF OutcomeInv, Muxed
<1>6. /\ HeaderError(buf) = HeaderError(d) /\ Len(d) >= RecordHeader /\ Len(d) \in Nat
      /\ RecordLen(buf) = RecordLen(d) /\ RecordLen(d) \in Nat /\ RecordLen(d) >= RecordHeader
  BY <1>5, <1>4, HeadersAgree DEF Agree
<1>7. Payload(buf) = Payload(d) /\ Payload(d) \in Seq(Byte)
  BY <1>1, <1>5, <1>4, PayloadsAgree
<1>8. PICK h \in Seq(Byte) : h = hand \o Payload(d)
  BY <1>3, <1>7, ConcatProperties
<1>9. ~(Len(d) < RecordHeader) /\ ~(Len(d) < RecordLen(d)) /\ HeaderError(d) = None
  <2>1. Len(buf) <= Len(d) /\ Len(buf) \in Nat
    BY <1>4 DEF Agree
  <2> QED BY <1>1, <1>5, <1>6, <2>1 DEF RecordHeader
<1>10. /\ HelloOutcome(h) # None => input.means = HelloOutcome(h)
       /\ HelloOutcome(h) = None => input.means = TlsReading[<<h, From(d, RecordLen(d) + 1)>>]
  BY <1>2, <1>3, <1>4, <1>8, <1>9, ReadingCases DEF Means
<1>11. CASE HelloOutcome(h) = None
  <2>1. pc' = "header" /\ UNCHANGED outcome /\ hand' = h
    BY <1>1, <1>7, <1>8, <1>11
  <2>2. PICK n \in Nat : n = RecordLen(d)
    BY <1>6
  <2>3. Len(buf) = pos - st
    BY <1>2, <1>3, Blocks DEF Means
  <2>4. st + n <= pos /\ st + n \in 0..pos /\ st <= Len(Bytes) /\ st + n <= Len(Bytes)
    BY <1>1, <1>3, <1>6, <2>2, <2>3
  <2>5. PICK m \in Nat, k \in Nat : m = st + 1 /\ k = n + 1
    BY <1>3
  <2>6. PICK j \in Nat : j = (st + n) + 1
    BY <1>3
  <2>7. buf' = SubSeq(Bytes, (st + n) + 1, pos)
    <3>1. Inside(Bytes, m, k, j, pos)
      BY <1>3, <2>4, <2>5, <2>6 DEF Inside
    <3>2. From(SubSeq(Bytes, m, pos), k) = SubSeq(Bytes, j, pos)
      BY <3>1, RestOfBlock
    <3>3. buf = SubSeq(Bytes, m, pos) /\ buf' = From(buf, k)
      BY <1>1, <1>2, <1>6, <2>2, <2>5 DEF Means
    <3> QED BY <2>6, <3>2, <3>3
  <2>8. From(d, n + 1) = From(Bytes, (st + n) + 1)
    <3>1. Inside(Bytes, m, k, j, Len(Bytes))
      BY <1>3, <2>4, <2>5, <2>6 DEF Inside
    <3>2. From(From(Bytes, m), k) = From(Bytes, j)
      BY <3>1, RestOfRest
    <3> QED BY <1>4, <2>5, <2>6, <3>2
  <2>9. input.means = TlsReading[<<h, From(Bytes, (st + n) + 1)>>]
    BY <1>10, <1>11, <2>2, <2>8
  <2>10. \E w \in 0..pos : /\ buf' = SubSeq(Bytes, w + 1, pos)
                           /\ input.means = TlsReading[<<h, From(Bytes, w + 1)>>]
    BY <2>4, <2>7, <2>9
  <2>11. Muxed'
    BY <1>1, <1>3, <2>1, <2>10 DEF Muxed, Bytes
  <2>12. OutcomeExact'
    BY <1>1, <2>1 DEF OutcomeExact, OutcomeInv
  <2> QED BY <2>11, <2>12
<1>12. CASE HelloOutcome(h) # None
  <2>1. Settle(HelloOutcome(h)) /\ hand' = h /\ input.means = HelloOutcome(h)
    <3>1. hand' = h
      BY <1>1, <1>7, <1>8
    <3>2. Settle(HelloOutcome(h))
      BY <1>1, <1>7, <1>8, <1>12
    <3> QED BY <1>10, <1>12, <3>1, <3>2
  <2>2. pc' \in {"replay", "end"} /\ outcome' = input.means
    BY <2>1 DEF Settle
  <2>3. Muxed'
    BY <1>1, <1>3, <2>1, <2>2 DEF Muxed
  <2>4. OutcomeExact'
    BY <1>1, <2>2 DEF OutcomeExact
  <2> QED BY <2>3, <2>4
<1> QED BY <1>11, <1>12

LEMMA MuxedTLS == OutcomeInv /\ TLS => Muxed' /\ OutcomeExact'
  BY MuxedFill, MuxedCheck, MuxedTake DEF TLS

(* What a muxer of HTTP has read is the beginning of the stream. *)
LEMMA HeadAgrees ==
    ASSUME OutcomeInv, pc = "head"
    PROVE  /\ input.proto = "http" /\ InputType /\ Agree(buf, Bytes)
           /\ buf = SubSeq(Bytes, 1, pos) /\ Len(buf) = pos /\ pos \in 0..Len(Bytes)
<1>1. InputType /\ Muxed /\ Place /\ buf = SubSeq(Bytes, 1, pos)
  BY DEF OutcomeInv, ReplayInv, Muxed
<1>2. input.proto = "http"
  BY <1>1 DEF Muxed, InputType, Place
<1>3. PICK all \in Seq(Byte) : all = Bytes /\ Len(all) \in Nat
  BY <1>1, LenProperties DEF InputType
<1>4. PICK p \in Nat : p = pos /\ p <= Len(all)
  BY <1>1, <1>3 DEF InputType
<1>5. PICK b : b = SubSeq(all, 1, p)
  OBVIOUS
<1>6. b \in Seq(Byte) /\ Len(b) = (p + 1) - 1 /\ \A i \in 1..((p + 1) - 1) : b[i] = all[(1 + i) - 1]
  <2>1. 1 \in Nat /\ 1 <= p + 1
    OBVIOUS
  <2> QED BY <1>4, <1>5, <2>1, Slice
<1>7. Len(b) = p /\ \A i \in 1..p : b[i] = all[i]
  <2>1. (p + 1) - 1 = p /\ \A i \in 1..p : (1 + i) - 1 = i
    OBVIOUS
  <2> QED BY <1>6, <2>1
<1>8. Agree(b, all)
  BY <1>3, <1>4, <1>6, <1>7 DEF Agree
<1> QED BY <1>1, <1>2, <1>3, <1>4, <1>5, <1>7, <1>8 DEF InputType

(* What the input is labelled with, for a request.                         *)
LEMMA HttpMeans ==
    ASSUME InputType, input.proto = "http"
    PROVE  input.means = HttpMeaning(Bytes)
<1>1. Labelled(input)
  BY FramingAssumption DEF InputType
<1> QED BY <1>1 DEF Labelled, Bytes

LEMMA MuxedHTTP == OutcomeInv /\ HTTP => Muxed' /\ OutcomeExact'
<1> SUFFICES ASSUME OutcomeInv, HTTP PROVE Muxed' /\ OutcomeExact'
  OBVIOUS
<1>1. pc = "head"
  BY DEF HTTP, FillRequest, TakeRequest
<1>2. /\ input.proto = "http" /\ InputType /\ Agree(buf, Bytes)
      /\ buf = SubSeq(Bytes, 1, pos) /\ Len(buf) = pos /\ pos \in 0..Len(Bytes)
  BY <1>1, HeadAgrees
<1>3. CASE FillRequest
  <2>1. UNCHANGED <<input, pc, hand, outcome>>
    BY <1>3 DEF FillRequest
  <2>2. PICK s \in Segments(BufioSize) : pos' = pos + Len(s) /\ buf' = buf \o s
    BY <1>3 DEF FillRequest
  <2>3. buf' = SubSeq(Bytes, 1, pos')
    BY <1>2, <2>2, SegmentFacts
  <2>4. Muxed'
    BY <1>1, <1>2, <2>1, <2>3 DEF Muxed, Bytes
  <2>5. OutcomeExact'
    BY <2>1 DEF OutcomeExact, OutcomeInv
  <2> QED BY <2>4, <2>5
<1>4. CASE TakeRequest
  <2>1. /\ UNCHANGED <<input, hand>> /\ Len(buf) >= HttpHead
        /\ Settle(IF buf[3] = 0 THEN Host(<<buf[1]>>) ELSE Err("malformed"))
    BY <1>4 DEF TakeRequest
  <2>2. buf[1] = Bytes[1] /\ buf[3] = Bytes[3] /\ ~(Len(Bytes) < HttpHead)
    BY <1>2, <2>1 DEF Agree, HttpHead
  <2>3. input.means = IF buf[3] = 0 THEN Host(<<buf[1]>>) ELSE Err("malformed")
    BY <1>2, <2>2, HttpMeans DEF HttpMeaning
  <2> QED BY <1>2, <2>1, <2>3, SettlesMuxed
<1> QED BY <1>3, <1>4 DEF HTTP

LEMMA MuxedFails == OutcomeInv /\ ReadFails => Muxed' /\ OutcomeExact'
<1> SUFFICES ASSUME OutcomeInv, ReadFails PROVE Muxed' /\ OutcomeExact'
  OBVIOUS
<1>1. /\ UNCHANGED <<input, hand>> /\ Settle(Err("eof")) /\ pos = Len(Bytes)
      /\ \/ pc \in {"type", "rest", "data"}
         \/ pc \in {"header", "payload"} /\ Len(buf) < Need
         \/ pc = "head" /\ Len(buf) < HttpHead
  BY DEF ReadFails, EndOfStream, Bytes
<1>2. CASE pc \in {"type", "rest", "data"}
  <2>1. input.proto = "qmux" /\ input' = input
    BY <1>1, <1>2 DEF OutcomeInv, ReplayInv, Place
  <2>2. pc' \in {"replay", "end"}
    BY <1>1, SettleEnds
  <2> QED BY <2>1, <2>2 DEF Muxed, OutcomeExact
<1>3. CASE pc \in {"header", "payload"} /\ Len(buf) < Need
  <2>1. PICK st \in 0..pos : Means(st, buf, hand, pos)
    BY <1>3, MuxedFacts
  <2>2. /\ pos \in Nat /\ input.proto = "tls" /\ hand \in Seq(Byte) /\ Bytes \in Seq(Byte)
        /\ Len(Bytes) \in Nat
    BY <1>3, MuxedFacts DEF InputType
  <2>3. PICK d \in Seq(Byte) : d = From(Bytes, st + 1) /\ buf = d
    <3>1. Agree(buf, From(Bytes, st + 1)) /\ buf = From(Bytes, st + 1)
      BY <1>1, <2>1, <2>2, Blocks DEF Means
    <3> QED BY <3>1 DEF Agree
  <2>4. input.means = TlsReading[<<hand, d>>]
    BY <2>1, <2>3 DEF Means
  <2>5. input.means = Err("eof")
    <3>1. CASE pc = "header"
      <4>1. Len(d) < RecordHeader
        BY <1>3, <2>3, <3>1 DEF Need
      <4> QED BY <2>2, <2>4, <4>1, ReadingCases
    <3>2. CASE pc = "payload"
      <4>1. Len(d) < RecordLen(d) /\ Len(d) >= RecordHeader /\ HeaderError(d) = None
        BY <1>3, <2>3, <3>2 DEF Need, OutcomeInv, Muxed
      <4>2. ~(Len(d) < RecordHeader)
        BY <4>1, LenProperties DEF RecordHeader
      <4> QED BY <2>2, <2>4, <4>1, <4>2, ReadingCases
    <3> QED BY <1>3, <3>1, <3>2
  <2> QED BY <1>1, <2>2, <2>5, SettlesMuxed
<1>4. CASE pc = "head" /\ Len(buf) < HttpHead
  <2>1. input.proto = "http" /\ InputType /\ Len(buf) = pos
    BY <1>4, HeadAgrees
  <2>2. input.means = Err("eof")
    BY <1>1, <1>4, <2>1, HttpMeans DEF HttpMeaning
  <2> QED BY <1>1, <2>1, <2>2, SettlesMuxed
<1> QED BY <1>1, <1>2, <1>3, <1>4

LEMMA OutcomeStep == OutcomeInv /\ [Next]_vars => OutcomeInv'
<1> SUFFICES ASSUME OutcomeInv, [Next]_vars PROVE OutcomeInv'
  OBVIOUS
<1>1. ReplayInv /\ Muxed /\ OutcomeExact
  BY DEF OutcomeInv
<1>2. ReplayInv'
  BY <1>1, ReplayStep
<1> DEFINE Goal == Muxed' /\ OutcomeExact'
<1>3. ASSUME Decode PROVE Goal
  <2>1. input' = input /\ pc \in {"type", "rest", "data"}
    BY <1>3 DEF Decode, ReadType, ReadRest, ReadData
  <2>2. input'.proto = "qmux"
    BY <1>1, <2>1 DEF ReplayInv, Place
  <2>3. pc' \in {"type", "rest", "data", "end"}
    BY <1>2, <2>2 DEF ReplayInv, Place
  <2> QED BY <2>2, <2>3 DEF Muxed, OutcomeExact
<1>4. ASSUME TLS PROVE Goal
  BY <1>4, MuxedTLS
<1>5. ASSUME HTTP PROVE Goal
  BY <1>5, MuxedHTTP
<1>6. ASSUME ReadFails PROVE Goal
  BY <1>6, MuxedFails
<1>7. ASSUME \E max \in 1..MaxRead : ReplayBuffer(max) \/ ReadThrough(max) PROVE Goal
  <2>1. UNCHANGED <<input, hand, outcome>> /\ pc' \in {"replay", "end"}
    BY <1>7 DEF ReplayBuffer, ReadThrough
  <2> QED BY <1>1, <2>1 DEF Muxed, OutcomeExact
<1>8. ASSUME UNCHANGED vars PROVE Goal
  BY <1>1, <1>8 DEF vars, Muxed, OutcomeExact, Bytes
<1>9. Goal
  <2> HIDE DEF Goal
  <2> QED BY <1>3, <1>4, <1>5, <1>6, <1>7, <1>8 DEF Next
<1> QED BY <1>2, <1>9 DEF OutcomeInv

LEMMA OutcomeInit == Init => OutcomeInv
<1> SUFFICES ASSUME Init PROVE OutcomeInv
  OBVIOUS
<1>1. ReplayInv /\ InputType
  BY ReplayInit DEF ReplayInv
<1>2. pos = 0 /\ buf = <<>> /\ hand = <<>> /\ outcome = None /\ hand \in Seq(Byte)
  BY EmptySeq DEF Init
<1>3. /\ input.proto = "tls" => pc = "header"
      /\ input.proto = "http" => pc = "head"
      /\ input.proto = "qmux" => pc = "type"
  BY DEF Init
<1>4. SubSeq(Bytes, 1, 0) = <<>> /\ From(Bytes, 1) = Bytes
  BY <1>1, SubSeqEmpty, SubSeqFull DEF InputType, From
<1>5. input.proto = "tls" => input.means = TlsReading[<<hand, From(Bytes, 0 + 1)>>]
  <2>1. Labelled(input)
    BY <1>1, FramingAssumption DEF InputType
  <2>2. 0 + 1 = 1
    OBVIOUS
  <2> QED BY <1>2, <1>4, <2>1, <2>2 DEF Labelled, Bytes
<1>6. Muxed
  <2>1. pc \in {"header", "payload"} => input.proto = "tls"
    BY <1>1, <1>3 DEF InputType
  <2>2. 0 \in 0..pos /\ buf = SubSeq(Bytes, 0 + 1, pos)
    BY <1>2, <1>4
  <2>3. pc # "payload" /\ (pc = "head" => buf = SubSeq(Bytes, 1, pos))
    BY <1>1, <1>2, <1>3, <1>4 DEF InputType
  <2> QED BY <1>2, <1>3, <1>5, <2>1, <2>2, <2>3 DEF Muxed
<1>7. OutcomeExact
  BY <1>2 DEF OutcomeExact
<1> QED BY <1>1, <1>6, <1>7 DEF OutcomeInv

(* However the stream is cut into segments, the hello into records and the *)
(* rooms of the blocks, readClientHello (tls.go:190-283) and ReadRequest   *)
(* (http.go:20) settle what a reader of the whole stream would.            *)
THEOREM FramingOutcomeExact == Spec => []OutcomeExact
<1>1. OutcomeInv => OutcomeExact
  BY DEF OutcomeInv
<1> QED BY <1>1, OutcomeInit, OutcomeStep, PTL DEF Spec
-----------------------------------------------------------------------------
(* The Decoder that has returned k messages is at the end of the k-th      *)
(* packet, behind the type of the next one, or before its data.            *)
At(ms, k) ==
    LET start == Len(Encoding(ms)[k])
    IN  /\ k \in 0..Len(ms) /\ decoded = SubSeq(ms, 1, k)
        /\ pc = "type" => pos = start
        /\ pc = "rest" => k < Len(ms) /\ buf = <<ms[k + 1].type>> /\ pos = start + 1
        /\ pc = "data" => /\ k < Len(ms) /\ ms[k + 1].type = DataType /\ Len(ms[k + 1].data) > 0
                          /\ buf = SubSeq(Marshal(ms[k + 1]), 1, 5) /\ pos = start + 5
        /\ pc = "end" => k = Len(ms) /\ outcome = Err("eof")

Exact == input.proto = "qmux" /\ ~short => \E k \in 0..Len(input.means) : At(input.means, k)

DecodeInv == ReplayInv /\ Exact

(* The messages of a qmux stream, and what Encoding computes for them. *)
LEMMA QmuxFacts ==
    ASSUME InputType, input.proto = "qmux"
    PROVE  /\ input.means \in Seq(Range(input.means)) /\ Len(input.means) \in Nat
           /\ \A k \in 1..Len(input.means) : IsMessage(input.means[k])
           /\ Bytes = Encoding(input.means)[Len(input.means)]
           /\ Concats(Encoding(input.means), Byte, Len(input.means),
                      [k \in 1..Len(input.means) |-> Marshal(input.means[k])])
<1>1. Labelled(input)
  BY FramingAssumption DEF InputType
<1>2. /\ input.means \in Seq(Range(input.means)) /\ \A m \in Range(input.means) : IsMessage(m)
      /\ input.bytes = Encoded(input.means)
  BY <1>1 DEF Labelled
<1>3. PICK S : S = Range(input.means)
  OBVIOUS
<1>4. PICK ms \in Seq(S) : ms = input.means /\ \A m \in S : IsMessage(m)
  BY <1>2, <1>3
<1>5. PICK n \in Nat : n = Len(ms)
  BY LenProperties
<1>6. ASSUME NEW k \in 1..n PROVE IsMessage(ms[k]) /\ Marshal(ms[k]) \in Seq(Byte)
  <2>1. ms[k] \in S
    BY <1>5, ElementOfSeq
  <2>2. IsMessage(ms[k])
    BY <1>4, <2>1
  <2> QED BY <2>2, MarshalFacts
<1>7. Concats(Encoding(ms), Byte, n, [k \in 1..n |-> Marshal(ms[k])])
  BY <1>5, <1>6, EncodingConcats
<1> QED BY <1>2, <1>4, <1>5, <1>6, <1>7 DEF Encoded, Bytes

(* Message m follows k others; its packet g begins behind start bytes. *)
Packet(k, m, g, start) ==
    /\ k \in Nat /\ k < Len(input.means) /\ m = input.means[k + 1] /\ IsMessage(m)
    /\ g = Marshal(m) /\ g \in Seq(Byte) /\ Len(g) \in Nat
    /\ start \in Nat /\ start = Len(Encoding(input.means)[k])
    /\ Len(Encoding(input.means)[k + 1]) = start + Len(g) /\ start + Len(g) <= Len(Bytes)
    /\ \A i \in 1..Len(g) : Bytes[start + i] = g[i]

(* The packet of every message of the stream.                              *)
LEMMA PacketExists ==
    ASSUME InputType, input.proto = "qmux", NEW k \in 0..Len(input.means), k < Len(input.means)
    PROVE  Packet(k, input.means[k + 1], Marshal(input.means[k + 1]), Len(Encoding(input.means)[k]))
<1>1. PICK n \in Nat : n = Len(input.means)
  BY QmuxFacts
<1>2. PICK g : g = [j \in 1..n |-> Marshal(input.means[j])]
  OBVIOUS
<1>3. PICK e : e = Encoding(input.means)
  OBVIOUS
<1>4. Concats(e, Byte, n, g) /\ Bytes = e[n] /\ \A j \in 1..n : IsMessage(input.means[j])
  BY <1>1, <1>2, <1>3, QmuxFacts
<1>5. ASSUME NEW j \in 1..n PROVE g[j] = Marshal(input.means[j]) /\ g[j] \in Seq(Byte)
  BY <1>2, <1>4, MarshalFacts
<1>6. g \in [1..n -> Seq(Byte)]
  BY <1>2, <1>5
<1>7. PICK j \in 1..n : j = k + 1 /\ j - 1 = k
  BY <1>1
<1>8. PartOf(e, g, n, k, j)
  <2>1. \A i \in 1..n : PartOf(e, g, n, i - 1, i)
    BY <1>4, <1>6, ConcatsFacts
  <2> QED BY <1>7, <2>1
<1>9. k \in Nat /\ k < Len(input.means)
  BY <1>1
<1>10. /\ g[j] = Marshal(input.means[j]) /\ g[j] \in Seq(Byte) /\ IsMessage(input.means[j])
  BY <1>4, <1>5
<1>11. /\ input.means[k + 1] = input.means[j] /\ e[k + 1] = e[j]
  BY <1>7
<1>12. \A i \in 1..Len(g[j]) : Bytes[Len(e[k]) + i] = g[j][i]
  BY <1>4, <1>8, <1>11 DEF PartOf
<1>13. Len(e[k]) \in Nat /\ Len(g[j]) \in Nat /\ Len(e[k + 1]) = Len(e[k]) + Len(g[j])
  BY <1>8, <1>11 DEF PartOf
<1>14. Len(e[k]) + Len(g[j]) <= Len(Bytes)
  BY <1>4, <1>8, <1>11 DEF PartOf
<1> QED BY <1>3, <1>9, <1>10, <1>11, <1>12, <1>13, <1>14, Zenon DEF Packet

(* A segment that is read within a packet is a part of it. *)
LEMMA SegmentOfPacket ==
    ASSUME InputType, NEW k, NEW m, NEW g, NEW start, Packet(k, m, g, start),
           NEW o \in Nat, pos = start + o, NEW max, NEW s \in Segments(max), o + Len(s) <= Len(g)
    PROVE  \A i \in 1..Len(s) : s[i] = g[o + i]
<1>1. /\ s = SubSeq(Bytes, pos + 1, pos + Len(s)) /\ Len(s) \in Nat /\ pos + Len(s) \in 0..Len(Bytes)
      /\ Bytes \in Seq(Byte) /\ pos \in Nat /\ Len(Bytes) \in Nat
  BY SegmentFacts, LenProperties DEF InputType
<1>2. Len(s) \in Nat /\ pos + Len(s) <= Len(Bytes) /\ pos \in Nat /\ Len(Bytes) \in Nat
  BY <1>1
<1>3. PICK a \in Nat : a = pos + 1
  BY <1>2
<1>4. PICK q \in Nat : q = pos + Len(s)
  BY <1>2
<1>5. a >= 1 /\ a <= q + 1 /\ q <= Len(Bytes) /\ (q + 1) - a = Len(s)
  <2>1. PICK l \in Nat, r \in Nat : l = Len(s) /\ r = pos
    BY <1>2
  <2>2. a = r + 1 /\ q = r + l /\ q <= Len(Bytes)
    BY <1>2, <1>3, <1>4, <2>1
  <2>3. a >= 1 /\ a <= q + 1 /\ (q + 1) - a = l
    BY <2>2
  <2> QED BY <2>1, <2>2, <2>3
<1>6. \A i \in 1..((q + 1) - a) : SubSeq(Bytes, a, q)[i] = Bytes[(a + i) - 1]
  <2>1. Bytes \in Seq(Byte) /\ a >= 1 /\ a <= q + 1 /\ q <= Len(Bytes)
    BY <1>1, <1>5
  <2> QED BY <2>1, Slice
<1>7. start \in Nat /\ Len(g) \in Nat /\ \A i \in 1..Len(g) : Bytes[start + i] = g[i]
  BY DEF Packet
<1>8. ASSUME NEW i \in 1..Len(s) PROVE s[i] = g[o + i]
  <2>1. (a + i) - 1 = start + (o + i) /\ o + i \in 1..Len(g) /\ i \in 1..((q + 1) - a)
    BY <1>2, <1>3, <1>5, <1>7
  <2>2. s[i] = Bytes[(a + i) - 1]
    BY <1>1, <1>3, <1>4, <1>6, <2>1
  <2> QED BY <1>7, <2>1, <2>2
<1> QED BY <1>8

(* The Length of a Data message, read from its packet. *)
LEMMA LengthOf ==
    ASSUME NEW m, IsMessage(m), m.type = DataType, NEW b,
           \A i \in 1..5 : b[i] = Marshal(m)[i]
    PROVE  Uint(b, 2 + IntSize) = Len(m.data)
<1>1. /\ m.fields \in [Range(Layout(m.type)) -> Word] /\ Len(m.data) = m.fields["Length"]
  BY IsMessageFacts
<1>2. /\ "Length" \in Range(Layout(DataType)) /\ Len(Layout(DataType)) = 2
      /\ Layout(DataType)[2] = "Length"
  BY LayoutFacts, PayloadSizes
<1>3. PICK v \in Word : v = m.fields["Length"]
  BY <1>1, <1>2
<1>4. Marshal(m)[2 * 2] = PutUint(v)[1] /\ Marshal(m)[2 * 2 + 1] = PutUint(v)[2]
  <2>1. \A i \in 1..Len(Layout(m.type)) :
             /\ Marshal(m)[2 * i] = PutUint(m.fields[Layout(m.type)[i]])[1]
             /\ Marshal(m)[2 * i + 1] = PutUint(m.fields[Layout(m.type)[i]])[2]
    BY MarshalFacts
  <2>2. 2 \in 1..Len(Layout(m.type)) /\ Layout(m.type)[2] = "Length"
    BY <1>2
  <2> QED BY <1>3, <2>1, <2>2
<1>5. PutUint(v)[1] * 256 + PutUint(v)[2] = v
  BY UintFacts
<1>6. b[4] = PutUint(v)[1] /\ b[5] = PutUint(v)[2]
  <2>1. 2 * 2 = 4 /\ 2 * 2 + 1 = 5 /\ 4 \in 1..5 /\ 5 \in 1..5
    OBVIOUS
  <2>2. Marshal(m)[4] = PutUint(v)[1] /\ Marshal(m)[5] = PutUint(v)[2]
    BY <1>4, <2>1
  <2> QED BY <2>1, <2>2
<1>7. Uint(b, 2 + IntSize) = b[4] * 256 + b[5]
  BY DEF Uint, IntSize
<1> QED BY <1>1, <1>3, <1>5, <1>6, <1>7

(* The packets between the first five bytes and the end. *)
LEMMA PacketFacts ==
    ASSUME NEW k, NEW m, NEW g, NEW start, Packet(k, m, g, start)
    PROVE  /\ m.type \in MessageTypes /\ PayloadSize(m.type) \in Nat /\ PayloadSize(m.type) >= 2
           /\ Len(m.data) \in Nat /\ Len(g) = 1 + PayloadSize(m.type) + Len(m.data)
           /\ g[1] = m.type /\ (m.type # DataType => Len(m.data) = 0)
           /\ Unmarshal(g, 0) = m
<1>1. IsMessage(m) /\ g = Marshal(m)
  BY DEF Packet
<1>2. m.type \in MessageTypes /\ Len(m.data) = IF m.type = DataType THEN m.fields["Length"] ELSE 0
  BY <1>1, IsMessageFacts
<1>3. PayloadSize(m.type) \in Nat /\ PayloadSize(m.type) >= 2
  BY <1>2, PayloadSizes
<1>4. Len(m.data) \in Nat /\ Len(g) = 1 + PayloadSize(m.type) + Len(m.data) /\ g[1] = m.type
  BY <1>1, MarshalFacts
<1>5. Unmarshal(g, 0) = m
  BY <1>1, RoundTrip
<1> QED BY <1>2, <1>3, <1>4, <1>5

(* What DecodeInv says of a Decoder that has not had a short Read. *)
Reading(k, ms) ==
    /\ InputType /\ input.proto = "qmux" /\ ms = input.means /\ k \in 0..Len(ms) /\ k \in Nat
    /\ Len(ms) \in Nat /\ decoded = SubSeq(ms, 1, k)

(* The invariant, of a Decoder that has had no short Read.                 *)
LEMMA ReadingFacts ==
    ASSUME DecodeInv, input.proto = "qmux", ~short
    PROVE  \E k : Reading(k, input.means) /\ At(input.means, k)
<1>1. InputType
  BY DEF DecodeInv, ReplayInv
<1>2. Len(input.means) \in Nat
  BY <1>1, QmuxFacts
<1>3. PICK k \in 0..Len(input.means) : At(input.means, k)
  BY DEF DecodeInv, Exact
<1>4. decoded = SubSeq(input.means, 1, k)
  BY <1>3 DEF At
<1>5. k \in Nat
  BY <1>2
<1> QED BY <1>1, <1>2, <1>3, <1>4, <1>5 DEF Reading

(* A decoded message: the next one. *)
LEMMA DecodesNext ==
    ASSUME NEW k, NEW ms, Reading(k, ms), NEW m, NEW g, NEW start, Packet(k, m, g, start),
           Decoded(g, 0), input' = input, pos' = start + Len(g)
    PROVE  Exact'
<1>1. /\ k < Len(ms) /\ m = ms[k + 1] /\ pos' = Len(Encoding(ms)[k + 1])
  BY DEF Packet, Reading
<1>2. decoded' = Append(decoded, m) /\ pc' = "type"
  BY PacketFacts DEF Decoded
<1>3. decoded' = SubSeq(ms, 1, k + 1)
  <2>1. PICK S : S = Range(ms) /\ ms \in Seq(S)
    BY QmuxFacts DEF Reading
  <2>2. PICK p \in Nat : p = k + 1 /\ p <= Len(ms) /\ k <= Len(ms)
    BY <1>1 DEF Reading
  <2>3. 1 \in Nat /\ 1 <= k + 1 /\ 1 <= p + 1
    BY <2>2 DEF Reading
  <2>4. PICK a : a = SubSeq(ms, 1, k)
    OBVIOUS
  <2>5. a \in Seq(S) /\ Len(a) = (k + 1) - 1 /\ \A i \in 1..((k + 1) - 1) : a[i] = ms[(1 + i) - 1]
    <3>1. k \in Nat /\ k <= Len(ms)
      BY <2>2 DEF Reading
    <3> QED BY <2>1, <2>3, <2>4, <3>1, Slice
  <2>6. PICK b : b = SubSeq(ms, 1, p)
    OBVIOUS
  <2>7. b \in Seq(S) /\ Len(b) = (p + 1) - 1 /\ \A i \in 1..((p + 1) - 1) : b[i] = ms[(1 + i) - 1]
    BY <2>1, <2>2, <2>3, <2>6, Slice
  <2>8. Len(a) = k /\ k \in Nat /\ \A i \in 1..k : a[i] = ms[i]
    <3>1. k \in Nat /\ (k + 1) - 1 = k /\ \A i \in 1..k : (1 + i) - 1 = i
      BY DEF Reading
    <3> QED BY <2>5, <3>1
  <2>9. Len(b) = p /\ \A i \in 1..p : b[i] = ms[i]
    <3>1. (p + 1) - 1 = p /\ \A i \in 1..p : (1 + i) - 1 = i
      OBVIOUS
    <3> QED BY <2>7, <3>1
  <2>10. m \in S
    <3>1. p \in 1..Len(ms)
      BY <2>2, <2>8
    <3> QED BY <1>1, <2>1, <2>2, <3>1, ElementOfSeq
  <2>11. PICK c \in Seq(S) : c = Append(a, m)
    BY <2>5, <2>10, AppendProperties
  <2>12. Len(c) = p /\ c[p] = m /\ \A i \in 1..k : c[i] = a[i]
    <3>1. /\ Len(c) = Len(a) + 1 /\ \A i \in 1..Len(a) : c[i] = a[i]
          /\ c[Len(a) + 1] = m
      BY <2>5, <2>10, <2>11, AppendProperties
    <3> QED BY <2>2, <2>8, <3>1
  <2>13. ASSUME NEW i \in 1..Len(c) PROVE c[i] = b[i]
    <3>1. i \in 1..k \/ i = p
      BY <2>2, <2>8, <2>12
    <3> QED BY <1>1, <2>2, <2>8, <2>9, <2>12, <2>13, <3>1
  <2>14. c = b
    BY <2>7, <2>9, <2>11, <2>12, <2>13, SeqEqual
  <2> QED BY <1>2, <2>2, <2>4, <2>6, <2>11, <2>14 DEF Reading
<1>4. k + 1 \in 0..Len(ms)
  BY <1>1 DEF Reading
<1>5. At(ms, k + 1)'
  BY <1>1, <1>2, <1>3, <1>4 DEF At
<1>6. ms = input'.means
  BY DEF Reading
<1> QED BY <1>4, <1>5, <1>6 DEF Exact

(* The three Reads of readPacket: each keeps the Decoder at its place.     *)
LEMMA ExactType ==
    ASSUME DecodeInv, ReadType, input'.proto = "qmux", ~short'
    PROVE  Exact'
<1>1. /\ UNCHANGED <<input, decoded, short>> /\ pc = "type"
  BY DEF ReadType
<1>2. PICK s \in Segments(1) : /\ pos' = pos + Len(s) /\ buf' = s
                               /\ IF PayloadSize(s[1]) = 0 THEN pc' = "end" ELSE pc' = "rest"
  BY DEF ReadType
<1>3. PICK k : Reading(k, input.means) /\ At(input.means, k)
  BY <1>1, ReadingFacts
<1>4. InputType /\ input.proto = "qmux" /\ k \in 0..Len(input.means) /\ k \in Nat /\ Len(input.means) \in Nat
  BY <1>3 DEF Reading
<1>5. s \in Seq(Byte) /\ Len(s) \in Nat /\ Len(s) >= 1 /\ Len(s) <= 1 /\ pos + Len(s) \in 0..Len(Bytes)
  BY <1>4, SegmentFacts
<1>6. pos = Len(Encoding(input.means)[k]) /\ decoded = SubSeq(input.means, 1, k)
  BY <1>1, <1>3 DEF At
<1>7. pos \in Nat /\ Len(Bytes) \in Nat /\ Bytes = Encoding(input.means)[Len(input.means)]
  BY <1>4, QmuxFacts, LenProperties DEF InputType
<1>8. k < Len(input.means)
  <2>1. k # Len(input.means)
    BY <1>5, <1>6, <1>7
  <2> QED BY <1>4, <2>1
<1>9. PICK m, g, start : Packet(k, m, g, start) /\ m = input.means[k + 1] /\ start = pos
  BY <1>4, <1>6, <1>8, PacketExists
<1>10. /\ m.type \in MessageTypes /\ PayloadSize(m.type) \in Nat /\ PayloadSize(m.type) >= 2
       /\ Len(m.data) \in Nat /\ Len(g) = 1 + PayloadSize(m.type) + Len(m.data) /\ g[1] = m.type
  BY <1>9, PacketFacts
<1>11. PICK o \in Nat : o = 0 /\ pos = start + o
  BY <1>7, <1>9
<1>12. PICK l \in Nat : l = Len(s) /\ l = 1
  <2>1. PICK l \in Nat : l = Len(s)
    BY <1>5
  <2>2. l >= 1 /\ l <= 1
    BY <1>5, <2>1
  <2> QED BY <2>1, <2>2
<1>13. o + Len(s) <= Len(g)
  BY <1>10, <1>11, <1>12
<1>14. \A i \in 1..Len(s) : s[i] = g[o + i]
  BY <1>4, <1>9, <1>11, <1>13, SegmentOfPacket
<1>15. s[1] = m.type
  BY <1>10, <1>11, <1>12, <1>14
<1>16. s = <<m.type>>
  <2>1. PICK x : x = <<m.type>>
    OBVIOUS
  <2>2. Len(x) = 1 /\ x[1] = m.type
    BY <2>1
  <2>3. m.type \in Byte
    BY <1>10 DEF MessageTypes, Byte
  <2>4. x \in Seq(Byte)
    BY <2>1, <2>3
  <2>5. Len(s) = Len(x) /\ \A i \in 1..Len(s) : s[i] = x[i]
    <3>1. \A i \in 1..1 : i = 1
      OBVIOUS
    <3> QED BY <1>12, <1>15, <2>2, <3>1
  <2> QED BY <1>5, <2>1, <2>4, <2>5, SeqEqual
<1>17. pc' = "rest" /\ buf' = <<m.type>> /\ pos' = pos + 1
  BY <1>2, <1>10, <1>12, <1>15, <1>16
<1>18. At(input.means, k)'
  BY <1>1, <1>4, <1>6, <1>8, <1>9, <1>17 DEF At
<1> QED BY <1>1, <1>4, <1>18 DEF Exact

(* A full Read behind the first c bytes of a packet. *)
LEMMA Filled ==
    ASSUME InputType, NEW k, NEW m, NEW g, NEW start, Packet(k, m, g, start),
           NEW c \in Seq(Byte), \A i \in 1..Len(c) : c[i] = g[i], pos = start + Len(c),
           NEW size \in Nat, NEW s \in Segments(size), ~(Len(s) < size), Len(c) + size <= Len(g)
    PROVE  /\ c \o s \in Seq(Byte) /\ Len(s) = size /\ Len(c \o s) = Len(c) + size
           /\ Len(c) \in Nat /\ Padded(s, size) = s
           /\ \A i \in 1..(Len(c) + size) : (c \o s)[i] = g[i]
<1>1. PICK l \in Nat : l = Len(s) /\ l <= size
  BY SegmentFacts
<1>2. s \in Seq(Byte) /\ Len(s) = size
  BY <1>1, SegmentFacts
<1>3. PICK o \in Nat : o = Len(c) /\ pos = start + o
  BY LenProperties
<1>4. o + Len(s) <= Len(g)
  BY <1>2, <1>3
<1>5. \A i \in 1..Len(s) : s[i] = g[o + i]
  BY <1>3, <1>4, SegmentOfPacket
<1>6. PICK b \in Seq(Byte) : b = c \o s
  BY <1>2, ConcatProperties
<1>7. /\ Len(b) = o + size
      /\ \A i \in 1..(o + size) : b[i] = IF i <= o THEN c[i] ELSE s[i - o]
  <2>1. /\ Len(b) = Len(c) + Len(s)
        /\ \A i \in 1..(Len(c) + Len(s)) : b[i] = IF i <= Len(c) THEN c[i] ELSE s[i - Len(c)]
    BY <1>2, <1>6, ConcatProperties
  <2> QED BY <1>2, <1>3, <2>1
<1>8. ASSUME NEW i \in 1..(o + size) PROVE b[i] = g[i]
  <2>1. CASE i <= o
    BY <1>3, <1>7, <2>1
  <2>2. CASE ~(i <= o)
    <3>1. PICK j \in 1..size : j = i - o /\ o + j = i
      BY <2>2
    <3>2. b[i] = s[j] /\ s[j] = g[o + j]
      BY <1>2, <1>5, <1>7, <2>2, <3>1
    <3> QED BY <3>1, <3>2
  <2> QED BY <2>1, <2>2
<1>9. Padded(s, size) = s
  <2>1. PICK z : z = [i \in 1..(size - Len(s)) |-> 0]
    OBVIOUS
  <2>2. z = <<>>
    <3>1. size - Len(s) = 0
      BY <1>2
    <3>2. z = [i \in 1..0 |-> 0] /\ 1..0 = {}
      BY <2>1, <3>1
    <3>3. z \in [1..0 -> Byte]
      BY <3>2
    <3>4. z \in Seq(Byte) /\ DOMAIN z = {}
      BY <3>2, <3>3, SeqDef
    <3>5. Len(z) = 0
      BY <3>2, <3>3, <3>4, LenProperties
    <3> QED BY <3>4, <3>5, EmptySeq
  <2>3. s \o <<>> = s
    BY <1>2, ConcatEmptySeq
  <2> QED BY <2>1, <2>2, <2>3 DEF Padded
<1> QED BY <1>2, <1>3, <1>6, <1>7, <1>8, <1>9

(* A sequence that agrees with all of a packet is the packet. *)
LEMMA WholePacket ==
    ASSUME NEW k, NEW m, NEW g, NEW start, Packet(k, m, g, start),
           NEW b \in Seq(Byte), Len(b) = Len(g), \A i \in 1..Len(b) : b[i] = g[i]
    PROVE  b = g
  BY SeqEqual DEF Packet

LEMMA ExactRest ==
    ASSUME DecodeInv, ReadRest, input'.proto = "qmux", ~short'
    PROVE  Exact'
<1>1. PICK size : size = PayloadSize(buf[1])
  OBVIOUS
<1>2. UNCHANGED input /\ pc = "rest"
  BY DEF ReadRest
<1>3. PICK s \in Segments(size) :
        /\ pos' = pos + Len(s) /\ short' = (short \/ Len(s) < size)
        /\ LET b == buf \o Padded(s, size)
           IN  IF b[1] = DataType /\ Uint(b, 2 + IntSize) > 0
               THEN pc' = "data" /\ buf' = b /\ UNCHANGED decoded
               ELSE Decoded(b, 0)
  BY <1>1 DEF ReadRest
<1>4. ~short /\ ~(Len(s) < size)
  BY <1>3
<1>5. PICK k : Reading(k, input.means) /\ At(input.means, k)
  BY <1>2, <1>4, ReadingFacts
<1>6. /\ InputType /\ input.proto = "qmux" /\ k \in 0..Len(input.means) /\ k \in Nat
      /\ Len(input.means) \in Nat
  BY <1>5 DEF Reading
<1>7. PICK start : start = Len(Encoding(input.means)[k])
  OBVIOUS
<1>8. /\ k < Len(input.means) /\ buf = <<input.means[k + 1].type>> /\ pos = start + 1
      /\ decoded = SubSeq(input.means, 1, k)
  BY <1>2, <1>5, <1>7 DEF At
<1>9. PICK m, g : Packet(k, m, g, start) /\ m = input.means[k + 1]
  BY <1>6, <1>7, <1>8, PacketExists
<1>10. /\ m.type \in MessageTypes /\ PayloadSize(m.type) \in Nat /\ PayloadSize(m.type) >= 2
       /\ Len(m.data) \in Nat /\ Len(g) = 1 + PayloadSize(m.type) + Len(m.data) /\ g[1] = m.type
       /\ (m.type # DataType => Len(m.data) = 0) /\ start \in Nat
  <2>1. start \in Nat
    BY <1>9 DEF Packet
  <2> QED BY <1>9, <2>1, PacketFacts
<1>11. PICK c \in Seq(Byte) : c = buf /\ Len(c) = 1 /\ c[1] = m.type
  <2>1. m.type \in Byte
    BY <1>10 DEF MessageTypes, Byte
  <2>2. PICK x : x = <<m.type>>
    OBVIOUS
  <2>3. x \in Seq(Byte) /\ Len(x) = 1 /\ x[1] = m.type
    BY <2>1, <2>2
  <2>4. x = buf
    BY <1>8, <1>9, <2>2
  <2> QED BY <2>3, <2>4
<1>12. size = PayloadSize(m.type) /\ size \in Nat
  BY <1>1, <1>10, <1>11
<1>13. /\ \A i \in 1..Len(c) : c[i] = g[i]
       /\ pos = start + Len(c) /\ Len(c) + size <= Len(g)
  <2>1. \A i \in 1..1 : i = 1
    OBVIOUS
  <2>2. Len(c) + size <= Len(g)
    BY <1>10, <1>11, <1>12
  <2> QED BY <1>8, <1>10, <1>11, <2>1, <2>2
<1>14. PICK b \in Seq(Byte) : b = c \o s
  <2>1. s \in Seq(Byte)
    BY <1>6, SegmentFacts
  <2> QED BY <2>1, ConcatProperties
<1>15. /\ Len(s) = size /\ Len(b) = Len(c) + size /\ Padded(s, size) = s
       /\ \A i \in 1..(Len(c) + size) : b[i] = g[i]
  BY <1>4, <1>6, <1>9, <1>12, <1>13, <1>14, Filled
<1>16. Len(b) = 1 + size /\ \A i \in 1..(1 + size) : b[i] = g[i]
  BY <1>11, <1>15
<1>17. b[1] = m.type /\ pos' = start + (1 + size)
  <2>1. b[1] = g[1]
    BY <1>10, <1>12, <1>16
  <2> QED BY <1>3, <1>8, <1>10, <1>12, <1>15, <2>1
<1>18. IF b[1] = DataType /\ Uint(b, 2 + IntSize) > 0
       THEN pc' = "data" /\ buf' = b /\ UNCHANGED decoded
       ELSE Decoded(b, 0)
  BY <1>3, <1>11, <1>14, <1>15
<1>19. m.type = DataType => size = 4 /\ Uint(b, 2 + IntSize) = Len(m.data)
  <2> SUFFICES ASSUME m.type = DataType PROVE size = 4 /\ Uint(b, 2 + IntSize) = Len(m.data)
    OBVIOUS
  <2>1. size = 4
    BY <1>12, PayloadSizes
  <2>2. \A i \in 1..5 : b[i] = Marshal(m)[i]
    BY <1>9, <1>16, <2>1 DEF Packet
  <2>3. IsMessage(m)
    BY <1>9 DEF Packet
  <2> QED BY <2>1, <2>2, <2>3, LengthOf
<1>20. CASE m.type = DataType /\ Len(m.data) > 0
  <2>1. pc' = "data" /\ buf' = b /\ UNCHANGED decoded /\ Len(b) = 5 /\ pos' = start + 5
    BY <1>16, <1>17, <1>18, <1>19, <1>20
  <2>2. b = SubSeq(g, 1, 5)
    <3>1. PICK x : x = SubSeq(g, 1, 5)
      OBVIOUS
    <3>2. g \in Seq(Byte) /\ 5 <= Len(g) /\ 1 \in Nat /\ 5 \in Nat /\ 1 <= 5 + 1
      BY <1>9, <1>10, <1>12, <1>19, <1>20 DEF Packet
    <3>3. x \in Seq(Byte) /\ Len(x) = (5 + 1) - 1 /\ \A i \in 1..((5 + 1) - 1) : x[i] = g[(1 + i) - 1]
      BY <3>1, <3>2, Slice
    <3>4. Len(x) = 5 /\ \A i \in 1..5 : x[i] = g[i]
      BY <3>3
    <3>5. \A i \in 1..5 : b[i] = g[i]
      BY <1>16, <1>19, <1>20
    <3> QED BY <2>1, <3>1, <3>3, <3>4, <3>5, SeqEqual
  <2>3. At(input.means, k)'
    BY <1>2, <1>6, <1>7, <1>8, <1>9, <1>20, <2>1, <2>2 DEF At, Packet
  <2> QED BY <1>2, <1>6, <2>3 DEF Exact
<1>21. CASE ~(m.type = DataType /\ Len(m.data) > 0)
  <2>1. Len(m.data) = 0
    BY <1>10, <1>21
  <2>2. Decoded(b, 0)
    BY <1>17, <1>18, <1>19, <2>1
  <2>3. Len(g) = 1 + size
    BY <1>10, <1>12, <2>1
  <2>4. b = g
    BY <1>9, <1>16, <2>3, WholePacket
  <2>5. pos' = start + Len(g)
    BY <1>17, <2>3
  <2> QED BY <1>2, <1>5, <1>9, <2>2, <2>4, <2>5, DecodesNext
<1> QED BY <1>20, <1>21

LEMMA ExactData ==
    ASSUME DecodeInv, ReadData, input'.proto = "qmux", ~short'
    PROVE  Exact'
<1>1. PICK size : size = Uint(buf, 2 + IntSize)
  OBVIOUS
<1>2. UNCHANGED input /\ pc = "data"
  BY DEF ReadData
<1>3. PICK s \in Segments(size) :
        /\ pos' = pos + Len(s) /\ short' = (short \/ Len(s) < size)
        /\ Decoded(buf \o s, size - Len(s))
  BY <1>1 DEF ReadData
<1>4. ~short /\ ~(Len(s) < size)
  BY <1>3
<1>5. PICK k : Reading(k, input.means) /\ At(input.means, k)
  BY <1>2, <1>4, ReadingFacts
<1>6. /\ InputType /\ input.proto = "qmux" /\ k \in 0..Len(input.means) /\ k \in Nat
      /\ Len(input.means) \in Nat
  BY <1>5 DEF Reading
<1>7. PICK start : start = Len(Encoding(input.means)[k])
  OBVIOUS
<1>8. PICK m, g : Packet(k, m, g, start) /\ m = input.means[k + 1] /\ g = Marshal(m)
  <2>1. k < Len(input.means)
    BY <1>2, <1>5 DEF At
  <2> QED BY <1>6, <1>7, <2>1, PacketExists
<1>9. m.type = DataType /\ Len(m.data) > 0 /\ buf = SubSeq(g, 1, 5) /\ pos = start + 5
  BY <1>2, <1>5, <1>7, <1>8 DEF At
<1>10. /\ Len(m.data) \in Nat /\ Len(g) = 5 + Len(m.data) /\ start \in Nat
       /\ g \in Seq(Byte) /\ IsMessage(m)
  <2>1. start \in Nat /\ g \in Seq(Byte) /\ IsMessage(m)
    BY <1>8 DEF Packet
  <2>2. Len(m.data) \in Nat /\ Len(g) = 1 + PayloadSize(m.type) + Len(m.data)
    BY <1>8, PacketFacts
  <2>3. PayloadSize(m.type) = 4
    BY <1>9, PayloadSizes
  <2> QED BY <2>1, <2>2, <2>3
<1>11. PICK c \in Seq(Byte) : c = buf /\ Len(c) = 5 /\ \A i \in 1..5 : c[i] = g[i]
  <2>1. PICK x : x = SubSeq(g, 1, 5)
    OBVIOUS
  <2>2. 5 <= Len(g) /\ 1 \in Nat /\ 5 \in Nat /\ 1 <= 5 + 1
    BY <1>10
  <2>3. x \in Seq(Byte) /\ Len(x) = (5 + 1) - 1 /\ \A i \in 1..((5 + 1) - 1) : x[i] = g[(1 + i) - 1]
    BY <1>10, <2>1, <2>2, Slice
  <2>4. Len(x) = 5 /\ \A i \in 1..5 : x[i] = g[i]
    BY <2>3
  <2> QED BY <1>9, <2>1, <2>3, <2>4
<1>12. size = Len(m.data) /\ size \in Nat
  <2>1. \A i \in 1..5 : c[i] = Marshal(m)[i]
    BY <1>8, <1>11
  <2>2. Uint(c, 2 + IntSize) = Len(m.data)
    BY <1>9, <1>10, <2>1, LengthOf
  <2> QED BY <1>1, <1>10, <1>11, <2>2
<1>13. /\ \A i \in 1..Len(c) : c[i] = g[i]
       /\ pos = start + Len(c) /\ Len(c) + size <= Len(g)
  BY <1>9, <1>10, <1>11, <1>12
<1>14. PICK b \in Seq(Byte) : b = c \o s
  <2>1. s \in Seq(Byte)
    BY <1>6, SegmentFacts
  <2> QED BY <2>1, ConcatProperties
<1>15. /\ Len(s) = size /\ Len(b) = Len(c) + size
       /\ \A i \in 1..(Len(c) + size) : b[i] = g[i]
  <2>1. InputType /\ Packet(k, m, g, start)
    BY <1>6, <1>8
  <2>2. /\ Len(s) = size /\ Len(c \o s) = Len(c) + size
        /\ \A i \in 1..(Len(c) + size) : (c \o s)[i] = g[i]
    BY <1>4, <1>12, <1>13, <2>1, Filled
  <2> QED BY <1>14, <2>2
<1>16. b = g
  <2>1. Len(b) = Len(g) /\ \A i \in 1..Len(b) : b[i] = g[i]
    BY <1>10, <1>11, <1>12, <1>15
  <2> QED BY <1>8, <2>1, WholePacket
<1>17. Decoded(g, 0) /\ pos' = start + Len(g)
  <2>1. size - Len(s) = 0
    BY <1>12, <1>15
  <2>2. pos' = start + Len(g)
    <3>1. PICK n \in Nat, a \in Nat : n = Len(m.data) /\ a = start
      BY <1>10
    <3>2. pos = a + 5 /\ Len(s) = n /\ Len(g) = 5 + n
      BY <1>9, <1>10, <1>12, <1>15, <3>1
    <3>3. pos' = pos + Len(s)
      BY <1>3
    <3>4. pos' = (a + 5) + n
      BY <3>2, <3>3
    <3>5. (a + 5) + n = a + (5 + n)
      OBVIOUS
    <3> QED BY <3>1, <3>2, <3>4, <3>5
  <2> QED BY <1>3, <1>11, <1>14, <1>16, <2>1, <2>2
<1> QED BY <1>2, <1>5, <1>8, <1>17, DecodesNext

(* The stream ends between two packets: Bytes are whole packets, and no    *)
(* Read of a packet was short.                                             *)
LEMMA ExactFails ==
    ASSUME DecodeInv, ReadFails, input'.proto = "qmux", ~short'
    PROVE  Exact'
<1>1. UNCHANGED <<input, pos, decoded, short>> /\ Settle(Err("eof")) /\ pos = Len(Bytes)
  BY DEF ReadFails, EndOfStream, Bytes
<1>2. PICK k : Reading(k, input.means) /\ At(input.means, k)
  BY <1>1, ReadingFacts
<1>3. /\ InputType /\ input.proto = "qmux" /\ k \in 0..Len(input.means) /\ k \in Nat
      /\ Len(input.means) \in Nat /\ decoded = SubSeq(input.means, 1, k)
  BY <1>2 DEF Reading
<1>4. pc \in {"type", "rest", "data"}
  <2>1. Place /\ pc # "end"
    <3>1. Place
      BY DEF DecodeInv, ReplayInv
    <3> QED BY <3>1 DEF ReadFails
  <2> QED BY <1>3, <2>1 DEF Place
<1>5. k = Len(input.means)
  <2> SUFFICES ASSUME k < Len(input.means) PROVE FALSE
    BY <1>3
  <2>1. PICK start : start = Len(Encoding(input.means)[k])
    OBVIOUS
  <2>2. PICK m, g : Packet(k, m, g, start) /\ m = input.means[k + 1]
    BY <1>3, <2>1, PacketExists
  <2>3. /\ start \in Nat /\ Len(g) \in Nat /\ start + Len(g) <= Len(Bytes)
        /\ Len(g) = 1 + PayloadSize(m.type) + Len(m.data)
        /\ PayloadSize(m.type) \in Nat /\ PayloadSize(m.type) >= 2 /\ Len(m.data) \in Nat
    <3>1. start \in Nat /\ Len(g) \in Nat /\ start + Len(g) <= Len(Bytes)
      BY <2>2 DEF Packet
    <3> QED BY <2>2, <3>1, PacketFacts
  <2>4. Len(Bytes) \in Nat
    BY <1>3, LenProperties DEF InputType
  <2>5. CASE pc = "type"
    <3>1. pos = start
      BY <1>2, <2>1, <2>5 DEF At
    <3> QED BY <1>1, <2>3, <2>4, <3>1
  <2>6. CASE pc = "rest"
    <3>1. pos = start + 1
      BY <1>2, <2>1, <2>6 DEF At
    <3> QED BY <1>1, <2>3, <2>4, <3>1
  <2>7. CASE pc = "data"
    <3>1. pos = start + 5 /\ m.type = DataType /\ Len(m.data) > 0
      BY <1>2, <2>1, <2>2, <2>7 DEF At
    <3>2. PayloadSize(m.type) = 4
      BY <3>1, PayloadSizes
    <3> QED BY <1>1, <2>3, <2>4, <3>1, <3>2
  <2> QED BY <1>4, <2>5, <2>6, <2>7
<1>6. pc' = "end" /\ outcome' = Err("eof")
  BY <1>1, Outcomes DEF Settle
<1>7. At(input.means, k)'
  BY <1>1, <1>3, <1>5, <1>6 DEF At
<1> QED BY <1>1, <1>3, <1>7 DEF Exact

(* The steps of the muxers are none of a qmux stream. *)
LEMMA DecodeStep == DecodeInv /\ [Next]_vars => DecodeInv'
<1> SUFFICES ASSUME DecodeInv, [Next]_vars PROVE DecodeInv'
  OBVIOUS
<1>1. ReplayInv /\ Place
  BY DEF DecodeInv, ReplayInv
<1>2. ReplayInv'
  BY <1>1, ReplayStep
<1>3. Exact'
  <2> SUFFICES ASSUME input'.proto = "qmux", ~short' PROVE Exact'
    BY DEF Exact
  <2>1. ASSUME Decode PROVE Exact'
    BY <2>1, ExactType, ExactRest, ExactData DEF Decode
  <2>2. ASSUME TLS \/ HTTP PROVE Exact'
    <3>1. pc \in {"header", "payload", "head"} /\ input' = input
      BY <2>2 DEF TLS, HTTP, FillBlock, CheckHeader, TakeRecord, FillRequest, TakeRequest
    <3> QED BY <1>1, <3>1 DEF Place
  <2>3. ASSUME ReadFails PROVE Exact'
    BY <2>3, ExactFails
  <2>4. ASSUME \E max \in 1..MaxRead : ReplayBuffer(max) \/ ReadThrough(max) PROVE Exact'
    <3>1. pc = "replay" /\ input' = input
      BY <2>4 DEF ReplayBuffer, ReadThrough
    <3> QED BY <1>1, <3>1 DEF Place
  <2>5. ASSUME UNCHANGED vars PROVE Exact'
    <3>1. Exact
      BY DEF DecodeInv
    <3> QED BY <2>5, <3>1 DEF vars, Exact, At
  <2> QED BY <2>1, <2>2, <2>3, <2>4, <2>5 DEF Next
<1> QED BY <1>2, <1>3 DEF DecodeInv

(* Before the first packet nothing is decoded.                             *)
LEMMA DecodeInit == Init => DecodeInv
<1> SUFFICES ASSUME Init PROVE DecodeInv
  OBVIOUS
<1>1. ReplayInv /\ InputType
  BY ReplayInit DEF ReplayInv
<1>2. ASSUME input.proto = "qmux" PROVE \E k \in 0..Len(input.means) : At(input.means, k)
  <2>1. PICK n \in Nat : n = Len(input.means)
    BY <1>1, <1>2, QmuxFacts
  <2>2. 0 \in 0..Len(input.means)
    BY <2>1
  <2>3. Len(Encoding(input.means)[0]) = 0
    <3>1. Encoding(input.means)[0] = <<>>
      BY <1>1, <1>2, QmuxFacts DEF Concats
    <3> QED BY <3>1
  <2>4. decoded = SubSeq(input.means, 1, 0)
    <3>1. PICK S : S = Range(input.means) /\ input.means \in Seq(S)
      BY <1>1, <1>2, QmuxFacts
    <3>2. SubSeq(input.means, 1, 0) = <<>>
      BY <3>1, SubSeqEmpty
    <3> QED BY <3>2 DEF Init
  <2>5. pc = "type" /\ pos = 0
    BY <1>2 DEF Init
  <2>6. At(input.means, 0)
    BY <2>2, <2>3, <2>4, <2>5 DEF At
  <2> QED BY <2>2, <2>6
<1> QED BY <1>1, <1>2 DEF DecodeInv, Exact

(* What the invariant says when the stream has ended, and before.          *)
LEMMA DecodedExactHolds == DecodeInv => DecodedExact
<1> SUFFICES ASSUME DecodeInv, input.proto = "qmux", ~short
             PROVE  IF pc = "end" THEN decoded = input.means /\ outcome = Err("eof")
                    ELSE IsPrefix(decoded, input.means)
  BY DEF DecodedExact
<1>1. PICK k : Reading(k, input.means) /\ At(input.means, k)
  BY ReadingFacts
<1>2. /\ InputType /\ k \in 0..Len(input.means) /\ k \in Nat
      /\ Len(input.means) \in Nat /\ decoded = SubSeq(input.means, 1, k)
  BY <1>1 DEF Reading
<1>3. PICK S : S = Range(input.means) /\ input.means \in Seq(S)
  BY <1>2, QmuxFacts
<1>4. CASE pc = "end"
  <2>1. k = Len(input.means) /\ outcome = Err("eof")
    BY <1>1, <1>4 DEF At
  <2>2. SubSeq(input.means, 1, Len(input.means)) = input.means
    BY <1>3, SubSeqFull
  <2> QED BY <1>2, <1>4, <2>1, <2>2
<1>5. CASE pc # "end"
  <2>1. decoded \in Seq(S) /\ Len(decoded) = k
    <3>1. PICK x : x = SubSeq(input.means, 1, k)
      OBVIOUS
    <3>2. k <= Len(input.means) /\ 1 \in Nat /\ 1 <= k + 1 /\ (k + 1) - 1 = k
      BY <1>2
    <3>3. x \in Seq(S) /\ Len(x) = (k + 1) - 1
      BY <1>2, <1>3, <3>1, <3>2, Slice
    <3> QED BY <1>2, <3>1, <3>2, <3>3
  <2>2. SubSeq(decoded, 1, Len(decoded)) = decoded
    BY <2>1, SubSeqFull
  <2>3. Len(decoded) <= Len(input.means)
    BY <1>2, <2>1
  <2>4. SubSeq(decoded, 1, Len(decoded)) = SubSeq(input.means, 1, Len(decoded))
    BY <1>2, <2>1, <2>2
  <2> QED BY <1>5, <2>3, <2>4 DEF IsPrefix
<1> QED BY <1>4, <1>5

(* Whatever was encoded and however it is cut: a Decoder none of whose     *)
(* Reads was short has returned a prefix of the messages, and all of them  *)
(* when it ends (decoder.go:22-98, encoder.go:18-49).                      *)
THEOREM FramingDecodedExact == Spec => []DecodedExact
  BY DecodeInit, DecodeStep, DecodedExactHolds, PTL DEF Spec
=============================================================================

------------------------------- MODULE Framing -------------------------------
(***************************************************************************)
(* What reads a byte stream that arrives in segments: the qmux Decoder     *)
(* (codec/decoder.go), and the readers of the first request that the       *)
(* muxers use, TLS (go-vhost/tls.go) and HTTP (http.go), whose sharedConn  *)
(* (shared.go) replays what they have read.                                *)
(*                                                                         *)
(* A segment arrives when Read returns it, and Read returns any number of  *)
(* bytes that fits.  The stream ends when the peer closes or a deadline    *)
(* passes.  A record header is three bytes here: type, version, length;    *)
(* the bounds of the code are scaled down with it.  The parser of HTTP     *)
(* requests is external: a head is host, content length and a blank line.  *)
(***************************************************************************)
EXTENDS Codec, Hello

CONSTANTS
    Inputs,        \* records of protocol, bytes sent, and what they mean
    BlockSize,     \* the first size of a block, 1024 in the code
    SuspectLen,    \* a record this long is not a hello, 0x3000 in the code
    MaxCiphertext, \* the longest record, 16384 + 2048 in the code
    MaxHandshake,  \* the longest handshake message, 65536 in the code
    BufioSize,     \* the buffer of bufio.NewReader, 4096 in Go
    MaxRead        \* bound: the longest p of a Read by the owner

VARIABLES
    input,    \* the member of Inputs that is sent
    pos,      \* how many of its bytes Read has returned
    pc,       \* where the reader is
    buf,      \* the packet, the current block, or the request read so far
    hand,     \* readClientHello's hand
    decoded,  \* history: the messages that Decode has returned
    short,    \* history: a Read of the Decoder returned less than a packet
    outcome,  \* the host, or why the reader gave up
    tee,      \* sharedConn.vhostBuf
    served    \* history: what sharedConn.Read has returned

vars == <<input, pos, pc, buf, hand, decoded, short, outcome, tee, served>>

RecordHeader == 3
Handshake == 22
SSLv2 == 128
ClientHello == 1
HttpHead == 3
None == <<>>
Err(why) == <<"error", why>>
Host(name) == <<"host", name>>

(* readRecord: the checks of a record's header. *)
HeaderError(b) ==
    IF b[1] = SSLv2 THEN Err("sslv2")
    ELSE IF b[3] > MaxCiphertext THEN Err("overflow")
    ELSE IF b[1] # Handshake \/ b[2] >= 16 \/ b[3] >= SuspectLen THEN Err("unexpected")
    ELSE None

RecordLen(b) == RecordHeader + b[3]
Payload(b) == SubSeq(b, RecordHeader + 1, RecordLen(b))

(* readClientHello: what the handshake bytes h amount to; None while the   *)
(* message is incomplete.                                                  *)
HelloOutcome(h) ==
    LET n == HandshakeHeader + h[2]
        name == ServerName(SubSeq(h, 1, n))
    IN  IF Len(h) < HandshakeHeader THEN Err("unexpected")
        ELSE IF h[2] > MaxHandshake THEN Err("internal")
        ELSE IF Len(h) < n THEN None
        ELSE IF h[1] # ClientHello \/ name = Bad THEN Err("unexpected")
        ELSE Host(name)
-----------------------------------------------------------------------------
(* What a stream means to a reader that has all of it at once: to compare  *)
(* with, and what the inputs are labelled with.  First what a record at    *)
(* the head of d settles when h came before it; then the reading of one    *)
(* record after the other, of handshake bytes s[1] and rest s[2].          *)
RecordOutcome(h, d) ==
    IF Len(d) < RecordHeader THEN Err("eof")
    ELSE IF HeaderError(d) # None THEN HeaderError(d)
    ELSE IF Len(d) < RecordLen(d) THEN Err("eof")
    ELSE HelloOutcome(h \o Payload(d))

TlsReading[s \in Seq(Byte) \X Seq(Byte)] ==
    IF RecordOutcome(s[1], s[2]) # None THEN RecordOutcome(s[1], s[2])
    ELSE TlsReading[<<s[1] \o Payload(s[2]), From(s[2], RecordLen(s[2]) + 1)>>]

HttpMeaning(bytes) ==
    IF Len(bytes) < HttpHead THEN Err("eof")
    ELSE IF bytes[3] = 0 THEN Host(<<bytes[1]>>) ELSE Err("malformed")

Labelled(i) ==
    CASE i.proto = "qmux" -> /\ i.means \in Seq(Range(i.means))
                             /\ \A m \in Range(i.means) : IsMessage(m)
                             /\ i.bytes = Encoded(i.means)
      [] i.proto = "tls" -> i.means = TlsReading[<<<<>>, i.bytes>>]
      [] i.proto = "http" -> i.means = HttpMeaning(i.bytes)

ASSUME FramingAssumption ==
    /\ BlockSize \in Nat \ {0} /\ BufioSize \in Nat \ {0} /\ MaxRead \in Nat \ {0}
    /\ SuspectLen \in Nat /\ MaxCiphertext \in Nat /\ MaxHandshake \in Nat
    /\ \A i \in Inputs :
          i.proto \in {"qmux", "tls", "http"} /\ i.bytes \in Seq(Byte) /\ Labelled(i)
-----------------------------------------------------------------------------
Init ==
    /\ input \in Inputs
    /\ pos = 0 /\ buf = <<>> /\ hand = <<>>
    /\ pc = [qmux |-> "type", tls |-> "header", http |-> "head"][input.proto]
    /\ decoded = <<>> /\ short = FALSE
    /\ outcome = None /\ tee = <<>> /\ served = <<>>
-----------------------------------------------------------------------------
(* Read into room for max bytes: the segments it may return; none when the *)
(* stream has ended.                                                       *)
Segments(max) ==
    {SubSeq(input.bytes, pos + 1, pos + n) :
        n \in {k \in 1..(Len(input.bytes) - pos) : k <= max}}

EndOfStream == pos = Len(input.bytes)
-----------------------------------------------------------------------------
(* Decoder.Decode: readPacket reads the type, the rest and the data with   *)
(* one Read each and ignores how much it returned; decode follows.         *)
Decoded(b, zeros) ==
    /\ decoded' = Append(decoded, Unmarshal(b, zeros))
    /\ pc' = "type" /\ buf' = <<>>

ReadType ==
    /\ pc = "type"
    /\ \E s \in Segments(1) :
          /\ pos' = pos + Len(s) /\ buf' = s
          /\ IF PayloadSize(s[1]) = 0
             THEN pc' = "end" /\ outcome' = Err("type")
             ELSE pc' = "rest" /\ UNCHANGED outcome
    /\ UNCHANGED <<input, hand, decoded, short, tee, served>>

ReadRest ==
    /\ pc = "rest"
    /\ LET size == PayloadSize(buf[1])
       IN  \E s \in Segments(size) :
              LET b == buf \o Padded(s, size)
              IN  /\ pos' = pos + Len(s)
                  /\ short' = (short \/ Len(s) < size)
                  /\ IF b[1] = DataType /\ Uint(b, 2 + IntSize) > 0
                     THEN pc' = "data" /\ buf' = b /\ UNCHANGED decoded
                     ELSE Decoded(b, 0)
    /\ UNCHANGED <<input, hand, outcome, tee, served>>

ReadData ==
    /\ pc = "data"
    /\ LET size == Uint(buf, 2 + IntSize)
       IN  \E s \in Segments(size) :
              /\ pos' = pos + Len(s)
              /\ short' = (short \/ Len(s) < size)
              /\ Decoded(buf \o s, size - Len(s))
    /\ UNCHANGED <<input, hand, outcome, tee, served>>
-----------------------------------------------------------------------------
(* The outcome of TLS or HTTP; after a host the owner reads the            *)
(* connection, after an error the muxer closes it.                         *)
Settle(o) ==
    /\ outcome' = o
    /\ pc' = IF o[1] = "host" THEN "replay" ELSE "end"

(* io.TeeReader.  Mutant: only the first segment is kept. *)
TeeFirst(s) == IF tee = <<>> THEN s ELSE tee
Tee(s) == tee \o s

(* block.reserve: room for n bytes, by doubling. *)
Room(n) == LET doubled[m \in Nat] == IF m >= n THEN m ELSE doubled[2 * m]
           IN  doubled[BlockSize]

(* How much readFromUntil asks for: a header, then its payload. *)
Need == IF pc = "header" THEN RecordHeader ELSE RecordLen(buf)

(* block.readFromUntil while it has too little. *)
FillBlock ==
    /\ pc \in {"header", "payload"} /\ Len(buf) < Need
    /\ \E s \in Segments(Room(Need) - Len(buf)) :
          /\ pos' = pos + Len(s) /\ buf' = buf \o s /\ tee' = Tee(s)
    /\ UNCHANGED <<input, pc, hand, decoded, short, outcome, served>>

CheckHeader ==
    /\ pc = "header" /\ Len(buf) >= Need
    /\ IF HeaderError(buf) = None THEN pc' = "payload" /\ UNCHANGED outcome
       ELSE Settle(HeaderError(buf))
    /\ UNCHANGED <<input, pos, buf, hand, decoded, short, tee, served>>

(* splitBlock.  Mutant: what follows the record is lost. *)
RemainderLost(n) == <<>>
Remainder(n) == From(buf, n + 1)

(* The end of readRecord, and readClientHello: another record is read      *)
(* while the handshake message is incomplete.                              *)
TakeRecord ==
    /\ pc = "payload" /\ Len(buf) >= Need
    /\ LET h == hand \o Payload(buf)
       IN  /\ hand' = h
           /\ IF HelloOutcome(h) = None THEN pc' = "header" /\ UNCHANGED outcome
              ELSE Settle(HelloOutcome(h))
    /\ buf' = Remainder(Need)
    /\ UNCHANGED <<input, pos, decoded, short, tee, served>>
-----------------------------------------------------------------------------
(* HTTP: http.ReadRequest through a bufio.Reader, then Body.Close, which   *)
(* reads the whole body; an error of Body.Close is ignored.                *)
RequestLen == IF Len(buf) < HttpHead \/ buf[3] # 0 THEN HttpHead ELSE HttpHead + buf[2]

FillRequest ==
    /\ pc = "head" /\ Len(buf) < RequestLen
    /\ \E s \in Segments(BufioSize) :
          /\ pos' = pos + Len(s) /\ buf' = buf \o s /\ tee' = Tee(s)
    /\ UNCHANGED <<input, pc, hand, decoded, short, outcome, served>>

TakeRequest ==
    /\ pc = "head" /\ Len(buf) >= HttpHead
    /\ Len(buf) >= RequestLen \/ EndOfStream
    /\ Settle(IF buf[3] = 0 THEN Host(<<buf[1]>>) ELSE Err("malformed"))
    /\ UNCHANGED <<input, pos, buf, hand, decoded, short, tee, served>>

(* Any Read at the end of the stream returns its error. *)
ReadFails ==
    /\ EndOfStream
    /\ \/ pc \in {"type", "rest", "data"}
       \/ pc \in {"header", "payload"} /\ Len(buf) < Need
       \/ pc = "head" /\ Len(buf) < HttpHead
    /\ Settle(Err("eof"))
    /\ UNCHANGED <<input, pos, buf, hand, decoded, short, tee, served>>
-----------------------------------------------------------------------------
(* sharedConn.Read by the owner: first vhostBuf, then the connection. *)
ReplayBuffer(max) ==
    /\ pc = "replay" /\ tee # <<>>
    /\ LET n == IF max < Len(tee) THEN max ELSE Len(tee)
       IN  served' = served \o SubSeq(tee, 1, n) /\ tee' = From(tee, n + 1)
    /\ UNCHANGED <<input, pos, pc, buf, hand, decoded, short, outcome>>

ReadThrough(max) ==
    /\ pc = "replay" /\ tee = <<>>
    /\ \/ \E s \in Segments(max) :
             pos' = pos + Len(s) /\ served' = served \o s /\ UNCHANGED pc
       \/ EndOfStream /\ pc' = "end" /\ UNCHANGED <<pos, served>>
    /\ UNCHANGED <<input, buf, hand, decoded, short, outcome, tee>>
-----------------------------------------------------------------------------
Decode == ReadType \/ ReadRest \/ ReadData
TLS == FillBlock \/ CheckHeader \/ TakeRecord
HTTP == FillRequest \/ TakeRequest

Next == \/ Decode \/ TLS \/ HTTP \/ ReadFails
        \/ \E max \in 1..MaxRead : ReplayBuffer(max) \/ ReadThrough(max)

Spec == Init /\ [][Next]_vars
-----------------------------------------------------------------------------
(* The values of the state; a block stays within the room that was made    *)
(* for it, and the Data of a message has the Length that it announces.     *)
TypeOK ==
    /\ input \in Inputs /\ pos \in 0..Len(input.bytes)
    /\ pc \in {"type", "rest", "data", "header", "payload", "head", "replay", "end"}
    /\ pc = "rest" => Len(buf) = 1
    /\ pc \in {"header", "payload"} => Len(buf) <= Room(RecordHeader + MaxCiphertext)
    /\ \A i \in DOMAIN decoded :
          Len(decoded[i].data) + decoded[i].zeros =
              IF decoded[i].type = DataType THEN decoded[i].fields.Length ELSE 0
    /\ short \in BOOLEAN

(* As long as every Read of readPacket is filled, Decode returns exactly   *)
(* the messages that were encoded, however packets and segments are cut    *)
(* otherwise, and all of them before the error; a short Read is not        *)
(* noticed and breaks this (decoder.go:50, 60).                            *)
DecodedExact ==
    input.proto = "qmux" /\ ~short =>
        IF pc = "end" THEN decoded = input.means /\ outcome = Err("eof")
        ELSE IsPrefix(decoded, input.means)

(* However the stream is cut into segments and the hello into records, TLS *)
(* and HTTP find the host that it names, or report what is wrong with it.  *)
OutcomeExact ==
    input.proto # "qmux" /\ outcome # None => outcome = input.means

(* http.go:15 and tls.go:83, "a new, unread connection": the owner of the  *)
(* connection reads exactly what the peer sent, all of it, although the    *)
(* muxer has read ahead by an amount that depends on the segments.         *)
ReplayExact ==
    /\ IsPrefix(served, input.bytes)
    /\ pc = "end" /\ outcome # None /\ outcome[1] = "host" => served = input.bytes
=============================================================================

--------------------------------- MODULE Join ---------------------------------
(***************************************************************************)
(* JoinEncrypted (utilities/assetsFunctions.go): the four goroutines that  *)
(* copy between a channel to the client, "ch", and a visitor's connection, *)
(* "conn".  In each direction a reader takes bytes from its source,        *)
(* transforms them and hands them to a writer over an unbuffered Go        *)
(* channel: down is from ch to conn (Seal), up is from conn to ch (Open).  *)
(* The writer of up is the calling goroutine.                              *)
(*                                                                         *)
(* Both readers read into one buffer.  A Read stores its bytes one by one, *)
(* in any order.  Seal takes each byte once: one moment, with that order,  *)
(* covers what a racing copy can leave behind.  Open looks twice, to check *)
(* the tag and to decrypt, and a Read may store in between.                *)
(*                                                                         *)
(* A byte is <<direction, position>>.  A sealed packet of the visitor is   *)
(* two bytes: nonce and tag, then the ciphertext of one byte.  A visitor   *)
(* that is plain sends unsealed bytes, which is what every HTTP request    *)
(* that the muxer has routed here begins with.                             *)
(***************************************************************************)
EXTENDS Naturals, Sequences, FiniteSets

CONSTANTS
    Cells,    \* the length of the buffer, 4096 in the code
    MaxDown,  \* bound: bytes that the client sends
    MaxUp     \* bound: bytes that the visitor sends

ASSUME JoinAssumption == Cells \in Nat \ {0, 1} /\ MaxDown \in Nat /\ MaxUp \in Nat

VARIABLES
    plain,   \* whether the visitor sends unsealed bytes
    got,     \* how many bytes of each direction Read has returned
    fin,     \* the ends whose peer sends no more but still receives
    gone,    \* the ends whose peer has gone: writes fail
    shut,    \* the ends that JoinEncrypted has closed
    buffer,  \* the shared buffer
    rpc,     \* where each reader is: read, copy, work, open, send, done, failed
    part,    \* the bytes that its Read returns; in failed, those it drops
    left,    \* the cells it has still to fill
    wpc,     \* where each writer is: recv, write, closeCh, closeConn, done, failed
    data,    \* what a reader in send offers, or a writer in write holds
    out,     \* what each direction has written to its sink
    raced,   \* history: a Read stored into a buffer that the other used
    torn     \* history: one did while the other was between its two looks

reader == <<buffer, rpc, part, left>>
ends == <<fin, gone, shut>>
races == <<raced, torn>>
vars == <<plain, ends, got, reader, wpc, data, out, races>>

Dirs == {"down", "up"}
Other(d) == IF d = "down" THEN "up" ELSE "down"
Src(d) == IF d = "down" THEN "ch" ELSE "conn"
Sink(d) == Src(Other(d))
Most(d) == IF d = "down" THEN MaxDown ELSE MaxUp
Stream(d, n) == [i \in 1..n |-> <<d, i>>]

Init ==
    /\ plain \in BOOLEAN
    /\ got = [d \in Dirs |-> 0]
    /\ fin = {} /\ gone = {} /\ shut = {}
    /\ buffer = [i \in 1..Cells |-> <<"zero", i>>]
    /\ rpc = [d \in Dirs |-> "read"]
    /\ part = [d \in Dirs |-> <<>>] /\ left = [d \in Dirs |-> {}]
    /\ wpc = [d \in Dirs |-> "recv"]
    /\ data = [d \in Dirs |-> [r |-> <<>>, w |-> <<>>]]
    /\ out = [d \in Dirs |-> <<>>]
    /\ raced = FALSE /\ torn = FALSE

ReaderAt(d, pc) == rpc' = [rpc EXCEPT ![d] = pc]
WriterAt(d, pc) == wpc' = [wpc EXCEPT ![d] = pc]
-----------------------------------------------------------------------------
(* The peers: one stops sending, one goes.  A byte arrives when Read       *)
(* returns it, so what was sent before may arrive after, and need not.     *)
(* The client answers the Close of the channel (Session!CloseCompletes).   *)
Finish(d) ==
    /\ Src(d) \notin fin \cup gone
    /\ fin' = fin \cup {Src(d)}
    /\ UNCHANGED <<plain, gone, shut, got, reader, wpc, data, out, races>>

Leave(e) ==
    /\ e \notin gone
    /\ gone' = gone \cup {e}
    /\ UNCHANGED <<plain, fin, shut, got, reader, wpc, data, out, races>>

AnswerClose == "ch" \in shut /\ Leave("ch")
-----------------------------------------------------------------------------
(* Mutant: the length of the buffer is not respected. *)
ReadSizesUncapped(d) == 1..(Most(d) - got[d])
ReadSizes(d) == {n \in 1..Cells : n <= Most(d) - got[d]}

(* ch.Read and conn.Read take some bytes, or return the end of the source. *)
(* A channel that was closed here still delivers what it has.              *)
ReadBytes(d) ==
    /\ rpc[d] = "read"
    /\ d = "up" => "conn" \notin shut
    /\ \E n \in ReadSizes(d) :
          /\ part' = [part EXCEPT ![d] = [i \in 1..n |-> <<d, got[d] + i>>]]
          /\ left' = [left EXCEPT ![d] = 1..n]
          /\ got' = [got EXCEPT ![d] = @ + n]
    /\ ReaderAt(d, "copy")
    /\ UNCHANGED <<plain, ends, buffer, wpc, data, out, races>>

ReadEnd(d) ==
    /\ rpc[d] = "read"
    /\ \/ Src(d) \in fin \cup gone
       \/ d = "up" /\ "conn" \in shut
    /\ ReaderAt(d, "done")
    /\ UNCHANGED <<plain, ends, got, buffer, part, left, wpc, data, out, races>>

Copy(d, i) ==
    /\ rpc[d] = "copy" /\ i \in left[d]
    /\ buffer' = [buffer EXCEPT ![i] = part[d][i]]
    /\ left' = [left EXCEPT ![d] = @ \ {i}]
    /\ IF left[d] = {i} THEN ReaderAt(d, "work") ELSE UNCHANGED rpc
    /\ raced' = (raced \/ rpc[Other(d)] \in {"copy", "work", "open"})
    /\ torn' = (torn \/ rpc[Other(d)] = "open")
    /\ UNCHANGED <<plain, ends, got, part, wpc, data, out>>

(* Channel.Read has stored its bytes when it announces their credit.  With *)
(* the transport gone this may fail, and Read returns the bytes with that  *)
(* error, on which the reader drops them.  (The io.EOF of a channel that   *)
(* has sent its Close is not returned.)                                    *)
ReadDropped ==
    /\ rpc["down"] = "work" /\ "ch" \in gone
    /\ ReaderAt("down", "failed")
    /\ UNCHANGED <<plain, ends, got, buffer, part, left, wpc, data, out, races>>

(* Mutant: all of the buffer is sealed, not only the bytes of this Read. *)
SealAll(n) == buffer
Seal(n) == SubSeq(buffer, 1, n)

(* Mutant: a cipher without a tag. *)
UntaggedOpens(n) == n = 2

(* What aesGCM.Open accepts: an intact packet, and no Read that is shorter *)
(* than a nonce.                                                           *)
Authentic(n) ==
    /\ ~plain /\ n = 2
    /\ \E p \in 1..(MaxUp \div 2) : buffer[1] = <<"up", 2*p - 1>> /\ buffer[2] = <<"up", 2*p>>

(* A reader in work fails, and drops the bytes of its Read.  Down, the     *)
(* nonce may fail to be drawn; up, the packet may not open.                *)
Work(d) ==
    /\ rpc[d] = "work"
    /\ \/ d = "down" /\ data' = [data EXCEPT ![d].r = Seal(Len(part[d]))]
          /\ part' = [part EXCEPT ![d] = <<>>] /\ ReaderAt(d, "send")
       \/ d = "down" /\ ReaderAt(d, "failed") /\ UNCHANGED <<part, data>>
       \/ d = "up" /\ ReaderAt(d, IF Authentic(Len(part[d])) THEN "open" ELSE "failed")
          /\ UNCHANGED <<part, data>>
    /\ UNCHANGED <<plain, ends, got, buffer, left, wpc, out, races>>

(* Open decrypts what the buffer holds now, whatever the tag was of.       *)
Decrypt ==
    /\ rpc["up"] = "open"
    /\ data' = [data EXCEPT !["up"].r = <<buffer[2]>>]
    /\ part' = [part EXCEPT !["up"] = <<>>]
    /\ ReaderAt("up", "send")
    /\ UNCHANGED <<plain, ends, got, buffer, left, wpc, out, races>>

(* The unbuffered Go channel of a direction. *)
HandOver(d) ==
    /\ rpc[d] = "send" /\ wpc[d] = "recv"
    /\ data' = [data EXCEPT ![d] = [r |-> <<>>, w |-> @.r]]
    /\ ReaderAt(d, "read") /\ WriterAt(d, "write")
    /\ UNCHANGED <<plain, ends, got, buffer, part, left, out, races>>
-----------------------------------------------------------------------------
(* Mutant: a writer that stops after one message. *)
AfterWriteOnce(d) == "done"
AfterWrite(d) == "recv"

(* conn.Write and ch.Write. *)
Write(d) ==
    /\ wpc[d] = "write"
    /\ \/ /\ Sink(d) \notin shut /\ (d = "up" => "ch" \notin gone)
          /\ out' = [out EXCEPT ![d] = @ \o data[d].w]
          /\ WriterAt(d, AfterWrite(d))
       \/ /\ Sink(d) \in shut \cup gone
          /\ WriterAt(d, "failed")
          /\ UNCHANGED out
    /\ data' = [data EXCEPT ![d].w = <<>>]
    /\ UNCHANGED <<plain, ends, got, reader, races>>

(* Mutant: the reader returns without close(toConn), close(fromConn). *)
ClosedNever(d) == FALSE
Closed(d) == rpc[d] \in {"done", "failed"}

(* The range loop ends; after that of up both ends are closed. *)
RangeEnds(d) ==
    /\ wpc[d] = "recv" /\ Closed(d)
    /\ WriterAt(d, IF d = "down" THEN "done" ELSE "closeCh")
    /\ UNCHANGED <<plain, ends, got, reader, data, out, races>>

(* Mutant: the channel is not closed. *)
WithClosedConn(e) == shut \cup ({e} \ {"ch"})
WithClosed(e) == shut \cup {e}

CloseEnds ==
    /\ \/ wpc["up"] = "closeCh" /\ shut' = WithClosed("ch") /\ WriterAt("up", "closeConn")
       \/ wpc["up"] = "closeConn" /\ shut' = WithClosed("conn") /\ WriterAt("up", "done")
    /\ UNCHANGED <<plain, fin, gone, got, reader, data, out, races>>
-----------------------------------------------------------------------------
Reader(d) == \/ ReadEnd(d) \/ Work(d) \/ HandOver(d)
             \/ d = "down" /\ ReadDropped
             \/ d = "up" /\ Decrypt
             \/ \E i \in 1..Cells : Copy(d, i)
Writer(d) == Write(d) \/ RangeEnds(d)

Next ==
    \/ \E d \in Dirs : Finish(d) \/ ReadBytes(d) \/ Reader(d) \/ Writer(d)
    \/ \E e \in {"ch", "conn"} : Leave(e)
    \/ CloseEnds

(* The goroutines are scheduled; the two peers keep reading, so a Write    *)
(* returns, and the client answers a Close.  No peer has to send or go.    *)
Fairness ==
    /\ \A d \in Dirs : WF_vars(Reader(d)) /\ WF_vars(Writer(d))
    /\ WF_vars(CloseEnds) /\ WF_vars(AnswerClose)

Spec == Init /\ [][Next]_vars /\ Fairness
-----------------------------------------------------------------------------
(* The values of the state; no Read returns more than the buffer holds. *)
TypeOK ==
    /\ plain \in BOOLEAN /\ raced \in BOOLEAN /\ torn \in BOOLEAN
    /\ \A d \in Dirs : got[d] <= Most(d) /\ Len(part[d]) <= Cells
    /\ fin \cup gone \cup shut \subseteq {"ch", "conn"}
    /\ DOMAIN buffer = 1..Cells
    /\ rpc \in [Dirs -> {"read", "copy", "work", "open", "send", "done", "failed"}]
    /\ left \in [Dirs -> SUBSET (1..Cells)]
    /\ wpc \in [Dirs -> {"recv", "write", "closeCh", "closeConn", "done", "failed"}]

(* The client gets only what the visitor sealed, in order and without a    *)
(* gap, also when the readers meet in their buffer: a packet that the      *)
(* other direction has overwritten does not open (lines 24, 47, 61).  The  *)
(* one overlap that can break this is a store between the two looks that   *)
(* Open takes at the packet.                                               *)
UplinkAuthentic ==
    torn \/ \A i \in 1..Len(out["up"]) : out["up"][i] = <<"up", 2*i>>

(* What the visitor can open is what the client sent, in order and without *)
(* a gap, unless the readers have used the buffer at the same time; with   *)
(* an overlap, bytes of the visitor can come back sealed (line 37).        *)
DownlinkExact ==
    raced \/ out["down"] = Stream("down", Len(out["down"]))

Returned == wpc["up"] \in {"done", "failed"}

(* When the visitor stops sending, JoinEncrypted returns, so its slot in   *)
(* handleConnections comes free, as long as the client keeps reading.      *)
JoinReturns == "conn" \in fin \cup gone ~> Returned

(* After the return, once the visitor's connection is closed or its peer   *)
(* gone, every goroutine ends, apart from a reader that offers data to a   *)
(* writer that has stopped (lines 40, 68).                                 *)
GoroutinesEnd ==
    (Returned /\ "conn" \in shut \cup gone)
        ~> /\ wpc["down"] \in {"done", "failed"}
           /\ \A d \in Dirs : \/ Closed(d)
                              \/ rpc[d] = "send" /\ wpc[d] = "failed"

(* While the visitor stays, every byte that was read from the channel is   *)
(* written to the visitor's connection, also when the client has gone or   *)
(* JoinEncrypted has returned without closing the connection.  Lost are    *)
(* only the bytes of the last Read, when its credit cannot be announced    *)
(* (line 25, channel.go:117-127) or its nonce not be drawn (line 31).      *)
DownlinkDelivered ==
    \A k \in 1..MaxDown :
        got["down"] >= k ~> \/ Len(out["down"]) >= k
                            \/ "conn" \in shut \cup gone
                            \/ /\ rpc["down"] = "failed"
                               /\ k > got["down"] - Len(part["down"])
=============================================================================

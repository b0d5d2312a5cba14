----------------------------- MODULE ChannelFlow -----------------------------
(***************************************************************************)
(* One direction of one open qmux channel (localPackages/session): the     *)
(* goroutine that calls Channel.Write at one end, the goroutine that calls *)
(* Channel.Read at the other, the two session loops, and the transport     *)
(* between them.  It covers flow control (remoteWin, myWindow,             *)
(* WindowAdjust), the pending buffer, EOF, the Close handshake, and what a *)
(* dying session does to the channel.                                      *)
(*                                                                         *)
(* The bytes of the stream are named by their positions.  A data packet is *)
(* the run of positions off+1 .. off+len.  Every message carries off, the  *)
(* number of bytes its sender had announced before it (data bytes on the   *)
(* data wire, window credit on the ctl wire): for a data packet that is    *)
(* its content, for the others it is history that the code does not send.  *)
(*                                                                         *)
(* Each critical section of the code is one action, so the goroutines      *)
(* interleave between locks.  Condition variables are explicit: a          *)
(* goroutine in Wait moves only after another one wakes it.                *)
(***************************************************************************)
EXTENDS Naturals, Sequences

CONSTANTS
    Window,      \* channelWindowSize, the initial credit of the writer
    MaxPacket,   \* channelMaxPacket, the receiver's maxIncomingPayload
    Mod,         \* 2^32 in the code: window sizes are uint32
    MaxBytes,    \* bound: bytes handed to Write in one behaviour
    MaxRead,     \* bound: length of the slice passed to Read
    Faults       \* whether the transport may fail or a session be closed

ASSUME FlowAssumption ==
    /\ Window \in Nat \ {0}
    /\ MaxPacket \in Nat \ {0}
    /\ Mod \in Nat
    /\ Window < Mod
    /\ MaxBytes \in Nat
    /\ MaxRead \in Nat \ {0}
    /\ Faults \in BOOLEAN

VARIABLES
    win,        \* remoteWin.win: credit the writer still has
    winClosed,  \* remoteWin.closed
    wpc,        \* where the goroutine in Write is
    todo,       \* len(data) still to be sent by the current Write
    hold,       \* space reserved for the packet about to be encoded
    sentEOF,    \* Channel.sentEOF at the writing end
    myWindow,   \* Channel.myWindow at the reading end
    pending,    \* the bytes in Channel.pending, oldest first
    bufClosed,  \* pending.closed
    rpc,        \* where the goroutine in Read is
    taken,      \* n, the bytes the current Read copied out of pending
    sentClose,  \* Channel.sentClose at each end
    known,      \* whether each end's chanList still has the channel
    loop,       \* where each end's session loop is
    up,         \* whether each end's transport is still open
    err,        \* why each end's loop stopped
    data,       \* messages from the writing end to the reading end
    ctl,        \* messages from the reading end to the writing end
    sent,       \* history: bytes encoded by the writing end
    credited,   \* history: bytes announced in encoded WindowAdjusts
    ended,      \* history: the writing end has encoded EOF or Close
    mark,       \* history: value of sent when ended became TRUE
    got         \* history: the bytes Read has returned, in order

wvars == <<win, winClosed, wpc, todo, hold, sentEOF>>
rvars == <<myWindow, pending, bufClosed, rpc, taken>>
cvars == <<sentClose, known, loop, up, err>>
nvars == <<data, ctl, sent, credited, ended, mark>>
vars  == <<wvars, rvars, cvars, nvars, got>>

Ends == {"w", "r"}                        \* the writing and the reading end
Peer(e) == IF e = "w" THEN "r" ELSE "w"

Message(t, o, n) == [type |-> t, off |-> o, len |-> n]

(* min of util.go *)
min(a, b) == IF a < b THEN a ELSE b

(* The uint32 sum of two uint32 values. *)
Add32(a, b) == IF a + b >= Mod THEN a + b - Mod ELSE a + b

(* The bytes of the stream after position p. *)
Run(p, k) == [i \in 1..k |-> p + i]

Init ==
    /\ win = Window /\ winClosed = FALSE
    /\ wpc = "idle" /\ todo = 0 /\ hold = 0 /\ sentEOF = FALSE
    /\ myWindow = Window /\ pending = <<>> /\ bufClosed = FALSE
    /\ rpc = "idle" /\ taken = 0
    /\ sentClose = [e \in Ends |-> FALSE]
    /\ known = [e \in Ends |-> TRUE]
    /\ loop = [e \in Ends |-> "run"]
    /\ up = [e \in Ends |-> TRUE]
    /\ err = [e \in Ends |-> "none"]
    /\ data = <<>> /\ ctl = <<>>
    /\ sent = 0 /\ credited = 0 /\ ended = FALSE /\ mark = 0
    /\ got = <<>>
-----------------------------------------------------------------------------
(* The transport.  A write to it fails once this end has closed it, and    *)
(* may fail or vanish once the peer has.                                   *)
CanEncode(e) == up[e]
CanFailEncode(e) == ~up[e] \/ ~up[Peer(e)]

(* Append a message of the writing end; EOF and Close announce the end.    *)
EncodeData(t, n) ==
    /\ data' = Append(data, Message(t, sent, n))
    /\ sent' = sent + n
    /\ ended' = (ended \/ t # "Data")
    /\ mark' = IF t # "Data" /\ ~ended THEN sent ELSE mark
    /\ UNCHANGED <<ctl, credited>>

EncodeCtl(t, n) ==
    /\ ctl' = Append(ctl, Message(t, credited, n))
    /\ credited' = credited + n
    /\ UNCHANGED <<data, sent, ended, mark>>

Encode(e, t, n) == IF e = "w" THEN EncodeData(t, n) ELSE EncodeCtl(t, n)

(* Channel.send: refused once sentClose is set; a Close sets it first.     *)
Send(e, t, n) ==
    \/ /\ sentClose[e]
       /\ UNCHANGED <<sentClose, nvars>>
    \/ /\ ~sentClose[e]
       /\ sentClose' = [sentClose EXCEPT ![e] = (t = "Close")]
       /\ \/ CanEncode(e) /\ Encode(e, t, n)
          \/ CanFailEncode(e) /\ UNCHANGED nvars
-----------------------------------------------------------------------------
(* sync.Cond: window.add and window.close broadcast, buffer.write and      *)
(* buffer.eof signal; the woken goroutine re-checks its condition.         *)
WakeWriterLost == UNCHANGED wpc            \* mutant: the Broadcast is dropped
WakeWriter == wpc' = IF wpc = "wait" THEN "reserve" ELSE wpc
WakeReaderLost == UNCHANGED rpc            \* mutant: the Signal is dropped
WakeReader == rpc' = IF rpc = "wait" THEN "read" ELSE rpc

(* Channel.close: end of pending, sentClose, and the window is closed.  Of *)
(* the channel object at each end, this direction uses one half.  The code *)
(* takes a lock for each part; an action that falls between two of them    *)
(* has the effect it would have had just before the first.                 *)
CloseChannel(e) ==
    /\ sentClose' = [sentClose EXCEPT ![e] = TRUE]
    /\ IF e = "w"
       THEN /\ winClosed' = TRUE
            /\ WakeWriter
            /\ UNCHANGED <<win, todo, hold, sentEOF, rvars>>
       ELSE /\ bufClosed' = TRUE
            /\ WakeReader
            /\ UNCHANGED <<myWindow, pending, taken, wvars>>
-----------------------------------------------------------------------------
(* Channel.Write, called with n bytes. *)
WriteCall(n) ==
    /\ wpc = "idle"
    /\ ~sentEOF
    /\ sent + n <= MaxBytes
    /\ todo' = n
    /\ wpc' = "reserve"
    /\ UNCHANGED <<win, winClosed, hold, sentEOF, rvars, cvars, nvars, got>>

(* What reserve takes of the credit; the mutant takes more than there is. *)
SpaceUnchecked == min(MaxPacket, todo)
Space == min(min(MaxPacket, todo), win)

(* window.reserve: wait while there is no credit, else take what there is. *)
Reserve ==
    /\ wpc = "reserve"
    /\ \/ /\ win = 0 /\ ~winClosed
          /\ wpc' = "wait"
          /\ UNCHANGED <<win, hold, todo>>
       \/ /\ win > 0 \/ winClosed
          /\ win' = win - Space
          /\ IF winClosed
             THEN wpc' = "idle" /\ hold' = 0 /\ todo' = 0
             ELSE wpc' = "encode" /\ hold' = Space /\ todo' = todo
    /\ UNCHANGED <<winClosed, sentEOF, rvars, cvars, nvars, got>>

(* Write encodes the packet itself: Channel.send is not on this path, so   *)
(* sentClose is not consulted.                                             *)
WritePacket ==
    /\ wpc = "encode"
    /\ hold' = 0
    /\ \/ /\ CanEncode("w")
          /\ EncodeData("Data", hold)
          /\ todo' = todo - hold
          /\ wpc' = IF todo > hold THEN "reserve" ELSE "idle"
       \/ /\ CanFailEncode("w")
          /\ todo' = 0 /\ wpc' = "idle"
          /\ UNCHANGED nvars
    /\ UNCHANGED <<win, winClosed, sentEOF, rvars, cvars, got>>

(* Channel.CloseWrite, by the goroutine that writes. *)
CloseWrite ==
    /\ wpc = "idle"
    /\ ~sentEOF
    /\ sentEOF' = TRUE
    /\ Send("w", "EOF", 0)
    /\ UNCHANGED <<win, winClosed, wpc, todo, hold, rvars, known, loop, up, err, got>>

(* Channel.Close, by any goroutine of either end. *)
Close(e) ==
    /\ ~sentClose[e]
    /\ Send(e, "Close", 0)
    /\ UNCHANGED <<wvars, rvars, known, loop, up, err, got>>
-----------------------------------------------------------------------------
(* Channel.Read: the program asks for bytes. *)
ReadCall ==
    /\ rpc = "idle"
    /\ rpc' = "read"
    /\ UNCHANGED <<wvars, myWindow, pending, bufClosed, taken, cvars, nvars, got>>

(* Mutant: buffer.Read looks at closed before it has drained the data. *)
ReadBufferEarlyEOF ==
    /\ rpc = "read"
    /\ rpc' = IF bufClosed THEN "eof" ELSE "wait"
    /\ UNCHANGED <<wvars, myWindow, pending, bufClosed, taken, cvars, nvars, got>>

(* buffer.Read: copy what is there; else EOF if closed; else wait. *)
ReadBuffer ==
    /\ rpc = "read"
    /\ \/ \E k \in 1..min(MaxRead, Len(pending)) :
             /\ got' = got \o SubSeq(pending, 1, k)
             /\ pending' = SubSeq(pending, k + 1, Len(pending))
             /\ taken' = k
             /\ rpc' = "adjust"
       \/ /\ pending = <<>>
          /\ rpc' = IF bufClosed THEN "eof" ELSE "wait"
          /\ UNCHANGED <<got, pending, taken>>
    /\ UNCHANGED <<wvars, myWindow, bufClosed, cvars, nvars>>

(* Mutant: myWindow is not restored. *)
AdjustWindowLost ==
    /\ rpc = "adjust"
    /\ rpc' = "send"
    /\ UNCHANGED <<wvars, myWindow, pending, bufClosed, taken, cvars, nvars, got>>

(* adjustWindow, first half: the credit is restored under windowMu. *)
AdjustWindow ==
    /\ rpc = "adjust"
    /\ myWindow' = Add32(myWindow, taken)
    /\ rpc' = "send"
    /\ UNCHANGED <<wvars, pending, bufClosed, taken, cvars, nvars, got>>

(* Mutant: the credit is announced without going through Channel.send. *)
SendAdjustUnchecked ==
    /\ rpc = "send"
    /\ IF CanEncode("r") THEN EncodeCtl("WindowAdjust", taken) ELSE UNCHANGED nvars
    /\ taken' = 0
    /\ rpc' = "idle"
    /\ UNCHANGED <<wvars, myWindow, pending, bufClosed, cvars, got>>

(* adjustWindow, second half: the credit is announced; Read swallows EOF. *)
SendAdjust ==
    /\ rpc = "send"
    /\ Send("r", "WindowAdjust", taken)
    /\ taken' = 0
    /\ rpc' = "idle"
    /\ UNCHANGED <<wvars, myWindow, pending, bufClosed, known, loop, up, err, got>>
-----------------------------------------------------------------------------
(* Session.loop leaves its for loop: dropAll forgets the channel, and      *)
(* closes it if it was still listed.                                       *)
LoopExit(e, why) ==
    /\ loop' = [loop EXCEPT ![e] = "dropped"]
    /\ err' = [err EXCEPT ![e] = why]
    /\ known' = [known EXCEPT ![e] = FALSE]
    /\ IF known[e] THEN CloseChannel(e) ELSE UNCHANGED <<wvars, rvars, sentClose>>
    /\ UNCHANGED up

(* The first check of handleData; the mutant is off by one. *)
OversizeOffByOne(m) == m.len >= MaxPacket
Oversize(m) == m.len > MaxPacket

(* Channel.handleData, with the two checks that end the session. *)
HandleData(m) ==
    \/ /\ Oversize(m)
       /\ LoopExit("r", "payload")
    \/ /\ ~Oversize(m) /\ myWindow < m.len
       /\ LoopExit("r", "tooMuch")
    \/ /\ ~Oversize(m) /\ myWindow >= m.len
       /\ myWindow' = myWindow - m.len
       /\ pending' = pending \o Run(m.off, m.len)
       /\ WakeReader
       /\ UNCHANGED <<wvars, bufClosed, taken, cvars>>

HandleEOF ==
    /\ bufClosed' = TRUE
    /\ WakeReader
    /\ UNCHANGED <<wvars, myWindow, pending, taken, cvars>>

(* window.add, and the session error when the sum wraps.  An adjustment is *)
(* never zero: adjustWindow is called only with n > 0.                     *)
HandleAdjust(m) ==
    \/ /\ Add32(win, m.len) < m.len
       /\ LoopExit("w", "window")
    \/ /\ Add32(win, m.len) >= m.len
       /\ win' = Add32(win, m.len)
       /\ WakeWriter
       /\ UNCHANGED <<winClosed, todo, hold, sentEOF, rvars, cvars>>

(* Channel.handle on a CloseMessage starts by answering it. *)
HandleClose(e) ==
    /\ loop' = [loop EXCEPT ![e] = "reply"]
    /\ UNCHANGED <<wvars, rvars, sentClose, known, up, err>>

(* Session.onePacket at the reading end. *)
ReceiveData ==
    /\ loop["r"] = "run" /\ up["r"]
    /\ data # <<>>
    /\ data' = Tail(data)
    /\ \/ ~known["r"] /\ LoopExit("r", "invalidChannel")
       \/ known["r"] /\ Head(data).type = "Data" /\ HandleData(Head(data))
       \/ known["r"] /\ Head(data).type = "EOF" /\ HandleEOF
       \/ known["r"] /\ Head(data).type = "Close" /\ HandleClose("r")
    /\ UNCHANGED <<ctl, sent, credited, ended, mark, got>>

(* Session.onePacket at the writing end. *)
ReceiveCtl ==
    /\ loop["w"] = "run" /\ up["w"]
    /\ ctl # <<>>
    /\ ctl' = Tail(ctl)
    /\ \/ ~known["w"] /\ LoopExit("w", "invalidChannel")
       \/ known["w"] /\ Head(ctl).type = "WindowAdjust" /\ HandleAdjust(Head(ctl))
       \/ known["w"] /\ Head(ctl).type = "Close" /\ HandleClose("w")
    /\ UNCHANGED <<data, sent, credited, ended, mark, got>>

(* The answer to a CloseMessage; an error of send is ignored. *)
ReplyClose(e) ==
    /\ loop[e] = "reply"
    /\ Send(e, "Close", 0)
    /\ loop' = [loop EXCEPT ![e] = "closing"]
    /\ UNCHANGED <<wvars, rvars, known, up, err, got>>

(* The rest of that case: chans.remove, then Channel.close. *)
FinishClose(e) ==
    /\ loop[e] = "closing"
    /\ known' = [known EXCEPT ![e] = FALSE]
    /\ CloseChannel(e)
    /\ loop' = [loop EXCEPT ![e] = "run"]
    /\ UNCHANGED <<up, err, nvars, got>>

(* Decode returns an error because one end has closed the transport. *)
ReadError(e) ==
    /\ loop[e] = "run"
    /\ ~up[e] \/ ~up[Peer(e)]
    /\ LoopExit(e, "net")
    /\ UNCHANGED <<nvars, got>>

(* Decode returns an error by itself: a reset, or the 60 minute deadline   *)
(* that server.go sets.                                                    *)
NetFault(e) ==
    /\ Faults
    /\ loop[e] = "run"
    /\ LoopExit(e, "net")
    /\ UNCHANGED <<nvars, got>>

(* The last statements of Session.loop. *)
CloseTransport(e) ==
    /\ loop[e] = "dropped"
    /\ loop' = [loop EXCEPT ![e] = "dead"]
    /\ up' = [up EXCEPT ![e] = FALSE]
    /\ UNCHANGED <<wvars, rvars, sentClose, known, err, nvars, got>>

(* Session.Close, by the program at either end. *)
SessionClose(e) ==
    /\ Faults
    /\ up[e]
    /\ up' = [up EXCEPT ![e] = FALSE]
    /\ UNCHANGED <<wvars, rvars, sentClose, known, loop, err, nvars, got>>
-----------------------------------------------------------------------------
Writer == \/ \E n \in 1..MaxBytes : WriteCall(n)
          \/ Reserve \/ WritePacket \/ CloseWrite

Reader == ReadCall \/ ReadBuffer \/ AdjustWindow \/ SendAdjust

Loop(e) == ReplyClose(e) \/ FinishClose(e) \/ ReadError(e) \/ CloseTransport(e)

Next ==
    \/ Writer
    \/ Reader
    \/ ReceiveData
    \/ ReceiveCtl
    \/ \E e \in Ends : Loop(e) \/ Close(e) \/ NetFault(e) \/ SessionClose(e)

(* Goroutines are scheduled, so each enabled step of a Write, of a Read    *)
(* and of the two loops is eventually taken; the reading program keeps     *)
(* calling Read, as JoinEncrypted does.  Nothing makes a program call      *)
(* Write, CloseWrite or Close, and no fault has to happen.                 *)
Fairness ==
    /\ WF_vars(Reserve \/ WritePacket)
    /\ WF_vars(Reader)
    /\ WF_vars(ReceiveData \/ Loop("r"))
    /\ WF_vars(ReceiveCtl \/ Loop("w"))

Spec == Init /\ [][Next]_vars
FairSpec == Spec /\ Fairness
-----------------------------------------------------------------------------
Messages(T) == [type : T, off : Nat, len : Nat]

(* The values of the state; in particular windows stay within uint32.      *)
TypeOK ==
    /\ win \in 0..(Mod - 1) /\ winClosed \in BOOLEAN
    /\ wpc \in {"idle", "reserve", "wait", "encode"}
    /\ todo \in Nat /\ hold \in Nat /\ sentEOF \in BOOLEAN
    /\ myWindow \in 0..(Mod - 1) /\ pending \in Seq(Nat) /\ bufClosed \in BOOLEAN
    /\ rpc \in {"idle", "read", "wait", "adjust", "send", "eof"}
    /\ taken \in Nat
    /\ sentClose \in [Ends -> BOOLEAN]
    /\ known \in [Ends -> BOOLEAN]
    /\ loop \in [Ends -> {"run", "reply", "closing", "dropped", "dead"}]
    /\ up \in [Ends -> BOOLEAN]
    /\ err \in [Ends -> {"none", "net", "payload", "tooMuch", "window", "invalidChannel"}]
    /\ data \in Seq(Messages({"Data", "EOF", "Close"}))
    /\ ctl \in Seq(Messages({"WindowAdjust", "Close"}))
    /\ sent \in Nat /\ credited \in Nat /\ ended \in BOOLEAN /\ mark \in Nat
    /\ got \in Seq(Nat)

(* Between two ends that run this code, flow control never kills the       *)
(* session: handleData never sees a packet larger than maxIncomingPayload  *)
(* or than myWindow (channel.go:231, 241), and window.add never wraps      *)
(* (util_window.go:25).                                                    *)
NoOverrun == /\ err["r"] \notin {"payload", "tooMuch"}
             /\ err["w"] # "window"

(* Credit the writing end has already been given back. *)
Granted == IF ctl = <<>> THEN credited ELSE Head(ctl).off

(* No byte of credit is minted, and none is lost while the channel is      *)
(* open: what the writer may still send, has reserved or has on the wire,  *)
(* what the reader has not consumed, has consumed but not yet announced,   *)
(* and what is on its way back always add up to channelWindowSize.  The    *)
(* receiver's own account adds up in every state, which is the claim of    *)
(* channel.go:149 that myWindow "can never exceed the initial window       *)
(* setting".                                                               *)
CreditConserved ==
    /\ myWindow + Len(pending) + (IF rpc = "adjust" THEN taken ELSE 0) = Window
    /\ win + hold + sent <= Window + Granted
    /\ (~winClosed /\ ~sentClose["r"] /\ up["w"] /\ up["r"]) =>
          win + hold + (sent - Len(got)) + taken + (credited - Granted) = Window

(* The Close handshake leaves no stray control message behind: the writing *)
(* end's loop never meets a message for a channel it has removed, and the  *)
(* reading end's loop only meets data that the writing end encoded after   *)
(* its own Close or EOF (session.go:173-176).                              *)
StrayOnlyLateData ==
    /\ err["w"] # "invalidChannel"
    /\ err["r"] = "invalidChannel" => sent > mark

(* The channel implements the byte stream it promises. *)
Stream == INSTANCE ByteStream WITH
    written <- sent, broken <- (err["r"] = "net"), atEOF <- (rpc = "eof")
ImplementsStream == Stream!Spec

(* A Write blocked for credit is always released: by more credit, or by    *)
(* the channel being closed (channel.go:167, "Unblock writers").           *)
WriterProgress == (wpc = "wait") ~> (wpc # "wait")

(* A reader that keeps reading catches up with the writer: it is handed    *)
(* all bytes encoded before the end of the stream, unless its session dies *)
(* of its transport.  (A program writes at most MaxBytes.)                 *)
Readable == IF ended THEN mark ELSE sent
StreamDelivered == (Len(got) < Readable) ~> (Len(got) = Readable \/ err["r"] = "net")

(* channel.go:77: "Close signals end of channel use. No data may be sent   *)
(* after this call."  No step of the writing end puts data on the wire     *)
(* once its Close has been sent.                                           *)
NoDataAfterClose == [][sent' > sent => ~sentClose["w"]]_vars
=============================================================================

------------------------------- MODULE Session -------------------------------
(***************************************************************************)
(* Two qmux sessions over one transport (localPackages/session): opening,  *)
(* accepting and closing channels, the channel lists with their reused     *)
(* ids, the two session loops, and how a session ends.  ChannelFlow is the *)
(* data plane of one channel; here a Data message is only an address.      *)
(*                                                                         *)
(* A channel object is <<o, "out">> at the end that calls Open number o,   *)
(* and <<o, "in">> at the end that accepts it: each is the other's         *)
(* partner.  Messages carry the ids the code sends; from and late are      *)
(* history: the object that sent the message, and whether it had already   *)
(* sent its Close.                                                         *)
(*                                                                         *)
(* A goroutine blocked in Encode, or on a full inbox, is one whose next    *)
(* action is not enabled.                                                  *)
(***************************************************************************)
EXTENDS Naturals, Sequences

CONSTANTS
    OpensA, OpensB,  \* the calls of Open at end "a" and at end "b"
    Accepters,       \* goroutines at each end that call Accept in a loop
    Sizes,           \* what MaxPacketSize is offered: "ok" is this code's
                     \* own, "bad" that of a peer with other limits
    ChanSize,        \* chanSize: capacity of Session.inbox
    Capacity,        \* bound: messages the transport holds in one direction
    MaxData,         \* bound: calls of Write in one behaviour
    MayCancel,       \* whether the context of an Open may be cancelled
    MayClose,        \* whether a program may call Session.Close
    Faults           \* whether the transport may fail by itself

ASSUME SessionAssumption ==
    /\ OpensA \cap OpensB = {}
    /\ Sizes \subseteq {"ok", "bad"} /\ Sizes # {}
    /\ ChanSize \in Nat \ {0} /\ Capacity \in Nat /\ MaxData \in Nat
    /\ MayCancel \in BOOLEAN /\ MayClose \in BOOLEAN /\ Faults \in BOOLEAN

VARIABLES
    chans,      \* chanList.chans of each end, indexed from id 0
    localId,    \* Channel.localId
    remoteId,   \* Channel.remoteId, 0 until it is known
    sentClose,  \* Channel.sentClose
    closed,     \* Channel.close has run: msg and the window are closed
    msg,        \* the first message on Channel.msg of an outbound channel
    opc,        \* where each call of Open is
    held,       \* the channels that Open or Accept has returned
    writing,    \* the channels with a Write between reserve and Encode
    writes,     \* history: calls of Write so far
    inbox,      \* Session.inbox of each end
    apc,        \* where the accepters of each end are
    token,      \* whether closeCh of each end holds its value
    lpc,        \* where each session loop is
    cur,        \* the channel each loop is working on
    why,        \* why each loop stopped
    up,         \* whether each end's transport is open
    odd,        \* history: which of the two races below has happened
    wire        \* the messages on their way to each end

objects == <<localId, remoteId, sentClose, closed, msg>>
programs == <<opc, held, writing, writes, inbox, apc, token>>
loops == <<lpc, cur, why>>
vars == <<chans, objects, programs, loops, up, odd, wire>>

Ends == {"a", "b"}
Peer(e) == IF e = "a" THEN "b" ELSE "a"
Opens == OpensA \cup OpensB
Caller(o) == IF o \in OpensA THEN "a" ELSE "b"

Out(o) == <<o, "out">>
In(o) == <<o, "in">>
Channels == Opens \X {"out", "in"}
Partner(c) == IF c[2] = "out" THEN In(c[1]) ELSE Out(c[1])
Home(c) == IF c[2] = "out" THEN Caller(c[1]) ELSE Peer(Caller(c[1]))
Nil == <<>>                                  \* a nil *Channel

Init ==
    /\ chans = [e \in Ends |-> <<>>]
    /\ localId = [c \in Channels |-> 0] /\ remoteId = [c \in Channels |-> 0]
    /\ sentClose = [c \in Channels |-> FALSE] /\ closed = [c \in Channels |-> FALSE]
    /\ msg = [o \in Opens |-> "empty"]
    /\ opc = [o \in Opens |-> "idle"]
    /\ held = {} /\ writing = {} /\ writes = 0
    /\ inbox = [e \in Ends |-> <<>>]
    /\ apc = [e \in Ends |-> [x \in Accepters |-> "wait"]]
    /\ token = [e \in Ends |-> FALSE]
    /\ lpc = [e \in Ends |-> "run"] /\ cur = [e \in Ends |-> Nil]
    /\ why = [e \in Ends |-> "none"]
    /\ up = [e \in Ends |-> TRUE]
    /\ odd = {}
    /\ wire = [e \in Ends |-> <<>>]
-----------------------------------------------------------------------------
(* chanList.  The first nil slot is taken again. *)
FreeSlots(q) == {i \in 1..Len(q) : q[i] = Nil}

FirstFree(q) ==
    IF FreeSlots(q) = {} THEN Len(q) + 1
    ELSE CHOOSE i \in FreeSlots(q) : \A j \in FreeSlots(q) : i <= j

AddChan(q, c) ==
    IF FirstFree(q) > Len(q) THEN Append(q, c)
    ELSE [q EXCEPT ![FirstFree(q)] = c]

GetChan(e, id) == IF id < Len(chans[e]) THEN chans[e][id + 1] ELSE Nil

RemoveChan(q, id) == IF id < Len(q) THEN [q EXCEPT ![id + 1] = Nil] ELSE q

Listed(c) == \E i \in 1..Len(chans[Home(c)]) : chans[Home(c)][i] = c

(* Session.newChannel. *)
NewChannel(c) ==
    /\ chans' = [chans EXCEPT ![Home(c)] = AddChan(@, c)]
    /\ localId' = [localId EXCEPT ![c] = FirstFree(chans[Home(c)]) - 1]
-----------------------------------------------------------------------------
(* The transport: it holds Capacity messages in each direction; with       *)
(* Capacity 0 it is a pipe, whose Write returns when the reader takes it.  *)
Room(e) == Len(wire[e]) < Capacity \/ (wire[e] = <<>> /\ lpc[e] = "run")
CanEncode(e) == up[e] /\ Room(Peer(e))
CanFailEncode(e) == ~up[e] \/ ~up[Peer(e)]

Message(t, id, sender, c) ==
    [type |-> t, id |-> id, sender |-> sender, from |-> c, late |-> sentClose[c]]

Encode(c, t, id, sender) ==
    wire' = [wire EXCEPT ![Peer(Home(c))] = Append(@, Message(t, id, sender, c))]

(* Channel.send of a CloseMessage.  Mutant: without its check. *)
MaySendAgain(c) == TRUE
MaySend(c) == ~sentClose[c]

SendClose(c) ==
    \/ ~MaySend(c) /\ UNCHANGED <<sentClose, wire>>
    \/ /\ MaySend(c)
       /\ sentClose' = [sentClose EXCEPT ![c] = TRUE]
       /\ \/ CanEncode(Home(c)) /\ Encode(c, "Close", remoteId[c], 0)
          \/ CanFailEncode(Home(c)) /\ UNCHANGED wire
-----------------------------------------------------------------------------
(* Session.Open: the channel is listed before its OpenMessage is sent. *)
OpenCall(o) ==
    /\ opc[o] = "idle"
    /\ NewChannel(Out(o))
    /\ opc' = [opc EXCEPT ![o] = "encode"]
    /\ UNCHANGED <<remoteId, sentClose, closed, msg, held, writing, writes, inbox,
                   apc, token, loops, up, odd, wire>>

OpenEncode(o) ==
    /\ opc[o] = "encode"
    /\ \/ /\ CanEncode(Caller(o))
          /\ \E s \in Sizes :
                Encode(Out(o), IF s = "ok" THEN "Open" ELSE "OpenBad", 0, localId[Out(o)])
          /\ opc' = [opc EXCEPT ![o] = "wait"]
       \/ /\ CanFailEncode(Caller(o))
          /\ opc' = [opc EXCEPT ![o] = "failed"]
          /\ UNCHANGED wire
    /\ UNCHANGED <<chans, objects, held, writing, writes, inbox, apc, token, loops, up, odd>>

(* A message of the loop, or the close of ch.msg, ends the wait. *)
OpenReturn(o) ==
    /\ opc[o] = "wait"
    /\ msg[o] # "empty" \/ closed[Out(o)]
    /\ IF msg[o] = "confirm"
       THEN opc' = [opc EXCEPT ![o] = "ok"] /\ held' = held \cup {Out(o)}
       ELSE opc' = [opc EXCEPT ![o] = "failed"] /\ UNCHANGED held
    /\ UNCHANGED <<chans, objects, writing, writes, inbox, apc, token, loops, up, odd, wire>>

(* ctx.Done: Open returns, and the channel stays as it is. *)
OpenCancel(o) ==
    /\ MayCancel
    /\ opc[o] = "wait"
    /\ opc' = [opc EXCEPT ![o] = "failed"]
    /\ UNCHANGED <<chans, objects, held, writing, writes, inbox, apc, token, loops, up, odd, wire>>

(* Session.Accept: either case of its select. *)
AcceptChan(e, x) ==
    /\ apc[e][x] = "wait"
    /\ inbox[e] # <<>>
    /\ inbox' = [inbox EXCEPT ![e] = Tail(@)]
    /\ held' = held \cup {Head(inbox[e])}
    /\ UNCHANGED <<chans, objects, opc, writing, writes, apc, token, loops, up, odd, wire>>

AcceptEOF(e, x) ==
    /\ apc[e][x] = "wait"
    /\ token[e]
    /\ token' = [token EXCEPT ![e] = FALSE]
    /\ apc' = [apc EXCEPT ![e][x] = "eof"]
    /\ UNCHANGED <<chans, objects, opc, held, writing, writes, inbox, loops, up, odd, wire>>

(* Channel.Close by the program.  Accept may have returned the channel     *)
(* before the loop has encoded its OpenConfirm: that race is remembered.   *)
CloseChannel(c) ==
    /\ c \in held
    /\ ~sentClose[c]
    /\ SendClose(c)
    /\ odd' = IF lpc[Home(c)] = "confirm" /\ cur[Home(c)] = c
              THEN odd \cup {"earlyClose"} ELSE odd
    /\ UNCHANGED <<chans, localId, remoteId, closed, msg, programs, loops, up>>

(* Channel.Write: reserve succeeds while the window is open, and Encode    *)
(* comes later and consults nothing.                                       *)
WriteReserve(c) ==
    /\ c \in held \ writing
    /\ ~closed[c]
    /\ writes < MaxData
    /\ writing' = writing \cup {c}
    /\ writes' = writes + 1
    /\ UNCHANGED <<chans, objects, opc, held, inbox, apc, token, loops, up, odd, wire>>

WriteEncode(c) ==
    /\ c \in writing
    /\ writing' = writing \ {c}
    /\ \/ CanEncode(Home(c)) /\ Encode(c, "Data", remoteId[c], 0)
       \/ CanFailEncode(Home(c)) /\ UNCHANGED wire
    /\ odd' = IF sentClose[c] THEN odd \cup {"lateData"} ELSE odd
    /\ UNCHANGED <<chans, objects, opc, held, writes, inbox, apc, token, loops, up>>

(* Session.Close by the program. *)
SessionClose(e) ==
    /\ MayClose
    /\ up[e]
    /\ up' = [up EXCEPT ![e] = FALSE]
    /\ UNCHANGED <<chans, objects, programs, loops, odd, wire>>
-----------------------------------------------------------------------------
(* The loop goes on to its next step, or leaves the for loop. *)
Goto(e, pc, c) ==
    /\ lpc' = [lpc EXCEPT ![e] = pc]
    /\ cur' = [cur EXCEPT ![e] = c]
    /\ UNCHANGED why

Exit(e, reason) ==
    /\ lpc' = [lpc EXCEPT ![e] = "drop"]
    /\ cur' = [cur EXCEPT ![e] = Nil]
    /\ why' = [why EXCEPT ![e] = reason]

(* Session.handleOpen, up to the first step that may block. *)
HandleOpen(e, m) ==
    LET c == Partner(m.from)
    IN  /\ remoteId' = [remoteId EXCEPT ![c] = m.sender]
        /\ IF m.type = "Open"
           THEN NewChannel(c) /\ Goto(e, "inbox", c)
           ELSE Goto(e, "refuse", c) /\ UNCHANGED <<chans, localId>>
        /\ UNCHANGED <<sentClose, closed, msg>>

(* ch.msg <- msg, which keeps the first answer for the waiting Open. *)
Deliver(o, t) == msg' = [msg EXCEPT ![o] = IF @ = "empty" THEN t ELSE @]

(* Mutant: the id that the peer chose is not stored. *)
PeersIdKept(c, m) == remoteId[c]
PeersId(c, m) == m.sender

(* Channel.handle on the answer to an Open.  handleOpen always confirms    *)
(* with channelMaxPacket (session.go:193), so the check of that size here  *)
(* (channel.go:208) passes between two ends that run this code.            *)
HandleConfirm(e, c, m) ==
    IF c[2] = "in"
    THEN Exit(e, "response") /\ UNCHANGED <<chans, objects>>
    ELSE /\ remoteId' = [remoteId EXCEPT ![c] = PeersId(c, m)]
         /\ Deliver(c[1], "confirm")
         /\ UNCHANGED <<chans, localId, sentClose, closed, loops>>

HandleFailure(e, c, m) ==
    IF c[2] = "in"
    THEN Exit(e, "response") /\ UNCHANGED <<chans, objects>>
    ELSE /\ chans' = [chans EXCEPT ![e] = RemoveChan(@, m.id)]
         /\ Deliver(c[1], "failure")
         /\ UNCHANGED <<localId, remoteId, sentClose, closed, loops>>

(* Session.onePacket and Channel.handle. *)
Handle(e, m) ==
    LET c == GetChan(e, m.id)
    IN  CASE m.type \in {"Open", "OpenBad"} -> HandleOpen(e, m)
          [] m.type \notin {"Open", "OpenBad"} /\ c = Nil ->
                Exit(e, "invalidChannel") /\ UNCHANGED <<chans, objects>>
          [] m.type = "Confirm" /\ c # Nil -> HandleConfirm(e, c, m)
          [] m.type = "Failure" /\ c # Nil -> HandleFailure(e, c, m)
          [] m.type = "Close" /\ c # Nil ->
                Goto(e, "reply", c) /\ UNCHANGED <<chans, objects>>
          [] m.type = "Data" /\ c # Nil -> UNCHANGED <<chans, objects, loops>>

OnePacket(e) ==
    /\ lpc[e] = "run" /\ up[e]
    /\ wire[e] # <<>>
    /\ wire' = [wire EXCEPT ![e] = Tail(@)]
    /\ Handle(e, Head(wire[e]))
    /\ UNCHANGED <<programs, up, odd>>

(* s.inbox <- c blocks the loop while the inbox is full.  Mutant: it takes *)
(* one channel too many.                                                   *)
HasRoomOff(q) == Len(q) <= ChanSize
HasRoom(q) == Len(q) < ChanSize

PushInbox(e) ==
    /\ lpc[e] = "inbox"
    /\ HasRoom(inbox[e])
    /\ inbox' = [inbox EXCEPT ![e] = Append(@, cur[e])]
    /\ Goto(e, "confirm", cur[e])
    /\ UNCHANGED <<chans, objects, opc, held, writing, writes, apc, token, up, odd, wire>>

(* The answer of handleOpen; an error of Encode ends the loop. *)
EncodeAnswer(c, t) == Encode(c, t, remoteId[c], localId[c])

AnswerOpen(e) ==
    /\ lpc[e] \in {"confirm", "refuse"}
    /\ \/ /\ CanEncode(e)
          /\ EncodeAnswer(cur[e], IF lpc[e] = "confirm" THEN "Confirm" ELSE "Failure")
          /\ Goto(e, "run", Nil)
       \/ /\ CanFailEncode(e)
          /\ Exit(e, "net")
          /\ UNCHANGED wire
    /\ UNCHANGED <<chans, objects, programs, up, odd>>

(* The answer to a CloseMessage; an error of send is ignored. *)
ReplyClose(e) ==
    /\ lpc[e] = "reply"
    /\ SendClose(cur[e])
    /\ Goto(e, "remove", cur[e])
    /\ UNCHANGED <<chans, localId, remoteId, closed, msg, programs, up, odd>>

(* chans.remove and Channel.close.  Mutant: the slot is not given back. *)
WithoutKept(c) == chans[Home(c)]
Without(c) == RemoveChan(chans[Home(c)], localId[c])

FinishClose(e) ==
    /\ lpc[e] = "remove"
    /\ chans' = [chans EXCEPT ![e] = Without(cur[e])]
    /\ sentClose' = [sentClose EXCEPT ![cur[e]] = TRUE]
    /\ closed' = [closed EXCEPT ![cur[e]] = TRUE]
    /\ Goto(e, "run", Nil)
    /\ UNCHANGED <<localId, remoteId, msg, programs, up, odd, wire>>

(* Decode returns an error. *)
ReadError(e) ==
    /\ lpc[e] = "run"
    /\ Faults \/ ~up[e] \/ ~up[Peer(e)]
    /\ Exit(e, "net")
    /\ UNCHANGED <<chans, objects, programs, up, odd, wire>>

(* The end of Session.loop: dropAll and close, t.Close, closeCh, err.      *)
(* Mutant: the channels are dropped without being closed.                  *)
DroppedOpen(e) == {}
Dropped(e) == {c \in Channels : Home(c) = e /\ Listed(c)}

DropAll(e) ==
    /\ lpc[e] = "drop"
    /\ closed' = [c \in Channels |-> closed[c] \/ c \in Dropped(e)]
    /\ sentClose' = [c \in Channels |-> sentClose[c] \/ c \in Dropped(e)]
    /\ chans' = [chans EXCEPT ![e] = <<>>]
    /\ Goto(e, "tclose", Nil)
    /\ UNCHANGED <<localId, remoteId, msg, programs, up, odd, wire>>

CloseTransport(e) ==
    /\ lpc[e] = "tclose"
    /\ up' = [up EXCEPT ![e] = FALSE]
    /\ Goto(e, "token", Nil)
    /\ UNCHANGED <<chans, objects, programs, odd, wire>>

(* Mutant: nothing is put on closeCh. *)
PutTokenMissing(e) ==
    /\ lpc[e] = "token"
    /\ Goto(e, "err", Nil)
    /\ UNCHANGED <<chans, objects, programs, up, odd, wire>>

PutToken(e) ==
    /\ lpc[e] = "token"
    /\ token' = [token EXCEPT ![e] = TRUE]
    /\ Goto(e, "err", Nil)
    /\ UNCHANGED <<chans, objects, opc, held, writing, writes, inbox, apc, up, odd, wire>>

(* Mutant: the end of the transport is not counted as an error. *)
SetErrNilOnEOF(e) ==
    /\ lpc[e] = "err"
    /\ why[e] # "net"
    /\ Goto(e, "done", Nil)
    /\ UNCHANGED <<chans, objects, programs, up, odd, wire>>

(* s.err is set and broadcast: every Wait returns. *)
SetErr(e) ==
    /\ lpc[e] = "err"
    /\ Goto(e, "done", Nil)
    /\ UNCHANGED <<chans, objects, programs, up, odd, wire>>
-----------------------------------------------------------------------------
Loop(e) == \/ OnePacket(e) \/ PushInbox(e) \/ AnswerOpen(e)
           \/ ReplyClose(e) \/ FinishClose(e)
           \/ DropAll(e) \/ CloseTransport(e) \/ PutToken(e) \/ SetErr(e)

Accept(e) == \E x \in Accepters : AcceptChan(e, x) \/ AcceptEOF(e, x)

Open(o) == OpenEncode(o) \/ OpenReturn(o)

Next ==
    \/ \E e \in Ends : Loop(e) \/ ReadError(e) \/ Accept(e) \/ SessionClose(e)
    \/ \E o \in Opens : OpenCall(o) \/ Open(o) \/ OpenCancel(o)
    \/ \E c \in Channels : CloseChannel(c) \/ WriteReserve(c) \/ WriteEncode(c)

(* The goroutines of the code are scheduled: the loops, an Open or a Write *)
(* that has started, and the accepters, which call Accept again and again. *)
(* A loop reading a closed transport gets its error.  No program has to    *)
(* open, write or close, and no fault has to happen.                       *)
Fairness ==
    /\ \A e \in Ends : /\ WF_vars(Loop(e)) /\ WF_vars(Accept(e))
                       /\ WF_vars((~up[e] \/ ~up[Peer(e)]) /\ ReadError(e))
    /\ \A o \in Opens : WF_vars(Open(o))
    /\ \A c \in Channels : WF_vars(WriteEncode(c))

Spec == Init /\ [][Next]_vars
FairSpec == Spec /\ Fairness
-----------------------------------------------------------------------------
MessageTypes == {"Open", "OpenBad", "Confirm", "Failure", "Close", "Data"}

(* The values of the state; the inbox never exceeds its capacity.          *)
TypeOK ==
    /\ \A e \in Ends : \A i \in 1..Len(chans[e]) : chans[e][i] \in Channels \cup {Nil}
    /\ localId \in [Channels -> Nat] /\ remoteId \in [Channels -> Nat]
    /\ sentClose \in [Channels -> BOOLEAN] /\ closed \in [Channels -> BOOLEAN]
    /\ msg \in [Opens -> {"empty", "confirm", "failure"}]
    /\ opc \in [Opens -> {"idle", "encode", "wait", "ok", "failed"}]
    /\ held \subseteq Channels /\ writing \subseteq held /\ writes \in 0..MaxData
    /\ \A e \in Ends : Len(inbox[e]) <= ChanSize
    /\ apc \in [Ends -> [Accepters -> {"wait", "eof"}]]
    /\ token \in [Ends -> BOOLEAN]
    /\ lpc \in [Ends -> {"run", "inbox", "confirm", "refuse", "reply", "remove",
                         "drop", "tclose", "token", "err", "done"}]
    /\ cur \in [Ends -> Channels \cup {Nil}]
    /\ why \in [Ends -> {"none", "net", "invalidChannel", "response"}]
    /\ up \in [Ends -> BOOLEAN] /\ odd \subseteq {"earlyClose", "lateData"}
    /\ \A e \in Ends : \A i \in 1..Len(wire[e]) : wire[e][i].type \in MessageTypes

(* End e's loop has dropped its channels. *)
Ended(e) == lpc[e] \in {"tclose", "token", "err", "done"}

(* The message that end e's loop is about to handle is for a channel. *)
Arriving(e) ==
    /\ lpc[e] = "run" /\ up[e] /\ wire[e] # <<>>
    /\ Head(wire[e]).type \notin {"Open", "OpenBad"}

(* Although ids are reused (util_chanlist.go:19-24), a message that its    *)
(* channel sent before its own Close is handled by the partner of that     *)
(* channel and by no other, whatever opens, refusals, cancellations,       *)
(* closes and failures went before it; the one exception is a history in   *)
(* which a channel was closed before its OpenConfirm went out.             *)
Routed ==
    "earlyClose" \notin odd =>
        \A e \in Ends : Arriving(e) /\ ~Head(wire[e]).late =>
            GetChan(e, Head(wire[e]).id) = Partner(Head(wire[e]).from)

(* Two ends that run this code end a session only because the transport    *)
(* ended, or after one of the two races: a Close ahead of the OpenConfirm, *)
(* or data behind a Close (session.go:175, channel.go:176).                *)
OnlyRacesKill ==
    odd = {} => \A e \in Ends : why[e] \in {"none", "net"}

(* Open does not hang: it returns a channel or an error (api.go:14), also  *)
(* when its session ends meanwhile, provided that it had listed its        *)
(* channel before the loop dropped the list (session.go:145); a later one  *)
(* may put a channel on a list that nobody drops again.  It needs a        *)
(* transport that does not fill up while both loops answer (line 196).     *)
OpenReturns ==
    \A o \in Opens :
        (opc[o] \in {"encode", "wait"} /\ ~Ended(Caller(o)))
            ~> (opc[o] \in {"ok", "failed"} \/ odd # {})

(* A channel that one end has closed leaves the lists of both ends, or the *)
(* session of its end has ended, so its ids can be used again              *)
(* (channel.go:186-192).                                                   *)
CloseCompletes ==
    \A c \in Channels :
        (c \in held /\ sentClose[c])
            ~> \/ \A d \in {c, Partner(c)} : ~Listed(d) \/ Ended(Home(d))
               \/ odd # {}

(* session.go:68, "Wait blocks until the transport has shut down": once    *)
(* this end has closed its transport, Wait returns.                        *)
WaitReturns == \A e \in Ends : ~up[e] ~> lpc[e] = "done"

(* Once this end has closed its transport, a blocked Accept returns an     *)
(* error.  One of them: api.go:11 promises it of "any", but closeCh        *)
(* carries a single value (session.go:150), and a second Accept that is    *)
(* blocked at that moment stays blocked.                                   *)
OneAcceptUnblocked ==
    \A e \in Ends : ~up[e] ~> \E x \in Accepters : apc[e][x] = "eof"
=============================================================================

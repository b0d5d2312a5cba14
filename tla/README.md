# Verification of the Teleport server

TLA+ models of the tunnel server under `src/Teleport_Service`: what TLC checks
on small instances, and what TLAPS proves for all of them. Paths below are
relative to that directory; `session/`, `codec/`, `go-vhost/`, `mux/` and
`transport/` are under its `localPackages/`.

## 1. The system

A client that wants to publish its local web server sends an HTTP request to
the Teleport server. The server signs it in at an external back end, binds a
random public host name, hijacks the connection and runs a *qmux session* over
it. For every visitor of the public name the server opens a *channel* of that
session and copies bytes between visitor and channel.

| Part | State | Operations | Meets |
|---|---|---|---|
| Server, `server.go` | `activeConnections`: remote address to `ClientConnection` (limiter, `active`) | `ConnectionManager` (handler of one request), `handleConnections` (accept loop of one tunnel), `main` (error loop) | back end through `auth/auth.go`, muxer, session |
| Muxer, `go-vhost/mux.go` | `registry` of names, one unbuffered `accept` channel per listener, `muxErrors` | `run`, `handle`, `Listen`, `Listener.Accept`, `Listener.Close`, `NextError` | the OS listener, the server |
| Session, `session/session.go`, `util_chanlist.go` | list of channels with reused ids, `inbox`, `closeCh`, `err` | `Open`, `Accept`, `Close`, `Wait`, `loop`, `onePacket`, `handleOpen` | the session at the client, over a transport |
| Channel, `session/channel.go`, `util_window.go`, `util_buffer.go` | send window, receive window, pending buffer, `sentClose`, `sentEOF` | `Write`, `Read`, `CloseWrite`, `Close`, `handle` | its session's loop, the channel at the peer |
| `JoinEncrypted`, `utilities/assetsFunctions.go` | two Go channels, one shared buffer, four goroutines | copy in both directions with AES-GCM | channel and visitor |
| Codec, `codec/` | none | `Encode`, `Decode` | the transport |
| First-request readers, `go-vhost/http.go`, `tls.go`, `shared.go` | `vhostBuf`, the blocks of a ClientHello | `HTTP`, `TLS`, `sharedConn.Read` | the muxer, then the owner of the connection |
| Transports, `transport/` | `accepted`, `errs`, `closer` of a `NetListener` | `Accept`, `Close`, the serving goroutine, `HandleWS` | sessions; not used by the server |
| Start-up, `server.go` | `config` | reads `config.json` once | - |

### What is hard here

Everything runs concurrently: one goroutine per HTTP request, per tunnel loop,
per visitor, per session loop and per blocked call.

* **Session and channel.** Two loops that answer messages while programs open,
  write and close; ids that are reused; flow control in `uint32`; condition
  variables; sessions that end at any moment, with calls in progress.
* **Muxer.** A listener that is looked up, closed and bound again before the
  connection is handed over; a send on a closed channel that must end in the
  error loop; an error loop that closes connections other goroutines own.
* **Server.** A slot per iteration that each error path must give back; entries
  shared by requests from one address; a deletion by address; calls to a back
  end without timeout.
* **JoinEncrypted.** Two readers that share a buffer without a lock, four
  goroutines that end in any order, packets whose boundaries are those of Read.
* **Streams.** A packet, a record or a request arrives in any segments; what
  was read to route a connection has to be read again by its owner.
* **NetListener.** One select over three Go channels of small capacity, shared
  by all accepters, all calls of Close and all sessions.

### What makes it correct

* Channel: it is an ordered, reliable stream; flow control never ends a session
  and never starves a writer; closing it strands no control message.
* Session: a message reaches the channel it was sent for, in spite of reused
  ids; only the transport ends a session; `Open`, `Accept` and `Wait` return;
  closed channels leave both lists.
* Muxer: names and open listeners correspond; connections go to the listener of
  their name, or are closed.
* Server: the count of active connections is exact, no tunnel exceeds its
  subscription, an ended tunnel is released, visitors are served.
* Join: neither direction gets bytes of the other, nothing that arrived is
  lost, the join returns and leaves no goroutine.
* Streams: the messages and the host are those that were sent, however the
  stream was cut, and its owner reads all of it.
* NetListener: no error is lost or made up, Close returns and releases blocked
  Accepts, the serving goroutine ends.

`PROJECT.json` lists the hazards at their lines with the properties that cover
them.

## 2. Modules

| Module | Stands for |
|---|---|
| `ByteStream` | what one direction of a channel promises: an ordered, reliable stream with an end |
| `ChannelFlow` | one direction of one open channel, down to locks and condition variables |
| `Session` | two sessions: channel lists, loops, Open, Accept, Close, Wait |
| `Vhost` | the muxer and `main`'s error loop |
| `Tunnel` | `ConnectionManager` and `handleConnections`, composed with `Vhost` by `EXTENDS` |
| `Join` | the four goroutines of `JoinEncrypted` |
| `Codec`, `Hello` | the bytes of qmux messages; the parser of a ClientHello |
| `Framing` | the readers of segmented streams: `Decoder`, `TLS`, `HTTP`, `sharedConn`; extends `Codec` and `Hello` |
| `Listener` | `NetListener` over the network and over WebSocket |
| `MCFlow`, `MCSession`, `MCVhost`, `MCTunnel`, `MCJoin`, `MCFraming`, `MCListener` | the modules the runs name; `MCTunnel` defines the limits, `MCFraming` the streams |
| `ChannelFlowProofs`, `StreamProofs` | theorems about `ChannelFlow`; that it implements `ByteStream` |
| `SessionProofs`, `VhostProofs`, `TunnelProofs`, `JoinProofs`, `FramingProofs`, `ListenerProofs` | theorems about the module of that name; `TunnelProofs` extends `VhostProofs` |

**Grain.** An action is one critical section, or a stretch of code between two
points where the goroutine can block or be seen by another. A goroutine that is
blocked in `Encode`, on a full Go channel or in a `sync.Cond` is one whose next
action is not enabled. Operators whose comment begins with *Mutant* are faulty
variants that no specification uses; they show that a property can fail.

**`ChannelFlow`.** Bytes are their positions in the stream. `win` is
`remoteWin.win`, `myWindow` the receiver's account, `pending` the buffer, `wpc`
and `rpc` the program counters of `Write` and `Read`. `Reserve`/`WritePacket`
are the two halves of an iteration of `Write`, `AdjustWindow`/`SendAdjust` the
two critical sections of `adjustWindow`. `ReceiveData` and `ReceiveCtl` are
`onePacket` at either end; `HandleClose`, `ReplyClose` and `FinishClose` the
Close case of `handle`. `off` in control messages and `sent`, `credited`,
`ended`, `mark`, `got` are history. `Channel.close` is one action: a step of
another goroutine between its locks has the effect it would have had just
before the first of them.

**`Session`.** A channel object is `<<o, "out">>` at the caller of `Open` and
`<<o, "in">>` at the accepter. Messages carry the ids that the code puts in
them; `from` and `late` are history, as is `odd`, which remembers the two races
of section 4. The transport holds `Capacity` messages each way; 0 is a
synchronous pipe. `handleOpen` is split where it can block (`HandleOpen`,
`PushInbox`, `AnswerOpen`), the end of `loop` into its four statements. An Open
whose size is `"bad"` is one of a peer with other limits, which `handleOpen`
refuses. A `Data` message is its address only. `WindowAdjust` and `EOF` go
through `send`, as `Close` does, and are in `ChannelFlow`.

**`Vhost`.** `cpc` is where `handle` is with a connection, including the order
of its deferred functions: the reset of the deadline, then the recovery.
`Candidates` gives for a host the names that `get` tries in turn, `Lookup` is
`get`. The server binds no wildcard, so `Tunnel`'s instances have none.
`Listener.Close` is two steps, `CloseDel` and `CloseAccept`. `NextError` is the
meeting of `sendError` with `main`, which closes the connection.

**`Tunnel`.** An owner of `Vhost` is a request; a `*ClientConnection` is named
after the request that made it, so its limiter is one for `sub` of that
request. `hpc` is where the handler is, `gpc` where `handleConnections` is.
The early returns are there: no credentials, failed sign-in, bound name (the
entry stays, the listener was never made), bad client key (the entry stays,
the deferred `pl.Close` runs). Every `log.Fatal`, those of the key exchange and
of `Hijack` included, may set `crashed` (`FatalErrors`), after which nothing
happens. A new request may come from an address when the earlier requests from
it were answered or their transport is closed, which is before their handler
has deleted the entry. A session is `up` until its loop has set `err`. An Open
can succeed after that (the confirmation was buffered), and fail before it (the
client refuses). External, and modelled from how the code uses it: the back
end, `net/http`, `rate.Limiter`, of which only "an error at once for burst 0,
else a wait that ends" is kept.

**`Join`.** `rpc` and `wpc` are where the two readers and the two writers are;
the writer of `"up"` is the calling goroutine. A Read stores its bytes into
`buffer` one at a time and in any order, so that two Reads at the same time mix
in every way; `raced` remembers that they met. `Seal` takes each byte of the
buffer once, so that one moment, together with the order of the stores, covers
every race. `aesGCM.Open` looks twice, and nothing in the contract of an AEAD
says that it does not: `Authentic` checks the tag, `Decrypt` takes what the
buffer holds then, and `torn` remembers that the other reader stored in between.
A Read of the channel may return its bytes with an error, when their credit
cannot be announced any more (`ReadDropped`), and the reader drops them. The
unbuffered Go channels are the meeting `HandOver`. A sealed packet is two bytes
(nonce and tag, ciphertext), accepted when both are those of one packet and the
Read returned exactly them. A `plain` visitor sends
bytes that never open: this is what every connection routed by the HTTP muxer
begins with. `fin`, `gone` and `shut` tell a peer that stopped sending, a peer
that went, and an end closed by this code.

**`Codec`, `Hello`, `Framing`.** Bytes are numbers. Integers of qmux are two
bytes instead of four, those of TLS one, and the limits of the code
(`maxCiphertext`, 0x3000, `maxHandshake`, the block size, the `bufio` buffer)
are constants scaled with them. `pc` is where the reader is; `buf` its packet,
block or request; `hand` the handshake bytes; `tee` is `vhostBuf`. Every action
that reads takes any segment that fits the room the code offers: one byte for a
type, the rest of a packet, the free space of a block, a `bufio` buffer.
`readPacket` ignores how many bytes a Read returned: the rest of its slice is
zero (`Padded`; `zeros` in a decoded message). External: `http.ReadRequest`.

What a stream means is part of an input, and `FramingAssumption` ties it to the
bytes (`Labelled`): a qmux stream is the packets of its messages, one after the
other (`Encoded`); a hello means what a reader finds that has the whole stream
and takes one record after the other (`TlsReading`); a request what its first
bytes say (`HttpMeaning`). These references know no segments, blocks or rooms.
`HeaderError` and `HelloOutcome`, the checks on bytes that are there, are shared
with the model; so that they are not only compared with themselves, `MCFraming`
writes down by hand what each stream means, and TLC checks the assumption too.

**`Listener`.** `mode` chooses between `listenNet` and `ListenWS`; `serve` is
the goroutine around `l.Accept` or `s.Serve`, `conn` where each connection is,
`errs` and `closer` the numbers of values on the two buffered Go channels, `cpc`
where each Close is. `AcceptSession`, `AcceptErr` and `AcceptEOF` are the three
cases of the select. External: the operating system and `http.Server`.

## 3. Runs

All runs that are expected to pass explore their whole state space. Deadlock
checking is off: all programs here may simply stop calling, and streams end.

| Run | Checks | Instance |
|---|---|---|
| `flow` | `TypeOK`, `NoOverrun`, `CreditConserved`, `StrayOnlyLateData`, `ImplementsStream`, `WriterProgress`, `StreamDelivered` | window 2, packet 1, modulus 4, 3 bytes, faults: the window is used up, refilled and used again, and the last packet has to wait |
| `session_safety` | `TypeOK`, `Routed`, `OnlyRacesKill` | two Opens at one end, refusals, cancellations, one Write, inbox 1: ids are reused and the inbox fills |
| `session_shutdown` | `WaitReturns`, `OneAcceptUnblocked`, `OpenReturns`, `CloseCompletes` | one Open, refused or cancelled, two accepters, one Write, faults and closes, room for 2 messages |
| `vhost` | `VhostTypeOK`, `RegistryExact`, `DeliveredByName`, `ServedNotClosed`, `ConnSettled` | 2 connections, 2 listeners, a name and the wildcard that matches it, errors of the OS listener: a name is bound again while a connection is on its way |
| `tunnel` | `TunnelTypeOK`, `SlotsAccounted`, `WithinLimit`, `TunnelReleased` | 2 requests from one address, 1 visitor, failing back end, refusing client, limits 1, 2 and 0: entries are shared, left behind and deleted; with limit 1 the loop comes back to a slot that its first visitor still holds; a limiter of burst 0 |
| `join` | `TypeOK`, `UplinkAuthentic`, `DownlinkExact`, `JoinReturns`, `GoroutinesEnd`, `DownlinkDelivered` | a buffer of 2 bytes, 2 bytes down, 4 bytes (two sealed packets) up: packets are split, joined and overwritten |
| `framing` | `TypeOK`, `DecodedExact`, `OutcomeExact`, `ReplayExact` | 584 streams of up to three qmux messages of every type, empty data among them; 137 hellos good, bad and cut short, in one or two records, with bytes behind them; 6 requests with bodies; all in every segmentation |
| `listener` | `TypeOK`, `ErrorsAccounted`, `BlockedReleased`, `CloseReturns`, `ServeEnds` | both modes, 3 connections, 2 accepters, 2 calls of Close: `errs` and `closer` fill |

The runs `flow_late_data`, `session_full_inbox`, `session_jam` and
`tunnel_stalled` are refuted by TLC; see section 4. In `session_jam` both ends
open two channels over room for one message each way; larger transports need
more Opens to fill, no other kind of step. Opens that cross each other are in
that run and in the theorems of `SessionProofs`, which hold for any set of Opens
at either end.

The bounds are named constants: `MaxBytes`, `MaxRead`, `MaxData`, `Capacity`,
`ChanSize`, `Mod`, `Cells`, `MaxDown`, `MaxUp`, and the sizes of the sets. They
are small because the questions are about two of something: two users of one
id, one name, one entry, one window, one buffer. `Mod` is above `Window`, as
`2^32` is above `channelWindowSize`; a window account off by one would wrap it.

**Fairness.** Go schedules every goroutine that can run, so each enabled step
of a loop, of a call in progress and of a handler has weak fairness. A reader
keeps reading (as `JoinEncrypted` does), an accepter keeps accepting. Nothing
makes a program write, open or close, a visitor come, or a fault happen.
`Tunnel!LocalFairness` is only that. `Tunnel!FullFairness`, for
`VisitorServed`, adds the best case: the back end answers, Opens return,
visitors leave. The violation found under it is therefore one of the code.
In `Join` the two peers keep reading, so that a Write returns, and the client
answers the Close of a channel, which `CloseCompletes` shows of a session that
goes on;
nobody has to send or to leave. In `Listener` a closed OS listener fails, and
nobody has to dial, to call Accept or to call Close.

## 4. Where code and documents disagree

Each of these is a run that TLC refutes; `PROJECT.json` quotes the line.

* `flow_late_data`: `Write` bypasses `send`, so data follows a Close
  (channel.go:77). It is enough that the *peer* closes while a Write is in
  progress, and the effect is the end of the peer's whole session.
* `session_full_inbox`: a full inbox blocks the loop and `Wait` (session.go:68).
  `server.go` never accepts, so a client that opens 17 channels gets there.
* `session_jam`: both loops encode an OpenConfirm on a transport without room,
  and neither reads (session.go:196); no Open returns, though no session has
  ended (mux/api.go:14). A synchronous pipe needs one Open at each end.
* `tunnel_stalled`: a tunnel that has reached its limit once never accepts
  again (ReadMe.MD:8).

Limits of the passing runs. The models contain these behaviours too, and the
properties say exactly where they stop:

* A channel closed by its accepter before its confirmation is out makes the
  opener answer to id 0 (util_chanlist.go:10). `Routed`, `OnlyRacesKill`,
  `OpenReturns` and `CloseCompletes` hold apart from this race and from late
  data; `odd` records that one of them has happened, so that these properties
  show that there is no third.
* Late data whose id has been reused meanwhile reaches the new channel;
  `Routed` is about messages sent before their channel's Close.
* An Open that lists its channel after `dropAll` and encodes before `t.Close`
  (session.go:145-149) waits for ever, because nobody closes that channel any
  more. `OpenReturns` excepts it and shows that it is the only such Open.
* `closeCh` carries one value (session.go:150), so of two blocked Accepts one is
  released, where mux/api.go:11 has "any": `OneAcceptUnblocked` promises one.
* `CloseCompletes` ends with the session: an Open that lists its channel after
  `dropAll` stays on the list.
* `isClosed` (mux.go:13) is inverted: a temporary error of Accept is reported as
  `Closed` and ends `run`, and a closed listener makes it report for ever.
* An entry that the early returns of `ConnectionManager` leave behind is used
  by the next request from the address with its old limiter, whatever that
  request's subscription is (server.go:131). `WithinLimit` holds all the same,
  since the limit is looked up for the request itself.
* `JoinEncrypted`: overlapping Reads can seal bytes of the visitor and send
  them back to it (`raced` in `DownlinkExact`); a Read that stores between the
  two looks of `Open` can put bytes nobody sealed on the client's channel
  (`torn` in `UplinkAuthentic`); the bytes of a Read that returns with an error,
  or whose nonce cannot be drawn, are dropped (`DownlinkDelivered` excepts these
  of the last Read); a packet that does not come in
  exactly one Read never opens, and neither does the plain head of a routed
  HTTP request, so the join ends there; the visitor is not told when the client
  closes its channel, and the slot stays taken (`JoinReturns` is about the
  visitor's side only); an error of `ch.Write` returns without closing the
  visitor's connection; a reader whose writer has stopped stays in its send for
  ever (`GoroutinesEnd`); a visitor that half-closes loses the answer that is
  on its way (`DownlinkDelivered`).
* `readPacket`: after one short Read the Decoder takes data for headers
  (`short` in `DecodedExact`). TCP may cut a packet anywhere.
* `readClientHello` refuses a hello whose first record is shorter than the
  handshake header (`MCFraming`, `TlsInputs`); the length of a server name list
  is taken for a number of names.
* `NetListener`: a second Close waits until an Accept has taken the value of the
  first (`CloseReturns`); of three blocked Accepts one stays (`BlockedReleased`
  holds for two); over WebSocket the end of any session makes an Accept return
  an error although the listener is open, and uncollected errors keep the
  serving goroutine (`ServeEnds`).

## 5. Proofs

TLAPS checks every proof down to its leaves. Each theorem is of the form
`Spec => []P`, or a refinement, and rests on the module's named `ASSUME` alone.
Hardly any of the properties is inductive by itself: the table names the
invariant that is, and the paragraphs below say what it adds. TLC has checked these invariants on the
instances of section 3.

| Theorems | For every | Inductive invariant |
|---|---|---|
| `FlowTypeOK`, `FlowNoOverrun`, `FlowCreditConserved`, `FlowStrayOnlyLateData` | `Window < Mod`, packet size, number of bytes, length of Read | `FlowInv`, `StrayInv` |
| `FlowImplementsStream` | as above | `StreamInv` |
| `SessionTypes`, `SessionRouted`, `SessionOnlyRacesKill` | set of Opens, accepters, capacities | `Types`, `SessionInv` |
| `VhostTypes`, `VhostRegistryExact`, `VhostDeliveredByName`, `VhostServedNotClosed` | set of connections, names, wildcards, listeners | `VhostInv` |
| `TunnelTypes`, `TunnelSlotsAccounted`, `TunnelWithinLimit`, `TunnelImplementsVhost` | set of requests, visitors, addresses, subscriptions, any limits | `TunnelInv` |
| `JoinTypes`, `JoinUplinkAuthentic`, `JoinDownlinkExact` | buffer length, number of bytes | `JoinInv` |
| `ListenerTypes`, `ListenerErrorsAccounted` | finite sets of connections, accepters, calls of Close | `ListenerInv` |
| `FramingReplayExact` | set of streams, sizes and limits | `ReplayInv` |
| `FramingTypes` | as above | `TypeInv` |
| `FramingOutcomeExact` | as above, for every TLS and HTTP stream | `OutcomeInv` |
| `FramingDecodedExact` | as above, for every sequence of qmux messages | `DecodeInv` |

**Channel.** `handleData` accepts a packet because the sender had credit, which
depends on every message on both wires. `FlowInv` therefore describes the wires
message by message: each is a *chain* in which every message starts where the
one before it ended, from what the receiver has processed (`Start`) to what the
sender has announced. With `Credit` (the sender's credit is the window plus
what was granted, less what was sent or held) the head of the data wire is
within `myWindow`, and the head of the control wire cannot wrap `win`. No sum
over a sequence is needed. `StrayInv` adds what the Close handshake guarantees:
behind a Close of the reading end there is nothing on the control wire, behind
one of the writing end only data beyond `mark`, and a channel is removed only
after its own Close.

**Stream.** The refinement maps `ChannelFlow` to `ByteStream`; the initial
states map to initial states, and each action to a step or a stutter.
`StreamInv` adds to `StrayInv` that the buffer continues what Read has returned
(`PendingRun`), that EOF and Close stand at the end of the stream
(`EndsAtMark`), that data beyond the end is behind a Close, which the reader
never passes (`LateBehindClose`), and that the reader has everything up to the
end when it is told of the end (`HandedOver`).

**Session.** A message carries an id, and the id of a channel that has gone is
given to the next one. `Routed` holds because a slot is freed only by the
removal of its channel, and a channel is removed only when its partner can send
nothing on time any more. `RouteInv` says this for each call of Open by itself
(`Pair`): the call is in one stage of its handshake (`Stages`); the accepted
channel is in nobody's hands before it is in the inbox (`InUse`); each end knows
or is being told the other's id (`Ids`); the OpenConfirm comes before what is
sent after it (`Opened`, `Confirmed`); a channel is removed after its partner's
Close (`Closes`) and is listed under its id until then (`Lists`); so what is on
the wires finds its channel (`Reach`). `Form` says what may follow what on a
wire. All of it ends with the early-close race, hence `Early \/ RouteInv`.
`OnlyRacesKill` follows at the step that handles a message: the loop returns an
error for a message without channel or at the wrong stage, and `RouteInv`
excludes both. `FirstFreeFacts` and `AddChanFacts` are the lemmas about
`chanList`; the least free slot exists because `<` on the naturals is well
founded.

**Muxer.** `VhostInv` adds that a connection has no owner before the hand-over
(`Progress`), and that a listener keeps the name it was found under, which
matches the host (`Found`, `Named`, `LookupFinds`).

**Server.** A slot that is given back has to be one that was taken from the same
entry. This needs that a request changes neither its entry nor its subscription
while its loop serves (`Entries`), and that a visitor is with one loop or one
`JoinEncrypted`, below the request whose listener accepted it (`Visitors`). The
sets of requests and visitors may be infinite: the counts are of the loops and
joins that have started, and those are finitely many (`FinitelyMany`).
`TunnelImplementsVhost` shows that the server uses the muxer only in the ways
`Vhost` allows, so what is proved of `Vhost` holds below `Tunnel`.

**Join.** `Continues` says that what a reader offers continues what its writer
holds, and this what has been written, without a gap. `Filled` is the heart: a
cell that a Read has filled still has its byte, or the other reader has stored
one of *its* bytes there, in a race. A packet with a foreign byte is not
accepted (`AcceptedIsRead`), and the one that was accepted is still there to be
decrypted unless it was torn; so `UplinkAuthentic` survives every race but that
one, and the other direction, which has no such check, none (`Clean`).

**NetListener.** `Account` is a count of programs in three sets; each step moves
one program into or out of one of them.

**sharedConn.** `Kept`: what has been served and what is buffered are together
what was read, up to `pos`. `Place`: the owner reads only after a host was
found, and the stream itself only when the buffer is empty.

**Induction and recursive functions.** The library states induction over the
naturals for an operator, which the provers cannot instantiate. For a *set* it
follows from the fact that `<` is well founded: a set of naturals that holds 0
and the successor of each member holds all (`Induction`, from `WFMin`). This
reaches the functions that the model defines by calling themselves.
`TailRecursion` shows that a function exists whose value is that of a smaller
argument, unless a set of ends holds the argument; `RoomFunction` and
`TlsUnfolds` apply it to `block.reserve` and to the reading of records,
`EncodingConcats` is the same for packets one after the other. Before that
nothing could be said of the value of such a definition.

**Blocks.** `Room` is at least what is asked for, and grows with it
(`RoomFacts`); so a block that is read for a header or for an accepted record
stays within the room of the longest record, although a new block begins with
what was left over of the last. `TypeInv` adds that the buffer holds what its
place says, and that what was decoded is a message whose `Data`, filled or not,
has its `Length`.

**TLS and HTTP.** The block that is being filled begins at some place `st` of
the stream, and the whole stream means what the bytes from `st` on mean after
the handshake bytes in `hand` (`Muxed`). A segment lengthens the block and
leaves both alone; a record that settles nothing moves `st` behind it, which is
one step of `TlsReading`, and what `splitBlock` leaves over is the beginning of
the rest (`RestOfBlock`). At the end of the stream the block is the rest, and
its reading says `eof`.

**Codec and Decoder.** `MarshalFacts` says what stands where in a packet: the
type, two bytes for each field in the order of the layout, the data. `RoundTrip`
concludes that `Unmarshal` of `Marshal` is the message, for every message of
every layout and every value of its fields. `At(ms, k)` places a Decoder that
has returned `k` messages: at the end of the `k`-th packet, behind the type of
the next one, or before its data with the first five bytes in its buffer.
Packets are found in the stream by `PacketExists`; a full Read within one is a
part of it (`SegmentOfPacket`), and all of one decodes to its message. Where
`readPacket` stops, a packet ends, because the number of bytes it asks for is
the `Length` that was encoded (`LengthOf`). A short Read breaks this, which is
why `DecodedExact` ends there (section 4).

**Only model-checked.**

* All liveness properties (`WriterProgress`, `StreamDelivered`, `OpenReturns`,
  `CloseCompletes`, `WaitReturns`, `OneAcceptUnblocked`, `ConnSettled`,
  `TunnelReleased`, `JoinReturns`, `GoroutinesEnd`, `DownlinkDelivered`,
  `BlockedReleased`, `CloseReturns`, `ServeEnds`): fairness and ENABLED are
  beyond the prover.
* The four refuted properties of section 4.

Every invariant and every action property of the passing runs, the refinements
included, is stated by a theorem. Recursion in `Codec`, `Hello` and `Framing` is
written with recursive functions, so that `FramingProofs` can extend them.
`OutcomeExact` takes `ServerName` of a complete hello as it is: the theorem says
that the reader applies it to the right bytes, the run compares its results with
host names written by hand.

## 6. Not modelled

* `HandleErrors` of the two muxers and `TLSMuxer.Listen`: the server uses none
  of them.
* Time: a deadline is an end that may come at any moment. The reset of the
  muxer's deadline after the hand-over (mux.go:133) can erase the 60 minutes of
  server.go:210, which needs clocks to state.
* The fields of a ClientHello that the muxer does not use, and the block size
  policy beyond its doubling.
* Dialling functions and `IOListener`, which make a session of a connection and
  keep no state.
* AES-GCM (accepts only what was sealed, decrypts what it then finds), `http.ReadRequest`, the back end.
* Letters of host names, log messages, `String` methods, configuration, the
  reader of `config.json`.

## 7. Plan

1. Two writers and two readers of one channel in `ChannelFlow`.
2. `Join` above two instances of `ByteStream` in place of its own peers.
3. A specification of the ClientHello's grammar, to prove `ServerName` against.

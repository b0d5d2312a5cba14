-------------------------------- MODULE Tunnel --------------------------------
(***************************************************************************)
(* The server (server.go) above the muxer of Vhost: the HTTP handler of    *)
(* ConnectionManager, which turns a client's request into a tunnel, and    *)
(* handleConnections, which serves the tunnel's visitors within the limit  *)
(* of the client's subscription.                                           *)
(*                                                                         *)
(* An owner of Vhost is one request here: its Listener is the tunnel's     *)
(* public listener, and a *ClientConnection is named after the request     *)
(* that made it.  A connection of Vhost is a visitor.  The session below a *)
(* tunnel (module Session) is up or ended; the back end that signs users   *)
(* in and counts their visits is external, and answers, fails or is silent.*)
(***************************************************************************)
EXTENDS Vhost

CONSTANTS
    Addrs,         \* values of request.RemoteAddr
    Subs,          \* subscription types that the back end may name
    Limit,         \* connectionLimits; 0 for a type it does not list
    FatalErrors,   \* whether a call whose error ends the process may return one
    MayRefuse      \* whether a client may refuse an Open

ASSUME TunnelAssumption ==
    /\ None \notin Subs \cup Addrs \cup Conns
    /\ Limit \in [Subs -> Nat]
    /\ FatalErrors \in BOOLEAN /\ MayRefuse \in BOOLEAN

VARIABLES
    hpc,          \* where the handler of each request is
    addr,         \* its RemoteAddr
    sub,          \* its subscription
    connections,  \* activeConnections.connections
    clientConn,   \* the *ClientConnection that each request uses
    active,       \* ClientConnection.active
    sess,         \* the session of each request: none, up, ended
    gpc,          \* where handleConnections of each request is
    holding,      \* the visitor it has accepted and not yet joined
    joins,        \* the visitors with a running JoinEncrypted
    crashed       \* whether log.Fatal has ended the process

handlerVars == <<hpc, addr, sub, connections, clientConn, sess>>
serveVars == <<active, gpc, holding, joins>>
vars == <<vhostVars, handlerVars, serveVars, crashed>>

Init ==
    /\ VhostInit
    /\ hpc = [h \in Owners |-> "idle"]
    /\ addr = [h \in Owners |-> None] /\ sub = [h \in Owners |-> None]
    /\ connections = [a \in Addrs |-> None]
    /\ clientConn = [h \in Owners |-> None]
    /\ active = [h \in Owners |-> 0]
    /\ sess = [h \in Owners |-> "none"]
    /\ gpc = [h \in Owners |-> "none"]
    /\ holding = [h \in Owners |-> None]
    /\ joins = {}
    /\ crashed = FALSE

Goto(h, pc) == hpc' = [hpc EXCEPT ![h] = pc]
-----------------------------------------------------------------------------
(* A request comes from an address no other connection has: the earlier    *)
(* requests from it are answered, or their transport is closed already.    *)
(* Without credentials the answer is an error.                             *)
Request(h, a) ==
    /\ ~crashed
    /\ hpc[h] = "idle"
    /\ \A k \in Owners : addr[k] = a => hpc[k] = "done" \/ sess[k] = "ended"
    /\ addr' = [addr EXCEPT ![h] = a]
    /\ Goto(h, "signin") \/ Goto(h, "done")
    /\ UNCHANGED <<vhostVars, sub, connections, clientConn, sess, serveVars, crashed>>

(* auth.SignInAndGetSubscriptionType; an error is answered. *)
SignIn(h) ==
    /\ ~crashed
    /\ hpc[h] = "signin"
    /\ \/ \E s \in Subs : sub' = [sub EXCEPT ![h] = s] /\ Goto(h, "entry")
       \/ Goto(h, "done") /\ UNCHANGED sub
    /\ UNCHANGED <<vhostVars, addr, connections, clientConn, sess, serveVars, crashed>>

(* The entry of the address is made when there is none, with a limiter for *)
(* the subscription of the request that makes it.                          *)
GetEntry(h) ==
    /\ ~crashed
    /\ hpc[h] = "entry"
    /\ LET new == connections[addr[h]] = None
           k == IF new THEN h ELSE connections[addr[h]]
       IN  /\ connections' = [connections EXCEPT ![addr[h]] = k]
           /\ clientConn' = [clientConn EXCEPT ![h] = k]
    /\ Goto(h, "listen")
    /\ UNCHANGED <<vhostVars, addr, sub, sess, serveVars, crashed>>

(* NewSubdomain and vmux.Listen.  When the name is bound the handler       *)
(* answers an error and leaves the entry behind.                           *)
ListenPublic(h) ==
    /\ ~crashed
    /\ hpc[h] = "listen"
    /\ \E n \in Hosts :
          \/ Listen(h, n) /\ Goto(h, "details")
          \/ registry[n] # None /\ Goto(h, "done") /\ UNCHANGED vhostVars
    /\ UNCHANGED <<addr, sub, connections, clientConn, sess, serveVars, crashed>>

(* auth.AddUserUrlDetails; an error ends the process. *)
AddDetails(h) ==
    /\ ~crashed
    /\ hpc[h] = "details"
    /\ \/ Goto(h, "keys") /\ UNCHANGED crashed
       \/ FatalErrors /\ crashed' = TRUE /\ UNCHANGED hpc
    /\ UNCHANGED <<vhostVars, addr, sub, connections, clientConn, sess, serveVars>>

(* The key exchange: a client key that is missing or invalid makes the     *)
(* handler return, which closes the listener and leaves the entry.  With a *)
(* good one the connection is hijacked, the session is made, and           *)
(* handleConnections starts.  An error in making the keys or the cipher,   *)
(* or in hijacking, ends the process.                                      *)
KeyExchange(h) ==
    /\ ~crashed
    /\ hpc[h] = "keys"
    /\ \/ /\ sess' = [sess EXCEPT ![h] = "up"]
          /\ gpc' = [gpc EXCEPT ![h] = "limit"]
          /\ Goto(h, "wait") /\ UNCHANGED crashed
       \/ Goto(h, "close") /\ UNCHANGED <<sess, gpc, crashed>>
       \/ FatalErrors /\ crashed' = TRUE /\ UNCHANGED <<hpc, sess, gpc>>
    /\ UNCHANGED <<vhostVars, addr, sub, connections, clientConn, active, holding, joins>>

(* The session ends: the client went, the deadline passed, a packet was    *)
(* bad.                                                                    *)
SessionEnds(h) ==
    /\ ~crashed
    /\ sess[h] = "up"
    /\ sess' = [sess EXCEPT ![h] = "ended"]
    /\ UNCHANGED <<vhostVars, hpc, addr, sub, connections, clientConn, serveVars, crashed>>

(* sess.Wait returns. *)
WaitReturns(h) ==
    /\ ~crashed
    /\ hpc[h] = "wait"
    /\ sess[h] = "ended"
    /\ Goto(h, "delete")
    /\ UNCHANGED <<vhostVars, addr, sub, connections, clientConn, sess, serveVars, crashed>>

(* The entry of the address is deleted, whichever request made it.         *)
(* Mutant: it is not.                                                      *)
EntryKept(a) == connections[a]
EntryDeleted(a) == None

DeleteEntry(h) ==
    /\ ~crashed
    /\ hpc[h] = "delete"
    /\ connections' = [connections EXCEPT ![addr[h]] = EntryDeleted(addr[h])]
    /\ Goto(h, "close")
    /\ UNCHANGED <<vhostVars, addr, sub, clientConn, sess, serveVars, crashed>>

(* The deferred sess.Close finds the transport closed; pl.Close follows. *)
ClosePublic(h) ==
    /\ ~crashed
    /\ hpc[h] = "close"
    /\ \/ CloseDel(h) /\ UNCHANGED hpc
       \/ CloseAccept(h) /\ Goto(h, "done")
    /\ UNCHANGED <<addr, sub, connections, clientConn, sess, serveVars, crashed>>
-----------------------------------------------------------------------------
(* handleConnections.  Release gives the slot of an iteration back to the  *)
(* entry it was taken from.  Mutants: to the one that the address has now, *)
(* and not at all.                                                         *)
Serve(h, pc) == gpc' = [gpc EXCEPT ![h] = pc]

EntryNow(h) == connections[addr[h]]
Entry(h) == clientConn[h]

ReleaseLost(h) == UNCHANGED active
Release(h) == active' = [active EXCEPT ![Entry(h)] = @ - 1]

(* An iteration takes its slot first; at the limit the loop ends.  Mutant: *)
(* the limit is overshot by one.                                           *)
AtLimitOff(h) == active[clientConn[h]] > Limit[sub[h]]
AtLimit(h) == active[clientConn[h]] >= Limit[sub[h]]

CheckLimit(h) ==
    /\ ~crashed
    /\ gpc[h] = "limit"
    /\ IF AtLimit(h)
       THEN Serve(h, "drain") /\ UNCHANGED active
       ELSE Serve(h, "increment") /\ active' = [active EXCEPT ![clientConn[h]] = @ + 1]
    /\ UNCHANGED <<vhostVars, handlerVars, holding, joins, crashed>>

(* auth.SendIncrementRequest; an error ends the process. *)
Increment(h) ==
    /\ ~crashed
    /\ gpc[h] = "increment"
    /\ \/ Serve(h, "rate") /\ UNCHANGED crashed
       \/ FatalErrors /\ crashed' = TRUE /\ UNCHANGED gpc
    /\ UNCHANGED <<vhostVars, handlerVars, active, holding, joins>>

(* limiter.Wait: it fails at once when the limiter's burst is zero, and    *)
(* else returns in time.                                                   *)
RateWait(h) ==
    /\ ~crashed
    /\ gpc[h] = "rate"
    /\ IF Limit[sub[clientConn[h]]] > 0
       THEN Serve(h, "accept") /\ UNCHANGED active
       ELSE Serve(h, "drain") /\ Release(h)
    /\ UNCHANGED <<vhostVars, handlerVars, holding, joins, crashed>>

(* pl.Accept: a visitor, or the error of a closed listener. *)
AcceptVisitor(h) ==
    /\ ~crashed
    /\ gpc[h] = "accept"
    /\ \/ \E v \in Conns : /\ Accept(h, v)
                           /\ holding' = [holding EXCEPT ![h] = v]
                           /\ Serve(h, "open") /\ UNCHANGED active
       \/ /\ lstate[h] = "shut"
          /\ Serve(h, "drain") /\ Release(h)
          /\ UNCHANGED <<vhostVars, holding>>
    /\ UNCHANGED <<handlerVars, joins, crashed>>

(* sess.Open: JoinEncrypted starts and takes over the slot, or the visitor *)
(* is closed and the loop ends.                                            *)
OpenChannel(h) ==
    /\ ~crashed
    /\ gpc[h] = "open"
    /\ \/ /\ joins' = joins \cup {holding[h]}
          /\ Serve(h, "limit")
          /\ UNCHANGED <<vhostVars, active>>
       \/ /\ MayRefuse \/ sess[h] = "ended"
          /\ CloseConn(holding[h])
          /\ Serve(h, "drain") /\ Release(h)
          /\ UNCHANGED joins
    /\ holding' = [holding EXCEPT ![h] = None]
    /\ UNCHANGED <<handlerVars, crashed>>

(* JoinEncrypted returns: after an error of ch.Write the visitor's         *)
(* connection stays open, in all other cases it is closed.                 *)
JoinEnds(v) ==
    /\ ~crashed
    /\ v \in joins
    /\ joins' = joins \ {v}
    /\ Release(taken[v])
    /\ CloseConn(v) \/ UNCHANGED vhostVars
    /\ UNCHANGED <<handlerVars, gpc, holding, crashed>>

(* wg.Wait. *)
Drain(h) ==
    /\ ~crashed
    /\ gpc[h] = "drain"
    /\ \A v \in joins : taken[v] # h
    /\ Serve(h, "done")
    /\ UNCHANGED <<vhostVars, handlerVars, active, holding, joins, crashed>>
-----------------------------------------------------------------------------
(* A step of the muxer, which leaves the server alone. *)
Apart == ~crashed /\ UNCHANGED <<handlerVars, serveVars, crashed>>
Muxer == MuxerStep /\ Apart

Handler(h) == \/ GetEntry(h) \/ ListenPublic(h) \/ KeyExchange(h)
              \/ WaitReturns(h) \/ DeleteEntry(h) \/ ClosePublic(h)

Loop(h) == \/ CheckLimit(h) \/ Increment(h) \/ RateWait(h)
           \/ AcceptVisitor(h) \/ OpenChannel(h) \/ Drain(h)

Next ==
    \/ Muxer
    \/ \E h \in Owners : \/ \E a \in Addrs : Request(h, a)
                         \/ SignIn(h) \/ AddDetails(h)
                         \/ Handler(h) \/ Loop(h) \/ SessionEnds(h)
    \/ \E v \in Conns : JoinEnds(v)

Spec == Init /\ [][Next]_vars

(* What the server does by itself happens: the steps of a handler and of   *)
(* the muxer's goroutines.  Nothing is assumed of clients, visitors or the *)
(* back end.                                                               *)
LocalFairness ==
    /\ \A h \in Owners : WF_vars(Handler(h))
    /\ \A c \in Conns : WF_vars(Handle(c) /\ Apart)

(* The best the surroundings can do: the back end answers, an Open         *)
(* returns, and visitors go again.                                         *)
FullFairness ==
    /\ LocalFairness
    /\ \A h \in Owners : WF_vars(Loop(h))
    /\ \A v \in Conns : WF_vars(JoinEnds(v))

LocalSpec == Spec /\ LocalFairness
FullSpec == Spec /\ FullFairness
-----------------------------------------------------------------------------
(* The values of the state; active never drops below zero. *)
TunnelTypeOK ==
    /\ VhostTypeOK
    /\ hpc \in [Owners -> {"idle", "signin", "entry", "listen", "details", "keys",
                           "wait", "delete", "close", "done"}]
    /\ addr \in [Owners -> Addrs \cup {None}]
    /\ sub \in [Owners -> Subs \cup {None}]
    /\ connections \in [Addrs -> Owners \cup {None}]
    /\ clientConn \in [Owners -> Owners \cup {None}]
    /\ active \in [Owners -> Nat]
    /\ sess \in [Owners -> {"none", "up", "ended"}]
    /\ gpc \in [Owners -> {"none", "limit", "increment", "rate", "accept", "open",
                           "drain", "done"}]
    /\ holding \in [Owners -> Conns \cup {None}]
    /\ joins \subseteq Conns
    /\ crashed \in BOOLEAN

(* The iterations of request h's loop that hold a slot: one or none. *)
Slot(h) == gpc[h] \in {"increment", "rate", "accept", "open"}
Joins(h) == {v \in joins : taken[v] = h}

(* ClientConnection.active counts the slots exactly: one for each loop     *)
(* that uses the entry and holds one, and one for each JoinEncrypted below *)
(* those loops, through every error path, and also when a reconnection     *)
(* shares the entry or its map slot was deleted under it.                  *)
SlotsAccounted ==
    \A k \in Owners :
        active[k] = Cardinality({h \in Owners : clientConn[h] = k /\ Slot(h)})
                      + Cardinality({v \in joins : clientConn[taken[v]] = k})

(* A tunnel never serves more visitors at once than its own subscription   *)
(* allows, the one its loop is waiting for included.                       *)
WithinLimit ==
    \A h \in Owners : gpc[h] # "none" =>
        Cardinality(Joins(h)) + (IF Slot(h) THEN 1 ELSE 0) <= Limit[sub[h]]

(* When the session of a tunnel has ended, its public name is unbound, its *)
(* listener is shut and its address no longer leads to its entry, whatever *)
(* its loop, its visitors and its client's next request do.                *)
TunnelReleased ==
    \A h \in Owners :
        sess[h] = "ended" ~> \/ crashed
                             \/ /\ lstate[h] = "shut"
                                /\ connections[addr[h]] # clientConn[h]

(* ReadMe.MD:8, "effective management of active sessions to ensure service *)
(* continuity": a visitor of a tunnel whose session stays up is served or  *)
(* turned away, once earlier visitors have gone.                           *)
VisitorServed ==
    \A v \in Conns :
        cpc[v] = "send" ~> cpc[v] # "send" \/ sess[target[v]] # "up"
=============================================================================

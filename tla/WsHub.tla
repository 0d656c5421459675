------------------------------- MODULE WsHub -------------------------------
(***************************************************************************)
(* The two WebSocket hubs: modules/events, whose subscribers have a mutex  *)
(* for their writes and a ping, and modules/telemetry, which has neither.  *)
(* They share nothing: a behaviour is about one of the two, and variable   *)
(* typed says which.                                                       *)
(*                                                                         *)
(* hub.mu is a sync.RWMutex: publishers hold it for reading over the whole *)
(* iteration, writes to clients included, and a waiting Lock keeps new     *)
(* RLocks out.  A connection is used once: its id never comes back.        *)
(*                                                                         *)
(* Two goroutines in WriteMessage on one connection race on its buffer and *)
(* its state.  From then on a write to it may still succeed, return though *)
(* nothing useful was written, fail, or panic (gorilla's check for         *)
(* concurrent writes is best effort, and inside the write).  net/http      *)
(* recovers the panic of a request; in the goroutine of an MQTT client     *)
(* nothing does, the process ends and with it the behaviour.               *)
(***************************************************************************)

CONSTANTS
  Conns,      \* WebSocket connections
  Publishers, \* goroutines in Publish (events) or Broadcast (telemetry)
  Free,       \* a mutex is not held
  Hubs        \* which hubs: TRUE for modules/events, FALSE for modules/telemetry

ASSUME HubAssumption ==
  /\ Free \notin Conns \union Publishers
  /\ Conns \intersect Publishers = {}
  /\ Conns \intersect {"idle", "wait", "next"} = {}
  /\ Hubs \in (SUBSET BOOLEAN) \ {{}}

VARIABLES
  typed,    \* the hub is the one of modules/events; never changes
  subs,     \* keys of Hub.subs, of Hub.clients
  wants,    \* connections whose filter accepts the type that is published
  net,      \* the client's end of each connection
  closed,   \* connections the server has closed
  handler,  \* where handleWS and the goroutine it starts are
  tick,     \* the 30 s ticker of the connection has fired
  remover,  \* `go h.Unsubscribe(conn)` is waiting for the lock
  mu,       \* the holder of subscriber.mu
  pub,      \* the Publish calls
  stopped,  \* Module.stopCh is closed
  raced     \* connections at which two writes have met

hubVars ==
  <<typed, subs, wants, net, closed, handler, tick, remover, mu, pub, stopped, raced>>

Idle == [pc |-> "idle", todo |-> {}, owed |-> {}]

Reading(p) == pub[p].pc \notin {"idle", "wait"}

\* A goroutine is in Lock: Subscribe, Unsubscribe after the session's end, or
\* the Unsubscribe a failing write started.
LockWaits ==
  \/ \E c \in Conns : handler[c] \in {"subscribe", "leave"}
  \/ \E c \in Conns : remover[c]

\* The map is changed under hub.mu, which no publisher holds.
Exclusive == \A p \in Publishers : ~Reading(p)

Alive(c) == handler[c] \notin {"none", "subscribe", "gone"}

Handler(c, from, to) ==
  /\ handler[c] = from
  /\ handler' = [handler EXCEPT ![c] = to]

(***************************************************************************)
(* handleWS and its goroutine                                              *)
(***************************************************************************)
Connect(c, accepts) ==
  /\ Handler(c, "none", "subscribe")
  /\ net' = [net EXCEPT ![c] = "up"]
  /\ wants' = IF accepts THEN wants \union {c} ELSE wants
  /\ UNCHANGED <<typed, subs, closed, tick, remover, mu, pub, stopped, raced>>

Subscribe(c) ==
  /\ Exclusive
  /\ Handler(c, "subscribe", IF typed THEN "select" ELSE "read")
  /\ subs' = subs \union {c}
  /\ UNCHANGED <<typed, wants, net, closed, tick, remover, mu, pub, stopped, raced>>

Fire(c) ==
  /\ typed /\ Alive(c)
  /\ tick' = [tick EXCEPT ![c] = TRUE]
  /\ UNCHANGED <<typed, subs, wants, net, closed, handler, remover, mu, pub, stopped, raced>>

SelectTick(c) ==
  /\ tick[c]
  /\ Handler(c, "select", "ping")
  /\ tick' = [tick EXCEPT ![c] = FALSE]
  /\ UNCHANGED <<typed, subs, wants, net, closed, remover, mu, pub, stopped, raced>>

SelectStop(c) ==
  /\ stopped
  /\ Handler(c, "select", "leave")
  /\ UNCHANGED <<typed, subs, wants, net, closed, tick, remover, mu, pub, stopped, raced>>

SelectDefault(c) ==                \* ReadMessage
  /\ ~tick[c] /\ ~stopped
  /\ Handler(c, "select", "read")
  /\ UNCHANGED <<typed, subs, wants, net, closed, tick, remover, mu, pub, stopped, raced>>

\* Mutant: the ping is written without subscriber.mu.
MutPing(c) ==
  /\ Handler(c, "ping", "pinging")
  /\ UNCHANGED <<typed, subs, wants, net, closed, tick, remover, mu, pub, stopped, raced>>

Ping(c) ==
  /\ mu[c] = Free
  /\ mu' = [mu EXCEPT ![c] = c]
  /\ Handler(c, "ping", "pinging")
  /\ UNCHANGED <<typed, subs, wants, net, closed, tick, remover, pub, stopped, raced>>

Pinged(c) ==
  /\ c \notin closed
  /\ Handler(c, "pinging", "select")
  /\ mu' = [mu EXCEPT ![c] = Free]
  /\ UNCHANGED <<typed, subs, wants, net, closed, tick, remover, pub, stopped, raced>>

PingFails(c) ==
  /\ net[c] = "down" \/ c \in closed
  /\ Handler(c, "pinging", "leave")
  /\ mu' = [mu EXCEPT ![c] = Free]
  /\ UNCHANGED <<typed, subs, wants, net, closed, tick, remover, pub, stopped, raced>>

Message(c) ==                      \* whatever the client sends is dropped
  /\ net[c] = "up" /\ c \notin closed
  /\ Handler(c, "read", IF typed THEN "select" ELSE "read")
  /\ UNCHANGED <<typed, subs, wants, net, closed, tick, remover, mu, pub, stopped, raced>>

\* Mutant: the read loop goes on after an error.
MutReadFails(c) ==
  /\ net[c] = "down" \/ c \in closed
  /\ Handler(c, "read", "select")
  /\ UNCHANGED <<typed, subs, wants, net, closed, tick, remover, mu, pub, stopped, raced>>

ReadFails(c) ==
  /\ net[c] = "down" \/ c \in closed
  /\ Handler(c, "read", "leave")
  /\ UNCHANGED <<typed, subs, wants, net, closed, tick, remover, mu, pub, stopped, raced>>

\* Mutant: the session ends without Unsubscribe.
MutUnsubscribe(c) ==
  /\ Exclusive
  /\ Handler(c, "leave", "gone")
  /\ closed' = closed \union {c}
  /\ UNCHANGED <<typed, subs, wants, net, tick, remover, mu, pub, stopped, raced>>

Unsubscribe(c) ==                  \* and conn.Close
  /\ Exclusive
  /\ Handler(c, "leave", "gone")
  /\ subs' = subs \ {c}
  /\ closed' = closed \union {c}
  /\ UNCHANGED <<typed, wants, net, tick, remover, mu, pub, stopped, raced>>

(***************************************************************************)
(* Publish, Broadcast                                                      *)
(***************************************************************************)
Publish(p) ==
  /\ pub[p].pc = "idle"
  /\ pub' = [pub EXCEPT ![p] = [Idle EXCEPT !.pc = "wait"]]
  /\ UNCHANGED <<typed, subs, wants, net, closed, handler, tick, remover, mu, stopped, raced>>

RLock(p) ==
  /\ pub[p].pc = "wait"
  /\ ~LockWaits
  /\ LET targets == IF typed THEN subs \intersect wants ELSE subs
     IN  pub' = [pub EXCEPT ![p] =
                   [pc |-> "next", todo |-> targets, owed |-> targets]]
  /\ UNCHANGED <<typed, subs, wants, net, closed, handler, tick, remover, mu, stopped, raced>>

Writers(c) ==
  {p \in Publishers : pub[p].pc = c}
    \union (IF handler[c] = "pinging" THEN {c} ELSE {})

\* In WriteMessage to c the publisher's pc is c.
Send(p, c) ==
  /\ pub[p].pc = "next" /\ c \in pub[p].todo
  /\ IF typed THEN mu[c] = Free /\ mu' = [mu EXCEPT ![c] = p] ELSE mu' = mu
  /\ raced' = IF Writers(c) = {} THEN raced ELSE raced \union {c}
  /\ pub' = [pub EXCEPT ![p].pc = c, ![p].todo = @ \ {c}]
  /\ UNCHANGED <<typed, subs, wants, net, closed, handler, tick, remover, stopped>>

Unlocked(p, c) ==
  mu' = IF mu[c] = p THEN [mu EXCEPT ![c] = Free] ELSE mu

\* The panic ends the call: RUnlock, and s.mu.Unlock in events, are deferred.
Panic(p, c) ==
  /\ pub[p].pc = c /\ c \in raced
  /\ pub' = [pub EXCEPT ![p] = Idle]
  /\ Unlocked(p, c)
  /\ UNCHANGED <<typed, subs, wants, net, closed, handler, tick, remover, stopped, raced>>

\* No error, though another write has spoilt the frame.
Garbled(p, c) ==
  /\ pub[p].pc = c /\ c \in raced
  /\ pub' = [pub EXCEPT ![p].pc = "next"]
  /\ Unlocked(p, c)
  /\ UNCHANGED <<typed, subs, wants, net, closed, handler, tick, remover, stopped, raced>>

\* The data is with the network, whether or not the client still is.
Sent(p, c) ==
  /\ pub[p].pc = c /\ c \notin closed
  /\ pub' = [pub EXCEPT ![p].pc = "next", ![p].owed = @ \ {c}]
  /\ Unlocked(p, c)
  /\ UNCHANGED <<typed, subs, wants, net, closed, handler, tick, remover, stopped, raced>>

\* Mutant: a failing write ends the whole broadcast.
MutSendReturns(p, c) ==
  /\ pub[p].pc = c
  /\ net[c] = "down" \/ c \in closed \/ c \in raced
  /\ pub' = [pub EXCEPT ![p].pc = "next", ![p].todo = {}]
  /\ closed' = closed \union {c}
  /\ remover' = [remover EXCEPT ![c] = TRUE]
  /\ Unlocked(p, c)
  /\ UNCHANGED <<typed, subs, wants, net, handler, tick, stopped, raced>>

\* Mutant: a failing write keeps subscriber.mu.
MutSendKeepsLock(p, c) ==
  /\ pub[p].pc = c
  /\ net[c] = "down" \/ c \in closed \/ c \in raced
  /\ pub' = [pub EXCEPT ![p].pc = "next"]
  /\ closed' = closed \union {c}
  /\ remover' = [remover EXCEPT ![c] = TRUE]
  /\ UNCHANGED <<typed, subs, wants, net, handler, tick, mu, stopped, raced>>

SendFails(p, c) ==
  /\ pub[p].pc = c
  /\ net[c] = "down" \/ c \in closed \/ c \in raced
  /\ pub' = [pub EXCEPT ![p].pc = "next"]
  /\ closed' = closed \union {c}
  /\ remover' = [remover EXCEPT ![c] = TRUE]
  /\ Unlocked(p, c)
  /\ UNCHANGED <<typed, subs, wants, net, handler, tick, stopped, raced>>

RUnlock(p) ==
  /\ pub[p].pc = "next" /\ pub[p].todo = {}
  /\ pub' = [pub EXCEPT ![p] = Idle]
  /\ UNCHANGED <<typed, subs, wants, net, closed, handler, tick, remover, mu, stopped, raced>>

RemoveBroken(c) ==
  /\ remover[c] /\ Exclusive
  /\ subs' = subs \ {c}
  /\ remover' = [remover EXCEPT ![c] = FALSE]
  /\ UNCHANGED <<typed, wants, net, closed, handler, tick, mu, pub, stopped, raced>>

(***************************************************************************)
(* The environment                                                         *)
(***************************************************************************)
HangUp(c) ==
  /\ net[c] = "up"
  /\ net' = [net EXCEPT ![c] = "down"]
  /\ UNCHANGED <<typed, subs, wants, closed, handler, tick, remover, mu, pub, stopped, raced>>

Stop ==                            \* Module.Stop, once
  /\ ~stopped
  /\ stopped' = TRUE
  /\ UNCHANGED <<typed, subs, wants, net, closed, handler, tick, remover, mu, pub, raced>>

HubInit ==
  /\ typed \in Hubs
  /\ subs = {} /\ wants = {} /\ closed = {}
  /\ net = [c \in Conns |-> "new"]
  /\ handler = [c \in Conns |-> "none"]
  /\ tick = [c \in Conns |-> FALSE]
  /\ remover = [c \in Conns |-> FALSE]
  /\ mu = [c \in Conns |-> Free]
  /\ pub = [p \in Publishers |-> Idle]
  /\ stopped = FALSE /\ raced = {}

\* What the goroutine of a session waits for a mutex to do, and what it just does.
Locks(c) == Subscribe(c) \/ Ping(c) \/ Unsubscribe(c)

Runs(c) ==
  \/ SelectTick(c) \/ SelectStop(c) \/ SelectDefault(c)
  \/ Pinged(c) \/ PingFails(c) \/ ReadFails(c)

Environment(c) ==
  \/ \E accepts \in BOOLEAN : Connect(c, accepts)
  \/ Fire(c) \/ Message(c) \/ HangUp(c)

PubLocks(p) == RLock(p) \/ \E c \in Conns : Send(p, c)

WriteEnds(p, c) == Sent(p, c) \/ SendFails(p, c) \/ Garbled(p, c) \/ Panic(p, c)

PubRuns(p) == RUnlock(p) \/ \E c \in Conns : WriteEnds(p, c)

HubNext ==
  \/ \E c \in Conns : Locks(c) \/ Runs(c) \/ RemoveBroken(c) \/ Environment(c)
  \/ \E p \in Publishers : Publish(p) \/ PubLocks(p) \/ PubRuns(p)
  \/ Stop

HubSpec == HubInit /\ [][HubNext]_hubVars

\* Goroutines run and mutexes do not starve their waiters.  A write ends:
\* clients read what they are sent or their end goes down, and then no ping
\* succeeds for ever.  Nothing makes a client connect, send or hang up.
FairHubSpec ==
  /\ HubSpec
  /\ \A c \in Conns :
       /\ SF_hubVars(Locks(c)) /\ WF_hubVars(Runs(c))
       /\ SF_hubVars(PingFails(c)) /\ SF_hubVars(RemoveBroken(c))
  /\ \A p \in Publishers : SF_hubVars(PubLocks(p)) /\ WF_hubVars(PubRuns(p))
-----------------------------------------------------------------------------
(***************************************************************************)
(* Properties                                                              *)
(***************************************************************************)
HandlerStates == {"none", "subscribe", "select", "read", "ping", "pinging",
                  "leave", "gone"}

HubTypeOK ==
  /\ typed \in Hubs
  /\ subs \subseteq Conns /\ wants \subseteq Conns /\ closed \subseteq Conns
  /\ net \in [Conns -> {"new", "up", "down"}]
  /\ handler \in [Conns -> HandlerStates]
  /\ tick \in [Conns -> BOOLEAN] /\ remover \in [Conns -> BOOLEAN]
  /\ mu \in [Conns -> {Free} \union Conns \union Publishers]
  /\ pub \in [Publishers -> [pc : {"idle", "wait", "next"} \union Conns,
                             todo : SUBSET Conns, owed : SUBSET Conns]]
  /\ stopped \in BOOLEAN /\ raced \subseteq Conns

\* gorilla supports one concurrent writer: on the events hub at most one
\* goroutine is in WriteMessage on a connection, the ping and all publishers
\* counted.  (On the telemetry hub several are: telemetry/module.go:56-60.)
OneWriter == typed => \A c \in Conns : \A v, w \in Writers(c) : v = w

\* A subscriber's mutex is held exactly by who is writing to the connection
\* (events/module.go:89-98, 161-169): no end of a write, however it fails,
\* keeps one, and whoever waits for one waits for a write.  The telemetry hub
\* has none.
HeldByWriter ==
  \A c \in Conns : {mu[c]} \ {Free} = IF typed THEN Writers(c) ELSE {}

\* The map never holds a connection without a session to remove it: a failing
\* write, its asynchronous Unsubscribe and the end of the session may come in
\* any order.
SubscribedAreServed == \A c \in subs : Alive(c)

\* A call that ends has reached every connection that was subscribed (and wants
\* it), except those that broke meanwhile.
Reached(p) ==
  Reading(p) /\ pub'[p].pc = "idle" =>
    \A c \in pub[p].owed : net[c] = "down" \/ c \in closed

\* An event reaches all its subscribers: one that breaks, or a ping that is
\* under way, does not cost the others their event.  Nor does it cost them a
\* reading: a broadcast that misses a connected client has written to one where
\* two writes have met.
EventReachesAll ==
  [][\A p \in Publishers :
       Reached(p) \/ (~typed /\ pub[p].owed \intersect raced # {})]_hubVars

\* A reading reaches all connected clients (Docs/architecture.md:129).  This
\* does not hold: two broadcasts that meet at one connection spoil each other's
\* frames or make gorilla panic (telemetry/module.go:60).
BroadcastReachesAll == [][\A p \in Publishers : Reached(p)]_hubVars

\* Publish returns, however clients come, break and go: no deadlock between
\* hub.mu, the subscribers' mutexes and the removers.
PublishReturns == \A p \in Publishers : pub[p].pc = "wait" ~> pub[p].pc = "idle"

\* A client that hung up is forgotten, and its goroutine ends.
GoneIsForgotten ==
  \A c \in Conns : net[c] = "down" ~> c \notin subs /\ handler[c] = "gone"
-----------------------------------------------------------------------------
(***************************************************************************)
(* The inductive invariant.  On the events hub who writes to a connection  *)
(* holds its mutex, so that no two writes meet; the telemetry hub sends no *)
(* pings.  What a call has ahead of it it owes; what it owes is ahead of   *)
(* it, in the write, broken for good, or spoilt by another write.          *)
(***************************************************************************)
WritersHoldMutex ==
  typed => raced = {} /\ \A c \in Conns : Writers(c) \subseteq {mu[c]}

NoPingUntyped ==
  ~typed => \A c \in Conns : handler[c] \notin {"select", "ping", "pinging"}

NewIsNotUp == \A c \in Conns : handler[c] = "none" => net[c] = "new"

AheadIsOwed ==
  \A p \in Publishers :
    /\ pub[p].todo \subseteq pub[p].owed
    /\ pub[p].pc \in Conns => pub[p].pc \in pub[p].owed \ pub[p].todo

OwedIsAhead ==
  \A p \in Publishers : \A c \in pub[p].owed :
    \/ c \in pub[p].todo \/ pub[p].pc = c
    \/ net[c] = "down" \/ c \in closed \/ c \in raced

HubIInv ==
  /\ HubTypeOK /\ WritersHoldMutex /\ NoPingUntyped
  /\ SubscribedAreServed /\ NewIsNotUp /\ AheadIsOwed /\ OwedIsAhead
=============================================================================

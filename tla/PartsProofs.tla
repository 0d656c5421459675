---------------------------- MODULE PartsProofs ----------------------------
(***************************************************************************)
(* Proofs about the modules WsHub, Backup, Devices and Migrator: four      *)
(* parts of the program that share no state and no definition, so that     *)
(* one module can extend them all.                                         *)
(***************************************************************************)
EXTENDS WsHub, Backup, Devices, Migrator, TLAPS

-----------------------------------------------------------------------------
(***************************************************************************)
(* The hubs                                                                *)
(***************************************************************************)
LEMMA HubStarts == ASSUME HubInit PROVE HubIInv
<1>1. HubTypeOK
  BY DEF HubInit, HubTypeOK, Idle, HandlerStates
<1>2. WritersHoldMutex /\ NoPingUntyped /\ AheadIsOwed
  BY HubAssumption DEF HubInit, WritersHoldMutex, NoPingUntyped,
     AheadIsOwed, Writers, Idle
<1>3. SubscribedAreServed /\ NewIsNotUp /\ OwedIsAhead
  BY DEF HubInit, SubscribedAreServed, NewIsNotUp, OwedIsAhead, Idle
<1> QED BY <1>1, <1>2, <1>3 DEF HubIInv

\* A step of a session between two of its states that are not the write of a
\* ping: it needs no mutex but hub.mu, and subscribes and forgets only itself.
LEMMA SessionStep ==
  ASSUME HubIInv, NEW c \in Conns, NEW from,
         NEW to \in HandlerStates,
         Handler(c, from, to), from # "pinging", to \notin {"none", "pinging"},
         to \in {"select", "ping"} => typed,
         subs' \subseteq subs \union {c},
         c \in subs' => to \notin {"subscribe", "gone"},
         wants' \subseteq Conns,
         closed' \in {closed, closed \union {c}},
         net' = net \/ (from = "none" /\ net' = [net EXCEPT ![c] = "up"]),
         tick' \in [Conns -> BOOLEAN],
         UNCHANGED <<typed, remover, mu, pub, stopped, raced>>
  PROVE  HubIInv'
<1> USE DEF HubIInv
<1>1. /\ handler[c] = from /\ handler'[c] = to
      /\ handler' \in [Conns -> HandlerStates]
      /\ \A x \in Conns \ {c} : handler'[x] = handler[x]
  BY DEF Handler, HubTypeOK
<1>2. HubTypeOK'
  BY <1>1 DEF HubTypeOK
<1>3. \A x \in Conns : Writers(x)' = Writers(x)
  BY <1>1 DEF Writers
<1>4. WritersHoldMutex' /\ AheadIsOwed'
  BY <1>3 DEF WritersHoldMutex, AheadIsOwed
<1>5. NoPingUntyped'
  BY <1>1 DEF NoPingUntyped
<1>6. SubscribedAreServed'
  BY <1>1 DEF SubscribedAreServed, Alive, HubTypeOK
<1>7. NewIsNotUp'
  BY <1>1 DEF NewIsNotUp, HubTypeOK
<1>8. OwedIsAhead'
  BY <1>1 DEF OwedIsAhead, NewIsNotUp, HubTypeOK
<1> QED BY <1>2, <1>4, <1>5, <1>6, <1>7, <1>8

\* The steps of a session that take no mutex of a subscriber.
LEMMA SessionIInv ==
  ASSUME HubIInv, NEW c \in Conns, NEW accepts \in BOOLEAN,
         \/ Connect(c, accepts) \/ Subscribe(c) \/ SelectTick(c) \/ SelectStop(c)
         \/ SelectDefault(c) \/ Message(c) \/ ReadFails(c) \/ Unsubscribe(c)
  PROVE  HubIInv'
<1>0. wants \subseteq Conns /\ tick \in [Conns -> BOOLEAN]
  BY DEF HubIInv, HubTypeOK
<1>1. CASE Connect(c, accepts)
  <2>1. c \notin subs
    BY <1>1 DEF Connect, Handler, HubIInv, SubscribedAreServed, Alive
  <2>2. wants' \subseteq Conns
    BY <1>0, <1>1 DEF Connect
  <2> QED BY <1>0, <1>1, <2>1, <2>2, SessionStep DEF Connect, HandlerStates
<1>2. CASE Subscribe(c)
  BY <1>0, <1>2, SessionStep DEF Subscribe, HandlerStates
<1>3. CASE SelectTick(c)
  <2>1. typed
    BY <1>3 DEF SelectTick, Handler, HubIInv, NoPingUntyped
  <2>2. tick' \in [Conns -> BOOLEAN]
    BY <1>0, <1>3 DEF SelectTick
  <2> QED BY <1>0, <1>3, <2>1, <2>2, SessionStep
      DEF SelectTick, HandlerStates
<1>4. CASE SelectStop(c)
  BY <1>0, <1>4, SessionStep DEF SelectStop, HandlerStates
<1>5. CASE SelectDefault(c)
  BY <1>0, <1>5, SessionStep DEF SelectDefault, HandlerStates
<1>6. CASE Message(c)
  BY <1>0, <1>6, SessionStep DEF Message, HandlerStates
<1>7. CASE ReadFails(c)
  BY <1>0, <1>7, SessionStep DEF ReadFails, HandlerStates
<1>8. CASE Unsubscribe(c)
  BY <1>0, <1>8, SessionStep DEF Unsubscribe, HandlerStates
<1> QED BY <1>1, <1>2, <1>3, <1>4, <1>5, <1>6, <1>7, <1>8

\* A free mutex means that nobody writes on the events hub.
LEMMA FreeMeansNoWriter ==
  ASSUME HubIInv, typed, NEW c \in Conns, mu[c] = Free
  PROVE  Writers(c) = {}
<1>1. Writers(c) \subseteq {Free} /\ Writers(c) \subseteq Conns \union Publishers
  BY DEF HubIInv, WritersHoldMutex, Writers
<1> QED BY <1>1, HubAssumption

\* A ping takes the mutex of its subscriber and gives it back, whether it is
\* written or fails.
LEMMA PingIInv ==
  ASSUME HubIInv, NEW c \in Conns,
         Ping(c) \/ Pinged(c) \/ PingFails(c)
  PROVE  HubIInv'
<1>0. /\ HubTypeOK /\ WritersHoldMutex /\ NoPingUntyped
      /\ SubscribedAreServed /\ NewIsNotUp /\ AheadIsOwed /\ OwedIsAhead
  BY DEF HubIInv
<1>1. typed
  BY <1>0 DEF Ping, Pinged, PingFails, Handler, NoPingUntyped
<1>2. /\ handler[c] \in {"ping", "pinging"}
      /\ handler'[c] \in {"pinging", "select", "leave"}
      /\ handler'[c] = "pinging" => mu[c] = Free /\ mu'[c] = c
      /\ handler'[c] # "pinging" => handler[c] = "pinging" /\ mu'[c] = Free
      /\ handler' \in [Conns -> HandlerStates]
      /\ mu' \in [Conns -> {Free} \union Conns \union Publishers]
      /\ \A x \in Conns \ {c} : handler'[x] = handler[x] /\ mu'[x] = mu[x]
      /\ UNCHANGED <<typed, subs, wants, net, closed, tick, remover, pub,
                     stopped, raced>>
  BY <1>0
     DEF Ping, Pinged, PingFails, Handler, HubTypeOK, HandlerStates
<1>3. HubTypeOK'
  BY <1>0, <1>2 DEF HubTypeOK
<1>4. WritersHoldMutex'
  <2> SUFFICES ASSUME NEW x \in Conns PROVE Writers(x)' \subseteq {mu'[x]}
    BY <1>0, <1>1, <1>2 DEF WritersHoldMutex
  <2>1. CASE x # c
    <3>1. Writers(x)' = Writers(x)
      BY <1>2, <2>1 DEF Writers
    <3> QED BY <1>0, <1>1, <1>2, <2>1, <3>1 DEF WritersHoldMutex
  <2>2. CASE x = c /\ handler'[c] = "pinging"
    <3>1. \A p \in Publishers : pub[p].pc # c
      BY <1>1, <1>2, <2>2, FreeMeansNoWriter DEF Writers
    <3> QED BY <1>2, <2>2, <3>1 DEF Writers
  <2>3. CASE x = c /\ handler'[c] # "pinging"
    <3>1. mu[c] = c
      BY <1>0, <1>1, <1>2, <2>3 DEF WritersHoldMutex, Writers
    <3>2. \A p \in Publishers : pub[p].pc = c => p = c
      BY <1>0, <1>1, <3>1 DEF WritersHoldMutex, Writers
    <3>3. \A p \in Publishers : pub[p].pc # c
      BY <3>2, HubAssumption
    <3> QED BY <1>2, <2>3, <3>3 DEF Writers
  <2> QED BY <2>1, <2>2, <2>3
<1>5. NoPingUntyped' /\ AheadIsOwed' /\ OwedIsAhead'
  BY <1>0, <1>1, <1>2 DEF NoPingUntyped, AheadIsOwed, OwedIsAhead
<1>6. SubscribedAreServed' /\ NewIsNotUp'
  BY <1>0, <1>2 DEF SubscribedAreServed, NewIsNotUp, Alive, HubTypeOK
<1> QED BY <1>3, <1>4, <1>5, <1>6 DEF HubIInv

\* A step of a call between two places that are no write.
LEMMA CallIInv ==
  ASSUME HubIInv, NEW p \in Publishers,
         Publish(p) \/ RLock(p) \/ RUnlock(p)
  PROVE  HubIInv'
<1> USE DEF HubIInv
<1>1. /\ pub' \in [Publishers -> [pc : {"idle", "wait", "next"} \union Conns,
                                 todo : SUBSET Conns, owed : SUBSET Conns]]
      /\ \A q \in Publishers \ {p} : pub'[q] = pub[q]
      /\ pub[p].pc \in {"idle", "wait", "next"}
      /\ pub'[p].pc \in {"idle", "wait", "next"}
      /\ pub'[p].owed = pub'[p].todo
      /\ UNCHANGED <<typed, subs, wants, net, closed, handler, tick, remover,
                     mu, stopped, raced>>
  <2>1. CASE Publish(p)
    BY <2>1 DEF Publish, Idle, HubTypeOK
  <2>2. CASE RLock(p)
    <3> DEFINE targets == IF typed THEN subs \intersect wants ELSE subs
    <3>1. targets \subseteq Conns
      BY DEF HubTypeOK
    <3>2. pub' = [pub EXCEPT ![p] = [pc |-> "next", todo |-> targets,
                                     owed |-> targets]]
      BY <2>2 DEF RLock
    <3> HIDE DEF targets
    <3> QED BY <2>2, <3>1, <3>2 DEF RLock, HubTypeOK
  <2>3. CASE RUnlock(p)
    BY <2>3 DEF RUnlock, Idle, HubTypeOK
  <2> QED BY <2>1, <2>2, <2>3
<1>2. HubTypeOK'
  BY <1>1 DEF HubTypeOK
<1>3. \A c \in Conns : Writers(c)' = Writers(c)
  BY <1>1, HubAssumption DEF Writers
<1>4. WritersHoldMutex' /\ NoPingUntyped'
  BY <1>1, <1>3 DEF WritersHoldMutex, NoPingUntyped
<1>5. AheadIsOwed'
  BY <1>1, HubAssumption DEF AheadIsOwed
<1>6. SubscribedAreServed' /\ NewIsNotUp'
  BY <1>1 DEF SubscribedAreServed, NewIsNotUp, Alive
<1>7. OwedIsAhead'
  BY <1>1 DEF OwedIsAhead
<1> QED BY <1>2, <1>4, <1>5, <1>6, <1>7

\* On the events hub who begins to write is alone: it takes the mutex.
LEMMA SendIInv ==
  ASSUME HubIInv, NEW p \in Publishers, NEW c \in Conns,
         Send(p, c)
  PROVE  HubIInv'
<1>0. /\ HubTypeOK /\ WritersHoldMutex /\ NoPingUntyped
      /\ SubscribedAreServed /\ NewIsNotUp /\ AheadIsOwed /\ OwedIsAhead
  BY DEF HubIInv
<1>1. /\ pub[p].pc = "next" /\ c \in pub[p].todo
      /\ pub' \in [Publishers -> [pc : {"idle", "wait", "next"} \union Conns,
                                 todo : SUBSET Conns, owed : SUBSET Conns]]
      /\ \A q \in Publishers \ {p} : pub'[q] = pub[q]
      /\ pub'[p].pc = c /\ pub'[p].todo = pub[p].todo \ {c}
      /\ pub'[p].owed = pub[p].owed
      /\ UNCHANGED <<typed, subs, wants, net, closed, handler, tick, remover,
                     stopped>>
  BY <1>0 DEF Send, HubTypeOK
<1>2. /\ typed => mu[c] = Free /\ Writers(c) = {} /\ raced' = raced
      /\ raced \subseteq raced' /\ raced' \subseteq Conns
      /\ "next" \notin Conns
  BY <1>0, FreeMeansNoWriter, HubAssumption DEF Send, HubTypeOK
<1>3. /\ mu' \in [Conns -> {Free} \union Conns \union Publishers]
      /\ typed => mu'[c] = p
      /\ \A x \in Conns \ {c} : mu'[x] = mu[x]
  BY <1>0 DEF Send, HubTypeOK
<1>4. HubTypeOK'
  BY <1>0, <1>1, <1>2, <1>3 DEF HubTypeOK
<1>5. /\ typed => Writers(c)' = {p}
      /\ \A x \in Conns \ {c} : Writers(x)' = Writers(x)
  BY <1>1, <1>2 DEF Writers
<1>6. WritersHoldMutex'
  BY <1>0, <1>1, <1>2, <1>3, <1>5 DEF WritersHoldMutex
<1>7. AheadIsOwed'
  <2>1. c \in pub[p].owed /\ pub[p].todo \subseteq pub[p].owed
    BY <1>0, <1>1 DEF AheadIsOwed
  <2> QED BY <1>0, <1>1, <2>1 DEF AheadIsOwed
<1>8. NoPingUntyped' /\ SubscribedAreServed' /\ NewIsNotUp'
  BY <1>0, <1>1
     DEF NoPingUntyped, SubscribedAreServed, NewIsNotUp, Alive
<1>9. OwedIsAhead'
  BY <1>0, <1>1, <1>2 DEF OwedIsAhead, HubTypeOK
<1> QED BY <1>4, <1>6, <1>7, <1>8, <1>9 DEF HubIInv

\* A write that ends gives back the mutex and pays its debt, or its connection
\* is closed, or another write has spoilt it.  A panic ends the call.
LEMMA SentIInv ==
  ASSUME HubIInv, NEW p \in Publishers, NEW c \in Conns,
         WriteEnds(p, c)
  PROVE  HubIInv'
<1> USE DEF HubIInv
<1>1. /\ pub[p].pc = c /\ c \notin pub[p].todo
      /\ pub' \in [Publishers -> [pc : {"idle", "wait", "next"} \union Conns,
                                 todo : SUBSET Conns, owed : SUBSET Conns]]
      /\ \A q \in Publishers \ {p} : pub'[q] = pub[q]
      /\ \/ /\ pub'[p].pc = "next" /\ pub'[p].todo = pub[p].todo
            /\ pub'[p].owed \in {pub[p].owed, pub[p].owed \ {c}}
            /\ c \notin pub'[p].owed \/ c \in closed' \/ c \in raced
         \/ pub'[p] = Idle
      /\ closed \subseteq closed' /\ closed' \subseteq Conns
      /\ remover' \in [Conns -> BOOLEAN]
      /\ UNCHANGED <<typed, subs, wants, net, handler, tick, stopped, raced>>
  <2>0. pub[p].pc = c
    BY DEF WriteEnds, Sent, SendFails, Garbled, Panic
  <2>1. c \notin pub[p].todo
    BY <2>0 DEF AheadIsOwed
  <2>2. CASE Sent(p, c)
    <3>1. /\ pub' \in [Publishers -> [pc : {"idle", "wait", "next"} \union Conns,
                                     todo : SUBSET Conns, owed : SUBSET Conns]]
          /\ \A q \in Publishers \ {p} : pub'[q] = pub[q]
          /\ pub'[p].pc = "next" /\ pub'[p].todo = pub[p].todo
          /\ pub'[p].owed = pub[p].owed \ {c}
      BY <2>2 DEF Sent, HubTypeOK
    <3> QED BY <2>0, <2>1, <2>2, <3>1 DEF Sent, HubTypeOK
  <2>3. CASE SendFails(p, c)
    BY <2>1, <2>3 DEF SendFails, HubTypeOK
  <2>4. CASE Garbled(p, c)
    BY <2>1, <2>4 DEF Garbled, HubTypeOK
  <2>5. CASE Panic(p, c)
    BY <2>1, <2>5 DEF Panic, Idle, HubTypeOK
  <2> QED BY <2>2, <2>3, <2>4, <2>5 DEF WriteEnds
<1>2. /\ mu' \in [Conns -> {Free} \union Conns \union Publishers]
      /\ \A x \in Conns \ {c} : mu'[x] = mu[x]
  <2>1. Unlocked(p, c)
    BY DEF WriteEnds, Sent, SendFails, Garbled, Panic
  <2> QED BY <2>1 DEF Unlocked, HubTypeOK
<1>3. HubTypeOK'
  BY <1>1, <1>2 DEF HubTypeOK
<1>4. pub'[p].pc \notin Conns
  BY <1>1, HubAssumption DEF Idle
<1>5. /\ \A x \in Conns \ {c} : Writers(x)' = Writers(x)
      /\ Writers(c)' \subseteq Writers(c) \ {p}
  <2>1. p # c
    BY HubAssumption
  <2> QED BY <1>1, <1>4, <2>1 DEF Writers
<1>6. WritersHoldMutex'
  <2> SUFFICES ASSUME typed, NEW x \in Conns
               PROVE  Writers(x)' \subseteq {mu'[x]}
    BY <1>1 DEF WritersHoldMutex
  <2>1. CASE x # c
    BY <1>2, <1>5, <2>1 DEF WritersHoldMutex
  <2>2. CASE x = c
    <3>1. Writers(c) \subseteq {mu[c]} /\ p \in Writers(c)
      BY <1>1 DEF WritersHoldMutex, Writers
    <3> QED BY <1>5, <2>2, <3>1
  <2> QED BY <2>1, <2>2
<1>7. AheadIsOwed'
  BY <1>1, <1>4 DEF AheadIsOwed, Idle
<1>8. NoPingUntyped' /\ SubscribedAreServed' /\ NewIsNotUp'
  BY <1>1 DEF NoPingUntyped, SubscribedAreServed, NewIsNotUp, Alive
<1>9. OwedIsAhead'
  BY <1>1 DEF OwedIsAhead, HubTypeOK, Idle
<1> QED BY <1>3, <1>6, <1>7, <1>8, <1>9

\* Ticks, removals, clients that hang up, and Stop.
LEMMA AsideIInv ==
  ASSUME HubIInv, NEW c \in Conns,
         Fire(c) \/ RemoveBroken(c) \/ HangUp(c) \/ Stop \/ UNCHANGED hubVars
  PROVE  HubIInv'
<1> USE DEF HubIInv
<1>1. /\ UNCHANGED <<typed, wants, closed, handler, mu, pub, raced>>
      /\ subs' \subseteq subs
      /\ \A x \in Conns : net'[x] = net[x] \/ (net[x] = "up" /\ net'[x] = "down")
      /\ net' \in [Conns -> {"new", "up", "down"}]
      /\ tick' \in [Conns -> BOOLEAN] /\ remover' \in [Conns -> BOOLEAN]
      /\ stopped' \in BOOLEAN
  BY DEF Fire, RemoveBroken, HangUp, Stop, hubVars, HubTypeOK
<1>2. HubTypeOK'
  BY <1>1 DEF HubTypeOK
<1>3. WritersHoldMutex' /\ NoPingUntyped' /\ AheadIsOwed'
  BY <1>1 DEF WritersHoldMutex, NoPingUntyped, AheadIsOwed, Writers
<1>4. SubscribedAreServed' /\ NewIsNotUp'
  BY <1>1 DEF SubscribedAreServed, NewIsNotUp, Alive
<1>5. OwedIsAhead'
  BY <1>1 DEF OwedIsAhead, HubTypeOK
<1> QED BY <1>2, <1>3, <1>4, <1>5

LEMMA HubStep == ASSUME HubIInv, [HubNext]_hubVars PROVE HubIInv'
<1>1. CASE UNCHANGED hubVars \/ Stop
  <2>1. CASE Conns = {}
    BY <1>1, <2>1
       DEF hubVars, Stop, HubIInv, HubTypeOK, WritersHoldMutex,
           NoPingUntyped, AheadIsOwed, SubscribedAreServed,
           NewIsNotUp, OwedIsAhead
  <2>2. CASE \E c \in Conns : TRUE
    BY <1>1, <2>2, AsideIInv
  <2> QED BY <2>1, <2>2
<1>2. CASE \E c \in Conns :
             Locks(c) \/ Runs(c) \/ RemoveBroken(c) \/ Environment(c)
  <2> PICK c \in Conns : Locks(c) \/ Runs(c) \/ RemoveBroken(c) \/ Environment(c)
    BY <1>2
  <2>1. CASE Fire(c) \/ RemoveBroken(c) \/ HangUp(c)
    BY <2>1, AsideIInv
  <2>2. CASE Ping(c) \/ Pinged(c) \/ PingFails(c)
    BY <2>2, PingIInv
  <2>3. CASE \/ \E accepts \in BOOLEAN : Connect(c, accepts)
             \/ Subscribe(c) \/ SelectTick(c) \/ SelectStop(c) \/ SelectDefault(c)
             \/ Message(c) \/ ReadFails(c) \/ Unsubscribe(c)
    BY <2>3, SessionIInv
  <2> QED BY <2>1, <2>2, <2>3 DEF Locks, Runs, Environment
<1>3. CASE \E p \in Publishers : Publish(p) \/ PubLocks(p) \/ PubRuns(p)
  <2> PICK p \in Publishers : Publish(p) \/ PubLocks(p) \/ PubRuns(p)
    BY <1>3
  <2>1. CASE Publish(p) \/ RLock(p) \/ RUnlock(p)
    BY <2>1, CallIInv
  <2>2. CASE \E c \in Conns : Send(p, c) \/ WriteEnds(p, c)
    BY <2>2, SendIInv, SentIInv
  <2> QED BY <2>1, <2>2 DEF PubLocks, PubRuns
<1> QED BY <1>1, <1>2, <1>3 DEF HubNext

\* HubIInv, of module WsHub, holds in every behaviour of either hub.
THEOREM HubInvariant == HubSpec => []HubIInv
<1>1. HubInit => HubIInv
  BY HubStarts
<1>2. HubIInv /\ [HubNext]_hubVars => HubIInv'
  BY HubStep
<1> QED BY <1>1, <1>2, PTL DEF HubSpec

\* Every state of a hub has its type.
THEOREM HubTypes == HubSpec => []HubTypeOK
<1>1. HubIInv => HubTypeOK
  BY DEF HubIInv
<1> QED BY <1>1, HubInvariant, PTL

\* gorilla's rule of one concurrent writer is kept by the events hub: the
\* session's ping and any number of publishers never write to a connection at
\* the same time.  (By the telemetry hub it is not.)
THEOREM OneWriterAtATime == HubSpec => []OneWriter
<1>1. HubIInv => OneWriter
  BY DEF HubIInv, WritersHoldMutex, OneWriter
<1> QED BY <1>1, HubInvariant, PTL

\* What a step does to the mutex of a connection and to its writers.
LEMMA WritersStep ==
  ASSUME HubIInv, HubNext, typed, NEW x \in Conns
  PROVE  \/ mu'[x] = mu[x] /\ Writers(x)' = Writers(x)
         \/ mu'[x] # Free /\ Writers(x)' = {mu'[x]}
         \/ mu'[x] = Free /\ Writers(x)' = {}
<1>0. /\ HubTypeOK /\ WritersHoldMutex
      /\ {"idle", "wait", "next"} \intersect Conns = {}
      /\ Free \notin Conns \union Publishers /\ x \notin Publishers
  BY HubAssumption DEF HubIInv
<1>1. CASE \E c \in Conns : Ping(c)
  <2> PICK c \in Conns : Ping(c)
    BY <1>1
  <2>1. /\ handler'[c] = "pinging" /\ mu[c] = Free /\ mu'[c] = c
        /\ \A y \in Conns \ {c} : handler'[y] = handler[y] /\ mu'[y] = mu[y]
        /\ pub' = pub
    BY <1>0 DEF Ping, Handler, HubTypeOK
  <2>2. CASE x # c
    BY <2>1, <2>2 DEF Writers
  <2>3. CASE x = c
    <3>1. Writers(c) = {}
      BY <2>1, FreeMeansNoWriter
    <3>2. Writers(c)' = {c}
      BY <2>1, <3>1 DEF Writers
    <3> QED BY <1>0, <2>1, <2>3, <3>2
  <2> QED BY <2>2, <2>3
<1>2. CASE \E c \in Conns : Pinged(c) \/ PingFails(c)
  <2> PICK c \in Conns : Pinged(c) \/ PingFails(c)
    BY <1>2
  <2>1. /\ handler[c] = "pinging" /\ handler'[c] # "pinging" /\ mu'[c] = Free
        /\ \A y \in Conns \ {c} : handler'[y] = handler[y] /\ mu'[y] = mu[y]
        /\ pub' = pub
    BY <1>0 DEF Pinged, PingFails, Handler, HubTypeOK
  <2>2. CASE x # c
    BY <2>1, <2>2 DEF Writers
  <2>3. CASE x = c
    <3>1. Writers(c) \subseteq {mu[c]} /\ c \in Writers(c)
      BY <1>0, <2>1 DEF WritersHoldMutex, Writers
    <3>2. \A p \in Publishers : pub[p].pc # c
      BY <1>0, <2>3, <3>1 DEF Writers
    <3>3. Writers(c)' = {}
      BY <2>1, <3>2 DEF Writers
    <3> QED BY <2>1, <2>3, <3>3
  <2> QED BY <2>2, <2>3
<1>3. CASE \E p \in Publishers : \E c \in Conns : Send(p, c)
  <2> PICK p \in Publishers, c \in Conns : Send(p, c)
    BY <1>3
  <2>1. /\ pub[p].pc = "next" /\ pub'[p].pc = c
        /\ \A q \in Publishers \ {p} : pub'[q] = pub[q]
        /\ mu[c] = Free /\ mu'[c] = p
        /\ \A y \in Conns \ {c} : mu'[y] = mu[y]
        /\ handler' = handler
    BY <1>0 DEF Send, HubTypeOK
  <2>2. CASE x # c
    BY <1>0, <2>1, <2>2 DEF Writers
  <2>3. CASE x = c
    <3>1. Writers(c) = {}
      BY <2>1, FreeMeansNoWriter
    <3>2. Writers(c)' = {p}
      BY <2>1, <3>1 DEF Writers
    <3> QED BY <1>0, <2>1, <2>3, <3>2
  <2> QED BY <2>2, <2>3
<1>4. CASE \E p \in Publishers : \E c \in Conns : WriteEnds(p, c)
  <2> PICK p \in Publishers, c \in Conns : WriteEnds(p, c)
    BY <1>4
  <2>1. /\ pub[p].pc = c /\ pub'[p].pc = "next"
        /\ \A q \in Publishers \ {p} : pub'[q] = pub[q]
        /\ handler' = handler /\ Unlocked(p, c)
    <3>1. CASE Sent(p, c)
      BY <1>0, <3>1 DEF Sent, HubTypeOK
    <3>2. CASE SendFails(p, c)
      BY <1>0, <3>2 DEF SendFails, HubTypeOK
    <3>3. raced = {}
      BY <1>0 DEF WritersHoldMutex
    <3> QED BY <3>1, <3>2, <3>3 DEF WriteEnds, Garbled, Panic
  <2>2. Writers(c) \subseteq {mu[c]} /\ p \in Writers(c)
    BY <1>0, <2>1 DEF WritersHoldMutex, Writers
  <2>3. mu'[c] = Free /\ \A y \in Conns \ {c} : mu'[y] = mu[y]
    BY <1>0, <2>1, <2>2 DEF Unlocked, HubTypeOK
  <2>4. CASE x # c
    BY <1>0, <2>1, <2>3, <2>4 DEF Writers
  <2>5. CASE x = c
    <3>1. Writers(c)' \subseteq Writers(c) \ {p}
      BY <1>0, <2>1, <2>5 DEF Writers
    <3> QED BY <2>2, <2>3, <2>5, <3>1
  <2> QED BY <2>4, <2>5
<1>5. CASE \E c \in Conns :
             \/ Subscribe(c) \/ Unsubscribe(c) \/ RemoveBroken(c)
             \/ SelectTick(c) \/ SelectStop(c) \/ SelectDefault(c)
             \/ ReadFails(c) \/ Environment(c)
  <2> PICK c \in Conns :
             \/ Subscribe(c) \/ Unsubscribe(c) \/ RemoveBroken(c)
             \/ SelectTick(c) \/ SelectStop(c) \/ SelectDefault(c)
             \/ ReadFails(c) \/ Environment(c)
    BY <1>5
  <2>1. /\ mu' = mu /\ pub' = pub
        /\ \A y \in Conns : handler'[y] = "pinging" <=> handler[y] = "pinging"
    <3> USE <1>0 DEF Handler, HubTypeOK
    <3>1. CASE Subscribe(c) \/ Unsubscribe(c) \/ RemoveBroken(c) \/ SelectTick(c)
      BY <3>1 DEF Subscribe, Unsubscribe, RemoveBroken, SelectTick
    <3>2. CASE SelectStop(c) \/ SelectDefault(c) \/ ReadFails(c)
      BY <3>2 DEF SelectStop, SelectDefault, ReadFails
    <3>3. CASE Environment(c)
      BY <3>3 DEF Environment, Connect, Fire, Message, HangUp
    <3> QED BY <3>1, <3>2, <3>3
  <2> QED BY <2>1 DEF Writers
<1>6. CASE Stop \/ \E p \in Publishers : Publish(p) \/ RLock(p) \/ RUnlock(p)
  <2>1. /\ mu' = mu /\ handler' = handler
        /\ \A p \in Publishers : pub'[p].pc = x <=> pub[p].pc = x
    <3>1. CASE Stop
      BY <3>1 DEF Stop
    <3>2. CASE \E p \in Publishers : Publish(p) \/ RLock(p) \/ RUnlock(p)
      <4> PICK p \in Publishers : Publish(p) \/ RLock(p) \/ RUnlock(p)
        BY <3>2
      <4>1. /\ mu' = mu /\ handler' = handler
            /\ pub[p].pc # x /\ pub'[p].pc # x
            /\ \A q \in Publishers \ {p} : pub'[q] = pub[q]
        <5>1. CASE Publish(p)
          BY <1>0, <5>1 DEF Publish, Idle, HubTypeOK
        <5>2. CASE RLock(p)
          BY <1>0, <5>2 DEF RLock, HubTypeOK
        <5>3. CASE RUnlock(p)
          BY <1>0, <5>3 DEF RUnlock, Idle, HubTypeOK
        <5> QED BY <5>1, <5>2, <5>3
      <4> QED BY <4>1
    <3> QED BY <1>6, <3>1, <3>2
  <2> QED BY <2>1 DEF Writers
<1>7. CASE \E c \in Conns :
             Locks(c) \/ Runs(c) \/ RemoveBroken(c) \/ Environment(c)
  BY <1>1, <1>2, <1>5, <1>7 DEF Locks, Runs
<1>8. CASE \E p \in Publishers : Publish(p) \/ PubLocks(p) \/ PubRuns(p)
  BY <1>3, <1>4, <1>6, <1>8 DEF PubLocks, PubRuns
<1> QED BY <1>6, <1>7, <1>8 DEF HubNext

\* HeldByWriter: the mutex of a subscriber is held exactly while somebody
\* writes to it.  No end of a write, however it fails, keeps one: the safety
\* behind PublishReturns, which is about the waits alone.
THEOREM MutexesAreGivenBack == HubSpec => []HeldByWriter
<1>1. HubInit => HeldByWriter
  <2> SUFFICES ASSUME HubInit, NEW c \in Conns
               PROVE  {mu[c]} \ {Free} = IF typed THEN Writers(c) ELSE {}
    BY Zenon DEF HeldByWriter
  <2>1. \A p \in Publishers : pub[p].pc = "idle" /\ "idle" # c
    BY HubAssumption DEF HubInit, Idle
  <2>2. mu[c] = Free /\ Writers(c) = {}
    BY <2>1 DEF HubInit, Writers
  <2> QED BY <2>2
<1>2. ASSUME HubIInv, HeldByWriter, [HubNext]_hubVars
      PROVE  HeldByWriter'
  <2>1. CASE UNCHANGED hubVars
    BY <1>2, <2>1 DEF hubVars, HeldByWriter, Writers
  <2>2. CASE HubNext /\ typed
    <3>1. typed'
      <4>1. typed' = typed
        BY <2>2 DEF HubNext, Locks, Runs, PubLocks, PubRuns, Environment,
           Subscribe, Unsubscribe, RemoveBroken, SelectTick, SelectStop,
           SelectDefault, ReadFails, Connect, Fire, Message, HangUp, Ping,
           Pinged, PingFails, Publish, RLock, RUnlock, Send, WriteEnds, Sent,
           SendFails, Garbled, Panic, Stop
      <4> QED BY <2>2, <4>1
    <3> SUFFICES ASSUME NEW x \in Conns
                 PROVE  {mu'[x]} \ {Free} = Writers(x)'
      BY <3>1 DEF HeldByWriter
    <3>2. {mu[x]} \ {Free} = Writers(x)
      BY <1>2, <2>2 DEF HeldByWriter
    <3> QED BY <1>2, <2>2, <3>2, WritersStep
  <2>3. CASE HubNext /\ ~typed
    <3>1. NoPingUntyped /\ HubTypeOK
      BY <1>2 DEF HubIInv
    <3>2. UNCHANGED <<typed, mu>>
      <4>1. CASE \E c \in Conns :
                   Locks(c) \/ Runs(c) \/ RemoveBroken(c) \/ Environment(c)
        BY <2>3, <3>1, <4>1
           DEF Locks, Runs, Environment, Subscribe, Unsubscribe, RemoveBroken,
               SelectTick, SelectStop, SelectDefault, ReadFails, Connect, Fire,
               Message, HangUp, Ping, Pinged, PingFails, Handler, NoPingUntyped
      <4>2. CASE Stop
        BY <4>2 DEF Stop
      <4>3. CASE \E p \in Publishers : Publish(p) \/ PubLocks(p) \/ PubRuns(p)
        <5>1. \A c \in Conns : mu[c] = Free
          BY <1>2, <2>3 DEF HeldByWriter
        <5>2. \A p \in Publishers : p # Free
          BY HubAssumption
        <5> QED BY <2>3, <4>3, <5>1, <5>2
            DEF PubLocks, PubRuns, Publish, RLock, RUnlock, Send, WriteEnds,
                Sent, SendFails, Garbled, Panic, Unlocked
      <4> QED BY <2>3, <4>1, <4>2, <4>3 DEF HubNext
    <3> QED BY <1>2, <2>3, <3>2 DEF HeldByWriter
  <2> QED BY <1>2, <2>1, <2>2, <2>3
<1>3. HubIInv /\ HeldByWriter /\ [HubNext]_hubVars => HeldByWriter'
  BY <1>2
<1> QED BY <1>1, <1>3, HubInvariant, PTL DEF HubSpec

\* No connection stays in the map of a hub after its session has gone.
THEOREM SubscribersAreServed ==
  HubSpec => []SubscribedAreServed
<1>1. HubIInv => SubscribedAreServed
  BY DEF HubIInv
<1> QED BY <1>1, HubInvariant, PTL

\* A call leaves the iteration with nothing left to send, and what it then owes
\* is broken or spoilt; or it panics at a connection that it owes.
LEMMA EndedCallReached ==
  ASSUME HubIInv, HubNext, NEW p \in Publishers
  PROVE  Reached(p) \/ (~typed /\ pub[p].owed \intersect raced # {})
<1> SUFFICES ASSUME Reading(p), pub'[p].pc = "idle", NEW c \in pub[p].owed
             PROVE  \/ net[c] = "down" \/ c \in closed
                    \/ pub[p].owed \intersect raced # {} /\ ~typed
  BY DEF Reached
<1>1. HubTypeOK /\ OwedIsAhead /\ AheadIsOwed /\ (typed => raced = {})
  BY DEF HubIInv, WritersHoldMutex
<1>2. pub' # pub
  BY DEF Reading
<1>3. PICK q \in Publishers : Publish(q) \/ PubLocks(q) \/ PubRuns(q)
  BY <1>2
     DEF HubNext, Locks, Runs, Environment, RemoveBroken, Stop,
         Subscribe, Ping, Unsubscribe, SelectTick, SelectStop,
         SelectDefault, Pinged, PingFails, ReadFails, Connect, Fire,
         Message, HangUp
<1>4. RUnlock(p) \/ \E x \in Conns : Panic(p, x)
  <2>1. CASE Publish(q) \/ RLock(q)
    BY <1>1, <2>1 DEF Publish, RLock, Idle, Reading, HubTypeOK
  <2>2. CASE RUnlock(q)
    BY <1>1, <2>2 DEF RUnlock, Idle, Reading, HubTypeOK
  <2>3. ASSUME NEW x \in Conns,
               Send(q, x) \/ Sent(q, x) \/ SendFails(q, x) \/ Garbled(q, x)
        PROVE  pub'[p].pc # "idle"
    <3>1. pub[p].pc # "idle" /\ x # "idle"
      BY HubAssumption DEF Reading
    <3>2. CASE Send(q, x)
      BY <1>1, <3>1, <3>2 DEF Send, HubTypeOK
    <3>3. CASE Sent(q, x)
      BY <1>1, <3>1, <3>3 DEF Sent, HubTypeOK
    <3>4. CASE SendFails(q, x)
      BY <1>1, <3>1, <3>4 DEF SendFails, HubTypeOK
    <3>5. CASE Garbled(q, x)
      BY <1>1, <3>1, <3>5 DEF Garbled, HubTypeOK
    <3> QED BY <2>3, <3>2, <3>3, <3>4, <3>5
  <2>4. ASSUME NEW x \in Conns, Panic(q, x), q # p
        PROVE  pub'[p].pc # "idle"
    BY <1>1, <2>4 DEF Panic, Reading, HubTypeOK
  <2> QED BY <1>3, <2>1, <2>2, <2>3, <2>4 DEF PubLocks, PubRuns, WriteEnds
<1>5. CASE RUnlock(p)
  BY <1>1, <1>5, HubAssumption DEF RUnlock, OwedIsAhead, HubTypeOK
<1>6. CASE \E x \in Conns : Panic(p, x)
  BY <1>1, <1>6 DEF Panic, AheadIsOwed
<1> QED BY <1>4, <1>5, <1>6

\* An event that is published reaches every subscriber that wants it and has not
\* broken, whatever the others do meanwhile; a reading that is broadcast misses a
\* connected client only if it was written to a connection where two writes have
\* met.
THEOREM EventsReachAll ==
  HubSpec => EventReachesAll
<1>1. HubIInv /\ [HubNext]_hubVars =>
        [\A p \in Publishers :
           Reached(p) \/ (~typed /\ pub[p].owed \intersect raced # {})]_hubVars
  BY EndedCallReached
<1> QED BY <1>1, HubInvariant, PTL DEF HubSpec, EventReachesAll
-----------------------------------------------------------------------------
(***************************************************************************)
(* Backup and restore                                                      *)
(***************************************************************************)
LEMMA FilesStart == ASSUME FilesInit PROVE FilesIInv
<1>1. FilesTypeOK
  <2>1. {} \in Contents
    BY DEF Contents
  <2>2. past \subseteq Contents
    BY <2>1 DEF FilesInit
  <2>3. /\ bk \in [pc : {"idle", "snapped", "writing"}, data : Contents]
        /\ rs \in [pc : {"idle", "verified", "moved"}, data : Contents]
    BY <2>1 DEF FilesInit, NoCommand
  <2>4. tx \in 0..MaxTx /\ moves \in 0..2
    BY FilesAssumption DEF FilesInit
  <2> QED BY <2>2, <2>3, <2>4 DEF FilesInit, FilesTypeOK
<1>2. RestoreIsAlone /\ LogHasItsFile /\ CopiesWerePast
  BY DEF FilesInit, RestoreIsAlone, LogHasItsFile, CopiesWerePast, NoCommand
<1>3. UnmovedIsComplete /\ OnlyCommittedStates /\ OneRestoreLosesNothing
  BY DEF FilesInit, UnmovedIsComplete, OnlyCommittedStates,
     OneRestoreLosesNothing
<1> QED BY <1>1, <1>2, <1>3 DEF FilesIInv

\* Reading and closing the database moves the log into the file, which changes
\* nothing one can read.
LEMMA CheckpointKeepsContent ==
  ASSUME FilesTypeOK, main # NoFile
  PROVE  /\ Content \in Contents
         /\ Checkpointed \in File
         /\ Checkpointed.id = main.id /\ Checkpointed.data = Content
         /\ Checkpointed # NoFile
<1>1. main \in File /\ (wal # NoFile => wal \in File)
  BY DEF FilesTypeOK
<1>2. Content \in Contents
  BY <1>1 DEF Content, File, Contents
<1> QED BY <1>1, <1>2, FilesAssumption DEF Checkpointed, File

\* A step of the server or of the backup command that closes the database: the
\* content stays, the log goes.
LEMMA CheckpointStep ==
  ASSUME FilesIInv, main # NoFile,
         main' = Checkpointed, wal' = NoFile,
         broken' \in BOOLEAN, broken' => broken \/ Foreign,
         server' \in BOOLEAN, rs.pc # "idle" => ~server',
         bk' \in {bk, [pc |-> "snapped", data |-> Content]},
         UNCHANGED <<bak, archive, rs, sameFS, tx, past, moves, dirty>>
  PROVE  FilesIInv'
<1>1. FilesTypeOK
  BY DEF FilesIInv
<1>2. /\ Content \in Contents /\ main' \in File /\ main' # NoFile
      /\ Content' = Content
      /\ rs.pc # "moved"
  <2>1. main'.data = Content
    BY <1>1, CheckpointKeepsContent
  <2>2. Content' = Content
    BY <2>1 DEF Content
  <2> QED BY <1>1, <2>2, CheckpointKeepsContent DEF FilesIInv, RestoreIsAlone
<1>3. ~dirty => ~Foreign /\ ~broken /\ Content \in past
  BY DEF FilesIInv, OnlyCommittedStates
<1>4. FilesTypeOK'
  BY <1>1, <1>2 DEF FilesTypeOK
<1>5. RestoreIsAlone' /\ LogHasItsFile'
  BY <1>2 DEF FilesIInv, RestoreIsAlone, LogHasItsFile
<1>6. CopiesWerePast'
  BY <1>3 DEF FilesIInv, CopiesWerePast
<1>7. UnmovedIsComplete' /\ OneRestoreLosesNothing'
  BY <1>2 DEF FilesIInv, UnmovedIsComplete, OneRestoreLosesNothing
<1>8. OnlyCommittedStates'
  BY <1>2, <1>3 DEF FilesIInv, OnlyCommittedStates, Foreign
<1> QED BY <1>4, <1>5, <1>6, <1>7, <1>8 DEF FilesIInv

\* The server starts: on a new file, or on what is at the path.
LEMMA StartStep == ASSUME FilesIInv, Start PROVE FilesIInv'
<1>1. CASE main # NoFile
  <2>1. broken' \in BOOLEAN /\ (broken' => broken \/ Foreign)
    BY <1>1, Zenon DEF Start
  <2> QED BY <1>1, <2>1, CheckpointStep DEF Start
<1>2. CASE main = NoFile
  <2>1. /\ rs.pc = "idle" /\ wal' = NoFile /\ server' = TRUE
        /\ UNCHANGED <<bak, archive, bk, rs, sameFS, tx, past, moves, dirty,
                       broken>>
        /\ \E i \in FileIds : main' = [id |-> i, data |-> {}]
    BY <1>2 DEF Start, Fresh
  <2>2. /\ main' \in File /\ main' # NoFile /\ main'.data = {}
        /\ Content' = {}
    <3>1. main' \in File /\ main'.data = {}
      BY <2>1 DEF File, Contents
    <3> QED BY <2>1, <3>1, FilesAssumption DEF Content
  <2>3. FilesTypeOK'
    BY <2>1, <2>2 DEF FilesIInv, FilesTypeOK
  <2>4. RestoreIsAlone' /\ LogHasItsFile' /\ CopiesWerePast'
    BY <2>1, <2>2
       DEF FilesIInv, RestoreIsAlone, LogHasItsFile, CopiesWerePast
  <2>5. UnmovedIsComplete' /\ OneRestoreLosesNothing'
    BY <1>2, <2>1, <2>2
       DEF FilesIInv, UnmovedIsComplete, OneRestoreLosesNothing
  <2>6. OnlyCommittedStates'
    BY <2>1, <2>2 DEF FilesIInv, OnlyCommittedStates, CopiesWerePast, Foreign
  <2> QED BY <2>3, <2>4, <2>5, <2>6 DEF FilesIInv
<1> QED BY <1>1, <1>2

\* The content grows by one transaction, and is a past state at once.
LEMMA CommitStep == ASSUME FilesIInv, Commit PROVE FilesIInv'
<1> DEFINE after == Content \cup {tx + 1}
<1>1. /\ server /\ tx < MaxTx /\ tx' = tx + 1
      /\ wal' = [id |-> main.id, data |-> after]
      /\ past' = past \cup {after}
      /\ UNCHANGED <<main, bak, archive, server, bk, rs, sameFS, moves, dirty,
                     broken>>
  BY DEF Commit
<1>2. /\ main # NoFile /\ main \in File /\ Content \in Contents
      /\ tx \in Nat /\ MaxTx \in Nat /\ tx + 1 \in 0..MaxTx
  BY <1>1, CheckpointKeepsContent, FilesAssumption DEF FilesIInv, FilesTypeOK
<1>3. after \in Contents /\ wal' \in File /\ wal' # NoFile
  <2>1. after \in Contents
    BY <1>2 DEF Contents
  <2> HIDE DEF after
  <2> QED BY <1>1, <1>2, <2>1, FilesAssumption DEF File
<1>4. Content' = after
  BY <1>1, <1>3 DEF Content
<1> HIDE DEF after
<1>5. FilesTypeOK'
  BY <1>1, <1>2, <1>3 DEF FilesIInv, FilesTypeOK
<1>6. RestoreIsAlone' /\ LogHasItsFile' /\ CopiesWerePast'
  BY <1>1, <1>2 DEF FilesIInv, RestoreIsAlone, LogHasItsFile, CopiesWerePast
<1>7. \A t \in 1..tx' : t \in 1..tx \/ t = tx + 1
  BY <1>1, <1>2
<1>8. UnmovedIsComplete' /\ OneRestoreLosesNothing'
  BY <1>1, <1>2, <1>4, <1>7
     DEF FilesIInv, UnmovedIsComplete, OneRestoreLosesNothing, after
<1>9. OnlyCommittedStates'
  BY <1>1, <1>2, <1>4 DEF FilesIInv, OnlyCommittedStates, Foreign
<1> QED BY <1>5, <1>6, <1>8, <1>9 DEF FilesIInv

\* A step that leaves the database files and .bak alone: the copies that the
\* commands make are of a past state.
LEMMA CopyStep ==
  ASSUME FilesIInv,
         bk' \in [pc : {"idle", "snapped", "writing"}, data : Contents],
         rs' \in [pc : {"idle", "verified", "moved"}, data : Contents],
         archive' \in [whole : BOOLEAN, data : Contents] \cup {NoFile},
         rs'.pc = "moved" => rs.pc = "moved",
         rs'.pc # "idle" => ~server',
         server' \in BOOLEAN, server' => server,
         ~dirty => /\ bk'.pc # "idle" => bk'.data \in past
                   /\ rs'.pc # "idle" => rs'.data \in past
                   /\ archive' # NoFile /\ archive'.whole => archive'.data \in past,
         UNCHANGED <<main, wal, bak, sameFS, tx, past, moves, dirty, broken>>
  PROVE  FilesIInv'
<1>1. FilesTypeOK'
  BY DEF FilesIInv, FilesTypeOK
<1>2. RestoreIsAlone' /\ LogHasItsFile' /\ CopiesWerePast'
  BY DEF FilesIInv, RestoreIsAlone, LogHasItsFile, CopiesWerePast
<1>3. Content' = Content /\ Foreign' = Foreign
  BY DEF Content, Foreign
<1>4. UnmovedIsComplete' /\ OneRestoreLosesNothing'
  BY <1>3 DEF FilesIInv, UnmovedIsComplete, OneRestoreLosesNothing
<1>5. OnlyCommittedStates'
  BY <1>3, Zenon DEF FilesIInv, OnlyCommittedStates
<1> QED BY <1>1, <1>2, <1>4, <1>5 DEF FilesIInv

\* The snapshot is of a past state, and only a whole output counts.
LEMMA BackupCommandStep ==
  ASSUME FilesIInv,
         \/ CreateSnapshot \/ CreateOutput \/ WriteOutput \/ OutputFails
         \/ BackupKilled
  PROVE  FilesIInv'
<1>1. /\ FilesTypeOK /\ RestoreIsAlone /\ CopiesWerePast /\ OnlyCommittedStates
  BY DEF FilesIInv
<1>2. /\ {} \in Contents /\ Torn \in Contents
      /\ NoCommand \in [pc : {"idle", "snapped", "writing"}, data : Contents]
  <2>1. {} \in Contents /\ Torn \in Contents
    BY FilesAssumption DEF Contents, Torn
  <2> QED BY <2>1 DEF NoCommand
<1>3. CASE CreateSnapshot /\ server
  <2>1. Content \in Contents /\ (~dirty => Content \in past)
    BY <1>1, <1>3, CheckpointKeepsContent
       DEF CreateSnapshot, OnlyCommittedStates
  <2>2. bk' = [pc |-> "snapped", data |-> Content]
    BY <1>3 DEF CreateSnapshot
  <2>3. /\ bk'.data = Content
        /\ bk' \in [pc : {"idle", "snapped", "writing"}, data : Contents]
    BY <2>1, <2>2
  <2> QED BY <1>1, <1>3, <2>1, <2>3, CopyStep
      DEF CreateSnapshot, FilesTypeOK, RestoreIsAlone, CopiesWerePast,
          OnlyCommittedStates
<1>4. CASE CreateSnapshot /\ ~server
  <2>1. broken' \in BOOLEAN /\ (broken' => broken \/ Foreign)
    BY <1>4, Zenon DEF CreateSnapshot
  <2> QED BY <1>1, <1>4, <2>1, CheckpointStep DEF CreateSnapshot, FilesTypeOK
<1>5. CASE CreateOutput
  <2>1. /\ bk'.pc = "writing" /\ bk'.data = bk.data
        /\ bk' \in [pc : {"idle", "snapped", "writing"}, data : Contents]
    BY <1>1, <1>5 DEF CreateOutput, FilesTypeOK
  <2>2. /\ ~archive'.whole
        /\ archive' \in [whole : BOOLEAN, data : Contents]
    BY <1>2, <1>5 DEF CreateOutput
  <2> QED BY <1>1, <1>5, <2>1, <2>2, CopyStep
     DEF CreateOutput, FilesTypeOK, RestoreIsAlone, CopiesWerePast
<1>6. CASE WriteOutput
  <2>1. /\ archive'.data = bk.data
        /\ archive' \in [whole : BOOLEAN, data : Contents]
    BY <1>1, <1>6 DEF WriteOutput, FilesTypeOK
  <2>2. bk'.pc = "idle" /\ (~dirty => bk.data \in past)
    BY <1>1, <1>6 DEF WriteOutput, CopiesWerePast, NoCommand
  <2> QED BY <1>1, <1>2, <1>6, <2>1, <2>2, CopyStep
     DEF WriteOutput, FilesTypeOK, RestoreIsAlone, CopiesWerePast
<1>7. CASE OutputFails \/ BackupKilled
  <2>1. bk' = NoCommand /\ bk'.pc = "idle" /\ archive' \in {archive, NoFile}
    BY <1>7 DEF OutputFails, BackupKilled, NoCommand
  <2>2. archive' \in [whole : BOOLEAN, data : Contents] \cup {NoFile}
    BY <1>1, <2>1 DEF FilesTypeOK
  <2>3. /\ bk' \in [pc : {"idle", "snapped", "writing"}, data : Contents]
        /\ UNCHANGED <<main, wal, bak, server, rs, sameFS, tx, past, moves,
                       dirty, broken>>
    BY <1>2, <1>7, <2>1 DEF OutputFails, BackupKilled
  <2> QED BY <1>1, <2>1, <2>2, <2>3, CopyStep
     DEF FilesTypeOK, RestoreIsAlone, CopiesWerePast, OnlyCommittedStates
<1> QED BY <1>3, <1>4, <1>5, <1>6, <1>7

\* A crash, the verification of an archive, and a restore that gives up change
\* no file.
LEMMA RestoreEndsStep ==
  ASSUME FilesIInv,
         Crash \/ DecompressAndVerify \/ RestoreEnds
  PROVE  FilesIInv'
<1>1. /\ FilesTypeOK /\ RestoreIsAlone /\ CopiesWerePast /\ OnlyCommittedStates
  BY DEF FilesIInv
<1>2. CASE Crash
  BY <1>1, <1>2, CopyStep
     DEF Crash, FilesTypeOK, RestoreIsAlone, CopiesWerePast,
         OnlyCommittedStates
<1>3. CASE DecompressAndVerify
  <2>1. archive \in [whole : BOOLEAN, data : Contents]
    BY <1>1, <1>3 DEF DecompressAndVerify, FilesTypeOK
  <2>2. /\ rs' \in [pc : {"idle", "verified", "moved"}, data : Contents]
        /\ rs'.pc = "verified" /\ rs'.data = archive.data
    BY <1>3, <2>1 DEF DecompressAndVerify
  <2>3. ~dirty => archive.data \in past
    BY <1>1, <1>3 DEF DecompressAndVerify, OnlyCommittedStates
  <2> QED BY <1>1, <1>3, <2>2, <2>3, CopyStep
      DEF DecompressAndVerify, FilesTypeOK, CopiesWerePast,
          OnlyCommittedStates
<1>4. CASE RestoreEnds
  <2>1. /\ rs' \in [pc : {"idle", "verified", "moved"}, data : Contents]
        /\ rs'.pc = "idle"
    BY <1>4 DEF RestoreEnds, NoCommand, Contents
  <2> QED BY <1>1, <1>4, <2>1, CopyStep
     DEF RestoreEnds, FilesTypeOK, CopiesWerePast, OnlyCommittedStates
<1> QED BY <1>2, <1>3, <1>4

\* The first rename of restore: what was at the path is in .bak, all of it when
\* no log lay beside it.
LEMMA MoveAwayStep == ASSUME FilesIInv, MoveAway PROVE FilesIInv'
<1>1. FilesTypeOK /\ ~server
  BY DEF FilesIInv, RestoreIsAlone, MoveAway
<1>2. /\ rs \in [pc : {"idle", "verified", "moved"}, data : Contents]
      /\ rs'.data = rs.data /\ rs'.pc = "moved" /\ rs.pc # "idle"
      /\ rs' \in [pc : {"idle", "verified", "moved"}, data : Contents]
      /\ UNCHANGED <<wal, archive, server, bk, sameFS, tx, past, broken>>
  BY <1>1 DEF MoveAway, FilesTypeOK
<1>3. CASE main = NoFile
  <2>1. UNCHANGED <<bak, main, moves, dirty>>
    BY <1>3 DEF MoveAway
  <2>2. FilesTypeOK'
    BY <1>1, <1>2, <2>1 DEF FilesTypeOK
  <2>3. RestoreIsAlone' /\ LogHasItsFile' /\ CopiesWerePast'
    BY <1>1, <1>2, <1>3, <2>1
       DEF FilesIInv, RestoreIsAlone, LogHasItsFile, CopiesWerePast
  <2>4. UnmovedIsComplete' /\ OneRestoreLosesNothing' /\ OnlyCommittedStates'
    BY <1>2, <1>3, <2>1
       DEF FilesIInv, UnmovedIsComplete, OneRestoreLosesNothing,
           OnlyCommittedStates
  <2> QED BY <2>2, <2>3, <2>4 DEF FilesIInv
<1>4. CASE main # NoFile
  <2>1. /\ bak' = main.data /\ main' = NoFile /\ moves' = Capped(moves + 1)
        /\ dirty' \in BOOLEAN /\ (~dirty' => ~dirty /\ wal = NoFile)
    <3>1. dirty' = (dirty \/ wal # NoFile)
      BY <1>4 DEF MoveAway
    <3>2. dirty' \in BOOLEAN /\ (~dirty' => ~dirty /\ wal = NoFile)
      BY <3>1, Zenon
    <3> QED BY <1>4, <3>2 DEF MoveAway
  <2>2. moves' \in 1..2 /\ (moves' <= 1 => moves = 0)
    BY <1>1, <2>1 DEF Capped, FilesTypeOK
  <2>3. main.data \in Contents
    BY <1>1, <1>4 DEF FilesTypeOK, File
  <2>4. FilesTypeOK'
    BY <1>1, <1>2, <2>1, <2>2, <2>3 DEF FilesTypeOK
  <2>5. wal = NoFile => Content = main.data
    BY DEF Content
  <2>6. RestoreIsAlone' /\ LogHasItsFile' /\ CopiesWerePast'
    BY <1>1, <1>2, <2>1
       DEF FilesIInv, RestoreIsAlone, LogHasItsFile, CopiesWerePast
  <2>7. UnmovedIsComplete'
    BY <2>2 DEF UnmovedIsComplete
  <2>8. OneRestoreLosesNothing'
    <3> SUFFICES ASSUME ~dirty', moves' <= 1, NEW t \in 1..tx
                 PROVE  bak' # NoFile /\ t \in bak'
      BY <1>2 DEF OneRestoreLosesNothing
    <3>1. t \in Content
      BY <2>1, <2>2 DEF FilesIInv, UnmovedIsComplete
    <3> QED BY <2>1, <2>3, <2>5, <3>1, FilesAssumption
  <2>9. OnlyCommittedStates'
    BY <1>2, <1>4, <2>1, <2>5 DEF FilesIInv, OnlyCommittedStates
  <2> QED BY <2>4, <2>6, <2>7, <2>8, <2>9 DEF FilesIInv
<1> QED BY <1>3, <1>4

\* The second rename: there is neither a file nor, if none was moved from its
\* log, a log at the path.
LEMMA PutRestoredStep ==
  ASSUME FilesIInv, PutRestored
  PROVE  FilesIInv'
<1>1. FilesTypeOK /\ ~server /\ main = NoFile /\ (~dirty => wal = NoFile)
  BY DEF FilesIInv, RestoreIsAlone, LogHasItsFile, PutRestored
<1>2. PICK i \in FileIds : main' = [id |-> i, data |-> rs.data]
  BY DEF PutRestored, Fresh
<1>3. /\ rs.pc = "moved" /\ rs' = NoCommand /\ rs'.pc = "idle"
      /\ rs' \in [pc : {"idle", "verified", "moved"}, data : Contents]
      /\ UNCHANGED <<wal, bak, archive, server, bk, sameFS, tx, past, moves,
                     dirty, broken>>
  BY DEF PutRestored, NoCommand, Contents
<1>4. main' \in File /\ main' # NoFile /\ main'.data = rs.data
  <2>1. rs.data \in Contents
    BY <1>1 DEF FilesTypeOK
  <2> QED BY <1>2, <2>1, FilesAssumption DEF File
<1>5. FilesTypeOK'
  BY <1>1, <1>3, <1>4 DEF FilesTypeOK
<1>6. RestoreIsAlone' /\ LogHasItsFile' /\ CopiesWerePast'
  BY <1>1, <1>3 DEF FilesIInv, RestoreIsAlone, LogHasItsFile, CopiesWerePast
<1>7. UnmovedIsComplete' /\ OneRestoreLosesNothing'
  BY <1>1, <1>3 DEF FilesIInv, UnmovedIsComplete, OneRestoreLosesNothing
<1>8. ~dirty => Content' = rs.data /\ rs.data \in past
  BY <1>1, <1>3, <1>4 DEF Content, FilesIInv, CopiesWerePast
<1>9. OnlyCommittedStates'
  BY <1>1, <1>3, <1>8 DEF FilesIInv, OnlyCommittedStates, Foreign
<1> QED BY <1>5, <1>6, <1>7, <1>9 DEF FilesIInv

LEMMA BackupStep ==
  ASSUME FilesIInv, [FilesNext]_fileVars
  PROVE  FilesIInv'
<1>1. CASE UNCHANGED fileVars
  BY <1>1, CopyStep
     DEF fileVars, FilesIInv, FilesTypeOK, RestoreIsAlone, CopiesWerePast,
         OnlyCommittedStates
<1>2. CASE Shutdown
  <2>1. main # NoFile /\ broken \in BOOLEAN
    BY <1>2 DEF Shutdown, FilesIInv, FilesTypeOK
  <2> QED BY <1>2, <2>1, CheckpointStep DEF Shutdown
<1> QED BY <1>1, <1>2, StartStep, CommitStep, BackupCommandStep,
    RestoreEndsStep, MoveAwayStep, PutRestoredStep
    DEF FilesNext

\* FilesIInv, of module Backup, holds wherever the server and the two
\* commands stop.
THEOREM BackupInvariant == FilesSpec => []FilesIInv
<1>1. FilesInit => FilesIInv
  BY FilesStart
<1>2. FilesIInv /\ [FilesNext]_fileVars => FilesIInv'
  BY BackupStep
<1> QED BY <1>1, <1>2, PTL DEF FilesSpec

\* Every state of the database file, its log and the commands has its type.
THEOREM BackupTypes == FilesSpec => []FilesTypeOK
<1>1. FilesIInv => FilesTypeOK
  BY DEF FilesIInv
<1> QED BY <1>1, BackupInvariant, PTL

\* The path, .bak and a whole archive hold only states the database had, and no
\* log goes into another file, if no restore moved a database from its log.
THEOREM CopiesAreCommitted ==
  FilesSpec => []OnlyCommittedStates
<1>1. FilesIInv => OnlyCommittedStates
  BY DEF FilesIInv
<1> QED BY <1>1, BackupInvariant, PTL

\* One restore, failed or killed wherever it may be, loses no transaction.
THEOREM RestoreLosesNothing ==
  FilesSpec => []OneRestoreLosesNothing
<1>1. FilesIInv => OneRestoreLosesNothing
  BY DEF FilesIInv
<1> QED BY <1>1, BackupInvariant, PTL
-----------------------------------------------------------------------------
(***************************************************************************)
(* Devices and groups                                                      *)
(***************************************************************************)
Rows == [DeviceIds -> Device \cup {None}]

GroupRows == [Groups -> Group \cup {None}]

Answers == [Reqs -> [status : {"none", "200", "201", "204", "404", "500"},
                     row : Device \cup {None}]]

LEMMA RowsStart == ASSUME DevicesInit PROVE DevicesIInv
<1>1. DevicesTypeOK
  BY DEF DevicesInit, DevicesTypeOK
<1>2. OnlyUpdatesWait /\ AnswersHaveRequests /\ WaitingIsWritten /\ UpdateTold
  BY DEF DevicesInit, OnlyUpdatesWait, AnswersHaveRequests, WaitingIsWritten,
     UpdateTold, Updated
<1> QED BY <1>1, <1>2 DEF DevicesIInv

\* A new request, and nothing else in the table of requests.
LEMMA AskedIs ==
  ASSUME DevicesTypeOK, NEW q \in Reqs, NEW op \in Ops,
         NEW i \in DeviceIds \cup Groups \cup {None}, NEW o \in Orgs,
         Asks(q, op, i, o)
  PROVE  /\ req[q] = None /\ req'[q] # None
         /\ req'[q].op = op /\ req'[q].id = i
         /\ \A x \in Reqs \ {q} : req'[x] = req[x]
         /\ req' \in [Reqs -> Request \cup {None}]
<1>1. [op |-> op, id |-> i, org |-> o] \in Request
  BY DEF Request
<1>2. [op |-> op, id |-> i, org |-> o] # None
  BY <1>1, DeviceAssumption
<1> QED BY <1>1, <1>2 DEF Asks, DevicesTypeOK

\* The status of one request, and nothing else in the answers.
LEMMA ReplyIs ==
  ASSUME DevicesTypeOK, NEW q \in Reqs,
         NEW status \in {"200", "201", "204", "404", "500"},
         Reply(q, status)
  PROVE  /\ reply' \in Answers /\ reply'[q].status = status
         /\ \A x \in Reqs \ {q} : reply'[x] = reply[x]
  BY DEF Reply, DevicesTypeOK, Answers

\* A 200 shows the row that was read.
LEMMA GetDeviceIs ==
  ASSUME DevicesTypeOK, NEW q \in Reqs, NEW d \in DeviceIds, NEW o,
         GetDevice(q, d, o)
  PROVE  /\ reply' \in Answers /\ reply'[q].status \in {"200", "404"}
         /\ reply'[q].status = "200" => Exists(d) /\ reply'[q].row = device[d]
         /\ \A x \in Reqs \ {q} : reply'[x] = reply[x]
<1>1. CASE Readable(d)
  BY <1>1 DEF GetDevice, DevicesTypeOK, Answers, Readable
<1>2. CASE ~Readable(d)
  BY <1>2, ReplyIs DEF GetDevice
<1> QED BY <1>1, <1>2

\* What one statement and its answer may do to the others' requests: the row of
\* a device keeps its profile, or goes, or is new under an id nobody has used.
LEMMA AnsweredStep ==
  ASSUME DevicesIInv, NEW q \in Reqs, NEW op \in Ops,
         NEW i \in DeviceIds \cup Groups \cup {None}, NEW o \in Orgs,
         Asks(q, op, i, o),
         device' \in Rows, group' \in GroupRows, reply' \in Answers,
         reply'[q].status # "none",
         op = "update" => reply'[q].status # "200",
         \A x \in Reqs \ {q} : reply'[x] = reply[x],
         \A d \in DeviceIds :
           \/ device'[d] = None \/ Unused(d)
           \/ device[d] # None /\ device'[d].profile = device[d].profile,
         writes' = writes, failed' \subseteq Reqs
  PROVE  DevicesIInv'
<1>1. /\ DevicesTypeOK /\ OnlyUpdatesWait /\ AnswersHaveRequests /\ WaitingIsWritten
      /\ UpdateTold
  BY DEF DevicesIInv
<1>2. /\ req[q] = None /\ req'[q] # None
      /\ req'[q].op = op /\ req'[q].id = i
      /\ \A x \in Reqs \ {q} : req'[x] = req[x]
      /\ req' \in [Reqs -> Request \cup {None}]
  BY <1>1, AskedIs
<1>3. DevicesTypeOK'
  BY <1>1, <1>2 DEF DevicesTypeOK, Rows, GroupRows, Answers
<1>4. \A x \in Reqs : Updated(x)' => x # q /\ Updated(x)
  BY <1>2 DEF Updated
<1>5. OnlyUpdatesWait' /\ AnswersHaveRequests'
  BY <1>1, <1>2, <1>4 DEF OnlyUpdatesWait, AnswersHaveRequests
<1>6. WaitingIsWritten'
  <2> SUFFICES ASSUME NEW x \in Reqs, Updated(x)', Exists(req[x].id)', x # q
               PROVE  Written(x, device[req[x].id].profile)'
    BY <1>4 DEF WaitingIsWritten
  <2>1. Updated(x) /\ req'[x] = req[x] /\ req[x].id \in DeviceIds
    BY <1>1, <1>2, <1>4 DEF OnlyUpdatesWait
  <2>2. ~Unused(req[x].id)
    BY <2>1 DEF Unused, Updated
  <2>3. /\ Exists(req[x].id)
        /\ device'[req[x].id].profile = device[req[x].id].profile
    BY <2>1, <2>2 DEF Exists
  <2> QED BY <1>1, <2>1, <2>3 DEF WaitingIsWritten, Written
<1>7. UpdateTold'
  BY <1>1, <1>2 DEF UpdateTold
<1> QED BY <1>3, <1>5, <1>6, <1>7 DEF DevicesIInv

\* A new row has an id nobody waits for.
LEMMA CreateStep ==
  ASSUME DevicesIInv, NEW q \in Reqs, NEW d \in DeviceIds,
         NEW o \in Orgs, CreateDevice(q, d, o)
  PROVE  DevicesIInv'
<1> DEFINE row == [profile |-> q, tags |-> q, group |-> q, org |-> o,
                   status |-> "offline", seen |-> FALSE]
<1>1. DevicesTypeOK /\ Asks(q, "register", d, o) /\ Unused(d) /\ Reply(q, "201")
  BY DEF DevicesIInv, CreateDevice
<1>2. row \in Device
  BY DEF Device
<1>3. device' = [device EXCEPT ![d] = row]
  BY DEF CreateDevice
<1> HIDE DEF row
<1>4. device' \in Rows /\ \A x \in DeviceIds \ {d} : device'[x] = device[x]
  BY <1>1, <1>2, <1>3 DEF Rows, DevicesTypeOK
<1>5. /\ reply' \in Answers /\ reply'[q].status = "201"
      /\ \A x \in Reqs \ {q} : reply'[x] = reply[x]
  BY <1>1, ReplyIs
<1> QED BY <1>1, <1>4, <1>5, AnsweredStep
    DEF CreateDevice, Ops, DevicesTypeOK, GroupRows

\* A list changes no row.
LEMMA ListStep ==
  ASSUME DevicesIInv, NEW q \in Reqs, NEW o \in Orgs,
         ListDevices(q, o)
  PROVE  DevicesIInv'
<1>1. DevicesTypeOK /\ group \in GroupRows /\ device \in Rows /\ failed \subseteq Reqs
  BY DEF DevicesIInv, DevicesTypeOK, GroupRows, Rows
<1>2. PICK status \in {"200", "500"} : Reply(q, status)
  BY DEF ListDevices
<1>3. /\ reply' \in Answers /\ reply'[q].status = status
      /\ \A x \in Reqs \ {q} : reply'[x] = reply[x]
  BY <1>1, <1>2, ReplyIs
<1> QED BY <1>1, <1>3, AnsweredStep DEF ListDevices, Ops, Exists

\* The requests that read one row, or take it away.
LEMMA RowStep ==
  ASSUME DevicesIInv, NEW q \in Reqs, NEW d \in DeviceIds,
         NEW o \in Orgs, HandleGet(q, d, o) \/ DeleteDevice(q, d, o)
  PROVE  DevicesIInv'
<1>1. DevicesTypeOK /\ group \in GroupRows /\ device \in Rows /\ failed \subseteq Reqs
  BY DEF DevicesIInv, DevicesTypeOK, GroupRows, Rows
<1>2. CASE HandleGet(q, d, o)
  <2>1. /\ reply' \in Answers /\ reply'[q].status \in {"200", "404"}
        /\ \A x \in Reqs \ {q} : reply'[x] = reply[x]
    BY <1>1, <1>2, GetDeviceIs DEF HandleGet
  <2> QED BY <1>1, <1>2, <2>1, AnsweredStep DEF HandleGet, Ops
<1>3. CASE DeleteDevice(q, d, o)
  <2>1. /\ reply' \in Answers /\ reply'[q].status = "204"
        /\ \A x \in Reqs \ {q} : reply'[x] = reply[x]
    BY <1>1, <1>3, ReplyIs DEF DeleteDevice
  <2>2. /\ device' \in Rows
        /\ \A x \in DeviceIds : device'[x] \in {None, device[x]}
    BY <1>1, <1>3 DEF DeleteDevice, Rows
  <2> QED BY <1>1, <1>3, <2>1, <2>2, AnsweredStep DEF DeleteDevice, Ops
<1> QED BY <1>2, <1>3

\* The requests of modules/fleet on a device: another column than the profile.
LEMMA ColumnStep ==
  ASSUME DevicesIInv, NEW q \in Reqs, NEW d \in DeviceIds,
         NEW o \in Orgs, AddTags(q, d, o) \/ SetGroup(q, d, o)
  PROVE  DevicesIInv'
<1>1. DevicesTypeOK /\ group \in GroupRows /\ device \in Rows /\ failed \subseteq Reqs
  BY DEF DevicesIInv, DevicesTypeOK, GroupRows, Rows
<1>2. PICK status \in {"200", "404"} : Reply(q, status)
  BY DEF AddTags, SetGroup
<1>3. /\ reply' \in Answers /\ reply'[q].status = status
      /\ \A x \in Reqs \ {q} : reply'[x] = reply[x]
  BY <1>1, <1>2, ReplyIs
<1>4. /\ device' \in Rows
      /\ \A x \in DeviceIds : \/ device'[x] = device[x]
                              \/ /\ device[x] # None
                                 /\ device'[x].profile = device[x].profile
  <2>1. CASE device' = device
    BY <1>1, <2>1
  <2>2. CASE device' = [device EXCEPT ![d].tags = q] /\ Exists(d)
    BY <1>1, <2>2 DEF Rows, Device, Exists
  <2>3. CASE device' = [device EXCEPT ![d].group = q] /\ Exists(d)
    BY <1>1, <2>3 DEF Rows, Device, Exists
  <2> QED BY <2>1, <2>2, <2>3 DEF AddTags, SetGroup
<1>5. \E op \in {"tags", "group"} : Asks(q, op, d, o)
  BY DEF AddTags, SetGroup
<1> QED BY <1>1, <1>3, <1>4, <1>5, AnsweredStep DEF AddTags, SetGroup, Ops

\* The groups are no devices.
LEMMA GroupStep ==
  ASSUME DevicesIInv, NEW q \in Reqs, NEW g \in Groups,
         NEW o \in Orgs,
         (\E n \in GroupNames : CreateGroup(q, g, n, o)) \/ DeleteGroup(q, g, o)
  PROVE  DevicesIInv'
<1>1. DevicesTypeOK /\ group \in GroupRows /\ device \in Rows /\ failed \subseteq Reqs
  BY DEF DevicesIInv, DevicesTypeOK, GroupRows, Rows
<1>2. PICK status \in {"201", "204", "404", "500"} : Reply(q, status)
  BY DEF CreateGroup, DeleteGroup
<1>3. /\ reply' \in Answers /\ reply'[q].status = status
      /\ \A x \in Reqs \ {q} : reply'[x] = reply[x]
  BY <1>1, <1>2, ReplyIs
<1>4. group' \in GroupRows
  BY <1>1 DEF CreateGroup, DeleteGroup, GroupRows, Group
<1>5. \E op \in {"create_group", "delete_group"} : Asks(q, op, g, o)
  BY DEF CreateGroup, DeleteGroup
<1>6. device' = device /\ writes' = writes /\ failed' = failed
  BY DEF CreateGroup, DeleteGroup
<1> QED BY <1>1, <1>3, <1>4, <1>5, <1>6, AnsweredStep DEF Ops

\* A statement that fails changes no row, and its request is answered.
LEMMA FailingStep ==
  ASSUME DevicesIInv, NEW q \in Reqs, NEW op \in Ops,
         NEW i \in DeviceIds \cup Groups \cup {None}, NEW o \in Orgs,
         StatementFails(q, op, i, o)
  PROVE  DevicesIInv'
<1>1. DevicesTypeOK /\ group \in GroupRows /\ device \in Rows /\ failed \subseteq Reqs
  BY DEF DevicesIInv, DevicesTypeOK, GroupRows, Rows
<1>2. PICK status \in {"404", "500"} : Reply(q, status)
  BY DEF StatementFails, ErrorStatus
<1>3. /\ reply' \in Answers /\ reply'[q].status = status
      /\ \A x \in Reqs \ {q} : reply'[x] = reply[x]
  BY <1>1, <1>2, ReplyIs
<1> QED BY <1>1, <1>3, AnsweredStep DEF StatementFails

\* One more write: what was written stays so, and is followed by the new one.
LEMMA WrittenGrows ==
  ASSUME writes \in Seq(Reqs), NEW q \in Reqs, writes' = Append(writes, q)
  PROVE  /\ \A x, profile : Written(x, profile) =>
                              Written(x, profile)' /\ Written(x, q)'
         /\ Written(q, q)'
<1>1. /\ Len(writes) \in Nat /\ Len(writes') = Len(writes) + 1
      /\ \A k \in 1..Len(writes) : writes'[k] = writes[k]
      /\ writes'[Len(writes) + 1] = q
  OBVIOUS
<1>2. Written(q, q)'
  BY <1>1 DEF Written
<1>3. ASSUME NEW x, NEW profile, Written(x, profile)
      PROVE  Written(x, profile)' /\ Written(x, q)'
  <2>1. PICK i, j \in 1..Len(writes) :
          i <= j /\ writes[i] = x /\ writes[j] = profile
    BY <1>3 DEF Written
  <2>2. Written(x, profile)'
    BY <1>1, <2>1 DEF Written
  <2>3. i \in 1..Len(writes') /\ Len(writes') \in 1..Len(writes')
        /\ i <= Len(writes')
    BY <1>1, <2>1
  <2>4. Written(x, q)'
    BY <1>1, <2>1, <2>3 DEF Written
  <2> QED BY <2>2, <2>4
<1> QED BY <1>2, <1>3

\* The row that an update hits has it, and every update before it that still
\* waits is followed by it.
LEMMA UpdateStep ==
  ASSUME DevicesIInv, NEW q \in Reqs, NEW d \in DeviceIds,
         NEW o \in Orgs, UpdateDevice(q, d, o)
  PROVE  DevicesIInv'
<1>1. /\ DevicesTypeOK /\ OnlyUpdatesWait /\ AnswersHaveRequests /\ WaitingIsWritten
      /\ UpdateTold
  BY DEF DevicesIInv
<1>2. /\ req[q] = None /\ req'[q] # None
      /\ req'[q].op = "update" /\ req'[q].id = d
      /\ \A x \in Reqs \ {q} : req'[x] = req[x]
      /\ req' \in [Reqs -> Request \cup {None}]
  BY <1>1, AskedIs DEF UpdateDevice, Ops
<1>3. UNCHANGED <<group, reply, failed>> /\ reply[q].status = "none"
  BY <1>1, <1>2, Zenon DEF UpdateDevice, AnswersHaveRequests
<1>4. OnlyUpdatesWait' /\ AnswersHaveRequests'
  BY <1>1, <1>2, <1>3 DEF OnlyUpdatesWait, AnswersHaveRequests, Updated
<1>5. \A x \in Reqs \ {q} : Updated(x)' => Updated(x) /\ req[x].id \in DeviceIds
  BY <1>1, <1>2, <1>3 DEF Updated, OnlyUpdatesWait
<1>6. CASE ~Exists(d)
  <2>1. UNCHANGED <<device, writes>>
    BY <1>6 DEF UpdateDevice, Update
  <2>2. DevicesTypeOK'
    BY <1>1, <1>2, <1>3, <2>1 DEF DevicesTypeOK
  <2>3. WaitingIsWritten'
    BY <1>1, <1>2, <1>5, <1>6, <2>1 DEF WaitingIsWritten, Written, Exists
  <2>4. UpdateTold'
    BY <1>1, <1>2, <1>3, <2>1 DEF UpdateTold
  <2> QED BY <1>4, <2>2, <2>3, <2>4 DEF DevicesIInv
<1>7. CASE Exists(d)
  <2>1. /\ writes' = Append(writes, q) /\ writes' \in Seq(Reqs)
    <3>1. writes' = Append(writes, q)
      BY <1>7, Zenon DEF UpdateDevice, Update
    <3> QED BY <1>1, <3>1 DEF DevicesTypeOK
  <2>2. /\ device' \in Rows /\ device'[d].profile = q
        /\ \A x \in DeviceIds \ {d} : device'[x] = device[x]
    <3> DEFINE row == [device[d] EXCEPT !.profile = q, !.tags = q, !.group = q]
    <3>1. row \in Device /\ row.profile = q
      BY <1>1, <1>7 DEF DevicesTypeOK, Device, Exists
    <3>2. device' = [device EXCEPT ![d] = row]
      BY <1>7, Zenon DEF UpdateDevice, Update
    <3> HIDE DEF row
    <3> QED BY <1>1, <3>1, <3>2 DEF DevicesTypeOK, Rows
  <2>3. DevicesTypeOK'
    BY <1>1, <1>2, <1>3, <2>1, <2>2 DEF DevicesTypeOK, Rows
  <2>4. /\ \A x, profile : Written(x, profile) =>
                             Written(x, profile)' /\ Written(x, q)'
        /\ Written(q, q)'
    BY <1>1, <2>1, WrittenGrows DEF DevicesTypeOK
  <2>5. WaitingIsWritten'
    <3> SUFFICES ASSUME NEW x \in Reqs, Updated(x)', Exists(req[x].id)'
                 PROVE  Written(x, device[req[x].id].profile)'
      BY DEF WaitingIsWritten
    <3>1. CASE x = q
      BY <1>2, <2>2, <2>4, <3>1
    <3>2. CASE x # q
      <4>1. Updated(x) /\ req'[x] = req[x] /\ req[x].id \in DeviceIds
        BY <1>2, <1>5, <3>2
      <4>2. Exists(req[x].id)
        BY <1>7, <2>2, <4>1 DEF Exists
      <4>3. Written(x, device[req[x].id].profile)
        BY <1>1, <4>1, <4>2 DEF WaitingIsWritten
      <4>4. device'[req[x].id].profile \in {q, device[req[x].id].profile}
        BY <2>2, <4>1
      <4> QED BY <2>4, <4>1, <4>3, <4>4
    <3> QED BY <3>1, <3>2
  <2>6. UpdateTold'
    <3> SUFFICES ASSUME NEW x \in Reqs, reply'[x].status = "200",
                        req'[x].op = "update"
                 PROVE  Written(x, reply[x].row.profile)'
      BY DEF UpdateTold, Written
    <3>1. x # q /\ Written(x, reply[x].row.profile)
      BY <1>1, <1>2, <1>3 DEF UpdateTold, Written
    <3> QED BY <1>3, <2>4, <3>1
  <2> QED BY <1>4, <2>3, <2>5, <2>6 DEF DevicesIInv
<1> QED BY <1>6, <1>7

\* The answer of an update is read from a row that has it.
LEMMA AnswerStep ==
  ASSUME DevicesIInv, NEW q \in Reqs,
         AnswerUpdate(q) \/ AnswerFails(q)
  PROVE  DevicesIInv'
<1>1. /\ DevicesTypeOK /\ OnlyUpdatesWait /\ AnswersHaveRequests /\ WaitingIsWritten
      /\ UpdateTold
  BY DEF DevicesIInv
<1>2. Updated(q) /\ req[q].op = "update" /\ req[q].id \in DeviceIds
  BY <1>1 DEF AnswerUpdate, AnswerFails, OnlyUpdatesWait
<1>3. /\ UNCHANGED <<device, group, req, writes>> /\ failed' \subseteq Reqs
      /\ reply' \in Answers /\ reply'[q].status \in {"200", "404"}
      /\ reply'[q].status = "200" =>
           Exists(req[q].id) /\ reply'[q].row = device[req[q].id]
      /\ \A x \in Reqs \ {q} : reply'[x] = reply[x]
  <2>1. CASE AnswerUpdate(q)
    BY <1>1, <1>2, <2>1, GetDeviceIs DEF AnswerUpdate, DevicesTypeOK
  <2>2. CASE AnswerFails(q)
    <3>1. /\ reply' \in Answers /\ reply'[q].status = "404"
          /\ \A x \in Reqs \ {q} : reply'[x] = reply[x]
      BY <1>1, <2>2, ReplyIs DEF AnswerFails
    <3> QED BY <1>1, <2>2, <3>1 DEF AnswerFails, DevicesTypeOK
  <2> QED BY <2>1, <2>2
<1>4. DevicesTypeOK'
  BY <1>1, <1>3 DEF DevicesTypeOK, Answers
<1>5. \A x \in Reqs : Updated(x)' => Updated(x)
  BY <1>2, <1>3 DEF Updated
<1>6. OnlyUpdatesWait' /\ AnswersHaveRequests' /\ WaitingIsWritten'
  BY <1>1, <1>2, <1>3, <1>5
     DEF OnlyUpdatesWait, AnswersHaveRequests, WaitingIsWritten,
         Updated, Written, Exists
<1>7. UpdateTold'
  <2> SUFFICES ASSUME NEW x \in Reqs, reply'[x].status = "200",
                      req[x].op = "update"
               PROVE  Written(x, reply'[x].row.profile)
    BY <1>3 DEF UpdateTold, Written
  <2>1. CASE x = q
    BY <1>1, <1>2, <1>3, <2>1 DEF WaitingIsWritten
  <2>2. CASE x # q
    BY <1>1, <1>3, <2>2 DEF UpdateTold, Written
  <2> QED BY <2>1, <2>2
<1> QED BY <1>4, <1>6, <1>7 DEF DevicesIInv

\* A reading changes no profile.
LEMMA TouchStep ==
  ASSUME DevicesIInv, NEW d \in DeviceIds, Touch(d)
  PROVE  DevicesIInv'
<1>1. /\ DevicesTypeOK /\ OnlyUpdatesWait /\ AnswersHaveRequests /\ WaitingIsWritten
      /\ UpdateTold
  BY DEF DevicesIInv
<1>2. UNCHANGED <<group, req, reply, writes, failed>>
  BY DEF Touch
<1>3. /\ device' \in Rows
      /\ \A x \in DeviceIds : device'[x] # None =>
           device[x] # None /\ device'[x].profile = device[x].profile
  <2> DEFINE row == [device[d] EXCEPT !.status = "online", !.seen = TRUE]
  <2>1. device[d] # None /\ row \in Device /\ row.profile = device[d].profile
    BY <1>1 DEF Touch, Exists, DevicesTypeOK, Device
  <2>2. device' = [device EXCEPT ![d] = row]
    BY DEF Touch
  <2> HIDE DEF row
  <2> QED BY <1>1, <2>1, <2>2 DEF DevicesTypeOK, Rows
<1>4. DevicesTypeOK'
  BY <1>1, <1>2, <1>3 DEF DevicesTypeOK, Rows
<1>5. OnlyUpdatesWait' /\ AnswersHaveRequests' /\ UpdateTold'
  BY <1>1, <1>2
     DEF OnlyUpdatesWait, AnswersHaveRequests, UpdateTold, Updated
<1>6. WaitingIsWritten'
  BY <1>1, <1>2, <1>3
     DEF OnlyUpdatesWait, WaitingIsWritten, Updated, Written, Exists
<1> QED BY <1>4, <1>5, <1>6 DEF DevicesIInv

LEMMA DevicesStep ==
  ASSUME DevicesIInv, [DevicesNext]_rowVars
  PROVE  DevicesIInv'
<1>1. CASE UNCHANGED rowVars
  BY <1>1
     DEF rowVars, DevicesIInv, DevicesTypeOK, OnlyUpdatesWait, AnswersHaveRequests,
         WaitingIsWritten, UpdateTold, Updated, Written, Exists
<1>2. ASSUME NEW q \in Reqs, NEW o \in Orgs, NEW d \in DeviceIds,
             HandleDevice(q, d, o)
      PROVE  DevicesIInv'
  <2>1. \A op \in {"get", "update", "delete", "tags", "group"} : op \in Ops
    BY DEF Ops
  <2>2. CASE \E op \in {"get", "update", "delete", "tags", "group"} :
               StatementFails(q, op, d, o)
    BY <2>1, <2>2, FailingStep
  <2> QED BY <1>2, <2>2, CreateStep, RowStep, UpdateStep, ColumnStep
      DEF HandleDevice
<1>3. ASSUME NEW q \in Reqs, NEW o \in Orgs, NEW g \in Groups,
             HandleGroup(q, g, o)
      PROVE  DevicesIInv'
  <2>1. "delete_group" \in Ops
    BY DEF Ops
  <2> QED BY <1>3, <2>1, GroupStep, FailingStep DEF HandleGroup
<1>4. ASSUME NEW q \in Reqs, NEW o \in Orgs,
             NEW op \in {"register", "list", "create_group"},
             StatementFails(q, op, None, o)
      PROVE  DevicesIInv'
  BY <1>4, FailingStep DEF Ops
<1> QED BY <1>1, <1>2, <1>3, <1>4, ListStep, AnswerStep, TouchStep DEF DevicesNext

\* DevicesIInv, of module Devices, holds, however requests and readings
\* interleave and whichever statements fail.
THEOREM DevicesInvariant == DevicesSpec => []DevicesIInv
<1>1. DevicesInit => DevicesIInv
  BY RowsStart
<1>2. DevicesIInv /\ [DevicesNext]_rowVars => DevicesIInv'
  BY DevicesStep
<1> QED BY <1>1, <1>2, PTL DEF DevicesSpec

\* Every row, request and answer has its type.
THEOREM DevicesTypes == DevicesSpec => []DevicesTypeOK
<1>1. DevicesIInv => DevicesTypeOK
  BY DEF DevicesIInv
<1> QED BY <1>1, DevicesInvariant, PTL

\* An update answered with 200 has hit the row, and its answer shows it or a
\* later one.
THEOREM UpdatesAreTold ==
  DevicesSpec => []UpdateTold
<1>1. DevicesIInv => UpdateTold
  BY DEF DevicesIInv
<1> QED BY <1>1, DevicesInvariant, PTL

\* Only CreateDevice and CreateGroup make a row, under an id that was in no
\* request.
LEMMA NewRowsAreUnused ==
  ASSUME DevicesTypeOK, DevicesNext, NEW i \in DeviceIds \cup Groups,
         ~Here(i), Here(i)'
  PROVE  Unused(i)
<1>1. \/ i \in DeviceIds /\ device[i] = None /\ device'[i] # None
      \/ i \in Groups /\ group[i] = None /\ group'[i] # None
  BY DEF Here, Exists
<1>2. ASSUME NEW q \in Reqs, NEW o \in Orgs, NEW d \in DeviceIds,
             HandleDevice(q, d, o)
      PROVE  Unused(i)
  <2>1. CASE CreateDevice(q, d, o)
    BY <1>1, <2>1 DEF CreateDevice, DevicesTypeOK
  <2>2. CASE AddTags(q, d, o) \/ SetGroup(q, d, o)
    BY <1>1, <2>2 DEF AddTags, SetGroup, Exists, DevicesTypeOK
  <2>3. CASE DeleteDevice(q, d, o)
    BY <1>1, <2>3 DEF DeleteDevice, DevicesTypeOK
  <2>4. CASE UpdateDevice(q, d, o)
    BY <1>1, <2>4 DEF UpdateDevice, Update, Exists, DevicesTypeOK
  <2>5. CASE UNCHANGED <<device, group>>
    BY <1>1, <2>5
  <2> QED BY <1>2, <2>1, <2>2, <2>3, <2>4, <2>5
     DEF HandleDevice, HandleGet, StatementFails
<1>3. ASSUME NEW q \in Reqs, NEW o \in Orgs, NEW g \in Groups,
             HandleGroup(q, g, o)
      PROVE  Unused(i)
  <2>1. CASE \E n \in GroupNames : CreateGroup(q, g, n, o)
    BY <1>1, <2>1 DEF CreateGroup, DevicesTypeOK
  <2>2. CASE DeleteGroup(q, g, o)
    BY <1>1, <2>2 DEF DeleteGroup, DevicesTypeOK
  <2>3. CASE UNCHANGED <<device, group>>
    BY <1>1, <2>3
  <2> QED BY <1>3, <2>1, <2>2, <2>3 DEF HandleGroup, StatementFails
<1>4. ASSUME NEW d \in DeviceIds, Touch(d) PROVE Unused(i)
  BY <1>1, <1>4 DEF Touch, Exists, DevicesTypeOK
<1>5. CASE UNCHANGED <<device, group>>
  BY <1>1, <1>5
<1> QED BY <1>2, <1>3, <1>4, <1>5
   DEF DevicesNext, ListDevices, StatementFails, AnswerUpdate, AnswerFails

\* A device or a group that was registered and is gone never comes back.
THEOREM DeletedNeverReturns ==
  DevicesSpec => DeletedStaysDeleted
<1> DEFINE Stays ==
  \A i \in DeviceIds \cup Groups :
    (~Here(i) /\ \E q \in Reqs : reply[q].status = "201" /\ req[q].id = i)
      => ~Here(i)'
<1>1. ASSUME DevicesIInv, [DevicesNext]_rowVars PROVE [Stays]_rowVars
  <2> SUFFICES ASSUME DevicesNext, NEW i \in DeviceIds \cup Groups, ~Here(i),
                      Here(i)',
                      NEW q \in Reqs, reply[q].status = "201", req[q].id = i
               PROVE  FALSE
    BY <1>1
  <2>1. Unused(i)
    BY <1>1, NewRowsAreUnused DEF DevicesIInv
  <2>2. req[q] # None
    BY <1>1 DEF DevicesIInv, AnswersHaveRequests
  <2> QED BY <2>1, <2>2 DEF Unused
<1>2. DevicesIInv /\ [DevicesNext]_rowVars => [Stays]_rowVars
  BY <1>1
<1> QED BY <1>2, DevicesInvariant, PTL DEF DevicesSpec, DeletedStaysDeleted
-----------------------------------------------------------------------------
(***************************************************************************)
(* The Migrator                                                            *)
(***************************************************************************)

\* What the constants say of the list that Add was given.
LEMMA ListIs ==
  ASSUME MigratorTypeOK
  PROVE  /\ Places \subseteq Nat
         /\ \A i \in Places : /\ migrations[i].version \in Nat
                              /\ migrations[i].name \in Names
                              /\ migrations[i].down \in BOOLEAN
         /\ \A i, j \in Places : i < j =>
              migrations[i].version < migrations[j].version
         /\ \A i, j \in Places : i # j =>
              /\ migrations[i].version # migrations[j].version
              /\ migrations[i].name # migrations[j].name
<1>1. migrations \in Seq(Migration) /\ migrations \in Lists
  BY MigratorAssumption DEF MigratorTypeOK
<1>2. /\ Places \subseteq Nat
      /\ \A i \in Places : migrations[i] \in Migration
  BY <1>1 DEF Places
<1>3. \A i, j \in Places : i < j => /\ migrations[i].version < migrations[j].version
                                    /\ migrations[i].name # migrations[j].name
  BY <1>1, MigratorAssumption DEF Places
<1>4. \A i \in Places : /\ migrations[i].version \in Nat
                        /\ migrations[i].name \in Names
                        /\ migrations[i].down \in BOOLEAN
  BY <1>2 DEF Migration
<1>5. ASSUME NEW i \in Places, NEW j \in Places, i # j
      PROVE  /\ migrations[i].version # migrations[j].version
             /\ migrations[i].name # migrations[j].name
  <2>1. i < j \/ j < i
    BY <1>2, <1>5
  <2> QED BY <1>3, <1>4, <2>1
<1> QED BY <1>2, <1>3, <1>4, <1>5

\* Unless Migrate took a version of the list, who is recorded is in effect.
LEMMA AppliedIsInEffect ==
  ASSUME VersionsAreNames, RecordsTellSchema, ~taken,
         NEW i \in Places
  PROVE  Applied(i) <=> InEffect(i)
  BY DEF Applied, Versions, InEffect, Recorded, VersionsAreNames,
     RecordsTellSchema

\* A new row adds its name to the recorded ones.
LEMMA RecordedGrows ==
  ASSUME NEW v, NEW n,
         records' = records \union {[version |-> v, name |-> n]}
  PROVE  Recorded' = Recorded \union {n}
<1> DEFINE row == [version |-> v, name |-> n]
<1>1. row.name = n /\ records' = records \union {row}
  OBVIOUS
<1> HIDE DEF row
<1>2. {r.name : r \in records \union {row}} = {r.name : r \in records} \union {row.name}
  OBVIOUS
<1> QED BY <1>1, <1>2 DEF Recorded

LEMMA MigratorStarts == ASSUME MigratorInit PROVE MigratorIInv
<1>1. MigratorTypeOK
  BY DEF MigratorInit, MigratorTypeOK
<1>2. VersionsAreNames /\ UpIsAhead /\ DownIsLast /\ DownToIsAhead /\ IdleIsAnswered
  BY DEF MigratorInit, VersionsAreNames, UpIsAhead, DownIsLast, DownToIsAhead,
     IdleIsAnswered
<1>3. CallsDoWhatTheySay /\ RecordsTellSchema
  BY DEF MigratorInit, CallsDoWhatTheySay, RecordsTellSchema, Recorded
<1>4. InOrder
  BY DEF MigratorInit, InOrder, InEffect
<1> QED BY <1>1, <1>2, <1>3, <1>4 DEF MigratorIInv

\* A module's name comes with a version of its own, and is no name of the list.
LEMMA MigrateStep ==
  ASSUME MigratorIInv, NEW n \in Named, Migrate(n)
  PROVE  MigratorIInv'
<1>1. MigratorTypeOK /\ Places' = Places
  BY DEF MigratorIInv, Migrate, Places
<1>2. PICK v \in {w + 1 : w \in Versions \union {0}} :
        /\ \A w \in Versions : w < v
        /\ records' = records \union {[version |-> v, name |-> n]}
        /\ taken' = (taken \/ \E i \in Places : migrations[i].version = v)
  BY DEF Migrate
<1>3. /\ call = "idle" /\ schema' = schema \union {n} /\ answer' = "none"
      /\ UNCHANGED <<migrations, call, todo, target>>
  BY DEF Migrate
<1>4. v \in Nat
  BY <1>1 DEF MigratorTypeOK, Versions
<1>5. taken' \in BOOLEAN /\ (taken => taken')
  BY <1>1, <1>2, Zenon DEF MigratorTypeOK
<1>6. ~taken' => ~taken /\ \A i \in Places : migrations[i].version # v
  BY <1>2, Zenon
<1>7. \A i \in Places : migrations[i].name # n
  BY <1>1, ListIs, MigratorAssumption
<1>8. MigratorTypeOK'
  BY <1>1, <1>2, <1>3, <1>4, <1>5 DEF MigratorTypeOK
<1>9. VersionsAreNames'
  BY <1>1, <1>2, <1>3, <1>6, <1>7 DEF MigratorIInv, VersionsAreNames
<1>10. RecordsTellSchema'
  <2>1. Recorded' = Recorded \union {n}
    BY <1>2, RecordedGrows
  <2> QED BY <1>3, <1>6, <2>1 DEF MigratorIInv, RecordsTellSchema
<1>11. UpIsAhead' /\ DownIsLast' /\ DownToIsAhead' /\ IdleIsAnswered'
       /\ CallsDoWhatTheySay'
  BY <1>3 DEF UpIsAhead, DownIsLast, DownToIsAhead, IdleIsAnswered,
     CallsDoWhatTheySay
<1>12. InOrder'
  BY <1>1, <1>3, <1>6, <1>7 DEF MigratorIInv, InOrder, InEffect
<1> QED BY <1>8, <1>9, <1>10, <1>11, <1>12 DEF MigratorIInv

\* A call begins: what it leaves out is as it wants it.
LEMMA CallStep ==
  ASSUME MigratorIInv,
         Up \/ Down \/ \E t \in Targets : DownTo(t)
  PROVE  MigratorIInv'
<1>1. /\ MigratorTypeOK /\ Places' = Places
      /\ call' \in {"up", "down", "downto"}
      /\ answer' = "none" /\ target' \in Targets /\ todo' \subseteq Places
      /\ UNCHANGED <<migrations, records, schema, taken>>
  BY DEF MigratorIInv, Up, Down, DownTo, Call, ToRevert, Places, MigratorTypeOK
<1>2. MigratorTypeOK'
  BY <1>1 DEF MigratorTypeOK
<1>3. VersionsAreNames' /\ RecordsTellSchema' /\ InOrder'
  BY <1>1
     DEF MigratorIInv, VersionsAreNames, RecordsTellSchema, Recorded, InOrder,
         InEffect
<1>4. IdleIsAnswered' /\ CallsDoWhatTheySay'
  BY <1>1 DEF IdleIsAnswered, CallsDoWhatTheySay
<1>5. ~taken => \A i \in Places : Applied(i) <=> InEffect(i)
  BY AppliedIsInEffect DEF MigratorIInv
<1>6. UpIsAhead'
  BY <1>1, <1>5 DEF UpIsAhead, Up, Down, DownTo, Call, InEffect
<1>7. DownIsLast'
  <2> SUFFICES ASSUME ~taken, call' = "down", NEW i \in todo',
                      NEW j \in Places, i < j
               PROVE  ~InEffect(j)
    BY <1>1 DEF DownIsLast, InEffect
  <2>1. i \in Places /\ \A w \in Versions : w <= migrations[i].version
    BY <1>1 DEF Up, Down, DownTo, Call
  <2>2. /\ migrations[i].version \in Nat /\ migrations[j].version \in Nat
        /\ migrations[i].version < migrations[j].version
    BY <1>1, <2>1, ListIs
  <2>3. ~Applied(j)
    BY <2>1, <2>2 DEF Applied
  <2> QED BY <1>5, <2>3
<1>8. DownToIsAhead'
  <2> SUFFICES ASSUME ~taken, call' = "downto" PROVE DownToIsAhead'
    BY <1>1 DEF DownToIsAhead
  <2>1. todo' = ToRevert(target')
    BY DEF Up, Down, DownTo, Call
  <2>2. target' \in Int
    BY <1>1, MigratorAssumption
  <2>3. \A i \in todo' : target' >= 0 => migrations[i].version > target'
    BY <1>1, <2>1, ListIs DEF ToRevert
  <2>4. ASSUME NEW i \in Places, InEffect(i), i \notin todo'
        PROVE  target' >= 0 /\ migrations[i].version <= target'
    <3>1. PICK j \in Places : /\ j >= i /\ target' >= 0
                              /\ ~(migrations[j].version > target')
      BY <1>5, <2>1, <2>4 DEF ToRevert
    <3>2. /\ migrations[i].version \in Nat /\ migrations[j].version \in Nat
          /\ i \in Nat /\ j \in Nat
      BY <1>1, ListIs
    <3>3. migrations[i].version <= migrations[j].version
      BY <1>1, <3>1, <3>2, ListIs
    <3> QED BY <2>2, <3>1, <3>2, <3>3
  <2> QED BY <1>1, <2>3, <2>4 DEF DownToIsAhead, InEffect
<1> QED BY <1>2, <1>3, <1>4, <1>6, <1>7, <1>8 DEF MigratorIInv

\* One migration of Up: all those before it are in effect.
LEMMA ApplyStep ==
  ASSUME MigratorIInv, NEW i \in todo, Apply(i) PROVE MigratorIInv'
<1> DEFINE m == migrations[i]
<1>1. /\ MigratorTypeOK /\ Places' = Places /\ i \in Places
      /\ m.version \in Nat /\ m.name \in Names
  BY ListIs DEF MigratorIInv, Apply, Places, MigratorTypeOK
<1>2. /\ call = "up" /\ (\A j \in todo : i <= j) /\ todo' = todo \ {i}
      /\ m.name \notin schema /\ schema' = schema \union {m.name}
      /\ records' = {r \in records : r.version # m.version /\ r.name # m.name}
                      \union {[version |-> m.version, name |-> m.name]}
      /\ UNCHANGED <<migrations, call, target, answer, taken>>
  BY DEF Apply
<1>3. \A j \in Places : i # j => m.version # migrations[j].version
                                /\ m.name # migrations[j].name
  BY <1>1, ListIs
<1>4. MigratorTypeOK'
  BY <1>1, <1>2 DEF MigratorTypeOK
<1>5. VersionsAreNames'
  BY <1>1, <1>2, <1>3 DEF MigratorIInv, VersionsAreNames
<1>6. RecordsTellSchema'
  <2> SUFFICES ASSUME ~taken PROVE schema' = Recorded'
    BY <1>2 DEF RecordsTellSchema
  <2>1. schema = Recorded
    BY DEF MigratorIInv, RecordsTellSchema
  <2>2. \A r \in records : r.name # m.name
    BY <1>2, <2>1 DEF Recorded
  <2>3. \A r \in records : r.version # m.version
    BY <1>1, <2>2 DEF MigratorIInv, VersionsAreNames
  <2>4. records' = records \union {[version |-> m.version, name |-> m.name]}
    BY <1>2, <2>2, <2>3
  <2>5. Recorded' = Recorded \union {m.name}
    BY <2>4, RecordedGrows
  <2> QED BY <1>2, <2>1, <2>5
<1>7. UpIsAhead' /\ DownIsLast' /\ DownToIsAhead' /\ IdleIsAnswered'
  BY <1>1, <1>2
     DEF MigratorIInv, UpIsAhead, DownIsLast, DownToIsAhead, IdleIsAnswered,
         InEffect
<1>8. CallsDoWhatTheySay'
  BY <1>2 DEF MigratorIInv, IdleIsAnswered, CallsDoWhatTheySay
<1>9. InOrder'
  <2> SUFFICES ASSUME ~taken, \A k \in Places : migrations[k].down,
                      NEW j \in Places, NEW k \in Places, j < k,
                      migrations[k].name \in schema'
               PROVE  migrations[j].name \in schema'
    BY <1>1, <1>2 DEF InOrder, InEffect
  <2>1. CASE k = i
    <3>1. j \notin todo
      BY <1>1, <1>2, <2>1, ListIs
    <3> QED BY <1>2, <3>1 DEF MigratorIInv, UpIsAhead, InEffect
  <2>2. CASE k # i
    <3>1. migrations[k].name \in schema
      BY <1>2, <1>3, <2>2
    <3> QED BY <1>2, <3>1 DEF MigratorIInv, InOrder, InEffect
  <2> QED BY <2>1, <2>2
<1> QED BY <1>4, <1>5, <1>6, <1>7, <1>8, <1>9 DEF MigratorIInv

\* One migration of Down or DownTo: none after it is in effect.
LEMMA RevertStep ==
  ASSUME MigratorIInv, NEW i \in todo, Revert(i) PROVE MigratorIInv'
<1> DEFINE m == migrations[i]
<1>1. /\ MigratorTypeOK /\ Places' = Places /\ i \in Places
      /\ m.version \in Nat /\ m.name \in Names /\ m.down \in BOOLEAN
  BY ListIs DEF MigratorIInv, Revert, Places, MigratorTypeOK
<1>2. /\ call \in {"down", "downto"} /\ (\A j \in todo : i >= j) /\ todo' = todo \ {i}
      /\ UNCHANGED <<migrations, call, target, answer, taken>>
      /\ \/ ~m.down /\ UNCHANGED <<records, schema>>
         \/ /\ m.down /\ m.name \in schema /\ schema' = schema \ {m.name}
            /\ records' = {r \in records : r.version # m.version}
  BY DEF Revert
<1>3. \A j \in Places : i # j => m.version # migrations[j].version
                                /\ m.name # migrations[j].name
  BY <1>1, ListIs
<1>4. MigratorTypeOK'
  BY <1>1, <1>2 DEF MigratorTypeOK
<1>5. VersionsAreNames'
  BY <1>1, <1>2 DEF MigratorIInv, VersionsAreNames
<1>6. RecordsTellSchema'
  <2> SUFFICES ASSUME ~taken PROVE schema' = Recorded'
    BY <1>2 DEF RecordsTellSchema
  <2>1. schema = Recorded
    BY DEF MigratorIInv, RecordsTellSchema
  <2>2. CASE UNCHANGED <<records, schema>>
    BY <2>1, <2>2 DEF Recorded
  <2>3. CASE schema' = schema \ {m.name} /\ records' = {r \in records : r.version # m.version}
    <3>1. \A r \in records : r.version # m.version <=> r.name # m.name
      BY <1>1 DEF MigratorIInv, VersionsAreNames
    <3>2. Recorded' = Recorded \ {m.name}
      BY <2>3, <3>1 DEF Recorded
    <3> QED BY <2>1, <2>3, <3>2
  <2> QED BY <1>2, <2>2, <2>3
<1>7. schema' \subseteq schema /\ (m.down => m.name \notin schema')
  BY <1>2
<1>8. UpIsAhead' /\ DownIsLast' /\ IdleIsAnswered'
  BY <1>1, <1>2, <1>7
     DEF MigratorIInv, UpIsAhead, DownIsLast, IdleIsAnswered, InEffect
<1>9. DownToIsAhead'
  BY <1>1, <1>2, <1>7 DEF MigratorIInv, DownToIsAhead, InEffect
<1>10. CallsDoWhatTheySay'
  BY <1>2 DEF MigratorIInv, IdleIsAnswered, CallsDoWhatTheySay
<1>11. InOrder'
  <2> SUFFICES ASSUME ~taken, \A k \in Places : migrations[k].down,
                      NEW j \in Places, NEW k \in Places, j < k,
                      migrations[k].name \in schema'
               PROVE  migrations[j].name \in schema'
    BY <1>1, <1>2 DEF InOrder, InEffect
  <2>1. migrations[k].name \in schema /\ migrations[j].name \in schema /\ m.down
    BY <1>1, <1>7 DEF MigratorIInv, InOrder, InEffect
  <2>2. j # i
    <3> SUFFICES ASSUME j = i PROVE FALSE
      OBVIOUS
    <3>1. CASE call = "down"
      BY <1>1, <2>1, <3>1 DEF MigratorIInv, DownIsLast, InEffect
    <3>2. CASE call = "downto"
      <4>1. k \notin todo
        BY <1>1, <1>2, ListIs
      <4>2. target >= 0 /\ migrations[k].version <= target
        BY <2>1, <3>2, <4>1 DEF MigratorIInv, DownToIsAhead, InEffect
      <4>3. m.version > target
        BY <3>2, <4>2 DEF MigratorIInv, DownToIsAhead
      <4>4. m.version < migrations[k].version /\ migrations[k].version \in Nat
        BY <1>1, ListIs
      <4>5. target \in Int
        BY <1>1, MigratorAssumption DEF MigratorTypeOK
      <4> QED BY <1>1, <4>2, <4>3, <4>4, <4>5
    <3> QED BY <1>2, <3>1, <3>2
  <2> QED BY <1>2, <1>3, <2>1, <2>2
<1> QED BY <1>4, <1>5, <1>6, <1>8, <1>9, <1>10, <1>11 DEF MigratorIInv

\* A call ends: with an error, or with nothing left to do.
LEMMA EndStep ==
  ASSUME MigratorIInv, Fails \/ Returns
  PROVE  MigratorIInv'
<1>1. /\ MigratorTypeOK /\ Places' = Places /\ call # "idle"
      /\ call' = "idle" /\ todo' = {}
      /\ answer' = "failed" \/ (todo = {} /\ answer' = call)
      /\ UNCHANGED <<migrations, records, schema, target, taken>>
  BY DEF MigratorIInv, Fails, Returns, Places
<1>2. MigratorTypeOK'
  BY <1>1 DEF MigratorTypeOK
<1>3. VersionsAreNames' /\ RecordsTellSchema' /\ InOrder'
  BY <1>1
     DEF MigratorIInv, VersionsAreNames, RecordsTellSchema, Recorded, InOrder,
         InEffect
<1>4. UpIsAhead' /\ DownIsLast' /\ DownToIsAhead' /\ IdleIsAnswered'
  BY <1>1 DEF UpIsAhead, DownIsLast, DownToIsAhead, IdleIsAnswered
<1>5. CallsDoWhatTheySay'
  BY <1>1
     DEF MigratorIInv, UpIsAhead, DownToIsAhead, CallsDoWhatTheySay, InEffect
<1> QED BY <1>2, <1>3, <1>4, <1>5 DEF MigratorIInv

LEMMA MigratorStep ==
  ASSUME MigratorIInv, [MigratorNext]_migratorVars
  PROVE  MigratorIInv'
<1>1. CASE UNCHANGED migratorVars
  <2>1. /\ UNCHANGED <<migrations, records, schema, call, todo, target, answer,
                       taken>>
        /\ Places' = Places
    BY <1>1 DEF migratorVars, Places
  <2>2. MigratorTypeOK' /\ VersionsAreNames' /\ RecordsTellSchema' /\ InOrder'
    BY <2>1
       DEF MigratorIInv, MigratorTypeOK, VersionsAreNames, RecordsTellSchema,
           Recorded, InOrder, InEffect
  <2>3. UpIsAhead' /\ DownIsLast' /\ DownToIsAhead' /\ IdleIsAnswered'
        /\ CallsDoWhatTheySay'
    BY <2>1
       DEF MigratorIInv, UpIsAhead, DownIsLast, DownToIsAhead, IdleIsAnswered,
           CallsDoWhatTheySay, InEffect
  <2> QED BY <2>2, <2>3 DEF MigratorIInv
<1> QED BY <1>1, MigrateStep, CallStep, ApplyStep, RevertStep, EndStep
    DEF MigratorNext

\* MigratorIInv, of module Migrator, holds over every sequence of calls and
\* failures.
THEOREM MigratorInvariant == MigratorSpec => []MigratorIInv
<1>1. MigratorInit => MigratorIInv
  BY MigratorStarts
<1>2. MigratorIInv /\ [MigratorNext]_migratorVars => MigratorIInv'
  BY MigratorStep
<1> QED BY <1>1, <1>2, PTL DEF MigratorSpec

\* The rows, the schema and the call that runs have their types.
THEOREM MigratorTypes == MigratorSpec => []MigratorTypeOK
<1>1. MigratorIInv => MigratorTypeOK
  BY DEF MigratorIInv
<1> QED BY <1>1, MigratorInvariant, PTL

\* Up and DownTo that return nil have done what they say.
THEOREM CallsAreDone ==
  MigratorSpec => []CallsDoWhatTheySay
<1>1. MigratorIInv => CallsDoWhatTheySay
  BY DEF MigratorIInv
<1> QED BY <1>1, MigratorInvariant, PTL

\* The rows of the table name exactly what is in effect.
THEOREM TableTellsSchema ==
  MigratorSpec => []RecordsTellSchema
<1>1. MigratorIInv => RecordsTellSchema
  BY DEF MigratorIInv
<1> QED BY <1>1, MigratorInvariant, PTL

\* What is in effect is a prefix of the list, if each of its migrations has a Down.
THEOREM PrefixInEffect == MigratorSpec => []InOrder
<1>1. MigratorIInv => InOrder
  BY DEF MigratorIInv
<1> QED BY <1>1, MigratorInvariant, PTL
=============================================================================

------------------------------ MODULE Simulator ------------------------------
(***************************************************************************)
(* modules/simulator: a background loop that POSTs telemetry, started and  *)
(* stopped by two HTTP handlers.  mu guards running, the devices and the   *)
(* creation and closing of stopCh, but the loop reads m.stopCh without it, *)
(* anew on every iteration of its select.                                  *)
(*                                                                         *)
(* A stop channel is a number, its generation: the n-th successful start   *)
(* makes channel n and spawns loop n.                                      *)
(***************************************************************************)
EXTENDS Naturals

CONSTANTS
  Clients,    \* goroutines of HTTP requests, and of the registry's StopAll
  MaxStarts,  \* bound: successful starts of one behaviour
  Free        \* mu is not held

ASSUME SimAssumption ==
  /\ MaxStarts \in Nat \ {0}
  /\ Clients \intersect Nat = {}
  /\ Free \notin Clients \union Nat

Loops == 1..MaxStarts

VARIABLES
  mu,       \* the holder of Module.mu
  running,  \* Module.running
  stopCh,   \* generation of Module.stopCh, 0 for nil
  closed,   \* channels that have been closed
  caller,   \* where each request is
  loop      \* where each loop is, and the channel its select waits on

vars == <<mu, running, stopCh, closed, caller, loop>>

CallerStates == {"idle", "start", "starting", "stop", "stopping"}
LoopStates == {"unborn", "select", "waiting", "tick", "posting", "exited"}

LoopRecords == [pc : LoopStates, ch : 0..MaxStarts]

Live(g) == loop[g].pc \notin {"unborn", "exited"}

Caller(c, from, to) ==
  /\ caller[c] = from
  /\ caller' = [caller EXCEPT ![c] = to]

LoopTo(g, from, to) ==
  /\ loop[g].pc = from
  /\ loop' = [loop EXCEPT ![g] = [@ EXCEPT !.pc = to]]

Lock(p) == mu = Free /\ mu' = p
Unlock(p) == mu = p /\ mu' = Free

(***************************************************************************)
(* POST /api/v1/simulator/start.  The lock is held over the registration   *)
(* of the devices, one HTTP request each.                                  *)
(***************************************************************************)
RequestStart(c) ==
  /\ stopCh < MaxStarts
  /\ Caller(c, "idle", "start")
  /\ UNCHANGED <<mu, running, stopCh, closed, loop>>

StartLock(c) ==
  /\ Caller(c, "start", "starting")
  /\ Lock(c)
  /\ UNCHANGED <<running, stopCh, closed, loop>>

\* 409; at the bound every start is refused.
StartConflict(c) ==
  /\ running \/ stopCh = MaxStarts
  /\ Caller(c, "starting", "idle")
  /\ Unlock(c)
  /\ UNCHANGED <<running, stopCh, closed, loop>>

\* Mutant: the channel is made once and not again by a later start.
MutLaunch(c) ==
  /\ ~running /\ stopCh < MaxStarts
  /\ Caller(c, "starting", "idle")
  /\ stopCh' = 1
  /\ running' = TRUE
  /\ loop' = [loop EXCEPT ![1] = [pc |-> "select", ch |-> 0]]
  /\ Unlock(c)
  /\ UNCHANGED closed

Launch(c) ==
  /\ ~running /\ stopCh < MaxStarts
  /\ Caller(c, "starting", "idle")
  /\ stopCh' = stopCh + 1
  /\ running' = TRUE
  /\ loop' = [loop EXCEPT ![stopCh + 1] = [pc |-> "select", ch |-> 0]]
  /\ Unlock(c)
  /\ UNCHANGED closed

(***************************************************************************)
(* Module.Stop, from POST /api/v1/simulator/stop and from StopAll.         *)
(***************************************************************************)
RequestStop(c) ==
  /\ Caller(c, "idle", "stop")
  /\ UNCHANGED <<mu, running, stopCh, closed, loop>>

StopLock(c) ==
  /\ Caller(c, "stop", "stopping")
  /\ Lock(c)
  /\ UNCHANGED <<running, stopCh, closed, loop>>

\* Mutant: Stop does not reset running.
MutStopKeepsRunning(c) ==
  /\ Caller(c, "stopping", "idle")
  /\ closed' = IF running THEN closed \union {stopCh} ELSE closed
  /\ Unlock(c)
  /\ UNCHANGED <<running, stopCh, loop>>

\* Mutant: Stop forgets to close the channel.
MutStopForgets(c) ==
  /\ Caller(c, "stopping", "idle")
  /\ running' = FALSE
  /\ Unlock(c)
  /\ UNCHANGED <<stopCh, closed, loop>>

StopFinish(c) ==
  /\ Caller(c, "stopping", "idle")
  /\ closed' = IF running THEN closed \union {stopCh} ELSE closed
  /\ running' = FALSE
  /\ Unlock(c)
  /\ UNCHANGED <<stopCh, loop>>

(***************************************************************************)
(* Module.run                                                              *)
(***************************************************************************)
\* select evaluates m.stopCh when it is entered, without mu.
EnterSelect(g) ==
  /\ loop[g].pc = "select"
  /\ loop' = [loop EXCEPT ![g] = [pc |-> "waiting", ch |-> stopCh]]
  /\ UNCHANGED <<mu, running, stopCh, closed, caller>>

Exit(g) ==
  /\ loop[g].ch \in closed
  /\ LoopTo(g, "waiting", "exited")
  /\ UNCHANGED <<mu, running, stopCh, closed, caller>>

Tick(g) ==
  /\ LoopTo(g, "waiting", "tick")
  /\ UNCHANGED <<mu, running, stopCh, closed, caller>>

TickLock(g) ==
  /\ LoopTo(g, "tick", "posting")
  /\ Lock(g)
  /\ UNCHANGED <<running, stopCh, closed, caller>>

TickUnlock(g) ==                   \* all devices posted
  /\ LoopTo(g, "posting", "select")
  /\ Unlock(g)
  /\ UNCHANGED <<running, stopCh, closed, caller>>

Init ==
  /\ mu = Free
  /\ running = FALSE
  /\ stopCh = 0
  /\ closed = {}
  /\ caller = [c \in Clients |-> "idle"]
  /\ loop = [g \in Loops |-> [pc |-> "unborn", ch |-> 0]]

Handle(c) ==
  \/ RequestStart(c) \/ StartLock(c) \/ StartConflict(c) \/ Launch(c)
  \/ RequestStop(c) \/ StopLock(c) \/ StopFinish(c)

Run(g) == EnterSelect(g) \/ Exit(g) \/ Tick(g) \/ TickLock(g) \/ TickUnlock(g)

Next == (\E c \in Clients : Handle(c)) \/ (\E g \in Loops : Run(g))

Spec == Init /\ [][Next]_vars

\* sync.Mutex does not starve a waiter, and select chooses uniformly among
\* its ready cases: strong fairness.  The other steps just run.
CallerFairness(c) ==
  /\ SF_vars(StartLock(c)) /\ SF_vars(StopLock(c))
  /\ WF_vars(StartConflict(c)) /\ WF_vars(Launch(c)) /\ WF_vars(StopFinish(c))

LoopFairness(g) ==
  /\ WF_vars(EnterSelect(g)) /\ WF_vars(Tick(g)) /\ SF_vars(Exit(g))
  /\ SF_vars(TickLock(g)) /\ WF_vars(TickUnlock(g))

FairSpec ==
  /\ Spec
  /\ \A c \in Clients : CallerFairness(c)
  /\ \A g \in Loops : LoopFairness(g)
-----------------------------------------------------------------------------
(***************************************************************************)
(* Properties                                                              *)
(***************************************************************************)
TypeOK ==
  /\ mu \in {Free} \union Clients \union Loops
  /\ running \in BOOLEAN
  /\ stopCh \in 0..MaxStarts
  /\ closed \subseteq Loops
  /\ caller \in [Clients -> CallerStates]
  /\ loop \in [Loops -> LoopRecords]

\* close() never panics and no channel is left open behind: while the module
\* counts as running, the current channel is the only open one; when it does
\* not, all are closed.
OpenWhileRunning ==
  /\ running => stopCh # 0
  /\ closed = IF running THEN 1..(stopCh - 1) ELSE 1..stopCh

\* While the module counts as running, the loop spawned with the current
\* channel is alive and has not taken an earlier stop for its own.
RunningLoopLives ==
  running => /\ Live(stopCh)
             /\ loop[stopCh].pc = "waiting" => loop[stopCh].ch = stopCh

\* At most one goroutine is inside a critical section of mu, and it is the
\* holder: handlers and loops exclude each other over device list and channel.
LockedSections ==
  /\ \A c \in Clients : caller[c] \in {"starting", "stopping"} <=> mu = c
  /\ \A g \in Loops : loop[g].pc = "posting" <=> mu = g

\* Once stopped for good, every loop ends: none is left posting telemetry.
LoopsEndWhenStopped == <>[]~running => <>[](\A g \in Loops : ~Live(g))

\* Stopping the simulator ends the loop it stops, whatever is started next.
\* This does not hold: the loop may pick up the channel of the next start
\* (module.go:139) and live on.
StoppedLoopEnds == \A g \in Loops : g \in closed ~> ~Live(g)
-----------------------------------------------------------------------------
(***************************************************************************)
(* The inductive invariant: loops are born in order, a loop waits on its   *)
(* own channel or on a later one, and it only ends after a stop of its own *)
(* generation.                                                             *)
(***************************************************************************)
LoopsInOrder ==
  \A g \in Loops :
    /\ loop[g].pc = "unborn" <=> g > stopCh
    /\ loop[g].pc = "waiting" => loop[g].ch \in g..stopCh
    /\ loop[g].pc = "exited" => g \in closed

IInv == TypeOK /\ OpenWhileRunning /\ LockedSections /\ LoopsInOrder
=============================================================================

--------------------------- MODULE SimulatorProofs ---------------------------
(***************************************************************************)
(* Proofs about module Simulator, for any number of starts and any set of  *)
(* clients.                                                                *)
(***************************************************************************)
EXTENDS Simulator, TLAPS

LEMMA InitIInv == Init => IInv
<1> SUFFICES ASSUME Init PROVE IInv
  OBVIOUS
<1> USE SimAssumption DEF Init, Loops
<1>1. TypeOK
  <2>1. loop \in [Loops -> LoopRecords]
    BY DEF LoopRecords, LoopStates
  <2>2. caller \in [Clients -> CallerStates]
    BY DEF CallerStates
  <2>3. mu \in {Free} \union Clients \union Loops /\ running \in BOOLEAN
    OBVIOUS
  <2>4. stopCh \in 0..MaxStarts /\ closed \subseteq Loops
    OBVIOUS
  <2> HIDE DEF Init, Loops
  <2> QED BY <2>1, <2>2, <2>3, <2>4 DEF TypeOK
<1>2. OpenWhileRunning /\ LoopsInOrder
  BY DEF OpenWhileRunning, LoopsInOrder
<1>3. LockedSections
  BY DEF LockedSections
<1> QED BY <1>1, <1>2, <1>3 DEF IInv

\* A request's step: only Launch and StopFinish touch the channel.
LEMMA HandleStep ==
  ASSUME IInv, NEW c \in Clients, Handle(c)
  PROVE  IInv'
<1> USE SimAssumption DEF IInv, TypeOK, Loops, CallerStates, Caller
<1>1. CASE RequestStart(c) \/ RequestStop(c)
  <2>1. UNCHANGED <<mu, running, stopCh, closed, loop>>
        /\ caller' \in [Clients -> CallerStates]
    BY <1>1 DEF RequestStart, RequestStop
  <2>2. LockedSections'
    BY <1>1 DEF RequestStart, RequestStop, LockedSections
  <2> QED BY <2>1, <2>2 DEF OpenWhileRunning, LoopsInOrder
<1>2. CASE StartLock(c) \/ StopLock(c)
  <2>1. UNCHANGED <<running, stopCh, closed, loop>> /\ mu = Free /\ mu' = c
        /\ caller' \in [Clients -> CallerStates]
    BY <1>2 DEF StartLock, StopLock, Lock
  <2>2. LockedSections'
    BY <1>2, <2>1 DEF StartLock, StopLock, LockedSections
  <2> QED BY <2>1, <2>2 DEF OpenWhileRunning, LoopsInOrder
<1>3. CASE StartConflict(c)
  <2> USE <1>3 DEF StartConflict, Unlock
  <2>1. TypeOK'
    OBVIOUS
  <2>2. LockedSections'
    BY DEF LockedSections
  <2> QED BY <2>1, <2>2 DEF OpenWhileRunning, LoopsInOrder
<1>4. CASE Launch(c)
  <2> USE <1>4 DEF Launch, Unlock
  <2>1. stopCh + 1 \in 1..MaxStarts
    OBVIOUS
  <2>2. TypeOK'
    <3>1. [pc |-> "select", ch |-> 0] \in LoopRecords
      BY DEF LoopRecords, LoopStates
    <3> QED BY <2>1, <3>1
  <2>3. LockedSections'
    <3>1. loop[stopCh + 1].pc = "unborn"
      BY <2>1 DEF LoopsInOrder
    <3>2. \A g \in Loops : loop'[g].pc = "posting" <=> loop[g].pc = "posting"
      BY <2>1, <3>1
    <3>3. \A b \in Clients : caller'[b] = IF b = c THEN "idle" ELSE caller[b]
      OBVIOUS
    <3>4. mu = c /\ c \notin Loops /\ Free \notin Loops
      OBVIOUS
    <3> QED BY <3>2, <3>3, <3>4 DEF LockedSections
  <2>4. OpenWhileRunning'
    <3>1. closed' = 1..stopCh
      BY DEF OpenWhileRunning
    <3> QED BY <2>1, <3>1 DEF OpenWhileRunning
  <2>5. LoopsInOrder'
    BY <2>1 DEF LoopsInOrder
  <2> QED BY <2>2, <2>3, <2>4, <2>5
<1>5. CASE StopFinish(c)
  <2> USE <1>5 DEF StopFinish, Unlock
  <2>0. OpenWhileRunning'
    <3>1. CASE running
      <4>1. closed' = (1..(stopCh - 1)) \union {stopCh} /\ stopCh \in 1..MaxStarts
        BY <3>1 DEF OpenWhileRunning
      <4>2. (1..(stopCh - 1)) \union {stopCh} = 1..stopCh
        BY <4>1
      <4>3. closed' = 1..stopCh' /\ running' = FALSE
        BY <4>1, <4>2
      <4> QED BY <4>3 DEF OpenWhileRunning
    <3>2. CASE ~running
      BY <3>2 DEF OpenWhileRunning
    <3> QED BY <3>1, <3>2
  <2>1. TypeOK'
    <3>1. closed' \subseteq 1..MaxStarts
      BY <2>0 DEF OpenWhileRunning
    <3> QED BY <3>1
  <2>2. LockedSections'
    BY DEF LockedSections
  <2>3. LoopsInOrder'
    BY DEF LoopsInOrder
  <2> QED BY <2>0, <2>1, <2>2, <2>3
<1> QED BY <1>1, <1>2, <1>3, <1>4, <1>5 DEF Handle

\* A loop's step: it ends only when the channel it waits on is closed, and
\* that channel is its own or a later one.
LEMMA RunStep ==
  ASSUME IInv, NEW g \in Loops, Run(g)
  PROVE  IInv'
<1> USE SimAssumption DEF IInv, TypeOK, Loops, LoopTo
<1>1. CASE EnterSelect(g)
  <2> USE <1>1 DEF EnterSelect
  <2>1. loop' \in [Loops -> LoopRecords]
    BY DEF LoopRecords, LoopStates
  <2>2. LockedSections' /\ OpenWhileRunning'
    BY DEF LockedSections, OpenWhileRunning
  <2>3. LoopsInOrder'
    BY DEF LoopsInOrder
  <2> QED BY <2>1, <2>2, <2>3
<1>2. CASE Exit(g)
  <2> USE <1>2 DEF Exit
  <2>1. loop' \in [Loops -> LoopRecords]
    BY DEF LoopRecords, LoopStates
  <2>2. LockedSections' /\ OpenWhileRunning'
    BY DEF LockedSections, OpenWhileRunning
  <2>3. g \in closed
    <3>1. loop[g].ch \in g..stopCh /\ loop[g].ch \in closed
      BY DEF LoopsInOrder
    <3> QED BY <3>1 DEF OpenWhileRunning
  <2>4. LoopsInOrder'
    BY <2>3 DEF LoopsInOrder, LoopRecords
  <2> QED BY <2>1, <2>2, <2>4
<1>3. CASE Tick(g)
  <2> USE <1>3 DEF Tick
  <2>1. loop' \in [Loops -> LoopRecords]
    BY DEF LoopRecords, LoopStates
  <2>2. LockedSections' /\ OpenWhileRunning'
    BY DEF LockedSections, OpenWhileRunning
  <2>3. LoopsInOrder'
    BY DEF LoopsInOrder
  <2> QED BY <2>1, <2>2, <2>3
<1>4. CASE TickLock(g)
  <2> USE <1>4 DEF TickLock, Lock
  <2>1. loop' \in [Loops -> LoopRecords]
    BY DEF LoopRecords, LoopStates
  <2>2. LockedSections' /\ OpenWhileRunning'
    BY DEF LockedSections, OpenWhileRunning
  <2>3. LoopsInOrder'
    BY DEF LoopsInOrder
  <2> QED BY <2>1, <2>2, <2>3
<1>5. CASE TickUnlock(g)
  <2> USE <1>5 DEF TickUnlock, Unlock
  <2>1. loop' \in [Loops -> LoopRecords]
    BY DEF LoopRecords, LoopStates
  <2>2. LockedSections' /\ OpenWhileRunning'
    BY DEF LockedSections, OpenWhileRunning
  <2>3. LoopsInOrder'
    BY DEF LoopsInOrder
  <2> QED BY <2>1, <2>2, <2>3
<1> QED BY <1>1, <1>2, <1>3, <1>4, <1>5 DEF Run

LEMMA NextIInv == IInv /\ [Next]_vars => IInv'
<1> SUFFICES ASSUME IInv, [Next]_vars PROVE IInv'
  OBVIOUS
<1>1. CASE UNCHANGED vars
  BY <1>1 DEF vars, IInv, TypeOK, OpenWhileRunning, LockedSections,
     LoopsInOrder
<1>2. CASE Next
  BY <1>2, HandleStep, RunStep DEF Next
<1> QED BY <1>1, <1>2

\* Over starts, stops and ticks in any order, channels are closed in the order
\* they were made and a loop only ends after its own.
THEOREM IndInvariant == Spec => []IInv
BY InitIInv, NextIInv, PTL DEF Spec

\* Every variable keeps its type: the channel counter stays within its bound.
THEOREM TypeCorrect == Spec => []TypeOK
<1>1. IInv => TypeOK
  BY DEF IInv
<1> QED BY IndInvariant, <1>1, PTL

\* close() is never called on a closed or on a nil channel.
THEOREM NeverClosedTwice == Spec => []OpenWhileRunning
<1>1. IInv => OpenWhileRunning
  BY DEF IInv
<1> QED BY IndInvariant, <1>1, PTL

\* Handlers and loops exclude each other in the sections under mu.
THEOREM MutualExclusion == Spec => []LockedSections
<1>1. IInv => LockedSections
  BY DEF IInv
<1> QED BY IndInvariant, <1>1, PTL

\* A running simulator has the loop of its last start.
THEOREM RunningHasLoop == Spec => []RunningLoopLives
<1>1. IInv => RunningLoopLives
  <2> SUFFICES ASSUME IInv, running PROVE RunningLoopLives
    BY DEF RunningLoopLives
  <2> USE SimAssumption DEF IInv, TypeOK, Loops
  <2>1. stopCh \in Loops /\ stopCh \notin closed
    BY DEF OpenWhileRunning
  <2> QED BY <2>1 DEF LoopsInOrder, RunningLoopLives, Live
<1> QED BY IndInvariant, <1>1, PTL
=============================================================================

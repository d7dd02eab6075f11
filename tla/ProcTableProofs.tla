-------------------------- MODULE ProcTableProofs --------------------------
(***************************************************************************)
(* Proofs about ProcTable for every size of the table, every set of pids   *)
(* that are killed and every number of forks, failed ones included: Inv is *)
(* inductive, and the properties the runs check are parts of it.           *)
(***************************************************************************)
EXTENDS ProcTable, TLAPS

\* The initial state satisfies the invariant.
LEMMA InitInv == Init => Inv
BY ConstantsOK
   DEF Init, Inv, TypeOK, States, ForkOwnsSlot, SleeperHoldsLock, ParentLive,
       Live, PidUnique, NoLostChildWakeup, NoLostSignal, Children,
       ZombieChildren, Proc, InitProc, Event

\* What the proofs need of the constants: the initial process has a slot, and
\* neither the null pointer nor the event is a slot.
LEMMA SlotFacts ==
  /\ InitProc \in Proc /\ Event \notin Proc
  /\ NULL \notin Proc /\ NULL # Event
  /\ KillPids \subseteq Nat
BY ConstantsOK DEF Proc, InitProc, Event

\* A scan finds a slot of the set.
LEMMA FirstFact == \A S : First(S) \subseteq S
BY DEF First

\* The steps of fork keep the invariant.
LEMMA ForkStep ==
  ASSUME Inv, NEW p \in Proc,
         AllocProc(p) \/ ForkFail(p) \/ ForkParent(p) \/ ForkStart(p)
  PROVE  Inv'
<1>. USE SlotFacts, FirstFact
     DEF Inv, TypeOK, States, ForkOwnsSlot, SleeperHoldsLock, ParentLive, Live,
         PidUnique, NoLostChildWakeup, NoLostSignal, Children, ZombieChildren,
         vars, procVars, eventVars, Goto, At, InUser
<1>1. CASE AllocProc(p)
  BY <1>1 DEF AllocProc, Unused, TakePid
<1>2. CASE ForkFail(p)
  BY <1>2 DEF ForkFail
<1>3. CASE ForkParent(p)
  BY <1>3 DEF ForkParent
<1>4. CASE ForkStart(p)
  BY <1>4 DEF ForkStart
<1>. QED BY <1>1, <1>2, <1>3, <1>4

\* exit() and wait() keep the invariant.
LEMMA ExitWaitStep ==
  ASSUME Inv, NEW p \in Proc, Exit(p) \/ Wait(p)
  PROVE  Inv'
<1>. USE SlotFacts, FirstFact
     DEF Inv, TypeOK, States, ForkOwnsSlot, SleeperHoldsLock, ParentLive, Live,
         PidUnique, NoLostChildWakeup, NoLostSignal, Children, ZombieChildren,
         vars, procVars, eventVars, Goto, At, InUser
<1>1. CASE Exit(p)
  <2>1. InitProc # p /\ state[p] = "RUNNABLE" /\ pc[p] = "user" /\ parent[p] # p
    BY <1>1 DEF Exit
  <2>2. \A q \in Proc : parent'[q] = IF parent[q] = p THEN InitProc ELSE parent[q]
    BY <1>1 DEF Exit, PassChildren
  <2>3. /\ state'[p] = "ZOMBIE"
        /\ \A q \in Proc \ {p} :
             \/ state'[q] = state[q]
             \/ state[q] = "SLEEPING" /\ state'[q] = "RUNNABLE"
    BY <1>1 DEF Exit
  <2>4. ParentLive'
    BY <2>1, <2>2, <2>3
  <2>5. ForkOwnsSlot' /\ SleeperHoldsLock'
    BY <1>1, <2>1, <2>2, <2>3 DEF Exit
  <2>6. PidUnique' /\ NoLostSignal'
    BY <1>1, <2>3 DEF Exit
  <2>7. NoLostChildWakeup'
    <3>. SUFFICES ASSUME NEW r \in Proc, state'[r] = "SLEEPING", chan'[r] = r
                  PROVE  /\ \E q \in Proc : parent'[q] = r
                         /\ \A q \in Proc : parent'[q] = r => state'[q] # "ZOMBIE"
      OBVIOUS
    <3>1. state[r] = "SLEEPING" /\ chan[r] = r /\ r # p
      BY <1>1, <2>1, <2>3 DEF Exit
    <3>2. r # parent[p]
      BY <1>1, <3>1 DEF Exit, WokenByExit
    <3>3. r = InitProc => \A q \in Proc : parent[q] = p => state[q] # "ZOMBIE"
      BY <1>1, <3>1 DEF Exit, WokenByExit
    <3>4. \E q \in Proc : parent'[q] = r
      BY <2>2, <3>1
    <3>5. ASSUME NEW q \in Proc, parent'[q] = r PROVE state'[q] # "ZOMBIE"
      <4>1. CASE parent[q] = r
        BY <2>1, <2>3, <3>1, <3>2, <4>1
      <4>2. CASE parent[q] = p
        BY <2>1, <2>2, <2>3, <3>1, <3>3, <3>5, <4>2
      <4>. QED BY <2>2, <3>5, <4>1, <4>2
    <3>. QED BY <3>4, <3>5
  <2>8. TypeOK'
    BY <1>1, <2>1 DEF Exit, PassChildren
  <2>. QED BY <1>1, <2>1, <2>3, <2>4, <2>5, <2>6, <2>7, <2>8 DEF Exit
<1>2. CASE WaitReap(p)
  BY <1>2 DEF WaitReap, Waiting
<1>3. CASE WaitNone(p)
  BY <1>3 DEF WaitNone, Waiting
<1>4. CASE WaitSleep(p)
  BY <1>4 DEF WaitSleep, Waiting
<1>. QED BY <1>1, <1>2, <1>3, <1>4 DEF Wait

\* The waiting loop, sleep() and the signal keep the invariant.
LEMMA SleepStep ==
  ASSUME Inv, NEW p \in Proc,
         LoopLeave(p) \/ LoopStay(p) \/ SleepEnter(p) \/ Signal
  PROVE  Inv'
<1>. USE SlotFacts, FirstFact
     DEF Inv, TypeOK, States, ForkOwnsSlot, SleeperHoldsLock, ParentLive, Live,
         PidUnique, NoLostChildWakeup, NoLostSignal, Children, ZombieChildren,
         vars, procVars, eventVars, Goto, At, InUser
<1>1. CASE LoopLeave(p)
  BY <1>1 DEF LoopLeave, Looping
<1>2. CASE LoopStay(p)
  BY <1>2 DEF LoopStay, Looping, KeepLk
<1>3. CASE SleepEnter(p)
  BY <1>3 DEF SleepEnter
<1>4. CASE Signal
  BY <1>4 DEF Signal
<1>. QED BY <1>1, <1>2, <1>3, <1>4

\* kill() and faults keep the invariant.
LEMMA KillStep ==
  ASSUME Inv, NEW p \in Proc, Fault(p) \/ \E n \in KillPids : Kill(p, n)
  PROVE  Inv'
<1>. USE SlotFacts, FirstFact
     DEF Inv, TypeOK, States, ForkOwnsSlot, SleeperHoldsLock, ParentLive, Live,
         PidUnique, NoLostChildWakeup, NoLostSignal, Children, ZombieChildren,
         vars, procVars, eventVars, Goto, At, InUser
<1>1. CASE Fault(p)
  BY <1>1 DEF Fault
<1>2. ASSUME NEW n \in KillPids, Kill(p, n)
      PROVE  Inv'
  BY <1>2 DEF Kill
<1>. QED BY <1>1, <1>2

----------------------------------------------------------------------------
\* Every reachable state satisfies the invariant: whatever the table size,
\* fork, exit, wait, kill and sleep keep what they promise each other.
THEOREM ProcTableInvariant == Spec => []Inv
<1>1. Init => Inv
  BY InitInv
<1>2. Inv /\ [Next]_vars => Inv'
  <2>. SUFFICES ASSUME Inv, [Next]_vars PROVE Inv'
    OBVIOUS
  <2>1. CASE UNCHANGED vars
    BY <2>1
       DEF vars, procVars, eventVars, Inv, TypeOK, ForkOwnsSlot,
           SleeperHoldsLock, ParentLive, Live, PidUnique, NoLostChildWakeup,
           NoLostSignal, Children, ZombieChildren
  <2>2. CASE Signal
    BY <2>2, SleepStep, ConstantsOK DEF Proc
  <2>3. ASSUME NEW p \in Proc, Step(p) PROVE Inv'
    BY <2>3, ForkStep, ExitWaitStep, SleepStep, KillStep DEF Step
  <2>. QED BY <2>1, <2>2, <2>3 DEF Next
<1>. QED BY <1>1, <1>2, PTL DEF Spec

\* No process is ever without a running parent that can reap it.
THEOREM ProcParentLive == Spec => []ParentLive
<1>1. Inv => ParentLive
  BY DEF Inv
<1>. QED BY <1>1, ProcTableInvariant, PTL

\* Two processes never share a pid, however many forks fail.
THEOREM ProcPidUnique == Spec => []PidUnique
<1>1. Inv => PidUnique
  BY DEF Inv
<1>. QED BY <1>1, ProcTableInvariant, PTL

\* No exit is missed by a parent that sleeps in wait().
THEOREM ProcNoLostChildWakeup == Spec => []NoLostChildWakeup
<1>1. Inv => NoLostChildWakeup
  BY DEF Inv
<1>. QED BY <1>1, ProcTableInvariant, PTL

\* No wakeup is missed between the test of a condition and sleep().
THEOREM ProcNoLostSignal == Spec => []NoLostSignal
<1>1. Inv => NoLostSignal
  BY DEF Inv
<1>. QED BY <1>1, ProcTableInvariant, PTL

=============================================================================

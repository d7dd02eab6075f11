----------------------------- MODULE MlfqProofs -----------------------------
(***************************************************************************)
(* Proofs about Mlfq for every number of CPUs, every size of the process   *)
(* table and every quantum, priority and boost interval.  Inv of Mlfq is   *)
(* inductive; the properties the runs check follow from it.                *)
(***************************************************************************)
EXTENDS Mlfq, TLAPS

\* The initial state satisfies the invariant.
LEMMA InitInv == Init => Inv
BY ConstantsOK
   DEF Init, Inv, TypeOK, OneCpuPerProcess, RunningHasCpu, CurrentIsRunning,
       OneCpu, CpuRunsProcess, PtlockHeld, RegOK, LockConsistent, Proc, InitProc,
       States, SchedulerPc, ProcessPc, ProgramPc, YieldPc, TrapPc, Level

\* A step of the scheduler loop keeps the invariant.
LEMMA SchedulerStep ==
  ASSUME Inv, NEW c \in Cpu, Schedule(c)
  PROVE  Inv'
<1>. USE ConstantsOK
     DEF Inv, TypeOK, OneCpuPerProcess, RunningHasCpu, CurrentIsRunning, OneCpu,
         CpuRunsProcess, PtlockHeld, RegOK, LockConsistent,
         vars, procVars, lockVars, Goto,
         States, SchedulerPc, ProcessPc, ProgramPc, YieldPc, TrapPc, Level, LastLevel
<1>1. CASE DispatchLocked(c)
  BY <1>1 DEF DispatchLocked, SwitchTo
<1>2. CASE DispatchMlfq(c)
  BY <1>2 DEF DispatchMlfq, SwitchTo, Runnable
<1>3. CASE IdleRound(c)
  BY <1>3 DEF IdleRound
<1>4. CASE CheckZombie(c)
  BY <1>4 DEF CheckZombie, OwnerFinished
<1>5. CASE ZombieUnlock(c)
  BY <1>5 DEF ZombieUnlock, KernelUnlock, UnlockBody, ClearLock, ResetOwner
<1>6. CASE CountRound(c)
  BY <1>6 DEF CountRound, Boost, Clock
<1>7. CASE BoostUnlock(c)
  BY <1>7 DEF BoostUnlock, KernelUnlock, UnlockBody, ClearLock, ResetOwner
<1>8. CASE Clear(c)
  BY <1>8 DEF Clear
<1>. QED BY <1>1, <1>2, <1>3, <1>4, <1>5, <1>6, <1>7, <1>8 DEF Schedule

\* The saturating increment of tq stays in its range.
LEMMA TqValue ==
  ASSUME Inv, NEW c \in Cpu, pc[c] = "tq_store"
  PROVE  Least(reg[c] + 1, MaxTq) \in 0..MaxTq
<1>1. reg[c] \in 0..MaxTq
  BY DEF Inv, RegOK
<1>2. MaxTq \in Nat
  BY ConstantsOK
<1>. QED BY <1>1, <1>2 DEF Least

\* A step of the timer trap or of yield keeps the invariant.
LEMMA TrapStep ==
  ASSUME Inv, NEW c \in Cpu, Trap(c)
  PROVE  Inv'
<1>. USE ConstantsOK
     DEF Inv, TypeOK, OneCpuPerProcess, RunningHasCpu, CurrentIsRunning, OneCpu,
         CpuRunsProcess, PtlockHeld, RegOK, LockConsistent,
         vars, procVars, lockVars, Goto,
         States, SchedulerPc, ProcessPc, ProgramPc, YieldPc, TrapPc, Level, LastLevel
<1>1. CASE TqStore(c)
  <2>1. pc[c] = "tq_store"
    BY <1>1 DEF TqStore
  <2>2. PICK v \in 0..MaxTq : tq' = [tq EXCEPT ![cproc[c]] = v]
    BY <1>1, <2>1, TqValue DEF TqStore
  <2>3. /\ Goto(c, "tq_load")
        /\ UNCHANGED <<state, q_lv, priority, time, ticks, upper_bound, is_lock,
                       lock_process, ptlock, cproc, back, reg>>
    BY <1>1 DEF TqStore
  <2>. QED BY <2>1, <2>2, <2>3
<1>2. CASE TqLoad(c)
  BY <1>2 DEF TqLoad
<1>3. CASE TqCheck(c)
  BY <1>3 DEF TqCheck
<1>4. CASE LevelCheck(c)
  BY <1>4 DEF LevelCheck, InLastLevel
<1>5. CASE LevelStore(c)
  BY <1>5 DEF LevelStore
<1>6. CASE SetOwnPriority(c)
  BY <1>6 DEF SetOwnPriority, Clamp, Least, Most
<1>7. CASE TqReset(c)
  BY <1>7 DEF TqReset
<1>8. CASE SysYieldTq(c)
  BY <1>8 DEF SysYieldTq
<1>9. CASE SysYieldTime(c)
  BY <1>9 DEF SysYieldTime
<1>10. CASE SysYieldPriority(c)
  BY <1>10 DEF SysYieldPriority
<1>11. CASE Yield(c)
  BY <1>11 DEF Yield, Deschedule
<1>. QED BY <1>1, <1>2, <1>3, <1>4, <1>5, <1>6, <1>7, <1>8, <1>9, <1>10, <1>11 DEF Trap

\* A timer interrupt keeps the invariant.
LEMMA TimerStep ==
  ASSUME Inv, NEW c \in Cpu, TimerIrq(c)
  PROVE  Inv'
BY ConstantsOK
   DEF TimerIrq, Least, Interruptible, Sleeping,
       Inv, TypeOK, OneCpuPerProcess, RunningHasCpu, CurrentIsRunning, OneCpu,
       CpuRunsProcess, PtlockHeld, RegOK, LockConsistent,
       procVars, lockVars, Goto, States, SchedulerPc, ProcessPc, ProgramPc, YieldPc, TrapPc, Level

\* A system call of a running process keeps the invariant.
LEMMA SystemCallStep ==
  ASSUME Inv, NEW c \in Cpu, SystemCall(c)
  PROVE  Inv'
<1>. USE ConstantsOK
     DEF Inv, TypeOK, OneCpuPerProcess, RunningHasCpu, CurrentIsRunning, OneCpu,
         CpuRunsProcess, PtlockHeld, RegOK, LockConsistent,
         vars, procVars, lockVars, Goto,
         States, SchedulerPc, ProcessPc, ProgramPc, YieldPc, TrapPc, Level, LastLevel
<1>1. CASE Sleep(c)
  BY <1>1 DEF Sleep, Deschedule
<1>2. CASE Exit(c)
  BY <1>2 DEF Exit, Deschedule
<1>3. CASE SysYieldLevel(c)
  BY <1>3 DEF SysYieldLevel
<1>4. CASE UserLock(c)
  BY <1>4 DEF UserLock
<1>5. CASE UserUnlock(c)
  BY <1>5 DEF UserUnlock, UnlockBody, ClearLock, ResetOwner
<1>6. ASSUME NEW p \in Proc, Alloc(c, p) PROVE Inv'
  BY <1>6 DEF Alloc
<1>7. ASSUME NEW p \in Proc, Start(c, p) PROVE Inv'
  BY <1>7 DEF Start, SetState
<1>8. ASSUME NEW p \in Proc, AllocFail(c, p) PROVE Inv'
  BY <1>8 DEF AllocFail, SetState
<1>9. ASSUME NEW p \in Proc, Reap(c, p) PROVE Inv'
  BY <1>9 DEF Reap, SetState
<1>10. ASSUME NEW p \in Proc, Wakeup(c, p) PROVE Inv'
  BY <1>10 DEF Wakeup
<1>11. ASSUME NEW p \in Proc, NEW n \in -1..(MaxPriority + 1), SysSetPriority(c, p, n)
      PROVE Inv'
  BY <1>11 DEF SysSetPriority, Clamp, Least, Most
<1>. QED BY <1>1, <1>2, <1>3, <1>4, <1>5, <1>6, <1>7, <1>8, <1>9, <1>10, <1>11
     DEF SystemCall

\* Every step keeps the invariant.
LEMMA NextInv == Inv /\ [Next]_vars => Inv'
<1>1. Inv /\ Next => Inv'
  BY SchedulerStep, TrapStep, TimerStep, SystemCallStep DEF Next
<1>2. Inv /\ UNCHANGED vars => Inv'
  BY DEF vars, procVars, lockVars, Inv, TypeOK, OneCpuPerProcess, RunningHasCpu,
         CurrentIsRunning, OneCpu, CpuRunsProcess, PtlockHeld, RegOK, LockConsistent
<1>. QED BY <1>1, <1>2

\* The invariant holds in every reachable state.
THEOREM MlfqInvariant == Spec => []Inv
BY InitInv, NextInv, PTL DEF Spec

\* Levels stay in 0..2 and priorities in 0..MaxPriority, whatever the CPUs'
\* unlocked accesses to them do to each other.
THEOREM MlfqTypes == Spec => []TypeOK
<1>1. Inv => TypeOK
  BY DEF Inv
<1>. QED BY <1>1, MlfqInvariant, PTL

\* No process runs on two CPUs, and RUNNING is what the current process of a
\* CPU is.
THEOREM MlfqOneCpu == Spec => []OneCpuPerProcess
<1>1. Inv => OneCpuPerProcess
  BY DEF Inv
<1>. QED BY <1>1, MlfqInvariant, PTL

\* lock_process can be dereferenced whenever is_lock is set, also after the
\* scheduler has let ptable.lock go in the middle of a round.
THEOREM MlfqLockConsistent == Spec => []LockConsistent
<1>1. Inv => LockConsistent
  BY DEF Inv
<1>. QED BY <1>1, MlfqInvariant, PTL

----------------------------------------------------------------------------
(* One CPU.  With more, TqWithinQuantum is false: a boost on one CPU comes *)
(* between the load and the store of tq++ on another; so is                *)
(* ZombieUnlockJustified, as MlfqZombieRace shows.                         *)

\* A quantum is positive and below the bound of tq.
LEMMA QuantumBounds ==
  ASSUME NEW l \in Level
  PROVE  Quantum(l) \in Nat /\ 0 < Quantum(l) /\ Quantum(l) < MaxTq
<1>1. l \in {0, 1, 2}
  BY DEF Level, LastLevel
<1>2. 0 * QuantumStep = 0 /\ 1 * QuantumStep = QuantumStep
      /\ 2 * QuantumStep = QuantumStep + QuantumStep
  BY ConstantsOK
<1>. QED BY <1>1, <1>2, ConstantsOK DEF Quantum, LastLevel

\* No quantum is longer than that of L2, to which sys_yield moves a process
\* before it clears its ticks.
LEMMA QuantumGrows ==
  ASSUME NEW l \in Level
  PROVE  Quantum(l) <= Quantum(LastLevel)
<1>1. l \in {0, 1, 2}
  BY DEF Level, LastLevel
<1>2. 0 * QuantumStep = 0 /\ 1 * QuantumStep = QuantumStep
      /\ 2 * QuantumStep = QuantumStep + QuantumStep
  BY ConstantsOK
<1>. QED BY <1>1, <1>2, ConstantsOK DEF Quantum, LastLevel

\* The first state satisfies the invariant of one CPU.
LEMMA InitUniInv == Init => UniInv
<1>1. 0 \in Level
  BY DEF Level, LastLevel
<1>. QED BY <1>1, QuantumBounds, ConstantsOK DEF Init, UniInv, TqWithinQuantum, Proc, InitProc

\* What a step of the scheduler loop does to it.
LEMMA UniSchedulerStep ==
  ASSUME Inv, UniInv, Cpu = {BootCpu}, NEW c \in Cpu, Schedule(c)
  PROVE  UniInv'
<1>. USE DEF UniInv, TqWithinQuantum, Goto, procVars, lockVars, TrapPc
<1>0. /\ pc \in [Cpu -> SchedulerPc \union ProcessPc] /\ cproc \in [Cpu -> Proc \union {NULL}]
      /\ tq \in [Proc -> 0..MaxTq] /\ q_lv \in [Proc -> Level] /\ Cpu = {c}
      /\ NULL \notin Proc /\ upper_bound \in Nat /\ BoostRounds \in Nat
  BY ConstantsOK DEF Inv, TypeOK
<1>b. ASSUME NEW p \in Proc PROVE back[p] \in {"run", "yield_tq", "yield_time", "yield_priority", "yield_call"}
  BY DEF Inv, TypeOK, ProgramPc, YieldPc
<1>q. 0 \in Level /\ 0 < Quantum(0)
  BY QuantumBounds DEF Level, LastLevel
<1>l. is_lock = 1 => lock_process \in Proc
  BY DEF Inv, TypeOK, LockConsistent
<1>1. CASE DispatchLocked(c)
  BY <1>0, <1>b, <1>l, <1>1 DEF DispatchLocked, SwitchTo
<1>2. CASE DispatchMlfq(c)
  BY <1>0, <1>b, <1>2 DEF DispatchMlfq, SwitchTo, Runnable
<1>3. CASE IdleRound(c)
  BY <1>0, <1>3 DEF IdleRound
<1>4. CASE CheckZombie(c)
  BY <1>0, <1>4 DEF CheckZombie, OwnerFinished
<1>5. CASE ZombieUnlock(c)
  BY <1>0, <1>q, <1>5 DEF ZombieUnlock, KernelUnlock, UnlockBody, ClearLock, ResetOwner
<1>6. CASE CountRound(c)
  BY <1>0, <1>q, <1>6 DEF CountRound, Boost, Clock
<1>7. CASE BoostUnlock(c)
  BY <1>0, <1>q, <1>7 DEF BoostUnlock, KernelUnlock, UnlockBody, ClearLock, ResetOwner
<1>8. CASE Clear(c)
  BY <1>0, <1>8 DEF Clear
<1>. QED BY <1>1, <1>2, <1>3, <1>4, <1>5, <1>6, <1>7, <1>8 DEF Schedule

\* What a step of the timer trap or of yield does to it.
LEMMA UniTrapStep ==
  ASSUME Inv, UniInv, Cpu = {BootCpu}, NEW c \in Cpu, Trap(c)
  PROVE  UniInv'
<1>. USE DEF UniInv, TqWithinQuantum, Goto, procVars, lockVars, TrapPc
<1>0. /\ pc \in [Cpu -> SchedulerPc \union ProcessPc] /\ cproc \in [Cpu -> Proc \union {NULL}]
      /\ tq \in [Proc -> 0..MaxTq] /\ q_lv \in [Proc -> Level] /\ Cpu = {c}
      /\ reg \in [Cpu -> Int] /\ MaxTq \in Nat /\ state \in [Proc -> States]
      /\ pc[c] \in ProcessPc => cproc[c] \in Proc
      /\ NULL \notin Proc /\ upper_bound \in Nat /\ BoostRounds \in Nat
  BY ConstantsOK DEF Inv, TypeOK, CpuRunsProcess
<1>q. \A p \in Proc : Quantum(q_lv[p]) \in Nat /\ 0 < Quantum(q_lv[p]) /\ Quantum(q_lv[p]) < MaxTq
  BY <1>0, QuantumBounds
<1>p. pc[c] \in {"tq_store", "tq_load", "tq_check", "lv_check", "lv_store", "set_priority",
                 "tq_reset", "yield", "yield_tq", "yield_time", "yield_priority",
                 "yield_call"} => cproc[c] \in Proc
  BY <1>0 DEF ProcessPc, ProgramPc, YieldPc
<1>1. CASE TqStore(c)
  BY <1>0, <1>p, <1>q, <1>1 DEF TqStore, Least
<1>2. CASE TqLoad(c)
  BY <1>0, <1>p, <1>q, <1>2 DEF TqLoad
<1>3. CASE TqCheck(c)
  BY <1>0, <1>p, <1>q, <1>3 DEF TqCheck
<1>4. CASE LevelCheck(c)
  BY <1>0, <1>p, <1>4 DEF LevelCheck
<1>5. CASE LevelStore(c)
  BY <1>0, <1>p, <1>5 DEF LevelStore
<1>6. CASE SetOwnPriority(c)
  BY <1>0, <1>p, <1>6 DEF SetOwnPriority
<1>7. CASE TqReset(c)
  BY <1>0, <1>p, <1>q, <1>7 DEF TqReset
<1>8. CASE SysYieldTq(c)
  BY <1>0, <1>p, <1>q, <1>8 DEF SysYieldTq
<1>9. CASE SysYieldTime(c)
  BY <1>0, <1>p, <1>9 DEF SysYieldTime
<1>10. CASE SysYieldPriority(c)
  BY <1>0, <1>p, <1>10 DEF SysYieldPriority
<1>11. CASE Yield(c)
  BY <1>0, <1>p, <1>11 DEF Yield, Deschedule
<1>. QED BY <1>1, <1>2, <1>3, <1>4, <1>5, <1>6, <1>7, <1>8, <1>9, <1>10, <1>11 DEF Trap

\* What a timer interrupt does to it.
LEMMA UniTimerStep ==
  ASSUME Inv, UniInv, Cpu = {BootCpu}, NEW c \in Cpu, TimerIrq(c)
  PROVE  UniInv'
<1>. USE DEF UniInv, TqWithinQuantum, Goto, procVars, lockVars, TrapPc
<1>0. /\ pc \in [Cpu -> SchedulerPc \union ProcessPc] /\ cproc \in [Cpu -> Proc \union {NULL}]
      /\ tq \in [Proc -> 0..MaxTq] /\ q_lv \in [Proc -> Level] /\ Cpu = {c}
      /\ reg \in [Cpu -> Int] /\ MaxTq \in Nat /\ state \in [Proc -> States]
      /\ pc[c] \in ProcessPc => cproc[c] \in Proc
      /\ NULL \notin Proc /\ upper_bound \in Nat /\ BoostRounds \in Nat
  BY ConstantsOK DEF Inv, TypeOK, CpuRunsProcess
<1>1. pc[c] \in ProgramPc => cproc[c] \in Proc /\ tq[cproc[c]] < Quantum(q_lv[cproc[c]])
  BY <1>0 DEF ProcessPc, ProgramPc, YieldPc
<1>2. lock_process \in Proc /\ state[lock_process] = "ZOMBIE" => state'[lock_process] = "ZOMBIE"
  BY <1>0 DEF TimerIrq, Sleeping
<1>3. is_lock = 1 => lock_process \in Proc
  BY DEF Inv, TypeOK, LockConsistent
<1>4. CASE pc[c] \in ProgramPc
  BY <1>0, <1>1, <1>4 DEF TimerIrq
<1>5. CASE pc[c] \notin ProgramPc
  BY <1>0, <1>2, <1>3, <1>5 DEF TimerIrq
<1>. QED BY <1>4, <1>5

\* What a system call does to it.
LEMMA UniSystemCallStep ==
  ASSUME Inv, UniInv, Cpu = {BootCpu}, NEW c \in Cpu, SystemCall(c)
  PROVE  UniInv'
<1>. USE DEF UniInv, TqWithinQuantum, Goto, procVars, lockVars, TrapPc
<1>0. /\ pc \in [Cpu -> SchedulerPc \union ProcessPc] /\ cproc \in [Cpu -> Proc \union {NULL}]
      /\ tq \in [Proc -> 0..MaxTq] /\ q_lv \in [Proc -> Level] /\ Cpu = {c}
      /\ reg \in [Cpu -> Int] /\ MaxTq \in Nat /\ state \in [Proc -> States]
      /\ pc[c] \in ProcessPc => cproc[c] \in Proc
      /\ NULL \notin Proc /\ upper_bound \in Nat /\ BoostRounds \in Nat
  BY ConstantsOK DEF Inv, TypeOK, CpuRunsProcess
<1>q. 0 \in Level /\ 0 < Quantum(0)
  BY QuantumBounds DEF Level, LastLevel
<1>p. pc[c] = "run" => cproc[c] \in Proc
  BY <1>0 DEF ProcessPc, ProgramPc
<1>l. is_lock = 1 => lock_process \in Proc
  BY DEF Inv, TypeOK, LockConsistent
<1>1. CASE Sleep(c)
  BY <1>0, <1>p, <1>1 DEF Sleep, Deschedule
<1>2. CASE Exit(c)
  BY <1>0, <1>p, <1>2 DEF Exit, Deschedule
<1>3. CASE SysYieldLevel(c)
  <2>1. cproc[c] \in Proc /\ LastLevel \in Level
    BY <1>p, <1>3 DEF SysYieldLevel, Level, LastLevel
  <2>2. tq[cproc[c]] < Quantum(q_lv[cproc[c]])
    BY <1>0, <1>3, <2>1 DEF SysYieldLevel
  <2>3. tq[cproc[c]] < Quantum(LastLevel)
    <3>1. tq[cproc[c]] \in 0..MaxTq /\ q_lv[cproc[c]] \in Level
      BY <1>0, <2>1
    <3>. QED BY <2>2, <3>1, QuantumGrows, QuantumBounds, ConstantsOK, <2>1
  <2>. QED BY <1>0, <1>3, <2>1, <2>3 DEF SysYieldLevel
<1>4. CASE UserLock(c)
  BY <1>0, <1>4 DEF UserLock
<1>5. CASE UserUnlock(c)
  BY <1>0, <1>q, <1>l, <1>5 DEF UserUnlock, UnlockBody, ClearLock, ResetOwner
<1>6. ASSUME NEW p \in Proc, Alloc(c, p) PROVE UniInv'
  BY <1>0, <1>q, <1>6 DEF Alloc
<1>7. ASSUME NEW p \in Proc, Start(c, p) \/ AllocFail(c, p) \/ Reap(c, p) PROVE UniInv'
  BY <1>0, <1>7 DEF Start, AllocFail, Reap, SetState
<1>8. ASSUME NEW p \in Proc, Wakeup(c, p) PROVE UniInv'
  BY <1>0, <1>l, <1>8 DEF Wakeup
<1>9. ASSUME NEW p \in Proc, NEW n \in -1..(MaxPriority + 1), SysSetPriority(c, p, n)
      PROVE UniInv'
  BY <1>0, <1>9 DEF SysSetPriority
<1>. QED BY <1>1, <1>2, <1>3, <1>4, <1>5, <1>6, <1>7, <1>8, <1>9 DEF SystemCall

\* Every step on the only CPU keeps its invariant.
LEMMA UniNextInv == Cpu = {BootCpu} => (Inv /\ UniInv /\ [Next]_vars => UniInv')
<1>1. Cpu = {BootCpu} /\ Inv /\ UniInv /\ Next => UniInv'
  BY UniSchedulerStep, UniTrapStep, UniTimerStep, UniSystemCallStep DEF Next
<1>2. UniInv /\ UNCHANGED vars => UniInv'
  BY DEF vars, procVars, lockVars, UniInv, TqWithinQuantum
<1>. QED BY <1>1, <1>2

\* The invariant holds in every reachable state of a machine with one CPU.
THEOREM MlfqUniInvariant == Cpu = {BootCpu} => (Spec => []UniInv)
<1>. SUFFICES ASSUME Cpu = {BootCpu} PROVE Spec => []UniInv
  OBVIOUS
<1>1. Inv /\ UniInv /\ [Next]_vars => UniInv'
  BY UniNextInv
<1>. QED BY <1>1, InitUniInv, MlfqInvariant, PTL DEF Spec

\* With one CPU no process outside trap() has used up its quantum: trap(), which
\* tests for equality, never steps over it, whatever boosts, yields and unlocks
\* do to level and ticks between two interrupts.
THEOREM MlfqTqWithinQuantum == Cpu = {BootCpu} => (Spec => []TqWithinQuantum)
<1>. SUFFICES ASSUME Cpu = {BootCpu} PROVE Spec => []TqWithinQuantum
  OBVIOUS
<1>1. UniInv => TqWithinQuantum
  BY DEF UniInv
<1>2. Spec => []UniInv
  BY MlfqUniInvariant
<1>. QED BY <1>1, <1>2, PTL

\* The first state has no process marked by an unlock.
LEMMA InitUnlockedInv == Init => UnlockedInv
BY ConstantsOK DEF Init, UnlockedInv, Waiting

\* A step keeps UnlockedInv if it changes no lock, lets nobody but the owner
\* on the CPU, begins no boost's unlock, and changes level or time of a waiting
\* process only together with a time of its own.
LEMMA UnlockedKept ==
  ASSUME UnlockedInv, NEW c \in Cpu, Cpu = {c},
         is_lock' = is_lock, lock_process' = lock_process,
         is_lock = 1 => cproc'[c] \in {NULL, cproc[c], lock_process},
         pc'[c] = "boost_unlock" => pc[c] = "boost_unlock" /\ time' = time,
         \A p \in Waiting' : \/ time'[p] # -1
                             \/ p \in Waiting /\ time'[p] = time[p] /\ q_lv'[p] = q_lv[p]
  PROVE  UnlockedInv'
<1>1. \A p \in Waiting' : time'[p] = -1 => p \in Waiting /\ time[p] = -1 /\ q_lv'[p] = q_lv[p]
  OBVIOUS
<1>2. (is_lock = 1 => \A d \in Cpu : cproc[d] \in {NULL, lock_process})'
  BY DEF UnlockedInv
<1>3. (\A p \in Waiting : time[p] = -1 => q_lv[p] = 0)'
  BY <1>1 DEF UnlockedInv
<1>4. (\A p, r \in Waiting : time[p] = -1 /\ time[r] = -1 => p = r)'
  BY <1>1 DEF UnlockedInv
<1>5. (\A d \in Cpu : pc[d] = "boost_unlock" => \A p \in Proc : time[p] # -1)'
  BY DEF UnlockedInv
<1>. QED BY <1>2, <1>3, <1>4, <1>5 DEF UnlockedInv

\* The process that leaves the CPU bears no mark.
LEMMA UnlockedLeave ==
  ASSUME Inv, UnlockedInv, NEW c \in Cpu, Cpu = {c}, NEW p \in Proc, cproc[c] = p,
         NEW s \in States, Deschedule(c, s)
  PROVE  UnlockedInv'
<1>. USE DEF Goto, procVars, lockVars
<1>1. time' = [time EXCEPT ![p] = ticks] /\ state' = [state EXCEPT ![p] = s] /\ q_lv' = q_lv
  BY DEF Deschedule
<1>0. is_lock' = is_lock /\ lock_process' = lock_process
  BY DEF Deschedule
<1>2. cproc'[c] = NULL /\ pc'[c] = "tail"
  BY DEF Deschedule, Inv, TypeOK
<1>3. time \in [Proc -> -1..MaxTicks] /\ state \in [Proc -> States] /\ ticks # -1
  BY ConstantsOK DEF Inv, TypeOK
<1>4. time'[p] # -1
  BY <1>1, <1>3
<1>5. ASSUME NEW r \in Waiting', r # p
      PROVE  r \in Waiting /\ time'[r] = time[r] /\ q_lv'[r] = q_lv[r]
  BY <1>1, <1>3, <1>5 DEF Waiting
<1>6. \A r \in Waiting' :
             \/ time'[r] # -1
             \/ r \in Waiting /\ time'[r] = time[r] /\ q_lv'[r] = q_lv[r]
  BY <1>4, <1>5
<1>7. pc'[c] # "boost_unlock"
  BY <1>2
<1>. QED BY <1>0, <1>2, <1>6, <1>7, UnlockedKept

\* What a step of the scheduler loop does to it.
LEMMA UnlockedSchedulerStep ==
  ASSUME Inv, UniInv, UnlockedInv, Cpu = {BootCpu}, NEW c \in Cpu, Schedule(c)
  PROVE  UnlockedInv'
<1>. USE DEF Goto, procVars, lockVars, Waiting
<1>0. /\ pc \in [Cpu -> SchedulerPc \union ProcessPc] /\ cproc \in [Cpu -> Proc \union {NULL}]
      /\ state \in [Proc -> States] /\ time \in [Proc -> -1..MaxTicks] /\ Cpu = {c}
      /\ back \in [Proc -> ProgramPc] /\ q_lv \in [Proc -> Level] /\ NULL \notin Proc
      /\ is_lock = 1 => lock_process \in Proc
  BY ConstantsOK DEF Inv, TypeOK, LockConsistent
<1>1. CASE DispatchLocked(c)
  BY <1>0, <1>1, UnlockedKept DEF DispatchLocked, SwitchTo, ProgramPc, YieldPc
<1>2. CASE DispatchMlfq(c)
  BY <1>0, <1>2, UnlockedKept DEF DispatchMlfq, SwitchTo, ProgramPc, YieldPc, Runnable
<1>3. CASE IdleRound(c)
  BY <1>0, <1>3, UnlockedKept DEF IdleRound
<1>4. CASE CheckZombie(c)
  BY <1>0, <1>4, UnlockedKept DEF CheckZombie
<1>5. CASE ZombieUnlock(c)
  <2>1. is_lock = 1 /\ state[lock_process] = "ZOMBIE" /\ lock_process \in Proc
    BY <1>0, <1>5 DEF UniInv, ZombieUnlock, KernelUnlock
  <2>. QED BY <1>0, <1>5, <2>1 DEF ZombieUnlock, KernelUnlock, UnlockBody, ClearLock, ResetOwner, UnlockedInv
<1>6. CASE CountRound(c)
  BY <1>0, <1>6 DEF CountRound, Boost, UnlockedInv
<1>7. CASE BoostUnlock(c)
  BY <1>0, <1>7 DEF BoostUnlock, KernelUnlock, UnlockBody, ClearLock, ResetOwner, UnlockedInv
<1>8. CASE Clear(c)
  BY <1>0, <1>8, UnlockedKept DEF Clear
<1>. QED BY <1>1, <1>2, <1>3, <1>4, <1>5, <1>6, <1>7, <1>8 DEF Schedule

\* What a step of the timer trap, of sys_yield or of yield does to it.
LEMMA UnlockedTrapStep ==
  ASSUME Inv, UnlockedInv, Cpu = {BootCpu}, NEW c \in Cpu, Trap(c)
  PROVE  UnlockedInv'
<1>. USE DEF Goto, procVars, lockVars, Waiting
<1>0. /\ pc \in [Cpu -> SchedulerPc \union ProcessPc] /\ cproc \in [Cpu -> Proc \union {NULL}]
      /\ state \in [Proc -> States] /\ time \in [Proc -> -1..MaxTicks] /\ Cpu = {c}
      /\ q_lv \in [Proc -> Level] /\ ticks \in 0..MaxTicks
  BY ConstantsOK DEF Inv, TypeOK
<1>p. cproc[c] \in Proc /\ state[cproc[c]] = "RUNNING"
  BY <1>0, ConstantsOK
     DEF Trap, TqStore, TqLoad, TqCheck, LevelCheck, LevelStore, SetOwnPriority, TqReset,
         SysYieldTq, SysYieldTime, SysYieldPriority, Yield, ProcessPc, ProgramPc, YieldPc, TrapPc,
         Inv, OneCpuPerProcess, CurrentIsRunning, CpuRunsProcess
<1>1. CASE TqStore(c)
  BY <1>0, <1>1, UnlockedKept DEF TqStore
<1>2. CASE TqLoad(c)
  BY <1>0, <1>2, UnlockedKept DEF TqLoad
<1>3. CASE TqCheck(c)
  BY <1>0, <1>3, UnlockedKept DEF TqCheck
<1>4. CASE LevelCheck(c)
  BY <1>0, <1>4, UnlockedKept DEF LevelCheck
<1>5. CASE LevelStore(c)
  BY <1>0, <1>p, <1>5, UnlockedKept DEF LevelStore
<1>6. CASE SetOwnPriority(c)
  BY <1>0, <1>6, UnlockedKept DEF SetOwnPriority
<1>7. CASE TqReset(c)
  BY <1>0, <1>7, UnlockedKept DEF TqReset
<1>8. CASE SysYieldTq(c)
  BY <1>0, <1>8, UnlockedKept DEF SysYieldTq
<1>9. CASE SysYieldTime(c)
  <2>1. /\ time' = [time EXCEPT ![cproc[c]] = ticks] /\ state' = state /\ ticks # -1
        /\ q_lv' = q_lv
    BY <1>0, <1>9, ConstantsOK DEF SysYieldTime
  <2>3. pc'[c] # "boost_unlock" /\ UNCHANGED <<is_lock, lock_process, cproc>>
    BY <1>0, <1>9 DEF SysYieldTime
  <2>2. ASSUME NEW p \in Waiting'
        PROVE  \/ time'[p] # -1
               \/ p \in Waiting /\ time'[p] = time[p] /\ q_lv'[p] = q_lv[p]
    BY <1>0, <1>p, <2>1, <2>2
  <2>. HIDE DEF Waiting
  <2>. QED BY <1>0, <2>3, <2>2, UnlockedKept
<1>10. CASE SysYieldPriority(c)
  BY <1>0, <1>10, UnlockedKept DEF SysYieldPriority
<1>11. CASE Yield(c)
  BY <1>0, <1>p, <1>11, UnlockedLeave DEF Yield, States
<1>. QED BY <1>1, <1>2, <1>3, <1>4, <1>5, <1>6, <1>7, <1>8, <1>9, <1>10, <1>11 DEF Trap

\* What a timer interrupt does to it.
LEMMA UnlockedTimerStep ==
  ASSUME Inv, UnlockedInv, Cpu = {BootCpu}, NEW c \in Cpu, TimerIrq(c)
  PROVE  UnlockedInv'
<1>0. pc \in [Cpu -> SchedulerPc \union ProcessPc] /\ Cpu = {c} /\ state \in [Proc -> States]
  BY DEF Inv, TypeOK
<1>1. Waiting' = Waiting
  BY <1>0 DEF TimerIrq, Sleeping, Waiting
<1>2. /\ UNCHANGED <<is_lock, lock_process, cproc, time, q_lv>>
      /\ pc'[c] = pc[c] \/ pc'[c] # "boost_unlock"
  BY <1>0 DEF TimerIrq, procVars, lockVars, Goto
<1>. QED BY <1>0, <1>1, <1>2, UnlockedKept

\* What a system call does to it: nobody but the owner is there to unlock.
LEMMA UnlockedSystemCallStep ==
  ASSUME Inv, UnlockedInv, Cpu = {BootCpu}, NEW c \in Cpu, SystemCall(c)
  PROVE  UnlockedInv'
<1>. USE DEF Goto, procVars, lockVars, Waiting
<1>0. /\ pc \in [Cpu -> SchedulerPc \union ProcessPc] /\ cproc \in [Cpu -> Proc \union {NULL}]
      /\ state \in [Proc -> States] /\ time \in [Proc -> -1..MaxTicks] /\ Cpu = {c}
      /\ q_lv \in [Proc -> Level] /\ ticks \in 0..MaxTicks
  BY ConstantsOK DEF Inv, TypeOK
<1>p. pc[c] = "run" => cproc[c] \in Proc /\ state[cproc[c]] = "RUNNING"
  BY <1>0, ConstantsOK DEF ProcessPc, ProgramPc, Inv, OneCpuPerProcess, CurrentIsRunning, CpuRunsProcess
<1>1. CASE Sleep(c)
  BY <1>0, <1>p, <1>1, UnlockedLeave DEF Sleep, States
<1>2. CASE Exit(c)
  BY <1>0, <1>p, <1>2, UnlockedLeave DEF Exit, States
<1>3. CASE SysYieldLevel(c)
  BY <1>0, <1>p, <1>3, UnlockedKept DEF SysYieldLevel
<1>4. CASE UserLock(c)
  BY <1>0, <1>4 DEF UserLock, UnlockedInv
<1>5. CASE UserUnlock(c)
  <2>1. CASE is_lock = 0
    BY <1>0, <1>5, <2>1, UnlockedKept DEF UserUnlock, UnlockBody
  <2>2. CASE is_lock = 1
    <3>1. lock_process \in Proc /\ lock_process = cproc[c] /\ state[lock_process] = "RUNNING"
      BY <1>0, <1>p, <1>5, <2>2, ConstantsOK DEF UserUnlock, UnlockedInv
    <3>2. /\ q_lv' = [q_lv EXCEPT ![lock_process] = 0] /\ time' = [time EXCEPT ![lock_process] = -1]
          /\ is_lock' = 0 /\ state' = state /\ pc[c] = "run" /\ pc' = pc /\ cproc' = cproc
      BY <1>5, <2>2 DEF UserUnlock, UnlockBody, ClearLock, ResetOwner
    <3>3. \A p \in Waiting : p # lock_process /\ time'[p] = time[p] /\ q_lv'[p] = q_lv[p]
      BY <1>0, <3>1, <3>2
    <3>. QED BY <1>0, <3>2, <3>3 DEF UnlockedInv
  <2>. QED BY <2>1, <2>2 DEF Inv, TypeOK
<1>6. ASSUME NEW p \in Proc, Alloc(c, p) PROVE UnlockedInv'
  <2>1. /\ state' = [state EXCEPT ![p] = "EMBRYO"] /\ time' = [time EXCEPT ![p] = ticks]
        /\ q_lv' = [q_lv EXCEPT ![p] = 0] /\ ticks # -1
    BY <1>0, <1>6, ConstantsOK DEF Alloc
  <2>5. pc'[c] # "boost_unlock" /\ UNCHANGED <<is_lock, lock_process, cproc>>
    BY <1>6 DEF Alloc
  <2>2. time'[p] # -1
    BY <1>0, <2>1
  <2>3. ASSUME NEW r \in Waiting', r # p
        PROVE  r \in Waiting /\ time'[r] = time[r] /\ q_lv'[r] = q_lv[r]
    BY <1>0, <2>1, <2>3
  <2>. HIDE DEF Waiting
  <2>4. \A r \in Waiting' :
             \/ time'[r] # -1
             \/ r \in Waiting /\ time'[r] = time[r] /\ q_lv'[r] = q_lv[r]
    BY <2>2, <2>3
  <2>. QED BY <1>0, <2>5, <2>4, UnlockedKept
<1>7. ASSUME NEW p \in Proc, Start(c, p) \/ AllocFail(c, p) \/ Reap(c, p) PROVE UnlockedInv'
  BY <1>0, <1>7, UnlockedKept DEF Start, AllocFail, Reap, SetState
<1>8. ASSUME NEW p \in Proc, Wakeup(c, p) PROVE UnlockedInv'
  BY <1>0, <1>8, UnlockedKept DEF Wakeup
<1>9. ASSUME NEW p \in Proc, NEW n \in -1..(MaxPriority + 1), SysSetPriority(c, p, n)
      PROVE UnlockedInv'
  BY <1>0, <1>9, UnlockedKept DEF SysSetPriority
<1>. QED BY <1>1, <1>2, <1>3, <1>4, <1>5, <1>6, <1>7, <1>8, <1>9 DEF SystemCall

\* One CPU: the process that lost the lock while it waited is preferred to all
\* others until it runs.  At most one process bears the mark, since the lock's
\* owner alone runs while there is a lock and a boost wipes older marks out.
THEOREM MlfqUnlockedFirst == Cpu = {BootCpu} => (Spec => []UnlockedFirst)
<1>. SUFFICES ASSUME Cpu = {BootCpu} PROVE Spec => []UnlockedFirst
  OBVIOUS
<1>1. Inv /\ UniInv /\ UnlockedInv /\ [Next]_vars => UnlockedInv'
  <2>1. Inv /\ UniInv /\ UnlockedInv /\ Next => UnlockedInv'
    BY UnlockedSchedulerStep, UnlockedTrapStep, UnlockedTimerStep, UnlockedSystemCallStep DEF Next
  <2>2. UnlockedInv /\ UNCHANGED vars => UnlockedInv'
    BY DEF vars, procVars, lockVars, UnlockedInv, Waiting
  <2>. QED BY <2>1, <2>2
<1>2. ASSUME Inv, UnlockedInv PROVE UnlockedFirst
  <2>. SUFFICES ASSUME NEW p \in Sleeping \union Runnable, time[p] = -1,
                       NEW r \in Runnable \ {p}
                PROVE  Before(p, r)
    BY DEF UnlockedFirst
  <2>1. p \in Waiting /\ r \in Waiting /\ p \in Proc /\ r \in Proc
    BY DEF Waiting, Sleeping, Runnable
  <2>2. q_lv[p] = 0 /\ time[r] # -1
    BY <1>2, <2>1 DEF UnlockedInv
  <2>3. q_lv[r] \in 0..2 /\ time[r] \in -1..MaxTicks /\ MaxTicks \in Nat
    BY <1>2, <2>1, ConstantsOK DEF Inv, TypeOK, Level
  <2>. QED BY <2>2, <2>3 DEF Before, Preferred, LastLevel
<1>3. Spec => []UniInv
  BY MlfqUniInvariant
<1>. QED BY <1>1, <1>2, <1>3, InitUnlockedInv, MlfqInvariant, PTL DEF Spec

\* With one CPU the scheduler that has let ptable.lock go to unlock for a
\* finished process does unlock for a finished process.
THEOREM MlfqZombieUnlockJustified == Cpu = {BootCpu} => (Spec => ZombieUnlockJustified)
<1>. SUFFICES ASSUME Cpu = {BootCpu} PROVE Spec => ZombieUnlockJustified
  OBVIOUS
<1>. DEFINE A == \A c \in Cpu :
       pc[c] = "zombie_unlock" /\ is_lock = 1 /\ is_lock' = 0
       /\ pc'[c] = "recount" => state[lock_process] \in {"ZOMBIE", "UNUSED"}
<1>1. UniInv => A
  BY DEF UniInv
<1>2. Spec => []UniInv
  BY MlfqUniInvariant
<1>. QED BY <1>1, <1>2, PTL DEF ZombieUnlockJustified

\* With one CPU a boost ends no lock before its time.
THEOREM MlfqBoostUnlockJustified == Cpu = {BootCpu} => (Spec => BoostUnlockJustified)
<1>. SUFFICES ASSUME Cpu = {BootCpu} PROVE Spec => BoostUnlockJustified
  OBVIOUS
<1>. DEFINE A == \A c \in Cpu :
       pc[c] = "boost_unlock" /\ is_lock = 1 /\ is_lock' = 0
       /\ pc'[c] = "clear" => upper_bound >= BoostRounds
<1>1. UniInv => A
  BY DEF UniInv
<1>2. Spec => []UniInv
  BY MlfqUniInvariant
<1>. QED BY <1>1, <1>2, PTL DEF BoostUnlockJustified

(***************************************************************************)
(* The table scan, an instance of MlfqPick over the tables of Mlfq.  That  *)
(* it ends with ScanPicksBest is PickCorrect of UnitProofs.                *)
(***************************************************************************)
VARIABLES
  slot,          \* the loop variable of the scan
  running_p, chk

Scan == INSTANCE MlfqPick WITH runnable <- Runnable, p <- slot

\* Two processes are not preferred to each other.
LEMMA BeforeAsymmetric ==
  ASSUME Inv, NEW a \in Proc, NEW b \in Proc, Before(a, b), Before(b, a)
  PROVE  a = b
<1>1. ASSUME NEW x \in Proc PROVE q_lv[x] \in Int /\ priority[x] \in Int /\ time[x] \in Int /\ x \in Int
  <2>1. q_lv[x] \in Level /\ priority[x] \in 0..MaxPriority /\ time[x] \in -1..MaxTicks
    BY DEF Inv, TypeOK
  <2>. QED BY <2>1, ConstantsOK DEF Level, Proc
<1>. QED BY <1>1 DEF Before, Preferred

\* With the scheduler unlocked, what Mlfq does in one step is the whole scan:
\* the process dispatched is the one that the finished scan has chosen, and
\* a round is idle only when it has chosen none (proc.c:380-424).
THEOREM MlfqDispatchIsScan ==
  ASSUME Inv, Scan!ScanPicksBest, slot = NPROC + 1, chk \in {0, 1}, NEW c \in Cpu, is_lock = 0
  PROVE  /\ DispatchMlfq(c) <=> pc[c] = "sched" /\ ptlock = NULL /\ chk = 1 /\ SwitchTo(c, running_p)
         /\ IdleRound(c) => chk = 0
         /\ Runnable = {} <=> chk = 0
<1>1. chk = 1 => /\ running_p \in Runnable
                 /\ \A r \in Runnable \ {running_p} : Before(running_p, r)
  BY DEF Scan!ScanPicksBest, Scan!Better, Scan!Preferred, Scan!LastLevel, Before, Preferred, LastLevel
<1>2. chk = 1 <=> Runnable # {}
  BY DEF Scan!ScanPicksBest
<1>3. ASSUME NEW a \in Runnable, NEW b \in Runnable, a # b, Before(a, b), Before(b, a)
      PROVE  FALSE
  <2>1. a \in Proc /\ b \in Proc
    BY DEF Runnable
  <2>. QED BY <1>3, <2>1, BeforeAsymmetric
<1>4. DispatchMlfq(c) => pc[c] = "sched" /\ ptlock = NULL /\ chk = 1 /\ SwitchTo(c, running_p)
  <2>1. ASSUME NEW q \in Runnable, \A r \in Runnable \ {q} : Before(q, r), SwitchTo(c, q)
        PROVE  chk = 1 /\ SwitchTo(c, running_p)
    <3>1. chk = 1
      BY <1>2
    <3>2. q = running_p
      BY <1>1, <1>3, <2>1, <3>1
    <3>. QED BY <2>1, <3>1, <3>2
  <2>. QED BY <2>1 DEF DispatchMlfq
<1>5. pc[c] = "sched" /\ ptlock = NULL /\ chk = 1 /\ SwitchTo(c, running_p) => DispatchMlfq(c)
  BY <1>1 DEF DispatchMlfq
<1>6. Runnable = {} <=> chk = 0
  BY <1>2
<1>7. IdleRound(c) => Runnable = {}
  BY DEF IdleRound
<1>. QED BY <1>4, <1>5, <1>6, <1>7

=============================================================================

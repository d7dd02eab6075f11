-------------------------------- MODULE Mlfq --------------------------------
(***************************************************************************)
(* The multi-level feedback queue scheduler of project01/xv6-public:       *)
(* scheduler(), yield(), setPriority(), schedulerLock(), schedulerUnlock() *)
(* and sched() of proc.c, the timer path of trap() in trap.c and           *)
(* sys_yield() of sysproc.c, on any number of CPUs.                        *)
(*                                                                         *)
(* Every CPU has a program counter.  A stretch of code between acquire and *)
(* release of ptable.lock is one step, except where the code drops the     *)
(* lock in the middle (the scheduler around its own schedulerUnlock calls) *)
(* or where the lock is carried from a process into the scheduler (sched), *)
(* which is what the variable ptlock is for.  The accesses trap() makes to *)
(* tq and q_lv WITHOUT the lock are steps of their own, and tq++ and       *)
(* q_lv++ are a load and a store, because the compiled increment is not    *)
(* atomic with respect to the other CPU.                                   *)
(*                                                                         *)
(* Process life-cycle is reduced to what moves a slot in and out of        *)
(* RUNNABLE; parents, channels, pids and kill are in ProcTable.            *)
(***************************************************************************)
EXTENDS MlfqOrder

CONSTANTS
  NPROC,         \* size of ptable.proc (64 in param.h)
  Cpu,           \* the CPUs
  BootCpu,       \* cpu 0, the one whose timer interrupt advances ticks
  BoostRounds,   \* scheduler rounds between two boosts (100 in the code)
  QuantumBase,   \* time quantum of L0 in ticks (4 in the code)
  QuantumStep,   \* quantum growth per level (2 in the code)
  MaxPriority,   \* initial and largest priority (3 in the code)
  Lockers,       \* slots whose program calls schedulerLock/schedulerUnlock
  Sleepers,      \* slots whose program makes blocking system calls
  Exiters,       \* slots whose program exits (and may be forked again)
  Yielders,      \* slots whose program calls yield()
  Renicers,      \* slots whose program calls setPriority()
  MaxTicks,      \* BOUND: ticks saturates here
  MaxTq,         \* BOUND: tq saturates here, above every quantum
  NULL           \* the null pointer

Proc == 1..NPROC
InitProc == 1

ASSUME ConstantsOK ==
  /\ NPROC \in Nat \ {0}
  /\ BootCpu \in Cpu
  /\ BoostRounds \in Nat \ {0}
  /\ QuantumBase \in Nat \ {0}
  /\ QuantumStep \in Nat
  /\ MaxPriority \in Nat
  /\ Lockers \subseteq Proc /\ Sleepers \subseteq Proc /\ Exiters \subseteq Proc
  /\ Yielders \subseteq Proc /\ Renicers \subseteq Proc
  /\ InitProc \notin Exiters
  /\ MaxTicks \in Nat
  /\ MaxTq \in Nat /\ MaxTq > LastLevel * QuantumStep + QuantumBase
  /\ NULL \notin Proc /\ NULL \notin Cpu

VARIABLES
  state,         \* p->state
  q_lv,          \* p->q_lv, the queue level
  tq,            \* p->tq, ticks consumed of the quantum
  priority,      \* p->priority
  time,          \* p->time, when the process last left a CPU
  ticks,         \* the tick counter of trap.c
  upper_bound,   \* ptable.upper_bound, rounds since the last boost
  is_lock,       \* ptable.is_lock
  lock_process,  \* ptable.lock_process
  ptlock,        \* the CPU that carries ptable.lock across a step, or NULL
  cproc,         \* c->proc
  pc,            \* where each CPU is
  back,          \* where a process that left the CPU in trap() was interrupted
  reg            \* value a CPU has loaded and not yet stored

procVars == <<q_lv, tq, priority, time>>
lockVars == <<is_lock, lock_process>>
vars == <<state, procVars, ticks, upper_bound, lockVars, ptlock, cproc, pc, back, reg>>

States == {"UNUSED", "EMBRYO", "SLEEPING", "RUNNABLE", "RUNNING", "ZOMBIE"}

\* Where a CPU can be: in the scheduler with no process, in sys_yield before
\* each of its stores and before its call of yield, in trap(), or with a
\* process outside trap().
SchedulerPc == {"sched", "tail", "count", "zombie_unlock", "recount",
                "boost_unlock", "clear"}
TrapPc == {"tq_store", "tq_load", "tq_check", "lv_check", "lv_store",
           "set_priority", "tq_reset"}
YieldPc == {"yield_tq", "yield_time", "yield_priority", "yield_call"}
ProgramPc == {"run"} \union YieldPc
ProcessPc == ProgramPc \union TrapPc \union {"yield"}

\* Where interrupts are enabled on a CPU: everywhere but in the rounds' tail,
\* where ptable.lock is held, and in trap(), entered through an interrupt gate,
\* and the yield it ends with.
Interruptible == {"sched", "zombie_unlock", "recount", "boost_unlock", "clear"}
                 \union ProgramPc

\* The quantum that trap() compares tq with.
Quantum(l) == l * QuantumStep + QuantumBase

Least(a, b) == IF a < b THEN a ELSE b
Most(a, b) == IF a < b THEN b ELSE a

\* (mutant) the scan forgets that a RUNNING process is taken.
MutRunnable == {p \in Proc : state[p] \in {"RUNNABLE", "RUNNING"}}

Runnable == {p \in Proc : state[p] = "RUNNABLE"}
Sleeping == {p \in Proc : state[p] = "SLEEPING"}

\* a is preferred to b when both are RUNNABLE.
Before(a, b) == Preferred(q_lv, priority, time, a, b)

----------------------------------------------------------------------------
\* userinit has made slot 1 RUNNABLE; every CPU is about to enter the loop.
Init ==
  /\ state = [p \in Proc |-> IF p = InitProc THEN "RUNNABLE" ELSE "UNUSED"]
  /\ q_lv = [p \in Proc |-> 0]
  /\ tq = [p \in Proc |-> 0]
  /\ priority = [p \in Proc |-> IF p = InitProc THEN MaxPriority ELSE 0]
  /\ time = [p \in Proc |-> 0]
  /\ ticks = 0
  /\ upper_bound = 0
  /\ is_lock = 0
  /\ lock_process = NULL
  /\ ptlock = NULL
  /\ cproc = [c \in Cpu |-> NULL]
  /\ pc = [c \in Cpu |-> "sched"]
  /\ back = [p \in Proc |-> "run"]
  /\ reg = [c \in Cpu |-> 0]

Goto(c, l) == pc' = [pc EXCEPT ![c] = l]

----------------------------------------------------------------------------
(* The scheduler loop.                                                     *)

\* swtch to p: it runs on, and its first act is to release ptable.lock.  One
\* that left in trap() is then back where the interrupt came.
SwitchTo(c, p) ==
  /\ cproc' = [cproc EXCEPT ![c] = p]
  /\ state' = [state EXCEPT ![p] = "RUNNING"]
  /\ Goto(c, back[p])
  /\ back' = [back EXCEPT ![p] = "run"]
  /\ UNCHANGED <<procVars, ticks, upper_bound, lockVars, ptlock, reg>>

\* While the scheduler is locked only lock_process is considered.
DispatchLocked(c) ==
  /\ pc[c] = "sched" /\ ptlock = NULL
  /\ is_lock = 1
  /\ state[lock_process] = "RUNNABLE"
  /\ SwitchTo(c, lock_process)

DispatchMlfq(c) ==
  /\ pc[c] = "sched" /\ ptlock = NULL
  /\ is_lock = 0
  /\ \E p \in Runnable :
       /\ \A r \in Runnable \ {p} : Before(p, r)
       /\ SwitchTo(c, p)

\* Nothing to run: the round goes on to its tail with the lock held.
IdleRound(c) ==
  /\ pc[c] = "sched" /\ ptlock = NULL
  /\ IF is_lock = 1 THEN state[lock_process] # "RUNNABLE" ELSE Runnable = {}
  /\ ptlock' = c
  /\ Goto(c, "tail")
  /\ UNCHANGED <<state, procVars, ticks, upper_bound, lockVars, cproc, back, reg>>

\* (mutant) a lock_process that is not RUNNABLE is taken for finished.
MutOwnerFinished == is_lock = 1 /\ state[lock_process] # "RUNNABLE"

OwnerFinished == is_lock = 1 /\ state[lock_process] = "ZOMBIE"

\* A finished lock_process is noticed; the scheduler drops the lock so that
\* schedulerUnlock can take it.
CheckZombie(c) ==
  /\ pc[c] = "tail"
  /\ IF OwnerFinished
     THEN ptlock' = NULL /\ Goto(c, "zombie_unlock")
     ELSE Goto(c, "count") /\ UNCHANGED ptlock
  /\ UNCHANGED <<state, procVars, ticks, upper_bound, lockVars, cproc, back, reg>>

ClearLock == is_lock' = 0 /\ lock_process' = NULL

\* (mutant) the level goes back to L0 but the ticks already used are kept.
MutResetOwner(p) ==
  /\ q_lv' = [q_lv EXCEPT ![p] = 0]
  /\ priority' = [priority EXCEPT ![p] = MaxPriority]
  /\ time' = [time EXCEPT ![p] = -1]
  /\ UNCHANGED tq

ResetOwner(p) ==
  /\ q_lv' = [q_lv EXCEPT ![p] = 0]
  /\ tq' = [tq EXCEPT ![p] = 0]
  /\ priority' = [priority EXCEPT ![p] = MaxPriority]
  /\ time' = [time EXCEPT ![p] = -1]

\* The body of schedulerUnlock between its acquire and its release, called
\* with the right password.
UnlockBody == IF is_lock = 1
              THEN ClearLock /\ ResetOwner(lock_process)
              ELSE UNCHANGED <<procVars, lockVars>>

\* The scheduler's own calls of schedulerUnlock, ptable.lock taken anew.
KernelUnlock(c, from, to) ==
  /\ pc[c] = from /\ ptlock = NULL
  /\ UnlockBody
  /\ Goto(c, to)
  /\ UNCHANGED <<state, ticks, upper_bound, ptlock, cproc, back, reg>>

ZombieUnlock(c) == KernelUnlock(c, "zombie_unlock", "recount")
BoostUnlock(c) == KernelUnlock(c, "boost_unlock", "clear")

\* (mutant) the boost leaves the times as they are.
MutBoostTime ==
  /\ tq' = [p \in Proc |-> 0]
  /\ q_lv' = [p \in Proc |-> 0]
  /\ priority' = [p \in Proc |-> MaxPriority]
  /\ UNCHANGED time

\* (mutant) the boost does not lift the processes back to L0.
MutBoost ==
  /\ tq' = [p \in Proc |-> 0]
  /\ priority' = [p \in Proc |-> MaxPriority]
  /\ time' = [p \in Proc |-> 0]
  /\ UNCHANGED q_lv

\* All slots, the free ones too, go back to the head of L0.
Boost ==
  /\ tq' = [p \in Proc |-> 0]
  /\ q_lv' = [p \in Proc |-> 0]
  /\ priority' = [p \in Proc |-> MaxPriority]
  /\ time' = [p \in Proc |-> 0]

\* (mutant) the boost clock is cleared before the boost unlocks the scheduler.
MutClock(boost) == IF boost THEN 0 ELSE upper_bound + 1

\* The boost clock when the round has been counted.
Clock(boost) == IF boost /\ is_lock = 0 THEN 0 ELSE upper_bound + 1

\* The round is counted; every BoostRounds rounds there is a boost, after
\* which a locked scheduler is to be unlocked.
CountRound(c) ==
  /\ \/ pc[c] = "count" /\ ptlock = c
     \/ pc[c] = "recount" /\ ptlock = NULL
  /\ LET boost == upper_bound + 1 >= BoostRounds
     IN /\ IF boost THEN Boost ELSE UNCHANGED procVars
        /\ upper_bound' = Clock(boost)
        /\ Goto(c, IF boost /\ is_lock = 1 THEN "boost_unlock" ELSE "sched")
  /\ ptlock' = NULL
  /\ UNCHANGED <<state, ticks, lockVars, cproc, back, reg>>

\* upper_bound = 0 after the boost unlocked the scheduler.
Clear(c) ==
  /\ pc[c] = "clear" /\ ptlock = NULL
  /\ upper_bound' = 0
  /\ Goto(c, "sched")
  /\ UNCHANGED <<state, procVars, ticks, lockVars, ptlock, cproc, back, reg>>

----------------------------------------------------------------------------
(* The timer interrupt.                                                    *)

\* trap() up to the load of tq++.  On cpu 0 the tick is counted and the
\* processes sleeping on it, any of the sleeping ones, become RUNNABLE.  On a
\* CPU that runs no process trap() does nothing more.
TimerIrq(c) ==
  /\ pc[c] \in Interruptible
  /\ IF c = BootCpu
     THEN /\ ptlock = NULL
          /\ ticks' = Least(ticks + 1, MaxTicks)
          /\ \E S \in SUBSET Sleeping :
               state' = [p \in Proc |-> IF p \in S THEN "RUNNABLE" ELSE state[p]]
     ELSE UNCHANGED <<ticks, state>>
  /\ IF pc[c] \in ProgramPc
     THEN /\ Goto(c, "tq_store")
          /\ reg' = [reg EXCEPT ![c] = tq[cproc[c]]]
          /\ back' = [back EXCEPT ![cproc[c]] = pc[c]]
     ELSE UNCHANGED <<pc, reg, back>>
  /\ UNCHANGED <<procVars, upper_bound, lockVars, ptlock, cproc>>

\* The store of tq++.
TqStore(c) ==
  /\ pc[c] = "tq_store"
  /\ tq' = [tq EXCEPT ![cproc[c]] = Least(reg[c] + 1, MaxTq)]
  /\ Goto(c, "tq_load")
  /\ UNCHANGED <<state, q_lv, priority, time, ticks, upper_bound, lockVars,
                 ptlock, cproc, back, reg>>

\* The comparison with the quantum reads tq and then q_lv.
TqLoad(c) ==
  /\ pc[c] = "tq_load"
  /\ reg' = [reg EXCEPT ![c] = tq[cproc[c]]]
  /\ Goto(c, "tq_check")
  /\ UNCHANGED <<state, procVars, ticks, upper_bound, lockVars, ptlock, cproc, back>>

TqCheck(c) ==
  /\ pc[c] = "tq_check"
  /\ Goto(c, IF reg[c] = Quantum(q_lv[cproc[c]]) THEN "lv_check" ELSE "yield")
  /\ UNCHANGED <<state, procVars, ticks, upper_bound, lockVars, ptlock, cproc, back, reg>>

\* (mutant) the level is raised from L2 too.
MutInLastLevel(p) == q_lv[p] > LastLevel

InLastLevel(p) == q_lv[p] = LastLevel

\* Quantum used up: either the argument of setPriority is computed or the
\* level is loaded for q_lv++, both without the lock.
LevelCheck(c) ==
  /\ pc[c] = "lv_check"
  /\ LET p == cproc[c]
     IN IF InLastLevel(p)
        THEN /\ Goto(c, "set_priority")
             /\ reg' = [reg EXCEPT ![c] = priority[p] - 1]
        ELSE /\ Goto(c, "lv_store")
             /\ reg' = [reg EXCEPT ![c] = q_lv[p]]
  /\ UNCHANGED <<state, procVars, ticks, upper_bound, lockVars, ptlock, cproc, back>>

LevelStore(c) ==
  /\ pc[c] = "lv_store"
  /\ q_lv' = [q_lv EXCEPT ![cproc[c]] = reg[c] + 1]
  /\ Goto(c, "tq_reset")
  /\ UNCHANGED <<state, tq, priority, time, ticks, upper_bound, lockVars,
                 ptlock, cproc, back, reg>>

\* setPriority clamps its argument to 0..MaxPriority.
Clamp(n) == Most(0, Least(n, MaxPriority))

SetOwnPriority(c) ==
  /\ pc[c] = "set_priority" /\ ptlock = NULL
  /\ priority' = [priority EXCEPT ![cproc[c]] = Clamp(reg[c])]
  /\ Goto(c, "tq_reset")
  /\ UNCHANGED <<state, q_lv, tq, time, ticks, upper_bound, lockVars, ptlock,
                 cproc, back, reg>>

TqReset(c) ==
  /\ pc[c] = "tq_reset"
  /\ tq' = [tq EXCEPT ![cproc[c]] = 0]
  /\ Goto(c, "yield")
  /\ UNCHANGED <<state, q_lv, priority, time, ticks, upper_bound, lockVars,
                 ptlock, cproc, back, reg>>

----------------------------------------------------------------------------
(* Leaving the CPU: state is set under ptable.lock, sched() carries the    *)
(* lock into the scheduler, which stamps the process with ticks.           *)

Deschedule(c, s) ==
  /\ ptlock = NULL
  /\ ptlock' = c
  /\ state' = [state EXCEPT ![cproc[c]] = s]
  /\ time' = [time EXCEPT ![cproc[c]] = ticks]
  /\ cproc' = [cproc EXCEPT ![c] = NULL]
  /\ Goto(c, "tail")
  /\ UNCHANGED <<q_lv, tq, priority, ticks, upper_bound, lockVars, back, reg>>

Yield(c) == pc[c] \in {"yield", "yield_call"} /\ Deschedule(c, "RUNNABLE")
Sleep(c) == pc[c] = "run" /\ cproc[c] \in Sleepers /\ Deschedule(c, "SLEEPING")

\* exit(), also the end of a process that gave a wrong password or used the
\* T_SCHEDLOCK and T_SCHEDUNLOCK traps.
Exit(c) == pc[c] = "run" /\ cproc[c] \in Exiters /\ Deschedule(c, "ZOMBIE")

\* sys_yield writes the slot's fields one by one, without the lock and with
\* interrupts on, and then calls yield.  The load of ticks and the store of
\* time are one step: no scan reads the time of a RUNNING process, and what is
\* stored is overwritten when the process leaves the CPU.
SysYieldLevel(c) ==
  /\ pc[c] = "run" /\ cproc[c] \in Yielders
  /\ q_lv' = [q_lv EXCEPT ![cproc[c]] = LastLevel]
  /\ Goto(c, "yield_tq")
  /\ UNCHANGED <<state, tq, priority, time, ticks, upper_bound, lockVars,
                 ptlock, cproc, back, reg>>

SysYieldTq(c) ==
  /\ pc[c] = "yield_tq"
  /\ tq' = [tq EXCEPT ![cproc[c]] = 0]
  /\ Goto(c, "yield_time")
  /\ UNCHANGED <<state, q_lv, priority, time, ticks, upper_bound, lockVars,
                 ptlock, cproc, back, reg>>

SysYieldTime(c) ==
  /\ pc[c] = "yield_time"
  /\ time' = [time EXCEPT ![cproc[c]] = ticks]
  /\ Goto(c, "yield_priority")
  /\ UNCHANGED <<state, q_lv, tq, priority, ticks, upper_bound, lockVars,
                 ptlock, cproc, back, reg>>

SysYieldPriority(c) ==
  /\ pc[c] = "yield_priority"
  /\ priority' = [priority EXCEPT ![cproc[c]] = MaxPriority]
  /\ Goto(c, "yield_call")
  /\ UNCHANGED <<state, q_lv, tq, time, ticks, upper_bound, lockVars,
                 ptlock, cproc, back, reg>>

----------------------------------------------------------------------------
(* What a running process does through the other system calls.             *)

\* allocproc, and fork's own initialisation: the first free slot.
Alloc(c, np) ==
  /\ pc[c] = "run" /\ ptlock = NULL
  /\ state[np] = "UNUSED"
  /\ \A p \in 1..(np - 1) : state[p] # "UNUSED"
  /\ state' = [state EXCEPT ![np] = "EMBRYO"]
  /\ q_lv' = [q_lv EXCEPT ![np] = 0]
  /\ tq' = [tq EXCEPT ![np] = 0]
  /\ priority' = [priority EXCEPT ![np] = MaxPriority]
  /\ time' = [time EXCEPT ![np] = ticks]
  /\ UNCHANGED <<ticks, upper_bound, lockVars, ptlock, cproc, pc, back, reg>>

\* A state change of slot p made by a running process under ptable.lock.
SetState(c, p, from, to) ==
  /\ pc[c] = "run" /\ ptlock = NULL
  /\ state[p] = from
  /\ state' = [state EXCEPT ![p] = to]
  /\ UNCHANGED <<procVars, ticks, upper_bound, lockVars, ptlock, cproc, pc, back, reg>>

Start(c, np) == SetState(c, np, "EMBRYO", "RUNNABLE")      \* end of fork
AllocFail(c, np) == SetState(c, np, "EMBRYO", "UNUSED")    \* no memory
Reap(c, p) == SetState(c, p, "ZOMBIE", "UNUSED")           \* wait()

\* wakeup() by a device interrupt or by a system call, and kill() of a
\* sleeping process.
Wakeup(c, p) ==
  /\ pc[c] \in Interruptible /\ ptlock = NULL
  /\ state[p] = "SLEEPING"
  /\ state' = [state EXCEPT ![p] = "RUNNABLE"]
  /\ UNCHANGED <<procVars, ticks, upper_bound, lockVars, ptlock, cproc, pc, back, reg>>

\* The system call setPriority(pid, n) for any existing process.
SysSetPriority(c, p, n) ==
  /\ pc[c] = "run" /\ ptlock = NULL
  /\ cproc[c] \in Renicers /\ state[p] # "UNUSED"
  /\ priority' = [priority EXCEPT ![p] = Clamp(n)]
  /\ UNCHANGED <<state, q_lv, tq, time, ticks, upper_bound, lockVars, ptlock,
                 cproc, pc, back, reg>>

\* (mutant) the boost clock is reset although the call is refused.
MutUserLock(c) ==
  /\ pc[c] = "run" /\ ptlock = NULL
  /\ cproc[c] \in Lockers
  /\ upper_bound' = 0
  /\ is_lock' = 1
  /\ lock_process' = IF is_lock = 1 THEN lock_process ELSE cproc[c]
  /\ UNCHANGED <<state, procVars, ticks, ptlock, cproc, pc, back, reg>>

\* schedulerLock: refused while locked.
UserLock(c) ==
  /\ pc[c] = "run" /\ ptlock = NULL
  /\ cproc[c] \in Lockers
  /\ is_lock = 0
  /\ upper_bound' = 0
  /\ is_lock' = 1
  /\ lock_process' = cproc[c]
  /\ UNCHANGED <<state, procVars, ticks, ptlock, cproc, pc, back, reg>>

\* schedulerUnlock: any process that knows the password may call it.
UserUnlock(c) ==
  /\ pc[c] = "run" /\ ptlock = NULL
  /\ cproc[c] \in Lockers
  /\ UnlockBody
  /\ UNCHANGED <<state, ticks, upper_bound, ptlock, cproc, pc, back, reg>>

----------------------------------------------------------------------------
Schedule(c) ==
  \/ DispatchLocked(c) \/ DispatchMlfq(c) \/ IdleRound(c)
  \/ CheckZombie(c) \/ ZombieUnlock(c) \/ CountRound(c)
  \/ BoostUnlock(c) \/ Clear(c)

Trap(c) ==
  \/ TqStore(c) \/ TqLoad(c) \/ TqCheck(c) \/ LevelCheck(c) \/ LevelStore(c)
  \/ SetOwnPriority(c) \/ TqReset(c) \/ Yield(c)
  \/ SysYieldTq(c) \/ SysYieldTime(c) \/ SysYieldPriority(c)

SystemCall(c) ==
  \/ Sleep(c) \/ Exit(c) \/ SysYieldLevel(c) \/ UserLock(c) \/ UserUnlock(c)
  \/ \E p \in Proc :
       \/ Alloc(c, p) \/ Start(c, p) \/ AllocFail(c, p) \/ Reap(c, p)
       \/ Wakeup(c, p)
       \/ \E n \in -1..(MaxPriority + 1) : SysSetPriority(c, p, n)

Next == \E c \in Cpu : Schedule(c) \/ Trap(c) \/ TimerIrq(c) \/ SystemCall(c)

Spec == Init /\ [][Next]_vars

\* A CPU executes what it has begun.  Its timer keeps interrupting it: an
\* interrupt raised while interrupts are off stays pending until they are on,
\* hence strong fairness.  No system call is ever forced.
Fairness == \A c \in Cpu : WF_vars(Schedule(c) \/ Trap(c)) /\ SF_vars(TimerIrq(c))

FairSpec == Spec /\ Fairness

----------------------------------------------------------------------------
(* Properties.                                                             *)

\* Every variable keeps its type; in particular getLevel never leaves 0..2,
\* which is what sys_getLevel and the "Wrong level" checks of mlfq_test.c rely on.
TypeOK ==
  /\ state \in [Proc -> States]
  /\ q_lv \in [Proc -> Level]
  /\ tq \in [Proc -> 0..MaxTq]
  /\ priority \in [Proc -> 0..MaxPriority]
  /\ time \in [Proc -> -1..MaxTicks]
  /\ ticks \in 0..MaxTicks
  /\ upper_bound \in Nat
  /\ is_lock \in {0, 1}
  /\ lock_process \in Proc \union {NULL}
  /\ ptlock \in Cpu \union {NULL}
  /\ cproc \in [Cpu -> Proc \union {NULL}]
  /\ pc \in [Cpu -> SchedulerPc \union ProcessPc]
  /\ back \in [Proc -> ProgramPc]
  /\ reg \in [Cpu -> Int]

\* A process is RUNNING exactly when some CPU runs it, and no two CPUs run
\* the same one, though its state is set by one CPU at dispatch and by the
\* process itself when it leaves.
RunningHasCpu ==
  \A p \in Proc : state[p] = "RUNNING" => \E c \in Cpu : cproc[c] = p
CurrentIsRunning == \A c \in Cpu : cproc[c] # NULL => state[cproc[c]] = "RUNNING"
OneCpu == \A c, d \in Cpu : cproc[c] = cproc[d] /\ cproc[c] # NULL => c = d
OneCpuPerProcess == RunningHasCpu /\ CurrentIsRunning /\ OneCpu

\* The scheduler dereferences lock_process whenever is_lock is set.
LockConsistent == is_lock = 1 <=> lock_process # NULL

\* The inductive invariant of the proofs: where a CPU is says whether it runs
\* a process and whether it carries ptable.lock, a loaded level is not the
\* last one, and the properties above.
CpuRunsProcess == \A c \in Cpu : cproc[c] # NULL <=> pc[c] \in ProcessPc
PtlockHeld == \A c \in Cpu : ptlock = c <=> pc[c] \in {"tail", "count"}
RegOK ==
  \A c \in Cpu :
    /\ pc[c] = "tq_store" => reg[c] \in 0..MaxTq
    /\ pc[c] = "lv_store" => reg[c] \in Level \ {LastLevel}

Inv ==
  /\ TypeOK
  /\ OneCpuPerProcess
  /\ CpuRunsProcess
  /\ PtlockHeld
  /\ RegOK
  /\ LockConsistent

\* A process that is not inside trap() has not used up its quantum: the test
\* for equality in trap() never misses the moment, also when the interrupt
\* comes between two stores of sys_yield.
TqWithinQuantum ==
  \A p \in Proc :
    \/ tq[p] < Quantum(q_lv[p])
    \/ \E c \in Cpu : cproc[c] = p /\ pc[c] \in TrapPc

\* "make this process L0 queue first" (proc.c:544): the process that lost the
\* lock while it was off the CPU is preferred to every RUNNABLE one until it
\* runs.  The -1 by which schedulerUnlock marks it must still be the only one
\* when it wakes up, whoever has locked the scheduler and lost the lock since.
UnlockedFirst ==
  \A p \in Sleeping \union Runnable :
    time[p] = -1 => \A r \in Runnable \ {p} : Before(p, r)

\* The processes that wait for a CPU or for something else.
Waiting == {p \in Proc : state[p] \in {"EMBRYO", "SLEEPING", "RUNNABLE"}}

\* What makes UnlockedFirst inductive where one CPU runs: nobody but the owner
\* runs while the scheduler is locked, so that nobody else can unlock it; one
\* waiting process at most has the time -1, and it is in L0; a boost has just
\* overwritten every time when it unlocks the scheduler.
UnlockedInv ==
  /\ is_lock = 1 => \A c \in Cpu : cproc[c] \in {NULL, lock_process}
  /\ \A p \in Waiting : time[p] = -1 => q_lv[p] = 0
  /\ \A p, r \in Waiting : time[p] = -1 /\ time[r] = -1 => p = r
  /\ \A c \in Cpu : pc[c] = "boost_unlock" => \A p \in Proc : time[p] # -1

\* What makes TqWithinQuantum inductive where one CPU runs: a quantum is used
\* up by the increment of tq at the earliest, what the trap has loaded is what
\* tq holds, and the two reasons of the scheduler to unlock last until it does.
UniInv ==
  /\ TqWithinQuantum
  /\ \A c \in Cpu :
       /\ pc[c] \in {"tq_store", "tq_check"} => reg[c] = tq[cproc[c]]
       /\ pc[c] = "tq_store" => tq[cproc[c]] < Quantum(q_lv[cproc[c]])
       /\ pc[c] \in {"tq_load", "tq_check"} => tq[cproc[c]] <= Quantum(q_lv[cproc[c]])
       /\ pc[c] = "zombie_unlock" => is_lock = 1 /\ state[lock_process] = "ZOMBIE"
       /\ pc[c] = "boost_unlock" => upper_bound >= BoostRounds

\* "if scheduler lock_process finish, unlock scheduler" (proc.c:430): the
\* unlock made for a finished process never ends the lock of a live one.
ZombieUnlockJustified ==
  [][\A c \in Cpu :
       pc[c] = "zombie_unlock" /\ is_lock = 1 /\ is_lock' = 0
       /\ pc'[c] = "recount" => state[lock_process] \in {"ZOMBIE", "UNUSED"}]_vars

\* "if scheduler lock and global ticks == 100, unlock scheduler" (proc.c:447):
\* the unlock made by a boost ends a lock that is BoostRounds rounds old.
BoostUnlockJustified ==
  [][\A c \in Cpu :
       pc[c] = "boost_unlock" /\ is_lock = 1 /\ is_lock' = 0
       /\ pc'[c] = "clear" => upper_bound >= BoostRounds]_vars

\* A locked scheduler is unlocked, whatever its owner does: it may sleep,
\* exit or loop.
LockReleased == is_lock = 1 ~> is_lock = 0

\* No RUNNABLE process waits for ever while nobody locks the scheduler.
NoStarvation ==
  \A p \in Proc : state[p] = "RUNNABLE" ~> state[p] # "RUNNABLE" \/ is_lock = 1

=============================================================================

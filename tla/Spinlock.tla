------------------------------ MODULE Spinlock ------------------------------
(***************************************************************************)
(* The spin locks of spinlock.c with pushcli and popcli, the context       *)
(* switch between processes and the scheduler of each CPU, and interrupts. *)
(*                                                                         *)
(* Tasks are the processes and the schedulers; the scheduler of CPU c is   *)
(* named c.  A task runs on the CPU that is switched to it and may be *)
(* interrupted wherever FL_IF is set; the handler runs on the task's stack *)
(* with FL_IF clear, takes locks and, on a timer tick, yields.             *)
(* What runs with FL_IF clear is split only where another CPU may see it.  *)
(***************************************************************************)
EXTENDS Integers, Sequences, FiniteSets

CONSTANTS
  Cpu, Thread,   \* the CPUs, and the processes
  Spin,          \* the spin locks
  PTABLE,        \* ptable.lock
  Inner,         \* the locks that the kernel takes while it holds another
  MaxNest,       \* BOUND: handlers on one stack
  Nil            \* no process, no CPU, no lock

ASSUME SpinlockConstants ==
  /\ PTABLE \in Spin /\ Inner \subseteq Spin /\ IsFiniteSet(Spin) /\ MaxNest \in Nat
  /\ Cpu \intersect Thread = {} /\ Nil \notin Cpu \union Thread \union Spin

VARIABLES
  locked,        \* the locks with lk->locked
  owner,         \* lk->cpu
  ncli,          \* field of struct cpu
  intena,        \* the CPUs with intena
  fl_if,         \* the CPUs with FL_IF: they take interrupts
  running,       \* the process a CPU is switched to, or Nil: its scheduler
  turn,          \* where a scheduler is in its loop: "tail", "pick"
  point,         \* where a task is
  lk,            \* the lock that it acquires or releases; Nil in myproc()
  eflags,        \* the tasks whose local eflags of pushcli has FL_IF
  held,          \* the locks that it has acquired and not released
  frames,        \* the handlers' stack frames: what each of them interrupted
  saved,         \* the tasks whose local intena of sched() is set
  mine,          \* the local variable c of myproc()
  death          \* the message of a panic

cpuvars == <<ncli, intena, fl_if, running>>
localvars == <<point, lk, eflags, held, frames, saved, mine>>
spinvars == <<locked, owner, cpuvars, turn, localvars, death>>

Task == Cpu \union Thread

On(c) == IF running[c] = Nil THEN c ELSE running[c]

SpinInit ==
  /\ locked = {} /\ owner = [l \in Spin |-> Nil]
  /\ ncli = [c \in Cpu |-> 0] /\ intena = {} /\ fl_if = {} /\ eflags = {} /\ saved = {}
  /\ running = [c \in Cpu |-> Nil]
  /\ turn = [c \in Cpu |-> "tail"]
  /\ point = [t \in Task |-> IF t \in Cpu THEN "run" ELSE "new"]
  /\ lk = [t \in Task |-> Nil] /\ mine = [t \in Task |-> Nil]
  /\ held = [t \in Task |-> {}] /\ frames = [t \in Task |-> <<>>]
  /\ death = ""

\* Task t executes on CPU c and has come to l.
Runs(t, c, l) == death = "" /\ t = On(c) /\ point[t] = l

Goto(t, l) == point' = [point EXCEPT ![t] = l]

Holding(c, l) == l \in locked /\ owner[l] = c

----------------------------------------------------------------------------
(* acquire, release and myproc.                                            *)

MayTake(t, l) ==
  /\ held[t] # {} => l \in Inner
  /\ l \notin held[t]
  /\ t \in Cpu /\ frames[t] = <<>> /\ held[t] = {} => l = PTABLE

SetTo(set, x, b) == IF b THEN set \union {x} ELSE set \ {x}

\* pushcli reads the flags before it clears them; an interrupt may come in between.
Readeflags(t, c, l) ==
  /\ Runs(t, c, "run") /\ (l # Nil => MayTake(t, l))
  /\ eflags' = SetTo(eflags, t, c \in fl_if) /\ lk' = [lk EXCEPT ![t] = l] /\ Goto(t, "cli")
  /\ UNCHANGED <<locked, owner, cpuvars, turn, held, frames, saved, mine, death>>

\* The rest of pushcli; then acquire() makes its check and myproc() calls mycpu().
Pushcli(t, c) ==
  /\ Runs(t, c, "cli")
  /\ fl_if' = fl_if \ {c} /\ ncli' = [ncli EXCEPT ![c] = @ + 1]
  /\ intena' = IF ncli[c] = 0 THEN SetTo(intena, c, t \in eflags) ELSE intena
  /\ eflags' = eflags \ {t}
  /\ IF lk[t] = Nil THEN mine' = [mine EXCEPT ![t] = c] /\ Goto(t, "proc")
                    ELSE UNCHANGED mine /\ Goto(t, "xchg")
  /\ death' = IF lk[t] # Nil /\ Holding(c, lk[t]) THEN "acquire" ELSE ""
  /\ UNCHANGED <<locked, owner, running, turn, lk, held, frames, saved>>

Xchg(t, c) ==
  /\ Runs(t, c, "xchg") /\ lk[t] \notin locked
  /\ locked' = locked \union {lk[t]} /\ Goto(t, "own")
  /\ UNCHANGED <<owner, cpuvars, turn, lk, eflags, held, frames, saved, mine, death>>

Own(t, c) ==
  /\ Runs(t, c, "own")
  /\ owner' = [owner EXCEPT ![lk[t]] = c] /\ lk' = [lk EXCEPT ![t] = Nil]
  /\ held' = [held EXCEPT ![t] = @ \union {lk[t]}] /\ Goto(t, "run")
  /\ UNCHANGED <<locked, cpuvars, turn, eflags, frames, saved, mine, death>>

\* A scheduler that looks for a process keeps ptable.lock.
MayRelease(t, l) == l \in held[t] /\ ~(t \in Cpu /\ frames[t] = <<>> /\ turn[t] = "pick" /\ l = PTABLE)

Release(t, c, l) ==
  /\ Runs(t, c, "run") /\ MayRelease(t, l)
  /\ owner' = [owner EXCEPT ![l] = Nil] /\ held' = [held EXCEPT ![t] = @ \ {l}]
  /\ lk' = [lk EXCEPT ![t] = l] /\ Goto(t, "unlock")
  /\ death' = IF Holding(c, l) THEN "" ELSE "release"
  /\ UNCHANGED <<locked, cpuvars, turn, eflags, frames, saved, mine>>

Popcli(c) ==
  /\ ncli' = [ncli EXCEPT ![c] = @ - 1]
  /\ fl_if' = IF ncli[c] = 1 /\ c \in intena THEN fl_if \union {c} ELSE fl_if
  /\ death' = IF c \in fl_if THEN "popcli - interruptible" ELSE IF ncli[c] < 1 THEN "popcli" ELSE ""

Unlock(t, c) ==
  /\ Runs(t, c, "unlock")
  /\ locked' = locked \ {lk[t]} /\ lk' = [lk EXCEPT ![t] = Nil] /\ Goto(t, "run") /\ Popcli(c)
  /\ UNCHANGED <<owner, intena, running, turn, eflags, held, frames, saved, mine>>

\* myproc() reads c->proc, which MyprocIsCaller compares with the caller.
Myproc(t, c) ==
  /\ Runs(t, c, "proc")
  /\ mine' = [mine EXCEPT ![t] = Nil] /\ Goto(t, "run") /\ Popcli(c)
  /\ UNCHANGED <<locked, owner, intena, running, turn, lk, eflags, held, frames, saved>>

----------------------------------------------------------------------------
(* Interrupts.                                                             *)

Frame(t) == [point |-> point[t], lk |-> lk[t], eflags |-> eflags \intersect {t}, held |-> held[t], mine |-> mine[t]]

Interrupt(t, c) ==
  /\ death = "" /\ t = On(c) /\ c \in fl_if /\ Len(frames[t]) < MaxNest
  /\ frames' = [frames EXCEPT ![t] = Append(@, Frame(t))]
  /\ fl_if' = fl_if \ {c}
  /\ held' = [held EXCEPT ![t] = {}] /\ Goto(t, "run")
  /\ lk' = [lk EXCEPT ![t] = Nil] /\ eflags' = eflags \ {t} /\ mine' = [mine EXCEPT ![t] = Nil]
  /\ UNCHANGED <<locked, owner, ncli, intena, running, turn, saved, death>>

Iret(t, c) ==
  /\ Runs(t, c, "run") /\ held[t] = {} /\ frames[t] # <<>>
  /\ LET f == frames[t][Len(frames[t])] IN
       /\ point' = [point EXCEPT ![t] = f.point] /\ lk' = [lk EXCEPT ![t] = f.lk]
       /\ eflags' = (eflags \ {t}) \union f.eflags
       /\ held' = [held EXCEPT ![t] = f.held] /\ mine' = [mine EXCEPT ![t] = f.mine]
  /\ frames' = [frames EXCEPT ![t] = SubSeq(@, 1, Len(@) - 1)]
  /\ fl_if' = fl_if \union {c}
  /\ UNCHANGED <<locked, owner, ncli, intena, running, turn, saved, death>>

----------------------------------------------------------------------------
(* The context switch.                                                     *)

\* yield, sleep and exit have taken ptable.lock and released all others.
Sched(p, c) ==
  /\ Runs(p, c, "run") /\ p \in Thread /\ held[p] = {PTABLE}
  /\ saved' = SetTo(saved, p, c \in intena)
  /\ running' = [running EXCEPT ![c] = Nil]
  /\ held' = [held EXCEPT ![p] = {}, ![c] = {PTABLE}] /\ Goto(p, "swtch")
  /\ death' = IF ~Holding(c, PTABLE) THEN "sched ptable.lock"
              ELSE IF ncli[c] # 1 THEN "sched locks"
              ELSE IF c \in fl_if THEN "sched interruptible" ELSE ""
  /\ UNCHANGED <<locked, owner, ncli, intena, fl_if, turn, lk, eflags, frames, mine>>

\* intena stays that of the scheduler.
MutResume(p, c) ==
  /\ Runs(p, c, "swtch")
  /\ saved' = saved \ {p} /\ Goto(p, "run")
  /\ UNCHANGED <<locked, owner, ncli, intena, fl_if, running, turn, lk, eflags, held, frames, mine, death>>

\* sched() goes on on the CPU that switched to it.
Resume(p, c) ==
  /\ Runs(p, c, "swtch")
  /\ intena' = SetTo(intena, c, p \in saved) /\ saved' = saved \ {p} /\ Goto(p, "run")
  /\ UNCHANGED <<locked, owner, ncli, fl_if, running, turn, lk, eflags, held, frames, mine, death>>

Scheduling(c) == Runs(c, c, "run") /\ frames[c] = <<>>

Sti(c) ==
  /\ Scheduling(c) /\ turn[c] = "tail" /\ held[c] = {}
  /\ fl_if' = fl_if \union {c} /\ turn' = [turn EXCEPT ![c] = "pick"]
  /\ UNCHANGED <<locked, owner, ncli, intena, running, localvars, death>>

\* No process is RUNNABLE, or the one that locked the scheduler is not.
PickNone(c) ==
  /\ Scheduling(c) /\ turn[c] = "pick" /\ held[c] = {PTABLE}
  /\ turn' = [turn EXCEPT ![c] = "tail"]
  /\ UNCHANGED <<locked, owner, cpuvars, localvars, death>>

\* The chosen process goes on in sched(), a new one in forkret().
Pick(c, p) ==
  /\ Scheduling(c) /\ turn[c] = "pick" /\ held[c] = {PTABLE}
  /\ p \in Thread /\ point[p] \in {"new", "swtch"} /\ \A d \in Cpu : running[d] # p
  /\ turn' = [turn EXCEPT ![c] = "tail"]
  /\ running' = [running EXCEPT ![c] = p]
  /\ held' = [held EXCEPT ![c] = {}, ![p] = {PTABLE}]
  /\ Goto(p, IF point[p] = "new" THEN "run" ELSE "swtch")
  /\ UNCHANGED <<locked, owner, ncli, intena, fl_if, lk, eflags, frames, saved, mine, death>>

----------------------------------------------------------------------------
SpinNext ==
  \E c \in Cpu :
    \/ \E t \in Task :
         \/ \E l \in Spin \union {Nil} : Readeflags(t, c, l)
         \/ \E l \in Spin : Release(t, c, l)
         \/ Pushcli(t, c) \/ Xchg(t, c) \/ Own(t, c) \/ Unlock(t, c)
         \/ Myproc(t, c)
         \/ Interrupt(t, c) \/ Iret(t, c) \/ Sched(t, c) \/ Resume(t, c)
    \/ Sti(c) \/ PickNone(c) \/ \E p \in Thread : Pick(c, p)

SpinSpec == SpinInit /\ [][SpinNext]_spinvars

----------------------------------------------------------------------------
Point == {"new", "run", "cli", "xchg", "own", "unlock", "proc", "swtch"}

FrameSet == [point : Point, lk : Spin \union {Nil}, eflags : SUBSET Task,
             held : SUBSET Spin, mine : Cpu \union {Nil}]

SpinTypeOK ==
  /\ locked \subseteq Spin /\ owner \in [Spin -> Cpu \union {Nil}]
  /\ ncli \in [Cpu -> Nat] /\ intena \subseteq Cpu /\ fl_if \subseteq Cpu
  /\ running \in [Cpu -> Thread \union {Nil}] /\ turn \in [Cpu -> {"tail", "pick"}]
  /\ point \in [Task -> Point] /\ lk \in [Task -> Spin \union {Nil}]
  /\ eflags \subseteq Task /\ saved \subseteq Task
  /\ held \in [Task -> SUBSET Spin] /\ mine \in [Task -> Cpu \union {Nil}]
  /\ frames \in [Task -> Seq(FrameSet)]

\* Between acquire and release of a lock no other task is: two tasks never both have
\* it, whatever is interrupted, preempted or moved to another CPU (acquire, release).
Exclusive == \A t, u \in Task : t # u => held[t] \intersect held[u] = {}

\* No process loses its CPU, and no handler runs, while it has a lock: what
\* acquire() disables interrupts for.
LockedRuns == \A t \in Task :
  /\ held[t] # {} => \E c \in Cpu : On(c) = t /\ c \notin fl_if
  /\ \A i \in DOMAIN frames[t] : frames[t][i].held = {}

\* Interrupts are off in a process exactly between pushcli and popcli and in a
\* handler, on whichever CPU it goes on: intena is a property of the process.
InterruptsMatch == \A c \in Cpu :
  running[c] # Nil => (c \in fl_if <=> ncli[c] = 0 /\ frames[running[c]] = <<>>)

\* myproc() reads c->proc of the CPU that runs the caller, not of one it ran on before.
MyprocIsCaller == \A t \in Task : point[t] = "proc" => mine[t] \in Cpu /\ On(mine[t]) = t

\* No check of spinlock.c or sched() fails.
NoDeath == death = ""

LocksSound == NoDeath /\ Exclusive /\ LockedRuns /\ InterruptsMatch /\ MyprocIsCaller

----------------------------------------------------------------------------
(* The inductive invariant.                                                *)

\* The points between pushcli and popcli where the lock in hand is not counted in held.
InHand == {"xchg", "own", "unlock", "proc"}

\* pushcli is nested once for each lock of the task and once for the one in hand.
CountOK(c, t) == ncli[c] = Cardinality(held[t]) + (IF point[t] \in InHand THEN 1 ELSE 0)

\* FL_IF now, and intena: FL_IF as it will be when the last lock is released.
ProcessFlags(c, t) ==
  /\ c \in fl_if <=> ncli[c] = 0 /\ frames[t] = <<>>
  /\ point[t] # "swtch" /\ ncli[c] > 0 => (c \in intena <=> frames[t] = <<>>)

SchedulerFlags(c) ==
  /\ c \in fl_if => ncli[c] = 0 /\ frames[c] = <<>>
  /\ frames[c] # <<>> /\ ncli[c] > 0 => c \notin intena
  /\ frames[c] = <<>> /\ turn[c] = "pick" => IF ncli[c] = 0 THEN c \in fl_if ELSE c \in intena

\* Where the task of a CPU may be, and what it then has in its hands.
PointOK(c, t) ==
  /\ point[t] # "new"
  /\ point[t] = "swtch" => t \in Thread /\ held[t] = {PTABLE}
  /\ point[t] \in {"xchg", "own", "unlock"} => lk[t] \in Spin
  /\ point[t] \in {"cli", "xchg", "own", "unlock"} => lk[t] \notin held[t]
  /\ point[t] = "proc" => mine[t] = c
  /\ point[t] = "cli" /\ ncli[c] = 0 => (t \in eflags <=> c \in fl_if)

CpuOK(c) ==
  /\ CountOK(c, On(c)) /\ PointOK(c, On(c))
  /\ IF running[c] = Nil THEN SchedulerFlags(c) ELSE ProcessFlags(c, running[c]) /\ turn[c] = "tail"
  /\ running[c] # Nil => point[c] = "run" /\ frames[c] = <<>> /\ held[c] = {}

\* A process without a CPU is in sched() and has no lock.
Waiting(p) == \A c \in Cpu : running[c] # p
WaitingOK(p) == Waiting(p) => point[p] \in {"new", "swtch"} /\ held[p] = {}

ProcessOK(p) ==
  /\ WaitingOK(p)
  /\ point[p] = "swtch" => (p \in saved <=> frames[p] = <<>>)
  /\ point[p] = "new" => frames[p] = <<>>

\* A handler interrupts code without locks, which at most has read its flags.
FrameOK(t) ==
  frames[t] # <<>> =>
    /\ Len(frames[t]) = 1
    /\ frames[t][1].point \in {"run", "cli"} /\ frames[t][1].held = {}
    /\ frames[t][1].eflags \subseteq {t}
    /\ frames[t][1].point = "cli" => t \in frames[t][1].eflags

\* A lock has one task, which is on the CPU that lk->cpu names.
Has(c, l) == l \in held[On(c)] \/ (point[On(c)] \in {"own", "unlock"} /\ lk[On(c)] = l)
LocksOK ==
  /\ \A c, d \in Cpu, l \in Spin : Has(c, l) /\ Has(d, l) => c = d
  /\ \A c \in Cpu, l \in Spin : /\ Has(c, l) => l \in locked
                                /\ owner[l] = c <=> l \in held[On(c)]

OneCpu == \A c, d \in Cpu : running[c] # Nil /\ running[c] = running[d] => c = d

SpinInv ==
  /\ SpinTypeOK /\ NoDeath /\ OneCpu /\ LocksOK
  /\ \A c \in Cpu : CpuOK(c)
  /\ \A p \in Thread : ProcessOK(p)
  /\ \A t \in Task : FrameOK(t)

=============================================================================

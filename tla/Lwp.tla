--------------------------------- MODULE Lwp ---------------------------------
(***************************************************************************)
(* The light-weight processes of project02: thread_create, thread_exit and *)
(* thread_join, the two-level scheduler that runs the threads of a process *)
(* in turn, sleep and wakeup by thread, exit, exec, wait and the memory    *)
(* limit, on several CPUs.                                                 *)
(*                                                                         *)
(* A process runs on one CPU at a time, so what one thread does between    *)
(* two calls of sched() is one step unless interrupts are on.  The process *)
(* that forks, reaps, kills, wakes or limits a process of the model runs   *)
(* outside it, on a CPU that is not in Cpu.  Pages stand for               *)
(* addresses and the kernel stack for the triple (kstack, tf, context),    *)
(* which is always copied as a whole; pc is also the chan of a sleeping    *)
(* thread.  After a panic, or the loss of something that the kernel runs   *)
(* on, the model stops.                                                    *)
(***************************************************************************)
EXTENDS Integers, FiniteSets

CONSTANTS
  Cpu,         \* the CPUs
  Proc,        \* slots of ptable.proc
  NTHREAD,     \* size of ttable and of thread_pool (10)
  KStack,      \* BOUND: the pages that kalloc has for kernel stacks
  MaxSz,       \* BOUND: the pages that allocuvm can give a process
  Images,      \* sizes of programs in pages, without their stack
  Grows,       \* arguments of sbrk in pages
  Shrinks,     \* the same for negative arguments, none larger than a process
  Limits,      \* values of setmemorylimit in pages, 0 for none
  NULL         \* the null pointer

ASSUME ConstantsOK ==
  /\ NTHREAD \in Nat \ {0}
  /\ KStack \subseteq Nat \ {0} /\ IsFiniteSet(KStack)
  /\ MaxSz \in Nat
  /\ Images \subseteq 1..(MaxSz - 2)
  /\ Grows \subseteq Nat /\ Shrinks \subseteq Nat /\ Limits \subseteq Nat
  /\ NULL \notin Cpu /\ NULL \notin Proc

Thread == 0..(NTHREAD - 1)

VARIABLES
  proc,        \* ptable.proc without the threads
  thr,         \* ttable of each process
  target,      \* join_thread of the thread_join in progress
  at,          \* "sched": in scheduler() with interrupts on; "run": in a thread
  cproc,       \* c->proc
  turn,        \* i and idx of scheduler()
  lock,        \* the CPU that left the kernel with ptable.lock held
  used,        \* pages that are kernel stacks
  broken       \* a panic, or the loss of something the kernel runs on

procVars == <<proc, thr, target>>
cpuVars == <<at, cproc, turn>>
vars == <<procVars, cpuVars, lock, used, broken>>

UnusedProc == [state |-> "UNUSED", cur |-> 0, killed |-> 0, kstack |-> 0,
               pool |-> [i \in Thread |-> 0], sz |-> 0, guard |-> {}, limit |-> 0]
UnusedThread == [state |-> "UNUSED", tid |-> 0, kstack |-> 0, start |-> 0,
                 page |-> 0, pc |-> "user"]

Init ==
  /\ proc = [p \in Proc |-> UnusedProc]
  /\ thr = [p \in Proc |-> [t \in Thread |-> UnusedThread]]
  /\ target = [p \in Proc |-> 0]
  /\ at = [c \in Cpu |-> "sched"]
  /\ cproc = [c \in Cpu |-> NULL]
  /\ turn = [c \in Cpu |-> <<0, 0>>]
  /\ lock = NULL
  /\ used = {}
  /\ broken = 0

----------------------------------------------------------------------------
\* The least element of a set of numbers, as a set: empty for the empty set.
First(S) == {i \in S : \A j \in S : i <= j}

\* The loops that search a ttable for a tid; unused slots have tid 0.
Find(tab, tid) ==
  LET found == First({t \in Thread : tab[t].tid = tid})
  IN IF found = {} THEN NTHREAD ELSE CHOOSE t \in found : TRUE

\* c runs thread t of p, which is in user mode or at l in the kernel.
Runs(c, p, t) ==
  /\ broken = 0 /\ at[c] = "run" /\ cproc[c] = p
  /\ t = Find(thr[p], proc[p].cur)
InUser(p, t) == thr[p][t].pc = "user" /\ proc[p].killed = 0

Break ==
  /\ broken' = 1
  /\ UNCHANGED <<procVars, cpuVars, lock, used>>

----------------------------------------------------------------------------
\* The slots of tab that the loop over idx finds RUNNABLE, as values of idx.
Turns(tab, i, idx) ==
  {k \in (idx + 1)..NTHREAD : tab[(i + k) % NTHREAD].state = "RUNNABLE"}

\* (mutant) the kernel stack is not copied.
MutCopyThread(pr, td) == [pr EXCEPT !.state = "RUNNING", !.cur = td.tid]

CopyThread(pr, td) ==
  [pr EXCEPT !.state = "RUNNING", !.cur = td.tid, !.kstack = td.kstack]

\* copy_thread and swtch to the thread in turn k, with pr and tab in p.
SwitchTo(c, p, pr, tab, i, k) ==
  LET t == (i + k) % NTHREAD
  IN /\ proc' = [proc EXCEPT ![p] = CopyThread(pr, tab[t])]
     /\ at' = [at EXCEPT ![c] = "run"]
     /\ cproc' = [cproc EXCEPT ![c] = p]
     /\ turn' = [turn EXCEPT ![c] = <<i, k>>]

\* scheduler() comes to slot p.
Dispatch(c, p) ==
  LET i == Find(thr[p], proc[p].cur)
  IN /\ broken = 0 /\ at[c] = "sched" /\ lock = NULL
     /\ proc[p].state = "RUNNABLE"
     /\ \E k \in First(Turns(thr[p], i, 0)) : SwitchTo(c, p, proc[p], thr[p], i, k)
     /\ UNCHANGED <<thr, target, lock, used, broken>>

\* sched() by the thread that runs on c, which has made the process pr and the
\* threads tab; ptable.lock is held until the scheduler has found the next
\* thread of p, or has none and goes on.
CopyProcess(pr, tab) == [tab EXCEPT ![pr.cur].kstack = pr.kstack]

\* (mutant) the same thread is tried first again.
MutAfter(c) == 0

After(c) == turn[c][2]

Sched(c, p, pr, tab) ==
  LET i == turn[c][1]
      back == CopyProcess(pr, tab)
      next == Turns(back, i, After(c))
  IN /\ lock = NULL
     /\ thr' = [thr EXCEPT ![p] = back]
     /\ \/ \E k \in First(next) : SwitchTo(c, p, pr, back, i, k)
        \/ /\ next = {}
           /\ proc' = [proc EXCEPT ![p] = pr]
           /\ at' = [at EXCEPT ![c] = "sched"]
           /\ cproc' = [cproc EXCEPT ![c] = NULL]
           /\ turn' = [turn EXCEPT ![c] = <<0, 0>>]
     /\ UNCHANGED <<lock, broken>>

Descheduled(p) == [proc[p] EXCEPT !.state = "RUNNABLE"]

\* Timer interrupt: yield().
Timer(c, p, t) ==
  /\ Runs(c, p, t) /\ proc[p].state = "RUNNING"
  /\ InUser(p, t) \/ thr[p][t].pc = "event"
  /\ Sched(c, p, Descheduled(p), thr[p])
  /\ UNCHANGED <<target, used>>

\* The timer interrupts scheduler() while c->proc still points to a process
\* that runs elsewhere: yield() switches to a context that is no more.
StaleYield(c) ==
  /\ broken = 0 /\ at[c] = "sched" /\ lock = NULL
  /\ cproc[c] # NULL /\ proc[cproc[c]].state = "RUNNING"
  /\ Break

\* The next timer interrupt, or a call that takes ptable.lock, when the CPU
\* still holds it: acquire() panics.
LeakPanic(c, p, t) == Runs(c, p, t) /\ lock = c /\ Break

----------------------------------------------------------------------------
\* thread_create, by the main thread.
Slot(p) == First({t \in Thread : thr[p][t].state = "UNUSED"})
Recycled(p) == First({i \in Thread : proc[p].pool[i] # 0})
Kalloc == First(KStack \ used)

\* allocuvm has pages for p to grow to n, and setmemorylimit allows it.
MayGrow(p, n) == n <= MaxSz /\ (proc[p].limit = 0 \/ n <= proc[p].limit)

\* copyout reaches a page that is mapped for the user.
Mapped(p, page) == page < proc[p].sz /\ page \notin proc[p].guard

Creates(c, p, t) == Runs(c, p, t) /\ InUser(p, t) /\ t = 0

NewThread(p, s, k, start, page) ==
  [thr[p][s] EXCEPT !.state = "RUNNABLE", !.tid = s, !.kstack = k,
                    !.start = start, !.page = page, !.pc = "user"]

CreateFresh(c, p, t) ==
  LET sz == proc[p].sz
  IN /\ Creates(c, p, t) /\ Recycled(p) = {} /\ MayGrow(p, sz + 2)
     /\ \E s \in Slot(p) \ {0}, k \in Kalloc :
          /\ thr' = [thr EXCEPT ![p][s] = NewThread(p, s, k, sz, sz + 1)]
          /\ used' = used \union {k}
     /\ proc' = [proc EXCEPT ![p].sz = sz + 2, ![p].guard = @ \union {sz}]
     /\ UNCHANGED <<target, cpuVars, lock, broken>>

\* The start of a user stack becomes the top of another one.
CreateRecycled(c, p, t) ==
  /\ Creates(c, p, t)
  /\ \E s \in Slot(p) \ {0}, k \in Kalloc, i \in Recycled(p) :
       LET start == proc[p].pool[i]
       IN /\ Mapped(p, start - 1)
          /\ thr' = [thr EXCEPT ![p][s] = NewThread(p, s, k, start, start - 1)]
          /\ used' = used \union {k}
          /\ proc' = [proc EXCEPT ![p].pool[i] = 0]
  /\ UNCHANGED <<target, cpuVars, lock, broken>>

\* copyout fails: panic("dead").
CreateDead(c, p, t) ==
  /\ Creates(c, p, t) /\ Slot(p) \ {0} # {} /\ Kalloc # {}
  /\ \E i \in Recycled(p) : ~Mapped(p, proc[p].pool[i] - 1)
  /\ Break

\* No memory or the limit is met: the page table of the process is freed while
\* the CPU runs on it.
CreateBad(c, p, t) ==
  /\ Creates(c, p, t) /\ Slot(p) \ {0} # {} /\ Kalloc # {}
  /\ Recycled(p) = {} /\ ~MayGrow(p, proc[p].sz + 2)
  /\ Break

\* kalloc has no page, as others may hold them all: thread_create returns with
\* interrupts pushed off and the process marked UNUSED, so that fork may take
\* the slot, and the next sched() panics.
CreateNoMem(c, p, t) ==
  /\ Creates(c, p, t) /\ Slot(p) \ {0} # {}
  /\ Break

\* (mutant) the main thread is not woken.
MutThreadWakeup(tab) == tab

\* thread_exit makes the main thread RUNNABLE, whatever it sleeps on.
ThreadWakeup(tab) == [tab EXCEPT ![0].state = "RUNNABLE"]

ThreadExit(c, p, t) ==
  /\ Runs(c, p, t) /\ InUser(p, t) /\ t # 0
  /\ Sched(c, p, Descheduled(p), [ThreadWakeup(thr[p]) EXCEPT ![t].state = "ZOMBIE"])
  /\ UNCHANGED <<target, used>>

\* The main thread gets the exception and returns without release().
MainExit(c, p, t) ==
  /\ Runs(c, p, t) /\ InUser(p, t) /\ t = 0 /\ lock = NULL
  /\ lock' = c
  /\ UNCHANGED <<procVars, cpuVars, used, broken>>

\* thread_join, by the main thread, of the thread found at j.
Joinable(p, j) == j \in Thread /\ thr[p][j].state = "ZOMBIE"

\* Every empty entry of thread_pool gets the stack.
Recycle(p, j) ==
  [i \in Thread |-> IF proc[p].pool[i] = 0 THEN thr[p][j].start ELSE proc[p].pool[i]]

\* (mutant) the kernel stack stays allocated.
MutFreeStack(p, j) == used

FreeStack(p, j) == used \ {thr[p][j].kstack}

JoinReap(c, p, t, j) ==
  /\ lock = NULL /\ Joinable(p, j)
  /\ thr' = [thr EXCEPT
       ![p][j] = [@ EXCEPT !.state = "UNUSED", !.tid = 0, !.kstack = 0,
                           !.start = 0, !.page = 0],
       ![p][t].pc = "user"]
  /\ proc' = [proc EXCEPT ![p].pool = Recycle(p, j)]
  /\ target' = [target EXCEPT ![p] = 0]
  /\ used' = FreeStack(p, j)
  /\ UNCHANGED <<cpuVars, lock, broken>>

Asleep(p, t, chan) ==
  [thr[p] EXCEPT ![t] = [@ EXCEPT !.state = "SLEEPING", !.pc = chan]]

JoinSleep(c, p, t, j) ==
  /\ ~Joinable(p, j)
  /\ target' = [target EXCEPT ![p] = j]
  /\ Sched(c, p, Descheduled(p), Asleep(p, t, "join"))
  /\ UNCHANGED used

Join(c, p, t) ==
  /\ Runs(c, p, t) /\ proc[p].cur = 0
  /\ \/ /\ InUser(p, t)
        /\ \E tid \in Thread : LET j == Find(thr[p], tid)
                               IN JoinReap(c, p, t, j) \/ JoinSleep(c, p, t, j)
     \/ /\ thr[p][t].pc = "join"
        /\ JoinReap(c, p, t, target[p]) \/ JoinSleep(c, p, t, target[p])

----------------------------------------------------------------------------
\* Any other blocking system call: a loop around sleep() until an event.
EventSleep(c, p, t) ==
  /\ Runs(c, p, t)
  /\ InUser(p, t) \/ thr[p][t].pc = "event"
  /\ Sched(c, p, Descheduled(p), Asleep(p, t, "event"))
  /\ UNCHANGED <<target, used>>

EventReturn(c, p, t) ==
  /\ Runs(c, p, t) /\ thr[p][t].pc = "event"
  /\ thr' = [thr EXCEPT ![p][t].pc = "user"]
  /\ UNCHANGED <<proc, target, cpuVars, lock, used, broken>>

Woken(tab, chans) ==
  [t \in Thread |-> IF tab[t].state = "SLEEPING" /\ tab[t].pc \in chans
                    THEN [tab[t] EXCEPT !.state = "RUNNABLE"] ELSE tab[t]]

\* growproc; the error returns keep ptable.lock.  To shrink to nothing is an
\* error too, for deallocuvm then returns 0.
Sbrk(c, p, t) ==
  /\ Runs(c, p, t) /\ InUser(p, t) /\ lock = NULL
  /\ \E n \in Grows \union {-s : s \in Shrinks} :
       LET sz == proc[p].sz + n
       IN \/ /\ MayGrow(p, sz) /\ sz > 0
             /\ proc' = [proc EXCEPT ![p].sz = sz, ![p].guard = @ \ {g \in @ : g >= sz}]
             /\ UNCHANGED lock
          \/ /\ ~MayGrow(p, sz) \/ sz = 0
             /\ lock' = c
             /\ UNCHANGED proc
  /\ UNCHANGED <<thr, target, cpuVars, used, broken>>

\* The loops that free every thread in use.
Cleared(p) ==
  [t \in Thread |-> IF thr[p][t].state = "UNUSED" THEN thr[p][t]
                    ELSE UnusedThread]

MoveCaller(p, t) == thr[p][t].kstack

\* exec, and exec2 with a stack of one page: only the caller is left, as the
\* main thread of a new image.  thread_pool keeps the stacks of the old one.
Exec(c, p, t) ==
  /\ Runs(c, p, t) /\ InUser(p, t) /\ lock = NULL
  /\ \E n \in Images :
       /\ proc[p].limit = 0 \/ n + 2 <= proc[p].limit
       /\ thr' = [thr EXCEPT ![p] = [Cleared(p) EXCEPT
            ![0] = [thr[p][0] EXCEPT !.state = "RUNNABLE",
                      !.kstack = MoveCaller(p, t), !.page = n + 1, !.pc = "user"]]]
       /\ proc' = [proc EXCEPT ![p].cur = 0, ![p].sz = n + 2, ![p].guard = {n}]
  /\ used' = used \ {thr[p][s].kstack : s \in Thread \ {t}}
  /\ target' = [target EXCEPT ![p] = 0]
  /\ UNCHANGED <<cpuVars, lock, broken>>

\* exit by any thread, or by a killed thread on its way to user mode.  The
\* scheduler leaves its loop before it clears c->proc.
Exit(c, p, t) ==
  /\ Runs(c, p, t) /\ thr[p][t].pc = "user" /\ lock = NULL
  /\ proc' = [proc EXCEPT ![p].state = "ZOMBIE"]
  /\ at' = [at EXCEPT ![c] = "sched"]
  /\ turn' = [turn EXCEPT ![c] = <<0, 0>>]
  /\ UNCHANGED <<thr, target, cproc, lock, used, broken>>

----------------------------------------------------------------------------
\* A process outside the model, on a CPU outside Cpu, or an interrupt.
Outside == broken = 0 /\ lock = NULL

\* allocproc, then the rest of fork.
Alloc(p) ==
  /\ Outside /\ proc[p].state = "UNUSED"
  /\ \E k \in Kalloc :
       /\ thr' = [thr EXCEPT ![p][0] = [@ EXCEPT !.state = "EMBRYO", !.tid = 0, !.kstack = k]]
       /\ used' = used \union {k}
  /\ proc' = [proc EXCEPT ![p] = [@ EXCEPT !.state = "EMBRYO", !.cur = 0, !.limit = 0]]
  /\ UNCHANGED <<target, cpuVars, lock, broken>>

ForkStart(p) ==
  /\ Outside /\ proc[p].state = "EMBRYO"
  /\ \E n \in Images, l \in Limits :
       /\ proc' = [proc EXCEPT ![p] = [@ EXCEPT
                       !.state = "RUNNABLE", !.sz = n + 2, !.guard = {n}, !.limit = l]]
       /\ thr' = [thr EXCEPT ![p][0] = [@ EXCEPT !.state = "RUNNABLE", !.page = n + 1, !.pc = "user"]]
  /\ UNCHANGED <<target, cpuVars, lock, used, broken>>

\* copyuvm fails: kfree(np->kstack) panics, for np has only main_thread->kstack.
ForkFail(p) ==
  /\ Outside /\ proc[p].state = "EMBRYO" /\ proc[p].kstack = 0
  /\ Break

\* wait frees the threads, and all of thread_pool but its last entry.
Reap(p) ==
  /\ Outside /\ proc[p].state = "ZOMBIE"
  /\ thr' = [thr EXCEPT ![p] = Cleared(p)]
  /\ used' = used \ {thr[p][t].kstack : t \in Thread}
  /\ proc' = [proc EXCEPT ![p] = [@ EXCEPT !.state = "UNUSED", !.kstack = 0, !.killed = 0,
       !.pool = [i \in Thread |-> IF i < NTHREAD - 1 THEN 0 ELSE proc[p].pool[i]]]]
  /\ target' = [target EXCEPT ![p] = 0]
  /\ UNCHANGED <<cpuVars, lock, broken>>

Wakeup ==
  /\ Outside
  /\ thr' = [p \in Proc |-> Woken(thr[p], {"event"})]
  /\ UNCHANGED <<proc, target, cpuVars, lock, used, broken>>

Kill(p) ==
  /\ Outside /\ proc[p].state # "UNUSED"
  /\ proc' = [proc EXCEPT ![p].killed = 1]
  /\ thr' = [thr EXCEPT ![p] = Woken(@, {"event", "join"})]
  /\ UNCHANGED <<target, cpuVars, lock, used, broken>>

\* The limit is written after ptable.lock is released, whoever has the slot by
\* then.  The check that the process is not larger already compares pages with
\* bytes and refuses nothing.
SetMemoryLimit(p) ==
  /\ Outside
  /\ \E l \in Limits : proc' = [proc EXCEPT ![p].limit = l]
  /\ UNCHANGED <<thr, target, cpuVars, lock, used, broken>>

----------------------------------------------------------------------------
Create(c, p, t) ==
  \/ CreateFresh(c, p, t) \/ CreateRecycled(c, p, t)
  \/ CreateDead(c, p, t) \/ CreateBad(c, p, t) \/ CreateNoMem(c, p, t)

Step(c, p, t) ==
  \/ Create(c, p, t) \/ ThreadExit(c, p, t) \/ MainExit(c, p, t) \/ Join(c, p, t)
  \/ EventSleep(c, p, t) \/ EventReturn(c, p, t) \/ Sbrk(c, p, t)
  \/ Exec(c, p, t) \/ Exit(c, p, t) \/ Timer(c, p, t) \/ LeakPanic(c, p, t)

Next ==
  \/ \E c \in Cpu, p \in Proc, t \in Thread : Step(c, p, t)
  \/ \E c \in Cpu, p \in Proc : Dispatch(c, p)
  \/ \E c \in Cpu : StaleYield(c)
  \/ \E p \in Proc : Alloc(p) \/ ForkStart(p) \/ ForkFail(p) \/ Reap(p) \/ Kill(p)
                     \/ SetMemoryLimit(p)
  \/ Wakeup

Spec == Init /\ [][Next]_vars

\* What a CPU in a thread does on its own: its timer keeps interrupting it, an
\* interrupt raised while interrupts are off stays pending, and a thread in the
\* kernel goes on.  The scheduler visits all slots in every round.  No system
\* call is forced, and nothing outside.
Goes(c, p, t) ==
  \/ Timer(c, p, t) \/ LeakPanic(c, p, t)
  \/ proc[p].killed = 1 /\ Exit(c, p, t)
  \/ thr[p][t].pc # "user" /\ (Join(c, p, t) \/ EventSleep(c, p, t) \/ EventReturn(c, p, t))

Fairness ==
  /\ \A c \in Cpu : SF_vars(\E p \in Proc, t \in Thread : Goes(c, p, t))
  /\ \A p \in Proc : SF_vars(\E c \in Cpu : Dispatch(c, p))

FairSpec == Spec /\ Fairness

----------------------------------------------------------------------------
(* Properties.                                                             *)

ProcType ==
  [state : {"UNUSED", "EMBRYO", "RUNNABLE", "RUNNING", "ZOMBIE"}, cur : Thread,
   killed : {0, 1}, kstack : KStack \union {0}, pool : [Thread -> 0..MaxSz],
   sz : 0..MaxSz, guard : SUBSET (0..MaxSz), limit : Limits \union {0}]
ThreadType ==
  [state : {"UNUSED", "EMBRYO", "RUNNABLE", "SLEEPING", "ZOMBIE"}, tid : Thread,
   kstack : KStack \union {0}, start : 0..MaxSz, page : 0..MaxSz,
   pc : {"user", "event", "join"}]

TypeOK ==
  /\ proc \in [Proc -> ProcType]
  /\ thr \in [Proc -> [Thread -> ThreadType]]
  /\ target \in [Proc -> 0..NTHREAD]
  /\ at \in [Cpu -> {"sched", "run"}]
  /\ cproc \in [Cpu -> Proc \union {NULL}]
  /\ turn \in [Cpu -> (0..NTHREAD) \X (0..NTHREAD)]
  /\ lock \in Cpu \union {NULL}
  /\ used \subseteq KStack
  /\ broken \in {0, 1}

InUse(p) == {t \in Thread : thr[p][t].state # "UNUSED"}
OnCpu(c, p, t) == at[c] = "run" /\ cproc[c] = p /\ proc[p].cur = t
Alive(p) == proc[p].state \in {"RUNNABLE", "RUNNING"}

\* A process runs on one CPU, in a thread that the scheduler chose and that is
\* still RUNNABLE, on the kernel stack of that thread.
RunningThread ==
  /\ \A p \in Proc : proc[p].state = "RUNNING" <=> \E c \in Cpu : at[c] = "run" /\ cproc[c] = p
  /\ \A c, d \in Cpu : at[c] = "run" /\ at[d] = "run" /\ cproc[c] = cproc[d] => c = d
  /\ \A c \in Cpu, p \in Proc, t \in Thread :
       OnCpu(c, p, t) => /\ thr[p][t].state = "RUNNABLE"
                         /\ thr[p][t].tid = t /\ thr[p][t].kstack = proc[p].kstack

\* tid and slot agree, so that all searches find the right thread.
TidIsSlot ==
  \A p \in Proc, t \in Thread : thr[p][t].tid = IF t \in InUse(p) THEN t ELSE 0

\* Creation, join, exec and wait neither leak a kernel stack nor free one that
\* is in use, and no two threads share one.
KernelStacksOwned ==
  /\ used = UNION {{thr[p][t].kstack : t \in InUse(p)} : p \in Proc}
  /\ \A p, q \in Proc : \A t \in InUse(p), u \in InUse(q) :
       thr[p][t].kstack = thr[q][u].kstack => p = q /\ t = u

\* The main thread never sleeps in thread_join for a thread that has finished,
\* nor for one that was taken away: exit and join pass the baton under
\* ptable.lock.  (A tid that no thread has finds the slot behind the table.)
NoLostThreadWakeup ==
  \A p \in Proc :
    thr[p][0].state = "SLEEPING" /\ thr[p][0].pc = "join" =>
      target[p] = NTHREAD \/ thr[p][target[p]].state \in {"RUNNABLE", "SLEEPING"}

\* A RUNNABLE thread gets its turn: no thread of a process starves another.
\* With NoLostThreadWakeup, a thread_join whose thread exits returns.
ThreadProgress ==
  \A p \in Proc, t \in Thread :
    (Alive(p) /\ thr[p][t].state = "RUNNABLE")
      ~> \/ \E c \in Cpu : OnCpu(c, p, t)
         \/ thr[p][t].state # "RUNNABLE" \/ ~Alive(p) \/ broken = 1

\* The threads of process p that work on their user stacks.
Working(p) == {t \in InUse(p) : thr[p][t].state # "ZOMBIE"}

\* Two threads of a process never work on the same user stack: thread_create
\* takes an "empty user stack" from thread_pool (thread.c:116), yet the address
\* it finds there, which thread_join took for the stack, is the stack's bottom.
StacksDisjoint ==
  \A p \in Proc : \A t, u \in Working(p) : thr[p][t].page = thr[p][u].page => t = u

\* How the states of a process and of its threads go together: only the main
\* thread is made by fork and joins others, and it outlives them.
SlotsAgree(pr, tab, tg) ==
  /\ \A t \in Thread : tab[t].state = "UNUSED" => tab[t].kstack = 0
  /\ \A t \in Thread \ {0} : tab[t].state # "EMBRYO" /\ tab[t].pc # "join"
  /\ pr.state = "UNUSED" => \A t \in Thread : tab[t].state = "UNUSED"
  /\ pr.state = "EMBRYO" => tab[0].state = "EMBRYO"
  /\ pr.state \in {"RUNNABLE", "RUNNING", "ZOMBIE"} =>
       /\ tab[0].state \in {"RUNNABLE", "SLEEPING"}
       /\ tab[0].pc = "join" =>
            tg = NTHREAD \/ tab[tg].state \in {"RUNNABLE", "SLEEPING", "ZOMBIE"}

\* The inductive invariant of LwpProofs: the table, the fields that copy_thread
\* copies out of it and the CPUs agree.
Inv ==
  /\ TypeOK /\ RunningThread /\ TidIsSlot /\ KernelStacksOwned /\ NoLostThreadWakeup
  /\ \A p \in Proc : SlotsAgree(proc[p], thr[p], target[p])

=============================================================================

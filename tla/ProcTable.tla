----------------------------- MODULE ProcTable -----------------------------
(***************************************************************************)
(* The life of processes in the process table: allocproc, fork, exit,      *)
(* wait, kill, sleep and wakeup of project01/xv6-public/proc.c, with the   *)
(* killed checks of trap.c.                                                *)
(*                                                                         *)
(* Everything between acquire and release of ptable.lock is one step.      *)
(* Which of the RUNNABLE processes a CPU runs is not modelled here: state  *)
(* "RUNNABLE" stands for RUNNABLE and RUNNING, and any such process may    *)
(* take its next step, as on any number of CPUs.                           *)
(*                                                                         *)
(* sleep() is modelled with its two users: wait(), which passes ptable.lock*)
(* itself, and a loop of the form                                          *)
(*   while(nothing available){ if(killed) return; sleep(chan, lk); }       *)
(* as in piperead, consoleread and sys_sleep, where lk is another lock.    *)
(***************************************************************************)
EXTENDS Naturals

CONSTANTS
  NPROC,         \* size of ptable.proc
  MaxPid,        \* BOUND: no fork after this pid
  KillPids,      \* arguments that kill() is called with
  Sleepers,      \* slots whose program waits for the event
  MaxFails,      \* BOUND: number of forks that run out of memory
  NULL           \* the null pointer

Proc == 1..NPROC
InitProc == 1
Event == NPROC + 1     \* the channel of the event, no process slot

ASSUME ConstantsOK ==
  /\ NPROC \in Nat \ {0} /\ MaxPid \in Nat \ {0} /\ MaxFails \in Nat
  /\ KillPids \subseteq Nat
  /\ Sleepers \subseteq Proc \ {InitProc}
  /\ NULL \notin Proc \union {Event}

VARIABLES
  state, pid, parent, killed, chan,   \* fields of struct proc
  nextpid,       \* the next pid to give out
  pc,            \* where the process of a slot is
  child,         \* np of a slot inside fork
  lk,            \* the process that holds the lock of the event, or NULL
  avail,         \* the event has happened and was not consumed
  fails          \* forks that failed so far

procVars == <<state, pid, parent, killed, chan>>
eventVars == <<lk, avail>>
vars == <<procVars, nextpid, pc, child, eventVars, fails>>

States == {"UNUSED", "EMBRYO", "SLEEPING", "RUNNABLE", "ZOMBIE"}

Init ==
  /\ state = [p \in Proc |-> IF p = InitProc THEN "RUNNABLE" ELSE "UNUSED"]
  /\ pid = [p \in Proc |-> IF p = InitProc THEN 1 ELSE 0]
  /\ parent = [p \in Proc |-> NULL]
  /\ killed = [p \in Proc |-> 0]
  /\ chan = [p \in Proc |-> NULL]
  /\ nextpid = 2
  /\ pc = [p \in Proc |-> "user"]
  /\ child = [p \in Proc |-> NULL]
  /\ lk = NULL
  /\ avail = 0
  /\ fails = 0

----------------------------------------------------------------------------
At(p, l) == state[p] = "RUNNABLE" /\ pc[p] = l
Goto(p, l) == pc' = [pc EXCEPT ![p] = l]

\* A system call is entered by a process that is not killed; trap() sends a
\* killed one to exit() instead.
InUser(p) == At(p, "user") /\ killed[p] = 0

\* The lowest slot of a set, if there is one: what a scan of the table finds.
First(S) == {p \in S : \A q \in S : p <= q}

\* (mutant) a slot that is still being made is taken for free.
MutUnused == {p \in Proc : state[p] \in {"UNUSED", "EMBRYO"}}

Unused == {p \in Proc : state[p] = "UNUSED"}

\* (mutant) a pid is given out twice.
MutTakePid == UNCHANGED nextpid

TakePid == nextpid' = nextpid + 1

\* fork, first part: allocproc takes the first free slot.  The fields killed
\* and parent of the slot are left as they are.
AllocProc(p) ==
  /\ InUser(p)
  /\ nextpid <= MaxPid
  /\ \E np \in First(Unused) :
       /\ state' = [state EXCEPT ![np] = "EMBRYO"]
       /\ pid' = [pid EXCEPT ![np] = nextpid]
       /\ child' = [child EXCEPT ![p] = np]
  /\ TakePid
  /\ Goto(p, "fork")
  /\ UNCHANGED <<parent, killed, chan, eventVars, fails>>

\* No memory for the kernel stack or the page table: the slot is given back
\* and keeps its pid.
ForkFail(p) ==
  /\ At(p, "fork") /\ fails < MaxFails
  /\ state' = [state EXCEPT ![child[p]] = "UNUSED"]
  /\ child' = [child EXCEPT ![p] = NULL]
  /\ fails' = fails + 1
  /\ Goto(p, "user")
  /\ UNCHANGED <<pid, parent, killed, chan, nextpid, eventVars>>

\* The page table is copied; the rest of fork cannot fail.
ForkParent(p) ==
  /\ At(p, "fork")
  /\ parent' = [parent EXCEPT ![child[p]] = p]
  /\ Goto(p, "forked")
  /\ UNCHANGED <<state, pid, killed, chan, nextpid, child, eventVars, fails>>

ForkStart(p) ==
  /\ At(p, "forked")
  /\ state' = [state EXCEPT ![child[p]] = "RUNNABLE"]
  /\ pc' = [pc EXCEPT ![p] = "user", ![child[p]] = "user"]
  /\ child' = [child EXCEPT ![p] = NULL]
  /\ UNCHANGED <<pid, parent, killed, chan, nextpid, eventVars, fails>>

----------------------------------------------------------------------------
Children(p) == {q \in Proc : parent[q] = p}

\* (mutant) init is not told of the zombies it inherits.
MutWokenByExit(p) == {parent[p]}

\* The channels exit() calls wakeup1 on.
WokenByExit(p) ==
  {parent[p]} \union
  {c \in {InitProc} : \E q \in Children(p) : state[q] = "ZOMBIE"}

\* (mutant) the children of an exiting process are not passed to init.
MutPassChildren(p) == UNCHANGED parent

PassChildren(p) ==
  parent' = [q \in Proc |-> IF parent[q] = p THEN InitProc ELSE parent[q]]

\* exit(), by the system call or because the process was killed.
Exit(p) ==
  /\ p # InitProc
  /\ At(p, "user")
  /\ PassChildren(p)
  /\ state' = [q \in Proc |->
                 IF q = p THEN "ZOMBIE"
                 ELSE IF state[q] = "SLEEPING" /\ chan[q] \in WokenByExit(p)
                 THEN "RUNNABLE" ELSE state[q]]
  /\ UNCHANGED <<pid, killed, chan, nextpid, pc, child, eventVars, fails>>

\* wait(), from its entry or from its sleep, with ptable.lock held: the first
\* zombie child is reaped.
Waiting(p) == InUser(p) \/ At(p, "wait")
ZombieChildren(p) == {q \in Children(p) : state[q] = "ZOMBIE"}

WaitReap(p) ==
  /\ Waiting(p)
  /\ \E q \in First(ZombieChildren(p)) :
       /\ state' = [state EXCEPT ![q] = "UNUSED"]
       /\ pid' = [pid EXCEPT ![q] = 0]
       /\ parent' = [parent EXCEPT ![q] = NULL]
       /\ killed' = [killed EXCEPT ![q] = 0]
  /\ chan' = [chan EXCEPT ![p] = NULL]
  /\ Goto(p, "user")
  /\ UNCHANGED <<nextpid, child, eventVars, fails>>

WaitNone(p) ==
  /\ Waiting(p)
  /\ ZombieChildren(p) = {}
  /\ Children(p) = {} \/ killed[p] = 1
  /\ chan' = [chan EXCEPT ![p] = NULL]
  /\ Goto(p, "user")
  /\ UNCHANGED <<state, pid, parent, killed, nextpid, child, eventVars, fails>>

WaitSleep(p) ==
  /\ Waiting(p)
  /\ ZombieChildren(p) = {} /\ Children(p) # {} /\ killed[p] = 0
  /\ state' = [state EXCEPT ![p] = "SLEEPING"]
  /\ chan' = [chan EXCEPT ![p] = p]
  /\ Goto(p, "wait")
  /\ UNCHANGED <<pid, parent, killed, nextpid, child, eventVars, fails>>

----------------------------------------------------------------------------
\* (mutant) the condition's lock is given up before ptable.lock is taken.
MutKeepLk(p) == UNCHANGED lk

\* From the test of the condition to sleep() the lock stays with p.
KeepLk(p) == lk' = p

Looping(p) == p \in Sleepers /\ (InUser(p) \/ At(p, "loop"))

\* The loop condition and the killed test, made with lk held.
LoopLeave(p) ==
  /\ Looping(p) /\ lk = NULL
  /\ avail = 1 \/ killed[p] = 1
  /\ avail' = 0
  /\ chan' = [chan EXCEPT ![p] = NULL]
  /\ Goto(p, "user")
  /\ UNCHANGED <<state, pid, parent, killed, nextpid, child, lk, fails>>

LoopStay(p) ==
  /\ Looping(p) /\ lk = NULL
  /\ avail = 0 /\ killed[p] = 0
  /\ KeepLk(p)
  /\ chan' = [chan EXCEPT ![p] = NULL]
  /\ Goto(p, "sleep")
  /\ UNCHANGED <<state, pid, parent, killed, nextpid, child, avail, fails>>

\* sleep(chan, lk): ptable.lock is taken, lk released, the process sleeps.
SleepEnter(p) ==
  /\ At(p, "sleep")
  /\ lk' = NULL
  /\ chan' = [chan EXCEPT ![p] = Event]
  /\ state' = [state EXCEPT ![p] = "SLEEPING"]
  /\ Goto(p, "loop")
  /\ UNCHANGED <<pid, parent, killed, nextpid, child, avail, fails>>

\* The event, signalled with wakeup(chan) by a holder of lk.
Signal ==
  /\ lk = NULL
  /\ avail' = 1
  /\ state' = [q \in Proc |->
                 IF state[q] = "SLEEPING" /\ chan[q] = Event
                 THEN "RUNNABLE" ELSE state[q]]
  /\ UNCHANGED <<pid, parent, killed, chan, nextpid, pc, child, lk, fails>>

\* kill(n) finds the first slot with that pid, whatever its state.
Kill(p, n) ==
  /\ InUser(p)
  /\ \E q \in First({r \in Proc : pid[r] = n}) :
       /\ killed' = [killed EXCEPT ![q] = 1]
       /\ state' = [state EXCEPT ![q] = IF @ = "SLEEPING" THEN "RUNNABLE" ELSE @]
  /\ UNCHANGED <<pid, parent, chan, nextpid, pc, child, eventVars, fails>>

\* A fault in user space: trap() sets killed without the lock.
Fault(p) ==
  /\ InUser(p) /\ p # InitProc
  /\ killed' = [killed EXCEPT ![p] = 1]
  /\ UNCHANGED <<state, pid, parent, chan, nextpid, pc, child, eventVars, fails>>

----------------------------------------------------------------------------
Wait(p) == WaitReap(p) \/ WaitNone(p) \/ WaitSleep(p)

Step(p) ==
  \/ AllocProc(p) \/ ForkFail(p) \/ ForkParent(p) \/ ForkStart(p)
  \/ Exit(p) \/ Wait(p)
  \/ LoopLeave(p) \/ LoopStay(p) \/ SleepEnter(p)
  \/ Fault(p) \/ \E n \in KillPids : Kill(p, n)

Next == Signal \/ \E p \in Proc : Step(p)

Spec == Init /\ [][Next]_vars

\* What a process has begun in the kernel it finishes, a killed process exits,
\* and init calls wait for ever (init.c); nobody is obliged to enter any other
\* system call, and the event need not happen.
KernelWork(p) ==
  \/ ForkParent(p) \/ ForkStart(p) \/ SleepEnter(p)
  \/ pc[p] # "user" /\ (Wait(p) \/ LoopLeave(p) \/ LoopStay(p))
  \/ killed[p] = 1 /\ Exit(p)

Fairness == WF_vars(Wait(InitProc)) /\ \A p \in Proc : WF_vars(KernelWork(p))

FairSpec == Spec /\ Fairness

----------------------------------------------------------------------------
(* Properties.                                                             *)

TypeOK ==
  /\ state \in [Proc -> States]
  /\ pid \in [Proc -> Nat]
  /\ parent \in [Proc -> Proc \union {NULL}]
  /\ killed \in [Proc -> {0, 1}]
  /\ chan \in [Proc -> Proc \union {Event, NULL}]
  /\ nextpid \in Nat
  /\ pc \in [Proc -> {"user", "fork", "forked", "wait", "sleep", "loop"}]
  /\ child \in [Proc -> Proc \union {NULL}]
  /\ lk \in Proc \union {NULL}
  /\ avail \in {0, 1}
  /\ fails \in Nat

\* What a failed fork, a kill of a half-made process or an exit in between must
\* not upset: a fork owns its slot, which becomes somebody's child only when
\* nothing can fail any more.
ForkOwnsSlot ==
  /\ \A p \in Proc :
       /\ pc[p] \in {"fork", "forked"} =>
            /\ state[p] = "RUNNABLE"
            /\ child[p] \in Proc /\ state[child[p]] = "EMBRYO"
            /\ pc[p] = "fork" => parent[child[p]] = NULL
            /\ pc[p] = "forked" => parent[child[p]] = p
       /\ state[p] = "UNUSED" => parent[p] = NULL
  /\ \A p, q \in Proc :
       /\ pc[p] \in {"fork", "forked"} /\ pc[q] \in {"fork", "forked"}
       /\ child[p] = child[q]
       => p = q

\* A process on its way into sleep() holds the lock of the event, which has
\* not happened.
SleeperHoldsLock ==
  \A p \in Proc : pc[p] = "sleep" => lk = p /\ avail = 0

Live(p) == state[p] \in {"RUNNABLE", "SLEEPING", "ZOMBIE"}

\* Every process but init has a parent that still runs, so that somebody can
\* reap it: exit() passes children on before the parent can vanish.
ParentLive ==
  \A p \in Proc \ {InitProc} :
    Live(p) => /\ parent[p] \in Proc \ {p}
               /\ state[parent[p]] \in {"RUNNABLE", "SLEEPING"}

\* No two processes have the same pid, though failed forks give slots back.
PidUnique ==
  \A p, q \in Proc :
    state[p] # "UNUSED" /\ state[q] # "UNUSED" /\ pid[p] = pid[q] => p = q

\* No wakeup is lost by wait(): whoever sleeps there has a child and none of
\* its children is a zombie, though exits and adoptions happen meanwhile.
NoLostChildWakeup ==
  \A p \in Proc :
    state[p] = "SLEEPING" /\ chan[p] = p =>
      /\ \E q \in Proc : parent[q] = p
      /\ \A q \in Proc : parent[q] = p => state[q] # "ZOMBIE"

\* No wakeup is lost by sleep(chan, lk): nobody sleeps on the event once it
\* has happened ("guaranteed that we won't miss any wakeup", proc.c:634).
NoLostSignal ==
  \A p \in Proc : state[p] = "SLEEPING" /\ chan[p] = Event => avail = 0

\* A zombie whose parent is init is reaped.
ZombieReaped ==
  \A p \in Proc :
    state[p] = "ZOMBIE" /\ parent[p] = InitProc ~> state[p] = "UNUSED"

\* The inductive invariant of ProcTableProofs.
Inv ==
  /\ TypeOK
  /\ ForkOwnsSlot /\ SleeperHoldsLock
  /\ state[InitProc] \in {"RUNNABLE", "SLEEPING"}
  /\ \A p \in Proc : pid[p] < nextpid
  /\ ParentLive /\ PidUnique /\ NoLostChildWakeup /\ NoLostSignal

=============================================================================

------------------------------ MODULE LwpProofs ------------------------------
(***************************************************************************)
(* Proofs about Lwp for every number of CPUs, processes, threads, pages and *)
(* kernel stacks: Inv is inductive.  It is regrouped into what one process  *)
(* must satisfy by itself (ProcessOK), what ties the processes to the CPUs  *)
(* (CpusOK) and what ties them to the kernel stacks (StacksOK), because a   *)
(* step changes one process.                                                *)
(***************************************************************************)
EXTENDS Lwp, TLAPS

TidsOK(tab) == \A t \in Thread : tab[t].tid = IF tab[t].state # "UNUSED" THEN t ELSE 0

OwnStacks(tab) ==
  \A t, u \in Thread :
    tab[t].state # "UNUSED" /\ tab[u].state # "UNUSED" /\ tab[t].kstack = tab[u].kstack
      => t = u

JoinOK(tab, tg) ==
  tab[0].state = "SLEEPING" /\ tab[0].pc = "join" =>
    tg = NTHREAD \/ tab[tg].state \in {"RUNNABLE", "SLEEPING"}

CurrentOK(pr, tab) ==
  pr.state = "RUNNING" =>
    tab[pr.cur].state = "RUNNABLE" /\ tab[pr.cur].kstack = pr.kstack

ProcessOK(pr, tab, tg) ==
  /\ pr \in ProcType /\ tab \in [Thread -> ThreadType] /\ tg \in 0..NTHREAD
  /\ TidsOK(tab) /\ OwnStacks(tab) /\ JoinOK(tab, tg) /\ CurrentOK(pr, tab)
  /\ SlotsAgree(pr, tab, tg)

CpusOK ==
  /\ at \in [Cpu -> {"sched", "run"}] /\ cproc \in [Cpu -> Proc \union {NULL}]
  /\ turn \in [Cpu -> (0..NTHREAD) \X (0..NTHREAD)]
  /\ lock \in Cpu \union {NULL} /\ broken \in {0, 1}
  /\ \A p \in Proc : proc[p].state = "RUNNING" <=> \E c \in Cpu : at[c] = "run" /\ cproc[c] = p
  /\ \A c, d \in Cpu : at[c] = "run" /\ at[d] = "run" /\ cproc[c] = cproc[d] => c = d

Held(tab) == {tab[t].kstack : t \in {u \in Thread : tab[u].state # "UNUSED"}}

StacksOK ==
  /\ used \subseteq KStack
  /\ used = UNION {Held(thr[p]) : p \in Proc}
  /\ \A p, q \in Proc : p # q => Held(thr[p]) \intersect Held(thr[q]) = {}

Tables ==
  /\ DOMAIN proc = Proc /\ DOMAIN thr = Proc /\ DOMAIN target = Proc
  /\ proc = [p \in Proc |-> proc[p]] /\ thr = [p \in Proc |-> thr[p]]
  /\ target = [p \in Proc |-> target[p]]

Parts ==
  /\ Tables /\ CpusOK /\ StacksOK
  /\ \A p \in Proc : ProcessOK(proc[p], thr[p], target[p])

\* What the proofs need of the constants.
LEMMA ConstantFacts ==
  /\ NTHREAD \in Nat /\ NTHREAD > 0 /\ 0 \in Thread /\ Thread \subseteq Nat
  /\ Thread = 0..(NTHREAD - 1) /\ NTHREAD \notin Thread
  /\ KStack \subseteq Nat /\ 0 \notin KStack /\ MaxSz \in Nat
  /\ Limits \subseteq Nat /\ Grows \subseteq Nat /\ Shrinks \subseteq Nat
  /\ NULL \notin Proc /\ NULL \notin Cpu
  /\ \A n \in Images : n \in Nat /\ n + 2 <= MaxSz
BY ConstantsOK DEF Thread

\* The invariant is the conjunction of the parts.
LEMMA InvParts == Inv <=> Parts
<1>. USE ConstantFacts
<1>1. ASSUME Inv PROVE Parts
  <2>1. Tables
    BY <1>1 DEF Inv, TypeOK, Tables
  <2>2. CpusOK
    BY <1>1 DEF Inv, TypeOK, CpusOK, RunningThread
  <2>3. StacksOK
    <3>1. used = UNION {Held(thr[p]) : p \in Proc}
      BY <1>1 DEF Inv, KernelStacksOwned, InUse, Held
    <3>2. \A p, q \in Proc : p # q => Held(thr[p]) \intersect Held(thr[q]) = {}
      BY <1>1 DEF Inv, KernelStacksOwned, InUse, Held
    <3>. QED BY <1>1, <3>1, <3>2 DEF Inv, TypeOK, StacksOK
  <2>4. ASSUME NEW p \in Proc PROVE ProcessOK(proc[p], thr[p], target[p])
    <3>1. CurrentOK(proc[p], thr[p])
      <4>. SUFFICES ASSUME proc[p].state = "RUNNING"
                    PROVE  /\ thr[p][proc[p].cur].state = "RUNNABLE"
                           /\ thr[p][proc[p].cur].kstack = proc[p].kstack
        BY DEF CurrentOK
      <4>1. PICK c \in Cpu : at[c] = "run" /\ cproc[c] = p
        BY <1>1 DEF Inv, RunningThread
      <4>2. proc[p].cur \in Thread
        BY <1>1 DEF Inv, TypeOK, ProcType
      <4>. QED BY <1>1, <4>1, <4>2 DEF Inv, RunningThread, OnCpu
    <3>2. TidsOK(thr[p]) /\ OwnStacks(thr[p])
      BY <1>1 DEF Inv, TidIsSlot, KernelStacksOwned, InUse, TidsOK, OwnStacks
    <3>3. JoinOK(thr[p], target[p])
      BY <1>1 DEF Inv, NoLostThreadWakeup, JoinOK
    <3>. QED BY <1>1, <3>1, <3>2, <3>3 DEF Inv, TypeOK, ProcessOK
  <2>. QED BY <2>1, <2>2, <2>3, <2>4 DEF Parts
<1>2. ASSUME Parts PROVE Inv
  <2>1. TypeOK
    BY <1>2 DEF Parts, Tables, ProcessOK, CpusOK, StacksOK, TypeOK
  <2>2. TidIsSlot
    BY <1>2 DEF Parts, ProcessOK, TidsOK, TidIsSlot, InUse
  <2>3. RunningThread
    <3>1. ASSUME NEW c \in Cpu, NEW p \in Proc, NEW t \in Thread, OnCpu(c, p, t)
          PROVE  /\ thr[p][t].state = "RUNNABLE" /\ thr[p][t].tid = t
                 /\ thr[p][t].kstack = proc[p].kstack
      <4>1. /\ proc[p].cur = t /\ proc[p].state = "RUNNING"
            /\ TidsOK(thr[p]) /\ CurrentOK(proc[p], thr[p])
        BY <1>2, <3>1 DEF Parts, CpusOK, ProcessOK, OnCpu
      <4>. QED BY <4>1 DEF CurrentOK, TidsOK
    <3>. QED BY <1>2, <3>1 DEF Parts, CpusOK, RunningThread
  <2>4. KernelStacksOwned
    <3>1. used = UNION {{thr[p][t].kstack : t \in InUse(p)} : p \in Proc}
      BY <1>2 DEF Parts, StacksOK, Held, InUse
    <3>2. ASSUME NEW p \in Proc, NEW q \in Proc, NEW t \in InUse(p), NEW u \in InUse(q),
                 thr[p][t].kstack = thr[q][u].kstack
          PROVE  p = q /\ t = u
      <4>1. t \in Thread /\ u \in Thread
            /\ thr[p][t].kstack \in Held(thr[p]) /\ thr[q][u].kstack \in Held(thr[q])
        BY DEF InUse, Held
      <4>2. p = q
        BY <1>2, <3>2, <4>1 DEF Parts, StacksOK
      <4>. QED BY <1>2, <3>2, <4>1, <4>2 DEF Parts, ProcessOK, OwnStacks, InUse
    <3>. QED BY <3>1, <3>2 DEF KernelStacksOwned
  <2>5. NoLostThreadWakeup
    BY <1>2 DEF Parts, ProcessOK, JoinOK, NoLostThreadWakeup
  <2>. QED BY <1>2, <2>1, <2>2, <2>3, <2>4, <2>5 DEF Inv, Parts, ProcessOK
<1>. QED BY <1>1, <1>2

----------------------------------------------------------------------------
(* One process changes at a time.                                          *)

\* A step that changes process p alone, which afterwards satisfies its part
\* and has only kernel stacks that were its own or free.
LEMMA ProcessStep ==
  ASSUME Parts, CpusOK', NEW p \in Proc, NEW pr, NEW tab, NEW tg,
         proc' = [proc EXCEPT ![p] = pr], thr' = [thr EXCEPT ![p] = tab],
         target' = [target EXCEPT ![p] = tg], ProcessOK(pr, tab, tg),
         used' = (used \ Held(thr[p])) \union Held(tab),
         Held(tab) \subseteq KStack, Held(tab) \intersect (used \ Held(thr[p])) = {}
  PROVE  Parts'
<1>1. Tables'
  BY DEF Parts, Tables
<1>2. /\ proc'[p] = pr /\ thr'[p] = tab /\ target'[p] = tg
      /\ \A q \in Proc \ {p} :
           proc'[q] = proc[q] /\ thr'[q] = thr[q] /\ target'[q] = target[q]
  BY DEF Parts, Tables
<1>3. \A q \in Proc : ProcessOK(proc'[q], thr'[q], target'[q])
  BY <1>2 DEF Parts
<1>4. StacksOK'
  <2>1. \A q \in Proc \ {p} : Held(thr'[q]) = Held(thr[q])
    BY <1>2
  <2>2. Held(thr'[p]) = Held(tab)
    BY <1>2
  <2>3. \A q \in Proc \ {p} : Held(thr[q]) \subseteq used \ Held(thr[p])
    BY DEF Parts, StacksOK
  <2>4. used' = UNION {Held(thr'[q]) : q \in Proc}
    BY <2>1, <2>2, <2>3 DEF Parts, StacksOK
  <2>5. \A q, r \in Proc : q # r => Held(thr'[q]) \intersect Held(thr'[r]) = {}
    BY <2>1, <2>2, <2>3 DEF Parts, StacksOK
  <2>. QED BY <2>1, <2>2, <2>4, <2>5 DEF Parts, StacksOK, Held
<1>. QED BY <1>1, <1>3, <1>4 DEF Parts, ProcessOK, TidsOK, OwnStacks, JoinOK, CurrentOK

\* The same when the kernel stacks stay as they are.
LEMMA SameStacks ==
  ASSUME Parts, CpusOK', NEW p \in Proc, NEW pr, NEW tab, NEW tg,
         proc' = [proc EXCEPT ![p] = pr], thr' = [thr EXCEPT ![p] = tab],
         target' = [target EXCEPT ![p] = tg], ProcessOK(pr, tab, tg),
         used' = used, Held(tab) = Held(thr[p])
  PROVE  Parts'
<1>1. Held(thr[p]) \subseteq used /\ used \subseteq KStack
  BY DEF Parts, StacksOK
<1>. QED BY <1>1, ProcessStep

\* A step that leaves the CPUs alone and starts or stops no process.
LEMMA KeepCpus ==
  ASSUME Parts, UNCHANGED cpuVars, lock' \in Cpu \union {NULL}, broken' \in {0, 1},
         \A q \in Proc : proc'[q].state = "RUNNING" <=> proc[q].state = "RUNNING"
  PROVE  CpusOK'
BY DEF Parts, CpusOK, cpuVars

\* What is known of the thread that runs on a CPU.
LEMMA RunsFacts ==
  ASSUME Parts, NEW c \in Cpu, NEW p \in Proc, NEW t \in Thread, Runs(c, p, t)
  PROVE  /\ t = proc[p].cur /\ proc[p].state = "RUNNING"
         /\ thr[p][t].state = "RUNNABLE" /\ thr[p][t].kstack = proc[p].kstack
         /\ broken = 0 /\ at[c] = "run" /\ cproc[c] = p
<1>. USE ConstantFacts
<1>1. /\ broken = 0 /\ at[c] = "run" /\ cproc[c] = p
      /\ t = Find(thr[p], proc[p].cur) /\ proc[p].state = "RUNNING"
  BY DEF Runs, Parts, CpusOK
<1>2. /\ proc[p].cur \in Thread /\ TidsOK(thr[p])
      /\ thr[p][proc[p].cur].state = "RUNNABLE"
      /\ thr[p][proc[p].cur].kstack = proc[p].kstack
      /\ thr[p][0].state # "UNUSED"
  BY <1>1 DEF Parts, ProcessOK, ProcType, CurrentOK, SlotsAgree
<1>3. \A u \in Thread : thr[p][u].tid = proc[p].cur =>
        u = proc[p].cur \/ proc[p].cur = 0
  BY <1>2 DEF TidsOK
<1>4. First({u \in Thread : thr[p][u].tid = proc[p].cur}) = {proc[p].cur}
  BY <1>2, <1>3 DEF First, TidsOK
<1>5. Find(thr[p], proc[p].cur) = proc[p].cur
  BY <1>4 DEF Find
<1>. QED BY <1>1, <1>2, <1>5

----------------------------------------------------------------------------
(* The scheduler.                                                          *)

\* Searches for a tid and for the next turn stay inside the table.
LEMMA FindFact ==
  ASSUME NEW tab, NEW tid
  PROVE  /\ Find(tab, tid) \in 0..NTHREAD
         /\ Find(tab, tid) \in Thread => tab[Find(tab, tid)].tid = tid
<1>. USE ConstantFacts
<1>. DEFINE found == First({t \in Thread : tab[t].tid = tid})
<1>1. CASE found = {}
  BY <1>1 DEF Find
<1>2. CASE found # {}
  <2>1. (CHOOSE t \in found : TRUE) \in found
    BY <1>2
  <2>. QED BY <1>2, <2>1 DEF Find, First
<1>. QED BY <1>1, <1>2

LEMMA TurnFact ==
  ASSUME NEW tab, NEW i \in 0..NTHREAD, NEW idx \in 0..NTHREAD,
         NEW k \in First(Turns(tab, i, idx))
  PROVE  /\ k \in 0..NTHREAD /\ (i + k) % NTHREAD \in Thread
         /\ tab[(i + k) % NTHREAD].state = "RUNNABLE"
<1>. USE ConstantFacts
<1>1. k \in Turns(tab, i, idx)
  BY DEF First
<1>2. k \in (idx + 1)..NTHREAD /\ tab[(i + k) % NTHREAD].state = "RUNNABLE"
  BY <1>1 DEF Turns
<1>3. i + k \in Nat
  BY <1>2
<1>4. (i + k) % NTHREAD \in 0..(NTHREAD - 1)
  BY <1>3
<1>. QED BY <1>2, <1>4

\* copy_thread and swtch to a RUNNABLE thread of a process in order.
LEMMA SwitchStep ==
  ASSUME Parts, NEW c \in Cpu, NEW p \in Proc, NEW pr, NEW tab, NEW tg,
         NEW i \in 0..NTHREAD, NEW idx \in 0..NTHREAD,
         NEW k \in First(Turns(tab, i, idx)),
         SwitchTo(c, p, pr, tab, i, k), UNCHANGED <<lock, broken>>,
         ProcessOK(pr, tab, tg), pr.state = "RUNNABLE",
         \/ at[c] = "sched" /\ proc[p].state = "RUNNABLE"
         \/ at[c] = "run" /\ cproc[c] = p
  PROVE  /\ CpusOK'
         /\ \E new : proc' = [proc EXCEPT ![p] = new] /\ ProcessOK(new, tab, tg)
<1>. USE ConstantFacts
<1>. DEFINE t == (i + k) % NTHREAD
            new == [pr EXCEPT !.state = "RUNNING", !.cur = tab[t].tid, !.kstack = tab[t].kstack]
<1>1. k \in 0..NTHREAD /\ t \in Thread /\ tab[t].state = "RUNNABLE"
  BY TurnFact
<1>2. /\ proc' = [proc EXCEPT ![p] = new] /\ at' = [at EXCEPT ![c] = "run"]
      /\ cproc' = [cproc EXCEPT ![c] = p] /\ turn' = [turn EXCEPT ![c] = <<i, k>>]
  BY DEF SwitchTo, CopyThread
<1>3. tab[t] \in ThreadType /\ tab[t].tid = t /\ pr \in ProcType
  BY <1>1 DEF ProcessOK, TidsOK
<1>4. /\ new \in ProcType /\ new.state = "RUNNING" /\ new.cur = t
      /\ new.kstack = tab[t].kstack
  BY <1>1, <1>3 DEF ProcType, ThreadType
<1>5. ProcessOK(new, tab, tg)
  <2>1. CurrentOK(new, tab)
    BY <1>1, <1>4 DEF CurrentOK
  <2>2. SlotsAgree(new, tab, tg)
    BY <1>4 DEF ProcessOK, SlotsAgree
  <2>. QED BY <1>4, <2>1, <2>2 DEF ProcessOK
<1>6. CpusOK'
  <2>1. \A q \in Proc : proc'[q].state = IF q = p THEN "RUNNING" ELSE proc[q].state
    BY <1>2, <1>4 DEF Parts, Tables
  <2>2. \A d \in Cpu \ {c} : at'[d] = at[d] /\ cproc'[d] = cproc[d]
    BY <1>2 DEF Parts, CpusOK
  <2>3. at'[c] = "run" /\ cproc'[c] = p
    BY <1>2 DEF Parts, CpusOK
  <2>4. \A d \in Cpu \ {c} : at[d] = "run" => cproc[d] # p
    <3>1. CASE at[c] = "sched" /\ proc[p].state = "RUNNABLE"
      <4>1. ~ \E d \in Cpu : at[d] = "run" /\ cproc[d] = p
        BY <3>1 DEF Parts, CpusOK
      <4>. QED BY <4>1
    <3>2. CASE at[c] = "run" /\ cproc[c] = p
      BY <3>2 DEF Parts, CpusOK
    <3>. QED BY <3>1, <3>2
  <2>5. \A q \in Proc \ {p} : at[c] = "run" => cproc[c] # q
    OBVIOUS
  <2>6. ASSUME NEW q \in Proc
        PROVE  proc'[q].state = "RUNNING" <=> \E d \in Cpu : at'[d] = "run" /\ cproc'[d] = q
    <3>1. CASE q = p
      BY <2>1, <2>3, <3>1
    <3>2. CASE q # p
      <4>1. proc'[q].state = proc[q].state
        BY <2>1, <3>2
      <4>2. proc[q].state = "RUNNING" <=> \E d \in Cpu : at[d] = "run" /\ cproc[d] = q
        BY DEF Parts, CpusOK
      <4>3. \A d \in Cpu : (at'[d] = "run" /\ cproc'[d] = q) <=> (at[d] = "run" /\ cproc[d] = q)
        BY <2>2, <2>3, <2>5, <3>2
      <4>. QED BY <4>1, <4>2, <4>3
    <3>. QED BY <3>1, <3>2
  <2>7. \A d, e \in Cpu : at'[d] = "run" /\ at'[e] = "run" /\ cproc'[d] = cproc'[e] => d = e
    BY <2>2, <2>3, <2>4 DEF Parts, CpusOK
  <2>8. /\ at' \in [Cpu -> {"sched", "run"}] /\ cproc' \in [Cpu -> Proc \union {NULL}]
        /\ turn' \in [Cpu -> (0..NTHREAD) \X (0..NTHREAD)]
    BY <1>1, <1>2 DEF Parts, CpusOK
  <2>. QED BY <2>6, <2>7, <2>8 DEF Parts, CpusOK
<1>. QED BY <1>2, <1>5, <1>6

\* A CPU leaves process p, whose state is not RUNNING afterwards.
LEMMA LeaveStep ==
  ASSUME Parts, NEW c \in Cpu, NEW p \in Proc, NEW pr,
         at[c] = "run", cproc[c] = p, pr.state # "RUNNING",
         proc' = [proc EXCEPT ![p] = pr], at' = [at EXCEPT ![c] = "sched"],
         cproc' = cproc \/ cproc' = [cproc EXCEPT ![c] = NULL],
         turn' = [turn EXCEPT ![c] = <<0, 0>>], UNCHANGED <<lock, broken>>
  PROVE  CpusOK'
<1>. USE ConstantFacts
<1>1. \A q \in Proc : proc'[q] = IF q = p THEN pr ELSE proc[q]
  BY DEF Parts, Tables
<1>2. /\ \A d \in Cpu \ {c} : at'[d] = at[d] /\ cproc'[d] = cproc[d]
      /\ at'[c] = "sched"
  BY DEF Parts, CpusOK
<1>3. \A d \in Cpu \ {c} : at[d] = "run" => cproc[d] # p
  BY DEF Parts, CpusOK
<1>4. \A q \in Proc : proc'[q].state = "RUNNING" <=> \E d \in Cpu : at'[d] = "run" /\ cproc'[d] = q
  BY <1>1, <1>2, <1>3 DEF Parts, CpusOK
<1>5. \A d, e \in Cpu : at'[d] = "run" /\ at'[e] = "run" /\ cproc'[d] = cproc'[e] => d = e
  BY <1>2 DEF Parts, CpusOK
<1>6. turn' \in [Cpu -> (0..NTHREAD) \X (0..NTHREAD)]
  BY DEF Parts, CpusOK
<1>7. at' \in [Cpu -> {"sched", "run"}] /\ cproc' \in [Cpu -> Proc \union {NULL}]
  BY DEF Parts, CpusOK
<1>. QED BY <1>4, <1>5, <1>6, <1>7 DEF Parts, CpusOK

\* sched() of thread t of p with the threads tab, which are in order when the
\* process is RUNNABLE and hold the same kernel stacks as before.
LEMMA SchedStep ==
  ASSUME Parts, NEW c \in Cpu, NEW p \in Proc, NEW t \in Thread, Runs(c, p, t),
         NEW tab, NEW tg, ProcessOK(Descheduled(p), tab, tg),
         tab[t].kstack = thr[p][t].kstack, Held(tab) = Held(thr[p]),
         Sched(c, p, Descheduled(p), tab),
         target' = [target EXCEPT ![p] = tg], used' = used
  PROVE  Parts'
<1>. USE ConstantFacts
<1>. DEFINE pr == Descheduled(p)
<1>1. /\ t = proc[p].cur /\ thr[p][t].kstack = proc[p].kstack
      /\ at[c] = "run" /\ cproc[c] = p
  BY RunsFacts
<1>2. pr.state = "RUNNABLE" /\ pr.cur = t /\ pr.kstack = tab[t].kstack
  BY <1>1 DEF Descheduled, Parts, ProcessOK, ProcType
<1>3. CopyProcess(pr, tab) = tab
  <2>1. tab \in [Thread -> ThreadType]
    BY DEF ProcessOK
  <2>. QED BY <1>2, <2>1 DEF CopyProcess, ThreadType
<1>4. thr' = [thr EXCEPT ![p] = tab] /\ UNCHANGED <<lock, broken>>
  BY <1>3 DEF Sched
<1>5. turn[c][1] \in 0..NTHREAD /\ After(c) \in 0..NTHREAD
  BY DEF Parts, CpusOK, After
<1>6. CASE \E k \in First(Turns(tab, turn[c][1], After(c))) : SwitchTo(c, p, pr, tab, turn[c][1], k)
  <2>1. PICK k \in First(Turns(tab, turn[c][1], After(c))) :
          SwitchTo(c, p, pr, tab, turn[c][1], k)
    BY <1>6
  <2>2. /\ CpusOK'
        /\ \E new : proc' = [proc EXCEPT ![p] = new] /\ ProcessOK(new, tab, tg)
    <3>. HIDE DEF pr
    <3>. QED BY <1>1, <1>2, <1>4, <1>5, <2>1, SwitchStep DEF pr
  <2>. QED BY <1>4, <2>2, SameStacks
<1>7. CASE /\ proc' = [proc EXCEPT ![p] = pr]
           /\ at' = [at EXCEPT ![c] = "sched"]
           /\ cproc' = [cproc EXCEPT ![c] = NULL]
           /\ turn' = [turn EXCEPT ![c] = <<0, 0>>]
  <2>1. CpusOK'
    BY <1>1, <1>2, <1>4, <1>7, LeaveStep
  <2>. QED BY <1>4, <1>7, <2>1, SameStacks
<1>. QED BY <1>3, <1>6, <1>7 DEF Sched

\* The process as sched() leaves it, when its threads stay as they are.
LEMMA DeschedOK ==
  ASSUME Parts, NEW p \in Proc, proc[p].state = "RUNNING"
  PROVE  /\ ProcessOK(Descheduled(p), thr[p], target[p])
         /\ Descheduled(p) \in ProcType /\ Descheduled(p).state = "RUNNABLE"
         /\ target = [target EXCEPT ![p] = target[p]]
         /\ thr[p] \in [Thread -> ThreadType]
<1>1. Descheduled(p) \in ProcType /\ Descheduled(p).state = "RUNNABLE"
  BY DEF Parts, ProcessOK, ProcType, Descheduled
<1>2. SlotsAgree(Descheduled(p), thr[p], target[p])
  BY <1>1 DEF Parts, ProcessOK, SlotsAgree
<1>. QED BY <1>1, <1>2 DEF Parts, Tables, ProcessOK, CurrentOK

LEMMA DispatchStep ==
  ASSUME Parts, NEW c \in Cpu, NEW p \in Proc, Dispatch(c, p)
  PROVE  Parts'
<1>. DEFINE i == Find(thr[p], proc[p].cur)
<1>1. PICK k \in First(Turns(thr[p], i, 0)) : SwitchTo(c, p, proc[p], thr[p], i, k)
  BY DEF Dispatch
<1>2. i \in 0..NTHREAD /\ 0 \in 0..NTHREAD
  BY FindFact, ConstantFacts
<1>3. /\ CpusOK'
      /\ \E new : proc' = [proc EXCEPT ![p] = new] /\ ProcessOK(new, thr[p], target[p])
  <2>1. ProcessOK(proc[p], thr[p], target[p])
    BY DEF Parts
  <2>2. /\ at[c] = "sched" /\ proc[p].state = "RUNNABLE"
        /\ UNCHANGED <<thr, target, lock, used, broken>>
    BY DEF Dispatch
  <2>. HIDE DEF i
  <2>. QED BY <1>1, <1>2, <2>1, <2>2, SwitchStep
<1>4. /\ thr' = [thr EXCEPT ![p] = thr[p]] /\ target' = [target EXCEPT ![p] = target[p]]
      /\ used' = used
  BY DEF Dispatch, Parts, Tables
<1>. QED BY <1>3, <1>4, SameStacks

LEMMA TimerStep ==
  ASSUME Parts, NEW c \in Cpu, NEW p \in Proc, NEW t \in Thread, Timer(c, p, t)
  PROVE  Parts'
<1>1. Runs(c, p, t) /\ Sched(c, p, Descheduled(p), thr[p]) /\ UNCHANGED <<target, used>>
  BY DEF Timer
<1>2. proc[p].state = "RUNNING"
  BY <1>1, RunsFacts
<1>. QED BY <1>1, <1>2, DeschedOK, SchedStep

\* A step that leaves the tables and the kernel stacks alone.
LEMMA SameTables ==
  ASSUME Parts, CpusOK', UNCHANGED <<procVars, used>>
  PROVE  Parts'
<1>1. proc' = proc /\ thr' = thr /\ target' = target /\ used' = used
  BY DEF procVars
<1>2. \A q \in Proc : ProcessOK(proc'[q], thr'[q], target'[q])
  BY <1>1 DEF Parts
<1>3. Tables'
  BY <1>1 DEF Parts, Tables
<1>4. StacksOK'
  <2>1. \A q \in Proc : Held(thr'[q]) = Held(thr[q])
    BY <1>1
  <2>2. used' = UNION {Held(thr'[q]) : q \in Proc}
    BY <1>1, <2>1 DEF Parts, StacksOK
  <2>3. \A q, r \in Proc : q # r => Held(thr'[q]) \intersect Held(thr'[r]) = {}
    BY <2>1 DEF Parts, StacksOK
  <2>. QED BY <1>1, <2>2, <2>3 DEF Parts, StacksOK, Held
<1>. QED BY <1>2, <1>3, <1>4 DEF Parts, ProcessOK, TidsOK, OwnStacks, JoinOK, CurrentOK

LEMMA BreakStep ==
  ASSUME Parts, Break
  PROVE  Parts'
<1>1. CpusOK'
  BY KeepCpus DEF Break, procVars, Parts, CpusOK
<1>. QED BY <1>1, SameTables DEF Break

----------------------------------------------------------------------------
(* System calls of the running thread that give up the CPU.                *)

\* Updates of a ttable entry.
LEMMA StateUpdate ==
  ASSUME NEW r \in ThreadType,
         NEW state \in {"UNUSED", "EMBRYO", "RUNNABLE", "SLEEPING", "ZOMBIE"},
         NEW s, s = [r EXCEPT !.state = state]
  PROVE  /\ s \in ThreadType /\ s.state = state
         /\ s.tid = r.tid /\ s.kstack = r.kstack /\ s.pc = r.pc
BY DEF ThreadType

LEMMA ThreadExitStep ==
  ASSUME Parts, NEW c \in Cpu, NEW p \in Proc, NEW t \in Thread, ThreadExit(c, p, t)
  PROVE  Parts'
<1>. USE ConstantFacts
<1>. DEFINE tab == [ThreadWakeup(thr[p]) EXCEPT ![t].state = "ZOMBIE"]
<1>1. /\ Runs(c, p, t) /\ t # 0 /\ Sched(c, p, Descheduled(p), tab)
      /\ UNCHANGED <<target, used>>
  BY DEF ThreadExit
<1>2. /\ proc[p].state = "RUNNING" /\ thr[p][t].state = "RUNNABLE"
      /\ ProcessOK(proc[p], thr[p], target[p])
  BY <1>1, RunsFacts DEF Parts
<1>3. /\ Descheduled(p) \in ProcType /\ Descheduled(p).state = "RUNNABLE"
      /\ target = [target EXCEPT ![p] = target[p]] /\ thr[p] \in [Thread -> ThreadType]
  BY <1>2, DeschedOK
<1>4. thr[p][0].state \in {"RUNNABLE", "SLEEPING"}
  BY <1>2 DEF ProcessOK, SlotsAgree
<1>5. /\ tab \in [Thread -> ThreadType]
      /\ \A u \in Thread : /\ tab[u].tid = thr[p][u].tid /\ tab[u].kstack = thr[p][u].kstack
                           /\ tab[u].pc = thr[p][u].pc
                           /\ tab[u].state = IF u = 0 THEN "RUNNABLE" ELSE
                                             IF u = t THEN "ZOMBIE" ELSE thr[p][u].state
  <2>1. DOMAIN tab = Thread /\ \A u \in Thread : tab[u] =
          IF u = t THEN [thr[p][u] EXCEPT !.state = "ZOMBIE"] ELSE
          IF u = 0 THEN [thr[p][u] EXCEPT !.state = "RUNNABLE"] ELSE thr[p][u]
    BY <1>1, <1>3 DEF ThreadWakeup
  <2>2. tab = [u \in Thread |-> tab[u]]
    BY <1>3 DEF ThreadWakeup
  <2>3. \A u \in Thread : thr[p][u] \in ThreadType
    BY <1>3
  <2>. HIDE DEF tab
  <2>4. ASSUME NEW u \in Thread
        PROVE  /\ tab[u] \in ThreadType
               /\ tab[u].tid = thr[p][u].tid /\ tab[u].kstack = thr[p][u].kstack
               /\ tab[u].pc = thr[p][u].pc
               /\ tab[u].state = IF u = 0 THEN "RUNNABLE" ELSE
                                 IF u = t THEN "ZOMBIE" ELSE thr[p][u].state
    <3>1. CASE u = t
      <4> DEFINE r == thr[p][u]  s == tab[u]
      <4>1. r \in ThreadType /\ s = [r EXCEPT !.state = "ZOMBIE"]
        BY <2>1, <2>3, <3>1
      <4>2. /\ s \in ThreadType /\ s.tid = r.tid /\ s.kstack = r.kstack
            /\ s.pc = r.pc /\ s.state = "ZOMBIE"
        <5>. HIDE DEF r, s
        <5>. QED BY <4>1, StateUpdate
      <4>. QED BY <4>2, <1>1, <3>1
    <3>2. CASE u # t /\ u = 0
      <4> DEFINE r == thr[p][u]  s == tab[u]
      <4>1. r \in ThreadType /\ s = [r EXCEPT !.state = "RUNNABLE"]
        BY <2>1, <2>3, <3>2
      <4>2. /\ s \in ThreadType /\ s.tid = r.tid /\ s.kstack = r.kstack
            /\ s.pc = r.pc /\ s.state = "RUNNABLE"
        <5>. HIDE DEF r, s
        <5>. QED BY <4>1, StateUpdate
      <4>. QED BY <4>2, <3>2
    <3>3. CASE u # t /\ u # 0
      BY <2>1, <2>3, <3>3
    <3>. QED BY <3>1, <3>2, <3>3
  <2>. QED BY <2>2, <2>4
<1>. HIDE DEF tab
<1>6. \A u \in Thread : tab[u].state # "UNUSED" <=> thr[p][u].state # "UNUSED"
  BY <1>2, <1>4, <1>5
<1>7. TidsOK(tab) /\ OwnStacks(tab) /\ Held(tab) = Held(thr[p])
  <2>1. TidsOK(tab) /\ OwnStacks(tab)
    BY <1>2, <1>5, <1>6 DEF ProcessOK, TidsOK, OwnStacks
  <2>. QED BY <1>5, <1>6, <2>1 DEF Held
<1>8. SlotsAgree(Descheduled(p), tab, target[p])
  <2>1. \A u \in Thread : tab[u].state = "UNUSED" => tab[u].kstack = 0
    BY <1>2, <1>5, <1>6 DEF ProcessOK, SlotsAgree
  <2>2. \A u \in Thread \ {0} : tab[u].state # "EMBRYO" /\ tab[u].pc # "join"
    BY <1>2, <1>5 DEF ProcessOK, SlotsAgree
  <2>3. tab[0].pc = "join" =>
          target[p] = NTHREAD \/ tab[target[p]].state \in {"RUNNABLE", "SLEEPING", "ZOMBIE"}
    BY <1>2, <1>5 DEF ProcessOK, SlotsAgree
  <2>. QED BY <1>3, <1>5, <2>1, <2>2, <2>3 DEF SlotsAgree
<1>9. ProcessOK(Descheduled(p), tab, target[p])
  BY <1>2, <1>3, <1>5, <1>7, <1>8 DEF ProcessOK, JoinOK, CurrentOK
<1>. QED BY <1>1, <1>3, <1>5, <1>7, <1>9, SchedStep

\* A thread goes to sleep on chan; the main thread may do so in thread_join of
\* the slot tg.
LEMMA AsleepStep ==
  ASSUME Parts, NEW c \in Cpu, NEW p \in Proc, NEW t \in Thread, Runs(c, p, t),
         NEW chan \in {"event", "join"}, NEW tg \in 0..NTHREAD,
         chan = "event" => tg = target[p],
         chan = "join" =>
           t = 0 /\ (tg = NTHREAD \/ tg = 0 \/ thr[p][tg].state \in {"RUNNABLE", "SLEEPING"}),
         Sched(c, p, Descheduled(p), Asleep(p, t, chan)),
         target' = [target EXCEPT ![p] = tg], used' = used
  PROVE  Parts'
<1>. USE ConstantFacts
<1>. DEFINE tab == Asleep(p, t, chan)
<1>1. /\ proc[p].state = "RUNNING" /\ thr[p][t].state = "RUNNABLE"
      /\ ProcessOK(proc[p], thr[p], target[p])
  BY RunsFacts DEF Parts
<1>2. /\ Descheduled(p) \in ProcType /\ Descheduled(p).state = "RUNNABLE"
      /\ thr[p] \in [Thread -> ThreadType]
  BY <1>1, DeschedOK
<1>3. /\ tab \in [Thread -> ThreadType]
      /\ \A u \in Thread : /\ tab[u].tid = thr[p][u].tid /\ tab[u].kstack = thr[p][u].kstack
                           /\ tab[u].pc = IF u = t THEN chan ELSE thr[p][u].pc
                           /\ tab[u].state = IF u = t THEN "SLEEPING" ELSE thr[p][u].state
  <2>1. DOMAIN tab = Thread /\ \A u \in Thread : tab[u] =
          IF u = t THEN [thr[p][u] EXCEPT !.state = "SLEEPING", !.pc = chan] ELSE thr[p][u]
    BY <1>2 DEF Asleep
  <2>2. tab = [u \in Thread |-> tab[u]]
    BY <1>2 DEF Asleep
  <2>3. \A u \in Thread : thr[p][u] \in ThreadType
    BY <1>2
  <2>. HIDE DEF tab
  <2>4. ASSUME NEW u \in Thread
        PROVE  /\ tab[u] \in ThreadType
               /\ tab[u].tid = thr[p][u].tid /\ tab[u].kstack = thr[p][u].kstack
               /\ tab[u].pc = IF u = t THEN chan ELSE thr[p][u].pc
               /\ tab[u].state = IF u = t THEN "SLEEPING" ELSE thr[p][u].state
    <3>1. CASE u = t
      <4> DEFINE r == thr[p][u]  s == tab[u]
      <4>1. r \in ThreadType /\ s = [r EXCEPT !.state = "SLEEPING", !.pc = chan]
        BY <2>1, <2>3, <3>1
      <4>2. /\ s \in ThreadType /\ s.tid = r.tid /\ s.kstack = r.kstack
            /\ s.pc = chan /\ s.state = "SLEEPING"
        <5>1. PICK y \in ThreadType : y = r
          BY <4>1
        <5>2. PICK z : z = s
          OBVIOUS
        <5>3. z = [y EXCEPT !.state = "SLEEPING", !.pc = chan]
          BY <4>1, <5>1, <5>2
        <5>4. /\ z \in ThreadType /\ z.state = "SLEEPING" /\ z.pc = chan
              /\ z.tid = y.tid /\ z.kstack = y.kstack
          BY ONLY <5>3 DEF ThreadType
        <5>. QED BY <5>1, <5>2, <5>4
      <4>. QED BY <4>2, <3>1
    <3>2. CASE u # t
      BY <2>1, <2>3, <3>2
    <3>. QED BY <3>1, <3>2
  <2>. QED BY <2>2, <2>4
<1>. HIDE DEF tab
<1>4. TidsOK(tab) /\ OwnStacks(tab) /\ Held(tab) = Held(thr[p])
  <2>1. \A u \in Thread : tab[u].state # "UNUSED" <=> thr[p][u].state # "UNUSED"
    BY <1>1, <1>3
  <2>. QED BY <1>1, <1>3, <2>1 DEF ProcessOK, TidsOK, OwnStacks, Held
<1>5. tab[0].state = "SLEEPING" /\ tab[0].pc = "join" =>
        tg = NTHREAD \/ tab[tg].state \in {"RUNNABLE", "SLEEPING"}
  BY <1>1, <1>3 DEF ProcessOK, JoinOK
<1>6. SlotsAgree(Descheduled(p), tab, tg)
  <2>1. \A u \in Thread : tab[u].state = "UNUSED" => tab[u].kstack = 0
    BY <1>1, <1>3 DEF ProcessOK, SlotsAgree
  <2>2. \A u \in Thread \ {0} : tab[u].state # "EMBRYO" /\ tab[u].pc # "join"
    BY <1>1, <1>3 DEF ProcessOK, SlotsAgree
  <2>3. tab[0].pc = "join" =>
          tg = NTHREAD \/ tab[tg].state \in {"RUNNABLE", "SLEEPING", "ZOMBIE"}
    BY <1>1, <1>3 DEF ProcessOK, SlotsAgree
  <2>4. tab[0].state \in {"RUNNABLE", "SLEEPING"}
    BY <1>1, <1>3 DEF ProcessOK, SlotsAgree
  <2>. QED BY <1>2, <2>1, <2>2, <2>3, <2>4 DEF SlotsAgree
<1>7. ProcessOK(Descheduled(p), tab, tg)
  BY <1>2, <1>3, <1>4, <1>5, <1>6 DEF ProcessOK, JoinOK, CurrentOK
<1>8. tab[t].kstack = thr[p][t].kstack /\ Sched(c, p, Descheduled(p), tab)
  BY <1>3 DEF tab
<1>. QED BY <1>4, <1>7, <1>8, SchedStep

LEMMA EventSleepStep ==
  ASSUME Parts, NEW c \in Cpu, NEW p \in Proc, NEW t \in Thread, EventSleep(c, p, t)
  PROVE  Parts'
<1>1. target[p] \in 0..NTHREAD /\ target' = [target EXCEPT ![p] = target[p]]
  BY DEF Parts, ProcessOK, Tables, EventSleep
<1>2. /\ Runs(c, p, t) /\ Sched(c, p, Descheduled(p), Asleep(p, t, "event"))
      /\ used' = used
  BY DEF EventSleep
<1>. QED BY <1>1, <1>2, AsleepStep

\* A search for a tid in use finds a slot in use.
LEMMA FindInUse ==
  ASSUME NEW tab, TidsOK(tab), NEW tid
  PROVE  LET j == Find(tab, tid)
         IN j = 0 \/ j = NTHREAD \/ (j \in Thread /\ tab[j].state # "UNUSED")
<1>. USE ConstantFacts
<1>. DEFINE found == First({t \in Thread : tab[t].tid = tid})
            j == Find(tab, tid)
<1>1. CASE found = {}
  BY <1>1 DEF Find
<1>2. CASE found # {}
  <2>1. j \in found
    BY <1>2 DEF Find
  <2>2. j \in Thread /\ tab[j].tid = tid /\ \A u \in Thread : tab[u].tid = tid => j <= u
    BY <2>1 DEF First
  <2>3. tab[0].tid = 0
    BY DEF TidsOK
  <2>4. tab[j].state = "UNUSED" => j <= 0
    BY <2>2, <2>3 DEF TidsOK
  <2>. QED BY <2>2, <2>4
<1>. QED BY <1>1, <1>2

LEMMA JoinSleepStep ==
  ASSUME Parts, NEW c \in Cpu, NEW p \in Proc, NEW t \in Thread, Runs(c, p, t), t = 0,
         NEW j \in 0..NTHREAD, JoinSleep(c, p, t, j),
         (\E tid \in Thread : j = Find(thr[p], tid)) \/ (j = target[p] /\ thr[p][t].pc = "join")
  PROVE  Parts'
<1>. USE ConstantFacts
<1>1. /\ ~Joinable(p, j) /\ target' = [target EXCEPT ![p] = j] /\ used' = used
      /\ Sched(c, p, Descheduled(p), Asleep(p, t, "join"))
  BY DEF JoinSleep
<1>2. proc[p].state = "RUNNING" /\ ProcessOK(proc[p], thr[p], target[p])
  BY RunsFacts DEF Parts
<1>3. j = NTHREAD \/ j = 0 \/ thr[p][j].state \in {"RUNNABLE", "SLEEPING"}
  <2>1. CASE \E tid \in Thread : j = Find(thr[p], tid)
    <3>1. j = 0 \/ j = NTHREAD \/ (j \in Thread /\ thr[p][j].state # "UNUSED")
      BY <1>2, <2>1, FindInUse DEF ProcessOK
    <3>2. j \in Thread \ {0} =>
            thr[p][j].state \in {"UNUSED", "RUNNABLE", "SLEEPING", "ZOMBIE"}
      BY <1>2 DEF ProcessOK, SlotsAgree, ThreadType
    <3>. QED BY <1>1, <3>1, <3>2 DEF Joinable
  <2>2. CASE j = target[p] /\ thr[p][t].pc = "join"
    <3>1. j = NTHREAD \/ thr[p][j].state \in {"RUNNABLE", "SLEEPING", "ZOMBIE"}
      BY <1>2, <2>2 DEF ProcessOK, SlotsAgree
    <3>2. j = NTHREAD \/ j \in Thread
      OBVIOUS
    <3>. QED BY <1>1, <3>1, <3>2 DEF Joinable
  <2>. QED BY <2>1, <2>2
<1>. QED BY <1>1, <1>3, AsleepStep

----------------------------------------------------------------------------
(* System calls that keep the CPU.                                         *)

\* Only fields of p that the parts do not relate to anything change, and
\* possibly the lock.
LEMMA SameThreads ==
  ASSUME Parts, NEW p \in Proc, NEW pr \in ProcType, proc' = [proc EXCEPT ![p] = pr],
         pr.state = proc[p].state, pr.cur = proc[p].cur, pr.kstack = proc[p].kstack,
         UNCHANGED <<thr, target, cpuVars, used, broken>>, lock' \in Cpu \union {NULL}
  PROVE  Parts'
<1>1. \A q \in Proc : proc'[q].state = proc[q].state
  BY DEF Parts, Tables
<1>2. CpusOK'
  BY <1>1, KeepCpus DEF Parts, CpusOK
<1>3. ProcessOK(pr, thr[p], target[p])
  <2>1. ProcessOK(proc[p], thr[p], target[p])
    BY DEF Parts
  <2>2. SlotsAgree(pr, thr[p], target[p]) /\ CurrentOK(pr, thr[p])
    BY <2>1 DEF ProcessOK, SlotsAgree, CurrentOK
  <2>. QED BY <2>1, <2>2 DEF ProcessOK
<1>4. thr' = [thr EXCEPT ![p] = thr[p]] /\ target' = [target EXCEPT ![p] = target[p]]
  BY DEF Parts, Tables
<1>. QED BY <1>2, <1>3, <1>4, SameStacks

LEMMA MainExitStep ==
  ASSUME Parts, NEW c \in Cpu, NEW p \in Proc, NEW t \in Thread, MainExit(c, p, t)
  PROVE  Parts'
<1>1. proc' = [proc EXCEPT ![p] = proc[p]] /\ proc[p] \in ProcType
  BY DEF MainExit, procVars, Parts, Tables, ProcessOK
<1>2. UNCHANGED <<thr, target, cpuVars, used, broken>> /\ lock' \in Cpu \union {NULL}
  BY DEF MainExit, procVars
<1>. QED BY <1>1, <1>2, SameThreads

LEMMA SbrkStep ==
  ASSUME Parts, NEW c \in Cpu, NEW p \in Proc, NEW t \in Thread, Sbrk(c, p, t)
  PROVE  Parts'
<1>. USE ConstantFacts
<1>1. PICK n \in Grows \union {-s : s \in Shrinks} :
        LET sz == proc[p].sz + n
        IN \/ /\ MayGrow(p, sz) /\ sz > 0
              /\ proc' = [proc EXCEPT ![p].sz = sz, ![p].guard = @ \ {g \in @ : g >= sz}]
              /\ UNCHANGED lock
           \/ /\ ~MayGrow(p, sz) \/ sz = 0
              /\ lock' = c
              /\ UNCHANGED proc
  BY DEF Sbrk
<1>. DEFINE sz == proc[p].sz + n
<1>2. /\ proc[p] \in ProcType /\ DOMAIN proc = Proc /\ lock \in Cpu \union {NULL}
      /\ proc = [proc EXCEPT ![p] = proc[p]]
  BY DEF Parts, Tables, ProcessOK, CpusOK
<1>3. UNCHANGED <<thr, target, cpuVars, used, broken>>
  BY DEF Sbrk
<1>4. CASE /\ MayGrow(p, sz) /\ sz > 0
           /\ proc' = [proc EXCEPT ![p].sz = sz, ![p].guard = @ \ {g \in @ : g >= sz}]
           /\ UNCHANGED lock
  <2>. DEFINE r == proc[p]
              pr == [r EXCEPT !.sz = sz, !.guard = @ \ {g \in @ : g >= sz}]
  <2>1. sz \in 0..MaxSz
    <3>1. n \in Int /\ proc[p].sz \in Nat
      BY <1>2 DEF ProcType
    <3>. QED BY <1>4, <3>1 DEF MayGrow
  <2>2. proc' = [proc EXCEPT ![p] = pr]
    BY <1>2, <1>4
  <2>3. /\ pr \in ProcType /\ pr.state = r.state /\ pr.cur = r.cur /\ pr.kstack = r.kstack
    <3>1. r \in ProcType
      BY <1>2
    <3>. HIDE DEF r, sz
    <3>. QED BY <2>1, <3>1 DEF ProcType
  <2>. QED BY <1>2, <1>3, <1>4, <2>2, <2>3, SameThreads
<1>5. CASE lock' = c /\ UNCHANGED proc
  BY <1>2, <1>3, <1>5, SameThreads
<1>. QED BY <1>1, <1>4, <1>5

LEMMA SetMemoryLimitStep ==
  ASSUME Parts, NEW p \in Proc, SetMemoryLimit(p)
  PROVE  Parts'
<1>1. PICK l \in Limits : proc' = [proc EXCEPT ![p].limit = l]
  BY DEF SetMemoryLimit
<1>. DEFINE r == proc[p]
            pr == [r EXCEPT !.limit = l]
<1>2. r \in ProcType /\ proc' = [proc EXCEPT ![p] = pr] /\ lock \in Cpu \union {NULL}
  BY <1>1 DEF Parts, ProcessOK, CpusOK
<1>3. pr \in ProcType /\ pr.state = r.state /\ pr.cur = r.cur /\ pr.kstack = r.kstack
  <2>. HIDE DEF r
  <2>. QED BY <1>2 DEF ProcType
<1>4. UNCHANGED <<thr, target, cpuVars, lock, used, broken>>
  BY DEF SetMemoryLimit
<1>. QED BY <1>2, <1>3, <1>4, SameThreads

\* A new thread in slot s on kernel stack k.
LEMMA NewThreadStep ==
  ASSUME Parts, NEW c \in Cpu, NEW p \in Proc, NEW t \in Thread, Creates(c, p, t),
         NEW s \in Slot(p) \ {0}, NEW k \in Kalloc, NEW start \in 0..MaxSz,
         NEW page \in 0..MaxSz, NEW pr \in ProcType,
         pr.state = proc[p].state, pr.cur = proc[p].cur, pr.kstack = proc[p].kstack,
         thr' = [thr EXCEPT ![p][s] = NewThread(p, s, k, start, page)],
         used' = used \union {k}, proc' = [proc EXCEPT ![p] = pr],
         UNCHANGED <<target, cpuVars, lock, broken>>
  PROVE  Parts'
<1>. USE ConstantFacts
<1>. DEFINE r == thr[p][s]
            new == NewThread(p, s, k, start, page)
            tab == [thr[p] EXCEPT ![s] = new]
<1>1. /\ t = 0 /\ thr[p][0].pc = "user" /\ proc[p].state = "RUNNING"
      /\ ProcessOK(proc[p], thr[p], target[p]) /\ thr[p] \in [Thread -> ThreadType]
      /\ thr[p][t].state = "RUNNABLE" /\ t = proc[p].cur
  BY RunsFacts DEF Creates, InUser, Parts, ProcessOK
<1>2. s \in Thread \ {0} /\ thr[p][s].state = "UNUSED"
  BY DEF Slot, First
<1>3. k \in KStack /\ k \notin used
  BY DEF Kalloc, First
<1>4. /\ new \in ThreadType /\ new.state = "RUNNABLE" /\ new.tid = s /\ new.kstack = k
      /\ new.pc = "user"
  <2>1. r \in ThreadType /\ new = [r EXCEPT !.state = "RUNNABLE", !.tid = s, !.kstack = k,
                    !.start = start, !.page = page, !.pc = "user"]
    BY <1>1, <1>2 DEF NewThread
  <2>. HIDE DEF r, new
  <2>. QED BY <1>2, <1>3, <2>1 DEF ThreadType
<1>5. /\ thr' = [thr EXCEPT ![p] = tab] /\ tab \in [Thread -> ThreadType]
      /\ tab[s] = new /\ \A u \in Thread \ {s} : tab[u] = thr[p][u]
  BY <1>1, <1>2, <1>4
<1>. HIDE DEF new, tab
<1>6. Held(tab) = Held(thr[p]) \union {k} /\ Held(thr[p]) \subseteq used
  <2>1. Held(thr[p]) \subseteq used
    BY DEF Parts, StacksOK
  <2>2. \A u \in Thread :
          /\ tab[u].state # "UNUSED" <=> u = s \/ thr[p][u].state # "UNUSED"
          /\ tab[u].kstack = IF u = s THEN k ELSE thr[p][u].kstack
    BY <1>4, <1>5
  <2>3. Held(tab) \subseteq Held(thr[p]) \union {k}
    BY <2>2 DEF Held
  <2>4. Held(thr[p]) \union {k} \subseteq Held(tab)
    BY <1>2, <2>2 DEF Held
  <2>. QED BY <2>1, <2>3, <2>4
<1>7. TidsOK(tab) /\ OwnStacks(tab)
  <2>1. \A u \in Thread : thr[p][u].state # "UNUSED" => thr[p][u].kstack # k
    BY <1>3, <1>6 DEF Held
  <2>2. \A u \in Thread \ {s} : tab[u].state = thr[p][u].state /\ tab[u].tid = thr[p][u].tid
                                   /\ tab[u].kstack = thr[p][u].kstack
    BY <1>5
  <2>3. tab[s].state = "RUNNABLE" /\ tab[s].tid = s /\ tab[s].kstack = k
    BY <1>4, <1>5
  <2>4. TidsOK(tab)
    BY <1>1, <2>2, <2>3 DEF ProcessOK, TidsOK
  <2>5. OwnStacks(tab)
    <3>1. ASSUME NEW u \in Thread, NEW v \in Thread, u # v,
                 tab[u].state # "UNUSED", tab[v].state # "UNUSED",
                 tab[u].kstack = tab[v].kstack
          PROVE  FALSE
      <4>1. CASE u = s
        BY <2>1, <2>2, <2>3, <3>1, <4>1
      <4>2. CASE v = s
        BY <2>1, <2>2, <2>3, <3>1, <4>2
      <4>3. CASE u # s /\ v # s
        <5>1. OwnStacks(thr[p])
          BY <1>1 DEF ProcessOK
        <5>2. /\ thr[p][u].state # "UNUSED" /\ thr[p][v].state # "UNUSED"
              /\ thr[p][u].kstack = thr[p][v].kstack
          BY <2>2, <3>1, <4>3
        <5>. QED BY <3>1, <5>1, <5>2 DEF OwnStacks
      <4>. QED BY <4>1, <4>2, <4>3
    <3>. QED BY <3>1 DEF OwnStacks
  <2>. QED BY <2>4, <2>5
<1>8. SlotsAgree(pr, tab, target[p])
  <2>1. \A u \in Thread : tab[u].state = "UNUSED" => tab[u].kstack = 0
    BY <1>1, <1>4, <1>5 DEF ProcessOK, SlotsAgree
  <2>2. \A u \in Thread \ {0} : tab[u].state # "EMBRYO" /\ tab[u].pc # "join"
    BY <1>1, <1>4, <1>5 DEF ProcessOK, SlotsAgree
  <2>3. tab[0].state = "RUNNABLE" /\ tab[0].pc = "user" /\ pr.state = "RUNNING"
    BY <1>1, <1>2, <1>5
  <2>. QED BY <2>1, <2>2, <2>3 DEF SlotsAgree
<1>9. ProcessOK(pr, tab, target[p])
  BY <1>1, <1>2, <1>5, <1>7, <1>8 DEF ProcessOK, JoinOK, CurrentOK
<1>10. CpusOK'
  BY KeepCpus DEF Parts, Tables, CpusOK
<1>11. target' = [target EXCEPT ![p] = target[p]]
  BY DEF Parts, Tables
<1>12. /\ used' = (used \ Held(thr[p])) \union Held(tab)
       /\ Held(tab) \subseteq KStack /\ Held(tab) \intersect (used \ Held(thr[p])) = {}
  BY <1>3, <1>6 DEF Parts, StacksOK
<1>. QED BY <1>5, <1>9, <1>10, <1>11, <1>12, ProcessStep

LEMMA CreateFreshStep ==
  ASSUME Parts, NEW c \in Cpu, NEW p \in Proc, NEW t \in Thread, CreateFresh(c, p, t)
  PROVE  Parts'
<1>. USE ConstantFacts
<1>. DEFINE r == proc[p]
            sz == r.sz
            pr == [r EXCEPT !.sz = sz + 2, !.guard = @ \union {sz}]
<1>1. PICK s \in Slot(p) \ {0}, k \in Kalloc :
        /\ thr' = [thr EXCEPT ![p][s] = NewThread(p, s, k, sz, sz + 1)]
        /\ used' = used \union {k}
  BY DEF CreateFresh
<1>2. /\ Creates(c, p, t) /\ MayGrow(p, sz + 2) /\ UNCHANGED <<target, cpuVars, lock, broken>>
      /\ proc' = [proc EXCEPT ![p] = pr]
  BY DEF CreateFresh
<1>3. r \in ProcType
  BY DEF Parts, ProcessOK
<1>4. sz \in 0..MaxSz /\ sz + 1 \in 0..MaxSz /\ sz + 2 \in 0..MaxSz
  <2>1. sz \in 0..MaxSz /\ sz + 2 <= MaxSz
    BY <1>2, <1>3 DEF MayGrow, ProcType
  <2>. HIDE DEF sz
  <2>. QED BY <2>1
<1>5. pr \in ProcType /\ pr.state = r.state /\ pr.cur = r.cur /\ pr.kstack = r.kstack
  <2>. HIDE DEF r
  <2>. QED BY <1>3, <1>4 DEF ProcType
<1>. HIDE DEF pr, sz
<1>. QED BY <1>1, <1>2, <1>4, <1>5, NewThreadStep

LEMMA CreateRecycledStep ==
  ASSUME Parts, NEW c \in Cpu, NEW p \in Proc, NEW t \in Thread, CreateRecycled(c, p, t)
  PROVE  Parts'
<1>. USE ConstantFacts
<1>1. PICK s \in Slot(p) \ {0}, k \in Kalloc, i \in Recycled(p) :
        LET start == proc[p].pool[i]
        IN /\ thr' = [thr EXCEPT ![p][s] = NewThread(p, s, k, start, start - 1)]
           /\ used' = used \union {k}
           /\ proc' = [proc EXCEPT ![p].pool[i] = 0]
  BY DEF CreateRecycled
<1>. DEFINE r == proc[p]
            start == r.pool[i]
            pr == [r EXCEPT !.pool[i] = 0]
<1>2. /\ Creates(c, p, t) /\ UNCHANGED <<target, cpuVars, lock, broken>>
      /\ proc' = [proc EXCEPT ![p] = pr]
  BY <1>1 DEF CreateRecycled
<1>3. r \in ProcType /\ i \in Thread /\ r.pool[i] # 0
  BY DEF Parts, ProcessOK, Recycled, First
<1>4. start \in 0..MaxSz /\ start - 1 \in 0..MaxSz
  <2>1. start \in 0..MaxSz /\ start # 0
    BY <1>3 DEF ProcType
  <2>. HIDE DEF start
  <2>. QED BY <2>1
<1>5. pr \in ProcType /\ pr.state = r.state /\ pr.cur = r.cur /\ pr.kstack = r.kstack
  <2>. DEFINE pool == [r.pool EXCEPT ![i] = 0]
  <2>1. pool \in [Thread -> 0..MaxSz] /\ pr = [r EXCEPT !.pool = pool]
    BY <1>3 DEF ProcType
  <2>. HIDE DEF r, pool, pr
  <2>. QED BY <1>3, <2>1 DEF ProcType
<1>. HIDE DEF pr
<1>. QED BY <1>1, <1>2, <1>4, <1>5, NewThreadStep

LEMMA EventReturnStep ==
  ASSUME Parts, NEW c \in Cpu, NEW p \in Proc, NEW t \in Thread, EventReturn(c, p, t)
  PROVE  Parts'
<1>. USE ConstantFacts
<1>. DEFINE r == thr[p][t]
            tab == [thr[p] EXCEPT ![t] = [@ EXCEPT !.pc = "user"]]
<1>1. /\ ProcessOK(proc[p], thr[p], target[p]) /\ thr[p] \in [Thread -> ThreadType]
      /\ thr' = [thr EXCEPT ![p] = tab] /\ proc' = [proc EXCEPT ![p] = proc[p]]
      /\ target' = [target EXCEPT ![p] = target[p]] /\ used' = used
  BY DEF EventReturn, Parts, Tables, ProcessOK
<1>2. /\ tab[t] \in ThreadType /\ tab[t].pc = "user" /\ tab[t].state = r.state
      /\ tab[t].tid = r.tid /\ tab[t].kstack = r.kstack
  <2>1. tab[t] = [r EXCEPT !.pc = "user"] /\ r \in ThreadType
    BY <1>1
  <2>. DEFINE new == tab[t]
  <2>2. /\ new \in ThreadType /\ new.pc = "user" /\ new.state = r.state
        /\ new.tid = r.tid /\ new.kstack = r.kstack
    <3>1. new = [r EXCEPT !.pc = "user"] /\ r \in ThreadType
      BY <2>1
    <3>. HIDE DEF new, r
    <3>. QED BY <3>1 DEF ThreadType
  <2>. QED BY <2>2
<1>3. tab \in [Thread -> ThreadType] /\ \A u \in Thread \ {t} : tab[u] = thr[p][u]
  BY <1>1, <1>2
<1>. HIDE DEF tab
<1>4. \A u \in Thread : tab[u].state = thr[p][u].state /\ tab[u].tid = thr[p][u].tid
        /\ tab[u].kstack = thr[p][u].kstack /\ tab[u].pc \in {"user", thr[p][u].pc}
  BY <1>2, <1>3
<1>5. /\ TidsOK(tab) /\ OwnStacks(tab) /\ JoinOK(tab, target[p]) /\ CurrentOK(proc[p], tab)
      /\ SlotsAgree(proc[p], tab, target[p])
  <2>1. proc[p].cur \in Thread
    BY <1>1 DEF ProcessOK, ProcType
  <2>2. TidsOK(tab) /\ OwnStacks(tab) /\ CurrentOK(proc[p], tab)
    <3>1. TidsOK(tab)
      BY <1>1, <1>4 DEF ProcessOK, TidsOK
    <3>2. CurrentOK(proc[p], tab)
      <4>1. CurrentOK(proc[p], thr[p])
        BY <1>1 DEF ProcessOK
      <4>. QED BY <1>4, <2>1, <4>1 DEF CurrentOK
    <3>3. OwnStacks(tab)
      <4>1. OwnStacks(thr[p])
        BY <1>1 DEF ProcessOK
      <4>. QED BY <1>4, <4>1 DEF OwnStacks
    <3>. QED BY <3>1, <3>2, <3>3
  <2>3. target[p] = NTHREAD \/ target[p] \in Thread
    BY <1>1 DEF ProcessOK
  <2>4. JoinOK(tab, target[p]) /\ SlotsAgree(proc[p], tab, target[p])
    <3>1. tab[0].pc = "join" => thr[p][0].pc = "join"
      BY <1>4
    <3>2. JoinOK(tab, target[p])
      BY <1>1, <1>4, <2>3, <3>1 DEF ProcessOK, JoinOK
    <3>3. \A u \in Thread \ {0} : tab[u].state # "EMBRYO" /\ tab[u].pc # "join"
      BY <1>1, <1>4 DEF ProcessOK, SlotsAgree
    <3>4. \A u \in Thread : tab[u].state = "UNUSED" => tab[u].kstack = 0
      BY <1>1, <1>4 DEF ProcessOK, SlotsAgree
    <3>5. /\ proc[p].state = "UNUSED" => \A u \in Thread : tab[u].state = "UNUSED"
          /\ proc[p].state = "EMBRYO" => tab[0].state = "EMBRYO"
      BY <1>1, <1>4 DEF ProcessOK, SlotsAgree
    <3>6. proc[p].state \in {"RUNNABLE", "RUNNING", "ZOMBIE"} =>
            /\ tab[0].state \in {"RUNNABLE", "SLEEPING"}
            /\ tab[0].pc = "join" => target[p] = NTHREAD \/
                 tab[target[p]].state \in {"RUNNABLE", "SLEEPING", "ZOMBIE"}
      BY <1>1, <1>4, <2>3, <3>1 DEF ProcessOK, SlotsAgree
    <3>7. SlotsAgree(proc[p], tab, target[p])
      BY <3>3, <3>4, <3>5, <3>6 DEF SlotsAgree
    <3>. QED BY <3>2, <3>7
  <2>. QED BY <2>2, <2>4
<1>6. Held(tab) = Held(thr[p])
  BY <1>4 DEF Held
<1>7. CpusOK'
  BY KeepCpus DEF EventReturn, Parts, CpusOK
<1>. QED BY <1>1, <1>3, <1>5, <1>6, <1>7, SameStacks DEF ProcessOK

LEMMA JoinReapStep ==
  ASSUME Parts, NEW c \in Cpu, NEW p \in Proc, NEW t \in Thread, Runs(c, p, t), t = 0,
         NEW j \in 0..NTHREAD, JoinReap(c, p, t, j)
  PROVE  Parts'
<1>. USE ConstantFacts
<1>1. /\ proc[p].state = "RUNNING" /\ thr[p][0].state = "RUNNABLE" /\ proc[p].cur = 0
      /\ ProcessOK(proc[p], thr[p], target[p]) /\ thr[p] \in [Thread -> ThreadType]
      /\ proc[p] \in ProcType
  BY RunsFacts DEF Parts, ProcessOK
<1>2. j \in Thread \ {0} /\ thr[p][j].state = "ZOMBIE"
  BY <1>1 DEF JoinReap, Joinable
<1>. DEFINE old == thr[p][j]
            free == [old EXCEPT !.state = "UNUSED", !.tid = 0, !.kstack = 0,
                                !.start = 0, !.page = 0]
            main == thr[p][0]
            main2 == [main EXCEPT !.pc = "user"]
            tab == [thr[p] EXCEPT ![j] = free, ![0] = main2]
            r == proc[p]
            pr == [r EXCEPT !.pool = Recycle(p, j)]
<1>3. /\ free \in ThreadType /\ free.state = "UNUSED" /\ free.tid = 0 /\ free.kstack = 0
      /\ free.pc = old.pc
  <2>1. /\ old \in ThreadType
        /\ free = [old EXCEPT !.state = "UNUSED", !.tid = 0, !.kstack = 0,
                              !.start = 0, !.page = 0]
    BY <1>1, <1>2
  <2>2. 0 \in Thread /\ 0 \in 0..MaxSz
    OBVIOUS
  <2>. HIDE DEF old, free
  <2>3. /\ free.state = "UNUSED" /\ free.tid = 0 /\ free.kstack = 0
        /\ free.pc = old.pc
    BY <2>1 DEF ThreadType
  <2>. QED BY <2>1, <2>2, <2>3 DEF ThreadType
<1>4. /\ main2 \in ThreadType /\ main2.state = main.state /\ main2.tid = main.tid
      /\ main2.kstack = main.kstack /\ main2.pc = "user"
  <2>1. main \in ThreadType
    BY <1>1
  <2>. HIDE DEF main
  <2>. QED BY <2>1 DEF ThreadType
<1>5. thr' = [thr EXCEPT ![p] = tab]
  BY <1>1, <1>2 DEF JoinReap, Parts, Tables
<1>6. /\ pr \in ProcType /\ pr.state = r.state /\ pr.cur = r.cur /\ pr.kstack = r.kstack
      /\ proc' = [proc EXCEPT ![p] = pr]
  <2>1. proc' = [proc EXCEPT ![p] = pr]
    BY DEF JoinReap
  <2>2. Recycle(p, j) \in [Thread -> 0..MaxSz]
    <3>1. thr[p][j].start \in 0..MaxSz /\ \A i \in Thread : proc[p].pool[i] \in 0..MaxSz
      BY <1>1, <1>2 DEF ThreadType, ProcType
    <3>. QED BY <3>1 DEF Recycle
  <2>3. r \in ProcType
    BY <1>1
  <2>4. pr \in ProcType /\ pr.state = r.state /\ pr.cur = r.cur /\ pr.kstack = r.kstack
    <3>. HIDE DEF r
    <3>. QED BY <2>2, <2>3 DEF ProcType
  <2>. QED BY <2>1, <2>4
<1>7. /\ tab \in [Thread -> ThreadType] /\ tab[j] = free /\ tab[0] = main2
      /\ \A u \in Thread \ {0, j} : tab[u] = thr[p][u]
  <2>. HIDE DEF free, main2
  <2>. QED BY <1>1, <1>2, <1>3, <1>4
<1>. HIDE DEF tab, free, main2, pr
<1>8. /\ \A u \in Thread \ {j} : tab[u].state = thr[p][u].state /\ tab[u].tid = thr[p][u].tid
                                 /\ tab[u].kstack = thr[p][u].kstack
      /\ tab[j].state = "UNUSED" /\ tab[j].tid = 0 /\ tab[j].kstack = 0
      /\ tab[0].pc = "user" /\ \A u \in Thread \ {0} : tab[u].pc = thr[p][u].pc
  BY <1>2, <1>3, <1>4, <1>7
<1>9. TidsOK(tab) /\ OwnStacks(tab)
  <2>1. TidsOK(thr[p]) /\ OwnStacks(thr[p])
    BY <1>1 DEF ProcessOK
  <2>2. TidsOK(tab)
    BY <1>2, <1>8, <2>1 DEF TidsOK
  <2>3. OwnStacks(tab)
    BY <1>2, <1>8, <2>1 DEF OwnStacks
  <2>. QED BY <2>2, <2>3
<1>10. SlotsAgree(pr, tab, 0)
  <2>1. \A u \in Thread : tab[u].state = "UNUSED" => tab[u].kstack = 0
    BY <1>1, <1>8 DEF ProcessOK, SlotsAgree
  <2>2. \A u \in Thread \ {0} : tab[u].state # "EMBRYO" /\ tab[u].pc # "join"
    BY <1>1, <1>8 DEF ProcessOK, SlotsAgree
  <2>3. tab[0].state = "RUNNABLE" /\ tab[0].pc = "user" /\ pr.state = "RUNNING"
    BY <1>1, <1>2, <1>6, <1>8
  <2>. QED BY <2>1, <2>2, <2>3 DEF SlotsAgree
<1>11. CurrentOK(pr, tab) /\ JoinOK(tab, 0)
  BY <1>1, <1>2, <1>6, <1>8 DEF CurrentOK, JoinOK, ProcessOK
<1>12. ProcessOK(pr, tab, 0)
  BY <1>6, <1>7, <1>9, <1>10, <1>11 DEF ProcessOK
<1>13. CpusOK'
  <2>1. \A q \in Proc : proc'[q].state = proc[q].state
    BY <1>6 DEF Parts, Tables
  <2>. QED BY <2>1, KeepCpus DEF JoinReap, Parts, CpusOK
<1>14. Held(tab) = Held(thr[p]) \ {thr[p][j].kstack} /\ thr[p][j].kstack \in Held(thr[p])
  <2>1. \A u \in Thread \ {j} : thr[p][u].state # "UNUSED" =>
          thr[p][u].kstack # thr[p][j].kstack
    BY <1>1, <1>2 DEF ProcessOK, OwnStacks
  <2>2. \A u \in Thread : tab[u].state # "UNUSED" <=> u # j /\ thr[p][u].state # "UNUSED"
    BY <1>8
  <2>3. Held(tab) \subseteq Held(thr[p]) \ {thr[p][j].kstack}
    BY <1>8, <2>1, <2>2 DEF Held
  <2>4. Held(thr[p]) \ {thr[p][j].kstack} \subseteq Held(tab)
    BY <1>8, <2>2 DEF Held
  <2>5. thr[p][j].kstack \in Held(thr[p])
    BY <1>2 DEF Held
  <2>. QED BY <2>3, <2>4, <2>5
<1>15. used' = used \ {thr[p][j].kstack} /\ target' = [target EXCEPT ![p] = 0]
  BY DEF JoinReap, FreeStack
<1>16. /\ used' = (used \ Held(thr[p])) \union Held(tab)
       /\ Held(tab) \subseteq KStack /\ Held(tab) \intersect (used \ Held(thr[p])) = {}
  BY <1>14, <1>15 DEF Parts, StacksOK
<1>. QED BY <1>5, <1>6, <1>12, <1>13, <1>15, <1>16, ProcessStep

LEMMA JoinStep ==
  ASSUME Parts, NEW c \in Cpu, NEW p \in Proc, NEW t \in Thread, Join(c, p, t)
  PROVE  Parts'
<1>1. Runs(c, p, t) /\ t = 0
  BY RunsFacts DEF Join
<1>2. CASE \E tid \in Thread : LET j == Find(thr[p], tid)
                               IN JoinReap(c, p, t, j) \/ JoinSleep(c, p, t, j)
  BY <1>1, <1>2, FindFact, JoinReapStep, JoinSleepStep
<1>3. CASE /\ thr[p][t].pc = "join"
           /\ JoinReap(c, p, t, target[p]) \/ JoinSleep(c, p, t, target[p])
  <2>1. target[p] \in 0..NTHREAD
    BY DEF Parts, ProcessOK
  <2>. QED BY <1>1, <1>3, <2>1, JoinReapStep, JoinSleepStep
<1>. QED BY <1>2, <1>3 DEF Join

\* The table that exec and wait leave: the slots in use are empty.
LEMMA ClearedFacts ==
  ASSUME Parts, NEW p \in Proc
  PROVE  /\ Cleared(p) \in [Thread -> ThreadType]
         /\ \A u \in Thread : /\ Cleared(p)[u].state = "UNUSED" /\ Cleared(p)[u].tid = 0
                              /\ Cleared(p)[u].kstack = 0
                              /\ u # 0 => Cleared(p)[u].pc # "join"
<1>. USE ConstantFacts
<1>1. ProcessOK(proc[p], thr[p], target[p]) /\ thr[p] \in [Thread -> ThreadType]
  BY DEF Parts, ProcessOK
<1>2. UnusedThread \in ThreadType
  BY DEF UnusedThread, ThreadType
<1>3. ASSUME NEW u \in Thread
      PROVE  /\ Cleared(p)[u] \in ThreadType /\ Cleared(p)[u].state = "UNUSED"
             /\ Cleared(p)[u].tid = 0 /\ Cleared(p)[u].kstack = 0
             /\ u # 0 => Cleared(p)[u].pc # "join"
  <2>1. CASE thr[p][u].state = "UNUSED"
    <3>1. Cleared(p)[u] = thr[p][u]
      BY <2>1 DEF Cleared
    <3>. QED BY <1>1, <2>1, <3>1 DEF ProcessOK, TidsOK, SlotsAgree
  <2>2. CASE thr[p][u].state # "UNUSED"
    BY <1>2, <2>2 DEF Cleared, UnusedThread
  <2>. QED BY <2>1, <2>2
<1>. QED BY <1>3 DEF Cleared

LEMMA ExecStep ==
  ASSUME Parts, NEW c \in Cpu, NEW p \in Proc, NEW t \in Thread, Exec(c, p, t)
  PROVE  Parts'
<1>. USE ConstantFacts
<1>1. PICK n \in Images :
        /\ thr' = [thr EXCEPT ![p] = [Cleared(p) EXCEPT
             ![0] = [thr[p][0] EXCEPT !.state = "RUNNABLE",
                       !.kstack = MoveCaller(p, t), !.page = n + 1, !.pc = "user"]]]
        /\ proc' = [proc EXCEPT ![p].cur = 0, ![p].sz = n + 2, ![p].guard = {n}]
  BY DEF Exec
<1>2. /\ Runs(c, p, t) /\ used' = used \ {thr[p][s].kstack : s \in Thread \ {t}}
      /\ target' = [target EXCEPT ![p] = 0] /\ UNCHANGED <<cpuVars, lock, broken>>
  BY DEF Exec
<1>3. /\ proc[p].state = "RUNNING" /\ thr[p][t].state = "RUNNABLE" /\ t = proc[p].cur
      /\ thr[p][t].kstack = proc[p].kstack
      /\ ProcessOK(proc[p], thr[p], target[p]) /\ thr[p] \in [Thread -> ThreadType]
      /\ proc[p] \in ProcType
  BY <1>2, RunsFacts DEF Parts, ProcessOK
<1>. DEFINE k == thr[p][t].kstack
            old == thr[p][0]
            main == [old EXCEPT !.state = "RUNNABLE", !.kstack = k, !.page = n + 1, !.pc = "user"]
            tab == [Cleared(p) EXCEPT ![0] = main]
            r == proc[p]
            pr == [r EXCEPT !.cur = 0, !.sz = n + 2, !.guard = {n}]
<1>4. thr' = [thr EXCEPT ![p] = tab] /\ proc' = [proc EXCEPT ![p] = pr]
  BY <1>1 DEF MoveCaller
<1>5. n \in Nat /\ n + 2 <= MaxSz
  OBVIOUS
<1>6. /\ main \in ThreadType /\ main.state = "RUNNABLE" /\ main.tid = old.tid
      /\ main.kstack = k /\ main.pc = "user" /\ old.tid = 0
  <2>1. /\ old \in ThreadType /\ k \in KStack \union {0} /\ old.tid = 0
    BY <1>3 DEF ThreadType, ProcessOK, TidsOK
  <2>2. main = [old EXCEPT !.state = "RUNNABLE", !.kstack = k, !.page = n + 1, !.pc = "user"]
    OBVIOUS
  <2>. DEFINE page == n + 1
  <2>3. page \in 0..MaxSz
    BY <1>5
  <2>. HIDE DEF old, k, main, page
  <2>4. /\ main.state = "RUNNABLE" /\ main.tid = old.tid /\ main.kstack = k /\ main.pc = "user"
    BY <2>1, <2>2 DEF ThreadType
  <2>5. main = [old EXCEPT !.state = "RUNNABLE", !.kstack = k, !.page = page, !.pc = "user"]
    BY <2>2 DEF page
  <2>6. main \in ThreadType
    BY <2>1, <2>3, <2>5 DEF ThreadType
  <2>. QED BY <2>1, <2>4, <2>6
<1>7. pr \in ProcType /\ pr.state = "RUNNING" /\ pr.cur = 0 /\ pr.kstack = k
  <2>1. r \in ProcType /\ r.state = "RUNNING" /\ r.kstack = k
    BY <1>3
  <2>. DEFINE sz == n + 2
              guard == {n}
  <2>2. sz \in 0..MaxSz /\ guard \in SUBSET (0..MaxSz) /\ 0 \in Thread
    BY <1>5
  <2>3. pr = [r EXCEPT !.cur = 0, !.sz = sz, !.guard = guard]
    OBVIOUS
  <2>. HIDE DEF r, k, pr, sz, guard
  <2>. QED BY <2>1, <2>2, <2>3 DEF ProcType
<1>8. /\ tab \in [Thread -> ThreadType] /\ tab[0] = main
      /\ \A u \in Thread \ {0} : tab[u] = Cleared(p)[u]
  <2>. HIDE DEF main
  <2>. QED BY <1>6, ClearedFacts
<1>. HIDE DEF tab, main, pr
<1>9. /\ tab[0].state = "RUNNABLE" /\ tab[0].tid = 0 /\ tab[0].kstack = k /\ tab[0].pc = "user"
      /\ \A u \in Thread \ {0} : /\ tab[u].state = "UNUSED" /\ tab[u].tid = 0
                                 /\ tab[u].kstack = 0 /\ tab[u].pc # "join"
  BY <1>6, <1>8, ClearedFacts
<1>10. ProcessOK(pr, tab, 0)
  <2>1. TidsOK(tab) /\ OwnStacks(tab)
    BY <1>9 DEF TidsOK, OwnStacks
  <2>2. JoinOK(tab, 0) /\ CurrentOK(pr, tab) /\ SlotsAgree(pr, tab, 0)
    BY <1>7, <1>9 DEF JoinOK, CurrentOK, SlotsAgree
  <2>. QED BY <1>7, <1>8, <2>1, <2>2 DEF ProcessOK
<1>11. CpusOK'
  <2>1. \A q \in Proc : proc'[q].state = proc[q].state
    BY <1>3, <1>4, <1>7 DEF Parts, Tables
  <2>. QED BY <1>2, <2>1, KeepCpus DEF Parts, CpusOK
<1>12. Held(tab) = {k} /\ k \in Held(thr[p])
  BY <1>3, <1>9 DEF Held
<1>13. used' = (used \ Held(thr[p])) \union {k}
  <2>1. \A s \in Thread \ {t} : thr[p][s].kstack # k
    <3>1. k \in KStack
      BY <1>12 DEF Parts, StacksOK
    <3>2. \A s \in Thread : thr[p][s].state = "UNUSED" => thr[p][s].kstack = 0
      BY <1>3 DEF ProcessOK, SlotsAgree
    <3>3. OwnStacks(thr[p]) /\ t \in Thread /\ thr[p][t].state # "UNUSED"
      BY <1>3 DEF ProcessOK
    <3>. QED BY <3>1, <3>2, <3>3 DEF OwnStacks
  <2>2. \A s \in Thread \ {t} : thr[p][s].kstack \in Held(thr[p]) \/ thr[p][s].kstack \notin used
    <3>1. 0 \notin used
      BY DEF Parts, StacksOK
    <3>2. \A s \in Thread : thr[p][s].state = "UNUSED" => thr[p][s].kstack = 0
      BY <1>3 DEF ProcessOK, SlotsAgree
    <3>. QED BY <3>1, <3>2 DEF Held
  <2>3. k \in used /\ \A x \in Held(thr[p]) : x = k \/ \E s \in Thread \ {t} : thr[p][s].kstack = x
    BY <1>12 DEF Held, Parts, StacksOK
  <2>. QED BY <1>2, <2>1, <2>2, <2>3
<1>14. {k} \subseteq KStack /\ {k} \intersect (used \ Held(thr[p])) = {}
  BY <1>12 DEF Parts, StacksOK
<1>. HIDE DEF k
<1>. QED BY <1>2, <1>4, <1>10, <1>11, <1>12, <1>13, <1>14, ProcessStep

LEMMA ExitStep ==
  ASSUME Parts, NEW c \in Cpu, NEW p \in Proc, NEW t \in Thread, Exit(c, p, t)
  PROVE  Parts'
<1>. DEFINE r == proc[p]
            pr == [r EXCEPT !.state = "ZOMBIE"]
<1>1. /\ Runs(c, p, t) /\ proc' = [proc EXCEPT ![p] = pr]
      /\ at' = [at EXCEPT ![c] = "sched"] /\ turn' = [turn EXCEPT ![c] = <<0, 0>>]
      /\ UNCHANGED <<thr, target, cproc, lock, used, broken>>
  BY DEF Exit
<1>2. /\ r.state = "RUNNING" /\ at[c] = "run" /\ cproc[c] = p /\ r \in ProcType
      /\ ProcessOK(r, thr[p], target[p])
  BY <1>1, RunsFacts DEF Parts, ProcessOK
<1>3. pr \in ProcType /\ pr.state = "ZOMBIE"
  <2>. HIDE DEF r
  <2>. QED BY <1>2 DEF ProcType
<1>. HIDE DEF pr
<1>4. CpusOK'
  BY <1>1, <1>2, <1>3, LeaveStep
<1>5. ProcessOK(pr, thr[p], target[p])
  <2>1. CurrentOK(pr, thr[p]) /\ SlotsAgree(pr, thr[p], target[p])
    BY <1>2, <1>3 DEF CurrentOK, SlotsAgree, ProcessOK
  <2>. QED BY <1>2, <1>3, <2>1 DEF ProcessOK
<1>6. thr' = [thr EXCEPT ![p] = thr[p]] /\ target' = [target EXCEPT ![p] = target[p]]
  BY <1>1 DEF Parts, Tables
<1>. QED BY <1>1, <1>4, <1>5, <1>6, SameStacks

----------------------------------------------------------------------------
(* What other processes do to the processes of the model.                  *)

LEMMA AllocStep ==
  ASSUME Parts, NEW p \in Proc, Alloc(p)
  PROVE  Parts'
<1>. USE ConstantFacts
<1>1. PICK k \in Kalloc :
        /\ thr' = [thr EXCEPT ![p][0] = [@ EXCEPT !.state = "EMBRYO", !.tid = 0, !.kstack = k]]
        /\ used' = used \union {k}
  BY DEF Alloc
<1>. DEFINE old == thr[p][0]
            main == [old EXCEPT !.state = "EMBRYO", !.tid = 0, !.kstack = k]
            tab == [thr[p] EXCEPT ![0] = main]
            r == proc[p]
            pr == [r EXCEPT !.state = "EMBRYO", !.cur = 0, !.limit = 0]
<1>2. /\ thr' = [thr EXCEPT ![p] = tab] /\ proc' = [proc EXCEPT ![p] = pr]
      /\ UNCHANGED <<target, cpuVars, lock, broken>> /\ r.state = "UNUSED"
  BY <1>1 DEF Alloc, Parts, Tables
<1>3. /\ ProcessOK(r, thr[p], target[p]) /\ thr[p] \in [Thread -> ThreadType]
      /\ r \in ProcType /\ k \in KStack /\ k \notin used
  BY DEF Parts, ProcessOK, Kalloc, First
<1>4. \A u \in Thread : thr[p][u].state = "UNUSED" /\ thr[p][u].kstack = 0 /\ thr[p][u].tid = 0
  BY <1>2, <1>3 DEF ProcessOK, SlotsAgree, TidsOK
<1>5. main \in ThreadType /\ main.state = "EMBRYO" /\ main.tid = 0 /\ main.kstack = k
  <2>1. old \in ThreadType /\ main = [old EXCEPT !.state = "EMBRYO", !.tid = 0, !.kstack = k]
    BY <1>3
  <2>. HIDE DEF old, main
  <2>. QED BY <1>3, <2>1 DEF ThreadType
<1>6. pr \in ProcType /\ pr.state = "EMBRYO"
  <2>. HIDE DEF r
  <2>. QED BY <1>3 DEF ProcType
<1>7. /\ tab \in [Thread -> ThreadType] /\ tab[0] = main
      /\ \A u \in Thread \ {0} : tab[u] = thr[p][u]
  <2>. HIDE DEF main
  <2>. QED BY <1>3, <1>5
<1>. HIDE DEF tab, main, pr
<1>8. /\ tab[0].state = "EMBRYO" /\ tab[0].tid = 0 /\ tab[0].kstack = k
      /\ \A u \in Thread \ {0} : /\ tab[u].state = "UNUSED" /\ tab[u].kstack = 0
                                 /\ tab[u].tid = 0 /\ tab[u].pc # "join"
  <2>1. \A u \in Thread \ {0} : thr[p][u].pc # "join"
    BY <1>3 DEF ProcessOK, SlotsAgree
  <2>. QED BY <1>4, <1>5, <1>7, <2>1
<1>9. ProcessOK(pr, tab, target[p])
  <2>1. TidsOK(tab) /\ OwnStacks(tab)
    BY <1>8 DEF TidsOK, OwnStacks
  <2>2. JoinOK(tab, target[p]) /\ CurrentOK(pr, tab) /\ SlotsAgree(pr, tab, target[p])
    BY <1>3, <1>6, <1>8 DEF JoinOK, CurrentOK, SlotsAgree
  <2>. QED BY <1>3, <1>6, <1>7, <2>1, <2>2 DEF ProcessOK
<1>10. CpusOK'
  <2>1. \A q \in Proc : proc'[q].state = "RUNNING" <=> proc[q].state = "RUNNING"
    BY <1>2, <1>6 DEF Parts, Tables
  <2>. QED BY <1>2, <2>1, KeepCpus DEF Parts, CpusOK
<1>11. Held(tab) = {k} /\ Held(thr[p]) = {}
  BY <1>4, <1>8 DEF Held
<1>12. target' = [target EXCEPT ![p] = target[p]]
  BY <1>2 DEF Parts, Tables
<1>13. /\ used' = (used \ Held(thr[p])) \union Held(tab)
       /\ Held(tab) \subseteq KStack /\ Held(tab) \intersect (used \ Held(thr[p])) = {}
  BY <1>1, <1>3, <1>11
<1>. QED BY <1>2, <1>9, <1>10, <1>12, <1>13, ProcessStep

LEMMA ForkStartStep ==
  ASSUME Parts, NEW p \in Proc, ForkStart(p)
  PROVE  Parts'
<1>. USE ConstantFacts
<1>1. PICK n \in Images, l \in Limits :
        /\ proc' = [proc EXCEPT ![p] = [@ EXCEPT
                       !.state = "RUNNABLE", !.sz = n + 2, !.guard = {n}, !.limit = l]]
        /\ thr' = [thr EXCEPT ![p][0] =
                     [@ EXCEPT !.state = "RUNNABLE", !.page = n + 1, !.pc = "user"]]
  BY DEF ForkStart
<1>. DEFINE sz == n + 2
            guard == {n}
            page == n + 1
            old == thr[p][0]
            main == [old EXCEPT !.state = "RUNNABLE", !.page = page, !.pc = "user"]
            tab == [thr[p] EXCEPT ![0] = main]
            r == proc[p]
            pr == [r EXCEPT !.state = "RUNNABLE", !.sz = sz, !.guard = guard, !.limit = l]
<1>2. /\ thr' = [thr EXCEPT ![p] = tab] /\ proc' = [proc EXCEPT ![p] = pr]
      /\ UNCHANGED <<target, cpuVars, lock, used, broken>> /\ r.state = "EMBRYO"
  BY <1>1 DEF ForkStart, Parts, Tables
<1>3. /\ ProcessOK(r, thr[p], target[p]) /\ thr[p] \in [Thread -> ThreadType]
      /\ r \in ProcType /\ sz \in 0..MaxSz /\ page \in 0..MaxSz /\ guard \in SUBSET (0..MaxSz)
  BY DEF Parts, ProcessOK
<1>4. /\ main \in ThreadType /\ main.state = "RUNNABLE" /\ main.tid = old.tid
      /\ main.kstack = old.kstack /\ main.pc = "user"
  <2>1. old \in ThreadType /\ main = [old EXCEPT !.state = "RUNNABLE", !.page = page, !.pc = "user"]
    BY <1>3
  <2>. HIDE DEF old, main, page
  <2>. QED BY <1>3, <2>1 DEF ThreadType
<1>5. pr \in ProcType /\ pr.state = "RUNNABLE"
  <2>1. pr = [r EXCEPT !.state = "RUNNABLE", !.sz = sz, !.guard = guard, !.limit = l]
    OBVIOUS
  <2>. HIDE DEF r, pr, sz, guard, page
  <2>. QED BY <1>3, <2>1 DEF ProcType
<1>6. /\ tab \in [Thread -> ThreadType] /\ tab[0] = main
      /\ \A u \in Thread \ {0} : tab[u] = thr[p][u]
  <2>. HIDE DEF main
  <2>. QED BY <1>3, <1>4
<1>. HIDE DEF tab, main, pr, sz, guard, page
<1>7. old.state = "EMBRYO"
  BY <1>2, <1>3 DEF ProcessOK, SlotsAgree
<1>8. /\ \A u \in Thread : /\ tab[u].tid = thr[p][u].tid /\ tab[u].kstack = thr[p][u].kstack
                           /\ tab[u].state # "UNUSED" <=> thr[p][u].state # "UNUSED"
      /\ tab[0].state = "RUNNABLE" /\ tab[0].pc = "user"
      /\ \A u \in Thread \ {0} : tab[u].state = thr[p][u].state /\ tab[u].pc = thr[p][u].pc
  BY <1>4, <1>6, <1>7
<1>9. TidsOK(tab)
  BY <1>3, <1>8 DEF ProcessOK, TidsOK
<1>10. OwnStacks(tab)
  <2>1. OwnStacks(thr[p])
    BY <1>3 DEF ProcessOK
  <2>. QED BY <1>8, <2>1 DEF OwnStacks
<1>11. SlotsAgree(pr, tab, target[p])
  <2>1. \A u \in Thread : tab[u].state = "UNUSED" => tab[u].kstack = 0
    BY <1>3, <1>8 DEF ProcessOK, SlotsAgree
  <2>2. \A u \in Thread \ {0} : tab[u].state # "EMBRYO" /\ tab[u].pc # "join"
    BY <1>3, <1>8 DEF ProcessOK, SlotsAgree
  <2>. QED BY <1>5, <1>8, <2>1, <2>2 DEF SlotsAgree
<1>12. ProcessOK(pr, tab, target[p])
  BY <1>3, <1>5, <1>6, <1>8, <1>9, <1>10, <1>11 DEF ProcessOK, JoinOK, CurrentOK
<1>13. CpusOK'
  <2>1. \A q \in Proc : proc'[q].state = "RUNNING" <=> proc[q].state = "RUNNING"
    BY <1>2, <1>5 DEF Parts, Tables
  <2>. QED BY <1>2, <2>1, KeepCpus DEF Parts, CpusOK
<1>14. Held(tab) = Held(thr[p])
  BY <1>8 DEF Held
<1>15. target' = [target EXCEPT ![p] = target[p]]
  BY <1>2 DEF Parts, Tables
<1>. QED BY <1>2, <1>12, <1>13, <1>14, <1>15, SameStacks

LEMMA ReapStep ==
  ASSUME Parts, NEW p \in Proc, Reap(p)
  PROVE  Parts'
<1>. USE ConstantFacts
<1>. DEFINE tab == Cleared(p)
            r == proc[p]
            pool == [i \in Thread |-> IF i < NTHREAD - 1 THEN 0 ELSE r.pool[i]]
            pr == [r EXCEPT !.state = "UNUSED", !.kstack = 0, !.killed = 0, !.pool = pool]
<1>1. /\ thr' = [thr EXCEPT ![p] = tab] /\ proc' = [proc EXCEPT ![p] = pr]
      /\ used' = used \ {thr[p][t].kstack : t \in Thread}
      /\ target' = [target EXCEPT ![p] = 0] /\ UNCHANGED <<cpuVars, lock, broken>>
      /\ r.state = "ZOMBIE"
  <2>1. /\ thr' = [thr EXCEPT ![p] = tab] /\ r.state = "ZOMBIE"
        /\ used' = used \ {thr[p][t].kstack : t \in Thread}
        /\ target' = [target EXCEPT ![p] = 0] /\ UNCHANGED <<cpuVars, lock, broken>>
    BY DEF Reap
  <2>2. proc' = [proc EXCEPT ![p] = pr]
    BY DEF Reap
  <2>. QED BY <2>1, <2>2
<1>2. /\ ProcessOK(r, thr[p], target[p]) /\ r \in ProcType
  BY DEF Parts, ProcessOK
<1>3. pr \in ProcType /\ pr.state = "UNUSED"
  <2>1. pool \in [Thread -> 0..MaxSz]
    BY <1>2 DEF ProcType
  <2>2. pr = [r EXCEPT !.state = "UNUSED", !.kstack = 0, !.killed = 0, !.pool = pool]
    OBVIOUS
  <2>. HIDE DEF r, pr, pool
  <2>. QED BY <1>2, <2>1, <2>2 DEF ProcType
<1>. HIDE DEF tab, pr
<1>4. /\ tab \in [Thread -> ThreadType]
      /\ \A u \in Thread : /\ tab[u].state = "UNUSED" /\ tab[u].tid = 0
                           /\ tab[u].kstack = 0
                           /\ u # 0 => tab[u].pc # "join"
  BY ClearedFacts DEF tab
<1>5. ProcessOK(pr, tab, 0)
  <2>1. TidsOK(tab) /\ OwnStacks(tab) /\ JoinOK(tab, 0) /\ CurrentOK(pr, tab)
    BY <1>3, <1>4 DEF TidsOK, OwnStacks, JoinOK, CurrentOK
  <2>2. SlotsAgree(pr, tab, 0)
    BY <1>3, <1>4 DEF SlotsAgree
  <2>. QED BY <1>3, <1>4, <2>1, <2>2 DEF ProcessOK
<1>6. CpusOK'
  <2>1. \A q \in Proc : proc'[q].state = "RUNNING" <=> proc[q].state = "RUNNING"
    BY <1>1, <1>3 DEF Parts, Tables
  <2>. QED BY <1>1, <2>1, KeepCpus DEF Parts, CpusOK
<1>7. Held(tab) = {}
  BY <1>4 DEF Held
<1>8. used' = used \ Held(thr[p])
  <2>1. 0 \notin used
    BY DEF Parts, StacksOK
  <2>2. \A s \in Thread : thr[p][s].state = "UNUSED" => thr[p][s].kstack = 0
    BY <1>2 DEF ProcessOK, SlotsAgree
  <2>. QED BY <1>1, <2>1, <2>2 DEF Held
<1>. QED BY <1>1, <1>5, <1>6, <1>7, <1>8, ProcessStep

\* Threads that wakeup1 or kill makes RUNNABLE.
LEMMA WokenFacts ==
  ASSUME Parts, NEW p \in Proc, NEW chans \in SUBSET {"event", "join"},
         NEW pr \in ProcType, pr.state = proc[p].state, pr.cur = proc[p].cur,
         pr.kstack = proc[p].kstack
  PROVE  /\ ProcessOK(pr, Woken(thr[p], chans), target[p])
         /\ Held(Woken(thr[p], chans)) = Held(thr[p])
<1>. USE ConstantFacts
<1>. DEFINE tab == Woken(thr[p], chans)
<1>1. ProcessOK(proc[p], thr[p], target[p]) /\ thr[p] \in [Thread -> ThreadType]
  BY DEF Parts, ProcessOK
<1>2. ASSUME NEW u \in Thread
      PROVE  /\ tab[u] \in ThreadType /\ tab[u].tid = thr[p][u].tid
             /\ tab[u].kstack = thr[p][u].kstack /\ tab[u].pc = thr[p][u].pc
             /\ \/ tab[u].state = thr[p][u].state
                \/ thr[p][u].state = "SLEEPING" /\ tab[u].state = "RUNNABLE"
  <2>. DEFINE r == thr[p][u]
              s == [r EXCEPT !.state = "RUNNABLE"]
  <2>1. /\ s \in ThreadType /\ s.state = "RUNNABLE"
        /\ s.tid = r.tid /\ s.kstack = r.kstack /\ s.pc = r.pc
    <3>1. r \in ThreadType
      BY <1>1
    <3>. HIDE DEF r
    <3>. QED BY <3>1 DEF ThreadType
  <2>2. tab[u] = IF r.state = "SLEEPING" /\ r.pc \in chans THEN s ELSE r
    BY DEF Woken
  <2>3. r \in ThreadType
    BY <1>1
  <2>. HIDE DEF s, tab
  <2>. QED BY <2>1, <2>2, <2>3
<1>3. tab \in [Thread -> ThreadType]
  <2>1. tab = [u \in Thread |-> tab[u]]
    BY DEF Woken
  <2>. HIDE DEF tab
  <2>. QED BY <1>2, <2>1
<1>. HIDE DEF tab
<1>4. /\ \A u \in Thread : tab[u].state # "UNUSED" <=> thr[p][u].state # "UNUSED"
      /\ \A u \in Thread : thr[p][u].state \in {"RUNNABLE", "SLEEPING"} =>
           tab[u].state \in {"RUNNABLE", "SLEEPING"}
  BY <1>2
<1>5. target[p] = NTHREAD \/ target[p] \in Thread
  BY <1>1 DEF ProcessOK
<1>6. TidsOK(tab)
  BY <1>1, <1>2, <1>4 DEF ProcessOK, TidsOK
<1>7. OwnStacks(tab)
  <2>1. OwnStacks(thr[p])
    BY <1>1 DEF ProcessOK
  <2>. QED BY <1>2, <1>4, <2>1 DEF OwnStacks
<1>8. JoinOK(tab, target[p])
  <2>1. JoinOK(thr[p], target[p])
    BY <1>1 DEF ProcessOK
  <2>2. tab[0].state = "SLEEPING" /\ tab[0].pc = "join" =>
          thr[p][0].state = "SLEEPING" /\ thr[p][0].pc = "join"
    BY <1>2
  <2>. QED BY <1>4, <1>5, <2>1, <2>2 DEF JoinOK
<1>9. CurrentOK(pr, tab)
  <2>1. proc[p].cur \in Thread /\ CurrentOK(proc[p], thr[p])
    BY <1>1 DEF ProcessOK, ProcType
  <2>. QED BY <1>2, <2>1 DEF CurrentOK
<1>10. SlotsAgree(pr, tab, target[p])
  <2>1. \A u \in Thread : tab[u].state = "UNUSED" => tab[u].kstack = 0
    BY <1>1, <1>2, <1>4 DEF ProcessOK, SlotsAgree
  <2>2. \A u \in Thread \ {0} : tab[u].state # "EMBRYO" /\ tab[u].pc # "join"
    BY <1>1, <1>2 DEF ProcessOK, SlotsAgree
  <2>3. /\ pr.state = "UNUSED" => \A u \in Thread : tab[u].state = "UNUSED"
        /\ pr.state = "EMBRYO" => tab[0].state = "EMBRYO"
    BY <1>1, <1>2, <1>4 DEF ProcessOK, SlotsAgree
  <2>4. pr.state \in {"RUNNABLE", "RUNNING", "ZOMBIE"} =>
          /\ tab[0].state \in {"RUNNABLE", "SLEEPING"}
          /\ tab[0].pc = "join" => target[p] = NTHREAD \/
               tab[target[p]].state \in {"RUNNABLE", "SLEEPING", "ZOMBIE"}
    <3>1. pr.state \in {"RUNNABLE", "RUNNING", "ZOMBIE"} =>
            /\ thr[p][0].state \in {"RUNNABLE", "SLEEPING"}
            /\ thr[p][0].pc = "join" => target[p] = NTHREAD \/
                 thr[p][target[p]].state \in {"RUNNABLE", "SLEEPING", "ZOMBIE"}
      BY <1>1 DEF ProcessOK, SlotsAgree
    <3>. QED BY <1>2, <1>4, <1>5, <3>1
  <2>. QED BY <2>1, <2>2, <2>3, <2>4 DEF SlotsAgree
<1>11. Held(tab) = Held(thr[p])
  BY <1>2, <1>4 DEF Held
<1>12. target[p] \in 0..NTHREAD
  BY <1>1 DEF ProcessOK
<1>. QED BY <1>3, <1>6, <1>7, <1>8, <1>9, <1>10, <1>11, <1>12 DEF ProcessOK, tab

LEMMA KillStep ==
  ASSUME Parts, NEW p \in Proc, Kill(p)
  PROVE  Parts'
<1>. DEFINE r == proc[p]
            pr == [r EXCEPT !.killed = 1]
            tab == Woken(thr[p], {"event", "join"})
<1>1. /\ proc' = [proc EXCEPT ![p] = pr] /\ thr' = [thr EXCEPT ![p] = tab]
      /\ UNCHANGED <<target, cpuVars, lock, used, broken>>
  BY DEF Kill
<1>2. /\ pr \in ProcType /\ pr.state = r.state /\ pr.cur = r.cur /\ pr.kstack = r.kstack
  <2>1. r \in ProcType
    BY DEF Parts, ProcessOK
  <2>. HIDE DEF r
  <2>. QED BY <2>1 DEF ProcType
<1>. HIDE DEF pr
<1>3. ProcessOK(pr, tab, target[p]) /\ Held(tab) = Held(thr[p])
  BY <1>2, WokenFacts
<1>4. CpusOK'
  <2>1. \A q \in Proc : proc'[q].state = proc[q].state
    BY <1>1, <1>2 DEF Parts, Tables
  <2>. QED BY <1>1, <2>1, KeepCpus DEF Parts, CpusOK
<1>5. target' = [target EXCEPT ![p] = target[p]]
  BY <1>1 DEF Parts, Tables
<1>. QED BY <1>1, <1>3, <1>4, <1>5, SameStacks

LEMMA WakeupStep ==
  ASSUME Parts, Wakeup
  PROVE  Parts'
<1>1. /\ thr' = [p \in Proc |-> Woken(thr[p], {"event"})]
      /\ UNCHANGED <<proc, target, cpuVars, lock, used, broken>>
  BY DEF Wakeup
<1>2. \A p \in Proc : /\ ProcessOK(proc'[p], thr'[p], target'[p])
                      /\ Held(thr'[p]) = Held(thr[p])
  <2>1. ASSUME NEW p \in Proc
        PROVE  LET tab == Woken(thr[p], {"event"})
               IN ProcessOK(proc[p], tab, target[p]) /\ Held(tab) = Held(thr[p])
    <3>1. proc[p] \in ProcType
      BY DEF Parts, ProcessOK
    <3>. QED BY <3>1, WokenFacts
  <2>. QED BY <1>1, <2>1
<1>3. CpusOK'
  BY <1>1, KeepCpus DEF Parts, CpusOK
<1>4. Tables'
  BY <1>1 DEF Parts, Tables
<1>5. StacksOK'
  <2>1. used' = UNION {Held(thr'[p]) : p \in Proc}
    BY <1>1, <1>2 DEF Parts, StacksOK
  <2>2. \A p, q \in Proc : p # q => Held(thr'[p]) \intersect Held(thr'[q]) = {}
    BY <1>2 DEF Parts, StacksOK
  <2>. QED BY <1>1, <2>1, <2>2 DEF Parts, StacksOK, Held
<1>. QED BY <1>2, <1>3, <1>4, <1>5
     DEF Parts, ProcessOK, TidsOK, OwnStacks, JoinOK, CurrentOK

----------------------------------------------------------------------------
(* The invariant.                                                          *)

LEMMA InitParts == Init => Parts
<1>. USE ConstantFacts
<1>. SUFFICES ASSUME Init PROVE Parts
  OBVIOUS
<1>1. Tables /\ CpusOK
  BY DEF Init, Tables, CpusOK, UnusedProc
<1>2. ASSUME NEW p \in Proc PROVE ProcessOK(proc[p], thr[p], target[p]) /\ Held(thr[p]) = {}
  <2>1. proc[p] = UnusedProc /\ thr[p] = [t \in Thread |-> UnusedThread] /\ target[p] = 0
    BY DEF Init
  <2>2. UnusedProc \in ProcType /\ UnusedThread \in ThreadType
    BY DEF UnusedProc, UnusedThread, ProcType, ThreadType
  <2>3. TidsOK(thr[p]) /\ OwnStacks(thr[p]) /\ Held(thr[p]) = {}
    BY <2>1 DEF UnusedThread, TidsOK, OwnStacks, Held
  <2>4. /\ JoinOK(thr[p], target[p]) /\ CurrentOK(proc[p], thr[p])
        /\ SlotsAgree(proc[p], thr[p], target[p])
    BY <2>1 DEF UnusedThread, UnusedProc, JoinOK, CurrentOK, SlotsAgree
  <2>. QED BY <2>1, <2>2, <2>3, <2>4 DEF ProcessOK
<1>3. StacksOK
  BY <1>2 DEF Init, StacksOK
<1>. QED BY <1>1, <1>2, <1>3 DEF Parts

LEMMA NextParts == Parts /\ [Next]_vars => Parts'
<1>. SUFFICES ASSUME Parts, [Next]_vars PROVE Parts'
  OBVIOUS
<1>1. ASSUME NEW c \in Cpu, NEW p \in Proc, NEW t \in Thread, Step(c, p, t)
      PROVE  Parts'
  <2>1. CASE Create(c, p, t)
    <3>1. CASE CreateFresh(c, p, t)
      BY <3>1, CreateFreshStep
    <3>2. CASE CreateRecycled(c, p, t)
      BY <3>2, CreateRecycledStep
    <3>3. CASE CreateDead(c, p, t) \/ CreateBad(c, p, t) \/ CreateNoMem(c, p, t)
      BY <3>3, BreakStep DEF CreateDead, CreateBad, CreateNoMem
    <3>. QED BY <2>1, <3>1, <3>2, <3>3 DEF Create
  <2>2. CASE ThreadExit(c, p, t)
    BY <2>2, ThreadExitStep
  <2>3. CASE MainExit(c, p, t)
    BY <2>3, MainExitStep
  <2>4. CASE Join(c, p, t)
    BY <2>4, JoinStep
  <2>5. CASE EventSleep(c, p, t)
    BY <2>5, EventSleepStep
  <2>6. CASE EventReturn(c, p, t)
    BY <2>6, EventReturnStep
  <2>7. CASE Sbrk(c, p, t)
    BY <2>7, SbrkStep
  <2>8. CASE Exec(c, p, t)
    BY <2>8, ExecStep
  <2>9. CASE Exit(c, p, t)
    BY <2>9, ExitStep
  <2>10. CASE Timer(c, p, t)
    BY <2>10, TimerStep
  <2>11. CASE LeakPanic(c, p, t)
    BY <2>11, BreakStep DEF LeakPanic
  <2>. QED BY <1>1, <2>1, <2>2, <2>3, <2>4, <2>5, <2>6, <2>7, <2>8, <2>9, <2>10, <2>11 DEF Step
<1>2. ASSUME NEW c \in Cpu, NEW p \in Proc, Dispatch(c, p) PROVE Parts'
  BY <1>2, DispatchStep
<1>3. ASSUME NEW c \in Cpu, StaleYield(c) PROVE Parts'
  BY <1>3, BreakStep DEF StaleYield
<1>4. ASSUME NEW p \in Proc,
             Alloc(p) \/ ForkStart(p) \/ ForkFail(p) \/ Reap(p) \/ Kill(p) \/ SetMemoryLimit(p)
      PROVE  Parts'
  <2>1. CASE Alloc(p)
    BY <2>1, AllocStep
  <2>2. CASE ForkStart(p)
    BY <2>2, ForkStartStep
  <2>3. CASE ForkFail(p)
    BY <2>3, BreakStep DEF ForkFail
  <2>4. CASE Reap(p)
    BY <2>4, ReapStep
  <2>5. CASE Kill(p)
    BY <2>5, KillStep
  <2>6. CASE SetMemoryLimit(p)
    BY <2>6, SetMemoryLimitStep
  <2>. QED BY <1>4, <2>1, <2>2, <2>3, <2>4, <2>5, <2>6
<1>5. CASE Wakeup
  BY <1>5, WakeupStep
<1>6. CASE UNCHANGED vars
  <2>1. CpusOK'
    BY <1>6 DEF vars, procVars, cpuVars, Parts, CpusOK
  <2>. QED BY <1>6, <2>1, SameTables DEF vars
<1>. QED BY <1>1, <1>2, <1>3, <1>4, <1>5, <1>6 DEF Next

\* The process table, the thread tables, the CPUs and the kernel stacks agree in
\* every reachable state, for any number of each: what scheduler, sched,
\* thread_create, thread_exit, thread_join, exec, exit and wait rely on.
THEOREM LwpInvariant == Spec => []Inv
<1>1. Init => Inv
  BY InitParts, InvParts
<1>2. Inv /\ [Next]_vars => Inv'
  <2>1. Inv => Parts
    BY InvParts
  <2>2. Parts' => Inv'
    BY InvParts, PTL
  <2>. QED BY <2>1, <2>2, NextParts
<1>. QED BY <1>1, <1>2, PTL DEF Spec

\* No kernel stack leaks, is freed under a thread or is shared by two threads,
\* whatever the order of creation, join, exec, exit and wait.
THEOREM LwpKernelStacks == Spec => []KernelStacksOwned
<1>1. Inv => KernelStacksOwned
  BY DEF Inv
<1>. QED BY <1>1, LwpInvariant, PTL

\* thread_exit cannot fall between the test and the sleep of thread_join, nor can
\* exec or exit take the thread away that the main thread waits for.
THEOREM LwpJoinWakeup == Spec => []NoLostThreadWakeup
<1>1. Inv => NoLostThreadWakeup
  BY DEF Inv
<1>. QED BY <1>1, LwpInvariant, PTL

\* Two CPUs never run the same process, and a CPU in a thread is on the kernel
\* stack of a RUNNABLE thread.
THEOREM LwpRunningThread == Spec => []RunningThread
<1>1. Inv => RunningThread
  BY DEF Inv
<1>. QED BY <1>1, LwpInvariant, PTL

=============================================================================

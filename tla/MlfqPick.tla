------------------------------ MODULE MlfqPick ------------------------------
(***************************************************************************)
(* The scan of the process table by which scheduler() of project01 chooses *)
(* the process to run when the scheduler is not locked, one loop iteration *)
(* per step.  ptable.lock is held, so the table does not change; every     *)
(* table is an initial state.  Mlfq takes the result of the scan in one    *)
(* step as the process preferred to all other RUNNABLE ones; ScanPicksBest *)
(* is what justifies it.                                                   *)
(***************************************************************************)
EXTENDS MlfqOrder

CONSTANTS
  NPROC,         \* size of the process table
  MaxPriority,   \* largest priority
  MaxTicks,      \* BOUND: largest time in a table
  NULL           \* the null pointer

Proc == 1..NPROC

ASSUME PickConstants == NPROC \in Nat /\ MaxPriority \in Nat
                        /\ MaxTicks \in Nat /\ NULL \notin Proc

VARIABLES
  runnable,      \* the slots whose state is RUNNABLE
  q_lv, priority, time,
  p,             \* the loop variable, NPROC + 1 when the loop is over
  running_p,     \* the process chosen so far
  chk            \* 1 when one was chosen

table == <<runnable, q_lv, priority, time>>
vars == <<table, p, running_p, chk>>

Init ==
  /\ runnable \in SUBSET Proc
  /\ q_lv \in [Proc -> Level]
  /\ priority \in [Proc -> 0..MaxPriority]
  /\ time \in [Proc -> -1..MaxTicks]
  /\ p = 1
  /\ running_p = NULL
  /\ chk = 0

\* (mutant) ties go to the later slot.
MutReplaces ==
  IF chk = 0 \/ q_lv[running_p] > q_lv[p] THEN TRUE
  ELSE IF q_lv[running_p] # q_lv[p] THEN FALSE
  ELSE IF q_lv[running_p] = LastLevel
  THEN \/ priority[running_p] > priority[p]
       \/ priority[running_p] = priority[p] /\ time[running_p] >= time[p]
  ELSE time[running_p] >= time[p]

\* The comparisons of the loop body in the order they are made; the first
\* one is what makes the others safe to evaluate.
Replaces ==
  IF chk = 0 \/ q_lv[running_p] > q_lv[p] THEN TRUE
  ELSE IF q_lv[running_p] # q_lv[p] THEN FALSE
  ELSE IF q_lv[running_p] = LastLevel
  THEN \/ priority[running_p] > priority[p]
       \/ priority[running_p] = priority[p] /\ time[running_p] > time[p]
  ELSE time[running_p] > time[p]

ScanSlot ==
  /\ p \in Proc
  /\ IF p \in runnable /\ Replaces
     THEN running_p' = p /\ chk' = 1
     ELSE UNCHANGED <<running_p, chk>>
  /\ p' = p + 1
  /\ UNCHANGED table

Spec == Init /\ [][ScanSlot]_vars

----------------------------------------------------------------------------
TypeOK ==
  /\ runnable \subseteq Proc
  /\ q_lv \in [Proc -> Level]
  /\ priority \in [Proc -> 0..MaxPriority]
  /\ time \in [Proc -> -1..MaxTicks]
  /\ p \in 1..(NPROC + 1)
  /\ running_p \in Proc \union {NULL}
  /\ chk \in {0, 1}

Better(a, b) == Preferred(q_lv, priority, time, a, b)

\* When the loop ends, a process has been chosen exactly if one is RUNNABLE,
\* and it is RUNNABLE and preferred to every other RUNNABLE one.
ScanPicksBest ==
  p = NPROC + 1 =>
    /\ chk = 1 <=> runnable # {}
    /\ chk = 1 => /\ running_p \in runnable
                  /\ \A r \in runnable \ {running_p} : Better(running_p, r)

\* The same of the slots already seen: the loop invariant behind it.
BestSoFar ==
  /\ chk = 0 => \A r \in runnable : r >= p
  /\ chk = 1 => /\ running_p \in runnable /\ running_p < p
                /\ \A r \in runnable : r < p => r = running_p \/ Better(running_p, r)

=============================================================================

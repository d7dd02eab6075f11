----------------------------- MODULE MlfqOrder -----------------------------
(***************************************************************************)
(* The order in which scheduler() of project01 prefers RUNNABLE processes. *)
(* The table scan compares the process found so far with the next slot by  *)
(* strict comparisons only, so among equals the earlier slot stays chosen: *)
(* that is the last line of Preferred.                                     *)
(***************************************************************************)
EXTENDS Integers

Level == 0..2
LastLevel == 2

\* Slot a is preferred to slot b, given the levels, priorities and times of
\* all slots: the lower level first, in L2 the smaller priority value, then
\* the earlier time, then the earlier slot.
Preferred(lv, prio, tm, a, b) ==
  \/ lv[a] < lv[b]
  \/ /\ lv[a] = lv[b]
     /\ \/ lv[a] = LastLevel /\ prio[a] < prio[b]
        \/ /\ lv[a] = LastLevel => prio[a] = prio[b]
           /\ \/ tm[a] < tm[b]
              \/ tm[a] = tm[b] /\ a < b

=============================================================================

----------------------------- MODULE AtomicDisk -----------------------------
(***************************************************************************)
(* What the log promises to the file system: a disk whose contents move    *)
(* from one quiet moment to the next, when no operation is in progress.    *)
(* A crash takes it back to the last of these moments, so that the writes  *)
(* of an operation survive together or not at all.                         *)
(***************************************************************************)
CONSTANTS Op, Block, Val

VARIABLES
  now,        \* contents that the operations see
  durable,    \* contents that survive a crash
  active      \* operations in progress

vars == <<now, durable, active>>

Init ==
  /\ now \in [Block -> Val]
  /\ durable = now
  /\ active = {}

Begin(p) ==
  /\ p \notin active
  /\ active' = active \union {p}
  /\ UNCHANGED <<now, durable>>

Write(p, b, v) ==
  /\ p \in active
  /\ now' = [now EXCEPT ![b] = v]
  /\ UNCHANGED <<durable, active>>

End(p) ==
  /\ p \in active
  /\ active' = active \ {p}
  /\ UNCHANGED <<now, durable>>

Commit ==
  /\ active = {}
  /\ durable' = now
  /\ UNCHANGED <<now, active>>

Crash ==
  /\ now' = durable
  /\ active' = {}
  /\ UNCHANGED durable

Next ==
  \/ \E p \in Op : Begin(p) \/ End(p)
  \/ \E p \in Op, b \in Block, v \in Val : Write(p, b, v)
  \/ Commit \/ Crash

Spec == Init /\ [][Next]_vars

=============================================================================

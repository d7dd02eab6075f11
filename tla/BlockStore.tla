------------------------------ MODULE BlockStore ------------------------------
(***************************************************************************)
(* What bread, bwrite and brelse promise their callers: every block has    *)
(* one content, one holder at a time sees it and changes it, and only what *)
(* the holder of a block left there reaches the disk.                      *)
(***************************************************************************)
CONSTANTS Client, Block, Val, NULL

VARIABLES
  content,       \* the value of every block that a reader will see
  durable,       \* the value of every block on the disk
  holder,        \* the client that has the block, or NULL
  seen           \* what the client found in the block it holds, or NULL

vars == <<content, durable, holder, seen>>

Init ==
  /\ content \in [Block -> Val] /\ durable = content
  /\ holder = [b \in Block |-> NULL] /\ seen = [c \in Client |-> NULL]

Acquire(c, b) ==
  /\ holder[b] = NULL /\ seen[c] = NULL
  /\ holder' = [holder EXCEPT ![b] = c]
  /\ seen' = [seen EXCEPT ![c] = content[b]]
  /\ UNCHANGED <<content, durable>>

Change(c, b, v) ==
  /\ holder[b] = c
  /\ content' = [content EXCEPT ![b] = v]
  /\ UNCHANGED <<durable, holder, seen>>

Persist(b) ==
  /\ holder[b] # NULL
  /\ durable' = [durable EXCEPT ![b] = content[b]]
  /\ UNCHANGED <<content, holder, seen>>

Release(c, b) ==
  /\ holder[b] = c
  /\ holder' = [holder EXCEPT ![b] = NULL]
  /\ seen' = [seen EXCEPT ![c] = NULL]
  /\ UNCHANGED <<content, durable>>

Next ==
  \E b \in Block :
    \/ Persist(b)
    \/ \E c \in Client : Acquire(c, b) \/ Release(c, b)
                         \/ \E v \in Val : Change(c, b, v)

Spec == Init /\ [][Next]_vars

=============================================================================

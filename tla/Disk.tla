--------------------------------- MODULE Disk ---------------------------------
(***************************************************************************)
(* The buffer cache of bio.c, the sleep locks of sleeplock.c and the disk  *)
(* driver of ide.c with the drive behind it.                               *)
(*                                                                         *)
(* A step is what happens between two points where a process may be        *)
(* preempted: bcache.lock, the lock of one sleep lock or idelock is held   *)
(* from its begin to its end.  A client is a process in the kernel that    *)
(* uses one buffer at a time.  The drive reports no errors.                *)
(***************************************************************************)
EXTENDS Integers, Sequences, FiniteSets

CONSTANTS
  Client, Block, Val,
  NBUF,          \* buffers in the cache
  MaxPinned,     \* BOUND: blocks that the log keeps dirty in the cache
  None

ASSUME DiskConstants ==
  /\ NBUF \in Nat \ {0} /\ MaxPinned \in Nat
  /\ IsFiniteSet(Client)
  /\ None \notin Client \union Block \union Val \union (1..NBUF)

Buf == 1..NBUF

VARIABLES
  blockno,       \* the block of every buffer, None before its first use
  refcnt, data,  \* fields of struct buf
  valid, dirty,  \* the buffers with B_VALID, with B_DIRTY
  lock,          \* the client that has the sleep lock of the buffer, or None
  lru,           \* the list of the buffers, most recently used first
  idequeue,      \* the buffers that wait for the disk
  drive,         \* the command that the drive executes
  disk,          \* the blocks on the disk
  pc, want, at,  \* where a client is, the block it asked for, its buffer
  seen,          \* what it found in its block, None before
  panicked

cacheVars == <<blockno, refcnt, lru>>
ioVars == <<idequeue, drive, disk>>
dataVars == <<valid, dirty, data>>
clientVars == <<pc, want, at, seen>>
diskvars == <<cacheVars, ioVars, dataVars, lock, clientVars, panicked>>

Idle == [state |-> "idle", write |-> FALSE, block |-> None, data |-> None]

\* binit puts every buffer before the others.
DiskInit ==
  /\ blockno = [u \in Buf |-> None] /\ refcnt = [u \in Buf |-> 0]
  /\ \E v \in Val : data = [u \in Buf |-> v]
  /\ valid = {} /\ dirty = {}
  /\ lock = [u \in Buf |-> None]
  /\ lru = [i \in Buf |-> NBUF + 1 - i]
  /\ idequeue = <<>> /\ drive = Idle
  /\ disk \in [Block -> Val]
  /\ pc = [c \in Client |-> "idle"]
  /\ want = [c \in Client |-> None] /\ at = [c \in Client |-> None]
  /\ seen = [c \in Client |-> None]
  /\ panicked = 0

----------------------------------------------------------------------------
(* The buffer cache.                                                       *)

At(c, l) == panicked = 0 /\ pc[c] = l
Go(c, l) == pc' = [pc EXCEPT ![c] = l]

\* Places in the list: of the buffers that have the block, of those that
\* may be given another one.
Hits(b) == {i \in Buf : blockno[lru[i]] = b}

\* (mutant) a buffer that the log has pinned is taken.
MutUnused == {i \in Buf : refcnt[lru[i]] = 0}

Unused == {i \in Buf : refcnt[lru[i]] = 0 /\ lru[i] \notin dirty}

\* The first hit from the front of the list, ...
BgetHit(c, b) ==
  /\ \E i \in Hits(b) :
       /\ \A j \in Hits(b) : i <= j
       /\ refcnt' = [refcnt EXCEPT ![lru[i]] = @ + 1]
       /\ at' = [at EXCEPT ![c] = lru[i]]
  /\ UNCHANGED <<blockno, dataVars>>

\* ... or the first unused buffer from its end.
BgetRecycle(c, b) ==
  /\ Hits(b) = {}
  /\ \E i \in Unused :
       /\ \A j \in Unused : j <= i
       /\ blockno' = [blockno EXCEPT ![lru[i]] = b]
       /\ valid' = valid \ {lru[i]} /\ dirty' = dirty \ {lru[i]}
       /\ refcnt' = [refcnt EXCEPT ![lru[i]] = 1]
       /\ at' = [at EXCEPT ![c] = lru[i]]
  /\ UNCHANGED data

Bget(c, b) ==
  /\ At(c, "idle")
  /\ BgetHit(c, b) \/ BgetRecycle(c, b)
  /\ want' = [want EXCEPT ![c] = b]
  /\ Go(c, "lock")
  /\ UNCHANGED <<lru, ioVars, lock, seen, panicked>>

\* panic("bget: no buffers").
NoBuffers(c, b) ==
  /\ At(c, "idle") /\ Hits(b) = {} /\ Unused = {}
  /\ panicked' = 1
  /\ UNCHANGED <<cacheVars, ioVars, dataVars, lock, clientVars>>

\* acquiresleep, on entry or woken up; then bread looks at B_VALID.
Locked(u) == lock[u] # None

AcquireSleep(c) ==
  /\ At(c, "lock")
  /\ IF Locked(at[c])
     THEN /\ Go(c, "asleep")
          /\ UNCHANGED <<lock, seen>>
     ELSE /\ lock' = [lock EXCEPT ![at[c]] = c]
          /\ IF at[c] \in valid
             THEN /\ Go(c, "own")
                  /\ seen' = [seen EXCEPT ![c] = data[at[c]]]
             ELSE Go(c, "iderw") /\ UNCHANGED seen
  /\ UNCHANGED <<cacheVars, ioVars, dataVars, want, at, panicked>>

\* The holder changes the block, and writes it through or hands it to
\* log_write, which pins it.
Change(c, v) ==
  /\ data' = [data EXCEPT ![at[c]] = v]
  /\ dirty' = dirty \union {at[c]}

Bwrite(c, v) ==
  /\ At(c, "own")
  /\ Change(c, v)
  /\ Go(c, "iderw")
  /\ UNCHANGED <<cacheVars, ioVars, valid, lock, want, at, seen, panicked>>

LogWrite(c, v) ==
  /\ At(c, "own") /\ Cardinality(dirty \union {at[c]}) <= MaxPinned
  /\ Change(c, v)
  /\ UNCHANGED <<cacheVars, ioVars, valid, lock, clientVars, panicked>>

\* brelse: releasesleep, which wakes who sleeps for the lock ...
Releasesleep(c) ==
  /\ At(c, "own")
  /\ lock' = [lock EXCEPT ![at[c]] = None]
  /\ pc' = [d \in Client |-> IF d = c THEN "unref"
                             ELSE IF pc[d] = "asleep" /\ at[d] = at[c] THEN "lock"
                             ELSE pc[d]]
  /\ seen' = [seen EXCEPT ![c] = None]
  /\ UNCHANGED <<cacheVars, ioVars, dataVars, want, at, panicked>>

\* ... and the count; the last user moves the buffer to the front.
ToFront(u) ==
  [i \in Buf |-> IF i = 1 THEN u
                 ELSE IF \E j \in i..NBUF : lru[j] = u THEN lru[i - 1]
                 ELSE lru[i]]

Unref(c) ==
  /\ At(c, "unref")
  /\ refcnt' = [refcnt EXCEPT ![at[c]] = @ - 1]
  /\ lru' = IF refcnt[at[c]] = 1 THEN ToFront(at[c]) ELSE lru
  /\ Go(c, "idle")
  /\ want' = [want EXCEPT ![c] = None] /\ at' = [at EXCEPT ![c] = None]
  /\ UNCHANGED <<blockno, ioVars, dataVars, lock, seen, panicked>>

----------------------------------------------------------------------------
(* The driver and the drive.                                               *)

\* idestart: the drive gets the command, and the data of a write.
Idestart(u) ==
  [state |-> "busy", write |-> u \in dirty, block |-> blockno[u], data |-> data[u]]

Iderw(c) ==
  /\ At(c, "iderw")
  /\ idequeue' = Append(idequeue, at[c])
  /\ drive' = IF idequeue = <<>> THEN Idestart(at[c]) ELSE drive
  /\ Go(c, "io")
  /\ UNCHANGED <<cacheVars, disk, dataVars, lock, want, at, seen, panicked>>

\* The drive executes its command and raises the interrupt.
DriveDone ==
  /\ drive.state = "busy" /\ panicked = 0
  /\ disk' = IF drive.write THEN [disk EXCEPT ![drive.block] = drive.data] ELSE disk
  /\ drive' = [drive EXCEPT !.state = "done", !.data = disk'[drive.block]]
  /\ UNCHANGED <<cacheVars, idequeue, dataVars, lock, clientVars, panicked>>

\* (mutant) the interrupt does not start the next request.
MutStartNext(q) == Idle

StartNext(q) == IF q = <<>> THEN Idle ELSE Idestart(Head(q))

Ideintr ==
  /\ drive.state = "done" /\ panicked = 0
  /\ LET u == Head(idequeue)
     IN /\ data' = IF u \in dirty THEN data ELSE [data EXCEPT ![u] = drive.data]
        /\ valid' = valid \union {u} /\ dirty' = dirty \ {u}
        /\ pc' = [c \in Client |-> IF pc[c] = "io" /\ at[c] = u THEN "awake" ELSE pc[c]]
  /\ idequeue' = Tail(idequeue)
  /\ drive' = StartNext(idequeue')
  /\ UNCHANGED <<cacheVars, disk, lock, want, at, seen, panicked>>

\* The loop at the end of iderw: the request is finished.
Awake(c) ==
  /\ At(c, "awake") /\ at[c] \in valid \ dirty
  /\ Go(c, "own")
  /\ seen' = [seen EXCEPT ![c] = IF @ = None THEN data[at[c]] ELSE @]
  /\ UNCHANGED <<cacheVars, ioVars, dataVars, lock, want, at, panicked>>

DiskNext ==
  \/ DriveDone \/ Ideintr
  \/ \E c \in Client :
       \/ AcquireSleep(c) \/ Releasesleep(c) \/ Unref(c) \/ Iderw(c) \/ Awake(c)
       \/ \E b \in Block : Bget(c, b) \/ NoBuffers(c, b)
       \/ \E v \in Val : Bwrite(c, v) \/ LogWrite(c, v)

DiskSpec == DiskInit /\ [][DiskNext]_diskvars

\* The drive answers, its interrupt is taken, and a process that has a
\* request to queue or to finish runs.
DiskFairness ==
  /\ WF_diskvars(DriveDone) /\ WF_diskvars(Ideintr)
  /\ \A c \in Client : WF_diskvars(Iderw(c)) /\ WF_diskvars(Awake(c))

----------------------------------------------------------------------------
(* Properties.                                                             *)

Pc == {"idle", "lock", "asleep", "iderw", "io", "awake", "own", "unref"}

DiskTypeOK ==
  /\ blockno \in [Buf -> Block \union {None}] /\ refcnt \in [Buf -> Nat]
  /\ data \in [Buf -> Val] /\ valid \subseteq Buf /\ dirty \subseteq Buf
  /\ lock \in [Buf -> Client \union {None}] /\ lru \in [Buf -> Buf]
  /\ idequeue \in Seq(Buf) /\ disk \in [Block -> Val]
  /\ drive \in [state : {"idle", "busy", "done"}, write : BOOLEAN,
                block : Block \union {None}, data : Val \union {None}]
  /\ pc \in [Client -> Pc] /\ seen \in [Client -> Val \union {None}]
  /\ want \in [Client -> Block \union {None}] /\ at \in [Client -> Buf \union {None}]
  /\ panicked \in {0, 1}

\* A client that has not returned its buffer finds its block in it, and no
\* other buffer has that block.
OwnBlock ==
  \A c \in Client : /\ pc[c] = "idle" <=> at[c] = None
                    /\ pc[c] = "idle" <=> want[c] = None
                    /\ pc[c] # "idle" => blockno[at[c]] = want[c]

OneBuffer == \A u, v \in Buf : blockno[u] = blockno[v] /\ blockno[u] # None => u = v

\* The list has every buffer, and the counts are those of their users.
ListComplete == \A u \in Buf : \E i \in Buf : lru[i] = u

Counted == \A u \in Buf : refcnt[u] = Cardinality({c \in Client : at[c] = u})

\* The sleep lock is held from acquiresleep to releasesleep by one client.
Owning == {"iderw", "io", "awake", "own"}

LockHeld ==
  /\ \A c \in Client : pc[c] \in Owning => lock[at[c]] = c
  /\ \A u \in Buf, c \in Client : lock[u] = c => at[c] = u /\ pc[c] \in Owning

\* A client reads its block, or has seen it and writes it.
Writing(c) == seen[c] # None

RequestOK ==
  \A c \in Client :
    /\ pc[c] \notin Owning => seen[c] = None
    /\ pc[c] = "own" => seen[c] # None /\ at[c] \in valid
    /\ pc[c] = "awake" => at[c] \in valid \ dirty
    /\ pc[c] \in {"iderw", "io"} => IF Writing(c) THEN at[c] \in valid \intersect dirty
                                    ELSE at[c] \notin valid

\* What is clean in the cache is what is on the disk.
CleanAgrees ==
  /\ dirty \subseteq valid
  /\ \A u \in valid : /\ blockno[u] \in Block
                      /\ u \notin dirty => data[u] = disk[blockno[u]]

\* The queue has every buffer once, each with a client that waits for it, and
\* the drive works for the first.
QueueOK ==
  /\ \A i \in 1..Len(idequeue) : \E c \in Client : pc[c] = "io" /\ at[c] = idequeue[i]
  /\ \A i, j \in 1..Len(idequeue) : idequeue[i] = idequeue[j] => i = j

DriveOK ==
  drive.state # "idle" =>
    /\ idequeue # <<>>
    /\ drive.block = blockno[Head(idequeue)]
    /\ drive.write <=> Head(idequeue) \in dirty
    /\ drive.state = "busy" => drive.data = data[Head(idequeue)]
    /\ drive.state = "done" => drive.data = disk[drive.block]
    /\ drive.state = "done" /\ drive.write => drive.data = data[Head(idequeue)]

\* The inductive invariant of UnitProofs.
DiskInv ==
  /\ DiskTypeOK /\ OwnBlock /\ OneBuffer /\ ListComplete /\ Counted
  /\ LockHeld /\ RequestOK /\ CleanAgrees /\ QueueOK /\ DriveOK

\* The cache and the driver give every client the block it asked for, to one
\* client at a time, with what the last one left in it, although the block
\* moves between buffers and the disk and requests queue up behind each other.
Held(c) == seen[c] # None

Content ==
  [b \in Block |-> IF \E u \in valid : blockno[u] = b
                  THEN data[CHOOSE u \in valid : blockno[u] = b] ELSE disk[b]]

Holder ==
  [b \in Block |-> IF \E c \in Client : Held(c) /\ want[c] = b
                  THEN CHOOSE c \in Client : Held(c) /\ want[c] = b ELSE None]

Store == INSTANCE BlockStore WITH
  NULL <- None, content <- Content, durable <- disk, holder <- Holder

CacheIsStore == Store!Spec

\* Who waits for the disk gets it.
RequestServed == \A c \in Client : pc[c] = "io" ~> pc[c] # "io" \/ panicked = 1

=============================================================================

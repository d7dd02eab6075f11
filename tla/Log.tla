--------------------------------- MODULE Log ---------------------------------
(***************************************************************************)
(* The file system log of log.c (the same in project01 and project02):     *)
(* begin_op, log_write, end_op, the commit and the recovery at boot, with  *)
(* a crash between any two disk writes.                                    *)
(*                                                                         *)
(* Operations are file system calls between begin_op and end_op.  A disk   *)
(* write of one block is atomic; the header is one block.  cache is what   *)
(* bread returns for a home block: a buffer that log_write marked B_DIRTY  *)
(* stays in memory, as does one that a process holds; any other one may be *)
(* evicted and read again.  Log positions count from 1.                    *)
(***************************************************************************)
EXTENDS Integers, Sequences, FiniteSets

CONSTANTS
  Op,            \* processes that make file system calls
  Block,         \* home blocks
  Val,           \* contents of a block
  MAXOPBLOCKS,   \* blocks that begin_op reserves for one operation
  OpBlocks,      \* blocks that an operation really writes at most
  LOGSIZE,       \* blocks that begin_op hands out
  NLog,          \* sb.nlog: blocks of the log on disk, the header included
  Behind,        \* the block that follows the log on disk
  MaxCrashes     \* BOUND: number of crashes

ASSUME ConstantsOK ==
  /\ IsFiniteSet(Op) /\ IsFiniteSet(Block)
  /\ MAXOPBLOCKS \in Nat \ {0} /\ LOGSIZE \in Nat /\ MAXOPBLOCKS <= LOGSIZE
  /\ OpBlocks \in 0..MAXOPBLOCKS
  /\ NLog \in Nat /\ LOGSIZE <= NLog   \* mkfs makes them equal
  /\ Behind \in Block /\ MaxCrashes \in Nat

Slot == 1..(NLog - 1)      \* data blocks of the log on disk

VARIABLES
  home, logblk, head,       \* the disk: home blocks, log blocks, header
  cache, dirty,             \* buffer cache: contents, blocks with B_DIRTY
  lh,                       \* log.lh: the logged block numbers
  outstanding, committing,  \* fields of struct log
  pc,                       \* where an operation is
  wrote,                    \* blocks that an operation has logged
  held,                     \* the buffer that an operation has locked to log it
  tail,                     \* loop variable of write_log and install_trans
  boot,                     \* how far initlog is, "up" when it is done
  panicked,                 \* some panic() was called
  crashes

diskVars == <<home, logblk, head>>
cacheVars == <<cache, dirty>>
logVars == <<outstanding, committing>>
opVars == <<pc, wrote, held>>
bootVars == <<boot, panicked, crashes>>
vars == <<diskVars, cacheVars, lh, logVars, opVars, tail, bootVars>>

Init ==
  /\ home \in [Block -> Val]
  /\ \E v \in Val : logblk = [i \in Slot |-> v]
  /\ head = <<>>
  /\ cache = home
  /\ dirty = {}
  /\ lh = <<>>
  /\ outstanding = 0 /\ committing = 0
  /\ pc = [p \in Op |-> "idle"]
  /\ wrote = [p \in Op |-> {}]
  /\ held = [p \in Op |-> {}]
  /\ tail = 1
  /\ boot = "up"
  /\ panicked = 0
  /\ crashes = 0

----------------------------------------------------------------------------
Up == boot = "up" /\ panicked = 0
At(p, l) == Up /\ pc[p] = l
Logged(s) == {s[i] : i \in 1..Len(s)}

\* wakeup(&log), by a process that goes on at l.
Wake(p, l) ==
  pc' = [q \in Op |-> IF q = p THEN l ELSE IF pc[q] = "sleep" THEN "begin" ELSE pc[q]]

\* (mutant) the end of an operation or of a commit wakes nobody.
MutWakeDone(p) == pc' = [pc EXCEPT ![p] = "idle"]

WakeDone(p) == Wake(p, "idle")

\* (mutant) the blocks that are in the log already are forgotten.
MutRoom == (outstanding + 1) * MAXOPBLOCKS <= LOGSIZE

Room == Len(lh) + (outstanding + 1) * MAXOPBLOCKS <= LOGSIZE

\* begin_op, on entry or woken up: sleep, or join the transaction.
Entering(p) == At(p, "idle") \/ At(p, "begin")

BeginOp(p) ==
  /\ Entering(p) /\ committing = 0 /\ Room
  /\ outstanding' = outstanding + 1
  /\ pc' = [pc EXCEPT ![p] = "op"]
  /\ wrote' = [wrote EXCEPT ![p] = {}]
  /\ UNCHANGED <<diskVars, cacheVars, lh, committing, held, tail, bootVars>>

BeginSleep(p) ==
  /\ Entering(p) /\ (committing = 1 \/ ~Room)
  /\ pc' = [pc EXCEPT ![p] = "sleep"]
  /\ UNCHANGED <<diskVars, cacheVars, lh, logVars, wrote, held, tail, bootVars>>

\* A block is changed in the cache, under the sleep lock of its buffer, and
\* passed to log_write, which tests the log before it takes log.lock: another
\* operation may log its block between the test and LogAppend.
LogFull == Len(lh) >= LOGSIZE \/ Len(lh) >= NLog - 1

MayWrite(p, b) ==
  At(p, "op") /\ Cardinality(wrote[p] \union {b}) <= OpBlocks

\* (mutant) the buffer is not pinned in the cache.
MutPin(b) == UNCHANGED dirty

Pin(b) == dirty' = dirty \union {b}

Held == UNION {held[p] : p \in Op}

LogWrite(p, b, v) ==
  /\ MayWrite(p, b) /\ b \notin Held
  /\ ~LogFull /\ outstanding >= 1
  /\ cache' = [cache EXCEPT ![b] = v]
  /\ held' = [held EXCEPT ![p] = {b}]
  /\ pc' = [pc EXCEPT ![p] = "append"]
  /\ UNCHANGED <<diskVars, dirty, lh, logVars, wrote, tail, bootVars>>

LogAppend(p) ==
  /\ At(p, "append")
  /\ \E b \in held[p] :
       /\ lh' = IF b \in Logged(lh) THEN lh ELSE Append(lh, b)
       /\ Pin(b)
       /\ wrote' = [wrote EXCEPT ![p] = @ \union {b}]
  /\ held' = [held EXCEPT ![p] = {}]
  /\ pc' = [pc EXCEPT ![p] = "op"]
  /\ UNCHANGED <<diskVars, cache, logVars, tail, bootVars>>

\* The panics of log_write and of end_op.
Panic(p) ==
  /\ At(p, "op")
  /\ \/ (LogFull \/ outstanding < 1) /\ \E b \in Block \ Held : MayWrite(p, b)
     \/ committing = 1
  /\ panicked' = 1
  /\ UNCHANGED <<diskVars, cacheVars, lh, logVars, opVars, tail, boot, crashes>>

\* A buffer without B_DIRTY that nobody holds is recycled; the block is read
\* from disk again.
Evict(b) ==
  /\ Up /\ b \notin dirty \union Held
  /\ cache' = [cache EXCEPT ![b] = home[b]]
  /\ UNCHANGED <<diskVars, dirty, lh, logVars, opVars, tail, bootVars>>

----------------------------------------------------------------------------
\* (mutant) the first operation that ends commits.
MutLastOp == TRUE

LastOp == outstanding = 1

EndOp(p) ==
  /\ At(p, "op") /\ committing = 0
  /\ outstanding' = outstanding - 1
  /\ \/ /\ LastOp
        /\ committing' = 1
        /\ tail' = 1
        /\ pc' = [pc EXCEPT ![p] = IF lh = <<>> THEN "done" ELSE "write_log"]
     \/ /\ ~LastOp
        /\ WakeDone(p)
        /\ UNCHANGED <<committing, tail>>
  /\ UNCHANGED <<diskVars, cacheVars, lh, wrote, held, bootVars>>

\* The loops bread the log block and the home block of a position together: a
\* position past the log that stands for the block there itself waits for ever.
TwoBuffers == tail \in Slot \/ lh[tail] # Behind

\* One round of the loop of write_log.  A list that is too long for the log
\* goes on into the block behind it.
WriteLog(p) ==
  /\ At(p, "write_log") /\ TwoBuffers
  /\ IF tail \in Slot
     THEN /\ logblk' = [logblk EXCEPT ![tail] = cache[lh[tail]]]
          /\ UNCHANGED <<home, cacheVars>>
     ELSE /\ home' = [home EXCEPT ![Behind] = cache[lh[tail]]]
          /\ cache' = [cache EXCEPT ![Behind] = cache[lh[tail]]]
          /\ dirty' = dirty \ {Behind}
          /\ UNCHANGED logblk
  /\ tail' = tail + 1
  /\ pc' = [pc EXCEPT ![p] = IF tail = Len(lh) THEN "write_head" ELSE @]
  /\ UNCHANGED <<head, lh, logVars, wrote, held, bootVars>>

\* The true point at which the transaction commits.
WriteHead(p) ==
  /\ At(p, "write_head")
  /\ head' = lh
  /\ tail' = 1
  /\ pc' = [pc EXCEPT ![p] = "install"]
  /\ UNCHANGED <<home, logblk, cacheVars, lh, logVars, wrote, held, bootVars>>

\* One round of the loop of install_trans; bwrite clears B_DIRTY.
LogCopy(i) == IF i \in Slot THEN logblk[i] ELSE cache[Behind]

InstallTrans ==
  /\ TwoBuffers
  /\ home' = [home EXCEPT ![lh[tail]] = LogCopy(tail)]
  /\ cache' = [cache EXCEPT ![lh[tail]] = LogCopy(tail)]
  /\ dirty' = dirty \ {lh[tail]}
  /\ tail' = tail + 1

Install(p) ==
  /\ At(p, "install")
  /\ InstallTrans
  /\ pc' = [pc EXCEPT ![p] = IF tail = Len(lh) THEN "erase" ELSE @]
  /\ UNCHANGED <<logblk, head, lh, logVars, wrote, held, bootVars>>

\* (mutant) the list in memory is not emptied.
MutEmptyLh == UNCHANGED lh

EmptyLh == lh' = <<>>

Erase(p) ==
  /\ At(p, "erase")
  /\ EmptyLh
  /\ head' = <<>>
  /\ pc' = [pc EXCEPT ![p] = "done"]
  /\ UNCHANGED <<home, logblk, cacheVars, logVars, wrote, held, tail, bootVars>>

CommitDone(p) ==
  /\ At(p, "done")
  /\ committing' = 0
  /\ WakeDone(p)
  /\ UNCHANGED <<diskVars, cacheVars, lh, outstanding, wrote, held, tail, bootVars>>

Commit(p) ==
  WriteLog(p) \/ WriteHead(p) \/ Install(p) \/ Erase(p) \/ CommitDone(p)

----------------------------------------------------------------------------
\* A crash or a panic loses everything but the disk; initlog follows.
Crash ==
  /\ crashes < MaxCrashes
  /\ crashes' = crashes + 1
  /\ cache' = home /\ dirty' = {}
  /\ lh' = <<>>
  /\ outstanding' = 0 /\ committing' = 0
  /\ pc' = [p \in Op |-> "idle"]
  /\ wrote' = [p \in Op |-> {}]
  /\ held' = [p \in Op |-> {}]
  /\ tail' = 1
  /\ boot' = "read_head"
  /\ panicked' = 0
  /\ UNCHANGED diskVars

\* recover_from_log.
ReadHead ==
  /\ boot = "read_head"
  /\ lh' = head
  /\ boot' = IF head = <<>> THEN "clear" ELSE "install"
  /\ UNCHANGED <<diskVars, cacheVars, logVars, opVars, tail, panicked, crashes>>

RecoverInstall ==
  /\ boot = "install"
  /\ InstallTrans
  /\ boot' = IF tail = Len(lh) THEN "clear" ELSE boot
  /\ UNCHANGED <<logblk, head, lh, logVars, opVars, panicked, crashes>>

RecoverClear ==
  /\ boot = "clear"
  /\ lh' = <<>> /\ head' = <<>>
  /\ boot' = "up"
  /\ UNCHANGED <<home, logblk, cacheVars, logVars, opVars, tail, panicked, crashes>>

Recover == ReadHead \/ RecoverInstall \/ RecoverClear

Next ==
  \/ \E p \in Op : \/ BeginOp(p) \/ BeginSleep(p) \/ LogAppend(p)
                   \/ EndOp(p) \/ Commit(p) \/ Panic(p)
  \/ \E p \in Op, b \in Block, v \in Val : LogWrite(p, b, v)
  \/ \E b \in Block : Evict(b)
  \/ Crash \/ Recover

Spec == Init /\ [][Next]_vars

\* A running process goes on, a woken one runs, recovery finishes.  A call
\* logs finitely many blocks and then ends: EndOp is strongly fair, for it is
\* disabled each time the call is inside log_write.  No operation need begin,
\* and the machine need not crash.
Fairness ==
  /\ \A p \in Op : /\ WF_vars(LogAppend(p)) /\ WF_vars(Commit(p)) /\ SF_vars(EndOp(p))
                   /\ WF_vars(pc[p] = "begin" /\ (BeginOp(p) \/ BeginSleep(p)))
  /\ WF_vars(Recover)

FairSpec == Spec /\ Fairness

----------------------------------------------------------------------------
(* Properties.                                                             *)

CommitPc == {"write_log", "write_head", "install", "erase", "done"}
InOp(p) == pc[p] \in {"op", "append"}
Active == {p \in Op : InOp(p)}

TypeOK ==
  /\ home \in [Block -> Val] /\ logblk \in [Slot -> Val]
  /\ head \in Seq(Block)
  /\ cache \in [Block -> Val] /\ dirty \subseteq Block
  /\ lh \in Seq(Block)
  /\ outstanding \in Nat /\ committing \in {0, 1}
  /\ pc \in [Op -> {"idle", "begin", "sleep", "op", "append"} \union CommitPc]
  /\ wrote \in [Op -> SUBSET Block] /\ held \in [Op -> SUBSET Block]
  /\ tail \in Nat \ {0}
  /\ boot \in {"up", "read_head", "install", "clear"}
  /\ panicked \in {0, 1} /\ crashes \in Nat

\* A commit has one process and no operation beside it; nothing runs at boot.
CommitAlone ==
  /\ \A p \in Op : pc[p] \in CommitPc => committing = 1
  /\ \A p, q \in Op : pc[p] \in CommitPc /\ pc[q] \in CommitPc => p = q
  /\ committing = 1 => /\ outstanding = 0
                       /\ \E p \in Op : pc[p] \in CommitPc
                       /\ Active = {}
  /\ boot # "up" => /\ committing = 0 /\ panicked = 0 /\ outstanding = 0
                    /\ \A p \in Op : pc[p] = "idle"

\* The loops over the logged blocks stay within them.
TailInRange ==
  /\ \A p \in Op : /\ pc[p] \in {"write_log", "install"} => tail <= Len(lh)
                   /\ pc[p] = "write_head" => Len(lh) >= 1
                   /\ pc[p] = "done" => lh = <<>>
  /\ boot = "read_head" => tail = 1
  /\ boot = "install" => tail <= Len(lh)

\* A process holds a buffer exactly between the test of log_write and its end.
HeldBuffers ==
  \A p \in Op : IF pc[p] = "append" THEN \E b \in Block : held[p] = {b}
                ELSE held[p] = {}

\* The blocks that operations in progress may still write, as pairs of the
\* operation and a number.
Reserved == {s \in Active \X (1..MAXOPBLOCKS) : s[2] > Cardinality(wrote[s[1]])}

\* The log has room for what is reserved, also for the blocks that passed the
\* test of log_write and are not in the list yet.  In particular the list never
\* outgrows the array lh.block.
SpaceReserved ==
  /\ outstanding = Cardinality(Active)
  /\ \A p \in Op : /\ Cardinality(wrote[p] \union held[p]) <= OpBlocks
                   /\ InOp(p) => wrote[p] \subseteq Logged(lh)
  /\ Len(lh) <= LOGSIZE /\ Len(head) <= LOGSIZE
  /\ boot = "up" => Len(lh) + Cardinality(Reserved) <= LOGSIZE
  /\ boot = "up" /\ outstanding = 0 /\ committing = 0 => lh = <<>>

\* What recovery would make of the disk: the logged blocks over the others.
Overlay(s, blk, rest) ==
  [b \in Block |->
     IF b \in Logged(s) THEN blk[CHOOSE i \in 1..Len(s) : s[i] = b] ELSE rest[b]]

Recovered == Overlay(head, logblk, home)

\* A crash takes the file system to a moment without operations in progress,
\* whenever it happens: before the header is written none of a transaction
\* is seen again, afterwards all of it, also when recovery itself crashes.
Disk == INSTANCE AtomicDisk
  WITH now <- IF boot = "up" THEN cache ELSE Recovered,
       durable <- Recovered, active <- Active

CrashAtomic == Disk!Spec

\* When no operation is in progress and no commit runs, nothing is left that
\* a crash could take away, and the log is empty for the next transaction.
QuietIsDurable ==
  Up /\ outstanding = 0 /\ committing = 0 =>
    lh = <<>> /\ head = <<>> /\ dirty = {} /\ cache = home

\* The space begin_op reserves is enough: operations never meet a panic of
\* log_write or end_op.  It takes more than MAXOPBLOCKS = "max # of blocks any
\* FS op writes" (param.h:10) and LOGSIZE = "max data blocks in on-disk log"
\* (param.h:11) say: see Spare.
NoPanic == panicked = 0

\* The blocks that an operation never uses of its reservation must make up for
\* the header, which mkfs counts into LOGSIZE, and for the test of log_write,
\* which refuses a full log even when the block is in it already.
Spare ==
  /\ OpBlocks < MAXOPBLOCKS
  /\ LOGSIZE - (MAXOPBLOCKS - OpBlocks) < NLog - 1

\* Who sleeps in begin_op waits for an operation or a commit that will wake it.
SleeperHasWaker ==
  (\E p \in Op : pc[p] = "sleep") => outstanding > 0 \/ committing = 1

\* A transaction never outgrows the data blocks of the log on disk.  log_write
\* stops "too big a transaction" (log.c:218) by a test outside log.lock, which
\* several operations pass before any of them logs its block.  What keeps the
\* list short enough is Enough: mkfs counts the header into LOGSIZE.
LogFits == Len(lh) < NLog /\ Len(head) < NLog

\* The blocks that an operation never uses of its reservation make up for the
\* header.
Enough == LOGSIZE - (MAXOPBLOCKS - OpBlocks) < NLog

\* The part of the inductive invariant that is about control and space.
SpaceInv ==
  /\ TypeOK /\ CommitAlone /\ TailInRange /\ HeldBuffers /\ SpaceReserved
  /\ SleeperHasWaker
  /\ Enough => LogFits
  /\ Spare => NoPanic

\* Nobody sleeps in begin_op for ever.
SleeperWakes == \A p \in Op : pc[p] = "sleep" ~> pc[p] # "sleep"

\* How the copies of a block agree, phase by phase.
Injective(s) == \A i, j \in 1..Len(s) : s[i] = s[j] => i = j
Copied(s, n, from, to) == \A i \in 1..n : to[i] = from[s[i]]

Clean == \A b \in Block \ (dirty \union Held) : cache[b] = home[b]

\* Until the header is written ...
NotCommitted ==
  /\ head = <<>> /\ dirty \subseteq Logged(lh)
  /\ \A p \in Op :
       /\ pc[p] \notin {"install", "erase"}
       /\ pc[p] = "write_log" => Copied(lh, tail - 1, cache, logblk)
       /\ pc[p] = "write_head" => Copied(lh, Len(lh), cache, logblk)

\* ... and until it is erased.
Installing ==
  /\ head = lh
  /\ \A i \in 1..Len(lh) : i < tail => home[lh[i]] = logblk[i]

Committed ==
  /\ Installing /\ Copied(lh, Len(lh), cache, logblk)
  /\ \E p \in Op : pc[p] = "install" \/ (pc[p] = "erase" /\ tail > Len(lh))
  /\ \A b \in dirty : \E i \in 1..Len(lh) : i >= tail /\ lh[i] = b

DataInv ==
  /\ Injective(lh) /\ Injective(head) /\ Clean
  /\ boot = "up" => NotCommitted \/ Committed
  /\ boot # "up" => dirty = {}
  /\ boot = "install" => Installing
  /\ boot = "clear" => \A i \in 1..Len(head) : home[head[i]] = logblk[i]

\* The inductive invariant of LogProofs.
Inv == SpaceInv /\ (Enough => DataInv)

=============================================================================

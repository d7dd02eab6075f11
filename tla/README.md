# Verification of the two xv6 kernels of ELE3021

The repository holds two kernels, both derived from the teaching system
xv6-public for x86 and run by `make qemu` with two CPUs:

- `src/project01/xv6-public` (P1) replaces the round-robin scheduler by a
  multi-level feedback queue (MLFQ) with priority boosting and a system call
  that locks the scheduler for one process;
- `src/project02/xv6-public` (P2) adds light-weight processes (threads inside a
  process, `thread.c`), an `exec2` with a chosen stack size, memory limits and a
  process manager.

Buffer cache, log, inodes, files, pipes, console, drivers, allocators, shell
and user programs are the same in both and come from xv6. This directory holds
TLA+ models of these kernels, TLC configurations and TLAPS proofs.

## Inventory

| Component | Code | State | Operations | What makes it hard |
|---|---|---|---|---|
| MLFQ scheduler and scheduler lock | P1 `proc.c` (scheduler, yield, sched, setPriority, schedulerLock, schedulerUnlock), `trap.c`, `sysproc.c` | `state`, `q_lv`, `tq`, `priority`, `time` of each slot; `is_lock`, `lock_process`, `upper_bound` of ptable; `ticks`; `c->proc` | pick, dispatch, boost, quantum expiry, yield, lock, unlock | `trap()` updates `tq` and `q_lv` without the lock; the scheduler drops ptable.lock around its own unlocks |
| Process life cycle | P1 `proc.c` (fork, exit, wait, kill, sleep, wakeup), `trap.c` | `struct proc`, `nextpid` | the calls, faults | lost wakeups, orphans, slots given back by a failed fork, kills of anything |
| Threads and two-level scheduler | P2 `thread.c`, `proc.c`, `exec.c` | `ttable`, `thread_pool`, `cur_thread`, the copies `kstack/tf/context`, `sz`, `sz_limit` | create, exit, join, dispatch of the next thread, exec, exit, wait, sbrk | a table changed while the scheduler holds indices into it; recycled stacks; error paths that leave locks or interrupts in the wrong state |
| File system log | `log.c`, `mkfs.c` | `struct log`, the log on disk, dirty buffers | begin_op, log_write, end_op, commit, recovery | crashes between disk writes; reservations; concurrent operations |
| Buffer cache and disk | `bio.c`, `ide.c`, `sleeplock.c` | LRU list, `refcnt`, flags, request queue | bread, bwrite, brelse, iderw, ideintr | one buffer per block, exhaustion, interrupt against callers |
| Files and descriptors | `file.c`, `sysfile.c` | `ftable`, `ofile` | open, dup, close, fork, exit | last close against dup; threads share `ofile` without a lock |
| Inodes, directories, paths | `fs.c` | `icache`, disk inodes, bitmap | iget, iput, ialloc, link, unlink, create | reference and link counts across two locks; order of inode locks; crash in the middle |
| Pipes | `pipe.c` | ring, `nread`, `nwrite`, `readopen`, `writeopen` | read, write, close | lost wakeups, last close, counter overflow |
| Console | `console.c` | input ring `r`, `w`, `e` | interrupt, read, write | index arithmetic, editing against reading |
| Spinlocks | `spinlock.c` | `locked`, `cpu`, `ncli`, `intena` | acquire, release, pushcli, popcli | nesting across a context switch |
| Memory | `kalloc.c`, `vm.c`, `umalloc.c` | free list, page tables, heap list | kalloc, kfree, allocuvm, malloc, free | exhaustion; free-list surgery |
| Loading | `exec.c` | the new image | exec, exec2 | what is replaced, when it can still fail |
| System-call entry, boot, hardware | `syscall.c`, `main.c`, assembly, `mp.c`, ... | - | - | fixed sequences; external to the models |
| User programs and tests | `sh.c`, `init.c`, `mlfq_test.c`, `thread_test.c`, ... | - | - | they make the calls that the models offer |

How they interact: every blocking component calls `sleep`/`wakeup` of
`proc.c`, which end in `sched()` and the scheduler; `trap()` calls `yield()` and
`exit()`; `fork`, `exit` and `exec` call the file table, the inodes (inside
`begin_op`/`end_op`) and the allocator; inodes use the log, the log uses the
buffer cache, the buffer cache the disk driver, which is woken by an interrupt.
`struct proc` is shared by all.

What must hold, in one line each: a process or thread runs on at most one CPU
and on its own stacks; a lock of the scheduler excludes others and ends; no
RUNNABLE process or thread starves; no wakeup is lost; every child has a parent
that can reap it; pids are unique; a transaction is on disk wholly or not at
all; the log never overflows; there is one buffer for a block, one last close
of a file, one owner of a page; rings neither lose nor invent bytes.
`PROJECT.json` lists the hazards behind these, each at its line.

## The modules

| Module | Models | Runs | Proofs |
|---|---|---|---|
| `Mlfq` | the MLFQ scheduler, timer trap, yields and scheduler lock on any number of CPUs | `MlfqSmp`, `MlfqUni`, `MlfqZombieRace` | `MlfqProofs` |
| `MlfqOrder`, `MlfqPick` | the order in which the scheduler prefers processes, and the scan of the process table, slot by slot | `Units` | `UnitProofs`, `MlfqProofs` |
| `ProcTable` | fork, exit, wait, kill, sleep, wakeup | `ProcTable` | `ProcTableProofs` |
| `Spinlock` | spin locks, pushcli and popcli, interrupts, the context switch | `Units` | `UnitProofs` |
| `Log` | log, commit, crash and recovery | `LogCrash`, `LogSpace` | `LogProofs` |
| `AtomicDisk` | the abstract disk: operations act on it in memory, a crash returns to the last moment without operations in progress | (refined by `Log`) | |
| `Disk` | buffer cache, sleep locks, disk queue and interrupt | `Units` | `UnitProofs` |
| `BlockStore` | what `bread`, `bwrite` and `brelse` promise: one content per block, one holder at a time | (refined by `Disk`) | |
| `Inode` | blocks, inodes, their contents and directories, as functions of the disk | (used by `FileSys`) | |
| `Mkfs` | the disk that `mkfs` writes | (used by `FileSys`) | |
| `Pipe` | the ring of a pipe | (used by `FileSys`) | `FileProofs` |
| `Syscalls` | the calls that a program makes, with the results it accepts | (used by `FileSys`) | |
| `UserTests` | the programs: tests of `usertests.c`, `init.c`, the small commands, the shell's way to run them; instantiates `FileSys` | `FileSys`, `FsDeadlock`, `FsIputRace` | |
| `FileSys` | file table, descriptors, inode cache, path walks, pipes and the system calls on files, with fork, exit, wait and kill | (used by `UserTests`) | `FileProofs`, `InodeProofs` |
| `Lwp` | threads, two-level scheduler, exec, exit, wait, memory limits of P2 | `Lwp`, `LwpStacks` | `LwpProofs` |
| `Vm` | pages, page tables, fork, exec, sbrk and exit with failures | `Units` | `MemoryProofs` |
| `Console`, `Terminal` | the console's input ring, and what it promises its readers | `Units` | `UnitProofs` |
| `Umalloc` | malloc and free of user programs | `Units` | `MemoryProofs` |
| `ShellParser`, `Grep`, `Strings` | the shell's parser and its grammar; grep and the language of an expression; copying, names, paths, numbers, the cursor | `Units` | |
| `Units` | the components that share no state, side by side | `Units` | |

The `.cfg` files instantiate the modules directly: the constants are small sets
of numbers and model values, so that no separate MC modules are needed.
Definitions named `Mut...` are deliberately wrong forms of the definition that
follows them; the specification never uses them. They document which mistake
each property would notice.

### Mlfq

Each CPU has a program counter `pc[c]`; `cproc[c]` is `c->proc`. Code between
`acquire` and `release` of ptable.lock is one step, with two exceptions. The
lock is carried from `sched()` into the scheduler, which `ptlock` records, and
the scheduler drops it around its calls of `schedulerUnlock`: `CheckZombie`
and `ZombieUnlock`, `CountRound` and `BoostUnlock` are separate steps, with
the window between them. In `trap()` the increments of `tq` and `q_lv` happen
without the lock: they are a load and a store (`TimerIrq`/`TqStore`,
`LevelCheck`/`LevelStore`), and so are the tests between them. The handler is
entered with interrupts off. System calls are steps of a CPU in the state
"run", but `sys_yield` is one step for each of its stores and one for its
`yield()`: interrupts are on in it, and the timer may come between any two
(`ProgramPc`). A process that leaves the CPU in its trap comes back to where
the interrupt found it (`back`). In `SysYieldTime` the load of `ticks` and the
store of `time` are one step: nobody reads the `time` of a RUNNING process, and
leaving the CPU overwrites it. `MlfqPick` shows that the scan,
iteration by iteration, finds what `Mlfq` states as "no other is preferred".

`ticks` saturates at `MaxTicks` and `tq` at `MaxTq`, above every quantum. The
quantum is `QuantumBase + q_lv * QuantumStep` (4 and 2 in the code), the boost
comes after `BoostRounds` scheduler rounds (100). Scheduler rounds count idle
ones and are not timer ticks; the model follows the code in that.

### ProcTable

`state` "RUNNABLE" stands for RUNNABLE and RUNNING; any such process may take
its next step, as on any number of CPUs. `pc` is where a process is, `child`
is `np` inside `fork`, whose three stretches between lock operations are
`AllocProc`, `ForkParent` (or `ForkFail`) and `ForkStart`. `sleep` appears with
its two uses: in `wait`, where lk is ptable.lock itself, and in a loop that
tests a condition under another lock `lk` (pipes, console, `sys_sleep`).
Killing is by pid and finds whatever slot holds it. `MaxPid` and `MaxFails`
bound the forks.

### Log

Every disk write is a step, so a crash falls between any two, in a commit as
in a recovery. `cache` is what `bread` returns: a buffer with `B_DIRTY` or one that
a process holds stays, another may be evicted and read again (`Evict`). An
operation writes at most `OpBlocks` different blocks of the `MAXOPBLOCKS` that
`begin_op` reserves, and `NLog` is what mkfs makes the log on disk, header
included. `log_write` is two steps: `LogWrite` changes the buffer and makes the
tests of `log.c:218-221`, which come before `acquire(&log.lock)`, and `LogAppend`
logs the block under the lock. In between the process has only the buffer
(`held`); others test, log and end operations. A list that outgrows the log on
disk is modelled too: `WriteLog` goes on into the block `Behind` it. No run gets
there, but the theorems on space do. `CrashAtomic` is
`Disk!Spec`, the specification of `AtomicDisk` under the mapping: what memory
holds is `cache` (during recovery, what recovery will produce), what is durable
is what recovery would produce if the machine stopped now.

### Lwp

A process runs on one CPU at a time, so what a thread does between two calls
of `sched()` is one step; only interrupts and other processes come between.
`thr[p][t]` is `ttable[t]`, `proc[p]` the rest, `kstack` stands for the triple
(kstack, tf, context), which the scheduler copies as a whole in `copy_thread`
and `copy_process`. `turn[c]` holds the local variables `i` and `idx` of
`scheduler()`, which survive while the thread runs and the table changes under
them. `Sched` is the way from `sched()` to the next thread: the write-back to
`ttable[cur_thread]`, then the first RUNNABLE thread after `idx`, or back to
the outer loop. User stacks are page numbers: `sz` grows by two pages, the
first of which is the guard page of the stack above it. The process
that forks, reaps, kills or limits a process is outside the model and may act
at any moment that ptable.lock is free.

Some paths destroy something the kernel runs on, and a panic follows:
`CreateNoMem` (no page for a kernel stack: the process becomes UNUSED and
interrupts stay pushed off), `CreateBad` (the page table in use is freed),
`CreateDead` (`panic("dead")`: nothing is mapped below a recycled stack), `ForkFail`
(kfree of a null pointer), `StaleYield` (a timer interrupt on a CPU whose
`c->proc` is stale, see below), `LeakPanic` (acquire of a lock that the CPU already holds).
They set `broken`, after which the model takes no step.

### Spinlock

Tasks are the processes and the schedulers; `running[c]` says whom CPU `c` is
switched to. `acquire` is `Readeflags`, `Pushcli`, `Xchg`, `Own`; `release` is
`Release` and `Unlock`, and `myproc()` is `Readeflags`, `Pushcli`, `Myproc`.
With FL_IF clear nothing can come between on the same CPU, so that code is
split only where another CPU may see it. `Interrupt` pushes a frame onto the
task's stack wherever FL_IF is set, also between the read of the flags and
`cli`; the handler may take locks, call `myproc()` and, as the timer trap does,
`sched()`, so that a task can go on with its handler on another CPU. `Sched`,
`Resume`, `Sti`, `Pick` and `PickNone` are `sched()` and P1's scheduler loop,
which dispatches at most one process between two `sti()`. P2's loop dispatches
several in a row under one `acquire`, so that a new process can release
ptable.lock with an `intena` that another one left; this is not modelled.

### Disk

A client is a process in the kernel with one buffer. `bget` is `BgetHit` or
`BgetRecycle` under bcache.lock; taking the buffer's sleep lock is a step of
its own, `AcquireSleep`, as are queueing the request (`Iderw`), the end of the
transfer (`DriveDone`), the interrupt (`Ideintr`, which wakes the owner and
starts the next request) and the owner's return from `sleep` (`Awake`).
`brelse` is `Releasesleep` and `Unref`. The LRU list is `lru`. `LogWrite`
leaves the buffer dirty, as `log_write` does, for at most `MaxPinned` blocks.
When all buffers are referenced or dirty, `bget` panics (`NoBuffers`), which
NBUF = 30 does not exclude with a log as large. `CacheIsStore` is `BlockStore`
under the mapping: the content of a block is that of its valid buffer, or of
the disk; its holder is the client past `AcquireSleep` with the data read.

### FileSys

A process runs a program of `UserTests`: calls with the results that the test
checks for, which is all that these tests state about the system; a result
outside of them sets `oops`. A step runs from one wait for a lock to the next,
so that the interleaving is that of the sleep locks of inodes, of `begin_op`
and of the loops that sleep on pipes; what a step does to the disk it does
through `Inode`. `disk` is what the buffer cache shows, `committed` what a
crash would leave: `EndOp` makes it equal when the last operation ends, which
`Log` shows to be right. `namex`, `iput` and `end_op` are called from many
places; `stack` holds where they return to. `iput` is three steps, `Iput`,
`IputFreed` and `IputDrop`, between which other processes run; `pipewrite` and
`piperead` give up the lock where they sleep, and the flag `killed` may be set
between their test of it and the sleep. The loops of `Pipe` that move bytes have
closed forms: `PutAll` puts as many cells as there is room for, `TakeUpTo` takes
as many as there are and are asked for; `Held` is the difference of the counters
modulo `UINT`. A directory entry, an address and a
piece of data are each one cell of a block. Reading and writing a device is
left to `Console`.

### The smaller modules

`Vm` makes a call that changes an address space one step, but lets memory run
out after any number of pages, so that the undoing of `allocuvm`, `copyuvm`
and `exec` is taken from every point. A call computes with a record of the free
list, the pages left to the call, the address space it builds and its result;
the loops of `allocuvm`, `copyuvm` and over the segments of `exec` (`Loop`,
`Segments`) are recursive functions of the number of rounds. `Umalloc` is the
free list as a function from header to next header; reading a header that is
none is an error of the model. Sizes are uints: the sum that `malloc` rounds up
wraps around at 2^32 bytes, which are `HeaderSpace` headers (`Units`), and `sbrk`
gets an int (`SbrkArg`). A request that is negative for it succeeds, and the
header that `morecore` writes claims memory that nobody has: the model ends there
(`Lost`). `Malloc` and `Free` enter the functions, and
one round of their loops is one step (`Search`, `Place`); `call` says which loop
the program is in, with its local variables. What is true of the heap is stated
between any two rounds, with the block that `free` has not put into the list yet
(`Loose`). `Console` keeps the indices `r`, `w`, `e` modulo `UINT`. `ShellParser`,
`Grep` and `Strings` are functions; beside each stands what it should compute,
stated another way: the grammar of command lines, the language of an
expression, the list of names in a path.

## The runs

| Run | Instance | Shows |
|---|---|---|
| `MlfqSmp` | 2 CPUs, 2 slots, priorities 0..1, both lock, one sleeps, one exits and is forked again, calls setPriority and yields | the inductive invariant; a process is RUNNING on exactly one CPU |
| `MlfqUni` | 1 CPU, 3 slots, boost after 4 rounds, two lock, one sleeps, one exits, one yields | the test for equality never misses the quantum, wherever `sys_yield` is interrupted; the process that lost the lock off the CPU is the first of L0 until it runs (`UnlockedFirst`); the scheduler's own unlocks end the lock they were made for; a lock ends; a RUNNABLE process does not starve unless the scheduler is locked |
| `MlfqZombieRace` | 2 CPUs | finding 1 |
| `ProcTable` | 4 slots, pids up to 5, one failing fork, kills of 2 and 3, two event waiters | live parents, unique pids, no lost wakeup of wait or sleep, the inductive invariant, zombies of init reaped |
| `LogCrash` | 2 operations of 1 block, 3 blocks of 2 values, a log of 2, 2 crashes | the invariant of space and data, also with both operations past the test for the last slot; the log implements `AtomicDisk`; a quiet system has everything on disk |
| `LogSpace` | 3 operations, 5 blocks, one crash, two spare blocks in each reservation | no panic, no sleeper without a waker, and sleepers are woken |
| `Lwp` | 2 CPUs, 1 process with 3 threads, 2 kernel stacks, 5 pages, limits | table, CPU and copied fields agree; kernel stacks are owned by one thread each and none leaks; no join misses an exit; every RUNNABLE thread of a process gets its turn |
| `LwpStacks` | 1 process, 3 kernel stacks | finding 2 |
| `FileSys` | 36 programs, up to 4 processes, 11 inodes, 16 blocks | the programs get the results they check for and nothing panics; the counts of inodes, of files and of operations count exactly what they should, and the lock of an inode belongs to who will release it; an inode in use is never given up; a crash leaves a whole file system, in which link counts are numbers of names and every block has one owner; cached inodes agree with the disk; operations fit their reservations; pipes are freed by the last end and nobody sleeps on one that is ready; processes wait for each other only through `iput` |
| `FsDeadlock` | `linkunlink` | finding 3 |
| `FsIputRace` | `openiputtest` | finding 4 |
| `Units` | see below | the scan of the process table chooses the preferred process; spin locks exclude and interrupts are off exactly where they must be; buffer cache and driver implement `BlockStore`, and every request is served; console input implements `Terminal`; heap and pages are neither lost nor shared; the routines return what they should |

`Units` runs one component in each behaviour while the others rest: they share
no state, and what the run checks of each is what a run of its own would check.
The functions are checked in its initial states, one for each argument.

These configurations switch the deadlock check off besides those of the
violations: `LogCrash`, where operations may run into a panic of `log_write`,
`Lwp`, which stops when `broken` is set, `FileSys`, where a program ends and
where processes do wait for each other (`DeadlockNeedsIput` and finding 3 say
when), and `Units`, where the scan ends, functions take no step, a
negative `sbrk` loses the heap, the buffer cache may panic for want of buffers and CPUs that take two spin locks in
opposite orders spin for ever.

### Bounds

Two CPUs are what the system is built with, and every race of the scheduler
found so far needs two. Two slots suffice for one process to be the victim of
another; three are needed for a choice between two waiting ones (`MlfqUni`) and
for a grandparent, so that adoption happens (`ProcTable`, where the fourth is
needed for a slot that is reused while others still wait). Boosting after four
rounds with three slots keeps the relation that matters, more rounds than
slots, as 100 and 64 in the code: with fewer, boosts come before the last slot
had its round. Two crashes allow a crash in the recovery from a crash. In
`LogCrash` two operations share one transaction and absorb each other's blocks.
Its log of two blocks is full when both are done, and one of them may still hold a
block that passed the test of `log_write` when the other logs the last; that an
operation logs one block is no loss of generality for atomicity, since the
transaction has two and each may be changed several times (two blocks for each of
two operations need a log of four, and with more than eleven million states are
out of a run's time); in `LogSpace` each operation reserves three blocks of a log of
six and writes one, so that two may run and the third has to wait.
Three threads are a main thread and two made by it, enough for a recycled stack
to fall on that of another thread of either kind; with
two kernel stacks the creation of the third thread fails while two exist.

In `FileSys` the sizes keep the relations that the tests need: a file may have
direct and indirect blocks and hit MAXFILE, writes are cut into pieces, a
directory grows past one block, blocks and descriptors run out, the disk is
full for one test and not for the others, an operation can use up its
reservation, and two operations at a time fill the log's promise. Loops of
`usertests.c` run two or three times, its groups of four children are two or
three. One pipe of two cells with counters modulo 4 wraps around in every test
of it.

In `Units` two buffers for three blocks make the cache recycle, two clients and
one pinned block make it search in vain; a ring of two characters with indices
modulo 4 wraps and fills; a heap of nine headers holds blocks of three
sizes, enough to be split, merged on either side, extended by `morecore` and used
up, and one or more addresses that the program took from `sbrk` between them; with
32 headers of 8 bytes in the range of a uint, the size 250 wraps around to one
unit, 248 is zero and 200 negative for `sbrk`, and 100 is more than there is; thirteen pages are what two processes need for the largest
image plus a failure at each page; command lines up to four characters, and
three longer ones, contain every pair of operators. `Spinlock` there has two
CPUs, one process, and two locks of which ptable.lock is taken inside the other:
the process is preempted in a handler and goes on on the other CPU. The bound of
two handlers on a stack is never reached, since handlers do not nest (`FrameOK`). A second process only adds another
task that waits; the theorem covers any number of them.

### Fairness

- `Mlfq`: a CPU goes on with what it has begun (weak fairness of scheduler and
  trap steps). The timer interrupt has strong fairness: it is masked while locks
  are held but remembered by the local APIC, so it cannot be missed for ever
  just because it is only sometimes enabled. No system call is ever forced;
  `LockReleased` holds although nobody calls `schedulerUnlock`.
- `ProcTable`: what a process has begun in the kernel it finishes, a killed
  process exits, and init calls `wait` for ever (`init.c`). The event never has
  to happen.
- `Log`: an operation logs finitely many blocks and ends, and a commit or a
  recovery goes on. `EndOp` has strong fairness, for it is not enabled while its
  operation is inside `log_write`.
  A woken process runs again. No operation need begin and no crash need happen.
- `Lwp`: a CPU in a thread is interrupted again and again, a killed thread
  leaves, a thread in the kernel goes on (strong fairness of what a CPU does by
  itself: an interrupt raised while interrupts are off stays pending); the
  scheduler visits a RUNNABLE process again and again, since each round of its
  loop visits every slot (strong fairness of `Dispatch` for each slot).
- `Disk` (in `Units`): the drive answers, its interrupt is taken, and a process
  with a request to queue or to finish runs. No client need begin or release
  anything; `RequestServed` therefore speaks of requests, not of locks.
- `FileSys`, `Console`, `Umalloc`, `Vm`, `Spinlock`: none. What these modules
  state is safety; that no process waits for ever is stated as the absence of
  sleepers whose condition holds and of cycles of waiting processes.

## The proofs

The theorems hold for every number of CPUs, slots, operations, blocks, files and
pages and every size that the named assumption of the module admits
(`ConstantsOK` of `Mlfq`, `ProcTable`, `Log` and `Lwp`, `PickConstants`,
`DiskConstants`, `SpinlockConstants`, `ConsoleSizes`, `HeapConstants`, `VmConstants`,
and for `FileSys` its `FileSysAssumption`, `GeometryAssumption` of `Inode` and `PipeAssumption`).

- **MlfqProofs.** `MlfqInvariant`: `Inv` is inductive. That a process runs on
  one CPU (`MlfqOneCpu`) does not follow from itself: one needs that `c->proc`
  is set exactly while the CPU is in a process, that ptable.lock is held
  exactly between `sched()` and the end of the scheduler's tail, and, for the
  types, that a level loaded by the increment of `q_lv` is not the last.
  `MlfqLockConsistent` follows.
  Four more hold where the system runs on one CPU (`Cpu = {BootCpu}`), and
  only there: `MlfqTqWithinQuantum`, that the test `tq == quantum` of `trap()`
  never misses the moment, `MlfqUnlockedFirst`, that the process that
  `schedulerUnlock` makes "L0 queue first" is preferred until it runs, and `MlfqZombieUnlockJustified` and
  `MlfqBoostUnlockJustified`, that the scheduler's own unlocks end the lock they
  were made for (finding 1 is the first of these two with two CPUs). The strengthening is
  `UniInv`: what the trap has loaded is what `tq` holds, only the increment
  uses up a quantum, and the reason for an unlock lasts through the window
  in which ptable.lock is free. That an interrupt of the only CPU comes while
  it runs a process, never in the scheduler, is what makes it inductive. For the
  quantum one needs that no store of `sys_yield` and no change of level makes
  `tq` equal the quantum of the new level: `sys_yield` raises the level before it
  clears `tq`, and quanta grow with the level (`QuantumGrows`).
  `UnlockedInv` is the strengthening of `UnlockedFirst`: while the scheduler is
  locked only the owner is on the CPU, so that nobody else marks a process; one
  waiting process at most has the time -1; and the boost overwrites all times
  before its unlock. A process that unlocks for itself is not covered, for its
  mark is lost when it leaves the CPU (see below).
  `MlfqDispatchIsScan`: the process that `DispatchMlfq` takes in one step is the
  one that the scan of `MlfqPick`, run over the tables of `Mlfq`, has chosen.
- **ProcTableProofs.** `ProcTableInvariant`: live parents, unique pids and the
  two statements about lost wakeups are one induction. The strengthening says
  that a slot inside `fork` belongs to one process and is nobody's child until
  nothing can fail, that pids are below `nextpid`, that init never exits, and
  that a process on its way into `sleep` holds the lock of an event that has
  not happened.
- **LogProofs.** `LogSpaceInvariant`, `LogNoPanic`, `LogSleeperHasWaker`. What
  is still reserved is a set: the pairs of an active operation and a number
  between the blocks it has written and MAXOPBLOCKS. The invariant is that this
  set and the log together fit into LOGSIZE; a write takes one pair out of the
  set when it adds a block, `end_op` takes out all pairs of an operation, and
  `begin_op` adds MAXOPBLOCKS of them. A block that passed the unlocked test of
  `log_write` and is not logged yet is counted with the written ones
  (`wrote[p] \union held[p]`), so that the list never outgrows LOGSIZE, whatever
  the others log in between; this is not owed to the test, which holds no
  more when the block is logged. The log on disk is one block shorter, since
  LOGSIZE counts its header (see below): the list fits it, and data are safe,
  under the condition `Enough`, that an operation leaves unused what makes up for
  the header; that no operation panics takes one block more (`Spare`), because
  `log_write` refuses a full log even if the block is in it.
  `LogInvariant` ties together, phase by phase, the
  buffers, the log blocks, the header and the home blocks, under `Enough`. From it
  follow, under the same condition,
  `LogQuietIsDurable` and the refinement `LogCrashAtomic`: initial states map to
  initial states of `AtomicDisk`; a write maps to a write, the write of the
  header to the moment at which all becomes durable, a crash to a crash, and
  every other step, those of recovery included, to a stutter.
- **LwpProofs.** `LwpInvariant`: `Inv` is inductive. `KernelStacksOwned` alone
  is not: `exec` frees the stacks of all threads but the caller's, and `wait`
  those of all, so that one must know that an unused slot has no stack, that
  the caller is the thread the scheduler chose, and that its `tid` finds its own
  slot. `NoLostThreadWakeup` needs that the main thread is never a ZOMBIE and
  that only it joins (`SlotsAgree`). The proof regroups `Inv` into what one
  process must satisfy by itself (`ProcessOK`), what ties processes to CPUs
  (`CpusOK`) and what ties threads to kernel stacks (`StacksOK`): each step
  changes one process, and `ProcessStep` and `SchedStep` do the rest once for
  all system calls. `LwpKernelStacks`, `LwpJoinWakeup` and `LwpRunningThread`
  follow.

- **UnitProofs, disk and spin locks.** `DiskInvariant` counts: a buffer's `refcnt` is the number of
  clients at it (`Counted`), a block is in one buffer (`OneBuffer`), a sleep
  lock is held by the client that is past it (`LockHeld`), a buffer that is
  valid and clean agrees with the disk (`CleanAgrees`), the queue holds the
  buffers whose owners wait, each once (`QueueOK`), and the drive works on its
  head (`DriveOK`). `DiskImplementsStore` maps every step: getting the lock of a
  valid buffer, or the end of the read, to `Acquire`; a change of the buffer
  before `bwrite` or `log_write` to `Change`; the end of a transfer to the disk
  to `Persist`; the release of the sleep lock to `Release`; all others to a
  stutter.
  `SpinlockInvariant`: `SpinInv` is inductive. Its core is
  `CountOK`, by which `ncli` of a CPU is the number of locks that its task has,
  plus one for the lock it is about to get or give back. Since the scheduler is
  entered and left with `ncli` one, the count needs not be saved with a task;
  `intena` does, and `ProcessFlags`, `SchedulerFlags` and `saved` say what it
  must be on whichever CPU the task goes on. Interrupts come only at `ncli`
  zero, so that interrupted code has no lock (`FrameOK`) and handlers do not
  nest, whatever `MaxNest` allows. `SpinlockSound` follows: locks exclude, no
  check in the code panics, `myproc()` reads the right CPU.
- **FileProofs.** `FileInvariant`: `FileInv` is inductive. `FileFilesCounted`
  and `FilePipeFreedByLast` follow, whatever the programs do and whatever the
  disk holds: no path of fork, exec, exit, dup, open, pipe or close loses or
  leaks a reference to a file, and the page of a pipe is given back exactly
  when the last of its ends is closed. Neither is inductive. The count of a file
  breaks if `open` or `pipe` could run out of a file that another process has
  in its table, so `Knows` says which file a process in the middle of a call
  has, that it is fresh (one reference, no type) while `open` or `pipealloc`
  fills it in, and that a descriptor stays with it; the labels on a process's
  stack must fit what it does (`Shape`), or a return from `iput` could land
  in the middle of another call. That a flag of a pipe stands for one file needs
  that two files of type FD_PIPE are never the same end, hence that `pipealloc`
  takes a free page and `fileclose` leaves a file of type FD_NONE (`FilesOK`).
  The ring is bounded by `RingOK`: the counters are less than `UINT` and their
  difference modulo `UINT` is at most PIPESIZE, for which `UINT` must be the
  larger.
  `FilePipeSleepers`: nobody sleeps in `piperead` or `pipewrite` on a pipe that
  has what he waits for. For writers this is part of `FileInv`. For readers
  it is proved for behaviours in which no killed writer leaves a call half done
  (`[]NoHalfWrites`): `pipewrite` returns without `wakeup` when a killed process
  finds the pipe full (`pipe.c:86-88`), and if it has put bytes into an empty
  pipe before, in the same call, a reader stays asleep over them. The programs of
  the run `FileSys` never do that, which TLC confirms.
- **InodeProofs.** `InodeBooks` states what the run checks as `Inv`: at any
  moment the `ref` of an inode is the number of open files on it plus the number
  of pointers to it that processes have, the sleep lock of an inode belongs to
  the process that will release it, and `log.outstanding` is the number of
  processes between `begin_op` and `end_op`. It holds whatever a directory
  contains and whatever a lookup finds, hence for every path that `namex`,
  `create`, `link`, `unlink`, `open`, `chdir` and `exec` can take through their
  errors, and for every interleaving. The books are not inductive: which of its
  variables a process counts for depends on its label and its stack (`HasRef`,
  `HasLock`), so `InodeInvariant` adds that only calls that look up a path are in
  `namex` (`Looks`), that only calls inside a transaction put an inode (`Puts`),
  that the inode `iput` has locked is not the one its caller has locked
  (`Apart`: `iput` locks at `ref` 1, the caller's own lock would be a second
  reference), that a process which leaves has given up its directory
  (`Departed`), and that a closed file has no inode (`TypedFiles`); `FileInv`
  says where a process may return to. One lemma, `OneMoves`, does the counting
  for all actions: if one process changes, the count of each inode changes by
  what this process and one file gain or lose. Each action then needs only the
  comparison of the process before and after it (`Turn`); only `fork` gives
  another process a reference, to its directory.
- **UnitProofs, scan and console.** `PickCorrect`: the
  candidate of the scan is preferred to all RUNNABLE slots before the loop variable
  (`BestSoFar`). The step needs that the preference order is transitive and
  total, two lemmas about `Preferred`. `ConsoleRefines`: the ring with its three wrapping indices
  implements `Terminal`, for every size of the ring that divides the range of an
  unsigned integer, as 128 divides 2^32; otherwise the cell of an index would
  jump when the index wraps. A typed character maps to `Type`, an erasing key to
  `Erase` or, on an empty line, to a stutter, a character taken by a reader to
  `Read` or `TakeEof`, and an end of file that is put back to a stutter. The
  lemmas are about the text between two indices: writing one cell behind it
  appends to it and leaves what comes before (`TextAppended`, `TextKept`), a step
  of the first index takes its head, a step back of the second its last
  characters. The invariant `ConsoleInv` says that `w` lies between `r` and `e`,
  that the three are at most one ring apart, that the line being typed has no
  newline, which is why the loop of ^U stops at `w` and erases all of it, and that
  a call that asks for more has not yet stored a newline.

- **MemoryProofs**, the heap. `HeapIsSound`: in whatever order the calls come and
  wherever the searches of `malloc` and `free` begin and end, blocks share no address and
  leave none out, until a request reaches `sbrk` as a negative number
  (`call = Lost`). Sizes that wrap around to a small block are within it: the block
  is shorter than the program believes, and the heap in order. `UnitsHold` says
  that a block has room for the bytes asked for unless its size wraps, and
  `HeapNeverLost` that no request is negative if all sizes are below half of 2^32
  bytes, header included. `HeapInv` says why, between any two rounds of the loops:
  the list is a ring in the order of addresses (`Ring`), the blocks in it, those
  of the program, the loose one and the foreign addresses lie apart and fill
  the heap up to `brk` (`Layout`), no two free blocks touch (`Merged`), and the
  pointer of the loop is in the list (`CallOK`). The lemma that decides it is
  `PlaceGap`: where the loop of `free` stops, with its test for the place at which
  the list turns around, the block belongs between `p` and what follows; so that
  at most two pairs of neighbours can touch once it is in the list (`Touching`), and
  these are the two that `free` merges. `malloc` leaves `freep` in the list even when
  it takes the block whole. Since `morecore` calls `free` and goes on to search,
  the search may find anything, and the invariant holds there too.
- **MemoryProofs**, pages and page tables. `MemoryIsSound`: a page is free once or
  is one thing of one process, and the mapped pages of a process are those
  below its size. Between calls `VmInv` says that the pages of the processes are
  apart and that the free list is what they leave (`FreeBut`). In the middle of
  a call `Mid` says it of the address space under construction and all others, with the
  pages that the call has in its hand. Each round of `allocuvm` or `copyuvm` maps its page
  or leaves everything as it was; a table that `walkpgdir` has allocated for a page
  that then fails stays in the directory and is freed with it. A loop keeps what a
  round keeps (`LoopMid`, `SegmentsRight`): the recursive function is shown to
  exist, and the numbers of rounds for which that is so contain 0 and every successor,
  hence all numbers, since `<` is well founded. The undoing of `allocuvm` takes back just
  what the loop has added, because nothing was mapped above the old size; this is
  where the second half of the property, that sizes and mappings fit, is needed for the
  first. `exec` has the pages of the old and of the new memory at once,
  and gives back the one or the other.

Only model-checked: what `FileSys` says about the content of the disk and the
results of calls (`TestsPass`, `ContentSound`, `OpFitsLog`), since files and
directories are computed by folds over their bytes and an operation's writes
depend on the sizes the programs choose; `DeadlockNeedsIput`, which needs that
directories form a tree; the functions of `ShellParser`, `Grep` and `Strings`
(`RoutinesAgree`), defined by recursion over data; and all liveness properties
(`LockReleased`, `NoStarvation`, `ZombieReaped`, `SleeperWakes`, `ThreadProgress`,
`RequestServed`), since fairness is out of the proof system's reach.

## Findings

1. `MlfqZombieRace`: P1 `proc.c:432` releases ptable.lock before it calls
   `schedulerUnlock` for a finished `lock_process` ("if scheduler lock_process
   finish, unlock scheduler", `proc.c:430`). On another CPU the lock can be
   ended and taken anew in between; the unlock then ends the lock of a live
   process.
2. `LwpStacks`: `thread_join` stores where the freed user stack starts, the
   address of its guard page, and P2 `thread.c:145-146` takes that address for the
   top of the recycled stack. After create, join, create the new thread works on
   the page below: the stack of the main thread. `thread.c:116` calls what it
   takes an empty user stack.
3. `FsDeadlock`: `iput` waits for an inode's lock (`fs.c:334`) in callers that
   hold another inode; `create` and `unlink` hold a file and wait for the
   directory, `link` holds the directory and waits for the file. `linkunlink`
   of `usertests.c`, written "to look for deadlocks", can stop in it.
4. `FsIputRace`: `iput` reads `ref` (`fs.c:337`) and decrements it later
   (`fs.c:350`). Two processes that drop the last two references to an unlinked
   inode both see two, and nobody frees it on the disk.

What else was met while modelling, without a statement of the repository that a
run could check:

- The log on disk has room for LOGSIZE - 1 blocks, since mkfs counts the header
  into it (`mkfs.c:25`), while `begin_op` hands out LOGSIZE; and the test for "too
  big a transaction" (`log.c:218`) comes before log.lock is taken. Two operations
  that write all of MAXOPBLOCKS can pass it together and make a list longer than
  the log without a panic: TLC finds that in `Log` with four blocks,
  MAXOPBLOCKS = OpBlocks = 2 and LOGSIZE = NLog = 4 as a violation of `LogFits`.
  No call of this kernel writes that many; `LogCrashAtomic` and `LogNoPanic` say
  how much must stay unused.
- P2: the loop of `thread.c:250-254` goes on after it has stored a freed stack, so
  every empty entry of `thread_pool` gets it, and after create, join, create,
  create two new threads work on one page. A `break` does not remove finding 2,
  which comes first, nor every way to this.
- P1, with two CPUs: `UnlockedFirst` is false. A process can unlock the scheduler for
  another one, lock it, and lose the lock to the scheduler of the other CPU (finding
  1) before the first has run: two processes are marked as first.
- `malloc(0xFFFFFFFA)` returns a block of one unit, without room for a single byte
  (`umalloc.c:69`), and a size near 2^31 asks `sbrk` for a negative amount
  (`umalloc.c:54`), after which the heap claims memory that nobody has (`Lost`).
- P1, with two CPUs: an unlock or a boost of the other CPU between the load and the
  store of `tq` lets a process run past its quantum; `TqWithinQuantum` is claimed
  of one CPU only.
- P1: `schedulerLock` and `schedulerUnlock` print while they hold ptable.lock,
  and the console's interrupt and reader take ptable.lock while they hold the
  console's lock: two CPUs can spin for ever.
- P1: the `time` of -1 that `schedulerUnlock` stores for a process that unlocks
  for itself does not survive its descheduling (`proc.c:421`).
- P1: a kill between a sleeper's test of `killed` and its sleep leaves it asleep;
  a kill of pid 0 marks a slot without a process, and the mark outlives its
  next use.
- P2: `proc.c:418-420` leaves the loop with `break` before `c->proc = 0`; when
  the slot runs again elsewhere, a timer interrupt on the first CPU calls
  `yield()` for it (`StaleYield`).
- P2: the memory limit is compared in pages in one place and in bytes in all
  others; joins of a tid that no thread has never return; error paths return
  with ptable.lock held.
- A file created in a directory that is being removed has no name afterwards;
  `..` of a removed directory whose parent is freed panics in `ilock`;
  `link(x, "d/.")` locks the same inode twice. The programs of `UserTests` do
  none of these.
- A killed writer that finds the pipe full returns before it wakes the readers
  (`pipe.c:86-88`), although it may have written bytes in the same call:
  `FilePipeSleepers` has to exclude it.
- The shell: of several output redirections the first wins, `>>` does not
  append, `a & b` is a syntax error. The grammar of `ShellParser` says so.
- `grep` loses a partial line when a read brings no newline and ignores what
  follows a line as long as its buffer (`Lines`, `Rest`).
- `sbrk(-sz)` unmaps everything, but the zero that `deallocuvm` then returns is
  taken for a failure and the size stays (`Sbrk` of `Vm` says so).

## Not modelled, and why

- System-call entry and argument fetching, boot, assembly, interrupt
  controllers, keyboard and serial decoding, the output of the console: fixed
  sequences or pure input and output, without state that others see.
- Drive errors, a missing second disk and `memide.c`: the driver ignores
  the first (after an error the interrupt marks the buffer valid, `ide.c:115`),
  the second is fixed at boot, the third is not part of the kernel that is built.
- ELF headers, the layout of arguments on the stack, kernel mappings and
  segment registers: arithmetic on bit fields.
- Files shared by threads of P2, and threads that end inside a log operation:
  the product of `Lwp` with `FileSys` is out of TLC's reach; the hazard list
  names the lines.
- The tests of `usertests.c` on memory protection, and the test programs of the
  two projects: their expectations went into properties where they state any.
- `myapp.c`, the practice calls `prac*.c` and `lab4_systemcall/`: leftovers.

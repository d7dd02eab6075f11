------------------------------ MODULE FileSys ------------------------------
(***************************************************************************)
(* Files, descriptors, pipes, the inode cache and the file system calls of *)
(* xv6: file.c, fs.c, pipe.c and sysfile.c, with the parts of fork, exit,  *)
(* wait and kill that touch files.  A process runs a program, a sequence   *)
(* of calls, and checks each result.                                       *)
(*                                                                         *)
(* A step runs from one wait for a lock to the next: it may acquire one    *)
(* sleep lock (or wait in begin_op) first, works on what its locks         *)
(* protect, takes the spin lock of a table at most once, and releases.     *)
(* The sequence stack holds the labels to return to from begin_op, namex,  *)
(* iput and end_op.                                                        *)
(***************************************************************************)
EXTENDS Mkfs, Pipe, Syscalls

CONSTANTS NPROC,      \* processes
          NOFILE,     \* descriptors of a process
          NFILE,      \* open files of the system
          NPIPE,      \* pages of memory for pipes
          NINODE,     \* entries of the inode cache
          MAXOPBLOCKS,\* blocks an operation may write
          LOGOPS,     \* operations the log has room for at a time
          Image,      \* the names of the files that mkfs is given
          Programs,   \* name -> program, a sequence of calls
          Tests       \* the names of the programs to run

ASSUME FileSysAssumption ==
  /\ NPROC \in Nat \ {0} /\ NOFILE \in Nat \ {0} /\ NFILE \in Nat \ {0}
  /\ NINODE \in Nat \ {0} /\ NPIPE \in Nat /\ LOGOPS \in Nat \ {0} /\ MAXOPBLOCKS \in Nat

VARIABLES
  disk,         \* the disk as the buffer cache shows it: dinode, block, bitmap
  committed,    \* the disk as a crash would leave it
  outstanding,  \* log.outstanding
  icache,       \* inum -> entry of the inode cache: ref, lock, valid and the copy ip
  ftable,       \* the open files
  pipes,        \* the pages for pipes
  proc,         \* the processes
  test,         \* the program under way
  panicked,     \* message of the kernel's panic
  oops          \* a program saw a result it did not expect

fsvars == <<disk, committed, outstanding, icache, panicked>>
vars == <<fsvars, ftable, pipes, proc, test, oops>>

Procs == 1..NPROC
Files == 1..NFILE
Pages == 1..NPIPE
Fds == 0..NOFILE - 1

\* What a process does at the end of its program.
Exited == [call |-> "exit"]
NoFile == [type |-> "FD_NONE", ref |-> 0, readable |-> FALSE, writable |-> FALSE, ip |-> 0, off |-> 0, pipe |-> 0]
Uncached == [ref |-> 0, lock |-> 0, valid |-> FALSE, ip |-> FreeDinode]
Unused == [pc |-> "unused", fork |-> <<>>, at |-> 0, arg |-> Exited, killed |-> FALSE, got |-> <<>>, stack |-> <<>>, parent |-> 0, cwd |-> 0,
           ofile |-> [slot \in Fds |-> 0], last |-> 0,
           ip |-> 0, old |-> 0, nx |-> 0, v |-> 0, path |-> <<>>, par |-> FALSE, f |-> 0, k |-> 0, r |-> 0,
           log |-> {}]

\* The program of process q: that of the test, or the child's of the calls that forked it.
Code(q) == FoldLeft(LAMBDA prog, k : prog[k].child, Programs[test], q.fork)
\* Process q comes to call k of its program.
Goto(q, k) ==
  LET code == Code(q) IN [q EXCEPT !.at = k, !.arg = IF k \in DOMAIN code THEN code[k] ELSE Exited]

\* The system after boot: the first process runs a test.
Init ==
  /\ test \in Tests
  /\ disk = mkfs(Image) /\ committed = disk /\ outstanding = 0
  /\ icache = [i \in Inums |-> IF i = ROOTINO THEN [Uncached EXCEPT !.ref = 1] ELSE Uncached]
  /\ ftable = [f \in Files |-> NoFile] /\ pipes = [i \in Pages |-> NoPipe]
  /\ proc = [p \in Procs |-> IF p = 1 THEN Goto([Unused EXCEPT !.pc = "user", !.cwd = ROOTINO], 1) ELSE Unused]
  /\ panicked = "" /\ oops = FALSE

At(p, label) == panicked = "" /\ proc[p].pc = label
Arg(p) == proc[p].arg
Calls(p, call) == At(p, "user") /\ Arg(p).call = call

\* The process q goes on at the label on top of its stack, after pushing labels.
Jump(q, label) == [q EXCEPT !.pc = label]
Push(q, labels) == [q EXCEPT !.stack = labels \o @]
Pop(q) == [q EXCEPT !.pc = Head(q.stack), !.stack = Tail(@)]

\* The call of process q is over with result r: back to the program, unless it was killed.
Returned(q, r) ==
  Goto([Unused EXCEPT !.pc = IF q.killed THEN "exit" ELSE "user", !.killed = q.killed, !.fork = q.fork,
                      !.parent = q.parent, !.cwd = q.cwd, !.ofile = q.ofile,
                      !.last = IF q.arg.call = "open" THEN r ELSE q.last], q.at + 1)
Return(p, q, r) ==
  /\ proc' = [proc EXCEPT ![p] = Returned(q, r)]
  /\ oops' = (oops \/ r \notin Arg(p).want)

PutInode(q, i) == [q EXCEPT !.v = i, !.pc = "iput"]

(***************************************************************************)
(* The inode cache                                                         *)
(***************************************************************************)
Panic(msgs) == panicked' = IF msgs = {""} THEN "" ELSE CHOOSE m \in msgs : m # ""

\* Room for one more entry of the cache, when inode i has none.
NoEntry(i) ==
  IF icache[i].ref = 0 /\ Cardinality({j \in Inums : icache[j].ref > 0}) >= NINODE
  THEN "iget: no inodes" ELSE ""
iget(c, i) == [c EXCEPT ![i].ref = @ + 1, ![i].valid = IF c[i].ref = 0 THEN FALSE ELSE @]

Lockable(i) == icache[i].lock = 0
\* Entry i as ilock by p leaves it: read from disk unless valid.
ilock(p, i) ==
  [icache[i] EXCEPT !.lock = p, !.valid = TRUE,
                    !.ip = IF icache[i].valid THEN @ ELSE disk.dinode[i]]
LockFault(i) ==
  IF icache[i].ref < 1 THEN "ilock"
  ELSE IF ~icache[i].valid /\ disk.dinode[i].type = "free" THEN "ilock: no type" ELSE ""
\* Entry e with the lock given up, and its copy ip changed to that of w.
iunlock(e) == [e EXCEPT !.lock = 0]
Store(e, w) == [e EXCEPT !.ip = w.ip]
WorkOn(p, e) == Work(disk, e.ip, proc[p].log)

MutLastRef(e) == e.valid /\ e.ip.nlink = 0

\* The put of the last reference to an inode without links.
LastRef(e) == e.valid /\ e.ip.nlink = 0 /\ e.ref = 1

Iput(p) ==
  LET i == proc[p].v
      e == icache[i]
      t == itrunc(WorkOn(p, e), i)
      w == iupdate([t EXCEPT !.ip.type = "free"], i)
  IN
  /\ At(p, "iput") /\ Lockable(i)
  /\ IF LastRef(e)
     THEN /\ disk' = w.d /\ Panic({w.bad})
          /\ icache' = [icache EXCEPT ![i] = [Store(e, w) EXCEPT !.lock = p]]
          /\ proc' = [proc EXCEPT ![p] = [Jump(@, "iput_freed") EXCEPT !.log = w.log]]
     ELSE /\ proc' = [proc EXCEPT ![p] = Jump(@, "iput_drop")]
          /\ UNCHANGED <<disk, icache, panicked>>
  /\ UNCHANGED <<committed, outstanding, ftable, oops>>

\* The freed inode is no longer valid in the cache.
IputFreed(p) ==
  LET i == proc[p].v IN
  /\ At(p, "iput_freed")
  /\ icache' = [icache EXCEPT ![i] = [iunlock(@) EXCEPT !.valid = FALSE]]
  /\ proc' = [proc EXCEPT ![p] = Jump(@, "iput_drop")]
  /\ UNCHANGED <<disk, committed, outstanding, ftable, panicked, oops>>

IputDrop(p) ==
  /\ At(p, "iput_drop")
  /\ icache' = [icache EXCEPT ![proc[p].v].ref = @ - 1]
  /\ proc' = [proc EXCEPT ![p] = Pop(@)]
  /\ UNCHANGED <<disk, committed, outstanding, ftable, panicked, oops>>

(***************************************************************************)
(* Transactions                                                            *)
(***************************************************************************)
\* Where a call that starts with begin_op goes on.  create() looks for the parent directory.
Started(p) ==
  LET q == [proc[p] EXCEPT !.pc = "namex0", !.path = Arg(p).path] IN
  CASE Arg(p).call = "open" /\ "O_CREATE" \in Arg(p).mode -> [Push(q, <<"create">>) EXCEPT !.par = TRUE]
    [] Arg(p).call = "open" /\ "O_CREATE" \notin Arg(p).mode -> Push(q, <<"open">>)
    [] Arg(p).call \in {"mkdir", "mknod"} -> [Push(q, <<"create">>) EXCEPT !.par = TRUE]
    [] Arg(p).call = "unlink" -> [Push(q, <<"unlink">>) EXCEPT !.par = TRUE]
    [] Arg(p).call \in {"link", "chdir", "exec"} -> Push(q, <<Arg(p).call>>)

BeginOp(p) ==
  /\ outstanding < LOGOPS /\ outstanding' = outstanding + 1
  /\ \/ /\ \E c \in {"open", "mkdir", "mknod", "unlink", "link", "chdir", "exec"} : Calls(p, c)
        /\ proc' = [proc EXCEPT ![p] = Started(p)]
     \/ /\ At(p, "begin")
        /\ proc' = [proc EXCEPT ![p] = Pop(@)]
  /\ UNCHANGED <<disk, committed, icache, ftable, panicked, oops>>

\* The last operation to end commits what all of them wrote.
EndOp(p) ==
  LET q == [proc[p] EXCEPT !.log = {}] IN
  /\ At(p, "end")
  /\ outstanding' = outstanding - 1
  /\ committed' = IF outstanding' = 0 THEN disk ELSE committed
  /\ IF q.stack = <<>> THEN Return(p, q, q.r)
     ELSE proc' = [proc EXCEPT ![p] = Pop(q)] /\ UNCHANGED oops
  /\ UNCHANGED <<disk, icache, ftable, panicked>>

(***************************************************************************)
(* Path names                                                              *)
(***************************************************************************)
\* namex starts at the root or at the current directory.  A path is a sequence of names, the first
\* of an absolute one is "/".  Without any name the directory itself is the result, or none when
\* its parent was asked for.
NamexStart(p) ==
  LET q == proc[p]
      abs == q.path # <<>> /\ Head(q.path) = "/"
      i == IF abs THEN ROOTINO ELSE q.cwd
      rest == IF abs THEN Tail(q.path) ELSE q.path
      n == [q EXCEPT !.path = rest, !.ip = i]
  IN
  /\ At(p, "namex0")
  /\ Panic({NoEntry(i)})
  /\ icache' = iget(icache, i)
  /\ proc' = [proc EXCEPT ![p] = IF rest # <<>> THEN Jump(n, "namex")
                                 ELSE IF q.par THEN PutInode([n EXCEPT !.ip = 0], i) ELSE Pop(n)]
  /\ UNCHANGED <<disk, committed, outstanding, ftable, oops>>

\* One element of the path: the directory is locked for the lookup and dropped before the next one
\* is locked; when the parent is wanted namex stops one element early, with the directory unlocked.
NamexElement(p) ==
  LET q == proc[p]
      e == ilock(p, q.ip)
      isdir == e.ip.type = "T_DIR"
      early == q.par /\ Len(q.path) = 1
      next == IF isdir /\ ~early THEN dirlookup(disk, e.ip, Head(q.path)) ELSE 0
      c == [icache EXCEPT ![q.ip] = iunlock(e)]
      n == [PutInode(q, q.ip) EXCEPT !.ip = next, !.path = Tail(@)]
  IN
  /\ At(p, "namex") /\ Lockable(q.ip)
  /\ Panic({LockFault(q.ip), IF next = 0 THEN "" ELSE NoEntry(next)})
  /\ icache' = IF next = 0 THEN c ELSE iget(c, next)
  /\ proc' = [proc EXCEPT ![p] = IF isdir /\ early THEN Pop(q)
                                 ELSE IF next # 0 /\ n.path # <<>> THEN Push(n, <<"namex">>) ELSE n]
  /\ UNCHANGED <<disk, committed, outstanding, ftable, oops>>

Name(q) == Head(q.path)

\* The call gives up: end_op and -1, after it dropped inode i when that is not 0.
Fail(q) == [q EXCEPT !.pc = "end", !.r = -1]
MutFailPut(q, i) == Fail(q)

FailPut(q, i) == PutInode([Push(q, <<"end">>) EXCEPT !.r = -1], i)

(***************************************************************************)
(* link                                                                    *)
(***************************************************************************)
\* The old file gets its new link before the name exists.
LinkOld(p) ==
  LET q == proc[p]
      e == ilock(p, q.ip)
      w == iupdate([WorkOn(p, e) EXCEPT !.ip.nlink = @ + 1], q.ip)
      dir == e.ip.type = "T_DIR"
  IN
  /\ At(p, "link")
  /\ \/ /\ q.ip = 0
        /\ proc' = [proc EXCEPT ![p] = Fail(q)] /\ UNCHANGED <<disk, icache, panicked>>
     \/ /\ q.ip # 0 /\ Lockable(q.ip)
        /\ Panic({LockFault(q.ip)})
        /\ disk' = IF dir THEN disk ELSE w.d
        /\ icache' = [icache EXCEPT ![q.ip] = iunlock(IF dir THEN e ELSE Store(e, w))]
        /\ proc' = [proc EXCEPT ![p] =
                      IF dir THEN FailPut(q, q.ip)
                      ELSE Push([q EXCEPT !.pc = "namex0", !.old = q.ip, !.par = TRUE, !.path = Arg(p).new,
                                          !.log = w.log], <<"link2">>)]
  /\ UNCHANGED <<committed, outstanding, ftable, oops>>

\* The name is entered into its directory unless it exists; then dirlink drops the inode it found
\* while the directory is locked.
LinkNew(p) ==
  LET q == proc[p]
      e == ilock(p, q.ip)
      found == dirlookup(disk, e.ip, Name(q))
      w == dirlink(WorkOn(p, e), q.ip, Name(q), q.old)
  IN
  /\ At(p, "link2")
  /\ \/ /\ q.ip = 0
        /\ proc' = [proc EXCEPT ![p] = Jump(q, "link_bad")] /\ UNCHANGED <<disk, icache, panicked>>
     \/ /\ q.ip # 0 /\ Lockable(q.ip)
        /\ IF found # 0
           THEN /\ Panic({LockFault(q.ip), NoEntry(found)})
                /\ icache' = iget([icache EXCEPT ![q.ip] = e], found)
                /\ proc' = [proc EXCEPT ![p] = Push(PutInode(q, found), <<"link_exists">>)]
                /\ UNCHANGED disk
           ELSE /\ Panic({LockFault(q.ip), w.bad})
                /\ disk' = w.d
                /\ icache' = [icache EXCEPT ![q.ip] = iunlock(Store(e, w))]
                /\ proc' = [proc EXCEPT ![p] = Push(PutInode([q EXCEPT !.r = 0, !.log = w.log], q.ip), <<"link_done">>)]
  /\ UNCHANGED <<committed, outstanding, ftable, oops>>

MutLinkExists(p) ==
  /\ At(p, "link_exists")
  /\ proc' = [proc EXCEPT ![p] = Push(PutInode(@, proc[p].ip), <<"link_bad">>)]
  /\ UNCHANGED <<disk, committed, outstanding, icache, ftable, panicked, oops>>

LinkExists(p) ==
  /\ At(p, "link_exists")
  /\ icache' = [icache EXCEPT ![proc[p].ip] = iunlock(@)]
  /\ proc' = [proc EXCEPT ![p] = Push(PutInode(@, proc[p].ip), <<"link_bad">>)]
  /\ UNCHANGED <<disk, committed, outstanding, ftable, panicked, oops>>

LinkDone(p) ==
  /\ At(p, "link_done")
  /\ proc' = [proc EXCEPT ![p] = Push(PutInode(@, proc[p].old), <<"end">>)]
  /\ UNCHANGED <<disk, committed, outstanding, icache, ftable, panicked, oops>>

\* The link is taken back.
LinkBad(p) ==
  LET i == proc[p].old
      e == ilock(p, i)
      w == iupdate([WorkOn(p, e) EXCEPT !.ip.nlink = @ - 1], i)
  IN
  /\ At(p, "link_bad") /\ Lockable(i)
  /\ Panic({LockFault(i)})
  /\ disk' = w.d
  /\ icache' = [icache EXCEPT ![i] = iunlock(Store(e, w))]
  /\ proc' = [proc EXCEPT ![p] = FailPut([@ EXCEPT !.log = w.log], i)]
  /\ UNCHANGED <<committed, outstanding, ftable, oops>>

(***************************************************************************)
(* unlink                                                                  *)
(***************************************************************************)
UnlinkLookup(p) ==
  LET q == proc[p]
      e == ilock(p, q.ip)
      found == IF Name(q) \in {".", ".."} THEN 0 ELSE dirlookup(disk, e.ip, Name(q))
  IN
  /\ At(p, "unlink")
  /\ \/ /\ q.ip = 0
        /\ proc' = [proc EXCEPT ![p] = Fail(q)] /\ UNCHANGED <<icache, panicked>>
     \/ /\ q.ip # 0 /\ Lockable(q.ip)
        /\ Panic({LockFault(q.ip), IF found = 0 THEN "" ELSE NoEntry(found)})
        /\ icache' = IF found = 0 THEN [icache EXCEPT ![q.ip] = iunlock(e)]
                     ELSE iget([icache EXCEPT ![q.ip] = e], found)
        /\ proc' = [proc EXCEPT ![p] = IF found = 0 THEN FailPut(q, q.ip)
                                       ELSE [Jump(q, "unlink2") EXCEPT !.nx = found]]
  /\ UNCHANGED <<disk, committed, outstanding, ftable, oops>>

\* The entry is cleared and, for a directory, the link of its ".." taken away, unless it has entries.
UnlinkEntry(p) ==
  LET q == proc[p]
      dp == icache[q.ip]
      e == ilock(p, q.nx)
      dir == e.ip.type = "T_DIR"
      cleared == writei(WorkOn(p, dp), q.ip, First(Offsets(disk, dp.ip, Name(q))), <<Zero>>)
      w == IF dir THEN iupdate([cleared EXCEPT !.ip.nlink = @ - 1], q.ip) ELSE cleared
  IN
  /\ At(p, "unlink2") /\ Lockable(q.nx)
  /\ Panic({LockFault(q.nx), IF e.ip.nlink < 1 THEN "unlink: nlink < 1" ELSE ""})
  /\ IF dir /\ ~isdirempty(disk, e.ip)
     THEN /\ icache' = [icache EXCEPT ![q.nx] = iunlock(e)]
          /\ proc' = [proc EXCEPT ![p] = Push(PutInode(q, q.nx), <<"unlink_bad">>)]
          /\ UNCHANGED disk
     ELSE /\ disk' = w.d
          /\ icache' = [icache EXCEPT ![q.nx] = e, ![q.ip] = iunlock(Store(dp, w))]
          /\ proc' = [proc EXCEPT ![p] = Push(PutInode([q EXCEPT !.log = w.log], q.ip), <<"unlink3">>)]
  /\ UNCHANGED <<committed, outstanding, ftable, oops>>

UnlinkBad(p) ==
  /\ At(p, "unlink_bad")
  /\ icache' = [icache EXCEPT ![proc[p].ip] = iunlock(@)]
  /\ proc' = [proc EXCEPT ![p] = FailPut(@, proc[p].ip)]
  /\ UNCHANGED <<disk, committed, outstanding, ftable, panicked, oops>>

UnlinkInode(p) ==
  LET i == proc[p].nx
      e == icache[i]
      w == iupdate([WorkOn(p, e) EXCEPT !.ip.nlink = @ - 1], i)
  IN
  /\ At(p, "unlink3")
  /\ disk' = w.d
  /\ icache' = [icache EXCEPT ![i] = iunlock(Store(e, w))]
  /\ proc' = [proc EXCEPT ![p] = PutInode([Push(@, <<"end">>) EXCEPT !.log = w.log], i)]
  /\ UNCHANGED <<committed, outstanding, ftable, panicked, oops>>

(***************************************************************************)
(* create, for open(O_CREATE), mkdir and mknod                             *)
(***************************************************************************)
NewType(p) == [open |-> "T_FILE", mkdir |-> "T_DIR", mknod |-> "T_DEV"][Arg(p).call]

\* Look the name up; if it is new, allocate an inode and keep the directory locked.
CreateLookup(p) ==
  LET q == proc[p]
      e == ilock(p, q.ip)
      found == dirlookup(disk, e.ip, Name(q))
      free == {i \in Inums : disk.dinode[i].type = "free"}
      new == IF free = {} THEN ROOTINO ELSE First(free)
  IN
  /\ At(p, "create")
  /\ \/ /\ q.ip = 0
        /\ proc' = [proc EXCEPT ![p] = Fail(q)] /\ UNCHANGED <<disk, icache, panicked>>
     \/ /\ q.ip # 0 /\ Lockable(q.ip)
        /\ IF found # 0
           THEN /\ Panic({LockFault(q.ip), NoEntry(found)})
                /\ icache' = iget([icache EXCEPT ![q.ip] = iunlock(e)], found)
                /\ proc' = [proc EXCEPT ![p] = Push([PutInode(q, q.ip) EXCEPT !.nx = found], <<"create_old">>)]
                /\ UNCHANGED disk
           ELSE /\ Panic({LockFault(q.ip), NoEntry(new), IF free = {} THEN "ialloc: no inodes" ELSE ""})
                /\ disk' = [disk EXCEPT !.dinode[new] = [FreeDinode EXCEPT !.type = NewType(p)]]
                /\ icache' = iget([icache EXCEPT ![q.ip] = e], new)
                /\ proc' = [proc EXCEPT ![p] = [Jump(q, "create_new") EXCEPT !.nx = new,
                                                !.log = @ \cup {<<"inode", new \div IPB>>}]]
  /\ UNCHANGED <<committed, outstanding, ftable, oops>>

\* The name exists: an open file may be created again, nothing else.
CreateOld(p) ==
  LET q == proc[p]
      e == ilock(p, q.nx)
      good == NewType(p) = "T_FILE" /\ e.ip.type = "T_FILE"
  IN
  /\ At(p, "create_old") /\ Lockable(q.nx)
  /\ Panic({LockFault(q.nx)})
  /\ icache' = [icache EXCEPT ![q.nx] = IF good THEN e ELSE iunlock(e)]
  /\ proc' = [proc EXCEPT ![p] = IF good THEN [Jump(q, "open2") EXCEPT !.ip = q.nx] ELSE FailPut(q, q.nx)]
  /\ UNCHANGED <<disk, committed, outstanding, ftable, oops>>

\* The new inode gets its link, a directory its two entries, and the directory the name.
CreateNew(p) ==
  LET q == proc[p]
      e == ilock(p, q.nx)
      dp == icache[q.ip]
      dir == NewType(p) = "T_DIR"
      linked == iupdate([WorkOn(p, e) EXCEPT !.ip.nlink = 1], q.nx)
      made == IF dir THEN dirlink(dirlink(linked, q.nx, ".", q.nx), q.nx, "..", q.ip) ELSE linked
      parent == [made EXCEPT !.ip = dp.ip]
      w == dirlink(IF dir THEN iupdate([parent EXCEPT !.ip.nlink = @ + 1], q.ip) ELSE parent,
                   q.ip, Name(q), q.nx)
  IN
  /\ At(p, "create_new") /\ Lockable(q.nx)
  /\ Panic({LockFault(q.nx), w.bad})
  /\ disk' = w.d
  /\ icache' = [icache EXCEPT ![q.nx] = Store(e, made), ![q.ip] = iunlock(Store(dp, w))]
  /\ proc' = [proc EXCEPT ![p] = Push([PutInode(q, q.ip) EXCEPT !.log = w.log, !.ip = q.nx], <<"created">>)]
  /\ UNCHANGED <<committed, outstanding, ftable, oops>>

\* open() goes on with the locked inode; mkdir and mknod drop it.
Created(p) ==
  LET q == proc[p]
      isopen == Arg(p).call = "open"
  IN
  /\ At(p, "created")
  /\ icache' = IF isopen THEN icache ELSE [icache EXCEPT ![q.ip] = iunlock(@)]
  /\ proc' = [proc EXCEPT ![p] = IF isopen THEN Jump(q, "open2")
                                 ELSE PutInode(Push([q EXCEPT !.r = 0], <<"end">>), q.ip)]
  /\ UNCHANGED <<disk, committed, outstanding, ftable, panicked, oops>>

(***************************************************************************)
(* open, read, write, dup, close                                           *)
(***************************************************************************)
OpenInode(p) ==
  LET q == proc[p]
      e == ilock(p, q.ip)
      bad == e.ip.type = "T_DIR" /\ Arg(p).mode # {}
  IN
  /\ At(p, "open")
  /\ \/ /\ q.ip = 0
        /\ proc' = [proc EXCEPT ![p] = Fail(q)] /\ UNCHANGED <<icache, panicked>>
     \/ /\ q.ip # 0 /\ Lockable(q.ip)
        /\ Panic({LockFault(q.ip)})
        /\ icache' = [icache EXCEPT ![q.ip] = IF bad THEN iunlock(e) ELSE e]
        /\ proc' = [proc EXCEPT ![p] = IF bad THEN FailPut(q, q.ip) ELSE Jump(q, "open2")]
  /\ UNCHANGED <<disk, committed, outstanding, ftable, oops>>

FreeFiles == {f \in Files : ftable[f].ref = 0}
FreeFds(q) == {slot \in Fds : q.ofile[slot] = 0}

\* A file structure and a descriptor; without both the inode is dropped.
OpenFile(p) ==
  LET q == proc[p]
      good == FreeFiles # {} /\ FreeFds(q) # {}
      f == First(FreeFiles)
      slot == First(FreeFds(q))
  IN
  /\ At(p, "open2")
  /\ icache' = [icache EXCEPT ![q.ip] = iunlock(@)]
  /\ ftable' = IF good THEN [ftable EXCEPT ![f].ref = 1] ELSE ftable
  /\ proc' = [proc EXCEPT ![p] =
       IF good THEN [Push(q, <<"open3">>) EXCEPT !.pc = "end", !.ofile[slot] = f, !.f = f, !.r = slot]
       ELSE FailPut(q, q.ip)]
  /\ UNCHANGED <<disk, committed, outstanding, panicked, oops>>

\* The fields of the file are set after the transaction.
OpenSet(p) ==
  LET q == proc[p] IN
  /\ At(p, "open3")
  /\ ftable' = [ftable EXCEPT ![q.f] =
       [@ EXCEPT !.type = "FD_INODE", !.ip = q.ip, !.off = 0, !.readable = "O_WRONLY" \notin Arg(p).mode,
                 !.writable = Arg(p).mode \cap {"O_WRONLY", "O_RDWR"} # {}]]
  /\ Return(p, q, q.r)
  /\ UNCHANGED <<disk, committed, outstanding, icache, panicked>>

\* argfd: the file of a descriptor, 0 if it is not open.
FdArg(p) == IF Arg(p).fd = LAST THEN proc[p].last ELSE Arg(p).fd
argfd(p) == IF FdArg(p) \in Fds THEN proc[p].ofile[FdArg(p)] ELSE 0

\* The data, or the names of a directory, that a read delivers: the number of each, or all
\* in order.
Result(names, order) ==
  IF order THEN names ELSE ToBag(SelectSeq(names, LAMBDA s : s # ""))

\* The cells of a read go to the program, which may go on reading until it gets none.
GoesOn(p, cells) == Arg(p).until_eof /\ cells # <<>>
Delivered(p, cells) ==
  IF GoesOn(p, cells) THEN Goto([Returned(proc[p], 0) EXCEPT !.got = proc[p].got \o cells], proc[p].at)
  ELSE Returned(proc[p], 0)
Unwanted(p, cells) == ~GoesOn(p, cells) /\ Result(proc[p].got \o cells, Arg(p).order) \notin Arg(p).want

\* A failing read delivers the one name "fail".
ReadBad(p) ==
  /\ Calls(p, "read")
  /\ argfd(p) = 0 \/ ~ftable[argfd(p)].readable
  /\ Return(p, proc[p], <<"fail">>)
  /\ UNCHANGED <<disk, committed, outstanding, icache, ftable, panicked>>

Read(p) ==
  LET f == argfd(p)
      i == ftable[f].ip
      e == ilock(p, i)
      cells == readi(disk, e.ip, ftable[f].off, Arg(p).n)
      names == [k \in DOMAIN cells |-> cells[k][1]]
  IN
  /\ Calls(p, "read") /\ f # 0 /\ ftable[f].readable /\ ftable[f].type = "FD_INODE" /\ Lockable(i)
  /\ Panic({LockFault(i)})
  /\ icache' = [icache EXCEPT ![i] = iunlock(e)]
  /\ ftable' = [ftable EXCEPT ![f].off = @ + Len(cells)]
  /\ proc' = [proc EXCEPT ![p] = Delivered(p, names)]
  /\ oops' = (oops \/ Unwanted(p, names))
  /\ UNCHANGED <<disk, committed, outstanding>>

\* filewrite cuts the data into pieces that fit into a transaction.
MutWriteMax == MAXOPBLOCKS * BSIZE
WriteMax == ((MAXOPBLOCKS - 1 - 1 - 2) \div 2) * BSIZE

WriteStart(p) ==
  LET f == argfd(p)
      good == f # 0 /\ ftable[f].writable
  IN
  /\ Calls(p, "write")
  /\ IF ~good THEN Return(p, proc[p], -1)
     ELSE /\ proc' = [proc EXCEPT ![p] = IF ftable[f].type = "FD_PIPE" THEN [@ EXCEPT !.pc = "pipewrite", !.f = f]
                                         ELSE [Push(@, <<"write">>) EXCEPT !.pc = "begin", !.f = f]]
          /\ UNCHANGED oops
  /\ UNCHANGED <<disk, committed, outstanding, icache, ftable, panicked>>

WritePiece(p) ==
  LET q == proc[p]
      f == ftable[q.f]
      e == ilock(p, f.ip)
      left == Len(Arg(p).data) - q.k
      n1 == IF left > WriteMax THEN WriteMax ELSE left
      piece == [j \in 1..n1 |-> <<Arg(p).data[q.k + j], 0>>]
      good == CanWrite(e.ip, f.off, n1)
      w == IF good THEN writei(WorkOn(p, e), f.ip, f.off, piece) ELSE WorkOn(p, e)
      more == good /\ n1 < left
  IN
  /\ At(p, "write") /\ Lockable(f.ip)
  /\ Panic({LockFault(f.ip), w.bad})
  /\ disk' = w.d
  /\ icache' = [icache EXCEPT ![f.ip] = iunlock(Store(e, w))]
  /\ ftable' = IF good THEN [ftable EXCEPT ![q.f].off = @ + n1] ELSE ftable
  /\ proc' = [proc EXCEPT ![p] = [Push(q, IF more THEN <<"begin", "write">> ELSE <<>>) EXCEPT
                !.pc = "end", !.log = w.log, !.k = IF good THEN @ + n1 ELSE @,
                !.r = IF good THEN Len(Arg(p).data) ELSE -1]]
  /\ UNCHANGED <<committed, outstanding, oops>>

Dup(p) ==
  LET f == argfd(p)
      good == f # 0 /\ FreeFds(proc[p]) # {}
      slot == First(FreeFds(proc[p]))
  IN
  /\ Calls(p, "dup")
  /\ ftable' = IF good THEN [ftable EXCEPT ![f].ref = @ + 1] ELSE ftable
  /\ Return(p, IF good THEN [proc[p] EXCEPT !.ofile[slot] = f] ELSE proc[p], IF good THEN slot ELSE -1)
  /\ UNCHANGED <<disk, committed, outstanding, icache, panicked>>

\* fileclose: the last reference empties the file; then the end of the pipe is closed, or the inode
\* dropped in a transaction.
Unreferenced(e) == IF e.ref > 1 THEN [e EXCEPT !.ref = @ - 1] ELSE NoFile
fileclose(f) == ftable' = [ftable EXCEPT ![f] = Unreferenced(@)]
DropFile(q, f) ==
  IF ftable[f].type = "FD_PIPE" THEN [q EXCEPT !.pc = "pipeclose", !.v = ftable[f].pipe, !.par = ftable[f].writable]
  ELSE [Push(q, <<"iput", "end">>) EXCEPT !.pc = "begin", !.v = ftable[f].ip]

Close(p) ==
  LET f == argfd(p)
      q == IF f = 0 THEN proc[p] ELSE [proc[p] EXCEPT !.ofile[FdArg(p)] = 0]
  IN
  /\ Calls(p, "close")
  /\ \/ f = 0 /\ Return(p, proc[p], -1) /\ UNCHANGED ftable
     \/ /\ f # 0 /\ fileclose(f)
        /\ IF ftable[f].ref > 1 THEN Return(p, q, 0)
           ELSE proc' = [proc EXCEPT ![p] = DropFile(q, f)] /\ UNCHANGED oops
  /\ UNCHANGED <<disk, committed, outstanding, icache, panicked>>

Fstat(p) ==
  LET f == argfd(p)
      good == f # 0 /\ ftable[f].type = "FD_INODE"
      i == ftable[f].ip
      e == ilock(p, i)
  IN
  /\ Calls(p, "fstat")
  /\ \/ /\ ~good
        /\ Return(p, proc[p], [type |-> "fail", size |-> 0]) /\ UNCHANGED <<icache, panicked>>
     \/ /\ good /\ Lockable(i)
        /\ Panic({LockFault(i)})
        /\ icache' = [icache EXCEPT ![i] = iunlock(e)]
        /\ Return(p, proc[p], [type |-> e.ip.type, size |-> e.ip.size])
  /\ UNCHANGED <<disk, committed, outstanding, ftable>>

(***************************************************************************)
(* Pipes                                                                   *)
(***************************************************************************)
\* pipealloc takes a file for the read end,
PipeFile(p) ==
  LET f == First(FreeFiles) IN
  /\ Calls(p, "pipe")
  /\ IF FreeFiles = {} THEN Return(p, proc[p], -1) /\ UNCHANGED ftable
     ELSE /\ ftable' = [ftable EXCEPT ![f].ref = 1]
          /\ proc' = [proc EXCEPT ![p] = [Jump(@, "pipealloc") EXCEPT !.f = f]]
          /\ UNCHANGED oops
  /\ UNCHANGED <<fsvars, pipes>>

\* then one for the write end and a page; sys_pipe takes two descriptors.  Without any of these all
\* is given back.
PipeAlloc(p) ==
  LET q == proc[p]
      free == {i \in Pages : ~pipes[i].page}
      i == First(free)
      f == First(FreeFiles)
      fd0 == First(FreeFds(q))
      rest == FreeFds(q) \ {fd0}
      end == [NoFile EXCEPT !.type = "FD_PIPE", !.ref = 1, !.pipe = i]
      good == FreeFiles # {} /\ free # {} /\ rest # {}
  IN
  /\ At(p, "pipealloc")
  /\ IF good
     THEN /\ ftable' = [ftable EXCEPT ![q.f] = [end EXCEPT !.readable = TRUE], ![f] = [end EXCEPT !.writable = TRUE]]
          /\ pipes' = [pipes EXCEPT ![i] = NewPipe]
          /\ Return(p, [q EXCEPT !.ofile[fd0] = q.f, !.ofile[First(rest)] = f], 0)
     ELSE /\ ftable' = [ftable EXCEPT ![q.f] = NoFile]
          /\ Return(p, q, -1) /\ UNCHANGED pipes
  /\ UNCHANGED fsvars

MutWoken(procs, i, label) == procs

\* wakeup(&p->nread) or wakeup(&p->nwrite): whoever sleeps goes back to the test it slept for.
Woken(procs, i, label) ==
  [c \in Procs |-> IF procs[c].pc = label /\ ftable[procs[c].f].pipe = i
                   THEN Jump(procs[c], IF label = "read_asleep" THEN "piperead" ELSE "pipewrite") ELSE procs[c]]

\* A write fills the pipe and wakes the readers.  While cells are left it fails if nobody can read
\* them or it was killed, and else waits for room.
PipeWrite(p) ==
  LET q == proc[p]
      i == ftable[q.f].pipe
      data == Arg(p).data
      left == SubSeq(data, q.k + 1, Len(data))
      w == PutAll(pipes[i], left)
      stop == ~pipes[i].readopen \/ q.killed
  IN
  /\ At(p, "pipewrite") /\ pipes[i].lock = 0
  /\ IF w.k = Len(left) THEN
          /\ pipes' = [pipes EXCEPT ![i] = w.pi]
          /\ proc' = Woken([proc EXCEPT ![p] = Returned(q, Len(data))], i, "read_asleep")
          /\ oops' = (oops \/ Len(data) \notin Arg(p).want)
     ELSE IF stop THEN pipes' = [pipes EXCEPT ![i] = w.pi] /\ Return(p, q, -1)
     ELSE /\ pipes' = [pipes EXCEPT ![i] = [w.pi EXCEPT !.lock = p]]
          /\ proc' = Woken([proc EXCEPT ![p] = [Jump(q, "write_sleep") EXCEPT !.k = @ + w.k]], i, "read_asleep")
          /\ UNCHANGED oops
  /\ UNCHANGED <<fsvars, ftable>>

\* A read waits while the pipe is empty and may still be written, and takes what there is.
PipeRead(p) ==
  LET q == proc[p]
      f == argfd(p)
      i == ftable[f].pipe
      w == TakeUpTo(pipes[i], Arg(p).n)
  IN
  /\ \/ Calls(p, "read") /\ f # 0 /\ ftable[f].readable /\ ftable[f].type = "FD_PIPE"
     \/ At(p, "piperead")
  /\ pipes[i].lock = 0
  /\ IF Empty(pipes[i]) /\ pipes[i].writeopen
     THEN IF q.killed THEN Return(p, q, <<"fail">>) /\ UNCHANGED pipes
          ELSE /\ pipes' = [pipes EXCEPT ![i].lock = p]
               /\ proc' = [proc EXCEPT ![p] = [Jump(q, "read_sleep") EXCEPT !.f = f]]
               /\ UNCHANGED oops
     ELSE /\ pipes' = [pipes EXCEPT ![i] = w.pi]
          /\ proc' = Woken([proc EXCEPT ![p] = Delivered(p, w.cells)], i, "write_asleep")
          /\ oops' = (oops \/ Unwanted(p, w.cells))
  /\ UNCHANGED <<fsvars, ftable>>

\* sleep() gives up the lock of the pipe as the process falls asleep; kill() does not need that lock.
PipeSleep(p) ==
  /\ \/ At(p, "read_sleep") /\ proc' = [proc EXCEPT ![p] = Jump(@, "read_asleep")]
     \/ At(p, "write_sleep") /\ proc' = [proc EXCEPT ![p] = Jump(@, "write_asleep")]
  /\ pipes' = [pipes EXCEPT ![ftable[proc[p].f].pipe].lock = 0]
  /\ UNCHANGED <<fsvars, ftable, oops>>

\* pipeclose: whoever sleeps at the other end wakes.
PipeClose(p) ==
  LET q == proc[p]
      i == q.v
      n == IF q.stack = <<>> THEN Returned(q, q.r) ELSE Pop(q)
  IN
  /\ At(p, "pipeclose") /\ pipes[i].lock = 0
  /\ pipes' = [pipes EXCEPT ![i] = Closed(@, q.par)]
  /\ proc' = Woken([proc EXCEPT ![p] = n], i, IF q.par THEN "read_asleep" ELSE "write_asleep")
  /\ oops' = (oops \/ (q.stack = <<>> /\ q.r \notin Arg(p).want))
  /\ UNCHANGED <<fsvars, ftable>>

(***************************************************************************)
(* chdir and the part of exec that reads the program                       *)
(***************************************************************************)
Chdir(p) ==
  LET q == proc[p]
      e == ilock(p, q.ip)
      dir == e.ip.type = "T_DIR"
  IN
  /\ At(p, "chdir")
  /\ \/ /\ q.ip = 0
        /\ proc' = [proc EXCEPT ![p] = Fail(q)] /\ UNCHANGED <<icache, panicked>>
     \/ /\ q.ip # 0 /\ Lockable(q.ip)
        /\ Panic({LockFault(q.ip)})
        /\ icache' = [icache EXCEPT ![q.ip] = iunlock(e)]
        /\ proc' = [proc EXCEPT ![p] = IF dir THEN PutInode(Push(q, <<"end", "chdir2">>), q.cwd)
                                       ELSE FailPut(q, q.ip)]
  /\ UNCHANGED <<disk, committed, outstanding, ftable, oops>>

ChdirDone(p) ==
  /\ At(p, "chdir2")
  /\ Return(p, [proc[p] EXCEPT !.cwd = proc[p].ip], 0)
  /\ UNCHANGED <<disk, committed, outstanding, icache, ftable, panicked>>

\* exec reads the program and fails if it is no file or its arguments do not fit into a page.
Exec(p) ==
  LET q == proc[p]
      e == ilock(p, q.ip)
  IN
  /\ At(p, "exec")
  /\ \/ /\ q.ip = 0
        /\ proc' = [proc EXCEPT ![p] = Fail(q)] /\ UNCHANGED <<icache, panicked>>
     \/ /\ q.ip # 0 /\ Lockable(q.ip)
        /\ Panic({LockFault(q.ip)})
        /\ icache' = [icache EXCEPT ![q.ip] = iunlock(e)]
        /\ proc' = [proc EXCEPT ![p] = [FailPut(q, q.ip) EXCEPT
                      !.r = IF e.ip.type = "T_FILE" /\ Arg(p).fits THEN 0 ELSE -1]]
  /\ UNCHANGED <<disk, committed, outstanding, ftable, oops>>

(***************************************************************************)
(* fork, exit and wait, as far as files are concerned                      *)
(***************************************************************************)
MutFiledup(q) == ftable

\* Every open descriptor of the parent adds a reference to its file.
filedup(q) == [f \in Files |-> [ftable[f] EXCEPT !.ref = @ + Cardinality({slot \in Fds : q.ofile[slot] = f})]]

\* The child shares the open files and the current directory of its parent.
Fork(p) ==
  LET q == proc[p]
      free == {c \in Procs : proc[c].pc = "unused"}
      c == First(free)
      child == [Unused EXCEPT !.pc = "user", !.fork = Append(q.fork, q.at), !.parent = p, !.cwd = q.cwd,
                              !.ofile = q.ofile, !.last = q.last]
  IN
  /\ Calls(p, "fork")
  /\ IF free = {} THEN Return(p, q, -1) /\ UNCHANGED <<icache, ftable>>
     ELSE /\ proc' = [proc EXCEPT ![p] = Returned(q, c), ![c] = Goto(child, 1)]
          /\ icache' = iget(icache, q.cwd)
          /\ ftable' = filedup(q)
          /\ UNCHANGED oops
  /\ UNCHANGED <<disk, committed, outstanding, panicked>>

\* exit closes the files one after the other and drops the current directory.  A killed process exits
\* when a trap finds it in its program; it may do one more call before.
Exiting(p) == At(p, "exit") \/ Calls(p, "exit") \/ (At(p, "user") /\ proc[p].killed)
OpenFds(q) == {slot \in Fds : q.ofile[slot] # 0}

ExitClose(p) ==
  LET slot == First(OpenFds(proc[p]))
      f == proc[p].ofile[slot]
      q == [proc[p] EXCEPT !.ofile[slot] = 0]
  IN
  /\ Exiting(p) /\ OpenFds(proc[p]) # {}
  /\ fileclose(f)
  /\ proc' = [proc EXCEPT ![p] = IF ftable[f].ref > 1 THEN Jump(q, "exit")
                                 ELSE DropFile(Push(q, <<"exit">>), f)]
  /\ UNCHANGED <<disk, committed, outstanding, icache, panicked, oops>>

ExitCwd(p) ==
  /\ Exiting(p) /\ OpenFds(proc[p]) = {}
  /\ proc' = [proc EXCEPT ![p] = [Push(@, <<"iput", "end", "exit_end">>) EXCEPT
                                  !.pc = "begin", !.v = proc[p].cwd, !.cwd = 0]]
  /\ UNCHANGED <<disk, committed, outstanding, icache, ftable, panicked, oops>>

\* Its children become those of init, written 0, which waits for them for ever.
ExitDone(p) ==
  /\ At(p, "exit_end")
  /\ proc' = [c \in Procs |-> IF c = p THEN Jump(proc[c], "zombie")
                              ELSE IF proc[c].parent = p THEN [proc[c] EXCEPT !.parent = 0] ELSE proc[c]]
  /\ UNCHANGED <<fsvars, ftable, oops>>

InitWait(c) ==
  /\ c # 1 /\ At(c, "zombie") /\ proc[c].parent = 0
  /\ proc' = [proc EXCEPT ![c] = Unused]
  /\ UNCHANGED <<fsvars, ftable, oops>>

\* kill marks a process and makes it leave its sleep on a pipe.
Kill(p) ==
  LET victims == {c \in Procs : proc[c].pc # "unused" /\ proc[c].fork = Append(proc[p].fork, Arg(p).nth)}
      woken(q) == IF q.pc = "read_asleep" THEN "piperead" ELSE IF q.pc = "write_asleep" THEN "pipewrite" ELSE q.pc
      q == Returned(proc[p], IF victims = {} THEN -1 ELSE 0)
  IN
  /\ Calls(p, "kill")
  /\ proc' = [c \in Procs |-> IF c = p THEN q
                              ELSE IF c \in victims THEN [proc[c] EXCEPT !.killed = TRUE, !.pc = woken(proc[c])]
                              ELSE proc[c]]
  /\ UNCHANGED <<fsvars, ftable, oops>>

Children(p, labels) == {c \in Procs : proc[c].parent = p /\ proc[c].pc \in labels}

\* wait takes one zombie, sleeps while there is none, and fails without children.
Wait(p) ==
  /\ Calls(p, "wait")
  /\ \/ \E c \in Children(p, {"zombie"}) :
          /\ proc' = [proc EXCEPT ![p] = Returned(proc[p], c), ![c] = Unused]
          /\ oops' = (oops \/ c \notin Arg(p).want)
     \/ /\ proc[p].killed \/ \A c \in Procs : proc[c].parent # p
        /\ Return(p, proc[p], -1)
  /\ UNCHANGED <<disk, committed, outstanding, icache, ftable, panicked>>

\* The first process is done.
Finished == proc[1].pc = "zombie" \/ panicked # ""
Stop == Finished /\ UNCHANGED vars

CallStep(p) ==
  \/ LinkOld(p) \/ LinkNew(p) \/ LinkExists(p) \/ LinkDone(p) \/ LinkBad(p)
  \/ UnlinkLookup(p) \/ UnlinkEntry(p) \/ UnlinkBad(p) \/ UnlinkInode(p)
  \/ CreateLookup(p) \/ CreateOld(p) \/ CreateNew(p) \/ Created(p)
  \/ OpenInode(p) \/ OpenFile(p) \/ OpenSet(p) \/ Read(p) \/ ReadBad(p) \/ WriteStart(p) \/ WritePiece(p)
  \/ Dup(p) \/ Close(p) \/ Fstat(p) \/ Chdir(p) \/ ChdirDone(p) \/ Exec(p)
PipeStep(p) ==
  PipeFile(p) \/ PipeAlloc(p) \/ PipeWrite(p) \/ PipeRead(p) \/ PipeSleep(p) \/ PipeClose(p)
ProcStep(p) ==
  Fork(p) \/ ExitClose(p) \/ ExitCwd(p) \/ ExitDone(p) \/ InitWait(p) \/ Wait(p) \/ Kill(p)
FsStep(p) ==
  \/ BeginOp(p) \/ EndOp(p) \/ NamexStart(p) \/ NamexElement(p) \/ Iput(p) \/ IputFreed(p) \/ IputDrop(p)

Next ==
  \/ Stop
  \/ \E p \in Procs : (FsStep(p) \/ CallStep(p) \/ ProcStep(p)) /\ UNCHANGED <<pipes, test>>
  \/ \E p \in Procs : PipeStep(p) /\ UNCHANGED test
Spec == Init /\ [][Next]_vars


(***************************************************************************)
(* Properties                                                              *)
(***************************************************************************)
\* Counts stay in their ranges, descriptors refer to open files, locks to processes.
TypeOK ==
  /\ outstanding \in 0..LOGOPS
  /\ \A i \in Inums : icache[i].ref \in Nat /\ icache[i].lock \in 0..NPROC
  /\ \A f \in Files : ftable[f].ref \in Nat
  /\ \A p \in Procs : \A d \in Fds : proc[p].ofile[d] # 0 => ftable[proc[p].ofile[d]].ref > 0

\* Every test of usertests.c gets the results it expects from the calls, in every interleaving of its
\* processes, and the kernel does not panic.
TestsPass == ~oops /\ panicked = ""

\* Where a process goes on after all the routines that it is in: its last label.
Iputs == {"iput", "iput_freed", "iput_drop"}
Body(q) == IF q.stack = <<>> THEN q.pc ELSE Last(q.stack)

\* The variables through which process q has a reference to an inode: its current directory, but chdir
\* drops the old one before it stores the new one; ip, old and nx of the calls that go on to use
\* them; and what iput is about to drop.
Pointer == {"cwd", "ip", "old", "nx", "v"}
HasRef(q, x) ==
  \/ x = "cwd" /\ Body(q) # "chdir2"
  \/ /\ x = "ip" /\ q.pc # "namex0"
     /\ Body(q) \in {"link", "link2", "link_exists", "unlink", "unlink2", "unlink_bad", "create", "create_new",
                     "created", "open", "open2", "open3", "chdir", "chdir2", "exec"}
  \/ x = "old" /\ Body(q) \in {"link2", "link_exists", "link_done", "link_bad"}
  \/ x = "nx" /\ Body(q) \in {"unlink2", "unlink3", "create_old", "create_new"}
  \/ x = "v" /\ (q.pc \in Iputs \/ (q.pc = "begin" /\ Body(q) # "write"))
\* Those of them whose inode it has locked.
HasLock(q, x) ==
  \/ x = "ip" /\ Body(q) \in {"link_exists", "unlink2", "unlink_bad", "create_new", "created", "open2"}
  \/ x = "nx" /\ Body(q) = "unlink3"
  \/ x = "v" /\ q.pc = "iput_freed"
\* Between begin_op and end_op.
InOp(q) == q.pc \in Iputs \/ q.pc \in {"namex0", "namex", "end", "write", "chdir", "exec", "open", "open2", "create",
             "create_old", "create_new", "created", "unlink", "unlink2", "unlink3", "unlink_bad",
             "link", "link2", "link_exists", "link_done", "link_bad"}

\* fs.c's "ip->ref tracks the number of in-memory pointers to the entry (open files and current
\* directories)", exactly and at any moment, with the pointers of the calls in progress: no path
\* through namex, create, link, unlink, open or chdir, however it fails, loses or keeps a reference.
FilesOn(i) == {f \in Files : ftable[f].type = "FD_INODE" /\ ftable[f].ip = i}
HoldersOf(i) == {d \in Pointer \X Procs : HasRef(proc[d[2]], d[1]) /\ proc[d[2]][d[1]] = i}
InodesCounted == \A i \in Inums : icache[i].ref = Cardinality(FilesOn(i)) + Cardinality(HoldersOf(i))

\* The lock of an inode is held by the process that will release it, so that iunlock's test
\* holdingsleep(&ip->lock) always holds, and by nobody who is back in its program.
LocksOwned ==
  \A i \in Inums, p \in Procs :
    icache[i].lock = p <=> \E x \in Pointer : HasLock(proc[p], x) /\ proc[p][x] = i

\* log.outstanding: "how many FS sys calls are executing"; every begin_op has its one end_op.
OpsCounted == outstanding = Cardinality({p \in Procs : InOp(proc[p])})

\* The types, and what the calls take and have to give back: references to inodes, their locks, and
\* the log's reservations.
Inv == TypeOK /\ InodesCounted /\ LocksOwned /\ OpsCounted

\* The disk, the inodes of the cache and the offsets hold what they should.
DiskTyped ==
  /\ disk.dinode \in [Inums -> Dinode] /\ disk.bitmap \subseteq Blocks
  /\ \A i \in Inums : icache[i].ip \in Dinode
  /\ \A f \in Files : ftable[f].off \in 0..MAXFILE * BSIZE

\* An inode is not given up while an open file or a current directory points to it.
InUse ==
  \A i \in Inums :
    FilesOn(i) # {} \/ (\E p \in Procs : <<"cwd", p>> \in HoldersOf(i)) => disk.dinode[i].type # "free"

\* The inode cache is write-through: an entry that nobody has locked agrees with the disk.
WriteThrough ==
  \A i \in Inums : (icache[i].valid /\ icache[i].lock = 0) => icache[i].ip = disk.dinode[i]

\* What a crash leaves is a whole file system: the link count of an inode is the number of names
\* for it (with the ".." of subdirectories, without "."), names lead to allocated inodes, and every
\* block in use belongs to exactly one inode.
Linked(d) == {i \in Inums : d.dinode[i].type = "T_DIR" /\ d.dinode[i].nlink > 0}
Names(d) ==
  {<<e, CellAt(d, d.dinode[e[1]], e[2])>> :
     e \in {e \in Linked(d) \X (0..MAXFILE * BSIZE - 1) : e[2] < d.dinode[e[1]].size}}
Whole(d) ==
  LET inums == [e \in {e \in Names(d) : e[2][1] # "." /\ e[2][2] # 0} |-> e[2][2]]
      blocks(i) == BlocksOf(d, d.dinode[i])
  IN /\ \A i \in Inums : d.dinode[i].nlink = Cardinality({e \in DOMAIN inums : inums[e] = i})
     /\ \A e \in DOMAIN inums : d.dinode[inums[e]].type # "free"
     /\ d.bitmap = UNION {blocks(i) : i \in Inums}
     /\ Cardinality(d.bitmap) = MapThenSumSet(LAMBDA i : Cardinality(blocks(i)), Inums)

\* iput: "If that was the last reference and the inode has no links to it, free the inode (and its
\* content) on disk."
UnlinkedIsFreed ==
  outstanding = 0 => \A i \in Inums : (disk.dinode[i].type # "free" /\ disk.dinode[i].nlink = 0) => icache[i].ref > 0
OneProcess == {t \in Tests : \A k \in DOMAIN Programs[t] : Programs[t][k].call # "fork"}

\* The above, and the freeing of unlinked inodes as long as only one process is at work.
CrashLeavesWhole == Whole(committed) /\ (test \in OneProcess => UnlinkedIsFreed)

\* The content of the disk and of the inode cache: an inode is never given up, or changed in memory
\* only, while somebody relies on it, and a crash leaves a whole file system.
ContentSound == DiskTyped /\ InUse /\ WriteThrough /\ CrashLeavesWhole

\* No operation writes more blocks than begin_op reserved for it, also when filewrite splits a large
\* write ("to avoid exceeding the maximum log transaction size").
OpFitsLog == \A p \in Procs : Cardinality(proc[p].log) <= MAXOPBLOCKS

\* The reference count of a file structure is the number of descriptors that refer to it, in whatever
\* processes, and of calls of pipe() that have it and no descriptor yet: fork, dup, exit and the error
\* paths of open and pipe give back exactly what they took.
FdsOf(f) == {d \in Procs \X Fds : proc[d[1]].ofile[d[2]] = f}
Allocating(f) == {p \in Procs : proc[p].pc = "pipealloc" /\ proc[p].f = f}
FilesCounted == \A f \in Files : ftable[f].ref = Cardinality(FdsOf(f)) + Cardinality(Allocating(f))

\* The ends of a pipe are what pipealloc handed out: each open flag stands for one file structure, or for
\* the process that is closing it, and the page is given back with the last of them.
EndsOf(i, writable) ==
  {f \in Files : ftable[f].type = "FD_PIPE" /\ ftable[f].pipe = i /\ ftable[f].writable = writable}
Closers(i, writable) == {p \in Procs : proc[p].pc = "pipeclose" /\ proc[p].v = i /\ proc[p].par = writable}
Ends(i, writable) == Cardinality(EndsOf(i, writable)) + Cardinality(Closers(i, writable))
PipeFreedByLast ==
  \A i \in Pages : /\ Ends(i, FALSE) = (IF pipes[i].readopen THEN 1 ELSE 0)
                   /\ Ends(i, TRUE) = (IF pipes[i].writeopen THEN 1 ELSE 0)
                   /\ pipes[i].page = (pipes[i].readopen \/ pipes[i].writeopen)

\* Nobody sleeps on a pipe that has what he waits for: readers sleep while it is empty and may be
\* written, writers while it is full and may be read.
PipeSleepers ==
  \A p \in Procs :
    LET pi == pipes[ftable[proc[p].f].pipe] IN
    /\ proc[p].pc = "read_asleep" => Empty(pi) /\ pi.writeopen
    /\ proc[p].pc = "write_asleep" => Full(pi) /\ pi.readopen

\* The inode a process waits for, and sets of processes that wait for each other.
Wants(p) ==
  LET q == proc[p] IN
  CASE q.pc = "iput" -> q.v
    [] q.pc \in {"unlink2", "create_old", "create_new"} -> q.nx
    [] q.pc = "link_bad" -> q.old
    [] q.pc \in {"namex", "link", "link2", "unlink", "create", "open", "chdir", "exec"} -> q.ip
    [] q.pc = "write" -> ftable[q.f].ip
    [] q.pc = "user" /\ Calls(p, "read") /\ argfd(p) # 0 -> ftable[argfd(p)].ip
    [] OTHER -> 0
Holder(i) == IF i = 0 THEN 0 ELSE icache[i].lock
Waiting == {p \in Procs : Holder(Wants(p)) # 0}
Deadlocked(S) == S # {} /\ \A p \in S : Holder(Wants(p)) \in S

\* No processes wait for each other's inode locks: "another concurrent link/unlink/create test, to
\* look for deadlocks" (usertests.c).
NoDeadlock == ~\E S \in SUBSET Waiting : Deadlocked(S)

\* Without two names for one file in a directory in use nobody waits for ever; with them a deadlock
\* needs a process that waits in iput while it holds another inode.
SharedNames == {"concreate", "linkunlink"}
DeadlockNeedsIput ==
  \A S \in SUBSET Waiting :
    Deadlocked(S) => test \in SharedNames /\ \E p \in S : proc[p].pc = "iput" /\ \E i \in Inums : Holder(i) = p

=============================================================================

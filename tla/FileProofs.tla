----------------------------- MODULE FileProofs -----------------------------
(***************************************************************************)
(* Proofs about the open files and the pipes of FileSys, for every disk,   *)
(* every program and every number of processes, descriptors, files and     *)
(* pages.                                                                  *)
(***************************************************************************)
EXTENDS FileSys, FiniteSetTheorems, FunctionTheorems, SequenceTheorems, WellFoundedInduction, TLAPS

(***************************************************************************)
(* The invariant                                                           *)
(***************************************************************************)
\* The records of the model, whatever their fields hold.
IsProcess(q) == q = [x \in DOMAIN Unused |-> q[x]]
IsFile(e) == e = [x \in DOMAIN NoFile |-> e[x]]
IsPipe(pi) == pi = [x \in DOMAIN NoPipe |-> pi[x]]

\* Where a process may be, and with which labels on its stack: a call is at a label of its own, or
\* in namex or iput on its behalf, or in the end_op that ends it, close() or exit() in the iput that
\* drops the inode of a file.
Bodies == {"link", "link2", "link_exists", "link_done", "link_bad", "unlink", "unlink2", "unlink3",
           "unlink_bad", "create", "create_old", "create_new", "created", "open", "open2", "write",
           "chdir", "chdir2", "exec", "exit"}
PipeLabels == {"pipealloc", "pipewrite", "write_sleep", "write_asleep", "piperead", "read_sleep", "read_asleep"}
EndStacks == {<<"end">>, <<"end", "chdir2">>, <<"end", "exit">>, <<"end", "exit_end">>}
Shape(pc, stack) ==
  \/ pc \in Bodies \cup PipeLabels \cup {"user", "open3", "exit_end", "zombie", "unused"} /\ stack = <<>>
  \/ pc = "pipeclose" /\ stack \in {<<>>, <<"exit">>}
  \/ pc \in {"namex0", "namex"} \cup Iputs /\ \E b \in Bodies : stack = <<b>>
  \/ pc \in Iputs /\ \E b \in Bodies : stack = <<"namex", b>>
  \/ pc \in Iputs /\ stack \in EndStacks
  \/ pc = "begin" /\ stack \in {<<"write">>, <<"iput", "end">>, <<"iput", "end", "exit">>, <<"iput", "end", "exit_end">>}
  \/ pc = "end" /\ stack \in {<<>>, <<"open3">>, <<"begin", "write">>, <<"chdir2">>, <<"exit">>, <<"exit_end">>}

\* A process that closed its files, and one that is about to set the fields of the file it opened.
Leaving(q) == q.pc \in {"exit_end", "zombie", "unused"} \/ (q.stack # <<>> /\ q.stack[Len(q.stack)] = "exit_end")
Opening(q) == q.pc = "open3" \/ (q.stack # <<>> /\ q.stack[1] = "open3")

ProcsOK ==
  /\ DOMAIN proc = Procs
  /\ \A p \in Procs :
       /\ IsProcess(proc[p]) /\ Shape(proc[p].pc, proc[p].stack)
       /\ proc[p].ofile \in [Fds -> 0..NFILE]
       /\ Leaving(proc[p]) => \A slot \in Fds : proc[p].ofile[slot] = 0
FileOK(e) ==
  /\ IsFile(e) /\ e.ref \in Nat
  /\ e.ref = 0 => e.type = "FD_NONE"
  /\ e.type = "FD_PIPE" => e.pipe \in Pages /\ e.writable \in BOOLEAN /\ e.readable = ~e.writable
FilesOK == DOMAIN ftable = Files /\ \A f \in Files : FileOK(ftable[f])
\* The counters of a pipe.
RingOK(pi) == pi.nread \in 0..UINT - 1 /\ pi.nwrite \in 0..UINT - 1 /\ Held(pi) <= PIPESIZE
PipeOK(pi) ==
  IsPipe(pi) /\ pi.lock \in 0..NPROC /\ pi.readopen \in BOOLEAN /\ pi.writeopen \in BOOLEAN /\ RingOK(pi)
PipesOK == DOMAIN pipes = Pages /\ \A i \in Pages : PipeOK(pipes[i])

\* What a process knows of the file it works on.
Fresh(f) == f \in Files /\ ftable[f].type = "FD_NONE" /\ ftable[f].ref = 1
PipeEnd(f, writable) == f \in Files /\ ftable[f].type = "FD_PIPE" /\ ftable[f].writable = writable
Writing(q) == q.pc \in {"pipewrite", "write_sleep", "write_asleep"}
Reading(q) == q.pc \in {"piperead", "read_sleep", "read_asleep"}
PipeOf(q) == pipes[ftable[q.f].pipe]
Knows(p) ==
  LET q == proc[p] IN
  /\ q.pc = "pipealloc" => Fresh(q.f)
  /\ Opening(q) => Fresh(q.f) /\ \E slot \in Fds : q.ofile[slot] = q.f
  /\ Writing(q) => PipeEnd(q.f, TRUE) /\ \E slot \in Fds : q.ofile[slot] = q.f
  /\ Reading(q) => PipeEnd(q.f, FALSE) /\ q.f = argfd(p)
  /\ q.pc = "pipeclose" => q.v \in Pages /\ q.par \in BOOLEAN
  /\ q.pc = "read_sleep" => PipeOf(q).lock = p /\ Empty(PipeOf(q)) /\ PipeOf(q).writeopen
  /\ q.pc = "write_sleep" => PipeOf(q).lock = p /\ Full(PipeOf(q)) /\ PipeOf(q).readopen
  /\ q.pc = "read_asleep" => PipeOf(q).writeopen
  /\ q.pc = "write_asleep" => Full(PipeOf(q)) /\ PipeOf(q).readopen

FileInv ==
  /\ ProcsOK /\ FilesOK /\ PipesOK
  /\ \A p \in Procs : Knows(p)
  /\ FilesCounted /\ PipeFreedByLast

(***************************************************************************)
(* The ring of a pipe                                                      *)
(***************************************************************************)
\* The remainder of a number that is at most one range away.
LEMMA ModNear ==
  ASSUME NEW U \in Nat \ {0}, NEW x \in Int, -U <= x, x < 2 * U
  PROVE  x % U = IF x < 0 THEN x + U ELSE IF x < U THEN x ELSE x - U
<1>1. PICK d \in Int, m \in 0..U - 1 : x = U * d + m /\ m = x % U
  OBVIOUS
<1>2. CASE x < 0
  <2>1. d < 0 /\ d > -2 BY <1>1, <1>2
  <2>. QED BY <1>1, <1>2, <2>1
<1>3. CASE x >= 0 /\ x < U
  <2>1. d < 1 /\ d > -1 BY <1>1, <1>3
  <2>. QED BY <1>1, <1>3, <2>1
<1>4. CASE x >= U
  <2>1. d < 2 /\ d > 0 BY <1>1, <1>4
  <2>. QED BY <1>1, <1>4, <2>1
<1>. QED BY <1>2, <1>3, <1>4

\* The number of cells is the distance of the counters, and tells a full and an empty pipe.
LEMMA HeldIs ==
  ASSUME NEW pi, pi.nread \in 0..UINT - 1, pi.nwrite \in 0..UINT - 1
  PROVE  /\ Held(pi) \in 0..UINT - 1
         /\ Held(pi) = IF pi.nwrite >= pi.nread THEN pi.nwrite - pi.nread ELSE pi.nwrite - pi.nread + UINT
         /\ Empty(pi) <=> Held(pi) = 0
         /\ Full(pi) <=> Held(pi) = PIPESIZE
<1>1. PIPESIZE \in Nat \ {0} /\ UINT \in Nat \ {0} /\ UINT > PIPESIZE
  BY PipeAssumption
<1>2. PICK r \in 0..UINT - 1, w \in 0..UINT - 1 : r = pi.nread /\ w = pi.nwrite
  OBVIOUS
<1>3. (w - r) % UINT = IF w >= r THEN w - r ELSE w - r + UINT
  <2>1. w - r \in Int /\ -UINT <= w - r /\ w - r < 2 * UINT BY <1>1
  <2>2. (w - r) % UINT = IF w - r < 0 THEN w - r + UINT ELSE IF w - r < UINT THEN w - r ELSE w - r - UINT
    BY ONLY <1>1, <2>1, ModNear
  <2>. QED BY <1>1, <2>2
<1>4. (r + PIPESIZE) % UINT = IF r + PIPESIZE < UINT THEN r + PIPESIZE ELSE r + PIPESIZE - UINT
  <2>1. PICK x \in Int : x = r + PIPESIZE /\ 0 <= x /\ -UINT <= x /\ x < 2 * UINT BY <1>1
  <2>2. x % UINT = IF x < 0 THEN x + UINT ELSE IF x < UINT THEN x ELSE x - UINT
    BY ONLY <1>1, <2>1, ModNear
  <2>. QED BY <1>1, <2>1, <2>2
<1>5. PICK h, m : h = Held(pi) /\ m = (r + PIPESIZE) % UINT
  OBVIOUS
<1>6. h = (w - r) % UINT /\ (Full(pi) <=> w = m) /\ (Empty(pi) <=> r = w)
  BY <1>2, <1>5 DEF Held, Full, Empty
<1>7. h = IF w >= r THEN w - r ELSE w - r + UINT
  BY <1>3, <1>6
<1>8. m = IF r + PIPESIZE < UINT THEN r + PIPESIZE ELSE r + PIPESIZE - UINT
  BY <1>4, <1>5
<1>9. h \in 0..UINT - 1 /\ (r = w <=> h = 0) /\ (w = m <=> h = PIPESIZE)
  BY <1>1, <1>7, <1>8
<1>. QED BY <1>2, <1>5, <1>6, <1>7, <1>9

\* k cells more, or fewer.
LEMMA HeldGrows ==
  ASSUME NEW pi, RingOK(pi), NEW k \in 0..Room(pi), NEW n,
         n.nwrite = (pi.nwrite + k) % UINT, n.nread = pi.nread
  PROVE  RingOK(n) /\ Held(n) = Held(pi) + k
<1>1. PIPESIZE \in Nat \ {0} /\ UINT \in Nat \ {0} /\ UINT > PIPESIZE
  BY PipeAssumption
<1>2. PICK r \in 0..UINT - 1, w \in 0..UINT - 1, h \in 0..UINT - 1 :
        r = pi.nread /\ w = pi.nwrite /\ h = Held(pi) /\ h <= PIPESIZE
        /\ h = IF w >= r THEN w - r ELSE w - r + UINT
  BY HeldIs DEF RingOK
<1>3. k \in 0..PIPESIZE - h
  BY <1>2 DEF Room
<1>4. PICK x \in Int : x = w + k /\ 0 <= x /\ -UINT <= x /\ x < 2 * UINT
  BY <1>1, <1>2, <1>3
<1>5. x % UINT = IF x < 0 THEN x + UINT ELSE IF x < UINT THEN x ELSE x - UINT
  BY ONLY <1>1, <1>4, ModNear
<1>6. PICK m : m = n.nwrite
  OBVIOUS
<1>7. m = IF x < UINT THEN x ELSE x - UINT
  BY <1>2, <1>4, <1>5, <1>6
<1>8. m \in 0..UINT - 1 /\ h + k = IF m >= r THEN m - r ELSE m - r + UINT
  BY <1>1, <1>2, <1>3, <1>4, <1>7
<1>9. Held(n) = IF m >= r THEN m - r ELSE m - r + UINT
  BY <1>2, <1>6, <1>8, HeldIs
<1>. QED BY <1>1, <1>2, <1>3, <1>6, <1>8, <1>9 DEF RingOK

LEMMA HeldShrinks ==
  ASSUME NEW pi, RingOK(pi), NEW k \in 0..Held(pi), NEW n,
         n.nread = (pi.nread + k) % UINT, n.nwrite = pi.nwrite
  PROVE  RingOK(n) /\ Held(n) = Held(pi) - k
<1>1. PIPESIZE \in Nat \ {0} /\ UINT \in Nat \ {0} /\ UINT > PIPESIZE
  BY PipeAssumption
<1>2. PICK r \in 0..UINT - 1, w \in 0..UINT - 1, h \in 0..UINT - 1 :
        r = pi.nread /\ w = pi.nwrite /\ h = Held(pi) /\ h <= PIPESIZE
        /\ h = IF w >= r THEN w - r ELSE w - r + UINT
  BY HeldIs DEF RingOK
<1>3. k \in 0..h
  BY <1>2
<1>4. PICK x \in Int : x = r + k /\ 0 <= x /\ -UINT <= x /\ x < 2 * UINT
  BY <1>1, <1>2, <1>3
<1>5. x % UINT = IF x < 0 THEN x + UINT ELSE IF x < UINT THEN x ELSE x - UINT
  BY ONLY <1>1, <1>4, ModNear
<1>6. PICK m : m = n.nread
  OBVIOUS
<1>7. m = IF x < UINT THEN x ELSE x - UINT
  BY <1>2, <1>4, <1>5, <1>6
<1>8. m \in 0..UINT - 1 /\ h - k = IF w >= m THEN w - m ELSE w - m + UINT
  BY <1>1, <1>2, <1>3, <1>4, <1>7
<1>9. Held(n) = IF w >= m THEN w - m ELSE w - m + UINT
  BY <1>2, <1>6, <1>8, HeldIs
<1>. QED BY <1>1, <1>2, <1>3, <1>6, <1>8, <1>9 DEF RingOK

(***************************************************************************)
(* Processes and their stacks                                              *)
(***************************************************************************)
Fields == {"pc", "fork", "at", "arg", "killed", "got", "stack", "parent", "cwd", "ofile", "last",
           "ip", "old", "nx", "v", "path", "par", "f", "k", "r", "log"}

LEMMA FieldsAre == DOMAIN Unused = Fields
BY DEF Unused, Fields

\* A record whose fields were set in turn: what a call leaves when it returns, and a child of forked.
LEMMA UnusedRecord == DOMAIN Unused = Fields /\ IsProcess(Unused) /\ Unused.stack = <<>>
<1>1. IsProcess(Unused)
  BY DEF IsProcess, Unused
<1>2. Unused.stack = <<>>
  BY DEF Unused
<1>. QED BY <1>1, <1>2, FieldsAre

Ended(pc, killed, forked, parent, cwd, ofile, last) ==
  [Unused EXCEPT !.pc = pc, !.killed = killed, !.fork = forked, !.parent = parent, !.cwd = cwd, !.ofile = ofile,
                 !.last = last]
Child(pc, forked, parent, cwd, ofile, last) ==
  [Unused EXCEPT !.pc = pc, !.fork = forked, !.parent = parent, !.cwd = cwd, !.ofile = ofile, !.last = last]

LEMMA EndedIs ==
  ASSUME NEW pc, NEW killed, NEW forked, NEW parent, NEW cwd, NEW ofile, NEW last,
         NEW n, n = Ended(pc, killed, forked, parent, cwd, ofile, last)
  PROVE  IsProcess(n) /\ n.pc = pc /\ n.stack = <<>> /\ n.cwd = cwd /\ n.ofile = ofile
<1>1. PICK u : u = Unused
  OBVIOUS
<1>2. DOMAIN u = Fields /\ u.stack = <<>>
  BY <1>1, UnusedRecord
<1>3. n = [u EXCEPT !.pc = pc, !.killed = killed, !.fork = forked, !.parent = parent, !.cwd = cwd,
                    !.ofile = ofile, !.last = last]
  BY <1>1 DEF Ended
<1>4. n = [x \in Fields |-> n[x]]
  BY ONLY <1>2, <1>3
<1>5. n.pc = pc /\ n.cwd = cwd /\ n.ofile = ofile /\ n.stack = u.stack
  BY ONLY <1>2, <1>3 DEF Fields
<1>. QED BY <1>2, <1>4, <1>5, FieldsAre DEF IsProcess

LEMMA ChildIs ==
  ASSUME NEW pc, NEW forked, NEW parent, NEW cwd, NEW ofile, NEW last,
         NEW n, n = Child(pc, forked, parent, cwd, ofile, last)
  PROVE  IsProcess(n) /\ n.pc = pc /\ n.stack = <<>> /\ n.cwd = cwd /\ n.ofile = ofile
<1>1. PICK u : u = Unused
  OBVIOUS
<1>2. DOMAIN u = Fields /\ u.stack = <<>>
  BY <1>1, UnusedRecord
<1>3. n = [u EXCEPT !.pc = pc, !.fork = forked, !.parent = parent, !.cwd = cwd, !.ofile = ofile, !.last = last]
  BY <1>1 DEF Child
<1>4. n = [x \in Fields |-> n[x]]
  BY ONLY <1>2, <1>3
<1>5. n.pc = pc /\ n.cwd = cwd /\ n.ofile = ofile /\ n.stack = u.stack
  BY ONLY <1>2, <1>3 DEF Fields
<1>. QED BY <1>2, <1>4, <1>5, FieldsAre DEF IsProcess

\* Short sequences.
LEMMA AppendThird ==
  ASSUME NEW a, NEW b, NEW c
  PROVE  <<a, b>> \o <<c>> = <<a, b, c>>
<1>1. /\ Len(<<a, b>> \o <<c>>) = 3 /\ <<a, b>> \o <<c>> \in Seq({a, b, c})
      /\ <<a, b, c>> \in Seq({a, b, c}) /\ Len(<<a, b, c>>) = 3
  OBVIOUS
<1>2. (<<a, b>> \o <<c>>)[1] = a /\ (<<a, b>> \o <<c>>)[2] = b /\ (<<a, b>> \o <<c>>)[3] = c
  OBVIOUS
<1>3. \A i \in 1..3 : (<<a, b>> \o <<c>>)[i] = <<a, b, c>>[i]
  BY <1>2
<1>. QED BY <1>1, <1>3, SeqEqual

LEMMA ShortSequences ==
  ASSUME NEW a, NEW b, NEW c
  PROVE  /\ Head(<<a>>) = a /\ Head(<<a, b>>) = a /\ Head(<<a, b, c>>) = a
         /\ Tail(<<a>>) = <<>> /\ Tail(<<a, b>>) = <<b>> /\ Tail(<<a, b, c>>) = <<b, c>>
         /\ <<a>> \o <<>> = <<a>> /\ <<a, b>> \o <<>> = <<a, b>> /\ <<a, b, c>> \o <<>> = <<a, b, c>>
         /\ <<a>> \o <<b>> = <<a, b>> /\ <<a, b>> \o <<c>> = <<a, b, c>>
<1>1. /\ Head(<<a>>) = a /\ Head(<<a, b>>) = a /\ Head(<<a, b, c>>) = a
      /\ Tail(<<a>>) = <<>> /\ Tail(<<a, b>>) = <<b>> /\ Tail(<<a, b, c>>) = <<b, c>>
  OBVIOUS
<1>2. <<a>> \o <<>> = <<a>> /\ <<a, b>> \o <<>> = <<a, b>> /\ <<a, b, c>> \o <<>> = <<a, b, c>>
  OBVIOUS
<1>3. <<a>> \o <<b>> = <<a, b>>
  <2>1. Len(<<a>> \o <<b>>) = 2 /\ <<a>> \o <<b>> \in Seq({a, b}) /\ <<a, b>> \in Seq({a, b}) /\ Len(<<a, b>>) = 2
    OBVIOUS
  <2>2. (<<a>> \o <<b>>)[1] = a /\ (<<a>> \o <<b>>)[2] = b
    OBVIOUS
  <2>3. \A i \in 1..2 : (<<a>> \o <<b>>)[i] = <<a, b>>[i]
    BY <2>2
  <2>. QED BY <2>1, <2>3, SeqEqual
<1>4. <<a, b>> \o <<c>> = <<a, b, c>>
  BY ONLY AppendThird, Zenon
<1>. QED BY <1>1, <1>2, <1>3, <1>4

LEMMA JumpIs ==
  ASSUME NEW q, IsProcess(q), NEW l
  PROVE  /\ IsProcess(Jump(q, l)) /\ Jump(q, l).pc = l
         /\ \A x \in Fields \ {"pc"} : Jump(q, l)[x] = q[x]
BY FieldsAre DEF IsProcess, Fields, Jump

LEMMA GotoIs ==
  ASSUME NEW q, IsProcess(q), NEW k
  PROVE  /\ IsProcess(Goto(q, k))
         /\ \A x \in Fields \ {"at", "arg"} : Goto(q, k)[x] = q[x]
<1>1. PICK e : Goto(q, k) = [q EXCEPT !.at = k, !.arg = e]
  BY DEF Goto
<1>. QED BY <1>1, FieldsAre DEF IsProcess, Fields

LEMMA ReturnedIs ==
  ASSUME NEW q, IsProcess(q), NEW r
  PROVE  /\ IsProcess(Returned(q, r)) /\ Returned(q, r).ofile = q.ofile /\ Returned(q, r).stack = <<>>
         /\ Returned(q, r).pc \in {"exit", "user"} /\ Returned(q, r).cwd = q.cwd
<1>. DEFINE pc == IF q.killed THEN "exit" ELSE "user"
            last == IF q.arg.call = "open" THEN r ELSE q.last
<1>1. Returned(q, r) = Goto(Ended(pc, q.killed, q.fork, q.parent, q.cwd, q.ofile, last), q.at + 1)
  BY DEF Returned, Ended
<1>8. pc \in {"exit", "user"}
  OBVIOUS
<1>. HIDE DEF pc, last
<1>2. PICK n : n = Ended(pc, q.killed, q.fork, q.parent, q.cwd, q.ofile, last)
  OBVIOUS
<1>3. IsProcess(n) /\ n.pc = pc /\ n.stack = <<>> /\ n.cwd = q.cwd /\ n.ofile = q.ofile
  BY <1>2, EndedIs
<1>4. PICK m : m = Goto(n, q.at + 1)
  OBVIOUS
<1>5. Returned(q, r) = m
  BY <1>1, <1>2, <1>4
<1>6. IsProcess(m) /\ \A x \in Fields \ {"at", "arg"} : m[x] = n[x]
  BY <1>3, <1>4, GotoIs
<1>7. m.ofile = n.ofile /\ m.stack = n.stack /\ m.pc = n.pc /\ m.cwd = n.cwd
  BY <1>6 DEF Fields
<1>. QED BY <1>3, <1>5, <1>6, <1>7, <1>8

\* A step of a process that touches neither its descriptors nor a pipe.
Away(q) == q.pc \notin PipeLabels \cup {"pipeclose"}
Calm(q, n) ==
  /\ IsProcess(n) /\ Shape(n.pc, n.stack) /\ n.ofile = q.ofile /\ Away(q) /\ Away(n)
  /\ Leaving(n) => Leaving(q) \/ \A slot \in Fds : n.ofile[slot] = 0
  /\ Opening(n) => Opening(q) /\ n.f = q.f

\* A process in the middle of a call that has nothing to do with a pipe.
Busy(n) == Shape(n.pc, n.stack) /\ Away(n) /\ ~Leaving(n) /\ ~Opening(n)

LEMMA BusyBody ==
  ASSUME NEW n, n.pc \in Bodies \cup {"user"}, n.stack = <<>>
  PROVE  Busy(n)
<1>1. ~Leaving(n) /\ ~Opening(n)
  BY DEF Leaving, Opening, Bodies
<1>2. Shape(n.pc, n.stack)
  BY DEF Shape
<1>3. Away(n)
  BY DEF Away, Bodies, PipeLabels
<1>. QED BY <1>1, <1>2, <1>3 DEF Busy

LEMMA BusyInodes ==
  ASSUME NEW n, NEW b \in Bodies, n.pc \in {"namex0", "namex"} \cup Iputs, n.stack = <<b>>
  PROVE  Busy(n)
<1>1. b \notin {"exit_end", "open3"}
  BY DEF Bodies
<1>2. n.pc \notin {"exit_end", "zombie", "unused", "open3"} /\ Away(n)
  BY DEF Iputs, Away, PipeLabels
<1>3. Len(n.stack) = 1 /\ n.stack[1] = b
  OBVIOUS
<1>4. Shape(n.pc, n.stack)
  BY DEF Shape
<1>. QED BY <1>1, <1>2, <1>3, <1>4 DEF Busy, Leaving, Opening

LEMMA BusyElement ==
  ASSUME NEW n, NEW b \in Bodies, n.pc \in Iputs, n.stack = <<"namex", b>>
  PROVE  Busy(n)
<1>1. b \notin {"exit_end", "open3"}
  BY DEF Bodies
<1>2. n.pc \notin {"exit_end", "zombie", "unused", "open3"} /\ Away(n)
  BY DEF Iputs, Away, PipeLabels
<1>3. Len(n.stack) = 2 /\ n.stack[1] = "namex" /\ n.stack[2] = b
  OBVIOUS
<1>4. Shape(n.pc, n.stack)
  BY DEF Shape
<1>. QED BY <1>1, <1>2, <1>3, <1>4 DEF Busy, Leaving, Opening

LEMMA BusyEnd ==
  ASSUME NEW n,
         \/ n.pc = "end" /\ n.stack \in {<<>>, <<"begin", "write">>, <<"chdir2">>, <<"exit">>}
         \/ n.pc \in Iputs /\ n.stack \in {<<"end">>, <<"end", "chdir2">>, <<"end", "exit">>}
         \/ n.pc = "begin" /\ n.stack \in {<<"write">>, <<"iput", "end">>, <<"iput", "end", "exit">>}
  PROVE  Busy(n)
<1>1. n.stack = <<>> \/ n.stack[1] \in {"begin", "chdir2", "exit", "end", "write", "iput"}
  OBVIOUS
<1>2. n.stack = <<>> \/ n.stack[Len(n.stack)] \in {"write", "chdir2", "exit", "end"}
  OBVIOUS
<1>3. n.pc \notin {"exit_end", "zombie", "unused", "open3"} /\ Away(n)
  BY DEF Iputs, Away, PipeLabels
<1>4. Shape(n.pc, n.stack)
  BY DEF Shape, EndStacks
<1>. QED BY <1>1, <1>2, <1>3, <1>4 DEF Busy, Leaving, Opening

\* A process that leaves for good is Calm as long as it did before.
LEMMA LeavingShape ==
  ASSUME NEW n,
         \/ n.pc \in {"exit_end", "zombie", "unused"} /\ n.stack = <<>>
         \/ n.pc = "end" /\ n.stack = <<"exit_end">>
         \/ n.pc \in Iputs /\ n.stack = <<"end", "exit_end">>
         \/ n.pc = "begin" /\ n.stack = <<"iput", "end", "exit_end">>
  PROVE  Shape(n.pc, n.stack) /\ Leaving(n) /\ ~Opening(n) /\ Away(n)
<1>1. CASE n.pc \in {"exit_end", "zombie", "unused"} /\ n.stack = <<>>
  BY <1>1 DEF Shape, Leaving, Opening, Away, PipeLabels
<1>2. ASSUME n.stack # <<>>, n.stack[1] \in {"end", "iput", "exit_end"}, n.stack[Len(n.stack)] = "exit_end",
             n.pc \in Iputs \cup {"begin", "end"}, Shape(n.pc, n.stack)
      PROVE  Shape(n.pc, n.stack) /\ Leaving(n) /\ ~Opening(n) /\ Away(n)
  BY <1>2 DEF Leaving, Opening, Away, PipeLabels, Iputs
<1>3. CASE n.pc = "end" /\ n.stack = <<"exit_end">>
  <2>1. n.stack # <<>> /\ n.stack[1] = "exit_end" /\ n.stack[Len(n.stack)] = "exit_end"
    BY <1>3
  <2>. QED BY <1>2, <1>3, <2>1 DEF Shape
<1>4. CASE n.pc \in Iputs /\ n.stack = <<"end", "exit_end">>
  <2>1. n.stack # <<>> /\ n.stack[1] = "end" /\ n.stack[Len(n.stack)] = "exit_end"
    BY <1>4
  <2>. QED BY <1>2, <1>4, <2>1 DEF Shape, EndStacks
<1>5. CASE n.pc = "begin" /\ n.stack = <<"iput", "end", "exit_end">>
  <2>1. n.stack # <<>> /\ n.stack[1] = "iput" /\ n.stack[Len(n.stack)] = "exit_end"
    BY <1>5
  <2>. QED BY <1>2, <1>5, <2>1 DEF Shape
<1>. QED BY <1>1, <1>3, <1>4, <1>5

\* A return from begin_op, namex, iput or end_op.
LEMMA PopCalm ==
  ASSUME NEW q, IsProcess(q), Shape(q.pc, q.stack), q.stack # <<>>, Away(q), NEW n, n = Pop(q)
  PROVE  Calm(q, n) /\ n.pc = Head(q.stack) /\ \A x \in Fields \ {"pc", "stack"} : n[x] = q[x]
<1>2. /\ IsProcess(n) /\ n.pc = Head(q.stack) /\ n.stack = Tail(q.stack)
      /\ \A x \in Fields \ {"pc", "stack"} : n[x] = q[x]
  BY FieldsAre DEF IsProcess, Fields, Pop
<1>3. n.ofile = q.ofile /\ n.f = q.f
  BY <1>2 DEF Fields
<1>4. ASSUME Busy(n) PROVE Calm(q, n)
  BY <1>2, <1>3, <1>4 DEF Calm, Busy
<1>5. CASE \E b \in Bodies : q.stack = <<b>>
  BY <1>2, <1>4, <1>5, ShortSequences, BusyBody
<1>6. CASE q.pc \in Iputs /\ \E b \in Bodies : q.stack = <<"namex", b>>
  <2>1. PICK b \in Bodies : q.stack = <<"namex", b>>
    BY <1>6
  <2>2. n.pc = "namex" /\ n.stack = <<b>>
    BY <1>2, <2>1, ShortSequences
  <2>. QED BY <1>2, <1>4, <2>2, BusyInodes
<1>7. ASSUME Leaving(q), Shape(n.pc, n.stack), Away(n), ~Opening(n) PROVE Calm(q, n)
  BY <1>2, <1>3, <1>7 DEF Calm
<1>8. CASE q.pc \in Iputs /\ q.stack \in EndStacks
  <2>1. CASE q.stack = <<"end">>
    <3>1. n.pc = "end" /\ n.stack = <<>>
      BY <1>2, <2>1, ShortSequences
    <3>. QED BY <1>2, <1>4, <3>1, BusyEnd
  <2>2. CASE q.stack = <<"end", "chdir2">>
    <3>1. n.pc = "end" /\ n.stack = <<"chdir2">>
      BY <1>2, <2>2, ShortSequences
    <3>. QED BY <1>2, <1>4, <3>1, BusyEnd
  <2>3. CASE q.stack = <<"end", "exit">>
    <3>1. n.pc = "end" /\ n.stack = <<"exit">>
      BY <1>2, <2>3, ShortSequences
    <3>. QED BY <1>2, <1>4, <3>1, BusyEnd
  <2>4. CASE q.stack = <<"end", "exit_end">>
    <3>1. n.pc = "end" /\ n.stack = <<"exit_end">>
      BY <1>2, <2>4, ShortSequences
    <3>2. Leaving(q)
      <4>1. q.stack # <<>> /\ q.stack[Len(q.stack)] = "exit_end" BY <2>4
      <4>. QED BY <4>1 DEF Leaving
    <3>. QED BY <1>2, <1>7, <3>1, <3>2, LeavingShape
  <2>. QED BY <1>8, <2>1, <2>2, <2>3, <2>4 DEF EndStacks
<1>9. CASE q.pc = "begin"
  <2>1. CASE q.stack = <<"write">>
    <3>1. n.pc = "write" /\ n.stack = <<>>
      BY <1>2, <2>1, ShortSequences
    <3>. QED BY <1>2, <1>4, <3>1, BusyBody DEF Bodies
  <2>2. CASE q.stack = <<"iput", "end">>
    <3>1. n.pc = "iput" /\ n.stack = <<"end">>
      BY <1>2, <2>2, ShortSequences
    <3>. QED BY <1>2, <1>4, <3>1, BusyEnd DEF Iputs
  <2>3. CASE q.stack = <<"iput", "end", "exit">>
    <3>1. n.pc = "iput" /\ n.stack = <<"end", "exit">>
      BY <1>2, <2>3, ShortSequences
    <3>. QED BY <1>2, <1>4, <3>1, BusyEnd DEF Iputs
  <2>4. CASE q.stack = <<"iput", "end", "exit_end">>
    <3>1. n.pc = "iput" /\ n.stack = <<"end", "exit_end">>
      BY <1>2, <2>4, ShortSequences
    <3>2. Leaving(q)
      <4>1. q.stack # <<>> /\ q.stack[Len(q.stack)] = "exit_end" BY <2>4
      <4>. QED BY <4>1 DEF Leaving
    <3>. QED BY <1>2, <1>7, <3>1, <3>2, LeavingShape DEF Iputs
  <2>. QED BY <1>9, <2>1, <2>2, <2>3, <2>4 DEF Shape, Bodies, PipeLabels, Iputs
<1>10. CASE q.pc = "end"
  <2>1. CASE q.stack = <<"open3">>
    <3>1. n.pc = "open3" /\ n.stack = <<>>
      BY <1>2, <2>1, ShortSequences
    <3>2. Shape(n.pc, n.stack) /\ Away(n) /\ ~Leaving(n)
      BY <3>1 DEF Shape, Away, Leaving, PipeLabels
    <3>3. Opening(q)
      BY <2>1 DEF Opening
    <3>. QED BY <1>2, <1>3, <3>2, <3>3 DEF Calm
  <2>2. CASE q.stack = <<"begin", "write">>
    <3>1. n.pc = "begin" /\ n.stack = <<"write">>
      BY <1>2, <2>2, ShortSequences
    <3>. QED BY <1>2, <1>4, <3>1, BusyEnd
  <2>3. CASE q.stack = <<"chdir2">>
    <3>1. n.pc = "chdir2" /\ n.stack = <<>>
      BY <1>2, <2>3, ShortSequences
    <3>. QED BY <1>2, <1>4, <3>1, BusyBody DEF Bodies
  <2>4. CASE q.stack = <<"exit">>
    <3>1. n.pc = "exit" /\ n.stack = <<>>
      BY <1>2, <2>4, ShortSequences
    <3>. QED BY <1>2, <1>4, <3>1, BusyBody DEF Bodies
  <2>5. CASE q.stack = <<"exit_end">>
    <3>1. n.pc = "exit_end" /\ n.stack = <<>>
      BY <1>2, <2>5, ShortSequences
    <3>2. Leaving(q)
      <4>1. q.stack # <<>> /\ q.stack[Len(q.stack)] = "exit_end" BY <2>5
      <4>. QED BY <4>1 DEF Leaving
    <3>. QED BY <1>2, <1>7, <3>1, <3>2, LeavingShape
  <2>. QED BY <1>10, <2>1, <2>2, <2>3, <2>4, <2>5 DEF Shape, Bodies, PipeLabels, Iputs
<1>. QED BY <1>2, <1>5, <1>6, <1>8, <1>9, <1>10 DEF Shape, Away

(***************************************************************************)
(* Steps that leave the files and the pipes alone                          *)
(***************************************************************************)
FileFields == {"type", "ref", "readable", "writable", "ip", "off", "pipe"}

LEMMA FileFieldsAre == DOMAIN NoFile = FileFields
BY DEF NoFile, FileFields

\* Another process changes at most the parent of this one, or kills or wakes it.
Kept(q, n) ==
  /\ IsProcess(n)
  /\ \A x \in Fields \ {"pc", "parent", "killed"} : n[x] = q[x]
  /\ \/ n.pc = q.pc
     \/ q.pc = "read_asleep" /\ n.pc = "piperead"
     \/ q.pc = "write_asleep" /\ n.pc = "pipewrite"

\* The files as they were, but for their offsets.
FilesKept ==
  /\ DOMAIN ftable' = Files
  /\ \A f \in Files : IsFile(ftable'[f]) /\ \A x \in FileFields \ {"off"} : ftable'[f][x] = ftable[f][x]

LEMMA KeptIs ==
  ASSUME NEW q, NEW n, Kept(q, n), Shape(q.pc, q.stack)
  PROVE  /\ Shape(n.pc, n.stack)
         /\ Leaving(n) <=> Leaving(q)
         /\ Opening(n) <=> Opening(q)
         /\ n.ofile = q.ofile /\ n.f = q.f /\ n.v = q.v /\ n.par = q.par /\ n.arg = q.arg /\ n.last = q.last
         /\ n.pc = "pipealloc" <=> q.pc = "pipealloc"
         /\ n.pc = "pipeclose" <=> q.pc = "pipeclose"
         /\ Reading(n) <=> Reading(q)
         /\ Writing(n) <=> Writing(q)
<1>1. /\ n.ofile = q.ofile /\ n.f = q.f /\ n.v = q.v /\ n.par = q.par /\ n.arg = q.arg /\ n.last = q.last
      /\ n.stack = q.stack
  BY DEF Kept, Fields
<1>2. CASE n.pc = q.pc
  BY <1>1, <1>2 DEF Leaving, Opening, Reading, Writing
<1>3. CASE (q.pc = "read_asleep" /\ n.pc = "piperead") \/ (q.pc = "write_asleep" /\ n.pc = "pipewrite")
  <2>1. q.stack = <<>>
    BY <1>3 DEF Shape, Bodies, PipeLabels, Iputs
  <2>2. Shape(n.pc, n.stack)
    BY <1>1, <1>3, <2>1 DEF Shape, PipeLabels
  <2>. QED BY <1>1, <1>3, <2>1, <2>2 DEF Leaving, Opening, Reading, Writing
<1>. QED BY <1>2, <1>3 DEF Kept

LEMMA KnowsKept ==
  ASSUME NEW c \in Procs, ProcsOK, Knows(c), Kept(proc[c], proc'[c]), FilesKept, pipes' = pipes
  PROVE  Knows(c)'
<1>. DEFINE q == proc[c]
<1>1. /\ Opening(q)' <=> Opening(q)
      /\ q'.ofile = q.ofile /\ q'.f = q.f /\ q'.v = q.v /\ q'.par = q.par /\ q'.arg = q.arg /\ q'.last = q.last
      /\ q'.pc = "pipealloc" <=> q.pc = "pipealloc"
      /\ q'.pc = "pipeclose" <=> q.pc = "pipeclose"
      /\ Reading(q)' <=> Reading(q)
      /\ Writing(q)' <=> Writing(q)
  <2>1. Shape(q.pc, q.stack)
    BY DEF ProcsOK
  <2>2. PICK n : n = proc'[c]
    OBVIOUS
  <2>3. /\ Opening(n) <=> Opening(q)
        /\ n.ofile = q.ofile /\ n.f = q.f /\ n.v = q.v /\ n.par = q.par /\ n.arg = q.arg /\ n.last = q.last
        /\ n.pc = "pipealloc" <=> q.pc = "pipealloc"
        /\ n.pc = "pipeclose" <=> q.pc = "pipeclose"
        /\ Reading(n) <=> Reading(q)
        /\ Writing(n) <=> Writing(q)
    BY <2>1, <2>2, KeptIs
  <2>. QED BY <2>2, <2>3 DEF Opening, Reading, Writing
<1>2. argfd(c)' = argfd(c)
  BY <1>1 DEF argfd, FdArg, Arg
<1>3. \A f \in Files : ftable'[f].type = ftable[f].type /\ ftable'[f].ref = ftable[f].ref
                       /\ ftable'[f].writable = ftable[f].writable /\ ftable'[f].pipe = ftable[f].pipe
  BY DEF FilesKept, FileFields
<1>4. /\ (q.pc = "pipealloc" => Fresh(q.f))'
      /\ (Opening(q) => Fresh(q.f) /\ \E slot \in Fds : q.ofile[slot] = q.f)'
  BY <1>1, <1>3 DEF Knows, Fresh
<1>5. (Writing(q) => PipeEnd(q.f, TRUE) /\ \E slot \in Fds : q.ofile[slot] = q.f)'
  BY <1>1, <1>3 DEF Knows, PipeEnd
<1>6. (Reading(q) => PipeEnd(q.f, FALSE) /\ q.f = argfd(c))'
  BY <1>1, <1>2, <1>3 DEF Knows, PipeEnd
<1>7. Reading(q) \/ Writing(q) => PipeOf(q)' = PipeOf(q)
  BY <1>1, <1>3 DEF Knows, PipeEnd, PipeOf
<1>8. q'.pc \in {"read_sleep", "write_sleep", "read_asleep", "write_asleep"} => q'.pc = q.pc
  BY DEF Kept
<1>9. PICK pi, pin : pi = PipeOf(q) /\ pin = PipeOf(q)'
  OBVIOUS
<1>10. /\ q'.pc = "read_sleep" => pin.lock = c /\ Empty(pin) /\ pin.writeopen
       /\ q'.pc = "write_sleep" => pin.lock = c /\ Full(pin) /\ pin.readopen
       /\ q'.pc = "read_asleep" => pin.writeopen
       /\ q'.pc = "write_asleep" => Full(pin) /\ pin.readopen
  BY <1>7, <1>8, <1>9 DEF Knows, Reading, Writing
<1>11. (/\ q.pc = "read_sleep" => PipeOf(q).lock = c /\ Empty(PipeOf(q)) /\ PipeOf(q).writeopen
        /\ q.pc = "write_sleep" => PipeOf(q).lock = c /\ Full(PipeOf(q)) /\ PipeOf(q).readopen
        /\ q.pc = "read_asleep" => PipeOf(q).writeopen
        /\ q.pc = "write_asleep" => Full(PipeOf(q)) /\ PipeOf(q).readopen)'
  BY <1>9, <1>10 DEF Empty, Full
<1>12. (q.pc = "pipeclose" => q.v \in Pages /\ q.par \in BOOLEAN)'
  BY <1>1 DEF Knows
<1>. QED BY <1>4, <1>5, <1>6, <1>11, <1>12 DEF Knows

LEMMA KnowsCalm ==
  ASSUME NEW c \in Procs, Knows(c), Calm(proc[c], proc'[c]), FilesKept
  PROVE  Knows(c)'
<1>. DEFINE q == proc[c]
<1>1. \A f \in Files : ftable'[f].type = ftable[f].type /\ ftable'[f].ref = ftable[f].ref
  BY DEF FilesKept, FileFields
<1>2. (Opening(q) => Fresh(q.f) /\ \E slot \in Fds : q.ofile[slot] = q.f)'
  BY <1>1 DEF Knows, Fresh, Calm, Opening
<1>3. (~Writing(q) /\ ~Reading(q) /\ Away(q))'
  BY DEF Calm, Away, Writing, Reading, PipeLabels
<1>. QED BY <1>2, <1>3 DEF Knows, Away, PipeLabels

LEMMA CalmStep ==
  ASSUME FileInv, FilesKept, pipes' = pipes, DOMAIN proc' = Procs,
         \A c \in Procs : Kept(proc[c], proc'[c]) \/ Calm(proc[c], proc'[c])
  PROVE  FileInv'
<1>1. ASSUME NEW c \in Procs
      PROVE  /\ proc'[c].ofile = proc[c].ofile /\ IsProcess(proc'[c]) /\ Shape(proc'[c].pc, proc'[c].stack)
             /\ Leaving(proc[c])' => Leaving(proc[c]) \/ \A slot \in Fds : proc[c].ofile[slot] = 0
             /\ proc'[c].pc = "pipealloc" <=> proc[c].pc = "pipealloc"
             /\ proc'[c].pc = "pipealloc" => proc'[c].f = proc[c].f
             /\ proc'[c].pc = "pipeclose" <=> proc[c].pc = "pipeclose"
             /\ proc'[c].pc = "pipeclose" => proc'[c].v = proc[c].v /\ proc'[c].par = proc[c].par
  <2>1. PICK q, n : q = proc[c] /\ n = proc'[c]
    OBVIOUS
  <2>2. Shape(q.pc, q.stack)
    BY <2>1 DEF FileInv, ProcsOK
  <2>3. /\ n.ofile = q.ofile /\ IsProcess(n) /\ Shape(n.pc, n.stack)
        /\ Leaving(n) => Leaving(q) \/ \A slot \in Fds : q.ofile[slot] = 0
        /\ n.pc = "pipealloc" <=> q.pc = "pipealloc"
        /\ n.pc = "pipealloc" => n.f = q.f
        /\ n.pc = "pipeclose" <=> q.pc = "pipeclose"
        /\ n.pc = "pipeclose" => n.v = q.v /\ n.par = q.par
    <3>1. CASE Kept(q, n)
      BY <2>2, <3>1, KeptIs DEF Kept
    <3>2. CASE Calm(q, n)
      BY <3>2 DEF Calm, Away, PipeLabels
    <3>. QED BY <2>1, <3>1, <3>2
  <2>. QED BY <2>1, <2>3 DEF Leaving
<1>2. \A f \in Files : /\ ftable'[f].type = ftable[f].type /\ ftable'[f].ref = ftable[f].ref
                       /\ ftable'[f].writable = ftable[f].writable /\ ftable'[f].pipe = ftable[f].pipe
                       /\ ftable'[f].readable = ftable[f].readable /\ IsFile(ftable'[f])
  BY DEF FilesKept, FileFields
<1>3. ProcsOK'
  BY <1>1 DEF FileInv, ProcsOK
<1>4. FilesOK' /\ PipesOK'
  BY <1>2 DEF FileInv, FilesOK, FileOK, FilesKept, PipesOK, PipeOK, RingOK
<1>5. FilesCounted'
  <2>1. ASSUME NEW f \in Files PROVE FdsOf(f)' = FdsOf(f) /\ Allocating(f)' = Allocating(f)
    BY <1>1 DEF FdsOf, Allocating
  <2>. QED BY <1>2, <2>1 DEF FileInv, FilesCounted
<1>6. PipeFreedByLast'
  <2>1. ASSUME NEW i \in Pages, NEW w \in BOOLEAN PROVE EndsOf(i, w)' = EndsOf(i, w) /\ Closers(i, w)' = Closers(i, w)
    BY <1>1, <1>2 DEF EndsOf, Closers
  <2>. QED BY <2>1 DEF FileInv, PipeFreedByLast, Ends
<1>7. \A c \in Procs : Knows(c)'
  BY KnowsKept, KnowsCalm DEF FileInv
<1>. QED BY <1>3, <1>4, <1>5, <1>6, <1>7 DEF FileInv

(***************************************************************************)
(* The system calls on inodes                                              *)
(***************************************************************************)
LEMMA FilesAsTheyWere ==
  ASSUME FileInv, ftable' = ftable
  PROVE  FilesKept
BY FileFieldsAre DEF FileInv, FilesOK, FileOK, FilesKept

\* One process takes such a step.
LEMMA OneCalm ==
  ASSUME FileInv, NEW p \in Procs, NEW n, Calm(proc[p], n), proc' = [proc EXCEPT ![p] = n], FilesKept, pipes' = pipes
  PROVE  FileInv'
<1>1. DOMAIN proc' = Procs
  BY DEF FileInv, ProcsOK
<1>2. ASSUME NEW c \in Procs PROVE Kept(proc[c], proc'[c]) \/ Calm(proc[c], proc'[c])
  <2>1. CASE c = p
    BY <2>1 DEF FileInv, ProcsOK
  <2>2. CASE c # p
    BY <2>2 DEF FileInv, ProcsOK, Kept
  <2>. QED BY <2>1, <2>2
<1>. QED BY <1>1, <1>2, CalmStep

LEMMA AtBody ==
  ASSUME FileInv, NEW p \in Procs, proc[p].pc \in Bodies \cup {"user"}
  PROVE  IsProcess(proc[p]) /\ proc[p].stack = <<>> /\ Away(proc[p])
<1>1. IsProcess(proc[p]) /\ Shape(proc[p].pc, proc[p].stack)
  BY DEF FileInv, ProcsOK
<1>2. proc[p].stack = <<>>
  BY <1>1 DEF Shape, Bodies, Iputs
<1>3. Away(proc[p])
  BY DEF Away, Bodies, PipeLabels
<1>. QED BY <1>1, <1>2, <1>3

LEMMA BusyCalm ==
  ASSUME NEW q, NEW n, IsProcess(n), n.ofile = q.ofile, Away(q), Busy(n)
  PROVE  Calm(q, n)
BY DEF Calm, Busy

\* From a label of its own a call goes on to another one, ends, or works on an inode and comes back.
LEMMA OnwardCalm ==
  ASSUME NEW q, Away(q), NEW m, IsProcess(m), m.ofile = q.ofile, m.stack = <<>>
  PROVE  /\ \A l \in Bodies : Calm(q, Jump(m, l))
         /\ Calm(q, Fail(m)) /\ \A i : Calm(q, FailPut(m, i))
         /\ \A b \in Bodies : \A i : Calm(q, Push(PutInode(m, i), <<b>>)) /\ Calm(q, PutInode(Push(m, <<b>>), i))
         /\ \A i : Calm(q, Push(PutInode(m, i), <<"end">>)) /\ Calm(q, PutInode(Push(m, <<"end">>), i))
         /\ \A i : Calm(q, PutInode(Push(m, <<"end", "chdir2">>), i))
         /\ \A r : Calm(q, Returned(m, r))
<1>1. ASSUME NEW l \in Bodies PROVE Calm(q, Jump(m, l))
  <2>1. PICK n : n = Jump(m, l)
    OBVIOUS
  <2>2. IsProcess(n) /\ n.pc = l /\ n.ofile = q.ofile /\ n.stack = <<>>
    BY <2>1, JumpIs DEF Fields
  <2>. QED BY <2>1, <2>2, BusyBody, BusyCalm
<1>2. Calm(q, Fail(m))
  <2>1. PICK n : n = Fail(m)
    OBVIOUS
  <2>2. IsProcess(n) /\ n.pc = "end" /\ n.ofile = q.ofile /\ n.stack = <<>>
    BY <2>1, FieldsAre DEF Fail, IsProcess, Fields
  <2>. QED BY <2>1, <2>2, BusyEnd, BusyCalm
<1>3. ASSUME NEW i PROVE Calm(q, FailPut(m, i))
  <2>1. PICK n : n = FailPut(m, i)
    OBVIOUS
  <2>2. IsProcess(n) /\ n.pc = "iput" /\ n.ofile = q.ofile /\ n.stack = <<"end">>
    BY <2>1, FieldsAre, ShortSequences DEF FailPut, PutInode, Push, IsProcess, Fields
  <2>. QED BY <2>1, <2>2, BusyEnd, BusyCalm DEF Iputs
<1>4. ASSUME NEW b \in Bodies, NEW i PROVE Calm(q, Push(PutInode(m, i), <<b>>)) /\ Calm(q, PutInode(Push(m, <<b>>), i))
  <2>1. PICK n1, n2 : n1 = Push(PutInode(m, i), <<b>>) /\ n2 = PutInode(Push(m, <<b>>), i)
    OBVIOUS
  <2>2. /\ IsProcess(n1) /\ n1.pc = "iput" /\ n1.ofile = q.ofile /\ n1.stack = <<b>>
        /\ IsProcess(n2) /\ n2.pc = "iput" /\ n2.ofile = q.ofile /\ n2.stack = <<b>>
    BY <2>1, FieldsAre, ShortSequences DEF PutInode, Push, IsProcess, Fields
  <2>. QED BY <2>1, <2>2, BusyInodes, BusyCalm DEF Iputs
<1>5. ASSUME NEW i PROVE Calm(q, Push(PutInode(m, i), <<"end">>)) /\ Calm(q, PutInode(Push(m, <<"end">>), i))
  <2>1. PICK n1, n2 : n1 = Push(PutInode(m, i), <<"end">>) /\ n2 = PutInode(Push(m, <<"end">>), i)
    OBVIOUS
  <2>2. /\ IsProcess(n1) /\ n1.pc = "iput" /\ n1.ofile = q.ofile /\ n1.stack = <<"end">>
        /\ IsProcess(n2) /\ n2.pc = "iput" /\ n2.ofile = q.ofile /\ n2.stack = <<"end">>
    BY <2>1, FieldsAre, ShortSequences DEF PutInode, Push, IsProcess, Fields
  <2>. QED BY <2>1, <2>2, BusyEnd, BusyCalm DEF Iputs
<1>6. ASSUME NEW i PROVE Calm(q, PutInode(Push(m, <<"end", "chdir2">>), i))
  <2>1. PICK n : n = PutInode(Push(m, <<"end", "chdir2">>), i)
    OBVIOUS
  <2>0. <<"end", "chdir2">> \o <<>> = <<"end", "chdir2">>
    OBVIOUS
  <2>2. IsProcess(n) /\ n.pc = "iput" /\ n.ofile = q.ofile /\ n.stack = <<"end", "chdir2">>
    BY <2>0, <2>1, FieldsAre DEF PutInode, Push, IsProcess, Fields
  <2>. QED BY <2>1, <2>2, BusyEnd, BusyCalm DEF Iputs
<1>7. ASSUME NEW r PROVE Calm(q, Returned(m, r))
  <2>1. PICK n : n = Returned(m, r)
    OBVIOUS
  <2>2. IsProcess(n) /\ n.pc \in {"exit", "user"} /\ n.ofile = q.ofile /\ n.stack = <<>>
    BY <2>1, ReturnedIs
  <2>. QED BY <2>1, <2>2, BusyBody, BusyCalm DEF Bodies
<1>. QED BY <1>1, <1>2, <1>3, <1>4, <1>5, <1>6, <1>7

LEMMA LinkCalm ==
  ASSUME FileInv, NEW p \in Procs, LinkOld(p) \/ LinkNew(p) \/ LinkExists(p) \/ LinkDone(p) \/ LinkBad(p)
  PROVE  \E n : Calm(proc[p], n) /\ proc' = [proc EXCEPT ![p] = n]
<1>. DEFINE q == proc[p]
<1>1. q.pc \in {"link", "link2", "link_exists", "link_done", "link_bad"}
  BY DEF LinkOld, LinkNew, LinkExists, LinkDone, LinkBad, At
<1>2. IsProcess(q) /\ q.stack = <<>> /\ Away(q)
  BY <1>1, AtBody DEF Bodies
<1>3. CASE LinkOld(p)
  <2>1. PICK path, log : \/ proc' = [proc EXCEPT ![p] = Fail(q)]
                   \/ proc' = [proc EXCEPT ![p] = FailPut(q, q.ip)]
                   \/ proc' = [proc EXCEPT ![p] = Push([q EXCEPT !.pc = "namex0", !.old = q.ip, !.par = TRUE, !.path = path,
                                                                 !.log = log], <<"link2">>)]
    BY <1>3 DEF LinkOld
  <2>2. PICK n : n = Push([q EXCEPT !.pc = "namex0", !.old = q.ip, !.par = TRUE, !.path = path, !.log = log], <<"link2">>)
    OBVIOUS
  <2>3. IsProcess(n) /\ n.pc = "namex0" /\ n.ofile = q.ofile /\ n.stack = <<"link2">>
    BY <1>2, <2>2, FieldsAre, ShortSequences DEF Push, IsProcess, Fields
  <2>4. Calm(q, n)
    BY <1>2, <2>3, BusyInodes, BusyCalm DEF Bodies
  <2>. QED BY <1>2, <2>1, <2>2, <2>4, OnwardCalm
<1>4. CASE LinkNew(p)
  <2>1. PICK i, log : \/ proc' = [proc EXCEPT ![p] = Jump(q, "link_bad")]
                      \/ proc' = [proc EXCEPT ![p] = Push(PutInode(q, i), <<"link_exists">>)]
                      \/ proc' = [proc EXCEPT ![p] = Push(PutInode([q EXCEPT !.r = 0, !.log = log], q.ip), <<"link_done">>)]
    BY <1>4 DEF LinkNew
  <2>2. PICK m : m = [q EXCEPT !.r = 0, !.log = log]
    OBVIOUS
  <2>3. IsProcess(m) /\ m.ofile = q.ofile /\ m.stack = <<>>
    BY <1>2, <2>2, FieldsAre DEF IsProcess, Fields
  <2>. QED BY <1>2, <2>1, <2>2, <2>3, OnwardCalm DEF Bodies
<1>5. CASE LinkExists(p) \/ LinkDone(p)
  <2>1. \/ proc' = [proc EXCEPT ![p] = Push(PutInode(q, q.ip), <<"link_bad">>)]
        \/ proc' = [proc EXCEPT ![p] = Push(PutInode(q, q.old), <<"end">>)]
    BY <1>5 DEF LinkExists, LinkDone
  <2>. QED BY <1>2, <2>1, OnwardCalm DEF Bodies
<1>6. CASE LinkBad(p)
  <2>1. PICK log : proc' = [proc EXCEPT ![p] = FailPut([q EXCEPT !.log = log], q.old)]
    BY <1>6 DEF LinkBad
  <2>2. PICK m : m = [q EXCEPT !.log = log]
    OBVIOUS
  <2>3. IsProcess(m) /\ m.ofile = q.ofile /\ m.stack = <<>>
    BY <1>2, <2>2, FieldsAre DEF IsProcess, Fields
  <2>. QED BY <1>2, <2>1, <2>2, <2>3, OnwardCalm
<1>. QED BY <1>3, <1>4, <1>5, <1>6

LEMMA UnlinkCalm ==
  ASSUME FileInv, NEW p \in Procs, UnlinkLookup(p) \/ UnlinkEntry(p) \/ UnlinkBad(p) \/ UnlinkInode(p)
  PROVE  \E n : Calm(proc[p], n) /\ proc' = [proc EXCEPT ![p] = n]
<1>. DEFINE q == proc[p]
<1>1. q.pc \in {"unlink", "unlink2", "unlink_bad", "unlink3"}
  BY DEF UnlinkLookup, UnlinkEntry, UnlinkBad, UnlinkInode, At
<1>2. IsProcess(q) /\ q.stack = <<>> /\ Away(q)
  BY <1>1, AtBody DEF Bodies
<1>3. CASE UnlinkLookup(p)
  <2>1. PICK found : \/ proc' = [proc EXCEPT ![p] = Fail(q)]
                     \/ proc' = [proc EXCEPT ![p] = FailPut(q, q.ip)]
                     \/ proc' = [proc EXCEPT ![p] = [Jump(q, "unlink2") EXCEPT !.nx = found]]
    BY <1>3 DEF UnlinkLookup
  <2>2. PICK n : n = [Jump(q, "unlink2") EXCEPT !.nx = found]
    OBVIOUS
  <2>3. IsProcess(n) /\ n.pc = "unlink2" /\ n.ofile = q.ofile /\ n.stack = <<>>
    BY <1>2, <2>2, FieldsAre DEF Jump, IsProcess, Fields
  <2>4. Calm(q, n)
    BY <1>2, <2>3, BusyBody, BusyCalm DEF Bodies
  <2>. QED BY <1>2, <2>1, <2>2, <2>4, OnwardCalm
<1>4. CASE UnlinkEntry(p)
  <2>1. PICK log : \/ proc' = [proc EXCEPT ![p] = Push(PutInode(q, q.nx), <<"unlink_bad">>)]
                   \/ proc' = [proc EXCEPT ![p] = Push(PutInode([q EXCEPT !.log = log], q.ip), <<"unlink3">>)]
    BY <1>4, Zenon DEF UnlinkEntry
  <2>2. PICK m : m = [q EXCEPT !.log = log]
    OBVIOUS
  <2>3. IsProcess(m) /\ m.ofile = q.ofile /\ m.stack = <<>>
    BY <1>2, <2>2, FieldsAre DEF IsProcess, Fields
  <2>. QED BY <1>2, <2>1, <2>2, <2>3, OnwardCalm DEF Bodies
<1>5. CASE UnlinkBad(p)
  <2>1. proc' = [proc EXCEPT ![p] = FailPut(q, q.ip)]
    BY <1>5 DEF UnlinkBad
  <2>. QED BY <1>2, <2>1, OnwardCalm
<1>6. CASE UnlinkInode(p)
  <2>1. PICK log : proc' = [proc EXCEPT ![p] = PutInode([Push(q, <<"end">>) EXCEPT !.log = log], q.nx)]
    BY <1>6 DEF UnlinkInode
  <2>2. PICK n : n = PutInode([Push(q, <<"end">>) EXCEPT !.log = log], q.nx)
    OBVIOUS
  <2>3. IsProcess(n) /\ n.pc = "iput" /\ n.ofile = q.ofile /\ n.stack = <<"end">>
    BY <1>2, <2>2, FieldsAre, ShortSequences DEF PutInode, Push, IsProcess, Fields
  <2>. QED BY <1>2, <2>1, <2>2, <2>3, BusyEnd, BusyCalm DEF Iputs
<1>. QED BY <1>3, <1>4, <1>5, <1>6

LEMMA CreateCalm ==
  ASSUME FileInv, NEW p \in Procs, CreateLookup(p) \/ CreateOld(p) \/ CreateNew(p) \/ Created(p)
  PROVE  \E n : Calm(proc[p], n) /\ proc' = [proc EXCEPT ![p] = n]
<1>. DEFINE q == proc[p]
<1>1. q.pc \in {"create", "create_old", "create_new", "created"}
  BY Zenon DEF CreateLookup, CreateOld, CreateNew, Created, At
<1>2. IsProcess(q) /\ q.stack = <<>> /\ Away(q)
  BY <1>1, AtBody DEF Bodies
<1>3. CASE CreateLookup(p)
  <2>1. PICK found, new, log :
          \/ proc' = [proc EXCEPT ![p] = Fail(q)]
          \/ proc' = [proc EXCEPT ![p] = Push([PutInode(q, q.ip) EXCEPT !.nx = found], <<"create_old">>)]
          \/ proc' = [proc EXCEPT ![p] = [Jump(q, "create_new") EXCEPT !.nx = new, !.log = log]]
    BY <1>3, Zenon DEF CreateLookup
  <2>2. PICK n1, n2 : /\ n1 = Push([PutInode(q, q.ip) EXCEPT !.nx = found], <<"create_old">>)
                      /\ n2 = [Jump(q, "create_new") EXCEPT !.nx = new, !.log = log]
    OBVIOUS
  <2>3. IsProcess(n1) /\ n1.pc = "iput" /\ n1.ofile = q.ofile /\ n1.stack = <<"create_old">>
    BY <1>2, <2>2, FieldsAre, ShortSequences DEF PutInode, Push, IsProcess, Fields
  <2>4. IsProcess(n2) /\ n2.pc = "create_new" /\ n2.ofile = q.ofile /\ n2.stack = <<>>
    BY <1>2, <2>2, FieldsAre DEF Jump, IsProcess, Fields
  <2>5. Calm(q, n1) /\ Calm(q, n2)
    BY <1>2, <2>3, <2>4, BusyInodes, BusyBody, BusyCalm DEF Bodies, Iputs
  <2>. QED BY <1>2, <2>1, <2>2, <2>5, OnwardCalm
<1>4. CASE CreateOld(p)
  <2>1. \/ proc' = [proc EXCEPT ![p] = [Jump(q, "open2") EXCEPT !.ip = q.nx]]
        \/ proc' = [proc EXCEPT ![p] = FailPut(q, q.nx)]
    BY <1>4 DEF CreateOld
  <2>2. PICK n : n = [Jump(q, "open2") EXCEPT !.ip = q.nx]
    OBVIOUS
  <2>3. IsProcess(n) /\ n.pc = "open2" /\ n.ofile = q.ofile /\ n.stack = <<>>
    BY <1>2, <2>2, FieldsAre DEF Jump, IsProcess, Fields
  <2>4. Calm(q, n)
    BY <1>2, <2>3, BusyBody, BusyCalm DEF Bodies
  <2>. QED BY <1>2, <2>1, <2>2, <2>4, OnwardCalm
<1>5. CASE CreateNew(p)
  <2>1. PICK log : proc' = [proc EXCEPT ![p] = Push([PutInode(q, q.ip) EXCEPT !.log = log, !.ip = q.nx], <<"created">>)]
    BY <1>5 DEF CreateNew
  <2>2. PICK n : n = Push([PutInode(q, q.ip) EXCEPT !.log = log, !.ip = q.nx], <<"created">>)
    OBVIOUS
  <2>3. IsProcess(n) /\ n.pc = "iput" /\ n.ofile = q.ofile /\ n.stack = <<"created">>
    BY <1>2, <2>2, FieldsAre, ShortSequences DEF PutInode, Push, IsProcess, Fields
  <2>. QED BY <1>2, <2>1, <2>2, <2>3, BusyInodes, BusyCalm DEF Bodies, Iputs
<1>6. CASE Created(p)
  <2>1. \/ proc' = [proc EXCEPT ![p] = Jump(q, "open2")]
        \/ proc' = [proc EXCEPT ![p] = PutInode(Push([q EXCEPT !.r = 0], <<"end">>), q.ip)]
    BY <1>6 DEF Created
  <2>2. PICK m : m = [q EXCEPT !.r = 0]
    OBVIOUS
  <2>3. IsProcess(m) /\ m.ofile = q.ofile /\ m.stack = <<>>
    BY <1>2, <2>2, FieldsAre DEF IsProcess, Fields
  <2>. QED BY <1>2, <2>1, <2>2, <2>3, OnwardCalm DEF Bodies
<1>. QED BY <1>3, <1>4, <1>5, <1>6

LEMMA LookupCalm ==
  ASSUME FileInv, NEW p \in Procs, OpenInode(p) \/ Chdir(p) \/ ChdirDone(p) \/ Exec(p) \/ Fstat(p) \/ ReadBad(p)
  PROVE  \E n : Calm(proc[p], n) /\ proc' = [proc EXCEPT ![p] = n]
<1>. DEFINE q == proc[p]
<1>1. q.pc \in {"open", "chdir", "chdir2", "exec", "user"}
  BY DEF OpenInode, Chdir, ChdirDone, Exec, Fstat, ReadBad, Calls, At
<1>2. IsProcess(q) /\ q.stack = <<>> /\ Away(q)
  BY <1>1, AtBody DEF Bodies
<1>3. CASE OpenInode(p)
  <2>1. \/ proc' = [proc EXCEPT ![p] = Fail(q)]
        \/ proc' = [proc EXCEPT ![p] = FailPut(q, q.ip)]
        \/ proc' = [proc EXCEPT ![p] = Jump(q, "open2")]
    BY <1>3 DEF OpenInode
  <2>. QED BY <1>2, <2>1, OnwardCalm DEF Bodies
<1>4. CASE Chdir(p)
  <2>1. \/ proc' = [proc EXCEPT ![p] = Fail(q)]
        \/ proc' = [proc EXCEPT ![p] = PutInode(Push(q, <<"end", "chdir2">>), q.cwd)]
        \/ proc' = [proc EXCEPT ![p] = FailPut(q, q.ip)]
    BY <1>4 DEF Chdir
  <2>. QED BY <1>2, <2>1, OnwardCalm
<1>5. CASE ChdirDone(p)
  <2>1. proc' = [proc EXCEPT ![p] = Returned([q EXCEPT !.cwd = q.ip], 0)]
    BY <1>5 DEF ChdirDone, Return
  <2>2. PICK m : m = [q EXCEPT !.cwd = q.ip]
    OBVIOUS
  <2>3. IsProcess(m) /\ m.ofile = q.ofile /\ m.stack = <<>>
    BY <1>2, <2>2, FieldsAre DEF IsProcess, Fields
  <2>. QED BY <1>2, <2>1, <2>2, <2>3, OnwardCalm
<1>6. CASE Exec(p)
  <2>1. PICK r : \/ proc' = [proc EXCEPT ![p] = Fail(q)]
                 \/ proc' = [proc EXCEPT ![p] = [FailPut(q, q.ip) EXCEPT !.r = r]]
    BY <1>6 DEF Exec
  <2>2. PICK n : n = [FailPut(q, q.ip) EXCEPT !.r = r]
    OBVIOUS
  <2>3. IsProcess(n) /\ n.pc = "iput" /\ n.ofile = q.ofile /\ n.stack = <<"end">>
    BY <1>2, <2>2, FieldsAre, ShortSequences DEF FailPut, PutInode, Push, IsProcess, Fields
  <2>4. Calm(q, n)
    BY <1>2, <2>3, BusyEnd, BusyCalm DEF Iputs
  <2>. QED BY <1>2, <2>1, <2>2, <2>4, OnwardCalm
<1>7. CASE Fstat(p) \/ ReadBad(p)
  <2>1. PICK r : proc' = [proc EXCEPT ![p] = Returned(q, r)]
    BY <1>7, Zenon DEF Fstat, ReadBad, Return
  <2>. QED BY <1>2, <2>1, OnwardCalm
<1>. QED BY <1>3, <1>4, <1>5, <1>6, <1>7

\* The offset of a file changes.
LEMMA OffsetKept ==
  ASSUME FileInv, NEW f, NEW off, ftable' = [ftable EXCEPT ![f].off = off]
  PROVE  FilesKept
<1>1. \A g \in Files : IsFile(ftable[g]) /\ DOMAIN ftable = Files
  BY DEF FileInv, FilesOK, FileOK
<1>2. DOMAIN ftable' = Files
  BY <1>1 DEF FileInv, FilesOK, FileOK
<1>3. ASSUME NEW g \in Files PROVE IsFile(ftable'[g]) /\ \A x \in FileFields \ {"off"} : ftable'[g][x] = ftable[g][x]
  <2>1. ftable'[g] = ftable[g] \/ ftable'[g] = [ftable[g] EXCEPT !.off = off]
    BY <1>1
  <2>. QED BY <1>1, <2>1, FileFieldsAre DEF IsFile, FileFields
<1>. QED BY <1>2, <1>3 DEF FilesKept

LEMMA DeliveredIs ==
  ASSUME NEW p, IsProcess(proc[p]), NEW cells
  PROVE  /\ IsProcess(Delivered(p, cells)) /\ Delivered(p, cells).pc \in {"exit", "user"}
         /\ Delivered(p, cells).ofile = proc[p].ofile /\ Delivered(p, cells).stack = <<>>
<1>1. PICK m : m = Returned(proc[p], 0)
  OBVIOUS
<1>2. IsProcess(m) /\ m.pc \in {"exit", "user"} /\ m.ofile = proc[p].ofile /\ m.stack = <<>>
  BY <1>1, ReturnedIs
<1>3. PICK got : Delivered(p, cells) = m \/ Delivered(p, cells) = Goto([m EXCEPT !.got = got], proc[p].at)
  BY <1>1 DEF Delivered
<1>4. PICK g : g = [m EXCEPT !.got = got]
  OBVIOUS
<1>5. IsProcess(g) /\ g.pc = m.pc /\ g.ofile = m.ofile /\ g.stack = m.stack
  BY <1>2, <1>4, FieldsAre DEF IsProcess, Fields
<1>6. PICK h : h = Goto(g, proc[p].at)
  OBVIOUS
<1>7. IsProcess(h) /\ h.pc = m.pc /\ h.ofile = m.ofile /\ h.stack = m.stack
  BY <1>5, <1>6, GotoIs DEF Fields
<1>. QED BY <1>2, <1>3, <1>4, <1>6, <1>7

LEMMA ReadCalm ==
  ASSUME FileInv, NEW p \in Procs, Read(p)
  PROVE  FilesKept /\ \E n : Calm(proc[p], n) /\ proc' = [proc EXCEPT ![p] = n]
<1>1. proc[p].pc = "user"
  BY DEF Read, Calls, At
<1>2. IsProcess(proc[p]) /\ Away(proc[p])
  BY <1>1, AtBody
<1>3. PICK f, off, cells : /\ ftable' = [ftable EXCEPT ![f].off = off]
                           /\ proc' = [proc EXCEPT ![p] = Delivered(p, cells)]
  BY DEF Read
<1>4. PICK n : n = Delivered(p, cells)
  OBVIOUS
<1>5. IsProcess(n) /\ n.pc \in {"exit", "user"} /\ n.ofile = proc[p].ofile /\ n.stack = <<>>
  BY <1>2, <1>4, DeliveredIs
<1>6. Calm(proc[p], n)
  BY <1>2, <1>5, BusyBody, BusyCalm DEF Bodies
<1>. QED BY <1>3, <1>4, <1>6, OffsetKept

LEMMA WriteCalm ==
  ASSUME FileInv, NEW p \in Procs, WritePiece(p)
  PROVE  FilesKept /\ \E n : Calm(proc[p], n) /\ proc' = [proc EXCEPT ![p] = n]
<1>. DEFINE q == proc[p]
<1>1. q.pc = "write"
  BY DEF WritePiece, At
<1>2. IsProcess(q) /\ q.stack = <<>> /\ Away(q)
  BY <1>1, AtBody DEF Bodies
<1>3. \E off : ftable' = ftable \/ ftable' = [ftable EXCEPT ![q.f].off = off]
  BY Zenon DEF WritePiece
<1>4. PICK more, log, k, r :
        proc' = [proc EXCEPT ![p] = [Push(q, IF more THEN <<"begin", "write">> ELSE <<>>) EXCEPT
                                       !.pc = "end", !.log = log, !.k = k, !.r = r]]
  BY Zenon DEF WritePiece
<1>. DEFINE labels == IF more THEN <<"begin", "write">> ELSE <<>>
<1>5. PICK n : n = [Push(q, labels) EXCEPT !.pc = "end", !.log = log, !.k = k, !.r = r]
  OBVIOUS
<1>6. labels \o <<>> = labels /\ labels \in {<<>>, <<"begin", "write">>}
  OBVIOUS
<1>7. IsProcess(n) /\ n.pc = "end" /\ n.ofile = q.ofile /\ n.stack = labels
  BY <1>2, <1>5, <1>6, FieldsAre DEF Push, IsProcess, Fields
<1>8. Calm(q, n)
  BY <1>2, <1>6, <1>7, BusyEnd, BusyCalm
<1>. QED BY <1>3, <1>4, <1>5, <1>8, OffsetKept, FilesAsTheyWere

LEMMA InodeCalm ==
  ASSUME FileInv, NEW p \in Procs, Iput(p) \/ IputFreed(p) \/ IputDrop(p)
  PROVE  \E n : Calm(proc[p], n) /\ proc' = [proc EXCEPT ![p] = n]
<1>. DEFINE q == proc[p]
<1>1. q.pc \in Iputs
  BY DEF Iput, IputFreed, IputDrop, At, Iputs
<1>2. IsProcess(q) /\ Shape(q.pc, q.stack)
  BY DEF FileInv, ProcsOK
<1>3. /\ Away(q) /\ q.stack # <<>>
      /\ \A l \in Iputs : Shape(l, q.stack)
  <2>1. Away(q)
    BY <1>1 DEF Away, PipeLabels, Iputs
  <2>2. \/ \E b \in Bodies : q.stack = <<b>> \/ q.stack = <<"namex", b>>
        \/ q.stack \in EndStacks
    BY <1>1, <1>2 DEF Shape, Bodies, PipeLabels, Iputs
  <2>3. q.stack # <<>>
    BY <2>2 DEF EndStacks
  <2>4. \A l \in Iputs : Shape(l, q.stack)
    BY <2>2 DEF Shape
  <2>. QED BY <2>1, <2>3, <2>4
<1>4. PICK log : \/ proc' = [proc EXCEPT ![p] = [Jump(q, "iput_freed") EXCEPT !.log = log]]
                 \/ proc' = [proc EXCEPT ![p] = Jump(q, "iput_drop")]
                 \/ proc' = [proc EXCEPT ![p] = Pop(q)]
  BY Zenon DEF Iput, IputFreed, IputDrop
<1>5. ASSUME NEW n, IsProcess(n), n.pc \in Iputs, n.stack = q.stack, n.ofile = q.ofile, n.f = q.f PROVE Calm(q, n)
  <2>1. Shape(n.pc, n.stack)
    BY <1>3, <1>5
  <2>2. Away(n) /\ n.pc \notin {"exit_end", "zombie", "unused", "open3"}
    BY <1>5 DEF Away, PipeLabels, Iputs
  <2>. QED BY <1>3, <1>5, <2>1, <2>2 DEF Calm, Leaving, Opening
<1>6. PICK n1, n2 : n1 = [Jump(q, "iput_freed") EXCEPT !.log = log] /\ n2 = Jump(q, "iput_drop")
  OBVIOUS
<1>7. /\ IsProcess(n1) /\ n1.pc = "iput_freed" /\ n1.stack = q.stack /\ n1.ofile = q.ofile /\ n1.f = q.f
      /\ IsProcess(n2) /\ n2.pc = "iput_drop" /\ n2.stack = q.stack /\ n2.ofile = q.ofile /\ n2.f = q.f
  BY <1>2, <1>6, FieldsAre DEF Jump, IsProcess, Fields
<1>8. Calm(q, n1) /\ Calm(q, n2)
  BY <1>5, <1>7 DEF Iputs
<1>9. Calm(q, Pop(q))
  BY <1>2, <1>3, PopCalm
<1>. QED BY <1>4, <1>6, <1>8, <1>9

LEMMA NamexCalm ==
  ASSUME FileInv, NEW p \in Procs, NamexStart(p) \/ NamexElement(p)
  PROVE  \E n : Calm(proc[p], n) /\ proc' = [proc EXCEPT ![p] = n]
<1>. DEFINE q == proc[p]
<1>1. q.pc \in {"namex0", "namex"}
  BY Zenon DEF NamexStart, NamexElement, At
<1>2. IsProcess(q) /\ Shape(q.pc, q.stack)
  BY DEF FileInv, ProcsOK
<1>3. Away(q)
  BY <1>1 DEF Away, PipeLabels
<1>4. PICK b \in Bodies : q.stack = <<b>>
  BY <1>1, <1>2 DEF Shape, Bodies, PipeLabels, Iputs
<1>5. ASSUME NEW m, IsProcess(m), m.ofile = q.ofile, m.stack = q.stack, m.pc = q.pc
      PROVE  /\ Calm(q, Jump(m, "namex")) /\ Calm(q, Pop(m))
             /\ \A i : Calm(q, PutInode(m, i)) /\ Calm(q, Push(PutInode(m, i), <<"namex">>))
  <2>1. PICK n : n = Jump(m, "namex")
    OBVIOUS
  <2>2. IsProcess(n) /\ n.pc = "namex" /\ n.ofile = q.ofile /\ n.stack = <<b>>
    BY <1>4, <1>5, <2>1, FieldsAre DEF Jump, IsProcess, Fields
  <2>3. Calm(q, n)
    BY <1>3, <2>2, BusyInodes, BusyCalm
  <2>4. PICK n2 : n2 = Pop(m)
    OBVIOUS
  <2>5. IsProcess(n2) /\ n2.pc = b /\ n2.ofile = q.ofile /\ n2.stack = <<>>
    <3>1. Head(m.stack) = b /\ Tail(m.stack) = <<>>
      BY <1>4, <1>5
    <3>. QED BY <1>5, <2>4, <3>1, FieldsAre DEF Pop, IsProcess, Fields
  <2>6. Calm(q, n2)
    BY <1>3, <2>5, BusyBody, BusyCalm
  <2>7. ASSUME NEW i PROVE Calm(q, PutInode(m, i)) /\ Calm(q, Push(PutInode(m, i), <<"namex">>))
    <3>1. PICK n3, n4 : n3 = PutInode(m, i) /\ n4 = Push(PutInode(m, i), <<"namex">>)
      OBVIOUS
    <3>2. <<"namex">> \o <<b>> = <<"namex", b>>
      BY ShortSequences
    <3>3. /\ IsProcess(n3) /\ n3.pc = "iput" /\ n3.ofile = q.ofile /\ n3.stack = <<b>>
          /\ IsProcess(n4) /\ n4.pc = "iput" /\ n4.ofile = q.ofile /\ n4.stack = <<"namex", b>>
      BY <1>4, <1>5, <3>1, <3>2, FieldsAre DEF PutInode, Push, IsProcess, Fields
    <3>. QED BY <1>3, <3>1, <3>3, BusyInodes, BusyElement, BusyCalm DEF Iputs
  <2>. QED BY <2>1, <2>3, <2>4, <2>6, <2>7
<1>6. CASE NamexStart(p)
  <2>1. PICK rest, i :
          \/ proc' = [proc EXCEPT ![p] = Jump([q EXCEPT !.path = rest, !.ip = i], "namex")]
          \/ proc' = [proc EXCEPT ![p] = PutInode([[q EXCEPT !.path = rest, !.ip = i] EXCEPT !.ip = 0], i)]
          \/ proc' = [proc EXCEPT ![p] = Pop([q EXCEPT !.path = rest, !.ip = i])]
    BY <1>6, Zenon DEF NamexStart
  <2>2. PICK m1, m2 : m1 = [q EXCEPT !.path = rest, !.ip = i] /\ m2 = [m1 EXCEPT !.ip = 0]
    OBVIOUS
  <2>3. /\ IsProcess(m1) /\ m1.ofile = q.ofile /\ m1.stack = q.stack /\ m1.pc = q.pc
        /\ IsProcess(m2) /\ m2.ofile = q.ofile /\ m2.stack = q.stack /\ m2.pc = q.pc
    BY <1>2, <2>2, FieldsAre DEF IsProcess, Fields
  <2>. QED BY <1>5, <2>1, <2>2, <2>3
<1>7. CASE NamexElement(p)
  <2>1. PICK next, path :
          \/ proc' = [proc EXCEPT ![p] = Pop(q)]
          \/ proc' = [proc EXCEPT ![p] = Push([PutInode(q, q.ip) EXCEPT !.ip = next, !.path = path], <<"namex">>)]
          \/ proc' = [proc EXCEPT ![p] = [PutInode(q, q.ip) EXCEPT !.ip = next, !.path = path]]
    BY <1>7, Zenon DEF NamexElement
  <2>2. PICK m : m = [q EXCEPT !.ip = next, !.path = path]
    OBVIOUS
  <2>3. IsProcess(m) /\ m.ofile = q.ofile /\ m.stack = q.stack /\ m.pc = q.pc
    BY <1>2, <2>2, FieldsAre DEF IsProcess, Fields
  <2>4. [PutInode(q, q.ip) EXCEPT !.ip = next, !.path = path] = PutInode(m, q.ip)
    BY <1>2, <2>2, FieldsAre DEF PutInode, IsProcess, Fields
  <2>. QED BY <1>2, <1>5, <2>1, <2>3, <2>4
<1>. QED BY <1>6, <1>7

LEMMA BeginCalm ==
  ASSUME FileInv, NEW p \in Procs, BeginOp(p)
  PROVE  \E n : Calm(proc[p], n) /\ proc' = [proc EXCEPT ![p] = n]
<1>. DEFINE q == proc[p]
<1>1. CASE At(p, "begin") /\ proc' = [proc EXCEPT ![p] = Pop(q)]
  <2>1. q.pc = "begin" /\ IsProcess(q) /\ Shape(q.pc, q.stack)
    BY <1>1 DEF At, FileInv, ProcsOK
  <2>2. q.stack # <<>>
    BY <2>1 DEF Shape, Bodies, PipeLabels, Iputs
  <2>3. Away(q)
    BY <2>1 DEF Away, PipeLabels
  <2>. QED BY <1>1, <2>1, <2>2, <2>3, PopCalm
<1>2. CASE /\ \E c \in {"open", "mkdir", "mknod", "unlink", "link", "chdir", "exec"} : Calls(p, c)
           /\ proc' = [proc EXCEPT ![p] = Started(p)]
  <2>1. q.pc = "user" /\ Arg(p).call \in {"open", "mkdir", "mknod", "unlink", "link", "chdir", "exec"}
    BY <1>2 DEF Calls, At
  <2>2. IsProcess(q) /\ q.stack = <<>> /\ Away(q)
    BY <2>1, AtBody
  <2>3. PICK path : path = Arg(p).path
    OBVIOUS
  <2>4. PICK m : m = [q EXCEPT !.pc = "namex0", !.path = path]
    OBVIOUS
  <2>5. \E b \in Bodies : Started(p) = Push(m, <<b>>) \/ Started(p) = [Push(m, <<b>>) EXCEPT !.par = TRUE]
    <3>1. CASE Arg(p).call = "open"
      BY <2>3, <2>4, <3>1 DEF Started, Bodies
    <3>2. CASE Arg(p).call \in {"mkdir", "mknod"}
      BY <2>3, <2>4, <3>2 DEF Started, Bodies
    <3>3. CASE Arg(p).call = "unlink"
      BY <2>3, <2>4, <3>3 DEF Started, Bodies
    <3>4. CASE Arg(p).call \in {"link", "chdir", "exec"}
      BY <2>3, <2>4, <3>4 DEF Started, Bodies
    <3>. QED BY <2>1, <3>1, <3>2, <3>3, <3>4
  <2>6. PICK b \in Bodies : Started(p) = Push(m, <<b>>) \/ Started(p) = [Push(m, <<b>>) EXCEPT !.par = TRUE]
    BY <2>5
  <2>7. PICK n : n = Started(p)
    OBVIOUS
  <2>8. IsProcess(n) /\ n.pc = "namex0" /\ n.ofile = q.ofile /\ n.stack = <<b>>
    <3>1. PICK m1, m2 : m1 = Push(m, <<b>>) /\ m2 = [m1 EXCEPT !.par = TRUE]
      OBVIOUS
    <3>2. IsProcess(m1) /\ m1.pc = "namex0" /\ m1.ofile = q.ofile /\ m1.stack = <<b>>
      BY <2>2, <2>4, <3>1, FieldsAre, ShortSequences DEF Push, IsProcess, Fields
    <3>3. IsProcess(m2) /\ m2.pc = "namex0" /\ m2.ofile = q.ofile /\ m2.stack = <<b>>
      BY <3>1, <3>2, FieldsAre DEF IsProcess, Fields
    <3>. QED BY <2>6, <2>7, <3>1, <3>2, <3>3
  <2>. QED BY <1>2, <2>2, <2>7, <2>8, BusyInodes, BusyCalm
<1>. QED BY <1>1, <1>2 DEF BeginOp

LEMMA EndCalm ==
  ASSUME FileInv, NEW p \in Procs, EndOp(p)
  PROVE  \E n : Calm(proc[p], n) /\ proc' = [proc EXCEPT ![p] = n]
<1>. DEFINE q == proc[p]
<1>1. q.pc = "end" /\ IsProcess(q) /\ Shape(q.pc, q.stack)
  BY DEF EndOp, At, FileInv, ProcsOK
<1>2. PICK m : m = [q EXCEPT !.log = {}]
  OBVIOUS
<1>3. IsProcess(m) /\ m.pc = "end" /\ m.stack = q.stack /\ m.ofile = q.ofile /\ m.f = q.f
  BY <1>1, <1>2, FieldsAre DEF IsProcess, Fields
<1>4. Away(q) /\ Away(m)
  BY <1>1, <1>3 DEF Away, PipeLabels
<1>5. \/ q.stack = <<>> /\ proc' = [proc EXCEPT ![p] = Returned(m, m.r)]
      \/ q.stack # <<>> /\ proc' = [proc EXCEPT ![p] = Pop(m)]
  BY <1>2, <1>3 DEF EndOp, Return
<1>6. CASE q.stack = <<>>
  BY <1>3, <1>4, <1>5, <1>6, OnwardCalm
<1>7. CASE q.stack # <<>>
  <2>1. Calm(m, Pop(m))
    BY <1>1, <1>3, <1>4, <1>7, PopCalm
  <2>2. Calm(q, Pop(m))
    BY <1>1, <1>3, <1>4, <2>1 DEF Calm, Leaving, Opening
  <2>. QED BY <1>5, <1>7, <2>2
<1>. QED BY <1>6, <1>7

(***************************************************************************)
(* exit, wait and kill                                                     *)
(***************************************************************************)
LEMMA ExitCwdCalm ==
  ASSUME FileInv, NEW p \in Procs, ExitCwd(p)
  PROVE  \E n : Calm(proc[p], n) /\ proc' = [proc EXCEPT ![p] = n]
<1>. DEFINE q == proc[p]
<1>1. q.pc \in Bodies \cup {"user"} /\ \A slot \in Fds : q.ofile[slot] = 0
  BY DEF ExitCwd, Exiting, Calls, At, Bodies, OpenFds
<1>2. IsProcess(q) /\ q.stack = <<>> /\ Away(q)
  BY <1>1, AtBody
<1>3. PICK n : n = [Push(q, <<"iput", "end", "exit_end">>) EXCEPT !.pc = "begin", !.v = q.cwd, !.cwd = 0]
  OBVIOUS
<1>4. <<"iput", "end", "exit_end">> \o <<>> = <<"iput", "end", "exit_end">>
  OBVIOUS
<1>5. IsProcess(n) /\ n.pc = "begin" /\ n.ofile = q.ofile /\ n.stack = <<"iput", "end", "exit_end">>
  BY <1>2, <1>3, <1>4, FieldsAre DEF Push, IsProcess, Fields
<1>6. Shape(n.pc, n.stack) /\ ~Opening(n) /\ Away(n)
  BY <1>5, LeavingShape
<1>7. Calm(q, n)
  BY <1>1, <1>2, <1>5, <1>6 DEF Calm
<1>. QED BY <1>3, <1>7 DEF ExitCwd

\* The slot of a zombie is free again.
LEMMA UnusedCalm ==
  ASSUME FileInv, NEW c \in Procs, proc[c].pc = "zombie"
  PROVE  Calm(proc[c], Unused)
<1>1. IsProcess(Unused) /\ Unused.pc = "unused" /\ Unused.stack = <<>> /\ Unused.ofile = [slot \in Fds |-> 0]
  BY FieldsAre DEF IsProcess, Fields, Unused
<1>2. Leaving(proc[c])
  BY DEF Leaving
<1>3. proc[c].ofile = [slot \in Fds |-> 0]
  BY <1>2 DEF FileInv, ProcsOK
<1>4. Away(proc[c])
  BY DEF Away, PipeLabels
<1>. QED BY <1>1, <1>2, <1>3, <1>4, LeavingShape DEF Calm

LEMMA ExitDoneStep ==
  ASSUME FileInv, NEW p \in Procs, ExitDone(p) \/ InitWait(p), pipes' = pipes
  PROVE  FileInv'
<1>1. CASE ExitDone(p)
  <2>1. DOMAIN proc' = Procs /\ FilesKept
    BY <1>1, FilesAsTheyWere DEF ExitDone
  <2>2. IsProcess(proc[p]) /\ proc[p].pc = "exit_end" /\ Shape(proc[p].pc, proc[p].stack)
    BY <1>1 DEF ExitDone, At, FileInv, ProcsOK
  <2>3. proc[p].stack = <<>> /\ Leaving(proc[p]) /\ Away(proc[p])
    BY <2>2 DEF Shape, Leaving, Away, Bodies, PipeLabels, Iputs
  <2>4. PICK n : n = Jump(proc[p], "zombie")
    OBVIOUS
  <2>5. IsProcess(n) /\ n.pc = "zombie" /\ n.ofile = proc[p].ofile /\ n.stack = <<>>
    BY <2>2, <2>3, <2>4, JumpIs DEF Fields
  <2>6. Calm(proc[p], n)
    BY <2>3, <2>5, LeavingShape DEF Calm
  <2>7. ASSUME NEW c \in Procs, c # p PROVE Kept(proc[c], proc'[c])
    <3>1. proc'[c] = proc[c] \/ proc'[c] = [proc[c] EXCEPT !.parent = 0]
      BY <1>1, <2>7 DEF ExitDone
    <3>2. IsProcess(proc[c])
      BY DEF FileInv, ProcsOK
    <3>. QED BY <3>1, <3>2, FieldsAre DEF Kept, IsProcess, Fields
  <2>8. proc'[p] = n
    BY <1>1, <2>4 DEF ExitDone
  <2>. QED BY <2>1, <2>6, <2>7, <2>8, CalmStep
<1>2. CASE InitWait(p)
  <2>1. proc[p].pc = "zombie" /\ proc' = [proc EXCEPT ![p] = Unused] /\ FilesKept
    BY <1>2, FilesAsTheyWere DEF InitWait, At
  <2>. QED BY <2>1, UnusedCalm, OneCalm
<1>. QED BY <1>1, <1>2

LEMMA WaitStep ==
  ASSUME FileInv, NEW p \in Procs, Wait(p), pipes' = pipes
  PROVE  FileInv'
<1>. DEFINE q == proc[p]
<1>1. q.pc = "user" /\ FilesKept
  BY FilesAsTheyWere DEF Wait, Calls, At
<1>2. IsProcess(q) /\ q.stack = <<>> /\ Away(q)
  BY <1>1, AtBody
<1>3. \A r : Calm(q, Returned(q, r))
  BY <1>2, OnwardCalm
<1>4. CASE \E c \in Children(p, {"zombie"}) : proc' = [proc EXCEPT ![p] = Returned(q, c), ![c] = Unused]
  <2>1. PICK c \in Procs : proc[c].pc = "zombie" /\ proc' = [proc EXCEPT ![p] = Returned(q, c), ![c] = Unused]
    BY <1>4 DEF Children
  <2>2. Calm(proc[c], Unused)
    BY <2>1, UnusedCalm
  <2>3. DOMAIN proc' = Procs /\ c # p
    BY <1>1, <2>1 DEF FileInv, ProcsOK
  <2>4. ASSUME NEW d \in Procs PROVE Kept(proc[d], proc'[d]) \/ Calm(proc[d], proc'[d])
    <3>1. CASE d = p
      BY <1>3, <2>1, <2>3, <3>1 DEF FileInv, ProcsOK
    <3>2. CASE d = c
      BY <2>1, <2>2, <3>2 DEF FileInv, ProcsOK
    <3>3. CASE d # c /\ d # p
      BY <2>1, <3>3 DEF FileInv, ProcsOK, Kept
    <3>. QED BY <3>1, <3>2, <3>3
  <2>. QED BY <1>1, <2>3, <2>4, CalmStep
<1>5. CASE proc' = [proc EXCEPT ![p] = Returned(q, -1)]
  BY <1>1, <1>3, <1>5, OneCalm
<1>. QED BY <1>4, <1>5 DEF Wait, Return

\* kill() wakes a process that sleeps in a pipe, and changes nothing else of it than its killed flag.
LEMMA KillKeeps ==
  ASSUME FileInv, NEW p \in Procs, Kill(p), NEW c \in Procs, c # p
  PROVE  Kept(proc[c], proc'[c])
<1>1. PICK pc : /\ proc'[c] = proc[c] \/ proc'[c] = [proc[c] EXCEPT !.killed = TRUE, !.pc = pc]
                /\ pc = IF proc[c].pc = "read_asleep" THEN "piperead"
                        ELSE IF proc[c].pc = "write_asleep" THEN "pipewrite" ELSE proc[c].pc
  BY DEF Kill
<1>2. IsProcess(proc[c])
  BY DEF FileInv, ProcsOK
<1>3. proc'[c].pc = proc[c].pc \/ proc'[c].pc = pc
  BY <1>1, <1>2, FieldsAre DEF IsProcess, Fields
<1>4. IsProcess(proc'[c]) /\ \A x \in Fields \ {"pc", "parent", "killed"} : proc'[c][x] = proc[c][x]
  BY <1>1, <1>2, FieldsAre DEF IsProcess, Fields
<1>. QED BY <1>1, <1>3, <1>4 DEF Kept

LEMMA KillStep ==
  ASSUME FileInv, NEW p \in Procs, Kill(p), pipes' = pipes
  PROVE  FileInv'
<1>1. proc[p].pc = "user" /\ FilesKept /\ DOMAIN proc' = Procs
  BY FilesAsTheyWere DEF Kill, Calls, At
<1>2. IsProcess(proc[p]) /\ proc[p].stack = <<>> /\ Away(proc[p])
  BY <1>1, AtBody
<1>3. \E r : proc'[p] = Returned(proc[p], r)
  BY DEF Kill
<1>4. Calm(proc[p], proc'[p])
  BY <1>2, <1>3, OnwardCalm
<1>5. ASSUME NEW c \in Procs, c # p PROVE Kept(proc[c], proc'[c])
  BY <1>5, KillKeeps
<1>. QED BY <1>1, <1>4, <1>5, CalmStep

(***************************************************************************)
(* Who refers to a file                                                    *)
(***************************************************************************)
HeldBy(c, f) == (\E slot \in Fds : proc[c].ofile[slot] = f) \/ (proc[c].pc = "pipealloc" /\ proc[c].f = f)

LEMMA SetsFinite == IsFiniteSet(Procs) /\ IsFiniteSet(Fds) /\ IsFiniteSet(Files) /\ IsFiniteSet(Procs \X Fds)
<1>1. IsFiniteSet(Procs) /\ IsFiniteSet(Fds) /\ IsFiniteSet(Files)
  BY FileSysAssumption, FS_Interval DEF Procs, Fds, Files
<1>. QED BY <1>1, FS_Product

LEMMA CountsFinite ==
  ASSUME NEW f
  PROVE  /\ IsFiniteSet(FdsOf(f)) /\ Cardinality(FdsOf(f)) \in Nat
         /\ IsFiniteSet(Allocating(f)) /\ Cardinality(Allocating(f)) \in Nat
<1>1. FdsOf(f) \in SUBSET (Procs \X Fds) /\ Allocating(f) \in SUBSET Procs
  BY DEF FdsOf, Allocating
<1>2. IsFiniteSet(FdsOf(f)) /\ IsFiniteSet(Allocating(f))
  BY <1>1, SetsFinite, FS_Subset
<1>. QED BY <1>2, FS_CardinalityType

LEMMA AtLeastOne ==
  ASSUME NEW S, IsFiniteSet(S), NEW x \in S
  PROVE  Cardinality(S) \in Nat /\ Cardinality(S) >= 1
BY FS_CardinalityType, FS_EmptySet

LEMMA AtLeastTwo ==
  ASSUME NEW S, IsFiniteSet(S), NEW x \in S, NEW y \in S, x # y
  PROVE  Cardinality(S) \in Nat /\ Cardinality(S) >= 2
<1>1. IsFiniteSet(S \ {x}) /\ Cardinality(S \ {x}) = Cardinality(S) - 1
  BY FS_RemoveElement
<1>2. Cardinality(S \ {x}) >= 1
  BY <1>1, AtLeastOne
<1>. QED BY <1>1, <1>2, FS_CardinalityType

LEMMA HeldOnce ==
  ASSUME FileInv, NEW c \in Procs, NEW f \in Files, HeldBy(c, f)
  PROVE  ftable[f].ref \in Nat /\ ftable[f].ref >= 1
<1>1. ftable[f].ref = Cardinality(FdsOf(f)) + Cardinality(Allocating(f))
  BY DEF FileInv, FilesCounted
<1>2. CASE \E slot \in Fds : proc[c].ofile[slot] = f
  <2>1. PICK slot \in Fds : proc[c].ofile[slot] = f
    BY <1>2
  <2>2. <<c, slot>> \in FdsOf(f)
    BY <2>1 DEF FdsOf
  <2>. QED BY <1>1, <2>2, CountsFinite, AtLeastOne
<1>3. CASE c \in Allocating(f)
  BY <1>1, <1>3, CountsFinite, AtLeastOne
<1>. QED BY <1>2, <1>3 DEF HeldBy, Allocating

LEMMA HeldTwice ==
  ASSUME FileInv, NEW c \in Procs, NEW d \in Procs, c # d, NEW f \in Files, HeldBy(c, f), HeldBy(d, f)
  PROVE  ftable[f].ref >= 2
<1>1. ftable[f].ref = Cardinality(FdsOf(f)) + Cardinality(Allocating(f))
  BY DEF FileInv, FilesCounted
<1>2. ASSUME NEW b \in Procs, HeldBy(b, f) PROVE (\E slot \in Fds : <<b, slot>> \in FdsOf(f)) \/ b \in Allocating(f)
  BY <1>2 DEF HeldBy, FdsOf, Allocating
<1>3. CASE \E slot, place \in Fds : <<c, slot>> \in FdsOf(f) /\ <<d, place>> \in FdsOf(f)
  <2>1. PICK slot \in Fds, place \in Fds : <<c, slot>> \in FdsOf(f) /\ <<d, place>> \in FdsOf(f)
    BY <1>3
  <2>2. <<c, slot>> # <<d, place>>
    OBVIOUS
  <2>3. Cardinality(FdsOf(f)) >= 2
    BY <2>1, <2>2, CountsFinite, AtLeastTwo
  <2>. QED BY <1>1, <2>3, CountsFinite
<1>4. CASE (\E x \in FdsOf(f) : TRUE) /\ (\E x \in Allocating(f) : TRUE)
  <2>1. Cardinality(FdsOf(f)) >= 1 /\ Cardinality(Allocating(f)) >= 1
    BY <1>4, CountsFinite, AtLeastOne
  <2>. QED BY <1>1, <2>1, CountsFinite
<1>5. CASE c \in Allocating(f) /\ d \in Allocating(f)
  <2>1. Cardinality(Allocating(f)) >= 2
    BY <1>5, CountsFinite, AtLeastTwo
  <2>. QED BY <1>1, <2>1, CountsFinite
<1>. QED BY <1>2, <1>3, <1>4, <1>5

\* A file without references is nobody's, and a file with one that is allocated is in no descriptor.
LEMMA FreeIsNobodys ==
  ASSUME FileInv, NEW f \in Files, ftable[f].ref = 0
  PROVE  FdsOf(f) = {} /\ Allocating(f) = {} /\ ftable[f].type = "FD_NONE"
<1>1. ftable[f].ref = Cardinality(FdsOf(f)) + Cardinality(Allocating(f))
  BY DEF FileInv, FilesCounted
<1>2. Cardinality(FdsOf(f)) = 0 /\ Cardinality(Allocating(f)) = 0
  BY <1>1, CountsFinite
<1>. QED BY <1>2, CountsFinite, FS_EmptySet DEF FileInv, FilesOK, FileOK

LEMMA AllocatedIsMine ==
  ASSUME FileInv, NEW p \in Procs, proc[p].pc = "pipealloc", NEW f, f = proc[p].f
  PROVE  f \in Files /\ ftable[f].ref = 1 /\ ftable[f].type = "FD_NONE" /\ FdsOf(f) = {} /\ Allocating(f) = {p}
<1>1. f \in Files /\ ftable[f].ref = 1 /\ ftable[f].type = "FD_NONE"
  BY DEF FileInv, Knows, Fresh
<1>2. ftable[f].ref = Cardinality(FdsOf(f)) + Cardinality(Allocating(f)) /\ p \in Allocating(f)
  BY <1>1 DEF FileInv, FilesCounted, Allocating
<1>3. Cardinality(Allocating(f)) >= 1
  BY <1>2, CountsFinite, AtLeastOne
<1>4. Cardinality(FdsOf(f)) = 0 /\ Cardinality(Allocating(f)) = 1
  BY <1>1, <1>2, <1>3, CountsFinite
<1>5. FdsOf(f) = {}
  BY <1>4, CountsFinite, FS_EmptySet
<1>6. PICK x : Allocating(f) = {x}
  BY <1>4, CountsFinite, FS_Singleton
<1>. QED BY <1>1, <1>2, <1>5, <1>6

\* A descriptor is taken, or given back.
LEMMA FdTaken ==
  ASSUME NEW p \in Procs, NEW slot \in Fds, NEW f, proc[p].ofile[slot] # f, FilesOK,
         proc'[p].ofile[slot] = f, \A place \in Fds \ {slot} : proc'[p].ofile[place] = proc[p].ofile[place],
         \A c \in Procs \ {p} : proc'[c].ofile = proc[c].ofile
  PROVE  /\ Cardinality(FdsOf(f)') = Cardinality(FdsOf(f)) + 1
         /\ \A g : g # f /\ g # proc[p].ofile[slot] => FdsOf(g)' = FdsOf(g)
<1>1. FdsOf(f)' = FdsOf(f) \cup {<<p, slot>>}
  BY DEF FdsOf
<1>2. <<p, slot>> \notin FdsOf(f)
  BY DEF FdsOf
<1>3. ASSUME NEW g, g # f, g # proc[p].ofile[slot] PROVE FdsOf(g)' = FdsOf(g)
  BY <1>3 DEF FdsOf
<1>4. IsFiniteSet(FdsOf(f))
  BY CountsFinite
<1>5. Cardinality(FdsOf(f) \cup {<<p, slot>>}) = Cardinality(FdsOf(f)) + 1
  BY <1>2, <1>4, FS_AddElement
<1>. QED BY <1>1, <1>3, <1>5

LEMMA FdGiven ==
  ASSUME NEW p \in Procs, NEW slot \in Fds, NEW f, proc[p].ofile[slot] = f, proc'[p].ofile[slot] # f,
         \A place \in Fds \ {slot} : proc'[p].ofile[place] = proc[p].ofile[place],
         \A c \in Procs \ {p} : proc'[c].ofile = proc[c].ofile
  PROVE  /\ Cardinality(FdsOf(f)') = Cardinality(FdsOf(f)) - 1
         /\ \A g : g # f /\ g # proc'[p].ofile[slot] => FdsOf(g)' = FdsOf(g)
<1>1. FdsOf(f)' = FdsOf(f) \ {<<p, slot>>}
  BY DEF FdsOf
<1>2. <<p, slot>> \in FdsOf(f)
  BY DEF FdsOf
<1>3. ASSUME NEW g, g # f, g # proc'[p].ofile[slot] PROVE FdsOf(g)' = FdsOf(g)
  BY <1>3 DEF FdsOf
<1>4. Cardinality(FdsOf(f) \ {<<p, slot>>}) = Cardinality(FdsOf(f)) - 1
  <2>1. IsFiniteSet(FdsOf(f))
    BY CountsFinite
  <2>. QED BY ONLY <1>2, <2>1, FS_RemoveElement
<1>. QED BY <1>1, <1>3, <1>4

(***************************************************************************)
(* What the other processes go on knowing                                  *)
(***************************************************************************)
\* A process knows a file that it has a descriptor of, or is about to get one of.
LEMMA KnownIsHeld ==
  ASSUME NEW c \in Procs, Knows(c), NEW q, q = proc[c],
         q.pc = "pipealloc" \/ Opening(q) \/ Writing(q) \/ Reading(q)
  PROVE  q.f \in Files /\ HeldBy(c, q.f)
<1>1. CASE q.pc = "pipealloc"
  BY <1>1 DEF Knows, Fresh, HeldBy
<1>2. CASE Opening(q) \/ Writing(q)
  BY <1>2 DEF Knows, Fresh, PipeEnd, HeldBy
<1>3. CASE Reading(q)
  <2>1. q.f \in Files /\ q.f = argfd(c)
    BY <1>3 DEF Knows, PipeEnd
  <2>2. q.f # 0
    BY <2>1 DEF Files
  <2>3. FdArg(c) \in Fds /\ q.ofile[FdArg(c)] = q.f
    BY <2>1, <2>2 DEF argfd
  <2>. QED BY <2>1, <2>3 DEF HeldBy
<1>. QED BY <1>1, <1>2, <1>3

\* A step leaves what another process knows of file f; it leaves the part that file f, or process c, has
\* in the ends of a pipe; process p comes to n.
Told(f) ==
  /\ ftable'[f].type = ftable[f].type /\ ftable'[f].writable = ftable[f].writable
  /\ ftable'[f].pipe = ftable[f].pipe /\ (ftable[f].ref = 1 => ftable'[f].ref = 1)
SameEnd(f) ==
  /\ ftable'[f].type = "FD_PIPE" <=> ftable[f].type = "FD_PIPE"
  /\ ftable[f].type = "FD_PIPE" => ftable'[f].pipe = ftable[f].pipe /\ ftable'[f].writable = ftable[f].writable
SameCloser(c) ==
  /\ proc'[c].pc = "pipeclose" <=> proc[c].pc = "pipeclose"
  /\ proc[c].pc = "pipeclose" => proc'[c].v = proc[c].v /\ proc'[c].par = proc[c].par
Stepped(p, n) ==
  /\ proc' = [proc EXCEPT ![p] = n]
  /\ IsProcess(n) /\ Shape(n.pc, n.stack) /\ n.ofile \in [Fds -> 0..NFILE] /\ ~Leaving(n)

LEMMA Untouched ==
  /\ \A f : ftable'[f] = ftable[f] => Told(f) /\ SameEnd(f)
  /\ \A f : ftable'[f].type # "FD_PIPE" /\ ftable[f].type # "FD_PIPE" => SameEnd(f)
  /\ \A f : ftable'[f].type = ftable[f].type /\ ftable'[f].writable = ftable[f].writable /\ ftable'[f].pipe = ftable[f].pipe
           => SameEnd(f)
  /\ \A c : proc'[c] = proc[c] => SameCloser(c)
  /\ \A c : proc'[c].pc # "pipeclose" /\ proc[c].pc # "pipeclose" => SameCloser(c)
BY DEF Told, SameEnd, SameCloser

\* It goes on knowing it when a step of process p leaves the fields of the file, and either leaves
\* its pipe or works on it under the lock.
LEMMA OthersKnow ==
  ASSUME FileInv, NEW p \in Procs, NEW c \in Procs, c # p, Kept(proc[c], proc'[c]),
         \A f \in Files : HeldBy(c, f) => Told(f),
         NEW pi, pi = pipes'[ftable[proc[c].f].pipe],
         \/ ~Reading(proc[c]) /\ ~Writing(proc[c])
         \/ pi = PipeOf(proc[c])
         \/ /\ PipeOf(proc[c]).lock \in {0, p}
            /\ proc'[c].pc = "read_asleep" => pi.writeopen
            /\ proc'[c].pc = "write_asleep" => Full(pi) /\ pi.readopen
  PROVE  Knows(c)'
<1>1. PICK q, n : q = proc[c] /\ n = proc'[c]
  OBVIOUS
<1>2. Knows(c) /\ Shape(q.pc, q.stack)
  BY <1>1 DEF FileInv, ProcsOK
<1>3. /\ Opening(n) <=> Opening(q)
      /\ n.ofile = q.ofile /\ n.f = q.f /\ n.v = q.v /\ n.par = q.par /\ n.arg = q.arg /\ n.last = q.last
      /\ n.pc = "pipealloc" <=> q.pc = "pipealloc"
      /\ n.pc = "pipeclose" <=> q.pc = "pipeclose"
      /\ Reading(n) <=> Reading(q)
      /\ Writing(n) <=> Writing(q)
  BY <1>1, <1>2, KeptIs
<1>4. argfd(c)' = argfd(c)
  BY <1>1, <1>3 DEF argfd, FdArg, Arg
<1>5. q.pc = "pipealloc" \/ Opening(q) \/ Writing(q) \/ Reading(q) =>
        /\ q.f \in Files /\ ftable'[q.f].type = ftable[q.f].type /\ ftable'[q.f].writable = ftable[q.f].writable
        /\ ftable'[q.f].pipe = ftable[q.f].pipe /\ (ftable[q.f].ref = 1 => ftable'[q.f].ref = 1)
  BY <1>1, <1>2, KnownIsHeld DEF Told
<1>6. /\ n.pc = "pipealloc" => Fresh(n.f)'
      /\ Opening(n) => Fresh(n.f)' /\ \E slot \in Fds : n.ofile[slot] = n.f
  BY <1>1, <1>2, <1>3, <1>5 DEF Knows, Fresh
<1>7. Writing(n) => PipeEnd(n.f, TRUE)' /\ \E slot \in Fds : n.ofile[slot] = n.f
  <2>1. Writing(q) => PipeEnd(q.f, TRUE) /\ \E slot \in Fds : q.ofile[slot] = q.f
    BY <1>1, <1>2 DEF Knows
  <2>2. Writing(q) => PipeEnd(q.f, TRUE)'
    BY <1>5, <2>1 DEF PipeEnd
  <2>. QED BY <1>3, <2>1, <2>2
<1>8. Reading(n) => PipeEnd(n.f, FALSE)' /\ n.f = argfd(c)'
  BY <1>1, <1>2, <1>3, <1>4, <1>5 DEF Knows, PipeEnd
<1>9. n.pc = "pipeclose" => n.v \in Pages /\ n.par \in BOOLEAN
  BY <1>1, <1>2, <1>3 DEF Knows
<1>10. n.pc \in {"read_sleep", "write_sleep", "read_asleep", "write_asleep"} => n.pc = q.pc
  BY <1>1 DEF Kept
<1>11. PICK old : old = PipeOf(q)
  OBVIOUS
<1>12. /\ q.pc = "read_sleep" => old.lock = c /\ Empty(old) /\ old.writeopen
       /\ q.pc = "write_sleep" => old.lock = c /\ Full(old) /\ old.readopen
       /\ q.pc = "read_asleep" => old.writeopen
       /\ q.pc = "write_asleep" => Full(old) /\ old.readopen
  BY <1>1, <1>2, <1>11 DEF Knows
<1>13. c # 0
  BY DEF Procs
<1>14. \/ ~Reading(q) /\ ~Writing(q)
       \/ pi = old
       \/ (old.lock \in {0, p} /\ (n.pc = "read_asleep" => pi.writeopen)
           /\ (n.pc = "write_asleep" => Full(pi) /\ pi.readopen))
  BY <1>1, <1>11
<1>15. /\ n.pc = "read_sleep" => pi.lock = c /\ Empty(pi) /\ pi.writeopen
       /\ n.pc = "write_sleep" => pi.lock = c /\ Full(pi) /\ pi.readopen
       /\ n.pc = "read_asleep" => pi.writeopen
       /\ n.pc = "write_asleep" => Full(pi) /\ pi.readopen
  BY <1>10, <1>12, <1>13, <1>14 DEF Reading, Writing
<1>16. Reading(n) \/ Writing(n) => PipeOf(n)' = pi
  BY <1>1, <1>3, <1>5 DEF PipeOf
<1>17. PICK pin : pin = PipeOf(n)'
  OBVIOUS
<1>18. /\ n.pc = "read_sleep" => pin.lock = c /\ Empty(pin) /\ pin.writeopen
       /\ n.pc = "write_sleep" => pin.lock = c /\ Full(pin) /\ pin.readopen
       /\ n.pc = "read_asleep" => pin.writeopen
       /\ n.pc = "write_asleep" => Full(pin) /\ pin.readopen
  BY <1>15, <1>16, <1>17 DEF Reading, Writing
<1>. QED BY <1>1, <1>6, <1>7, <1>8, <1>9, <1>17, <1>18 DEF Knows, Writing, Reading, Opening, Fresh, PipeEnd, Empty, Full, PipeOf

(***************************************************************************)
(* Steps that take, share or give back a file                              *)
(***************************************************************************)
\* The ends of the pipes stay who they are.
LEMMA EndsSame ==
  ASSUME FileInv, pipes' = pipes, \A f \in Files : SameEnd(f), \A c \in Procs : SameCloser(c)
  PROVE  PipeFreedByLast'
<1>1. ASSUME NEW i \in Pages, NEW w \in BOOLEAN PROVE EndsOf(i, w)' = EndsOf(i, w) /\ Closers(i, w)' = Closers(i, w)
  BY DEF EndsOf, Closers, SameEnd, SameCloser
<1>. QED BY <1>1 DEF FileInv, PipeFreedByLast, Ends

\* A file step of process p: the pipes stay, and a file that another process holds changes at most the
\* number of its references.
LEMMA FileStep ==
  ASSUME FileInv, NEW p \in Procs, pipes' = pipes, NEW n, Stepped(p, n), Knows(p)',
         \A c \in Procs \ {p} : \A f \in Files : HeldBy(c, f) => Told(f),
         FilesOK', FilesCounted', PipeFreedByLast'
  PROVE  FileInv'
<1>1. DOMAIN proc' = Procs /\ proc'[p] = n /\ \A c \in Procs \ {p} : proc'[c] = proc[c]
  BY DEF FileInv, ProcsOK, Stepped
<1>2. ProcsOK'
  BY <1>1 DEF FileInv, ProcsOK, Leaving, Stepped
<1>3. PipesOK'
  BY DEF FileInv, PipesOK
<1>4. ASSUME NEW c \in Procs, c # p PROVE Knows(c)'
  <2>1. Kept(proc[c], proc'[c])
    BY <1>1, <1>4 DEF FileInv, ProcsOK, Kept
  <2>2. PICK pi : pi = pipes'[ftable[proc[c].f].pipe] /\ pi = PipeOf(proc[c])
    BY DEF PipeOf
  <2>. QED BY <1>4, <2>1, <2>2, OthersKnow
<1>. QED BY <1>2, <1>3, <1>4 DEF FileInv

\* Only process p holds a file with one reference that it holds.
LEMMA MineAlone ==
  ASSUME FileInv, NEW p \in Procs, NEW f \in Files, ftable[f].ref = 0 \/ (ftable[f].ref = 1 /\ HeldBy(p, f))
  PROVE  \A c \in Procs \ {p} : ~HeldBy(c, f)
BY HeldOnce, HeldTwice

\* The free file and the free descriptor that a call takes.
LEMMA FirstIs ==
  ASSUME NEW S, S \in SUBSET Nat, S # {}
  PROVE  First(S) \in S
<1>. DEFINE R == OpToRel(<, Nat)
<1>1. IsWellFoundedOn(R, Nat)
  BY NatLessThanWellFounded
<1>2. \A x, y \in Nat : x < y => <<x, y>> \in R
  BY DEF OpToRel
<1>. HIDE DEF R
<1>3. PICK x \in S : \A y \in S : ~(<<y, x>> \in R)
  BY <1>1, WFMin
<1>4. ASSUME NEW y \in S PROVE x <= y
  <2>1. x \in Nat /\ y \in Nat /\ ~(<<y, x>> \in R)
    BY <1>3
  <2>2. ~(y < x)
    BY <1>2, <2>1
  <2>. QED BY <2>1, <2>2
<1>. QED BY <1>4 DEF First

LEMMA FirstFree ==
  /\ FreeFiles # {} => First(FreeFiles) \in Files /\ ftable[First(FreeFiles)].ref = 0
  /\ \A q : FreeFds(q) # {} => First(FreeFds(q)) \in Fds /\ q.ofile[First(FreeFds(q))] = 0
<1>1. FreeFiles \in SUBSET Nat /\ \A q : FreeFds(q) \in SUBSET Nat
  BY DEF FreeFiles, FreeFds, Files, Fds
<1>. QED BY <1>1, FirstIs DEF FreeFiles, FreeFds

LEMMA OpenFileStep ==
  ASSUME FileInv, NEW p \in Procs, OpenFile(p), pipes' = pipes
  PROVE  FileInv'
<1>. DEFINE q == proc[p]
<1>1. q.pc = "open2"
  BY DEF OpenFile, At
<1>2. IsProcess(q) /\ q.stack = <<>> /\ Away(q)
  BY <1>1, AtBody DEF Bodies
<1>3. CASE ~(FreeFiles # {} /\ FreeFds(q) # {})
  <2>1. Calm(q, FailPut(q, q.ip))
    BY <1>1, <1>2, OnwardCalm
  <2>2. ftable' = ftable /\ proc' = [proc EXCEPT ![p] = FailPut(q, q.ip)]
    BY <1>3 DEF OpenFile
  <2>. QED BY <2>1, <2>2, FilesAsTheyWere, OneCalm
<1>4. CASE FreeFiles # {} /\ FreeFds(q) # {}
  <2>1. PICK f \in Files, slot \in Fds : /\ f = First(FreeFiles) /\ slot = First(FreeFds(q))
                                        /\ ftable[f].ref = 0 /\ q.ofile[slot] = 0
    BY <1>4, FirstFree
  <2>2. PICK n : n = [Push(q, <<"open3">>) EXCEPT !.pc = "end", !.ofile[slot] = f, !.f = f, !.r = slot]
    OBVIOUS
  <2>3. proc' = [proc EXCEPT ![p] = n] /\ ftable' = [ftable EXCEPT ![f].ref = 1]
    BY <1>4, <2>1, <2>2 DEF OpenFile
  <2>4. IsProcess(n) /\ n.pc = "end" /\ n.stack = <<"open3">> /\ n.f = f /\ n.ofile = [q.ofile EXCEPT ![slot] = f]
    <3>1. <<"open3">> \o <<>> = <<"open3">>
      OBVIOUS
    <3>. QED BY <1>2, <2>2, <3>1, FieldsAre DEF Push, IsProcess, Fields
  <2>5. Shape(n.pc, n.stack) /\ ~Leaving(n)
    BY <2>4 DEF Shape, Leaving
  <2>6. q.ofile \in [Fds -> 0..NFILE] /\ 0 \notin Files
    BY DEF FileInv, ProcsOK, Files
  <2>7. n.ofile \in [Fds -> 0..NFILE] /\ n.ofile[slot] = f
    BY <2>4, <2>6 DEF Files
  <2>8. /\ DOMAIN ftable' = Files /\ ftable'[f] = [ftable[f] EXCEPT !.ref = 1]
        /\ \A g \in Files \ {f} : ftable'[g] = ftable[g]
        /\ DOMAIN proc' = Procs /\ proc'[p] = n /\ \A c \in Procs \ {p} : proc'[c] = proc[c]
    BY <2>3 DEF FileInv, FilesOK, FileOK, ProcsOK
  <2>9. /\ IsFile(ftable'[f]) /\ ftable'[f].ref = 1 /\ ftable'[f].type = "FD_NONE" /\ ftable[f].type = "FD_NONE"
        /\ FdsOf(f) = {} /\ Allocating(f) = {}
    <3>1. IsFile(ftable[f]) /\ ftable[f].type = "FD_NONE" /\ FdsOf(f) = {} /\ Allocating(f) = {}
      BY <2>1, FreeIsNobodys DEF FileInv, FilesOK, FileOK
    <3>. QED BY <2>8, <3>1, FileFieldsAre DEF IsFile, FileFields
  <2>10. FilesOK'
    <3>1. FileOK(ftable'[f])
      BY <2>9 DEF FileOK
    <3>2. ASSUME NEW g \in Files PROVE FileOK(ftable'[g])
      BY <2>8, <3>1 DEF FileInv, FilesOK
    <3>. QED BY <2>8, <3>2 DEF FilesOK
  <2>11. ASSUME NEW g \in Files PROVE Allocating(g)' = Allocating(g)
    BY <1>1, <2>4, <2>8 DEF Allocating
  <2>12. FilesCounted'
    <3>1. /\ Cardinality(FdsOf(f)') = Cardinality(FdsOf(f)) + 1
          /\ \A g : g # f /\ g # proc[p].ofile[slot] => FdsOf(g)' = FdsOf(g)
      BY <2>1, <2>4, <2>6, <2>8, FdTaken DEF FileInv
    <3>2. ASSUME NEW g \in Files PROVE ftable'[g].ref = Cardinality(FdsOf(g)') + Cardinality(Allocating(g)')
      <4>1. CASE g = f
        BY <2>9, <2>11, <3>1, <4>1, FS_EmptySet
      <4>2. CASE g # f
        BY <2>1, <2>6, <2>8, <2>11, <3>1, <4>2 DEF FileInv, FilesCounted
      <4>. QED BY <4>1, <4>2
    <3>. QED BY <3>2 DEF FilesCounted
  <2>13. PipeFreedByLast'
    <3>1. \A g \in Files : SameEnd(g)
      BY <2>8, <2>9, Untouched
    <3>2. \A c \in Procs : SameCloser(c)
      BY <1>1, <2>4, <2>8, Untouched
    <3>. QED BY <3>1, <3>2, EndsSame
  <2>14. Knows(p)'
    <3>1. Fresh(n.f)'
      BY <2>4, <2>9 DEF Fresh
    <3>. QED BY <2>4, <2>7, <2>8, <3>1 DEF Knows, Writing, Reading, Opening
  <2>15. \A c \in Procs \ {p} : ~HeldBy(c, f)
    BY <2>1, MineAlone
  <2>16. \A c \in Procs \ {p} : \A g \in Files : HeldBy(c, g) => Told(g)
    BY <2>8, <2>15, Untouched
  <2>17. Stepped(p, n)
    BY <2>3, <2>4, <2>5, <2>7 DEF Stepped
  <2>. QED BY <2>10, <2>12, <2>13, <2>14, <2>16, <2>17, FileStep
<1>. QED BY <1>3, <1>4

(***************************************************************************)
(* open, dup, pipe and write find or share their file                      *)
(***************************************************************************)
LEMMA OpenSetStep ==
  ASSUME FileInv, NEW p \in Procs, OpenSet(p), pipes' = pipes
  PROVE  FileInv'
<1>. DEFINE q == proc[p]
<1>1. q.pc = "open3" /\ IsProcess(q) /\ Opening(q) /\ q.ofile \in [Fds -> 0..NFILE]
  BY DEF OpenSet, At, Opening, FileInv, ProcsOK
<1>2. PICK f \in Files : f = q.f /\ ftable[f].type = "FD_NONE" /\ ftable[f].ref = 1 /\ HeldBy(p, f)
  BY <1>1 DEF FileInv, Knows, Fresh, HeldBy
<1>3. PICK n : n = Returned(q, q.r)
  OBVIOUS
<1>4. IsProcess(n) /\ n.stack = <<>> /\ n.ofile = q.ofile /\ n.pc \in {"exit", "user"} /\ proc' = [proc EXCEPT ![p] = n]
  BY <1>1, <1>3, ReturnedIs DEF OpenSet, Return
<1>5. Shape(n.pc, n.stack) /\ ~Leaving(n) /\ ~Opening(n) /\ Away(n)
  BY <1>4, BusyBody DEF Busy, Bodies
<1>6. /\ DOMAIN ftable' = Files /\ IsFile(ftable'[f]) /\ ftable'[f].type = "FD_INODE" /\ ftable'[f].ref = 1
      /\ \A g \in Files \ {f} : ftable'[g] = ftable[g]
      /\ DOMAIN proc' = Procs /\ proc'[p] = n /\ \A c \in Procs \ {p} : proc'[c] = proc[c]
  <2>1. PICK ip, off, r, w :
          ftable' = [ftable EXCEPT ![f] = [@ EXCEPT !.type = "FD_INODE", !.ip = ip, !.off = off,
                                                    !.readable = r, !.writable = w]]
    BY <1>2 DEF OpenSet
  <2>2. IsFile(ftable[f]) /\ DOMAIN ftable = Files
    BY DEF FileInv, FilesOK, FileOK
  <2>3. ftable'[f] = [ftable[f] EXCEPT !.type = "FD_INODE", !.ip = ip, !.off = off, !.readable = r, !.writable = w]
    BY <2>1, <2>2
  <2>4. IsFile(ftable'[f]) /\ ftable'[f].type = "FD_INODE" /\ ftable'[f].ref = 1
    BY <1>2, <2>2, <2>3, FileFieldsAre DEF IsFile, FileFields
  <2>. QED BY <1>4, <2>1, <2>2, <2>4 DEF FileInv, ProcsOK
<1>7. FilesOK'
  <2>1. FileOK(ftable'[f])
    BY <1>6 DEF FileOK
  <2>2. ASSUME NEW g \in Files PROVE FileOK(ftable'[g])
    BY <1>6, <2>1 DEF FileInv, FilesOK
  <2>. QED BY <1>6, <2>2 DEF FilesOK
<1>8. FilesCounted'
  <2>1. ASSUME NEW g \in Files PROVE FdsOf(g)' = FdsOf(g) /\ Allocating(g)' = Allocating(g)
    BY <1>1, <1>4, <1>6 DEF FdsOf, Allocating
  <2>2. ASSUME NEW g \in Files PROVE ftable'[g].ref = ftable[g].ref
    BY <1>2, <1>6
  <2>. QED BY <2>1, <2>2 DEF FileInv, FilesCounted
<1>9. PipeFreedByLast'
  <2>1. \A g \in Files : SameEnd(g)
    BY <1>2, <1>6, Untouched
  <2>2. \A c \in Procs : SameCloser(c)
    BY <1>1, <1>4, <1>6, Untouched
  <2>. QED BY <2>1, <2>2, EndsSame
<1>10. Knows(p)'
  BY <1>5, <1>6 DEF Knows, Opening, Away, PipeLabels, Reading, Writing
<1>11. \A c \in Procs \ {p} : ~HeldBy(c, f)
  BY <1>2, MineAlone
<1>12. \A c \in Procs \ {p} : \A g \in Files : HeldBy(c, g) => Told(g)
  BY <1>6, <1>11, Untouched
<1>13. Stepped(p, n)
  BY <1>1, <1>4, <1>5 DEF Stepped
<1>. QED BY <1>7, <1>8, <1>9, <1>10, <1>12, <1>13, FileStep

\* The file of a descriptor.
LEMMA ArgFile ==
  ASSUME FileInv, NEW p \in Procs, argfd(p) # 0
  PROVE  argfd(p) \in Files /\ FdArg(p) \in Fds /\ proc[p].ofile[FdArg(p)] = argfd(p) /\ HeldBy(p, argfd(p))
BY DEF FileInv, ProcsOK, argfd, Files, HeldBy

\* Between them the references of other processes and of this one are more than one.
LEMMA SharedIsMany ==
  ASSUME FileInv, NEW p \in Procs, NEW f \in Files, HeldBy(p, f)
  PROVE  \A c \in Procs \ {p} : HeldBy(c, f) => ftable[f].ref # 1
BY HeldTwice

LEMMA DupStep ==
  ASSUME FileInv, NEW p \in Procs, Dup(p), pipes' = pipes
  PROVE  FileInv'
<1>. DEFINE q == proc[p]
<1>1. q.pc = "user"
  BY DEF Dup, Calls, At
<1>2. IsProcess(q) /\ q.stack = <<>> /\ Away(q)
  BY <1>1, AtBody
<1>3. CASE ~(argfd(p) # 0 /\ FreeFds(q) # {})
  <2>1. Calm(q, Returned(q, -1))
    BY <1>2, OnwardCalm
  <2>2. ftable' = ftable /\ proc' = [proc EXCEPT ![p] = Returned(q, -1)]
    BY <1>3 DEF Dup, Return
  <2>. QED BY <2>1, <2>2, FilesAsTheyWere, OneCalm
<1>4. CASE argfd(p) # 0 /\ FreeFds(q) # {}
  <2>1. PICK f \in Files, slot \in Fds : /\ f = argfd(p) /\ slot = First(FreeFds(q)) /\ HeldBy(p, f)
                                        /\ q.ofile[slot] = 0 /\ f # 0
    BY <1>4, FirstFree, ArgFile
  <2>2. PICK m : m = [q EXCEPT !.ofile[slot] = f]
    OBVIOUS
  <2>3. q.ofile \in [Fds -> 0..NFILE] /\ 0 \notin Files
    BY DEF FileInv, ProcsOK, Files
  <2>4. IsProcess(m) /\ m.ofile = [q.ofile EXCEPT ![slot] = f]
    BY <1>2, <2>2, FieldsAre DEF IsProcess, Fields
  <2>5. PICK n : n = Returned(m, slot)
    OBVIOUS
  <2>6. proc' = [proc EXCEPT ![p] = n] /\ ftable' = [ftable EXCEPT ![f].ref = @ + 1]
    BY <1>4, <2>1, <2>2, <2>5 DEF Dup, Return
  <2>7. IsProcess(n) /\ n.stack = <<>> /\ n.ofile = [q.ofile EXCEPT ![slot] = f] /\ n.pc \in {"exit", "user"}
    BY <2>4, <2>5, ReturnedIs
  <2>8. Shape(n.pc, n.stack) /\ ~Leaving(n) /\ ~Opening(n) /\ Away(n)
    BY <2>7, BusyBody DEF Busy, Bodies
  <2>9. n.ofile \in [Fds -> 0..NFILE]
    BY <2>3, <2>7 DEF Files
  <2>10. /\ DOMAIN ftable' = Files /\ \A g \in Files \ {f} : ftable'[g] = ftable[g]
         /\ ftable'[f] = [ftable[f] EXCEPT !.ref = ftable[f].ref + 1]
         /\ DOMAIN proc' = Procs /\ proc'[p] = n /\ \A c \in Procs \ {p} : proc'[c] = proc[c]
    BY <2>6 DEF FileInv, FilesOK, FileOK, ProcsOK
  <2>11. /\ IsFile(ftable'[f]) /\ ftable'[f].ref = ftable[f].ref + 1
         /\ ftable'[f].type = ftable[f].type /\ ftable'[f].pipe = ftable[f].pipe
         /\ ftable'[f].writable = ftable[f].writable /\ ftable'[f].readable = ftable[f].readable
         /\ ftable[f].ref \in Nat /\ ftable[f].ref >= 1
    <3>1. IsFile(ftable[f]) /\ ftable[f].ref \in Nat /\ ftable[f].ref >= 1
      BY <2>1, HeldOnce DEF FileInv, FilesOK, FileOK
    <3>. QED BY <2>10, <3>1, FileFieldsAre DEF IsFile, FileFields
  <2>12. FilesOK'
    <3>1. FileOK(ftable[f]) /\ ftable'[f].ref \in Nat /\ ftable'[f].ref # 0
      BY <2>11 DEF FileInv, FilesOK
    <3>2. FileOK(ftable'[f])
      BY <2>11, <3>1 DEF FileOK
    <3>3. ASSUME NEW g \in Files PROVE FileOK(ftable'[g])
      BY <2>10, <3>2 DEF FileInv, FilesOK
    <3>. QED BY <2>10, <3>3 DEF FilesOK
  <2>13. ASSUME NEW g \in Files PROVE Allocating(g)' = Allocating(g)
    BY <1>1, <2>7, <2>10 DEF Allocating
  <2>14. FilesCounted'
    <3>1. /\ Cardinality(FdsOf(f)') = Cardinality(FdsOf(f)) + 1
          /\ \A g : g # f /\ g # proc[p].ofile[slot] => FdsOf(g)' = FdsOf(g)
      <4>1. proc[p].ofile[slot] # f /\ FilesOK
        BY <2>1, <2>3 DEF FileInv
      <4>2. /\ proc'[p].ofile[slot] = f
            /\ \A place \in Fds \ {slot} : proc'[p].ofile[place] = proc[p].ofile[place]
        <5>1. PICK o : o = proc[p].ofile /\ DOMAIN o = Fds
          BY <2>3
        <5>2. proc'[p].ofile = [o EXCEPT ![slot] = f]
          BY <2>7, <2>10, <5>1
        <5>3. [o EXCEPT ![slot] = f][slot] = f /\ \A place \in Fds \ {slot} : [o EXCEPT ![slot] = f][place] = o[place]
          BY <5>1
        <5>. QED BY <5>1, <5>2, <5>3
      <4>3. \A c \in Procs \ {p} : proc'[c].ofile = proc[c].ofile
        BY <2>10
      <4>. QED BY <4>1, <4>2, <4>3, FdTaken
    <3>2. ASSUME NEW g \in Files PROVE ftable'[g].ref = Cardinality(FdsOf(g)') + Cardinality(Allocating(g)')
      <4>1. ftable[g].ref = Cardinality(FdsOf(g)) + Cardinality(Allocating(g))
        BY DEF FileInv, FilesCounted
      <4>2. CASE g = f
        BY <2>11, <2>13, <3>1, <4>1, <4>2, CountsFinite
      <4>3. CASE g # f
        BY <2>1, <2>3, <2>10, <2>13, <3>1, <4>1, <4>3
      <4>. QED BY <4>2, <4>3
    <3>. QED BY <3>2 DEF FilesCounted
  <2>15. PipeFreedByLast'
    <3>1. \A g \in Files : SameEnd(g)
      BY <2>10, <2>11, Untouched
    <3>2. \A c \in Procs : SameCloser(c)
      BY <1>1, <2>7, <2>10, Untouched
    <3>. QED BY <3>1, <3>2, EndsSame
  <2>16. Knows(p)'
    BY <2>8, <2>10 DEF Knows, Opening, Away, PipeLabels, Reading, Writing
  <2>17. \A c \in Procs \ {p} : HeldBy(c, f) => ftable[f].ref # 1
    BY <2>1, SharedIsMany
  <2>18. \A c \in Procs \ {p} : \A g \in Files : HeldBy(c, g) => Told(g)
    <3>1. ASSUME NEW c \in Procs \ {p}, HeldBy(c, f) PROVE Told(f)
      BY <2>11, <2>17, <3>1 DEF Told
    <3>. QED BY <2>10, <3>1, Untouched
  <2>19. Stepped(p, n)
    BY <2>6, <2>7, <2>8, <2>9 DEF Stepped
  <2>. QED BY <2>12, <2>14, <2>15, <2>16, <2>18, <2>19, FileStep
<1>. QED BY <1>3, <1>4

LEMMA PipeFileStep ==
  ASSUME FileInv, NEW p \in Procs, PipeFile(p)
  PROVE  FileInv'
<1>. DEFINE q == proc[p]
<1>1. q.pc = "user" /\ pipes' = pipes
  BY DEF PipeFile, Calls, At
<1>2. IsProcess(q) /\ q.stack = <<>> /\ Away(q) /\ q.ofile \in [Fds -> 0..NFILE]
  BY <1>1, AtBody DEF FileInv, ProcsOK
<1>3. CASE FreeFiles = {}
  <2>1. Calm(q, Returned(q, -1))
    BY <1>2, OnwardCalm
  <2>2. ftable' = ftable /\ proc' = [proc EXCEPT ![p] = Returned(q, -1)]
    BY <1>3 DEF PipeFile, Return
  <2>. QED BY <1>1, <2>1, <2>2, FilesAsTheyWere, OneCalm
<1>4. CASE FreeFiles # {}
  <2>1. PICK f \in Files : f = First(FreeFiles) /\ ftable[f].ref = 0
    BY <1>4, FirstFree
  <2>2. PICK n : n = [Jump(q, "pipealloc") EXCEPT !.f = f]
    OBVIOUS
  <2>3. proc' = [proc EXCEPT ![p] = n] /\ ftable' = [ftable EXCEPT ![f].ref = 1]
    BY <1>4, <2>1, <2>2 DEF PipeFile
  <2>4. IsProcess(n) /\ n.pc = "pipealloc" /\ n.stack = <<>> /\ n.f = f /\ n.ofile = q.ofile
    BY <1>2, <2>2, FieldsAre DEF Jump, IsProcess, Fields
  <2>5. Shape(n.pc, n.stack) /\ ~Leaving(n) /\ ~Opening(n)
    BY <2>4 DEF Shape, Leaving, Opening, PipeLabels
  <2>6. /\ DOMAIN ftable' = Files /\ ftable'[f] = [ftable[f] EXCEPT !.ref = 1]
        /\ \A g \in Files \ {f} : ftable'[g] = ftable[g]
        /\ DOMAIN proc' = Procs /\ proc'[p] = n /\ \A c \in Procs \ {p} : proc'[c] = proc[c]
    BY <2>3 DEF FileInv, FilesOK, FileOK, ProcsOK
  <2>7. /\ IsFile(ftable'[f]) /\ ftable'[f].ref = 1 /\ ftable'[f].type = "FD_NONE" /\ ftable[f].type = "FD_NONE"
        /\ FdsOf(f) = {} /\ Allocating(f) = {}
    <3>1. IsFile(ftable[f]) /\ ftable[f].type = "FD_NONE" /\ FdsOf(f) = {} /\ Allocating(f) = {}
      BY <2>1, FreeIsNobodys DEF FileInv, FilesOK, FileOK
    <3>. QED BY <2>6, <3>1, FileFieldsAre DEF IsFile, FileFields
  <2>8. FilesOK'
    <3>1. FileOK(ftable'[f])
      BY <2>7 DEF FileOK
    <3>2. ASSUME NEW g \in Files PROVE FileOK(ftable'[g])
      BY <2>6, <3>1 DEF FileInv, FilesOK
    <3>. QED BY <2>6, <3>2 DEF FilesOK
  <2>9. FilesCounted'
    <3>1. ASSUME NEW g \in Files PROVE FdsOf(g)' = FdsOf(g)
      BY <2>4, <2>6 DEF FdsOf
    <3>2. Allocating(f)' = {p}
      BY <2>4, <2>6, <2>7 DEF Allocating
    <3>3. ASSUME NEW g \in Files, g # f PROVE Allocating(g)' = Allocating(g)
      BY <1>1, <2>4, <2>6, <3>3 DEF Allocating
    <3>4. ASSUME NEW g \in Files PROVE ftable'[g].ref = Cardinality(FdsOf(g)') + Cardinality(Allocating(g)')
      <4>1. CASE g = f
        <5>1. FdsOf(f)' = {} /\ Allocating(f)' = {p}
          BY <2>7, <3>1, <3>2
        <5>2. Cardinality(FdsOf(f)') = 0 /\ Cardinality(Allocating(f)') = 1
          BY <5>1, FS_EmptySet, FS_Singleton
        <5>. QED BY <2>7, <4>1, <5>2
      <4>2. CASE g # f
        BY <2>6, <3>1, <3>3, <4>2 DEF FileInv, FilesCounted
      <4>. QED BY <4>1, <4>2
    <3>. QED BY <3>4 DEF FilesCounted
  <2>10. PipeFreedByLast'
    <3>1. \A g \in Files : SameEnd(g)
      BY <2>6, <2>7, Untouched
    <3>2. \A c \in Procs : SameCloser(c)
      BY <1>1, <2>4, <2>6, Untouched
    <3>. QED BY <1>1, <3>1, <3>2, EndsSame
  <2>11. Knows(p)'
    <3>1. Fresh(n.f)'
      BY <2>4, <2>7 DEF Fresh
    <3>. QED BY <2>4, <2>5, <2>6, <3>1 DEF Knows, Writing, Reading, Opening
  <2>12. \A c \in Procs \ {p} : ~HeldBy(c, f)
    BY <2>1, MineAlone
  <2>13. \A c \in Procs \ {p} : \A g \in Files : HeldBy(c, g) => Told(g)
    BY <2>6, <2>12, Untouched
  <2>14. Stepped(p, n)
    BY <1>2, <2>3, <2>4, <2>5 DEF Stepped
  <2>. QED BY <1>1, <2>8, <2>9, <2>10, <2>11, <2>13, <2>14, FileStep
<1>. QED BY <1>3, <1>4

LEMMA WriteStartStep ==
  ASSUME FileInv, NEW p \in Procs, WriteStart(p), pipes' = pipes
  PROVE  FileInv'
<1>. DEFINE q == proc[p]
<1>1. q.pc = "user" /\ ftable' = ftable
  BY DEF WriteStart, Calls, At
<1>2. IsProcess(q) /\ q.stack = <<>> /\ Away(q) /\ q.ofile \in [Fds -> 0..NFILE]
  BY <1>1, AtBody DEF FileInv, ProcsOK
<1>3. CASE ~(argfd(p) # 0 /\ ftable[argfd(p)].writable)
  <2>1. Calm(q, Returned(q, -1))
    BY <1>2, OnwardCalm
  <2>2. proc' = [proc EXCEPT ![p] = Returned(q, -1)]
    BY <1>3 DEF WriteStart, Return
  <2>. QED BY <1>1, <2>1, <2>2, FilesAsTheyWere, OneCalm
<1>4. CASE argfd(p) # 0 /\ ftable[argfd(p)].writable
  <2>1. PICK f \in Files : f = argfd(p) /\ (\E slot \in Fds : q.ofile[slot] = f) /\ ftable[f].writable
    BY <1>4, ArgFile
  <2>2. CASE ftable[f].type # "FD_PIPE"
    <3>1. PICK n : n = [Push(q, <<"write">>) EXCEPT !.pc = "begin", !.f = f]
      OBVIOUS
    <3>2. proc' = [proc EXCEPT ![p] = n]
      BY <1>4, <2>1, <2>2, <3>1 DEF WriteStart
    <3>3. IsProcess(n) /\ n.pc = "begin" /\ n.stack = <<"write">> /\ n.ofile = q.ofile
      <4>1. <<"write">> \o <<>> = <<"write">>
        OBVIOUS
      <4>. QED BY <1>2, <3>1, <4>1, FieldsAre DEF Push, IsProcess, Fields
    <3>4. Calm(q, n)
      BY <1>2, <3>3, BusyEnd, BusyCalm
    <3>. QED BY <1>1, <3>2, <3>4, FilesAsTheyWere, OneCalm
  <2>3. CASE ftable[f].type = "FD_PIPE"
    <3>1. PICK n : n = [q EXCEPT !.pc = "pipewrite", !.f = f]
      OBVIOUS
    <3>2. proc' = [proc EXCEPT ![p] = n]
      BY <1>4, <2>1, <2>3, <3>1 DEF WriteStart
    <3>3. IsProcess(n) /\ n.pc = "pipewrite" /\ n.stack = <<>> /\ n.ofile = q.ofile /\ n.f = f
      BY <1>2, <3>1, FieldsAre DEF IsProcess, Fields
    <3>4. Shape(n.pc, n.stack) /\ ~Leaving(n) /\ ~Opening(n)
      BY <3>3 DEF Shape, Leaving, Opening, PipeLabels
    <3>5. DOMAIN proc' = Procs /\ proc'[p] = n /\ \A c \in Procs \ {p} : proc'[c] = proc[c]
      BY <3>2 DEF FileInv, ProcsOK
    <3>6. FilesOK'
      BY <1>1 DEF FileInv, FilesOK, FileOK
    <3>7. FilesCounted'
      <4>1. ASSUME NEW g \in Files PROVE FdsOf(g)' = FdsOf(g) /\ Allocating(g)' = Allocating(g)
        BY <1>1, <3>3, <3>5 DEF FdsOf, Allocating
      <4>. QED BY <1>1, <4>1 DEF FileInv, FilesCounted
    <3>8. PipeFreedByLast'
      <4>1. \A g \in Files : SameEnd(g)
        BY <1>1, Untouched
      <4>2. \A c \in Procs : SameCloser(c)
        BY <1>1, <3>3, <3>5, Untouched
      <4>. QED BY <4>1, <4>2, EndsSame
    <3>9. Knows(p)'
      <4>1. PipeEnd(n.f, TRUE)'
        BY <1>1, <2>1, <2>3, <3>3 DEF PipeEnd, FileInv, FilesOK, FileOK
      <4>. QED BY <2>1, <3>3, <3>4, <3>5, <4>1 DEF Knows, Writing, Reading, Opening
    <3>10. \A c \in Procs \ {p} : \A g \in Files : HeldBy(c, g) => Told(g)
      BY <1>1, Untouched
    <3>11. Stepped(p, n)
      BY <1>2, <3>2, <3>3, <3>4 DEF Stepped
    <3>. QED BY <3>6, <3>7, <3>8, <3>9, <3>10, <3>11, FileStep
  <2>. QED BY <2>2, <2>3
<1>. QED BY <1>3, <1>4

(***************************************************************************)
(* close and exit give files back                                          *)
(***************************************************************************)
LEMMA EndsFinite ==
  ASSUME NEW i, NEW w
  PROVE  /\ IsFiniteSet(EndsOf(i, w)) /\ Cardinality(EndsOf(i, w)) \in Nat
         /\ IsFiniteSet(Closers(i, w)) /\ Cardinality(Closers(i, w)) \in Nat
<1>1. EndsOf(i, w) \in SUBSET Files /\ Closers(i, w) \in SUBSET Procs
  BY DEF EndsOf, Closers
<1>2. IsFiniteSet(EndsOf(i, w)) /\ IsFiniteSet(Closers(i, w))
  BY <1>1, SetsFinite, FS_Subset
<1>. QED BY <1>2, FS_CardinalityType

\* The process that closes an end takes the place of its file.
LEMMA EndHandedOver ==
  ASSUME PipeFreedByLast, pipes' = pipes, NEW f \in Files, ftable[f].type = "FD_PIPE", ftable'[f].type # "FD_PIPE",
         \A g \in Files \ {f} : ftable'[g] = ftable[g],
         NEW p \in Procs, proc[p].pc # "pipeclose", proc'[p].pc = "pipeclose",
         proc'[p].v = ftable[f].pipe, proc'[p].par = ftable[f].writable,
         \A c \in Procs \ {p} : proc'[c] = proc[c]
  PROVE  PipeFreedByLast'
<1>1. ASSUME NEW i \in Pages, NEW w \in BOOLEAN PROVE Ends(i, w)' = Ends(i, w)
  <2>1. CASE i = ftable[f].pipe /\ w = ftable[f].writable
    <3>1. EndsOf(i, w)' = EndsOf(i, w) \ {f} /\ f \in EndsOf(i, w)
      BY <2>1 DEF EndsOf
    <3>2. Closers(i, w)' = Closers(i, w) \cup {p} /\ p \notin Closers(i, w)
      BY <2>1 DEF Closers
    <3>3. Cardinality(EndsOf(i, w)') = Cardinality(EndsOf(i, w)) - 1
      BY <3>1, EndsFinite, FS_RemoveElement
    <3>4. Cardinality(Closers(i, w)') = Cardinality(Closers(i, w)) + 1
      BY <3>2, EndsFinite, FS_AddElement
    <3>. QED BY <3>3, <3>4, EndsFinite DEF Ends
  <2>2. CASE ~(i = ftable[f].pipe /\ w = ftable[f].writable)
    <3>1. EndsOf(i, w)' = EndsOf(i, w)
      BY <2>2 DEF EndsOf
    <3>2. Closers(i, w)' = Closers(i, w)
      BY <2>2 DEF Closers
    <3>. QED BY <3>1, <3>2 DEF Ends
  <2>. QED BY <2>1, <2>2
<1>. QED BY <1>1 DEF PipeFreedByLast

\* One descriptor of p is closed, and p goes on with what fileclose leaves it to do.
Closes(p, slot, f, n) ==
  /\ proc[p].pc \in {"user", "exit"} /\ f = proc[p].ofile[slot] /\ f # 0 /\ fileclose(f)
  /\ proc' = [proc EXCEPT ![p] = n] /\ IsProcess(n) /\ n.ofile = [proc[p].ofile EXCEPT ![slot] = 0]
  /\ \/ Busy(n) /\ (ftable[f].ref > 1 \/ ftable[f].type # "FD_PIPE")
     \/ /\ n.pc = "pipeclose" /\ n.stack \in {<<>>, <<"exit">>} /\ ~(ftable[f].ref > 1)
        /\ ftable[f].type = "FD_PIPE" /\ n.v = ftable[f].pipe /\ n.par = ftable[f].writable

LEMMA FdClosed ==
  ASSUME FileInv, NEW p \in Procs, pipes' = pipes, NEW slot \in Fds, NEW f, NEW n, Closes(p, slot, f, n)
  PROVE  FileInv'
<1>. DEFINE q == proc[p]
<1>1. q.ofile \in [Fds -> 0..NFILE] /\ 0 \notin Files /\ f \in Files /\ HeldBy(p, f)
  BY DEF FileInv, ProcsOK, Files, HeldBy, Closes
<1>2. n.ofile \in [Fds -> 0..NFILE] /\ n.ofile[slot] = 0
  <2>1. 0 \in 0..NFILE
    BY FileSysAssumption
  <2>2. n.ofile = [q.ofile EXCEPT ![slot] = 0]
    BY DEF Closes
  <2>. QED BY <1>1, <2>1, <2>2
<1>3. Shape(n.pc, n.stack) /\ ~Leaving(n) /\ ~Opening(n) /\ n.pc \notin PipeLabels
  <2>1. CASE Busy(n)
    BY <2>1 DEF Busy, Away
  <2>2. CASE n.pc = "pipeclose" /\ n.stack \in {<<>>, <<"exit">>}
    <3>1. ~Leaving(n) /\ ~Opening(n)
      BY <2>2 DEF Leaving, Opening
    <3>. QED BY <2>2, <3>1 DEF Shape, PipeLabels
  <2>. QED BY <2>1, <2>2 DEF Closes
<1>4. DOMAIN proc' = Procs /\ proc'[p] = n /\ \A c \in Procs \ {p} : proc'[c] = proc[c]
  BY DEF FileInv, ProcsOK, Closes
<1>5. IsFile(ftable[f]) /\ DOMAIN ftable = Files /\ ftable[f].ref \in Nat /\ ftable[f].ref >= 1
  BY <1>1, HeldOnce DEF FileInv, FilesOK, FileOK
<1>6. /\ DOMAIN ftable' = Files /\ \A g \in Files \ {f} : ftable'[g] = ftable[g]
      /\ ftable'[f] = IF ftable[f].ref > 1 THEN [ftable[f] EXCEPT !.ref = ftable[f].ref - 1] ELSE NoFile
  <2>1. ftable' = [ftable EXCEPT ![f] = Unreferenced(ftable[f])]
    BY DEF fileclose, Closes
  <2>. QED BY <1>1, <1>5, <2>1 DEF Unreferenced
<1>7. IsFile(ftable'[f]) /\ ftable'[f].ref \in Nat /\ ftable'[f].ref = ftable[f].ref - 1
  <2>1. CASE ftable[f].ref > 1
    BY <1>5, <1>6, <2>1, FileFieldsAre DEF IsFile, FileFields
  <2>2. CASE ~(ftable[f].ref > 1)
    BY <1>5, <1>6, <2>2, FileFieldsAre DEF IsFile, FileFields, NoFile
  <2>. QED BY <2>1, <2>2
<1>8. /\ ftable[f].ref > 1 => /\ ftable'[f].type = ftable[f].type /\ ftable'[f].pipe = ftable[f].pipe
                              /\ ftable'[f].writable = ftable[f].writable /\ ftable'[f].readable = ftable[f].readable
      /\ ~(ftable[f].ref > 1) => ftable'[f].type = "FD_NONE" /\ ftable[f].ref = 1
  <2>1. CASE ftable[f].ref > 1
    BY <1>5, <1>6, <2>1, FileFieldsAre DEF IsFile, FileFields
  <2>2. CASE ~(ftable[f].ref > 1)
    <3>1. NoFile.type = "FD_NONE"
      BY DEF NoFile
    <3>. QED BY <1>5, <1>6, <2>2, <3>1
  <2>. QED BY <2>1, <2>2
<1>9. FilesOK'
  <2>1. FileOK(ftable[f])
    BY <1>1 DEF FileInv, FilesOK
  <2>2. FileOK(ftable'[f])
    <3>1. CASE ftable[f].ref > 1
      <4>1. ftable'[f].ref # 0
        BY <1>5, <1>7, <3>1
      <4>. QED BY <1>7, <1>8, <2>1, <3>1, <4>1 DEF FileOK
    <3>2. CASE ~(ftable[f].ref > 1)
      BY <1>7, <1>8, <3>2 DEF FileOK
    <3>. QED BY <3>1, <3>2
  <2>3. ASSUME NEW g \in Files PROVE FileOK(ftable'[g])
    BY <1>6, <2>2 DEF FileInv, FilesOK
  <2>. QED BY <1>6, <2>3 DEF FilesOK
<1>10. FilesCounted'
  <2>1. ASSUME NEW g \in Files PROVE Allocating(g)' = Allocating(g)
    BY <1>3, <1>4 DEF Allocating, PipeLabels, Closes
  <2>2. proc'[p].ofile[slot] = 0 /\ \A place \in Fds \ {slot} : proc'[p].ofile[place] = proc[p].ofile[place]
    BY <1>1, <1>2, <1>4 DEF Closes
  <2>3. /\ Cardinality(FdsOf(f)') = Cardinality(FdsOf(f)) - 1
        /\ \A g : g # f /\ g # proc'[p].ofile[slot] => FdsOf(g)' = FdsOf(g)
    <3>1. proc[p].ofile[slot] = f /\ proc'[p].ofile[slot] # f
      BY <2>2 DEF Closes
    <3>. QED BY <1>4, <2>2, <3>1, FdGiven
  <2>4. ASSUME NEW g \in Files PROVE ftable'[g].ref = Cardinality(FdsOf(g)') + Cardinality(Allocating(g)')
    <3>1. ftable[g].ref = Cardinality(FdsOf(g)) + Cardinality(Allocating(g))
      BY DEF FileInv, FilesCounted
    <3>2. CASE g = f
      <4>1. Cardinality(FdsOf(f)) \in Nat /\ Cardinality(Allocating(f)) \in Nat /\ Allocating(f)' = Allocating(f)
        BY <2>1, <3>2, CountsFinite
      <4>. QED BY <1>5, <1>7, <2>3, <3>1, <3>2, <4>1
    <3>3. CASE g # f
      <4>1. g # 0
        BY <1>1
      <4>2. FdsOf(g)' = FdsOf(g)
        BY <2>2, <2>3, <3>3, <4>1
      <4>3. ftable'[g] = ftable[g]
        BY <1>6, <3>3
      <4>. QED BY <2>1, <3>1, <4>2, <4>3
    <3>. QED BY <3>2, <3>3
  <2>. QED BY <2>4 DEF FilesCounted
<1>11. PipeFreedByLast'
  <2>1. CASE Busy(n) /\ (ftable[f].ref > 1 \/ ftable[f].type # "FD_PIPE")
    <3>1. n.pc # "pipeclose"
      BY <2>1 DEF Busy, Away
    <3>2. SameEnd(f)
      BY <1>8, <2>1, Untouched
    <3>3. \A g \in Files : SameEnd(g)
      BY <1>6, <3>2, Untouched
    <3>4. \A c \in Procs : SameCloser(c)
      BY <1>4, <3>1, Untouched DEF Closes
    <3>. QED BY <3>3, <3>4, EndsSame
  <2>2. CASE /\ n.pc = "pipeclose" /\ ~(ftable[f].ref > 1) /\ ftable[f].type = "FD_PIPE"
             /\ n.v = ftable[f].pipe /\ n.par = ftable[f].writable
    <3>1. ftable'[f].type # "FD_PIPE"
      BY <1>8, <2>2
    <3>2. /\ proc[p].pc # "pipeclose" /\ proc'[p].pc = "pipeclose"
          /\ proc'[p].v = ftable[f].pipe /\ proc'[p].par = ftable[f].writable
      BY <1>4, <2>2 DEF Closes
    <3>. QED BY <1>1, <1>4, <1>6, <2>2, <3>1, <3>2, EndHandedOver DEF FileInv
  <2>. QED BY <2>1, <2>2 DEF Closes
<1>12. Knows(p)'
  <2>1. n.pc = "pipeclose" => n.v \in Pages /\ n.par \in BOOLEAN
    <3>1. FileOK(ftable[f])
      BY <1>1 DEF FileInv, FilesOK
    <3>2. Busy(n) => n.pc # "pipeclose"
      BY DEF Busy, Away
    <3>. QED BY <3>1, <3>2 DEF FileOK, Closes
  <2>. QED BY <1>3, <1>4, <2>1 DEF Knows, Opening, PipeLabels, Reading, Writing
<1>13. ASSUME NEW c \in Procs \ {p}, NEW g \in Files, HeldBy(c, g) PROVE Told(g)
  <2>1. CASE g = f
    <3>1. ftable[f].ref # 1
      BY <1>1, <1>13, <2>1, SharedIsMany
    <3>2. ftable[f].ref > 1
      BY <1>5, <3>1
    <3>. QED BY <1>8, <2>1, <3>1, <3>2 DEF Told
  <2>2. CASE g # f
    BY <1>6, <2>2, Untouched
  <2>. QED BY <2>1, <2>2
<1>14. Stepped(p, n)
  BY <1>2, <1>3 DEF Stepped, Closes
<1>. QED BY <1>9, <1>10, <1>11, <1>12, <1>13, <1>14, FileStep

\* What is left to do.
LEMMA DropFileIs ==
  ASSUME NEW f, NEW m, IsProcess(m)
  PROVE  LET n == DropFile(m, f) IN
         /\ IsProcess(n) /\ n.ofile = m.ofile
         /\ ftable[f].type = "FD_PIPE" =>
              n.pc = "pipeclose" /\ n.stack = m.stack /\ n.v = ftable[f].pipe /\ n.par = ftable[f].writable
         /\ ftable[f].type # "FD_PIPE" => n.pc = "begin" /\ n.stack = <<"iput", "end">> \o m.stack
<1>1. CASE ftable[f].type = "FD_PIPE"
  <2>1. PICK n : n = [m EXCEPT !.pc = "pipeclose", !.v = ftable[f].pipe, !.par = ftable[f].writable]
    OBVIOUS
  <2>2. IsProcess(n) /\ n.ofile = m.ofile /\ n.pc = "pipeclose" /\ n.stack = m.stack
        /\ n.v = ftable[f].pipe /\ n.par = ftable[f].writable
    BY <2>1, FieldsAre DEF IsProcess, Fields
  <2>. QED BY <1>1, <2>1, <2>2 DEF DropFile
<1>2. CASE ftable[f].type # "FD_PIPE"
  <2>1. PICK s : s = <<"iput", "end">> \o m.stack
    OBVIOUS
  <2>2. PICK n : n = [Push(m, <<"iput", "end">>) EXCEPT !.pc = "begin", !.v = ftable[f].ip]
    OBVIOUS
  <2>3. n = [m EXCEPT !.stack = s, !.pc = "begin", !.v = ftable[f].ip]
    BY <2>1, <2>2 DEF Push
  <2>4. IsProcess(n) /\ n.ofile = m.ofile /\ n.pc = "begin" /\ n.stack = s
    BY <2>3, FieldsAre DEF IsProcess, Fields
  <2>. QED BY <1>2, <2>1, <2>2, <2>4 DEF DropFile
<1>. QED BY <1>1, <1>2

LEMMA CloseStep ==
  ASSUME FileInv, NEW p \in Procs, Close(p), pipes' = pipes
  PROVE  FileInv'
<1>. DEFINE q == proc[p]
<1>1. q.pc = "user"
  BY DEF Close, Calls, At
<1>2. IsProcess(q) /\ q.stack = <<>> /\ Away(q)
  BY <1>1, AtBody
<1>3. CASE argfd(p) = 0
  <2>1. Calm(q, Returned(q, -1))
    BY <1>2, OnwardCalm
  <2>2. ftable' = ftable /\ proc' = [proc EXCEPT ![p] = Returned(q, -1)]
    BY <1>3 DEF Close, Return
  <2>. QED BY <2>1, <2>2, FilesAsTheyWere, OneCalm
<1>4. CASE argfd(p) # 0
  <2>1. PICK f \in Files, slot \in Fds : f = argfd(p) /\ slot = FdArg(p) /\ q.ofile[slot] = f /\ f # 0
    BY <1>4, ArgFile
  <2>2. PICK m : m = [q EXCEPT !.ofile[slot] = 0]
    OBVIOUS
  <2>3. IsProcess(m) /\ m.stack = <<>> /\ m.ofile = [q.ofile EXCEPT ![slot] = 0]
    BY <1>2, <2>2, FieldsAre DEF IsProcess, Fields
  <2>4. fileclose(f) /\ proc' = [proc EXCEPT ![p] = IF ftable[f].ref > 1 THEN Returned(m, 0) ELSE DropFile(m, f)]
    BY <1>4, <2>1, <2>2 DEF Close, Return
  <2>5. CASE ftable[f].ref > 1
    <3>1. PICK n : n = Returned(m, 0)
      OBVIOUS
    <3>2. IsProcess(n) /\ n.ofile = m.ofile /\ n.stack = <<>> /\ n.pc \in {"exit", "user"}
      BY <2>3, <3>1, ReturnedIs
    <3>3. Busy(n)
      BY <3>2, BusyBody DEF Bodies
    <3>4. Closes(p, slot, f, n)
      BY <1>1, <2>1, <2>3, <2>4, <2>5, <3>1, <3>2, <3>3 DEF Closes
    <3>. QED BY <3>4, FdClosed
  <2>6. CASE ~(ftable[f].ref > 1)
    <3>1. PICK n : n = DropFile(m, f)
      OBVIOUS
    <3>2. <<"iput", "end">> \o <<>> = <<"iput", "end">>
      OBVIOUS
    <3>3. /\ IsProcess(n) /\ n.ofile = m.ofile
          /\ ftable[f].type = "FD_PIPE" =>
               n.pc = "pipeclose" /\ n.stack = <<>> /\ n.v = ftable[f].pipe /\ n.par = ftable[f].writable
          /\ ftable[f].type # "FD_PIPE" => n.pc = "begin" /\ n.stack = <<"iput", "end">>
      BY <2>3, <3>1, <3>2, DropFileIs
    <3>4. ftable[f].type # "FD_PIPE" => Busy(n)
      BY <3>3, BusyEnd
    <3>5. proc' = [proc EXCEPT ![p] = n] /\ n.ofile = [q.ofile EXCEPT ![slot] = 0]
      BY <2>3, <2>4, <2>6, <3>1, <3>3
    <3>6. CASE ftable[f].type = "FD_PIPE"
      <4>1. Closes(p, slot, f, n)
        BY <1>1, <2>1, <2>4, <2>6, <3>3, <3>5, <3>6 DEF Closes
      <4>. QED BY <4>1, FdClosed
    <3>7. CASE ftable[f].type # "FD_PIPE"
      <4>1. Closes(p, slot, f, n)
        BY <1>1, <2>1, <2>4, <3>3, <3>4, <3>5, <3>7 DEF Closes
      <4>. QED BY <4>1, FdClosed
    <3>. QED BY <3>6, <3>7
  <2>. QED BY <2>5, <2>6
<1>. QED BY <1>3, <1>4

LEMMA ExitCloseStep ==
  ASSUME FileInv, NEW p \in Procs, ExitClose(p), pipes' = pipes
  PROVE  FileInv'
<1>. DEFINE q == proc[p]
<1>1. q.pc \in {"user", "exit"}
  BY DEF ExitClose, Exiting, Calls, At
<1>2. IsProcess(q) /\ q.stack = <<>> /\ Away(q)
  BY <1>1, AtBody DEF Bodies
<1>3. PICK slot \in Fds : slot = First(OpenFds(q)) /\ q.ofile[slot] # 0
  <2>1. OpenFds(q) \in SUBSET Nat
    BY DEF OpenFds, Fds
  <2>2. OpenFds(q) # {}
    BY DEF ExitClose
  <2>3. First(OpenFds(q)) \in OpenFds(q)
    BY <2>1, <2>2, FirstIs
  <2>. QED BY <2>3 DEF OpenFds
<1>4. PICK f : f = q.ofile[slot]
  OBVIOUS
<1>5. PICK m : m = [q EXCEPT !.ofile[slot] = 0]
  OBVIOUS
<1>6. IsProcess(m) /\ m.stack = <<>> /\ m.ofile = [q.ofile EXCEPT ![slot] = 0]
  BY <1>2, <1>5, FieldsAre DEF IsProcess, Fields
<1>7. fileclose(f) /\ proc' = [proc EXCEPT ![p] = IF ftable[f].ref > 1 THEN Jump(m, "exit")
                                                 ELSE DropFile(Push(m, <<"exit">>), f)]
  BY <1>3, <1>4, <1>5 DEF ExitClose
<1>8. CASE ftable[f].ref > 1
  <2>1. PICK n : n = Jump(m, "exit")
    OBVIOUS
  <2>2. IsProcess(n) /\ n.ofile = m.ofile /\ n.stack = <<>> /\ n.pc = "exit"
    BY <1>6, <2>1, JumpIs DEF Fields
  <2>3. Busy(n)
    BY <2>2, BusyBody DEF Bodies
  <2>4. Closes(p, slot, f, n)
    BY <1>1, <1>3, <1>4, <1>6, <1>7, <1>8, <2>1, <2>2, <2>3 DEF Closes
  <2>. QED BY <2>4, FdClosed
<1>9. CASE ~(ftable[f].ref > 1)
  <2>1. PICK mm : mm = Push(m, <<"exit">>)
    OBVIOUS
  <2>2. <<"exit">> \o <<>> = <<"exit">> /\ <<"iput", "end">> \o <<"exit">> = <<"iput", "end", "exit">>
    <3>1. <<"exit">> \o <<>> = <<"exit">>
      OBVIOUS
    <3>2. <<"iput", "end">> \o <<"exit">> = <<"iput", "end", "exit">>
      BY AppendThird
    <3>. QED BY <3>1, <3>2
  <2>3. IsProcess(mm) /\ mm.ofile = m.ofile /\ mm.stack = <<"exit">>
    BY <1>6, <2>1, <2>2, FieldsAre DEF IsProcess, Fields, Push
  <2>4. PICK n : n = DropFile(mm, f)
    OBVIOUS
  <2>5. /\ IsProcess(n) /\ n.ofile = mm.ofile
        /\ ftable[f].type = "FD_PIPE" =>
             n.pc = "pipeclose" /\ n.stack = mm.stack /\ n.v = ftable[f].pipe /\ n.par = ftable[f].writable
        /\ ftable[f].type # "FD_PIPE" => n.pc = "begin" /\ n.stack = <<"iput", "end">> \o mm.stack
    BY <2>3, <2>4, DropFileIs
  <2>6. proc' = [proc EXCEPT ![p] = n] /\ n.ofile = [q.ofile EXCEPT ![slot] = 0]
    BY <1>6, <1>7, <1>9, <2>1, <2>3, <2>4, <2>5
  <2>7. CASE ftable[f].type = "FD_PIPE"
    <3>1. n.pc = "pipeclose" /\ n.stack = <<"exit">> /\ n.v = ftable[f].pipe /\ n.par = ftable[f].writable
      BY <2>3, <2>5, <2>7
    <3>2. Closes(p, slot, f, n)
      BY <1>1, <1>3, <1>4, <1>7, <1>9, <2>5, <2>6, <2>7, <3>1 DEF Closes
    <3>. QED BY <3>2, FdClosed
  <2>8. CASE ftable[f].type # "FD_PIPE"
    <3>1. n.pc = "begin" /\ n.stack = <<"iput", "end", "exit">>
      BY <2>2, <2>3, <2>5, <2>8
    <3>2. Busy(n)
      BY <3>1, BusyEnd
    <3>3. Closes(p, slot, f, n)
      BY <1>1, <1>3, <1>4, <1>7, <2>5, <2>6, <2>8, <3>2 DEF Closes
    <3>. QED BY <3>3, FdClosed
  <2>. QED BY <2>7, <2>8
<1>. QED BY <1>8, <1>9

(***************************************************************************)
(* fork shares every file                                                  *)
(***************************************************************************)
\* The descriptors of process q that refer to file f, and those that its child c gets.
SlotsOf(q, f) == {slot \in Fds : q.ofile[slot] = f}

LEMMA SlotsCopied ==
  ASSUME NEW q, NEW f, NEW c, NEW T, T = {<<c, slot>> : slot \in SlotsOf(q, f)}
  PROVE  /\ IsFiniteSet(SlotsOf(q, f)) /\ Cardinality(SlotsOf(q, f)) \in Nat
         /\ IsFiniteSet(T) /\ Cardinality(T) = Cardinality(SlotsOf(q, f))
<1>. DEFINE S == SlotsOf(q, f)
            g == [slot \in S |-> <<c, slot>>]
<1>1. IsFiniteSet(S) /\ Cardinality(S) \in Nat
  <2>1. S \in SUBSET Fds
    BY DEF SlotsOf
  <2>2. IsFiniteSet(S)
    BY <2>1, SetsFinite, FS_Subset
  <2>. QED BY <2>2, FS_CardinalityType
<1>. HIDE DEF S
<1>2. g \in Bijection(S, T)
  <2>1. \A x \in S : g[x] = <<c, x>>
    OBVIOUS
  <2>2. g \in [S -> T]
    BY DEF S
  <2>3. \A x, y \in S : g[x] = g[y] => x = y
    BY <2>1
  <2>4. \A t \in T : \E x \in S : g[x] = t
    BY <2>1 DEF S
  <2>. HIDE DEF g
  <2>. QED BY <2>2, <2>3, <2>4, Fun_IsBij
<1>3. IsFiniteSet(T) /\ Cardinality(T) = Cardinality(S)
  BY <1>1, <1>2, FS_Bijection DEF ExistsBijection
<1>. QED BY <1>1, <1>3 DEF S

LEMMA ForkStep ==
  ASSUME FileInv, NEW p \in Procs, Fork(p), pipes' = pipes
  PROVE  FileInv'
<1>. DEFINE q == proc[p]
            free == {c \in Procs : proc[c].pc = "unused"}
<1>1. q.pc = "user"
  BY DEF Fork, Calls, At
<1>2. IsProcess(q) /\ q.stack = <<>> /\ Away(q) /\ q.ofile \in [Fds -> 0..NFILE]
  BY <1>1, AtBody DEF FileInv, ProcsOK
<1>3. CASE free = {}
  <2>1. Calm(q, Returned(q, -1))
    BY <1>2, OnwardCalm
  <2>2. ftable' = ftable /\ proc' = [proc EXCEPT ![p] = Returned(q, -1)]
    BY <1>3 DEF Fork, Return
  <2>. QED BY <2>1, <2>2, FilesAsTheyWere, OneCalm
<1>4. CASE free # {}
  <2>1. PICK c \in Procs : c = First(free) /\ proc[c].pc = "unused"
    <3>1. free \in SUBSET Nat
      BY DEF Procs
    <3>. QED BY <1>4, <3>1, FirstIs
  <2>2. PICK m : m = Child("user", Append(q.fork, q.at), p, q.cwd, q.ofile, q.last)
    OBVIOUS
  <2>3. PICK n, k : n = Returned(q, c) /\ k = Goto(m, 1)
    OBVIOUS
  <2>4. proc' = [proc EXCEPT ![p] = n, ![c] = k] /\ ftable' = filedup(q)
    BY <1>4, <2>1, <2>2, <2>3 DEF Fork, Child
  <2>5. IsProcess(n) /\ n.stack = <<>> /\ n.ofile = q.ofile /\ n.pc \in {"exit", "user"}
    BY <1>2, <2>3, ReturnedIs
  <2>6. IsProcess(k) /\ k.stack = <<>> /\ k.ofile = q.ofile /\ k.pc = "user"
    <3>1. IsProcess(m) /\ m.stack = <<>> /\ m.ofile = q.ofile /\ m.pc = "user"
      BY <2>2, ChildIs
    <3>. QED BY <2>3, <3>1, GotoIs DEF Fields
  <2>7. Busy(n) /\ Busy(k)
    BY <2>5, <2>6, BusyBody DEF Bodies
  <2>8. c # p
    BY <1>1, <2>1
  <2>9. DOMAIN proc' = Procs /\ proc'[p] = n /\ proc'[c] = k /\ \A d \in Procs \ {p, c} : proc'[d] = proc[d]
    BY <2>4, <2>8 DEF FileInv, ProcsOK
  <2>10. \A slot \in Fds : proc[c].ofile[slot] = 0
    BY <2>1 DEF Leaving, FileInv, ProcsOK
  <2>11. ASSUME NEW f \in Files
         PROVE  /\ IsFile(ftable'[f]) /\ ftable[f].ref \in Nat /\ Cardinality(SlotsOf(q, f)) \in Nat
                /\ ftable'[f].ref = ftable[f].ref + Cardinality(SlotsOf(q, f))
                /\ ftable'[f].type = ftable[f].type /\ ftable'[f].pipe = ftable[f].pipe
                /\ ftable'[f].writable = ftable[f].writable /\ ftable'[f].readable = ftable[f].readable
    <3>1. IsFile(ftable[f]) /\ ftable[f].ref \in Nat
      BY DEF FileInv, FilesOK, FileOK
    <3>2. PICK more : more = Cardinality(SlotsOf(q, f)) /\ more \in Nat
      BY SlotsCopied
    <3>3. ftable'[f] = [ftable[f] EXCEPT !.ref = ftable[f].ref + more]
      BY <2>4, <3>2 DEF filedup, SlotsOf
    <3>. QED BY <3>1, <3>2, <3>3, FileFieldsAre DEF IsFile, FileFields
  <2>12. ProcsOK'
    BY <1>2, <2>5, <2>6, <2>7, <2>9 DEF FileInv, ProcsOK, Busy, Leaving
  <2>13. FilesOK'
    <3>1. DOMAIN ftable' = Files
      BY <2>4 DEF filedup
    <3>2. ASSUME NEW f \in Files PROVE ftable'[f].ref \in Nat /\ (ftable'[f].ref = 0 => ftable[f].ref = 0)
      BY <2>11
    <3>. QED BY <2>11, <3>1, <3>2 DEF FileInv, FilesOK, FileOK
  <2>14. PipesOK'
    BY DEF FileInv, PipesOK, PipeOK, RingOK
  <2>15. FilesCounted'
    <3>1. ASSUME NEW f \in Files
          PROVE  ftable'[f].ref = Cardinality(FdsOf(f)') + Cardinality(Allocating(f)')
      <4>0. PICK T : T = {<<c, slot>> : slot \in SlotsOf(q, f)}
        OBVIOUS
      <4>1. Allocating(f)' = Allocating(f)
        BY <1>1, <2>1, <2>5, <2>6, <2>9 DEF Allocating
      <4>2. 0 \notin Files
        BY DEF Files
      <4>3. FdsOf(f) \cap T = {}
        BY <2>10, <4>0, <4>2 DEF FdsOf
      <4>4. FdsOf(f)' = FdsOf(f) \cup T
        <5>1. ASSUME NEW d \in Procs \X Fds PROVE d \in FdsOf(f)' <=> d \in FdsOf(f) \cup T
          <6>1. PICK b \in Procs, slot \in Fds : d = <<b, slot>>
            OBVIOUS
          <6>2. d \in FdsOf(f)' <=> proc'[b].ofile[slot] = f
            BY <6>1 DEF FdsOf
          <6>3. d \in FdsOf(f) <=> proc[b].ofile[slot] = f
            BY <6>1 DEF FdsOf
          <6>4. d \in T <=> b = c /\ q.ofile[slot] = f
            BY <4>0, <6>1 DEF SlotsOf
          <6>. QED BY <2>5, <2>6, <2>9, <2>10, <4>2, <6>2, <6>3, <6>4
        <5>2. FdsOf(f)' \subseteq Procs \X Fds /\ FdsOf(f) \subseteq Procs \X Fds /\ T \subseteq Procs \X Fds
          BY <4>0 DEF FdsOf, SlotsOf
        <5>. QED BY <5>1, <5>2
      <4>5. IsFiniteSet(T) /\ Cardinality(T) = Cardinality(SlotsOf(q, f))
        BY ONLY SlotsCopied, <4>0
      <4>6. Cardinality(FdsOf(f)') = Cardinality(FdsOf(f)) + Cardinality(SlotsOf(q, f))
        <5>1. IsFiniteSet(FdsOf(f)) /\ Cardinality(FdsOf(f)) \in Nat /\ Cardinality(SlotsOf(q, f)) \in Nat
          BY <2>11, CountsFinite
        <5>2. Cardinality(FdsOf(f) \cup T) = Cardinality(FdsOf(f)) + Cardinality(T) - Cardinality(FdsOf(f) \cap T)
          BY ONLY <4>5, <5>1, FS_Union
        <5>3. Cardinality(FdsOf(f) \cap T) = 0
          BY <4>3, FS_EmptySet
        <5>. QED BY <4>4, <4>5, <5>1, <5>2, <5>3
      <4>. QED BY <2>11, <4>1, <4>6, CountsFinite DEF FileInv, FilesCounted
    <3>. QED BY <3>1 DEF FilesCounted
  <2>16. PipeFreedByLast'
    <3>1. \A g \in Files : SameEnd(g)
      BY <2>11, Untouched
    <3>2. \A d \in Procs : SameCloser(d)
      BY <1>1, <2>1, <2>5, <2>6, <2>9, Untouched
    <3>. QED BY <3>1, <3>2, EndsSame
  <2>17. ASSUME NEW d \in Procs PROVE Knows(d)'
    <3>1. CASE d \in {p, c}
      BY <2>7, <2>9, <3>1 DEF Knows, Busy, Away, Opening, PipeLabels, Reading, Writing
    <3>2. CASE d \notin {p, c}
      <4>1. Kept(proc[d], proc'[d])
        BY <2>9, <3>2 DEF FileInv, ProcsOK, Kept
      <4>2. pipes'[ftable[proc[d].f].pipe] = PipeOf(proc[d])
        BY DEF PipeOf
      <4>3. ASSUME NEW f \in Files, HeldBy(d, f), ftable[f].ref = 1 PROVE ftable'[f].ref = 1
        <5>1. SlotsOf(q, f) = {}
          <6>1. SUFFICES ASSUME SlotsOf(q, f) # {} PROVE FALSE
            OBVIOUS
          <6>2. HeldBy(p, f)
            BY <6>1 DEF SlotsOf, HeldBy
          <6>. QED BY <3>2, <4>3, <6>2, SharedIsMany
        <5>. QED BY <2>11, <4>3, <5>1, FS_EmptySet
      <4>4. \A f \in Files : HeldBy(d, f) => Told(f)
        BY <2>11, <4>3 DEF Told
      <4>. QED BY <3>2, <4>1, <4>2, <4>4, OthersKnow
    <3>. QED BY <3>1, <3>2
  <2>. QED BY <2>12, <2>13, <2>14, <2>15, <2>16, <2>17 DEF FileInv
<1>. QED BY <1>3, <1>4

(***************************************************************************)
(* Steps on the ring of a pipe                                             *)
(***************************************************************************)
RingFields == {"page", "lock", "readopen", "writeopen", "nread", "nwrite", "data"}

LEMMA RingFieldsAre == DOMAIN NoPipe = RingFields
BY DEF NoPipe, RingFields

\* What may change in a pipe while it is open.
SameEnds(pi, n) ==
  IsPipe(n) /\ RingOK(n) /\ n.page = pi.page /\ n.readopen = pi.readopen /\ n.writeopen = pi.writeopen

LEMMA PutIs ==
  ASSUME NEW pi, IsPipe(pi), RingOK(pi), NEW cells
  PROVE  LET w == PutAll(pi, cells) IN
         /\ SameEnds(pi, w.pi) /\ w.pi.lock = pi.lock
         /\ w.k # Len(cells) => Full(w.pi)
         /\ Full(pi) => Full(w.pi)
         /\ w.k = 0 /\ Empty(pi) => Empty(w.pi)
<1>1. PICK k : k = IF Len(cells) \in 0..Room(pi) THEN Len(cells) ELSE Room(pi)
  OBVIOUS
<1>2. PICK nwrite, data, n : nwrite = (pi.nwrite + k) % UINT /\ n = [pi EXCEPT !.nwrite = nwrite, !.data = data]
                             /\ PutAll(pi, cells) = [k |-> k, pi |-> n]
  BY <1>1 DEF PutAll
<1>3. Held(pi) \in Nat /\ Held(pi) <= PIPESIZE /\ PIPESIZE \in Nat
  BY HeldIs, PipeAssumption DEF RingOK
<1>4. k \in 0..Room(pi) /\ (k # Len(cells) => k = Room(pi))
  BY <1>1, <1>3 DEF Room
<1>5. /\ IsPipe(n) /\ n.page = pi.page /\ n.readopen = pi.readopen /\ n.writeopen = pi.writeopen /\ n.lock = pi.lock
      /\ n.nwrite = nwrite /\ n.nread = pi.nread
  BY <1>2, RingFieldsAre DEF IsPipe, RingFields
<1>6. RingOK(n) /\ Held(n) = Held(pi) + k
  BY <1>2, <1>4, <1>5, HeldGrows
<1>7. /\ (Full(n) <=> Held(n) = PIPESIZE) /\ (Full(pi) <=> Held(pi) = PIPESIZE)
      /\ (Empty(n) <=> Held(n) = 0) /\ (Empty(pi) <=> Held(pi) = 0)
  BY <1>6, HeldIs DEF RingOK
<1>8. (k # Len(cells) => Full(n)) /\ (Full(pi) => Full(n)) /\ (k = 0 /\ Empty(pi) => Empty(n))
  BY <1>3, <1>4, <1>6, <1>7 DEF Room
<1>9. PutAll(pi, cells).pi = n /\ PutAll(pi, cells).k = k
  BY <1>2
<1>. QED BY <1>5, <1>6, <1>8, <1>9 DEF SameEnds

LEMMA TakeIs ==
  ASSUME NEW pi, IsPipe(pi), RingOK(pi), NEW max
  PROVE  SameEnds(pi, TakeUpTo(pi, max).pi) /\ TakeUpTo(pi, max).pi.lock = pi.lock
<1>1. PICK k : k = IF max \in 0..Held(pi) THEN max ELSE Held(pi)
  OBVIOUS
<1>2. PICK nread, cells, n : nread = (pi.nread + k) % UINT /\ n = [pi EXCEPT !.nread = nread]
                             /\ TakeUpTo(pi, max) = [pi |-> n, cells |-> cells]
  BY <1>1 DEF TakeUpTo
<1>3. Held(pi) \in Nat
  BY HeldIs DEF RingOK
<1>4. k \in 0..Held(pi)
  BY <1>1, <1>3
<1>5. /\ IsPipe(n) /\ n.page = pi.page /\ n.readopen = pi.readopen /\ n.writeopen = pi.writeopen /\ n.lock = pi.lock
      /\ n.nwrite = pi.nwrite /\ n.nread = nread
  BY <1>2, RingFieldsAre DEF IsPipe, RingFields
<1>6. RingOK(n)
  BY <1>2, <1>4, <1>5, HeldShrinks
<1>7. TakeUpTo(pi, max).pi = n
  BY <1>2
<1>. QED BY <1>5, <1>6, <1>7 DEF SameEnds

\* The lock is taken or given up.
LEMMA LockIs ==
  ASSUME NEW pi, IsPipe(pi), RingOK(pi), NEW lock
  PROVE  LET n == [pi EXCEPT !.lock = lock] IN
         SameEnds(pi, n) /\ n.lock = lock /\ (Full(n) <=> Full(pi)) /\ (Empty(n) <=> Empty(pi))
<1>1. PICK n : n = [pi EXCEPT !.lock = lock]
  OBVIOUS
<1>2. IsPipe(n) /\ n.page = pi.page /\ n.readopen = pi.readopen /\ n.writeopen = pi.writeopen /\ n.lock = lock
      /\ n.nwrite = pi.nwrite /\ n.nread = pi.nread
  BY <1>1, RingFieldsAre DEF IsPipe, RingFields
<1>. QED BY <1>1, <1>2 DEF SameEnds, RingOK, Held, Full, Empty

LEMMA SameEndsTwice ==
  ASSUME NEW pi, NEW m, NEW n, SameEnds(pi, m), SameEnds(m, n)
  PROVE  SameEnds(pi, n)
BY DEF SameEnds

\* What a step leaves the other processes that it keeps.
LEMMA KeptOthers ==
  ASSUME FileInv, NEW c \in Procs, Kept(proc[c], proc'[c])
  PROVE  /\ Shape(proc'[c].pc, proc'[c].stack) /\ IsProcess(proc'[c])
         /\ proc'[c].ofile = proc[c].ofile
         /\ Leaving(proc[c])' => Leaving(proc[c])
         /\ proc'[c].pc = "pipealloc" <=> proc[c].pc = "pipealloc"
         /\ proc'[c].pc = "pipeclose" <=> proc[c].pc = "pipeclose"
         /\ proc'[c].f = proc[c].f /\ proc'[c].v = proc[c].v /\ proc'[c].par = proc[c].par
         /\ proc'[c].pc \in {"read_asleep", "write_asleep"} => proc'[c].pc = proc[c].pc
<1>1. PICK q, k : q = proc[c] /\ k = proc'[c] /\ Shape(q.pc, q.stack) /\ Kept(q, k)
  BY DEF FileInv, ProcsOK
<1>2. /\ Shape(k.pc, k.stack) /\ IsProcess(k) /\ k.ofile = q.ofile /\ (Leaving(k) => Leaving(q))
      /\ k.pc = "pipealloc" <=> q.pc = "pipealloc"
      /\ k.pc = "pipeclose" <=> q.pc = "pipeclose"
      /\ k.f = q.f /\ k.v = q.v /\ k.par = q.par
  BY <1>1, KeptIs DEF Kept
<1>3. k.pc \in {"read_asleep", "write_asleep"} => k.pc = q.pc
  BY <1>1 DEF Kept
<1>. QED BY <1>1, <1>2, <1>3 DEF Leaving

\* A process at a label of a pipe.
LEMMA AtPipe ==
  ASSUME FileInv, NEW p \in Procs, Reading(proc[p]) \/ Writing(proc[p])
  PROVE  LET q == proc[p] IN
         /\ IsProcess(q) /\ q.stack = <<>> /\ q.f \in Files /\ ftable[q.f].pipe \in Pages
         /\ Reading(q) => PipeEnd(q.f, FALSE) /\ q.f = argfd(p)
         /\ Writing(q) => PipeEnd(q.f, TRUE) /\ \E slot \in Fds : q.ofile[slot] = q.f
<1>1. PICK q : q = proc[p]
  OBVIOUS
<1>2. IsProcess(q) /\ Shape(q.pc, q.stack) /\ q.pc \in PipeLabels
  BY <1>1 DEF FileInv, ProcsOK, Reading, Writing, PipeLabels
<1>3. q.stack = <<>>
  BY <1>2 DEF Shape, PipeLabels, Iputs
<1>4. /\ Reading(q) => PipeEnd(q.f, FALSE) /\ q.f = argfd(p)
      /\ Writing(q) => PipeEnd(q.f, TRUE) /\ \E slot \in Fds : q.ofile[slot] = q.f
  BY <1>1 DEF FileInv, Knows
<1>5. q.f \in Files /\ ftable[q.f].pipe \in Pages
  BY <1>1, <1>4 DEF PipeEnd, FileInv, FilesOK, FileOK
<1>. QED BY <1>1, <1>2, <1>3, <1>4, <1>5

\* The pipe of a file is a pipe.
LEMMA RingIs ==
  ASSUME FileInv, NEW i \in Pages
  PROVE  IsPipe(pipes[i]) /\ RingOK(pipes[i]) /\ SameEnds(pipes[i], pipes[i])
BY DEF FileInv, PipesOK, PipeOK, RingOK, SameEnds

\* A step of process p on the page of pipe i, which it has locked or locks: the page becomes pi, process p
\* comes to n, and the others are kept.  Who goes on sleeping is right to.
OnPage(p, i, pi) ==
  /\ DOMAIN pipes' = Pages /\ pipes'[i] = pi /\ \A j \in Pages \ {i} : pipes'[j] = pipes[j]
  /\ ftable' = ftable /\ pipes[i].lock \in {0, p} /\ PipeOK(pi)
  /\ DOMAIN proc' = Procs /\ \A c \in Procs \ {p} : Kept(proc[c], proc'[c])
Comes(p, n) ==
  /\ proc'[p] = n /\ IsProcess(n) /\ Shape(n.pc, n.stack) /\ n.ofile = proc[p].ofile /\ ~Leaving(n)
  /\ proc[p].pc # "pipealloc" /\ n.pc # "pipealloc"
SleepOn(p, i, pi) ==
  \A c \in Procs \ {p} : ftable[proc[c].f].pipe = i =>
    /\ proc[c].pc = "read_asleep" /\ proc'[c].pc = "read_asleep" => pi.writeopen
    /\ proc[c].pc = "write_asleep" /\ proc'[c].pc = "write_asleep" => Full(pi) /\ pi.readopen

LEMMA PageStep ==
  ASSUME FileInv, NEW p \in Procs, NEW i \in Pages, NEW pi, OnPage(p, i, pi), NEW n, Comes(p, n),
         Knows(p)', PipeFreedByLast', SleepOn(p, i, pi)
  PROVE  FileInv'
<1>1. /\ DOMAIN pipes' = Pages /\ pipes'[i] = pi /\ \A j \in Pages \ {i} : pipes'[j] = pipes[j]
      /\ ftable' = ftable /\ pipes[i].lock \in {0, p} /\ PipeOK(pi)
      /\ DOMAIN proc' = Procs /\ \A c \in Procs \ {p} : Kept(proc[c], proc'[c])
  BY DEF FileInv, PipesOK, OnPage
<1>2. PipesOK'
  BY <1>1 DEF FileInv, PipesOK
<1>3. FilesOK'
  BY <1>1 DEF FileInv, FilesOK
<1>4. ASSUME NEW c \in Procs
      PROVE  /\ IsProcess(proc'[c]) /\ Shape(proc'[c].pc, proc'[c].stack) /\ proc'[c].ofile = proc[c].ofile
             /\ Leaving(proc[c])' => Leaving(proc[c])
             /\ (proc'[c].pc = "pipealloc" <=> proc[c].pc = "pipealloc")
             /\ proc'[c].pc = "pipealloc" => proc'[c].f = proc[c].f
  <2>1. CASE c = p
    BY <2>1 DEF Leaving, Comes
  <2>2. CASE c # p
    <3>1. Kept(proc[c], proc'[c])
      BY <1>1, <2>2
    <3>. QED BY <3>1, KeptOthers
  <2>. QED BY <2>1, <2>2
<1>5. ProcsOK'
  BY <1>1, <1>4 DEF FileInv, ProcsOK
<1>6. FilesCounted'
  <2>1. ASSUME NEW g \in Files PROVE FdsOf(g)' = FdsOf(g)
    BY <1>4 DEF FdsOf
  <2>2. ASSUME NEW g \in Files PROVE Allocating(g)' = Allocating(g)
    BY <1>4 DEF Allocating
  <2>. QED BY <1>1, <2>1, <2>2 DEF FileInv, FilesCounted
<1>7. ASSUME NEW c \in Procs, c # p PROVE Knows(c)'
  <2>1. Knows(c) /\ \A f \in Files : HeldBy(c, f) => Told(f)
    BY <1>1, Untouched DEF FileInv
  <2>2. PICK q, k, m : q = proc[c] /\ k = proc'[c] /\ m = pipes'[ftable[q.f].pipe] /\ Kept(q, k)
    BY <1>1, <1>7
  <2>3. k.pc \in {"read_asleep", "write_asleep"} => k.pc = q.pc
    BY <2>2, KeptOthers
  <2>4. CASE ~Reading(q) /\ ~Writing(q)
    BY <1>7, <2>1, <2>2, <2>4, OthersKnow
  <2>5. CASE (Reading(q) \/ Writing(q)) /\ ftable[q.f].pipe # i
    <3>1. ftable[q.f].pipe \in Pages
      BY <2>2, <2>5, AtPipe
    <3>2. m = PipeOf(q)
      BY <1>1, <2>2, <2>5, <3>1 DEF PipeOf
    <3>. QED BY <1>7, <2>1, <2>2, <3>2, OthersKnow
  <2>6. CASE (Reading(q) \/ Writing(q)) /\ ftable[q.f].pipe = i
    <3>1. m = pi /\ PipeOf(q) = pipes[i]
      BY <1>1, <2>2, <2>6 DEF PipeOf
    <3>2. (k.pc = "read_asleep" => m.writeopen) /\ (k.pc = "write_asleep" => Full(m) /\ m.readopen)
      BY <1>7, <2>2, <2>3, <2>6, <3>1 DEF SleepOn
    <3>3. PipeOf(q).lock \in {0, p}
      BY <1>1, <3>1
    <3>. QED BY <1>7, <2>1, <2>2, <3>2, <3>3, OthersKnow
  <2>. QED BY <2>4, <2>5, <2>6
<1>8. Knows(p)' /\ PipeFreedByLast'
  OBVIOUS
<1>. QED BY <1>2, <1>3, <1>5, <1>6, <1>7, <1>8 DEF FileInv

\* A step on the ring of an open pipe, and what process p must know at its new label.
AtRing(p, n, i, pi) ==
  /\ ~Opening(n) /\ proc[p].pc # "pipeclose" /\ n.pc # "pipeclose"
  /\ Reading(n) => PipeEnd(n.f, FALSE) /\ n.f = argfd(p)'
  /\ Writing(n) => PipeEnd(n.f, TRUE) /\ \E slot \in Fds : n.ofile[slot] = n.f
  /\ n.pc \in {"read_sleep", "read_asleep", "write_sleep", "write_asleep"} => ftable[n.f].pipe = i
  /\ n.pc = "read_sleep" => pi.lock = p /\ Empty(pi) /\ pi.writeopen
  /\ n.pc = "write_sleep" => pi.lock = p /\ Full(pi) /\ pi.readopen
  /\ n.pc = "read_asleep" => pi.writeopen
  /\ n.pc = "write_asleep" => Full(pi) /\ pi.readopen
StayFull(p, i, pi) ==
  \A c \in Procs \ {p} :
    proc'[c].pc = "write_asleep" /\ ftable[proc[c].f].pipe = i /\ Full(pipes[i]) => Full(pi)

LEMMA OnRing ==
  ASSUME FileInv, NEW p \in Procs, NEW i \in Pages, NEW pi, ftable' = ftable,
         pipes' = [pipes EXCEPT ![i] = pi] \/ (pipes' = pipes /\ pi = pipes[i]),
         pipes[i].lock \in {0, p}, SameEnds(pipes[i], pi), pi.lock \in {0, p},
         DOMAIN proc' = Procs, \A c \in Procs \ {p} : Kept(proc[c], proc'[c])
  PROVE  OnPage(p, i, pi)
<1>1. pipes[i].readopen \in BOOLEAN /\ pipes[i].writeopen \in BOOLEAN
  BY DEF FileInv, PipesOK, PipeOK
<1>2. pi.lock \in 0..NPROC
  BY FileSysAssumption DEF Procs
<1>3. PipeOK(pi)
  BY <1>1, <1>2 DEF PipeOK, SameEnds
<1>4. DOMAIN pipes' = Pages /\ pipes'[i] = pi /\ \A j \in Pages \ {i} : pipes'[j] = pipes[j]
  BY DEF FileInv, PipesOK
<1>. QED BY <1>3, <1>4 DEF OnPage

LEMMA RingStep ==
  ASSUME FileInv, NEW p \in Procs, NEW i \in Pages, NEW pi, OnPage(p, i, pi), SameEnds(pipes[i], pi),
         NEW n, Comes(p, n), AtRing(p, n, i, pi), StayFull(p, i, pi)
  PROVE  FileInv'
<1>1. /\ DOMAIN pipes' = Pages /\ pipes'[i] = pi /\ \A j \in Pages \ {i} : pipes'[j] = pipes[j]
      /\ ftable' = ftable /\ \A c \in Procs \ {p} : Kept(proc[c], proc'[c])
  BY DEF FileInv, PipesOK, OnPage
<1>2. PipeFreedByLast'
  <2>1. \A c \in Procs : SameCloser(c)
    <3>1. SameCloser(p)
      BY Untouched DEF AtRing, Comes
    <3>2. ASSUME NEW c \in Procs, c # p PROVE SameCloser(c)
      <4>1. Kept(proc[c], proc'[c])
        BY <1>1, <3>2
      <4>. QED BY <4>1, KeptOthers DEF SameCloser
    <3>. QED BY <3>1, <3>2
  <2>2. ASSUME NEW j \in Pages, NEW w \in BOOLEAN PROVE EndsOf(j, w)' = EndsOf(j, w) /\ Closers(j, w)' = Closers(j, w)
    <3>1. EndsOf(j, w)' = EndsOf(j, w)
      BY <1>1 DEF EndsOf
    <3>2. Closers(j, w)' = Closers(j, w)
      BY <2>1 DEF Closers, SameCloser
    <3>. QED BY <3>1, <3>2
  <2>3. ASSUME NEW j \in Pages
        PROVE  /\ pipes'[j].page = pipes[j].page /\ pipes'[j].readopen = pipes[j].readopen
               /\ pipes'[j].writeopen = pipes[j].writeopen
    BY <1>1 DEF SameEnds
  <2>. QED BY <2>2, <2>3 DEF FileInv, PipeFreedByLast, Ends
<1>3. Knows(p)'
  <2>1. n.pc \in {"read_sleep", "read_asleep", "write_sleep", "write_asleep"} => PipeOf(n)' = pi
    BY <1>1 DEF PipeOf, AtRing
  <2>2. (Reading(n) => PipeEnd(n.f, FALSE)') /\ (Writing(n) => PipeEnd(n.f, TRUE)')
    BY <1>1 DEF PipeEnd, AtRing
  <2>3. PICK pin : pin = PipeOf(n)'
    OBVIOUS
  <2>4. /\ n.pc = "read_sleep" => pin.lock = p /\ Empty(pin) /\ pin.writeopen
        /\ n.pc = "write_sleep" => pin.lock = p /\ Full(pin) /\ pin.readopen
        /\ n.pc = "read_asleep" => pin.writeopen
        /\ n.pc = "write_asleep" => Full(pin) /\ pin.readopen
    BY <2>1, <2>3 DEF AtRing
  <2>5. /\ proc'[p] = n /\ ~Opening(n) /\ n.pc \notin {"pipealloc", "pipeclose"}
        /\ Reading(n) => n.f = argfd(p)'
        /\ Writing(n) => \E slot \in Fds : n.ofile[slot] = n.f
    BY DEF AtRing, Comes
  <2>. QED BY <2>2, <2>3, <2>4, <2>5 DEF Knows, Writing, Reading, Opening, Fresh, PipeEnd, Empty, Full, PipeOf
<1>4. SleepOn(p, i, pi)
  <2>1. ASSUME NEW c \in Procs \ {p}, ftable[proc[c].f].pipe = i
        PROVE  /\ proc[c].pc = "read_asleep" /\ proc'[c].pc = "read_asleep" => pi.writeopen
               /\ proc[c].pc = "write_asleep" /\ proc'[c].pc = "write_asleep" => Full(pi) /\ pi.readopen
    <3>1. PICK q, old : q = proc[c] /\ old = PipeOf(q) /\ old = pipes[i]
      BY <2>1 DEF PipeOf
    <3>2. (q.pc = "read_asleep" => old.writeopen) /\ (q.pc = "write_asleep" => Full(old) /\ old.readopen)
      BY <3>1 DEF FileInv, Knows
    <3>. QED BY <2>1, <3>1, <3>2 DEF SameEnds, StayFull
  <2>. QED BY <2>1 DEF SleepOn
<1>. QED BY <1>2, <1>3, <1>4, PageStep

(***************************************************************************)
(* Reading from and writing to a pipe                                      *)
(***************************************************************************)
\* wakeup touches only the sleepers of one end of one pipe.
Awakens(p, n, i, label) == proc' = Woken([proc EXCEPT ![p] = n], i, label)
Awake(p, n, i, label) ==
  /\ DOMAIN proc' = Procs /\ proc'[p] = n
  /\ \A c \in Procs \ {p} : /\ Kept(proc[c], proc'[c])
                            /\ ~(proc'[c].pc = label /\ ftable[proc[c].f].pipe = i)

LEMMA WokenIs ==
  ASSUME FileInv, NEW p \in Procs, NEW n, NEW i, NEW label \in {"read_asleep", "write_asleep"}, n.pc # label,
         Awakens(p, n, i, label)
  PROVE  Awake(p, n, i, label)
<1>1. PICK to : to = IF label = "read_asleep" THEN "piperead" ELSE "pipewrite"
  OBVIOUS
<1>2. DOMAIN proc = Procs
  BY DEF FileInv, ProcsOK
<1>3. /\ DOMAIN proc' = Procs /\ proc'[p] = n
      /\ \A c \in Procs \ {p} :
           proc'[c] = IF proc[c].pc = label /\ ftable[proc[c].f].pipe = i THEN Jump(proc[c], to) ELSE proc[c]
  BY <1>1, <1>2 DEF Awakens, Woken
<1>4. ASSUME NEW c \in Procs \ {p}
      PROVE  Kept(proc[c], proc'[c]) /\ ~(proc'[c].pc = label /\ ftable[proc[c].f].pipe = i)
  <2>1. IsProcess(proc[c])
    BY DEF FileInv, ProcsOK
  <2>2. CASE proc[c].pc = label /\ ftable[proc[c].f].pipe = i
    <3>1. proc'[c] = Jump(proc[c], to)
      BY <1>3, <2>2
    <3>2. IsProcess(proc'[c]) /\ proc'[c].pc = to /\ \A x \in Fields \ {"pc"} : proc'[c][x] = proc[c][x]
      BY ONLY <2>1, <3>1, JumpIs
    <3>. QED BY <1>1, <2>2, <3>2 DEF Kept
  <2>3. CASE ~(proc[c].pc = label /\ ftable[proc[c].f].pipe = i)
    BY <1>3, <2>1, <2>3 DEF Kept
  <2>. QED BY <2>2, <2>3
<1>. QED BY <1>3, <1>4 DEF Awake

LEMMA ReadersWoken ==
  ASSUME FileInv, NEW p \in Procs, NEW n, NEW i, NEW procs, procs = [proc EXCEPT ![p] = n], n.pc # "read_asleep",
         proc' = Woken(procs, i, "read_asleep")
  PROVE  \A c \in Procs : proc'[c].pc = "read_asleep" => c # p /\ ftable[proc[c].f].pipe # i
<1>1. DOMAIN procs = Procs /\ procs[p] = n /\ \A c \in Procs \ {p} : procs[c] = proc[c]
  BY DEF FileInv, ProcsOK
<1>2. \A c \in Procs : proc'[c] = IF procs[c].pc = "read_asleep" /\ ftable[procs[c].f].pipe = i
                                  THEN Jump(procs[c], "piperead") ELSE procs[c]
  BY <1>1 DEF Woken
<1>3. ASSUME NEW c \in Procs, proc'[c].pc = "read_asleep" PROVE c # p /\ ftable[proc[c].f].pipe # i
  <2>1. c # p
    BY <1>1, <1>2, <1>3
  <2>2. IsProcess(proc[c]) /\ procs[c] = proc[c]
    BY <1>1, <2>1 DEF FileInv, ProcsOK
  <2>3. Jump(proc[c], "piperead").pc = "piperead"
    BY <2>2, JumpIs
  <2>. QED BY <1>2, <1>3, <2>1, <2>2, <2>3
<1>. QED BY <1>3

LEMMA PipeWriteStep ==
  ASSUME FileInv, NEW p \in Procs, PipeWrite(p)
  PROVE  FileInv'
<1>1. PICK q \in {proc[p]}, i \in Pages :
        /\ q = proc[p] /\ i = ftable[q.f].pipe /\ q.pc = "pipewrite" /\ IsProcess(q) /\ q.stack = <<>>
        /\ PipeEnd(q.f, TRUE) /\ \E slot \in Fds : q.ofile[slot] = q.f
  <2>1. proc[p].pc = "pipewrite" /\ Writing(proc[p])
    BY DEF PipeWrite, At, Writing
  <2>2. PICK q : q = proc[p]
    OBVIOUS
  <2>3. /\ IsProcess(q) /\ q.stack = <<>> /\ ftable[q.f].pipe \in Pages /\ q.pc = "pipewrite" /\ Writing(q)
        /\ Writing(q) => PipeEnd(q.f, TRUE) /\ \E slot \in Fds : q.ofile[slot] = q.f
    BY <2>1, <2>2, AtPipe
  <2>. QED BY <2>2, <2>3
<1>2. PICK data, left, w : data = Arg(p).data /\ left = SubSeq(data, q.k + 1, Len(data)) /\ w = PutAll(pipes[i], left)
  OBVIOUS
<1>3. ftable' = ftable /\ pipes[i].lock = 0
  BY <1>1 DEF PipeWrite
<1>4. /\ SameEnds(pipes[i], w.pi) /\ w.pi.lock = 0
      /\ w.k # Len(left) => Full(w.pi)
      /\ Full(pipes[i]) => Full(w.pi)
  BY <1>2, <1>3, RingIs, PutIs
<1>5. 0 \in 0..NPROC /\ p \in 0..NPROC
  BY FileSysAssumption DEF Procs
<1>6. ASSUME NEW n, IsProcess(n), n.stack = <<>>, n.ofile = q.ofile, n.pc \in {"user", "exit"},
             pipes' = [pipes EXCEPT ![i] = w.pi],
             DOMAIN proc' = Procs, proc'[p] = n, \A c \in Procs \ {p} : Kept(proc[c], proc'[c])
      PROVE  FileInv'
  <2>1. Shape(n.pc, n.stack) /\ ~Leaving(n) /\ ~Opening(n)
    BY <1>6, BusyBody DEF Busy, Bodies
  <2>2. ~Reading(n) /\ ~Writing(n) /\ n.pc \notin PipeLabels \cup {"pipeclose"}
    BY <1>6 DEF Reading, Writing, PipeLabels
  <2>3. OnPage(p, i, w.pi)
    BY <1>3, <1>4, <1>6, OnRing
  <2>4. Comes(p, n)
    BY <1>1, <1>6, <2>1, <2>2 DEF Comes, PipeLabels
  <2>5. AtRing(p, n, i, w.pi)
    BY <1>1, <2>1, <2>2 DEF AtRing, PipeLabels
  <2>6. StayFull(p, i, w.pi)
    BY <1>4 DEF StayFull
  <2>. QED BY <1>4, <2>3, <2>4, <2>5, <2>6, RingStep
<1>7. CASE w.k = Len(left)
  <2>1. PICK n : n = Returned(q, Len(data))
    OBVIOUS
  <2>2. pipes' = [pipes EXCEPT ![i] = w.pi] /\ proc' = Woken([proc EXCEPT ![p] = n], i, "read_asleep")
    BY <1>1, <1>2, <1>7, <2>1 DEF PipeWrite
  <2>3. IsProcess(n) /\ n.stack = <<>> /\ n.ofile = q.ofile /\ n.pc \in {"user", "exit"}
    BY <1>1, <2>1, ReturnedIs
  <2>4. DOMAIN proc' = Procs /\ proc'[p] = n /\ \A c \in Procs \ {p} : Kept(proc[c], proc'[c])
    <3>1. Awakens(p, n, i, "read_asleep")
      BY <2>2 DEF Awakens
    <3>2. n.pc # "read_asleep"
      BY <2>3
    <3>3. Awake(p, n, i, "read_asleep")
      BY <3>1, <3>2, WokenIs
    <3>. QED BY <3>3 DEF Awake
  <2>. QED BY <1>6, <2>2, <2>3, <2>4
<1>8. CASE w.k # Len(left) /\ (~pipes[i].readopen \/ q.killed)
  <2>1. PICK n : n = Returned(q, -1)
    OBVIOUS
  <2>2. pipes' = [pipes EXCEPT ![i] = w.pi] /\ proc' = [proc EXCEPT ![p] = n]
    BY <1>1, <1>2, <1>8, <2>1 DEF PipeWrite, Return
  <2>3. IsProcess(n) /\ n.stack = <<>> /\ n.ofile = q.ofile /\ n.pc \in {"user", "exit"}
    BY <1>1, <2>1, ReturnedIs
  <2>4. DOMAIN proc' = Procs /\ proc'[p] = n /\ \A c \in Procs \ {p} : Kept(proc[c], proc'[c])
    BY <2>2 DEF FileInv, ProcsOK, Kept
  <2>. QED BY <1>6, <2>2, <2>3, <2>4
<1>9. CASE w.k # Len(left) /\ ~(~pipes[i].readopen \/ q.killed)
  <2>1. PICK k, j, n, pi : /\ k = q.k + w.k /\ j = Jump(q, "write_sleep") /\ n = [j EXCEPT !.k = k]
                           /\ pi = [w.pi EXCEPT !.lock = p]
    OBVIOUS
  <2>2. IsProcess(j) /\ j.stack = <<>> /\ j.ofile = q.ofile /\ j.pc = "write_sleep" /\ j.f = q.f /\ j.k = q.k
    BY <1>1, <2>1, JumpIs DEF Fields
  <2>3. IsProcess(n) /\ n.stack = <<>> /\ n.ofile = q.ofile /\ n.pc = "write_sleep" /\ n.f = q.f
    BY <2>1, <2>2, FieldsAre DEF IsProcess, Fields
  <2>4. pipes' = [pipes EXCEPT ![i] = pi] /\ proc' = Woken([proc EXCEPT ![p] = n], i, "read_asleep")
    BY <1>1, <1>2, <1>9, <2>1, <2>2 DEF PipeWrite
  <2>5. DOMAIN proc' = Procs /\ proc'[p] = n /\ \A c \in Procs \ {p} : Kept(proc[c], proc'[c])
    <3>1. Awakens(p, n, i, "read_asleep")
      BY <2>4 DEF Awakens
    <3>2. n.pc # "read_asleep"
      BY <2>3
    <3>3. Awake(p, n, i, "read_asleep")
      BY <3>1, <3>2, WokenIs
    <3>. QED BY <3>3 DEF Awake
  <2>6. SameEnds(pipes[i], pi) /\ pi.lock = p /\ Full(pi)
    <3>1. IsPipe(w.pi) /\ RingOK(w.pi)
      BY <1>4 DEF SameEnds
    <3>2. SameEnds(w.pi, pi) /\ pi.lock = p /\ (Full(pi) <=> Full(w.pi))
      BY <2>1, <3>1, LockIs
    <3>. QED BY <1>4, <1>9, <3>2, SameEndsTwice
  <2>7. pi.readopen
    BY <1>9, <2>6, RingIs DEF SameEnds
  <2>8. Shape(n.pc, n.stack) /\ ~Leaving(n) /\ ~Opening(n) /\ ~Reading(n)
    BY <2>3 DEF Shape, Leaving, Opening, Reading, PipeLabels
  <2>9. OnPage(p, i, pi)
    BY <1>3, <2>4, <2>5, <2>6, OnRing
  <2>10. Comes(p, n)
    BY <1>1, <2>3, <2>5, <2>8 DEF Comes
  <2>11. AtRing(p, n, i, pi)
    BY <1>1, <2>3, <2>6, <2>7, <2>8 DEF AtRing
  <2>12. StayFull(p, i, pi)
    BY <2>6 DEF StayFull
  <2>. QED BY <2>6, <2>9, <2>10, <2>11, <2>12, RingStep
<1>. QED BY <1>7, <1>8, <1>9

\* A read works on the pipe of its descriptor.
LEMMA AtRead ==
  ASSUME FileInv, NEW p \in Procs, PipeRead(p)
  PROVE  LET q == proc[p] IN
         /\ q.pc \in {"user", "piperead"} /\ IsProcess(q) /\ q.stack = <<>>
         /\ argfd(p) \in Files /\ PipeEnd(argfd(p), FALSE) /\ ftable[argfd(p)].pipe \in Pages
<1>1. CASE At(p, "piperead")
  <2>1. proc[p].pc = "piperead" /\ Reading(proc[p])
    BY <1>1 DEF At, Reading
  <2>2. PICK q : q = proc[p]
    OBVIOUS
  <2>3. /\ IsProcess(q) /\ q.stack = <<>> /\ q.f \in Files /\ ftable[q.f].pipe \in Pages
        /\ Reading(q) => PipeEnd(q.f, FALSE) /\ q.f = argfd(p)
    BY <2>1, <2>2, AtPipe
  <2>. QED BY <2>1, <2>2, <2>3
<1>2. CASE Calls(p, "read") /\ argfd(p) # 0 /\ ftable[argfd(p)].readable /\ ftable[argfd(p)].type = "FD_PIPE"
  <2>1. proc[p].pc = "user"
    BY <1>2 DEF Calls, At
  <2>2. IsProcess(proc[p]) /\ proc[p].stack = <<>>
    BY <2>1, AtBody
  <2>3. argfd(p) \in Files
    BY <1>2, ArgFile
  <2>. QED BY <1>2, <2>1, <2>2, <2>3 DEF PipeEnd, FileInv, FilesOK, FileOK
<1>. QED BY <1>1, <1>2 DEF PipeRead

LEMMA DeliveredAs ==
  ASSUME NEW p, NEW q, q = proc[p], IsProcess(q), NEW cells
  PROVE  LET n == Delivered(p, cells) IN
         IsProcess(n) /\ n.ofile = q.ofile /\ n.stack = <<>> /\ n.pc \in {"exit", "user"}
<1>1. PICK m : m = Returned(q, 0)
  OBVIOUS
<1>2. IsProcess(m) /\ m.ofile = q.ofile /\ m.stack = <<>> /\ m.pc \in {"exit", "user"}
  BY <1>1, ReturnedIs
<1>3. PICK got, mm : got = q.got \o cells /\ mm = [m EXCEPT !.got = got]
  OBVIOUS
<1>4. IsProcess(mm) /\ mm.ofile = q.ofile /\ mm.stack = <<>> /\ mm.pc \in {"exit", "user"}
  BY <1>2, <1>3, FieldsAre DEF IsProcess, Fields
<1>5. PICK n : n = Goto(mm, q.at)
  OBVIOUS
<1>6. IsProcess(n) /\ n.ofile = q.ofile /\ n.stack = <<>> /\ n.pc \in {"exit", "user"}
  BY <1>4, <1>5, GotoIs DEF Fields
<1>7. Delivered(p, cells) = n \/ Delivered(p, cells) = m
  BY <1>1, <1>3, <1>5 DEF Delivered
<1>. QED BY <1>2, <1>6, <1>7

LEMMA PipeReadStep ==
  ASSUME FileInv, NEW p \in Procs, PipeRead(p)
  PROVE  FileInv'
<1>1. PICK q \in {proc[p]}, f \in {argfd(p)}, i \in Pages :
        /\ q = proc[p] /\ f = argfd(p) /\ i = ftable[f].pipe /\ f \in Files /\ PipeEnd(f, FALSE)
        /\ q.pc \in {"user", "piperead"} /\ IsProcess(q) /\ q.stack = <<>>
  <2>1. PICK q, f : q = proc[p] /\ f = argfd(p)
    OBVIOUS
  <2>2. /\ q.pc \in {"user", "piperead"} /\ IsProcess(q) /\ q.stack = <<>>
        /\ f \in Files /\ PipeEnd(f, FALSE) /\ ftable[f].pipe \in Pages
    BY <2>1, AtRead
  <2>. QED BY <2>1, <2>2
<1>2. PICK w : w = TakeUpTo(pipes[i], Arg(p).n)
  OBVIOUS
<1>3. ftable' = ftable /\ pipes[i].lock = 0
  BY <1>1 DEF PipeRead
<1>4. SameEnds(pipes[i], w.pi) /\ w.pi.lock = 0
  BY <1>2, <1>3, RingIs, TakeIs
<1>5. 0 \in 0..NPROC /\ p \in 0..NPROC
  BY FileSysAssumption DEF Procs
<1>6. ASSUME NEW n, IsProcess(n), n.stack = <<>>, n.ofile = q.ofile, n.pc \in {"user", "exit"},
             NEW pi, pipes' = [pipes EXCEPT ![i] = pi] \/ (pipes' = pipes /\ pi = pipes[i]), SameEnds(pipes[i], pi), pi.lock = 0,
             DOMAIN proc' = Procs, proc'[p] = n, \A c \in Procs \ {p} : Kept(proc[c], proc'[c]),
             StayFull(p, i, pi)
      PROVE  FileInv'
  <2>1. Shape(n.pc, n.stack) /\ ~Leaving(n) /\ ~Opening(n)
    BY <1>6, BusyBody DEF Busy, Bodies
  <2>2. ~Reading(n) /\ ~Writing(n) /\ n.pc \notin PipeLabels \cup {"pipeclose"}
    BY <1>6 DEF Reading, Writing, PipeLabels
  <2>3. OnPage(p, i, pi)
    BY <1>3, <1>6, OnRing
  <2>4. Comes(p, n)
    BY <1>1, <1>6, <2>1, <2>2 DEF Comes, PipeLabels
  <2>5. AtRing(p, n, i, pi)
    BY <1>1, <2>1, <2>2 DEF AtRing, PipeLabels
  <2>. QED BY <1>6, <2>3, <2>4, <2>5, RingStep
<1>7. CASE Empty(pipes[i]) /\ pipes[i].writeopen /\ q.killed
  <2>1. PICK n : n = Returned(q, <<"fail">>)
    OBVIOUS
  <2>2. pipes' = pipes /\ proc' = [proc EXCEPT ![p] = n]
    BY <1>1, <1>7, <2>1 DEF PipeRead, Return
  <2>3. IsProcess(n) /\ n.stack = <<>> /\ n.ofile = q.ofile /\ n.pc \in {"user", "exit"}
    BY <1>1, <2>1, ReturnedIs
  <2>4. DOMAIN proc' = Procs /\ proc'[p] = n /\ \A c \in Procs \ {p} : Kept(proc[c], proc'[c])
    BY <2>2 DEF FileInv, ProcsOK, Kept
  <2>5. SameEnds(pipes[i], pipes[i]) /\ StayFull(p, i, pipes[i])
    BY RingIs DEF StayFull
  <2>. QED BY <1>3, <1>6, <2>2, <2>3, <2>4, <2>5
<1>8. CASE Empty(pipes[i]) /\ pipes[i].writeopen /\ ~q.killed
  <2>1. PICK j, n, pi : j = Jump(q, "read_sleep") /\ n = [j EXCEPT !.f = f] /\ pi = [pipes[i] EXCEPT !.lock = p]
    OBVIOUS
  <2>2. pipes' = [pipes EXCEPT ![i] = pi] /\ proc' = [proc EXCEPT ![p] = n]
    BY <1>1, <1>8, <2>1 DEF PipeRead
  <2>3. /\ IsProcess(j) /\ j.stack = <<>> /\ j.ofile = q.ofile /\ j.pc = "read_sleep"
        /\ j.arg = q.arg /\ j.last = q.last
    BY <1>1, <2>1, JumpIs DEF Fields
  <2>4. /\ IsProcess(n) /\ n.stack = <<>> /\ n.ofile = q.ofile /\ n.pc = "read_sleep" /\ n.f = f
        /\ n.arg = q.arg /\ n.last = q.last
    BY <2>1, <2>3, FieldsAre DEF IsProcess, Fields
  <2>5. DOMAIN proc' = Procs /\ proc'[p] = n /\ \A c \in Procs \ {p} : Kept(proc[c], proc'[c])
    BY <2>2 DEF FileInv, ProcsOK, Kept
  <2>6. SameEnds(pipes[i], pi) /\ pi.lock = p /\ Empty(pi) /\ (Full(pipes[i]) => Full(pi))
    BY <1>8, <2>1, RingIs, LockIs
  <2>7. pi.writeopen
    BY <1>8, <2>6 DEF SameEnds
  <2>8. Shape(n.pc, n.stack) /\ ~Leaving(n) /\ ~Opening(n) /\ ~Writing(n)
    BY <2>4 DEF Shape, Leaving, Opening, Writing, PipeLabels
  <2>9. argfd(p)' = f
    BY <1>1, <2>4, <2>5 DEF argfd, FdArg, Arg
  <2>10. OnPage(p, i, pi)
    BY <1>3, <2>2, <2>5, <2>6, OnRing
  <2>11. Comes(p, n)
    BY <1>1, <2>4, <2>5, <2>8 DEF Comes
  <2>12. AtRing(p, n, i, pi)
    BY <1>1, <2>4, <2>6, <2>7, <2>8, <2>9 DEF AtRing
  <2>13. StayFull(p, i, pi)
    BY <2>6 DEF StayFull
  <2>. QED BY <2>6, <2>10, <2>11, <2>12, <2>13, RingStep
<1>9. CASE ~(Empty(pipes[i]) /\ pipes[i].writeopen)
  <2>1. PICK n : n = Delivered(p, w.cells)
    OBVIOUS
  <2>2. pipes' = [pipes EXCEPT ![i] = w.pi] /\ proc' = Woken([proc EXCEPT ![p] = n], i, "write_asleep")
    BY <1>1, <1>2, <1>9, <2>1 DEF PipeRead
  <2>3. IsProcess(n) /\ n.stack = <<>> /\ n.ofile = q.ofile /\ n.pc \in {"user", "exit"}
    BY <1>1, <2>1, DeliveredAs
  <2>4. /\ DOMAIN proc' = Procs /\ proc'[p] = n
        /\ \A c \in Procs \ {p} : /\ Kept(proc[c], proc'[c])
                                  /\ ~(proc'[c].pc = "write_asleep" /\ ftable[proc[c].f].pipe = i)
    <3>1. Awakens(p, n, i, "write_asleep")
      BY <2>2 DEF Awakens
    <3>2. n.pc # "write_asleep"
      BY <2>3
    <3>3. Awake(p, n, i, "write_asleep")
      BY <3>1, <3>2, WokenIs
    <3>. QED BY <3>3 DEF Awake
  <2>5. StayFull(p, i, w.pi)
    BY <2>4 DEF StayFull
  <2>. QED BY <1>4, <1>6, <2>2, <2>3, <2>4, <2>5
<1>. QED BY <1>7, <1>8, <1>9

LEMMA PipeSleepStep ==
  ASSUME FileInv, NEW p \in Procs, PipeSleep(p)
  PROVE  FileInv'
<1>1. PICK q \in {proc[p]}, i \in Pages :
        /\ q = proc[p] /\ i = ftable[q.f].pipe /\ q.pc \in {"read_sleep", "write_sleep"}
        /\ IsProcess(q) /\ q.stack = <<>>
        /\ Reading(q) => PipeEnd(q.f, FALSE) /\ q.f = argfd(p)
        /\ Writing(q) => PipeEnd(q.f, TRUE) /\ \E slot \in Fds : q.ofile[slot] = q.f
  <2>1. proc[p].pc \in {"read_sleep", "write_sleep"} /\ (Reading(proc[p]) \/ Writing(proc[p]))
    BY DEF PipeSleep, At, Reading, Writing
  <2>2. PICK q : q = proc[p]
    OBVIOUS
  <2>3. /\ IsProcess(q) /\ q.stack = <<>> /\ q.f \in Files /\ ftable[q.f].pipe \in Pages
        /\ Reading(q) => PipeEnd(q.f, FALSE) /\ q.f = argfd(p)
        /\ Writing(q) => PipeEnd(q.f, TRUE) /\ \E slot \in Fds : q.ofile[slot] = q.f
    BY <2>1, <2>2, AtPipe
  <2>. QED BY <2>1, <2>2, <2>3
<1>2. PICK n, pi : /\ n = Jump(q, IF q.pc = "read_sleep" THEN "read_asleep" ELSE "write_asleep")
                   /\ pi = [pipes[i] EXCEPT !.lock = 0]
  OBVIOUS
<1>3. ftable' = ftable /\ pipes' = [pipes EXCEPT ![i] = pi] /\ proc' = [proc EXCEPT ![p] = n]
  BY <1>1, <1>2 DEF PipeSleep, At
<1>4. /\ IsProcess(n) /\ n.pc = IF q.pc = "read_sleep" THEN "read_asleep" ELSE "write_asleep"
      /\ \A x \in Fields \ {"pc"} : n[x] = q[x]
  <2>1. PICK l : l = IF q.pc = "read_sleep" THEN "read_asleep" ELSE "write_asleep"
    OBVIOUS
  <2>2. n = Jump(q, l) /\ IsProcess(q)
    BY <1>1, <1>2, <2>1
  <2>3. IsProcess(n) /\ n.pc = l /\ \A x \in Fields \ {"pc"} : n[x] = q[x]
    BY <2>2, JumpIs
  <2>. QED BY <2>1, <2>3
<1>5. n.stack = <<>> /\ n.ofile = q.ofile /\ n.f = q.f /\ n.arg = q.arg /\ n.last = q.last
  BY <1>1, <1>4 DEF Fields
<1>6. DOMAIN proc' = Procs /\ proc'[p] = n /\ \A c \in Procs \ {p} : Kept(proc[c], proc'[c])
  BY <1>3 DEF FileInv, ProcsOK, Kept
<1>7. pipes[i].lock = p /\ (q.pc = "read_sleep" => pipes[i].writeopen)
      /\ (q.pc = "write_sleep" => Full(pipes[i]) /\ pipes[i].readopen)
  BY <1>1 DEF FileInv, Knows, PipeOf
<1>8. SameEnds(pipes[i], pi) /\ pi.lock = 0 /\ (Full(pipes[i]) <=> Full(pi))
  BY <1>2, RingIs, LockIs
<1>9. (q.pc = "read_sleep" => pi.writeopen) /\ (q.pc = "write_sleep" => Full(pi) /\ pi.readopen)
  BY <1>7, <1>8 DEF SameEnds
<1>10. Shape(n.pc, n.stack) /\ ~Leaving(n) /\ ~Opening(n)
  BY <1>1, <1>4, <1>5 DEF Shape, Leaving, Opening, PipeLabels
<1>11. argfd(p)' = argfd(p)
  BY <1>1, <1>5, <1>6 DEF argfd, FdArg, Arg
<1>12. (Reading(n) <=> Reading(q)) /\ (Writing(n) <=> Writing(q))
  BY <1>1, <1>4 DEF Reading, Writing
<1>13. OnPage(p, i, pi)
  BY <1>3, <1>6, <1>7, <1>8, OnRing
<1>14. Comes(p, n)
  BY <1>1, <1>4, <1>5, <1>6, <1>10 DEF Comes
<1>15. AtRing(p, n, i, pi)
  BY <1>1, <1>4, <1>5, <1>9, <1>10, <1>11, <1>12 DEF AtRing
<1>16. StayFull(p, i, pi)
  BY <1>8 DEF StayFull
<1>. QED BY <1>8, <1>13, <1>14, <1>15, <1>16, RingStep

(***************************************************************************)
(* The ends of a pipe are closed and made                                  *)
(***************************************************************************)
OpenEnd(pi, w) == IF w THEN pi.writeopen ELSE pi.readopen

\* Who reads from or writes to a pipe has a file for its end, and the end is open.
LEMMA EndsAre ==
  ASSUME FileInv, NEW i \in Pages, NEW w \in BOOLEAN
  PROVE  /\ Ends(i, w) = IF OpenEnd(pipes[i], w) THEN 1 ELSE 0
         /\ ~OpenEnd(pipes[i], w) => EndsOf(i, w) = {} /\ Closers(i, w) = {}
         /\ \A p \in Closers(i, w) : OpenEnd(pipes[i], w) /\ EndsOf(i, w) = {} /\ Closers(i, w) = {p}
<1>1. Ends(i, w) = IF OpenEnd(pipes[i], w) THEN 1 ELSE 0
  BY DEF FileInv, PipeFreedByLast, OpenEnd
<1>2. PICK e \in Nat, c \in Nat : /\ e = Cardinality(EndsOf(i, w)) /\ c = Cardinality(Closers(i, w))
                                  /\ (e = 0 <=> EndsOf(i, w) = {}) /\ (c = 0 <=> Closers(i, w) = {})
  BY EndsFinite, FS_EmptySet
<1>3. e + c = IF OpenEnd(pipes[i], w) THEN 1 ELSE 0
  BY <1>1, <1>2 DEF Ends
<1>4. ASSUME ~OpenEnd(pipes[i], w) PROVE EndsOf(i, w) = {} /\ Closers(i, w) = {}
  <2>1. e + c = 0
    BY <1>3, <1>4
  <2>2. e = 0 /\ c = 0
    BY ONLY <2>1, e \in Nat, c \in Nat
  <2>. QED BY <1>2, <2>2
<1>5. ASSUME NEW p \in Closers(i, w)
      PROVE  OpenEnd(pipes[i], w) /\ EndsOf(i, w) = {} /\ Closers(i, w) = {p}
  <2>1. c # 0
    BY <1>2, <1>5
  <2>2. c = 1 /\ e = 0 /\ OpenEnd(pipes[i], w)
    BY <1>3, <2>1
  <2>3. PICK x : Closers(i, w) = {x}
    BY <1>2, <2>2, EndsFinite, FS_Singleton
  <2>. QED BY <1>2, <1>5, <2>2, <2>3
<1>. QED BY <1>1, <1>4, <1>5

\* A pipe with end w open, and what is left of it when that end is closed.
Closable(pi, w) ==
  /\ IsPipe(pi) /\ RingOK(pi) /\ pi.readopen \in BOOLEAN /\ pi.writeopen \in BOOLEAN
  /\ OpenEnd(pi, w) /\ pi.page = TRUE /\ pi.lock = 0
Shut(pi, w, n) ==
  /\ IsPipe(n) /\ RingOK(n) /\ n.lock = 0 /\ n.readopen \in BOOLEAN /\ n.writeopen \in BOOLEAN
  /\ n.page = (n.readopen \/ n.writeopen)
  /\ n.writeopen = (pi.writeopen /\ ~w) /\ n.readopen = (pi.readopen /\ w)

LEMMA ClosedIs ==
  ASSUME NEW pi, NEW w \in BOOLEAN, Closable(pi, w), NEW n, n = Closed(pi, w)
  PROVE  Shut(pi, w, n)
<1>0. /\ IsPipe(pi) /\ RingOK(pi) /\ pi.readopen \in BOOLEAN /\ pi.writeopen \in BOOLEAN
      /\ OpenEnd(pi, w) /\ pi.page = TRUE /\ pi.lock = 0
  BY DEF Closable
<1>. SUFFICES /\ IsPipe(n) /\ RingOK(n) /\ n.lock = 0 /\ n.readopen \in BOOLEAN /\ n.writeopen \in BOOLEAN
              /\ n.page = (n.readopen \/ n.writeopen)
              /\ n.writeopen = (pi.writeopen /\ ~w) /\ n.readopen = (pi.readopen /\ w)
  BY DEF Shut
<1>1. PICK wo, ro, c : /\ wo = (pi.writeopen /\ ~w) /\ ro = (pi.readopen /\ w)
                       /\ c = [pi EXCEPT !.writeopen = wo, !.readopen = ro]
  OBVIOUS
<1>2. wo \in BOOLEAN /\ ro \in BOOLEAN
  BY <1>1
<1>3. Closed(pi, w) = IF c.readopen \/ c.writeopen THEN c ELSE NoPipe
  BY <1>1 DEF Closed
<1>4. /\ IsPipe(c) /\ c.page = TRUE /\ c.lock = 0 /\ c.readopen = ro /\ c.writeopen = wo
      /\ c.nread = pi.nread /\ c.nwrite = pi.nwrite
  BY <1>0, <1>1, RingFieldsAre DEF IsPipe, RingFields
<1>5. RingOK(c)
  BY <1>0, <1>4 DEF RingOK, Held
<1>6. IsPipe(NoPipe) /\ RingOK(NoPipe) /\ NoPipe.page = FALSE /\ NoPipe.readopen = FALSE /\ NoPipe.writeopen = FALSE
      /\ NoPipe.lock = 0
  <2>1. NoPipe.nread = 0 /\ NoPipe.nwrite = 0 /\ NoPipe.page = FALSE /\ NoPipe.readopen = FALSE
        /\ NoPipe.writeopen = FALSE /\ NoPipe.lock = 0
    BY DEF NoPipe
  <2>2. IsPipe(NoPipe)
    BY RingFieldsAre DEF IsPipe, RingFields, NoPipe
  <2>3. 0 \in 0..UINT - 1 /\ PIPESIZE \in Nat
    BY PipeAssumption
  <2>4. Held(NoPipe) = 0
    BY <2>1, <2>3, HeldIs
  <2>. QED BY <2>1, <2>2, <2>3, <2>4 DEF RingOK
<1>7. CASE ro \/ wo
  BY <1>1, <1>2, <1>3, <1>4, <1>5, <1>7
<1>8. CASE ~(ro \/ wo)
  BY <1>1, <1>2, <1>3, <1>4, <1>6, <1>8
<1>. QED BY <1>7, <1>8

LEMMA PipeCloseStep ==
  ASSUME FileInv, NEW p \in Procs, PipeClose(p)
  PROVE  FileInv'
<1>1. PICK q \in {proc[p]}, i \in Pages, w \in BOOLEAN :
        /\ q = proc[p] /\ q.pc = "pipeclose" /\ i = q.v /\ w = q.par /\ IsProcess(q) /\ q.stack \in {<<>>, <<"exit">>}
  <2>1. proc[p].pc = "pipeclose" /\ IsProcess(proc[p]) /\ Shape(proc[p].pc, proc[p].stack)
    BY DEF PipeClose, At, FileInv, ProcsOK
  <2>2. proc[p].stack \in {<<>>, <<"exit">>}
    BY <2>1 DEF Shape, Bodies, PipeLabels, Iputs
  <2>. QED BY <2>1, <2>2 DEF FileInv, Knows
<1>2. PICK n, label : /\ n = IF q.stack = <<>> THEN Returned(q, q.r) ELSE Pop(q)
                      /\ label = IF w THEN "read_asleep" ELSE "write_asleep"
  OBVIOUS
<1>3. ftable' = ftable /\ pipes[i].lock = 0
  BY <1>1 DEF PipeClose
<1>4. PICK pi : pi = Closed(pipes[i], w)
  OBVIOUS
<1>5. pipes' = [pipes EXCEPT ![i] = pi] /\ proc' = Woken([proc EXCEPT ![p] = n], i, label)
  BY <1>1, <1>2, <1>4 DEF PipeClose
<1>6. IsProcess(n) /\ n.stack = <<>> /\ n.ofile = q.ofile /\ n.pc \in {"user", "exit"}
  <2>1. CASE q.stack = <<>>
    BY <1>1, <1>2, <2>1, ReturnedIs
  <2>2. CASE q.stack = <<"exit">>
    <3>1. q.stack # <<>> /\ Head(q.stack) = "exit" /\ Tail(q.stack) = <<>>
      BY <2>2
    <3>2. n = [q EXCEPT !.pc = "exit", !.stack = <<>>]
      BY <1>2, <3>1 DEF Pop
    <3>. QED BY <1>1, <3>2, FieldsAre DEF IsProcess, Fields
  <2>. QED BY <1>1, <2>1, <2>2
<1>7. /\ DOMAIN proc' = Procs /\ proc'[p] = n
      /\ \A c \in Procs \ {p} : /\ Kept(proc[c], proc'[c])
                                /\ ~(proc'[c].pc = label /\ ftable[proc[c].f].pipe = i)
  <2>1. label \in {"read_asleep", "write_asleep"} /\ n.pc # label
    BY <1>2, <1>6
  <2>2. Awakens(p, n, i, label)
    BY <1>5 DEF Awakens
  <2>3. Awake(p, n, i, label)
    BY <2>1, <2>2, WokenIs
  <2>. QED BY <2>3 DEF Awake
<1>8. p \in Closers(i, w)
  BY <1>1 DEF Closers
<1>9. OpenEnd(pipes[i], w) /\ EndsOf(i, w) = {} /\ Closers(i, w) = {p}
  BY <1>8, EndsAre
<1>10. /\ IsPipe(pipes[i]) /\ RingOK(pipes[i]) /\ pipes[i].readopen \in BOOLEAN /\ pipes[i].writeopen \in BOOLEAN
       /\ pipes[i].page = (pipes[i].readopen \/ pipes[i].writeopen)
  BY RingIs DEF FileInv, PipesOK, PipeOK, RingOK, PipeFreedByLast
<1>11. pipes[i].page = TRUE
  BY <1>9, <1>10 DEF OpenEnd
<1>12. /\ IsPipe(pi) /\ RingOK(pi) /\ pi.lock = 0 /\ pi.readopen \in BOOLEAN /\ pi.writeopen \in BOOLEAN
       /\ pi.page = (pi.readopen \/ pi.writeopen)
       /\ pi.writeopen = (pipes[i].writeopen /\ ~w) /\ pi.readopen = (pipes[i].readopen /\ w)
  <2>1. Closable(pipes[i], w)
    BY <1>3, <1>9, <1>10, <1>11 DEF Closable
  <2>2. Shut(pipes[i], w, pi)
    BY <1>4, <2>1, ClosedIs
  <2>. QED BY <2>2 DEF Shut
<1>13. /\ DOMAIN pipes' = Pages /\ pipes'[i] = pi /\ \A j \in Pages \ {i} : pipes'[j] = pipes[j]
  BY <1>5 DEF FileInv, PipesOK, PipeOK, RingOK
<1>14. PipeFreedByLast'
  <2>1. ASSUME NEW j \in Pages, NEW u \in BOOLEAN
        PROVE  /\ EndsOf(j, u)' = EndsOf(j, u)
               /\ Closers(j, u)' = Closers(j, u) \ {p}
    <3>1. EndsOf(j, u)' = EndsOf(j, u)
      BY <1>3 DEF EndsOf
    <3>2. ASSUME NEW c \in Procs, c # p PROVE c \in Closers(j, u)' <=> c \in Closers(j, u)
      BY <1>7, <3>2, KeptOthers DEF Closers
    <3>3. p \notin Closers(j, u)'
      BY <1>6, <1>7 DEF Closers
    <3>4. Closers(j, u) \subseteq Procs /\ Closers(j, u)' \subseteq Procs
      BY DEF Closers
    <3>. QED BY <3>1, <3>2, <3>3, <3>4
  <2>2. Ends(i, w)' = 0
    BY <1>9, <2>1, FS_EmptySet DEF Ends
  <2>3. ASSUME NEW j \in Pages, NEW u \in BOOLEAN, ~(j = i /\ u = w) PROVE Ends(j, u)' = Ends(j, u)
    <3>1. p \notin Closers(j, u)
      BY <1>1, <2>3 DEF Closers
    <3>. QED BY <2>1, <3>1 DEF Ends
  <2>4. ASSUME NEW j \in Pages, NEW u \in BOOLEAN PROVE Ends(j, u)' = IF OpenEnd(pipes'[j], u) THEN 1 ELSE 0
    <3>1. CASE j = i /\ u = w
      <4>1. ~OpenEnd(pi, w)
        BY <1>12 DEF OpenEnd
      <4>. QED BY <1>13, <2>2, <3>1, <4>1
    <3>2. CASE j = i /\ u # w
      <4>1. OpenEnd(pi, u) <=> OpenEnd(pipes[i], u)
        BY <1>10, <1>12, <3>2 DEF OpenEnd
      <4>2. Ends(j, u) = IF OpenEnd(pipes[i], u) THEN 1 ELSE 0
        BY <3>2, EndsAre
      <4>. QED BY <1>13, <2>3, <3>2, <4>1, <4>2
    <3>3. CASE j # i
      <4>1. Ends(j, u) = IF OpenEnd(pipes[j], u) THEN 1 ELSE 0
        BY EndsAre
      <4>. QED BY <1>13, <2>3, <3>3, <4>1
    <3>. QED BY <3>1, <3>2, <3>3
  <2>5. \A j \in Pages : pipes'[j].page = (pipes'[j].readopen \/ pipes'[j].writeopen)
    BY <1>12, <1>13 DEF FileInv, PipeFreedByLast
  <2>. QED BY <2>4, <2>5 DEF PipeFreedByLast, OpenEnd
<1>15. ASSUME NEW c \in Procs \ {p}, ftable[proc[c].f].pipe = i
       PROVE  /\ proc[c].pc = "read_asleep" /\ proc'[c].pc = "read_asleep" => pi.writeopen
              /\ proc[c].pc = "write_asleep" /\ proc'[c].pc = "write_asleep" => Full(pi) /\ pi.readopen
  <2>1. Reading(proc[c]) => PipeEnd(proc[c].f, FALSE)
    BY DEF FileInv, Knows
  <2>2. Writing(proc[c]) => PipeEnd(proc[c].f, TRUE)
    BY DEF FileInv, Knows
  <2>3. (Reading(proc[c]) => proc[c].f \in EndsOf(i, FALSE)) /\ (Writing(proc[c]) => proc[c].f \in EndsOf(i, TRUE))
    BY <1>15, <2>1, <2>2 DEF PipeEnd, EndsOf
  <2>4. (Reading(proc[c]) => w) /\ (Writing(proc[c]) => ~w)
    BY <1>9, <2>3
  <2>. QED BY <1>2, <1>7, <1>15, <2>4 DEF Reading, Writing
<1>16. Busy(n)
  BY <1>6, BusyBody DEF Bodies
<1>17. Knows(p)'
  BY <1>7, <1>16 DEF Knows, Busy, Away, Opening, PipeLabels, Reading, Writing
<1>18. n.pc # "pipealloc" /\ proc[p].pc # "pipealloc" /\ Shape(n.pc, n.stack) /\ ~Leaving(n)
  BY <1>1, <1>6, <1>16 DEF Busy
<1>19. pi.lock \in 0..NPROC
  BY <1>12, FileSysAssumption
<1>20. OnPage(p, i, pi)
  BY <1>3, <1>7, <1>12, <1>13, <1>19 DEF OnPage, PipeOK
<1>21. Comes(p, n)
  BY <1>1, <1>6, <1>7, <1>18 DEF Comes
<1>22. SleepOn(p, i, pi)
  BY <1>15 DEF SleepOn
<1>. QED BY <1>14, <1>17, <1>20, <1>21, <1>22, PageStep

(***************************************************************************)
(* pipe makes two files and a ring                                         *)
(***************************************************************************)
LEMMA NewPipeIs ==
  /\ IsPipe(NewPipe) /\ RingOK(NewPipe) /\ NewPipe.lock = 0
  /\ NewPipe.page = TRUE /\ NewPipe.readopen = TRUE /\ NewPipe.writeopen = TRUE
<1>1. /\ NewPipe.nread = 0 /\ NewPipe.nwrite = 0 /\ NewPipe.page = TRUE /\ NewPipe.readopen = TRUE
      /\ NewPipe.writeopen = TRUE /\ NewPipe.lock = 0
  BY DEF NewPipe, NoPipe
<1>2. IsPipe(NewPipe)
  BY RingFieldsAre DEF IsPipe, RingFields, NewPipe, NoPipe
<1>3. 0 \in 0..UINT - 1 /\ PIPESIZE \in Nat
  BY PipeAssumption
<1>4. Held(NewPipe) = 0
  BY <1>1, <1>3, HeldIs
<1>. QED BY <1>1, <1>2, <1>3, <1>4 DEF RingOK

\* The file for the other end, or the page, or the descriptors are missing: the first file is given back.
LEMMA PipeAllocBad ==
  ASSUME FileInv, NEW p \in Procs, proc[p].pc = "pipealloc", pipes' = pipes,
         ftable' = [ftable EXCEPT ![proc[p].f] = NoFile], proc' = [proc EXCEPT ![p] = Returned(proc[p], -1)]
  PROVE  FileInv'
<1>1. PICK q \in {proc[p]}, f \in Files :
        /\ q = proc[p] /\ f = q.f /\ ftable[f].ref = 1 /\ ftable[f].type = "FD_NONE"
        /\ FdsOf(f) = {} /\ Allocating(f) = {p} /\ IsProcess(q) /\ q.ofile \in [Fds -> 0..NFILE]
  BY AllocatedIsMine DEF FileInv, ProcsOK
<1>2. PICK n : n = Returned(q, -1)
  OBVIOUS
<1>3. IsProcess(n) /\ n.stack = <<>> /\ n.ofile = q.ofile /\ n.pc \in {"user", "exit"}
  BY <1>1, <1>2, ReturnedIs
<1>4. Busy(n)
  BY <1>3, BusyBody DEF Bodies
<1>5. /\ DOMAIN ftable' = Files /\ ftable'[f] = NoFile /\ \A g \in Files \ {f} : ftable'[g] = ftable[g]
      /\ DOMAIN proc' = Procs /\ proc'[p] = n /\ \A c \in Procs \ {p} : proc'[c] = proc[c]
  BY <1>1, <1>2 DEF FileInv, FilesOK, FileOK, ProcsOK
<1>6. IsFile(NoFile) /\ NoFile.ref = 0 /\ NoFile.type = "FD_NONE"
  BY FileFieldsAre DEF IsFile, FileFields, NoFile
<1>7. FilesOK'
  BY <1>5, <1>6 DEF FileInv, FilesOK, FileOK
<1>8. FilesCounted'
  <2>1. ASSUME NEW g \in Files PROVE FdsOf(g)' = FdsOf(g)
    BY <1>1, <1>3, <1>5 DEF FdsOf
  <2>2. ASSUME NEW g \in Files PROVE Allocating(g)' = Allocating(g) \ {p}
    BY <1>3, <1>5 DEF Allocating
  <2>3. ASSUME NEW g \in Files, g # f PROVE p \notin Allocating(g)
    BY <1>1, <2>3 DEF Allocating
  <2>4. ASSUME NEW g \in Files PROVE ftable'[g].ref = Cardinality(FdsOf(g)') + Cardinality(Allocating(g)')
    <3>1. CASE g = f
      BY <1>1, <1>5, <1>6, <2>1, <2>2, <3>1, FS_EmptySet
    <3>2. CASE g # f
      <4>1. Allocating(g)' = Allocating(g)
        BY <2>2, <2>3, <3>2
      <4>. QED BY <1>5, <2>1, <3>2, <4>1 DEF FileInv, FilesCounted
    <3>. QED BY <3>1, <3>2
  <2>. QED BY <2>4 DEF FilesCounted
<1>9. PipeFreedByLast'
  <2>1. ASSUME NEW g \in Files PROVE SameEnd(g)
    BY <1>1, <1>5, <1>6, Untouched
  <2>2. ASSUME NEW c \in Procs PROVE SameCloser(c)
    BY <1>1, <1>3, <1>5, Untouched
  <2>. QED BY <2>1, <2>2, EndsSame
<1>10. Knows(p)'
  BY <1>4, <1>5 DEF Knows, Busy, Away, Opening, PipeLabels, Reading, Writing
<1>11. \A c \in Procs \ {p} : ~HeldBy(c, f)
  BY <1>1, MineAlone DEF HeldBy
<1>12. ASSUME NEW c \in Procs \ {p}, NEW g \in Files, HeldBy(c, g) PROVE Told(g)
  BY <1>5, <1>11, <1>12, Untouched
<1>13. Stepped(p, n)
  BY <1>1, <1>2, <1>3, <1>4 DEF Busy, Stepped
<1>. QED BY <1>7, <1>8, <1>9, <1>10, <1>12, <1>13, FileStep

\* Two files, a page and two descriptors are there: files a and b become the ends re and we of pipe i, in
\* the descriptors x and y of process p, which comes to n.
MadeEnd(e, i, writable) ==
  IsFile(e) /\ e.type = "FD_PIPE" /\ e.ref = 1 /\ e.pipe = i /\ e.writable = writable /\ e.readable = ~writable

LEMMA MadeIsFile ==
  ASSUME NEW i \in Pages, NEW writable \in BOOLEAN, NEW e, MadeEnd(e, i, writable)
  PROVE  FileOK(e)
<1>1. e.readable = ~e.writable /\ e.writable \in BOOLEAN
  BY DEF MadeEnd
<1>2. IsFile(e) /\ e.ref \in Nat /\ e.ref # 0 /\ e.pipe \in Pages
  BY DEF MadeEnd
<1>. QED BY <1>1, <1>2 DEF FileOK

PipeMade(p, a, b, i, n) ==
  /\ DOMAIN ftable' = Files /\ MadeEnd(ftable'[a], i, FALSE) /\ MadeEnd(ftable'[b], i, TRUE)
  /\ \A g \in Files \ {a, b} : ftable'[g] = ftable[g]
  /\ DOMAIN proc' = Procs /\ proc'[p] = n /\ \A c \in Procs \ {p} : proc'[c] = proc[c]
  /\ DOMAIN pipes' = Pages /\ pipes'[i] = NewPipe /\ \A j \in Pages \ {i} : pipes'[j] = pipes[j]

LEMMA PipeMadeStep ==
  ASSUME FileInv, NEW p \in Procs, proc[p].pc = "pipealloc",
         NEW a, a = proc[p].f, NEW b \in Files, ftable[b].ref = 0, NEW i \in Pages, ~pipes[i].page,
         NEW x \in Fds, NEW y \in Fds, x # y, proc[p].ofile[x] = 0, proc[p].ofile[y] = 0,
         NEW n, PipeMade(p, a, b, i, n), IsProcess(n), n.stack = <<>>, n.pc \in {"user", "exit"},
         n.ofile \in [Fds -> 0..NFILE], n.ofile[x] = a, n.ofile[y] = b,
         \A slot \in Fds \ {x, y} : n.ofile[slot] = proc[p].ofile[slot]
  PROVE  FileInv'
<1>1. /\ a \in Files /\ ftable[a].ref = 1 /\ ftable[a].type = "FD_NONE" /\ FdsOf(a) = {} /\ Allocating(a) = {p}
      /\ ftable[b].type = "FD_NONE" /\ FdsOf(b) = {} /\ Allocating(b) = {}
  BY AllocatedIsMine, FreeIsNobodys
<1>2. PICK q : q = proc[p] /\ IsProcess(q) /\ q.ofile \in [Fds -> 0..NFILE]
  BY DEF FileInv, ProcsOK
<1>3. a # b /\ 0 \notin Files
  BY <1>1 DEF Files
<1>4. Busy(n)
  BY BusyBody DEF Bodies
<1>5. /\ DOMAIN ftable' = Files /\ \A g \in Files \ {a, b} : ftable'[g] = ftable[g]
      /\ DOMAIN proc' = Procs /\ proc'[p] = n /\ \A c \in Procs \ {p} : proc'[c] = proc[c]
      /\ DOMAIN pipes' = Pages /\ pipes'[i] = NewPipe /\ \A j \in Pages \ {i} : pipes'[j] = pipes[j]
  BY DEF PipeMade
<1>6. PICK re, we : re = ftable'[a] /\ we = ftable'[b] /\ MadeEnd(re, i, FALSE) /\ MadeEnd(we, i, TRUE)
  BY DEF PipeMade
<1>7. ProcsOK'
  <2>1. ASSUME NEW c \in Procs
        PROVE  /\ IsProcess(proc'[c]) /\ Shape(proc'[c].pc, proc'[c].stack) /\ proc'[c].ofile \in [Fds -> 0..NFILE]
               /\ Leaving(proc'[c]) => \A slot \in Fds : proc'[c].ofile[slot] = 0
    <3>1. CASE c = p
      BY <1>4, <1>5, <3>1 DEF Busy
    <3>2. CASE c # p
      BY <1>5, <3>2 DEF FileInv, ProcsOK
    <3>. QED BY <3>1, <3>2
  <2>. QED BY <1>5, <2>1 DEF ProcsOK, Leaving
<1>8. FilesOK'
  <2>1. FileOK(re) /\ FileOK(we)
    BY <1>6, MadeIsFile
  <2>2. ASSUME NEW g \in Files PROVE FileOK(ftable'[g])
    BY <1>5, <1>6, <2>1 DEF FileInv, FilesOK
  <2>. QED BY <1>5, <2>2 DEF FilesOK, FileOK
<1>9. PipesOK'
  <2>1. 0 \in 0..NPROC
    BY FileSysAssumption
  <2>. QED BY <1>5, <2>1, NewPipeIs DEF FileInv, PipesOK, PipeOK, RingOK
<1>10. FilesCounted'
  <2>1. FdsOf(a)' = {<<p, x>>} /\ FdsOf(b)' = {<<p, y>>}
    BY <1>1, <1>2, <1>3, <1>5 DEF FdsOf
  <2>2. ASSUME NEW g \in Files \ {a, b} PROVE FdsOf(g)' = FdsOf(g)
    <3>1. ASSUME NEW c \in Procs, NEW slot \in Fds PROVE proc'[c].ofile[slot] = g <=> proc[c].ofile[slot] = g
      <4>1. CASE c = p
        <5>1. CASE slot \in {x, y}
          BY <1>3, <1>5, <4>1, <5>1
        <5>2. CASE slot \notin {x, y}
          BY <1>5, <4>1, <5>2
        <5>. QED BY <5>1, <5>2
      <4>2. CASE c # p
        BY <1>5, <4>2
      <4>. QED BY <4>1, <4>2
    <3>. QED BY <3>1 DEF FdsOf
  <2>3. ASSUME NEW g \in Files PROVE Allocating(g)' = Allocating(g) \ {p}
    BY <1>5 DEF Allocating
  <2>4. ASSUME NEW g \in Files \ {a} PROVE p \notin Allocating(g)
    BY DEF Allocating
  <2>5. ASSUME NEW g \in Files PROVE ftable'[g].ref = Cardinality(FdsOf(g)') + Cardinality(Allocating(g)')
    <3>1. CASE g \in {a, b}
      <4>1. Cardinality(FdsOf(g)') = 1
        <5>1. PICK e : FdsOf(g)' = {e}
          BY <2>1, <3>1
        <5>2. Cardinality({e}) = 1
          BY FS_Singleton
        <5>. QED BY <5>1, <5>2
      <4>2. Cardinality(Allocating(g)') = 0
        BY <1>1, <2>3, <3>1, FS_EmptySet
      <4>3. ftable'[g].ref = 1
        BY <1>6, <3>1 DEF MadeEnd
      <4>. QED BY <4>1, <4>2, <4>3
    <3>2. CASE g \notin {a, b}
      <4>1. Allocating(g)' = Allocating(g)
        BY <2>3, <2>4, <3>2
      <4>. QED BY <1>5, <2>2, <3>2, <4>1 DEF FileInv, FilesCounted
    <3>. QED BY <3>1, <3>2
  <2>. QED BY <2>5 DEF FilesCounted
<1>11. ~pipes[i].readopen /\ ~pipes[i].writeopen
  BY DEF FileInv, PipeFreedByLast
<1>12. \A w \in BOOLEAN : EndsOf(i, w) = {} /\ Closers(i, w) = {}
  BY <1>11, EndsAre DEF OpenEnd
<1>13. PipeFreedByLast'
  <2>1. ASSUME NEW j \in Pages, NEW w \in BOOLEAN PROVE Closers(j, w)' = Closers(j, w)
    BY <1>5 DEF Closers
  <2>2. EndsOf(i, FALSE)' = {a} /\ EndsOf(i, TRUE)' = {b}
    <3>1. ASSUME NEW g \in Files \ {a, b}, NEW w \in BOOLEAN PROVE g \notin EndsOf(i, w)'
      <4>1. g \notin EndsOf(i, w)
        BY <1>12
      <4>. QED BY <1>5, <4>1 DEF EndsOf
    <3>2. a \in EndsOf(i, FALSE)' /\ a \notin EndsOf(i, TRUE)' /\ b \in EndsOf(i, TRUE)' /\ b \notin EndsOf(i, FALSE)'
      BY <1>1, <1>6 DEF EndsOf, MadeEnd
    <3>3. EndsOf(i, FALSE)' \subseteq Files /\ EndsOf(i, TRUE)' \subseteq Files
      BY DEF EndsOf
    <3>. QED BY <3>1, <3>2, <3>3
  <2>3. ASSUME NEW j \in Pages \ {i}, NEW w \in BOOLEAN PROVE EndsOf(j, w)' = EndsOf(j, w)
    BY <1>1, <1>5, <1>6 DEF EndsOf, MadeEnd
  <2>4. ASSUME NEW w \in BOOLEAN PROVE Ends(i, w)' = 1
    <3>1. Cardinality(EndsOf(i, w)') = 1
      <4>1. EndsOf(i, w)' = {a} \/ EndsOf(i, w)' = {b}
        BY <2>2
      <4>. QED BY <4>1, FS_Singleton
    <3>2. Cardinality(Closers(i, w)') = 0
      BY <1>12, <2>1, FS_EmptySet
    <3>. QED BY <3>1, <3>2 DEF Ends
  <2>5. ASSUME NEW j \in Pages \ {i}, NEW w \in BOOLEAN PROVE Ends(j, w)' = Ends(j, w)
    BY <2>1, <2>3 DEF Ends
  <2>6. ASSUME NEW j \in Pages
        PROVE  /\ Ends(j, FALSE)' = (IF pipes'[j].readopen THEN 1 ELSE 0)
               /\ Ends(j, TRUE)' = (IF pipes'[j].writeopen THEN 1 ELSE 0)
               /\ pipes'[j].page = (pipes'[j].readopen \/ pipes'[j].writeopen)
    <3>1. CASE j = i
      BY <1>5, <2>4, <3>1, NewPipeIs
    <3>2. CASE j # i
      <4>1. Ends(j, FALSE)' = Ends(j, FALSE) /\ Ends(j, TRUE)' = Ends(j, TRUE) /\ pipes'[j] = pipes[j]
        BY <1>5, <2>5, <3>2
      <4>. QED BY <4>1 DEF FileInv, PipeFreedByLast
    <3>. QED BY <3>1, <3>2
  <2>. QED BY <2>6 DEF PipeFreedByLast
<1>14. ASSUME NEW c \in Procs PROVE Knows(c)'
  <2>1. CASE c = p
    BY <1>4, <1>5, <2>1 DEF Knows, Busy, Away, Opening, PipeLabels, Reading, Writing
  <2>2. CASE c # p
    <3>1. Kept(proc[c], proc'[c])
      BY <1>5, <2>2 DEF FileInv, ProcsOK, Kept
    <3>2. ~HeldBy(c, a) /\ ~HeldBy(c, b)
      BY <1>1, <2>2, MineAlone DEF HeldBy
    <3>3. \A f \in Files : HeldBy(c, f) => Told(f)
      BY <1>5, <3>2, Untouched
    <3>4. PICK k, page : k = proc[c] /\ page = pipes'[ftable[k.f].pipe]
      OBVIOUS
    <3>5. CASE Reading(k) \/ Writing(k)
      <4>1. PICK w \in BOOLEAN : PipeEnd(k.f, w)
        BY <3>4, <3>5 DEF FileInv, Knows
      <4>2. k.f \in EndsOf(ftable[k.f].pipe, w) /\ ftable[k.f].pipe \in Pages
        BY <4>1 DEF PipeEnd, EndsOf, FileInv, FilesOK, FileOK
      <4>3. page = PipeOf(k)
        BY <1>5, <1>12, <3>4, <4>2 DEF PipeOf
      <4>. QED BY <2>2, <3>1, <3>3, <3>4, <4>3, OthersKnow
    <3>6. CASE ~(Reading(k) \/ Writing(k))
      BY <2>2, <3>1, <3>3, <3>4, <3>6, OthersKnow
    <3>. QED BY <3>5, <3>6
  <2>. QED BY <2>1, <2>2
<1>. QED BY <1>7, <1>8, <1>9, <1>10, <1>13, <1>14 DEF FileInv

LEMMA PipeAllocGood ==
  ASSUME FileInv, NEW p \in Procs, proc[p].pc = "pipealloc",
         NEW a, a = proc[p].f, NEW b \in Files, ftable[b].ref = 0, NEW i \in Pages, ~pipes[i].page,
         NEW x \in Fds, NEW y \in Fds, x # y, proc[p].ofile[x] = 0, proc[p].ofile[y] = 0,
         NEW re, re = [NoFile EXCEPT !.type = "FD_PIPE", !.ref = 1, !.pipe = i, !.readable = TRUE],
         NEW we, we = [NoFile EXCEPT !.type = "FD_PIPE", !.ref = 1, !.pipe = i, !.writable = TRUE],
         ftable' = [ftable EXCEPT ![a] = re, ![b] = we],
         pipes' = [pipes EXCEPT ![i] = NewPipe],
         NEW m, m = [proc[p] EXCEPT !.ofile[x] = a, !.ofile[y] = b],
         proc' = [proc EXCEPT ![p] = Returned(m, 0)]
  PROVE  FileInv'
<1>1. a \in Files /\ ftable[a].ref = 1
  BY AllocatedIsMine
<1>2. PICK q : q = proc[p] /\ IsProcess(q) /\ q.ofile \in [Fds -> 0..NFILE]
  BY DEF FileInv, ProcsOK
<1>3. a # b
  BY <1>1
<1>4. IsProcess(m) /\ m.ofile = [q.ofile EXCEPT ![x] = a, ![y] = b]
  BY <1>2, FieldsAre DEF IsProcess, Fields
<1>5. PICK n : n = Returned(m, 0)
  OBVIOUS
<1>6. IsProcess(n) /\ n.stack = <<>> /\ n.ofile = [q.ofile EXCEPT ![x] = a, ![y] = b] /\ n.pc \in {"user", "exit"}
  <2>1. IsProcess(m)
    BY <1>4
  <2>2. IsProcess(n) /\ n.stack = <<>> /\ n.ofile = m.ofile /\ n.pc \in {"exit", "user"}
    BY ONLY <1>5, <2>1, ReturnedIs
  <2>. QED BY <1>4, <2>2
<1>7. /\ n.ofile \in [Fds -> 0..NFILE] /\ n.ofile[x] = a /\ n.ofile[y] = b
      /\ \A slot \in Fds \ {x, y} : n.ofile[slot] = q.ofile[slot]
  <2>1. a \in 0..NFILE /\ b \in 0..NFILE /\ n.ofile = [q.ofile EXCEPT ![x] = a, ![y] = b]
    BY <1>1, <1>6 DEF Files
  <2>2. PICK of : of = n.ofile
    OBVIOUS
  <2>3. /\ of \in [Fds -> 0..NFILE] /\ of[x] = a /\ of[y] = b
        /\ \A slot \in Fds \ {x, y} : of[slot] = q.ofile[slot]
    BY <1>2, <2>1, <2>2
  <2>. QED BY <2>2, <2>3
<1>8. /\ DOMAIN ftable' = Files /\ ftable'[a] = re /\ ftable'[b] = we /\ \A g \in Files \ {a, b} : ftable'[g] = ftable[g]
      /\ DOMAIN proc' = Procs /\ proc'[p] = n /\ \A c \in Procs \ {p} : proc'[c] = proc[c]
      /\ DOMAIN pipes' = Pages /\ pipes'[i] = NewPipe /\ \A j \in Pages \ {i} : pipes'[j] = pipes[j]
  BY <1>1, <1>3, <1>5 DEF FileInv, FilesOK, FileOK, ProcsOK, PipesOK, PipeOK, RingOK
<1>9. MadeEnd(re, i, FALSE) /\ MadeEnd(we, i, TRUE)
  BY FileFieldsAre DEF MadeEnd, IsFile, FileFields, NoFile
<1>10. PipeMade(p, a, b, i, n)
  BY <1>8, <1>9 DEF PipeMade
<1>. QED BY <1>1, <1>2, <1>6, <1>7, <1>10, PipeMadeStep

LEMMA PipeAllocStep ==
  ASSUME FileInv, NEW p \in Procs, PipeAlloc(p)
  PROVE  FileInv'
<1>. DEFINE q == proc[p]
            free == {i \in Pages : ~pipes[i].page}
            rest == FreeFds(q) \ {First(FreeFds(q))}
<1>1. q.pc = "pipealloc"
  BY DEF PipeAlloc, At
<1>2. CASE ~(FreeFiles # {} /\ free # {} /\ rest # {})
  <2>1. pipes' = pipes /\ ftable' = [ftable EXCEPT ![q.f] = NoFile] /\ proc' = [proc EXCEPT ![p] = Returned(q, -1)]
    BY <1>2 DEF PipeAlloc, Return
  <2>. QED BY <1>1, <2>1, PipeAllocBad
<1>3. CASE FreeFiles # {} /\ free # {} /\ rest # {}
  <2>1. PICK b \in Files, i \in Pages, x \in Fds, y \in Fds :
          /\ b = First(FreeFiles) /\ ftable[b].ref = 0 /\ i = First(free) /\ ~pipes[i].page
          /\ x = First(FreeFds(q)) /\ q.ofile[x] = 0 /\ y = First(rest) /\ x # y /\ q.ofile[y] = 0
    <3>1. free \in SUBSET Nat /\ rest \in SUBSET Nat /\ FreeFds(q) # {}
      <4>1. free \subseteq Pages /\ rest \subseteq FreeFds(q) /\ FreeFds(q) \subseteq Fds
        BY DEF FreeFds
      <4>2. Pages \subseteq Nat /\ Fds \subseteq Nat
        BY DEF Pages, Fds
      <4>. QED BY <1>3, <4>1, <4>2
    <3>2. First(free) \in free /\ First(rest) \in rest
      BY <1>3, <3>1, FirstIs
    <3>3. rest \subseteq Fds /\ \A slot \in rest : q.ofile[slot] = 0 /\ slot # First(FreeFds(q))
      BY DEF FreeFds
    <3>. QED BY <1>3, <3>1, <3>2, <3>3, FirstFree
  <2>2. PICK re, we, m :
          /\ re = [NoFile EXCEPT !.type = "FD_PIPE", !.ref = 1, !.pipe = i, !.readable = TRUE]
          /\ we = [NoFile EXCEPT !.type = "FD_PIPE", !.ref = 1, !.pipe = i, !.writable = TRUE]
          /\ m = [q EXCEPT !.ofile[x] = q.f, !.ofile[y] = b]
    OBVIOUS
  <2>3. PICK end : /\ end = [NoFile EXCEPT !.type = "FD_PIPE", !.ref = 1, !.pipe = i]
                   /\ re = [end EXCEPT !.readable = TRUE] /\ we = [end EXCEPT !.writable = TRUE]
    BY <2>2
  <2>4. /\ ftable' = [ftable EXCEPT ![q.f] = re, ![b] = we]
        /\ pipes' = [pipes EXCEPT ![i] = NewPipe]
        /\ proc' = [proc EXCEPT ![p] = Returned(m, 0)]
    BY <1>3, <2>1, <2>2, <2>3 DEF PipeAlloc, Return
  <2>. QED BY <1>1, <2>1, <2>2, <2>4, PipeAllocGood
<1>. QED BY <1>2, <1>3

(***************************************************************************)
(* The invariant holds                                                     *)
(***************************************************************************)
LEMMA FileInit ==
  ASSUME Init
  PROVE  FileInv
<1>1. PICK m, q : m = [Unused EXCEPT !.pc = "user", !.cwd = ROOTINO] /\ q = Goto(m, 1)
  OBVIOUS
<1>2. /\ IsProcess(Unused) /\ Unused.pc = "unused" /\ Unused.stack = <<>> /\ Unused.ofile = [slot \in Fds |-> 0]
      /\ IsProcess(m) /\ m.pc = "user" /\ m.stack = <<>> /\ m.ofile = [slot \in Fds |-> 0]
  BY <1>1, FieldsAre DEF IsProcess, Fields, Unused
<1>3. IsProcess(q) /\ q.pc = "user" /\ q.stack = <<>> /\ q.ofile = [slot \in Fds |-> 0]
  <2>1. IsProcess(m)
    BY <1>2
  <2>2. IsProcess(Goto(m, 1)) /\ \A x \in Fields \ {"at", "arg"} : Goto(m, 1)[x] = m[x]
    BY ONLY <2>1, GotoIs
  <2>3. q = Goto(m, 1)
    BY <1>1
  <2>4. {"pc", "stack", "ofile"} \subseteq Fields \ {"at", "arg"}
    BY DEF Fields
  <2>. QED BY <1>2, <2>2, <2>3, <2>4
<1>4. /\ DOMAIN proc = Procs /\ \A p \in Procs : proc[p] \in {q, Unused}
      /\ ftable = [f \in Files |-> NoFile] /\ pipes = [i \in Pages |-> NoPipe]
  BY <1>1 DEF Init
<1>5. [slot \in Fds |-> 0] \in [Fds -> 0..NFILE] /\ 0 \notin Files /\ 0 \in 0..NPROC
  BY FileSysAssumption DEF Files
<1>6. Shape("user", <<>>) /\ Shape("unused", <<>>)
  BY DEF Shape
<1>7. ProcsOK
  BY <1>2, <1>3, <1>4, <1>5, <1>6 DEF ProcsOK
<1>8. FilesOK
  BY <1>4, FileFieldsAre DEF FilesOK, FileOK, IsFile, FileFields, NoFile
<1>9. PipesOK /\ \A i \in Pages : ~pipes[i].readopen /\ ~pipes[i].writeopen /\ ~pipes[i].page
  <2>1. /\ NoPipe.nread = 0 /\ NoPipe.nwrite = 0 /\ NoPipe.page = FALSE /\ NoPipe.readopen = FALSE
        /\ NoPipe.writeopen = FALSE /\ NoPipe.lock = 0
    BY DEF NoPipe
  <2>2. IsPipe(NoPipe)
    BY RingFieldsAre DEF IsPipe, RingFields, NoPipe
  <2>3. 0 \in 0..UINT - 1 /\ PIPESIZE \in Nat
    BY PipeAssumption
  <2>4. Held(NoPipe) = 0
    BY <2>1, <2>3, HeldIs
  <2>5. PipeOK(NoPipe)
    <3>1. NoPipe.lock \in 0..NPROC /\ NoPipe.readopen \in BOOLEAN /\ NoPipe.writeopen \in BOOLEAN
      BY <1>5, <2>1
    <3>2. RingOK(NoPipe)
      BY <2>1, <2>3, <2>4 DEF RingOK
    <3>. QED BY <2>2, <3>1, <3>2 DEF PipeOK
  <2>. QED BY <1>4, <2>1, <2>5 DEF PipesOK
<1>10. FilesCounted
  <2>1. ASSUME NEW f \in Files PROVE FdsOf(f) = {} /\ Allocating(f) = {}
    BY <1>2, <1>3, <1>4, <1>5 DEF FdsOf, Allocating
  <2>2. ASSUME NEW f \in Files PROVE ftable[f].ref = 0
    BY <1>4 DEF NoFile
  <2>. QED BY <2>1, <2>2, FS_EmptySet DEF FilesCounted
<1>11. PipeFreedByLast
  <2>1. ASSUME NEW i \in Pages, NEW w \in BOOLEAN PROVE EndsOf(i, w) = {} /\ Closers(i, w) = {}
    BY <1>2, <1>3, <1>4 DEF EndsOf, Closers, NoFile
  <2>2. ASSUME NEW i \in Pages PROVE pipes[i].page = (pipes[i].readopen \/ pipes[i].writeopen)
    BY <1>4 DEF NoPipe
  <2>3. ASSUME NEW i \in Pages, NEW w \in BOOLEAN PROVE Ends(i, w) = 0
    BY <2>1, FS_EmptySet DEF Ends
  <2>. QED BY <1>9, <2>2, <2>3 DEF PipeFreedByLast
<1>12. ASSUME NEW p \in Procs PROVE Knows(p)
  BY <1>2, <1>3, <1>4 DEF Knows, Opening, Reading, Writing
<1>. QED BY <1>7, <1>8, <1>9, <1>10, <1>11, <1>12 DEF FileInv

\* The steps of process p that touch neither a descriptor nor a pipe.
QuietStep(p) ==
  \/ FsStep(p)
  \/ LinkOld(p) \/ LinkNew(p) \/ LinkExists(p) \/ LinkDone(p) \/ LinkBad(p)
  \/ UnlinkLookup(p) \/ UnlinkEntry(p) \/ UnlinkBad(p) \/ UnlinkInode(p)
  \/ CreateLookup(p) \/ CreateOld(p) \/ CreateNew(p) \/ Created(p)
  \/ OpenInode(p) \/ Read(p) \/ ReadBad(p) \/ WritePiece(p)
  \/ Fstat(p) \/ Chdir(p) \/ ChdirDone(p) \/ Exec(p) \/ ExitCwd(p)
\* Those that take, share or give back a file.
HoldStep(p) == OpenFile(p) \/ OpenSet(p) \/ WriteStart(p) \/ Dup(p) \/ Close(p) \/ Fork(p) \/ ExitClose(p)

LEMMA QuietCalm ==
  ASSUME FileInv, NEW p \in Procs, QuietStep(p)
  PROVE  FilesKept /\ \E n : Calm(proc[p], n) /\ proc' = [proc EXCEPT ![p] = n]
<1>1. CASE LinkOld(p) \/ LinkNew(p) \/ LinkExists(p) \/ LinkDone(p) \/ LinkBad(p)
  <2>1. ftable' = ftable
    BY <1>1 DEF LinkOld, LinkNew, LinkExists, LinkDone, LinkBad
  <2>. QED BY <1>1, <2>1, LinkCalm, FilesAsTheyWere
<1>2. CASE UnlinkLookup(p) \/ UnlinkEntry(p) \/ UnlinkBad(p) \/ UnlinkInode(p)
  <2>1. ftable' = ftable
    BY <1>2 DEF UnlinkLookup, UnlinkEntry, UnlinkBad, UnlinkInode
  <2>. QED BY <1>2, <2>1, UnlinkCalm, FilesAsTheyWere
<1>3. CASE CreateLookup(p) \/ CreateOld(p) \/ CreateNew(p) \/ Created(p)
  <2>1. ftable' = ftable
    BY <1>3 DEF CreateLookup, CreateOld, CreateNew, Created
  <2>. QED BY <1>3, <2>1, CreateCalm, FilesAsTheyWere
<1>4. CASE OpenInode(p) \/ Chdir(p) \/ ChdirDone(p) \/ Exec(p) \/ Fstat(p) \/ ReadBad(p)
  <2>1. ftable' = ftable
    BY <1>4 DEF OpenInode, Chdir, ChdirDone, Exec, Fstat, ReadBad
  <2>. QED BY <1>4, <2>1, LookupCalm, FilesAsTheyWere
<1>5. CASE Read(p) \/ WritePiece(p)
  BY <1>5, ReadCalm, WriteCalm
<1>6. CASE Iput(p) \/ IputFreed(p) \/ IputDrop(p)
  <2>1. ftable' = ftable
    BY <1>6 DEF Iput, IputFreed, IputDrop
  <2>. QED BY <1>6, <2>1, InodeCalm, FilesAsTheyWere
<1>7. CASE NamexStart(p) \/ NamexElement(p)
  <2>1. ftable' = ftable
    BY <1>7 DEF NamexStart, NamexElement
  <2>. QED BY <1>7, <2>1, NamexCalm, FilesAsTheyWere
<1>8. CASE BeginOp(p)
  <2>1. ftable' = ftable
    BY <1>8 DEF BeginOp
  <2>. QED BY <1>8, <2>1, BeginCalm, FilesAsTheyWere
<1>9. CASE EndOp(p)
  <2>1. ftable' = ftable
    BY <1>9 DEF EndOp
  <2>. QED BY <1>9, <2>1, EndCalm, FilesAsTheyWere
<1>10. CASE ExitCwd(p)
  <2>1. ftable' = ftable
    BY <1>10 DEF ExitCwd
  <2>. QED BY <1>10, <2>1, ExitCwdCalm, FilesAsTheyWere
<1>. QED BY <1>1, <1>2, <1>3, <1>4, <1>5, <1>6, <1>7, <1>8, <1>9, <1>10 DEF QuietStep, FsStep

\* The kinds of steps.
LEMMA StepIs ==
  ASSUME [Next]_vars
  PROVE  \/ ftable' = ftable /\ pipes' = pipes /\ proc' = proc
         \/ \E p \in Procs : QuietStep(p) /\ pipes' = pipes
         \/ \E p \in Procs : HoldStep(p) /\ pipes' = pipes
         \/ \E p \in Procs : (ExitDone(p) \/ InitWait(p) \/ Wait(p) \/ Kill(p)) /\ pipes' = pipes
         \/ \E p \in Procs : PipeStep(p)
<1>1. CASE Stop \/ UNCHANGED vars
  BY <1>1 DEF Stop, vars
<1>2. ASSUME NEW p \in Procs, FsStep(p) \/ CallStep(p) \/ ProcStep(p), UNCHANGED <<pipes, test>>
      PROVE  (QuietStep(p) \/ HoldStep(p) \/ ExitDone(p) \/ InitWait(p) \/ Wait(p) \/ Kill(p)) /\ pipes' = pipes
  BY <1>2 DEF CallStep, ProcStep, QuietStep, HoldStep
<1>. QED BY <1>1, <1>2 DEF Next

LEMMA FileNext ==
  ASSUME FileInv, [Next]_vars
  PROVE  FileInv'
<1>1. CASE ftable' = ftable /\ pipes' = pipes /\ proc' = proc
  <2>1. DOMAIN proc' = Procs /\ \A c \in Procs : Kept(proc[c], proc'[c])
    BY <1>1 DEF FileInv, ProcsOK, Kept
  <2>. QED BY <1>1, <2>1, FilesAsTheyWere, CalmStep
<1>2. ASSUME NEW p \in Procs, QuietStep(p), pipes' = pipes PROVE FileInv'
  BY <1>2, QuietCalm, OneCalm
<1>3. ASSUME NEW p \in Procs, HoldStep(p), pipes' = pipes PROVE FileInv'
  BY <1>3, OpenFileStep, OpenSetStep, WriteStartStep, DupStep, CloseStep, ForkStep, ExitCloseStep DEF HoldStep
<1>4. ASSUME NEW p \in Procs, ExitDone(p) \/ InitWait(p) \/ Wait(p) \/ Kill(p), pipes' = pipes PROVE FileInv'
  BY <1>4, ExitDoneStep, WaitStep, KillStep
<1>5. ASSUME NEW p \in Procs, PipeStep(p) PROVE FileInv'
  BY <1>5, PipeFileStep, PipeAllocStep, PipeWriteStep, PipeReadStep, PipeSleepStep, PipeCloseStep DEF PipeStep
<1>. QED BY <1>1, <1>2, <1>3, <1>4, <1>5, StepIs

\* The processes, the open files and the pipes are what the calls of sysfile.c, file.c and pipe.c rely on
\* between any two of their steps, whatever the programs do and whatever the disk holds: the type of a file, its
\* pipe and the flags of the pipe belong together, and a ring never holds more than its page has room for.
THEOREM FileInvariant == Spec => []FileInv
<1>1. Init => FileInv
  BY FileInit
<1>2. FileInv /\ [Next]_vars => FileInv'
  BY FileNext
<1>. QED BY <1>1, <1>2, PTL DEF Spec

\* The reference count of a file structure is always the number of descriptors and allocations that refer to it:
\* filedup, fileclose, sys_dup, fork and exit (file.c, sysfile.c, proc.c) lose and leak none.
THEOREM FileFilesCounted == Spec => []FilesCounted
<1>1. FileInv => FilesCounted
  BY DEF FileInv
<1>. QED BY <1>1, FileInvariant, PTL

\* Each open flag of a pipe stands for exactly one file structure or one process in pipeclose, and the page of
\* a pipe is given back exactly with the last of them (pipe.c).
THEOREM FilePipeFreedByLast == Spec => []PipeFreedByLast
<1>1. FileInv => PipeFreedByLast
  BY DEF FileInv
<1>. QED BY <1>1, FileInvariant, PTL

(***************************************************************************)
(* Nobody sleeps on a pipe that has what he waits for                      *)
(***************************************************************************)
\* A write that stops because its process was killed has put all cells into the ring, or none.  The code does
\* not see to that: pipewrite() returns without wakeup() when a killed process finds the ring full (pipe.c:86-88).
HalfWrite(p) ==
  LET q == proc[p]
      left == SubSeq(Arg(p).data, q.k + 1, Len(Arg(p).data))
  IN q.pc = "pipewrite" /\ q.killed /\ PutAll(PipeOf(q), left).k \notin {0, Len(left)}
NoHalfWrites == \A p \in Procs : ~HalfWrite(p)

ReadersOK == \A c \in Procs : proc[c].pc = "read_asleep" => Empty(PipeOf(proc[c]))

\* The file of a sleeping reader is the reading end of a pipe that is open.
LEMMA ReaderEnd ==
  ASSUME FileInv, NEW c \in Procs, Reading(proc[c])
  PROVE  LET f == proc[c].f
             i == ftable[f].pipe
         IN f \in Files /\ ftable[f].type = "FD_PIPE" /\ i \in Pages /\ f \in EndsOf(i, FALSE)
            /\ pipes[i].readopen /\ pipes[i].page
<1>1. PICK f \in Files, i \in Pages : f = proc[c].f /\ i = ftable[f].pipe /\ ftable[f].type = "FD_PIPE"
                                      /\ ftable[f].writable = FALSE
  BY DEF FileInv, Knows, PipeEnd, FilesOK, FileOK
<1>2. f \in EndsOf(i, FALSE)
  BY <1>1 DEF EndsOf
<1>3. OpenEnd(pipes[i], FALSE)
  BY <1>2, EndsAre
<1>4. pipes[i].readopen /\ pipes[i].page
  BY <1>3 DEF OpenEnd, FileInv, PipeFreedByLast
<1>. QED BY <1>1, <1>2, <1>4

\* A file never moves from one pipe to another.
LEMMA PipeStays ==
  ASSUME FileInv, [Next]_vars, NEW f \in Files, ftable[f].type = "FD_PIPE", ftable'[f].type = "FD_PIPE"
  PROVE  ftable'[f].pipe = ftable[f].pipe
<1>1. CASE ftable' = ftable
  BY <1>1
<1>2. CASE FilesKept
  BY <1>2 DEF FilesKept, FileFields
<1>3. ASSUME NEW g, NEW ref, ftable' = [ftable EXCEPT ![g].ref = ref] PROVE ftable'[f].pipe = ftable[f].pipe
  <2>1. IsFile(ftable[f]) /\ DOMAIN ftable = Files
    BY DEF FileInv, FilesOK, FileOK
  <2>2. ftable'[f] = ftable[f] \/ ftable'[f] = [ftable[f] EXCEPT !.ref = ref]
    BY <1>3, <2>1
  <2>. QED BY <2>1, <2>2, FileFieldsAre DEF IsFile, FileFields
<1>4. ASSUME NEW p \in Procs, HoldStep(p) PROVE ftable'[f].pipe = ftable[f].pipe
  <2>1. CASE OpenFile(p) \/ Dup(p)
    <3>1. ftable' = ftable \/ \E g, ref : ftable' = [ftable EXCEPT ![g].ref = ref]
      BY <2>1 DEF OpenFile, Dup
    <3>. QED BY <1>1, <1>3, <3>1
  <2>2. CASE OpenSet(p)
    <3>1. proc[p].pc = "open3"
      BY <2>2 DEF OpenSet, At
    <3>2. proc[p].f # f
      BY <3>1 DEF FileInv, Knows, Opening, Fresh
    <3>3. ftable'[f] = ftable[f]
      BY <2>2, <3>2 DEF OpenSet, FileInv, FilesOK, FileOK
    <3>. QED BY <3>3
  <2>3. CASE WriteStart(p)
    BY <1>1, <2>3 DEF WriteStart
  <2>4. CASE Close(p) \/ ExitClose(p)
    <3>1. ftable' = ftable \/ \E g : fileclose(g)
      BY <2>4 DEF Close, ExitClose
    <3>2. ASSUME NEW g, fileclose(g) PROVE ftable'[f].pipe = ftable[f].pipe
      <4>1. IsFile(ftable[f]) /\ DOMAIN ftable = Files
        BY DEF FileInv, FilesOK, FileOK
      <4>2. ftable'[f] \in {ftable[f], [ftable[f] EXCEPT !.ref = ftable[f].ref - 1], NoFile}
        BY <3>2, <4>1 DEF fileclose, Unreferenced
      <4>3. NoFile.type = "FD_NONE"
        BY DEF NoFile
      <4>. QED BY <4>1, <4>2, <4>3, FileFieldsAre DEF IsFile, FileFields
    <3>. QED BY <1>1, <3>1, <3>2
  <2>5. CASE Fork(p)
    <3>1. CASE ftable' = filedup(proc[p])
      <4>1. PICK more : ftable'[f] = [ftable[f] EXCEPT !.ref = @ + more]
        BY <3>1 DEF filedup
      <4>2. IsFile(ftable[f])
        BY DEF FileInv, FilesOK, FileOK
      <4>. QED BY <4>1, <4>2, FileFieldsAre DEF IsFile, FileFields
    <3>. QED BY <1>1, <2>5, <3>1 DEF Fork
  <2>. QED BY <1>4, <2>1, <2>2, <2>3, <2>4, <2>5 DEF HoldStep
<1>5. ASSUME NEW p \in Procs, PipeStep(p) PROVE ftable'[f].pipe = ftable[f].pipe
  <2>1. CASE PipeFile(p)
    <3>1. ftable' = ftable \/ \E g, ref : ftable' = [ftable EXCEPT ![g].ref = ref]
      BY <2>1 DEF PipeFile
    <3>. QED BY <1>1, <1>3, <3>1
  <2>2. CASE PipeAlloc(p)
    <3>1. proc[p].pc = "pipealloc"
      BY <2>2 DEF PipeAlloc, At
    <3>2. ftable[proc[p].f].type = "FD_NONE"
      BY <3>1 DEF FileInv, Knows, Fresh
    <3>3. FreeFiles # {} => ftable[First(FreeFiles)].type = "FD_NONE"
      BY FirstFree DEF FileInv, FilesOK, FileOK
    <3>4. \/ \E e : ftable' = [ftable EXCEPT ![proc[p].f] = e]
          \/ FreeFiles # {} /\ \E d, e : ftable' = [ftable EXCEPT ![proc[p].f] = d, ![First(FreeFiles)] = e]
      BY <2>2 DEF PipeAlloc
    <3>5. ftable'[f] = ftable[f]
      BY <3>2, <3>3, <3>4 DEF FileInv, FilesOK, FileOK
    <3>. QED BY <3>5
  <2>3. CASE PipeWrite(p) \/ PipeRead(p) \/ PipeSleep(p) \/ PipeClose(p)
    BY <1>1, <2>3 DEF PipeWrite, PipeRead, PipeSleep, PipeClose
  <2>. QED BY <1>5, <2>1, <2>2, <2>3 DEF PipeStep
<1>6. ASSUME NEW p \in Procs, QuietStep(p) PROVE FilesKept
  BY <1>6, QuietCalm
<1>7. ASSUME NEW p \in Procs, ExitDone(p) \/ InitWait(p) \/ Wait(p) \/ Kill(p) PROVE ftable' = ftable
  BY <1>7 DEF ExitDone, InitWait, Wait, Kill
<1>. QED BY <1>1, <1>2, <1>4, <1>5, <1>6, <1>7, StepIs

\* A call that returns leaves the process awake.
LEMMA ReturnedAwake ==
  ASSUME NEW q, NEW r
  PROVE  Returned(q, r).pc \in {"exit", "user"}
<1>. DEFINE pc == IF q.killed THEN "exit" ELSE "user"
            last == IF q.arg.call = "open" THEN r ELSE q.last
            n == Ended(pc, q.killed, q.fork, q.parent, q.cwd, q.ofile, last)
<1>1. Returned(q, r) = Goto(n, q.at + 1) /\ pc \in {"exit", "user"}
  BY DEF Returned, Ended
<1>. HIDE DEF pc, last
<1>2. IsProcess(n) /\ n.pc = pc
  BY EndedIs
<1>. HIDE DEF n
<1>3. Goto(n, q.at + 1).pc = n.pc
  <2>1. \A x \in Fields \ {"at", "arg"} : Goto(n, q.at + 1)[x] = n[x]
    <3>1. IsProcess(n)
      BY <1>2
    <3>. QED BY ONLY <3>1, GotoIs
  <2>. QED BY <2>1 DEF Fields
<1>. QED BY <1>1, <1>2, <1>3

\* A process falls asleep in sleep(), and nowhere else.
LEMMA AsleepIs ==
  ASSUME FileInv, [Next]_vars, NEW c \in Procs, proc'[c].pc = "read_asleep"
  PROVE  /\ proc'[c].f = proc[c].f
         /\ proc[c].pc = "read_asleep" \/ (proc[c].pc = "read_sleep" /\ PipeSleep(c))
<1>. DEFINE Still == proc'[c].f = proc[c].f /\ proc[c].pc = "read_asleep"
<1>1. DOMAIN proc = Procs /\ \A p \in Procs : IsProcess(proc[p])
  BY DEF FileInv, ProcsOK
<1>2. ASSUME NEW p \in Procs, NEW n, n.pc # "read_asleep", proc' = [proc EXCEPT ![p] = n] PROVE Still
  BY <1>1, <1>2
<1>3. ASSUME Kept(proc[c], proc'[c]) PROVE Still
  BY <1>3, KeptOthers
<1>4. ASSUME NEW p \in Procs, QuietStep(p) PROVE Still
  <2>1. PICK n : Calm(proc[p], n) /\ proc' = [proc EXCEPT ![p] = n]
    BY <1>4, QuietCalm
  <2>2. n.pc # "read_asleep"
    BY <2>1 DEF Calm, Away, PipeLabels
  <2>. QED BY <1>2, <2>1, <2>2
<1>5. ASSUME NEW p \in Procs, NEW q, NEW r, Return(p, q, r) PROVE Still
  <2>1. PICK n : n = Returned(q, r)
    OBVIOUS
  <2>2. n.pc # "read_asleep" /\ proc' = [proc EXCEPT ![p] = n]
    BY <1>5, <2>1, ReturnedAwake DEF Return
  <2>. QED BY <1>2, <2>2
<1>6. ASSUME NEW p \in Procs, NEW f, NEW m, IsProcess(m), proc' = [proc EXCEPT ![p] = DropFile(m, f)] PROVE Still
  <2>1. PICK n : n = DropFile(m, f)
    OBVIOUS
  <2>2. n.pc \in {"pipeclose", "begin"}
    BY <1>6, <2>1, DropFileIs
  <2>. QED BY <1>2, <1>6, <2>1, <2>2
<1>7. ASSUME NEW p \in Procs, HoldStep(p) PROVE Still
  <2>1. CASE OpenFile(p)
    <3>1. PICK slot, f, n :
            /\ n \in {[Push(proc[p], <<"open3">>) EXCEPT !.pc = "end", !.ofile[slot] = f, !.f = f, !.r = slot],
                      FailPut(proc[p], proc[p].ip)}
            /\ proc' = [proc EXCEPT ![p] = n]
      BY <2>1 DEF OpenFile
    <3>2. n.pc \in {"end", "iput"}
      BY <1>1, <3>1, FieldsAre DEF IsProcess, Fields, Push, FailPut, PutInode
    <3>. QED BY <1>2, <3>1, <3>2
  <2>2. CASE OpenSet(p) \/ Dup(p)
    <3>1. \E q, r : Return(p, q, r)
      BY <2>2 DEF OpenSet, Dup
    <3>. QED BY <1>5, <3>1
  <2>3. CASE WriteStart(p)
    <3>1. (\E q, r : Return(p, q, r))
          \/ \E f, n : /\ n \in {[proc[p] EXCEPT !.pc = "pipewrite", !.f = f],
                                 [Push(proc[p], <<"write">>) EXCEPT !.pc = "begin", !.f = f]}
                       /\ proc' = [proc EXCEPT ![p] = n]
      BY <2>3 DEF WriteStart
    <3>2. ASSUME NEW f, NEW n, proc' = [proc EXCEPT ![p] = n],
                 n \in {[proc[p] EXCEPT !.pc = "pipewrite", !.f = f],
                        [Push(proc[p], <<"write">>) EXCEPT !.pc = "begin", !.f = f]}
          PROVE  Still
      <4>1. n.pc \in {"pipewrite", "begin"}
        BY <1>1, <3>2, FieldsAre DEF IsProcess, Fields, Push
      <4>. QED BY <1>2, <3>2, <4>1
    <3>. QED BY <1>5, <3>1, <3>2
  <2>4. CASE Close(p)
    <3>1. PICK f, q : /\ \E fd : q \in {proc[p], [proc[p] EXCEPT !.ofile[fd] = 0]}
                      /\ (\E s, r : Return(p, s, r)) \/ proc' = [proc EXCEPT ![p] = DropFile(q, f)]
      BY <2>4 DEF Close
    <3>2. IsProcess(q)
      BY <1>1, <3>1, FieldsAre DEF IsProcess, Fields
    <3>. QED BY <1>5, <1>6, <3>1, <3>2
  <2>5. CASE Fork(p)
    <3>1. (\E q, r : Return(p, q, r))
          \/ \E d, child : /\ child.pc = "user" /\ IsProcess(child)
                           /\ proc' = [proc EXCEPT ![p] = Returned(proc[p], d), ![d] = Goto(child, 1)]
      <4>1. PICK d, child : /\ child = Child("user", Append(proc[p].fork, proc[p].at), p, proc[p].cwd, proc[p].ofile,
                                            proc[p].last)
                            /\ (\E q, r : Return(p, q, r))
                               \/ proc' = [proc EXCEPT ![p] = Returned(proc[p], d), ![d] = Goto(child, 1)]
        BY <2>5 DEF Fork, Child
      <4>2. child.pc = "user" /\ IsProcess(child)
        BY <4>1, ChildIs
      <4>. QED BY <4>1, <4>2
    <3>2. ASSUME NEW d, NEW child, child.pc = "user", IsProcess(child),
                 proc' = [proc EXCEPT ![p] = Returned(proc[p], d), ![d] = Goto(child, 1)]
          PROVE  Still
      <4>1. PICK a, b : a = Returned(proc[p], d) /\ b = Goto(child, 1) /\ proc' = [proc EXCEPT ![p] = a, ![d] = b]
        BY <3>2
      <4>2. a.pc # "read_asleep" /\ b.pc # "read_asleep"
        BY <3>2, <4>1, ReturnedAwake, GotoIs DEF Fields
      <4>. QED BY <1>1, <4>1, <4>2
    <3>. QED BY <1>5, <3>1, <3>2
  <2>6. CASE ExitClose(p)
    <3>1. PICK f, slot, q, n : /\ q = [proc[p] EXCEPT !.ofile[slot] = 0] /\ proc' = [proc EXCEPT ![p] = n]
                               /\ n = Jump(q, "exit") \/ n = DropFile(Push(q, <<"exit">>), f)
      BY <2>6 DEF ExitClose
    <3>2. IsProcess(q) /\ IsProcess(Push(q, <<"exit">>))
      BY <1>1, <3>1, FieldsAre DEF IsProcess, Fields, Push
    <3>3. Jump(q, "exit").pc = "exit"
      BY <3>2, JumpIs
    <3>. QED BY <1>2, <1>6, <3>1, <3>2, <3>3
  <2>. QED BY <1>7, <2>1, <2>2, <2>3, <2>4, <2>5, <2>6 DEF HoldStep
<1>8. ASSUME NEW p \in Procs, ExitDone(p) \/ InitWait(p) \/ Wait(p) \/ Kill(p) PROVE Still
  <2>1. CASE ExitDone(p)
    <3>1. proc'[c] \in {Jump(proc[c], "zombie"), [proc[c] EXCEPT !.parent = 0], proc[c]}
      BY <2>1 DEF ExitDone
    <3>. QED BY <1>1, <3>1, FieldsAre DEF IsProcess, Fields, Jump
  <2>2. CASE InitWait(p)
    <3>1. proc' = [proc EXCEPT ![p] = Unused] /\ Unused.pc = "unused"
      BY <2>2 DEF InitWait, Unused
    <3>. QED BY <1>2, <3>1
  <2>3. CASE Wait(p)
    <3>1. (\E q, r : Return(p, q, r))
          \/ \E d \in Procs : proc' = [proc EXCEPT ![p] = Returned(proc[p], d), ![d] = Unused]
      BY <2>3 DEF Wait, Children
    <3>2. ASSUME NEW d \in Procs, proc' = [proc EXCEPT ![p] = Returned(proc[p], d), ![d] = Unused] PROVE Still
      <4>1. PICK a, b : a = Returned(proc[p], d) /\ b = Unused /\ proc' = [proc EXCEPT ![p] = a, ![d] = b]
        BY <3>2
      <4>2. a.pc # "read_asleep" /\ b.pc # "read_asleep"
        BY <4>1, ReturnedAwake DEF Unused
      <4>. QED BY <1>1, <4>1, <4>2
    <3>. QED BY <1>5, <3>1, <3>2
  <2>4. CASE Kill(p)
    <3>1. CASE c = p
      <4>1. PICK r, n : n = Returned(proc[p], r) /\ proc'[c] = n
        BY <2>4, <3>1 DEF Kill
      <4>. QED BY <4>1, ReturnedAwake
    <3>2. CASE c # p
      <4>1. Kept(proc[c], proc'[c])
        BY <2>4, <3>2, KillKeeps
      <4>. QED BY <1>3, <4>1
    <3>. QED BY <3>1, <3>2
  <2>. QED BY <1>8, <2>1, <2>2, <2>3, <2>4
<1>9. ASSUME NEW p \in Procs, NEW i, NEW n, NEW label \in {"read_asleep", "write_asleep"},
             n.pc \notin {"read_asleep", "write_asleep"}, proc' = Woken([proc EXCEPT ![p] = n], i, label)
      PROVE  Still
  <2>1. proc'[p] = n /\ \A d \in Procs \ {p} : Kept(proc[d], proc'[d])
    <3>1. Awakens(p, n, i, label) /\ n.pc # label
      BY <1>9 DEF Awakens
    <3>2. Awake(p, n, i, label)
      BY <3>1, WokenIs
    <3>. QED BY <3>2 DEF Awake
  <2>. QED BY <1>3, <1>9, <2>1
<1>10. ASSUME NEW p \in Procs, PipeStep(p) PROVE Still \/ (proc'[c].f = proc[c].f /\ proc[c].pc = "read_sleep" /\ PipeSleep(c))
  <2>1. CASE PipeFile(p)
    <3>1. (\E q, r : Return(p, q, r)) \/ \E f : proc' = [proc EXCEPT ![p] = [Jump(@, "pipealloc") EXCEPT !.f = f]]
      BY <2>1 DEF PipeFile
    <3>2. ASSUME NEW f, proc' = [proc EXCEPT ![p] = [Jump(@, "pipealloc") EXCEPT !.f = f]] PROVE Still
      <4>1. PICK n : n = [Jump(proc[p], "pipealloc") EXCEPT !.f = f]
        OBVIOUS
      <4>2. n.pc = "pipealloc" /\ proc' = [proc EXCEPT ![p] = n]
        BY <1>1, <3>2, <4>1, FieldsAre DEF IsProcess, Fields, Jump
      <4>. QED BY <1>2, <4>2
    <3>. QED BY <1>5, <3>1, <3>2
  <2>2. CASE PipeAlloc(p)
    <3>1. \E q, r : Return(p, q, r)
      BY <2>2 DEF PipeAlloc
    <3>. QED BY <1>5, <3>1
  <2>3. CASE PipeWrite(p)
    <3>1. PICK q \in {proc[p]}, i \in {ftable[proc[p].f].pipe} : q = proc[p] /\ i = ftable[q.f].pipe
      OBVIOUS
    <3>2. PICK data, left, w : data = Arg(p).data /\ left = SubSeq(data, q.k + 1, Len(data)) /\ w = PutAll(pipes[i], left)
      OBVIOUS
    <3>3. IsProcess(q)
      BY <1>1, <3>1
    <3>4. CASE w.k = Len(left)
      <4>1. PICK n : n = Returned(q, Len(data))
        OBVIOUS
      <4>2. proc' = Woken([proc EXCEPT ![p] = n], i, "read_asleep")
        BY <2>3, <3>1, <3>2, <3>4, <4>1 DEF PipeWrite
      <4>3. n.pc \in {"exit", "user"}
        BY <4>1, ReturnedAwake
      <4>. QED BY <1>9, <4>2, <4>3
    <3>5. CASE w.k # Len(left) /\ (~pipes[i].readopen \/ q.killed)
      <4>1. Return(p, q, -1)
        BY <2>3, <3>1, <3>2, <3>5 DEF PipeWrite
      <4>. QED BY <1>5, <4>1
    <3>6. CASE w.k # Len(left) /\ ~(~pipes[i].readopen \/ q.killed)
      <4>1. PICK k, j, n : k = q.k + w.k /\ j = Jump(q, "write_sleep") /\ n = [j EXCEPT !.k = k]
        OBVIOUS
      <4>2. IsProcess(j) /\ j.pc = "write_sleep" /\ j.k = q.k
        BY <3>3, <4>1, JumpIs DEF Fields
      <4>3. n.pc = "write_sleep"
        BY <4>1, <4>2, FieldsAre DEF IsProcess, Fields
      <4>4. proc' = Woken([proc EXCEPT ![p] = n], i, "read_asleep")
        BY <2>3, <3>1, <3>2, <3>6, <4>1, <4>2 DEF PipeWrite
      <4>. QED BY <1>9, <4>3, <4>4
    <3>. QED BY <3>4, <3>5, <3>6
  <2>4. CASE PipeRead(p)
    <3>1. PICK cells, n : n = Delivered(p, cells)
                          /\ \/ \E q, r : Return(p, q, r)
                             \/ \E f : proc' = [proc EXCEPT ![p] = [Jump(proc[p], "read_sleep") EXCEPT !.f = f]]
                             \/ \E i : proc' = Woken([proc EXCEPT ![p] = n], i, "write_asleep")
      BY <2>4 DEF PipeRead
    <3>2. n.pc \in {"exit", "user"}
      BY <1>1, <3>1, DeliveredAs
    <3>3. ASSUME NEW f, proc' = [proc EXCEPT ![p] = [Jump(proc[p], "read_sleep") EXCEPT !.f = f]] PROVE Still
      <4>1. PICK m : m = [Jump(proc[p], "read_sleep") EXCEPT !.f = f]
        OBVIOUS
      <4>2. m.pc = "read_sleep" /\ proc' = [proc EXCEPT ![p] = m]
        BY <1>1, <3>3, <4>1, FieldsAre DEF IsProcess, Fields, Jump
      <4>. QED BY <1>2, <4>2
    <3>4. ASSUME NEW i, proc' = Woken([proc EXCEPT ![p] = n], i, "write_asleep") PROVE Still
      BY <1>9, <3>2, <3>4
    <3>. QED BY <1>5, <3>1, <3>3, <3>4
  <2>5. CASE PipeSleep(p)
    <3>1. CASE proc[p].pc = "write_sleep"
      <4>1. PICK n : n = Jump(proc[p], "write_asleep")
        OBVIOUS
      <4>2. n.pc = "write_asleep" /\ proc' = [proc EXCEPT ![p] = n]
        BY <1>1, <2>5, <3>1, <4>1, JumpIs DEF PipeSleep, At
      <4>. QED BY <1>2, <4>2
    <3>2. CASE proc[p].pc = "read_sleep"
      <4>1. PICK n : n = Jump(proc[p], "read_asleep")
        OBVIOUS
      <4>2. n.f = proc[p].f
        BY <1>1, <4>1, JumpIs DEF Fields
      <4>3. proc' = [proc EXCEPT ![p] = n]
        BY <2>5, <3>2, <4>1 DEF PipeSleep, At
      <4>. QED BY <1>1, <2>5, <3>2, <4>2, <4>3
    <3>. QED BY <2>5, <3>1, <3>2 DEF PipeSleep, At
  <2>6. CASE PipeClose(p)
    <3>1. PICK q \in {proc[p]}, i \in Pages, w \in BOOLEAN :
            q = proc[p] /\ q.pc = "pipeclose" /\ i = q.v /\ w = q.par
      BY <2>6 DEF PipeClose, At, FileInv, Knows
    <3>7. PICK n, label : /\ n = IF q.stack = <<>> THEN Returned(q, q.r) ELSE Pop(q)
                          /\ label = IF w THEN "read_asleep" ELSE "write_asleep"
      OBVIOUS
    <3>8. proc' = Woken([proc EXCEPT ![p] = n], i, label)
      BY <2>6, <3>1, <3>7 DEF PipeClose
    <3>2. IsProcess(q) /\ Shape(q.pc, q.stack)
      BY <3>1 DEF FileInv, ProcsOK
    <3>3. q.stack \in {<<>>, <<"exit">>}
      BY <3>1, <3>2 DEF Shape, Bodies, PipeLabels, Iputs
    <3>4. q.stack # <<>> => Head(q.stack) = "exit"
      BY <3>3
    <3>5. Returned(q, q.r).pc \in {"exit", "user"}
      BY ReturnedAwake
    <3>6. n.pc \in {"exit", "user"}
      BY <3>2, <3>4, <3>5, <3>7, FieldsAre DEF IsProcess, Fields, Pop
    <3>9. label \in {"read_asleep", "write_asleep"}
      BY <3>7
    <3>. QED BY <1>9, <3>6, <3>8, <3>9
  <2>. QED BY <1>10, <2>1, <2>2, <2>3, <2>4, <2>5, <2>6 DEF PipeStep
<1>11. proc' = proc => Still
  OBVIOUS
<1>. QED BY <1>4, <1>7, <1>8, <1>10, <1>11, StepIs

\* The pipe of a reader that stays asleep, or falls asleep, is as empty as it was.
LEMMA ReadersStay ==
  ASSUME FileInv, ReadersOK, NoHalfWrites, [Next]_vars
  PROVE  ReadersOK'
<1>. SUFFICES ASSUME NEW c \in Procs, proc'[c].pc = "read_asleep" PROVE Empty(PipeOf(proc[c]))'
  BY DEF ReadersOK
<1>1. PICK q \in {proc[c]}, f \in {proc[c].f}, i \in Pages :
        /\ q = proc[c] /\ f = q.f /\ i = ftable[f].pipe /\ proc'[c].f = f
        /\ q.pc \in {"read_asleep", "read_sleep"} /\ f \in Files /\ ftable[f].type = "FD_PIPE"
        /\ f \in EndsOf(i, FALSE) /\ pipes[i].readopen /\ pipes[i].page
  <2>1. proc'[c].f = proc[c].f /\ proc[c].pc \in {"read_asleep", "read_sleep"} /\ Reading(proc[c])
    BY AsleepIs DEF Reading
  <2>. QED BY <2>1, ReaderEnd
<1>2. Empty(pipes[i])
  BY <1>1 DEF ReadersOK, PipeOf, FileInv, Knows
<1>3. pipes'[ftable'[f].pipe] = pipes'[i]
  <2>1. Reading(proc'[c])
    BY DEF Reading
  <2>2. FileInv'
    BY FileNext
  <2>3. ftable'[f].type = "FD_PIPE"
    <3>1. Knows(c)'
      BY <2>2 DEF FileInv
    <3>2. PipeEnd(proc[c].f, FALSE)'
      BY <2>1, <3>1 DEF Knows
    <3>. QED BY <1>1, <3>2 DEF PipeEnd
  <2>. QED BY <1>1, <2>3, PipeStays
<1>. SUFFICES Empty(pipes'[i])
  BY <1>1, <1>3 DEF PipeOf, Empty
<1>4. DOMAIN pipes = Pages /\ IsPipe(pipes[i]) /\ RingOK(pipes[i])
  BY RingIs DEF FileInv, PipesOK, PipeOK, RingOK
<1>5. CASE pipes'[i] = pipes[i]
  BY <1>2, <1>5
<1>6. ASSUME NEW pi, Empty(pi), IsPipe(pi), RingOK(pi), NEW lock, NEW j, pipes' = [pipes EXCEPT ![j] = [pi EXCEPT !.lock = lock]]
      PROVE  Empty(pipes'[i])
  <2>1. PICK n : n = [pi EXCEPT !.lock = lock] /\ pipes' = [pipes EXCEPT ![j] = n] /\ Empty(n)
    BY <1>6, LockIs
  <2>. QED BY <1>2, <1>4, <2>1
<1>7. ASSUME NEW p \in Procs, PipeAlloc(p) PROVE pipes'[i] = pipes[i]
  <2>1. PICK free, j : /\ free = {k \in Pages : ~pipes[k].page} /\ j = First(free)
                       /\ pipes' = pipes \/ (free # {} /\ pipes' = [pipes EXCEPT ![j] = NewPipe])
    BY <1>7 DEF PipeAlloc
  <2>2. free # {} => j # i
    BY <1>1, <2>1, FirstIs DEF Pages
  <2>. QED BY <1>4, <2>1, <2>2
<1>8. ASSUME NEW p \in Procs, PipeWrite(p) PROVE Empty(pipes'[i])
  <2>1. PICK n, j, left, w : /\ n = proc[p] /\ j = ftable[n.f].pipe /\ left = SubSeq(Arg(p).data, n.k + 1, Len(Arg(p).data))
                             /\ w = PutAll(pipes[j], left) /\ n.pc = "pipewrite"
    BY <1>8 DEF PipeWrite, At
  <2>2. CASE j # i
    <3>1. \E pi : pipes' = [pipes EXCEPT ![j] = pi]
      BY <1>8, <2>1 DEF PipeWrite
    <3>. QED BY <1>2, <1>4, <2>2, <3>1
  <2>3. CASE j = i /\ w.k # Len(left) /\ n.killed /\ pipes' = [pipes EXCEPT ![j] = w.pi]
    <3>1. w.k = 0
      BY <2>1, <2>3 DEF NoHalfWrites, HalfWrite, PipeOf
    <3>2. Empty(w.pi)
      BY <1>2, <1>4, <2>1, <2>3, <3>1, PutIs
    <3>. QED BY <1>4, <2>3, <3>2
  <2>4. ASSUME NEW m, m.pc # "read_asleep", proc' = Woken([proc EXCEPT ![p] = m], i, "read_asleep")
        PROVE  Empty(pipes'[i])
    <3>1. PICK procs : procs = [proc EXCEPT ![p] = m]
      OBVIOUS
    <3>2. proc' = Woken(procs, i, "read_asleep")
      BY <2>4, <3>1
    <3>3. m.pc # "read_asleep"
      BY <2>4
    <3>4. \A d \in Procs : proc'[d].pc = "read_asleep" => d # p /\ ftable[proc[d].f].pipe # i
      BY ONLY FileInv, p \in Procs, <3>1, <3>2, <3>3, ReadersWoken
    <3>. QED BY <1>1, <3>4
  <2>5. CASE j = i /\ w.k = Len(left)
    <3>1. PICK m : m = Returned(n, Len(Arg(p).data)) /\ m.pc \in {"exit", "user"}
      BY ReturnedAwake
    <3>2. proc' = Woken([proc EXCEPT ![p] = m], i, "read_asleep")
      BY <1>8, <2>1, <2>5, <3>1 DEF PipeWrite
    <3>3. m.pc # "read_asleep"
      BY <3>1
    <3>. QED BY <2>4, <3>2, <3>3
  <2>6. CASE j = i /\ w.k # Len(left) /\ ~n.killed
    <3>1. PICK m : m = [Jump(n, "write_sleep") EXCEPT !.k = @ + w.k]
      OBVIOUS
    <3>2. IsProcess(n)
      BY <2>1 DEF FileInv, ProcsOK
    <3>3. m.pc = "write_sleep"
      BY <3>1, <3>2, FieldsAre DEF IsProcess, Fields, Jump
    <3>4. proc' = Woken([proc EXCEPT ![p] = m], i, "read_asleep")
      <4>1. ~(~pipes[j].readopen \/ n.killed)
        BY <1>1, <2>6
      <4>2. proc' = Woken([proc EXCEPT ![p] = [Jump(n, "write_sleep") EXCEPT !.k = @ + w.k]], j, "read_asleep")
        BY ONLY PipeWrite(p), <2>1, <2>6, <4>1 DEF PipeWrite
      <4>. QED BY ONLY <2>6, <3>1, <4>2
    <3>5. m.pc # "read_asleep"
      BY <3>3
    <3>. QED BY <2>4, <3>4, <3>5
  <2>7. CASE j = i /\ w.k # Len(left) /\ n.killed
    <3>1. pipes' = [pipes EXCEPT ![j] = w.pi]
      BY <1>8, <2>1, <2>7 DEF PipeWrite
    <3>. QED BY <2>3, <2>7, <3>1
  <2>. QED BY <2>2, <2>5, <2>6, <2>7
<1>9. ASSUME NEW p \in Procs, PipeRead(p) PROVE Empty(pipes'[i])
  <2>1. PICK g, j, w : g = argfd(p) /\ j = ftable[g].pipe /\ w = TakeUpTo(pipes[j], Arg(p).n)
    OBVIOUS
  <2>2. CASE j # i
    <3>1. pipes' = pipes \/ \E pi : pipes' = [pipes EXCEPT ![j] = pi]
      BY <1>9, <2>1 DEF PipeRead
    <3>. QED BY <1>2, <1>4, <2>2, <3>1
  <2>3. CASE j = i
    <3>1. pipes[i].writeopen
      BY <1>1 DEF FileInv, Knows, PipeOf
    <3>2. pipes' = pipes \/ pipes' = [pipes EXCEPT ![i] = [@ EXCEPT !.lock = p]]
      BY <1>2, <1>9, <2>1, <2>3, <3>1 DEF PipeRead
    <3>3. pipes' = pipes \/ pipes' = [pipes EXCEPT ![i] = [pipes[i] EXCEPT !.lock = p]]
      BY <1>4, <3>2
    <3>. QED BY <1>2, <1>4, <1>5, <1>6, <3>3
  <2>. QED BY <2>2, <2>3
<1>10. ASSUME NEW p \in Procs, PipeSleep(p) PROVE Empty(pipes'[i])
  <2>1. PICK j : j = ftable[proc[p].f].pipe /\ pipes' = [pipes EXCEPT ![j] = [pipes[j] EXCEPT !.lock = 0]]
    BY <1>4, <1>10 DEF PipeSleep
  <2>2. CASE j = i
    BY <1>2, <1>4, <1>6, <2>1, <2>2
  <2>3. CASE j # i
    BY <1>2, <1>4, <2>1, <2>3
  <2>. QED BY <2>2, <2>3
<1>11. ASSUME NEW p \in Procs, PipeClose(p) PROVE Empty(pipes'[i])
  <2>1. PICK j \in Pages, w \in BOOLEAN : j = proc[p].v /\ w = proc[p].par /\ proc[p].pc = "pipeclose"
    BY <1>11 DEF PipeClose, At, FileInv, Knows
  <2>2. p \in Closers(j, w) /\ pipes' = [pipes EXCEPT ![j] = Closed(@, w)]
    BY <1>11, <2>1 DEF PipeClose, Closers
  <2>3. CASE j # i
    BY <1>2, <1>4, <2>2, <2>3
  <2>4. CASE j = i /\ ~w
    <3>1. EndsOf(j, w) = {}
      BY <2>2, EndsAre
    <3>. QED BY <1>1, <2>4, <3>1
  <2>5. CASE j = i /\ w
    <3>1. OpenEnd(pipes[i], TRUE) /\ pipes[i].readopen /\ pipes[i].writeopen
      BY <1>1, <2>2, <2>5, EndsAre DEF OpenEnd
    <3>2. PICK d : d = [pipes[i] EXCEPT !.writeopen = FALSE, !.readopen = TRUE]
      OBVIOUS
    <3>3. d.readopen /\ d.nread = pipes[i].nread /\ d.nwrite = pipes[i].nwrite
      BY <1>4, <3>2, RingFieldsAre DEF IsPipe, RingFields
    <3>4. Closed(pipes[i], TRUE) = d
      BY <3>1, <3>2, <3>3 DEF Closed
    <3>5. pipes'[i] = d
      BY <1>4, <2>2, <2>5, <3>4
    <3>. QED BY <1>2, <3>3, <3>5 DEF Empty
  <2>. QED BY <2>1, <2>3, <2>4, <2>5
<1>12. ASSUME NEW p \in Procs, PipeStep(p) PROVE Empty(pipes'[i])
  <2>1. CASE PipeFile(p)
    BY <1>2, <2>1 DEF PipeFile
  <2>2. CASE PipeAlloc(p)
    BY <1>5, <1>7, <2>2
  <2>. QED BY <1>8, <1>9, <1>10, <1>11, <1>12, <2>1, <2>2 DEF PipeStep
<1>. QED BY <1>5, <1>12, StepIs

\* As long as no killed process leaves a write half done, a process sleeps in piperead only while the pipe is
\* empty and may still be written, and in pipewrite only while it is full and may be read: no wakeup of pipe.c
\* is lost, in spite of the sleep that gives up the lock of the pipe and of kill, which does not take it.
THEOREM FilePipeSleepers == (Spec /\ []NoHalfWrites) => []PipeSleepers
<1>1. Init => FileInv /\ ReadersOK
  <2>. SUFFICES ASSUME Init PROVE FileInv /\ ReadersOK
    OBVIOUS
  <2>1. FileInv
    BY FileInit
  <2>2. ASSUME NEW c \in Procs PROVE proc[c].pc # "read_asleep"
    <3>1. PICK q : q = [Unused EXCEPT !.pc = "user", !.cwd = ROOTINO]
      OBVIOUS
    <3>2. IsProcess(q) /\ q.pc = "user"
      BY <3>1, FieldsAre DEF IsProcess, Fields, Unused
    <3>3. Goto(q, 1).pc = "user"
      BY <3>2, GotoIs DEF Fields
    <3>4. proc[c] \in {Goto(q, 1), Unused}
      BY <3>1 DEF Init
    <3>. QED BY <3>3, <3>4 DEF Unused
  <2>. QED BY <2>1, <2>2 DEF ReadersOK
<1>2. FileInv /\ ReadersOK /\ NoHalfWrites /\ [Next]_vars => FileInv' /\ ReadersOK'
  BY FileNext, ReadersStay
<1>3. FileInv /\ ReadersOK => PipeSleepers
  BY DEF FileInv, Knows, ReadersOK, PipeSleepers, PipeOf
<1>. QED BY <1>1, <1>2, <1>3, PTL DEF Spec

=============================================================================

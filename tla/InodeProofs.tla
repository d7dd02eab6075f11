---------------------------- MODULE InodeProofs ----------------------------
(***************************************************************************)
(* Proofs about the inode cache and the transactions of FileSys, for every *)
(* disk, every program and every number of processes, files and inodes:    *)
(* what the calls take, references, locks and reservations of the log, and *)
(* what they give back.  What a directory holds, and so what a lookup      *)
(* finds, does not matter to them.                                         *)
(***************************************************************************)
EXTENDS FileProofs

(***************************************************************************)
(* The invariant                                                           *)
(***************************************************************************)
\* The records of the inode cache.
IsEntry(e) == e = [x \in DOMAIN Uncached |-> e[x]]
CacheOK ==
  /\ DOMAIN icache = Inums
  /\ \A i \in Inums : IsEntry(icache[i]) /\ icache[i].ref \in Nat /\ icache[i].lock \in 0..NPROC

\* Only calls that look up a path are in namex, only calls that are in a transaction put an inode, an
\* inode that iput has locked is not the one that the call has locked, and a process that leaves has
\* given up its directory.
Lookups == {"link", "link2", "unlink", "create", "open", "chdir", "exec"}
Looks(q) == q.pc \in {"namex0", "namex"} \/ (q.stack # <<>> /\ q.stack[1] = "namex") => Body(q) \in Lookups
Puts(q) == q.pc \in Iputs /\ q.stack[1] # "end" => Body(q) \notin {"exit", "chdir2"}
Apart(q) == q.pc = "iput_freed" => \A x \in {"ip", "nx"} : HasLock(q, x) /\ q[x] \in Inums => q[x] # q.v
Departed(q) == Body(q) \in {"exit_end", "zombie", "unused"} => q.cwd = 0
Local(q) == Looks(q) /\ Puts(q) /\ Apart(q) /\ Departed(q)

\* A file has an inode only as long as its type says so.
TypedFiles == \A f \in Files : ftable[f].type # "FD_INODE" => ftable[f].ip = 0

InodeInv ==
  /\ FileInv /\ CacheOK /\ TypedFiles /\ \A p \in Procs : Local(proc[p])
  /\ InodesCounted /\ LocksOwned /\ OpsCounted /\ outstanding <= LOGOPS

(***************************************************************************)
(* Counting the references of the processes                                *)
(***************************************************************************)
\* Whether variable x of process q is a reference to inode i, and how many it has.
Refers(q, x, i) == HasRef(q, x) /\ q[x] = i
One(b) == IF b THEN 1 ELSE 0
Count(q, i) ==
  One(Refers(q, "cwd", i)) + One(Refers(q, "ip", i)) + One(Refers(q, "old", i)) + One(Refers(q, "nx", i))
  + One(Refers(q, "v", i))
Holding(q, i) == \E x \in Pointer : HasLock(q, x) /\ q[x] = i

\* The references to inode i of the processes of table P.
Referring(P, i) == {d \in Pointer \X Procs : Refers(P[d[2]], d[1], i)}
Others(P, p, i) == {d \in Referring(P, i) : d[2] # p}

LEMMA OneIs == ASSUME NEW b \in BOOLEAN PROVE One(b) \in {0, 1}
BY DEF One

LEMMA ReferringFinite ==
  ASSUME NEW P, NEW i
  PROVE  IsFiniteSet(Referring(P, i)) /\ Cardinality(Referring(P, i)) \in Nat
<1>1. IsFiniteSet(Pointer)
  <2>1. IsFiniteSet({"cwd"} \cup {"ip"})
    BY FS_Singleton, FS_AddElement
  <2>2. IsFiniteSet(({"cwd"} \cup {"ip"}) \cup {"old"})
    BY <2>1, FS_AddElement
  <2>3. IsFiniteSet((({"cwd"} \cup {"ip"}) \cup {"old"}) \cup {"nx"})
    BY <2>2, FS_AddElement
  <2>4. IsFiniteSet(((({"cwd"} \cup {"ip"}) \cup {"old"}) \cup {"nx"}) \cup {"v"})
    BY <2>3, FS_AddElement
  <2>5. Pointer = ((({"cwd"} \cup {"ip"}) \cup {"old"}) \cup {"nx"}) \cup {"v"}
    BY DEF Pointer
  <2>. QED BY <2>4, <2>5
<1>2. IsFiniteSet(Pointer \X Procs)
  BY <1>1, SetsFinite, FS_Product
<1>3. Referring(P, i) \in SUBSET (Pointer \X Procs)
  BY DEF Referring
<1>. QED BY <1>2, <1>3, FS_Subset, FS_CardinalityType

\* The variable x of p alone: one element more or less.
LEMMA CountOne ==
  ASSUME NEW S, IsFiniteSet(S), NEW T, NEW e, NEW b \in BOOLEAN,
         e \notin S, T = IF b THEN S \cup {e} ELSE S
  PROVE  IsFiniteSet(T) /\ Cardinality(T) \in Nat /\ Cardinality(T) = Cardinality(S) + One(b)
<1>1. Cardinality(S) \in Nat
  BY FS_CardinalityType
<1>2. CASE b
  BY <1>1, <1>2, FS_AddElement DEF One
<1>3. CASE ~b
  BY <1>1, <1>3 DEF One
<1>. QED BY <1>2, <1>3

\* Those of p are Count many.
LEMMA CountSplit ==
  ASSUME NEW P, NEW p \in Procs, NEW i
  PROVE  /\ Cardinality(Others(P, p, i)) \in Nat
         /\ Cardinality(Referring(P, i)) = Cardinality(Others(P, p, i)) + Count(P[p], i)
<1>. DEFINE q == P[p]
            rest == Others(P, p, i)
            with(S, x) == IF Refers(q, x, i) THEN S \cup {<<x, p>>} ELSE S
            s1 == with(rest, "cwd")
            s2 == with(s1, "ip")
            s3 == with(s2, "old")
            s4 == with(s3, "nx")
            s5 == with(s4, "v")
<1>1. \A x : Refers(q, x, i) \in BOOLEAN
  BY DEF Refers, HasRef
<1>2. IsFiniteSet(rest) /\ Cardinality(rest) \in Nat
  <2>1. rest \in SUBSET Referring(P, i)
    BY DEF Others
  <2>. QED BY <2>1, ReferringFinite, FS_Subset, FS_CardinalityType
<1>3. IsFiniteSet(s1) /\ Cardinality(s1) \in Nat /\ Cardinality(s1) = Cardinality(rest) + One(Refers(q, "cwd", i))
  <2>1. <<"cwd", p>> \notin rest
    BY DEF Others
  <2>. QED BY <1>1, <1>2, <2>1, CountOne
<1>4. IsFiniteSet(s2) /\ Cardinality(s2) \in Nat /\ Cardinality(s2) = Cardinality(s1) + One(Refers(q, "ip", i))
  <2>1. <<"ip", p>> \notin s1
    BY DEF Others
  <2>. QED BY <1>1, <1>3, <2>1, CountOne
<1>5. IsFiniteSet(s3) /\ Cardinality(s3) \in Nat /\ Cardinality(s3) = Cardinality(s2) + One(Refers(q, "old", i))
  <2>1. <<"old", p>> \notin s2
    BY DEF Others
  <2>. QED BY <1>1, <1>4, <2>1, CountOne
<1>6. IsFiniteSet(s4) /\ Cardinality(s4) \in Nat /\ Cardinality(s4) = Cardinality(s3) + One(Refers(q, "nx", i))
  <2>1. <<"nx", p>> \notin s3
    BY DEF Others
  <2>. QED BY <1>1, <1>5, <2>1, CountOne
<1>7. IsFiniteSet(s5) /\ Cardinality(s5) \in Nat /\ Cardinality(s5) = Cardinality(s4) + One(Refers(q, "v", i))
  <2>1. <<"v", p>> \notin s4
    BY DEF Others
  <2>2. PICK S, T, b : S = s4 /\ T = s5 /\ b = Refers(q, "v", i)
    OBVIOUS
  <2>3. IsFiniteSet(S) /\ <<"v", p>> \notin S /\ b \in BOOLEAN
    BY <1>1, <1>6, <2>1, <2>2
  <2>4. T = IF b THEN S \cup {<<"v", p>>} ELSE S
    BY <2>2
  <2>5. IsFiniteSet(T) /\ Cardinality(T) \in Nat /\ Cardinality(T) = Cardinality(S) + One(b)
    BY ONLY <2>3, <2>4, CountOne
  <2>. QED BY <2>2, <2>5
<1>8. s5 = Referring(P, i)
  <2>1. ASSUME NEW d \in Referring(P, i) PROVE d \in s5
    <3>1. PICK x \in Pointer, c \in Procs : d = <<x, c>> /\ Refers(P[c], x, i)
      BY DEF Referring
    <3>2. CASE c # p
      BY <3>1, <3>2 DEF Others
    <3>3. CASE c = p
      BY <3>1, <3>3 DEF Pointer
    <3>. QED BY <3>2, <3>3
  <2>2. ASSUME NEW d \in s5 PROVE d \in Referring(P, i)
    BY DEF Referring, Others, Pointer
  <2>. QED BY <2>1, <2>2
<1>9. /\ One(Refers(q, "cwd", i)) \in {0, 1} /\ One(Refers(q, "ip", i)) \in {0, 1} /\ One(Refers(q, "old", i)) \in {0, 1}
      /\ One(Refers(q, "nx", i)) \in {0, 1} /\ One(Refers(q, "v", i)) \in {0, 1}
  BY <1>1, OneIs
<1>10. Cardinality(s5) = Cardinality(rest) + Count(q, i)
  <2>. HIDE DEF s1, s2, s3, s4, s5, rest, q
  <2>. QED BY <1>2, <1>3, <1>4, <1>5, <1>6, <1>7, <1>9 DEF Count
<1>. QED BY <1>2, <1>8, <1>10

LEMMA CountIs == ASSUME NEW q, NEW i PROVE Count(q, i) \in Nat
<1>1. ASSUME NEW x PROVE One(Refers(q, x, i)) \in Nat
  BY DEF One
<1>. QED BY <1>1 DEF Count

\* Another process that refers to the same inodes, has the same locks and is in the same transaction.
Same(q, n) ==
  /\ \A i \in Inums : /\ \A x \in Pointer : Refers(q, x, i) <=> Refers(n, x, i)
                      /\ Holding(q, i) <=> Holding(n, i)
  /\ InOp(q) <=> InOp(n)

LEMMA CountMoves ==
  ASSUME NEW P, NEW Q, NEW p \in Procs, \A c \in Procs \ {p} : Same(P[c], Q[c]), NEW i \in Inums
  PROVE  Cardinality(Referring(Q, i)) + Count(P[p], i) = Cardinality(Referring(P, i)) + Count(Q[p], i)
<1>1. Others(P, p, i) = Others(Q, p, i)
  BY DEF Others, Referring, Same
<1>2. /\ Cardinality(Others(P, p, i)) \in Nat
      /\ Cardinality(Referring(P, i)) = Cardinality(Others(P, p, i)) + Count(P[p], i)
  BY CountSplit
<1>3. Cardinality(Referring(Q, i)) = Cardinality(Others(Q, p, i)) + Count(Q[p], i)
  BY CountSplit
<1>4. Count(P[p], i) \in Nat /\ Count(Q[p], i) \in Nat
  BY CountIs
<1>. QED BY <1>1, <1>2, <1>3, <1>4

(***************************************************************************)
(* What one step does to the books                                         *)
(***************************************************************************)
\* Entry e of inode i becomes f as process p goes from q to n: the difference of the references, and the
\* lock taken, kept or given up by p.  files is the number of files that begin to refer to i.
Entered(p, q, n, e, f, i, files) ==
  /\ IsEntry(f) /\ f.ref = e.ref + (Count(n, i) - Count(q, i)) + files
  /\ IF Holding(n, i) THEN e.lock \in {0, p} /\ f.lock = p ELSE f.lock = IF e.lock = p THEN 0 ELSE e.lock

LEMMA FilesOnFinite ==
  ASSUME NEW i
  PROVE  IsFiniteSet(FilesOn(i)) /\ Cardinality(FilesOn(i)) \in Nat
<1>1. FilesOn(i) \in SUBSET Files
  BY DEF FilesOn
<1>. QED BY <1>1, SetsFinite, FS_Subset, FS_CardinalityType

LEMMA OpsMove ==
  ASSUME OpsCounted, NEW p \in Procs, \A c \in Procs \ {p} : InOp(proc[c]) <=> InOp(proc'[c]),
         outstanding' = outstanding + One(InOp(proc'[p])) - One(InOp(proc[p]))
  PROVE  OpsCounted'
<1>. DEFINE R == {c \in Procs \ {p} : InOp(proc[c])}
            S == {c \in Procs : InOp(proc[c])}
            T == {c \in Procs : InOp(proc'[c])}
<1>1. InOp(proc[p]) \in BOOLEAN /\ InOp(proc'[p]) \in BOOLEAN
  BY DEF InOp
<1>2. IsFiniteSet(R) /\ p \notin R /\ Cardinality(R) \in Nat
  <2>1. R \in SUBSET Procs
    OBVIOUS
  <2>. QED BY <2>1, SetsFinite, FS_Subset, FS_CardinalityType
<1>3. S = IF InOp(proc[p]) THEN R \cup {p} ELSE R
  OBVIOUS
<1>4. T = IF InOp(proc'[p]) THEN R \cup {p} ELSE R
  OBVIOUS
<1>5. Cardinality(S) = Cardinality(R) + One(InOp(proc[p]))
  <2>. HIDE DEF R, S
  <2>. QED BY <1>1, <1>2, <1>3, CountOne
<1>6. Cardinality(T) = Cardinality(R) + One(InOp(proc'[p]))
  <2>. HIDE DEF R, T
  <2>. QED BY <1>1, <1>2, <1>4, CountOne
<1>7. outstanding = Cardinality(S)
  BY DEF OpsCounted
<1>8. outstanding' = Cardinality(T)
  <2>. HIDE DEF R, S, T
  <2>. QED BY <1>1, <1>2, <1>5, <1>6, <1>7, OneIs
<1>9. T = {c \in Procs : InOp(proc[c])}'
  BY DEF InOp, Body
<1>. QED BY <1>8, <1>9 DEF OpsCounted

LEMMA OneMoves ==
  ASSUME InodeInv, NEW p \in Procs, FileInv', DOMAIN icache' = Inums,
         \A c \in Procs \ {p} : Same(proc[c], proc'[c]) /\ Local(proc'[c]),
         Local(proc'[p]), TypedFiles',
         NEW files, \A i \in Inums : files[i] = Cardinality(FilesOn(i))' - Cardinality(FilesOn(i)),
         \A i \in Inums : Entered(p, proc[p], proc'[p], icache[i], icache'[i], i, files[i]),
         outstanding' = outstanding + One(InOp(proc'[p])) - One(InOp(proc[p])), outstanding' <= LOGOPS
  PROVE  InodeInv'
<1>1. p \in 1..NPROC /\ 0 \notin Procs /\ NPROC \in Nat
  BY FileSysAssumption DEF Procs
<1>3. InodesCounted' /\ \A i \in Inums : icache'[i].ref \in Nat
  <2>1. ASSUME NEW i \in Inums
        PROVE  icache'[i].ref = Cardinality(FilesOn(i))' + Cardinality(HoldersOf(i))' /\ icache'[i].ref \in Nat
    <3>1. HoldersOf(i) = Referring(proc, i) /\ HoldersOf(i)' = Referring(proc', i)
      BY DEF HoldersOf, Referring, Refers, HasRef, Body
    <3>2. Cardinality(Referring(proc', i)) + Count(proc[p], i) = Cardinality(Referring(proc, i)) + Count(proc'[p], i)
      BY CountMoves
    <3>3. icache[i].ref = Cardinality(FilesOn(i)) + Cardinality(HoldersOf(i))
      BY DEF InodeInv, InodesCounted
    <3>4. icache'[i].ref = icache[i].ref + (Count(proc'[p], i) - Count(proc[p], i)) + files[i]
      BY DEF Entered
    <3>5. files[i] = Cardinality(FilesOn(i))' - Cardinality(FilesOn(i))
      OBVIOUS
    <3>6. Cardinality(FilesOn(i)) \in Nat
      BY FilesOnFinite
    <3>7. Cardinality(FilesOn(i))' \in Nat
      <4>1. FilesOn(i)' \in SUBSET Files
        BY DEF FilesOn
      <4>. QED BY <4>1, SetsFinite, FS_Subset, FS_CardinalityType
    <3>8. Count(proc[p], i) \in Nat /\ Count(proc'[p], i) \in Nat
      BY CountIs
    <3>9. Cardinality(Referring(proc, i)) \in Nat /\ Cardinality(Referring(proc', i)) \in Nat
      BY ReferringFinite
    <3>10. Cardinality(HoldersOf(i))' = Cardinality(Referring(proc', i))
      BY <3>1
    <3>. QED BY <3>1, <3>2, <3>3, <3>4, <3>5, <3>6, <3>7, <3>8, <3>9, <3>10
  <2>. QED BY <2>1 DEF InodesCounted
<1>2. CacheOK'
  BY <1>1, <1>3 DEF InodeInv, CacheOK, Entered
<1>4. LocksOwned'
  <2>1. ASSUME NEW i \in Inums, NEW c \in Procs PROVE icache'[i].lock = c <=> Holding(proc'[c], i)
    <3>1. icache[i].lock = c <=> Holding(proc[c], i)
      BY DEF InodeInv, LocksOwned, Holding
    <3>2. /\ Holding(proc'[p], i) => icache[i].lock \in {0, p} /\ icache'[i].lock = p
          /\ ~Holding(proc'[p], i) => icache'[i].lock = IF icache[i].lock = p THEN 0 ELSE icache[i].lock
      BY DEF Entered
    <3>3. c # p => (Holding(proc[c], i) <=> Holding(proc'[c], i))
      BY DEF Same
    <3>. QED BY <1>1, <3>1, <3>2, <3>3
  <2>2. ASSUME NEW c \in Procs, NEW i \in Inums
        PROVE  Holding(proc'[c], i) <=> (\E x \in Pointer : HasLock(proc[c], x) /\ proc[c][x] = i)'
    BY DEF Holding, HasLock, Body
  <2>. QED BY <2>1, <2>2 DEF LocksOwned
<1>5. OpsCounted'
  <2>1. \A c \in Procs \ {p} : InOp(proc[c]) <=> InOp(proc'[c])
    BY DEF Same
  <2>. QED BY <2>1, OpsMove DEF InodeInv
<1>6. \A c \in Procs : Local(proc[c])'
  BY DEF Local, Looks, Puts, Apart, Departed, Body, HasLock
<1>. QED BY <1>2, <1>3, <1>4, <1>5, <1>6 DEF InodeInv

(***************************************************************************)
(* The entries of the cache after a step                                   *)
(***************************************************************************)
Entry(e, ref, lock) == IsEntry(e) /\ e.ref = ref /\ e.lock = lock

\* The cache c is the one before the step but for the lock of inode j and a new reference to inode got.
Changed(c, j, lock, got) ==
  /\ DOMAIN c = Inums
  /\ \A i \in Inums : Entry(c[i], icache[i].ref + One(i = got), IF i = j THEN lock ELSE icache[i].lock)

LEMMA Entries ==
  ASSUME CacheOK, NEW p, NEW i \in Inums
  PROVE  /\ Entry(ilock(p, i), icache[i].ref, p) /\ Entry(iunlock(ilock(p, i)), icache[i].ref, 0)
         /\ Entry(iunlock(icache[i]), icache[i].ref, 0)
         /\ \A w : /\ Entry(Store(ilock(p, i), w), icache[i].ref, p)
                   /\ Entry(iunlock(Store(ilock(p, i), w)), icache[i].ref, 0)
                   /\ Entry(iunlock(Store(icache[i], w)), icache[i].ref, 0)
                   /\ Entry(Store(icache[i], w), icache[i].ref, icache[i].lock)
<1>1. IsEntry(icache[i])
  BY DEF CacheOK
<1>2. Entry(ilock(p, i), icache[i].ref, p)
  <2>1. PICK x : ilock(p, i) = [icache[i] EXCEPT !.lock = p, !.valid = TRUE, !.ip = x]
    BY DEF ilock
  <2>. QED BY <1>1, <2>1 DEF Entry, IsEntry, Uncached
<1>3. ASSUME NEW e, NEW ref, NEW lock, Entry(e, ref, lock)
      PROVE  Entry(iunlock(e), ref, 0) /\ \A w : Entry(Store(e, w), ref, lock)
  <2>1. Entry(iunlock(e), ref, 0)
    BY <1>3 DEF Entry, IsEntry, Uncached, iunlock
  <2>2. ASSUME NEW w PROVE Entry(Store(e, w), ref, lock)
    <3>1. PICK x : Store(e, w) = [e EXCEPT !.ip = x]
      BY DEF Store
    <3>. QED BY <1>3, <3>1 DEF Entry, IsEntry, Uncached
  <2>. QED BY <2>1, <2>2
<1>4. Entry(icache[i], icache[i].ref, icache[i].lock)
  BY <1>1 DEF Entry
<1>. QED BY <1>2, <1>3, <1>4

LEMMA AsItWas == ASSUME CacheOK PROVE Changed(icache, 0, 0, 0)
BY DEF CacheOK, Changed, Entry, One, Inums

LEMMA SetEntry ==
  ASSUME CacheOK, NEW j, NEW lock, NEW e, j \in Inums => Entry(e, icache[j].ref, lock)
  PROVE  Changed([icache EXCEPT ![j] = e], j, lock, 0)
<1>1. DOMAIN [icache EXCEPT ![j] = e] = Inums
  BY DEF CacheOK
<1>2. ASSUME NEW i \in Inums
      PROVE  Entry([icache EXCEPT ![j] = e][i], icache[i].ref + One(i = 0), IF i = j THEN lock ELSE icache[i].lock)
  <2>1. icache[i].ref + One(i = 0) = icache[i].ref
    BY DEF CacheOK, One, Inums
  <2>2. [icache EXCEPT ![j] = e][i] = IF i = j THEN e ELSE icache[i]
    BY DEF CacheOK
  <2>3. IsEntry(icache[i])
    BY DEF CacheOK
  <2>. QED BY <2>1, <2>2, <2>3 DEF Entry
<1>. QED BY <1>1, <1>2 DEF Changed

LEMMA GetEntry ==
  ASSUME CacheOK, NEW j, NEW lock, NEW c, Changed(c, j, lock, 0), NEW g
  PROVE  Changed(iget(c, g), j, lock, g)
<1>1. DOMAIN iget(c, g) = Inums
  BY DEF iget, Changed
<1>2. ASSUME NEW i \in Inums
      PROVE  Entry(iget(c, g)[i], icache[i].ref + One(i = g), IF i = j THEN lock ELSE icache[i].lock)
  <2>1. IsEntry(c[i]) /\ c[i].ref = icache[i].ref /\ c[i].lock = IF i = j THEN lock ELSE icache[i].lock
    BY DEF Changed, Entry, One, Inums, CacheOK
  <2>2. CASE i = g
    <3>1. PICK v : iget(c, g)[i] = [c[i] EXCEPT !.ref = c[i].ref + 1, !.valid = v]
      BY <2>1, <2>2 DEF iget, IsEntry, Uncached, Changed
    <3>. QED BY <2>1, <2>2, <3>1 DEF Entry, IsEntry, Uncached, One
  <2>3. CASE i # g
    <3>0. DOMAIN c = Inums
      BY DEF Changed
    <3>1. iget(c, g)[i] = c[i]
      BY <2>3, <3>0 DEF iget
    <3>2. icache[i].ref + One(i = g) = icache[i].ref
      BY <2>3 DEF CacheOK, One
    <3>. QED BY <2>1, <3>1, <3>2 DEF Entry
  <2>. QED BY <2>2, <2>3
<1>. QED BY <1>1, <1>2 DEF Changed

\* The ways a call changes one entry.
LEMMA Steps ==
  ASSUME CacheOK, NEW p, NEW j
  PROVE  /\ Changed([icache EXCEPT ![j] = ilock(p, j)], j, p, 0)
         /\ Changed([icache EXCEPT ![j] = iunlock(ilock(p, j))], j, 0, 0)
         /\ Changed([icache EXCEPT ![j] = iunlock(icache[j])], j, 0, 0)
         /\ \A w : /\ Changed([icache EXCEPT ![j] = iunlock(Store(ilock(p, j), w))], j, 0, 0)
                   /\ Changed([icache EXCEPT ![j] = iunlock(Store(icache[j], w))], j, 0, 0)
<1>1. Changed([icache EXCEPT ![j] = ilock(p, j)], j, p, 0)
  BY Entries, SetEntry
<1>2. Changed([icache EXCEPT ![j] = iunlock(ilock(p, j))], j, 0, 0)
  BY Entries, SetEntry
<1>3. Changed([icache EXCEPT ![j] = iunlock(icache[j])], j, 0, 0)
  BY Entries, SetEntry
<1>4. ASSUME NEW w PROVE Changed([icache EXCEPT ![j] = iunlock(Store(ilock(p, j), w))], j, 0, 0)
  BY Entries, SetEntry
<1>5. ASSUME NEW w PROVE Changed([icache EXCEPT ![j] = iunlock(Store(icache[j], w))], j, 0, 0)
  BY Entries, SetEntry
<1>. QED BY <1>1, <1>2, <1>3, <1>4, <1>5

(***************************************************************************)
(* The variables of a process after a step                                 *)
(***************************************************************************)
\* What the counts depend on.
View(q, pc, b, cwd, ip, old, nx, v) ==
  q.pc = pc /\ Body(q) = b /\ q.cwd = cwd /\ q.ip = ip /\ q.old = old /\ q.nx = nx /\ q.v = v

LEMMA BodyIs ==
  ASSUME NEW q
  PROVE  /\ q.stack = <<>> => Body(q) = q.pc
         /\ \A a : q.stack = <<a>> => Body(q) = a /\ q.stack[1] = a
         /\ \A a, b : q.stack = <<a, b>> => Body(q) = b /\ q.stack[1] = a
         /\ \A a, b, c : q.stack = <<a, b, c>> => Body(q) = c /\ q.stack[1] = a
<1>1. q.stack = <<>> => Body(q) = q.pc
  BY DEF Body
<1>2. ASSUME NEW a, q.stack = <<a>> PROVE Body(q) = a /\ q.stack[1] = a
  <2>1. q.stack # <<>> /\ Len(q.stack) = 1 /\ q.stack[1] = a
    BY <1>2
  <2>. QED BY <2>1 DEF Body, Last
<1>3. ASSUME NEW a, NEW b, q.stack = <<a, b>> PROVE Body(q) = b /\ q.stack[1] = a
  <2>1. q.stack # <<>> /\ Len(q.stack) = 2 /\ q.stack[1] = a /\ q.stack[2] = b
    BY <1>3
  <2>. QED BY <2>1 DEF Body, Last
<1>4. ASSUME NEW a, NEW b, NEW c, q.stack = <<a, b, c>> PROVE Body(q) = c /\ q.stack[1] = a
  <2>1. q.stack # <<>> /\ Len(q.stack) = 3 /\ q.stack[1] = a /\ q.stack[3] = c
    BY <1>4
  <2>. QED BY <2>1 DEF Body, Last
<1>. QED BY <1>1, <1>2, <1>3, <1>4

\* A call at a label of its own, and one that ends.
LEMMA LabelView ==
  ASSUME NEW n, n.stack = <<>>, NEW l \in Bodies \cup {"open3", "end"}, n.pc = l
  PROVE  View(n, l, l, n.cwd, n.ip, n.old, n.nx, n.v) /\ Local(n) /\ (InOp(n) <=> l \notin {"chdir2", "exit", "open3"})
<1>1. Body(n) = l
  BY BodyIs
<1>2. l \notin {"namex0", "namex", "exit_end", "zombie", "unused"} \cup Iputs
  BY DEF Bodies, Iputs
<1>3. InOp(n) <=> l \notin {"chdir2", "exit", "open3"}
  BY DEF InOp, Bodies, Iputs
<1>. QED BY <1>1, <1>2, <1>3 DEF View, Local, Looks, Puts, Apart, Departed, Iputs

\* A call that puts an inode, and goes on at b or ends.
LEMMA PutView ==
  ASSUME NEW n, NEW l \in Bodies \cup {"end"}, l \notin {"chdir2", "exit"}, n.pc = "iput", n.stack = <<l>>
  PROVE  View(n, "iput", l, n.cwd, n.ip, n.old, n.nx, n.v) /\ Local(n) /\ InOp(n)
<1>1. Body(n) = l /\ n.stack[1] = l
  BY BodyIs
<1>2. l \notin {"namex", "exit_end", "zombie", "unused"}
  BY DEF Bodies
<1>. QED BY <1>1, <1>2 DEF View, Local, Looks, Puts, Apart, Departed, InOp, Iputs

LEMMA JumpView ==
  ASSUME NEW q, IsProcess(q), q.stack = <<>>, NEW l \in Bodies
  PROVE  /\ View(Jump(q, l), l, l, q.cwd, q.ip, q.old, q.nx, q.v) /\ Local(Jump(q, l))
         /\ InOp(Jump(q, l)) <=> l \notin {"chdir2", "exit"}
<1>1. PICK n : n = Jump(q, l)
  OBVIOUS
<1>2. n.pc = l /\ n.stack = <<>> /\ n.cwd = q.cwd /\ n.ip = q.ip /\ n.old = q.old /\ n.nx = q.nx /\ n.v = q.v
  BY <1>1, JumpIs DEF Fields
<1>3. l # "open3"
  BY DEF Bodies
<1>. QED BY <1>1, <1>2, <1>3, LabelView DEF View

LEMMA FailView ==
  ASSUME NEW q, IsProcess(q), q.stack = <<>>
  PROVE  View(Fail(q), "end", "end", q.cwd, q.ip, q.old, q.nx, q.v) /\ Local(Fail(q)) /\ InOp(Fail(q))
<1>1. PICK n : n = Fail(q)
  OBVIOUS
<1>2. n.pc = "end" /\ n.stack = <<>> /\ n.cwd = q.cwd /\ n.ip = q.ip /\ n.old = q.old /\ n.nx = q.nx /\ n.v = q.v
  BY <1>1, FieldsAre DEF Fail, IsProcess, Fields
<1>. QED BY <1>1, <1>2, LabelView DEF View

LEMMA PutsView ==
  ASSUME NEW q, IsProcess(q), q.stack = <<>>, NEW l \in Bodies \cup {"end"}, l \notin {"chdir2", "exit"}, NEW i, NEW n,
         n = Push(PutInode(q, i), <<l>>) \/ n = PutInode(Push(q, <<l>>), i) \/ (l = "end" /\ n = FailPut(q, i))
  PROVE  View(n, "iput", l, q.cwd, q.ip, q.old, q.nx, i) /\ Local(n) /\ InOp(n)
<1>0. <<l>> \o <<>> = <<l>>
  BY ShortSequences
<1>1. /\ n.pc = "iput" /\ n.stack = <<l>> /\ n.cwd = q.cwd /\ n.ip = q.ip /\ n.old = q.old /\ n.nx = q.nx /\ n.v = i
  <2>1. CASE n = Push(PutInode(q, i), <<l>>)
    BY <1>0, <2>1, FieldsAre DEF PutInode, Push, IsProcess, Fields
  <2>2. CASE n = PutInode(Push(q, <<l>>), i)
    BY <1>0, <2>2, FieldsAre DEF PutInode, Push, IsProcess, Fields
  <2>3. CASE l = "end" /\ n = FailPut(q, i)
    BY <1>0, <2>3, FieldsAre DEF FailPut, PutInode, Push, IsProcess, Fields
  <2>. QED BY <2>1, <2>2, <2>3
<1>. QED BY <1>1, PutView DEF View

(***************************************************************************)
(* The steps of one process that change no file                            *)
(***************************************************************************)
\* Process q goes on as n: it has one more reference, to inode got, and has the lock of j or not.
Moves(q, n, j, locked, got) ==
  \A i \in Inums : /\ Count(n, i) = Count(q, i) + One(i = got)
                   /\ Holding(n, i) <=> IF i = j THEN locked ELSE Holding(q, i)

Turn(p, n) ==
  /\ proc' = [proc EXCEPT ![p] = n] /\ Local(n) /\ DOMAIN icache' = Inums
  /\ \A i \in Inums : Entered(p, proc[p], n, icache[i], icache'[i], i, 0)
  /\ InOp(n) <=> InOp(proc[p])

LEMMA EnteredIs ==
  ASSUME InodeInv, NEW p \in Procs, NEW n, NEW j, NEW lock \in {0, p}, NEW got,
         Changed(icache', j, lock, got), j \in Inums => icache[j].lock \in {0, p}, Moves(proc[p], n, j, lock = p, got)
  PROVE  DOMAIN icache' = Inums /\ \A i \in Inums : Entered(p, proc[p], n, icache[i], icache'[i], i, 0)
<1>1. p # 0 /\ \A i \in Inums : icache[i].lock = p <=> Holding(proc[p], i)
  BY DEF InodeInv, LocksOwned, Holding, Procs
<1>2. ASSUME NEW i \in Inums PROVE Entered(p, proc[p], n, icache[i], icache'[i], i, 0)
  <2>1. /\ IsEntry(icache'[i]) /\ icache'[i].ref = icache[i].ref + One(i = got)
        /\ icache'[i].lock = IF i = j THEN lock ELSE icache[i].lock
    BY DEF Changed, Entry
  <2>2. /\ Count(n, i) = Count(proc[p], i) + One(i = got)
        /\ Holding(n, i) <=> IF i = j THEN lock = p ELSE Holding(proc[p], i)
    BY DEF Moves
  <2>3. icache[i].ref \in Nat /\ Count(proc[p], i) \in Nat /\ One(i = got) \in Nat
    BY CountIs DEF InodeInv, CacheOK, One
  <2>4. icache'[i].ref = icache[i].ref + (Count(n, i) - Count(proc[p], i)) + 0
    BY <2>1, <2>2, <2>3
  <2>. QED BY <1>1, <2>1, <2>2, <2>4 DEF Entered
<1>. QED BY <1>2 DEF Changed

\* A process at a label of its own.
LEMMA AtLabel ==
  ASSUME InodeInv, NEW p \in Procs, proc[p].pc \in Bodies \cup {"user"}
  PROVE  /\ IsProcess(proc[p]) /\ proc[p].stack = <<>> /\ Body(proc[p]) = proc[p].pc
         /\ CacheOK /\ p # 0
         /\ InOp(proc[p]) <=> proc[p].pc \notin {"chdir2", "exit", "user"}
         /\ \A i \in Inums : Holding(proc[p], i) <=> icache[i].lock = p
<1>1. IsProcess(proc[p]) /\ proc[p].stack = <<>>
  BY AtBody DEF InodeInv
<1>2. InOp(proc[p]) <=> proc[p].pc \notin {"chdir2", "exit", "user"}
  BY DEF InOp, Bodies, Iputs
<1>. QED BY <1>1, <1>2, BodyIs DEF InodeInv, LocksOwned, Holding, Procs

LEMMA LinkExistsTurn ==
  ASSUME InodeInv, NEW p \in Procs, LinkExists(p)
  PROVE  \E n : Turn(p, n)
<1>. DEFINE q == proc[p]
<1>1. q.pc = "link_exists" /\ proc' = [proc EXCEPT ![p] = Push(PutInode(q, q.ip), <<"link_bad">>)]
      /\ icache' = [icache EXCEPT ![q.ip] = iunlock(icache[q.ip])]
  BY DEF LinkExists, At
<1>2. /\ IsProcess(q) /\ q.stack = <<>> /\ Body(q) = q.pc /\ CacheOK /\ p # 0 /\ InOp(q)
      /\ \A i \in Inums : Holding(q, i) <=> icache[i].lock = p
  BY <1>1, AtLabel DEF Bodies
<1>3. PICK n : n = Push(PutInode(q, q.ip), <<"link_bad">>)
  OBVIOUS
<1>4. View(n, "iput", "link_bad", q.cwd, q.ip, q.old, q.nx, q.ip) /\ Local(n) /\ InOp(n)
  BY <1>2, <1>3, PutsView DEF Bodies
<1>5. Changed(icache', q.ip, 0, 0)
  BY <1>1, <1>2, Steps
<1>6. Moves(q, n, q.ip, FALSE, 0)
  BY <1>1, <1>2, <1>4 DEF View, Moves, Count, Refers, HasRef, Holding, HasLock, Pointer, One, Iputs, Inums
<1>7. q.ip \in Inums => icache[q.ip].lock \in {0, p}
  BY <1>1, <1>2 DEF Holding, HasLock, Pointer
<1>. QED BY <1>1, <1>2, <1>3, <1>4, <1>5, <1>6, <1>7, EnteredIs DEF Turn

\* A call that looks up a path.
LEMMA NamexView ==
  ASSUME NEW n, NEW l \in Lookups, n.pc \in {"namex0", "namex"}, n.stack = <<l>>
  PROVE  View(n, n.pc, l, n.cwd, n.ip, n.old, n.nx, n.v) /\ Local(n) /\ InOp(n)
<1>1. Body(n) = l
  BY BodyIs
<1>. QED BY <1>1 DEF View, Local, Looks, Puts, Apart, Departed, InOp, Iputs, Lookups

LEMMA LinkOldTurn ==
  ASSUME InodeInv, NEW p \in Procs, LinkOld(p)
  PROVE  \E n : Turn(p, n)
<1>. DEFINE q == proc[p]
<1>1. q.pc = "link"
  BY DEF LinkOld, At
<1>2. /\ IsProcess(q) /\ q.stack = <<>> /\ Body(q) = q.pc /\ CacheOK /\ p # 0 /\ InOp(q)
      /\ \A i \in Inums : Holding(q, i) <=> icache[i].lock = p
  BY <1>1, AtLabel DEF Bodies
<1>a. PICK dir \in BOOLEAN : dir = (ilock(p, q.ip).ip.type = "T_DIR")
  OBVIOUS
<1>b. PICK w, path, log : /\ w = iupdate([WorkOn(p, ilock(p, q.ip)) EXCEPT !.ip.nlink = @ + 1], q.ip)
                          /\ path = Arg(p).new /\ log = w.log
  OBVIOUS
<1>3. \/ q.ip = 0 /\ icache' = icache /\ proc' = [proc EXCEPT ![p] = Fail(q)]
      \/ /\ icache[q.ip].lock = 0
         /\ icache' = [icache EXCEPT ![q.ip] = iunlock(ilock(p, q.ip))]
         /\ proc' = [proc EXCEPT ![p] = FailPut(q, q.ip)]
      \/ /\ icache[q.ip].lock = 0
         /\ icache' = [icache EXCEPT ![q.ip] = iunlock(Store(ilock(p, q.ip), w))]
         /\ proc' = [proc EXCEPT ![p] = Push([q EXCEPT !.pc = "namex0", !.old = q.ip, !.par = TRUE,
                                              !.path = path, !.log = log], <<"link2">>)]
  BY <1>a, <1>b DEF LinkOld, Lockable
<1>4. CASE q.ip = 0 /\ icache' = icache /\ proc' = [proc EXCEPT ![p] = Fail(q)]
  <2>1. PICK n : n = Fail(q)
    OBVIOUS
  <2>2. View(n, "end", "end", q.cwd, q.ip, q.old, q.nx, q.v) /\ Local(n) /\ InOp(n)
    BY <1>2, <2>1, FailView
  <2>3. Changed(icache', 0, 0, 0)
    BY <1>2, <1>4, AsItWas
  <2>4. Moves(q, n, 0, FALSE, 0)
    BY <1>1, <1>2, <1>4, <2>2 DEF View, Moves, Count, Refers, HasRef, Holding, HasLock, Pointer, One, Iputs, Inums
  <2>5. 0 \notin Inums
    BY DEF Inums
  <2>. QED BY <1>2, <1>4, <2>1, <2>2, <2>3, <2>4, <2>5, EnteredIs DEF Turn
<1>5. CASE /\ icache[q.ip].lock = 0
           /\ icache' = [icache EXCEPT ![q.ip] = iunlock(ilock(p, q.ip))]
           /\ proc' = [proc EXCEPT ![p] = FailPut(q, q.ip)]
  <2>1. PICK n : n = FailPut(q, q.ip)
    OBVIOUS
  <2>2. View(n, "iput", "end", q.cwd, q.ip, q.old, q.nx, q.ip) /\ Local(n) /\ InOp(n)
    BY <1>2, <2>1, PutsView
  <2>3. Changed(icache', q.ip, 0, 0)
    BY <1>2, <1>5, Steps
  <2>4. Moves(q, n, q.ip, FALSE, 0)
    BY <1>1, <1>2, <1>5, <2>2 DEF View, Moves, Count, Refers, HasRef, Holding, HasLock, Pointer, One, Iputs, Inums
  <2>5. icache[q.ip].lock = 0
    BY <1>5
  <2>. QED BY <1>2, <1>5, <2>1, <2>2, <2>3, <2>4, <2>5, EnteredIs DEF Turn
<1>6. CASE /\ icache[q.ip].lock = 0
           /\ icache' = [icache EXCEPT ![q.ip] = iunlock(Store(ilock(p, q.ip), w))]
           /\ proc' = [proc EXCEPT ![p] = Push([q EXCEPT !.pc = "namex0", !.old = q.ip, !.par = TRUE,
                                                !.path = path, !.log = log], <<"link2">>)]
  <2>1. PICK n : n = Push([q EXCEPT !.pc = "namex0", !.old = q.ip, !.par = TRUE, !.path = path, !.log = log],
                          <<"link2">>)
    OBVIOUS
  <2>6. /\ n.pc = "namex0" /\ n.stack = <<"link2">> /\ n.cwd = q.cwd
        /\ n.ip = q.ip /\ n.old = q.ip /\ n.nx = q.nx /\ n.v = q.v
    BY <1>2, <2>1, FieldsAre, ShortSequences DEF Push, IsProcess, Fields
  <2>2. View(n, "namex0", "link2", q.cwd, q.ip, q.ip, q.nx, q.v) /\ Local(n) /\ InOp(n)
    BY <1>2, <2>1, <2>6, NamexView DEF Lookups, View
  <2>3. Changed(icache', q.ip, 0, 0)
    BY <1>2, <1>6, Steps
  <2>4. Moves(q, n, q.ip, FALSE, 0)
    BY <1>1, <1>2, <1>6, <2>2 DEF View, Moves, Count, Refers, HasRef, Holding, HasLock, Pointer, One, Iputs, Inums
  <2>5. icache[q.ip].lock = 0
    BY <1>6
  <2>. QED BY <1>2, <1>6, <2>1, <2>2, <2>3, <2>4, <2>5, EnteredIs DEF Turn
<1>. QED BY <1>3, <1>4, <1>5, <1>6

LEMMA LinkNewTurn ==
  ASSUME InodeInv, NEW p \in Procs, LinkNew(p)
  PROVE  \E n : Turn(p, n)
<1>. DEFINE q == proc[p]
<1>1. q.pc = "link2"
  BY DEF LinkNew, At
<1>2. /\ IsProcess(q) /\ q.stack = <<>> /\ Body(q) = q.pc /\ CacheOK /\ p # 0 /\ InOp(q)
      /\ \A i \in Inums : Holding(q, i) <=> icache[i].lock = p
  BY <1>1, AtLabel DEF Bodies
<1>3. PICK w, found, log : \/ q.ip = 0 /\ icache' = icache /\ proc' = [proc EXCEPT ![p] = Jump(q, "link_bad")]
                           \/ /\ icache[q.ip].lock = 0
                              /\ icache' = iget([icache EXCEPT ![q.ip] = ilock(p, q.ip)], found)
                              /\ proc' = [proc EXCEPT ![p] = Push(PutInode(q, found), <<"link_exists">>)]
                           \/ /\ icache[q.ip].lock = 0
                              /\ icache' = [icache EXCEPT ![q.ip] = iunlock(Store(ilock(p, q.ip), w))]
                              /\ proc' = [proc EXCEPT ![p] = Push(PutInode([q EXCEPT !.r = 0, !.log = log],
                                                                           q.ip), <<"link_done">>)]
  BY DEF LinkNew, Lockable
<1>4. CASE q.ip = 0 /\ icache' = icache /\ proc' = [proc EXCEPT ![p] = Jump(q, "link_bad")]
  <2>1. PICK n : n = Jump(q, "link_bad")
    OBVIOUS
  <2>2. View(n, "link_bad", "link_bad", q.cwd, q.ip, q.old, q.nx, q.v) /\ Local(n) /\ InOp(n)
    BY <1>2, <2>1, JumpView DEF Bodies
  <2>3. Changed(icache', 0, 0, 0)
    BY <1>2, <1>4, AsItWas
  <2>4. Moves(q, n, 0, FALSE, 0)
    BY <1>1, <1>2, <1>4, <2>2 DEF View, Moves, Count, Refers, HasRef, Holding, HasLock, Pointer, One, Iputs, Inums
  <2>5. 0 \notin Inums
    BY DEF Inums
  <2>. QED BY <1>2, <1>4, <2>1, <2>2, <2>3, <2>4, <2>5, EnteredIs DEF Turn
<1>5. CASE /\ icache[q.ip].lock = 0
           /\ icache' = iget([icache EXCEPT ![q.ip] = ilock(p, q.ip)], found)
           /\ proc' = [proc EXCEPT ![p] = Push(PutInode(q, found), <<"link_exists">>)]
  <2>1. PICK n : n = Push(PutInode(q, found), <<"link_exists">>)
    OBVIOUS
  <2>2. View(n, "iput", "link_exists", q.cwd, q.ip, q.old, q.nx, found) /\ Local(n) /\ InOp(n)
    BY <1>2, <2>1, PutsView DEF Bodies
  <2>3. Changed(icache', q.ip, p, found)
    BY <1>2, <1>5, Steps, GetEntry
  <2>4. Moves(q, n, q.ip, TRUE, found)
    BY <1>1, <1>2, <1>5, <2>2 DEF View, Moves, Count, Refers, HasRef, Holding, HasLock, Pointer, One, Iputs, Inums
  <2>5. icache[q.ip].lock = 0
    BY <1>5
  <2>. QED BY <1>2, <1>5, <2>1, <2>2, <2>3, <2>4, <2>5, EnteredIs DEF Turn
<1>6. CASE /\ icache[q.ip].lock = 0
           /\ icache' = [icache EXCEPT ![q.ip] = iunlock(Store(ilock(p, q.ip), w))]
           /\ proc' = [proc EXCEPT ![p] = Push(PutInode([q EXCEPT !.r = 0, !.log = log], q.ip), <<"link_done">>)]
  <2>1. PICK n : n = Push(PutInode([q EXCEPT !.r = 0, !.log = log], q.ip), <<"link_done">>)
    OBVIOUS
  <2>6. PICK m : m = [q EXCEPT !.r = 0, !.log = log]
    OBVIOUS
  <2>7. IsProcess(m) /\ m.stack = <<>> /\ m.cwd = q.cwd /\ m.ip = q.ip /\ m.old = q.old /\ m.nx = q.nx
    BY <1>2, <2>6, FieldsAre DEF IsProcess, Fields
  <2>2. View(n, "iput", "link_done", q.cwd, q.ip, q.old, q.nx, q.ip) /\ Local(n) /\ InOp(n)
    BY <1>2, <2>1, <2>6, <2>7, PutsView DEF Bodies
  <2>3. Changed(icache', q.ip, 0, 0)
    BY <1>2, <1>6, Steps
  <2>4. Moves(q, n, q.ip, FALSE, 0)
    BY <1>1, <1>2, <1>6, <2>2 DEF View, Moves, Count, Refers, HasRef, Holding, HasLock, Pointer, One, Iputs, Inums
  <2>5. icache[q.ip].lock = 0
    BY <1>6
  <2>. QED BY <1>2, <1>6, <2>1, <2>2, <2>3, <2>4, <2>5, EnteredIs DEF Turn
<1>. QED BY <1>3, <1>4, <1>5, <1>6

LEMMA LinkDoneTurn ==
  ASSUME InodeInv, NEW p \in Procs, LinkDone(p)
  PROVE  \E n : Turn(p, n)
<1>. DEFINE q == proc[p]
<1>1. q.pc = "link_done"
  BY DEF LinkDone, At
<1>2. /\ IsProcess(q) /\ q.stack = <<>> /\ Body(q) = q.pc /\ CacheOK /\ p # 0 /\ InOp(q)
      /\ \A i \in Inums : Holding(q, i) <=> icache[i].lock = p
  BY <1>1, AtLabel DEF Bodies
<1>3. \/ icache' = icache /\ proc' = [proc EXCEPT ![p] = Push(PutInode(q, q.old), <<"end">>)]
  BY DEF LinkDone, Lockable
<1>4. CASE icache' = icache /\ proc' = [proc EXCEPT ![p] = Push(PutInode(q, q.old), <<"end">>)]
  <2>1. PICK n : n = Push(PutInode(q, q.old), <<"end">>)
    OBVIOUS
  <2>2. View(n, "iput", "end", q.cwd, q.ip, q.old, q.nx, q.old) /\ Local(n) /\ InOp(n)
    BY <1>2, <2>1, PutsView
  <2>3. Changed(icache', 0, 0, 0)
    BY <1>2, <1>4, AsItWas
  <2>4. Moves(q, n, 0, FALSE, 0)
    BY <1>1, <1>2, <1>4, <2>2 DEF View, Moves, Count, Refers, HasRef, Holding, HasLock, Pointer, One, Iputs, Inums
  <2>5. 0 \notin Inums
    BY DEF Inums
  <2>. QED BY <1>2, <1>4, <2>1, <2>2, <2>3, <2>4, <2>5, EnteredIs DEF Turn
<1>. QED BY <1>3, <1>4

LEMMA LinkBadTurn ==
  ASSUME InodeInv, NEW p \in Procs, LinkBad(p)
  PROVE  \E n : Turn(p, n)
<1>. DEFINE q == proc[p]
<1>1. q.pc = "link_bad"
  BY DEF LinkBad, At
<1>2. /\ IsProcess(q) /\ q.stack = <<>> /\ Body(q) = q.pc /\ CacheOK /\ p # 0 /\ InOp(q)
      /\ \A i \in Inums : Holding(q, i) <=> icache[i].lock = p
  BY <1>1, AtLabel DEF Bodies
<1>3. PICK w, log : \/ /\ icache[q.old].lock = 0
                       /\ icache' = [icache EXCEPT ![q.old] = iunlock(Store(ilock(p, q.old), w))]
                       /\ proc' = [proc EXCEPT ![p] = FailPut([q EXCEPT !.log = log], q.old)]
  BY DEF LinkBad, Lockable
<1>4. CASE /\ icache[q.old].lock = 0
           /\ icache' = [icache EXCEPT ![q.old] = iunlock(Store(ilock(p, q.old), w))]
           /\ proc' = [proc EXCEPT ![p] = FailPut([q EXCEPT !.log = log], q.old)]
  <2>1. PICK n : n = FailPut([q EXCEPT !.log = log], q.old)
    OBVIOUS
  <2>6. PICK m : m = [q EXCEPT !.log = log]
    OBVIOUS
  <2>7. IsProcess(m) /\ m.stack = <<>> /\ m.cwd = q.cwd /\ m.ip = q.ip /\ m.old = q.old /\ m.nx = q.nx
    BY <1>2, <2>6, FieldsAre DEF IsProcess, Fields
  <2>2. View(n, "iput", "end", q.cwd, q.ip, q.old, q.nx, q.old) /\ Local(n) /\ InOp(n)
    BY <1>2, <2>1, <2>6, <2>7, PutsView
  <2>3. Changed(icache', q.old, 0, 0)
    BY <1>2, <1>4, Steps
  <2>4. Moves(q, n, q.old, FALSE, 0)
    BY <1>1, <1>2, <1>4, <2>2 DEF View, Moves, Count, Refers, HasRef, Holding, HasLock, Pointer, One, Iputs, Inums
  <2>5. icache[q.old].lock = 0
    BY <1>4
  <2>. QED BY <1>2, <1>4, <2>1, <2>2, <2>3, <2>4, <2>5, EnteredIs DEF Turn
<1>. QED BY <1>3, <1>4

LEMMA UnlinkLookupTurn ==
  ASSUME InodeInv, NEW p \in Procs, UnlinkLookup(p)
  PROVE  \E n : Turn(p, n)
<1>. DEFINE q == proc[p]
<1>1. q.pc = "unlink"
  BY DEF UnlinkLookup, At
<1>2. /\ IsProcess(q) /\ q.stack = <<>> /\ Body(q) = q.pc /\ CacheOK /\ p # 0 /\ InOp(q)
      /\ \A i \in Inums : Holding(q, i) <=> icache[i].lock = p
  BY <1>1, AtLabel DEF Bodies
<1>a. PICK found : found = IF Name(q) \in {".", ".."} THEN 0 ELSE dirlookup(disk, ilock(p, q.ip).ip, Name(q))
  OBVIOUS
<1>3. \/ q.ip = 0 /\ icache' = icache /\ proc' = [proc EXCEPT ![p] = Fail(q)]
      \/ /\ icache[q.ip].lock = 0
         /\ icache' = [icache EXCEPT ![q.ip] = iunlock(ilock(p, q.ip))]
         /\ proc' = [proc EXCEPT ![p] = FailPut(q, q.ip)]
      \/ /\ icache[q.ip].lock = 0
         /\ icache' = iget([icache EXCEPT ![q.ip] = ilock(p, q.ip)], found)
         /\ proc' = [proc EXCEPT ![p] = [Jump(q, "unlink2") EXCEPT !.nx = found]]
  BY <1>a DEF UnlinkLookup, Lockable
<1>4. CASE q.ip = 0 /\ icache' = icache /\ proc' = [proc EXCEPT ![p] = Fail(q)]
  <2>1. PICK n : n = Fail(q)
    OBVIOUS
  <2>2. View(n, "end", "end", q.cwd, q.ip, q.old, q.nx, q.v) /\ Local(n) /\ InOp(n)
    BY <1>2, <2>1, FailView
  <2>3. Changed(icache', 0, 0, 0)
    BY <1>2, <1>4, AsItWas
  <2>4. Moves(q, n, 0, FALSE, 0)
    BY <1>1, <1>2, <1>4, <2>2 DEF View, Moves, Count, Refers, HasRef, Holding, HasLock, Pointer, One, Iputs, Inums
  <2>5. 0 \notin Inums
    BY DEF Inums
  <2>. QED BY <1>2, <1>4, <2>1, <2>2, <2>3, <2>4, <2>5, EnteredIs DEF Turn
<1>5. CASE /\ icache[q.ip].lock = 0
           /\ icache' = [icache EXCEPT ![q.ip] = iunlock(ilock(p, q.ip))]
           /\ proc' = [proc EXCEPT ![p] = FailPut(q, q.ip)]
  <2>1. PICK n : n = FailPut(q, q.ip)
    OBVIOUS
  <2>2. View(n, "iput", "end", q.cwd, q.ip, q.old, q.nx, q.ip) /\ Local(n) /\ InOp(n)
    BY <1>2, <2>1, PutsView
  <2>3. Changed(icache', q.ip, 0, 0)
    BY <1>2, <1>5, Steps
  <2>4. Moves(q, n, q.ip, FALSE, 0)
    BY <1>1, <1>2, <1>5, <2>2 DEF View, Moves, Count, Refers, HasRef, Holding, HasLock, Pointer, One, Iputs, Inums
  <2>5. icache[q.ip].lock = 0
    BY <1>5
  <2>. QED BY <1>2, <1>5, <2>1, <2>2, <2>3, <2>4, <2>5, EnteredIs DEF Turn
<1>6. CASE /\ icache[q.ip].lock = 0
           /\ icache' = iget([icache EXCEPT ![q.ip] = ilock(p, q.ip)], found)
           /\ proc' = [proc EXCEPT ![p] = [Jump(q, "unlink2") EXCEPT !.nx = found]]
  <2>1. PICK n : n = [Jump(q, "unlink2") EXCEPT !.nx = found]
    OBVIOUS
  <2>6. /\ n.pc = "unlink2" /\ n.stack = <<>> /\ n.cwd = q.cwd
        /\ n.ip = q.ip /\ n.old = q.old /\ n.nx = found /\ n.v = q.v
    BY <1>2, <2>1, FieldsAre DEF Jump, IsProcess, Fields
  <2>2. View(n, "unlink2", "unlink2", q.cwd, q.ip, q.old, found, q.v) /\ Local(n) /\ InOp(n)
    BY <1>2, <2>1, <2>6, LabelView DEF Bodies, View
  <2>3. Changed(icache', q.ip, p, found)
    BY <1>2, <1>6, Steps, GetEntry
  <2>4. Moves(q, n, q.ip, TRUE, found)
    BY <1>1, <1>2, <1>6, <2>2 DEF View, Moves, Count, Refers, HasRef, Holding, HasLock, Pointer, One, Iputs, Inums
  <2>5. icache[q.ip].lock = 0
    BY <1>6
  <2>. QED BY <1>2, <1>6, <2>1, <2>2, <2>3, <2>4, <2>5, EnteredIs DEF Turn
<1>. QED BY <1>3, <1>4, <1>5, <1>6

\* One inode is locked and another one released.
LEMMA TwoEntered ==
  ASSUME InodeInv, NEW p \in Procs, NEW n, NEW j, NEW k, NEW e, NEW f, icache' = [icache EXCEPT ![j] = e, ![k] = f],
         j \in Inums => Entry(e, icache[j].ref, p) /\ icache[j].lock = 0,
         k \in Inums => Entry(f, icache[k].ref, 0) /\ icache[k].lock = p,
         \A i \in Inums : /\ Count(n, i) = Count(proc[p], i)
                          /\ Holding(n, i) <=> IF i = j THEN TRUE ELSE i # k /\ Holding(proc[p], i)
  PROVE  DOMAIN icache' = Inums /\ \A i \in Inums : Entered(p, proc[p], n, icache[i], icache'[i], i, 0)
<1>1. p # 0 /\ CacheOK /\ \A i \in Inums : icache[i].lock = p <=> Holding(proc[p], i)
  BY DEF InodeInv, LocksOwned, Holding, Procs
<1>2. ASSUME NEW i \in Inums PROVE Entered(p, proc[p], n, icache[i], icache'[i], i, 0)
  <2>1. j # k \/ i \notin {j, k}
    BY <1>1
  <2>2. icache'[i] = IF i = j THEN e ELSE IF i = k THEN f ELSE icache[i]
    BY <1>1, <2>1 DEF CacheOK
  <2>3. /\ IsEntry(icache'[i]) /\ icache'[i].ref = icache[i].ref
        /\ icache'[i].lock = IF i = j THEN p ELSE IF i = k THEN 0 ELSE icache[i].lock
    BY <1>1, <2>2 DEF Entry, CacheOK
  <2>4. icache[i].ref \in Nat /\ Count(proc[p], i) \in Nat
    BY <1>1, CountIs DEF CacheOK
  <2>5. icache'[i].ref = icache[i].ref + (Count(n, i) - Count(proc[p], i)) + 0
    BY <2>3, <2>4
  <2>. QED BY <1>1, <2>1, <2>3, <2>5 DEF Entered
<1>. QED BY <1>1, <1>2 DEF CacheOK

LEMMA UnlinkEntryTurn ==
  ASSUME InodeInv, NEW p \in Procs, UnlinkEntry(p)
  PROVE  \E n : Turn(p, n)
<1>. DEFINE q == proc[p]
<1>1. q.pc = "unlink2"
  BY DEF UnlinkEntry, At
<1>2. /\ IsProcess(q) /\ q.stack = <<>> /\ Body(q) = q.pc /\ CacheOK /\ p # 0 /\ InOp(q)
      /\ \A i \in Inums : Holding(q, i) <=> icache[i].lock = p
  BY <1>1, AtLabel DEF Bodies
<1>a. PICK dir, cleared, w, log :
        /\ dir \in BOOLEAN /\ dir = (ilock(p, q.nx).ip.type = "T_DIR")
        /\ cleared = writei(WorkOn(p, icache[q.ip]), q.ip, First(Offsets(disk, icache[q.ip].ip, Name(q))), <<Zero>>)
        /\ w = (IF dir THEN iupdate([cleared EXCEPT !.ip.nlink = @ - 1], q.ip) ELSE cleared)
        /\ log = w.log
  OBVIOUS
<1>3. \/ /\ icache[q.nx].lock = 0
         /\ icache' = [icache EXCEPT ![q.nx] = iunlock(ilock(p, q.nx))]
         /\ proc' = [proc EXCEPT ![p] = Push(PutInode(q, q.nx), <<"unlink_bad">>)]
      \/ /\ icache[q.nx].lock = 0
         /\ icache' = [icache EXCEPT ![q.nx] = ilock(p, q.nx), ![q.ip] = iunlock(Store(icache[q.ip], w))]
         /\ proc' = [proc EXCEPT ![p] = Push(PutInode([q EXCEPT !.log = log], q.ip), <<"unlink3">>)]
  BY <1>a DEF UnlinkEntry, Lockable
<1>4. CASE /\ icache[q.nx].lock = 0
           /\ icache' = [icache EXCEPT ![q.nx] = iunlock(ilock(p, q.nx))]
           /\ proc' = [proc EXCEPT ![p] = Push(PutInode(q, q.nx), <<"unlink_bad">>)]
  <2>1. PICK n : n = Push(PutInode(q, q.nx), <<"unlink_bad">>)
    OBVIOUS
  <2>2. View(n, "iput", "unlink_bad", q.cwd, q.ip, q.old, q.nx, q.nx) /\ Local(n) /\ InOp(n)
    BY <1>2, <2>1, PutsView DEF Bodies
  <2>3. Changed(icache', q.nx, 0, 0)
    BY <1>2, <1>4, Steps
  <2>8. q.ip \in Inums => q.nx # q.ip /\ icache[q.ip].lock = p
    BY <1>1, <1>2, <1>4 DEF Holding, HasLock, Pointer
  <2>4. Moves(q, n, q.nx, FALSE, 0)
    BY <1>1, <1>2, <1>4, <2>2, <2>8 DEF View, Moves, Count, Refers, HasRef, Holding, HasLock, Pointer, One, Iputs, Inums
  <2>5. icache[q.nx].lock = 0
    BY <1>4
  <2>. QED BY <1>2, <1>4, <2>1, <2>2, <2>3, <2>4, <2>5, EnteredIs DEF Turn
<1>5. CASE /\ icache[q.nx].lock = 0
          /\ icache' = [icache EXCEPT ![q.nx] = ilock(p, q.nx), ![q.ip] = iunlock(Store(icache[q.ip], w))]
          /\ proc' = [proc EXCEPT ![p] = Push(PutInode([q EXCEPT !.log = log], q.ip), <<"unlink3">>)]
  <2>1. PICK n : n = Push(PutInode([q EXCEPT !.log = log], q.ip), <<"unlink3">>)
    OBVIOUS
  <2>6. PICK m : m = [q EXCEPT !.log = log]
    OBVIOUS
  <2>7. IsProcess(m) /\ m.stack = <<>> /\ m.cwd = q.cwd /\ m.ip = q.ip /\ m.old = q.old /\ m.nx = q.nx
    BY <1>2, <2>6, FieldsAre DEF IsProcess, Fields
  <2>2. View(n, "iput", "unlink3", q.cwd, q.ip, q.old, q.nx, q.ip) /\ Local(n) /\ InOp(n)
    BY <1>2, <2>1, <2>6, <2>7, PutsView DEF Bodies
  <2>8. q.ip \in Inums => q.nx # q.ip /\ icache[q.ip].lock = p
    BY <1>1, <1>2, <1>5 DEF Holding, HasLock, Pointer
  <2>3. \A i \in Inums : /\ Count(n, i) = Count(q, i)
                         /\ Holding(n, i) <=> IF i = q.nx THEN TRUE ELSE i # q.ip /\ Holding(q, i)
    BY <1>1, <1>2, <2>2, <2>8 DEF View, Count, Refers, HasRef, Holding, HasLock, Pointer, One, Iputs, Inums
  <2>4. PICK e, f : e = ilock(p, q.nx) /\ f = iunlock(Store(icache[q.ip], w))
    OBVIOUS
  <2>5. q.nx \in Inums => Entry(e, icache[q.nx].ref, p) /\ icache[q.nx].lock = 0
    BY <1>2, <1>5, <2>4, Entries
  <2>9. q.ip \in Inums => Entry(f, icache[q.ip].ref, 0) /\ icache[q.ip].lock = p
    BY <1>2, <2>4, <2>8, Entries
  <2>10. icache' = [icache EXCEPT ![q.nx] = e, ![q.ip] = f]
    BY <1>5, <2>4
  <2>11. DOMAIN icache' = Inums /\ \A i \in Inums : Entered(p, q, n, icache[i], icache'[i], i, 0)
    BY <2>3, <2>5, <2>9, <2>10, TwoEntered
  <2>. QED BY <1>2, <1>5, <2>1, <2>2, <2>11 DEF Turn
<1>. QED BY <1>3, <1>4, <1>5

LEMMA UnlinkBadTurn ==
  ASSUME InodeInv, NEW p \in Procs, UnlinkBad(p)
  PROVE  \E n : Turn(p, n)
<1>. DEFINE q == proc[p]
<1>1. q.pc = "unlink_bad"
  BY DEF UnlinkBad, At
<1>2. /\ IsProcess(q) /\ q.stack = <<>> /\ Body(q) = q.pc /\ CacheOK /\ p # 0 /\ InOp(q)
      /\ \A i \in Inums : Holding(q, i) <=> icache[i].lock = p
  BY <1>1, AtLabel DEF Bodies
<1>3. \/ /\ icache' = [icache EXCEPT ![q.ip] = iunlock(icache[q.ip])]
         /\ proc' = [proc EXCEPT ![p] = FailPut(q, q.ip)]
  BY DEF UnlinkBad, Lockable
<1>4. CASE /\ icache' = [icache EXCEPT ![q.ip] = iunlock(icache[q.ip])]
           /\ proc' = [proc EXCEPT ![p] = FailPut(q, q.ip)]
  <2>1. PICK n : n = FailPut(q, q.ip)
    OBVIOUS
  <2>2. View(n, "iput", "end", q.cwd, q.ip, q.old, q.nx, q.ip) /\ Local(n) /\ InOp(n)
    BY <1>2, <2>1, PutsView
  <2>3. Changed(icache', q.ip, 0, 0)
    BY <1>2, <1>4, Steps
  <2>4. Moves(q, n, q.ip, FALSE, 0)
    BY <1>1, <1>2, <1>4, <2>2 DEF View, Moves, Count, Refers, HasRef, Holding, HasLock, Pointer, One, Iputs, Inums
  <2>5. q.ip \in Inums => icache[q.ip].lock \in {0, p}
    BY <1>1, <1>2, <1>4 DEF Holding, HasLock, Pointer
  <2>. QED BY <1>2, <1>4, <2>1, <2>2, <2>3, <2>4, <2>5, EnteredIs DEF Turn
<1>. QED BY <1>3, <1>4

LEMMA UnlinkInodeTurn ==
  ASSUME InodeInv, NEW p \in Procs, UnlinkInode(p)
  PROVE  \E n : Turn(p, n)
<1>. DEFINE q == proc[p]
<1>1. q.pc = "unlink3"
  BY DEF UnlinkInode, At
<1>2. /\ IsProcess(q) /\ q.stack = <<>> /\ Body(q) = q.pc /\ CacheOK /\ p # 0 /\ InOp(q)
      /\ \A i \in Inums : Holding(q, i) <=> icache[i].lock = p
  BY <1>1, AtLabel DEF Bodies
<1>3. PICK w, log : \/ /\ icache' = [icache EXCEPT ![q.nx] = iunlock(Store(icache[q.nx], w))]
                       /\ proc' = [proc EXCEPT ![p] = PutInode([Push(q, <<"end">>) EXCEPT !.log = log], q.nx)]
  BY DEF UnlinkInode, Lockable
<1>4. CASE /\ icache' = [icache EXCEPT ![q.nx] = iunlock(Store(icache[q.nx], w))]
           /\ proc' = [proc EXCEPT ![p] = PutInode([Push(q, <<"end">>) EXCEPT !.log = log], q.nx)]
  <2>1. PICK n : n = PutInode([Push(q, <<"end">>) EXCEPT !.log = log], q.nx)
    OBVIOUS
  <2>7. <<"end">> \o <<>> = <<"end">>
    BY ShortSequences
  <2>6. /\ n.pc = "iput" /\ n.stack = <<"end">> /\ n.cwd = q.cwd
        /\ n.ip = q.ip /\ n.old = q.old /\ n.nx = q.nx /\ n.v = q.nx
    BY <1>2, <2>1, FieldsAre, <2>7 DEF PutInode, Push, IsProcess, Fields
  <2>2. View(n, "iput", "end", q.cwd, q.ip, q.old, q.nx, q.nx) /\ Local(n) /\ InOp(n)
    BY <1>2, <2>1, <2>6, PutView DEF View
  <2>3. Changed(icache', q.nx, 0, 0)
    BY <1>2, <1>4, Steps
  <2>4. Moves(q, n, q.nx, FALSE, 0)
    BY <1>1, <1>2, <1>4, <2>2 DEF View, Moves, Count, Refers, HasRef, Holding, HasLock, Pointer, One, Iputs, Inums
  <2>5. q.nx \in Inums => icache[q.nx].lock \in {0, p}
    BY <1>1, <1>2, <1>4 DEF Holding, HasLock, Pointer
  <2>. QED BY <1>2, <1>4, <2>1, <2>2, <2>3, <2>4, <2>5, EnteredIs DEF Turn
<1>. QED BY <1>3, <1>4

LEMMA CreateLookupTurn ==
  ASSUME InodeInv, NEW p \in Procs, CreateLookup(p)
  PROVE  \E n : Turn(p, n)
<1>. DEFINE q == proc[p]
<1>1. q.pc = "create"
  BY DEF CreateLookup, At
<1>2. /\ IsProcess(q) /\ q.stack = <<>> /\ Body(q) = q.pc /\ CacheOK /\ p # 0 /\ InOp(q)
      /\ \A i \in Inums : Holding(q, i) <=> icache[i].lock = p
  BY <1>1, AtLabel DEF Bodies
<1>3. PICK found, new, log : \/ q.ip = 0 /\ icache' = icache /\ proc' = [proc EXCEPT ![p] = Fail(q)]
                             \/ /\ icache[q.ip].lock = 0
                                /\ icache' = iget([icache EXCEPT ![q.ip] = iunlock(ilock(p, q.ip))], found)
                                /\ proc' = [proc EXCEPT ![p] = Push([PutInode(q, q.ip) EXCEPT !.nx = found],
                                                                    <<"create_old">>)]
                             \/ /\ icache[q.ip].lock = 0
                                /\ icache' = iget([icache EXCEPT ![q.ip] = ilock(p, q.ip)], new)
                                /\ proc' = [proc EXCEPT ![p] = [Jump(q, "create_new") EXCEPT !.nx = new, !.log = log]]
  BY DEF CreateLookup, Lockable
<1>4. CASE q.ip = 0 /\ icache' = icache /\ proc' = [proc EXCEPT ![p] = Fail(q)]
  <2>1. PICK n : n = Fail(q)
    OBVIOUS
  <2>2. View(n, "end", "end", q.cwd, q.ip, q.old, q.nx, q.v) /\ Local(n) /\ InOp(n)
    BY <1>2, <2>1, FailView
  <2>3. Changed(icache', 0, 0, 0)
    BY <1>2, <1>4, AsItWas
  <2>4. Moves(q, n, 0, FALSE, 0)
    BY <1>1, <1>2, <1>4, <2>2 DEF View, Moves, Count, Refers, HasRef, Holding, HasLock, Pointer, One, Iputs, Inums
  <2>5. 0 \notin Inums
    BY DEF Inums
  <2>. QED BY <1>2, <1>4, <2>1, <2>2, <2>3, <2>4, <2>5, EnteredIs DEF Turn
<1>5. CASE /\ icache[q.ip].lock = 0
           /\ icache' = iget([icache EXCEPT ![q.ip] = iunlock(ilock(p, q.ip))], found)
           /\ proc' = [proc EXCEPT ![p] = Push([PutInode(q, q.ip) EXCEPT !.nx = found], <<"create_old">>)]
  <2>1. PICK n : n = Push([PutInode(q, q.ip) EXCEPT !.nx = found], <<"create_old">>)
    OBVIOUS
  <2>7. <<"create_old">> \o <<>> = <<"create_old">>
    BY ShortSequences
  <2>6. /\ n.pc = "iput" /\ n.stack = <<"create_old">> /\ n.cwd = q.cwd
        /\ n.ip = q.ip /\ n.old = q.old /\ n.nx = found /\ n.v = q.ip
    BY <1>2, <2>1, FieldsAre, <2>7 DEF PutInode, Push, IsProcess, Fields
  <2>2. View(n, "iput", "create_old", q.cwd, q.ip, q.old, found, q.ip) /\ Local(n) /\ InOp(n)
    BY <1>2, <2>1, <2>6, PutView DEF Bodies, View
  <2>3. Changed(icache', q.ip, 0, found)
    BY <1>2, <1>5, Steps, GetEntry
  <2>4. Moves(q, n, q.ip, FALSE, found)
    BY <1>1, <1>2, <1>5, <2>2 DEF View, Moves, Count, Refers, HasRef, Holding, HasLock, Pointer, One, Iputs, Inums
  <2>5. icache[q.ip].lock = 0
    BY <1>5
  <2>. QED BY <1>2, <1>5, <2>1, <2>2, <2>3, <2>4, <2>5, EnteredIs DEF Turn
<1>6. CASE /\ icache[q.ip].lock = 0
           /\ icache' = iget([icache EXCEPT ![q.ip] = ilock(p, q.ip)], new)
           /\ proc' = [proc EXCEPT ![p] = [Jump(q, "create_new") EXCEPT !.nx = new, !.log = log]]
  <2>1. PICK n : n = [Jump(q, "create_new") EXCEPT !.nx = new, !.log = log]
    OBVIOUS
  <2>6. /\ n.pc = "create_new" /\ n.stack = <<>> /\ n.cwd = q.cwd
        /\ n.ip = q.ip /\ n.old = q.old /\ n.nx = new /\ n.v = q.v
    BY <1>2, <2>1, FieldsAre DEF Jump, IsProcess, Fields
  <2>2. View(n, "create_new", "create_new", q.cwd, q.ip, q.old, new, q.v) /\ Local(n) /\ InOp(n)
    BY <1>2, <2>1, <2>6, LabelView DEF Bodies, View
  <2>3. Changed(icache', q.ip, p, new)
    BY <1>2, <1>6, Steps, GetEntry
  <2>4. Moves(q, n, q.ip, TRUE, new)
    BY <1>1, <1>2, <1>6, <2>2 DEF View, Moves, Count, Refers, HasRef, Holding, HasLock, Pointer, One, Iputs, Inums
  <2>5. icache[q.ip].lock = 0
    BY <1>6
  <2>. QED BY <1>2, <1>6, <2>1, <2>2, <2>3, <2>4, <2>5, EnteredIs DEF Turn
<1>. QED BY <1>3, <1>4, <1>5, <1>6

LEMMA CreateOldTurn ==
  ASSUME InodeInv, NEW p \in Procs, CreateOld(p)
  PROVE  \E n : Turn(p, n)
<1>. DEFINE q == proc[p]
<1>1. q.pc = "create_old"
  BY DEF CreateOld, At
<1>2. /\ IsProcess(q) /\ q.stack = <<>> /\ Body(q) = q.pc /\ CacheOK /\ p # 0 /\ InOp(q)
      /\ \A i \in Inums : Holding(q, i) <=> icache[i].lock = p
  BY <1>1, AtLabel DEF Bodies
<1>a. PICK good \in BOOLEAN : good = (NewType(p) = "T_FILE" /\ ilock(p, q.nx).ip.type = "T_FILE")
  OBVIOUS
<1>3. \/ /\ icache[q.nx].lock = 0
         /\ icache' = [icache EXCEPT ![q.nx] = ilock(p, q.nx)]
         /\ proc' = [proc EXCEPT ![p] = [Jump(q, "open2") EXCEPT !.ip = q.nx]]
      \/ /\ icache[q.nx].lock = 0
         /\ icache' = [icache EXCEPT ![q.nx] = iunlock(ilock(p, q.nx))]
         /\ proc' = [proc EXCEPT ![p] = FailPut(q, q.nx)]
  BY <1>a DEF CreateOld, Lockable
<1>4. CASE /\ icache[q.nx].lock = 0
           /\ icache' = [icache EXCEPT ![q.nx] = ilock(p, q.nx)]
           /\ proc' = [proc EXCEPT ![p] = [Jump(q, "open2") EXCEPT !.ip = q.nx]]
  <2>1. PICK n : n = [Jump(q, "open2") EXCEPT !.ip = q.nx]
    OBVIOUS
  <2>6. n.pc = "open2" /\ n.stack = <<>> /\ n.cwd = q.cwd /\ n.ip = q.nx /\ n.old = q.old /\ n.nx = q.nx /\ n.v = q.v
    BY <1>2, <2>1, FieldsAre DEF Jump, IsProcess, Fields
  <2>2. View(n, "open2", "open2", q.cwd, q.nx, q.old, q.nx, q.v) /\ Local(n) /\ InOp(n)
    BY <1>2, <2>1, <2>6, LabelView DEF Bodies, View
  <2>3. Changed(icache', q.nx, p, 0)
    BY <1>2, <1>4, Steps
  <2>4. Moves(q, n, q.nx, TRUE, 0)
    BY <1>1, <1>2, <1>4, <2>2 DEF View, Moves, Count, Refers, HasRef, Holding, HasLock, Pointer, One, Iputs, Inums
  <2>5. icache[q.nx].lock = 0
    BY <1>4
  <2>. QED BY <1>2, <1>4, <2>1, <2>2, <2>3, <2>4, <2>5, EnteredIs DEF Turn
<1>5. CASE /\ icache[q.nx].lock = 0
           /\ icache' = [icache EXCEPT ![q.nx] = iunlock(ilock(p, q.nx))]
           /\ proc' = [proc EXCEPT ![p] = FailPut(q, q.nx)]
  <2>1. PICK n : n = FailPut(q, q.nx)
    OBVIOUS
  <2>2. View(n, "iput", "end", q.cwd, q.ip, q.old, q.nx, q.nx) /\ Local(n) /\ InOp(n)
    BY <1>2, <2>1, PutsView
  <2>3. Changed(icache', q.nx, 0, 0)
    BY <1>2, <1>5, Steps
  <2>4. Moves(q, n, q.nx, FALSE, 0)
    BY <1>1, <1>2, <1>5, <2>2 DEF View, Moves, Count, Refers, HasRef, Holding, HasLock, Pointer, One, Iputs, Inums
  <2>5. icache[q.nx].lock = 0
    BY <1>5
  <2>. QED BY <1>2, <1>5, <2>1, <2>2, <2>3, <2>4, <2>5, EnteredIs DEF Turn
<1>. QED BY <1>3, <1>4, <1>5

LEMMA CreateNewTurn ==
  ASSUME InodeInv, NEW p \in Procs, CreateNew(p)
  PROVE  \E n : Turn(p, n)
<1>. DEFINE q == proc[p]
<1>1. q.pc = "create_new"
  BY DEF CreateNew, At
<1>2. /\ IsProcess(q) /\ q.stack = <<>> /\ Body(q) = q.pc /\ CacheOK /\ p # 0 /\ InOp(q)
      /\ \A i \in Inums : Holding(q, i) <=> icache[i].lock = p
  BY <1>1, AtLabel DEF Bodies
<1>3. PICK w, made, log : \/ /\ icache[q.nx].lock = 0
                             /\ icache' = [icache EXCEPT ![q.nx] = Store(ilock(p, q.nx), made),
                                           ![q.ip] = iunlock(Store(icache[q.ip], w))]
                             /\ proc' = [proc EXCEPT ![p] = Push([PutInode(q, q.ip) EXCEPT !.log = log,
                                                                  !.ip = q.nx], <<"created">>)]
  BY Zenon DEF CreateNew, Lockable
<1>4. CASE /\ icache[q.nx].lock = 0
          /\ icache' = [icache EXCEPT ![q.nx] = Store(ilock(p, q.nx), made),
                        ![q.ip] = iunlock(Store(icache[q.ip], w))]
          /\ proc' = [proc EXCEPT ![p] = Push([PutInode(q, q.ip) EXCEPT !.log = log, !.ip = q.nx], <<"created">>)]
  <2>1. PICK n : n = Push([PutInode(q, q.ip) EXCEPT !.log = log, !.ip = q.nx], <<"created">>)
    OBVIOUS
  <2>7. <<"created">> \o <<>> = <<"created">>
    BY ShortSequences
  <2>6. /\ n.pc = "iput" /\ n.stack = <<"created">> /\ n.cwd = q.cwd
        /\ n.ip = q.nx /\ n.old = q.old /\ n.nx = q.nx /\ n.v = q.ip
    BY <1>2, <2>1, FieldsAre, <2>7 DEF PutInode, Push, IsProcess, Fields
  <2>2. View(n, "iput", "created", q.cwd, q.nx, q.old, q.nx, q.ip) /\ Local(n) /\ InOp(n)
    BY <1>2, <2>1, <2>6, PutView DEF Bodies, View
  <2>8. q.ip \in Inums => q.nx # q.ip /\ icache[q.ip].lock = p
    BY <1>1, <1>2, <1>4 DEF Holding, HasLock, Pointer
  <2>3. \A i \in Inums : /\ Count(n, i) = Count(q, i)
                         /\ Holding(n, i) <=> IF i = q.nx THEN TRUE ELSE i # q.ip /\ Holding(q, i)
    BY <1>1, <1>2, <2>2, <2>8 DEF View, Count, Refers, HasRef, Holding, HasLock, Pointer, One, Iputs, Inums
  <2>4. PICK e, f : e = Store(ilock(p, q.nx), made) /\ f = iunlock(Store(icache[q.ip], w))
    OBVIOUS
  <2>5. q.nx \in Inums => Entry(e, icache[q.nx].ref, p) /\ icache[q.nx].lock = 0
    BY <1>2, <1>4, <2>4, Entries
  <2>9. q.ip \in Inums => Entry(f, icache[q.ip].ref, 0) /\ icache[q.ip].lock = p
    BY <1>2, <2>4, <2>8, Entries
  <2>10. icache' = [icache EXCEPT ![q.nx] = e, ![q.ip] = f]
    BY <1>4, <2>4
  <2>11. DOMAIN icache' = Inums /\ \A i \in Inums : Entered(p, q, n, icache[i], icache'[i], i, 0)
    BY <2>3, <2>5, <2>9, <2>10, TwoEntered
  <2>. QED BY <1>2, <1>4, <2>1, <2>2, <2>11 DEF Turn
<1>. QED BY <1>3, <1>4

LEMMA CreatedTurn ==
  ASSUME InodeInv, NEW p \in Procs, Created(p)
  PROVE  \E n : Turn(p, n)
<1>. DEFINE q == proc[p]
<1>1. q.pc = "created"
  BY DEF Created, At
<1>2. /\ IsProcess(q) /\ q.stack = <<>> /\ Body(q) = q.pc /\ CacheOK /\ p # 0 /\ InOp(q)
      /\ \A i \in Inums : Holding(q, i) <=> icache[i].lock = p
  BY <1>1, AtLabel DEF Bodies
<1>3. \/ icache' = icache /\ proc' = [proc EXCEPT ![p] = Jump(q, "open2")]
      \/ /\ icache' = [icache EXCEPT ![q.ip] = iunlock(icache[q.ip])]
         /\ proc' = [proc EXCEPT ![p] = PutInode(Push([q EXCEPT !.r = 0], <<"end">>), q.ip)]
  BY DEF Created, Lockable
<1>4. CASE icache' = icache /\ proc' = [proc EXCEPT ![p] = Jump(q, "open2")]
  <2>1. PICK n : n = Jump(q, "open2")
    OBVIOUS
  <2>2. View(n, "open2", "open2", q.cwd, q.ip, q.old, q.nx, q.v) /\ Local(n) /\ InOp(n)
    BY <1>2, <2>1, JumpView DEF Bodies
  <2>3. Changed(icache', 0, 0, 0)
    BY <1>2, <1>4, AsItWas
  <2>4. Moves(q, n, 0, FALSE, 0)
    BY <1>1, <1>2, <1>4, <2>2 DEF View, Moves, Count, Refers, HasRef, Holding, HasLock, Pointer, One, Iputs, Inums
  <2>5. 0 \notin Inums
    BY DEF Inums
  <2>. QED BY <1>2, <1>4, <2>1, <2>2, <2>3, <2>4, <2>5, EnteredIs DEF Turn
<1>5. CASE /\ icache' = [icache EXCEPT ![q.ip] = iunlock(icache[q.ip])]
           /\ proc' = [proc EXCEPT ![p] = PutInode(Push([q EXCEPT !.r = 0], <<"end">>), q.ip)]
  <2>1. PICK n : n = PutInode(Push([q EXCEPT !.r = 0], <<"end">>), q.ip)
    OBVIOUS
  <2>6. PICK m : m = [q EXCEPT !.r = 0]
    OBVIOUS
  <2>7. IsProcess(m) /\ m.stack = <<>> /\ m.cwd = q.cwd /\ m.ip = q.ip /\ m.old = q.old /\ m.nx = q.nx
    BY <1>2, <2>6, FieldsAre DEF IsProcess, Fields
  <2>2. View(n, "iput", "end", q.cwd, q.ip, q.old, q.nx, q.ip) /\ Local(n) /\ InOp(n)
    BY <1>2, <2>1, <2>6, <2>7, PutsView
  <2>3. Changed(icache', q.ip, 0, 0)
    BY <1>2, <1>5, Steps
  <2>4. Moves(q, n, q.ip, FALSE, 0)
    BY <1>1, <1>2, <1>5, <2>2 DEF View, Moves, Count, Refers, HasRef, Holding, HasLock, Pointer, One, Iputs, Inums
  <2>5. q.ip \in Inums => icache[q.ip].lock \in {0, p}
    BY <1>1, <1>2, <1>5 DEF Holding, HasLock, Pointer
  <2>. QED BY <1>2, <1>5, <2>1, <2>2, <2>3, <2>4, <2>5, EnteredIs DEF Turn
<1>. QED BY <1>3, <1>4, <1>5

LEMMA OpenInodeTurn ==
  ASSUME InodeInv, NEW p \in Procs, OpenInode(p)
  PROVE  \E n : Turn(p, n)
<1>. DEFINE q == proc[p]
<1>1. q.pc = "open"
  BY DEF OpenInode, At
<1>2. /\ IsProcess(q) /\ q.stack = <<>> /\ Body(q) = q.pc /\ CacheOK /\ p # 0 /\ InOp(q)
      /\ \A i \in Inums : Holding(q, i) <=> icache[i].lock = p
  BY <1>1, AtLabel DEF Bodies
<1>a. PICK bad \in BOOLEAN : bad = (ilock(p, q.ip).ip.type = "T_DIR" /\ Arg(p).mode # {})
  OBVIOUS
<1>3. \/ q.ip = 0 /\ icache' = icache /\ proc' = [proc EXCEPT ![p] = Fail(q)]
      \/ /\ icache[q.ip].lock = 0
         /\ icache' = [icache EXCEPT ![q.ip] = iunlock(ilock(p, q.ip))]
         /\ proc' = [proc EXCEPT ![p] = FailPut(q, q.ip)]
      \/ /\ icache[q.ip].lock = 0
         /\ icache' = [icache EXCEPT ![q.ip] = ilock(p, q.ip)]
         /\ proc' = [proc EXCEPT ![p] = Jump(q, "open2")]
  BY <1>a DEF OpenInode, Lockable
<1>4. CASE q.ip = 0 /\ icache' = icache /\ proc' = [proc EXCEPT ![p] = Fail(q)]
  <2>1. PICK n : n = Fail(q)
    OBVIOUS
  <2>2. View(n, "end", "end", q.cwd, q.ip, q.old, q.nx, q.v) /\ Local(n) /\ InOp(n)
    BY <1>2, <2>1, FailView
  <2>3. Changed(icache', 0, 0, 0)
    BY <1>2, <1>4, AsItWas
  <2>4. Moves(q, n, 0, FALSE, 0)
    BY <1>1, <1>2, <1>4, <2>2 DEF View, Moves, Count, Refers, HasRef, Holding, HasLock, Pointer, One, Iputs, Inums
  <2>5. 0 \notin Inums
    BY DEF Inums
  <2>. QED BY <1>2, <1>4, <2>1, <2>2, <2>3, <2>4, <2>5, EnteredIs DEF Turn
<1>5. CASE /\ icache[q.ip].lock = 0
           /\ icache' = [icache EXCEPT ![q.ip] = iunlock(ilock(p, q.ip))]
           /\ proc' = [proc EXCEPT ![p] = FailPut(q, q.ip)]
  <2>1. PICK n : n = FailPut(q, q.ip)
    OBVIOUS
  <2>2. View(n, "iput", "end", q.cwd, q.ip, q.old, q.nx, q.ip) /\ Local(n) /\ InOp(n)
    BY <1>2, <2>1, PutsView
  <2>3. Changed(icache', q.ip, 0, 0)
    BY <1>2, <1>5, Steps
  <2>4. Moves(q, n, q.ip, FALSE, 0)
    BY <1>1, <1>2, <1>5, <2>2 DEF View, Moves, Count, Refers, HasRef, Holding, HasLock, Pointer, One, Iputs, Inums
  <2>5. icache[q.ip].lock = 0
    BY <1>5
  <2>. QED BY <1>2, <1>5, <2>1, <2>2, <2>3, <2>4, <2>5, EnteredIs DEF Turn
<1>6. CASE /\ icache[q.ip].lock = 0
           /\ icache' = [icache EXCEPT ![q.ip] = ilock(p, q.ip)]
           /\ proc' = [proc EXCEPT ![p] = Jump(q, "open2")]
  <2>1. PICK n : n = Jump(q, "open2")
    OBVIOUS
  <2>2. View(n, "open2", "open2", q.cwd, q.ip, q.old, q.nx, q.v) /\ Local(n) /\ InOp(n)
    BY <1>2, <2>1, JumpView DEF Bodies
  <2>3. Changed(icache', q.ip, p, 0)
    BY <1>2, <1>6, Steps
  <2>4. Moves(q, n, q.ip, TRUE, 0)
    BY <1>1, <1>2, <1>6, <2>2 DEF View, Moves, Count, Refers, HasRef, Holding, HasLock, Pointer, One, Iputs, Inums
  <2>5. icache[q.ip].lock = 0
    BY <1>6
  <2>. QED BY <1>2, <1>6, <2>1, <2>2, <2>3, <2>4, <2>5, EnteredIs DEF Turn
<1>. QED BY <1>3, <1>4, <1>5, <1>6

LEMMA ExecTurn ==
  ASSUME InodeInv, NEW p \in Procs, Exec(p)
  PROVE  \E n : Turn(p, n)
<1>. DEFINE q == proc[p]
<1>1. q.pc = "exec"
  BY DEF Exec, At
<1>2. /\ IsProcess(q) /\ q.stack = <<>> /\ Body(q) = q.pc /\ CacheOK /\ p # 0 /\ InOp(q)
      /\ \A i \in Inums : Holding(q, i) <=> icache[i].lock = p
  BY <1>1, AtLabel DEF Bodies
<1>3. PICK r : \/ q.ip = 0 /\ icache' = icache /\ proc' = [proc EXCEPT ![p] = Fail(q)]
               \/ /\ icache[q.ip].lock = 0
                  /\ icache' = [icache EXCEPT ![q.ip] = iunlock(ilock(p, q.ip))]
                  /\ proc' = [proc EXCEPT ![p] = [FailPut(q, q.ip) EXCEPT !.r = r]]
  BY DEF Exec, Lockable
<1>4. CASE q.ip = 0 /\ icache' = icache /\ proc' = [proc EXCEPT ![p] = Fail(q)]
  <2>1. PICK n : n = Fail(q)
    OBVIOUS
  <2>2. View(n, "end", "end", q.cwd, q.ip, q.old, q.nx, q.v) /\ Local(n) /\ InOp(n)
    BY <1>2, <2>1, FailView
  <2>3. Changed(icache', 0, 0, 0)
    BY <1>2, <1>4, AsItWas
  <2>4. Moves(q, n, 0, FALSE, 0)
    BY <1>1, <1>2, <1>4, <2>2 DEF View, Moves, Count, Refers, HasRef, Holding, HasLock, Pointer, One, Iputs, Inums
  <2>5. 0 \notin Inums
    BY DEF Inums
  <2>. QED BY <1>2, <1>4, <2>1, <2>2, <2>3, <2>4, <2>5, EnteredIs DEF Turn
<1>5. CASE /\ icache[q.ip].lock = 0
           /\ icache' = [icache EXCEPT ![q.ip] = iunlock(ilock(p, q.ip))]
           /\ proc' = [proc EXCEPT ![p] = [FailPut(q, q.ip) EXCEPT !.r = r]]
  <2>1. PICK n : n = [FailPut(q, q.ip) EXCEPT !.r = r]
    OBVIOUS
  <2>7. PICK m : m = FailPut(q, q.ip)
    OBVIOUS
  <2>8. <<"end">> \o <<>> = <<"end">>
    BY ShortSequences
  <2>9. /\ IsProcess(m) /\ m.pc = "iput" /\ m.stack = <<"end">> /\ m.cwd = q.cwd /\ m.ip = q.ip /\ m.old = q.old
        /\ m.nx = q.nx /\ m.v = q.ip
    BY <1>2, <2>7, <2>8, FieldsAre DEF FailPut, PutInode, Push, IsProcess, Fields
  <2>6. /\ n.pc = "iput" /\ n.stack = <<"end">> /\ n.cwd = q.cwd
        /\ n.ip = q.ip /\ n.old = q.old /\ n.nx = q.nx /\ n.v = q.ip
    BY <1>2, <2>1, <2>7, <2>9, FieldsAre DEF IsProcess, Fields
  <2>2. View(n, "iput", "end", q.cwd, q.ip, q.old, q.nx, q.ip) /\ Local(n) /\ InOp(n)
    BY <2>6, PutView DEF View
  <2>3. Changed(icache', q.ip, 0, 0)
    BY <1>2, <1>5, Steps
  <2>4. Moves(q, n, q.ip, FALSE, 0)
    BY <1>1, <1>2, <1>5, <2>2 DEF View, Moves, Count, Refers, HasRef, Holding, HasLock, Pointer, One, Iputs, Inums
  <2>5. icache[q.ip].lock = 0
    BY <1>5
  <2>. QED BY <1>2, <1>5, <2>1, <2>2, <2>3, <2>4, <2>5, EnteredIs DEF Turn
<1>. QED BY <1>3, <1>4, <1>5

LEMMA ChdirTurn ==
  ASSUME InodeInv, NEW p \in Procs, Chdir(p)
  PROVE  \E n : Turn(p, n)
<1>. DEFINE q == proc[p]
<1>1. q.pc = "chdir"
  BY DEF Chdir, At
<1>2. /\ IsProcess(q) /\ q.stack = <<>> /\ Body(q) = q.pc /\ CacheOK /\ p # 0 /\ InOp(q)
      /\ \A i \in Inums : Holding(q, i) <=> icache[i].lock = p
  BY <1>1, AtLabel DEF Bodies
<1>a. PICK dir \in BOOLEAN : dir = (ilock(p, q.ip).ip.type = "T_DIR")
  OBVIOUS
<1>3. \/ q.ip = 0 /\ icache' = icache /\ proc' = [proc EXCEPT ![p] = Fail(q)]
      \/ /\ icache[q.ip].lock = 0
         /\ icache' = [icache EXCEPT ![q.ip] = iunlock(ilock(p, q.ip))]
         /\ proc' = [proc EXCEPT ![p] = FailPut(q, q.ip)]
      \/ /\ icache[q.ip].lock = 0
         /\ icache' = [icache EXCEPT ![q.ip] = iunlock(ilock(p, q.ip))]
         /\ proc' = [proc EXCEPT ![p] = PutInode(Push(q, <<"end", "chdir2">>), q.cwd)]
  BY <1>a DEF Chdir, Lockable
<1>4. CASE q.ip = 0 /\ icache' = icache /\ proc' = [proc EXCEPT ![p] = Fail(q)]
  <2>1. PICK n : n = Fail(q)
    OBVIOUS
  <2>2. View(n, "end", "end", q.cwd, q.ip, q.old, q.nx, q.v) /\ Local(n) /\ InOp(n)
    BY <1>2, <2>1, FailView
  <2>3. Changed(icache', 0, 0, 0)
    BY <1>2, <1>4, AsItWas
  <2>4. Moves(q, n, 0, FALSE, 0)
    BY <1>1, <1>2, <1>4, <2>2 DEF View, Moves, Count, Refers, HasRef, Holding, HasLock, Pointer, One, Iputs, Inums
  <2>5. 0 \notin Inums
    BY DEF Inums
  <2>. QED BY <1>2, <1>4, <2>1, <2>2, <2>3, <2>4, <2>5, EnteredIs DEF Turn
<1>5. CASE /\ icache[q.ip].lock = 0
           /\ icache' = [icache EXCEPT ![q.ip] = iunlock(ilock(p, q.ip))]
           /\ proc' = [proc EXCEPT ![p] = FailPut(q, q.ip)]
  <2>1. PICK n : n = FailPut(q, q.ip)
    OBVIOUS
  <2>2. View(n, "iput", "end", q.cwd, q.ip, q.old, q.nx, q.ip) /\ Local(n) /\ InOp(n)
    BY <1>2, <2>1, PutsView
  <2>3. Changed(icache', q.ip, 0, 0)
    BY <1>2, <1>5, Steps
  <2>4. Moves(q, n, q.ip, FALSE, 0)
    BY <1>1, <1>2, <1>5, <2>2 DEF View, Moves, Count, Refers, HasRef, Holding, HasLock, Pointer, One, Iputs, Inums
  <2>5. icache[q.ip].lock = 0
    BY <1>5
  <2>. QED BY <1>2, <1>5, <2>1, <2>2, <2>3, <2>4, <2>5, EnteredIs DEF Turn
<1>6. CASE /\ icache[q.ip].lock = 0
           /\ icache' = [icache EXCEPT ![q.ip] = iunlock(ilock(p, q.ip))]
           /\ proc' = [proc EXCEPT ![p] = PutInode(Push(q, <<"end", "chdir2">>), q.cwd)]
  <2>1. PICK n : n = PutInode(Push(q, <<"end", "chdir2">>), q.cwd)
    OBVIOUS
  <2>7. <<"end", "chdir2">> \o <<>> = <<"end", "chdir2">>
    OBVIOUS
  <2>6. /\ n.pc = "iput" /\ n.stack = <<"end", "chdir2">> /\ n.cwd = q.cwd
        /\ n.ip = q.ip /\ n.old = q.old /\ n.nx = q.nx /\ n.v = q.cwd
    BY <1>2, <2>1, <2>7, FieldsAre, ShortSequences DEF PutInode, Push, IsProcess, Fields
  <2>2. View(n, "iput", "chdir2", q.cwd, q.ip, q.old, q.nx, q.cwd) /\ Local(n) /\ InOp(n)
    BY <1>2, <2>1, <2>6, BodyIs DEF View, Local, Looks, Puts, Apart, Departed, InOp, Iputs
  <2>3. Changed(icache', q.ip, 0, 0)
    BY <1>2, <1>6, Steps
  <2>4. Moves(q, n, q.ip, FALSE, 0)
    BY <1>1, <1>2, <1>6, <2>2 DEF View, Moves, Count, Refers, HasRef, Holding, HasLock, Pointer, One, Iputs, Inums
  <2>5. icache[q.ip].lock = 0
    BY <1>6
  <2>. QED BY <1>2, <1>6, <2>1, <2>2, <2>3, <2>4, <2>5, EnteredIs DEF Turn
<1>. QED BY <1>3, <1>4, <1>5, <1>6

\* A call in the end_op after which it goes on at l.
LEMMA EndView ==
  ASSUME NEW n, NEW l, l \notin {"namex", "exit_end", "zombie", "unused"}, n.pc = "end", n.stack = <<l>>
  PROVE  View(n, "end", l, n.cwd, n.ip, n.old, n.nx, n.v) /\ Local(n) /\ InOp(n)
<1>1. Body(n) = l /\ n.stack[1] = l
  BY BodyIs
<1>. QED BY <1>1 DEF View, Local, Looks, Puts, Apart, Departed, InOp, Iputs

LEMMA OpenFileTurn ==
  ASSUME InodeInv, NEW p \in Procs, OpenFile(p)
  PROVE  \E n : Turn(p, n)
<1>. DEFINE q == proc[p]
<1>1. q.pc = "open2"
  BY DEF OpenFile, At
<1>2. /\ IsProcess(q) /\ q.stack = <<>> /\ Body(q) = q.pc /\ CacheOK /\ p # 0 /\ InOp(q)
      /\ \A i \in Inums : Holding(q, i) <=> icache[i].lock = p
  BY <1>1, AtLabel DEF Bodies
<1>3. PICK slot, f : \/ /\ icache' = [icache EXCEPT ![q.ip] = iunlock(icache[q.ip])]
                        /\ proc' = [proc EXCEPT ![p] = [Push(q, <<"open3">>) EXCEPT !.pc = "end",
                                                        !.ofile[slot] = f, !.f = f, !.r = slot]]
                     \/ /\ icache' = [icache EXCEPT ![q.ip] = iunlock(icache[q.ip])]
                        /\ proc' = [proc EXCEPT ![p] = FailPut(q, q.ip)]
  BY Zenon DEF OpenFile, Lockable
<1>4. CASE /\ icache' = [icache EXCEPT ![q.ip] = iunlock(icache[q.ip])]
           /\ proc' = [proc EXCEPT ![p] = [Push(q, <<"open3">>) EXCEPT !.pc = "end", !.ofile[slot] = f,
                                           !.f = f, !.r = slot]]
  <2>1. PICK n : n = [Push(q, <<"open3">>) EXCEPT !.pc = "end", !.ofile[slot] = f, !.f = f, !.r = slot]
    OBVIOUS
  <2>7. <<"open3">> \o <<>> = <<"open3">>
    BY ShortSequences
  <2>6. /\ n.pc = "end" /\ n.stack = <<"open3">> /\ n.cwd = q.cwd
        /\ n.ip = q.ip /\ n.old = q.old /\ n.nx = q.nx /\ n.v = q.v
    BY <1>2, <2>1, FieldsAre, <2>7 DEF Push, IsProcess, Fields
  <2>2. View(n, "end", "open3", q.cwd, q.ip, q.old, q.nx, q.v) /\ Local(n) /\ InOp(n)
    BY <2>6, EndView DEF View
  <2>3. Changed(icache', q.ip, 0, 0)
    BY <1>2, <1>4, Steps
  <2>4. Moves(q, n, q.ip, FALSE, 0)
    BY <1>1, <1>2, <1>4, <2>2 DEF View, Moves, Count, Refers, HasRef, Holding, HasLock, Pointer, One, Iputs, Inums
  <2>5. q.ip \in Inums => icache[q.ip].lock \in {0, p}
    BY <1>1, <1>2, <1>4 DEF Holding, HasLock, Pointer
  <2>8. Moves(q, n, q.ip, 0 = p, 0)
    BY <1>2, <2>4
  <2>9. DOMAIN icache' = Inums /\ \A i \in Inums : Entered(p, q, n, icache[i], icache'[i], i, 0)
    BY <2>3, <2>5, <2>8, EnteredIs
  <2>. QED BY <1>2, <1>4, <2>1, <2>2, <2>9 DEF Turn
<1>5. CASE /\ icache' = [icache EXCEPT ![q.ip] = iunlock(icache[q.ip])]
           /\ proc' = [proc EXCEPT ![p] = FailPut(q, q.ip)]
  <2>1. PICK n : n = FailPut(q, q.ip)
    OBVIOUS
  <2>2. View(n, "iput", "end", q.cwd, q.ip, q.old, q.nx, q.ip) /\ Local(n) /\ InOp(n)
    BY <1>2, <2>1, PutsView
  <2>3. Changed(icache', q.ip, 0, 0)
    BY <1>2, <1>5, Steps
  <2>4. Moves(q, n, q.ip, FALSE, 0)
    BY <1>1, <1>2, <1>5, <2>2 DEF View, Moves, Count, Refers, HasRef, Holding, HasLock, Pointer, One, Iputs, Inums
  <2>5. q.ip \in Inums => icache[q.ip].lock \in {0, p}
    BY <1>1, <1>2, <1>5 DEF Holding, HasLock, Pointer
  <2>. QED BY <1>2, <1>5, <2>1, <2>2, <2>3, <2>4, <2>5, EnteredIs DEF Turn
<1>. QED BY <1>3, <1>4, <1>5

(***************************************************************************)
(* Path names and iput                                                     *)
(***************************************************************************)
\* A process in namex.
LEMMA AtName ==
  ASSUME InodeInv, NEW p \in Procs, proc[p].pc \in {"namex0", "namex"}
  PROVE  /\ IsProcess(proc[p]) /\ CacheOK /\ InOp(proc[p])
         /\ \E b \in Lookups : proc[p].stack = <<b>> /\ Body(proc[p]) = b
<1>1. IsProcess(proc[p]) /\ Shape(proc[p].pc, proc[p].stack) /\ Local(proc[p]) /\ CacheOK
  BY DEF InodeInv, FileInv, ProcsOK
<1>2. PICK b \in Bodies : proc[p].stack = <<b>>
  BY <1>1 DEF Shape, Bodies, PipeLabels, Iputs
<1>3. Body(proc[p]) = b
  BY <1>2, BodyIs
<1>4. b \in Lookups
  BY <1>1, <1>3 DEF Local, Looks
<1>. QED BY <1>1, <1>2, <1>3, <1>4 DEF InOp

LEMMA NamexStartTurn ==
  ASSUME InodeInv, NEW p \in Procs, NamexStart(p)
  PROVE  \E n : Turn(p, n)
<1>. DEFINE q == proc[p]
<1>1. q.pc = "namex0"
  BY DEF NamexStart, At
<1>2. PICK b \in Lookups : /\ IsProcess(q) /\ CacheOK /\ InOp(q) /\ q.stack = <<b>> /\ Body(q) = b
                           /\ b \in Bodies \ {"chdir2", "exit"}
  BY <1>1, AtName DEF Lookups, Bodies
<1>3. PICK rest, i, m : /\ m = [q EXCEPT !.path = rest, !.ip = i]
                        /\ icache' = iget(icache, i)
                        /\ \/ proc' = [proc EXCEPT ![p] = Jump(m, "namex")]
                           \/ proc' = [proc EXCEPT ![p] = PutInode([m EXCEPT !.ip = 0], i)]
                           \/ proc' = [proc EXCEPT ![p] = Pop(m)]
  BY Zenon DEF NamexStart
<1>4. /\ IsProcess(m) /\ m.pc = "namex0" /\ m.stack = <<b>> /\ m.cwd = q.cwd /\ m.ip = i /\ m.old = q.old
      /\ m.nx = q.nx /\ m.v = q.v
  BY <1>1, <1>2, <1>3, FieldsAre DEF IsProcess, Fields
<1>5. Changed(icache', 0, 0, i)
  BY <1>2, <1>3, AsItWas, GetEntry
<1>6. 0 \notin Inums
  BY DEF Inums
<1>7. ASSUME NEW n, proc' = [proc EXCEPT ![p] = n], Local(n), InOp(n),
             \/ View(n, "namex", b, q.cwd, i, q.old, q.nx, q.v)
             \/ View(n, "iput", b, q.cwd, 0, q.old, q.nx, i)
             \/ View(n, b, b, q.cwd, i, q.old, q.nx, q.v)
      PROVE  Turn(p, n)
  <2>1. Moves(q, n, 0, FALSE, i)
    BY <1>1, <1>2, <1>7 DEF View, Moves, Count, Refers, HasRef, Holding, HasLock, Pointer, One, Iputs, Inums, Lookups
  <2>2. 0 \in {0, p} /\ ~(0 = p)
    BY DEF Procs
  <2>. QED BY <1>2, <1>5, <1>6, <1>7, <2>1, <2>2, EnteredIs DEF Turn
<1>8. CASE proc' = [proc EXCEPT ![p] = Jump(m, "namex")]
  <2>1. PICK n : n = Jump(m, "namex")
    OBVIOUS
  <2>2. n.pc = "namex" /\ n.stack = <<b>> /\ n.cwd = q.cwd /\ n.ip = i /\ n.old = q.old /\ n.nx = q.nx /\ n.v = q.v
    BY <1>4, <2>1, JumpIs DEF Fields
  <2>3. View(n, "namex", b, q.cwd, i, q.old, q.nx, q.v) /\ Local(n) /\ InOp(n)
    BY <2>2, NamexView DEF View
  <2>. QED BY <1>7, <1>8, <2>1, <2>3
<1>9. CASE proc' = [proc EXCEPT ![p] = PutInode([m EXCEPT !.ip = 0], i)]
  <2>1. PICK n : n = PutInode([m EXCEPT !.ip = 0], i)
    OBVIOUS
  <2>2. n.pc = "iput" /\ n.stack = <<b>> /\ n.cwd = q.cwd /\ n.ip = 0 /\ n.old = q.old /\ n.nx = q.nx /\ n.v = i
    BY <1>4, <2>1, FieldsAre DEF PutInode, IsProcess, Fields
  <2>3. View(n, "iput", b, q.cwd, 0, q.old, q.nx, i) /\ Local(n) /\ InOp(n)
    BY <1>2, <2>2, PutView DEF View
  <2>. QED BY <1>7, <1>9, <2>1, <2>3
<1>10. CASE proc' = [proc EXCEPT ![p] = Pop(m)]
  <2>1. PICK n : n = Pop(m)
    OBVIOUS
  <2>2. Head(m.stack) = b /\ Tail(m.stack) = <<>>
    BY <1>4, ShortSequences
  <2>3. n.pc = b /\ n.stack = <<>> /\ n.cwd = q.cwd /\ n.ip = i /\ n.old = q.old /\ n.nx = q.nx /\ n.v = q.v
    BY <1>4, <2>1, <2>2, FieldsAre DEF Pop, IsProcess, Fields
  <2>4. View(n, b, b, q.cwd, i, q.old, q.nx, q.v) /\ Local(n) /\ InOp(n)
    BY <1>2, <2>3, LabelView DEF View, Lookups
  <2>. QED BY <1>7, <1>10, <2>1, <2>4
<1>. QED BY <1>3, <1>8, <1>9, <1>10

LEMMA NamexElementTurn ==
  ASSUME InodeInv, NEW p \in Procs, NamexElement(p)
  PROVE  \E n : Turn(p, n)
<1>. DEFINE q == proc[p]
<1>1. q.pc = "namex"
  BY DEF NamexElement, At
<1>2. PICK b \in Lookups : /\ IsProcess(q) /\ CacheOK /\ InOp(q) /\ q.stack = <<b>> /\ Body(q) = b
                           /\ b \in Bodies \ {"chdir2", "exit"}
  BY <1>1, AtName DEF Lookups, Bodies
<1>3. PICK next, path, c, m :
        /\ icache[q.ip].lock = 0 /\ c = [icache EXCEPT ![q.ip] = iunlock(ilock(p, q.ip))]
        /\ m = [PutInode(q, q.ip) EXCEPT !.ip = next, !.path = path]
        /\ icache' = IF next = 0 THEN c ELSE iget(c, next)
        /\ \/ next = 0 /\ proc' = [proc EXCEPT ![p] = Pop(q)]
           \/ proc' = [proc EXCEPT ![p] = Push(m, <<"namex">>)]
           \/ proc' = [proc EXCEPT ![p] = m]
  <2>1. PICK isdir \in BOOLEAN, early \in BOOLEAN :
          isdir = (ilock(p, q.ip).ip.type = "T_DIR") /\ early = (q.par /\ Len(q.path) = 1)
    OBVIOUS
  <2>2. PICK next : next = IF isdir /\ ~early THEN dirlookup(disk, ilock(p, q.ip).ip, Head(q.path)) ELSE 0
    OBVIOUS
  <2>3. PICK c, m : /\ c = [icache EXCEPT ![q.ip] = iunlock(ilock(p, q.ip))]
                    /\ m = [PutInode(q, q.ip) EXCEPT !.ip = next, !.path = Tail(@)]
    OBVIOUS
  <2>4. /\ icache[q.ip].lock = 0 /\ icache' = (IF next = 0 THEN c ELSE iget(c, next))
        /\ proc' = [proc EXCEPT ![p] = IF isdir /\ early THEN Pop(q)
                                       ELSE IF next # 0 /\ m.path # <<>> THEN Push(m, <<"namex">>) ELSE m]
    BY <2>1, <2>2, <2>3 DEF NamexElement, Lockable
  <2>. QED BY <2>2, <2>3, <2>4
<1>4. /\ m.pc = "iput" /\ m.stack = <<b>> /\ m.cwd = q.cwd /\ m.ip = next /\ m.old = q.old /\ m.nx = q.nx
      /\ m.v = q.ip /\ IsProcess(m)
  BY <1>2, <1>3, FieldsAre DEF PutInode, IsProcess, Fields
<1>5. Changed(icache', q.ip, 0, next)
  <2>1. Changed(c, q.ip, 0, 0)
    BY <1>2, <1>3, Steps
  <2>2. Changed(iget(c, next), q.ip, 0, next)
    BY <1>2, <2>1, GetEntry
  <2>3. icache' = IF next = 0 THEN c ELSE iget(c, next)
    BY <1>3
  <2>. QED BY <2>1, <2>2, <2>3
<1>6. ASSUME NEW n, proc' = [proc EXCEPT ![p] = n], Local(n), InOp(n),
             \/ View(n, "iput", b, q.cwd, next, q.old, q.nx, q.ip)
             \/ next = 0 /\ View(n, b, b, q.cwd, q.ip, q.old, q.nx, q.v)
      PROVE  Turn(p, n)
  <2>1. Moves(q, n, q.ip, FALSE, next)
    BY <1>1, <1>2, <1>6 DEF View, Moves, Count, Refers, HasRef, Holding, HasLock, Pointer, One, Iputs, Inums, Lookups
  <2>2. 0 \in {0, p} /\ ~(0 = p)
    BY DEF Procs
  <2>. QED BY <1>2, <1>3, <1>5, <1>6, <2>1, <2>2, EnteredIs DEF Turn
<1>7. CASE next = 0 /\ proc' = [proc EXCEPT ![p] = Pop(q)]
  <2>1. PICK n : n = Pop(q)
    OBVIOUS
  <2>2. Head(q.stack) = b /\ Tail(q.stack) = <<>>
    BY <1>2, ShortSequences
  <2>3. n.pc = b /\ n.stack = <<>> /\ n.cwd = q.cwd /\ n.ip = q.ip /\ n.old = q.old /\ n.nx = q.nx /\ n.v = q.v
    BY <1>2, <2>1, <2>2, FieldsAre DEF Pop, IsProcess, Fields
  <2>4. View(n, b, b, q.cwd, q.ip, q.old, q.nx, q.v) /\ Local(n) /\ InOp(n)
    BY <1>2, <2>3, LabelView DEF View, Lookups
  <2>. QED BY <1>6, <1>7, <2>1, <2>4
<1>8. CASE proc' = [proc EXCEPT ![p] = m]
  <2>1. View(m, "iput", b, q.cwd, next, q.old, q.nx, q.ip) /\ Local(m) /\ InOp(m)
    BY <1>2, <1>4, PutView DEF View
  <2>. QED BY <1>6, <1>8, <2>1
<1>9. CASE proc' = [proc EXCEPT ![p] = Push(m, <<"namex">>)]
  <2>1. PICK n : n = Push(m, <<"namex">>)
    OBVIOUS
  <2>2. <<"namex">> \o <<b>> = <<"namex", b>>
    BY ShortSequences
  <2>3. /\ n.pc = "iput" /\ n.stack = <<"namex", b>> /\ n.cwd = q.cwd /\ n.ip = next /\ n.old = q.old /\ n.nx = q.nx
        /\ n.v = q.ip
    BY <1>4, <2>1, <2>2, FieldsAre DEF Push, IsProcess, Fields
  <2>4. Body(n) = b /\ n.stack[1] = "namex"
    BY <2>3, BodyIs
  <2>5. View(n, "iput", b, q.cwd, next, q.old, q.nx, q.ip) /\ Local(n) /\ InOp(n)
    BY <1>2, <2>3, <2>4 DEF View, Local, Looks, Puts, Apart, Departed, InOp, Iputs, Lookups
  <2>. QED BY <1>6, <1>9, <2>1, <2>5
<1>. QED BY <1>3, <1>7, <1>8, <1>9

\* A process in iput, and what it goes on to.
LEMMA AtPut ==
  ASSUME InodeInv, NEW p \in Procs, proc[p].pc \in Iputs
  PROVE  /\ IsProcess(proc[p]) /\ CacheOK /\ InOp(proc[p]) /\ p # 0 /\ Local(proc[p])
         /\ \A i \in Inums : Holding(proc[p], i) <=> icache[i].lock = p
         /\ proc[p].stack # <<>>
         /\ \/ \E b \in Bodies : proc[p].stack = <<b>> \/ proc[p].stack = <<"namex", b>>
            \/ proc[p].stack \in EndStacks
<1>1. IsProcess(proc[p]) /\ Shape(proc[p].pc, proc[p].stack) /\ Local(proc[p]) /\ CacheOK
  BY DEF InodeInv, FileInv, ProcsOK
<1>2. \/ \E b \in Bodies : proc[p].stack = <<b>> \/ proc[p].stack = <<"namex", b>>
      \/ proc[p].stack \in EndStacks
  BY <1>1 DEF Shape, Bodies, PipeLabels, Iputs
<1>3. proc[p].stack # <<>>
  BY <1>2 DEF EndStacks
<1>4. p # 0 /\ \A i \in Inums : Holding(proc[p], i) <=> icache[i].lock = p
  BY DEF InodeInv, LocksOwned, Holding, Procs
<1>. QED BY <1>1, <1>2, <1>3, <1>4 DEF InOp

LEMMA IputTurn ==
  ASSUME InodeInv, NEW p \in Procs, Iput(p) \/ IputFreed(p)
  PROVE  \E n : Turn(p, n)
<1>. DEFINE q == proc[p]
<1>1. (q.pc = "iput" /\ icache[q.v].lock = 0) \/ q.pc = "iput_freed"
  BY DEF Iput, IputFreed, At, Lockable
<1>2. /\ IsProcess(q) /\ CacheOK /\ InOp(q) /\ p # 0 /\ Local(q) /\ q.stack # <<>>
      /\ \A i \in Inums : Holding(q, i) <=> icache[i].lock = p
  BY <1>1, AtPut DEF Iputs
<1>3. ASSUME NEW n, n.pc \in Iputs, n.stack = q.stack, n.cwd = q.cwd, n.ip = q.ip, n.old = q.old, n.nx = q.nx, n.v = q.v
      PROVE  /\ Body(n) = Body(q) /\ InOp(n) /\ (Apart(n) => Local(n))
             /\ \A i \in Inums : Count(n, i) = Count(q, i) + One(i = 0)
             /\ \A i \in Inums : Holding(n, i) <=> (\E x \in {"ip", "nx"} : HasLock(q, x) /\ q[x] = i)
                                                   \/ (n.pc = "iput_freed" /\ q.v = i)
  <2>1. Body(n) = Body(q)
    BY <1>2, <1>3 DEF Body
  <2>2. InOp(n) /\ (Apart(n) => Local(n))
    BY <1>1, <1>2, <1>3, <2>1 DEF InOp, Local, Looks, Puts, Departed, Iputs
  <2>3. ASSUME NEW i \in Inums PROVE Count(n, i) = Count(q, i) + One(i = 0)
    <3>1. One(i = 0) = 0 /\ Count(q, i) \in Nat
      BY CountIs DEF One, Inums
    <3>2. \A x \in Pointer : Refers(n, x, i) <=> Refers(q, x, i)
      BY <1>1, <1>3, <2>1 DEF Refers, HasRef, Iputs, Pointer
    <3>3. Count(n, i) = Count(q, i)
      BY <3>2 DEF Count, One, Pointer
    <3>. QED BY <3>1, <3>3
  <2>4. ASSUME NEW i \in Inums
        PROVE  Holding(n, i) <=> (\E x \in {"ip", "nx"} : HasLock(q, x) /\ q[x] = i) \/ (n.pc = "iput_freed" /\ q.v = i)
    BY <1>1, <1>3, <2>1 DEF Holding, HasLock, Pointer, Iputs
  <2>. QED BY <2>1, <2>2, <2>3, <2>4
<1>4. \A x \in {"ip", "nx"} : HasLock(q, x) /\ q[x] \in Inums => icache[q[x]].lock = p
  BY <1>2 DEF Holding, Pointer
<1>5. CASE Iput(p) /\ proc' = [proc EXCEPT ![p] = Jump(q, "iput_drop")] /\ icache' = icache
  <2>1. PICK n : n = Jump(q, "iput_drop")
    OBVIOUS
  <2>2. /\ n.pc = "iput_drop" /\ n.stack = q.stack /\ n.cwd = q.cwd
        /\ n.ip = q.ip /\ n.old = q.old /\ n.nx = q.nx /\ n.v = q.v
    BY <1>2, <2>1, JumpIs DEF Fields
  <2>3. n.pc \in Iputs /\ Apart(n) /\ q.pc = "iput"
    BY <1>5, <2>2 DEF Iputs, Apart, Iput, At
  <2>4. Changed(icache', 0, 0, 0) /\ 0 \notin Inums
    BY <1>2, <1>5, AsItWas DEF Inums
  <2>5. Moves(q, n, 0, FALSE, 0)
    <3>1. \A i \in Inums : Count(n, i) = Count(q, i) + One(i = 0)
      BY <1>3, <2>2, <2>3
    <3>2. \A i \in Inums : Holding(n, i) <=> Holding(q, i)
      BY <1>3, <2>2, <2>3 DEF Holding, HasLock, Pointer
    <3>. QED BY <2>4, <3>1, <3>2 DEF Moves
  <2>6. Local(n) /\ InOp(n)
    BY <1>3, <2>2, <2>3
  <2>. QED BY <1>2, <1>5, <2>1, <2>4, <2>5, <2>6, EnteredIs DEF Turn
<1>6. ASSUME Iput(p), NEW w, NEW log, proc' = [proc EXCEPT ![p] = [Jump(q, "iput_freed") EXCEPT !.log = log]],
             icache' = [icache EXCEPT ![q.v] = [Store(icache[q.v], w) EXCEPT !.lock = p]]
      PROVE  \E n : Turn(p, n)
  <2>0. q.pc = "iput" /\ icache[q.v].lock = 0
    BY <1>6 DEF Iput, At, Lockable
  <2>1. PICK n : n = [Jump(q, "iput_freed") EXCEPT !.log = log]
    OBVIOUS
  <2>2. /\ n.pc = "iput_freed" /\ n.stack = q.stack /\ n.cwd = q.cwd
        /\ n.ip = q.ip /\ n.old = q.old /\ n.nx = q.nx /\ n.v = q.v
    BY <1>2, <2>1, FieldsAre DEF Jump, IsProcess, Fields
  <2>3. n.pc \in Iputs /\ Body(n) = Body(q)
    BY <1>3, <2>2 DEF Iputs
  <2>4. \A x \in {"ip", "nx"} : HasLock(q, x) /\ q[x] \in Inums => q[x] # q.v
    BY <1>2, <1>4, <2>0
  <2>5. Apart(n)
    BY <2>2, <2>3, <2>4 DEF Apart, HasLock
  <2>6. Changed(icache', q.v, p, 0)
    <3>1. PICK e : e = [Store(icache[q.v], w) EXCEPT !.lock = p]
      OBVIOUS
    <3>2. q.v \in Inums => Entry(e, icache[q.v].ref, p)
      <4>1. q.v \in Inums => Entry(Store(icache[q.v], w), icache[q.v].ref, icache[q.v].lock)
        BY <1>2, Entries
      <4>. QED BY <3>1, <4>1 DEF Entry, IsEntry, Uncached
    <3>. QED BY <1>2, <1>6, <3>1, <3>2, SetEntry
  <2>7. Moves(q, n, q.v, TRUE, 0)
    <3>1. \A i \in Inums : Count(n, i) = Count(q, i) + One(i = 0)
      BY <1>3, <2>2, <2>3
    <3>2. \A i \in Inums : Holding(n, i) <=> IF i = q.v THEN TRUE ELSE Holding(q, i)
      BY <1>3, <2>0, <2>2, <2>3 DEF Holding, HasLock, Pointer
    <3>. QED BY <3>1, <3>2 DEF Moves
  <2>8. Local(n) /\ InOp(n)
    BY <1>3, <2>2, <2>3, <2>5
  <2>. QED BY <1>2, <1>6, <2>0, <2>1, <2>6, <2>7, <2>8, EnteredIs DEF Turn
<1>7. CASE IputFreed(p)
  <2>0. q.pc = "iput_freed" /\ proc' = [proc EXCEPT ![p] = Jump(q, "iput_drop")]
        /\ icache' = [icache EXCEPT ![q.v] = [iunlock(icache[q.v]) EXCEPT !.valid = FALSE]]
    BY <1>7 DEF IputFreed, At
  <2>1. PICK n : n = Jump(q, "iput_drop")
    OBVIOUS
  <2>2. /\ n.pc = "iput_drop" /\ n.stack = q.stack /\ n.cwd = q.cwd
        /\ n.ip = q.ip /\ n.old = q.old /\ n.nx = q.nx /\ n.v = q.v
    BY <1>2, <2>1, JumpIs DEF Fields
  <2>3. n.pc \in Iputs /\ Apart(n)
    BY <2>2 DEF Iputs, Apart
  <2>4. Changed(icache', q.v, 0, 0)
    <3>1. PICK e : e = [iunlock(icache[q.v]) EXCEPT !.valid = FALSE]
      OBVIOUS
    <3>2. q.v \in Inums => Entry(e, icache[q.v].ref, 0)
      <4>1. q.v \in Inums => Entry(iunlock(icache[q.v]), icache[q.v].ref, 0)
        BY <1>2, Entries
      <4>. QED BY <3>1, <4>1 DEF Entry, IsEntry, Uncached
    <3>. QED BY <1>2, <2>0, <3>1, <3>2, SetEntry
  <2>5. \A x \in {"ip", "nx"} : HasLock(q, x) /\ q[x] \in Inums => q[x] # q.v
    BY <1>2, <2>0 DEF Local, Apart
  <2>6. Moves(q, n, q.v, FALSE, 0)
    <3>1. \A i \in Inums : Count(n, i) = Count(q, i) + One(i = 0)
      BY <1>3, <2>2, <2>3
    <3>2. \A i \in Inums : Holding(n, i) <=> IF i = q.v THEN FALSE ELSE Holding(q, i)
      BY <1>3, <2>0, <2>2, <2>3, <2>5 DEF Holding, HasLock, Pointer
    <3>. QED BY <3>1, <3>2 DEF Moves
  <2>7. Local(n) /\ InOp(n)
    BY <1>3, <2>2, <2>3
  <2>8. q.v \in Inums => icache[q.v].lock = p
    BY <1>2, <2>0 DEF Holding, HasLock, Pointer
  <2>. QED BY <1>2, <2>0, <2>1, <2>4, <2>6, <2>7, <2>8, EnteredIs DEF Turn
<1>8. CASE Iput(p)
  <2>1. PICK w, log : \/ proc' = [proc EXCEPT ![p] = Jump(q, "iput_drop")] /\ icache' = icache
                      \/ /\ proc' = [proc EXCEPT ![p] = [Jump(q, "iput_freed") EXCEPT !.log = log]]
                         /\ icache' = [icache EXCEPT ![q.v] = [Store(icache[q.v], w) EXCEPT !.lock = p]]
    BY <1>8, Zenon DEF Iput
  <2>. QED BY <1>5, <1>6, <1>8, <2>1
<1>. QED BY <1>7, <1>8

\* A return from begin_op, namex, iput or end_op leaves the call where it is.
LEMMA PopView ==
  ASSUME NEW q, IsProcess(q), Shape(q.pc, q.stack), q.stack # <<>>, NEW n, n = Pop(q)
  PROVE  /\ n.pc = q.stack[1] /\ n.stack = Tail(q.stack) /\ Body(n) = Body(q)
         /\ n.cwd = q.cwd /\ n.ip = q.ip /\ n.old = q.old /\ n.nx = q.nx /\ n.v = q.v
         /\ \E a, b, c : q.stack = <<a>> \/ q.stack = <<a, b>> \/ q.stack = <<a, b, c>>
<1>1. /\ n.pc = Head(q.stack) /\ n.stack = Tail(q.stack)
      /\ n.cwd = q.cwd /\ n.ip = q.ip /\ n.old = q.old /\ n.nx = q.nx /\ n.v = q.v
  BY FieldsAre DEF Pop, IsProcess, Fields
<1>2. \E a, b, c : q.stack = <<a>> \/ q.stack = <<a, b>> \/ q.stack = <<a, b, c>>
  BY DEF Shape, EndStacks
<1>3. PICK a, b, c : q.stack = <<a>> \/ q.stack = <<a, b>> \/ q.stack = <<a, b, c>>
  BY <1>2
<1>4. CASE q.stack = <<a>>
  <2>1. n.pc = a /\ n.stack = <<>>
    BY <1>1, <1>4, ShortSequences
  <2>2. Body(q) = a /\ Body(n) = a /\ q.stack[1] = a
    BY <1>4, <2>1, BodyIs
  <2>. QED BY <1>1, <1>2, <2>1, <2>2
<1>5. CASE q.stack = <<a, b>>
  <2>1. n.pc = a /\ n.stack = <<b>>
    BY <1>1, <1>5, ShortSequences
  <2>2. Body(q) = b /\ Body(n) = b /\ q.stack[1] = a
    BY <1>5, <2>1, BodyIs
  <2>. QED BY <1>1, <1>2, <2>1, <2>2
<1>6. CASE q.stack = <<a, b, c>>
  <2>1. n.pc = a /\ n.stack = <<b, c>>
    BY <1>1, <1>6, ShortSequences
  <2>2. Body(q) = c /\ Body(n) = c /\ q.stack[1] = a
    BY <1>6, <2>1, BodyIs
  <2>. QED BY <1>1, <1>2, <2>1, <2>2
<1>. QED BY <1>3, <1>4, <1>5, <1>6

(***************************************************************************)
(* The steps of one process that take or give something back               *)
(***************************************************************************)
Shift(p, n) ==
  /\ proc' = [proc EXCEPT ![p] = n] /\ Local(n) /\ DOMAIN icache' = Inums
  /\ \A i \in Inums : Entered(p, proc[p], n, icache[i], icache'[i], i, 0)
  /\ outstanding' = outstanding + One(InOp(n)) - One(InOp(proc[p])) /\ outstanding' <= LOGOPS

LEMMA OpsAre == ASSUME InodeInv PROVE outstanding \in Nat /\ outstanding <= LOGOPS
<1>1. {p \in Procs : InOp(proc[p])} \in SUBSET Procs
  OBVIOUS
<1>. QED BY <1>1, SetsFinite, FS_Subset, FS_CardinalityType DEF InodeInv, OpsCounted

LEMMA TurnIsShift ==
  ASSUME InodeInv, NEW p \in Procs, NEW n, Turn(p, n), outstanding' = outstanding
  PROVE  Shift(p, n)
<1>1. One(InOp(n)) = One(InOp(proc[p])) /\ One(InOp(n)) \in Nat
  BY DEF Turn, One
<1>2. outstanding \in Nat /\ outstanding <= LOGOPS
  BY OpsAre
<1>. QED BY <1>1, <1>2 DEF Turn, Shift

\* A step that leaves the cache alone.
LEMMA CacheKept ==
  ASSUME InodeInv, NEW p \in Procs, NEW n, icache' = icache,
         \A i \in Inums : Count(n, i) = Count(proc[p], i) /\ (Holding(n, i) <=> Holding(proc[p], i))
  PROVE  DOMAIN icache' = Inums /\ \A i \in Inums : Entered(p, proc[p], n, icache[i], icache'[i], i, 0)
<1>1. Changed(icache', 0, 0, 0)
  BY AsItWas DEF InodeInv
<1>2. 0 \notin Inums /\ 0 # p
  BY DEF Inums, Procs
<1>3. \A i \in Inums : Count(proc[p], i) \in Nat /\ One(i = 0) = 0
  BY <1>2, CountIs DEF One
<1>4. Moves(proc[p], n, 0, 0 = p, 0)
  BY <1>2, <1>3 DEF Moves
<1>. QED BY <1>1, <1>2, <1>4, EnteredIs

LEMMA IputDropShift ==
  ASSUME InodeInv, NEW p \in Procs, IputDrop(p)
  PROVE  \E n : Shift(p, n)
<1>. DEFINE q == proc[p]
<1>1. /\ q.pc = "iput_drop" /\ proc' = [proc EXCEPT ![p] = Pop(q)] /\ outstanding' = outstanding
      /\ icache' = [icache EXCEPT ![q.v] = [icache[q.v] EXCEPT !.ref = icache[q.v].ref - 1]]
  BY DEF IputDrop, At
<1>2. /\ IsProcess(q) /\ CacheOK /\ InOp(q) /\ p # 0 /\ Local(q) /\ q.stack # <<>>
      /\ \A i \in Inums : Holding(q, i) <=> icache[i].lock = p
  BY <1>1, AtPut DEF Iputs
<1>3. Shape(q.pc, q.stack)
  BY DEF InodeInv, FileInv, ProcsOK
<1>4. PICK n : n = Pop(q)
  OBVIOUS
<1>5. /\ n.pc = q.stack[1] /\ n.stack = Tail(q.stack) /\ Body(n) = Body(q)
      /\ n.cwd = q.cwd /\ n.ip = q.ip /\ n.old = q.old /\ n.nx = q.nx /\ n.v = q.v
  BY <1>2, <1>3, <1>4, PopView
<1>6. \/ \E b \in Bodies : q.stack = <<b>> \/ q.stack = <<"namex", b>>
      \/ q.stack \in EndStacks
  BY <1>1, AtPut DEF Iputs
<1>7. n.pc \notin Iputs \cup {"begin", "namex0"} /\ InOp(n) /\ Local(n)
  <2>1. ASSUME NEW b \in Bodies, q.stack = <<b>>
        PROVE  n.pc \notin Iputs \cup {"begin", "namex0"} /\ InOp(n) /\ Local(n)
    <3>1. n.pc = b /\ n.stack = <<>> /\ Body(q) = b /\ q.stack[1] = b
      BY <1>5, <2>1, BodyIs, ShortSequences
    <3>2. b \notin {"chdir2", "exit"}
      BY <1>1, <1>2, <3>1 DEF Local, Puts, Iputs, Bodies
    <3>3. Local(n) /\ InOp(n)
      BY <3>1, <3>2, LabelView DEF Bodies
    <3>. QED BY <3>1, <3>3 DEF Bodies, Iputs
  <2>2. ASSUME NEW b \in Bodies, q.stack = <<"namex", b>>
        PROVE  n.pc \notin Iputs \cup {"begin", "namex0"} /\ InOp(n) /\ Local(n)
    <3>1. n.pc = "namex" /\ n.stack = <<b>> /\ Body(q) = b /\ q.stack[1] = "namex"
      BY <1>5, <2>2, BodyIs, ShortSequences
    <3>2. b \in Lookups
      BY <1>2, <3>1 DEF Local, Looks
    <3>3. Local(n) /\ InOp(n)
      BY <3>1, <3>2, NamexView
    <3>. QED BY <3>1, <3>3 DEF Iputs
  <2>3. ASSUME NEW s, q.stack = <<"end">> \/ q.stack = <<"end", s>>, s # "namex"
        PROVE  n.pc \notin Iputs \cup {"begin", "namex0"} /\ InOp(n) /\ Local(n)
    <3>1. n.pc = "end" /\ (n.stack = <<>> \/ n.stack = <<s>>)
      <4>1. CASE q.stack = <<"end">>
        BY <1>5, <4>1, ShortSequences
      <4>2. CASE q.stack = <<"end", s>>
        BY <1>5, <4>2, ShortSequences
      <4>. QED BY <2>3, <4>1, <4>2
    <3>2. n.stack = <<>> \/ n.stack[1] = s
      BY <3>1
    <3>3. Looks(n) /\ Puts(n) /\ Apart(n)
      BY <2>3, <3>1, <3>2 DEF Looks, Puts, Apart, Iputs
    <3>4. Departed(n)
      BY <1>2, <1>5 DEF Local, Departed
    <3>. QED BY <3>1, <3>3, <3>4 DEF Local, InOp, Iputs
  <2>. QED BY <1>6, <2>1, <2>2, <2>3 DEF EndStacks
<1>8. ASSUME NEW i \in Inums PROVE Entered(p, q, n, icache[i], icache'[i], i, 0)
  <2>1. /\ icache[i].ref \in Nat /\ IsEntry(icache[i])
        /\ icache'[i] = IF i = q.v THEN [icache[i] EXCEPT !.ref = icache[i].ref - 1] ELSE icache[i]
    BY <1>1, <1>2 DEF CacheOK
  <2>2. IsEntry(icache'[i]) /\ icache'[i].lock = icache[i].lock /\ icache'[i].ref = icache[i].ref - One(i = q.v)
    BY <2>1 DEF IsEntry, Uncached, One
  <2>3. \A x \in {"cwd", "ip", "old", "nx"} : Refers(n, x, i) <=> Refers(q, x, i)
    BY <1>1, <1>5, <1>7 DEF Refers, HasRef, Iputs
  <2>4. (Refers(q, "v", i) <=> i = q.v) /\ ~Refers(n, "v", i)
    BY <1>1, <1>5, <1>7 DEF Refers, HasRef, Iputs
  <2>5. Count(q, i) \in Nat /\ Count(n, i) \in Nat /\ Count(n, i) = Count(q, i) - One(i = q.v)
    <3>1. Count(q, i) \in Nat /\ Count(n, i) \in Nat
      BY CountIs
    <3>2. /\ One(Refers(n, "cwd", i)) = One(Refers(q, "cwd", i)) /\ One(Refers(n, "ip", i)) = One(Refers(q, "ip", i))
          /\ One(Refers(n, "old", i)) = One(Refers(q, "old", i)) /\ One(Refers(n, "nx", i)) = One(Refers(q, "nx", i))
          /\ One(Refers(n, "v", i)) = 0 /\ One(Refers(q, "v", i)) = One(i = q.v)
      BY <2>3, <2>4 DEF One
    <3>3. \A x : One(Refers(q, x, i)) \in Nat
      BY DEF One
    <3>. QED BY <3>1, <3>2, <3>3 DEF Count
  <2>6. Holding(n, i) <=> Holding(q, i)
    BY <1>1, <1>5, <1>7 DEF Holding, HasLock, Pointer, Iputs
  <2>7. One(i = q.v) \in Nat
    BY DEF One
  <2>8. icache'[i].ref = icache[i].ref + (Count(n, i) - Count(q, i)) + 0
    BY <2>1, <2>2, <2>5, <2>7
  <2>. QED BY <1>2, <2>2, <2>6, <2>8 DEF Entered
<1>9. Turn(p, n)
  BY <1>1, <1>2, <1>4, <1>7, <1>8 DEF Turn, CacheOK
<1>. QED BY <1>1, <1>9, TurnIsShift

\* A process that has no references but its current directory, and no locks.
Plain(q) ==
  /\ Local(q)
  /\ \A i \in Inums : /\ \A x \in Pointer : Refers(q, x, i) <=> (x = "cwd" /\ q.cwd = i)
                      /\ ~Holding(q, i)

PlainLabels == PipeLabels \cup {"user", "exit", "write", "pipeclose", "end"}
LEMMA PlainIs ==
  ASSUME NEW q,
         \/ q.stack = <<>> /\ q.pc \in PlainLabels
         \/ q.stack = <<>> /\ q.pc \in {"exit_end", "zombie", "unused"} /\ q.cwd = 0
         \/ q.stack = <<"exit">> /\ q.pc \in {"pipeclose", "end"}
         \/ q.stack = <<"write">> /\ q.pc = "begin"
         \/ q.stack = <<"begin", "write">> /\ q.pc = "end"
  PROVE  Plain(q) /\ (InOp(q) <=> q.pc \in {"write", "end"})
<1>1. /\ Body(q) \in PlainLabels \cup {"exit_end", "zombie", "unused"}
      /\ Body(q) \in {"exit_end", "zombie", "unused"} => q.cwd = 0
      /\ q.pc = "begin" => Body(q) = "write"
  BY BodyIs DEF PlainLabels, PipeLabels
<1>2. q.pc \in PlainLabels \cup {"exit_end", "zombie", "unused", "begin"}
  BY DEF PlainLabels
<1>3. q.stack # <<>> => q.stack[1] # "namex"
  BY BodyIs
<1>4. Local(q)
  BY <1>1, <1>2, <1>3 DEF Local, Looks, Puts, Apart, Departed, PlainLabels, PipeLabels, Iputs
<1>5. InOp(q) <=> q.pc \in {"write", "end"}
  BY <1>2 DEF InOp, PlainLabels, PipeLabels, Iputs
<1>6. ASSUME NEW i \in Inums, NEW x \in Pointer PROVE Refers(q, x, i) <=> (x = "cwd" /\ q.cwd = i)
  BY <1>1, <1>2 DEF Refers, HasRef, Pointer, PlainLabels, PipeLabels, Iputs
<1>7. ASSUME NEW i \in Inums PROVE ~Holding(q, i)
  BY <1>1, <1>2 DEF Holding, HasLock, Pointer, PlainLabels, PipeLabels, Iputs
<1>. QED BY <1>4, <1>5, <1>6, <1>7 DEF Plain

LEMMA PlainCount ==
  ASSUME NEW q, Plain(q), NEW i \in Inums
  PROVE  Count(q, i) = One(q.cwd = i)
<1>1. /\ One(Refers(q, "cwd", i)) = One(q.cwd = i) /\ One(Refers(q, "ip", i)) = 0 /\ One(Refers(q, "old", i)) = 0
      /\ One(Refers(q, "nx", i)) = 0 /\ One(Refers(q, "v", i)) = 0
  BY DEF Plain, Pointer, One
<1>2. One(q.cwd = i) \in Nat
  BY DEF One
<1>. QED BY <1>1, <1>2 DEF Count

\* The result of a call is that of a process in its program.
LEMMA ReturnedView ==
  ASSUME NEW q, IsProcess(q), NEW r, NEW n, n = Returned(q, r)
  PROVE  n.cwd = q.cwd /\ n.stack = <<>> /\ n.pc \in {"exit", "user"} /\ Plain(n) /\ ~InOp(n)
<1>1. n.stack = <<>> /\ n.pc \in {"exit", "user"}
  BY ReturnedIs
<1>2. n.cwd = q.cwd
  BY ReturnedIs
<1>. QED BY <1>1, <1>2, PlainIs DEF PlainLabels

LEMMA BeginOpShift ==
  ASSUME InodeInv, NEW p \in Procs, BeginOp(p)
  PROVE  \E n : Shift(p, n)
<1>. DEFINE q == proc[p]
<1>1. outstanding < LOGOPS /\ outstanding' = outstanding + 1 /\ icache' = icache /\ LOGOPS \in Nat
  BY FileSysAssumption DEF BeginOp
<1>2. outstanding \in Nat /\ outstanding' <= LOGOPS
  BY <1>1, OpsAre
<1>3. IsProcess(q) /\ Shape(q.pc, q.stack) /\ Local(q)
  BY DEF InodeInv, FileInv, ProcsOK
<1>4. ASSUME NEW n, proc' = [proc EXCEPT ![p] = n], Local(n), InOp(n), ~InOp(q),
             \A i \in Inums : /\ \A x \in Pointer : Refers(n, x, i) <=> Refers(q, x, i)
                              /\ Holding(n, i) <=> Holding(q, i)
      PROVE  Shift(p, n)
  <2>1. \A i \in Inums : Count(n, i) = Count(q, i) /\ (Holding(n, i) <=> Holding(q, i))
    BY <1>4 DEF Count, One, Pointer
  <2>2. DOMAIN icache' = Inums /\ \A i \in Inums : Entered(p, q, n, icache[i], icache'[i], i, 0)
    BY <1>1, <2>1, CacheKept
  <2>3. outstanding' = outstanding + One(InOp(n)) - One(InOp(q))
    BY <1>1, <1>2, <1>4 DEF One
  <2>. QED BY <1>2, <1>4, <2>2, <2>3 DEF Shift
<1>5. CASE \E c \in {"open", "mkdir", "mknod", "unlink", "link", "chdir", "exec"} :
             Calls(p, c) /\ proc' = [proc EXCEPT ![p] = Started(p)]
  <2>1. q.pc = "user" /\ proc' = [proc EXCEPT ![p] = Started(p)]
    BY <1>5 DEF Calls, At
  <2>2. q.stack = <<>> /\ Plain(q) /\ ~InOp(q)
    <3>1. q.stack = <<>>
      BY <2>1, AtBody DEF InodeInv
    <3>. QED BY <2>1, <3>1, PlainIs DEF PlainLabels
  <2>3. PICK n : n = Started(p)
    OBVIOUS
  <2>4. PICK l \in Lookups \ {"link2"} : n.pc = "namex0" /\ n.stack = <<l>> /\ n.cwd = q.cwd
    <3>1. PICK m : m = [q EXCEPT !.pc = "namex0", !.path = Arg(p).path]
      OBVIOUS
    <3>2. IsProcess(m) /\ m.pc = "namex0" /\ m.stack = <<>> /\ m.cwd = q.cwd
      BY <1>3, <2>2, <3>1, FieldsAre DEF IsProcess, Fields
    <3>3. \E l \in Lookups \ {"link2"} : n = Push(m, <<l>>) \/ n = [Push(m, <<l>>) EXCEPT !.par = TRUE]
      BY <1>5, <2>3, <3>1 DEF Started, Calls, Lookups
    <3>4. PICK l \in Lookups \ {"link2"} : n = Push(m, <<l>>) \/ n = [Push(m, <<l>>) EXCEPT !.par = TRUE]
      BY <3>3
    <3>5. <<l>> \o <<>> = <<l>>
      BY ShortSequences
    <3>6. n.pc = "namex0" /\ n.stack = <<l>> /\ n.cwd = q.cwd
      <4>1. PICK j : j = Push(m, <<l>>)
        OBVIOUS
      <4>2. IsProcess(j) /\ j.pc = "namex0" /\ j.stack = <<l>> /\ j.cwd = q.cwd
        BY <3>2, <3>5, <4>1, FieldsAre DEF Push, IsProcess, Fields
      <4>3. n = j \/ n = [j EXCEPT !.par = TRUE]
        BY <3>4, <4>1
      <4>. QED BY <4>2, <4>3, FieldsAre DEF IsProcess, Fields
    <3>. QED BY <3>6
  <2>5. View(n, "namex0", l, n.cwd, n.ip, n.old, n.nx, n.v) /\ Local(n) /\ InOp(n)
    BY <2>4, NamexView
  <2>6. ASSUME NEW i \in Inums
        PROVE  (\A x \in Pointer : Refers(n, x, i) <=> Refers(q, x, i)) /\ (Holding(n, i) <=> Holding(q, i))
    <3>1. \A x \in Pointer : Refers(n, x, i) <=> (x = "cwd" /\ q.cwd = i)
      BY <2>4, <2>5 DEF View, Refers, HasRef, Pointer, Lookups, Iputs
    <3>2. ~Holding(n, i)
      BY <2>4, <2>5 DEF View, Holding, HasLock, Pointer, Lookups, Iputs
    <3>. QED BY <2>2, <3>1, <3>2 DEF Plain
  <2>. QED BY <1>4, <2>1, <2>2, <2>3, <2>5, <2>6
<1>6. CASE At(p, "begin") /\ proc' = [proc EXCEPT ![p] = Pop(q)]
  <2>1. q.pc = "begin"
    BY <1>6 DEF At
  <2>2. q.stack \in {<<"write">>, <<"iput", "end">>, <<"iput", "end", "exit">>, <<"iput", "end", "exit_end">>}
    BY <1>3, <2>1 DEF Shape, Bodies, PipeLabels, Iputs
  <2>3. PICK n : n = Pop(q)
    OBVIOUS
  <2>4. /\ n.pc = q.stack[1] /\ n.stack = Tail(q.stack) /\ Body(n) = Body(q)
        /\ n.cwd = q.cwd /\ n.ip = q.ip /\ n.old = q.old /\ n.nx = q.nx /\ n.v = q.v
    <3>1. q.stack # <<>>
      BY <2>2
    <3>. QED BY <1>3, <2>3, <3>1, PopView
  <2>5. \/ n.pc = "write" /\ n.stack = <<>> /\ Body(q) = "write"
        \/ n.pc = "iput" /\ n.stack # <<>> /\ n.stack[1] = "end" /\ Body(q) \in {"end", "exit", "exit_end"}
    <3>1. CASE q.stack = <<"write">>
      BY <2>4, <3>1, BodyIs, ShortSequences
    <3>2. CASE q.stack = <<"iput", "end">>
      <4>1. n.stack = <<"end">>
        BY <2>4, <3>2, ShortSequences
      <4>. QED BY <2>4, <3>2, <4>1, BodyIs
    <3>3. ASSUME NEW s \in {"exit", "exit_end"}, q.stack = <<"iput", "end", s>>
          PROVE  n.pc = "iput" /\ n.stack # <<>> /\ n.stack[1] = "end" /\ Body(q) \in {"end", "exit", "exit_end"}
      <4>1. n.stack = <<"end", s>>
        BY <2>4, <3>3, ShortSequences
      <4>. QED BY <2>4, <3>3, <4>1, BodyIs
    <3>. QED BY <2>2, <3>1, <3>2, <3>3
  <2>6. Local(n) /\ InOp(n)
    BY <1>3, <2>4, <2>5 DEF Local, Looks, Puts, Apart, Departed, InOp, Iputs
  <2>7. ~InOp(q)
    BY <2>1 DEF InOp, Iputs
  <2>8. ASSUME NEW i \in Inums
        PROVE  (\A x \in Pointer : Refers(n, x, i) <=> Refers(q, x, i)) /\ (Holding(n, i) <=> Holding(q, i))
    BY <2>1, <2>4, <2>5 DEF Refers, HasRef, Holding, HasLock, Pointer, Iputs
  <2>. QED BY <1>4, <1>6, <2>3, <2>6, <2>7, <2>8
<1>. QED BY <1>5, <1>6 DEF BeginOp

LEMMA EndOpShift ==
  ASSUME InodeInv, NEW p \in Procs, EndOp(p)
  PROVE  \E n : Shift(p, n)
<1>. DEFINE q == proc[p]
<1>1. q.pc = "end" /\ outstanding' = outstanding - 1 /\ icache' = icache
  BY DEF EndOp, At
<1>2. IsProcess(q) /\ Shape(q.pc, q.stack) /\ Local(q) /\ LOGOPS \in Nat
  BY FileSysAssumption DEF InodeInv, FileInv, ProcsOK
<1>3. PICK m : m = [q EXCEPT !.log = {}]
  OBVIOUS
<1>4. /\ IsProcess(m) /\ m.pc = q.pc /\ m.stack = q.stack /\ m.cwd = q.cwd /\ m.ip = q.ip /\ m.old = q.old
      /\ m.nx = q.nx /\ m.v = q.v /\ Body(m) = Body(q)
  BY <1>2, <1>3, FieldsAre DEF IsProcess, Fields, Body
<1>5. \/ q.stack = <<>> /\ proc' = [proc EXCEPT ![p] = Returned(m, q.r)]
      \/ q.stack # <<>> /\ proc' = [proc EXCEPT ![p] = Pop(m)]
  <2>1. m.r = q.r
    BY <1>2, <1>3, FieldsAre DEF IsProcess, Fields
  <2>2. IF q.stack = <<>> THEN proc' = [proc EXCEPT ![p] = Returned(m, m.r)] ELSE proc' = [proc EXCEPT ![p] = Pop(m)]
    BY <1>3, <1>4 DEF EndOp, Return
  <2>. QED BY <2>1, <2>2
<1>6. InOp(q)
  BY <1>1 DEF InOp
<1>7. outstanding \in Nat /\ outstanding' <= LOGOPS
  BY <1>1, <1>2, OpsAre
<1>8. ASSUME NEW n, proc' = [proc EXCEPT ![p] = n], Local(n), ~InOp(n),
             \A i \in Inums : /\ \A x \in Pointer : Refers(n, x, i) <=> Refers(q, x, i)
                              /\ Holding(n, i) <=> Holding(q, i)
      PROVE  Shift(p, n)
  <2>1. \A i \in Inums : Count(n, i) = Count(q, i) /\ (Holding(n, i) <=> Holding(q, i))
    BY <1>8 DEF Count, One, Pointer
  <2>2. DOMAIN icache' = Inums /\ \A i \in Inums : Entered(p, q, n, icache[i], icache'[i], i, 0)
    BY <1>1, <2>1, CacheKept
  <2>3. outstanding' = outstanding + One(InOp(n)) - One(InOp(q))
    BY <1>1, <1>6, <1>7, <1>8 DEF One
  <2>. QED BY <1>7, <1>8, <2>2, <2>3 DEF Shift
<1>9. CASE q.stack = <<>> /\ proc' = [proc EXCEPT ![p] = Returned(m, q.r)]
  <2>1. PICK n : n = Returned(m, q.r)
    OBVIOUS
  <2>2. n.cwd = q.cwd /\ Plain(n) /\ ~InOp(n)
    BY <1>4, <2>1, ReturnedView
  <2>3. Plain(q)
    BY <1>1, <1>9, PlainIs DEF PlainLabels
  <2>4. Local(n) /\ \A i \in Inums : /\ \A x \in Pointer : Refers(n, x, i) <=> Refers(q, x, i)
                                     /\ Holding(n, i) <=> Holding(q, i)
    BY <2>2, <2>3 DEF Plain
  <2>. QED BY <1>8, <1>9, <2>1, <2>2, <2>4
<1>10. CASE q.stack # <<>> /\ proc' = [proc EXCEPT ![p] = Pop(m)]
  <2>1. PICK n : n = Pop(m)
    OBVIOUS
  <2>2. /\ n.pc = q.stack[1] /\ n.stack = Tail(q.stack) /\ Body(n) = Body(q)
        /\ n.cwd = q.cwd /\ n.ip = q.ip /\ n.old = q.old /\ n.nx = q.nx /\ n.v = q.v
    BY <1>2, <1>4, <1>10, <2>1, PopView
  <2>3. q.stack \in {<<"open3">>, <<"begin", "write">>, <<"chdir2">>, <<"exit">>, <<"exit_end">>}
    BY <1>1, <1>2, <1>10 DEF Shape, Bodies, PipeLabels, Iputs
  <2>4. \/ n.pc \in {"open3", "chdir2", "exit", "exit_end"} /\ n.stack = <<>>
        \/ n.pc = "begin" /\ n.stack = <<"write">> /\ Body(n) = "write"
    <3>1. ASSUME NEW l, q.stack = <<l>> PROVE n.pc = l /\ n.stack = <<>>
      BY <2>2, <3>1, ShortSequences
    <3>2. CASE q.stack = <<"begin", "write">>
      <4>1. n.pc = "begin" /\ n.stack = <<"write">>
        BY <2>2, <3>2, ShortSequences
      <4>. QED BY <4>1, BodyIs
    <3>. QED BY <2>3, <3>1, <3>2
  <2>5. n.stack # <<>> => n.stack[1] = "write"
    BY <2>4
  <2>6. Local(n) /\ ~InOp(n)
    BY <1>2, <2>2, <2>4, <2>5 DEF Local, Looks, Puts, Apart, Departed, InOp, Iputs
  <2>7. ASSUME NEW i \in Inums
        PROVE  (\A x \in Pointer : Refers(n, x, i) <=> Refers(q, x, i)) /\ (Holding(n, i) <=> Holding(q, i))
    BY <1>1, <2>2, <2>4 DEF Refers, HasRef, Holding, HasLock, Pointer, Iputs
  <2>. QED BY <1>8, <1>10, <2>1, <2>6, <2>7
<1>. QED BY <1>5, <1>9, <1>10

\* exit() hands its current directory to iput, and chdir() takes over the inode that it looked up.
LEMMA ExitCwdShift ==
  ASSUME InodeInv, NEW p \in Procs, ExitCwd(p)
  PROVE  \E n : Shift(p, n)
<1>. DEFINE q == proc[p]
<1>1. q.pc \in {"user", "exit"} /\ outstanding' = outstanding /\ icache' = icache
  BY DEF ExitCwd, Exiting, Calls, At
<1>2. IsProcess(q) /\ q.stack = <<>>
  BY <1>1, AtBody DEF InodeInv, Bodies
<1>3. PICK n : n = [Push(q, <<"iput", "end", "exit_end">>) EXCEPT !.pc = "begin", !.v = q.cwd, !.cwd = 0]
  OBVIOUS
<1>4. n.pc = "begin" /\ n.stack = <<"iput", "end", "exit_end">> /\ n.v = q.cwd /\ n.cwd = 0
  BY <1>2, <1>3, FieldsAre, ShortSequences DEF Push, IsProcess, Fields
<1>5. Body(n) = "exit_end" /\ n.stack[1] = "iput"
  BY <1>4, BodyIs
<1>6. Plain(q) /\ ~InOp(q)
  BY <1>1, <1>2, PlainIs DEF PlainLabels
<1>7. Local(n) /\ ~InOp(n)
  BY <1>4, <1>5 DEF Local, Looks, Puts, Apart, Departed, InOp, Iputs
<1>8. ASSUME NEW i \in Inums PROVE Count(n, i) = Count(q, i) /\ (Holding(n, i) <=> Holding(q, i))
  <2>1. /\ ~Refers(n, "cwd", i) /\ ~Refers(n, "ip", i) /\ ~Refers(n, "old", i) /\ ~Refers(n, "nx", i)
        /\ Refers(n, "v", i) <=> q.cwd = i
    BY <1>4, <1>5 DEF Refers, HasRef, Inums, Iputs
  <2>2. ~Holding(n, i)
    BY <1>4, <1>5 DEF Holding, HasLock, Pointer
  <2>3. Count(n, i) = One(q.cwd = i)
    BY <2>1 DEF Count, One
  <2>. QED BY <1>6, <2>2, <2>3, PlainCount DEF Plain
<1>9. Turn(p, n)
  <2>1. DOMAIN icache' = Inums /\ \A i \in Inums : Entered(p, q, n, icache[i], icache'[i], i, 0)
    BY <1>1, <1>8, CacheKept
  <2>. QED BY <1>3, <1>6, <1>7, <2>1 DEF ExitCwd, Turn
<1>. QED BY <1>1, <1>9, TurnIsShift

LEMMA ChdirDoneShift ==
  ASSUME InodeInv, NEW p \in Procs, ChdirDone(p)
  PROVE  \E n : Shift(p, n)
<1>. DEFINE q == proc[p]
<1>1. q.pc = "chdir2" /\ outstanding' = outstanding /\ icache' = icache
  BY DEF ChdirDone, At
<1>2. IsProcess(q) /\ q.stack = <<>> /\ Body(q) = "chdir2" /\ ~InOp(q)
  BY <1>1, AtLabel DEF Bodies
<1>3. PICK m, n : m = [q EXCEPT !.cwd = q.ip] /\ n = Returned(m, 0)
  OBVIOUS
<1>4. IsProcess(m) /\ m.cwd = q.ip
  BY <1>2, <1>3, FieldsAre DEF IsProcess, Fields
<1>5. n.cwd = q.ip /\ Plain(n) /\ ~InOp(n)
  <2>1. IsProcess(m) /\ n = Returned(m, 0)
    BY <1>3, <1>4
  <2>2. n.cwd = m.cwd /\ Plain(n) /\ ~InOp(n)
    BY ONLY <2>1, ReturnedView
  <2>. QED BY <1>4, <2>2
<1>6. ASSUME NEW i \in Inums PROVE Count(n, i) = Count(q, i) /\ (Holding(n, i) <=> Holding(q, i))
  <2>1. /\ ~Refers(q, "cwd", i) /\ ~Refers(q, "v", i) /\ ~Refers(q, "old", i) /\ ~Refers(q, "nx", i)
        /\ Refers(q, "ip", i) <=> q.ip = i
    BY <1>1, <1>2 DEF Refers, HasRef, Inums, Iputs
  <2>2. ~Holding(q, i)
    BY <1>1, <1>2 DEF Holding, HasLock, Pointer
  <2>3. Count(q, i) = One(q.ip = i)
    BY <2>1 DEF Count, One
  <2>. QED BY <1>5, <2>2, <2>3, PlainCount DEF Plain
<1>7. Turn(p, n)
  <2>1. DOMAIN icache' = Inums /\ \A i \in Inums : Entered(p, q, n, icache[i], icache'[i], i, 0)
    BY <1>1, <1>6, CacheKept
  <2>2. proc' = [proc EXCEPT ![p] = n]
    BY <1>3 DEF ChdirDone, Return
  <2>. QED BY <1>2, <1>5, <2>1, <2>2 DEF Turn, Plain
<1>. QED BY <1>1, <1>7, TurnIsShift

(***************************************************************************)
(* Steps that leave every process with what it has                         *)
(***************************************************************************)
Stays(q, n) == Same(q, n) /\ Local(n)

\* The files keep their inodes.
SameInodes ==
  \A f \in Files : (ftable'[f].type = "FD_INODE" <=> ftable[f].type = "FD_INODE") /\ ftable'[f].ip = ftable[f].ip

LEMMA ItStays == ASSUME NEW q, Local(q) PROVE Stays(q, q)
BY DEF Stays, Same

LEMMA PlainStays ==
  ASSUME NEW q, NEW n, Plain(q), Plain(n), n.cwd = q.cwd, InOp(n) <=> InOp(q)
  PROVE  Stays(q, n)
BY DEF Plain, Stays, Same

LEMMA KeptStays ==
  ASSUME NEW q, NEW n, Kept(q, n), Shape(q.pc, q.stack), Local(q)
  PROVE  Stays(q, n)
<1>1. /\ n.stack = q.stack /\ n.cwd = q.cwd /\ n.ip = q.ip /\ n.old = q.old /\ n.nx = q.nx /\ n.v = q.v
      /\ \A x \in Pointer : n[x] = q[x]
  BY DEF Kept, Fields, Pointer
<1>2. CASE n.pc = q.pc
  <2>1. Body(n) = Body(q)
    BY <1>1, <1>2 DEF Body
  <2>2. /\ \A x \in Pointer : (HasRef(n, x) <=> HasRef(q, x)) /\ (HasLock(n, x) <=> HasLock(q, x))
        /\ InOp(n) <=> InOp(q)
    BY <1>2, <2>1 DEF HasRef, HasLock, InOp
  <2>3. Same(q, n)
    BY <1>1, <2>2 DEF Same, Refers, Holding
  <2>4. Local(n)
    BY <1>1, <1>2, <2>1, <2>2 DEF Local, Looks, Puts, Apart, Departed, Pointer
  <2>. QED BY <2>3, <2>4 DEF Stays
<1>3. CASE q.pc \in {"read_asleep", "write_asleep"} /\ n.pc \in {"piperead", "pipewrite"}
  <2>1. q.stack = <<>>
    BY <1>3 DEF Shape, Bodies, PipeLabels, Iputs
  <2>2. Plain(q) /\ Plain(n) /\ ~InOp(q) /\ ~InOp(n)
    BY <1>1, <1>3, <2>1, PlainIs DEF PlainLabels, PipeLabels
  <2>. QED BY <1>1, <2>2, PlainStays
<1>. QED BY <1>2, <1>3 DEF Kept

\* The files and who refers to them.
LEMMA SameFiles ==
  ASSUME InodeInv, SameInodes
  PROVE  TypedFiles' /\ \A i \in Inums : FilesOn(i)' = FilesOn(i)
<1>1. TypedFiles'
  BY DEF InodeInv, TypedFiles, SameInodes
<1>2. \A i \in Inums : FilesOn(i)' = FilesOn(i)
  BY DEF FilesOn, SameInodes
<1>. QED BY <1>1, <1>2

LEMMA ShiftStep ==
  ASSUME InodeInv, FileInv', SameInodes, NEW p \in Procs, NEW n, Shift(p, n)
  PROVE  InodeInv'
<1>1. TypedFiles' /\ \A i \in Inums : FilesOn(i)' = FilesOn(i)
  BY SameFiles
<1>2. PICK files : files = [i \in Inums |-> 0]
  OBVIOUS
<1>3. \A i \in Inums : files[i] = Cardinality(FilesOn(i))' - Cardinality(FilesOn(i))
  BY <1>1, <1>2, FilesOnFinite
<1>4. proc'[p] = n /\ \A c \in Procs \ {p} : proc'[c] = proc[c]
  BY DEF Shift, InodeInv, FileInv, ProcsOK
<1>5. \A c \in Procs \ {p} : Same(proc[c], proc'[c]) /\ Local(proc'[c])
  BY <1>4, ItStays DEF InodeInv, Stays
<1>6. /\ DOMAIN icache' = Inums /\ Local(proc'[p])
      /\ \A i \in Inums : Entered(p, proc[p], proc'[p], icache[i], icache'[i], i, files[i])
      /\ outstanding' = outstanding + One(InOp(proc'[p])) - One(InOp(proc[p])) /\ outstanding' <= LOGOPS
  BY <1>2, <1>4 DEF Shift
<1>. QED BY <1>1, <1>3, <1>5, <1>6, OneMoves

\* The cache as it was, but for what inodes contain.
Untaken == DOMAIN icache' = Inums /\ \A i \in Inums : Entry(icache'[i], icache[i].ref, icache[i].lock)

LEMMA StayStep ==
  ASSUME InodeInv, FileInv', SameInodes, Untaken, outstanding' = outstanding,
         \A c \in Procs : Stays(proc[c], proc'[c])
  PROVE  InodeInv'
<1>1. TypedFiles' /\ \A i \in Inums : FilesOn(i)' = FilesOn(i)
  BY SameFiles
<1>2. PICK files : files = [i \in Inums |-> 0]
  OBVIOUS
<1>3. \A i \in Inums : files[i] = Cardinality(FilesOn(i))' - Cardinality(FilesOn(i))
  BY <1>1, <1>2, FilesOnFinite
<1>4. 1 \in Procs /\ 0 \notin Procs
  BY FileSysAssumption DEF Procs
<1>5. PICK p \in Procs : p = 1
  BY <1>4
<1>6. /\ \A c \in Procs : Same(proc[c], proc'[c]) /\ Local(proc'[c])
      /\ InOp(proc[p]) <=> InOp(proc'[p])
  BY DEF Stays, Same
<1>7. ASSUME NEW i \in Inums PROVE Entered(p, proc[p], proc'[p], icache[i], icache'[i], i, files[i])
  <2>1. (Holding(proc[p], i) <=> Holding(proc'[p], i)) /\ (icache[i].lock = p <=> Holding(proc[p], i))
    BY <1>6 DEF Same, InodeInv, LocksOwned, Holding
  <2>2. Count(proc'[p], i) = Count(proc[p], i) /\ Count(proc[p], i) \in Nat
    BY <1>6, CountIs DEF Same, Count, One, Pointer
  <2>3. IsEntry(icache'[i]) /\ icache'[i].ref = icache[i].ref /\ icache'[i].lock = icache[i].lock /\ icache[i].ref \in Nat
    BY DEF Untaken, Entry, InodeInv, CacheOK
  <2>4. icache'[i].ref = icache[i].ref + (Count(proc'[p], i) - Count(proc[p], i)) + files[i]
    BY <1>2, <2>2, <2>3
  <2>. QED BY <1>4, <2>1, <2>3, <2>4 DEF Entered
<1>8. outstanding' = outstanding + One(InOp(proc'[p])) - One(InOp(proc[p])) /\ outstanding' <= LOGOPS
  <2>1. One(InOp(proc'[p])) = One(InOp(proc[p])) /\ One(InOp(proc[p])) \in Nat
    BY <1>6 DEF One
  <2>. QED BY <2>1, OpsAre
<1>9. DOMAIN icache' = Inums
  BY DEF Untaken
<1>. QED BY <1>1, <1>3, <1>6, <1>7, <1>8, <1>9, OneMoves

LEMMA UntakenSame ==
  ASSUME InodeInv, icache' = icache
  PROVE  Untaken
BY DEF InodeInv, CacheOK, Untaken, Entry

\* An inode that is locked and released in one step.
LEMMA UntakenTouch ==
  ASSUME InodeInv, NEW j, icache[j].lock = 0, NEW e, icache' = [icache EXCEPT ![j] = e],
         j \in Inums => Entry(e, icache[j].ref, 0)
  PROVE  Untaken
<1>1. CacheOK
  BY DEF InodeInv
<1>2. DOMAIN icache' = Inums
  BY <1>1 DEF CacheOK
<1>3. ASSUME NEW i \in Inums PROVE Entry(icache'[i], icache[i].ref, icache[i].lock)
  BY <1>1, <1>3 DEF CacheOK, Entry
<1>. QED BY <1>2, <1>3 DEF Untaken

LEMMA SameInodesKept ==
  ASSUME FilesKept
  PROVE  SameInodes
BY DEF FilesKept, FileFields, SameInodes

LEMMA SameInodesAt ==
  ASSUME InodeInv, NEW f, NEW e, ftable' = [ftable EXCEPT ![f] = e],
         f \in Files => e.ip = ftable[f].ip /\ (e.type = "FD_INODE" <=> ftable[f].type = "FD_INODE")
  PROVE  SameInodes
BY DEF InodeInv, FileInv, FilesOK, SameInodes

\* A process that has no references but its current directory goes on without others.
LEMMA PlainTurn ==
  ASSUME InodeInv, NEW p \in Procs, Plain(proc[p]), NEW n, Plain(n), n.cwd = proc[p].cwd, InOp(n) <=> InOp(proc[p]),
         \/ proc' = [proc EXCEPT ![p] = n]
         \/ proc'[p] = n /\ \A c \in Procs \ {p} : Kept(proc[c], proc'[c])
  PROVE  \A c \in Procs : Stays(proc[c], proc'[c])
<1>1. \A c \in Procs : Shape(proc[c].pc, proc[c].stack) /\ Local(proc[c]) /\ DOMAIN proc = Procs
  BY DEF InodeInv, FileInv, ProcsOK
<1>2. Stays(proc[p], n)
  BY PlainStays
<1>3. CASE proc' = [proc EXCEPT ![p] = n]
  BY <1>1, <1>2, <1>3, ItStays
<1>4. CASE proc'[p] = n /\ \A c \in Procs \ {p} : Kept(proc[c], proc'[c])
  BY <1>1, <1>2, <1>4, KeptStays
<1>. QED BY <1>3, <1>4

LEMMA AtPlain ==
  ASSUME InodeInv, NEW p \in Procs, proc[p].pc \in PipeLabels \cup {"user", "exit", "write", "pipeclose"}
  PROVE  /\ IsProcess(proc[p]) /\ Plain(proc[p]) /\ (InOp(proc[p]) <=> proc[p].pc = "write")
         /\ proc[p].stack = <<>> \/ (proc[p].pc = "pipeclose" /\ proc[p].stack = <<"exit">>)
<1>1. IsProcess(proc[p]) /\ Shape(proc[p].pc, proc[p].stack)
  BY DEF InodeInv, FileInv, ProcsOK
<1>2. proc[p].stack = <<>> \/ (proc[p].pc = "pipeclose" /\ proc[p].stack = <<"exit">>)
  BY <1>1 DEF Shape, Bodies, PipeLabels, Iputs
<1>. QED BY <1>1, <1>2, PlainIs DEF PlainLabels, PipeLabels

LEMMA DeliveredView ==
  ASSUME NEW p, NEW q, q = proc[p], IsProcess(q), NEW cells, NEW n, n = Delivered(p, cells)
  PROVE  n.cwd = q.cwd /\ Plain(n) /\ ~InOp(n)
<1>1. PICK m : m = Returned(q, 0)
  OBVIOUS
<1>2. IsProcess(m) /\ m.cwd = q.cwd
  BY <1>1, ReturnedIs, ReturnedView
<1>3. PICK got, mm : got = q.got \o cells /\ mm = [m EXCEPT !.got = got]
  OBVIOUS
<1>4. IsProcess(mm) /\ mm.cwd = q.cwd
  BY <1>2, <1>3, FieldsAre DEF IsProcess, Fields
<1>5. PICK g : g = Goto(mm, q.at)
  OBVIOUS
<1>6. IsProcess(g) /\ g.cwd = q.cwd
  BY <1>4, <1>5, GotoIs DEF Fields
<1>7. n = g \/ n = m
  BY <1>1, <1>3, <1>5 DEF Delivered
<1>8. n.stack = <<>> /\ n.pc \in {"exit", "user"}
  BY DeliveredAs
<1>. QED BY <1>2, <1>6, <1>7, <1>8, PlainIs DEF PlainLabels

LEMMA ReadStays ==
  ASSUME InodeInv, NEW p \in Procs, Read(p) \/ ReadBad(p) \/ Fstat(p)
  PROVE  Untaken /\ outstanding' = outstanding /\ \A c \in Procs : Stays(proc[c], proc'[c])
<1>. DEFINE q == proc[p]
<1>1. q.pc = "user" /\ outstanding' = outstanding
  BY DEF Read, ReadBad, Fstat, Calls, At
<1>2. IsProcess(q) /\ Plain(q) /\ ~InOp(q) /\ CacheOK
  BY <1>1, AtPlain DEF InodeInv
<1>3. PICK i, n : /\ icache' = icache \/ (icache[i].lock = 0 /\ icache' = [icache EXCEPT ![i] = iunlock(ilock(p, i))])
                  /\ proc' = [proc EXCEPT ![p] = n] /\ ((\E r : n = Returned(q,
                                                                          r)) \/ \E cells : n = Delivered(p, cells))
  <2>1. CASE Read(p)
    BY <2>1 DEF Read, Lockable
  <2>2. CASE ReadBad(p)
    BY <2>2 DEF ReadBad, Return
  <2>3. CASE Fstat(p)
    BY <2>3 DEF Fstat, Return, Lockable
  <2>. QED BY <2>1, <2>2, <2>3
<1>4. n.cwd = q.cwd /\ Plain(n) /\ ~InOp(n)
  BY <1>2, <1>3, ReturnedView, DeliveredView
<1>5. \A c \in Procs : Stays(proc[c], proc'[c])
  BY <1>2, <1>3, <1>4, PlainTurn
<1>6. Untaken
  BY <1>2, <1>3, UntakenSame, UntakenTouch, Entries
<1>. QED BY <1>1, <1>5, <1>6

LEMMA WriteStays ==
  ASSUME InodeInv, NEW p \in Procs, WriteStart(p) \/ WritePiece(p)
  PROVE  Untaken /\ outstanding' = outstanding /\ \A c \in Procs : Stays(proc[c], proc'[c])
<1>. DEFINE q == proc[p]
<1>1. q.pc \in {"user", "write"} /\ outstanding' = outstanding
  BY DEF WriteStart, WritePiece, Calls, At
<1>2. IsProcess(q) /\ Plain(q) /\ (InOp(q) <=> q.pc = "write") /\ CacheOK /\ q.stack = <<>>
  BY <1>1, AtPlain DEF InodeInv
<1>3. CASE WriteStart(p)
  <2>1. q.pc = "user" /\ icache' = icache
    BY <1>3 DEF WriteStart, Calls, At
  <2>2. PICK n, f : /\ proc' = [proc EXCEPT ![p] = n]
                    /\ \/ n = Returned(q, -1) \/ n = [q EXCEPT !.pc = "pipewrite", !.f = f]
                       \/ n = [Push(q, <<"write">>) EXCEPT !.pc = "begin", !.f = f]
    BY <1>3 DEF WriteStart, Return
  <2>3. CASE n = Returned(q, -1)
    <3>1. n.cwd = q.cwd /\ Plain(n) /\ ~InOp(n)
      BY <1>2, <2>3, ReturnedView
    <3>2. \A c \in Procs : Stays(proc[c], proc'[c])
      BY <1>2, <2>1, <2>2, <3>1, PlainTurn
    <3>3. Untaken
      BY <2>1, UntakenSame
    <3>. QED BY <1>1, <3>2, <3>3
  <2>4. CASE n = [q EXCEPT !.pc = "pipewrite", !.f = f]
    <3>1. n.pc = "pipewrite" /\ n.stack = <<>> /\ n.cwd = q.cwd
      BY <1>2, <2>4, FieldsAre DEF IsProcess, Fields
    <3>2. Plain(n) /\ ~InOp(n)
      BY <3>1, PlainIs DEF PlainLabels, PipeLabels
    <3>. QED BY <1>1, <1>2, <2>1, <2>2, <3>1, <3>2, PlainTurn, UntakenSame
  <2>5. CASE n = [Push(q, <<"write">>) EXCEPT !.pc = "begin", !.f = f]
    <3>1. <<"write">> \o <<>> = <<"write">>
      BY ShortSequences
    <3>2. n.pc = "begin" /\ n.stack = <<"write">> /\ n.cwd = q.cwd
      BY <1>2, <2>5, <3>1, FieldsAre DEF Push, IsProcess, Fields
    <3>3. Plain(n) /\ ~InOp(n)
      BY <3>2, PlainIs
    <3>. QED BY <1>1, <1>2, <2>1, <2>2, <3>2, <3>3, PlainTurn, UntakenSame
  <2>. QED BY <2>2, <2>3, <2>4, <2>5
<1>4. CASE WritePiece(p)
  <2>1. q.pc = "write"
    BY <1>4 DEF WritePiece, At
  <2>2. PICK i, w : icache[i].lock = 0 /\ icache' = [icache EXCEPT ![i] = iunlock(Store(ilock(p, i), w))]
    BY <1>4, Zenon DEF WritePiece, Lockable
  <2>3. PICK more, log, k, r :
          proc' = [proc EXCEPT ![p] = [Push(q, IF more THEN <<"begin", "write">> ELSE <<>>) EXCEPT
                                         !.pc = "end", !.log = log, !.k = k, !.r = r]]
    BY <1>4, Zenon DEF WritePiece
  <2>. DEFINE labels == IF more THEN <<"begin", "write">> ELSE <<>>
  <2>4. PICK n : n = [Push(q, labels) EXCEPT !.pc = "end", !.log = log, !.k = k, !.r = r]
    OBVIOUS
  <2>5. labels \o <<>> = labels /\ labels \in {<<>>, <<"begin", "write">>}
    OBVIOUS
  <2>6. n.pc = "end" /\ n.stack = labels /\ n.cwd = q.cwd
    BY <1>2, <2>4, <2>5, FieldsAre DEF Push, IsProcess, Fields
  <2>7. Plain(n) /\ InOp(n)
    BY <2>5, <2>6, PlainIs DEF PlainLabels
  <2>8. \A c \in Procs : Stays(proc[c], proc'[c])
    BY <1>2, <2>1, <2>3, <2>4, <2>6, <2>7, PlainTurn
  <2>9. Untaken
    BY <1>2, <2>2, UntakenTouch, Entries
  <2>. QED BY <1>1, <2>8, <2>9
<1>. QED BY <1>3, <1>4

LEMMA PipeFileStays ==
  ASSUME InodeInv, NEW p \in Procs, PipeFile(p) \/ PipeAlloc(p)
  PROVE  \A c \in Procs : Stays(proc[c], proc'[c])
<1>. DEFINE q == proc[p]
<1>1. q.pc \in {"user", "pipealloc"}
  BY DEF PipeFile, PipeAlloc, Calls, At
<1>2. IsProcess(q) /\ Plain(q) /\ ~InOp(q) /\ q.stack = <<>>
  BY <1>1, AtPlain DEF PipeLabels
<1>3. ASSUME NEW n, proc' = [proc EXCEPT ![p] = n], n.cwd = q.cwd, Plain(n), ~InOp(n)
      PROVE  \A c \in Procs : Stays(proc[c], proc'[c])
  BY <1>2, <1>3, PlainTurn
<1>4. CASE PipeFile(p)
  <2>2. PICK r, m, g : r = Returned(q, -1) /\ m = [Jump(q, "pipealloc") EXCEPT !.f = g] /\ g = First(FreeFiles)
    OBVIOUS
  <2>3. proc' = [proc EXCEPT ![p] = r] \/ proc' = [proc EXCEPT ![p] = m]
    BY <1>4, <2>2 DEF PipeFile, Return
  <2>4. r.cwd = q.cwd /\ Plain(r) /\ ~InOp(r)
    BY <1>2, <2>2, ReturnedView
  <2>5. m.pc = "pipealloc" /\ m.stack = <<>> /\ m.cwd = q.cwd
    BY <1>2, <2>2, FieldsAre DEF Jump, IsProcess, Fields
  <2>6. Plain(m) /\ ~InOp(m)
    BY <2>5, PlainIs DEF PlainLabels, PipeLabels
  <2>. QED BY <1>3, <2>3, <2>4, <2>5, <2>6
<1>5. CASE PipeAlloc(p)
  <2>1. PICK x, y, b, m : /\ x = First(FreeFds(q)) /\ y = First(FreeFds(q) \ {x}) /\ b = First(FreeFiles)
                          /\ m = [q EXCEPT !.ofile[x] = q.f, !.ofile[y] = b]
    OBVIOUS
  <2>2. IsProcess(m) /\ m.cwd = q.cwd
    BY <1>2, <2>1, FieldsAre DEF IsProcess, Fields
  <2>3. PICK r1, r2 : r1 = Returned(q, -1) /\ r2 = Returned(m, 0)
    OBVIOUS
  <2>4. r1.cwd = q.cwd /\ Plain(r1) /\ ~InOp(r1) /\ r2.cwd = q.cwd /\ Plain(r2) /\ ~InOp(r2)
    BY <1>2, <2>2, <2>3, ReturnedView
  <2>5. proc' = [proc EXCEPT ![p] = r1] \/ proc' = [proc EXCEPT ![p] = r2]
    BY <1>5, <2>1, <2>3 DEF PipeAlloc, Return
  <2>. QED BY <1>3, <2>4, <2>5
<1>. QED BY <1>4, <1>5

LEMMA PipeFileInodes ==
  ASSUME InodeInv, NEW p \in Procs, PipeFile(p) \/ PipeAlloc(p)
  PROVE  SameInodes
<1>1. ASSUME NEW f \in Files
      PROVE  /\ IsFile(ftable[f]) /\ (ftable[f].ref = 0 => ftable[f].type = "FD_NONE")
             /\ ftable[f].type # "FD_INODE" => ftable[f].ip = 0
  BY DEF InodeInv, FileInv, FilesOK, FileOK, TypedFiles
<1>2. DOMAIN ftable = Files
  BY DEF InodeInv, FileInv, FilesOK
<1>3. CASE PipeFile(p)
  <2>1. CASE ftable' = ftable
    BY <2>1 DEF SameInodes
  <2>2. CASE ftable' # ftable
    <3>1. PICK f, e : ftable' = [ftable EXCEPT ![f] = e] /\ e = [ftable[f] EXCEPT !.ref = 1]
      BY <1>3, <2>2 DEF PipeFile
    <3>2. f \in Files => e.ip = ftable[f].ip /\ e.type = ftable[f].type
      BY <1>1, <3>1, FileFieldsAre DEF IsFile, FileFields
    <3>. QED BY <3>1, <3>2, SameInodesAt
  <2>. QED BY <2>1, <2>2
<1>4. CASE PipeAlloc(p)
  <2>1. PICK a \in Files : a = proc[p].f /\ ftable[a].type = "FD_NONE" /\ ftable[a].ip = 0
    <3>1. proc[p].pc = "pipealloc"
      BY <1>4 DEF PipeAlloc, At
    <3>2. Fresh(proc[p].f)
      BY <3>1 DEF InodeInv, FileInv, Knows
    <3>. QED BY <1>1, <3>2 DEF Fresh
  <2>2. CASE ftable' = [ftable EXCEPT ![a] = NoFile]
    BY <2>1, <2>2, SameInodesAt DEF NoFile
  <2>3. CASE ftable' # [ftable EXCEPT ![a] = NoFile]
    <3>0. PICK i, b, end, re, we :
            /\ i = First({j \in Pages : ~pipes[j].page}) /\ b = First(FreeFiles)
            /\ end = [NoFile EXCEPT !.type = "FD_PIPE", !.ref = 1, !.pipe = i]
            /\ re = [end EXCEPT !.readable = TRUE] /\ we = [end EXCEPT !.writable = TRUE]
      OBVIOUS
    <3>1. FreeFiles # {} /\ b = First(FreeFiles) /\ ftable' = [ftable EXCEPT ![a] = re, ![b] = we]
      BY <1>4, <2>1, <2>3, <3>0 DEF PipeAlloc
    <3>2. b \in Files /\ ftable[b].type = "FD_NONE" /\ ftable[b].ip = 0
      BY <1>1, <3>1, FirstFree
    <3>3. re.type = "FD_PIPE" /\ we.type = "FD_PIPE" /\ re.ip = 0 /\ we.ip = 0
      BY <3>0 DEF NoFile
    <3>4. ASSUME NEW g \in Files
          PROVE  (ftable'[g].type = "FD_INODE" <=> ftable[g].type = "FD_INODE") /\ ftable'[g].ip = ftable[g].ip
      <4>1. ftable'[g] = IF g = b THEN we ELSE IF g = a THEN re ELSE ftable[g]
        BY <1>2, <3>1
      <4>. QED BY <2>1, <3>2, <3>3, <4>1
    <3>. QED BY <3>4 DEF SameInodes
  <2>. QED BY <2>2, <2>3
<1>. QED BY <1>3, <1>4

LEMMA RingStays ==
  ASSUME InodeInv, NEW p \in Procs, PipeWrite(p) \/ PipeRead(p) \/ PipeSleep(p) \/ PipeClose(p)
  PROVE  \A c \in Procs : Stays(proc[c], proc'[c])
<1>. DEFINE q == proc[p]
<1>1. q.pc \in PipeLabels \cup {"user", "pipeclose"}
  BY DEF PipeWrite, PipeRead, PipeSleep, PipeClose, Calls, At, PipeLabels
<1>2. /\ IsProcess(q) /\ Plain(q) /\ ~InOp(q) /\ FileInv
      /\ q.stack = <<>> \/ (q.pc = "pipeclose" /\ q.stack = <<"exit">>)
  BY <1>1, AtPlain DEF PipeLabels, InodeInv
<1>3. ASSUME NEW n, n.cwd = q.cwd, Plain(n), ~InOp(n), NEW i, NEW label \in {"read_asleep", "write_asleep"}, n.pc # label,
             proc' = [proc EXCEPT ![p] = n] \/ proc' = Woken([proc EXCEPT ![p] = n], i, label)
      PROVE  \A c \in Procs : Stays(proc[c], proc'[c])
  <2>1. CASE proc' = [proc EXCEPT ![p] = n]
    BY <1>2, <1>3, <2>1, PlainTurn
  <2>2. CASE proc' = Woken([proc EXCEPT ![p] = n], i, label)
    <3>1. proc'[p] = n /\ \A c \in Procs \ {p} : Kept(proc[c], proc'[c])
      <4>1. Awakens(p, n, i, label) /\ n.pc # label
        BY <1>3, <2>2 DEF Awakens
      <4>2. Awake(p, n, i, label)
        BY <1>2, <1>3, <4>1, WokenIs
      <4>. QED BY <4>2 DEF Awake
    <3>. QED BY <1>2, <1>3, <3>1, PlainTurn
  <2>. QED BY <1>3, <2>1, <2>2
<1>4. CASE PipeWrite(p)
  <2>0. q.stack = <<>>
    BY <1>2, <1>4 DEF PipeWrite, At
  <2>1. PICK i, r, k, n : /\ proc' = [proc EXCEPT ![p] = n] \/ proc' = Woken([proc EXCEPT ![p] = n], i, "read_asleep")
                          /\ n = Returned(q, r) \/ n = [Jump(q, "write_sleep") EXCEPT !.k = k]
    BY <1>4 DEF PipeWrite, Return
  <2>2. CASE n = Returned(q, r)
    <3>1. n.cwd = q.cwd /\ Plain(n) /\ ~InOp(n) /\ n.pc \in {"exit", "user"}
      BY <1>2, <2>2, ReturnedView
    <3>. QED BY <1>3, <2>1, <3>1
  <2>3. CASE n = [Jump(q, "write_sleep") EXCEPT !.k = k]
    <3>1. n.pc = "write_sleep" /\ n.stack = <<>> /\ n.cwd = q.cwd
      BY <1>2, <2>0, <2>3, FieldsAre DEF Jump, IsProcess, Fields
    <3>2. Plain(n) /\ ~InOp(n)
      BY <3>1, PlainIs DEF PlainLabels, PipeLabels
    <3>. QED BY <1>3, <2>1, <3>1, <3>2
  <2>. QED BY <2>1, <2>2, <2>3
<1>5. CASE PipeRead(p)
  <2>0. q.stack = <<>>
    BY <1>2, <1>5 DEF PipeRead, At, Calls
  <2>1. PICK i, r, f, cells, n :
          /\ proc' = [proc EXCEPT ![p] = n] \/ proc' = Woken([proc EXCEPT ![p] = n], i, "write_asleep")
          /\ n = Returned(q, r) \/ n = Delivered(p, cells) \/ n = [Jump(q, "read_sleep") EXCEPT !.f = f]
    BY <1>5 DEF PipeRead, Return
  <2>2. CASE n = Returned(q, r)
    <3>1. n.cwd = q.cwd /\ Plain(n) /\ ~InOp(n) /\ n.pc \in {"exit", "user"}
      BY <1>2, <2>2, ReturnedView
    <3>. QED BY <1>3, <2>1, <3>1
  <2>3. CASE n = Delivered(p, cells)
    <3>1. n.cwd = q.cwd /\ Plain(n) /\ ~InOp(n)
      BY <1>2, <2>3, DeliveredView
    <3>2. n.pc \in {"exit", "user"}
      BY <1>2, <2>3, DeliveredAs
    <3>. QED BY <1>3, <2>1, <3>1, <3>2
  <2>4. CASE n = [Jump(q, "read_sleep") EXCEPT !.f = f]
    <3>1. n.pc = "read_sleep" /\ n.stack = <<>> /\ n.cwd = q.cwd
      BY <1>2, <2>0, <2>4, FieldsAre DEF Jump, IsProcess, Fields
    <3>2. Plain(n) /\ ~InOp(n)
      BY <3>1, PlainIs DEF PlainLabels, PipeLabels
    <3>. QED BY <1>3, <2>1, <3>1, <3>2
  <2>. QED BY <2>1, <2>2, <2>3, <2>4
<1>6. CASE PipeSleep(p)
  <2>0. q.stack = <<>>
    BY <1>2, <1>6 DEF PipeSleep, At
  <2>1. PICK l, n : l \in {"read_asleep", "write_asleep"} /\ proc' = [proc EXCEPT ![p] = n] /\ n = Jump(q, l)
    BY <1>6 DEF PipeSleep
  <2>2. n.pc = l /\ n.stack = <<>> /\ n.cwd = q.cwd
    BY <1>2, <2>0, <2>1, JumpIs DEF Fields
  <2>3. Plain(n) /\ ~InOp(n)
    BY <2>1, <2>2, PlainIs DEF PlainLabels, PipeLabels
  <2>. QED BY <1>2, <2>1, <2>2, <2>3, PlainTurn
<1>7. CASE PipeClose(p)
  <2>0. PICK n, i, label : /\ n = IF q.stack = <<>> THEN Returned(q, q.r) ELSE Pop(q)
                           /\ i = q.v /\ label = IF q.par THEN "read_asleep" ELSE "write_asleep"
    OBVIOUS
  <2>1. proc' = Woken([proc EXCEPT ![p] = n], i, label) /\ label \in {"read_asleep", "write_asleep"}
    BY <1>7, <2>0 DEF PipeClose
  <2>2. CASE q.stack = <<>>
    <3>1. n.cwd = q.cwd /\ Plain(n) /\ ~InOp(n) /\ n.pc \in {"exit", "user"}
      BY <1>2, <2>0, <2>2, ReturnedView
    <3>. QED BY <1>3, <2>1, <3>1
  <2>3. CASE q.stack = <<"exit">>
    <3>1. n = Pop(q)
      BY <2>0, <2>3
    <3>2. n.pc = "exit" /\ n.stack = <<>> /\ n.cwd = q.cwd
      BY <1>2, <2>3, <3>1, FieldsAre, ShortSequences DEF Pop, IsProcess, Fields
    <3>3. Plain(n) /\ ~InOp(n)
      BY <3>2, PlainIs DEF PlainLabels
    <3>. QED BY <1>3, <2>1, <3>2, <3>3
  <2>. QED BY <1>2, <2>2, <2>3
<1>. QED BY <1>4, <1>5, <1>6, <1>7

(***************************************************************************)
(* Processes that come and go                                              *)
(***************************************************************************)
LEMMA AtGone ==
  ASSUME InodeInv, NEW p \in Procs, proc[p].pc \in {"exit_end", "zombie", "unused"}
  PROVE  IsProcess(proc[p]) /\ proc[p].stack = <<>> /\ proc[p].cwd = 0 /\ Plain(proc[p]) /\ ~InOp(proc[p])
<1>1. IsProcess(proc[p]) /\ Shape(proc[p].pc, proc[p].stack) /\ Departed(proc[p])
  BY DEF InodeInv, FileInv, ProcsOK, Local
<1>2. proc[p].stack = <<>>
  BY <1>1 DEF Shape, Bodies, Iputs
<1>3. proc[p].cwd = 0
  BY <1>1, <1>2, BodyIs DEF Departed
<1>. QED BY <1>1, <1>2, <1>3, PlainIs

LEMMA UnusedIs == Unused.pc = "unused" /\ Unused.stack = <<>> /\ Unused.cwd = 0 /\ Plain(Unused) /\ ~InOp(Unused)
<1>1. Unused.pc = "unused" /\ Unused.stack = <<>> /\ Unused.cwd = 0
  BY DEF Unused
<1>. QED BY <1>1, PlainIs

LEMMA ProcStays ==
  ASSUME InodeInv, NEW p \in Procs, ExitDone(p) \/ InitWait(p) \/ Wait(p) \/ Kill(p)
  PROVE  \A c \in Procs : Stays(proc[c], proc'[c])
<1>. DEFINE q == proc[p]
<1>1. FileInv /\ DOMAIN proc = Procs /\ \A c \in Procs : Local(proc[c])
  BY DEF InodeInv, FileInv, ProcsOK
<1>2. CASE ExitDone(p)
  <2>1. q.pc = "exit_end"
    BY <1>2 DEF ExitDone, At
  <2>2. IsProcess(q) /\ q.stack = <<>> /\ q.cwd = 0 /\ Plain(q) /\ ~InOp(q)
    BY <2>1, AtGone
  <2>3. PICK n : n = Jump(q, "zombie")
    OBVIOUS
  <2>4. n.pc = "zombie" /\ n.stack = <<>> /\ n.cwd = 0
    BY <2>2, <2>3, JumpIs DEF Fields
  <2>5. Plain(n) /\ ~InOp(n)
    BY <2>4, PlainIs
  <2>6. proc'[p] = n
    BY <1>2, <2>3 DEF ExitDone
  <2>7. ASSUME NEW c \in Procs \ {p} PROVE Kept(proc[c], proc'[c])
    <3>1. proc'[c] = proc[c] \/ proc'[c] = [proc[c] EXCEPT !.parent = 0]
      BY <1>2, <2>7 DEF ExitDone
    <3>2. IsProcess(proc[c])
      BY <1>1 DEF FileInv, ProcsOK
    <3>. QED BY <3>1, <3>2, FieldsAre DEF Kept, IsProcess, Fields
  <2>. QED BY <2>2, <2>4, <2>5, <2>6, <2>7, PlainTurn
<1>3. CASE InitWait(p)
  <2>1. q.pc = "zombie" /\ proc' = [proc EXCEPT ![p] = Unused]
    BY <1>3 DEF InitWait, At
  <2>. QED BY <2>1, AtGone, UnusedIs, PlainTurn
<1>4. CASE Wait(p)
  <2>1. q.pc = "user"
    BY <1>4 DEF Wait, Calls, At
  <2>2. IsProcess(q) /\ Plain(q) /\ ~InOp(q)
    BY <2>1, AtPlain
  <2>3. CASE \E c \in Children(p, {"zombie"}) : proc' = [proc EXCEPT ![p] = Returned(q, c), ![c] = Unused]
    <3>1. PICK c \in Procs : proc[c].pc = "zombie" /\ proc' = [proc EXCEPT ![p] = Returned(q, c), ![c] = Unused]
      BY <2>3 DEF Children
    <3>2. PICK n : n = Returned(q, c)
      OBVIOUS
    <3>3. c # p /\ proc'[p] = n /\ proc'[c] = Unused /\ \A d \in Procs \ {p, c} : proc'[d] = proc[d]
      BY <1>1, <2>1, <3>1, <3>2
    <3>4. Stays(q, n)
      BY <2>2, <3>2, ReturnedView, PlainStays
    <3>5. Stays(proc[c], Unused)
      BY <3>1, AtGone, UnusedIs, PlainStays
    <3>6. \A d \in Procs \ {p, c} : Stays(proc[d], proc'[d])
      BY <1>1, <3>3, ItStays
    <3>. QED BY <3>3, <3>4, <3>5, <3>6
  <2>4. CASE proc' = [proc EXCEPT ![p] = Returned(q, -1)]
    <3>1. PICK n : n = Returned(q, -1)
      OBVIOUS
    <3>. QED BY <2>2, <2>4, <3>1, ReturnedView, PlainTurn
  <2>. QED BY <1>4, <2>3, <2>4 DEF Wait, Return
<1>5. CASE Kill(p)
  <2>1. q.pc = "user"
    BY <1>5 DEF Kill, Calls, At
  <2>2. IsProcess(q) /\ Plain(q) /\ ~InOp(q)
    BY <2>1, AtPlain
  <2>3. PICK r, n : n = Returned(q, r) /\ proc'[p] = n
    BY <1>5 DEF Kill
  <2>4. \A c \in Procs \ {p} : Kept(proc[c], proc'[c])
    BY <1>1, <1>5, KillKeeps
  <2>. QED BY <2>2, <2>3, <2>4, ReturnedView, PlainTurn
<1>. QED BY <1>2, <1>3, <1>4, <1>5

\* The child has a reference to the directory of its parent.
LEMMA ForkInodes ==
  ASSUME InodeInv, FileInv', NEW p \in Procs, Fork(p)
  PROVE  InodeInv'
<1>. DEFINE q == proc[p]
            free == {c \in Procs : proc[c].pc = "unused"}
<1>1. q.pc = "user" /\ outstanding' = outstanding /\ CacheOK /\ DOMAIN proc = Procs
  BY DEF Fork, Calls, At, InodeInv, FileInv, ProcsOK
<1>2. IsProcess(q) /\ Plain(q) /\ ~InOp(q)
  BY <1>1, AtPlain
<1>3. CASE free = {}
  <2>1. icache' = icache /\ ftable' = ftable
    BY <1>3 DEF Fork
  <2>2. PICK n : n = Returned(q, -1)
    OBVIOUS
  <2>3. proc' = [proc EXCEPT ![p] = n]
    BY <1>3, <2>2 DEF Fork, Return
  <2>4. \A c \in Procs : Stays(proc[c], proc'[c])
    BY <1>2, <2>2, <2>3, ReturnedView, PlainTurn
  <2>5. SameInodes
    BY <2>1 DEF SameInodes
  <2>. QED BY <1>1, <2>1, <2>4, <2>5, UntakenSame, StayStep
<1>4. CASE free # {}
  <2>1. PICK c \in Procs : c = First(free) /\ proc[c].pc = "unused"
    <3>1. free \in SUBSET Nat
      BY DEF Procs
    <3>. QED BY <1>4, <3>1, FirstIs
  <2>2. PICK m : m = Child("user", Append(q.fork, q.at), p, q.cwd, q.ofile, q.last)
    OBVIOUS
  <2>3. PICK n, k : n = Returned(q, c) /\ k = Goto(m, 1)
    OBVIOUS
  <2>4. proc' = [proc EXCEPT ![p] = n, ![c] = k] /\ ftable' = filedup(q) /\ icache' = iget(icache, q.cwd)
    BY <1>4, <2>1, <2>2, <2>3 DEF Fork, Child
  <2>5. k.pc = "user" /\ k.stack = <<>> /\ k.cwd = q.cwd
    <3>1. IsProcess(m) /\ m.pc = "user" /\ m.stack = <<>> /\ m.cwd = q.cwd
      BY <2>2, ChildIs
    <3>. QED BY <2>3, <3>1, GotoIs DEF Fields
  <2>6. Plain(k) /\ ~InOp(k)
    BY <2>5, PlainIs DEF PlainLabels
  <2>7. c # p /\ proc'[p] = n /\ proc'[c] = k /\ \A d \in Procs \ {p, c} : proc'[d] = proc[d]
    BY <1>1, <2>1, <2>4
  <2>8. \A d \in Procs \ {c} : Stays(proc[d], proc'[d])
    <3>1. Stays(q, n)
      BY <1>2, <2>3, ReturnedView, PlainStays
    <3>2. ASSUME NEW d \in Procs \ {p, c} PROVE Stays(proc[d], proc'[d])
      BY <2>7, <3>2, ItStays DEF InodeInv
    <3>. QED BY <2>7, <3>1, <3>2
  <2>9. SameInodes
    <3>1. ASSUME NEW f \in Files PROVE ftable'[f].type = ftable[f].type /\ ftable'[f].ip = ftable[f].ip
      <4>1. IsFile(ftable[f])
        BY DEF InodeInv, FileInv, FilesOK, FileOK
      <4>2. PICK ref : ftable'[f] = [ftable[f] EXCEPT !.ref = ref]
        BY <2>4 DEF filedup
      <4>. QED BY <4>1, <4>2, FileFieldsAre DEF IsFile, FileFields
    <3>. QED BY <3>1 DEF SameInodes
  <2>10. TypedFiles' /\ \A i \in Inums : FilesOn(i)' = FilesOn(i)
    BY <2>9, SameFiles
  <2>11. Changed(icache', 0, 0, q.cwd)
    BY <1>1, <2>4, AsItWas, GetEntry
  <2>12. Plain(proc[c]) /\ proc[c].cwd = 0 /\ ~InOp(proc[c])
    BY <2>1, AtGone
  <2>13. Moves(proc[c], k, 0, 0 = c, q.cwd)
    <3>1. ASSUME NEW i \in Inums
          PROVE  Count(k, i) = Count(proc[c], i) + One(i = q.cwd) /\ ~Holding(k, i) /\ ~Holding(proc[c], i)
      <4>1. Count(k, i) = One(k.cwd = i) /\ Count(proc[c], i) = One(proc[c].cwd = i)
        BY <2>6, <2>12, PlainCount
      <4>2. ~Holding(k, i) /\ ~Holding(proc[c], i)
        BY <2>6, <2>12 DEF Plain
      <4>. QED BY <2>5, <2>12, <4>1, <4>2 DEF One, Inums
    <3>. QED BY <3>1 DEF Moves, Inums
  <2>14. DOMAIN icache' = Inums /\ \A i \in Inums : Entered(c, proc[c], k, icache[i], icache'[i], i, 0)
    <3>1. 0 \notin Inums /\ 0 \in {0, c}
      BY DEF Inums
    <3>. QED BY <2>11, <2>13, <3>1, EnteredIs
  <2>15. PICK files : files = [i \in Inums |-> 0]
    OBVIOUS
  <2>16. \A i \in Inums : files[i] = Cardinality(FilesOn(i))' - Cardinality(FilesOn(i))
    BY <2>10, <2>15, FilesOnFinite
  <2>17. \A i \in Inums : Entered(c, proc[c], proc'[c], icache[i], icache'[i], i, files[i])
    BY <2>7, <2>14, <2>15
  <2>18. outstanding' = outstanding + One(InOp(proc'[c])) - One(InOp(proc[c])) /\ outstanding' <= LOGOPS
    BY <1>1, <2>6, <2>7, <2>12, OpsAre DEF One
  <2>19. Local(proc'[c]) /\ \A d \in Procs \ {c} : Same(proc[d], proc'[d]) /\ Local(proc'[d])
    BY <2>6, <2>7, <2>8 DEF Plain, Stays
  <2>. QED BY <2>10, <2>14, <2>16, <2>17, <2>18, <2>19, OneMoves
<1>. QED BY <1>3, <1>4

(***************************************************************************)
(* Files that get an inode or give it up                                   *)
(***************************************************************************)
\* A process takes over the reference of a file, or gives a file its own.
HandsOver(p, n, files) ==
  /\ proc' = [proc EXCEPT ![p] = n] /\ icache' = icache /\ outstanding' = outstanding /\ TypedFiles'
  /\ Local(n) /\ (InOp(n) <=> InOp(proc[p]))
  /\ \A i \in Inums : /\ files[i] = Cardinality(FilesOn(i))' - Cardinality(FilesOn(i))
                      /\ Count(proc[p], i) = Count(n, i) + files[i]
                      /\ Holding(n, i) <=> Holding(proc[p], i)

LEMMA FileMoves ==
  ASSUME InodeInv, FileInv', NEW p \in Procs, NEW n, NEW files, HandsOver(p, n, files)
  PROVE  InodeInv'
<1>0. /\ proc' = [proc EXCEPT ![p] = n] /\ icache' = icache /\ outstanding' = outstanding /\ TypedFiles'
      /\ Local(n) /\ (InOp(n) <=> InOp(proc[p]))
      /\ \A i \in Inums : files[i] = Cardinality(FilesOn(i))' - Cardinality(FilesOn(i))
      /\ \A i \in Inums : Count(proc[p], i) = Count(n, i) + files[i] /\ (Holding(n, i) <=> Holding(proc[p], i))
  BY DEF HandsOver
<1>1. DOMAIN proc = Procs /\ CacheOK /\ p # 0 /\ \A c \in Procs : Local(proc[c])
  BY DEF InodeInv, FileInv, ProcsOK, Procs
<1>2. proc'[p] = n /\ \A c \in Procs \ {p} : proc'[c] = proc[c]
  BY <1>0, <1>1
<1>3. \A c \in Procs \ {p} : Same(proc[c], proc'[c]) /\ Local(proc'[c])
  BY <1>1, <1>2, ItStays DEF Stays
<1>4. ASSUME NEW i \in Inums PROVE Entered(p, proc[p], n, icache[i], icache'[i], i, files[i])
  <2>1. IsEntry(icache[i]) /\ icache[i].ref \in Nat
    BY <1>1 DEF CacheOK
  <2>2. Count(n, i) \in Nat /\ Count(proc[p], i) \in Nat /\ Count(proc[p], i) = Count(n, i) + files[i]
    BY <1>0, CountIs
  <2>3. files[i] \in Int
    <3>1. Cardinality(FilesOn(i)) \in Nat
      BY FilesOnFinite
    <3>2. Cardinality(FilesOn(i))' \in Nat
      <4>1. FilesOn(i)' \in SUBSET Files
        BY DEF FilesOn
      <4>. QED BY <4>1, SetsFinite, FS_Subset, FS_CardinalityType
    <3>. QED BY <1>0, <3>1, <3>2
  <2>4. icache[i].ref = icache[i].ref + (Count(n, i) - Count(proc[p], i)) + files[i]
    BY <2>1, <2>2, <2>3
  <2>5. icache[i].lock = p <=> Holding(n, i)
    BY <1>0 DEF InodeInv, LocksOwned, Holding
  <2>. QED BY <1>0, <1>1, <2>1, <2>4, <2>5 DEF Entered
<1>5. outstanding' = outstanding + One(InOp(n)) - One(InOp(proc[p])) /\ outstanding' <= LOGOPS
  <2>1. One(InOp(n)) = One(InOp(proc[p])) /\ One(InOp(n)) \in Nat
    BY <1>0 DEF One
  <2>. QED BY <1>0, <2>1, OpsAre
<1>6. DOMAIN icache' = Inums
  BY <1>0, <1>1 DEF CacheOK
<1>. QED BY <1>0, <1>2, <1>3, <1>4, <1>5, <1>6, OneMoves

\* One file begins or ceases to refer to inode i.
LEMMA FileTaken ==
  ASSUME InodeInv, NEW f \in Files, NEW ip, DOMAIN ftable' = Files, \A g \in Files \ {f} : ftable'[g] = ftable[g],
         \/ /\ ftable[f].type # "FD_INODE" /\ ftable'[f].type = "FD_INODE" /\ ftable'[f].ip = ip
         \/ /\ ftable'[f].type # "FD_INODE" /\ ftable'[f].ip = 0 /\ ftable[f].ip = ip
  PROVE  /\ TypedFiles'
         /\ \A i \in Inums : Cardinality(FilesOn(i))' = Cardinality(FilesOn(i))
                               + (IF ftable'[f].type = "FD_INODE" THEN One(ip = i) ELSE 0 - One(ip = i))
<1>1. TypedFiles'
  BY DEF InodeInv, TypedFiles
<1>2. ASSUME NEW i \in Inums
      PROVE  Cardinality(FilesOn(i))' = Cardinality(FilesOn(i))
                               + (IF ftable'[f].type = "FD_INODE" THEN One(ip = i) ELSE 0 - One(ip = i))
  <2>1. PICK S : S = FilesOn(i) \ {f} /\ IsFiniteSet(S) /\ f \notin S /\ Cardinality(S) \in Nat
    <3>1. FilesOn(i) \ {f} \in SUBSET Files
      BY DEF FilesOn
    <3>. QED BY <3>1, SetsFinite, FS_Subset, FS_CardinalityType
  <2>2. One(ip = i) \in Nat
    BY DEF One
  <2>3. CASE ftable'[f].type = "FD_INODE" /\ ftable[f].type # "FD_INODE"
    <3>1. FilesOn(i) = S
      BY <2>1, <2>3 DEF FilesOn
    <3>2. FilesOn(i)' = IF ip = i THEN S \cup {f} ELSE S
      BY <2>1, <2>3 DEF FilesOn
    <3>3. Cardinality(FilesOn(i)') = Cardinality(S) + One(ip = i)
      <4>1. (ip = i) \in BOOLEAN
        OBVIOUS
      <4>. QED BY <2>1, <3>2, <4>1, CountOne
    <3>. QED BY <2>1, <2>2, <2>3, <3>1, <3>3
  <2>4. CASE ftable'[f].type # "FD_INODE"
    <3>1. ftable[f].ip = ip /\ (ftable[f].type # "FD_INODE" => ip = 0) /\ i # 0
      BY <2>4 DEF InodeInv, TypedFiles, Inums
    <3>2. FilesOn(i)' = S
      BY <2>1, <2>4 DEF FilesOn
    <3>3. FilesOn(i) = IF ip = i THEN S \cup {f} ELSE S
      BY <2>1, <3>1 DEF FilesOn
    <3>4. Cardinality(FilesOn(i)) = Cardinality(S) + One(ip = i)
      <4>1. (ip = i) \in BOOLEAN
        OBVIOUS
      <4>. QED BY <2>1, <3>3, <4>1, CountOne
    <3>. QED BY <2>1, <2>2, <2>4, <3>2, <3>4
  <2>. QED BY <2>3, <2>4
<1>. QED BY <1>1, <1>2

\* open gives its reference to the file.
LEMMA OpenSetInodes ==
  ASSUME InodeInv, FileInv', NEW p \in Procs, OpenSet(p)
  PROVE  InodeInv'
<1>. DEFINE q == proc[p]
<1>1. q.pc = "open3" /\ outstanding' = outstanding /\ icache' = icache
  BY DEF OpenSet, At
<1>2. IsProcess(q) /\ q.stack = <<>> /\ Body(q) = "open3" /\ ~InOp(q)
  <2>1. IsProcess(q) /\ Shape(q.pc, q.stack)
    BY DEF InodeInv, FileInv, ProcsOK
  <2>2. q.stack = <<>>
    BY <1>1, <2>1 DEF Shape, Bodies, Iputs
  <2>. QED BY <1>1, <2>1, <2>2, BodyIs DEF InOp, Iputs
<1>3. PICK f \in Files : f = q.f /\ ftable[f].type = "FD_NONE"
  BY <1>1 DEF InodeInv, FileInv, Knows, Opening, Fresh
<1>4. PICK n : n = Returned(q, q.r)
  OBVIOUS
<1>5. proc' = [proc EXCEPT ![p] = n]
  BY <1>4 DEF OpenSet, Return
<1>6. n.cwd = q.cwd /\ Plain(n) /\ ~InOp(n)
  BY <1>2, <1>4, ReturnedView
<1>7. /\ DOMAIN ftable' = Files /\ \A g \in Files \ {f} : ftable'[g] = ftable[g]
      /\ ftable'[f].type = "FD_INODE" /\ ftable'[f].ip = q.ip
  <2>1. PICK off, r, w :
          ftable' = [ftable EXCEPT ![f] = [@ EXCEPT !.type = "FD_INODE", !.ip = q.ip, !.off = off,
                                                    !.readable = r, !.writable = w]]
    BY <1>3 DEF OpenSet
  <2>2. IsFile(ftable[f]) /\ DOMAIN ftable = Files
    BY DEF InodeInv, FileInv, FilesOK, FileOK
  <2>3. ftable'[f] = [ftable[f] EXCEPT !.type = "FD_INODE", !.ip = q.ip, !.off = off, !.readable = r, !.writable = w]
    BY <2>1, <2>2
  <2>4. ftable'[f].type = "FD_INODE" /\ ftable'[f].ip = q.ip
    BY <2>2, <2>3, FileFieldsAre DEF IsFile, FileFields
  <2>. QED BY <2>1, <2>2, <2>4
<1>8. TypedFiles' /\ \A i \in Inums : Cardinality(FilesOn(i))' = Cardinality(FilesOn(i)) + One(q.ip = i)
  BY <1>3, <1>7, FileTaken
<1>9. PICK files : files = [i \in Inums |-> One(q.ip = i)]
  OBVIOUS
<1>10. \A i \in Inums : files[i] = Cardinality(FilesOn(i))' - Cardinality(FilesOn(i))
  BY <1>8, <1>9, FilesOnFinite DEF One
<1>11. ASSUME NEW i \in Inums PROVE Count(q, i) = Count(n, i) + files[i] /\ (Holding(n, i) <=> Holding(q, i))
  <2>1. /\ Refers(q, "cwd", i) <=> q.cwd = i
        /\ Refers(q, "ip", i) <=> q.ip = i
        /\ ~Refers(q, "old", i) /\ ~Refers(q, "nx", i) /\ ~Refers(q, "v", i)
    BY <1>1, <1>2 DEF Refers, HasRef, Iputs
  <2>2. ~Holding(q, i)
    BY <1>1, <1>2 DEF Holding, HasLock, Pointer
  <2>3. Count(q, i) = One(q.cwd = i) + One(q.ip = i)
    BY <2>1 DEF Count, One
  <2>. QED BY <1>6, <1>9, <2>2, <2>3, PlainCount DEF Plain
<1>12. Local(n) /\ (InOp(n) <=> InOp(q))
  BY <1>2, <1>6 DEF Plain
<1>13. HandsOver(p, n, files)
  BY <1>1, <1>5, <1>8, <1>10, <1>11, <1>12 DEF HandsOver
<1>. QED BY <1>13, FileMoves

\* The last close of a file hands its inode to iput, and lasts as long as the transaction it begins.
DropLabels == {<<"iput", "end">>, <<"iput", "end", "exit">>}
LEMMA DropCount ==
  ASSUME NEW n, n.pc = "begin", n.stack \in DropLabels
  PROVE  /\ Local(n) /\ ~InOp(n)
         /\ \A i \in Inums : ~Holding(n, i) /\ Count(n, i) = One(n.cwd = i) + One(n.v = i)
<1>1. Body(n) \in {"end", "exit"} /\ n.stack[1] = "iput"
  BY BodyIs DEF DropLabels
<1>2. Local(n) /\ ~InOp(n)
  BY <1>1 DEF Local, Looks, Puts, Apart, Departed, InOp, Iputs
<1>3. ASSUME NEW i \in Inums PROVE ~Holding(n, i) /\ Count(n, i) = One(n.cwd = i) + One(n.v = i)
  <2>1. ~Holding(n, i)
    BY <1>1 DEF Holding, HasLock, Pointer
  <2>2. /\ Refers(n, "cwd", i) <=> n.cwd = i
        /\ ~Refers(n, "ip", i) /\ ~Refers(n, "old", i) /\ ~Refers(n, "nx", i)
        /\ Refers(n, "v", i) <=> n.v = i
    BY <1>1 DEF Refers, HasRef, Iputs
  <2>3. Count(n, i) = One(n.cwd = i) + One(n.v = i)
    BY <2>2 DEF Count, One
  <2>. QED BY <2>1, <2>3
<1>. QED BY <1>2, <1>3

LEMMA DropFileView ==
  ASSUME NEW f, NEW m, IsProcess(m), NEW n, n = DropFile(m, f)
  PROVE  n.cwd = m.cwd /\ (ftable[f].type # "FD_PIPE" => n.v = ftable[f].ip)
<1>1. CASE ftable[f].type = "FD_PIPE"
  <2>1. n = [m EXCEPT !.pc = "pipeclose", !.v = ftable[f].pipe, !.par = ftable[f].writable]
    BY <1>1 DEF DropFile
  <2>. QED BY <1>1, <2>1, FieldsAre DEF IsProcess, Fields
<1>2. CASE ftable[f].type # "FD_PIPE"
  <2>1. PICK s : s = <<"iput", "end">> \o m.stack
    OBVIOUS
  <2>2. n = [m EXCEPT !.stack = s, !.pc = "begin", !.v = ftable[f].ip]
    BY <1>2, <2>1 DEF DropFile, Push
  <2>. QED BY <2>2, FieldsAre DEF IsProcess, Fields
<1>. QED BY <1>1, <1>2

LEMMA CloseIs ==
  ASSUME InodeInv, FileInv', NEW p \in Procs, NEW q, q = proc[p], IsProcess(q), Plain(q), ~InOp(q),
         NEW f \in Files, fileclose(f), icache' = icache, outstanding' = outstanding,
         NEW m, NEW n, proc' = [proc EXCEPT ![p] = n],
         \/ ftable[f].ref > 1 /\ n.cwd = q.cwd /\ Plain(n) /\ ~InOp(n)
         \/ /\ ~(ftable[f].ref > 1) /\ n = DropFile(m, f)
            /\ IsProcess(m) /\ m.cwd = q.cwd /\ m.stack \in {<<>>, <<"exit">>}
  PROVE  InodeInv'
<1>1. DOMAIN ftable = Files /\ IsFile(ftable[f]) /\ ftable' = [ftable EXCEPT ![f] = Unreferenced(ftable[f])]
  BY DEF InodeInv, FileInv, FilesOK, FileOK, fileclose
<1>2. CASE ftable[f].ref > 1
  <2>1. PICK e, ref : ftable' = [ftable EXCEPT ![f] = e] /\ e = [ftable[f] EXCEPT !.ref = ref]
    BY <1>1, <1>2 DEF Unreferenced
  <2>2. e.ip = ftable[f].ip /\ e.type = ftable[f].type
    BY <1>1, <2>1, FileFieldsAre DEF IsFile, FileFields
  <2>3. SameInodes
    BY <2>1, <2>2, SameInodesAt
  <2>4. \A c \in Procs : Stays(proc[c], proc'[c])
    BY <1>2, PlainTurn
  <2>. QED BY <2>3, <2>4, UntakenSame, StayStep
<1>3. CASE ~(ftable[f].ref > 1)
  <2>1. /\ DOMAIN ftable' = Files /\ \A g \in Files \ {f} : ftable'[g] = ftable[g]
        /\ ftable'[f].type = "FD_NONE" /\ ftable'[f].ip = 0
    BY <1>1, <1>3 DEF Unreferenced, NoFile
  <2>2. PICK ip : ip = ftable[f].ip
    OBVIOUS
  <2>3. TypedFiles' /\ \A i \in Inums : Cardinality(FilesOn(i))' = Cardinality(FilesOn(i)) + (0 - One(ip = i))
    BY <2>1, <2>2, FileTaken
  <2>4. PICK files : files = [i \in Inums |-> 0 - One(ip = i)]
    OBVIOUS
  <2>5. \A i \in Inums : files[i] = Cardinality(FilesOn(i))' - Cardinality(FilesOn(i))
    BY <2>3, <2>4, FilesOnFinite DEF One
  <2>6. n.cwd = q.cwd /\ (ftable[f].type # "FD_PIPE" => n.v = ip)
    BY <1>3, <2>2, DropFileView
  <2>7. Local(n) /\ ~InOp(n) /\ \A i \in Inums : ~Holding(n, i) /\ Count(q, i) = Count(n, i) + files[i]
    <3>1. ASSUME NEW i \in Inums
          PROVE  /\ Count(q, i) = One(q.cwd = i) /\ files[i] = 0 - One(ip = i)
                 /\ One(q.cwd = i) \in Nat /\ One(ip = i) \in Nat
      BY <2>4, PlainCount DEF One
    <3>2. CASE ftable[f].type = "FD_PIPE"
      <4>1. n.pc = "pipeclose" /\ n.stack = m.stack
        BY <1>3, <3>2, DropFileIs
      <4>2. Plain(n) /\ ~InOp(n)
        BY <1>3, <4>1, PlainIs DEF PlainLabels, PipeLabels
      <4>3. ip = 0 /\ 0 \notin Inums
        BY <2>2, <3>2 DEF InodeInv, TypedFiles, Inums
      <4>4. \A i \in Inums : Count(n, i) = One(q.cwd = i) /\ One(ip = i) = 0
        BY <2>6, <4>2, <4>3, PlainCount DEF One
      <4>. QED BY <3>1, <4>2, <4>4 DEF Plain
    <3>3. CASE ftable[f].type # "FD_PIPE"
      <4>1. n.pc = "begin" /\ n.stack = <<"iput", "end">> \o m.stack
        BY <1>3, <3>3, DropFileIs
      <4>2. <<"iput", "end">> \o <<>> = <<"iput", "end">>
        OBVIOUS
      <4>3. <<"iput", "end">> \o <<"exit">> = <<"iput", "end", "exit">>
        BY AppendThird
      <4>4. n.stack \in DropLabels
        BY <1>3, <4>1, <4>2, <4>3 DEF DropLabels
      <4>5. /\ Local(n) /\ ~InOp(n)
            /\ \A i \in Inums : ~Holding(n, i) /\ Count(n, i) = One(n.cwd = i) + One(n.v = i)
        BY <4>1, <4>4, DropCount
      <4>. QED BY <2>6, <3>1, <3>3, <4>5
    <3>. QED BY <3>2, <3>3
  <2>8. HandsOver(p, n, files)
    BY <2>3, <2>5, <2>7 DEF HandsOver, Plain
  <2>. QED BY <2>8, FileMoves
<1>. QED BY <1>2, <1>3

LEMMA CloseInodes ==
  ASSUME InodeInv, FileInv', NEW p \in Procs, Close(p)
  PROVE  InodeInv'
<1>. DEFINE q == proc[p]
<1>1. q.pc = "user" /\ outstanding' = outstanding /\ icache' = icache /\ FileInv
  BY DEF Close, Calls, At, InodeInv
<1>2. IsProcess(q) /\ Plain(q) /\ ~InOp(q) /\ q.stack = <<>>
  BY <1>1, AtPlain
<1>3. CASE argfd(p) = 0
  <2>1. PICK n : n = Returned(q, -1)
    OBVIOUS
  <2>2. ftable' = ftable /\ proc' = [proc EXCEPT ![p] = n]
    BY <1>3, <2>1 DEF Close, Return
  <2>3. SameInodes
    BY <2>2 DEF SameInodes
  <2>4. \A c \in Procs : Stays(proc[c], proc'[c])
    BY <1>2, <2>1, <2>2, ReturnedView, PlainTurn
  <2>. QED BY <1>1, <2>3, <2>4, UntakenSame, StayStep
<1>4. CASE argfd(p) # 0
  <2>1. PICK f \in Files, slot \in Fds : f = argfd(p) /\ slot = FdArg(p) /\ f # 0
    BY <1>1, <1>4, ArgFile
  <2>2. PICK m : m = [q EXCEPT !.ofile[slot] = 0]
    OBVIOUS
  <2>3. IsProcess(m) /\ m.stack = <<>> /\ m.cwd = q.cwd
    BY <1>2, <2>2, FieldsAre DEF IsProcess, Fields
  <2>4. PICK n : n = IF ftable[f].ref > 1 THEN Returned(m, 0) ELSE DropFile(m, f)
    OBVIOUS
  <2>5. fileclose(f) /\ proc' = [proc EXCEPT ![p] = n]
    BY <1>4, <2>1, <2>2, <2>4 DEF Close, Return
  <2>6. ftable[f].ref > 1 => n.cwd = q.cwd /\ Plain(n) /\ ~InOp(n)
    BY <2>3, <2>4, ReturnedView
  <2>. QED BY <1>1, <1>2, <2>3, <2>4, <2>5, <2>6, CloseIs
<1>. QED BY <1>3, <1>4

LEMMA ExitCloseInodes ==
  ASSUME InodeInv, FileInv', NEW p \in Procs, ExitClose(p)
  PROVE  InodeInv'
<1>. DEFINE q == proc[p]
<1>1. q.pc \in {"user", "exit"} /\ outstanding' = outstanding /\ icache' = icache
  BY DEF ExitClose, Exiting, Calls, At
<1>2. IsProcess(q) /\ Plain(q) /\ ~InOp(q) /\ q.stack = <<>>
  BY <1>1, AtPlain
<1>3. PICK slot \in Fds : slot = First(OpenFds(q)) /\ q.ofile[slot] # 0
  <2>1. OpenFds(q) \in SUBSET Nat
    BY DEF OpenFds, Fds
  <2>2. OpenFds(q) # {}
    BY DEF ExitClose
  <2>3. First(OpenFds(q)) \in OpenFds(q)
    BY <2>1, <2>2, FirstIs
  <2>. QED BY <2>3 DEF OpenFds
<1>4. PICK f \in Files : f = q.ofile[slot]
  BY <1>3 DEF InodeInv, FileInv, ProcsOK, Files
<1>5. PICK m, mm : m = [q EXCEPT !.ofile[slot] = 0] /\ mm = Push(m, <<"exit">>)
  OBVIOUS
<1>6. IsProcess(m) /\ m.stack = <<>> /\ m.cwd = q.cwd
  BY <1>2, <1>5, FieldsAre DEF IsProcess, Fields
<1>7. IsProcess(mm) /\ mm.stack = <<"exit">> /\ mm.cwd = q.cwd
  <2>1. <<"exit">> \o <<>> = <<"exit">>
    OBVIOUS
  <2>. QED BY <1>5, <1>6, <2>1, FieldsAre DEF IsProcess, Fields, Push
<1>8. PICK n : n = IF ftable[f].ref > 1 THEN Jump(m, "exit") ELSE DropFile(mm, f)
  OBVIOUS
<1>9. fileclose(f) /\ proc' = [proc EXCEPT ![p] = n]
  BY <1>3, <1>4, <1>5, <1>8 DEF ExitClose
<1>10. ASSUME ftable[f].ref > 1 PROVE n.cwd = q.cwd /\ Plain(n) /\ ~InOp(n)
  <2>1. n.pc = "exit" /\ n.stack = <<>> /\ n.cwd = q.cwd
    BY <1>6, <1>8, <1>10, JumpIs DEF Fields
  <2>. QED BY <2>1, PlainIs DEF PlainLabels
<1>. QED BY <1>1, <1>2, <1>7, <1>8, <1>9, <1>10, CloseIs

LEMMA DupInodes ==
  ASSUME InodeInv, FileInv', NEW p \in Procs, Dup(p)
  PROVE  InodeInv'
<1>. DEFINE q == proc[p]
<1>1. q.pc = "user" /\ outstanding' = outstanding /\ icache' = icache
  BY DEF Dup, Calls, At
<1>2. IsProcess(q) /\ Plain(q) /\ ~InOp(q)
  BY <1>1, AtPlain
<1>3. PICK m, n, r : /\ proc' = [proc EXCEPT ![p] = n] /\ n = Returned(m, r)
                     /\ m = q \/ \E slot, f : m = [q EXCEPT !.ofile[slot] = f]
  <2>1. PICK good, slot, f, m, n, r :
          /\ good = (argfd(p) # 0 /\ FreeFds(q) # {}) /\ f = argfd(p) /\ slot = First(FreeFds(q))
          /\ m = (IF good THEN [q EXCEPT !.ofile[slot] = f] ELSE q) /\ r = (IF good THEN slot ELSE -1)
          /\ n = Returned(m, r)
    OBVIOUS
  <2>2. proc' = [proc EXCEPT ![p] = n]
    BY <2>1 DEF Dup, Return
  <2>. QED BY <2>1, <2>2
<1>4. IsProcess(m) /\ m.cwd = q.cwd
  BY <1>2, <1>3, FieldsAre DEF IsProcess, Fields
<1>5. \A c \in Procs : Stays(proc[c], proc'[c])
  <2>1. n.cwd = q.cwd /\ Plain(n) /\ ~InOp(n)
    BY <1>3, <1>4, ReturnedView
  <2>. QED BY <1>2, <1>3, <2>1, PlainTurn
<1>6. SameInodes
  <2>1. PICK f, e : /\ ftable' = ftable \/ ftable' = [ftable EXCEPT ![f] = e]
                    /\ e = [ftable[f] EXCEPT !.ref = ftable[f].ref + 1]
    BY DEF Dup
  <2>2. f \in Files => e.ip = ftable[f].ip /\ e.type = ftable[f].type
    BY <2>1, FileFieldsAre DEF IsFile, FileFields, InodeInv, FileInv, FilesOK, FileOK
  <2>3. CASE ftable' = ftable
    BY <2>3 DEF SameInodes
  <2>. QED BY <2>1, <2>2, <2>3, SameInodesAt
<1>. QED BY <1>1, <1>5, <1>6, UntakenSame, StayStep

LEMMA OpenFileInodes ==
  ASSUME InodeInv, FileInv', NEW p \in Procs, OpenFile(p)
  PROVE  InodeInv'
<1>1. SameInodes
  <2>1. PICK f, e : f = First(FreeFiles) /\ e = [ftable[f] EXCEPT !.ref = 1]
    OBVIOUS
  <2>2. ftable' = ftable \/ ftable' = [ftable EXCEPT ![f] = e]
    BY <2>1 DEF OpenFile
  <2>3. f \in Files => e.ip = ftable[f].ip /\ e.type = ftable[f].type
    BY <2>1, FileFieldsAre DEF IsFile, FileFields, InodeInv, FileInv, FilesOK, FileOK
  <2>4. CASE ftable' = ftable
    BY <2>4 DEF SameInodes
  <2>. QED BY <2>2, <2>3, <2>4, SameInodesAt
<1>2. outstanding' = outstanding
  BY DEF OpenFile
<1>3. PICK n : Turn(p, n)
  BY OpenFileTurn
<1>. QED BY <1>1, <1>2, <1>3, TurnIsShift, ShiftStep

(***************************************************************************)
(* The invariant holds                                                     *)
(***************************************************************************)
LEMMA QuietInodes ==
  ASSUME InodeInv, FileInv', NEW p \in Procs, QuietStep(p)
  PROVE  InodeInv'
<1>1. SameInodes
  BY QuietCalm, SameInodesKept DEF InodeInv
<1>2. CASE LinkOld(p) \/ LinkNew(p) \/ LinkExists(p) \/ LinkDone(p) \/ LinkBad(p)
  <2>1. outstanding' = outstanding
    BY <1>2 DEF LinkOld, LinkNew, LinkExists, LinkDone, LinkBad
  <2>2. PICK n : Turn(p, n)
    BY <1>2, LinkOldTurn, LinkNewTurn, LinkExistsTurn, LinkDoneTurn, LinkBadTurn
  <2>. QED BY <1>1, <2>1, <2>2, TurnIsShift, ShiftStep
<1>3. CASE UnlinkLookup(p) \/ UnlinkEntry(p) \/ UnlinkBad(p) \/ UnlinkInode(p)
  <2>1. outstanding' = outstanding
    BY <1>3 DEF UnlinkLookup, UnlinkEntry, UnlinkBad, UnlinkInode
  <2>2. PICK n : Turn(p, n)
    BY <1>3, UnlinkLookupTurn, UnlinkEntryTurn, UnlinkBadTurn, UnlinkInodeTurn
  <2>. QED BY <1>1, <2>1, <2>2, TurnIsShift, ShiftStep
<1>4. CASE CreateLookup(p) \/ CreateOld(p) \/ CreateNew(p) \/ Created(p)
  <2>1. outstanding' = outstanding
    BY <1>4 DEF CreateLookup, CreateOld, CreateNew, Created
  <2>2. PICK n : Turn(p, n)
    BY <1>4, CreateLookupTurn, CreateOldTurn, CreateNewTurn, CreatedTurn
  <2>. QED BY <1>1, <2>1, <2>2, TurnIsShift, ShiftStep
<1>5. CASE OpenInode(p) \/ Chdir(p) \/ Exec(p) \/ NamexStart(p) \/ NamexElement(p) \/ Iput(p) \/ IputFreed(p)
  <2>1. outstanding' = outstanding
    BY <1>5 DEF OpenInode, Chdir, Exec, NamexStart, NamexElement, Iput, IputFreed
  <2>2. PICK n : Turn(p, n)
    BY <1>5, OpenInodeTurn, ChdirTurn, ExecTurn, NamexStartTurn, NamexElementTurn, IputTurn
  <2>. QED BY <1>1, <2>1, <2>2, TurnIsShift, ShiftStep
<1>6. CASE BeginOp(p) \/ EndOp(p) \/ IputDrop(p) \/ ExitCwd(p) \/ ChdirDone(p)
  <2>1. PICK n : Shift(p, n)
    BY <1>6, BeginOpShift, EndOpShift, IputDropShift, ExitCwdShift, ChdirDoneShift
  <2>. QED BY <1>1, <2>1, ShiftStep
<1>7. CASE Read(p) \/ ReadBad(p) \/ Fstat(p) \/ WritePiece(p)
  BY <1>1, <1>7, ReadStays, WriteStays, StayStep
<1>. QED BY <1>2, <1>3, <1>4, <1>5, <1>6, <1>7 DEF QuietStep, FsStep

LEMMA PipeInodes ==
  ASSUME InodeInv, FileInv', NEW p \in Procs, PipeStep(p)
  PROVE  InodeInv'
<1>1. icache' = icache /\ outstanding' = outstanding
  BY DEF PipeStep, PipeFile, PipeAlloc, PipeWrite, PipeRead, PipeSleep, PipeClose, fsvars
<1>2. CASE PipeFile(p) \/ PipeAlloc(p)
  BY <1>1, <1>2, PipeFileStays, PipeFileInodes, UntakenSame, StayStep
<1>3. CASE PipeWrite(p) \/ PipeRead(p) \/ PipeSleep(p) \/ PipeClose(p)
  <2>1. SameInodes
    BY <1>3 DEF PipeWrite, PipeRead, PipeSleep, PipeClose, SameInodes
  <2>2. \A c \in Procs : Stays(proc[c], proc'[c])
    BY <1>3, RingStays
  <2>. QED BY <1>1, <2>1, <2>2, UntakenSame, StayStep
<1>. QED BY <1>2, <1>3 DEF PipeStep

LEMMA InodeNext ==
  ASSUME InodeInv, [Next]_vars
  PROVE  InodeInv'
<1>1. FileInv'
  BY FileNext DEF InodeInv
<1>2. CASE Stop \/ UNCHANGED vars
  <2>1. ftable' = ftable /\ icache' = icache /\ outstanding' = outstanding /\ proc' = proc
    BY <1>2 DEF Stop, vars, fsvars
  <2>2. SameInodes /\ \A c \in Procs : Stays(proc[c], proc'[c])
    BY <2>1, ItStays DEF SameInodes, InodeInv
  <2>. QED BY <1>1, <2>1, <2>2, UntakenSame, StayStep
<1>3. ASSUME NEW p \in Procs, QuietStep(p) PROVE InodeInv'
  BY <1>1, <1>3, QuietInodes
<1>4. ASSUME NEW p \in Procs, HoldStep(p) PROVE InodeInv'
  <2>1. CASE WriteStart(p)
    <3>1. SameInodes
      BY <2>1 DEF WriteStart, SameInodes
    <3>. QED BY <1>1, <2>1, <3>1, WriteStays, StayStep
  <2>. QED BY <1>1, <1>4, <2>1, OpenFileInodes, OpenSetInodes, DupInodes, CloseInodes, ForkInodes, ExitCloseInodes
           DEF HoldStep
<1>5. ASSUME NEW p \in Procs, ExitDone(p) \/ InitWait(p) \/ Wait(p) \/ Kill(p) PROVE InodeInv'
  <2>1. ftable' = ftable /\ icache' = icache /\ outstanding' = outstanding
    BY <1>5 DEF ExitDone, InitWait, Wait, Kill, fsvars
  <2>2. SameInodes
    BY <2>1 DEF SameInodes
  <2>3. \A c \in Procs : Stays(proc[c], proc'[c])
    BY <1>5, ProcStays
  <2>. QED BY <1>1, <2>1, <2>2, <2>3, UntakenSame, StayStep
<1>6. ASSUME NEW p \in Procs, PipeStep(p) PROVE InodeInv'
  BY <1>1, <1>6, PipeInodes
<1>7. ASSUME NEW p \in Procs, FsStep(p) \/ CallStep(p) \/ ProcStep(p)
      PROVE  QuietStep(p) \/ HoldStep(p) \/ ExitDone(p) \/ InitWait(p) \/ Wait(p) \/ Kill(p)
  BY <1>7 DEF CallStep, ProcStep, QuietStep, HoldStep
<1>. QED BY <1>2, <1>3, <1>4, <1>5, <1>6, <1>7 DEF Next

LEMMA InodeInit ==
  ASSUME Init
  PROVE  InodeInv
<1>1. FileInv
  BY FileInit
<1>2. PICK q : proc = [p \in Procs |-> IF p = 1 THEN q ELSE Unused] /\ q.pc = "user" /\ q.stack = <<>> /\ q.cwd = ROOTINO
  <2>1. PICK m, q : m = [Unused EXCEPT !.pc = "user", !.cwd = ROOTINO] /\ q = Goto(m, 1)
    OBVIOUS
  <2>2. IsProcess(m) /\ m.pc = "user" /\ m.stack = <<>> /\ m.cwd = ROOTINO
    BY <2>1, FieldsAre DEF IsProcess, Fields, Unused
  <2>3. q.pc = "user" /\ q.stack = <<>> /\ q.cwd = ROOTINO
    <3>1. \A x \in Fields \ {"at", "arg"} : Goto(m, 1)[x] = m[x]
      BY ONLY <2>2, GotoIs
    <3>2. {"pc", "stack", "cwd"} \subseteq Fields \ {"at", "arg"}
      BY DEF Fields
    <3>. QED BY <2>1, <2>2, <3>1, <3>2
  <2>. QED BY <2>1, <2>3 DEF Init
<1>3. Plain(q) /\ ~InOp(q)
  BY <1>2, PlainIs DEF PlainLabels
<1>4. ASSUME NEW p \in Procs
      PROVE  proc[p] = (IF p = 1 THEN q ELSE Unused) /\ Plain(proc[p]) /\ ~InOp(proc[p]) /\ p # 0
  BY <1>2, <1>3, UnusedIs DEF Procs
<1>5. 1 \in Procs /\ NPROC \in Nat /\ LOGOPS \in Nat
  BY FileSysAssumption DEF Procs
<1>6. DOMAIN icache = Inums /\ ftable = [f \in Files |-> NoFile] /\ outstanding = 0
      /\ \A i \in Inums : icache[i] = IF i = ROOTINO THEN [Uncached EXCEPT !.ref = 1] ELSE Uncached
  BY DEF Init
<1>7. ASSUME NEW i \in Inums PROVE IsEntry(icache[i]) /\ icache[i].ref = One(i = ROOTINO) /\ icache[i].lock = 0 /\ i # 0
  BY <1>6 DEF IsEntry, Uncached, One, Inums
<1>8. CacheOK
  BY <1>5, <1>6, <1>7 DEF CacheOK, One
<1>9. TypedFiles /\ \A i \in Inums : FilesOn(i) = {}
  BY <1>6 DEF TypedFiles, FilesOn, NoFile
<1>10. InodesCounted
  <2>1. ASSUME NEW i \in Inums PROVE icache[i].ref = Cardinality(FilesOn(i)) + Cardinality(HoldersOf(i))
    <3>1. ASSUME NEW x \in Pointer, NEW p \in Procs PROVE Refers(proc[p], x, i) <=> x = "cwd" /\ p = 1 /\ i = ROOTINO
      BY <1>2, <1>4, <1>7, UnusedIs DEF Plain
    <3>2. HoldersOf(i) = IF i = ROOTINO THEN {<<"cwd", 1>>} ELSE {}
      <4>1. \A d \in Pointer \X Procs : d \in HoldersOf(i) <=> Refers(proc[d[2]], d[1], i)
        BY DEF HoldersOf, Refers
      <4>2. HoldersOf(i) \subseteq Pointer \X Procs /\ <<"cwd", 1>> \in Pointer \X Procs
        BY <1>5 DEF HoldersOf, Pointer
      <4>. QED BY <3>1, <4>1, <4>2
    <3>3. Cardinality(FilesOn(i)) = 0 /\ Cardinality(HoldersOf(i)) = One(i = ROOTINO)
      BY <1>9, <3>2, FS_EmptySet, FS_Singleton DEF One
    <3>. QED BY <1>7, <3>3 DEF One
  <2>. QED BY <2>1 DEF InodesCounted
<1>11. LocksOwned
  BY <1>4, <1>7 DEF LocksOwned, Plain, Holding
<1>12. OpsCounted
  <2>1. {p \in Procs : InOp(proc[p])} = {}
    BY <1>4
  <2>. QED BY <1>6, <2>1, FS_EmptySet DEF OpsCounted
<1>13. \A p \in Procs : Local(proc[p])
  BY <1>4 DEF Plain
<1>14. outstanding <= LOGOPS
  BY <1>5, <1>6
<1>. QED BY <1>1, <1>8, <1>9, <1>10, <1>11, <1>12, <1>13, <1>14 DEF InodeInv

\* The books of the inode cache, of its locks and of the log are right between any two steps of the calls of
\* sysfile.c, and every process is at a point of a call where its variables refer to what the books say.
THEOREM InodeInvariant == Spec => []InodeInv
<1>1. Init => InodeInv
  BY InodeInit
<1>2. InodeInv /\ [Next]_vars => InodeInv'
  BY InodeNext
<1>. QED BY <1>1, <1>2, PTL DEF Spec

LEMMA InodeType ==
  ASSUME InodeInv
  PROVE  TypeOK
<1>1. outstanding \in 0..LOGOPS
  BY OpsAre, FileSysAssumption
<1>2. \A i \in Inums : icache[i].ref \in Nat /\ icache[i].lock \in 0..NPROC
  BY DEF InodeInv, CacheOK
<1>3. \A f \in Files : ftable[f].ref \in Nat
  BY DEF InodeInv, FileInv, FilesOK, FileOK
<1>4. ASSUME NEW p \in Procs, NEW slot \in Fds, proc[p].ofile[slot] # 0
      PROVE  ftable[proc[p].ofile[slot]].ref > 0
  <2>1. PICK f \in Files : f = proc[p].ofile[slot]
    BY <1>4 DEF InodeInv, FileInv, ProcsOK, Files
  <2>2. HeldBy(p, f)
    BY <2>1 DEF HeldBy
  <2>. QED BY <2>1, <2>2, HeldOnce DEF InodeInv
<1>. QED BY <1>1, <1>2, <1>3, <1>4 DEF TypeOK

\* What is taken is given back, on every path of every call of fs.c, sysfile.c, file.c and proc.c: the reference
\* count of an inode in the cache is the number of open files and of pointers of calls in progress, a locked inode
\* is locked by the process that will unlock it, log.outstanding counts the calls between begin_op and end_op,
\* which are never more than the log has room for, and a descriptor never refers to a free file structure.
THEOREM InodeBooks == Spec => []Inv
<1>1. InodeInv => Inv
  BY InodeType DEF InodeInv, Inv
<1>. QED BY <1>1, InodeInvariant, PTL

=============================================================================

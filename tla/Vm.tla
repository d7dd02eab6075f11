---------------------------------- MODULE Vm ----------------------------------
(***************************************************************************)
(* The memory of processes: the page allocator of kalloc.c, the page       *)
(* tables of vm.c, and the calls that change an address space: fork, exec, *)
(* sbrk, and exit with wait.                                               *)
(*                                                                         *)
(* A call is one step.  Other processes allocate and free meanwhile: a     *)
(* call finds no more than some number of pages, and kalloc fails after    *)
(* that.  Addresses count units of which a page has PGSIZE; a page table   *)
(* has NPTE entries.  The order of the free list and the contents of pages *)
(* are left out, and so is what the kernel maps above KERNBASE, but for    *)
(* the page that the tables for it take.                                   *)
(***************************************************************************)
EXTENDS Integers, Sequences, FiniteSets

CONSTANTS
  Users,         \* process slots
  Page,          \* pages of physical memory, other than 0
  PGSIZE, NPTE, NPDE,
  AddressRange,  \* range of an unsigned integer
  Images,        \* programs: the sequences of the ends of their segments
  Grows          \* the arguments of sbrk

\* The first process needs five pages.
ASSUME VmConstants ==
  /\ Users # {} /\ IsFiniteSet(Page) /\ 0 \notin Page /\ Cardinality(Page) >= 5
  /\ PGSIZE \in Nat \ {0} /\ NPTE \in Nat \ {0} /\ NPDE \in Nat \ {0}
  /\ AddressRange \in Nat \ {0} /\ Images \subseteq Seq(Nat) /\ Grows \subseteq Int

KERNBASE == NPDE * NPTE * PGSIZE
VPage == 0..(NPDE * NPTE - 1)
Tables == 0..(NPDE - 1)
PDX(v) == v \div NPTE
PGROUNDUP(a) == ((a + PGSIZE - 1) \div PGSIZE) * PGSIZE

\* The rounds of the loop: for(a = from; a < to; a += PGSIZE).
Rounds(from, to) == IF to <= from THEN 0 ELSE PGROUNDUP(to - from) \div PGSIZE

VARIABLES
  free,          \* how often every page is on the free list
  proc           \* the processes: page directory, size and kernel stack

memoryVars == <<free, proc>>

NoProcess == [state |-> "unused"]

----------------------------------------------------------------------------
(* The allocator and the page tables.  x is a state in the middle of a     *)
(* call: the free list, how many pages are left for the call, the address  *)
(* space it works on with its size, and whether all went well.             *)

Start(f, k, dir, sz) == [free |-> f, left |-> k, dir |-> dir, sz |-> sz, ok |-> TRUE]

\* kalloc: a page, or 0.
kalloc(x) ==
  IF x.left = 0 \/ \A a \in Page : x.free[a] = 0 THEN 0 ELSE CHOOSE a \in Page : x.free[a] > 0

Took(x, a) == [x EXCEPT !.free[a] = @ - 1, !.left = @ - 1]
kfree(x, a) == [x EXCEPT !.free[a] = @ + 1]
Fail(x) == [x EXCEPT !.ok = FALSE]

\* setupkvm: the directory and the tables of the kernel's half.
NewDir(a, k) ==
  [page |-> a, kern |-> k, table |-> [i \in Tables |-> 0], pte |-> [v \in VPage |-> 0], user |-> {}]

setupkvm(x) ==
  LET a == kalloc(x)
      y == Took(x, a)
      k == kalloc(y)
  IN IF a = 0 THEN Fail(x)
     ELSE IF k = 0 THEN Fail(kfree(y, a))
     ELSE [Took(y, k) EXCEPT !.dir = NewDir(a, k)]

\* walkpgdir with alloc: the table for a virtual page.
WithTable(x, v) ==
  LET t == kalloc(x)
  IN IF x.dir.table[PDX(v)] # 0 THEN x
     ELSE IF t = 0 THEN Fail(x)
     ELSE [Took(x, t) EXCEPT !.dir.table[PDX(v)] = t]

\* mappages of one page.
Mapped(x, v, mem) ==
  IF x.ok THEN [x EXCEPT !.dir.pte[v] = mem, !.dir.user = @ \union {v}] ELSE x
mappages(x, v, mem) == Mapped(WithTable(x, v), v, mem)

\* deallocuvm: what is mapped from newsz up to oldsz.
PagesIn(newsz, oldsz) == {v \in VPage : PGROUNDUP(newsz) <= v * PGSIZE /\ v * PGSIZE < oldsz}
deallocuvm(x, oldsz, newsz) ==
  LET gone == PagesIn(newsz, oldsz)
  IN [x EXCEPT !.free = [a \in Page |-> @[a] + Cardinality({v \in gone : x.dir.pte[v] = a})],
               !.dir.pte = [v \in VPage |-> IF v \in gone THEN 0 ELSE @[v]],
               !.dir.user = @ \ {v \in gone : x.dir.pte[v] # 0}]

\* (mutant) the page that could not be mapped is not given back.
MutAnother(x, v) ==
  LET mem == kalloc(x)
  IN IF ~x.ok THEN x ELSE IF mem = 0 THEN Fail(x) ELSE mappages(Took(x, mem), v, mem)

\* One round of the loops of allocuvm and copyuvm: a page that could not be
\* mapped is given back.
KeepMapped(x, mem) == IF x.ok THEN x ELSE kfree(x, mem)
Another(x, v) ==
  LET mem == kalloc(x)
  IN IF ~x.ok THEN x
     ELSE IF mem = 0 THEN Fail(x)
     ELSE KeepMapped(mappages(Took(x, mem), v, mem), mem)

\* The loops: n rounds from the virtual page v on.
Loop(x, v, n) ==
  LET y[i \in 0..n] == IF i = 0 THEN x ELSE Another(y[i - 1], v + (i - 1)) IN y[n]

\* (mutant) the pages that were mapped before the failure stay.
MutUndo(x, newsz, oldsz) == x

\* allocuvm: on failure what it did is taken back.
Undo(x, newsz, oldsz) == deallocuvm(x, newsz, oldsz)
Grown(x, oldsz, newsz) == IF x.ok THEN [x EXCEPT !.sz = newsz] ELSE Undo(x, newsz, oldsz)

allocuvm(x, oldsz, newsz) ==
  LET from == PGROUNDUP(oldsz)
  IN IF newsz >= KERNBASE THEN Fail(x)
     ELSE IF newsz < oldsz THEN [x EXCEPT !.sz = oldsz]
     ELSE Grown(Loop(x, from \div PGSIZE, Rounds(from, newsz)), oldsz, newsz)

\* freevm: the pages, the tables and the directory.
FreeTables(x) ==
  kfree(kfree([x EXCEPT !.free = [a \in Page |-> @[a] + Cardinality({i \in Tables : x.dir.table[i] = a})]],
              x.dir.kern), x.dir.page)
freevm(x) == FreeTables(deallocuvm(x, KERNBASE, 0))

\* copyuvm: a page for every page, with the same permissions.
Copied(x, old, sz) == IF x.ok THEN [x EXCEPT !.dir.user = old.user, !.sz = sz] ELSE freevm(x)
copyuvm(x, old, sz) == Copied(Loop(x, 0, Rounds(0, sz)), old, sz)

----------------------------------------------------------------------------
(* The calls.  k bounds the pages that the call finds.                     *)

\* userinit: one page for initcode.
First == CHOOSE p \in Users : TRUE
VmInit ==
  LET x == Start([a \in Page |-> 1], Cardinality(Page), 0, 0)
      stack == kalloc(x)
      y == Another(setupkvm(Took(x, stack)), 0)
  IN /\ free = y.free
     /\ proc = [p \in Users |-> IF p # First THEN NoProcess
                                ELSE [state |-> "used", dir |-> y.dir, sz |-> PGSIZE, kstack |-> stack]]

Used == {p \in Users : proc[p].state = "used"}

\* A process without the page of its code faults before it can make a call.
CanCall(p) == p \in Used /\ proc[p].dir.pte[0] # 0

Resize(p, y) ==
  /\ free' = y.free
  /\ proc' = [proc EXCEPT ![p].dir = y.dir,
                          ![p].sz = IF y.ok /\ y.sz # 0 THEN y.sz ELSE @]

\* growproc.  When nothing is left, deallocuvm returns 0, which is taken for
\* an error, and the size stays what it was.
Sbrk(p, n, k) ==
  LET sz == proc[p].sz
      newsz == (sz + n) % AddressRange
      x == Start(free, k, proc[p].dir, sz)
  IN /\ CanCall(p)
     /\ Resize(p, IF n > 0 THEN allocuvm(x, sz, newsz)
                  ELSE IF newsz >= sz THEN x
                  ELSE [deallocuvm(x, sz, newsz) EXCEPT !.sz = newsz])

\* fork: the stack of the child from allocproc, then its memory.
CopyDir(x, p) == IF x.ok THEN copyuvm(x, proc[p].dir, proc[p].sz) ELSE x
Born(c, stack, y) ==
  IF y.ok
  THEN /\ free' = y.free
       /\ proc' = [proc EXCEPT ![c] = [state |-> "used", dir |-> y.dir, sz |-> y.sz,
                                       kstack |-> stack]]
  ELSE free' = kfree(y, stack).free /\ UNCHANGED proc
Fork(p, c, k) ==
  LET x == Start(free, k, proc[p].dir, proc[p].sz)
      stack == kalloc(x)
  IN /\ CanCall(p) /\ c \in Users \ Used
     /\ IF stack = 0 THEN UNCHANGED memoryVars
        ELSE Born(c, stack, CopyDir(setupkvm(Took(x, stack)), p))

\* exec: the segments up to where the file is found bad, the guard page and
\* the stack, then the arguments, if they fit.
Segment(x, end) ==
  LET y == allocuvm(x, x.sz, end)
  IN IF ~x.ok THEN x ELSE IF y.sz = 0 THEN Fail(y) ELSE y
Segments(x, image, n) ==
  LET y[i \in 0..n] == IF i = 0 THEN [x EXCEPT !.sz = 0] ELSE Segment(y[i - 1], image[i]) IN y[n]

Guarded(x) == IF x.ok THEN [x EXCEPT !.dir.user = @ \ {x.sz \div PGSIZE - 2}] ELSE x
WithStack(x) ==
  IF x.ok THEN Guarded(allocuvm(x, PGROUNDUP(x.sz), PGROUNDUP(x.sz) + 2 * PGSIZE)) ELSE x

Loaded(x, image, bad) ==
  IF bad = 0 THEN WithStack(Segments(x, image, Len(image)))
  ELSE Fail(Segments(x, image, bad - 1))

\* The new memory takes the place of the old one, or goes.
Replace(p, y) ==
  IF y.ok
  THEN /\ free' = freevm([y EXCEPT !.dir = proc[p].dir]).free
       /\ proc' = [proc EXCEPT ![p].dir = y.dir, ![p].sz = y.sz]
  ELSE free' = freevm(y).free /\ UNCHANGED proc

Exec(p, image, bad, k) ==
  LET x == setupkvm(Start(free, k, proc[p].dir, 0))
  IN /\ CanCall(p)
     /\ IF ~x.ok THEN free' = x.free /\ UNCHANGED proc
        ELSE Replace(p, Loaded(x, image, bad))

\* exit, and the wait of the parent that frees the memory.  The first
\* process does not exit.
ExitWait(p) ==
  /\ p \in Used \ {First}
  /\ free' = kfree(freevm(Start(free, 0, proc[p].dir, 0)), proc[p].kstack).free
  /\ proc' = [proc EXCEPT ![p] = NoProcess]

VmNext ==
  \E p \in Users :
    \/ ExitWait(p)
    \/ \E k \in 0..Cardinality({a \in Page : free[a] > 0}) :
         \/ \E n \in Grows : Sbrk(p, n, k)
         \/ \E c \in Users : Fork(p, c, k)
         \/ \E image \in Images : \E bad \in 0..(Len(image) + 1) : Exec(p, image, bad, k)

VmSpec == VmInit /\ [][VmNext]_memoryVars

----------------------------------------------------------------------------
(* Properties.                                                             *)

\* What a process has pages for, the page that process q has for it, and these of all processes.
Things ==
  ({"stack", "page", "kern"} \X {0}) \union ({"table"} \X Tables) \union ({"pte"} \X VPage)
PageOf(q, t) ==
  CASE t[1] = "stack" -> q.kstack
    [] t[1] = "page"  -> q.dir.page
    [] t[1] = "kern"  -> q.dir.kern
    [] t[1] = "table" -> q.dir.table[t[2]]
    [] t[1] = "pte"   -> q.dir.pte[t[2]]
Owned == {<<p, t, PageOf(proc[p], t)>> : p \in Used, t \in Things}

\* Wherever a call runs out of memory, and whatever was half built then, a
\* page is free once, or it is one thing of one process.
PagesOwned ==
  LET owned == Owned
  IN \A a \in Page : free[a] + Cardinality({h \in owned : h[3] = a}) = 1

\* The pages below the size of a process are mapped and no others, which is
\* what copyuvm and freevm rely on: but for a process that gave all of it
\* back, and can make no more calls.
SizeMapped ==
  \A p \in Used :
    LET mapped == {v \in VPage : proc[p].dir.pte[v] # 0}
    IN mapped = {} \/ mapped = {v \in VPage : v * PGSIZE < proc[p].sz}

\* No page is lost or owned twice, and exactly the pages below the size of a
\* process are mapped.
MemorySound == PagesOwned /\ SizeMapped

=============================================================================

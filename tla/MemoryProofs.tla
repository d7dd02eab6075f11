----------------------------- MODULE MemoryProofs -----------------------------
(***************************************************************************)
(* Proofs about the memory of programs.                                    *)
(*                                                                         *)
(* The heap of malloc (Umalloc), for every sequence of calls and every     *)
(* size, until sbrk is asked for a negative amount: the inductive          *)
(* invariant is HeapInv, of which the steps in the loops of malloc and     *)
(* free keep every part.                                                   *)
(*                                                                         *)
(* The pages and page tables of processes (Vm), for every number of        *)
(* processes, pages and tables and every program: the inductive invariant  *)
(* between calls is VmInv, and Mid is what holds in the middle of one,     *)
(* between two pages that it allocates or frees.                           *)
(***************************************************************************)
EXTENDS Umalloc, Vm, FiniteSetTheorems, WellFoundedInduction, NaturalsInduction, TLAPS

(***************************************************************************)
(* The heap                                                                *)
(***************************************************************************)
\* The free list P is a ring through its elements in the order of addresses.
Ring(P) ==
  /\ Base \in DOMAIN P /\ DOMAIN P \subseteq Nat /\ P \in [DOMAIN P -> DOMAIN P]
  /\ \A a \in DOMAIN P : \/ P[a] > a /\ \A c \in DOMAIN P : c <= a \/ c >= P[a]
                         \/ P[a] = Base /\ \A c \in DOMAIN P : c <= a

\* The blocks of set B with sizes S and the addresses F of others lie apart and fill the heap up to b.
Layout(B, S, F, b) ==
  /\ b \in Nat /\ b >= HeapStart
  /\ \A a \in B : a \in Nat /\ a >= HeapStart /\ S[a] \in Nat /\ S[a] >= 1 /\ a + S[a] <= b
  /\ \A a \in B, c \in B : a < c => a + S[a] <= c
  /\ \A x \in F : x \in Nat /\ x >= HeapStart /\ x < b
  /\ \A a \in B, x \in F : x < a \/ x >= a + S[a]
  /\ \A x \in Nat : x >= HeapStart /\ x < b => x \in F \/ \E a \in B : a <= x /\ x < a + S[a]

\* No two free blocks of P touch.
Merged(P, S) == \A a \in DOMAIN P \ {Base}, c \in DOMAIN P : a + S[a] # c

\* The blocks are those of the list P, of the program (U) and the loose one (L).
Blocks(P, U, L) == (DOMAIN P \ {Base}) \cup U \cup L
Arena(P, S, U, L, F, b) ==
  /\ Ring(P) /\ Layout(Blocks(P, U, L), S, F, b) /\ Merged(P, S)
  /\ DOMAIN S = {Base} \cup Blocks(P, U, L) /\ S = [a \in DOMAIN S |-> S[a]] /\ S[Base] = 0
  /\ U \cap DOMAIN P = {} /\ L \cap DOMAIN P = {} /\ U \cap L = {}

CallOK ==
  \/ call = Program
  \/ \E nu \in Nat \ {0}, q \in DOMAIN ptr : call = Searching(nu, q) /\ freep # -1
  \/ \E bp \in Nat, q \in DOMAIN ptr, nu \in Nat : call = Placing(bp, q, nu) /\ freep # -1

\* What holds until a header stands for more than sbrk gave.
Heaped ==
  /\ Arena(ptr, size, used, Loose, foreign, brk) /\ CallOK
  /\ freep = -1 \/ freep \in DOMAIN ptr
  /\ freep = -1 => DOMAIN ptr = {Base} /\ used = {}

HeapInv == call # Lost => Heaped

\* Block bp belongs between element q and the next one, or behind the last.
Gap(P, q, bp) ==
  /\ q \in DOMAIN P /\ bp \in Nat /\ bp >= HeapStart /\ q < bp /\ (P[q] = Base \/ bp < P[q])
  /\ \A c \in DOMAIN P : c <= q \/ (P[q] # Base /\ c >= P[q])

\* That is so where the loop of free ends.
LEMMA PlaceGap ==
  ASSUME Ring(ptr), NEW bp \in Nat, bp >= HeapStart, NEW q \in DOMAIN ptr, IsPlace(bp, q)
  PROVE  Gap(ptr, q, bp)
BY DEF Gap, Ring, IsPlace, Base, HeapStart

\* List R is P with bp behind q.
Behind(P, q, bp, R) == R = [x \in DOMAIN P \cup {bp} |-> IF x = q THEN bp ELSE IF x = bp THEN P[q] ELSE P[x]]

LEMMA InsertRing ==
  ASSUME NEW P, Ring(P), NEW q, NEW bp, Gap(P, q, bp), NEW R, Behind(P, q, bp, R)
  PROVE  Ring(R)
<1>1. DOMAIN R = DOMAIN P \cup {bp} /\ R[q] = bp /\ R[bp] = P[q] /\ \A x \in DOMAIN P : x # q => R[x] = P[x]
  BY DEF Behind, Gap, Ring, Base, HeapStart
<1>2. R \in [DOMAIN R -> DOMAIN R]
  BY <1>1 DEF Behind, Ring, Gap
<1>3. \A a \in DOMAIN R : \/ R[a] > a /\ \A c \in DOMAIN R : c <= a \/ c >= R[a]
                          \/ R[a] = Base /\ \A c \in DOMAIN R : c <= a
  <2>1. ASSUME NEW a \in DOMAIN P, a # q
        PROVE  \/ R[a] > a /\ \A c \in DOMAIN R : c <= a \/ c >= R[a]
               \/ R[a] = Base /\ \A c \in DOMAIN R : c <= a
    BY <1>1, <2>1 DEF Ring, Gap, Base, HeapStart
  <2>2. R[q] > q /\ \A c \in DOMAIN R : c <= q \/ c >= R[q]
    BY <1>1 DEF Ring, Gap, Base, HeapStart
  <2>3. \/ R[bp] > bp /\ \A c \in DOMAIN R : c <= bp \/ c >= R[bp]
        \/ R[bp] = Base /\ \A c \in DOMAIN R : c <= bp
    BY <1>1 DEF Ring, Gap, Base, HeapStart
  <2>. QED BY <1>1, <2>1, <2>2, <2>3
<1>. QED BY <1>1, <1>2, <1>3 DEF Ring, Gap

\* Element r behind q leaves the ring.
LEMMA RemoveRing ==
  ASSUME NEW P, Ring(P), NEW q \in DOMAIN P, P[q] # Base, NEW R,
         R = [x \in DOMAIN P \ {P[q]} |-> IF x = q THEN P[P[q]] ELSE P[x]]
  PROVE  Ring(R)
<1>. DEFINE r == P[q]
<1>1. r \in DOMAIN P /\ r > q /\ q \in DOMAIN R /\ DOMAIN R = DOMAIN P \ {r} /\ R[q] = P[r]
      /\ \A x \in DOMAIN R : x # q => R[x] = P[x]
  BY DEF Ring, Base
<1>2. ASSUME NEW x \in DOMAIN P, P[x] = r PROVE x = q
  BY <1>1, <1>2 DEF Ring, Base
<1>3. P[r] # r
  BY <1>1 DEF Ring, Base
<1>4. R \in [DOMAIN R -> DOMAIN R]
  BY <1>1, <1>2, <1>3 DEF Ring
<1>5. \A a \in DOMAIN R : \/ R[a] > a /\ \A c \in DOMAIN R : c <= a \/ c >= R[a]
                          \/ R[a] = Base /\ \A c \in DOMAIN R : c <= a
  <2>1. ASSUME NEW a \in DOMAIN R, a # q
        PROVE  \/ R[a] > a /\ \A c \in DOMAIN R : c <= a \/ c >= R[a]
               \/ R[a] = Base /\ \A c \in DOMAIN R : c <= a
    BY <1>1, <2>1 DEF Ring, Base
  <2>2. \/ R[q] > q /\ \A c \in DOMAIN R : c <= q \/ c >= R[q]
        \/ R[q] = Base /\ \A c \in DOMAIN R : c <= q
    BY <1>1 DEF Ring, Base
  <2>. QED BY <2>1, <2>2
<1>. QED BY <1>1, <1>4, <1>5 DEF Ring, Base

\* Block c behind block a becomes a part of it.
LEMMA MergeLayout ==
  ASSUME NEW B, NEW S, NEW F, NEW b, Layout(B, S, F, b), NEW a \in B, NEW c \in B, a + S[a] = c,
         NEW T, T[a] = S[a] + S[c], \A x \in B \ {a, c} : T[x] = S[x]
  PROVE  Layout(B \ {c}, T, F, b)
<1>1. a < c /\ a \in B \ {c}
  BY DEF Layout, HeapStart
<1>2. \A x \in B \ {c} : x \in Nat /\ x >= HeapStart /\ T[x] \in Nat /\ T[x] >= 1 /\ x + T[x] <= b
  BY DEF Layout, HeapStart
<1>3. \A x \in B \ {c}, y \in B \ {c} : x < y => x + T[x] <= y
  BY <1>1 DEF Layout, HeapStart
<1>4. \A x \in B \ {c}, f \in F : f < x \/ f >= x + T[x]
  BY <1>1 DEF Layout, HeapStart
<1>5. \A x \in Nat : x >= HeapStart /\ x < b => x \in F \/ \E y \in B \ {c} : y <= x /\ x < y + T[y]
  <2>1. ASSUME NEW x \in Nat, NEW y \in B, y <= x, x < y + S[y]
        PROVE  \E z \in B \ {c} : z <= x /\ x < z + T[z]
    <3>1. CASE y = c
      BY <1>1, <2>1, <3>1 DEF Layout, HeapStart
    <3>2. CASE y = a
      BY <1>1, <2>1, <3>2 DEF Layout, HeapStart
    <3>3. CASE y \notin {a, c}
      BY <2>1, <3>3 DEF Layout, HeapStart
    <3>. QED BY <3>1, <3>2, <3>3
  <2>. QED BY <2>1 DEF Layout, HeapStart
<1>. QED BY <1>2, <1>3, <1>4, <1>5 DEF Layout, HeapStart

\* The end of block a becomes block c.
LEMMA SplitLayout ==
  ASSUME NEW B, NEW S, NEW F, NEW b, Layout(B, S, F, b), NEW a \in B, NEW n \in Nat, n >= 1, S[a] > n,
         NEW c, c = a + S[a] - n, NEW T, T[a] = S[a] - n, T[c] = n, \A x \in B \ {a} : T[x] = S[x]
  PROVE  Layout(B \cup {c}, T, F, b) /\ c \notin B
<1>1. a < c /\ c \in Nat
  BY DEF Layout, HeapStart
<1>2. c \notin B
  BY <1>1 DEF Layout, HeapStart
<1>3. \A x \in B \cup {c} : x \in Nat /\ x >= HeapStart /\ T[x] \in Nat /\ T[x] >= 1 /\ x + T[x] <= b
  BY <1>1 DEF Layout, HeapStart
<1>4. \A x \in B \cup {c}, y \in B \cup {c} : x < y => x + T[x] <= y
  BY <1>1, <1>2 DEF Layout, HeapStart
<1>5. \A x \in B \cup {c}, f \in F : f < x \/ f >= x + T[x]
  BY <1>1, <1>2 DEF Layout, HeapStart
<1>6. \A x \in Nat : x >= HeapStart /\ x < b => x \in F \/ \E y \in B \cup {c} : y <= x /\ x < y + T[y]
  <2>1. ASSUME NEW x \in Nat, NEW y \in B, y <= x, x < y + S[y]
        PROVE  \E z \in B \cup {c} : z <= x /\ x < z + T[z]
    <3>1. CASE y = a /\ x < c
      BY <1>1, <2>1, <3>1 DEF Layout, HeapStart
    <3>2. CASE y = a /\ x >= c
      BY <1>1, <2>1, <3>2 DEF Layout, HeapStart
    <3>3. CASE y # a
      BY <2>1, <3>3 DEF Layout, HeapStart
    <3>. QED BY <1>1, <2>1, <3>1, <3>2, <3>3 DEF Layout, HeapStart
  <2>. QED BY <2>1 DEF Layout, HeapStart
<1>. QED BY <1>2, <1>3, <1>4, <1>5, <1>6 DEF Layout, HeapStart

\* The heap grows by a block, or by an address of the program.
LEMMA GrowLayout ==
  ASSUME NEW B, NEW S, NEW F, NEW b, Layout(B, S, F, b), NEW n \in Nat, n >= 1,
         NEW T, T[b] = n, \A x \in B : T[x] = S[x]
  PROVE  Layout(B \cup {b}, T, F, b + n) /\ b \notin B /\ Layout(B, S, F \cup {b}, b + 1)
<1>1. b \in Nat /\ b >= HeapStart /\ b \notin B
  BY DEF Layout, HeapStart
<1>2. Layout(B \cup {b}, T, F, b + n)
  <2>1. \A x \in Nat : x >= HeapStart /\ x < b + n => x \in F \/ \E y \in B \cup {b} : y <= x /\ x < y + T[y]
    <3>1. ASSUME NEW x \in Nat, x >= HeapStart, x < b + n, x \notin F
          PROVE  \E y \in B \cup {b} : y <= x /\ x < y + T[y]
      <4>1. CASE x < b
        BY <3>1, <4>1 DEF Layout, HeapStart
      <4>2. CASE x >= b
        BY <1>1, <3>1, <4>2
      <4>. QED BY <1>1, <3>1, <4>1, <4>2
    <3>. QED BY <3>1
  <2>2. \A x \in B \cup {b} : x \in Nat /\ x >= HeapStart /\ T[x] \in Nat /\ T[x] >= 1 /\ x + T[x] <= b + n
    BY <1>1 DEF Layout, HeapStart
  <2>3. \A x \in B \cup {b}, y \in B \cup {b} : x < y => x + T[x] <= y
    BY <1>1 DEF Layout, HeapStart
  <2>4. \A x \in B \cup {b}, f \in F : f < x \/ f >= x + T[x]
    BY <1>1 DEF Layout, HeapStart
  <2>. QED BY <1>1, <2>1, <2>2, <2>3, <2>4 DEF Layout, HeapStart
<1>3. Layout(B, S, F \cup {b}, b + 1)
  <2>1. \A x \in Nat : x >= HeapStart /\ x < b + 1 => x \in F \cup {b} \/ \E y \in B : y <= x /\ x < y + S[y]
    BY <1>1 DEF Layout, HeapStart
  <2>2. /\ \A a \in B : a \in Nat /\ a >= HeapStart /\ S[a] \in Nat /\ S[a] >= 1 /\ a + S[a] <= b + 1
        /\ \A a \in B, x \in F \cup {b} : x < a \/ x >= a + S[a]
    BY <1>1 DEF Layout, HeapStart
  <2>. QED BY <1>1, <2>1, <2>2 DEF Layout, HeapStart
<1>. QED BY <1>1, <1>2, <1>3

\* Only element q and block bp, or bp and the element r behind it, can touch once bp is in the list R.
Touching(R, S, pairs) ==
  \A a \in DOMAIN R \ {Base}, c \in DOMAIN R : a + S[a] = c => <<a, c>> \in pairs

\* The arena but for neighbours that are to be merged.
Unmerged(P, S, U, F, b) ==
  /\ Ring(P) /\ Layout(Blocks(P, U, {}), S, F, b)
  /\ DOMAIN S = {Base} \cup Blocks(P, U, {}) /\ S = [a \in DOMAIN S |-> S[a]] /\ S[Base] = 0
  /\ U \cap DOMAIN P = {}

\* Two neighbours in the list that touch become one.
Joined(P, S, a, c, R, T) ==
  /\ a \in DOMAIN P /\ a # Base /\ c = P[a] /\ a + S[a] = c
  /\ R = [x \in DOMAIN P \ {c} |-> IF x = a THEN P[c] ELSE P[x]]
  /\ T = [x \in DOMAIN S \ {c} |-> IF x = a THEN S[a] + S[c] ELSE S[x]]

LEMMA JoinNeighbours ==
  ASSUME NEW P, NEW S, NEW U, NEW F, NEW b, Unmerged(P, S, U, F, b),
         NEW a, NEW c, NEW R, NEW T, Joined(P, S, a, c, R, T),
         NEW rest, Touching(P, S, rest \cup {<<a, c>>}),
         \A x \in DOMAIN P : <<c, x>> \notin rest /\ <<a, x>> \notin rest
  PROVE  Unmerged(R, T, U, F, b) /\ Touching(R, T, rest)
<1>0. /\ a \in DOMAIN P /\ a # Base /\ c = P[a] /\ a + S[a] = c
      /\ R = [x \in DOMAIN P \ {c} |-> IF x = a THEN P[c] ELSE P[x]]
      /\ T = [x \in DOMAIN S \ {c} |-> IF x = a THEN S[a] + S[c] ELSE S[x]]
  BY DEF Joined
<1>1. c \in DOMAIN P /\ c # Base /\ a # c /\ a \in Nat /\ a > 0 /\ S[a] >= 1 /\ c > a
  BY <1>0 DEF Unmerged, Ring, Layout, Blocks, Base
<1>2. Ring(R)
  BY <1>0, <1>1, RemoveRing DEF Unmerged
<1>3. Blocks(R, U, {}) = Blocks(P, U, {}) \ {c}
  BY <1>0, <1>1 DEF Blocks, Unmerged
<1>4. a \in Blocks(P, U, {}) /\ c \in Blocks(P, U, {})
  BY <1>0, <1>1 DEF Blocks
<1>5. T[a] = S[a] + S[c] /\ \A x \in Blocks(P, U, {}) \ {a, c} : T[x] = S[x]
  BY <1>0, <1>1, <1>4 DEF Unmerged
<1>6. Layout(Blocks(R, U, {}), T, F, b)
  <2>1. Layout(Blocks(P, U, {}), S, F, b)
    BY DEF Unmerged
  <2>2. Layout(Blocks(P, U, {}) \ {c}, T, F, b)
    BY <1>0, <1>4, <1>5, <2>1, MergeLayout
  <2>. QED BY <1>3, <2>2
<1>7. DOMAIN T = {Base} \cup Blocks(R, U, {}) /\ T = [x \in DOMAIN T |-> T[x]] /\ T[Base] = 0
  BY <1>0, <1>1, <1>3 DEF Unmerged
<1>8. U \cap DOMAIN R = {}
  BY <1>0 DEF Unmerged
<1>9. Touching(R, T, rest)
  <2>1. SUFFICES ASSUME NEW x \in DOMAIN R \ {Base}, NEW y \in DOMAIN R, x + T[x] = y
                 PROVE  <<x, y>> \in rest
    BY DEF Touching
  <2>2. x \in DOMAIN P /\ y \in DOMAIN P /\ x # c /\ y # c /\ x \in Nat /\ y \in Nat
    BY <1>0, <2>1 DEF Unmerged, Ring
  <2>3. CASE x = a
    <3>1. S[c] \in Nat /\ S[a] \in Nat
      BY <1>4 DEF Unmerged, Layout
    <3>2. c + S[c] = y
      BY <1>0, <1>1, <1>5, <2>1, <2>2, <2>3, <3>1
    <3>. QED BY <1>0, <1>1, <2>2, <3>2 DEF Touching
  <2>4. CASE x # a
    <3>1. T[x] = S[x]
      BY <1>5, <2>1, <2>2, <2>4 DEF Blocks
    <3>. QED BY <2>1, <2>2, <2>4, <3>1 DEF Touching
  <2>. QED BY <2>3, <2>4
<1>. QED BY <1>2, <1>6, <1>7, <1>8, <1>9 DEF Unmerged

\* R and T have block c merged with block a if they touch.
JoinedIf(P, S, a, c, R, T) ==
  /\ a + S[a] # c => R = P /\ T = S
  /\ a + S[a] = c => /\ R = [x \in DOMAIN P \ {c} |-> IF x = a THEN P[c] ELSE P[x]]
                      /\ T = [x \in DOMAIN S \ {c} |-> IF x = a THEN S[a] + S[c] ELSE S[x]]

\* free: the block comes into the list and is merged with the blocks behind and before it.
LEMMA Placed ==
  ASSUME NEW P, NEW S, NEW U, NEW F, NEW b, NEW bp, NEW q, Arena(P, S, U, {bp}, F, b), Gap(P, q, bp),
         NEW P1, Behind(P, q, bp, P1), NEW r, r = P[q],
         NEW P2, NEW S2, JoinedIf(P1, S, bp, r, P2, S2), NEW P3, NEW S3, JoinedIf(P2, S2, q, bp, P3, S3)
  PROVE  Arena(P3, S3, U, {}, F, b) /\ q \in DOMAIN P3
<1>0. /\ P1 = [x \in DOMAIN P \cup {bp} |-> IF x = q THEN bp ELSE IF x = bp THEN r ELSE P[x]]
      /\ bp + S[bp] # r => P2 = P1 /\ S2 = S
      /\ bp + S[bp] = r => /\ P2 = [x \in DOMAIN P1 \ {r} |-> IF x = bp THEN P1[r] ELSE P1[x]]
                            /\ S2 = [x \in DOMAIN S \ {r} |-> IF x = bp THEN S[bp] + S[r] ELSE S[x]]
      /\ q + S2[q] # bp => P3 = P2 /\ S3 = S2
      /\ q + S2[q] = bp => /\ P3 = [x \in DOMAIN P2 \ {bp} |-> IF x = q THEN P2[bp] ELSE P2[x]]
                            /\ S3 = [x \in DOMAIN S2 \ {bp} |-> IF x = q THEN S2[q] + S2[bp] ELSE S2[x]]
  BY DEF Behind, JoinedIf
<1>1. /\ bp \in Nat /\ bp > 0 /\ q \in Nat /\ q < bp /\ q \in DOMAIN P /\ bp \notin DOMAIN P /\ r \in DOMAIN P
      /\ r = Base \/ bp < r
      /\ r \in Nat
  BY DEF Arena, Gap, Ring, HeapStart
<1>2. Ring(P1) /\ DOMAIN P1 = DOMAIN P \cup {bp} /\ P1[q] = bp /\ P1[bp] = r
  <2>1. Ring(P1)
    BY InsertRing DEF Arena
  <2>. QED BY <1>0, <1>1, <2>1
<1>3. Blocks(P1, U, {}) = Blocks(P, U, {bp}) /\ bp # Base
  BY <1>1, <1>2 DEF Blocks, Base
<1>4. Unmerged(P1, S, U, F, b)
  BY <1>2, <1>3 DEF Arena, Unmerged
<1>5. Touching(P1, S, {<<q, bp>>, <<bp, r>>})
  <2>1. SUFFICES ASSUME NEW x \in DOMAIN P1 \ {Base}, NEW y \in DOMAIN P1, x + S[x] = y
                 PROVE  <<x, y>> \in {<<q, bp>>, <<bp, r>>}
    BY DEF Touching
  <2>2. x \in Blocks(P, U, {bp}) /\ x \in Nat /\ S[x] \in Nat /\ S[x] >= 1 /\ y \in Nat /\ y # Base
    BY <1>2, <1>3, <2>1 DEF Arena, Layout, Ring, Blocks, Base
  <2>3. y \in Blocks(P, U, {bp}) /\ x < y
    BY <1>2, <2>1, <2>2 DEF Blocks
  <2>4. CASE x # bp /\ y # bp
    BY <1>2, <2>1, <2>4 DEF Arena, Merged
  <2>5. CASE y = bp
    <3>1. x \in DOMAIN P /\ x <= q
      BY <1>1, <1>2, <2>1, <2>2, <2>3, <2>5 DEF Gap
    <3>2. CASE x < q
      <4>1. q \in Blocks(P, U, {bp})
        BY <1>1, <2>2, <3>2 DEF Blocks, Base
      <4>2. x + S[x] <= q
        BY <2>2, <3>2, <4>1 DEF Arena, Layout
      <4>. QED BY <1>1, <2>1, <2>5, <4>2
    <3>. QED BY <1>1, <2>2, <2>5, <3>1, <3>2
  <2>6. CASE x = bp /\ y # bp
    <3>1. y \in DOMAIN P /\ y > q /\ r # Base /\ y >= r /\ bp < r
      BY <1>1, <1>2, <2>2, <2>3, <2>6 DEF Gap
    <3>2. r \in Blocks(P, U, {bp})
      BY <1>1, <3>1 DEF Blocks
    <3>3. bp + S[bp] <= r
      BY <2>2, <2>6, <3>1, <3>2 DEF Arena, Layout
    <3>. QED BY <1>1, <2>1, <2>2, <2>6, <3>1, <3>3
  <2>. QED BY <2>4, <2>5, <2>6
<1>6. Unmerged(P2, S2, U, F, b) /\ Touching(P2, S2, {<<q, bp>>}) /\ q \in DOMAIN P2 /\ bp \in DOMAIN P2 /\ P2[q] = bp
  <2>1. CASE bp + S[bp] # r
    BY <1>0, <1>1, <1>2, <1>4, <1>5, <2>1 DEF Touching
  <2>2. CASE bp + S[bp] = r
    <3>1. r # Base /\ r # q /\ r # bp
      BY <1>1, <1>3, <2>2 DEF Arena, Layout, Blocks, Base
    <3>2. \A x \in DOMAIN P1 : <<r, x>> \notin {<<q, bp>>} /\ <<bp, x>> \notin {<<q, bp>>}
      BY <1>1, <3>1
    <3>3. Touching(P1, S, {<<q, bp>>} \cup {<<bp, r>>})
      BY <1>5 DEF Touching
    <3>4. Joined(P1, S, bp, r, P2, S2)
      BY <1>0, <1>2, <1>3, <2>2 DEF Joined
    <3>5. Unmerged(P2, S2, U, F, b) /\ Touching(P2, S2, {<<q, bp>>})
      BY <1>4, <3>2, <3>3, <3>4, JoinNeighbours
    <3>. QED BY <1>0, <1>1, <1>2, <2>2, <3>1, <3>5
  <2>. QED BY <2>1, <2>2
<1>7. Unmerged(P3, S3, U, F, b) /\ Touching(P3, S3, {}) /\ q \in DOMAIN P3
  <2>1. CASE q + S2[q] # bp
    BY <1>0, <1>6, <2>1 DEF Touching
  <2>2. CASE q + S2[q] = bp
    <3>1. q # Base
      BY <1>1, <1>6, <2>2 DEF Unmerged, Base
    <3>2. Touching(P2, S2, {} \cup {<<q, bp>>})
      BY <1>6 DEF Touching
    <3>3. Joined(P2, S2, q, bp, P3, S3)
      BY <1>0, <1>6, <2>2, <3>1 DEF Joined
    <3>4. Unmerged(P3, S3, U, F, b) /\ Touching(P3, S3, {})
      BY <1>6, <3>2, <3>3, JoinNeighbours
    <3>. QED BY <1>0, <1>1, <1>6, <2>2, <3>4
  <2>. QED BY <2>1, <2>2
<1>8. Merged(P3, S3)
  BY <1>7 DEF Merged, Touching
<1>. QED BY <1>7, <1>8 DEF Unmerged, Arena

----------------------------------------------------------------------------
(* The steps of malloc and free.                                           *)

LEMMA HeapInitInv == HeapInit => Heaped
<1>. SUFFICES ASSUME HeapInit PROVE Heaped
  OBVIOUS
<1>1. /\ DOMAIN ptr = {Base} /\ DOMAIN size = {Base} /\ ptr[Base] = Base /\ size[Base] = 0 /\ brk = HeapStart
      /\ ptr = [a \in {Base} |-> Base] /\ size = [a \in {Base} |-> 0]
      /\ used = {} /\ Loose = {} /\ foreign = {} /\ freep = -1 /\ call = Program
  BY DEF HeapInit, Loose, Program
<1>2. Blocks(ptr, used, Loose) = {}
  BY <1>1 DEF Blocks
<1>3. Ring(ptr)
  BY <1>1 DEF Ring, Base
<1>4. Layout({}, size, {}, brk)
  BY <1>1 DEF Layout, HeapStart
<1>5. Merged(ptr, size)
  BY <1>1 DEF Merged
<1>. QED BY <1>1, <1>2, <1>3, <1>4, <1>5 DEF Heaped, Arena, CallOK

\* Where a call is, in its fields.
LEMMA CallIs ==
  ASSUME Heaped
  PROVE  /\ call.at = "program" => call = Program /\ Loose = {}
         /\ call.at = "search" => /\ call.nu \in Nat \ {0} /\ call.prevp \in DOMAIN ptr /\ freep # -1
                                  /\ freep \in DOMAIN ptr /\ Loose = {}
         /\ call.at = "place" => /\ call.bp \in Nat /\ call.p \in DOMAIN ptr /\ call.nu \in Nat /\ freep # -1
                                 /\ freep \in DOMAIN ptr /\ Loose = {call.bp}
BY DEF Heaped, CallOK, Program, Searching, Placing, Loose

LEMMA LooseIs ==
  ASSUME NEW c, NEW d
  PROVE  /\ call' = Program => Loose' = {}
         /\ call' = Searching(c, d) => Loose' = {}
         /\ \A e : call' = Placing(e, c, d) => Loose' = {e}
BY DEF Loose, Program, Searching, Placing

\* A number of units is positive, whatever has wrapped around.
LEMMA UnitsIs == ASSUME NEW nbytes \in Sizes PROVE Units(nbytes) \in Nat \ {0}
<1>. DEFINE w == HeaderSpace * HDR  m == (nbytes + HDR - 1) % w
<1>1. w \in Nat \ {0} /\ nbytes \in Nat
  BY HeapConstants
<1>2. m \in Nat
  <2>. DEFINE x == nbytes + HDR - 1
  <2>1. x \in Nat
    BY <1>1, HeapConstants
  <2>. HIDE DEF w, x
  <2>2. x % w \in Nat
    BY <1>1, <2>1
  <2>. QED BY <2>2 DEF x
<1>. HIDE DEF m
<1>3. m \div HDR \in Nat
  BY <1>2, HeapConstants
<1>. QED BY <1>3 DEF Units, m

LEMMA MallocInv ==
  ASSUME Heaped, NEW nbytes \in Sizes, Malloc(nbytes)
  PROVE  Heaped'
<1>1. /\ freep' = IF freep = -1 THEN Base ELSE freep
      /\ call' = Searching(Units(nbytes), freep') /\ UNCHANGED <<ptr, size, brk, used, foreign>>
  BY DEF Malloc
<1>2. Loose = {} /\ Loose' = {}
  BY <1>1, CallIs, LooseIs DEF Malloc
<1>3. freep' \in DOMAIN ptr /\ freep' # -1
  BY <1>1 DEF Heaped, Arena, Ring, Base
<1>4. Units(nbytes) \in Nat \ {0}
  BY UnitsIs
<1>. QED BY <1>1, <1>2, <1>3, <1>4 DEF Heaped, CallOK

LEMMA FreeInv ==
  ASSUME Heaped, NEW bp \in used, Free(bp)
  PROVE  Heaped'
<1>1. /\ used' = used \ {bp} /\ call' = Placing(bp, freep, 0)
      /\ ptr' = ptr /\ size' = size /\ freep' = freep /\ brk' = brk /\ foreign' = foreign
  BY DEF Free, heapVars
<1>2. Loose = {} /\ Loose' = {bp}
  BY <1>1, CallIs, LooseIs DEF Free
<1>3. Blocks(ptr, used', {bp}) = Blocks(ptr, used, {}) /\ bp \in Nat /\ bp \notin DOMAIN ptr
  BY <1>1 DEF Blocks, Heaped, Arena, Layout
<1>4. freep # -1 /\ freep \in DOMAIN ptr
  BY DEF Heaped
<1>. QED BY <1>1, <1>2, <1>3, <1>4 DEF Heaped, Arena, CallOK

LEMMA SbrkOneInv ==
  ASSUME Heaped, SbrkOne
  PROVE  Heaped'
<1>1. /\ brk' = brk + 1 /\ foreign' = foreign \cup {brk} /\ UNCHANGED <<ptr, size, freep, used, call>>
  BY DEF SbrkOne
<1>2. Loose' = Loose
  BY <1>1 DEF Loose
<1>3. Layout(Blocks(ptr, used, Loose), size, foreign \cup {brk}, brk + 1)
  <2>1. PICK T : T = [x \in Blocks(ptr, used, Loose) \cup {brk} |-> IF x = brk THEN 1 ELSE size[x]]
    OBVIOUS
  <2>2. brk \notin Blocks(ptr, used, Loose)
    BY DEF Heaped, Arena, Layout
  <2>3. Layout(Blocks(ptr, used, Loose), size, foreign, brk)
    BY DEF Heaped, Arena
  <2>. QED BY <2>1, <2>2, <2>3, GrowLayout
<1>. QED BY <1>1, <1>2, <1>3 DEF Heaped, Arena, CallOK

LEMMA PlaceInv ==
  ASSUME Heaped, Place
  PROVE  Heaped'
<1>. DEFINE bp == call.bp  q == call.p  r == ptr[q]
<1>1. bp \in Nat /\ q \in DOMAIN ptr /\ call.nu \in Nat /\ freep # -1 /\ freep \in DOMAIN ptr /\ Loose = {bp}
      /\ brk' = brk /\ used' = used /\ foreign' = foreign
  BY CallIs DEF Place
<1>2. CASE ~IsPlace(bp, q)
  <2>1. call' = Placing(bp, ptr[q], call.nu) /\ ptr' = ptr /\ size' = size /\ freep' = freep
    BY <1>2 DEF Place
  <2>2. Loose' = {bp} /\ ptr[q] \in DOMAIN ptr
    BY <1>1, <2>1, LooseIs DEF Heaped, Arena, Ring
  <2>. QED BY <1>1, <2>1, <2>2 DEF Heaped, CallOK
<1>3. CASE IsPlace(bp, q)
  <2>1. /\ Become(JoinPrev(JoinNext(Heap, bp, q), bp, q)) /\ freep' = q
        /\ call' = IF call.nu = 0 THEN Program ELSE Searching(call.nu, q)
    BY <1>3 DEF Place
  <2>2. Arena(ptr, size, used, {bp}, foreign, brk) /\ Gap(ptr, q, bp)
    <3>1. bp >= HeapStart /\ Ring(ptr)
      BY <1>1 DEF Heaped, Arena, Layout, Blocks
    <3>. QED BY <1>1, <1>3, <3>1, PlaceGap DEF Heaped
  <2>3. PICK P1 : Behind(ptr, q, bp, P1)
    BY DEF Behind
  <2>4. PICK P2, S2 : JoinedIf(P1, size, bp, r, P2, S2)
    BY DEF JoinedIf
  <2>5. PICK P3, S3 : JoinedIf(P2, S2, q, bp, P3, S3)
    BY DEF JoinedIf
  <2>6. Arena(P3, S3, used, {}, foreign, brk) /\ q \in DOMAIN P3
    BY <2>2, <2>3, <2>4, <2>5, Placed
  <2>7. ptr' = P3 /\ size' = S3
    <3>0. /\ q # bp /\ bp \notin DOMAIN ptr /\ r \in DOMAIN ptr /\ r # bp /\ bp \in DOMAIN size
          /\ r \in DOMAIN size /\ q \in DOMAIN size /\ (bp + size[bp] = r => r # q)
          /\ ptr = [x \in DOMAIN ptr |-> ptr[x]] /\ size = [x \in DOMAIN size |-> size[x]]
      BY <1>1, <2>2 DEF Arena, Ring, Gap, Blocks, Layout, Base
    <3>1. PICK h : h = JoinNext(Heap, bp, q)
      OBVIOUS
    <3>2. ptr' = JoinPrev(h, bp, q).ptr /\ size' = JoinPrev(h, bp, q).size
      BY <2>1, <3>1 DEF Become
    <3>3. /\ bp + size[bp] = r => /\ h.ptr = Without(Set(ptr, bp, ptr[r]), r)
                                  /\ h.size = Without(Set(size, bp, size[bp] + size[r]), r)
          /\ bp + size[bp] # r => h.ptr = Set(ptr, bp, r) /\ h.size = size
          /\ h = [ptr |-> h.ptr, size |-> h.size]
      BY <3>1 DEF JoinNext, Join, Heap
    <3>4. /\ h.size = S2 /\ DOMAIN h.ptr = DOMAIN P2 /\ q \in DOMAIN P2 /\ bp \in DOMAIN P2 /\ P2[q] = bp
          /\ \A x \in DOMAIN P2 : x # q => h.ptr[x] = P2[x]
          /\ h.ptr = [x \in DOMAIN P2 |-> h.ptr[x]] /\ P2 = [x \in DOMAIN P2 |-> P2[x]]
      <4>1. CASE bp + size[bp] # r
        BY <1>1, <2>3, <2>4, <3>0, <3>3, <4>1 DEF Set, Behind, JoinedIf
      <4>2. CASE bp + size[bp] = r
        <5>1. /\ h.ptr = [x \in (DOMAIN ptr \cup {bp}) \ {r} |-> IF x = bp THEN ptr[r] ELSE ptr[x]]
              /\ h.size = [x \in (DOMAIN size \cup {bp}) \ {r} |-> IF x = bp THEN size[bp] + size[r] ELSE size[x]]
          <6>1. PICK P, S : P = Set(ptr, bp, ptr[r]) /\ S = Set(size, bp, size[bp] + size[r])
            OBVIOUS
          <6>2. h.ptr = Without(P, r) /\ h.size = Without(S, r)
            BY <3>3, <4>2, <6>1
          <6>3. /\ P = [x \in DOMAIN ptr \cup {bp} |-> IF x = bp THEN ptr[r] ELSE ptr[x]]
                /\ S = [x \in DOMAIN size \cup {bp} |-> IF x = bp THEN size[bp] + size[r] ELSE size[x]]
            BY <6>1 DEF Set
          <6>4. /\ Without(P, r) = [x \in DOMAIN P \ {r} |-> P[x]] /\ Without(S, r) = [x \in DOMAIN S \ {r} |-> S[x]]
            BY DEF Without
          <6>5. [x \in DOMAIN P \ {r} |-> P[x]]
                  = [x \in (DOMAIN ptr \cup {bp}) \ {r} |-> IF x = bp THEN ptr[r] ELSE ptr[x]]
            BY <6>3
          <6>6. [x \in DOMAIN S \ {r} |-> S[x]]
                  = [x \in (DOMAIN size \cup {bp}) \ {r} |-> IF x = bp THEN size[bp] + size[r] ELSE size[x]]
            BY <6>3
          <6>. QED BY <6>2, <6>4, <6>5, <6>6
        <5>2. DOMAIN P1 = DOMAIN ptr \cup {bp} /\ P1[r] = ptr[r] /\ P1[q] = bp
              /\ \A x \in DOMAIN P1 \ {q, bp} : P1[x] = ptr[x]
          BY <1>1, <2>3, <3>0, <4>2 DEF Behind
        <5>3. /\ P2 = [x \in DOMAIN P1 \ {r} |-> IF x = bp THEN P1[r] ELSE P1[x]]
              /\ S2 = [x \in DOMAIN size \ {r} |-> IF x = bp THEN size[bp] + size[r] ELSE size[x]]
          BY <2>4, <4>2 DEF JoinedIf
        <5>. QED BY <1>1, <3>0, <4>2, <5>1, <5>2, <5>3
      <4>. QED BY <4>1, <4>2
    <3>5. CASE q + S2[q] # bp
      <4>1. ptr' = [h.ptr EXCEPT ![q] = bp] /\ size' = h.size
        BY <3>2, <3>3, <3>4, <3>5 DEF JoinPrev
      <4>. QED BY <2>5, <3>4, <3>5, <4>1 DEF JoinedIf
    <3>6. CASE q + S2[q] = bp
      <4>1. ptr' = Without(Set(h.ptr, q, h.ptr[bp]), bp) /\ size' = Without(Set(h.size, q, h.size[q] + h.size[bp]), bp)
        BY <3>2, <3>3, <3>4, <3>6 DEF JoinPrev, Join
      <4>2. ptr' = P3
        BY <2>5, <3>0, <3>4, <3>6, <4>1 DEF Without, Set, JoinedIf
      <4>3. q \in DOMAIN S2
        BY <2>4, <3>0 DEF JoinedIf
      <4>4. size' = S3
        BY <2>5, <3>0, <3>4, <3>6, <4>1, <4>3 DEF Without, Set, JoinedIf
      <4>. QED BY <4>2, <4>4
    <3>. QED BY <3>5, <3>6
  <2>8. Loose' = {}
    BY <2>1, LooseIs
  <2>9. q # -1
    BY <1>1, <2>2 DEF Gap, Arena, Ring
  <2>. QED BY <1>1, <2>1, <2>6, <2>7, <2>8, <2>9 DEF Heaped, CallOK
<1>. QED BY <1>2, <1>3

\* malloc takes the block p behind prevp, or its end.
LEMMA TakeWhole ==
  ASSUME Heaped, NEW prevp \in DOMAIN ptr, NEW p, p = ptr[prevp], p # Base, Loose = {},
         ptr' = Without(Set(ptr, prevp, ptr[p]), p)
  PROVE  Arena(ptr', size, used \cup {p}, {}, foreign, brk) /\ prevp \in DOMAIN ptr'
<1>1. Arena(ptr, size, used, {}, foreign, brk) /\ Ring(ptr) /\ p \in DOMAIN ptr /\ prevp # p
  BY DEF Heaped, Arena, Ring, Base
<1>2. ptr' = [x \in DOMAIN ptr \ {p} |-> IF x = prevp THEN ptr[p] ELSE ptr[x]]
  BY <1>1 DEF Without, Set
<1>3. Ring(ptr') /\ DOMAIN ptr' = DOMAIN ptr \ {p}
  BY <1>1, <1>2, RemoveRing
<1>4. Blocks(ptr', used \cup {p}, {}) = Blocks(ptr, used, {})
  BY <1>1, <1>3 DEF Blocks
<1>. QED BY <1>1, <1>3, <1>4 DEF Arena, Merged

LEMMA TakeEnd ==
  ASSUME Heaped, NEW p \in DOMAIN ptr, p # Base, Loose = {}, NEW nu \in Nat \ {0}, size[p] > nu,
         NEW q, q = p + size[p] - nu, size' = Set(Set(size, p, size[p] - nu), q, nu)
  PROVE  Arena(ptr, size', used \cup {q}, {}, foreign, brk)
<1>1. Arena(ptr, size, used, {}, foreign, brk)
  BY DEF Heaped
<1>2. /\ p \in Blocks(ptr, used, {}) /\ p \in Nat /\ size[p] \in Nat /\ p > 0
      /\ DOMAIN size = {Base} \cup Blocks(ptr, used, {}) /\ Layout(Blocks(ptr, used, {}), size, foreign, brk)
  BY <1>1 DEF Arena, Blocks, Layout, HeapStart
<1>3. q > p /\ q # Base /\ q \in Nat
  BY <1>2 DEF Base
<1>4. /\ size' = [x \in DOMAIN size \cup {q} |-> IF x = q THEN nu ELSE IF x = p THEN size[p] - nu ELSE size[x]]
  BY <1>2 DEF Set
<1>5. q \notin Blocks(ptr, used, {})
  <2>1. PICK T : T = [x \in DOMAIN size \cup {q} |-> IF x = q THEN nu ELSE IF x = p THEN size[p] - nu ELSE size[x]]
    OBVIOUS
  <2>2. ASSUME q \in Blocks(ptr, used, {}) PROVE FALSE
    BY <1>2, <1>3, <2>2 DEF Layout
  <2>. QED BY <2>2
<1>6. size'[p] = size[p] - nu /\ size'[q] = nu /\ \A x \in Blocks(ptr, used, {}) \ {p} : size'[x] = size[x]
  BY <1>2, <1>3, <1>4, <1>5
<1>7. Blocks(ptr, used \cup {q}, {}) = Blocks(ptr, used, {}) \cup {q}
  BY DEF Blocks
<1>8. Layout(Blocks(ptr, used, {}) \cup {q}, size', foreign, brk)
  BY <1>2, <1>6, SplitLayout
<1>9. q \notin DOMAIN ptr
  BY <1>3, <1>5 DEF Blocks
<1>10. Merged(ptr, size')
  <2>1. \A a \in DOMAIN ptr \ {Base} : a # p => size'[a] = size[a]
    BY <1>6 DEF Blocks
  <2>2. p + size'[p] = q
    BY <1>2, <1>6
  <2>. QED BY <1>1, <1>9, <2>1, <2>2 DEF Arena, Merged
<1>11. DOMAIN size' = {Base} \cup Blocks(ptr, used \cup {q}, {}) /\ size' = [a \in DOMAIN size' |-> size'[a]]
       /\ size'[Base] = 0
  BY <1>1, <1>2, <1>3, <1>4, <1>7 DEF Arena
<1>. QED BY <1>1, <1>7, <1>8, <1>9, <1>10, <1>11 DEF Arena

LEMMA SearchInv ==
  ASSUME Heaped, Search, call' # Lost
  PROVE  Heaped'
<1>. DEFINE nu == call.nu  prevp == call.prevp  p == ptr[prevp]
<1>1. nu \in Nat \ {0} /\ prevp \in DOMAIN ptr /\ freep # -1 /\ freep \in DOMAIN ptr /\ Loose = {} /\ foreign' = foreign
  BY CallIs DEF Search
<1>2. Arena(ptr, size, used, {}, foreign, brk) /\ p \in DOMAIN ptr /\ prevp # -1
  BY <1>1 DEF Heaped, Arena, Ring
<1>3. CASE size[p] >= nu
  <2>1. Give(nu, prevp) /\ call' = Program /\ brk' = brk /\ freep' = prevp /\ used' = used \cup {p + size[p] - nu}
    BY <1>3 DEF Search, Give
  <2>2. p # Base
    BY <1>1, <1>2, <1>3 DEF Arena
  <2>3. p \in Nat /\ size[p] \in Nat
    BY <1>2, <2>2 DEF Arena, Layout, Blocks
  <2>4. Loose' = {}
    BY <2>1, LooseIs
  <2>5. CASE size[p] = nu
    <3>1. ptr' = Without(Set(ptr, prevp, ptr[p]), p) /\ size' = size
      BY <2>1, <2>5 DEF Give
    <3>2. used' = used \cup {p}
      BY <2>1, <2>3, <2>5
    <3>3. Arena(ptr', size, used \cup {p}, {}, foreign, brk) /\ prevp \in DOMAIN ptr'
      BY <1>1, <2>2, <3>1, TakeWhole
    <3>. QED BY <1>1, <1>2, <2>1, <2>4, <3>1, <3>2, <3>3 DEF Heaped, CallOK
  <2>6. CASE size[p] # nu
    <3>1. size' = Set(Set(size, p, size[p] - nu), p + size[p] - nu, nu) /\ ptr' = ptr
      BY <2>1, <2>6 DEF Give
    <3>2. size[p] > nu
      BY <1>1, <1>3, <2>3, <2>6
    <3>3. Arena(ptr, size', used \cup {p + size[p] - nu}, {}, foreign, brk)
      BY <1>1, <1>2, <2>2, <3>1, <3>2, TakeEnd
    <3>. QED BY <1>1, <1>2, <2>1, <2>4, <3>1, <3>3 DEF Heaped, CallOK
  <2>. QED BY <2>5, <2>6
<1>4. CASE ~(size[p] >= nu)
  <2>1. ptr' = ptr /\ freep' = freep /\ used' = used
    BY <1>4 DEF Search
  <2>2. CASE p # freep
    <3>1. call' = Searching(nu, p) /\ size' = size /\ brk' = brk /\ Loose' = {}
      BY <1>4, <2>2, LooseIs DEF Search
    <3>. QED BY <1>1, <1>2, <2>1, <3>1 DEF Heaped, CallOK
  <2>3. CASE p = freep /\ ~CanGrow(nu)
    <3>1. call' = Program /\ size' = size /\ brk' = brk /\ Loose' = {}
      BY <1>4, <2>3, LooseIs DEF Search
    <3>. QED BY <1>1, <1>2, <2>1, <3>1 DEF Heaped, CallOK
  <2>4. CASE p = freep /\ CanGrow(nu)
    <3>0. Morecore(nu)
      BY <1>4, <2>4 DEF Search
    <3>12. brk \in Nat /\ SbrkArg(MaxOf(nu, CORE)) = MaxOf(nu, CORE) /\ MaxOf(nu, CORE) \in Nat
      <4>1. brk \in Nat /\ MaxOf(nu, CORE) \in Nat
        BY <1>1, <1>2, HeapConstants DEF Arena, Layout, MaxOf
      <4>. QED BY <3>0, <4>1 DEF Morecore
    <3>1. /\ size' = Set(size, brk, MaxOf(nu, CORE)) /\ brk' = brk + MaxOf(nu, CORE)
          /\ call' = Placing(brk, freep, nu) /\ Loose' = {brk}
      <4>. DEFINE n == MaxOf(nu, CORE)
      <4>1. brk + n >= 0 /\ ~(brk + n < 0)
        BY <3>12
      <4>2. brk' = brk + n /\ size' = Set(size, brk, n)
        BY <3>0, <3>12, <4>1 DEF Morecore
      <4>3. call' = Placing(brk, freep, nu)
        BY <3>0, <3>12 DEF Morecore
      <4>. QED BY <4>2, <4>3, LooseIs
    <3>2. MaxOf(nu, CORE) \in Nat /\ MaxOf(nu, CORE) >= 1
      BY <1>1, HeapConstants DEF MaxOf
    <3>3. Layout(Blocks(ptr, used, {}), size, foreign, brk) /\ brk \in Nat /\ brk > 0 /\ Base \in DOMAIN ptr
      BY <1>2 DEF Arena, Layout, HeapStart, Ring
    <3>4. brk \notin Blocks(ptr, used, {})
      BY <3>3 DEF Layout
    <3>5. size'[brk] = MaxOf(nu, CORE) /\ \A x \in DOMAIN size : x # brk => size'[x] = size[x]
      BY <3>1 DEF Set
    <3>6. \A x \in Blocks(ptr, used, {}) : size'[x] = size[x]
      BY <1>2, <3>4, <3>5 DEF Arena
    <3>7. Layout(Blocks(ptr, used, {}) \cup {brk}, size', foreign, brk')
      <4>. DEFINE n == MaxOf(nu, CORE)  B == Blocks(ptr, used, {})  T == size'
      <4>1. Layout(B, size, foreign, brk) /\ n \in Nat /\ n >= 1 /\ T[brk] = n /\ \A x \in B : T[x] = size[x]
        BY <3>2, <3>3, <3>5, <3>6
      <4>. HIDE DEF n, B, T
      <4>2. Layout(B \cup {brk}, T, foreign, brk + n)
        BY <4>1, GrowLayout
      <4>. QED BY <4>2, <3>1 DEF n, B, T
    <3>8. Blocks(ptr, used, {brk}) = Blocks(ptr, used, {}) \cup {brk} /\ brk \notin used /\ brk \notin DOMAIN ptr
      BY <3>3, <3>4 DEF Blocks, Base
    <3>9. Merged(ptr, size')
      BY <1>2, <3>6 DEF Merged, Arena, Blocks
    <3>10. DOMAIN size' = {Base} \cup Blocks(ptr, used, {brk}) /\ size' = [a \in DOMAIN size' |-> size'[a]]
           /\ size'[Base] = 0
      BY <1>2, <3>1, <3>3, <3>5, <3>8 DEF Arena, Set, Base
    <3>11. Arena(ptr, size', used, {brk}, foreign, brk')
      BY <1>2, <3>7, <3>8, <3>9, <3>10 DEF Arena
    <3>. QED BY <1>1, <1>2, <2>1, <3>1, <3>3, <3>11 DEF Heaped, CallOK
  <2>. QED BY <2>2, <2>3, <2>4
<1>. QED BY <1>3, <1>4

\* The arena and the loops of malloc and free are as they should be, in every state.
THEOREM HeapInvariant == HeapSpec => []HeapInv
<1>1. HeapInv /\ [HeapNext]_mallocVars => HeapInv'
  <2>1. ASSUME HeapInv, UNCHANGED mallocVars PROVE HeapInv'
    BY <2>1 DEF HeapInv, Heaped, CallOK, Loose, mallocVars, heapVars
  <2>2. HeapNext => call # Lost
    BY DEF HeapNext, Malloc, Free, Search, Place, SbrkOne, Lost
  <2>3. ASSUME Heaped, HeapNext, call' # Lost PROVE Heaped'
    BY <2>3, MallocInv, FreeInv, SearchInv, PlaceInv, SbrkOneInv DEF HeapNext
  <2>. QED BY <2>1, <2>2, <2>3 DEF HeapInv
<1>2. HeapInit => HeapInv
  BY HeapInitInv DEF HeapInv
<1>. QED BY <1>1, <1>2, PTL DEF HeapSpec

\* Whatever the order of the calls, and also in the middle of one, blocks, free blocks and the memory
\* of others share no address and leave none out, free neighbours are one block, and the list goes
\* through the free blocks in the order of addresses, until sbrk is asked for a negative amount
\* (umalloc.c:54): of run Units, for every heap and every program.
THEOREM HeapIsSound == HeapSpec => []HeapSound
<1>1. HeapInv => HeapSound
  <2>. SUFFICES ASSUME Heaped, call # Lost PROVE HeapSound
    BY DEF HeapInv, HeapSound
  <2>. DEFINE blocks == used \cup FreeBlocks \cup Loose
  <2>1. /\ Layout(blocks, size, foreign, brk) /\ Ring(ptr) /\ Merged(ptr, size)
        /\ used \cap DOMAIN ptr = {} /\ Loose \cap DOMAIN ptr = {} /\ used \cap Loose = {}
    <3>1. blocks = Blocks(ptr, used, Loose)
      BY DEF Blocks, FreeBlocks
    <3>. QED BY <3>1 DEF Heaped, Arena
  <2>2. used \cap FreeBlocks = {} /\ Loose \cap (used \cup FreeBlocks) = {}
    BY <2>1 DEF FreeBlocks
  <2>3. \A a \in blocks : size[a] >= 1 /\ Extent(a) \cap foreign = {}
    BY <2>1 DEF Layout, Extent
  <2>4. \A a \in blocks, c \in blocks : a # c => Extent(a) \cap Extent(c) = {}
    BY <2>1 DEF Layout, Extent
  <2>5. foreign \cup UNION {Extent(a) : a \in blocks} = HeapStart..(brk - 1)
    <3>1. ASSUME NEW x \in HeapStart..(brk - 1) PROVE x \in foreign \/ \E a \in blocks : x \in Extent(a)
      BY <2>1 DEF Layout, Extent, HeapStart
    <3>2. \A a \in blocks : Extent(a) \subseteq HeapStart..(brk - 1)
      BY <2>1 DEF Layout, Extent, HeapStart
    <3>3. foreign \subseteq HeapStart..(brk - 1)
      BY <2>1 DEF Layout, HeapStart
    <3>. QED BY <3>1, <3>2, <3>3
  <2>6. \A a \in FreeBlocks, c \in FreeBlocks : a + size[a] # c
    BY <2>1 DEF Merged, FreeBlocks
  <2>7. ASSUME freep # -1
        PROVE  /\ freep \in FreeBlocks \cup {Base}
               /\ \A a \in FreeBlocks \cup {Base} :
                    ptr[a] = IF \E c \in FreeBlocks : c > a
                             THEN CHOOSE c \in FreeBlocks : c > a /\ \A d \in FreeBlocks : d > a => c <= d
                             ELSE Base
    <3>1. freep \in FreeBlocks \cup {Base} /\ FreeBlocks \cup {Base} = DOMAIN ptr
      BY <2>1, <2>7 DEF FreeBlocks, Heaped, Ring
    <3>2. ASSUME NEW a \in DOMAIN ptr
          PROVE  ptr[a] = IF \E c \in FreeBlocks : c > a
                          THEN CHOOSE c \in FreeBlocks : c > a /\ \A d \in FreeBlocks : d > a => c <= d
                          ELSE Base
      <4>1. \A x \in DOMAIN ptr : x \in Nat
        BY <2>1 DEF Ring
      <4>2. CASE ptr[a] > a
        <5>1. ptr[a] \in FreeBlocks /\ \A d \in FreeBlocks : d > a => ptr[a] <= d
          BY <2>1, <4>1, <4>2 DEF Ring, FreeBlocks, Base
        <5>2. \A c \in FreeBlocks : (c > a /\ \A d \in FreeBlocks : d > a => c <= d) => c = ptr[a]
          BY <3>1, <4>1, <4>2, <5>1
        <5>. QED BY <4>2, <5>1, <5>2
      <4>3. CASE ~(ptr[a] > a)
        BY <2>1, <4>1, <4>3 DEF Ring, FreeBlocks
      <4>. QED BY <4>2, <4>3
    <3>. QED BY <3>1, <3>2
  <2>. QED BY <2>2, <2>3, <2>4, <2>5, <2>6, <2>7 DEF HeapSound
<1>. QED BY <1>1, HeapInvariant, PTL

\* The bytes a program asks for fit into the units malloc looks for, unless the size has wrapped
\* around: malloc(-6) is a block of one unit.
THEOREM UnitsHold ==
  ASSUME NEW nbytes \in Sizes, nbytes + HDR - 1 < HeaderSpace * HDR
  PROVE  nbytes <= (Units(nbytes) - 1) * HDR
<1>. DEFINE w == HeaderSpace * HDR  x == nbytes + HDR - 1
<1>1. w \in Nat \ {0} /\ x \in Nat /\ x < w /\ nbytes \in Nat /\ HDR \in Nat \ {0}
  BY HeapConstants
<1>2. x % w = x
  <2>. HIDE DEF w, x
  <2>. QED BY <1>1
<1>3. Units(nbytes) = x \div HDR + 1
  BY <1>2 DEF Units
<1>. HIDE DEF w
<1>4. x \div HDR \in Nat /\ x < (x \div HDR + 1) * HDR
  <2>. HIDE DEF x
  <2>. QED BY <1>1
<1>5. (x \div HDR + 1) * HDR = (x \div HDR) * HDR + HDR
  BY <1>1, <1>4
<1>6. (x \div HDR) * HDR \in Nat
  BY <1>1, <1>4
<1>7. nbytes <= (x \div HDR) * HDR
  BY <1>1, <1>4, <1>5, <1>6
<1>8. Units(nbytes) - 1 = x \div HDR
  BY <1>3, <1>4
<1>. QED BY <1>7, <1>8

\* An argument of sbrk below half of the address space arrives as it is.
LEMMA SbrkArgIs ==
  ASSUME NEW n \in Nat, 2 * n < HeaderSpace
  PROVE  SbrkArg(n) = n
<1>1. n % HeaderSpace = n
  BY HeapConstants
<1>. QED BY <1>1 DEF SbrkArg

\* A program none of whose sizes comes to half of the address space in units never reaches the state
\* in which a header stands for more memory than sbrk gave, whatever it frees and asks for again.
THEOREM HeapNeverLost ==
  ASSUME \A nbytes \in Sizes : 2 * Units(nbytes) < HeaderSpace
  PROVE  HeapSpec => [](call # Lost)
<1>. DEFINE Small == call.at \in {"search", "place"} => call.nu \in Nat /\ 2 * call.nu < HeaderSpace
            Inv == call # Lost /\ Small
<1>1. HeapInit => Inv
  BY DEF HeapInit, Program, Lost
<1>2. ASSUME HeapInv, Inv, [HeapNext]_mallocVars PROVE Inv'
  <2>1. ASSUME NEW nbytes \in Sizes, Malloc(nbytes) PROVE Inv'
    <3>1. call' = Searching(Units(nbytes), freep')
      BY <2>1 DEF Malloc
    <3>2. Units(nbytes) \in Nat
      BY UnitsIs
    <3>. QED BY <3>1, <3>2 DEF Searching, Lost
  <2>2. ASSUME NEW bp \in used, Free(bp) PROVE Inv'
    BY <2>2, HeapConstants DEF Free, Placing, Lost
  <2>3. CASE Place
    <3>1. \/ call' = Program \/ call' = Searching(call.nu, call.p)
          \/ call' = Placing(call.bp, ptr[call.p], call.nu)
      BY <2>3 DEF Place
    <3>. QED BY <1>2, <2>3, <3>1 DEF Place, Program, Searching, Placing, Lost
  <2>4. CASE Search
    <3>. DEFINE nu == call.nu
    <3>1. nu \in Nat /\ 2 * nu < HeaderSpace
      BY <1>2, <2>4 DEF Search
    <3>2. \/ call' = Program \/ call' = Searching(nu, ptr[call.prevp]) \/ Morecore(nu)
      BY <2>4 DEF Search
    <3>3. MaxOf(nu, CORE) \in Nat /\ 2 * MaxOf(nu, CORE) < HeaderSpace
      BY <3>1, HeapConstants DEF MaxOf
    <3>4. SbrkArg(MaxOf(nu, CORE)) = MaxOf(nu, CORE)
      BY <3>3, SbrkArgIs
    <3>5. Morecore(nu) => call' = Placing(brk, freep, nu)
      BY <3>4 DEF Morecore
    <3>. HIDE DEF nu
    <3>. QED BY <3>1, <3>2, <3>5 DEF Program, Searching, Placing, Lost
  <2>5. CASE SbrkOne
    BY <1>2, <2>5 DEF SbrkOne
  <2>6. CASE UNCHANGED mallocVars
    BY <1>2, <2>6 DEF mallocVars
  <2>. QED BY <1>2, <2>1, <2>2, <2>3, <2>4, <2>5, <2>6 DEF HeapNext
<1>3. Inv => call # Lost
  OBVIOUS
<1>. QED BY <1>1, <1>2, <1>3, HeapInvariant, PTL DEF HeapSpec

(***************************************************************************)
(* Pages of an address space.                                              *)
(***************************************************************************)
\* The pages below address a, and how many they are.
PagesBelow(a) == {v \in VPage : v * PGSIZE < a}
Count(a) == (a + PGSIZE - 1) \div PGSIZE

LEMMA PageSize == PGSIZE \in Nat /\ PGSIZE > 0
BY VmConstants

LEMMA CountIs ==
  ASSUME NEW a \in Nat
  PROVE  /\ Count(a) \in Nat /\ PGROUNDUP(a) = Count(a) * PGSIZE
         /\ PGROUNDUP(a) >= a /\ PGROUNDUP(a) < a + PGSIZE
<1>1. PGSIZE \in Nat /\ PGSIZE > 0
  BY VmConstants
<1>. DEFINE b == a + PGSIZE - 1  d == b \div PGSIZE
<1>2. b \in Nat
  BY <1>1
<1>3. d \in Nat /\ d * PGSIZE <= b /\ b < (d + 1) * PGSIZE
  BY <1>1, <1>2
<1>4. (d + 1) * PGSIZE = d * PGSIZE + PGSIZE /\ d * PGSIZE \in Int
  BY <1>1, <1>3
<1>. QED BY <1>1, <1>2, <1>3, <1>4 DEF Count, PGROUNDUP

\* Order of multiples.
LEMMA Multiples ==
  ASSUME NEW v \in Int, NEW w \in Int
  PROVE  /\ v * PGSIZE \in Int /\ w * PGSIZE \in Int
         /\ v * PGSIZE < w * PGSIZE <=> v < w
         /\ (w + 1) * PGSIZE = w * PGSIZE + PGSIZE
         /\ v < w <=> v * PGSIZE + PGSIZE <= w * PGSIZE
<1>1. PGSIZE \in Nat /\ PGSIZE > 0
  BY VmConstants
<1>2. \A m \in Nat, x \in Int, y \in Int : m > 0 /\ x < y => x * m < y * m
  OBVIOUS
<1>3. \A m \in Nat, x \in Int, y \in Int : m > 0 /\ x * m < y * m => x < y
  OBVIOUS
<1>4. v < w <=> v + 1 <= w
  OBVIOUS
<1>5. \A m \in Nat, x \in Int, y \in Int : x <= y => x * m <= y * m
  OBVIOUS
<1>6. \A m \in Nat, x \in Int : (x + 1) * m = x * m + m
  OBVIOUS
<1>. QED BY <1>1, <1>2, <1>3, <1>4, <1>5, <1>6

LEMMA BelowIs ==
  ASSUME NEW a \in Nat, NEW v \in Nat
  PROVE  v * PGSIZE < a <=> v < Count(a)
<1>1. /\ PGSIZE \in Nat /\ PGSIZE > 0 /\ Count(a) \in Nat /\ v * PGSIZE \in Int /\ Count(a) * PGSIZE \in Int
      /\ Count(a) * PGSIZE >= a /\ Count(a) * PGSIZE < a + PGSIZE
  <2>1. PGROUNDUP(a) = Count(a) * PGSIZE /\ PGSIZE \in Nat /\ PGSIZE > 0 /\ Count(a) \in Nat
        /\ PGROUNDUP(a) >= a /\ PGROUNDUP(a) < a + PGSIZE
    BY PageSize, CountIs
  <2>. QED BY <2>1, Multiples
<1>2. v < Count(a) <=> v * PGSIZE + PGSIZE <= Count(a) * PGSIZE
  BY <1>1, Multiples
<1>3. v < Count(a) <=> v * PGSIZE < Count(a) * PGSIZE
  BY <1>1, Multiples
<1>. QED BY <1>1, <1>2, <1>3

\* Addresses below KERNBASE are in pages of the table.
LEMMA PageCount ==
  ASSUME NEW a \in Nat, a <= KERNBASE
  PROVE  Count(a) <= NPDE * NPTE /\ NPDE * NPTE \in Nat \ {0} /\ KERNBASE \in Nat
         /\ Count(KERNBASE) = NPDE * NPTE
<1>. DEFINE n == NPDE * NPTE
<1>1. n \in Nat /\ n > 0 /\ PGSIZE \in Nat /\ PGSIZE > 0 /\ KERNBASE = n * PGSIZE /\ KERNBASE \in Nat
  BY VmConstants DEF KERNBASE
<1>. HIDE DEF n
<1>2. ASSUME NEW c \in Nat, c <= n * PGSIZE PROVE Count(c) <= n
  <2>1. ~(n * PGSIZE < c)
    BY <1>1, <1>2
  <2>. QED BY <1>1, <2>1, BelowIs, CountIs
<1>3. Count(n * PGSIZE) >= n
  <2>1. n - 1 \in Nat /\ (n - 1) * PGSIZE < n * PGSIZE
    BY <1>1, Multiples
  <2>. QED BY <1>1, <2>1, BelowIs, CountIs
<1>4. n * PGSIZE \in Nat /\ Count(n * PGSIZE) \in Nat /\ Count(n * PGSIZE) <= n
  BY <1>1, <1>2, CountIs
<1>5. Count(a) <= n /\ Count(KERNBASE) = n
  BY <1>1, <1>2, <1>3, <1>4
<1>. QED BY <1>1, <1>5 DEF n

LEMMA PagesBelowIs ==
  ASSUME NEW a \in Nat, a <= KERNBASE
  PROVE  PagesBelow(a) = 0..(Count(a) - 1)
<1>1. Count(a) \in Nat /\ Count(a) <= NPDE * NPTE /\ NPDE * NPTE \in Nat
  BY PageCount, CountIs
<1>2. VPage = 0..(NPDE * NPTE - 1)
  BY DEF VPage
<1>. QED BY <1>1, <1>2, BelowIs DEF PagesBelow

\* The rounds of the loops of allocuvm and copyuvm cover what is missing.
LEMMA RoundsIs ==
  ASSUME NEW a \in Nat, NEW b \in Nat, a <= b
  PROVE  /\ PGROUNDUP(a) \div PGSIZE = Count(a) /\ Count(a) <= Count(b)
         /\ Count(a) + Rounds(PGROUNDUP(a), b) = Count(b)
         /\ Rounds(0, b) = Count(b)
<1>1. /\ PGSIZE \in Nat /\ PGSIZE > 0 /\ Count(a) \in Nat /\ Count(b) \in Nat
      /\ PGROUNDUP(a) = Count(a) * PGSIZE /\ PGROUNDUP(b) = Count(b) * PGSIZE
      /\ PGROUNDUP(a) \in Nat /\ PGROUNDUP(a) >= a /\ PGROUNDUP(a) < a + PGSIZE
      /\ PGROUNDUP(b) \in Nat /\ PGROUNDUP(b) >= b /\ PGROUNDUP(b) < b + PGSIZE
  <2>1. \A c \in Nat : /\ Count(c) \in Nat /\ PGROUNDUP(c) = Count(c) * PGSIZE
                       /\ PGROUNDUP(c) >= c /\ PGROUNDUP(c) < c + PGSIZE
    BY CountIs
  <2>2. \A c \in Nat : PGROUNDUP(c) \in Int
    BY <2>1, Multiples
  <2>3. \A c \in Nat : PGROUNDUP(c) \in Nat
    BY <2>1, <2>2
  <2>. QED BY PageSize, <2>1, <2>3
<1>2. \A m \in Nat, c \in Nat : m > 0 => (c * m) \div m = c
  OBVIOUS
<1>3. Count(a) <= Count(b)
  <2>1. Count(a) - 1 \in Int /\ ~(Count(b) * PGSIZE + PGSIZE <= Count(a) * PGSIZE)
    BY <1>1
  <2>. QED BY <1>1, <2>1, Multiples
<1>4. \A c \in Nat : PGROUNDUP(c) \div PGSIZE = Count(c)
  BY <1>1, <1>2, CountIs
<1>5. ASSUME b <= PGROUNDUP(a) PROVE Count(a) + Rounds(PGROUNDUP(a), b) = Count(b)
  <2>1. Count(b) <= Count(a)
    <3>1. ~(Count(a) * PGSIZE + PGSIZE <= Count(b) * PGSIZE)
      BY <1>1, <1>5
    <3>. QED BY <1>1, <3>1, Multiples
  <2>. QED BY <1>1, <1>3, <1>5, <2>1 DEF Rounds
<1>6. ASSUME b > PGROUNDUP(a) PROVE Count(a) + Rounds(PGROUNDUP(a), b) = Count(b)
  <2>1. b - PGROUNDUP(a) \in Nat /\ Rounds(PGROUNDUP(a), b) = Count(b - PGROUNDUP(a))
    BY <1>1, <1>4, <1>6 DEF Rounds
  <2>2. Count(b - PGROUNDUP(a)) = Count(b) - Count(a)
    <3>. DEFINE e == b + PGSIZE - 1
    <3>1. e \in Nat /\ Count(b) = e \div PGSIZE /\ Count(b - PGROUNDUP(a)) = (e - Count(a) * PGSIZE) \div PGSIZE
      BY <1>1, <2>1 DEF Count
    <3>2. \A m \in Nat, c \in Nat, x \in Int : m > 0 => (x - c * m) \div m = (x \div m) - c
      OBVIOUS
    <3>. QED BY <1>1, <3>1, <3>2
  <2>. QED BY <1>1, <2>1, <2>2
<1>7. Rounds(0, b) = Count(b)
  <2>1. b = 0 => Count(b) = 0
    BY <1>1 DEF Count
  <2>. QED BY <1>1, <1>4, <2>1 DEF Rounds
<1>8. Count(a) + Rounds(PGROUNDUP(a), b) = Count(b)
  BY <1>1, <1>5, <1>6
<1>. QED BY <1>3, <1>4, <1>7, <1>8

(***************************************************************************)
(* The free list.                                                          *)
(***************************************************************************)
\* The free list when exactly the pages of H are taken.
FreeBut(H) == [a \in Page |-> IF a \in H THEN 0 ELSE 1]

LEMMA FreeTake ==
  ASSUME NEW H, NEW a \in Page \ H
  PROVE  [FreeBut(H) EXCEPT ![a] = @ - 1] = FreeBut(H \cup {a})
<1>1. FreeBut(H)[a] = 1 /\ DOMAIN FreeBut(H) = Page /\ 1 - 1 = 0
  BY DEF FreeBut
<1>2. [FreeBut(H) EXCEPT ![a] = @ - 1] = [b \in Page |-> IF b = a THEN 0 ELSE FreeBut(H)[b]]
  BY <1>1
<1>3. \A b \in Page : (IF b = a THEN 0 ELSE FreeBut(H)[b]) = FreeBut(H \cup {a})[b]
  BY DEF FreeBut
<1>. QED BY <1>2, <1>3 DEF FreeBut

LEMMA FreeGive ==
  ASSUME NEW H, NEW a \in Page, a \in H
  PROVE  [FreeBut(H) EXCEPT ![a] = @ + 1] = FreeBut(H \ {a})
<1>1. FreeBut(H)[a] = 0 /\ DOMAIN FreeBut(H) = Page /\ 0 + 1 = 1
  BY DEF FreeBut
<1>2. [FreeBut(H) EXCEPT ![a] = @ + 1] = [b \in Page |-> IF b = a THEN 1 ELSE FreeBut(H)[b]]
  BY <1>1
<1>3. \A b \in Page : (IF b = a THEN 1 ELSE FreeBut(H)[b]) = FreeBut(H \ {a})[b]
  BY DEF FreeBut
<1>. QED BY <1>2, <1>3 DEF FreeBut

\* The entries in S of the table g name different pages of H, or none; and the list when they
\* are given back.
Names(S, g, H) ==
  /\ \A i \in S : g[i] = 0 \/ g[i] \in H
  /\ \A i, j \in S : g[i] = g[j] /\ g[i] # 0 => i = j
Given(S, g, H) == [a \in Page |-> FreeBut(H)[a] + Cardinality({i \in S : g[i] = a})]

LEMMA FreeAll ==
  ASSUME NEW H, NEW S, NEW g, Names(S, g, H)
  PROVE  Given(S, g, H) = FreeBut(H \ {g[i] : i \in S})
<1>1. ASSUME NEW a \in Page
      PROVE  FreeBut(H)[a] + Cardinality({i \in S : g[i] = a}) = IF a \in H \ {g[i] : i \in S} THEN 0 ELSE 1
  <2>1. a # 0
    BY VmConstants
  <2>2. CASE \E i \in S : g[i] = a
    <3>1. PICK i \in S : g[i] = a
      BY <2>2
    <3>2. {j \in S : g[j] = a} = {i}
      BY <2>1, <3>1 DEF Names
    <3>3. Cardinality({i}) = 1
      BY FS_Singleton
    <3>4. a \in H
      BY <2>1, <3>1 DEF Names
    <3>5. FreeBut(H)[a] = 0
      BY <3>4 DEF FreeBut
    <3>. QED BY <3>1, <3>2, <3>3, <3>4, <3>5
  <2>3. CASE ~(\E i \in S : g[i] = a)
    <3>1. {i \in S : g[i] = a} = {}
      BY <2>3
    <3>2. Cardinality({}) = 0
      BY FS_EmptySet
    <3>3. FreeBut(H)[a] = IF a \in H \ {g[i] : i \in S} THEN 0 ELSE 1
      BY <2>3 DEF FreeBut
    <3>4. FreeBut(H)[a] \in Int
      BY DEF FreeBut
    <3>. QED BY <3>1, <3>2, <3>3, <3>4
  <2>. QED BY <2>2, <2>3
<1>. QED BY <1>1 DEF FreeBut, Given

LEMMA Allocates ==
  ASSUME NEW H, NEW x, x.free = FreeBut(H)
  PROVE  /\ kalloc(x) = 0 \/ kalloc(x) \in Page \ H
         /\ kalloc(x) = 0 <=> x.left = 0 \/ Page \subseteq H
<1>1. \A a \in Page : x.free[a] \in Nat /\ (x.free[a] = 0 <=> a \in H)
  BY DEF FreeBut
<1>2. 0 \notin Page
  BY VmConstants
<1>3. CASE x.left = 0 \/ Page \subseteq H
  BY <1>1, <1>3 DEF kalloc
<1>4. CASE ~(x.left = 0 \/ Page \subseteq H)
  <2>1. \E a \in Page : x.free[a] > 0
    BY <1>1, <1>4
  <2>2. kalloc(x) = CHOOSE a \in Page : x.free[a] > 0
    BY <1>1, <1>4 DEF kalloc
  <2>3. kalloc(x) \in Page /\ x.free[kalloc(x)] > 0
    BY <2>1, <2>2
  <2>. QED BY <1>1, <1>2, <1>4, <2>3
<1>. QED BY <1>3, <1>4

(***************************************************************************)
(* An address space in the middle of a call.                               *)
(***************************************************************************)
Frame == Page \cup {0}
Dir == [page : Page, kern : Page, table : [Tables -> Frame], pte : [VPage -> Frame], user : SUBSET VPage]

\* The pages of an address space; no two uses of one; the virtual pages that are mapped.
Entries(D) == {D.table[i] : i \in Tables} \cup {D.pte[v] : v \in VPage}
Has(D) == {D.page, D.kern} \cup (Entries(D) \ {0})
Distinct(D) ==
  /\ D.page # D.kern /\ {D.page, D.kern} \cap Entries(D) = {}
  /\ \A i, j \in Tables : D.table[i] = D.table[j] => i = j \/ D.table[i] = 0
  /\ \A v, w \in VPage : D.pte[v] = D.pte[w] => v = w \/ D.pte[v] = 0
  /\ \A i \in Tables, v \in VPage : D.table[i] = D.pte[v] => D.pte[v] = 0
Present(D) == {v \in VPage : D.pte[v] # 0}

State(x) == x \in [free : [Page -> Nat], left : Int, dir : Dir, sz : 0..KERNBASE, ok : BOOLEAN]

\* In state x the pages of R are those of others, and all but them and those of x are free.
Mid(x, R) ==
  /\ State(x) /\ Distinct(x.dir)
  /\ Has(x.dir) \cap R = {} /\ x.free = FreeBut(Has(x.dir) \cup R)

\* Fields that a step leaves alone.
SameDir(x, y) == y.dir = x.dir /\ y.sz = x.sz /\ y.ok = x.ok

LEMMA TookMid ==
  ASSUME NEW x, NEW R, Mid(x, R), NEW a \in Page, a \notin Has(x.dir) \cup R
  PROVE  Mid(Took(x, a), R \cup {a}) /\ SameDir(x, Took(x, a))
<1>1. Took(x, a) = [x EXCEPT !.free = [x.free EXCEPT ![a] = @ - 1], !.left = @ - 1]
  BY DEF Took
<1>2. [x.free EXCEPT ![a] = @ - 1] = FreeBut(Has(x.dir) \cup (R \cup {a}))
  <2>1. (Has(x.dir) \cup R) \cup {a} = Has(x.dir) \cup (R \cup {a})
    OBVIOUS
  <2>. QED BY <2>1, FreeTake DEF Mid
<1>3. FreeBut(Has(x.dir) \cup (R \cup {a})) \in [Page -> Nat]
  BY DEF FreeBut
<1>4. State(x) /\ x.left - 1 \in Int /\ Distinct(x.dir) /\ Has(x.dir) \cap (R \cup {a}) = {}
  BY DEF Mid, State
<1>. DEFINE f == FreeBut(Has(x.dir) \cup (R \cup {a}))  y == [x EXCEPT !.free = f, !.left = @ - 1]
<1>5. State(y) /\ y.free = f /\ SameDir(x, y)
  BY <1>3, <1>4 DEF State, SameDir
<1>. QED BY <1>1, <1>2, <1>4, <1>5 DEF Mid, SameDir

LEMMA GiveMid ==
  ASSUME NEW x, NEW R, Mid(x, R), NEW a \in Page, a \in R
  PROVE  Mid(kfree(x, a), R \ {a}) /\ SameDir(x, kfree(x, a))
<1>1. kfree(x, a) = [x EXCEPT !.free = [x.free EXCEPT ![a] = @ + 1]]
  BY DEF kfree
<1>2. [x.free EXCEPT ![a] = @ + 1] = FreeBut(Has(x.dir) \cup (R \ {a}))
  <2>1. (Has(x.dir) \cup R) \ {a} = Has(x.dir) \cup (R \ {a})
    BY DEF Mid
  <2>. QED BY <2>1, FreeGive DEF Mid
<1>3. FreeBut(Has(x.dir) \cup (R \ {a})) \in [Page -> Nat]
  BY DEF FreeBut
<1>. QED BY <1>1, <1>2, <1>3 DEF Mid, State, SameDir

LEMMA FailMid ==
  ASSUME NEW x, NEW R, Mid(x, R)
  PROVE  Mid(Fail(x), R) /\ Fail(x).dir = x.dir /\ Fail(x).sz = x.sz /\ Fail(x).ok = FALSE
         /\ Fail(x).free = x.free
BY DEF Mid, State, Fail

\* A page that was taken becomes an entry of the directory.
LEMMA EntryMid ==
  ASSUME NEW x, NEW R, NEW a \in Page, a \notin R, Mid(x, R \cup {a}), NEW D \in Dir,
         D.page = x.dir.page, D.kern = x.dir.kern,
         \/ \E i \in Tables : x.dir.table[i] = 0 /\ D.table = [x.dir.table EXCEPT ![i] = a] /\ D.pte = x.dir.pte
         \/ \E v \in VPage : x.dir.pte[v] = 0 /\ D.pte = [x.dir.pte EXCEPT ![v] = a] /\ D.table = x.dir.table
  PROVE  Mid([x EXCEPT !.dir = D], R)
<1>. DEFINE C == x.dir
<1>1. /\ C.table \in [Tables -> Frame] /\ C.pte \in [VPage -> Frame] /\ Distinct(C) /\ a # 0
      /\ a \notin Has(C) /\ C.page \in Page /\ C.kern \in Page /\ Has(C) \cap R = {}
  BY VmConstants DEF Mid, State, Dir
<1>2. a \notin Entries(C) /\ a # C.page /\ a # C.kern
  BY <1>1 DEF Has
<1>3. (Entries(D) \ {0}) = (Entries(C) \ {0}) \cup {a}
  <2>1. CASE \E i \in Tables : C.table[i] = 0 /\ D.table = [C.table EXCEPT ![i] = a] /\ D.pte = C.pte
    <3>1. PICK i \in Tables : C.table[i] = 0 /\ D.table = [C.table EXCEPT ![i] = a] /\ D.pte = C.pte
      BY <2>1
    <3>2. D.table[i] = a /\ \A j \in Tables : j # i => D.table[j] = C.table[j]
      BY <1>1, <3>1
    <3>. QED BY <1>1, <3>1, <3>2 DEF Entries
  <2>2. CASE \E v \in VPage : C.pte[v] = 0 /\ D.pte = [C.pte EXCEPT ![v] = a] /\ D.table = C.table
    <3>1. PICK v \in VPage : C.pte[v] = 0 /\ D.pte = [C.pte EXCEPT ![v] = a] /\ D.table = C.table
      BY <2>2
    <3>2. D.pte[v] = a /\ \A w \in VPage : w # v => D.pte[w] = C.pte[w]
      BY <1>1, <3>1
    <3>. QED BY <1>1, <3>1, <3>2 DEF Entries
  <2>. QED BY <2>1, <2>2
<1>4. Has(D) = Has(C) \cup {a}
  BY <1>3 DEF Has
<1>5. Distinct(D)
  <2>1. D.page # D.kern /\ {D.page, D.kern} \cap Entries(D) = {}
    <3>1. 0 \notin Page
      BY VmConstants
    <3>. QED BY <1>1, <1>2, <1>3, <3>1 DEF Distinct
  <2>2. /\ \A i \in Tables : C.table[i] # a
        /\ \A v \in VPage : C.pte[v] # a
    BY <1>2 DEF Entries
  <2>3. CASE \E i \in Tables : C.table[i] = 0 /\ D.table = [C.table EXCEPT ![i] = a] /\ D.pte = C.pte
    BY <1>1, <2>1, <2>2, <2>3 DEF Distinct
  <2>4. CASE \E v \in VPage : C.pte[v] = 0 /\ D.pte = [C.pte EXCEPT ![v] = a] /\ D.table = C.table
    BY <1>1, <2>1, <2>2, <2>4 DEF Distinct
  <2>. QED BY <2>3, <2>4
<1>6. Has(D) \cup R = Has(C) \cup (R \cup {a}) /\ Has(D) \cap R = {}
  BY <1>1, <1>4
<1>. QED BY <1>5, <1>6 DEF Mid, State

\* A state before there is an address space to work on.
Begun(x, H, k, D, z) == x \in [free : {FreeBut(H)}, left : {k}, dir : {D}, sz : {z}, ok : {TRUE}]

LEMMA BegunSteps ==
  ASSUME NEW x, NEW H, NEW k \in Int, NEW D, NEW z, NEW a \in Page, Begun(x, H, k, D, z)
  PROVE  /\ a \notin H => Begun(Took(x, a), H \cup {a}, k - 1, D, z)
         /\ a \in H => Begun(kfree(x, a), H \ {a}, k, D, z)
         /\ \A C : Begun([x EXCEPT !.dir = C], H, k, C, z)
<1>1. x.free = FreeBut(H) /\ x.left = k
  BY DEF Begun
<1>2. \A f : [x EXCEPT !.free = f, !.left = k - 1] \in [free : {f}, left : {k - 1}, dir : {D}, sz : {z}, ok : {TRUE}]
  BY DEF Begun
<1>3. \A f : [x EXCEPT !.free = f] \in [free : {f}, left : {k}, dir : {D}, sz : {z}, ok : {TRUE}]
  BY DEF Begun
<1>4. \A C : Begun([x EXCEPT !.dir = C], H, k, C, z)
  BY DEF Begun
<1>5. Took(x, a) = [x EXCEPT !.free = [x.free EXCEPT ![a] = @ - 1], !.left = k - 1]
  BY <1>1 DEF Took
<1>6. kfree(x, a) = [x EXCEPT !.free = [x.free EXCEPT ![a] = @ + 1]]
  BY DEF kfree
<1>7. a \notin H => Begun(Took(x, a), H \cup {a}, k - 1, D, z)
  <2>1. a \notin H => [x.free EXCEPT ![a] = @ - 1] = FreeBut(H \cup {a})
    BY <1>1, FreeTake
  <2>. QED BY <1>2, <1>5, <2>1 DEF Begun
<1>8. a \in H => Begun(kfree(x, a), H \ {a}, k, D, z)
  <2>1. a \in H => [x.free EXCEPT ![a] = @ + 1] = FreeBut(H \ {a})
    BY <1>1, FreeGive
  <2>. QED BY <1>3, <1>6, <2>1 DEF Begun
<1>. QED BY <1>4, <1>7, <1>8

\* A new address space has nothing mapped; without it nothing is taken.
LEMMA SetupMid ==
  ASSUME NEW R, NEW k \in Int, NEW D, NEW z \in 0..KERNBASE, NEW x, Begun(x, R, k, D, z)
  PROVE  LET y == setupkvm(x)
         IN IF y.ok THEN Mid(y, R) /\ Present(y.dir) = {} /\ y.sz = z
            ELSE /\ y.ok = FALSE /\ "free" \in DOMAIN y /\ y.free = FreeBut(R)
                 /\ k = 0 \/ k = 1 \/ \E c : Page \subseteq R \cup {c}
<1>. DEFINE a == kalloc(x)  y == Took(x, a)  b == kalloc(y)  r == setupkvm(x)
<1>1. 0 \notin Page /\ (a = 0 \/ a \in Page \ R)
  <2>1. x.free = FreeBut(R)
    BY DEF Begun
  <2>. QED BY <2>1, Allocates, VmConstants
<1>2. CASE a = 0
  <2>1. k = 0 \/ Page \subseteq R
    BY <1>2, Allocates DEF Begun
  <2>. QED BY <1>2, <2>1 DEF setupkvm, Fail, Begun
<1>3. CASE a \in Page \ R
  <2>. PICK j \in Int, m \in Int : j = k - 1 /\ m = j - 1
    OBVIOUS
  <2>1. Begun(y, R \cup {a}, j, D, z)
    BY <1>3, BegunSteps
  <2>2. b = 0 \/ b \in Page \ (R \cup {a})
    <3>1. y.free = FreeBut(R \cup {a})
      BY <2>1 DEF Begun
    <3>. QED BY <3>1, Allocates
  <2>3. CASE b = 0
    <3>1. r = Fail(kfree(y, a))
      BY <1>1, <1>3, <2>3 DEF setupkvm
    <3>2. (R \cup {a}) \ {a} = R
      BY <1>3
    <3>3. Begun(kfree(y, a), R, j, D, z)
      <4>1. PICK G : G = R \cup {a} /\ a \in G
        OBVIOUS
      <4>. HIDE DEF y, a
      <4>2. Begun(kfree(y, a), G \ {a}, j, D, z)
        BY <1>3, <2>1, <4>1, BegunSteps
      <4>. QED BY <3>2, <4>1, <4>2
    <3>4. k = 1 \/ \E c : Page \subseteq R \cup {c}
      <4>1. y.free = FreeBut(R \cup {a}) /\ y.left = j
        BY <2>1 DEF Begun
      <4>2. j = 0 \/ Page \subseteq R \cup {a}
        BY <2>3, <4>1, Allocates
      <4>. QED BY <4>2
    <3>. QED BY <3>1, <3>3, <3>4 DEF Fail, Begun
  <2>4. CASE b \in Page \ (R \cup {a})
    <3>. DEFINE N == NewDir(a, b)  H == R \cup {a} \cup {b}
    <3>1. r = [Took(y, b) EXCEPT !.dir = N]
      BY <1>1, <1>3, <2>4 DEF setupkvm
    <3>3. Begun(r, H, m, N, z)
      <4>. HIDE DEF y, a, b, N
      <4>1. Begun(Took(y, b), H, m, D, z)
        <5>1. b \notin R \cup {a} => Begun(Took(y, b), R \cup {a} \cup {b}, j - 1, D, z)
          BY <2>1, <2>4, BegunSteps
        <5>. QED BY <2>4, <5>1
      <4>. HIDE DEF H
      <4>2. Begun([Took(y, b) EXCEPT !.dir = N], H, m, N, z)
        BY <2>4, <4>1, BegunSteps
      <4>. QED BY <3>1, <4>2
    <3>4. /\ N.page = a /\ N.kern = b /\ N \in Dir /\ \A i \in Tables : N.table[i] = 0
          /\ \A v \in VPage : N.pte[v] = 0
      BY <1>3, <2>4 DEF NewDir, Dir, Frame
    <3>5. Entries(N) \subseteq {0}
      BY <3>4 DEF Entries
    <3>6. Has(N) = {a, b} /\ H = Has(N) \cup R /\ Has(N) \cap R = {}
      BY <1>3, <2>4, <3>4, <3>5 DEF Has
    <3>7. Distinct(N)
      BY <1>1, <1>3, <2>4, <3>4, <3>5 DEF Distinct
    <3>8. FreeBut(H) \in [Page -> Nat]
      BY DEF FreeBut
    <3>9. State(r) /\ r.dir = N /\ r.free = FreeBut(H) /\ r.sz = z /\ r.ok = TRUE
      <4>. HIDE DEF N, H, r
      <4>. QED BY <3>3, <3>4, <3>8 DEF State, Begun
    <3>. QED BY <3>4, <3>6, <3>7, <3>9 DEF Mid, Present
  <2>. QED BY <2>2, <2>3, <2>4
<1>. QED BY <1>1, <1>2, <1>3

LEMMA TableOf ==
  ASSUME NEW v \in VPage
  PROVE  PDX(v) \in Tables
<1>1. \A n \in Nat, m \in Nat, u \in Nat : n > 0 /\ u < m * n => u \div n \in 0..(m - 1)
  <2>1. ASSUME NEW n \in Nat, NEW m \in Nat, NEW u \in Nat, n > 0, u < m * n PROVE u \div n \in 0..(m - 1)
    <3>1. u \div n \in Nat /\ (u \div n) * n <= u
      BY <2>1
    <3>2. \A c \in Nat : c >= m => c * n >= m * n
      BY <2>1
    <3>3. (u \div n) * n \in Nat /\ m * n \in Nat
      BY <2>1, <3>1
    <3>. QED BY <2>1, <3>1, <3>2, <3>3
  <2>. QED BY <2>1
<1>2. v \in Nat /\ v < NPDE * NPTE
  <2>1. NPDE * NPTE \in Nat
    BY VmConstants
  <2>. QED BY <2>1 DEF VPage
<1>. QED BY <1>1, <1>2, VmConstants DEF PDX, Tables

LEMMA WithTableMid ==
  ASSUME NEW x, NEW R, Mid(x, R), NEW v \in VPage
  PROVE  LET y == WithTable(x, v)
         IN /\ Mid(y, R) /\ y.dir.pte = x.dir.pte /\ y.sz = x.sz /\ (y.ok => x.ok)
            /\ y.dir.page = x.dir.page /\ y.dir.kern = x.dir.kern
<1>. DEFINE t == kalloc(x)  i == PDX(v)
<1>1. t = 0 \/ (t \in Page /\ t \notin Has(x.dir) \cup R)
  BY Allocates DEF Mid
<1>2. i \in Tables /\ 0 \notin Page
  BY TableOf, VmConstants
<1>3. CASE x.dir.table[i] # 0
  BY <1>3 DEF WithTable
<1>4. CASE x.dir.table[i] = 0 /\ t = 0
  BY <1>4, FailMid DEF WithTable
<1>5. CASE x.dir.table[i] = 0 /\ t \in Page /\ t \notin Has(x.dir) \cup R
  <2>. DEFINE w == Took(x, t)  D == [w.dir EXCEPT !.table = [w.dir.table EXCEPT ![i] = t]]
  <2>1. WithTable(x, v) = [w EXCEPT !.dir = D]
    BY <1>2, <1>5 DEF WithTable
  <2>2. Mid(w, R \cup {t}) /\ SameDir(x, w)
    BY <1>5, TookMid
  <2>3. w.dir \in Dir /\ State(w)
    BY <2>2 DEF Mid, State
  <2>4. /\ D \in Dir /\ D.page = w.dir.page /\ D.kern = w.dir.kern /\ D.pte = w.dir.pte
        /\ D.table = [w.dir.table EXCEPT ![i] = t]
    BY <1>2, <1>5, <2>3 DEF Dir, Frame
  <2>5. w.dir.table[i] = 0 /\ t \notin R
    BY <1>5, <2>2 DEF SameDir
  <2>. HIDE DEF D, w, t, i
  <2>6. Mid([w EXCEPT !.dir = D], R)
    BY <1>2, <1>5, <2>2, <2>4, <2>5, EntryMid
  <2>. QED BY <2>1, <2>2, <2>3, <2>4, <2>6 DEF SameDir, State
<1>. QED BY <1>1, <1>3, <1>4, <1>5

\* One round of the loops maps page v or leaves all as it was.
LEMMA AnotherMid ==
  ASSUME NEW x, NEW R, Mid(x, R), NEW v \in VPage, x.ok => x.dir.pte[v] = 0
  PROVE  LET y == Another(x, v)
         IN /\ Mid(y, R) /\ y.sz = x.sz /\ (y.ok => x.ok)
            /\ Present(y.dir) = IF y.ok THEN Present(x.dir) \cup {v} ELSE Present(x.dir)
<1>. DEFINE mem == kalloc(x)  y == Another(x, v)
<1>1. mem = 0 \/ (mem \in Page /\ mem \notin Has(x.dir) \cup R)
  BY Allocates DEF Mid
<1>2. 0 \notin Page
  BY VmConstants
<1>3. CASE ~x.ok
  BY <1>3 DEF Another
<1>4. CASE x.ok /\ mem = 0
  BY <1>4, FailMid DEF Another
<1>5. CASE x.ok /\ mem \in Page /\ mem \notin Has(x.dir) \cup R
  <2>. DEFINE w == Took(x, mem)  t == WithTable(w, v)  m == mappages(w, v, mem)
  <2>1. y = KeepMapped(m, mem) /\ m = Mapped(t, v, mem)
    BY <1>2, <1>5 DEF Another, mappages
  <2>2. Mid(w, R \cup {mem}) /\ SameDir(x, w)
    BY <1>5, TookMid
  <2>3. Mid(t, R \cup {mem}) /\ t.dir.pte = x.dir.pte /\ t.sz = x.sz
    BY <2>2, WithTableMid DEF SameDir
  <2>4. State(t) /\ t.dir \in Dir
    BY <2>3 DEF Mid, State
  <2>. HIDE DEF t, w
  <2>5. CASE t.ok
    <3>. DEFINE D == [t.dir EXCEPT !.pte = [t.dir.pte EXCEPT ![v] = mem], !.user = @ \cup {v}]
    <3>1. m = [t EXCEPT !.dir = D]
      BY <2>1, <2>5 DEF Mapped
    <3>2. /\ D \in Dir /\ D.page = t.dir.page /\ D.kern = t.dir.kern /\ D.table = t.dir.table
          /\ D.pte = [t.dir.pte EXCEPT ![v] = mem]
      BY <1>5, <2>4 DEF Dir, Frame
    <3>3. t.dir.pte[v] = 0 /\ mem \notin R
      BY <1>5, <2>3
    <3>. HIDE DEF D, mem, y, m
    <3>4. Mid([t EXCEPT !.dir = D], R)
      BY <1>5, <2>3, <3>2, <3>3, EntryMid
    <3>5. m.ok = t.ok /\ m.sz = t.sz /\ m.dir = D
      BY <2>4, <3>1 DEF State
    <3>6. y = m
      BY <2>1, <2>5, <3>5 DEF KeepMapped
    <3>7. Present(D) = Present(t.dir) \cup {v}
      <4>1. t.dir.pte \in [VPage -> Frame]
        BY <2>4 DEF Dir
      <4>. QED BY <1>2, <1>5, <3>2, <4>1 DEF Present
    <3>8. Present(t.dir) = Present(x.dir)
      BY <2>3 DEF Present
    <3>. QED BY <1>5, <2>3, <2>5, <3>1, <3>4, <3>5, <3>6, <3>7, <3>8 DEF y
  <2>6. CASE ~t.ok
    <3>1. y = kfree(t, mem)
      BY <2>1, <2>6 DEF Mapped, KeepMapped
    <3>2. Mid(kfree(t, mem), (R \cup {mem}) \ {mem}) /\ SameDir(t, kfree(t, mem))
      <4>. HIDE DEF mem
      <4>1. PICK G : G = R \cup {mem} /\ mem \in G /\ Mid(t, G)
        BY <2>3
      <4>2. Mid(kfree(t, mem), G \ {mem}) /\ SameDir(t, kfree(t, mem))
        BY <1>5, <4>1, GiveMid
      <4>. QED BY <4>1, <4>2
    <3>3. (R \cup {mem}) \ {mem} = R
      BY <1>5
    <3>4. ~y.ok /\ y.sz = x.sz /\ y.dir = t.dir
      BY <2>3, <2>6, <3>1, <3>2 DEF SameDir
    <3>5. Present(y.dir) = Present(x.dir)
      BY <2>3, <3>4 DEF Present
    <3>. QED BY <3>1, <3>2, <3>3, <3>4, <3>5
  <2>. QED BY <2>5, <2>6
<1>. QED BY <1>1, <1>3, <1>4, <1>5

\* What deallocuvm finds mapped it unmaps and frees.
LEMMA DeallocMid ==
  ASSUME NEW x, NEW R, Mid(x, R), NEW o, NEW n
  PROVE  LET y == deallocuvm(x, o, n)
         IN /\ Mid(y, R) /\ y.sz = x.sz /\ y.ok = x.ok /\ Present(y.dir) = Present(x.dir) \ PagesIn(n, o)
            /\ y.dir.table = x.dir.table /\ y.dir.page = x.dir.page /\ y.dir.kern = x.dir.kern
<1>. DEFINE C == x.dir  gone == PagesIn(n, o)  G == {C.pte[v] : v \in gone}
            f == [a \in Page |-> x.free[a] + Cardinality({v \in gone : C.pte[v] = a})]
            D == [C EXCEPT !.pte = [v \in VPage |-> IF v \in gone THEN 0 ELSE C.pte[v]],
                           !.user = @ \ {v \in gone : C.pte[v] # 0}]
            y == deallocuvm(x, o, n)
<1>1. State(x) /\ C \in Dir /\ Distinct(C) /\ Has(C) \cap R = {} /\ gone \subseteq VPage /\ 0 \notin Page
  BY VmConstants DEF Mid, State, PagesIn
<1>2. y = [x EXCEPT !.free = f, !.dir = D]
  BY DEF deallocuvm
<1>3. /\ D \in Dir /\ D.page = C.page /\ D.kern = C.kern /\ D.table = C.table
      /\ D.pte = [v \in VPage |-> IF v \in gone THEN 0 ELSE C.pte[v]]
  BY <1>1 DEF Dir, Frame
<1>4. C.page \in Page /\ C.kern \in Page /\ C.table \in [Tables -> Frame] /\ C.pte \in [VPage -> Frame]
  BY <1>1 DEF Dir
<1>5. Entries(D) \ {0} = (Entries(C) \ {0}) \ G
  <2>1. ASSUME NEW a \in Entries(D), a # 0 PROVE a \in Entries(C) /\ a \notin G
    <3>1. CASE \E i \in Tables : a = C.table[i]
      BY <1>1, <1>3, <2>1, <3>1 DEF Entries, Distinct
    <3>2. CASE \E v \in VPage : a = D.pte[v]
      <4>1. PICK v \in VPage : a = D.pte[v]
        BY <3>2
      <4>2. v \notin gone /\ a = C.pte[v]
        BY <1>3, <2>1, <4>1
      <4>. QED BY <1>1, <2>1, <4>2 DEF Entries, Distinct
    <3>. QED BY <1>3, <2>1, <3>1, <3>2 DEF Entries
  <2>2. ASSUME NEW a \in Entries(C), a # 0, a \notin G PROVE a \in Entries(D)
    <3>1. CASE \E i \in Tables : a = C.table[i]
      BY <1>3, <3>1 DEF Entries
    <3>2. CASE \E v \in VPage : a = C.pte[v]
      BY <1>3, <2>2, <3>2 DEF Entries
    <3>. QED BY <3>1, <3>2 DEF Entries
  <2>. QED BY <2>1, <2>2
<1>6. G \subseteq Entries(C)
  BY <1>1 DEF Entries
<1>7. Has(D) \cup R = ((Has(C) \cup R) \ G) \cup ({0} \cap R) /\ Has(D) \subseteq Has(C)
  <2>1. {C.page, C.kern} \cap G = {}
    BY <1>1, <1>6 DEF Distinct
  <2>2. R \cap G \subseteq {0}
    BY <1>1, <1>6 DEF Has
  <2>. QED BY <1>3, <1>5, <2>1, <2>2 DEF Has
<1>8. f = FreeBut(Has(D) \cup R)
  <2>1. \A i \in gone : C.pte[i] = 0 \/ C.pte[i] \in Has(C) \cup R
    BY <1>1 DEF Has, Entries
  <2>2. \A i \in gone, j \in gone : C.pte[i] = C.pte[j] /\ C.pte[i] # 0 => i = j
    BY <1>1 DEF Distinct
  <2>3. f = FreeBut((Has(C) \cup R) \ G)
    <3>1. Names(gone, C.pte, Has(C) \cup R)
      BY <2>1, <2>2 DEF Names
    <3>2. Given(gone, C.pte, Has(C) \cup R) = FreeBut((Has(C) \cup R) \ {C.pte[i] : i \in gone})
      BY <3>1, FreeAll
    <3>3. f = Given(gone, C.pte, Has(C) \cup R)
      BY DEF Given, Mid
    <3>. QED BY <3>2, <3>3
  <2>. QED BY <1>1, <1>7, <2>3 DEF FreeBut
<1>9. Distinct(D)
  <2>1. D.page # D.kern /\ {D.page, D.kern} \cap Entries(D) = {}
    BY <1>1, <1>3, <1>4, <1>5 DEF Distinct
  <2>2. \A i, j \in Tables : D.table[i] = D.table[j] => i = j \/ D.table[i] = 0
    BY <1>1, <1>3 DEF Distinct
  <2>3. \A v \in VPage : D.pte[v] = 0 \/ D.pte[v] = C.pte[v]
    BY <1>3
  <2>. HIDE DEF D
  <2>4. \A v, w \in VPage : D.pte[v] = D.pte[w] => v = w \/ D.pte[v] = 0
    BY <1>1, <2>3 DEF Distinct
  <2>5. \A i \in Tables, v \in VPage : D.table[i] = D.pte[v] => D.pte[v] = 0
    BY <1>1, <1>3, <2>3 DEF Distinct
  <2>. QED BY <2>1, <2>2, <2>4, <2>5 DEF Distinct
<1>10. Present(D) = Present(C) \ gone
  BY <1>3 DEF Present
<1>. HIDE DEF D, f, gone
<1>11. State(y) /\ y.dir = D /\ y.free = f /\ y.sz = x.sz /\ y.ok = x.ok
  <2>1. f \in [Page -> Nat]
    BY <1>8 DEF FreeBut
  <2>. QED BY <1>1, <1>2, <1>3, <2>1 DEF State
<1>. QED BY <1>1, <1>3, <1>7, <1>8, <1>9, <1>10, <1>11 DEF Mid, gone

\* All pages are below KERNBASE.
LEMMA AllPages == PagesIn(0, KERNBASE) = VPage
<1>1. /\ 0 \in Nat /\ PGROUNDUP(0) = Count(0) * PGSIZE /\ Count(0) \in Nat /\ PGROUNDUP(0) < 0 + PGSIZE
      /\ PGSIZE \in Nat /\ PGSIZE > 0
  BY CountIs, PageSize
<1>2. Count(0) = 0
  <2>1. ~(0 < Count(0))
    <3>1. 0 * PGSIZE = 0
      BY <1>1
    <3>. QED BY <1>1, <3>1, BelowIs
  <2>. QED BY <1>1, <2>1
<1>3. PGROUNDUP(0) = 0
  BY <1>1, <1>2
<1>4. NPDE * NPTE \in Nat /\ KERNBASE = (NPDE * NPTE) * PGSIZE
  BY VmConstants DEF KERNBASE
<1>5. ASSUME NEW v \in VPage PROVE 0 <= v * PGSIZE /\ v * PGSIZE < KERNBASE
  <2>1. v \in Nat /\ v < NPDE * NPTE
    BY <1>4 DEF VPage
  <2>2. v * PGSIZE \in Nat
    BY <1>1, <2>1
  <2>. QED BY <1>4, <2>1, <2>2, Multiples
<1>. QED BY <1>3, <1>5 DEF PagesIn

\* freevm gives back all of the address space.
LEMMA FreevmFrees ==
  ASSUME NEW x, NEW R, Mid(x, R)
  PROVE  freevm(x).free = FreeBut(R) /\ freevm(x).ok = x.ok /\ "free" \in DOMAIN freevm(x)
<1>. DEFINE y == deallocuvm(x, KERNBASE, 0)  C == y.dir
            g == [y EXCEPT !.free = [a \in Page |-> y.free[a] + Cardinality({i \in Tables : C.table[i] = a})]]
<1>1. Mid(y, R) /\ Present(C) = {} /\ y.ok = x.ok
  <2>1. Present(x.dir) \subseteq VPage
    BY DEF Present
  <2>. QED BY <2>1, DeallocMid, AllPages
<1>2. State(y) /\ C \in Dir /\ Distinct(C) /\ Has(C) \cap R = {} /\ y.free = FreeBut(Has(C) \cup R)
  BY <1>1 DEF Mid, State
<1>. HIDE DEF y
<1>3. C.page \in Page /\ C.kern \in Page /\ C.page # C.kern /\ 0 \notin Page
  BY <1>2, VmConstants DEF Dir, Distinct
<1>4. Names(Tables, C.table, Has(C) \cup R)
  BY <1>2 DEF Names, Has, Entries, Distinct
<1>5. g.free = FreeBut((Has(C) \cup R) \ {C.table[i] : i \in Tables}) /\ State(g) /\ g.dir = C /\ g.ok = y.ok
  <2>1. Given(Tables, C.table, Has(C) \cup R) = FreeBut((Has(C) \cup R) \ {C.table[i] : i \in Tables})
    BY <1>4, FreeAll
  <2>2. \A f : f \in [Page -> Nat] => LET z == [y EXCEPT !.free = f] IN z.free = f /\ State(z) /\ z.dir = C /\ z.ok = y.ok
    BY <1>2 DEF State
  <2>3. Given(Tables, C.table, Has(C) \cup R) \in [Page -> Nat]
    BY <2>1 DEF FreeBut
  <2>. QED BY <1>2, <2>1, <2>2, <2>3 DEF Given
<1>. HIDE DEF g
<1>6. g.free = FreeBut(R \cup {C.page, C.kern})
  <2>1. Entries(C) \ {0} = {C.table[i] : i \in Tables} \ {0}
    BY <1>1 DEF Entries, Present
  <2>2. {C.table[i] : i \in Tables} \cap {C.page, C.kern} = {}
    BY <1>2 DEF Distinct, Entries
  <2>3. ({C.table[i] : i \in Tables} \ {0}) \cap R = {}
    BY <1>2, <2>1 DEF Has
  <2>4. \A a \in Page : a \in (Has(C) \cup R) \ {C.table[i] : i \in Tables} <=> a \in R \cup {C.page, C.kern}
    BY <1>3, <2>1, <2>2, <2>3 DEF Has
  <2>. QED BY <1>5, <2>4 DEF FreeBut
<1>7. /\ freevm(x) = kfree(kfree(g, C.kern), C.page)
  BY <1>5 DEF freevm, FreeTables, g, y
<1>8. C.page \notin R /\ C.kern \notin R
  BY <1>2 DEF Has
<1>9. ASSUME NEW z, State(z), NEW H, z.free = FreeBut(H), NEW a \in Page, a \in H
      PROVE  kfree(z, a).free = FreeBut(H \ {a}) /\ State(kfree(z, a)) /\ kfree(z, a).ok = z.ok
  <2>1. kfree(z, a) = [z EXCEPT !.free = [z.free EXCEPT ![a] = @ + 1]]
    BY DEF kfree
  <2>2. [z.free EXCEPT ![a] = @ + 1] = FreeBut(H \ {a}) /\ FreeBut(H \ {a}) \in [Page -> Nat]
    <3>1. FreeBut(H \ {a}) \in [Page -> Nat]
      BY DEF FreeBut
    <3>. QED BY <1>9, <3>1, FreeGive
  <2>. QED BY <1>9, <2>1, <2>2 DEF State
<1>10. PICK w : w = kfree(g, C.kern)
  OBVIOUS
<1>11. w.free = FreeBut(R \cup {C.page}) /\ State(w) /\ w.ok = g.ok
  <2>1. (R \cup {C.page, C.kern}) \ {C.kern} = R \cup {C.page}
    BY <1>3, <1>8
  <2>2. w.free = FreeBut((R \cup {C.page, C.kern}) \ {C.kern}) /\ State(w) /\ w.ok = g.ok
    <3>1. PICK G : G = R \cup {C.page, C.kern} /\ C.kern \in G /\ g.free = FreeBut(G)
      BY <1>6
    <3>2. kfree(g, C.kern).free = FreeBut(G \ {C.kern}) /\ State(kfree(g, C.kern)) /\ kfree(g, C.kern).ok = g.ok
      BY <1>3, <1>5, <1>9, <3>1
    <3>. QED BY <1>10, <3>1, <3>2
  <2>. QED BY <2>1, <2>2
<1>12. kfree(w, C.page).free = FreeBut(R) /\ State(kfree(w, C.page)) /\ kfree(w, C.page).ok = w.ok
  <2>1. (R \cup {C.page}) \ {C.page} = R
    BY <1>8
  <2>2. kfree(w, C.page).free = FreeBut((R \cup {C.page}) \ {C.page}) /\ State(kfree(w, C.page)) /\ kfree(w, C.page).ok = w.ok
    BY <1>3, <1>9, <1>11
  <2>. QED BY <2>1, <2>2
<1>. QED BY <1>1, <1>5, <1>7, <1>10, <1>11, <1>12 DEF State

(***************************************************************************)
(* The loops.                                                              *)
(***************************************************************************)
\* A set of numbers with 0 and, with every number, the next one has them all.
LEMMA AllNumbers ==
  ASSUME NEW S, 0 \in S, \A i \in Nat : i \in S => i + 1 \in S
  PROVE  Nat \subseteq S
<1>. DEFINE W == OpToRel(<, Nat)  T == Nat \ S
<1>1. SUFFICES ASSUME T # {} PROVE FALSE
  OBVIOUS
<1>2. IsWellFoundedOn(W, Nat)
  BY NatLessThanWellFounded
<1>3. \A i, j \in Nat : i < j => <<i, j>> \in W
  BY DEF OpToRel
<1>. HIDE DEF W
<1>4. PICK m \in T : \A j \in T : ~(<<j, m>> \in W)
  BY <1>1, <1>2, WFMin
<1>5. m # 0 /\ m - 1 \in Nat /\ m - 1 < m
  BY <1>4
<1>6. m - 1 \in S
  BY <1>3, <1>4, <1>5
<1>. QED BY <1>4, <1>5, <1>6

\* The function that the loop computes is there, and what a round keeps the loop keeps.
Runs(y, x, v, n) == y = [i \in 0..n |-> IF i = 0 THEN x ELSE Another(y[i - 1], v + (i - 1))]

LEMMA LoopRuns ==
  ASSUME NEW x, NEW v, NEW n \in Nat
  PROVE  \E y : Runs(y, x, v, n) /\ Loop(x, v, n) = y[n]
<1>. DEFINE S == {m \in Nat : \E y : Runs(y, x, v, m)}
<1>1. 0 \in S
  <2>. DEFINE y == [i \in 0..0 |-> x]
  <2>1. Runs(y, x, v, 0)
    BY DEF Runs
  <2>. QED BY <2>1
<1>2. ASSUME NEW m \in Nat, m \in S PROVE m + 1 \in S
  <2>1. PICK y : Runs(y, x, v, m)
    BY <1>2
  <2>. DEFINE z == [i \in 0..(m + 1) |-> IF i = m + 1 THEN Another(y[m], v + m) ELSE y[i]]
  <2>2. \A i \in 0..(m + 1) : z[i] = IF i = 0 THEN x ELSE Another(z[i - 1], v + (i - 1))
    <3>1. \A i \in 0..m : z[i] = y[i]
      OBVIOUS
    <3>2. \A i \in 0..m : y[i] = IF i = 0 THEN x ELSE Another(y[i - 1], v + (i - 1))
      BY <2>1 DEF Runs
    <3>3. ASSUME NEW i \in 0..(m + 1) PROVE z[i] = IF i = 0 THEN x ELSE Another(z[i - 1], v + (i - 1))
      <4>1. CASE i = 0
        BY <3>1, <3>2, <4>1
      <4>2. CASE i \in 1..m
        <5>1. i \in 0..m /\ i - 1 \in 0..m /\ i # 0
          BY <4>2
        <5>. QED BY <3>1, <3>2, <5>1
      <4>3. CASE i = m + 1
        <5>1. i - 1 = m /\ z[m] = y[m] /\ i # 0
          BY <3>1, <4>3
        <5>. QED BY <4>3, <5>1
      <4>. QED BY <4>1, <4>2, <4>3
    <3>. QED BY <3>3
  <2>3. Runs(z, x, v, m + 1)
    BY <2>2 DEF Runs
  <2>. QED BY <2>3
<1>3. n \in S
  <2>. HIDE DEF S
  <2>. QED BY <1>1, <1>2, AllNumbers
<1>4. \E y : y = [i \in 0..n |-> IF i = 0 THEN x ELSE Another(y[i - 1], v + (i - 1))]
  BY <1>3 DEF Runs
<1>. QED BY <1>4 DEF Loop, Runs

\* All pages below c are mapped, and at most the n above it.
MappedTo(D, c, n) == \E m \in 0..n : Present(D) = 0..(c + m - 1)

\* n rounds from page c on, above which nothing is mapped.
LEMMA LoopMid ==
  ASSUME NEW x, NEW R, Mid(x, R), x.ok, NEW c \in Nat, NEW n \in Nat, c + n <= NPDE * NPTE,
         Present(x.dir) = 0..(c - 1)
  PROVE  LET y == Loop(x, c, n)
         IN /\ Mid(y, R) /\ y.sz = x.sz
            /\ y.ok => Present(y.dir) = 0..(c + n - 1)
            /\ MappedTo(y.dir, c, n)
<1>1. PICK y : Runs(y, x, c, n) /\ Loop(x, c, n) = y[n]
  BY LoopRuns
<1>. DEFINE Fine(i) == /\ Mid(y[i], R) /\ y[i].sz = x.sz
                       /\ y[i].ok => Present(y[i].dir) = 0..(c + i - 1)
                       /\ MappedTo(y[i].dir, c, n)
            S == {i \in Nat : i <= n => Fine(i)}
<1>2. y[0] = x /\ \A i \in Nat : i + 1 <= n => y[i + 1] = Another(y[i], c + i)
  <2>1. \A i \in 0..n : y[i] = IF i = 0 THEN x ELSE Another(y[i - 1], c + (i - 1))
    BY <1>1 DEF Runs
  <2>2. ASSUME NEW i \in Nat, i + 1 <= n PROVE y[i + 1] = Another(y[i], c + i)
    <3>1. i + 1 \in 0..n /\ i + 1 # 0 /\ (i + 1) - 1 = i
      BY <2>2
    <3>. QED BY <2>1, <3>1
  <2>3. 0 \in 0..n
    OBVIOUS
  <2>. QED BY <2>1, <2>2, <2>3
<1>3. 0 \in S
  <2>1. 0 \in 0..n /\ c + 0 - 1 = c - 1
    OBVIOUS
  <2>. QED BY <1>2, <2>1 DEF MappedTo
<1>4. ASSUME NEW i \in Nat, i \in S, i + 1 <= n PROVE Fine(i + 1)
  <2>. DEFINE a == y[i]  b == y[i + 1]  w == c + i
  <2>1. Fine(i) /\ b = Another(a, w)
    BY <1>2, <1>4
  <2>2. w \in VPage
    <3>1. NPDE * NPTE \in Nat
      BY VmConstants
    <3>2. \A N \in Nat : c + n <= N => w \in 0..(N - 1)
      BY <1>4
    <3>. QED BY <3>1, <3>2 DEF VPage
  <2>3. a.ok => a.dir.pte[w] = 0
    <3>1. ~(w \in 0..(c + i - 1))
      OBVIOUS
    <3>. QED BY <2>1, <2>2, <3>1 DEF Present
  <2>4. /\ Mid(b, R) /\ b.sz = a.sz /\ (b.ok => a.ok)
        /\ Present(b.dir) = IF b.ok THEN Present(a.dir) \cup {w} ELSE Present(a.dir)
    <3>. HIDE DEF w, a, b
    <3>1. Mid(a, R)
      BY <2>1 DEF a
    <3>2. Mid(Another(a, w), R)
      BY <2>2, <2>3, <3>1, AnotherMid
    <3>. QED BY <2>1, <2>2, <2>3, <3>1, <3>2, AnotherMid
  <2>5. CASE b.ok
    <3>1. Present(b.dir) = 0..(c + i - 1) \cup {c + i}
      BY <2>1, <2>4, <2>5
    <3>2. 0..(c + i - 1) \cup {c + i} = 0..(c + (i + 1) - 1) /\ i + 1 \in 0..n
      BY <1>4
    <3>. QED BY <2>1, <2>4, <3>1, <3>2 DEF MappedTo
  <2>6. CASE ~b.ok
    BY <2>1, <2>4, <2>6 DEF MappedTo
  <2>. QED BY <2>5, <2>6
<1>5. n \in S
  <2>1. \A i \in Nat : i \in S => i + 1 \in S
    <3>1. ASSUME NEW i \in Nat, i \in S PROVE i + 1 \in S
      <4>1. i + 1 \in Nat /\ (i + 1 <= n => Fine(i + 1))
        <5>. SUFFICES ASSUME i + 1 <= n PROVE Fine(i + 1)
          OBVIOUS
        <5>. QED BY <1>4, <3>1
      <4>. HIDE DEF Fine
      <4>. QED BY <4>1
    <3>. QED BY <3>1
  <2>. HIDE DEF S
  <2>. QED BY <1>3, <2>1, AllNumbers
<1>. QED BY <1>1, <1>5

\* allocuvm maps what is missing for the new size, or leaves the address space as it was.
LEMMA AllocMid ==
  ASSUME NEW x, NEW R, Mid(x, R), x.ok, NEW o \in Nat, o <= KERNBASE, NEW n \in Nat,
         Present(x.dir) = PagesBelow(o)
  PROVE  LET y == allocuvm(x, o, n)
         IN /\ Mid(y, R)
            /\ IF y.ok THEN Present(y.dir) = PagesBelow(y.sz)
               ELSE Present(y.dir) = Present(x.dir) /\ y.sz = x.sz
<1>. PICK y : y = allocuvm(x, o, n)
  OBVIOUS
<1>. SUFFICES /\ Mid(y, R)
              /\ IF y.ok THEN Present(y.dir) = PagesBelow(y.sz)
                 ELSE Present(y.dir) = Present(x.dir) /\ y.sz = x.sz
  OBVIOUS
<1>1. KERNBASE \in Nat /\ Count(o) \in Nat /\ Count(o) <= NPDE * NPTE
  BY PageCount, CountIs
<1>2. CASE n >= KERNBASE
  BY <1>2, FailMid DEF allocuvm
<1>3. CASE n < KERNBASE /\ n < o
  <2>1. y = [x EXCEPT !.sz = o]
    BY <1>1, <1>3 DEF allocuvm
  <2>2. o \in 0..KERNBASE /\ State(x)
    BY <1>1 DEF Mid
  <2>. QED BY <2>1, <2>2 DEF Mid, State
<1>4. CASE n < KERNBASE /\ ~(n < o)
  <2>. DEFINE c == Count(o)  m == Count(n) - c  z == Loop(x, c, m)
  <2>1. /\ PGROUNDUP(o) \div PGSIZE = c /\ Rounds(PGROUNDUP(o), n) = m /\ m \in Nat /\ c + m = Count(n)
        /\ c + m <= NPDE * NPTE
    <3>1. o <= n /\ n <= KERNBASE
      BY <1>1, <1>4
    <3>2. /\ PGROUNDUP(o) \div PGSIZE = c /\ c <= Count(n) /\ c + Rounds(PGROUNDUP(o), n) = Count(n)
          /\ Count(n) \in Nat /\ Count(n) <= NPDE * NPTE
      BY <3>1, RoundsIs, CountIs, PageCount
    <3>3. Rounds(PGROUNDUP(o), n) \in Int
      BY <3>1, CountIs, PageSize DEF Rounds, PGROUNDUP
    <3>. QED BY <1>1, <3>2, <3>3
  <2>2. y = Grown(z, o, n)
    BY <1>1, <1>4, <2>1 DEF allocuvm
  <2>3. Present(x.dir) = 0..(c - 1)
    BY PagesBelowIs
  <2>. HIDE DEF c, m
  <2>4. /\ Mid(z, R) /\ z.sz = x.sz /\ (z.ok => Present(z.dir) = 0..(c + m - 1))
        /\ MappedTo(z.dir, c, m)
    <3>1. c \in Nat
      BY <1>1 DEF c
    <3>2. Mid(z, R) /\ z.sz = x.sz /\ (z.ok => Present(z.dir) = 0..(c + m - 1))
      BY <2>1, <2>3, <3>1, LoopMid
    <3>3. MappedTo(z.dir, c, m)
      BY <2>1, <2>3, <3>1, LoopMid
    <3>. QED BY <3>2, <3>3
  <2>. HIDE DEF z
  <2>5. PagesBelow(n) = 0..(Count(n) - 1)
    BY <1>1, <1>4, PagesBelowIs
  <2>6. CASE z.ok
    <3>1. y = [z EXCEPT !.sz = n]
      BY <2>2, <2>6 DEF Grown
    <3>2. State(z) /\ n \in 0..KERNBASE
      BY <1>1, <1>4, <2>4 DEF Mid
    <3>3. Mid(y, R) /\ y.ok /\ y.dir = z.dir /\ y.sz = n
      BY <2>4, <2>6, <3>1, <3>2 DEF Mid, State
    <3>4. Present(z.dir) = PagesBelow(n)
      <4>1. c + m - 1 = Count(n) - 1
        <5>1. c \in Int
          BY <1>1 DEF c
        <5>. QED BY <2>1, <5>1
      <4>2. Present(z.dir) = 0..(c + m - 1)
        BY <2>4, <2>6
      <4>. QED BY <2>5, <4>1, <4>2
    <3>. QED BY <3>3, <3>4
  <2>7. CASE ~z.ok
    <3>1. y = deallocuvm(z, n, o)
      BY <2>2, <2>7 DEF Grown, Undo
    <3>2. Mid(y, R) /\ y.sz = z.sz /\ y.ok = z.ok /\ Present(y.dir) = Present(z.dir) \ PagesIn(o, n)
      BY <2>4, <3>1, DeallocMid
    <3>3. PagesIn(o, n) = {v \in VPage : c <= v /\ v < c + m}
      <4>1. ASSUME NEW v \in VPage PROVE /\ PGROUNDUP(o) <= v * PGSIZE <=> c <= v
                                         /\ v * PGSIZE < n <=> v < c + m
        <5>1. v \in Nat
          BY DEF VPage
        <5>2. v * PGSIZE < n <=> v < Count(n)
          BY <5>1, BelowIs
        <5>3. c \in Nat /\ PGROUNDUP(o) = c * PGSIZE
          BY CountIs DEF c
        <5>4. c * PGSIZE \in Int /\ v * PGSIZE \in Int /\ (v * PGSIZE < c * PGSIZE <=> v < c)
          BY <5>1, <5>3, Multiples
        <5>5. c * PGSIZE <= v * PGSIZE <=> c <= v
          <6>. DEFINE e == c * PGSIZE  f == v * PGSIZE
          <6>1. e \in Int /\ f \in Int /\ (f < e <=> v < c)
            BY <5>4
          <6>. HIDE DEF e, f
          <6>2. e <= f <=> c <= v
            BY <5>1, <5>3, <6>1
          <6>. QED BY <6>2 DEF e, f
        <5>. QED BY <2>1, <5>2, <5>3, <5>5
      <4>. QED BY <4>1 DEF PagesIn
    <3>4. PICK i \in 0..m : Present(z.dir) = 0..(c + i - 1)
      BY <2>4 DEF MappedTo
    <3>5. Present(z.dir) \ PagesIn(o, n) = 0..(c - 1)
      <4>1. Present(z.dir) \subseteq VPage
        BY DEF Present
      <4>2. c \in Nat
        BY <1>1 DEF c
      <4>3. \A v \in Int : v \in 0..(c + i - 1) => (v < c <=> ~(c <= v /\ v < c + m))
        BY <2>1, <3>4, <4>2
      <4>4. 0..(c - 1) \subseteq 0..(c + i - 1)
        BY <3>4, <4>2
      <4>5. ASSUME NEW v PROVE v \in Present(z.dir) \ PagesIn(o, n) <=> v \in 0..(c - 1)
        BY <3>3, <3>4, <4>1, <4>2, <4>3, <4>4
      <4>. QED BY <4>5
    <3>. QED BY <2>3, <2>4, <2>7, <3>2, <3>5
  <2>. QED BY <2>6, <2>7
<1>. QED BY <1>1, <1>2, <1>3, <1>4

(***************************************************************************)
(* The parts of the calls.                                                 *)
(***************************************************************************)
\* The pages below a size, and what is below the next page too.
LEMMA Borders ==
  /\ PagesBelow(0) = {} /\ PagesBelow(PGSIZE) = {0} /\ 0 \in VPage /\ PGSIZE \in 0..KERNBASE
  /\ 0 \in 0..KERNBASE
  /\ \A a \in 0..KERNBASE : PGROUNDUP(a) \in 0..KERNBASE /\ PagesBelow(PGROUNDUP(a)) = PagesBelow(a)
<1>1. PGSIZE \in Nat /\ PGSIZE > 0 /\ NPDE * NPTE \in Nat \ {0} /\ KERNBASE = (NPDE * NPTE) * PGSIZE
      /\ KERNBASE \in Nat
  BY PageSize, PageCount, VmConstants DEF KERNBASE
<1>2. 0 \in VPage
  BY <1>1 DEF VPage
<1>3. \A v \in Nat : v * PGSIZE >= 0 /\ (v >= 1 => v * PGSIZE >= PGSIZE) /\ 0 * PGSIZE = 0
  BY <1>1
<1>4. VPage \subseteq Nat
  BY DEF VPage
<1>5. PGSIZE <= KERNBASE
  BY <1>1, <1>3
<1>6. PagesBelow(0) = {}
  <2>1. \A v \in VPage : v * PGSIZE \in Nat
    BY <1>1, <1>4
  <2>. QED BY <2>1 DEF PagesBelow
<1>7. PagesBelow(PGSIZE) = {0}
  <2>1. ASSUME NEW v \in VPage PROVE v * PGSIZE < PGSIZE <=> v = 0
    <3>1. v \in Nat /\ v * PGSIZE \in Nat
      BY <1>1, <1>4
    <3>2. CASE v = 0
      BY <1>1, <1>3, <3>2
    <3>3. CASE v # 0
      BY <1>1, <1>3, <3>1, <3>3
    <3>. QED BY <3>2, <3>3
  <2>. QED BY <1>2, <2>1 DEF PagesBelow
<1>8. ASSUME NEW a \in 0..KERNBASE
      PROVE  PGROUNDUP(a) \in 0..KERNBASE /\ PagesBelow(PGROUNDUP(a)) = PagesBelow(a)
  <2>1. a \in Nat /\ a <= KERNBASE
    BY <1>1
  <2>2. /\ Count(a) \in Nat /\ PGROUNDUP(a) = Count(a) * PGSIZE /\ Count(a) <= NPDE * NPTE
    BY <2>1, CountIs, PageCount
  <2>3. PGROUNDUP(a) \in Nat
    BY <1>1, <2>2
  <2>4. PGROUNDUP(a) <= KERNBASE
    BY <1>1, <2>2
  <2>5. ASSUME NEW v \in VPage PROVE v * PGSIZE < PGROUNDUP(a) <=> v * PGSIZE < a
    <3>1. v \in Nat
      BY <1>4
    <3>2. v * PGSIZE < a <=> v < Count(a)
      BY <2>1, <3>1, BelowIs
    <3>3. v * PGSIZE < Count(a) * PGSIZE <=> v < Count(a)
      <4>1. PICK k \in Nat : k = Count(a)
        BY <2>2
      <4>2. v \in Int /\ k \in Int
        BY <3>1
      <4>3. v * PGSIZE < k * PGSIZE <=> v < k
        BY ONLY <4>2, Multiples, Zenon
      <4>. QED BY <4>1, <4>3
    <3>. QED BY <2>2, <3>2, <3>3
  <2>. QED BY <1>1, <2>3, <2>4, <2>5 DEF PagesBelow
<1>. QED BY <1>1, <1>2, <1>5, <1>6, <1>7, <1>8

\* What is loaded fits its size, unless the call has failed.
Right(x, R) == Mid(x, R) /\ (x.ok => Present(x.dir) = PagesBelow(x.sz))

LEMMA RightFail ==
  ASSUME NEW x, NEW R, Right(x, R)
  PROVE  Right(Fail(x), R)
BY FailMid DEF Right

LEMMA SegmentRight ==
  ASSUME NEW x, NEW R, Right(x, R), NEW end \in Nat
  PROVE  Right(Segment(x, end), R)
<1>. DEFINE y == allocuvm(x, x.sz, end)
<1>1. CASE ~x.ok
  BY <1>1 DEF Segment
<1>2. CASE x.ok
  <2>1. Right(y, R)
    <3>1. x.sz \in 0..KERNBASE /\ KERNBASE \in Nat
      BY PageCount DEF Right, Mid, State
    <3>2. x.sz \in Nat /\ x.sz <= KERNBASE
      BY <3>1
    <3>. QED BY <1>2, <3>2, AllocMid DEF Right
  <2>. HIDE DEF y
  <2>2. Right(Fail(y), R)
    BY <2>1, RightFail
  <2>. QED BY <1>2, <2>1, <2>2 DEF Segment, y
<1>. QED BY <1>1, <1>2

\* The function that the loop over the segments computes.
Loads(y, x, image, n) == y = [i \in 0..n |-> IF i = 0 THEN [x EXCEPT !.sz = 0] ELSE Segment(y[i - 1], image[i])]

LEMMA SegmentsLoads ==
  ASSUME NEW x, NEW image, NEW n \in Nat
  PROVE  \E y : Loads(y, x, image, n) /\ Segments(x, image, n) = y[n]
<1>. DEFINE S == {m \in Nat : \E y : Loads(y, x, image, m)}  x0 == [x EXCEPT !.sz = 0]
<1>1. 0 \in S
  <2>. DEFINE y == [i \in 0..0 |-> x0]
  <2>1. Loads(y, x, image, 0)
    BY DEF Loads
  <2>. QED BY <2>1
<1>2. ASSUME NEW m \in Nat, m \in S PROVE m + 1 \in S
  <2>1. PICK y : Loads(y, x, image, m)
    BY <1>2
  <2>. HIDE DEF x0
  <2>. DEFINE z == [i \in 0..(m + 1) |-> IF i = m + 1 THEN Segment(y[m], image[m + 1]) ELSE y[i]]
  <2>2. \A i \in 0..(m + 1) : z[i] = IF i = 0 THEN x0 ELSE Segment(z[i - 1], image[i])
    <3>1. \A i \in 0..m : z[i] = y[i]
      OBVIOUS
    <3>2. \A i \in 0..m : y[i] = IF i = 0 THEN x0 ELSE Segment(y[i - 1], image[i])
      BY <2>1 DEF Loads, x0
    <3>3. ASSUME NEW i \in 0..(m + 1) PROVE z[i] = IF i = 0 THEN x0 ELSE Segment(z[i - 1], image[i])
      <4>1. CASE i = 0
        BY <3>1, <3>2, <4>1
      <4>2. CASE i \in 1..m
        <5>1. i \in 0..m /\ i - 1 \in 0..m /\ i # 0
          BY <4>2
        <5>. QED BY <3>1, <3>2, <5>1
      <4>3. CASE i = m + 1
        <5>1. i - 1 = m /\ z[m] = y[m] /\ i # 0
          BY <3>1, <4>3
        <5>. QED BY <4>3, <5>1
      <4>. QED BY <4>1, <4>2, <4>3
    <3>. QED BY <3>3
  <2>3. Loads(z, x, image, m + 1)
    BY <2>2 DEF Loads, x0
  <2>. QED BY <2>3
<1>3. n \in S
  <2>. HIDE DEF S
  <2>. QED BY <1>1, <1>2, AllNumbers
<1>4. \E y : y = [i \in 0..n |-> IF i = 0 THEN [x EXCEPT !.sz = 0] ELSE Segment(y[i - 1], image[i])]
  BY <1>3 DEF Loads
<1>. QED BY <1>4 DEF Segments, Loads

LEMMA SegmentsRight ==
  ASSUME NEW x, NEW R, Mid(x, R), x.ok, Present(x.dir) = {}, NEW image \in Seq(Nat), NEW n \in 0..Len(image)
  PROVE  Right(Segments(x, image, n), R)
<1>1. n \in Nat
  OBVIOUS
<1>2. PICK y : Loads(y, x, image, n) /\ Segments(x, image, n) = y[n]
  BY <1>1, SegmentsLoads
<1>. DEFINE S == {i \in Nat : i <= n => Right(y[i], R)}
<1>3. y[0] = [x EXCEPT !.sz = 0] /\ \A i \in Nat : i + 1 <= n => y[i + 1] = Segment(y[i], image[i + 1])
  <2>1. \A i \in 0..n : y[i] = IF i = 0 THEN [x EXCEPT !.sz = 0] ELSE Segment(y[i - 1], image[i])
    BY <1>2 DEF Loads
  <2>2. ASSUME NEW i \in Nat, i + 1 <= n PROVE y[i + 1] = Segment(y[i], image[i + 1])
    <3>1. i + 1 \in 0..n /\ i + 1 # 0 /\ (i + 1) - 1 = i
      BY <2>2
    <3>. QED BY <2>1, <3>1
  <2>3. 0 \in 0..n
    BY <1>1
  <2>. QED BY <2>1, <2>2, <2>3
<1>4. 0 \in S
  <2>1. State(x) /\ 0 \in 0..KERNBASE /\ PagesBelow(0) = {}
    BY Borders DEF Mid
  <2>2. Right(y[0], R)
    BY <1>3, <2>1 DEF Right, Mid, State
  <2>. QED BY <2>2
<1>5. ASSUME NEW i \in Nat, i \in S PROVE i + 1 \in S
  <2>. SUFFICES ASSUME i + 1 <= n PROVE Right(y[i + 1], R)
    OBVIOUS
  <2>1. Right(y[i], R) /\ i + 1 \in 1..Len(image)
    BY <1>5
  <2>2. image[i + 1] \in Nat
    BY <2>1
  <2>. QED BY <1>3, <2>1, <2>2, SegmentRight
<1>6. n \in S
  <2>. HIDE DEF S
  <2>. QED BY <1>1, <1>4, <1>5, AllNumbers
<1>. QED BY <1>1, <1>2, <1>6

LEMMA LoadedRight ==
  ASSUME NEW x, NEW R, Mid(x, R), x.ok, Present(x.dir) = {}, NEW image \in Seq(Nat), NEW bad \in 0..(Len(image) + 1)
  PROVE  Right(Loaded(x, image, bad), R)
<1>1. CASE bad # 0
  <2>1. bad - 1 \in 0..Len(image)
    BY <1>1
  <2>2. Right(Segments(x, image, bad - 1), R)
    BY <2>1, SegmentsRight
  <2>. QED BY <1>1, <2>2, RightFail DEF Loaded
<1>2. CASE bad = 0
  <2>1. PICK y : y = Segments(x, image, Len(image))
    OBVIOUS
  <2>2. Right(y, R)
    <3>1. Len(image) \in 0..Len(image)
      OBVIOUS
    <3>. QED BY <2>1, <3>1, SegmentsRight
  <2>3. CASE ~y.ok
    BY <1>2, <2>1, <2>2, <2>3 DEF Loaded, WithStack
  <2>4. CASE y.ok
    <3>1. PICK o, z : o = PGROUNDUP(y.sz) /\ z = allocuvm(y, o, o + 2 * PGSIZE)
      OBVIOUS
    <3>2. y.sz \in 0..KERNBASE /\ KERNBASE \in Nat /\ PGSIZE \in Nat
      BY <2>2, PageCount, PageSize DEF Right, Mid, State
    <3>3. o \in 0..KERNBASE /\ PagesBelow(o) = PagesBelow(y.sz)
      BY <3>1, <3>2, Borders
    <3>4. o \in Nat /\ o <= KERNBASE /\ o + 2 * PGSIZE \in Nat
      BY <3>2, <3>3
    <3>5. Right(z, R)
      <4>1. PICK n \in Nat : n = o + 2 * PGSIZE
        BY <3>4
      <4>. QED BY <2>2, <2>4, <3>1, <3>3, <3>4, <4>1, AllocMid DEF Right
    <3>6. Loaded(x, image, bad) = Guarded(z)
      BY <1>2, <2>1, <2>4, <3>1 DEF Loaded, WithStack
    <3>7. CASE ~z.ok
      BY <3>5, <3>6, <3>7 DEF Guarded
    <3>8. CASE z.ok
      <4>. DEFINE D == [z.dir EXCEPT !.user = @ \ {z.sz \div PGSIZE - 2}]
      <4>1. Guarded(z) = [z EXCEPT !.dir = D]
        BY <3>8 DEF Guarded
      <4>2. State(z)
        BY <3>5 DEF Right, Mid
      <4>3. /\ D \in Dir /\ D.page = z.dir.page /\ D.kern = z.dir.kern /\ D.table = z.dir.table
            /\ D.pte = z.dir.pte
        BY <4>2 DEF State, Dir
      <4>. HIDE DEF D
      <4>4. Has(D) = Has(z.dir) /\ (Distinct(D) <=> Distinct(z.dir)) /\ Present(D) = Present(z.dir)
        BY <4>3 DEF Has, Entries, Distinct, Present
      <4>5. State([z EXCEPT !.dir = D])
        BY <4>2, <4>3 DEF State
      <4>6. LET w == [z EXCEPT !.dir = D] IN w.dir = D /\ w.free = z.free /\ w.sz = z.sz /\ w.ok = z.ok
        BY <4>2 DEF State
      <4>. QED BY <3>5, <3>6, <4>1, <4>4, <4>5, <4>6 DEF Right, Mid
    <3>. QED BY <3>7, <3>8
  <2>. QED BY <2>3, <2>4
<1>. QED BY <1>1, <1>2

(***************************************************************************)
(* The invariant: the pages of the processes are apart, and the others are *)
(* free.                                                                   *)
(***************************************************************************)
Process == [state : {"used"}, dir : Dir, sz : 0..KERNBASE, kstack : Page]

\* The pages of process q, and those of all but slot u.
Holds(q) == IF q = NoProcess THEN {} ELSE Has(q.dir) \cup {q.kstack}
Others(u) == UNION {Holds(proc[w]) : w \in Users \ {u}}
Taken == UNION {Holds(proc[w]) : w \in Users}

Fits(q) == Present(q.dir) = {} \/ Present(q.dir) = PagesBelow(q.sz)
Whole(q) == Distinct(q.dir) /\ q.kstack \notin Has(q.dir) /\ Fits(q)

VmInv ==
  /\ proc \in [Users -> Process \cup {NoProcess}]
  /\ \A u \in Users : proc[u] # NoProcess => Whole(proc[u])
  /\ \A u, w \in Users : u # w => Holds(proc[u]) \cap Holds(proc[w]) = {}
  /\ free = FreeBut(Taken)

\* Process q takes the place of what is in slot u.
Puts(u, q) == free' = FreeBut(Holds(q) \cup Others(u)) /\ proc' = [proc EXCEPT ![u] = q]

LEMMA PutsInv ==
  ASSUME VmInv, NEW u \in Users, NEW q \in Process \cup {NoProcess}, q # NoProcess => Whole(q),
         Holds(q) \cap Others(u) = {}, Puts(u, q)
  PROVE  VmInv'
<1>1. proc \in [Users -> Process \cup {NoProcess}]
  BY DEF VmInv
<1>2. proc' \in [Users -> Process \cup {NoProcess}] /\ proc'[u] = q /\ \A w \in Users \ {u} : proc'[w] = proc[w]
  BY <1>1 DEF Puts
<1>3. ASSUME NEW w \in Users, proc'[w] # NoProcess PROVE Whole(proc'[w])
  BY <1>2, <1>3 DEF VmInv
<1>4. ASSUME NEW v \in Users, NEW w \in Users, v # w PROVE Holds(proc'[v]) \cap Holds(proc'[w]) = {}
  <2>1. \A c \in Users \ {u} : Holds(proc[c]) \subseteq Others(u)
    BY DEF Others
  <2>2. CASE v = u
    BY <1>2, <1>4, <2>1, <2>2
  <2>3. CASE w = u
    BY <1>2, <1>4, <2>1, <2>3
  <2>4. CASE v # u /\ w # u
    BY <1>2, <1>4, <2>4 DEF VmInv
  <2>. QED BY <2>2, <2>3, <2>4
<1>5. Taken' = Holds(q) \cup Others(u)
  <2>1. Taken' = UNION {Holds(proc'[w]) : w \in Users}
    BY DEF Taken, Holds, Has, Entries
  <2>. QED BY <1>2, <2>1 DEF Others
<1>6. free' = FreeBut(Taken')
  BY <1>5 DEF Puts
<1>. QED BY <1>2, <1>3, <1>4, <1>6 DEF VmInv, Whole, Distinct, Fits, Present, Holds, Has, Entries, FreeBut

LEMMA ProcessIs ==
  ASSUME VmInv, NEW u \in Used
  PROVE  /\ u \in Users /\ proc[u] \in Process /\ proc[u] # NoProcess /\ Whole(proc[u])
         /\ Taken = Holds(proc[u]) \cup Others(u) /\ Holds(proc[u]) \cap Others(u) = {}
         /\ Holds(proc[u]) = Has(proc[u].dir) \cup {proc[u].kstack}
<1>1. u \in Users /\ proc[u].state = "used" /\ proc[u] \in Process \cup {NoProcess}
  BY DEF Used, VmInv
<1>2. NoProcess.state = "unused"
  BY DEF NoProcess
<1>3. proc[u] \in Process /\ proc[u] # NoProcess
  BY <1>1, <1>2
<1>4. Taken = Holds(proc[u]) \cup Others(u)
  BY <1>1 DEF Taken, Others
<1>5. Holds(proc[u]) \cap Others(u) = {}
  BY <1>1 DEF VmInv, Others
<1>. QED BY <1>1, <1>3, <1>4, <1>5 DEF VmInv, Holds

\* The beginning of a call on the memory of process u.
LEMMA Beginning ==
  ASSUME VmInv, NEW k \in Int, NEW D, NEW z \in 0..KERNBASE
  PROVE  /\ Begun(Start(free, k, D, z), Taken, k, D, z)
         /\ \A u \in Used : D = proc[u].dir => Mid(Start(free, k, D, z), Others(u) \cup {proc[u].kstack})
<1>. DEFINE x == Start(free, k, D, z)
<1>1. Begun(x, Taken, k, D, z)
  BY DEF Begun, Start, VmInv
<1>2. ASSUME NEW u \in Used, D = proc[u].dir PROVE Mid(x, Others(u) \cup {proc[u].kstack})
  <2>. DEFINE R == Others(u) \cup {proc[u].kstack}
  <2>1. proc[u] \in Process /\ Whole(proc[u]) /\ Taken = Has(D) \cup R /\ Has(D) \cap R = {}
    BY <1>2, ProcessIs DEF Whole
  <2>2. D \in Dir /\ Distinct(D)
    BY <1>2, <2>1 DEF Process, Whole
  <2>3. FreeBut(Taken) \in [Page -> Nat]
    BY DEF FreeBut
  <2>. HIDE DEF x, R
  <2>4. State(x) /\ x.dir = D /\ x.free = FreeBut(Taken)
    BY <1>1, <2>2, <2>3 DEF Begun, State
  <2>. QED BY <2>1, <2>2, <2>4 DEF Mid, R
<1>. QED BY <1>1, <1>2

LEMMA TwoFields ==
  ASSUME VmInv, NEW u \in Users, NEW E, NEW e,
         proc' = [proc EXCEPT ![u].dir = E, ![u].sz = e]
  PROVE  proc' = [proc EXCEPT ![u] = [proc[u] EXCEPT !.dir = E, !.sz = e]]
<1>1. [proc EXCEPT ![u].dir = E] = [proc EXCEPT ![u] = [proc[u] EXCEPT !.dir = E]]
  OBVIOUS
<1>2. PICK g, c : g = [proc EXCEPT ![u] = c] /\ c = [proc[u] EXCEPT !.dir = E]
  OBVIOUS
<1>3. proc' = [g EXCEPT ![u].sz = e]
  BY <1>1, <1>2
<1>4. u \in DOMAIN proc
  BY DEF VmInv
<1>5. g[u] = c
  BY <1>2, <1>4
<1>6. [proc[u] EXCEPT !.dir = E, !.sz = e] = [c EXCEPT !.sz = e]
  BY <1>2
<1>7. proc' = [g EXCEPT ![u] = [c EXCEPT !.sz = e]]
  BY <1>3, <1>5
<1>. QED BY <1>2, <1>6, <1>7

LEMMA SbrkInv ==
  ASSUME VmInv, NEW u \in Users, NEW n \in Grows, NEW k \in Int, Sbrk(u, n, k)
  PROVE  VmInv'
<1>. DEFINE q == proc[u]  sz == q.sz  newsz == (sz + n) % AddressRange  R == Others(u) \cup {q.kstack}
<1>1. u \in Used /\ q.dir.pte[0] # 0
  BY DEF Sbrk, CanCall
<1>2. q \in Process /\ q # NoProcess /\ Whole(q) /\ Has(q.dir) \cap R = {} /\ Holds(q) = Has(q.dir) \cup {q.kstack}
      /\ q.kstack \notin Others(u)
  BY <1>1, ProcessIs DEF Whole
<1>3. sz \in 0..KERNBASE /\ KERNBASE \in Nat /\ q.kstack \in Page /\ q.dir \in Dir
  BY <1>2, PageCount DEF Process
<1>4. sz \in Nat /\ sz <= KERNBASE /\ newsz \in Nat
  <2>1. n \in Int /\ AddressRange \in Nat /\ AddressRange > 0
    BY VmConstants
  <2>2. \A m \in Int : m % AddressRange \in Nat
    BY <2>1
  <2>. QED BY <1>3, <2>1, <2>2
<1>5. Present(q.dir) = PagesBelow(sz)
  BY <1>1, <1>2, Borders DEF Whole, Fits, Present
<1>20. PICK x : x = Start(free, k, q.dir, sz)
  OBVIOUS
<1>6. Mid(x, R) /\ x.ok /\ x.dir = q.dir /\ x.sz = sz
  <2>1. Mid(x, R)
    BY <1>1, <1>3, <1>20, Beginning
  <2>. QED BY <1>20, <2>1 DEF Start
<1>21. PICK y : y = IF n > 0 THEN allocuvm(x, sz, newsz)
                  ELSE IF newsz >= sz THEN x
                  ELSE [deallocuvm(x, sz, newsz) EXCEPT !.sz = newsz]
  OBVIOUS
<1>7. Resize(u, y)
  BY <1>20, <1>21 DEF Sbrk
<1>. DEFINE z == IF y.ok /\ y.sz # 0 THEN y.sz ELSE q.sz
<1>8. /\ Mid(y, R)
      /\ Present(y.dir) = {} \/ Present(y.dir) = PagesBelow(z)
  <2>1. CASE n > 0
    <3>1. y = allocuvm(x, sz, newsz)
      BY <1>21, <2>1
    <3>2. /\ Mid(y, R)
          /\ IF y.ok THEN Present(y.dir) = PagesBelow(y.sz)
             ELSE Present(y.dir) = Present(x.dir) /\ y.sz = x.sz
      <4>. HIDE DEF newsz, sz, R, q
      <4>. QED BY <1>4, <1>5, <1>6, <3>1, AllocMid
    <3>3. y.ok \in BOOLEAN /\ PagesBelow(0) = {}
      BY <3>2, Borders DEF Mid, State
    <3>. QED BY <1>5, <1>6, <3>2, <3>3
  <2>2. CASE ~(n > 0) /\ newsz >= sz
    <3>1. y = x
      BY <1>21, <2>2
    <3>. QED BY <1>5, <1>6, <3>1
  <2>3. CASE ~(n > 0) /\ ~(newsz >= sz)
    <3>1. PICK w : w = deallocuvm(x, sz, newsz)
      OBVIOUS
    <3>2. y = [w EXCEPT !.sz = newsz]
      BY <1>21, <2>3, <3>1
    <3>3. Mid(w, R) /\ w.ok = x.ok /\ Present(w.dir) = Present(x.dir) \ PagesIn(newsz, sz)
      <4>. HIDE DEF newsz, sz, R, q
      <4>1. Mid(x, R)
        BY <1>6
      <4>2. LET d == deallocuvm(x, sz, newsz)
            IN Mid(d, R) /\ d.ok = x.ok /\ Present(d.dir) = Present(x.dir) \ PagesIn(newsz, sz)
        BY <4>1, DeallocMid
      <4>. QED BY <3>1, <4>2
    <3>4. newsz \in 0..KERNBASE
      BY <1>3, <1>4, <2>3
    <3>5. Mid(y, R) /\ y.ok /\ y.dir = w.dir /\ y.sz = newsz
      <4>. HIDE DEF newsz
      <4>. QED BY <1>6, <3>2, <3>3, <3>4 DEF Mid, State
    <3>6. PagesBelow(sz) \ PagesIn(newsz, sz) = PagesBelow(newsz)
      <4>. HIDE DEF newsz
      <4>1. ASSUME NEW v \in VPage PROVE /\ v * PGSIZE < newsz <=> v * PGSIZE < sz /\ ~(PGROUNDUP(newsz) <= v * PGSIZE)
        <5>1. v \in Nat
          BY DEF VPage
        <5>2. v * PGSIZE < newsz <=> v * PGSIZE < PGROUNDUP(newsz)
          BY <3>4, Borders DEF PagesBelow
        <5>3. v * PGSIZE \in Int /\ PGROUNDUP(newsz) \in Int
          <6>1. PGROUNDUP(newsz) \in 0..KERNBASE
            BY <3>4, Borders
          <6>. QED BY <5>1, <6>1, Multiples
        <5>4. newsz < sz
          BY <1>4, <2>3 DEF newsz
        <5>5. PICK e : e = v * PGSIZE
          OBVIOUS
        <5>. QED BY <1>4, <5>2, <5>3, <5>4, <5>5
      <4>. QED BY <4>1 DEF PagesBelow, PagesIn
    <3>7. Present(y.dir) = PagesBelow(newsz)
      BY <1>5, <1>6, <3>3, <3>5, <3>6
    <3>. QED BY <3>5, <3>7, Borders
  <2>. QED BY <2>1, <2>2, <2>3
<1>9. PICK r : r = [q EXCEPT !.dir = y.dir, !.sz = z]
  OBVIOUS
<1>10. State(y) /\ y.dir \in Dir /\ z \in 0..KERNBASE /\ Distinct(y.dir)
  <2>1. State(y) /\ Distinct(y.dir)
    BY <1>8 DEF Mid
  <2>. QED BY <1>3, <2>1 DEF State
<1>11. r \in Process /\ r.dir = y.dir /\ r.sz = z /\ r.kstack = q.kstack
  <2>. HIDE DEF z
  <2>. QED BY <1>2, <1>9, <1>10 DEF Process
<1>12. r # NoProcess
  <2>1. r.state = "used" /\ NoProcess.state = "unused"
    BY <1>11 DEF Process, NoProcess
  <2>. QED BY <2>1
<1>13. Whole(r) /\ Holds(r) = Has(y.dir) \cup {q.kstack} /\ Holds(r) \cap Others(u) = {}
  <2>1. Has(y.dir) \cap R = {}
    BY <1>8 DEF Mid
  <2>. HIDE DEF z
  <2>. QED BY <1>2, <1>8, <1>10, <1>11, <1>12, <2>1 DEF Whole, Fits, Holds
<1>14. Puts(u, r)
  <2>1. free' = y.free /\ y.free = FreeBut(Has(y.dir) \cup R)
    BY <1>7, <1>8 DEF Resize, Mid
  <2>2. Has(y.dir) \cup R = Holds(r) \cup Others(u)
    BY <1>13
  <2>3. proc' = [proc EXCEPT ![u].dir = y.dir, ![u].sz = z]
    BY <1>7 DEF Resize
  <2>4. proc' = [proc EXCEPT ![u] = r]
    <3>. HIDE DEF z
    <3>. QED BY <1>9, <2>3, TwoFields
  <2>. QED BY <2>1, <2>2, <2>4 DEF Puts
<1>. HIDE DEF R, z, q
<1>. QED BY <1>11, <1>12, <1>13, <1>14, PutsInv

LEMMA GiveBack ==
  ASSUME NEW H, NEW x, "free" \in DOMAIN x, x.free = FreeBut(H), NEW a \in Page, a \in H
  PROVE  kfree(x, a).free = FreeBut(H \ {a})
<1>1. kfree(x, a) = [x EXCEPT !.free = [x.free EXCEPT ![a] = @ + 1]]
  BY DEF kfree
<1>2. [x.free EXCEPT ![a] = @ + 1] = FreeBut(H \ {a})
  BY FreeGive
<1>. QED BY <1>1, <1>2

\* When the copy of an address space fails there is nothing of it.
LEMMA CopyMid ==
  ASSUME NEW x, NEW R, Mid(x, R), x.ok, Present(x.dir) = {}, NEW D \in Dir, NEW z \in 0..KERNBASE
  PROVE  LET y == copyuvm(x, D, z)
         IN IF y.ok THEN Mid(y, R) /\ Present(y.dir) = PagesBelow(y.sz)
            ELSE y.free = FreeBut(R) /\ "free" \in DOMAIN y
<1>1. z \in Nat /\ z <= KERNBASE /\ KERNBASE \in Nat
  BY PageCount
<1>2. Rounds(0, z) = Count(z) /\ Count(z) \in Nat /\ Count(z) <= NPDE * NPTE
      /\ PagesBelow(z) = 0..(Count(z) - 1)
  BY <1>1, RoundsIs, CountIs, PageCount, PagesBelowIs
<1>3. PICK m, w : m \in Nat /\ m = Count(z) /\ w = Loop(x, 0, m)
  BY <1>2
<1>4. Mid(w, R) /\ (w.ok => Present(w.dir) = 0..(m - 1))
  <2>1. 0 + m <= NPDE * NPTE /\ Present(x.dir) = 0..(0 - 1) /\ 0 + m - 1 = m - 1
    BY <1>2, <1>3
  <2>2. PICK c \in Nat : c = 0
    OBVIOUS
  <2>3. w = Loop(x, c, m) /\ c + m <= NPDE * NPTE /\ Present(x.dir) = 0..(c - 1) /\ c + m - 1 = m - 1
    BY <1>3, <2>1, <2>2
  <2>4. Mid(w, R) /\ (w.ok => Present(w.dir) = 0..(c + m - 1))
    BY <1>3, <2>3, LoopMid
  <2>. QED BY <2>3, <2>4
<1>5. PICK y : y = copyuvm(x, D, z)
  OBVIOUS
<1>6. y = Copied(w, D, z)
  BY <1>2, <1>3, <1>5 DEF copyuvm
<1>7. CASE w.ok
  <2>. DEFINE E == [w.dir EXCEPT !.user = D.user]
  <2>1. y = [w EXCEPT !.dir = E, !.sz = z]
    BY <1>6, <1>7 DEF Copied
  <2>2. State(w)
    BY <1>4 DEF Mid
  <2>3. /\ E \in Dir /\ E.page = w.dir.page /\ E.kern = w.dir.kern /\ E.table = w.dir.table
        /\ E.pte = w.dir.pte
    BY <2>2 DEF State, Dir
  <2>. HIDE DEF E
  <2>4. Has(E) = Has(w.dir) /\ (Distinct(E) <=> Distinct(w.dir)) /\ Present(E) = Present(w.dir)
    BY <2>3 DEF Has, Entries, Distinct, Present
  <2>5. State(y) /\ y.dir = E /\ y.free = w.free /\ y.sz = z /\ y.ok = w.ok
    BY <2>1, <2>2, <2>3 DEF State
  <2>6. Present(w.dir) = PagesBelow(z)
    BY <1>2, <1>3, <1>4, <1>7
  <2>. QED BY <1>4, <1>5, <1>7, <2>4, <2>5, <2>6 DEF Mid
<1>8. CASE ~w.ok
  <2>1. y = freevm(w)
    BY <1>6, <1>8 DEF Copied
  <2>2. y.free = FreeBut(R) /\ y.ok = w.ok /\ "free" \in DOMAIN y
    BY <1>4, <2>1, FreevmFrees
  <2>. QED BY <1>5, <1>8, <2>2
<1>. QED BY <1>7, <1>8

LEMMA Same ==
  ASSUME VmInv, free' = free, proc' = proc
  PROVE  VmInv'
<1>1. Taken' = UNION {Holds(proc'[w]) : w \in Users}
  BY DEF Taken, Holds, Has, Entries
<1>2. Taken' = Taken
  BY <1>1 DEF Taken
<1>3. free' = FreeBut(Taken')
  BY <1>2 DEF VmInv
<1>4. /\ proc' \in [Users -> Process \cup {NoProcess}]
      /\ \A u \in Users : proc'[u] # NoProcess => Whole(proc'[u])
      /\ \A u, w \in Users : u # w => Holds(proc'[u]) \cap Holds(proc'[w]) = {}
  BY DEF VmInv
<1>. QED BY <1>3, <1>4 DEF VmInv, Whole, Distinct, Fits, Present, Holds, Has, Entries, FreeBut

\* A process in slot c, which was unused.
LEMMA BornInv ==
  ASSUME VmInv, NEW c \in Users \ Used, NEW D \in Dir, NEW z \in 0..KERNBASE, NEW a \in Page, a \notin Taken,
         Distinct(D), Has(D) \cap (Taken \cup {a}) = {}, Present(D) = PagesBelow(z),
         free' = FreeBut(Has(D) \cup (Taken \cup {a})),
         proc' = [proc EXCEPT ![c] = [state |-> "used", dir |-> D, sz |-> z, kstack |-> a]]
  PROVE  VmInv'
<1>1. PICK q : q = [state |-> "used", dir |-> D, sz |-> z, kstack |-> a]
  OBVIOUS
<1>2. q \in Process /\ q.dir = D /\ q.sz = z /\ q.kstack = a
  BY <1>1 DEF Process
<1>3. q # NoProcess
  <2>1. q.state = "used" /\ NoProcess.state = "unused"
    BY <1>1 DEF NoProcess
  <2>. QED BY <2>1
<1>4. proc[c] = NoProcess
  <2>1. proc[c] \in Process \cup {NoProcess} /\ proc[c].state # "used"
    BY DEF VmInv, Used
  <2>. QED BY <2>1 DEF Process
<1>5. Taken = Others(c)
  BY <1>4 DEF Taken, Others, Holds
<1>6. Holds(q) = Has(D) \cup {a} /\ Whole(q)
  BY <1>2, <1>3 DEF Holds, Whole, Fits
<1>7. Puts(c, q) /\ Holds(q) \cap Others(c) = {}
  <2>1. Has(D) \cup (Taken \cup {a}) = Holds(q) \cup Others(c)
    BY <1>5, <1>6
  <2>. QED BY <1>1, <1>5, <1>6, <2>1 DEF Puts
<1>. QED BY <1>2, <1>6, <1>7, PutsInv

LEMMA ForkInv ==
  ASSUME VmInv, NEW u \in Users, NEW c \in Users, NEW k \in Int, Fork(u, c, k)
  PROVE  VmInv'
<1>1. u \in Used /\ c \in Users \ Used
  BY DEF Fork, CanCall
<1>2. PICK D, z : D = proc[u].dir /\ z = proc[u].sz
  OBVIOUS
<1>3. D \in Dir /\ z \in 0..KERNBASE
  BY <1>1, <1>2, ProcessIs DEF Process
<1>4. PICK x, a : x = Start(free, k, D, z) /\ a = kalloc(x)
  OBVIOUS
<1>5. Begun(x, Taken, k, D, z)
  BY <1>3, <1>4, Beginning
<1>6. a = 0 \/ a \in Page \ Taken
  BY <1>4, <1>5, Allocates DEF Begun
<1>7. CASE a = 0
  <2>1. UNCHANGED memoryVars
    BY <1>2, <1>4, <1>7 DEF Fork
  <2>. QED BY <2>1, Same DEF memoryVars
<1>8. CASE a \in Page \ Taken
  <2>1. a # 0 /\ (Taken \cup {a}) \ {a} = Taken
    BY <1>8, VmConstants
  <2>2. PICK R : R = Taken \cup {a}
    OBVIOUS
  <2>3. PICK s, y : s = setupkvm(Took(x, a)) /\ y = CopyDir(s, u)
    OBVIOUS
  <2>4. Born(c, a, y)
    BY <1>2, <1>4, <2>1, <2>3 DEF Fork
  <2>5. IF s.ok THEN Mid(s, R) /\ Present(s.dir) = {}
        ELSE s.ok = FALSE /\ "free" \in DOMAIN s /\ s.free = FreeBut(R)
    <3>1. PICK j \in Int : j = k - 1
      OBVIOUS
    <3>2. Begun(Took(x, a), R, j, D, z)
      BY <1>5, <1>8, <2>2, <3>1, BegunSteps
    <3>. QED BY <1>3, <2>3, <3>2, SetupMid
  <2>6. IF y.ok THEN Mid(y, R) /\ Present(y.dir) = PagesBelow(y.sz)
        ELSE y.free = FreeBut(R) /\ "free" \in DOMAIN y
    <3>1. CASE ~s.ok
      BY <2>3, <2>5, <3>1 DEF CopyDir
    <3>2. CASE s.ok
      <4>1. y = copyuvm(s, D, z)
        BY <1>2, <2>3, <3>2 DEF CopyDir
      <4>. QED BY <1>3, <2>5, <3>2, <4>1, CopyMid
    <3>. QED BY <3>1, <3>2
  <2>7. CASE y.ok
    <3>1. PICK E, e : E = y.dir /\ e = y.sz
      OBVIOUS
    <3>2. /\ E \in Dir /\ e \in 0..KERNBASE /\ Distinct(E) /\ Has(E) \cap (Taken \cup {a}) = {}
          /\ Present(E) = PagesBelow(e) /\ y.free = FreeBut(Has(E) \cup (Taken \cup {a}))
      BY <2>2, <2>6, <2>7, <3>1 DEF Mid, State
    <3>3. /\ free' = FreeBut(Has(E) \cup (Taken \cup {a}))
          /\ proc' = [proc EXCEPT ![c] = [state |-> "used", dir |-> E, sz |-> e, kstack |-> a]]
      BY <2>4, <2>7, <3>1, <3>2 DEF Born
    <3>. QED BY <1>1, <1>8, <3>2, <3>3, BornInv
  <2>8. CASE ~y.ok
    <3>1. free' = kfree(y, a).free /\ proc' = proc
      BY <2>4, <2>8 DEF Born
    <3>2. kfree(y, a).free = FreeBut(R \ {a})
      BY <1>8, <2>2, <2>6, <2>8, GiveBack
    <3>. QED BY <2>1, <2>2, <3>1, <3>2, Same DEF VmInv
  <2>. QED BY <2>7, <2>8
<1>. QED BY <1>6, <1>7, <1>8

LEMMA ExecInv ==
  ASSUME VmInv, NEW u \in Users, NEW image \in Images, NEW bad \in 0..(Len(image) + 1), NEW k \in Int,
         Exec(u, image, bad, k)
  PROVE  VmInv'
<1>1. u \in Used /\ image \in Seq(Nat) /\ 0 \in 0..KERNBASE
  BY VmConstants, Borders DEF Exec, CanCall
<1>2. PICK q, R : q = proc[u] /\ R = Others(u) \cup {q.kstack}
  OBVIOUS
<1>3. /\ q \in Process /\ q # NoProcess /\ Whole(q) /\ Taken = Has(q.dir) \cup R /\ Has(q.dir) \cap R = {}
      /\ q.kstack \notin Others(u)
  BY <1>1, <1>2, ProcessIs DEF Whole
<1>4. PICK s, x : s = Start(free, k, q.dir, 0) /\ x = setupkvm(s)
  OBVIOUS
<1>5. Begun(s, Taken, k, q.dir, 0)
  BY <1>1, <1>4, Beginning
<1>6. IF x.ok THEN Mid(x, Taken) /\ Present(x.dir) = {}
      ELSE x.ok = FALSE /\ "free" \in DOMAIN x /\ x.free = FreeBut(Taken)
  BY <1>1, <1>4, <1>5, SetupMid
<1>7. CASE ~x.ok
  <2>1. free' = x.free /\ proc' = proc
    BY <1>2, <1>4, <1>7 DEF Exec
  <2>. QED BY <1>6, <1>7, <2>1, Same DEF VmInv
<1>8. CASE x.ok
  <2>1. PICK y : y = Loaded(x, image, bad)
    OBVIOUS
  <2>2. Right(y, Taken)
    BY <1>1, <1>6, <1>8, <2>1, LoadedRight
  <2>3. Replace(u, y)
    BY <1>2, <1>4, <1>8, <2>1 DEF Exec
  <2>4. CASE ~y.ok
    <3>1. free' = freevm(y).free /\ proc' = proc
      BY <2>3, <2>4 DEF Replace
    <3>2. freevm(y).free = FreeBut(Taken)
      BY <2>2, FreevmFrees DEF Right
    <3>. QED BY <3>1, <3>2, Same DEF VmInv
  <2>5. CASE y.ok
    <3>1. PICK E, e, C : E = y.dir /\ e = y.sz /\ C = q.dir
      OBVIOUS
    <3>2. /\ Mid(y, Taken) /\ State(y) /\ E \in Dir /\ e \in 0..KERNBASE /\ Distinct(E) /\ Has(E) \cap Taken = {}
          /\ Present(E) = PagesBelow(e) /\ y.free = FreeBut(Has(E) \cup Taken)
      BY <2>2, <2>5, <3>1 DEF Right, Mid, State
    <3>3. C \in Dir /\ Distinct(C)
      BY <1>3, <3>1 DEF Process, Whole
    <3>4. PICK w, G : w = [y EXCEPT !.dir = C] /\ G = R \cup Has(E)
      OBVIOUS
    <3>5. State(w) /\ w.dir = C /\ w.free = y.free
      BY <3>2, <3>3, <3>4 DEF State
    <3>6. Mid(w, G)
      <4>1. Has(E) \cup Taken = Has(C) \cup G /\ Has(C) \cap G = {}
        BY <1>3, <3>1, <3>2, <3>4
      <4>. QED BY <3>2, <3>3, <3>5, <4>1 DEF Mid
    <3>7. free' = freevm(w).free /\ proc' = [proc EXCEPT ![u].dir = E, ![u].sz = e]
      BY <1>2, <2>3, <2>5, <3>1, <3>4 DEF Replace
    <3>8. free' = FreeBut(G)
      BY <3>6, <3>7, FreevmFrees
    <3>9. PICK r : r = [q EXCEPT !.dir = E, !.sz = e]
      OBVIOUS
    <3>10. proc' = [proc EXCEPT ![u] = r]
      BY <1>2, <3>7, <3>9, TwoFields
    <3>11. r \in Process /\ r.dir = E /\ r.sz = e /\ r.kstack = q.kstack
      BY <1>3, <3>2, <3>9 DEF Process
    <3>12. r # NoProcess
      <4>1. r.state = "used" /\ NoProcess.state = "unused"
        BY <3>11 DEF Process, NoProcess
      <4>. QED BY <4>1
    <3>13. Holds(r) = Has(E) \cup {q.kstack} /\ Whole(r) /\ Holds(r) \cap Others(u) = {}
      BY <1>2, <1>3, <3>2, <3>11, <3>12 DEF Holds, Whole, Fits
    <3>14. Puts(u, r)
      <4>1. G = Holds(r) \cup Others(u)
        BY <1>2, <3>4, <3>13
      <4>. QED BY <3>8, <3>10, <4>1 DEF Puts
    <3>. QED BY <3>11, <3>13, <3>14, PutsInv
  <2>. QED BY <2>4, <2>5
<1>. QED BY <1>7, <1>8

LEMMA ExitWaitInv ==
  ASSUME VmInv, NEW u \in Users, ExitWait(u)
  PROVE  VmInv'
<1>1. u \in Used /\ 0 \in 0..KERNBASE /\ 0 \in Int
  BY Borders DEF ExitWait
<1>2. PICK q, R : q = proc[u] /\ R = Others(u) \cup {q.kstack}
  OBVIOUS
<1>3. q \in Process /\ q.kstack \in Page /\ q.kstack \notin Others(u)
  BY <1>1, <1>2, ProcessIs DEF Process
<1>4. PICK x, y : x = Start(free, 0, q.dir, 0) /\ y = freevm(x)
  OBVIOUS
<1>5. Mid(x, R)
  BY <1>1, <1>2, <1>4, Beginning
<1>6. y.free = FreeBut(R) /\ "free" \in DOMAIN y
  BY <1>4, <1>5, FreevmFrees
<1>7. free' = kfree(y, q.kstack).free /\ proc' = [proc EXCEPT ![u] = NoProcess]
  BY <1>2, <1>4 DEF ExitWait
<1>8. kfree(y, q.kstack).free = FreeBut(R \ {q.kstack})
  BY <1>2, <1>3, <1>6, GiveBack
<1>9. R \ {q.kstack} = Others(u) /\ Holds(NoProcess) = {}
  BY <1>2, <1>3 DEF Holds
<1>10. Puts(u, NoProcess)
  BY <1>7, <1>8, <1>9 DEF Puts
<1>. QED BY <1>9, <1>10, PutsInv

\* userinit finds the pages it needs.
LEMMA VmInitInv ==
  ASSUME VmInit
  PROVE  VmInv
<1>. PICK n, x, a, s, y :
       /\ n = Cardinality(Page) /\ x = Start([b \in Page |-> 1], n, 0, 0) /\ a = kalloc(x)
       /\ s = setupkvm(Took(x, a)) /\ y = Another(s, 0)
  OBVIOUS
<1>1. /\ free = y.free
      /\ proc = [u \in Users |-> IF u # First THEN NoProcess
                                 ELSE [state |-> "used", dir |-> y.dir, sz |-> PGSIZE, kstack |-> a]]
  BY DEF VmInit
<1>2. n \in Int /\ n >= 5 /\ IsFiniteSet(Page) /\ 0 \notin Page /\ First \in Users
  <2>1. Users # {} /\ IsFiniteSet(Page) /\ Cardinality(Page) >= 5 /\ 0 \notin Page
    BY VmConstants
  <2>2. Cardinality(Page) \in Nat
    BY <2>1, FS_CardinalityType
  <2>. QED BY <2>1, <2>2 DEF First
<1>3. ASSUME NEW b, NEW c PROVE ~(Page \subseteq {b, c})
  <2>1. IsFiniteSet({b, c}) /\ Cardinality({b, c}) <= 2
    <3>1. IsFiniteSet({}) /\ Cardinality({}) = 0
      BY FS_EmptySet
    <3>2. IsFiniteSet({b}) /\ Cardinality({b}) = 1
      BY FS_Singleton
    <3>3. IsFiniteSet({b} \cup {c}) /\ Cardinality({b} \cup {c}) = IF c \in {b} THEN Cardinality({b}) ELSE Cardinality({b}) + 1
      BY <3>2, FS_AddElement
    <3>4. {b} \cup {c} = {b, c}
      OBVIOUS
    <3>. QED BY <3>2, <3>3, <3>4
  <2>2. Cardinality({b, c}) \in Nat
    BY <2>1, FS_CardinalityType
  <2>. SUFFICES ASSUME Page \subseteq {b, c} PROVE FALSE
    OBVIOUS
  <2>3. Cardinality(Page) <= Cardinality({b, c})
    BY <2>1, FS_Subset
  <2>. QED BY <1>2, <2>1, <2>2, <2>3
<1>4. Begun(x, {}, n, 0, 0)
  <2>1. [b \in Page |-> 1] = FreeBut({})
    BY DEF FreeBut
  <2>. QED BY <2>1 DEF Begun, Start
<1>5. a \in Page
  <2>1. ~(Page \subseteq {})
    BY <1>3
  <2>. QED BY <1>2, <1>4, <2>1, Allocates DEF Begun
<1>6. PICK j \in Int : j = n - 1
  BY <1>2
<1>. PICK R : R = {a}
  OBVIOUS
<1>7. Begun(Took(x, a), R, j, 0, 0)
  <2>1. Begun(Took(x, a), {} \cup {a}, n - 1, 0, 0)
    BY <1>2, <1>4, <1>5, BegunSteps
  <2>. QED BY <1>6, <2>1
<1>8. Mid(s, R) /\ Present(s.dir) = {}
  <2>1. IF s.ok THEN Mid(s, R) /\ Present(s.dir) = {}
        ELSE j = 0 \/ j = 1 \/ \E c : Page \subseteq R \cup {c}
    <3>1. PICK D, z : D = 0 /\ z = 0 /\ z \in 0..KERNBASE /\ Begun(Took(x, a), R, j, D, z)
      BY <1>7, Borders
    <3>. QED BY <3>1, SetupMid
  <2>2. j # 0 /\ j # 1
    BY <1>2, <1>6
  <2>3. \A c : ~(Page \subseteq R \cup {c})
    <3>. SUFFICES ASSUME NEW c PROVE ~(Page \subseteq R \cup {c})
      OBVIOUS
    <3>1. R \cup {c} = {a, c}
      OBVIOUS
    <3>. QED BY <1>3, <3>1
  <2>. QED BY <1>3, <2>1, <2>2, <2>3
<1>9. Mid(y, R) /\ (Present(y.dir) = {} \/ Present(y.dir) = PagesBelow(PGSIZE))
  <2>1. s.dir.pte[0] = 0
    BY <1>8, Borders DEF Present
  <2>2. Mid(y, R) /\ Present(y.dir) = IF y.ok THEN Present(s.dir) \cup {0} ELSE Present(s.dir)
    BY <1>8, <2>1, Borders, AnotherMid
  <2>. QED BY <1>8, <2>2, Borders
<1>10. PICK q : q = [state |-> "used", dir |-> y.dir, sz |-> PGSIZE, kstack |-> a]
  OBVIOUS
<1>11. State(y) /\ y.dir \in Dir /\ Distinct(y.dir) /\ Has(y.dir) \cap R = {} /\ y.free = FreeBut(Has(y.dir) \cup R)
  BY <1>9 DEF Mid, State
<1>12. q \in Process /\ q.dir = y.dir /\ q.sz = PGSIZE /\ q.kstack = a
  BY <1>5, <1>10, <1>11, Borders DEF Process
<1>13. q # NoProcess
  <2>1. q.state = "used" /\ NoProcess.state = "unused"
    BY <1>10 DEF NoProcess
  <2>. QED BY <2>1
<1>14. Whole(q) /\ Holds(q) = Has(y.dir) \cup R /\ Holds(NoProcess) = {}
  BY <1>6, <1>9, <1>11, <1>12, <1>13 DEF Whole, Fits, Holds
<1>15. \A u \in Users : proc[u] = IF u = First THEN q ELSE NoProcess
  BY <1>1, <1>10
<1>16. proc \in [Users -> Process \cup {NoProcess}]
  BY <1>1, <1>10, <1>12
<1>17. Taken = Holds(q)
  BY <1>2, <1>14, <1>15 DEF Taken
<1>. QED BY <1>1, <1>11, <1>14, <1>15, <1>16, <1>17 DEF VmInv

\* The pages of the processes are apart, the others are free, and what is mapped fits the sizes.
THEOREM MemoryInvariant == VmSpec => []VmInv
<1>1. VmInv /\ [VmNext]_memoryVars => VmInv'
  <2>. SUFFICES ASSUME VmInv, [VmNext]_memoryVars PROVE VmInv'
    OBVIOUS
  <2>1. ASSUME NEW u \in Users, ExitWait(u) PROVE VmInv'
    BY <2>1, ExitWaitInv
  <2>2. ASSUME NEW u \in Users, NEW k \in 0..Cardinality({a \in Page : free[a] > 0}),
               \/ \E n \in Grows : Sbrk(u, n, k)
               \/ \E c \in Users : Fork(u, c, k)
               \/ \E image \in Images : \E bad \in 0..(Len(image) + 1) : Exec(u, image, bad, k)
        PROVE  VmInv'
    <3>1. k \in Int
      OBVIOUS
    <3>. QED BY <2>2, <3>1, SbrkInv, ForkInv, ExecInv
  <2>3. CASE UNCHANGED memoryVars
    BY <2>3, Same DEF memoryVars
  <2>. QED BY <2>1, <2>2, <2>3 DEF VmNext
<1>. QED BY <1>1, VmInitInv, PTL DEF VmSpec

LEMMA ThingsAre ==
  ASSUME NEW t \in Things
  PROVE  \/ t = <<"stack", 0>> /\ \A q : PageOf(q, t) = q.kstack
         \/ t = <<"page", 0>> /\ \A q : PageOf(q, t) = q.dir.page
         \/ t = <<"kern", 0>> /\ \A q : PageOf(q, t) = q.dir.kern
         \/ \E i \in Tables : t = <<"table", i>> /\ \A q : PageOf(q, t) = q.dir.table[i]
         \/ \E v \in VPage : t = <<"pte", v>> /\ \A q : PageOf(q, t) = q.dir.pte[v]
<1>1. CASE t = <<"stack", 0>>
  BY <1>1 DEF PageOf
<1>2. CASE t = <<"page", 0>>
  BY <1>2 DEF PageOf
<1>3. CASE t = <<"kern", 0>>
  BY <1>3 DEF PageOf
<1>4. ASSUME NEW i \in Tables, t = <<"table", i>> PROVE \A q : PageOf(q, t) = q.dir.table[i]
  BY <1>4 DEF PageOf
<1>5. ASSUME NEW v \in VPage, t = <<"pte", v>> PROVE \A q : PageOf(q, t) = q.dir.pte[v]
  BY <1>5 DEF PageOf
<1>6. \/ t = <<"stack", 0>> \/ t = <<"page", 0>> \/ t = <<"kern", 0>>
      \/ \E i \in Tables : t = <<"table", i>>
      \/ \E v \in VPage : t = <<"pte", v>>
  BY DEF Things
<1>. QED BY <1>1, <1>2, <1>3, <1>4, <1>5, <1>6

\* A process has a page for one thing only, and has no others than those of its things.
LEMMA OneThing ==
  ASSUME NEW q \in Process, Whole(q), q # NoProcess, NEW a \in Page
  PROVE  /\ \A t, s \in Things : PageOf(q, t) = a /\ PageOf(q, s) = a => t = s
         /\ (\E t \in Things : PageOf(q, t) = a) <=> a \in Holds(q)
<1>1. /\ Distinct(q.dir) /\ q.kstack \notin Has(q.dir) /\ a # 0
      /\ Holds(q) = {q.kstack, q.dir.page, q.dir.kern} \cup (Entries(q.dir) \ {0})
  BY VmConstants DEF Whole, Holds, Has
<1>2. /\ q.kstack # q.dir.page /\ q.kstack # q.dir.kern /\ (a = q.kstack => a \notin Entries(q.dir))
      /\ q.dir.page # q.dir.kern
      /\ a \in {q.dir.page, q.dir.kern} => a \notin Entries(q.dir)
  BY <1>1 DEF Has, Distinct
<1>3. /\ \A i \in Tables : q.dir.table[i] \in Entries(q.dir)
      /\ \A v \in VPage : q.dir.pte[v] \in Entries(q.dir)
      /\ a \in Entries(q.dir) => (\E i \in Tables : q.dir.table[i] = a) \/ \E v \in VPage : q.dir.pte[v] = a
  BY DEF Entries
<1>4. /\ \A i, j \in Tables : q.dir.table[i] = a /\ q.dir.table[j] = a => i = j
      /\ \A v, w \in VPage : q.dir.pte[v] = a /\ q.dir.pte[w] = a => v = w
      /\ \A i \in Tables, v \in VPage : ~(q.dir.table[i] = a /\ q.dir.pte[v] = a)
  BY <1>1 DEF Distinct
<1>5. ASSUME NEW t \in Things, NEW s \in Things, PageOf(q, t) = a, PageOf(q, s) = a PROVE t = s
  <2>1. CASE a = q.kstack
    BY <1>2, <1>3, <1>5, <2>1, ThingsAre
  <2>2. CASE a = q.dir.page
    BY <1>2, <1>3, <1>5, <2>2, ThingsAre
  <2>3. CASE a = q.dir.kern
    BY <1>2, <1>3, <1>5, <2>3, ThingsAre
  <2>4. CASE a # q.kstack /\ a # q.dir.page /\ a # q.dir.kern
    <3>1. \/ \E i \in Tables : t = <<"table", i>> /\ q.dir.table[i] = a
          \/ \E v \in VPage : t = <<"pte", v>> /\ q.dir.pte[v] = a
      BY <1>5, <2>4, ThingsAre
    <3>2. \/ \E i \in Tables : s = <<"table", i>> /\ q.dir.table[i] = a
          \/ \E v \in VPage : s = <<"pte", v>> /\ q.dir.pte[v] = a
      BY <1>5, <2>4, ThingsAre
    <3>. QED BY <1>4, <3>1, <3>2
  <2>. QED BY <2>1, <2>2, <2>3, <2>4
<1>6. ASSUME NEW t \in Things, PageOf(q, t) = a PROVE a \in Holds(q)
  BY <1>1, <1>3, <1>6, ThingsAre
<1>7. ASSUME a \in Holds(q) PROVE \E t \in Things : PageOf(q, t) = a
  <2>1. CASE a = q.kstack
    <3>1. <<"stack", 0>> \in Things /\ PageOf(q, <<"stack", 0>>) = a
      BY <2>1 DEF Things, PageOf
    <3>. QED BY <3>1
  <2>2. CASE a = q.dir.page
    <3>1. <<"page", 0>> \in Things /\ PageOf(q, <<"page", 0>>) = a
      BY <2>2 DEF Things, PageOf
    <3>. QED BY <3>1
  <2>3. CASE a = q.dir.kern
    <3>1. <<"kern", 0>> \in Things /\ PageOf(q, <<"kern", 0>>) = a
      BY <2>3 DEF Things, PageOf
    <3>. QED BY <3>1
  <2>4. ASSUME NEW i \in Tables, q.dir.table[i] = a PROVE \E t \in Things : PageOf(q, t) = a
    <3>1. <<"table", i>> \in Things /\ PageOf(q, <<"table", i>>) = a
      BY <2>4 DEF Things, PageOf
    <3>. QED BY <3>1
  <2>5. ASSUME NEW v \in VPage, q.dir.pte[v] = a PROVE \E t \in Things : PageOf(q, t) = a
    <3>1. <<"pte", v>> \in Things /\ PageOf(q, <<"pte", v>>) = a
      BY <2>5 DEF Things, PageOf
    <3>. QED BY <3>1
  <2>. QED BY <1>1, <1>3, <1>7, <2>1, <2>2, <2>3, <2>4, <2>5
<1>. QED BY <1>5, <1>6, <1>7

\* Wherever a call runs out of memory no page is lost or owned twice, and exactly the pages below
\* the size of a process are mapped: of run Units, for every memory, page table and program.
THEOREM MemoryIsSound == VmSpec => []MemorySound
<1>1. VmInv => MemorySound
  <2>. SUFFICES ASSUME VmInv PROVE MemorySound
    OBVIOUS
  <2>1. ASSUME NEW a \in Page PROVE free[a] + Cardinality({h \in Owned : h[3] = a}) = 1
    <3>1. ASSUME NEW u \in Used
          PROVE  /\ \A t, s \in Things : PageOf(proc[u], t) = a /\ PageOf(proc[u], s) = a => t = s
                 /\ (\E t \in Things : PageOf(proc[u], t) = a) <=> a \in Holds(proc[u])
      <4>1. proc[u] \in Process /\ Whole(proc[u]) /\ proc[u] # NoProcess
        BY ProcessIs
      <4>. QED BY <4>1, OneThing
    <3>2. \A u \in Users : a \in Holds(proc[u]) => u \in Used
      BY DEF VmInv, Used, Holds, Process
    <3>3. free[a] = IF a \in Taken THEN 0 ELSE 1
      BY DEF VmInv, FreeBut
    <3>4. CASE a \in Taken
      <4>1. PICK u \in Used : a \in Holds(proc[u])
        BY <3>2, <3>4 DEF Taken
      <4>2. PICK t \in Things : PageOf(proc[u], t) = a
        BY <3>1, <4>1
      <4>3. ASSUME NEW w \in Used, NEW s \in Things, PageOf(proc[w], s) = a PROVE w = u /\ s = t
        <5>1. a \in Holds(proc[w])
          BY <3>1, <4>3
        <5>2. w = u
          BY <4>1, <5>1 DEF VmInv, Used
        <5>. QED BY <3>1, <4>2, <4>3, <5>2
      <4>4. {h \in Owned : h[3] = a} = {<<u, t, a>>}
        BY <4>2, <4>3 DEF Owned
      <4>5. Cardinality({h \in Owned : h[3] = a}) = 1
        BY <4>4, FS_Singleton
      <4>. QED BY <3>3, <3>4, <4>5
    <3>5. CASE a \notin Taken
      <4>1. \A u \in Used : a \notin Holds(proc[u])
        BY <3>5 DEF Taken, Used
      <4>2. {h \in Owned : h[3] = a} = {}
        BY <3>1, <4>1 DEF Owned
      <4>3. Cardinality({h \in Owned : h[3] = a}) = 0
        BY <4>2, FS_EmptySet
      <4>. QED BY <3>3, <3>5, <4>3
    <3>. QED BY <3>4, <3>5
  <2>2. ASSUME NEW u \in Used
        PROVE  LET mapped == {v \in VPage : proc[u].dir.pte[v] # 0}
               IN mapped = {} \/ mapped = {v \in VPage : v * PGSIZE < proc[u].sz}
    BY ProcessIs DEF Whole, Fits, Present, PagesBelow
  <2>. QED BY <2>1, <2>2 DEF MemorySound, PagesOwned, SizeMapped
<1>. QED BY <1>1, MemoryInvariant, PTL

=============================================================================

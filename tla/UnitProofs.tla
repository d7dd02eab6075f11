------------------------------ MODULE UnitProofs ------------------------------
(***************************************************************************)
(* Proofs about four components of Units.  The table scan of the MLFQ      *)
(* scheduler chooses the preferred RUNNABLE process, for every size and    *)
(* every content of the process table; the inductive invariant is          *)
(* BestSoFar.  The console input does what Terminal promises, for every    *)
(* number of readers, every alphabet and every size of the ring and of its *)
(* indices.  The buffer cache and the disk driver implement the store of   *)
(* blocks that BlockStore promises, for every set of clients, blocks and   *)
(* values and every number of buffers; the inductive invariant is DiskInv. *)
(* Spin locks exclude, interrupts are off exactly where they must be and   *)
(* no check of spinlock.c or sched() fails, for every number of CPUs,      *)
(* processes and locks and every nesting of handlers; the inductive        *)
(* invariant is SpinInv.                                                   *)
(***************************************************************************)
EXTENDS MlfqPick, Console, Disk, Spinlock, FiniteSetTheorems, SequenceTheorems, TLAPS

(***************************************************************************)
(* The table scan                                                          *)
(***************************************************************************)
\* The keys the order compares are integers.
LEMMA KeysAreIntegers ==
  ASSUME TypeOK, NEW a \in Proc
  PROVE  q_lv[a] \in Int /\ priority[a] \in Int /\ time[a] \in Int /\ a \in Int
<1>1. q_lv[a] \in Level /\ priority[a] \in 0..MaxPriority /\ time[a] \in -1..MaxTicks
  BY DEF TypeOK
<1>. QED BY <1>1, PickConstants DEF Level, Proc

\* Of two different slots one is preferred.
LEMMA PreferredTotal ==
  ASSUME TypeOK, NEW a \in Proc, NEW b \in Proc, a # b
  PROVE  Better(a, b) \/ Better(b, a)
BY KeysAreIntegers DEF Better, Preferred

\* The preference is transitive.
LEMMA PreferredTransitive ==
  ASSUME TypeOK, NEW a \in Proc, NEW b \in Proc, NEW c \in Proc,
         Better(a, b), Better(b, c)
  PROVE  Better(a, c)
BY KeysAreIntegers DEF Better, Preferred

\* The comparisons of the loop body replace running_p by an as good or
\* better later slot, and keep it when it is the better one.
LEMMA ReplacesIsBetter ==
  ASSUME TypeOK, p \in Proc, running_p \in Proc, running_p < p, chk = 1
  PROVE  IF Replaces THEN Better(p, running_p) ELSE Better(running_p, p)
BY KeysAreIntegers DEF Better, Preferred, Replaces

\* Every variable of the scan keeps its type.
THEOREM PickType == Spec => []TypeOK
<1>1. Init => TypeOK
  BY PickConstants DEF Init, TypeOK, Proc
<1>2. TypeOK /\ [ScanSlot]_vars => TypeOK'
  <2>1. ASSUME TypeOK, ScanSlot PROVE TypeOK'
    <3>1. p \in 1..NPROC /\ p' = p + 1 /\ UNCHANGED <<runnable, q_lv, priority, time>>
      BY <2>1 DEF ScanSlot, table, Proc
    <3>2. p' \in 1..(NPROC + 1)
      BY <3>1, PickConstants
    <3>3. running_p' \in Proc \union {NULL} /\ chk' \in {0, 1}
      BY <2>1 DEF TypeOK, ScanSlot
    <3>. QED BY <2>1, <3>1, <3>2, <3>3 DEF TypeOK
  <2>2. TypeOK /\ UNCHANGED vars => TypeOK'
    BY DEF TypeOK, vars, table
  <2>. QED BY <2>1, <2>2
<1>. QED BY <1>1, <1>2, PTL DEF Spec

\* One iteration keeps the loop invariant.
LEMMA ScanKeepsBest ==
  ASSUME TypeOK, BestSoFar, ScanSlot
  PROVE  BestSoFar'
<1>1. /\ p \in Proc /\ p \in Int /\ p' = p + 1
      /\ runnable' = runnable /\ q_lv' = q_lv
      /\ priority' = priority /\ time' = time
  BY PickConstants DEF ScanSlot, table, Proc
<1>2. \A b \in runnable : b \in Proc /\ b \in Int
  BY PickConstants DEF TypeOK, Proc
<1>3. chk \in {0, 1}
  BY DEF TypeOK
<1>4. BestSoFar' <=>
        /\ chk' = 0 => \A b \in runnable : b >= p + 1
        /\ chk' = 1 => /\ running_p' \in runnable /\ running_p' < p + 1
                       /\ \A b \in runnable :
                            b < p + 1 => b = running_p' \/ Better(running_p', b)
  BY <1>1 DEF BestSoFar, Better
<1>5. CASE p \notin runnable
  <2>1. running_p' = running_p /\ chk' = chk
    BY <1>5 DEF ScanSlot
  <2>2. \A b \in runnable : b < p + 1 <=> b < p
    BY <1>1, <1>2, <1>5
  <2>3. running_p \in runnable /\ running_p < p => running_p < p + 1
    BY <2>2
  <2>4. \A b \in runnable : b >= p => b >= p + 1
    BY <1>1, <1>2, <1>5
  <2>. QED BY <1>4, <2>1, <2>2, <2>3, <2>4 DEF BestSoFar
<1>6. CASE p \in runnable /\ Replaces
  <2>1. running_p' = p /\ chk' = 1
    BY <1>6 DEF ScanSlot
  <2>2. ASSUME NEW b \in runnable, b < p + 1, b # p PROVE Better(p, b)
    <3>1. b < p /\ b \in Proc
      BY <1>1, <1>2, <2>2
    <3>2. chk = 1
      BY <1>1, <1>2, <1>3, <3>1 DEF BestSoFar
    <3>3. running_p \in Proc /\ running_p < p
      BY <1>2, <3>2 DEF BestSoFar
    <3>4. Better(p, running_p)
      BY <1>1, <1>6, <3>2, <3>3, ReplacesIsBetter
    <3>5. b = running_p \/ Better(running_p, b)
      BY <3>1, <3>2 DEF BestSoFar
    <3>. QED BY <1>1, <3>1, <3>3, <3>4, <3>5, PreferredTransitive
  <2>. QED BY <1>1, <1>4, <1>6, <2>1, <2>2
<1>7. CASE p \in runnable /\ ~Replaces
  <2>1. running_p' = running_p /\ chk' = chk
    BY <1>7 DEF ScanSlot
  <2>2. chk = 1
    BY <1>3, <1>7 DEF Replaces
  <2>3. running_p \in Proc /\ running_p \in Int /\ running_p < p
    BY <1>2, <2>2 DEF BestSoFar
  <2>4. Better(running_p, p)
    BY <1>1, <1>7, <2>2, <2>3, ReplacesIsBetter
  <2>5. \A b \in runnable : b < p + 1 => b < p \/ b = p
    BY <1>1, <1>2
  <2>6. running_p < p + 1
    BY <1>1, <2>3
  <2>. QED BY <1>4, <2>1, <2>2, <2>4, <2>5, <2>6 DEF BestSoFar
<1>. QED BY <1>5, <1>6, <1>7

\* When the scan is over it has chosen the process that is preferred to every
\* other RUNNABLE one, or none if none is RUNNABLE.
THEOREM PickCorrect == Spec => []ScanPicksBest
<1>1. Init => BestSoFar
  BY PickConstants DEF Init, BestSoFar, Proc
<1>2. TypeOK /\ BestSoFar /\ [ScanSlot]_vars => BestSoFar'
  <2>1. TypeOK /\ BestSoFar /\ UNCHANGED vars => BestSoFar'
    BY DEF vars, table, BestSoFar, Better
  <2>. QED BY <2>1, ScanKeepsBest
<1>3. TypeOK /\ BestSoFar => ScanPicksBest
  <2>1. TypeOK /\ p = NPROC + 1 => \A b \in runnable : b < p /\ ~(b >= p)
    BY PickConstants DEF TypeOK, Proc
  <2>2. TypeOK => chk = 0 \/ chk = 1
    BY DEF TypeOK
  <2>. QED BY <2>1, <2>2 DEF BestSoFar, ScanPicksBest
<1>. QED BY <1>1, <1>2, <1>3, PickType, PTL DEF Spec

(***************************************************************************)
(* The console: its texts                                                  *)
(***************************************************************************)
Index == 0..UINT - 1
Cells == Char \union {Null}
IsBuf(b) == b \in [0..INPUT_BUF - 1 -> Cells]
Plus(i, k) == (i + k) % UINT
\* The cells of a ring b from index i up to index j, as the text they hold.
Cell(b, i, k) == b[Plus(i, k) % INPUT_BUF]
Text(b, i, j) == [k \in 1..Minus(j, i) |-> Cell(b, i, k - 1)]

(***************************************************************************)
(* Arithmetic of the indices                                               *)
(***************************************************************************)
\* The remainder of a number that is at most one range away.
LEMMA ModNear ==
  ASSUME NEW U \in Nat \ {0}, NEW x \in Int, -U <= x, x < 2 * U
  PROVE  x % U = IF x < 0 THEN x + U ELSE IF x < U THEN x ELSE x - U
<1>1. PICK d \in Int, m \in 0..U - 1 : x = U * d + m /\ m = x % U
  OBVIOUS
<1>2. CASE x < 0
  <2>1. d < 0 /\ d > -2 BY <1>1, <1>2
  <2>. QED BY <1>1, <1>2, <2>1
<1>3. CASE x >= 0 /\ x < U
  <2>1. d < 1 /\ d > -1 BY <1>1, <1>3
  <2>. QED BY <1>1, <1>3, <2>1
<1>4. CASE x >= U
  <2>1. d < 2 /\ d > 0 BY <1>1, <1>4
  <2>. QED BY <1>1, <1>4, <2>1
<1>. QED BY <1>2, <1>3, <1>4

\* The distance of two indices.
LEMMA MinusIs ==
  ASSUME ConsoleConstants, NEW i \in Index, NEW j \in Index
  PROVE  Minus(j, i) \in Index /\ Minus(j, i) = IF j >= i THEN j - i ELSE j - i + UINT
<1>1. UINT \in Nat \ {0}
  BY DEF ConsoleConstants
<1>2. j - i \in Int /\ -UINT <= j - i /\ j - i < 2 * UINT
  BY <1>1 DEF Index
<1>3. (j - i) % UINT = IF j - i < 0 THEN j - i + UINT ELSE IF j - i < UINT THEN j - i ELSE j - i - UINT
  BY ONLY <1>1, <1>2, ModNear
<1>. QED BY <1>1, <1>2, <1>3 DEF Index, Minus

\* The index that is some cells further.
LEMMA PlusIs ==
  ASSUME ConsoleConstants, NEW i \in Index, NEW k \in 0..UINT
  PROVE  Plus(i, k) \in Index /\ Plus(i, k) = IF i + k < UINT THEN i + k ELSE i + k - UINT
<1>1. UINT \in Nat \ {0}
  BY DEF ConsoleConstants
<1>2. PICK x \in Int : x = i + k /\ 0 <= x /\ -UINT <= x /\ x < 2 * UINT
  BY <1>1 DEF Index
<1>3. x % UINT = IF x < 0 THEN x + UINT ELSE IF x < UINT THEN x ELSE x - UINT
  BY ONLY <1>1, <1>2, ModNear
<1>. QED BY <1>1, <1>2, <1>3 DEF Index, Plus

\* Indices are numbers.
LEMMA IndexIs ==
  ASSUME ConsoleConstants, NEW k \in Index
  PROVE  UINT \in Nat \ {0} /\ k \in Nat /\ k < UINT /\ k \in 0..UINT
BY DEF ConsoleConstants, Index

\* To go some cells on, and as many as lie between.
LEMMA MinusPlus ==
  ASSUME ConsoleConstants, NEW i \in Index, NEW k \in Index
  PROVE  Minus(Plus(i, k), i) = k
<1>1. k \in 0..UINT
  BY IndexIs
<1>2. PICK j \in Index : j = Plus(i, k) /\ j = IF i + k < UINT THEN i + k ELSE i + k - UINT
  BY <1>1, PlusIs
<1>3. Minus(j, i) = IF j >= i THEN j - i ELSE j - i + UINT
  BY MinusIs
<1>. QED BY <1>2, <1>3 DEF ConsoleConstants, Index

LEMMA PlusMinus ==
  ASSUME ConsoleConstants, NEW i \in Index, NEW j \in Index
  PROVE  Plus(i, Minus(j, i)) = j
<1>1. PICK k \in Index : k = Minus(j, i) /\ k = IF j >= i THEN j - i ELSE j - i + UINT
  BY MinusIs
<1>2. k \in 0..UINT
  BY IndexIs
<1>3. Plus(i, k) = IF i + k < UINT THEN i + k ELSE i + k - UINT
  BY <1>2, PlusIs
<1>. QED BY <1>1, <1>3 DEF ConsoleConstants, Index

LEMMA PlusPlus ==
  ASSUME ConsoleConstants, NEW i \in Index, NEW k \in Index, NEW l \in Index, k + l < UINT
  PROVE  Plus(Plus(i, k), l) = Plus(i, k + l)
<1>1. k \in 0..UINT /\ l \in 0..UINT
  BY IndexIs
<1>2. PICK j \in Index : j = Plus(i, k) /\ j = IF i + k < UINT THEN i + k ELSE i + k - UINT
  BY <1>1, PlusIs
<1>3. Plus(j, l) = IF j + l < UINT THEN j + l ELSE j + l - UINT
  BY <1>1, PlusIs
<1>6. i \in Nat /\ i < UINT /\ k \in Nat /\ l \in Nat /\ UINT \in Nat
  BY IndexIs
<1>4. PICK m \in 0..UINT : m = k + l
  BY <1>6
<1>5. Plus(i, m) = IF i + m < UINT THEN i + m ELSE i + m - UINT
  BY PlusIs
<1>. QED BY <1>2, <1>3, <1>4, <1>5, <1>6

\* A cell of the ring, and two indices that are less than the ring apart.
LEMMA InRing ==
  ASSUME ConsoleConstants, NEW x \in Index
  PROVE  x % INPUT_BUF \in 0..INPUT_BUF - 1
BY DEF ConsoleConstants, Index

LEMMA DivMod ==
  ASSUME NEW B \in Nat \ {0}, NEW x \in Int
  PROVE  \E f \in Int, m \in Int : x = B * f + m /\ m = x % B
OBVIOUS

LEMMA Apart ==
  ASSUME ConsoleConstants, NEW x \in Index, NEW y \in Index, NEW k \in 1..INPUT_BUF - 1, y = Plus(x, k)
  PROVE  x % INPUT_BUF # y % INPUT_BUF
<1>1. PICK B \in Nat \ {0} : B = INPUT_BUF /\ UINT \in Nat /\ UINT > B /\ UINT % B = 0
  BY DEF ConsoleConstants
<1>2. x \in Int /\ y \in Int /\ k \in Int /\ 0 < k /\ k < B
  BY <1>1, IndexIs
<1>3. PICK d \in Int : UINT = B * d
  BY <1>1
<1>4. y = x + k \/ y = x + k - UINT
  <2>1. k \in 0..UINT
    BY <1>1
  <2>. QED BY <2>1, PlusIs
<1>5. PICK f \in Int, m \in Int : x = B * f + m /\ m = x % B
  BY <1>2, DivMod
<1>6. PICK g \in Int, l \in Int : y = B * g + l /\ l = y % B
  BY <1>2, DivMod
<1>7. ASSUME m = l PROVE FALSE
  <2>1. B * g - B * f = k \/ B * g - B * f = k - B * d
    BY ONLY <1>1, <1>2, <1>3, <1>4, <1>5, <1>6, <1>7
  <2>2. PICK q \in Int : B * q = k
    <3>1. CASE B * g - B * f = k
      <4>1. B * (g - f) = k
        BY <1>1, <1>5, <1>6, <3>1
      <4>. QED BY <4>1
    <3>2. CASE B * g - B * f = k - B * d
      <4>1. B * (g - f + d) = k
        BY <1>1, <1>2, <1>3, <1>5, <1>6, <3>2
      <4>. QED BY <4>1
    <3>. QED BY <2>1, <3>1, <3>2
  <2>3. q > 0 /\ q < 1
    BY <1>1, <1>2, <2>2
  <2>. QED BY <2>3
<1>. QED BY <1>1, <1>5, <1>6, <1>7

(***************************************************************************)
(* The text between two indices                                            *)
(***************************************************************************)
LEMMA CellIs ==
  ASSUME ConsoleConstants, NEW b, IsBuf(b), NEW i \in Index, NEW k \in 0..UINT
  PROVE  Cell(b, i, k) \in Cells
<1>1. Plus(i, k) \in Index
  BY PlusIs
<1>2. Plus(i, k) % INPUT_BUF \in 0..INPUT_BUF - 1
  BY <1>1, InRing
<1>. QED BY <1>2 DEF Cell, IsBuf

IsText(t, b, i, m) == t \in Seq(Cells) /\ Len(t) = m /\ \A k \in 1..m : t[k] = Cell(b, i, k - 1)

LEMMA TextIs ==
  ASSUME ConsoleConstants, NEW b, IsBuf(b), NEW i \in Index, NEW j \in Index
  PROVE  IsText(Text(b, i, j), b, i, Minus(j, i))
<1>1. PICK m \in Nat : m = Minus(j, i) /\ m < UINT
  BY MinusIs, IndexIs
<1>2. UINT \in Nat
  BY IndexIs
<1>3. ASSUME NEW k \in 1..m PROVE Cell(b, i, k - 1) \in Cells
  <2>1. k - 1 \in 0..UINT
    BY <1>1, <1>2
  <2>. QED BY <2>1, CellIs
<1>4. Text(b, i, j) = [k \in 1..m |-> Cell(b, i, k - 1)]
  BY <1>1 DEF Text
<1>. QED BY <1>1, <1>3, <1>4 DEF IsText

\* Two texts are the same if their characters are.
LEMMA SameText ==
  ASSUME NEW s, NEW t, NEW S, s \in Seq(S), t \in Seq(S), Len(s) = Len(t), \A k \in 1..Len(s) : s[k] = t[k]
  PROVE  s = t
OBVIOUS

\* The text up to a third index on the way.
LEMMA Between3 ==
  ASSUME ConsoleConstants, NEW i \in Index, NEW j \in Index, NEW l \in Index, Minus(j, i) <= Minus(l, i)
  PROVE  Minus(l, j) = Minus(l, i) - Minus(j, i)
<1>1. Minus(j, i) = IF j >= i THEN j - i ELSE j - i + UINT
  BY MinusIs
<1>2. Minus(l, i) = IF l >= i THEN l - i ELSE l - i + UINT
  BY MinusIs
<1>3. Minus(l, j) = IF l >= j THEN l - j ELSE l - j + UINT
  BY MinusIs
<1>4. i \in Nat /\ i < UINT /\ j \in Nat /\ j < UINT /\ l \in Nat /\ l < UINT /\ UINT \in Nat
  BY IndexIs
<1>5. PICK x, y, z : x = Minus(j, i) /\ y = Minus(l, i) /\ z = Minus(l, j)
  OBVIOUS
<1>. QED BY <1>1, <1>2, <1>3, <1>4, <1>5

LEMMA CellOnward ==
  ASSUME ConsoleConstants, NEW b, NEW i \in Index, NEW d \in Index, NEW k \in Index, d + k < UINT
  PROVE  Cell(b, Plus(i, d), k) = Cell(b, i, d + k)
BY PlusPlus DEF Cell

LEMMA TextJoined ==
  ASSUME ConsoleConstants, NEW b, IsBuf(b), NEW i \in Index, NEW j \in Index, NEW l \in Index,
         Minus(j, i) <= Minus(l, i)
  PROVE  Text(b, i, j) \o Text(b, j, l) = Text(b, i, l)
<1>1. PICK x \in Index, y \in Index, z \in Index : x = Minus(j, i) /\ y = Minus(l, i) /\ z = Minus(l, j)
  BY MinusIs
<1>2. x \in Nat /\ y \in Nat /\ z \in Nat /\ y < UINT /\ UINT \in Nat /\ z = y - x
  BY <1>1, IndexIs, Between3
<1>3. PICK s, t, u : s = Text(b, i, j) /\ t = Text(b, j, l) /\ u = Text(b, i, l)
  OBVIOUS
<1>4. IsText(s, b, i, x)
  BY <1>1, <1>3, TextIs
<1>5. IsText(t, b, j, z)
  BY <1>1, <1>3, TextIs
<1>6. IsText(u, b, i, y)
  BY <1>1, <1>3, TextIs
<1>7. ASSUME NEW k \in 1..z PROVE t[k] = u[x + k]
  <2>1. k - 1 \in Index /\ x + (k - 1) < UINT
    BY <1>2 DEF Index
  <2>2. j = Plus(i, x)
    BY <1>1, PlusMinus
  <2>3. Cell(b, j, k - 1) = Cell(b, i, x + (k - 1))
    BY <2>1, <2>2, CellOnward
  <2>4. PICK m \in 1..y : m = x + k
    BY <1>2
  <2>5. PICK l1, l2 : l1 = x + (k - 1) /\ l2 = m - 1
    OBVIOUS
  <2>7. l1 = l2
    BY <1>2, <2>4, <2>5
  <2>8. u[m] = Cell(b, i, l2)
    BY <1>6, <2>5 DEF IsText
  <2>6. t[k] = Cell(b, j, k - 1)
    BY <1>5 DEF IsText
  <2>9. t[k] = u[m]
    BY <2>3, <2>5, <2>6, <2>7, <2>8
  <2>. QED BY <2>4, <2>9
<1>8. s \in Seq(Cells) /\ t \in Seq(Cells) /\ u \in Seq(Cells) /\ Len(s) = x /\ Len(t) = z /\ Len(u) = y
  BY <1>4, <1>5, <1>6 DEF IsText
<1>9. s \o t \in Seq(Cells) /\ Len(s \o t) = y
  BY <1>2, <1>8
<1>10. ASSUME NEW k \in 1..y PROVE (s \o t)[k] = u[k]
  <2>1. CASE k <= x
    <3>1. k \in 1..x
      BY <1>2, <2>1
    <3>2. s[k] = u[k]
      BY <1>4, <1>6, <3>1 DEF IsText
    <3>. QED BY <1>2, <1>8, <3>1, <3>2
  <2>2. CASE k > x
    <3>1. PICK m \in 1..z : k = x + m
      <4>1. k - x \in 1..z /\ k = x + (k - x)
        BY <1>2, <2>2
      <4>. QED BY <4>1
    <3>2. (s \o t)[k] = t[m]
      BY <1>2, <1>8, <3>1
    <3>. QED BY <1>7, <3>1, <3>2
  <2>3. k <= x \/ k > x
    BY <1>2
  <2>. QED BY <2>1, <2>2, <2>3
<1>. QED BY <1>3, <1>8, <1>9, <1>10, SameText

\* What Type does to the ring.
Written(b, d, j, c) == d = [b EXCEPT ![j % INPUT_BUF] = c]

\* A character is put behind the text, of m characters.
PutBehind(b, d, i, m, c) ==
  /\ \A k \in 0..m - 1 : Cell(d, i, k) = Cell(b, i, k)
  /\ Cell(d, i, m) = c

LEMMA TextTyped ==
  ASSUME ConsoleConstants, NEW b, IsBuf(b), NEW i \in Index, NEW j \in Index, Minus(j, i) < INPUT_BUF,
         NEW c \in Cells, NEW d, Written(b, d, j, c)
  PROVE  IsBuf(d) /\ PutBehind(b, d, i, Minus(j, i), c)
<1>1. PICK m \in Index : m = Minus(j, i) /\ m \in Nat /\ m < INPUT_BUF
  BY MinusIs, IndexIs
<1>2. UINT \in Nat /\ INPUT_BUF \in Nat /\ UINT > INPUT_BUF
  BY DEF ConsoleConstants
<1>3. j = Plus(i, m) /\ j % INPUT_BUF \in 0..INPUT_BUF - 1
  BY <1>1, PlusMinus, InRing
<1>4. IsBuf(d)
  BY <1>3 DEF IsBuf, Written
<1>5. ASSUME NEW k \in 0..m - 1 PROVE Cell(d, i, k) = Cell(b, i, k)
  <2>1. k \in Index /\ k \in 0..UINT /\ m - k \in Index /\ m - k \in 1..INPUT_BUF - 1 /\ k + (m - k) = m
    BY <1>1, <1>2 DEF Index
  <2>2. PICK x \in Index : x = Plus(i, k)
    BY <2>1, PlusIs
  <2>3. Plus(x, m - k) = j
    BY <1>1, <1>2, <1>3, <2>1, <2>2, PlusPlus
  <2>4. x % INPUT_BUF # j % INPUT_BUF
    BY <2>1, <2>3, Apart
  <2>. QED BY <2>2, <2>4 DEF Cell, IsBuf, Written
<1>6. Cell(d, i, m) = c
  BY <1>3 DEF Cell, IsBuf, Written
<1>. QED BY <1>1, <1>4, <1>5, <1>6 DEF PutBehind

LEMMA TextAppended ==
  ASSUME ConsoleConstants, NEW b, IsBuf(b), NEW i \in Index, NEW j \in Index, Minus(j, i) < INPUT_BUF,
         NEW c \in Cells, NEW d, Written(b, d, j, c)
  PROVE  /\ Next1(j) \in Index /\ Minus(Next1(j), i) = Minus(j, i) + 1
         /\ Text(d, i, Next1(j)) = Append(Text(b, i, j), c)
<1>1. PICK m \in Index : m = Minus(j, i) /\ m \in Nat /\ m < INPUT_BUF
  BY MinusIs, IndexIs
<1>2. UINT \in Nat /\ INPUT_BUF \in Nat /\ UINT > INPUT_BUF
  BY DEF ConsoleConstants
<1>3. 1 \in Index /\ 1 \in 0..UINT /\ m + 1 \in Index /\ m + 1 < UINT
  BY <1>1, <1>2 DEF Index
<1>4. PICK l \in Index : l = Next1(j) /\ l = Plus(i, m + 1) /\ Minus(l, i) = m + 1
  <2>1. j = Plus(i, m)
    BY <1>1, PlusMinus
  <2>2. Next1(j) = Plus(j, 1)
    BY DEF Next1, Plus
  <2>3. Plus(j, 1) \in Index
    BY <1>3, PlusIs
  <2>4. Plus(j, 1) = Plus(i, m + 1)
    BY <1>3, <2>1, PlusPlus
  <2>5. Minus(Plus(i, m + 1), i) = m + 1
    BY <1>3, MinusPlus
  <2>. QED BY <2>2, <2>3, <2>4, <2>5
<1>5. IsBuf(d) /\ PutBehind(b, d, i, m, c)
  BY <1>1, TextTyped
<1>6. PICK s, t : s = Text(b, i, j) /\ t = Text(d, i, l)
  OBVIOUS
<1>7. IsText(s, b, i, m)
  BY <1>1, <1>6, TextIs
<1>8. IsText(t, d, i, m + 1)
  BY <1>4, <1>5, <1>6, TextIs
<1>9. s \in Seq(Cells) /\ Len(s) = m /\ t \in Seq(Cells) /\ Len(t) = m + 1
  BY <1>7, <1>8 DEF IsText
<1>10. Append(s, c) \in Seq(Cells) /\ Len(Append(s, c)) = m + 1 /\ Append(s, c)[m + 1] = c
       /\ \A k \in 1..m : Append(s, c)[k] = s[k]
  BY <1>9
<1>12. ASSUME NEW k \in 1..m + 1 PROVE t[k] = Append(s, c)[k]
  <2>1. t[k] = Cell(d, i, k - 1)
    BY <1>8 DEF IsText
  <2>2. CASE k = m + 1
    <3>1. k - 1 = m
      BY <1>1, <2>2
    <3>. QED BY <1>5, <1>10, <2>1, <2>2, <3>1 DEF PutBehind
  <2>3. CASE k \in 1..m
    <3>1. k - 1 \in 0..m - 1
      BY <1>1, <2>3
    <3>2. Cell(d, i, k - 1) = Cell(b, i, k - 1)
      BY <1>5, <3>1 DEF PutBehind
    <3>3. s[k] = Cell(b, i, k - 1)
      BY <1>7, <2>3 DEF IsText
    <3>. QED BY <1>10, <2>1, <2>3, <3>2, <3>3
  <2>4. k = m + 1 \/ k \in 1..m
    BY <1>1
  <2>. QED BY <2>2, <2>3, <2>4
<1>11. t = Append(s, c)
  BY <1>9, <1>10, <1>12, SameText
<1>. QED BY <1>1, <1>4, <1>6, <1>11

\* The text before it stays.
LEMMA TextKept ==
  ASSUME ConsoleConstants, NEW b, IsBuf(b), NEW i \in Index, NEW j \in Index, NEW l \in Index,
         Minus(l, i) <= Minus(j, i), Minus(j, i) < INPUT_BUF,
         NEW c \in Cells, NEW d, Written(b, d, j, c)
  PROVE  Text(d, i, l) = Text(b, i, l)
<1>1. PICK m \in Nat, x \in Nat : m = Minus(j, i) /\ x = Minus(l, i) /\ x <= m
  BY MinusIs, IndexIs
<1>2. PutBehind(b, d, i, m, c)
  BY <1>1, TextTyped
<1>3. ASSUME NEW k \in 1..x PROVE Cell(d, i, k - 1) = Cell(b, i, k - 1)
  <2>1. k - 1 \in 0..m - 1
    BY <1>1
  <2>. QED BY <1>2, <2>1 DEF PutBehind
<1>. QED BY <1>1, <1>3 DEF Text

\* The first character is taken.
LEMMA TextTaken ==
  ASSUME ConsoleConstants, NEW b, IsBuf(b), NEW i \in Index, NEW j \in Index, i # j
  PROVE  /\ Text(b, i, j) # <<>> /\ Head(Text(b, i, j)) = b[i % INPUT_BUF] /\ b[i % INPUT_BUF] \in Cells
         /\ Next1(i) \in Index /\ Minus(j, Next1(i)) = Minus(j, i) - 1 /\ Minus(j, i) >= 1
         /\ Text(b, Next1(i), j) = Tail(Text(b, i, j))
<1>1. PICK m \in Index : m = Minus(j, i) /\ m \in Nat /\ m > 0 /\ m < UINT
  BY MinusIs, IndexIs
<1>2. UINT \in Nat /\ 1 \in Index /\ 0 \in 0..UINT /\ 1 \in 0..UINT
  BY <1>1, IndexIs DEF Index
<1>3. PICK l \in Index : l = Next1(i) /\ l = Plus(i, 1) /\ Minus(l, i) = 1
  BY <1>2, PlusIs, MinusPlus DEF Next1, Plus
<1>4. Minus(j, l) = m - 1
  BY <1>1, <1>3, Between3
<1>5. PICK s, t : s = Text(b, i, j) /\ t = Text(b, l, j)
  OBVIOUS
<1>6. IsText(s, b, i, m)
  BY <1>1, <1>5, TextIs
<1>7. IsText(t, b, l, m - 1)
  BY <1>4, <1>5, TextIs
<1>8. ASSUME NEW k \in 1..m - 1 PROVE t[k] = s[k + 1]
  <2>1. k - 1 \in Index /\ 1 + (k - 1) < UINT /\ 1 + (k - 1) = k
    BY <1>1, <1>2 DEF Index
  <2>2. Cell(b, l, k - 1) = Cell(b, i, k)
    BY <1>2, <1>3, <2>1, CellOnward
  <2>3. k + 1 \in 1..m /\ k + 1 - 1 = k
    BY <1>1
  <2>. QED BY <1>6, <1>7, <2>2, <2>3 DEF IsText
<1>9. Tail(s) \in Seq(Cells) /\ Len(Tail(s)) = m - 1 /\ \A k \in 1..m - 1 : Tail(s)[k] = s[k + 1]
  BY <1>1, <1>6 DEF IsText
<1>10. t = Tail(s)
  BY <1>7, <1>8, <1>9, SameText DEF IsText
<1>11. Cell(b, i, 0) = b[i % INPUT_BUF] /\ Cell(b, i, 0) \in Cells
  <2>1. Plus(i, 0) = i
    BY <1>2, PlusIs, IndexIs
  <2>. QED BY <1>2, <2>1, CellIs DEF Cell
<1>12. s # <<>> /\ Head(s) = s[1] /\ s[1] = Cell(b, i, 0)
  BY <1>1, <1>6 DEF IsText
<1>. QED BY <1>1, <1>3, <1>4, <1>5, <1>10, <1>11, <1>12

\* The last characters are erased.
LEMMA TextErased ==
  ASSUME ConsoleConstants, NEW b, IsBuf(b), NEW i \in Index, NEW j \in Index, NEW k \in 0..Minus(j, i)
  PROVE  /\ Minus(j, k) \in Index /\ Minus(Minus(j, k), i) = Minus(j, i) - k
         /\ Text(b, i, Minus(j, k)) = SubSeq(Text(b, i, j), 1, Minus(j, i) - k)
<1>1. PICK m \in Index : m = Minus(j, i) /\ m \in Nat /\ m < UINT /\ m = IF j >= i THEN j - i ELSE j - i + UINT
  BY MinusIs, IndexIs
<1>2. UINT \in Nat /\ i \in Nat /\ j \in Nat /\ i < UINT /\ j < UINT
  BY IndexIs
<1>3. k \in Index
  BY <1>1, <1>2 DEF Index
<1>4. PICK l \in Index : l = Minus(j, k) /\ l = IF j >= k THEN j - k ELSE j - k + UINT
  BY <1>3, MinusIs
<1>5. Minus(l, i) = IF l >= i THEN l - i ELSE l - i + UINT
  BY MinusIs
<1>6. Minus(l, i) = m - k
  BY <1>1, <1>2, <1>4, <1>5, IndexIs
<1>7. PICK s, t : s = Text(b, i, j) /\ t = Text(b, i, l)
  OBVIOUS
<1>8. IsText(s, b, i, m)
  BY <1>1, <1>7, TextIs
<1>9. IsText(t, b, i, m - k)
  BY <1>6, <1>7, TextIs
<1>10. SubSeq(s, 1, m - k) \in Seq(Cells) /\ Len(SubSeq(s, 1, m - k)) = m - k
       /\ \A x \in 1..m - k : SubSeq(s, 1, m - k)[x] = s[x]
  <2>1. PICK h \in Nat : h = m - k /\ h <= m
    BY <1>1
  <2>2. s \in Seq(Cells) /\ Len(s) = m
    BY <1>8 DEF IsText
  <2>3. SubSeq(s, 1, h) \in Seq(Cells) /\ Len(SubSeq(s, 1, h)) = h /\ \A x \in 1..h : SubSeq(s, 1, h)[x] = s[x]
    BY <1>1, <2>1, <2>2
  <2>. QED BY <2>1, <2>3
<1>11. t = SubSeq(s, 1, m - k)
  <2>1. \A x \in 1..m - k : t[x] = s[x]
    BY <1>1, <1>8, <1>9 DEF IsText
  <2>. QED BY <1>9, <1>10, <2>1, SameText DEF IsText
<1>. QED BY <1>1, <1>4, <1>6, <1>7, <1>11

(***************************************************************************)
(* The invariant and the steps                                             *)
(***************************************************************************)
NoNewline(t) == \A k \in DOMAIN t : t[k] # Newline

\* The finished lines and the line being typed follow each other and fit into the ring, and the latter has
\* no end yet: that is why ^U erases all of it.
InputOK ==
  /\ IsBuf(buf) /\ r \in Index /\ w \in Index /\ e \in Index
  /\ Minus(w, r) <= Minus(e, r) /\ Minus(e, r) <= INPUT_BUF
  /\ NoNewline(Between(w, e))

\* Between calls a reader has stored nothing, and a call that asks for more has not seen the end of the line.
ReadersOK ==
  /\ n \in [Reader -> Nat] /\ dst \in [Reader -> Seq(Cells)] /\ DOMAIN rpc = Reader
  /\ \A u \in Reader : (rpc[u] = "idle" => dst[u] = <<>>) /\ (n[u] > 0 => NoNewline(dst[u]))

ConsoleInv == InputOK /\ ReadersOK

ready == Between(r, w)
line == Between(w, e)

LEMMA BetweenIs ==
  ASSUME NEW i, NEW j
  PROVE  Between(i, j) = Text(buf, i, j)
BY DEF Between, Text, Cell, Plus

LEMMA BetweenNext ==
  /\ ready' = Text(buf', r', w')
  /\ line' = Text(buf', w', e')
BY DEF ready, line, Between, Text, Cell, Plus

LEMMA LinesAre ==
  ASSUME ConsoleConstants, InputOK
  PROVE  /\ ready \in Seq(Cells) /\ line \in Seq(Cells)
         /\ Len(ready) = Minus(w, r) /\ Len(line) = Minus(e, w) /\ Len(ready) \in Nat /\ Len(line) \in Nat
         /\ Minus(e, r) = Len(ready) + Len(line) /\ Minus(e, r) <= INPUT_BUF /\ INPUT_BUF \in Nat
         /\ ready = Text(buf, r, w) /\ line = Text(buf, w, e) /\ NoNewline(line)
         /\ ready \o line = Text(buf, r, e)
<1>1. IsBuf(buf) /\ r \in Index /\ w \in Index /\ e \in Index /\ Minus(w, r) <= Minus(e, r)
  BY DEF InputOK
<1>2. ready = Text(buf, r, w) /\ line = Text(buf, w, e)
  BY BetweenIs DEF ready, line
<1>3. IsText(ready, buf, r, Minus(w, r)) /\ IsText(line, buf, w, Minus(e, w))
  BY <1>1, <1>2, TextIs
<1>4. Minus(e, w) = Minus(e, r) - Minus(w, r)
  BY <1>1, Between3
<1>5. Minus(e, r) \in Nat /\ Minus(w, r) \in Nat /\ Minus(e, w) \in Nat
  BY <1>1, MinusIs, IndexIs
<1>6. ready \o line = Text(buf, r, e)
  BY <1>1, <1>2, TextJoined
<1>. QED BY <1>2, <1>3, <1>4, <1>5, <1>6 DEF IsText, InputOK, ConsoleConstants, line

LEMMA TextEmpty ==
  ASSUME ConsoleConstants, NEW b, NEW i \in Index
  PROVE  Minus(i, i) = 0 /\ Text(b, i, i) = <<>>
<1>1. Minus(i, i) = 0
  BY MinusIs, IndexIs
<1>. QED BY <1>1 DEF Text

LEMMA InputNext ==
  /\ IsBuf(buf') /\ r' \in Index /\ w' \in Index /\ e' \in Index
  /\ Minus(w', r') <= Minus(e', r') /\ Minus(e', r') <= INPUT_BUF /\ NoNewline(line')
  => InputOK'
BY DEF InputOK, IsBuf, Index, NoNewline, line, Minus

\* The actions of Terminal, in the words of this module.
LEMMA TypeIs ==
  ASSUME NEW c, Len(ready) + Len(line) < INPUT_BUF, dst' = dst,
         \/ /\ c \in {Newline, Eof} \/ Len(ready) + Len(line) = INPUT_BUF - 1
            /\ ready' = ready \o Append(line, c) /\ line' = <<>>
         \/ /\ ~(c \in {Newline, Eof} \/ Len(ready) + Len(line) = INPUT_BUF - 1)
            /\ line' = Append(line, c) /\ ready' = ready
  PROVE  Lines!Type(c)
BY DEF Lines!Type, ready, line

LEMMA AppendJoined ==
  ASSUME NEW x \in Seq(Cells), NEW y \in Seq(Cells), NEW c \in Cells
  PROVE  Append(x \o y, c) = x \o Append(y, c)
OBVIOUS

LEMMA AppendNoNewline ==
  ASSUME NEW y \in Seq(Cells), NoNewline(y), NEW c, c # Newline
  PROVE  NoNewline(Append(y, c))
BY DEF NoNewline

LEMMA TypeStep ==
  ASSUME ConsoleConstants, InputOK, NEW c \in Char, Type(c)
  PROVE  InputOK' /\ Lines!Type(c)
<1>1. /\ IsBuf(buf) /\ r \in Index /\ w \in Index /\ e \in Index /\ c \in Cells
      /\ Minus(w, r) <= Minus(e, r) /\ Minus(e, r) < INPUT_BUF
  BY DEF InputOK, Type, Cells
<1>2. /\ ready \in Seq(Cells) /\ line \in Seq(Cells) /\ Len(ready) \in Nat /\ Len(line) \in Nat
      /\ Len(ready) = Minus(w, r) /\ Len(line) = Minus(e, w) /\ Minus(e, r) = Len(ready) + Len(line)
  BY LinesAre
<1>3. /\ ready = Text(buf, r, w) /\ line = Text(buf, w, e) /\ NoNewline(line)
      /\ ready \o line = Text(buf, r, e) /\ INPUT_BUF \in Nat
  BY LinesAre
<1>4. buf' = [buf EXCEPT ![e % INPUT_BUF] = c] /\ e' = Next1(e) /\ r' = r /\ dst' = dst
  BY DEF Type, readVars
<1>5. PICK d, f : d = buf' /\ f = e' /\ Written(buf, d, e, c) /\ f = Next1(e)
  BY <1>4 DEF Written
<1>6. IsBuf(d)
  BY <1>1, <1>5, TextTyped
<1>7. f \in Index /\ Minus(f, r) = Minus(e, r) + 1 /\ Text(d, r, f) = Append(Text(buf, r, e), c)
  BY <1>1, <1>5, TextAppended
<1>8. PICK m \in Nat : m = Len(ready) + Len(line) /\ m = Minus(e, r) /\ m < INPUT_BUF
  BY <1>1, <1>2
<1>9. INPUT_BUF \in Index
  BY DEF ConsoleConstants, Index
<1>10. Finished(c) <=> c \in {Newline, Eof} \/ m = INPUT_BUF - 1
  <2>1. (r + INPUT_BUF) % UINT = Plus(r, INPUT_BUF)
    BY DEF Plus
  <2>2. Minus(Plus(r, INPUT_BUF), r) = INPUT_BUF
    BY <1>1, <1>9, MinusPlus
  <2>3. Plus(r, Minus(f, r)) = f
    BY <1>1, <1>7, PlusMinus
  <2>4. f = Plus(r, INPUT_BUF) <=> m + 1 = INPUT_BUF
    BY <1>7, <1>8, <2>2, <2>3
  <2>. QED BY <1>3, <1>5, <1>8, <2>1, <2>4 DEF Finished
<1>11. IsBuf(buf') /\ r' \in Index /\ e' \in Index /\ Minus(e', r') = m + 1 /\ m + 1 <= INPUT_BUF
  BY <1>1, <1>3, <1>4, <1>5, <1>6, <1>7, <1>8
<1>12. CASE Finished(c)
  <2>1. w' = f
    BY <1>5, <1>12 DEF Type
  <2>2. ready' = ready \o Append(line, c)
    <3>1. ready' = Append(ready \o line, c)
      BY <1>3, <1>4, <1>5, <1>7, <2>1, BetweenNext
    <3>. QED BY <1>1, <1>2, <3>1, AppendJoined
  <2>3. line' = <<>>
    BY <1>5, <1>7, <2>1, BetweenNext, TextEmpty
  <2>4. InputOK'
    <3>1. NoNewline(line')
      BY <2>3 DEF NoNewline
    <3>2. w' \in Index /\ Minus(w', r') <= Minus(e', r') /\ Minus(e', r') <= INPUT_BUF
      BY <1>5, <1>7, <1>8, <1>11, <2>1
    <3>. QED BY <1>11, <3>1, <3>2, InputNext
  <2>5. Lines!Type(c)
    BY <1>4, <1>8, <1>10, <1>12, <2>2, <2>3, TypeIs
  <2>. QED BY <2>4, <2>5
<1>13. CASE ~Finished(c)
  <2>1. w' = w
    BY <1>13 DEF Type
  <2>2. PICK l : l = Minus(e, w) /\ l < INPUT_BUF
    BY <1>2, <1>3, <1>8
  <2>3. line' = Append(line, c)
    <3>1. Minus(e, w) < INPUT_BUF
      BY <2>2
    <3>2. Text(d, w, Next1(e)) = Append(Text(buf, w, e), c)
      BY <1>1, <1>5, <3>1, TextAppended
    <3>. QED BY <1>3, <1>5, <2>1, <3>2, BetweenNext
  <2>4. ready' = ready
    <3>1. Text(d, r, w) = Text(buf, r, w)
      BY <1>1, <1>5, TextKept
    <3>. QED BY <1>3, <1>4, <1>5, <2>1, <3>1, BetweenNext
  <2>5. InputOK'
    <3>1. NoNewline(line')
      BY <1>2, <1>3, <1>10, <1>13, <2>3, AppendNoNewline
    <3>2. w' \in Index /\ Minus(w', r') <= Minus(e', r') /\ Minus(e', r') <= INPUT_BUF
      BY <1>1, <1>2, <1>4, <1>8, <1>11, <2>1
    <3>. QED BY <1>11, <3>1, <3>2, InputNext
  <2>6. Lines!Type(c)
    BY <1>4, <1>8, <1>10, <1>13, <2>3, <2>4, TypeIs
  <2>. QED BY <2>5, <2>6
<1>. QED BY <1>12, <1>13

LEMMA EraseStep ==
  ASSUME ConsoleConstants, InputOK, NEW k \in 0..Minus(e, w), e' = Minus(e, k), UNCHANGED <<buf, r, w>>
  PROVE  InputOK' /\ ready' = ready /\ line' = SubSeq(line, 1, Len(line) - k)
<1>1. IsBuf(buf) /\ r \in Index /\ w \in Index /\ e \in Index /\ Minus(w, r) <= Minus(e, r)
  BY DEF InputOK
<1>2. /\ line \in Seq(Cells) /\ Len(line) \in Nat /\ Len(ready) \in Nat /\ NoNewline(line)
      /\ Len(ready) = Minus(w, r) /\ Len(line) = Minus(e, w) /\ Minus(e, r) = Len(ready) + Len(line)
  BY LinesAre
<1>3. ready = Text(buf, r, w) /\ line = Text(buf, w, e) /\ Minus(e, r) <= INPUT_BUF /\ INPUT_BUF \in Nat
  BY LinesAre
<1>4. k \in 0..Minus(e, r)
  BY <1>2
<1>5. Minus(e, k) \in Index /\ Minus(Minus(e, k), r) = Minus(e, r) - k
  BY <1>1, <1>4, TextErased
<1>6. Text(buf, w, Minus(e, k)) = SubSeq(Text(buf, w, e), 1, Minus(e, w) - k)
  BY <1>1, TextErased
<1>7. line' = SubSeq(line, 1, Len(line) - k)
  BY <1>2, <1>3, <1>6, BetweenNext
<1>8. ready' = ready
  BY <1>3, BetweenNext
<1>9. NoNewline(line')
  <2>1. PICK x, h : x = line /\ h = Len(line) - k /\ h \in 0..Len(x)
    BY <1>2
  <2>2. NoNewline(SubSeq(x, 1, h))
    BY <1>2, <2>1 DEF NoNewline
  <2>. QED BY <1>7, <2>1, <2>2
<1>10. /\ IsBuf(buf') /\ r' \in Index /\ w' \in Index /\ e' \in Index
       /\ Minus(w', r') <= Minus(e', r') /\ Minus(e', r') <= INPUT_BUF
  BY <1>1, <1>2, <1>3, <1>5
<1>. QED BY <1>7, <1>8, <1>9, <1>10, InputNext

LEMMA EraseIs ==
  ASSUME NEW k \in 1..INPUT_BUF, k \in {1, Len(line)}, k \in 1..Len(line),
         line' = SubSeq(line, 1, Len(line) - k), ready' = ready, dst' = dst
  PROVE  Lines!Next
<1>1. Lines!Erase(k)
  BY DEF Lines!Erase, ready, line
<1>. QED BY <1>1 DEF Lines!Next

LEMMA BackspaceStep ==
  ASSUME ConsoleConstants, InputOK, Backspace
  PROVE  InputOK' /\ Lines!Next
<1>1. e # w /\ e' = Minus(e, 1) /\ UNCHANGED <<buf, r, w>> /\ dst' = dst
  BY DEF Backspace, Erasable, Prev1, Minus, readVars
<1>2. r \in Index /\ w \in Index /\ e \in Index
  BY DEF InputOK
<1>3. /\ Len(line) = Minus(e, w) /\ Len(line) \in Nat /\ Len(ready) \in Nat
      /\ Minus(e, r) = Len(ready) + Len(line) /\ Minus(e, r) <= INPUT_BUF /\ INPUT_BUF \in Nat
  BY LinesAre
<1>4. Minus(e, w) # 0
  <2>1. Minus(e, w) = IF e >= w THEN e - w ELSE e - w + UINT
    BY <1>2, MinusIs
  <2>2. w \in Nat /\ w < UINT /\ e \in Nat /\ UINT \in Nat
    BY <1>2, IndexIs
  <2>. QED BY <1>1, <2>1, <2>2
<1>5. 1 \in 0..Minus(e, w) /\ 1 \in 1..Len(line) /\ 1 \in 1..INPUT_BUF /\ 1 \in {1, Len(line)}
  BY <1>3, <1>4
<1>6. InputOK' /\ ready' = ready /\ line' = SubSeq(line, 1, Len(line) - 1)
  BY <1>1, <1>5, EraseStep
<1>. QED BY <1>1, <1>5, <1>6, EraseIs

\* No cell of the line being typed holds a newline.
LEMMA NoStop ==
  ASSUME ConsoleConstants, InputOK, NEW k \in 0..Minus(e, w), Stops(k)
  PROVE  k = Minus(e, w)
<1>1. IsBuf(buf) /\ w \in Index /\ e \in Index
  BY DEF InputOK
<1>2. PICK l \in Nat : l = Minus(e, w) /\ l = Len(line) /\ line \in Seq(Cells) /\ NoNewline(line) /\ line = Text(buf, w, e)
  BY LinesAre
<1>3. SUFFICES ASSUME k # l PROVE FALSE
  BY <1>2
<1>4. k + 1 \in 0..Minus(e, w) /\ l - k \in 1..l /\ l - (k + 1) = l - k - 1
  BY <1>2, <1>3
<1>5. PICK x \in Index : x = Minus(e, k + 1) /\ Minus(x, w) = l - k - 1
  <2>1. Minus(e, k + 1) \in Index /\ Minus(Minus(e, k + 1), w) = Minus(e, w) - (k + 1)
    BY <1>1, <1>4, TextErased
  <2>. QED BY <1>2, <1>4, <2>1
<1>6. buf[x % INPUT_BUF] = Newline
  BY <1>2, <1>3, <1>5 DEF Stops
<1>7. Plus(w, l - k - 1) = x
  BY <1>1, <1>5, PlusMinus
<1>8. IsText(line, buf, w, l)
  BY <1>1, <1>2, TextIs
<1>9. line[l - k] = Cell(buf, w, l - k - 1)
  BY <1>4, <1>8 DEF IsText
<1>10. line[l - k] = Newline
  BY <1>6, <1>7, <1>9 DEF Cell
<1>. QED BY <1>2, <1>4, <1>10 DEF NoNewline

LEMMA KillLineStep ==
  ASSUME ConsoleConstants, InputOK, KillLine
  PROVE  InputOK' /\ [Lines!Next]_Lines!vars
<1>1. PICK k \in 0..Minus(e, w) : Stops(k) /\ e' = Minus(e, k)
  BY DEF KillLine
<1>2. UNCHANGED <<buf, r, w>> /\ dst' = dst
  BY DEF KillLine, readVars
<1>3. k = Minus(e, w)
  BY <1>1, NoStop
<1>4. InputOK' /\ ready' = ready /\ line' = SubSeq(line, 1, Len(line) - k)
  BY <1>1, <1>2, EraseStep
<1>5. /\ Len(line) = Minus(e, w) /\ Len(line) \in Nat /\ Len(ready) \in Nat /\ line \in Seq(Cells)
      /\ Minus(e, r) = Len(ready) + Len(line) /\ Minus(e, r) <= INPUT_BUF /\ INPUT_BUF \in Nat
  BY LinesAre
<1>6. CASE k = 0
  <2>1. SubSeq(line, 1, Len(line) - k) = line
    BY <1>3, <1>5, <1>6
  <2>. QED BY <1>2, <1>4, <2>1 DEF Lines!vars, ready, line
<1>7. CASE k # 0
  <2>1. k \in 1..INPUT_BUF /\ k \in {1, Len(line)} /\ k \in 1..Len(line)
    BY <1>3, <1>5, <1>7
  <2>. QED BY <1>2, <1>4, <2>1, EraseIs
<1>. QED BY <1>6, <1>7

(***************************************************************************)
(* The readers                                                             *)
(***************************************************************************)
\* A step that leaves the ring and what is stored.
LEMMA Stutters ==
  ASSUME InputOK, UNCHANGED inputVars, dst' = dst
  PROVE  InputOK' /\ UNCHANGED Lines!vars
<1>1. UNCHANGED <<buf, r, w, e>>
  BY DEF inputVars
<1>2. ready' = ready /\ line' = line
  BY <1>1 DEF ready, line, Between, Minus
<1>3. InputOK'
  BY <1>1 DEF InputOK, IsBuf, Between, Minus
<1>. QED BY <1>2, <1>3 DEF Lines!vars, ready, line

LEMMA ReturnIs ==
  ASSUME InputOK, UNCHANGED inputVars, NEW u \in Reader, dst \in [Reader -> Seq(Cells)], dst' = [dst EXCEPT ![u] = <<>>]
  PROVE  InputOK' /\ [Lines!Next]_Lines!vars
<1>1. CASE dst[u] = <<>>
  <2>1. dst' = dst
    BY <1>1
  <2>. QED BY <2>1, Stutters
<1>2. CASE dst[u] # <<>>
  <2>1. UNCHANGED <<buf, r, w, e>>
    BY DEF inputVars
  <2>2. ready' = ready /\ line' = line
    BY <2>1 DEF ready, line, Between, Minus
  <2>3. InputOK'
    BY <2>1 DEF InputOK, IsBuf, Between, Minus
  <2>4. Lines!Return(u)
    BY <1>2, <2>2 DEF Lines!Return, ready, line
  <2>. QED BY <2>3, <2>4 DEF Lines!Next
<1>. QED BY <1>1, <1>2

LEMMA ReadIs ==
  ASSUME NEW u \in Reader, ready # <<>>, Head(ready) # Eof, NoNewline(dst[u]),
         dst' = [dst EXCEPT ![u] = Append(@, Head(ready))], ready' = Tail(ready), line' = line
  PROVE  Lines!Next
<1>1. Lines!Read(u)
  BY DEF Lines!Read, ready, line, NoNewline
<1>. QED BY <1>1 DEF Lines!Next

LEMMA TakeEofIs ==
  ASSUME NEW u \in Reader, ready # <<>>, Head(ready) = Eof, dst[u] = <<>>, ready' = Tail(ready), UNCHANGED <<line, dst>>
  PROVE  Lines!Next
<1>1. Lines!TakeEof(u)
  BY DEF Lines!TakeEof, ready, line
<1>. QED BY <1>1 DEF Lines!Next

\* The reader takes the first character of the finished lines.
LEMMA TakenStep ==
  ASSUME ConsoleConstants, InputOK, r # w, r' = Next1(r), UNCHANGED <<buf, w, e>>
  PROVE  InputOK' /\ ready' = Tail(ready) /\ line' = line
<1>1. IsBuf(buf) /\ r \in Index /\ w \in Index /\ e \in Index /\ Minus(w, r) <= Minus(e, r)
  BY DEF InputOK
<1>2. NoNewline(line) /\ ready = Text(buf, r, w) /\ line = Text(buf, w, e) /\ Minus(e, r) <= INPUT_BUF
  BY LinesAre
<1>3. INPUT_BUF \in Nat /\ Minus(e, r) \in Nat
  BY <1>1, MinusIs, IndexIs DEF ConsoleConstants
<1>4. /\ Next1(r) \in Index /\ Minus(w, Next1(r)) = Minus(w, r) - 1 /\ Minus(w, r) >= 1
      /\ Text(buf, Next1(r), w) = Tail(Text(buf, r, w))
  BY <1>1, TextTaken
<1>5. Minus(w, r) \in Nat
  BY <1>1, MinusIs, IndexIs
<1>6. r # e
  <2>1. Minus(r, r) = 0
    BY <1>1, TextEmpty
  <2>. QED BY <1>1, <1>3, <1>4, <1>5, <2>1
<1>7. Minus(e, Next1(r)) = Minus(e, r) - 1
  BY <1>1, <1>6, TextTaken
<1>8. ready' = Tail(ready) /\ line' = line
  BY <1>2, <1>4, BetweenNext
<1>9. /\ IsBuf(buf') /\ r' \in Index /\ w' \in Index /\ e' \in Index
      /\ Minus(w', r') <= Minus(e', r') /\ Minus(e', r') <= INPUT_BUF /\ NoNewline(line')
  BY <1>1, <1>2, <1>3, <1>4, <1>5, <1>7, <1>8
<1>. QED BY <1>8, <1>9, InputNext

LEMMA TakeStep ==
  ASSUME ConsoleConstants, ConsoleInv, NEW u \in Reader, Take(u)
  PROVE  InputOK' /\ [Lines!Next]_Lines!vars
<1>1. InputOK /\ dst \in [Reader -> Seq(Cells)] /\ NoNewline(dst[u]) /\ r # w /\ UNCHANGED <<buf, w, e>>
  BY DEF ConsoleInv, ReadersOK, Take, InLoop
<1>2. PICK c : c = buf[r % INPUT_BUF]
  OBVIOUS
<1>3. ready # <<>> /\ Head(ready) = c
  <2>1. IsBuf(buf) /\ r \in Index /\ w \in Index
    BY <1>1 DEF InputOK
  <2>2. Text(buf, r, w) # <<>> /\ Head(Text(buf, r, w)) = buf[r % INPUT_BUF]
    BY <1>1, <2>1, TextTaken
  <2>3. ready = Text(buf, r, w)
    BY BetweenIs DEF ready
  <2>. QED BY <1>2, <2>2, <2>3
<1>4. CASE c # Eof
  <2>1. r' = Next1(r) /\ dst' = [dst EXCEPT ![u] = Append(@, c)]
    BY <1>2, <1>4 DEF Take
  <2>2. InputOK' /\ ready' = Tail(ready) /\ line' = line
    BY <1>1, <2>1, TakenStep
  <2>3. dst' = [dst EXCEPT ![u] = Append(@, Head(ready))]
    BY <1>3, <2>1
  <2>4. Head(ready) # Eof
    BY <1>3, <1>4
  <2>. QED BY <1>1, <1>3, <2>2, <2>3, <2>4, ReadIs
<1>5. CASE c = Eof /\ dst[u] = <<>>
  <2>1. r' = Next1(r) /\ dst' = dst
    BY <1>2, <1>5 DEF Take
  <2>2. InputOK' /\ ready' = Tail(ready) /\ line' = line
    BY <1>1, <2>1, TakenStep
  <2>. QED BY <1>3, <1>5, <2>1, <2>2, TakeEofIs
<1>6. CASE c = Eof /\ dst[u] # <<>>
  <2>1. UNCHANGED inputVars /\ dst' = dst
    BY <1>1, <1>2, <1>6 DEF Take, inputVars
  <2>. QED BY <1>1, <2>1, Stutters
<1>. QED BY <1>4, <1>5, <1>6

LEMMA ReaderStep ==
  ASSUME ConsoleConstants, ConsoleInv, NEW u \in Reader,
         \/ \E k \in 1..MaxRead : ReadBegin(u, k)
         \/ Woken(u) \/ NoInput(u) \/ FallAsleep(u) \/ Take(u) \/ Return(u) \/ Kill(u)
  PROVE  InputOK' /\ [Lines!Next]_Lines!vars
<1>1. InputOK /\ dst \in [Reader -> Seq(Cells)] /\ (rpc[u] = "idle" => dst[u] = <<>>)
  BY DEF ConsoleInv, ReadersOK
<1>2. ASSUME NEW k \in 1..MaxRead, ReadBegin(u, k) PROVE InputOK' /\ [Lines!Next]_Lines!vars
  BY <1>1, <1>2, ReturnIs DEF ReadBegin
<1>3. CASE Woken(u) \/ FallAsleep(u) \/ Kill(u)
  <2>1. UNCHANGED inputVars /\ dst' = dst
    BY <1>3 DEF Woken, FallAsleep, Kill, readVars
  <2>. QED BY <1>1, <2>1, Stutters
<1>4. CASE NoInput(u) /\ u \in killed
  BY <1>1, <1>4, ReturnIs DEF NoInput
<1>5. CASE NoInput(u) /\ u \notin killed
  <2>1. UNCHANGED inputVars /\ dst' = dst
    BY <1>5 DEF NoInput, readVars
  <2>. QED BY <1>1, <2>1, Stutters
<1>6. CASE Return(u)
  BY <1>1, <1>6, ReturnIs DEF Return
<1>7. CASE Take(u)
  BY <1>7, TakeStep
<1>. QED BY <1>2, <1>3, <1>4, <1>5, <1>6, <1>7

\* What a step may do to the process of a reader u.
LEMMA ReadersNext ==
  ASSUME ReadersOK, NEW u \in Reader, NEW q, NEW m \in Nat, NEW t \in Seq(Cells),
         q = "idle" => t = <<>>, m > 0 => NoNewline(t),
         (rpc' = [rpc EXCEPT ![u] = q]) \/ (rpc' = rpc /\ q = rpc[u]), n' = [n EXCEPT ![u] = m], dst' = [dst EXCEPT ![u] = t]
  PROVE  ReadersOK'
<1>1. n' \in [Reader -> Nat] /\ dst' \in [Reader -> Seq(Cells)] /\ DOMAIN rpc' = Reader
  BY DEF ReadersOK
<1>2. ASSUME NEW x \in Reader
      PROVE  (rpc'[x] = "idle" => dst'[x] = <<>>) /\ (n'[x] > 0 => NoNewline(dst'[x]))
  <2>1. CASE x = u
    BY <2>1 DEF ReadersOK
  <2>2. CASE x # u
    <3>1. rpc'[x] = rpc[x] /\ n'[x] = n[x] /\ dst'[x] = dst[x]
      BY <2>2 DEF ReadersOK
    <3>. QED BY <3>1 DEF ReadersOK
  <2>. QED BY <2>1, <2>2
<1>. QED BY <1>1, <1>2 DEF ReadersOK, NoNewline

\* The calls of the others are left, and so is what u has read.
LEMMA ReadersMove ==
  ASSUME ReadersOK, NEW u \in Reader, NEW q, q = "idle" => rpc[u] = "idle",
         rpc' = [rpc EXCEPT ![u] = q], UNCHANGED readVars
  PROVE  ReadersOK'
<1>1. n[u] \in Nat /\ dst[u] \in Seq(Cells) /\ n' = [n EXCEPT ![u] = n[u]] /\ dst' = [dst EXCEPT ![u] = dst[u]]
  BY DEF ReadersOK, readVars
<1>2. (q = "idle" => dst[u] = <<>>) /\ (n[u] > 0 => NoNewline(dst[u]))
  BY DEF ReadersOK
<1>. QED BY <1>1, <1>2, ReadersNext

\* Waking the readers, or none.
LEMMA ReadersWake ==
  ASSUME ReadersOK, UNCHANGED readVars, rpc' = rpc \/ WakeReaders
  PROVE  ReadersOK'
<1>1. UNCHANGED <<n, dst>> /\ DOMAIN rpc' = Reader
  BY DEF readVars, WakeReaders, ReadersOK
<1>2. ASSUME NEW x \in Reader, rpc'[x] = "idle" PROVE rpc[x] = "idle"
  BY <1>2 DEF WakeReaders
<1>. QED BY <1>1, <1>2 DEF ReadersOK, NoNewline

LEMMA EmptyText == <<>> \in Seq(Cells) /\ NoNewline(<<>>)
BY DEF NoNewline

LEMMA TakeReaders ==
  ASSUME ConsoleConstants, ConsoleInv, NEW u \in Reader, Take(u)
  PROVE  ReadersOK'
<1>1. n \in [Reader -> Nat] /\ dst \in [Reader -> Seq(Cells)] /\ DOMAIN rpc = Reader /\ ReadersOK
  BY DEF ConsoleInv, ReadersOK
<1>2. n[u] \in Nat /\ n[u] > 0 /\ rpc[u] = "loop" /\ dst[u] \in Seq(Cells) /\ NoNewline(dst[u])
  BY DEF ConsoleInv, ReadersOK, Take, InLoop
<1>3. PICK c \in Cells : c = buf[r % INPUT_BUF]
  <2>1. IsBuf(buf) /\ r % INPUT_BUF \in 0..INPUT_BUF - 1
    BY InRing DEF ConsoleInv, InputOK
  <2>. QED BY <2>1 DEF IsBuf
<1>4. PICK m \in Nat : m = (IF c \in {Newline, Eof} THEN 0 ELSE n[u] - 1) /\ (m > 0 => c # Newline)
  BY <1>2
<1>5. PICK t \in Seq(Cells) : t = (IF c = Eof THEN dst[u] ELSE Append(dst[u], c)) /\ (c # Newline => NoNewline(t))
  <2>1. CASE c = Eof
    BY <1>2, <2>1
  <2>2. CASE c # Eof
    <3>1. Append(dst[u], c) \in Seq(Cells)
      BY <1>2
    <3>2. c # Newline => NoNewline(Append(dst[u], c))
      BY <1>2, AppendNoNewline
    <3>. QED BY <2>2, <3>1, <3>2
  <2>. QED BY <2>1, <2>2
<1>6. rpc' = rpc /\ rpc[u] = "loop"
  BY <1>1, <1>2 DEF Take
<1>7. n' = [n EXCEPT ![u] = m]
  BY <1>1, <1>3, <1>4 DEF Take
<1>8. dst' = [dst EXCEPT ![u] = t]
  BY <1>1, <1>3, <1>5 DEF Take
<1>. QED BY <1>1, <1>4, <1>5, <1>6, <1>7, <1>8, ReadersNext

LEMMA ReadersStep ==
  ASSUME ConsoleConstants, ConsoleInv, NEW u \in Reader,
         \/ \E k \in 1..MaxRead : ReadBegin(u, k)
         \/ Woken(u) \/ NoInput(u) \/ FallAsleep(u) \/ Take(u) \/ Return(u) \/ Kill(u)
  PROVE  ReadersOK'
<1>1. n \in [Reader -> Nat] /\ dst \in [Reader -> Seq(Cells)] /\ DOMAIN rpc = Reader /\ ReadersOK
  BY DEF ConsoleInv, ReadersOK
<1>2. ASSUME NEW k \in 1..MaxRead, ReadBegin(u, k) PROVE ReadersOK'
  <2>1. k \in Nat /\ rpc' = [rpc EXCEPT ![u] = "loop"] /\ n' = [n EXCEPT ![u] = k] /\ dst' = [dst EXCEPT ![u] = <<>>]
    BY <1>2 DEF ReadBegin, ConsoleConstants
  <2>. QED BY <1>1, <2>1, EmptyText, ReadersNext
<1>3. CASE Woken(u)
  BY <1>1, <1>3, ReadersMove DEF Woken
<1>4. CASE FallAsleep(u)
  BY <1>1, <1>4, ReadersMove DEF FallAsleep
<1>5. CASE Kill(u)
  <2>1. PICK q : q = (IF rpc[u] = "asleep" THEN "woken" ELSE rpc[u]) /\ (q = "idle" => rpc[u] = "idle")
    OBVIOUS
  <2>2. rpc' = [rpc EXCEPT ![u] = q] /\ UNCHANGED readVars
    BY <1>5, <2>1 DEF Kill
  <2>. QED BY <1>1, <2>1, <2>2, ReadersMove
<1>6. CASE NoInput(u) /\ u \notin killed
  <2>1. rpc' = [rpc EXCEPT ![u] = "sleeps"] /\ UNCHANGED readVars
    BY <1>6 DEF NoInput
  <2>. QED BY <1>1, <2>1, ReadersMove
<1>7. CASE NoInput(u) /\ u \in killed
  <2>1. rpc' = [rpc EXCEPT ![u] = "idle"] /\ n' = [n EXCEPT ![u] = 0] /\ dst' = [dst EXCEPT ![u] = <<>>]
    BY <1>7 DEF NoInput
  <2>. QED BY <1>1, <2>1, EmptyText, ReadersNext
<1>8. CASE Return(u)
  <2>1. rpc' = [rpc EXCEPT ![u] = "idle"] /\ n' = [n EXCEPT ![u] = n[u]] /\ dst' = [dst EXCEPT ![u] = <<>>] /\ n[u] \in Nat
    BY <1>1, <1>8 DEF Return
  <2>. QED BY <1>1, <2>1, EmptyText, ReadersNext
<1>9. CASE Take(u)
  BY <1>9, TakeReaders
<1>. QED BY <1>2, <1>3, <1>4, <1>5, <1>6, <1>7, <1>8, <1>9

(***************************************************************************)
(* The refinement                                                          *)
(***************************************************************************)
LEMMA InitConsole ==
  ASSUME ConsoleConstants, ConsoleInit
  PROVE  ConsoleInv /\ Lines!Init
<1>1. 0 \in Index
  BY DEF ConsoleConstants, Index
<1>2. Between(0, 0) = <<>> /\ Minus(0, 0) = 0
  BY <1>1, TextEmpty, BetweenIs
<1>3. r = 0 /\ w = 0 /\ e = 0 /\ INPUT_BUF \in Nat /\ IsBuf(buf)
  BY DEF ConsoleInit, IsBuf, Cells, ConsoleConstants
<1>4. NoNewline(Between(0, 0))
  BY <1>2 DEF NoNewline
<1>5. InputOK
  BY <1>1, <1>2, <1>3, <1>4 DEF InputOK
<1>6. ReadersOK
  BY EmptyText DEF ConsoleInit, ReadersOK
<1>7. Lines!Init
  BY <1>2, <1>3 DEF ConsoleInit, Lines!Init
<1>. QED BY <1>5, <1>6, <1>7 DEF ConsoleInv

LEMMA ConsoleStep ==
  ASSUME ConsoleConstants, ConsoleInv, [ConsoleNext]_consoleVars
  PROVE  ConsoleInv' /\ [Lines!Next]_Lines!vars
<1>1. InputOK /\ ReadersOK
  BY DEF ConsoleInv
<1>2. ASSUME NEW c \in Char, Type(c) PROVE ConsoleInv' /\ [Lines!Next]_Lines!vars
  <2>1. InputOK' /\ Lines!Type(c)
    BY <1>1, <1>2, TypeStep
  <2>2. ReadersOK'
    BY <1>1, <1>2, ReadersWake DEF Type
  <2>. QED BY <2>1, <2>2 DEF ConsoleInv, Lines!Next
<1>3. CASE Backspace
  <2>1. InputOK' /\ Lines!Next
    BY <1>1, <1>3, BackspaceStep
  <2>2. ReadersOK'
    BY <1>1, <1>3, ReadersWake DEF Backspace
  <2>. QED BY <2>1, <2>2 DEF ConsoleInv
<1>4. CASE KillLine
  <2>1. InputOK' /\ [Lines!Next]_Lines!vars
    BY <1>1, <1>4, KillLineStep
  <2>2. ReadersOK'
    BY <1>1, <1>4, ReadersWake DEF KillLine
  <2>. QED BY <2>1, <2>2 DEF ConsoleInv
<1>5. ASSUME NEW u \in Reader,
             \/ \E k \in 1..MaxRead : ReadBegin(u, k)
             \/ Woken(u) \/ NoInput(u) \/ FallAsleep(u) \/ Take(u) \/ Return(u) \/ Kill(u)
      PROVE  ConsoleInv' /\ [Lines!Next]_Lines!vars
  BY <1>5, ReaderStep, ReadersStep DEF ConsoleInv
<1>6. CASE UNCHANGED consoleVars
  <2>1. UNCHANGED inputVars /\ dst' = dst /\ rpc' = rpc /\ UNCHANGED readVars
    BY <1>6 DEF consoleVars, readVars
  <2>. QED BY <1>1, <2>1, Stutters, ReadersWake DEF ConsoleInv
<1>. QED BY <1>2, <1>3, <1>4, <1>5, <1>6 DEF ConsoleNext

\* The step of the theorem below, with what is known of the sizes.
LEMMA ConsoleImplements ==
  ASSUME ConsoleConstants
  PROVE  ConsoleSpec => ConsoleIsTerminal
<1>1. ConsoleInit => ConsoleInv /\ Lines!Init
  BY InitConsole
<1>2. ConsoleInv /\ [ConsoleNext]_consoleVars => ConsoleInv' /\ [Lines!Next]_Lines!vars
  BY ConsoleStep
<1>. QED BY <1>1, <1>2, PTL DEF ConsoleSpec, ConsoleIsTerminal, Lines!Spec

\* The console keeps its promise to the programs that read it, for every number of readers and every size of
\* the ring and of its indices (console.c:189-285): every character typed is read once, in order, or erased
\* before its line is finished.
THEOREM ConsoleRefines == ConsoleSpec => ConsoleIsTerminal
BY ConsoleSizes, ConsoleImplements

Users(u) == {c \in Client : at[c] = u}

(***************************************************************************)
(* Facts used by several actions.                                          *)
(***************************************************************************)
\* The users of a buffer are finitely many.
LEMMA FiniteUsers ==
  ASSUME NEW u
  PROVE  IsFiniteSet(Users(u)) /\ Cardinality(Users(u)) \in Nat
<1>1. IsFiniteSet(Users(u))
  BY DiskConstants, FS_Subset DEF Users
<1>. QED BY <1>1, FS_CardinalityType

\* A buffer with count 0 has no user.
LEMMA Unshared ==
  ASSUME DiskTypeOK, Counted, NEW u \in Buf, refcnt[u] = 0
  PROVE  \A c \in Client : at[c] # u
<1>1. Cardinality(Users(u)) = 0
  BY DEF Counted, Users
<1>2. Users(u) = {}
  BY <1>1, FiniteUsers, FS_EmptySet
<1>. QED BY <1>2 DEF Users

\* The first request belongs to a client that waits for it.
LEMMA HeadWaits ==
  ASSUME DiskTypeOK, QueueOK, idequeue # <<>>
  PROVE  /\ Head(idequeue) \in Buf /\ Len(idequeue) \in Nat \ {0}
         /\ Head(idequeue) = idequeue[1]
         /\ \E c \in Client : pc[c] = "io" /\ at[c] = Head(idequeue)
<1>1. idequeue \in Seq(Buf)
  BY DEF DiskTypeOK
<1>2. Head(idequeue) \in Buf /\ Len(idequeue) \in Nat \ {0} /\ Head(idequeue) = idequeue[1]
  BY <1>1
<1>. QED BY <1>2 DEF QueueOK

\* A client that comes to a buffer is one more user of it.
LEMMA Arrives ==
  ASSUME DiskTypeOK, Counted, NEW c \in Client, at[c] = None, NEW u \in Buf,
         at' = [at EXCEPT ![c] = u],
         refcnt' = [refcnt EXCEPT ![u] = @ + 1]
  PROVE  Counted'
<1>1. None \notin Buf /\ at \in [Client -> Buf \union {None}] /\ refcnt \in [Buf -> Nat]
  BY DiskConstants DEF DiskTypeOK, Buf
<1>2. Users(u)' = Users(u) \union {c} /\ c \notin Users(u)
  BY <1>1 DEF Users
<1>3. Cardinality(Users(u)') = Cardinality(Users(u)) + 1
  BY <1>2, FiniteUsers, FS_AddElement
<1>4. ASSUME NEW v \in Buf, v # u PROVE Users(v)' = Users(v)
  BY <1>1, <1>4 DEF Users
<1>. QED BY <1>1, <1>3, <1>4 DEF Counted, Users

\* A client that leaves its buffer is one user less.
LEMMA Leaves ==
  ASSUME DiskTypeOK, Counted, NEW c \in Client, at[c] # None,
         at' = [at EXCEPT ![c] = None],
         refcnt' = [refcnt EXCEPT ![at[c]] = @ - 1]
  PROVE  Counted' /\ refcnt' \in [Buf -> Nat]
<1>1. None \notin Buf /\ at \in [Client -> Buf \union {None}] /\ refcnt \in [Buf -> Nat]
  BY DiskConstants DEF DiskTypeOK, Buf
<1>2. PICK u \in Buf : u = at[c]
  BY <1>1
<1>3. c \in Users(u) /\ Users(u)' = Users(u) \ {c}
  <2>1. \A d \in Client : at'[d] = u <=> at[d] = u /\ d # c
    BY <1>1, <1>2
  <2>. QED BY <1>2, <2>1 DEF Users
<1>4. Cardinality(Users(u)') = Cardinality(Users(u)) - 1
  BY <1>3, FiniteUsers, FS_RemoveElement
<1>5. refcnt[u] = Cardinality(Users(u)) /\ Cardinality(Users(u)) # 0
  BY <1>3, FiniteUsers, FS_EmptySet DEF Counted, Users
<1>6. ASSUME NEW v \in Buf, v # u PROVE Users(v)' = Users(v)
  BY <1>1, <1>2, <1>6 DEF Users
<1>7. refcnt' \in [Buf -> Nat] /\ refcnt'[u] = Cardinality(Users(u)')
  BY <1>1, <1>2, <1>4, <1>5, FiniteUsers
<1>8. ASSUME NEW v \in Buf, v # u PROVE refcnt'[v] = Cardinality(Users(v)')
  <2>1. refcnt'[v] = refcnt[v]
    BY <1>1, <1>2, <1>8
  <2>2. refcnt[v] = Cardinality(Users(v))
    BY DEF Counted, Users
  <2>. QED BY <1>6, <1>8, <2>1, <2>2
<1>9. \A v \in Buf : refcnt'[v] = Cardinality(Users(v)')
  BY <1>7, <1>8
<1>. QED BY <1>7, <1>9 DEF Counted, Users

\* The queue is in order as long as those who wait for it stay.
LEMMA QueueKept ==
  ASSUME QueueOK, idequeue' = idequeue,
         \A d \in Client : pc[d] = "io" => pc'[d] = "io" /\ at'[d] = at[d]
  PROVE  QueueOK'
  BY DEF QueueOK

\* Two clients never own the same buffer.
LEMMA Alone ==
  ASSUME LockHeld, NEW c \in Client, NEW d \in Client,
         pc[c] \in Owning, pc[d] \in Owning, at[c] = at[d]
  PROVE  c = d
  BY DEF LockHeld

\* Who owns a buffer and does not wait for it has another one than the drive.
LEMMA HeadOther ==
  ASSUME DiskInv, NEW c \in Client, pc[c] \in Owning, pc[c] # "io", idequeue # <<>>
  PROVE  Head(idequeue) # at[c]
  BY HeadWaits, Alone DEF DiskInv, Owning

(***************************************************************************)
(* Every step preserves the invariant, one lemma for each action.          *)
(***************************************************************************)
\* A client comes to the buffer that has its block.
LEMMA HitKeeps ==
  ASSUME DiskInv, NEW c \in Client, NEW b \in Block, Bget(c, b), BgetHit(c, b)
  PROVE  DiskInv'
<1>1. PICK i \in Buf : /\ blockno[lru[i]] = b
                       /\ refcnt' = [refcnt EXCEPT ![lru[i]] = @ + 1]
                       /\ at' = [at EXCEPT ![c] = lru[i]]
  BY DEF BgetHit, Hits
<1>. DEFINE u == lru[i]
<1>2. /\ u \in Buf /\ at[c] = None /\ pc[c] = "idle" /\ want' = [want EXCEPT ![c] = b]
      /\ pc' = [pc EXCEPT ![c] = "lock"] /\ None \notin Buf /\ None # b
      /\ UNCHANGED <<blockno, dataVars, lru, ioVars, lock, seen, panicked>>
  BY <1>1, DiskConstants DEF Bget, BgetHit, At, Go, DiskInv, DiskTypeOK, OwnBlock, Buf
<1>3. DiskTypeOK'
  BY <1>1, <1>2 DEF DiskInv, DiskTypeOK, Pc, dataVars, ioVars
<1>4. OwnBlock'
  BY <1>1, <1>2 DEF DiskInv, DiskTypeOK, OwnBlock
<1>5. OneBuffer' /\ ListComplete'
  BY <1>2 DEF DiskInv, OneBuffer, ListComplete
<1>6. Counted'
  BY <1>1, <1>2, Arrives DEF DiskInv
<1>7. LockHeld' /\ RequestOK'
  BY <1>1, <1>2 DEF DiskInv, DiskTypeOK, LockHeld, RequestOK, Owning, Writing, dataVars
<1>8. CleanAgrees' /\ DriveOK'
  BY <1>2 DEF DiskInv, CleanAgrees, DriveOK, dataVars, ioVars
<1>9. QueueOK'
  BY <1>1, <1>2, QueueKept DEF DiskInv, DiskTypeOK, ioVars
<1>. QED BY <1>3, <1>4, <1>5, <1>6, <1>7, <1>8, <1>9 DEF DiskInv

\* A client gets a buffer that nobody uses and that is not dirty.
LEMMA RecycleKeeps ==
  ASSUME DiskInv, NEW c \in Client, NEW b \in Block, Bget(c, b), BgetRecycle(c, b)
  PROVE  DiskInv'
<1>1. PICK i \in Buf : /\ refcnt[lru[i]] = 0 /\ lru[i] \notin dirty
                       /\ blockno' = [blockno EXCEPT ![lru[i]] = b]
                       /\ valid' = valid \ {lru[i]} /\ dirty' = dirty \ {lru[i]}
                       /\ refcnt' = [refcnt EXCEPT ![lru[i]] = 1]
                       /\ at' = [at EXCEPT ![c] = lru[i]]
  BY DEF BgetRecycle, Unused
<1>. DEFINE u == lru[i]
<1>2. /\ u \in Buf /\ at[c] = None /\ pc[c] = "idle" /\ want' = [want EXCEPT ![c] = b]
      /\ pc' = [pc EXCEPT ![c] = "lock"] /\ None \notin Buf /\ None # b
      /\ UNCHANGED <<data, lru, ioVars, lock, seen, panicked>>
  BY <1>1, DiskConstants DEF Bget, BgetRecycle, At, Go, DiskInv, DiskTypeOK, OwnBlock, Buf
<1>3. \A d \in Client : at[d] # u
  BY <1>1, <1>2, Unshared DEF DiskInv
<1>4. \A v \in Buf : blockno[v] # b
  <2>1. \A v \in Buf : \E j \in Buf : lru[j] = v
    BY DEF DiskInv, ListComplete
  <2>2. \A j \in Buf : blockno[lru[j]] # b
    BY DEF BgetRecycle, Hits
  <2>. QED BY <2>1, <2>2
<1>5. DiskTypeOK'
  BY <1>1, <1>2 DEF DiskInv, DiskTypeOK, Pc, ioVars
<1>6. OwnBlock'
  BY <1>1, <1>2, <1>3 DEF DiskInv, DiskTypeOK, OwnBlock
<1>7. OneBuffer' /\ ListComplete'
  BY <1>1, <1>2, <1>4 DEF DiskInv, DiskTypeOK, OneBuffer, ListComplete
<1>8. Counted'
  <2>1. refcnt' = [refcnt EXCEPT ![u] = @ + 1]
    BY <1>1, <1>2
  <2>. QED BY <1>1, <1>2, <2>1, Arrives DEF DiskInv
<1>9. LockHeld' /\ RequestOK'
  BY <1>1, <1>2, <1>3 DEF DiskInv, DiskTypeOK, LockHeld, RequestOK, Owning, Writing
<1>10. CleanAgrees'
  BY <1>1, <1>2 DEF DiskInv, DiskTypeOK, CleanAgrees, ioVars
<1>11. QueueOK'
  BY <1>1, <1>2, QueueKept DEF DiskInv, DiskTypeOK, ioVars
<1>12. DriveOK'
  <2>1. idequeue # <<>> => Head(idequeue) \in Buf /\ Head(idequeue) # u
    BY <1>3, HeadWaits DEF DiskInv
  <2>. QED BY <1>1, <1>2, <2>1 DEF DiskInv, DiskTypeOK, DriveOK, ioVars
<1>. QED BY <1>5, <1>6, <1>7, <1>8, <1>9, <1>10, <1>11, <1>12 DEF DiskInv

\* acquiresleep takes the lock or puts the client to sleep.
LEMMA AcquireKeeps ==
  ASSUME DiskInv, NEW c \in Client, AcquireSleep(c)
  PROVE  DiskInv'
<1>. DEFINE u == at[c]
<1>1. /\ pc[c] = "lock" /\ u \in Buf /\ None \notin Client \union Val \union Block
      /\ seen[c] = None
      /\ UNCHANGED <<cacheVars, ioVars, dataVars, want, at, panicked>>
  BY DiskConstants DEF AcquireSleep, At, DiskInv, DiskTypeOK, OwnBlock, RequestOK, Owning
<1>2. OneBuffer' /\ ListComplete' /\ Counted' /\ CleanAgrees' /\ DriveOK'
  BY <1>1 DEF DiskInv, OneBuffer, ListComplete, Counted, CleanAgrees, DriveOK,
              cacheVars, ioVars, dataVars
<1>3. CASE lock[u] # None
  <2>1. pc' = [pc EXCEPT ![c] = "asleep"] /\ UNCHANGED <<lock, seen>>
    BY <1>3 DEF AcquireSleep, Locked, Go
  <2>2. DiskTypeOK' /\ OwnBlock'
    BY <1>1, <2>1 DEF DiskInv, DiskTypeOK, OwnBlock, Pc, cacheVars, ioVars, dataVars
  <2>3. LockHeld'
    BY <1>1, <2>1 DEF DiskInv, DiskTypeOK, LockHeld, Owning
  <2>4. RequestOK'
    BY <1>1, <2>1 DEF DiskInv, DiskTypeOK, RequestOK, Owning, Writing, dataVars
  <2>5. QueueOK'
    BY <1>1, <2>1, QueueKept DEF DiskInv, DiskTypeOK, ioVars
  <2>. QED BY <1>2, <2>2, <2>3, <2>4, <2>5 DEF DiskInv
<1>4. CASE lock[u] = None
  <2>1. lock' = [lock EXCEPT ![u] = c]
    BY <1>4 DEF AcquireSleep, Locked
  <2>2. CASE u \in valid
    <3>1. pc' = [pc EXCEPT ![c] = "own"] /\ seen' = [seen EXCEPT ![c] = data[u]]
      BY <1>4, <2>2 DEF AcquireSleep, Locked, Go
    <3>2. data[u] \in Val /\ data[u] # None
      BY <1>1 DEF DiskInv, DiskTypeOK
    <3>3. DiskTypeOK' /\ OwnBlock'
      BY <1>1, <2>1, <3>1, <3>2 DEF DiskInv, DiskTypeOK, OwnBlock, Pc, cacheVars, ioVars, dataVars
    <3>4. LockHeld'
      BY <1>1, <1>4, <2>1, <3>1 DEF DiskInv, DiskTypeOK, LockHeld, Owning
    <3>5. RequestOK'
      BY <1>1, <2>2, <3>1, <3>2 DEF DiskInv, DiskTypeOK, RequestOK, Owning, Writing, dataVars
    <3>6. QueueOK'
      BY <1>1, <3>1, QueueKept DEF DiskInv, DiskTypeOK, ioVars
    <3>. QED BY <1>2, <3>3, <3>4, <3>5, <3>6 DEF DiskInv
  <2>3. CASE u \notin valid
    <3>1. pc' = [pc EXCEPT ![c] = "iderw"] /\ seen' = seen
      BY <1>4, <2>3 DEF AcquireSleep, Locked, Go
    <3>2. DiskTypeOK' /\ OwnBlock'
      <4>1. DiskTypeOK'
        BY <1>1, <2>1, <3>1 DEF DiskInv, DiskTypeOK, Pc, cacheVars, ioVars, dataVars
      <4>2. OwnBlock'
        BY <1>1, <2>1, <3>1 DEF DiskInv, DiskTypeOK, OwnBlock, cacheVars
      <4>. QED BY <4>1, <4>2
    <3>3. LockHeld'
      BY <1>1, <1>4, <2>1, <3>1 DEF DiskInv, DiskTypeOK, LockHeld, Owning
    <3>4. RequestOK'
      BY <1>1, <2>3, <3>1 DEF DiskInv, DiskTypeOK, RequestOK, Owning, Writing, dataVars
    <3>5. QueueOK'
      BY <1>1, <3>1, QueueKept DEF DiskInv, DiskTypeOK, ioVars
    <3>. QED BY <1>2, <3>2, <3>3, <3>4, <3>5 DEF DiskInv
  <2>. QED BY <2>2, <2>3
<1>. QED BY <1>3, <1>4

\* The owner of a block changes it.
LEMMA ChangeKeeps ==
  ASSUME DiskInv, NEW c \in Client, NEW v \in Val, Bwrite(c, v) \/ LogWrite(c, v)
  PROVE  DiskInv'
<1>. DEFINE u == at[c]
<1>1. /\ pc[c] = "own" /\ u \in Buf /\ u \in valid /\ seen[c] # None
      /\ data' = [data EXCEPT ![u] = v] /\ dirty' = dirty \union {u}
      /\ pc' = [pc EXCEPT ![c] = "iderw"] \/ pc' = pc
      /\ UNCHANGED <<cacheVars, ioVars, valid, lock, want, at, seen, panicked>>
  BY DEF Bwrite, LogWrite, Change, At, Go, clientVars, DiskInv, DiskTypeOK, RequestOK, Owning
<1>2. \A d \in Client : pc[d] \in Owning /\ at[d] = u => d = c
  BY <1>1, Alone DEF DiskInv, Owning
<1>3. DiskTypeOK' /\ OwnBlock'
  <2>1. pc' \in [Client -> Pc] /\ data' \in [Buf -> Val] /\ dirty' \subseteq Buf
    BY <1>1 DEF DiskInv, DiskTypeOK, Pc
  <2>2. DiskTypeOK'
    BY <1>1, <2>1 DEF DiskInv, DiskTypeOK, cacheVars, ioVars
  <2>3. OwnBlock'
    <3>1. OwnBlock /\ at' = at /\ want' = want /\ blockno' = blockno
      BY <1>1 DEF DiskInv, cacheVars
    <3>2. ASSUME NEW d \in Client PROVE pc'[d] = "idle" <=> pc[d] = "idle"
      BY <1>1 DEF DiskInv, DiskTypeOK
    <3>. QED BY <3>1, <3>2 DEF OwnBlock
  <2>. QED BY <2>2, <2>3
<1>4. OneBuffer' /\ ListComplete' /\ Counted'
  BY <1>1 DEF DiskInv, OneBuffer, ListComplete, Counted, cacheVars
<1>5. LockHeld'
  <2>1. \A d \in Client : pc'[d] \in Owning <=> pc[d] \in Owning
    BY <1>1 DEF DiskInv, DiskTypeOK, Owning
  <2>. QED BY <1>1, <2>1 DEF DiskInv, LockHeld
<1>6. RequestOK'
  BY <1>1, <1>2 DEF DiskInv, DiskTypeOK, RequestOK, Owning, Writing
<1>7. CleanAgrees'
  BY <1>1 DEF DiskInv, DiskTypeOK, CleanAgrees, cacheVars, ioVars
<1>8. QueueOK'
  BY <1>1, QueueKept DEF DiskInv, DiskTypeOK, ioVars
<1>9. DriveOK'
  <2>1. idequeue # <<>> => Head(idequeue) \in Buf /\ Head(idequeue) # u
    BY <1>1, HeadOther, HeadWaits DEF DiskInv, Owning
  <2>. QED BY <1>1, <2>1 DEF DiskInv, DiskTypeOK, DriveOK, cacheVars, ioVars
<1>. QED BY <1>3, <1>4, <1>5, <1>6, <1>7, <1>8, <1>9 DEF DiskInv

\* releasesleep: nobody has the lock any more, and who slept tries again.
LEMMA ReleaseKeeps ==
  ASSUME DiskInv, NEW c \in Client, Releasesleep(c)
  PROVE  DiskInv'
<1>. DEFINE u == at[c]
<1>1. /\ pc[c] = "own" /\ u \in Buf /\ lock[u] = c /\ None \notin Client
      /\ lock' = [lock EXCEPT ![u] = None] /\ seen' = [seen EXCEPT ![c] = None]
      /\ UNCHANGED <<cacheVars, ioVars, dataVars, want, at, panicked>>
  BY DiskConstants DEF Releasesleep, At, DiskInv, DiskTypeOK, OwnBlock, LockHeld, Owning
<1>2. /\ pc' \in [Client -> Pc] /\ pc'[c] = "unref"
      /\ \A d \in Client \ {c} : \/ pc'[d] = pc[d]
                                 \/ pc[d] = "asleep" /\ pc'[d] = "lock"
  BY DEF Releasesleep, DiskInv, DiskTypeOK, Pc
<1>3. DiskTypeOK'
  BY <1>1, <1>2 DEF DiskInv, DiskTypeOK, cacheVars, ioVars, dataVars
<1>8. OwnBlock'
  <2>1. \A d \in Client : pc'[d] = "idle" <=> pc[d] = "idle"
    BY <1>1, <1>2
  <2>. QED BY <1>1, <2>1 DEF DiskInv, OwnBlock, cacheVars
<1>4. OneBuffer' /\ ListComplete' /\ Counted' /\ CleanAgrees' /\ DriveOK'
  BY <1>1 DEF DiskInv, OneBuffer, ListComplete, Counted, CleanAgrees, DriveOK,
              cacheVars, ioVars, dataVars
<1>5. LockHeld'
  <2>1. /\ pc'[c] \notin Owning
        /\ \A d \in Client \ {c} : pc'[d] \in Owning <=> pc[d] \in Owning
    BY <1>2 DEF Owning
  <2>2. \A d \in Client : lock'[u] # d
    BY <1>1 DEF DiskInv, DiskTypeOK
  <2>3. \A v \in Buf \ {u} : lock'[v] = lock[v]
    BY <1>1 DEF DiskInv, DiskTypeOK
  <2>4. \A d \in Client \ {c} : pc[d] \in Owning => at[d] \in Buf \ {u}
    BY <1>1, DiskConstants DEF DiskInv, DiskTypeOK, OwnBlock, LockHeld, Owning
  <2>5. \A v \in Buf \ {u} : lock[v] # c
    BY <1>1 DEF DiskInv, LockHeld
  <2>. QED BY <1>1, <2>1, <2>2, <2>3, <2>4, <2>5 DEF DiskInv, LockHeld
<1>6. RequestOK'
  BY <1>1, <1>2 DEF DiskInv, DiskTypeOK, RequestOK, Owning, Writing, dataVars
<1>7. QueueOK'
  BY <1>1, <1>2, QueueKept DEF DiskInv, ioVars
<1>. QED BY <1>3, <1>4, <1>5, <1>6, <1>7, <1>8 DEF DiskInv

\* The list stays complete when a buffer moves to its front.
LEMMA FrontComplete ==
  ASSUME lru \in [Buf -> Buf], ListComplete, NEW u \in Buf
  PROVE  /\ ToFront(u) \in [Buf -> Buf]
         /\ \A v \in Buf : \E i \in Buf : ToFront(u)[i] = v
<1>. USE DiskConstants DEF Buf
<1>1. ToFront(u) \in [Buf -> Buf]
  <2>1. ASSUME NEW i \in Buf, i # 1 PROVE i - 1 \in Buf
    BY <2>1
  <2>2. \A i \in Buf : lru[i] \in Buf
    OBVIOUS
  <2>3. 1 \in Buf
    OBVIOUS
  <2>. QED BY <2>1, <2>2, <2>3 DEF ToFront
<1>2. ASSUME NEW v \in Buf PROVE \E i \in Buf : ToFront(u)[i] = v
  <2>1. CASE v = u
    BY <2>1 DEF ToFront
  <2>2. CASE v # u
    <3>1. PICK k \in Buf : lru[k] = v
      BY DEF ListComplete
    <3>2. CASE \E j \in (k + 1)..NBUF : lru[j] = u
      <4>1. k + 1 \in Buf /\ k + 1 # 1
        BY <3>2
      <4>2. ToFront(u)[k + 1] = v
        BY <3>1, <3>2, <4>1 DEF ToFront
      <4>. QED BY <4>1, <4>2
    <3>3. CASE ~ \E j \in (k + 1)..NBUF : lru[j] = u
      <4>1. ~ \E j \in k..NBUF : lru[j] = u
        BY <2>2, <3>1, <3>3
      <4>2. k # 1
        BY <4>1 DEF ListComplete
      <4>. QED BY <3>1, <4>1, <4>2 DEF ToFront
    <3>. QED BY <3>2, <3>3
  <2>. QED BY <2>1, <2>2
<1>. QED BY <1>1, <1>2

\* The client leaves its buffer.
LEMMA UnrefKeeps ==
  ASSUME DiskInv, NEW c \in Client, Unref(c)
  PROVE  DiskInv'
<1>. DEFINE u == at[c]
<1>1. /\ pc[c] = "unref" /\ u \in Buf /\ u # None
      /\ pc' = [pc EXCEPT ![c] = "idle"]
      /\ want' = [want EXCEPT ![c] = None] /\ at' = [at EXCEPT ![c] = None]
      /\ refcnt' = [refcnt EXCEPT ![u] = @ - 1]
      /\ lru' = ToFront(u) \/ lru' = lru
      /\ UNCHANGED <<blockno, ioVars, dataVars, lock, seen, panicked>>
  BY DEF Unref, At, Go, DiskInv, DiskTypeOK, OwnBlock
<1>2. Counted' /\ refcnt' \in [Buf -> Nat]
  BY <1>1, Leaves DEF DiskInv
<1>3. lru' \in [Buf -> Buf] /\ ListComplete'
  <2>1. lru \in [Buf -> Buf] /\ ListComplete
    BY DEF DiskInv, DiskTypeOK
  <2>2. CASE lru' = lru
    BY <2>1, <2>2 DEF ListComplete
  <2>3. CASE lru' = ToFront(u)
    BY <1>1, <2>1, <2>3, FrontComplete DEF ListComplete
  <2>. QED BY <1>1, <2>2, <2>3
<1>4. DiskTypeOK' /\ OwnBlock'
  BY <1>1, <1>2, <1>3 DEF DiskInv, DiskTypeOK, OwnBlock, Pc, ioVars, dataVars
<1>5. OneBuffer' /\ CleanAgrees' /\ DriveOK'
  BY <1>1 DEF DiskInv, OneBuffer, CleanAgrees, DriveOK, ioVars, dataVars
<1>6. LockHeld'
  BY <1>1 DEF DiskInv, DiskTypeOK, LockHeld, Owning
<1>7. RequestOK'
  BY <1>1 DEF DiskInv, DiskTypeOK, RequestOK, Owning, Writing, dataVars
<1>8. QueueOK'
  BY <1>1, QueueKept DEF DiskInv, DiskTypeOK, ioVars
<1>. QED BY <1>2, <1>3, <1>4, <1>5, <1>6, <1>7, <1>8 DEF DiskInv

\* A request enters the queue, and starts the drive if it is the only one.
LEMMA IderwKeeps ==
  ASSUME DiskInv, NEW c \in Client, Iderw(c)
  PROVE  DiskInv'
<1>. DEFINE u == at[c]
<1>1. /\ pc[c] = "iderw" /\ u \in Buf /\ idequeue \in Seq(Buf)
      /\ idequeue' = Append(idequeue, u)
      /\ drive' = IF idequeue = <<>> THEN Idestart(u) ELSE drive
      /\ pc' = [pc EXCEPT ![c] = "io"]
      /\ UNCHANGED <<cacheVars, disk, dataVars, lock, want, at, seen, panicked>>
  BY DEF Iderw, At, Go, DiskInv, DiskTypeOK, OwnBlock
<1>2. idequeue' \in Seq(Buf) /\ drive' \in [state : {"idle", "busy", "done"}, write : BOOLEAN,
        block : Block \union {None}, data : Val \union {None}]
  BY <1>1 DEF DiskInv, DiskTypeOK, Idestart
<1>3. DiskTypeOK' /\ OwnBlock'
  BY <1>1, <1>2 DEF DiskInv, DiskTypeOK, OwnBlock, Pc, cacheVars, dataVars
<1>4. OneBuffer' /\ ListComplete' /\ Counted' /\ CleanAgrees'
  BY <1>1 DEF DiskInv, OneBuffer, ListComplete, Counted, CleanAgrees, cacheVars, dataVars
<1>5. LockHeld'
  <2>1. \A d \in Client : pc'[d] \in Owning <=> pc[d] \in Owning
    BY <1>1 DEF DiskInv, DiskTypeOK, Owning
  <2>. QED BY <1>1, <2>1 DEF DiskInv, LockHeld
<1>6. RequestOK'
  BY <1>1 DEF DiskInv, DiskTypeOK, RequestOK, Owning, Writing, dataVars
<1>7. QueueOK'
  <2>. DEFINE m == Len(idequeue)
  <2>1. /\ m \in Nat /\ Len(idequeue') = m + 1 /\ idequeue'[m + 1] = u
        /\ \A i \in 1..m : idequeue'[i] = idequeue[i]
    BY <1>1
  <2>2. \A d \in Client : pc[d] = "io" => pc'[d] = "io" /\ at'[d] = at[d] /\ at[d] # u
    BY <1>1, Alone DEF DiskInv, Owning
  <2>3. pc'[c] = "io" /\ at'[c] = u
    BY <1>1 DEF DiskInv, DiskTypeOK
  <2>4. \A i \in 1..m : /\ \E d \in Client : pc'[d] = "io" /\ at'[d] = idequeue[i]
                        /\ idequeue[i] # u
    BY <2>2 DEF DiskInv, QueueOK
  <2>5. \A i, j \in 1..m : idequeue[i] = idequeue[j] => i = j
    BY DEF DiskInv, QueueOK
  <2>. HIDE DEF m
  <2>6. \A i \in 1..(m + 1) : i \in 1..m \/ i = m + 1
    BY <2>1
  <2>. QED BY <2>1, <2>3, <2>4, <2>5, <2>6 DEF QueueOK
<1>8. DriveOK'
  <2>1. CASE idequeue = <<>>
    <3>1. Head(idequeue') = u /\ idequeue' # <<>> /\ drive' = Idestart(u)
      BY <1>1, <2>1
    <3>2. drive'.state = "busy" /\ drive'.block = blockno[u] /\ drive'.data = data[u]
      BY <3>1 DEF Idestart
    <3>3. drive'.write <=> u \in dirty
      BY <3>1 DEF Idestart
    <3>. QED BY <1>1, <3>1, <3>2, <3>3 DEF DriveOK, cacheVars, dataVars
  <2>2. CASE idequeue # <<>>
    <3>1. Head(idequeue') = Head(idequeue) /\ idequeue' # <<>> /\ drive' = drive
      BY <1>1, <2>2
    <3>. QED BY <1>1, <3>1 DEF DiskInv, DriveOK, cacheVars, dataVars
  <2>. QED BY <2>1, <2>2
<1>. QED BY <1>3, <1>4, <1>5, <1>6, <1>7, <1>8 DEF DiskInv

\* What the drive works on: a buffer of the cache and its block.
LEMMA DriveBlock ==
  ASSUME DiskInv, drive.state # "idle"
  PROVE  /\ Head(idequeue) \in Buf /\ drive.block = blockno[Head(idequeue)]
         /\ drive.block \in Block /\ idequeue # <<>>
<1>1. idequeue # <<>> /\ drive.block = blockno[Head(idequeue)]
  BY DEF DiskInv, DriveOK
<1>2. PICK c \in Client : pc[c] = "io" /\ at[c] = Head(idequeue)
  BY <1>1, HeadWaits DEF DiskInv
<1>3. blockno[at[c]] = want[c] /\ want[c] \in Block
  BY <1>2 DEF DiskInv, DiskTypeOK, OwnBlock
<1>. QED BY <1>1, <1>2, <1>3, HeadWaits DEF DiskInv

\* The drive writes or reads a block.
LEMMA DriveKeeps ==
  ASSUME DiskInv, DriveDone
  PROVE  DiskInv'
<1>. DEFINE u == Head(idequeue)
<1>1. /\ drive.state = "busy" /\ drive.data = data[u] /\ (drive.write <=> u \in dirty)
      /\ drive' = [drive EXCEPT !.state = "done", !.data = disk'[drive.block]]
      /\ disk' = IF drive.write THEN [disk EXCEPT ![drive.block] = drive.data] ELSE disk
      /\ UNCHANGED <<cacheVars, idequeue, dataVars, lock, clientVars, panicked>>
  BY DEF DriveDone, DiskInv, DriveOK
<1>2. u \in Buf /\ drive.block = blockno[u] /\ drive.block \in Block /\ idequeue # <<>>
  BY <1>1, DriveBlock
<1>3. data[u] \in Val /\ disk' \in [Block -> Val]
  BY <1>1, <1>2 DEF DiskInv, DiskTypeOK
<1>4. /\ drive' \in [state : {"idle", "busy", "done"}, write : BOOLEAN,
                     block : Block \union {None}, data : Val \union {None}]
      /\ drive'.state = "done" /\ drive'.write = drive.write
      /\ drive'.block = drive.block /\ drive'.data = disk'[drive.block]
  BY <1>1, <1>2, <1>3 DEF DiskInv, DiskTypeOK
<1>5. DiskTypeOK'
  BY <1>1, <1>3, <1>4 DEF DiskInv, DiskTypeOK, cacheVars, dataVars, clientVars
<1>6. OwnBlock' /\ OneBuffer' /\ ListComplete' /\ Counted' /\ LockHeld' /\ RequestOK' /\ QueueOK'
  BY <1>1 DEF DiskInv, OwnBlock, OneBuffer, ListComplete, Counted, LockHeld, RequestOK, QueueOK,
              Writing, cacheVars, dataVars, clientVars
<1>7. CleanAgrees'
  <2>1. \A v \in valid \ dirty : drive.write => blockno[v] # drive.block
    <3>1. drive.block # None /\ valid \subseteq Buf
      BY <1>2, DiskConstants DEF DiskInv, DiskTypeOK
    <3>2. drive.write => u \in dirty
      BY <1>1
    <3>. QED BY <1>2, <3>1, <3>2 DEF DiskInv, OneBuffer
  <2>2. \A v \in valid \ dirty : disk'[blockno[v]] = disk[blockno[v]]
    BY <1>1, <2>1 DEF DiskInv, DiskTypeOK, CleanAgrees
  <2>. QED BY <1>1, <2>2 DEF DiskInv, CleanAgrees, cacheVars, dataVars
<1>8. DriveOK'
  <2>1. drive.write => disk'[drive.block] = data[u]
    BY <1>1, <1>2 DEF DiskInv, DiskTypeOK
  <2>. QED BY <1>1, <1>2, <1>4, <2>1 DEF DriveOK, cacheVars, dataVars
<1>. QED BY <1>5, <1>6, <1>7, <1>8 DEF DiskInv

\* The interrupt ends the first request and starts the next one.
LEMMA InterruptKeeps ==
  ASSUME DiskInv, Ideintr
  PROVE  DiskInv'
<1>. DEFINE u == Head(idequeue)
<1>1. /\ drive.state = "done" /\ drive.data = disk[drive.block]
      /\ drive.write => drive.data = data[u]
      /\ drive.write <=> u \in dirty
      /\ data' = IF u \in dirty THEN data ELSE [data EXCEPT ![u] = drive.data]
      /\ valid' = valid \union {u} /\ dirty' = dirty \ {u}
      /\ pc' = [c \in Client |-> IF pc[c] = "io" /\ at[c] = u THEN "awake" ELSE pc[c]]
      /\ idequeue' = Tail(idequeue) /\ drive' = StartNext(idequeue')
      /\ UNCHANGED <<cacheVars, disk, lock, want, at, seen, panicked>>
  BY DEF Ideintr, DiskInv, DriveOK
<1>2. u \in Buf /\ drive.block = blockno[u] /\ drive.block \in Block /\ idequeue # <<>>
  BY <1>1, DriveBlock
<1>3. drive.data \in Val
  BY <1>1, <1>2 DEF DiskInv, DiskTypeOK
<1>4. PICK c \in Client : pc[c] = "io" /\ at[c] = u
  BY <1>2, HeadWaits DEF DiskInv
<1>5. \A d \in Client : pc[d] \in Owning /\ at[d] = u => d = c
  BY <1>4, Alone DEF DiskInv, Owning
<1>6. /\ pc'[c] = "awake"
      /\ \A d \in Client \ {c} : pc'[d] = pc[d]
  BY <1>1, <1>4, <1>5 DEF Owning
<1>7. /\ idequeue \in Seq(Buf) /\ idequeue' \in Seq(Buf)
      /\ Len(idequeue') \in Nat /\ Len(idequeue') = Len(idequeue) - 1
      /\ \A i \in 1..Len(idequeue') : idequeue'[i] = idequeue[i + 1]
  BY <1>1, <1>2 DEF DiskInv, DiskTypeOK
<1>8. ASSUME NEW i \in 1..Len(idequeue')
      PROVE  /\ idequeue'[i] \in Buf /\ idequeue'[i] # u
             /\ \E d \in Client : pc'[d] = "io" /\ at'[d] = idequeue'[i]
  <2>1. i + 1 \in 1..Len(idequeue) /\ 1 \in 1..Len(idequeue) /\ i + 1 # 1
    BY <1>7
  <2>2. idequeue[i + 1] # u
    BY <1>2, <2>1, HeadWaits DEF DiskInv, QueueOK
  <2>3. PICK d \in Client : pc[d] = "io" /\ at[d] = idequeue[i + 1]
    BY <2>1 DEF DiskInv, QueueOK
  <2>4. d # c
    BY <1>4, <2>2, <2>3
  <2>. QED BY <1>1, <1>6, <1>7, <2>1, <2>2, <2>3, <2>4
<1>9. \A v \in Buf \ {u} : (v \in dirty' <=> v \in dirty) /\ (v \in valid' <=> v \in valid)
  BY <1>1
<1>10. /\ data' \in [Buf -> Val] /\ data'[u] = disk[blockno[u]]
      /\ \A v \in Buf \ {u} : data'[v] = data[v]
  <2>1. data \in [Buf -> Val] /\ drive.data = disk[blockno[u]]
    BY <1>1, <1>2 DEF DiskInv, DiskTypeOK
  <2>2. CASE u \in dirty
    <3>1. data' = data /\ drive.data = data[u]
      BY <1>1, <2>2
    <3>. QED BY <2>1, <3>1
  <2>3. CASE u \notin dirty
    <3>1. data' = [data EXCEPT ![u] = drive.data]
      BY <1>1, <2>3
    <3>. QED BY <1>2, <1>3, <2>1, <3>1
  <2>. QED BY <2>2, <2>3
<1>11. /\ drive' \in [state : {"idle", "busy", "done"}, write : BOOLEAN,
                      block : Block \union {None}, data : Val \union {None}]
       /\ DriveOK'
  <2>1. CASE idequeue' = <<>>
    <3>1. drive' = Idle
      BY <1>1, <2>1 DEF StartNext
    <3>2. drive' \in [state : {"idle", "busy", "done"}, write : BOOLEAN,
                      block : Block \union {None}, data : Val \union {None}]
      BY <3>1 DEF Idle
    <3>3. drive'.state = "idle"
      BY <3>1 DEF Idle
    <3>. QED BY <3>2, <3>3 DEF DriveOK
  <2>2. CASE idequeue' # <<>>
    <3>. DEFINE z == Head(idequeue')
    <3>1. 1 \in 1..Len(idequeue') /\ z = idequeue'[1]
      BY <1>7, <2>2
    <3>2. z \in Buf \ {u}
      BY <1>8, <3>1
    <3>3. drive' = Idestart(z)
      BY <1>1, <2>2 DEF StartNext
    <3>4. /\ drive'.state = "busy" /\ drive'.block = blockno[z] /\ drive'.data = data[z]
          /\ drive' \in [state : {"idle", "busy", "done"}, write : BOOLEAN,
                         block : Block \union {None}, data : Val \union {None}]
      BY <3>2, <3>3 DEF Idestart, DiskInv, DiskTypeOK
    <3>5. drive'.write <=> z \in dirty
      BY <3>3 DEF Idestart
    <3>6. data'[z] = data[z] /\ (z \in dirty' <=> z \in dirty) /\ blockno'[z] = blockno[z]
      BY <1>1, <1>10, <1>9, <3>2 DEF cacheVars
    <3>. HIDE DEF z
    <3>7. drive'.write <=> z \in dirty'
      BY <3>5, <3>6
    <3>. QED BY <2>2, <3>4, <3>6, <3>7 DEF DriveOK, z
  <2>. QED BY <2>1, <2>2
<1>12. pc' \in [Client -> Pc]
  BY <1>1 DEF DiskInv, DiskTypeOK, Pc
<1>13. DiskTypeOK'
  BY <1>1, <1>2, <1>7, <1>10, <1>9, <1>11, <1>12 DEF DiskInv, DiskTypeOK, cacheVars
<1>14. OneBuffer' /\ ListComplete' /\ Counted'
  BY <1>1 DEF DiskInv, OneBuffer, ListComplete, Counted, cacheVars
<1>15. OwnBlock' /\ LockHeld'
  BY <1>1, <1>4, <1>6 DEF DiskInv, OwnBlock, LockHeld, Owning, cacheVars
<1>16. RequestOK'
  <2>1. u \in valid' \ dirty'
    BY <1>1
  <2>2. \A d \in Client \ {c} : pc[d] \in Owning => at[d] \in Buf \ {u}
    BY <1>5, DiskConstants DEF DiskInv, DiskTypeOK, OwnBlock, Owning
  <2>. QED BY <1>1, <1>4, <1>6, <1>10, <1>9, <2>1, <2>2 DEF DiskInv, RequestOK, Owning, Writing
<1>17. CleanAgrees'
  <2>1. blockno[u] \in Block /\ dirty' \subseteq valid' /\ valid' \subseteq Buf
    BY <1>1, <1>2 DEF DiskInv, DiskTypeOK, CleanAgrees
  <2>. QED BY <1>1, <1>10, <1>9, <2>1 DEF DiskInv, CleanAgrees, cacheVars
<1>18. QueueOK'
  <2>1. ASSUME NEW i \in 1..Len(idequeue'), NEW j \in 1..Len(idequeue'), idequeue'[i] = idequeue'[j]
        PROVE  i = j
    <3>1. i + 1 \in 1..Len(idequeue) /\ j + 1 \in 1..Len(idequeue)
      BY <1>7
    <3>2. i + 1 = j + 1
      BY <1>7, <2>1, <3>1 DEF DiskInv, QueueOK
    <3>. QED BY <1>7, <3>2
  <2>. QED BY <1>8, <2>1 DEF QueueOK
<1>. QED BY <1>11, <1>13, <1>14, <1>15, <1>16, <1>17, <1>18 DEF DiskInv

\* The client returns from iderw.
LEMMA AwakeKeeps ==
  ASSUME DiskInv, NEW c \in Client, Awake(c)
  PROVE  DiskInv'
<1>. DEFINE u == at[c]
<1>1. /\ pc[c] = "awake" /\ u \in Buf /\ u \in valid \ dirty /\ data[u] \in Val /\ data[u] # None
      /\ pc' = [pc EXCEPT ![c] = "own"]
      /\ seen' = [seen EXCEPT ![c] = IF @ = None THEN data[u] ELSE @]
      /\ UNCHANGED <<cacheVars, ioVars, dataVars, lock, want, at, panicked>>
  BY DiskConstants DEF Awake, At, Go, DiskInv, DiskTypeOK, OwnBlock
<1>2. seen' \in [Client -> Val \union {None}] /\ seen'[c] # None
      /\ \A d \in Client \ {c} : seen'[d] = seen[d]
  BY <1>1 DEF DiskInv, DiskTypeOK
<1>3. DiskTypeOK' /\ OwnBlock'
  BY <1>1, <1>2 DEF DiskInv, DiskTypeOK, OwnBlock, Pc, cacheVars, ioVars, dataVars
<1>4. OneBuffer' /\ ListComplete' /\ Counted' /\ CleanAgrees' /\ DriveOK'
  BY <1>1 DEF DiskInv, OneBuffer, ListComplete, Counted, CleanAgrees, DriveOK,
              cacheVars, ioVars, dataVars
<1>5. LockHeld'
  <2>1. \A d \in Client : pc'[d] \in Owning <=> pc[d] \in Owning
    BY <1>1 DEF DiskInv, DiskTypeOK, Owning
  <2>. QED BY <1>1, <2>1 DEF DiskInv, LockHeld
<1>6. RequestOK'
  BY <1>1, <1>2 DEF DiskInv, DiskTypeOK, RequestOK, Owning, Writing, dataVars
<1>7. QueueOK'
  BY <1>1, QueueKept DEF DiskInv, DiskTypeOK, ioVars
<1>. QED BY <1>3, <1>4, <1>5, <1>6, <1>7 DEF DiskInv

\* A panic and a step of nobody change nothing that the invariant speaks of.
LEMMA RestKeeps ==
  ASSUME DiskInv,
         UNCHANGED <<cacheVars, ioVars, dataVars, lock, clientVars>>, panicked' \in {0, 1}
  PROVE  DiskInv'
<1>. USE DEF cacheVars, ioVars, dataVars, clientVars
<1>1. DiskTypeOK' /\ OwnBlock' /\ OneBuffer' /\ ListComplete' /\ Counted'
  BY DEF DiskInv, DiskTypeOK, OwnBlock, OneBuffer, ListComplete, Counted
<1>2. LockHeld' /\ RequestOK' /\ CleanAgrees'
  BY DEF DiskInv, LockHeld, RequestOK, CleanAgrees, Writing
<1>3. QueueOK' /\ DriveOK'
  BY DEF DiskInv, QueueOK, DriveOK
<1>. QED BY <1>1, <1>2, <1>3 DEF DiskInv

\* The state after binit.
LEMMA InitHolds == DiskInit => DiskInv
<1>. SUFFICES ASSUME DiskInit PROVE DiskInv
  OBVIOUS
<1>. USE DiskConstants
<1>1. DiskTypeOK
  BY DEF DiskInit, DiskTypeOK, Buf, Pc, Idle
<1>2. OwnBlock /\ OneBuffer
  BY DEF DiskInit, OwnBlock, OneBuffer
<1>3. ListComplete
  <2>1. ASSUME NEW u \in Buf PROVE \E i \in Buf : lru[i] = u
    <3>1. NBUF + 1 - u \in Buf /\ lru[NBUF + 1 - u] = u
      BY DEF DiskInit, Buf
    <3>. QED BY <3>1
  <2>. QED BY <2>1 DEF ListComplete
<1>4. Counted
  <2>1. ASSUME NEW u \in Buf PROVE refcnt[u] = Cardinality({c \in Client : at[c] = u})
    <3>1. {c \in Client : at[c] = u} = {} /\ refcnt[u] = 0
      BY DEF DiskInit, Buf
    <3>. QED BY <3>1, FS_EmptySet
  <2>. QED BY <2>1 DEF Counted
<1>5. LockHeld /\ RequestOK /\ CleanAgrees
  BY DEF DiskInit, LockHeld, RequestOK, CleanAgrees, Owning
<1>6. QueueOK /\ DriveOK
  BY DEF DiskInit, QueueOK, DriveOK, Idle
<1>. QED BY <1>1, <1>2, <1>3, <1>4, <1>5, <1>6 DEF DiskInv

(***************************************************************************)
(* The theorems.                                                           *)
(***************************************************************************)
\* Buffers, counts, locks, the queue and the drive agree in every reachable
\* state: what bget, acquiresleep, iderw, ideintr and brelse rely on.
THEOREM DiskInvariant == DiskSpec => []DiskInv
<1>1. DiskInv /\ [DiskNext]_diskvars => DiskInv'
  <2>. SUFFICES ASSUME DiskInv, [DiskNext]_diskvars PROVE DiskInv'
    OBVIOUS
  <2>1. ASSUME NEW c \in Client, NEW b \in Block, Bget(c, b) PROVE DiskInv'
    <3>1. BgetHit(c, b) \/ BgetRecycle(c, b)
      BY <2>1 DEF Bget
    <3>. QED BY <2>1, <3>1, HitKeeps, RecycleKeeps
  <2>2. ASSUME NEW c \in Client, NEW b \in Block, NoBuffers(c, b) PROVE DiskInv'
    BY <2>2, RestKeeps DEF NoBuffers
  <2>3. CASE UNCHANGED diskvars
    <3>1. panicked' \in {0, 1}
      BY <2>3 DEF diskvars, DiskInv, DiskTypeOK
    <3>. QED BY <2>3, <3>1, RestKeeps DEF diskvars
  <2>. QED BY <2>1, <2>2, <2>3, AcquireKeeps, ChangeKeeps, ReleaseKeeps, UnrefKeeps, IderwKeeps,
              DriveKeeps, InterruptKeeps, AwakeKeeps DEF DiskNext
<1>. QED BY <1>1, InitHolds, PTL DEF DiskSpec

(***************************************************************************)
(* The cache and the driver implement the block store.                     *)
(***************************************************************************)
\* A buffer with the content of a block is the only one that has it.
LEMMA ContentNow ==
  ASSUME DiskInv
  PROVE  /\ \A u \in valid : Content[blockno[u]] = data[u] /\ blockno[u] \in Block
         /\ \A b \in Block : (\A u \in valid : blockno[u] # b) => Content[b] = disk[b]
<1>1. ASSUME NEW u \in valid
      PROVE  Content[blockno[u]] = data[u] /\ blockno[u] \in Block
  <2>1. blockno[u] \in Block /\ blockno[u] # None /\ valid \subseteq Buf
    BY DiskConstants DEF DiskInv, DiskTypeOK, CleanAgrees
  <2>2. (CHOOSE z \in valid : blockno[z] = blockno[u]) = u
    BY <2>1 DEF DiskInv, OneBuffer
  <2>. QED BY <2>1, <2>2 DEF Content
<1>. QED BY <1>1 DEF Content

\* The same in the next state.
LEMMA ContentNext ==
  ASSUME DiskInv'
  PROVE  /\ \A u \in valid' : Content'[blockno'[u]] = data'[u] /\ blockno'[u] \in Block
         /\ \A b \in Block : (\A u \in valid' : blockno'[u] # b) => Content'[b] = disk'[b]
<1>1. ASSUME NEW u \in valid'
      PROVE  Content'[blockno'[u]] = data'[u] /\ blockno'[u] \in Block
  <2>1. blockno'[u] \in Block /\ blockno'[u] # None /\ valid' \subseteq Buf
    BY DiskConstants DEF DiskInv, DiskTypeOK, CleanAgrees
  <2>2. (CHOOSE z \in valid' : blockno'[z] = blockno'[u]) = u
    BY <2>1 DEF DiskInv, OneBuffer
  <2>. QED BY <2>1, <2>2 DEF Content
<1>. QED BY <1>1 DEF Content

\* Who has seen a block owns the one buffer that has it.
LEMMA HeldOwns ==
  ASSUME DiskInv, NEW c \in Client, Held(c)
  PROVE  /\ pc[c] \in Owning /\ at[c] \in Buf /\ want[c] \in Block
         /\ blockno[at[c]] = want[c] /\ lock[at[c]] = c
  BY DEF DiskInv, DiskTypeOK, RequestOK, OwnBlock, LockHeld, Held, Owning

\* A block is held by one client at a time.
LEMMA HeldByOne ==
  ASSUME DiskInv, NEW c \in Client, NEW d \in Client, Held(c), Held(d), want[c] = want[d]
  PROVE  c = d
<1>1. want[c] # None
  BY HeldOwns, DiskConstants
<1>. QED BY <1>1, HeldOwns DEF DiskInv, OneBuffer

LEMMA HolderNow ==
  ASSUME DiskInv
  PROVE  /\ \A c \in Client : Held(c) => Holder[want[c]] = c
         /\ \A b \in Block : (\A c \in Client : Held(c) => want[c] # b) => Holder[b] = None
<1>1. ASSUME NEW c \in Client, Held(c) PROVE Holder[want[c]] = c
  <2>1. (CHOOSE d \in Client : Held(d) /\ want[d] = want[c]) = c
    BY <1>1, HeldByOne
  <2>. QED BY <1>1, <2>1, HeldOwns DEF Holder
<1>. QED BY <1>1 DEF Holder

\* Holders change only with what clients have seen.
LEMMA HolderKept ==
  ASSUME \A c \in Client : /\ seen'[c] = None <=> seen[c] = None
                           /\ seen[c] # None => want'[c] = want[c]
  PROVE  Holder' = Holder
<1>1. \A b : \A c \in Client : Held(c)' /\ want'[c] = b <=> Held(c) /\ want[c] = b
  BY DEF Held
<1>. QED BY <1>1 DEF Holder

\* A step that keeps buffers, contents and the disk keeps what readers find.
LEMMA ContentKept ==
  ASSUME UNCHANGED <<blockno, valid, data, disk>>
  PROVE  Content' = Content
  BY DEF Content

\* A block that is recycled was clean: its content is on the disk.
LEMMA RecycleContent ==
  ASSUME DiskInv, DiskInv', NEW c \in Client, NEW b \in Block, BgetRecycle(c, b),
         UNCHANGED <<lru, disk>>
  PROVE  Content' = Content
<1>1. PICK u \in Buf : /\ u \notin dirty /\ blockno' = [blockno EXCEPT ![u] = b]
                       /\ valid' = valid \ {u} /\ data' = data
  BY DEF BgetRecycle, Unused, DiskInv, DiskTypeOK
<1>2. valid \subseteq Buf /\ blockno \in [Buf -> Block \union {None}] /\ disk' = disk
  BY DEF DiskInv, DiskTypeOK
<1>3. \A z \in valid' : z \in valid /\ blockno'[z] = blockno[z] /\ data'[z] = data[z]
  BY <1>1, <1>2
<1>4. ASSUME NEW x \in Block PROVE Content'[x] = Content[x]
  <2>1. CASE \E z \in valid' : blockno'[z] = x
    BY <1>3, <2>1, ContentNow, ContentNext
  <2>2. CASE \A z \in valid' : blockno'[z] # x
    <3>1. Content'[x] = disk[x]
      BY <1>2, <2>2, ContentNext
    <3>2. CASE u \in valid /\ blockno[u] = x
      BY <1>1, <3>1, <3>2, ContentNow DEF DiskInv, CleanAgrees
    <3>3. CASE ~(u \in valid /\ blockno[u] = x)
      <4>1. \A z \in valid : blockno[z] # x
        BY <1>1, <1>2, <2>2, <3>3
      <4>. QED BY <3>1, <4>1, ContentNow
    <3>. QED BY <3>2, <3>3
  <2>. QED BY <2>1, <2>2
<1>. QED BY <1>4 DEF Content

\* A change is one of the block that its owner holds.
LEMMA ChangeContent ==
  ASSUME DiskInv, DiskInv', NEW c \in Client, NEW v \in Val, Bwrite(c, v) \/ LogWrite(c, v)
  PROVE  Store!Change(c, want[c], v) /\ want[c] \in Block
<1>. DEFINE u == at[c]
<1>1. /\ pc[c] = "own" /\ data' = [data EXCEPT ![u] = v]
      /\ UNCHANGED <<cacheVars, ioVars, valid, lock, want, at, seen, panicked>>
  BY DEF Bwrite, LogWrite, Change, At, clientVars
<1>2. Held(c) /\ u \in valid /\ u \in Buf /\ blockno[u] = want[c] /\ want[c] \in Block
  BY <1>1, HeldOwns DEF DiskInv, RequestOK, Held
<1>3. data \in [Buf -> Val] /\ valid \subseteq Buf
  BY DEF DiskInv, DiskTypeOK
<1>4. ASSUME NEW x \in Block
      PROVE  Content'[x] = IF x = want[c] THEN v ELSE Content[x]
  <2>1. \A z \in valid : Content'[blockno[z]] = data'[z] /\ Content[blockno[z]] = data[z]
    BY <1>1, ContentNow, ContentNext DEF cacheVars
  <2>2. CASE x = want[c]
    BY <1>1, <1>2, <1>3, <2>1, <2>2
  <2>3. CASE x # want[c] /\ \E z \in valid : blockno[z] = x
    BY <1>1, <1>2, <1>3, <2>1, <2>3
  <2>4. CASE x # want[c] /\ \A z \in valid : blockno[z] # x
    BY <1>1, <2>4, ContentNow, ContentNext DEF cacheVars, ioVars
  <2>. QED BY <2>2, <2>3, <2>4
<1>5. Content' = [Content EXCEPT ![want[c]] = v]
  BY <1>4 DEF Content
<1>6. Holder' = Holder /\ Holder[want[c]] = c
  BY <1>1, <1>2, HolderKept, HolderNow
<1>. QED BY <1>1, <1>2, <1>5, <1>6 DEF Store!Change, ioVars

\* What the drive writes is the content of a block that somebody holds.
LEMMA DrivePersists ==
  ASSUME DiskInv, DiskInv', DriveDone
  PROVE  \/ \E b \in Block : Store!Persist(b)
         \/ UNCHANGED Store!vars
<1>. DEFINE u == Head(idequeue)
            b == drive.block
<1>1. /\ drive.state = "busy" /\ drive.data = data[u] /\ (drive.write <=> u \in dirty)
      /\ disk' = IF drive.write THEN [disk EXCEPT ![b] = drive.data] ELSE disk
      /\ UNCHANGED <<cacheVars, dataVars, clientVars>>
  BY DEF DriveDone, DiskInv, DriveOK
<1>2. u \in Buf /\ b = blockno[u] /\ b \in Block /\ idequeue # <<>>
  BY <1>1, DriveBlock
<1>3. Holder' = Holder /\ seen' = seen
  BY <1>1, HolderKept DEF clientVars
<1>4. CASE ~drive.write
  <2>1. disk' = disk
    BY <1>1, <1>4
  <2>2. Content' = Content
    BY <1>1, <2>1, ContentKept DEF cacheVars, dataVars
  <2>. QED BY <1>3, <2>1, <2>2 DEF Store!vars
<1>5. CASE drive.write
  <2>1. u \in dirty /\ u \in valid /\ disk' = [disk EXCEPT ![b] = data[u]]
    BY <1>1, <1>5 DEF DiskInv, CleanAgrees
  <2>2. Content[b] = data[u]
    BY <1>2, <2>1, ContentNow
  <2>3. Holder[b] # None
    <3>1. PICK c \in Client : pc[c] = "io" /\ at[c] = u
      BY <1>2, HeadWaits DEF DiskInv
    <3>2. Held(c) /\ want[c] = b
      BY <1>2, <2>1, <3>1 DEF DiskInv, RequestOK, OwnBlock, Writing, Held
    <3>. QED BY <3>2, HolderNow, DiskConstants
  <2>4. ASSUME NEW x \in Block PROVE Content'[x] = Content[x]
    <3>1. CASE \E z \in valid : blockno[z] = x
      BY <1>1, <3>1, ContentNow, ContentNext DEF cacheVars, dataVars
    <3>2. CASE \A z \in valid : blockno[z] # x
      <4>1. x # b
        BY <1>2, <2>1, <3>2
      <4>2. disk'[x] = disk[x]
        BY <2>1, <4>1 DEF DiskInv, DiskTypeOK
      <4>. QED BY <1>1, <3>2, <4>2, ContentNow, ContentNext DEF cacheVars, dataVars
    <3>. QED BY <3>1, <3>2
  <2>5. Content' = Content
    BY <2>4 DEF Content
  <2>. QED BY <1>2, <1>3, <2>1, <2>2, <2>3, <2>5 DEF Store!Persist
<1>. QED BY <1>4, <1>5

\* The interrupt validates a buffer with what is on the disk.
LEMMA InterruptContent ==
  ASSUME DiskInv, DiskInv', Ideintr
  PROVE  Content' = Content
<1>. DEFINE u == Head(idequeue)
<1>1. /\ drive.state = "done" /\ drive.data = disk[drive.block]
      /\ data' = IF u \in dirty THEN data ELSE [data EXCEPT ![u] = drive.data]
      /\ valid' = valid \union {u}
      /\ UNCHANGED <<cacheVars, disk>>
  BY DEF Ideintr, DiskInv, DriveOK
<1>2. u \in Buf /\ drive.block = blockno[u] /\ drive.block \in Block
  BY <1>1, DriveBlock
<1>3. data \in [Buf -> Val] /\ valid \subseteq Buf /\ dirty \subseteq valid
  BY DEF DiskInv, DiskTypeOK, CleanAgrees
<1>4. \A z \in valid : data'[z] = data[z]
  <2>1. CASE u \in dirty
    BY <1>1, <2>1
  <2>2. CASE u \notin dirty
    <3>1. u \in valid => data[u] = drive.data
      BY <1>1, <1>2, <2>2 DEF DiskInv, CleanAgrees
    <3>. QED BY <1>1, <1>3, <2>2, <3>1
  <2>. QED BY <2>1, <2>2
<1>5. u \notin valid => data'[u] = disk[blockno[u]]
  BY <1>1, <1>2, <1>3
<1>6. ASSUME NEW x \in Block PROVE Content'[x] = Content[x]
  <2>1. CASE \E z \in valid : blockno[z] = x
    BY <1>1, <1>4, <2>1, ContentNow, ContentNext DEF cacheVars
  <2>2. CASE (\A z \in valid : blockno[z] # x) /\ blockno[u] = x
    BY <1>1, <1>5, <2>2, ContentNow, ContentNext DEF cacheVars
  <2>3. CASE (\A z \in valid : blockno[z] # x) /\ blockno[u] # x
    BY <1>1, <2>3, ContentNow, ContentNext DEF cacheVars
  <2>. QED BY <2>1, <2>2, <2>3
<1>. QED BY <1>6 DEF Content

\* A client that finds its block valid in the buffer it owns now holds the
\* block, which nobody held before.
LEMMA SeesBlock ==
  ASSUME DiskInv, DiskInv', NEW c \in Client, NEW u \in Buf,
         at[c] = u, pc[c] # "idle", seen[c] = None, u \in valid,
         \A d \in Client : lock[u] = d => d = c,
         seen' = [seen EXCEPT ![c] = data[u]],
         UNCHANGED <<blockno, valid, data, disk, want>>
  PROVE  Store!Acquire(c, want[c]) /\ want[c] \in Block
<1>1. blockno[u] = want[c] /\ want[c] \in Block /\ None \notin Client \union Val
  BY ContentNow, DiskConstants DEF DiskInv, OwnBlock
<1>2. Content' = Content /\ Content[want[c]] = data[u]
  BY <1>1, ContentKept, ContentNow
<1>3. seen \in [Client -> Val \union {None}] /\ data[u] # None
  BY <1>1 DEF DiskInv, DiskTypeOK
<1>4. \A d \in Client : Held(d)' <=> Held(d) \/ d = c
  BY <1>3 DEF Held
<1>5. \A d \in Client : Held(d) => want[d] # want[c]
  <2>. SUFFICES ASSUME NEW d \in Client, Held(d), want[d] = want[c] PROVE FALSE
    OBVIOUS
  <2>1. at[d] \in Buf /\ blockno[at[d]] = blockno[u] /\ lock[at[d]] = d
    BY <1>1, HeldOwns
  <2>2. at[d] = u
    BY <1>1, <2>1, DiskConstants DEF DiskInv, OneBuffer
  <2>3. d = c
    BY <2>1, <2>2
  <2>. QED BY <2>3 DEF Held
<1>6. Holder[want[c]] = None
  BY <1>1, <1>5, HolderNow
<1>7. ASSUME NEW x \in Block
      PROVE  Holder'[x] = IF x = want[c] THEN c ELSE Holder[x]
  <2>1. CASE x = want[c]
    <3>1. (CHOOSE d \in Client : Held(d)' /\ want'[d] = x) = c
      BY <1>4, <1>5, <2>1
    <3>. QED BY <1>4, <2>1, <3>1 DEF Holder
  <2>2. CASE x # want[c]
    <3>1. \A d \in Client : Held(d)' /\ want'[d] = x <=> Held(d) /\ want[d] = x
      BY <1>4, <2>2
    <3>. QED BY <2>2, <3>1 DEF Holder
  <2>. QED BY <2>1, <2>2
<1>8. Holder' = [Holder EXCEPT ![want[c]] = c]
  <2>1. Holder = [x \in Block |-> Holder[x]] /\ Holder' = [x \in Block |-> Holder'[x]]
    BY DEF Holder
  <2>. QED BY <1>7, <2>1
<1>. QED BY <1>1, <1>2, <1>6, <1>8 DEF Store!Acquire

\* acquiresleep for a cached block, and the end of a read, acquire the block.
LEMMA AcquireSees ==
  ASSUME DiskInv, DiskInv', NEW c \in Client, AcquireSleep(c) \/ Awake(c)
  PROVE  \/ \E b \in Block : Store!Acquire(c, b)
         \/ UNCHANGED Store!vars
<1>1. at[c] \in Buf /\ pc[c] # "idle" /\ UNCHANGED <<blockno, valid, data, disk, want>>
  BY DiskConstants DEF AcquireSleep, Awake, At, DiskInv, DiskTypeOK, OwnBlock,
                       cacheVars, dataVars, ioVars
<1>2. CASE seen' = seen
  BY <1>1, <1>2, ContentKept, HolderKept DEF Store!vars
<1>3. CASE AcquireSleep(c) /\ seen' # seen
  <2>1. /\ pc[c] = "lock" /\ lock[at[c]] = None /\ at[c] \in valid
        /\ seen' = [seen EXCEPT ![c] = data[at[c]]]
    BY <1>3 DEF AcquireSleep, At, Locked
  <2>2. seen[c] = None /\ None \notin Client
    BY <2>1, DiskConstants DEF DiskInv, RequestOK, Owning
  <2>. QED BY <1>1, <2>1, <2>2, SeesBlock
<1>4. CASE Awake(c) /\ seen' # seen
  <2>1. /\ pc[c] = "awake" /\ at[c] \in valid /\ seen[c] = None
        /\ seen' = [seen EXCEPT ![c] = data[at[c]]]
    BY <1>4 DEF Awake, At, DiskInv, DiskTypeOK
  <2>2. lock[at[c]] = c
    BY <2>1 DEF DiskInv, LockHeld, Owning
  <2>. QED BY <1>1, <2>1, <2>2, SeesBlock
<1>. QED BY <1>2, <1>3, <1>4

\* releasesleep gives the block back.
LEMMA ReleaseGives ==
  ASSUME DiskInv, DiskInv', NEW c \in Client, Releasesleep(c)
  PROVE  \E b \in Block : Store!Release(c, b)
<1>1. /\ pc[c] = "own" /\ seen' = [seen EXCEPT ![c] = None]
      /\ UNCHANGED <<blockno, valid, data, disk, want>>
  BY DEF Releasesleep, At, cacheVars, dataVars, ioVars
<1>2. Held(c) /\ want[c] \in Block /\ Holder[want[c]] = c
  BY <1>1, HeldOwns, HolderNow DEF DiskInv, RequestOK, Held
<1>3. \A d \in Client : Held(d)' <=> Held(d) /\ d # c
  BY <1>1 DEF Held, DiskInv, DiskTypeOK
<1>4. ASSUME NEW x \in Block
      PROVE  Holder'[x] = IF x = want[c] THEN None ELSE Holder[x]
  <2>1. CASE x = want[c]
    <3>1. \A d \in Client : ~(Held(d)' /\ want'[d] = x)
      BY <1>1, <1>2, <1>3, <2>1, HeldByOne
    <3>. QED BY <2>1, <3>1 DEF Holder
  <2>2. CASE x # want[c]
    <3>1. \A d \in Client : Held(d)' /\ want'[d] = x <=> Held(d) /\ want[d] = x
      BY <1>1, <1>3, <2>2
    <3>. QED BY <2>2, <3>1 DEF Holder
  <2>. QED BY <2>1, <2>2
<1>5. Holder' = [Holder EXCEPT ![want[c]] = None]
  BY <1>4 DEF Holder
<1>. QED BY <1>1, <1>2, <1>5, ContentKept DEF Store!Release

\* The other steps of a client are not seen: bget, iderw, brelse's count.
LEMMA Unseen ==
  ASSUME DiskInv, DiskInv', NEW c \in Client,
         Iderw(c) \/ Unref(c) \/ \E b \in Block : Bget(c, b) \/ NoBuffers(c, b)
  PROVE  UNCHANGED Store!vars
<1>1. UNCHANGED <<disk, seen>>
  BY DEF Iderw, Unref, Bget, NoBuffers, ioVars, clientVars
<1>2. Content' = Content
  <2>1. ASSUME NEW b \in Block, Bget(c, b), BgetRecycle(c, b) PROVE Content' = Content
    BY <1>1, <2>1, RecycleContent DEF Bget
  <2>2. ASSUME NEW b \in Block, Bget(c, b), BgetHit(c, b) PROVE Content' = Content
    BY <1>1, <2>2, ContentKept DEF BgetHit, dataVars
  <2>3. CASE Iderw(c) \/ Unref(c) \/ \E b \in Block : NoBuffers(c, b)
    BY <1>1, <2>3, ContentKept DEF Iderw, Unref, NoBuffers, cacheVars, dataVars
  <2>. QED BY <2>1, <2>2, <2>3 DEF Bget
<1>3. \A d \in Client : seen[d] # None => want'[d] = want[d]
  <2>1. pc[c] \in Owning \/ seen[c] = None
    BY DEF DiskInv, RequestOK
  <2>2. ASSUME NEW d \in Client, seen[d] # None PROVE want'[d] = want[d]
    BY <2>1, <2>2 DEF Iderw, Unref, Bget, NoBuffers, At, Owning, clientVars, DiskInv, DiskTypeOK
  <2>. QED BY <2>2
<1>. QED BY <1>1, <1>2, <1>3, HolderKept DEF Store!vars

\* Every client gets the block it asked for, one client at a time, with what
\* the last one left in it: the cache, the sleep locks, the driver and the
\* drive implement the block store, with any number of buffers.
THEOREM DiskImplementsStore == DiskSpec => CacheIsStore
<1>1. DiskInit => Store!Init
  <2>. SUFFICES ASSUME DiskInit PROVE Store!Init
    OBVIOUS
  <2>1. Content = disk /\ disk \in [Block -> Val]
    BY DEF DiskInit, Content
  <2>2. Holder = [b \in Block |-> None] /\ seen = [c \in Client |-> None]
    BY DEF DiskInit, Holder, Held
  <2>. QED BY <2>1, <2>2 DEF Store!Init
<1>2. DiskInv /\ DiskInv' /\ [DiskNext]_diskvars => [Store!Next]_(Store!vars)
  <2>. SUFFICES ASSUME DiskInv, DiskInv', [DiskNext]_diskvars
                PROVE  Store!Next \/ UNCHANGED Store!vars
    OBVIOUS
  <2>1. CASE DriveDone
    BY <2>1, DrivePersists DEF Store!Next
  <2>2. CASE Ideintr
    <3>1. UNCHANGED <<disk, seen, want>>
      BY <2>2 DEF Ideintr
    <3>. QED BY <2>2, <3>1, InterruptContent, HolderKept DEF Store!vars
  <2>3. ASSUME NEW c \in Client, AcquireSleep(c) \/ Awake(c)
        PROVE  Store!Next \/ UNCHANGED Store!vars
    BY <2>3, AcquireSees DEF Store!Next
  <2>4. ASSUME NEW c \in Client, Releasesleep(c) PROVE Store!Next
    BY <2>4, ReleaseGives DEF Store!Next
  <2>5. ASSUME NEW c \in Client, NEW v \in Val, Bwrite(c, v) \/ LogWrite(c, v)
        PROVE  Store!Next
    BY <2>5, ChangeContent DEF Store!Next
  <2>6. ASSUME NEW c \in Client,
               Iderw(c) \/ Unref(c) \/ \E b \in Block : Bget(c, b) \/ NoBuffers(c, b)
        PROVE  UNCHANGED Store!vars
    BY <2>6, Unseen
  <2>7. CASE UNCHANGED diskvars
    <3>1. UNCHANGED <<blockno, valid, data, disk, seen, want>>
      BY <2>7 DEF diskvars, cacheVars, ioVars, dataVars, clientVars
    <3>. QED BY <3>1, ContentKept, HolderKept DEF Store!vars
  <2>. QED BY <2>1, <2>2, <2>3, <2>4, <2>5, <2>6, <2>7 DEF DiskNext
<1>. QED BY <1>1, <1>2, DiskInvariant, PTL DEF DiskSpec, CacheIsStore, Store!Spec

(***************************************************************************)
(* The spin locks.                                                         *)
(***************************************************************************)
USE SpinlockConstants

----------------------------------------------------------------------------
(* Sets of locks are finite, so that they can be counted.                  *)

\* A set of locks is finite, and empty if it has no element.
LEMMA HeldFinite ==
  ASSUME NEW S \in SUBSET Spin
  PROVE  /\ IsFiniteSet(S) /\ Cardinality(S) \in Nat
         /\ Cardinality(S) = 0 <=> S = {}
  <1>1. IsFiniteSet(S)
    BY FS_Subset
  <1> QED
    BY <1>1, FS_CardinalityType, FS_EmptySet

\* acquire() adds one to the locks of a task.
LEMMA OneMore ==
  ASSUME NEW S \in SUBSET Spin, NEW l \in Spin \ S
  PROVE  Cardinality(S \union {l}) = Cardinality(S) + 1
  BY HeldFinite, FS_AddElement

\* release() takes one away.
LEMMA OneLess ==
  ASSUME NEW S \in SUBSET Spin, NEW l \in S
  PROVE  Cardinality(S \ {l}) = Cardinality(S) - 1
  BY HeldFinite, FS_RemoveElement

----------------------------------------------------------------------------
(* A CPU runs one task, and no other CPU runs it.                          *)

\* Exactly one CPU runs a task that runs.
LEMMA OnTask ==
  ASSUME SpinInv, NEW c \in Cpu
  PROVE  /\ On(c) \in Task
         /\ running[c] = Nil => On(c) = c
         /\ running[c] # Nil => On(c) = running[c] /\ On(c) \in Thread
         /\ \A d \in Cpu : On(c) = On(d) => c = d
  BY DEF SpinInv, SpinTypeOK, OneCpu, On, Task

\* A step of the task of one CPU that touches nothing of the others preserves what
\* holds of them.
LEMMA StepHere ==
  ASSUME SpinInv, SpinTypeOK', NEW c \in Cpu, NEW t, t = On(c),
         running' = running, death' = "",
         \A d \in Cpu : d # c => /\ ncli'[d] = ncli[d] /\ turn'[d] = turn[d]
                                 /\ d \in intena' <=> d \in intena
                                 /\ d \in fl_if' <=> d \in fl_if,
         \A u \in Task : u # t => /\ point'[u] = point[u] /\ lk'[u] = lk[u] /\ held'[u] = held[u]
                                  /\ frames'[u] = frames[u] /\ mine'[u] = mine[u]
                                  /\ u \in eflags' <=> u \in eflags
                                  /\ u \in saved' <=> u \in saved,
         CpuOK(c)', t \in Thread => ProcessOK(t)', FrameOK(t)', LocksOK'
  PROVE  SpinInv'
<1>1. \A d \in Cpu : On(d)' = On(d)
  BY DEF On
<1>2. ASSUME NEW d \in Cpu, d # c PROVE CpuOK(d)'
  <2>1. On(d) # t /\ On(d) \in Task /\ d \in Task
    BY OnTask, <1>2 DEF Task
  <2>2. CpuOK(d)
    BY DEF SpinInv
  <2>3. d # t
    <3>1. CASE running[c] = Nil
      BY <1>2, <3>1, OnTask
    <3>2. CASE running[c] # Nil
      BY <3>2, OnTask, SpinlockConstants
    <3>. QED BY <3>1, <3>2
  <2>4. CountOK(d, On(d))' /\ PointOK(d, On(d))'
    <3>1. CountOK(d, On(d)) /\ PointOK(d, On(d))
      BY <2>2 DEF CpuOK
    <3>2. On(d)' = On(d) /\ ncli'[d] = ncli[d] /\ (d \in fl_if' <=> d \in fl_if)
      BY <1>1, <1>2
    <3>3. /\ point'[On(d)] = point[On(d)] /\ lk'[On(d)] = lk[On(d)]
          /\ held'[On(d)] = held[On(d)] /\ mine'[On(d)] = mine[On(d)]
          /\ On(d) \in eflags' <=> On(d) \in eflags
      BY <2>1
    <3>4. CountOK(d, On(d))'
      BY <3>1, <3>2, <3>3 DEF CountOK
    <3>. QED BY <3>1, <3>2, <3>3, <3>4 DEF PointOK
  <2>5. CASE running[d] = Nil
    <3>1. On(d) = d
      BY <2>5 DEF On
    <3>. QED BY <1>2, <2>1, <2>2, <2>4, <2>5, <3>1 DEF CpuOK, SchedulerFlags
  <2>6. CASE running[d] # Nil
    <3>1. On(d) = running[d]
      BY <2>6 DEF On
    <3>. QED BY <1>2, <2>1, <2>2, <2>3, <2>4, <2>6, <3>1 DEF CpuOK, ProcessFlags
  <2>. QED BY <2>5, <2>6
<1>3. ASSUME NEW y \in Thread PROVE ProcessOK(y)'
  <2>1. CASE y = t
    BY <2>1
  <2>2. CASE y # t
    BY <2>2 DEF SpinInv, ProcessOK, WaitingOK, Waiting, Task
  <2>. QED BY <2>1, <2>2
<1>4. ASSUME NEW u \in Task PROVE FrameOK(u)'
  <2>1. CASE u = t
    BY <2>1
  <2>2. CASE u # t
    <3>1. FrameOK(u) /\ frames'[u] = frames[u]
      BY <2>2 DEF SpinInv
    <3>. QED BY ONLY <3>1 DEF FrameOK
  <2>. QED BY <2>1, <2>2
<1>. QED BY <1>2, <1>3, <1>4 DEF SpinInv, NoDeath, OneCpu

\* What a task does that only reads, moves on or works on its own variables leaves the locks as they are.
LocksStay(c, t) ==
  /\ t = On(c) /\ running' = running /\ locked' = locked /\ owner' = owner /\ held' = held
  /\ \A u \in Task : u # t => point'[u] = point[u] /\ lk'[u] = lk[u]
  /\ point[t] \notin {"own", "unlock"} /\ point'[t] \notin {"own", "unlock"}

LEMMA LocksKept ==
  ASSUME SpinInv, NEW c \in Cpu, NEW t, LocksStay(c, t)
  PROVE  LocksOK'
  BY OnTask DEF LocksStay, SpinInv, LocksOK, Has, On

\* What the invariant says of a CPU and of the task that it runs.
HereOK(c, t) ==
  /\ t \in Task /\ held[t] \in SUBSET Spin /\ lk[t] \in Spin \union {Nil} /\ point[t] \in Point
  /\ ncli[c] \in Nat /\ Cardinality(held[t]) \in Nat
  /\ CountOK(c, t) /\ PointOK(c, t) /\ FrameOK(t)
  /\ running[c] = Nil => t = c /\ t \notin Thread /\ SchedulerFlags(c)
  /\ running[c] # Nil => /\ running[c] = t /\ t \in Thread /\ t # c
                         /\ ProcessFlags(c, t) /\ ProcessOK(t) /\ turn[c] = "tail"
                         /\ point[c] = "run" /\ frames[c] = <<>> /\ held[c] = {}
  /\ \A l \in Spin : owner[l] = c <=> l \in held[t]

\* That is what the invariant says.
LEMMA Here ==
  ASSUME SpinInv, NEW c \in Cpu, NEW t, t = On(c)
  PROVE  HereOK(c, t)
<1>1. t \in Task /\ held[t] \in SUBSET Spin
  BY OnTask DEF SpinInv, SpinTypeOK
<1>2. Cardinality(held[t]) \in Nat
  BY <1>1, HeldFinite
<1>. QED BY <1>1, <1>2, OnTask DEF HereOK, SpinInv, SpinTypeOK, CpuOK, LocksOK, On, Task

\* What remains to be shown of the CPU whose task makes a step.
LEMMA HereAgain ==
  ASSUME SpinInv, NEW c \in Cpu, NEW t, t = On(c), running' = running,
         CountOK(c, t)', PointOK(c, t)',
         running[c] = Nil => SchedulerFlags(c)',
         running[c] # Nil => /\ ProcessFlags(c, t)' /\ turn'[c] = turn[c]
                             /\ UNCHANGED <<point[c], frames[c], held[c]>>
  PROVE  CpuOK(c)'
<1>1. HereOK(c, t)
  BY Here
<1>2. On(c)' = t
  BY DEF On
<1>. QED BY <1>1, <1>2 DEF HereOK, CpuOK

\* The flags of a CPU stay right while its task works between pushcli and popcli.
LEMMA FlagsKept ==
  ASSUME SpinInv, NEW c \in Cpu, NEW t, t = On(c), running' = running, point[t] # "swtch",
         UNCHANGED <<ncli, intena, fl_if, frames, turn>>
  PROVE  /\ running[c] = Nil => SchedulerFlags(c)'
         /\ running[c] # Nil => ProcessFlags(c, t)'
<1>1. HereOK(c, t)
  BY Here
<1>2. running[c] = Nil => SchedulerFlags(c)
  BY <1>1 DEF HereOK
<1>3. running[c] # Nil => ProcessFlags(c, t)
  BY <1>1 DEF HereOK
<1>. QED BY <1>2, <1>3 DEF SchedulerFlags, ProcessFlags

\* A process on a CPU need not satisfy what waiting ones do.
LEMMA OnProcess ==
  ASSUME SpinInv, NEW c \in Cpu, NEW t, t = On(c), running' = running,
         point'[t] \notin {"new", "swtch"}
  PROVE  t \in Thread => ProcessOK(t)'
<1>1. t \in Thread => running[c] = t
  BY Here DEF HereOK
<1>. QED BY <1>1 DEF ProcessOK, WaitingOK, Waiting

\* The frame of a handler stays as it is while the handler runs.
LEMMA FrameKept ==
  ASSUME SpinInv, NEW c \in Cpu, NEW t, t = On(c), frames'[t] = frames[t]
  PROVE  FrameOK(t)'
<1>1. FrameOK(t)
  BY Here DEF HereOK
<1>. QED BY <1>1 DEF FrameOK

\* The scheduler that has switched to a process is left alone by what the process does.
LEMMA BelowKept ==
  ASSUME SpinInv, NEW c \in Cpu, NEW t, t = On(c),
         \A u \in Task : u # t => /\ point'[u] = point[u] /\ lk'[u] = lk[u]
                                  /\ held'[u] = held[u] /\ frames'[u] = frames[u]
  PROVE  running[c] # Nil => UNCHANGED <<point[c], frames[c], held[c]>>
<1>1. running[c] # Nil => c # t
  BY Here DEF HereOK
<1>. QED BY <1>1 DEF Task

----------------------------------------------------------------------------
(* Every step preserves the invariant, one lemma for each action.          *)

\* The read of the flags at the head of pushcli: eflags is FL_IF until they are cleared.
LEMMA ReadeflagsKeeps ==
  ASSUME SpinInv, NEW c \in Cpu, NEW t \in Task, NEW l \in Spin \union {Nil}, Readeflags(t, c, l)
  PROVE  SpinInv'
<1>1. /\ t = On(c) /\ point[t] = "run" /\ l \notin held[t]
      /\ lk' = [lk EXCEPT ![t] = l] /\ point' = [point EXCEPT ![t] = "cli"]
      /\ eflags' = SetTo(eflags, t, c \in fl_if)
      /\ UNCHANGED <<locked, owner, ncli, intena, fl_if, running, turn, held, frames, saved, mine>>
      /\ death = "" /\ death' = ""
  BY DEF Readeflags, Runs, Goto, MayTake, cpuvars, SpinInv, SpinTypeOK
<1>h. HereOK(c, t)
  BY <1>1, Here
<1>2. SpinTypeOK' /\ SpinTypeOK
  BY <1>1 DEF SpinInv, SpinTypeOK, SetTo, Point
<1>3. /\ point'[t] = "cli" /\ lk'[t] = l /\ (t \in eflags' <=> c \in fl_if)
      /\ \A u \in Task : u # t => point'[u] = point[u] /\ lk'[u] = lk[u] /\ (u \in eflags' <=> u \in eflags)
  BY <1>1, <1>2 DEF SpinTypeOK, SetTo
<1>4. CpuOK(c)'
  <2>1. CountOK(c, t)' /\ PointOK(c, t)'
    BY <1>1, <1>3, <1>h DEF HereOK, CountOK, PointOK, InHand
  <2>2. running[c] = Nil => SchedulerFlags(c)'
    BY <1>1, <1>h DEF HereOK, SchedulerFlags
  <2>3. running[c] # Nil => ProcessFlags(c, t)'
    BY <1>1, <1>3, <1>h DEF HereOK, ProcessFlags
  <2>. QED BY <1>1, <1>3, <2>1, <2>2, <2>3, <1>h, HereAgain DEF HereOK, Task
<1>5. LocksOK'
  <2>1. LocksStay(c, t)
    BY <1>1, <1>3 DEF LocksStay
  <2>. QED BY <2>1, LocksKept
<1>6. FrameOK(t)' /\ (t \in Thread => ProcessOK(t)')
  BY <1>1, <1>3, <1>h DEF HereOK, FrameOK, ProcessOK, WaitingOK, Waiting, On
<1>. QED BY <1>1, <1>2, <1>3, <1>4, <1>5, <1>6, StepHere

\* pushcli counts the lock in hand and remembers FL_IF at the first one; the check of
\* acquire() cannot fail.
LEMMA PushcliKeeps ==
  ASSUME SpinInv, NEW c \in Cpu, NEW t \in Task, Pushcli(t, c)
  PROVE  SpinInv'
<1>1. /\ t = On(c) /\ point[t] = "cli" /\ death = ""
      /\ UNCHANGED <<locked, owner, running, turn, lk, held, frames, saved>>
  BY DEF Pushcli, Runs
<1>2. /\ fl_if' = fl_if \ {c} /\ ncli' = [ncli EXCEPT ![c] = @ + 1]
      /\ eflags' = eflags \ {t}
  BY DEF Pushcli
<1>3. /\ lk[t] = Nil => mine' = [mine EXCEPT ![t] = c] /\ point' = [point EXCEPT ![t] = "proc"]
      /\ lk[t] # Nil => mine' = mine /\ point' = [point EXCEPT ![t] = "xchg"]
  BY DEF Pushcli, Goto
<1>h. HereOK(c, t)
  BY <1>1, Here
<1>t. SpinTypeOK
  BY DEF SpinInv
<1>4. death' = ""
  <2>1. ~(lk[t] # Nil /\ Holding(c, lk[t]))
    BY <1>1, <1>h DEF HereOK, PointOK, Holding
  <2>. QED BY <2>1 DEF Pushcli
<1>5. /\ ncli[c] = 0 => (c \in intena' <=> t \in eflags)
      /\ ncli[c] # 0 => (c \in intena' <=> c \in intena)
      /\ \A d \in Cpu : d # c => (d \in intena' <=> d \in intena)
      /\ intena' \subseteq Cpu
  BY <1>t DEF Pushcli, SetTo, SpinTypeOK
<1>6. /\ lk[t] = Nil => point'[t] = "proc" /\ mine'[t] = c
      /\ lk[t] # Nil => point'[t] = "xchg" /\ lk[t] \in Spin
      /\ \A u \in Task : u # t => point'[u] = point[u] /\ mine'[u] = mine[u]
      /\ point' \in [Task -> Point] /\ mine' \in [Task -> Cpu \union {Nil}]
  <2>1. CASE lk[t] = Nil
    <3>0. t \in Task /\ point \in [Task -> Point] /\ mine \in [Task -> Cpu \union {Nil}]
      BY <1>h, <1>t DEF SpinTypeOK, HereOK
    <3>1. point'[t] = "proc" /\ point' \in [Task -> Point] /\ \A u \in Task : u # t => point'[u] = point[u]
      BY <1>3, <2>1, <3>0 DEF Point
    <3>2. mine'[t] = c
      BY <1>3, <2>1, <3>0
    <3>3. mine' \in [Task -> Cpu \union {Nil}] 
      BY <1>3, <2>1, <3>0
    <3>4. \A u \in Task : u # t => mine'[u] = mine[u]
      BY <1>3, <2>1, <3>0
    <3>. QED BY <2>1, <3>1, <3>2, <3>3, <3>4
  <2>2. CASE lk[t] # Nil
    BY <1>3, <1>h, <1>t, <2>2 DEF SpinTypeOK, HereOK, Point
  <2>. QED BY <2>1, <2>2
<1>7. /\ ncli'[c] = ncli[c] + 1 /\ c \notin fl_if' /\ t \notin eflags'
      /\ \A d \in Cpu : d # c => ncli'[d] = ncli[d] /\ (d \in fl_if' <=> d \in fl_if)
      /\ \A u \in Task : u # t => (u \in eflags' <=> u \in eflags)
      /\ ncli' \in [Cpu -> Nat] /\ fl_if' \subseteq Cpu /\ eflags' \subseteq Task
  BY <1>2, <1>t DEF SpinTypeOK
<1>8. SpinTypeOK'
  BY <1>1, <1>t, <1>5, <1>6, <1>7 DEF SpinTypeOK
<1>9. CpuOK(c)'
  <2>0. CountOK(c, t)'
    <3>1. ncli[c] = Cardinality(held[t])
      <4>1. CountOK(c, t) /\ Cardinality(held[t]) \in Nat
        BY <1>h DEF HereOK
      <4>2. point[t] \notin InHand
        BY <1>1 DEF InHand
      <4>. QED BY <4>1, <4>2 DEF CountOK
    <3>2. point'[t] \in InHand
      BY <1>6 DEF InHand
    <3>. QED BY <1>1, <1>7, <3>1, <3>2 DEF CountOK
  <2>1. PointOK(c, t)'
    BY <1>1, <1>6, <1>7, <1>h DEF HereOK, PointOK
  <2>2. running[c] = Nil => SchedulerFlags(c)'
    <3>1. ASSUME running[c] = Nil PROVE t = c /\ SchedulerFlags(c)
      BY <1>h, <3>1 DEF HereOK
    <3>2. ncli[c] \in Nat /\ (ncli[c] = 0 => (t \in eflags <=> c \in fl_if))
      BY <1>1, <1>h DEF HereOK, PointOK
    <3>3. UNCHANGED <<frames[c], turn[c]>>
      BY <1>1
    <3>. QED BY <1>5, <1>7, <3>1, <3>2, <3>3 DEF SchedulerFlags
  <2>3. running[c] # Nil => ProcessFlags(c, t)'
    <3>1. ASSUME running[c] # Nil PROVE ProcessFlags(c, t)
      BY <1>h, <3>1 DEF HereOK
    <3>2. ncli[c] \in Nat /\ (ncli[c] = 0 => (t \in eflags <=> c \in fl_if))
      BY <1>1, <1>h DEF HereOK, PointOK
    <3>3. frames'[t] = frames[t] /\ point[t] = "cli"
      BY <1>1
    <3>. QED BY <1>5, <1>7, <3>1, <3>2, <3>3 DEF ProcessFlags
  <2>. QED BY <1>1, <1>6, <2>0, <2>1, <2>2, <2>3, <1>h, HereAgain DEF HereOK, Task
<1>10. LocksOK'
  <2>1. point[t] = "cli" /\ point'[t] \notin {"own", "unlock"}
    BY <1>1, <1>6
  <2>2. running' = running /\ locked' = locked /\ owner' = owner /\ held' = held /\ lk' = lk
    BY <1>1
  <2>9. LocksStay(c, t)
    BY <1>1, <1>6, <2>1, <2>2 DEF LocksStay
  <2>. QED BY <2>9, LocksKept
<1>11. FrameOK(t)' /\ (t \in Thread => ProcessOK(t)')
  BY <1>1, <1>6, <1>h DEF HereOK, FrameOK, ProcessOK, WaitingOK, Waiting, On
<1>. QED BY <1>1, <1>4, <1>5, <1>6, <1>7, <1>8, <1>9, <1>10, <1>11, StepHere

\* Only a free lock is taken, and so by one task.
LEMMA XchgKeeps ==
  ASSUME SpinInv, NEW c \in Cpu, NEW t \in Task, Xchg(t, c)
  PROVE  SpinInv'
<1>1. /\ t = On(c) /\ point[t] = "xchg" /\ death = "" /\ death' = ""
      /\ lk[t] \notin locked /\ locked' = locked \union {lk[t]}
      /\ point' = [point EXCEPT ![t] = "own"]
      /\ UNCHANGED <<owner, ncli, intena, fl_if, running, turn, lk, eflags, held, frames, saved, mine>>
  BY DEF Xchg, Runs, Goto, cpuvars
<1>2. SpinTypeOK /\ HereOK(c, t) /\ PointOK(c, t) /\ CountOK(c, t)
  <2>1. SpinTypeOK /\ HereOK(c, t)
    BY <1>1, Here DEF SpinInv
  <2>. QED BY <2>1 DEF HereOK
<1>3. lk[t] \in Spin /\ lk[t] \notin held[t]
  BY <1>1, <1>2 DEF PointOK
<1>4. point'[t] = "own" /\ point' \in [Task -> Point] /\ \A u \in Task : u # t => point'[u] = point[u]
  BY <1>1, <1>2 DEF SpinTypeOK, Point
<1>5. SpinTypeOK'
  BY <1>1, <1>2, <1>3, <1>4 DEF SpinTypeOK
<1>6. CountOK(c, t)' /\ PointOK(c, t)'
  BY <1>1, <1>2, <1>3, <1>4 DEF CountOK, PointOK, InHand
<1>7. CpuOK(c)'
  BY <1>1, <1>4, <1>6, FlagsKept, BelowKept, HereAgain
<1>8. LocksOK'
  <2>1. \A d \in Cpu : On(d)' = On(d) /\ On(d) \in Task /\ (d # c => On(d) # t)
    BY <1>1, OnTask DEF On
  <2>2. LocksOK
    BY DEF SpinInv
  <2>3. \A d \in Cpu, l \in Spin : Has(d, l)' <=> Has(d, l) \/ (d = c /\ l = lk[t])
    BY <1>1, <1>4, <2>1 DEF Has
  <2>4. \A d \in Cpu : ~Has(d, lk[t])
    BY <1>1, <1>3, <2>2 DEF LocksOK
  <2>5. \A d, g \in Cpu, l \in Spin : Has(d, l)' /\ Has(g, l)' => d = g
    BY <2>2, <2>3, <2>4 DEF LocksOK
  <2>6. \A d \in Cpu, l \in Spin : Has(d, l)' => l \in locked'
    BY <1>1, <2>2, <2>3 DEF LocksOK
  <2>7. \A d \in Cpu, l \in Spin : owner'[l] = d <=> l \in held'[On(d)]
    BY <1>1, <2>2 DEF LocksOK
  <2>. QED BY <2>1, <2>5, <2>6, <2>7 DEF LocksOK
<1>. QED BY <1>1, <1>4, <1>5, <1>7, <1>8, FrameKept, OnProcess, StepHere

\* The lock in hand becomes one of those that the task has.
LEMMA OwnKeeps ==
  ASSUME SpinInv, NEW c \in Cpu, NEW t \in Task, Own(t, c)
  PROVE  SpinInv'
<1>1. /\ t = On(c) /\ point[t] = "own" /\ death = "" /\ death' = ""
      /\ owner' = [owner EXCEPT ![lk[t]] = c] /\ lk' = [lk EXCEPT ![t] = Nil]
      /\ held' = [held EXCEPT ![t] = @ \union {lk[t]}]
      /\ point' = [point EXCEPT ![t] = "run"]
      /\ UNCHANGED <<locked, ncli, intena, fl_if, running, turn, eflags, frames, saved, mine>>
  BY DEF Own, Runs, Goto, cpuvars
<1>2. SpinTypeOK /\ HereOK(c, t) /\ PointOK(c, t) /\ CountOK(c, t)
  <2>1. SpinTypeOK /\ HereOK(c, t)
    BY <1>1, Here DEF SpinInv
  <2>. QED BY <2>1 DEF HereOK
<1>3. lk[t] \in Spin /\ lk[t] \notin held[t] /\ held[t] \in SUBSET Spin
  BY <1>1, <1>2 DEF PointOK, SpinTypeOK
<1>4. /\ point'[t] = "run" /\ lk'[t] = Nil /\ held'[t] = held[t] \union {lk[t]}
      /\ \A u \in Task : u # t => point'[u] = point[u] /\ lk'[u] = lk[u] /\ held'[u] = held[u]
      /\ \A l \in Spin : owner'[l] = IF l = lk[t] THEN c ELSE owner[l]
  BY <1>1, <1>2 DEF SpinTypeOK
<1>5. SpinTypeOK'
  <2>1. point' \in [Task -> Point] /\ lk' \in [Task -> Spin \union {Nil}] /\ held' \in [Task -> SUBSET Spin]
    BY <1>1, <1>2, <1>3 DEF SpinTypeOK, Point
  <2>2. owner' \in [Spin -> Cpu \union {Nil}]
    BY <1>1, <1>2 DEF SpinTypeOK
  <2>. QED BY <1>1, <1>2, <2>1, <2>2 DEF SpinTypeOK
<1>6. CountOK(c, t)'
  <2>1. ncli[c] = Cardinality(held[t]) + 1
    BY <1>1, <1>2 DEF CountOK, InHand
  <2>2. Cardinality(held'[t]) = Cardinality(held[t]) + 1 /\ Cardinality(held[t]) \in Nat
    BY <1>3, <1>4, OneMore, HeldFinite
  <2>3. point'[t] \notin InHand
    BY <1>4 DEF InHand
  <2>4. ncli'[c] = ncli[c]
    BY <1>1
  <2>. QED BY <2>1, <2>2, <2>3, <2>4 DEF CountOK
<1>7. PointOK(c, t)'
  BY <1>3, <1>4 DEF PointOK
<1>8. CpuOK(c)'
  <2>1. /\ running[c] = Nil => SchedulerFlags(c)'
        /\ running[c] # Nil => ProcessFlags(c, t)'
    BY <1>1, FlagsKept
  <2>2. running[c] # Nil => UNCHANGED <<point[c], frames[c], held[c]>>
    <3>1. \A u \in Task : u # t => /\ point'[u] = point[u] /\ lk'[u] = lk[u]
                                   /\ held'[u] = held[u] /\ frames'[u] = frames[u]
      BY <1>1, <1>4
    <3>2. t = On(c)
      BY <1>1
    <3>. QED BY <3>1, <3>2, BelowKept
  <2>. QED BY <1>1, <1>6, <1>7, <2>1, <2>2, HereAgain
<1>9. LocksOK'
  <2>1. \A d \in Cpu : On(d)' = On(d) /\ On(d) \in Task /\ (d # c => On(d) # t)
    BY <1>1, OnTask DEF On
  <2>2. LocksOK
    BY DEF SpinInv
  <2>3. \A d \in Cpu, l \in Spin : Has(d, l)' <=> Has(d, l)
    <3>1. \A l \in Spin : Has(c, l)' <=> Has(c, l)
      BY <1>1, <1>4, <2>1 DEF Has
    <3>2. \A d \in Cpu, l \in Spin : d # c => (Has(d, l)' <=> Has(d, l))
      BY <1>4, <2>1 DEF Has
    <3>. QED BY <3>1, <3>2
  <2>4. Has(c, lk[t])
    BY <1>1 DEF Has
  <2>5. \A d \in Cpu : d # c => lk[t] \notin held[On(d)]
    BY <1>3, <2>2, <2>4 DEF LocksOK, Has
  <2>6. \A d \in Cpu, l \in Spin : owner'[l] = d <=> l \in held'[On(d)]
    <3>1. \A l \in Spin : owner'[l] = c <=> l \in held'[t]
      <4>1. \A l \in Spin : owner[l] = c <=> l \in held[t]
        BY <1>1, <2>2 DEF LocksOK
      <4>. QED BY <1>4, <4>1
    <3>2. \A d \in Cpu, l \in Spin : d # c => (owner'[l] = d <=> l \in held'[On(d)])
      BY <1>3, <1>4, <2>1, <2>2, <2>5 DEF LocksOK
    <3>. QED BY <1>1, <3>1, <3>2
  <2>. QED BY <1>1, <2>1, <2>2, <2>3, <2>6 DEF LocksOK
<1>. QED BY <1>1, <1>4, <1>5, <1>8, <1>9, FrameKept, OnProcess, StepHere

\* release() passes its check, and the lock is again in hand until it is free.
LEMMA SpinReleaseKeeps ==
  ASSUME SpinInv, NEW c \in Cpu, NEW t \in Task, NEW l \in Spin, Release(t, c, l)
  PROVE  SpinInv'
<1>1. /\ t = On(c) /\ point[t] = "run" /\ death = "" /\ l \in held[t]
      /\ owner' = [owner EXCEPT ![l] = Nil] /\ lk' = [lk EXCEPT ![t] = l]
      /\ held' = [held EXCEPT ![t] = @ \ {l}]
      /\ point' = [point EXCEPT ![t] = "unlock"]
      /\ UNCHANGED <<locked, ncli, intena, fl_if, running, turn, eflags, frames, saved, mine>>
  BY DEF Release, Runs, Goto, cpuvars, MayRelease
<1>2. SpinTypeOK /\ HereOK(c, t) /\ PointOK(c, t) /\ CountOK(c, t) /\ LocksOK
  <2>1. SpinTypeOK /\ HereOK(c, t) /\ LocksOK
    BY <1>1, Here DEF SpinInv
  <2>. QED BY <2>1 DEF HereOK
<1>3. held[t] \in SUBSET Spin
  BY <1>1, <1>2 DEF SpinTypeOK
<1>4. /\ point'[t] = "unlock" /\ lk'[t] = l /\ held'[t] = held[t] \ {l}
      /\ \A u \in Task : u # t => point'[u] = point[u] /\ lk'[u] = lk[u] /\ held'[u] = held[u]
      /\ \A k \in Spin : owner'[k] = IF k = l THEN Nil ELSE owner[k]
  BY <1>1, <1>2 DEF SpinTypeOK
<1>5. death' = ""
  <2>1. Holding(c, l)
    <3>1. Has(c, l) /\ owner[l] = c
      BY <1>1, <1>2 DEF LocksOK, Has
    <3>. QED BY <1>2, <3>1 DEF LocksOK, Holding
  <2>. QED BY <2>1 DEF Release
<1>6. SpinTypeOK'
  <2>1. point' \in [Task -> Point] /\ lk' \in [Task -> Spin \union {Nil}] /\ held' \in [Task -> SUBSET Spin]
    BY <1>1, <1>2, <1>3 DEF SpinTypeOK, Point
  <2>2. owner' \in [Spin -> Cpu \union {Nil}]
    BY <1>1, <1>2 DEF SpinTypeOK
  <2>. QED BY <1>1, <1>2, <2>1, <2>2 DEF SpinTypeOK
<1>7. CountOK(c, t)'
  <2>1. ncli[c] = Cardinality(held[t]) /\ ncli'[c] = ncli[c]
    <3>1. point[t] \notin InHand
      BY <1>1 DEF InHand
    <3>2. Cardinality(held[t]) \in Nat
      BY <1>3, HeldFinite
    <3>3. ncli[c] = Cardinality(held[t])
      BY <1>2, <3>1, <3>2 DEF CountOK
    <3>. QED BY <1>1, <3>3
  <2>2. Cardinality(held'[t]) = Cardinality(held[t]) - 1 /\ Cardinality(held[t]) \in Nat
    <3>1. l \in held[t]
      BY <1>1
    <3>. QED BY <1>3, <1>4, <3>1, OneLess, HeldFinite
  <2>3. point'[t] \in InHand
    BY <1>4 DEF InHand
  <2>. QED BY <2>1, <2>2, <2>3 DEF CountOK
<1>8. PointOK(c, t)'
  BY <1>4 DEF PointOK
<1>9. CpuOK(c)'
  <2>1. /\ running[c] = Nil => SchedulerFlags(c)'
        /\ running[c] # Nil => ProcessFlags(c, t)'
    BY <1>1, FlagsKept
  <2>2. running[c] # Nil => UNCHANGED <<point[c], frames[c], held[c]>>
    <3>1. \A u \in Task : u # t => /\ point'[u] = point[u] /\ lk'[u] = lk[u]
                                   /\ held'[u] = held[u] /\ frames'[u] = frames[u]
      BY <1>1, <1>4
    <3>2. t = On(c)
      BY <1>1
    <3>. QED BY <3>1, <3>2, BelowKept
  <2>. QED BY <1>1, <1>7, <1>8, <2>1, <2>2, HereAgain
<1>10. LocksOK'
  <2>1. \A d \in Cpu : On(d)' = On(d) /\ On(d) \in Task /\ (d # c => On(d) # t)
    BY <1>1, OnTask DEF On
  <2>2. \A d \in Cpu, k \in Spin : Has(d, k)' <=> Has(d, k)
    <3>1. \A k \in Spin : Has(c, k)' <=> Has(c, k)
      BY <1>1, <1>4, <2>1 DEF Has
    <3>2. \A d \in Cpu, k \in Spin : d # c => (Has(d, k)' <=> Has(d, k))
      BY <1>4, <2>1 DEF Has
    <3>. QED BY <3>1, <3>2
  <2>3. \A d \in Cpu : d # c => l \notin held[On(d)]
    BY <1>1, <1>2 DEF LocksOK, Has
  <2>4. \A d \in Cpu, k \in Spin : owner'[k] = d <=> k \in held'[On(d)]
    <3>1. \A k \in Spin : owner[k] = c <=> k \in held[t]
      BY <1>1, <1>2 DEF LocksOK
    <3>2. \A k \in Spin : owner'[k] = c <=> k \in held'[t]
      BY <1>4, <3>1
    <3>3. \A d \in Cpu, k \in Spin : d # c => (owner'[k] = d <=> k \in held'[On(d)])
      BY <1>2, <1>4, <2>1, <2>3 DEF LocksOK
    <3>. QED BY <1>1, <3>2, <3>3
  <2>. QED BY <1>1, <1>2, <2>1, <2>2, <2>4 DEF LocksOK
<1>. QED BY <1>1, <1>4, <1>5, <1>6, <1>9, <1>10, FrameKept, OnProcess, StepHere

\* popcli: the count and the flags of a CPU whose task has nothing in its hands any more.
LEMMA PopcliFlags ==
  ASSUME SpinInv, NEW c \in Cpu, NEW t, t = On(c), point[t] \in InHand, Popcli(c),
         point'[t] = "run", held'[t] = held[t], UNCHANGED <<intena, running, frames, turn>>
  PROVE  /\ death' = "" /\ CountOK(c, t)'
         /\ ncli' \in [Cpu -> Nat] /\ fl_if' \subseteq Cpu
         /\ \A d \in Cpu : d # c => ncli'[d] = ncli[d] /\ (d \in fl_if' <=> d \in fl_if)
         /\ running[c] = Nil => SchedulerFlags(c)'
         /\ running[c] # Nil => ProcessFlags(c, t)'
<1>1. SpinTypeOK /\ HereOK(c, t) /\ CountOK(c, t) /\ Cardinality(held[t]) \in Nat /\ ncli[c] \in Nat
  <2>1. SpinTypeOK /\ HereOK(c, t)
    BY Here DEF SpinInv
  <2>. QED BY <2>1 DEF HereOK
<1>2. ncli[c] = Cardinality(held[t]) + 1
  BY <1>1 DEF CountOK
<1>3. /\ running[c] = Nil => SchedulerFlags(c)
      /\ running[c] # Nil => ProcessFlags(c, t)
  BY <1>1 DEF HereOK
<1>4. c \notin fl_if
  BY <1>1, <1>2, <1>3 DEF SchedulerFlags, ProcessFlags, InHand
<1>5. death' = ""
  <2>1. ~(ncli[c] < 1)
    BY <1>1, <1>2
  <2>. QED BY <1>4, <2>1 DEF Popcli
<1>6. /\ ncli' \in [Cpu -> Nat] /\ ncli'[c] = ncli[c] - 1 /\ fl_if' \subseteq Cpu
      /\ c \in fl_if' <=> ncli[c] = 1 /\ c \in intena
      /\ \A d \in Cpu : d # c => ncli'[d] = ncli[d] /\ (d \in fl_if' <=> d \in fl_if)
  <2>1. ncli' = [ncli EXCEPT ![c] = ncli[c] - 1] /\ ncli \in [Cpu -> Nat] /\ ncli[c] - 1 \in Nat
    <3>1. ncli' = [ncli EXCEPT ![c] = ncli[c] - 1]
      BY DEF Popcli
    <3>2. ncli \in [Cpu -> Nat]
      BY <1>1 DEF SpinTypeOK
    <3>. QED BY <1>1, <1>2, <3>1, <3>2
  <2>2. ncli' \in [Cpu -> Nat] /\ ncli'[c] = ncli[c] - 1 /\ \A d \in Cpu : d # c => ncli'[d] = ncli[d]
    BY <2>1
  <2>3. /\ fl_if' \subseteq Cpu /\ (c \in fl_if' <=> ncli[c] = 1 /\ c \in intena)
        /\ \A d \in Cpu : d # c => (d \in fl_if' <=> d \in fl_if)
    BY <1>1, <1>4 DEF Popcli, SpinTypeOK
  <2>. QED BY <2>2, <2>3
<1>7. CountOK(c, t)'
  BY <1>1, <1>2, <1>6 DEF CountOK, InHand
<1>8. running[c] = Nil => SchedulerFlags(c)'
  BY <1>1, <1>2, <1>3, <1>6 DEF SchedulerFlags
<1>9. running[c] # Nil => ProcessFlags(c, t)'
  BY <1>1, <1>2, <1>3, <1>6 DEF ProcessFlags, InHand
<1>. QED BY <1>5, <1>6, <1>7, <1>8, <1>9

\* The second half of release().
LEMMA UnlockKeeps ==
  ASSUME SpinInv, NEW c \in Cpu, NEW t \in Task, Unlock(t, c)
  PROVE  SpinInv'
<1>1. /\ t = On(c) /\ point[t] = "unlock" /\ Popcli(c)
      /\ locked' = locked \ {lk[t]} /\ lk' = [lk EXCEPT ![t] = Nil]
      /\ point' = [point EXCEPT ![t] = "run"]
      /\ UNCHANGED <<owner, intena, running, turn, eflags, held, frames, saved, mine>>
  BY DEF Unlock, Runs, Goto
<1>2. SpinTypeOK /\ HereOK(c, t) /\ PointOK(c, t) /\ LocksOK
  <2>1. SpinTypeOK /\ HereOK(c, t) /\ LocksOK
    BY <1>1, Here DEF SpinInv
  <2>. QED BY <2>1 DEF HereOK
<1>3. lk[t] \in Spin /\ lk[t] \notin held[t]
  BY <1>1, <1>2 DEF PointOK
<1>4. /\ point'[t] = "run" /\ lk'[t] = Nil /\ held' = held
      /\ \A u \in Task : u # t => point'[u] = point[u] /\ lk'[u] = lk[u]
      /\ point' \in [Task -> Point] /\ lk' \in [Task -> Spin \union {Nil}]
  BY <1>1, <1>2 DEF SpinTypeOK, Point
<1>5. /\ death' = "" /\ CountOK(c, t)'
      /\ ncli' \in [Cpu -> Nat] /\ fl_if' \subseteq Cpu
      /\ \A d \in Cpu : d # c => ncli'[d] = ncli[d] /\ (d \in fl_if' <=> d \in fl_if)
      /\ running[c] = Nil => SchedulerFlags(c)'
      /\ running[c] # Nil => ProcessFlags(c, t)'
  <2>1. point[t] \in InHand /\ held'[t] = held[t]
    BY <1>1, <1>4 DEF InHand
  <2>. QED BY <1>1, <1>4, <2>1, PopcliFlags
<1>6. SpinTypeOK'
  BY <1>1, <1>2, <1>4, <1>5 DEF SpinTypeOK
<1>7. PointOK(c, t)'
  <2>1. lk'[t] \notin held'[t]
    BY <1>2, <1>4, <1>1 DEF SpinTypeOK
  <2>. QED BY <1>4, <2>1 DEF PointOK
<1>8. CpuOK(c)'
  <2>1. running[c] # Nil => UNCHANGED <<point[c], frames[c], held[c]>>
    <3>1. \A u \in Task : u # t => /\ point'[u] = point[u] /\ lk'[u] = lk[u]
                                   /\ held'[u] = held[u] /\ frames'[u] = frames[u]
      BY <1>1, <1>4
    <3>2. t = On(c)
      BY <1>1
    <3>. QED BY <3>1, <3>2, BelowKept
  <2>. QED BY <1>1, <1>5, <1>7, <2>1, HereAgain
<1>9. LocksOK'
  <2>1. \A d \in Cpu : On(d)' = On(d) /\ On(d) \in Task /\ (d # c => On(d) # t)
    BY <1>1, OnTask DEF On
  <2>2. Has(c, lk[t])
    BY <1>1 DEF Has
  <2>3. \A d \in Cpu, k \in Spin : Has(d, k)' => Has(d, k) /\ k # lk[t]
    <3>1. \A k \in Spin : Has(c, k)' => Has(c, k) /\ k # lk[t]
      BY <1>1, <1>3, <1>4, <2>1 DEF Has
    <3>2. \A d \in Cpu, k \in Spin : d # c /\ Has(d, k)' => Has(d, k)
      BY <1>4, <2>1 DEF Has
    <3>3. \A d \in Cpu : Has(d, lk[t]) => d = c
      BY <1>2, <1>3, <2>2 DEF LocksOK
    <3>. QED BY <3>1, <3>2, <3>3
  <2>4. \A d \in Cpu, k \in Spin : owner'[k] = d <=> k \in held'[On(d)]
    BY <1>1, <1>2 DEF LocksOK
  <2>. QED BY <1>1, <1>2, <2>1, <2>3, <2>4 DEF LocksOK
<1>. QED BY <1>1, <1>4, <1>5, <1>6, <1>8, <1>9, FrameKept, OnProcess, StepHere

\* myproc() ends with popcli.
LEMMA MyprocKeeps ==
  ASSUME SpinInv, NEW c \in Cpu, NEW t \in Task, Myproc(t, c)
  PROVE  SpinInv'
<1>1. /\ t = On(c) /\ point[t] = "proc" /\ Popcli(c)
      /\ mine' = [mine EXCEPT ![t] = Nil] /\ point' = [point EXCEPT ![t] = "run"]
      /\ UNCHANGED <<locked, owner, intena, running, turn, lk, eflags, held, frames, saved>>
  BY DEF Myproc, Runs, Goto
<1>2. SpinTypeOK /\ PointOK(c, t)
  <2>1. SpinTypeOK /\ HereOK(c, t)
    BY <1>1, Here DEF SpinInv
  <2>. QED BY <2>1 DEF HereOK
<1>3. /\ point'[t] = "run" /\ held' = held
      /\ \A u \in Task : u # t => point'[u] = point[u] /\ mine'[u] = mine[u]
      /\ point' \in [Task -> Point] /\ mine' \in [Task -> Cpu \union {Nil}]
  BY <1>1, <1>2 DEF SpinTypeOK, Point
<1>4. /\ death' = "" /\ CountOK(c, t)'
      /\ ncli' \in [Cpu -> Nat] /\ fl_if' \subseteq Cpu
      /\ \A d \in Cpu : d # c => ncli'[d] = ncli[d] /\ (d \in fl_if' <=> d \in fl_if)
      /\ running[c] = Nil => SchedulerFlags(c)'
      /\ running[c] # Nil => ProcessFlags(c, t)'
  <2>1. point[t] \in InHand /\ held'[t] = held[t]
    BY <1>1, <1>3 DEF InHand
  <2>. QED BY <1>1, <1>3, <2>1, PopcliFlags
<1>5. SpinTypeOK'
  BY <1>1, <1>2, <1>3, <1>4 DEF SpinTypeOK
<1>6. PointOK(c, t)'
  BY <1>1, <1>2, <1>3 DEF PointOK
<1>7. CpuOK(c)'
  <2>1. running[c] # Nil => UNCHANGED <<point[c], frames[c], held[c]>>
    <3>1. \A u \in Task : u # t => /\ point'[u] = point[u] /\ lk'[u] = lk[u]
                                   /\ held'[u] = held[u] /\ frames'[u] = frames[u]
      BY <1>1, <1>3
    <3>2. t = On(c)
      BY <1>1
    <3>. QED BY <3>1, <3>2, BelowKept
  <2>. QED BY <1>1, <1>4, <1>6, <2>1, HereAgain
<1>8. LocksOK'
  <2>1. LocksStay(c, t)
    BY <1>1, <1>3 DEF LocksStay
  <2>. QED BY <2>1, LocksKept
<1>. QED BY <1>1, <1>3, <1>4, <1>5, <1>7, <1>8, FrameKept, OnProcess, StepHere

\* A handler starts only where its task has no lock and no handler.
LEMMA SpinInterruptKeeps ==
  ASSUME SpinInv, NEW c \in Cpu, NEW t \in Task, Interrupt(t, c)
  PROVE  SpinInv'
<1>1. /\ t = On(c) /\ c \in fl_if /\ death = "" /\ death' = ""
      /\ frames' = [frames EXCEPT ![t] = Append(@, Frame(t))]
      /\ fl_if' = fl_if \ {c} /\ held' = [held EXCEPT ![t] = {}]
      /\ point' = [point EXCEPT ![t] = "run"] /\ lk' = [lk EXCEPT ![t] = Nil]
      /\ eflags' = eflags \ {t} /\ mine' = [mine EXCEPT ![t] = Nil]
      /\ UNCHANGED <<locked, owner, ncli, intena, running, turn, saved>>
  BY DEF Interrupt, Goto
<1>2. SpinTypeOK /\ HereOK(c, t) /\ PointOK(c, t) /\ CountOK(c, t) /\ Cardinality(held[t]) \in Nat
  <2>1. SpinTypeOK /\ HereOK(c, t)
    BY <1>1, Here DEF SpinInv
  <2>. QED BY <2>1 DEF HereOK
<1>3. ncli[c] = 0 /\ frames[t] = <<>>
  <2>1. running[c] = Nil => t = c /\ SchedulerFlags(c)
    BY <1>2 DEF HereOK
  <2>2. running[c] # Nil => ProcessFlags(c, t)
    BY <1>2 DEF HereOK
  <2>. QED BY <1>1, <2>1, <2>2 DEF SchedulerFlags, ProcessFlags
<1>4. held[t] = {} /\ point[t] \notin InHand
  <2>1. point[t] \notin InHand /\ Cardinality(held[t]) = 0
    BY <1>2, <1>3 DEF CountOK
  <2>. QED BY <1>2, <2>1, HeldFinite DEF HereOK
<1>5. point[t] \in {"run", "cli"} /\ (point[t] = "cli" => t \in eflags)
  BY <1>1, <1>2, <1>3, <1>4 DEF PointOK, HereOK, Point, InHand
<1>6. /\ point'[t] = "run" /\ lk'[t] = Nil /\ held' = held
      /\ \A u \in Task : u # t => /\ point'[u] = point[u] /\ lk'[u] = lk[u] /\ mine'[u] = mine[u]
                                  /\ (u \in eflags' <=> u \in eflags)
      /\ point' \in [Task -> Point] /\ lk' \in [Task -> Spin \union {Nil}]
      /\ mine' \in [Task -> Cpu \union {Nil}] /\ eflags' \subseteq Task
  <2>1. held' = held
    BY <1>1, <1>2, <1>4 DEF SpinTypeOK
  <2>. QED BY <1>1, <1>2, <2>1 DEF SpinTypeOK, Point
<1>7. /\ frames'[t] = <<Frame(t)>> /\ frames' \in [Task -> Seq(FrameSet)]
      /\ \A u \in Task : u # t => frames'[u] = frames[u]
  <2>1. Frame(t) \in FrameSet
    BY <1>2 DEF Frame, FrameSet, SpinTypeOK
  <2>2. Append(frames[t], Frame(t)) = <<Frame(t)>> /\ <<Frame(t)>> \in Seq(FrameSet)
    BY <1>3, <2>1
  <2>3. frames' = [frames EXCEPT ![t] = <<Frame(t)>>]
    BY <1>1, <2>2
  <2>4. frames \in [Task -> Seq(FrameSet)]
    BY <1>2 DEF SpinTypeOK
  <2>. QED BY <2>2, <2>3, <2>4
<1>8. SpinTypeOK'
  <2>1. fl_if' \subseteq Cpu
    BY <1>1, <1>2 DEF SpinTypeOK
  <2>. QED BY <1>1, <1>2, <1>6, <1>7, <2>1 DEF SpinTypeOK
<1>9. FrameOK(t)'
  <2>1. /\ Len(<<Frame(t)>>) = 1 /\ <<Frame(t)>>[1] = Frame(t)
        /\ Frame(t).point = point[t] /\ Frame(t).held = held[t] /\ Frame(t).eflags = eflags \intersect {t}
    BY DEF Frame
  <2>. QED BY <1>4, <1>5, <1>7, <2>1 DEF FrameOK
<1>10. CpuOK(c)'
  <2>1. CountOK(c, t)'
    BY <1>1, <1>2, <1>4, <1>6 DEF CountOK, InHand
  <2>2. PointOK(c, t)'
    BY <1>6 DEF PointOK
  <2>3. ncli'[c] = 0 /\ c \notin fl_if' /\ frames'[t] # <<>> /\ ~(ncli'[c] > 0)
    <3>1. <<Frame(t)>> # <<>>
      OBVIOUS
    <3>2. ncli'[c] = 0 /\ c \notin fl_if'
      BY <1>1, <1>3
    <3>. QED BY <1>7, <3>1, <3>2
  <2>4. running[c] = Nil => SchedulerFlags(c)'
    <3>1. running[c] = Nil => t = c
      BY <1>2 DEF HereOK
    <3>. QED BY <2>3, <3>1 DEF SchedulerFlags
  <2>5. running[c] # Nil => ProcessFlags(c, t)'
    BY <2>3 DEF ProcessFlags
  <2>6. running[c] # Nil => UNCHANGED <<point[c], frames[c], held[c]>>
    <3>1. \A u \in Task : u # t => /\ point'[u] = point[u] /\ lk'[u] = lk[u]
                                   /\ held'[u] = held[u] /\ frames'[u] = frames[u]
      BY <1>6, <1>7
    <3>2. t = On(c)
      BY <1>1
    <3>. QED BY <3>1, <3>2, BelowKept
  <2>. QED BY <1>1, <2>1, <2>2, <2>4, <2>5, <2>6, HereAgain
<1>11. LocksOK'
  <2>1. point[t] \notin {"own", "unlock"} /\ point'[t] \notin {"own", "unlock"}
    BY <1>4, <1>6 DEF InHand
  <2>9. LocksStay(c, t)
    BY <1>1, <1>6, <2>1 DEF LocksStay
  <2>. QED BY <2>9, LocksKept
<1>12. \A d \in Cpu : d # c => (d \in fl_if' <=> d \in fl_if)
  BY <1>1
<1>13. t \in Thread => ProcessOK(t)'
  BY <1>1, <1>6, OnProcess
<1>. QED BY <1>1, <1>6, <1>7, <1>8, <1>9, <1>10, <1>11, <1>12, <1>13, StepHere

\* A handler that returns without locks leaves what it interrupted as it found it.
LEMMA IretKeeps ==
  ASSUME SpinInv, NEW c \in Cpu, NEW t \in Task, Iret(t, c)
  PROVE  SpinInv'
<1> DEFINE f == frames[t][1]
<1>1. /\ t = On(c) /\ point[t] = "run" /\ death = "" /\ death' = "" /\ held[t] = {}
      /\ frames[t] # <<>> /\ fl_if' = fl_if \union {c}
      /\ UNCHANGED <<locked, owner, ncli, intena, running, turn, saved>>
  BY DEF Iret, Runs
<1>2. SpinTypeOK /\ HereOK(c, t) /\ PointOK(c, t) /\ CountOK(c, t) /\ FrameOK(t)
  <2>1. SpinTypeOK /\ HereOK(c, t)
    BY <1>1, Here DEF SpinInv
  <2>. QED BY <2>1 DEF HereOK
<1>3. /\ Len(frames[t]) = 1 /\ f \in FrameSet /\ f.point \in {"run", "cli"} /\ f.held = {}
      /\ f.eflags \subseteq {t} /\ (f.point = "cli" => t \in f.eflags)
  <2>1. frames[t] \in Seq(FrameSet)
    BY <1>2 DEF SpinTypeOK
  <2>2. Len(frames[t]) = 1 /\ f.point \in {"run", "cli"} /\ f.held = {}
    BY <1>1, <1>2 DEF FrameOK
  <2>3. f.eflags \subseteq {t} /\ (f.point = "cli" => t \in f.eflags)
    BY <1>1, <1>2 DEF FrameOK
  <2>4. f \in FrameSet
    BY <2>1, <2>2
  <2>. QED BY <2>2, <2>3, <2>4
<1>4. f.point \in Point /\ f.lk \in Spin \union {Nil} /\ f.mine \in Cpu \union {Nil}
  BY <1>3 DEF FrameSet
<1>5. /\ point' = [point EXCEPT ![t] = f.point] /\ lk' = [lk EXCEPT ![t] = f.lk]
      /\ eflags' = (eflags \ {t}) \union f.eflags
      /\ held' = [held EXCEPT ![t] = f.held] /\ mine' = [mine EXCEPT ![t] = f.mine]
      /\ frames' = [frames EXCEPT ![t] = SubSeq(frames[t], 1, 0)]
  BY <1>3 DEF Iret
<1>6. ncli[c] = 0
  <2>1. Cardinality(held[t]) = 0
    BY <1>1, HeldFinite
  <2>2. point[t] \notin InHand
    BY <1>1 DEF InHand
  <2>. QED BY <1>2, <2>1, <2>2 DEF CountOK
<1>7. /\ frames'[t] = <<>> /\ frames' \in [Task -> Seq(FrameSet)]
      /\ \A u \in Task : u # t => frames'[u] = frames[u]
  <2>1. frames[t] \in Seq(FrameSet) /\ SubSeq(frames[t], 1, 0) = <<>> /\ <<>> \in Seq(FrameSet)
    BY <1>2 DEF SpinTypeOK
  <2>. QED BY <1>2, <1>5, <2>1 DEF SpinTypeOK
<1>8. /\ point'[t] = f.point /\ held' = held /\ (f.point = "cli" => t \in eflags')
      /\ \A u \in Task : u # t => point'[u] = point[u] /\ lk'[u] = lk[u] /\ mine'[u] = mine[u]
      /\ point' \in [Task -> Point] /\ lk' \in [Task -> Spin \union {Nil}]
      /\ mine' \in [Task -> Cpu \union {Nil}]
  <2>1. held' = held
    BY <1>1, <1>2, <1>3, <1>5 DEF SpinTypeOK
  <2>2. f.point = "cli" => t \in eflags'
    BY <1>3, <1>5
  <2>. QED BY <1>2, <1>4, <1>5, <2>1, <2>2 DEF SpinTypeOK
<1>9. eflags' \subseteq Task /\ \A u \in Task : u # t => (u \in eflags' <=> u \in eflags)
  BY <1>2, <1>3, <1>5 DEF SpinTypeOK
<1>10. SpinTypeOK'
  <2>1. fl_if' \subseteq Cpu
    BY <1>1, <1>2 DEF SpinTypeOK
  <2>. QED BY <1>1, <1>2, <1>7, <1>8, <1>9, <2>1 DEF SpinTypeOK
<1>11. CpuOK(c)'
  <2>1. CountOK(c, t)'
    <3>1. point[t] \notin InHand /\ point'[t] \notin InHand
      BY <1>1, <1>3, <1>8 DEF InHand
    <3>. QED BY <1>1, <1>2, <1>8, <3>1 DEF CountOK
  <2>2. PointOK(c, t)'
    <3>1. point'[t] \in {"run", "cli"} /\ held'[t] = {} /\ c \in fl_if'
      BY <1>1, <1>3, <1>8
    <3>. QED BY <1>8, <3>1 DEF PointOK
  <2>3. ncli'[c] = 0 /\ c \in fl_if' /\ frames'[t] = <<>> /\ ~(ncli'[c] > 0)
    <3>1. ncli'[c] = 0 /\ c \in fl_if'
      BY <1>1, <1>6
    <3>. QED BY <1>7, <3>1
  <2>4. running[c] = Nil => SchedulerFlags(c)'
    <3>1. running[c] = Nil => t = c
      BY <1>2 DEF HereOK
    <3>. QED BY <2>3, <3>1 DEF SchedulerFlags
  <2>5. running[c] # Nil => ProcessFlags(c, t)'
    BY <2>3 DEF ProcessFlags
  <2>6. running[c] # Nil => UNCHANGED <<point[c], frames[c], held[c]>>
    <3>1. \A u \in Task : u # t => /\ point'[u] = point[u] /\ lk'[u] = lk[u]
                                   /\ held'[u] = held[u] /\ frames'[u] = frames[u]
      BY <1>7, <1>8
    <3>2. t = On(c)
      BY <1>1
    <3>. QED BY <3>1, <3>2, BelowKept
  <2>. QED BY <1>1, <2>1, <2>2, <2>4, <2>5, <2>6, HereAgain
<1>12. LocksOK'
  <2>1. point[t] \notin {"own", "unlock"} /\ point'[t] \notin {"own", "unlock"}
    BY <1>1, <1>3, <1>8
  <2>9. LocksStay(c, t)
    BY <1>1, <1>8, <2>1 DEF LocksStay
  <2>. QED BY <2>9, LocksKept
<1>13. FrameOK(t)'
  BY <1>7 DEF FrameOK
<1>14. t \in Thread => ProcessOK(t)'
  <2>1. point'[t] \notin {"new", "swtch"}
    BY <1>3, <1>8
  <2>. QED BY <1>1, <2>1, OnProcess
<1>15. \A d \in Cpu : d # c => (d \in fl_if' <=> d \in fl_if)
  BY <1>1
<1>. QED BY <1>1, <1>7, <1>8, <1>9, <1>10, <1>11, <1>12, <1>13, <1>14, <1>15, StepHere

\* A process that goes on in sched() brings its own intena to the CPU.
LEMMA ResumeKeeps ==
  ASSUME SpinInv, NEW c \in Cpu, NEW t \in Task, Resume(t, c)
  PROVE  SpinInv'
<1>1. /\ t = On(c) /\ point[t] = "swtch" /\ death = "" /\ death' = ""
      /\ intena' = SetTo(intena, c, t \in saved) /\ saved' = saved \ {t}
      /\ point' = [point EXCEPT ![t] = "run"]
      /\ UNCHANGED <<locked, owner, ncli, fl_if, running, turn, lk, eflags, held, frames, mine>>
  BY DEF Resume, Runs, Goto
<1>2. SpinTypeOK /\ HereOK(c, t) /\ PointOK(c, t) /\ CountOK(c, t)
  <2>1. SpinTypeOK /\ HereOK(c, t)
    BY <1>1, Here DEF SpinInv
  <2>. QED BY <2>1 DEF HereOK
<1>3. t \in Thread /\ held[t] = {PTABLE}
  BY <1>1, <1>2 DEF PointOK
<1>4. running[c] = t /\ running[c] # Nil /\ ProcessFlags(c, t) /\ ProcessOK(t)
  BY <1>2, <1>3 DEF HereOK
<1>5. /\ c \in intena' <=> frames[t] = <<>>
      /\ \A d \in Cpu : d # c => (d \in intena' <=> d \in intena)
      /\ intena' \subseteq Cpu
  BY <1>1, <1>2, <1>4 DEF SetTo, ProcessOK, SpinTypeOK
<1>6. /\ point'[t] = "run" /\ point' \in [Task -> Point]
      /\ \A u \in Task : u # t => point'[u] = point[u] /\ (u \in saved' <=> u \in saved)
      /\ saved' \subseteq Task
  BY <1>1, <1>2 DEF SpinTypeOK, Point
<1>7. SpinTypeOK'
  BY <1>1, <1>2, <1>5, <1>6 DEF SpinTypeOK
<1>8. CpuOK(c)'
  <2>1. CountOK(c, t)'
    BY <1>1, <1>2, <1>6 DEF CountOK, InHand
  <2>2. PointOK(c, t)'
    BY <1>6 DEF PointOK
  <2>3. ProcessFlags(c, t)'
    <3>1. c \in fl_if <=> ncli[c] = 0 /\ frames[t] = <<>>
      BY <1>4 DEF ProcessFlags
    <3>. QED BY <1>1, <1>5, <3>1 DEF ProcessFlags
  <2>4. running[c] # Nil => UNCHANGED <<point[c], frames[c], held[c]>>
    <3>1. \A u \in Task : u # t => /\ point'[u] = point[u] /\ lk'[u] = lk[u]
                                   /\ held'[u] = held[u] /\ frames'[u] = frames[u]
      BY <1>1, <1>6
    <3>2. t = On(c)
      BY <1>1
    <3>. QED BY <3>1, <3>2, BelowKept
  <2>. QED BY <1>1, <1>4, <2>1, <2>2, <2>3, <2>4, HereAgain
<1>9. LocksOK'
  <2>1. point[t] \notin {"own", "unlock"} /\ point'[t] \notin {"own", "unlock"}
    BY <1>1, <1>6
  <2>9. LocksStay(c, t)
    BY <1>1, <1>6, <2>1 DEF LocksStay
  <2>. QED BY <2>9, LocksKept
<1>10. t \in Thread => ProcessOK(t)'
  BY <1>1, <1>6, OnProcess
<1>11. FrameOK(t)'
  BY <1>1, FrameKept
<1>. QED BY <1>1, <1>5, <1>6, <1>7, <1>8, <1>9, <1>10, <1>11, StepHere

\* A scheduler on its CPU is the task of the CPU.
LEMMA SchedulerHere ==
  ASSUME SpinInv, NEW c \in Cpu, Scheduling(c)
  PROVE  /\ c = On(c) /\ c \in Task /\ c \notin Thread /\ running[c] = Nil
         /\ point[c] = "run" /\ frames[c] = <<>> /\ death = ""
         /\ SpinTypeOK /\ HereOK(c, c) /\ CountOK(c, c) /\ PointOK(c, c) /\ SchedulerFlags(c)
<1>1. c = On(c) /\ point[c] = "run" /\ frames[c] = <<>> /\ death = ""
  BY DEF Scheduling, Runs
<1>2. HereOK(c, c)
  BY <1>1, Here
<1>. QED BY <1>1, <1>2 DEF HereOK, SpinInv

\* The head of the scheduler's loop: it has no lock where it sets FL_IF.
LEMMA StiKeeps ==
  ASSUME SpinInv, NEW c \in Cpu, Sti(c)
  PROVE  SpinInv'
<1>1. /\ Scheduling(c) /\ held[c] = {} /\ death' = death
      /\ fl_if' = fl_if \union {c} /\ turn' = [turn EXCEPT ![c] = "pick"]
      /\ UNCHANGED <<locked, owner, ncli, intena, running, point, lk, eflags, held, frames, saved, mine>>
  BY DEF Sti, localvars
<1>2. /\ c = On(c) /\ c \in Task /\ c \notin Thread /\ running[c] = Nil
      /\ point[c] = "run" /\ frames[c] = <<>> /\ death = "" /\ SpinTypeOK
      /\ CountOK(c, c) /\ PointOK(c, c)
  BY <1>1, SchedulerHere
<1>3. ncli[c] = 0
  <2>1. Cardinality(held[c]) = 0
    BY <1>1, HeldFinite
  <2>2. point[c] \notin InHand
    BY <1>2 DEF InHand
  <2>3. ncli[c] = Cardinality(held[c])
    <3>1. CountOK(c, c)
      BY <1>2
    <3>2. Cardinality(held[c]) \in Nat
      BY <2>1
    <3>. QED BY <2>2, <3>1, <3>2 DEF CountOK
  <2>. QED BY <2>1, <2>3
<1>4. /\ c \in fl_if' /\ turn'[c] = "pick" /\ fl_if' \subseteq Cpu /\ turn' \in [Cpu -> {"tail", "pick"}]
      /\ \A d \in Cpu : d # c => turn'[d] = turn[d] /\ (d \in fl_if' <=> d \in fl_if)
  BY <1>1, <1>2 DEF SpinTypeOK
<1>5. SpinTypeOK'
  BY <1>1, <1>2, <1>4 DEF SpinTypeOK
<1>6. CpuOK(c)'
  <2>1. CountOK(c, c)' /\ PointOK(c, c)'
    BY <1>1, <1>2 DEF CountOK, PointOK
  <2>2. SchedulerFlags(c)'
    BY <1>1, <1>2, <1>3, <1>4 DEF SchedulerFlags
  <2>. QED BY <1>1, <1>2, <2>1, <2>2, HereAgain
<1>7. LocksOK'
  <2>1. LocksStay(c, c)
    BY <1>1, <1>2 DEF LocksStay
  <2>. QED BY <2>1, LocksKept
<1>8. FrameOK(c)'
  BY <1>1, <1>2, FrameKept
<1>. QED BY <1>1, <1>2, <1>4, <1>5, <1>6, <1>7, <1>8, StepHere

\* A scan that finds no process.
LEMMA PickNoneKeeps ==
  ASSUME SpinInv, NEW c \in Cpu, PickNone(c)
  PROVE  SpinInv'
<1>1. /\ Scheduling(c) /\ death' = death /\ turn' = [turn EXCEPT ![c] = "tail"]
      /\ UNCHANGED <<locked, owner, ncli, intena, fl_if, running, point, lk, eflags, held, frames, saved, mine>>
  BY DEF PickNone, localvars, cpuvars
<1>2. /\ c = On(c) /\ c \in Task /\ c \notin Thread /\ running[c] = Nil
      /\ point[c] = "run" /\ frames[c] = <<>> /\ death = "" /\ SpinTypeOK
      /\ CountOK(c, c) /\ PointOK(c, c) /\ SchedulerFlags(c)
  BY <1>1, SchedulerHere
<1>3. /\ turn'[c] = "tail" /\ turn' \in [Cpu -> {"tail", "pick"}]
      /\ \A d \in Cpu : d # c => turn'[d] = turn[d]
  BY <1>1, <1>2 DEF SpinTypeOK
<1>4. SpinTypeOK'
  BY <1>1, <1>2, <1>3 DEF SpinTypeOK
<1>5. CpuOK(c)'
  <2>1. CountOK(c, c)' /\ PointOK(c, c)'
    BY <1>1, <1>2 DEF CountOK, PointOK
  <2>2. SchedulerFlags(c)'
    BY <1>1, <1>2, <1>3 DEF SchedulerFlags
  <2>. QED BY <1>1, <1>2, <2>1, <2>2, HereAgain
<1>6. LocksOK'
  <2>1. LocksStay(c, c)
    BY <1>1, <1>2 DEF LocksStay
  <2>. QED BY <2>1, LocksKept
<1>7. FrameOK(c)'
  BY <1>1, <1>2, FrameKept
<1>. QED BY <1>1, <1>2, <1>3, <1>4, <1>5, <1>6, <1>7, StepHere

\* CPU c switches from task t to task u, which takes over ptable.lock.
Switched(c, t, u) ==
  /\ t = On(c) /\ u \in Task /\ u # t
  /\ On(c)' = u /\ \A d \in Cpu : d # c => running'[d] = running[d] /\ On(d) # u
  /\ held[t] = {PTABLE} /\ held'[u] = {PTABLE}
  /\ \A v \in Task : v # t /\ v # u => held'[v] = held[v] /\ point'[v] = point[v]
  /\ point[t] \notin {"own", "unlock"} /\ point'[u] \notin {"own", "unlock"}
  /\ \A d \in Cpu : d # c => turn'[d] = turn[d]
  /\ locked' = locked /\ owner' = owner /\ ncli' = ncli /\ intena' = intena /\ fl_if' = fl_if
  /\ lk' = lk /\ eflags' = eflags /\ frames' = frames /\ mine' = mine

LEMMA SwitchKeeps ==
  ASSUME SpinInv, SpinTypeOK', NEW c \in Cpu, NEW t, NEW u, Switched(c, t, u),
         death' = "", CpuOK(c)', OneCpu', \A y \in Thread : ProcessOK(y)'
  PROVE  SpinInv'
<1>0. /\ t = On(c) /\ u \in Task /\ u # t
      /\ On(c)' = u /\ \A d \in Cpu : d # c => running'[d] = running[d] /\ On(d) # u
      /\ held[t] = {PTABLE} /\ held'[u] = {PTABLE}
      /\ \A v \in Task : v # t /\ v # u => held'[v] = held[v] /\ point'[v] = point[v]
      /\ point[t] \notin {"own", "unlock"} /\ point'[u] \notin {"own", "unlock"}
      /\ \A d \in Cpu : d # c => turn'[d] = turn[d]
  BY DEF Switched
<1>k. /\ locked' = locked /\ owner' = owner /\ ncli' = ncli /\ intena' = intena /\ fl_if' = fl_if
      /\ lk' = lk /\ eflags' = eflags /\ frames' = frames /\ mine' = mine
  BY DEF Switched
<1>1. SpinTypeOK /\ LocksOK /\ t \in Task
  BY <1>0, OnTask DEF SpinInv
<1>2. \A d \in Cpu : d # c => /\ On(d)' = On(d) /\ On(d) \in Task /\ On(d) # t /\ On(d) # u
                              /\ held'[On(d)] = held[On(d)] /\ point'[On(d)] = point[On(d)]
  <2>1. \A d \in Cpu : d # c => On(d)' = On(d) /\ On(d) \in Task /\ On(d) # t
    BY <1>0, OnTask DEF On
  <2>. QED BY <1>0, <2>1
<1>3. ASSUME NEW d \in Cpu, d # c PROVE CpuOK(d)'
  <2>1. CpuOK(d) /\ d \in Task
    BY DEF SpinInv, Task
  <2>2. CountOK(d, On(d))' /\ PointOK(d, On(d))'
    <3>1. PICK task : task = On(d)
      OBVIOUS
    <3>2. CountOK(d, task) /\ PointOK(d, task)
      BY <2>1, <3>1 DEF CpuOK
    <3>3. On(d)' = task /\ held'[task] = held[task] /\ point'[task] = point[task]
      BY <1>2, <1>3, <3>1
    <3>4. ncli'[d] = Cardinality(held'[On(d)']) + (IF point'[On(d)'] \in InHand THEN 1 ELSE 0)
      BY ONLY <1>k, <3>2, <3>3 DEF CountOK
    <3>5. CountOK(d, On(d))'
      BY <3>4 DEF CountOK
    <3>6. PointOK(d, On(d))'
      BY ONLY <1>k, <3>2, <3>3 DEF PointOK
    <3>. QED BY <3>5, <3>6
  <2>3. CASE running[d] = Nil
    <3>1. On(d) = d
      BY <2>3 DEF On
    <3>2. SchedulerFlags(d)'
      <4>1. SchedulerFlags(d)
        BY <2>1, <2>3 DEF CpuOK
      <4>2. turn'[d] = turn[d]
        BY <1>0, <1>3
      <4>. QED BY ONLY <1>k, <4>1, <4>2 DEF SchedulerFlags
    <3>3. running'[d] = running[d]
      BY <1>0, <1>3
    <3>. QED BY <2>2, <2>3, <3>2, <3>3 DEF CpuOK
  <2>4. CASE running[d] # Nil
    <3>1. On(d) = running[d]
      BY <2>4 DEF On
    <3>2. d # t /\ d # u
      <4>0. Cpu \intersect Thread = {}
        OBVIOUS
      <4>1. t = c \/ t \in Thread
        BY <1>0, OnTask DEF On
      <4>2. u = c \/ u \in Thread
        <5>1. running'[c] \in Thread \union {Nil}
          BY DEF SpinTypeOK
        <5>. QED BY <1>0, <5>1 DEF On
      <4>3. d \notin Thread /\ d # c
        BY <1>3, <4>0
      <4>4. d # t
        BY <4>1, <4>3
      <4>5. d # u
        BY <4>2, <4>3
      <4>. QED BY <4>4, <4>5
    <3>3. ProcessFlags(d, running[d])'
      <4>1. PICK task : task = running[d]
        OBVIOUS
      <4>2. ProcessFlags(d, task)
        BY <2>1, <2>4, <4>1 DEF CpuOK
      <4>3. running'[d] = task
        BY <1>0, <1>3, <4>1
      <4>4. point'[task] = point[task]
        BY <1>2, <1>3, <3>1, <4>1
      <4>. QED BY ONLY <1>k, <4>2, <4>3, <4>4 DEF ProcessFlags
    <3>4. turn[d] = "tail" /\ point[d] = "run" /\ frames[d] = <<>> /\ held[d] = {}
      BY <2>1, <2>4 DEF CpuOK
    <3>5. turn'[d] = "tail" /\ point'[d] = "run" /\ frames'[d] = <<>> /\ held'[d] = {}
      BY <1>0, <1>k, <1>3, <2>1, <3>2, <3>4
    <3>6. running'[d] = running[d]
      BY <1>0, <1>3
    <3>. QED BY <2>2, <2>4, <3>3, <3>5, <3>6 DEF CpuOK
  <2>. QED BY <2>3, <2>4
<1>4. LocksOK'
  <2>1. \A l \in Spin : Has(c, l)' <=> Has(c, l)
    <3>1. \A l \in Spin : Has(c, l) <=> l \in {PTABLE}
      BY <1>0 DEF Has
    <3>2. \A l \in Spin : Has(c, l)' <=> l \in {PTABLE}
      BY <1>0 DEF Has
    <3>. QED BY <3>1, <3>2
  <2>2. \A d \in Cpu, l \in Spin : d # c => (Has(d, l)' <=> Has(d, l))
    BY <1>k, <1>2 DEF Has
  <2>3. \A d \in Cpu, l \in Spin : owner'[l] = d <=> l \in held'[On(d)']
    <3>1. \A l \in Spin : owner[l] = c <=> l \in held[t]
      BY <1>0, <1>1 DEF LocksOK
    <3>2. \A d \in Cpu, l \in Spin : d # c => (owner[l] = d <=> l \in held[On(d)])
      BY <1>1 DEF LocksOK
    <3>3. \A l \in Spin : owner'[l] = c <=> l \in held'[u]
      BY <1>0, <1>k, <3>1
    <3>4. ASSUME NEW d \in Cpu, NEW l \in Spin, d # c PROVE owner'[l] = d <=> l \in held'[On(d)']
      <4>1. On(d)' = On(d) /\ held'[On(d)] = held[On(d)]
        BY <1>2, <3>4
      <4>2. owner[l] = d <=> l \in held[On(d)]
        BY <3>2, <3>4
      <4>3. held'[On(d)'] = held[On(d)] /\ owner'[l] = owner[l]
        BY <1>k, <4>1
      <4>. QED BY <4>2, <4>3
    <3>. QED BY <1>0, <3>3, <3>4
  <2>4. \A d, g \in Cpu, l \in Spin : Has(d, l)' /\ Has(g, l)' => d = g
    <3>1. \A d, g \in Cpu, l \in Spin : Has(d, l) /\ Has(g, l) => d = g
      BY <1>1 DEF LocksOK
    <3>2. \A d \in Cpu, l \in Spin : Has(d, l)' <=> Has(d, l)
      BY <2>1, <2>2
    <3>. QED BY ONLY <3>1, <3>2
  <2>5. \A d \in Cpu, l \in Spin : Has(d, l)' => l \in locked'
    <3>1. \A d \in Cpu, l \in Spin : Has(d, l) => l \in locked
      BY <1>1 DEF LocksOK
    <3>2. \A d \in Cpu, l \in Spin : Has(d, l)' <=> Has(d, l)
      BY <2>1, <2>2
    <3>. QED BY <1>k, <3>1, <3>2
  <2>. QED BY <2>3, <2>4, <2>5 DEF LocksOK
<1>5. \A v \in Task : FrameOK(v)'
  BY <1>k DEF SpinInv, FrameOK
<1>. QED BY <1>3, <1>4, <1>5 DEF SpinInv, NoDeath

\* ptable.lock is one lock, for the nesting that sched() asks for.
LEMMA OneLock == Cardinality({PTABLE}) = 1
  BY FS_Singleton

\* sched() gives up the CPU to its scheduler, with ptable.lock and one pushcli.
LEMMA SchedKeeps ==
  ASSUME SpinInv, NEW c \in Cpu, NEW t \in Task, Sched(t, c)
  PROVE  SpinInv'
<1>1. /\ t = On(c) /\ t \in Thread /\ point[t] = "run" /\ death = "" /\ held[t] = {PTABLE}
      /\ saved' = SetTo(saved, t, c \in intena)
      /\ running' = [running EXCEPT ![c] = Nil]
      /\ held' = [held EXCEPT ![t] = {}, ![c] = {PTABLE}]
      /\ point' = [point EXCEPT ![t] = "swtch"]
      /\ UNCHANGED <<locked, owner, ncli, intena, fl_if, turn, lk, eflags, frames, mine>>
  BY DEF Sched, Runs, Goto
<1>2. SpinTypeOK /\ HereOK(c, t) /\ CountOK(c, t) /\ ncli[c] \in Nat
  <2>1. SpinTypeOK /\ HereOK(c, t)
    BY <1>1, Here DEF SpinInv
  <2>. QED BY <2>1 DEF HereOK
<1>3. /\ running[c] = t /\ t # c /\ c \in Task /\ c \notin Thread /\ running[c] # Nil
      /\ ProcessFlags(c, t) /\ ProcessOK(t) /\ turn[c] = "tail"
      /\ point[c] = "run" /\ frames[c] = <<>> /\ held[c] = {}
  BY <1>1, <1>2 DEF HereOK, Task
<1>4. ncli[c] = 1
  <2>1. CountOK(c, t) /\ Cardinality(held[t]) = 1 /\ Cardinality(held[t]) \in Nat
    <3>1. Cardinality(held[t]) = 1
      BY <1>1, OneLock
    <3>. QED BY <1>2, <3>1
  <2>2. point[t] \notin InHand
    BY <1>1 DEF InHand
  <2>3. ncli[c] = Cardinality(held[t])
    BY <2>1, <2>2 DEF CountOK
  <2>. QED BY <2>1, <2>3
<1>5. /\ c \notin fl_if
      /\ c \in intena <=> frames[t] = <<>>
  <2>1. ProcessFlags(c, t)
    BY <1>3
  <2>2. point[t] # "swtch"
    BY <1>1
  <2>. QED BY <1>4, <2>1, <2>2 DEF ProcessFlags
<1>6. death' = ""
  <2>1. Holding(c, PTABLE)
    <3>1. LocksOK /\ Has(c, PTABLE) /\ PTABLE \in held[On(c)]
      BY <1>1 DEF SpinInv, Has
    <3>. QED BY <3>1 DEF LocksOK, Holding
  <2>. QED BY <1>4, <1>5, <2>1 DEF Sched
<1>7. /\ running'[c] = Nil /\ running' \in [Cpu -> Thread \union {Nil}]
      /\ \A d \in Cpu : d # c => running'[d] = running[d]
  BY <1>1, <1>2 DEF SpinTypeOK
<1>8. /\ held'[t] = {} /\ held'[c] = {PTABLE} /\ held' \in [Task -> SUBSET Spin]
      /\ \A u \in Task : u # t /\ u # c => held'[u] = held[u]
  BY <1>1, <1>2, <1>3 DEF SpinTypeOK
<1>9. /\ point'[t] = "swtch" /\ point' \in [Task -> Point]
      /\ \A u \in Task : u # t => point'[u] = point[u]
  BY <1>1, <1>2 DEF SpinTypeOK, Point
<1>10. /\ t \in saved' <=> frames[t] = <<>>
       /\ \A u \in Task : u # t => (u \in saved' <=> u \in saved)
       /\ saved' \subseteq Task
  BY <1>1, <1>2, <1>5 DEF SetTo, SpinTypeOK
<1>11. SpinTypeOK'
  BY <1>1, <1>2, <1>7, <1>8, <1>9, <1>10 DEF SpinTypeOK
<1>12. On(c)' = c
  BY <1>7 DEF On
<1>13. CpuOK(c)'
  <2>1. point'[c] = "run" /\ ncli'[c] = 1 /\ c \notin fl_if'
    BY <1>1, <1>3, <1>4, <1>5, <1>9
  <2>2. CountOK(c, c)'
    BY <1>8, <2>1, OneLock DEF CountOK, InHand
  <2>3. PointOK(c, c)'
    BY <2>1 DEF PointOK
  <2>4. frames'[c] = <<>> /\ turn'[c] = "tail"
    BY <1>1, <1>3
  <2>5. SchedulerFlags(c)'
    BY <2>1, <2>4 DEF SchedulerFlags
  <2>. QED BY <1>7, <1>12, <2>2, <2>3, <2>5 DEF CpuOK
<1>14. ASSUME NEW y \in Thread PROVE ProcessOK(y)'
  <2>1. CASE y = t
    <3>1. WaitingOK(y)'
      BY <1>8, <1>9, <2>1 DEF WaitingOK
    <3>2. point'[y] = "swtch" /\ (y \in saved' <=> frames'[y] = <<>>)
      BY <1>1, <1>9, <1>10, <2>1
    <3>. QED BY <3>1, <3>2 DEF ProcessOK
  <2>2. CASE y # t
    <3>1. ProcessOK(y) /\ y \in Task /\ y # c
      BY <1>3 DEF SpinInv, Task
    <3>2. Waiting(y)' => Waiting(y)
      BY <1>3, <1>7, <2>2 DEF Waiting
    <3>3. held'[y] = held[y] /\ point'[y] = point[y] /\ (y \in saved' <=> y \in saved) /\ frames' = frames
      BY <1>1, <1>8, <1>9, <1>10, <2>2, <3>1
    <3>. QED BY <3>1, <3>2, <3>3 DEF ProcessOK, WaitingOK
  <2>. QED BY <2>1, <2>2
<1>15. OneCpu'
  BY <1>7 DEF SpinInv, OneCpu
<1>16. \A d \in Cpu : d # c => On(d) # c
  <2>1. \A d \in Cpu : On(d) = d \/ On(d) \in Thread
    BY OnTask DEF On
  <2>. QED BY <1>3, <2>1
<1>17. \A v \in Task : v # t /\ v # c => held'[v] = held[v] /\ point'[v] = point[v]
  BY <1>8, <1>9
<1>18. point[t] \notin {"own", "unlock"} /\ point'[c] \notin {"own", "unlock"}
  BY <1>1, <1>3, <1>9
<1>19. /\ c \in Task /\ c # t
       /\ \A d \in Cpu : d # c => running'[d] = running[d] /\ On(d) # c
       /\ \A d \in Cpu : d # c => turn'[d] = turn[d]
       /\ held[t] = {PTABLE} /\ held'[c] = {PTABLE}
  BY <1>1, <1>3, <1>7, <1>8, <1>16
<1>20. t = On(c) /\ UNCHANGED <<locked, owner, ncli, intena, fl_if, lk, eflags, frames, mine>>
  BY <1>1
<1>21. Switched(c, t, c)
  BY <1>12, <1>17, <1>18, <1>19, <1>20 DEF Switched
<1>. QED BY <1>6, <1>11, <1>13, <1>14, <1>15, <1>21, SwitchKeeps

\* The scheduler gives ptable.lock to the process that it switches to.
LEMMA PickKeeps ==
  ASSUME SpinInv, NEW c \in Cpu, NEW y \in Thread, Pick(c, y)
  PROVE  SpinInv'
<1>1. /\ Scheduling(c) /\ turn[c] = "pick" /\ held[c] = {PTABLE} /\ death' = death
      /\ point[y] \in {"new", "swtch"} /\ \A d \in Cpu : running[d] # y
      /\ turn' = [turn EXCEPT ![c] = "tail"]
      /\ running' = [running EXCEPT ![c] = y]
      /\ held' = [held EXCEPT ![c] = {}, ![y] = {PTABLE}]
      /\ point' = [point EXCEPT ![y] = IF point[y] = "new" THEN "run" ELSE "swtch"]
      /\ UNCHANGED <<locked, owner, ncli, intena, fl_if, lk, eflags, frames, saved, mine>>
  BY DEF Pick, Goto
<1>2. /\ c = On(c) /\ c \in Task /\ c \notin Thread /\ running[c] = Nil
      /\ point[c] = "run" /\ frames[c] = <<>> /\ death = "" /\ SpinTypeOK
      /\ CountOK(c, c) /\ SchedulerFlags(c)
  BY <1>1, SchedulerHere
<1>3. ncli[c] = 1
  <2>1. Cardinality(held[c]) = 1
    BY <1>1, OneLock
  <2>2. point[c] \notin InHand
    BY <1>2 DEF InHand
  <2>3. ncli[c] = Cardinality(held[c])
    <3>1. CountOK(c, c)
      BY <1>2
    <3>. QED BY <2>1, <2>2, <3>1 DEF CountOK
  <2>. QED BY <2>1, <2>3
<1>4. c \notin fl_if /\ c \in intena
  <2>1. SchedulerFlags(c)
    BY <1>2
  <2>2. frames[c] = <<>> /\ turn[c] = "pick"
    BY <1>1, <1>2
  <2>. QED BY <1>3, <2>1, <2>2 DEF SchedulerFlags
<1>5. y # c /\ y # Nil /\ y \in Task
  BY <1>2 DEF Task
<1>6. /\ ProcessOK(y)
      /\ point[y] = "new" => frames[y] = <<>>
  BY DEF SpinInv, ProcessOK
<1>7. /\ running'[c] = y /\ running' \in [Cpu -> Thread \union {Nil}]
      /\ \A d \in Cpu : d # c => running'[d] = running[d]
  BY <1>1, <1>2 DEF SpinTypeOK
<1>8. /\ held'[y] = {PTABLE} /\ held'[c] = {} /\ held' \in [Task -> SUBSET Spin]
      /\ \A u \in Task : u # c /\ u # y => held'[u] = held[u]
  BY <1>1, <1>2, <1>5 DEF SpinTypeOK
<1>9. /\ point[y] = "new" => point'[y] = "run"
      /\ point[y] = "swtch" => point'[y] = "swtch"
      /\ point'[y] \in {"run", "swtch"} /\ point' \in [Task -> Point]
      /\ \A u \in Task : u # y => point'[u] = point[u]
  <2>1. point \in [Task -> Point] /\ "run" \in Point /\ "swtch" \in Point
    BY <1>2 DEF SpinTypeOK, Point
  <2>. QED BY <1>1, <1>5, <2>1
<1>10. /\ turn'[c] = "tail" /\ turn' \in [Cpu -> {"tail", "pick"}]
       /\ \A d \in Cpu : d # c => turn'[d] = turn[d]
  BY <1>1, <1>2 DEF SpinTypeOK
<1>11. SpinTypeOK'
  BY <1>1, <1>2, <1>7, <1>8, <1>9, <1>10 DEF SpinTypeOK
<1>12. On(c)' = y
  BY <1>5, <1>7 DEF On
<1>13. CpuOK(c)'
  <2>1. ncli'[c] = 1 /\ c \notin fl_if' /\ c \in intena'
    BY <1>1, <1>3, <1>4
  <2>2. CountOK(c, y)'
    BY <1>8, <1>9, <2>1, OneLock DEF CountOK, InHand
  <2>3. PointOK(c, y)'
    BY <1>8, <1>9 DEF PointOK
  <2>4. ProcessFlags(c, y)'
    <3>1. point'[y] # "swtch" => frames'[y] = <<>>
      BY <1>1, <1>6, <1>9
    <3>. QED BY <2>1, <3>1 DEF ProcessFlags
  <2>5. point'[c] = "run" /\ frames'[c] = <<>> /\ held'[c] = {} /\ turn'[c] = "tail"
    BY <1>1, <1>2, <1>5, <1>8, <1>9, <1>10
  <2>. QED BY <1>5, <1>7, <1>12, <2>2, <2>3, <2>4, <2>5 DEF CpuOK
<1>14. ASSUME NEW q \in Thread PROVE ProcessOK(q)'
  <2>1. CASE q = y
    <3>1. WaitingOK(q)'
      BY <1>7, <2>1 DEF WaitingOK, Waiting
    <3>2. point'[q] # "new" /\ (point'[q] = "swtch" => point[q] = "swtch")
      BY <1>1, <1>9, <2>1
    <3>3. saved' = saved /\ frames' = frames
      BY <1>1
    <3>. QED BY <1>6, <2>1, <3>1, <3>2, <3>3 DEF ProcessOK
  <2>2. CASE q # y
    <3>1. ProcessOK(q) /\ q \in Task /\ q # c
      BY <1>2 DEF SpinInv, Task
    <3>2. Waiting(q)' => Waiting(q)
      <4>1. q # Nil
        OBVIOUS
      <4>. QED BY <1>2, <1>7, <4>1 DEF Waiting
    <3>3. held'[q] = held[q] /\ point'[q] = point[q] /\ saved' = saved /\ frames' = frames
      BY <1>1, <1>8, <1>9, <2>2, <3>1
    <3>. QED BY <3>1, <3>2, <3>3 DEF ProcessOK, WaitingOK
  <2>. QED BY <2>1, <2>2
<1>15. OneCpu'
  BY <1>1, <1>7 DEF SpinInv, OneCpu
<1>16. \A d \in Cpu : d # c => On(d) # y
  <2>1. \A d \in Cpu : On(d) = d \/ On(d) = running[d]
    BY DEF On
  <2>2. \A d \in Cpu : d # y
    OBVIOUS
  <2>. QED BY <1>1, <2>1, <2>2
<1>17. \A v \in Task : v # c /\ v # y => held'[v] = held[v] /\ point'[v] = point[v]
  BY <1>8, <1>9
<1>18. point[c] \notin {"own", "unlock"} /\ point'[y] \notin {"own", "unlock"}
  BY <1>2, <1>9
<1>19. /\ y \in Task /\ y # c /\ death' = ""
       /\ \A d \in Cpu : d # c => running'[d] = running[d] /\ On(d) # y
       /\ \A d \in Cpu : d # c => turn'[d] = turn[d]
       /\ held[c] = {PTABLE} /\ held'[y] = {PTABLE}
  BY <1>1, <1>2, <1>5, <1>7, <1>8, <1>10, <1>16
<1>20. c = On(c) /\ UNCHANGED <<locked, owner, ncli, intena, fl_if, lk, eflags, frames, mine>>
  BY <1>1, <1>2
<1>21. Switched(c, c, y)
  BY <1>12, <1>17, <1>18, <1>19, <1>20 DEF Switched
<1>. QED BY <1>11, <1>13, <1>14, <1>15, <1>19, <1>21, SwitchKeeps

----------------------------------------------------------------------------
(* The theorems.                                                           *)

\* The schedulers start without locks and with interrupts off.
LEMMA SpinInitHolds == SpinInit => SpinInv
<1> SUFFICES ASSUME SpinInit PROVE SpinInv
  OBVIOUS
<1>1. SpinTypeOK
  <2>1. <<>> \in Seq(FrameSet)
    OBVIOUS
  <2>. QED BY <2>1 DEF SpinInit, SpinTypeOK, Point, Task
<1>2. \A c \in Cpu : On(c) = c /\ c \in Task
  BY DEF SpinInit, On, Task
<1>3. ASSUME NEW c \in Cpu PROVE CpuOK(c)
  <2>1. /\ running[c] = Nil /\ point[c] = "run" /\ held[c] = {} /\ ncli[c] = 0
        /\ c \notin fl_if /\ frames[c] = <<>> /\ turn[c] = "tail"
    BY <1>2 DEF SpinInit
  <2>2. CountOK(c, c)
    BY <2>1, FS_EmptySet DEF CountOK, InHand
  <2>. QED BY <1>2, <2>1, <2>2 DEF CpuOK, PointOK, SchedulerFlags
<1>4. ASSUME NEW y \in Thread PROVE ProcessOK(y)
  <2>1. point[y] = "new" /\ held[y] = {} /\ frames[y] = <<>>
    BY DEF SpinInit, Task
  <2>. QED BY <2>1 DEF ProcessOK, WaitingOK
<1>5. LocksOK /\ OneCpu
  BY <1>2 DEF SpinInit, LocksOK, Has, OneCpu
<1>6. \A t \in Task : FrameOK(t)
  BY DEF SpinInit, FrameOK
<1>. QED BY <1>1, <1>3, <1>4, <1>5, <1>6 DEF SpinInit, SpinInv, NoDeath

\* One lemma above for each action.
LEMMA NextKeeps == SpinInv /\ [SpinNext]_spinvars => SpinInv'
<1> SUFFICES ASSUME SpinInv, [SpinNext]_spinvars PROVE SpinInv'
  OBVIOUS
<1>1. CASE UNCHANGED spinvars
  <2>1. UNCHANGED <<locked, owner, ncli, intena, fl_if, running, turn, point, lk, eflags, held, frames,
                    saved, mine, death>>
    BY <1>1 DEF spinvars, cpuvars, localvars
  <2>2. \A c \in Cpu : On(c)' = On(c)
    BY <2>1 DEF On
  <2>3. SpinTypeOK' /\ NoDeath' /\ OneCpu'
    BY <2>1 DEF SpinInv, SpinTypeOK, NoDeath, OneCpu
  <2>4. LocksOK'
    BY <2>1, <2>2 DEF SpinInv, LocksOK, Has
  <2>5. ASSUME NEW c \in Cpu PROVE CpuOK(c)'
    <3>1. CpuOK(c)
      BY DEF SpinInv
    <3>2. CountOK(c, On(c))' /\ PointOK(c, On(c))'
      BY <2>1, <2>2, <3>1 DEF CpuOK, CountOK, PointOK
    <3>3. /\ running[c] = Nil => SchedulerFlags(c)'
          /\ running[c] # Nil => ProcessFlags(c, running[c])'
      BY <2>1, <3>1 DEF CpuOK, SchedulerFlags, ProcessFlags
    <3>. QED BY <2>1, <3>1, <3>2, <3>3 DEF CpuOK
  <2>6. \A y \in Thread : ProcessOK(y)'
    BY <2>1 DEF SpinInv, ProcessOK, WaitingOK, Waiting
  <2>7. \A t \in Task : FrameOK(t)'
    BY <2>1 DEF SpinInv, FrameOK
  <2>. QED BY <2>3, <2>4, <2>5, <2>6, <2>7 DEF SpinInv
<1>2. ASSUME NEW c \in Cpu, NEW t \in Task, NEW l \in Spin \union {Nil}, Readeflags(t, c, l)
      PROVE  SpinInv'
  BY <1>2, ReadeflagsKeeps
<1>3. ASSUME NEW c \in Cpu, NEW t \in Task, NEW l \in Spin, Release(t, c, l) PROVE SpinInv'
  BY <1>3, SpinReleaseKeeps
<1>4. ASSUME NEW c \in Cpu, NEW t \in Task,
             \/ Pushcli(t, c) \/ Xchg(t, c) \/ Own(t, c) \/ Unlock(t, c) \/ Myproc(t, c)
             \/ Interrupt(t, c) \/ Iret(t, c) \/ Sched(t, c) \/ Resume(t, c)
      PROVE  SpinInv'
  BY <1>4, PushcliKeeps, XchgKeeps, OwnKeeps, UnlockKeeps, MyprocKeeps, SpinInterruptKeeps,
     IretKeeps, SchedKeeps, ResumeKeeps
<1>5. ASSUME NEW c \in Cpu, Sti(c) \/ PickNone(c) PROVE SpinInv'
  BY <1>5, StiKeeps, PickNoneKeeps
<1>6. ASSUME NEW c \in Cpu, NEW y \in Thread, Pick(c, y) PROVE SpinInv'
  BY <1>6, PickKeeps
<1>. QED BY <1>1, <1>2, <1>3, <1>4, <1>5, <1>6 DEF SpinNext

\* The inductive invariant: on every CPU ncli is the number of locks that the running
\* task has and is about to have or give back, intena is what FL_IF was before the
\* first of them, and the code that a handler interrupted had none.
THEOREM SpinlockInvariant == SpinSpec => []SpinInv
<1>1. SpinInit => SpinInv
  BY SpinInitHolds
<1>2. SpinInv /\ [SpinNext]_spinvars => SpinInv'
  BY NextKeeps
<1>. QED BY <1>1, <1>2, PTL DEF SpinSpec

\* What LocksSound says follows from the invariant.
LEMMA SoundHolds == SpinInv => LocksSound
<1> SUFFICES ASSUME SpinInv PROVE LocksSound
  OBVIOUS
<1>1. ASSUME NEW t \in Task, held[t] # {}
      PROVE  \E c \in Cpu : On(c) = t /\ c \notin fl_if
  <2>1. \E c \in Cpu : On(c) = t
    <3>1. CASE t \in Thread
      <4>1. ~Waiting(t)
        BY <1>1, <3>1 DEF SpinInv, ProcessOK, WaitingOK
      <4>2. PICK c \in Cpu : running[c] = t
        BY <4>1 DEF Waiting
      <4>3. t # Nil
        BY <3>1
      <4>. QED BY <4>2, <4>3 DEF On
    <3>2. CASE t \in Cpu
      <4>1. running[t] = Nil
        BY <1>1, <3>2 DEF SpinInv, CpuOK
      <4>. QED BY <3>2, <4>1 DEF On
    <3>. QED BY <3>1, <3>2 DEF Task
  <2>2. PICK c \in Cpu : On(c) = t
    BY <2>1
  <2>3. HereOK(c, t)
    BY <2>2, Here
  <2>4. ncli[c] # 0
    <3>1. CountOK(c, t) /\ Cardinality(held[t]) \in Nat
      BY <2>3 DEF HereOK
    <3>2. Cardinality(held[t]) # 0
      <4>1. held[t] \in SUBSET Spin
        BY <2>3 DEF HereOK
      <4>. QED BY <1>1, <4>1, HeldFinite
    <3>. QED BY <3>1, <3>2 DEF CountOK
  <2>5. c \notin fl_if
    BY <2>3, <2>4 DEF HereOK, SchedulerFlags, ProcessFlags
  <2>. QED BY <2>2, <2>5
<1>2. Exclusive
  <2>1. ASSUME NEW t \in Task, NEW u \in Task, NEW l \in held[t], l \in held[u] PROVE t = u
    <3>1. PICK c \in Cpu : On(c) = t
      BY <1>1, <2>1
    <3>2. PICK d \in Cpu : On(d) = u
      BY <1>1, <2>1
    <3>3. l \in Spin /\ LocksOK
      BY <2>1 DEF SpinInv, SpinTypeOK
    <3>4. c = d
      BY <2>1, <3>1, <3>2, <3>3 DEF LocksOK, Has
    <3>. QED BY <3>1, <3>2, <3>4
  <2>. QED BY <2>1 DEF Exclusive
<1>3. LockedRuns
  <2>1. ASSUME NEW t \in Task, NEW i \in DOMAIN frames[t] PROVE frames[t][i].held = {}
    <3>1. FrameOK(t) /\ frames[t] \in Seq(FrameSet)
      BY DEF SpinInv, SpinTypeOK
    <3>2. frames[t] # <<>>
      BY <3>1
    <3>3. Len(frames[t]) = 1 /\ frames[t][1].held = {}
      BY <3>1, <3>2 DEF FrameOK
    <3>4. i = 1
      BY <3>1, <3>3
    <3>. QED BY <3>3, <3>4
  <2>. QED BY <1>1, <2>1 DEF LockedRuns
<1>4. InterruptsMatch
  BY DEF SpinInv, CpuOK, ProcessFlags, InterruptsMatch
<1>5. MyprocIsCaller
  <2>1. ASSUME NEW t \in Task, point[t] = "proc" PROVE mine[t] \in Cpu /\ On(mine[t]) = t
    <3>1. \E c \in Cpu : On(c) = t
      <4>1. CASE t \in Thread
        <5>1. ~Waiting(t)
          BY <2>1, <4>1 DEF SpinInv, ProcessOK, WaitingOK
        <5>2. PICK c \in Cpu : running[c] = t
          BY <5>1 DEF Waiting
        <5>3. t # Nil
          BY <4>1
        <5>. QED BY <5>2, <5>3 DEF On
      <4>2. CASE t \in Cpu
        <5>1. running[t] = Nil
          BY <2>1, <4>2 DEF SpinInv, CpuOK
        <5>. QED BY <4>2, <5>1 DEF On
      <4>. QED BY <4>1, <4>2 DEF Task
    <3>2. PICK c \in Cpu : On(c) = t
      BY <3>1
    <3>3. PointOK(c, t)
      BY <3>2, Here DEF HereOK
    <3>. QED BY <2>1, <3>2, <3>3 DEF PointOK
  <2>. QED BY <2>1 DEF MyprocIsCaller
<1>. QED BY <1>2, <1>3, <1>4, <1>5 DEF LocksSound, SpinInv

\* Spin locks exclude each other's tasks, no task loses its CPU or is interrupted while
\* it has one, interrupts are off exactly where they must be, myproc() reads the CPU of
\* its caller, and no check of acquire, release, popcli or sched() panics.
THEOREM SpinlockSound == SpinSpec => []LocksSound
  BY SpinlockInvariant, SoundHolds, PTL

=============================================================================

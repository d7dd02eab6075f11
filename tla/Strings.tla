-------------------------------- MODULE Strings --------------------------------
(***************************************************************************)
(* The routines on characters that the kernel and the programs share:      *)
(* moving memory and copying names (string.c, ulib.c), the elements of a   *)
(* path (fs.c), numbers (printf.c, ulib.c), the cursor of the screen       *)
(* (console.c).  Memory and strings are sequences; a string in memory ends *)
(* at its first NUL, or where the array ends.                              *)
(***************************************************************************)
EXTENDS Integers, Sequences, SequencesExt, FiniteSetsExt

CONSTANTS
  DIRSIZ,        \* characters of a name in a directory
  UINT,          \* range of an unsigned integer
  Columns, Rows  \* the screen

NUL == "0"
NumMin(a, b) == IF a < b THEN a ELSE b

----------------------------------------------------------------------------
(* Copying.                                                                *)

\* One character after the other, upwards or downwards.
CopyUp(mem, dst, src, n) ==
  FoldLeft(LAMBDA m, k : [m EXCEPT ![dst + k] = m[src + k]], mem, [k \in 1..n |-> k - 1])

CopyDown(mem, dst, src, n) ==
  FoldLeft(LAMBDA m, k : [m EXCEPT ![dst + k] = m[src + k]], mem, [k \in 1..n |-> n - k])

memmove(mem, dst, src, n) ==
  IF src < dst /\ src + n > dst THEN CopyDown(mem, dst, src, n)
  ELSE CopyUp(mem, dst, src, n)

\* The memmove of user programs.
umemmove(mem, dst, src, n) == CopyUp(mem, dst, src, n)

Moved(mem, dst, src, n) ==
  [i \in DOMAIN mem |-> IF i \in dst..(dst + n - 1) THEN mem[i - dst + src] ELSE mem[i]]

\* The kernel copies right also when the areas overlap, the programs' memmove
\* only downwards; grep moves its buffer down.
MemmoveCopies(mem, dst, src, n) ==
  /\ memmove(mem, dst, src, n) = Moved(mem, dst, src, n)
  /\ dst <= src \/ dst >= src + n => umemmove(mem, dst, src, n) = Moved(mem, dst, src, n)

----------------------------------------------------------------------------
(* Names and paths.                                                        *)

\* The characters of a string up to its NUL; strlen counts them.
Chars(t) == LET stop == {i \in DOMAIN t : t[i] = NUL}
            IN IF stop = {} THEN t ELSE SubSeq(t, 1, Min(stop) - 1)

\* strncpy fills up with NULs, safestrcpy leaves room for one.
strncpy(s, t, n) ==
  [i \in DOMAIN s |-> IF i > n THEN s[i]
                      ELSE IF i <= Len(Chars(t)) THEN t[i] ELSE NUL]

safestrcpy(s, t, n) ==
  LET k == NumMin(n - 1, Len(Chars(t)))
  IN [i \in DOMAIN s |-> IF i <= k THEN t[i] ELSE IF i = k + 1 THEN NUL ELSE s[i]]

\* strncmp returns 0.  It stops at the end of both, at a difference, or at n.
RECURSIVE Same(_, _, _, _)
Same(p, q, n, i) ==
  IF i > n THEN TRUE
  ELSE LET c == IF i > Len(p) THEN NUL ELSE p[i]
           d == IF i > Len(q) THEN NUL ELSE q[i]
       IN c = d /\ (c = NUL \/ Same(p, q, n, i + 1))

namecmp(s, t) == Same(s, t, DIRSIZ, 1)

RECURSIVE SkipSlashes(_)
SkipSlashes(path) ==
  IF path # <<>> /\ path[1] = "/" THEN SkipSlashes(Tail(path)) ELSE path

\* (mutant) a short name is not ended by a NUL.
MutElement(name, s) ==
  [i \in 1..DIRSIZ |-> IF i <= Len(s) THEN s[i] ELSE name[i]]

\* What skipelem leaves in name, which may hold an older element.
Element(name, s) ==
  [i \in 1..DIRSIZ |-> IF i <= Len(s) THEN s[i]
                       ELSE IF i = Len(s) + 1 THEN NUL ELSE name[i]]

skipelem(path, name) ==
  LET p == SkipSlashes(path)
      stop == {i \in DOMAIN p : p[i] = "/"}
      len == IF stop = {} THEN Len(p) ELSE Min(stop) - 1
  IN [none |-> p = <<>>,
      path |-> SkipSlashes(SubSeq(p, len + 1, Len(p))),
      name |-> IF p = <<>> THEN name ELSE Element(name, SubSeq(p, 1, len))]

\* The names that namex passes to dirlookup, each over the one before it.
RECURSIVE NamesOf(_, _)
NamesOf(path, name) ==
  LET x == skipelem(path, name)
  IN IF x.none THEN <<>> ELSE <<x.name>> \o NamesOf(x.path, x.name)

\* The elements of a path, split at the slashes.
RECURSIVE Elements(_)
Elements(path) ==
  IF path = <<>> THEN <<>>
  ELSE LET stop == {i \in DOMAIN path : path[i] = "/"}
           len == IF stop = {} THEN Len(path) ELSE Min(stop) - 1
           rest == Elements(SubSeq(path, len + 2, Len(path)))
       IN IF len = 0 THEN rest ELSE <<SubSeq(path, 1, len)>> \o rest

Short(elem) == SubSeq(elem, 1, NumMin(Len(elem), DIRSIZ))

\* A path is looked up element by element, and an element finds exactly the
\* directory entries whose names begin with the same DIRSIZ characters,
\* whatever the buffers held before.
PathFindsNames(path, other, junk) ==
  LET names == NamesOf(path, junk)
      elems == Elements(path)
  IN /\ Len(names) = Len(elems)
     /\ \A i \in DOMAIN elems :
          namecmp(names[i], strncpy(junk, other, DIRSIZ)) <=> Short(elems[i]) = Short(other)

\* safestrcpy, which names processes: a string that ends within the array.
SafeCopy(s, t, n) ==
  Chars(SubSeq(safestrcpy(s, t, n), 1, n)) = SubSeq(Chars(t), 1, NumMin(n - 1, Len(Chars(t))))

----------------------------------------------------------------------------
(* Numbers.                                                                *)

\* printint: the digits, the last one first, and the sign; x is unsigned.
RECURSIVE Digits(_, _)
Digits(x, base) ==
  IF x < base THEN <<x>> ELSE Digits(x \div base, base) \o <<x % base>>

printint(xx, base, sgn) ==
  IF sgn /\ xx < 0 THEN <<"-">> \o Digits((-xx) % UINT, base) ELSE Digits(xx % UINT, base)

\* atoi takes the digits up to the first other character.
atoi(s) ==
  LET stop == {i \in DOMAIN s : s[i] \notin 0..9}
      k == IF stop = {} THEN Len(s) ELSE Min(stop) - 1
  IN FoldLeft(LAMBDA n, d : n * 10 + d, 0, SubSeq(s, 1, k))

ValueOf(s, base) == FoldLeft(LAMBDA n, d : n * base + d, 0, s)

\* A number that is printed is the number, also the smallest one, and atoi
\* reads back what %d prints of a number that is not negative.
PrintsNumber(xx) ==
  /\ LET s == printint(xx, 10, TRUE)
     IN IF xx < 0 THEN s[1] = "-" /\ ValueOf(Tail(s), 10) = -xx
        ELSE ValueOf(s, 10) = xx /\ atoi(s) = xx
  /\ ValueOf(printint(xx, 16, FALSE), 16) = xx % UINT

----------------------------------------------------------------------------
(* The cursor of cgaputc; the last row of the screen is not used.          *)

BACKSPACE == "^H"

Scrolled(pos) == IF pos \div Columns >= Rows - 1 THEN pos - Columns ELSE pos

Moves(pos, c) ==
  IF c = "\n" THEN pos + Columns - (pos % Columns)
  ELSE IF c = BACKSPACE THEN (IF pos > 0 THEN pos - 1 ELSE pos)
  ELSE pos + 1

cgaputc(pos, c) == Scrolled(Moves(pos, c))

\* From wherever it is above the last row the cursor stays above it, so that
\* panic("pos under/overflow") is never called and crt[pos] is on the screen.
CursorOnScreen(pos, c) ==
  /\ Moves(pos, c) \in 0..(Rows * Columns)
  /\ cgaputc(pos, c) \in 0..((Rows - 1) * Columns - 1)

=============================================================================

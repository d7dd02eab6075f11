--------------------------------- MODULE Units ---------------------------------
(***************************************************************************)
(* The components that share no state with the others of the project,      *)
(* model-checked side by side: in a behaviour one of them runs from its    *)
(* own initial states and the others rest.                                 *)
(*                                                                         *)
(*   scan      the table scan of the MLFQ scheduler        MlfqPick        *)
(*   disk      buffer cache, sleep locks, disk driver      Disk            *)
(*   locks     spin locks, interrupts, context switches     Spinlock      *)
(*   console   console input                               Console         *)
(*   malloc    the allocator of programs                   Umalloc         *)
(*   memory    pages and page tables of processes          Vm              *)
(*   routines  functions of their arguments: the shell's parser, grep,     *)
(*             strings, paths, numbers and the cursor, every argument of   *)
(*             a bounded set an initial state                              *)
(***************************************************************************)
EXTENDS MlfqPick, Disk, Spinlock, Console, Umalloc, Vm

CONSTANTS
  MAXARGS, BufSize, DIRSIZ, IntRange, Columns, Rows,
  LineLength,    \* BOUND: characters of a command line
  TextLength     \* BOUND: characters of expressions, texts, names

VARIABLES
  input,         \* the arguments of a routine
  part           \* the component that runs

pickVars == vars
unitVars == <<pickVars, diskvars, spinvars, consoleVars, mallocVars, memoryVars, input, part>>

\* Programs of two segments, the second after and within the first, and changes of a size.
UnitImages == {<<1, 2 * PGSIZE>>, <<PGSIZE, 1>>}
UnitGrows == {1, PGSIZE + 1, -PGSIZE - 1}

Sh == INSTANCE ShellParser
Re == INSTANCE Grep
Str == INSTANCE Strings WITH UINT <- IntRange

----------------------------------------------------------------------------
(* The arguments of the routines.                                          *)

Texts(set, k) == UNION {[1..i -> set] : i \in 0..k}

Commands ==
  Texts({"a", " ", "<", ">", "|", "&", ";", "(", ")"}, LineLength)
  \union {<<"a", " ", "b", "|", "(", "b", ";", "a", "&", ")", ">", "a">>,
          <<"(", "(", "a", ")", "<", "b", ")", ">", ">", "a", "&", ";", " ", "a">>,
          <<">", "b", " ", "a", "a", ">", "a", "|", "a", "<", "b", " ", "b", "&", "&">>}

Expressions == Texts({"a", "b", ".", "*", "^", "$"}, TextLength)

Inputs ==
  [routine : {"parsecmd"}, buf : Commands]
  \union [routine : {"match"}, re : Expressions, text : Texts({"a", "b"}, 3)]
  \union [routine : {"grep"}, re : {<<"a">>, <<"^", "a", "$">>},
          file : Texts({"a", "b", "\n"}, TextLength + 2)]
  \union [routine : {"memmove"}, dst : 1..TextLength, src : 1..TextLength,
          len : 0..TextLength]
  \union [routine : {"path"}, path : Texts({"a", "b", "/"}, TextLength + 1),
          other : Texts({"a", "b"}, DIRSIZ + 1) \ {<<>>}, junk : [1..DIRSIZ -> {"a", "0"}]]
  \union [routine : {"safestrcpy"}, s : [1..3 -> {"a"}],
          t : Texts({"a", "b", "0"}, TextLength), len : 1..3]
  \union [routine : {"printint"}, xx : (-(IntRange \div 2))..(IntRange \div 2 - 1)]
  \union [routine : {"cgaputc"}, pos : 0..((Rows - 1) * Columns - 1),
          c : {"a", "\n", "^H"}]

----------------------------------------------------------------------------
PickRests ==
  /\ runnable = {} /\ q_lv = [s \in Proc |-> 0]
  /\ priority = [s \in Proc |-> 0] /\ time = [s \in Proc |-> 0]
  /\ p = NPROC + 1 /\ running_p = NULL /\ chk = 0

DiskRests ==
  LET v0 == CHOOSE v \in Val : TRUE
  IN DiskInit /\ disk = [b \in Block |-> v0] /\ data = [u \in Buf |-> v0]

UnitsInit ==
  /\ part \in {"scan", "disk", "locks", "console", "malloc", "memory", "routines"}
  /\ IF part = "scan" THEN Init ELSE PickRests
  /\ IF part = "disk" THEN DiskInit ELSE DiskRests
  /\ SpinInit /\ ConsoleInit /\ HeapInit /\ VmInit
  /\ IF part = "routines" THEN input \in Inputs ELSE input = [routine |-> "none"]

ScanNext ==
  /\ part = "scan" /\ ScanSlot
  /\ UNCHANGED <<diskvars, spinvars, consoleVars, mallocVars, memoryVars, input, part>>

DiskStep ==
  /\ part = "disk" /\ DiskNext
  /\ UNCHANGED <<pickVars, spinvars, consoleVars, mallocVars, memoryVars, input, part>>

LocksStep ==
  /\ part = "locks" /\ SpinNext
  /\ UNCHANGED <<pickVars, diskvars, consoleVars, mallocVars, memoryVars, input, part>>

ConsoleStep ==
  /\ part = "console" /\ ConsoleNext
  /\ UNCHANGED <<pickVars, diskvars, spinvars, mallocVars, memoryVars, input, part>>

MallocStep ==
  /\ part = "malloc" /\ HeapNext
  /\ UNCHANGED <<pickVars, diskvars, spinvars, consoleVars, memoryVars, input, part>>

MemoryStep ==
  /\ part = "memory" /\ VmNext
  /\ UNCHANGED <<pickVars, diskvars, spinvars, consoleVars, mallocVars, input, part>>

UnitsNext == ScanNext \/ DiskStep \/ LocksStep \/ ConsoleStep \/ MallocStep \/ MemoryStep

UnitsSpec == UnitsInit /\ [][UnitsNext]_unitVars /\ DiskFairness

----------------------------------------------------------------------------
(* Properties.  ScanPicksBest, CacheIsStore, RequestServed, LocksSound,    *)
(* ConsoleIsTerminal, HeapSound and MemorySound are those of MlfqPick,     *)
(* Disk, Spinlock, Console, Umalloc and Vm.                                *)

\* Every routine returns what its reference says, for all arguments: the
\* parser of the shell builds the one command of its grammar, grep prints the
\* lines in the language of the expression, a path names the entries it
\* should, memory moves right also when it overlaps, a number reads back as
\* itself, and the cursor stays on the screen.
RoutinesAgree ==
  LET i == input
  IN CASE i.routine = "parsecmd" -> Sh!ParsesGrammar(i.buf)
       [] i.routine = "match" -> Re!MatchesLanguage(i.re, i.text)
       [] i.routine = "grep" -> Re!PrintsMatchingLines(i.re, i.file)
       [] i.routine = "memmove" ->
            Str!MemmoveCopies([k \in 1..(2 * TextLength) |-> k], i.dst, i.src, i.len)
       [] i.routine = "path" -> Str!PathFindsNames(i.path, i.other, i.junk)
       [] i.routine = "safestrcpy" -> Str!SafeCopy(i.s, i.t, i.len)
       [] i.routine = "printint" -> Str!PrintsNumber(i.xx)
       [] i.routine = "cgaputc" -> Str!CursorOnScreen(i.pos, i.c)
       [] OTHER -> TRUE

=============================================================================

-------------------------------- MODULE Console --------------------------------
(***************************************************************************)
(* The input side of console.c: the ring of typed characters that          *)
(* consoleintr fills and edits and that consoleread empties.               *)
(*                                                                         *)
(* consoleintr runs under cons.lock; consoleread holds the lock too, but   *)
(* for its sleep, and takes one character per step here.  The indices are  *)
(* unsigned and wrap at UINT.                                              *)
(***************************************************************************)
EXTENDS Integers, Sequences

CONSTANTS
  Reader,        \* processes that read the console
  Letter,        \* ordinary characters
  INPUT_BUF,     \* size of the ring
  UINT,          \* range of an unsigned integer
  MaxRead,       \* BOUND: characters that one call asks for
  Null

\* The ring is a power of two, and so a part of the range of its indices.
ConsoleConstants ==
  /\ INPUT_BUF \in Nat \ {0} /\ UINT \in Nat /\ UINT > INPUT_BUF
  /\ UINT % INPUT_BUF = 0 /\ MaxRead \in Nat

ASSUME ConsoleSizes == ConsoleConstants

Newline == "\n"
Eof == "^D"
Char == Letter \union {Newline, Eof}

VARIABLES
  buf, r, w, e,  \* struct input
  conslock,      \* the reader that holds cons.lock, or Null
  rpc,           \* where a reader is
  n,             \* characters it still asks for
  dst,           \* characters that its call has stored
  killed         \* the readers that were killed

inputVars == <<buf, r, w, e>>
readVars == <<n, dst>>
consoleVars == <<inputVars, conslock, rpc, readVars, killed>>

ConsoleInit ==
  /\ buf = [i \in 0..(INPUT_BUF - 1) |-> Null]
  /\ r = 0 /\ w = 0 /\ e = 0
  /\ conslock = Null
  /\ rpc = [p \in Reader |-> "idle"]
  /\ n = [p \in Reader |-> 0] /\ dst = [p \in Reader |-> <<>>]
  /\ killed = {}

Next1(i) == (i + 1) % UINT
Prev1(i) == (i - 1) % UINT
Minus(i, j) == (i - j) % UINT

----------------------------------------------------------------------------
(* consoleintr, for one character.                                         *)

\* wakeup(&input.r).
WakeReaders ==
  rpc' = [p \in Reader |-> IF rpc[p] = "asleep" THEN "woken" ELSE rpc[p]]

\* The default case; '\r' has become '\n'.
Finished(c) == c \in {Newline, Eof} \/ e' = (r + INPUT_BUF) % UINT

Type(c) ==
  /\ conslock = Null /\ Minus(e, r) < INPUT_BUF
  /\ buf' = [buf EXCEPT ![e % INPUT_BUF] = c]
  /\ e' = Next1(e)
  /\ IF Finished(c) THEN w' = e' /\ WakeReaders ELSE UNCHANGED <<w, rpc>>
  /\ UNCHANGED <<r, conslock, readVars, killed>>

\* (mutant) a finished line can be erased.
MutErasable == e # r

Erasable == e # w

\* Backspace.
Backspace ==
  /\ conslock = Null /\ Erasable
  /\ e' = Prev1(e)
  /\ UNCHANGED <<buf, r, w, conslock, rpc, readVars, killed>>

\* Kill line: back to the last line that is finished, or to a newline, which
\* is where the loop first finds one of the two.
Stops(k) == k = Minus(e, w) \/ buf[Minus(e, k + 1) % INPUT_BUF] = Newline

KillLine ==
  /\ conslock = Null
  /\ \E k \in 0..Minus(e, w) :
       /\ Stops(k) /\ \A j \in 0..(k - 1) : ~Stops(j)
       /\ e' = Minus(e, k)
  /\ UNCHANGED <<buf, r, w, conslock, rpc, readVars, killed>>

----------------------------------------------------------------------------
(* consoleread.                                                            *)

AcquireCons(p) == conslock = Null /\ conslock' = p
ReleaseCons == conslock' = Null

ReadBegin(p, k) ==
  /\ rpc[p] = "idle" /\ AcquireCons(p)
  /\ rpc' = [rpc EXCEPT ![p] = "loop"]
  /\ n' = [n EXCEPT ![p] = k] /\ dst' = [dst EXCEPT ![p] = <<>>]
  /\ UNCHANGED <<inputVars, killed>>

\* The process returns from sleep.
Woken(p) ==
  /\ rpc[p] = "woken" /\ AcquireCons(p)
  /\ rpc' = [rpc EXCEPT ![p] = "loop"]
  /\ UNCHANGED <<inputVars, readVars, killed>>

InLoop(p) == rpc[p] = "loop" /\ n[p] > 0

\* No finished line: a killed process returns -1, another one sleeps.  kill()
\* does not take cons.lock, and may come between the test and the sleep.
NoInput(p) ==
  /\ InLoop(p) /\ r = w
  /\ IF p \in killed
     THEN /\ rpc' = [rpc EXCEPT ![p] = "idle"]
          /\ n' = [n EXCEPT ![p] = 0] /\ dst' = [dst EXCEPT ![p] = <<>>]
          /\ ReleaseCons
     ELSE /\ rpc' = [rpc EXCEPT ![p] = "sleeps"]
          /\ UNCHANGED <<readVars, conslock>>
  /\ UNCHANGED <<inputVars, killed>>

FallAsleep(p) ==
  /\ rpc[p] = "sleeps"
  /\ rpc' = [rpc EXCEPT ![p] = "asleep"]
  /\ ReleaseCons
  /\ UNCHANGED <<inputVars, readVars, killed>>

Take(p) ==
  LET c == buf[r % INPUT_BUF]
  IN /\ InLoop(p) /\ r # w
     /\ r' = IF c = Eof /\ dst[p] # <<>> THEN r ELSE Next1(r)
     /\ dst' = IF c = Eof THEN dst ELSE [dst EXCEPT ![p] = Append(@, c)]
     /\ n' = [n EXCEPT ![p] = IF c \in {Newline, Eof} THEN 0 ELSE @ - 1]
     /\ UNCHANGED <<buf, w, e, conslock, rpc, killed>>

\* The end of the loop, by its condition or by a break.
Return(p) ==
  /\ rpc[p] = "loop" /\ n[p] = 0
  /\ rpc' = [rpc EXCEPT ![p] = "idle"]
  /\ dst' = [dst EXCEPT ![p] = <<>>]
  /\ ReleaseCons
  /\ UNCHANGED <<inputVars, n, killed>>

\* kill() of a reader wakes it wherever it sleeps.
Kill(p) ==
  /\ p \notin killed /\ rpc[p] # "idle"
  /\ killed' = killed \union {p}
  /\ rpc' = [rpc EXCEPT ![p] = IF @ = "asleep" THEN "woken" ELSE @]
  /\ UNCHANGED <<inputVars, conslock, readVars>>

ConsoleNext ==
  \/ \E c \in Char : Type(c)
  \/ Backspace \/ KillLine
  \/ \E p \in Reader :
       \/ \E k \in 1..MaxRead : ReadBegin(p, k)
       \/ Woken(p) \/ NoInput(p) \/ FallAsleep(p) \/ Take(p) \/ Return(p) \/ Kill(p)

ConsoleSpec == ConsoleInit /\ [][ConsoleNext]_consoleVars

----------------------------------------------------------------------------
(* Properties.                                                             *)

Between(i, j) == [k \in 1..Minus(j, i) |-> buf[((i + k - 1) % UINT) % INPUT_BUF]]

\* Editing, wrapping around, readers that share a line and the end of file
\* that is put back never lose, repeat or reorder a typed character, and
\* nothing that a reader may have taken can still be erased.
Lines == INSTANCE Terminal WITH
  ready <- Between(r, w), line <- Between(w, e), got <- dst, Size <- INPUT_BUF

ConsoleIsTerminal == Lines!Spec

=============================================================================

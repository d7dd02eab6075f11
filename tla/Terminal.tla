------------------------------- MODULE Terminal -------------------------------
(***************************************************************************)
(* What the console promises the programs that read it: characters typed   *)
(* can be erased until the line is finished, after that every one of them  *)
(* is read once and in order, a read returns at most one line, and an end  *)
(* of file is a read of nothing.                                           *)
(***************************************************************************)
EXTENDS Integers, Sequences

CONSTANTS
  Reader, Char,
  Newline, Eof,  \* the characters that finish a line
  Size           \* characters not yet read that the console can hold

VARIABLES
  ready,         \* the characters of finished lines, not yet read
  line,          \* the line being typed
  got            \* what the call of every reader has read so far

vars == <<ready, line, got>>

Init == ready = <<>> /\ line = <<>> /\ got = [p \in Reader |-> <<>>]

\* The terminator, or the last place, makes the line available.
Type(c) ==
  /\ Len(ready) + Len(line) < Size
  /\ IF c \in {Newline, Eof} \/ Len(ready) + Len(line) = Size - 1
     THEN ready' = ready \o Append(line, c) /\ line' = <<>>
     ELSE line' = Append(line, c) /\ UNCHANGED ready
  /\ UNCHANGED got

Erase(n) ==
  /\ n \in 1..Len(line)
  /\ n \in {1, Len(line)}
  /\ line' = SubSeq(line, 1, Len(line) - n)
  /\ UNCHANGED <<ready, got>>

Read(p) ==
  /\ ready # <<>> /\ Head(ready) # Eof
  /\ \A i \in DOMAIN got[p] : got[p][i] # Newline
  /\ got' = [got EXCEPT ![p] = Append(@, Head(ready))]
  /\ ready' = Tail(ready)
  /\ UNCHANGED line

\* The reader takes the end of file away when it has nothing else to return.
TakeEof(p) ==
  /\ ready # <<>> /\ Head(ready) = Eof /\ got[p] = <<>>
  /\ ready' = Tail(ready)
  /\ UNCHANGED <<line, got>>

Return(p) ==
  /\ got[p] # <<>>
  /\ got' = [got EXCEPT ![p] = <<>>]
  /\ UNCHANGED <<ready, line>>

Next ==
  \/ \E c \in Char : Type(c)
  \/ \E n \in 1..Size : Erase(n)
  \/ \E p \in Reader : Read(p) \/ TakeEof(p) \/ Return(p)

Spec == Init /\ [][Next]_vars

=============================================================================

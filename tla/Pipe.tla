-------------------------------- MODULE Pipe --------------------------------
(***************************************************************************)
(* The ring of a pipe of pipe.c: a page of memory with PIPESIZE cells, two *)
(* counters that only grow, modulo the range of an unsigned int, and a     *)
(* flag for each end.                                                      *)
(***************************************************************************)
EXTENDS Integers, Sequences, SequencesExt

CONSTANTS PIPESIZE, UINT

ASSUME PipeAssumption ==
  PIPESIZE \in Nat \ {0} /\ UINT \in Nat /\ UINT > PIPESIZE /\ UINT % PIPESIZE = 0

\* A page of memory that is no pipe, and one that pipealloc made a pipe.
NoPipe == [page |-> FALSE, lock |-> 0, readopen |-> FALSE, writeopen |-> FALSE,
           nread |-> 0, nwrite |-> 0, data |-> [k \in 0..PIPESIZE - 1 |-> ""]]
NewPipe == [NoPipe EXCEPT !.page = TRUE, !.readopen = TRUE, !.writeopen = TRUE]

Full(pi) == pi.nwrite = (pi.nread + PIPESIZE) % UINT
Empty(pi) == pi.nread = pi.nwrite

MutClosed(pi, writable) ==
  LET c == [pi EXCEPT !.writeopen = @ /\ ~writable, !.readopen = @ /\ writable]
  IN IF c.readopen THEN c ELSE NoPipe

\* One end is closed for good; the page is given back when the other is closed, too.
Closed(pi, writable) ==
  LET c == [pi EXCEPT !.writeopen = @ /\ ~writable, !.readopen = @ /\ writable]
  IN IF c.readopen \/ c.writeopen THEN c ELSE NoPipe

Held(pi) == (pi.nwrite - pi.nread) % UINT
Room(pi) == PIPESIZE - Held(pi)

\* What the loop of a write puts into the ring: a cell after the other until it is full, k of them.
PutAll(pi, cells) ==
  LET k == IF Len(cells) \in 0..Room(pi) THEN Len(cells) ELSE Room(pi)
      nth(place) == (place - pi.nwrite) % PIPESIZE
  IN [k |-> k,
      pi |-> [pi EXCEPT !.nwrite = (@ + k) % UINT,
                        !.data = [j \in 0..PIPESIZE - 1 |-> IF nth(j) < k THEN cells[nth(j) + 1] ELSE @[j]]]]

\* What the loop of a read of n cells takes: a cell after the other until the ring is empty.  sys_read
\* refuses a negative n.
TakeUpTo(pi, n) ==
  LET k == IF n \in 0..Held(pi) THEN n ELSE Held(pi)
  IN [pi |-> [pi EXCEPT !.nread = (@ + k) % UINT],
      cells |-> [j \in 1..k |-> pi.data[(pi.nread + j - 1) % PIPESIZE]]]

=============================================================================

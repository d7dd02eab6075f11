--------------------------------- MODULE Grep ---------------------------------
(***************************************************************************)
(* grep.c: the matcher of regular expressions with ^ . * $, and the loop   *)
(* that cuts what it reads into lines.  Beside them the language of an     *)
(* expression and the lines of a file.  Texts are sequences of characters. *)
(***************************************************************************)
EXTENDS Integers, Sequences, SequencesExt

CONSTANT BufSize           \* size of the buffer of grep()

EndOfLine == "\n"

RECURSIVE matchhere(_, _), matchstar(_, _, _)

One(c, d) == c = "." \/ c = d

matchhere(re, text) ==
  IF re = <<>> THEN TRUE
  ELSE IF Len(re) > 1 /\ re[2] = "*" THEN matchstar(re[1], SubSeq(re, 3, Len(re)), text)
  ELSE IF re = <<"$">> THEN text = <<>>
  ELSE text # <<>> /\ One(re[1], text[1]) /\ matchhere(Tail(re), Tail(text))

\* (mutant) a star stands for one character at least.
MutMatchstar(c, re, text) ==
  /\ text # <<>> /\ One(c, text[1])
  /\ matchhere(re, Tail(text)) \/ matchstar(c, re, Tail(text))

matchstar(c, re, text) ==
  \/ matchhere(re, text)
  \/ text # <<>> /\ One(c, text[1]) /\ matchstar(c, re, Tail(text))

RECURSIVE Anywhere(_, _)
Anywhere(re, text) ==
  matchhere(re, text) \/ (text # <<>> /\ Anywhere(re, Tail(text)))

match(re, text) ==
  IF re # <<>> /\ re[1] = "^" THEN matchhere(Tail(re), text) ELSE Anywhere(re, text)

\* grep: m characters are left in the buffer; read() fills the rest of it or
\* gives what there is, every line in the buffer is printed or not, and what
\* follows the last newline is kept.  Without a newline nothing is kept.
Lines(s) ==
  LET ends == SelectSeq([i \in 1..Len(s) |-> i], LAMBDA i : s[i] = EndOfLine)
  IN [k \in 1..Len(ends) |->
        SubSeq(s, IF k = 1 THEN 1 ELSE ends[k - 1] + 1, ends[k] - 1)]

Rest(s) ==
  LET n == CHOOSE k \in 0..Len(s) : /\ k = 0 \/ s[k] = EndOfLine
                                    /\ \A i \in (k + 1)..Len(s) : s[i] # EndOfLine
  IN IF n = 0 THEN <<>> ELSE SubSeq(s, n + 1, Len(s))

RECURSIVE GrepLoop(_, _, _)
GrepLoop(pattern, kept, input) ==
  LET room == BufSize - Len(kept) - 1
      n    == IF room < Len(input) THEN room ELSE Len(input)
      buf  == kept \o SubSeq(input, 1, n)
  IN IF n <= 0 THEN <<>>
     ELSE SelectSeq(Lines(buf), LAMBDA l : match(pattern, l))
          \o GrepLoop(pattern, Rest(buf), SubSeq(input, n + 1, Len(input)))

grep(pattern, file) == GrepLoop(pattern, <<>>, file)

----------------------------------------------------------------------------
(* The reference.                                                          *)

\* An expression as items: a character, and whether it is repeated.
RECURSIVE Items(_)
Items(re) ==
  IF re = <<>> THEN <<>>
  ELSE IF Len(re) > 1 /\ re[2] = "*"
       THEN <<[char |-> re[1], star |-> TRUE]>> \o Items(SubSeq(re, 3, Len(re)))
       ELSE <<[char |-> re[1], star |-> FALSE]>> \o Items(Tail(re))

\* A text is in the language of items if it can be cut so that every item
\* gets its characters: cut[k] is the place where item k begins.
InLanguage(items, text) ==
  \E cut \in [1..(Len(items) + 1) -> 1..(Len(text) + 1)] :
    /\ cut[1] = 1 /\ cut[Len(items) + 1] = Len(text) + 1
    /\ \A k \in 1..Len(items) :
         /\ IF items[k].star THEN cut[k] <= cut[k + 1] ELSE cut[k] + 1 = cut[k + 1]
         /\ \A i \in cut[k]..(cut[k + 1] - 1) : One(items[k].char, text[i])

\* The matcher finds a part of the text that is in the language, the part at
\* the begin after ^ and the part at the end before $.
MatchesLanguage(re, text) ==
  LET first == re # <<>> /\ re[1] = "^"
      items == Items(IF first THEN Tail(re) ELSE re)
      last  == items # <<>> /\ items[Len(items)] = [char |-> "$", star |-> FALSE]
      body  == IF last THEN SubSeq(items, 1, Len(items) - 1) ELSE items
  IN match(re, text) =
       \E i \in 1..(Len(text) + 1), j \in 0..Len(text) :
         /\ i <= j + 1
         /\ first => i = 1
         /\ last => j = Len(text)
         /\ InLanguage(body, SubSeq(text, i, j))

\* Every line of a file that the buffer can hold, and no other, is looked at,
\* however the lines fall into the reads.
PrintsMatchingLines(pattern, file) ==
  (\A i \in DOMAIN Lines(file) : Len(Lines(file)[i]) + 1 < BufSize) =>
    grep(pattern, file) = SelectSeq(Lines(file), LAMBDA l : match(pattern, l))

=============================================================================

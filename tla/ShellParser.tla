----------------------------- MODULE ShellParser -----------------------------
(***************************************************************************)
(* The command parser of sh.c, and beside it the grammar it is meant for.  *)
(*                                                                         *)
(* A command line is a sequence of characters, a place in it a number from *)
(* 1 on; at the place after the last one is the NUL.  A parsing function   *)
(* takes a place and returns the command with the place behind it, or      *)
(* Panic, when the child that parses prints a message and exits.  EXEC and *)
(* REDIR hold the begin and the end of their words until nulterminate has  *)
(* run and they can be read as strings.                                    *)
(***************************************************************************)
EXTENDS Integers, Sequences, FiniteSets

CONSTANT MAXARGS

NUL == "0"
Whitespace == {" "}
Symbols == {"<", "|", ">", "&", ";", "(", ")"}

Panic == [panic |-> TRUE]
Failed(x) == "panic" \in DOMAIN x

EXEC(argv) == [type |-> "EXEC", argv |-> argv]
REDIR(cmd, file, fd) == [type |-> "REDIR", cmd |-> cmd, file |-> file, fd |-> fd]
PIPE(left, right) == [type |-> "PIPE", left |-> left, right |-> right]
LIST(left, right) == [type |-> "LIST", left |-> left, right |-> right]
BACK(cmd) == [type |-> "BACK", cmd |-> cmd]

Result(cmd, s) == [cmd |-> cmd, s |-> s]

----------------------------------------------------------------------------
CharAt(buf, s) == IF s > Len(buf) THEN NUL ELSE buf[s]

RECURSIVE Skip(_, _, _)
Skip(buf, s, set) == IF CharAt(buf, s) \in set THEN Skip(buf, s + 1, set) ELSE s

RECURSIVE WordEnd(_, _)
WordEnd(buf, s) ==
  IF CharAt(buf, s) \in Whitespace \union Symbols \union {NUL} THEN s
  ELSE WordEnd(buf, s + 1)

\* gettoken: the kind of token, its begin and end, the place of the next one.
TokenAt(buf, q) ==
  LET c    == CharAt(buf, q)
      more == c = ">" /\ CharAt(buf, q + 1) = ">"
      eq   == IF c = NUL THEN q
              ELSE IF more THEN q + 2
              ELSE IF c \in Symbols THEN q + 1
              ELSE WordEnd(buf, q)
  IN [ret |-> IF more THEN "+" ELSE IF c \in Symbols \union {NUL} THEN c ELSE "a",
      q |-> q, eq |-> eq, s |-> Skip(buf, eq, Whitespace)]

gettoken(buf, ps) == TokenAt(buf, Skip(buf, ps, Whitespace))

\* peek moves on to the next token in any case.
peek(buf, s, toks) == CharAt(buf, Skip(buf, s, Whitespace)) \in toks

\* (mutant) a redirection goes to the command it is read after, inside the
\* redirections before it.
RECURSIVE MutRedircmd(_, _, _)
MutRedircmd(cmd, word, fd) ==
  IF cmd.type = "REDIR" THEN [cmd EXCEPT !.cmd = MutRedircmd(@, word, fd)]
  ELSE REDIR(cmd, word, fd)

redircmd(cmd, word, fd) == REDIR(cmd, word, fd)

RECURSIVE parseredirs(_, _, _), Redirect(_, _, _, _)
parseredirs(buf, cmd, s) ==
  IF ~peek(buf, s, {"<", ">"}) THEN Result(cmd, s)
  ELSE LET tok == gettoken(buf, s)
       IN Redirect(buf, cmd, IF tok.ret = "<" THEN 0 ELSE 1, gettoken(buf, tok.s))

Redirect(buf, cmd, fd, word) ==
  IF word.ret # "a" THEN Panic
  ELSE parseredirs(buf, redircmd(cmd, <<word.q, word.eq>>, fd), word.s)

\* The command of a chain of redirections gets one more word.
RECURSIVE WithArg(_, _)
WithArg(cmd, word) ==
  IF cmd.type = "REDIR" THEN [cmd EXCEPT !.cmd = WithArg(@, word)]
  ELSE [cmd EXCEPT !.argv = Append(@, word)]

\* The loop of parseexec; cmd points at the EXEC inside ret.
RECURSIVE ParseWords(_, _, _)
ParseWords(buf, x, argc) ==
  IF Failed(x) THEN Panic
  ELSE IF peek(buf, x.s, {"|", ")", "&", ";"}) THEN x
  ELSE LET tok == gettoken(buf, x.s)
       IN IF tok.ret = NUL THEN x
          ELSE IF tok.ret # "a" \/ argc + 1 >= MAXARGS THEN Panic
          ELSE ParseWords(buf, parseredirs(buf, WithArg(x.cmd, <<tok.q, tok.eq>>), tok.s),
                          argc + 1)

\* Commands x and y, one after the other.
Joined(type, x, y) ==
  IF Failed(y) THEN Panic
  ELSE Result([type |-> type, left |-> x.cmd, right |-> y.cmd], y.s)

RECURSIVE Backs(_, _)
Backs(buf, x) ==
  IF Failed(x) THEN Panic
  ELSE IF peek(buf, x.s, {"&"}) THEN Backs(buf, Result(BACK(x.cmd), gettoken(buf, x.s).s))
  ELSE x

RECURSIVE parseline(_, _), parsepipe(_, _), parseblock(_, _), parseexec(_, _)

parseexec(buf, s) ==
  IF peek(buf, s, {"("}) THEN parseblock(buf, s)
  ELSE ParseWords(buf, parseredirs(buf, EXEC(<<>>), s), 0)

\* What follows the command x of a block, of a pipe and of a line.
BlockEnd(buf, x) ==
  IF Failed(x) THEN Panic
  ELSE IF ~peek(buf, x.s, {")"}) THEN Panic
  ELSE parseredirs(buf, x.cmd, gettoken(buf, x.s).s)
PipeEnd(buf, x) ==
  IF Failed(x) THEN Panic
  ELSE IF peek(buf, x.s, {"|"}) THEN Joined("PIPE", x, parsepipe(buf, gettoken(buf, x.s).s))
  ELSE x
LineEnd(buf, x) ==
  IF Failed(x) THEN Panic
  ELSE IF peek(buf, x.s, {";"}) THEN Joined("LIST", x, parseline(buf, gettoken(buf, x.s).s))
  ELSE x

parseblock(buf, s) == BlockEnd(buf, parseline(buf, gettoken(buf, s).s))
parsepipe(buf, s) == PipeEnd(buf, parseexec(buf, s))
parseline(buf, s) == LineEnd(buf, Backs(buf, parsepipe(buf, s)))

\* nulterminate writes a NUL at the end of every word of the command ...
RECURSIVE Ends(_)
Ends(cmd) ==
  CASE cmd.type = "EXEC" -> {cmd.argv[i][2] : i \in DOMAIN cmd.argv}
    [] cmd.type = "REDIR" -> Ends(cmd.cmd) \union {cmd.file[2]}
    [] cmd.type = "BACK" -> Ends(cmd.cmd)
    [] OTHER -> Ends(cmd.left) \union Ends(cmd.right)

nulterminate(buf, cmd) ==
  [s \in DOMAIN buf |-> IF s \in Ends(cmd) THEN NUL ELSE buf[s]]

\* ... and runcmd reads every string from its begin to the first NUL.
RECURSIVE StringAt(_, _)
StringAt(buf, s) ==
  IF CharAt(buf, s) = NUL THEN <<>> ELSE <<buf[s]>> \o StringAt(buf, s + 1)

RECURSIVE Strings(_, _)
Strings(buf, cmd) ==
  CASE cmd.type = "EXEC" ->
         EXEC([i \in DOMAIN cmd.argv |-> StringAt(buf, cmd.argv[i][1])])
    [] cmd.type = "REDIR" ->
         REDIR(Strings(buf, cmd.cmd), StringAt(buf, cmd.file[1]), cmd.fd)
    [] cmd.type = "BACK" -> BACK(Strings(buf, cmd.cmd))
    [] OTHER -> [cmd EXCEPT !.left = Strings(buf, @), !.right = Strings(buf, @)]

\* Nothing may be left over.
Whole(buf, x) ==
  IF Failed(x) THEN Panic
  ELSE IF Skip(buf, x.s, Whitespace) # Len(buf) + 1 THEN Panic
  ELSE Strings(nulterminate(buf, x.cmd), x.cmd)
parsecmd(buf) == Whole(buf, parseline(buf, 1))

----------------------------------------------------------------------------
(* The reference: a line is split into words and symbols, and a command is *)
(* what the grammar derives from a span of them:                           *)
(*   Line ::= Amp | Amp ; Line        Amp  ::= Pipe | Amp &                *)
(*   Pipe ::= Exec | Exec "|" Pipe    Exec ::= Block | Simple              *)
(*   Block ::= ( Line ) | Block R     Simple ::= (empty) | Simple R        *)
(*   R ::= < word | > word | >> word              | Simple word            *)
(* with at most MAXARGS - 1 words that are not names of files.             *)

\* A token is a symbol or a word, which is a sequence of characters.
RECURSIVE Tokens(_)
Tokens(buf) ==
  IF buf = <<>> THEN <<>>
  ELSE IF buf[1] \in Whitespace THEN Tokens(Tail(buf))
  ELSE LET ordinary(k) == \A i \in 1..k : buf[i] \notin Whitespace \union Symbols
           n == CHOOSE k \in 0..Len(buf) : ordinary(k) /\ (k = Len(buf) \/ ~ordinary(k + 1))
           m == IF n > 0 THEN n
                ELSE IF Len(buf) > 1 /\ buf[1] = ">" /\ buf[2] = ">" THEN 2 ELSE 1
       IN <<[word |-> n > 0, text |-> SubSeq(buf, 1, m)]>>
          \o Tokens(SubSeq(buf, m + 1, Len(buf)))

Symbol(t, c) == ~t.word /\ t.text = <<c>>

RECURSIVE Words(_)
Words(cmd) == IF cmd.type = "REDIR" THEN Words(cmd.cmd) ELSE Len(cmd.argv)

\* The redirections that span <<i, j>> of the tokens ends in, of a command
\* out of the set that derives gives for the rest.
Redirected(toks, i, j, derives(_, _)) ==
  IF j - i >= 1 /\ toks[j].word /\ ~toks[j - 1].word /\ toks[j - 1].text[1] \in {"<", ">"}
  THEN {REDIR(c, toks[j].text, IF Symbol(toks[j - 1], "<") THEN 0 ELSE 1) :
          c \in derives(i, j - 2)}
  ELSE {}

RECURSIVE LineOf(_, _, _), AmpOf(_, _, _), PipeOf(_, _, _), BlockOf(_, _, _), SimpleOf(_, _, _)

SimpleOf(toks, i, j) ==
  IF j < i THEN {EXEC(<<>>)}
  ELSE Redirected(toks, i, j, LAMBDA k, l : SimpleOf(toks, k, l))
       \union {WithArg(c, toks[j].text) : c \in {d \in SimpleOf(toks, i, j - 1) :
                                                   toks[j].word /\ Words(d) < MAXARGS - 1}}

BlockOf(toks, i, j) ==
  (IF j > i /\ Symbol(toks[i], "(") /\ Symbol(toks[j], ")")
   THEN LineOf(toks, i + 1, j - 1) ELSE {})
  \union Redirected(toks, i, j, LAMBDA k, l : BlockOf(toks, k, l))

PipeOf(toks, i, j) ==
  BlockOf(toks, i, j) \union SimpleOf(toks, i, j)
  \union UNION {{PIPE(l, r) : l \in BlockOf(toks, i, k - 1) \union SimpleOf(toks, i, k - 1),
                              r \in PipeOf(toks, k + 1, j)} :
                  k \in {k \in i..j : Symbol(toks[k], "|")}}

AmpOf(toks, i, j) ==
  PipeOf(toks, i, j)
  \union (IF j >= i /\ Symbol(toks[j], "&") THEN {BACK(c) : c \in AmpOf(toks, i, j - 1)}
          ELSE {})

LineOf(toks, i, j) ==
  AmpOf(toks, i, j)
  \union UNION {{LIST(l, r) : l \in AmpOf(toks, i, k - 1), r \in LineOf(toks, k + 1, j)} :
                  k \in {k \in i..j : Symbol(toks[k], ";")}}

\* The parser accepts what the grammar derives, and the command is the only
\* one that it derives.
ParsesGrammar(buf) ==
  LET toks == Tokens(buf)
      parsed == parsecmd(buf)
  IN LineOf(toks, 1, Len(toks)) = IF Failed(parsed) THEN {} ELSE {parsed}

=============================================================================

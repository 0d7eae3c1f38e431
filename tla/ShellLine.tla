------------------------------ MODULE ShellLine ------------------------------
(***************************************************************************)
(* The command line of the shell: the editor (kernel/shell/tsh.c) and the  *)
(* way from a line to the stages of a pipeline (command_execute, tokenize  *)
(* and parse_pipeline of kernel/shell/commands.c).  Module Pipeline models *)
(* what exec_pipeline does with the stages.                                *)
(*                                                                         *)
(* A line is a sequence of characters; "w" stands for every character that *)
(* is neither special to the shell nor "2".                                *)
(***************************************************************************)
EXTENDS Integers, SequencesExt

CONSTANTS Keys,       \* the characters typed
          LineMax,    \* TSH_LINE_MAX, 128
          MaxStages,    \* MAX_PIPE_SEGS, 8
          MaxArgs     \* MAX_ARGS, 16

ASSUME ShellLineAssumption ==
  LineMax \in Nat \ {0, 1} /\ MaxStages \in Nat \ {0} /\ MaxArgs \in Nat \ {0}

VARIABLES line,   \* g_line, g_line_len characters
          plan    \* what command_execute made of the line; <<>> while editing

lineVars == <<line, plan>>

OpChars == {"|", "<", ">"}
Bar == <<"|">>
\* The redirections: operator |-> descriptor and mode.
Redirs == {<<">">>, <<">", ">">>, <<"<">>, <<"2", ">">>, <<"2", ">", ">">>}
Target(op) == IF op[1] = "2" THEN 2 ELSE IF op[1] = "<" THEN 0 ELSE 1
Mode(op) == CASE Last(op) = "<" -> "input"
              [] op \in {<<">">>, <<"2", ">">>} -> "trunc"
              [] OTHER -> "append"

-----------------------------------------------------------------------------
(* tokenize: the character after an operator and the character that ends a  *)
(* word are overwritten with NUL, whatever they are.  It never runs out of  *)
(* tokens (TokensFit).                                                      *)

\* The state of the loop after each character: the finished tokens, the
\* current one, and where it stands.
Scan(acc, c) ==
  LET more(mode) == [acc EXCEPT !.cur = Append(acc.cur, c), !.mode = mode]
      done == [toks |-> Append(acc.toks, acc.cur), cur |-> <<>>, mode |-> "gap"]
  IN  CASE acc.mode = "gap" ->
             IF c = " " THEN acc ELSE more(IF c \in OpChars THEN "op" ELSE "word")
        [] acc.mode = "op" ->
             IF acc.cur = <<">">> /\ c = ">" THEN more("full") ELSE done
        [] acc.mode = "word" ->
             IF c \notin OpChars \cup {" "} THEN more("word")
             ELSE IF acc.cur = <<"2">> /\ c = ">" THEN more("two") ELSE done
        [] acc.mode = "two" -> IF c = ">" THEN more("full") ELSE done
        [] OTHER -> done

\* tokenize.
Tokens(l) ==
  LET end == FoldLeft(Scan, [toks |-> <<>>, cur |-> <<>>, mode |-> "gap"], l)
  IN  IF end.mode = "gap" THEN end.toks ELSE Append(end.toks, end.cur)

-----------------------------------------------------------------------------
(* parse_pipeline.  fd waits for the file of a redirection.                 *)

NoSeg == [argv |-> <<>>, redir |-> [d \in 0 .. 2 |-> <<>>]]
NoFd == 3

\* Mutant of ParseStep: an empty stage before "|" is accepted.
ParseStepEmpty(acc, t) ==
  LET n == Len(acc.segs)
  IN  IF ~acc.ok THEN acc
      ELSE CASE acc.fd # NoFd ->
                  [acc EXCEPT !.segs[n].redir[acc.fd] = <<acc.mode, t>>, !.fd = NoFd]
             [] t = Bar /\ n < MaxStages -> [acc EXCEPT !.segs = Append(acc.segs, NoSeg)]
             [] t \in Redirs -> [acc EXCEPT !.fd = Target(t), !.mode = Mode(t)]
             [] t # Bar /\ t \notin Redirs /\ Len(acc.segs[n].argv) < MaxArgs ->
                  [acc EXCEPT !.segs[n].argv = Append(@, t)]
             [] OTHER -> [acc EXCEPT !.ok = FALSE]

\* One token of the loop.
ParseStep(acc, t) ==
  LET n == Len(acc.segs)
  IN  IF ~acc.ok THEN acc
      ELSE CASE acc.fd # NoFd ->
                  [acc EXCEPT !.segs[n].redir[acc.fd] = <<acc.mode, t>>, !.fd = NoFd]
             [] acc.fd = NoFd /\ t = Bar /\ acc.segs[n].argv # <<>> /\ n < MaxStages ->
                  [acc EXCEPT !.segs = Append(acc.segs, NoSeg)]
             [] acc.fd = NoFd /\ t \in Redirs ->
                  [acc EXCEPT !.fd = Target(t), !.mode = Mode(t)]
             [] acc.fd = NoFd /\ t # Bar /\ t \notin Redirs
                /\ Len(acc.segs[n].argv) < MaxArgs ->
                  [acc EXCEPT !.segs[n].argv = Append(@, t)]
             [] OTHER -> [acc EXCEPT !.ok = FALSE]

\* The whole: the stages, or <<>> for a syntax error.
Parse(toks) ==
  LET end == FoldLeft(ParseStep,
                      [segs |-> <<NoSeg>>, fd |-> NoFd, mode |-> "trunc", ok |-> TRUE],
                      toks)
  IN  IF end.ok /\ end.fd = NoFd /\ Last(end.segs).argv # <<>> THEN end.segs ELSE <<>>

-----------------------------------------------------------------------------
(* The editor, and command_execute.                                         *)

LineInit == line = <<>> /\ plan = <<>>

Type(c) ==
  /\ plan = <<>> /\ Len(line) < LineMax - 1
  /\ line' = Append(line, c) /\ UNCHANGED plan

Backspace ==
  /\ plan = <<>> /\ line # <<>>
  /\ line' = Front(line) /\ UNCHANGED plan

\* Enter.  A plain command is one stage; of its words the first MaxArgs are
\* stored.
PressEnter ==
  LET toks == Tokens(line)
  IN  /\ plan = <<>>
      /\ plan' = IF toks = <<>> THEN <<"empty">>
                 ELSE IF \A i \in DOMAIN toks : toks[i] \notin Redirs \cup {Bar}
                 THEN <<"plain", SubSeq(toks, 1, IF Len(toks) < MaxArgs THEN Len(toks)
                                                 ELSE MaxArgs)>>
                 ELSE <<"pipeline", Parse(toks)>>
      /\ UNCHANGED line

\* tsh_process_line returns.
Prompt == plan # <<>> /\ line' = <<>> /\ plan' = <<>>

LineNext == (\E c \in Keys : Type(c)) \/ Backspace \/ PressEnter \/ Prompt

LineSpec == LineInit /\ [][LineNext]_lineVars

-----------------------------------------------------------------------------
(* Properties.                                                              *)

\* Types, and room in g_line for the NUL.
LineTypeOK == line \in Seq(Keys) /\ Len(line) < LineMax /\ Len(plan) <= 2

\* The words between the spaces.
Words(l) ==
  LET first == {i \in DOMAIN l : l[i] # " " /\ (i = 1 \/ l[i - 1] = " ")}
      last(i) == CHOOSE j \in i .. Len(l) :
                   /\ \A k \in i .. j : l[k] # " "
                   /\ j = Len(l) \/ l[j + 1] = " "
      order == SetToSortSeq(first, <)
  IN  [k \in DOMAIN order |-> SubSeq(l, order[k], last(order[k]))]

\* A line whose operators stand between spaces, and in it nothing else has an
\* operator character.
Spaced(l) ==
  \A k \in DOMAIN Words(l) :
    LET w == Words(l)[k]
    IN  w \in Redirs \cup {Bar} \/ \A i \in DOMAIN w : w[i] \notin OpChars

\* tokenize returns the words of such a line: it loses and adds nothing.
TokensExact == Spaced(line) => Tokens(line) = Words(line)

\* "if (n >= max) return -1" is never taken: a token uses up at least two
\* characters, so a full line has at most TSH_LINE_MAX / 2 of them, and
\* command_execute never takes a full line for an empty one.
TokensFit == Len(Tokens(line)) <= LineMax \div 2

\* The stages of a token list by position, where no redirection's file is
\* itself an operator: the stage of a token is the number of bars before it.
Tidy(toks) ==
  \A i \in 1 .. Len(toks) - 1 :
    toks[i] \in Redirs => toks[i + 1] \notin Redirs \cup {Bar}
Stage(toks, i) == 1 + Len(SelectSeq(SubSeq(toks, 1, i), LAMBDA t : t = Bar))
WordsOf(toks, n) ==
  LET at == {i \in DOMAIN toks : /\ Stage(toks, i) = n /\ toks[i] \notin Redirs \cup {Bar}
                                 /\ i = 1 \/ toks[i - 1] \notin Redirs}
      order == SetToSortSeq(at, <)
  IN  [k \in DOMAIN order |-> toks[order[k]]]
\* The last redirection of a descriptor counts.
FileOf(toks, n, d) ==
  LET at == {i \in DOMAIN toks : Stage(toks, i) = n /\ toks[i] \in Redirs /\ Target(toks[i]) = d}
  IN  IF at = {} THEN <<>> ELSE <<Mode(toks[Max(at)]), toks[Max(at) + 1]>>

\* parse_pipeline gives every stage its words and files, in order, and
\* rejects exactly "empty command, missing file after an operator, too many
\* stages" and too many arguments.
ParseExact ==
  LET toks == Tokens(line)
      segs == Parse(toks)
      stages == 1 .. Stage(toks, Len(toks))
  IN  toks # <<>> /\ Tidy(toks) =>
        /\ segs = <<>> <=> \/ Last(toks) \in Redirs
                           \/ Cardinality(stages) > MaxStages
                           \/ \E n \in stages : Len(WordsOf(toks, n)) \notin 1 .. MaxArgs
        /\ segs # <<>> => segs = [n \in stages |->
                                    [argv |-> WordsOf(toks, n),
                                     redir |-> [d \in 0 .. 2 |-> FileOf(toks, n, d)]]]

\* From the line to the stages: every line that can be typed fits, is cut
\* into its words and parsed into its stages.
LineExact == LineTypeOK /\ TokensExact /\ TokensFit /\ ParseExact
=============================================================================

--------------------------------- MODULE Grep --------------------------------
(***************************************************************************)
(* grep (userspace/grep.c): the matcher m_seq on simple patterns, and the  *)
(* loop of main over the lines of a file with the context options -A, -B   *)
(* and -m.                                                                 *)
(*                                                                         *)
(* A pattern is a sequence of items [atom, min, max]; max = -1 is no       *)
(* bound, "." any character.  Groups, classes, alternatives, anchors, -w   *)
(* and -x are left out.  A line of the file is known by its number.        *)
(***************************************************************************)
EXTENDS Integers, SequencesExt

CONSTANTS Atoms, Quantifiers,   \* of patterns; <<min, max>>
          Letters,              \* of the line searched
          MaxPattern, MaxText,  \* bounds: items of the pattern, letters of the line
          MaxLinesIn,           \* bound: lines of the file
          Contexts,             \* the values of -A and -B
          CtxMax                \* 16, the lines of ctx_before

VARIABLES
  pattern, text, found,   \* one search: "none" until it is done
  hits,       \* hits[n]: re_search finds the patterns in line n
  after, before, most,    \* opt_after, opt_before, opt_max_count (-1: none)
  lineno, matches, ctx, pending,  \* main's variables; ctx holds line numbers
  printed     \* what was printed: <<kind, number printed, line>>

searchVars == <<pattern, text, found>>
loopVars == <<hits, after, before, most, lineno, matches, ctx, pending, printed>>
grepVars == <<searchVars, loopVars>>

Items == [atom : Atoms, min : {q[1] : q \in Quantifiers}, max : {q[2] : q \in Quantifiers}]
Patterns == SeqOf({i \in Items : <<i.min, i.max>> \in Quantifiers}, MaxPattern)

-----------------------------------------------------------------------------
(* The matcher.                                                             *)

AtomChar(atom, c) == atom = "." \/ atom = c

RECURSIVE MSeq(_, _)

\* Mutant of MSeq: a failing tail is recorded as a success (q_cont's old bug).
MSeqTail(re, s) ==
  IF re = <<>> THEN TRUE
  ELSE LET max == IF Head(re).max < 0 THEN Len(s) + 1 ELSE Head(re).max
       IN  \E count \in Head(re).min .. max :
             count <= Len(s) /\ \A k \in 1 .. count : AtomChar(Head(re).atom, s[k])

\* m_seq with reps_match, q_cont and mseq_cont.  At the pattern's end it says
\* yes without a look at the rest of s.  For no repetition (count = 0)
\* reps_match passes on what mseq_cont returned, whose 0 means a match; m_seq
\* takes both answers for one.
MSeq(re, s) ==
  IF re = <<>> THEN TRUE
  ELSE LET max == IF Head(re).max < 0 THEN Len(s) + 1 ELSE Head(re).max
       IN  \E count \in Head(re).min .. max :
             IF count = 0 THEN TRUE
             ELSE /\ count <= Len(s)
                  /\ \A k \in 1 .. count : AtomChar(Head(re).atom, s[k])
                  /\ MSeq(Tail(re), SubSeq(s, count + 1, Len(s)))

\* re_search, without anchors.
Search ==
  /\ found = "none"
  /\ found' = IF \E i \in 1 .. Len(text) + 1 : MSeq(pattern, SubSeq(text, i, Len(text)))
              THEN "yes" ELSE "no"
  /\ UNCHANGED <<pattern, text, loopVars>>

-----------------------------------------------------------------------------
(* The loop over the lines.                                                 *)

\* The context kept: the newest CtxMax lines.
Keep(n) == IF before = 0 THEN ctx
           ELSE IF Len(ctx) < CtxMax THEN Append(ctx, n) ELSE Append(Tail(ctx), n)

\* The lines before a match, with the numbers that -n prints.
Context(n) ==
  LET start == IF Len(ctx) > before THEN Len(ctx) - before ELSE 0
  IN  IF before = 0 THEN <<>>
      ELSE [k \in 1 .. Len(ctx) - start |->
              <<"-", n - (Len(ctx) - (start + k - 1)), ctx[start + k]>>]

MoreLines == found # "none" /\ lineno < Len(hits) /\ (most < 0 \/ matches < most \/ matches = 0)

\* A matching line.
MatchLine ==
  LET n == lineno + 1
  IN  /\ MoreLines /\ hits[n]
      /\ lineno' = n /\ matches' = matches + 1 /\ pending' = after
      /\ printed' = printed \o Context(n) \o <<<<":", n, n>>>>
      /\ ctx' = IF most >= 0 /\ matches' >= most THEN ctx ELSE Keep(n)
      /\ UNCHANGED <<hits, after, before, most, searchVars>>

\* Mutant of OtherLine: one line of context too many.
OtherLineMore ==
  LET n == lineno + 1
  IN  /\ MoreLines /\ ~hits[n]
      /\ lineno' = n /\ ctx' = Keep(n)
      /\ IF pending >= 0 /\ matches > 0
         THEN pending' = pending - 1 /\ printed' = Append(printed, <<"-", n, n>>)
         ELSE UNCHANGED <<pending, printed>>
      /\ UNCHANGED <<matches, hits, after, before, most, searchVars>>

\* Another line.
OtherLine ==
  LET n == lineno + 1
  IN  /\ MoreLines /\ ~hits[n]
      /\ lineno' = n /\ ctx' = Keep(n)
      /\ IF pending > 0
         THEN pending' = pending - 1 /\ printed' = Append(printed, <<"-", n, n>>)
         ELSE UNCHANGED <<pending, printed>>
      /\ UNCHANGED <<matches, hits, after, before, most, searchVars>>

GrepInit ==
  /\ pattern \in Patterns /\ text \in SeqOf(Letters, MaxText) /\ found = "none"
  /\ hits \in SeqOf(BOOLEAN, MaxLinesIn)
  /\ after \in Contexts /\ before \in Contexts /\ most \in {-1, 1}
  /\ lineno = 0 /\ matches = 0 /\ ctx = <<>> /\ pending = 0 /\ printed = <<>>

GrepNext == Search \/ MatchLine \/ OtherLine
GrepSpec == GrepInit /\ [][GrepNext]_grepVars

-----------------------------------------------------------------------------
(* Properties.                                                              *)

\* The strings that an item and a pattern stand for, by lengths: some way to
\* cut s into one piece per item.
Fits(item, s) ==
  /\ Len(s) >= item.min /\ (item.max < 0 \/ Len(s) <= item.max)
  /\ \A k \in DOMAIN s : AtomChar(item.atom, s[k])
Denotes(re, s) ==
  \E cut \in [1 .. Len(re) + 1 -> 1 .. Len(s) + 1] :
    /\ cut[1] = 1 /\ cut[Len(re) + 1] = Len(s) + 1
    /\ \A i \in DOMAIN re : cut[i] <= cut[i + 1] /\ Fits(re[i], SubSeq(s, cut[i], cut[i + 1] - 1))

\* A line matches exactly when a part of it is one of the strings that the
\* pattern stands for, as long as every item stands at least once.  (With
\* "*", "?" or {0,n} every line matches; see MSeq.)
SearchExact ==
  found # "none" /\ (\A i \in DOMAIN pattern : pattern[i].min > 0) =>
    (found = "yes" <=>
       \E i \in 1 .. Len(text) + 1 : \E j \in i - 1 .. Len(text) :
         Denotes(pattern, SubSeq(text, i, j)))

\* What is printed: the matches, each once and in order, and exactly the lines
\* at most -A after or -B (of those kept) before one.
Near(n) ==
  \/ \E m \in 1 .. lineno : hits[m] /\ m < n /\ n <= m + after
  \/ \E m \in 1 .. lineno : hits[m] /\ n < m /\ m <= n + (IF before < CtxMax THEN before ELSE CtxMax)
LinesExact ==
  LET main == SelectSeq(printed, LAMBDA l : l[1] = ":")
  IN  /\ Len(main) = matches
      /\ \A i \in DOMAIN main : hits[main[i][3]] /\ (i > 1 => main[i - 1][3] < main[i][3])
      /\ \A n \in 1 .. lineno :
           (\E i \in DOMAIN printed : printed[i][3] = n) <=> (hits[n] \/ Near(n))

\* The number printed before a line is its own.
NumbersExact == \A i \in DOMAIN printed : printed[i][2] = printed[i][3]

\* The loop of main prints the right lines with the right numbers.
OutputExact == LinesExact /\ NumbersExact
=============================================================================

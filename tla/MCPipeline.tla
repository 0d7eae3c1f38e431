------------------------------ MODULE MCPipeline ------------------------------
(* Small instances of Pipeline for TLC.                                      *)
EXTENDS Pipeline

Prog(redir) == [builtin |-> FALSE, redir |-> redir]
Builtin(redir) == [builtin |-> TRUE, redir |-> redir]

\* a | b | c;  a < f | b;  a | b > f;  echo | b;  echo > f;  a > f 2> g;
\* a > f | b.
MCPlans == {<<Prog({}), Prog({}), Prog({})>>, <<Prog({0}), Prog({})>>,
            <<Prog({}), Prog({1})>>, <<Builtin({}), Prog({})>>,
            <<Builtin({1})>>, <<Prog({1, 2})>>, <<Prog({1}), Prog({})>>}

\* a | b | c and echo | b.
LivePlans == {<<Prog({}), Prog({}), Prog({})>>, <<Builtin({}), Prog({})>>}

\* a | b.
TwoStages == {<<Prog({}), Prog({})>>}
=============================================================================

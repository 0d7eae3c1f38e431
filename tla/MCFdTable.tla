------------------------------ MODULE MCFdTable ------------------------------
(* Small instances of FdTable and of FdPreempt, side by side in one run: a  *)
(* behaviour is one of the component named by part, and the variables of    *)
(* the other keep an initial value.                                         *)
EXTENDS FdTable, FdPreempt, TLC

VARIABLE part

MCInit ==
  /\ part \in {"calls", "accesses"}
  /\ Init /\ RaceInit
  /\ part = "calls" => ~preempt

CallPart == part = "calls" /\ Next /\ UNCHANGED <<part, raceVars>>
AccessPart == part = "accesses" /\ RaceNext /\ UNCHANGED <<part, vars>>

MCNext == CallPart \/ AccessPart

\* Addresses are interchangeable, and so are the tasks other than the shell.
Symm ==
  Permutations(Files) \cup Permutations(Pipes)
  \cup Permutations(Tasks \ {Shell}) \cup Permutations(Sharers \ {Parent})
=============================================================================

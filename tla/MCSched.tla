------------------------------- MODULE MCSched -------------------------------
(* Small instances of Sched for TLC.                                        *)
EXTENDS Sched, TLC

\* The spaces other than the root are interchangeable.  Used for the safety
\* runs only.
Symm == Permutations(Spaces \ {Root})
=============================================================================

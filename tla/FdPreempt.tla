------------------------------ MODULE FdPreempt ------------------------------
(***************************************************************************)
(* file_ref and file_unref of kernel/vfs/vfs.c, one memory access per      *)
(* step, on the two descriptions of one pipe that the shell and its        *)
(* children share (vfs_fd_inherit has given each a descriptor of both      *)
(* ends).  FdTable treats the same calls as single steps.                  *)
(*                                                                         *)
(* preempt = TRUE is the code: a tick may switch tasks between any two     *)
(* accesses of vfs_close and vfs_dup.  With FALSE no call is interrupted.  *)
(* task_exit never is: its task is a zombie and sched_tick leaves it alone.*)
(***************************************************************************)
EXTENDS Integers, FiniteSets, FiniteSetsExt

CONSTANTS Sharers, Parent,
          Modes,      \* values of preempt to look at
          MaxDups     \* bound on the vfs_dup calls of all tasks together

ASSUME FdPreemptAssumption ==
  /\ IsFiniteSet(Sharers) /\ Parent \in Sharers
  /\ Modes \subseteq BOOLEAN /\ MaxDups \in Nat

PipeEnds == {"r", "w"}

VARIABLES
  preempt,    \* may the tick switch inside a call?  Never changes
  hold,       \* hold[t][e]: descriptors of end e in t's table
  frefs,       \* frefs[e]: f->refs of the description of end e
  ends,       \* ends[e]: refs_r and refs_w of the pipe
  freed,      \* how often kfree was called on each object
  pc,         \* pc[t]: <<where t is, the end it works on>>
  reg,        \* reg[t]: the value of f->refs it loaded
  dups        \* vfs_dup calls so far

raceVars == <<preempt, hold, frefs, ends, freed, pc, reg, dups>>

Objects == PipeEnds \cup {"pipe"}
Points == {"idle", "ref", "unref", "load", "store", "check", "free", "gone"}
Idle == <<"idle", "r">>

RaceTypeOK ==
  /\ preempt \in BOOLEAN
  /\ hold \in [Sharers -> [PipeEnds -> 0 .. 1 + MaxDups]]
  /\ frefs \in [PipeEnds -> Int] /\ ends \in [PipeEnds -> Int]
  /\ freed \in [Objects -> Nat]
  /\ pc \in [Sharers -> Points \X PipeEnds] /\ reg \in [Sharers -> Int]
  /\ dups \in 0 .. MaxDups

RaceInit ==
  /\ preempt \in Modes
  /\ hold = [t \in Sharers |-> [e \in PipeEnds |-> 1]]
  /\ frefs = [e \in PipeEnds |-> Cardinality(Sharers)]
  /\ ends = [e \in PipeEnds |-> Cardinality(Sharers)]
  /\ freed = [x \in Objects |-> 0]
  /\ pc = [t \in Sharers |-> Idle]
  /\ reg = [t \in Sharers |-> 0]
  /\ dups = 0

At(t, point) == pc[t][1] = point
EndOf(t) == pc[t][2]
Goto(t, point) == pc' = [pc EXCEPT ![t] = <<point, EndOf(t)>>]
Done(t) == pc' = [pc EXCEPT ![t] = Idle]

\* No tick inside a call of another task.
MayRun(t) ==
  /\ preempt \/ \A u \in Sharers \ {t} : At(u, "idle") \/ At(u, "gone")
  /\ UNCHANGED preempt

-----------------------------------------------------------------------------
\* vfs_dup: the slot is filled, then file_ref counts it.  f->refs++ and the
\* increment of the pipe's counter are one instruction each.
DupSlot(t, e) ==
  /\ MayRun(t) /\ At(t, "idle") /\ hold[t][e] > 0 /\ dups < MaxDups
  /\ dups' = dups + 1
  /\ hold' = [hold EXCEPT ![t][e] = @ + 1]
  /\ pc' = [pc EXCEPT ![t] = <<"ref", e>>]
  /\ frefs' = [frefs EXCEPT ![e] = @ + 1]
  /\ UNCHANGED <<ends, freed, reg>>

RefEnd(t) ==
  /\ MayRun(t) /\ At(t, "ref")
  /\ ends' = [ends EXCEPT ![EndOf(t)] = @ + 1]
  /\ Done(t)
  /\ UNCHANGED <<hold, frefs, freed, reg, dups>>

\* vfs_close: the slot is emptied, then file_unref.
CloseSlot(t, e) ==
  /\ MayRun(t) /\ At(t, "idle") /\ hold[t][e] > 0
  /\ hold' = [hold EXCEPT ![t][e] = @ - 1]
  /\ pc' = [pc EXCEPT ![t] = <<"unref", e>>]
  /\ UNCHANGED <<frefs, ends, freed, reg, dups>>

\* f->pipe->refs_w-- or refs_r--, one instruction.
UnrefEnd(t) ==
  /\ MayRun(t) /\ At(t, "unref")
  /\ ends' = [ends EXCEPT ![EndOf(t)] = @ - 1]
  /\ Goto(t, "load")
  /\ UNCHANGED <<hold, frefs, freed, reg, dups>>

\* --f->refs is a load and a store: the new value is needed for the test.
UnrefLoad(t) ==
  /\ MayRun(t) /\ At(t, "load")
  /\ reg' = [reg EXCEPT ![t] = frefs[EndOf(t)]]
  /\ Goto(t, "store")
  /\ UNCHANGED <<hold, frefs, ends, freed, dups>>

UnrefStore(t) ==
  /\ MayRun(t) /\ At(t, "store")
  /\ frefs' = [frefs EXCEPT ![EndOf(t)] = reg[t] - 1]
  /\ IF reg[t] = 1 THEN Goto(t, "check") ELSE Done(t)
  /\ UNCHANGED <<hold, ends, freed, reg, dups>>

\* Mutant of UnrefCheck: only the last writer frees the pipe.
UnrefCheckWriter(t) ==
  /\ MayRun(t) /\ At(t, "check")
  /\ freed' = IF EndOf(t) = "w" /\ \A e \in PipeEnds : ends[e] = 0
                THEN [freed EXCEPT !["pipe"] = @ + 1] ELSE freed
  /\ Goto(t, "free")
  /\ UNCHANGED <<hold, frefs, ends, reg, dups>>

\* "A pipe lives as long as either end is referenced."
UnrefCheck(t) ==
  /\ MayRun(t) /\ At(t, "check")
  /\ freed' = IF \A e \in PipeEnds : ends[e] = 0
                THEN [freed EXCEPT !["pipe"] = @ + 1] ELSE freed
  /\ Goto(t, "free")
  /\ UNCHANGED <<hold, frefs, ends, reg, dups>>

UnrefFree(t) ==
  /\ MayRun(t) /\ At(t, "free")
  /\ freed' = [freed EXCEPT ![EndOf(t)] = @ + 1]
  /\ Done(t)
  /\ UNCHANGED <<hold, frefs, ends, reg, dups>>

\* task_exit: vfs_close_all calls file_unref for every descriptor, without
\* a switch in between.  The read end may come first in the table or last;
\* the pipe is freed when the last of the two finds both counters zero.
ExitAll(t) ==
  LET last == {e \in PipeEnds : hold[t][e] > 0 /\ frefs[e] = hold[t][e]}
      left == [e \in PipeEnds |-> ends[e] - hold[t][e]]
      FreesPipe(e1, e2) ==
        \/ e1 \in last /\ left[e1] = 0 /\ ends[e2] = 0
        \/ e2 \in last /\ left[e1] = 0 /\ left[e2] = 0
  IN  /\ MayRun(t) /\ At(t, "idle") /\ t # Parent
      /\ hold' = [hold EXCEPT ![t] = [e \in PipeEnds |-> 0]]
      /\ frefs' = [e \in PipeEnds |-> frefs[e] - hold[t][e]]
      /\ ends' = left
      /\ \E e1, e2 \in PipeEnds :
           /\ e1 # e2
           /\ freed' = [x \in Objects |->
                 IF x \in last \/ (x = "pipe" /\ FreesPipe(e1, e2))
                   THEN freed[x] + 1 ELSE freed[x]]
      /\ pc' = [pc EXCEPT ![t] = <<"gone", "r">>]
      /\ UNCHANGED <<reg, dups>>

RaceNext ==
  \E t \in Sharers :
    \/ RefEnd(t) \/ UnrefEnd(t) \/ UnrefLoad(t) \/ UnrefStore(t)
    \/ UnrefCheck(t) \/ UnrefFree(t) \/ ExitAll(t)
    \/ \E e \in PipeEnds : DupSlot(t, e) \/ CloseSlot(t, e)

RaceSpec == RaceInit /\ [][RaceNext]_raceVars

-----------------------------------------------------------------------------
(* What the counts promise.                                                 *)

\* Descriptors of end e in all tables.
Held(e) == MapThenSumSet(LAMBDA t : hold[t][e], Sharers)
Working(point, e) == Cardinality({t \in Sharers : pc[t] = <<point, e>>})
Quiet == \A t \in Sharers : At(t, "idle") \/ At(t, "gone")

\* "refs_r/refs_w count the open descriptors per end": even with preemption
\* the pipe's counters, which decide about EOF and -EPIPE, are off only by
\* the calls that are just about to update them.
EndCountsExact ==
  \A e \in PipeEnds : ends[e] = Held(e) + Working("unref", e) - Working("ref", e)

\* "A pipe lives as long as either end is referenced": neither the pipe nor
\* a description is freed while a descriptor refers to it.
AliveWhileHeld ==
  \A e \in PipeEnds : Held(e) > 0 => freed[e] = 0 /\ freed["pipe"] = 0

\* And "the last close frees it", once: when nobody holds a descriptor and no
\* call is under way, all three objects have been freed exactly once.  Both
\* hold of file_unref as long as no tick falls inside it.
AtomicFrees ==
  ~preempt =>
    /\ AliveWhileHeld
    /\ Quiet /\ (\A e \in PipeEnds : Held(e) = 0) => \A x \in Objects : freed[x] = 1

\* file_ref and file_unref with ticks anywhere: the ends are counted right,
\* and without a tick inside a call every object is freed when and only when
\* it should be.
RaceSafe == RaceTypeOK /\ EndCountsExact /\ AtomicFrees
=============================================================================

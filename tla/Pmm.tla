--------------------------------- MODULE Pmm ---------------------------------
(***************************************************************************)
(* kernel/mm/pmm.c: the bitmap allocator of physical frames, called by the *)
(* shell and by the mmap and exec system calls of every task.              *)
(*                                                                         *)
(* pmm_alloc_frame tests a bit and then sets it.  The two are separate     *)
(* steps here: with preempt = TRUE (the code) a tick may fall between      *)
(* them, with FALSE it does not.                                           *)
(***************************************************************************)
EXTENDS Integers, FiniteSets

CONSTANTS MaxFrames,    \* MAX_FRAMES (2^20 in the code)
          Usable,       \* frames of the LIMINE_MEMMAP_USABLE entries
          Tasks,
          Modes,        \* values of preempt to look at
          MaxRun,       \* largest count given to pmm_alloc_frames
          MaxDrift      \* bound on what g_allocated_frames may count too much

FrameNos == 0 .. MaxFrames - 1

\* The bootloader never reports frame 0 as usable.
ASSUME PmmAssumption ==
  /\ MaxFrames \in Nat /\ Usable \subseteq FrameNos \ {0}
  /\ Modes \subseteq BOOLEAN /\ MaxRun \in Nat \ {0} /\ MaxDrift \in Nat

VARIABLES
  preempt,     \* may the tick switch inside a search?  Never changes
  used,        \* the set bits of g_bitmap
  allocated,   \* g_allocated_frames
  hint,        \* g_last_hint
  own,         \* own[t]: frames handed to t and not given back
  got,         \* got[t]: frames t found free but has not marked yet
  failed       \* size of the request, if the last call returned 0

pmmVars == <<preempt, used, allocated, hint, own, got, failed>>

\* g_total_frames: the number of usable frames, and the end of every search.
Total == Cardinality(Usable)

PmmTypeOK ==
  /\ preempt \in BOOLEAN
  /\ used \in SUBSET FrameNos /\ allocated \in Int /\ hint \in 0 .. Total
  /\ own \in [Tasks -> SUBSET FrameNos] /\ got \in [Tasks -> SUBSET FrameNos]
  /\ failed \in 0 .. MaxRun

\* pmm_init.
PmmInit ==
  /\ preempt \in Modes
  /\ used = FrameNos \ Usable /\ allocated = 0 /\ hint = 0
  /\ own = [t \in Tasks |-> {}] /\ got = [t \in Tasks |-> {}]
  /\ failed = 0

MayRun(t) ==
  /\ preempt \/ \A u \in Tasks \ {t} : got[u] = {}
  /\ UNCHANGED preempt

\* Mutant of Candidates: the search does not wrap around.
CandidatesAhead == (hint .. Total - 1) \ used

\* pmm_alloc_frame scans up from the hint and, if that finds nothing, the
\* frames before the hint.
Candidates ==
  LET ahead == (hint .. Total - 1) \ used
      behind == {i \in 0 .. hint - 1 : i < Total} \ used
  IN  IF ahead # {} THEN ahead ELSE behind

\* pmm_alloc_frames tries every position from 0.
Runs(n) == {i \in 0 .. Total - n : i .. i + n - 1 \subseteq FrameNos \ used}

Search(t, n) ==
  LET from == IF n = 1 THEN Candidates ELSE Runs(n)
  IN  /\ MayRun(t) /\ got[t] = {} /\ allocated <= Total + MaxDrift
      /\ \/ from = {} /\ failed' = n /\ UNCHANGED got
         \/ \E i \in from :
              /\ \A j \in from : i <= j
              /\ got' = [got EXCEPT ![t] = i .. i + n - 1]
              /\ failed' = 0
      /\ UNCHANGED <<used, allocated, hint, own>>

\* Mutant of Take: only the first bit is set.
TakeMarksFirst(t) ==
  /\ MayRun(t) /\ got[t] # {}
  /\ used' = used \cup {i \in got[t] : \A j \in got[t] : i <= j}
  /\ allocated' = allocated + Cardinality(got[t])
  /\ \E i \in got[t] : (\A j \in got[t] : i >= j) /\ hint' = i + 1
  /\ own' = [own EXCEPT ![t] = @ \cup got[t]]
  /\ got' = [got EXCEPT ![t] = {}]
  /\ failed' = 0

\* frame_set_used, g_allocated_frames, g_last_hint, return.
Take(t) ==
  /\ MayRun(t) /\ got[t] # {}
  /\ used' = used \cup got[t]
  /\ allocated' = allocated + Cardinality(got[t])
  /\ \E i \in got[t] : (\A j \in got[t] : i >= j) /\ hint' = i + 1
  /\ own' = [own EXCEPT ![t] = @ \cup got[t]]
  /\ got' = [got EXCEPT ![t] = {}]
  /\ failed' = 0

\* pmm_free_frame(s): frames beyond Total and free ones are ignored.
Free(t, S) ==
  LET given == {f \in S : f < Total /\ f \in used}
  IN  /\ MayRun(t) /\ got[t] = {} /\ S \subseteq own[t]
      /\ used' = used \ given
      /\ allocated' = allocated - Cardinality(given)
      /\ own' = [own EXCEPT ![t] = @ \ S]
      /\ failed' = 0
      /\ UNCHANGED <<hint, got>>

PmmNext ==
  \E t \in Tasks :
    \/ \E n \in 1 .. MaxRun : Search(t, n)
    \/ Take(t)
    \/ \E S \in SUBSET own[t] \ {{}} : Free(t, S)

PmmSpec == PmmInit /\ [][PmmNext]_pmmVars

-----------------------------------------------------------------------------
(* What the allocator promises.                                             *)

\* What a task is given is usable memory, below the end of the search, even
\* if tasks preempt each other between test and set.
OwnUsable == \A t \in Tasks : own[t] \subseteq {f \in Usable : f < Total}

\* "One bitmap bit per frame: set = allocated": no frame belongs to two
\* tasks, as long as no tick falls between test and set.
NoSharedFrame ==
  ~preempt => \A t, u \in Tasks : t # u => own[t] \cap own[u] = {}

\* Under the same condition g_allocated_frames is the number of frames in
\* use, so what sysinfo shows does not drift however often frames are taken
\* and given back.
StatsExact ==
  ~preempt => /\ allocated = Cardinality(used \cap Usable)
              /\ used \cap Usable = UNION {own[t] : t \in Tasks}

\* The search from the hint wraps around: pmm_alloc_frame fails only when
\* every frame below g_total_frames is in use.
SearchComplete == failed = 1 => 0 .. Total - 1 \subseteq used

\* pmm.c hands out usable frames in every case, and, if no tick falls between
\* test and set, each to one task, and its statistics agree.
FramesExact == PmmTypeOK /\ OwnUsable /\ NoSharedFrame /\ StatsExact
=============================================================================

---------------------------- MODULE MemoryProofs ----------------------------
(***************************************************************************)
(* Kernel memory: the frame allocator, for every memory map, every number  *)
(* of tasks and every length of request; and the kernel heap on top of it, *)
(* for every page size, every sequence of requests and any number of frames. *)
(***************************************************************************)
EXTENDS Pmm, Kmalloc, FiniteSetTheorems, TLAPS

(* The frame allocator (Pmm.tla).                                           *)

\* The frames an allocation can return.
Reachable == {f \in Usable : f < Total}

\* What a search has found is usable and, unless tasks preempt each other
\* between test and set, still free; then at most one task is in a search.
SearchSafe ==
  /\ FrameNos \ Usable \subseteq used
  /\ \A t \in Tasks : got[t] \subseteq Reachable
  /\ ~preempt => /\ \A t \in Tasks : got[t] \cap used = {}
                 /\ \A t, u \in Tasks : got[t] # {} /\ got[u] # {} => t = u

PmmInv ==
  /\ PmmTypeOK /\ SearchSafe
  /\ OwnUsable /\ NoSharedFrame /\ StatsExact /\ SearchComplete

-----------------------------------------------------------------------------
\* g_total_frames counts frames below MAX_FRAMES; all sets of frames are finite.
LEMMA TotalBound ==
  /\ IsFiniteSet(FrameNos) /\ IsFiniteSet(Usable)
  /\ Total \in Nat /\ Total <= MaxFrames
<1>1. IsFiniteSet(FrameNos) /\ Cardinality(FrameNos) = MaxFrames
  <2>1. 0 \in Int /\ MaxFrames - 1 \in Int
    BY PmmAssumption
  <2>2. IsFiniteSet(0 .. MaxFrames - 1)
    BY <2>1, FS_Interval
  <2>3. Cardinality(0 .. MaxFrames - 1)
          = IF 0 > MaxFrames - 1 THEN 0 ELSE MaxFrames - 1 - 0 + 1
    BY <2>1, FS_Interval
  <2> QED BY <2>2, <2>3, PmmAssumption DEF FrameNos
<1>2. IsFiniteSet(Usable) /\ Cardinality(Usable) <= Cardinality(FrameNos)
  <2>1. Usable \subseteq FrameNos
    BY PmmAssumption
  <2> QED BY <1>1, <2>1, FS_Subset
<1>3. Total \in Nat
  BY <1>2, FS_CardinalityType DEF Total
<1> QED BY <1>1, <1>2, <1>3 DEF Total

\* What the invariant says of a frame that a search finds.
LEMMA FoundReachable ==
  ASSUME PmmInv, NEW f \in Nat, f < Total, f \notin used
  PROVE  f \in Reachable
BY TotalBound, PmmAssumption DEF PmmInv, SearchSafe, Reachable, FrameNos

\* The allocator starts with nothing handed out.
LEMMA PmmInvInit == PmmInit => PmmInv
<1> SUFFICES ASSUME PmmInit PROVE PmmInv
  OBVIOUS
<1> USE PmmAssumption, TotalBound
<1>1. PmmTypeOK
  <2>1. preempt \in BOOLEAN
    BY DEF PmmInit
  <2> QED BY <2>1 DEF PmmInit, PmmTypeOK
<1>2. SearchSafe
  BY DEF PmmInit, SearchSafe
<1>3. OwnUsable /\ NoSharedFrame
  BY DEF PmmInit, OwnUsable, NoSharedFrame
<1>4. StatsExact
  <2>1. used \cap Usable = {}
    BY DEF PmmInit
  <2>2. UNION {own[t] : t \in Tasks} = {}
    BY DEF PmmInit
  <2> QED BY <2>1, <2>2, FS_EmptySet DEF PmmInit, StatsExact
<1>5. SearchComplete
  BY DEF PmmInit, SearchComplete
<1> QED BY <1>1, <1>2, <1>3, <1>4, <1>5 DEF PmmInv

\* A search finds frames that are free, or says truly that there are none.
LEMMA SearchStep ==
  ASSUME PmmInv, NEW t \in Tasks, NEW n \in 1 .. MaxRun, Search(t, n)
  PROVE  PmmInv'
<1> USE PmmAssumption, TotalBound
<1> DEFINE from == IF n = 1 THEN Candidates ELSE Runs(n)
<1>1. /\ UNCHANGED <<used, allocated, hint, own, preempt>> /\ got[t] = {}
      /\ preempt \/ \A u \in Tasks \ {t} : got[u] = {}
  BY DEF Search, MayRun
<1>2. \/ from = {} /\ failed' = n /\ UNCHANGED got
      \/ \E i \in from : got' = [got EXCEPT ![t] = i .. i + n - 1] /\ failed' = 0
  BY DEF Search
<1>3. \A i \in from : i \in Nat /\ i + n - 1 < Total /\ \A f \in i .. i + n - 1 : f \notin used
  <2>1. CASE n = 1
    <3>1. \A i \in Candidates : i \in Nat /\ i < Total /\ i \notin used
      BY DEF PmmInv, PmmTypeOK, Candidates
    <3> QED BY <2>1, <3>1
  <2>2. CASE n # 1
    BY <2>2 DEF Runs
  <2> QED BY <2>1, <2>2
<1>4. \A i \in from : i .. i + n - 1 \subseteq Reachable
  BY <1>3, FoundReachable
<1>5. n = 1 /\ from = {} => 0 .. Total - 1 \subseteq used
  BY DEF Candidates, PmmInv, PmmTypeOK
<1> HIDE DEF from
<1>6. CASE from = {} /\ failed' = n /\ UNCHANGED got
  <2>1. PmmTypeOK'
    BY <1>1, <1>6 DEF PmmInv, PmmTypeOK
  <2>2. SearchSafe' /\ OwnUsable' /\ NoSharedFrame' /\ StatsExact'
    BY <1>1, <1>6 DEF PmmInv, SearchSafe, OwnUsable, NoSharedFrame, StatsExact
  <2>3. SearchComplete'
    BY <1>1, <1>5, <1>6 DEF SearchComplete
  <2> QED BY <2>1, <2>2, <2>3 DEF PmmInv
<1>7. ASSUME NEW i \in from, got' = [got EXCEPT ![t] = i .. i + n - 1], failed' = 0
      PROVE  PmmInv'
  <2>1. i .. i + n - 1 \subseteq Reachable /\ \A f \in i .. i + n - 1 : f \notin used
    BY <1>3, <1>4
  <2>2. got'[t] = i .. i + n - 1 /\ \A u \in Tasks \ {t} : got'[u] = got[u]
    BY <1>7 DEF PmmInv, PmmTypeOK
  <2>3. PmmTypeOK'
    BY <1>1, <1>7, <2>1 DEF PmmInv, PmmTypeOK, Reachable
  <2>4. SearchSafe'
    <3>1. \A u \in Tasks : got'[u] \subseteq Reachable
      BY Zenon, <2>1, <2>2 DEF PmmInv, SearchSafe
    <3>2. ASSUME ~preempt' PROVE \A u \in Tasks : got'[u] \cap used' = {}
      BY Zenon, <1>1, <2>1, <2>2, <3>2 DEF PmmInv, SearchSafe
    <3>3. ASSUME ~preempt', NEW u \in Tasks, got'[u] # {} PROVE u = t
      BY <1>1, <2>2, <3>3
    <3> QED BY <1>1, <3>1, <3>2, <3>3 DEF PmmInv, SearchSafe
  <2>5. OwnUsable' /\ NoSharedFrame' /\ StatsExact' /\ SearchComplete'
    BY <1>1, <1>7 DEF PmmInv, OwnUsable, NoSharedFrame, StatsExact, SearchComplete
  <2> QED BY <2>3, <2>4, <2>5 DEF PmmInv
<1> QED BY <1>2, <1>6, <1>7

\* Marking what was found: the frames become the task's.
LEMMA TakeStep ==
  ASSUME PmmInv, NEW t \in Tasks, Take(t)
  PROVE  PmmInv'
<1> USE PmmAssumption, TotalBound
<1>1. /\ preempt' = preempt /\ got[t] # {}
      /\ preempt \/ \A u \in Tasks \ {t} : got[u] = {}
      /\ used' = used \cup got[t] /\ failed' = 0
      /\ allocated' = allocated + Cardinality(got[t])
      /\ own' = [own EXCEPT ![t] = @ \cup got[t]]
      /\ got' = [got EXCEPT ![t] = {}]
  BY DEF Take, MayRun
<1>2. got[t] \subseteq Reachable /\ Reachable \subseteq Usable /\ Reachable \subseteq FrameNos
  BY DEF PmmInv, SearchSafe, Reachable
<1>3. own'[t] = own[t] \cup got[t] /\ \A u \in Tasks \ {t} : own'[u] = own[u]
  BY <1>1 DEF PmmInv, PmmTypeOK
<1>4. IsFiniteSet(got[t]) /\ Cardinality(got[t]) \in Nat
  BY <1>2, FS_Subset, FS_CardinalityType
<1>5. PmmTypeOK'
  <2>1. hint' \in 0 .. Total
    BY <1>2 DEF Take, Reachable, PmmInv, PmmTypeOK, FrameNos
  <2>2. own' \in [Tasks -> SUBSET FrameNos] /\ got' \in [Tasks -> SUBSET FrameNos]
    BY <1>1, <1>2 DEF PmmInv, PmmTypeOK
  <2> QED BY <1>1, <1>2, <1>4, <2>1, <2>2 DEF PmmInv, PmmTypeOK
<1>6. SearchSafe'
  <2>1. FrameNos \ Usable \subseteq used'
    BY <1>1 DEF PmmInv, SearchSafe
  <2>2. \A u \in Tasks : got'[u] \subseteq got[u]
    BY <1>1 DEF PmmInv, PmmTypeOK
  <2>3. ASSUME ~preempt', NEW u \in Tasks PROVE got'[u] = {}
    BY <1>1, <2>3 DEF PmmInv, PmmTypeOK
  <2> QED BY <1>1, <2>1, <2>2, <2>3 DEF PmmInv, SearchSafe, Reachable
<1>7. OwnUsable'
  BY <1>2, <1>3 DEF PmmInv, OwnUsable, Reachable
<1>8. NoSharedFrame'
  <2> SUFFICES ASSUME ~preempt, NEW u \in Tasks, NEW v \in Tasks, u # v
      PROVE  own'[u] \cap own'[v] = {}
    BY <1>1 DEF NoSharedFrame
  <2>1. \A w \in Tasks : got[t] \cap own[w] = {}
    BY <1>2 DEF PmmInv, SearchSafe, StatsExact
  <2> QED BY <1>3, <2>1 DEF PmmInv, NoSharedFrame
<1>9. StatsExact'
  <2> SUFFICES ASSUME ~preempt
      PROVE  /\ allocated' = Cardinality(used' \cap Usable)
             /\ used' \cap Usable = UNION {own'[u] : u \in Tasks}
    BY <1>1 DEF StatsExact
  <2>1. used' \cap Usable = (used \cap Usable) \cup got[t]
    BY <1>1, <1>2
  <2>2. (used \cap Usable) \cap got[t] = {}
    BY DEF PmmInv, SearchSafe
  <2>3. IsFiniteSet(used \cap Usable)
    BY FS_Subset
  <2>4. Cardinality((used \cap Usable) \cup got[t])
          = Cardinality(used \cap Usable) + Cardinality(got[t])
            - Cardinality((used \cap Usable) \cap got[t])
    BY <1>4, <2>3, FS_Union
  <2>5. allocated' = Cardinality(used' \cap Usable)
    <3>1. Cardinality(used \cap Usable) \in Nat
      BY <2>3, FS_CardinalityType
    <3>2. Cardinality((used \cap Usable) \cap got[t]) = 0
      BY <2>2, FS_EmptySet
    <3>3. allocated = Cardinality(used \cap Usable)
      BY DEF PmmInv, StatsExact
    <3>4. Cardinality(used' \cap Usable) = Cardinality((used \cap Usable) \cup got[t])
      BY <2>1, Zenon
    <3>5. allocated' = Cardinality(used \cap Usable) + Cardinality(got[t])
      BY <1>1, <3>3, Zenon
    <3> QED BY <1>4, <2>4, <3>1, <3>2, <3>4, <3>5
  <2>6. used \cap Usable = UNION {own[u] : u \in Tasks}
    BY DEF PmmInv, StatsExact
  <2>7. ASSUME NEW f
        PROVE  f \in UNION {own'[u] : u \in Tasks}
                 <=> f \in UNION {own[u] : u \in Tasks} \/ f \in got[t]
    <3>1. f \in UNION {own'[u] : u \in Tasks} <=> \E u \in Tasks : f \in own'[u]
      BY Zenon
    <3>2. f \in UNION {own[u] : u \in Tasks} <=> \E u \in Tasks : f \in own[u]
      BY Zenon
    <3>3. (\E u \in Tasks : f \in own'[u]) <=> (\E u \in Tasks : f \in own[u]) \/ f \in got[t]
      BY <1>3, Zenon
    <3> QED BY <3>1, <3>2, <3>3, Zenon
  <2>8. used' \cap Usable = UNION {own'[u] : u \in Tasks}
    BY <2>1, <2>6, <2>7, Zenon
  <2> QED BY <2>5, <2>8
<1>10. SearchComplete'
  BY <1>1 DEF SearchComplete
<1> QED BY <1>5, <1>6, <1>7, <1>8, <1>9, <1>10 DEF PmmInv

\* Giving frames back.
LEMMA FreeStep ==
  ASSUME PmmInv, NEW t \in Tasks, NEW S \in SUBSET own[t], Free(t, S)
  PROVE  PmmInv'
<1> USE PmmAssumption, TotalBound
<1> DEFINE given == {f \in S : f < Total /\ f \in used}
<1>1. /\ preempt' = preempt /\ got[t] = {}
      /\ preempt \/ \A u \in Tasks \ {t} : got[u] = {}
      /\ used' = used \ given /\ failed' = 0
      /\ allocated' = allocated - Cardinality(given)
      /\ own' = [own EXCEPT ![t] = @ \ S]
      /\ UNCHANGED <<hint, got>>
  BY DEF Free, MayRun
<1>2. S \subseteq Reachable /\ given \subseteq Usable
  BY DEF PmmInv, OwnUsable, Reachable
<1>3. own'[t] = own[t] \ S /\ \A u \in Tasks \ {t} : own'[u] = own[u]
  BY <1>1 DEF PmmInv, PmmTypeOK
<1>4. IsFiniteSet(given) /\ Cardinality(given) \in Nat
  BY <1>2, FS_Subset, FS_CardinalityType
<1>5. ~preempt => given = S
  <2> SUFFICES ASSUME ~preempt PROVE S \subseteq used
    BY <1>2 DEF Reachable
  <2> QED BY DEF PmmInv, StatsExact
<1> HIDE DEF given
<1>6. PmmTypeOK'
  BY <1>1, <1>4 DEF PmmInv, PmmTypeOK
<1>7. SearchSafe'
  BY <1>1, <1>2 DEF PmmInv, SearchSafe
<1>8. OwnUsable'
  BY <1>3 DEF PmmInv, OwnUsable
<1>9. NoSharedFrame'
  BY <1>1, <1>3 DEF PmmInv, NoSharedFrame
<1>10. StatsExact'
  <2> SUFFICES ASSUME ~preempt
      PROVE  /\ allocated' = Cardinality(used' \cap Usable)
             /\ used' \cap Usable = UNION {own'[u] : u \in Tasks}
    BY <1>1 DEF StatsExact
  <2>1. used' \cap Usable = (used \cap Usable) \ given
    BY <1>1
  <2>2. given \subseteq used \cap Usable
    BY <1>2 DEF given
  <2>3. IsFiniteSet(used \cap Usable)
    BY FS_Subset
  <2>4. Cardinality((used \cap Usable) \ given)
          = Cardinality(used \cap Usable) - Cardinality((used \cap Usable) \cap given)
    BY Zenon, <2>3, FS_Difference
  <2>5. allocated' = Cardinality(used' \cap Usable)
    <3>1. (used \cap Usable) \cap given = given
      BY <2>2
    <3>2. allocated = Cardinality(used \cap Usable)
      BY DEF PmmInv, StatsExact
    <3> QED BY Zenon, <1>1, <2>1, <2>4, <3>1, <3>2
  <2>6. used \cap Usable = UNION {own[u] : u \in Tasks}
    BY DEF PmmInv, StatsExact
  <2>7. ASSUME NEW f
        PROVE  f \in UNION {own'[u] : u \in Tasks}
                 <=> f \in UNION {own[u] : u \in Tasks} /\ f \notin S
    <3>1. \A u \in Tasks : u # t => f \notin own[u] \/ f \notin own[t]
      BY DEF PmmInv, NoSharedFrame
    <3>2. f \in S => f \in own[t]
      OBVIOUS
    <3>3. f \in UNION {own'[u] : u \in Tasks} <=> \E u \in Tasks : f \in own'[u]
      BY Zenon
    <3>4. f \in UNION {own[u] : u \in Tasks} <=> \E u \in Tasks : f \in own[u]
      BY Zenon
    <3>5. (\E u \in Tasks : f \in own'[u]) <=> (\E u \in Tasks : f \in own[u]) /\ f \notin S
      BY <1>3, <3>1, <3>2, Zenon
    <3> QED BY <3>3, <3>4, <3>5, Zenon
  <2>8. used' \cap Usable = UNION {own'[u] : u \in Tasks}
    BY <1>5, <2>1, <2>6, <2>7, Zenon
  <2> QED BY <2>5, <2>8
<1>11. SearchComplete'
  BY <1>1 DEF SearchComplete
<1> QED BY <1>6, <1>7, <1>8, <1>9, <1>10, <1>11 DEF PmmInv

\* Every step keeps the invariant.
LEMMA PmmInvStep == PmmInv /\ [PmmNext]_pmmVars => PmmInv'
<1> SUFFICES ASSUME PmmInv, [PmmNext]_pmmVars PROVE PmmInv'
  OBVIOUS
<1>1. ASSUME NEW t \in Tasks, NEW n \in 1 .. MaxRun, Search(t, n) PROVE PmmInv'
  BY <1>1, SearchStep
<1>2. ASSUME NEW t \in Tasks, Take(t) PROVE PmmInv'
  BY <1>2, TakeStep
<1>3. ASSUME NEW t \in Tasks, NEW S \in SUBSET own[t] \ {{}}, Free(t, S) PROVE PmmInv'
  BY <1>3, FreeStep
<1>4. CASE UNCHANGED pmmVars
  BY <1>4 DEF pmmVars, PmmInv, PmmTypeOK, SearchSafe, OwnUsable, NoSharedFrame, StatsExact,
              SearchComplete
<1> QED BY <1>1, <1>2, <1>3, <1>4 DEF PmmNext

-----------------------------------------------------------------------------
\* The invariant holds in every reachable state of the allocator.
LEMMA PmmInvAlways == PmmSpec => []PmmInv
BY PmmInvInit, PmmInvStep, PTL DEF PmmSpec

\* pmm_alloc_frame(s) hand out usable memory only, even if tasks preempt each
\* other between test and set; if no tick falls there, no frame belongs to two
\* tasks and g_allocated_frames counts the frames in use.
THEOREM FramesAreExact == PmmSpec => []FramesExact
BY PmmInvAlways, PTL DEF PmmInv, FramesExact

\* pmm_alloc_frame fails only when every frame below g_total_frames is used.
THEOREM SearchIsComplete == PmmSpec => []SearchComplete
BY PmmInvAlways, PTL DEF PmmInv

-----------------------------------------------------------------------------
(* The kernel heap (Kmalloc.tla).                                           *)

HeapRecord == [free : Seq(Block), next : Nat, mapped : SUBSET Nat, frames : Nat]

Elems(l) == {l[i] : i \in DOMAIN l}
FreeOf(h) == Elems(h.free)
Distinct(l) == \A i, j \in DOMAIN l : i # j => l[i] # l[j]

\* The blocks of B are apart and fill the mapped pages below n.
Tiles(B, m, n) ==
  /\ \A b, c \in B : b # c => Words(b) \cap Words(c) = {}
  /\ \A w \in Nat : (\E b \in B : w \in Words(b)) <=> w \div Page \in m /\ w \div Page < n

\* l is a list of different blocks, those of S.
ListOf(l, S) == l \in Seq(Block) /\ Distinct(l) /\ Elems(l) = S

\* The inductive invariant: the blocks F on heap h's free list and the blocks
\* L handed out tile the arena; multi-page blocks are whole pages and never
\* on the list; no frame is counted twice.
HeapIs(h, F, L) ==
  /\ h \in HeapRecord /\ ListOf(h.free, F) /\ L \in SUBSET Block
  /\ IsFiniteSet(h.mapped) /\ h.frames + Cardinality(h.mapped) <= MaxPages
  /\ F \cap L = {} /\ \A b \in F : b.pages = 0
  /\ \A b \in L : b.pages > 0 => \E k \in Nat : b.at = k * Page
  /\ Tiles(F \cup L, h.mapped, h.next)
HeapOK(h, L) == HeapIs(h, FreeOf(h), L)

KmInv == HeapOK(heap, live) /\ heap.next <= MaxArena

-----------------------------------------------------------------------------
(* Numbers.                                                                 *)

\* The constants are positive, and a page holds a header and a little more.
LEMMA Sizes3 ==
  /\ Page \in Nat /\ Header \in Nat /\ Align \in Nat /\ MaxPages \in Nat /\ MaxArena \in Nat
  /\ Page > 0 /\ Header > 0 /\ Align > 0 /\ Page > Header + Align
  BY KmallocAssumption

\* Multiplication is monotone.
LEMMA TimesLe ==
  ASSUME NEW a \in Nat, NEW b \in Nat, NEW n \in Nat, a <= b
  PROVE  a * n <= b * n
  BY SMT

\* The page a word is in.
LEMMA DivModPage ==
  ASSUME NEW w \in Nat
  PROVE  /\ w \div Page \in Nat /\ (w \div Page) * Page <= w /\ w < (w \div Page) * Page + Page
<1>1. Page \in Nat \ {0}
  BY Sizes3
<1> QED BY <1>1

\* Words in whole pages.
LEMMA WholePages ==
  ASSUME NEW w \in Nat, NEW k \in Nat, NEW p \in Nat
  PROVE  w \in k * Page .. k * Page + p * Page - 1 <=> k <= w \div Page /\ w \div Page < k + p
<1>1. PICK q : q = w \div Page
  OBVIOUS
<1>2. q \in Nat /\ q * Page <= w /\ w < q * Page + Page
  BY <1>1, DivModPage
<1>3. Page \in Nat /\ Page > 0 /\ k * Page \in Nat /\ p * Page \in Nat /\ q * Page \in Nat
  BY <1>2, Sizes3
<1>4. (q + 1) * Page = q * Page + Page /\ (k + p) * Page = k * Page + p * Page
  BY <1>2, <1>3
<1>5. k <= q => k * Page <= q * Page
  BY <1>2, <1>3, TimesLe
<1>6. q + 1 <= k => (q + 1) * Page <= k * Page
  BY <1>2, <1>3, TimesLe
<1>7. q + 1 <= k + p => (q + 1) * Page <= (k + p) * Page
  BY <1>2, <1>3, TimesLe
<1>8. k + p <= q => (k + p) * Page <= q * Page
  BY <1>2, <1>3, TimesLe
<1>9. ASSUME k <= q, q < k + p PROVE w \in k * Page .. k * Page + p * Page - 1
  <2>1. q + 1 <= k + p
    BY <1>2, <1>9
  <2> QED BY <1>2, <1>3, <1>4, <1>5, <1>7, <1>9, <2>1
<1>10. ASSUME w \in k * Page .. k * Page + p * Page - 1 PROVE k <= q /\ q < k + p
  <2>1. ~(q + 1 <= k)
    BY <1>2, <1>3, <1>4, <1>6, <1>10
  <2>2. ~(k + p <= q)
    BY <1>2, <1>3, <1>4, <1>8, <1>10
  <2> QED BY <1>2, <2>1, <2>2
<1> QED BY <1>1, <1>9, <1>10

\* A block has words, all of them numbers.
LEMMA HasWords ==
  ASSUME NEW b \in Block
  PROVE  b.at \in Words(b) /\ Words(b) \subseteq Nat
<1>1. /\ b.at \in Nat /\ b.size \in Nat /\ b.pages \in Nat
      /\ Page \in Nat /\ Page > 0 /\ Header \in Nat /\ Header > 0
  BY Sizes3 DEF Block
<1>2. b.pages > 0 => b.pages * Page \in Nat /\ b.pages * Page > 0
  BY <1>1
<1> QED BY <1>1, <1>2 DEF Words

\* The words of a block of the free list.
LEMMA SmallWords ==
  ASSUME NEW b \in Block, b.pages = 0
  PROVE  Words(b) = b.at .. b.at + Header + b.size - 1
  BY Sizes3 DEF Words, Block

\* A block cut in two.
LEMMA Cut ==
  ASSUME NEW a \in Nat, NEW s \in Nat, NEW n \in Nat, NEW x \in Nat, n <= s
  PROVE  /\ \A w : w \in a .. a + x + s - 1
                   <=> w \in a .. a + x + n - 1 \/ w \in a + x + n .. a + x + s - 1
         /\ (a .. a + x + n - 1) \cap (a + x + n .. a + x + s - 1) = {}
  OBVIOUS

-----------------------------------------------------------------------------
(* Exchanging blocks.                                                       *)

\* Blocks O are replaced by blocks N on the same words.
Swap(B, O, N) ==
  /\ O \subseteq B /\ \A b, c \in N : b # c => Words(b) \cap Words(c) = {}
  /\ \A w : (\E b \in N : w \in Words(b)) <=> (\E b \in O : w \in Words(b))

\* Such an exchange keeps a tiling.
LEMMA Swapped ==
  ASSUME NEW B, NEW O, NEW N, NEW m, NEW n, Tiles(B, m, n), Swap(B, O, N)
  PROVE  Tiles((B \ O) \cup N, m, n)
<1>1. ASSUME NEW b \in B \ O, NEW c \in N PROVE Words(b) \cap Words(c) = {}
  BY DEF Tiles, Swap
<1>2. \A b, c \in (B \ O) \cup N : b # c => Words(b) \cap Words(c) = {}
  BY <1>1 DEF Tiles, Swap
<1>3. \A w : (\E b \in (B \ O) \cup N : w \in Words(b)) <=> (\E b \in B : w \in Words(b))
  BY DEF Swap
<1> QED BY <1>2, <1>3 DEF Tiles

\* A block on words of a block of B is not another block of B.
LEMMA NewBlock ==
  ASSUME NEW B, NEW m, NEW n, Tiles(B, m, n), NEW b \in B, NEW c \in Block,
         Words(c) \subseteq Words(b), c # b
  PROVE  c \notin B
  BY HasWords DEF Tiles

-----------------------------------------------------------------------------
(* The free list.                                                           *)

\* The elements of a concatenation.
LEMMA JoinSeq ==
  ASSUME NEW S, NEW s \in Seq(S), NEW t \in Seq(S)
  PROVE  /\ s \o t \in Seq(S) /\ Len(s \o t) = Len(s) + Len(t)
         /\ \A i \in 1 .. Len(s) + Len(t) :
              (s \o t)[i] = IF i <= Len(s) THEN s[i] ELSE t[i - Len(s)]
OBVIOUS

\* Taking a block off the list (*link = b->next).
LEMMA ListRemove ==
  ASSUME NEW l, NEW S, ListOf(l, S), NEW i \in DOMAIN l
  PROVE  ListOf(Unlinked(l, i), S \ {l[i]})
<1>1. PICK r : r = Unlinked(l, i)
  OBVIOUS
<1>2. l \in Seq(Block) /\ Len(l) \in Nat /\ DOMAIN l = 1 .. Len(l) /\ i \in 1 .. Len(l)
  BY DEF ListOf
<1>3. /\ r \in Seq(Block) /\ Len(r) = Len(l) - 1 /\ DOMAIN r = 1 .. Len(l) - 1
      /\ \A k \in 1 .. Len(l) - 1 : r[k] = IF k < i THEN l[k] ELSE l[k + 1]
  <2>1. PICK x, y : x = SubSeq(l, 1, i - 1) /\ y = SubSeq(l, i + 1, Len(l))
    BY Zenon
  <2>2. x \in Seq(Block) /\ Len(x) = i - 1 /\ \A k \in 1 .. i - 1 : x[k] = l[k]
    BY <1>2, <2>1
  <2>3. /\ y \in Seq(Block) /\ Len(y) = Len(l) - i
        /\ \A k \in 1 .. Len(l) - i : y[k] = l[k + i]
    BY <1>2, <2>1
  <2>4. r = x \o y
    BY <1>1, <2>1 DEF Unlinked
  <2>5. /\ r \in Seq(Block) /\ Len(r) = Len(l) - 1 /\ DOMAIN r = 1 .. Len(l) - 1
        /\ \A k \in 1 .. Len(l) - 1 : r[k] = IF k <= i - 1 THEN x[k] ELSE y[k - (i - 1)]
    <3>1. /\ r \in Seq(Block) /\ Len(r) = Len(x) + Len(y)
          /\ \A k \in 1 .. Len(x) + Len(y) : r[k] = IF k <= Len(x) THEN x[k] ELSE y[k - Len(x)]
      BY Zenon, <2>2, <2>3, <2>4, JoinSeq
    <3>2. Len(x) = i - 1 /\ Len(x) + Len(y) = Len(l) - 1
      BY <1>2, <2>2, <2>3
    <3> QED BY <1>2, <3>1, <3>2
  <2>6. ASSUME NEW k \in 1 .. Len(l) - 1 PROVE r[k] = IF k < i THEN l[k] ELSE l[k + 1]
    <3>1. CASE k < i
      BY <1>2, <2>2, <2>5, <3>1
    <3>2. CASE ~(k < i)
      <4>1. k - (i - 1) \in 1 .. Len(l) - i /\ (k - (i - 1)) + i = k + 1 /\ ~(k <= i - 1)
        BY <1>2, <3>2
      <4> QED BY <2>3, <2>5, <3>2, <4>1
    <3> QED BY <3>1, <3>2
  <2> QED BY <2>5, <2>6
<1>4. Distinct(r)
  <2> SUFFICES ASSUME NEW a \in 1 .. Len(l) - 1, NEW b \in 1 .. Len(l) - 1, a # b PROVE r[a] # r[b]
    BY <1>3 DEF Distinct
  <2>1. PICK x, y \in 1 .. Len(l) : x # y /\ r[a] = l[x] /\ r[b] = l[y]
    <3>1. PICK x \in 1 .. Len(l) : x = (IF a < i THEN a ELSE a + 1) /\ r[a] = l[x]
      BY <1>2, <1>3
    <3>2. PICK y \in 1 .. Len(l) : y = (IF b < i THEN b ELSE b + 1) /\ r[b] = l[y]
      BY <1>2, <1>3
    <3> QED BY <1>2, <3>1, <3>2
  <2> QED BY <1>2, <2>1 DEF ListOf, Distinct
<1>5. ASSUME NEW b PROVE b \in Elems(r) <=> b \in S \ {l[i]}
  <2>1. ASSUME NEW k \in 1 .. Len(l) - 1 PROVE r[k] \in S \ {l[i]}
    <3>1. PICK x \in 1 .. Len(l) : x # i /\ r[k] = l[x]
      <4>1. CASE k < i
        BY <1>2, <1>3, <4>1
      <4>2. CASE ~(k < i)
        <5>1. k + 1 \in 1 .. Len(l) /\ k + 1 # i
          BY <1>2, <4>2
        <5> QED BY <1>3, <4>2, <5>1
      <4> QED BY <4>1, <4>2
    <3> QED BY <1>2, <3>1 DEF ListOf, Distinct, Elems
  <2>2. ASSUME NEW x \in 1 .. Len(l), l[x] # l[i] PROVE l[x] \in Elems(r)
    <3>1. CASE x < i
      BY <1>2, <1>3, <3>1 DEF Elems
    <3>2. CASE x > i
      <4>1. x - 1 \in 1 .. Len(l) - 1 /\ ~(x - 1 < i) /\ (x - 1) + 1 = x
        BY <1>2, <3>2
      <4> QED BY <1>3, <4>1 DEF Elems
    <3>3. x # i
      BY <2>2
    <3> QED BY <1>2, <3>1, <3>2, <3>3
  <2> QED BY <1>2, <1>3, <2>1, <2>2 DEF ListOf, Elems
<1>6. Elems(r) = S \ {l[i]}
  BY <1>5
<1> QED BY <1>1, <1>3, <1>4, <1>6 DEF ListOf

\* Putting a block in the place of another (*link = rest).
LEMMA ListReplace ==
  ASSUME NEW l, NEW S, ListOf(l, S), NEW i \in DOMAIN l, NEW c \in Block, c \notin S \ {l[i]}
  PROVE  ListOf([l EXCEPT ![i] = c], (S \ {l[i]}) \cup {c})
<1>1. PICK r : r = [l EXCEPT ![i] = c]
  BY Zenon
<1>2. l \in Seq(Block) /\ Len(l) \in Nat /\ DOMAIN l = 1 .. Len(l) /\ i \in 1 .. Len(l)
  BY DEF ListOf
<1>3. /\ r \in Seq(Block) /\ DOMAIN r = 1 .. Len(l) /\ r[i] = c
      /\ \A k \in 1 .. Len(l) : k # i => r[k] = l[k]
  BY <1>1, <1>2
<1>4. \A k \in 1 .. Len(l) : k # i => r[k] # c /\ l[k] # l[i] /\ l[k] \in S
  BY <1>2, <1>3 DEF ListOf, Distinct, Elems
<1>5. Distinct(r)
  BY <1>2, <1>3, <1>4 DEF ListOf, Distinct
<1>6. Elems(r) = (S \ {l[i]}) \cup {c}
  BY <1>2, <1>3, <1>4 DEF ListOf, Elems
<1> QED BY Zenon, <1>1, <1>3, <1>5, <1>6 DEF ListOf

\* Linking a block in anywhere (*link = b).
LEMMA ListInsert ==
  ASSUME NEW l, NEW S, ListOf(l, S), NEW i \in 1 .. Len(l) + 1, NEW c \in Block, c \notin S
  PROVE  ListOf(Linked(l, i, c), S \cup {c})
<1>1. PICK r : r = Linked(l, i, c)
  OBVIOUS
<1>2. l \in Seq(Block) /\ Len(l) \in Nat /\ DOMAIN l = 1 .. Len(l) /\ i \in Nat
  BY DEF ListOf
<1>3. /\ r \in Seq(Block) /\ Len(r) = Len(l) + 1 /\ DOMAIN r = 1 .. Len(l) + 1
      /\ \A k \in 1 .. Len(l) + 1 : r[k] = IF k < i THEN l[k] ELSE IF k = i THEN c ELSE l[k - 1]
  <2>1. PICK x, y : x = SubSeq(l, 1, i - 1) /\ y = SubSeq(l, i, Len(l))
    BY Zenon
  <2>2. x \in Seq(Block) /\ Len(x) = i - 1 /\ \A k \in 1 .. i - 1 : x[k] = l[k]
    BY <1>2, <2>1
  <2>3. /\ y \in Seq(Block) /\ Len(y) = Len(l) - i + 1
        /\ \A k \in 1 .. Len(l) - i + 1 : y[k] = l[k + i - 1]
    BY <1>2, <2>1
  <2>4. PICK z : z = x \o <<c>>
    BY Zenon
  <2>5. z \in Seq(Block) /\ Len(z) = i /\ z[i] = c /\ \A k \in 1 .. i - 1 : z[k] = l[k]
    BY <1>2, <2>2, <2>4
  <2>6. r = z \o y
    BY <1>1, <2>1, <2>4 DEF Linked
  <2>7. /\ r \in Seq(Block) /\ Len(r) = Len(l) + 1 /\ DOMAIN r = 1 .. Len(l) + 1
        /\ \A k \in 1 .. Len(l) + 1 : r[k] = IF k <= i THEN z[k] ELSE y[k - i]
    <3>1. /\ r \in Seq(Block) /\ Len(r) = Len(z) + Len(y)
          /\ \A k \in 1 .. Len(z) + Len(y) : r[k] = IF k <= Len(z) THEN z[k] ELSE y[k - Len(z)]
      BY Zenon, <2>3, <2>5, <2>6, JoinSeq
    <3>2. Len(z) = i /\ Len(z) + Len(y) = Len(l) + 1
      BY <1>2, <2>3, <2>5
    <3> QED BY <1>2, <3>1, <3>2
  <2>8. ASSUME NEW k \in 1 .. Len(l) + 1
        PROVE  r[k] = IF k < i THEN l[k] ELSE IF k = i THEN c ELSE l[k - 1]
    <3>1. CASE k <= i
      BY <1>2, <2>5, <2>7, <3>1
    <3>2. CASE ~(k <= i)
      <4>1. k - i \in 1 .. Len(l) - i + 1 /\ (k - i) + i - 1 = k - 1
        BY <1>2, <3>2
      <4> QED BY <1>2, <2>3, <2>7, <3>2, <4>1
    <3> QED BY <3>1, <3>2
  <2> QED BY <2>7, <2>8
<1>4. ASSUME NEW k \in 1 .. Len(l) + 1, k # i
      PROVE  \E x \in 1 .. Len(l) : x = (IF k < i THEN k ELSE k - 1) /\ r[k] = l[x]
  BY <1>2, <1>3, <1>4
<1>5. \A x \in 1 .. Len(l) : l[x] \in S /\ l[x] # c
  BY <1>2 DEF ListOf, Elems
<1>6. Distinct(r)
  <2> SUFFICES ASSUME NEW a \in 1 .. Len(l) + 1, NEW b \in 1 .. Len(l) + 1, a # b PROVE r[a] # r[b]
    BY <1>3 DEF Distinct
  <2>1. CASE a = i
    BY <1>3, <1>4, <1>5, <2>1
  <2>2. CASE b = i
    BY <1>3, <1>4, <1>5, <2>2
  <2>3. CASE a # i /\ b # i
    <3>1. PICK x \in 1 .. Len(l) : x = (IF a < i THEN a ELSE a - 1) /\ r[a] = l[x]
      BY <1>4, <2>3
    <3>2. PICK y \in 1 .. Len(l) : y = (IF b < i THEN b ELSE b - 1) /\ r[b] = l[y]
      BY <1>4, <2>3
    <3>3. x # y
      BY <1>2, <2>3, <3>1, <3>2
    <3> QED BY <1>2, <3>1, <3>2, <3>3 DEF ListOf, Distinct
  <2> QED BY <2>1, <2>2, <2>3
<1>7. ASSUME NEW x \in 1 .. Len(l) PROVE l[x] \in Elems(r)
  <2>1. CASE x < i
    BY <1>2, <1>3, <2>1 DEF Elems
  <2>2. CASE ~(x < i)
    <3>1. x + 1 \in 1 .. Len(l) + 1 /\ ~(x + 1 < i) /\ x + 1 # i /\ (x + 1) - 1 = x
      BY <1>2, <2>2
    <3> QED BY Zenon, <1>3, <3>1 DEF Elems
  <2> QED BY <2>1, <2>2
<1>8. Elems(r) = S \cup {c}
  <2>1. c \in Elems(r)
    BY <1>2, <1>3 DEF Elems
  <2>2. S \subseteq Elems(r)
    BY <1>2, <1>7 DEF ListOf, Elems
  <2>3. Elems(r) \subseteq S \cup {c}
    BY <1>3, <1>4, <1>5 DEF Elems
  <2> QED BY <2>1, <2>2, <2>3
<1> QED BY <1>1, <1>3, <1>6, <1>8 DEF ListOf

\* Linking a block in at the head (g_free = b).
LEMMA ListPrepend ==
  ASSUME NEW l, NEW S, ListOf(l, S), NEW c \in Block, c \notin S
  PROVE  ListOf(<<c>> \o l, S \cup {c})
<1>1. PICK r : r = <<c>> \o l
  BY Zenon
<1>2. l \in Seq(Block) /\ Len(l) \in Nat /\ DOMAIN l = 1 .. Len(l)
  BY DEF ListOf
<1>3. /\ r \in Seq(Block) /\ Len(r) = Len(l) + 1 /\ DOMAIN r = 1 .. Len(l) + 1 /\ r[1] = c
      /\ \A k \in 1 .. Len(l) + 1 : k # 1 => k - 1 \in 1 .. Len(l) /\ r[k] = l[k - 1]
  BY <1>1, <1>2
<1>4. \A x \in 1 .. Len(l) : l[x] \in S /\ l[x] # c
  BY <1>2 DEF ListOf, Elems
<1>5. Distinct(r)
  <2> SUFFICES ASSUME NEW a \in 1 .. Len(l) + 1, NEW b \in 1 .. Len(l) + 1, a # b PROVE r[a] # r[b]
    BY <1>3 DEF Distinct
  <2>1. CASE a = 1 \/ b = 1
    BY <1>3, <1>4, <2>1
  <2>2. CASE a # 1 /\ b # 1
    <3>1. a - 1 \in 1 .. Len(l) /\ b - 1 \in 1 .. Len(l) /\ a - 1 # b - 1
      BY <1>2, <2>2
    <3> QED BY Zenon, <1>2, <1>3, <2>2, <3>1 DEF ListOf, Distinct
  <2> QED BY <2>1, <2>2
<1>6. ASSUME NEW x \in 1 .. Len(l) PROVE l[x] \in Elems(r)
  <2>1. x + 1 \in 1 .. Len(l) + 1 /\ x + 1 # 1 /\ (x + 1) - 1 = x
    BY <1>2
  <2> QED BY Zenon, <1>3, <2>1 DEF Elems
<1>7. Elems(r) = S \cup {c}
  <2>1. c \in Elems(r)
    BY <1>2, <1>3 DEF Elems
  <2>2. S \subseteq Elems(r)
    BY <1>2, <1>6 DEF ListOf, Elems
  <2>3. Elems(r) \subseteq S \cup {c}
    BY <1>3, <1>4 DEF Elems
  <2> QED BY <2>1, <2>2, <2>3
<1> QED BY <1>1, <1>3, <1>5, <1>7 DEF ListOf

-----------------------------------------------------------------------------
(* Pages that join and leave the arena.                                     *)

\* c is pages k .. k + p - 1.
IsPages(c, k, p) ==
  c \in Block /\ \A w \in Nat : w \in Words(c) <=> k <= w \div Page /\ w \div Page < k + p

\* Pages appended to the arena as one block.
LEMMA AddPages ==
  ASSUME NEW B \in SUBSET Block, NEW m \in SUBSET Nat, NEW n \in Nat, Tiles(B, m, n),
         NEW c, NEW p \in Nat, IsPages(c, n, p)
  PROVE  Tiles(B \cup {c}, m \cup (n .. n + p - 1), n + p) /\ c \notin B
<1>1. ASSUME NEW b \in B, NEW w, w \in Words(b)
      PROVE  w \in Nat /\ w \div Page \in Nat /\ w \div Page < n
  <2>1. w \in Nat
    BY <1>1, HasWords
  <2> QED BY <1>1, <2>1, DivModPage DEF Tiles
<1>2. ASSUME NEW b \in B PROVE Words(b) \cap Words(c) = {}
  <2> SUFFICES ASSUME NEW w, w \in Words(b), w \in Words(c) PROVE FALSE
    OBVIOUS
  <2>1. w \in Nat /\ w \div Page \in Nat /\ w \div Page < n
    BY <1>1
  <2>2. n <= w \div Page
    BY <2>1 DEF IsPages
  <2> QED BY <2>1, <2>2
<1>3. c \notin B
  BY <1>2, HasWords DEF IsPages
<1>4. ASSUME NEW w \in Nat
      PROVE  (\E b \in B \cup {c} : w \in Words(b))
             <=> w \div Page \in m \cup (n .. n + p - 1) /\ w \div Page < n + p
  <2>1. PICK q : q = w \div Page
    OBVIOUS
  <2>2. q \in Nat
    BY <2>1, DivModPage
  <2>3. (\E b \in B : w \in Words(b)) <=> q \in m /\ q < n
    BY <2>1 DEF Tiles
  <2>4. w \in Words(c) <=> n <= q /\ q < n + p
    BY <2>1 DEF IsPages
  <2>5. (q \in m /\ q < n) \/ (n <= q /\ q < n + p) <=> q \in m \cup (n .. n + p - 1) /\ q < n + p
    BY <2>2
  <2> QED BY <2>1, <2>3, <2>4, <2>5
<1> QED BY <1>2, <1>3, <1>4 DEF Tiles

\* A multi-page block and its pages leave the arena together.
LEMMA DropPages ==
  ASSUME NEW B \in SUBSET Block, NEW m \in SUBSET Nat, NEW n \in Nat, Tiles(B, m, n),
         NEW c \in B, NEW k \in Nat, NEW p \in Nat, IsPages(c, k, p)
  PROVE  Tiles(B \ {c}, m \ (k .. k + p - 1), n)
<1>1. ASSUME NEW w \in Nat
      PROVE  (\E b \in B \ {c} : w \in Words(b))
             <=> w \div Page \in m \ (k .. k + p - 1) /\ w \div Page < n
  <2>1. PICK q : q = w \div Page
    OBVIOUS
  <2>2. q \in Nat
    BY <2>1, DivModPage
  <2>3. (\E b \in B : w \in Words(b)) <=> q \in m /\ q < n
    BY <2>1 DEF Tiles
  <2>4. w \in Words(c) <=> q \in k .. k + p - 1
    BY <2>1, <2>2 DEF IsPages
  <2>5. (\E b \in B \ {c} : w \in Words(b)) <=> (\E b \in B : w \in Words(b)) /\ w \notin Words(c)
    BY DEF Tiles
  <2> QED BY <2>1, <2>3, <2>4, <2>5
<1>2. \A b, d \in B \ {c} : b # d => Words(b) \cap Words(d) = {}
  BY DEF Tiles
<1> QED BY <1>1, <1>2 DEF Tiles

\* Pages behind the end of the arena are not part of it.
LEMMA MorePages ==
  ASSUME NEW B, NEW m \in SUBSET Nat, NEW n \in Nat, Tiles(B, m, n), NEW k \in Nat
  PROVE  Tiles(B, m \cup (n .. n + k - 1), n)
<1>1. ASSUME NEW w \in Nat
      PROVE  w \div Page \in m \cup (n .. n + k - 1) /\ w \div Page < n
             <=> w \div Page \in m /\ w \div Page < n
  <2>1. w \div Page \in Nat
    BY DivModPage
  <2> QED BY <2>1
<1> QED BY <1>1 DEF Tiles

\* Mapping k pages costs k frames, even if some were mapped before.
LEMMA MapCount ==
  ASSUME NEW m, IsFiniteSet(m), NEW n \in Nat, NEW k \in Nat
  PROVE  /\ IsFiniteSet(m \cup (n .. n + k - 1))
         /\ Cardinality(m \cup (n .. n + k - 1)) \in Nat
         /\ Cardinality(m \cup (n .. n + k - 1)) <= Cardinality(m) + k
<1>1. IsFiniteSet(n .. n + k - 1) /\ Cardinality(n .. n + k - 1) = k
  BY FS_Interval
<1>2. Cardinality(m) \in Nat
  BY FS_CardinalityType
<1>3. IsFiniteSet(m \cap (n .. n + k - 1)) /\ Cardinality(m \cap (n .. n + k - 1)) \in Nat
  BY Zenon, FS_Intersection, FS_CardinalityType
<1>4. /\ IsFiniteSet(m \cup (n .. n + k - 1))
      /\ Cardinality(m \cup (n .. n + k - 1))
           = Cardinality(m) + Cardinality(n .. n + k - 1) - Cardinality(m \cap (n .. n + k - 1))
  BY Zenon, <1>1, FS_Union
<1>5. Cardinality(m \cup (n .. n + k - 1)) \in Nat
  BY <1>4, FS_CardinalityType
<1> QED BY <1>1, <1>2, <1>3, <1>4, <1>5

-----------------------------------------------------------------------------
(* The calls.                                                               *)

\* The fields of a heap.
LEMMA HeapFields ==
  ASSUME NEW h \in HeapRecord
  PROVE  /\ h.free \in Seq(Block) /\ h.next \in Nat /\ h.mapped \in SUBSET Nat /\ h.frames \in Nat
         /\ h = [free |-> h.free, next |-> h.next, mapped |-> h.mapped, frames |-> h.frames]
  BY DEF HeapRecord

\* A heap with other pages mapped.
LEMMA HeapPut ==
  ASSUME NEW h \in HeapRecord, NEW m, NEW f
  PROVE  [h EXCEPT !.mapped = m, !.frames = f]
           = [free |-> h.free, next |-> h.next, mapped |-> m, frames |-> f]
<1>1. PICK a, b, c, d : h = [free |-> a, next |-> b, mapped |-> c, frames |-> d]
  BY HeapFields
<1>2. h.free = a /\ h.next = b
  BY <1>1
<1>3. [h EXCEPT !.mapped = m] = [free |-> a, next |-> b, mapped |-> m, frames |-> d]
  BY <1>1
<1>4. [[h EXCEPT !.mapped = m] EXCEPT !.frames = f]
        = [free |-> a, next |-> b, mapped |-> m, frames |-> f]
  <2>1. PICK g : g = [free |-> a, next |-> b, mapped |-> m, frames |-> d]
    BY Zenon
  <2>2. [g EXCEPT !.frames = f] = [free |-> a, next |-> b, mapped |-> m, frames |-> f]
    BY <2>1
  <2> QED BY Zenon, <1>3, <2>1, <2>2
<1> QED BY <1>2, <1>4

\* Heap g is h with another list, of the blocks D, and other blocks M handed out.
Relisted(h, L, g, D, M) ==
  /\ g \in HeapRecord /\ g.next = h.next /\ g.mapped = h.mapped /\ g.frames = h.frames
  /\ ListOf(g.free, D) /\ M \in SUBSET Block /\ D \cap M = {}
  /\ \A b \in D : b.pages = 0
  /\ \A b \in M : b \in L \/ b.pages = 0
  /\ Tiles(D \cup M, h.mapped, h.next)

\* Blocks exchanged on the same pages leave the heap in order.
LEMMA HeapSame ==
  ASSUME NEW h, NEW L, HeapOK(h, L), NEW g, NEW D, NEW M, Relisted(h, L, g, D, M)
  PROVE  HeapOK(g, M)
<1>1. D = FreeOf(g)
  BY DEF Relisted, ListOf, FreeOf
<1>2. HeapIs(g, D, M)
  <2>1. \A b \in M : b.pages > 0 => \E k \in Nat : b.at = k * Page
    BY DEF Relisted, HeapOK, HeapIs
  <2> QED BY <2>1 DEF Relisted, HeapOK, HeapIs
<1> QED BY <1>1, <1>2 DEF HeapOK

\* The list determines the free blocks.
LEMMA HeapFrom ==
  ASSUME NEW h, NEW F, NEW L, HeapIs(h, F, L)
  PROVE  HeapOK(h, L)
<1>1. F = FreeOf(h)
  BY DEF HeapIs, ListOf, FreeOf
<1> QED BY <1>1 DEF HeapOK

\* The results of a request that the free list can meet.
LEMMA FitOK ==
  ASSUME Stale \subseteq {0}, NEW h, NEW L, HeapOK(h, L), NEW n \in Nat, n > 0,
         NEW i \in Fits(h, n), NEW r, r \in FitAt(h, i, n)
  PROVE  HeapOK(r.heap, L \cup r.got) /\ r.got \cap L = {} /\ r.heap.next = h.next
<1>1. PICK b, F, l : b = h.free[i] /\ F = FreeOf(h) /\ l = h.free
  OBVIOUS
<1>2. h \in HeapRecord /\ HeapIs(h, F, L) /\ ListOf(l, F) /\ l \in Seq(Block)
  BY <1>1 DEF HeapOK, HeapIs, ListOf
<1>3. /\ i \in DOMAIN l /\ b = l[i] /\ b \in F /\ b \in Block
      /\ b.size >= n /\ b.pages = 0 /\ b \notin L
  <2>1. i \in DOMAIN l /\ b = l[i] /\ b.size >= n
    BY <1>1 DEF Fits
  <2>2. b \in F /\ b \in Block
    BY <1>2, <2>1 DEF ListOf, Elems
  <2> QED BY <1>2, <2>1, <2>2 DEF HeapIs
<1>4. CASE ~(b.size >= n + Header + Align)
  <2>1. r = [heap |-> [h EXCEPT !.free = Unlinked(l, i)], got |-> {b}]
    BY <1>1, <1>4 DEF FitAt
  <2>2. PICK g : g = [free |-> Unlinked(l, i), next |-> h.next, mapped |-> h.mapped,
                      frames |-> h.frames]
    BY Zenon
  <2>3. r.heap = g /\ r.got = {b}
    BY <1>2, <2>1, <2>2, HeapFields
  <2>4. ListOf(Unlinked(l, i), F \ {b})
    BY <1>2, <1>3, ListRemove
  <2>5. (F \ {b}) \cup (L \cup {b}) = F \cup L
    BY <1>3
  <2>6. g \in HeapRecord
    BY Zenon, <1>2, <2>2, <2>4, HeapFields DEF HeapRecord, ListOf
  <2>7. /\ g.next = h.next /\ g.mapped = h.mapped /\ g.frames = h.frames
        /\ g.free = Unlinked(l, i)
    BY <2>2
  <2>8. /\ Tiles((F \ {b}) \cup (L \cup {b}), h.mapped, h.next)
        /\ (F \ {b}) \cap (L \cup {b}) = {} /\ L \cup {b} \in SUBSET Block
        /\ \A c \in F \ {b} : c.pages = 0
    <3>1. Tiles(F \cup L, h.mapped, h.next) /\ F \cap L = {} /\ L \in SUBSET Block
      BY <1>2 DEF HeapIs
    <3>2. \A c \in F : c.pages = 0
      BY <1>2 DEF HeapIs
    <3> QED BY Zenon, <1>3, <2>5, <3>1, <3>2
  <2>9. HeapOK(g, L \cup {b})
    <3>1. Relisted(h, L, g, F \ {b}, L \cup {b})
      BY Zenon, <1>3, <2>4, <2>6, <2>7, <2>8 DEF Relisted
    <3> QED BY <3>1, HeapSame
  <2> QED BY <1>3, <2>3, <2>7, <2>9
<1>5. CASE b.size >= n + Header + Align
  <2>1. PICK q \in Stale :
          r = [heap |-> [h EXCEPT !.free[i] = [at |-> b.at + Header + n,
                                               size |-> b.size - n - Header, pages |-> q]],
               got |-> {[b EXCEPT !.size = n]}]
    BY <1>1, <1>5 DEF FitAt
  <2>2. PICK rest, first :
          /\ rest = [at |-> b.at + Header + n, size |-> b.size - n - Header, pages |-> 0]
          /\ first = [at |-> b.at, size |-> n, pages |-> 0]
    BY Zenon
  <2>3. b.at \in Nat /\ b.size \in Nat
    BY <1>3 DEF Block
  <2>4. rest \in Block /\ first \in Block /\ rest # b /\ first # b /\ rest # first
    BY <1>5, <2>2, <2>3, Sizes3 DEF Block
  <2>5. PICK g : g = [free |-> [l EXCEPT ![i] = rest], next |-> h.next, mapped |-> h.mapped,
                      frames |-> h.frames]
    BY Zenon
  <2>6. r.heap = g /\ r.got = {first}
    <3>1. q = 0
      OBVIOUS
    <3>2. [b EXCEPT !.size = n] = first
      BY <1>3, <2>2 DEF Block
    <3>3. r = [heap |-> [h EXCEPT !.free = [l EXCEPT ![i] = rest]], got |-> {first}]
      BY Zenon, <1>1, <2>1, <2>2, <3>1, <3>2
    <3>4. [h EXCEPT !.free = [l EXCEPT ![i] = rest]] = g
      <4>1. PICK x : x = [l EXCEPT ![i] = rest]
        BY Zenon
      <4>2. [h EXCEPT !.free = x] = [free |-> x, next |-> h.next, mapped |-> h.mapped,
                                     frames |-> h.frames]
        BY <1>2 DEF HeapRecord
      <4> QED BY <2>5, <4>1, <4>2
    <3> QED BY <3>3, <3>4
  <2>7. /\ Words(b) = b.at .. b.at + Header + b.size - 1
        /\ Words(first) = b.at .. b.at + Header + n - 1
        /\ Words(rest) = b.at + Header + n .. b.at + Header + b.size - 1
    <3>1. /\ Words(first) = first.at .. first.at + Header + first.size - 1
          /\ Words(rest) = rest.at .. rest.at + Header + rest.size - 1
          /\ Words(b) = b.at .. b.at + Header + b.size - 1
      BY <1>3, <2>2, <2>4, SmallWords
    <3>2. rest.at + Header + rest.size - 1 = b.at + Header + b.size - 1
      BY <2>2, <2>3, Sizes3
    <3> QED BY <2>2, <3>1, <3>2
  <2>8. /\ Words(first) \cap Words(rest) = {}
        /\ \A w : w \in Words(b) <=> w \in Words(first) \/ w \in Words(rest)
    <3>1. n <= b.size /\ Header \in Nat
      BY <1>5, <2>3, Sizes3
    <3>2. PICK a, z \in Nat : a = b.at /\ z = b.size
      BY <2>3
    <3>3. n <= z
      BY <3>1, <3>2
    <3>4. /\ \A w : w \in a .. a + Header + z - 1
                    <=> w \in a .. a + Header + n - 1 \/ w \in a + Header + n .. a + Header + z - 1
          /\ (a .. a + Header + n - 1) \cap (a + Header + n .. a + Header + z - 1) = {}
      BY <3>1, <3>3, Cut
    <3> QED BY <2>7, <3>2, <3>4
  <2>19. Swap(F \cup L, {b}, {first, rest})
    BY <1>3, <2>8 DEF Swap
  <2>9. Tiles(F \cup L, h.mapped, h.next)
    BY <1>2 DEF HeapIs
  <2>10. rest \notin F \cup L /\ first \notin F \cup L
    <3>1. Words(rest) \subseteq Words(b) /\ Words(first) \subseteq Words(b)
      BY <2>8
    <3>2. b \in F \cup L
      BY <1>3
    <3> QED BY <2>4, <2>9, <3>1, <3>2, NewBlock
  <2>11. Tiles(((F \ {b}) \cup {rest}) \cup (L \cup {first}), h.mapped, h.next)
    <3>1. Tiles(((F \cup L) \ {b}) \cup {first, rest}, h.mapped, h.next)
      BY <2>9, <2>19, Swapped
    <3>2. ((F \cup L) \ {b}) \cup {first, rest} = ((F \ {b}) \cup {rest}) \cup (L \cup {first})
      BY <1>3
    <3> QED BY <3>1, <3>2
  <2>12. ListOf([l EXCEPT ![i] = rest], (F \ {b}) \cup {rest})
    BY <1>2, <1>3, <2>4, <2>10, ListReplace
  <2>13. g \in HeapRecord
    BY <1>2, <2>5, <2>12, HeapFields DEF HeapRecord, ListOf
  <2>14. ((F \ {b}) \cup {rest}) \cap (L \cup {first}) = {}
    BY <1>2, <1>3, <2>4, <2>10 DEF HeapIs
  <2>15. rest.pages = 0 /\ first.pages = 0
    BY <2>2
  <2>16. /\ g.next = h.next /\ g.mapped = h.mapped /\ g.frames = h.frames
         /\ g.free = [l EXCEPT ![i] = rest]
    BY <2>5
  <2>17. /\ L \cup {first} \in SUBSET Block /\ \A c \in (F \ {b}) \cup {rest} : c.pages = 0
    BY <1>2, <2>4, <2>15 DEF HeapIs
  <2>18. HeapOK(g, L \cup {first})
    <3>1. ListOf(g.free, (F \ {b}) \cup {rest})
      BY <2>12, <2>16
    <3>2. g.next = h.next /\ g.mapped = h.mapped /\ g.frames = h.frames
      BY <2>16
    <3>3. Relisted(h, L, g, (F \ {b}) \cup {rest}, L \cup {first})
      BY Zenon, <2>11, <2>13, <2>14, <2>15, <2>17, <3>1, <3>2 DEF Relisted
    <3> QED BY <3>3, HeapSame
  <2> QED BY <2>6, <2>10, <2>16, <2>18
<1> QED BY <1>4, <1>5

\* First fit, in the heap as it is.
LEMMA FirstFitOK ==
  ASSUME Stale \subseteq {0}, NEW h, NEW L, HeapOK(h, L), NEW n \in Nat, n > 0,
         NEW r, r \in FirstFit(h, n)
  PROVE  HeapOK(r.heap, L \cup r.got) /\ r.got \cap L = {}
<1>1. PICK i \in Fits(h, n) : r \in FitAt(h, i, n)
  BY DEF FirstFit
<1> QED BY Zenon, <1>1, FitOK

\* heap_grow: the new page is one free block.
LEMMA GrowOK ==
  ASSUME Stale \subseteq {0}, NEW h, NEW L, HeapOK(h, L), h.frames # 0, NEW g \in Grow(h)
  PROVE  HeapOK(g, L)
<1>1. PICK F, l, m, x, f : F = FreeOf(h) /\ l = h.free /\ m = h.mapped /\ x = h.next /\ f = h.frames
  OBVIOUS
<1>2. /\ h \in HeapRecord /\ ListOf(l, F) /\ l \in Seq(Block) /\ F \in SUBSET Block
      /\ m \in SUBSET Nat /\ x \in Nat /\ f \in Nat /\ f > 0
  <2>1. h \in HeapRecord /\ ListOf(l, F)
    BY <1>1 DEF HeapOK, HeapIs
  <2>2. F \in SUBSET Block
    BY <2>1 DEF ListOf, Elems
  <2> QED BY <1>1, <2>1, <2>2, HeapFields DEF ListOf
<1>3. /\ L \in SUBSET Block /\ F \cap L = {} /\ Tiles(F \cup L, m, x)
      /\ IsFiniteSet(m) /\ f + Cardinality(m) <= MaxPages
      /\ \A b \in F : b.pages = 0
      /\ \A b \in L : b.pages > 0 => \E k \in Nat : b.at = k * Page
  BY <1>1 DEF HeapOK, HeapIs
<1>4. PICK c : c = [at |-> x * Page, size |-> Page - Header, pages |-> 0]
  BY Zenon
<1>5. g = [free |-> <<c>> \o l, next |-> x + 1, mapped |-> m \cup {x}, frames |-> f - 1]
  <2>1. PICK q \in Stale :
          g = [h EXCEPT !.free = <<[at |-> h.next * Page, size |-> Page - Header,
                                    pages |-> q]>> \o @,
                        !.mapped = @ \cup {h.next}, !.next = @ + 1, !.frames = @ - 1]
    BY Zenon DEF Grow
  <2>2. q = 0
    OBVIOUS
  <2> QED BY Zenon, <1>1, <1>2, <1>4, <2>1, <2>2 DEF HeapRecord
<1>6. IsPages(c, x, 1)
  <2>1. x * Page \in Nat /\ Page - Header \in Nat /\ Page \in Nat /\ Header \in Nat
    BY <1>2, Sizes3
  <2>2. c \in Block /\ c.pages = 0 /\ c.at = x * Page /\ c.size = Page - Header
    BY <1>4, <2>1 DEF Block
  <2>3. Words(c) = x * Page .. x * Page + 1 * Page - 1
    <3>1. Words(c) = c.at .. c.at + Header + c.size - 1
      BY <2>2, SmallWords
    <3>2. c.at + Header + c.size - 1 = x * Page + 1 * Page - 1
      BY <2>1, <2>2
    <3> QED BY <2>2, <3>1, <3>2
  <2>4. \A w \in Nat : w \in x * Page .. x * Page + 1 * Page - 1
                       <=> x <= w \div Page /\ w \div Page < x + 1
    BY <1>2, WholePages
  <2> QED BY <2>2, <2>3, <2>4 DEF IsPages
<1>7. m \cup {x} = m \cup (x .. x + 1 - 1) /\ x + 1 \in Nat
  BY <1>2
<1>8. Tiles((F \cup L) \cup {c}, m \cup {x}, x + 1) /\ c \notin F \cup L
  BY <1>2, <1>3, <1>6, <1>7, AddPages
<1>9. /\ IsFiniteSet(m \cup {x})
      /\ Cardinality(m \cup {x}) \in Nat /\ Cardinality(m \cup {x}) <= Cardinality(m) + 1
  BY Zenon, <1>2, <1>3, <1>7, MapCount
<1>10. ListOf(<<c>> \o l, F \cup {c})
  BY <1>2, <1>6, <1>8, ListPrepend DEF IsPages
<1>11. PICK k : k = <<c>> \o l
  BY Zenon
<1>12. g \in HeapRecord /\ g.free = k /\ g.next = x + 1 /\ g.mapped = m \cup {x} /\ g.frames = f - 1
  <2>1. k \in Seq(Block) /\ x + 1 \in Nat /\ m \cup {x} \in SUBSET Nat /\ f - 1 \in Nat
    BY <1>2, <1>10, <1>11 DEF ListOf
  <2> QED BY <1>5, <1>11, <2>1 DEF HeapRecord
<1>13. (F \cup L) \cup {c} = (F \cup {c}) \cup L /\ (F \cup {c}) \cap L = {}
  BY <1>3, <1>8
<1>14. (f - 1) + Cardinality(m \cup {x}) <= MaxPages
  <2>1. Cardinality(m) \in Nat
    BY <1>3, FS_CardinalityType
  <2> QED BY <1>2, <1>3, <1>9, <2>1, Sizes3
<1>15. \A b \in F \cup {c} : b.pages = 0
  BY <1>3, <1>4
<1>16. HeapIs(g, F \cup {c}, L)
  <2>1. ListOf(g.free, F \cup {c})
    BY Zenon, <1>10, <1>11, <1>12
  <2>2. IsFiniteSet(g.mapped) /\ g.frames + Cardinality(g.mapped) <= MaxPages
    BY <1>9, <1>12, <1>14
  <2>3. Tiles((F \cup {c}) \cup L, g.mapped, g.next)
    BY <1>8, <1>12, <1>13
  <2> QED BY Zenon, <1>3, <1>12, <1>13, <1>15, <2>1, <2>2, <2>3 DEF HeapIs
<1> QED BY <1>16, HeapFrom

\* Whole pages: all of them, or the ones there were frames for, beyond the end
\* of the arena.
LEMMA LargeOK ==
  ASSUME NEW h, NEW L, HeapOK(h, L), NEW n \in Nat, n > 0, NEW r, r = LargeAlloc(h, n)
  PROVE  HeapOK(r.heap, L \cup r.got) /\ r.got \cap L = {}
<1>1. PICK F, l, m, x, f : F = FreeOf(h) /\ l = h.free /\ m = h.mapped /\ x = h.next /\ f = h.frames
  OBVIOUS
<1>2. /\ h \in HeapRecord /\ ListOf(l, F) /\ l \in Seq(Block) /\ F \in SUBSET Block
      /\ m \in SUBSET Nat /\ x \in Nat /\ f \in Nat
  <2>1. h \in HeapRecord /\ ListOf(l, F)
    BY <1>1 DEF HeapOK, HeapIs
  <2>2. F \in SUBSET Block
    BY <2>1 DEF ListOf, Elems
  <2> QED BY <1>1, <2>1, <2>2, HeapFields DEF ListOf
<1>3. /\ L \in SUBSET Block /\ F \cap L = {} /\ Tiles(F \cup L, m, x)
      /\ IsFiniteSet(m) /\ f + Cardinality(m) <= MaxPages
      /\ \A b \in F : b.pages = 0
      /\ \A b \in L : b.pages > 0 => \E k \in Nat : b.at = k * Page
  BY <1>1 DEF HeapOK, HeapIs
<1>4. PICK p : p = (n + Header + Page - 1) \div Page
  OBVIOUS
<1>5. p \in Nat /\ p > 0
  <2>1. PICK s \in Nat : s = n + Header + Page - 1 /\ s >= Page
    BY Sizes3
  <2>2. p = s \div Page
    BY <1>4, <2>1
  <2>3. p \in Nat /\ s < p * Page + Page
    BY <2>2, DivModPage
  <2>4. p # 0
    BY <2>1, <2>3, Sizes3
  <2> QED BY <2>3, <2>4
<1>6. PICK d : d = IF p <= f THEN p ELSE f
  OBVIOUS
<1>7. d \in Nat /\ d <= f /\ d <= p
  BY <1>2, <1>5, <1>6
<1>8. PICK m2 : m2 = m \cup (x .. x + d - 1)
  BY Zenon
<1>9. m2 \in SUBSET Nat /\ IsFiniteSet(m2) /\ (f - d) + Cardinality(m2) <= MaxPages /\ f - d \in Nat
  <2>1. /\ IsFiniteSet(m2) /\ Cardinality(m2) \in Nat /\ Cardinality(m2) <= Cardinality(m) + d
    BY Zenon, <1>2, <1>3, <1>7, <1>8, MapCount
  <2>2. Cardinality(m) \in Nat
    BY <1>3, FS_CardinalityType
  <2>3. m2 \in SUBSET Nat
    BY <1>2, <1>7, <1>8
  <2> QED BY <1>2, <1>3, <1>7, <2>1, <2>2, <2>3, Sizes3
<1>10. [h EXCEPT !.mapped = @ \cup (h.next .. h.next + d - 1), !.frames = @ - d]
         = [free |-> l, next |-> x, mapped |-> m2, frames |-> f - d]
  <2>1. [h EXCEPT !.mapped = m2, !.frames = f - d]
          = [free |-> l, next |-> x, mapped |-> m2, frames |-> f - d]
    BY Zenon, <1>1, <1>2, HeapPut
  <2>2. h.mapped \cup (h.next .. h.next + d - 1) = m2 /\ h.frames - d = f - d
    BY <1>1, <1>8
  <2> QED BY Zenon, <2>1, <2>2
<1>11. CASE d < p
  <2>1. r = [heap |-> [free |-> l, next |-> x, mapped |-> m2, frames |-> f - d], got |-> {}]
    <3>1. r = Failed([h EXCEPT !.mapped = @ \cup (h.next .. h.next + d - 1), !.frames = @ - d])
      BY <1>1, <1>4, <1>6, <1>11 DEF LargeAlloc
    <3> QED BY Zenon, <1>10, <3>1 DEF Failed
  <2>2. PICK g : g = r.heap
    OBVIOUS
  <2>3. g \in HeapRecord /\ g.free = l /\ g.next = x /\ g.mapped = m2 /\ g.frames = f - d
    BY <1>2, <1>9, <2>1, <2>2 DEF HeapRecord
  <2>4. Tiles(F \cup L, m2, x)
    BY Zenon, <1>2, <1>3, <1>7, <1>8, MorePages
  <2>5. HeapIs(g, F, L)
    BY Zenon, <1>2, <1>3, <1>9, <2>3, <2>4 DEF HeapIs
  <2>6. r.got = {}
    BY <2>1
  <2> QED BY <2>2, <2>5, <2>6, HeapFrom
<1>12. CASE ~(d < p)
  <2>1. d = p
    BY <1>5, <1>7, <1>12
  <2>2. PICK c : c = [at |-> x * Page, size |-> n, pages |-> p]
    BY Zenon
  <2>3. r = [heap |-> [free |-> l, next |-> x + p, mapped |-> m2, frames |-> f - d], got |-> {c}]
    <3>1. PICK h2 : h2 = [h EXCEPT !.mapped = @ \cup (h.next .. h.next + d - 1), !.frames = @ - d]
      OBVIOUS
    <3>2. r = [heap |-> [h2 EXCEPT !.next = @ + p],
               got |-> {[at |-> h.next * Page, size |-> n, pages |-> p]}]
      BY <1>1, <1>4, <1>6, <1>12, <3>1 DEF LargeAlloc
    <3>3. h2 = [free |-> l, next |-> x, mapped |-> m2, frames |-> f - d]
      BY <1>10, <3>1
    <3>4. [h2 EXCEPT !.next = @ + p] = [free |-> l, next |-> x + p, mapped |-> m2, frames |-> f - d]
      BY <3>3
    <3> QED BY Zenon, <1>1, <2>2, <3>2, <3>4
  <2>4. PICK g : g = r.heap
    OBVIOUS
  <2>5. g \in HeapRecord /\ g.free = l /\ g.next = x + p /\ g.mapped = m2 /\ g.frames = f - d
    <3>1. x + p \in Nat
      BY <1>2, <1>5
    <3> QED BY <1>2, <1>9, <2>3, <2>4, <3>1 DEF HeapRecord
  <2>6. IsPages(c, x, p)
    <3>1. x * Page \in Nat
      BY <1>2, Sizes3
    <3>2. c \in Block /\ c.pages = p /\ c.at = x * Page
      BY <1>5, <2>2, <3>1 DEF Block
    <3>3. Words(c) = x * Page .. x * Page + p * Page - 1
      BY <1>5, <3>2 DEF Words
    <3>4. \A w \in Nat : w \in x * Page .. x * Page + p * Page - 1
                         <=> x <= w \div Page /\ w \div Page < x + p
      BY <1>2, <1>5, WholePages
    <3> QED BY <3>2, <3>3, <3>4 DEF IsPages
  <2>7. Tiles((F \cup L) \cup {c}, m2, x + p) /\ c \notin F \cup L
    <3>1. m2 = m \cup (x .. x + p - 1)
      BY <1>8, <2>1
    <3>2. F \cup L \in SUBSET Block
      BY <1>2, <1>3
    <3> QED BY Zenon, <1>2, <1>3, <1>5, <2>6, <3>1, <3>2, AddPages
  <2>8. /\ (F \cup L) \cup {c} = F \cup (L \cup {c}) /\ F \cap (L \cup {c}) = {}
        /\ L \cup {c} \in SUBSET Block
    BY <1>3, <2>6, <2>7 DEF IsPages
  <2>9. \A b \in L \cup {c} : b.pages > 0 => \E k \in Nat : b.at = k * Page
    <3>1. c.at = x * Page
      BY <2>2
    <3> QED BY <1>2, <1>3, <3>1
  <2>10. HeapIs(g, F, L \cup {c})
    <3>1. ListOf(g.free, F) /\ IsFiniteSet(g.mapped) /\ g.frames + Cardinality(g.mapped) <= MaxPages
      BY <1>2, <1>9, <2>5
    <3>2. Tiles(F \cup (L \cup {c}), g.mapped, g.next)
      BY <2>5, <2>7, <2>8
    <3> QED BY <1>3, <2>5, <2>8, <2>9, <3>1, <3>2 DEF HeapIs
  <2>11. r.got = {c}
    BY <2>3
  <2> QED BY <2>4, <2>7, <2>10, <2>11, HeapFrom
<1> QED BY <1>11, <1>12

\* A request is for at least one word.
LEMMA RequestOK ==
  ASSUME NEW n \in Nat
  PROVE  AlignUp(n) \in Nat /\ Request(n) \in Nat /\ Request(n) > 0
<1>1. ASSUME NEW k \in Nat PROVE AlignUp(k) \in Nat /\ (k > 0 => AlignUp(k) > 0)
  <2>1. PICK s \in Nat : s = k + Align - 1 /\ (k > 0 => s >= Align)
    BY Sizes3
  <2>2. PICK d : d = s \div Align
    OBVIOUS
  <2>3. Align \in Nat \ {0}
    BY Sizes3
  <2>4. d \in Nat /\ s < d * Align + Align
    BY <2>2, <2>3
  <2>5. k > 0 => d > 0
    BY <2>1, <2>3, <2>4
  <2>6. d * Align \in Nat /\ (d > 0 => d * Align > 0)
    BY <2>3, <2>4
  <2>7. AlignUp(k) = d * Align
    BY <2>1, <2>2 DEF AlignUp
  <2> QED BY <2>5, <2>6, <2>7
<1> QED BY <1>1, Sizes3 DEF Request

\* kmalloc, whichever way it finds a block or fails: what it hands out was
\* handed out to nobody else.
LEMMA KmallocOK ==
  ASSUME Stale \subseteq {0}, NEW h, NEW L, HeapOK(h, L), NEW size \in Nat,
         NEW r \in KmallocResults(h, size)
  PROVE  HeapOK(r.heap, L \cup r.got) /\ r.got \cap L = {}
<1>1. PICK n : n = Request(size)
  OBVIOUS
<1>2. n \in Nat /\ n > 0
  BY <1>1, RequestOK
<1>3. CASE n > Page - Header
  <2>1. r = LargeAlloc(h, n)
    BY <1>1, <1>3 DEF KmallocResults
  <2> QED BY <1>2, <2>1, LargeOK
<1>4. CASE ~(n > Page - Header) /\ Fits(h, n) # {}
  <2>1. r \in FirstFit(h, n)
    BY <1>1, <1>4 DEF KmallocResults
  <2> QED BY Zenon, <1>2, <2>1, FirstFitOK
<1>5. CASE ~(n > Page - Header) /\ Fits(h, n) = {} /\ h.frames = 0
  <2>1. r = Failed(h)
    BY <1>1, <1>5 DEF KmallocResults
  <2>2. r.heap = h /\ r.got = {}
    BY <2>1 DEF Failed
  <2> QED BY <2>2
<1>6. CASE ~(n > Page - Header) /\ Fits(h, n) = {} /\ h.frames # 0
  <2>1. PICK g \in Grow(h) : r \in FirstFit(g, n)
    BY <1>1, <1>6 DEF KmallocResults
  <2>2. HeapOK(g, L)
    BY <1>6, <2>1, GrowOK
  <2> QED BY Zenon, <1>2, <2>1, <2>2, FirstFitOK
<1> QED BY <1>3, <1>4, <1>5, <1>6

\* kfree of a multi-page block: its pages leave the arena, and their frames go
\* back.
LEMMA FreePagesOK ==
  ASSUME NEW h, NEW L, HeapOK(h, L), NEW b \in L, b.pages > 0, NEW g, g = FreePages(h, b)
  PROVE  HeapOK(g, L \ {b}) /\ g.next = h.next
<1>1. PICK F, l, m, x, f : F = FreeOf(h) /\ l = h.free /\ m = h.mapped /\ x = h.next /\ f = h.frames
  OBVIOUS
<1>2. /\ h \in HeapRecord /\ ListOf(l, F) /\ l \in Seq(Block) /\ F \in SUBSET Block
      /\ m \in SUBSET Nat /\ x \in Nat /\ f \in Nat
  <2>1. h \in HeapRecord /\ ListOf(l, F)
    BY <1>1 DEF HeapOK, HeapIs
  <2>2. F \in SUBSET Block
    BY <2>1 DEF ListOf, Elems
  <2> QED BY <1>1, <2>1, <2>2, HeapFields DEF ListOf
<1>3. /\ L \in SUBSET Block /\ F \cap L = {} /\ Tiles(F \cup L, m, x)
      /\ IsFiniteSet(m) /\ f + Cardinality(m) <= MaxPages
      /\ \A c \in F : c.pages = 0
      /\ \A c \in L : c.pages > 0 => \E k \in Nat : c.at = k * Page
  BY <1>1 DEF HeapOK, HeapIs
<1>4. PICK k \in Nat : b.at = k * Page
  BY <1>3
<1>5. PICK p \in Nat : p = b.pages /\ p > 0
  BY <1>3 DEF Block
<1>6. b.at \div Page = k
  <2>1. Page \in Nat \ {0} /\ k * Page \in Nat
    BY Sizes3
  <2>2. k * Page \in k * Page .. k * Page + 1 * Page - 1
    BY <2>1
  <2>3. k <= (k * Page) \div Page /\ (k * Page) \div Page < k + 1
    BY <2>1, <2>2, WholePages
  <2>4. (k * Page) \div Page \in Nat
    BY <2>1, DivModPage
  <2> QED BY <1>4, <2>3, <2>4
<1>7. {b.at \div Page + i : i \in 0 .. b.pages - 1} = k .. k + p - 1
  <2>1. {k + i : i \in 0 .. p - 1} = k .. k + p - 1
    <3>1. ASSUME NEW y \in k .. k + p - 1 PROVE y - k \in 0 .. p - 1 /\ k + (y - k) = y
      BY <1>5
    <3> QED BY <1>5, <3>1
  <2> QED BY <1>5, <1>6, <2>1
<1>8. PICK q : q = (k .. k + p - 1) \cap m
  BY Zenon
<1>9. PICK m2 : m2 = m \ (k .. k + p - 1)
  BY Zenon
<1>10. g = [free |-> l, next |-> x, mapped |-> m2, frames |-> f + Cardinality(q)]
  <2>1. m \ q = m2
    BY <1>8, <1>9
  <2>2. g = [h EXCEPT !.mapped = @ \ q, !.frames = @ + Cardinality(q)]
    BY Zenon, <1>1, <1>7, <1>8 DEF FreePages
  <2>3. [h EXCEPT !.mapped = m2, !.frames = f + Cardinality(q)]
          = [free |-> l, next |-> x, mapped |-> m2, frames |-> f + Cardinality(q)]
    BY Zenon, <1>1, <1>2, HeapPut
  <2>4. h.mapped \ q = m2 /\ h.frames + Cardinality(q) = f + Cardinality(q)
    BY <1>1, <2>1
  <2> QED BY Zenon, <2>2, <2>3, <2>4
<1>11. /\ IsFiniteSet(m2) /\ Cardinality(q) \in Nat /\ Cardinality(m2) \in Nat
       /\ Cardinality(m2) = Cardinality(m) - Cardinality(q)
  <2>1. q = m \cap (k .. k + p - 1)
    BY <1>8
  <2>2. IsFiniteSet(q)
    BY Zenon, <1>3, <2>1, FS_Intersection
  <2>3. IsFiniteSet(m2) /\ Cardinality(m2) = Cardinality(m) - Cardinality(q)
    BY Zenon, <1>3, <1>9, <2>1, FS_Difference
  <2> QED BY <2>2, <2>3, FS_CardinalityType
<1>12. f + Cardinality(q) \in Nat /\ (f + Cardinality(q)) + Cardinality(m2) <= MaxPages
  <2>1. Cardinality(m) \in Nat
    BY <1>3, FS_CardinalityType
  <2> QED BY <1>2, <1>3, <1>11, <2>1, Sizes3
<1>13. /\ g \in HeapRecord /\ g.free = l /\ g.next = x /\ g.mapped = m2
       /\ g.frames = f + Cardinality(q)
  <2>1. m2 \in SUBSET Nat
    BY <1>2, <1>9
  <2> QED BY <1>2, <1>10, <1>12, <2>1 DEF HeapRecord
<1>14. IsPages(b, k, p)
  <2>1. b \in Block
    BY <1>3
  <2>2. Words(b) = k * Page .. k * Page + p * Page - 1
    BY <1>4, <1>5 DEF Words
  <2>3. \A w \in Nat : w \in k * Page .. k * Page + p * Page - 1
                       <=> k <= w \div Page /\ w \div Page < k + p
    BY WholePages
  <2> QED BY <2>1, <2>2, <2>3 DEF IsPages
<1>15. Tiles((F \cup L) \ {b}, m2, x)
  <2>1. b \in F \cup L /\ F \cup L \in SUBSET Block
    BY <1>2, <1>3
  <2> QED BY <1>2, <1>3, <1>9, <1>14, <2>1, DropPages
<1>16. (F \cup L) \ {b} = F \cup (L \ {b}) /\ F \cap (L \ {b}) = {} /\ L \ {b} \in SUBSET Block
  BY <1>3
<1>17. HeapIs(g, F, L \ {b})
  <2>1. ListOf(g.free, F) /\ IsFiniteSet(g.mapped) /\ g.frames + Cardinality(g.mapped) <= MaxPages
    BY <1>2, <1>11, <1>12, <1>13
  <2>2. Tiles(F \cup (L \ {b}), g.mapped, g.next)
    BY <1>13, <1>15, <1>16
  <2> QED BY <1>3, <1>13, <1>16, <2>1, <2>2 DEF HeapIs
<1> QED BY <1>1, <1>13, <1>17, HeapFrom

\* kfree of a small block: it joins the list, alone or with the block behind it.
LEMMA FreeSmallOK ==
  ASSUME NEW h, NEW L, HeapOK(h, L), NEW b \in L, b.pages = 0, NEW g, g = FreeSmall(h, b)
  PROVE  HeapOK(g, L \ {b}) /\ g.next = h.next
<1>1. PICK F, l, i : F = FreeOf(h) /\ l = h.free /\ i = InsertPos(h.free, b)
  OBVIOUS
<1>2. h \in HeapRecord /\ ListOf(l, F) /\ l \in Seq(Block) /\ F \in SUBSET Block
  <2>1. h \in HeapRecord /\ ListOf(l, F)
    BY <1>1 DEF HeapOK, HeapIs
  <2>2. F \in SUBSET Block
    BY <2>1 DEF ListOf, Elems
  <2> QED BY <2>1, <2>2 DEF ListOf
<1>3. /\ L \in SUBSET Block /\ F \cap L = {} /\ Tiles(F \cup L, h.mapped, h.next)
      /\ \A c \in F : c.pages = 0
  BY <1>1 DEF HeapOK, HeapIs
<1>4. b \in Block /\ b \notin F
  BY <1>3
<1>5. i \in 1 .. Len(l) + 1
  <2>1. PICK S : S = {j \in DOMAIN l : \A k \in 1 .. j : l[k].at < b.at}
    BY Zenon
  <2>2. Len(l) \in Nat /\ DOMAIN l = 1 .. Len(l)
    BY <1>2
  <2>3. S \in SUBSET (1 .. Len(l))
    BY <2>1, <2>2
  <2>4. IsFiniteSet(1 .. Len(l)) /\ Cardinality(1 .. Len(l)) = Len(l)
    <3>1. PICK e \in Nat : e = Len(l)
      BY Zenon, <2>2
    <3>2. IsFiniteSet(1 .. e) /\ Cardinality(1 .. e) = IF 1 > e THEN 0 ELSE e - 1 + 1
      BY FS_Interval
    <3> QED BY <3>1, <3>2
  <2>5. IsFiniteSet(S) /\ Cardinality(S) <= Len(l)
    BY Zenon, <2>3, <2>4, FS_Subset
  <2>6. Cardinality(S) \in Nat
    BY <2>5, FS_CardinalityType
  <2>7. i = Cardinality(S) + 1
    BY <1>1, <2>1 DEF InsertPos
  <2> QED BY <2>2, <2>5, <2>6, <2>7
<1>6. CASE i \in DOMAIN l /\ b.at + Header + b.size = l[i].at
  <2>1. PICK c : c = l[i]
    OBVIOUS
  <2>2. c \in F /\ c \in Block /\ c # b /\ c.pages = 0 /\ i \in DOMAIN l /\ c \notin L
    BY <1>2, <1>3, <1>4, <1>6, <2>1 DEF ListOf, Elems
  <2>3. /\ b.at \in Nat /\ b.size \in Nat /\ c.at \in Nat /\ c.size \in Nat
        /\ b.at + Header + b.size = c.at /\ Header \in Nat
    BY <1>4, <1>6, <2>1, <2>2, Sizes3 DEF Block
  <2>4. PICK d : d = [at |-> b.at, size |-> b.size + Header + c.size, pages |-> 0]
    BY Zenon
  <2>5. d \in Block /\ d # b
    BY <2>3, <2>4, Sizes3 DEF Block
  <2>6. PICK n : n = [l EXCEPT ![i] = d]
    BY Zenon
  <2>7. g = [free |-> n, next |-> h.next, mapped |-> h.mapped, frames |-> h.frames]
    <3>1. [b EXCEPT !.size = @ + Header + c.size] = d
      BY <1>4, <2>4 DEF Block
    <3>2. g = [h EXCEPT !.free[i] = [b EXCEPT !.size = @ + Header + c.size]]
      BY <1>1, <1>6, <2>1 DEF FreeSmall
    <3>3. g = [h EXCEPT !.free = n]
      BY <1>1, <2>6, <3>1, <3>2
    <3> QED BY <1>2, <3>3 DEF HeapRecord
  <2>8. /\ \A w : w \in Words(d) <=> w \in Words(b) \/ w \in Words(c)
    <3>1. PICK a, z, y, x \in Nat :
            a = b.at /\ y = b.size /\ x = c.size /\ z = b.size + Header + c.size
      BY <2>3
    <3>2. y <= z /\ Header \in Nat
      BY <3>1, Sizes3
    <3>3. \A w : w \in a .. a + Header + z - 1
                 <=> w \in a .. a + Header + y - 1 \/ w \in a + Header + y .. a + Header + z - 1
      BY <3>2, Cut
    <3>4. Words(b) = a .. a + Header + y - 1
      BY <1>4, <3>1, SmallWords
    <3>5. Words(d) = a .. a + Header + z - 1
      BY <2>4, <2>5, <3>1, SmallWords
    <3>6. Words(c) = a + Header + y .. a + Header + z - 1
      <4>1. Words(c) = c.at .. c.at + Header + c.size - 1
        BY <2>2, SmallWords
      <4>2. c.at = a + Header + y /\ c.at + Header + c.size - 1 = a + Header + z - 1
        BY <2>3, <3>1
      <4> QED BY <4>1, <4>2
    <3> QED BY <3>3, <3>4, <3>5, <3>6
  <2>9. Swap(F \cup L, {b, c}, {d})
    BY <2>2, <2>8 DEF Swap
  <2>10. Tiles(((F \cup L) \ {b, c}) \cup {d}, h.mapped, h.next)
    BY <1>3, <2>9, Swapped
  <2>11. d \notin (F \cup L) \ {b, c}
    <3> SUFFICES ASSUME d \in F \cup L, d # b, d # c PROVE FALSE
      OBVIOUS
    <3>1. Words(d) \cap Words(b) = {}
      BY <1>3 DEF Tiles
    <3>2. b.at \in Words(b)
      BY <1>4, HasWords
    <3> QED BY <2>8, <3>1, <3>2
  <2>12. ListOf(n, (F \ {c}) \cup {d})
    <3>1. d \notin F \ {c}
      BY <1>4, <2>5, <2>11
    <3> QED BY Zenon, <1>2, <2>1, <2>2, <2>5, <2>6, <3>1, ListReplace
  <2>13. ((F \cup L) \ {b, c}) \cup {d} = ((F \ {c}) \cup {d}) \cup (L \ {b})
    BY <1>4, <2>2
  <2>14. ((F \ {c}) \cup {d}) \cap (L \ {b}) = {}
    BY <1>3, <2>2, <2>11
  <2>15. /\ g \in HeapRecord /\ g.free = n
         /\ g.next = h.next /\ g.mapped = h.mapped /\ g.frames = h.frames
    <3>1. n \in Seq(Block)
      BY <2>12 DEF ListOf
    <3> QED BY <1>2, <2>7, <3>1 DEF HeapRecord
  <2>16. /\ L \ {b} \in SUBSET Block /\ \A e \in (F \ {c}) \cup {d} : e.pages = 0
    BY <1>3, <2>4
  <2>17. Relisted(h, L, g, (F \ {c}) \cup {d}, L \ {b})
    <3>1. ListOf(g.free, (F \ {c}) \cup {d})
      BY <2>12, <2>15
    <3>2. Tiles(((F \ {c}) \cup {d}) \cup (L \ {b}), h.mapped, h.next)
      BY <2>10, <2>13
    <3> QED BY Zenon, <2>14, <2>15, <2>16, <3>1, <3>2 DEF Relisted
  <2> QED BY <2>15, <2>17, HeapSame
<1>7. CASE ~(i \in DOMAIN l /\ b.at + Header + b.size = l[i].at)
  <2>1. PICK n : n = Linked(l, i, b)
    OBVIOUS
  <2>2. g = [free |-> n, next |-> h.next, mapped |-> h.mapped, frames |-> h.frames]
    <3>1. g = [h EXCEPT !.free = Linked(@, i, b)]
      BY <1>1, <1>7 DEF FreeSmall
    <3>2. g = [h EXCEPT !.free = n]
      BY <1>1, <2>1, <3>1
    <3> QED BY <1>2, <3>2 DEF HeapRecord
  <2>3. ListOf(n, F \cup {b})
    BY <1>2, <1>4, <1>5, <2>1, ListInsert
  <2>4. /\ g \in HeapRecord /\ g.free = n
        /\ g.next = h.next /\ g.mapped = h.mapped /\ g.frames = h.frames
    <3>1. n \in Seq(Block)
      BY <2>3 DEF ListOf
    <3> QED BY <1>2, <2>2, <3>1 DEF HeapRecord
  <2>5. /\ (F \cup {b}) \cup (L \ {b}) = F \cup L /\ (F \cup {b}) \cap (L \ {b}) = {}
        /\ L \ {b} \in SUBSET Block /\ \A e \in F \cup {b} : e.pages = 0
    BY <1>3
  <2>6. Relisted(h, L, g, F \cup {b}, L \ {b})
    <3>1. ListOf(g.free, F \cup {b})
      BY <2>3, <2>4
    <3>2. Tiles((F \cup {b}) \cup (L \ {b}), h.mapped, h.next)
      BY <1>3, <2>5
    <3> QED BY Zenon, <2>4, <2>5, <3>1, <3>2 DEF Relisted
  <2> QED BY <2>4, <2>6, HeapSame
<1> QED BY <1>6, <1>7

\* kfree of a block handed out.
LEMMA KfreeOK ==
  ASSUME NEW h, NEW L, HeapOK(h, L), NEW b \in L, NEW g, g = KfreeResult(h, b)
  PROVE  HeapOK(g, L \ {b}) /\ g.next = h.next
<1>1. b \in Block
  BY DEF HeapOK, HeapIs
<1>2. b.pages \in Nat
  BY <1>1 DEF Block
<1>3. CASE b.pages > 0
  BY <1>3, FreePagesOK DEF KfreeResult
<1>4. CASE b.pages = 0
  BY <1>4, FreeSmallOK DEF KfreeResult
<1> QED BY <1>2, <1>3, <1>4

-----------------------------------------------------------------------------
(* The invariant.                                                           *)

\* kmalloc_init starts with an empty arena.
LEMMA KmInvInit == KmInit => KmInv
<1> SUFFICES ASSUME KmInit PROVE KmInv
  OBVIOUS
<1>1. /\ heap.free = <<>> /\ heap.next = 0 /\ heap.mapped = {} /\ heap.frames = MaxPages
      /\ live = {}
  BY DEF KmInit
<1>2. heap \in HeapRecord
  BY Sizes3 DEF KmInit, HeapRecord
<1>3. ListOf(heap.free, {})
  BY <1>1 DEF ListOf, Distinct, Elems
<1>4. IsFiniteSet({}) /\ Cardinality({}) = 0
  BY FS_EmptySet
<1>5. Tiles({}, {}, 0)
  BY DEF Tiles
<1>6. HeapIs(heap, {}, {})
  BY <1>1, <1>2, <1>3, <1>4, <1>5, Sizes3 DEF HeapIs
<1> QED BY <1>1, <1>6, HeapFrom, Sizes3 DEF KmInv

\* Every call keeps the heap in order; krealloc is a kmalloc and a kfree.
LEMMA KmInvStep ==
  ASSUME Stale \subseteq {0}, KmInv, [KmNext]_kmVars
  PROVE  KmInv'
<1>1. ASSUME NEW size \in Sizes, Kmalloc(size) PROVE KmInv'
  <2>1. size \in Nat
    BY KmallocAssumption
  <2>2. PICK r \in KmallocResults(heap, size) :
          r.heap.next <= MaxArena /\ heap' = r.heap /\ live' = live \cup r.got
    BY <1>1 DEF Kmalloc
  <2>3. HeapOK(r.heap, live \cup r.got)
    BY Zenon, <2>1, KmallocOK DEF KmInv
  <2>4. HeapOK(heap', live') /\ heap'.next <= MaxArena
    BY <2>2, <2>3
  <2> QED BY <2>4 DEF KmInv, HeapOK, HeapIs, FreeOf
<1>2. ASSUME NEW b \in live, Kfree(b) PROVE KmInv'
  <2>1. heap' = KfreeResult(heap, b) /\ live' = live \ {b}
    BY <1>2 DEF Kfree
  <2>2. HeapOK(heap', live \ {b}) /\ heap'.next = heap.next
    BY <2>1, KfreeOK DEF KmInv
  <2>3. HeapOK(heap', live') /\ heap'.next <= MaxArena
    BY <2>1, <2>2 DEF KmInv
  <2> QED BY <2>3 DEF KmInv, HeapOK, HeapIs, FreeOf
<1>3. ASSUME NEW b \in live, NEW size \in Sizes, Krealloc(b, size) PROVE KmInv'
  <2>1. AlignUp(size) \in Nat
    BY KmallocAssumption, RequestOK
  <2>2. PICK r \in KmallocResults(heap, AlignUp(size)) :
          /\ r.heap.next <= MaxArena
          /\ \/ r.got = {} /\ heap' = r.heap /\ live' = live
             \/ heap' = KfreeResult(r.heap, b) /\ live' = (live \ {b}) \cup r.got
    BY <1>3 DEF Krealloc
  <2>3. HeapOK(r.heap, live \cup r.got) /\ r.got \cap live = {}
    BY Zenon, <2>1, KmallocOK DEF KmInv
  <2>4. CASE r.got = {} /\ heap' = r.heap /\ live' = live
    <3>1. live \cup r.got = live
      BY Zenon, <2>4
    <3>2. HeapOK(heap', live') /\ heap'.next <= MaxArena
      BY <2>2, <2>3, <2>4, <3>1
    <3> QED BY <3>2 DEF KmInv, HeapOK, HeapIs, FreeOf
  <2>5. CASE heap' = KfreeResult(r.heap, b) /\ live' = (live \ {b}) \cup r.got
    <3>1. b \in live \cup r.got /\ (live \cup r.got) \ {b} = (live \ {b}) \cup r.got
      BY <2>3
    <3>2. HeapOK(heap', (live \cup r.got) \ {b}) /\ heap'.next = r.heap.next
      BY Zenon, <2>3, <2>5, <3>1, KfreeOK
    <3>3. HeapOK(heap', live') /\ heap'.next <= MaxArena
      BY Zenon, <2>2, <2>5, <3>1, <3>2
    <3> QED BY <3>3 DEF KmInv, HeapOK, HeapIs, FreeOf
  <2> QED BY <2>2, <2>4, <2>5
<1>4. CASE UNCHANGED kmVars
  BY <1>4 DEF KmInv, HeapOK, HeapIs, FreeOf, kmVars
<1> QED BY <1>1, <1>2, <1>3, <1>4 DEF KmNext

\* The heap is in order in every state.
LEMMA KmInvAlways == ASSUME Stale \subseteq {0} PROVE KmSpec => []KmInv
  BY KmInvInit, KmInvStep, PTL DEF KmSpec

\* A heap in order is tiled.
LEMMA KmInvTiled == KmInv => Tiled
<1> SUFFICES ASSUME KmInv PROVE Tiled
  OBVIOUS
<1>1. PICK F, m, x : F = FreeBlocks /\ m = heap.mapped /\ x = heap.next
  OBVIOUS
<1>2. F = FreeOf(heap)
  BY <1>1 DEF FreeBlocks, FreeOf, Elems
<1>3. /\ heap \in HeapRecord /\ Distinct(heap.free) /\ F \in SUBSET Block /\ live \in SUBSET Block
      /\ F \cap live = {} /\ Tiles(F \cup live, m, x)
  <2>1. HeapIs(heap, F, live)
    BY <1>2 DEF KmInv, HeapOK
  <2>2. /\ heap \in HeapRecord /\ ListOf(heap.free, F) /\ live \in SUBSET Block
        /\ F \cap live = {} /\ Tiles(F \cup live, m, x)
    BY Zenon, <1>1, <2>1 DEF HeapIs
  <2>3. Distinct(heap.free) /\ F \in SUBSET Block
    BY <2>2 DEF ListOf, Elems
  <2> QED BY Zenon, <2>2, <2>3
<1>4. m \in SUBSET Nat /\ x \in Nat
  BY <1>1, <1>3, HeapFields
<1>5. PICK A : A = UNION {p * Page .. (p + 1) * Page - 1 : p \in {q \in m : q < x}}
  BY Zenon
<1>6. ASSUME NEW p \in Nat, NEW w
      PROVE  w \in p * Page .. (p + 1) * Page - 1 <=> w \in Nat /\ w \div Page = p
  <2>1. p * Page \in Nat /\ (p + 1) * Page = p * Page + 1 * Page /\ Page \in Nat
    BY Sizes3
  <2>2. w \in p * Page .. (p + 1) * Page - 1 => w \in Nat
    BY <2>1
  <2>3. w \in Nat => (w \in p * Page .. p * Page + 1 * Page - 1
                      <=> p <= w \div Page /\ w \div Page < p + 1)
    BY WholePages
  <2>4. w \in Nat => w \div Page \in Nat
    BY DivModPage
  <2> QED BY <2>1, <2>2, <2>3, <2>4
<1>7. ASSUME NEW w PROVE w \in A <=> w \in Nat /\ w \div Page \in m /\ w \div Page < x
  <2>1. w \in A <=> \E p \in m : p < x /\ w \in p * Page .. (p + 1) * Page - 1
    BY <1>5
  <2> QED BY Zenon, <1>4, <1>6, <2>1
<1>8. ASSUME NEW w
      PROVE  (\E b \in live \cup F : w \in Words(b))
             <=> w \in Nat /\ w \div Page \in m /\ w \div Page < x
  <2>1. (\E b \in live \cup F : w \in Words(b)) => w \in Nat
    BY <1>3, HasWords
  <2> QED BY <1>3, <2>1 DEF Tiles
<1>9. UNION {Words(b) : b \in live \cup F} = A
  BY <1>7, <1>8
<1>10. \A b, c \in live \cup F : b # c => Words(b) \cap Words(c) = {}
  BY <1>3 DEF Tiles
<1>11. \A i, j \in DOMAIN heap.free : i # j => heap.free[i] # heap.free[j]
  BY <1>3 DEF Distinct
<1> QED BY Zenon, <1>1, <1>3, <1>5, <1>9, <1>10, <1>11 DEF Tiled

\* A heap in order keeps the memory of the blocks handed out mapped, and its
\* frames are counted once.
LEMMA KmInvKept == KmInv => MemoryKept
<1> SUFFICES ASSUME KmInv PROVE MemoryKept
  OBVIOUS
<1>1. /\ heap \in HeapRecord /\ live \in SUBSET Block
      /\ Tiles(FreeOf(heap) \cup live, heap.mapped, heap.next)
      /\ IsFiniteSet(heap.mapped) /\ heap.frames + Cardinality(heap.mapped) <= MaxPages
      /\ heap.next <= MaxArena
  BY DEF KmInv, HeapOK, HeapIs
<1>2. /\ heap.free \in Seq(Block) /\ heap.next \in Nat /\ heap.mapped \in SUBSET Nat
      /\ heap.frames \in Nat
  BY <1>1, HeapFields
<1>3. Cardinality(heap.mapped) \in Nat
  BY <1>1, FS_CardinalityType
<1>4. KmTypeOK
  BY <1>1, <1>2, <1>3, Sizes3 DEF KmTypeOK
<1>5. LiveMapped
  <2> SUFFICES ASSUME NEW b \in live, NEW w \in Words(b) PROVE w \div Page \in heap.mapped
    BY DEF LiveMapped
  <2>1. w \in Nat
    BY <1>1, HasWords
  <2> QED BY <1>1, <2>1 DEF Tiles
<1> QED BY <1>1, <1>4, <1>5 DEF MemoryKept, FramesNotInvented

\* Through any sequence of kmalloc, kfree and krealloc every word of the arena
\* belongs to exactly one block, as long as the pages field that kmalloc leaves
\* unwritten reads 0.
THEOREM HeapIsTiled == ASSUME Stale \subseteq {0} PROVE KmSpec => []Tiled
  BY KmInvAlways, KmInvTiled, PTL

\* Under the same condition kfree takes no page from a block in use and gives no
\* frame back twice.
THEOREM MemoryIsKept == ASSUME Stale \subseteq {0} PROVE KmSpec => []MemoryKept
  BY KmInvAlways, KmInvKept, PTL
=============================================================================

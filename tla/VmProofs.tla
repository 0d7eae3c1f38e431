------------------------------- MODULE VmProofs -------------------------------
(***************************************************************************)
(* Theorems about module Vm: the invariant of VmTables holds of every      *)
(* state, and from it follow what the address spaces promise and that a    *)
(* call under way loses no frame.                                          *)
(***************************************************************************)
EXTENDS VmCalls

-----------------------------------------------------------------------------
(* The theorems.                                                            *)

\* At boot every frame is free.
LEMMA VmInvInit == VmInit => VmInv
<1> SUFFICES ASSUME VmInit PROVE VmInv
  OBVIOUS
<1>1. /\ freeFrames = Frames /\ data = [f \in Frames |-> [i \in Idx |-> Junk]]
      /\ pml4 = [t \in Slots |-> None] /\ cursor = [t \in Slots |-> MmapStart]
      /\ op = [t \in Slots |-> Idle] /\ fixed = [t \in Slots |-> FALSE] /\ calls = 0
  BY DEF VmInit
<1>2. VmTypeOK
  <2>1. data \in [Frames -> [Idx -> Frames \cup {None, Junk}]]
    BY <1>1
  <2>2. cursor \in [Slots -> 0 .. LastPage]
    BY <1>1, Layout
  <2>3. op \in [Slots -> Ops]
    BY <1>1 DEF Ops
  <2>4. calls \in 0 .. MaxCalls
    BY <1>1, VmAssumption
  <2> QED BY <1>1, <2>1, <2>2, <2>3, <2>4 DEF VmTypeOK
<1>3. \A t \in Slots : op[t].kind = "idle" /\ pml4[t] = None
  BY <1>1 DEF Idle
<1>4. \A t \in Slots : SpacesOf(t) = {}
  BY <1>3 DEF SpacesOf
<1>5. Labelled
  <2>1. Roots = {}
    BY <1>4 DEF Roots
  <2>2. 0 \in Idx
    BY VmAssumption DEF Idx
  <2>3. PICK k, u, a : /\ k = [f \in Frames |-> "free"] /\ u = [f \in Frames |-> f]
                       /\ a = [f \in Frames |-> 0]
    BY Zenon
  <2>4. Labels(data, freeFrames, k, u, a)
    BY <1>1, <2>2, <2>3 DEF Labels, RootsAgree, TablesAgree, Kinds
  <2> QED BY <2>1, <2>4 DEF Labelled
<1>6. OwnSpaces
  BY <1>4 DEF OwnSpaces
<1>7. \A t \in Slots : PagesOK(t)
  BY <1>3 DEF PagesOK, TaskOK, Filled, Gone, Room, Loaded, Loading
<1> QED BY <1>2, <1>5, <1>6, <1>7 DEF VmInv

\* Every step preserves the invariant.
LEMMA VmInvStep == VmInv /\ [VmNext]_vmVars => VmInv'
<1> SUFFICES ASSUME VmInv, [VmNext]_vmVars PROVE VmInv'
  OBVIOUS
<1>1. CASE UNCHANGED vmVars
  <2>1. VmTypeOK' /\ OwnSpaces' /\ Labelled' /\ \A t \in Slots : PagesOK(t)'
    <3>1. VmTypeOK'
      BY <1>1 DEF VmInv, VmTypeOK, vmVars
    <3>2. OwnSpaces'
      BY <1>1 DEF VmInv, OwnSpaces, SpacesOf, vmVars
    <3>3. Labelled'
      BY <1>1 DEF VmInv, Labelled, Roots, SpacesOf, vmVars
    <3>4. ASSUME NEW t \in Slots PROVE PagesOK(t)'
      <4>1. PagesOK(t)
        BY DEF VmInv
      <4>2. /\ op'[t] = op[t] /\ pml4'[t] = pml4[t] /\ cursor'[t] = cursor[t]
            /\ fixed'[t] = fixed[t] /\ data' = data
        BY <1>1 DEF vmVars
      <4>3. \A s \in SpacesOf(t), m, n \in Idx : Kept(data, data', s, m, n)
        BY <4>2 DEF Kept
      <4> QED BY <4>1, <4>2, <4>3, PagesKept
    <3> QED BY <3>1, <3>2, <3>3, <3>4
  <2> QED BY <2>1 DEF VmInv
<1>2. CASE VmNext
  <2>1. PICK t \in Slots : Call(t) \/ VmStep(t)
    BY <1>2 DEF VmNext
  <2>2. calls \in 0 .. MaxCalls
    BY DEF VmInv, VmTypeOK
  <2>3. CASE Call(t)
    <3>1. calls' \in 0 .. MaxCalls
      BY <2>2, <2>3, VmAssumption DEF Call
    <3>2. CASE Clone(t)
      BY <3>1, <3>2, CloneOK, Combine
    <3>3. CASE VmExit(t)
      BY <3>1, <3>3, VmExitOK, Combine
    <3>4. CASE \E p \in Pages, n \in 1 .. MaxLen : Mmap(t, p, n)
      BY <3>1, <3>4, MmapOK, Combine
    <3>5. CASE \E p \in Pages, n \in 1 .. MaxLen : Munmap(t, p, n)
      BY <3>1, <3>5, MunmapOK, Combine
    <3> QED BY <2>3, <3>2, <3>3, <3>4, <3>5 DEF Call
  <2>4. CASE VmStep(t)
    <3>1. calls' \in 0 .. MaxCalls
      BY <2>2, <2>4 DEF VmStep
    <3>2. CASE Lock(t)
      BY <3>1, <3>2, LockOK, Combine
    <3>3. CASE LoadPage(t)
      BY <3>1, <3>3, LoadPageOK, Combine
    <3>4. CASE LoadStack(t)
      BY <3>1, <3>4, LoadStackOK, Combine
    <3>5. CASE LoadDone(t)
      BY <3>1, <3>5, LoadDoneOK, Combine
    <3>6. CASE LoadFail(t)
      BY <3>1, <3>6, LoadFailOK, Combine
    <3>7. CASE MmapPage(t)
      BY <3>1, <3>7, MmapPageOK, Combine
    <3>8. CASE MmapFail(t)
      BY <3>1, <3>8, MmapFailOK, Combine
    <3>9. CASE MmapDone(t)
      BY <3>1, <3>9, MmapDoneOK, Combine
    <3>10. CASE MunmapPage(t)
      BY <3>1, <3>10, MunmapPageOK, Combine
    <3>11. CASE MunmapDone(t)
      BY <3>1, <3>11, MunmapDoneOK, Combine
    <3>12. CASE \E p \in Pages : Store(t, p)
      BY <3>1, <3>12, StoreOK, Combine
    <3> QED BY <2>4, <3>2, <3>3, <3>4, <3>5, <3>6, <3>7, <3>8, <3>9, <3>10, <3>11, <3>12
            DEF VmStep
  <2> QED BY <2>1, <2>3, <2>4
<1> QED BY <1>1, <1>2

\* What holds of each task is what mmap and munmap promise.
LEMMA PagesFromInv == VmInv => PagesRight
<1> SUFFICES ASSUME VmInv PROVE PagesRight
  OBVIOUS
<1>1. ASSUME NEW t \in Slots, op[t].kind \in {"mmap", "munmap", "undo"}
      PROVE  /\ op[t].start \in Nat /\ op[t].page \in Nat /\ op[t].end \in Nat
             /\ op[t].page <= LastPage /\ op[t].end <= LastPage /\ pml4[t] # None
             /\ PagesOK(t)
  BY <1>1, TaskTypes, OpFields, PageEntry, Layout DEF PagesOK, TaskOK
<1>2. FreshZero
  <2> SUFFICES ASSUME NEW t \in Slots, op[t].kind = "mmap", NEW p \in op[t].start .. op[t].page - 1
               PROVE  Translate(pml4[t], p) # None /\ data[Translate(pml4[t], p)] = Zero
    BY DEF FreshZero
  <2>1. p \in Pages /\ op[t].start <= p /\ p < op[t].page
    BY <1>1, Layout DEF Pages
  <2> QED BY <1>1, <2>1 DEF PagesOK, Filled
<1>3. Removed
  <2> SUFFICES ASSUME NEW t \in Slots, op[t].kind \in {"munmap", "undo"},
                      NEW p \in op[t].start .. op[t].page - 1
               PROVE  Translate(pml4[t], p) = None
    BY DEF Removed
  <2>1. p \in Pages /\ op[t].start <= p /\ p < op[t].page
    BY <1>1, Layout DEF Pages
  <2> QED BY <1>1, <2>1 DEF PagesOK, Gone
<1>4. ChoosesFree
  <2> SUFFICES ASSUME NEW t \in Slots, op[t].kind = "mmap", ~fixed[t], op[t].end <= StackStart,
                      NEW p \in op[t].page .. op[t].end - 1
               PROVE  Translate(pml4[t], p) = None
    BY DEF ChoosesFree
  <2>1. p \in Pages /\ op[t].page <= p /\ p < StackStart
    BY <1>1, Layout DEF Pages
  <2> QED BY <1>1, <2>1 DEF PagesOK, Room, FreeFrom
<1> QED BY <1>2, <1>3, <1>4 DEF PagesRight, VmInv

\* The labels separate: a frame has one kind, one frame above and one entry.
LEMMA SeparateFromInv == VmInv => Separate
<1> SUFFICES ASSUME VmInv PROVE Separate
  OBVIOUS
<1>1. PICK k, u, a : Labels(data, freeFrames, k, u, a) /\ \A s \in Roots : k[s] = "root"
  BY LabelsThere
<1>2. \A r \in Roots : r \in Frames /\ k[r] = "root"
  BY <1>1, RootFrames DEF Roots
<1>3. ASSUME NEW r \in Roots, NEW i \in Idx, data[r][i] # None
      PROVE  /\ data[r][i] \in Frames /\ k[data[r][i]] = "table" /\ u[data[r][i]] = r
             /\ a[data[r][i]] = i
  BY <1>1, <1>2, <1>3 DEF Labels, RootsAgree
<1>4. ASSUME NEW r \in Roots, NEW p \in Pages, Translate(r, p) # None
      PROVE  /\ Translate(r, p) \in Frames /\ k[Translate(r, p)] = "leaf"
             /\ u[u[Translate(r, p)]] = r /\ a[u[Translate(r, p)]] = p \div Span
             /\ a[Translate(r, p)] = p % Span
  <2>1. PICK i \in Idx, j \in Idx : i = p \div Span /\ j = p % Span
    BY PageEntry
  <2>2. PICK h, f : h = data[r][i] /\ f = Translate(r, p)
    OBVIOUS
  <2>3. h # None /\ f = data[h][j] /\ f # None
    BY <1>4, <2>1, <2>2 DEF Translate, TableOf
  <2>4. h \in Frames /\ k[h] = "table" /\ u[h] = r /\ a[h] = i
    BY <1>3, <2>2, <2>3
  <2>5. f \in Frames /\ k[f] = "leaf" /\ u[f] = h /\ a[f] = j
    BY <1>1, <2>3, <2>4 DEF Labels, TablesAgree
  <2> QED BY <2>1, <2>2, <2>4, <2>5
<1>5. ASSUME NEW r \in Roots, NEW f \in Reach(r)
      PROVE  /\ f \in Frames
             /\ \/ f = r /\ k[f] = "root"
                \/ f \in Tables(r) /\ k[f] = "table" /\ u[f] = r
                \/ f \in Leaves(r) /\ k[f] = "leaf" /\ u[u[f]] = r
  BY <1>2, <1>3, <1>4 DEF Reach, Tables, Leaves
<1>6. \A r \in Roots : Reach(r) \subseteq Frames \ freeFrames
  BY <1>1, <1>5 DEF Labels
<1>7. \A r, s \in Roots : r # s => Reach(r) \cap Reach(s) = {}
  BY <1>5
<1>8. ASSUME NEW r \in Roots
      PROVE  r \notin Tables(r) \cup Leaves(r) /\ Tables(r) \cap Leaves(r) = {}
  BY <1>2, <1>3, <1>4 DEF Tables, Leaves
<1>9. ASSUME NEW r \in Roots, NEW i \in Idx, NEW j \in Idx, i # j, data[r][i] # None
      PROVE  data[r][i] # data[r][j]
  BY <1>3, <1>9
<1>10. ASSUME NEW r \in Roots, NEW p \in Pages, NEW q \in Pages, p # q, Translate(r, p) # None
       PROVE  Translate(r, p) # Translate(r, q)
  BY <1>4, <1>10, PageEntry
<1> QED BY <1>6, <1>7, <1>8, <1>9, <1>10 DEF Separate, VmInv, OwnSpaces

\* No two tasks share a space, no frame is free and in use, and none has two
\* uses: whatever tasks load, map, unmap and store, in any interleaving.
THEOREM SpacesAreSeparate == VmSpec => []Separate
BY VmInvInit, VmInvStep, SeparateFromInv, PTL DEF VmSpec

\* mmap's pages read as zeros, munmap and the rollback of mmap leave nothing
\* behind, and mmap without an address chooses pages that are free.
THEOREM PagesAreRight == VmSpec => []PagesRight
BY VmInvInit, VmInvStep, PagesFromInv, PTL DEF VmSpec

-----------------------------------------------------------------------------
(* No frame is lost.                                                        *)

\* A frame is a space's root, one of its tables, or one of its pages.
LEMMA Reached ==
  ASSUME NEW r, NEW g
  PROVE  g \in Reach(r) <=> \/ g = r
                            \/ \E i \in Idx : g = data[r][i] /\ g # None
                            \/ \E p \in Pages : g = Translate(r, p) /\ g # None
  BY DEF Reach, Tables, Leaves

\* Frames that are free or in a space.
InUse(g) == g \in freeFrames \/ \E r \in Roots : g \in Reach(r)

\* Lost is the rest.
LEMMA LostIs == Lost = {g \in Frames : ~InUse(g)}
  BY DEF Lost, InUse

\* Nothing is lost while the frames in use stay in use.
LEMMA SameLost ==
  ASSUME \A g \in Frames : InUse(g)' <=> InUse(g)
  PROVE  Lost' = Lost
<1>1. Lost' = {g \in Frames : ~InUse(g)'}
  BY DEF Lost, InUse
<1> QED BY <1>1, LostIs

\* A step that changes no table.
LEMMA WalksKept ==
  ASSUME freeFrames' = freeFrames, Roots' = Roots,
         \A s \in Roots, m \in Idx : data'[s][m] = data[s][m],
         \A s \in Roots, p \in Pages : Translate(s, p)' = Translate(s, p)
  PROVE  Lost' = Lost
<1>1. ASSUME NEW g, NEW r \in Roots PROVE g \in Reach(r)' <=> g \in Reach(r)
  BY DEF Reach, Tables, Leaves
<1>2. ASSUME NEW g PROVE InUse(g)' <=> InUse(g)
  BY <1>1 DEF InUse
<1> QED BY <1>2, SameLost

\* What mapping a page does to the roots' words.
LEMMA MapWords ==
  ASSUME VmInv, NEW t \in Slots, NEW r, NEW p, NEW f, NEW fill, MapsPage(t, r, p, f, fill),
         NEW i \in Idx, i = p \div Span
  PROVE  /\ \A s \in Roots, m \in Idx : s # r \/ m # i => data'[s][m] = data[s][m]
         /\ IF data[r][i] = None
              THEN /\ freeFrames' = (freeFrames \ {f}) \ {data'[r][i]}
                   /\ data'[r][i] \in freeFrames /\ data'[r][i] # None
              ELSE freeFrames' = freeFrames \ {f} /\ data'[r][i] = data[r][i]
<1>1. PICK k, u, a : Labels(data, freeFrames, k, u, a) /\ \A s \in Roots : k[s] = "root"
  BY LabelsThere
<1>2. /\ r \in SpacesOf(t) /\ p \in Pages /\ fill \in [Idx -> Words]
      /\ Enough(r, p) /\ f = Pick(freeFrames)
  BY DEF MapsPage
<1>3. /\ r \in Frames /\ r \in Roots /\ data \in Memory /\ freeFrames \in SUBSET Frames
      /\ \A s \in Roots : s \in Frames /\ k[s] = "root"
  BY <1>1, <1>2, RootFrames, LabelsThere DEF Roots
<1>4. PICK j \in Idx : j = p % Span
  BY Zenon, <1>2, PageEntry
<1>5. /\ f \in freeFrames /\ f \in Frames /\ k[f] = "free" /\ f # None
      /\ data[r][i] = None => freeFrames \ {f} # {}
  BY Zenon, <1>1, <1>2, <1>3, PickIn, VmAssumption DEF Enough, TableOf, Labels
<1>6. PICK c : c = [data EXCEPT ![f] = fill]
  BY Zenon
<1>7. c \in Memory /\ c[f] = fill /\ \A g \in Frames : g # f => c[g] = data[g]
  BY <1>2, <1>3, <1>5, <1>6 DEF Memory
<1>8. /\ data' = Mapped(c, r, p, f, freeFrames \ {f})
      /\ freeFrames' = Left(r, p, freeFrames \ {f})
  BY <1>6 DEF MapsPage
<1>9. CASE data[r][i] # None
  <2>1. PICK h : h = data[r][i] /\ h # None
    BY <1>9
  <2>2. h \in Frames /\ k[h] = "table"
    BY <1>1, <1>3, <2>1 DEF Labels, RootsAgree
  <2>3. c[r] = data[r]
    BY <1>1, <1>3, <1>5, <1>7
  <2>4. WordSet(c, data', h, j, f, h)
    BY Zenon, <1>3, <1>4, <1>5, <1>7, <1>8, <2>1, <2>2, <2>3, MappedThere
  <2>5. \A s \in Roots : data'[s] = data[s]
    BY Zenon, <1>3, <1>5, <1>7, <2>2, <2>4 DEF WordSet
  <2>6. freeFrames' = freeFrames \ {f}
    BY <1>8, <1>9 DEF Left, TableOf
  <2> QED BY <1>3, <1>9, <2>5, <2>6
<1>10. CASE data[r][i] = None
  <2>1. PICK h : h = Pick(freeFrames \ {f})
    OBVIOUS
  <2>2. h \in freeFrames /\ h \in Frames /\ h # f /\ k[h] = "free" /\ h # r /\ h # None
    BY Zenon, <1>1, <1>3, <1>5, <1>10, <2>1, PickIn, VmAssumption DEF Labels
  <2>3. c[r] = data[r] /\ c[r][i] = None
    BY <1>1, <1>3, <1>5, <1>7, <1>10
  <2>4. \A e : e = Mapped(c, r, p, f, freeFrames \ {f}) =>
          \E x : x \in Memory /\ TableAdded(c, x, r, i, h) /\ WordSet(x, e, h, j, f, h)
    BY Zenon, <1>3, <1>4, <1>5, <1>7, <2>1, <2>2, <2>3, MappedNew
  <2>5. PICK x : x \in Memory /\ TableAdded(c, x, r, i, h) /\ WordSet(x, data', h, j, f, h)
    BY <1>8, <2>4
  <2>6. \A s \in Roots : s # h /\ s # f
    BY <1>3, <1>5, <2>2
  <2>7. \A s \in Roots : s # r => data'[s] = data[s]
    BY <1>3, <1>7, <2>5, <2>6 DEF TableAdded, WordSet
  <2>8. data'[r] = x[r]
    BY <1>3, <2>2, <2>5 DEF WordSet
  <2>9. data'[r][i] = h /\ \A m \in Idx : m # i => data'[r][m] = data[r][m]
    BY <2>3, <2>5, <2>8 DEF TableAdded
  <2>10. freeFrames' = (freeFrames \ {f}) \ {h}
    BY <1>8, <1>10, <2>1 DEF Left, TableOf
  <2> QED BY <1>10, <2>2, <2>7, <2>9, <2>10
<1> QED BY Zenon, <1>9, <1>10

\* Mapping a page that was not mapped uses up just the frames it takes.
LEMMA MapLost ==
  ASSUME VmInv, NEW t \in Slots, NEW r, NEW p, NEW f, NEW fill, MapsPage(t, r, p, f, fill),
         Translate(r, p) = None, Roots' = Roots
  PROVE  Lost' = Lost
<1>1. r \in Roots /\ p \in Pages /\ f \in freeFrames /\ f # None
  <2>1. r \in SpacesOf(t) /\ p \in Pages /\ f = Pick(freeFrames) /\ freeFrames # {}
    BY DEF MapsPage, Enough
  <2>2. freeFrames \in SUBSET Frames
    BY LabelsThere
  <2> QED BY <2>1, <2>2, PickIn, RootFrames, VmAssumption
<1>2. PICK i \in Idx : i = p \div Span
  BY <1>1, PageEntry
<1>3. /\ Translate(r, p)' = f
      /\ \A s \in Roots, q \in Pages : s # r \/ q # p => Translate(s, q)' = Translate(s, q)
  <2>1. /\ Translate(r, p)' = f
        /\ \A w \in Slots \ {t} : \A s \in SpacesOf(w), m, n \in Idx : Kept(data, data', s, m, n)
        /\ \A s \in SpacesOf(t), q \in Pages : s # r \/ q # p => PageKept(s, q)
    BY MapPageStep
  <2>2. ASSUME NEW w \in Slots \ {t}, NEW s \in SpacesOf(w), NEW q \in Pages
        PROVE  PageKept(s, q)
    BY <2>1, PageEntry, KeptPage
  <2>3. ASSUME NEW s \in Roots, NEW q \in Pages, s # r \/ q # p PROVE PageKept(s, q)
    BY <2>1, <2>2, <2>3 DEF Roots
  <2> QED BY Zenon, <2>1, <2>3 DEF PageKept
<1>4. /\ \A s \in Roots, m \in Idx : s # r \/ m # i => data'[s][m] = data[s][m]
      /\ IF data[r][i] = None
           THEN /\ freeFrames' = (freeFrames \ {f}) \ {data'[r][i]}
                /\ data'[r][i] \in freeFrames /\ data'[r][i] # None
           ELSE freeFrames' = freeFrames \ {f} /\ data'[r][i] = data[r][i]
  BY <1>2, MapWords
<1>5. ASSUME NEW g, InUse(g)' PROVE InUse(g)
  <2>1. CASE g \in freeFrames'
    BY <1>4, <2>1 DEF InUse
  <2>2. ASSUME NEW s \in Roots, g = s \/ \E m \in Idx : g = data'[s][m] /\ g # None
        PROVE  InUse(g)
    BY <1>4, <2>2, Reached DEF InUse
  <2>3. ASSUME NEW s \in Roots, NEW q \in Pages, g = Translate(s, q)', g # None
        PROVE  InUse(g)
    <3>1. CASE s = r /\ q = p
      BY <1>1, <1>3, <2>3, <3>1 DEF InUse
    <3>2. CASE s # r \/ q # p
      BY <1>3, <2>3, <3>2, Reached DEF InUse
    <3> QED BY <3>1, <3>2
  <2>4. g \in freeFrames' \/ \E s \in Roots : g \in Reach(s)'
    BY <1>5 DEF InUse
  <2> QED BY <2>1, <2>2, <2>3, <2>4 DEF Reach, Tables, Leaves
<1>6. ASSUME NEW g, InUse(g) PROVE InUse(g)'
  <2>1. ASSUME NEW s \in Roots, g \in Reach(s)' PROVE InUse(g)'
    BY <2>1 DEF InUse
  <2>2. CASE g \in freeFrames
    <3>1. CASE g = f
      <4>1. f \in Leaves(r)'
        BY <1>1, <1>3 DEF Leaves
      <4> QED BY <1>1, <2>1, <3>1, <4>1 DEF Reach
    <3>2. CASE g # f /\ g \notin freeFrames'
      <4>1. g \in Tables(r)'
        BY <1>2, <1>4, <2>2, <3>2 DEF Tables
      <4> QED BY <1>1, <2>1, <4>1 DEF Reach
    <3>3. CASE g \in freeFrames'
      BY <3>3 DEF InUse
    <3> QED BY <3>1, <3>2, <3>3
  <2>3. ASSUME NEW s \in Roots, g = s PROVE InUse(g)'
    BY <2>1, <2>3 DEF Reach
  <2>4. ASSUME NEW s \in Roots, NEW m \in Idx, g = data[s][m], g # None PROVE InUse(g)'
    <3>1. data'[s][m] = g
      BY Zenon, <1>4, <2>4
    <3>2. g \in Tables(s)'
      BY <2>4, <3>1 DEF Tables
    <3> QED BY <2>1, <3>2 DEF Reach
  <2>5. ASSUME NEW s \in Roots, NEW q \in Pages, g = Translate(s, q), g # None PROVE InUse(g)'
    <3>1. s # r \/ q # p
      BY <2>5
    <3>2. g \in Leaves(s)'
      BY <1>3, <2>5, <3>1 DEF Leaves
    <3> QED BY <2>1, <3>2 DEF Reach
  <2> QED BY <1>6, <2>2, <2>3, <2>4, <2>5, Reached DEF InUse
<1> QED BY <1>5, <1>6, SameLost

\* Unmapping a page makes its frame free, and only that.
LEMMA UnmapLost ==
  ASSUME VmInv, NEW t \in Slots, NEW r, NEW p, NEW f, UnmapsPage(t, r, p, f), Roots' = Roots
  PROVE  Lost' = Lost
<1>1. /\ r \in SpacesOf(t) /\ r \in Roots /\ p \in Pages /\ f = Translate(r, p) /\ f # None
      /\ freeFrames' = freeFrames \cup {f}
  BY RootFrames DEF UnmapsPage
<1>2. /\ Translate(r, p)' = None
      /\ \A s \in Roots, q \in Pages : s # r \/ q # p => Translate(s, q)' = Translate(s, q)
  <2>1. /\ Translate(r, p)' = None
        /\ \A w \in Slots \ {t} : \A s \in SpacesOf(w), m, n \in Idx : Kept(data, data', s, m, n)
        /\ \A s \in SpacesOf(t), q \in Pages : s # r \/ q # p => PageKept(s, q)
    BY UnmapStep
  <2>2. ASSUME NEW w \in Slots \ {t}, NEW s \in SpacesOf(w), NEW q \in Pages
        PROVE  PageKept(s, q)
    BY <2>1, PageEntry, KeptPage
  <2>3. ASSUME NEW s \in Roots, NEW q \in Pages, s # r \/ q # p PROVE PageKept(s, q)
    BY <2>1, <2>2, <2>3 DEF Roots
  <2> QED BY Zenon, <2>1, <2>3 DEF PageKept
<1>3. \A s \in Roots, m \in Idx : data'[s][m] = data[s][m]
  <2>1. PICK k, u, a : Labels(data, freeFrames, k, u, a) /\ \A s \in Roots : k[s] = "root"
    BY LabelsThere
  <2>2. PICK i \in Idx, j \in Idx : i = p \div Span /\ j = p % Span
    BY <1>1, PageEntry
  <2>3. PICK h : h = data[r][i]
    OBVIOUS
  <2>4. h # None /\ data' = [data EXCEPT ![h][j] = None]
    BY Zenon, <1>1, <2>2, <2>3 DEF UnmapsPage, Unmapped, Translate, TableOf
  <2>5. \A s \in Roots : s \in Frames
    BY RootFrames DEF Roots
  <2>6. k[h] = "table"
    BY <1>1, <2>1, <2>3, <2>4, <2>5 DEF Labels, RootsAgree
  <2>7. data \in [Frames -> [Idx -> Words]]
    BY LabelsThere DEF Memory
  <2> QED BY Zenon, <2>1, <2>4, <2>5, <2>6, <2>7
<1>4. ASSUME NEW g, InUse(g)' PROVE InUse(g)
  <2>1. CASE g \in freeFrames'
    BY <1>1, <2>1, Reached DEF InUse
  <2>2. ASSUME NEW s \in Roots, g = s \/ \E m \in Idx : g = data'[s][m] /\ g # None
        PROVE  InUse(g)
    BY <1>3, <2>2, Reached DEF InUse
  <2>3. ASSUME NEW s \in Roots, NEW q \in Pages, g = Translate(s, q)', g # None
        PROVE  InUse(g)
    <3>1. s # r \/ q # p
      BY <1>2, <2>3
    <3> QED BY <1>2, <2>3, <3>1, Reached DEF InUse
  <2>4. g \in freeFrames' \/ \E s \in Roots : g \in Reach(s)'
    BY <1>4 DEF InUse
  <2> QED BY <2>1, <2>2, <2>3, <2>4 DEF Reach, Tables, Leaves
<1>5. ASSUME NEW g, InUse(g) PROVE InUse(g)'
  <2>1. ASSUME NEW s \in Roots, g \in Reach(s)' PROVE InUse(g)'
    BY <2>1 DEF InUse
  <2>2. CASE g \in freeFrames \/ g = f
    BY <1>1, <2>2 DEF InUse
  <2>3. ASSUME NEW s \in Roots, g = s PROVE InUse(g)'
    BY <2>1, <2>3 DEF Reach
  <2>4. ASSUME NEW s \in Roots, NEW m \in Idx, g = data[s][m], g # None PROVE InUse(g)'
    <3>1. g \in Tables(s)'
      BY <1>3, <2>4 DEF Tables
    <3> QED BY <2>1, <3>1 DEF Reach
  <2>5. ASSUME NEW s \in Roots, NEW q \in Pages, g = Translate(s, q), g # None, g # f
        PROVE  InUse(g)'
    <3>1. s # r \/ q # p
      BY <1>1, <2>5
    <3>2. g \in Leaves(s)'
      BY Zenon, <1>2, <2>5, <3>1 DEF Leaves
    <3> QED BY <2>1, <3>2 DEF Reach
  <2> QED BY <1>5, <2>2, <2>3, <2>4, <2>5, Reached DEF InUse
<1> QED BY <1>4, <1>5, SameLost

\* What task t does when it goes on with a call and does not give up a load.
GoesOn(t) ==
  \/ Lock(t) \/ LoadPage(t) \/ LoadStack(t)
  \/ MmapPage(t) \/ MmapFail(t) \/ MmapDone(t) \/ MunmapPage(t) \/ MunmapDone(t)

\* The task whose call changes is the one that moves.
LEMMA WhoMoves ==
  ASSUME VmInv, VmNext, NEW t \in Slots, op[t] # Idle, op'[t] # op[t],
         op[t].kind \in {"image", "stack"} => op'[t] # Idle
  PROVE  GoesOn(t)
<1>1. PICK w \in Slots : Call(w) \/ VmStep(w)
  BY DEF VmNext
<1>2. op \in [Slots -> Ops] /\ op[t].kind # "idle"
  BY TaskTypes, OpFields DEF VmInv, VmTypeOK
<1>3. ASSUME NEW o, op' = [op EXCEPT ![w] = o] PROVE w = t
  BY <1>2, <1>3
<1>4. CASE Call(w)
  <2>1. op[w] = Idle /\ (op' = op \/ \E o : op' = [op EXCEPT ![w] = o])
    BY Zenon, <1>4 DEF Call, Clone, VmExit, Mmap, Munmap
  <2> QED BY <1>3, <2>1
<1>5. CASE VmStep(w)
  <2>1. op' = op \/ \E o : op' = [op EXCEPT ![w] = o]
    BY <1>5 DEF VmStep, Lock, LoadPage, LoadStack, LoadDone, LoadFail, MmapPage, MmapFail,
                MmapDone, MunmapPage, MunmapDone, Store
  <2>2. w = t
    BY <1>3, <2>1
  <2>3. ~LoadDone(t) /\ ~LoadFail(t)
    BY Zenon, <1>2 DEF LoadDone, LoadFail
  <2>4. \A p : ~Store(t, p)
    BY DEF Store
  <2> QED BY Zenon, <1>5, <2>2, <2>3, <2>4 DEF VmStep, GoesOn
<1> QED BY <1>1, <1>4, <1>5

\* Such a step neither takes nor drops a space.
LEMMA RootsStay ==
  ASSUME VmInv, NEW t \in Slots, GoesOn(t)
  PROVE  Roots' = Roots
<1>1. op \in [Slots -> Ops] /\ op[t] \in Ops
  BY TaskTypes DEF VmInv, VmTypeOK
<1>2. pml4' = pml4
  BY DEF GoesOn, Lock, LoadPage, LoadStack, MmapPage, MmapFail, MmapDone, MunmapPage, MunmapDone
<1>3. PICK x : x = op[t]
  OBVIOUS
<1>4. \E o : op' = [op EXCEPT ![t] = o]
  BY DEF GoesOn, Lock, LoadPage, LoadStack, MmapPage, MmapFail, MmapDone, MunmapPage, MunmapDone
<1>5. /\ x.kind \in {"image", "stack"} <=> op'[t].kind \in {"image", "stack"}
      /\ x.kind \in {"image", "stack"} => op'[t].root = x.root
  <2>1. CASE Lock(t) \/ LoadPage(t) \/ LoadStack(t)
    <3>1. x.kind \in {"image", "stack"}
      BY <1>3, <2>1 DEF Lock, LoadPage, LoadStack
    <3>2. x \in [kind : {"image", "stack"}, root : Frames, page : 0 .. LastPage, locked : BOOLEAN]
      BY <1>1, <1>3, <3>1 DEF Ops, Idle
    <3>3. \/ op'[t] = [x EXCEPT !.locked = TRUE]
          \/ op'[t] = [x EXCEPT !.page = x.page + 1]
          \/ op'[t] = [x EXCEPT !.kind = "stack", !.page = StackStart]
      BY Zenon, <1>1, <1>3, <2>1 DEF Lock, LoadPage, LoadStack
    <3> QED BY Zenon, <3>1, <3>2, <3>3
  <2>2. CASE MmapPage(t) \/ MunmapPage(t)
    <3>1. x.kind \in {"mmap", "munmap", "undo"}
      BY <1>3, <2>2 DEF MmapPage, MunmapPage
    <3>2. op'[t] = [x EXCEPT !.page = x.page + 1]
      BY <1>1, <1>3, <2>2 DEF MmapPage, MunmapPage
    <3>3. op'[t] = [kind |-> x.kind, start |-> x.start, page |-> x.page + 1, end |-> x.end]
      BY <1>1, <1>3, <3>1, <3>2, CallFields
    <3> QED BY <3>1, <3>3
  <2>3. CASE MmapFail(t)
    <3>1. x.kind = "mmap"
      BY <1>3, <2>3 DEF MmapFail
    <3>2. op'[t].kind = "undo"
      BY <1>1, <2>3 DEF MmapFail
    <3> QED BY <3>1, <3>2
  <2>4. CASE MmapDone(t) \/ MunmapDone(t)
    <3>1. x.kind \in {"mmap", "munmap", "undo"} /\ op'[t] = Idle
      BY Zenon, <1>1, <1>3, <2>4 DEF MmapDone, MunmapDone
    <3> QED BY <3>1 DEF Idle
  <2> QED BY Zenon, <2>1, <2>2, <2>3, <2>4 DEF GoesOn
<1>6. \A w \in Slots : w # t => op'[w] = op[w]
  BY <1>1, <1>4
<1>7. \A w \in Slots : SpacesOf(w)' = SpacesOf(w)
  BY <1>2, <1>3, <1>5, <1>6 DEF SpacesOf
<1> QED BY <1>7 DEF Roots

\* Where a load and a call under way are.
LEMMA LoadTypes ==
  ASSUME VmInv, NEW t \in Slots, op[t].kind \in {"image", "stack"}
  PROVE  op[t].page \in 0 .. LastPage
<1>1. op[t] \in Ops
  BY TaskTypes
<1> QED BY Zenon, <1>1, OpFields

LEMMA CallTypes ==
  ASSUME VmInv, NEW t \in Slots, op[t].kind \in {"mmap", "munmap", "undo"}
  PROVE  /\ op[t].page \in 0 .. LastPage /\ op[t].end \in 0 .. LastPage
         /\ pml4[t] \in SpacesOf(t)
<1>1. op[t] \in Ops /\ PagesOK(t)
  BY TaskTypes
<1>2. op[t].page \in 0 .. LastPage /\ op[t].end \in 0 .. LastPage
  BY Zenon, <1>1, OpFields
<1>3. pml4[t] # None
  BY <1>1 DEF PagesOK, TaskOK
<1> QED BY <1>2, <1>3 DEF SpacesOf

\* A step of a call that goes on keeps account of every frame.
LEMMA GoingOnLosesNothing ==
  ASSUME VmInv, NEW t \in Slots, GoesOn(t), ~Replaces(t)
  PROVE  Lost' = Lost
<1>1. Roots' = Roots
  BY RootsStay
<1>2. CASE data' = data /\ freeFrames' = freeFrames
  <2>1. \A s, p : Translate(s, p)' = Translate(s, p)
    BY <1>2, SameWalk
  <2> QED BY <1>1, <1>2, <2>1, WalksKept
<1>3. CASE LoadPage(t)
  <2>1. PICK r, p, f, fill :
          /\ r = op[t].root /\ p = op[t].page /\ f = Pick(freeFrames)
          /\ fill = IF op[t].kind = "image" THEN [i \in Idx |-> Junk] ELSE Zero
    BY Zenon
  <2>2. /\ op[t].kind \in {"image", "stack"} /\ Enough(r, p)
        /\ op[t].kind = "image" => p < ImageEnd
        /\ op[t].kind = "stack" => p < StackEnd
        /\ data' = Mapped([data EXCEPT ![f] = fill], r, p, f, freeFrames \ {f})
        /\ freeFrames' = Left(r, p, freeFrames \ {f})
    BY <1>3, <2>1 DEF LoadPage
  <2>3. r \in SpacesOf(t) /\ p \in Pages
    <3>1. p \in 0 .. LastPage
      BY <2>1, <2>2, LoadTypes
    <3>2. p \in Pages
      BY Zenon, <2>2, <3>1, Ends, PageBelow
    <3>3. r \in SpacesOf(t)
      BY Zenon, <2>1, <2>2 DEF SpacesOf
    <3> QED BY Zenon, <3>2, <3>3
  <2>4. fill \in [Idx -> Words]
    BY Zenon, <2>1 DEF Zero, Words
  <2>5. MapsPage(t, r, p, f, fill)
    BY Zenon, <2>1, <2>2, <2>3, <2>4 DEF MapsPage
  <2>6. Translate(r, p) = None
    BY <2>1, <2>2, <2>3, TaskTypes, PageEntry DEF PagesOK, Loaded
  <2> QED BY <1>1, <2>5, <2>6, MapLost
<1>4. CASE MmapPage(t)
  <2>1. PICK r, p, f : r = pml4[t] /\ p = op[t].page /\ f = Pick(freeFrames)
    OBVIOUS
  <2>2. /\ op[t].kind = "mmap" /\ Enough(r, p) /\ p < op[t].end
        /\ data' = Mapped([data EXCEPT ![f] = Zero], r, p, f, freeFrames \ {f})
        /\ freeFrames' = Left(r, p, freeFrames \ {f})
    BY <1>4, <2>1 DEF MmapPage
  <2>3. r \in SpacesOf(t) /\ p \in Pages
    <3>1. p \in 0 .. LastPage /\ op[t].end \in 0 .. LastPage /\ r \in SpacesOf(t)
      BY Zenon, <2>1, <2>2, CallTypes
    <3> QED BY Zenon, <2>2, <3>1, PageBelow
  <2>4. Zero \in [Idx -> Words]
    BY DEF Zero, Words
  <2>5. MapsPage(t, r, p, f, Zero)
    BY Zenon, <2>1, <2>2, <2>3, <2>4 DEF MapsPage
  <2>6. Translate(r, p) = None
    BY Zenon, <2>1, <2>2 DEF Replaces
  <2> QED BY <1>1, <2>5, <2>6, MapLost
<1>5. CASE MunmapPage(t)
  <2>1. PICK r, p, f : r = pml4[t] /\ p = op[t].page /\ f = Translate(r, p)
    BY Zenon
  <2>2. /\ op[t].kind \in {"munmap", "undo"} /\ p < op[t].end
        /\ IF f = None THEN UNCHANGED <<freeFrames, data>>
           ELSE data' = Unmapped(r, p) /\ freeFrames' = freeFrames \cup {f}
    BY <1>5, <2>1 DEF MunmapPage
  <2>3. r \in SpacesOf(t) /\ p \in Pages
    <3>1. p \in 0 .. LastPage /\ op[t].end \in 0 .. LastPage /\ r \in SpacesOf(t)
      BY Zenon, <2>1, <2>2, CallTypes
    <3> QED BY Zenon, <2>2, <3>1, PageBelow
  <2>4. CASE f = None
    BY <1>2, <2>2, <2>4
  <2>5. CASE f # None
    <3>1. UnmapsPage(t, r, p, f)
      BY Zenon, <2>1, <2>2, <2>3, <2>5 DEF UnmapsPage
    <3> QED BY <1>1, <3>1, UnmapLost
  <2> QED BY <2>4, <2>5
<1>6. CASE MmapFail(t)
  <2>1. freeFrames' = freeFrames
    BY <1>6 DEF MmapFail
  <2>2. CASE freeFrames = {}
    BY <1>2, <1>6, <2>1, <2>2 DEF MmapFail
  <2>3. CASE freeFrames # {}
    <3>1. PICK k, u, a : Labels(data, freeFrames, k, u, a) /\ \A s \in Roots : k[s] = "root"
      BY LabelsThere
    <3>2. data \in Memory /\ freeFrames \in SUBSET Frames /\ \A s \in Roots : s \in Frames
      BY LabelsThere, RootFrames DEF Roots
    <3>3. PICK f : f = Pick(freeFrames)
      OBVIOUS
    <3>4. f \in freeFrames /\ f \in Frames
      BY <2>3, <3>2, <3>3, PickIn
    <3>5. Clears(data, data', f)
      BY <1>6, <2>3, <3>3 DEF MmapFail, Clears
    <3>6. data' \in Memory /\ \A g \in Frames : g # f => data'[g] = data[g]
      BY <3>2, <3>4, <3>5, Cleared
    <3>7. k[f] = "free" /\ AllKept(data, data', k)
      <4>1. FreeChanged(data, data', freeFrames, k, u, a, f)
        BY Zenon, <3>1, <3>2, <3>4, <3>6 DEF FreeChanged
      <4> QED BY Zenon, <4>1, FreeOverwritten
    <3>8. ASSUME NEW s \in Roots, NEW p \in Pages PROVE Translate(s, p)' = Translate(s, p)
      <4>1. Entry(data', s, p \div Span, p % Span) = Entry(data, s, p \div Span, p % Span)
        BY <3>1, <3>2, <3>7, PageEntry DEF AllKept, Kept
      <4> QED BY Zenon, <4>1 DEF Entry, Translate, TableOf
    <3>9. \A s \in Roots, m \in Idx : data'[s][m] = data[s][m]
      BY <3>1, <3>2, <3>4, <3>6, <3>7
    <3> QED BY Zenon, <1>1, <2>1, <3>8, <3>9, WalksKept
  <2> QED BY <2>2, <2>3
<1>7. CASE Lock(t) \/ LoadStack(t) \/ MmapDone(t) \/ MunmapDone(t)
  <2>1. data' = data /\ freeFrames' = freeFrames
    BY <1>7 DEF Lock, LoadStack, MmapDone, MunmapDone
  <2> QED BY <1>2, <2>1
<1> QED BY <1>3, <1>4, <1>5, <1>6, <1>7 DEF GoesOn

\* Only exits, replaced images, failed loads and replaced pages lose frames:
\* every other step of mmap, munmap, a rollback or a load keeps account of
\* every frame, also when memory runs out midway.
THEOREM NothingIsLost == VmSpec => LosesNothing
<1>1. ASSUME VmInv, VmNext, NEW t \in Slots, op[t] # Idle, op'[t] # op[t], ~Replaces(t),
             op[t].kind \in {"image", "stack"} => op'[t] # Idle
      PROVE  Lost' = Lost
  BY <1>1, WhoMoves, GoingOnLosesNothing
<1>2. VmInv /\ [VmNext]_vmVars =>
        [(\E t \in Slots :
            /\ op[t] # Idle /\ op'[t] # op[t] /\ ~Replaces(t)
            /\ op[t].kind \in {"image", "stack"} => op'[t] # Idle)
           => Lost' = Lost]_vmVars
  BY <1>1
<1> QED BY <1>2, VmInvInit, VmInvStep, PTL DEF VmSpec, LosesNothing
=============================================================================

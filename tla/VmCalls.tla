------------------------------- MODULE VmCalls -------------------------------
(***************************************************************************)
(* Proofs about module Vm: the beginning and the end of mmap and munmap,   *)
(* and the steps that change memory (a page mapped, unmapped or stored to, *)
(* a space cloned, a call that finds no frame) keep the invariant of       *)
(* VmTables.  The latter show the labels after the step and that the       *)
(* spaces of every other task are kept, page by page.                      *)
(***************************************************************************)
EXTENDS VmTables

(* mmap and munmap begin and end.                                           *)

\* mmap starts at the cursor, or where the program says.
LEMMA MmapOK ==
  ASSUME VmInv, NEW t \in Slots, NEW addr \in Pages, NEW len \in 1 .. MaxLen,
         Mmap(t, addr, len), calls' \in 0 .. MaxCalls
  PROVE  StepOK(t)
<1>1. PICK st : st = IF addr = 0 THEN cursor[t] ELSE addr
  OBVIOUS
<1>2. PICK o : o = [kind |-> "mmap", start |-> st, page |-> st, end |-> st + len]
  BY Zenon
<1>3. PICK x \in BOOLEAN : x = (fixed[t] \/ addr # 0)
  BY Zenon
<1>4. len \in Nat /\ len >= 1
  BY VmAssumption
<1>5. st \in Pages /\ st + len \in 0 .. LastPage /\ st \in Nat /\ st \in 0 .. LastPage
  <2>1. st \in Nat
    BY <1>1, PageEntry, TaskTypes
  <2> QED BY <1>1, <1>4, <2>1, Layout DEF Mmap, Pages
<1>6. Move(t, o, pml4[t], cursor[t], x)
  <2>1. o \in Ops
    BY <1>2, <1>5 DEF Ops
  <2>2. op' = [op EXCEPT ![t] = o]
    BY <1>1, <1>2 DEF Mmap
  <2>3. fixed' = [fixed EXCEPT ![t] = x]
    BY <1>3 DEF Mmap
  <2> QED BY Zenon, <2>1, <2>2, <2>3, TaskTypes DEF Mmap, Move
<1>7. data' = data /\ freeFrames' = freeFrames /\ op[t].kind = "idle" /\ pml4[t] # None
  BY DEF Mmap, Running, Idle
<1>8. op'[t] = o /\ pml4'[t] = pml4[t] /\ cursor'[t] = cursor[t] /\ fixed'[t] = x
  BY <1>6 DEF Move, VmInv, VmTypeOK
<1>9. o.kind = "mmap" /\ o.start = st /\ o.page = st /\ o.end = st + len
  BY <1>2
<1>10. SpacesOf(t)' \subseteq SpacesOf(t)
  BY <1>7, <1>8, <1>9 DEF SpacesOf
<1>11. ~x => ~fixed[t] /\ st = cursor[t]
  BY Zenon, <1>1, <1>3
<1>12. PagesOK(t)'
  <2>1. PagesOK(t) /\ \A s, p : Translate(s, p)' = Translate(s, p)
    BY <1>7, TaskTypes, SameWalk
  <2>2. TaskOK(t)'
    BY <1>4, <1>5, <1>7, <1>8, <1>9, <1>11 DEF TaskOK, Loading
  <2>3. Filled(t)' /\ Gone(t)' /\ Loaded(t)'
    BY <1>5, <1>8, <1>9, PageEntry DEF Filled, Gone, Loaded
  <2>4. Room(t)'
    BY <1>7, <1>8, <1>9, <1>11, <2>1 DEF PagesOK, Room, FreeFrom
  <2> QED BY <2>2, <2>3, <2>4 DEF PagesOK
<1> QED BY <1>6, <1>7, <1>10, <1>12, QuietStep

\* mmap is done: the cursor moves behind what it has mapped.
LEMMA MmapDoneOK ==
  ASSUME VmInv, NEW t \in Slots, MmapDone(t), calls' \in 0 .. MaxCalls
  PROVE  StepOK(t)
<1>1. op[t].kind = "mmap" /\ op[t].page = op[t].end /\ op[t].end \in 0 .. LastPage
  BY TaskTypes, OpFields DEF MmapDone
<1>2. Move(t, Idle, pml4[t], op[t].end, fixed[t])
  <2>1. Idle \in Ops
    BY DEF Ops
  <2> QED BY <1>1, <2>1, TaskTypes DEF MmapDone, Move
<1>3. data' = data /\ freeFrames' = freeFrames
  BY DEF MmapDone
<1>4. /\ op'[t] = Idle /\ pml4'[t] = pml4[t] /\ cursor'[t] = op[t].end /\ fixed'[t] = fixed[t]
      /\ Idle.kind = "idle"
  BY <1>2 DEF Move, VmInv, VmTypeOK, Idle
<1>5. SpacesOf(t)' \subseteq SpacesOf(t)
  BY <1>1, <1>4 DEF SpacesOf
<1>6. PagesOK(t)'
  <2>1. PagesOK(t) /\ \A s, p : Translate(s, p)' = Translate(s, p)
    BY <1>3, TaskTypes, SameWalk
  <2>2. TaskOK(t)' /\ Filled(t)' /\ Gone(t)' /\ Loaded(t)'
    BY <1>4 DEF TaskOK, Filled, Gone, Loaded, Loading
  <2>3. Room(t)'
    BY <1>1, <1>4, <2>1 DEF PagesOK, Room, FreeFrom
  <2> QED BY <2>2, <2>3 DEF PagesOK
<1> QED BY <1>2, <1>3, <1>5, <1>6, QuietStep

\* munmap starts.
LEMMA MunmapOK ==
  ASSUME VmInv, NEW t \in Slots, NEW addr \in Pages, NEW len \in 1 .. MaxLen,
         Munmap(t, addr, len), calls' \in 0 .. MaxCalls
  PROVE  StepOK(t)
<1>1. PICK o : o = [kind |-> "munmap", start |-> addr, page |-> addr, end |-> addr + len]
  BY Zenon
<1>2. len \in Nat /\ len >= 1
  BY VmAssumption
<1>3. addr + len \in 0 .. LastPage /\ addr \in Nat /\ addr \in 0 .. LastPage
  <2>1. addr \in Nat
    BY PageEntry
  <2> QED BY <1>2, <2>1, Layout DEF Munmap
<1>4. Move(t, o, pml4[t], cursor[t], fixed[t])
  <2>1. o \in Ops
    BY <1>1, <1>3 DEF Ops
  <2>2. op' = [op EXCEPT ![t] = o]
    BY <1>1 DEF Munmap
  <2> QED BY Zenon, <2>1, <2>2, TaskTypes DEF Munmap, Move
<1>5. data' = data /\ freeFrames' = freeFrames /\ op[t].kind = "idle" /\ pml4[t] # None
  BY DEF Munmap, Running, Idle
<1>6. op'[t] = o /\ pml4'[t] = pml4[t] /\ cursor'[t] = cursor[t] /\ fixed'[t] = fixed[t]
  BY <1>4 DEF Move, VmInv, VmTypeOK
<1>7. o.kind = "munmap" /\ o.start = addr /\ o.page = addr /\ o.end = addr + len
  BY <1>1
<1>8. SpacesOf(t)' \subseteq SpacesOf(t)
  BY <1>5, <1>6, <1>7 DEF SpacesOf
<1>9. PagesOK(t)'
  <2>1. PagesOK(t) /\ \A s, p : Translate(s, p)' = Translate(s, p)
    BY <1>5, TaskTypes, SameWalk
  <2>2. TaskOK(t)'
    BY <1>2, <1>3, <1>5, <1>6, <1>7 DEF TaskOK, Loading
  <2>3. Filled(t)' /\ Gone(t)' /\ Loaded(t)'
    BY <1>3, <1>6, <1>7, PageEntry DEF Filled, Gone, Loaded
  <2>4. Room(t)'
    BY <1>5, <1>6, <1>7, <2>1 DEF PagesOK, Room, FreeFrom
  <2> QED BY <2>2, <2>3, <2>4 DEF PagesOK
<1> QED BY <1>4, <1>5, <1>8, <1>9, QuietStep

\* munmap or the rollback is done: what the rollback passed is free again.
LEMMA MunmapDoneOK ==
  ASSUME VmInv, NEW t \in Slots, MunmapDone(t), calls' \in 0 .. MaxCalls
  PROVE  StepOK(t)
<1>1. /\ op[t].kind \in {"munmap", "undo"} /\ op[t].page = op[t].end /\ op[t].end \in 0 .. LastPage
      /\ op[t].start \in Nat
  <2>1. op[t].kind \in {"munmap", "undo"} /\ op[t].page = op[t].end
    BY DEF MunmapDone
  <2> QED BY <2>1, TaskTypes, OpFields, PageEntry
<1>2. Move(t, Idle, pml4[t], cursor[t], fixed[t])
  <2>1. Idle \in Ops
    BY DEF Ops
  <2> QED BY <2>1, TaskTypes DEF MunmapDone, Move
<1>3. data' = data /\ freeFrames' = freeFrames
  BY DEF MunmapDone
<1>4. /\ op'[t] = Idle /\ pml4'[t] = pml4[t] /\ cursor'[t] = cursor[t] /\ fixed'[t] = fixed[t]
      /\ Idle.kind = "idle"
  BY <1>2 DEF Move, VmInv, VmTypeOK, Idle
<1>5. SpacesOf(t)' \subseteq SpacesOf(t)
  BY <1>4 DEF SpacesOf
<1>6. PagesOK(t)'
  <2>1. PagesOK(t) /\ \A s, p : Translate(s, p)' = Translate(s, p)
    BY <1>3, TaskTypes, SameWalk
  <2>2. TaskOK(t)' /\ Filled(t)' /\ Gone(t)' /\ Loaded(t)'
    BY <1>4 DEF TaskOK, Filled, Gone, Loaded, Loading
  <2>3. Room(t)'
    <3> SUFFICES ASSUME pml4[t] # None, ~fixed[t], NEW p \in Pages, cursor[t] <= p, p < StackStart
                 PROVE  Translate(pml4[t], p) = None
      BY <1>4, <2>1 DEF Room, FreeFrom
    <3>1. CASE op[t].kind = "munmap"
      BY <2>1, <3>1 DEF PagesOK, Room, FreeFrom
    <3>2. CASE op[t].kind = "undo"
      <4>1. op[t].start = cursor[t] /\ p \in Nat
        BY <2>1, <3>2, PageEntry DEF PagesOK, TaskOK
      <4>2. CASE p < op[t].page
        BY <2>1, <3>2, <4>1, <4>2 DEF PagesOK, Gone
      <4>3. CASE op[t].end <= p
        BY <2>1, <3>2, <4>3 DEF PagesOK, Room, FreeFrom
      <4> QED BY <1>1, <4>1, <4>2, <4>3
    <3> QED BY <1>1, <3>1, <3>2
  <2> QED BY <2>2, <2>3 DEF PagesOK
<1> QED BY <1>2, <1>3, <1>5, <1>6, QuietStep

-----------------------------------------------------------------------------
(* Steps that change memory.                                                *)

\* A page is mapped as before, and its frame holds what it held.
PageKept(s, q) ==
  /\ Translate(s, q)' = Translate(s, q)
  /\ Translate(s, q) # None => data'[Translate(s, q)] = data[Translate(s, q)]

\* An entry that is kept is a page that is kept.
LEMMA KeptPage ==
  ASSUME NEW s, NEW q, Kept(data, data', s, q \div Span, q % Span)
  PROVE  PageKept(s, q)
  BY Zenon DEF Kept, Entry, PageKept, Translate, TableOf

\* A step of t that leaves the spaces of the other tasks alone.
LEMMA DataStep ==
  ASSUME VmInv, NEW t \in Slots, NEW o, NEW r, NEW c, NEW x, Move(t, o, r, c, x),
         data' \in Memory, freeFrames' \in SUBSET Frames,
         NEW l, NEW v, NEW b, Labels(data', freeFrames', l, v, b),
         \A s \in Roots : l[s] = "root", \A s \in SpacesOf(t)' : l[s] = "root",
         \A w \in Slots \ {t} : \A s \in SpacesOf(w), m, n \in Idx : Kept(data, data', s, m, n),
         \A w \in Slots \ {t} : SpacesOf(t)' \cap SpacesOf(w) = {},
         PagesOK(t)'
  PROVE  StepOK(t)
<1>1. VmTypeOK' /\ \A w \in Slots \ {t} : Same(w)
  BY Zenon, Moved DEF VmInv
<1>2. \A s \in Roots' : l[s] = "root"
  BY <1>1, RootsAfter
<1>3. Labelled'
  BY <1>2 DEF Labelled
<1> QED BY <1>1, <1>3 DEF StepOK

\* The labels there are.
LEMMA LabelsThere ==
  ASSUME VmInv
  PROVE  /\ data \in Memory /\ freeFrames \in SUBSET Frames
         /\ \E k, u, a : Labels(data, freeFrames, k, u, a) /\ \A s \in Roots : k[s] = "root"
  BY DEF VmInv, VmTypeOK, Labelled, Memory, Words

\* What LoadPage and MmapPage do to memory: page p of space r gets frame f.
MapsPage(t, r, p, f, fill) ==
  /\ r \in SpacesOf(t) /\ p \in Pages /\ fill \in [Idx -> Words]
  /\ Enough(r, p) /\ f = Pick(freeFrames)
  /\ data' = Mapped([data EXCEPT ![f] = fill], r, p, f, freeFrames \ {f})
  /\ freeFrames' = Left(r, p, freeFrames \ {f})

\* Only page p changes: it is mapped to f, which is filled.
LEMMA MapPageStep ==
  ASSUME VmInv, NEW t \in Slots, NEW r, NEW p, NEW f, NEW fill, MapsPage(t, r, p, f, fill)
  PROVE  /\ data' \in Memory /\ freeFrames' \in SUBSET Frames /\ f \in Frames
         /\ \E l, v, b : Labels(data', freeFrames', l, v, b) /\ \A s \in Roots : l[s] = "root"
         /\ \A w \in Slots \ {t} : \A s \in SpacesOf(w), m, n \in Idx : Kept(data, data', s, m, n)
         /\ Translate(r, p)' = f /\ data'[f] = fill
         /\ \A s \in SpacesOf(t), q \in Pages : s # r \/ q # p => PageKept(s, q)
<1>0. /\ r \in SpacesOf(t) /\ p \in Pages /\ fill \in [Idx -> Words]
      /\ Enough(r, p) /\ f = Pick(freeFrames)
      /\ data' = Mapped([data EXCEPT ![f] = fill], r, p, f, freeFrames \ {f})
      /\ freeFrames' = Left(r, p, freeFrames \ {f})
  BY DEF MapsPage
<1>1. PICK k, u, a : Labels(data, freeFrames, k, u, a) /\ \A s \in Roots : k[s] = "root"
  BY LabelsThere
<1>2. r \in Frames /\ k[r] = "root" /\ data \in Memory /\ freeFrames \in SUBSET Frames
  BY <1>0, <1>1, RootFrames, LabelsThere
<1>3. PICK i \in Idx, j \in Idx : i = p \div Span /\ j = p % Span
  BY <1>0, PageEntry
<1>4. /\ f \in freeFrames /\ f \in Frames
      /\ data[r][i] = None => freeFrames \ {f} # {}
  BY <1>0, <1>2, <1>3, PickIn DEF Enough, TableOf
<1>5. freeFrames' = IF data[r][i] = None THEN (freeFrames \ {f}) \ {Pick(freeFrames \ {f})}
                    ELSE freeFrames \ {f}
  BY <1>0, <1>3 DEF Left, TableOf
<1>6. PICK R : R = IF data[r][i] = None THEN (freeFrames \ {f}) \ {Pick(freeFrames \ {f})}
                   ELSE freeFrames \ {f}
  BY Zenon
<1>7. \A e : e = Mapped([data EXCEPT ![f] = fill], r, p, f, freeFrames \ {f}) =>
        PageMapped(data, e, k, r, i, j, f, fill, R)
  BY Zenon, <1>0, <1>1, <1>2, <1>3, <1>4, <1>6, MapStep
<1>8. PageMapped(data, data', k, r, i, j, f, fill, freeFrames')
  BY Zenon, <1>0, <1>5, <1>6, <1>7
<1>9. /\ data' \in Memory /\ Entry(data', r, i, j) = f /\ data'[f] = fill
      /\ \E l, v, b : /\ Labels(data', freeFrames', l, v, b)
                      /\ \A s \in Frames : k[s] = "root" => l[s] = "root"
      /\ OthersKept(data, data', k, r, i, j)
  BY <1>8 DEF PageMapped
<1>10. Translate(r, p)' = f
  BY Zenon, <1>0, <1>3, <1>9 DEF Translate, TableOf, Entry
<1>11. Roots \subseteq Frames
  BY RootFrames DEF Roots
<1>12. \E l, v, b : Labels(data', freeFrames', l, v, b) /\ \A s \in Roots : l[s] = "root"
  BY <1>1, <1>9, <1>11
<1>13. \A w \in Slots \ {t} : \A s \in SpacesOf(w), m, n \in Idx : Kept(data, data', s, m, n)
  <2> SUFFICES ASSUME NEW w \in Slots \ {t}, NEW s \in SpacesOf(w), NEW m \in Idx, NEW n \in Idx
               PROVE  Kept(data, data', s, m, n)
    OBVIOUS
  <2>1. s # r
    BY <1>0 DEF VmInv, OwnSpaces
  <2>2. s \in Frames /\ k[s] = "root"
    BY <1>1, RootFrames
  <2> QED BY <1>9, <2>1, <2>2 DEF OthersKept
<1>14. ASSUME NEW s \in SpacesOf(t), NEW q \in Pages, s # r \/ q # p
       PROVE  PageKept(s, q)
  <2>1. s \in Frames /\ k[s] = "root" /\ q \div Span \in Idx /\ q % Span \in Idx
    BY <1>1, RootFrames, PageEntry
  <2>2. s # r \/ q \div Span # i \/ q % Span # j
    BY <1>0, <1>3, <1>14, PageEntry
  <2>3. Kept(data, data', s, q \div Span, q % Span)
    BY <1>9, <2>1, <2>2 DEF OthersKept
  <2> QED BY <2>3, KeptPage
<1>15. freeFrames' \in SUBSET Frames
  BY <1>2, <1>5
<1> QED BY Zenon, <1>4, <1>9, <1>10, <1>12, <1>13, <1>14, <1>15

\* The next page of the image or of the stack.
LEMMA LoadPageOK ==
  ASSUME VmInv, NEW t \in Slots, LoadPage(t), calls' \in 0 .. MaxCalls
  PROVE  StepOK(t)
<1>1. PICK r, p, f, fill :
        /\ r = op[t].root /\ p = op[t].page /\ f = Pick(freeFrames)
        /\ fill = IF op[t].kind = "image" THEN [i \in Idx |-> Junk] ELSE Zero
  BY Zenon
<1>2. /\ op[t].kind \in {"image", "stack"} /\ Enough(r, p)
      /\ op[t].kind = "image" => p < ImageEnd
      /\ op[t].kind = "stack" => p < StackEnd
      /\ data' = Mapped([data EXCEPT ![f] = fill], r, p, f, freeFrames \ {f})
      /\ freeFrames' = Left(r, p, freeFrames \ {f})
      /\ op' = [op EXCEPT ![t] = [op[t] EXCEPT !.page = p + 1]]
      /\ UNCHANGED <<pml4, cursor, fixed>>
  BY <1>1 DEF LoadPage
<1>3. r \in SpacesOf(t) /\ p \in Nat /\ p \in Pages /\ p + 1 \in 0 .. LastPage
  <2>1. p \in 0 .. LastPage
    BY <1>1, <1>2, TaskTypes, OpFields
  <2>2. p < LastPage
    BY <1>2, <2>1, Layout
  <2>3. r \in SpacesOf(t)
    BY <1>1, <1>2 DEF SpacesOf
  <2> QED BY <2>1, <2>2, <2>3, Layout DEF Pages
<1>4. fill \in [Idx -> Words]
  BY <1>1 DEF Zero, Words
<1>5. PICK o : o = [op[t] EXCEPT !.page = p + 1]
  BY Zenon
<1>6. o \in Ops /\ o.kind = op[t].kind /\ o.root = r /\ o.page = p + 1
  BY <1>1, <1>2, <1>3, <1>5, TaskTypes, LoadFields
<1>7. Move(t, o, pml4[t], cursor[t], fixed[t])
  BY <1>2, <1>5, <1>6, TaskTypes DEF Move
<1>8. /\ data' \in Memory /\ freeFrames' \in SUBSET Frames /\ f \in Frames
      /\ \E l, v, b : Labels(data', freeFrames', l, v, b) /\ \A s \in Roots : l[s] = "root"
      /\ \A w \in Slots \ {t} : \A s \in SpacesOf(w), m, n \in Idx : Kept(data, data', s, m, n)
      /\ \A s \in SpacesOf(t), q \in Pages : s # r \/ q # p => PageKept(s, q)
  <2>1. MapsPage(t, r, p, f, fill)
    BY <1>1, <1>2, <1>3, <1>4 DEF MapsPage
  <2> QED BY <2>1, MapPageStep
<1>9. op'[t] = o /\ pml4'[t] = pml4[t] /\ cursor'[t] = cursor[t] /\ fixed'[t] = fixed[t]
  BY <1>7 DEF Move, VmInv, VmTypeOK
<1>10. SpacesOf(t)' = SpacesOf(t)
  BY <1>1, <1>6, <1>9 DEF SpacesOf
<1>11. PagesOK(t)'
  <2>1. PagesOK(t)
    BY TaskTypes
  <2>2. TaskOK(t)'
    BY <1>1, <1>2, <1>6, <1>9, <2>1 DEF PagesOK, TaskOK, Loading
  <2>3. Filled(t)' /\ Gone(t)'
    BY <1>2, <1>6, <1>9 DEF Filled, Gone
  <2>4. Room(t)'
    <3>1. pml4[t] # r
      BY <1>1, <1>2, <2>1 DEF PagesOK, TaskOK, Loading
    <3>2. ASSUME pml4[t] # None, NEW q \in Pages
          PROVE  Translate(pml4[t], q)' = Translate(pml4[t], q)
      <4>1. pml4[t] \in SpacesOf(t)
        BY <3>2 DEF SpacesOf
      <4>2. PageKept(pml4[t], q)
        BY <1>8, <3>1, <4>1
      <4> QED BY <1>9, <4>2 DEF PageKept
    <3>3. FreeFrom(t)' = FreeFrom(t)
      BY <1>2, <1>6, <1>9 DEF FreeFrom
    <3> QED BY Zenon, <1>9, <2>1, <3>2, <3>3 DEF PagesOK, Room
  <2>5. Loaded(t)'
    <3>1. ASSUME NEW q \in Pages, q # p PROVE Translate(r, q)' = Translate(r, q)
      BY Zenon, <1>3, <1>8, <3>1 DEF PageKept
    <3>2. CASE op[t].kind = "image"
      <4>1. p + 1 <= ImageEnd
        BY <1>2, <1>3, <3>2, Layout
      <4>2. ASSUME NEW q \in Pages, p + 1 <= q PROVE Translate(r, q)' = None
        <5>1. q # p /\ p <= q
          BY <1>3, <4>2, PageEntry
        <5>2. Translate(r, q) = None
          BY <1>1, <2>1, <3>2, <5>1 DEF PagesOK, Loaded
        <5> QED BY <3>1, <5>1, <5>2
      <4> QED BY <1>6, <1>9, <3>2, <4>1, <4>2 DEF Loaded
    <3>3. CASE op[t].kind = "stack"
      <4>1. p \in StackStart .. StackEnd
        BY Zenon, <1>1, <2>1, <3>3 DEF PagesOK, Loaded
      <4>2. p + 1 \in StackStart .. StackEnd
        BY <1>2, <3>3, <4>1, Layout
      <4>3. ASSUME NEW q \in Pages, (ImageEnd <= q /\ q < StackStart) \/ p + 1 <= q
            PROVE  Translate(r, q)' = None
        <5>1. q \in Nat
          BY PageEntry
        <5>2. q # p /\ ((ImageEnd <= q /\ q < StackStart) \/ p <= q)
          BY <1>3, <4>1, <4>3, <5>1, Layout
        <5>3. Translate(r, q) = None
          BY Zenon, <1>1, <2>1, <3>3, <5>2 DEF PagesOK, Loaded
        <5> QED BY <3>1, <5>2, <5>3
      <4> QED BY <1>6, <1>9, <3>3, <4>2, <4>3 DEF Loaded
    <3> QED BY <1>2, <3>2, <3>3
  <2> QED BY <2>2, <2>3, <2>4, <2>5 DEF PagesOK
<1>12. \A w \in Slots \ {t} : SpacesOf(t)' \cap SpacesOf(w) = {}
  BY <1>10 DEF VmInv, OwnSpaces
<1>13. PICK l, v, b : Labels(data', freeFrames', l, v, b) /\ \A s \in Roots : l[s] = "root"
  BY <1>8
<1>14. \A s \in SpacesOf(t)' : l[s] = "root"
  BY <1>10, <1>13, RootFrames
<1> QED BY Zenon, <1>7, <1>8, <1>11, <1>12, <1>13, <1>14, DataStep

\* The next page of mmap: zero, and in nobody else's space.
LEMMA MmapPageOK ==
  ASSUME VmInv, NEW t \in Slots, MmapPage(t), calls' \in 0 .. MaxCalls
  PROVE  StepOK(t)
<1>1. PICK r, p, f : r = pml4[t] /\ p = op[t].page /\ f = Pick(freeFrames)
  OBVIOUS
<1>2. /\ op[t].kind = "mmap" /\ Enough(r, p) /\ p < op[t].end
      /\ data' = Mapped([data EXCEPT ![f] = Zero], r, p, f, freeFrames \ {f})
      /\ freeFrames' = Left(r, p, freeFrames \ {f})
      /\ op' = [op EXCEPT ![t] = [op[t] EXCEPT !.page = p + 1]]
      /\ UNCHANGED <<pml4, cursor, fixed>>
  BY <1>1 DEF MmapPage
<1>3. /\ r \in SpacesOf(t) /\ p \in Nat /\ p \in Pages /\ p + 1 \in 0 .. LastPage
      /\ op[t].start \in Nat /\ op[t].start \in Pages /\ op[t].end \in 0 .. LastPage
      /\ op[t].start <= p /\ p + 1 <= op[t].end /\ r # None
  <2>1. p \in 0 .. LastPage /\ op[t].end \in 0 .. LastPage /\ op[t].start \in Pages
    BY <1>1, <1>2, TaskTypes, OpFields
  <2>2. p < LastPage /\ p + 1 <= op[t].end /\ op[t].start \in Nat
    BY <1>2, <2>1, Layout, PageEntry
  <2>3. r # None /\ op[t].start <= p
    BY <1>1, <1>2, TaskTypes DEF PagesOK, TaskOK
  <2>4. r \in SpacesOf(t)
    BY <1>1, <2>3 DEF SpacesOf
  <2> QED BY <2>1, <2>2, <2>3, <2>4, Layout DEF Pages
<1>4. Zero \in [Idx -> Words]
  BY DEF Zero, Words
<1>5. PICK o : o = [kind |-> "mmap", start |-> op[t].start, page |-> p + 1, end |-> op[t].end]
  BY Zenon
<1>6. /\ o \in Ops /\ o.kind = "mmap" /\ o.start = op[t].start /\ o.page = p + 1
      /\ o.end = op[t].end
  BY <1>3, <1>5 DEF Ops
<1>7. Move(t, o, pml4[t], cursor[t], fixed[t])
  <2>1. [op[t] EXCEPT !.page = p + 1] = o
    BY <1>2, <1>5, TaskTypes, CallFields
  <2> QED BY Zenon, <1>2, <1>6, <2>1, TaskTypes DEF Move
<1>8. /\ data' \in Memory /\ freeFrames' \in SUBSET Frames /\ f \in Frames
      /\ \E l, v, b : Labels(data', freeFrames', l, v, b) /\ \A s \in Roots : l[s] = "root"
      /\ \A w \in Slots \ {t} : \A s \in SpacesOf(w), m, n \in Idx : Kept(data, data', s, m, n)
      /\ Translate(r, p)' = f /\ data'[f] = Zero
      /\ \A s \in SpacesOf(t), q \in Pages : s # r \/ q # p => PageKept(s, q)
  <2>1. MapsPage(t, r, p, f, Zero)
    BY <1>1, <1>2, <1>3, <1>4 DEF MapsPage
  <2> QED BY <2>1, MapPageStep
<1>9. op'[t] = o /\ pml4'[t] = r /\ cursor'[t] = cursor[t] /\ fixed'[t] = fixed[t]
  BY <1>1, <1>7 DEF Move, VmInv, VmTypeOK
<1>10. SpacesOf(t)' = SpacesOf(t)
  BY <1>1, <1>2, <1>6, <1>9 DEF SpacesOf
<1>11. PagesOK(t)'
  <2>1. PagesOK(t)
    BY TaskTypes
  <2>2. TaskOK(t)'
    BY <1>1, <1>2, <1>3, <1>6, <1>9, <2>1 DEF PagesOK, TaskOK, Loading
  <2>3. ASSUME NEW q \in Pages, q # p
        PROVE  /\ Translate(r, q)' = Translate(r, q)
               /\ Translate(r, q) # None => data'[Translate(r, q)] = data[Translate(r, q)]
    BY Zenon, <1>3, <1>8, <2>3 DEF PageKept
  <2>4. Filled(t)'
    <3>1. ASSUME NEW q \in Pages, op[t].start <= q, q < p + 1
          PROVE  Translate(r, q)' # None /\ data'[Translate(r, q)'] = Zero
      <4>1. CASE q = p
        BY <1>8, <4>1, VmAssumption
      <4>2. CASE q # p
        <5>1. q < p
          BY <1>3, <3>1, <4>2, PageEntry
        <5>2. Translate(r, q) # None /\ data[Translate(r, q)] = Zero
          BY <1>1, <1>2, <2>1, <3>1, <5>1 DEF PagesOK, Filled
        <5> QED BY <2>3, <4>2, <5>2
      <4> QED BY <4>1, <4>2
    <3> QED BY Zenon, <1>6, <1>9, <3>1 DEF Filled
  <2>5. Gone(t)' /\ Loaded(t)'
    BY <1>6, <1>9 DEF Gone, Loaded
  <2>6. Room(t)'
    <3>1. ASSUME ~fixed[t], NEW q \in Pages, p + 1 <= q, q < StackStart
          PROVE  Translate(r, q)' = None
      <4>1. q \in Nat
        BY PageEntry
      <4>3. q # p /\ p <= q
        BY <1>3, <3>1, <4>1
      <4>2. Translate(r, q) = None
        BY <1>1, <1>2, <1>3, <2>1, <3>1, <4>3 DEF PagesOK, Room, FreeFrom
      <4> QED BY <2>3, <4>2, <4>3
    <3> QED BY <1>6, <1>9, <3>1 DEF Room, FreeFrom
  <2> QED BY <2>2, <2>4, <2>5, <2>6 DEF PagesOK
<1>12. \A w \in Slots \ {t} : SpacesOf(t)' \cap SpacesOf(w) = {}
  BY <1>10 DEF VmInv, OwnSpaces
<1>13. PICK l, v, b : Labels(data', freeFrames', l, v, b) /\ \A s \in Roots : l[s] = "root"
  BY <1>8
<1>14. \A s \in SpacesOf(t)' : l[s] = "root"
  BY <1>10, <1>13, RootFrames
<1> QED BY Zenon, <1>7, <1>8, <1>11, <1>12, <1>13, <1>14, DataStep

\* vmm_space_clone: a space of its own, and empty.
LEMMA CloneOK ==
  ASSUME VmInv, NEW t \in Slots, Clone(t), calls' \in 0 .. MaxCalls
  PROVE  StepOK(t)
<1>1. PICK h : h = Pick(freeFrames)
  OBVIOUS
<1>2. PICK o : o = [kind |-> "image", root |-> h, page |-> 1, locked |-> FALSE]
  BY Zenon
<1>3. /\ op[t] = Idle /\ h \in freeFrames /\ freeFrames' = freeFrames \ {h}
      /\ data' = [data EXCEPT ![h] = Zero] /\ op' = [op EXCEPT ![t] = o]
      /\ UNCHANGED <<pml4, cursor, fixed>>
  BY <1>1, <1>2, PickIn DEF Clone
<1>4. PICK k, u, a : Labels(data, freeFrames, k, u, a) /\ \A s \in Roots : k[s] = "root"
  BY LabelsThere
<1>5. data \in Memory /\ freeFrames \in SUBSET Frames /\ h \in Frames /\ k[h] = "free"
  BY <1>3, <1>4, LabelsThere DEF Labels
<1>6. /\ data' \in Memory /\ \A g \in Frames : g # h => data'[g] = data[g]
      /\ \A n \in Idx : data'[h][n] = None
  <2>1. Clears(data, data', h)
    BY Zenon, <1>3 DEF Clears
  <2> QED BY <1>5, <2>1, Cleared
<1>7. PICK l : l = [k EXCEPT ![h] = "root"]
  BY Zenon
<1>8. l \in [Frames -> Kinds] /\ l[h] = "root" /\ \A g \in Frames : g # h => l[g] = k[g]
  BY <1>4, <1>5, <1>7 DEF Labels, Kinds
<1>9. /\ Labels(data', freeFrames \ {h}, l, u, a)
      /\ \A m, n \in Idx : Entry(data', h, m, n) = None
      /\ AllKept(data, data', k)
  <2>1. h \in freeFrames /\ \A g \in Frames : g # h => l[g] = k[g] /\ data'[g] = data[g]
    BY Zenon, <1>3, <1>6, <1>8
  <2>2. RootAdded(data, data', freeFrames, k, u, a, h, l)
    BY Zenon, <1>4, <1>5, <1>6, <1>8, <2>1 DEF RootAdded
  <2> QED BY <2>2, AddRoot
<1>10. o \in Ops /\ o.kind = "image" /\ o.root = h /\ o.page = 1
  BY Zenon, <1>2, <1>5, NewLoad
<1>11. Move(t, o, pml4[t], cursor[t], fixed[t])
  BY <1>3, <1>10, TaskTypes DEF Move
<1>12. op'[t] = o /\ pml4'[t] = pml4[t] /\ cursor'[t] = cursor[t] /\ fixed'[t] = fixed[t]
  BY <1>11 DEF Move, VmInv, VmTypeOK
<1>13. SpacesOf(t)' = SpacesOf(t) \cup {h} /\ h \notin Roots /\ op[t].kind = "idle"
  BY <1>3, <1>4, <1>5, <1>10, <1>12 DEF SpacesOf, Idle
<1>14. \A s \in Roots : l[s] = "root" /\ s \in Frames
  <2>1. Roots \subseteq Frames
    BY RootFrames DEF Roots
  <2> QED BY Zenon, <1>4, <1>8, <1>13, <2>1
<1>15. \A w \in Slots : \A s \in SpacesOf(w), m, n \in Idx : Kept(data, data', s, m, n)
  BY <1>4, <1>9, RootFrames DEF AllKept
<1>16. PagesOK(t)'
  <2>1. PagesOK(t)
    BY TaskTypes
  <2>2. TaskOK(t)'
    <3>1. pml4[t] # h
      BY <1>5, <1>13, VmAssumption DEF SpacesOf, Roots
    <3> QED BY <1>10, <1>12, <3>1 DEF TaskOK, Loading
  <2>3. Filled(t)' /\ Gone(t)'
    BY <1>10, <1>12 DEF Filled, Gone
  <2>4. Room(t)'
    <3>1. ASSUME pml4[t] # None, NEW q \in Pages
          PROVE  Translate(pml4[t], q)' = Translate(pml4[t], q)
      <4>1. Kept(data, data', pml4[t], q \div Span, q % Span)
        BY <1>15, <3>1, PageEntry DEF SpacesOf
      <4> QED BY <1>12, <4>1, KeptPage DEF PageKept
    <3> QED BY Zenon, <1>10, <1>12, <1>13, <2>1, <3>1 DEF PagesOK, Room, FreeFrom
  <2>5. Loaded(t)'
    <3>1. ASSUME NEW q \in Pages PROVE Translate(h, q)' = None
      <4>1. Entry(data', h, q \div Span, q % Span) = None
        BY <1>9, PageEntry
      <4> QED BY <4>1 DEF Entry, Translate, TableOf
    <3> QED BY <1>10, <1>12, <3>1, Layout DEF Loaded
  <2> QED BY <2>2, <2>3, <2>4, <2>5 DEF PagesOK
<1>17. \A w \in Slots \ {t} : SpacesOf(t)' \cap SpacesOf(w) = {}
  BY <1>13, RootFrames DEF VmInv, OwnSpaces
<1>18. \A s \in SpacesOf(t)' : l[s] = "root"
  BY <1>8, <1>13, <1>14, RootFrames
<1>19. freeFrames' \in SUBSET Frames /\ Labels(data', freeFrames', l, u, a)
  BY <1>3, <1>5, <1>9
<1>20. \A w \in Slots \ {t} : \A s \in SpacesOf(w), m, n \in Idx : Kept(data, data', s, m, n)
  BY <1>15
<1> QED BY Zenon, <1>6, <1>11, <1>14, <1>16, <1>17, <1>18, <1>19, <1>20, DataStep

\* mmap without memory turns to its rollback.
LEMMA MmapFailOK ==
  ASSUME VmInv, NEW t \in Slots, MmapFail(t), calls' \in 0 .. MaxCalls
  PROVE  StepOK(t)
<1>1. PICK o : o = [kind |-> "undo", start |-> op[t].start, page |-> op[t].start,
                    end |-> op[t].page]
  BY Zenon
<1>2. /\ op[t].kind = "mmap" /\ op' = [op EXCEPT ![t] = o]
      /\ UNCHANGED <<freeFrames, pml4, cursor, fixed>>
      /\ data' = IF freeFrames = {} THEN data ELSE [data EXCEPT ![Pick(freeFrames)] = Zero]
  BY <1>1 DEF MmapFail
<1>3. /\ op[t].start \in Pages /\ op[t].start \in 0 .. LastPage /\ op[t].page \in 0 .. LastPage
      /\ op[t].start <= op[t].page /\ pml4[t] # None /\ op[t].start \in Nat
  <2>1. op[t].start \in Pages /\ op[t].page \in 0 .. LastPage
    BY <1>2, TaskTypes, OpFields
  <2>2. op[t].start <= op[t].page /\ pml4[t] # None
    BY <1>2, TaskTypes DEF PagesOK, TaskOK
  <2>3. op[t].start \in Nat /\ op[t].start \in 0 .. LastPage
    BY <2>1, PageEntry, Layout DEF Pages
  <2> QED BY <2>1, <2>2, <2>3
<1>4. /\ o \in Ops /\ o.kind = "undo" /\ o.start = op[t].start /\ o.page = op[t].start
      /\ o.end = op[t].page
  BY Zenon, <1>1, <1>3 DEF Ops
<1>5. Move(t, o, pml4[t], cursor[t], fixed[t])
  BY <1>2, <1>4, TaskTypes DEF Move
<1>6. op'[t] = o /\ pml4'[t] = pml4[t] /\ cursor'[t] = cursor[t] /\ fixed'[t] = fixed[t]
  BY <1>5 DEF Move, VmInv, VmTypeOK
<1>7. SpacesOf(t)' = SpacesOf(t)
  BY Zenon, <1>2, <1>4, <1>6 DEF SpacesOf
<1>8. PICK k, u, a : Labels(data, freeFrames, k, u, a) /\ \A s \in Roots : k[s] = "root"
  BY LabelsThere
<1>9. data \in Memory /\ freeFrames \in SUBSET Frames
  BY LabelsThere
<1>10. /\ data' \in Memory /\ Labels(data', freeFrames, k, u, a)
       /\ \A s \in Frames, m, n \in Idx : k[s] = "root" => Kept(data, data', s, m, n)
  <2>1. CASE freeFrames = {}
    BY <1>2, <1>8, <1>9, <2>1 DEF Kept
  <2>2. CASE freeFrames # {}
    <3>1. PICK f : f = Pick(freeFrames)
      OBVIOUS
    <3>2. f \in freeFrames /\ f \in Frames
      BY <1>9, <2>2, <3>1, PickIn
    <3>3. Clears(data, data', f)
      BY <1>2, <2>2, <3>1 DEF Clears
    <3>4. data' \in Memory /\ \A g \in Frames : g # f => data'[g] = data[g]
      BY <1>9, <3>2, <3>3, Cleared
    <3>5. FreeChanged(data, data', freeFrames, k, u, a, f)
      BY Zenon, <1>8, <1>9, <3>2, <3>4 DEF FreeChanged
    <3> QED BY Zenon, <3>4, <3>5, FreeOverwritten DEF AllKept
  <2> QED BY <2>1, <2>2
<1>11. \A w \in Slots : \A s \in SpacesOf(w), m, n \in Idx : Kept(data, data', s, m, n)
  BY <1>8, <1>10, RootFrames
<1>12. PagesOK(t)'
  <2>1. PagesOK(t)
    BY TaskTypes
  <2>2. TaskOK(t)'
    <3>1. ~fixed[t] => op[t].start = cursor[t]
      BY <1>2, <2>1 DEF PagesOK, TaskOK
    <3>2. op[t].start <= op[t].start
      BY <1>3
    <3> QED BY Zenon, <1>3, <1>4, <1>6, <3>1, <3>2 DEF TaskOK, Loading
  <2>3. Filled(t)' /\ Loaded(t)'
    BY Zenon, <1>4, <1>6 DEF Filled, Loaded
  <2>4. Gone(t)'
    <3>1. ASSUME NEW i \in Nat, NEW q \in Nat PROVE ~(i <= q /\ q < i)
      OBVIOUS
    <3>2. \A q \in Pages : ~(op[t].start <= q /\ q < op[t].start)
      BY Zenon, <1>3, <3>1, PageEntry
    <3> QED BY Zenon, <1>4, <1>6, <3>2 DEF Gone
  <2>5. Room(t)'
    <3>1. ASSUME NEW q \in Pages PROVE Translate(pml4[t], q)' = Translate(pml4[t], q)
      <4>1. Kept(data, data', pml4[t], q \div Span, q % Span)
        BY Zenon, <1>3, <1>11, PageEntry DEF SpacesOf
      <4> QED BY <1>6, <4>1, KeptPage DEF PageKept
    <3> QED BY Zenon, <1>2, <1>4, <1>6, <2>1, <3>1 DEF PagesOK, Room, FreeFrom
  <2> QED BY <2>2, <2>3, <2>4, <2>5 DEF PagesOK
<1>13. \A w \in Slots \ {t} : SpacesOf(t)' \cap SpacesOf(w) = {}
  BY <1>7 DEF VmInv, OwnSpaces
<1>14. \A s \in SpacesOf(t)' : k[s] = "root"
  BY <1>7, <1>8, RootFrames
<1>15. freeFrames' \in SUBSET Frames /\ Labels(data', freeFrames', k, u, a)
  BY <1>2, <1>9, <1>10
<1>16. \A w \in Slots \ {t} : \A s \in SpacesOf(w), m, n \in Idx : Kept(data, data', s, m, n)
  BY <1>11
<1> QED BY Zenon, <1>5, <1>8, <1>10, <1>12, <1>13, <1>14, <1>15, <1>16, DataStep

\* A store reaches a page of the program's own space, no table and no other
\* space.
LEMMA StoreOK ==
  ASSUME VmInv, NEW t \in Slots, NEW p \in Pages, Store(t, p), calls' \in 0 .. MaxCalls
  PROVE  StepOK(t)
<1>1. PICK f : f = Translate(pml4[t], p)
  OBVIOUS
<1>2. /\ op[t] = Idle /\ pml4[t] # None /\ f # None
      /\ data' = [data EXCEPT ![f] = [i \in Idx |-> Junk]]
      /\ UNCHANGED <<freeFrames, pml4, cursor, op, fixed>>
  BY <1>1 DEF Store, Running
<1>3. Move(t, op[t], pml4[t], cursor[t], fixed[t])
  BY <1>2, TaskTypes DEF Move
<1>4. PICK k, u, a : Labels(data, freeFrames, k, u, a) /\ \A s \in Roots : k[s] = "root"
  BY LabelsThere
<1>5. data \in Memory /\ freeFrames \in SUBSET Frames
  BY LabelsThere
<1>6. /\ pml4[t] \in SpacesOf(t) /\ pml4[t] \in Frames /\ k[pml4[t]] = "root"
  <2>1. pml4[t] \in SpacesOf(t)
    BY <1>2 DEF SpacesOf
  <2> QED BY <1>4, <2>1, RootFrames
<1>7. PICK h : h = TableOf(pml4[t], p)
  OBVIOUS
<1>8. /\ h \in Frames /\ k[h] = "table" /\ u[h] = pml4[t]
      /\ f \in Frames /\ k[f] = "leaf" /\ u[f] = h
  <2>1. PICK i \in Idx, j \in Idx : i = p \div Span /\ j = p % Span
    BY PageEntry
  <2>2. h # None /\ f # None /\ h = data[pml4[t]][i] /\ f = data[h][j]
    BY Zenon, <1>1, <1>2, <1>7, <2>1 DEF Translate, TableOf
  <2>3. h \in Frames /\ k[h] = "table" /\ u[h] = pml4[t]
    BY <1>4, <1>6, <2>2 DEF Labels, RootsAgree
  <2>4. f \in Frames /\ k[f] = "leaf" /\ u[f] = h
    BY <1>4, <2>2, <2>3 DEF Labels, TablesAgree
  <2> QED BY <2>3, <2>4
<1>9. data' \in Memory /\ \A g \in Frames : g # f => data'[g] = data[g]
  BY <1>2, <1>5, <1>8 DEF Memory, Words
<1>10. /\ Labels(data', freeFrames, k, u, a)
       /\ \A s \in Frames, m, n \in Idx : k[s] = "root" =>
            /\ Entry(data', s, m, n) = Entry(data, s, m, n)
            /\ Entry(data, s, m, n) # f => Kept(data, data', s, m, n)
  BY <1>4, <1>5, <1>8, <1>9, Overwrite
<1>11. ASSUME NEW w \in Slots \ {t}, NEW s \in SpacesOf(w), NEW m \in Idx, NEW n \in Idx
       PROVE  Kept(data, data', s, m, n)
  <2>1. s \in Frames /\ k[s] = "root" /\ s # pml4[t]
    BY <1>4, <1>6, RootFrames DEF VmInv, OwnSpaces
  <2>2. Entry(data, s, m, n) # f
    <3>1. CASE data[s][m] = None
      BY <1>2, <3>1 DEF Entry
    <3>2. CASE data[s][m] # None
      <4>1. data[s][m] \in Frames /\ k[data[s][m]] = "table" /\ u[data[s][m]] = s
        BY <1>4, <2>1, <3>2 DEF Labels, RootsAgree
      <4>2. data[data[s][m]][n] # None => u[data[data[s][m]][n]] = data[s][m]
        BY <1>4, <4>1 DEF Labels, TablesAgree
      <4> QED BY <1>2, <1>8, <2>1, <3>2, <4>1, <4>2 DEF Entry
    <3> QED BY <3>1, <3>2
  <2> QED BY <1>10, <2>1, <2>2
<1>12. PagesOK(t)'
  <2>1. PagesOK(t) /\ op[t].kind = "idle"
    BY <1>2, TaskTypes DEF Idle
  <2>2. TaskOK(t)' /\ Filled(t)' /\ Gone(t)' /\ Loaded(t)'
    BY <1>2, <2>1 DEF TaskOK, Filled, Gone, Loaded, Loading
  <2>3. ASSUME NEW q \in Pages PROVE Translate(pml4[t], q)' = Translate(pml4[t], q)
    <3>1. Entry(data', pml4[t], q \div Span, q % Span) = Entry(data, pml4[t], q \div Span, q % Span)
      BY <1>6, <1>10, PageEntry
    <3> QED BY Zenon, <1>2, <3>1 DEF Entry, Translate, TableOf
  <2>4. Room(t)'
    BY <1>2, <2>1, <2>3 DEF PagesOK, Room, FreeFrom
  <2> QED BY <2>2, <2>4 DEF PagesOK
<1>13. SpacesOf(t)' = SpacesOf(t)
  BY <1>2 DEF SpacesOf
<1>14. \A w \in Slots \ {t} : SpacesOf(t)' \cap SpacesOf(w) = {}
  BY <1>13 DEF VmInv, OwnSpaces
<1>15. \A s \in SpacesOf(t)' : k[s] = "root"
  BY <1>4, <1>13, RootFrames
<1>16. freeFrames' \in SUBSET Frames /\ Labels(data', freeFrames', k, u, a)
  BY <1>2, <1>5, <1>10
<1>17. \A w \in Slots \ {t} : \A s \in SpacesOf(w), m, n \in Idx : Kept(data, data', s, m, n)
  BY <1>11
<1> QED BY Zenon, <1>3, <1>4, <1>9, <1>12, <1>14, <1>15, <1>16, <1>17, DataStep

\* What MunmapPage does to memory when page p of space r is mapped to f.
UnmapsPage(t, r, p, f) ==
  /\ r \in SpacesOf(t) /\ p \in Pages /\ f = Translate(r, p) /\ f # None
  /\ data' = Unmapped(r, p) /\ freeFrames' = freeFrames \cup {f}

\* Only page p changes.
LEMMA UnmapStep ==
  ASSUME VmInv, NEW t \in Slots, NEW r, NEW p, NEW f, UnmapsPage(t, r, p, f)
  PROVE  /\ data' \in Memory /\ freeFrames' \in SUBSET Frames
         /\ \E l, v, b : Labels(data', freeFrames', l, v, b) /\ \A s \in Roots : l[s] = "root"
         /\ \A w \in Slots \ {t} : \A s \in SpacesOf(w), m, n \in Idx : Kept(data, data', s, m, n)
         /\ Translate(r, p)' = None
         /\ \A s \in SpacesOf(t), q \in Pages : s # r \/ q # p => PageKept(s, q)
<1>1. PICK k, u, a : Labels(data, freeFrames, k, u, a) /\ \A s \in Roots : k[s] = "root"
  BY LabelsThere
<1>2. PICK i, j, h : i = p \div Span /\ j = p % Span /\ h = data[r][i]
  OBVIOUS
<1>3. /\ r \in SpacesOf(t) /\ p \in Pages /\ h # None /\ f # None /\ f = data[h][j]
      /\ freeFrames' = freeFrames \cup {f}
  BY <1>2 DEF UnmapsPage, Translate, TableOf
<1>4. data \in Memory /\ freeFrames \in SUBSET Frames /\ i \in Idx /\ j \in Idx
  BY Zenon, <1>2, <1>3, LabelsThere, PageEntry
<1>5. r \in Frames /\ k[r] = "root"
  BY <1>1, <1>3, RootFrames
<1>6. h \in Frames /\ k[h] = "table"
  <2>1. h = data[r][i] /\ h # None
    BY Zenon, <1>2, <1>3
  <2> QED BY <1>1, <1>4, <1>5, <2>1 DEF Labels, RootsAgree
<1>7. f \in Frames /\ k[f] = "leaf"
  BY <1>1, <1>3, <1>4, <1>6 DEF Labels, TablesAgree
<1>8. WordSet(data, data', h, j, None, h)
  <2>1. data' = [data EXCEPT ![h][j] = None]
    BY <1>2 DEF UnmapsPage, Unmapped, TableOf
  <2> QED BY <1>4, <1>6, <2>1 DEF WordSet, Memory, Words
<1>9. PICK l : l = [k EXCEPT ![f] = "free"]
  BY Zenon
<1>10. l \in [Frames -> Kinds] /\ l[f] = "free" /\ \A g \in Frames : g # f => l[g] = k[g]
  <2>1. k \in [Frames -> Kinds]
    BY <1>1 DEF Labels
  <2> QED BY <1>7, <1>9, <2>1 DEF Kinds
<1>11. LeafDropped(data, data', freeFrames, k, u, a, r, i, h, j, f, l)
  <2>1. data' \in Memory
    BY <1>8 DEF WordSet
  <2> QED BY Zenon, <1>1, <1>2, <1>3, <1>4, <1>5, <1>8, <1>10, <2>1 DEF LeafDropped
<1>12. /\ Labels(data', freeFrames \cup {f}, l, u, a) /\ Entry(data', r, i, j) = None
       /\ OthersKept(data, data', k, r, i, j)
  BY <1>11, DropLeaf
<1>13. Translate(r, p)' = None
  BY <1>2, <1>12 DEF Translate, TableOf, Entry
<1>14. \A w \in Slots \ {t} : \A s \in SpacesOf(w), m, n \in Idx : Kept(data, data', s, m, n)
  <2> SUFFICES ASSUME NEW w \in Slots \ {t}, NEW s \in SpacesOf(w), NEW m \in Idx, NEW n \in Idx
               PROVE  Kept(data, data', s, m, n)
    OBVIOUS
  <2>1. s # r
    BY <1>3 DEF VmInv, OwnSpaces
  <2>2. s \in Frames /\ k[s] = "root"
    BY <1>1, RootFrames
  <2> QED BY <1>12, <2>1, <2>2 DEF OthersKept
<1>15. ASSUME NEW s \in SpacesOf(t), NEW q \in Pages, s # r \/ q # p PROVE PageKept(s, q)
  <2>1. s \in Frames /\ k[s] = "root" /\ q \div Span \in Idx /\ q % Span \in Idx
    BY <1>1, RootFrames, PageEntry
  <2>2. s # r \/ q \div Span # i \/ q % Span # j
    BY Zenon, <1>2, <1>3, <1>15, PageEntry
  <2>3. Kept(data, data', s, q \div Span, q % Span)
    BY <1>12, <2>1, <2>2 DEF OthersKept
  <2> QED BY <2>3, KeptPage
<1>16. \E x, v, b : Labels(data', freeFrames', x, v, b) /\ \A s \in Roots : x[s] = "root"
  <2>1. Labels(data', freeFrames', l, u, a)
    BY <1>3, <1>12
  <2>2. \A s \in Roots : s \in Frames /\ l[s] = "root"
    BY <1>1, <1>7, <1>10, RootFrames DEF Roots
  <2> QED BY <2>1, <2>2
<1>17. data' \in Memory /\ freeFrames' \in SUBSET Frames
  BY <1>3, <1>4, <1>7, <1>8 DEF WordSet
<1> QED BY <1>13, <1>14, <1>15, <1>16, <1>17

\* The next page of munmap or of the rollback.
LEMMA MunmapPageOK ==
  ASSUME VmInv, NEW t \in Slots, MunmapPage(t), calls' \in 0 .. MaxCalls
  PROVE  StepOK(t)
<1>1. PICK r, p, f : r = pml4[t] /\ p = op[t].page /\ f = Translate(r, p)
  OBVIOUS
<1>2. /\ op[t].kind \in {"munmap", "undo"} /\ p < op[t].end
      /\ op' = [op EXCEPT ![t] = [op[t] EXCEPT !.page = p + 1]]
      /\ UNCHANGED <<pml4, cursor, fixed>>
      /\ IF f = None THEN UNCHANGED <<freeFrames, data>>
         ELSE data' = Unmapped(r, p) /\ freeFrames' = freeFrames \cup {f}
  BY <1>1 DEF MunmapPage
<1>3. /\ p \in Nat /\ p \in Pages /\ p + 1 \in 0 .. LastPage /\ op[t].start \in Nat
      /\ op[t].start \in Pages /\ op[t].end \in 0 .. LastPage /\ op[t].start <= p
      /\ p + 1 <= op[t].end /\ r # None
  <2>1. p \in 0 .. LastPage /\ op[t].end \in 0 .. LastPage /\ op[t].start \in Pages
    BY <1>1, <1>2, TaskTypes, OpFields
  <2>2. p < LastPage /\ p + 1 <= op[t].end /\ op[t].start \in Nat
    BY <1>2, <2>1, Layout, PageEntry
  <2>3. r # None /\ op[t].start <= p
    BY <1>1, <1>2, TaskTypes DEF PagesOK, TaskOK
  <2> QED BY <2>1, <2>2, <2>3, Layout DEF Pages
<1>4. r \in SpacesOf(t)
  BY <1>1, <1>3 DEF SpacesOf
<1>5. PICK o : o = [kind |-> op[t].kind, start |-> op[t].start, page |-> p + 1, end |-> op[t].end]
  BY Zenon
<1>6. /\ o \in Ops /\ o.kind = op[t].kind /\ o.start = op[t].start /\ o.page = p + 1
      /\ o.end = op[t].end
  BY <1>2, <1>3, <1>5 DEF Ops
<1>7. Move(t, o, pml4[t], cursor[t], fixed[t])
  <2>1. [op[t] EXCEPT !.page = p + 1] = o
    BY <1>2, <1>5, TaskTypes, CallFields
  <2> QED BY Zenon, <1>2, <1>6, <2>1, TaskTypes DEF Move
<1>8. op'[t] = o /\ pml4'[t] = r /\ cursor'[t] = cursor[t] /\ fixed'[t] = fixed[t]
  BY <1>1, <1>7 DEF Move, VmInv, VmTypeOK
<1>9. SpacesOf(t)' = SpacesOf(t)
  BY <1>1, <1>2, <1>6, <1>8 DEF SpacesOf
<1>10. ASSUME Translate(r, p)' = None,
              \A q \in Pages : q # p => Translate(r, q)' = Translate(r, q)
       PROVE  PagesOK(t)'
  <2>1. PagesOK(t)
    BY TaskTypes
  <2>2. TaskOK(t)'
    BY <1>1, <1>2, <1>3, <1>6, <1>8, <2>1 DEF PagesOK, TaskOK, Loading
  <2>3. Filled(t)' /\ Loaded(t)'
    BY <1>2, <1>6, <1>8 DEF Filled, Loaded
  <2>4. Gone(t)'
    <3>1. ASSUME NEW q \in Pages, op[t].start <= q, q < p + 1 PROVE Translate(r, q)' = None
      <4>1. CASE q = p
        BY <1>10, <4>1
      <4>2. CASE q # p
        <5>1. q < p
          BY <1>3, <3>1, <4>2, PageEntry
        <5>2. Translate(r, q) = None
          BY <1>1, <1>2, <2>1, <3>1, <5>1 DEF PagesOK, Gone
        <5> QED BY <1>10, <4>2, <5>2
      <4> QED BY <4>1, <4>2
    <3> QED BY <1>6, <1>8, <3>1 DEF Gone
  <2>5. Room(t)'
    <3>1. FreeFrom(t)' = FreeFrom(t)
      BY <1>2, <1>6, <1>8 DEF FreeFrom
    <3>2. ASSUME ~fixed[t], NEW q \in Pages, FreeFrom(t) <= q, q < StackStart
          PROVE  Translate(r, q)' = None
      <4>1. Translate(r, q) = None
        BY <1>1, <1>3, <2>1, <3>2 DEF PagesOK, Room
      <4> QED BY <1>10, <4>1
    <3> QED BY <1>8, <3>1, <3>2 DEF Room
  <2> QED BY <2>2, <2>3, <2>4, <2>5 DEF PagesOK
<1>11. CASE f = None
  <2>1. data' = data /\ freeFrames' = freeFrames
    BY <1>2, <1>11
  <2>2. \A q : Translate(r, q)' = Translate(r, q)
    BY Zenon, <1>1, <1>8, <2>1 DEF Translate, TableOf
  <2>3. PagesOK(t)'
    BY Zenon, <1>1, <1>10, <1>11, <2>2
  <2>4. freeFrames' \in SUBSET freeFrames /\ SpacesOf(t)' \subseteq SpacesOf(t)
    BY <1>9, <2>1
  <2> QED BY <1>7, <2>1, <2>3, <2>4, QuietStep
<1>12. CASE f # None
  <2>1. UnmapsPage(t, r, p, f)
    BY <1>1, <1>2, <1>3, <1>4, <1>12 DEF UnmapsPage
  <2>2. /\ data' \in Memory /\ freeFrames' \in SUBSET Frames
        /\ \E l, v, b : Labels(data', freeFrames', l, v, b) /\ \A s \in Roots : l[s] = "root"
        /\ \A w \in Slots \ {t} : \A s \in SpacesOf(w), m, n \in Idx : Kept(data, data', s, m, n)
        /\ Translate(r, p)' = None
        /\ \A s \in SpacesOf(t), q \in Pages : s # r \/ q # p => PageKept(s, q)
    BY <2>1, UnmapStep
  <2>3. PagesOK(t)'
    BY Zenon, <1>4, <1>10, <2>2 DEF PageKept
  <2>4. PICK l, v, b : Labels(data', freeFrames', l, v, b) /\ \A s \in Roots : l[s] = "root"
    BY <2>2
  <2>5. /\ \A s \in SpacesOf(t)' : l[s] = "root"
        /\ \A w \in Slots \ {t} : SpacesOf(t)' \cap SpacesOf(w) = {}
    BY <1>9, <2>4, RootFrames DEF VmInv, OwnSpaces
  <2> QED BY Zenon, <1>7, <2>2, <2>3, <2>4, <2>5, DataStep
<1> QED BY <1>11, <1>12
=============================================================================

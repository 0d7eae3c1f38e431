---------------------------------- MODULE Vm ----------------------------------
(***************************************************************************)
(* Address spaces: the page tables of kernel/mm/vmm.c, loading a program   *)
(* into a new space (elf_exec, elf_exec_current, task_create_user), and    *)
(* mmap and munmap of running programs, page by page, with ticks between   *)
(* any two pages except while a program is loaded (preemption is disabled  *)
(* there).                                                                 *)
(*                                                                         *)
(* Physical memory is one function: data[f] is what frame f holds, so a    *)
(* page table is read through the same memory that programs write.  Two    *)
(* levels of tables stand for the four of x86-64: page p of a space is the *)
(* leaf p % Span of table p \div Span.  The kernel half, shared by         *)
(* reference, and the splitting of the boot loader's large pages are left  *)
(* out: no user page is in either.                                         *)
(***************************************************************************)
EXTENDS Integers, FiniteSets

CONSTANTS Slots,       \* tasks
          Frames,      \* usable frames
          Span,        \* entries of a table (512)
          LastPage,    \* end of the user half (USER_HALF_MAX)
          ImageEnd,    \* the image is mapped at pages 1 .. ImageEnd - 1
          MmapStart,   \* MMAP_CURSOR_START
          StackStart,  \* USER_STACK_BASE
          StackEnd,    \* ... + USER_STACK_SIZE
          MaxLen,      \* bound: longest mmap or munmap
          MaxCalls     \* bound: number of loads, mmaps, munmaps and exits

None == "none"   \* an entry, or a word, that is zero
Junk == "junk"   \* any other word a program wrote
Idx == 0 .. Span - 1
Pages == 0 .. LastPage - 1

ASSUME VmAssumption ==
  /\ Span \in Nat \ {0} /\ None \notin Frames /\ Junk \notin Frames
  /\ LastPage \in 1 .. Span * Span
  /\ ImageEnd \in 1 .. MmapStart /\ MmapStart \in 1 .. StackStart
  /\ StackEnd \in StackStart + 1 .. LastPage /\ StackStart \in Nat /\ MaxLen \in Nat \ {0}
  /\ MaxCalls \in Nat

VARIABLES
  freeFrames,  \* frames that pmm_alloc_frame can return
  data,        \* contents of the frames
  pml4,        \* t->cr3, None for a free slot
  cursor,      \* t->mmap_cur
  op,          \* what the task is doing in the kernel
  fixed,       \* history: the program has called mmap with an address
  calls        \* number of calls so far

vmVars == <<freeFrames, data, pml4, cursor, op, fixed, calls>>

Idle == [kind |-> "idle"]
Ops == {Idle}
  \cup [kind : {"image", "stack"}, root : Frames, page : 0 .. LastPage, locked : BOOLEAN]
  \cup [kind : {"mmap", "munmap", "undo"}, start : Pages, page : 0 .. LastPage,
        end : 0 .. LastPage]

VmTypeOK ==
  /\ freeFrames \subseteq Frames
  /\ data \in [Frames -> [Idx -> Frames \cup {None, Junk}]]
  /\ pml4 \in [Slots -> Frames \cup {None}]
  /\ cursor \in [Slots -> 0 .. LastPage]
  /\ op \in [Slots -> Ops] /\ fixed \in [Slots -> BOOLEAN]
  /\ calls \in 0 .. MaxCalls

Zero == [i \in Idx |-> None]

VmInit ==
  /\ freeFrames = Frames /\ data \in {[f \in Frames |-> [i \in Idx |-> Junk]]}
  /\ pml4 = [t \in Slots |-> None] /\ cursor = [t \in Slots |-> MmapStart]
  /\ op = [t \in Slots |-> Idle] /\ fixed = [t \in Slots |-> FALSE]
  /\ calls = 0

-----------------------------------------------------------------------------
(* The tables.                                                              *)

TableOf(root, p) == data[root][p \div Span]

\* walk_pt and vmm_translate_in.
Translate(root, p) ==
  IF TableOf(root, p) = None THEN None ELSE data[TableOf(root, p)][p % Span]

\* Which of the free frames pmm_alloc_frame picks makes no difference.
Pick(S) == CHOOSE f \in S : TRUE

\* Are there frames for the page and for its table, if that is missing?
Enough(root, p) ==
  /\ freeFrames # {}
  /\ TableOf(root, p) = None => freeFrames \ {Pick(freeFrames)} # {}

\* Mutant of Mapped: a new table is not cleared.
MappedRaw(d, root, p, f, S) ==
  IF d[root][p \div Span] = None
    THEN LET tab == Pick(S)
         IN  [d EXCEPT ![root][p \div Span] = tab, ![tab][p % Span] = f]
    ELSE [d EXCEPT ![d[root][p \div Span]][p % Span] = f]

\* vmm_map_page_in: the missing table is allocated and cleared.
Mapped(d, root, p, f, S) ==
  IF d[root][p \div Span] = None
    THEN LET tab == Pick(S)
         IN  [d EXCEPT ![root][p \div Span] = tab,
                       ![tab] = [Zero EXCEPT ![p % Span] = f]]
    ELSE [d EXCEPT ![d[root][p \div Span]][p % Span] = f]

\* The frames left when table_fetch has taken one for the table, if needed.
Left(root, p, S) == IF TableOf(root, p) = None THEN S \ {Pick(S)} ELSE S

-----------------------------------------------------------------------------
(* Loading a program.                                                       *)

Locked == \E t \in Slots : op[t].kind \in {"image", "stack"} /\ op[t].locked
MayMove(t) == ~Locked \/ (op[t].kind \in {"image", "stack"} /\ op[t].locked)

\* vmm_space_clone, for elf_exec (a free slot) or elf_exec_current.
Clone(t) ==
  /\ op[t] = Idle /\ MayMove(t) /\ freeFrames # {}
  /\ LET root == Pick(freeFrames)
     IN  /\ freeFrames' = freeFrames \ {root}
         /\ data' = [data EXCEPT ![root] = Zero]
         /\ op' = [op EXCEPT ![t] = [kind |-> "image", root |-> root, page |-> 1,
                                     locked |-> FALSE]]
  /\ UNCHANGED <<pml4, cursor, fixed>>

\* preempt_disable.
Lock(t) ==
  /\ op[t].kind = "image" /\ ~op[t].locked /\ MayMove(t)
  /\ op' = [op EXCEPT ![t].locked = TRUE]
  /\ UNCHANGED <<freeFrames, data, pml4, cursor, fixed>>

\* A step of tus_alloc and el_load, or of the loop that maps the stack.  The
\* image page is filled from the file, the stack page is cleared.  It fails
\* without a frame for the page or for its table.
LoadPage(t) ==
  LET o == op[t]
      end == IF o.kind = "image" THEN ImageEnd ELSE StackEnd
      f == Pick(freeFrames)
      rest == freeFrames \ {f}
      fill == IF o.kind = "image" THEN [i \in Idx |-> Junk] ELSE Zero
  IN  /\ o.kind \in {"image", "stack"} /\ o.locked /\ o.page < end
      /\ Enough(o.root, o.page)
      /\ data' = Mapped([data EXCEPT ![f] = fill], o.root, o.page, f, rest)
      /\ freeFrames' = Left(o.root, o.page, rest)
      /\ op' = [op EXCEPT ![t].page = @ + 1]
      /\ UNCHANGED <<pml4, cursor, fixed>>

\* The image is complete: the stack is next.
LoadStack(t) ==
  /\ op[t].kind = "image" /\ op[t].locked /\ op[t].page = ImageEnd
  /\ op' = [op EXCEPT ![t].kind = "stack", ![t].page = StackStart]
  /\ UNCHANGED <<freeFrames, data, pml4, cursor, fixed>>

\* The stack is complete and the arguments fit: the space becomes the task's.
\* What an elf_exec_current replaces is not given back.
LoadDone(t) ==
  /\ op[t].kind = "stack" /\ op[t].page = StackEnd
  /\ pml4' = [pml4 EXCEPT ![t] = op[t].root]
  /\ cursor' = [cursor EXCEPT ![t] = MmapStart] /\ fixed' = [fixed EXCEPT ![t] = FALSE]
  /\ op' = [op EXCEPT ![t] = Idle]
  /\ UNCHANGED <<freeFrames, data>>

\* A failure anywhere: a frame, a table, the file, the kernel stack or the
\* arguments.  Nothing is given back, not even the frame in hand when the
\* table for it is missing.
LoadFail(t) ==
  LET o == op[t]
      f == Pick(freeFrames)
  IN  /\ o.kind \in {"image", "stack"} /\ o.locked
      /\ op' = [op EXCEPT ![t] = Idle]
      /\ \/ UNCHANGED freeFrames
         \/ /\ freeFrames # {} /\ o.page < LastPage /\ ~Enough(o.root, o.page)
            /\ freeFrames' = freeFrames \ {f}
      /\ UNCHANGED <<data, pml4, cursor, fixed>>

-----------------------------------------------------------------------------
(* Running programs.                                                        *)

Running(t) == pml4[t] # None /\ MayMove(t)

\* A store of the program, or of the kernel on its behalf.
Store(t, p) ==
  /\ Running(t) /\ op[t] = Idle /\ Translate(pml4[t], p) # None
  /\ data' = [data EXCEPT ![Translate(pml4[t], p)] = [i \in Idx |-> Junk]]
  /\ UNCHANGED <<freeFrames, pml4, cursor, op, fixed>>

\* sys_mmap: with addr = 0 the cursor decides.
Mmap(t, addr, len) ==
  LET start == IF addr = 0 THEN cursor[t] ELSE addr
  IN  /\ Running(t) /\ op[t] = Idle
      /\ start < LastPage /\ start + len <= LastPage
      /\ op' = [op EXCEPT ![t] = [kind |-> "mmap", start |-> start, page |-> start,
                                  end |-> start + len]]
      /\ fixed' = [fixed EXCEPT ![t] = @ \/ addr # 0]
      /\ UNCHANGED <<freeFrames, data, pml4, cursor>>

\* Mutant of MmapPage: the frame is not cleared.
MmapPageRaw(t) ==
  LET o == op[t]
      f == Pick(freeFrames)
      rest == freeFrames \ {f}
  IN  /\ o.kind = "mmap" /\ o.page < o.end /\ MayMove(t)
      /\ Enough(pml4[t], o.page)
      /\ data' = Mapped(data, pml4[t], o.page, f, rest)
      /\ freeFrames' = Left(pml4[t], o.page, rest)
      /\ op' = [op EXCEPT ![t].page = @ + 1]
      /\ UNCHANGED <<pml4, cursor, fixed>>

\* One page of the loop: a page that was mapped before is replaced.
MmapPage(t) ==
  LET o == op[t]
      f == Pick(freeFrames)
      rest == freeFrames \ {f}
  IN  /\ o.kind = "mmap" /\ o.page < o.end /\ MayMove(t)
      /\ Enough(pml4[t], o.page)
      /\ data' = Mapped([data EXCEPT ![f] = Zero], pml4[t], o.page, f, rest)
      /\ freeFrames' = Left(pml4[t], o.page, rest)
      /\ op' = [op EXCEPT ![t].page = @ + 1]
      /\ UNCHANGED <<pml4, cursor, fixed>>

\* Mutant of MmapFail: the frame in hand is not given back.
MmapFailKeeps(t) ==
  LET o == op[t]
      f == Pick(freeFrames)
  IN  /\ o.kind = "mmap" /\ o.page < o.end /\ MayMove(t)
      /\ ~Enough(pml4[t], o.page)
      /\ freeFrames' = freeFrames \ {f}
      /\ data' = IF freeFrames = {} THEN data ELSE [data EXCEPT ![f] = Zero]
      /\ op' = [op EXCEPT ![t] = [kind |-> "undo", start |-> o.start, page |-> o.start,
                                  end |-> o.page]]
      /\ UNCHANGED <<pml4, cursor, fixed>>

\* No frame for the page, or for its table (the page's frame goes back):
\* what was mapped is rolled back.
MmapFail(t) ==
  LET o == op[t]
      f == Pick(freeFrames)
  IN  /\ o.kind = "mmap" /\ o.page < o.end /\ MayMove(t)
      /\ ~Enough(pml4[t], o.page)
      /\ data' = IF freeFrames = {} THEN data ELSE [data EXCEPT ![f] = Zero]
      /\ op' = [op EXCEPT ![t] = [kind |-> "undo", start |-> o.start, page |-> o.start,
                                  end |-> o.page]]
      /\ UNCHANGED <<freeFrames, pml4, cursor, fixed>>

MmapDone(t) ==
  /\ op[t].kind = "mmap" /\ op[t].page = op[t].end /\ MayMove(t)
  /\ cursor' = [cursor EXCEPT ![t] = op[t].end]
  /\ op' = [op EXCEPT ![t] = Idle]
  /\ UNCHANGED <<freeFrames, data, pml4, fixed>>

\* sys_munmap.
Munmap(t, addr, len) ==
  /\ Running(t) /\ op[t] = Idle /\ addr + len <= LastPage
  /\ op' = [op EXCEPT ![t] = [kind |-> "munmap", start |-> addr, page |-> addr,
                              end |-> addr + len]]
  /\ UNCHANGED <<freeFrames, data, pml4, cursor, fixed>>

Unmapped(root, p) == [data EXCEPT ![TableOf(root, p)][p % Span] = None]

MunmapPage(t) ==
  LET o == op[t]
      f == Translate(pml4[t], o.page)
  IN  /\ o.kind \in {"munmap", "undo"} /\ o.page < o.end /\ MayMove(t)
      /\ IF f = None
           THEN UNCHANGED <<freeFrames, data>>
           ELSE /\ data' = Unmapped(pml4[t], o.page)
                /\ freeFrames' = freeFrames \cup {f}
      /\ op' = [op EXCEPT ![t].page = @ + 1]
      /\ UNCHANGED <<pml4, cursor, fixed>>

MunmapDone(t) ==
  /\ op[t].kind \in {"munmap", "undo"} /\ op[t].page = op[t].end /\ MayMove(t)
  /\ op' = [op EXCEPT ![t] = Idle]
  /\ UNCHANGED <<freeFrames, data, pml4, cursor, fixed>>

\* task_exit and the reuse of the slot: the space is forgotten.
VmExit(t) ==
  /\ Running(t) /\ op[t] = Idle
  /\ pml4' = [pml4 EXCEPT ![t] = None]
  /\ cursor' = [cursor EXCEPT ![t] = MmapStart] /\ fixed' = [fixed EXCEPT ![t] = FALSE]
  /\ UNCHANGED <<freeFrames, data, op>>

\* A call, and one step of a call.
Call(t) ==
  /\ calls < MaxCalls /\ calls' = calls + 1
  /\ \/ Clone(t) \/ VmExit(t)
     \/ \E p \in Pages, n \in 1 .. MaxLen : Mmap(t, p, n) \/ Munmap(t, p, n)

VmStep(t) ==
  /\ \/ Lock(t) \/ LoadPage(t) \/ LoadStack(t) \/ LoadDone(t) \/ LoadFail(t)
     \/ MmapPage(t) \/ MmapFail(t) \/ MmapDone(t) \/ MunmapPage(t) \/ MunmapDone(t)
     \/ \E p \in Pages : Store(t, p)
  /\ UNCHANGED calls

VmNext == \E t \in Slots : Call(t) \/ VmStep(t)

VmSpec == VmInit /\ [][VmNext]_vmVars

-----------------------------------------------------------------------------
(* What paging promises.                                                    *)

\* The page tables the hardware or the loader can still walk: a task has the
\* space it runs in and, while it loads a program, the new one.
SpacesOf(t) ==
  ({pml4[t]} \ {None}) \cup (IF op[t].kind \in {"image", "stack"} THEN {op[t].root} ELSE {})
Roots == UNION {SpacesOf(t) : t \in Slots}

Tables(root) == {data[root][i] : i \in Idx} \ {None}
Leaves(root) == {Translate(root, p) : p \in Pages} \ {None}
Reach(root) == {root} \cup Tables(root) \cup Leaves(root)

\* "Each task gets its own user half": no two tasks share a space, no frame
\* is free while a space uses it, none belongs to two spaces, and none has
\* two uses in one space (two pages, or a page and a table), so no store of a
\* program reaches another program or a page table.
Separate ==
  /\ \A t, u \in Slots : t # u => SpacesOf(t) \cap SpacesOf(u) = {}
  /\ \A r \in Roots : Reach(r) \subseteq Frames \ freeFrames
  /\ \A r, s \in Roots : r # s => Reach(r) \cap Reach(s) = {}
  /\ \A r \in Roots :
       /\ r \notin Tables(r) \cup Leaves(r) /\ Tables(r) \cap Leaves(r) = {}
       /\ \A i, j \in Idx : i # j /\ data[r][i] # None => data[r][i] # data[r][j]
       /\ \A p, q \in Pages : p # q /\ Translate(r, p) # None => Translate(r, p) # Translate(r, q)

\* "Fresh anonymous pages must read as zeros", whatever the frames held and
\* whoever ran while mmap was at work.
FreshZero ==
  \A t \in Slots : op[t].kind = "mmap" =>
    \A p \in op[t].start .. op[t].page - 1 :
      Translate(pml4[t], p) # None /\ data[Translate(pml4[t], p)] = Zero

\* A munmap, and the rollback of an mmap, has removed every page it passed.
Removed ==
  \A t \in Slots : op[t].kind \in {"munmap", "undo"} =>
    \A p \in op[t].start .. op[t].page - 1 : Translate(pml4[t], p) = None

\* Frames that are neither free nor in a space.
Lost == Frames \ (freeFrames \cup UNION {Reach(r) : r \in Roots})

\* mmap onto a page that is mapped.
Replaces(t) == op[t].kind = "mmap" /\ op[t].page < op[t].end /\ Translate(pml4[t], op[t].page) # None

\* munmap, mmap and its rollback lose no frame, also when memory runs out
\* midway; only what is known to leak does: a task's exit, an execve's old
\* image, a failed load, and a page that an mmap replaces.
LosesNothing ==
  [][(\E t \in Slots :
        /\ op[t] # Idle /\ op'[t] # op[t] /\ ~Replaces(t)
        /\ op[t].kind \in {"image", "stack"} => op'[t] # Idle)
       => Lost' = Lost]_vmVars

\* "If addr is 0 a free region is chosen": true until the program names an
\* address itself, and below the stack.
ChoosesFree ==
  \A t \in Slots : op[t].kind = "mmap" /\ ~fixed[t] /\ op[t].end <= StackStart =>
    \A p \in op[t].page .. op[t].end - 1 : Translate(pml4[t], p) = None

\* sys_mmap and sys_munmap: every page they have passed is as they promise,
\* and those mmap has yet to map are free.
PagesRight == VmTypeOK /\ FreshZero /\ Removed /\ ChoosesFree
=============================================================================

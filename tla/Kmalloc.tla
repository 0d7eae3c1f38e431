------------------------------- MODULE Kmalloc -------------------------------
(***************************************************************************)
(* kernel/mm/kmalloc.c: the first-fit kernel heap, one call per step.      *)
(*                                                                         *)
(* Addresses and sizes are counted in 8-byte words from VMM_KHEAP_BASE, so *)
(* sizeof(struct block) is 3 and ALIGN is 2; the page is scaled down.  A   *)
(* block is [at, size, pages]: the address of its header and the two       *)
(* fields the code reads.                                                  *)
(***************************************************************************)
EXTENDS Integers, Sequences, FiniteSets

CONSTANTS Page,       \* PAGE_SIZE (512 words in the code)
          Header,     \* HEADER_SIZE (3 words)
          Align,      \* ALIGN (2 words)
          MaxPages,   \* frames the PMM has for the heap
          MaxArena,   \* bound on the pages the arena may ever span
          Sizes,      \* arguments of kmalloc and krealloc
          Stale       \* what a word nobody initialised may hold

ASSUME KmallocAssumption ==
  /\ {Page, Header, Align, MaxPages, MaxArena} \subseteq Nat \ {0}
  /\ Page > Header + Align /\ Page % Align = 0
  /\ Sizes \subseteq Nat /\ Stale \subseteq Nat

VARIABLES
  heap,   \* g_free, g_arena_next (in pages), the mapped pages of the arena
          \* and the frames the PMM has left
  live    \* the blocks handed out and not freed

kmVars == <<heap, live>>

Block == [at : Nat, size : Nat, pages : Nat]

KmTypeOK ==
  /\ heap.free \in Seq(Block) /\ live \in SUBSET Block
  /\ heap.next \in 0 .. MaxArena /\ heap.mapped \in SUBSET Nat
  /\ heap.frames \in 0 .. MaxPages

\* kmalloc_init.
KmInit ==
  /\ heap = [free |-> <<>>, next |-> 0, mapped |-> {}, frames |-> MaxPages]
  /\ live = {}

\* align_up; kmalloc(0) asks for ALIGN bytes.
AlignUp(n) == ((n + Align - 1) \div Align) * Align
Request(n) == AlignUp(IF n = 0 THEN Align ELSE n)

-----------------------------------------------------------------------------
(* kmalloc: the set of its possible results, the heap it leaves and the     *)
(* blocks (one or none) it hands out.                                       *)

Failed(h) == [heap |-> h, got |-> {}]

\* Whole pages at g_arena_next, mapped one by one.  When the frames run out
\* midway the ones already mapped stay mapped, and g_arena_next stays put.
LargeAlloc(h, n) ==
  LET pages == (n + Header + Page - 1) \div Page
      done == IF pages <= h.frames THEN pages ELSE h.frames
      h2 == [h EXCEPT !.mapped = @ \cup (h.next .. h.next + done - 1),
                      !.frames = @ - done]
  IN  IF done < pages
        THEN Failed(h2)
        ELSE [heap |-> [h2 EXCEPT !.next = @ + pages],
              got |-> {[at |-> h.next * Page, size |-> n, pages |-> pages]}]

\* Block b in front of the i-th of the list (b->next = *link; *link = b), and
\* the list without its i-th (*link = b->next).
Linked(l, i, b) == SubSeq(l, 1, i - 1) \o <<b>> \o SubSeq(l, i, Len(l))
Unlinked(l, i) == SubSeq(l, 1, i - 1) \o SubSeq(l, i + 1, Len(l))

\* Mutant of FitAt: the remainder starts at b + size.
FitAtNoHeader(h, i, n) ==
  LET b == h.free[i]
      rest(p) == [at |-> b.at + n, size |-> b.size - n - Header, pages |-> p]
  IN  IF b.size >= n + Header + Align
        THEN {[heap |-> [h EXCEPT !.free[i] = rest(p)],
               got |-> {[b EXCEPT !.size = n]}] : p \in Stale}
        ELSE {[heap |-> [h EXCEPT !.free = Unlinked(@, i)], got |-> {b}]}

\* First fit.  A block with room for another one is split; neither b->pages
\* nor rest->pages is written.
FitAt(h, i, n) ==
  LET b == h.free[i]
      rest(p) == [at |-> b.at + Header + n, size |-> b.size - n - Header,
                  pages |-> p]
  IN  IF b.size >= n + Header + Align
        THEN {[heap |-> [h EXCEPT !.free[i] = rest(p)],
               got |-> {[b EXCEPT !.size = n]}] : p \in Stale}
        ELSE {[heap |-> [h EXCEPT !.free = Unlinked(@, i)], got |-> {b}]}

Fits(h, n) == {i \in DOMAIN h.free : h.free[i].size >= n}
FirstFit(h, n) ==
  UNION {FitAt(h, i, n) : i \in {j \in Fits(h, n) : \A k \in Fits(h, n) : j <= k}}

\* heap_grow: the requests that get here need one page.  Its header's pages
\* field is whatever the frame held.
Grow(h) ==
  {[h EXCEPT !.free = <<[at |-> h.next * Page, size |-> Page - Header,
                         pages |-> p]>> \o @,
             !.mapped = @ \cup {h.next}, !.next = @ + 1, !.frames = @ - 1]
     : p \in Stale}

KmallocResults(h, size) ==
  LET n == Request(size)
  IN  IF n > Page - Header THEN {LargeAlloc(h, n)}
      ELSE IF Fits(h, n) # {} THEN FirstFit(h, n)
      ELSE IF h.frames = 0 THEN {Failed(h)}
      ELSE UNION {FirstFit(g, n) : g \in Grow(h)}

-----------------------------------------------------------------------------
(* kfree.                                                                   *)

\* Mutant of FreePages: `i <= pages'.
FreePagesOneMore(h, b) ==
  LET pages == {b.at \div Page + i : i \in 0 .. b.pages} \cap h.mapped
  IN  [h EXCEPT !.mapped = @ \ pages, !.frames = @ + Cardinality(pages)]

\* A multi-page block: unmap its pages, give the mapped ones' frames back.
FreePages(h, b) ==
  LET pages == {b.at \div Page + i : i \in 0 .. b.pages - 1} \cap h.mapped
  IN  [h EXCEPT !.mapped = @ \ pages, !.frames = @ + Cardinality(pages)]

\* The list position before the first block at or above b.
InsertPos(l, b) == Cardinality({i \in DOMAIN l : \A j \in 1 .. i : l[j].at < b.at}) + 1

\* Insert, and swallow the successor if it is adjacent.  `*link != b' is
\* false right after `*link = b', so the predecessor is never merged.
FreeSmall(h, b) ==
  LET i == InsertPos(h.free, b)
      adjacent == /\ i \in DOMAIN h.free
                  /\ b.at + Header + b.size = h.free[i].at
  IN  IF adjacent
        THEN [h EXCEPT !.free[i] = [b EXCEPT !.size = @ + Header + h.free[i].size]]
        ELSE [h EXCEPT !.free = Linked(@, i, b)]

KfreeResult(h, b) == IF b.pages > 0 THEN FreePages(h, b) ELSE FreeSmall(h, b)

-----------------------------------------------------------------------------
(* The calls.                                                               *)

Kmalloc(size) ==
  \E r \in KmallocResults(heap, size) :
    /\ r.heap.next <= MaxArena
    /\ heap' = r.heap /\ live' = live \cup r.got

Kfree(b) ==
  /\ heap' = KfreeResult(heap, b)
  /\ live' = live \ {b}

\* krealloc of a live block; one that fits already is returned as it is.
Krealloc(b, size) ==
  LET n == AlignUp(size)
  IN  /\ n > b.size
      /\ \E r \in KmallocResults(heap, n) :
           /\ r.heap.next <= MaxArena
           /\ \/ r.got = {} /\ heap' = r.heap /\ live' = live
              \/ /\ r.got # {}
                 /\ heap' = KfreeResult(r.heap, b)
                 /\ live' = (live \ {b}) \cup r.got

KmNext ==
  \/ \E size \in Sizes : Kmalloc(size)
  \/ \E b \in live : Kfree(b) \/ \E size \in Sizes : Krealloc(b, size)

KmSpec == KmInit /\ [][KmNext]_kmVars

-----------------------------------------------------------------------------
(* What the heap promises.                                                  *)

FreeBlocks == {heap.free[i] : i \in DOMAIN heap.free}
Words(b) == b.at .. b.at + (IF b.pages > 0 THEN b.pages * Page
                                           ELSE Header + b.size) - 1

\* Every word of the arena belongs to exactly one block, free or handed out,
\* through any sequence of splits, merges, growth and failed requests: no
\* two callers share memory, and no memory falls out of the heap.
Tiled ==
  LET blocks == live \cup FreeBlocks
      arena == UNION {p * Page .. (p + 1) * Page - 1 :
                        p \in {q \in heap.mapped : q < heap.next}}
  IN  /\ \A b, c \in blocks : b # c => Words(b) \cap Words(c) = {}
      /\ FreeBlocks \cap live = {}
      /\ \A i, j \in DOMAIN heap.free : i # j => heap.free[i] # heap.free[j]
      /\ UNION {Words(b) : b \in blocks} = arena

\* A page that a block handed out lies in is mapped: kfree of another block
\* never takes it away.
LiveMapped == \A b \in live : \A w \in Words(b) : w \div Page \in heap.mapped

\* kfree gives no frame to the PMM that is still mapped in the arena, and
\* none twice.
FramesNotInvented == heap.frames + Cardinality(heap.mapped) <= MaxPages

\* kfree takes no page from a block in use and gives no frame back twice.
MemoryKept == KmTypeOK /\ LiveMapped /\ FramesNotInvented
=============================================================================

------------------------------- MODULE ElfLoad -------------------------------
(***************************************************************************)
(* Loading a program: el_init and el_load (kernel/elf/elfload.c) with the  *)
(* callbacks tus_pread and tus_alloc (kernel/elf/tus_elf.c).  Preemption   *)
(* is off, so nobody else runs.                                            *)
(*                                                                         *)
(* Files and pages are counted in units that no boundary splits: the ELF   *)
(* header is unit 0 of the file, the i-th program header unit 1 + i.  A    *)
(* unit of memory holds the offset of the file it was read from, Cleared,  *)
(* or Old, what an earlier owner of the frame left.                        *)
(***************************************************************************)
EXTENDS Integers, Sequences, FiniteSets

CONSTANTS Exes,         \* files: a record of kind, phdrs and length
          SegPage,      \* units of a page
          UserPages,    \* pages of the image, 0 ..
          RamFrames     \* frames, positive numbers

ASSUME ElfAssumption ==
  /\ SegPage \in Nat \ {0} /\ UserPages \in Nat
  /\ RamFrames \subseteq Nat \ {0}

Cleared == -1
Old == -2
InPage == 0 .. SegPage - 1

VARIABLES
  exe,      \* the file
  loading,  \* "header", "extents", "find", "alloc", "fill", or how it ended
  phdr,     \* i: program headers passed
  segPage,  \* page of tus_alloc
  pageMap,  \* page |-> frame, or 0
  ram       \* contents of the frames

elfVars == <<exe, loading, phdr, segPage, pageMap, ram>>

\* A program header is <<type, vaddr, offset, filesz, memsz>>.
Type(s) == s[1]
Vaddr(s) == s[2]
Offset(s) == s[3]
Filesz(s) == s[4]
Memsz(s) == s[5]
Seg == exe.phdrs[phdr + 1]

\* A loader starts with an empty user half (vmm_space_clone).
ElfInit ==
  /\ exe \in Exes
  /\ loading = "header" /\ phdr = 0 /\ segPage = 0
  /\ pageMap = [p \in 0 .. UserPages - 1 |-> 0]
  /\ ram = [f \in RamFrames |-> [k \in InPage |-> Old]]

\* tus_pread: vfs_pread returns all the units asked for.
CanRead(offset, n) == n = 0 \/ offset + n <= exe.length

Goes(to) == loading' = to /\ UNCHANGED <<exe, pageMap, ram>>

\* The header is there, of an ELF file of this machine, and of a program.
ReadHeader ==
  /\ loading = "header"
  /\ Goes(CASE ~CanRead(0, 1) -> "eio"
            [] exe.kind = "other" -> "notelf"
            [] exe.kind = "dyn" -> "notexec"
            [] OTHER -> "extents")
  /\ UNCHANGED <<phdr, segPage>>

\* el_findphdr, in el_init and in el_load: the headers are read one by one; the
\* extents that el_init computes are not used.
FindPhdr ==
  /\ loading \in {"extents", "find"}
  /\ IF phdr = Len(exe.phdrs)
     THEN /\ Goes(IF loading = "extents" THEN "find" ELSE "ok")
          /\ phdr' = 0 /\ UNCHANGED segPage
     ELSE IF ~CanRead(1 + phdr, 1)
     THEN Goes("eio") /\ UNCHANGED <<phdr, segPage>>
     ELSE IF loading = "find" /\ Type(Seg) = "load"
     THEN Goes("alloc") /\ segPage' = Vaddr(Seg) \div SegPage /\ UNCHANGED phdr
     ELSE Goes(loading) /\ phdr' = phdr + 1 /\ UNCHANGED segPage

\* The page after the last one of the segment.
EndPage(s) == (Vaddr(s) + Memsz(s) + SegPage - 1) \div SegPage

PageMapped(p) == pageMap[p] # 0
FreeFrames == {f \in RamFrames : \A p \in DOMAIN pageMap : pageMap[p] # f}

\* Mutant of AllocPage: every page gets a frame of its own.
AllocPageFresh ==
  /\ loading = "alloc" /\ segPage < EndPage(Seg)
  /\ \/ \E f \in FreeFrames : pageMap' = [pageMap EXCEPT ![segPage] = f]
     \/ PageMapped(segPage) /\ FreeFrames = {} /\ UNCHANGED pageMap
  /\ segPage' = segPage + 1
  /\ UNCHANGED <<exe, loading, phdr, ram>>

\* tus_alloc, one page: a page that an earlier segment has touched keeps its
\* frame, another one gets a frame, which is not cleared.
AllocPage ==
  /\ loading = "alloc" /\ segPage < EndPage(Seg)
  /\ IF PageMapped(segPage) THEN UNCHANGED pageMap
     ELSE \E f \in FreeFrames : pageMap' = [pageMap EXCEPT ![segPage] = f]
  /\ segPage' = segPage + 1
  /\ UNCHANGED <<exe, loading, phdr, ram>>

\* There is no frame for the page, or none for a table on the way to it.
AllocFails ==
  /\ loading = "alloc" /\ segPage < EndPage(Seg) /\ ~PageMapped(segPage)
  /\ Goes("enomem") /\ UNCHANGED <<phdr, segPage>>

AllocDone ==
  /\ loading = "alloc" /\ segPage >= EndPage(Seg)
  /\ Goes("fill") /\ UNCHANGED <<phdr, segPage>>

\* The frames after n units of the file were read into the segment and the
\* units from there to m cleared.
Written(n, m) ==
  [f \in RamFrames |-> [k \in InPage |->
     LET hits == {p \in DOMAIN pageMap :
                    pageMap[p] = f /\ p * SegPage + k - Vaddr(Seg) \in 0 .. m - 1}
         x == (CHOOSE p \in hits : TRUE) * SegPage + k - Vaddr(Seg)
     IN  IF hits = {} THEN ram[f][k] ELSE IF x < n THEN Offset(Seg) + x ELSE Cleared]]

\* el_pread into the segment, and the memset of the rest; a file that ends early
\* has been read as far as it goes.
Fill ==
  /\ loading = "fill"
  /\ IF CanRead(Offset(Seg), Filesz(Seg))
     THEN /\ loading' = "find" /\ phdr' = phdr + 1
          /\ ram' = Written(Filesz(Seg), Memsz(Seg))
     ELSE /\ loading' = "eio" /\ UNCHANGED phdr
          /\ ram' = Written(exe.length - Offset(Seg), exe.length - Offset(Seg))
  /\ UNCHANGED <<exe, segPage, pageMap>>

ElfNext == ReadHeader \/ FindPhdr \/ AllocPage \/ AllocFails \/ AllocDone \/ Fill
ElfSpec == ElfInit /\ [][ElfNext]_elfVars

-----------------------------------------------------------------------------
(* Properties.                                                              *)

Loads == {s \in {exe.phdrs[k] : k \in DOMAIN exe.phdrs} : Type(s) = "load"}
\* What a program reads at address a.
Reads(a) == ram[pageMap[a \div SegPage]][a % SegPage]
Short == \/ exe.length < 1 + Len(exe.phdrs)
         \/ \E s \in Loads : ~CanRead(Offset(s), Filesz(s))

\* el_load leaves every segment as the file and the ABI want it, whichever pages
\* the segments share, and refuses a file only if it is cut short, of another
\* kind, or memory runs out.
ImageExact ==
  /\ loading = "ok" =>
       /\ exe.kind = "exec" /\ ~Short
       /\ \A s \in Loads : \A x \in 0 .. Memsz(s) - 1 :
            /\ PageMapped((Vaddr(s) + x) \div SegPage)
            /\ Reads(Vaddr(s) + x) = IF x < Filesz(s) THEN Offset(s) + x ELSE Cleared
  /\ loading = "eio" => Short
  /\ \A p, q \in DOMAIN pageMap : pageMap[p] = pageMap[q] => p = q \/ pageMap[p] = 0
=============================================================================

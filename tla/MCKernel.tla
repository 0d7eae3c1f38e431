------------------------------ MODULE MCKernel ------------------------------
(* Small instances of the memory and task modules, side by side in one run: *)
(* a behaviour is one of the component named by part, and the variables of  *)
(* the others keep an initial (or, to save space, an empty) value.          *)
EXTENDS Pmm, Kmalloc, Vm, Sched, ElfLoad, ArgStack, TLC

VARIABLE part

kernelVars == <<part, pmmVars, kmVars, vmVars, schedVars, elfVars, argVars>>

\* What a linker makes: segments in the order of their addresses, which agree
\* with their offsets in the file; the file may be cut.
MCSegments == {<<"load", v, v, n, m>> : v \in {0, 1, 2, 4, 5}, n \in {0, 1, 2}, m \in {2, 3}}
MCPrograms ==
  {<<s, <<"note", 0, 1, 1, 1>>, t>> : s, t \in MCSegments}
MCExes ==
  [kind : {"exec"}, length : 0 .. 7,
   phdrs : {ps \in MCPrograms : Vaddr(ps[1]) + Memsz(ps[1]) <= Vaddr(ps[3])}]
  \cup [kind : {"dyn", "other"}, length : {0, 1}, phdrs : {<<>>}]
AnExe == CHOOSE x \in MCExes : x.length = 0

Init ==
  /\ part \in {"pmm", "kmalloc", "vm", "sched", "elf", "args"}
  /\ PmmInit /\ KmInit /\ VmInit /\ SchedInit
  /\ part # "pmm" => preempt = FALSE
  /\ part # "sched" => faults = {}
  /\ IF part = "elf" THEN ElfInit
     ELSE /\ exe = AnExe /\ loading = "header" /\ phdr = 0 /\ segPage = 0
          /\ pageMap = <<>> /\ ram = <<>>
  /\ IF part = "args" THEN ArgInit
     ELSE /\ argc = 0 /\ lens = <<>> /\ stage = "need" /\ arg = 0 /\ need = 0 /\ sums = <<>>
          /\ sptr = 0 /\ argPtrs = <<>> /\ page = <<>> /\ vec = <<>> /\ ustackRsp = 0

PmmPart == part = "pmm" /\ PmmNext /\ UNCHANGED <<part, kmVars, vmVars, schedVars, elfVars, argVars>>
KmPart == part = "kmalloc" /\ KmNext /\ UNCHANGED <<part, pmmVars, vmVars, schedVars, elfVars, argVars>>
VmPart == part = "vm" /\ VmNext /\ UNCHANGED <<part, pmmVars, kmVars, schedVars, elfVars, argVars>>
SchedPart == part = "sched" /\ SchedNext /\ UNCHANGED <<part, pmmVars, kmVars, vmVars, elfVars, argVars>>
ElfPart == part = "elf" /\ ElfNext /\ UNCHANGED <<part, pmmVars, kmVars, vmVars, schedVars, argVars>>
ArgPart == part = "args" /\ ArgNext /\ UNCHANGED <<part, pmmVars, kmVars, vmVars, schedVars, elfVars>>

Next == PmmPart \/ KmPart \/ VmPart \/ SchedPart \/ ElfPart \/ ArgPart

\* Table slots are interchangeable.  The run checks no liveness.
Symm == Permutations(Slots)
=============================================================================

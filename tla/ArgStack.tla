------------------------------- MODULE ArgStack ------------------------------
(***************************************************************************)
(* The argument image that task_create_user (kernel/sched/sched.c) and     *)
(* exec_build_stack (kernel/elf/tus_elf.c), with the same code, lay out in *)
(* the top page of a program's stack: strings at the top, below them the   *)
(* words argc, argv[], NULL, envp, auxv, and RSP at the first of these.    *)
(*                                                                         *)
(* Addresses are offsets in the page.  page[b] tells what byte b is: byte  *)
(* k of argument a, <<"arg", a, k>> (k = its length is the NUL), byte k of *)
(* word j, <<"word", j, k>>, or a zero of the fresh frame; vec[j] is the   *)
(* value of word j.                                                        *)
(***************************************************************************)
EXTENDS Integers

CONSTANTS StackPage,    \* 4096
          MaxArgv,      \* EXEC_MAX_ARGS, 16
          MaxArgc,      \* bound: arguments of a program
          Lengths       \* lengths of the strings

ASSUME ArgAssumption ==
  /\ StackPage \in Nat /\ StackPage % 8 = 0
  /\ MaxArgv \in Nat \ {0} /\ MaxArgc \in Nat
  /\ Lengths \subseteq Nat

VARIABLES
  argc,       \* the parameter, without the program's name
  lens,       \* strlen of the name and of the arguments
  stage,      \* "need", "copy", "vector", "done" or "failed" (no memory)
  arg,        \* i of the loops
  need,       \* bytes wanted
  sums,       \* history: bytes of the strings before each one
  sptr,       \* the lowest string so far
  argPtrs,    \* arg_ptrs
  page,       \* the top page
  vec, ustackRsp    \* the words, and where they begin

argInput == <<argc, lens>>
argVars == <<argc, lens, stage, arg, need, sums, sptr, argPtrs, page, vec, ustackRsp>>

AT_PAGESZ == 6
Fresh == <<"zero", 0, 0>>
Offsets == 0 .. StackPage - 1

\* The name and the arguments, as many as have room.
nargs == IF argc + 1 > MaxArgv THEN MaxArgv ELSE argc + 1
nwords == nargs + 6

ArgInit ==
  /\ argc \in 0 .. MaxArgc
  /\ lens \in [0 .. argc -> Lengths]
  /\ stage = "need" /\ arg = 0
  /\ need = 8 + nwords * 8
  /\ sums = [a \in 0 .. nargs |-> 0]
  /\ sptr = StackPage
  /\ argPtrs = [a \in 0 .. MaxArgv - 1 |-> 0]
  /\ page = [b \in Offsets |-> Fresh]
  /\ vec = [j \in 0 .. nwords - 1 |-> 0] /\ ustackRsp = 0

\* need += strlen(args[i]) + 1
NeedArg ==
  /\ stage = "need" /\ arg < nargs
  /\ arg' = arg + 1
  /\ need' = need + lens[arg] + 1
  /\ sums' = [sums EXCEPT ![arg + 1] = sums[arg] + lens[arg] + 1]
  /\ UNCHANGED <<argInput, stage, sptr, argPtrs, page, vec, ustackRsp>>

\* if (need > 4096): the program is not started.
NeedDone ==
  /\ stage = "need" /\ arg = nargs
  /\ stage' = IF need > StackPage THEN "failed" ELSE "copy"
  /\ arg' = 0
  /\ UNCHANGED <<argInput, need, sums, sptr, argPtrs, page, vec, ustackRsp>>

\* Mutant of CopyArg: no room is left for the NUL.
CopyArgNoNul ==
  LET to == sptr - lens[arg]
  IN  /\ stage = "copy" /\ arg < nargs
      /\ sptr' = to /\ arg' = arg + 1
      /\ page' = [b \in Offsets |-> IF b \in to .. sptr THEN <<"arg", arg, b - to>> ELSE page[b]]
      /\ argPtrs' = [argPtrs EXCEPT ![arg] = to]
      /\ UNCHANGED <<argInput, stage, need, sums, vec, ustackRsp>>

\* One string goes below the one before it.
CopyArg ==
  LET to == sptr - (lens[arg] + 1)
  IN  /\ stage = "copy" /\ arg < nargs
      /\ sptr' = to /\ arg' = arg + 1
      /\ page' = [b \in Offsets |-> IF b \in to .. sptr - 1 THEN <<"arg", arg, b - to>> ELSE page[b]]
      /\ argPtrs' = [argPtrs EXCEPT ![arg] = to]
      /\ UNCHANGED <<argInput, stage, need, sums, vec, ustackRsp>>

CopyDone ==
  /\ stage = "copy" /\ arg = nargs
  /\ stage' = "vector"
  /\ UNCHANGED <<argInput, arg, need, sums, sptr, argPtrs, page, vec, ustackRsp>>

\* init[j]
WordValue(j) ==
  CASE j = 0 -> nargs
    [] j \in 1 .. nargs -> argPtrs[j - 1]
    [] j = nargs + 3 -> AT_PAGESZ
    [] j = nargs + 4 -> StackPage
    [] OTHER -> 0               \* NULL, envp[0] and the end of auxv

\* The words, from the first multiple of 8 below the strings downwards.
Vector ==
  LET init == sptr - (sptr % 8) - nwords * 8
  IN  /\ stage = "vector"
      /\ stage' = "done" /\ ustackRsp' = init
      /\ page' = [b \in Offsets |-> IF b \in init .. init + nwords * 8 - 1
                                    THEN <<"word", (b - init) \div 8, (b - init) % 8>> ELSE page[b]]
      /\ vec' = [j \in 0 .. nwords - 1 |-> WordValue(j)]
      /\ UNCHANGED <<argInput, arg, need, sums, sptr, argPtrs>>

ArgNext == NeedArg \/ NeedDone \/ CopyArg \/ CopyDone \/ Vector
ArgSpec == ArgInit /\ [][ArgNext]_argVars

-----------------------------------------------------------------------------
(* Properties.                                                              *)

\* argv[a], as the program finds it through RSP.
ArgvAt(a) == vec[1 + a]

\* What crt1 of the program relies on: the words lie whole and aligned in the
\* page from RSP on, argc says how many pointers follow, each points to its own
\* string with the NUL, NULL ends argv and envp, and the page size follows.
ArgsExact ==
  stage = "done" =>
    /\ ustackRsp \in Offsets /\ ustackRsp % 8 = 0
    /\ \A j \in 0 .. nwords - 1, k \in 0 .. 7 :
         ustackRsp + j * 8 + k \in Offsets /\ page[ustackRsp + j * 8 + k] = <<"word", j, k>>
    /\ vec[0] = nargs /\ vec[nargs + 1] = 0 /\ vec[nargs + 2] = 0
    /\ vec[nargs + 3] = AT_PAGESZ /\ vec[nargs + 4] = StackPage /\ vec[nargs + 5] = 0
    /\ \A a \in 0 .. nargs - 1 : \A k \in 0 .. lens[a] :
         ArgvAt(a) + k \in Offsets /\ page[ArgvAt(a) + k] = <<"arg", a, k>>
=============================================================================

-------------------------------- MODULE Sched --------------------------------
(***************************************************************************)
(* kernel/sched/sched.c: the round-robin tick, task creation and exit, and *)
(* the two ELF loaders of kernel/elf/tus_elf.c that run between them.      *)
(*                                                                         *)
(* The CPU is g_current (cur), the stack it runs on (stk), the place in    *)
(* the code (pc), CR3, the FS base MSR, TSS.RSP0 and g_preempt_depth.  A   *)
(* saved frame records the stack it lies on and the place it resumes; it   *)
(* is what struct task::rsp points at.                                     *)
(*                                                                         *)
(*   pc        "run"      ring 3, or the shell outside of elf_exec         *)
(*             "opened"   loader: binary open, preemption still on         *)
(*             "loading"  loader: preemption off, CR3 = the new space      *)
(*             "made"     task_create_user: READY set, frame not built     *)
(*             "setfs"    arch_prctl between fs_base and the MSR           *)
(*             "exit"     task_exit of a zombie, before the switch         *)
(*             "leave"    task_exit: g_current changed, rsp not loaded     *)
(*                                                                         *)
(* sched_tick runs from an interrupt gate and is one step.                 *)
(***************************************************************************)
EXTENDS Integers

CONSTANTS N,             \* TASK_MAX (16 in the code)
          Spaces, Root,  \* address spaces; Root is the kernel's
          FsBases,       \* values programs give arch_prctl
          NONE,
          Faults         \* values of faults to look at

Slot == 0 .. N - 1
Shell == 0

ASSUME SchedAssumption ==
  /\ N \in Nat \ {0} /\ Root \in Spaces
  /\ 0 \in FsBases /\ NONE \notin FsBases /\ NONE \notin Slot
  /\ Faults \subseteq SUBSET {"load", "leave"}

VARIABLES
  faults,    \* "load": el_load, the stack or task set-up may fail;
             \* "leave": a tick may hit at "leave".  Never changes
  cur, stk, pc, cr3, fs, rsp0, depth,
  state, rsp, tcr3, fs_base,     \* struct task
  elf,       \* the task whose vfs_open set g_elf_fd, NONE after a failed one
  tls        \* what the program in each task asked FS to be, if it did

cpuVars == <<cur, stk, pc, cr3, fs, rsp0, depth>>
taskVars == <<state, rsp, tcr3, fs_base>>
schedVars == <<faults, cur, stk, pc, cr3, fs, rsp0, depth, state, rsp, tcr3, fs_base, elf, tls>>

Places == {"run", "opened", "loading", "made", "setfs", "exit", "leave"}
Frame == [stack : Slot, pc : Places]
NoFrame == [stack |-> Shell, pc |-> "made"]   \* rsp = 0

SchedTypeOK ==
  /\ faults \in Faults
  /\ cur \in Slot /\ stk \in Slot /\ pc \in Places
  /\ cr3 \in Spaces /\ fs \in FsBases /\ rsp0 \in Slot /\ depth \in 0 .. 1
  /\ state \in [Slot -> {"unused", "ready", "running", "zombie"}]
  /\ rsp \in [Slot -> Frame] /\ tcr3 \in [Slot -> Spaces]
  /\ fs_base \in [Slot -> FsBases]
  /\ elf \in Slot \cup {NONE} /\ tls \in [Slot -> FsBases \cup {NONE}]

\* sched_init: the calling context becomes task 0.
SchedInit ==
  /\ faults \in Faults
  /\ cur = Shell /\ stk = Shell /\ pc = "run"
  /\ cr3 = Root /\ fs = 0 /\ rsp0 = Shell /\ depth = 0
  /\ state = [t \in Slot |-> IF t = Shell THEN "running" ELSE "unused"]
  /\ rsp = [t \in Slot |-> NoFrame] /\ tcr3 = [t \in Slot |-> Root]
  /\ fs_base = [t \in Slot |-> 0]
  /\ elf = NONE /\ tls = [t \in Slot |-> NONE]

Live == {t \in Slot : state[t] \in {"ready", "running"}}

\* task_next: the next live task after the given one, round robin.
Distance(a, t) == IF t > a THEN t - a ELSE t - a + N
\* Mutant of IsNext: the scan starts at slot 0, not after the current task.
IsNextFromZero(a, t) == t \in Live /\ t # a /\ \A u \in Live \ {a} : t <= u

IsNext(a, t) == t \in Live /\ \A u \in Live : Distance(a, t) <= Distance(a, u)

\* task_find_slot: the lowest zombie slot, else the lowest unused one.
IsSlot(t) ==
  LET zombies == {u \in Slot : state[u] = "zombie"}
      unused == {u \in Slot : state[u] = "unused"}
      from == IF zombies # {} THEN zombies ELSE unused
  IN  t \in from /\ \A u \in from : t <= u

-----------------------------------------------------------------------------
(* The tick.                                                                *)

\* Mutant of SwitchTo: the FS base is not reloaded.
SwitchKeepsFs(t) ==
  /\ cur' = t /\ rsp0' = t /\ cr3' = tcr3[t] /\ UNCHANGED fs

\* The part sched_tick and task_exit share: task t becomes current.
SwitchTo(t) ==
  /\ cur' = t /\ rsp0' = t /\ cr3' = tcr3[t] /\ fs' = fs_base[t]

\* sched_tick, and the return through the frame it chose.
Tick ==
  /\ state[cur] # "zombie" /\ depth = 0
  /\ pc = "leave" => "leave" \in faults
  /\ rsp' = [rsp EXCEPT ![cur] = [stack |-> stk, pc |-> pc]]
  /\ \E t \in Slot :
       /\ IsNext(cur, t)
       /\ IF t = cur
            THEN UNCHANGED <<cpuVars, state>>
            ELSE /\ state' = [state EXCEPT ![cur] = "ready", ![t] = "running"]
                 /\ SwitchTo(t)
                 /\ stk' = rsp[t].stack /\ pc' = rsp[t].pc
                 /\ UNCHANGED depth
  /\ UNCHANGED <<tcr3, fs_base, elf, tls>>

-----------------------------------------------------------------------------
(* Loading a program: elf_exec for the shell, elf_exec_current for others.  *)

\* g_elf_fd = vfs_open(path): the result is stored even when it is an error.
ExecOpen ==
  /\ pc = "run"
  /\ \/ pc' = "opened" /\ elf' = cur
     \/ pc' = "run" /\ elf' = NONE
  /\ UNCHANGED <<cur, stk, cr3, fs, rsp0, depth, taskVars, tls>>

\* No x bit, el_init or vmm_space_clone failed: vfs_close(g_elf_fd), error.
ExecRefuse ==
  /\ pc = "opened"
  /\ pc' = "run"
  /\ UNCHANGED <<cur, stk, cr3, fs, rsp0, depth, taskVars, elf, tls>>

\* vmm_space_clone, preempt_disable, vmm_space_switch.  Old spaces are never
\* freed by the code; one that no task uses any more stands for a new one.
ExecLoad ==
  /\ pc = "opened"
  /\ pc' = "loading" /\ depth' = depth + 1
  /\ \E s \in Spaces \ ({Root} \cup {tcr3[t] : t \in Live}) : cr3' = s
  /\ UNCHANGED <<cur, stk, fs, rsp0, taskVars, elf, tls>>

\* The memset of task_find_slot.
ClearSlot(t) ==
  /\ state' = [state EXCEPT ![t] = "unused"]
  /\ rsp' = [rsp EXCEPT ![t] = NoFrame] /\ tcr3' = [tcr3 EXCEPT ![t] = Root]
  /\ fs_base' = [fs_base EXCEPT ![t] = 0] /\ tls' = [tls EXCEPT ![t] = NONE]

\* el_load, exec_build_stack or task_create_user failed: the error paths go
\* back to the root space, whoever is current.  When task_create_user fails
\* for lack of memory, task_find_slot has already cleared a zombie's slot.
ExecFail ==
  /\ pc = "loading"
  /\ \/ "load" \in faults /\ UNCHANGED <<taskVars, tls>>
     \/ cur = Shell /\ (\A t \in Slot : ~IsSlot(t)) /\ UNCHANGED <<taskVars, tls>>
     \/ "load" \in faults /\ cur = Shell /\ \E t \in Slot : IsSlot(t) /\ ClearSlot(t)
  /\ pc' = "run" /\ depth' = depth - 1 /\ cr3' = Root
  /\ UNCHANGED <<cur, stk, fs, rsp0, elf>>

\* task_create_user up to the fields of the new task: it is READY from here
\* on, but has no frame (task_find_slot cleared the slot).
Create ==
  /\ pc = "loading" /\ cur = Shell
  /\ \E t \in Slot :
       /\ IsSlot(t)
       /\ state' = [state EXCEPT ![t] = "ready"]
       /\ rsp' = [rsp EXCEPT ![t] = NoFrame]
       /\ tcr3' = [tcr3 EXCEPT ![t] = cr3]
       /\ fs_base' = [fs_base EXCEPT ![t] = 0]
       /\ tls' = [tls EXCEPT ![t] = NONE]
  /\ pc' = "made"
  /\ UNCHANGED <<cur, stk, cr3, fs, rsp0, depth, elf>>

\* Mutant of Build: the caller's space is not restored.
BuildKeepsSpace ==
  /\ pc = "made"
  /\ \E t \in Slot :
       /\ state[t] = "ready" /\ rsp[t] = NoFrame
       /\ rsp' = [rsp EXCEPT ![t] = [stack |-> t, pc |-> "run"]]
  /\ pc' = "run" /\ depth' = depth - 1
  /\ UNCHANGED <<cur, stk, cr3, fs, rsp0, state, tcr3, fs_base, elf, tls>>

\* The interrupt frame on the new kernel stack, t->rsp, and the rest of
\* elf_exec: back to the shell's space, preempt_enable.
Build ==
  /\ pc = "made"
  /\ \E t \in Slot :
       /\ state[t] = "ready" /\ rsp[t] = NoFrame
       /\ rsp' = [rsp EXCEPT ![t] = [stack |-> t, pc |-> "run"]]
  /\ pc' = "run" /\ depth' = depth - 1 /\ cr3' = Root
  /\ UNCHANGED <<cur, stk, fs, rsp0, state, tcr3, fs_base, elf, tls>>

\* elf_exec_current: the task continues in the new image.
Replace ==
  /\ pc = "loading" /\ cur # Shell
  /\ tcr3' = [tcr3 EXCEPT ![cur] = cr3]
  /\ fs_base' = [fs_base EXCEPT ![cur] = 0]
  /\ tls' = [tls EXCEPT ![cur] = NONE]
  /\ pc' = "run" /\ depth' = depth - 1
  /\ UNCHANGED <<cur, stk, cr3, fs, rsp0, state, rsp, elf>>

-----------------------------------------------------------------------------
(* arch_prctl(ARCH_SET_FS) and exit.                                        *)

SetFs ==
  /\ pc = "run" /\ cur # Shell
  /\ \E v \in FsBases :
       /\ fs_base' = [fs_base EXCEPT ![cur] = v]
       /\ tls' = [tls EXCEPT ![cur] = v]
  /\ pc' = "setfs"
  /\ UNCHANGED <<cur, stk, cr3, fs, rsp0, depth, state, rsp, tcr3, elf>>

WriteFs ==
  /\ pc = "setfs"
  /\ fs' = tls[cur]     \* addr, the argument of the call
  /\ pc' = "run"
  /\ UNCHANGED <<cur, stk, cr3, rsp0, depth, taskVars, elf, tls>>

Exit ==
  /\ pc = "run" /\ cur # Shell
  /\ state' = [state EXCEPT ![cur] = "zombie"]
  /\ pc' = "exit"
  /\ UNCHANGED <<cur, stk, cr3, fs, rsp0, depth, rsp, tcr3, fs_base, elf, tls>>

\* Mutant of ExitSwitch: next->state stays READY.
ExitSwitchReady ==
  /\ pc = "exit"
  /\ \E t \in Slot : IsNext(cur, t) /\ SwitchTo(t)
  /\ pc' = "leave"
  /\ UNCHANGED <<stk, depth, taskVars, elf, tls>>

\* kbd_input_release and vfs_close_all have run; up to g_current = next.
ExitSwitch ==
  /\ pc = "exit"
  /\ \E t \in Slot :
       /\ IsNext(cur, t)
       /\ state' = [state EXCEPT ![t] = "running"]
       /\ SwitchTo(t)
  /\ pc' = "leave"
  /\ UNCHANGED <<stk, depth, rsp, tcr3, fs_base, elf, tls>>

\* mov next->rsp, %rsp; pop; iretq.
Leave ==
  /\ pc = "leave"
  /\ stk' = rsp[cur].stack /\ pc' = rsp[cur].pc
  /\ UNCHANGED <<cur, cr3, fs, rsp0, depth, taskVars, elf, tls>>

Step == ExecOpen \/ ExecRefuse \/ ExecLoad \/ ExecFail \/ Create \/ Build
          \/ Replace \/ SetFs \/ WriteFs \/ Exit \/ ExitSwitch \/ Leave

SchedNext == (Tick \/ Step) /\ UNCHANGED faults

\* The timer never stops.  A tick that finds preemption disabled is lost, not
\* postponed; strong fairness says that not every tick falls into such a
\* section.  Code inside the kernel keeps running: a task that gets the CPU
\* again and again passes every point it is at.
InKernel == pc # "run" /\ Step
SchedFairness ==
  /\ SF_schedVars(Tick /\ UNCHANGED faults)
  /\ \A t \in Slot : SF_schedVars(cur = t /\ InKernel /\ UNCHANGED faults)

SchedSpec == SchedInit /\ [][SchedNext]_schedVars
SchedFairSpec == SchedSpec /\ SchedFairness

-----------------------------------------------------------------------------
(* What a switch promises.                                                  *)

\* Exactly the current task is RUNNING, except while task_exit is under way.
OneRunning ==
  \A t \in Slot : state[t] = "running" <=> (t = cur /\ pc # "exit")

\* "rsp is the saved frame position while the task is not running": whenever
\* the tick may switch, every READY task has a complete frame on its own
\* kernel stack, at a point of its own code.
OwnFrame ==
  depth = 0 => \A t \in Slot : state[t] = "ready" =>
                 rsp[t].stack = t /\ rsp[t].pc \notin {"made", "exit", "leave"}

\* "Tasks created by task_create_user() run in their own space", on their
\* own kernel stack, with TSS.RSP0 pointing at it.
OwnSpace ==
  pc = "run" => cr3 = tcr3[cur] /\ stk = cur /\ rsp0 = cur

\* Both hold in every case but two: a tick at "leave", which loses a frame,
\* and a load that fails after CR3 was switched.
SwitchSafe == faults = {} => OwnFrame /\ OwnSpace

\* No two tasks share an address space, and only the shell has the root.
SpacesDistinct ==
  /\ \A t, u \in Live : tcr3[t] = tcr3[u] => t = u
  /\ tcr3[Shell] = Root

\* "ARCH_SET_FS writes the MSR immediately (the scheduler reloads it on every
\* task switch)": a program that set FS finds it, wherever it was preempted.
FsFollowsTask ==
  pc = "run" /\ tls[cur] # NONE => fs = tls[cur]

\* Preemption is off exactly while a loader is in a half-built space: no
\* path of the loaders returns with g_preempt_depth still raised.
DepthBalanced == depth = IF pc \in {"loading", "made"} THEN 1 ELSE 0

\* Round robin: a READY task gets the CPU, and the code it was stopped in
\* goes on to ring 3 (or, for the shell, to its own loop).
EveryTaskRuns ==
  \A t \in Slot : state[t] = "ready" ~> (cur = t /\ pc # "leave")

\* sched.c's table: one task runs, spaces are not shared, and no failure path
\* of a loader leaves preemption off.
TableRight == SchedTypeOK /\ OneRunning /\ SpacesDistinct /\ DepthBalanced
=============================================================================

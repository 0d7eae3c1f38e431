----------------------------- MODULE TaskProofs -----------------------------
(***************************************************************************)
(* Tasks: the scheduler and the loaders, for every size of the task table, *)
(* every set of address spaces and every set of faults; and the first page *)
(* of a program's stack, for every number and every length of arguments.   *)
(***************************************************************************)
EXTENDS Sched, ArgStack, TLAPS

(* The scheduler (Sched.tla).                                               *)

\* The saved frame of task t lies at a place where the tick may interrupt.
Resumes(t) ==
  /\ rsp[t].pc \in {"run", "opened", "setfs", "leave"}
  /\ rsp[t].pc = "setfs" => tls[t] # NONE

\* Every READY task can be resumed, but for the one that is being made; so
\* can the one task_exit has chosen.
Frames ==
  /\ \A t \in Slot : state[t] = "ready" => Resumes(t) \/ (pc = "made" /\ rsp[t] = NoFrame)
  /\ pc = "leave" => Resumes(cur)
  /\ \A t, u \in Slot :
       state[t] = "ready" /\ rsp[t] = NoFrame /\ state[u] = "ready" /\ rsp[u] = NoFrame
         => t = u

\* Where a task can be: the shell never exits, sets no FS base and is the only
\* one to make tasks; a loader fills a space no task is in.
Whereabouts ==
  /\ pc = "exit" => state[cur] = "zombie"
  /\ state[Shell] \in {"ready", "running"} /\ tls[Shell] = NONE
  /\ pc \in {"exit", "setfs"} => cur # Shell
  /\ pc = "made" => cur = Shell
  /\ pc = "loading" => cr3 # Root /\ \A t \in Live : cr3 # tcr3[t]

\* The MSR holds what the program asked for, but between the two stores of
\* arch_prctl, and so does fs_base.
FsRight ==
  /\ pc = "setfs" => tls[cur] # NONE
  /\ pc # "setfs" /\ tls[cur] # NONE => fs = tls[cur]
  /\ \A t \in Slot : tls[t] # NONE => fs_base[t] = tls[t]

\* Without the two faults a frame lies on its task's own stack, and the CPU is
\* in the current task's space, but for a loader, and on its stack, but for
\* the last steps of task_exit.
Own ==
  /\ \A t \in Slot : state[t] = "ready" =>
       rsp[t] = NoFrame \/ (rsp[t].stack = t /\ rsp[t].pc # "leave")
  /\ pc = "leave" => rsp[cur].stack = cur /\ rsp[cur].pc # "leave"
  /\ pc \notin {"loading", "made"} => cr3 = tcr3[cur]
  /\ pc # "leave" => stk = cur
  /\ rsp0 = cur

SchedInv ==
  /\ SchedTypeOK /\ OneRunning /\ DepthBalanced /\ SpacesDistinct
  /\ Frames /\ Whereabouts /\ FsRight
  /\ faults = {} => Own

-----------------------------------------------------------------------------
\* Slot 0 is a slot.
LEMMA ShellSlot == Shell \in Slot
BY SchedAssumption DEF Shell, Slot

\* The state after sched_init.
LEMMA SchedInvInit == SchedInit => SchedInv
<1> SUFFICES ASSUME SchedInit PROVE SchedInv
  OBVIOUS
<1> USE SchedAssumption, ShellSlot DEF SchedInit
<1>1. SchedTypeOK
  <2>1. NoFrame \in Frame
    BY DEF NoFrame, Frame, Places
  <2>2. /\ state \in [Slot -> {"unused", "ready", "running", "zombie"}]
        /\ rsp \in [Slot -> Frame] /\ tcr3 \in [Slot -> Spaces]
        /\ fs_base \in [Slot -> FsBases] /\ tls \in [Slot -> FsBases \cup {NONE}]
    BY <2>1
  <2> QED BY <2>2 DEF SchedTypeOK, Places
<1>2. OneRunning /\ DepthBalanced
  BY DEF OneRunning, DepthBalanced
<1>3. SpacesDistinct
  BY DEF SpacesDistinct, Live
<1>4. Frames
  <2>1. \A t \in Slot : state[t] # "ready"
    OBVIOUS
  <2>2. pc # "leave"
    OBVIOUS
  <2> QED BY <2>1, <2>2, Zenon DEF Frames
<1>5. Whereabouts
  BY DEF Whereabouts
<1>6. FsRight
  BY DEF FsRight
<1>7. Own
  BY DEF Own
<1> QED BY <1>1, <1>2, <1>3, <1>4, <1>5, <1>6, <1>7 DEF SchedInv

\* vfs_open of the binary.
LEMMA ExecOpenInv ==
  ASSUME SchedInv, ExecOpen, UNCHANGED faults
  PROVE  SchedInv'
<1> USE SchedAssumption, ShellSlot DEF SchedInv, ExecOpen, taskVars
<1>1. SchedTypeOK'
  BY DEF SchedTypeOK, Places
<1>2. OneRunning'
  BY DEF OneRunning
<1>3. DepthBalanced'
  BY DEF DepthBalanced
<1>4. SpacesDistinct'
  BY DEF SpacesDistinct, Live
<1>5. Frames'
  BY DEF Frames, Resumes
<1>6. Whereabouts'
  BY DEF Whereabouts
<1>7. FsRight'
  BY DEF FsRight
<1>8. faults' = {} => Own'
  BY DEF Own
<1> QED BY <1>1, <1>2, <1>3, <1>4, <1>5, <1>6, <1>7, <1>8

\* The binary is refused.
LEMMA ExecRefuseInv ==
  ASSUME SchedInv, ExecRefuse, UNCHANGED faults
  PROVE  SchedInv'
<1> USE SchedAssumption, ShellSlot DEF SchedInv, ExecRefuse, taskVars
<1>1. SchedTypeOK'
  BY DEF SchedTypeOK, Places
<1>2. OneRunning'
  BY DEF OneRunning
<1>3. DepthBalanced'
  BY DEF DepthBalanced
<1>4. SpacesDistinct'
  BY DEF SpacesDistinct, Live
<1>5. Frames'
  BY DEF Frames, Resumes
<1>6. Whereabouts'
  BY DEF Whereabouts
<1>7. FsRight'
  BY DEF FsRight
<1>8. faults' = {} => Own'
  BY DEF Own
<1> QED BY <1>1, <1>2, <1>3, <1>4, <1>5, <1>6, <1>7, <1>8

\* The loader enters a new space.
LEMMA ExecLoadInv ==
  ASSUME SchedInv, ExecLoad, UNCHANGED faults
  PROVE  SchedInv'
<1> USE SchedAssumption, ShellSlot DEF SchedInv, ExecLoad, taskVars
<1>1. SchedTypeOK'
  BY DEF SchedTypeOK, DepthBalanced, Places
<1>2. OneRunning'
  BY DEF OneRunning
<1>3. DepthBalanced'
  BY DEF DepthBalanced
<1>4. SpacesDistinct'
  BY DEF SpacesDistinct, Live
<1>5. Frames'
  BY DEF Frames, Resumes
<1>6. Whereabouts'
  BY DEF Live, Whereabouts
<1>7. FsRight'
  BY DEF FsRight
<1>8. faults' = {} => Own'
  BY DEF Own
<1> QED BY <1>1, <1>2, <1>3, <1>4, <1>5, <1>6, <1>7, <1>8

\* A load fails: the root space comes back, and a zombie's slot may be clear.
LEMMA ExecFailInv ==
  ASSUME SchedInv, ExecFail, UNCHANGED faults
  PROVE  SchedInv'
<1> USE SchedAssumption, ShellSlot DEF SchedInv, ExecFail, taskVars, ClearSlot, IsSlot
<1>1. SchedTypeOK'
  BY DEF SchedTypeOK, DepthBalanced, FsRight, NoFrame, Frame, Places
<1>2. OneRunning'
  BY DEF SchedTypeOK, OneRunning
<1>3. DepthBalanced'
  BY DEF DepthBalanced
<1>4. SpacesDistinct'
  BY DEF SchedTypeOK, SpacesDistinct, Live
<1>5. Frames'
  BY DEF SchedTypeOK, Frames, Resumes
<1>6. Whereabouts'
  BY DEF SchedTypeOK, Whereabouts
<1>7. FsRight'
  BY DEF SchedTypeOK, FsRight
<1>8. faults' = {} => Own'
  BY DEF Own, SpacesDistinct
<1> QED BY <1>1, <1>2, <1>3, <1>4, <1>5, <1>6, <1>7, <1>8

\* A new task, still without a frame.
LEMMA CreateInv ==
  ASSUME SchedInv, Create, UNCHANGED faults
  PROVE  SchedInv'
<1> USE SchedAssumption, ShellSlot DEF SchedInv, Create, taskVars, IsSlot
<1>1. SchedTypeOK'
  BY DEF SchedTypeOK, NoFrame, Frame, Places
<1>2. OneRunning'
  BY DEF OneRunning
<1>3. DepthBalanced'
  BY DEF DepthBalanced
<1>4. SpacesDistinct'
  BY DEF SchedTypeOK, SpacesDistinct, Live, Whereabouts
<1>5. Frames'
  BY DEF SchedTypeOK, Frames, Resumes, NoFrame
<1>6. Whereabouts'
  BY DEF Whereabouts
<1>7. FsRight'
  BY DEF SchedTypeOK, FsRight
<1>8. faults' = {} => Own'
  BY DEF SchedTypeOK, Own
<1> QED BY <1>1, <1>2, <1>3, <1>4, <1>5, <1>6, <1>7, <1>8

\* Its frame.
LEMMA BuildInv ==
  ASSUME SchedInv, Build, UNCHANGED faults
  PROVE  SchedInv'
<1> USE SchedAssumption, ShellSlot DEF SchedInv, Build, taskVars
<1>1. SchedTypeOK'
  BY DEF SchedTypeOK, DepthBalanced, Frame, Places
<1>2. OneRunning'
  BY DEF OneRunning
<1>3. DepthBalanced'
  BY DEF DepthBalanced
<1>4. SpacesDistinct'
  BY DEF SpacesDistinct, Live
<1>5. Frames'
  BY DEF SchedTypeOK, Frames, Resumes
<1>6. Whereabouts'
  BY DEF Whereabouts
<1>7. FsRight'
  BY DEF FsRight
<1>8. faults' = {} => Own'
  BY DEF Whereabouts, Own, SpacesDistinct
<1> QED BY <1>1, <1>2, <1>3, <1>4, <1>5, <1>6, <1>7, <1>8

\* The task goes on in its new image.
LEMMA ReplaceInv ==
  ASSUME SchedInv, Replace, UNCHANGED faults
  PROVE  SchedInv'
<1> USE SchedAssumption, ShellSlot DEF SchedInv, Replace, taskVars
<1>1. SchedTypeOK'
  BY DEF SchedTypeOK, DepthBalanced, Places
<1>2. OneRunning'
  BY DEF OneRunning
<1>3. DepthBalanced'
  BY DEF DepthBalanced
<1>4. SpacesDistinct'
  BY DEF SpacesDistinct, Live, Whereabouts
<1>5. Frames'
  BY DEF OneRunning, Frames, Resumes
<1>6. Whereabouts'
  BY DEF Whereabouts
<1>7. FsRight'
  BY DEF SchedTypeOK, FsRight
<1>8. faults' = {} => Own'
  BY DEF SchedTypeOK, Own
<1> QED BY <1>1, <1>2, <1>3, <1>4, <1>5, <1>6, <1>7, <1>8

\* arch_prctl notes the FS base.
LEMMA SetFsInv ==
  ASSUME SchedInv, SetFs, UNCHANGED faults
  PROVE  SchedInv'
<1> USE SchedAssumption, ShellSlot DEF SchedInv, SetFs, taskVars
<1>1. SchedTypeOK'
  BY DEF SchedTypeOK, Places
<1>2. OneRunning'
  BY DEF OneRunning
<1>3. DepthBalanced'
  BY DEF DepthBalanced
<1>4. SpacesDistinct'
  BY DEF SpacesDistinct, Live
<1>5. Frames'
  BY DEF Frames, Resumes
<1>6. Whereabouts'
  BY DEF Whereabouts
<1>7. FsRight'
  BY DEF SchedTypeOK, FsRight
<1>8. faults' = {} => Own'
  BY DEF Own
<1> QED BY <1>1, <1>2, <1>3, <1>4, <1>5, <1>6, <1>7, <1>8

\* ... and writes the MSR.
LEMMA WriteFsInv ==
  ASSUME SchedInv, WriteFs, UNCHANGED faults
  PROVE  SchedInv'
<1> USE SchedAssumption, ShellSlot DEF SchedInv, WriteFs, taskVars
<1>1. SchedTypeOK'
  BY DEF SchedTypeOK, FsRight, Places
<1>2. OneRunning'
  BY DEF OneRunning
<1>3. DepthBalanced'
  BY DEF DepthBalanced
<1>4. SpacesDistinct'
  BY DEF SpacesDistinct, Live
<1>5. Frames'
  BY DEF Frames, Resumes
<1>6. Whereabouts'
  BY DEF Whereabouts
<1>7. FsRight'
  BY DEF FsRight
<1>8. faults' = {} => Own'
  BY DEF Own
<1> QED BY <1>1, <1>2, <1>3, <1>4, <1>5, <1>6, <1>7, <1>8

\* task_exit.
LEMMA ExitInv ==
  ASSUME SchedInv, Exit, UNCHANGED faults
  PROVE  SchedInv'
<1> USE SchedAssumption, ShellSlot DEF SchedInv, Exit, taskVars
<1>1. SchedTypeOK'
  BY DEF SchedTypeOK, Places
<1>2. OneRunning'
  BY DEF SchedTypeOK, OneRunning
<1>3. DepthBalanced'
  BY DEF DepthBalanced
<1>4. SpacesDistinct'
  BY DEF SpacesDistinct, Live
<1>5. Frames'
  BY DEF Frames, Resumes
<1>6. Whereabouts'
  BY DEF SchedTypeOK, Whereabouts
<1>7. FsRight'
  BY DEF FsRight
<1>8. faults' = {} => Own'
  BY DEF Own
<1> QED BY <1>1, <1>2, <1>3, <1>4, <1>5, <1>6, <1>7, <1>8

\* ... chooses the next task.
LEMMA ExitSwitchInv ==
  ASSUME SchedInv, ExitSwitch, UNCHANGED faults
  PROVE  SchedInv'
<1> USE ShellSlot DEF SchedInv
<1>1. PICK t \in Slot :
        /\ t \in Live /\ state' = [state EXCEPT ![t] = "running"]
        /\ cur' = t /\ rsp0' = t /\ cr3' = tcr3[t] /\ fs' = fs_base[t]
  BY Zenon DEF ExitSwitch, IsNext, SwitchTo
<1>2. pc = "exit" /\ pc' = "leave" /\ UNCHANGED <<faults, stk, depth, rsp, tcr3, fs_base, elf, tls>>
  BY DEF ExitSwitch
<1>3. state[t] = "ready" /\ Resumes(t) /\ rsp[t] # NoFrame
  BY <1>1, <1>2 DEF Live, OneRunning, Frames, Resumes, NoFrame
<1>4. /\ state'[t] = "running" /\ \A u \in Slot \ {t} : state'[u] = state[u]
      /\ state' \in [Slot -> {"unused", "ready", "running", "zombie"}]
  BY <1>1 DEF SchedTypeOK
<1>5. Live' = Live
  BY Zenon, <1>3, <1>4 DEF Live
<1>6. SchedTypeOK'
  BY <1>1, <1>2, <1>4 DEF SchedTypeOK, Places
<1>7. OneRunning' /\ DepthBalanced'
  BY <1>1, <1>2, <1>4 DEF OneRunning, DepthBalanced
<1>8. SpacesDistinct'
  BY Zenon, <1>2, <1>5 DEF SpacesDistinct
<1>9. Frames'
  BY <1>1, <1>2, <1>3, <1>4 DEF Frames, Resumes
<1>10. Whereabouts'
  BY <1>2, <1>4 DEF Whereabouts
<1>11. FsRight'
  BY <1>1, <1>2 DEF FsRight
<1>12. faults' = {} => Own'
  BY <1>1, <1>2, <1>3, <1>4 DEF Own
<1> QED BY Zenon, <1>6, <1>7, <1>8, <1>9, <1>10, <1>11, <1>12

\* ... and loads its frame.
LEMMA LeaveInv ==
  ASSUME SchedInv, Leave, UNCHANGED faults
  PROVE  SchedInv'
<1> USE DEF SchedInv
<1>1. /\ pc = "leave" /\ stk' = rsp[cur].stack /\ pc' = rsp[cur].pc
      /\ UNCHANGED <<faults, cur, cr3, fs, rsp0, depth, state, rsp, tcr3, fs_base, elf, tls>>
  BY DEF Leave, taskVars
<1>2. Resumes(cur) /\ cur \in Slot /\ rsp[cur] \in Frame
  BY <1>1 DEF Frames, SchedTypeOK
<1>3. pc' \in {"run", "opened", "setfs", "leave"} /\ (pc' = "setfs" => tls[cur] # NONE)
  BY <1>1, <1>2 DEF Resumes
<1>4. SchedTypeOK'
  BY <1>1, <1>2 DEF SchedTypeOK, Frame
<1>5. OneRunning' /\ DepthBalanced'
  BY <1>1, <1>3 DEF OneRunning, DepthBalanced
<1>6. SpacesDistinct'
  BY Zenon, <1>1 DEF SpacesDistinct, Live
<1>7. Frames'
  BY <1>1, <1>2 DEF Frames, Resumes
<1>8. Whereabouts'
  <2>1. tls[Shell] = NONE /\ state'[Shell] \in {"ready", "running"}
    BY Zenon, <1>1 DEF Whereabouts
  <2> QED BY <1>1, <1>3, <2>1 DEF Whereabouts
<1>9. FsRight'
  BY Zenon, <1>1, <1>3 DEF FsRight
<1>10. faults' = {} => Own'
  BY <1>1, <1>2, <1>3 DEF Own
<1> QED BY Zenon, <1>4, <1>5, <1>6, <1>7, <1>8, <1>9, <1>10

\* The tick.  Nothing changes when no other task is live.
LEMMA TickInv ==
  ASSUME SchedInv, Tick, UNCHANGED faults
  PROVE  SchedInv'
<1> USE SchedAssumption, ShellSlot DEF SchedInv
<1>1. /\ state[cur] = "running" /\ depth = 0 /\ cur \in Slot
      /\ pc \in {"run", "opened", "setfs", "leave"}
      /\ pc = "leave" => "leave" \in faults
  BY DEF Tick, SchedTypeOK, OneRunning, DepthBalanced, Whereabouts, Places
<1>2. /\ rsp' = [rsp EXCEPT ![cur] = [stack |-> stk, pc |-> pc]]
      /\ UNCHANGED <<tcr3, fs_base, elf, tls>>
  BY DEF Tick
<1>3. /\ rsp'[cur].pc \in {"run", "opened", "setfs", "leave"}
      /\ rsp'[cur].pc = "setfs" => tls'[cur] # NONE
  <2>1. rsp'[cur].pc = pc /\ tls' = tls
    BY <1>1, <1>2 DEF SchedTypeOK
  <2>2. pc = "setfs" => tls[cur] # NONE
    BY DEF FsRight
  <2> QED BY <1>1, <2>1, <2>2
<1>4. PICK t \in Slot :
        /\ t \in Live
        /\ \/ t = cur /\ UNCHANGED <<cpuVars, state>>
           \/ /\ t # cur
              /\ state' = [state EXCEPT ![cur] = "ready", ![t] = "running"]
              /\ SwitchTo(t)
              /\ stk' = rsp[t].stack /\ pc' = rsp[t].pc
              /\ UNCHANGED depth
  BY DEF Tick, IsNext
<1>5. CASE t = cur /\ UNCHANGED <<cpuVars, state>>
  <2>1. SchedTypeOK' /\ OneRunning' /\ DepthBalanced' /\ SpacesDistinct'
    BY <1>1, <1>2, <1>5 DEF cpuVars, SchedTypeOK, Frame, OneRunning, DepthBalanced,
       SpacesDistinct, Live
  <2>2. Frames'
    BY <1>1, <1>2, <1>3, <1>5 DEF cpuVars, Frames, Resumes
  <2>3. Whereabouts' /\ FsRight'
    BY <1>2, <1>5 DEF cpuVars, Whereabouts, FsRight, Live
  <2>4. faults' = {} => Own'
    BY <1>1, <1>2, <1>5 DEF cpuVars, Own
  <2> QED BY <2>1, <2>2, <2>3, <2>4
<1>6. CASE /\ t # cur
           /\ state' = [state EXCEPT ![cur] = "ready", ![t] = "running"]
           /\ SwitchTo(t)
           /\ stk' = rsp[t].stack /\ pc' = rsp[t].pc
           /\ UNCHANGED depth
  <2>1. state[t] = "ready" /\ Resumes(t)
    BY <1>1, <1>4, <1>6 DEF Live, OneRunning, Frames
  <2>2. /\ cur' = t /\ rsp0' = t /\ cr3' = tcr3[t] /\ fs' = fs_base[t]
        /\ pc' \in {"run", "opened", "setfs", "leave"}
    BY <1>6, <2>1 DEF SwitchTo, Resumes
  <2>3. /\ state'[cur] = "ready" /\ state'[t] = "running"
        /\ \A u \in Slot \ {cur, t} : state'[u] = state[u]
        /\ \A u \in Slot \ {cur} : rsp'[u] = rsp[u]
    BY Zenon, <1>1, <1>2, <1>6 DEF SchedTypeOK
  <2>4. Live' = Live
    BY Zenon, <1>1, <2>1, <2>3 DEF Live
  <2>5. SchedTypeOK'
    BY Zenon, <1>1, <1>2, <1>6, <2>2 DEF SchedTypeOK, Frame, Places
  <2>6. OneRunning' /\ DepthBalanced'
    BY Zenon, <1>1, <1>6, <2>2, <2>3 DEF OneRunning, DepthBalanced
  <2>7. SpacesDistinct'
    BY <1>2, <2>4 DEF SpacesDistinct
  <2>8. Frames'
    <3>1. ASSUME NEW u \in Slot, state'[u] = "ready" PROVE Resumes(u)'
      <4>1. CASE u = cur
        BY <1>3, <4>1 DEF Resumes
      <4>2. CASE u # cur
        <5>1. state[u] = "ready" /\ rsp'[u] = rsp[u]
          BY <2>3, <3>1, <4>2
        <5> QED BY <1>1, <1>2, <5>1 DEF Frames, Resumes
      <4> QED BY <4>1, <4>2
    <3>2. Resumes(t)'
      BY <1>2, <1>6, <2>1, <2>3 DEF Resumes
    <3>3. ASSUME NEW u \in Slot, state'[u] = "ready" PROVE rsp'[u] # NoFrame
      BY <3>1, <3>3 DEF Resumes, NoFrame
    <3> QED BY <2>2, <3>1, <3>2, <3>3 DEF Frames
  <2>9. Whereabouts'
    <3>1. pc' = "setfs" => t # Shell
      BY <1>6, <2>1 DEF Resumes, Whereabouts
    <3>2. state'[Shell] \in {"ready", "running"}
      BY <2>3 DEF Whereabouts
    <3> QED BY <1>2, <2>2, <3>1, <3>2 DEF Whereabouts
  <2>10. FsRight'
    BY <1>2, <1>6, <2>1, <2>2 DEF FsRight, Resumes
  <2>11. faults' = {} => Own'
    <3> SUFFICES ASSUME faults = {} PROVE Own'
      OBVIOUS
    <3>1. Own /\ pc # "leave" /\ stk = cur
      BY <1>1 DEF Own
    <3>2. rsp[t].stack = t /\ rsp[t].pc # "leave"
      BY <2>1, <3>1 DEF Own, Resumes, NoFrame
    <3>3. rsp'[cur].stack = cur /\ rsp'[cur].pc # "leave"
      BY <1>1, <1>2, <3>1 DEF SchedTypeOK
    <3>4. ASSUME NEW u \in Slot, state'[u] = "ready"
          PROVE  rsp'[u] = NoFrame \/ (rsp'[u].stack = u /\ rsp'[u].pc # "leave")
      <4>1. CASE u = cur
        BY <3>3, <4>1
      <4>2. CASE u # cur
        BY Zenon, <2>3, <3>1, <3>4, <4>2 DEF Own
      <4> QED BY <4>1, <4>2
    <3> QED BY Zenon, <1>2, <1>6, <2>2, <3>2, <3>4 DEF Own
  <2> QED BY <2>5, <2>6, <2>7, <2>8, <2>9, <2>10, <2>11
<1> QED BY <1>4, <1>5, <1>6

\* Every step keeps the invariant.
LEMMA SchedInvStep == SchedInv /\ [SchedNext]_schedVars => SchedInv'
<1> SUFFICES ASSUME SchedInv, [SchedNext]_schedVars PROVE SchedInv'
  OBVIOUS
<1>1. CASE SchedNext
  BY Zenon, <1>1, ExecOpenInv, ExecRefuseInv, ExecLoadInv, ExecFailInv, CreateInv, BuildInv,
     ReplaceInv, SetFsInv, WriteFsInv, ExitInv, ExitSwitchInv, LeaveInv, TickInv
     DEF SchedNext, Step
<1>2. CASE UNCHANGED schedVars
  <2> USE DEF SchedInv
  <2>1. /\ UNCHANGED <<faults, cur, stk, pc, cr3, fs, rsp0, depth, state, rsp, tcr3>>
        /\ UNCHANGED <<fs_base, elf, tls>>
    BY Zenon, <1>2 DEF schedVars
  <2>2. SchedTypeOK' /\ OneRunning' /\ DepthBalanced'
    BY Zenon, <2>1 DEF SchedTypeOK, OneRunning, DepthBalanced
  <2>3. SpacesDistinct' /\ Whereabouts' /\ FsRight'
    BY Zenon, <2>1 DEF SpacesDistinct, Live, Whereabouts, FsRight
  <2>4. Frames' /\ (faults' = {} => Own')
    BY Zenon, <2>1 DEF Frames, Resumes, Own
  <2> QED BY Zenon, <2>2, <2>3, <2>4
<1> QED BY <1>1, <1>2

-----------------------------------------------------------------------------
\* The invariant holds in every reachable state of the scheduler.
LEMMA SchedInvAlways == SchedSpec => []SchedInv
BY SchedInvInit, SchedInvStep, PTL DEF SchedSpec

\* Exactly the current task is RUNNING, but in task_exit; no two tasks share an
\* address space; preemption is off exactly while a loader is in a half-built
\* space.
THEOREM TableIsRight == SchedSpec => []TableRight
BY SchedInvAlways, PTL DEF SchedInv, TableRight

\* A program that set its FS base finds it, wherever it was preempted.
THEOREM FsFollows == SchedSpec => []FsFollowsTask
<1>1. SchedInv => FsFollowsTask
  BY Zenon DEF SchedInv, FsRight, FsFollowsTask
<1> QED BY <1>1, SchedInvAlways, PTL

\* Without a tick in task_exit and a load that fails after the switch of CR3,
\* every READY task has its own frame and a running one its own space.
THEOREM SwitchIsSafe == SchedSpec => []SwitchSafe
<1>1. SchedInv => SwitchSafe
  <2> SUFFICES ASSUME SchedInv, faults = {} PROVE OwnFrame /\ OwnSpace
    BY DEF SwitchSafe
  <2>1. OwnFrame
    <3>1. Own /\ Frames /\ DepthBalanced
      BY DEF SchedInv
    <3>2. ASSUME depth = 0, NEW t \in Slot, state[t] = "ready" PROVE Resumes(t) /\ rsp[t] # NoFrame
      BY <3>1, <3>2 DEF Frames, Resumes, DepthBalanced, NoFrame
    <3> QED BY <3>1, <3>2 DEF OwnFrame, Own, Resumes
  <2>2. OwnSpace
    BY DEF SchedInv, OwnSpace, Own
  <2> QED BY <2>1, <2>2
<1> QED BY <1>1, SchedInvAlways, PTL

-----------------------------------------------------------------------------
(* The argument vector (ArgStack.tla).                                      *)

\* How many of the sums are known.
Known == IF stage = "need" THEN arg ELSE nargs

\* What the loops range over, and where their variables are.
ArgTypes ==
  /\ argc \in Nat /\ lens \in [0 .. argc -> Nat]
  /\ stage \in {"need", "copy", "vector", "done", "failed"}
  /\ arg \in 0 .. nargs
  /\ sums \in [0 .. nargs -> Nat]
  /\ argPtrs \in [0 .. MaxArgv - 1 -> Int]
  /\ sptr \in Int

\* The first loop: need is what the words and the strings take.
SumsRight ==
  /\ sums[0] = 0
  /\ \A a \in 0 .. Known - 1 : sums[a + 1] = sums[a] + lens[a] + 1
  /\ \A a, c \in 0 .. Known : a <= c => sums[a] <= sums[c]
  /\ need = 8 + nwords * 8 + sums[Known]

\* The second loop: string a lies between the sums of a + 1 and of a bytes
\* below the end of the page.
StringsRight ==
  /\ stage = "need" => sptr = StackPage
  /\ stage \in {"copy", "vector"} =>
       /\ need <= StackPage
       /\ sptr = StackPage - sums[arg]
       /\ stage = "vector" => arg = nargs
       /\ \A a \in 0 .. arg - 1 :
            /\ argPtrs[a] = StackPage - sums[a + 1]
            /\ \A k \in 0 .. lens[a] : page[argPtrs[a] + k] = <<"arg", a, k>>

ArgInv == ArgTypes /\ SumsRight /\ StringsRight /\ ArgsExact

\* The assumption without the page's alignment.
LEMMA Sizes ==
  StackPage \in Nat /\ MaxArgv \in Nat \ {0} /\ MaxArgc \in Nat /\ Lengths \subseteq Nat
BY ArgAssumption

\* There is at least the program's name.
LEMMA ArgCount ==
  ASSUME argc \in Nat
  PROVE  nargs \in 1 .. MaxArgv /\ nargs <= argc + 1 /\ nwords = nargs + 6
BY ArgAssumption DEF nargs, nwords

\* Nothing is counted or copied at first.
LEMMA ArgInvInit == ArgInit => ArgInv
<1> SUFFICES ASSUME ArgInit PROVE ArgInv
  OBVIOUS
<1>1. argc \in Nat /\ nargs \in 1 .. MaxArgv
  BY Sizes, ArgCount DEF ArgInit
<1>2. ArgTypes
  <2>1. lens \in [0 .. argc -> Nat]
    BY Zenon, Sizes DEF ArgInit
  <2>2. sums \in [0 .. nargs -> Nat] /\ argPtrs \in [0 .. MaxArgv - 1 -> Int]
    BY <1>1, Sizes DEF ArgInit
  <2>3. arg \in 0 .. nargs /\ sptr \in Int
    BY <1>1, Sizes DEF ArgInit
  <2> QED
    BY <1>1, <2>1, <2>2, <2>3 DEF ArgInit, ArgTypes
<1>3. SumsRight
  BY <1>1 DEF ArgInit, SumsRight, Known
<1> QED
  BY <1>2, <1>3 DEF ArgInit, ArgInv, StringsRight, ArgsExact

\* Each step of the loops, and the words at the end.
LEMMA ArgInvStep == ArgInv /\ [ArgNext]_argVars => ArgInv'
<1> SUFFICES ASSUME ArgInv, [ArgNext]_argVars PROVE ArgInv'
  OBVIOUS
<1>t. /\ argc \in Nat /\ lens \in [0 .. argc -> Nat] /\ arg \in 0 .. nargs
      /\ sums \in [0 .. nargs -> Nat] /\ argPtrs \in [0 .. MaxArgv - 1 -> Int] /\ sptr \in Int
  BY DEF ArgInv, ArgTypes
<1>n. nargs \in 1 .. MaxArgv /\ nargs <= argc + 1 /\ nwords = nargs + 6
  BY <1>t, ArgCount
<1>i. UNCHANGED argInput => nargs' = nargs /\ nwords' = nwords
  BY DEF argInput, nargs, nwords
<1>l. \A a \in 0 .. nargs - 1 : lens[a] \in Nat
  BY <1>t, <1>n
<1>1. CASE NeedArg
  <2>1. nargs' = nargs /\ nwords' = nwords /\ Known = arg /\ Known' = arg + 1
    BY <1>1, <1>i DEF NeedArg, Known
  <2>a. /\ arg \in 0 .. nargs - 1 /\ arg + 1 \in 0 .. nargs /\ lens[arg] \in Nat
        /\ sums[arg] \in Nat /\ sums[arg] + lens[arg] + 1 \in Nat
    <3>1. arg \in 0 .. nargs /\ arg < nargs
      BY <1>1, <1>t DEF NeedArg
    <3>2. arg \in 0 .. nargs - 1 /\ arg + 1 \in 0 .. nargs
      BY <1>n, <3>1
    <3>3. lens[arg] \in Nat /\ sums[arg] \in Nat
      BY <1>l, <1>t, <3>1, <3>2
    <3> QED BY <3>2, <3>3
  <2>2. ArgTypes'
    <3>1. sums' \in [0 .. nargs -> Nat]
      BY <1>1, <1>t, <2>a DEF NeedArg
    <3>2. arg' \in 0 .. nargs
      BY <1>1, <2>a DEF NeedArg
    <3> QED
      BY <1>1, <2>1, <3>1, <3>2 DEF NeedArg, ArgInv, ArgTypes, argInput
  <2>3. SumsRight'
    <3>1. sums'[arg + 1] = sums[arg] + lens[arg] + 1
      BY <1>1, <1>t, <2>a DEF NeedArg
    <3>2. \A a \in 0 .. arg : sums'[a] = sums[a] /\ sums[a] \in Nat /\ sums[a] <= sums[arg]
      <4> SUFFICES ASSUME NEW a \in 0 .. arg
                   PROVE  sums'[a] = sums[a] /\ sums[a] \in Nat /\ sums[a] <= sums[arg]
        OBVIOUS
      <4>1. a \in 0 .. nargs /\ a # arg + 1 /\ a <= arg /\ arg \in 0 .. arg
        BY <2>a, <1>n
      <4> QED
        BY Zenon, <1>1, <1>t, <2>1, <4>1 DEF NeedArg, ArgInv, SumsRight
    <3>3. \A a \in 0 .. arg : sums'[a + 1] = sums'[a] + lens[a] + 1
      <4> SUFFICES ASSUME NEW a \in 0 .. arg PROVE sums'[a + 1] = sums'[a] + lens[a] + 1
        OBVIOUS
      <4>1. CASE a = arg
        BY <4>1, <3>1, <3>2
      <4>2. CASE a \in 0 .. arg - 1
        <5>1. sums[a + 1] = sums[a] + lens[a] + 1
          BY <4>2, <2>1 DEF ArgInv, SumsRight
        <5>2. a + 1 \in 0 .. arg
          BY <4>2, <2>a
        <5> QED
          BY <5>1, <5>2, <3>2
      <4> QED
        BY <4>1, <4>2, <2>a
    <3>4. \A a, c \in 0 .. arg + 1 : a <= c => sums'[a] <= sums'[c]
      <4> SUFFICES ASSUME NEW a \in 0 .. arg + 1, NEW c \in 0 .. arg + 1, a <= c
                   PROVE  sums'[a] <= sums'[c]
        OBVIOUS
      <4>1. CASE c = arg + 1 /\ a = arg + 1
        BY <4>1, <3>1, <2>a
      <4>2. CASE c = arg + 1 /\ a \in 0 .. arg
        BY <4>2, <3>1, <3>2, <2>a
      <4>3. CASE a \in 0 .. arg /\ c \in 0 .. arg
        BY <4>3, <3>2, <2>1 DEF ArgInv, SumsRight
      <4> QED
        BY <4>1, <4>2, <4>3, <2>a
    <3>5. sums'[0] = 0
      BY <3>2, <2>a DEF ArgInv, SumsRight
    <3>6. need' = 8 + nwords' * 8 + sums'[Known']
      <4>1. need = 8 + nwords * 8 + sums[arg] /\ need' = need + lens[arg] + 1
        BY <1>1, <2>1 DEF NeedArg, ArgInv, SumsRight
      <4> QED
        BY <4>1, <2>1, <2>a, <3>1, <1>n
    <3>7. 0 .. Known' - 1 = 0 .. arg /\ lens' = lens
      BY <1>1, <2>1, <2>a DEF NeedArg, argInput
    <3> QED
      BY Zenon, <2>1, <3>3, <3>4, <3>5, <3>6, <3>7 DEF SumsRight
  <2> QED
    BY <1>1, <2>2, <2>3 DEF NeedArg, ArgInv, StringsRight, ArgsExact
<1>2. CASE NeedDone
  <2>1. nargs' = nargs /\ nwords' = nwords /\ Known = nargs /\ Known' = nargs
    BY <1>2, <1>i DEF NeedDone, Known
  <2>2. ArgTypes' /\ SumsRight'
    BY <1>2, <1>n, <2>1 DEF NeedDone, ArgInv, ArgTypes, SumsRight, argInput
  <2>3. StringsRight'
    <3>1. sptr' = StackPage /\ arg' = 0 /\ sums'[0] = 0
      BY <1>2 DEF NeedDone, ArgInv, SumsRight, StringsRight
    <3>2. stage' \in {"copy", "vector"} => need' <= StackPage /\ stage' = "copy"
      <4>1. need = 8 + nwords * 8 + sums[nargs] /\ sums[nargs] \in Nat
        BY <1>n, <1>t, <2>1 DEF ArgInv, SumsRight
      <4>2. need \in Nat
        BY <1>n, <4>1
      <4> QED BY <1>2, <4>2, Sizes DEF NeedDone
    <3>3. stage' # "need"
      BY <1>2 DEF NeedDone
    <3> QED
      BY <3>1, <3>2, <3>3, Sizes DEF StringsRight
  <2> QED
    BY <1>2, <2>2, <2>3 DEF NeedDone, ArgInv, ArgsExact
<1>3. CASE CopyArg
  <2> DEFINE to == sptr - (lens[arg] + 1)
  <2>1. nargs' = nargs /\ nwords' = nwords /\ Known = nargs /\ Known' = nargs
    BY <1>3, <1>i DEF CopyArg, Known
  <2>2. /\ stage = "copy" /\ arg < nargs /\ arg' = arg + 1 /\ sptr' = to
        /\ UNCHANGED <<argc, lens, stage, need, sums>>
        /\ lens[arg] \in Nat
    BY <1>3, <1>t, <1>n DEF CopyArg, argInput
  <2>a. /\ arg \in 0 .. nargs - 1 /\ arg + 1 \in 0 .. nargs /\ nargs \in 0 .. nargs
        /\ sums[arg] \in Nat /\ sums[arg + 1] \in Nat /\ sums[nargs] \in Nat
    <3>1. arg \in 0 .. nargs - 1 /\ arg + 1 \in 0 .. nargs /\ nargs \in 0 .. nargs
      BY <2>2, <1>t, <1>n
    <3> QED BY Zenon, <1>t, <3>1
  <2>b. /\ sums[arg + 1] = sums[arg] + lens[arg] + 1 /\ sums[arg + 1] <= sums[nargs]
    BY <2>1, <2>a DEF ArgInv, SumsRight
  <2>3. to = StackPage - sums[arg + 1] /\ sptr = StackPage - sums[arg]
    <3>1. sptr = StackPage - sums[arg]
      BY <2>2 DEF ArgInv, StringsRight
    <3> QED
      BY <3>1, <2>2, <2>a, <2>b, Sizes
  <2>4. sums[nargs] < StackPage
    <3>1. need = 8 + nwords * 8 + sums[nargs] /\ need <= StackPage
      BY <2>1, <2>2 DEF ArgInv, SumsRight, StringsRight
    <3> QED
      BY <3>1, <2>a, <1>n, Sizes
  <2>5. ArgTypes' /\ SumsRight'
    <3>1. to \in Int
      BY <2>2, <1>t
    <3>2. argPtrs' \in [0 .. MaxArgv - 1 -> Int]
      BY Zenon, <1>3, <3>1, <1>t DEF CopyArg
    <3> QED
      BY Zenon, <2>a, <2>1, <2>2, <3>1, <3>2 DEF ArgInv, ArgTypes, SumsRight
  <2>6. argPtrs'[arg] = to /\ \A a \in 0 .. arg - 1 : argPtrs'[a] = argPtrs[a]
    <3>1. arg \in 0 .. MaxArgv - 1 /\ \A a \in 0 .. arg - 1 : a \in 0 .. MaxArgv - 1 /\ a # arg
      BY <2>a, <1>n, Sizes
    <3> QED
      BY <1>3, <1>t, <3>1 DEF CopyArg
  <2>7. \A b \in to .. sptr - 1 : page'[b] = <<"arg", arg, b - to>>
    <3>1. \A b \in to .. sptr - 1 : b \in Offsets
      BY <2>a, <2>b, <2>3, <2>4, Sizes DEF Offsets
    <3> QED
      BY <1>3, <3>1 DEF CopyArg
  <2>8. ASSUME NEW b \in sptr .. StackPage - 1 PROVE page'[b] = page[b]
    <3>1. sptr \in Nat
      BY <2>2, <2>a, <2>b, <2>3, <2>4, Sizes
    <3>2. b \in Offsets /\ ~ (b <= sptr - 1)
      BY <3>1, Sizes DEF Offsets
    <3>3. b \notin to .. sptr - 1
      BY <3>2
    <3> QED
      BY <1>3, <3>2, <3>3 DEF CopyArg
  <2>9. ASSUME NEW a \in 0 .. arg, NEW k \in 0 .. lens[a]
        PROVE  argPtrs'[a] = StackPage - sums[a + 1] /\ page'[argPtrs'[a] + k] = <<"arg", a, k>>
    <3>1. CASE a = arg
      <4>0. k \in 0 .. lens[arg] /\ lens[arg] \in Nat /\ sptr \in Int
        BY <3>1, <2>2, <1>t
      <4>1. to + k \in to .. sptr - 1 /\ (to + k) - to = k
        BY <4>0
      <4> QED
        BY <3>1, <4>1, <2>3, <2>6, <2>7
    <3>2. CASE a \in 0 .. arg - 1
      <4>1. /\ argPtrs[a] = StackPage - sums[a + 1] /\ page[argPtrs[a] + k] = <<"arg", a, k>>
        BY <3>2, <2>2 DEF ArgInv, StringsRight
      <4>2. /\ sums[a + 1] = sums[a] + lens[a] + 1 /\ sums[a + 1] <= sums[arg]
            /\ sums[a] \in Nat /\ sums[a + 1] \in Nat /\ sums[arg] \in Nat /\ lens[a] \in Nat
        <5>1. a \in 0 .. nargs - 1 /\ a + 1 \in 0 .. nargs /\ a + 1 <= arg
          BY <3>2, <2>a
        <5>2. sums[a + 1] = sums[a] + lens[a] + 1 /\ sums[a + 1] <= sums[arg]
          BY <5>1, <2>1, <1>t DEF ArgInv, SumsRight
        <5>3. lens[a] \in Nat
          BY <5>1, <1>l
        <5>4. a \in 0 .. nargs
          BY <3>2, <2>a
        <5> QED
          BY Zenon, <5>1, <5>2, <5>3, <5>4, <2>a, <1>t
      <4>3. argPtrs[a] + k \in sptr .. StackPage - 1
        BY <4>1, <4>2, <2>3, Sizes
      <4> QED
        BY Zenon, <3>2, <4>1, <4>3, <2>6, <2>8
    <3> QED
      BY <3>1, <3>2, <2>a
  <2>10. StringsRight'
    <3>1. need' <= StackPage
      BY <2>2 DEF ArgInv, StringsRight
    <3>2. \A a \in 0 .. arg' - 1 :
            /\ argPtrs'[a] = StackPage - sums'[a + 1]
            /\ \A k \in 0 .. lens'[a] : page'[argPtrs'[a] + k] = <<"arg", a, k>>
      <4>1. 0 .. arg' - 1 = 0 .. arg
        BY <2>2, <1>t, <1>n
      <4> SUFFICES ASSUME NEW a \in 0 .. arg
                   PROVE  /\ argPtrs'[a] = StackPage - sums[a + 1]
                          /\ \A k \in 0 .. lens[a] : page'[argPtrs'[a] + k] = <<"arg", a, k>>
        BY Zenon, <4>1, <2>2
      <4>2. 0 \in 0 .. lens[a]
        BY <1>t, <1>n, <2>2
      <4> QED
        BY <4>2, <2>9
    <3> QED
      BY <3>1, <3>2, <2>2, <2>3 DEF StringsRight
  <2> QED
    BY <2>2, <2>5, <2>10 DEF ArgInv, ArgsExact
<1>4. CASE CopyDone
  <2>1. nargs' = nargs /\ nwords' = nwords /\ Known = nargs /\ Known' = nargs
    BY <1>4, <1>i DEF CopyDone, Known
  <2> QED
    BY Zenon, <1>4, <2>1
       DEF CopyDone, ArgInv, ArgTypes, SumsRight, StringsRight, ArgsExact, argInput
<1>5. CASE Vector
  <2> DEFINE start == sptr - (sptr % 8) - nwords * 8
  <2>1. nargs' = nargs /\ nwords' = nwords /\ Known = nargs /\ Known' = nargs
    BY <1>5, <1>i DEF Vector, Known
  <2>2. /\ stage = "vector" /\ stage' = "done" /\ ustackRsp' = start /\ arg = nargs
        /\ UNCHANGED <<argc, lens, arg, need, sums, sptr, argPtrs>>
    BY <1>5 DEF Vector, argInput, ArgInv, StringsRight
  <2>3. /\ sptr = StackPage - sums[nargs] /\ sums[nargs] \in Nat
        /\ 8 + nwords * 8 + sums[nargs] <= StackPage
    BY <2>1, <2>2, <1>n DEF ArgInv, ArgTypes, SumsRight, StringsRight
  <2>4. /\ sptr \in Nat /\ sptr % 8 \in 0 .. 7 /\ sptr <= StackPage
        /\ start \in Nat /\ start % 8 = 0 /\ start + nwords * 8 <= sptr
    BY <2>3, <1>n, ArgAssumption
  <2>p. page' = [b \in Offsets |-> IF b \in start .. start + nwords * 8 - 1
                                  THEN <<"word", (b - start) \div 8, (b - start) % 8>> ELSE page[b]]
    BY <1>5 DEF Vector
  <2> HIDE DEF start
  <2>5. ArgTypes' /\ SumsRight' /\ StringsRight'
    BY Zenon, <2>1, <2>2 DEF ArgInv, ArgTypes, SumsRight, StringsRight
  <2>6. ASSUME NEW j \in 0 .. nwords - 1, NEW k \in 0 .. 7
        PROVE  start + j * 8 + k \in Offsets /\ page'[start + j * 8 + k] = <<"word", j, k>>
    <3> DEFINE b == start + j * 8 + k
    <3>1. b \in Offsets /\ b \in start .. start + nwords * 8 - 1
      BY <2>3, <2>4, <1>n, Sizes DEF Offsets
    <3>2. (b - start) \div 8 = j /\ (b - start) % 8 = k
      BY <2>4, <1>n
    <3> QED
      BY <2>p, <3>1, <3>2
  <2>7. ASSUME NEW b \in sptr .. StackPage - 1
        PROVE  b \in Offsets /\ page'[b] = page[b]
    <3>1. b \in Offsets /\ b \notin start .. start + nwords * 8 - 1
      BY <2>4, <1>n, Sizes DEF Offsets
    <3> QED
      BY <2>p, <3>1
  <2>8. /\ vec'[0] = nargs /\ vec'[nargs + 1] = 0 /\ vec'[nargs + 2] = 0
        /\ vec'[nargs + 3] = AT_PAGESZ /\ vec'[nargs + 4] = StackPage /\ vec'[nargs + 5] = 0
        /\ \A a \in 0 .. nargs - 1 : vec'[1 + a] = argPtrs[a]
    <3>1. \A j \in 0 .. nwords - 1 : vec'[j] = WordValue(j)
      BY <1>5 DEF Vector
    <3>2. /\ 0 \in 0 .. nwords - 1 /\ nargs + 1 \in 0 .. nwords - 1 /\ nargs + 2 \in 0 .. nwords - 1
          /\ nargs + 3 \in 0 .. nwords - 1 /\ nargs + 4 \in 0 .. nwords - 1
          /\ nargs + 5 \in 0 .. nwords - 1
      BY <1>n
    <3>3. WordValue(0) = nargs
      BY <1>n DEF WordValue
    <3>4. WordValue(nargs + 1) = 0 /\ WordValue(nargs + 2) = 0 /\ WordValue(nargs + 5) = 0
      BY <1>n DEF WordValue
    <3>5. WordValue(nargs + 3) = AT_PAGESZ /\ WordValue(nargs + 4) = StackPage
      BY <1>n DEF WordValue
    <3>6. ASSUME NEW a \in 0 .. nargs - 1
          PROVE  1 + a \in 0 .. nwords - 1 /\ WordValue(1 + a) = argPtrs[a]
      BY <1>n DEF WordValue
    <3> QED
      BY <3>1, <3>2, <3>3, <3>4, <3>5, <3>6
  <2>9. ASSUME NEW a \in 0 .. nargs - 1, NEW k \in 0 .. lens[a]
        PROVE  vec'[1 + a] + k \in Offsets /\ page'[vec'[1 + a] + k] = <<"arg", a, k>>
    <3>1. argPtrs[a] = StackPage - sums[a + 1] /\ page[argPtrs[a] + k] = <<"arg", a, k>>
      BY <2>2 DEF ArgInv, StringsRight
    <3>2. /\ sums[a + 1] = sums[a] + lens[a] + 1 /\ sums[a + 1] <= sums[nargs]
          /\ sums[a] \in Nat /\ sums[a + 1] \in Nat /\ lens[a] \in Nat
      <4>1. a + 1 \in 0 .. nargs /\ a \in 0 .. nargs /\ nargs \in 0 .. nargs /\ a + 1 <= nargs
        BY <1>n
      <4>2. sums[a + 1] = sums[a] + lens[a] + 1 /\ sums[a + 1] <= sums[nargs]
        BY <4>1, <2>1 DEF ArgInv, SumsRight
      <4> QED
        BY Zenon, <4>1, <4>2, <1>t, <1>l
    <3>3. argPtrs[a] + k \in sptr .. StackPage - 1
      BY <3>1, <3>2, <2>3, Sizes
    <3> QED
      BY <3>1, <3>3, <2>7, <2>8
  <2>10. start \in Offsets
    BY <2>3, <2>4, <1>n, Sizes DEF Offsets
  <2>11. ArgsExact'
    BY Zenon, <2>1, <2>2, <2>4, <2>6, <2>8, <2>9, <2>10 DEF ArgsExact, ArgvAt
  <2> QED
    BY <2>5, <2>11 DEF ArgInv
<1>6. CASE UNCHANGED argVars
  <2>1. nargs' = nargs /\ nwords' = nwords /\ Known' = Known
    BY <1>6 DEF argVars, nargs, nwords, Known
  <2> QED
    BY Zenon, <1>6, <2>1 DEF argVars, ArgInv, ArgTypes, SumsRight, StringsRight, ArgsExact, ArgvAt
<1> QED
  BY <1>1, <1>2, <1>3, <1>4, <1>5, <1>6 DEF ArgNext

\* The program finds its arguments as crt1 expects them, for every page size
\* and any number and length of arguments.
THEOREM ArgsAreExact == ArgSpec => []ArgsExact
<1>1. ArgInv => ArgsExact
  BY DEF ArgInv
<1> QED
  BY <1>1, ArgInvInit, ArgInvStep, PTL DEF ArgSpec
=============================================================================

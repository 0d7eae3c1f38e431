------------------------------- MODULE FdTable -------------------------------
(***************************************************************************)
(* Descriptor tables, open file descriptions and pipe objects of           *)
(* kernel/vfs/vfs.c, with the two places where the scheduler touches them  *)
(* (task_create_user inherits a table, task_exit closes one).              *)
(*                                                                         *)
(* One action is one complete call.  FdPreempt refines file_unref to       *)
(* single memory accesses and shows what a timer tick inside a call does.  *)
(*                                                                         *)
(*   struct task::fds        fds[t][d]                                     *)
(*   struct vfs_file         refs[f], pipeOf[f] (f->pipe), end[f] ("w" if   *)
(*                           f->flags & O_WRONLY); files = the live ones   *)
(*   struct vfs_pipe         refs_r[p], refs_w[p]; pipes = the live ones   *)
(*                                                                         *)
(* The fields of an object that kfree() took back are reset to a fixed     *)
(* value: nothing may depend on them.                                      *)
(***************************************************************************)
EXTENDS Integers, FiniteSets

CONSTANTS Tasks,    \* slots of g_tasks that may hold a task
          Shell,    \* task 0 (tsh): the only caller of elf_exec
          Files,    \* addresses kmalloc can give a struct vfs_file
          Pipes,    \* addresses kmalloc can give a struct vfs_pipe
          NULL,
          MaxFds,   \* VFS_MAX_FDS (16 in the code)
          FirstFd   \* first descriptor fd_alloc hands out (3 in the code)

ASSUME FdAssumption ==
  /\ IsFiniteSet(Tasks) /\ Shell \in Tasks
  /\ NULL \notin Files /\ NULL \notin Pipes
  /\ MaxFds \in Nat /\ FirstFd \in Nat /\ FirstFd <= MaxFds

VARIABLES alive,   \* tasks that are not zombies
          fds, files, refs, pipeOf, end, pipes, refs_r, refs_w

vars == <<alive, fds, files, refs, pipeOf, end, pipes, refs_r, refs_w>>

Fd == 0 .. MaxFds - 1
Std == 0 .. FirstFd - 1
Ends == {"r", "w"}
EmptyTable == [d \in Fd |-> NULL]

TypeOK ==
  /\ alive \in SUBSET Tasks
  /\ fds \in [Tasks -> [Fd -> Files \cup {NULL}]]
  /\ files \in SUBSET Files
  /\ refs \in [Files -> Nat]
  /\ pipeOf \in [Files -> Pipes \cup {NULL}]
  /\ end \in [Files -> Ends]
  /\ pipes \in SUBSET Pipes
  /\ refs_r \in [Pipes -> Nat]
  /\ refs_w \in [Pipes -> Nat]

-----------------------------------------------------------------------------
(* Counting descriptors.                                                    *)

\* The descriptors, in all tables, that refer to a file of S.
Holders(S) == {s \in Tasks \X Fd : fds[s[1]][s[2]] \in S}

\* The live files that are the write ("w") or read ("r") end of pipe p.
EndFiles(p, e) == {f \in files : pipeOf[f] = p /\ end[f] = e}

\* The descriptors of the table tbl that refer to a file of S.
RowSlots(tbl, S) == {d \in Fd : tbl[d] \in S}
RowCount(tbl, S) == Cardinality(RowSlots(tbl, S))

\* Both for a single file.
HoldersOf(f) == Holders({f})
RowCountOf(tbl, f) == RowCount(tbl, {f})

-----------------------------------------------------------------------------
(* After boot: sched_init made the shell task 0, vfs_devices_init opened    *)
(* the console once per standard descriptor.                                *)
Init ==
  /\ alive = {Shell}
  /\ \E std \in [Std -> Files] :
       /\ \A i, j \in Std : std[i] = std[j] => i = j
       /\ fds = [t \in Tasks |-> [d \in Fd |->
                   IF t = Shell /\ d \in Std THEN std[d] ELSE NULL]]
       /\ files = {std[i] : i \in Std}
       /\ refs = [f \in Files |-> IF \E i \in Std : std[i] = f THEN 1 ELSE 0]
  /\ pipeOf = [f \in Files |-> NULL]
  /\ end = [f \in Files |-> "r"]
  /\ pipes = {}
  /\ refs_r = [p \in Pipes |-> 0]
  /\ refs_w = [p \in Pipes |-> 0]

\* fd_alloc scans upwards from FirstFd, vfs_dup from 0.
FreeFrom(t, first) == {d \in Fd : d >= first /\ fds[t][d] = NULL}
IsLowest(d, D) == d \in D /\ \A e \in D : d <= e

\* A table that holds f at d and nothing else.
Only(d, f) == [EmptyTable EXCEPT ![d] = f]

\* The files whose reference count file_unref brings to zero.
DeadFiles(out) ==
  {f \in files : RowCountOf(out, f) > 0 /\ refs[f] = RowCountOf(out, f)}

\* Mutant of DeadPipes: the test of both counters comes before the decrement.
DeadPipesTestFirst(out, dead) ==
  {p \in pipes : /\ \E f \in dead : pipeOf[f] = p
                 /\ refs_r[p] = 0 /\ refs_w[p] = 0}

\* The pipes it frees with them: a pipe lives as long as either end is
\* referenced.
DeadPipes(out, dead) ==
  {p \in pipes : /\ \E f \in dead : pipeOf[f] = p
                 /\ refs_r[p] = RowCount(out, EndFiles(p, "r"))
                 /\ refs_w[p] = RowCount(out, EndFiles(p, "w"))}

\* file_unref for every descriptor in the table out, then file_ref for
\* every descriptor in the table in.
UnrefRef(out, in) ==
  LET dead == DeadFiles(out) IN
  /\ files' = files \ dead
  /\ refs' = [f \in Files |->
                refs[f] - RowCountOf(out, f) + RowCountOf(in, f)]
  /\ pipeOf' = [f \in Files |-> IF f \in dead THEN NULL ELSE pipeOf[f]]
  /\ end' = [f \in Files |-> IF f \in dead THEN "r" ELSE end[f]]
  /\ pipes' = pipes \ DeadPipes(out, dead)
  /\ refs_r' = [p \in Pipes |-> refs_r[p] - RowCount(out, EndFiles(p, "r"))
                                          + RowCount(in, EndFiles(p, "r"))]
  /\ refs_w' = [p \in Pipes |-> refs_w[p] - RowCount(out, EndFiles(p, "w"))
                                          + RowCount(in, EndFiles(p, "w"))]

-----------------------------------------------------------------------------
(* The calls.  Those that fail without touching any state (-EBADF, -ENOMEM  *)
(* before the first assignment) are stuttering steps and not listed.        *)

\* vfs_open, from the kmalloc of the description on.  When fd_alloc finds
\* the table full its -ENOMEM is returned and the description stays behind.
Open(t) ==
  /\ t \in alive
  /\ \E f \in Files \ files :
       /\ files' = files \cup {f}
       /\ refs' = [refs EXCEPT ![f] = 1]
       /\ pipeOf' = [pipeOf EXCEPT ![f] = NULL]
       /\ \/ /\ FreeFrom(t, FirstFd) = {}
             /\ fds' = fds
          \/ \E d \in Fd :
               /\ IsLowest(d, FreeFrom(t, FirstFd))
               /\ fds' = [fds EXCEPT ![t][d] = f]
  /\ UNCHANGED <<alive, end, pipes, refs_r, refs_w>>

Close(t, d) ==
  /\ t \in alive /\ fds[t][d] # NULL
  /\ fds' = [fds EXCEPT ![t][d] = NULL]
  /\ UnrefRef(Only(d, fds[t][d]), EmptyTable)
  /\ UNCHANGED alive

Dup(t, old) ==
  /\ t \in alive /\ fds[t][old] # NULL
  /\ \E d \in Fd :
       /\ IsLowest(d, FreeFrom(t, 0))
       /\ fds' = [fds EXCEPT ![t][d] = fds[t][old]]
       /\ UnrefRef(EmptyTable, Only(d, fds[t][old]))
  /\ UNCHANGED alive

\* The target is closed first, whatever it holds.
Dup2(t, old, new) ==
  /\ t \in alive /\ fds[t][old] # NULL /\ old # new
  /\ fds' = [fds EXCEPT ![t][new] = fds[t][old]]
  /\ UnrefRef(Only(new, fds[t][new]), Only(new, fds[t][old]))
  /\ UNCHANGED alive

\* vfs_pipe; with fewer than two free slots everything is undone.
Pipe(t) ==
  /\ t \in alive
  /\ \E a, b \in Fd, r, w \in Files \ files, p \in Pipes \ pipes :
       /\ r # w
       /\ IsLowest(a, FreeFrom(t, FirstFd))
       /\ IsLowest(b, FreeFrom(t, FirstFd) \ {a})
       /\ fds' = [fds EXCEPT ![t] = [@ EXCEPT ![a] = r, ![b] = w]]
       /\ files' = files \cup {r, w}
       /\ refs' = [refs EXCEPT ![r] = 1, ![w] = 1]
       /\ pipeOf' = [pipeOf EXCEPT ![r] = p, ![w] = p]
       /\ end' = [end EXCEPT ![r] = "r", ![w] = "w"]
       /\ pipes' = pipes \cup {p}
       /\ refs_r' = [refs_r EXCEPT ![p] = 1]
       /\ refs_w' = [refs_w EXCEPT ![p] = 1]
  /\ UNCHANGED alive

\* Mutant of Spawn: the table is copied without file_ref.
SpawnUncounted(c) ==
  /\ c \in Tasks \ alive
  /\ alive' = alive \cup {c}
  /\ fds' = [fds EXCEPT ![c] = fds[Shell]]
  /\ UNCHANGED <<files, refs, pipeOf, end, pipes, refs_r, refs_w>>

\* task_create_user: vfs_fd_inherit gives the new task a counted copy of
\* the shell's table.  elf_exec runs it with preemption disabled.
Spawn(c) ==
  /\ c \in Tasks \ alive
  /\ alive' = alive \cup {c}
  /\ fds' = [fds EXCEPT ![c] = fds[Shell]]
  /\ UnrefRef(EmptyTable, fds[Shell])

\* task_exit: vfs_close_all drops the whole table.  The tick leaves a
\* zombie alone, so no other task runs in between.
Exit(t) ==
  /\ t \in alive \ {Shell}
  /\ alive' = alive \ {t}
  /\ fds' = [fds EXCEPT ![t] = EmptyTable]
  /\ UnrefRef(fds[t], EmptyTable)

Next ==
  \/ \E t \in Tasks : Open(t) \/ Pipe(t) \/ Spawn(t) \/ Exit(t)
  \/ \E t \in Tasks, d \in Fd : Close(t, d) \/ Dup(t, d)
  \/ \E t \in Tasks, old, new \in Fd : Dup2(t, old, new)

Spec == Init /\ [][Next]_vars

-----------------------------------------------------------------------------
(* What the counts promise.                                                 *)

\* struct vfs_file: "multiple fd slots may point at the same vfs_file, so it
\* is refcounted".  f->refs is the number of descriptors, in all tasks, that
\* refer to f; the one exception is a plain file nobody refers to, which
\* vfs_open left behind when fd_alloc failed.
RefsExact ==
  \A f \in files :
    \/ refs[f] = Cardinality(HoldersOf(f))
    \/ HoldersOf(f) = {} /\ refs[f] = 1 /\ pipeOf[f] = NULL

\* "refs_r/refs_w count the open descriptors per end": so pipe_read sees EOF
\* exactly when no task holds a write descriptor any more, and pipe_write
\* sees -EPIPE exactly when none holds a read descriptor.
EndsExact ==
  \A p \in pipes :
    /\ refs_r[p] = Cardinality(Holders(EndFiles(p, "r")))
    /\ refs_w[p] = Cardinality(Holders(EndFiles(p, "w")))

\* file_unref frees early: no descriptor refers to a freed description, and
\* no live description to a freed pipe.
NoDangling ==
  /\ \A t \in Tasks, d \in Fd : fds[t][d] # NULL => fds[t][d] \in files
  /\ \A f \in files : pipeOf[f] # NULL => pipeOf[f] \in pipes

\* file_unref frees too late: a live pipe has a live end, and a live end has
\* a descriptor, so no pipe outlives its last close.
NoOrphanPipe ==
  /\ \A p \in pipes : \E f \in files : pipeOf[f] = p
  /\ \A f \in files : pipeOf[f] # NULL => HoldersOf(f) # {}

\* task_exit left nothing behind: a task that is gone holds no descriptor.
DeadHoldNothing == \A t \in Tasks \ alive : fds[t] = EmptyTable

\* vfs.c: the tables are well formed, and both kinds of counters are exact in
\* every state between two calls, however descriptors are shared.
CountsRight == TypeOK /\ RefsExact /\ EndsExact

\* file_unref frees a description and a pipe neither too early nor too late.
HeapRight == NoDangling /\ NoOrphanPipe
=============================================================================

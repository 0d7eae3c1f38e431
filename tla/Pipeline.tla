------------------------------ MODULE Pipeline ------------------------------
(***************************************************************************)
(* exec_pipeline of kernel/shell/commands.c, running `a | b > f | c` on    *)
(* the descriptor tables of FdTable: the shell rewires its own slots 0..2, *)
(* spawns a child that inherits them, puts them back, and waits.           *)
(*                                                                         *)
(* Every vfs call of the shell is one step (an action of FdTable), and the *)
(* children run in between.  A pipe's content is the number of bytes in    *)
(* it; Pipe.tla has the ring buffer.                                       *)
(***************************************************************************)
EXTENDS FdTable, SequencesExt

CONSTANTS Plans,       \* command lines: sequences of [builtin, redir]
          Size,        \* PIPE_BUF_SIZE (4096 in the code)
          MaxOut,      \* most bytes a program writes
          BuiltinOut,  \* most bytes a builtin writes to descriptor 1
          MayFail,     \* may opens, vfs_pipe and elf_exec fail?
          EarlyExit    \* may a program exit before it has read everything?

Stages == 1 .. 3

ASSUME PipelineAssumption ==
  /\ \A p \in Plans : Len(p) \in Stages
  /\ Files \subseteq Nat /\ Pipes \subseteq Nat /\ Tasks \subseteq Nat
  /\ Std = 0 .. 2

VARIABLES
  plan,     \* the command line being run
  script,   \* the calls exec_pipeline has still to make; <<>> at the prompt
  loc,      \* its local variables that hold descriptors
  todo,     \* bytes the builtin that runs still has to write
  child,    \* child[k]: the task of stage k, while it lives
  prog,     \* prog[k]: what the program of stage k is doing
  level     \* level[p]: bytes in pipe p

fdVars == <<alive, fds, files, refs, pipeOf, end, pipes, refs_r, refs_w>>
allVars == <<alive, fds, files, refs, pipeOf, end, pipes, refs_r, refs_w,
             plan, script, loc, todo, child, prog, level>>

NoFd == -1
Locals == {"s0", "s1", "s2", "prev_r", "w", "f0", "f1", "f2", "elf"}
Saves == <<"s0", "s1", "s2">>
FileFds == <<"f0", "f1", "f2">>
NoProg == [at |-> "none", out |-> 0, input |-> "open"]

PipelineTypeOK ==
  /\ TypeOK
  /\ plan \in Plans \cup {<<>>} /\ loc \in [Locals -> Fd \cup {NoFd}]
  /\ todo \in 0 .. BuiltinOut
  /\ child \in [Stages -> Tasks \cup {NULL}]
  /\ \A k \in Stages : /\ prog[k].at \in {"none", "run", "read", "write"}
                       /\ prog[k].out \in 0 .. MaxOut
                       /\ prog[k].input \in {"open", "eof", "unread"}
  /\ level \in [Pipes -> 0 .. Size]

PipelineInit ==
  /\ Init
  /\ \A d \in Std : fds[Shell][d] = d + 1     \* see Lowest
  /\ plan = <<>> /\ script = <<>> /\ loc = [x \in Locals |-> NoFd] /\ todo = 0
  /\ child = [k \in Stages |-> NULL] /\ prog = [k \in Stages |-> NoProg]
  /\ level = [p \in Pipes |-> 0]

-----------------------------------------------------------------------------
(* exec_pipeline as the calls it makes, in order.                           *)

\* saves[i] = vfs_dup(i).  None of them fails: ShellRestored.
SaveAll == [i \in 1 .. 3 |-> <<"dup", i - 1, Saves[i]>>]

\* stdin from the previous pipe, stdout into a fresh one, the redirections,
\* and the command.
Stage(k) ==
  LET redir(d) == IF d \in plan'[k].redir
                    THEN <<<<"open", FileFds[d + 1]>>, <<"dup2", FileFds[d + 1], d>>>>
                    ELSE <<>>
  IN  FlattenSeq(<<IF k > 1 THEN <<<<"dup2", "prev_r", 0>>, <<"close", "prev_r">>>>
                            ELSE <<>>,
                   IF k < Len(plan') THEN <<<<"pipe">>, <<"dup2", "w", 1>>>> ELSE <<>>,
                   redir(0), redir(1), redir(2),
                   IF plan'[k].builtin
                     THEN <<<<"builtin">>>>
                     ELSE <<<<"open", "elf">>, <<"spawn", k>>, <<"close", "elf">>>> >>)

\* Mutant of Cleanup: the shell keeps its copy of the write end.
CleanupKeepsWrite == [i \in 1 .. 3 |-> <<"dup2", Saves[i], i - 1>>]
                       \o [i \in 1 .. 3 |-> <<"close", FileFds[i]>>]

\* The shell's own descriptors come back, the temporary ones go.
Cleanup == [i \in 1 .. 3 |-> <<"dup2", Saves[i], i - 1>>]
             \o [i \in 1 .. 3 |-> <<"close", FileFds[i]>>]
             \o <<<<"close", "w">>>>

\* Mutant of Finish: prev_r is not closed when a later stage failed.
FinishKeepsRead == <<<<"wait">>>> \o [i \in 1 .. 3 |-> <<"close", Saves[i]>>]

Finish == <<<<"close", "prev_r">>, <<"wait">>>>
            \o [i \in 1 .. 3 |-> <<"close", Saves[i]>>]

-----------------------------------------------------------------------------
(* The calls.                                                               *)

Op(op) == script # <<>> /\ Head(script)[1] = op
Arg(i) == Head(script)[i]

\* kmalloc and task_find_slot take the lowest; which address an object has
\* makes no difference to anything here.
Lowest ==
  /\ \A f \in files' \ files, g \in Files \ files' : f < g
  /\ \A f, g \in files' \ files : end'[f] = "r" /\ end'[g] = "w" => f < g
  /\ \A p \in pipes' \ pipes, q \in Pipes \ pipes' : p < q
  /\ \A t \in alive' \ alive, u \in Tasks \ alive' : t < u

\* command_execute: a line whose programs resolve_prog has found.
Line ==
  /\ script = <<>>
  /\ plan' \in Plans
  /\ script' = SaveAll \o FlattenSeq([k \in 1 .. Len(plan') |-> Stage(k) \o Cleanup])
                 \o Finish
  /\ UNCHANGED <<loc, todo, child, prog, level>> /\ UNCHANGED fdVars

\* failed = 1: from anywhere in a stage to the end of its clean-up and out
\* of the loop.  elf_exec closes the binary itself.
Fail ==
  /\ MayFail /\ (Op("pipe") \/ Op("open") \/ Op("spawn"))
  /\ script' = <<<<"close", "elf">>>> \o Cleanup \o Finish
  /\ UNCHANGED <<plan, loc, todo, child, prog, level>> /\ UNCHANGED fdVars

\* vfs_dup, vfs_open and vfs_pipe: the descriptors go into locals.
CallDup ==
  /\ Op("dup") /\ Dup(Shell, Arg(2))
  /\ \E d \in Fd : IsLowest(d, FreeFrom(Shell, 0)) /\ loc' = [loc EXCEPT ![Arg(3)] = d]
  /\ UNCHANGED level

CallOpen ==
  /\ Op("open") /\ Open(Shell)
  /\ \E d \in Fd :
       /\ IsLowest(d, FreeFrom(Shell, FirstFd))
       /\ loc' = [loc EXCEPT ![Arg(2)] = d]
  /\ UNCHANGED level

\* Mutant of CallPipe: pp[0] and pp[1] swapped.
CallPipeSwapped ==
  /\ Op("pipe") /\ Pipe(Shell)
  /\ \E a, b \in Fd :
       /\ IsLowest(a, FreeFrom(Shell, FirstFd))
       /\ IsLowest(b, FreeFrom(Shell, FirstFd) \ {a})
       /\ loc' = [loc EXCEPT !["prev_r"] = b, !["w"] = a]
  /\ level' = [p \in Pipes |-> IF p \in pipes THEN level[p] ELSE 0]

CallPipe ==
  /\ Op("pipe") /\ Pipe(Shell)
  /\ \E a, b \in Fd :
       /\ IsLowest(a, FreeFrom(Shell, FirstFd))
       /\ IsLowest(b, FreeFrom(Shell, FirstFd) \ {a})
       /\ loc' = [loc EXCEPT !["prev_r"] = a, !["w"] = b]
  /\ level' = [p \in Pipes |-> IF p \in pipes THEN level[p] ELSE 0]

CallDup2 ==
  /\ Op("dup2") /\ Dup2(Shell, loc[Arg(2)], Arg(3))
  /\ UNCHANGED <<loc, level>>

\* `if (fd >= 0) vfs_close(fd)'.
CallClose ==
  /\ Op("close")
  /\ IF loc[Arg(2)] = NoFd THEN UNCHANGED fdVars ELSE Close(Shell, loc[Arg(2)])
  /\ loc' = [loc EXCEPT ![Arg(2)] = NoFd]
  /\ UNCHANGED level

\* while (sched_task_alive(pids[k])) hlt(), for every k.
CallWait ==
  /\ Op("wait") /\ \A k \in Stages : child[k] = NULL
  /\ UNCHANGED <<loc, level>> /\ UNCHANGED fdVars

Call ==
  /\ CallDup \/ CallOpen \/ CallPipe \/ CallDup2 \/ CallClose \/ CallWait
  /\ script' = Tail(script)
  /\ plan' = IF script' = <<>> THEN <<>> ELSE plan
  /\ UNCHANGED <<todo, child, prog>>

\* task_create_user in elf_exec: the binary is still open in the shell's
\* table, so the child inherits that descriptor too.  Its program will write
\* some bytes if its output is a pipe and read its input to the end if that
\* is one; files and the console never make it wait.
CallSpawn ==
  /\ Op("spawn")
  /\ \E c \in Tasks, n \in 0 .. MaxOut :
       /\ pipeOf[fds[Shell][1]] = NULL => n = 0
       /\ Spawn(c)
       /\ child' = [child EXCEPT ![Arg(2)] = c]
       /\ prog' = [prog EXCEPT ![Arg(2)] =
                    [at |-> "run", out |-> n,
                     input |-> IF pipeOf[fds[Shell][0]] = NULL THEN "eof"
                                                               ELSE "open"]]
  /\ script' = Tail(script)
  /\ UNCHANGED <<plan, loc, todo, level>>

\* builtin_run in the shell itself: it writes bytes to descriptor 1, one at
\* a time here; pipe_write waits while the pipe is full.
BuiltinStart ==
  /\ Op("builtin")
  /\ todo' \in 0 .. BuiltinOut
  /\ script' = <<<<"writing">>>> \o Tail(script)
  /\ UNCHANGED <<plan, loc, child, prog, level>> /\ UNCHANGED fdVars

BuiltinWrite ==
  LET p == pipeOf[fds[Shell][1]]
  IN  /\ Op("writing")
      /\ \/ todo = 0 /\ script' = Tail(script) /\ UNCHANGED <<todo, level>>
         \/ /\ todo > 0 /\ todo' = todo - 1 /\ UNCHANGED script
            /\ \/ p = NULL /\ UNCHANGED level
               \/ /\ p # NULL /\ level[p] < Size
                  /\ level' = [level EXCEPT ![p] = @ + 1]
      /\ UNCHANGED <<plan, loc, child, prog>> /\ UNCHANGED fdVars

ShellNext ==
  /\ Line \/ Fail \/ Call \/ CallSpawn \/ BuiltinStart \/ BuiltinWrite
  /\ Lowest

-----------------------------------------------------------------------------
(* The programs.  They read descriptor 0, write descriptor 1, and exit.     *)

Stdin(k) == pipeOf[fds[child[k]][0]]
Stdout(k) == pipeOf[fds[child[k]][1]]

\* The program enters a read or a write call; it is stuck there until the
\* call returns.
Enter(k) ==
  /\ prog[k].at = "run"
  /\ \/ prog[k].input = "open" /\ prog' = [prog EXCEPT ![k].at = "read"]
     \/ prog[k].out > 0 /\ prog' = [prog EXCEPT ![k].at = "write"]
     \/ /\ EarlyExit /\ prog[k].input = "open"
        /\ prog' = [prog EXCEPT ![k].input = "unread"]
  /\ UNCHANGED <<level, child>> /\ UNCHANGED fdVars

\* pipe_read, one byte at a time.
Read(k) ==
  /\ prog[k].at = "read"
  /\ \/ /\ level[Stdin(k)] > 0
        /\ level' = [level EXCEPT ![Stdin(k)] = @ - 1]
        /\ prog' = [prog EXCEPT ![k].at = "run"]
     \/ /\ level[Stdin(k)] = 0 /\ refs_w[Stdin(k)] = 0
        /\ prog' = [prog EXCEPT ![k].at = "run", ![k].input = "eof"]
        /\ UNCHANGED level
  /\ UNCHANGED child /\ UNCHANGED fdVars

\* pipe_write, one byte at a time; a program gives up on -EPIPE.
Write(k) ==
  LET p == Stdout(k)
      broken == refs_r[p] = 0
  IN  /\ prog[k].at = "write" /\ (broken \/ level[p] < Size)
      /\ prog' = [prog EXCEPT ![k].at = "run",
                              ![k].out = IF broken THEN 0 ELSE @ - 1]
      /\ level' = IF broken THEN level ELSE [level EXCEPT ![p] = @ + 1]
      /\ UNCHANGED child /\ UNCHANGED fdVars

ChildExit(k) ==
  /\ prog[k].at = "run" /\ prog[k].out = 0 /\ prog[k].input # "open"
  /\ Exit(child[k])
  /\ child' = [child EXCEPT ![k] = NULL]
  /\ prog' = [prog EXCEPT ![k] = NoProg]
  /\ UNCHANGED level

Program(k) ==
  /\ child[k] # NULL
  /\ Enter(k) \/ Read(k) \/ Write(k) \/ ChildExit(k)
  /\ UNCHANGED <<plan, script, loc, todo>>

PipelineNext == ShellNext \/ \E k \in Stages : Program(k)

\* The tick gives every task the CPU (EveryTaskRuns of Sched), and a
\* program does not compute forever between two calls.
Fairness ==
  /\ WF_allVars(ShellNext)
  /\ \A k \in Stages : WF_allVars(Program(k))

PipelineSpec == PipelineInit /\ [][PipelineNext]_allVars
FairSpec == PipelineSpec /\ Fairness

-----------------------------------------------------------------------------
(* What the choreography promises.                                          *)

\* "puts its own slots back": whatever failed on the way, the shell returns
\* with the console on 0, 1 and 2, nothing else open, and no description or
\* pipe of the command line left allocated.
ShellRestored ==
  script = <<>> =>
    /\ \A d \in Fd : fds[Shell][d] # NULL <=> d \in Std
    /\ \A d \in Std : pipeOf[fds[Shell][d]] = NULL
    /\ files = {fds[Shell][d] : d \in Std} /\ pipes = {}

\* "A pipe reader only sees EOF once its writer has exited": no task but the
\* stage that writes into a pipe has it open for writing once the shell
\* waits, not even the reader itself.
OneWriter ==
  Op("wait") =>
    \A p \in pipes : \A a, b \in Holders(EndFiles(p, "w")) : a[1] = b[1]

\* "stdout of a feeds stdin of b".
Wired ==
  \A k \in Stages :
    /\ k + 1 \in Stages /\ child[k] # NULL /\ child[k + 1] # NULL
    /\ 1 \notin plan[k].redir /\ 0 \notin plan[k + 1].redir
    => /\ Stdout(k) # NULL /\ Stdout(k) = Stdin(k + 1)
       /\ end[fds[child[k]][1]] = "w" /\ end[fds[child[k + 1]][0]] = "r"

\* "the shell waits (hlt) until all pids have exited": it gets its prompt
\* back.
Returns == script # <<>> ~> script = <<>>

\* The pipes of a command line: none holds more than its buffer, and one
\* writer each.
PipesExact == PipelineTypeOK /\ OneWriter
=============================================================================

-------------------------------- MODULE Pipe --------------------------------
(***************************************************************************)
(* pipe_read and pipe_write of kernel/vfs/vfs.c on one struct vfs_pipe,    *)
(* one memory access per step: a reading task and a writing task, and the  *)
(* shell, which holds a copy of both ends until it has spawned the two.    *)
(*                                                                         *)
(* The int 0x80 gate leaves interrupts on, so a tick may switch tasks      *)
(* between any two accesses (preempt = TRUE).  With preempt = FALSE tasks  *)
(* change only in hlt() and outside of calls, which is what the comment in *)
(* sched_tick claims of "syscall dispatch".                                *)
(*                                                                         *)
(* The writer sends the bytes 1, 2, .. Total, in calls of any length, and  *)
(* closes; the reader reads with any buffer length until end-of-file, or   *)
(* closes earlier.                                                         *)
(***************************************************************************)
EXTENDS Integers, Sequences, FiniteSets

CONSTANTS Size,        \* PIPE_BUF_SIZE (4096 in the code)
          Total,       \* bytes the writing program produces
          MaxCount,    \* largest count argument of a read or write call
          Modes        \* values of preempt to look at

ASSUME PipeAssumption ==
  /\ Size \in Nat \ {0} /\ Total \in Nat /\ MaxCount \in Nat \ {0}
  /\ Modes \subseteq BOOLEAN

VARIABLES
  preempt,    \* may the tick switch inside a call?  Never changes
  buf, head, count, refs_r, refs_w,   \* struct vfs_pipe
  shell,      \* the ends the shell still holds
  rpc,        \* where the reader is
  rmax,       \* count argument of its call
  n,          \* bytes this read returns
  todo,       \* fields pipe_read has not stored back yet
  got,        \* bytes returned so far
  eof,        \* a read returned 0
  wpc,        \* where the writer is
  left,       \* count - total of its call
  free,       \* bytes it found room for
  wpos,       \* where it copies them
  sent,       \* bytes written by all calls so far
  epipe       \* a write returned -EPIPE

pipeVars == <<buf, head, count, refs_r, refs_w>>
rVars == <<rpc, rmax, n, todo, got, eof>>
wVars == <<wpc, left, free, wpos, sent, epipe>>
vars == <<preempt, buf, head, count, refs_r, refs_w, shell, rpc, rmax, n, todo, got, eof,
          wpc, left, free, wpos, sent, epipe>>

Pos == 0 .. Size - 1
Least(a, b) == IF a < b THEN a ELSE b

TypeOK ==
  /\ preempt \in BOOLEAN
  /\ buf \in [Pos -> 0 .. Total] /\ head \in Pos /\ count \in 0 .. Size
  /\ refs_r \in 0 .. 2 /\ refs_w \in 0 .. 2 /\ shell \in SUBSET {"r", "w"}
  /\ rpc \in {"idle", "check", "empty", "wait", "copy", "store", "closed"}
  /\ rmax \in 0 .. MaxCount /\ n \in 0 .. Size /\ todo \in SUBSET {"head", "count"}
  /\ got \in Seq(0 .. Total) /\ eof \in BOOLEAN
  /\ wpc \in {"idle", "check", "room", "wait", "place", "copy", "add", "closed"}
  /\ left \in 0 .. MaxCount /\ free \in 0 .. Size /\ wpos \in Pos
  /\ sent \in 0 .. Total /\ epipe \in BOOLEAN

\* vfs_pipe (which clears the whole struct), after the shell has spawned both
\* tasks.
Init ==
  /\ preempt \in Modes
  /\ buf = [i \in Pos |-> 0] /\ head = 0 /\ count = 0
  /\ refs_r = 2 /\ refs_w = 2 /\ shell = {"r", "w"}
  /\ rpc = "idle" /\ rmax = 0 /\ n = 0 /\ todo = {} /\ got = <<>> /\ eof = FALSE
  /\ wpc = "idle" /\ left = 0 /\ free = 0 /\ wpos = 0 /\ sent = 0 /\ epipe = FALSE

\* The points at which a task may always lose the CPU.
Outside == {"idle", "wait", "closed"}

-----------------------------------------------------------------------------
(* The reader.                                                              *)

ReadCall(k) ==
  /\ rpc = "idle" /\ ~eof
  /\ rpc' = "check" /\ rmax' = k
  /\ UNCHANGED <<n, todo, got, eof>> /\ UNCHANGED pipeVars

\* while (p->count == 0), and n when there is something.
ReadCheck ==
  /\ rpc = "check"
  /\ IF count = 0
       THEN rpc' = "empty" /\ UNCHANGED n
       ELSE rpc' = "copy" /\ n' = Least(rmax, count)
  /\ UNCHANGED <<rmax, todo, got, eof>> /\ UNCHANGED pipeVars

\* Mutant of ReadEmpty: an empty pipe always waits.
ReadEmptyWaits ==
  /\ rpc = "empty"
  /\ rpc' = "wait"
  /\ UNCHANGED <<rmax, n, todo, got, eof>> /\ UNCHANGED pipeVars

\* if (p->refs_w == 0) return 0; else hlt().
ReadEmpty ==
  /\ rpc = "empty"
  /\ IF refs_w = 0
       THEN rpc' = "idle" /\ eof' = TRUE
       ELSE rpc' = "wait" /\ UNCHANGED eof
  /\ UNCHANGED <<rmax, n, todo, got>> /\ UNCHANGED pipeVars

ReadWake ==
  /\ rpc = "wait"
  /\ rpc' = "check"
  /\ UNCHANGED <<rmax, n, todo, got, eof>> /\ UNCHANGED pipeVars

\* Both memcpy calls; n bytes from head, around the end of the buffer.
ReadCopy ==
  /\ rpc = "copy"
  /\ got' = got \o [i \in 1 .. n |-> buf[(head + i - 1) % Size]]
  /\ rpc' = "store" /\ todo' = {"head", "count"}
  /\ UNCHANGED <<rmax, n, eof>> /\ UNCHANGED pipeVars

\* Mutant of ReadStore: the head moves by n without wrapping at the end.
ReadStoreHeadStays(x) ==
  /\ rpc = "store" /\ x \in todo
  /\ head' = IF x = "head" /\ head + n < Size THEN head + n ELSE head
  /\ count' = IF x = "count" THEN count - n ELSE count
  /\ todo' = todo \ {x}
  /\ rpc' = IF todo = {x} THEN "idle" ELSE "store"
  /\ UNCHANGED <<rmax, n, got, eof, buf, refs_r, refs_w>>

\* p->head = (p->head + n) % PIPE_BUF_SIZE and p->count -= n.  The compiler
\* may put either store first (gcc -O2 stores count first).
ReadStore(x) ==
  /\ rpc = "store" /\ x \in todo
  /\ head' = IF x = "head" THEN (head + n) % Size ELSE head
  /\ count' = IF x = "count" THEN count - n ELSE count
  /\ todo' = todo \ {x}
  /\ rpc' = IF todo = {x} THEN "idle" ELSE "store"
  /\ UNCHANGED <<rmax, n, got, eof, buf, refs_r, refs_w>>

\* vfs_close or task_exit of the reading program.
ReadClose ==
  /\ rpc = "idle"
  /\ rpc' = "closed" /\ refs_r' = refs_r - 1
  /\ UNCHANGED <<rmax, n, todo, got, eof, buf, head, count, refs_w>>

ReadStep == ReadCheck \/ ReadEmpty \/ ReadWake \/ ReadCopy
              \/ \E x \in {"head", "count"} : ReadStore(x)

ReadProgram == ReadClose \/ \E k \in 1 .. MaxCount : ReadCall(k)

Reader ==
  /\ preempt \/ wpc \in Outside
  /\ ReadStep \/ ReadProgram
  /\ UNCHANGED <<preempt, shell>> /\ UNCHANGED wVars

-----------------------------------------------------------------------------
(* The writer.                                                              *)

WriteCall(k) ==
  /\ wpc = "idle" /\ ~epipe /\ k <= Total - sent
  /\ wpc' = "check" /\ left' = k
  /\ UNCHANGED <<free, wpos, sent, epipe>> /\ UNCHANGED pipeVars

\* Mutant of WriteCheck: -EPIPE while the last reader is still there.
WriteCheckLast ==
  /\ wpc = "check"
  /\ IF refs_r <= 1
       THEN wpc' = "idle" /\ epipe' = TRUE
       ELSE wpc' = "room" /\ UNCHANGED epipe
  /\ UNCHANGED <<left, free, wpos, sent>> /\ UNCHANGED pipeVars

\* if (p->refs_r == 0) return total > 0 ? total : -EPIPE.  A program that
\* got a short count gives up like one that got the error.
WriteCheck ==
  /\ wpc = "check"
  /\ IF refs_r = 0
       THEN wpc' = "idle" /\ epipe' = TRUE
       ELSE wpc' = "room" /\ UNCHANGED epipe
  /\ UNCHANGED <<left, free, wpos, sent>> /\ UNCHANGED pipeVars

\* if (p->count == PIPE_BUF_SIZE) hlt(); else n = min(count - total, free).
\* wpos keeps the loaded count until the next step adds head to it.
WriteRoom ==
  /\ wpc = "room"
  /\ IF count = Size
       THEN wpc' = "wait" /\ UNCHANGED <<free, wpos>>
       ELSE wpc' = "place" /\ free' = Least(left, Size - count) /\ wpos' = count
  /\ UNCHANGED <<left, sent, epipe>> /\ UNCHANGED pipeVars

WriteWake ==
  /\ wpc = "wait"
  /\ wpc' = "check"
  /\ UNCHANGED <<left, free, wpos, sent, epipe>> /\ UNCHANGED pipeVars

\* wpos = (p->head + p->count) % PIPE_BUF_SIZE.
WritePlace ==
  /\ wpc = "place"
  /\ wpos' = (head + wpos) % Size /\ wpc' = "copy"
  /\ UNCHANGED <<left, free, sent, epipe>> /\ UNCHANGED pipeVars

\* Both memcpy calls.
WriteCopy ==
  /\ wpc = "copy"
  /\ buf' = [p \in Pos |->
               LET i == (p - wpos + Size) % Size   \* distance from wpos
               IN  IF i < free THEN sent + i + 1 ELSE buf[p]]
  /\ wpc' = "add"
  /\ UNCHANGED <<left, free, wpos, sent, epipe, head, count, refs_r, refs_w>>

\* p->count += n; total += n; and the loop's test.
WriteAdd ==
  /\ wpc = "add"
  /\ count' = count + free
  /\ left' = left - free /\ sent' = sent + free
  /\ wpc' = IF left = free THEN "idle" ELSE "check"
  /\ UNCHANGED <<free, wpos, epipe, buf, head, refs_r, refs_w>>

WriteClose ==
  /\ wpc = "idle"
  /\ wpc' = "closed" /\ refs_w' = refs_w - 1
  /\ UNCHANGED <<left, free, wpos, sent, epipe, buf, head, count, refs_r>>

WriteStep == WriteCheck \/ WriteRoom \/ WriteWake \/ WritePlace \/ WriteCopy
               \/ WriteAdd

WriteProgram == WriteClose \/ \E k \in 1 .. MaxCount : WriteCall(k)

Writer ==
  /\ preempt \/ rpc \in Outside
  /\ WriteStep \/ WriteProgram
  /\ UNCHANGED <<preempt, shell>> /\ UNCHANGED rVars

-----------------------------------------------------------------------------
\* exec_pipeline drops the shell's own copies of the two ends.
ShellClose(e) ==
  /\ preempt \/ (rpc \in Outside /\ wpc \in Outside)
  /\ e \in shell
  /\ shell' = shell \ {e}
  /\ refs_r' = IF e = "r" THEN refs_r - 1 ELSE refs_r
  /\ refs_w' = IF e = "w" THEN refs_w - 1 ELSE refs_w
  /\ UNCHANGED <<preempt, buf, head, count>> /\ UNCHANGED rVars /\ UNCHANGED wVars

Next == Reader \/ Writer \/ \E e \in {"r", "w"} : ShellClose(e)

\* The tick is round robin (task_next) and hlt() sleeps until a tick, so a
\* task that can run again and again does run, although the other one's
\* hlt() loop disables it in between.  A program does not compute forever
\* between two calls, and the shell reaches its closes.
Fairness ==
  /\ SF_vars(Reader) /\ SF_vars(Writer)
  /\ \A e \in {"r", "w"} : SF_vars(ShellClose(e))

Spec == Init /\ [][Next]_vars
FairSpec == Spec /\ Fairness

-----------------------------------------------------------------------------
(* What the ring buffer promises.                                           *)

\* The bytes in the ring, as a reader would find them: once the reader has
\* copied, its two stores count as done.
Unread == LET h == IF "head" \in todo THEN head + n ELSE head
              c == IF "count" \in todo THEN count - n ELSE count
          IN  [i \in 1 .. c |-> buf[(h + i - 1) % Size]]

\* As long as no tick falls inside a call, pipe_read and pipe_write implement
\* a bounded FIFO with end-of-file and -EPIPE.  Nothing is claimed of the
\* other behaviours: they are mapped to a FIFO that is never used.
If(x, y) == IF preempt THEN y ELSE x
F == INSTANCE Fifo WITH Bytes <- 1 .. Total,
                        queue <- If(Unread, <<>>), delivered <- If(got, <<>>),
                        wopen <- If(refs_w > 0, TRUE), ropen <- If(refs_r > 0, TRUE),
                        eof <- If(eof, FALSE), epipe <- If(epipe, FALSE)
ImplementsFifo == F!Spec

\* `a | b`: "stdout of a feeds stdin of b".  What the reader has got is what
\* the writer sent, in order, without gaps or garbage.
InOrder == \A i \in 1 .. Len(got) : got[i] = i

\* The same, and nothing is missing at end-of-file, if the two calls are not
\* interrupted in the middle.
AtomicInOrder == ~preempt => InOrder /\ (eof => Len(got) = sent)

\* p->count stays the number of bytes in flight even when the two tasks
\* preempt each other between load and store: no byte is counted twice or
\* dropped, and the buffer never holds more than its size.
CountExact ==
  /\ count = sent - Len(got) + (IF "count" \in todo THEN n ELSE 0)
  /\ count + (IF wpc \in {"place", "copy", "add"} THEN free ELSE 0) <= Size

\* Reads block "until data arrives or the last write end is closed": the
\* hlt() loop of pipe_read ends.
ReadReturns == rpc # "idle" ~> rpc \in {"idle", "closed"}

\* Writes block "while the 4 KiB buffer is full": the hlt() loop of
\* pipe_write ends, with all bytes written or because the reader went away.
WriteReturns == wpc # "idle" ~> wpc \in {"idle", "closed"}

\* pipe_read and pipe_write: no byte is counted wrongly wherever a tick falls,
\* and none is lost or out of order if none falls inside a call.
BytesExact == TypeOK /\ CountExact /\ AtomicInOrder

\* No call of pipe_read or pipe_write waits for ever.
CallsReturn == ReadReturns /\ WriteReturns
=============================================================================

# A verification project for TUS

TUS (Toasty UNIX Software) is a small x86-64 UNIX-like system: a kernel with a
preemptive scheduler, per-task address spaces, a VFS with pipes, an in-kernel
shell (`tsh`) and an ELF loader, and a set of userspace tools. This directory
holds TLA+ models of its parts, TLC configurations that check them on small
instances, and TLAPS proofs. Paths are relative to `src/kernel/` unless they
start with `src/`.

## 1. The system and its modules

| Part | State | What is hard about it | Module |
|---|---|---|---|
| Descriptors (`vfs/vfs.c`) | `task::fds`, `vfs_file::refs`, `vfs_pipe::refs_r/refs_w` | shared descriptions, full tables, a tick inside `--f->refs` | FdTable, FdPreempt |
| Pipes (`vfs/vfs.c`) | ring buffer, head, count | two tasks, wrap-around, EOF and -EPIPE, waiting in `hlt` | Pipe, Fifo |
| Namespace (`vfs/vfs.c`) | node tree, descriptions | removal while open, listing while the directory changes | Namespace |
| File data (`vfs/vfs.c`) | size, capacity, buffer, positions | growth, truncation behind a position, append | FileData |
| Scheduler (`sched/sched.c`) | `g_current`, `g_tasks`, `g_preempt_depth`; CR3, FS base, TSS.RSP0 | half-built tasks, exit without a stack of its own, lost ticks | Sched |
| Program loading (`elf/`) | `g_elf_fd`, CR3, the task's space | failure after CR3 changed, one global descriptor, segments that share a page | Sched, Vm, ElfLoad |
| Argument image (`sched/sched.c`, `elf/tus_elf.c`) | top page of the stack | strings and pointers grow towards each other | ArgStack |
| Frames (`mm/pmm.c`) | bitmap, counters, hint | test and set in two steps, counts used as indices | Pmm |
| Heap (`mm/kmalloc.c`) | free list, arena | split, merge, growth, failure midway, unwritten header words | Kmalloc |
| Paging, mmap, munmap (`mm/vmm.c`, `syscall/syscall.c`) | page tables, `mmap_cur` | tables in the same memory as data, rollback when memory runs out, reuse of frames | Vm |
| Pipelines (`shell/commands.c`) | the shell's slots 0..2, saves, `prev_r`, pids | order of dup2/close/spawn/wait against running children | Pipeline |
| Command line (`shell/tsh.c`, `shell/commands.c`) | line, tokens, stages | operators, limits | ShellLine |
| Working directory (`shell/cmd_fs.c`) | `g_cwd`, `g_oldpwd` | `..`, short buffers, removal | Paths |
| Keyboard and tty (`drivers/keyboard.c`, `vfs/devices.c`) | event ring, owner, pending bytes, mode | interrupt against reader, ownership between shell and programs | Tty |
| Scancodes (`drivers/keyboard.c`) | modifiers, prefix, LEDs | any order of presses and releases, answers mixed with scancodes | Scancode |
| Console (`drivers/fb.c`) | cells, cursor, automaton, history | sequences cut anywhere, ring wrap, alternate screen | Console |
| Root image (`vfs/rootfs.c`) | position in the archive, tree | sizes that place the next header, truncation | Rootfs |
| Accounts (`src/userspace/useradd.c`, `passwd.c`) | passwd, shadow, group | read-modify-write of three files, failing saves, overlap | Accounts |
| grep (`src/userspace/grep.c`) | matcher, context lines | quantifiers, context at its limits | Grep |

How the parts meet: a task enters the kernel through `int 0x80`. Its gate is a
trap gate, so interrupts stay on; the timer interrupt uses an interrupt gate
and runs `sched_tick` without being interrupted itself. Preemption is disabled
only inside `kprintf`, in the boot pause and while a loader works in a new
address space. So system calls of different tasks interleave at the level of
single memory accesses. The comment in `sched_tick` (sched.c:389-390) counts
"syscall dispatch" among the critical sections; no code makes it one. Several
modules therefore have a variable `preempt` that Init chooses and nothing
changes: TRUE is what the code does, FALSE is what that comment describes. One
run looks at both. A property that holds only of the second kind of behaviour
says `~preempt =>` and is no claim about the code as it is. Modules whose
subject is sequential (files, console, tools) take a call as one step.

Composition: `Pipeline` EXTENDS `FdTable` and drives its actions with
`exec_pipeline` and running children; `Pipe` is refined against `Fifo`; `Tty`
puts the interrupt, the shell and programs together. `MCFdTable`, `MCKernel` and
`MCTools` put independent instances side by side in one run: a variable `part`,
fixed by Init, says whose behaviour it is.

### How the modules correspond to the code

**FdTable.** `fds[t][d]` is `g_tasks[t].fds[d]`; `refs[f]`, `pipeOf[f]` and
`end[f]` are the fields of a `struct vfs_file`, `refs_r[p]` and `refs_w[p]` of
a `struct vfs_pipe`; `files` and `pipes` are the allocated ones. `UnrefRef`
is a batch of `file_unref` calls followed by a batch of `file_ref` calls, from
which close, dup, dup2, spawn and exit are made. The description that
`vfs_open` leaves behind when the table is full (vfs.c:363) is in the model.

**FdPreempt.** One pipe, its two descriptions, several tasks that share them.
`--f->refs` is a load and a store, because gcc needs the value for the test;
the pipe's counters are updated by one instruction. `task_exit` is one step:
its task is a zombie, and the tick leaves a zombie alone.

**Pipe.** A reader, a writer, and the shell that closes its copies of the ends
late. The two stores at the end of `pipe_read` may come in either order. The
refinement mapping to `Fifo` counts a read as done once it has copied.

**Namespace.** `kids[n]` is the list `n->child, n->child->sibling, ...`, newest
first; a path is a sequence of names. Addresses are reused after `kfree`.
`listed`, `steady` and `unlinked` are histories of a description.

**FileData.** One regular file; `fd[d]` is a description of it. `want` records
what each byte should be, `behind` that the file was cut behind a position.
There is no `lseek`, so positions move only by reading and writing.

**Sched.** The CPU (`cur`, `stk`, `pc`, `cr3`, `fs`, `rsp0`, `depth`) against
the task table. A saved frame is the stack it lies on and the place it resumes.
`faults`, again chosen by Init, says whether a loader may fail after the switch
of CR3 ("load") and whether a tick may fall between `g_current = next` and the
load of `next->rsp` in `task_exit` ("leave"). Both happen in the code.
`SwitchSafe` speaks of the behaviours without them, the other invariants of all.

**Vm.** `data[f]` is the content of frame f, so a page table is read through
the memory that programs write. Two levels of tables stand for four. A load,
an mmap or a munmap is a sequence of steps, one per page, with other tasks in
between except while a loader has disabled preemption. `Store` is a program
that writes into a page of its own.

**ElfLoad.** `el_init` and `el_load` with the callbacks of `tus_elf.c`, one step
per header, page and segment. A unit of memory holds the offset of the file it
came from, so that a page shared by two segments shows what it lost. Files are
those a linker writes, possibly cut.

**ArgStack.** The two loops over the arguments and the final vector, in words of
8 bytes; `sums` records the prefix sums of the lengths. The code is there twice
(`task_create_user`, `exec_build_stack`) and the same.

**Pmm.** The search and the marking are two steps. `Total` is
`g_total_frames`, a count that the code uses as the end of its searches.

**Kmalloc.** Sizes in 8-byte words: header 3, alignment 2, page scaled to 12.
`Stale` is what a word that nobody wrote may contain.

**Pipeline.** `exec_pipeline` is a script of calls that depends on the command
line (`SaveAll`, `Stage`, `Cleanup`, `Finish`); each call is the FdTable action
it makes, and children run between any two. A failure replaces the rest of the
script by the clean-up. Pipes carry a byte count here. The descriptor a builtin
such as `cat` opens and closes within itself is left out.

**Tty.** `pc[p]` is a task's place in one of the three loops that take events
from the ring. The mode (`canon`) and the pending bytes of a key sequence are
shared by all tasks, as in the code. `sent` and `taken` record the events that
entered and left the ring, `ttyIn` the bytes of the keys that `tty_read` took and
`ttyOut` the bytes it returned.

**Scancode.** The keyboard is external: keys held, bytes that wait at the port.
`kbd_update_leds` sends two commands and takes the next byte as the answer.

**Console.** `con` is the driver's state and every byte maps it to the next.
`text` is `g_text`, `shown` what the pixels show, `slots` the history ring and
`lines` the history of completed lines. `off` marks the situations in which the
driver itself lets the pixels differ from `g_text`.

**ShellLine, Paths, Rootfs, Accounts, Grep.** Sequential algorithms as
operators (`Tokens`, `Parse`, `Resolve`, `MSeq`) or loops (one action per header
of the archive, per save, per line of input), compared with definitions of what
they should compute that do not follow the code: words between spaces, the
meaning of a path without a stack, the positions of headers, the ways to cut a
string into the items of a pattern.

## 2. Runs

Passing runs. Most invariants are conjunctions: `CountsRight` of FdTable, say, is
`TypeOK`, `RefsExact` and `EndsExact`. The text below names the conjuncts.

| Run | What it shows |
|---|---|
| `fd_table` | reference counts and end counts are exact, nothing dangles, no pipe is orphaned, call by call; access by access the end counters are right wherever a tick falls, and if none falls inside a call `file_unref` frees each object once and not early |
| `kernel` | Pmm: usable frames and a complete search in every case, frames handed out once and exact statistics if no tick falls inside a search. Kmalloc: blocks tile the arena, live blocks stay mapped, frames are not invented, if words nobody wrote read as zero. Vm: spaces are separate, fresh pages are zero, a munmap or rollback removes what it passed and loses no frame, mmap(0) chooses free pages until the program names an address. ElfLoad: every segment holds the file's bytes and zeros, whichever pages are shared, and only cut files are refused. ArgStack: argc, argv and the strings are whole and inside the page. Sched: one RUNNING task, distinct spaces, FS base follows the task, preemption counter balanced; whole frames on own stacks and own spaces apart from two cases |
| `sched_live` | every READY task runs |
| `pipe` | wherever a tick falls, the count is exact, the buffer does not overflow and calls return; if none falls inside a call, the ring buffer implements `Fifo` |
| `pipeline` | wiring, one writer per pipe, shell and heap restored, whatever fails |
| `pipeline_live` | the prompt comes back when programs read their input |
| `tty` | keys are delivered once and in order until two consumers race; only the owner consumes if no tick falls between check and pop; a dead task never owns the keyboard; sequences arrive whole; every key is consumed unless the shell itself holds the keyboard |
| `tools` | file system, root image, working directory, command line, console, scancodes, accounts and grep against their reference definitions |

Runs that TLC refutes, each against a sentence of the code's own comments (the
sentence and its line are under `findings` in `PROJECT.json`):

| Run | The code |
|---|---|
| `pipe_order` | a tick inside a copy garbles or repeats bytes |
| `sched_exec_fail` | a failed execve returns in the root address space |
| `pipeline_epipe` | a writer holds the read end of its own pipe and waits for ever |
| `tty_held` | after `cat /dev/tty0` the shell owns the keyboard and a program it waits for gets no key |

### Further disagreements between code and comments

TLC or the translation showed these; no run is kept for them.

Concurrency and memory:

- a tick inside `--f->refs` (vfs.c:291) frees an object too early, or never
  (`AliveWhileHeld` without `~preempt`);
- pipe_read (vfs.c:494-496) reports end-of-file although bytes arrived between
  its two tests (`AtomicInOrder` without `~preempt`);
- a tick in `task_exit` after sched.c:460 loses the next task's saved frame
  (`OwnFrame` with "leave");
- `g_elf_fd` is set before preemption is off (tus_elf.c:276), so one task can
  load through another's descriptor; tus_elf.c:28-29 says "single-threaded; the
  whole load runs with preemption disabled";
- a tick between test and set (pmm.c:82-83) gives a frame to two tasks
  (`NoSharedFrame` without `~preempt`), and one between the check of the
  keyboard's owner and the pop lets two tasks consume (`ConsumesAsOwner` without
  `~preempt`), although keyboard.c:244-247 calls the handover "race-free";
- frames above `g_total_frames` (pmm.c:81) count as free and are never found;
- `pages` of a small block is read (kmalloc.c:148) but never written: with
  `Stale = {0, 1}` TLC refutes `LiveMapped`;
- `*link != b` (kmalloc.c:176) is always false, so a freed block is not merged
  with its predecessor;
- the header is 24 bytes, so payloads are 8 modulo 16 (kmalloc.h:18);
- "If addr is 0 a free region is chosen" (syscall.c:179-180) fails once a
  program has named an address itself or the cursor has reached the stack;
- nothing reclaims a finished task's kernel stack, space and frames, although
  sched.c:73-74 says they "are reclaimed lazily".

Shell and file system:

- a builtin that writes more than 4096 bytes into a pipe waits for a reader that
  is spawned later (commands.c:410): `Returns` fails with `BuiltinOut = 2`;
- operators glued to words (commands.c:151 "space-separated or glued") lose the
  character that follows them;
- a plain command keeps 16 words but passes the full count as argc
  (commands.c:514-517);
- redirections and program names are not resolved against the working directory,
  although vfs.h:12-14 describes relative paths;
- `O_APPEND` is looked at by the open only, so two appenders overwrite each other;
- a file that is unlinked while it is open is freed under its descriptions;
- rootfs.c copies a file's data before it looks whether the archive ends inside.

Console and keyboard:

- `ESC[J` and `ESC[K` without a number act as with 1, not as "0 or empty: cursor
  to end", and `ESC[m` does not reset;
- rows that are scrolled in or cleared under a background colour stay black;
  `ESC[?1048l` leaves the old cursor on the screen; 1048 and 1049 share one saved
  cursor;
- both Shift keys share one flag, and `kbd_update_leds` can swallow a scancode.

Tools:

- grep: an item that may stand zero times (`*`, `?`, `{0,}`) makes every line
  match, `$` is not enforced, and overlapping `-B` contexts are printed twice;
- useradd: `max_field` reads the name field, so the uid it chooses is always the
  minimum; `-g` by name takes the wrong field; `struct lines` is not initialised;
  a table of 256 lines has no room for the new one.

All of these are results about the models and the text of the code; none was
reproduced on a running system.

### Bounds

- `FdTable`: two tasks, tables of three slots, three files and a pipe: full
  tables, the description `vfs_open` leaves behind, and sharing between tasks
  all occur. Larger values are covered by the proofs.
- `FdPreempt`: three tasks that share both ends; the two that are not the shell are
  interchangeable. `MaxDups` bounds vfs_dup.
- `Pipe`: a buffer of two bytes, four bytes to send, calls of up to three: the
  ring wraps and fills, and calls are longer than the buffer.
- `Sched`: three slots: the shell, one task that exits or execs, and another.
- `Pmm`: a memory map with a hole, runs of up to two frames. With ticks inside a
  search `g_allocated_frames` drifts upwards without end; `MaxDrift` stops it.
- `Kmalloc`: sizes for zero, small, nearly a page and multi-page requests;
  `MaxArena`, one page more than there are frames, bounds the arena, which never
  shrinks: a large block still moves into pages beyond the ones it gave back.
- `Vm`: two tasks, eight frames, tables of four entries and five pages, so a
  space has a second table and memory runs out in the middle of loads and mmaps;
  `MaxCalls` bounds loads, mmaps, munmaps and exits.
- `ElfLoad`: two segments and a note in three pages of three units, at all distances
  from the same page to different ones, files cut at every unit. `ArgStack`: a page
  of 96 bytes, up to three strings, lengths around multiples of 8 and too long.
- `Pipeline`: three stages, pipes of one byte, tables of ten slots, seven command
  lines that cover redirection and builtins. No call of these finds its table,
  the files, the pipes or the tasks exhausted, so the bounds cut nothing off.
- `Tty`: the shell and a program that is started again and again, a ring with
  room for one event, three key presses of kinds Enter, ESC and arrow (four in
  `tty_held`): the ring fills, wraps and drops, and sequences stay pending
  across programs.
- `Namespace`: four nodes, two names, paths of two components. `FileData`: two
  descriptions, first capacity two, three bytes. `Rootfs`: archives of up to three
  entries, cut anywhere, with files of no, half, one and more blocks. `Paths`:
  arguments of two components, a `g_cwd` of five characters, too short for some
  directories. `ShellLine`: lines of six characters over a word character, `2`, space,
  `|` and `>`. `Console`: a 2 x 2 grid, three lines of history, four outputs from
  a list that has every kind of sequence. `Scancode`: three bytes that wait.
  `Accounts`: three programs one at a time or two overlapping. `Grep`: patterns
  of two items on lines of three letters; five lines with contexts below, at and
  above the number of lines kept.

Runs do not check deadlock where programs finish or a bound ends the
exploration (`fd_table`, `kernel`, `tools`, `pipe`, `tty`), and in `pipeline`
because of the deadlock that `pipeline_epipe` shows.

### Fairness

`Pipe`, `Sched` and `Tty` assume strong fairness of each task: the tick is round
robin and periodic, and a task that is runnable again and again is not always
passed over. Ticks that fall into a critical section are lost, not delayed, which
is why weak fairness would not do: strong fairness says that not every tick falls
into one. `Pipeline` assumes weak fairness of the shell and of each program,
which is what `EveryTaskRuns` of Sched gives. All assume that programs do not
compute for ever between calls; nothing is assumed of the user at the keyboard.

## 3. Proofs

For every value of the constants that satisfies the modules' assumptions:

| Module | Theorems | Strengthening |
|---|---|---|
| `FdTableProofs` | `CountsExact`, `HeapExact` | `IInv` |
| `PipeProofs` | `BytesAreExact`, `PipeImplementsFifo` | `PipeInv`, `QuietInv` |
| `IoProofs` | FileData: `FileIsExact`, `FileAppends` | `NoneBehind` |
| | Tty: `RingIsExact`, `OwnershipHolds`, `StreamIsExact` | see below |
| `TaskProofs` | Sched: `TableIsRight`, `FsFollows`, `SwitchIsSafe` | `Frames`, `Whereabouts`, `FsRight`, `Own` |
| | ArgStack: `ArgsAreExact` | `SumsRight`, `StringsRight` |
| `MemoryProofs` | Pmm: `FramesAreExact`, `SearchIsComplete` | `SearchSafe` |
| | Kmalloc: `HeapIsTiled`, `MemoryIsKept`, if `Stale \subseteq {0}` | `HeapIs` |
| `VmTables`, `VmCalls`, `VmProofs` | Vm: `SpacesAreSeparate`, `PagesAreRight`, `NothingIsLost` | `VmInv` |

**FdTable.** None of the properties is inductive alone: that counts are exact
after `file_unref` needs that a freed description had no other descriptor, which
is again exactness; that a freed pipe has no live end needs both counters and
the fact that every live end has a descriptor; and a new task's counted copy
needs that a dead task's row is empty (`DeadHoldNothing`). The inductive
invariant is their conjunction with `TypeOK`. The argument goes through two
layers: lemmas on how the cardinality of the set of holders changes when one row
of the table changes, and one lemma on `UnrefRef`, which every call that touches
a count instantiates.

**Pipe.** `CountExact` holds with ticks anywhere. It needs what a call in flight
knows: that the reader's stored count of bytes does not exceed what is in the
buffer and the writer's room not what is free (`CallsRight`), and that the
counters of the ends match the tasks that hold them (`RefsRight`). The order of
the bytes, and the refinement, hold only without ticks inside a call
(`QuietInv`): then the buffer from head on, taken around the end, is the
sequence of bytes written and not yet read, in each stage of a copy. The lemmas
on spans say what one wrapped copy does to that sequence. Every step of `Pipe`
then is a step of `Fifo` or a stutter.

**Tty.** The ring is exact because the interrupt writes only the slot at head,
which no consumer reads, and a consumer moves only tail; the proof carries that
the event a consumer has copied is still the one at tail as long as it is the
only one past the check. That no dead task owns the keyboard needs that a task
at its claim is alive. `StreamExact` rests on where `tty_read` may stop: it looks
for a new key only when no byte is pending, so a task that waits for a key knows
that the bytes returned are all the bytes of the keys taken; while it waits only
another `tty_read` could make bytes pending, which is what `overlap` records. A
key is at least one byte, so returning the first one and keeping the rest leaves
the concatenation as it is.

**FileData.** `NoGaps` needs that no position is beyond the end while the file
was never cut behind one; `ContentExact` and `WithinBuffer` then give what a
read returns.

**Pmm.** A search that is in flight has found only frames that are usable, and
without ticks inside searches frames that are still free (`SearchSafe`); the
counters are cardinalities of the two sets of frames.

**Kmalloc.** The invariant `HeapIs(h, F, L)` speaks of a heap h, the blocks F on
its free list and the blocks L handed out: the list holds the blocks of F once
each, F and L are disjoint and tile the mapped pages below `g_arena_next`, a
multi-page block starts on a page and is never on the list. Every operation is
one of three changes: blocks exchanged for others on the same words (a split, a
merge, a block handed out or freed), whole pages added at the end (`heap_grow`,
a large request), whole pages taken out with their block. A krealloc is a
kmalloc followed by a kfree, so each lemma is stated for any heap and not for the
variables. Pages that a failed large request has mapped lie beyond the end of the
arena; the next request maps them again, which is why frames are only bounded,
and why the bound needs that mapping k pages adds at most k. The condition on
`Stale` is the finding above: with a header whose unwritten `pages` reads other
than 0 both theorems are false.

**Vm.** Page tables lie in the same frames as programs' data, so that one space
keeps what it has while another changes is not local. The invariant says that
there are labels: every frame has one use (free, root, table or leaf), a table
and a leaf also the frame and the entry that refer to them; every entry of a root
or table agrees with the label of the frame it names (`Labels`). A frame reached
by two walks would carry two labels, which is `Separate`. A page mapped, with or
without a new table, a page unmapped, a space cloned and a store each come with a
lemma that gives the labels after the step, and says that every other entry of
every space is kept with the content of its frame (`VmTables`). What a call
promises of the pages it has passed (`Filled`, `Gone`, `Loaded`, `Room`) then
follows for the task that moves from the one entry that changed, and for all
others from nothing having changed (`VmCalls`). A frame that is lost keeps its
label, so leaks do not disturb the invariant; `NothingIsLost` compares the frames
that are reachable before and after each step (`VmProofs`).

**Sched.** `SwitchSafe` needs where the saved frame of every task lies
(`Frames`), what the place of the current task says about CPU registers
(`Whereabouts`), that each task's FS base and space are its own (`FsRight`,
`Own`).

**ArgStack.** That the second loop stays above the vector rests on what the first
one added up. `SumsRight` says so without a sum over data: the recorded prefix
sums grow by one string each, are monotone, and the last one is part of `need`;
`StringsRight` places each string between two of them.

Only model-checked: liveness (fairness and ENABLED are outside the prover's
reach) and the modules FdPreempt, ElfLoad, Pipeline, Namespace, Paths, ShellLine,
Console, Scancode, Rootfs, Accounts and Grep. Of these, Pipeline, Paths,
ShellLine, Console and Rootfs are built on folds over sequences, and what those
compute for every input would need induction over data.

## 4. Not modelled

`components` in `PROJECT.json` lists every part with its status and reason.

- Boot, interrupt controller, GDT and IDT, timer, serial line, splash screen, PPM
  decoder, formatting and string routines: hardware set-up or plain output.
- The FPU image, uids and `ps` of the scheduler: the first travels with the task
  exactly as the FS base does, the others are never read by the parts modelled.
- `el_relocate` and its helpers (`elf/elfload.c`): never called, since only static
  programs are accepted.
- Ticks inside `kmalloc`, `vfs_write` and `fb_putchar`: nothing disables
  preemption there and the code makes no claim about them.
- `login` and `doas`: dialogues without state of their own. `sed`: nothing in the
  repository says what its commands should do apart from the code, and it leaves
  the usual meaning in places (`b` restarts the script, `q` does not print), so
  a property could only repeat the code.
- The C library (musl) and `kilo` under `src/sources/`: third-party code. By
  lines it is nearly nine tenths of the tree; the models cover about a quarter of
  the lines of the system's own kernel and tools.

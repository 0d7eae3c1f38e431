--------------------------------- MODULE Tty ---------------------------------
(***************************************************************************)
(* Console input: the event ring that the keyboard interrupt fills         *)
(* (kernel/drivers/keyboard.c), its three consumers, the ownership that    *)
(* is to keep them apart, and the reads of /dev/tty0 and /dev/kbd0         *)
(* (kernel/vfs/devices.c).                                                 *)
(*                                                                         *)
(*   pc[p]  "idle"   not in one of the calls                               *)
(*          "look"   top of the loop, or in hlt                            *)
(*          "claim"  kbd_get_event_owned found g_kbd_owner = 0             *)
(*          "ring"   about to compare g_head and g_tail                    *)
(*          "take"   the ring was not empty; about to copy the event       *)
(*          "pop"    copied; about to advance g_tail                       *)
(*                                                                         *)
(* With preempt = TRUE (the code) a tick may fall between any two of these *)
(* steps, with FALSE only at "idle" and "look".  The interrupt comes       *)
(* anywhere.                                                               *)
(***************************************************************************)
EXTENDS Integers, Sequences

CONSTANTS Shell,      \* pid of tsh (1)
          Tasks,      \* pids of programs
          RingSize,   \* KBD_BUFFER_SIZE (256 in the code)
          MaxKeys,    \* bound on key presses
          Kinds,      \* kinds of keys pressed
          ShellReads, \* may the shell itself run `cat /dev/tty0'?
          Modes       \* values of preempt to look at

Pids == {Shell} \cup Tasks
Nobody == 0
AllKinds == {"char", "enter", "esc", "arrow"}

ASSUME TtyAssumption ==
  /\ Shell \in Nat \ {0} /\ Tasks \subseteq Nat \ {0, Shell}
  /\ RingSize \in Nat \ {0, 1} /\ MaxKeys \in Nat
  /\ Kinds \subseteq AllKinds /\ ShellReads \in BOOLEAN /\ Modes \subseteq BOOLEAN

VARIABLES
  preempt,          \* never changes
  buffer, head, tail,   \* g_buffer, g_head, g_tail
  owner,            \* g_kbd_owner
  pend,             \* g_tty_pend[g_tty_pend_i ..]: bytes of a key sequence
  canon,            \* ICANON of g_termios, one for all tasks
  alive, fg,        \* programs, and the one the shell waits for
  sh,               \* the shell: "prompt", "command", "cat" or "wait"
  pc, dev, ev, lcanon,  \* per task: place, device, the event, local canon
  keys,             \* number of key presses
  sent, taken,      \* history: events put into the ring, and taken out
  ttyIn, ttyOut,    \* history: bytes of the keys tty_read took, bytes it returned
  raced, overlap    \* history: two consumers past the check at once; two
                    \* tty_reads at once

ringVars == <<buffer, head, tail, keys>>
callVars == <<pc, dev, ev, lcanon>>
histVars == <<sent, taken, ttyIn, ttyOut>>
vars == <<preempt, buffer, head, tail, owner, pend, canon, alive, fg, sh,
          pc, dev, ev, lcanon, keys, sent, taken, ttyIn, ttyOut, raced, overlap>>

Event == [id : 0 .. MaxKeys, kind : AllKinds]
NoEvent == [id |-> 0, kind |-> "char"]
Places == {"idle", "look", "claim", "ring", "take", "pop"}
Inside == {"claim", "ring", "take", "pop"}

TypeOK ==
  /\ preempt \in BOOLEAN /\ canon \in BOOLEAN
  /\ buffer \in [0 .. RingSize - 1 -> Event]
  /\ head \in 0 .. RingSize - 1 /\ tail \in 0 .. RingSize - 1
  /\ owner \in Pids \cup {Nobody}
  /\ alive \subseteq Tasks /\ fg \in Tasks \cup {Nobody}
  /\ sh \in {"prompt", "command", "cat", "wait"}
  /\ pc \in [Pids -> Places] /\ dev \in [Pids -> {"shell", "tty", "kbd"}]
  /\ ev \in [Pids -> Event] /\ lcanon \in [Pids -> BOOLEAN]
  /\ keys \in 0 .. MaxKeys

Init ==
  /\ preempt \in Modes /\ canon = TRUE
  /\ buffer = [i \in 0 .. RingSize - 1 |-> NoEvent] /\ head = 0 /\ tail = 0
  /\ owner = Nobody /\ pend = <<>> /\ alive = {} /\ fg = Nobody /\ sh = "prompt"
  /\ pc = [p \in Pids |-> "idle"] /\ dev = [p \in Pids |-> "shell"]
  /\ ev = [p \in Pids |-> NoEvent] /\ lcanon = [p \in Pids |-> TRUE]
  /\ keys = 0 /\ sent = <<>> /\ taken = <<>> /\ ttyIn = <<>> /\ ttyOut = <<>>
  /\ raced = FALSE /\ overlap = FALSE

\* (i + 1) % KBD_BUFFER_SIZE
Inc(i) == IF i + 1 = RingSize THEN 0 ELSE i + 1

\* The histories end with the first race: nothing is said of them after it.
Log(h, e) == IF raced THEN h ELSE Append(h, e)
LogAll(h, s) == IF raced THEN h ELSE h \o s

-----------------------------------------------------------------------------
(* The interrupt.                                                           *)

\* Mutant of Press: the slot at g_head is used although it is the last one.
PressFull(kind) ==
  LET e == [id |-> keys + 1, kind |-> kind]
  IN  /\ keys < MaxKeys /\ keys' = keys + 1
      /\ buffer' = [buffer EXCEPT ![head] = e] /\ head' = Inc(head)
      /\ sent' = Log(sent, e)
      /\ UNCHANGED <<tail, owner, pend, canon, alive, fg, sh, taken, ttyIn, ttyOut>>
      /\ UNCHANGED callVars

\* kbd_irq_handler reaching kbd_push_event: an event that finds the ring
\* full is dropped.
Press(kind) ==
  LET e == [id |-> keys + 1, kind |-> kind]
  IN  /\ keys < MaxKeys /\ keys' = keys + 1
      /\ IF Inc(head) # tail
           THEN /\ buffer' = [buffer EXCEPT ![head] = e] /\ head' = Inc(head)
                /\ sent' = Log(sent, e)
           ELSE UNCHANGED <<buffer, head, sent>>
      /\ UNCHANGED <<tail, owner, pend, canon, alive, fg, sh, taken, ttyIn, ttyOut>>
      /\ UNCHANGED callVars

-----------------------------------------------------------------------------
(* The consumers.                                                           *)

MayRun(p) == preempt \/ \A q \in Pids \ {p} : pc[q] \notin Inside

Goto(p, place) == pc' = [pc EXCEPT ![p] = place]

\* Mutant of Look: kbd_get_event_shell only consumes while nobody owns.
LookShellNotOwn(p) ==
  /\ pc[p] = "look"
  /\ CASE dev[p] = "kbd" -> head # tail /\ Goto(p, "take")
       [] dev[p] = "tty" ->
            \/ owner = Nobody /\ Goto(p, "claim")
            \/ owner = p /\ Goto(p, "ring")
       [] dev[p] = "shell" -> owner = Nobody /\ Goto(p, "ring")
  /\ UNCHANGED <<owner, pend, canon, alive, fg, sh, dev, ev, lcanon>>
  /\ UNCHANGED ringVars /\ UNCHANGED histVars

\* kbd_get_event (kbd) waits for an event; kbd_get_event_owned (tty) waits
\* for the console, which it claims if it is free; kbd_get_event_shell waits
\* but never claims.
Look(p) ==
  /\ pc[p] = "look"
  /\ CASE dev[p] = "kbd" -> head # tail /\ Goto(p, "take")
       [] dev[p] = "tty" ->
            \/ owner = Nobody /\ Goto(p, "claim")
            \/ owner = p /\ Goto(p, "ring")
       [] dev[p] = "shell" -> owner \in {Nobody, p} /\ Goto(p, "ring")
  /\ UNCHANGED <<owner, pend, canon, alive, fg, sh, dev, ev, lcanon>>
  /\ UNCHANGED ringVars /\ UNCHANGED histVars

Claim(p) ==
  /\ pc[p] = "claim"
  /\ owner' = p /\ Goto(p, "ring")
  /\ UNCHANGED <<pend, canon, alive, fg, sh, dev, ev, lcanon>>
  /\ UNCHANGED ringVars /\ UNCHANGED histVars

\* An empty ring: hlt, and from the top.
Ring(p) ==
  /\ pc[p] = "ring"
  /\ Goto(p, IF head = tail THEN "look" ELSE "take")
  /\ UNCHANGED <<owner, pend, canon, alive, fg, sh, dev, ev, lcanon>>
  /\ UNCHANGED ringVars /\ UNCHANGED histVars

Take(p) ==
  /\ pc[p] = "take"
  /\ ev' = [ev EXCEPT ![p] = buffer[tail]] /\ Goto(p, "pop")
  /\ UNCHANGED <<owner, pend, canon, alive, fg, sh, dev, lcanon>>
  /\ UNCHANGED ringVars /\ UNCHANGED histVars

\* tty_special_byte: an arrow is three bytes, the others one.
EventBytes(e) == IF e.kind = "arrow" THEN <<<<e.id, 1>>, <<e.id, 2>>, <<e.id, 3>>>>
                                     ELSE <<<<e.id, 1>>>>

\* ESC ends the stream in canonical mode; it returns no byte.
EndsStream(e, c) == e.kind = "esc" /\ c

\* What tty_read does with the event: the first byte is returned, the others
\* replace whatever was pending.
TtyDeliver(p) ==
  LET b == EventBytes(ev[p])
  IN  IF EndsStream(ev[p], lcanon[p])
        THEN UNCHANGED <<pend, ttyIn, ttyOut>>
        ELSE /\ pend' = IF Len(b) > 1 THEN Tail(b) ELSE pend
             /\ ttyIn' = LogAll(ttyIn, b) /\ ttyOut' = Log(ttyOut, Head(b))

\* The caller's use of the event: kbd_read skips special keys, tty_read
\* translates, cat in the shell ends with the stream, tsh_run runs the line
\* on Enter and edits it on any other key.
AfterPop(p) ==
  CASE dev[p] = "kbd" ->
         /\ Goto(p, IF ev[p].kind = "arrow" THEN "look" ELSE "idle")
         /\ UNCHANGED <<pend, sh, ttyIn, ttyOut>>
    [] dev[p] = "tty" ->
         /\ Goto(p, "idle") /\ TtyDeliver(p)
         /\ sh' = IF p = Shell /\ EndsStream(ev[p], lcanon[p]) THEN "prompt" ELSE sh
    [] dev[p] = "shell" ->
         /\ Goto(p, "idle")
         /\ sh' = IF ev[p].kind = "enter" THEN "command" ELSE sh
         /\ UNCHANGED <<pend, ttyIn, ttyOut>>

Pop(p) ==
  /\ pc[p] = "pop"
  /\ tail' = Inc(tail)
  /\ taken' = Log(taken, ev[p])
  /\ AfterPop(p)
  /\ ev' = [ev EXCEPT ![p] = NoEvent]
  /\ UNCHANGED <<buffer, head, keys, sent, owner, canon, alive, fg, dev, lcanon>>

-----------------------------------------------------------------------------
(* Programs.                                                                *)

\* Mutant of TtyRead: the pending bytes are not looked at.
TtyReadForgets(p) ==
  /\ pc[p] = "idle"
  /\ Goto(p, "look") /\ dev' = [dev EXCEPT ![p] = "tty"]
  /\ lcanon' = [lcanon EXCEPT ![p] = canon]
  /\ UNCHANGED <<pend, ttyOut, owner, canon, alive, fg, sh, ev>>
  /\ UNCHANGED <<sent, taken, ttyIn>>
  /\ UNCHANGED ringVars

\* tty_read: pending bytes first, whoever asks; otherwise ICANON is sampled
\* and the wait begins.
TtyRead(p) ==
  /\ pc[p] = "idle"
  /\ IF pend # <<>>
       THEN /\ pend' = Tail(pend) /\ ttyOut' = Log(ttyOut, Head(pend))
            /\ UNCHANGED <<pc, dev, lcanon>>
       ELSE /\ Goto(p, "look") /\ dev' = [dev EXCEPT ![p] = "tty"]
            /\ lcanon' = [lcanon EXCEPT ![p] = canon]
            /\ UNCHANGED <<pend, ttyOut>>
  /\ UNCHANGED <<owner, canon, alive, fg, sh, ev>>
  /\ UNCHANGED <<sent, taken, ttyIn>>
  /\ UNCHANGED ringVars

\* kbd_read.
KbdRead(p) ==
  /\ pc[p] = "idle"
  /\ Goto(p, "look") /\ dev' = [dev EXCEPT ![p] = "kbd"]
  /\ UNCHANGED <<owner, pend, canon, alive, fg, sh, ev, lcanon>>
  /\ UNCHANGED ringVars /\ UNCHANGED histVars

\* TCSETS on /dev/tty0.  Nothing restores it when the program exits.
SetCanon(p) ==
  /\ pc[p] = "idle"
  /\ canon' \in BOOLEAN \ {canon}
  /\ UNCHANGED <<owner, pend, alive, fg, sh>>
  /\ UNCHANGED callVars /\ UNCHANGED ringVars /\ UNCHANGED histVars

\* Mutant of Exit: the console is not released.
ExitKeeps(p) ==
  /\ pc[p] = "idle"
  /\ alive' = alive \ {p}
  /\ UNCHANGED <<owner, pend, canon, fg, sh>>
  /\ UNCHANGED callVars /\ UNCHANGED ringVars /\ UNCHANGED histVars

\* task_exit: kbd_input_release.
Exit(p) ==
  /\ pc[p] = "idle"
  /\ alive' = alive \ {p}
  /\ owner' = IF owner = p THEN Nobody ELSE owner
  /\ UNCHANGED <<pend, canon, fg, sh>>
  /\ UNCHANGED callVars /\ UNCHANGED ringVars /\ UNCHANGED histVars

-----------------------------------------------------------------------------
(* The shell.                                                               *)

\* tsh_run asks for the next event.
Prompt ==
  /\ sh = "prompt" /\ pc[Shell] = "idle"
  /\ Goto(Shell, "look") /\ dev' = [dev EXCEPT ![Shell] = "shell"]
  /\ UNCHANGED <<owner, pend, canon, alive, fg, sh, ev, lcanon>>
  /\ UNCHANGED ringVars /\ UNCHANGED histVars

\* command_execute: nothing of interest; `cat /dev/tty0'; a program by its
\* name, which the shell waits for; `exec', which releases the console, of
\* whoever owns it, and does not wait.
Command ==
  /\ sh = "command" /\ pc[Shell] = "idle"
  /\ \/ sh' = "prompt" /\ UNCHANGED <<owner, alive, fg>>
     \/ ShellReads /\ sh' = "cat" /\ UNCHANGED <<owner, alive, fg>>
     \/ \E t \in Tasks \ alive :
          /\ alive' = alive \cup {t}
          /\ \/ sh' = "wait" /\ fg' = t /\ UNCHANGED owner
             \/ sh' = "prompt" /\ owner' = Nobody /\ UNCHANGED fg
  /\ UNCHANGED <<pend, canon>>
  /\ UNCHANGED callVars /\ UNCHANGED ringVars /\ UNCHANGED histVars

Wait ==
  /\ sh = "wait" /\ fg \notin alive
  /\ sh' = "prompt" /\ fg' = Nobody
  /\ UNCHANGED <<owner, pend, canon, alive>>
  /\ UNCHANGED callVars /\ UNCHANGED ringVars /\ UNCHANGED histVars

-----------------------------------------------------------------------------

InCall(p) == Look(p) \/ Claim(p) \/ Ring(p) \/ Take(p) \/ Pop(p)

ShellStep ==
  \/ InCall(Shell) \/ Prompt \/ Command \/ Wait
  \/ sh = "cat" /\ TtyRead(Shell)

\* A program reads, or exits; between the two it may change the mode.
Proceed(t) == t \in alive /\ (InCall(t) \/ TtyRead(t) \/ KbdRead(t) \/ Exit(t))

History ==
  /\ raced' = (raced \/ \E p, q \in Pids : p # q /\ pc'[p] \in Inside /\ pc'[q] \in Inside)
  /\ overlap' = (overlap \/ \E p, q \in Pids :
                   /\ p # q /\ pc'[p] # "idle" /\ pc'[q] # "idle"
                   /\ dev'[p] = "tty" /\ dev'[q] = "tty")

Run(p) ==
  /\ MayRun(p)
  /\ IF p = Shell THEN ShellStep ELSE Proceed(p)
  /\ History /\ UNCHANGED preempt

Next ==
  \/ \E p \in Pids : Run(p)
  \/ \E t \in alive : MayRun(t) /\ SetCanon(t) /\ History /\ UNCHANGED preempt
  \/ \E k \in Kinds : Press(k) /\ History /\ UNCHANGED preempt

\* The tick gives every task the CPU again and again (EveryTaskRuns of
\* Sched); a task in hlt looks again at every wake.  Programs do not compute
\* for ever between two calls.
Fairness == \A p \in Pids : SF_vars(Run(p))

Spec == Init /\ [][Next]_vars
FairSpec == Spec /\ Fairness

-----------------------------------------------------------------------------
(* What the console promises.                                               *)

\* The events in the ring, oldest first.
Count(h, t) == IF t <= h THEN h - t ELSE h - t + RingSize
Slot(t, i) == IF t + i < RingSize THEN t + i ELSE t + i - RingSize
Window(b, h, t) == [i \in 1 .. Count(h, t) |-> b[Slot(t, i - 1)]]

\* The interrupt and a consumer never disturb each other, wherever the
\* interrupt falls, until two consumers are between the ownership check and
\* the pop at the same time: every key that found room is delivered once,
\* in the order of the presses.
RingExact == ~raced => sent = taken \o Window(buffer, head, tail)

\* "Checking on every wake is what makes the handover race-free: a task only
\* consumes events while it is the registered owner": true as long as no
\* tick falls between the check and the pop.  The shell also consumes while
\* nobody owns the console; kbd_read asks nobody.
ConsumesAsOwner ==
  ~preempt => \A p \in Pids :
    pc[p] \in {"take", "pop"} =>
      /\ dev[p] = "tty" => owner = p
      /\ dev[p] = "shell" => owner \in {Nobody, Shell}

\* The owner is a running program or the shell: task_exit gives the console
\* back wherever a tick fell, so a dead task never holds it.
OwnerAlive == owner \in alive \cup {Shell, Nobody}

\* "as real escape sequences": the bytes that tty_read has returned and the
\* ones that are pending are the sequences of the keys it took, in order
\* and complete, also across programs, as long as no two tty_reads overlap.
StreamExact == ~raced /\ ~overlap => ttyOut \o pend = ttyIn

\* "The shell releases it before spawning a program": every key that is in
\* the ring is consumed in the end, since whoever owns the console reads it
\* or gives it back.
KeysConsumed == head # tail ~> head = tail

\* The only way for a key to stay in the ring for ever: the shell, having
\* read /dev/tty0 itself, still owns the console and waits for a program.
ShellHolds == owner = Shell /\ sh = "wait"
KeysConsumedOrHeld == head # tail ~> head = tail \/ ShellHolds

\* g_kbd_owner: those who consume may, and those who may are alive.
Ownership == TypeOK /\ ConsumesAsOwner /\ OwnerAlive
=============================================================================

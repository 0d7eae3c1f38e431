------------------------------ MODULE Scancode -------------------------------
(***************************************************************************)
(* The keyboard interrupt handler (kernel/drivers/keyboard.c): decoding    *)
(* scancodes into characters, with the modifiers, the 0xE0 prefix and the  *)
(* Caps Lock LED.  Module Tty models the ring buffer behind it.            *)
(*                                                                         *)
(* The keyboard and its controller are external: the keys that are held    *)
(* and the bytes that wait at port 0x60.  A byte is <<key, make>>, or the  *)
(* prefix, or the answer to a command (0xFA, to the handler the release of *)
(* a key that does not exist).  "a" stands for the letters; a character is *)
(* what was typed of it.                                                   *)
(***************************************************************************)
EXTENDS Integers, Sequences

CONSTANTS KeysUsed,  \* a subset of AllKeys
          MaxPort    \* bound: bytes that wait

AllKeys == {"LShift", "RShift", "Ctrl", "RCtrl", "Caps", "a"}

ASSUME ScancodeAssumption == KeysUsed \subseteq AllKeys /\ MaxPort \in Nat

VARIABLES
  down,     \* the keys held
  capsOn,   \* how often Caps Lock was pressed is odd
  port,     \* the bytes that wait
  shift, ctrl, caps, extended,  \* g_shift_pressed, g_ctrl_pressed, g_caps_locked, g_extended
  typed,     \* history: the characters of the presses whose bytes wait, until
            \* both or eaten
  wrong,    \* history: a character differed from what was typed
  both,     \* history: both Shift keys were held at once
  eaten     \* history: kbd_update_leds took a scancode for an answer

kbVars == <<down, capsOn, port, shift, ctrl, caps, extended, typed, wrong, both, eaten>>

E0 == <<"E0", TRUE>>
Ack == <<"Ack", FALSE>>

ScancodeInit ==
  /\ down = {} /\ capsOn = FALSE /\ port = <<>>
  /\ shift = FALSE /\ ctrl = FALSE /\ caps = FALSE /\ extended = FALSE
  /\ typed = <<>> /\ wrong = FALSE /\ both = FALSE /\ eaten = FALSE

\* What a letter gives: the shifted table, Caps Lock over it, and Control
\* only over a lower-case letter.
Letter(s, l, c) == IF s # l THEN "A" ELSE IF c THEN "^A" ELSE "a"

-----------------------------------------------------------------------------
(* External: the user and the keyboard.                                     *)

\* The right Control key sends the left one's code after the prefix.
KeyBytes(k, make) == IF k = "RCtrl" THEN <<E0, <<"Ctrl", make>>>> ELSE <<<<k, make>>>>

\* A key goes down; a held letter repeats.
KeyDown(k) ==
  /\ Len(port) + 2 <= MaxPort
  /\ k \notin down \/ k = "a"
  /\ down' = down \cup {k}
  /\ capsOn' = (capsOn # (k = "Caps"))
  /\ port' = port \o KeyBytes(k, TRUE)
  /\ typed' = IF k = "a" /\ ~eaten /\ ~both
             THEN Append(typed, Letter(down \cap {"LShift", "RShift"} # {}, capsOn, "Ctrl" \in down))
             ELSE typed
  /\ both' = (both \/ {"LShift", "RShift"} \subseteq down')
  /\ UNCHANGED <<shift, ctrl, caps, extended, wrong, eaten>>

KeyUp(k) ==
  /\ Len(port) + 2 <= MaxPort
  /\ k \in down
  /\ down' = down \ {k}
  /\ port' = port \o KeyBytes(k, FALSE)
  /\ UNCHANGED <<capsOn, shift, ctrl, caps, extended, typed, wrong, both, eaten>>

-----------------------------------------------------------------------------
(* kbd_irq_handler, for the byte at the head of the port.                   *)

Code == Head(port)[1]
Make == Head(port)[2]

TakeByte == port # <<>> /\ port' = Tail(port) /\ UNCHANGED <<down, capsOn, both>>

\* The prefix.
Prefix ==
  /\ TakeByte /\ Head(port) = E0
  /\ extended' = TRUE
  /\ UNCHANGED <<shift, ctrl, caps, typed, wrong, eaten>>

\* Mutant of ExtendedKey: an extended release keeps the flag.
ExtendedKeyStays ==
  /\ TakeByte /\ Head(port) # E0 /\ extended
  /\ extended' = ~Make
  /\ UNCHANGED <<shift, ctrl, caps, typed, wrong, eaten>>

\* An extended key: the right Control key is none of those in extmap.
ExtendedKey ==
  /\ TakeByte /\ Head(port) # E0 /\ extended
  /\ extended' = FALSE
  /\ UNCHANGED <<shift, ctrl, caps, typed, wrong, eaten>>

Plain == TakeByte /\ Head(port) # E0 /\ ~extended

\* SC_CTRL, SC_LSHIFT, SC_RSHIFT.
Modifier ==
  /\ Plain /\ Code \in {"Ctrl", "LShift", "RShift"}
  /\ ctrl' = IF Code = "Ctrl" THEN Make ELSE ctrl
  /\ shift' = IF Code # "Ctrl" THEN Make ELSE shift
  /\ UNCHANGED <<caps, extended, typed, wrong, eaten>>

\* SC_CAPS_LOCK: each command byte of kbd_update_leds is answered behind
\* what waits, and whatever is first is read as the answer.
CapsLock ==
  /\ port # <<>> /\ Head(port) # E0 /\ ~extended /\ Code = "Caps"
  /\ IF Make
     THEN LET queue == Tail(port) \o <<Ack, Ack>>
          IN  /\ caps' = ~caps
              /\ port' = SubSeq(queue, 3, Len(queue))
              /\ eaten' = (eaten \/ Len(port) > 1)
              /\ typed' = IF eaten' THEN <<>> ELSE typed
     ELSE port' = Tail(port) /\ UNCHANGED <<caps, eaten, typed>>
  /\ UNCHANGED <<down, capsOn, both, shift, ctrl, extended, wrong>>

\* An ordinary key; its release and 0xFA produce nothing.
Character ==
  /\ Plain /\ Code \in {"a", "Ack"}
  /\ IF Code = "a" /\ Make
     THEN LET got == Letter(shift, caps, ctrl)
          IN  IF typed = <<>> THEN UNCHANGED <<typed, wrong>>
              ELSE wrong' = (wrong \/ got # Head(typed)) /\ typed' = Tail(typed)
     ELSE UNCHANGED <<typed, wrong>>
  /\ UNCHANGED <<shift, ctrl, caps, extended, eaten>>

ScancodeNext ==
  \/ \E k \in KeysUsed : KeyDown(k) \/ KeyUp(k)
  \/ Prefix \/ ExtendedKey \/ Modifier \/ CapsLock \/ Character

ScancodeSpec == ScancodeInit /\ [][ScancodeNext]_kbVars

-----------------------------------------------------------------------------
(* Properties.  All of them suppose that no scancode was taken for the      *)
(* answer to an LED command; one typed quickly after Caps Lock can be.      *)

\* When everything is released and decoded, no modifier sticks, in whatever
\* order keys were pressed and released.
NoStuckModifier ==
  down = {} /\ port = <<>> /\ ~eaten => ~shift /\ ~ctrl /\ ~extended /\ caps = capsOn

\* Unless both Shift keys were held at once (they share one flag), every
\* letter is decoded with the modifiers that were held when it was pressed,
\* however many bytes waited in between.
DecodedAsTyped == ~both /\ ~eaten => ~wrong /\ (port = <<>> => typed = <<>>)

\* kbd_irq_handler: letters are decoded as typed and no modifier sticks.
KeysExact == NoStuckModifier /\ DecodedAsTyped
=============================================================================

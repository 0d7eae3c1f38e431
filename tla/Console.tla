------------------------------- MODULE Console -------------------------------
(***************************************************************************)
(* The framebuffer text console (kernel/drivers/fb.c): the grid of cells,  *)
(* the cursor, the escape sequences, the alternate screen and the          *)
(* scrollback.                                                             *)
(*                                                                         *)
(* The driver keeps its screen twice: g_text holds what should be on it    *)
(* and the pixels what is.  The pixels are abstracted to one look per cell *)
(* and to whether it is drawn inverted (the cursor).  Of the colours only  *)
(* "plain" (a black background) and "field" (another background) are told  *)
(* apart.  A run of digits in an escape sequence is one token.  The driver *)
(* is sequential: con is its state, and every byte maps it to the next.    *)
(***************************************************************************)
EXTENDS Integers, SequencesExt

CONSTANTS Cols, Rows,      \* g_cols, g_rows
          HistRows,        \* FB_HISTORY_ROWS, 2048
          TabStop,         \* 8
          Num,             \* the numbers of escape sequences: token |-> value
          Outputs,         \* the byte strings that programs write
          MaxOutputs       \* bound: steps

ASSUME ConsoleAssumption ==
  Cols > 0 /\ Rows > 0 /\ HistRows > 0 /\ TabStop > 0

VARIABLES con,     \* the driver
          outputs  \* steps so far

conVars == <<con, outputs>>

Cells == (0 .. Rows - 1) \X (0 .. Cols - 1)
Blank(k) == [c |-> " ", k |-> k]

\* What fb_paint_cell makes visible of a cell: a plain blank is black, as is
\* memory set to 0.
Black == <<" ", "plain">>
Look(cell) == <<cell.c, cell.k>>
Painted(cell, inv) == [look |-> Look(cell), inv |-> inv]

Cursor(s) == <<s.y, s.x>>

-----------------------------------------------------------------------------
(* Drawing.  off is a history variable: the driver knows the pixels to      *)
(* differ from g_text (see the properties).                                 *)

\* fb_draw_cell of the cursor's cell.
DrawCursor(s, inv) ==
  [s EXCEPT !.shown[Cursor(s)] = Painted(s.text[Cursor(s)], inv)]

ShowCursor(s) == IF s.visible THEN DrawCursor(s, TRUE) ELSE s

\* fb_redraw_live.
RedrawLive(s) ==
  ShowCursor([s EXCEPT !.shown = [p \in Cells |-> Painted(s.text[p], FALSE)],
                       !.off = FALSE])

\* fb_redraw_history: the slot of a line of the history, counted from the
\* oldest.
Slot(s, line) == (s.head - s.count + line) % HistRows
RedrawHistory(s) ==
  [s EXCEPT
    !.shown = [p \in Cells |->
      LET line == s.count - s.back - Rows + p[1]
      IN  Painted(IF line < 0 THEN Blank("plain") ELSE s.slots[Slot(s, line)][p[2]],
                  FALSE)],
    !.off = FALSE]

\* Mutant of HistoryPush: the head stays when the ring is full.
HistoryPushStuck(s) ==
  LET row == [c \in 0 .. Cols - 1 |-> s.text[<<s.y, c>>]]
  IN  [s EXCEPT
        !.slots[s.head] = row,
        !.head = IF s.count < HistRows THEN (s.head + 1) % HistRows ELSE s.head,
        !.count = IF s.count < HistRows THEN s.count + 1 ELSE s.count,
        !.lines = LET l == Append(s.lines, row)
                  IN  IF Len(l) > HistRows THEN Tail(l) ELSE l]

\* history_push; lines is a history variable, the newest completed lines.
HistoryPush(s) ==
  LET row == [c \in 0 .. Cols - 1 |-> s.text[<<s.y, c>>]]
  IN  [s EXCEPT
        !.slots[s.head] = row,
        !.head = (s.head + 1) % HistRows,
        !.count = IF s.count < HistRows THEN s.count + 1 ELSE s.count,
        !.lines = LET l == Append(s.lines, row)
                  IN  IF Len(l) > HistRows THEN Tail(l) ELSE l]

\* fb_scroll_up: g_text gets a blank row of the current colour, the screen a
\* black one.
ScrollUp(s) ==
  LET up(f, new) ==
        [p \in Cells |-> IF p[1] < Rows - 1 THEN f[<<p[1] + 1, p[2]>>] ELSE new]
  IN  [s EXCEPT !.text = up(s.text, Blank(s.k)),
                !.shown = up(s.shown, [look |-> Black, inv |-> FALSE]),
                !.off = s.off \/ s.k # "plain"]

\* fb_clear: the scrollback goes too, and the cursor is not drawn.
Clear(s) ==
  [s EXCEPT !.text = [p \in Cells |-> Blank(s.k)],
            !.shown = [p \in Cells |-> [look |-> Black, inv |-> FALSE]],
            !.x = 0, !.y = 0, !.head = 0, !.count = 0, !.back = 0, !.lines = <<>>,
            !.off = s.k # "plain"]

-----------------------------------------------------------------------------
(* ansi_exec: a finished control sequence.                                  *)

\* ansi_parse_params: empty and missing parameters are 1.
Params(buf) ==
  LET step(acc, t) == IF t = ";" THEN Append(acc, 1) ELSE [acc EXCEPT ![Len(acc)] = Num[t]]
      given == FoldLeft(step, <<1>>, buf)
  IN  [i \in 1 .. 8 |-> IF i \in DOMAIN given THEN given[i] ELSE 1]

\* The bounds checks after a move.
Clamp(v, limit) == IF v < 0 THEN 0 ELSE IF v >= limit THEN limit - 1 ELSE v

\* ansi_alt_enter and ansi_alt_exit.
AltEnter(s) ==
  IF s.altOn THEN s
  ELSE Clear([s EXCEPT !.altOn = TRUE, !.alt = [text |-> s.text, x |-> s.x, y |-> s.y,
                                                k |-> s.k]])
AltExit(s) ==
  IF ~s.altOn THEN s
  ELSE [RedrawLive([s EXCEPT !.altOn = FALSE, !.text = s.alt.text, !.x = s.alt.x,
                             !.y = s.alt.y, !.k = s.alt.k])
        EXCEPT !.off = s.back > 0]

\* The private modes.
ExecPrivate(s, final, m) ==
  CASE m = 25 /\ final \in {"h", "l"}         -> [s EXCEPT !.visible = final = "h"]
    [] m \in {47, 1049} /\ final = "h"        -> AltEnter(s)
    [] m \in {47, 1049} /\ final = "l"        -> AltExit(s)
    [] m = 1048 /\ final = "h"                -> [s EXCEPT !.alt.x = s.x, !.alt.y = s.y]
    [] m = 1048 /\ final = "l"                ->
         [s EXCEPT !.x = s.alt.x, !.y = s.alt.y,
                   !.off = s.off \/ Cursor(s) # <<s.alt.y, s.alt.x>>]
    [] OTHER                                  -> s

\* ansi_erase_cells over the cells of an area.
Erase(s, area) ==
  [s EXCEPT !.text = [p \in Cells |-> IF p \in area THEN Blank(s.k) ELSE s.text[p]],
            !.shown = [p \in Cells |-> IF p \in area THEN Painted(Blank(s.k), FALSE)
                                       ELSE s.shown[p]]]

\* The cells before the cursor, with it, and from the cursor on.
UpTo(s) == {p \in Cells : p[1] < s.y \/ (p[1] = s.y /\ p[2] <= s.x)}
From(s) == {p \in Cells : p[1] > s.y \/ (p[1] = s.y /\ p[2] >= s.x)}
Line(s) == {p \in Cells : p[1] = s.y}

\* One SGR parameter.
Sgr(k, p) == CASE p \in {0, 49} -> "plain" [] p \in 41 .. 47 -> "field" [] OTHER -> k

\* The switch over the final byte.
Switch(s, final, p) ==
  CASE final \in {"H", "f"} ->
         [s EXCEPT !.y = Clamp(p[1] - 1, Rows), !.x = Clamp(p[2] - 1, Cols)]
    [] final = "A" -> [s EXCEPT !.y = Clamp(s.y - p[1], Rows)]
    [] final = "B" -> [s EXCEPT !.y = Clamp(s.y + p[1], Rows)]
    [] final = "C" -> [s EXCEPT !.x = Clamp(s.x + p[1], Cols)]
    [] final = "D" -> [s EXCEPT !.x = Clamp(s.x - p[1], Cols)]
    [] final = "G" -> [s EXCEPT !.x = Clamp(p[1] - 1, Cols)]
    [] final = "d" -> [s EXCEPT !.y = Clamp(p[1] - 1, Rows)]
    [] final = "J" -> Erase(s, IF p[1] \in {2, 3} THEN Cells
                               ELSE IF p[1] = 1 THEN UpTo(s) ELSE From(s))
    [] final = "K" -> Erase(s, Line(s) \cap (IF p[1] = 2 THEN Cells
                               ELSE IF p[1] = 1 THEN UpTo(s) ELSE From(s)))
    [] final = "X" -> Erase(s, {q \in Line(s) \cap From(s) : q[2] < s.x + p[1]})
    [] final = "m" -> [s EXCEPT !.k = FoldLeft(Sgr, s.k, p)]
    [] OTHER -> s

\* Mutant of ExecPublic: the cursor is not erased before it moves.
ExecPublicTrail(s, final, p) == ShowCursor(Switch(s, final, p))

\* The sequences without "?".
ExecPublic(s, final, p) == ShowCursor(Switch(DrawCursor(s, FALSE), final, p))

\* The dispatch.  Drawing into a scrolled-back view leaves the live screen's
\* cells in it.
AnsiExec(s, final) ==
  LET p == Params(s.buf)
  IN  IF s.priv THEN ExecPrivate(s, final, p[1])
      ELSE [ExecPublic(s, final, p) EXCEPT !.off = s.off \/ s.back > 0]

\* ansi_consume of a byte that belongs to a sequence.
Consume(s, b) ==
  CASE s.ansi = "normal" -> [s EXCEPT !.ansi = "esc"]
    [] s.ansi = "esc" ->
         IF b = "[" THEN [s EXCEPT !.ansi = "csi", !.buf = <<>>, !.priv = FALSE]
         ELSE [s EXCEPT !.ansi = IF b = "O" THEN "ss3" ELSE "normal"]
    [] s.ansi = "ss3" -> [s EXCEPT !.ansi = "normal"]
    [] b = "?" /\ s.buf = <<>> -> [s EXCEPT !.priv = TRUE]
    [] b = ";" \/ b \in DOMAIN Num -> [s EXCEPT !.buf = Append(s.buf, b)]
    [] b \in {"NL", "CR", "BS", "TAB", "ESC", " ", "?"} -> [s EXCEPT !.ansi = "normal"]
    [] OTHER -> [AnsiExec([s EXCEPT !.ansi = "normal"], b) EXCEPT !.buf = <<>>]

-----------------------------------------------------------------------------
(* fb_putchar.                                                              *)

\* The end of fb_putchar: wrap, scroll, draw the cursor.
Settle(s) ==
  LET w == IF s.x >= Cols THEN [HistoryPush(s) EXCEPT !.x = 0, !.y = s.y + 1] ELSE s
      d == IF w.y >= Rows THEN [ScrollUp(w) EXCEPT !.y = Rows - 1] ELSE w
  IN  ShowCursor(d)

\* A drawn character, and a character erased to the left.
Glyph(s, c) ==
  LET cell == [c |-> c, k |-> s.k]
  IN  [s EXCEPT !.text[Cursor(s)] = cell, !.shown[Cursor(s)] = Painted(cell, FALSE),
                !.x = s.x + 1]
Rubout(s) ==
  IF s.x = 0 THEN s
  ELSE [Glyph([s EXCEPT !.x = s.x - 1], " ") EXCEPT !.x = s.x - 1]

\* New output snaps the view back, and the cursor is erased first.
Begin(s) ==
  DrawCursor(IF s.back > 0 THEN RedrawLive([s EXCEPT !.back = 0]) ELSE s, FALSE)

\* fb_putchar outside a sequence.
Draw(s, b) ==
  LET n == Min({Cols - s.x, TabStop - (s.x % TabStop)})
      space(acc, i) == Settle(Glyph(Begin(acc), " "))
  IN  CASE b = "TAB" -> FoldLeft(space, Begin(s), [i \in 1 .. n |-> i])
        [] b = "NL"  -> Settle([HistoryPush(Begin(s)) EXCEPT !.x = 0, !.y = s.y + 1])
        [] b = "CR"  -> Settle([Begin(s) EXCEPT !.x = 0])
        [] b = "BS"  -> Settle(Rubout(Begin(s)))
        [] OTHER     -> Settle(Glyph(Begin(s), b))

PutByte(s, b) == IF s.ansi # "normal" \/ b = "ESC" THEN Consume(s, b) ELSE Draw(s, b)

-----------------------------------------------------------------------------
(* The steps.                                                               *)

Step == outputs < MaxOutputs /\ outputs' = outputs + 1

\* A program writes.
Output(bytes) == Step /\ con' = FoldLeft(PutByte, con, bytes)

\* Ctrl+L in the shell.
ConsoleClear == Step /\ con' = Clear(con)

\* fb_scroll_page, for PageUp (1) and PageDown (-1).
Paged(s, dir) ==
  LET most == IF s.count > Rows THEN s.count - Rows ELSE 0
      r == [s EXCEPT !.back = LET b == s.back + dir * Rows
                              IN  IF b < 0 THEN 0 ELSE IF b > most THEN most ELSE b]
  IN  IF r.back = 0 THEN RedrawLive(r) ELSE RedrawHistory(r)
Page(dir) == Step /\ con' = Paged(con, dir)

ConsoleInit ==
  /\ outputs = 0
  /\ LET text == [p \in Cells |-> Blank("plain")]
     IN  con = [text |-> text, shown |-> [p \in Cells |-> Painted(text[p], FALSE)],
                x |-> 0, y |-> 0, k |-> "plain", visible |-> TRUE,
                slots |-> [i \in 0 .. HistRows - 1 |-> [c \in 0 .. Cols - 1 |-> Blank("plain")]],
                head |-> 0, count |-> 0, back |-> 0, lines |-> <<>>,
                ansi |-> "normal", priv |-> FALSE, buf |-> <<>>,
                alt |-> [text |-> text, x |-> 0, y |-> 0, k |-> "plain"], altOn |-> FALSE,
                off |-> FALSE]

ConsoleNext ==
  \/ \E bytes \in Outputs : Output(bytes)
  \/ ConsoleClear
  \/ \E dir \in {-1, 1} : Page(dir)

ConsoleSpec == ConsoleInit /\ [][ConsoleNext]_conVars

-----------------------------------------------------------------------------
(* Properties.                                                              *)

\* Types; the cursor, drawn without a check of g_text's bounds, stays in the
\* grid, the saved cursor too, and the view stays inside the history.
ConsoleTypeOK ==
  /\ Cursor(con) \in Cells /\ <<con.alt.y, con.alt.x>> \in Cells
  /\ con.count \in 0 .. HistRows /\ con.head \in 0 .. HistRows - 1
  /\ con.back \in 0 .. (IF con.count > Rows THEN con.count - Rows ELSE 0)
  /\ con.ansi \in {"normal", "esc", "csi", "ss3"}

\* The live screen shows g_text, and no cell but the cursor's is inverted: no
\* trail of old cursors, whatever moves, scrolls, clears or switches screens.
\* Not promised (off): a row scrolled in or cleared with a background colour
\* is black, ESC[?1048l leaves the old cursor on the screen, and an escape
\* sequence draws into a scrolled-back view.
ShownExact ==
  con.back = 0 /\ ~con.off =>
    \A p \in Cells :
      /\ con.shown[p].look = Look(con.text[p])
      /\ con.shown[p].inv => p = Cursor(con)

\* The ring holds the newest completed lines, oldest first, also after it has
\* wrapped; this is what fb_redraw_history indexes.
HistoryExact ==
  /\ con.count = Len(con.lines)
  /\ \A i \in 1 .. con.count : con.slots[Slot(con, i - 1)] = con.lines[i]

\* A scrolled-back view shows consecutive lines of the history that end back
\* lines before its newest.
ViewExact ==
  con.back > 0 /\ ~con.off =>
    \A p \in Cells :
      LET line == Len(con.lines) - con.back - Rows + p[1] + 1
      IN  line >= 1 /\ con.shown[p] = Painted(con.lines[line][p[2]], FALSE)

\* The scrollback: indices stay in range, the ring holds the newest lines and
\* a view shows consecutive ones.
HistoryRight == ConsoleTypeOK /\ HistoryExact /\ ViewExact
=============================================================================

------------------------------ MODULE Terminal ------------------------------
(***************************************************************************)
(* The kernel's terminal on the framebuffer (gfx/terminal.cpp): the buffer *)
(* of characters, the cursor and the bar drawn for it, control sequences,  *)
(* scrolling and insert mode.                                              *)
(*                                                                         *)
(* Of the pixels only the bars are kept: drawing a character removes the   *)
(* bar in its cell.  Of the colours, bold stands for all.  Numbers are     *)
(* ints that wrap; a sequence has at most MaxDigits digits.                *)
(***************************************************************************)
EXTENDS Integers

CONSTANTS TermWidth, TermHeight, TabStop,
          Digits, MaxDigits, IntMax,
          MaxCsiArgs

ASSUME TerminalAssumption ==
    /\ {TermWidth, TermHeight, TabStop} \subseteq Nat \ {0}
    /\ MaxCsiArgs \in Nat \ {0, 1}               \* 16 in the code; two are a position
    /\ Digits \subseteq 0 .. 9 /\ MaxDigits \in Nat /\ IntMax \in Nat

VARIABLES screen,        \* buffer: cell -> character and whether it is bold
          term_bars,     \* cells whose pixels show a bar
          undraw,        \* cursor_needs_undrawing
          term_cursor, old_cursor,
          is_bold, insert_mode,
          csi,           \* csi_progress and the arguments
          term_wild,     \* a character was written beside its row, or beside the buffer
          term_history   \* plain: no control sequence, no backspace in the first column,
                         \* and the first character was not a blank or a tab;
                         \* odd: insert mode was left, or a number or its sum with
                         \* the cursor's column has wrapped

terminal_vars == <<screen, term_bars, undraw, term_cursor, old_cursor, is_bold, insert_mode,
                   csi, term_wild, term_history>>

TermCells == 0 .. TermWidth * TermHeight - 1
Index(at) == at.y * TermWidth + at.x
Blank == [char |-> "blank", bold |-> FALSE]
\* reset_control_sequence
NoSequence == [progress |-> 0, args |-> [i \in 0 .. MaxCsiArgs - 1 |-> 0], index |-> 0,
               count |-> 0, question |-> FALSE, digits |-> 0]
TerminalInit ==
    /\ screen = [i \in TermCells |-> Blank] /\ term_bars = {0} /\ undraw = FALSE
    /\ term_cursor = [x |-> 0, y |-> 0] /\ old_cursor = [x |-> 0, y |-> 0]
    /\ is_bold = FALSE /\ insert_mode = FALSE /\ csi = NoSequence
    /\ term_wild = "no" /\ term_history = [plain |-> TRUE, odd |-> FALSE]
-----------------------------------------------------------------------------
\* What set_char_at and the functions on top of it work on.
Drawing == [screen |-> screen, bars |-> term_bars, undraw |-> undraw, wild |-> term_wild]

\* set_char_at of every cell that differs; a cell that is the same is not drawn.
Draws(d, new) ==
    LET changed == {i \in TermCells : new[i] # d.screen[i]}
    IN  [d EXCEPT !.screen = new, !.bars = @ \ changed, !.undraw = @ /\ changed = {}]
Blanked(d, cells) == Draws(d, [i \in TermCells |-> IF i \in cells THEN Blank ELSE d.screen[i]])

set_char_at(d, x, y, cell) ==
    LET i == y * TermWidth + x
        wild == IF i \notin TermCells THEN "out" ELSE IF x >= TermWidth THEN "row" ELSE "no"
    IN  IF d.wild = "out" \/ wild = "out" THEN [d EXCEPT !.wild = "out"]
        ELSE [Draws(d, [d.screen EXCEPT ![i] = cell]) EXCEPT !.wild = IF @ = "no" THEN wild ELSE @]
move_char(d, from, to, y) ==
    IF y * TermWidth + from \notin TermCells THEN [d EXCEPT !.wild = "out"]
    ELSE set_char_at(set_char_at(d, to, y, d.screen[y * TermWidth + from]), from, y, Blank)
\* move_char along a row, n times.
Shifted(d, y, n, from, to) ==
    LET moved[i \in 0 .. n] == IF i = 0 THEN d ELSE move_char(moved[i - 1], from[i], to[i], y)
    IN  moved[n]

scroll(d) ==
    [Draws(d, [i \in TermCells |-> IF i + TermWidth \in TermCells THEN d.screen[i + TermWidth]
                                   ELSE Blank]) EXCEPT !.undraw = TRUE]

\* The old bar goes only if it is to be undrawn.
redraw_cursor(d, at) ==
    [d EXCEPT !.bars = (IF d.undraw THEN @ \ {Index(old_cursor)} ELSE @) \cup {Index(at)}]

Takes(d) ==
    /\ screen' = d.screen /\ undraw' = d.undraw /\ term_wild' = d.wild
    /\ term_bars' = IF term_history'.plain THEN d.bars ELSE {}
Moves(d, at) == Takes(redraw_cursor(d, at)) /\ term_cursor' = at /\ old_cursor' = at
-----------------------------------------------------------------------------
Clamp(n, high) == IF n < 0 THEN 0 ELSE IF n > high THEN high ELSE n
AtLeastOne(n) == IF n < 1 THEN 1 ELSE n
Wrapped(n) == ((n + IntMax + 1) % (2 * (IntMax + 1))) - (IntMax + 1)

\* Where move_cursor goes.
CursorCodes == {"A", "B", "C", "D", "E", "F", "G", "H", "d", "r"}
NewCursor(code) ==
    LET n == csi.args[0]
        step == AtLeastOne(n)
        x == term_cursor.x
        y == term_cursor.y
        right == TermWidth - 1
        bottom == TermHeight - 1
    IN  CASE code = "A" -> [x |-> x, y |-> Clamp(y - step, bottom)]
          [] code = "B" -> [x |-> x, y |-> Clamp(Wrapped(y + step), bottom)]
          [] code = "C" -> [x |-> Clamp(Wrapped(x + step), right), y |-> y]
          [] code = "D" -> [x |-> Clamp(x - step, right), y |-> y]
          [] code = "E" -> [x |-> 0, y |-> Clamp(Wrapped(y + step), bottom)]
          [] code = "F" -> [x |-> 0, y |-> Clamp(y - step, bottom)]
          [] code = "G" -> [x |-> Clamp(n - 1, right), y |-> y]
          [] code = "H" -> [x |-> Clamp(n - 1, right), y |-> Clamp(csi.args[1] - 1, bottom)]
          [] code = "d" -> [x |-> x, y |-> Clamp(n - 1, bottom)]
          [] code = "r" -> [x |-> 0, y |-> 0]

Row == {i \in TermCells : i \div TermWidth = term_cursor.y}
Erased(code) ==
    LET n == csi.args[0]
        all == IF code = "J" THEN TermCells ELSE Row
    IN  CASE n = 0 -> {i \in all : i >= Index(term_cursor)}
          [] n = 1 -> {i \in all : i <= Index(term_cursor)}
          [] n = 2 \/ (code = "J" /\ n = 3) -> all
          [] OTHER -> {}

\* Delete and erase characters: up to last, which wrapped numbers put before
\* the cursor; what follows last moves to the cursor.
AfterCursor == term_cursor.x + (IF csi.count = 0 THEN 1 ELSE csi.args[0])
LastRemoved == Clamp(Wrapped(AfterCursor), TermWidth)
Removed(code) ==
    LET x == term_cursor.x
        y == term_cursor.y
        cleared == Blanked(Drawing, {y * TermWidth + c : c \in x .. LastRemoved - 1})
        n == TermWidth - LastRemoved
    IN  IF code = "X" THEN cleared
        ELSE Shifted(cleared, y, n, [i \in 1 .. n |-> LastRemoved + (i - 1)],
                                    [i \in 1 .. n |-> x + (i - 1)])

BoldAfter(b, n) == IF n \in {0, 22} THEN FALSE ELSE b \/ n = 1
Embolded ==
    LET bold[i \in 0 .. csi.index + 1] == IF i = 0 THEN is_bold
                                          ELSE BoldAfter(bold[i - 1], csi.args[i - 1])
    IN  bold[csi.index + 1]

apply_control_sequence(code) ==
    \/ /\ code \in CursorCodes
       /\ Moves([Drawing EXCEPT !.undraw = TRUE], NewCursor(code))
       /\ UNCHANGED <<is_bold, insert_mode>>
    \/ /\ code \in {"J", "K"} /\ Takes(Blanked(Drawing, Erased(code)))
       /\ UNCHANGED <<term_cursor, old_cursor, is_bold, insert_mode>>
    \/ /\ code \in {"P", "X"} /\ Takes(Removed(code))
       /\ UNCHANGED <<term_cursor, old_cursor, is_bold, insert_mode>>
    \/ /\ code = "m" /\ Takes(Drawing)
       /\ is_bold' = Embolded
       /\ UNCHANGED <<term_cursor, old_cursor, insert_mode>>
    \/ /\ code \in {"h", "l"} /\ Takes(Drawing)
       /\ insert_mode' = IF ~csi.question /\ csi.args[0] = 4 THEN code = "h" ELSE insert_mode
       /\ UNCHANGED <<term_cursor, old_cursor, is_bold>>
Codes == CursorCodes \cup {"J", "K", "P", "X", "m", "h", "l"}
-----------------------------------------------------------------------------
\* write_char inside of a control sequence; any other character ends it.
csi_bracket == csi.progress = 1 /\ csi' = [csi EXCEPT !.progress = 2]
csi_digit(n) ==
    LET value == csi.args[csi.index] * 10 + n IN
    /\ csi.progress = 2 /\ csi.digits < MaxDigits
    /\ csi' = [csi EXCEPT !.args[csi.index] = Wrapped(value), !.count = csi.index + 1,
                          !.digits = @ + 1]
    /\ term_history' = [plain |-> FALSE, odd |-> term_history.odd \/ Wrapped(value) # value]
\* One argument too many: the sequence is forgotten.
csi_semicolon ==
    /\ csi.progress = 2
    /\ csi' = IF csi.index + 1 >= MaxCsiArgs THEN NoSequence
              ELSE [csi EXCEPT !.index = @ + 1, !.args[csi.index + 1] = 0]
csi_question == csi.progress = 2 /\ csi' = [csi EXCEPT !.question = TRUE]
csi_other == csi.progress > 0 /\ csi' = NoSequence

Quiet == UNCHANGED <<screen, term_bars, undraw, term_cursor, old_cursor, is_bold, insert_mode,
                     term_wild>>
write_in_sequence ==
    \/ (csi_bracket \/ csi_semicolon \/ csi_question \/ csi_other) /\ Quiet
          /\ UNCHANGED term_history
    \/ \E n \in Digits : csi_digit(n) /\ UNCHANGED <<screen, undraw, term_cursor, old_cursor,
          is_bold, insert_mode, term_wild>> /\ term_bars' = {}
    \/ \E code \in Codes :
          /\ csi.progress = 2 /\ csi' = NoSequence
          /\ term_history' = [plain |-> FALSE,
                odd |-> \/ term_history.odd \/ insert_mode
                        \/ code \in {"P", "X"} /\ Wrapped(AfterCursor) # AfterCursor]
          /\ apply_control_sequence(code)

\* Mutant: only a column past the last but one counts.
LeavesRow_late(x) == x > TermWidth
LeavesRow(x) == x >= TermWidth
\* The end of write_char: the next row, scrolling, the cursor.
Finishes(d, x, y) ==
    LET row == IF LeavesRow(x) THEN y + 1 ELSE y
        over == row >= TermHeight
        at == [x |-> IF LeavesRow(x) THEN 0 ELSE x, y |-> IF over THEN row - 1 ELSE row]
    IN  /\ Takes([redraw_cursor(IF over THEN scroll(d) ELSE d, at) EXCEPT !.undraw = TRUE])
        /\ term_cursor' = at /\ old_cursor' = at
        /\ UNCHANGED <<is_bold, insert_mode>>

\* In insert mode the last character moves beside its row.
Inserted(d) ==
    LET n == TermWidth - term_cursor.x IN
    IF ~insert_mode THEN d
    ELSE Shifted(d, term_cursor.y, n, [i \in 1 .. n |-> TermWidth - i],
                                      [i \in 1 .. n |-> (TermWidth - i) + 1])
write_glyph(c) ==
    Finishes(set_char_at(Inserted(Drawing), term_cursor.x, term_cursor.y,
                         [char |-> c, bold |-> is_bold]), term_cursor.x + 1, term_cursor.y)
write_backspace ==
    /\ IF term_cursor.x > 0
       THEN Moves([Drawing EXCEPT !.undraw = TRUE], [term_cursor EXCEPT !.x = @ - 1])
       ELSE Takes([Drawing EXCEPT !.undraw = FALSE]) /\ UNCHANGED <<term_cursor, old_cursor>>
    /\ UNCHANGED <<is_bold, insert_mode>>
write_tab ==
    Finishes(Drawing, ((term_cursor.x + TabStop) \div TabStop) * TabStop, term_cursor.y)
write_return == Finishes(Drawing, 0, term_cursor.y)
write_newline == Finishes([Drawing EXCEPT !.undraw = TRUE], 0, term_cursor.y + 1)
write_nothing == Finishes(Drawing, term_cursor.x, term_cursor.y)

write_char ==
    /\ csi.progress = 0
    /\ \/ \E c \in {"a", "blank"} :
             /\ term_history' = [term_history EXCEPT !.plain = @ /\ (undraw \/ c # "blank")]
             /\ write_glyph(c) /\ UNCHANGED csi
       \/ /\ term_history' = [term_history EXCEPT !.plain = @ /\ undraw]
          /\ write_tab /\ UNCHANGED csi
       \/ /\ UNCHANGED <<csi, term_history>>
          /\ write_return \/ write_newline \/ write_nothing
       \/ /\ UNCHANGED term_history
          /\ write_nothing /\ csi' = [csi EXCEPT !.progress = 1]
       \/ /\ term_history' = [term_history EXCEPT !.plain = @ /\ term_cursor.x > 0]
          /\ write_backspace /\ UNCHANGED csi

TerminalNext == term_wild # "out" /\ (write_char \/ write_in_sequence)
TerminalSpec == TerminalInit /\ [][TerminalNext]_terminal_vars
-----------------------------------------------------------------------------
\* Between two characters the cursor is on the screen; characters stay in
\* their rows and in the buffer unless insert mode was on, or a number of a
\* control sequence or its sum with the column has wrapped; and one bar is drawn, at the cursor, as long
\* as there was no control sequence, no backspace in the first column and
\* no blank or tab at the very start, which leave the old bar behind.
TermSafe ==
    /\ term_cursor.x \in 0 .. TermWidth - 1 /\ term_cursor.y \in 0 .. TermHeight - 1
    /\ term_wild # "no" => term_history.odd \/ insert_mode
    /\ term_history.plain => term_bars = {Index(term_cursor)}
=============================================================================

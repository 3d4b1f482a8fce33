------------------------------ MODULE Console ------------------------------
(***************************************************************************)
(* The shell's line editor and history (shell.c) on the text screen and    *)
(* its blinking cursor (framebuffer.c).  The editor runs in the foreground *)
(* and puts what it changed on the screen one character at a time; the     *)
(* timer interrupt (kernel.c) blinks the cursor at any point of that.      *)
(*                                                                         *)
(* A position on the screen is row * Cols + column.                        *)
(***************************************************************************)
EXTENDS Integers, Sequences, SequencesExt

CONSTANTS
    Letters,        \* printable characters
    LINE_MAX, HISTORY_MAX,
    Cols, Rows,
    MaxCrossings    \* bound: ticks that fall between the halves of an output

ASSUME ConsoleAssumption ==
    /\ LINE_MAX \in Nat \ {0} /\ HISTORY_MAX \in Nat \ {0}
    /\ Cols \in Nat \ {0} /\ Rows \in Nat \ {0} /\ MaxCrossings \in Nat

Size  == Rows * Cols
Grid  == 0 .. Size - 1
Blank == " "
Sign  == ">"            \* the prompt

VARIABLES
    cells,          \* the characters on the screen
    underlined,     \* the positions where the cursor's underline shows
    cur,            \* cur_row and cur_col; not always on the grid
    cursor_enabled, cursor_visible,
    todo,           \* what the foreground has yet to put on the screen
    half,           \* the first of todo is drawn, and the position not yet moved
    buf_line,       \* the line, without its terminator
    cursor,         \* the editor's place in it
    hist_idx,
    start,          \* sc and sr: where the line starts on the screen
    pc,             \* "read", "command" or "prompt"
    history, history_count, history_head,
    \* History of the model:
    recent,         \* the lines entered, the last first
    scrolled,       \* the screen scrolled under the line being edited
    crossings       \* ticks that fell between two halves

screen == <<cells, underlined, cur, cursor_enabled, cursor_visible, todo, half>>
editor == <<buf_line, cursor, hist_idx, start, pc>>
lines  == <<history, history_count, history_head, recent>>
vars   == <<screen, editor, lines, scrolled, crossings>>

Lines == BoundedSeq(Letters, LINE_MAX - 1)

TypeOK ==
    /\ cells \in [Grid -> Letters \cup {Blank, Sign}]
    /\ underlined \subseteq Grid
    /\ cur \in Nat /\ start \in Grid
    /\ cursor_enabled \in BOOLEAN /\ cursor_visible \in BOOLEAN /\ half \in BOOLEAN
    /\ half => todo # <<>>
    /\ buf_line \in Lines /\ cursor \in 0 .. Len(buf_line)
    /\ hist_idx \in -1 .. history_count - 1
    /\ pc \in {"read", "command", "prompt"}
    /\ history \in [0 .. HISTORY_MAX - 1 -> Lines]
    /\ history_count \in 0 .. HISTORY_MAX /\ history_head \in 0 .. HISTORY_MAX - 1

(* Output: move to a position, put a character, start a new line. *)
At(p)    == <<"at", p>>
Put(c)   == <<"put", c>>
NewLine  == <<"newline", 0>>
Puts(s)  == [k \in DOMAIN s |-> Put(s[k])]
Blanks(n) == [k \in 1 .. n |-> Put(Blank)]

Init ==
    /\ cells = [p \in Grid |-> Blank] /\ underlined = {} /\ cur = 0
    /\ cursor_enabled = FALSE /\ cursor_visible = FALSE
    /\ todo = <<>> /\ half = FALSE
    /\ buf_line = <<>> /\ cursor = 0 /\ hist_idx = -1 /\ start = 0 /\ pc = "command"
    /\ history = [k \in 0 .. HISTORY_MAX - 1 |-> <<>>]
    /\ history_count = 0 /\ history_head = 0
    /\ recent = <<>> /\ scrolled = FALSE /\ crossings = 0

-----------------------------------------------------------------------------
(* framebuffer.c.  vga_putchar and fb_set_cursor first take the underline away
   where the position is, then draw, then move the position.  They check no
   bounds: at a position below the last row, where a screen that scrolled under
   the line may leave the editor, they draw behind the rows.  What is there is
   no part of the screen and is left out. *)

(* slip: fb_set_cursor leaves the underline where it is. *)
ErasesPutOnly(op) == op[1] # "at"

Erases(op) == cursor_enabled /\ cursor_visible

Draw ==
    /\ todo # <<>> /\ ~half
    /\ LET op    == Head(todo)
           drawn == op[1] = "put" /\ cur \in Grid
       IN  /\ cells' = IF drawn THEN [cells EXCEPT ![cur] = op[2]] ELSE cells
           /\ underlined' = IF drawn \/ Erases(op) THEN underlined \ {cur} ELSE underlined
    /\ half' = TRUE
    /\ UNCHANGED <<cur, cursor_enabled, cursor_visible, todo, editor, lines,
                   scrolled, crossings>>

(* Where the position goes; a new line, or a last column, below the last row
   scrolls. *)
Target(op) ==
    CASE op[1] = "at"      -> op[2]
      [] op[1] = "put"     -> cur + 1
      [] op[1] = "newline" -> (cur \div Cols + 1) * Cols

Scrolls(op) == op[1] # "at" /\ Target(op) >= Size /\ Target(op) % Cols = 0

Move ==
    /\ half
    /\ LET op == Head(todo)
       IN  IF Scrolls(op)
           THEN /\ cells' = [p \in Grid |-> IF p + Cols \in Grid THEN cells[p + Cols] ELSE Blank]
                /\ underlined' = {p \in Grid : p + Cols \in underlined}
                /\ cur' = Size - Cols
                /\ scrolled' = (pc = "read")
           ELSE /\ cur' = Target(op)
                /\ UNCHANGED <<cells, underlined, scrolled>>
    /\ todo' = Tail(todo) /\ half' = FALSE
    /\ UNCHANGED <<cursor_enabled, cursor_visible, editor, lines, crossings>>

(* fb_cursor_tick, from the timer interrupt, each time its count is full. *)
Blink ==
    /\ cursor_enabled
    /\ half => crossings < MaxCrossings
    /\ cursor_visible' = ~cursor_visible
    /\ underlined' = IF cursor_visible THEN underlined \ {cur}
                     ELSE underlined \cup ({cur} \cap Grid)
    /\ crossings' = IF half THEN crossings + 1 ELSE crossings
    /\ UNCHANGED <<cells, cur, cursor_enabled, todo, half, editor, lines, scrolled>>

-----------------------------------------------------------------------------
(* readline: what each key does to the line, and to the screen. *)

(* slip: the blank after the line is not written. *)
RedrawNoBlank(s, c) == <<At(start)>> \o Puts(s) \o <<At(start + c)>>

Redraw(s, c) == <<At(start)>> \o Puts(s) \o <<Put(Blank), At(start + c)>>

(* The old line is blanked, and another takes its place. *)
Replace(s) == <<At(start)>> \o Blanks(Len(buf_line)) \o Redraw(s, Len(s))

Ready == pc = "read" /\ todo = <<>>

Becomes(s, c, h, out) ==
    /\ buf_line' = s /\ cursor' = c /\ hist_idx' = h /\ todo' = out
    /\ UNCHANGED <<cells, underlined, cur, cursor_enabled, cursor_visible, half,
                   start, pc, lines, scrolled, crossings>>

Insert(c) ==
    /\ Ready /\ Len(buf_line) < LINE_MAX - 1
    /\ LET s == InsertAt(buf_line, cursor + 1, c)
       IN  Becomes(s, cursor + 1, -1,
                   <<At(start + cursor)>> \o Puts(SubSeq(s, cursor + 1, Len(s)))
                       \o <<At(start + cursor + 1)>>)

Backspace ==
    /\ Ready
    /\ \/ /\ cursor > 0
          /\ LET s == RemoveAt(buf_line, cursor)
             IN  Becomes(s, cursor - 1, -1, Redraw(s, cursor - 1))
       \/ cursor = 0 /\ Becomes(buf_line, cursor, -1, todo)

(* At an end of the line the position is set all the same. *)
Left ==
    /\ Ready
    /\ LET c == IF cursor > 0 THEN cursor - 1 ELSE cursor
       IN  Becomes(buf_line, c, hist_idx, <<At(start + c)>>)

Right ==
    /\ Ready
    /\ LET c == IF cursor < Len(buf_line) THEN cursor + 1 ELSE cursor
       IN  Becomes(buf_line, c, hist_idx, <<At(start + c)>>)

(* history_get, for an index that is there. *)
HistoryGet(i) == history[(history_head - i + HISTORY_MAX) % HISTORY_MAX]

Up ==
    /\ Ready /\ hist_idx + 1 < history_count
    /\ LET e == HistoryGet(hist_idx + 1)
       IN  Becomes(e, Len(e), hist_idx + 1, Replace(e))

Down ==
    /\ Ready
    /\ \/ /\ hist_idx > 0
          /\ LET e == HistoryGet(hist_idx - 1)
             IN  Becomes(e, Len(e), hist_idx - 1, Replace(e))
       \/ hist_idx = 0 /\ Becomes(<<>>, 0, -1, Replace(<<>>))

(* Enter; history_push, by the shell's loop, keeps the line unless it is
   empty. *)

(* slip: the head moves on after the line is stored, not before. *)
NextHeadLate == history_head

NextHead == (history_head + 1) % HISTORY_MAX

HistoryPush(s) ==
    IF s = <<>> THEN UNCHANGED lines
    ELSE /\ history' = [history EXCEPT ![NextHead] = s]
         /\ history_head' = (history_head + 1) % HISTORY_MAX
         /\ history_count' = IF history_count < HISTORY_MAX THEN history_count + 1
                             ELSE history_count
         /\ recent' = SubSeq(<<s>> \o recent, 1,
                             IF Len(recent) < HISTORY_MAX THEN Len(recent) + 1 ELSE HISTORY_MAX)

Enter ==
    /\ Ready
    /\ cursor_enabled' = FALSE /\ cursor_visible' = FALSE
    /\ underlined' = underlined \ {cur}
    /\ todo' = <<At(start + Len(buf_line)), NewLine>>
    /\ pc' = "command" /\ hist_idx' = -1
    /\ HistoryPush(buf_line)
    /\ UNCHANGED <<cells, cur, half, buf_line, cursor, start, scrolled, crossings>>

(* The command runs; "clear" empties the screen.  The prompt follows. *)
Command(clear) ==
    /\ pc = "command" /\ todo = <<>>
    /\ cells' = IF clear THEN [p \in Grid |-> Blank] ELSE cells
    /\ underlined' = IF clear THEN {} ELSE underlined
    /\ cur' = IF clear THEN 0 ELSE cur
    /\ todo' = <<Put(Sign)>> /\ pc' = "prompt"
    /\ UNCHANGED <<cursor_enabled, cursor_visible, half, buf_line, cursor, hist_idx,
                   start, lines, scrolled, crossings>>

Readline ==
    /\ pc = "prompt" /\ todo = <<>>
    /\ buf_line' = <<>> /\ cursor' = 0 /\ hist_idx' = -1
    /\ start' = cur /\ cursor_enabled' = TRUE
    /\ pc' = "read" /\ scrolled' = FALSE
    /\ UNCHANGED <<cells, underlined, cur, cursor_visible, todo, half, lines, crossings>>

Next ==
    \/ Draw \/ Move \/ Blink
    \/ \E c \in Letters : Insert(c)
    \/ Backspace \/ Left \/ Right \/ Up \/ Down \/ Enter
    \/ \E clear \in BOOLEAN : Command(clear)
    \/ Readline

Spec == Init /\ [][Next]_vars

-----------------------------------------------------------------------------
(* When the editor waits for a key the screen shows the line where it began,
   nothing after it, and the position is at the editor's cursor, whatever was
   inserted, taken out or recalled; but once the line has made the screen
   scroll, start is a row too low (readline, redraw_line, set_cur). *)
ScreenShowsLine ==
    Ready /\ ~scrolled =>
        /\ cur = start + cursor
        /\ \A p \in start .. Size - 1 :
            cells[p] = IF p - start < Len(buf_line) THEN buf_line[p - start + 1] ELSE Blank

(* No underline stays behind where the cursor is not, as long as no tick falls
   between the drawing of a character and the step to the next (vga_putchar,
   fb_set_cursor, fb_cursor_tick). *)
NoGhost == Ready /\ crossings = 0 => underlined \subseteq {cur}

(* Up goes back through the lines entered, the last first and the oldest that
   there is room for last, and what is recalled is what is on the line until it
   is edited (history_push, history_get, readline). *)
HistoryRecalls ==
    /\ Len(recent) = history_count
    /\ \A i \in 0 .. history_count - 1 : HistoryGet(i) = recent[i + 1]
    /\ hist_idx >= 0 => buf_line = recent[hist_idx + 1]
=============================================================================

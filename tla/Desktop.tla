------------------------------ MODULE Desktop ------------------------------
(***************************************************************************)
(* The window manager (wm.c) over the pointer: windows, their order, the   *)
(* dragging of one, and the loop that handles one event of each kind per   *)
(* wake-up and repaints what needs it.  Interrupts come between any two    *)
(* steps of the loop.                                                      *)
(***************************************************************************)
EXTENDS Pointer, FiniteSets, Sequences, SequencesExt

CONSTANTS
    WM_MAX_WINDOWS,
    TASKBAR_H, TITLEBAR_H, CHROME_BTN,
    BtnArea,            \* width of the buttons in a title bar
    W, H,               \* size of the windows that are opened
    Places              \* where they are opened

Ids  == 0 .. WM_MAX_WINDOWS - 1
None == -1

ASSUME DesktopAssumption ==
    /\ WM_MAX_WINDOWS \in Nat \ {0}
    /\ {TASKBAR_H, TITLEBAR_H, CHROME_BTN, BtnArea, W, H} \subseteq Nat
    /\ CHROME_BTN < BtnArea /\ Centre \in Points
    /\ Places \subseteq Int \X Int

VARIABLES
    used,           \* the windows that are open, all of them visible
    rect,           \* window -> its upper left corner
    zo,             \* zo[1 .. nw]: the windows from the lowest to the top one
    drag_id, drag_off,
    prev_pos, prev_button,      \* prev_m
    wm_dirty, cursor_dirty,
    last_sec,       \* a second has passed since the taskbar was drawn
    pc,             \* the shell, or where wm_run is
    seen,           \* the position in the copy that mouse_get is making
    auto_flush,
    \* What is on the screen:
    stale,          \* the windows are not as they are shown
    torn,           \* a scene was shown half painted
    shown           \* where the pointer is shown, or None

windows == <<used, rect, zo>>
drag    == <<drag_id, drag_off>>
loop    == <<prev_pos, prev_button, wm_dirty, cursor_dirty, last_sec, pc, seen, auto_flush>>
display == <<stale, torn, shown>>
pointer == <<present, mouse, tablet>>
vars    == <<windows, drag, loop, display, pointer>>

nw     == Len(zo)
Origin == <<0, 0>>

TypeOK ==
    /\ PointerTypeOK
    /\ used \subseteq Ids /\ zo \in Seq(Ids) /\ nw <= WM_MAX_WINDOWS
    /\ rect \in [Ids -> Int \X Int] /\ drag_off \in Int \X Int
    /\ drag_id \in Ids \cup {None}
    /\ prev_pos \in Positions /\ seen \in Positions
    /\ {prev_button, wm_dirty, cursor_dirty, last_sec, auto_flush, stale, torn} \subseteq BOOLEAN
    /\ pc \in {"shell", "hlt", "mouse", "key", "draw", "paint", "flush", "reflush"}
    /\ shown \in Positions \cup {<<None, None>>}

Init ==
    /\ PointerInit
    /\ used = {} /\ rect = [i \in Ids |-> Origin] /\ zo = <<>>
    /\ drag_id = None /\ drag_off = Origin
    /\ prev_pos = Centre /\ prev_button = FALSE /\ wm_dirty = TRUE /\ cursor_dirty = TRUE
    /\ last_sec = FALSE /\ pc = "shell" /\ seen = Centre /\ auto_flush = TRUE
    /\ stale = FALSE /\ torn = FALSE /\ shown = <<None, None>>

-----------------------------------------------------------------------------
(* Geometry. *)
In(p, x, y, w, h) == p[1] >= x /\ p[1] < x + w /\ p[2] >= y /\ p[2] < y + h

Hit(p, i)      == In(p, rect[i][1], rect[i][2], W, H)
HitTitle(p, i) == In(p, rect[i][1] + 1, rect[i][2] + 1, W - 2 - BtnArea, TITLEBAR_H)
HitClose(p, i) ==
    In(p, rect[i][1] + W - 3 - CHROME_BTN,
       rect[i][2] + 1 + (TITLEBAR_H - CHROME_BTN) \div 2, CHROME_BTN, CHROME_BTN)

taskbar_y == HEIGHT - TASKBAR_H

(* A dragged window stays under the pointer, and between the top of the
   screen and the taskbar. *)
Dragged(p) ==
    LET y == p[2] - drag_off[2]
    IN  <<p[1] - drag_off[1],
          IF y < 0 THEN 0 ELSE IF y > taskbar_y - 4 THEN taskbar_y - 4 ELSE y>>

-----------------------------------------------------------------------------
(* wm_open, wm_close and wm_raise, on the windows.  What nobody reads again (the
   rectangle of a closed window, the offset of a drag that ended, a copy of the
   pointer that was used) is set to a fixed value. *)
Open(place) ==
    IF nw >= WM_MAX_WINDOWS \/ used = Ids THEN UNCHANGED windows
    ELSE LET id == CHOOSE i \in Ids \ used : \A j \in Ids \ used : i <= j
         IN  /\ used' = used \cup {id}
             /\ rect' = [rect EXCEPT ![id] = place]
             /\ zo' = Append(zo, id)

(* slip: a window that is closed while it is dragged stays the one
   dragged. *)
DragAfterCloseKept(id) == drag_id

DragAfterClose(id) == IF drag_id = id THEN None ELSE drag_id

Close(id) ==
    /\ used' = used \ {id}
    /\ zo' = RemoveFirst(zo, id)
    /\ drag_id' = DragAfterClose(id)
    /\ rect' = [rect EXCEPT ![id] = Origin]
    /\ drag_off' = IF drag_id' = None THEN Origin ELSE drag_off

Raise(id) == zo' = Append(RemoveFirst(zo, id), id) /\ UNCHANGED <<used, rect>>

Stales == stale' = (stale \/ windows' # windows)

-----------------------------------------------------------------------------
(* cmd_gui and the start of wm_run: the manager begins anew with one window,
   and the timer's flushing is paused. *)
Gui(place) ==
    /\ pc = "shell"
    /\ used' = {0} /\ zo' = <<0>> /\ rect' = [i \in Ids |-> IF i = 0 THEN place ELSE Origin]
    /\ drag_id' = None /\ prev_pos' = Centre /\ prev_button' = FALSE
    /\ wm_dirty' = TRUE /\ cursor_dirty' = TRUE /\ last_sec' = FALSE
    /\ auto_flush' = FALSE
    /\ pc' = "hlt"
    /\ stale' = TRUE
    /\ drag_off' = Origin
    /\ UNCHANGED <<seen, torn, shown, pointer>>

(* An interrupt ends the hlt.  mouse_get copies the position first and the
   buttons later; the mouse's interrupt may come between. *)
Wake ==
    /\ pc = "hlt"
    /\ Poll /\ seen' = pos'
    /\ pc' = "mouse"
    /\ UNCHANGED <<windows, drag, prev_pos, prev_button, wm_dirty, cursor_dirty,
                   last_sec, auto_flush, display>>

(* handle_mouse: a window that is dragged follows; else a press goes to the
   top window under the pointer: its close button, or it is raised and, by its
   title bar, dragged. *)
TopHit(p) == zo[SelectLastInSeq(zo, LAMBDA i : Hit(p, i))]

DragOn ==
    /\ drag_id # None
    /\ rect' = [rect EXCEPT ![drag_id] = Dragged(seen)]
    /\ drag_id' = IF ~button /\ prev_button THEN None ELSE drag_id
    /\ drag_off' = IF drag_id' = None THEN Origin ELSE drag_off
    /\ wm_dirty' = TRUE
    /\ UNCHANGED <<used, zo>>

Press ==
    /\ drag_id = None /\ button /\ ~prev_button
    /\ \E i \in used : Hit(seen, i)
    /\ LET id == TopHit(seen)
       IN  IF HitClose(seen, id) THEN Close(id)
           ELSE /\ Raise(id)
                /\ IF HitTitle(seen, id)
                   THEN /\ drag_id' = id
                        /\ drag_off' = <<seen[1] - rect[id][1], seen[2] - rect[id][2]>>
                   ELSE UNCHANGED drag
    /\ wm_dirty' = TRUE

NoPress ==
    /\ drag_id = None
    /\ ~(button /\ ~prev_button /\ \E i \in used : Hit(seen, i))
    /\ wm_dirty' = (wm_dirty \/ button # prev_button)
    /\ UNCHANGED <<windows, drag>>

HandleMouse ==
    /\ pc = "mouse"
    /\ DragOn \/ Press \/ NoPress
    /\ cursor_dirty' = (cursor_dirty \/ seen # prev_pos)
    /\ prev_pos' = seen /\ prev_button' = button
    /\ seen' = Centre
    /\ pc' = "key"
    /\ Stales
    /\ UNCHANGED <<last_sec, auto_flush, torn, shown, pointer>>

(* handle_key: no key, or the top window's handler runs, which is not part of
   the manager and may call its interface. *)
NoKey ==
    /\ pc = "key"
    /\ pc' = "draw"
    /\ UNCHANGED <<windows, drag, prev_pos, prev_button, wm_dirty, cursor_dirty,
                   last_sec, seen, auto_flush, display, pointer>>

Handler ==
    \/ UNCHANGED <<windows, drag>>
    \/ \E place \in Places : Open(place) /\ UNCHANGED drag
    \/ \E id \in used : Close(id)
    \/ \E id \in used : Raise(id) /\ UNCHANGED drag

(* slip: what the handler did is not marked for painting. *)
DirtyAfterKeyNot == wm_dirty

DirtyAfterKey == TRUE

Key ==
    /\ pc = "key" /\ zo # <<>>
    /\ Handler
    /\ wm_dirty' = DirtyAfterKey
    /\ pc' = "draw"
    /\ Stales
    /\ UNCHANGED <<prev_pos, prev_button, cursor_dirty, last_sec, seen, auto_flush,
                   torn, shown, pointer>>

(* The end of a round: back to hlt, or out of wm_run after the last window. *)
Round ==
    /\ pc' = IF zo = <<>> THEN "shell" ELSE "hlt"
    /\ auto_flush' = (zo = <<>>)

(* slip: the clock on the taskbar is not repainted every second. *)
DirtyNowNoClock == wm_dirty

DirtyNow == wm_dirty \/ last_sec

Draw ==
    /\ pc = "draw"
    /\ last_sec' = FALSE
    /\ Poll
    /\ seen' = IF DirtyNow \/ cursor_dirty THEN pos' ELSE Centre
    /\ \/ /\ DirtyNow
          /\ wm_dirty' = FALSE /\ cursor_dirty' = FALSE
          /\ pc' = "paint" /\ UNCHANGED auto_flush
       \/ /\ ~DirtyNow /\ cursor_dirty
          /\ cursor_dirty' = FALSE
          /\ pc' = "reflush" /\ UNCHANGED <<wm_dirty, auto_flush>>
       \/ /\ ~DirtyNow /\ ~cursor_dirty
          /\ Round /\ UNCHANGED <<wm_dirty, cursor_dirty>>
    /\ UNCHANGED <<windows, drag, prev_pos, prev_button, display>>

(* wm_render fills the back buffer; then it is copied to the screen, and the
   pointer drawn on top. *)
Paint ==
    /\ pc = "paint"
    /\ pc' = "flush"
    /\ UNCHANGED <<windows, drag, prev_pos, prev_button, wm_dirty, cursor_dirty,
                   last_sec, seen, auto_flush, display, pointer>>

Flush ==
    /\ pc \in {"flush", "reflush"}
    /\ stale' = (stale /\ pc = "reflush")
    /\ torn' = FALSE /\ shown' = seen /\ seen' = Centre
    /\ Round
    /\ UNCHANGED <<windows, drag, prev_pos, prev_button, wm_dirty, cursor_dirty,
                   last_sec, pointer>>

(* The timer interrupt: the back buffer is copied as it is, unless paused; the
   seconds count on. *)
TimerFlush ==
    /\ auto_flush
    /\ torn' = (pc = "paint") /\ shown' = <<None, None>>
    /\ UNCHANGED <<windows, drag, loop, stale, pointer>>

Second ==
    /\ pc # "shell" /\ ~last_sec
    /\ last_sec' = TRUE
    /\ UNCHANGED <<windows, drag, prev_pos, prev_button, wm_dirty, cursor_dirty, pc,
                   seen, auto_flush, display, pointer>>

PointerMoves ==
    /\ \/ \E d \in Motions, b \in BOOLEAN : MousePacket(d, b)
       \/ \E r \in Reports : TabletReport(r)
       \/ TabletError
    /\ UNCHANGED <<windows, drag, loop, display>>

LoopStep == Wake \/ HandleMouse \/ NoKey \/ Key \/ Draw \/ Paint \/ Flush

Next ==
    \/ \E place \in Places : Gui(place)
    \/ LoopStep
    \/ TimerFlush \/ Second \/ PointerMoves

(* The loop is the only foreground, every hlt ends with the next timer
   interrupt, and seconds pass.  Nobody need move the pointer or press a key. *)
Fairness == WF_vars(LoopStep) /\ WF_vars(Second)

Spec == Init /\ [][Next]_vars /\ Fairness

-----------------------------------------------------------------------------
(* The stacking order holds the open windows, each once, and the window being
   dragged is one of them, with the button still down when last looked at:
   also when a key's handler opens, closes or raises windows in the middle of a
   drag (wm_open, wm_close, wm_raise, handle_mouse). *)
StackSound ==
    /\ IsInjective(zo) /\ ToSet(zo) = used
    /\ drag_id # None => drag_id \in used /\ prev_button

(* Whenever the loop sleeps, the windows are on the screen as they are or will
   be painted next, and no half-painted scene was shown meanwhile (wm_dirty,
   render_pause_auto). *)
ShownIsCurrent ==
    /\ pc = "hlt" => ~stale \/ wm_dirty
    /\ pc # "shell" => ~torn

(* When the pointer rests it is shown where it is in the end, though a motion
   between the two looks a round takes at it goes unnoticed (handle_mouse,
   wm_run). *)
CursorSettles ==
    \/ []<><<pos' # pos>>_pos
    \/ []<>(pc = "shell")
    \/ <>[](shown = pos)
=============================================================================

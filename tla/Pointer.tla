------------------------------ MODULE Pointer ------------------------------
(***************************************************************************)
(* Where the pointer is: the PS/2 mouse, read by its interrupt (mouse.c),  *)
(* or the USB tablet, whose reports the host controller stores and         *)
(* mouse_get fetches (usb_tablet.c).  A tablet, once found, keeps the      *)
(* mouse out.                                                              *)
(*                                                                         *)
(* A packet of the mouse is taken as a whole, at its third byte.  Only the *)
(* left button is modelled.                                                *)
(***************************************************************************)
EXTENDS Integers

CONSTANTS
    WIDTH, HEIGHT,      \* of the screen
    Motions,            \* <<dx, dy>> of the mouse's packets
    Points              \* bound: where motions and reports put the pointer

ASSUME PointerAssumption ==
    /\ WIDTH \in Nat \ {0} /\ HEIGHT \in Nat \ {0}
    /\ Motions \subseteq (-255 .. 255) \X (-255 .. 255)
    /\ Points \subseteq (0 .. WIDTH - 1) \X (0 .. HEIGHT - 1)

VARIABLES
    present,        \* g_present: usb_tablet_init found a tablet
    pos, button,    \* state of mouse.c
    td_active,      \* the status of intr_td: the controller has it
    in_step,        \* the data toggle in its token is that of the next report
    tablet_buf      \* the last report stored

mouse  == <<pos, button>>
tablet == <<td_active, in_step, tablet_buf>>

Reports == [at : Points, button : BOOLEAN]

(* The zeroed buffer reads as the corner. *)
Corner == <<0, 0>>
Positions == Points \cup {Corner}

PointerTypeOK ==
    /\ present \in BOOLEAN /\ td_active \in BOOLEAN /\ button \in BOOLEAN
    /\ pos \in Positions /\ in_step \in BOOLEAN
    /\ tablet_buf \in [at : Positions, button : BOOLEAN]

Centre == <<WIDTH \div 2, HEIGHT \div 2>>

PointerInit ==
    /\ present \in BOOLEAN
    /\ pos = Centre /\ button = FALSE
    /\ td_active = TRUE /\ in_step = TRUE
    /\ tablet_buf = [at |-> Corner, button |-> FALSE]

Clamp(v, size) == IF v < 0 THEN 0 ELSE IF v >= size THEN size - 1 ELSE v

(* mouse_irq; a packet with an overflow bit, and any while there is a tablet,
   is dropped. *)
MousePacket(d, b) ==
    /\ ~present
    /\ pos' = <<Clamp(pos[1] + d[1], WIDTH), Clamp(pos[2] - d[2], HEIGHT)>>
    /\ pos' \in Points
    /\ button' = b
    /\ UNCHANGED <<present, tablet>>

(* The controller and the tablet (external): a report is stored when the
   toggles agree, and acknowledged and lost when they do not, and the tablet's
   toggle changes; a transfer that fails takes the descriptor from the
   controller all the same, and what the buffer holds is taken for a report:
   the last one again, or none at all. *)
TabletReport(r) ==
    /\ present /\ td_active
    /\ IF in_step
       THEN tablet_buf' = r /\ td_active' = FALSE
       ELSE UNCHANGED <<tablet_buf, td_active>>
    /\ in_step' = ~in_step
    /\ UNCHANGED <<present, mouse>>

TabletError ==
    /\ present /\ td_active
    /\ td_active' = FALSE
    /\ UNCHANGED <<present, mouse, in_step, tablet_buf>>

(* mouse_get, up to the copy of its result: with a tablet, usb_tablet_get
   takes what is stored, failed or not, and arms the descriptor again. *)
Poll ==
    /\ IF present /\ ~td_active
       THEN /\ pos' = tablet_buf.at /\ button' = tablet_buf.button
            /\ in_step' = ~in_step /\ td_active' = TRUE
       ELSE UNCHANGED <<mouse, in_step, td_active>>
    /\ UNCHANGED <<present, tablet_buf>>
=============================================================================

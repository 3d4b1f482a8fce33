------------------------------- MODULE E1000 -------------------------------
(***************************************************************************)
(* The network card's driver (e1000.c) and the card, which work on two     *)
(* rings of descriptors at the same time.  The driver polls: a descriptor  *)
(* is the card's from the write of the tail register to the card's write   *)
(* of the DD bit.  The driver is one thread of control, so it is in at     *)
(* most one call; the card takes a step whenever it can.                   *)
(***************************************************************************)
EXTENDS Integers, Sequences, FiniteSets

CONSTANTS
    NUM_TX, NUM_RX,     \* descriptors in each ring
    Frames,             \* the contents a frame may have
    NoFrame

ASSUME RingSizes == NUM_TX \in Nat \ {0} /\ NUM_RX \in Nat \ {0, 1}

TxSlots == 0 .. NUM_TX - 1
RxSlots == 0 .. NUM_RX - 1

VARIABLES
    ready,      \* e1000_init found a card and set it up
    txDD,       \* slot -> the DD bit of its descriptor
    tx_buf,     \* slot -> the frame in its buffer
    tx_tail, TDT, TDH,
    written,    \* transmitted slots whose DD bit the card has yet to write
    wire,       \* the last frame the card put on the wire
    rxDD, rx_buf, rx_tail, RDT, RDH,
    storing,    \* the card has written a buffer and not yet its DD bit
    pc,         \* where the driver is
    frame,      \* the frame of the call in progress
    received    \* the last frame e1000_recv handed to its caller

txVars  == <<txDD, tx_buf, tx_tail, TDT, TDH, written, wire>>
rxVars  == <<rxDD, rx_buf, rx_tail, RDT, RDH, storing>>
call    == <<pc, frame, received>>
vars    == <<ready, txVars, rxVars, call>>

TypeOK ==
    /\ ready \in BOOLEAN
    /\ txDD \in [TxSlots -> BOOLEAN] /\ rxDD \in [RxSlots -> BOOLEAN]
    /\ tx_buf \in [TxSlots -> Frames \cup {NoFrame}]
    /\ rx_buf \in [RxSlots -> Frames \cup {NoFrame}]
    /\ {tx_tail, TDT, TDH} \subseteq TxSlots
    /\ {rx_tail, RDT, RDH} \subseteq RxSlots
    /\ written \in Seq(TxSlots)
    /\ storing \in BOOLEAN
    /\ pc \in {"idle", "wait", "filled", "copied", "returned"}
    /\ {wire, frame, received} \subseteq Frames \cup {NoFrame}

TxNext(s) == (s + 1) % NUM_TX
RxNext(s) == (s + 1) % NUM_RX

(* .bss, and the card before it is set up. *)
Init ==
    /\ ready = FALSE
    /\ txDD = [s \in TxSlots |-> FALSE] /\ rxDD = [s \in RxSlots |-> FALSE]
    /\ tx_buf = [s \in TxSlots |-> NoFrame] /\ rx_buf = [s \in RxSlots |-> NoFrame]
    /\ tx_tail = 0 /\ TDT = 0 /\ TDH = 0 /\ written = <<>> /\ wire = NoFrame
    /\ rx_tail = 0 /\ RDT = 0 /\ RDH = 0 /\ storing = FALSE
    /\ pc = "idle" /\ frame = NoFrame /\ received = NoFrame

(* slip: the receive tail register starts at 0, not at rx_tail. *)
FirstRDTZero == 0

FirstRDT == NUM_RX - 1

(* e1000_init: the transmit descriptors start done, the receive descriptors
   start with the card, all but the one at the tail. *)
E1000Init ==
    /\ ~ready
    /\ ready' = TRUE
    /\ txDD' = [s \in TxSlots |-> TRUE]
    /\ tx_tail' = 0 /\ TDH' = 0 /\ TDT' = 0
    /\ rxDD' = [s \in RxSlots |-> FALSE]
    /\ rx_tail' = NUM_RX - 1 /\ RDH' = 0 /\ RDT' = FirstRDT
    /\ UNCHANGED <<tx_buf, written, wire, rx_buf, storing, call>>

-----------------------------------------------------------------------------
(* e1000_send: wait for the descriptor at the tail, give up after so many
   looks, or fill it; then ring the doorbell. *)
(* slip: the driver does not wait; the doorbell names the descriptor
   just filled instead of the one after it. *)
TailFreeAlways == TRUE
DoorbellLast   == (tx_tail + NUM_TX - 1) % NUM_TX

TailFree == txDD[tx_tail]
Doorbell == tx_tail

SendBegin(f) ==
    /\ ready /\ pc = "idle"
    /\ pc' = "wait" /\ frame' = f
    /\ UNCHANGED <<ready, txVars, rxVars, received>>

SendGiveUp ==
    /\ pc = "wait" /\ ~TailFree
    /\ pc' = "idle" /\ frame' = NoFrame
    /\ UNCHANGED <<ready, txVars, rxVars, received>>

SendFill ==
    /\ pc = "wait" /\ TailFree
    /\ tx_buf' = [tx_buf EXCEPT ![tx_tail] = frame]
    /\ txDD' = [txDD EXCEPT ![tx_tail] = FALSE]
    /\ tx_tail' = TxNext(tx_tail)
    /\ pc' = "filled" /\ frame' = NoFrame
    /\ UNCHANGED <<ready, TDT, TDH, written, wire, rxVars, received>>

SendRing ==
    /\ pc = "filled"
    /\ TDT' = Doorbell
    /\ pc' = "idle"
    /\ UNCHANGED <<ready, txDD, tx_buf, tx_tail, TDH, written, wire, rxVars,
                   frame, received>>

(* The card: what lies from its head to the tail register is to be sent;
   head and tail together mean there is nothing. *)
CardSend ==
    /\ ready /\ TDH # TDT
    /\ wire' = tx_buf[TDH]
    /\ TDH' = TxNext(TDH)
    /\ written' = Append(written, TDH)
    /\ UNCHANGED <<ready, txDD, tx_buf, tx_tail, TDT, rxVars, call>>

CardSent ==
    /\ written # <<>>
    /\ txDD' = [txDD EXCEPT ![Head(written)] = TRUE]
    /\ written' = Tail(written)
    /\ UNCHANGED <<ready, tx_buf, tx_tail, TDT, TDH, wire, rxVars, call>>

-----------------------------------------------------------------------------
(* e1000_recv: the descriptor after the tail, when the card has done it, is
   copied out and becomes the new tail. *)
(* slip: the DD bit is not looked at. *)
RecvReadyAlways == TRUE

RecvHead  == RxNext(rx_tail)
RecvReady == rxDD[RecvHead]

RecvCopy ==
    /\ ready /\ pc = "idle" /\ RecvReady
    /\ frame' = rx_buf[RecvHead]
    /\ pc' = "copied"
    /\ UNCHANGED <<ready, txVars, rxVars, received>>

RecvReturn ==
    /\ pc = "copied"
    /\ rxDD' = [rxDD EXCEPT ![RecvHead] = FALSE]
    /\ rx_tail' = RecvHead
    /\ received' = frame /\ frame' = NoFrame
    /\ pc' = "returned"
    /\ UNCHANGED <<ready, txVars, rx_buf, RDT, RDH, storing>>

RecvRing ==
    /\ pc = "returned"
    /\ RDT' = rx_tail
    /\ pc' = "idle"
    /\ UNCHANGED <<ready, txVars, rxDD, rx_buf, rx_tail, RDH, storing, frame, received>>

(* The card: a frame off the wire goes to the head, in two steps; with the
   head at the tail register the ring is full and the frame is lost. *)
RxFull == RDH = RDT

CardStore(f) ==
    /\ ready /\ ~storing /\ ~RxFull
    /\ rx_buf' = [rx_buf EXCEPT ![RDH] = f]
    /\ storing' = TRUE
    /\ UNCHANGED <<ready, txVars, rxDD, rx_tail, RDT, RDH, call>>

CardStored ==
    /\ storing
    /\ rxDD' = [rxDD EXCEPT ![RDH] = TRUE]
    /\ RDH' = RxNext(RDH)
    /\ storing' = FALSE
    /\ UNCHANGED <<ready, txVars, rx_buf, rx_tail, RDT, call>>

-----------------------------------------------------------------------------
Driver ==
    \/ E1000Init
    \/ \E f \in Frames : SendBegin(f)
    \/ SendGiveUp \/ SendFill \/ SendRing
    \/ RecvCopy \/ RecvReturn \/ RecvRing

Card ==
    \/ CardSend \/ CardSent
    \/ \E f \in Frames : CardStore(f)
    \/ CardStored

Next == Driver \/ Card

(* A card that is set up works off its ring; a call that has filled a
   descriptor goes on to the doorbell.  Nobody need call the driver. *)
Fairness == WF_vars(CardSend) /\ WF_vars(CardSent) /\ WF_vars(SendRing)

Spec == Init /\ [][Next]_vars /\ Fairness

-----------------------------------------------------------------------------
(* The slots that the card has yet to send, and those nobody has read. *)
Unsent ==
    {s \in TxSlots : ready /\ ~txDD[s] /\ \A k \in DOMAIN written : written[k] # s}

Unread == {s \in RxSlots : rxDD[s]}

(* The frames in as many slots, from where the card sends and the driver
   reads next. *)
TxQueue ==
    [k \in 1 .. Cardinality(Unsent) |-> tx_buf[(TDH + (k - 1)) % NUM_TX]]

RxQueue ==
    [k \in 1 .. Cardinality(Unread) |-> rx_buf[(RecvHead + (k - 1)) % NUM_RX]]

(* All descriptors were filled before the card sent one: the tail register
   reached the card's head, which the card reads as an empty ring. *)
Wedged == Len(TxQueue) = NUM_TX /\ TDH = TDT

Tx == INSTANCE FrameQueue WITH queue <- TxQueue, out <- wire, Capacity <- NUM_TX
Rx == INSTANCE FrameQueue WITH queue <- RxQueue, out <- received, Capacity <- NUM_RX - 1

(* Every frame for which e1000_send returned 0 goes on the wire at most once,
   unchanged and in the order of the calls, whatever the card has done when
   the tail comes round (e1000_send). *)
SentInOrder == Tx!Spec

(* e1000_recv returns the frames the card stored, each once, whole and in
   their order, though the card fills other buffers meanwhile (e1000_recv). *)
ReceivedInOrder == Rx!Spec

(* The card drops frames only while all the descriptors it may have hold
   frames nobody has read, or while a call is giving one back: no legal
   sequence of calls leaves the ring full for good (e1000_init, e1000_recv). *)
FullOnlyOfUnread ==
    ready /\ RxFull => Len(RxQueue) = NUM_RX - 1 \/ pc = "returned"

(* A descriptor that e1000_send handed over comes back, so the wait for it
   ends, unless the ring was filled to the last descriptor (e1000_send). *)
DescriptorReturns ==
    \A s \in TxSlots : (ready /\ ~txDD[s]) ~> (txDD[s] \/ Wedged)

=============================================================================

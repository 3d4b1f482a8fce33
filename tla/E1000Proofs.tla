---------------------------- MODULE E1000Proofs ----------------------------
(***************************************************************************)
(* The rings of the network card, for rings of any size and frames of any  *)
(* content: each is a bounded queue whatever driver and card do between    *)
(* one another's steps, and the receive ring never stays full by itself.   *)
(***************************************************************************)
EXTENDS E1000, FiniteSetTheorems, SequenceTheorems, TLAPS

(***************************************************************************)
(* Rings of n slots                                                        *)
(***************************************************************************)

(* How many steps forward it is from slot a to slot b. *)
Dist(n, a, b) == IF a <= b THEN b - a ELSE b - a + n

(* One step forward, and one step forward of either end. *)
LEMMA RingStep ==
    ASSUME NEW n \in Nat \ {0}, NEW a \in 0 .. n - 1, NEW b \in 0 .. n - 1
    PROVE  /\ (a + 1) % n = IF a = n - 1 THEN 0 ELSE a + 1
           /\ (a + 1) % n \in 0 .. n - 1
           /\ Dist(n, a, b) \in 0 .. n - 1
           /\ Dist(n, a, b) = 0 <=> a = b
           /\ Dist(n, a, (b + 1) % n)
                = IF Dist(n, a, b) = n - 1 THEN 0 ELSE Dist(n, a, b) + 1
           /\ Dist(n, (a + 1) % n, b)
                = IF a = b THEN n - 1 ELSE Dist(n, a, b) - 1
  <1>1. (a + 1) % n = IF a = n - 1 THEN 0 ELSE a + 1  OBVIOUS
  <1>2. (b + 1) % n = IF b = n - 1 THEN 0 ELSE b + 1  OBVIOUS
  <1> QED  BY <1>1, <1>2 DEF Dist

(* A slot is known by its distance. *)
LEMMA RingSame ==
    ASSUME NEW n \in Nat \ {0}, NEW a \in 0 .. n - 1,
           NEW b \in 0 .. n - 1, NEW c \in 0 .. n - 1,
           Dist(n, a, b) = Dist(n, a, c)
    PROVE  b = c
  BY DEF Dist

(* Many steps forward. *)
LEMMA RingAt ==
    ASSUME NEW n \in Nat \ {0}, NEW a \in 0 .. n - 1, NEW k \in 0 .. n - 1
    PROVE  /\ (a + k) % n \in 0 .. n - 1
           /\ Dist(n, a, (a + k) % n) = k
           /\ \A b \in 0 .. n - 1 : Dist(n, a, b) = k => b = (a + k) % n
           /\ k < n - 1 => (((a + 1) % n) + k) % n = (a + (k + 1)) % n
  <1>1. (a + k) % n = IF a + k < n THEN a + k ELSE a + k - n
    <2>1. CASE a + k < n  BY <2>1
    <2>2. CASE a + k >= n  BY <2>2
    <2> QED  BY <2>1, <2>2
  <1>2. (a + (k + 1)) % n = IF a + (k + 1) < n THEN a + (k + 1) ELSE a + (k + 1) - n
    <2>1. CASE a + (k + 1) < n  BY <2>1
    <2>2. CASE a + (k + 1) >= n /\ a + (k + 1) < 2 * n  BY <2>2
    <2>3. CASE a + (k + 1) = 2 * n  BY <2>3
    <2> QED  BY <2>1, <2>2, <2>3
  <1> QED  BY <1>1 DEF Dist

(***************************************************************************)
(* Queues                                                                  *)
(***************************************************************************)

(* A queue that is one longer and agrees where both have elements. *)
LEMMA QueuePut ==
    ASSUME NEW S, NEW n \in Nat,
           NEW p \in [1 .. n -> S], NEW q \in [1 .. n + 1 -> S],
           \A k \in 1 .. n : q[k] = p[k]
    PROVE  q = Append(p, q[n + 1]) /\ Len(p) = n
  OBVIOUS

(* A queue that is one shorter and agrees one place further on. *)
LEMMA QueueGet ==
    ASSUME NEW S, NEW n \in Nat \ {0},
           NEW p \in [1 .. n -> S], NEW q \in [1 .. n - 1 -> S],
           \A k \in 1 .. n - 1 : q[k] = p[k + 1]
    PROVE  p # <<>> /\ q = Tail(p) /\ Head(p) = p[1] /\ Len(p) = n
  <1>1. p \in Seq(S) /\ Len(p) = n /\ q \in Seq(S) /\ Len(q) = n - 1
    OBVIOUS
  <1>2. p # <<>>  BY <1>1
  <1>3. q = Tail(p)  BY <1>1, <1>2, HeadTailProperties, SeqEqual
  <1> QED  BY <1>1, <1>2, <1>3

(***************************************************************************)
(* Types                                                                   *)
(***************************************************************************)

(* The next slot is a slot. *)
LEMMA SlotsClosed ==
    /\ \A s \in TxSlots : TxNext(s) \in TxSlots
    /\ \A s \in RxSlots : RxNext(s) \in RxSlots
    /\ 0 \in TxSlots /\ 0 \in RxSlots /\ NUM_RX - 1 \in RxSlots
  <1>1. ASSUME NEW n \in Nat \ {0}, NEW s \in 0 .. n - 1
        PROVE  (s + 1) % n \in 0 .. n - 1
    BY RingStep
  <1>2. NUM_TX \in Nat \ {0} /\ NUM_RX \in Nat \ {0}
    BY RingSizes DEF RingSizes
  <1> QED  BY <1>1, <1>2 DEF TxSlots, RxSlots, TxNext, RxNext

(* Every variable keeps its type (e1000.c). *)
THEOREM TypeCorrect == Spec => []TypeOK
  <1>1. Init => TypeOK
    BY SlotsClosed DEF Init, TypeOK
  <1>2. TypeOK /\ [Next]_vars => TypeOK'
    <2> SUFFICES ASSUME TypeOK, [Next]_vars PROVE TypeOK'  OBVIOUS
    <2> USE SlotsClosed DEF TypeOK, txVars, rxVars, call
    <2>1. CASE E1000Init  BY <2>1 DEF E1000Init, FirstRDT
    <2>2. CASE \E f \in Frames : SendBegin(f)  BY <2>2 DEF SendBegin
    <2>3. CASE SendGiveUp  BY <2>3 DEF SendGiveUp
    <2>4. CASE SendFill  BY <2>4 DEF SendFill
    <2>5. CASE SendRing  BY <2>5 DEF SendRing, Doorbell
    <2>6. CASE RecvCopy  BY <2>6 DEF RecvCopy, RecvHead
    <2>7. CASE RecvReturn  BY <2>7 DEF RecvReturn, RecvHead
    <2>8. CASE RecvRing  BY <2>8 DEF RecvRing
    <2>9. CASE CardSend  BY <2>9 DEF CardSend
    <2>10. CASE CardSent
      <3>1. Head(written) \in TxSlots /\ Tail(written) \in Seq(TxSlots)
        BY <2>10 DEF CardSent
      <3> QED  BY <2>10, <3>1 DEF CardSent
    <2>11. CASE \E f \in Frames : CardStore(f)
      <3>1. PICK f \in Frames : CardStore(f)  BY <2>11
      <3> QED  BY <3>1 DEF CardStore
    <2>12. CASE CardStored  BY <2>12 DEF CardStored
    <2>13. CASE UNCHANGED vars  BY <2>13 DEF vars
    <2> QED
      BY <2>1, <2>2, <2>3, <2>4, <2>5, <2>6, <2>7, <2>8, <2>9, <2>10, <2>11,
         <2>12, <2>13 DEF Next, Driver, Card
  <1> QED  BY <1>1, <1>2, PTL DEF Spec

(***************************************************************************)
(* The receive ring                                                        *)
(***************************************************************************)

(* The unread slots lie in a row from the one the driver reads next up to the
   card's head.  One slot stays the driver's; a frame being stored and a slot
   being given back need room too. *)
RxRow ==
    \A s \in RxSlots : rxDD[s] <=> Dist(NUM_RX, RecvHead, s) < Cardinality(Unread)

RxRoom ==
    Cardinality(Unread) + (IF storing THEN 1 ELSE 0)
      + (IF pc = "returned" THEN 1 ELSE 0) <= NUM_RX - 1

RxInv ==
    /\ RxRow /\ RxRoom
    /\ ready => /\ Dist(NUM_RX, RecvHead, RDH) = Cardinality(Unread)
                /\ rx_tail = IF pc = "returned" THEN RxNext(RDT) ELSE RDT
    /\ ~ready => Unread = {} /\ ~storing /\ pc = "idle"
    /\ pc = "copied" => rxDD[RecvHead] /\ frame = rx_buf[RecvHead]
    /\ storing => rx_buf[RDH] \in Frames

LEMMA RxRing ==
    ASSUME NEW a \in RxSlots, NEW b \in RxSlots
    PROVE  /\ NUM_RX \in Nat \ {0, 1}
           /\ Dist(NUM_RX, a, b) \in 0 .. NUM_RX - 1
           /\ Dist(NUM_RX, a, b) = 0 <=> a = b
           /\ Dist(NUM_RX, a, RxNext(b))
                = IF Dist(NUM_RX, a, b) = NUM_RX - 1 THEN 0
                  ELSE Dist(NUM_RX, a, b) + 1
           /\ Dist(NUM_RX, RxNext(a), b)
                = IF a = b THEN NUM_RX - 1 ELSE Dist(NUM_RX, a, b) - 1
  <1>1. /\ NUM_RX \in Nat \ {0, 1} /\ NUM_RX \in Nat \ {0}
        /\ a \in 0 .. NUM_RX - 1 /\ b \in 0 .. NUM_RX - 1
    BY RingSizes DEF RingSizes, RxSlots
  <1> QED  BY ONLY <1>1, RingStep DEF RxNext

(* Storing a frame into the ring, and giving a slot back. *)
LEMMA UnreadCount ==
    ASSUME TypeOK, NEW s \in RxSlots
    PROVE  /\ Cardinality(Unread) \in Nat
           /\ rxDD' = [rxDD EXCEPT ![s] = TRUE] /\ ~rxDD[s]
                => Cardinality(Unread') = Cardinality(Unread) + 1
           /\ rxDD' = [rxDD EXCEPT ![s] = FALSE] /\ rxDD[s]
                => Cardinality(Unread') = Cardinality(Unread) - 1
  <1>1. IsFiniteSet(Unread)
    <2>1. IsFiniteSet(RxSlots)
      BY RingSizes, FS_Interval DEF RingSizes, RxSlots
    <2> QED  BY <2>1, FS_Subset DEF Unread
  <1>2. rxDD' = [rxDD EXCEPT ![s] = TRUE] => Unread' = Unread \cup {s}
    BY DEF Unread, TypeOK
  <1>3. rxDD' = [rxDD EXCEPT ![s] = FALSE] => Unread' = Unread \ {s}
    BY DEF Unread, TypeOK
  <1>4. s \in Unread <=> rxDD[s]  BY DEF Unread
  <1> QED
    BY <1>1, <1>2, <1>3, <1>4, FS_AddElement, FS_RemoveElement,
       FS_CardinalityType

LEMMA RxInvHolds == Spec => []RxInv
  <1>1. Init => RxInv
    <2> SUFFICES ASSUME Init PROVE RxInv  OBVIOUS
    <2>1. Unread = {} /\ Cardinality(Unread) = 0
      BY FS_EmptySet DEF Init, Unread
    <2>2. RecvHead \in RxSlots  BY SlotsClosed DEF Init, RecvHead
    <2>3. \A s \in RxSlots : Dist(NUM_RX, RecvHead, s) \in Nat
      BY <2>2, RingSizes, RingStep DEF RingSizes, RxSlots
    <2> QED
      BY <2>1, <2>3, RingSizes DEF Init, RxInv, RxRow, RxRoom, RingSizes
  <1>2. TypeOK /\ RxInv /\ [Next]_vars => RxInv'
    <2> SUFFICES ASSUME TypeOK, RxInv, [Next]_vars PROVE RxInv'  OBVIOUS
    <2>0. /\ NUM_RX \in Nat \ {0, 1} /\ Cardinality(Unread) \in Nat
          /\ RDH \in RxSlots /\ RDT \in RxSlots /\ rx_tail \in RxSlots
          /\ RecvHead \in RxSlots
      BY RingSizes, UnreadCount, SlotsClosed DEF TypeOK, RingSizes, RecvHead
    <2>1. CASE E1000Init
      <3>1. Unread' = {} /\ Cardinality(Unread') = 0
        BY <2>1, FS_EmptySet DEF E1000Init, Unread
      <3>2. RecvHead' = 0
        BY <2>1, <2>0 DEF E1000Init, RecvHead, RxNext
      <3>3. \A s \in RxSlots : Dist(NUM_RX, 0, s) \in Nat
        BY SlotsClosed, <2>0, RingStep DEF RxSlots
      <3>4. Dist(NUM_RX, 0, 0) = 0  BY DEF Dist
      <3> QED
        BY <2>1, <3>1, <3>2, <3>3, <3>4, <2>0
           DEF E1000Init, FirstRDT, RxInv, RxRow, RxRoom, call
    <2>2. CASE RecvCopy
      BY <2>2 DEF RecvCopy, RxInv, RxRow, RxRoom, RecvHead, RecvReady, Unread,
         rxVars
    <2>3. CASE RecvReturn
      <3>1. rxDD[RecvHead] /\ ready  BY <2>3 DEF RecvReturn, RxInv
      <3>2. Cardinality(Unread') = Cardinality(Unread) - 1
        BY <2>3, <3>1, <2>0, UnreadCount DEF RecvReturn
      <3>3. RecvHead' = RxNext(RecvHead)  BY <2>3 DEF RecvReturn, RecvHead
      <3>4. Cardinality(Unread) > 0
        BY <3>1, <2>0, RxRing DEF RxInv, RxRow
      <3>5. RxRow'
        <4> SUFFICES ASSUME NEW s \in RxSlots
                     PROVE  rxDD'[s] <=> Dist(NUM_RX, RecvHead', s)
                                           < Cardinality(Unread')
          BY DEF RxRow
        <4>1. Dist(NUM_RX, RecvHead', s)
                = IF RecvHead = s THEN NUM_RX - 1
                  ELSE Dist(NUM_RX, RecvHead, s) - 1
          BY <3>3, <2>0, RxRing
        <4>2. rxDD'[s] <=> rxDD[s] /\ s # RecvHead
          BY <2>3, <2>0 DEF RecvReturn, TypeOK
        <4>3. Cardinality(Unread) <= NUM_RX - 1
          BY <2>0 DEF RxInv, RxRoom
        <4>4. Dist(NUM_RX, RecvHead, s) \in Nat
          BY <2>0, RingStep DEF RxSlots
        <4> QED
          BY <4>1, <4>2, <4>3, <4>4, <3>2, <2>0 DEF RxInv, RxRow
      <3>6. RxRoom'
        BY <2>3, <3>2, <2>0 DEF RecvReturn, RxInv, RxRoom, TypeOK
      <3>7. Dist(NUM_RX, RecvHead', RDH) = Dist(NUM_RX, RecvHead, RDH) - 1
        <4>1. RecvHead # RDH
          BY <3>1, <3>4, <2>0, RingStep DEF RxInv, RxSlots
        <4> QED  BY <4>1, <3>3, <2>0, RingStep DEF RxSlots, RxNext
      <3> QED
        BY <2>3, <3>1, <3>2, <3>5, <3>6, <3>7
           DEF RecvReturn, RxInv, RecvHead
    <2>4. CASE RecvRing
      BY <2>4, <2>0 DEF RecvRing, RxInv, RxRow, RxRoom, RecvHead, Unread, txVars
    <2>5. CASE \E f \in Frames : CardStore(f)
      <3>1. PICK f \in Frames : CardStore(f)  BY <2>5
      <3>2. /\ ready /\ ~storing /\ RDH # RDT
            /\ UNCHANGED <<ready, rxDD, rx_tail, RDT, RDH, pc, frame>>
            /\ storing' = TRUE
        BY <3>1 DEF CardStore, RxFull, call
      <3>3. RecvHead' = RecvHead /\ Unread' = Unread
        BY <3>2 DEF RecvHead, Unread
      <3>4. pc = "copied" => rx_buf'[RecvHead] = rx_buf[RecvHead]
        <4>1. pc = "copied" => RDH # RecvHead
          BY <3>2, <2>0, RxRing DEF RxInv, RxRow
        <4> QED  BY <3>1, <4>1, <2>0 DEF CardStore, TypeOK
      <3>5. RxRoom'
        <4>1. Dist(NUM_RX, RecvHead, rx_tail) = NUM_RX - 1
          BY <2>0, RingStep DEF RecvHead, RxNext, RxSlots
        <4>2. CASE pc = "returned"
          <5>1. Dist(NUM_RX, RecvHead, RDT) = NUM_RX - 2
            <6>1. rx_tail = (RDT + 1) % NUM_RX
              BY <4>2, <3>2 DEF RxInv, RxNext
            <6>2. Dist(NUM_RX, RecvHead, RDT) \in 0 .. NUM_RX - 1
              BY <2>0, RingStep DEF RxSlots
            <6> QED  BY <6>1, <6>2, <4>1, <2>0, RingStep DEF RxSlots
          <5>2. Dist(NUM_RX, RecvHead, RDH) # NUM_RX - 2
            BY <5>1, <3>2, <2>0, RingSame DEF RxSlots
          <5> QED
            BY <5>2, <4>2, <3>2, <3>3, <2>0 DEF RxInv, RxRoom
        <4>3. CASE pc # "returned"
          <5>1. Dist(NUM_RX, RecvHead, RDH) # NUM_RX - 1
            BY <4>1, <4>3, <3>2, <2>0, RingSame DEF RxSlots, RxInv
          <5> QED  BY <5>1, <4>3, <3>2, <3>3, <2>0 DEF RxInv, RxRoom
        <4> QED  BY <4>2, <4>3
      <3>6. rx_buf'[RDH] \in Frames  BY <3>1, <2>0 DEF CardStore, TypeOK
      <3> QED  BY <3>2, <3>3, <3>4, <3>5, <3>6 DEF RxInv, RxRow
    <2>6. CASE CardStored
      <3>1. storing /\ ready  BY <2>6 DEF CardStored, RxInv
      <3>2. ~rxDD[RDH]  BY <3>1, <2>0 DEF RxInv, RxRow
      <3>3. Cardinality(Unread') = Cardinality(Unread) + 1
        BY <2>6, <3>2, <2>0, UnreadCount DEF CardStored
      <3>4. RecvHead' = RecvHead  BY <2>6 DEF CardStored, RecvHead
      <3>5. RxRow'
        <4> SUFFICES ASSUME NEW s \in RxSlots
                     PROVE  rxDD'[s] <=> Dist(NUM_RX, RecvHead, s)
                                           < Cardinality(Unread')
          BY <3>4 DEF RxRow
        <4>1. rxDD'[s] <=> rxDD[s] \/ s = RDH
          BY <2>6, <2>0 DEF CardStored, TypeOK
        <4>2. Dist(NUM_RX, RecvHead, s) \in Nat
          BY <2>0, RingStep DEF RxSlots
        <4>3. s = RDH <=> Dist(NUM_RX, RecvHead, s) = Cardinality(Unread)
          BY <3>1, <2>0, RingSame DEF RxInv, RxSlots
        <4> QED  BY <4>1, <4>2, <4>3, <3>3, <2>0 DEF RxInv, RxRow
      <3>6. RxRoom'
        BY <2>6, <3>3, <2>0 DEF CardStored, RxInv, RxRoom, call
      <3>7. Dist(NUM_RX, RecvHead, RDH') = Cardinality(Unread')
        <4>1. Dist(NUM_RX, RecvHead, RDH) = Cardinality(Unread)
          BY <3>1 DEF RxInv
        <4>2. Cardinality(Unread) # NUM_RX - 1
          BY <3>1, <2>0 DEF RxInv, RxRoom
        <4> QED
          BY <2>6, <4>1, <4>2, <3>3, <2>0, RingStep
             DEF CardStored, RxNext, RxSlots
      <3>8. pc = "copied" => rxDD'[RecvHead]
        BY <2>6, <2>0 DEF CardStored, RxInv, TypeOK
      <3> QED
        BY <2>6, <3>1, <3>4, <3>5, <3>6, <3>7, <3>8 DEF CardStored, RxInv, call
    <2>7. CASE SendGiveUp \/ SendFill \/ SendRing \/ CardSend \/ CardSent
               \/ (\E f \in Frames : SendBegin(f))
      <3>1. /\ UNCHANGED <<ready, rxDD, rx_buf, rx_tail, RDT, RDH, storing>>
            /\ pc' \notin {"copied", "returned"} \/ (pc' = pc /\ frame' = frame)
            /\ pc = "returned" => pc' = "returned"
            /\ ~ready => pc' = pc
        BY <2>7 DEF SendGiveUp, SendFill, SendRing, CardSend, CardSent,
           SendBegin, RxInv, rxVars, call
      <3>2. Unread' = Unread /\ RecvHead' = RecvHead
        BY <3>1 DEF Unread, RecvHead
      <3>3. RxRoom'  BY <3>1, <3>2 DEF RxInv, RxRoom
      <3> QED  BY <3>1, <3>2, <3>3 DEF RxInv, RxRow
    <2>8. CASE UNCHANGED vars
      BY <2>8 DEF vars, RxInv, RxRow, RxRoom, RecvHead, Unread, rxVars, call
    <2> QED
      BY <2>1, <2>2, <2>3, <2>4, <2>5, <2>6, <2>7, <2>8 DEF Next, Driver, Card
  <1> QED  BY <1>1, <1>2, TypeCorrect, PTL DEF Spec

(* The frames between the driver and the card, by place in the queue. *)
RxPlaces ==
    /\ Cardinality(Unread) \in 0 .. NUM_RX - 1
    /\ RxQueue \in [1 .. Cardinality(Unread) -> Frames \cup {NoFrame}]
    /\ \A k \in 1 .. Cardinality(Unread) :
          /\ RxQueue[k] = rx_buf[(RecvHead + (k - 1)) % NUM_RX]
          /\ (RecvHead + (k - 1)) % NUM_RX \in RxSlots
          /\ Dist(NUM_RX, RecvHead, (RecvHead + (k - 1)) % NUM_RX) = k - 1

LEMMA RxQueueIs == TypeOK /\ RxInv => RxPlaces
  <1> SUFFICES ASSUME TypeOK, RxInv PROVE RxPlaces  OBVIOUS
  <1>1. /\ NUM_RX \in Nat \ {0, 1} /\ RecvHead \in RxSlots
        /\ Cardinality(Unread) \in 0 .. NUM_RX - 1
    BY RingSizes, UnreadCount, SlotsClosed
       DEF TypeOK, RingSizes, RecvHead, RxInv, RxRoom
  <1>2. ASSUME NEW k \in 1 .. Cardinality(Unread)
        PROVE  /\ (RecvHead + (k - 1)) % NUM_RX \in RxSlots
               /\ Dist(NUM_RX, RecvHead, (RecvHead + (k - 1)) % NUM_RX) = k - 1
    <2>1. /\ NUM_RX \in Nat \ {0} /\ k - 1 \in 0 .. NUM_RX - 1
          /\ RecvHead \in 0 .. NUM_RX - 1
      BY <1>1 DEF RxSlots
    <2> QED  BY ONLY <2>1, RingAt DEF RxSlots
  <1> QED  BY <1>1, <1>2 DEF RxQueue, TypeOK, RxPlaces

LEMMA FirstUnread ==
    ASSUME TypeOK, RxInv, Cardinality(Unread) > 0
    PROVE  RxQueue[1] = rx_buf[RecvHead]
  <1>1. RecvHead \in 0 .. NUM_RX - 1 /\ NUM_RX \in Nat \ {0}
    BY RingSizes, SlotsClosed DEF TypeOK, RingSizes, RecvHead, RxSlots
  <1>2. (RecvHead + 0) % NUM_RX = RecvHead  BY <1>1
  <1>3. Cardinality(Unread) \in Nat  BY RxQueueIs DEF RxPlaces
  <1> QED  BY <1>2, <1>3, RxQueueIs DEF RxPlaces

(* e1000_recv hands out the frames the card stored, each once, whole and in
   their order, for rings of any size: the receive ring is a bounded queue. *)
THEOREM ReceiveRingIsQueue == Spec => ReceivedInOrder
  <1> DEFINE n == Cardinality(Unread)
             F == Frames \cup {NoFrame}
  <1>1. Init => Rx!Init
    <2> SUFFICES ASSUME Init PROVE RxQueue = <<>> /\ received = NoFrame
      BY DEF Rx!Init
    <2>1. n = 0  BY FS_EmptySet DEF Init, Unread
    <2> QED  BY <2>1 DEF Init, RxQueue
  <1>2. TypeOK /\ RxInv /\ RxPlaces /\ RxPlaces' /\ [Next]_vars
          => [Rx!Next]_<<RxQueue, received>>
    <2> SUFFICES ASSUME TypeOK, RxInv, RxPlaces, RxPlaces', [Next]_vars
                 PROVE  [Rx!Next]_<<RxQueue, received>>
      OBVIOUS
    <2>0. /\ n \in 0 .. NUM_RX - 1 /\ n' \in 0 .. NUM_RX - 1
          /\ RxQueue \in [1 .. n -> F] /\ RxQueue' \in [1 .. n' -> F]
          /\ RDH \in RxSlots /\ RecvHead \in RxSlots /\ NUM_RX \in Nat \ {0, 1}
      BY RingSizes, SlotsClosed DEF TypeOK, RingSizes, RecvHead, RxPlaces
    <2>1. CASE E1000Init
      <3>1. n = 0 /\ n' = 0
        BY <2>1, FS_EmptySet DEF E1000Init, RxInv, Unread
      <3>2. RxQueue' = RxQueue  BY <2>0, <3>1
      <3> QED  BY <2>1, <3>2 DEF E1000Init, call
    <2>2. CASE RecvReturn
      <3>1. rxDD[RecvHead] /\ received' = rx_buf[RecvHead]
        BY <2>2 DEF RecvReturn, RxInv
      <3>2. n' = n - 1 /\ n > 0
        BY <2>2, <3>1, <2>0, UnreadCount, RxRing DEF RecvReturn, RxInv, RxRow
      <3>3. ASSUME NEW k \in 1 .. n - 1 PROVE RxQueue'[k] = RxQueue[k + 1]
        <4>1. RecvHead' = (RecvHead + 1) % NUM_RX
          BY <2>2 DEF RecvReturn, RecvHead, RxNext
        <4>2. k - 1 < NUM_RX - 1 /\ k - 1 \in 0 .. NUM_RX - 1
          BY <2>0
        <4>3. RecvHead \in 0 .. NUM_RX - 1 /\ NUM_RX \in Nat \ {0}
          BY <2>0 DEF RxSlots
        <4>4. (((RecvHead + 1) % NUM_RX) + (k - 1)) % NUM_RX
                = (RecvHead + ((k - 1) + 1)) % NUM_RX
          BY ONLY <4>2, <4>3, RingAt
        <4>5. (k - 1) + 1 = (k + 1) - 1  BY <2>0
        <4>6. rx_buf' = rx_buf  BY <2>2 DEF RecvReturn
        <4>7. k \in 1 .. n' /\ k + 1 \in 1 .. n  BY <2>0, <3>2
        <4>8. /\ RxQueue'[k] = rx_buf[(RecvHead' + (k - 1)) % NUM_RX]
              /\ RxQueue[k + 1] = rx_buf[(RecvHead + ((k + 1) - 1)) % NUM_RX]
          BY <4>6, <4>7 DEF RxQueue
        <4> QED  BY <4>1, <4>4, <4>5, <4>8
      <3>4. /\ RxQueue # <<>> /\ RxQueue' = Tail(RxQueue)
            /\ Head(RxQueue) = RxQueue[1]
        <4>1. n \in Nat \ {0} /\ RxQueue' \in [1 .. n - 1 -> F]
          BY <2>0, <3>2
        <4> HIDE DEF F, n
        <4> QED  BY <4>1, <3>3, <2>0, QueueGet
      <3>5. Rx!Get  BY <3>1, <3>2, <3>4, FirstUnread DEF Rx!Get
      <3> QED  BY <3>5 DEF Rx!Next
    <2>3. CASE CardStored
      <3>1. storing /\ ready /\ rx_buf[RDH] \in Frames /\ ~rxDD[RDH]
        BY <2>3, <2>0 DEF CardStored, RxInv, RxRow
      <3>2. n' = n + 1 /\ n < NUM_RX - 1
        <4>1. n' = n + 1  BY <2>3, <3>1, <2>0, UnreadCount DEF CardStored
        <4>2. n < NUM_RX - 1  BY <3>1, <2>0 DEF RxInv, RxRoom
        <4> QED  BY <4>1, <4>2
      <3>3. UNCHANGED <<rx_buf, RecvHead, received>>
        BY <2>3 DEF CardStored, RecvHead, call
      <3>4. \A k \in 1 .. n : RxQueue'[k] = RxQueue[k]
        BY <2>0, <3>2, <3>3 DEF RxQueue
      <3>5. RxQueue'[n + 1] = rx_buf[RDH]
        <4>1. (RecvHead + n) % NUM_RX = RDH
          <5>1. /\ n \in 0 .. NUM_RX - 1 /\ RecvHead \in 0 .. NUM_RX - 1
                /\ RDH \in 0 .. NUM_RX - 1 /\ NUM_RX \in Nat \ {0}
            BY <2>0 DEF RxSlots
          <5>2. Dist(NUM_RX, RecvHead, RDH) = n  BY <3>1 DEF RxInv
          <5> HIDE DEF n
          <5> QED  BY ONLY <5>1, <5>2, RingAt
        <4>2. (n + 1) - 1 = n /\ n + 1 \in 1 .. n'  BY <2>0, <3>2
        <4> QED  BY <4>1, <4>2, <3>3 DEF RxQueue
      <3>6. RxQueue' = Append(RxQueue, rx_buf[RDH]) /\ Len(RxQueue) = n
        <4>1. n \in Nat /\ RxQueue' \in [1 .. n + 1 -> F]  BY <2>0, <3>2
        <4> HIDE DEF F, n
        <4> QED  BY <4>1, <3>4, <3>5, <2>0, QueuePut
      <3>7. Rx!Put(rx_buf[RDH])  BY <3>2, <3>3, <3>6 DEF Rx!Put
      <3> QED  BY <3>1, <3>7 DEF Rx!Next
    <2>4. CASE \E f \in Frames : CardStore(f)
      <3>1. PICK f \in Frames : CardStore(f)  BY <2>4
      <3>2. UNCHANGED <<RecvHead, Unread, received>> /\ ready
        BY <3>1 DEF CardStore, RecvHead, Unread, call
      <3>3. ASSUME NEW k \in 1 .. n PROVE RxQueue'[k] = RxQueue[k]
        <4>1. (RecvHead + (k - 1)) % NUM_RX # RDH
          BY <2>0, <3>2 DEF RxInv, RxPlaces
        <4> QED
          BY <3>1, <3>2, <4>1, <2>0 DEF CardStore, TypeOK, RxQueue, RxPlaces
      <3>4. RxQueue' = RxQueue  BY <3>2, <3>3, <2>0
      <3> QED  BY <3>2, <3>4
    <2>5. CASE \/ RecvCopy \/ RecvRing
               \/ SendGiveUp \/ SendFill \/ SendRing \/ CardSend \/ CardSent
               \/ (\E f \in Frames : SendBegin(f))
      <3>1. UNCHANGED <<rxDD, rx_buf, rx_tail, received>>
        BY <2>5 DEF RecvCopy, RecvRing, SendGiveUp, SendFill, SendRing,
           CardSend, CardSent, SendBegin, rxVars, call
      <3> QED  BY <3>1 DEF RxQueue, Unread, RecvHead
    <2>6. CASE UNCHANGED vars
      BY <2>6 DEF vars, RxQueue, Unread, RecvHead, rxVars, call
    <2> QED
      BY <2>1, <2>2, <2>3, <2>4, <2>5, <2>6 DEF Next, Driver, Card
  <1> QED
    BY <1>1, <1>2, TypeCorrect, RxInvHolds, RxQueueIs, PTL
       DEF Spec, ReceivedInOrder, Rx!Spec

(* A full receive ring holds only frames nobody has read, or a slot is being
   given back: the card never drops frames of a driver that keeps reading. *)
THEOREM FullRingIsUnread == Spec => []FullOnlyOfUnread
  <1>1. TypeOK /\ RxInv => FullOnlyOfUnread
    <2> SUFFICES ASSUME TypeOK, RxInv, ready, RDH = RDT, pc # "returned"
                 PROVE  Len(RxQueue) = NUM_RX - 1
      BY DEF FullOnlyOfUnread, RxFull
    <2>1. Dist(NUM_RX, RecvHead, rx_tail) = NUM_RX - 1
      BY RxRing, SlotsClosed DEF RecvHead, TypeOK
    <2>2. Cardinality(Unread) = NUM_RX - 1  BY <2>1 DEF RxInv
    <2> QED  BY <2>2, RxQueueIs DEF RxPlaces
  <1> QED  BY <1>1, TypeCorrect, RxInvHolds, PTL

(***************************************************************************)
(* The transmit ring                                                       *)
(***************************************************************************)

(* The unsent slots lie in a row from the card's head to the driver's tail;
   with all of them unsent head and tail meet.  The doorbell is one slot
   behind the tail between the filling and the ringing.  What the card has
   sent and not yet marked is no longer unsent and not yet free. *)
TxRow ==
    /\ Cardinality(Unsent) \in 0 .. NUM_TX
    /\ \A s \in TxSlots : s \in Unsent
                             <=> Dist(NUM_TX, TDH, s) < Cardinality(Unsent)

TxInv ==
    /\ TxRow
    /\ Dist(NUM_TX, TDH, tx_tail)
          = IF Cardinality(Unsent) = NUM_TX THEN 0 ELSE Cardinality(Unsent)
    /\ tx_tail = IF pc = "filled" THEN TxNext(TDT) ELSE TDT
    /\ pc = "filled" => Cardinality(Unsent) > 0
    /\ pc = "wait" => frame \in Frames
    /\ \A i, j \in DOMAIN written : written[i] = written[j] => i = j
    /\ \A i \in DOMAIN written : ~txDD[written[i]]
    /\ ~ready => written = <<>> /\ pc = "idle"

LEMMA TxRing ==
    ASSUME NEW a \in TxSlots, NEW b \in TxSlots
    PROVE  /\ NUM_TX \in Nat \ {0}
           /\ Dist(NUM_TX, a, b) \in 0 .. NUM_TX - 1
           /\ Dist(NUM_TX, a, b) = 0 <=> a = b
           /\ Dist(NUM_TX, a, TxNext(b))
                = IF Dist(NUM_TX, a, b) = NUM_TX - 1 THEN 0
                  ELSE Dist(NUM_TX, a, b) + 1
           /\ Dist(NUM_TX, TxNext(a), b)
                = IF a = b THEN NUM_TX - 1 ELSE Dist(NUM_TX, a, b) - 1
  <1>1. /\ NUM_TX \in Nat \ {0}
        /\ a \in 0 .. NUM_TX - 1 /\ b \in 0 .. NUM_TX - 1
    BY RingSizes DEF RingSizes, TxSlots
  <1> QED  BY ONLY <1>1, RingStep DEF TxNext

(* A slot more and a slot less. *)
LEMMA UnsentCount ==
    ASSUME NEW s \in TxSlots
    PROVE  /\ Cardinality(Unsent) \in Nat
           /\ Unsent' = Unsent \cup {s} /\ s \notin Unsent
                => Cardinality(Unsent') = Cardinality(Unsent) + 1
           /\ Unsent' = Unsent \ {s} /\ s \in Unsent
                => Cardinality(Unsent') = Cardinality(Unsent) - 1
  <1>1. IsFiniteSet(Unsent)
    <2>1. IsFiniteSet(TxSlots)
      BY RingSizes, FS_Interval DEF RingSizes, TxSlots
    <2> QED  BY <2>1, FS_Subset DEF Unsent
  <1> QED  BY <1>1, FS_AddElement, FS_RemoveElement, FS_CardinalityType

(* What the three steps that move a slot do to the set of unsent ones. *)
LEMMA FillUnsent ==
    ASSUME TypeOK, TxInv, SendFill
    PROVE  /\ tx_tail \notin Unsent /\ Unsent' = Unsent \cup {tx_tail}
           /\ Cardinality(Unsent) < NUM_TX
           /\ Cardinality(Unsent') = Cardinality(Unsent) + 1
  <1>1. ready /\ tx_tail \in TxSlots /\ TDH \in TxSlots /\ txDD[tx_tail]
    BY DEF SendFill, TailFree, TxInv, TypeOK
  <1>2. tx_tail \notin Unsent  BY <1>1 DEF Unsent
  <1>3. \A k \in DOMAIN written : written[k] # tx_tail  BY <1>1 DEF TxInv
  <1>4. Unsent' = Unsent \cup {tx_tail}
    BY <1>1, <1>3 DEF SendFill, Unsent, TypeOK
  <1>5. Cardinality(Unsent') = Cardinality(Unsent) + 1
    BY <1>1, <1>2, <1>4, UnsentCount
  <1>6. Cardinality(Unsent) < NUM_TX
    BY <1>1, <1>2, TxRing DEF TxInv, TxRow
  <1> QED  BY <1>2, <1>4, <1>5, <1>6

LEMMA SendUnsent ==
    ASSUME TypeOK, TxInv, CardSend
    PROVE  /\ TDH \in Unsent /\ Unsent' = Unsent \ {TDH}
           /\ Cardinality(Unsent') = Cardinality(Unsent) - 1
           /\ Cardinality(Unsent') \in Nat
           /\ pc = "filled" => Cardinality(Unsent) > 1
  <1>1. /\ ready /\ TDH \in TxSlots /\ tx_tail \in TxSlots /\ TDT \in TxSlots
        /\ TDH # TDT /\ NUM_TX \in Nat \ {0}
    BY RingSizes DEF CardSend, TypeOK, RingSizes
  <1>2. Cardinality(Unsent) \in 0 .. NUM_TX  BY DEF TxInv, TxRow
  <1>3. Cardinality(Unsent) > 0 /\ (pc = "filled" => Cardinality(Unsent) > 1)
    <2>1. CASE pc = "filled"
      <3>1. tx_tail = TxNext(TDT) /\ Cardinality(Unsent) > 0
        BY <2>1 DEF TxInv
      <3>2. Dist(NUM_TX, TDH, TDT) # 0 /\ Dist(NUM_TX, TDH, TDT) \in 0 .. NUM_TX - 1
        BY <1>1, TxRing
      <3>3. CASE NUM_TX = 1
        BY <3>2, <3>3
      <3>4. CASE NUM_TX # 1
        BY <3>1, <3>2, <3>4, <1>1, <1>2, TxRing DEF TxInv
      <3> QED  BY <3>3, <3>4
    <2>2. CASE pc # "filled"
      BY <2>2, <1>1, <1>2, TxRing DEF TxInv
    <2> QED  BY <2>1, <2>2
  <1>4. TDH \in Unsent  BY <1>1, <1>3, TxRing DEF TxInv, TxRow
  <1>5. Unsent' = Unsent \ {TDH}
    <2>1. /\ \A k \in DOMAIN written : written'[k] = written[k]
          /\ DOMAIN written' = DOMAIN written \cup {Len(written) + 1}
          /\ written'[Len(written) + 1] = TDH
      BY <1>1 DEF CardSend, TypeOK
    <2>2. ready' = ready /\ txDD' = txDD  BY DEF CardSend
    <2>3. ASSUME NEW s \in TxSlots
          PROVE  (\A k \in DOMAIN written' : written'[k] # s)
                   <=> s # TDH /\ \A k \in DOMAIN written : written[k] # s
      BY <2>1
    <2>4. \A s \in TxSlots : s \in Unsent' <=> s \in Unsent /\ s # TDH
      BY <2>2, <2>3 DEF Unsent
    <2>5. Unsent \subseteq TxSlots /\ Unsent' \subseteq TxSlots  BY DEF Unsent
    <2> QED  BY <2>4, <2>5
  <1>6. Cardinality(Unsent') = Cardinality(Unsent) - 1
    BY <1>1, <1>4, <1>5, UnsentCount
  <1> QED  BY <1>2, <1>3, <1>4, <1>5, <1>6

LEMMA SentUnsent ==
    ASSUME TypeOK, TxInv, CardSent
    PROVE  /\ Unsent' = Unsent
           /\ \A i \in DOMAIN written' :
                 i + 1 \in DOMAIN written /\ written'[i] = written[i + 1]
  <1>1. /\ DOMAIN written = 1 .. Len(written) /\ Len(written) \in Nat \ {0}
        /\ DOMAIN written' = 1 .. Len(written) - 1
        /\ \A i \in 1 .. Len(written) - 1 : written'[i] = written[i + 1]
        /\ Head(written) = written[1]
    BY HeadTailProperties, EmptySeq, LenProperties DEF CardSent, TypeOK
  <1>2. ready  BY DEF CardSent, TxInv
  <1>3. ASSUME NEW s \in TxSlots
        PROVE  s \in Unsent' <=> s \in Unsent
    <2>1. CASE s = written[1]
      <3>1. s \notin Unsent  BY <1>1, <2>1 DEF Unsent
      <3>2. s \notin Unsent'  BY <1>1, <2>1 DEF Unsent, CardSent, TypeOK
      <3> QED  BY <3>1, <3>2
    <2>2. CASE s # written[1]
      <3>1. txDD'[s] = txDD[s]  BY <1>1, <2>2 DEF CardSent, TypeOK
      <3>2. (\A k \in DOMAIN written' : written'[k] # s)
              <=> (\A k \in DOMAIN written : written[k] # s)
        <4>1. ASSUME NEW k \in DOMAIN written, written[k] = s
              PROVE  \E i \in DOMAIN written' : written'[i] = s
          <5>1. k - 1 \in 1 .. Len(written) - 1 /\ (k - 1) + 1 = k
            BY <1>1, <2>2, <4>1
          <5> QED  BY <5>1, <1>1, <4>1
        <4>2. ASSUME NEW k \in DOMAIN written', written'[k] = s
              PROVE  \E i \in DOMAIN written : written[i] = s
          <5>1. k + 1 \in DOMAIN written  BY <1>1
          <5> QED  BY <5>1, <1>1, <4>2
        <4> QED  BY <4>1, <4>2
      <3> QED  BY <3>1, <3>2 DEF Unsent, CardSent
    <2> QED  BY <2>1, <2>2
  <1>4. Unsent' = Unsent  BY <1>3 DEF Unsent
  <1> QED  BY <1>1, <1>4

LEMMA TxInvHolds == Spec => []TxInv
  <1>1. Init => TxInv
    <2> SUFFICES ASSUME Init PROVE TxInv  OBVIOUS
    <2>1. Unsent = {} /\ Cardinality(Unsent) = 0
      BY FS_EmptySet DEF Init, Unsent
    <2>2. NUM_TX \in Nat \ {0} /\ 0 \in TxSlots
      BY RingSizes, SlotsClosed DEF RingSizes
    <2>3. \A s \in TxSlots : Dist(NUM_TX, 0, s) \in Nat
      BY <2>2, TxRing
    <2>4. Dist(NUM_TX, 0, 0) = 0  BY DEF Dist
    <2> QED  BY <2>1, <2>2, <2>3, <2>4 DEF Init, TxInv, TxRow
  <1>2. TypeOK /\ TxInv /\ [Next]_vars => TxInv'
    <2> SUFFICES ASSUME TypeOK, TxInv, [Next]_vars PROVE TxInv'  OBVIOUS
    <2>0. /\ NUM_TX \in Nat \ {0} /\ Cardinality(Unsent) \in 0 .. NUM_TX
          /\ TDH \in TxSlots /\ TDT \in TxSlots /\ tx_tail \in TxSlots
      BY RingSizes DEF TypeOK, RingSizes, TxInv, TxRow
    <2>1. CASE E1000Init
      <3>1. Unsent' = {} /\ Cardinality(Unsent') = 0
        BY <2>1, FS_EmptySet DEF E1000Init, Unsent
      <3>2. \A s \in TxSlots : Dist(NUM_TX, 0, s) \in Nat
        BY SlotsClosed, TxRing
      <3>3. Dist(NUM_TX, 0, 0) = 0  BY DEF Dist
      <3> QED
        BY <2>1, <3>1, <3>2, <3>3, <2>0 DEF E1000Init, TxInv, TxRow, call
    <2>2. CASE SendFill
      <3>1. /\ UNCHANGED <<TDH, TDT, written, ready>>
            /\ tx_tail' = TxNext(tx_tail) /\ pc = "wait" /\ pc' = "filled"
        BY <2>2 DEF SendFill
      <3>2. TxRow'
        <4> SUFFICES ASSUME NEW s \in TxSlots
                     PROVE  s \in Unsent' <=> Dist(NUM_TX, TDH, s)
                                                < Cardinality(Unsent')
          BY <2>0, <2>2, <3>1, FillUnsent DEF TxRow
        <4>1. s = tx_tail <=> Dist(NUM_TX, TDH, s) = Cardinality(Unsent)
          BY <2>0, <2>2, FillUnsent, RingSame DEF TxInv, TxSlots
        <4>2. Dist(NUM_TX, TDH, s) \in Nat  BY <2>0, TxRing
        <4> QED
          BY <4>1, <4>2, <2>0, <2>2, FillUnsent DEF TxInv, TxRow
      <3>3. Dist(NUM_TX, TDH, tx_tail')
              = IF Cardinality(Unsent') = NUM_TX THEN 0 ELSE Cardinality(Unsent')
        BY <2>0, <2>2, <3>1, FillUnsent, TxRing DEF TxInv
      <3>4. tx_tail = TDT  BY <3>1 DEF TxInv
      <3>5. \A i \in DOMAIN written : ~txDD'[written[i]]
        BY <2>2, <2>0 DEF SendFill, TxInv, TypeOK
      <3> QED
        BY <2>0, <2>2, <3>1, <3>2, <3>3, <3>4, <3>5, FillUnsent DEF TxInv
    <2>3. CASE CardSend
      <3>1. /\ TDH' = TxNext(TDH) /\ written' = Append(written, TDH) /\ ready
            /\ UNCHANGED <<ready, TDT, tx_tail, pc, frame, txDD>>
        BY <2>3 DEF CardSend, call
      <3>2. TxRow'
        <4> SUFFICES ASSUME NEW s \in TxSlots
                     PROVE  s \in Unsent' <=> Dist(NUM_TX, TDH', s)
                                                < Cardinality(Unsent')
          BY <2>0, <2>3, SendUnsent DEF TxRow
        <4>1. Dist(NUM_TX, TDH', s) = IF s = TDH THEN NUM_TX - 1
                                      ELSE Dist(NUM_TX, TDH, s) - 1
          BY <2>0, <3>1, TxRing
        <4>2. Dist(NUM_TX, TDH, s) \in Nat  BY <2>0, TxRing
        <4> QED  BY <4>1, <4>2, <2>0, <2>3, SendUnsent DEF TxInv, TxRow
      <3>3. Dist(NUM_TX, TDH', tx_tail)
              = IF Cardinality(Unsent') = NUM_TX THEN 0 ELSE Cardinality(Unsent')
        <4>1. Dist(NUM_TX, TDH', tx_tail)
                = IF tx_tail = TDH THEN NUM_TX - 1
                  ELSE Dist(NUM_TX, TDH, tx_tail) - 1
          BY <2>0, <3>1, TxRing
        <4>2. tx_tail = TDH <=> Dist(NUM_TX, TDH, tx_tail) = 0
          BY <2>0, TxRing
        <4>3. Cardinality(Unsent) > 0  BY <2>0, <2>3, SendUnsent
        <4> QED  BY <4>1, <4>2, <4>3, <2>0, <2>3, SendUnsent DEF TxInv
      <3>4. /\ \A i \in DOMAIN written' :
                 i \in DOMAIN written \/ i = Len(written) + 1
            /\ \A i \in DOMAIN written : written'[i] = written[i]
            /\ written'[Len(written) + 1] = TDH
        BY <2>0, <3>1 DEF TypeOK
      <3>5. TDH \in Unsent  BY <2>3, SendUnsent
      <3>6. \A i, j \in DOMAIN written' : written'[i] = written'[j] => i = j
        BY <3>4, <3>5 DEF TxInv, Unsent
      <3>7. \A i \in DOMAIN written' : ~txDD'[written'[i]]
        BY <3>1, <3>4, <3>5 DEF TxInv, Unsent
      <3> QED
        BY <2>0, <2>3, <3>1, <3>2, <3>3, <3>6, <3>7, SendUnsent DEF TxInv
    <2>4. CASE CardSent
      <3>1. UNCHANGED <<TDH, TDT, tx_tail, ready, pc, frame>>
        BY <2>4 DEF CardSent, call
      <3>2. TxRow'  BY <2>4, <3>1, SentUnsent DEF TxInv, TxRow
      <3>3. \A i, j \in DOMAIN written' : written'[i] = written'[j] => i = j
        <4> SUFFICES ASSUME NEW i \in DOMAIN written', NEW j \in DOMAIN written',
                            written'[i] = written'[j]
                     PROVE  i = j
          OBVIOUS
        <4>1. i + 1 = j + 1  BY <2>4, SentUnsent DEF TxInv
        <4>2. written' \in Seq(TxSlots)
          BY <2>4, HeadTailProperties DEF CardSent, TypeOK
        <4> QED  BY <4>1, <4>2
      <3>4. \A i \in DOMAIN written' : ~txDD'[written'[i]]
        <4> SUFFICES ASSUME NEW i \in DOMAIN written'
                     PROVE  ~txDD'[written'[i]]
          OBVIOUS
        <4>1. /\ i \in Nat \ {0} /\ i + 1 \in DOMAIN written
              /\ 1 \in DOMAIN written /\ written \in Seq(TxSlots)
              /\ Head(written) = written[1]
          BY <2>4, SentUnsent, HeadTailProperties DEF CardSent, TypeOK
        <4>2. written[i + 1] # written[1]  BY <4>1 DEF TxInv
        <4>3. ~txDD[written[i + 1]] /\ written[i + 1] \in TxSlots
          BY <4>1 DEF TxInv
        <4> QED
          BY <4>1, <4>2, <4>3, <2>4, SentUnsent DEF CardSent, TypeOK
      <3> QED
        BY <2>4, <3>1, <3>2, <3>3, <3>4, SentUnsent DEF TxInv, CardSent
    <2>5. CASE SendRing
      BY <2>5 DEF SendRing, Doorbell, TxInv, TxRow, Unsent
    <2>6. CASE \E f \in Frames : SendBegin(f)
      BY <2>6 DEF SendBegin, TxInv, TxRow, Unsent, txVars
    <2>7. CASE SendGiveUp \/ RecvCopy \/ RecvReturn \/ RecvRing \/ CardStored
                 \/ (\E f \in Frames : CardStore(f))
      <3>1. /\ UNCHANGED <<ready, txDD, written, tx_tail, TDT, TDH>>
            /\ \/ pc # "filled" /\ pc' \notin {"filled", "wait"}
               \/ pc' = pc /\ frame' = frame
            /\ ~ready => pc' = pc
        BY <2>7 DEF SendGiveUp, RecvCopy, RecvReturn, RecvRing, CardStored,
           CardStore, txVars, call, TxInv
      <3>2. Unsent' = Unsent  BY <3>1 DEF Unsent
      <3> QED  BY <3>1, <3>2 DEF TxInv, TxRow
    <2>8. CASE UNCHANGED vars
      BY <2>8 DEF vars, txVars, call, TxInv, TxRow, Unsent
    <2> QED
      BY <2>1, <2>2, <2>3, <2>4, <2>5, <2>6, <2>7, <2>8 DEF Next, Driver, Card
  <1> QED  BY <1>1, <1>2, TypeCorrect, PTL DEF Spec

(* The frames the card has yet to send, by place in the queue. *)
TxPlaces ==
    /\ Cardinality(Unsent) \in 0 .. NUM_TX
    /\ TxQueue \in [1 .. Cardinality(Unsent) -> Frames \cup {NoFrame}]
    /\ \A k \in 1 .. Cardinality(Unsent) :
          /\ TxQueue[k] = tx_buf[(TDH + (k - 1)) % NUM_TX]
          /\ (TDH + (k - 1)) % NUM_TX \in TxSlots
          /\ Dist(NUM_TX, TDH, (TDH + (k - 1)) % NUM_TX) = k - 1

LEMMA TxQueueIs == TypeOK /\ TxInv => TxPlaces
  <1> SUFFICES ASSUME TypeOK, TxInv PROVE TxPlaces  OBVIOUS
  <1>1. /\ NUM_TX \in Nat \ {0} /\ TDH \in TxSlots
        /\ Cardinality(Unsent) \in 0 .. NUM_TX
    BY RingSizes DEF TypeOK, RingSizes, TxInv, TxRow
  <1>2. ASSUME NEW k \in 1 .. Cardinality(Unsent)
        PROVE  /\ (TDH + (k - 1)) % NUM_TX \in TxSlots
               /\ Dist(NUM_TX, TDH, (TDH + (k - 1)) % NUM_TX) = k - 1
    <2>1. /\ NUM_TX \in Nat \ {0} /\ k - 1 \in 0 .. NUM_TX - 1
          /\ TDH \in 0 .. NUM_TX - 1
      BY <1>1 DEF TxSlots
    <2> QED  BY ONLY <2>1, RingAt DEF TxSlots
  <1> QED  BY <1>1, <1>2 DEF TxQueue, TypeOK, TxPlaces

(* Every frame e1000_send accepted goes on the wire at most once, unchanged
   and in the order of the calls, for rings of any size: the transmit ring is
   a bounded queue. *)
THEOREM SendRingIsQueue == Spec => SentInOrder
  <1> DEFINE n == Cardinality(Unsent)
             F == Frames \cup {NoFrame}
  <1>1. Init => Tx!Init
    <2> SUFFICES ASSUME Init PROVE TxQueue = <<>> /\ wire = NoFrame
      BY DEF Tx!Init
    <2>1. n = 0  BY FS_EmptySet DEF Init, Unsent
    <2> QED  BY <2>1 DEF Init, TxQueue
  <1>2. TypeOK /\ TxInv /\ TxPlaces /\ TxPlaces' /\ [Next]_vars
          => [Tx!Next]_<<TxQueue, wire>>
    <2> SUFFICES ASSUME TypeOK, TxInv, TxPlaces, TxPlaces', [Next]_vars
                 PROVE  [Tx!Next]_<<TxQueue, wire>>
      OBVIOUS
    <2>0. /\ n \in 0 .. NUM_TX /\ n' \in 0 .. NUM_TX
          /\ TxQueue \in [1 .. n -> F] /\ TxQueue' \in [1 .. n' -> F]
          /\ TDH \in TxSlots /\ tx_tail \in TxSlots /\ NUM_TX \in Nat \ {0}
      BY RingSizes DEF TypeOK, RingSizes, TxPlaces
    <2>1. CASE E1000Init
      <3>1. n = 0 /\ n' = 0
        BY <2>1, FS_EmptySet DEF E1000Init, Unsent
      <3>2. TxQueue' = TxQueue  BY <2>0, <3>1
      <3> QED  BY <2>1, <3>2 DEF E1000Init
    <2>2. CASE CardSend
      <3>1. n' = n - 1 /\ n > 0  BY <2>0, <2>2, SendUnsent
      <3>2. TDH' = (TDH + 1) % NUM_TX /\ tx_buf' = tx_buf /\ wire' = tx_buf[TDH]
        BY <2>2 DEF CardSend, TxNext
      <3>3. ASSUME NEW k \in 1 .. n - 1 PROVE TxQueue'[k] = TxQueue[k + 1]
        <4>1. k - 1 < NUM_TX - 1 /\ k - 1 \in 0 .. NUM_TX - 1
          BY <2>0
        <4>2. TDH \in 0 .. NUM_TX - 1 /\ NUM_TX \in Nat \ {0}
          BY <2>0 DEF TxSlots
        <4>3. (((TDH + 1) % NUM_TX) + (k - 1)) % NUM_TX
                = (TDH + ((k - 1) + 1)) % NUM_TX
          BY ONLY <4>1, <4>2, RingAt
        <4>4. (k - 1) + 1 = (k + 1) - 1  BY <2>0
        <4>5. k \in 1 .. n' /\ k + 1 \in 1 .. n  BY <2>0, <3>1
        <4>6. /\ TxQueue'[k] = tx_buf[(TDH' + (k - 1)) % NUM_TX]
              /\ TxQueue[k + 1] = tx_buf[(TDH + ((k + 1) - 1)) % NUM_TX]
          BY <3>2, <4>5 DEF TxQueue
        <4> QED  BY <3>2, <4>3, <4>4, <4>6
      <3>4. /\ TxQueue # <<>> /\ TxQueue' = Tail(TxQueue)
            /\ Head(TxQueue) = TxQueue[1]
        <4>1. n \in Nat \ {0} /\ TxQueue' \in [1 .. n - 1 -> F]
          BY <2>0, <3>1
        <4> HIDE DEF F, n
        <4> QED  BY <4>1, <3>3, <2>0, QueueGet
      <3>5. TxQueue[1] = tx_buf[TDH]
        <4>1. (TDH + 0) % NUM_TX = TDH  BY <2>0 DEF TxSlots
        <4> QED  BY <4>1, <2>0, <3>1 DEF TxPlaces
      <3>6. Tx!Get  BY <3>2, <3>4, <3>5 DEF Tx!Get
      <3> QED  BY <3>6 DEF Tx!Next
    <2>3. CASE SendFill
      <3>1. n' = n + 1 /\ n < NUM_TX  BY <2>3, <2>0, FillUnsent
      <3>2. UNCHANGED <<TDH, wire>> /\ frame \in Frames
        BY <2>3 DEF SendFill, TxInv
      <3>3. Dist(NUM_TX, TDH, tx_tail) = n  BY <2>0, <3>1 DEF TxInv
      <3>4. ASSUME NEW k \in 1 .. n PROVE TxQueue'[k] = TxQueue[k]
        <4>1. (TDH + (k - 1)) % NUM_TX # tx_tail
          BY <2>0, <3>3 DEF TxPlaces
        <4> QED
          BY <2>3, <3>1, <3>2, <4>1, <2>0 DEF SendFill, TypeOK, TxQueue, TxPlaces
      <3>5. TxQueue'[n + 1] = frame
        <4>1. (TDH + n) % NUM_TX = tx_tail
          <5>1. /\ n \in 0 .. NUM_TX - 1 /\ TDH \in 0 .. NUM_TX - 1
                /\ tx_tail \in 0 .. NUM_TX - 1 /\ NUM_TX \in Nat \ {0}
            BY <2>0, <3>1 DEF TxSlots
          <5> HIDE DEF n
          <5> QED  BY ONLY <5>1, <3>3, RingAt
        <4>2. (n + 1) - 1 = n /\ n + 1 \in 1 .. n'  BY <2>0, <3>1
        <4>3. tx_buf'[tx_tail] = frame  BY <2>0, <2>3 DEF SendFill, TypeOK
        <4> QED  BY <4>1, <4>2, <4>3, <3>2 DEF TxQueue
      <3>6. TxQueue' = Append(TxQueue, frame) /\ Len(TxQueue) = n
        <4>1. n \in Nat /\ TxQueue' \in [1 .. n + 1 -> F]  BY <2>0, <3>1
        <4> HIDE DEF F, n
        <4> QED  BY <4>1, <3>4, <3>5, <2>0, QueuePut
      <3>7. Tx!Put(frame)  BY <3>1, <3>2, <3>6 DEF Tx!Put
      <3> QED  BY <3>2, <3>7 DEF Tx!Next
    <2>4. CASE CardSent
      BY <2>4, SentUnsent DEF CardSent, TxQueue
    <2>5. CASE \/ SendGiveUp \/ SendRing
               \/ RecvCopy \/ RecvReturn \/ RecvRing \/ CardStored
               \/ (\E f \in Frames : SendBegin(f) \/ CardStore(f))
      <3>1. UNCHANGED <<ready, txDD, tx_buf, written, TDH, wire>>
        BY <2>5 DEF SendGiveUp, SendRing, RecvCopy, RecvReturn, RecvRing,
           CardStored, SendBegin, CardStore, txVars
      <3> QED  BY <3>1 DEF TxQueue, Unsent
    <2>6. CASE UNCHANGED vars
      BY <2>6 DEF vars, TxQueue, Unsent, txVars
    <2> QED
      BY <2>1, <2>2, <2>3, <2>4, <2>5, <2>6 DEF Next, Driver, Card
  <1> QED
    BY <1>1, <1>2, TypeCorrect, TxInvHolds, TxQueueIs, PTL
       DEF Spec, SentInOrder, Tx!Spec

=============================================================================

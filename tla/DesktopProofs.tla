---------------------------- MODULE DesktopProofs ----------------------------
(***************************************************************************)
(* The window manager for any number of windows, of any size and at any    *)
(* place: the stacking order, the drag and the repainting.                 *)
(***************************************************************************)
EXTENDS Desktop, SequenceTheorems, WellFoundedInduction, TLAPS

(***************************************************************************)
(* The lowest and the highest of a set of numbers                          *)
(***************************************************************************)
LEMMA Lowest ==
    ASSUME NEW S \in SUBSET Nat, S # {}
    PROVE  \E x \in S : \A y \in S : x <= y
  <1>1. PICK x \in S : \A y \in S : <<y, x>> \notin OpToRel(<, Nat)
    BY NatLessThanWellFounded, WFMin
  <1>2. OpToRel(<, Nat) = {ss \in Nat \X Nat : ss[1] < ss[2]}
    BY Zenon DEF OpToRel
  <1>3. ASSUME NEW y \in S PROVE x <= y
    <2>1. ~(y < x)  BY <1>1, <1>2
    <2> QED  BY <2>1
  <1> QED  BY <1>3

LEMMA MinIs ==
    ASSUME NEW S \in SUBSET Nat, S # {}
    PROVE  Min(S) \in S /\ \A y \in S : Min(S) <= y
  BY Lowest DEF Min

LEMMA MaxIs ==
    ASSUME NEW n \in Nat, NEW S \in SUBSET (1 .. n), S # {}
    PROVE  Max(S) \in S /\ \A y \in S : Max(S) >= y
  <1> DEFINE T == {k \in 0 .. n : n - k \in S}
  <1>1. PICK y \in S : TRUE  OBVIOUS
  <1>2. n - y \in T  BY <1>1
  <1>3. PICK k \in T : \A j \in T : k <= j
    <2>0. 0 .. n \subseteq Nat  OBVIOUS
    <2>1. T \in SUBSET Nat /\ T # {}  BY ONLY <1>2, <2>0
    <2> HIDE DEF T
    <2> QED  BY <2>1, Lowest
  <1>4. n - k \in S  BY <1>3
  <1>5. ASSUME NEW z \in S PROVE n - k >= z
    <2>1. n - z \in T  BY <1>5
    <2>2. k <= n - z /\ k \in 0 .. n  BY <1>3, <2>1
    <2> QED  BY <2>2
  <1> QED  BY <1>4, <1>5 DEF Max

-----------------------------------------------------------------------------
(***************************************************************************)
(* The stacking order                                                      *)
(***************************************************************************)

(* A stack of windows: each once. *)
Stack(s, u) == s \in Seq(Ids) /\ IsInjective(s) /\ ToSet(s) = u

LEMMA Elements ==
    ASSUME NEW S, NEW s \in Seq(S)
    PROVE  /\ Len(s) \in Nat /\ DOMAIN s = 1 .. Len(s)
           /\ \A x : x \in ToSet(s) <=> \E k \in 1 .. Len(s) : s[k] = x
  BY LenProperties DEF ToSet

(* A window on the stack is taken out of it, the others stay in order. *)
LEMMA TakenOut ==
    ASSUME NEW s, NEW u, Stack(s, u), NEW id \in u
    PROVE  Stack(RemoveFirst(s, id), u \ {id}) /\ Len(RemoveFirst(s, id)) = Len(s) - 1
  <1>0. /\ s \in Seq(Ids) /\ Len(s) \in Nat /\ DOMAIN s = 1 .. Len(s)
        /\ \A x : x \in u <=> \E k \in 1 .. Len(s) : s[k] = x
    BY Elements DEF Stack
  <1> DEFINE I == {i \in 1 .. Len(s) : s[i] = id}
             r == RemoveFirst(s, id)
  <1>1. I # {} /\ I \in SUBSET Nat /\ \E i \in 1 .. Len(s) : s[i] = id
    BY <1>0
  <1>2. Min(I) \in I  BY <1>1, MinIs
  <1>3. PICK m \in 1 .. Len(s) : s[m] = id /\ r = RemoveAt(s, m)
    BY <1>1, <1>2 DEF RemoveFirst, SelectInSeq
  <1> HIDE DEF r
  <1>4. m \in 1 .. Len(s) /\ s[m] = id  BY <1>3
  <1> HIDE DEF I
  <1>5. /\ r \in Seq(Ids) /\ Len(r) = Len(s) - 1
        /\ \A k \in 1 .. Len(s) - 1 : r[k] = IF k < m THEN s[k] ELSE s[k + 1]
    <2> DEFINE a == SubSeq(s, 1, m - 1)
               b == SubSeq(s, m + 1, Len(s))
    <2>1. /\ a \in Seq(Ids) /\ Len(a) = m - 1
          /\ \A k \in 1 .. m - 1 : a[k] = s[k]
      BY <1>0, <1>4
    <2>2. /\ b \in Seq(Ids) /\ Len(b) = Len(s) - m
          /\ \A k \in 1 .. Len(s) - m : b[k] = s[m + k]
      <3>1. b \in Seq(Ids)  BY <1>0, <1>4
      <3>2. Len(b) = Len(s) - m
        <4>1. s \in Seq(Ids) /\ Len(s) \in Nat /\ m \in 1 .. Len(s)
          BY <1>0, <1>4
        <4> QED  BY ONLY <4>1
      <3>3. ASSUME NEW k \in 1 .. Len(s) - m PROVE b[k] = s[m + k]
        BY <1>0, <1>4, <3>3
      <3> QED  BY <3>1, <3>2, <3>3
    <2>3. r = a \o b  BY <1>3 DEF RemoveAt
    <2> HIDE DEF a, b
    <2>4. /\ a \o b \in Seq(Ids) /\ Len(a \o b) = Len(a) + Len(b)
          /\ \A k \in 1 .. Len(a) + Len(b) :
                (a \o b)[k] = IF k <= Len(a) THEN a[k] ELSE b[k - Len(a)]
      BY <2>1, <2>2, ConcatProperties
    <2>5. Len(r) = Len(s) - 1  BY <1>0, <1>4, <2>1, <2>2, <2>3, <2>4
    <2>6. ASSUME NEW k \in 1 .. Len(s) - 1
          PROVE  r[k] = IF k < m THEN s[k] ELSE s[k + 1]
      <3>1. CASE k < m
        <4>1. k \in 1 .. m - 1 /\ k <= Len(a) /\ k \in 1 .. Len(a) + Len(b)
          BY <1>0, <1>4, <2>1, <2>2, <3>1
        <4> QED  BY <2>1, <2>3, <2>4, <3>1, <4>1
      <3>2. CASE ~(k < m)
        <4>1. /\ ~(k <= Len(a)) /\ k \in 1 .. Len(a) + Len(b)
              /\ k - Len(a) \in 1 .. Len(s) - m /\ m + (k - Len(a)) = k + 1
          BY <1>0, <1>4, <2>1, <2>2, <3>2
        <4> QED  BY <2>2, <2>3, <2>4, <3>2, <4>1
      <3> QED  BY <3>1, <3>2
    <2> QED  BY <2>3, <2>4, <2>5, <2>6
  <1>6. DOMAIN r = 1 .. Len(s) - 1  BY <1>5
  <1> DEFINE Old(k) == IF k < m THEN k ELSE k + 1
  <1>7. ASSUME NEW k \in 1 .. Len(s) - 1
        PROVE  Old(k) \in 1 .. Len(s) /\ Old(k) # m /\ r[k] = s[Old(k)]
    BY <1>0, <1>4, <1>5
  <1>8. IsInjective(r)
    <2> SUFFICES ASSUME NEW j \in 1 .. Len(s) - 1, NEW k \in 1 .. Len(s) - 1,
                        r[j] = r[k]
                 PROVE  j = k
      BY <1>6 DEF IsInjective
    <2>1. Old(j) = Old(k)
      <3>1. /\ Old(j) \in 1 .. Len(s) /\ Old(k) \in 1 .. Len(s)
            /\ s[Old(j)] = s[Old(k)]
        BY <1>7
      <3> HIDE DEF Old
      <3> QED  BY <1>0, <3>1 DEF Stack, IsInjective
    <2> QED  BY <1>0, <1>4, <2>1
  <1>9. ToSet(r) = u \ {id}
    <2>1. ASSUME NEW x \in ToSet(r) PROVE x \in u \ {id}
      <3>1. PICK k \in 1 .. Len(s) - 1 : r[k] = x  BY <1>6, <2>1 DEF ToSet
      <3>2. Old(k) \in 1 .. Len(s) /\ Old(k) # m /\ x = s[Old(k)]
        BY <1>7, <3>1
      <3> HIDE DEF Old
      <3>3. x # id  BY <1>0, <1>4, <3>2 DEF Stack, IsInjective
      <3> QED  BY <1>0, <3>2, <3>3
    <2>2. ASSUME NEW x \in u \ {id} PROVE x \in ToSet(r)
      <3>1. PICK k \in 1 .. Len(s) : s[k] = x /\ k # m  BY <1>0, <1>4, <2>2
      <3> DEFINE n == IF k < m THEN k ELSE k - 1
      <3>2. n \in 1 .. Len(s) - 1 /\ Old(n) = k  BY <1>0, <1>4, <3>1
      <3>3. r[n] = x  BY <1>7, <3>1, <3>2
      <3> QED  BY <1>6, <3>2, <3>3 DEF ToSet
    <2> QED  BY <2>1, <2>2
  <1> QED  BY <1>5, <1>8, <1>9 DEF Stack, r

(* A window that is not on the stack is put on top. *)
LEMMA PutOnTop ==
    ASSUME NEW s, NEW u, Stack(s, u), NEW id \in Ids \ u
    PROVE  Stack(Append(s, id), u \cup {id}) /\ Len(Append(s, id)) = Len(s) + 1
  <1>0. /\ s \in Seq(Ids) /\ Len(s) \in Nat /\ DOMAIN s = 1 .. Len(s)
        /\ \A x : x \in u <=> \E k \in 1 .. Len(s) : s[k] = x
    BY Elements DEF Stack
  <1> DEFINE r == Append(s, id)
  <1>1. /\ r \in Seq(Ids) /\ Len(r) = Len(s) + 1 /\ DOMAIN r = 1 .. Len(s) + 1
        /\ \A k \in 1 .. Len(s) : r[k] = s[k]
        /\ r[Len(s) + 1] = id
    BY <1>0, AppendProperties
  <1> HIDE DEF r
  <1>2. IsInjective(r)
    <2> SUFFICES ASSUME NEW j \in 1 .. Len(s) + 1, NEW k \in 1 .. Len(s) + 1,
                        r[j] = r[k]
                 PROVE  j = k
      BY <1>1 DEF IsInjective
    <2>1. \A i \in 1 .. Len(s) : s[i] # id  BY <1>0
    <2>2. \A i \in 1 .. Len(s) + 1 : i # Len(s) + 1 => i \in 1 .. Len(s)
      BY <1>0
    <2> QED  BY <1>0, <1>1, <2>1, <2>2 DEF Stack, IsInjective
  <1>3. ToSet(r) = u \cup {id}
    <2>1. ASSUME NEW x \in ToSet(r) PROVE x \in u \cup {id}
      <3>1. PICK k \in 1 .. Len(s) + 1 : r[k] = x  BY <1>1, <2>1 DEF ToSet
      <3>2. k \in 1 .. Len(s) \/ k = Len(s) + 1  BY <1>0
      <3> QED  BY <1>0, <1>1, <3>1, <3>2
    <2>2. ASSUME NEW x \in u PROVE x \in ToSet(r)
      <3>1. PICK k \in 1 .. Len(s) : s[k] = x  BY <1>0, <2>2
      <3>2. k \in 1 .. Len(s) + 1 /\ r[k] = x  BY <1>0, <1>1, <3>1
      <3> QED  BY <1>1, <3>2 DEF ToSet
    <2>3. id \in ToSet(r)
      <3>1. Len(s) + 1 \in 1 .. Len(s) + 1  BY <1>0
      <3> QED  BY <1>1, <3>1 DEF ToSet
    <2> QED  BY <2>1, <2>2, <2>3
  <1> QED  BY <1>1, <1>2, <1>3 DEF Stack, r

(* The window a press goes to is one of the open ones. *)
LEMMA TopHitIsOpen ==
    ASSUME Stack(zo, used), NEW p, \E i \in used : Hit(p, i)
    PROVE  TopHit(p) \in used
  <1>0. /\ Len(zo) \in Nat
        /\ \A x : x \in used <=> \E k \in 1 .. Len(zo) : zo[k] = x
    BY Elements DEF Stack
  <1> DEFINE I == {k \in 1 .. Len(zo) : Hit(p, zo[k])}
  <1>1. I # {} /\ I \in SUBSET (1 .. Len(zo))  BY <1>0
  <1>2. Max(I) \in I  BY <1>0, <1>1, MaxIs
  <1>3. TopHit(p) = zo[Max(I)]  BY <1>1 DEF TopHit, SelectLastInSeq
  <1> QED  BY <1>0, <1>2, <1>3

-----------------------------------------------------------------------------
(***************************************************************************)
(* What the manager keeps                                                  *)
(***************************************************************************)

(* Every open window is on the stack once, and only while the button is down
   is one of them dragged. *)
StackInv == StackSound /\ Stack(zo, used) /\ used \subseteq Ids /\ nw <= WM_MAX_WINDOWS

(* What wm_open, wm_close and wm_raise do to the stack and to the drag. *)
LEMMA OpenKeeps ==
    ASSUME StackInv, NEW place, Open(place)
    PROVE  /\ Stack(zo, used)' /\ used' \subseteq Ids /\ nw' <= WM_MAX_WINDOWS
           /\ used \subseteq used'
  <1>1. CASE UNCHANGED windows
    BY <1>1 DEF windows, StackInv, Stack, nw
  <1>2. CASE nw < WM_MAX_WINDOWS /\ used # Ids
    <2> DEFINE F == Ids \ used
               id == CHOOSE i \in F : \A j \in F : i <= j
    <2>0. Ids \subseteq Nat  BY DesktopAssumption DEF DesktopAssumption, Ids
    <2>1. F # {} /\ F \in SUBSET Nat  BY <1>2, <2>0 DEF StackInv
    <2>2. id \in F
      <3> HIDE DEF F
      <3> QED  BY <2>1, Lowest
    <2>3. used' = used \cup {id} /\ zo' = Append(zo, id)
      <3>1. nw \in Nat /\ WM_MAX_WINDOWS \in Nat
        BY Elements, DesktopAssumption DEF StackInv, Stack, nw, DesktopAssumption
      <3> QED  BY <1>2, <3>1 DEF Open
    <2> HIDE DEF id
    <2>4. Stack(Append(zo, id), used \cup {id}) /\ Len(Append(zo, id)) = Len(zo) + 1
      BY <2>2, PutOnTop DEF StackInv
    <2>5. Len(zo) \in Nat /\ WM_MAX_WINDOWS \in Nat
      BY Elements, DesktopAssumption DEF StackInv, Stack, DesktopAssumption
    <2> QED  BY <1>2, <2>2, <2>3, <2>4, <2>5 DEF Stack, StackInv, nw
  <1> QED  BY <1>1, <1>2, Elements, DesktopAssumption
           DEF Open, StackInv, Stack, nw, DesktopAssumption

LEMMA CloseKeeps ==
    ASSUME StackInv, NEW id \in used, Close(id)
    PROVE  /\ Stack(zo, used)' /\ used' \subseteq Ids /\ nw' <= WM_MAX_WINDOWS
           /\ drag_id' # None => drag_id' = drag_id /\ drag_id' \in used'
  <1>1. Stack(zo', used') /\ Len(zo') = Len(zo) - 1 /\ used' = used \ {id}
    BY TakenOut DEF StackInv, Close
  <1>2. Len(zo) \in Nat /\ WM_MAX_WINDOWS \in Nat
    BY Elements, DesktopAssumption DEF StackInv, Stack, DesktopAssumption
  <1>3. nw' <= WM_MAX_WINDOWS  BY <1>1, <1>2 DEF StackInv, nw
  <1>4. drag_id' = IF drag_id = id THEN None ELSE drag_id
    BY DEF Close, DragAfterClose
  <1> QED  BY <1>1, <1>3, <1>4 DEF Stack, StackInv, StackSound

LEMMA RaiseKeeps ==
    ASSUME StackInv, NEW id \in used, Raise(id)
    PROVE  Stack(zo, used)' /\ used' = used /\ nw' <= WM_MAX_WINDOWS
  <1> DEFINE r == RemoveFirst(zo, id)
  <1>1. Stack(r, used \ {id}) /\ Len(r) = Len(zo) - 1
    BY TakenOut DEF StackInv
  <1> HIDE DEF r
  <1>2. id \in Ids \ (used \ {id})  BY DEF StackInv
  <1>3. Stack(Append(r, id), (used \ {id}) \cup {id}) /\ Len(Append(r, id)) = Len(r) + 1
    BY <1>1, <1>2, PutOnTop
  <1>4. zo' = Append(r, id) /\ used' = used  BY DEF Raise, r
  <1>5. (used \ {id}) \cup {id} = used  OBVIOUS
  <1>6. Len(zo) \in Nat /\ WM_MAX_WINDOWS \in Nat
    BY Elements, DesktopAssumption DEF StackInv, Stack, DesktopAssumption
  <1>7. Len(Append(r, id)) = Len(zo)  BY <1>1, <1>3, <1>6
  <1>8. Stack(zo', used') /\ nw' = nw  BY <1>3, <1>4, <1>5, <1>7 DEF nw
  <1> QED  BY <1>4, <1>8 DEF Stack, StackInv

LEMMA StackInvHolds == Spec => []StackInv
  <1>0. WM_MAX_WINDOWS \in Nat \ {0} /\ None \notin Ids
    BY DesktopAssumption DEF DesktopAssumption, None, Ids
  <1>1. Init => StackInv
    <2> SUFFICES ASSUME Init PROVE StackInv  OBVIOUS
    <2>1. zo = <<>> /\ used = {} /\ drag_id = None  BY DEF Init
    <2>2. <<>> \in Seq(Ids) /\ Len(<<>>) = 0 /\ DOMAIN <<>> = {}  OBVIOUS
    <2>3. IsInjective(<<>>) /\ ToSet(<<>>) = {}  BY <2>2 DEF IsInjective, ToSet
    <2>4. nw <= WM_MAX_WINDOWS  BY <1>0, <2>1, <2>2 DEF nw
    <2> QED  BY <2>1, <2>2, <2>3, <2>4 DEF StackInv, StackSound, Stack
  <1>2. StackInv /\ [Next]_vars => StackInv'
    <2> SUFFICES ASSUME StackInv, [Next]_vars PROVE StackInv'  OBVIOUS
    (* It is enough that the stack is kept, and the drag is. *)
    <2>1. ASSUME Stack(zo, used)', used' \subseteq Ids, nw' <= WM_MAX_WINDOWS,
                 drag_id' # None => drag_id' \in used' /\ prev_button'
          PROVE  StackInv'
      BY <2>1 DEF StackInv, StackSound, Stack
    <2>2. ASSUME UNCHANGED <<used, zo, drag_id, prev_button>> PROVE StackInv'
      BY <2>2 DEF StackInv, StackSound, Stack, nw
    <2>3. CASE \E place \in Places : Gui(place)
      <3>1. used' = {0} /\ zo' = <<0>> /\ drag_id' = None  BY <2>3 DEF Gui
      <3>2. 0 \in Ids  BY <1>0 DEF Ids
      <3>3. <<0>> \in Seq(Ids) /\ Len(<<0>>) = 1 /\ DOMAIN <<0>> = {1} /\ <<0>>[1] = 0
        BY <3>2
      <3>4. IsInjective(<<0>>) /\ ToSet(<<0>>) = {0}
        BY <3>3 DEF IsInjective, ToSet
      <3>5. nw' <= WM_MAX_WINDOWS  BY <1>0, <3>1, <3>3 DEF nw
      <3> QED  BY <2>1, <3>1, <3>2, <3>3, <3>4, <3>5 DEF Stack
    <2>4. CASE Wake \/ NoKey \/ Draw \/ Paint \/ Flush \/ TimerFlush \/ Second
                 \/ PointerMoves \/ UNCHANGED vars
      <3>1. UNCHANGED <<used, zo, drag_id, prev_button>>
        BY <2>4 DEF Wake, NoKey, Draw, Paint, Flush, TimerFlush, Second, PointerMoves,
                    vars, windows, drag, loop
      <3> QED  BY <2>2, <3>1
    <2>5. CASE HandleMouse
      <3>0. prev_button' = button  BY <2>5 DEF HandleMouse
      <3>1. CASE DragOn
        <4>1. /\ UNCHANGED <<used, zo>> /\ drag_id \in used /\ prev_button
              /\ drag_id' = IF ~button /\ prev_button THEN None ELSE drag_id
          BY <3>1 DEF DragOn, StackInv, StackSound
        <4> QED  BY <3>0, <4>1 DEF StackInv, StackSound, Stack, nw
      <3>2. CASE Press
        <4> DEFINE id == TopHit(seen)
        <4>1. button /\ drag_id = None /\ id \in used
          BY <3>2, TopHitIsOpen DEF Press, StackInv
        <4>2. CASE HitClose(seen, id)
          <5>1. Close(id)  BY <3>2, <4>2 DEF Press
          <5> HIDE DEF id
          <5>2. drag_id' = None  BY <4>1, <5>1, CloseKeeps
          <5> QED  BY <2>1, <4>1, <5>1, <5>2, CloseKeeps
        <4>3. CASE ~HitClose(seen, id)
          <5>1. Raise(id) /\ (drag_id' = id \/ drag_id' = drag_id)
            BY <3>2, <4>3 DEF Press, drag
          <5> HIDE DEF id
          <5>2. used' \subseteq Ids  BY <4>1, <5>1, RaiseKeeps DEF StackInv
          <5> QED  BY <2>1, <3>0, <4>1, <5>1, <5>2, RaiseKeeps
        <4> QED  BY <4>2, <4>3
      <3>3. CASE NoPress
        BY <3>3 DEF NoPress, windows, drag, StackInv, StackSound, Stack, nw
      <3> QED  BY <2>5, <3>1, <3>2, <3>3 DEF HandleMouse
    <2>6. CASE Key
      <3>0. prev_button' = prev_button  BY <2>6 DEF Key
      <3>1. CASE UNCHANGED <<windows, drag>>
        BY <2>2, <3>0, <3>1 DEF windows, drag
      <3>2. CASE \E place \in Places : Open(place) /\ UNCHANGED drag
        <4>1. PICK place \in Places : Open(place) /\ UNCHANGED drag  BY <3>2
        <4>2. drag_id' # None => drag_id' \in used' /\ prev_button'
          BY <3>0, <4>1, OpenKeeps DEF drag, StackInv, StackSound
        <4> QED  BY <2>1, <4>1, <4>2, OpenKeeps
      <3>3. CASE \E id \in used : Close(id)
        <4>1. PICK id \in used : Close(id)  BY <3>3
        <4>2. drag_id' # None => drag_id' \in used' /\ prev_button'
          BY <3>0, <4>1, CloseKeeps DEF StackInv, StackSound
        <4> QED  BY <2>1, <4>1, <4>2, CloseKeeps
      <3>4. CASE \E id \in used : Raise(id) /\ UNCHANGED drag
        <4>1. PICK id \in used : Raise(id) /\ UNCHANGED drag  BY <3>4
        <4>2. drag_id' # None => drag_id' \in used' /\ prev_button'
          BY <3>0, <4>1, RaiseKeeps DEF drag, StackInv, StackSound
        <4>3. used' \subseteq Ids  BY <4>1, RaiseKeeps DEF StackInv
        <4> QED  BY <2>1, <4>1, <4>2, <4>3, RaiseKeeps
      <3> QED  BY <2>6, <3>1, <3>2, <3>3, <3>4 DEF Key, Handler
    <2> QED  BY <2>3, <2>4, <2>5, <2>6 DEF Next, LoopStep
  <1> QED  BY <1>1, <1>2, PTL DEF Spec

(* However presses, drags and key handlers fall together, the stacking order
   holds the open windows, each once, and the window being dragged is one of
   them (wm_open, wm_close, wm_raise, handle_mouse). *)
THEOREM StackStaysSound == Spec => []StackSound
  <1>1. StackInv => StackSound  BY DEF StackInv
  <1> QED  BY <1>1, StackInvHolds, PTL

-----------------------------------------------------------------------------
(***************************************************************************)
(* The repainting                                                          *)
(***************************************************************************)

(* Until it paints them the loop remembers that the windows changed, and the
   timer's flushing is paused as long as it runs. *)
PaintInv ==
    /\ pc \in {"hlt", "mouse", "key", "draw", "reflush"} => ~stale \/ wm_dirty
    /\ pc = "reflush" => ~stale
    /\ ~torn /\ (auto_flush <=> pc = "shell")

LEMMA PaintInvHolds == Spec => []PaintInv
  <1>1. Init => PaintInv  BY DEF Init, PaintInv
  <1>2. PaintInv /\ [Next]_vars => PaintInv'
    <2> SUFFICES ASSUME PaintInv, [Next]_vars PROVE PaintInv'  OBVIOUS
    <2>1. CASE \E place \in Places : Gui(place)
      BY <2>1 DEF Gui, PaintInv
    <2>2. CASE Wake
      BY <2>2 DEF Wake, display, PaintInv
    <2>3. CASE HandleMouse
      <3>1. /\ pc = "mouse" /\ pc' = "key"
            /\ stale' = (stale \/ windows' # windows)
            /\ UNCHANGED <<torn, auto_flush>>
        BY <2>3 DEF HandleMouse, Stales
      <3>2. wm_dirty' \/ (windows' = windows /\ ~wm_dirty)
        BY <2>3 DEF HandleMouse, DragOn, Press, NoPress
      <3> QED  BY <3>1, <3>2 DEF PaintInv
    <2>4. CASE NoKey
      BY <2>4 DEF NoKey, display, PaintInv
    <2>5. CASE Key
      BY <2>5 DEF Key, DirtyAfterKey, PaintInv
    <2>6. CASE Draw
      <3>1. pc = "draw" /\ UNCHANGED <<stale, torn>>  BY <2>6 DEF Draw, display
      <3>2. \/ pc' = "paint" /\ UNCHANGED auto_flush
            \/ ~wm_dirty /\ pc' = "reflush" /\ UNCHANGED <<wm_dirty, auto_flush>>
            \/ Round /\ UNCHANGED wm_dirty
        BY <2>6 DEF Draw, DirtyNow
      <3>3. CASE pc' = "paint" /\ UNCHANGED auto_flush
        BY <3>1, <3>3 DEF PaintInv
      <3>4. CASE ~wm_dirty /\ pc' = "reflush" /\ UNCHANGED <<wm_dirty, auto_flush>>
        BY <3>1, <3>4 DEF PaintInv
      <3>5. CASE Round /\ UNCHANGED wm_dirty
        BY <3>1, <3>5 DEF Round, PaintInv
      <3> QED  BY <3>2, <3>3, <3>4, <3>5
    <2>7. CASE Paint
      BY <2>7 DEF Paint, display, PaintInv
    <2>8. CASE Flush
      <3>1. /\ pc \in {"flush", "reflush"} /\ stale' = (stale /\ pc = "reflush")
            /\ torn' = FALSE /\ UNCHANGED wm_dirty /\ Round
        BY <2>8 DEF Flush
      <3> QED  BY <3>1 DEF Round, PaintInv
    <2>9. CASE TimerFlush
      BY <2>9 DEF TimerFlush, loop, PaintInv
    <2>10. CASE Second
      BY <2>10 DEF Second, display, PaintInv
    <2>11. CASE PointerMoves
      BY <2>11 DEF PointerMoves, loop, display, PaintInv
    <2>12. CASE UNCHANGED vars
      BY <2>12 DEF vars, loop, display, PaintInv
    <2> QED
      BY <2>1, <2>2, <2>3, <2>4, <2>5, <2>6, <2>7, <2>8, <2>9, <2>10, <2>11, <2>12
         DEF Next, LoopStep
  <1> QED  BY <1>1, <1>2, PTL DEF Spec

(* No change of the windows is forgotten, and no scene is shown half painted
   (wm_dirty, render_pause_auto). *)
THEOREM ScreenIsCurrent == Spec => []ShownIsCurrent
  <1>1. PaintInv => ShownIsCurrent  BY DEF PaintInv, ShownIsCurrent
  <1> QED  BY <1>1, PaintInvHolds, PTL

-----------------------------------------------------------------------------
(***************************************************************************)
(* Types                                                                   *)
(***************************************************************************)
LEMMA PollTypes ==
    ASSUME PointerTypeOK, Poll
    PROVE  PointerTypeOK'
  <1>1. tablet_buf.at \in Positions /\ tablet_buf.button \in BOOLEAN
    BY DEF PointerTypeOK
  <1> QED  BY <1>1 DEF Poll, PointerTypeOK, mouse

LEMMA PointerMoveTypes ==
    ASSUME PointerTypeOK, PointerMoves
    PROVE  PointerTypeOK'
  <1>1. ASSUME NEW d \in Motions, NEW b \in BOOLEAN, MousePacket(d, b)
        PROVE  PointerTypeOK'
    BY <1>1 DEF MousePacket, PointerTypeOK, Positions, tablet
  <1>2. ASSUME NEW r \in Reports, TabletReport(r) PROVE PointerTypeOK'
    BY <1>2 DEF TabletReport, PointerTypeOK, Reports, Positions, mouse
  <1>3. ASSUME TabletError PROVE PointerTypeOK'
    BY <1>3 DEF TabletError, PointerTypeOK, mouse
  <1> QED  BY <1>1, <1>2, <1>3 DEF PointerMoves

(* The windows and the drag, where a window is opened, closed or raised. *)
PlaceTypes ==
    /\ rect \in [Ids -> Int \X Int] /\ drag_off \in Int \X Int
    /\ drag_id \in Ids \cup {None}

LEMMA HandlerTypes ==
    ASSUME StackInv, PlaceTypes
    PROVE  /\ \A place \in Places : Open(place) /\ UNCHANGED drag => PlaceTypes'
           /\ \A id \in used : Close(id) => PlaceTypes'
           /\ \A id \in used : Raise(id) /\ UNCHANGED drag => PlaceTypes'
  <1>0. Origin \in Int \X Int  BY DEF Origin
  <1>1. ASSUME NEW place \in Places, Open(place), UNCHANGED drag PROVE PlaceTypes'
    <2>1. place \in Int \X Int  BY DesktopAssumption DEF DesktopAssumption
    <2>2. rect' = rect \/ \E i : rect' = [rect EXCEPT ![i] = place]
      BY <1>1 DEF Open, windows
    <2> QED  BY <1>1, <2>1, <2>2 DEF PlaceTypes, drag
  <1>2. ASSUME NEW id \in used, Close(id) PROVE PlaceTypes'
    BY <1>0, <1>2 DEF Close, DragAfterClose, PlaceTypes
  <1>3. ASSUME NEW id \in used, Raise(id), UNCHANGED drag PROVE PlaceTypes'
    BY <1>3 DEF Raise, PlaceTypes, drag
  <1> QED  BY <1>1, <1>2, <1>3

LEMMA MouseTypes ==
    ASSUME StackInv, PlaceTypes, seen \in Positions, DragOn \/ Press \/ NoPress
    PROVE  PlaceTypes'
  <1>0. /\ Origin \in Int \X Int /\ seen \in Int \X Int /\ taskbar_y \in Int
        /\ WM_MAX_WINDOWS \in Nat
    BY PointerAssumption, DesktopAssumption
       DEF PointerAssumption, DesktopAssumption, Origin, taskbar_y, Positions, Corner
  <1>1. CASE DragOn
    <2>1. Dragged(seen) \in Int \X Int  BY <1>0 DEF Dragged, PlaceTypes
    <2> QED  BY <1>0, <1>1, <2>1 DEF DragOn, PlaceTypes
  <1>2. CASE Press
    <2> DEFINE id == TopHit(seen)
    <2>1. id \in used /\ id \in Ids
      BY <1>2, TopHitIsOpen DEF Press, StackInv
    <2>2. CASE HitClose(seen, id)
      <3>1. Close(id)  BY <1>2, <2>2 DEF Press
      <3> HIDE DEF id
      <3> QED  BY <2>1, <3>1, HandlerTypes
    <2>3. CASE ~HitClose(seen, id)
      <3>1. /\ rect' = rect
            /\ \/ /\ drag_id' = id
                  /\ drag_off' = <<seen[1] - rect[id][1], seen[2] - rect[id][2]>>
               \/ UNCHANGED <<drag_id, drag_off>>
        BY <1>2, <2>3 DEF Press, Raise, drag
      <3> HIDE DEF id
      <3>2. <<seen[1] - rect[id][1], seen[2] - rect[id][2]>> \in Int \X Int
        <4>1. rect[id] \in Int \X Int  BY <2>1 DEF PlaceTypes
        <4> QED  BY <1>0, <4>1
      <3> QED  BY <2>1, <3>1, <3>2 DEF PlaceTypes
    <2> QED  BY <2>2, <2>3
  <1>3. CASE NoPress
    BY <1>3 DEF NoPress, windows, drag, PlaceTypes
  <1> QED  BY <1>1, <1>2, <1>3

(* Every variable keeps its type. *)
THEOREM TypeCorrect == Spec => []TypeOK
  <1>0. /\ WM_MAX_WINDOWS \in Nat \ {0} /\ Centre \in Positions /\ Origin \in Int \X Int
        /\ Places \subseteq Int \X Int /\ 0 \in Ids
    BY DesktopAssumption DEF DesktopAssumption, Origin, Ids, Positions
  (* The rest of the types, without those the lemmas above give. *)
  <1> DEFINE Rest ==
        /\ PointerTypeOK /\ PlaceTypes
        /\ prev_pos \in Positions /\ seen \in Positions
        /\ {prev_button, wm_dirty, cursor_dirty, last_sec, auto_flush, stale, torn}
             \subseteq BOOLEAN
        /\ pc \in {"shell", "hlt", "mouse", "key", "draw", "paint", "flush", "reflush"}
        /\ shown \in Positions \cup {<<None, None>>}
  <1>1. Init => Rest
    <2> SUFFICES ASSUME Init PROVE Rest  OBVIOUS
    <2>1. PointerTypeOK
      BY <1>0 DEF Init, PointerInit, PointerTypeOK, Positions
    <2>2. PlaceTypes  BY <1>0 DEF Init, PlaceTypes
    <2> QED  BY <1>0, <2>1, <2>2 DEF Init
  <1>2. StackInv /\ Rest /\ [Next]_vars => Rest'
    <2> SUFFICES ASSUME StackInv, Rest, [Next]_vars PROVE Rest'  OBVIOUS
    <2>1. CASE \E place \in Places : Gui(place)
      <3>1. PICK place \in Places : Gui(place)  BY <2>1
      <3>2. PointerTypeOK'
        BY <3>1 DEF Gui, pointer, mouse, tablet, PointerTypeOK
      <3>3. PlaceTypes'
        BY <1>0, <3>1 DEF Gui, PlaceTypes
      <3> QED  BY <1>0, <3>1, <3>2, <3>3 DEF Gui
    <2>2. CASE Wake
      <3>1. PointerTypeOK'  BY <2>2, PollTypes DEF Wake
      <3>2. seen' \in Positions  BY <2>2, <3>1 DEF Wake, PointerTypeOK
      <3> QED  BY <2>2, <3>1, <3>2 DEF Wake, windows, drag, display, PlaceTypes
    <2>3. CASE HandleMouse
      <3>1. PlaceTypes'  BY <2>3, MouseTypes DEF HandleMouse
      <3>2. PointerTypeOK' /\ button \in BOOLEAN
        BY <2>3 DEF HandleMouse, pointer, mouse, tablet, PointerTypeOK
      <3>3. wm_dirty' \in BOOLEAN
        BY <2>3 DEF HandleMouse, DragOn, Press, NoPress
      <3>4. stale' \in BOOLEAN /\ cursor_dirty' \in BOOLEAN
        BY <2>3 DEF HandleMouse, Stales
      <3>5. /\ UNCHANGED <<last_sec, auto_flush, torn, shown>>
            /\ prev_pos' = seen /\ prev_button' = button /\ seen' = Centre /\ pc' = "key"
        BY <2>3 DEF HandleMouse
      <3> QED  BY <1>0, <3>1, <3>2, <3>3, <3>4, <3>5
    <2>4. CASE NoKey
      BY <2>4 DEF NoKey, windows, drag, display, pointer, mouse, tablet, PointerTypeOK,
                  PlaceTypes
    <2>5. CASE Key
      <3>1. PlaceTypes'
        <4>1. CASE UNCHANGED <<windows, drag>>
          BY <4>1 DEF windows, drag, PlaceTypes
        <4>2. CASE ~UNCHANGED <<windows, drag>>
          BY <2>5, <4>2, HandlerTypes DEF Key, Handler
        <4> QED  BY <4>1, <4>2
      <3>2. PointerTypeOK'  BY <2>5 DEF Key, pointer, mouse, tablet, PointerTypeOK
      <3> QED  BY <2>5, <3>1, <3>2 DEF Key, Stales, DirtyAfterKey
    <2>6. CASE Draw
      <3>1. PointerTypeOK'  BY <2>6, PollTypes DEF Draw
      <3>2. seen' \in Positions  BY <1>0, <2>6, <3>1 DEF Draw, PointerTypeOK
      <3>3. /\ {wm_dirty', cursor_dirty', auto_flush'} \subseteq BOOLEAN
            /\ pc' \in {"shell", "hlt", "paint", "reflush"}
        BY <2>6 DEF Draw, Round
      <3> QED
        BY <2>6, <3>1, <3>2, <3>3 DEF Draw, windows, drag, display, PlaceTypes
    <2>7. CASE Paint
      BY <2>7 DEF Paint, windows, drag, display, pointer, mouse, tablet, PointerTypeOK,
                  PlaceTypes
    <2>8. CASE Flush
      <3>1. auto_flush' \in BOOLEAN /\ pc' \in {"shell", "hlt"}
        BY <2>8 DEF Flush, Round
      <3>2. PointerTypeOK'  BY <2>8 DEF Flush, pointer, mouse, tablet, PointerTypeOK
      <3>3. stale' \in BOOLEAN  BY <2>8 DEF Flush
      <3> QED
        BY <1>0, <2>8, <3>1, <3>2, <3>3 DEF Flush, windows, drag, PlaceTypes
    <2>9. CASE TimerFlush
      BY <2>9 DEF TimerFlush, windows, drag, loop, pointer, mouse, tablet, PointerTypeOK,
                  PlaceTypes
    <2>10. CASE Second
      BY <2>10 DEF Second, windows, drag, display, pointer, mouse, tablet, PointerTypeOK,
                   PlaceTypes
    <2>11. CASE PointerMoves
      <3>1. PointerTypeOK'  BY <2>11, PointerMoveTypes
      <3>2. UNCHANGED <<windows, drag, loop, display>>  BY <2>11 DEF PointerMoves
      <3> QED  BY <3>1, <3>2 DEF windows, drag, loop, display, PlaceTypes
    <2>12. CASE UNCHANGED vars
      BY <2>12 DEF vars, windows, drag, loop, display, pointer, mouse, tablet,
                   PointerTypeOK, PlaceTypes
    <2> QED
      BY <2>1, <2>2, <2>3, <2>4, <2>5, <2>6, <2>7, <2>8, <2>9, <2>10, <2>11, <2>12
         DEF Next, LoopStep
  <1>3. StackInv /\ Rest => TypeOK
    BY DEF StackInv, Stack, PlaceTypes, TypeOK
  <1> HIDE DEF Rest
  <1> QED  BY <1>1, <1>2, <1>3, StackInvHolds, PTL DEF Spec

=============================================================================

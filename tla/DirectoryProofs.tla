-------------------------- MODULE DirectoryProofs --------------------------
(***************************************************************************)
(* The slots of a directory, for every set of names, cluster size and      *)
(* power loss.  A structural invariant says what stands before each 8.3    *)
(* slot; from it both walks, recursive functions over the slots, are shown *)
(* to return what a condition on single slots says.  As long as no hole is *)
(* made the listing is then exactly what was created, and the slots        *)
(* implement the set of entries of module NameSpace.  Where all entries    *)
(* are pairs of slots no hole can be made.                                 *)
(***************************************************************************)
EXTENDS Directory, FiniteSetTheorems, SequenceTheorems, NaturalsInduction,
        WellFoundedInduction, TLAPS

(***************************************************************************)
(* The invariant                                                           *)
(***************************************************************************)
SlotValues == {Zero, Deleted, Label, Dot, DotDot}
                \cup {Short(n) : n \in Names}
                \cup UNION {{Lfn(n, k) : k \in 1 .. Len(n)} : n \in Names}

(* The c slots before slot p, first to last. *)
RunAt(p, c) == [k \in 1 .. c |-> p - c - 1 + k]

(* Slot p is the 8.3 slot of n, with the last c of its LFN slots before it. *)
Chain(sl, p, n, c) ==
    /\ p \in 1 .. Len(sl) /\ n \in Names /\ c \in 0 .. Len(n) /\ c < p
    /\ sl[p] = Short(n) /\ \A k \in 1 .. c : sl[p - k] = Lfn(n, k)

(* The chain has all of n, or what stands before it is no LFN slot. *)
Block(sl, p, n, c) ==
    /\ Chain(sl, p, n, c)
    /\ c = Len(n) \/ p - c = 1 \/ sl[p - c - 1].kind # "lfn"

Complete(sl, p, n) == n \in Names /\ Chain(sl, p, n, Len(n))

IsShort(sl, p) == p \in 1 .. Len(sl) /\ sl[p].kind = "short"

LaidOut(sl) ==
    /\ sl \in Seq(SlotValues) /\ Len(Header) <= Len(sl)
    /\ \A i \in 1 .. Len(Header) : sl[i] = Header[i]
    /\ \A p \in 1 .. Len(sl) :
         p > Len(Header) /\ sl[p].kind = "short" =>
           \E n \in Names : \E c \in 0 .. Len(n) : Block(sl, p, n, c)

(* dir_write_entry: what is written stands before at, the rest is free. *)
Putting ==
    /\ at \in 1 .. Len(slots) /\ seq \in 0 .. Len(name)
    /\ at > Len(name) - seq
    /\ \A k \in 1 .. Len(name) : k > seq =>
         slots[at - (k - seq)] = Lfn(name, k)
    /\ \A i \in 1 .. Len(slots) : at <= i /\ i <= at + seq => IsFree(slots[i])

(* fat32_delete: the slots to mark are a block. *)
MarkingOf(p, n, c) == Block(slots, p, n, c) /\ todo = RunAt(p + 1, c + 1)
Marking == \E p \in 1 .. Len(slots) : \E n \in Names : \E c \in 0 .. Len(n) :
             MarkingOf(p, n, c)

Structure ==
    /\ LaidOut(slots)
    /\ \E c \in 1 .. MaxClusters : Len(slots) = DirSlots * c
    /\ pc \in {"idle", "put", "mark"} /\ name \in Names
    /\ pc = "put" => Putting
    /\ pc = "mark" => Marking
    /\ ret \in {0, -1} /\ known \in SUBSET Names /\ whole \in BOOLEAN

(* While no operation was interrupted: the complete entries are the known
   names, each once, and every other slot belongs to the operation. *)
InEntry(sl, i) == \E p \in 1 .. Len(sl) : \E n \in Names :
                    Complete(sl, p, n) /\ p - Len(n) <= i /\ i < p
Alive(n) == \E p \in 1 .. Len(slots) : Complete(slots, p, n)

KnownAlive ==
    /\ \A n \in Names : (pc = "mark" /\ n = name) \/ (n \in known <=> Alive(n))
    /\ \A p, q \in 1 .. Len(slots) : \A n \in Names :
         Complete(slots, p, n) /\ Complete(slots, q, n) => p = q
    /\ pc = "put" => name \notin known

AllOwned ==
    /\ \A p \in 1 .. Len(slots) : p > Len(Header) /\ slots[p].kind = "short" =>
         \/ \E n \in Names : Complete(slots, p, n)
         \/ pc = "mark" /\ p = todo[Len(todo)]
    /\ \A i \in 1 .. Len(slots) : slots[i].kind = "lfn" =>
         \/ InEntry(slots, i)
         \/ pc = "put" /\ at - (Len(name) - seq) <= i /\ i < at
         \/ pc = "mark" /\ \E k \in 1 .. Len(todo) : todo[k] = i

(* The entry being deleted is the only one of its name. *)
MarkingName ==
    pc = "mark" =>
      /\ \E p \in 1 .. Len(slots) : \E c \in 0 .. Len(name) : MarkingOf(p, name, c)
      /\ \A q \in 1 .. Len(slots) :
           Complete(slots, q, name) => q = todo[Len(todo)]

WholeInv == whole => KnownAlive /\ AllOwned /\ MarkingName

(***************************************************************************)
(* Slots and numbers                                                       *)
(***************************************************************************)

(* A set of numbers that is not empty has a least one. *)
LEMMA LeastOf ==
    ASSUME NEW S \in SUBSET Nat, S # {}
    PROVE  \E n \in S : \A k \in S : n <= k
  <1>1. PICK n \in S : \A k \in S : <<k, n>> \notin OpToRel(<, Nat)
    BY NatLessThanWellFounded, WFMin
  <1>2. OpToRel(<, Nat) = {ss \in Nat \X Nat : ss[1] < ss[2]}
    BY Zenon DEF OpToRel
  <1>3. \A k \in S : k \in Nat /\ n \in Nat /\ ~(k < n)  BY <1>1, <1>2
  <1> QED  BY <1>3

LEMMA MinIs ==
    ASSUME NEW S \in SUBSET Nat, S # {}
    PROVE  Min(S) \in S /\ \A k \in S : Min(S) <= k
  <1>1. \E n \in S : \A k \in S : n <= k  BY LeastOf
  <1> QED  BY <1>1 DEF Min

(* The longest name. *)
LEMMA LongestIs ==
    /\ MaxParts \in Nat /\ MaxParts >= 1
    /\ \A n \in Names : Len(n) \in Nat /\ Len(n) >= 1 /\ Len(n) <= MaxParts
  <1>1. Names # {} /\ IsFiniteSet(Names) /\ Names \subseteq Seq(Parts)
        /\ \A n \in Names : Len(n) >= 1
    BY DirectoryAssumption DEF DirectoryAssumption
  <1>2. \A n \in Names : Len(n) \in Nat  BY <1>1
  <1> DEFINE Lens  == {Len(n) : n \in Names}
             Bound == {b \in Nat : \A n \in Names : Len(n) <= b}
  <1>3. PICK N \in Nat : ExistsSurjection(1 .. N, Names)
    BY <1>1, FS_NatSurjection
  <1>4. PICK g \in [1 .. N -> Names] : \A n \in Names : \E j \in 1 .. N : g[j] = n
    BY <1>3 DEF ExistsSurjection, Surjection
  <1> DEFINE Bad == {k \in Nat : k <= N /\ \A b \in Nat :
                                   \E j \in 1 .. k : ~(Len(g[j]) <= b)}
  <1>5. Bad = {}
    <2>1. SUFFICES ASSUME Bad # {} PROVE FALSE  OBVIOUS
    <2>2. PICK k \in Bad : \A j \in Bad : k <= j
      <3>1. Bad \in SUBSET Nat  OBVIOUS
      <3> HIDE DEF Bad
      <3> QED  BY <2>1, <3>1, LeastOf
    <2>3. k # 0  OBVIOUS
    <2>4. k - 1 \in Nat /\ k - 1 \notin Bad
      <3> HIDE DEF Bad
      <3>1. k \in Nat  BY DEF Bad
      <3> QED  BY <2>2, <2>3, <3>1
    <2>5. PICK b \in Nat : \A j \in 1 .. k - 1 : Len(g[j]) <= b  BY <2>4
    <2>6. k \in 1 .. N /\ Len(g[k]) \in Nat  BY <1>2, <2>3
    <2>7. PICK c \in Nat : c >= b /\ c >= Len(g[k])
      <3>1. CASE b >= Len(g[k])  BY <3>1, <2>6
      <3>2. CASE ~(b >= Len(g[k]))  BY <3>2, <2>6
      <3> QED  BY <3>1, <3>2
    <2>8. \A j \in 1 .. k : Len(g[j]) <= c
      <3>1. \A j \in 1 .. k : j = k \/ j \in 1 .. k - 1  BY <2>6
      <3>2. \A j \in 1 .. k - 1 : Len(g[j]) \in Nat  BY <1>2, <2>6
      <3> QED  BY <2>5, <2>6, <2>7, <3>1, <3>2
    <2> QED  BY <2>8
  <1>6. Bound # {}
    <2>1. N \notin Bad  BY <1>5
    <2>2. PICK b \in Nat : \A j \in 1 .. N : Len(g[j]) <= b  BY <2>1
    <2>3. \A n \in Names : Len(n) <= b  BY <1>4, <2>2
    <2> QED  BY <2>3
  <1>7. PICK b \in Bound : \A k \in Bound : b <= k
    <2>1. Bound \in SUBSET Nat  OBVIOUS
    <2> HIDE DEF Bound
    <2> QED  BY <1>6, <2>1, LeastOf
  <1>8. \E n \in Names : Len(n) = b
    <2>1. SUFFICES ASSUME \A n \in Names : Len(n) # b PROVE FALSE  OBVIOUS
    <2>2. b \in Nat /\ \A n \in Names : Len(n) <= b - 1  BY <1>2, <2>1
    <2>3. b - 1 \in Nat  BY <1>1, <1>2, <2>2
    <2>4. b - 1 \in Bound  BY <2>2, <2>3
    <2>5. ~(b <= b - 1)  BY <2>2
    <2> HIDE DEF Bound
    <2> QED  BY <1>7, <2>4, <2>5
  <1>9. b \in Lens /\ \A y \in Lens : b >= y  BY <1>2, <1>8
  <1>10. MaxParts \in Lens /\ \A y \in Lens : MaxParts >= y
    BY <1>9 DEF MaxParts, Max
  <1> QED  BY <1>1, <1>2, <1>10

(* The fields of the slots that the walks look at. *)
LEMMA SlotFields ==
    /\ Zero.kind = "zero" /\ Deleted.kind = "deleted" /\ Label.kind = "label"
    /\ Dot.kind = "short" /\ DotDot.kind = "short"
    /\ Dot.name = <<".">> /\ DotDot.name = <<"..">>
    /\ \A n : Short(n).kind = "short" /\ Short(n).name = Alias[n]
    /\ \A n, k : /\ Lfn(n, k).kind = "lfn" /\ Lfn(n, k).seq = k
                 /\ Lfn(n, k).part = n[k] /\ Lfn(n, k).sum = Alias[n]
  BY DEF Zero, Deleted, Label, Dot, DotDot, Short, Lfn

LEMMA LfnLast ==
    ASSUME NEW n, NEW k PROVE Lfn(n, k).last <=> k = Len(n)
  BY Zenon DEF Lfn

LEMMA SlotKinds ==
    ASSUME NEW e \in SlotValues
    PROVE  /\ e.kind \in {"zero", "deleted", "label", "lfn", "short"}
           /\ e.kind = "zero" <=> e = Zero
           /\ e.kind = "lfn" => \E n \in Names : \E k \in 1 .. Len(n) : e = Lfn(n, k)
           /\ e.kind = "short" => e \in {Dot, DotDot} \/ \E n \in Names : e = Short(n)
  <1> USE SlotFields
  <1>1. CASE e \in {Zero, Deleted, Label, Dot, DotDot}  BY <1>1
  <1>2. CASE \E n \in Names : e = Short(n)
    <2>1. e.kind = "short"  BY <1>2
    <2>2. e # Zero  BY <2>1
    <2> QED  BY <1>2, <2>1, <2>2
  <1>3. CASE \E n \in Names : \E k \in 1 .. Len(n) : e = Lfn(n, k)
    <2>1. e.kind = "lfn"  BY <1>3
    <2>2. e # Zero  BY <2>1
    <2> QED  BY <1>3, <2>1, <2>2
  <1> QED  BY <1>1, <1>2, <1>3 DEF SlotValues

(***************************************************************************)
(* The walks                                                               *)
(***************************************************************************)
HoleFree(sl) ==
    \A i, j \in 1 .. Len(sl) : i < j /\ sl[i] = Zero => IsFree(sl[j])

EndOf(sl) == Min({i \in 1 .. Len(sl) + 1 : i > Len(sl) \/ sl[i] = Zero})

(* The walk stops before the first 0x00 slot, behind every used slot. *)
LEMMA EndIs ==
    ASSUME NEW sl \in Seq(SlotValues)
    PROVE  /\ Len(sl) \in Nat /\ EndOf(sl) \in 1 .. Len(sl) + 1
           /\ HoleFree(sl) => \A i \in 1 .. Len(sl) : IsFree(sl[i]) \/ i < EndOf(sl)
  <1> DEFINE S == {i \in 1 .. Len(sl) + 1 : i > Len(sl) \/ sl[i] = Zero}
  <1>1. Len(sl) \in Nat  OBVIOUS
  <1>2. Len(sl) + 1 \in S /\ S \in SUBSET Nat  BY <1>1
  <1>3. EndOf(sl) \in S /\ \A k \in S : EndOf(sl) <= k
    <2>1. EndOf(sl) = Min(S)  BY DEF EndOf
    <2> HIDE DEF S
    <2> QED  BY <1>2, <2>1, MinIs
  <1>4. ASSUME HoleFree(sl), NEW i \in 1 .. Len(sl), ~(i < EndOf(sl))
        PROVE  IsFree(sl[i])
    <2>1. EndOf(sl) \in 1 .. Len(sl) /\ sl[EndOf(sl)] = Zero  BY <1>1, <1>3, <1>4
    <2>2. EndOf(sl) = i \/ EndOf(sl) < i  BY <1>4, <2>1
    <2> QED  BY <1>4, <2>1, <2>2, SlotFields DEF HoleFree, IsFree
  <1> QED  BY <1>1, <1>3, <1>4

Start(junk) == [run |-> <<>>, expect |-> -1, sum |-> <<>>, found |-> {},
                buf |-> junk]

NextScan(s, e, i, strict) ==
    CASE e.kind = "lfn"   -> TakeLfn(s, e, i, strict)
      [] e.kind = "short" -> TakeShort(s, e, i)
      [] OTHER            -> [s EXCEPT !.run = <<>>, !.expect = -1]

ScanOf(sl, strict, junk, m, W) ==
    W = [i \in 0 .. m |-> IF i = 0 THEN Start(junk)
                          ELSE NextScan(W[i - 1], sl[i], i, strict)]

(* The recursive definition of a walk has a solution. *)
LEMMA ScanExists ==
    ASSUME NEW sl, NEW strict, NEW junk, NEW n \in Nat
    PROVE  \E W : ScanOf(sl, strict, junk, n, W)
  <1> DEFINE St(s, i) == NextScan(s, sl[i], i, strict)
             To(m, f) == f = [i \in 0 .. m |-> IF i = 0 THEN Start(junk)
                                               ELSE St(f[i - 1], i)]
             Off == {m \in Nat : \A f : ~To(m, f)}
  <1>1. ASSUME Off # {} PROVE FALSE
    <2> HIDE DEF St
    <2>1. PICK m \in Off : \A j \in Off : m <= j
      <3>1. Off \in SUBSET Nat  OBVIOUS
      <3> HIDE DEF Off
      <3> QED  BY <1>1, <3>1, LeastOf
    <2>2. m \in Nat /\ \A f : ~To(m, f)  OBVIOUS
    <2>3. CASE m = 0
      <3> DEFINE g == [i \in 0 .. 0 |-> Start(junk)]
      <3>1. To(0, g)  OBVIOUS
      <3> QED  BY <2>2, <2>3, <3>1
    <2>4. CASE m # 0
      <3>1. m - 1 \in Nat /\ ~(m <= m - 1)  BY <2>2, <2>4
      <3>2. m - 1 \notin Off
        <4> HIDE DEF Off
        <4> QED  BY <2>1, <3>1
      <3>3. PICK f : To(m - 1, f)  BY <3>1, <3>2
      <3>4. \A k \in 0 .. m - 1 :
              f[k] = IF k = 0 THEN Start(junk) ELSE St(f[k - 1], k)
        BY <3>3
      <3> DEFINE g == [k \in 0 .. m |->
                         IF k = m THEN St(f[m - 1], m) ELSE f[k]]
      <3>5. ASSUME NEW k \in 0 .. m
            PROVE  g[k] = IF k = 0 THEN Start(junk) ELSE St(g[k - 1], k)
        <4>1. CASE k = m
          <5>1. g[k] = St(f[m - 1], m)  BY <4>1
          <5>2. g[k - 1] = f[m - 1] /\ k # 0  BY <4>1, <2>4, <3>1
          <5> QED  BY <4>1, <5>1, <5>2
        <4>2. CASE k # m
          <5>1. k \in 0 .. m - 1  BY <4>2, <3>1
          <5>2. g[k] = f[k]  BY <4>2
          <5>3. k # 0 => g[k - 1] = f[k - 1]  BY <3>1, <5>1
          <5> QED  BY <3>4, <5>1, <5>2, <5>3
        <4> QED  BY <4>1, <4>2
      <3>6. g = [k \in 0 .. m |-> g[k]]  OBVIOUS
      <3> HIDE DEF g
      <3>7. To(m, g)  BY <3>5, <3>6
      <3> QED  BY <2>2, <3>7
    <2> QED  BY <2>3, <2>4
  <1>2. PICK f : To(n, f)
    <2>1. n \notin Off
      <3> HIDE DEF Off
      <3> QED  BY <1>1
    <2> QED  BY <2>1
  <1> QED  BY <1>2 DEF ScanOf

(* A walk returns what its last step has found. *)
LEMMA WalkIs ==
    ASSUME NEW sl \in Seq(SlotValues), NEW strict, NEW junk
    PROVE  \E W : /\ ScanOf(sl, strict, junk, EndOf(sl) - 1, W)
                  /\ Walk(sl, strict, junk) = W[EndOf(sl) - 1].found
  <1> DEFINE TheScan == CHOOSE W : ScanOf(sl, strict, junk, EndOf(sl) - 1, W)
  <1>1. EndOf(sl) - 1 \in Nat  BY EndIs
  <1>2. ScanOf(sl, strict, junk, EndOf(sl) - 1, TheScan)  BY <1>1, ScanExists
  <1>3. Walk(sl, strict, junk) = TheScan[EndOf(sl) - 1].found
    BY Zenon DEF Walk, ScanOf, EndOf, Start, NextScan
  <1> QED  BY <1>2, <1>3

(* The entry a walk finds at an 8.3 slot. *)
HitOf(s, e, i) ==
    [at |-> i, run |-> s.run,
     name |-> IF s.run # <<>> /\ s.buf[1] # None THEN LongName(s.buf) ELSE e.name]

IsBuf(b)  == b = [k \in 1 .. MaxParts |-> b[k]]
IsScan(s) ==
    /\ s = [run |-> s.run, expect |-> s.expect, sum |-> s.sum,
            found |-> s.found, buf |-> s.buf]
    /\ s.run \in Seq(Nat) /\ IsBuf(s.buf)

LEMMA ScanReset ==
    ASSUME NEW s, IsScan(s), NEW r, NEW x, NEW f
    PROVE  /\ [s EXCEPT !.run = r, !.expect = x, !.found = f] =
                [run |-> r, expect |-> x, sum |-> s.sum, found |-> f, buf |-> s.buf]
           /\ [s EXCEPT !.run = r, !.expect = x] =
                [run |-> r, expect |-> x, sum |-> s.sum, found |-> s.found,
                 buf |-> s.buf]
  <1> DEFINE Fields == {"run", "expect", "sum", "found", "buf"}
             With(g) == [run |-> r, expect |-> x, sum |-> s.sum, found |-> g,
                         buf |-> s.buf]
             Other(g) == [n \in Fields |-> CASE n = "run" -> r
                                             [] n = "expect" -> x
                                             [] n = "found" -> g
                                             [] OTHER -> s[n]]
  <1>1. s = [n \in Fields |-> s[n]]  BY DEF IsScan
  <1>2. \A g : With(g) = Other(g)  OBVIOUS
  <1>3. [s EXCEPT !.run = r, !.expect = x, !.found = f] = Other(f)  BY <1>1
  <1>4. [s EXCEPT !.run = r, !.expect = x] = Other(s.found)  BY <1>1
  <1> QED  BY <1>2, <1>3, <1>4

(* What one slot does to a walk. *)
LEMMA StepStart ==
    ASSUME NEW junk, IsBuf(junk)
    PROVE  /\ IsScan(Start(junk)) /\ Start(junk).run = <<>>
           /\ Start(junk).expect = -1 /\ Start(junk).found = {}
  BY DEF Start, IsScan

LEMMA StepOther ==
    ASSUME NEW s, IsScan(s), NEW e, e.kind # "lfn", e.kind # "short",
           NEW i \in Nat, NEW strict
    PROVE  LET t == NextScan(s, e, i, strict)
           IN  /\ IsScan(t) /\ t.found = s.found /\ t.run = <<>> /\ t.expect = -1
  <1>1. NextScan(s, e, i, strict) = [s EXCEPT !.run = <<>>, !.expect = -1]
    BY DEF NextScan
  <1>2. [s EXCEPT !.run = <<>>, !.expect = -1] =
          [run |-> <<>>, expect |-> -1, sum |-> s.sum, found |-> s.found,
           buf |-> s.buf]
    BY ScanReset
  <1> QED  BY <1>1, <1>2 DEF IsScan

LEMMA StepShort ==
    ASSUME NEW s, IsScan(s), NEW e, e.kind = "short", NEW i \in Nat, NEW strict
    PROVE  LET t == NextScan(s, e, i, strict)
           IN  /\ IsScan(t) /\ t.found = s.found \cup {HitOf(s, e, i)}
               /\ t.run = <<>> /\ t.expect = -1
  <1>1. NextScan(s, e, i, strict) = TakeShort(s, e, i)  BY DEF NextScan
  <1>2. TakeShort(s, e, i) =
          [run |-> <<>>, expect |-> -1, sum |-> s.sum,
           found |-> s.found \cup {HitOf(s, e, i)}, buf |-> s.buf]
    <2> DEFINE f == s.found \cup {HitOf(s, e, i)}
    <2>1. TakeShort(s, e, i) =
            [s EXCEPT !.run = <<>>, !.expect = -1, !.found = f]
      BY DEF IsScan, TakeShort, HitOf
    <2> HIDE DEF f
    <2>2. PICK x : x = -1  OBVIOUS
    <2>3. TakeShort(s, e, i) =
            [run |-> <<>>, expect |-> x, sum |-> s.sum, found |-> f,
             buf |-> s.buf]
      BY <2>1, <2>2, ScanReset
    <2> QED  BY <2>2, <2>3 DEF f
  <1> QED  BY <1>1, <1>2 DEF IsScan

LEMMA StepLast ==
    ASSUME NEW s, IsScan(s), NEW n \in Names, NEW i \in Nat, NEW strict
    PROVE  LET k == Len(n)
               t == NextScan(s, Lfn(n, k), i, strict)
           IN  /\ IsScan(t) /\ t.found = s.found
               /\ t.run = <<i>> /\ t.expect = k - 1 /\ t.sum = Alias[n]
               /\ \A j \in 1 .. MaxParts : t.buf[j] = IF j = k THEN n[k] ELSE None
  <1> DEFINE k == Len(n)
             e == Lfn(n, k)
             b == [j \in 1 .. MaxParts |-> IF j = k THEN n[k] ELSE None]
  <1>1. e.kind = "lfn" /\ e.seq = k /\ e.part = n[k] /\ e.sum = Alias[n]
    BY SlotFields
  <1>2. e.last  BY LfnLast
  <1> HIDE DEF e
  <1>3. NextScan(s, e, i, strict) = TakeLfn(s, e, i, strict)
    BY <1>1 DEF NextScan
  <1>4. [Blank EXCEPT ![k] = n[k]] = b  BY DEF Blank
  <1>5. TakeLfn(s, e, i, strict) =
          [run |-> <<i>>, expect |-> k - 1, sum |-> Alias[n],
           found |-> s.found, buf |-> b]
    <2>1. TakeLfn(s, e, i, strict) =
            [s EXCEPT !.run = <<i>>, !.expect = k - 1, !.sum = Alias[n],
                      !.buf = b]
      BY <1>1, <1>2, <1>4 DEF TakeLfn
    <2> HIDE DEF b
    <2> QED  BY <2>1 DEF IsScan
  <1>6. <<i>> \in Seq(Nat)  OBVIOUS
  <1>7. IsBuf(b)  BY DEF IsBuf
  <1> QED  BY <1>3, <1>5, <1>6, <1>7 DEF IsScan, e

LEMMA StepDrop ==
    ASSUME NEW s, IsScan(s), NEW n \in Names, NEW k \in 1 .. Len(n),
           k # Len(n), NEW i \in Nat, s.expect # k
    PROVE  LET t == NextScan(s, Lfn(n, k), i, TRUE)
           IN  /\ IsScan(t) /\ t.found = s.found /\ t.run = <<>> /\ t.expect = -1
  <1> DEFINE e == Lfn(n, k)
  <1>1. e.kind = "lfn" /\ e.seq = k  BY SlotFields
  <1>2. ~e.last  BY LfnLast
  <1> HIDE DEF e
  <1>3. NextScan(s, e, i, TRUE) = [s EXCEPT !.run = <<>>, !.expect = -1]
    BY <1>1, <1>2 DEF NextScan, TakeLfn
  <1>4. [s EXCEPT !.run = <<>>, !.expect = -1] =
          [run |-> <<>>, expect |-> -1, sum |-> s.sum, found |-> s.found,
           buf |-> s.buf]
    BY ScanReset
  <1> DEFINE t == NextScan(s, e, i, TRUE)
  <1>5. t = [run |-> <<>>, expect |-> -1, sum |-> s.sum, found |-> s.found,
             buf |-> s.buf]
    BY <1>3, <1>4
  <1> HIDE DEF t
  <1>6. IsScan(t) /\ t.found = s.found /\ t.run = <<>> /\ t.expect = -1
    BY <1>5 DEF IsScan
  <1> QED  BY <1>6 DEF t, e

LEMMA StepPart ==
    ASSUME NEW s, IsScan(s), NEW n \in Names, NEW k \in 1 .. Len(n),
           k # Len(n), NEW i \in Nat, NEW strict \in BOOLEAN,
           strict => s.expect = k /\ s.sum = Alias[n]
    PROVE  LET t == NextScan(s, Lfn(n, k), i, strict)
           IN  /\ IsScan(t) /\ t.found = s.found
               /\ t.run = Append(s.run, i) /\ t.expect = k - 1 /\ t.sum = s.sum
               /\ \A j \in 1 .. MaxParts :
                    t.buf[j] = IF j = k THEN n[k] ELSE s.buf[j]
  <1> DEFINE e == Lfn(n, k)
             b == [j \in 1 .. MaxParts |-> IF j = k THEN n[k] ELSE s.buf[j]]
  <1>1. e.kind = "lfn" /\ e.seq = k /\ e.part = n[k] /\ e.sum = Alias[n]
    BY SlotFields
  <1>2. ~e.last  BY LfnLast
  <1> HIDE DEF e
  <1>3. NextScan(s, e, i, strict) = TakeLfn(s, e, i, strict)
    BY <1>1 DEF NextScan
  <1>4. [s.buf EXCEPT ![k] = n[k]] = b  BY DEF IsScan, IsBuf
  <1>5. TakeLfn(s, e, i, strict) =
          [run |-> Append(s.run, i), expect |-> k - 1, sum |-> s.sum,
           found |-> s.found, buf |-> b]
    <2>1. TakeLfn(s, e, i, strict) =
            [s EXCEPT !.run = Append(s.run, i), !.expect = k - 1, !.buf = b]
      BY <1>1, <1>2, <1>4 DEF TakeLfn, IsScan
    <2> HIDE DEF b
    <2> QED  BY <2>1 DEF IsScan
  <1>6. Append(s.run, i) \in Seq(Nat)  BY DEF IsScan
  <1>7. IsBuf(b)  BY DEF IsBuf
  <1> QED  BY <1>3, <1>5, <1>6, <1>7 DEF IsScan, e

LEMMA StepLfn ==
    ASSUME NEW s, IsScan(s), NEW e \in SlotValues, e.kind = "lfn",
           NEW i \in Nat, NEW strict \in BOOLEAN
    PROVE  LET t == NextScan(s, e, i, strict) IN IsScan(t) /\ t.found = s.found
  <1>0. PICK n \in Names : \E k \in 1 .. Len(n) : e = Lfn(n, k)  BY SlotKinds
  <1>1. PICK k \in 1 .. Len(n) : e = Lfn(n, k)  BY <1>0
  <1>2. CASE k = Len(n)
    <2>1. e = Lfn(n, Len(n))  BY <1>1, <1>2
    <2>2. LET t == NextScan(s, Lfn(n, Len(n)), i, strict)
          IN  IsScan(t) /\ t.found = s.found
      BY StepLast
    <2> QED  BY <2>1, <2>2
  <1>3. CASE k # Len(n) /\ (strict => s.expect = k /\ s.sum = Alias[n])
    <2>1. LET t == NextScan(s, Lfn(n, k), i, strict)
          IN  IsScan(t) /\ t.found = s.found
      BY <1>3, StepPart
    <2> QED  BY <1>1, <2>1
  <1>4. CASE k # Len(n) /\ strict /\ ~(s.expect = k /\ s.sum = Alias[n])
    <2>1. e.seq = k /\ e.sum = Alias[n] /\ ~e.last
      BY <1>1, <1>4, SlotFields, LfnLast
    <2>2. NextScan(s, e, i, strict) = [s EXCEPT !.run = <<>>, !.expect = -1]
      BY <1>4, <2>1 DEF NextScan, TakeLfn
    <2>3. NextScan(s, e, i, strict) =
            [run |-> <<>>, expect |-> -1, sum |-> s.sum, found |-> s.found,
             buf |-> s.buf]
      BY <2>2, ScanReset
    <2> QED  BY <2>3 DEF IsScan
  <1> QED  BY <1>2, <1>3, <1>4

Shorts(sl, i) == {q \in 1 .. i : sl[q].kind = "short"}

(* What a walk knows behind each slot. *)
LEMMA ScanFacts ==
    ASSUME NEW sl \in Seq(SlotValues), NEW strict \in BOOLEAN, NEW junk,
           IsBuf(junk), NEW m \in 0 .. Len(sl), NEW W,
           ScanOf(sl, strict, junk, m, W)
    PROVE  \A i \in 0 .. m :
             /\ IsScan(W[i])
             /\ i = 0 \/ sl[i].kind # "lfn" => W[i].run = <<>> /\ W[i].expect = -1
             /\ W[i].found = {HitOf(W[q - 1], sl[q], q) : q \in Shorts(sl, i)}
  <1> DEFINE Hits(i) == {HitOf(W[q - 1], sl[q], q) : q \in Shorts(sl, i)}
             OK(i) == /\ IsScan(W[i])
                      /\ i = 0 \/ sl[i].kind # "lfn"
                           => W[i].run = <<>> /\ W[i].expect = -1
                      /\ W[i].found = Hits(i)
             Off == {i \in Nat : i <= m /\ ~OK(i)}
  <1>1. W[0] = Start(junk)
        /\ \A i \in 1 .. m : W[i] = NextScan(W[i - 1], sl[i], i, strict)
    BY DEF ScanOf
  <1>2. OK(0)
    <2>1. Hits(0) = {}  BY DEF Shorts
    <2> QED  BY <1>1, <2>1, StepStart
  <1>3. ASSUME NEW i \in 1 .. m, OK(i - 1) PROVE OK(i)
    <2> DEFINE s == W[i - 1]
               e == sl[i]
    <2>1. i \in Nat /\ e \in SlotValues /\ W[i] = NextScan(s, e, i, strict)
          /\ IsScan(s) /\ s.found = Hits(i - 1)
      BY <1>1, <1>3
    <2>2. Hits(i) = IF e.kind = "short" THEN Hits(i - 1) \cup {HitOf(s, e, i)}
                    ELSE Hits(i - 1)
      <3>1. Shorts(sl, i) = IF e.kind = "short" THEN Shorts(sl, i - 1) \cup {i}
                            ELSE Shorts(sl, i - 1)
        BY DEF Shorts
      <3> QED  BY <3>1
    <2> HIDE DEF Hits, s, e
    <2>3. CASE e.kind = "lfn"
      BY <2>1, <2>2, <2>3, StepLfn DEF e
    <2>4. CASE e.kind = "short"
      BY <2>1, <2>2, <2>4, StepShort
    <2>5. CASE e.kind # "lfn" /\ e.kind # "short"
      BY <2>1, <2>2, <2>5, StepOther
    <2> QED  BY <2>3, <2>4, <2>5
  <1>4. Off = {}
    <2> HIDE DEF OK
    <2>1. SUFFICES ASSUME Off # {} PROVE FALSE  OBVIOUS
    <2>2. PICK i \in Off : \A j \in Off : i <= j
      <3>1. Off \in SUBSET Nat  OBVIOUS
      <3> HIDE DEF Off
      <3> QED  BY <2>1, <3>1, LeastOf
    <2>3. i \in 1 .. m /\ i - 1 \in Nat /\ ~(i <= i - 1)  BY <1>2, <2>2
    <2>4. i - 1 \notin Off
      <3> HIDE DEF Off
      <3> QED  BY <2>2, <2>3
    <2>5. OK(i - 1)  BY <2>3, <2>4
    <2> QED  BY <1>3, <2>2, <2>3, <2>5
  <1> QED  BY <1>4

LEMMA NameIs ==
    ASSUME NEW n \in Names
    PROVE  /\ Len(n) \in Nat /\ Len(n) >= 1 /\ Len(n) <= MaxParts
           /\ n \in Seq(Parts) /\ \A k \in 1 .. Len(n) : n[k] # None
           /\ Alias[n] \in Names /\ n # <<".">> /\ n # <<"..">>
  BY LongestIs, DirectoryAssumption DEF DirectoryAssumption

(* A buffer that holds the parts of a name gives the name. *)
LEMMA LongNameIs ==
    ASSUME NEW b, IsBuf(b), NEW n \in Names,
           \A k \in 1 .. MaxParts : b[k] = IF k <= Len(n) THEN n[k] ELSE None
    PROVE  LongName(b) = n
  <1> DEFINE S == {k \in 1 .. MaxParts + 1 : k > MaxParts \/ b[k] = None}
  <1>1. /\ Len(n) \in Nat /\ Len(n) >= 1 /\ Len(n) <= MaxParts /\ MaxParts \in Nat
        /\ n \in Seq(Parts) /\ \A k \in 1 .. Len(n) : n[k] # None
    BY NameIs, LongestIs
  <1>2. Len(n) + 1 \in S /\ \A k \in S : Len(n) + 1 <= k  BY <1>1
  <1>3. Min(S) = Len(n) + 1
    <2>1. S \in SUBSET Nat  BY <1>1
    <2> HIDE DEF S
    <2>2. Min(S) \in S /\ \A k \in S : Min(S) <= k  BY <1>2, <2>1, MinIs
    <2>3. Min(S) \in Nat /\ Min(S) <= Len(n) + 1 /\ Len(n) + 1 <= Min(S)
      BY <1>2, <2>1, <2>2
    <2> QED  BY <1>1, <2>3
  <1>4. LongName(b) = SubSeq(b, 1, Len(n))
    <2>1. LongName(b) = SubSeq(b, 1, Min(S) - 1)  BY DEF LongName
    <2> HIDE DEF S
    <2> QED  BY <1>1, <1>3, <2>1
  <1>5. b \in Seq(Parts \cup {None}) /\ Len(b) = MaxParts
    <2>1. \A k \in 1 .. MaxParts : b[k] \in Parts \cup {None}  BY <1>1
    <2>2. b \in [1 .. MaxParts -> Parts \cup {None}]  BY <2>1 DEF IsBuf
    <2>3. b \in Seq(Parts \cup {None})  BY <1>1, <2>2, SeqDef
    <2> QED  BY <1>1, <2>2, <2>3
  <1>6. LongName(b) \in Seq(Parts \cup {None}) /\ Len(LongName(b)) = Len(n)
        /\ \A k \in 1 .. Len(n) : LongName(b)[k] = b[k]
    BY <1>1, <1>4, <1>5, SubSeqProperties
  <1>7. n \in Seq(Parts \cup {None})  BY <1>1, SeqMonotonic
  <1>8. \A k \in 1 .. Len(n) : LongName(b)[k] = n[k]  BY <1>1, <1>6
  <1> QED  BY <1>6, <1>7, <1>8, SeqEqual

(* The run that a walk has collected: c slots, the last of them slot p - 1. *)
IsRun(r, p, c) == r \in Seq(Nat) /\ Len(r) = c
                  /\ \A k \in 1 .. c : r[k] = p - c - 1 + k

LEMMA RunIs ==
    ASSUME NEW p \in Nat, NEW c \in Nat, c < p, NEW r
    PROVE  IsRun(r, p, c) <=> r = RunAt(p, c)
  <1>1. RunAt(p, c) \in Seq(Nat) /\ Len(RunAt(p, c)) = c
        /\ \A k \in 1 .. c : RunAt(p, c)[k] = p - c - 1 + k
    <2>1. RunAt(p, c) \in [1 .. c -> Nat]  BY DEF RunAt
    <2>2. RunAt(p, c) \in Seq(Nat)  BY <2>1, SeqDef
    <2> QED  BY <2>1, <2>2 DEF RunAt
  <1>2. ASSUME IsRun(r, p, c) PROVE r = RunAt(p, c)
    BY <1>1, <1>2, SeqEqual DEF IsRun
  <1> QED  BY <1>1, <1>2 DEF IsRun

LEMMA RunGrows ==
    ASSUME NEW p \in Nat, NEW c \in Nat, c < p, NEW r, IsRun(r, p, c)
    PROVE  IsRun(Append(r, p), p + 1, c + 1)
  <1>1. r \in Seq(Nat) /\ Len(r) = c  BY DEF IsRun
  <1>2. /\ Append(r, p) \in Seq(Nat) /\ Len(Append(r, p)) = c + 1
        /\ Append(r, p)[c + 1] = p
        /\ \A k \in 1 .. c : Append(r, p)[k] = r[k]
    BY <1>1, AppendProperties
  <1>3. \A k \in 1 .. c + 1 : k \in 1 .. c \/ k = c + 1  OBVIOUS
  <1> QED  BY <1>2, <1>3 DEF IsRun

(* Both walks collect a complete entry. *)
LEMMA ScanComplete ==
    ASSUME NEW sl \in Seq(SlotValues), NEW strict \in BOOLEAN, NEW junk,
           IsBuf(junk), NEW m \in 0 .. Len(sl), NEW W,
           ScanOf(sl, strict, junk, m, W),
           NEW p, NEW n, Complete(sl, p, n), p - 1 <= m
    PROVE  HitOf(W[p - 1], sl[p], p) =
             [at |-> p, run |-> RunAt(p, Len(n)), name |-> n]
  <1> DEFINE L == Len(n)
             OK(d) == LET s == W[p - L + d]
                      IN  /\ IsRun(s.run, p - L + d + 1, d + 1)
                          /\ s.expect = L - d - 1 /\ s.sum = Alias[n]
                          /\ \A k \in 1 .. MaxParts :
                               s.buf[k] = IF k >= L - d /\ k <= L THEN n[k]
                                          ELSE None
             Off == {d \in Nat : d < L /\ ~OK(d)}
  <1>1. /\ p \in 1 .. Len(sl) /\ n \in Names /\ L < p
        /\ \A k \in 1 .. L : sl[p - k] = Lfn(n, k)
    BY DEF Complete, Chain
  <1>2. /\ L \in Nat /\ L >= 1 /\ L <= MaxParts /\ MaxParts \in Nat
        /\ n[1] # None /\ Len(sl) \in Nat
    BY <1>1, NameIs, LongestIs
  <1>3. \A i \in 0 .. m : IsScan(W[i])  BY ScanFacts
  <1>4. \A i \in 1 .. m : W[i] = NextScan(W[i - 1], sl[i], i, strict)
    BY DEF ScanOf
  <1>5. OK(0)
    <2>1. p - L \in 1 .. m /\ p - L \in Nat /\ sl[p - L] = Lfn(n, L)
      BY <1>1, <1>2
    <2>2. IsScan(W[p - L - 1]) /\ W[p - L] =
            NextScan(W[p - L - 1], Lfn(n, L), p - L, strict)
      BY <1>1, <1>2, <1>3, <1>4, <2>1
    <2>3. /\ W[p - L].run = <<p - L>> /\ W[p - L].expect = L - 1
          /\ W[p - L].sum = Alias[n]
          /\ \A k \in 1 .. MaxParts :
               W[p - L].buf[k] = IF k = L THEN n[L] ELSE None
      BY <1>1, <2>1, <2>2, StepLast
    <2>4. IsRun(<<p - L>>, p - L + 1, 1)  BY <2>1 DEF IsRun
    <2>5. IsRun(W[p - L].run, p - L + 1, 1)  BY <2>3, <2>4
    <2>6. \A k \in 1 .. MaxParts :
            W[p - L].buf[k] = IF k >= L /\ k <= L THEN n[k] ELSE None
      BY <1>2, <2>3
    <2>7. p - L + 0 = p - L /\ p - L + 0 + 1 = p - L + 1 /\ 0 + 1 = 1 /\ L - 0 = L
          /\ L - 0 - 1 = L - 1
      BY <1>1, <1>2
    <2> QED  BY <2>3, <2>5, <2>6, <2>7
  <1>6. ASSUME NEW d \in Nat, d # 0, d < L, OK(d - 1) PROVE OK(d)
    <2> DEFINE i == p - L + d
               k == L - d
    <2>1. /\ i \in 1 .. m /\ i \in Nat /\ k \in 1 .. L /\ k # L
          /\ sl[i] = Lfn(n, k)
      <3>1. i \in 1 .. m /\ i \in Nat /\ k \in 1 .. L /\ k # L /\ i = p - k
        BY <1>1, <1>2, <1>6
      <3> QED  BY <1>1, <3>1
    <2>2. i - 1 = p - L + (d - 1) /\ k = L - (d - 1) - 1  BY <1>1, <1>2, <1>6
    <2>3. IsScan(W[i - 1]) /\ W[i] = NextScan(W[i - 1], Lfn(n, k), i, strict)
      BY <1>3, <1>4, <2>1
    <2>4. /\ IsRun(W[i - 1].run, i, d) /\ W[i - 1].expect = k
          /\ W[i - 1].sum = Alias[n]
          /\ \A j \in 1 .. MaxParts :
               W[i - 1].buf[j] = IF j >= k + 1 /\ j <= L THEN n[j] ELSE None
      BY <1>1, <1>2, <1>6, <2>2
    <2> HIDE DEF i, k
    <2>5. /\ W[i].run = Append(W[i - 1].run, i) /\ W[i].expect = k - 1
          /\ W[i].sum = Alias[n]
          /\ \A j \in 1 .. MaxParts :
               W[i].buf[j] = IF j = k THEN n[k] ELSE W[i - 1].buf[j]
      <3> DEFINE q == W[i - 1]
      <3>1. q.expect = k /\ q.sum = Alias[n]  BY <2>4
      <3>2. IsScan(q)  BY <2>3
      <3>3. /\ W[i].run = Append(q.run, i) /\ W[i].expect = k - 1
            /\ W[i].sum = q.sum
            /\ \A j \in 1 .. MaxParts :
                 W[i].buf[j] = IF j = k THEN n[k] ELSE q.buf[j]
        <4> HIDE DEF q
        <4>1. W[i] = NextScan(q, Lfn(n, k), i, strict)  BY <2>3 DEF q
        <4> QED  BY <1>1, <2>1, <3>1, <3>2, <4>1, StepPart
      <3> QED  BY <2>4, <3>3
    <2>6. d < i  BY <1>1, <1>2, <1>6 DEF i
    <2>7. IsRun(W[i].run, i + 1, d + 1)  BY <1>6, <2>1, <2>4, <2>5, <2>6, RunGrows
    <2>8. \A j \in 1 .. MaxParts :
            W[i].buf[j] = IF j >= k /\ j <= L THEN n[j] ELSE None
      <3> TAKE j \in 1 .. MaxParts
      <3>1. W[i].buf[j] = IF j = k THEN n[k] ELSE W[i - 1].buf[j]  BY <2>5
      <3>2. W[i - 1].buf[j] = IF j >= k + 1 /\ j <= L THEN n[j] ELSE None  BY <2>4
      <3>3. k \in Int /\ L \in Int /\ j \in Int /\ k <= L  BY <1>2, <2>1
      <3> QED  BY <3>1, <3>2, <3>3
    <2> QED  BY <2>5, <2>7, <2>8 DEF i, k
  <1>7. Off = {}
    <2> HIDE DEF OK
    <2>1. SUFFICES ASSUME Off # {} PROVE FALSE  OBVIOUS
    <2>2. PICK d \in Off : \A j \in Off : d <= j
      <3>1. Off \in SUBSET Nat  OBVIOUS
      <3> HIDE DEF Off
      <3> QED  BY <2>1, <3>1, LeastOf
    <2>3. d \in Nat /\ d # 0 /\ d < L /\ d - 1 \in Nat /\ ~(d <= d - 1)
      BY <1>5, <2>2
    <2>4. d - 1 \notin Off
      <3> HIDE DEF Off
      <3> QED  BY <2>2, <2>3
    <2>5. OK(d - 1)  BY <1>2, <2>3, <2>4
    <2> QED  BY <1>6, <2>2, <2>3, <2>5
  <1>8. OK(L - 1)
    <2> HIDE DEF OK
    <2> QED  BY <1>2, <1>7
  <1> DEFINE s == W[p - 1]
  <1>9. /\ IsRun(s.run, p, L) /\ IsScan(s)
        /\ \A k \in 1 .. MaxParts : s.buf[k] = IF k <= L THEN n[k] ELSE None
    <2>1. p - L + (L - 1) = p - 1 /\ p - 1 \in 0 .. m  BY <1>1, <1>2
    <2>2. p - L + (L - 1) + 1 = p /\ L - 1 + 1 = L /\ L - (L - 1) = 1
      BY <1>1, <1>2
    <2> QED  BY <1>2, <1>3, <1>8, <2>1, <2>2
  <1> HIDE DEF s
  <1>10. s.run = RunAt(p, L) /\ s.run # <<>>
    <2>1. s.run = RunAt(p, L)  BY <1>1, <1>2, <1>9, RunIs
    <2>2. Len(s.run) = L /\ Len(<<>>) = 0  BY <1>9 DEF IsRun
    <2> QED  BY <1>2, <2>1, <2>2
  <1>11. s.buf[1] # None /\ LongName(s.buf) = n
    <2>1. s.buf[1] = n[1]  BY <1>2, <1>9
    <2>2. IsBuf(s.buf)  BY <1>9 DEF IsScan
    <2> QED  BY <1>1, <1>2, <1>9, <2>1, <2>2, LongNameIs
  <1> QED  BY <1>10, <1>11 DEF HitOf, s

(* Of an entry whose first slots are deleted dir_iter collects nothing;
   delete_iter collects what is left. *)
LEMMA ScanPartial ==
    ASSUME NEW sl \in Seq(SlotValues), NEW strict \in BOOLEAN, NEW junk,
           IsBuf(junk), NEW m \in 0 .. Len(sl), NEW W,
           ScanOf(sl, strict, junk, m, W),
           NEW p, NEW n, NEW c, Block(sl, p, n, c), c # Len(n), p - 1 <= m
    PROVE  W[p - 1].run = IF strict THEN <<>> ELSE RunAt(p, c)
  <1> DEFINE b == p - c - 1
             OK(d) == LET s == W[b + d]
                      IN  IF strict THEN s.run = <<>> /\ s.expect = -1
                          ELSE IsRun(s.run, b + d + 1, d)
             Off == {d \in Nat : d <= c /\ ~OK(d)}
  <1>1. /\ p \in 1 .. Len(sl) /\ n \in Names /\ c \in 0 .. Len(n) /\ c < p
        /\ \A k \in 1 .. c : sl[p - k] = Lfn(n, k)
        /\ b = 0 \/ sl[b].kind # "lfn"
    BY DEF Block, Chain
  <1>2. Len(n) \in Nat /\ c \in Nat /\ b \in 0 .. m /\ Len(sl) \in Nat
    BY <1>1, NameIs
  <1>3. \A i \in 0 .. m : IsScan(W[i])  BY ScanFacts
  <1>4. \A i \in 1 .. m : W[i] = NextScan(W[i - 1], sl[i], i, strict)
    BY DEF ScanOf
  <1>5. OK(0)
    <2>1. W[b].run = <<>> /\ W[b].expect = -1  BY <1>1, <1>2, ScanFacts
    <2>2. IsRun(<<>>, b + 1, 0)  BY EmptySeq DEF IsRun
    <2>3. b + 0 = b  BY <1>2
    <2> QED  BY <2>1, <2>2, <2>3
  <1>6. ASSUME NEW d \in Nat, d # 0, d <= c, OK(d - 1) PROVE OK(d)
    <2> DEFINE i == b + d
               k == c - d + 1
               q == W[i - 1]
    <2>1. /\ i \in 1 .. m /\ i \in Nat /\ k \in 1 .. Len(n) /\ k # Len(n)
          /\ sl[i] = Lfn(n, k)
      <3>1. /\ i \in 1 .. m /\ i \in Nat /\ k \in 1 .. c /\ k \in 1 .. Len(n)
            /\ k # Len(n) /\ i = p - k
        BY <1>1, <1>2, <1>6
      <3> QED  BY <1>1, <3>1
    <2>2. i - 1 = b + (d - 1) /\ b + (d - 1) + 1 = i  BY <1>1, <1>2, <1>6
    <2>3. IsScan(q) /\ W[i] = NextScan(q, Lfn(n, k), i, strict)
      BY <1>3, <1>4, <2>1
    <2>4. IF strict THEN q.run = <<>> /\ q.expect = -1 ELSE IsRun(q.run, i, d - 1)
      BY <1>6, <2>2
    <2>5. CASE strict
      <3>1. q.expect # k /\ strict = TRUE  BY <2>1, <2>4, <2>5
      <3> HIDE DEF i, k, q
      <3>0. W[i] = NextScan(q, Lfn(n, k), i, TRUE)  BY <2>3, <3>1
      <3>2. W[i].run = <<>> /\ W[i].expect = -1
        <4>1. IsScan(q) /\ q.expect # k  BY <2>3, <3>1
        <4>2. n \in Names /\ k \in 1 .. Len(n) /\ k # Len(n) /\ i \in Nat
          BY <1>1, <2>1
        <4>3. LET t == NextScan(q, Lfn(n, k), i, TRUE)
              IN  t.run = <<>> /\ t.expect = -1
          BY <4>1, <4>2, StepDrop
        <4> QED  BY <3>0, <4>3
      <3> QED  BY <2>5, <3>2 DEF i
    <2>6. CASE ~strict
      <3> HIDE DEF i, k, q
      <3>1. W[i].run = Append(q.run, i)
        BY <1>1, <2>1, <2>3, <2>6, StepPart
      <3>2. d - 1 < i /\ d - 1 \in Nat /\ d - 1 + 1 = d
        BY <1>1, <1>2, <1>6 DEF i
      <3>3. IsRun(W[i].run, i + 1, d)  BY <2>1, <2>4, <2>6, <3>1, <3>2, RunGrows
      <3> QED  BY <2>6, <3>3 DEF i
    <2> QED  BY <2>5, <2>6
  <1>7. Off = {}
    <2> HIDE DEF OK
    <2>1. SUFFICES ASSUME Off # {} PROVE FALSE  OBVIOUS
    <2>2. PICK d \in Off : \A j \in Off : d <= j
      <3>1. Off \in SUBSET Nat  OBVIOUS
      <3> HIDE DEF Off
      <3> QED  BY <2>1, <3>1, LeastOf
    <2>3. d \in Nat /\ d # 0 /\ d <= c /\ d - 1 \in Nat /\ ~(d <= d - 1)
      BY <1>5, <2>2
    <2>4. d - 1 \notin Off
      <3> HIDE DEF Off
      <3> QED  BY <2>2, <2>3
    <2>5. OK(d - 1)  BY <1>2, <2>3, <2>4
    <2> QED  BY <1>6, <2>2, <2>3, <2>5
  <1>8. OK(c)
    <2> HIDE DEF OK
    <2> QED  BY <1>2, <1>7
  <1>9. b + c = p - 1 /\ b + c + 1 = p  BY <1>1, <1>2
  <1>10. CASE strict  BY <1>8, <1>9, <1>10
  <1>11. CASE ~strict
    <2>1. IsRun(W[p - 1].run, p, c)  BY <1>8, <1>9, <1>11
    <2>2. W[p - 1].run = RunAt(p, c)  BY <1>1, <1>2, <2>1, RunIs
    <2> QED  BY <1>11, <2>2
  <1> QED  BY <1>10, <1>11

(* An 8.3 slot has one complete name at most. *)
LEMMA Shorter ==
    ASSUME NEW sl, NEW p, NEW n, NEW k, NEW c, Chain(sl, p, n, c),
           Complete(sl, p, k), Len(k) <= c
    PROVE  c = Len(n) /\ Len(k) = c
  <1>1. n \in Names /\ k \in Names /\ c \in 0 .. Len(n)
    BY DEF Chain, Complete
  <1>2. Len(n) \in Nat /\ Len(k) \in Nat /\ Len(k) >= 1  BY <1>1, NameIs
  <1>3. Lfn(k, Len(k)) = Lfn(n, Len(k))  BY <1>1, <1>2 DEF Chain, Complete
  <1>4. Lfn(k, Len(k)).last  BY LfnLast
  <1>5. Len(k) = Len(n)  BY <1>3, <1>4, LfnLast
  <1> QED  BY <1>1, <1>2, <1>5

LEMMA OneName ==
    ASSUME NEW sl, NEW p, NEW n, NEW k, Complete(sl, p, n), Complete(sl, p, k)
    PROVE  n = k
  <1>1. n \in Names /\ k \in Names /\ Chain(sl, p, n, Len(n))
        /\ Chain(sl, p, k, Len(k))
    BY DEF Complete
  <1>2. Len(n) \in Nat /\ Len(k) \in Nat /\ n \in Seq(Parts) /\ k \in Seq(Parts)
    BY <1>1, NameIs
  <1>3. Len(n) = Len(k)
    <2>1. CASE Len(k) <= Len(n)  BY <1>1, <2>1, Shorter
    <2>2. CASE Len(n) <= Len(k)  BY <1>1, <2>2, Shorter
    <2> QED  BY <1>2, <2>1, <2>2
  <1>4. \A j \in 1 .. Len(n) : n[j] = k[j]
    <2> TAKE j \in 1 .. Len(n)
    <2>1. Lfn(n, j) = Lfn(k, j)  BY <1>1, <1>3 DEF Chain
    <2> QED  BY <2>1, SlotFields
  <1> QED  BY <1>2, <1>3, <1>4, SeqEqual

LEMMA PartialIs ==
    ASSUME NEW sl \in Seq(SlotValues), NEW p, NEW n, NEW c, Block(sl, p, n, c),
           c # Len(n), NEW k
    PROVE  ~Complete(sl, p, k)
  <1>1. SUFFICES ASSUME Complete(sl, p, k) PROVE FALSE  OBVIOUS
  <1>2. /\ Chain(sl, p, n, c) /\ n \in Names /\ c \in 0 .. Len(n) /\ c < p
        /\ p \in 1 .. Len(sl) /\ k \in Names /\ Chain(sl, p, k, Len(k))
        /\ p - c = 1 \/ sl[p - c - 1].kind # "lfn"
    BY <1>1 DEF Block, Chain, Complete
  <1>3. Len(n) \in Nat /\ Len(k) \in Nat  BY <1>2, NameIs
  <1>4. CASE Len(k) <= c  BY <1>1, <1>2, <1>4, Shorter
  <1>5. CASE c < Len(k)
    <2>1. Len(k) < p /\ c + 1 \in 1 .. Len(k)  BY <1>2, <1>3, <1>5 DEF Chain
    <2>2. sl[p - (c + 1)] = Lfn(k, c + 1)  BY <1>2, <2>1 DEF Chain
    <2>3. p - (c + 1) = p - c - 1 /\ p - c # 1  BY <1>2, <1>3, <2>1
    <2> QED  BY <1>2, <2>2, <2>3, SlotFields
  <1> QED  BY <1>2, <1>3, <1>4, <1>5

LEMMA HeaderIs ==
    ASSUME NEW sl, LaidOut(sl), NEW i \in 1 .. Len(Header)
    PROVE  /\ i \in 1 .. Len(sl) /\ sl[i].kind \in {"label", "short"}
           /\ sl[i].kind = "short" => sl[i].name \in Dots
           /\ \A n, c : ~Chain(sl, i, n, c)
  <1>1. Header[i] \in {Label, Dot, DotDot} /\ Len(Header) \in Nat
    BY HeaderAssumption DEF HeaderAssumption
  <1>2. sl[i] \in {Label, Dot, DotDot} /\ Len(sl) \in Nat /\ Len(Header) <= Len(sl)
    BY <1>1 DEF LaidOut
  <1>3. sl[i].kind = "short" => sl[i].name \in Dots
    BY <1>2, SlotFields DEF Dots
  <1>4. ASSUME NEW n, NEW c, Chain(sl, i, n, c) PROVE FALSE
    <2>1. n \in Names /\ sl[i].kind = "short" /\ sl[i].name = Alias[n]
      BY <1>4, SlotFields DEF Chain
    <2> QED  BY <1>3, <2>1, NameIs DEF Dots
  <1> QED  BY <1>1, <1>2, <1>3, <1>4, SlotFields

LEMMA HitFields ==
    ASSUME NEW s, NEW e, NEW i
    PROVE  HitOf(s, e, i).at = i /\ HitOf(s, e, i).run = s.run
  BY DEF HitOf

JunkBuf(junk) == junk \in Junk \cup {Blank}

(* What a walk finds at an 8.3 slot. *)
HitAt(sl, strict, p, h) ==
    /\ h.at = p
    /\ p <= Len(Header) => h = [at |-> p, run |-> <<>>, name |-> sl[p].name]
    /\ \A n \in Names : Complete(sl, p, n) =>
         h = [at |-> p, run |-> RunAt(p, Len(n)), name |-> n]
    /\ \A n \in Names : \A c \in 0 .. Len(n) :
         Block(sl, p, n, c) /\ c # Len(n) =>
           /\ h.run = IF strict THEN <<>> ELSE RunAt(p, c)
           /\ strict => h = [at |-> p, run |-> <<>>, name |-> sl[p].name]

LEMMA Walked ==
    ASSUME NEW sl, LaidOut(sl), NEW strict \in BOOLEAN, NEW junk, JunkBuf(junk)
    PROVE  \E H :
      /\ Walk(sl, strict, junk) = {H[p] : p \in Shorts(sl, EndOf(sl) - 1)}
      /\ \A p \in Shorts(sl, EndOf(sl) - 1) : HitAt(sl, strict, p, H[p])
  <1>1. sl \in Seq(SlotValues)  BY DEF LaidOut
  <1>2. IsBuf(junk)  BY DEF JunkBuf, Junk, Blank, IsBuf
  <1> DEFINE m == EndOf(sl) - 1
  <1>3. m \in 0 .. Len(sl) /\ Len(sl) \in Nat  BY <1>1, EndIs
  <1>4. PICK W : ScanOf(sl, strict, junk, m, W) /\ Walk(sl, strict, junk) = W[m].found
    BY <1>1, WalkIs
  <1> HIDE DEF m
  <1> DEFINE H == [p \in 1 .. Len(sl) |-> HitOf(W[p - 1], sl[p], p)]
  <1>5. \A p \in Shorts(sl, m) : p \in 1 .. Len(sl) /\ p \in Nat
                                /\ p - 1 <= m /\ p - 1 \in 0 .. m
                                /\ H[p] = HitOf(W[p - 1], sl[p], p)
    <2>1. \A p \in Shorts(sl, m) : p \in 1 .. Len(sl) /\ p \in Nat
                                  /\ p - 1 <= m /\ p - 1 \in 0 .. m
      BY <1>3 DEF Shorts
    <2> QED  BY <2>1
  <1> HIDE DEF H
  <1>6. Walk(sl, strict, junk) = {H[p] : p \in Shorts(sl, m)}
    <2>1. W[m].found = {HitOf(W[q - 1], sl[q], q) : q \in Shorts(sl, m)}
      BY <1>1, <1>2, <1>3, <1>4, ScanFacts
    <2> QED  BY <1>4, <1>5, <2>1
  <1>7. ASSUME NEW p \in Shorts(sl, m) PROVE H[p].at = p
    BY <1>5, HitFields
  <1>8. ASSUME NEW p \in Shorts(sl, m), W[p - 1].run = <<>>
        PROVE  H[p] = [at |-> p, run |-> <<>>, name |-> sl[p].name]
    <2>1. H[p] = HitOf(W[p - 1], sl[p], p)  BY <1>5
    <2> QED  BY <1>8, <2>1 DEF HitOf
  <1>9. ASSUME NEW p \in Shorts(sl, m), p <= Len(Header)
        PROVE  H[p] = [at |-> p, run |-> <<>>, name |-> sl[p].name]
    <2>1. p - 1 \in 0 .. m /\ (p - 1 = 0 \/ p - 1 \in 1 .. Len(Header))
      <3>1. Len(Header) \in Nat  BY HeaderAssumption DEF HeaderAssumption
      <3>2. p \in Nat /\ p - 1 \in 0 .. m  BY <1>5
      <3> QED  BY <1>9, <3>1, <3>2
    <2>2. p - 1 = 0 \/ sl[p - 1].kind # "lfn"  BY <2>1, HeaderIs
    <2>3. W[p - 1].run = <<>>  BY <1>1, <1>2, <1>3, <1>4, <2>1, <2>2, ScanFacts
    <2> QED  BY <1>8, <2>3
  <1>10. ASSUME NEW p \in Shorts(sl, m), NEW n \in Names, Complete(sl, p, n)
         PROVE  H[p] = [at |-> p, run |-> RunAt(p, Len(n)), name |-> n]
    <2>1. ScanOf(sl, strict, junk, m, W)  BY <1>4
    <2>2. p - 1 <= m  BY <1>5
    <2>3. HitOf(W[p - 1], sl[p], p) =
            [at |-> p, run |-> RunAt(p, Len(n)), name |-> n]
      BY <1>1, <1>2, <1>3, <1>10, <2>1, <2>2, ScanComplete
    <2> QED  BY <1>5, <2>3
  <1>11. ASSUME NEW p \in Shorts(sl, m), NEW n \in Names, NEW c \in 0 .. Len(n),
                Block(sl, p, n, c), c # Len(n)
         PROVE  /\ H[p].run = IF strict THEN <<>> ELSE RunAt(p, c)
                /\ strict => H[p] = [at |-> p, run |-> <<>>, name |-> sl[p].name]
    <2>1. W[p - 1].run = IF strict THEN <<>> ELSE RunAt(p, c)
      <3>1. ScanOf(sl, strict, junk, m, W)  BY <1>4
      <3>2. p - 1 <= m  BY <1>5
      <3> QED  BY <1>1, <1>2, <1>3, <1>11, <3>1, <3>2, ScanPartial
    <2>2. H[p].run = W[p - 1].run  BY <1>5, HitFields
    <2> QED  BY <1>8, <2>1, <2>2
  <1>12. /\ Walk(sl, strict, junk) = {H[p] : p \in Shorts(sl, EndOf(sl) - 1)}
         /\ Shorts(sl, EndOf(sl) - 1) = Shorts(sl, m)
    BY <1>6 DEF m
  <1>13. \A p \in Shorts(sl, m) : HitAt(sl, strict, p, H[p])
    BY <1>7, <1>9, <1>10, <1>11 DEF HitAt
  <1> QED  BY <1>12, <1>13

(* The entry of 8.3 slot p: its long name if it is all there, or its alias. *)
IsEntry(sl, p, e) ==
    \/ \E n \in Names : /\ Complete(sl, p, n)
                        /\ e = [at |-> p, run |-> RunAt(p, Len(n)), name |-> n]
    \/ /\ \A n \in Names : ~Complete(sl, p, n)
       /\ e = [at |-> p, run |-> <<>>, name |-> sl[p].name]

LEMMA ShortsSeen ==
    ASSUME NEW sl, LaidOut(sl), HoleFree(sl), NEW p \in 1 .. Len(sl),
           sl[p].kind = "short"
    PROVE  p \in Shorts(sl, EndOf(sl) - 1)
  <1>1. sl \in Seq(SlotValues)  BY DEF LaidOut
  <1>2. ~IsFree(sl[p])  BY DEF IsFree
  <1>3. p < EndOf(sl) /\ EndOf(sl) \in 1 .. Len(sl) + 1 /\ Len(sl) \in Nat
    BY <1>1, <1>2, EndIs
  <1> QED  BY <1>3 DEF Shorts

LEMMA SeenShorts ==
    ASSUME NEW sl, LaidOut(sl), NEW p \in Shorts(sl, EndOf(sl) - 1)
    PROVE  p \in 1 .. Len(sl) /\ sl[p].kind = "short"
  <1>1. sl \in Seq(SlotValues)  BY DEF LaidOut
  <1>2. EndOf(sl) \in 1 .. Len(sl) + 1 /\ Len(sl) \in Nat  BY <1>1, EndIs
  <1> QED  BY <1>2 DEF Shorts

(* fat32_list and fat32_find: exactly the entries of the 8.3 slots. *)
LEMMA VisibleIs ==
    ASSUME NEW sl, LaidOut(sl), HoleFree(sl), NEW e
    PROVE  e \in Walk(sl, TRUE, Blank) <=>
             \E p \in 1 .. Len(sl) : sl[p].kind = "short" /\ IsEntry(sl, p, e)
  <1> DEFINE S == Shorts(sl, EndOf(sl) - 1)
  <1>1. JunkBuf(Blank)  BY DEF JunkBuf
  <1>2. PICK H : /\ Walk(sl, TRUE, Blank) = {H[p] : p \in S}
                 /\ \A p \in S : HitAt(sl, TRUE, p, H[p])
    <2>1. TRUE \in BOOLEAN  OBVIOUS
    <2> QED  BY <1>1, <2>1, Walked
  <1>3. \A p : p \in S <=> p \in 1 .. Len(sl) /\ sl[p].kind = "short"
    BY ShortsSeen, SeenShorts
  <1> HIDE DEF S
  <1>4. ASSUME NEW p \in S PROVE IsEntry(sl, p, e) <=> e = H[p]
    <2>1. CASE \E n \in Names : Complete(sl, p, n)
      <3>1. PICK n \in Names : Complete(sl, p, n)  BY <2>1
      <3>2. \A k \in Names : Complete(sl, p, k) => k = n  BY <3>1, OneName
      <3>3. H[p] = [at |-> p, run |-> RunAt(p, Len(n)), name |-> n]
        BY <1>2, <3>1 DEF HitAt
      <3> QED  BY <3>1, <3>2, <3>3 DEF IsEntry
    <2>2. CASE ~ \E n \in Names : Complete(sl, p, n)
      <3>1. H[p] = [at |-> p, run |-> <<>>, name |-> sl[p].name]
        <4>1. CASE p <= Len(Header)  BY <1>2, <4>1 DEF HitAt
        <4>2. CASE p > Len(Header)
          <5>1. PICK n \in Names : \E c \in 0 .. Len(n) : Block(sl, p, n, c)
            BY <1>3, <4>2 DEF LaidOut
          <5>2. PICK c \in 0 .. Len(n) : Block(sl, p, n, c)  BY <5>1
          <5>3. c # Len(n)  BY <2>2, <5>2 DEF Block, Complete
          <5> QED  BY <1>2, <5>2, <5>3 DEF HitAt
        <4>3. p \in Nat /\ Len(Header) \in Nat
          BY <1>3, HeaderAssumption DEF HeaderAssumption
        <4> QED  BY <4>1, <4>2, <4>3
      <3> QED  BY <2>2, <3>1 DEF IsEntry
    <2> QED  BY <2>1, <2>2
  <1> QED  BY <1>2, <1>3, <1>4

(* Every complete entry is found by both walks, if there is no hole. *)
LEMMA CompleteFound ==
    ASSUME NEW sl, LaidOut(sl), HoleFree(sl), NEW strict \in BOOLEAN,
           NEW junk, JunkBuf(junk), NEW p, NEW n, Complete(sl, p, n)
    PROVE  [at |-> p, run |-> RunAt(p, Len(n)), name |-> n] \in
             Walk(sl, strict, junk)
  <1>1. p \in 1 .. Len(sl) /\ sl[p].kind = "short" /\ n \in Names
    BY SlotFields DEF Complete, Chain
  <1>2. p \in Shorts(sl, EndOf(sl) - 1)  BY <1>1, ShortsSeen
  <1>3. PICK H : /\ Walk(sl, strict, junk) = {H[q] : q \in Shorts(sl, EndOf(sl) - 1)}
                 /\ HitAt(sl, strict, p, H[p])
    BY <1>2, Walked
  <1>4. H[p] = [at |-> p, run |-> RunAt(p, Len(n)), name |-> n]
    BY <1>1, <1>3 DEF HitAt
  <1> QED  BY <1>2, <1>3, <1>4

(* fat32_delete: the run before an 8.3 slot is what is left of its name. *)
DeletesAt(sl, p, e) ==
    /\ e.at = p /\ (p <= Len(Header) => e.name \in Dots)
    /\ \A n \in Names : \A c \in 0 .. Len(n) : Block(sl, p, n, c) =>
         e.run = RunAt(p, c) /\ (c = Len(n) => e.name = n)

LEMMA DeletableIs ==
    ASSUME NEW sl, LaidOut(sl), NEW junk, JunkBuf(junk),
           NEW e \in Walk(sl, FALSE, junk)
    PROVE  \E p \in 1 .. Len(sl) : sl[p].kind = "short" /\ DeletesAt(sl, p, e)
  <1> DEFINE S == Shorts(sl, EndOf(sl) - 1)
  <1>1. PICK H : /\ Walk(sl, FALSE, junk) = {H[p] : p \in S}
                 /\ \A p \in S : HitAt(sl, FALSE, p, H[p])
    <2>1. FALSE \in BOOLEAN  OBVIOUS
    <2> QED  BY <2>1, Walked
  <1>2. \A p \in S : p \in 1 .. Len(sl) /\ sl[p].kind = "short"  BY SeenShorts
  <1> HIDE DEF S
  <1>3. PICK p \in S : e = H[p]  BY <1>1
  <1>4. p <= Len(Header) => e.name \in Dots
    <2>1. SUFFICES ASSUME p <= Len(Header) PROVE e.name \in Dots  OBVIOUS
    <2>2. e.name = sl[p].name
      <3>1. HitAt(sl, FALSE, p, e)  BY <1>1, <1>3
      <3>2. e = [at |-> p, run |-> <<>>, name |-> sl[p].name]
        BY <2>1, <3>1 DEF HitAt
      <3> QED  BY <3>2
    <2>3. p \in 1 .. Len(Header)
      BY <1>2, <2>1, HeaderAssumption DEF HeaderAssumption
    <2> QED  BY <1>2, <2>2, <2>3, HeaderIs
  <1>5. ASSUME NEW n \in Names, NEW c \in 0 .. Len(n), Block(sl, p, n, c)
        PROVE  e.run = RunAt(p, c) /\ (c = Len(n) => e.name = n)
    <2>1. CASE c # Len(n)
      <3>1. HitAt(sl, FALSE, p, e)  BY <1>1, <1>3
      <3> QED  BY <1>5, <2>1, <3>1 DEF HitAt
    <2>2. CASE c = Len(n)
      <3>1. Complete(sl, p, n)  BY <1>5, <2>2 DEF Block, Complete
      <3>2. e = [at |-> p, run |-> RunAt(p, Len(n)), name |-> n]
        BY <1>1, <1>3, <3>1 DEF HitAt
      <3> QED  BY <2>2, <3>2
    <2> QED  BY <2>1, <2>2
  <1>6. e.at = p  BY <1>1, <1>3 DEF HitAt
  <1> QED  BY <1>2, <1>4, <1>5, <1>6 DEF DeletesAt

(***************************************************************************)
(* What one slot write does to the entries                                 *)
(***************************************************************************)
SetSlot(sl, tl, i, e) ==
    /\ tl \in Seq(SlotValues) /\ Len(tl) = Len(sl)
    /\ \A j \in 1 .. Len(sl) : tl[j] = IF j = i THEN e ELSE sl[j]

LEMMA SlotIn ==
    /\ Zero \in SlotValues /\ Deleted \in SlotValues
    /\ \A n \in Names : Short(n) \in SlotValues
    /\ \A n \in Names : \A k \in 1 .. Len(n) : Lfn(n, k) \in SlotValues
    /\ {Label, Dot, DotDot} \subseteq SlotValues
  BY DEF SlotValues

LEMMA SetIs ==
    ASSUME NEW sl \in Seq(SlotValues), NEW i \in 1 .. Len(sl), NEW e \in SlotValues
    PROVE  SetSlot(sl, [sl EXCEPT ![i] = e], i, e)
  BY ExceptSeq DEF SetSlot

(* The slots of an entry are not free, its LFN slots follow each other. *)
LEMMA ChainSlots ==
    ASSUME NEW sl \in Seq(SlotValues), NEW p, NEW n, NEW c, Chain(sl, p, n, c)
    PROVE  /\ p \in 1 .. Len(sl) /\ c \in Nat /\ c < p /\ Len(sl) \in Nat
           /\ n \in Names /\ Len(n) \in Nat /\ c <= Len(n)
           /\ sl[p].kind = "short" /\ sl[p].name = Alias[n]
           /\ \A j \in 1 .. Len(sl) : p - c <= j /\ j < p =>
                sl[j].kind = "lfn" /\ sl[j] = Lfn(n, p - j)
  <1>1. /\ p \in 1 .. Len(sl) /\ n \in Names /\ c \in 0 .. Len(n) /\ c < p
        /\ sl[p] = Short(n) /\ \A k \in 1 .. c : sl[p - k] = Lfn(n, k)
    BY DEF Chain
  <1>2. Len(n) \in Nat /\ Len(sl) \in Nat  BY <1>1, NameIs
  <1>3. ASSUME NEW j \in 1 .. Len(sl), p - c <= j, j < p
        PROVE  sl[j].kind = "lfn" /\ sl[j] = Lfn(n, p - j)
    <2>1. p - j \in 1 .. c /\ p - (p - j) = j  BY <1>1, <1>2, <1>3
    <2>2. sl[j] = Lfn(n, p - j)  BY <1>1, <2>1
    <2> QED  BY <2>2, SlotFields
  <1> QED  BY <1>1, <1>2, <1>3, SlotFields

(* An entry whose slots are left alone stays. *)
LEMMA ChainStays ==
    ASSUME NEW sl \in Seq(SlotValues), NEW tl \in Seq(SlotValues),
           NEW p, NEW n, NEW c, Chain(sl, p, n, c), p \in 1 .. Len(tl),
           \A j \in 1 .. Len(sl) : p - c <= j /\ j <= p => tl[j] = sl[j]
    PROVE  Chain(tl, p, n, c)
  <1>1. p \in 1 .. Len(sl) /\ c \in Nat /\ c < p /\ Len(sl) \in Nat
    BY ChainSlots
  <1>2. /\ p \in 1 .. Len(sl) /\ n \in Names /\ c \in 0 .. Len(n) /\ c < p
        /\ sl[p] = Short(n) /\ \A k \in 1 .. c : sl[p - k] = Lfn(n, k)
    BY DEF Chain
  <1>3. tl[p] = Short(n)  BY <1>1, <1>2
  <1>4. ASSUME NEW k \in 1 .. c PROVE tl[p - k] = Lfn(n, k)
    <2>1. p - k \in 1 .. Len(sl) /\ p - c <= p - k /\ p - k <= p  BY <1>1
    <2> QED  BY <1>2, <2>1
  <1> QED  BY <1>2, <1>3, <1>4 DEF Chain

NotHeader(i) == ~(i \in 1 .. Len(Header))

LEMMA FreeIsNotHeader ==
    ASSUME NEW sl, LaidOut(sl), NEW i, IsFree(sl[i])
    PROVE  NotHeader(i)
  BY HeaderIs DEF NotHeader, IsFree

(* The directory stays laid out when its blocks do. *)
LEMMA LaidStays ==
    ASSUME NEW sl, LaidOut(sl), NEW tl \in Seq(SlotValues), NEW i, NEW e,
           SetSlot(sl, tl, i, e), NotHeader(i),
           \A p \in 1 .. Len(sl) : p # i =>
             \A n \in Names : \A c \in 0 .. Len(n) :
               Block(sl, p, n, c) =>
                 \E k \in Names : \E d \in 0 .. Len(k) : Block(tl, p, k, d),
           \/ e.kind # "short"
           \/ \E n \in Names : \E c \in 0 .. Len(n) : Block(tl, i, n, c)
    PROVE  LaidOut(tl)
  <1>1. Len(tl) = Len(sl) /\ Len(Header) \in Nat /\ Len(sl) \in Nat
        /\ Len(Header) <= Len(sl)
    BY HeaderAssumption DEF HeaderAssumption, SetSlot, LaidOut
  <1>2. \A j \in 1 .. Len(Header) : tl[j] = Header[j]
    BY <1>1 DEF SetSlot, LaidOut, NotHeader
  <1>3. ASSUME NEW p \in 1 .. Len(tl), p > Len(Header), tl[p].kind = "short"
        PROVE  \E n \in Names : \E c \in 0 .. Len(n) : Block(tl, p, n, c)
    <2>1. CASE p = i
      <3>1. e.kind = "short"  BY <1>1, <1>3, <2>1 DEF SetSlot
      <3> QED  BY <2>1, <3>1
    <2>2. CASE p # i
      <3>1. sl[p].kind = "short"  BY <1>1, <1>3, <2>2 DEF SetSlot
      <3>2. \E n \in Names : \E c \in 0 .. Len(n) : Block(sl, p, n, c)
        BY <1>1, <1>3, <3>1 DEF LaidOut
      <3> QED  BY <1>1, <2>2, <3>2
    <2> QED  BY <2>1, <2>2
  <1> QED  BY <1>1, <1>2, <1>3 DEF LaidOut

(* dir_write_entry, an LFN slot: what follows it is free. *)
LEMMA PutLfnKeeps ==
    ASSUME NEW sl, LaidOut(sl), NEW i \in 1 .. Len(sl), IsFree(sl[i]),
           i = Len(sl) \/ IsFree(sl[i + 1]),
           NEW e, e.kind = "lfn", NEW tl, SetSlot(sl, tl, i, e)
    PROVE  LaidOut(tl) /\ \A p, m, c : Chain(tl, p, m, c) <=> Chain(sl, p, m, c)
  <1>1. /\ sl \in Seq(SlotValues) /\ tl \in Seq(SlotValues) /\ Len(tl) = Len(sl)
        /\ Len(sl) \in Nat /\ \A j \in 1 .. Len(sl) : j # i => tl[j] = sl[j]
        /\ tl[i] = e
    BY DEF LaidOut, SetSlot
  <1>2. sl[i].kind \in {"zero", "deleted"}  BY DEF IsFree
  <1>3. ASSUME NEW p, NEW m, NEW c, Chain(sl, p, m, c) PROVE Chain(tl, p, m, c)
    <2>1. p \in 1 .. Len(sl) /\ c \in Nat /\ ~(p - c <= i /\ i <= p)
      BY <1>1, <1>2, <1>3, ChainSlots
    <2>2. \A j \in 1 .. Len(sl) : p - c <= j /\ j <= p => tl[j] = sl[j]
      BY <1>1, <2>1
    <2> QED  BY <1>1, <1>3, <2>1, <2>2, ChainStays
  <1>4. ASSUME NEW p, NEW m, NEW c, Chain(tl, p, m, c)
        PROVE  ~(p - c <= i /\ i <= p) /\ Chain(sl, p, m, c)
    <2>1. /\ p \in 1 .. Len(sl) /\ c \in Nat /\ tl[p].kind = "short"
          /\ \A j \in 1 .. Len(sl) : p - c <= j /\ j < p => tl[j].kind = "lfn"
      BY <1>1, <1>4, ChainSlots
    <2>2. ~(p - c <= i /\ i <= p)
      <3>1. SUFFICES ASSUME p - c <= i, i <= p PROVE FALSE  OBVIOUS
      <3>2. i # p  BY <1>1, <2>1
      <3>3. i + 1 \in 1 .. Len(sl) /\ i + 1 <= p /\ p - c <= i + 1
        BY <1>1, <2>1, <3>1, <3>2
      <3>4. tl[i + 1] = sl[i + 1] /\ sl[i + 1].kind \in {"zero", "deleted"}
        BY <1>1, <3>3 DEF IsFree
      <3>5. i + 1 = p \/ i + 1 < p  BY <1>1, <2>1, <3>3
      <3> QED  BY <2>1, <3>3, <3>4, <3>5
    <2>3. \A j \in 1 .. Len(tl) : p - c <= j /\ j <= p => sl[j] = tl[j]
      BY <1>1, <2>2
    <2>4. Chain(sl, p, m, c)  BY <1>1, <1>4, <2>1, <2>3, ChainStays
    <2> QED  BY <2>2, <2>4
  <1>5. ASSUME NEW p \in 1 .. Len(sl), NEW n \in Names, NEW c \in 0 .. Len(n),
               Block(sl, p, n, c)
        PROVE  Block(tl, p, n, c)
    <2>1. Chain(tl, p, n, c) /\ Chain(sl, p, n, c)  BY <1>3, <1>5 DEF Block
    <2>2. c \in Nat /\ c < p /\ ~(p - c <= i /\ i <= p)  BY <1>1, <1>4, <2>1, ChainSlots
    <2>3. SUFFICES ASSUME c # Len(n), p - c # 1 PROVE tl[p - c - 1].kind # "lfn"
      BY <2>1 DEF Block
    <2>4. sl[p - c - 1].kind # "lfn" /\ p - c - 1 \in 1 .. Len(sl)
      BY <1>1, <1>5, <2>2, <2>3 DEF Block
    <2>5. p - c - 1 # i
      <3>1. SUFFICES ASSUME p - c - 1 = i PROVE FALSE  OBVIOUS
      <3>2. i + 1 = p - c /\ i # Len(sl) /\ p - c \in 1 .. Len(sl)
        BY <1>1, <2>2, <3>1
      <3>3. sl[p - c].kind \in {"zero", "deleted"}  BY <3>2 DEF IsFree
      <3>4. sl[p - c].kind \in {"lfn", "short"}  BY <1>1, <2>1, <3>2, ChainSlots
      <3> QED  BY <3>3, <3>4
    <2> QED  BY <1>1, <2>4, <2>5
  <1>6. NotHeader(i)  BY FreeIsNotHeader
  <1>7. e.kind # "short"  OBVIOUS
  <1>8. LaidOut(tl)  BY <1>1, <1>5, <1>6, <1>7, LaidStays
  <1> QED  BY <1>3, <1>4, <1>8

(* dir_write_entry, the 8.3 slot: the entry is complete. *)
LEMMA PutShortKeeps ==
    ASSUME NEW sl, LaidOut(sl), NEW i \in 1 .. Len(sl), IsFree(sl[i]),
           NEW n \in Names, Len(n) < i,
           \A k \in 1 .. Len(n) : sl[i - k] = Lfn(n, k),
           NEW tl, SetSlot(sl, tl, i, Short(n))
    PROVE  /\ LaidOut(tl) /\ Complete(tl, i, n)
           /\ \A p, m, c : p # i => (Chain(tl, p, m, c) <=> Chain(sl, p, m, c))
           /\ \A m, c : ~Chain(sl, i, m, c)
  <1>1. /\ sl \in Seq(SlotValues) /\ tl \in Seq(SlotValues) /\ Len(tl) = Len(sl)
        /\ Len(sl) \in Nat /\ \A j \in 1 .. Len(sl) : j # i => tl[j] = sl[j]
        /\ tl[i] = Short(n)
    BY DEF LaidOut, SetSlot
  <1>2. sl[i].kind \in {"zero", "deleted"}  BY DEF IsFree
  <1>3. ASSUME NEW p, NEW m, NEW c, Chain(sl, p, m, c)
        PROVE  p # i /\ Chain(tl, p, m, c)
    <2>1. p \in 1 .. Len(sl) /\ c \in Nat /\ ~(p - c <= i /\ i <= p)
      BY <1>1, <1>2, <1>3, ChainSlots
    <2>2. \A j \in 1 .. Len(sl) : p - c <= j /\ j <= p => tl[j] = sl[j]
      BY <1>1, <2>1
    <2>3. Chain(tl, p, m, c)  BY <1>1, <1>3, <2>1, <2>2, ChainStays
    <2>4. p # i  BY <1>1, <1>2, <1>3, ChainSlots
    <2> QED  BY <2>3, <2>4
  <1>4. ASSUME NEW p, NEW m, NEW c, Chain(tl, p, m, c), p # i
        PROVE  Chain(sl, p, m, c)
    <2>1. /\ p \in 1 .. Len(sl) /\ c \in Nat
          /\ \A j \in 1 .. Len(sl) : p - c <= j /\ j < p => tl[j].kind = "lfn"
      BY <1>1, <1>4, ChainSlots
    <2>2. ~(p - c <= i /\ i <= p)
      <3>1. tl[i].kind = "short"  BY <1>1, SlotFields
      <3> QED  BY <1>1, <1>4, <2>1, <3>1
    <2>3. \A j \in 1 .. Len(tl) : p - c <= j /\ j <= p => sl[j] = tl[j]
      BY <1>1, <2>2
    <2> QED  BY <1>1, <1>4, <2>1, <2>3, ChainStays
  <1>5. Complete(tl, i, n)
    <2>1. Len(n) \in Nat  BY NameIs
    <2>2. \A k \in 1 .. Len(n) : i - k \in 1 .. Len(sl) /\ i - k # i
      BY <1>1, <2>1
    <2> QED  BY <1>1, <2>1, <2>2 DEF Complete, Chain
  <1>6. ASSUME NEW p \in 1 .. Len(sl), NEW m \in Names, NEW c \in 0 .. Len(m),
               Block(sl, p, m, c)
        PROVE  Block(tl, p, m, c)
    <2>1. Chain(tl, p, m, c) /\ Chain(sl, p, m, c)  BY <1>3, <1>6 DEF Block
    <2>2. c \in Nat /\ c < p  BY <1>1, <2>1, ChainSlots
    <2>3. SUFFICES ASSUME c # Len(m), p - c # 1 PROVE tl[p - c - 1].kind # "lfn"
      BY <2>1 DEF Block
    <2>4. sl[p - c - 1].kind # "lfn" /\ p - c - 1 \in 1 .. Len(sl)
      BY <1>1, <1>6, <2>2, <2>3 DEF Block
    <2>5. tl[i].kind = "short"  BY <1>1, SlotFields
    <2> QED  BY <1>1, <2>4, <2>5
  <1>7. NotHeader(i)  BY FreeIsNotHeader
  <1>8. Block(tl, i, n, Len(n)) /\ Len(n) \in 0 .. Len(n)
    <2>1. Len(n) \in Nat  BY NameIs
    <2> QED  BY <1>5, <2>1 DEF Block, Complete
  <1>9. LaidOut(tl)  BY <1>1, <1>6, <1>7, <1>8, LaidStays
  <1> QED  BY <1>3, <1>4, <1>5, <1>9

(* fat32_delete marks the first slot of a block: the block gets shorter. *)
LEMMA MarkKeeps ==
    ASSUME NEW sl, LaidOut(sl), NEW p, NEW n, NEW c, Block(sl, p, n, c),
           NEW tl, SetSlot(sl, tl, p - c, Deleted)
    PROVE  /\ LaidOut(tl) /\ \A m : ~Complete(tl, p, m)
           /\ c # 0 => Block(tl, p, n, c - 1) /\ c - 1 # Len(n)
           /\ c = 0 => tl[p].kind = "deleted"
           /\ \A q, m, d : q # p => (Chain(tl, q, m, d) <=> Chain(sl, q, m, d))
  <1> DEFINE i == p - c
  <1>1. /\ sl \in Seq(SlotValues) /\ tl \in Seq(SlotValues) /\ Len(tl) = Len(sl)
        /\ Len(sl) \in Nat /\ Chain(sl, p, n, c)
    BY DEF LaidOut, SetSlot, Block
  <1>2. /\ p \in 1 .. Len(sl) /\ c \in Nat /\ c < p /\ n \in Names
        /\ Len(n) \in Nat /\ c <= Len(n) /\ sl[p].kind = "short"
        /\ \A j \in 1 .. Len(sl) : i <= j /\ j < p => sl[j].kind = "lfn"
    BY <1>1, ChainSlots
  <1>3. i \in 1 .. Len(sl) /\ i <= p  BY <1>1, <1>2
  <1>4. /\ \A j \in 1 .. Len(sl) : j # i => tl[j] = sl[j]
        /\ tl[i].kind = "deleted"
    BY <1>3, SlotFields DEF SetSlot
  <1> HIDE DEF i
  <1>5. ASSUME NEW q, NEW m, NEW d, Chain(sl, q, m, d), q # p
        PROVE  Chain(tl, q, m, d)
    <2>1. /\ q \in 1 .. Len(sl) /\ d \in Nat /\ d < q /\ sl[q].kind = "short"
          /\ \A j \in 1 .. Len(sl) : q - d <= j /\ j < q => sl[j].kind = "lfn"
      BY <1>1, <1>5, ChainSlots
    <2>2. ~(q - d <= i /\ i <= q)
      <3>1. SUFFICES ASSUME q - d <= i, i <= q PROVE FALSE  OBVIOUS
      <3>2. CASE q < p  BY <1>2, <2>1, <3>1, <3>2
      <3>3. CASE p < q  BY <1>1, <1>2, <1>3, <2>1, <3>1, <3>3
      <3> QED  BY <1>2, <1>5, <2>1, <3>2, <3>3
    <2>3. \A j \in 1 .. Len(sl) : q - d <= j /\ j <= q => tl[j] = sl[j]
      BY <1>3, <1>4, <2>1, <2>2
    <2> QED  BY <1>1, <1>5, <2>1, <2>3, ChainStays
  <1>6. ASSUME NEW q, NEW m, NEW d, Chain(tl, q, m, d), q # p
        PROVE  Chain(sl, q, m, d)
    <2>1. /\ q \in 1 .. Len(sl) /\ d \in Nat /\ d < q /\ tl[q].kind = "short"
          /\ \A j \in 1 .. Len(sl) : q - d <= j /\ j < q => tl[j].kind = "lfn"
      BY <1>1, <1>6, ChainSlots
    <2>2. ~(q - d <= i /\ i <= q)
      <3>1. i # q  BY <1>4, <2>1
      <3> QED  BY <1>3, <1>4, <2>1, <3>1
    <2>3. \A j \in 1 .. Len(tl) : q - d <= j /\ j <= q => sl[j] = tl[j]
      BY <1>1, <1>3, <1>4, <2>1, <2>2
    <2> QED  BY <1>1, <1>6, <2>1, <2>3, ChainStays
  <1>7. ASSUME c # 0 PROVE Block(tl, p, n, c - 1) /\ c - 1 # Len(n)
    <2>1. c - 1 \in 0 .. Len(n) /\ c - 1 < p /\ c - 1 # Len(n) /\ c \in 0 .. Len(n)
      BY <1>2, <1>7
    <2>2. sl[p] = Short(n) /\ \A k \in 1 .. c : sl[p - k] = Lfn(n, k)
      BY <1>1 DEF Chain
    <2>3. tl[p] = Short(n)  BY <1>2, <1>4, <1>7, <2>2 DEF i
    <2>4. \A k \in 1 .. c - 1 : tl[p - k] = Lfn(n, k)
      <3> TAKE k \in 1 .. c - 1
      <3>1. p - k \in 1 .. Len(sl) /\ p - k # i /\ k \in 1 .. c  BY <1>2 DEF i
      <3> QED  BY <1>4, <2>2, <3>1
    <2>5. Chain(tl, p, n, c - 1)  BY <1>1, <1>2, <2>1, <2>3, <2>4 DEF Chain
    <2>6. p - (c - 1) - 1 = i  BY <1>2 DEF i
    <2>7. tl[p - (c - 1) - 1].kind # "lfn"  BY <1>4, <2>6
    <2> QED  BY <2>1, <2>5, <2>7 DEF Block
  <1>8. ASSUME c = 0 PROVE i = p /\ tl[p].kind = "deleted"
    BY <1>2, <1>4, <1>8 DEF i
  <1>9. \A m : ~Complete(tl, p, m)
    <2>1. CASE c # 0  BY <1>1, <1>7, <2>1, PartialIs
    <2>2. CASE c = 0
      <3>1. tl[p].kind # "short"  BY <1>8, <2>2
      <3> QED  BY <1>1, <3>1, ChainSlots DEF Complete
    <2> QED  BY <2>1, <2>2
  <1>10. ASSUME NEW q \in 1 .. Len(sl), q # p, NEW m \in Names,
                NEW d \in 0 .. Len(m), Block(sl, q, m, d)
         PROVE  Block(tl, q, m, d)
    <2>1. Chain(tl, q, m, d) /\ Chain(sl, q, m, d)  BY <1>5, <1>10 DEF Block
    <2>2. d \in Nat /\ d < q  BY <1>1, <2>1, ChainSlots
    <2>3. SUFFICES ASSUME d # Len(m), q - d # 1 PROVE tl[q - d - 1].kind # "lfn"
      BY <2>1 DEF Block
    <2>4. sl[q - d - 1].kind # "lfn" /\ q - d - 1 \in 1 .. Len(sl)
      BY <1>1, <1>10, <2>2, <2>3 DEF Block
    <2> QED  BY <1>4, <2>4
  <1>11. NotHeader(i)
    <2>1. SUFFICES ASSUME i \in 1 .. Len(Header) PROVE FALSE  BY DEF NotHeader
    <2>2. sl[i].kind # "lfn" /\ ~Chain(sl, i, n, c)  BY <2>1, HeaderIs
    <2>3. i = p  BY <1>2, <1>3, <2>2
    <2> QED  BY <1>1, <2>2, <2>3
  <1>12. LaidOut(tl)
    <2>1. SetSlot(sl, tl, i, Deleted)  BY DEF i
    <2>2. ASSUME NEW q \in 1 .. Len(sl), q # i, NEW m \in Names,
                 NEW d \in 0 .. Len(m), Block(sl, q, m, d)
          PROVE  \E k \in Names : \E b \in 0 .. Len(k) : Block(tl, q, k, b)
      <3>1. CASE q # p  BY <1>10, <2>2, <3>1
      <3>2. CASE q = p
        <4>1. c # 0  BY <1>8, <2>2, <3>2
        <4>2. c - 1 \in 0 .. Len(n)  BY <1>2, <4>1
        <4> QED  BY <1>2, <1>7, <3>2, <4>1, <4>2
      <3> QED  BY <3>1, <3>2
    <2>3. Deleted.kind # "short"  BY SlotFields
    <2> QED  BY <1>1, <1>11, <2>1, <2>2, <2>3, LaidStays
  <1> QED  BY <1>5, <1>6, <1>7, <1>8, <1>9, <1>12

(* find_free_slots: a new cluster of 0x00 slots. *)
LEMMA GrowKeeps ==
    ASSUME NEW sl, LaidOut(sl), NEW tl, tl = sl \o NewCluster
    PROVE  /\ LaidOut(tl) /\ Len(tl) = Len(sl) + DirSlots
           /\ \A j \in 1 .. Len(sl) : tl[j] = sl[j]
           /\ \A j \in 1 .. Len(tl) : j > Len(sl) => tl[j] = Zero
           /\ \A p, m, c : Chain(tl, p, m, c) <=> Chain(sl, p, m, c)
  <1>1. sl \in Seq(SlotValues) /\ Len(sl) \in Nat /\ DirSlots \in Nat \ {0}
    BY DirectoryAssumption DEF DirectoryAssumption, LaidOut
  <1>2. NewCluster \in Seq(SlotValues) /\ Len(NewCluster) = DirSlots
        /\ \A j \in 1 .. DirSlots : NewCluster[j] = Zero
    <2>1. NewCluster \in [1 .. DirSlots -> SlotValues]
      BY SlotIn DEF NewCluster
    <2>2. NewCluster \in Seq(SlotValues)  BY <1>1, <2>1, SeqDef
    <2> QED  BY <1>1, <2>1, <2>2 DEF NewCluster
  <1>3. /\ tl \in Seq(SlotValues) /\ Len(tl) = Len(sl) + DirSlots
        /\ \A j \in 1 .. Len(tl) : tl[j] = IF j <= Len(sl) THEN sl[j]
                                           ELSE NewCluster[j - Len(sl)]
    BY <1>1, <1>2, ConcatProperties
  <1>4. /\ \A j \in 1 .. Len(sl) : tl[j] = sl[j]
        /\ \A j \in 1 .. Len(tl) : j > Len(sl) => tl[j] = Zero
    BY <1>1, <1>2, <1>3
  <1>5. ASSUME NEW p, NEW m, NEW c, Chain(sl, p, m, c) PROVE Chain(tl, p, m, c)
    <2>1. p \in 1 .. Len(sl)  BY <1>1, <1>5, ChainSlots
    <2>2. p \in 1 .. Len(tl)  BY <1>1, <1>3, <2>1
    <2> QED  BY <1>1, <1>3, <1>4, <1>5, <2>2, ChainStays
  <1>6. ASSUME NEW p, NEW m, NEW c, Chain(tl, p, m, c) PROVE Chain(sl, p, m, c)
    <2>1. p \in 1 .. Len(tl) /\ tl[p].kind = "short"  BY <1>3, <1>6, ChainSlots
    <2>2. p \in 1 .. Len(sl)
      <3>1. ~(p > Len(sl))  BY <1>4, <2>1, SlotFields
      <3>2. p \in Nat /\ p >= 1  BY <2>1
      <3> QED  BY <1>1, <3>1, <3>2
    <2>3. \A j \in 1 .. Len(tl) : p - c <= j /\ j <= p => sl[j] = tl[j]
      BY <1>1, <1>3, <1>4, <2>2
    <2> QED  BY <1>1, <1>3, <1>6, <2>2, <2>3, ChainStays
  <1>7. ASSUME NEW p \in 1 .. Len(sl), NEW n, NEW c, Block(sl, p, n, c)
        PROVE  Block(tl, p, n, c)
    <2>1. Chain(sl, p, n, c)  BY <1>7 DEF Block
    <2>2. p \in 1 .. Len(sl) /\ c \in Nat /\ c < p  BY <1>1, <2>1, ChainSlots
    <2>3. p - c - 1 \in 0 .. Len(sl)  BY <1>1, <2>2
    <2> QED  BY <1>1, <1>4, <1>5, <1>7, <2>1, <2>2, <2>3 DEF Block
  <1>8. LaidOut(tl)
    <2>1. Len(Header) \in Nat /\ Len(Header) <= Len(sl)
      BY HeaderAssumption DEF HeaderAssumption, LaidOut
    <2>2. \A j \in 1 .. Len(Header) : tl[j] = Header[j]
      BY <1>1, <1>4, <2>1 DEF LaidOut
    <2>3. ASSUME NEW p \in 1 .. Len(tl), p > Len(Header), tl[p].kind = "short"
          PROVE  \E n \in Names : \E c \in 0 .. Len(n) : Block(tl, p, n, c)
      <3>0. ~(p > Len(sl))  BY <1>4, <2>3, SlotFields
      <3>1. p \in 1 .. Len(sl)  BY <1>1, <1>3, <3>0
      <3>2. sl[p].kind = "short"  BY <1>4, <2>3, <3>1
      <3> QED  BY <1>7, <2>3, <3>1, <3>2 DEF LaidOut
    <2> QED  BY <1>1, <1>3, <2>1, <2>2, <2>3 DEF LaidOut
  <1> QED  BY <1>3, <1>4, <1>5, <1>6, <1>8

(***************************************************************************)
(* The structural invariant                                                *)
(***************************************************************************)
LEMMA RunFacts ==
    ASSUME NEW p \in Nat, NEW c \in Nat, c < p
    PROVE  /\ Append(RunAt(p, c), p) = RunAt(p + 1, c + 1)
           /\ Len(RunAt(p, c)) = c /\ RunAt(p, c) \in Seq(Nat)
           /\ \A k \in 1 .. c : RunAt(p, c)[k] = p - c - 1 + k
           /\ c # 0 => Head(RunAt(p, c)) = p - c
                       /\ Tail(RunAt(p, c)) = RunAt(p, c - 1)
  <1>1. IsRun(RunAt(p, c), p, c)  BY RunIs
  <1>2. Append(RunAt(p, c), p) = RunAt(p + 1, c + 1)
    <2>1. IsRun(Append(RunAt(p, c), p), p + 1, c + 1)  BY <1>1, RunGrows
    <2>2. p + 1 \in Nat /\ c + 1 \in Nat /\ c + 1 < p + 1  OBVIOUS
    <2> QED  BY <2>1, <2>2, RunIs
  <1>3. ASSUME c # 0
        PROVE  Head(RunAt(p, c)) = p - c /\ Tail(RunAt(p, c)) = RunAt(p, c - 1)
    <2> DEFINE r == RunAt(p, c)
    <2>1. r \in Seq(Nat) /\ Len(r) = c /\ \A k \in 1 .. c : r[k] = p - c - 1 + k
      BY <1>1 DEF IsRun
    <2> HIDE DEF r
    <2>2. r # <<>>  BY <1>3, <2>1
    <2>3. /\ Head(r) = r[1] /\ Tail(r) \in Seq(Nat) /\ Len(Tail(r)) = Len(r) - 1
          /\ \A k \in 1 .. Len(Tail(r)) : Tail(r)[k] = r[k + 1]
      BY <2>1, <2>2, HeadTailProperties
    <2>4. Head(r) = p - c  BY <1>3, <2>1, <2>3
    <2>5. IsRun(Tail(r), p, c - 1)
      <3>1. ASSUME NEW k \in 1 .. c - 1
            PROVE  Tail(r)[k] = p - (c - 1) - 1 + k
        <4>1. k \in 1 .. Len(Tail(r)) /\ k + 1 \in 1 .. c  BY <2>1, <2>3
        <4>2. Tail(r)[k] = p - c - 1 + (k + 1)  BY <2>1, <2>3, <4>1
        <4>3. p - c - 1 + (k + 1) = p - (c - 1) - 1 + k  OBVIOUS
        <4> QED  BY <4>2, <4>3
      <3> QED  BY <2>1, <2>3, <3>1 DEF IsRun
    <2>6. Tail(r) = RunAt(p, c - 1)
      <3>1. c - 1 \in Nat /\ c - 1 < p  BY <1>3
      <3> QED  BY <2>5, <3>1, RunIs
    <2> QED  BY <2>4, <2>6 DEF r
  <1> QED  BY <1>1, <1>2, <1>3 DEF IsRun

LEMMA Clusters ==
    ASSUME NEW c \in 1 .. MaxClusters, NEW l, l = DirSlots * c,
           l < DirSlots * MaxClusters
    PROVE  c + 1 \in 1 .. MaxClusters /\ l + DirSlots = DirSlots * (c + 1)
  <1>1. DirSlots \in Nat /\ MaxClusters \in Nat
    BY DirectoryAssumption DEF DirectoryAssumption
  <1>2. c # MaxClusters  OBVIOUS
  <1> QED  BY <1>1, <1>2

(* A new directory: the header, then 0x00 slots. *)
LEMMA InitSlots ==
    ASSUME Init
    PROVE  /\ slots \in Seq(SlotValues) /\ Len(slots) = DirSlots
           /\ \A i \in 1 .. Len(Header) : slots[i] = Header[i]
           /\ \A i \in 1 .. Len(slots) : i > Len(Header) => slots[i] = Zero
  <1> DEFINE Rest == [i \in 1 .. DirSlots - Len(Header) |-> Zero]
  <1>1. /\ Header \in Seq({Label, Dot, DotDot}) /\ Len(Header) <= DirSlots
        /\ Len(Header) \in Nat /\ DirSlots \in Nat \ {0}
    BY HeaderAssumption, DirectoryAssumption
       DEF HeaderAssumption, DirectoryAssumption
  <1>2. Header \in Seq(SlotValues)  BY <1>1, SlotIn, SeqMonotonic
  <1>3. DirSlots - Len(Header) \in Nat  BY <1>1
  <1>4. Rest \in Seq(SlotValues) /\ Len(Rest) = DirSlots - Len(Header)
        /\ \A i \in 1 .. Len(Rest) : Rest[i] = Zero
    <2>1. Rest \in [1 .. DirSlots - Len(Header) -> SlotValues]  BY SlotIn
    <2>2. Rest \in Seq(SlotValues)  BY <1>3, <2>1, SeqDef
    <2> QED  BY <1>3, <2>1, <2>2
  <1>5. slots = Header \o Rest  BY DEF Init
  <1> HIDE DEF Rest
  <1>6. /\ slots \in Seq(SlotValues) /\ Len(slots) = Len(Header) + Len(Rest)
        /\ \A i \in 1 .. Len(slots) : slots[i] =
             IF i <= Len(Header) THEN Header[i] ELSE Rest[i - Len(Header)]
    BY <1>2, <1>4, <1>5, ConcatProperties
  <1>7. Len(slots) = DirSlots  BY <1>1, <1>4, <1>6
  <1>8. \A i \in 1 .. Len(Header) : slots[i] = Header[i]  BY <1>1, <1>6, <1>7
  <1>9. \A i \in 1 .. Len(slots) : i > Len(Header) => slots[i] = Zero
    <2> TAKE i \in 1 .. Len(slots)
    <2>1. SUFFICES ASSUME i > Len(Header) PROVE slots[i] = Zero  OBVIOUS
    <2>2. i - Len(Header) \in 1 .. Len(Rest) /\ ~(i <= Len(Header))
      BY <1>1, <1>4, <1>7, <2>1
    <2> QED  BY <1>4, <1>6, <2>2
  <1> QED  BY <1>6, <1>7, <1>8, <1>9

LEMMA StructureInit == Init => Structure
  <1> SUFFICES ASSUME Init PROVE Structure  OBVIOUS
  <1>1. Len(Header) <= DirSlots /\ DirSlots \in Nat \ {0} /\ MaxClusters \in Nat \ {0}
    BY HeaderAssumption, DirectoryAssumption
       DEF HeaderAssumption, DirectoryAssumption
  <1>2. LaidOut(slots)  BY <1>1, InitSlots, SlotFields DEF LaidOut
  <1>3. Len(slots) = DirSlots * 1 /\ 1 \in 1 .. MaxClusters  BY <1>1, InitSlots
  <1> QED  BY <1>2, <1>3 DEF Init, Structure

LEMMA StructureRefuse ==
    ASSUME Structure, NEW n \in Names, Refuse(n)
    PROVE  Structure'
  BY DEF Structure, Refuse

LEMMA FreeRunIs ==
    ASSUME LaidOut(slots), NEW n \in Names, FreeRuns(Len(n) + 1) # {}
    PROVE  LET p == Min(FreeRuns(Len(n) + 1))
           IN  /\ p \in 1 .. Len(slots) /\ p + Len(n) <= Len(slots)
               /\ \A i \in p .. p + Len(n) : IsFree(slots[i])
  <1> DEFINE S == FreeRuns(Len(n) + 1)
  <1>1. Len(n) \in Nat /\ Len(n) >= 1 /\ Len(slots) \in Nat
    BY NameIs DEF LaidOut
  <1>2. S \in SUBSET Nat  BY <1>1 DEF FreeRuns
  <1>3. Min(S) \in S
    <2> HIDE DEF S
    <2> QED  BY <1>2, MinIs DEF S
  <1>4. /\ Min(S) \in 1 .. Len(slots) - (Len(n) + 1) + 1
        /\ \A i \in Min(S) .. Min(S) + (Len(n) + 1) - 1 : IsFree(slots[i])
    BY <1>3 DEF FreeRuns
  <1> HIDE DEF S
  <1>5. Min(S) \in Nat /\ Min(S) + (Len(n) + 1) - 1 = Min(S) + Len(n)
    BY <1>1, <1>4
  <1> QED  BY <1>1, <1>4, <1>5 DEF S

LEMMA StructureCreate ==
    ASSUME Structure, NEW n \in Names, Create(n)
    PROVE  Structure'
  <1>1. CASE Refuse(n)  BY <1>1, StructureRefuse
  <1>2. CASE /\ FreeRuns(Len(n) + 1) # {} /\ at' = Min(FreeRuns(Len(n) + 1))
             /\ UNCHANGED slots
             /\ pc' = "put" /\ name' = n /\ seq' = Len(n)
             /\ UNCHANGED <<todo, ret, known, whole>>
    <2>1. /\ at' \in 1 .. Len(slots) /\ at' + Len(n) <= Len(slots)
          /\ \A i \in at' .. at' + Len(n) : IsFree(slots[i])
      BY <1>2, FreeRunIs DEF Structure
    <2>2. Len(n) \in Nat /\ Len(slots) \in Nat  BY NameIs DEF Structure, LaidOut
    <2>3. Putting'
      <3>1. at' > Len(n) - Len(n)  BY <2>1, <2>2
      <3>2. \A i \in 1 .. Len(slots) : at' <= i /\ i <= at' + Len(n) =>
              IsFree(slots[i])
        BY <2>1, <2>2
      <3> QED  BY <1>2, <2>1, <2>2, <3>1, <3>2 DEF Putting
    <2> QED  BY <1>2, <2>3 DEF Structure
  <1>3. CASE /\ CanGrow /\ at' = Len(slots) + 1 /\ slots' = slots \o NewCluster
             /\ pc' = "put" /\ name' = n /\ seq' = Len(n)
             /\ UNCHANGED <<todo, ret, known, whole>>
    <2>1. /\ LaidOut(slots') /\ Len(slots') = Len(slots) + DirSlots
          /\ \A j \in 1 .. Len(slots') : j > Len(slots) => slots'[j] = Zero
      BY <1>3, GrowKeeps DEF Structure
    <2>2. Len(n) \in Nat /\ Len(slots) \in Nat /\ DirSlots \in Nat \ {0}
      BY NameIs, DirectoryAssumption DEF Structure, LaidOut, DirectoryAssumption
    <2>3. Putting'
      <3>1. at' \in 1 .. Len(slots') /\ at' > Len(n) - Len(n)
        BY <1>3, <2>1, <2>2
      <3>2. ASSUME NEW i \in 1 .. Len(slots'), at' <= i PROVE IsFree(slots'[i])
        <4>1. i > Len(slots)  BY <1>3, <2>1, <2>2, <3>2
        <4>2. slots'[i] = Zero  BY <2>1, <4>1
        <4> QED  BY <4>2, SlotFields DEF IsFree
      <3>3. \A k \in 1 .. Len(n) : ~(k > Len(n))  BY <2>2
      <3> QED  BY <1>3, <2>2, <3>1, <3>2, <3>3 DEF Putting
    <2>4. \E c \in 1 .. MaxClusters : Len(slots') = DirSlots * c
      <3>1. PICK c \in 1 .. MaxClusters : Len(slots) = DirSlots * c
        BY DEF Structure
      <3>2. c + 1 \in 1 .. MaxClusters /\ Len(slots) + DirSlots = DirSlots * (c + 1)
        BY <1>3, <3>1, Clusters DEF CanGrow
      <3> QED  BY <2>1, <3>2
    <2> QED  BY <1>3, <2>1, <2>3, <2>4 DEF Structure
  <1> QED  BY <1>1, <1>2, <1>3 DEF Create

LEMMA StructurePutLfn ==
    ASSUME Structure, PutLfn
    PROVE  Structure'
  <1>1. /\ pc = "put" /\ seq > 0 /\ name \in Names /\ LaidOut(slots)
        /\ slots' = [slots EXCEPT ![at] = Lfn(name, seq)]
        /\ at \in 1 .. Len(slots) /\ seq \in 0 .. Len(name)
        /\ at > Len(name) - seq
        /\ \A k \in 1 .. Len(name) : k > seq =>
             slots[at - (k - seq)] = Lfn(name, k)
        /\ \A i \in 1 .. Len(slots) : at <= i /\ i <= at + seq => IsFree(slots[i])
    BY DEF Structure, PutLfn, Putting
  <1>2. slots \in Seq(SlotValues) /\ Len(slots) \in Nat /\ Len(name) \in Nat
        /\ seq \in 1 .. Len(name)
    BY <1>1, NameIs DEF LaidOut
  <1>3. SetSlot(slots, slots', at, Lfn(name, seq))
    BY <1>1, <1>2, SetIs, SlotIn
  <1>4. IsFree(slots[at]) /\ (at = Len(slots) \/ IsFree(slots[at + 1]))
    <2>1. at <= at /\ at <= at + seq  BY <1>1, <1>2
    <2>2. at # Len(slots) => at + 1 \in 1 .. Len(slots) /\ at <= at + 1
                             /\ at + 1 <= at + seq
      BY <1>1, <1>2
    <2> QED  BY <1>1, <2>1, <2>2
  <1>5. LaidOut(slots')
    <2>1. Lfn(name, seq).kind = "lfn"  BY SlotFields
    <2> QED  BY <1>1, <1>3, <1>4, <2>1, PutLfnKeeps
  <1>6. Len(slots') = Len(slots)
        /\ \A j \in 1 .. Len(slots) :
             slots'[j] = IF j = at THEN Lfn(name, seq) ELSE slots[j]
    BY <1>3 DEF SetSlot
  <1>7. CASE at < Len(slots) /\ at' = at + 1 /\ seq' = seq - 1
             /\ UNCHANGED <<pc, todo, ret, whole>> /\ UNCHANGED <<name, known>>
    <2>1. at' \in 1 .. Len(slots') /\ seq' \in 0 .. Len(name')
          /\ at' > Len(name') - seq'
      BY <1>1, <1>2, <1>6, <1>7
    <2>2. ASSUME NEW k \in 1 .. Len(name), k > seq - 1
          PROVE  slots'[at + 1 - (k - (seq - 1))] = Lfn(name, k)
      <3>1. at + 1 - (k - (seq - 1)) = at - (k - seq)  BY <1>1, <1>2
      <3>2. at - (k - seq) \in 1 .. Len(slots)  BY <1>1, <1>2, <2>2
      <3>3. CASE k = seq
        <4>1. at - (k - seq) = at  BY <1>1, <1>2, <3>3
        <4> QED  BY <1>6, <3>1, <3>2, <3>3, <4>1
      <3>4. CASE k > seq
        <4>1. at - (k - seq) # at  BY <1>1, <1>2, <3>4
        <4>2. slots[at - (k - seq)] = Lfn(name, k)  BY <1>1, <3>4
        <4> QED  BY <1>6, <3>1, <3>2, <4>1, <4>2
      <3> QED  BY <1>2, <2>2, <3>3, <3>4
    <2>3. ASSUME NEW i \in 1 .. Len(slots), at + 1 <= i, i <= at + 1 + (seq - 1)
          PROVE  IsFree(slots'[i])
      <3>1. i # at /\ at <= i /\ i <= at + seq  BY <1>1, <1>2, <2>3
      <3> QED  BY <1>1, <1>6, <3>1
    <2>4. /\ \A k \in 1 .. Len(name') : k > seq' =>
               slots'[at' - (k - seq')] = Lfn(name', k)
          /\ \A i \in 1 .. Len(slots') : at' <= i /\ i <= at' + seq' =>
               IsFree(slots'[i])
      <3>1. at' = at + 1 /\ seq' = seq - 1 /\ name' = name /\ Len(slots') = Len(slots)
        BY <1>6, <1>7
      <3>2. ASSUME NEW k \in 1 .. Len(name'), k > seq'
            PROVE  slots'[at' - (k - seq')] = Lfn(name', k)
        <4>1. k \in 1 .. Len(name) /\ k > seq - 1  BY <3>1, <3>2
        <4>2. slots'[at + 1 - (k - (seq - 1))] = Lfn(name, k)  BY <2>2, <4>1
        <4>3. at' - (k - seq') = at + 1 - (k - (seq - 1))
          BY <1>1, <1>2, <3>1
        <4> QED  BY <3>1, <4>2, <4>3
      <3>3. ASSUME NEW i \in 1 .. Len(slots'), at' <= i, i <= at' + seq'
            PROVE  IsFree(slots'[i])
        BY <2>3, <3>1, <3>3
      <3> QED  BY <3>2, <3>3
    <2>5. Putting'  BY <2>1, <2>4 DEF Putting
    <2> QED  BY <1>1, <1>5, <1>6, <1>7, <2>5 DEF Structure
  <1>8. CASE Return(-1) /\ whole' = FALSE /\ UNCHANGED <<name, known>>
    BY <1>1, <1>5, <1>6, <1>8 DEF Structure, Return
  <1> QED  BY <1>7, <1>8 DEF PutLfn

LEMMA PutShortIs ==
    ASSUME Structure, PutShort
    PROVE  /\ LaidOut(slots) /\ at \in 1 .. Len(slots) /\ IsFree(slots[at])
           /\ name \in Names /\ Len(name) < at
           /\ \A k \in 1 .. Len(name) : slots[at - k] = Lfn(name, k)
           /\ SetSlot(slots, slots', at, Short(name))
  <1>1. /\ pc = "put" /\ seq = 0 /\ name \in Names /\ LaidOut(slots)
        /\ slots' = [slots EXCEPT ![at] = Short(name)]
        /\ at \in 1 .. Len(slots) /\ at > Len(name) - seq
        /\ \A k \in 1 .. Len(name) : k > seq =>
             slots[at - (k - seq)] = Lfn(name, k)
        /\ \A i \in 1 .. Len(slots) : at <= i /\ i <= at + seq => IsFree(slots[i])
    BY DEF Structure, PutShort, Putting
  <1>2. slots \in Seq(SlotValues) /\ Len(slots) \in Nat /\ Len(name) \in Nat
    BY <1>1, NameIs DEF LaidOut
  <1>3. SetSlot(slots, slots', at, Short(name))  BY <1>1, <1>2, SetIs, SlotIn
  <1>4. IsFree(slots[at])
    <2>1. at <= at /\ at <= at + seq  BY <1>1, <1>2
    <2> QED  BY <1>1, <2>1
  <1>5. ASSUME NEW k \in 1 .. Len(name) PROVE slots[at - k] = Lfn(name, k)
    <2>1. k > seq /\ at - (k - seq) = at - k  BY <1>1, <1>2
    <2> QED  BY <1>1, <2>1
  <1> QED  BY <1>1, <1>2, <1>3, <1>4, <1>5

LEMMA StructurePutShort ==
    ASSUME Structure, PutShort
    PROVE  Structure'
  <1>1. LaidOut(slots')  BY PutShortIs, PutShortKeeps
  <1>2. Len(slots') = Len(slots)  BY PutShortIs DEF SetSlot
  <1> QED  BY <1>1, <1>2 DEF Structure, PutShort, Return


(* fat32_delete: the slots to mark are those of the entry it found. *)
LEMMA DeleteIs ==
    ASSUME LaidOut(slots), NEW n \in Names, NEW junk \in Junk,
           NEW e \in First(Deletable(junk), n)
    PROVE  \E p \in 1 .. Len(slots) : \E m \in Names : \E c \in 0 .. Len(m) :
             /\ Block(slots, p, m, c) /\ p > Len(Header) /\ e.at = p
             /\ Append(e.run, e.at) = RunAt(p + 1, c + 1)
             /\ e \in Walk(slots, FALSE, junk) /\ e.name = n
             /\ c = Len(m) => m = n
  <1>1. e \in Walk(slots, FALSE, junk) /\ e.name = n  BY DEF First, Deletable
  <1>2. JunkBuf(junk)  BY DEF JunkBuf
  <1>3. PICK p \in 1 .. Len(slots) : slots[p].kind = "short" /\ DeletesAt(slots, p, e)
    BY <1>1, <1>2, DeletableIs
  <1>4. slots \in Seq(SlotValues) /\ Len(slots) \in Nat /\ Len(Header) \in Nat
    BY HeaderAssumption DEF LaidOut, HeaderAssumption
  <1>5. n \notin Dots  BY NameIs DEF Dots
  <1>6. p > Len(Header)  BY <1>1, <1>3, <1>4, <1>5 DEF DeletesAt
  <1>7. PICK m \in Names : \E c \in 0 .. Len(m) : Block(slots, p, m, c)
    BY <1>3, <1>6 DEF LaidOut
  <1>8. PICK c \in 0 .. Len(m) : Block(slots, p, m, c)  BY <1>7
  <1>9. p \in Nat /\ c \in Nat /\ c < p
    <2>1. Chain(slots, p, m, c)  BY <1>8 DEF Block
    <2> QED  BY <1>4, <2>1, ChainSlots
  <1>10. e.at = p /\ e.run = RunAt(p, c) /\ (c = Len(m) => e.name = m)
    BY <1>3, <1>8 DEF DeletesAt
  <1>11. Append(e.run, e.at) = RunAt(p + 1, c + 1)  BY <1>9, <1>10, RunFacts
  <1> QED  BY <1>1, <1>6, <1>8, <1>10, <1>11

LEMMA StructureDelete ==
    ASSUME Structure, NEW n \in Names, NEW junk \in Junk, Delete(n, junk)
    PROVE  Structure'
  <1>1. CASE Refuse(n)  BY <1>1, StructureRefuse
  <1>2. CASE /\ \E e \in First(Deletable(junk), n) : todo' = Append(e.run, e.at)
             /\ pc' = "mark" /\ name' = n
             /\ UNCHANGED <<slots, at, seq, ret, known, whole>>
    <2>1. PICK e \in First(Deletable(junk), n) : todo' = Append(e.run, e.at)
      BY <1>2
    <2>2. LaidOut(slots)  BY DEF Structure
    <2>3. PICK p \in 1 .. Len(slots) : \E m \in Names : \E c \in 0 .. Len(m) :
             /\ Block(slots, p, m, c) /\ p > Len(Header) /\ e.at = p
             /\ Append(e.run, e.at) = RunAt(p + 1, c + 1)
             /\ e \in Walk(slots, FALSE, junk) /\ e.name = n
             /\ c = Len(m) => m = n
      BY <2>2, DeleteIs
    <2>4. Marking'
      <3>1. PICK m \in Names : \E c \in 0 .. Len(m) :
              Block(slots, p, m, c) /\ Append(e.run, e.at) = RunAt(p + 1, c + 1)
        BY <2>3
      <3>2. PICK c \in 0 .. Len(m) :
              Block(slots, p, m, c) /\ Append(e.run, e.at) = RunAt(p + 1, c + 1)
        BY <3>1
      <3>3. slots' = slots  BY <1>2
      <3> QED  BY <2>1, <3>2, <3>3 DEF Marking, MarkingOf
    <2> QED  BY <1>2, <2>4 DEF Structure
  <1> QED  BY <1>1, <1>2 DEF Delete

(* The slots of a block, the 8.3 slot last. *)
LEMMA TodoAt ==
    ASSUME NEW p \in Nat, NEW c \in Nat, c < p, NEW t, t = RunAt(p + 1, c + 1),
           NEW k \in 1 .. c + 1
    PROVE  t[k] = p - c - 1 + k
  <1>1. t[k] = p + 1 - (c + 1) - 1 + k  BY DEF RunAt
  <1>2. p + 1 - (c + 1) - 1 + k = p - c - 1 + k  OBVIOUS
  <1> QED  BY <1>1, <1>2

LEMMA TodoIs ==
    ASSUME NEW p \in Nat, NEW c \in Nat, c < p, NEW t, t = RunAt(p + 1, c + 1)
    PROVE  /\ Len(t) = c + 1 /\ \A k \in 1 .. c + 1 : t[k] = p - c - 1 + k
           /\ Head(t) = p - c /\ Tail(t) = RunAt(p + 1, c)
  <1> DEFINE q == p + 1
             d == c + 1
  <1>1. q \in Nat /\ d \in Nat /\ d < q /\ d # 0  OBVIOUS
  <1>2. q - d = p - c /\ d - 1 = c /\ \A k \in Int : q - d - 1 + k = p - c - 1 + k
    OBVIOUS
  <1>3. t = RunAt(q, d)  OBVIOUS
  <1>4. Len(t) = d /\ (\A k \in 1 .. d : t[k] = p - c - 1 + k)
        /\ Head(t) = p - c /\ Tail(t) = RunAt(q, c)
    <2> HIDE DEF q, d
    <2>1. /\ Len(RunAt(q, d)) = d
          /\ \A k \in 1 .. d : RunAt(q, d)[k] = q - d - 1 + k
          /\ d # 0 => /\ Head(RunAt(q, d)) = q - d
                      /\ Tail(RunAt(q, d)) = RunAt(q, d - 1)
      BY <1>1, RunFacts
    <2>2. Len(t) = d  BY <1>3, <2>1
    <2>3. \A k \in 1 .. d : t[k] = p - c - 1 + k  BY <1>1, <1>2, <1>3, <2>1
    <2>4. Head(t) = p - c  BY <1>1, <1>2, <1>3, <2>1
    <2>5. Tail(t) = RunAt(q, c)
      <3>1. Tail(RunAt(q, d)) = RunAt(q, d - 1)  BY <1>1, <2>1
      <3>2. d - 1 = c  BY <1>2
      <3> QED  BY <1>3, <3>1, <3>2, Zenon
    <2> QED  BY <2>2, <2>3, <2>4, <2>5
  <1> QED  BY <1>4

(* One slot is marked: the first of the block. *)
LEMMA MarkIs ==
    ASSUME Structure, MarkDeleted, NEW p, NEW n, NEW c, MarkingOf(p, n, c)
    PROVE  /\ Block(slots, p, n, c) /\ p \in 1 .. Len(slots) /\ n \in Names
           /\ c \in Nat /\ c < p /\ p - c \in 1 .. Len(slots) /\ c <= Len(n)
           /\ SetSlot(slots, slots', p - c, Deleted)
           /\ Len(todo) = c + 1 /\ todo[Len(todo)] = p
           /\ \A k \in 1 .. c + 1 : todo[k] = p - c - 1 + k
           /\ Len(todo) > 1 => Tail(todo) = RunAt(p + 1, c)
  <1>1. Block(slots, p, n, c) /\ todo = RunAt(p + 1, c + 1)
        /\ slots' = [slots EXCEPT ![Head(todo)] = Deleted] /\ LaidOut(slots)
    BY DEF MarkingOf, MarkDeleted, Structure
  <1>2. slots \in Seq(SlotValues)  BY <1>1 DEF LaidOut
  <1>3. Chain(slots, p, n, c)  BY <1>1 DEF Block
  <1>4. p \in 1 .. Len(slots) /\ c \in Nat /\ c < p /\ Len(slots) \in Nat
        /\ n \in Names /\ c <= Len(n)
    BY <1>2, <1>3, ChainSlots
  <1>5. p \in Nat  BY <1>4
  <1>6. /\ Len(todo) = c + 1
        /\ \A k \in 1 .. c + 1 : todo[k] = p - c - 1 + k
        /\ Head(todo) = p - c /\ Tail(todo) = RunAt(p + 1, c)
    <2>1. c < p /\ c \in Nat /\ todo = RunAt(p + 1, c + 1)  BY <1>1, <1>4
    <2>2. Len(todo) = c + 1  BY <1>5, <2>1, TodoIs
    <2>3. \A k \in 1 .. c + 1 : todo[k] = p - c - 1 + k  BY <1>5, <2>1, TodoIs
    <2>4. Head(todo) = p - c  BY <1>5, <2>1, TodoIs
    <2>5. Tail(todo) = RunAt(p + 1, c)  BY <1>5, <2>1, TodoIs
    <2> QED  BY <2>2, <2>3, <2>4, <2>5
  <1>7. \A k \in 1 .. c + 1 : todo[k] = p - c - 1 + k  BY <1>6
  <1>8. todo[Len(todo)] = p
    <2>1. c + 1 \in 1 .. c + 1 /\ p - c - 1 + (c + 1) = p  BY <1>4
    <2> QED  BY <1>6, <2>1
  <1>9. Head(todo) = p - c /\ Tail(todo) = RunAt(p + 1, c)  BY <1>6
  <1>10. p - c \in 1 .. Len(slots)  BY <1>4
  <1>11. SetSlot(slots, slots', p - c, Deleted)
    BY <1>1, <1>2, <1>9, <1>10, SlotIn, SetIs
  <1> QED  BY <1>1, <1>4, <1>6, <1>7, <1>8, <1>9, <1>10, <1>11

LEMMA StructureMark ==
    ASSUME Structure, MarkDeleted
    PROVE  Structure'
  <1>1. PICK p \in 1 .. Len(slots) : \E n \in Names : \E c \in 0 .. Len(n) :
          MarkingOf(p, n, c)
    BY DEF Structure, MarkDeleted, Marking
  <1>2. PICK n \in Names : \E c \in 0 .. Len(n) : MarkingOf(p, n, c)  BY <1>1
  <1>3. PICK c \in 0 .. Len(n) : MarkingOf(p, n, c)  BY <1>2
  <1>4. /\ Block(slots, p, n, c) /\ c \in Nat /\ c <= Len(n)
        /\ SetSlot(slots, slots', p - c, Deleted)
        /\ Len(todo) = c + 1 /\ (Len(todo) > 1 => Tail(todo) = RunAt(p + 1, c))
    BY <1>3, MarkIs
  <1>5. /\ LaidOut(slots') /\ Len(slots') = Len(slots)
        /\ c # 0 => Block(slots', p, n, c - 1)
    BY <1>4, MarkKeeps DEF Structure, SetSlot
  <1>6. CASE Len(todo) > 1 /\ todo' = Tail(todo)
             /\ UNCHANGED <<pc, at, seq, ret, known>> /\ UNCHANGED <<name, whole>>
    <2>1. c # 0 /\ c - 1 \in 0 .. Len(n) /\ c - 1 + 1 = c
      <3>1. Len(n) \in Nat  BY NameIs
      <3>2. c + 1 > 1  BY <1>4, <1>6
      <3> QED  BY <1>4, <3>1, <3>2
    <2>2. todo' = RunAt(p + 1, c - 1 + 1)
      <3>1. todo' = RunAt(p + 1, c)  BY <1>4, <1>6
      <3> QED  BY <2>1, <3>1
    <2>3. Marking'  BY <1>5, <2>1, <2>2 DEF Marking, MarkingOf
    <2>4. pc' = "mark"  BY <1>6 DEF MarkDeleted
    <2> QED  BY <1>5, <1>6, <2>3, <2>4 DEF Structure
  <1>7. CASE Return(0) /\ known' = known \ {name} /\ UNCHANGED <<name, whole>>
    BY <1>5, <1>7 DEF Structure, Return
  <1> QED  BY <1>6, <1>7 DEF MarkDeleted

LEMMA StructureStep == Structure /\ [Next]_vars => Structure'
  <1> SUFFICES ASSUME Structure, [Next]_vars PROVE Structure'  OBVIOUS
  <1>1. CASE \E n \in Names : Create(n)  BY <1>1, StructureCreate
  <1>2. CASE \E n \in Names : \E junk \in Junk : Delete(n, junk)
    BY <1>2, StructureDelete
  <1>3. CASE PutLfn  BY <1>3, StructurePutLfn
  <1>4. CASE PutShort  BY <1>4, StructurePutShort
  <1>5. CASE MarkDeleted  BY <1>5, StructureMark
  <1>6. CASE Interrupt
    BY <1>6 DEF Structure, Interrupt, Return
  <1>7. CASE UNCHANGED vars
    BY <1>7 DEF Structure, vars, Putting, Marking, MarkingOf
  <1> QED  BY <1>1, <1>2, <1>3, <1>4, <1>5, <1>6, <1>7 DEF Next

(* Every 8.3 slot has its name, or what is left of it, before it, whatever
   was created, deleted or cut off: no sequence of calls and no power loss
   makes an entry take up a slot of another. *)
THEOREM StructureInvariant == Spec => []Structure
  <1>1. Init => Structure  BY StructureInit
  <1>2. Structure /\ [Next]_vars => Structure'  BY StructureStep
  <1> QED  BY <1>1, <1>2, PTL DEF Spec

(* The directory keeps whole clusters and an operation in progress has a
   slot to write or to mark. *)
THEOREM TypeCorrect == Spec => []TypeOK
  <1>1. Structure => TypeOK
    <2> SUFFICES ASSUME Structure PROVE TypeOK  OBVIOUS
    <2>1. PICK c \in 1 .. MaxClusters : Len(slots) = DirSlots * c  BY DEF Structure
    <2>2. DirSlots \in Nat \ {0} /\ MaxClusters \in Nat \ {0}
      BY DirectoryAssumption DEF DirectoryAssumption
    <2>3. Len(slots) % DirSlots = 0  BY <2>1, <2>2
    <2>4. slots \in Seq(SlotValues)  BY DEF Structure, LaidOut
    <2>5. \A i \in 1 .. Len(slots) :
            slots[i].kind \in {"zero", "deleted", "label", "lfn", "short"}
      BY <2>4, SlotKinds
    <2>6. ASSUME pc = "mark" PROVE todo # <<>>
      <3>1. PICK p \in 1 .. Len(slots) : \E n \in Names : \E d \in 0 .. Len(n) :
              MarkingOf(p, n, d)
        BY <2>6 DEF Structure, Marking
      <3>2. PICK n \in Names : \E d \in 0 .. Len(n) : MarkingOf(p, n, d)  BY <3>1
      <3>3. PICK d \in 0 .. Len(n) : MarkingOf(p, n, d)  BY <3>2
      <3>4. Chain(slots, p, n, d)  BY <3>3 DEF MarkingOf, Block
      <3>5. p \in Nat /\ d \in Nat /\ d < p  BY <2>4, <3>4, ChainSlots
      <3>6. p + 1 \in Nat /\ d + 1 \in Nat /\ d + 1 < p + 1  BY <3>5
      <3>7. todo = RunAt(p + 1, d + 1)  BY <3>3 DEF MarkingOf
      <3>8. Len(todo) = d + 1  BY <3>6, <3>7, RunFacts
      <3>9. Len(todo) # 0  BY <3>5, <3>8
      <3> QED  BY <3>9
    <2> QED  BY <2>3, <2>5, <2>6 DEF Structure, TypeOK, Putting
  <1> QED  BY <1>1, StructureInvariant, PTL


(***************************************************************************)
(* No operation interrupted: what is known is what is there                *)
(***************************************************************************)
LEMMA NoHoleIs == NoHole <=> HoleFree(slots)
  BY DEF NoHole, HoleFree

LEMMA CompleteIs ==
    ASSUME NEW sl, NEW p, NEW n, Complete(sl, p, n)
    PROVE  p \in 1 .. Len(sl) /\ n \in Names /\ Chain(sl, p, n, Len(n))
           /\ sl[p] = Short(n) /\ sl[p].kind = "short"
  BY SlotFields DEF Complete, Chain

(* Entries are the same when chains are. *)
LEMMA SameEntries ==
    ASSUME NEW sl, NEW tl, \A p, m, c : Chain(tl, p, m, c) <=> Chain(sl, p, m, c)
    PROVE  /\ \A p, n : Complete(tl, p, n) <=> Complete(sl, p, n)
           /\ \A i : InEntry(tl, i) <=> InEntry(sl, i)
  <1>1. \A p, n : Complete(tl, p, n) <=> Complete(sl, p, n)  BY Zenon DEF Complete
  <1>2. ASSUME NEW i, InEntry(tl, i) PROVE InEntry(sl, i)
    BY <1>1, <1>2, CompleteIs DEF InEntry
  <1>3. ASSUME NEW i, InEntry(sl, i) PROVE InEntry(tl, i)
    BY <1>1, <1>3, CompleteIs DEF InEntry
  <1> QED  BY <1>1, <1>2, <1>3

(* A step that makes and unmakes no entry. *)
LEMMA KnownSame ==
    ASSUME KnownAlive, pc # "mark", pc' # "mark", UNCHANGED known,
           \A p, n : Complete(slots', p, n) <=> Complete(slots, p, n),
           pc' = "put" => name' \notin known
    PROVE  KnownAlive'
  <1>1. ASSUME NEW n PROVE Alive(n)' <=> Alive(n)
    BY CompleteIs DEF Alive
  <1>2. \A n \in Names : n \in known' <=> Alive(n)'  BY <1>1 DEF KnownAlive
  <1>3. ASSUME NEW p \in 1 .. Len(slots'), NEW q \in 1 .. Len(slots'),
               NEW n \in Names, Complete(slots', p, n), Complete(slots', q, n)
        PROVE  p = q
    <2>1. Complete(slots, p, n) /\ Complete(slots, q, n)  BY <1>3
    <2> QED  BY <2>1, CompleteIs DEF KnownAlive
  <1> QED  BY <1>2, <1>3 DEF KnownAlive

(* fat32_find finds an entry that is complete. *)
LEMMA FoundIs ==
    ASSUME LaidOut(slots), NoHole, NEW p, NEW n, Complete(slots, p, n)
    PROVE  Find(n) # {}
  <1> DEFINE M == {e \in Visible : e.name = n}
             S == {e.at : e \in M}
  <1>1. HoleFree(slots) /\ JunkBuf(Blank)  BY NoHoleIs DEF JunkBuf
  <1>2. S \in SUBSET Nat
    <2>1. ASSUME NEW e \in M PROVE e.at \in Nat
      <3>1. PICK q \in 1 .. Len(slots) : IsEntry(slots, q, e)
        BY <1>1, <2>1, VisibleIs DEF Visible
      <3>2. e.at = q  BY <3>1 DEF IsEntry
      <3> QED  BY <3>2
    <2> QED  BY <2>1
  <1>3. S # {}
    <2> DEFINE e == [at |-> p, run |-> RunAt(p, Len(n)), name |-> n]
    <2>1. e \in Visible  BY <1>1, CompleteFound DEF Visible
    <2>2. e.name = n  OBVIOUS
    <2> HIDE DEF e
    <2> QED  BY <2>1, <2>2
  <1>4. PICK k \in S : \A j \in S : k <= j
    <2> HIDE DEF S
    <2> QED  BY <1>2, <1>3, LeastOf
  <1>5. PICK e \in M : e.at = k  BY <1>4
  <1>6. \A f \in M : e.at <= f.at  BY <1>4, <1>5
  <1>7. e \in Find(n)  BY <1>5, <1>6 DEF Find, First
  <1> QED  BY <1>7

LEMMA WholeInit == Init => WholeInv
  <1> SUFFICES ASSUME Init PROVE WholeInv  OBVIOUS
  <1>1. LaidOut(slots) /\ slots \in Seq(SlotValues) /\ Len(slots) \in Nat
        /\ Len(Header) \in Nat
    BY StructureInit, HeaderAssumption DEF Structure, LaidOut, HeaderAssumption
  <1>2. \A i \in 1 .. Len(slots) : i > Len(Header) => slots[i] = Zero
    BY InitSlots
  <1>3. ASSUME NEW p, NEW n PROVE ~Complete(slots, p, n)
    <2>1. SUFFICES ASSUME Complete(slots, p, n) PROVE FALSE  OBVIOUS
    <2>2. p \in 1 .. Len(slots) /\ slots[p].kind = "short" /\ Chain(slots, p, n, Len(n))
      BY <2>1, CompleteIs
    <2>3. ~(p > Len(Header))  BY <1>2, <2>2, SlotFields
    <2>4. p \in 1 .. Len(Header)  BY <1>1, <2>2, <2>3
    <2> QED  BY <1>1, <2>2, <2>4, HeaderIs
  <1>4. \A i \in 1 .. Len(slots) : slots[i].kind # "lfn"
    <2> TAKE i \in 1 .. Len(slots)
    <2>1. CASE i > Len(Header)  BY <1>2, <2>1, SlotFields
    <2>2. CASE ~(i > Len(Header))
      <3>1. i \in 1 .. Len(Header)  BY <1>1, <2>2
      <3> QED  BY <1>1, <3>1, HeaderIs
    <2> QED  BY <2>1, <2>2
  <1>5. \A p \in 1 .. Len(slots) : p > Len(Header) => slots[p].kind # "short"
    BY <1>2, SlotFields
  <1>6. pc = "idle" /\ known = {}  BY DEF Init
  <1> QED  BY <1>3, <1>4, <1>5, <1>6 DEF WholeInv, KnownAlive, AllOwned, MarkingName,
                                        Alive

LEMMA WholeRefuse ==
    ASSUME WholeInv, NEW n, Refuse(n)
    PROVE  WholeInv'
  <1> SUFFICES ASSUME whole PROVE WholeInv'  BY DEF Refuse, WholeInv
  <1>1. /\ KnownAlive /\ AllOwned /\ pc = "idle" /\ pc' = "idle"
        /\ slots' = slots /\ known' = known
    BY DEF WholeInv, Refuse
  <1>2. KnownAlive'  BY <1>1, KnownSame
  <1>3. AllOwned'  BY <1>1 DEF AllOwned
  <1> QED  BY <1>1, <1>2, <1>3 DEF WholeInv, MarkingName

LEMMA WholeCreate ==
    ASSUME Structure, NoHole, WholeInv, NEW n \in Names, Create(n)
    PROVE  WholeInv'
  <1>1. CASE Refuse(n)  BY <1>1, WholeRefuse
  <1>2. CASE /\ pc = "idle" /\ Find(n) = {} /\ pc' = "put" /\ name' = n /\ seq' = Len(n)
             /\ (UNCHANGED slots \/ slots' = slots \o NewCluster)
             /\ UNCHANGED <<todo, ret, known, whole>>
    <2> SUFFICES ASSUME whole PROVE WholeInv'  BY <1>2 DEF WholeInv
    <2>1. KnownAlive /\ AllOwned /\ LaidOut(slots) /\ Len(slots) \in Nat
      BY DEF WholeInv, Structure, LaidOut
    <2>2. /\ \A p, m, c : Chain(slots', p, m, c) <=> Chain(slots, p, m, c)
          /\ \A j \in 1 .. Len(slots') :
               slots'[j].kind # "zero" => j \in 1 .. Len(slots) /\ slots'[j] = slots[j]
      <3>1. CASE UNCHANGED slots  BY <3>1
      <3>2. CASE slots' = slots \o NewCluster
        <4>1. /\ Len(slots') = Len(slots) + DirSlots
              /\ \A j \in 1 .. Len(slots) : slots'[j] = slots[j]
              /\ \A j \in 1 .. Len(slots') : j > Len(slots) => slots'[j] = Zero
              /\ \A p, m, c : Chain(slots', p, m, c) <=> Chain(slots, p, m, c)
          BY <2>1, <3>2, GrowKeeps
        <4>2. ASSUME NEW j \in 1 .. Len(slots'), slots'[j].kind # "zero"
              PROVE  j \in 1 .. Len(slots) /\ slots'[j] = slots[j]
          <5>1. ~(j > Len(slots))  BY <4>1, <4>2, SlotFields
          <5>2. j \in Nat /\ j >= 1  BY <4>2
          <5>3. j \in 1 .. Len(slots)  BY <2>1, <5>1, <5>2
          <5> QED  BY <4>1, <5>3
        <4> QED  BY <4>1, <4>2
      <3> QED  BY <1>2, <3>1, <3>2
    <2>3. /\ \A p, k : Complete(slots', p, k) <=> Complete(slots, p, k)
          /\ \A i : InEntry(slots', i) <=> InEntry(slots, i)
      BY <2>2, SameEntries
    <2>4. n \notin known
      <3>1. SUFFICES ASSUME n \in known PROVE FALSE  OBVIOUS
      <3>2. Alive(n)  BY <1>2, <2>1, <3>1 DEF KnownAlive
      <3> QED  BY <1>2, <2>1, <3>2, FoundIs DEF Alive
    <2>5. KnownAlive'  BY <1>2, <2>1, <2>3, <2>4, KnownSame
    <2>6. AllOwned'
      <3>1. ASSUME NEW p \in 1 .. Len(slots'), p > Len(Header),
                   slots'[p].kind = "short"
            PROVE  \E k \in Names : Complete(slots', p, k)
        BY <1>2, <2>1, <2>2, <2>3, <3>1 DEF AllOwned
      <3>2. ASSUME NEW i \in 1 .. Len(slots'), slots'[i].kind = "lfn"
            PROVE  InEntry(slots', i)
        BY <1>2, <2>1, <2>2, <2>3, <3>2 DEF AllOwned
      <3> QED  BY <3>1, <3>2 DEF AllOwned
    <2>7. pc' # "mark"  BY <1>2
    <2> QED  BY <2>5, <2>6, <2>7 DEF WholeInv, MarkingName
  <1> QED  BY <1>1, <1>2 DEF Create

LEMMA WholePutLfn ==
    ASSUME Structure, WholeInv, PutLfn
    PROVE  WholeInv'
  <1> SUFFICES ASSUME whole' PROVE WholeInv'  BY DEF WholeInv
  <1>1. /\ pc = "put" /\ seq > 0 /\ at < Len(slots) /\ at' = at + 1 /\ seq' = seq - 1
        /\ slots' = [slots EXCEPT ![at] = Lfn(name, seq)] /\ whole
        /\ UNCHANGED <<pc, name, known, todo>>
    BY DEF PutLfn
  <1>2. /\ KnownAlive /\ AllOwned /\ LaidOut(slots) /\ slots \in Seq(SlotValues)
        /\ at \in 1 .. Len(slots) /\ seq \in 1 .. Len(name) /\ Len(name) \in Nat
        /\ Len(slots) \in Nat /\ name \in Names
        /\ \A i \in 1 .. Len(slots) : at <= i /\ i <= at + seq => IsFree(slots[i])
    BY <1>1, NameIs DEF WholeInv, Structure, LaidOut, Putting
  <1>3. SetSlot(slots, slots', at, Lfn(name, seq))
    BY <1>1, <1>2, SetIs, SlotIn
  <1>4. IsFree(slots[at]) /\ IsFree(slots[at + 1])
    <2>1. at <= at /\ at <= at + seq /\ at + 1 \in 1 .. Len(slots)
          /\ at <= at + 1 /\ at + 1 <= at + seq
      BY <1>1, <1>2
    <2> QED  BY <1>2, <2>1
  <1>5. \A p, m, c : Chain(slots', p, m, c) <=> Chain(slots, p, m, c)
    <2>1. Lfn(name, seq).kind = "lfn"  BY SlotFields
    <2> QED  BY <1>2, <1>3, <1>4, <2>1, PutLfnKeeps
  <1>6. /\ \A p, k : Complete(slots', p, k) <=> Complete(slots, p, k)
        /\ \A i : InEntry(slots', i) <=> InEntry(slots, i)
    BY <1>5, SameEntries
  <1>7. KnownAlive'  BY <1>1, <1>2, <1>6, KnownSame DEF KnownAlive
  <1>8. Len(slots') = Len(slots)
        /\ \A j \in 1 .. Len(slots) :
             slots'[j] = IF j = at THEN Lfn(name, seq) ELSE slots[j]
    BY <1>3 DEF SetSlot
  <1>9. AllOwned'
    <2>1. ASSUME NEW p \in 1 .. Len(slots'), p > Len(Header),
                 slots'[p].kind = "short"
          PROVE  \E k \in Names : Complete(slots', p, k)
      <3>1. p # at /\ p \in 1 .. Len(slots)  BY <1>8, <2>1, SlotFields
      <3>2. slots[p].kind = "short"  BY <1>8, <2>1, <3>1
      <3> QED  BY <1>1, <1>2, <1>6, <2>1, <3>1, <3>2 DEF AllOwned
    <2>2. ASSUME NEW i \in 1 .. Len(slots'), slots'[i].kind = "lfn"
          PROVE  InEntry(slots', i) \/ (at' - (Len(name') - seq') <= i /\ i < at')
      <3>1. at' - (Len(name') - seq') = at - (Len(name) - seq)  BY <1>1, <1>2
      <3>2. CASE i = at  BY <1>1, <1>2, <3>1, <3>2
      <3>3. CASE i # at
        <4>1. i \in 1 .. Len(slots) /\ slots[i].kind = "lfn"  BY <1>8, <2>2, <3>3
        <4>2. InEntry(slots, i) \/ (at - (Len(name) - seq) <= i /\ i < at)
          BY <1>1, <1>2, <4>1 DEF AllOwned
        <4>3. i < at => i < at'  BY <1>1, <1>2, <4>1
        <4> QED  BY <1>6, <3>1, <4>2, <4>3
      <3> QED  BY <3>2, <3>3
    <2>3. pc' = "put"  BY <1>1
    <2> QED  BY <2>1, <2>2, <2>3 DEF AllOwned
  <1> QED  BY <1>1, <1>7, <1>9 DEF WholeInv, MarkingName


LEMMA WholePutShort ==
    ASSUME Structure, WholeInv, PutShort
    PROVE  WholeInv'
  <1> SUFFICES ASSUME whole PROVE WholeInv'  BY DEF WholeInv, PutShort
  <1>1. /\ pc = "put" /\ seq = 0 /\ pc' = "idle" /\ known' = known \cup {name}
        /\ KnownAlive /\ AllOwned
    BY DEF PutShort, Return, WholeInv
  <1>2. /\ LaidOut(slots) /\ at \in 1 .. Len(slots) /\ IsFree(slots[at])
        /\ name \in Names /\ Len(name) < at
        /\ \A k \in 1 .. Len(name) : slots[at - k] = Lfn(name, k)
        /\ SetSlot(slots, slots', at, Short(name))
    BY PutShortIs
  <1>3. /\ Complete(slots', at, name)
        /\ \A p, m, c : p # at => (Chain(slots', p, m, c) <=> Chain(slots, p, m, c))
        /\ \A m, c : ~Chain(slots, at, m, c)
    BY <1>2, PutShortKeeps
  <1>4. \A p, n : Complete(slots', p, n) <=>
                    Complete(slots, p, n) \/ (p = at /\ n = name)
    <2> TAKE p, n
    <2>1. CASE p = at
      <3>1. ~Complete(slots, p, n)  BY <1>3, <2>1 DEF Complete
      <3>2. Complete(slots', p, n) => n = name  BY <1>3, <2>1, OneName
      <3> QED  BY <1>3, <2>1, <3>1, <3>2
    <2>2. CASE p # at
      <3>1. Complete(slots', p, n) <=> Complete(slots, p, n)
        BY <1>3, <2>2, Zenon DEF Complete
      <3> QED  BY <2>2, <3>1
    <2> QED  BY <2>1, <2>2
  <1>5. Len(slots') = Len(slots) /\ Len(slots) \in Nat /\ Len(name) \in Nat
        /\ \A j \in 1 .. Len(slots) :
             slots'[j] = IF j = at THEN Short(name) ELSE slots[j]
    BY <1>2, NameIs DEF SetSlot, LaidOut
  <1>6. ~Alive(name) /\ name \notin known  BY <1>1, <1>2 DEF KnownAlive
  <1>7. KnownAlive'
    <2>1. ASSUME NEW n PROVE Alive(n)' <=> Alive(n) \/ n = name
      BY <1>2, <1>4, <1>5 DEF Alive
    <2>2. ASSUME NEW p \in 1 .. Len(slots), NEW q \in 1 .. Len(slots),
                 NEW n \in Names, Complete(slots', p, n), Complete(slots', q, n)
          PROVE  p = q
      <3>1. CASE n = name  BY <1>4, <1>6, <2>2, <3>1 DEF Alive
      <3>2. CASE n # name  BY <1>1, <1>4, <2>2, <3>2 DEF KnownAlive
      <3> QED  BY <3>1, <3>2
    <2>3. \A n \in Names : n \in known' <=> Alive(n)'
      BY <1>1, <2>1 DEF KnownAlive
    <2> QED  BY <1>1, <1>5, <2>2, <2>3 DEF KnownAlive
  <1>8. AllOwned'
    <2>1. ASSUME NEW p \in 1 .. Len(slots'), p > Len(Header),
                 slots'[p].kind = "short"
          PROVE  \E k \in Names : Complete(slots', p, k)
      <3>1. CASE p = at  BY <1>2, <1>3, <3>1
      <3>2. CASE p # at
        BY <1>1, <1>4, <1>5, <2>1, <3>2 DEF AllOwned
      <3> QED  BY <3>1, <3>2
    <2>2. ASSUME NEW i \in 1 .. Len(slots'), slots'[i].kind = "lfn"
          PROVE  InEntry(slots', i)
      <3>1. i # at  BY <1>2, <1>5, <2>2, SlotFields
      <3>2. i \in 1 .. Len(slots) /\ slots[i].kind = "lfn"  BY <1>5, <2>2, <3>1
      <3>3. InEntry(slots, i) \/ (at - (Len(name) - seq) <= i /\ i < at)
        BY <1>1, <3>2 DEF AllOwned
      <3>4. CASE InEntry(slots, i)  BY <1>4, <1>5, <3>4 DEF InEntry
      <3>5. CASE at - (Len(name) - seq) <= i /\ i < at
        <4>1. at - Len(name) <= i /\ i < at  BY <1>1, <1>2, <1>5, <3>5
        <4> QED  BY <1>2, <1>3, <1>5, <4>1 DEF InEntry
      <3> QED  BY <3>3, <3>4, <3>5
    <2> QED  BY <2>1, <2>2 DEF AllOwned
  <1> QED  BY <1>1, <1>7, <1>8 DEF WholeInv, MarkingName

LEMMA WholeDelete ==
    ASSUME Structure, WholeInv, NEW n \in Names, NEW junk \in Junk, Delete(n, junk)
    PROVE  WholeInv'
  <1>1. CASE Refuse(n)  BY <1>1, WholeRefuse
  <1>2. CASE /\ pc = "idle"
             /\ \E e \in First(Deletable(junk), n) : todo' = Append(e.run, e.at)
             /\ pc' = "mark" /\ name' = n
             /\ UNCHANGED <<slots, at, seq, ret, known, whole>>
    <2> SUFFICES ASSUME whole PROVE WholeInv'  BY <1>2 DEF WholeInv
    <2>1. KnownAlive /\ AllOwned /\ LaidOut(slots) /\ slots \in Seq(SlotValues)
      BY DEF WholeInv, Structure, LaidOut
    <2>2. PICK e \in First(Deletable(junk), n) : todo' = Append(e.run, e.at)
      BY <1>2
    <2>3. PICK p \in 1 .. Len(slots) : \E m \in Names : \E c \in 0 .. Len(m) :
             /\ Block(slots, p, m, c) /\ p > Len(Header) /\ e.at = p
             /\ Append(e.run, e.at) = RunAt(p + 1, c + 1)
             /\ e \in Walk(slots, FALSE, junk) /\ e.name = n
             /\ c = Len(m) => m = n
      BY <2>1, DeleteIs
    <2>4. PICK m \in Names : \E c \in 0 .. Len(m) :
             /\ Block(slots, p, m, c) /\ p > Len(Header)
             /\ Append(e.run, e.at) = RunAt(p + 1, c + 1)
             /\ c = Len(m) => m = n
      BY <2>3
    <2>5. PICK c \in 0 .. Len(m) :
             /\ Block(slots, p, m, c) /\ p > Len(Header)
             /\ Append(e.run, e.at) = RunAt(p + 1, c + 1)
             /\ c = Len(m) => m = n
      BY <2>4
    <2>6. Chain(slots, p, m, c)  BY <2>5 DEF Block
    <2>7. slots[p].kind = "short" /\ p \in Nat /\ c \in Nat /\ c < p
      BY <2>1, <2>6, ChainSlots
    <2>8. PICK k \in Names : Complete(slots, p, k)
      BY <1>2, <2>1, <2>5, <2>7 DEF AllOwned
    <2>9. c = Len(m) /\ m = n  BY <2>1, <2>5, <2>8, PartialIs
    <2>10. Complete(slots, p, n)  BY <2>6, <2>9 DEF Complete
    <2>11. todo' = RunAt(p + 1, c + 1) /\ slots' = slots /\ name' = n
      BY <1>2, <2>2, <2>5
    <2>12. Len(todo') = c + 1 /\ todo'[Len(todo')] = p
      <3>1. Len(todo') = c + 1  BY <2>7, <2>11, TodoIs
      <3>2. \A j \in 1 .. c + 1 : todo'[j] = p - c - 1 + j
        BY <2>7, <2>11, TodoIs
      <3>3. c + 1 \in 1 .. c + 1 /\ p - c - 1 + (c + 1) = p  BY <2>7
      <3> QED  BY <3>1, <3>2, <3>3
    <2>13. MarkingName'
      <3>1. Block(slots', p, name', c) /\ todo' = RunAt(p + 1, c + 1)
        BY <2>5, <2>9, <2>11
      <3>2. p \in 1 .. Len(slots') /\ c \in 0 .. Len(name')
        BY <2>9, <2>11
      <3>3. \A q \in 1 .. Len(slots') : Complete(slots', q, name') => q = p
        BY <2>1, <2>10, <2>11 DEF KnownAlive
      <3> QED  BY <2>12, <3>1, <3>2, <3>3 DEF MarkingName, MarkingOf
    <2>14. KnownAlive'
      <3>1. ASSUME NEW r PROVE Alive(r)' <=> Alive(r)  BY <2>11 DEF Alive
      <3> QED  BY <1>2, <2>1, <3>1 DEF KnownAlive
    <2>15. AllOwned'  BY <1>2, <2>1 DEF AllOwned
    <2> QED  BY <2>13, <2>14, <2>15 DEF WholeInv
  <1> QED  BY <1>1, <1>2 DEF Delete


(* One slot marked: only the entry being deleted is touched. *)
LEMMA MarkEntries ==
    ASSUME Structure, MarkDeleted, NEW p, NEW n, NEW c, MarkingOf(p, n, c)
    PROVE  /\ \A q, m : Complete(slots', q, m) <=> Complete(slots, q, m) /\ q # p
           /\ \A m : Complete(slots, p, m) => m = n /\ c = Len(n)
           /\ LaidOut(slots')
  <1>1. /\ Block(slots, p, n, c) /\ LaidOut(slots) /\ slots \in Seq(SlotValues)
        /\ SetSlot(slots, slots', p - c, Deleted)
    BY MarkIs DEF Structure, LaidOut
  <1>2. /\ LaidOut(slots') /\ \A m : ~Complete(slots', p, m)
        /\ \A q, m, d : q # p => (Chain(slots', q, m, d) <=> Chain(slots, q, m, d))
    BY <1>1, MarkKeeps
  <1>3. \A q, m : q # p => (Complete(slots', q, m) <=> Complete(slots, q, m))
    BY <1>2, Zenon DEF Complete
  <1>4. ASSUME NEW m, Complete(slots, p, m) PROVE m = n /\ c = Len(n)
    <2>1. c = Len(n)  BY <1>1, <1>4, PartialIs
    <2>2. Chain(slots, p, n, Len(n)) /\ n \in Names  BY <1>1, <2>1 DEF Block, Chain
    <2>3. Complete(slots, p, n)  BY <2>2 DEF Complete
    <2> QED  BY <1>4, <2>1, <2>3, OneName
  <1> QED  BY <1>2, <1>3, <1>4

LEMMA WholeMark ==
    ASSUME Structure, WholeInv, MarkDeleted
    PROVE  WholeInv'
  <1> SUFFICES ASSUME whole PROVE WholeInv'  BY DEF WholeInv, MarkDeleted
  <1>1. pc = "mark" /\ KnownAlive /\ AllOwned /\ MarkingName /\ name' = name
    BY DEF MarkDeleted, WholeInv
  <1>2. PICK p \in 1 .. Len(slots) : \E d \in 0 .. Len(name) : MarkingOf(p, name, d)
    BY <1>1 DEF MarkingName
  <1>3. PICK c \in 0 .. Len(name) : MarkingOf(p, name, c)  BY <1>2
  <1>4. /\ Block(slots, p, name, c) /\ name \in Names
        /\ c \in Nat /\ c < p /\ p - c \in 1 .. Len(slots) /\ c <= Len(name)
        /\ SetSlot(slots, slots', p - c, Deleted)
        /\ Len(todo) = c + 1 /\ todo[Len(todo)] = p
        /\ \A k \in 1 .. c + 1 : todo[k] = p - c - 1 + k
        /\ Len(todo) > 1 => Tail(todo) = RunAt(p + 1, c)
    BY <1>3, MarkIs
  <1>5. /\ \A q, m : Complete(slots', q, m) <=> Complete(slots, q, m) /\ q # p
        /\ \A m : Complete(slots, p, m) => m = name /\ c = Len(name)
    BY <1>3, MarkEntries
  <1>6. Len(slots') = Len(slots) /\ Len(slots) \in Nat /\ p \in Nat
        /\ Len(name) \in Nat /\ slots \in Seq(SlotValues)
        /\ \A j \in 1 .. Len(slots) :
             slots'[j] = IF j = p - c THEN Deleted ELSE slots[j]
    BY <1>4, NameIs DEF SetSlot, LaidOut, Structure
  <1>7. ASSUME NEW n \in Names, n # name PROVE Alive(n)' <=> Alive(n)
    BY <1>5, <1>6, <1>7 DEF Alive
  <1>8. \A q \in 1 .. Len(slots) : Complete(slots, q, name) => q = p
    BY <1>1, <1>4 DEF MarkingName
  <1>9. ~Alive(name)'  BY <1>1, <1>5, <1>6, <1>8 DEF Alive
  <1>10. KnownAlive'
    <2>1. \A n \in Names : n # name => (n \in known <=> Alive(n)')
      BY <1>1, <1>7 DEF KnownAlive
    <2>2. \A q, r \in 1 .. Len(slots') : \A n \in Names :
            Complete(slots', q, n) /\ Complete(slots', r, n) => q = r
      BY <1>1, <1>5, <1>6 DEF KnownAlive
    <2>3. CASE pc' = "mark" /\ known' = known
      BY <1>1, <2>1, <2>2, <2>3 DEF KnownAlive
    <2>4. CASE pc' = "idle" /\ known' = known \ {name}
      BY <1>1, <1>9, <2>1, <2>2, <2>4 DEF KnownAlive
    <2> QED  BY <1>1, <2>3, <2>4 DEF MarkDeleted, Return
  <1>11. ASSUME NEW q \in 1 .. Len(slots'), q > Len(Header), slots'[q].kind = "short",
                q # p
         PROVE  \E n \in Names : Complete(slots', q, n)
    <2>1. q # p - c /\ q \in 1 .. Len(slots) /\ slots[q].kind = "short"
      BY <1>6, <1>11, SlotFields
    <2> QED  BY <1>1, <1>4, <1>5, <1>11, <2>1 DEF AllOwned
  <1>12. ASSUME NEW i \in 1 .. Len(slots'), slots'[i].kind = "lfn",
                ~InEntry(slots', i)
         PROVE  p - c < i /\ i < p
    <2>1. i # p - c /\ i \in 1 .. Len(slots) /\ slots[i].kind = "lfn"
      BY <1>6, <1>12, SlotFields
    <2>2. CASE InEntry(slots, i)
      <3>1. PICK q \in 1 .. Len(slots), n \in Names :
              Complete(slots, q, n) /\ q - Len(n) <= i /\ i < q
        BY <2>2 DEF InEntry
      <3>2. q = p  BY <1>5, <1>6, <1>12, <3>1 DEF InEntry
      <3>3. c = Len(n)  BY <1>5, <3>1, <3>2
      <3>4. p - c <= i /\ i < p  BY <3>1, <3>2, <3>3
      <3>5. p \in Nat /\ c \in Nat /\ i \in Nat /\ i # p - c  BY <1>4, <1>6, <2>1
      <3> QED  BY <3>4, <3>5
    <2>3. CASE \E k \in 1 .. Len(todo) : todo[k] = i
      <3>1. PICK k \in 1 .. c + 1 : p - c - 1 + k = i  BY <1>4, <2>3
      <3>2. slots[p].kind = "short"
        <4>1. Chain(slots, p, name, c)  BY <1>4 DEF Block
        <4> QED  BY <1>6, <4>1, ChainSlots
      <3>3. i # p  BY <2>1, <3>2
      <3> QED  BY <1>4, <1>6, <2>1, <3>1, <3>3
    <2> QED  BY <1>1, <2>1, <2>2, <2>3 DEF AllOwned
  <1>13. CASE Len(todo) > 1 /\ todo' = Tail(todo) /\ UNCHANGED pc
    <2>1. c # 0 /\ c - 1 \in 0 .. Len(name) /\ c - 1 \in Nat /\ c - 1 < p
          /\ c - 1 + 1 = c
      <3>1. c + 1 > 1  BY <1>4, <1>13
      <3> QED  BY <1>4, <1>6, <3>1
    <2>2. todo' = RunAt(p + 1, c - 1 + 1)
      <3>1. todo' = RunAt(p + 1, c)  BY <1>4, <1>13
      <3> QED  BY <2>1, <3>1
    <2>3. PICK d \in Nat : d = c - 1 /\ d + 1 = c /\ d < p  BY <2>1
    <2>4. Len(todo') = d + 1 /\ \A k \in 1 .. d + 1 : todo'[k] = p - d - 1 + k
      <3>1. todo' = RunAt(p + 1, d + 1)  BY <2>2, <2>3
      <3>2. p \in Nat /\ d \in Nat /\ d < p  BY <1>6, <2>3
      <3>3. Len(todo') = d + 1  BY <3>1, <3>2, TodoIs
      <3>4. \A k \in 1 .. d + 1 : todo'[k] = p - d - 1 + k
        BY <3>1, <3>2, TodoAt
      <3> QED  BY <3>3, <3>4
    <2>5. Len(todo') = c /\ \A k \in 1 .. c : todo'[k] = p - c + k
      <3>1. \A k \in 1 .. c : p - d - 1 + k = p - c + k  BY <1>4, <1>6, <2>3
      <3> QED  BY <2>3, <2>4, <3>1
    <2>6. todo'[Len(todo')] = p
      <3>1. c \in 1 .. c /\ p - c + c = p  BY <1>4, <1>6, <2>1
      <3> QED  BY <2>5, <3>1
    <2>7. Block(slots', p, name, c - 1)  BY <1>4, <2>1, MarkKeeps DEF Structure
    <2>8. MarkingName'
      <3>1. \A q \in 1 .. Len(slots') : ~Complete(slots', q, name)
        BY <1>5, <1>6, <1>8
      <3>2. p \in 1 .. Len(slots') /\ c - 1 \in 0 .. Len(name')
            /\ Block(slots', p, name', c - 1)
        BY <1>1, <1>6, <2>1, <2>7
      <3> QED  BY <1>1, <2>2, <3>1, <3>2 DEF MarkingName, MarkingOf
    <2>9. AllOwned'
      <3>1. \A q \in 1 .. Len(slots') : q > Len(Header) /\ slots'[q].kind = "short" =>
              \/ \E n \in Names : Complete(slots', q, n)
              \/ q = todo'[Len(todo')]
        BY <1>11, <2>6
      <3>2. ASSUME NEW i \in 1 .. Len(slots'), slots'[i].kind = "lfn",
                   ~InEntry(slots', i)
            PROVE  \E k \in 1 .. Len(todo') : todo'[k] = i
        <4>1. p - c < i /\ i < p  BY <1>12, <3>2
        <4>2. i - (p - c) \in 1 .. c /\ p - c + (i - (p - c)) = i
          BY <1>4, <1>6, <4>1
        <4> QED  BY <2>5, <4>2
      <3>3. pc' = "mark"  BY <1>1, <1>13
      <3> QED  BY <3>1, <3>2, <3>3 DEF AllOwned
    <2> QED  BY <1>10, <2>8, <2>9 DEF WholeInv
  <1>14. CASE Len(todo) = 1 /\ Return(0)
    <2>1. c = 0 /\ p - c = p
      <3>1. c \in Nat /\ c + 1 = 1 /\ p \in Nat  BY <1>4, <1>6, <1>14
      <3> QED  BY <3>1
    <2>2. slots'[p] = Deleted  BY <1>4, <1>6, <2>1
    <2>3. \A q \in 1 .. Len(slots') : q > Len(Header) /\ slots'[q].kind = "short" =>
            \E n \in Names : Complete(slots', q, n)
      BY <1>11, <2>2, SlotFields
    <2>4. \A i \in 1 .. Len(slots') : slots'[i].kind = "lfn" => InEntry(slots', i)
      <3> TAKE i \in 1 .. Len(slots')
      <3>1. p - c < i /\ i < p => FALSE  BY <1>6, <2>1
      <3> QED  BY <1>12, <3>1
    <2>5. AllOwned'  BY <2>3, <2>4 DEF AllOwned
    <2>6. pc' = "idle"  BY <1>14 DEF Return
    <2> QED  BY <1>10, <2>5, <2>6 DEF WholeInv, MarkingName
  <1> QED  BY <1>13, <1>14 DEF MarkDeleted

LEMMA WholeStep == Structure /\ NoHole /\ WholeInv /\ [Next]_vars => WholeInv'
  <1> SUFFICES ASSUME Structure, NoHole, WholeInv, [Next]_vars PROVE WholeInv'
    OBVIOUS
  <1>1. CASE \E n \in Names : Create(n)  BY <1>1, WholeCreate
  <1>2. CASE \E n \in Names : \E junk \in Junk : Delete(n, junk)
    BY <1>2, WholeDelete
  <1>3. CASE PutLfn  BY <1>3, WholePutLfn
  <1>4. CASE PutShort  BY <1>4, WholePutShort
  <1>5. CASE MarkDeleted  BY <1>5, WholeMark
  <1>6. CASE Interrupt  BY <1>6 DEF WholeInv, Interrupt
  <1>7. CASE UNCHANGED vars
    <2>1. UNCHANGED <<slots, pc, name, at, seq, todo, known, whole>>
      BY <1>7 DEF vars
    <2>2. (KnownAlive' <=> KnownAlive) /\ (AllOwned' <=> AllOwned)
          /\ (MarkingName' <=> MarkingName)
      BY <2>1 DEF KnownAlive, AllOwned, MarkingName, MarkingOf, Alive
    <2> QED  BY <2>1, <2>2 DEF WholeInv
  <1> QED  BY <1>1, <1>2, <1>3, <1>4, <1>5, <1>6, <1>7 DEF Next

(* As long as no hole is made, whoever was created and not deleted has a
   complete entry, each once, and every other used slot belongs to the
   operation under way. *)
THEOREM WholeInvariant == Spec /\ []NoHole => []WholeInv
  <1>1. Init => WholeInv  BY WholeInit
  <1>2. Structure /\ NoHole /\ WholeInv /\ [Next]_vars => WholeInv'  BY WholeStep
  <1> QED  BY <1>1, <1>2, StructureInvariant, PTL DEF Spec


(***************************************************************************)
(* What the properties say                                                 *)
(***************************************************************************)
(* No hole is the only condition: a name that was created is found. *)
THEOREM CreatedFoundWithoutHoles == Spec /\ []NoHole => []CreatedIsFound
  <1>1. Structure /\ NoHole /\ WholeInv => CreatedIsFound
    <2> SUFFICES ASSUME Structure, NoHole, WholeInv, pc = "idle", whole,
                        NEW n \in known
                 PROVE  Find(n) # {}
      BY DEF CreatedIsFound
    <2>1. n \in Names /\ LaidOut(slots)  BY DEF Structure
    <2>2. Alive(n)  BY <2>1 DEF WholeInv, KnownAlive
    <2> QED  BY <2>1, <2>2, FoundIs DEF Alive
  <1> QED  BY <1>1, StructureInvariant, WholeInvariant, PTL

(* What delete_iter finds under a name that callers use is the complete
   entry of that name. *)
LEMMA DeletesOwn ==
    ASSUME Structure, WholeInv, whole, pc = "idle", NEW junk \in Junk,
           NEW n \in Names, NEW f \in Deletable(junk), f.name = n
    PROVE  Complete(slots, f.at, n)
  <1>1. LaidOut(slots) /\ slots \in Seq(SlotValues) /\ JunkBuf(junk) /\ AllOwned
        /\ Len(Header) \in Nat
    BY HeaderAssumption
       DEF Structure, LaidOut, JunkBuf, WholeInv, HeaderAssumption
  <1>2. PICK q \in 1 .. Len(slots) : slots[q].kind = "short" /\ DeletesAt(slots, q, f)
    BY <1>1, DeletableIs DEF Deletable
  <1>3. n \notin Dots  BY NameIs DEF Dots
  <1>4. q > Len(Header)  BY <1>1, <1>2, <1>3 DEF DeletesAt
  <1>5. PICK k \in Names : Complete(slots, q, k)  BY <1>1, <1>2, <1>4 DEF AllOwned
  <1>6. Chain(slots, q, k, Len(k)) /\ Len(k) \in 0 .. Len(k)
    BY <1>5, NameIs, CompleteIs
  <1>7. Block(slots, q, k, Len(k))  BY <1>6 DEF Block
  <1>8. f.at = q /\ f.name = k  BY <1>2, <1>6, <1>7 DEF DeletesAt
  <1> QED  BY <1>5, <1>8

(* Deleting reclaims every slot that creating took. *)
THEOREM NoOrphansWithoutHoles == Spec /\ []NoHole => []NoOrphanSlot
  <1>1. Structure /\ NoHole /\ WholeInv => NoOrphanSlot
    <2> SUFFICES ASSUME Structure, NoHole, WholeInv, pc = "idle", whole,
                        NEW i \in 1 .. Len(slots), slots[i].kind = "lfn"
                 PROVE  \E e \in Visible : \A junk \in Junk :
                          \E f \in First(Deletable(junk), e.name) :
                            f.at = e.at /\ i \in {f.run[k] : k \in DOMAIN f.run}
      BY DEF NoOrphanSlot
    <2>1. LaidOut(slots) /\ HoleFree(slots) /\ KnownAlive /\ AllOwned
          /\ slots \in Seq(SlotValues)
      BY NoHoleIs DEF Structure, LaidOut, WholeInv
    <2>2. InEntry(slots, i)  BY <2>1 DEF AllOwned
    <2>3. PICK p \in 1 .. Len(slots), n \in Names :
            Complete(slots, p, n) /\ p - Len(n) <= i /\ i < p
      BY <2>2 DEF InEntry
    <2> DEFINE e == [at |-> p, run |-> RunAt(p, Len(n)), name |-> n]
    <2>4. e \in Visible
      BY <2>1, <2>3, CompleteFound DEF Visible, JunkBuf
    <2>5. ASSUME NEW junk \in Junk PROVE e \in First(Deletable(junk), n)
      <3>1. e \in Deletable(junk)
        BY <2>1, <2>3, CompleteFound DEF Deletable, JunkBuf
      <3>2. ASSUME NEW f \in Deletable(junk), f.name = n PROVE f.at = p
        <4>1. Complete(slots, f.at, n)  BY <3>2, DeletesOwn
        <4> QED  BY <2>1, <2>3, <4>1, CompleteIs DEF KnownAlive
      <3>3. e.name = n /\ e.at = p /\ p <= p  OBVIOUS
      <3> HIDE DEF e
      <3> QED  BY <3>1, <3>2, <3>3 DEF First
    <2>6. i \in {e.run[k] : k \in DOMAIN e.run}
      <3>1. e.run = RunAt(p, Len(n))  OBVIOUS
      <3>2. i - (p - Len(n)) + 1 \in 1 .. Len(n)
            /\ p - Len(n) - 1 + (i - (p - Len(n)) + 1) = i
        BY <2>3, NameIs
      <3>3. DOMAIN e.run = 1 .. Len(n)  BY <3>1 DEF RunAt
      <3>4. e.run[i - (p - Len(n)) + 1] = i  BY <3>1, <3>2 DEF RunAt
      <3> HIDE DEF e
      <3> QED  BY <3>2, <3>3, <3>4
    <2>7. e.name = n  OBVIOUS
    <2> HIDE DEF e
    <2> QED  BY <2>4, <2>5, <2>6, <2>7
  <1> QED  BY <1>1, StructureInvariant, WholeInvariant, PTL

(* fat32_list shows every known name once, and nothing else. *)
THEOREM ListsKnownWithoutHoles == Spec /\ []NoHole => []ListsKnown
  <1>1. Structure /\ NoHole /\ WholeInv => ListsKnown
    <2> DEFINE E == {e \in Visible : e.name \notin Dots}
    <2> SUFFICES ASSUME Structure, NoHole, WholeInv, pc = "idle", whole
                 PROVE  {e.name : e \in E} = known /\ Cardinality(E) = Cardinality(known)
      BY DEF ListsKnown
    <2>1. /\ LaidOut(slots) /\ HoleFree(slots) /\ KnownAlive /\ AllOwned
          /\ known \in SUBSET Names /\ Len(Header) \in Nat
      BY NoHoleIs, HeaderAssumption
         DEF Structure, WholeInv, HeaderAssumption
    <2>2. ASSUME NEW e \in E
          PROVE  e.name \in known /\ Complete(slots, e.at, e.name)
                 /\ e = [at |-> e.at, run |-> RunAt(e.at, Len(e.name)), name |-> e.name]
      <3>1. PICK p \in 1 .. Len(slots) : slots[p].kind = "short" /\ IsEntry(slots, p, e)
        BY <2>1, VisibleIs DEF Visible
      <3>2. p > Len(Header)
        <4>1. SUFFICES ASSUME ~(p > Len(Header)) PROVE FALSE  OBVIOUS
        <4>2. p \in 1 .. Len(Header)  BY <2>1, <4>1
        <4>3. slots[p].name \in Dots /\ \A n : ~Complete(slots, p, n)
          BY <2>1, <3>1, <4>2, HeaderIs DEF Complete
        <4>4. e.name = slots[p].name  BY <3>1, <4>3 DEF IsEntry
        <4> QED  BY <4>3, <4>4
      <3>3. PICK k \in Names : Complete(slots, p, k)  BY <2>1, <3>1, <3>2 DEF AllOwned
      <3>4. e = [at |-> p, run |-> RunAt(p, Len(k)), name |-> k]
        BY <3>1, <3>3, OneName DEF IsEntry
      <3>5. e.at = p /\ e.name = k  BY <3>4
      <3>6. k \in known  BY <2>1, <3>3 DEF KnownAlive, Alive
      <3> QED  BY <3>3, <3>4, <3>5, <3>6
    <2>3. ASSUME NEW n \in known PROVE \E e \in E : e.name = n
      <3>1. n \in Names /\ n \notin Dots  BY <2>1, NameIs DEF Dots
      <3>2. PICK p \in 1 .. Len(slots) : Complete(slots, p, n)
        BY <2>1, <3>1 DEF KnownAlive, Alive
      <3> DEFINE e == [at |-> p, run |-> RunAt(p, Len(n)), name |-> n]
      <3>3. e \in Visible  BY <2>1, <3>2, CompleteFound DEF Visible, JunkBuf
      <3>4. e.name = n  OBVIOUS
      <3> HIDE DEF e
      <3> QED  BY <3>1, <3>3, <3>4
    <2>4. ASSUME NEW e \in E, NEW f \in E, e.name = f.name PROVE e = f
      <3>1. e.at = f.at
        BY <2>1, <2>2, <2>4, CompleteIs DEF KnownAlive
      <3>2. e = [at |-> e.at, run |-> RunAt(e.at, Len(e.name)), name |-> e.name]
        BY <2>2
      <3>3. f = [at |-> f.at, run |-> RunAt(f.at, Len(f.name)), name |-> f.name]
        BY <2>2
      <3> QED  BY <2>4, <3>1, <3>2, <3>3
    <2>5. {e.name : e \in E} = known
      <3> HIDE DEF E
      <3> QED  BY <2>2, <2>3
    <2>6. Cardinality(E) = Cardinality(known)
      <3> HIDE DEF E
      <3> DEFINE g == [n \in known |-> CHOOSE e \in E : e.name = n]
      <3>1. \A n \in known : g[n] \in E /\ g[n].name = n  BY <2>3
      <3>2. g \in [known -> E]  BY <3>1
      <3> HIDE DEF g
      <3>3. \A n, m \in known : g[n] = g[m] => n = m  BY <3>1
      <3>4. \A e \in E : \E n \in known : g[n] = e  BY <2>2, <2>4, <3>1
      <3>5. g \in Bijection(known, E)
        BY <3>2, <3>3, <3>4, Zenon
           DEF Bijection, Injection, Surjection, IsInjective
      <3>6. IsFiniteSet(known)
        BY <2>1, DirectoryAssumption, FS_Subset DEF DirectoryAssumption
      <3>7. ExistsBijection(known, E)  BY <3>5 DEF ExistsBijection
      <3> QED  BY <3>6, <3>7, FS_Bijection
    <2> QED  BY <2>5, <2>6
  <1> QED  BY <1>1, StructureInvariant, WholeInvariant, PTL


(***************************************************************************)
(* What one step does to the entries                                       *)
(***************************************************************************)
(* dir_iter shows e at 8.3 slot p. *)
Listed(sl, p, e) == IsShort(sl, p) /\ IsEntry(sl, p, e)

LEMMA VisibleListed ==
    ASSUME Structure, NoHole, NEW e
    PROVE  e \in Visible <=> \E p : Listed(slots, p, e)
  <1>1. LaidOut(slots) /\ HoleFree(slots)  BY NoHoleIs DEF Structure
  <1>2. e \in Visible <=>
          \E p \in 1 .. Len(slots) : slots[p].kind = "short" /\ IsEntry(slots, p, e)
    BY <1>1, VisibleIs DEF Visible
  <1> QED  BY <1>2 DEF Listed, IsShort

LEMMA VisibleListedNext ==
    ASSUME Structure', NoHole', NEW e
    PROVE  e \in Visible' <=> \E p : Listed(slots', p, e)
  <1>1. LaidOut(slots') /\ HoleFree(slots')  BY DEF Structure, NoHole, HoleFree
  <1>2. e \in Visible' <=>
          \E p \in 1 .. Len(slots') :
            slots'[p].kind = "short" /\ IsEntry(slots', p, e)
    BY <1>1, VisibleIs DEF Visible
  <1> QED  BY <1>2 DEF Listed, IsShort

(* What is listed at a slot depends on the chains there. *)
LEMMA ListedSame ==
    ASSUME NEW sl, NEW tl, NEW p,
           IsShort(tl, p) <=> IsShort(sl, p), IsShort(sl, p) => tl[p] = sl[p],
           \A n : Complete(tl, p, n) <=> Complete(sl, p, n)
    PROVE  \A e : Listed(tl, p, e) <=> Listed(sl, p, e)
  <1> TAKE e
  <1>1. IsShort(sl, p) => (IsEntry(tl, p, e) <=> IsEntry(sl, p, e))  BY DEF IsEntry
  <1> QED  BY <1>1 DEF Listed

(* A new cluster and an LFN slot are not seen. *)
Unseen == \A p, e : Listed(slots', p, e) <=> Listed(slots, p, e)

LEMMA CreateUnseen ==
    ASSUME Structure, NEW n \in Names, Create(n)
    PROVE  Unseen
  <1>1. CASE UNCHANGED slots  BY <1>1 DEF Unseen
  <1>2. CASE slots' = slots \o NewCluster
    <2>1. LaidOut(slots) /\ Len(slots) \in Nat  BY DEF Structure, LaidOut
    <2>0. DirSlots \in Nat  BY DirectoryAssumption DEF DirectoryAssumption
    <2>2. /\ Len(slots') = Len(slots) + DirSlots
          /\ \A j \in 1 .. Len(slots) : slots'[j] = slots[j]
          /\ \A j \in 1 .. Len(slots') : j > Len(slots) => slots'[j] = Zero
          /\ \A p, m, c : Chain(slots', p, m, c) <=> Chain(slots, p, m, c)
      BY <1>2, <2>1, GrowKeeps
    <2>3. \A p, k : Complete(slots', p, k) <=> Complete(slots, p, k)
      BY <2>2, SameEntries
    <2>4. ASSUME NEW p
          PROVE  /\ IsShort(slots', p) <=> IsShort(slots, p)
                 /\ IsShort(slots, p) => slots'[p] = slots[p]
      <3>1. ASSUME IsShort(slots', p) PROVE p \in 1 .. Len(slots)
        <4>1. p \in 1 .. Len(slots') /\ slots'[p].kind = "short"
          BY <3>1 DEF IsShort
        <4>2. ~(p > Len(slots))  BY <2>2, <4>1, SlotFields
        <4>3. p \in Nat /\ p >= 1  BY <4>1
        <4> QED  BY <2>1, <4>2, <4>3
      <3>2. p \in 1 .. Len(slots) => p \in 1 .. Len(slots')
        BY <2>0, <2>1, <2>2
      <3> QED  BY <2>2, <3>1, <3>2 DEF IsShort
    <2> QED  BY <2>3, <2>4, ListedSame DEF Unseen
  <1> QED  BY <1>1, <1>2 DEF Create, Refuse

LEMMA PutLfnUnseen ==
    ASSUME Structure, PutLfn
    PROVE  Unseen
  <1>1. /\ LaidOut(slots) /\ slots \in Seq(SlotValues) /\ name \in Names
        /\ at \in 1 .. Len(slots) /\ seq \in 1 .. Len(name) /\ Len(name) \in Nat
        /\ Len(slots) \in Nat /\ slots' = [slots EXCEPT ![at] = Lfn(name, seq)]
        /\ \A i \in 1 .. Len(slots) : at <= i /\ i <= at + seq => IsFree(slots[i])
    BY NameIs DEF Structure, LaidOut, Putting, PutLfn
  <1>2. SetSlot(slots, slots', at, Lfn(name, seq))  BY <1>1, SetIs, SlotIn
  <1>3. IsFree(slots[at]) /\ (at = Len(slots) \/ IsFree(slots[at + 1]))
    <2>1. at <= at /\ at <= at + seq  BY <1>1
    <2>2. at # Len(slots) => at + 1 \in 1 .. Len(slots) /\ at <= at + 1
                             /\ at + 1 <= at + seq
      BY <1>1
    <2> QED  BY <1>1, <2>1, <2>2
  <1>4. \A p, m, c : Chain(slots', p, m, c) <=> Chain(slots, p, m, c)
    <2>1. Lfn(name, seq).kind = "lfn"  BY SlotFields
    <2> QED  BY <1>1, <1>2, <1>3, <2>1, PutLfnKeeps
  <1>5. \A p, k : Complete(slots', p, k) <=> Complete(slots, p, k)
    BY <1>4, SameEntries
  <1>6. ASSUME NEW p
        PROVE  /\ IsShort(slots', p) <=> IsShort(slots, p)
               /\ IsShort(slots, p) => slots'[p] = slots[p]
    BY <1>2, <1>3, SlotFields DEF IsShort, SetSlot, IsFree
  <1> QED  BY <1>5, <1>6, ListedSame DEF Unseen

(* dir_write_entry, the 8.3 slot: one entry more. *)
LEMMA PutShortSeen ==
    ASSUME Structure, PutShort
    PROVE  /\ \A p, e : p # at => (Listed(slots', p, e) <=> Listed(slots, p, e))
           /\ \A e : ~Listed(slots, at, e)
           /\ \A e : Listed(slots', at, e) <=>
                e = [at |-> at, run |-> RunAt(at, Len(name)), name |-> name]
           /\ name \in Names /\ at \in 1 .. Len(slots)
  <1>1. /\ LaidOut(slots) /\ at \in 1 .. Len(slots) /\ IsFree(slots[at])
        /\ name \in Names /\ Len(name) < at
        /\ \A k \in 1 .. Len(name) : slots[at - k] = Lfn(name, k)
        /\ SetSlot(slots, slots', at, Short(name))
    BY PutShortIs
  <1>2. /\ Complete(slots', at, name)
        /\ \A p, m, c : p # at => (Chain(slots', p, m, c) <=> Chain(slots, p, m, c))
    BY <1>1, PutShortKeeps
  <1>3. ASSUME NEW p, p # at
        PROVE  \A e : Listed(slots', p, e) <=> Listed(slots, p, e)
    <2>1. /\ IsShort(slots', p) <=> IsShort(slots, p)
          /\ IsShort(slots, p) => slots'[p] = slots[p]
      BY <1>1, <1>3 DEF IsShort, SetSlot
    <2>2. \A n : Complete(slots', p, n) <=> Complete(slots, p, n)
      BY <1>2, <1>3, Zenon DEF Complete
    <2> QED  BY <2>1, <2>2, ListedSame
  <1>4. ~IsShort(slots, at)  BY <1>1 DEF IsShort, IsFree
  <1>5. IsShort(slots', at)
    BY <1>1, <1>2, CompleteIs DEF IsShort
  <1>6. \A n : Complete(slots', at, n) => n = name  BY <1>2, OneName
  <1>7. ASSUME NEW e
        PROVE  Listed(slots', at, e) <=>
                 e = [at |-> at, run |-> RunAt(at, Len(name)), name |-> name]
    BY <1>1, <1>2, <1>5, <1>6 DEF Listed, IsEntry
  <1> QED  BY <1>1, <1>3, <1>4, <1>7 DEF Listed

(* fat32_delete: the entry falls to its alias, then it is gone. *)
LEMMA MarkSeen ==
    ASSUME Structure, MarkDeleted, NEW p, NEW n, NEW c, MarkingOf(p, n, c)
    PROVE  /\ \A q, e : q # p => (Listed(slots', q, e) <=> Listed(slots, q, e))
           /\ c = Len(n) => \A e : Listed(slots, p, e) <=>
                e = [at |-> p, run |-> RunAt(p, Len(n)), name |-> n]
           /\ c # Len(n) => \A e : Listed(slots, p, e) <=>
                e = [at |-> p, run |-> <<>>, name |-> Alias[n]]
           /\ \A e : Listed(slots', p, e) <=>
                c # 0 /\ e = [at |-> p, run |-> <<>>, name |-> Alias[n]]
           /\ n \in Names /\ c \in Nat /\ p \in 1 .. Len(slots)
  <1>1. /\ Block(slots, p, n, c) /\ p \in 1 .. Len(slots) /\ n \in Names
        /\ c \in Nat /\ c < p /\ p - c \in 1 .. Len(slots)
        /\ SetSlot(slots, slots', p - c, Deleted)
        /\ slots \in Seq(SlotValues) /\ Chain(slots, p, n, c)
    BY MarkIs DEF Structure, LaidOut, Block
  <1>2. /\ \A q, m : Complete(slots', q, m) <=> Complete(slots, q, m) /\ q # p
        /\ \A m : Complete(slots, p, m) => m = n /\ c = Len(n)
    BY MarkEntries
  <1>3. slots[p].kind = "short" /\ slots[p].name = Alias[n]
        /\ (c # 0 => slots[p - c].kind = "lfn")
    <2>1. slots[p].kind = "short" /\ slots[p].name = Alias[n]
          /\ \A j \in 1 .. Len(slots) : p - c <= j /\ j < p => slots[j].kind = "lfn"
      BY <1>1, ChainSlots
    <2>2. c # 0 => p - c <= p - c /\ p - c < p  BY <1>1
    <2> QED  BY <1>1, <2>1, <2>2
  <1>4. ASSUME NEW q, q # p
        PROVE  \A e : Listed(slots', q, e) <=> Listed(slots, q, e)
    <2>1. ~IsShort(slots, p - c) \/ p - c # q
      <3>1. CASE c = 0
        <4>1. p - c = p  BY <1>1, <3>1
        <4> QED  BY <1>4, <4>1
      <3>2. CASE c # 0  BY <1>3, <3>2 DEF IsShort
      <3> QED  BY <3>1, <3>2
    <2>2. ~IsShort(slots', p - c)
      BY <1>1, SlotFields DEF IsShort, SetSlot
    <2>3. /\ IsShort(slots', q) <=> IsShort(slots, q)
          /\ IsShort(slots, q) => slots'[q] = slots[q]
      <3>1. CASE q = p - c  BY <2>1, <2>2, <3>1
      <3>2. CASE q # p - c  BY <1>1, <3>2 DEF IsShort, SetSlot
      <3> QED  BY <3>1, <3>2
    <2>4. \A m : Complete(slots', q, m) <=> Complete(slots, q, m)
      BY <1>2, <1>4
    <2> QED  BY <2>3, <2>4, ListedSame
  <1>5. IsShort(slots, p)  BY <1>1, <1>3 DEF IsShort
  <1>6. c = Len(n) => Complete(slots, p, n)  BY <1>1 DEF Complete
  <1>7. ASSUME NEW e, c = Len(n)
        PROVE  Listed(slots, p, e) <=>
                 e = [at |-> p, run |-> RunAt(p, Len(n)), name |-> n]
    BY <1>1, <1>2, <1>5, <1>6, <1>7 DEF Listed, IsEntry
  <1>8. ASSUME NEW e, c # Len(n)
        PROVE  Listed(slots, p, e) <=>
                 e = [at |-> p, run |-> <<>>, name |-> Alias[n]]
    BY <1>2, <1>3, <1>5, <1>8 DEF Listed, IsEntry
  <1>9. ASSUME NEW e
        PROVE  Listed(slots', p, e) <=>
                 c # 0 /\ e = [at |-> p, run |-> <<>>, name |-> Alias[n]]
    <2>1. \A m : ~Complete(slots', p, m)  BY <1>2
    <2>2. CASE c = 0
      <3>1. p - c = p  BY <1>1, <2>2
      <3>2. ~IsShort(slots', p)  BY <1>1, <3>1, SlotFields DEF IsShort, SetSlot
      <3> QED  BY <2>2, <3>2 DEF Listed
    <2>3. CASE c # 0
      <3>1. p - c # p  BY <1>1, <2>3
      <3>2. slots'[p] = slots[p] /\ IsShort(slots', p)
        BY <1>1, <1>3, <3>1 DEF IsShort, SetSlot
      <3> QED  BY <1>3, <2>1, <2>3, <3>2 DEF Listed, IsEntry
    <2> QED  BY <2>2, <2>3
  <1> QED  BY <1>1, <1>4, <1>7, <1>8, <1>9

LEMMA FindSame ==
    ASSUME NEW m, \A e : e.name = m => (e \in Visible' <=> e \in Visible)
    PROVE  Find(m)' = Find(m)
  <1>1. {e \in Visible' : e.name = m} = {e \in Visible : e.name = m}  OBVIOUS
  <1> QED  BY <1>1 DEF Find, First

(* The other names are found where they were, at every point of a creation
   or a deletion. *)
THEOREM OthersKeptWithoutHoles == Spec /\ []NoHole => OthersFound
  <1>1. Structure /\ Structure' /\ NoHole /\ NoHole' /\ WholeInv /\ [Next]_vars
          => [whole => \A m \in Names \ {name', Alias[name']} :
                         Find(m)' = Find(m)]_slots
    <2> SUFFICES ASSUME Structure, Structure', NoHole, NoHole', WholeInv, [Next]_vars,
                        whole, slots' # slots, NEW m \in Names \ {name', Alias[name']}
                 PROVE  Find(m)' = Find(m)
      OBVIOUS
    <2>1. ASSUME Unseen PROVE Find(m)' = Find(m)
      <3>1. \A e : e \in Visible' <=> e \in Visible
        BY <2>1, VisibleListed, VisibleListedNext DEF Unseen
      <3> QED  BY <3>1, FindSame
    <2>2. CASE \E n \in Names : Create(n)  BY <2>1, <2>2, CreateUnseen
    <2>3. CASE PutLfn  BY <2>1, <2>3, PutLfnUnseen
    <2>4. CASE PutShort
      <3>1. name' = name  BY <2>4 DEF PutShort
      <3>2. ASSUME NEW e, e.name = m PROVE e \in Visible' <=> e \in Visible
        <4>1. \A p, f : p # at => (Listed(slots', p, f) <=> Listed(slots, p, f))
          BY <2>4, PutShortSeen
        <4>2. ~Listed(slots, at, e)  BY <2>4, PutShortSeen
        <4>3. ~Listed(slots', at, e)
          <5>1. Listed(slots', at, e) =>
                  e = [at |-> at, run |-> RunAt(at, Len(name)), name |-> name]
            BY <2>4, PutShortSeen
          <5> QED  BY <3>1, <3>2, <5>1
        <4> QED  BY <4>1, <4>2, <4>3, VisibleListed, VisibleListedNext
      <3> QED  BY <3>2, FindSame
    <2>5. CASE MarkDeleted
      <3>1. pc = "mark" /\ name' = name  BY <2>5 DEF MarkDeleted
      <3>2. PICK p \in 1 .. Len(slots) : \E d \in 0 .. Len(name) : MarkingOf(p, name, d)
        BY <3>1 DEF WholeInv, MarkingName
      <3>3. PICK c \in 0 .. Len(name) : MarkingOf(p, name, c)  BY <3>2
      <3>4. ASSUME NEW e, e.name = m PROVE e \in Visible' <=> e \in Visible
        <4>1. \A q, f : q # p => (Listed(slots', q, f) <=> Listed(slots, q, f))
          BY <2>5, <3>3, MarkSeen
        <4>2. m # name /\ m # Alias[name]  BY <3>1
        <4>3. ~Listed(slots, p, e)
          <5>1. CASE c = Len(name)
            <6>1. Listed(slots, p, e) =>
                    e = [at |-> p, run |-> RunAt(p, Len(name)), name |-> name]
              BY <2>5, <3>3, <5>1, MarkSeen
            <6> QED  BY <3>4, <4>2, <6>1
          <5>2. CASE c # Len(name)
            <6>1. Listed(slots, p, e) =>
                    e = [at |-> p, run |-> <<>>, name |-> Alias[name]]
              BY <2>5, <3>3, <5>2, MarkSeen
            <6> QED  BY <3>4, <4>2, <6>1
          <5> QED  BY <5>1, <5>2
        <4>4. ~Listed(slots', p, e)
          <5>1. Listed(slots', p, e) =>
                  e = [at |-> p, run |-> <<>>, name |-> Alias[name]]
            BY <2>5, <3>3, MarkSeen
          <5> QED  BY <3>4, <4>2, <5>1
        <4> QED  BY <4>1, <4>3, <4>4, VisibleListed, VisibleListedNext
      <3> QED  BY <3>4, FindSame
    <2>6. CASE \E n \in Names : \E junk \in Junk : Delete(n, junk)
      BY <2>6 DEF Delete, Refuse
    <2>7. CASE Interrupt  BY <2>7 DEF Interrupt
    <2>8. CASE UNCHANGED vars  BY <2>8 DEF vars
    <2> QED  BY <2>2, <2>3, <2>4, <2>5, <2>6, <2>7, <2>8 DEF Next
  <1> QED  BY <1>1, StructureInvariant, WholeInvariant, PTL DEF Spec, OthersFound


(***************************************************************************)
(* The set of entries of module NameSpace                                  *)
(***************************************************************************)
(* Seen as an entry: its place and its name. *)
Seen(e) == [at |-> e.at, name |-> e.name]

LEMMA PlacesGrow ==
    ASSUME Structure
    PROVE  Len(slots) <= DirSlots * MaxClusters
  <1>1. PICK c \in 1 .. MaxClusters : Len(slots) = DirSlots * c  BY DEF Structure
  <1>2. DirSlots \in Nat /\ MaxClusters \in Nat /\ c \in Nat /\ c <= MaxClusters
    BY DirectoryAssumption DEF DirectoryAssumption
  <1>3. DirSlots * c <= DirSlots * MaxClusters
    <2>1. MaxClusters - c \in Nat  BY <1>2
    <2>2. DirSlots * (MaxClusters - c) >= 0  BY <1>2, <2>1
    <2>3. DirSlots * (MaxClusters - c) = DirSlots * MaxClusters - DirSlots * c
      BY <1>2
    <2> QED  BY <1>2, <2>2, <2>3
  <1> QED  BY <1>1, <1>3

(* What Entries holds, before and after a step. *)
LEMMA EntriesAre ==
    ASSUME Structure, NoHole, NEW x
    PROVE  x \in Entries <=> \E p, e : Listed(slots, p, e) /\ e.name \notin Dots
                                       /\ x = Seen(e)
  <1>1. \A e : e \in Visible <=> \E p : Listed(slots, p, e)  BY VisibleListed
  <1> QED  BY <1>1 DEF Entries, Seen

LEMMA EntriesAreNext ==
    ASSUME Structure', NoHole', NEW x
    PROVE  x \in Entries' <=> \E p, e : Listed(slots', p, e) /\ e.name \notin Dots
                                        /\ x = Seen(e)
  <1>1. \A e : e \in Visible' <=> \E p : Listed(slots', p, e)  BY VisibleListedNext
  <1> QED  BY <1>1 DEF Entries, Seen

LEMMA ListedAt ==
    ASSUME NEW sl, NEW p, NEW e, Listed(sl, p, e)
    PROVE  e.at = p /\ Seen(e).at = p
  BY DEF Listed, IsEntry, Seen

LEMMA SameWhenUnseen ==
    ASSUME Structure, Structure', NoHole, NoHole', Unseen
    PROVE  Entries' = Entries
  <1>1. \A x : x \in Entries' <=> x \in Entries
    BY EntriesAre, EntriesAreNext DEF Unseen
  <1> QED  BY <1>1

(* The 8.3 slot enters the name. *)
LEMMA PutShortEnters ==
    ASSUME Structure, Structure', NoHole, NoHole', PutShort
    PROVE  \E x \in Entries' \ Entries : Promise!Enter(x)
  <1> DEFINE e == [at |-> at, run |-> RunAt(at, Len(name)), name |-> name]
             x == [at |-> at, name |-> name]
  <1>1. /\ \A p, f : p # at => (Listed(slots', p, f) <=> Listed(slots, p, f))
        /\ \A f : ~Listed(slots, at, f)
        /\ \A f : Listed(slots', at, f) <=> f = e
        /\ name \in Names /\ at \in 1 .. Len(slots)
    BY PutShortSeen
  <1>2. Seen(e) = x /\ e.name = name /\ x.at = at /\ name \notin Dots
    BY <1>1, NameIs DEF Seen, Dots
  <1>3. x \in [at : 1 .. DirSlots * MaxClusters, name : Names]
    <2>1. Len(slots) \in Nat /\ DirSlots * MaxClusters \in Nat
          /\ Len(slots) <= DirSlots * MaxClusters
      BY PlacesGrow, DirectoryAssumption DEF DirectoryAssumption, Structure, LaidOut
    <2> QED  BY <1>1, <2>1
  <1> HIDE DEF e, x
  <1>4. \A f \in Entries : f.at # x.at
    <2> TAKE f \in Entries
    <2>1. PICK p, g : Listed(slots, p, g) /\ f = Seen(g)  BY EntriesAre
    <2>2. f.at = p  BY <2>1, ListedAt
    <2> QED  BY <1>1, <1>2, <2>1, <2>2
  <1>5. \A y : y \in Entries' <=> y \in Entries \/ y = x
    <2> TAKE y
    <2>1. ASSUME y \in Entries' PROVE y \in Entries \/ y = x
      <3>1. PICK p, g : Listed(slots', p, g) /\ g.name \notin Dots /\ y = Seen(g)
        BY <2>1, EntriesAreNext
      <3>2. CASE p = at  BY <1>1, <1>2, <3>1, <3>2
      <3>3. CASE p # at  BY <1>1, <3>1, <3>3, EntriesAre
      <3> QED  BY <3>2, <3>3
    <2>2. ASSUME y \in Entries PROVE y \in Entries'
      <3>1. PICK p, g : Listed(slots, p, g) /\ g.name \notin Dots /\ y = Seen(g)
        BY <2>2, EntriesAre
      <3>2. p # at  BY <1>1, <3>1
      <3> QED  BY <1>1, <3>1, <3>2, EntriesAreNext
    <2>3. x \in Entries'  BY <1>1, <1>2, EntriesAreNext
    <2> QED  BY <2>1, <2>2, <2>3
  <1>6. Entries' = Entries \cup {x}  BY <1>5
  <1>7. x \in Entries' \ Entries  BY <1>4, <1>5
  <1>8. Promise!Enter(x)  BY <1>3, <1>4, <1>6 DEF Promise!Enter
  <1> QED  BY <1>7, <1>8

(* Marking the first slot of a complete entry leaves its alias; marking the
   8.3 slot takes it away. *)
LEMMA MarkDegrades ==
    ASSUME Structure, Structure', NoHole, NoHole', MarkDeleted
    PROVE  \/ Entries' = Entries
           \/ \E x \in Entries : Promise!Degrade(x) \/ Promise!Remove(x)
  <1>1. PICK p \in 1 .. Len(slots) : \E n \in Names : \E c \in 0 .. Len(n) :
          MarkingOf(p, n, c)
    BY DEF Structure, MarkDeleted, Marking
  <1>2. PICK n \in Names : \E c \in 0 .. Len(n) : MarkingOf(p, n, c)  BY <1>1
  <1>3. PICK c \in 0 .. Len(n) : MarkingOf(p, n, c)  BY <1>2
  <1> DEFINE Long  == [at |-> p, run |-> RunAt(p, Len(n)), name |-> n]
             Alone == [at |-> p, run |-> <<>>, name |-> Alias[n]]
             l == [at |-> p, name |-> n]
             a == [at |-> p, name |-> Alias[n]]
  <1>4. /\ \A q, e : q # p => (Listed(slots', q, e) <=> Listed(slots, q, e))
        /\ c = Len(n) => \A e : Listed(slots, p, e) <=> e = Long
        /\ c # Len(n) => \A e : Listed(slots, p, e) <=> e = Alone
        /\ \A e : Listed(slots', p, e) <=> c # 0 /\ e = Alone
    BY <1>3, MarkSeen
  <1>5. /\ Seen(Long) = l /\ Seen(Alone) = a /\ l.at = p /\ a.at = p
        /\ Long.name = n /\ Alone.name = Alias[n]
        /\ n \notin Dots /\ Alias[n] \notin Dots
        /\ [l EXCEPT !.name = Alias[@]] = a
        /\ Len(n) # 0
    BY NameIs DEF Seen, Dots
  <1> HIDE DEF Long, Alone, l, a
  <1>6. \A x : x.at # p => (x \in Entries' <=> x \in Entries)
    <2> TAKE x
    <2>1. ASSUME x.at # p, x \in Entries PROVE x \in Entries'
      <3>1. PICK q, e : Listed(slots, q, e) /\ e.name \notin Dots /\ x = Seen(e)
        BY <2>1, EntriesAre
      <3>2. q # p  BY <2>1, <3>1, ListedAt
      <3> QED  BY <1>4, <3>1, <3>2, EntriesAreNext
    <2>2. ASSUME x.at # p, x \in Entries' PROVE x \in Entries
      <3>1. PICK q, e : Listed(slots', q, e) /\ e.name \notin Dots /\ x = Seen(e)
        BY <2>2, EntriesAreNext
      <3>2. q # p  BY <2>2, <3>1, ListedAt
      <3> QED  BY <1>4, <3>1, <3>2, EntriesAre
    <2> QED  BY <2>1, <2>2
  <1>7. \A x : x.at = p => (x \in Entries <=> x = IF c = Len(n) THEN l ELSE a)
    <2> TAKE x
    <2>1. ASSUME x.at = p, x \in Entries PROVE x = IF c = Len(n) THEN l ELSE a
      <3>1. PICK q, e : Listed(slots, q, e) /\ x = Seen(e)  BY <2>1, EntriesAre
      <3>2. q = p  BY <2>1, <3>1, ListedAt
      <3> QED  BY <1>4, <1>5, <3>1, <3>2
    <2>2. CASE c = Len(n)
      <3>1. l \in Entries  BY <1>4, <1>5, <2>2, EntriesAre
      <3> QED  BY <2>1, <2>2, <3>1
    <2>3. CASE c # Len(n)
      <3>1. a \in Entries  BY <1>4, <1>5, <2>3, EntriesAre
      <3> QED  BY <2>1, <2>3, <3>1
    <2> QED  BY <2>2, <2>3
  <1>8. \A x : x.at = p => (x \in Entries' <=> c # 0 /\ x = a)
    <2> TAKE x
    <2>1. ASSUME x.at = p, x \in Entries' PROVE c # 0 /\ x = a
      <3>1. PICK q, e : Listed(slots', q, e) /\ x = Seen(e)
        BY <2>1, EntriesAreNext
      <3>2. q = p  BY <2>1, <3>1, ListedAt
      <3> QED  BY <1>4, <1>5, <3>1, <3>2
    <2>2. c # 0 => a \in Entries'  BY <1>4, <1>5, EntriesAreNext
    <2> QED  BY <2>1, <2>2
  <1>9. CASE c = Len(n)
    <2>1. l \in Entries /\ c # 0  BY <1>5, <1>7, <1>9
    <2>2. \A x : x \in Entries' <=> (x \in Entries /\ x # l) \/ x = a
      BY <1>5, <1>6, <1>7, <1>8, <1>9, <2>1
    <2>3. Entries' = (Entries \ {l}) \cup {a}  BY <2>2
    <2>4. Promise!Degrade(l)  BY <1>5, <2>3 DEF Promise!Degrade
    <2> QED  BY <2>1, <2>4
  <1>10. CASE c # Len(n) /\ c # 0
    <2>1. \A x : x \in Entries' <=> x \in Entries
      BY <1>5, <1>6, <1>7, <1>8, <1>10
    <2> QED  BY <2>1
  <1>11. CASE c = 0
    <2>1. c # Len(n) /\ a \in Entries  BY <1>5, <1>7, <1>11
    <2>2. \A x : x \in Entries' <=> x \in Entries /\ x # a
      BY <1>5, <1>6, <1>7, <1>8, <1>11, <2>1
    <2>3. Entries' = Entries \ {a}  BY <2>2
    <2>4. Promise!Remove(a)  BY <2>3 DEF Promise!Remove
    <2> QED  BY <2>1, <2>4
  <1> QED  BY <1>9, <1>10, <1>11

LEMMA NoEntryAtFirst ==
    ASSUME Init, NoHole
    PROVE  Entries = {}
  <1>1. Structure /\ LaidOut(slots) /\ slots \in Seq(SlotValues) /\ Len(slots) \in Nat
        /\ Len(Header) \in Nat
    BY StructureInit, HeaderAssumption DEF Structure, LaidOut, HeaderAssumption
  <1>2. ASSUME NEW p, NEW e, Listed(slots, p, e) PROVE e.name \in Dots
    <2>1. p \in 1 .. Len(slots) /\ slots[p].kind = "short" /\ IsEntry(slots, p, e)
      BY <1>2 DEF Listed, IsShort
    <2>2. ~(p > Len(Header))  BY <2>1, InitSlots, SlotFields
    <2>3. p \in 1 .. Len(Header)  BY <1>1, <2>1, <2>2
    <2>4. slots[p].name \in Dots /\ \A n : ~Complete(slots, p, n)
      BY <1>1, <2>1, <2>3, HeaderIs DEF Complete
    <2> QED  BY <2>1, <2>4 DEF IsEntry
  <1>3. \A x : x \notin Entries  BY <1>1, <1>2, EntriesAre
  <1> QED  BY <1>3

(* The slots implement a set of entries, also when operations are cut off:
   every slot write enters one name, degrades one to its alias, takes one
   away or is not seen. *)
THEOREM ImplementsNameSpace == Spec /\ []NoHole => KeepsPromise
  <1>1. Init /\ NoHole => Promise!Init  BY NoEntryAtFirst DEF Promise!Init
  <1>2. Structure /\ Structure' /\ NoHole /\ NoHole' /\ [Next]_vars
          => [Promise!Next]_Entries
    <2> SUFFICES ASSUME Structure, Structure', NoHole, NoHole', [Next]_vars,
                        Entries' # Entries
                 PROVE  Promise!Next
      OBVIOUS
    <2>1. CASE \E n \in Names : Create(n)
      BY <2>1, CreateUnseen, SameWhenUnseen
    <2>2. CASE PutLfn  BY <2>2, PutLfnUnseen, SameWhenUnseen
    <2>3. CASE PutShort  BY <2>3, PutShortEnters DEF Promise!Next
    <2>4. CASE MarkDeleted  BY <2>4, MarkDegrades DEF Promise!Next
    <2>5. CASE slots' = slots
      BY <2>5 DEF Entries, Visible
    <2>6. CASE \E n \in Names : \E junk \in Junk : Delete(n, junk)
      BY <2>5, <2>6 DEF Delete, Refuse
    <2>7. CASE Interrupt  BY <2>5, <2>7 DEF Interrupt
    <2>8. CASE UNCHANGED vars  BY <2>5, <2>8 DEF vars
    <2> QED  BY <2>1, <2>2, <2>3, <2>4, <2>6, <2>7, <2>8 DEF Next
  <1> QED  BY <1>1, <1>2, StructureInvariant, PTL
           DEF Spec, KeepsPromise, Promise!Spec


(***************************************************************************)
(* A directory in which no hole is made                                    *)
(***************************************************************************)
Even(i) == i % 2 = 0

(* Every name fits one LFN slot, so that every entry takes two slots, the
   header and a cluster are whole pairs, and no operation is cut off. *)
PairsOnly ==
    /\ \A n \in Names : Len(n) = 1
    /\ Even(DirSlots) /\ Even(Len(Header)) /\ PowerLoss = FALSE

(* The pair that ends in slot j is being written or marked. *)
Busy(j) == \/ pc = "put" /\ (at = j - 1 \/ at = j)
           \/ pc = "mark" /\ todo[Len(todo)] = j

Paired ==
    /\ whole /\ NoHole
    /\ \A j \in 1 .. Len(slots) :
         Even(j) /\ ~Busy(j) => (IsFree(slots[j - 1]) <=> IsFree(slots[j]))
    /\ \A j \in 1 .. Len(slots) :
         j > Len(Header) /\ slots[j].kind = "short" => Even(j)
    /\ pc = "put" => (seq = 0 <=> Even(at))
    /\ pc = "put" => \A j \in 1 .. Len(slots) : j < at => slots[j] # Zero
    /\ pc = "mark" /\ Len(todo) = 1 => IsFree(slots[todo[Len(todo)] - 1])

LEMMA Parity ==
    ASSUME NEW i \in Nat
    PROVE  /\ Even(i + 1) <=> ~Even(i)
           /\ i >= 1 => (Even(i - 1) <=> ~Even(i))
  BY DEF Even

LEMMA EvenLength ==
    ASSUME PairsOnly, Structure
    PROVE  Even(Len(slots)) /\ Len(slots) \in Nat
  <1>1. PICK c \in 1 .. MaxClusters : Len(slots) = DirSlots * c  BY DEF Structure
  <1>2. DirSlots \in Nat /\ MaxClusters \in Nat /\ c \in Nat
    BY DirectoryAssumption DEF DirectoryAssumption
  <1>3. PICK k \in Nat : DirSlots = 2 * k
    <2>1. DirSlots % 2 = 0  BY DEF PairsOnly, Even
    <2>2. DirSlots = 2 * (DirSlots \div 2) /\ DirSlots \div 2 \in Nat  BY <1>2, <2>1
    <2> QED  BY <2>2
  <1>4. PICK m \in Nat : Len(slots) = 2 * m
    <2>1. k * c \in Nat /\ DirSlots * c = 2 * (k * c)  BY <1>2, <1>3
    <2> QED  BY <1>1, <2>1
  <1> QED  BY <1>4 DEF Even

LEMMA PairedInit ==
    ASSUME PairsOnly, Init
    PROVE  Paired
  <1>1. /\ Structure /\ LaidOut(slots) /\ Len(Header) \in Nat /\ Len(slots) \in Nat
        /\ Len(Header) <= Len(slots)
    BY StructureInit, EvenLength, HeaderAssumption
       DEF Structure, LaidOut, HeaderAssumption
  <1>2. \A i \in 1 .. Len(slots) : i > Len(Header) => slots[i] = Zero  BY InitSlots
  <1>3. \A i \in 1 .. Len(Header) : ~IsFree(slots[i])
    BY <1>1, HeaderIs DEF IsFree
  <1>4. IsFree(Zero)  BY SlotFields DEF IsFree
  <1>5. \A i \in 1 .. Len(slots) : IsFree(slots[i]) <=> i > Len(Header)
    <2> TAKE i \in 1 .. Len(slots)
    <2>1. CASE i > Len(Header)  BY <1>2, <1>4, <2>1
    <2>2. CASE ~(i > Len(Header))
      <3>1. i \in 1 .. Len(Header)  BY <1>1, <2>2
      <3> QED  BY <1>3, <2>2, <3>1
    <2> QED  BY <2>1, <2>2
  <1>6. NoHole
    <2>1. ASSUME NEW i \in 1 .. Len(slots), NEW j \in 1 .. Len(slots), i < j,
                 slots[i] = Zero
          PROVE  IsFree(slots[j])
      <3>1. i > Len(Header)  BY <1>4, <1>5, <2>1
      <3>2. j > Len(Header)  BY <1>1, <2>1, <3>1
      <3> QED  BY <1>5, <3>2
    <2> QED  BY <2>1 DEF NoHole
  <1>7. ASSUME NEW j \in 1 .. Len(slots), Even(j)
        PROVE  IsFree(slots[j - 1]) <=> IsFree(slots[j])
    <2>1. ~Even(1)  BY DEF Even
    <2>2. j # 1 /\ j - 1 \in 1 .. Len(slots)  BY <1>1, <1>7, <2>1
    <2>3. j # Len(Header) + 1  BY <1>1, <1>7, Parity DEF PairsOnly
    <2>4. j - 1 > Len(Header) <=> j > Len(Header)  BY <1>1, <2>3
    <2> QED  BY <1>5, <2>2, <2>4
  <1>8. \A j \in 1 .. Len(slots) : j > Len(Header) => slots[j].kind # "short"
    BY <1>2, SlotFields
  <1>9. pc = "idle" /\ whole = TRUE  BY DEF Init
  <1> QED  BY <1>6, <1>7, <1>8, <1>9 DEF Paired

(* Between two operations a free slot is in a free pair. *)
LEMMA PairRun ==
    ASSUME PairsOnly, Structure, Paired, pc = "idle",
           NEW j \in 1 .. Len(slots), IsFree(slots[j])
    PROVE  \E k \in FreeRuns(2) : k <= j /\ (Even(j) => k < j)
  <1>1. Even(Len(slots)) /\ Len(slots) \in Nat /\ j \in Nat  BY EvenLength
  <1>2. \A i \in 1 .. Len(slots) : Even(i) => (IsFree(slots[i - 1]) <=> IsFree(slots[i]))
    BY DEF Paired, Busy
  <1>3. ASSUME NEW k \in 1 .. Len(slots), k + 1 <= Len(slots),
               IsFree(slots[k]), IsFree(slots[k + 1])
        PROVE  k \in FreeRuns(2)
    <2>1. k \in 1 .. Len(slots) - 2 + 1  BY <1>1, <1>3
    <2>2. \A i \in k .. k + 2 - 1 : i = k \/ i = k + 1  BY <1>1, <1>3
    <2> QED  BY <1>3, <2>1, <2>2 DEF FreeRuns
  <1>4. CASE Even(j)
    <2>1. ~Even(1)  BY DEF Even
    <2>2. j # 1 /\ j - 1 \in 1 .. Len(slots) /\ j - 1 + 1 = j  BY <1>1, <1>4, <2>1
    <2>3. IsFree(slots[j - 1])  BY <1>2, <1>4
    <2>4. j - 1 \in FreeRuns(2)
      <3>1. j - 1 + 1 <= Len(slots) /\ IsFree(slots[j - 1 + 1])  BY <1>1, <2>2
      <3> QED  BY <1>3, <2>2, <2>3, <3>1
    <2>5. j - 1 <= j /\ j - 1 < j  BY <1>1
    <2> QED  BY <2>4, <2>5
  <1>5. CASE ~Even(j)
    <2>1. j # Len(slots) /\ j + 1 \in 1 .. Len(slots) /\ j + 1 - 1 = j
      BY <1>1, <1>5
    <2>2. Even(j + 1)  BY <1>1, <1>5, Parity
    <2>3. IsFree(slots[j + 1])
      <3>1. IsFree(slots[j + 1 - 1]) <=> IsFree(slots[j + 1])  BY <1>2, <2>1, <2>2
      <3> QED  BY <2>1, <3>1
    <2>4. j + 1 <= Len(slots)  BY <1>1, <2>1
    <2>5. j \in FreeRuns(2)  BY <1>3, <2>3, <2>4
    <2> QED  BY <1>1, <1>5, <2>5
  <1> QED  BY <1>4, <1>5

LEMMA PairedCreate ==
    ASSUME PairsOnly, Structure, Paired, NEW n \in Names, Create(n)
    PROVE  Paired'
  <1>1. Even(Len(slots)) /\ Len(slots) \in Nat /\ Len(n) = 1 /\ Len(n) + 1 = 2
    <2>1. Len(n) = 1  BY DEF PairsOnly
    <2>2. Even(Len(slots)) /\ Len(slots) \in Nat  BY EvenLength
    <2> QED  BY <2>1, <2>2
  <1>2. pc = "idle"  BY DEF Create, Refuse
  <1>3. /\ whole /\ NoHole
        /\ \A j \in 1 .. Len(slots) :
             Even(j) => (IsFree(slots[j - 1]) <=> IsFree(slots[j]))
        /\ \A j \in 1 .. Len(slots) :
             j > Len(Header) /\ slots[j].kind = "short" => Even(j)
    BY <1>2 DEF Paired, Busy
  <1>4. CASE Refuse(n)
    <2>1. slots' = slots /\ pc' = "idle" /\ whole' = whole
      BY <1>2, <1>4 DEF Refuse
    <2>2. NoHole'  BY <1>3, <2>1 DEF NoHole
    <2> QED  BY <1>3, <2>1, <2>2 DEF Paired
  <1>5. CASE /\ FreeRuns(Len(n) + 1) # {} /\ at' = Min(FreeRuns(Len(n) + 1))
             /\ UNCHANGED slots
             /\ pc' = "put" /\ name' = n /\ seq' = Len(n)
             /\ UNCHANGED <<todo, ret, known, whole>>
    <2> DEFINE S == FreeRuns(2)
    <2>1. S # {} /\ at' = Min(S)  BY <1>1, <1>5
    <2>2. S \in SUBSET Nat  BY <1>1 DEF FreeRuns
    <2>3. at' \in S /\ \A k \in S : at' <= k
      <3> HIDE DEF S
      <3> QED  BY <2>1, <2>2, MinIs
    <2>4. at' \in 1 .. Len(slots) /\ IsFree(slots[at'])
      <3>1. at' \in 1 .. Len(slots) - 2 + 1
            /\ \A i \in at' .. at' + 2 - 1 : IsFree(slots[i])
        BY <2>3 DEF FreeRuns
      <3>2. ASSUME NEW k \in 1 .. Len(slots) - 2 + 1
            PROVE  k \in k .. k + 2 - 1 /\ k \in 1 .. Len(slots)
        BY <1>1
      <3>3. at' \in at' .. at' + 2 - 1 /\ at' \in 1 .. Len(slots)  BY <3>1, <3>2
      <3> QED  BY <3>1, <3>3
    <2>5. ~Even(at')
      <3>1. SUFFICES ASSUME Even(at') PROVE FALSE  OBVIOUS
      <3>2. PICK k \in S : k < at'  BY <1>2, <2>4, <3>1, PairRun
      <3>3. at' <= k /\ k \in Nat /\ at' \in Nat  BY <2>2, <2>3
      <3> QED  BY <3>2, <3>3
    <2>6. ASSUME NEW j \in 1 .. Len(slots), j < at' PROVE slots[j] # Zero
      <3>1. SUFFICES ASSUME slots[j] = Zero PROVE FALSE  OBVIOUS
      <3>2. IsFree(slots[j])  BY <3>1, SlotFields DEF IsFree
      <3>3. PICK k \in S : k <= j  BY <1>2, <3>2, PairRun
      <3>4. at' <= k /\ k \in Nat /\ at' \in Nat /\ j \in Nat  BY <2>2, <2>3
      <3> QED  BY <2>6, <3>3, <3>4
    <2>7. NoHole' /\ whole'  BY <1>3, <1>5 DEF NoHole
    <2>8. seq' # 0 /\ pc' = "put" /\ slots' = slots  BY <1>1, <1>5
    <2> HIDE DEF S
    <2> QED  BY <1>3, <2>5, <2>6, <2>7, <2>8 DEF Paired
  <1>6. CASE /\ FreeRuns(Len(n) + 1) = {}
             /\ at' = Len(slots) + 1 /\ slots' = slots \o NewCluster
             /\ pc' = "put" /\ name' = n /\ seq' = Len(n)
             /\ UNCHANGED <<todo, ret, known, whole>>
    <2>1. /\ Len(slots') = Len(slots) + DirSlots
          /\ \A j \in 1 .. Len(slots) : slots'[j] = slots[j]
          /\ \A j \in 1 .. Len(slots') : j > Len(slots) => slots'[j] = Zero
      BY <1>6, GrowKeeps DEF Structure
    <2>2. DirSlots \in Nat  BY DirectoryAssumption DEF DirectoryAssumption
    <2>3. ASSUME NEW j \in 1 .. Len(slots) PROVE ~IsFree(slots[j]) /\ slots[j] # Zero
      <3>1. ~IsFree(slots[j])  BY <1>1, <1>2, <1>6, PairRun
      <3> QED  BY <3>1, SlotFields DEF IsFree
    <2>4. IsFree(Zero)  BY SlotFields DEF IsFree
    <2>5. ASSUME NEW j \in 1 .. Len(slots')
          PROVE  IsFree(slots'[j]) <=> j > Len(slots)
      <3>1. CASE j > Len(slots)  BY <2>1, <2>4, <3>1
      <3>2. CASE ~(j > Len(slots))
        <4>1. j \in 1 .. Len(slots)  BY <1>1, <3>2
        <4> QED  BY <2>1, <2>3, <3>2, <4>1
      <3> QED  BY <3>1, <3>2
    <2>6. NoHole'
      <3>1. ASSUME NEW i \in 1 .. Len(slots'), NEW j \in 1 .. Len(slots'), i < j,
                   slots'[i] = Zero
            PROVE  IsFree(slots'[j])
        <4>1. i > Len(slots)  BY <2>4, <2>5, <3>1
        <4>2. j > Len(slots)  BY <1>1, <3>1, <4>1
        <4> QED  BY <2>5, <4>2
      <3> QED  BY <3>1 DEF NoHole
    <2>7. ASSUME NEW j \in 1 .. Len(slots'), Even(j)
          PROVE  IsFree(slots'[j - 1]) <=> IsFree(slots'[j])
      <3>1. ~Even(1)  BY DEF Even
      <3>2. Len(slots') \in Nat  BY <1>1, <2>1, <2>2
      <3>3. j # 1 /\ j - 1 \in 1 .. Len(slots')  BY <2>7, <3>1, <3>2
      <3>4. j # Len(slots) + 1  BY <1>1, <2>7, Parity
      <3>5. j - 1 > Len(slots) <=> j > Len(slots)  BY <1>1, <3>4
      <3> QED  BY <2>5, <3>3, <3>5
    <2>8. ASSUME NEW j \in 1 .. Len(slots'), j > Len(Header), slots'[j].kind = "short"
          PROVE  Even(j)
      <3>1. ~(j > Len(slots))  BY <2>1, <2>8, SlotFields
      <3>2. j \in 1 .. Len(slots)  BY <1>1, <3>1
      <3> QED  BY <1>3, <2>1, <2>8, <3>2
    <2>9. \A j \in 1 .. Len(slots') : j < at' => slots'[j] # Zero
      <3> TAKE j \in 1 .. Len(slots')
      <3>1. SUFFICES ASSUME j < at' PROVE slots'[j] # Zero  OBVIOUS
      <3>2. j \in 1 .. Len(slots)  BY <1>1, <1>6, <3>1
      <3> QED  BY <2>1, <2>3, <3>2
    <2>10. ~Even(at') /\ seq' # 0 /\ pc' = "put" /\ whole'
      BY <1>1, <1>3, <1>6, Parity
    <2> QED  BY <2>6, <2>7, <2>8, <2>9, <2>10 DEF Paired
  <1> QED  BY <1>4, <1>5, <1>6 DEF Create


LEMMA PairedPutLfn ==
    ASSUME PairsOnly, Structure, Paired, PutLfn
    PROVE  Paired'
  <1>1. /\ pc = "put" /\ seq > 0 /\ name \in Names /\ whole /\ NoHole
        /\ slots' = [slots EXCEPT ![at] = Lfn(name, seq)]
        /\ at \in 1 .. Len(slots) /\ seq \in 0 .. Len(name) /\ LaidOut(slots)
    BY DEF PutLfn, Structure, Putting, Paired
  <1>2. Even(Len(slots)) /\ Len(slots) \in Nat /\ at \in Nat  BY <1>1, EvenLength
  <1>3. Len(name) = 1 /\ seq = 1
    <2>1. Len(name) = 1  BY <1>1 DEF PairsOnly
    <2> QED  BY <1>1, <2>1
  <1>4. ~Even(at) /\ at < Len(slots)
    <2>1. ~Even(at)  BY <1>1, <1>3 DEF Paired
    <2>2. at # Len(slots)  BY <1>2, <2>1
    <2> QED  BY <1>1, <1>2, <2>1, <2>2
  <1>5. /\ at' = at + 1 /\ seq' = 0 /\ pc' = "put" /\ whole' = whole
    <2>1. at' = at + 1 /\ seq' = seq - 1 /\ UNCHANGED <<pc, whole>>
      BY <1>2, <1>4 DEF PutLfn
    <2> QED  BY <1>1, <1>3, <2>1
  <1>6. SetSlot(slots, slots', at, Lfn(name, seq))
    <2>1. slots \in Seq(SlotValues) /\ seq \in 1 .. Len(name)
      BY <1>1, <1>3 DEF LaidOut
    <2> QED  BY <1>1, <2>1, SetIs, SlotIn
  <1>7. /\ Len(slots') = Len(slots) /\ slots'[at].kind = "lfn"
        /\ \A j \in 1 .. Len(slots) : j # at => slots'[j] = slots[j]
    BY <1>1, <1>6, SlotFields DEF SetSlot
  <1>8. /\ \A j \in 1 .. Len(slots) : j < at => slots[j] # Zero
        /\ slots'[at] # Zero
    BY <1>1, <1>7, SlotFields DEF Paired
  <1>9. NoHole'
    <2>1. ASSUME NEW i \in 1 .. Len(slots'), NEW j \in 1 .. Len(slots'), i < j,
                 slots'[i] = Zero
          PROVE  IsFree(slots'[j])
      <3>1. i # at /\ slots[i] = Zero  BY <1>7, <1>8, <2>1
      <3>2. ~(i < at)  BY <1>7, <1>8, <2>1, <3>1
      <3>3. j # at  BY <1>2, <1>7, <2>1, <3>1, <3>2
      <3>4. IsFree(slots[j])  BY <1>1, <1>7, <2>1, <3>1 DEF NoHole
      <3> QED  BY <1>7, <2>1, <3>3, <3>4
    <2> QED  BY <2>1 DEF NoHole
  <1>10. ASSUME NEW j \in 1 .. Len(slots'), Even(j), ~Busy(j)'
         PROVE  IsFree(slots'[j - 1]) <=> IsFree(slots'[j])
    <2>1. j # at + 1 /\ j # at /\ j \in 1 .. Len(slots)
      BY <1>4, <1>5, <1>7, <1>10 DEF Busy
    <2>2. j - 1 # at /\ j - 1 # 0 /\ j - 1 \in 1 .. Len(slots)
      <3>1. ~Even(1)  BY DEF Even
      <3>2. j # 1  BY <1>10, <3>1
      <3> QED  BY <1>2, <2>1, <3>2
    <2>3. ~Busy(j)  BY <1>1, <1>2, <2>1, <2>2 DEF Busy
    <2>4. IsFree(slots[j - 1]) <=> IsFree(slots[j])  BY <1>10, <2>1, <2>3 DEF Paired
    <2> QED  BY <1>7, <2>1, <2>2, <2>4
  <1>11. ASSUME NEW j \in 1 .. Len(slots'), j > Len(Header), slots'[j].kind = "short"
         PROVE  Even(j)
    <2>1. j # at  BY <1>7, <1>11
    <2> QED  BY <1>7, <1>11, <2>1 DEF Paired
  <1>12. Even(at')  BY <1>2, <1>4, <1>5, Parity
  <1>13. \A j \in 1 .. Len(slots') : j < at' => slots'[j] # Zero
    <2> TAKE j \in 1 .. Len(slots')
    <2>1. SUFFICES ASSUME j < at' PROVE slots'[j] # Zero  OBVIOUS
    <2>2. j = at \/ j < at  BY <1>2, <1>5, <2>1
    <2> QED  BY <1>2, <1>7, <1>8, <2>2
  <1> QED  BY <1>1, <1>5, <1>9, <1>10, <1>11, <1>12, <1>13 DEF Paired

LEMMA PairedPutShort ==
    ASSUME PairsOnly, Structure, Paired, PutShort
    PROVE  Paired'
  <1>1. /\ pc = "put" /\ seq = 0 /\ pc' = "idle" /\ whole' = whole
        /\ whole /\ NoHole /\ Even(at)
    BY DEF PutShort, Return, Paired
  <1>2. /\ at \in 1 .. Len(slots) /\ name \in Names /\ Len(name) < at
        /\ \A k \in 1 .. Len(name) : slots[at - k] = Lfn(name, k)
        /\ SetSlot(slots, slots', at, Short(name))
    BY PutShortIs
  <1>3. Even(Len(slots)) /\ Len(slots) \in Nat /\ at \in Nat  BY <1>2, EvenLength
  <1>4. /\ Len(slots') = Len(slots) /\ slots'[at].kind = "short"
        /\ \A j \in 1 .. Len(slots) : j # at => slots'[j] = slots[j]
    BY <1>2, SlotFields DEF SetSlot
  <1>5. at - 1 \in 1 .. Len(slots) /\ slots[at - 1].kind = "lfn"
    <2>1. Len(name) = 1  BY <1>2 DEF PairsOnly
    <2>2. slots[at - 1] = Lfn(name, 1)  BY <1>2, <2>1
    <2> QED  BY <1>2, <1>3, <2>1, <2>2, SlotFields
  <1>6. /\ \A j \in 1 .. Len(slots) : j < at => slots[j] # Zero
        /\ slots'[at] # Zero
    BY <1>1, <1>4, SlotFields DEF Paired
  <1>7. NoHole'
    <2>1. ASSUME NEW i \in 1 .. Len(slots'), NEW j \in 1 .. Len(slots'), i < j,
                 slots'[i] = Zero
          PROVE  IsFree(slots'[j])
      <3>1. i # at /\ slots[i] = Zero  BY <1>4, <1>6, <2>1
      <3>2. ~(i < at)  BY <1>4, <1>6, <2>1, <3>1
      <3>3. j # at  BY <1>3, <1>4, <2>1, <3>1, <3>2
      <3>4. IsFree(slots[j])  BY <1>1, <1>4, <2>1, <3>1 DEF NoHole
      <3> QED  BY <1>4, <2>1, <3>3, <3>4
    <2> QED  BY <2>1 DEF NoHole
  <1>8. ASSUME NEW j \in 1 .. Len(slots'), Even(j)
        PROVE  IsFree(slots'[j - 1]) <=> IsFree(slots'[j])
    <2>1. CASE j = at
      <3>1. at - 1 # at  BY <1>3
      <3>2. slots'[at - 1].kind = "lfn"  BY <1>4, <1>5, <3>1
      <3> QED  BY <1>4, <2>1, <3>2 DEF IsFree
    <2>2. CASE j # at
      <3>1. ~Even(at + 1)  BY <1>1, <1>3, Parity
      <3>2. j # at + 1  BY <1>8, <3>1
      <3>3. ~Even(1)  BY DEF Even
      <3>4. j # 1  BY <1>8, <3>3
      <3>5. j \in 1 .. Len(slots) /\ j - 1 \in 1 .. Len(slots) /\ j - 1 # at
        BY <1>3, <1>4, <3>2, <3>4
      <3>6. ~Busy(j)  BY <1>1, <2>2, <3>5 DEF Busy
      <3>7. IsFree(slots[j - 1]) <=> IsFree(slots[j])  BY <1>8, <3>5, <3>6 DEF Paired
      <3> QED  BY <1>4, <2>2, <3>5, <3>7
    <2> QED  BY <2>1, <2>2
  <1>9. ASSUME NEW j \in 1 .. Len(slots'), j > Len(Header), slots'[j].kind = "short"
        PROVE  Even(j)
    <2>1. CASE j = at  BY <1>1, <2>1
    <2>2. CASE j # at  BY <1>4, <1>9, <2>2 DEF Paired
    <2> QED  BY <2>1, <2>2
  <1> QED  BY <1>1, <1>7, <1>8, <1>9 DEF Paired

LEMMA PairedDelete ==
    ASSUME PairsOnly, Structure, WholeInv, Paired,
           NEW n \in Names, NEW junk \in Junk, Delete(n, junk)
    PROVE  Paired'
  <1>1. /\ pc = "idle" /\ slots' = slots /\ whole' = whole /\ whole /\ NoHole
        /\ pc' # "put"
    BY DEF Delete, Refuse, Paired
  <1>2. NoHole'  BY <1>1 DEF NoHole
  <1>3. /\ \A j \in 1 .. Len(slots) :
             Even(j) => (IsFree(slots[j - 1]) <=> IsFree(slots[j]))
        /\ \A j \in 1 .. Len(slots) :
             j > Len(Header) /\ slots[j].kind = "short" => Even(j)
    BY <1>1 DEF Paired, Busy
  <1>4. ASSUME pc' = "mark" PROVE Len(todo') # 1
    <2>1. PICK e \in First(Deletable(junk), n) : todo' = Append(e.run, e.at)
      BY <1>1, <1>4 DEF Delete, Refuse
    <2>2. LaidOut(slots) /\ slots \in Seq(SlotValues)  BY DEF Structure, LaidOut
    <2>3. PICK p \in 1 .. Len(slots) : \E m \in Names : \E c \in 0 .. Len(m) :
             /\ Block(slots, p, m, c) /\ p > Len(Header) /\ e.at = p
             /\ Append(e.run, e.at) = RunAt(p + 1, c + 1)
             /\ e \in Walk(slots, FALSE, junk) /\ e.name = n
             /\ c = Len(m) => m = n
      BY <2>2, DeleteIs
    <2>4. PICK m \in Names : \E c \in 0 .. Len(m) :
             /\ Block(slots, p, m, c) /\ e.at = p
             /\ Append(e.run, e.at) = RunAt(p + 1, c + 1)
             /\ e \in Deletable(junk) /\ e.name = n
      BY <2>3 DEF Deletable
    <2>5. PICK c \in 0 .. Len(m) :
             /\ Block(slots, p, m, c) /\ e.at = p
             /\ Append(e.run, e.at) = RunAt(p + 1, c + 1)
             /\ e \in Deletable(junk) /\ e.name = n
      BY <2>4
    <2>6. Complete(slots, p, n)  BY <1>1, <2>5, DeletesOwn
    <2>7. c = Len(m)  BY <2>2, <2>5, <2>6, PartialIs
    <2>8. Len(m) = 1  BY DEF PairsOnly
    <2>9. Chain(slots, p, m, c)  BY <2>5 DEF Block
    <2>10. p \in Nat /\ c \in Nat /\ c < p  BY <2>2, <2>9, ChainSlots
    <2>11. todo' = RunAt(p + 1, c + 1)  BY <2>1, <2>5
    <2>12. Len(todo') = c + 1  BY <2>10, <2>11, TodoIs
    <2> QED  BY <2>7, <2>8, <2>12
  <1> QED  BY <1>1, <1>2, <1>3, <1>4 DEF Paired

LEMMA PairedMark ==
    ASSUME PairsOnly, Structure, Paired, MarkDeleted
    PROVE  Paired'
  <1>1. PICK p \in 1 .. Len(slots) : \E n \in Names : \E c \in 0 .. Len(n) :
          MarkingOf(p, n, c)
    BY DEF Structure, MarkDeleted, Marking
  <1>2. PICK n \in Names : \E c \in 0 .. Len(n) : MarkingOf(p, n, c)  BY <1>1
  <1>3. PICK c \in 0 .. Len(n) : MarkingOf(p, n, c)  BY <1>2
  <1>4. /\ Block(slots, p, n, c) /\ c \in Nat /\ c < p /\ c <= Len(n)
        /\ p - c \in 1 .. Len(slots) /\ SetSlot(slots, slots', p - c, Deleted)
        /\ Len(todo) = c + 1 /\ todo[Len(todo)] = p
        /\ Len(todo) > 1 => Tail(todo) = RunAt(p + 1, c)
    BY <1>3, MarkIs
  <1>5. /\ pc = "mark" /\ whole /\ NoHole /\ whole' = whole /\ Len(n) = 1
        /\ LaidOut(slots) /\ slots \in Seq(SlotValues)
    BY DEF MarkDeleted, Paired, PairsOnly, Structure, LaidOut
  <1>6. Even(Len(slots)) /\ Len(slots) \in Nat /\ p \in Nat  BY EvenLength
  <1>7. Even(p) /\ p > Len(Header)
    <2>1. Chain(slots, p, n, c)  BY <1>4 DEF Block
    <2>2. ~(p \in 1 .. Len(Header))  BY <1>5, <2>1, HeaderIs
    <2>3. p > Len(Header)
      <3>1. Len(Header) \in Nat  BY HeaderAssumption DEF HeaderAssumption
      <3> QED  BY <1>6, <2>2, <3>1
    <2>4. slots[p].kind = "short"  BY <1>5, <2>1, ChainSlots
    <2> QED  BY <2>3, <2>4 DEF Paired
  <1>8. /\ Len(slots') = Len(slots) /\ slots'[p - c] = Deleted
        /\ \A j \in 1 .. Len(slots) : j # p - c => slots'[j] = slots[j]
    BY <1>4 DEF SetSlot
  <1>9. IsFree(Deleted) /\ Deleted # Zero /\ Deleted.kind # "short"
    BY SlotFields DEF IsFree
  <1>10. NoHole'
    <2>1. ASSUME NEW i \in 1 .. Len(slots'), NEW j \in 1 .. Len(slots'), i < j,
                 slots'[i] = Zero
          PROVE  IsFree(slots'[j])
      <3>1. slots[i] = Zero  BY <1>8, <1>9, <2>1
      <3>2. IsFree(slots[j])  BY <1>5, <1>8, <2>1, <3>1 DEF NoHole
      <3> QED  BY <1>8, <1>9, <2>1, <3>2
    <2> QED  BY <2>1 DEF NoHole
  <1>11. \A j \in 1 .. Len(slots') :
           j > Len(Header) /\ slots'[j].kind = "short" => Even(j)
    BY <1>8, <1>9 DEF Paired
  <1>12. p # 1 /\ p - 1 \in 1 .. Len(slots) /\ c \in {0, 1}
    <2>1. ~Even(1)  BY DEF Even
    <2>2. p # 1  BY <1>7, <2>1
    <2> QED  BY <1>4, <1>5, <1>6, <2>2
  <1>13. ASSUME NEW j \in 1 .. Len(slots'), Even(j), j # p
         PROVE  IsFree(slots'[j - 1]) <=> IsFree(slots'[j])
    <2>1. ~Even(1)  BY DEF Even
    <2>2. ~Even(p + 1) /\ ~Even(p - 1)  BY <1>6, <1>7, <1>12, Parity
    <2>3. j # 1 /\ j # p + 1 /\ j # p - 1  BY <1>13, <2>1, <2>2
    <2>4. j \in 1 .. Len(slots) /\ j - 1 \in 1 .. Len(slots)
          /\ j # p - c /\ j - 1 # p - c
      BY <1>6, <1>8, <1>12, <1>13, <2>3
    <2>5. ~Busy(j)  BY <1>4, <1>5, <1>13 DEF Busy
    <2>6. IsFree(slots[j - 1]) <=> IsFree(slots[j])  BY <1>13, <2>4, <2>5 DEF Paired
    <2> QED  BY <1>8, <2>4, <2>6
  <1>14. CASE Len(todo) > 1 /\ todo' = Tail(todo) /\ UNCHANGED pc
    <2>1. c = 1
      <3>1. c + 1 > 1  BY <1>4, <1>14
      <3> QED  BY <1>12, <3>1
    <2>2. todo' = RunAt(p + 1, 0 + 1)
      <3>1. todo' = RunAt(p + 1, c) /\ 0 + 1 = 1  BY <1>4, <1>14
      <3> QED  BY <2>1, <3>1
    <2>3. 0 \in Nat /\ 0 < p  BY <1>4, <1>6
    <2>4. Len(todo') = 0 + 1  BY <1>6, <2>2, <2>3, TodoIs
    <2>5. todo'[1] = p
      <3>1. 1 \in 1 .. 0 + 1 /\ p - 0 - 1 + 1 = p  BY <1>6
      <3>2. todo'[1] = p - 0 - 1 + 1  BY <1>6, <2>2, <2>3, <3>1, TodoAt
      <3> QED  BY <3>1, <3>2
    <2>6. Len(todo') = 1 /\ todo'[Len(todo')] = p  BY <2>4, <2>5
    <2>7. pc' = "mark" /\ Busy(p)'  BY <1>5, <1>14, <2>6 DEF Busy
    <2>8. IsFree(slots'[p - 1])  BY <1>8, <1>9, <2>1
    <2> QED  BY <1>5, <1>10, <1>11, <1>13, <2>6, <2>7, <2>8 DEF Paired
  <1>15. CASE Len(todo) = 1 /\ Return(0)
    <2>1. c = 0 /\ p - c = p /\ p - 1 # p - c
      <3>1. c + 1 = 1  BY <1>4, <1>15
      <3> QED  BY <1>6, <1>12, <3>1
    <2>2. IsFree(slots[p - 1])  BY <1>4, <1>5, <1>15 DEF Paired
    <2>3. IsFree(slots'[p - 1]) /\ IsFree(slots'[p])
      BY <1>8, <1>9, <1>12, <2>1, <2>2
    <2>4. pc' = "idle"  BY <1>15 DEF Return
    <2> QED  BY <1>5, <1>10, <1>11, <1>13, <2>3, <2>4 DEF Paired
  <1> QED  BY <1>14, <1>15 DEF MarkDeleted

LEMMA PairedStep ==
    ASSUME PairsOnly, Structure, WholeInv, Paired, [Next]_vars
    PROVE  Paired'
  <1>1. CASE \E n \in Names : Create(n)  BY <1>1, PairedCreate
  <1>2. CASE \E n \in Names : \E junk \in Junk : Delete(n, junk)
    BY <1>2, PairedDelete
  <1>3. CASE PutLfn  BY <1>3, PairedPutLfn
  <1>4. CASE PutShort  BY <1>4, PairedPutShort
  <1>5. CASE MarkDeleted  BY <1>5, PairedMark
  <1>6. CASE Interrupt  BY <1>6 DEF PairsOnly, Interrupt
  <1>7. CASE UNCHANGED vars
    BY <1>7 DEF vars, Paired, NoHole, Busy
  <1> QED  BY <1>1, <1>2, <1>3, <1>4, <1>5, <1>6, <1>7 DEF Next

(* A directory whose entries all take two slots, as a subdirectory of names of
   at most 13 characters, never has a hole (find_free_slots). *)
THEOREM PairsLeaveNoHole == PairsOnly => (Spec => []NoHole)
  <1> SUFFICES ASSUME PairsOnly PROVE Spec => []NoHole  OBVIOUS
  <1>1. Init => Structure /\ WholeInv /\ Paired
    BY StructureInit, WholeInit, PairedInit
  <1>2. Structure /\ WholeInv /\ Paired /\ [Next]_vars
          => Structure' /\ WholeInv' /\ Paired'
    BY StructureStep, WholeStep, PairedStep DEF Paired
  <1>3. Paired => NoHole  BY DEF Paired
  <1> QED  BY <1>1, <1>2, <1>3, PTL DEF Spec

(* There fat32_list, fat32_find and fat32_delete show, find and remove exactly
   what fat32_create made: every property holds without a condition. *)
THEOREM PairsKeepEverything ==
    PairsOnly =>
      (Spec => /\ [](ListsKnown /\ NoOrphanSlot /\ CreatedIsFound)
               /\ OthersFound /\ KeepsPromise)
  <1> SUFFICES ASSUME PairsOnly
               PROVE  Spec => /\ [](ListsKnown /\ NoOrphanSlot /\ CreatedIsFound)
                              /\ OthersFound /\ KeepsPromise
    OBVIOUS
  <1>1. Spec => []NoHole  BY PairsLeaveNoHole
  <1> QED  BY <1>1, ListsKnownWithoutHoles, NoOrphansWithoutHoles,
              CreatedFoundWithoutHoles, OthersKeptWithoutHoles,
              ImplementsNameSpace, PTL

=============================================================================

----------------------------- MODULE Directory -----------------------------
(***************************************************************************)
(* The slots of one directory (src/src/fs/fat32.c: dir_iter, delete_iter,  *)
(* find_free_slots, dir_write_entry, fat32_create, fat32_delete).          *)
(*                                                                         *)
(* A file takes one long-name (LFN) slot per 13 characters of its name and *)
(* one 8.3 slot, in consecutive slots, the last part of the name first.    *)
(* The driver reads them with two walks that treat the long name           *)
(* differently, dir_iter and delete_iter.  Every slot written is a write   *)
(* of its cluster to the disk and a step of its own.                       *)
(*                                                                         *)
(* A name is the sequence of its 13-character parts, case folded; all      *)
(* parts but the last are full.  The slots of the directory's clusters     *)
(* form one sequence, in the order of the chain, which module Fat32 keeps. *)
(***************************************************************************)
EXTENDS Integers, Sequences, FiniteSets, FiniteSetsExt

CONSTANTS
    Names,          \* the names callers use: nonempty sequences of parts
    Alias,          \* [Names -> Names]: the 8.3 name make_83 gives, as a name
    DirSlots,       \* slots per cluster
    MaxClusters,    \* clusters the directory may grow to before the disk is full
    Header,         \* slots the directory is made with: volume label or . and ..
    PowerLoss       \* TRUE: power may fail between two slot writes

None     == "none"      \* a part of lfn_buf that holds zeros
MaxParts == Max({Len(n) : n \in Names})
Parts    == UNION {{n[k] : k \in DOMAIN n} : n \in Names}

(* No name holds a zero part, none is empty, and . and .. are resolved by
   the callers (module Vfs); the 8.3 name is one part. *)
ASSUME DirectoryAssumption ==
    /\ DirSlots \in Nat \ {0} /\ MaxClusters \in Nat \ {0}
    /\ Names # {} /\ IsFiniteSet(Names) /\ Names \subseteq Seq(Parts)
    /\ None \notin Parts /\ <<".">> \notin Names /\ <<"..">> \notin Names
    /\ \A n \in Names : Len(n) >= 1
    /\ Alias \in [Names -> Names]
    /\ \A n \in Names : Len(Alias[n]) = 1
    /\ PowerLoss \in BOOLEAN

Zero     == [kind |-> "zero"]                   \* first byte 0x00
Deleted  == [kind |-> "deleted"]                \* first byte 0xE5
Label    == [kind |-> "label"]                  \* ATTR_VOLUME_ID
Dot      == [kind |-> "short", name |-> <<".">>]
DotDot   == [kind |-> "short", name |-> <<"..">>]
Short(n) == [kind |-> "short", name |-> Alias[n]]

ASSUME HeaderAssumption ==
    Header \in Seq({Label, Dot, DotDot}) /\ Len(Header) <= DirSlots

(* The checksum of an LFN slot is a function of the 8.3 name. *)
Lfn(n, seq) == [kind |-> "lfn", last |-> seq = Len(n), seq |-> seq,
                part |-> n[seq], sum |-> Alias[n]]

IsFree(e) == e.kind \in {"zero", "deleted"}

VARIABLES
    slots,      \* the slots of the directory, cluster after cluster
    pc, name,   \* the operation under way and its argument
    at,         \* dir_write_entry: the slot to write next
    seq,        \* dir_write_entry: the LFN to write next, 0 for the 8.3 entry
    todo,       \* fat32_delete: the slots still to mark
    ret,        \* value the last call returned
    known,      \* history: the names whose creation, but no deletion, returned 0
    whole       \* history: no operation was interrupted or gave up half-way

vars == <<slots, pc, name, at, seq, todo, ret, known, whole>>

(***************************************************************************)
(* The two walks                                                           *)
(***************************************************************************)
Blank == [k \in 1 .. MaxParts |-> None]

(* lfn_buf as a string: the parts before the first that holds zeros. *)
LongName(b) ==
    SubSeq(b, 1, Min({k \in 1 .. MaxParts + 1 : k > MaxParts \/ b[k] = None}) - 1)

(* One LFN slot.  dir_iter is strict: it drops a part out of sequence or
   with another checksum; delete_iter takes every part. *)
TakeLfn(s, e, i, strict) ==
    IF e.last
    THEN [s EXCEPT !.run = <<i>>, !.expect = e.seq - 1, !.sum = e.sum,
                   !.buf = [Blank EXCEPT ![e.seq] = e.part]]
    ELSE IF strict /\ (e.seq # s.expect \/ e.sum # s.sum)
    THEN [s EXCEPT !.run = <<>>, !.expect = -1]
    ELSE [s EXCEPT !.run = Append(@, i), !.expect = e.seq - 1,
                   !.buf = [@ EXCEPT ![e.seq] = e.part]]

TakeShort_AnyName(s, e, i) ==   \* slip: the long name is not ended
    [s EXCEPT !.found = @ \cup
        {[at |-> i, run |-> s.run,
          name |-> IF s.buf[1] # None THEN LongName(s.buf) ELSE e.name]}]

(* An 8.3 slot: it has the long name collected before it, or its own. *)
TakeShort(s, e, i) ==
    [s EXCEPT !.run = <<>>, !.expect = -1, !.found = @ \cup
        {[at |-> i, run |-> s.run,
          name |-> IF s.run # <<>> /\ s.buf[1] # None
                   THEN LongName(s.buf) ELSE e.name]}]

(* The entries a walk finds before the first 0x00 slot; junk is what the
   stack held where lfn_buf lies. *)
Walk(sl, strict, junk) ==
    LET end  == Min({i \in 1 .. Len(sl) + 1 : i > Len(sl) \/ sl[i] = Zero})
        scan[i \in 0 .. end - 1] ==
            IF i = 0
            THEN [run |-> <<>>, expect |-> -1, sum |-> <<>>, found |-> {},
                  buf |-> junk]
            ELSE LET s == scan[i - 1]
                     e == sl[i]
                 IN  CASE e.kind = "lfn"   -> TakeLfn(s, e, i, strict)
                       [] e.kind = "short" -> TakeShort(s, e, i)
                       [] OTHER            -> [s EXCEPT !.run = <<>>,
                                                        !.expect = -1]
    IN  scan[end - 1].found

Junk    == {Blank, [k \in 1 .. MaxParts |-> "junk"]}
Visible == Walk(slots, TRUE, Blank)       \* dir_iter never reads the junk
Deletable(junk) == Walk(slots, FALSE, junk)

(* Both walks stop at the first entry that has the name. *)
First(E, n) == LET M == {e \in E : e.name = n}
               IN  {e \in M : \A f \in M : e.at <= f.at}
Find(n)     == First(Visible, n)

(***************************************************************************)
(* find_free_slots: the first run of free slots, or a new cluster          *)
(***************************************************************************)
FreeRuns_Short(k) ==    \* slip: consecutive > n_need read as >= n_need - 1
    {p \in 1 .. Len(slots) - k + 2 : \A i \in p .. p + k - 2 : IsFree(slots[i])}
FreeRuns(k) == {p \in 1 .. Len(slots) - k + 1 :
                   \A i \in p .. p + k - 1 : IsFree(slots[i])}
CanGrow     == Len(slots) < DirSlots * MaxClusters
NewCluster  == [i \in 1 .. DirSlots |-> Zero]

(***************************************************************************)
(* Operations                                                              *)
(***************************************************************************)
Init ==
    /\ slots = Header \o [i \in 1 .. DirSlots - Len(Header) |-> Zero]
    /\ pc = "idle" /\ name \in Names /\ at = 0 /\ seq = 0 /\ todo = <<>>
    /\ ret = 0 /\ known = {} /\ whole = TRUE

Return(r) == pc' = "idle" /\ at' = 0 /\ seq' = 0 /\ todo' = <<>> /\ ret' = r

Refuse(n) ==
    /\ pc = "idle" /\ name' = n /\ ret' = -1
    /\ UNCHANGED <<slots, pc, at, seq, todo, known, whole>>

(* fat32_create, and fat32_write of a new name, up to dir_write_entry's
   first slot: n_lfn + 1 slots are needed. *)
Create(n) ==
    \/ Find(n) # {} /\ Refuse(n)
    \/ /\ pc = "idle" /\ Find(n) = {}
       /\ LET runs == FreeRuns(Len(n) + 1)
          IN  \/ runs # {} /\ at' = Min(runs) /\ UNCHANGED slots
              \/ runs = {} /\ CanGrow /\ at' = Len(slots) + 1
                           /\ slots' = slots \o NewCluster
       /\ pc' = "put" /\ name' = n /\ seq' = Len(n)
       /\ UNCHANGED <<todo, ret, known, whole>>
    \/ /\ Find(n) = {} /\ FreeRuns(Len(n) + 1) = {} /\ ~CanGrow
       /\ Refuse(n)

PutLfn_Forward ==       \* slip: the parts are written first part first
    /\ pc = "put" /\ seq > 0
    /\ slots' = [slots EXCEPT ![at] = Lfn(name, Len(name) + 1 - seq)]
    /\ \/ /\ at < Len(slots) /\ at' = at + 1 /\ seq' = seq - 1
          /\ UNCHANGED <<pc, todo, ret, whole>>
       \/ at = Len(slots) /\ Return(-1) /\ whole' = FALSE
    /\ UNCHANGED <<name, known>>

(* The run of a long name may be cut off by the end of the directory: then
   the call fails behind its last slot. *)
PutLfn ==
    /\ pc = "put" /\ seq > 0
    /\ slots' = [slots EXCEPT ![at] = Lfn(name, seq)]
    /\ \/ /\ at < Len(slots) /\ at' = at + 1 /\ seq' = seq - 1
          /\ UNCHANGED <<pc, todo, ret, whole>>
       \/ at = Len(slots) /\ Return(-1) /\ whole' = FALSE
    /\ UNCHANGED <<name, known>>

PutShort ==
    /\ pc = "put" /\ seq = 0
    /\ slots' = [slots EXCEPT ![at] = Short(name)]
    /\ Return(0) /\ known' = known \cup {name}
    /\ UNCHANGED <<name, whole>>

Delete_LastSlotOnly(n, junk) == \* slip: del_count is not counted up
    \/ First(Deletable(junk), n) = {} /\ Refuse(n)
    \/ /\ pc = "idle" /\ \E e \in First(Deletable(junk), n) : todo' = <<e.at>>
       /\ pc' = "mark" /\ name' = n
       /\ UNCHANGED <<slots, at, seq, ret, known, whole>>

(* fat32_delete: the LFN slots in order, then the 8.3 slot. *)
Delete(n, junk) ==
    \/ First(Deletable(junk), n) = {} /\ Refuse(n)
    \/ /\ pc = "idle"
       /\ \E e \in First(Deletable(junk), n) : todo' = Append(e.run, e.at)
       /\ pc' = "mark" /\ name' = n
       /\ UNCHANGED <<slots, at, seq, ret, known, whole>>

MarkDeleted ==
    /\ pc = "mark" /\ slots' = [slots EXCEPT ![Head(todo)] = Deleted]
    /\ \/ /\ Len(todo) > 1 /\ todo' = Tail(todo)
          /\ UNCHANGED <<pc, at, seq, ret, known>>
       \/ Len(todo) = 1 /\ Return(0) /\ known' = known \ {name}
    /\ UNCHANGED <<name, whole>>

(* A write fails and the call returns -1, or power fails. *)
Interrupt ==
    /\ PowerLoss /\ whole /\ pc # "idle"       \* bound: once
    /\ \E r \in {-1, ret} : Return(r)
    /\ whole' = FALSE /\ UNCHANGED <<slots, name, known>>

Next == \/ \E n \in Names : Create(n) \/ \E junk \in Junk : Delete(n, junk)
        \/ PutLfn \/ PutShort \/ MarkDeleted \/ Interrupt

Spec == Init /\ [][Next]_vars

(***************************************************************************)
(* Properties                                                              *)
(***************************************************************************)
(* Slots keep whole clusters; an operation in progress has a place to go. *)
TypeOK ==
    /\ Len(slots) % DirSlots = 0
    /\ \A i \in 1 .. Len(slots) :
         slots[i].kind \in {"zero", "deleted", "label", "lfn", "short"}
    /\ pc \in {"idle", "put", "mark"} /\ name \in Names
    /\ pc = "put"  => at \in 1 .. Len(slots) /\ seq \in 0 .. Len(name)
    /\ pc = "mark" => todo # <<>>
    /\ ret \in {0, -1} /\ known \subseteq Names /\ whole \in BOOLEAN

(* A 0x00 slot ends the directory for both walks, dir_iter and delete_iter:
   nothing may follow it.  Not so after every sequence of calls, see
   CreatedIsFound; but where every entry and every cluster is a number of
   pairs of slots. *)
NoHole ==
    \A i, j \in 1 .. Len(slots) :
      i < j /\ slots[i] = Zero => IsFree(slots[j])

Dots == {<<".">>, <<"..">>}

(* fat32_list shows exactly the names callers created and have not deleted,
   each once: no creation is lost, none comes back, no slot of another
   entry takes part in a name. *)
ListsKnown ==
    pc = "idle" /\ whole =>
      LET E == {e \in Visible : e.name \notin Dots}
      IN  {e.name : e \in E} = known /\ Cardinality(E) = Cardinality(known)

(* Every LFN slot belongs to an entry that dir_iter shows and that a delete
   of its name would mark: deleting reclaims every slot that creating took. *)
NoOrphanSlot ==
    pc = "idle" /\ whole =>
      \A i \in 1 .. Len(slots) : slots[i].kind = "lfn" =>
        \E e \in Visible : \A junk \in Junk :
          \E f \in First(Deletable(junk), e.name) :
            f.at = e.at /\ i \in {f.run[k] : k \in DOMAIN f.run}

(* At every point of an operation, hence wherever power may fail, the other
   names are found where they were; only the 8.3 alias of the name that is
   being deleted may come and go. *)
OthersFound ==
    [][whole => \A m \in Names \ {name', Alias[name']} :
                  Find(m)' = Find(m)]_slots

(* Seen through dir_iter the directory is a set of entries, power losses
   included: one slot write enters a name, takes one away or degrades one to
   its alias. *)
Entries == {[at |-> e.at, name |-> e.name] :
               e \in {v \in Visible : v.name \notin Dots}}
Promise == INSTANCE NameSpace WITH
               entries <- Entries, Places <- 1 .. DirSlots * MaxClusters
KeepsPromise == Promise!Spec

(* fat32_create: a call that returned 0 made the name, and it can be found
   ("Returns 0 on success", include/fs/fat32.h). *)
CreatedIsFound ==
    pc = "idle" /\ whole => \A n \in known : Find(n) # {}

=============================================================================

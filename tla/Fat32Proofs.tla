---------------------------- MODULE Fat32Proofs ----------------------------
(***************************************************************************)
(* Ownership of clusters, for every volume size, set of names and payload: *)
(* chains never share a cluster and never lead to a free one, as long as   *)
(* no entry was torn.  The five lemmas on OneOwner say what each kind of   *)
(* FAT update does to a set of owners; the action lemmas apply them.  Four *)
(* lemmas on Covered do the same for the clusters that no chain holds, and *)
(* two say what marks and links do to cycles, on a torn volume too.        *)
(* Then what is read: the directory's clusters, the other files, which no  *)
(* operation disturbs, and the file an operation writes, which holds what  *)
(* the chain it built was given.                                           *)
(***************************************************************************)
EXTENDS Fat32, FiniteSetTheorems, SequenceTheorems, NaturalsInduction,
        WellFoundedInduction, TLAPS

(* Numbers: marks are not clusters. *)
LEMMA Marks == /\ ~IsCluster(Free) /\ ~IsCluster(Eoc) /\ ~IsCluster(0)
               /\ IsCluster(RootClus) /\ Free # Eoc
  BY Fat32Assumption DEF Fat32Assumption, Free, IsCluster, Clusters,
     RootClus

(***************************************************************************)
(* Owners                                                                  *)
(***************************************************************************)

(* F holds FAT cells; E is F with cell c set to v; G is H but for root w,
   and for starts that were given up. *)
CellsOK(F)          == \A x \in Clusters : F[x] \in Clusters \cup {Free, Eoc}
CellSet(F, E, c, v) == \A x \in Clusters : E[x] = IF x = c THEN v ELSE F[x]
SameElse(H, G, w)   == \A r \in Roots \ {w} : IsCluster(G[r]) => G[r] = H[r]

(* Forgetting starts of chains disturbs nobody. *)
LEMMA OwnerDrop ==
    ASSUME NEW F, NEW H, NEW G, OneOwner(F, H),
           \A r \in Roots : IsCluster(G[r]) => G[r] = H[r]
    PROVE  OneOwner(F, G)
  BY DEF OneOwner

(* A start passes from one root to another that had none. *)
LEMMA OwnerMove ==
    ASSUME NEW F, NEW H, NEW G, OneOwner(F, H),
           NEW from \in Roots, NEW to \in Roots, from # to,
           G[to] = H[from], ~IsCluster(G[from]),
           \A r \in Roots \ {from, to} : IsCluster(G[r]) => G[r] = H[r]
    PROVE  OneOwner(F, G)
  BY DEF OneOwner

(* fat_free_chain: the cell at a root is freed, the root advances. *)
LEMMA OwnerFree ==
    ASSUME NEW F, NEW E, NEW H, NEW G, NEW w \in Roots,
           CellsOK(F), OneOwner(F, H), IsCluster(H[w]),
           CellSet(F, E, H[w], Free), SameElse(H, G, w),
           G[w] = F[H[w]] \/ ~IsCluster(G[w])
    PROVE  OneOwner(E, G)
  BY Marks DEF OneOwner, IsCluster, CellsOK, CellSet, SameElse

(* fat_alloc marks a free cell, and a root that had none starts there. *)
LEMMA OwnerTake ==
    ASSUME NEW F, NEW E, NEW H, NEW G, NEW w \in Roots, NEW c \in Clusters,
           CellsOK(F), OneOwner(F, H), F[c] = Free,
           CellSet(F, E, c, Eoc), SameElse(H, G, w), G[w] = c
    PROVE  OneOwner(E, G)
  BY Marks DEF OneOwner, IsCluster, CellsOK, CellSet, SameElse

(* fat_alloc links the cell behind an end mark. *)
LEMMA OwnerLink ==
    ASSUME NEW F, NEW E, NEW H, NEW G, NEW w \in Roots, NEW p \in Clusters,
           CellsOK(F), OneOwner(F, H), IsCluster(H[w]), F[p] = Eoc,
           CellSet(F, E, p, H[w]), SameElse(H, G, w), ~IsCluster(G[w])
    PROVE  OneOwner(E, G)
  BY Marks DEF OneOwner, IsCluster, CellsOK, CellSet, SameElse

(***************************************************************************)
(* Reachability                                                            *)
(***************************************************************************)

(* Reach(c) holds c, is closed, and lies in every closed set that holds c. *)
LEMMA ReachFacts ==
    ASSUME TypeOK, NEW c \in Clusters
    PROVE  /\ c \in Reach(c) /\ Reach(c) \subseteq Clusters
           /\ Closed(Reach(c))
           /\ \A S \in SUBSET Clusters : c \in S /\ Closed(S)
                                           => Reach(c) \subseteq S
  <1>1. c \in Reach(c) /\ Reach(c) \subseteq Clusters  BY DEF Reach
  <1>2. Closed(Reach(c))
    <2> SUFFICES ASSUME NEW x \in Reach(c), IsCluster(fat[x]),
                        NEW S \in SUBSET Clusters, c \in S, Closed(S)
                 PROVE  fat[x] \in S
      BY DEF Closed, Reach, IsCluster
    <2> QED  BY DEF Closed, Reach
  <1> QED  BY <1>1, <1>2 DEF Reach

(* With one owner per cluster, what is reachable is not free. *)
LEMMA ReachUsed ==
    ASSUME TypeOK, OneOwner(fat, Heads), NEW r \in Roots, IsCluster(Heads[r])
    PROVE  \A c \in Reach(Heads[r]) : fat[c] # Free
  <1> DEFINE S == {c \in Clusters : fat[c] # Free}
  <1>1. Heads[r] \in S  BY DEF OneOwner, IsCluster
  <1>2. Closed(S)       BY DEF OneOwner, Closed, IsCluster
  <1> QED  BY <1>1, <1>2, ReachFacts DEF IsCluster

(* With one owner per cluster, chains from two starts are disjoint. *)
LEMMA ReachDisjoint ==
    ASSUME TypeOK, OneOwner(fat, Heads),
           NEW r \in Roots, NEW s \in Roots, r # s,
           IsCluster(Heads[r]), IsCluster(Heads[s])
    PROVE  Reach(Heads[r]) \cap Reach(Heads[s]) = {}
  <1> DEFINE A == Reach(Heads[r])
             B == Reach(Heads[s])
  <1>0. Heads[r] \in Clusters /\ Heads[s] \in Clusters  BY DEF IsCluster
  <1>1. Heads[r] \notin B
    <2>1. Closed(B \ {Heads[r]})
      BY <1>0, ReachFacts DEF OneOwner, Closed, IsCluster
    <2>2. Heads[s] \in B \ {Heads[r]}  BY <1>0, ReachFacts DEF OneOwner
    <2> QED  BY <2>1, <2>2, <1>0, ReachFacts
  <1>2. ASSUME NEW y \in Clusters \ B, IsCluster(fat[y])
        PROVE  fat[y] \notin B
    <2> DEFINE z == fat[y]
    <2>1. z \in Clusters /\ z # Heads[s]  BY <1>2 DEF OneOwner, IsCluster
    <2>2. Closed(B \ {z})
      BY <1>0, <1>2, <2>1, ReachFacts DEF OneOwner, Closed, IsCluster
    <2>3. Heads[s] \in B \ {z}  BY <1>0, <2>1, ReachFacts
    <2> QED  BY <1>0, <2>2, <2>3, ReachFacts
  <1>3. Closed(Clusters \ B)  BY <1>2 DEF Closed, IsCluster
  <1> QED  BY <1>0, <1>1, <1>3, ReachFacts

(***************************************************************************)
(* Type correctness                                                        *)
(***************************************************************************)

(* Leaving an operation, whichever way, keeps the locals well typed. *)
LEMMA LeaveType ==
    ASSUME TypeOK, Succeed \/ Abandon, fat' = fat,
           DOMAIN data' = Clusters, DOMAIN dirent' = Names,
           \A n \in Names : /\ dirent'[n].used \in BOOLEAN
                            /\ dirent'[n].cluster \in Clusters \cup {0},
           ret' \in {0, -1}
    PROVE  TypeOK'
  BY DEF TypeOK, Succeed, Abandon, ClearLocals, Loss, PCs, Free

(* Every variable keeps its range; the cells of the FAT hold free marks, end
   marks and cluster numbers of the volume only. *)
THEOREM TypeCorrect == Spec => []TypeOK
  <1>1. Init => TypeOK
    <2> SUFFICES ASSUME Init PROVE TypeOK  OBVIOUS
    <2>1. \A n \in Names : dirent[n] = NoEntry  BY DEF Init
    <2>2. DOMAIN data = Clusters /\ DOMAIN dirent = Names /\ DOMAIN file = Names
      BY DEF Init
    <2> QED  BY <2>1, <2>2 DEF Init, TypeOK, NoEntry, PCs, Kinds, Free
  <1>2. TypeOK /\ [Next]_vars => TypeOK'
    <2> SUFFICES ASSUME TypeOK, [Next]_vars PROVE TypeOK'  OBVIOUS
    <2>1. ASSUME NEW n \in Names, NEW b \in Payloads, CallWrite(n, b)
          PROVE  TypeOK'
      BY <2>1, Marks DEF TypeOK, CallWrite, Begin, AfterSetup, PCs, Kinds, disk, Free
    <2>2. ASSUME NEW n \in Names, NEW b \in Payloads, CallAppend(n, b)
          PROVE  TypeOK'
      BY <2>2, Marks DEF TypeOK, CallAppend, Begin, Refuse, AfterSetup, PCs,
         Kinds, disk, hist, Free
    <2>3. ASSUME NEW n \in Names, CallCreate(n) \/ CallMkdir(n)
          PROVE  TypeOK'
      BY <2>3, Marks DEF TypeOK, CallCreate, CallMkdir, Begin, Refuse, PCs,
         Kinds, disk, hist, Free
    <2>4. ASSUME NEW n \in Names, CallDelete(n)  PROVE  TypeOK'
      <3>1. CASE Refuse("delete", n)
        BY <3>1 DEF TypeOK, Refuse, PCs, Kinds, disk, hist
      <3>2. CASE ~Refuse("delete", n)
        <4>1. dirent' = [dirent EXCEPT ![n] = NoEntry]
          BY <2>4, <3>2 DEF CallDelete
        <4>2. \A m \in Names : /\ dirent'[m].used \in BOOLEAN
                               /\ dirent'[m].cluster \in Clusters \cup {0}
          BY <4>1 DEF TypeOK, NoEntry
        <4> QED  BY <2>4, <3>2, <4>1, <4>2 DEF TypeOK, CallDelete, PCs, Kinds, Free
      <3> QED  BY <3>1, <3>2
    <2>5. CASE FreeCell
      BY <2>5 DEF TypeOK, FreeCell, Goto, PCs, hist, IsCluster, Free
    <2>6. CASE FreeEnd
      <3>1. DOMAIN data' = Clusters  BY <2>6 DEF TypeOK, FreeEnd, ZapEoc
      <3>2. CASE Succeed
        BY <2>6, <3>1, <3>2, LeaveType DEF FreeEnd, TypeOK, Succeed
      <3>3. CASE ~Succeed
        BY <2>6, <3>1, <3>3 DEF TypeOK, FreeEnd, Goto, AfterSetup, PCs, hist,
           Free
      <3> QED  BY <3>2, <3>3
    <2>7. CASE ResetEntry
      BY <2>7 DEF TypeOK, ResetEntry, Entry, Goto, AfterSetup, PCs, hist
    <2>8. CASE FatAlloc \/ DirAlloc
      BY <2>8 DEF TypeOK, FatAlloc, DirAlloc, TakeCell, Goto, PCs, hist
    <2>9. CASE FatLink \/ DirLink
      <3>1. got \in Clusters \/ got = 0  BY DEF TypeOK
      <3> QED  BY <2>9, <3>1 DEF TypeOK, FatLink, DirLink, Goto, PCs, hist, Free
    <2>10. CASE DiskFull \/ DirFull \/ WriteDataError \/ EntryError
      BY <2>10, LeaveType DEF DiskFull, DirFull, WriteDataError, EntryError,
         Fail, disk, TypeOK
    <2>11. CASE WriteData
      BY <2>11, Fat32Assumption DEF TypeOK, WriteData, Goto, PCs, hist,
         Fat32Assumption
    <2>12. CASE MkdirDataError
      BY <2>12 DEF TypeOK, MkdirDataError, ClearLocals, PCs, Free
    <2>13. CASE WriteEntry
      <3>1. /\ DOMAIN dirent' = Names
            /\ \A n \in Names : /\ dirent'[n].used \in BOOLEAN
                                 /\ dirent'[n].cluster \in Clusters \cup {0}
        BY <2>13 DEF WriteEntry, TypeOK, Entry
      <3> QED  BY <2>13, <3>1, LeaveType DEF WriteEntry, TypeOK, Succeed
    <2>14. CASE DirZero
      BY <2>14 DEF TypeOK, DirZero, Goto, PCs, hist
    <2>15. CASE LosePower
      BY <2>15, LeaveType DEF LosePower, disk, TypeOK
    <2>16. CASE UNCHANGED vars
      BY <2>16 DEF TypeOK, vars
    <2> QED
      BY <2>1, <2>2, <2>3, <2>4, <2>5, <2>6, <2>7, <2>8, <2>9, <2>10, <2>11,
         <2>12, <2>13, <2>14, <2>15, <2>16 DEF Next, Call, Step
  <1> QED  BY <1>1, <1>2, PTL DEF Spec
(***************************************************************************)
(* Ownership                                                               *)
(***************************************************************************)

(* The value of Heads at each root, before and after a step. *)
LEMMA HeadsAt ==
    /\ \A n \in Names : Heads[n] = EntryHead(n)
    /\ Heads["root"] = RootClus /\ Heads["walk"] = walk
    /\ Heads["first"] = first
    /\ Heads["got"] = IF pc \in {"link", "dlink"} THEN got ELSE 0
    /\ {"root", "walk", "first", "got"} \subseteq Roots
    /\ Names \subseteq Roots
    /\ \A r \in Roots : r \in Names \/ r \in {"root", "walk", "first", "got"}
    /\ \A n \in Names : n \notin {"root", "walk", "first", "got"}
  BY Fat32Assumption DEF Fat32Assumption, Heads, Roots

LEMMA HeadsAtNext ==
    /\ \A n \in Names : Heads'[n] = EntryHead(n)'
    /\ Heads'["root"] = RootClus /\ Heads'["walk"] = walk'
    /\ Heads'["first"] = first'
    /\ Heads'["got"] = IF pc' \in {"link", "dlink"} THEN got' ELSE 0
  BY Fat32Assumption DEF Fat32Assumption, Heads, Roots, RootClus

(* A call starts: the entry's chain passes to walk, or nothing changes. *)
LEMMA CallOwner ==
    ASSUME TypeOK, OneOwner(fat, Heads), Phase, Call
    PROVE  OneOwner(fat', Heads') /\ Phase'
  <1>0. pc = "idle" /\ walk = 0 /\ first = 0 /\ fat' = fat /\ first' = first
      /\ prev = 0 /\ prev' = prev
    BY DEF Call, CallWrite, CallAppend, CallCreate, CallMkdir, CallDelete,
       Begin, Refuse, disk, Phase
  <1>1. PICK n \in Names :
             \/ \E b \in Payloads : CallWrite(n, b) \/ CallAppend(n, b)
             \/ CallCreate(n) \/ CallMkdir(n) \/ CallDelete(n)
    BY DEF Call
  <1>2. ASSUME NEW k \in Kinds, Refuse(k, n)
        PROVE  OneOwner(fat', Heads') /\ Phase'
    <2>1. \A m \in Names : EntryHead(m)' = EntryHead(m)
      BY <1>2 DEF Refuse, EntryHead, Exists, Suspended, disk
    <2>2. OneOwner(fat', Heads')
      <3>1. \A r \in Roots : IsCluster(Heads'[r]) => Heads'[r] = Heads[r]
        BY <1>0, <1>2, <2>1, HeadsAt, HeadsAtNext, Marks DEF Refuse
      <3> QED  BY <3>1, <1>0, OwnerDrop
    <2>3. Phase'
      BY <1>0, <1>2 DEF Refuse, Phase
    <2> QED  BY <2>2, <2>3
  <1>3. ASSUME NEW k \in {"write", "append"}, NEW c, NEW g, Exists(n),
               Begin(k, n, c, dirent[n].cluster, g, "free")
        PROVE  OneOwner(fat', Heads') /\ Phase'
    <2>1. /\ EntryHead(n)' = 0 /\ walk' = EntryHead(n) /\ pc' = "free"
          /\ \A m \in Names \ {n} : EntryHead(m)' = EntryHead(m)
      BY <1>0, <1>3 DEF Begin, EntryHead, Exists, Suspended, disk
    <2>2. OneOwner(fat', Heads')
      <3>1. /\ Heads'["walk"] = Heads[n] /\ ~IsCluster(Heads'[n])
            /\ \A r \in Roots \ {n, "walk"} :
                 IsCluster(Heads'[r]) => Heads'[r] = Heads[r]
        BY <1>0, <2>1, HeadsAt, HeadsAtNext, Marks
      <3>2. n # "walk" /\ n \in Roots /\ "walk" \in Roots  BY HeadsAt
      <3> QED  BY <3>1, <3>2, <1>0, OwnerMove
    <2>3. Phase'
      BY <1>0, <1>3, <2>1 DEF Begin, Phase
    <2> QED  BY <2>2, <2>3
  <1>4. ASSUME NEW k \in {"write", "create", "mkdir"}, NEW c, NEW g,
               NEW l \in {"alloc", "entry"}, ~Exists(n),
               Begin(k, n, c, 0, g, l), k = "mkdir" => c = Dir
        PROVE  OneOwner(fat', Heads') /\ Phase'
    <2>1. \A m \in Names : EntryHead(m)' = EntryHead(m)
      BY <1>0, <1>4 DEF Begin, EntryHead, Exists, Suspended, disk
    <2>2. OneOwner(fat', Heads')
      <3>1. \A r \in Roots : IsCluster(Heads'[r]) => Heads'[r] = Heads[r]
        BY <1>0, <1>4, <2>1, HeadsAt, HeadsAtNext, Marks DEF Begin
      <3> QED  BY <3>1, <1>0, OwnerDrop
    <2>3. Phase'
      BY <1>0, <1>4, <2>1 DEF Begin, Phase, EntryHead
    <2> QED  BY <2>2, <2>3
  <1>5. CASE CallDelete(n) /\ ~\E k \in Kinds : Refuse(k, n)
    <2>0. /\ Exists(n) /\ dirent' = [dirent EXCEPT ![n] = NoEntry]
          /\ walk' = dirent[n].cluster /\ pc' = "free" /\ kind' = "delete"
          /\ name' = n
      BY <1>5 DEF CallDelete, Kinds
    <2>1. /\ EntryHead(n)' = 0 /\ walk' = EntryHead(n)
          /\ \A m \in Names \ {n} : EntryHead(m)' = EntryHead(m)
      BY <1>0, <2>0 DEF EntryHead, Exists, Suspended, NoEntry, TypeOK
    <2>2. OneOwner(fat', Heads')
      <3>1. /\ Heads'["walk"] = Heads[n] /\ ~IsCluster(Heads'[n])
            /\ \A r \in Roots \ {n, "walk"} :
                 IsCluster(Heads'[r]) => Heads'[r] = Heads[r]
        BY <1>0, <2>0, <2>1, HeadsAt, HeadsAtNext, Marks
      <3>2. n # "walk" /\ n \in Roots /\ "walk" \in Roots  BY HeadsAt
      <3> QED  BY <3>1, <3>2, <1>0, OwnerMove
    <2>3. Phase'
      BY <1>0, <2>0, <2>1 DEF Phase
    <2> QED  BY <2>2, <2>3
  <1>6. ASSUME NEW b \in Payloads, CallWrite(n, b) \/ CallAppend(n, b)
        PROVE  OneOwner(fat', Heads') /\ Phase'
    <2>1. AfterSetup(b) \in {"alloc", "entry"}  BY DEF AfterSetup
    <2>2. CASE CallWrite(n, b)
      <3> DEFINE g == IF dirent[n].dir THEN Unknown ELSE b
      <3>1. CASE Exists(n)
        BY <2>2, <3>1, <1>3 DEF CallWrite
      <3>2. CASE ~Exists(n)
        <4>1. Begin("write", n, b, 0, g, AfterSetup(b))
          BY <2>2, <3>2 DEF CallWrite
        <4> HIDE DEF g
        <4> QED  BY <4>1, <2>1, <3>2, <1>4
      <3> QED  BY <3>1, <3>2
    <2>3. CASE CallAppend(n, b)
      <3>1. CASE ~Exists(n) /\ Begin("write", n, b, 0, b, AfterSetup(b))
        BY <3>1, <2>1, <1>4
      <3>2. CASE Refuse("append", n)
        BY <3>2, <1>2 DEF Kinds
      <3>3. CASE Exists(n) /\ ~Refuse("append", n)
        BY <2>3, <3>3, <1>3 DEF CallAppend
      <3> QED  BY <2>3, <3>1, <3>2, <3>3 DEF CallAppend
    <2> QED  BY <1>6, <2>2, <2>3
  <1>7. ASSUME CallCreate(n)  PROVE OneOwner(fat', Heads') /\ Phase'
    BY <1>2, <1>4, <1>7 DEF CallCreate, Kinds
  <1>8. ASSUME CallMkdir(n)  PROVE OneOwner(fat', Heads') /\ Phase'
    BY <1>2, <1>4, <1>8 DEF CallMkdir, Kinds
  <1> QED
    BY <1>1, <1>2, <1>5, <1>6, <1>7, <1>8

(* An operation is given up: what walk or first held passes to the entry if
   the entry names it, and is lost otherwise. *)
LEMMA AbandonOwner ==
    ASSUME TypeOK, OneOwner(fat, Heads), Phase, pc # "idle",
           Abandon, fat' = fat, dirent' = dirent, ~Torn
    PROVE  OneOwner(fat', Heads') /\ Phase'
  <1>1. /\ pc' = "idle" /\ walk' = 0 /\ first' = 0 /\ prev' = 0
        /\ name' = name /\ kind' = kind /\ name \in Names
    BY DEF Abandon, ClearLocals, TypeOK
  <1>2. \A n \in Names \ {name} : EntryHead(n)' = EntryHead(n)
    BY <1>1 DEF EntryHead, Exists, Suspended
  <1>3. EntryHead(name) = 0  BY DEF Phase
  <1>4. EntryHead(name)' = IF Exists(name) THEN dirent[name].cluster ELSE 0
    BY <1>1 DEF EntryHead, Exists, Suspended
  <1>5. EntryHead(name)' \in {0, walk, first}
    BY <1>3, <1>4 DEF Torn, EntryHead
  <1>6. \A r \in Roots \ {name} : IsCluster(Heads'[r]) => Heads'[r] = Heads[r]
    BY <1>1, <1>2, HeadsAt, HeadsAtNext, Marks
  <1>7. name \in Roots /\ "walk" \in Roots /\ "first" \in Roots
        /\ name \notin {"walk", "first"}
    BY <1>1, HeadsAt
  <1>8. ~IsCluster(Heads'["walk"]) /\ ~IsCluster(Heads'["first"])
    BY <1>1, HeadsAtNext, Marks
  <1>9. Heads'[name] = EntryHead(name)'  BY <1>1, HeadsAtNext
  <1>10. CASE EntryHead(name)' = 0
    <2>1. \A r \in Roots : IsCluster(Heads'[r]) => Heads'[r] = Heads[r]
      BY <1>6, <1>9, <1>10, Marks
    <2> QED  BY <2>1, <1>1, OwnerDrop DEF Phase
  <1>11. CASE EntryHead(name)' = walk
    <2>1. Heads'[name] = Heads["walk"]  BY <1>9, <1>11, HeadsAt
    <2>2. OneOwner(fat', Heads')
      BY <2>1, <1>6, <1>7, <1>8, OwnerMove
    <2> QED  BY <2>2, <1>1 DEF Phase
  <1>12. CASE EntryHead(name)' = first
    <2>1. Heads'[name] = Heads["first"]  BY <1>9, <1>12, HeadsAt
    <2>2. OneOwner(fat', Heads')
      BY <2>1, <1>6, <1>7, <1>8, OwnerMove
    <2> QED  BY <2>2, <1>1 DEF Phase
  <1> QED  BY <1>5, <1>10, <1>11, <1>12

(* fat_free_chain: one cell, and its end. *)
LEMMA FreeOwner ==
    ASSUME TypeOK, OneOwner(fat, Heads), Phase, FreeCell \/ FreeEnd
    PROVE  OneOwner(fat', Heads') /\ Phase'
  <1>0. /\ pc = "free" /\ dirent' = dirent /\ name' = name /\ kind' = kind
        /\ first' = 0 /\ first = 0 /\ prev' = 0 /\ prev = 0
        /\ (buf' = buf \/ pc' = "idle")
    BY DEF FreeCell, FreeEnd, Goto, Succeed, ClearLocals, Phase
  <1>1. CASE FreeCell
    <2>1. /\ pc' = "free" /\ walk' = fat[walk] /\ IsCluster(walk)
          /\ fat' = [fat EXCEPT ![walk] = Free]
          /\ first' = 0 /\ prev' = 0
      BY <1>0, <1>1 DEF FreeCell, Goto
    <2>2. \A n \in Names : EntryHead(n)' = EntryHead(n)
      BY <1>0, <2>1 DEF EntryHead, Exists, Suspended
    <2>3. /\ Heads["walk"] = walk /\ Heads'["walk"] = fat[walk]
          /\ SameElse(Heads, Heads', "walk")
      BY <1>0, <2>1, <2>2, HeadsAt, HeadsAtNext, Marks DEF SameElse
    <2>4. /\ CellsOK(fat) /\ CellSet(fat, fat', Heads["walk"], Free)
          /\ "walk" \in Roots /\ IsCluster(Heads["walk"])
          /\ Heads'["walk"] = fat[Heads["walk"]]
      BY <2>1, <2>3, HeadsAt DEF TypeOK, CellsOK, CellSet
    <2>5. OneOwner(fat', Heads')  BY <2>3, <2>4, OwnerFree
    <2>6. EntryHead(name)' = 0
      BY <1>0, <2>1 DEF Phase, EntryHead, Exists, Suspended
    <2> QED  BY <1>0, <2>1, <2>5, <2>6 DEF Phase
  <1>2. CASE FreeEnd
    <2>1. /\ ~IsCluster(walk) /\ fat' = fat /\ walk' = 0
          /\ first' = 0 /\ prev' = 0
          /\ \/ kind = "delete" /\ pc' = "idle"
             \/ /\ kind # "delete"
                /\ pc' = IF kind = "write" THEN "reset"
                         ELSE IF buf = <<>> THEN "entry" ELSE "alloc"
      BY <1>0, <1>2 DEF FreeEnd, Goto, Succeed, ClearLocals, AfterSetup
    <2>2. \A n \in Names : EntryHead(n)' = EntryHead(n)
      BY <1>0, <2>1 DEF EntryHead, Exists, Suspended
    <2>3. \A r \in Roots : IsCluster(Heads'[r]) => Heads'[r] = Heads[r]
      BY <1>0, <2>1, <2>2, HeadsAt, HeadsAtNext, Marks
    <2>4. OneOwner(fat', Heads')  BY <2>1, <2>3, OwnerDrop
    <2>5. pc' # "idle" => EntryHead(name)' = 0
      BY <1>0, <2>1 DEF Phase, EntryHead, Exists, Suspended
    <2>6. kind \in {"write", "append", "delete"}  BY <1>0 DEF Phase
    <2> QED  BY <1>0, <2>1, <2>4, <2>5, <2>6 DEF Phase
  <1> QED  BY <1>1, <1>2

(* dir_update_entry(entry, 0, 0): the entry was suspended, so no start of a
   chain changes. *)
LEMMA ResetOwner ==
    ASSUME TypeOK, OneOwner(fat, Heads), Phase, ResetEntry
    PROVE  OneOwner(fat', Heads') /\ Phase'
  <1>1. /\ pc = "reset" /\ pc' \in {"entry", "alloc"} /\ fat' = fat
        /\ kind = "write" /\ kind' = kind /\ name' = name /\ name \in Names
        /\ walk = 0 /\ walk' = 0 /\ first = 0 /\ first' = 0
        /\ prev = 0 /\ prev' = 0
        /\ dirent' = [dirent EXCEPT ![name] = Entry(dirent[name].dir, 0, 0)]
    BY DEF ResetEntry, Goto, AfterSetup, Phase, TypeOK
  <1>2. EntryHead(name)' = 0
    BY <1>1 DEF EntryHead, Exists, Suspended, Entry, TypeOK
  <1>3. \A n \in Names \ {name} : EntryHead(n)' = EntryHead(n)
    BY <1>1 DEF EntryHead, Exists, Suspended, TypeOK
  <1>4. \A r \in Roots : IsCluster(Heads'[r]) => Heads'[r] = Heads[r]
    BY <1>1, <1>2, <1>3, HeadsAt, HeadsAtNext, Marks
  <1>5. OneOwner(fat', Heads')  BY <1>1, <1>4, OwnerDrop
  <1> QED  BY <1>1, <1>2, <1>5 DEF Phase

(* fat_alloc marks the first free cell.  It becomes first when the chain has
   no cell yet, and waits in got for its link otherwise. *)
LEMMA TakeOwner ==
    ASSUME TypeOK, OneOwner(fat, Heads), Phase, FatAlloc \/ DirAlloc
    PROVE  OneOwner(fat', Heads') /\ Phase'
  <1>0. CellsOK(fat) /\ walk = 0 /\ name \in Names
    BY DEF TypeOK, Phase, FatAlloc, DirAlloc, CellsOK
  <1>1. PICK c \in Clusters :
          /\ fat[c] = Free /\ fat' = [fat EXCEPT ![c] = Eoc] /\ got' = c
          /\ dirent' = dirent /\ walk' = walk /\ kind' = kind /\ name' = name
          /\ buf' = buf
          /\ \/ /\ pc = "alloc" /\ prev' = prev
                /\ pc' = IF prev = 0 THEN "data" ELSE "link"
                /\ first' = IF first = 0 THEN c ELSE first
             \/ /\ pc = "entry" /\ ~Exists(name) /\ pc' = "dlink"
                /\ first' = first /\ IsDirTail(prev') /\ prev' \in Clusters
    BY DEF FatAlloc, DirAlloc, TakeCell, IsFirstFree, FreeCells, Goto
  <1>2. CellSet(fat, fat', c, Eoc)
    BY <1>1 DEF TypeOK, CellSet
  <1>3. \A n \in Names : EntryHead(n)' = EntryHead(n)
    BY <1>1 DEF EntryHead, Exists, Suspended
  <1>4. EntryHead(name)' = 0
    BY <1>1, <1>0 DEF EntryHead, Exists, Suspended, Phase
  <1>5. "first" \in Roots /\ "got" \in Roots  BY HeadsAt
  <1>6. CASE pc = "alloc" /\ prev = 0
    <2>1. /\ first = 0 /\ first' = c /\ pc' = "data" /\ prev' = 0
      BY <1>1, <1>6 DEF Phase
    <2>2. /\ Heads'["first"] = c
          /\ SameElse(Heads, Heads', "first")
      BY <1>0, <1>1, <1>3, <1>6, <2>1, HeadsAt, HeadsAtNext, Marks
         DEF SameElse
    <2>3. OneOwner(fat', Heads')
      BY <1>0, <1>1, <1>2, <1>5, <2>2, OwnerTake
    <2>4. c # 0  BY Marks DEF IsCluster
    <2>5. fat'[c] = Eoc  BY <1>2 DEF CellSet
    <2>6. kind = "mkdir" => buf = Dir  BY <1>6 DEF Phase
    <2>7. Phase'
      BY <1>0, <1>1, <1>4, <1>6, <2>1, <2>4, <2>5, <2>6 DEF Phase, IsCluster
    <2> QED  BY <2>3, <2>7
  <1>7. CASE pc = "alloc" /\ prev # 0
    <2>1. /\ first # 0 /\ first' = first /\ pc' = "link" /\ prev' = prev
          /\ prev \in Clusters /\ fat[prev] = Eoc /\ prev # c
      BY <1>1, <1>7, Marks DEF Phase, TypeOK
    <2>2. /\ Heads'["got"] = c
          /\ SameElse(Heads, Heads', "got")
      BY <1>0, <1>1, <1>3, <1>7, <2>1, HeadsAt, HeadsAtNext, Marks
         DEF SameElse
    <2>3. OneOwner(fat', Heads')
      BY <1>0, <1>1, <1>2, <1>5, <2>2, OwnerTake
    <2>4. fat'[c] = Eoc /\ fat'[prev] = Eoc  BY <1>2, <2>1 DEF CellSet
    <2>5. kind # "mkdir"  BY <1>7 DEF Phase
    <2>6. Phase'
      BY <1>0, <1>1, <1>4, <1>7, <2>1, <2>4, <2>5 DEF Phase, IsCluster
    <2> QED  BY <2>3, <2>6
  <1>8. CASE pc = "entry"
    <2>1. /\ ~Exists(name) /\ pc' = "dlink" /\ first' = first
          /\ prev' \in Clusters /\ IsDirTail(prev')
      BY <1>1, <1>8
    <2>2. fat[prev'] # Free
      <3>1. Heads["root"] = RootClus /\ "root" \in Roots  BY HeadsAt
      <3>2. prev' \in Reach(RootClus)  BY <2>1 DEF IsDirTail, DirClusters
      <3> QED  BY <3>1, <3>2, ReachUsed, Marks
    <2>3. fat[prev'] = Eoc /\ prev' # c
      BY <1>0, <1>1, <2>1, <2>2 DEF IsDirTail, IsCluster, CellsOK
    <2>4. /\ Heads'["got"] = c
          /\ SameElse(Heads, Heads', "got")
      BY <1>0, <1>1, <1>3, <1>8, <2>1, HeadsAt, HeadsAtNext, Marks
         DEF SameElse
    <2>5. OneOwner(fat', Heads')
      BY <1>0, <1>1, <1>2, <1>5, <2>4, OwnerTake
    <2>6. ~Exists(name)'  BY <1>1, <2>1 DEF Exists
    <2>7. fat'[c] = Eoc /\ fat'[prev'] = Eoc  BY <1>2, <2>1, <2>3 DEF CellSet
    <2>8. Phase'
      BY <1>0, <1>1, <1>4, <1>8, <2>1, <2>3, <2>6, <2>7 DEF Phase, IsCluster
    <2> QED  BY <2>5, <2>8
  <1> QED  BY <1>1, <1>6, <1>7, <1>8

(* fat_alloc links the cell it marked. *)
LEMMA LinkOwner ==
    ASSUME TypeOK, OneOwner(fat, Heads), Phase, FatLink \/ DirLink
    PROVE  OneOwner(fat', Heads') /\ Phase'
  <1>1. /\ pc \in {"link", "dlink"}
        /\ pc' = IF pc = "link" THEN "data" ELSE "dzero"
        /\ dirent' = dirent /\ walk' = walk /\ walk = 0 /\ first' = first
        /\ prev' = prev /\ got' = got /\ kind' = kind /\ name' = name
        /\ name \in Names
        /\ fat' = [fat EXCEPT ![prev] = got]
        /\ prev \in Clusters /\ got \in Clusters /\ prev # got
        /\ fat[prev] = Eoc /\ fat[got] = Eoc
    BY DEF FatLink, DirLink, Goto, Phase, IsCluster, TypeOK
  <1>2. CellsOK(fat) /\ CellSet(fat, fat', prev, got)
    BY <1>1 DEF TypeOK, CellsOK, CellSet
  <1>3. \A n \in Names : EntryHead(n)' = EntryHead(n)
    BY <1>1 DEF EntryHead, Exists, Suspended, Phase
  <1>4. EntryHead(name)' = 0
    BY <1>1 DEF EntryHead, Exists, Suspended, Phase
  <1>5. /\ "got" \in Roots /\ Heads["got"] = got /\ IsCluster(got)
        /\ Heads'["got"] = 0
        /\ SameElse(Heads, Heads', "got")
    BY <1>1, <1>3, HeadsAt, HeadsAtNext, Marks DEF IsCluster, SameElse
  <1>6. /\ IsCluster(Heads["got"]) /\ ~IsCluster(Heads'["got"])
        /\ CellSet(fat, fat', prev, Heads["got"])
    BY <1>2, <1>5, Marks
  <1>7. OneOwner(fat', Heads')  BY <1>1, <1>2, <1>5, <1>6, OwnerLink
  <1>8. /\ pc = "link" => first # 0 /\ kind # "mkdir"
        /\ pc = "dlink" => ~Exists(name)'
    BY <1>1 DEF Phase, Exists
  <1>9. fat'[got] = Eoc  BY <1>1, <1>2 DEF CellSet
  <1>10. Phase'
    BY <1>1, <1>4, <1>8, <1>9 DEF Phase, IsCluster
  <1> QED  BY <1>7, <1>10

(* Data and directory clusters are written without a change of owners. *)
LEMMA WriteOwner ==
    ASSUME TypeOK, OneOwner(fat, Heads), Phase, WriteData \/ DirZero
    PROVE  OneOwner(fat', Heads') /\ Phase'
  <1>1. /\ pc \in {"data", "dzero"} /\ pc' \in {"entry", "alloc"}
        /\ fat' = fat /\ dirent' = dirent /\ walk' = 0 /\ walk = 0
        /\ first' = first /\ got' = got /\ kind' = kind /\ name' = name
        /\ name \in Names /\ got \in Clusters /\ fat[got] = Eoc /\ buf' = buf
    BY DEF WriteData, DirZero, Goto, Phase, IsCluster, TypeOK
  <1>2. \A n \in Names : EntryHead(n)' = EntryHead(n)
    BY <1>1 DEF EntryHead, Exists, Suspended, Phase
  <1>3. EntryHead(name)' = 0
    BY <1>1 DEF EntryHead, Exists, Suspended, Phase
  <1>4. \A r \in Roots : IsCluster(Heads'[r]) => Heads'[r] = Heads[r]
    BY <1>1, <1>2, HeadsAt, HeadsAtNext, Marks
  <1>5. OneOwner(fat', Heads')  BY <1>1, <1>4, OwnerDrop
  <1>6. pc' = "alloc" => prev' = got /\ first # 0 /\ kind # "mkdir"
    <2>1. CASE kind = "mkdir"
      <3>1. pc = "data" => Len(buf) = 1  BY <2>1 DEF Phase, Dir
      <3>2. written \in Nat /\ ClusUnits \in Nat /\ ClusUnits >= 1
        BY Fat32Assumption DEF Fat32Assumption, TypeOK
      <3>3. ASSUME pc = "data" PROVE written + ClusUnits >= Len(buf)
        <4>1. written + ClusUnits >= 1  BY <3>2
        <4> QED  BY <3>1, <3>3, <4>1
      <3>4. pc' = "entry"  BY <3>3, <1>1 DEF WriteData, DirZero, Goto
      <3> QED  BY <3>4
    <2>2. CASE kind # "mkdir"
      BY <1>1, <2>2 DEF WriteData, DirZero, Goto, Phase
    <2> QED  BY <2>1, <2>2
  <1>7. got # 0  BY <1>1, Marks DEF IsCluster
  <1>8. Phase'
    BY <1>1, <1>3, <1>6, <1>7 DEF Phase
  <1> QED  BY <1>5, <1>8

(* The error path of mkdir gives back the only cell it took. *)
LEMMA GiveBackOwner ==
    ASSUME TypeOK, OneOwner(fat, Heads), Phase, MkdirDataError
    PROVE  OneOwner(fat', Heads') /\ Phase'
  <1>1. /\ pc = "data" /\ kind = "mkdir" /\ got = first /\ got \in Clusters
        /\ pc' = "idle" /\ walk' = 0 /\ first' = 0 /\ prev' = 0
        /\ name' = name /\ kind' = kind /\ dirent' = dirent
        /\ fat' = [fat EXCEPT ![got] = Free]
    BY DEF MkdirDataError, ClearLocals, Phase, IsCluster
  <1>2. \A n \in Names : EntryHead(n)' = EntryHead(n)
    BY <1>1 DEF EntryHead, Exists, Suspended
  <1>3. /\ "first" \in Roots /\ Heads["first"] = got
        /\ ~IsCluster(Heads'["first"]) /\ SameElse(Heads, Heads', "first")
    BY <1>1, <1>2, HeadsAt, HeadsAtNext, Marks DEF SameElse
  <1>4. /\ CellsOK(fat) /\ CellSet(fat, fat', Heads["first"], Free)
        /\ IsCluster(Heads["first"])
    BY <1>1, <1>3 DEF TypeOK, CellsOK, CellSet, IsCluster
  <1>5. OneOwner(fat', Heads')  BY <1>3, <1>4, OwnerFree
  <1> QED  BY <1>1, <1>5 DEF Phase

(* The entry takes over the finished chain. *)
LEMMA EntryOwner ==
    ASSUME TypeOK, OneOwner(fat, Heads), Phase, WriteEntry
    PROVE  OneOwner(fat', Heads') /\ Phase'
  <1>1. /\ pc = "entry" /\ pc' = "idle" /\ fat' = fat
        /\ walk' = 0 /\ first' = 0 /\ prev' = 0 /\ walk = 0
        /\ name' = name /\ kind' = kind /\ name \in Names
    BY DEF WriteEntry, Succeed, ClearLocals, Phase, TypeOK
  <1>2. /\ EntryHead(name)' = first
        /\ \A n \in Names \ {name} : EntryHead(n)' = EntryHead(n)
    BY <1>1 DEF WriteEntry, Entry, EntryHead, Exists, Suspended, TypeOK
  <1>3. /\ Heads'[name] = Heads["first"] /\ ~IsCluster(Heads'["first"])
        /\ \A r \in Roots \ {"first", name} :
             IsCluster(Heads'[r]) => Heads'[r] = Heads[r]
    BY <1>1, <1>2, HeadsAt, HeadsAtNext, Marks
  <1>4. "first" \in Roots /\ name \in Roots /\ name # "first"
    BY <1>1, HeadsAt
  <1>5. OneOwner(fat', Heads')  BY <1>1, <1>3, <1>4, OwnerMove
  <1> QED  BY <1>1, <1>5 DEF Phase

(* Every cluster has one owner at every point of every operation, through
   disk-full, failed writes and power loss, unless an entry was torn. *)
THEOREM OwnershipInvariant == Spec => []Ownership
  <1>1. Init => Ownership
    <2> SUFFICES ASSUME Init PROVE OneOwner(fat, Heads) /\ Phase
      BY DEF Ownership
    <2>1. \A n \in Names : EntryHead(n) = 0
      BY DEF Init, EntryHead, Exists, NoEntry
    <2>2. \A r \in Roots : IsCluster(Heads[r]) <=> r = "root"
      <3>1. walk = 0 /\ first = 0 /\ pc = "idle"  BY DEF Init
      <3> QED  BY <2>1, <3>1, HeadsAt, Marks
    <2>3. /\ Heads["root"] = RootClus
          /\ \A c \in Clusters : fat[c] = IF c = RootClus THEN Eoc ELSE Free
      BY HeadsAt DEF Init
    <2>4. OneOwner(fat, Heads)
      <3>1. \A c \in Clusters : fat[c] \in {Eoc, Free} /\ ~IsCluster(fat[c])
        BY <2>3, Marks
      <3>2. fat[RootClus] # Free  BY <2>3, Marks DEF IsCluster
      <3> QED  BY <2>2, <2>3, <3>1, <3>2, Marks DEF OneOwner
    <2>5. Phase  BY DEF Init, Phase
    <2> QED  BY <2>4, <2>5
  <1>2. TypeOK /\ Ownership /\ [Next]_vars => Ownership'
    <2> SUFFICES ASSUME TypeOK, Ownership, [Next]_vars, health' # "torn"
                 PROVE  OneOwner(fat', Heads') /\ Phase'
      BY DEF Ownership
    <2>1. health # "torn"
      BY DEF Next, Call, Step, CallWrite, CallAppend, CallCreate, CallMkdir,
         CallDelete, Begin, Refuse, FreeCell, FreeEnd, ResetEntry, FatAlloc,
         FatLink, DiskFull, WriteData, WriteDataError, MkdirDataError,
         WriteEntry, DirAlloc, DirFull, DirLink, DirZero, EntryError,
         LosePower, TakeCell, Goto, Succeed, Fail, Abandon, Loss, Torn, vars,
         hist
    <2>2. OneOwner(fat, Heads) /\ Phase  BY <2>1 DEF Ownership
    <2>3. CASE Call  BY <2>2, <2>3, CallOwner
    <2>4. CASE FreeCell \/ FreeEnd  BY <2>2, <2>4, FreeOwner
    <2>5. CASE ResetEntry  BY <2>2, <2>5, ResetOwner
    <2>6. CASE FatAlloc \/ DirAlloc  BY <2>2, <2>6, TakeOwner
    <2>7. CASE FatLink \/ DirLink  BY <2>2, <2>7, LinkOwner
    <2>8. CASE WriteData \/ DirZero  BY <2>2, <2>8, WriteOwner
    <2>9. CASE MkdirDataError  BY <2>2, <2>9, GiveBackOwner
    <2>10. CASE WriteEntry  BY <2>2, <2>10, EntryOwner
    <2>11. CASE DiskFull \/ DirFull \/ WriteDataError \/ EntryError \/ LosePower
      <3>1. Abandon /\ pc # "idle" /\ fat' = fat /\ dirent' = dirent
        BY <2>11 DEF DiskFull, DirFull, WriteDataError, EntryError, LosePower,
           Fail, disk
      <3>2. ~Torn  BY <3>1 DEF Abandon, Loss
      <3> QED  BY <2>2, <3>1, <3>2, AbandonOwner
    <2>12. CASE UNCHANGED vars
      BY <2>2, <2>12 DEF vars, Phase, Heads, EntryHead, Exists, Suspended
    <2> QED
      BY <2>3, <2>4, <2>5, <2>6, <2>7, <2>8, <2>9, <2>10, <2>11, <2>12
         DEF Next, Step
  <1> QED  BY <1>1, <1>2, TypeCorrect, PTL DEF Spec

(* Chains of two files, of a file and the directory, and the chain under
   construction or destruction never share a cluster. *)
THEOREM CrossLinkFree == Spec => []NoCrossLink
  <1>1. TypeOK /\ Ownership => NoCrossLink
    BY ReachDisjoint DEF Ownership, NoCrossLink
  <1> QED  BY <1>1, TypeCorrect, OwnershipInvariant, PTL

(* No entry and no chain leads to a cluster the allocator may hand out. *)
THEOREM DanglingFree == Spec => []NoDangling
  <1>1. TypeOK /\ Ownership => NoDangling
    BY ReachUsed DEF Ownership, NoDangling
  <1> QED  BY <1>1, TypeCorrect, OwnershipInvariant, PTL

(***************************************************************************)
(* No cluster is lost                                                      *)
(***************************************************************************)

(* Every cell in use lies in every set that holds the starts of chains and
   is closed under links: what NoLostCluster says, without naming the one
   chain that a cell is on. *)
Covers(F, H, S) == /\ \A r \in Roots : IsCluster(H[r]) => H[r] \in S
                   /\ \A x \in S : IsCluster(F[x]) => F[x] \in S
Covered(F, H) ==
    \A S \in SUBSET Clusters :
      Covers(F, H, S) => \A c \in Clusters : F[c] # Free => c \in S

(* The inductive invariant behind NoLostCluster. *)
NoneLost == health = "clean" => Covered(fat, Heads)

(* Every start of a chain in H is a start in G, perhaps at another root. *)
Keeps(H, G)      == \A r \in Roots : IsCluster(H[r]) => \E s \in Roots : G[s] = H[r]
KeepsBut(H, G, w) == \A r \in Roots \ {w} : IsCluster(H[r])
                                              => \E s \in Roots : G[s] = H[r]

(* No start is given up. *)
LEMMA CoverKeep ==
    ASSUME NEW F, NEW H, NEW G, Covered(F, H), Keeps(H, G)
    PROVE  Covered(F, G)
  <1> SUFFICES ASSUME NEW S \in SUBSET Clusters, Covers(F, G, S)
               PROVE  Covers(F, H, S)
    BY DEF Covered
  <1> QED  BY DEF Covers, Keeps, IsCluster

(* fat_free_chain: the cell at a root is freed; what followed is a start. *)
LEMMA CoverFree ==
    ASSUME NEW F, NEW E, NEW H, NEW G, NEW w \in Roots,
           Covered(F, H), IsCluster(H[w]), CellSet(F, E, H[w], Free),
           KeepsBut(H, G, w), IsCluster(F[H[w]]) => G[w] = F[H[w]]
    PROVE  Covered(E, G)
  <1> SUFFICES ASSUME NEW S \in SUBSET Clusters, Covers(E, G, S),
                      NEW c \in Clusters, E[c] # Free
               PROVE  c \in S
    BY DEF Covered
  <1> DEFINE T == S \cup {H[w]}
  <1>1. T \in SUBSET Clusters  BY DEF IsCluster
  <1>2. \A r \in Roots : IsCluster(H[r]) => H[r] \in T
    BY DEF Covers, KeepsBut
  <1>3. \A x \in T : IsCluster(F[x]) => F[x] \in T
    BY <1>1 DEF Covers, CellSet
  <1>4. c # H[w] /\ F[c] # Free  BY DEF CellSet
  <1>5. c \in T  BY <1>1, <1>2, <1>3, <1>4 DEF Covered, Covers
  <1> QED  BY <1>4, <1>5

(* fat_alloc marks a free cell, and a root starts there. *)
LEMMA CoverTake ==
    ASSUME NEW F, NEW E, NEW H, NEW G, NEW w \in Roots, NEW c \in Clusters,
           Covered(F, H), F[c] = Free, CellSet(F, E, c, Eoc),
           Keeps(H, G), G[w] = c
    PROVE  Covered(E, G)
  <1> SUFFICES ASSUME NEW S \in SUBSET Clusters, Covers(E, G, S),
                      NEW d \in Clusters, E[d] # Free
               PROVE  d \in S
    BY DEF Covered
  <1>1. \A r \in Roots : IsCluster(H[r]) => H[r] \in S
    BY DEF Covers, Keeps
  <1>2. \A x \in S : IsCluster(F[x]) => F[x] \in S
    BY Marks DEF Covers, CellSet
  <1>3. c \in S  BY DEF Covers, IsCluster
  <1>4. d = c \/ F[d] # Free  BY DEF CellSet
  <1> QED  BY <1>1, <1>2, <1>3, <1>4 DEF Covered, Covers

(* fat_alloc links the cell behind an end mark. *)
LEMMA CoverLink ==
    ASSUME NEW F, NEW E, NEW H, NEW G, NEW w \in Roots, NEW p \in Clusters,
           Covered(F, H), IsCluster(H[w]), p # H[w],
           F[p] = Eoc, F[H[w]] = Eoc, CellSet(F, E, p, H[w]),
           KeepsBut(H, G, w)
    PROVE  Covered(E, G)
  <1> SUFFICES ASSUME NEW S \in SUBSET Clusters, Covers(E, G, S),
                      NEW d \in Clusters, E[d] # Free
               PROVE  d \in S
    BY DEF Covered
  <1> DEFINE T == S \cup {H[w]}
  <1>1. T \in SUBSET Clusters  BY DEF IsCluster
  <1>2. \A r \in Roots : IsCluster(H[r]) => H[r] \in T
    BY DEF Covers, KeepsBut
  <1>3. \A x \in T : IsCluster(F[x]) => F[x] \in T
    BY <1>1, Marks DEF Covers, CellSet
  <1>4. \A x \in Clusters : F[x] # Free => x \in T
    BY <1>1, <1>2, <1>3 DEF Covered, Covers
  <1>5. p \in S  BY <1>4, Marks
  <1>6. E[p] = H[w]  BY DEF CellSet
  <1>7. H[w] \in S  BY <1>5, <1>6 DEF Covers
  <1>8. d # p => F[d] # Free  BY DEF CellSet
  <1> QED  BY <1>4, <1>5, <1>7, <1>8

(* With the set of all that is reached from some start, Covered is
   NoLostCluster. *)
LEMMA CoveredReaches ==
    ASSUME TypeOK, Covered(fat, Heads), NEW c \in Clusters, fat[c] # Free
    PROVE  \E r \in Roots : IsCluster(Heads[r]) /\ c \in Reach(Heads[r])
  <1> DEFINE S == {x \in Clusters :
                     \E r \in Roots : IsCluster(Heads[r]) /\ x \in Reach(Heads[r])}
  <1>1. \A r \in Roots : IsCluster(Heads[r]) => Heads[r] \in S
    BY ReachFacts DEF IsCluster
  <1>2. ASSUME NEW x \in S, IsCluster(fat[x]) PROVE fat[x] \in S
    <2>1. PICK r \in Roots : IsCluster(Heads[r]) /\ x \in Reach(Heads[r])
      OBVIOUS
    <2>2. Closed(Reach(Heads[r]))  BY <2>1, ReachFacts DEF IsCluster
    <2> QED  BY <1>2, <2>1, <2>2 DEF Closed, IsCluster
  <1>3. Covers(fat, Heads, S)  BY <1>1, <1>2 DEF Covers
  <1>4. S \in SUBSET Clusters  OBVIOUS
  <1>5. c \in S  BY <1>3, <1>4 DEF Covered
  <1> QED  BY <1>5

(* A call starts: the entry's chain stays with it or passes to walk. *)
LEMMA CallKeeps ==
    ASSUME TypeOK, Phase, Call
    PROVE  fat' = fat /\ Keeps(Heads, Heads')
  <1>0. /\ pc = "idle" /\ walk = 0 /\ first = 0 /\ fat' = fat
    BY DEF Call, CallWrite, CallAppend, CallCreate, CallMkdir, CallDelete,
       Begin, Refuse, disk, Phase
  <1>1. PICK n \in Names :
             \/ \E b \in Payloads : CallWrite(n, b) \/ CallAppend(n, b)
             \/ CallCreate(n) \/ CallMkdir(n) \/ CallDelete(n)
    BY DEF Call
  <1>2. \A m \in Names \ {n} : EntryHead(m)' = EntryHead(m)
    <2>1. CASE CallDelete(n)
      BY <1>0, <2>1 DEF CallDelete, Refuse, EntryHead, Exists, Suspended,
         disk, TypeOK
    <2>2. CASE ~CallDelete(n)
      <3>1. dirent' = dirent /\ name' = n
        BY <1>1, <2>2 DEF CallWrite, CallAppend, CallCreate, CallMkdir, Begin,
           Refuse, disk
      <3> QED  BY <1>0, <3>1 DEF EntryHead, Exists, Suspended
    <2> QED  BY <2>1, <2>2
  <1>3. EntryHead(n)' = EntryHead(n) \/ walk' = EntryHead(n)
    <2>1. ASSUME NEW k, Refuse(k, n) PROVE EntryHead(n)' = EntryHead(n)
      BY <1>0, <2>1 DEF Refuse, EntryHead, Exists, Suspended, disk
    <2>2. ASSUME Exists(n), walk' = dirent[n].cluster
          PROVE  walk' = EntryHead(n)
      BY <1>0, <2>2 DEF EntryHead, Exists, Suspended
    <2>3. ASSUME ~Exists(n), dirent' = dirent
          PROVE  EntryHead(n)' = EntryHead(n)
      BY <2>3 DEF EntryHead, Exists
    <2>4. CASE CallDelete(n)
      BY <2>1, <2>2, <2>4 DEF CallDelete
    <2>5. ASSUME NEW b, CallWrite(n, b) \/ CallAppend(n, b)
          PROVE  EntryHead(n)' = EntryHead(n) \/ walk' = EntryHead(n)
      BY <2>1, <2>2, <2>3, <2>5 DEF CallWrite, CallAppend, Begin, disk
    <2>6. CASE CallCreate(n) \/ CallMkdir(n)
      BY <2>1, <2>3, <2>6 DEF CallCreate, CallMkdir, Begin, disk
    <2> QED  BY <1>1, <2>4, <2>5, <2>6
  <1>4. ASSUME NEW r \in Roots, IsCluster(Heads[r])
        PROVE  \E s \in Roots : Heads'[s] = Heads[r]
    <2>1. CASE r \in Names \ {n}
      BY <1>2, <2>1, HeadsAt, HeadsAtNext
    <2>2. CASE r = n
      <3>1. CASE EntryHead(n)' = EntryHead(n)
        BY <2>2, <3>1, HeadsAt, HeadsAtNext
      <3>2. CASE walk' = EntryHead(n)
        BY <2>2, <3>2, HeadsAt, HeadsAtNext
      <3> QED  BY <1>3, <3>1, <3>2
    <2>3. CASE r = "root"  BY <2>3, HeadsAt, HeadsAtNext
    <2> QED  BY <1>0, <1>4, <2>1, <2>2, <2>3, HeadsAt, Marks
  <1> QED  BY <1>0, <1>4 DEF Keeps

(* A step changes an entry of its own only, and no name's suspension. *)
LEMMA OthersHeads ==
    ASSUME TypeOK, pc # "idle", name' = name, NEW n \in Names \ {name},
           dirent'[n] = dirent[n]
    PROVE  EntryHead(n)' = EntryHead(n) /\ EntryHead(n) = IF Exists(n)
                                          THEN dirent[n].cluster ELSE 0
  BY DEF EntryHead, Exists, Suspended

(* The steps that free a cell. *)
LEMMA FreeCovers ==
    ASSUME TypeOK, Phase, Covered(fat, Heads), FreeCell \/ MkdirDataError
    PROVE  Covered(fat', Heads')
  <1>1. /\ pc \in {"free", "data"} /\ dirent' = dirent /\ name' = name
        /\ name \in Names /\ EntryHead(name) = 0
        /\ pc' \notin {"link", "dlink"}
    BY DEF FreeCell, MkdirDataError, ClearLocals, Goto, Phase, TypeOK
  <1>2. \A n \in Names : IsCluster(EntryHead(n)) => EntryHead(n)' = EntryHead(n)
    BY <1>1, OthersHeads, Marks
  <1>3. CASE FreeCell
    <2>1. /\ IsCluster(walk) /\ fat' = [fat EXCEPT ![walk] = Free]
          /\ walk' = fat[walk] /\ first' = first /\ first = 0
      BY <1>3 DEF FreeCell, Goto, Phase
    <2>2. KeepsBut(Heads, Heads', "walk")
      BY <1>1, <1>2, <2>1, HeadsAt, HeadsAtNext, Marks DEF KeepsBut
    <2>3. /\ CellSet(fat, fat', Heads["walk"], Free) /\ "walk" \in Roots
          /\ IsCluster(Heads["walk"]) /\ Heads'["walk"] = fat[Heads["walk"]]
      BY <2>1, HeadsAt, HeadsAtNext DEF CellSet, TypeOK
    <2> QED  BY <2>2, <2>3, CoverFree
  <1>4. CASE MkdirDataError
    <2>1. /\ got = first /\ IsCluster(got) /\ fat[got] = Eoc /\ walk = 0
          /\ fat' = [fat EXCEPT ![got] = Free] /\ pc = "data"
      BY <1>4 DEF MkdirDataError, Phase
    <2>2. KeepsBut(Heads, Heads', "first")
      BY <1>1, <1>2, <2>1, HeadsAt, HeadsAtNext, Marks DEF KeepsBut
    <2>3. /\ CellSet(fat, fat', Heads["first"], Free) /\ "first" \in Roots
          /\ IsCluster(Heads["first"]) /\ ~IsCluster(fat[Heads["first"]])
      BY <2>1, HeadsAt, Marks DEF CellSet, TypeOK
    <2> QED  BY <2>2, <2>3, CoverFree
  <1> QED  BY <1>3, <1>4

(* fat_alloc marks a cell: first or got starts there. *)
LEMMA TakeCovers ==
    ASSUME TypeOK, Phase, Covered(fat, Heads), FatAlloc \/ DirAlloc
    PROVE  Covered(fat', Heads')
  <1>1. PICK c \in Clusters :
          /\ fat[c] = Free /\ fat' = [fat EXCEPT ![c] = Eoc] /\ got' = c
          /\ dirent' = dirent /\ walk' = walk /\ name' = name /\ walk = 0
          /\ \/ /\ pc = "alloc" /\ pc' = IF prev = 0 THEN "data" ELSE "link"
                /\ first' = IF first = 0 THEN c ELSE first
                /\ prev = 0 <=> first = 0
             \/ pc = "entry" /\ pc' = "dlink" /\ first' = first
    BY DEF FatAlloc, DirAlloc, TakeCell, IsFirstFree, FreeCells, Goto, Phase
  <1>2. name \in Names /\ EntryHead(name) = 0  BY <1>1 DEF Phase, TypeOK
  <1>3. \A n \in Names : IsCluster(EntryHead(n)) => EntryHead(n)' = EntryHead(n)
    BY <1>1, <1>2, OthersHeads, Marks
  <1>4. Keeps(Heads, Heads')
    BY <1>1, <1>3, HeadsAt, HeadsAtNext, Marks DEF Keeps
  <1>5. \E w \in {"first", "got"} : Heads'[w] = c
    BY <1>1, HeadsAtNext
  <1>6. CellSet(fat, fat', c, Eoc)  BY <1>1 DEF CellSet, TypeOK
  <1> QED  BY <1>1, <1>4, <1>5, <1>6, CoverTake, HeadsAt

(* fat_alloc links the cell. *)
LEMMA LinkCovers ==
    ASSUME TypeOK, Phase, Covered(fat, Heads), FatLink \/ DirLink
    PROVE  Covered(fat', Heads')
  <1>1. /\ pc \in {"link", "dlink"} /\ dirent' = dirent /\ name' = name
        /\ walk' = walk /\ first' = first /\ pc' \in {"data", "dzero"}
        /\ fat' = [fat EXCEPT ![prev] = got] /\ prev # got
        /\ prev \in Clusters /\ IsCluster(got) /\ fat[prev] = Eoc
        /\ fat[got] = Eoc /\ name \in Names /\ EntryHead(name) = 0
    BY DEF FatLink, DirLink, Goto, Phase, TypeOK, IsCluster
  <1>2. \A n \in Names : IsCluster(EntryHead(n)) => EntryHead(n)' = EntryHead(n)
    BY <1>1, OthersHeads, Marks
  <1>3. KeepsBut(Heads, Heads', "got")
    BY <1>1, <1>2, HeadsAt, HeadsAtNext, Marks DEF KeepsBut
  <1>4. Heads["got"] = got /\ "got" \in Roots  BY <1>1, HeadsAt
  <1>5. CellSet(fat, fat', prev, Heads["got"])
    BY <1>1, <1>4 DEF CellSet, TypeOK
  <1> QED  BY <1>1, <1>3, <1>4, <1>5, CoverLink

(* The steps that leave the table alone: no start of a chain is given up. *)
LEMMA EntryKeeps ==
    ASSUME TypeOK, Phase, pc # "idle",
           FreeEnd \/ ResetEntry \/ WriteData \/ DirZero \/ WriteEntry
    PROVE  fat' = fat /\ Keeps(Heads, Heads')
  <1>1. /\ fat' = fat /\ name' = name /\ name \in Names /\ EntryHead(name) = 0
        /\ pc \notin {"link", "dlink"} /\ ~IsCluster(walk)
    BY DEF FreeEnd, ResetEntry, WriteData, DirZero, WriteEntry, Goto, Succeed,
       ClearLocals, Phase, TypeOK, disk, IsCluster, Clusters
  <1>2. \A n \in Names \ {name} : dirent'[n] = dirent[n]
    BY DEF FreeEnd, ResetEntry, WriteData, DirZero, WriteEntry, TypeOK
  <1>3. \A n \in Names : IsCluster(EntryHead(n)) => EntryHead(n)' = EntryHead(n)
    BY <1>1, <1>2, OthersHeads, Marks
  <1>4. first' = first \/ first = 0 \/ EntryHead(name)' = first
    <2>1. CASE FreeEnd  BY <2>1 DEF FreeEnd, Phase
    <2>2. CASE WriteEntry
      BY <1>1, <2>2 DEF WriteEntry, Succeed, ClearLocals, Entry, EntryHead,
         Exists, Suspended, TypeOK
    <2>3. CASE ResetEntry \/ WriteData \/ DirZero
      BY <2>3 DEF ResetEntry, WriteData, DirZero
    <2> QED  BY <2>1, <2>2, <2>3
  <1>5. ASSUME NEW r \in Roots, IsCluster(Heads[r])
        PROVE  \E s \in Roots : Heads'[s] = Heads[r]
    <2>1. CASE r \in Names
      BY <1>3, <1>5, <2>1, HeadsAt, HeadsAtNext
    <2>2. CASE r = "root"  BY <2>2, HeadsAt, HeadsAtNext
    <2>3. CASE r = "first"
      <3>1. first # 0  BY <1>5, <2>3, HeadsAt, Marks
      <3>2. CASE first' = first  BY <2>3, <3>2, HeadsAt, HeadsAtNext
      <3>3. CASE EntryHead(name)' = first
        BY <1>1, <2>3, <3>3, HeadsAt, HeadsAtNext
      <3> QED  BY <1>4, <3>1, <3>2, <3>3
    <2> QED  BY <1>1, <1>5, <2>1, <2>2, <2>3, HeadsAt, Marks
  <1> QED  BY <1>1, <1>5 DEF Keeps

(* An operation is given up cleanly only when the entry names what walk or
   first hold, or when they hold nothing. *)
LEMMA AbandonKeeps ==
    ASSUME TypeOK, Phase, pc # "idle", Abandon, dirent' = dirent,
           Loss = "clean"
    PROVE  Keeps(Heads, Heads')
  <1>1. /\ pc' = "idle" /\ name' = name /\ name \in Names
        /\ EntryHead(name) = 0 /\ pc \notin {"link", "dlink"}
        /\ \A c \in {walk, first} : IsCluster(c) => Named(c)
    BY DEF Abandon, ClearLocals, Phase, TypeOK, Loss, Lost, Torn
  <1>2. \A n \in Names : IsCluster(EntryHead(n)) => EntryHead(n)' = EntryHead(n)
    BY <1>1, OthersHeads, Marks
  <1>3. \A c \in {walk, first} : IsCluster(c) => EntryHead(name)' = c
    BY <1>1 DEF Named, Suspended, EntryHead, Exists
  <1> QED
    BY <1>1, <1>2, <1>3, HeadsAt, HeadsAtNext, Marks DEF Keeps

(* Of the histories, only giving an operation up changes health. *)
LEMMA HealthChanges ==
    ASSUME Next, health' # health
    PROVE  Abandon /\ pc # "idle" /\ fat' = fat /\ dirent' = dirent
  BY DEF Next, Call, Step, CallWrite, CallAppend, CallCreate, CallMkdir,
     CallDelete, Begin, Refuse, FreeCell, FreeEnd, ResetEntry, FatAlloc,
     FatLink, DiskFull, WriteData, WriteDataError, MkdirDataError,
     WriteEntry, DirAlloc, DirFull, DirLink, DirZero, EntryError,
     LosePower, TakeCell, Goto, Succeed, Fail, hist, disk

(* While nothing went wrong, every cell in use is on some chain. *)
THEOREM NoneLostInvariant == Spec => []NoneLost
  <1>1. Init => NoneLost
    <2> SUFFICES ASSUME Init PROVE Covered(fat, Heads)  BY DEF NoneLost
    <2>1. Heads["root"] = RootClus /\ "root" \in Roots  BY HeadsAt
    <2>2. \A c \in Clusters : fat[c] # Free => c = RootClus  BY DEF Init
    <2> QED  BY <2>1, <2>2, Marks DEF Covered, Covers
  <1>2. TypeOK /\ Ownership /\ NoneLost /\ [Next]_vars => NoneLost'
    <2> SUFFICES ASSUME TypeOK, Ownership, NoneLost, [Next]_vars,
                        health' = "clean"
                 PROVE  Covered(fat', Heads')
      BY DEF NoneLost
    <2>1. ASSUME Next, health' # health  PROVE FALSE
      <3>1. Abandon /\ health' = Loss  BY <2>1, HealthChanges DEF Abandon
      <3>2. ~Torn /\ ~Lost  BY <3>1 DEF Loss
      <3>3. health # "torn" /\ health # "leaky"  BY <3>2 DEF Torn, Lost
      <3> QED  BY <2>1, <3>3 DEF TypeOK
    <2>2. health = "clean"  BY <2>1 DEF vars
    <2>3. Covered(fat, Heads) /\ Phase  BY <2>2 DEF NoneLost, Ownership
    <2>4. CASE Call  BY <2>3, <2>4, CallKeeps, CoverKeep
    <2>5. CASE FreeCell \/ MkdirDataError  BY <2>3, <2>5, FreeCovers
    <2>6. CASE FatAlloc \/ DirAlloc  BY <2>3, <2>6, TakeCovers
    <2>7. CASE FatLink \/ DirLink  BY <2>3, <2>7, LinkCovers
    <2>8. CASE FreeEnd \/ ResetEntry \/ WriteData \/ DirZero \/ WriteEntry
      <3>1. pc # "idle"
        BY <2>8 DEF FreeEnd, ResetEntry, WriteData, DirZero, WriteEntry
      <3> QED  BY <2>3, <2>8, <3>1, EntryKeeps, CoverKeep
    <2>9. CASE DiskFull \/ DirFull \/ WriteDataError \/ EntryError \/ LosePower
      <3>1. Abandon /\ pc # "idle" /\ fat' = fat /\ dirent' = dirent
        BY <2>9 DEF DiskFull, DirFull, WriteDataError, EntryError, LosePower,
           Fail, disk
      <3>2. Loss = "clean"  BY <3>1 DEF Abandon
      <3> QED  BY <2>3, <3>1, <3>2, AbandonKeeps, CoverKeep
    <2>10. CASE UNCHANGED vars
      <3>1. fat' = fat /\ Heads' = Heads
        BY <2>10 DEF vars, Heads, EntryHead, Exists, Suspended
      <3> QED  BY <2>3, <3>1
    <2> QED
      BY <2>4, <2>5, <2>6, <2>7, <2>8, <2>9, <2>10 DEF Next, Step
  <1> QED  BY <1>1, <1>2, TypeCorrect, OwnershipInvariant, PTL DEF Spec

(* As long as every call succeeds and power holds, no cluster is lost to the
   volume, whatever its size and however its files were written, rewritten,
   appended to and deleted. *)
THEOREM NothingLost == Spec => []NoLostCluster
  <1>1. TypeOK /\ NoneLost => NoLostCluster
    BY CoveredReaches DEF NoneLost, NoLostCluster
  <1> QED  BY <1>1, TypeCorrect, NoneLostInvariant, PTL

(***************************************************************************)
(* What a walk along a chain visits                                        *)
(***************************************************************************)

(* Reach, Chain and Content of a table F, contents D and an entry e, so that
   the state before a step can be compared with the state after it. *)
ClosedIn(F, S) == \A x \in S : IsCluster(F[x]) => F[x] \in S
ReachIn(F, c)  == {x \in Clusters : \A S \in SUBSET Clusters :
                                      c \in S /\ ClosedIn(F, S) => x \in S}
WalkOf(F, c, at) ==
    at = [k \in 0 .. NumClusters |->
            IF k = 0 THEN c
            ELSE LET p == at[k - 1] IN IF IsCluster(p) THEN F[p] ELSE p]
TheWalk(F, c) == CHOOSE at : WalkOf(F, c, at)
Visited(at)   == {k \in 0 .. NumClusters - 1 : IsCluster(at[k])}
ChainOf(at)   == [k \in 1 .. Cardinality(Visited(at)) |-> at[k - 1]]
ReadOf(D, ch, all) ==
    all = [k \in 0 .. Len(ch) |-> IF k = 0 THEN <<>> ELSE all[k - 1] \o D[ch[k]]]
TheRead(D, ch) == CHOOSE all : ReadOf(D, ch, all)
UnitsOf(D, ch, s) ==
    LET bytes == TheRead(D, ch)[Len(ch)]
    IN  SubSeq(bytes, 1, IF s < Len(bytes) THEN s ELSE Len(bytes))
ContentOf(F, D, e) ==
    CASE ~e.used -> Absent
      [] e.used /\ e.dir /\ IsCluster(e.cluster) -> D[e.cluster]
      [] OTHER -> UnitsOf(D, ChainOf(TheWalk(F, e.cluster)), e.size)

LEMMA ReachIs ==
    ASSUME NEW c PROVE Reach(c) = ReachIn(fat, c) /\ Reach(c)' = ReachIn(fat', c)
  BY DEF Reach, ReachIn, Closed, ClosedIn

LEMMA ContentIs ==
    ASSUME NEW n
    PROVE  /\ Content(n) = ContentOf(fat, data, dirent[n])
           /\ Content(n)' = ContentOf(fat', data', dirent'[n])
  <1>1. Content(n) = ContentOf(fat, data, dirent[n])
    BY Zenon DEF Content, ContentOf, Exists, ReadUnits, Chain, UnitsOf, TheRead, ReadOf,
       ChainOf, TheWalk, WalkOf, Visited
  <1>2. Content(n)' = ContentOf(fat', data', dirent'[n])
    BY Zenon DEF Content, ContentOf, Exists, ReadUnits, Chain, UnitsOf, TheRead, ReadOf,
       ChainOf, TheWalk, WalkOf, Visited
  <1> QED  BY <1>1, <1>2

(* What ReachFacts says, for any table. *)
LEMMA ReachInFacts ==
    ASSUME NEW F, NEW c \in Clusters
    PROVE  /\ c \in ReachIn(F, c) /\ ReachIn(F, c) \subseteq Clusters
           /\ ClosedIn(F, ReachIn(F, c))
           /\ \A S \in SUBSET Clusters : c \in S /\ ClosedIn(F, S)
                                           => ReachIn(F, c) \subseteq S
  <1>1. c \in ReachIn(F, c) /\ ReachIn(F, c) \subseteq Clusters  BY DEF ReachIn
  <1>2. ClosedIn(F, ReachIn(F, c))
    <2> SUFFICES ASSUME NEW x \in ReachIn(F, c), IsCluster(F[x]),
                        NEW S \in SUBSET Clusters, c \in S, ClosedIn(F, S)
                 PROVE  F[x] \in S
      BY DEF ClosedIn, ReachIn, IsCluster
    <2> QED  BY DEF ClosedIn, ReachIn
  <1> QED  BY <1>1, <1>2 DEF ReachIn

(* A cell that led nowhere is written: chains only get longer, and one that
   ran into the cell now goes on. *)
LEMMA ReachGrows ==
    ASSUME NEW F, NEW E, NEW c \in Clusters, NEW p \in Clusters, NEW v,
           CellSet(F, E, p, v), ~IsCluster(F[p])
    PROVE  /\ ReachIn(F, c) \subseteq ReachIn(E, c)
           /\ IsCluster(v) /\ p \in ReachIn(F, c) => v \in ReachIn(E, c)
  <1> DEFINE R == ReachIn(E, c)
  <1>1. c \in R /\ R \in SUBSET Clusters /\ ClosedIn(E, R)  BY ReachInFacts
  <1>2. ClosedIn(F, R)  BY <1>1 DEF ClosedIn, CellSet
  <1>3. ReachIn(F, c) \subseteq R  BY <1>1, <1>2, ReachInFacts
  <1>4. E[p] = v  BY DEF CellSet
  <1> QED  BY <1>1, <1>3, <1>4 DEF ClosedIn

(* A cell is written that is off the chain, or its new value leads nowhere:
   the chain gets no longer. *)
LEMMA ReachShrinks ==
    ASSUME NEW F, NEW E, NEW c \in Clusters, NEW p \in Clusters, NEW v,
           CellSet(F, E, p, v), ~IsCluster(v) \/ p \notin ReachIn(F, c)
    PROVE  ReachIn(E, c) \subseteq ReachIn(F, c)
  <1> DEFINE R == ReachIn(F, c)
  <1>1. c \in R /\ R \in SUBSET Clusters /\ ClosedIn(F, R)  BY ReachInFacts
  <1>2. ClosedIn(E, R)  BY <1>1 DEF ClosedIn, CellSet
  <1> QED  BY <1>1, <1>2, ReachInFacts

(* A last cell is linked: the chain gets it and nothing else. *)
LEMMA ReachLinks ==
    ASSUME NEW F, NEW E, NEW c \in Clusters, NEW p \in Clusters,
           NEW g \in Clusters, CellSet(F, E, p, g), ~IsCluster(F[g]), p # g
    PROVE  ReachIn(E, c) \subseteq ReachIn(F, c) \cup {g}
  <1> DEFINE R == ReachIn(F, c) \cup {g}
  <1>1. c \in R /\ R \in SUBSET Clusters  BY ReachInFacts
  <1>2. ClosedIn(E, R)
    <2> SUFFICES ASSUME NEW x \in R, IsCluster(E[x]) PROVE E[x] \in R
      BY DEF ClosedIn
    <2>1. x \in Clusters  BY <1>1
    <2>2. CASE x = p  BY <2>1, <2>2 DEF CellSet
    <2>3. CASE x # p
      <3>1. E[x] = F[x]  BY <2>1, <2>3 DEF CellSet
      <3>2. x \in ReachIn(F, c)  BY <3>1
      <3> QED  BY <3>1, <3>2, ReachInFacts DEF ClosedIn
    <2> QED  BY <2>2, <2>3
  <1> QED  BY <1>1, <1>2, ReachInFacts

(* A walk along a chain stays on it, in every table that agrees on it. *)
LEMMA WalkStays ==
    ASSUME NEW F, NEW c, NEW V \in SUBSET Clusters,
           c \in V \/ ~IsCluster(c), ClosedIn(F, V),
           NEW at, WalkOf(F, c, at)
    PROVE  \A k \in 0 .. NumClusters : at[k] \in V \/ ~IsCluster(at[k])
  <1> DEFINE Off == {k \in 0 .. NumClusters : at[k] \notin V /\ IsCluster(at[k])}
  <1>0. NumClusters \in Nat  BY Fat32Assumption DEF Fat32Assumption
  <1>1. \A k \in 0 .. NumClusters :
          at[k] = IF k = 0 THEN c
                  ELSE IF IsCluster(at[k - 1]) THEN F[at[k - 1]] ELSE at[k - 1]
    BY DEF WalkOf
  <1>2. SUFFICES ASSUME Off # {} PROVE FALSE  OBVIOUS
  <1>3. PICK k \in Off : \A j \in Off : <<j, k>> \notin OpToRel(<, Nat)
    <2>1. Off \subseteq Nat  BY <1>0
    <2> HIDE DEF Off
    <2> QED  BY <1>2, <2>1, NatLessThanWellFounded, WFMin
  <1>4. OpToRel(<, Nat) = {ss \in Nat \X Nat : ss[1] < ss[2]}
    BY Zenon DEF OpToRel
  <1>5. k # 0  BY <1>0, <1>1
  <1>6. k - 1 \in 0 .. NumClusters /\ k - 1 \in Nat /\ k - 1 < k /\ k \in Nat
    BY <1>0, <1>5
  <1>7. k - 1 \notin Off
    <2> HIDE DEF Off
    <2> QED  BY <1>3, <1>4, <1>6
  <1>8. at[k - 1] \in V \/ ~IsCluster(at[k - 1])  BY <1>6, <1>7
  <1>9. at[k] \in V \/ ~IsCluster(at[k])
    BY <1>1, <1>5, <1>8 DEF ClosedIn, IsCluster
  <1> QED  BY <1>9

(* The recursive definition of a walk has a solution. *)
LEMMA WalkExists ==
    ASSUME NEW F, NEW c
    PROVE  WalkOf(F, c, TheWalk(F, c))
  <1> DEFINE To(m, f) ==
               f = [k \in 0 .. m |->
                      IF k = 0 THEN c
                      ELSE LET p == f[k - 1] IN IF IsCluster(p) THEN F[p] ELSE p]
             None == {m \in Nat : \A f : ~To(m, f)}
  <1>0. NumClusters \in Nat  BY Fat32Assumption DEF Fat32Assumption
  <1>1. ASSUME None # {} PROVE FALSE
    <2>1. PICK m \in None : \A j \in None : <<j, m>> \notin OpToRel(<, Nat)
      <3>1. None \subseteq Nat  OBVIOUS
      <3> HIDE DEF None
      <3> QED  BY <1>1, <3>1, NatLessThanWellFounded, WFMin
    <2>2. OpToRel(<, Nat) = {ss \in Nat \X Nat : ss[1] < ss[2]}
      BY Zenon DEF OpToRel
    <2>3. CASE m = 0
      <3> DEFINE g == [k \in 0 .. 0 |-> c]
      <3>1. To(0, g)  OBVIOUS
      <3> QED  BY <2>3, <3>1
    <2>4. CASE m # 0
      <3>1. m - 1 \in Nat /\ m - 1 < m /\ m \in Nat  BY <2>4
      <3>2. m - 1 \notin None
        <4> HIDE DEF None
        <4> QED  BY <2>1, <2>2, <3>1
      <3>3. PICK f : To(m - 1, f)  BY <3>1, <3>2
      <3>4. \A k \in 0 .. m - 1 :
              f[k] = IF k = 0 THEN c
                     ELSE IF IsCluster(f[k - 1]) THEN F[f[k - 1]] ELSE f[k - 1]
        BY <3>3
      <3> DEFINE g == [k \in 0 .. m |->
                         IF k = m THEN IF IsCluster(f[m - 1]) THEN F[f[m - 1]]
                                       ELSE f[m - 1]
                         ELSE f[k]]
      <3>5. ASSUME NEW k \in 0 .. m
            PROVE  g[k] = IF k = 0 THEN c
                          ELSE IF IsCluster(g[k - 1]) THEN F[g[k - 1]] ELSE g[k - 1]
        <4>1. CASE k = m
          <5>1. g[k] = IF IsCluster(f[m - 1]) THEN F[f[m - 1]] ELSE f[m - 1]
            BY <4>1
          <5>2. g[k - 1] = f[m - 1] /\ k # 0  BY <4>1, <2>4, <3>1
          <5> QED  BY <4>1, <5>1, <5>2
        <4>2. CASE k # m
          <5>1. k \in 0 .. m - 1  BY <4>2, <3>1
          <5>2. g[k] = f[k]  BY <4>2
          <5>3. k # 0 => g[k - 1] = f[k - 1]  BY <3>1, <5>1
          <5> QED  BY <3>4, <5>1, <5>2, <5>3
        <4> QED  BY <4>1, <4>2
      <3>6. g = [k \in 0 .. m |-> g[k]]  OBVIOUS
      <3> HIDE DEF g
      <3>7. To(m, g)  BY <3>5, <3>6
      <3> QED  BY <3>1, <3>7
    <2> QED  BY <2>3, <2>4
  <1>2. \E at : WalkOf(F, c, at)
    <2>1. NumClusters \notin None
      <3> HIDE DEF None
      <3> QED  BY <1>1
    <2>2. PICK f : To(NumClusters, f)  BY <1>0, <2>1
    <2> QED  BY <2>2 DEF WalkOf
  <1> QED  BY <1>2, Zenon DEF TheWalk

(* The clusters a walk from c may visit. *)
Visits(F, c) == IF IsCluster(c) THEN ReachIn(F, c) ELSE {}

LEMMA VisitsFacts ==
    ASSUME NEW F, NEW c
    PROVE  /\ Visits(F, c) \in SUBSET Clusters
           /\ c \in Visits(F, c) \/ ~IsCluster(c)
           /\ ClosedIn(F, Visits(F, c))
  BY ReachInFacts DEF Visits, ClosedIn, IsCluster

(* Two tables that agree on a chain are walked alike. *)
LEMMA SameWalk ==
    ASSUME NEW F, NEW E, NEW c, \A x \in Visits(F, c) : E[x] = F[x]
    PROVE  TheWalk(E, c) = TheWalk(F, c)
  <1> DEFINE V == Visits(F, c)
  <1>1. /\ V \in SUBSET Clusters /\ (c \in V \/ ~IsCluster(c))
        /\ ClosedIn(F, V) /\ ClosedIn(E, V)
    BY VisitsFacts DEF ClosedIn
  <1>2. \A x \in V : E[x] = F[x]  OBVIOUS
  <1>0. NumClusters \in Nat  BY Fat32Assumption DEF Fat32Assumption
  <1> HIDE DEF V
  <1>3. ASSUME NEW at, \A k \in 0 .. NumClusters : at[k] \in V \/ ~IsCluster(at[k])
        PROVE  WalkOf(F, c, at) <=> WalkOf(E, c, at)
    <2>1. \A k \in 0 .. NumClusters : k # 0 /\ IsCluster(at[k - 1])
                                        => E[at[k - 1]] = F[at[k - 1]]
      BY <1>0, <1>2, <1>3
    <2> QED  BY <2>1 DEF WalkOf
  <1>4. ASSUME NEW at PROVE WalkOf(F, c, at) <=> WalkOf(E, c, at)
    <2>1. ASSUME NEW G, ClosedIn(G, V), WalkOf(G, c, at)
          PROVE  \A k \in 0 .. NumClusters : at[k] \in V \/ ~IsCluster(at[k])
      BY <1>1, <2>1, WalkStays
    <2> QED  BY <1>1, <1>3, <2>1
  <1> QED  BY <1>4 DEF TheWalk

(* The chain is made of clusters that the walk visits. *)
LEMMA ChainVisits ==
    ASSUME NEW F, NEW c
    PROVE  LET ch == ChainOf(TheWalk(F, c))
           IN  /\ Len(ch) \in Nat
               /\ \A k \in 1 .. Len(ch) : ch[k] \in Visits(F, c)
  <1> DEFINE at == TheWalk(F, c)
             V  == Visits(F, c)
             K  == Visited(at)
             n  == Cardinality(K)
  <1>0. NumClusters \in Nat  BY Fat32Assumption DEF Fat32Assumption
  <1>1. WalkOf(F, c, at)  BY WalkExists
  <1>2. \A k \in 0 .. NumClusters : at[k] \in V \/ ~IsCluster(at[k])
    <2>1. V \in SUBSET Clusters /\ (c \in V \/ ~IsCluster(c)) /\ ClosedIn(F, V)
      BY VisitsFacts
    <2> HIDE DEF V, at
    <2> QED  BY <1>1, <2>1, WalkStays
  <1>3. \A k \in 0 .. NumClusters :
          at[k] = IF k = 0 THEN c
                  ELSE IF IsCluster(at[k - 1]) THEN F[at[k - 1]] ELSE at[k - 1]
    <2> HIDE DEF at
    <2> QED  BY <1>1 DEF WalkOf
  <1> HIDE DEF at, V
  <1>4. K \subseteq 0 .. NumClusters - 1 /\ IsFiniteSet(K) /\ n \in Nat
        /\ n <= NumClusters
    <2>1. K \subseteq 0 .. NumClusters - 1  BY DEF Visited
    <2>2. IsFiniteSet(0 .. NumClusters - 1)
          /\ Cardinality(0 .. NumClusters - 1) = NumClusters
      BY <1>0, FS_Interval
    <2> HIDE DEF K
    <2> QED  BY <1>0, <2>1, <2>2, FS_Subset, FS_CardinalityType
  <1>5. ASSUME NEW k \in 1 .. n PROVE IsCluster(at[k - 1])
    <2> SUFFICES ASSUME ~IsCluster(at[k - 1]) PROVE FALSE  OBVIOUS
    <2> DEFINE On == {j \in k - 1 .. NumClusters : IsCluster(at[j])}
    <2>0. k \in Nat /\ k >= 1 /\ k <= n /\ k <= NumClusters
      <3> HIDE DEF n
      <3> QED  BY <1>0, <1>4
    <2>1. ASSUME On # {} PROVE FALSE
      <3>1. PICK j \in On : \A i \in On : <<i, j>> \notin OpToRel(<, Nat)
        <4>1. On \subseteq Nat  BY <1>0, <2>0
        <4> HIDE DEF On
        <4> QED  BY <2>1, <4>1, NatLessThanWellFounded, WFMin
      <3>2. OpToRel(<, Nat) = {ss \in Nat \X Nat : ss[1] < ss[2]}
        BY Zenon DEF OpToRel
      <3>3. j # k - 1 /\ IsCluster(at[j]) /\ j \in k - 1 .. NumClusters  OBVIOUS
      <3>4. j - 1 \in k - 1 .. NumClusters /\ j - 1 \in Nat /\ j \in Nat /\ j - 1 < j
            /\ j # 0
        BY ONLY <1>0, <2>0, <3>3
      <3>5. j - 1 \notin On
        <4> HIDE DEF On
        <4> QED  BY <3>1, <3>2, <3>4
      <3>6. ~IsCluster(at[j - 1])  BY <3>4, <3>5
      <3>7. j \in 0 .. NumClusters  BY ONLY <1>0, <2>0, <3>3, <3>4
      <3>8. at[j] = at[j - 1]  BY <1>3, <3>4, <3>6, <3>7
      <3> QED  BY <3>3, <3>6, <3>8
    <2>2. K \subseteq 0 .. k - 2
      <3> SUFFICES ASSUME NEW i \in K PROVE i \in 0 .. k - 2  OBVIOUS
      <3>1. i \in 0 .. NumClusters - 1 /\ IsCluster(at[i])  BY DEF Visited
      <3>2. i \notin k - 1 .. NumClusters
        <4>1. i \notin On
          <5> HIDE DEF On
          <5> QED  BY <2>1
        <4> QED  BY <3>1, <4>1
      <3> QED  BY ONLY <1>0, <2>0, <3>1, <3>2
    <2>3. IsFiniteSet(0 .. k - 2) /\ Cardinality(0 .. k - 2) = k - 1
      <3>1. PICK b \in Int : b = k - 2  BY <2>0
      <3>2. IsFiniteSet(0 .. b)
            /\ Cardinality(0 .. b) = IF 0 > b THEN 0 ELSE b - 0 + 1
        BY <3>1, FS_Interval
      <3>3. (IF 0 > b THEN 0 ELSE b - 0 + 1) = k - 1  BY ONLY <2>0, <3>1, b \in Int
      <3> QED  BY <3>1, <3>2, <3>3
    <2>4. n <= k - 1
      <3> HIDE DEF K
      <3> QED  BY <2>2, <2>3, FS_Subset
    <2> HIDE DEF n
    <2> QED  BY <2>0, <2>4, <1>4
  <1>6. ChainOf(at) = [k \in 1 .. n |-> at[k - 1]]  BY DEF ChainOf
  <1>7. Len(ChainOf(at)) = n
    <2> DEFINE S == {at[k - 1] : k \in 1 .. n}
    <2>1. ChainOf(at) \in Seq(S)
      <3>1. ChainOf(at) \in [1 .. n -> S]  BY <1>6
      <3> HIDE DEF n, S
      <3> QED  BY <1>4, <3>1, SeqDef
    <2> HIDE DEF n, S
    <2> QED  BY <1>4, <1>6, <2>1, LenProperties
  <1>8. ASSUME NEW k \in 1 .. n PROVE ChainOf(at)[k] \in V
    <2>1. ChainOf(at)[k] = at[k - 1]  BY <1>6
    <2>2. k - 1 \in 0 .. NumClusters
      <3> HIDE DEF n
      <3> QED  BY <1>0, <1>4
    <2> QED  BY <1>2, <1>5, <2>1, <2>2
  <1> HIDE DEF n
  <1> QED  BY <1>4, <1>7, <1>8 DEF at, V

(* Contents that agree on a chain are read alike. *)
LEMMA SameRead ==
    ASSUME NEW D, NEW E, NEW ch, Len(ch) \in Nat,
           \A k \in 1 .. Len(ch) : D[ch[k]] = E[ch[k]]
    PROVE  TheRead(D, ch) = TheRead(E, ch)
  <1>1. ASSUME NEW all PROVE ReadOf(D, ch, all) <=> ReadOf(E, ch, all)
    <2>1. \A k \in 0 .. Len(ch) : k # 0 => D[ch[k]] = E[ch[k]]  OBVIOUS
    <2> QED  BY <2>1 DEF ReadOf
  <1> QED  BY <1>1 DEF TheRead

(* An entry reads the same on two disks that agree on its chain. *)
LEMMA SameContent ==
    ASSUME NEW F, NEW E, NEW D, NEW B, NEW e,
           \A x \in Visits(F, e.cluster) : F[x] = E[x] /\ D[x] = B[x]
    PROVE  ContentOf(F, D, e) = ContentOf(E, B, e)
  <1> DEFINE c  == e.cluster
             ch == ChainOf(TheWalk(F, c))
  <1>1. TheWalk(E, c) = TheWalk(F, c)  BY SameWalk
  <1>2. Len(ch) \in Nat /\ \A k \in 1 .. Len(ch) : ch[k] \in Visits(F, c)
    BY ChainVisits
  <1>3. TheRead(D, ch) = TheRead(B, ch)
    <2>1. \A k \in 1 .. Len(ch) : D[ch[k]] = B[ch[k]]  BY <1>2
    <2> HIDE DEF ch
    <2> QED  BY <1>2, <2>1, SameRead
  <1>4. IsCluster(c) => D[c] = B[c]  BY VisitsFacts
  <1>5. UnitsOf(D, ch, e.size) = UnitsOf(B, ch, e.size)
    <2> HIDE DEF ch
    <2> QED  BY <1>3, Zenon DEF UnitsOf
  <1>6. ChainOf(TheWalk(E, c)) = ch  BY <1>1
  <1> QED  BY <1>4, <1>5, <1>6 DEF ContentOf

(***************************************************************************)
(* The chain under construction and the directory                          *)
(***************************************************************************)

(* The cluster written next is on the chain that is being built, or on the
   directory's; so is the cell that the next one will be linked behind. *)
BuildInv ==
    health # "torn" =>
      /\ pc = "data" => got \in Reach(first)
      /\ pc \in {"alloc", "link"} /\ prev # 0 => prev \in Reach(first)
      /\ pc = "dlink" => prev \in DirClusters
      /\ pc = "dzero" => got \in DirClusters

(* Only a directory that is being enlarged holds what is not slots yet. *)
DirInv ==
    health # "torn" =>
      \A c \in DirClusters : data[c] = Dir \/ (pc = "dzero" /\ c = got)

(* Once torn, always torn. *)
LEMMA TornStays ==
    ASSUME [Next]_vars, health' # "torn"
    PROVE  health # "torn"
  <1>1. CASE health' = health  BY <1>1
  <1>2. CASE health' # health
    <2>1. Abandon  BY <1>2, HealthChanges DEF vars
    <2> QED  BY <2>1 DEF Abandon, Loss, Torn
  <1> QED  BY <1>1, <1>2

(* The steps that write no FAT cell. *)
LEMMA TableKept ==
    ASSUME [Next]_vars
    PROVE  \/ fat' = fat
           \/ FreeCell \/ FatAlloc \/ FatLink \/ MkdirDataError \/ DirAlloc
           \/ DirLink
  BY DEF Next, Call, Step, CallWrite, CallAppend, CallCreate, CallMkdir,
     CallDelete, Begin, Refuse, FreeEnd, ResetEntry, DiskFull, WriteData,
     WriteDataError, WriteEntry, DirFull, DirZero, EntryError, LosePower,
     vars, disk

(***************************************************************************)
(* Loops over chains end                                                   *)
(***************************************************************************)

(* fat_alloc has marked the cell that it goes on to link. *)
Marked == pc \in {"link", "dlink"} => IsCluster(got) /\ fat[got] = Eoc

(* A step that leaves the table alone, or that writes a mark into one cell,
   closes no cycle. *)
LEMMA MarkEnds ==
    ASSUME TypeOK, ChainsEnd, [Next]_vars, NEW c \in Clusters,
           NEW m \in {Free, Eoc},
           fat' = fat \/ fat' = [fat EXCEPT ![c] = m]
    PROVE  ChainsEnd'
  <1> SUFFICES ASSUME NEW S \in SUBSET Clusters, S # {}
               PROVE  \E d \in S : \/ fat'[d] \notin S
                                   \/ fat'[d] = d /\ health' = "torn"
    BY DEF ChainsEnd, Clusters
  <1>1. PICK d \in S : fat[d] \notin S \/ (fat[d] = d /\ health = "torn")
    BY DEF ChainsEnd
  <1>2. health = "torn" => health' = "torn"  BY TornStays
  <1>3. CASE fat' = fat  BY <1>1, <1>2, <1>3
  <1>4. CASE fat' = [fat EXCEPT ![c] = m]
    <2>1. \A x \in Clusters : fat'[x] = IF x = c THEN m ELSE fat[x]
      BY <1>4 DEF TypeOK
    <2>2. m \notin S  BY Marks DEF IsCluster
    <2>3. CASE c \in S  BY <2>1, <2>2, <2>3
    <2>4. CASE c \notin S  BY <1>1, <1>2, <2>1, <2>4
    <2> QED  BY <2>3, <2>4
  <1> QED  BY <1>3, <1>4

(* Linking the cell just marked closes no cycle but that of the cell with
   itself, and that only where the volume is torn already. *)
LEMMA LinkEnds ==
    ASSUME TypeOK, Ownership, ChainsEnd, Marked, [Next]_vars,
           FatLink \/ DirLink
    PROVE  ChainsEnd'
  <1>1. /\ pc \in {"link", "dlink"} /\ fat' = [fat EXCEPT ![prev] = got]
        /\ got \in Clusters /\ fat[got] = Eoc
    BY DEF FatLink, DirLink, Marked, IsCluster
  <1>2. health = "torn" => health' = "torn"  BY TornStays
  <1>3. prev # got \/ health = "torn"  BY <1>1 DEF Ownership, Phase
  <1>4. \A x \in Clusters : fat'[x] = IF x = prev THEN got ELSE fat[x]
    BY <1>1 DEF TypeOK
  <1> SUFFICES ASSUME NEW S \in SUBSET Clusters, S # {}
               PROVE  \E d \in S : \/ fat'[d] \notin S
                                   \/ fat'[d] = d /\ health' = "torn"
    BY DEF ChainsEnd, Clusters
  <1>5. CASE prev = got /\ prev \in S
    BY <1>2, <1>3, <1>4, <1>5
  <1>6. CASE prev # got /\ got \in S
    <2>1. fat'[got] = Eoc  BY <1>1, <1>4, <1>6
    <2>2. Eoc \notin S  BY Marks DEF IsCluster
    <2> QED  BY <1>6, <2>1, <2>2
  <1>7. CASE got \notin S /\ prev \in S
    BY <1>4, <1>7
  <1>8. CASE prev \notin S
    <2>1. PICK d \in S : fat[d] \notin S \/ (fat[d] = d /\ health = "torn")
      BY DEF ChainsEnd
    <2>2. fat'[d] = fat[d]  BY <1>4, <1>8, <2>1
    <2> QED  BY <1>2, <2>1, <2>2
  <1> QED  BY <1>5, <1>6, <1>7, <1>8

(* No cycle ever forms in the FAT of a volume of any size, so the loops over
   chains end; on a torn one a directory's last cluster may be linked behind
   itself, and nothing else. *)
THEOREM NoCycles == Spec => []ChainsEnd
  <1>1. Init => ChainsEnd /\ Marked
    <2> SUFFICES ASSUME Init PROVE ChainsEnd /\ Marked  OBVIOUS
    <2>1. \A x \in Clusters : fat[x] \in {Free, Eoc}  BY DEF Init
    <2>2. \A x \in Clusters : fat[x] \notin Clusters
      BY <2>1, Marks DEF IsCluster
    <2> QED  BY <2>2 DEF Init, ChainsEnd, Marked
  <1>2. TypeOK /\ Ownership /\ ChainsEnd /\ Marked /\ [Next]_vars
          => ChainsEnd' /\ Marked'
    <2> SUFFICES ASSUME TypeOK, Ownership, ChainsEnd, Marked, [Next]_vars
                 PROVE  ChainsEnd' /\ Marked'
      OBVIOUS
    <2>1. ChainsEnd'
      <3>1. CASE fat' = fat
        BY <3>1, MarkEnds, Marks DEF IsCluster
      <3>2. CASE FreeCell
        BY <3>2, MarkEnds DEF FreeCell, IsCluster
      <3>3. CASE FatAlloc \/ DirAlloc
        BY <3>3, MarkEnds DEF FatAlloc, DirAlloc, TakeCell
      <3>4. CASE MkdirDataError
        <4>1. CASE got \in Clusters
          BY <3>4, <4>1, MarkEnds DEF MkdirDataError
        <4>2. CASE got \notin Clusters
          <5>1. fat' = fat  BY <3>4, <4>2 DEF MkdirDataError, TypeOK
          <5> QED  BY <3>1, <5>1
        <4> QED  BY <4>1, <4>2
      <3>5. CASE FatLink \/ DirLink  BY <3>5, LinkEnds
      <3> QED  BY <3>1, <3>2, <3>3, <3>4, <3>5, TableKept
    <2>2. Marked'
      <3>1. CASE FatAlloc \/ DirAlloc
        BY <3>1 DEF FatAlloc, DirAlloc, TakeCell, Marked, IsCluster, TypeOK
      <3>2. CASE pc' = pc /\ got' = got /\ fat' = fat
        BY <3>2 DEF Marked
      <3>3. CASE pc' \notin {"link", "dlink"}
        BY <3>3 DEF Marked
      <3>4. \/ FatAlloc \/ DirAlloc
            \/ pc' = pc /\ got' = got /\ fat' = fat
            \/ pc' \notin {"link", "dlink"}
        BY DEF Next, Call, Step, CallWrite, CallAppend, CallCreate, CallMkdir,
           CallDelete, Begin, Refuse, AfterSetup, FreeCell, FreeEnd, ResetEntry,
           FatLink, DiskFull, WriteData, WriteDataError, MkdirDataError,
           WriteEntry, DirFull, DirLink, DirZero, EntryError, LosePower, Goto,
           Succeed, Fail, Abandon, ClearLocals, vars, disk
      <3> QED  BY <3>1, <3>2, <3>3, <3>4
    <2> QED  BY <2>1, <2>2
  <1> QED
    BY <1>1, <1>2, TypeCorrect, OwnershipInvariant, PTL DEF Spec

(***************************************************************************)
(* The chain under construction                                            *)
(***************************************************************************)

LEMMA BuildInit == Init => BuildInv
  BY DEF Init, BuildInv

LEMMA BuildStep ==
    ASSUME TypeOK, Ownership, BuildInv, [Next]_vars, health' # "torn"
    PROVE  /\ pc' = "data" => got' \in Reach(first)'
           /\ pc' \in {"alloc", "link"} /\ prev' # 0 => prev' \in Reach(first)'
           /\ pc' = "dlink" => prev' \in DirClusters'
           /\ pc' = "dzero" => got' \in DirClusters'
  <1> DEFINE Goal == /\ pc' = "data" => got' \in ReachIn(fat', first')
                     /\ pc' \in {"alloc", "link"} /\ prev' # 0
                          => prev' \in ReachIn(fat', first')
                     /\ pc' = "dlink" => prev' \in ReachIn(fat', RootClus)
                     /\ pc' = "dzero" => got' \in ReachIn(fat', RootClus)
  <1> SUFFICES Goal
    <2>1. /\ Reach(first)' = ReachIn(fat', first')
          /\ DirClusters' = ReachIn(fat', RootClus)
      BY DEF Reach, ReachIn, Closed, ClosedIn, DirClusters, RootClus
    <2> QED  BY <2>1
  <1>1. health # "torn"  BY TornStays
  <1>2. /\ OneOwner(fat, Heads) /\ Phase
        /\ pc = "data" => got \in ReachIn(fat, first)
        /\ pc \in {"alloc", "link"} /\ prev # 0 => prev \in ReachIn(fat, first)
        /\ pc = "dlink" => prev \in ReachIn(fat, RootClus)
        /\ pc = "dzero" => got \in ReachIn(fat, RootClus)
    BY <1>1, ReachIs DEF Ownership, BuildInv, DirClusters
  <1>3. RootClus \in Clusters /\ (first # 0 => first \in Clusters)
    BY Marks DEF TypeOK, IsCluster
  <1>4. CASE Call
    <2>1. pc' \in {"idle", "free", "entry", "alloc"} /\ prev' = 0
      BY <1>2, <1>4 DEF Call, CallWrite, CallAppend, CallCreate, CallMkdir,
         CallDelete, Begin, Refuse, AfterSetup, Phase
    <2> QED  BY <2>1
  <1>5. CASE FreeCell \/ FreeEnd \/ ResetEntry
    <2>1. pc' \in {"idle", "free", "reset", "entry", "alloc"} /\ prev' = 0
      BY <1>2, <1>5 DEF FreeCell, FreeEnd, ResetEntry, Goto, Succeed,
         ClearLocals, AfterSetup, Phase
    <2> QED  BY <2>1
  <1>6. CASE FatAlloc \/ DirAlloc
    <2>1. PICK c \in Clusters :
            /\ fat[c] = Free /\ fat' = [fat EXCEPT ![c] = Eoc] /\ got' = c
            /\ \/ /\ pc = "alloc" /\ pc' = IF prev = 0 THEN "data" ELSE "link"
                  /\ first' = (IF first = 0 THEN c ELSE first) /\ prev' = prev
                  /\ prev = 0 <=> first = 0
               \/ /\ pc = "entry" /\ pc' = "dlink"
                  /\ prev' \in ReachIn(fat, RootClus)
      BY <1>2, <1>6, ReachIs DEF FatAlloc, DirAlloc, TakeCell, IsFirstFree,
         FreeCells, Goto, Phase, IsDirTail, DirClusters
    <2>2. CellSet(fat, fat', c, Eoc) /\ ~IsCluster(fat[c])
      BY <2>1, Marks DEF CellSet, TypeOK
    <2>3. \A d \in Clusters : ReachIn(fat, d) \subseteq ReachIn(fat', d)
      BY <2>2, ReachGrows
    <2>4. c \in ReachIn(fat', c)  BY ReachInFacts
    <2> QED  BY <1>2, <1>3, <2>1, <2>3, <2>4
  <1>7. CASE FatLink \/ DirLink
    <2>1. /\ prev \in Clusters /\ IsCluster(got) /\ fat[prev] = Eoc
          /\ fat' = [fat EXCEPT ![prev] = got] /\ got' = got /\ first' = first
          /\ \/ pc = "link" /\ pc' = "data" /\ prev # 0 /\ first # 0
             \/ pc = "dlink" /\ pc' = "dzero"
      BY <1>2, <1>7, Marks DEF FatLink, DirLink, Goto, Phase, IsCluster
    <2>2. CellSet(fat, fat', prev, got) /\ ~IsCluster(fat[prev])
      BY <2>1, Marks DEF CellSet, TypeOK
    <2>3. \A d \in Clusters : prev \in ReachIn(fat, d) => got \in ReachIn(fat', d)
      BY <2>1, <2>2, ReachGrows
    <2> QED  BY <1>2, <1>3, <2>1, <2>3
  <1>8. CASE WriteData \/ DirZero
    <2>1. fat' = fat /\ first' = first /\ pc' \in {"entry", "alloc"}
          /\ (pc' = "alloc" => pc = "data" /\ prev' = got)
      BY <1>8 DEF WriteData, DirZero, Goto
    <2> QED  BY <1>2, <2>1
  <1>9. CASE MkdirDataError \/ WriteEntry \/ DiskFull \/ DirFull
             \/ WriteDataError \/ EntryError \/ LosePower
    <2>1. pc' = "idle"
      BY <1>9 DEF MkdirDataError, WriteEntry, DiskFull, DirFull,
         WriteDataError, EntryError, LosePower, Fail, Abandon, Succeed,
         ClearLocals
    <2> QED  BY <2>1
  <1>10. CASE UNCHANGED vars
    BY <1>2, <1>10 DEF vars
  <1> QED
    BY <1>4, <1>5, <1>6, <1>7, <1>8, <1>9, <1>10 DEF Next, Step

(* Every write of a chain's cluster hits the chain under construction. *)
THEOREM BuildInvariant == Spec => []BuildInv
  <1>1. TypeOK /\ Ownership /\ BuildInv /\ [Next]_vars => BuildInv'
    BY BuildStep DEF BuildInv
  <1> QED  BY <1>1, BuildInit, TypeCorrect, OwnershipInvariant, PTL DEF Spec

(* The chain of the directory and the chain being built or freed are apart. *)
LEMMA DirApart ==
    ASSUME TypeOK, OneOwner(fat, Heads)
    PROVE  /\ IsCluster(walk) => walk \notin ReachIn(fat, RootClus)
           /\ IsCluster(first) => ReachIn(fat, first) \cap ReachIn(fat, RootClus) = {}
  <1>1. /\ Heads["walk"] = walk /\ Heads["first"] = first
        /\ Heads["root"] = RootClus /\ {"walk", "first", "root"} \subseteq Roots
        /\ IsCluster(RootClus)
    BY HeadsAt, Marks
  <1>2. IsCluster(walk) => ReachIn(fat, walk) \cap ReachIn(fat, RootClus) = {}
    BY <1>1, ReachDisjoint, ReachIs
  <1>3. IsCluster(first) => ReachIn(fat, first) \cap ReachIn(fat, RootClus) = {}
    BY <1>1, ReachDisjoint, ReachIs
  <1>4. IsCluster(walk) => walk \in ReachIn(fat, walk)
    BY ReachInFacts DEF IsCluster
  <1> QED  BY <1>2, <1>3, <1>4

LEMMA DirInit == Init => DirInv
  <1> SUFFICES ASSUME Init, NEW c \in DirClusters PROVE data[c] = Dir
    BY DEF DirInv
  <1>1. ClosedIn(fat, {RootClus})
    BY Marks DEF Init, ClosedIn, IsCluster
  <1>2. RootClus \in Clusters  BY Marks DEF IsCluster
  <1>3. ReachIn(fat, RootClus) \subseteq {RootClus}  BY <1>1, <1>2, ReachInFacts
  <1>4. c = RootClus  BY <1>3, ReachIs DEF DirClusters
  <1> QED  BY <1>2, <1>4 DEF Init

(* A store through the end mark hits no cluster of the volume. *)
LEMMA EndKeepsData ==
    ASSUME EocVictim \notin Clusters, FreeEnd
    PROVE  data' = data /\ fat' = fat /\ dirent' = dirent
  BY DEF FreeEnd, ZapEoc, IsCluster

LEMMA DirStep ==
    ASSUME EocVictim \notin Clusters,
           TypeOK, Ownership, BuildInv, DirInv, [Next]_vars, health' # "torn"
    PROVE  \A c \in ReachIn(fat', RootClus) :
             data'[c] = Dir \/ (pc' = "dzero" /\ c = got')
  <1> SUFFICES ASSUME NEW c \in ReachIn(fat', RootClus)
               PROVE  data'[c] = Dir \/ (pc' = "dzero" /\ c = got')
    OBVIOUS
  <1> DEFINE D == ReachIn(fat, RootClus)
  <1>1. health # "torn"  BY TornStays
  <1>2. /\ OneOwner(fat, Heads) /\ Phase
        /\ pc = "data" => got \in ReachIn(fat, first)
        /\ pc = "link" => prev \in ReachIn(fat, first)
        /\ \A d \in D : data[d] = Dir \/ (pc = "dzero" /\ d = got)
    <2>1. pc = "link" => prev # 0  BY <1>1, Marks DEF Ownership, Phase
    <2> QED  BY <1>1, <2>1, ReachIs DEF Ownership, BuildInv, DirInv, DirClusters
  <1>3. RootClus \in Clusters /\ (first # 0 => IsCluster(first))
    BY Marks DEF TypeOK, IsCluster
  <1>4. /\ IsCluster(walk) => walk \notin D
        /\ first # 0 => ReachIn(fat, first) \cap D = {}
    BY <1>2, <1>3, DirApart
  <1>5. c \in Clusters  BY <1>3, ReachInFacts
  <1>6. ASSUME NEW p \in Clusters, NEW v, fat' = [fat EXCEPT ![p] = v],
               ~IsCluster(v) \/ p \notin D, data' = data, pc # "dzero"
        PROVE  data'[c] = Dir
    <2>1. CellSet(fat, fat', p, v)  BY <1>6 DEF CellSet, TypeOK
    <2>2. c \in D  BY <1>3, <1>6, <2>1, ReachShrinks
    <2> QED  BY <1>2, <1>6, <2>2
  <1>7. ASSUME fat' = fat, data' = data, pc # "dzero" PROVE data'[c] = Dir
    BY <1>2, <1>7
  <1>8. CASE Call
    <2>1. fat' = fat /\ data' = data /\ pc = "idle"
      BY <1>8 DEF Call, CallWrite, CallAppend, CallCreate, CallMkdir,
         CallDelete, Begin, Refuse, disk
    <2> QED  BY <1>7, <2>1
  <1>9. CASE FreeCell
    <2>1. /\ walk \in Clusters /\ fat' = [fat EXCEPT ![walk] = Free]
          /\ data' = data /\ pc = "free"
      BY <1>9 DEF FreeCell, IsCluster
    <2> QED  BY <1>6, <2>1, Marks
  <1>10. CASE FreeEnd \/ ResetEntry \/ WriteEntry
    <2>1. fat' = fat /\ data' = data /\ pc # "dzero"
      BY <1>10, EndKeepsData DEF FreeEnd, ResetEntry, WriteEntry
    <2> QED  BY <1>7, <2>1
  <1>11. CASE FatAlloc \/ DirAlloc
    <2>1. PICK p \in Clusters : /\ fat' = [fat EXCEPT ![p] = Eoc]
                                /\ data' = data /\ pc # "dzero"
      BY <1>11 DEF FatAlloc, DirAlloc, TakeCell
    <2> QED  BY <1>6, <2>1, Marks
  <1>12. CASE FatLink
    <2>1. /\ prev \in Clusters /\ fat' = [fat EXCEPT ![prev] = got]
          /\ data' = data /\ pc = "link" /\ first # 0
      BY <1>2, <1>12 DEF FatLink, Phase, IsCluster
    <2>2. prev \notin D  BY <1>2, <1>4, <2>1
    <2> QED  BY <1>6, <2>1, <2>2
  <1>13. CASE DirLink
    <2>1. /\ prev \in Clusters /\ got \in Clusters /\ prev # got
          /\ fat[got] = Eoc /\ fat' = [fat EXCEPT ![prev] = got]
          /\ data' = data /\ got' = got /\ pc = "dlink" /\ pc' = "dzero"
      BY <1>2, <1>13 DEF DirLink, Phase, Goto, IsCluster
    <2>2. CellSet(fat, fat', prev, got)  BY <2>1 DEF CellSet, TypeOK
    <2>3. c \in D \cup {got}  BY <1>3, <2>1, <2>2, ReachLinks, Marks
    <2> QED  BY <1>2, <2>1, <2>3
  <1>14. CASE WriteData
    <2>1. /\ pc = "data" /\ fat' = fat /\ first # 0
          /\ data' = [data EXCEPT ![got] = Chunk]
      BY <1>2, <1>14 DEF WriteData, Phase
    <2>2. c \in D /\ c # got  BY <1>2, <1>4, <2>1
    <2>3. data'[c] = data[c]  BY <1>5, <2>1, <2>2 DEF TypeOK
    <2> QED  BY <1>2, <2>1, <2>2, <2>3
  <1>15. CASE MkdirDataError
    <2>1. /\ got \in Clusters /\ fat' = [fat EXCEPT ![got] = Free]
          /\ data' = data /\ pc = "data"
      BY <1>2, <1>15 DEF MkdirDataError, Phase, IsCluster
    <2> QED  BY <1>6, <2>1, Marks
  <1>16. CASE DirZero
    <2>1. /\ pc = "dzero" /\ fat' = fat /\ data' = [data EXCEPT ![got] = Dir]
      BY <1>16 DEF DirZero
    <2>2. data'[c] = IF c = got THEN Dir ELSE data[c]
      BY <1>5, <2>1 DEF TypeOK
    <2> QED  BY <1>2, <2>1, <2>2
  <1>17. CASE DiskFull \/ DirFull \/ WriteDataError \/ EntryError \/ LosePower
    <2>1. Abandon /\ fat' = fat /\ data' = data
      BY <1>17 DEF DiskFull, DirFull, WriteDataError, EntryError, LosePower,
         Fail, disk
    <2>2. pc # "dzero"  BY <2>1 DEF Abandon, Loss, Torn
    <2> QED  BY <1>7, <2>1, <2>2
  <1>18. CASE UNCHANGED vars
    <2>1. fat' = fat /\ data' = data /\ pc' = pc /\ got' = got  BY <1>18 DEF vars
    <2> QED  BY <1>2, <2>1
  <1> QED
    BY <1>8, <1>9, <1>10, <1>11, <1>12, <1>13, <1>14, <1>15, <1>16, <1>17,
       <1>18 DEF Next, Step

(* The clusters of the directory hold slots and nothing else, on a disk where
   the store through the end mark falls into no cluster (one up to 1 GiB). *)
THEOREM DirectoryKeepsSlots ==
    ASSUME EocVictim \notin Clusters
    PROVE  Spec => []DirIsDir
  <1>1. TypeOK /\ Ownership /\ BuildInv /\ DirInv /\ [Next]_vars => DirInv'
    <2> SUFFICES ASSUME TypeOK, Ownership, BuildInv, DirInv, [Next]_vars,
                        health' # "torn"
                 PROVE  \A c \in DirClusters' :
                          data'[c] = Dir \/ (pc' = "dzero" /\ c = got')
      BY DEF DirInv, Dir
    <2>1. DirClusters' = ReachIn(fat', RootClus)
      BY DEF Reach, ReachIn, Closed, ClosedIn, DirClusters, RootClus
    <2> QED  BY <2>1, DirStep
  <1>2. DirInv => DirIsDir  BY DEF DirInv, DirIsDir
  <1> QED
    BY <1>1, <1>2, DirInit, TypeCorrect, OwnershipInvariant, BuildInvariant,
       PTL DEF Spec

(***************************************************************************)
(* Other files                                                             *)
(***************************************************************************)

(* The cluster or cell a step writes was free, or is on the chain being
   freed, on the one being built, or on the directory's. *)
Own(p) == \/ fat[p] = Free
          \/ \E r \in {"walk", "first", "root"} :
               IsCluster(Heads[r]) /\ p \in Reach(Heads[r])
WritesAt(p) == \A x \in Clusters \ {p} : fat'[x] = fat[x] /\ data'[x] = data[x]

LEMMA StepWritesOwn ==
    ASSUME EocVictim \notin Clusters,
           TypeOK, Ownership, BuildInv, [Next]_vars, health # "torn"
    PROVE  UNCHANGED <<fat, data>> \/ \E p \in Clusters : Own(p) /\ WritesAt(p)
  <1>1. /\ Phase
        /\ pc = "data" => got \in Reach(first)
        /\ pc = "link" => prev \in Reach(first)
        /\ pc = "dlink" => prev \in Reach(RootClus)
        /\ pc = "dzero" => got \in Reach(RootClus)
    <2>1. pc = "link" => prev # 0  BY Marks DEF Ownership, Phase
    <2> QED  BY <2>1 DEF Ownership, BuildInv, DirClusters
  <1>2. /\ Heads["walk"] = walk /\ Heads["first"] = first
        /\ Heads["root"] = RootClus /\ IsCluster(RootClus)
        /\ first # 0 => IsCluster(first)
        /\ IsCluster(walk) => walk \in Reach(walk)
    BY HeadsAt, Marks, ReachFacts DEF TypeOK, IsCluster
  <1>3. CASE FreeCell
    <2>1. walk \in Clusters /\ IsCluster(walk) /\ data' = data
          /\ fat' = [fat EXCEPT ![walk] = Free]
      BY <1>3 DEF FreeCell, IsCluster
    <2>2. Own(walk) /\ WritesAt(walk)  BY <1>2, <2>1 DEF Own, WritesAt, TypeOK
    <2> QED  BY <2>1, <2>2
  <1>4. CASE FatAlloc \/ DirAlloc
    <2>1. PICK p \in Clusters : /\ fat[p] = Free /\ data' = data
                                /\ fat' = [fat EXCEPT ![p] = Eoc]
      BY <1>4 DEF FatAlloc, DirAlloc, TakeCell, IsFirstFree, FreeCells
    <2>2. Own(p) /\ WritesAt(p)  BY <2>1 DEF Own, WritesAt, TypeOK
    <2> QED  BY <2>2
  <1>5. CASE FatLink \/ DirLink
    <2>1. /\ prev \in Clusters /\ data' = data
          /\ fat' = [fat EXCEPT ![prev] = got]
          /\ (pc = "link" /\ first # 0) \/ pc = "dlink"
      BY <1>1, <1>5 DEF FatLink, DirLink, Phase, IsCluster
    <2>2. Own(prev) /\ WritesAt(prev)
      BY <1>1, <1>2, <2>1 DEF Own, WritesAt, TypeOK
    <2> QED  BY <2>1, <2>2
  <1>6. CASE MkdirDataError
    <2>1. /\ got \in Clusters /\ data' = data /\ pc = "data" /\ first # 0
          /\ fat' = [fat EXCEPT ![got] = Free]
      BY <1>1, <1>6 DEF MkdirDataError, Phase, IsCluster
    <2>2. Own(got) /\ WritesAt(got)
      BY <1>1, <1>2, <2>1 DEF Own, WritesAt, TypeOK
    <2> QED  BY <2>1, <2>2
  <1>7. CASE WriteData \/ DirZero
    <2>1. /\ got \in Clusters /\ fat' = fat
          /\ \E v : data' = [data EXCEPT ![got] = v]
          /\ (pc = "data" /\ first # 0) \/ pc = "dzero"
      BY <1>1, <1>7 DEF WriteData, DirZero, Phase, IsCluster
    <2>2. Own(got) /\ WritesAt(got)
      BY <1>1, <1>2, <2>1 DEF Own, WritesAt, TypeOK
    <2> QED  BY <2>1, <2>2
  <1>8. CASE FreeEnd  BY <1>8, EndKeepsData
  <1>9. CASE ResetEntry \/ WriteEntry \/ DiskFull \/ DirFull \/ WriteDataError
             \/ EntryError \/ LosePower \/ Call \/ UNCHANGED vars
    BY <1>9 DEF ResetEntry, WriteEntry, DiskFull, DirFull, WriteDataError,
       EntryError, LosePower, Call, CallWrite, CallAppend, CallCreate,
       CallMkdir, CallDelete, Begin, Refuse, disk, vars
  <1> QED
    BY <1>3, <1>4, <1>5, <1>6, <1>7, <1>8, <1>9 DEF Next, Step

(* A name other than the one worked on keeps its entry; in the middle of an
   operation it is not suspended. *)
LEMMA OtherEntries ==
    ASSUME TypeOK, [Next]_vars, NEW n \in Names \ {name'}
    PROVE  /\ dirent'[n] = dirent[n]
           /\ UNCHANGED <<fat, data>> \/ n # name
  <1>1. CASE Call
    <2>1. fat' = fat /\ data' = data
      BY <1>1 DEF Call, CallWrite, CallAppend, CallCreate, CallMkdir,
         CallDelete, Begin, Refuse, disk
    <2>2. dirent'[n] = dirent[n]
      BY <1>1 DEF Call, CallWrite, CallAppend, CallCreate, CallMkdir,
         CallDelete, Begin, Refuse, disk, TypeOK
    <2> QED  BY <2>1, <2>2
  <1>2. CASE Step \/ LosePower
    <2>1. name' = name
      BY <1>2 DEF Step, FreeCell, FreeEnd, ResetEntry, FatAlloc, FatLink,
         DiskFull, WriteData, WriteDataError, MkdirDataError, WriteEntry,
         DirAlloc, DirFull, DirLink, DirZero, EntryError, LosePower,
         TakeCell, Goto, Succeed, Fail, Abandon, ClearLocals
    <2>2. dirent'[n] = dirent[n]
      BY <1>2, <2>1 DEF Step, FreeCell, FreeEnd, ResetEntry, FatAlloc,
         FatLink, DiskFull, WriteData, WriteDataError, MkdirDataError,
         WriteEntry, DirAlloc, DirFull, DirLink, DirZero, EntryError,
         LosePower, TakeCell, disk, TypeOK
    <2> QED  BY <2>1, <2>2
  <1>3. CASE UNCHANGED vars  BY <1>3 DEF vars
  <1> QED  BY <1>1, <1>2, <1>3 DEF Next

(* What a step writes is on no other file's chain. *)
LEMMA OwnIsNotOthers ==
    ASSUME TypeOK, OneOwner(fat, Heads), NEW n \in Names \ {name}, Exists(n),
           NEW p \in Clusters, Own(p)
    PROVE  p \notin Visits(fat, dirent[n].cluster)
  <1> DEFINE c == dirent[n].cluster
  <1> SUFFICES ASSUME IsCluster(c), p \in ReachIn(fat, c) PROVE FALSE
    BY DEF Visits
  <1>1. Heads[n] = c /\ n \in Roots  BY HeadsAt DEF EntryHead, Suspended
  <1>2. n \notin {"walk", "first", "root"}
        /\ {"walk", "first", "root"} \subseteq Roots
    BY HeadsAt
  <1>3. p \in Reach(Heads[n])  BY <1>1, ReachIs
  <1>4. fat[p] # Free  BY <1>1, <1>3, ReachUsed
  <1>5. PICK r \in {"walk", "first", "root"} :
          IsCluster(Heads[r]) /\ p \in Reach(Heads[r])
    BY <1>4 DEF Own
  <1> QED  BY <1>1, <1>2, <1>3, <1>5, ReachDisjoint

(* What a step writes is not read under any other name. *)
LEMMA OthersStep ==
    ASSUME EocVictim \notin Clusters, TypeOK, Ownership, BuildInv,
           [Next]_vars, health' # "torn", NEW n \in Names \ {name'}
    PROVE  Content(n)' = Content(n)
  <1>1. dirent'[n] = dirent[n] /\ (UNCHANGED <<fat, data>> \/ n # name)
    BY OtherEntries
  <1>2. health # "torn" /\ OneOwner(fat, Heads)
    BY TornStays DEF Ownership
  <1>3. SUFFICES ContentOf(fat', data', dirent'[n]) = ContentOf(fat, data, dirent[n])
    BY ContentIs
  <1>4. CASE UNCHANGED <<fat, data>>  BY <1>1, <1>4
  <1>5. CASE ~UNCHANGED <<fat, data>>
    <2>1. PICK p \in Clusters : Own(p) /\ WritesAt(p)
      BY <1>2, <1>5, StepWritesOwn
    <2>2. n # name  BY <1>1, <1>5
    <2>3. CASE ~Exists(n)
      BY <1>1, <2>3 DEF ContentOf, Exists
    <2>4. CASE Exists(n)
      <3>1. p \notin Visits(fat, dirent[n].cluster)
        BY <1>2, <2>1, <2>2, <2>4, OwnIsNotOthers
      <3>2. \A x \in Visits(fat, dirent[n].cluster) :
               fat[x] = fat'[x] /\ data[x] = data'[x]
        BY <2>1, <3>1, VisitsFacts DEF WritesAt
      <3> QED  BY <1>1, <3>2, SameContent
    <2> QED  BY <2>3, <2>4
  <1> QED  BY <1>4, <1>5

(* An operation on one name, whether it succeeds, fails or is cut off by a
   power loss, leaves what every other name reads as it was; again on a disk
   where the store through the end mark falls into no cluster. *)
THEOREM OthersUntouched ==
    ASSUME EocVictim \notin Clusters
    PROVE  Spec => OthersKept
  <1>1. ASSUME TypeOK, Ownership, BuildInv, [Next]_vars, health' # "torn",
               NEW n \in Names \ {name'}
        PROVE  Content(n)' = Content(n)
    BY <1>1, OthersStep
  <1>2. TypeOK /\ Ownership /\ BuildInv /\ [Next]_vars
          => [health' # "torn" =>
                \A n \in Names \ {name'} : Content(n)' = Content(n)]_vars
    BY <1>1
  <1> QED
    BY <1>2, TypeCorrect, OwnershipInvariant, BuildInvariant, PTL
       DEF Spec, OthersKept

(***************************************************************************)
(* What is written is read back                                            *)
(***************************************************************************)

(* A set of numbers that is not empty has a least one. *)
LEMMA LeastOf ==
    ASSUME NEW S \in SUBSET Nat, S # {}
    PROVE  \E n \in S : \A k \in S : n <= k
  <1>1. PICK n \in S : \A k \in S : <<k, n>> \notin OpToRel(<, Nat)
    BY NatLessThanWellFounded, WFMin
  <1>2. OpToRel(<, Nat) = {ss \in Nat \X Nat : ss[1] < ss[2]}
    BY Zenon DEF OpToRel
  <1>3. \A k \in S : k \in Nat /\ n \in Nat /\ ~(k < n)  BY <1>1, <1>2
  <1> QED  BY <1>3

(* The units callers pass or are told of. *)
Passed == UNION {{b[i] : i \in DOMAIN b} : b \in Payloads}
Units  == Passed \cup {"directory", "absent", "unknown"}

LEMMA UnitSeqs ==
    /\ Payloads \subseteq Seq(Units)
    /\ <<>> \in Seq(Units) /\ Dir \in Seq(Units)
    /\ Absent \in Seq(Units) /\ Unknown \in Seq(Units)
  <1>1. ASSUME NEW S, S \subseteq Units, NEW s \in Seq(S) PROVE s \in Seq(Units)
    <2>1. s \in [1 .. Len(s) -> S] /\ Len(s) \in Nat  BY LenProperties
    <2>2. s \in [1 .. Len(s) -> Units]  BY <1>1, <2>1
    <2> QED  BY <2>1, <2>2, SeqDef
  <1>2. Payloads \subseteq Seq(Passed)
    BY Fat32Assumption DEF Fat32Assumption, Passed
  <1>3. Passed \subseteq Units /\ {"directory", "absent", "unknown"} \subseteq Units
    BY DEF Units
  <1>4. Payloads \subseteq Seq(Units)  BY <1>1, <1>2, <1>3
  <1> QED  BY <1>3, <1>4 DEF Dir, Absent, Unknown

(* l is the chain of m clusters that F links from l[1] to an end mark. *)
Path(F, l, m) ==
    /\ \A k \in 1 .. m : F[l[k]] = IF k < m THEN l[k + 1] ELSE Eoc
    /\ \A j, k \in 1 .. m : l[j] = l[k] => j = k
HeadOf(l, m) == IF m = 0 THEN 0 ELSE l[1]

(* A path fits into the volume, and the loops that follow it visit it. *)
LEMMA PathIsChain ==
    ASSUME NEW F, NEW m \in Nat, NEW l \in [1 .. m -> Clusters], Path(F, l, m)
    PROVE  /\ ChainOf(TheWalk(F, HeadOf(l, m))) = l
           /\ Len(l) = m
  <1> DEFINE c  == HeadOf(l, m)
             at == TheWalk(F, c)
             To(k) == IF k < m THEN l[k + 1] ELSE IF m = 0 THEN 0 ELSE Eoc
  <1>0. NumClusters \in Nat  BY Fat32Assumption DEF Fat32Assumption
  <1>1. m <= NumClusters
    <2>1. IsFiniteSet(Clusters) /\ Cardinality(Clusters) = NumClusters
      <3>1. PICK z \in Int : z = NumClusters + 1  BY <1>0
      <3>2. /\ IsFiniteSet(2 .. z)
            /\ Cardinality(2 .. z) = IF 2 > z THEN 0 ELSE z - 2 + 1
        BY FS_Interval
      <3>3. (IF 2 > z THEN 0 ELSE z - 2 + 1) = NumClusters  BY <1>0, <3>1
      <3>4. Clusters = 2 .. z  BY <3>1 DEF Clusters
      <3> QED  BY <3>2, <3>3, <3>4
    <2>2. l \in Injection(1 .. m, Clusters)
      BY DEF Injection, IsInjective, Path
    <2>3. Cardinality(1 .. m) = m  BY FS_Interval
    <2> QED  BY <2>1, <2>2, <2>3, FS_Injection
  <1>2. \A k \in 0 .. NumClusters :
          at[k] = IF k = 0 THEN c
                  ELSE IF IsCluster(at[k - 1]) THEN F[at[k - 1]] ELSE at[k - 1]
    <2>1. WalkOf(F, c, at)  BY WalkExists
    <2> HIDE DEF at
    <2> QED  BY <2>1 DEF WalkOf
  <1> HIDE DEF at
  <1>3. \A k \in 0 .. m - 1 : l[k + 1] \in Clusters  OBVIOUS
  <1>4. ASSUME NEW j \in Nat, ~IsCluster(To(j)) PROVE j >= m
    BY <1>3, <1>4 DEF IsCluster
  <1>5. \A k \in 0 .. NumClusters : at[k] = To(k)
    <2> DEFINE Off == {k \in 0 .. NumClusters : at[k] # To(k)}
    <2> SUFFICES ASSUME Off # {} PROVE FALSE  OBVIOUS
    <2>1. PICK k \in Off : \A j \in Off : k <= j
      <3>1. Off \in SUBSET Nat  BY <1>0
      <3> HIDE DEF Off
      <3> QED  BY <3>1, LeastOf
    <2>2. k \in 0 .. NumClusters /\ at[k] # To(k)  OBVIOUS
    <2>3. k # 0
      <3>1. at[0] = c  BY <1>0, <1>2
      <3>2. To(0) = c  BY Marks DEF HeadOf
      <3> QED  BY <2>2, <3>1, <3>2
    <2>4. k - 1 \in 0 .. NumClusters /\ k - 1 \in Nat  BY <1>0, <2>2, <2>3
    <2>5. at[k - 1] = To(k - 1)
      <3>1. ~(k <= k - 1)  BY <2>4
      <3>2. k - 1 \notin Off
        <4> HIDE DEF Off
        <4> QED  BY <2>1, <3>1
      <3> QED  BY <2>4, <3>2
    <2>6. CASE k - 1 < m
      <3>1. k \in 1 .. m /\ To(k - 1) = l[k]  BY <2>4, <2>6
      <3>2. IsCluster(l[k])  BY <3>1 DEF IsCluster
      <3>3. at[k] = F[l[k]]  BY <1>2, <2>2, <2>3, <2>5, <3>1, <3>2
      <3>4. F[l[k]] = IF k < m THEN l[k + 1] ELSE Eoc  BY <3>1 DEF Path
      <3> QED  BY <2>2, <3>1, <3>3, <3>4
    <2>7. CASE ~(k - 1 < m)
      <3>1. To(k - 1) = To(k) /\ ~IsCluster(To(k - 1))  BY <2>4, <2>7, Marks
      <3> QED  BY <1>2, <2>2, <2>3, <2>5, <3>1
    <2> QED  BY <2>6, <2>7
  <1>6. Visited(at) = 0 .. m - 1
    <2>1. \A k \in 0 .. NumClusters : IsCluster(To(k)) <=> k < m
      BY <1>0, <1>3, <1>4, Marks DEF IsCluster
    <2> HIDE DEF To
    <2> QED  BY <1>0, <1>1, <1>5, <2>1 DEF Visited
  <1>7. Cardinality(0 .. m - 1) = m
    <2>1. Cardinality(0 .. m - 1) = IF 0 > m - 1 THEN 0 ELSE m - 1 - 0 + 1
      BY FS_Interval
    <2> QED  BY <2>1
  <1>8. ChainOf(at) = [k \in 1 .. m |-> at[k - 1]]  BY <1>6, <1>7 DEF ChainOf
  <1>9. \A k \in 1 .. m : at[k - 1] = l[k]  BY <1>0, <1>1, <1>5
  <1>10. ChainOf(at) = l  BY <1>8, <1>9
  <1>11. Len(l) = m
    <2>1. l \in Seq(Clusters)  BY SeqDef
    <2> QED  BY <2>1, LenProperties
  <1> QED  BY <1>10, <1>11 DEF at

(* The recursive definition of a read has a solution. *)
LEMMA ReadExists ==
    ASSUME NEW D, NEW ch, Len(ch) \in Nat
    PROVE  ReadOf(D, ch, TheRead(D, ch))
  <1> DEFINE To(m, f) ==
               f = [k \in 0 .. m |-> IF k = 0 THEN <<>> ELSE f[k - 1] \o D[ch[k]]]
             None == {m \in Nat : \A f : ~To(m, f)}
  <1>1. ASSUME None # {} PROVE FALSE
    <2>1. PICK m \in None : \A j \in None : m <= j
      <3>1. None \in SUBSET Nat  OBVIOUS
      <3> HIDE DEF None
      <3> QED  BY <1>1, <3>1, LeastOf
    <2>2. m \in Nat /\ \A f : ~To(m, f)  OBVIOUS
    <2>3. CASE m = 0
      <3> DEFINE g == [k \in 0 .. 0 |-> <<>>]
      <3>1. To(0, g)  OBVIOUS
      <3> QED  BY <2>2, <2>3, <3>1
    <2>4. CASE m # 0
      <3>1. m - 1 \in Nat /\ ~(m <= m - 1)  BY <2>2, <2>4
      <3>2. m - 1 \notin None
        <4> HIDE DEF None
        <4> QED  BY <2>1, <3>1
      <3>3. PICK f : To(m - 1, f)  BY <3>1, <3>2
      <3>4. \A k \in 0 .. m - 1 :
              f[k] = IF k = 0 THEN <<>> ELSE f[k - 1] \o D[ch[k]]
        BY <3>3
      <3> DEFINE g == [k \in 0 .. m |->
                         IF k = m THEN f[m - 1] \o D[ch[m]] ELSE f[k]]
      <3>5. ASSUME NEW k \in 0 .. m
            PROVE  g[k] = IF k = 0 THEN <<>> ELSE g[k - 1] \o D[ch[k]]
        <4>1. CASE k = m
          <5>1. g[k] = f[m - 1] \o D[ch[m]]  BY <4>1
          <5>2. g[k - 1] = f[m - 1] /\ k # 0  BY <4>1, <2>4, <3>1
          <5> QED  BY <4>1, <5>1, <5>2
        <4>2. CASE k # m
          <5>1. k \in 0 .. m - 1  BY <4>2, <3>1
          <5>2. g[k] = f[k]  BY <4>2
          <5>3. k # 0 => g[k - 1] = f[k - 1]  BY <3>1, <5>1
          <5> QED  BY <3>4, <5>1, <5>2, <5>3
        <4> QED  BY <4>1, <4>2
      <3>6. g = [k \in 0 .. m |-> g[k]]  OBVIOUS
      <3> HIDE DEF g
      <3>7. To(m, g)  BY <3>5, <3>6
      <3> QED  BY <2>2, <3>7
    <2> QED  BY <2>3, <2>4
  <1>2. \E all : ReadOf(D, ch, all)
    <2>1. Len(ch) \notin None
      <3> HIDE DEF None
      <3> QED  BY <1>1
    <2>2. PICK f : To(Len(ch), f)  BY <2>1
    <2> QED  BY <2>2 DEF ReadOf
  <1> QED  BY <1>2, Zenon DEF TheRead

(* What one turn of the write loop stores, and the first n units of b. *)
Off(k)       == k * ClusUnits
Piece(b, w)  == SubSeq(b, w + 1, IF Len(b) - w > ClusUnits
                                 THEN w + ClusUnits ELSE Len(b))
Prefix(b, n) == SubSeq(b, 1, IF n < Len(b) THEN n ELSE Len(b))

LEMMA OffStep ==
    ASSUME NEW k \in Nat
    PROVE  /\ Off(k) \in Nat /\ Off(k + 1) = Off(k) + ClusUnits
           /\ k # 0 => k - 1 \in Nat /\ Off(k) = Off(k - 1) + ClusUnits
           /\ Off(0) = 0
  <1>1. ClusUnits \in Nat  BY Fat32Assumption DEF Fat32Assumption
  <1> QED  BY <1>1 DEF Off

LEMMA PrefixIs ==
    ASSUME NEW b \in Seq(Units), NEW n \in Nat
    PROVE  /\ Prefix(b, n) \in Seq(Units)
           /\ Len(Prefix(b, n)) = IF n < Len(b) THEN n ELSE Len(b)
           /\ \A i \in 1 .. Len(Prefix(b, n)) : Prefix(b, n)[i] = b[i]
           /\ Len(b) <= n => Prefix(b, n) = b
  <1> DEFINE z == IF n < Len(b) THEN n ELSE Len(b)
             p == SubSeq(b, 1, z)
  <1>1. Len(b) \in Nat /\ z \in Nat /\ z <= Len(b)  BY LenProperties
  <1>2. Prefix(b, n) = p  BY DEF Prefix
  <1>3. \A i \in 1 .. z : b[i] \in Units
    <2> HIDE DEF z
    <2> QED  BY <1>1, ElementOfSeq
  <1> HIDE DEF z
  <1>4. /\ p \in Seq(Units) /\ Len(p) = (IF 1 <= z THEN z - 1 + 1 ELSE 0)
        /\ \A i \in 1 .. z - 1 + 1 : p[i] = b[1 + i - 1]
    BY <1>1, <1>3, SubSeqProperties
  <1>5. Len(p) = z  BY <1>1, <1>4
  <1>6. \A i \in 1 .. z : p[i] = b[i]  BY <1>1, <1>4
  <1>7. Len(b) <= n => p = b
    <2> SUFFICES ASSUME Len(b) <= n PROVE p = b  OBVIOUS
    <2>1. z = Len(b)  BY <1>1 DEF z
    <2> HIDE DEF p
    <2> QED  BY <1>4, <1>5, <1>6, <2>1, SeqEqual
  <1> HIDE DEF p
  <1> QED  BY <1>2, <1>4, <1>5, <1>6, <1>7 DEF z

LEMMA PieceExtends ==
    ASSUME NEW b \in Seq(Units), NEW w \in Nat
    PROVE  Prefix(b, w) \o Piece(b, w) = Prefix(b, w + ClusUnits)
  <1> DEFINE N == Len(b)
             z == IF N - w > ClusUnits THEN w + ClusUnits ELSE N
             q == SubSeq(b, w + 1, z)
             p == Prefix(b, w)
             r == Prefix(b, w + ClusUnits)
  <1>0. ClusUnits \in Nat \ {0} /\ N \in Nat
    BY LenProperties, Fat32Assumption DEF Fat32Assumption
  <1>1. z \in Nat /\ z <= N /\ z = (IF w + ClusUnits < N THEN w + ClusUnits ELSE N)
    BY <1>0
  <1>2. Piece(b, w) = q  BY DEF Piece
  <1>3. \A i \in w + 1 .. z : b[i] \in Units
    <2> HIDE DEF z
    <2> QED  BY <1>0, <1>1, ElementOfSeq
  <1>4. /\ p \in Seq(Units) /\ Len(p) = IF w < N THEN w ELSE N
        /\ \A i \in 1 .. Len(p) : p[i] = b[i]
    BY PrefixIs
  <1>5. /\ r \in Seq(Units) /\ Len(r) = z
        /\ \A i \in 1 .. Len(r) : r[i] = b[i]
    <2>1. w + ClusUnits \in Nat  BY <1>0
    <2> HIDE DEF z
    <2> QED  BY <1>1, <2>1, PrefixIs
  <1> HIDE DEF z, p, r, N
  <1>6. /\ q \in Seq(Units) /\ Len(q) = (IF w + 1 <= z THEN z - (w + 1) + 1 ELSE 0)
        /\ \A i \in 1 .. z - (w + 1) + 1 : q[i] = b[w + 1 + i - 1]
    <2>1. w + 1 \in Int /\ z \in Int  BY <1>1
    <2> QED  BY <1>3, <2>1, SubSeqProperties
  <1> HIDE DEF q
  <1>7. /\ p \o q \in Seq(Units) /\ Len(p \o q) = Len(p) + Len(q)
        /\ \A i \in 1 .. Len(p) + Len(q) :
             (p \o q)[i] = IF i <= Len(p) THEN p[i] ELSE q[i - Len(p)]
    BY <1>4, <1>6, ConcatProperties
  <1>8. Len(p) + Len(q) = z /\ Len(p) \in Nat  BY <1>0, <1>1, <1>4, <1>6
  <1>9. ASSUME NEW i \in 1 .. z PROVE (p \o q)[i] = r[i]
    <2>1. CASE i <= Len(p)
      BY <1>1, <1>4, <1>5, <1>7, <1>8, <2>1
    <2>2. CASE ~(i <= Len(p))
      <3>1. Len(p) = w /\ i \in Nat  BY <1>0, <1>1, <1>4, <2>2
      <3>2. i - w \in 1 .. z - (w + 1) + 1  BY <1>1, <2>2, <3>1
      <3>3. q[i - w] = b[i]  BY <1>6, <3>1, <3>2
      <3> QED  BY <1>5, <1>7, <1>8, <2>2, <3>1, <3>3
    <2> QED  BY <2>1, <2>2
  <1>10. p \o q = r
    BY <1>5, <1>7, <1>8, <1>9, SeqEqual
  <1> QED  BY <1>2, <1>10 DEF p, r

(* D holds the first n pieces of b on l. *)
Holds(D, b, l, n) == \A k \in 1 .. n : D[l[k]] = Piece(b, Off(k - 1))

(* A file whose chain holds b piece by piece reads as b. *)
LEMMA HoldsReads ==
    ASSUME NEW D, NEW b \in Seq(Units), NEW m \in Nat, NEW l, Len(l) = m,
           Holds(D, b, l, m), Len(b) <= Off(m)
    PROVE  UnitsOf(D, l, Len(b)) = b
  <1> DEFINE all == TheRead(D, l)
             Bad == {k \in 0 .. m : all[k] # Prefix(b, Off(k))}
  <1>1. \A k \in 0 .. m :
          all[k] = IF k = 0 THEN <<>> ELSE all[k - 1] \o D[l[k]]
    <2>1. ReadOf(D, l, all)  BY ReadExists
    <2> HIDE DEF all
    <2> QED  BY <2>1 DEF ReadOf
  <1> HIDE DEF all
  <1>2. Prefix(b, 0) = <<>>
    <2>1. Len(b) \in Nat  BY LenProperties
    <2>2. Prefix(b, 0) \in Seq(Units) /\ Len(Prefix(b, 0)) = 0
      BY <2>1, PrefixIs
    <2> QED  BY <2>2, EmptySeq
  <1>3. Bad = {}
    <2> SUFFICES ASSUME Bad # {} PROVE FALSE  OBVIOUS
    <2>1. PICK k \in Bad : \A j \in Bad : k <= j
      <3>1. Bad \in SUBSET Nat  OBVIOUS
      <3> HIDE DEF Bad
      <3> QED  BY <3>1, LeastOf
    <2>2. k \in 0 .. m /\ all[k] # Prefix(b, Off(k))  OBVIOUS
    <2>3. k # 0  BY <1>1, <1>2, <2>2, OffStep
    <2>4. k - 1 \in 0 .. m /\ k - 1 \in Nat /\ k \in Nat /\ k \in 1 .. m
          /\ ~(k <= k - 1)
      BY <2>2, <2>3
    <2>5. all[k - 1] = Prefix(b, Off(k - 1))
      <3>1. k - 1 \notin Bad
        <4> HIDE DEF Bad
        <4> QED  BY <2>1, <2>4
      <3> QED  BY <2>4, <3>1
    <2>6. D[l[k]] = Piece(b, Off(k - 1))  BY <2>4 DEF Holds
    <2>7. Off(k) = Off(k - 1) + ClusUnits /\ Off(k - 1) \in Nat
      BY <2>3, <2>4, OffStep
    <2>8. all[k] = Prefix(b, Off(k - 1)) \o Piece(b, Off(k - 1))
      BY <1>1, <2>2, <2>3, <2>5, <2>6
    <2> QED  BY <2>2, <2>7, <2>8, PieceExtends
  <1>4. all[m] = Prefix(b, Off(m))  BY <1>3
  <1>5. Off(m) \in Nat  BY OffStep
  <1>6. all[m] = b  BY <1>4, <1>5, PrefixIs
  <1>7. UnitsOf(D, l, Len(b)) = Prefix(b, Len(b))
    BY <1>6, Zenon DEF UnitsOf, Prefix, all
  <1>8. Len(b) \in Nat  BY LenProperties
  <1> QED  BY <1>7, <1>8, PrefixIs

(* A path is what its first cluster leads to, and none of it is free. *)
LEMMA PathLies ==
    ASSUME NEW F, NEW m \in Nat, NEW l \in [1 .. m -> Clusters], Path(F, l, m),
           NEW k \in 1 .. m
    PROVE  /\ l[k] \in Clusters /\ F[l[k]] # Free
           /\ l[1] \in Clusters /\ l[k] \in ReachIn(F, l[1])
  <1> DEFINE R   == ReachIn(F, l[1])
             Off1 == {j \in 1 .. m : l[j] \notin R}
  <1>1. l[k] \in Clusters /\ l[1] \in Clusters  OBVIOUS
  <1>2. F[l[k]] # Free
    <2>1. CASE k < m
      <3>1. k + 1 \in 1 .. m  BY <2>1
      <3>2. l[k + 1] \in Clusters  BY <3>1
      <3> QED  BY <2>1, <3>2, Marks DEF Path, IsCluster
    <2>2. CASE ~(k < m)  BY <2>2, Marks DEF Path
    <2> QED  BY <2>1, <2>2
  <1>3. Off1 = {}
    <2> SUFFICES ASSUME Off1 # {} PROVE FALSE  OBVIOUS
    <2>1. PICK j \in Off1 : \A i \in Off1 : j <= i
      <3>1. Off1 \in SUBSET Nat  OBVIOUS
      <3> HIDE DEF Off1
      <3> QED  BY <3>1, LeastOf
    <2>2. j \in 1 .. m /\ l[j] \notin R  OBVIOUS
    <2>3. j # 1  BY <1>1, <2>2, ReachInFacts
    <2>4. j - 1 \in 1 .. m /\ j - 1 < m /\ ~(j <= j - 1) /\ j - 1 + 1 = j
      BY <2>2, <2>3
    <2>5. l[j - 1] \in R
      <3>1. j - 1 \notin Off1
        <4> HIDE DEF Off1
        <4> QED  BY <2>1, <2>4
      <3> QED  BY <2>4, <3>1
    <2>6. F[l[j - 1]] = l[j] /\ IsCluster(l[j])
      BY <2>2, <2>4 DEF Path, IsCluster
    <2>7. ClosedIn(F, R)  BY <1>1, ReachInFacts
    <2> QED  BY <2>2, <2>5, <2>6, <2>7 DEF ClosedIn
  <1> QED  BY <1>1, <1>2, <1>3

(* A write off the path leaves it a path. *)
LEMMA PathKept ==
    ASSUME NEW F, NEW E, NEW m \in Nat, NEW l \in [1 .. m -> Clusters],
           Path(F, l, m), \A k \in 1 .. m : E[l[k]] = F[l[k]]
    PROVE  Path(E, l, m)
  BY DEF Path

(* The chain an operation builds: m clusters, and where the loop stands. *)
Building(l, m) ==
    /\ Path(fat, l, m) /\ first = HeadOf(l, m)
    /\ pc # "data" => Holds(data, buf, l, m) /\ written = Off(m)
    /\ pc = "data" => /\ m # 0 /\ got = l[m]
                      /\ Holds(data, buf, l, m - 1) /\ written = Off(m - 1)
    /\ pc \in {"alloc", "link"} => prev = IF m = 0 THEN 0 ELSE l[m]
    /\ pc \in {"entry", "dlink", "dzero"} => Len(buf) <= written
    /\ pc \in {"free", "reset"} => m = 0
Built == \E m \in Nat : \E l \in [1 .. m -> Clusters] : Building(l, m)

(* Before the first cluster is taken the chain is empty. *)
LEMMA NothingBuilt ==
    ASSUME first' = 0, prev' = 0, written' = 0,
           pc' \in {"free", "reset", "alloc", "entry"},
           pc' = "entry" => buf' = <<>>
    PROVE  Built'
  <1> DEFINE l == [k \in 1 .. 0 |-> RootClus]
  <1>1. l \in [1 .. 0 -> Clusters]  OBVIOUS
  <1>2. Path(fat', l, 0) /\ Holds(data', buf', l, 0)  BY DEF Path, Holds
  <1>3. Off(0) = 0 /\ Len(<<>>) = 0  BY OffStep, EmptySeq
  <1>4. first' = HeadOf(l, 0)  BY DEF HeadOf
  <1> HIDE DEF l
  <1>5. Building(l, 0)'  BY <1>2, <1>3, <1>4 DEF Building
  <1> QED  BY <1>1, <1>5 DEF Built

(* The chain holds what the loop has written so far, through every step. *)
LEMMA BuiltStep ==
    ASSUME EocVictim \notin Clusters, TypeOK, Ownership, BuildInv, Built, Step,
           health # "torn", kind # "delete", pc' # "idle"
    PROVE  Built'
  <1>1. OneOwner(fat, Heads) /\ Phase  BY DEF Ownership
  <1>2. PICK m \in Nat : \E l \in [1 .. m -> Clusters] : Building(l, m)
    BY DEF Built
  <1>3. PICK l \in [1 .. m -> Clusters] : Building(l, m)  BY <1>2
  <1>4. /\ Path(fat, l, m) /\ first = HeadOf(l, m)
        /\ \A k \in 1 .. m : l[k] \in Clusters /\ fat[l[k]] # Free
    BY <1>3, PathLies DEF Building
  <1>5. m = 0 <=> first = 0
    BY <1>4, Marks DEF HeadOf, IsCluster
  <1>6. \A d \in DirClusters, k \in 1 .. m : l[k] # d
    <2> SUFFICES ASSUME NEW d \in DirClusters, NEW k \in 1 .. m, l[k] = d
                 PROVE  FALSE
      OBVIOUS
    <2>1. first = l[1] /\ first \in Clusters  BY <1>4, <1>5 DEF HeadOf, TypeOK
    <2>2. l[k] \in ReachIn(fat, first)  BY <1>4, <2>1, PathLies
    <2>3. d \in ReachIn(fat, RootClus)  BY ReachIs DEF DirClusters
    <2> QED  BY <1>1, <2>1, <2>2, <2>3, DirApart DEF IsCluster
  <1>7. Off(m) \in Nat /\ ClusUnits \in Nat /\ Off(m + 1) = Off(m) + ClusUnits
    BY OffStep, Fat32Assumption DEF Fat32Assumption
  <1>8. CASE FreeCell \/ FreeEnd \/ ResetEntry
    <2>1. /\ pc \in {"free", "reset"} /\ first' = first /\ prev' = prev
          /\ written' = written /\ buf' = buf
          /\ pc' \in {"free", "reset", "alloc", "entry"}
          /\ pc' = "entry" => buf = <<>>
      BY <1>8 DEF FreeCell, FreeEnd, ResetEntry, Goto, AfterSetup, Succeed,
         ClearLocals
    <2>2. first = 0 /\ prev = 0 /\ written = 0
      BY <1>1, <1>3, <2>1, OffStep DEF Phase, Building
    <2> QED  BY <2>1, <2>2, NothingBuilt
  <1>9. CASE FatAlloc /\ prev = 0
    <2>1. PICK c \in Clusters :
            /\ fat' = [fat EXCEPT ![c] = Eoc] /\ got' = c /\ first' = c
            /\ pc' = "data" /\ data' = data /\ written' = written
            /\ buf' = buf /\ pc = "alloc" /\ m = 0
      BY <1>1, <1>5, <1>9 DEF FatAlloc, TakeCell, Goto, Phase
    <2> DEFINE j == [k \in 1 .. 1 |-> c]
    <2>2. j \in [1 .. 1 -> Clusters] /\ j[1] = c  OBVIOUS
    <2>3. fat'[c] = Eoc  BY <2>1 DEF TypeOK
    <2> HIDE DEF j
    <2>4. Path(fat', j, 1)  BY <2>2, <2>3 DEF Path
    <2>5. Holds(data', buf', j, 1 - 1)  BY DEF Holds
    <2>6. written' = Off(1 - 1)  BY <1>3, <2>1 DEF Building
    <2>7. Building(j, 1)'
      BY <2>1, <2>2, <2>4, <2>5, <2>6 DEF Building, HeadOf
    <2> QED  BY <2>2, <2>7 DEF Built
  <1>10. CASE (FatAlloc /\ prev # 0) \/ DirAlloc
    <2>1. PICK c \in Clusters :
            /\ fat[c] = Free /\ fat' = [fat EXCEPT ![c] = Eoc]
            /\ first' = first /\ data' = data /\ written' = written
            /\ buf' = buf
            /\ \/ pc = "alloc" /\ pc' = "link" /\ prev' = prev
               \/ pc = "entry" /\ pc' = "dlink"
      BY <1>1, <1>10 DEF FatAlloc, DirAlloc, TakeCell, IsFirstFree, FreeCells,
         Goto, Phase
    <2>2. \A k \in 1 .. m : fat'[l[k]] = fat[l[k]]
      BY <1>4, <2>1 DEF TypeOK
    <2>3. Path(fat', l, m)  BY <1>4, <2>2, PathKept
    <2>4. Building(l, m)'
      BY <1>3, <2>1, <2>3 DEF Building
    <2> QED  BY <2>4 DEF Built
  <1>11. CASE FatLink
    <2>1. /\ fat' = [fat EXCEPT ![prev] = got] /\ data' = data /\ got' = got
          /\ first' = first /\ written' = written /\ buf' = buf
          /\ pc = "link" /\ pc' = "data"
          /\ prev \in Clusters /\ got \in Clusters /\ fat[prev] = Eoc
          /\ fat[got] = Eoc /\ prev # got
      BY <1>1, <1>11 DEF FatLink, Goto, Phase, IsCluster
    <2>2. m # 0 /\ prev = l[m]
      BY <1>3, <2>1, Marks DEF Building, IsCluster
    <2>3. PICK j \in [1 .. m + 1 -> Clusters] :
            /\ j[m + 1] = got /\ j[1] = l[1]
            /\ \A k \in 1 .. m : j[k] = l[k] /\ k \in 1 .. m + 1
      <3> DEFINE i == [k \in 1 .. m + 1 |-> IF k = m + 1 THEN got ELSE l[k]]
      <3>1. i \in [1 .. m + 1 -> Clusters]  BY <2>1
      <3>2. /\ i[m + 1] = got /\ i[1] = l[1]
            /\ \A k \in 1 .. m : i[k] = l[k] /\ k \in 1 .. m + 1
        BY <2>2
      <3> QED  BY <3>1, <3>2
    <2>4. \A k \in 1 .. m : l[k] # got
      <3> SUFFICES ASSUME NEW k \in 1 .. m, l[k] = got PROVE FALSE  OBVIOUS
      <3>1. k < m  BY <2>1, <2>2
      <3>2. fat[got] = l[k + 1] /\ k + 1 \in 1 .. m  BY <1>4, <3>1 DEF Path
      <3> QED  BY <1>4, <2>1, <3>2, Marks DEF IsCluster
    <2>5. Path(fat', j, m + 1)
      <3>1. ASSUME NEW k \in 1 .. m + 1
            PROVE  fat'[j[k]] = IF k < m + 1 THEN j[k + 1] ELSE Eoc
        <4>1. CASE k = m + 1
          <5>1. fat'[got] = Eoc  BY <2>1 DEF TypeOK
          <5> QED  BY <2>3, <4>1, <5>1
        <4>2. CASE k = m
          <5>1. fat'[prev] = got  BY <2>1 DEF TypeOK
          <5> QED  BY <2>2, <2>3, <4>2, <5>1
        <4>3. CASE k < m
          <5>1. k \in 1 .. m /\ k + 1 \in 1 .. m /\ k < m + 1  BY <4>3
          <5>2. l[k] # prev  BY <1>4, <2>2, <4>3, <5>1 DEF Path
          <5>3. fat'[l[k]] = fat[l[k]]  BY <1>4, <2>1, <5>1, <5>2 DEF TypeOK
          <5>4. fat[l[k]] = l[k + 1]  BY <1>4, <4>3, <5>1 DEF Path
          <5> QED  BY <2>3, <5>1, <5>3, <5>4
        <4> QED  BY <4>1, <4>2, <4>3
      <3>2. ASSUME NEW i \in 1 .. m + 1, NEW k \in 1 .. m + 1, j[i] = j[k]
            PROVE  i = k
        <4>1. \A x \in 1 .. m + 1 : x = m + 1 \/ x \in 1 .. m  OBVIOUS
        <4>2. CASE i \in 1 .. m /\ k \in 1 .. m
          BY <1>4, <2>3, <3>2, <4>2 DEF Path
        <4>3. CASE i = m + 1 \/ k = m + 1
          BY <2>3, <2>4, <3>2, <4>1, <4>3
        <4> QED  BY <4>1, <4>2, <4>3
      <3> QED  BY <3>1, <3>2 DEF Path
    <2>6. PICK n \in Nat : n = m + 1 /\ n - 1 = m /\ n # 0  OBVIOUS
    <2>7. Holds(data', buf', j, m) /\ written' = Off(m)
      BY <1>3, <2>1, <2>3 DEF Building, Holds
    <2>8. first' = HeadOf(j, n)
      BY <1>4, <2>1, <2>2, <2>3, <2>6 DEF HeadOf
    <2>9. j \in [1 .. n -> Clusters] /\ j[n] = got /\ Path(fat', j, n)
      BY <2>3, <2>5, <2>6
    <2>10. Building(j, n)'
      BY <2>1, <2>6, <2>7, <2>8, <2>9 DEF Building
    <2> QED  BY <2>6, <2>9, <2>10 DEF Built
  <1>12. CASE WriteData
    <2>1. /\ fat' = fat /\ data' = [data EXCEPT ![got] = Chunk]
          /\ written' = written + ClusUnits /\ prev' = got /\ first' = first
          /\ buf' = buf /\ pc = "data"
          /\ pc' = IF written + ClusUnits >= Len(buf) THEN "entry" ELSE "alloc"
      BY <1>12 DEF WriteData, Goto
    <2>2. m # 0 /\ got = l[m] /\ Holds(data, buf, l, m - 1)
          /\ written = Off(m - 1) /\ m \in 1 .. m
      BY <1>3, <2>1 DEF Building
    <2>3. Off(m) = written + ClusUnits /\ written \in Nat
      BY <2>2, OffStep
    <2>4. Chunk = Piece(buf, Off(m - 1))  BY <2>2 DEF Chunk, Piece
    <2>5. ASSUME NEW k \in 1 .. m PROVE data'[l[k]] = Piece(buf, Off(k - 1))
      <3>1. CASE k = m
        BY <1>4, <2>1, <2>2, <2>4, <3>1 DEF TypeOK
      <3>2. CASE k # m
        <4>1. k \in 1 .. m - 1  BY <3>2
        <4>2. l[k] # got  BY <1>4, <2>2, <3>2 DEF Path
        <4>3. data'[l[k]] = data[l[k]]  BY <1>4, <2>1, <4>2 DEF TypeOK
        <4> QED  BY <2>2, <4>1, <4>3 DEF Holds
      <3> QED  BY <3>1, <3>2
    <2>6. Holds(data', buf', l, m)  BY <2>1, <2>5 DEF Holds
    <2>7. pc' = "entry" => Len(buf) <= written'
      BY <1>7, <2>1, <2>3
    <2>8. Building(l, m)'
      BY <1>4, <2>1, <2>2, <2>3, <2>6, <2>7 DEF Building
    <2> QED  BY <2>8 DEF Built
  <1>13. CASE DirLink \/ DirZero
    <2>1. PICK d \in Clusters :
            /\ d \in DirClusters /\ WritesAt(d)
            /\ first' = first /\ written' = written /\ buf' = buf
            /\ pc \in {"dlink", "dzero"} /\ pc' \in {"dzero", "entry"}
      <3>1. CASE DirLink
        <4>1. prev \in Clusters /\ prev \in DirClusters
          BY <1>1, <3>1 DEF DirLink, Phase, IsCluster, BuildInv
        <4>2. WritesAt(prev)  BY <3>1 DEF DirLink, WritesAt, TypeOK
        <4> QED  BY <3>1, <4>1, <4>2 DEF DirLink, Goto
      <3>2. CASE DirZero
        <4>1. got \in Clusters /\ got \in DirClusters
          BY <1>1, <3>2 DEF DirZero, Phase, IsCluster, BuildInv
        <4>2. WritesAt(got)  BY <3>2 DEF DirZero, WritesAt, TypeOK
        <4> QED  BY <3>2, <4>1, <4>2 DEF DirZero, Goto
      <3> QED  BY <1>13, <3>1, <3>2
    <2>2. \A k \in 1 .. m : fat'[l[k]] = fat[l[k]] /\ data'[l[k]] = data[l[k]]
      BY <1>4, <1>6, <2>1 DEF WritesAt
    <2>3. Path(fat', l, m)  BY <1>4, <2>2, PathKept
    <2>4. /\ Holds(data, buf, l, m) /\ written = Off(m) /\ Len(buf) <= written
      BY <1>3, <2>1 DEF Building
    <2>5. Holds(data', buf', l, m)  BY <2>1, <2>2, <2>4 DEF Holds
    <2>6. Building(l, m)'
      BY <1>4, <2>1, <2>3, <2>4, <2>5 DEF Building
    <2> QED  BY <2>6 DEF Built
  <1>14. CASE DiskFull \/ WriteDataError \/ MkdirDataError \/ WriteEntry
              \/ DirFull \/ EntryError
    BY <1>14 DEF DiskFull, WriteDataError, MkdirDataError, WriteEntry, DirFull,
       EntryError, Fail, Abandon, Succeed, ClearLocals
  <1> QED
    BY <1>8, <1>9, <1>10, <1>11, <1>12, <1>13, <1>14 DEF Step

(* What an operation has promised its caller, should it return 0. *)
ReadsBack == \A n \in Names : (n # name \/ pc = "idle") /\ file[n] # Unknown
                                => Content(n) = file[n]
Promised ==
    pc # "idle" /\ goal # Unknown =>
      /\ goal \in Seq(Units)
      /\ kind = "delete" => goal = Absent /\ ~Exists(name)
      /\ kind \in {"write", "append", "create"} =>
           goal = buf /\ (Exists(name) => ~dirent[name].dir)
      /\ kind = "mkdir" => goal = Dir /\ buf = Dir
      /\ kind # "delete" => Built
Running ==
    /\ pc = "idle" => written = 0
    /\ pc # "idle" /\ kind = "delete" => pc = "free"
    /\ pc \in {"free", "reset"} /\ kind = "write" => Exists(name)
    /\ pc # "idle" /\ kind = "mkdir" =>
         ~Exists(name) /\ file[name] \in {Absent, Unknown}
FileInv ==
    health # "torn" =>
      /\ ReadsBack /\ Promised /\ Running
      /\ \A n \in Names : file[n] \in Seq(Units)

LEMMA FileInit == Init => FileInv
  <1> SUFFICES ASSUME Init PROVE ReadsBack /\ Promised /\ Running
                                 /\ \A n \in Names : file[n] \in Seq(Units)
    BY DEF FileInv
  <1>1. \A n \in Names : file[n] = Absent /\ dirent[n].used = FALSE
    BY DEF Init, NoEntry
  <1>2. \A n \in Names : Content(n) = Absent
    BY <1>1, ContentIs DEF ContentOf
  <1> QED
    BY <1>1, <1>2, UnitSeqs DEF Init, ReadsBack, Promised, Running

(* How an entry of each kind is read. *)
LEMMA FileEntry ==
    ASSUME NEW F, NEW D, NEW d, ~d, NEW c, NEW s
    PROVE  ContentOf(F, D, Entry(d, c, s))
             = UnitsOf(D, ChainOf(TheWalk(F, c)), s)
  <1> DEFINE e == Entry(d, c, s)
  <1>1. e.used = TRUE /\ e.dir = d /\ e.cluster = c /\ e.size = s
    BY DEF Entry
  <1> HIDE DEF e
  <1>2. ContentOf(F, D, e) = UnitsOf(D, ChainOf(TheWalk(F, c)), s)
    BY <1>1, Zenon DEF ContentOf
  <1> QED  BY <1>2 DEF e

LEMMA DirEntry ==
    \A F, D, e : e.used = TRUE /\ e.dir = TRUE /\ IsCluster(e.cluster)
                   => ContentOf(F, D, e) = D[e.cluster]
  BY Zenon DEF ContentOf

(* The last write makes the name read as promised. *)
LEMMA EntryReads ==
    ASSUME TypeOK, Promised, Running, WriteEntry, goal # Unknown
    PROVE  ContentOf(fat', data', dirent'[name]) = goal
  <1>1. pc = "entry" /\ kind # "delete" /\ kind \in Kinds /\ Built
        /\ name \in Names
    BY DEF WriteEntry, Running, Promised, TypeOK
  <1>2. PICK m \in Nat : \E l \in [1 .. m -> Clusters] : Building(l, m)
    BY <1>1 DEF Built
  <1>3. PICK l \in [1 .. m -> Clusters] : Building(l, m)  BY <1>2
  <1>4. /\ Path(fat, l, m) /\ first = HeadOf(l, m) /\ Holds(data, buf, l, m)
        /\ Len(buf) <= Off(m)
    BY <1>1, <1>3 DEF Building
  <1>5. /\ fat' = fat /\ data' = data
        /\ dirent'[name] = Entry(IF Exists(name) THEN dirent[name].dir
                                 ELSE kind = "mkdir", first,
                                 IF kind = "mkdir" THEN 0 ELSE Len(buf))
        /\ name' = name
    BY <1>1 DEF WriteEntry, TypeOK, Succeed, ClearLocals
  <1>6. ContentOf(fat', data', dirent'[name]) = ContentOf(fat, data, dirent'[name])
    BY <1>5
  <1>7. CASE kind # "mkdir"
    <2>1. goal = buf /\ buf \in Seq(Units) /\ (Exists(name) => ~dirent[name].dir)
      BY <1>1, <1>7 DEF Promised, Kinds
    <2>2. PICK d : ~d /\ dirent'[name] = Entry(d, first, Len(buf))
      <3>1. CASE Exists(name)
        <4>1. dirent'[name] = Entry(dirent[name].dir, first, Len(buf))
          BY <1>5, <1>7, <3>1, Zenon
        <4> QED  BY <2>1, <3>1, <4>1, Zenon
      <3>2. CASE ~Exists(name)
        <4>1. dirent'[name] = Entry(kind = "mkdir", first, Len(buf))
          BY <1>5, <1>7, <3>2, Zenon
        <4> QED  BY <1>7, <4>1, Zenon
      <3> QED  BY <3>1, <3>2
    <2>3. ChainOf(TheWalk(fat, first)) = l /\ Len(l) = m
      BY <1>4, PathIsChain
    <2>4. UnitsOf(data, l, Len(buf)) = buf
      BY <1>4, <2>1, <2>3, HoldsReads
    <2>5. ContentOf(fat, data, dirent'[name]) = buf
      <3>1. ContentOf(fat, data, Entry(d, first, Len(buf)))
              = UnitsOf(data, ChainOf(TheWalk(fat, first)), Len(buf))
        BY <2>2, FileEntry
      <3> QED  BY <2>2, <2>3, <2>4, <3>1
    <2> QED  BY <1>6, <2>1, <2>5
  <1>8. CASE kind = "mkdir"
    <2>1. goal = Dir /\ buf = Dir /\ ~Exists(name) /\ Len(Dir) = 1
      BY <1>1, <1>8 DEF Promised, Running, Dir
    <2>2. m # 0  BY <1>4, <2>1, OffStep
    <2>3. first = l[1] /\ IsCluster(first) /\ 1 \in 1 .. m
      BY <1>4, <2>2 DEF HeadOf, IsCluster
    <2>4. data[first] = Piece(Dir, Off(0))
      BY <1>4, <2>1, <2>3 DEF Holds
    <2>5. Piece(Dir, 0) = Dir
      <3>1. ClusUnits \in Nat \ {0}  BY Fat32Assumption DEF Fat32Assumption
      <3>2. Piece(Dir, 0) = SubSeq(Dir, 1, 1)
        BY <2>1, <3>1 DEF Piece
      <3>3. Dir \in Seq(Units)  BY UnitSeqs
      <3> QED  BY <2>1, <3>2, <3>3, SubSeqFull
    <2>6. dirent'[name] = Entry(TRUE, first, 0)
      <3>1. dirent'[name] = Entry(kind = "mkdir", first, 0)
        BY <1>5, <1>8, <2>1, Zenon
      <3>2. (kind = "mkdir") = TRUE  BY <1>8
      <3> QED  BY <3>1, <3>2
    <2>7. ContentOf(fat, data, dirent'[name]) = data[first]
      <3>1. /\ dirent'[name].used = TRUE /\ dirent'[name].dir = TRUE
            /\ dirent'[name].cluster = first
        BY <2>6 DEF Entry
      <3>2. IsCluster(dirent'[name].cluster)  BY <2>3, <3>1
      <3>3. ContentOf(fat, data, dirent'[name]) = data[dirent'[name].cluster]
        BY <3>1, <3>2, DirEntry
      <3> QED  BY <3>1, <3>3
    <2>8. ContentOf(fat, data, dirent'[name]) = Dir
      BY <2>4, <2>5, <2>7, OffStep
    <2> QED  BY <1>6, <2>1, <2>8
  <1> QED  BY <1>7, <1>8

(* A call starts with nothing built, and promises what it was given. *)
LEMMA CallFile ==
    ASSUME EocVictim \notin Clusters, TypeOK, Ownership, BuildInv, FileInv,
           Call, health # "torn", health' # "torn"
    PROVE  /\ ReadsBack' /\ Promised' /\ Running'
           /\ \A n \in Names : file'[n] \in Seq(Units)
  <1>1. /\ Phase /\ ReadsBack /\ Running
        /\ \A m \in Names : file[m] \in Seq(Units)
    BY DEF Ownership, FileInv
  <1>2. PICK n \in Names :
             \/ \E b \in Payloads : CallWrite(n, b) \/ CallAppend(n, b)
             \/ CallCreate(n) \/ CallMkdir(n) \/ CallDelete(n)
    BY DEF Call
  <1>3. /\ pc = "idle" /\ file' = file /\ fat' = fat /\ data' = data
        /\ name' = n /\ first' = first /\ prev' = prev /\ written' = written
        /\ first = 0 /\ prev = 0 /\ written = 0
    BY <1>1, <1>2 DEF CallWrite, CallAppend, CallCreate, CallMkdir, CallDelete,
       Begin, Refuse, disk, hist, Phase, Running
  <1>4. \A m \in Names \ {n} : Content(m)' = Content(m)
    BY <1>3, OthersStep DEF Next
  <1>5. ASSUME NEW k \in Kinds, Refuse(k, n)
        PROVE  ReadsBack' /\ Promised' /\ Running'
    <2>1. pc' = "idle" /\ dirent' = dirent  BY <1>3, <1>5 DEF Refuse, disk
    <2>2. \A m \in Names : Content(m)' = Content(m)
      BY <1>3, <2>1, ContentIs
    <2> QED  BY <1>1, <1>3, <2>1, <2>2 DEF ReadsBack, Promised, Running
  <1>6. CASE pc' # "idle"
    <2>1. ReadsBack'
      BY <1>1, <1>3, <1>4, <1>6 DEF ReadsBack
    <2>2. ASSUME NEW k \in {"write", "append", "create"}, NEW b, NEW w, NEW g,
                 NEW l, Begin(k, n, b, w, g, l),
                 \/ l = "free" /\ Exists(n)
                 \/ l = AfterSetup(b),
                 g # Unknown => g = b /\ b \in Seq(Units)
                                /\ (Exists(n) => ~dirent[n].dir)
          PROVE  Promised' /\ Running'
      <3>1. /\ pc' = l /\ kind' = k /\ buf' = b /\ dirent' = dirent
            /\ goal' # Unknown => goal' = g
        BY <2>2 DEF Begin, disk
      <3>2. Built'
        BY <1>3, <2>2, <3>1, NothingBuilt DEF AfterSetup
      <3>3. Promised'
        BY <1>3, <2>2, <3>1, <3>2 DEF Promised, Exists
      <3> QED  BY <1>3, <1>6, <2>2, <3>1, <3>3 DEF Running, Exists, AfterSetup
    <2>3. ASSUME NEW b \in Payloads, CallWrite(n, b)
          PROVE  Promised' /\ Running'
      <3>1. b \in Seq(Units) /\ (~Exists(n) \/ Exists(n))  BY UnitSeqs
      <3> DEFINE g == IF dirent[n].dir THEN Unknown ELSE b
      <3>2. g # Unknown => g = b /\ ~dirent[n].dir  OBVIOUS
      <3> HIDE DEF g
      <3>3. \/ Exists(n) /\ Begin("write", n, b, dirent[n].cluster, g, "free")
            \/ Begin("write", n, b, 0, g, AfterSetup(b))
        BY <2>3 DEF CallWrite, g
      <3> QED  BY <2>2, <3>1, <3>2, <3>3
    <2>4. ASSUME NEW b \in Payloads, CallAppend(n, b)
          PROVE  Promised' /\ Running'
      <3>1. b \in Seq(Units) /\ file[n] \in Seq(Units)  BY <1>1, UnitSeqs
      <3>2. CASE ~Exists(n)
        <4>1. Begin("write", n, b, 0, b, AfterSetup(b))
          BY <2>4, <3>2 DEF CallAppend
        <4> QED  BY <2>2, <3>1, <3>2, <4>1
      <3>3. CASE Exists(n)
        <4> DEFINE old == ReadUnits(dirent[n].cluster, dirent[n].size)
                   g   == IF dirent[n].dir \/ file[n] = Unknown THEN Unknown
                          ELSE file[n] \o b
        <4>1. Begin("append", n, old \o b, dirent[n].cluster, g, "free")
          BY <1>3, <1>6, <2>4, <3>3 DEF CallAppend, Refuse
        <4>2. g # Unknown => g = old \o b /\ ~dirent[n].dir /\ g \in Seq(Units)
          <5> SUFFICES ASSUME g # Unknown
                       PROVE  g = old \o b /\ ~dirent[n].dir /\ g \in Seq(Units)
            OBVIOUS
          <5>1. ~dirent[n].dir /\ file[n] # Unknown /\ g = file[n] \o b  OBVIOUS
          <5>2. Content(n) = old  BY <3>3, <5>1 DEF Content
          <5>3. Content(n) = file[n]  BY <1>1, <1>3, <5>1 DEF ReadsBack
          <5>4. file[n] \o b \in Seq(Units)  BY <3>1, ConcatProperties
          <5> HIDE DEF old, g
          <5> QED  BY <5>1, <5>2, <5>3, <5>4
        <4> HIDE DEF old, g
        <4> QED  BY <2>2, <3>3, <4>1, <4>2
      <3> QED  BY <3>2, <3>3
    <2>5. CASE CallCreate(n)
      <3>1. ~Exists(n) /\ Begin("create", n, <<>>, 0, <<>>, "entry")
        BY <1>3, <1>6, <2>5 DEF CallCreate, Refuse
      <3>2. Promised' /\ Running'  BY <2>2, <3>1, UnitSeqs DEF AfterSetup
      <3> QED  BY <1>1, <1>3, <2>1, <3>2
    <2>6. CASE CallMkdir(n)
      <3>1. ~Exists(n) /\ Begin("mkdir", n, Dir, 0, Dir, "alloc")
        BY <1>3, <1>6, <2>6 DEF CallMkdir, Refuse
      <3>2. /\ pc' = "alloc" /\ kind' = "mkdir" /\ buf' = Dir /\ dirent' = dirent
            /\ goal' # Unknown => goal' = Dir
        BY <3>1 DEF Begin, disk
      <3>3. Built'  BY <1>3, <3>2, NothingBuilt
      <3>4. Promised'
        BY <3>2, <3>3, UnitSeqs DEF Promised
      <3>5. file[n] \in {Absent, Unknown}
        <4>1. Content(n) = Absent  BY <3>1 DEF Content
        <4> QED  BY <1>1, <1>3, <4>1 DEF ReadsBack
      <3>6. Running'  BY <1>3, <3>1, <3>2, <3>5 DEF Running, Exists
      <3> QED  BY <1>1, <1>3, <2>1, <3>4, <3>6
    <2>7. CASE CallDelete(n)
      <3>1. /\ pc' = "free" /\ kind' = "delete"
            /\ dirent' = [dirent EXCEPT ![n] = NoEntry]
            /\ goal' # Unknown => goal' = Absent
        BY <1>3, <1>6, <2>7 DEF CallDelete, Refuse
      <3>2. dirent'[n] = NoEntry  BY <3>1 DEF TypeOK
      <3>3. ~Exists(name)'  BY <1>3, <3>2 DEF Exists, NoEntry
      <3>4. Promised' /\ Running'
        BY <3>1, <3>3, UnitSeqs DEF Promised, Running
      <3> QED  BY <1>1, <1>3, <2>1, <3>4
    <2> QED  BY <1>1, <1>2, <1>3, <2>1, <2>3, <2>4, <2>5, <2>6, <2>7
  <1>7. CASE pc' = "idle"
    <2>1. \E k \in Kinds : Refuse(k, n)
      BY <1>2, <1>7 DEF CallWrite, CallAppend, CallCreate, CallMkdir,
         CallDelete, Begin, AfterSetup, Kinds
    <2> QED  BY <1>1, <1>3, <1>5, <2>1
  <1> QED  BY <1>1, <1>3, <1>6, <1>7

(* Inside an operation the promise stands; the last step keeps it, or takes
   back what was known of the name. *)
LEMMA StepFile ==
    ASSUME EocVictim \notin Clusters, TypeOK, Ownership, BuildInv, FileInv,
           Step \/ LosePower, health # "torn", health' # "torn"
    PROVE  /\ ReadsBack' /\ Promised' /\ Running'
           /\ \A n \in Names : file'[n] \in Seq(Units)
  <1>1. /\ Phase /\ ReadsBack /\ Promised /\ Running
        /\ \A n \in Names : file[n] \in Seq(Units)
    BY DEF Ownership, FileInv
  <1>2. /\ pc # "idle" /\ name' = name /\ kind' = kind /\ name \in Names
    BY DEF Step, FreeCell, FreeEnd, ResetEntry, FatAlloc, FatLink,
       DiskFull, WriteData, WriteDataError, MkdirDataError, WriteEntry,
       DirAlloc, DirFull, DirLink, DirZero, EntryError, LosePower,
       TakeCell, Goto, Succeed, Fail, Abandon, ClearLocals, TypeOK
  <1>3. \A n \in Names \ {name} : Content(n)' = Content(n)
    BY <1>2, OthersStep DEF Next
  <1>4. CASE pc' # "idle"
    <2>1. /\ Step /\ file' = file /\ goal' = goal /\ buf' = buf
          /\ dirent' = dirent \/ (ResetEntry /\ kind = "write")
      BY <1>1, <1>4 DEF Step, FreeCell, FreeEnd, ResetEntry, FatAlloc, FatLink,
         DiskFull, WriteData, WriteDataError, MkdirDataError, WriteEntry,
         DirAlloc, DirFull, DirLink, DirZero, EntryError, LosePower,
         TakeCell, Goto, Succeed, Fail, Abandon, ClearLocals, hist, Phase
    <2>2. /\ Exists(name)' = Exists(name)
          /\ dirent'[name].dir = dirent[name].dir
      <3>1. CASE dirent' = dirent  BY <1>2, <3>1 DEF Exists
      <3>2. CASE ResetEntry /\ kind = "write"
        <4>1. Exists(name)  BY <1>1, <3>2 DEF Running, ResetEntry
        <4>2. dirent'[name] = Entry(dirent[name].dir, 0, 0)
          BY <1>2, <3>2 DEF ResetEntry, TypeOK
        <4>3. dirent'[name].used = TRUE /\ dirent'[name].dir = dirent[name].dir
          BY <4>2 DEF Entry
        <4>4. Exists(name) = TRUE  BY <1>2, <4>1 DEF Exists, TypeOK
        <4> QED  BY <1>2, <4>3, <4>4 DEF Exists
      <3> QED  BY <2>1, <3>1, <3>2
    <2>3. goal # Unknown /\ kind # "delete" => Built'
      BY <1>1, <1>2, <1>4, <2>1, BuiltStep DEF Promised
    <2>4. Promised'
      <3>1. CASE goal = Unknown  BY <2>1, <3>1 DEF Promised
      <3>2. CASE goal # Unknown
        <4>1. (Exists(name) => ~dirent[name].dir)
                => (Exists(name)' => ~dirent'[name].dir)
          BY <2>2, Zenon
        <4> QED
          BY <1>1, <1>2, <2>1, <2>2, <2>3, <3>2, <4>1 DEF Promised
      <3> QED  BY <3>1, <3>2
    <2>5. /\ kind = "delete" => pc' = "free"
          /\ pc' \in {"free", "reset"} /\ kind = "write"
               => pc \in {"free", "reset"}
      BY <1>1, <1>2, <1>4, <2>1 DEF Running, Step, FreeCell, FreeEnd, ResetEntry,
         FatAlloc, FatLink, DiskFull, WriteData, WriteDataError, MkdirDataError,
         WriteEntry, DirAlloc, DirFull, DirLink, DirZero, EntryError,
         TakeCell, Goto, Succeed, Fail, Abandon, ClearLocals, AfterSetup
    <2>6. Running'
      BY <1>1, <1>2, <1>4, <2>1, <2>2, <2>5 DEF Running
    <2>7. ReadsBack'
      BY <1>1, <1>2, <1>3, <1>4, <2>1 DEF ReadsBack
    <2> QED  BY <1>1, <2>1, <2>4, <2>6, <2>7
  <1>5. CASE pc' = "idle"
    <2>1. Promised'  BY <1>5 DEF Promised
    <2>2. written' = 0 /\ (MkdirDataError \/ Abandon \/ Succeed)
      BY <1>2, <1>5 DEF Step, FreeCell, FreeEnd, ResetEntry, FatAlloc, FatLink,
         DiskFull, WriteData, WriteDataError, MkdirDataError, WriteEntry,
         DirAlloc, DirFull, DirLink, DirZero, EntryError, LosePower,
         TakeCell, Goto, AfterSetup, Succeed, Fail, Abandon, ClearLocals
    <2>3. Running'  BY <1>5, <2>2 DEF Running
    <2>4. ASSUME NEW n \in Names
          PROVE  file'[n] = Unknown \/ (n # name /\ file'[n] = file[n])
                 \/ (n = name /\ file'[n] \in Seq(Units)
                       /\ ContentOf(fat', data', dirent'[name]) = file'[n])
      <3>1. CASE MkdirDataError
        <4>1. /\ kind = "mkdir" /\ file' = file /\ dirent' = dirent
          BY <3>1 DEF MkdirDataError
        <4>2. ~Exists(name) /\ file[name] \in {Absent, Unknown}
          BY <1>1, <1>2, <4>1 DEF Running
        <4>3. ContentOf(fat', data', dirent'[name]) = Absent
          BY <4>1, <4>2 DEF ContentOf, Exists
        <4> QED  BY <4>1, <4>2, <4>3, UnitSeqs
      <3>2. CASE Abandon
        BY <3>2 DEF Abandon
      <3>3. CASE Succeed
        <4>1. file' = [file EXCEPT ![name] = goal]  BY <3>3 DEF Succeed
        <4>2. file'[n] = IF n = name THEN goal ELSE file[n]
          BY <4>1 DEF TypeOK
        <4>3. CASE goal # Unknown /\ n = name
          <5>1. goal \in Seq(Units)  BY <1>1, <1>2, <4>3 DEF Promised
          <5>2. CASE WriteEntry
            BY <1>1, <4>2, <4>3, <5>1, <5>2, EntryReads
          <5>3. CASE FreeEnd
            <6>1. kind = "delete"
              BY <1>5, <5>3 DEF FreeEnd, Goto, AfterSetup
            <6>2. goal = Absent /\ ~Exists(name)
              BY <1>1, <1>2, <4>3, <6>1 DEF Promised
            <6>3. dirent' = dirent  BY <5>3 DEF FreeEnd
            <6>4. ContentOf(fat', data', dirent'[name]) = Absent
              BY <6>2, <6>3 DEF ContentOf, Exists
            <6> QED  BY <4>2, <4>3, <5>1, <6>2, <6>4
          <5>4. CASE ~WriteEntry /\ ~FreeEnd
            <6>1. MkdirDataError \/ Abandon
              BY <1>5, <5>4 DEF Step, FreeCell, ResetEntry, FatAlloc, FatLink,
                 DiskFull, WriteData, WriteDataError, DirAlloc, DirFull, DirLink,
                 DirZero, EntryError, LosePower, TakeCell, Goto, AfterSetup, Fail
            <6> QED  BY <3>1, <3>2, <6>1
          <5> QED  BY <5>2, <5>3, <5>4
        <4>4. CASE goal = Unknown \/ n # name  BY <4>2, <4>4
        <4> QED  BY <4>3, <4>4
      <3> QED  BY <2>2, <3>1, <3>2, <3>3
    <2>5. ReadsBack'
      <3>1. ASSUME NEW n \in Names, file'[n] # Unknown
            PROVE  Content(n)' = file'[n]
        <4>1. CASE n = name  BY <2>4, <3>1, <4>1, ContentIs
        <4>2. CASE n # name
          BY <1>1, <1>3, <2>4, <3>1, <4>2 DEF ReadsBack
        <4> QED  BY <4>1, <4>2
      <3> QED  BY <3>1 DEF ReadsBack
    <2>6. \A n \in Names : file'[n] \in Seq(Units)
      BY <1>1, <2>4, UnitSeqs
    <2> QED  BY <2>1, <2>3, <2>5, <2>6
  <1> QED  BY <1>4, <1>5

(* What callers were told is what they read back, on every volume, for every
   payload and through disk-full, failed writes and power losses: on a disk
   where the store through the end mark falls into no cluster. *)
THEOREM WrittenIsRead ==
    ASSUME EocVictim \notin Clusters
    PROVE  Spec => []ReadBack
  <1>1. TypeOK /\ Ownership /\ BuildInv /\ FileInv /\ [Next]_vars => FileInv'
    <2> SUFFICES ASSUME TypeOK, Ownership, BuildInv, FileInv, [Next]_vars,
                        health' # "torn"
                 PROVE  /\ ReadsBack' /\ Promised' /\ Running'
                        /\ \A n \in Names : file'[n] \in Seq(Units)
      BY DEF FileInv
    <2>1. health # "torn"  BY TornStays
    <2>2. CASE Call  BY <2>1, <2>2, CallFile
    <2>3. CASE Step \/ LosePower  BY <2>1, <2>3, StepFile
    <2>4. CASE UNCHANGED vars
      <3>1. \A n \in Names : Content(n)' = Content(n)
        BY <2>4, ContentIs DEF vars
      <3>2. ReadsBack /\ Promised /\ Running
            /\ \A n \in Names : file[n] \in Seq(Units)
        BY <2>1 DEF FileInv
      <3>3. Built => Built'  BY <2>4 DEF vars, Built, Building
      <3>4. Promised'
        BY <2>4, <3>2, <3>3 DEF vars, Promised, Exists
      <3> QED
        BY <2>4, <3>1, <3>2, <3>4 DEF vars, ReadsBack, Running, Exists
    <2> QED  BY <2>2, <2>3, <2>4 DEF Next
  <1>2. FileInv => ReadBack  BY DEF FileInv, ReadsBack, ReadBack
  <1> QED
    BY <1>1, <1>2, FileInit, TypeCorrect, OwnershipInvariant, BuildInvariant,
       PTL DEF Spec

=============================================================================

------------------------------- MODULE Fat32 -------------------------------
(***************************************************************************)
(* The cluster allocator and the mutating operations of the FAT32 driver   *)
(* (src/src/fs/fat32.c) on one directory.  Every write that reaches the    *)
(* disk is a step of its own, so that a power loss or a failed write can   *)
(* fall between any two of them.  The kernel runs one file operation at a  *)
(* time, hence one set of local variables.                                 *)
(*                                                                         *)
(* Data is counted in units, ClusUnits of them to a cluster.  A directory  *)
(* entry takes one slot here; the runs of slots that long names need are   *)
(* the subject of module Directory.                                        *)
(***************************************************************************)
EXTENDS Integers, Sequences, FiniteSets

CONSTANTS
    Names,          \* file names used in the directory
    NumClusters,    \* clusters of the volume, numbered from 2
    ClusUnits,      \* data units per cluster  (spc * bps)
    DirSlots,       \* directory slots per cluster  (spc * bps / 32)
    Payloads,       \* what a caller may pass as data
    MaxUnits,       \* bound: the largest file an append may build
    PowerLoss,      \* TRUE: power may fail between two disk writes
    WriteErrors,    \* TRUE: ata_write may fail on a data or directory cluster
    Eoc,            \* the end mark fat_alloc stores, 0x0FFFFFFF
    EocVictim       \* cluster on which FAT cell 0x0FFFFFFF would lie, 0 if none

Free     == 0                          \* FAT32_FREE
Clusters == 2 .. NumClusters + 1
RootClus == 2
IsCluster(c) == c \in Clusters         \* c >= 2 && !is_eoc(c)

ASSUME Fat32Assumption ==
    /\ NumClusters \in Nat \ {0}
    /\ Eoc \in Nat /\ Eoc > NumClusters + 1    \* is_eoc holds of no cluster
    /\ ClusUnits \in Nat \ {0} /\ DirSlots \in Nat \ {0}
    /\ MaxUnits \in Nat /\ EocVictim \in Nat
    /\ PowerLoss \in BOOLEAN /\ WriteErrors \in BOOLEAN
    /\ Payloads \subseteq Seq(UNION {{b[i] : i \in DOMAIN b} : b \in Payloads})
    /\ {"root", "walk", "first", "got"} \cap Names = {}

Kinds == {"write", "append", "create", "mkdir", "delete"}
PCs   == {"idle", "free", "reset", "alloc", "link", "data", "entry",
          "dlink", "dzero"}

VARIABLES
    fat,      \* [Clusters -> Free, Eoc or the next cluster]
    data,     \* [Clusters -> contents of the cluster]
    dirent,   \* [Names -> directory entry]
    pc, kind, name, buf,              \* the operation and its arguments
    walk,     \* c of fat_free_chain
    first,    \* first_clus
    prev,     \* prev_clus, or the directory's last cluster
    got,      \* the cluster fat_alloc took last
    written,  \* units written so far
    ret,      \* value the last call returned
    goal,     \* history: what the file holds if the call returns 0
    file,     \* history: what each name holds as far as callers can know
    health    \* history: "clean", "leaky" or "torn", see Loss

disk  == <<fat, data, dirent>>
local == <<kind, name, buf, walk, first, prev, got, written>>
hist  == <<goal, file, health>>
vars  == <<fat, data, dirent, pc, kind, name, buf, walk, first, prev, got,
           written, ret, goal, file, health>>

(* Contents that no payload equals *)
Dir     == <<"directory">>
Garbage == <<"garbage">>
Absent  == <<"absent">>
Unknown == <<"unknown">>

NoEntry == [used |-> FALSE, dir |-> FALSE, cluster |-> 0, size |-> 0]
Entry(d, c, s) == [used |-> TRUE, dir |-> d, cluster |-> c, size |-> s]

Exists(n) == dirent[n].used

(***************************************************************************)
(* Reading                                                                 *)
(***************************************************************************)

(* The clusters the loops "while (cur >= 2 && !is_eoc(cur))" visit from c:
   the least set that holds c and is closed under following links. *)
Closed(S) == \A x \in S : IsCluster(fat[x]) => fat[x] \in S
Reach(c)  == {x \in Clusters : \A S \in SUBSET Clusters :
                                  c \in S /\ Closed(S) => x \in S}

(* The same clusters in the order the loops visit them. *)
Chain(c) ==
    LET at[k \in 0 .. NumClusters] ==
            IF k = 0 THEN c
            ELSE LET p == at[k - 1] IN IF IsCluster(p) THEN fat[p] ELSE p
    IN  LET n == Cardinality({k \in 0 .. NumClusters - 1 : IsCluster(at[k])})
        IN  [k \in 1 .. n |-> at[k - 1]]

(* fat32_read: the first s units of the clusters of the chain, in order. *)
ReadUnits(c, s) ==
    LET ch == Chain(c)
        all[k \in 0 .. Len(ch)] ==
            IF k = 0 THEN <<>> ELSE all[k - 1] \o data[ch[k]]
        bytes == all[Len(ch)]
    IN  SubSeq(bytes, 1, IF s < Len(bytes) THEN s ELSE Len(bytes))

(* What a caller can read back under name n. *)
Content(n) ==
    CASE ~Exists(n)     -> Absent
      [] Exists(n) /\ dirent[n].dir /\ IsCluster(dirent[n].cluster)
                        -> data[dirent[n].cluster]
      [] OTHER          -> ReadUnits(dirent[n].cluster, dirent[n].size)

(* The first free cell from 2 upward, as fat_alloc searches. *)
FreeCells_TakesEnds ==  \* slip: an end mark passes for a free cell
    {c \in Clusters \ {RootClus} : fat[c] \in {Free, Eoc}}
FreeCells    == {c \in Clusters : fat[c] = Free}
IsFirstFree(c) == c \in FreeCells /\ \A d \in FreeCells : c <= d

(* The directory's clusters; find_free_slots extends behind the last one. *)
DirClusters  == Reach(RootClus)
HasFreeSlot  == Cardinality({n \in Names : Exists(n)})
                   < DirSlots * Cardinality(DirClusters)
IsDirTail(t) == t \in DirClusters /\ ~IsCluster(fat[t])

(***************************************************************************)
(* Bookkeeping of an operation                                             *)
(***************************************************************************)

(* The entry of the file being rewritten still names the old chain, which
   fat_free_chain has begun to free. *)
Suspended(n) ==
    /\ n = name /\ dirent[n].used
    /\ \/ kind = "write"  /\ pc \in {"free", "reset"}
       \/ kind = "append" /\ pc \in {"free", "alloc", "link", "data", "entry"}

(* What stopping here leaves behind: an entry that names a freed cluster or
   a directory cluster that was never zeroed ("torn"), or clusters that
   nothing names ("leaky").  The entry of a suspended file is still good if
   it names the head of what is left of the old chain or of the new one. *)
Named(c) == Suspended(name) /\ dirent[name].cluster = c

Torn == \/ health = "torn" \/ pc = "dzero"
        \/ Suspended(name) /\ dirent[name].cluster \notin {0, walk, first}
Lost == \/ health = "leaky" \/ pc \in {"link", "dlink"}
        \/ \E c \in {walk, first} : IsCluster(c) /\ ~Named(c)
Loss == IF Torn THEN "torn" ELSE IF Lost THEN "leaky" ELSE "clean"

ClearLocals ==
    /\ pc' = "idle" /\ buf' = <<>> /\ walk' = 0 /\ first' = 0 /\ prev' = 0
    /\ got' = 0 /\ written' = 0
    /\ UNCHANGED <<kind, name>>

Succeed == ClearLocals /\ ret' = 0 /\ goal' = Unknown /\ UNCHANGED health
           /\ file' = [file EXCEPT ![name] = goal]
Abandon == ClearLocals /\ goal' = Unknown
           /\ file' = [n \in Names |-> IF n = name \/ Loss = "torn"
                                      THEN Unknown ELSE file[n]]
           /\ health' = Loss
Fail    == Abandon /\ ret' = -1

Goto(label) == pc' = label /\ UNCHANGED <<kind, name, buf, ret, hist>>

(***************************************************************************)
(* Calls: the part of each operation before its first disk write           *)
(***************************************************************************)
Init ==
    /\ fat = [c \in Clusters |-> IF c = RootClus THEN Eoc ELSE Free]
    /\ data = [c \in Clusters |-> IF c = RootClus THEN Dir ELSE <<>>]
    /\ dirent = [n \in Names |-> NoEntry]
    /\ pc = "idle" /\ kind = "create" /\ name \in Names /\ buf = <<>>
    /\ walk = 0 /\ first = 0 /\ prev = 0 /\ got = 0 /\ written = 0
    /\ ret = 0 /\ goal = Unknown
    /\ file = [n \in Names |-> Absent] /\ health = "clean"

Begin(k, n, b, w, g, label) ==
    /\ pc = "idle"
    /\ kind' = k /\ name' = n /\ buf' = b /\ walk' = w /\ pc' = label
    /\ goal' = IF health = "torn" THEN Unknown ELSE g
    /\ UNCHANGED <<disk, first, prev, got, written, ret, file, health>>

Refuse(k, n) ==     \* return -1 with nothing touched
    /\ pc = "idle" /\ kind' = k /\ name' = n /\ ret' = -1
    /\ UNCHANGED <<disk, pc, buf, walk, first, prev, got, written, hist>>

AfterSetup(b) == IF b = <<>> THEN "entry" ELSE "alloc"

CallWrite(n, b) ==
    LET g == IF dirent[n].dir THEN Unknown ELSE b   \* is_dir is not asked
    IN  \/ Exists(n)  /\ Begin("write", n, b, dirent[n].cluster, g, "free")
        \/ ~Exists(n) /\ Begin("write", n, b, 0, g, AfterSetup(b))

CallAppend(n, b) ==
    \/ /\ ~Exists(n)                      \* becomes fat32_write
       /\ Begin("write", n, b, 0, b, AfterSetup(b))
    \/ /\ Exists(n)
       /\ dirent[n].size + Len(b) \in 1 .. MaxUnits
       /\ LET old == ReadUnits(dirent[n].cluster, dirent[n].size)
              g == IF dirent[n].dir \/ file[n] = Unknown THEN Unknown
                   ELSE file[n] \o b
          IN Begin("append", n, old \o b, dirent[n].cluster, g, "free")
    \/ Exists(n) /\ Refuse("append", n)   \* kmalloc found no room

CallCreate(n) ==
    \/ Exists(n) /\ Refuse("create", n)
    \/ ~Exists(n) /\ Begin("create", n, <<>>, 0, <<>>, "entry")

CallMkdir(n) ==
    \/ Exists(n) /\ Refuse("mkdir", n)
    \/ ~Exists(n) /\ Begin("mkdir", n, Dir, 0, Dir, "alloc")

CallDelete_Unmarked(n) ==   \* slip: the chain is freed, the entry kept
    \/ ~Exists(n) /\ Refuse("delete", n)
    \/ Exists(n) /\ Begin("delete", n, <<>>, dirent[n].cluster, Absent, "free")

CallDelete_NoFree(n) ==     \* slip: the entry goes, the chain stays
    \/ ~Exists(n) /\ Refuse("delete", n)
    \/ /\ pc = "idle" /\ Exists(n)
       /\ dirent' = [dirent EXCEPT ![n] = NoEntry] /\ ret' = 0
       /\ kind' = "delete" /\ name' = n
       /\ file' = [file EXCEPT ![n] = Absent]
       /\ UNCHANGED <<fat, data, pc, buf, walk, first, prev, got, written,
                      goal, health>>

(* The entry is marked 0xE5 before the chain is freed. *)
CallDelete(n) ==
    \/ ~Exists(n) /\ Refuse("delete", n)
    \/ WriteErrors /\ Exists(n) /\ Refuse("delete", n)
    \/ /\ pc = "idle" /\ Exists(n)
       /\ kind' = "delete" /\ name' = n
       /\ goal' = IF health = "torn" THEN Unknown ELSE Absent
       /\ dirent' = [dirent EXCEPT ![n] = NoEntry]
       /\ walk' = dirent[n].cluster /\ pc' = "free"
       /\ UNCHANGED <<fat, data, buf, first, prev, got, written, ret, file,
                      health>>

Call == \E n \in Names :
          \/ \E b \in Payloads : CallWrite(n, b) \/ CallAppend(n, b)
          \/ CallCreate(n) \/ CallMkdir(n) \/ CallDelete(n)

(***************************************************************************)
(* Steps: one disk write each                                              *)
(***************************************************************************)

(* fat_free_chain: read the link, free the cell, move on. *)
FreeCell ==
    /\ pc = "free" /\ IsCluster(walk)
    /\ fat' = [fat EXCEPT ![walk] = Free] /\ walk' = fat[walk]
    /\ UNCHANGED <<data, dirent, first, prev, got, written>> /\ Goto("free")

(* The test after the loop, "if (c >= 2 && is_eoc(c)) fat_set(c, FREE)",
   stores through the end mark itself: it clears four bytes of whatever
   lies at that FAT offset. *)
ZapEoc ==
    IF walk = Eoc /\ IsCluster(EocVictim)
    THEN data' = [data EXCEPT ![EocVictim] = Garbage]
    ELSE UNCHANGED data

FreeEnd ==
    /\ pc = "free" /\ ~IsCluster(walk)
    /\ ZapEoc /\ UNCHANGED <<fat, dirent>>
    /\ \/ kind = "delete" /\ Succeed
       \/ /\ kind # "delete" /\ walk' = 0
          /\ UNCHANGED <<first, prev, got, written>>
          /\ Goto(IF kind = "write" THEN "reset" ELSE AfterSetup(buf))

ResetEntry_Eoc ==       \* slip: an empty file gets an end mark for a cluster
    /\ pc = "reset"
    /\ dirent' = [dirent EXCEPT ![name] = Entry(dirent[name].dir, Eoc, 0)]
    /\ UNCHANGED <<fat, data, walk, first, prev, got, written>>
    /\ Goto(AfterSetup(buf))

(* dir_update_entry(entry, 0, 0) of fat32_write *)
ResetEntry ==
    /\ pc = "reset"
    /\ dirent' = [dirent EXCEPT ![name] = Entry(dirent[name].dir, 0, 0)]
    /\ UNCHANGED <<fat, data, walk, first, prev, got, written>>
    /\ Goto(AfterSetup(buf))

TakeCell_Unmarked(c, label) ==      \* slip: the cell is not marked as taken
    /\ IsFirstFree(c) /\ got' = c
    /\ UNCHANGED <<fat, data, dirent, walk, written>> /\ Goto(label)

(* fat_alloc(prev): mark the cell, then link it. *)
TakeCell(c, label) ==
    /\ IsFirstFree(c)
    /\ fat' = [fat EXCEPT ![c] = Eoc] /\ got' = c
    /\ UNCHANGED <<data, dirent, walk, written>> /\ Goto(label)

FatAlloc ==
    /\ pc = "alloc"
    /\ \E c \in Clusters :
         /\ TakeCell(c, IF prev = 0 THEN "data" ELSE "link")
         /\ first' = IF first = 0 THEN c ELSE first
    /\ UNCHANGED prev

FatLink ==
    /\ pc = "link"
    /\ fat' = [fat EXCEPT ![prev] = got]
    /\ UNCHANGED <<data, dirent, walk, first, prev, got, written>>
    /\ Goto("data")

DiskFull == pc = "alloc" /\ FreeCells = {} /\ Fail /\ UNCHANGED disk

Chunk_Short ==      \* slip: a full cluster loses its last unit
    SubSeq(buf, written + 1, IF Len(buf) - written > ClusUnits
                             THEN written + ClusUnits - 1 ELSE Len(buf))

(* One turn of the write loop; for mkdir, the block with . and .. *)
Chunk == SubSeq(buf, written + 1,
                IF Len(buf) - written > ClusUnits
                THEN written + ClusUnits ELSE Len(buf))

WriteData ==
    /\ pc = "data"
    /\ data' = [data EXCEPT ![got] = Chunk]
    /\ written' = written + ClusUnits /\ prev' = got
    /\ UNCHANGED <<fat, dirent, walk, first, got>>
    /\ Goto(IF written + ClusUnits >= Len(buf) THEN "entry" ELSE "alloc")

WriteDataError ==
    /\ WriteErrors /\ pc = "data" /\ kind # "mkdir" /\ Fail /\ UNCHANGED disk

MkdirDataError ==       \* the one error path that gives the cluster back
    /\ WriteErrors /\ pc = "data" /\ kind = "mkdir"
    /\ fat' = [fat EXCEPT ![got] = Free] /\ UNCHANGED <<data, dirent>>
    /\ ClearLocals /\ ret' = -1 /\ UNCHANGED <<file, health>>
    /\ goal' = Unknown

(* dir_update_entry, or dir_write_entry into a free slot *)
WriteEntry ==
    /\ pc = "entry" /\ (Exists(name) \/ HasFreeSlot)
    /\ dirent' = [dirent EXCEPT ![name] =
          Entry(IF Exists(name) THEN dirent[name].dir ELSE kind = "mkdir", first,
                IF kind = "mkdir" THEN 0 ELSE Len(buf))]
    /\ UNCHANGED <<fat, data>> /\ Succeed

(* find_free_slots extends a full directory: take, link, zero. *)
DirAlloc ==
    /\ pc = "entry" /\ ~Exists(name) /\ ~HasFreeSlot
    /\ \E c \in Clusters, t \in Clusters :
         IsDirTail(t) /\ prev' = t /\ TakeCell(c, "dlink")
    /\ UNCHANGED first

DirFull ==
    /\ pc = "entry" /\ ~Exists(name) /\ ~HasFreeSlot /\ FreeCells = {}
    /\ Fail /\ UNCHANGED disk

DirLink ==
    /\ pc = "dlink"
    /\ fat' = [fat EXCEPT ![prev] = got]
    /\ UNCHANGED <<data, dirent, walk, first, prev, got, written>>
    /\ Goto("dzero")

DirZero_Skipped ==      \* slip: the new directory cluster keeps its old data
    pc = "dzero" /\ UNCHANGED <<disk, walk, first, prev, got, written>>
    /\ Goto("entry")

DirZero ==
    /\ pc = "dzero"
    /\ data' = [data EXCEPT ![got] = Dir]
    /\ UNCHANGED <<fat, dirent, walk, first, prev, got, written>>
    /\ Goto("entry")

EntryError ==           \* a failed write of a directory cluster
    /\ WriteErrors /\ pc \in {"reset", "entry", "dzero"}
    /\ pc = "entry" => Exists(name) \/ HasFreeSlot
    /\ Fail /\ UNCHANGED disk

(* Power fails and the volume is mounted again: only the disk remains. *)
LosePower ==
    /\ PowerLoss /\ pc # "idle"
    /\ Abandon /\ UNCHANGED <<disk, ret>>

Step == \/ FreeCell \/ FreeEnd \/ ResetEntry \/ FatAlloc \/ FatLink
        \/ DiskFull \/ WriteData \/ WriteDataError \/ MkdirDataError
        \/ WriteEntry \/ DirAlloc \/ DirFull \/ DirLink \/ DirZero
        \/ EntryError

Next == Call \/ Step \/ LosePower

Spec == Init /\ [][Next]_vars

(***************************************************************************)
(* Properties                                                              *)
(***************************************************************************)
(* Every variable stays in its range; cells of the FAT hold a free mark, an
   end mark or a cluster of the volume (fat_set never stores anything else). *)
TypeOK ==
    /\ fat \in [Clusters -> Clusters \cup {Free, Eoc}]
    /\ DOMAIN data = Clusters
    /\ DOMAIN dirent = Names
    /\ \A n \in Names : /\ dirent[n].used \in BOOLEAN
                         /\ dirent[n].cluster \in Clusters \cup {0}
    /\ pc \in PCs /\ kind \in Kinds /\ name \in Names
    /\ walk \in Clusters \cup {Free, Eoc}
    /\ first \in Clusters \cup {0} /\ prev \in Clusters \cup {0}
    /\ got \in Clusters \cup {0}
    /\ written \in Nat /\ ret \in {0, -1}
    /\ DOMAIN file = Names /\ health \in {"clean", "leaky", "torn"}

(* The clusters an entry names, while no rewrite has begun to free them. *)
EntryHead(n) == IF Exists(n) /\ ~Suspended(n) THEN dirent[n].cluster ELSE 0
Roots    == Names \cup {"root", "walk", "first", "got"}

(* Where chains start: the directory, the entries, the rest of a chain that
   is being freed, the chain that is being built and a cell not linked yet. *)
Heads == [r \in Roots |->
            IF r \in Names       THEN EntryHead(r)
            ELSE IF r = "root"   THEN RootClus
            ELSE IF r = "walk"   THEN walk
            ELSE IF r = "first"  THEN first
            ELSE IF pc \in {"link", "dlink"} THEN got ELSE 0]

(* One owner per cluster: no two links, no link and no start of a chain, and
   no two starts lead to the same cluster, and none leads to a free one. *)
OneOwner(F, H) ==
    /\ \A c \in Clusters : \A d \in Clusters \ {c} :
         IsCluster(F[c]) => F[c] # F[d]
    /\ \A r \in Roots, c \in Clusters : IsCluster(H[r]) => F[c] # H[r]
    /\ \A r \in Roots : \A s \in Roots \ {r} : IsCluster(H[r]) => H[r] # H[s]
    /\ \A c \in Clusters : IsCluster(F[c]) => F[F[c]] # Free
    /\ \A r \in Roots : IsCluster(H[r]) => F[H[r]] # Free

(* What the locals mean at each point of an operation. *)
Phase ==
    /\ pc # "free" => walk = 0
    /\ pc \in {"idle", "free", "reset"} => first = 0 /\ prev = 0
    /\ pc = "alloc" => (prev = 0 <=> first = 0)
    /\ pc = "alloc" /\ prev # 0 => fat[prev] = Eoc
    /\ pc \in {"link", "dlink"} => /\ IsCluster(prev) /\ fat[prev] = Eoc
                                   /\ IsCluster(got) /\ fat[got] = Eoc
                                   /\ prev # got
    /\ pc \in {"data", "dzero"} => IsCluster(got) /\ fat[got] = Eoc
    /\ pc \in {"link", "data"} => first # 0
    /\ pc = "link" => kind # "mkdir"
    /\ pc \in {"dlink", "dzero"} => ~Exists(name)
    /\ pc \in {"alloc", "data"} /\ kind = "mkdir" =>
         buf = Dir /\ prev = 0 /\ (pc = "data" => got = first)
    /\ pc = "reset" => kind = "write"
    /\ pc = "free" => kind \in {"write", "append", "delete"}
    /\ pc # "idle" => EntryHead(name) = 0

(* The inductive invariant behind NoCrossLink and NoDangling. *)
Ownership == health # "torn" => OneOwner(fat, Heads) /\ Phase

(* Two chains never share a cluster: neither those of two entries, nor an
   entry's and the directory's, nor one of them and the chain an operation
   is building or freeing.  A FAT driver that breaks this overwrites one
   file through another (fat_alloc, fat_free_chain and their callers). *)
NoCrossLink ==
    health # "torn" =>
      \A r \in Roots : \A s \in Roots \ {r} :
        IsCluster(Heads[r]) /\ IsCluster(Heads[s])
          => Reach(Heads[r]) \cap Reach(Heads[s]) = {}

(* No entry and no link leads to a cluster that fat_alloc may hand out. *)
NoDangling ==
    health # "torn" =>
      \A r \in Roots : IsCluster(Heads[r])
        => \A c \in Reach(Heads[r]) : fat[c] # Free

(* As long as no operation failed half-way and power held, every cluster
   that is not free belongs to some chain: none is lost to the volume. *)
NoLostCluster ==
    health = "clean" =>
      \A c \in Clusters : fat[c] # Free =>
        \E r \in Roots : IsCluster(Heads[r]) /\ c \in Reach(Heads[r])

(* What callers were told is what they read back: after a call returned 0
   the name holds what was written, appended or made, and neither a later
   operation on another name nor its failure or a power loss changes it. *)
ReadBack ==
    health # "torn" =>
      \A n \in Names : (n # name \/ pc = "idle") /\ file[n] # Unknown
        => Content(n) = file[n]

(* The clusters of the directory hold directory slots, never file data. *)
DirIsDir ==
    health # "torn" /\ pc # "dzero" =>
      \A c \in DirClusters : data[c] = Dir

(* A step of an operation on one name never changes what another name
   reads, whether or not the operation succeeds. *)
OthersKept ==
    [][health' # "torn" =>
         \A n \in Names \ {name'} : Content(n)' = Content(n)]_vars

(* The loops over cluster chains (fat_free_chain, fat32_read, dir_iter and
   find_free_slots) stop only at a mark, so a cycle in the FAT makes them run
   for ever.  Whatever failed and however often power was lost before, links
   never close a cycle of two clusters or more, and one of a single cluster
   only on a torn volume: there a file's stale chain may have freed the
   directory's last cluster, and find_free_slots then takes that very cluster
   to link it behind itself. *)
ChainsEnd ==
    \A S \in SUBSET Clusters : S # {} =>
      \E c \in S : fat[c] \notin S \/ (fat[c] = c /\ health = "torn")

=============================================================================

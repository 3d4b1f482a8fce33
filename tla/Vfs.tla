-------------------------------- MODULE Vfs --------------------------------
(***************************************************************************)
(* Paths, the current directory and the file commands of the shell         *)
(* (src/src/fs/vfs.c; src/src/core/shell.c: cp, mv and the commands of one *)
(* call).                                                                  *)
(*                                                                         *)
(* Below, fat32.c is taken call by call, as module Fat32 shows it to be:   *)
(* a file or a directory takes one cluster at most, a directory never      *)
(* fills up, the volume may.  What Fat32 leaves out is here: directories   *)
(* have contents, clusters of removed directories keep theirs until they   *)
(* are used again, and ".." is an entry like the others.                   *)
(***************************************************************************)
EXTENDS Integers, Sequences, SequencesExt, FiniteSets, FiniteSetsExt, Functions, TLC

CONSTANTS
    Names,          \* the names callers give
    NumClusters,    \* of the volume, the root's included
    Lengths,        \* lengths that write and append are called with, in units
    MaxSize,        \* the longest block kmalloc has for an append
    CopyMax,        \* the static buffer of cp and mv
    PwdMax,         \* components pwd_buf has room for
    Paths,          \* the paths callers give: [abs : BOOLEAN, comps : Seq(..)]
    Pairs           \* those that cp and mv are given, source and target

ROOT     == 2
Clusters == ROOT .. ROOT + NumClusters - 1
UP       == ".."
SELF     == "."

ASSUME VfsAssumption ==
    /\ NumClusters \in Nat \ {0} /\ MaxSize \in Nat /\ CopyMax \in Nat /\ PwdMax \in Nat
    /\ Lengths \subseteq 1 .. MaxSize
    /\ Names \cap {UP, SELF} = {}
    /\ Pairs \subseteq Paths \X Paths
    /\ \A p \in Paths : p.abs \in BOOLEAN /\ p.comps \in Seq(Names \cup {UP, SELF})

VARIABLES
    disk,           \* [kind, ents]: the use of each cluster and, if it is walked
                    \* as a directory, the entries it shows
    cwd_cluster,
    pwd_buf,        \* the components of the path
    misused,        \* history: a call replaced a directory's contents or ".."
    cmd,            \* history: the command that came last
    lost,           \* history: clusters in use for what no path leads to
    tree,           \* history: the tree the callers were promised, path by path
    gone,           \* history: the current directory was deleted
    plain           \* history: pwd_buf has no "..", nor was it cut for length

vars == <<disk, cwd_cluster, pwd_buf, tree, misused, cmd, lost, gone, plain>>

Entries == [clus : Clusters \cup {0}, dir : BOOLEAN, size : 0 .. MaxSize]
Entry(c, d, s) == [clus |-> c, dir |-> d, size |-> s]
Empty   == <<>>     \* a cluster in which a walk finds no entry

Least(a, b) == IF a < b THEN a ELSE b

(***************************************************************************)
(* The calls of fat32.c.  Each returns the disk, and ret as the code does. *)
(***************************************************************************)
Returns(d, r) == [disk |-> d, ret |-> r]

(* fat32_find: cluster 0, which a ".." may name, holds nothing. *)
Found(d, dir, n) == dir \in Clusters /\ n \in DOMAIN d.ents[dir]

FreeClusters(d) == {c \in Clusters : d.kind[c] = "free"}

FatAlloc(d) == IF FreeClusters(d) = {} THEN 0 ELSE Min(FreeClusters(d))

FreeChain(d, c) == IF c < ROOT THEN d ELSE [d EXCEPT !.kind[c] = "free"]

(* A cluster is taken and written. *)
Fill(d, c, k, e) == [d EXCEPT !.kind[c] = k, !.ents[c] = e]

(* dir_write_entry.  For cluster 0 find_free_slots allocates a cluster that
   it links to nothing. *)
DirWriteEntry(d, dir, n, e) ==
    IF dir # 0 THEN Returns([d EXCEPT !.ents[dir] = n :> e @@ @], 0)
    ELSE IF FatAlloc(d) = 0 THEN Returns(d, -1)
    ELSE Returns(Fill(d, FatAlloc(d), "dir", n :> e), 0)

(* Allocate a cluster for size units and store size in the entry of n, made or
   there already; an attribute that is there stays. *)
StoreFile(d, dir, n, size) ==
    LET c == FatAlloc(d)
        b == Fill(d, c, "file", Empty)
    IN  IF size = 0 THEN DirWriteEntry(d, dir, n, Entry(0, FALSE, 0))
        ELSE IF c = 0 THEN Returns(d, -1)
        ELSE DirWriteEntry(b, dir, n,
                           Entry(c, Found(b, dir, n) /\ b.ents[dir][n].dir, size))

Fat32Write(d, dir, n, len) ==
    IF Found(d, dir, n)
    THEN LET e == d.ents[dir][n]
         IN  StoreFile([FreeChain(d, e.clus) EXCEPT !.ents[dir][n] = Entry(0, e.dir, 0)],
                       dir, n, len)
    ELSE StoreFile(d, dir, n, len)

Fat32Append(d, dir, n, len) ==
    IF ~Found(d, dir, n) THEN Fat32Write(d, dir, n, len)
    ELSE LET e == d.ents[dir][n]
         IN  IF e.size + len > MaxSize THEN Returns(d, -1)
             ELSE StoreFile(FreeChain(d, e.clus), dir, n, e.size + len)

DotDotPlain(dir) == dir     \* slip: the root not written as 0

(* The cluster a new ".." gives: 0 for the root. *)
DotDot(dir) == IF dir = ROOT THEN 0 ELSE dir

Fat32Create(d, dir, n, is_dir) ==
    IF Found(d, dir, n) THEN Returns(d, -1)
    ELSE IF ~is_dir THEN DirWriteEntry(d, dir, n, Entry(0, FALSE, 0))
    ELSE LET c == FatAlloc(d)
         IN  IF c = 0 THEN Returns(d, -1)
             ELSE DirWriteEntry(Fill(d, c, "dir", UP :> Entry(DotDot(dir), TRUE, 0)), dir, n, Entry(c, TRUE, 0))

DirIsEmptyYes(d, c) == TRUE     \* slip: not asked

DirIsEmpty(d, c) == DOMAIN d.ents[c] \cap Names = {}

Fat32Delete(d, dir, n) ==
    IF ~Found(d, dir, n) THEN Returns(d, -1)
    ELSE LET e == d.ents[dir][n]
         IN  IF e.dir /\ e.clus >= ROOT /\ ~DirIsEmpty(d, e.clus) THEN Returns(d, -1)
             ELSE Returns(FreeChain([d EXCEPT !.ents[dir] = Restrict(@, DOMAIN @ \ {n})],
                                    e.clus), 0)

(***************************************************************************)
(* resolve_path                                                            *)
(***************************************************************************)
Failed == [r |-> -1, cur |-> 0, cluster |-> 0, parent |-> 0, name |-> ""]

WalkFromStart(d, s, c, more) ==     \* slip: cur does not move on
    IF s.r # 2 \/ c = SELF THEN s
    ELSE IF ~more
    THEN [s EXCEPT !.r = IF Found(d, s.cur, c) THEN 0 ELSE 1, !.parent = s.cur, !.name = c,
                   !.cluster = IF Found(d, s.cur, c) THEN d.ents[s.cur][c].clus ELSE 0]
    ELSE IF Found(d, s.cur, c) /\ d.ents[s.cur][c].dir THEN s ELSE Failed

(* One component; more says that others follow.  r is 2 until the code
   returns. *)
WalkComponent(d, s, c, more) ==
    IF s.r # 2 \/ c = SELF THEN s
    ELSE IF ~more
    THEN [s EXCEPT !.r = IF Found(d, s.cur, c) THEN 0 ELSE 1,
                   !.parent = s.cur, !.name = c,
                   !.cluster = IF Found(d, s.cur, c) THEN d.ents[s.cur][c].clus ELSE 0]
    ELSE IF ~Found(d, s.cur, c) THEN Failed
    ELSE LET e == d.ents[s.cur][c]
         IN  IF e.dir THEN [s EXCEPT !.parent = s.cur, !.cur = e.clus] ELSE Failed

Resolve(d, cwd, p) ==
    LET start == IF p.abs THEN ROOT ELSE cwd
        walk  == [Failed EXCEPT !.r = 2, !.cur = start, !.parent = start]
        past[i \in 0 .. Len(p.comps)] ==
            IF i = 0 THEN walk
            ELSE WalkComponent(d, past[i - 1], p.comps[i], i < Len(p.comps))
        end   == past[Len(p.comps)]
    IN  IF ~p.abs /\ p.comps = <<>> THEN Failed
        ELSE IF end.r = 2 THEN [end EXCEPT !.r = 0, !.cluster = end.cur]
        ELSE end

(***************************************************************************)
(* The calls of vfs.c                                                      *)
(***************************************************************************)
IsRoot(p) == p = [abs |-> TRUE, comps |-> <<>>]

(* vfs_write, vfs_append: whether the last component is there is not asked. *)
VfsWrite(d, cwd, p, len) ==
    LET r == Resolve(d, cwd, p)
    IN  IF r.parent = 0 \/ r.name = "" THEN Returns(d, -1)
        ELSE Fat32Write(d, r.parent, r.name, len)

VfsAppend(d, cwd, p, len) ==
    LET r == Resolve(d, cwd, p)
    IN  IF r.parent = 0 \/ r.name = "" THEN Returns(d, -1)
        ELSE Fat32Append(d, r.parent, r.name, len)

VfsCreate(d, cwd, p, is_dir) ==
    LET r == Resolve(d, cwd, p)
    IN  IF r.r # 1 THEN Returns(d, -1)
        ELSE Fat32Create(d, r.parent, r.name, is_dir)

VfsDelete(d, cwd, p) ==
    LET r == Resolve(d, cwd, p)
    IN  IF r.r # 0 \/ r.name = "" THEN Returns(d, -1)
        ELSE Fat32Delete(d, r.parent, r.name)

(* vfs_stat: the entry, looked up once more in the parent. *)
VfsStat(d, cwd, p) ==
    LET r == Resolve(d, cwd, p)
    IN  IF r.r = 0 /\ Found(d, r.parent, r.name)
        THEN [ok |-> TRUE, dir |-> d.ents[r.parent][r.name].dir,
              size |-> d.ents[r.parent][r.name].size]
        ELSE [ok |-> FALSE, dir |-> FALSE, size |-> 0]

(* vfs_read: the units read, or -1. *)
VfsRead(d, cwd, p, maxlen) ==
    LET s == VfsStat(d, cwd, p)
    IN  IF ~s.ok \/ s.dir \/ Resolve(d, cwd, p).cluster = 0 THEN -1
        ELSE Least(s.size, maxlen)

(***************************************************************************)
(* The tree below the root, for the history variables and the properties   *)
(***************************************************************************)
(* The nodes: a path and the entry it leads to; the root counts as one. *)
Children(d, x) ==
    {[path |-> Append(x.path, n), at |-> d.ents[x.at.clus][n]]
     : n \in DOMAIN d.ents[x.at.clus] \cap Names}

Nodes(d) ==
    FoldLeft(LAMBDA nodes, i :
                nodes \cup UNION {Children(d, x) :
                                   x \in {y \in nodes : y.at.dir /\ y.at.clus \in Clusters}},
             {[path |-> <<>>, at |-> Entry(ROOT, TRUE, 0)]},
             [i \in 1 .. NumClusters |-> i])

LiveDirs(d) == {x.at.clus : x \in {y \in Nodes(d) : y.at.dir}}

(* The same as a tree of module Tree. *)
Dir     == <<"dir">>
File(s) == <<"file", s>>

TreeOf(nodes) ==
    [path \in {x.path : x \in nodes} |->
        LET e == (CHOOSE x \in nodes : x.path = path).at
        IN  IF e.dir THEN Dir ELSE File(e.size)]

(***************************************************************************)
(* Actions: the calls and commands                                         *)
(***************************************************************************)
Blank == [kind |-> [c \in Clusters |-> IF c = ROOT THEN "dir" ELSE "free"],
          ents |-> [c \in Clusters |-> Empty]]

Init ==
    /\ disk = Blank /\ tree = TreeOf(Nodes(Blank))
    /\ cwd_cluster = ROOT /\ pwd_buf = <<>>
    /\ misused = FALSE /\ gone = FALSE /\ plain = TRUE
    /\ lost = {} /\ cmd = "none"

(* The last component is a name, and that of no directory if contents are to
   be replaced.  Nothing in the code asks for this. *)
Careful(d, p, writes) ==
    LET r == Resolve(d, cwd_cluster, p)
    IN  /\ r.name \in Names
        /\ ~(writes /\ Found(d, r.parent, r.name) /\ d.ents[r.parent][r.name].dir)

(* The directory a call works in is one of the tree.  It is not if the path
   leads through the ".." of a first-level directory, which names cluster 0,
   or starts in a directory that was deleted: nothing in the code asks. *)
Lands(d, p) == Resolve(d, cwd_cluster, p).parent \in LiveDirs(d)

(* The node that a path names, read with what pwd says.  From a deleted
   directory, or a pwd that is not plain, a relative path promises nothing. *)
TextStep(path, c) ==
    IF c = SELF \/ (c = UP /\ path = <<>>) THEN path
    ELSE IF c = UP THEN Front(path) ELSE Append(path, c)

NodeOf(p) ==
    FoldLeft(TextStep, <<>>, IF p.abs THEN p.comps ELSE pwd_buf \o p.comps)

Promises(p) == p.abs \/ (~gone /\ plain)

(* A call that does not land changes no node, whatever it returns. *)
Known(p)   == Promises(p) \/ ~Lands(disk, p)
At(p, t)   == IF Lands(disk, p) THEN t ELSE tree

With(n, x)      == n :> x @@ tree
Without(t, n)   == Restrict(t, DOMAIN t \ {n})
SizeAt(n)       == IF n \in DOMAIN tree THEN tree[n][2] ELSE 0
(* A store that failed leaves a file that was there empty. *)
Stored(n, s, r) == IF r = 0 THEN With(n, File(s))
                   ELSE IF n \in DOMAIN tree THEN With(n, File(0)) ELSE tree

Used(d) == {c \in Clusters : d.kind[c] # "free"}

(* A command on the node of p, for mv and cp the target.  Calls that change
   nothing, as most that return -1, are left out. *)
SetDisk(command, p, d, careful, promised, t) ==
    /\ d # disk /\ disk' = d
    /\ cmd' = command
    /\ misused' = (misused \/ ~careful)
    /\ tree' = IF promised /\ careful THEN t ELSE TreeOf(Nodes(d))
    /\ lost' = Used(d) \cap (lost \cup IF Lands(disk, p) THEN {}
                                      ELSE Used(d) \ Used(disk))
    /\ gone' = (gone \/ (disk.kind[cwd_cluster] = "dir" /\ d.kind[cwd_cluster] # "dir"))
    /\ UNCHANGED <<cwd_cluster, pwd_buf, plain>>

Create(p) ==
    SetDisk("touch", p, VfsCreate(disk, cwd_cluster, p, FALSE).disk,
            Careful(disk, p, FALSE), Known(p), At(p, With(NodeOf(p), File(0))))

Mkdir(p) ==
    SetDisk("mkdir", p, VfsCreate(disk, cwd_cluster, p, TRUE).disk,
            Careful(disk, p, FALSE), Known(p), At(p, With(NodeOf(p), Dir)))

Write(p, len) ==
    LET w == VfsWrite(disk, cwd_cluster, p, len)
    IN  SetDisk("write", p, w.disk, Careful(disk, p, TRUE), Known(p),
                At(p, Stored(NodeOf(p), len, w.ret)))

AppendTo(p, len) ==
    LET w == VfsAppend(disk, cwd_cluster, p, len)
    IN  SetDisk("append", p, w.disk, Careful(disk, p, TRUE), Known(p),
                At(p, Stored(NodeOf(p), SizeAt(NodeOf(p)) + len, w.ret)))

Delete(p) ==
    SetDisk("rm", p, VfsDelete(disk, cwd_cluster, p).disk, Careful(disk, p, FALSE),
            Known(p), At(p, Without(tree, NodeOf(p))))

(* cmd_cp: what fits in the buffer is written to q. *)
Copy(p, q) ==
    LET n == VfsRead(disk, cwd_cluster, p, CopyMax)
        w == VfsWrite(disk, cwd_cluster, q, n)
    IN  /\ n >= 0
        /\ SetDisk("cp", q, w.disk, Careful(disk, q, TRUE), Promises(p) /\ Promises(q),
                   Stored(NodeOf(q), Least(SizeAt(NodeOf(p)), CopyMax), w.ret))

(* The target is the source itself, or in a directory that was deleted:
   cmd_mv asks for neither. *)
Astray(p, q) ==
    LET r == Resolve(disk, cwd_cluster, p)
        s == Resolve(disk, cwd_cluster, q)
    IN  ~Lands(disk, q) \/ (r.parent = s.parent /\ r.name = s.name)

MvUnasked(p, q) ==      \* slip: the result of vfs_write is not looked at
    LET n == VfsRead(disk, cwd_cluster, p, CopyMax)
        w == VfsWrite(disk, cwd_cluster, q, n)
        t == Stored(NodeOf(q), Least(SizeAt(NodeOf(p)), CopyMax), w.ret)
    IN  /\ n >= 0
        /\ SetDisk(IF Astray(p, q) THEN "mv astray" ELSE "mv", q,
                   VfsDelete(w.disk, cwd_cluster, p).disk,
                   Careful(disk, q, TRUE) /\ Careful(w.disk, p, FALSE),
                   Promises(p) /\ Promises(q), Without(t, NodeOf(p)))

(* cmd_mv: the same, and p is deleted if that returned 0. *)
Mv(p, q) ==
    LET n == VfsRead(disk, cwd_cluster, p, CopyMax)
        w == VfsWrite(disk, cwd_cluster, q, n)
        t == Stored(NodeOf(q), Least(SizeAt(NodeOf(p)), CopyMax), w.ret)
        command == IF Astray(p, q) THEN "mv astray" ELSE "mv"
        promised == Promises(p) /\ Promises(q)
    IN  /\ n >= 0
        /\ IF w.ret # 0
           THEN SetDisk(command, q, w.disk, Careful(disk, q, TRUE), promised, t)
           ELSE SetDisk(command, q, VfsDelete(w.disk, cwd_cluster, p).disk,
                        Careful(disk, q, TRUE) /\ Careful(w.disk, p, FALSE),
                        promised, Without(t, NodeOf(p)))

PwdAppendOnly(s, c) ==      \* slip: ".." not stripped
    IF c \in Names /\ Len(s.pwd) < PwdMax THEN [s EXCEPT !.pwd = Append(@, c)] ELSE s

(* pwd_buf after a relative path; fits tells whether every component did. *)
PwdComponent(s, c) ==
    CASE c = SELF -> s
      [] c = UP /\ s.pwd = <<>> -> s
      [] c = UP /\ s.pwd # <<>> -> [s EXCEPT !.pwd = Front(@)]
      [] c \in Names /\ Len(s.pwd) < PwdMax -> [s EXCEPT !.pwd = Append(@, c)]
      [] OTHER -> [s EXCEPT !.fits = FALSE]

PwdAfter(p) ==
    LET past[i \in 0 .. Len(p.comps)] ==
            IF i = 0 THEN [pwd |-> pwd_buf, fits |-> TRUE]
            ELSE PwdComponent(past[i - 1], p.comps[i])
    IN  past[Len(p.comps)]

Chdir(p) ==
    LET r == Resolve(disk, cwd_cluster, p)
        s == VfsStat(disk, cwd_cluster, p)
    IN  /\ IsRoot(p) \/ (r.cluster # 0 /\ s.ok /\ s.dir)
        /\ cwd_cluster' = r.cluster
        /\ pwd_buf' = IF p.abs THEN p.comps ELSE PwdAfter(p).pwd
        /\ plain' = IF p.abs THEN Range(p.comps) \subseteq Names
                    ELSE plain /\ PwdAfter(p).fits
        /\ gone' = (gone /\ ~p.abs)
        /\ cmd' = "cd" /\ UNCHANGED <<disk, tree, misused, lost>>

Next ==
    \/ \E x \in Pairs : Copy(x[1], x[2]) \/ Mv(x[1], x[2])
    \/ \E p \in Paths :
        \/ Create(p) \/ Mkdir(p) \/ Delete(p) \/ Chdir(p)
        \/ \E len \in Lengths : Write(p, len) \/ AppendTo(p, len)

Spec == Init /\ [][Next]_vars

-----------------------------------------------------------------------------
(* Type invariant. *)
TypeOK ==
    /\ disk.kind \in [Clusters -> {"free", "dir", "file"}]
    /\ \A c \in Clusters :
          /\ DOMAIN disk.ents[c] \subseteq Names \cup {UP}
          /\ \A n \in DOMAIN disk.ents[c] : disk.ents[c][n] \in Entries
    /\ cwd_cluster \in Clusters
    /\ pwd_buf \in Seq(Names \cup {UP, SELF})
    /\ lost \subseteq Clusters
    /\ misused \in BOOLEAN /\ gone \in BOOLEAN /\ plain \in BOOLEAN

(* The directories form a tree: an entry's cluster is used as the entry says,
   by no other entry, and ".." leads back to where a directory is entered;
   and what is in use is in the tree, or was taken by a call that works where
   no path leads: mkdir or touch through the ".." of a first-level directory,
   or any call in a directory that was deleted, whose cluster may meanwhile be
   another's.  Every call has to keep this on a volume that fills up (vfs.c,
   and fat32_create, fat32_delete below it). *)
TreeIntact ==
    ~misused =>
    LET live  == LiveDirs(disk)
        refs  == {x \in live \X Names : x[2] \in DOMAIN disk.ents[x[1]]}
        at(x) == disk.ents[x[1]][x[2]]
        full  == {x \in refs : at(x).clus # 0}
    IN  /\ \A x \in full :
              /\ disk.kind[at(x).clus] = IF at(x).dir THEN "dir" ELSE "file"
              /\ \A y \in full : at(x).clus = at(y).clus => x = y
              /\ at(x).dir => disk.ents[at(x).clus][UP].clus
                                = IF x[1] = ROOT THEN 0 ELSE x[1]
        /\ Used(disk) = live \cup {at(x).clus : x \in full} \cup lost

(* The prompt tells the truth: the path in pwd_buf leads to cwd_cluster, the
   two records vfs_chdir keeps of one place, until the directory is deleted
   under it, its path given with "..", or too long for the buffer. *)
PwdNamesCwd ==
    (~misused /\ ~gone /\ plain) =>
        LET r == Resolve(disk, ROOT, [abs |-> TRUE, comps |-> pwd_buf])
        IN  r.r = 0 /\ r.cluster = cwd_cluster

(* What the disk holds is what the callers were promised: a call that returned
   0 acted on the node its path names, relative to the prompt or not, and on
   no other, and one that failed changed nothing but the file it was to
   store (all of vfs.c and the shell's cp and mv).  The exception: a call whose
   directory is not in the tree (Lands) changes no node, and mkdir and touch
   return 0 all the same. *)
DiskHoldsTree == ~misused => tree = TreeOf(Nodes(disk))

(* Every command does to the tree what its name says: nothing is made twice or
   without a directory to be in, no directory goes that is not empty, append
   never shortens, and what mv takes away is at the target, as far as the
   buffer holds it; but for a file moved onto itself or into a directory that
   was deleted, which is gone (shell.c:422). *)
T == INSTANCE Tree WITH Sizes <- 0 .. MaxSize

KeepsTree == T!Spec
=============================================================================

-------------------------------- MODULE Tree --------------------------------
(***************************************************************************)
(* What the file system promises a caller: a tree of named directories and *)
(* files, in which each command does what its name says.  Paths are        *)
(* sequences of names from the root.  A command may also change nothing.   *)
(* Once a caller has misused it nothing is promised.                       *)
(***************************************************************************)
EXTENDS Integers, Sequences, SequencesExt, TLC

CONSTANTS Sizes, CopyMax

VARIABLES
    tree,       \* path -> Dir or File(size), for the paths there are
    misused,
    cmd         \* the command given last

vars == <<tree, misused>>

Dir      == <<"dir">>
File(s)  == <<"file", s>>
Files    == {File(s) : s \in Sizes}
Least(a, b) == IF a < b THEN a ELSE b

Init == tree = (<<>> :> Dir) /\ misused = FALSE

(* Steps from tree t to tree u. *)
InDir(t, p)   == p # <<>> /\ Front(p) \in DOMAIN t /\ t[Front(p)] = Dir
Without(t, p) == [q \in DOMAIN t \ {p} |-> t[q]]

(* A node is made in a directory that is there. *)
Make(t, u, p, x) == p \notin DOMAIN t /\ InDir(t, p) /\ u = p :> x @@ t

Change(t, u, p, x) == p \in DOMAIN t /\ t[p] \in Files /\ u = [t EXCEPT ![p] = x]

(* Only a node below which there is nothing goes. *)
Drop(t, u, p) ==
    /\ p \in DOMAIN t \ {<<>>}
    /\ \A q \in DOMAIN t : q = p \/ ~IsPrefix(p, q)
    /\ u = Without(t, p)

(* The contents of p, as far as CopyMax goes, get to q, new or there. *)
Store(t, u, q, x) == Make(t, u, q, x) \/ Change(t, u, q, x)
Copied(t, p)      == File(Least(t[p][2], CopyMax))

(* A file gets another name, or takes another's place, with its contents;
   what is beyond CopyMax stays behind. *)
Move(t, u, p, q) ==
    /\ p \in DOMAIN t /\ t[p] \in Files /\ p # q /\ InDir(t, q)
    /\ q \in DOMAIN t => t[q] \in Files
    /\ u = Without(q :> Copied(t, p) @@ t, p)

(* A store that failed half-way leaves the file that was there empty. *)
Emptied(t, u, p) == Change(t, u, p, File(0))

Step(t, u, c) ==
    \E p \in DOMAIN t \cup DOMAIN u :
      \/ c = "touch" /\ Make(t, u, p, File(0))
      \/ c = "mkdir" /\ Make(t, u, p, Dir)
      \/ c = "write" /\ \E x \in Files : Store(t, u, p, x)
      \/ c = "append" /\ \/ Emptied(t, u, p)
                         \/ \E x \in Files : /\ Store(t, u, p, x)
                                             /\ p \in DOMAIN t => x[2] > t[p][2]
      \/ c = "rm" /\ Drop(t, u, p)
      \/ c \in {"cp", "mv", "mv astray"} /\ Emptied(t, u, p)
      \* the source may be in a directory that is in the tree no longer
      \/ c \in {"cp", "mv"} /\ \E s \in Sizes : s <= CopyMax /\ Store(t, u, p, File(s))
      \/ c = "mv" /\ \E q \in DOMAIN u : Move(t, u, p, q)
      \* onto itself, or into a directory that is in the tree no longer
      \/ c = "mv astray" /\ Drop(t, u, p) /\ t[p] \in Files

Next == \/ misused'
        \/ Step(tree, tree', cmd') /\ UNCHANGED misused

Spec == Init /\ [][Next]_vars
=============================================================================

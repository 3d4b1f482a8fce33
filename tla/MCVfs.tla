------------------------------- MODULE MCVfs -------------------------------
(* Constants of Vfs for TLC. *)
EXTENDS Vfs

MaxNodes == 4      \* nodes of the tree, the root included
MaxLost  == 1      \* clusters that no path leads to

Abs(s) == [abs |-> TRUE, comps |-> s]
Rel(s) == [abs |-> FALSE, comps |-> s]

SomePaths ==
    {Abs(<<>>), Abs(<<"a">>), Abs(<<"a", "b">>), Abs(<<"a", "b", UP>>),
     Rel(<<"a">>), Rel(<<"b">>), Rel(<<"a", "b">>), Rel(<<UP>>), Rel(<<UP, "a">>), Rel(<<"b", UP, SELF, "a">>)}

SomePairs ==
    {<<Rel(<<"a">>), Rel(<<"b">>)>>, <<Rel(<<"b">>), Abs(<<"a", "b">>)>>,
     <<Rel(<<UP, "a">>), Rel(<<"b">>)>>, <<Abs(<<"a", "b">>), Rel(<<"b", UP, SELF, "a">>)>>,
     <<Rel(<<"b">>), Rel(<<"b">>)>>}

(* What decides nothing is left out of the states TLC tells apart: the last
   command, the entries of clusters that no walk from the root or the current
   directory reaches, and the prompt where PwdNamesCwd claims nothing and
   relative paths promise nothing. *)
Walked ==
    FoldLeft(LAMBDA S, i :
                S \cup UNION {{e.clus : e \in {x \in Range(disk.ents[c]) : x.dir}}
                              : c \in S \cap Clusters},
             {ROOT, cwd_cluster}, [i \in 1 .. NumClusters |-> i])

MCView ==
    <<disk.kind, [c \in Clusters |-> IF c \in Walked THEN disk.ents[c] ELSE Empty],
      cwd_cluster, IF gone \/ ~plain THEN <<>> ELSE pwd_buf, tree, misused, lost,
      gone, gone \/ plain>>

(* States after a misuse, of which nothing is claimed, larger trees and more
   lost clusters. *)
Bounded == ~misused /\ Cardinality(DOMAIN tree) <= MaxNodes /\ Cardinality(lost) <= MaxLost
=============================================================================

------------------------------ MODULE MCFat32 ------------------------------
(* Small volumes for TLC: two or three names, payloads of none to three
   units. *)
EXTENDS Fat32, TLC

CONSTANTS na, nb, nc, u, v    \* model values: names and two units of data

MCNames    == {na, nb}
MCThree    == {na, nb, nc}
MCTwo      == {<<u>>, <<v, u>>}
MCParts    == {<<>>, <<u>>, <<v, u, v>>}
MCSymmetry == Permutations(MCThree)

(* Once the volume is torn no property speaks of contents any more, and what
   happens to the table and the entries depends on their lengths only: torn
   states that differ in nothing else are one. *)
MCView ==
    IF health = "torn"
    THEN <<fat, [c \in Clusters |-> Len(data[c])], dirent, pc, kind, name, walk,
           first, prev, got, written, Len(buf), "torn">>
    ELSE vars
=============================================================================

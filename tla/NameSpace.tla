----------------------------- MODULE NameSpace -----------------------------
(***************************************************************************)
(* What a directory promises, free of slots and long-name records: a set   *)
(* of entries, each a name at a place.  A name is entered at once, and an  *)
(* entry goes at once, except that a delete may first leave it under its   *)
(* 8.3 alias, which is what a crash in the middle of a delete leaves.      *)
(***************************************************************************)
CONSTANTS Names, Places, Alias

VARIABLE entries    \* set of [at, name]

Init == entries = {}

Enter(e) ==
    /\ e \in [at : Places, name : Names]
    /\ \A f \in entries : f.at # e.at
    /\ entries' = entries \cup {e}

Degrade(e) ==
    entries' = (entries \ {e}) \cup {[e EXCEPT !.name = Alias[@]]}

Remove(e) == entries' = entries \ {e}

Next == \/ \E e \in entries' \ entries : Enter(e)
        \/ \E e \in entries : Degrade(e) \/ Remove(e)

Spec == Init /\ [][Next]_entries
=============================================================================

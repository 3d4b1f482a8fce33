---------------------------- MODULE MCDirectory ----------------------------
(* Two names of one part and one of two, with the same 8.3 alias "x".      *)
EXTENDS Directory

MCNames == {<<"x">>, <<"c">>, <<"a", "b">>}
MCAlias == [n \in MCNames |-> <<"x">>]
MCLabel == <<Label>>
MCDots  == <<Dot, DotDot>>
=============================================================================

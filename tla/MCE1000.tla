------------------------------ MODULE MCE1000 ------------------------------
(* Constants of E1000 for TLC: rings of three descriptors, so that both wrap
   and fill; two contents, so that a frame repeated, lost, changed or out of
   its turn shows. *)
EXTENDS E1000
=============================================================================

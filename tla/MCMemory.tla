------------------------------ MODULE MCMemory ------------------------------
(* Constants of Memory for TLC: machines of at most ten pages of 64 bytes,
   every map of two regions with ends on, beside and across pages. *)
EXTENDS Memory

Regions  == [base : {0, 70, 192, 330}, length : {50, 130, 330, 900}, available : BOOLEAN]
SomeMaps == Regions \X Regions

SomeSizes == {0, 1, 24, 57, 100, 129, 168, 209, 300}
=============================================================================

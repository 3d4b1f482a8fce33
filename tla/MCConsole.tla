----------------------------- MODULE MCConsole -----------------------------
(* Constants of Console for TLC: a screen of three rows of two characters and
   lines of up to two, so that a line fills its row, wraps and scrolls. *)
EXTENDS Console
=============================================================================

----------------------------- MODULE MCDesktop -----------------------------
(* Constants of Desktop for TLC: a screen of 8 by 7, at most two overlapping
   windows whose title bars leave one place to drag them by, and three places
   for the pointer: each is on a title bar, a close button or another window
   according to where the windows are. *)
EXTENDS Desktop

MCPlaces  == {<<2, 2>>}
MCPoints  == {<<3, 3>>, <<4, 3>>, <<5, 4>>}
MCMotions == {<<x, y>> : x \in -2 .. 2, y \in -1 .. 1}
=============================================================================

------------------------------- MODULE MCHttp -------------------------------
(* Two requests to one peer, each answered with a short header and a body    *)
(* of a few units.  Everything is finite: the .cfg files give the lengths,   *)
(* the number of connections and whether the link and the peer may fail.     *)
EXTENDS Http
=============================================================================

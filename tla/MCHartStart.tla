---------------------------- MODULE MCHartStart ----------------------------
(* HartStart with the instances of its cfgs.                               *)
EXTENDS HartStart
=============================================================================

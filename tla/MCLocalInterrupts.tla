------------------------- MODULE MCLocalInterrupts -------------------------
(* LocalInterrupts with the instances of its cfgs.                         *)
EXTENDS LocalInterrupts
=============================================================================

--------------------------- MODULE MCMachineTimer ---------------------------
(* MachineTimer with the instances of its cfgs.                            *)
EXTENDS MachineTimer
=============================================================================

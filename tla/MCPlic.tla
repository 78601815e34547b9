------------------------------- MODULE MCPlic -------------------------------
(***************************************************************************)
(* Plic with the instances of its cfgs.  The context of a hart is its      *)
(* number, except in the header generated for the two-hart machine         *)
(* (bsp/qemu-sifive_e_rv64x2/include/metal/machine.h), which tests for     *)
(* hart 0 twice and so has no context for hart 1.                          *)
(***************************************************************************)
EXTENDS Plic

SameIds      == [h \in Harts |-> h]
GeneratedIds == [h \in Harts |-> IF h = 0 THEN 0 ELSE -1]

OneOfEach == [s \in Sources |-> IF s = 1 THEN {"isr"} ELSE {"default"}]

OtherHart == {{1}}
=============================================================================

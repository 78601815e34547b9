-------------------------------- MODULE Clic --------------------------------
(* The core-local interrupt controller (sifive_clic0.c) of one hart.  A level, *)
(* a priority and a control register are bytes, the sets of their bits that    *)
(* are 1; the control register of an interrupt holds its privilege, its level  *)
(* and its priority from bit 7 down, and its lowest bit that exists also says  *)
(* whether it is vectored.                                                     *)
EXTENDS Integers, FiniteSets

CONSTANTS
    ClicIds,       \* interrupts, without 0, which holds the common handler
    ClicCsw,       \* METAL_INTERRUPT_ID_CSW: those below belong to the CPU controller
    ClicSw,        \* METAL_INTERRUPT_ID_SW, the software interrupt, one of those
    ClicIntBits,   \* number of bits a control register has
    ClicMaxLevels, \* max_levels of the board
    ClicBytes,     \* the levels and priorities the application sets
    ClicMaxCalls   \* bound: calls

ASSUME ClicAssumption == /\ ClicIds \subseteq Nat \ {0} /\ ClicCsw \in Nat /\ ClicSw \in 0..(ClicCsw - 1)
                         /\ ClicIntBits \in 1..8 /\ ClicMaxLevels \in Nat
                         /\ ClicBytes \subseteq SUBSET (0..7) /\ ClicMaxCalls \in Nat

VARIABLES
    clicMtvec,    \* mode in mtvec: "direct", "clic" or "vectored"
    clicCfg,      \* cliccfg: number of privilege and level bits, nvbit
    clicCtl,      \* control register of every interrupt
    clicIe, clicIp, \* the interrupts enabled, and those pending
    clicMtvt,     \* vector table: "null", "default" or the application's "isr"
    clicTable,    \* handler table, of the CPU controller for the low interrupts
    clicSub,      \* sub_int of the software interrupt in the CPU's table: the
                  \* "clic", which the common handler is given, or "other"
    clicReady,    \* the interrupts whose handler the last call on them registered
    clicTaken,    \* the interrupt taken last and where it went
    clicLast, clicCalls

clicVars == <<clicMtvec, clicCfg, clicCtl, clicIe, clicIp, clicMtvt, clicTable, clicSub,
              clicReady, clicTaken, clicLast, clicCalls>>

Least(a, b) == IF a < b THEN a ELSE b
Byte8 == 0..7
Implemented == {b \in Byte8 : b >= 8 - ClicIntBits}
VectorBit == 8 - ClicIntBits

\* Before the call of init.
ClicInit ==
    /\ clicMtvec = "direct" /\ clicCfg = [nm |-> 0, nl |-> 0, nv |-> 0]
    /\ clicCtl = [i \in ClicIds |-> {}]
    /\ clicIe = {} /\ clicIp = {}
    /\ clicMtvt = [i \in ClicIds |-> "null"] /\ clicTable = [i \in ClicIds |-> "null"]
    /\ clicSub = "other" /\ clicReady = {} /\ clicTaken = [id |-> 0, to |-> "none"]
    /\ clicLast = "none" /\ clicCalls = 0

----------------------------------------------------------------------------
\* The bits of a control register that hold the level and the priority.
LevelBits(cfg) == {b \in Byte8 : b < 8 - cfg.nm /\ b >= 8 - (cfg.nm + cfg.nl)}
PriorityBits(cfg) == {b \in Byte8 : b < 8 - (cfg.nm + cfg.nl) /\ b >= 8 - ClicIntBits}

Replaced(byte, bits, value) == ((byte \ bits) \cup (value \cap bits)) \cap Implemented

\* __metal_clic0_interrupt_set_level, _set_priority and _set_vector_mode.
WithLevel(cfg, byte, level) == Replaced(byte, LevelBits(cfg), level)
WithPriority(cfg, byte, p) ==
    IF cfg.nm + cfg.nl <= ClicIntBits THEN Replaced(byte, PriorityBits(cfg), p) ELSE byte
WithVector(byte, on) == Replaced(byte, {VectorBit}, IF on THEN {VectorBit} ELSE {})

\* __metal_clic0_interrupt_is_vectored, and _configure_get_vector_mode.
VectoredBit(id) == VectorBit \in clicCtl[id]
ModeOfClic == CASE clicMtvec = "clic" /\ clicCfg.nv = 1 -> "selective vector"
                [] clicMtvec = "clic" /\ clicCfg.nv = 0 -> "selective nonvector"
                [] clicMtvec = "vectored" -> "hardware vector"
                [] OTHER -> "direct"

----------------------------------------------------------------------------
ClicCall(op) == clicCalls < ClicMaxCalls /\ clicCalls' = clicCalls + 1 /\ clicLast' = op
ClicUnready(ids) == clicReady' = clicReady \ ids

\* __metal_driver_sifive_clic0_init; the CPU controller has been initialised.
ClicInitialise ==
    /\ clicMtvec = "direct"
    /\ clicMtvec' = "clic"
    /\ clicCfg' = [nm |-> 0, nl |-> Least(ClicMaxLevels, 8), nv |-> 0]
    /\ clicCtl' = [i \in ClicIds |->
                     WithLevel(clicCfg', clicCtl[i], 0..(Least(ClicMaxLevels, 8) - 1))]
    /\ clicIe' = {}
    /\ clicMtvt' = [i \in ClicIds |-> "null"]
    /\ clicTable' = [i \in ClicIds |-> IF i < ClicCsw THEN "default" ELSE "null"]
    /\ clicSub' = "clic"
    /\ UNCHANGED <<clicIp, clicReady, clicTaken, clicLast, clicCalls>>

\* Mutation of RegisterAllowed: the vector bit is not looked at.
RegisterAllowedAlways(id) == ModeOfClic # "hardware vector"

\* ..._register: refused for an interrupt that goes to the vector table.  Without a
\* handler of its own the software interrupt gets the default one, and its entry
\* the pointer that the application passes.
RegisterAllowed(id) == \/ ModeOfClic = "selective nonvector"
                       \/ ModeOfClic = "selective vector" /\ ~VectoredBit(id)
ClicRegister(id, isr) ==
    /\ RegisterAllowed(id) /\ ClicCall("register")
    /\ clicTable' = [clicTable EXCEPT ![id] = isr]
    /\ clicSub' \in IF id = ClicSw /\ isr = "default" THEN {"clic", "other"} ELSE {clicSub}
    /\ clicReady' = clicReady \cup {id}
    /\ UNCHANGED <<clicMtvec, clicCfg, clicCtl, clicIe, clicIp, clicMtvt, clicTaken>>

\* ..._vector_register.
ClicVectorRegister(id, isr) ==
    /\ \/ ModeOfClic = "hardware vector"
       \/ ModeOfClic = "selective vector" /\ VectoredBit(id)
    /\ ClicCall("vector register")
    /\ clicMtvt' = [clicMtvt EXCEPT ![id] = isr]
    /\ clicReady' = clicReady \cup {id}
    /\ UNCHANGED <<clicMtvec, clicCfg, clicCtl, clicIe, clicIp, clicTable, clicSub, clicTaken>>

ClicEnable(id) == ClicCall("enable") /\ clicIe' = clicIe \cup {id}
                  /\ UNCHANGED <<clicMtvec, clicCfg, clicCtl, clicIp, clicMtvt, clicTable,
                                 clicSub, clicReady, clicTaken>>
ClicDisable(id) == ClicCall("disable") /\ clicIe' = clicIe \ {id}
                   /\ UNCHANGED <<clicMtvec, clicCfg, clicCtl, clicIp, clicMtvt, clicTable,
                                  clicSub, clicReady, clicTaken>>

\* A write of control registers.
ClicControl(op, id, byte) ==
    /\ ClicCall(op) /\ ClicUnready({id})
    /\ clicCtl' = [clicCtl EXCEPT ![id] = byte]
    /\ UNCHANGED <<clicMtvec, clicCfg, clicIe, clicIp, clicMtvt, clicTable, clicSub, clicTaken>>

\* ..._enable_interrupt_vector and ..._disable_interrupt_vector.
ClicVectorEnable(id) == ModeOfClic \in {"selective vector", "hardware vector"}
                        /\ ClicControl("vector enable", id, WithVector(clicCtl[id], TRUE))
ClicVectorDisable(id) == ClicControl("vector disable", id, WithVector(clicCtl[id], FALSE))

\* ..._set_priority, and ..._set_preemptive_level, which sets both.
ClicSetPriority(id, p) == ClicControl("priority", id, WithPriority(clicCfg, clicCtl[id], p))
ClicSetLevel(id, l) ==
    ClicControl("level", id, WithPriority(clicCfg, WithLevel(clicCfg, clicCtl[id], l), l))

\* ..._set_vector_mode.
ClicSetVectorMode(mode) ==
    /\ ClicCall("mode") /\ ClicUnready(ClicIds)
    /\ clicMtvec' = IF mode = "hardware vector" THEN "vectored" ELSE "clic"
    /\ clicCfg' = [clicCfg EXCEPT !.nv = IF mode = "selective nonvector" THEN 0 ELSE 1]
    /\ UNCHANGED <<clicCtl, clicIe, clicIp, clicMtvt, clicTable, clicSub, clicTaken>>

\* ..._set_privilege and ..._set_threshold, which set the numbers of bits.
ClicConfigure(cfg) ==
    /\ ClicCall("configure") /\ clicCfg' = cfg
    /\ UNCHANGED <<clicMtvec, clicCtl, clicIe, clicIp, clicMtvt, clicTable, clicSub, clicReady,
                   clicTaken>>

\* ..._set_interrupt, ..._clear_interrupt, and the software interrupts of
\* ..._command_request; or a device.
ClicPend(id) == clicIp' = clicIp \cup {id} /\ UNCHANGED <<clicMtvec, clicCfg, clicCtl, clicIe,
                  clicMtvt, clicTable, clicSub, clicReady, clicTaken, clicLast, clicCalls>>
ClicClear(id) == clicIp' = clicIp \ {id} /\ UNCHANGED <<clicMtvec, clicCfg, clicCtl, clicIe,
                   clicMtvt, clicTable, clicSub, clicReady, clicTaken, clicLast, clicCalls>>

\* The hart takes an interrupt: __metal_exception_handler, which finds the handler of
\* a low interrupt and calls __metal_clic0_handler for the others, with the pointer
\* in the entry of the software interrupt; of anything but the controller that
\* handler is told that it has no interrupts.  Or the entry of the vector table.
Handled(id) == IF id < ClicCsw \/ clicSub = "clic" THEN clicTable[id] ELSE "null"
GoesTo(id) == CASE ModeOfClic = "hardware vector" -> clicMtvt[id]
                [] ModeOfClic = "selective vector" /\ VectoredBit(id) -> clicMtvt[id]
                [] OTHER -> Handled(id)
ClicTake(id) ==
    /\ clicMtvec # "direct" /\ id \in clicIe \cap clicIp
    /\ clicTaken' = [id |-> id, to |-> GoesTo(id)]
    /\ clicIp' = clicIp \ {id}
    /\ UNCHANGED <<clicMtvec, clicCfg, clicCtl, clicIe, clicMtvt, clicTable, clicSub,
                   clicReady, clicLast, clicCalls>>

ClicNext ==
    \/ ClicInitialise
    \/ /\ clicMtvec # "direct"
       /\ \/ \E id \in ClicIds :
               \/ \E isr \in {"isr", "default"} : ClicRegister(id, isr) \/ ClicVectorRegister(id, isr)
               \/ ClicEnable(id) \/ ClicDisable(id) \/ ClicVectorEnable(id) \/ ClicVectorDisable(id)
               \/ \E byte \in ClicBytes : ClicSetPriority(id, byte) \/ ClicSetLevel(id, byte)
          \/ \E mode \in {"selective nonvector", "selective vector", "hardware vector"} :
               ClicSetVectorMode(mode)
          \/ \E nm \in 0..2 : ClicConfigure([clicCfg EXCEPT !.nm = nm])
          \/ \E nl \in 0..8 : ClicConfigure([clicCfg EXCEPT !.nl = nl])
    \/ \E id \in ClicIds : ClicPend(id) \/ ClicClear(id) \/ ClicTake(id)

ClicSpec == ClicInit /\ [][ClicNext]_clicVars

----------------------------------------------------------------------------
\* ClicLands: an interrupt whose registration has succeeded goes to a handler,
\* unless the application has since changed its control register or the mode, or
\* has registered the software interrupt's default handler with another pointer
\* than the controller, which takes the common handler from every high interrupt.
ClicLands ==
    [][\A id \in ClicIds : ClicTake(id) /\ id \in clicReady /\ (id < ClicCsw \/ clicSub = "clic")
         => clicTaken'.to # "null"]_clicVars
============================================================================

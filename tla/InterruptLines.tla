--------------------------- MODULE InterruptLines ---------------------------
(* The interrupt lines of one hart behind its CPU controller (riscv_cpu.c),    *)
(* in direct and in vectored mode, the two controllers that only forward their *)
(* calls (sifive_local-external-interrupts0.c to the CPU controller,           *)
(* sifive_global-external-interrupts0.c to the PLIC), and the software         *)
(* interrupt behind the CLINT.                                                 *)
(*                                                                             *)
(* A call is one step: the application keeps a line disabled while it changes  *)
(* its handler, so that no trap looks at what a call has half written.         *)
EXTENDS Integers

CONSTANTS
    LocalLines,      \* METAL_INTERRUPT_ID_LC0 .. LC15 that are wired
    LineIsrs,        \* handlers of the application, each with data of its own
    FaultsVectored,  \* bus errors and exceptions happen in vectored mode too
    LineMaxCalls     \* bound: calls after the controllers are initialised

ASSUME LinesAssumption == /\ LocalLines \subseteq 16..31 /\ LocalLines # {}
                          /\ LineIsrs \cap {"null", "default", "plic"} = {}
                          /\ FaultsVectored \in BOOLEAN /\ LineMaxCalls \in Nat

Base == 0
Software == 3
External == 11
BusErrorLine == 128
WiredLines == LocalLines \cup {Software, External, BusErrorLine}

VARIABLES
    lineCpu,     \* the CPU controller and the CSRs of the hart
    linePlic,    \* the one global source at the PLIC
    lineInit,    \* init_done of the CLINT and of the forwarding controllers
    lineMsip,    \* the software interrupt bit of the hart
    lineAsked,   \* the handler the application last registered, of every line
    lineLanded,  \* the trap just taken: its line, and the handler and data it ran with
    lineCalls

lineVars == <<lineCpu, linePlic, lineInit, lineMsip, lineAsked, lineLanded, lineCalls>>

NoHandler == [handler |-> "null", data |-> "null"]
NoLanding == [line |-> -1, handler |-> "null", data |-> "null"]

\* From reset: memory is zeroed, mtvec holds early_trap_vector.
LineInit ==
    /\ lineCpu = [done |-> FALSE, vec |-> "early", on |-> {}, sub |-> {},
                  table |-> [l \in WiredLines |-> NoHandler],
                  exceptions |-> [c \in {2, Software} |-> "null"]]
    /\ linePlic = [done |-> FALSE, entry |-> NoHandler, on |-> FALSE, priority |-> 0, threshold |-> 0]
    /\ lineInit = {} /\ lineMsip = FALSE
    /\ lineAsked = [l \in WiredLines |-> "null"]
    /\ lineLanded = NoLanding /\ lineCalls = 0

----------------------------------------------------------------------------
(* The CPU controller: what a call makes of its state c.                       *)

\* Mutation of CpuInitialised: init_done is not tested.
CpuInitialisedAgain(c) ==
    [c EXCEPT !.done = TRUE, !.vec = IF @ = "early" THEN "direct" ELSE @, !.sub = {},
              !.table = [l \in WiredLines |-> IF l = BusErrorLine THEN @[l] ELSE NoHandler],
              !.exceptions = [e \in DOMAIN @ |-> "default"]]

\* ..._controller_interrupt_init.  It leaves the entry of the bus error unit.
CpuInitialised(c) ==
    IF c.done THEN c
    ELSE [c EXCEPT !.done = TRUE, !.vec = IF @ = "early" THEN "direct" ELSE @, !.sub = {},
                   !.table = [l \in WiredLines |-> IF l = BusErrorLine THEN @[l] ELSE NoHandler],
                   !.exceptions = [e \in DOMAIN @ |-> "default"]]

\* __metal_controller_interrupt_vector_mode, and _vector, which leaves
\* early_trap_vector for good.
VectorMode(c) == IF c.vec = "vectored" THEN "vectored" ELSE "direct"
VectorWritten(c, mode) == [c EXCEPT !.vec = mode]

\* The bus error unit's handler is registered in direct mode only.
Registrable(c, l) == l \in WiredLines /\ (l = BusErrorLine => VectorMode(c) = "direct")

\* ..._controller_interrupt_register; "default" is the null pointer, for which
\* the data names the controller behind the line.
CpuRegistered(c, l, isr, data) ==
    IF ~Registrable(c, l) THEN c
    ELSE IF isr # "default" THEN [c EXCEPT !.table[l] = [handler |-> isr, data |-> data]]
    ELSE IF l = BusErrorLine THEN [c EXCEPT !.table[l] = [handler |-> "default", data |-> data]]
    ELSE [c EXCEPT !.table[l].handler = "default", !.sub = @ \cup {l}]

\* __metal_local_interrupt_enable: the bus error unit has no bit in mie.
Maskable(l) == l \in LocalLines \cup {Base, Software, External}
CpuEnabled(c, l, on) ==
    IF ~Maskable(l) THEN c ELSE [c EXCEPT !.on = IF on THEN @ \cup {l} ELSE @ \ {l}]

\* ..._controller_set_vector_mode; the other modes belong to a CLIC.
CpuVectored(c, mode) == IF mode \in {"direct", "vectored"} THEN VectorWritten(c, mode) ELSE c

ExceptionRegistered(c, code, isr) == [c EXCEPT !.exceptions[code] = isr]

----------------------------------------------------------------------------
(* The calls of the application.  It initialises every controller once, the    *)
(* CPU controller first, and registers and enables after that.                 *)

LineCounted == lineCalls < LineMaxCalls /\ lineCalls' = lineCalls + 1 /\ lineLanded' = NoLanding
Initialised(k) == k \in lineInit

LineCpuInit ==
    /\ ~lineCpu.done
    /\ lineCpu' = CpuInitialised(lineCpu)
    /\ UNCHANGED <<linePlic, lineInit, lineMsip, lineAsked, lineCalls>>
    /\ lineLanded' = NoLanding

\* A controller k that registers the default handler of its lines.
RegistersLines(k, lines) ==
    /\ lineCpu.done /\ ~Initialised(k)
    /\ lineInit' = lineInit \cup {k}
    /\ lineCpu' = [lineCpu EXCEPT !.sub = @ \cup lines,
                     !.table = [l \in WiredLines |-> IF l \in lines THEN [@[l] EXCEPT !.handler = "default"]
                                                                     ELSE @[l]]]
    /\ lineAsked' = [l \in WiredLines |-> IF l \in lines THEN "default" ELSE lineAsked[l]]
    /\ UNCHANGED <<linePlic, lineMsip, lineCalls>>
    /\ lineLanded' = NoLanding

LineClintInit == RegistersLines("clint", {Software})
LocalInit == RegistersLines("local", LocalLines)

\* __metal_driver_riscv_plic0_init, which initialises its parent once more, and
\* takes the external line.
PlicTakesLine(c) ==
    LET ready == CpuInitialised(c)
        known == CpuRegistered(ready, External, "default", "plic")
    IN  CpuEnabled(CpuRegistered(known, External, "plic", "plic"), External, TRUE)

\* __metal_driver_riscv_plic0_register, by default with priority 1.
PlicRegistered(p, isr, data) ==
    IF isr = "default" THEN [p EXCEPT !.entry.handler = "default", !.priority = 1]
    ELSE [p EXCEPT !.entry = [handler |-> isr, data |-> data], !.priority = 2]

\* ..._global_external_interrupt_init: the PLIC first, then its source.
GlobalInit ==
    /\ lineCpu.done /\ ~Initialised("global")
    /\ lineInit' = lineInit \cup {"global"}
    /\ lineCpu' = PlicTakesLine(lineCpu)
    /\ linePlic' = PlicRegistered([linePlic EXCEPT !.done = TRUE, !.on = FALSE, !.entry = NoHandler,
                                                   !.threshold = 0], "default", "global")
    /\ lineAsked' = [lineAsked EXCEPT ![External] = "default"]
    /\ UNCHANGED <<lineMsip, lineCalls>>
    /\ lineLanded' = NoLanding

\* Which lines the application may give a handler, and through which controller:
\* local lines through the forwarding one, the rest at the CPU controller or the
\* CLINT.  The external line belongs to the PLIC.
Behind(l) == CASE l \in LocalLines -> Initialised("local")
               [] l = Software -> Initialised("clint")
               [] OTHER -> l = BusErrorLine /\ lineCpu.done

\* ..._local_external_interrupt_register and the CPU controller's own.
LineRegister(l, isr) ==
    /\ Behind(l) /\ l \notin lineCpu.on /\ LineCounted
    /\ lineCpu' = CpuRegistered(lineCpu, l, isr, isr)
    /\ lineAsked' = IF Registrable(lineCpu, l) THEN [lineAsked EXCEPT ![l] = isr] ELSE lineAsked
    /\ UNCHANGED <<linePlic, lineInit, lineMsip>>

\* ..._local_external_interrupt_enable and _disable, and the CPU controller's own.
LineEnable(l, on) ==
    /\ IF l = Base THEN lineCpu.done ELSE Behind(l)
    /\ LineCounted
    /\ lineCpu' = CpuEnabled(lineCpu, l, on)
    /\ UNCHANGED <<linePlic, lineInit, lineMsip, lineAsked>>

\* metal_interrupt_set_vector_mode of the CPU controller or, with a check of its
\* own, of the CLINT.
LineSetVectorMode(mode) ==
    /\ lineCpu.done /\ LineCounted
    /\ lineCpu' = CpuVectored(lineCpu, mode)
    /\ UNCHANGED <<linePlic, lineInit, lineMsip, lineAsked>>

\* metal_cpu_exception_register.
LineException(code, isr) ==
    /\ lineCpu.done /\ LineCounted
    /\ lineCpu' = ExceptionRegistered(lineCpu, code, isr)
    /\ UNCHANGED <<linePlic, lineInit, lineMsip, lineAsked>>

\* ..._global_external_interrupt_register, while the source is disabled.
GlobalRegister(isr) ==
    /\ Initialised("global") /\ ~linePlic.on /\ LineCounted
    /\ linePlic' = PlicRegistered(linePlic, isr, isr)
    /\ lineAsked' = [lineAsked EXCEPT ![External] = isr]
    /\ UNCHANGED <<lineCpu, lineInit, lineMsip>>

GlobalStores(p) ==
    /\ Initialised("global") /\ LineCounted
    /\ linePlic' = p
    /\ UNCHANGED <<lineCpu, lineInit, lineMsip, lineAsked>>

\* ..._global_external_interrupt_enable and _disable, _set_priority, which must be
\* below the maximum, and _set_threshold.
GlobalEnable(on) == GlobalStores([linePlic EXCEPT !.on = on])
GlobalPriority(n) == GlobalStores([linePlic EXCEPT !.priority = n])
GlobalThreshold(n) == GlobalStores([linePlic EXCEPT !.threshold = n])

\* metal_cpu_software_set_ipi and _clear_ipi, which find the CLINT behind the line.
LineIpi(on) ==
    /\ lineCpu.done /\ LineCounted
    /\ lineMsip' = IF Software \in lineCpu.sub THEN on ELSE lineMsip
    /\ UNCHANGED <<lineCpu, linePlic, lineInit, lineAsked>>

----------------------------------------------------------------------------
(* Traps.                                                                      *)

\* The entry that the function in slot l of __metal_vector_table reads.
VectorReads(l) == l

\* __metal_exception_handler, or in vectored mode the slot of the line, of which
\* the table has 32.
Dispatch(l) == CASE lineCpu.vec = "early" -> [handler |-> "spin", data |-> "null"]
                 [] lineCpu.vec = "direct" -> lineCpu.table[l]
                 [] OTHER -> IF l < 32 THEN lineCpu.table[VectorReads(l)]
                                       ELSE [handler |-> "past the table", data |-> "null"]

\* What the handler of a line runs in the end: the PLIC's that of the source, the
\* default one of the software line that of exception 3.
Runs(l, entry) ==
    CASE entry.handler = "plic" -> linePlic.entry
      [] entry.handler = "default" /\ l = Software ->
            [handler |-> lineCpu.exceptions[Software], data |-> "null"]
      [] OTHER -> entry

Lands(l, entry) == /\ lineLanded' = [line |-> l, handler |-> entry.handler, data |-> entry.data]
                   /\ UNCHANGED <<lineCpu, linePlic, lineInit, lineMsip, lineAsked, lineCalls>>

Raised(l) == CASE l = Software -> Software \in lineCpu.on /\ lineMsip
               [] l = External -> External \in lineCpu.on /\ linePlic.on
                                    /\ linePlic.priority > linePlic.threshold
               [] l = BusErrorLine -> lineAsked[l] # "null"
               [] OTHER -> l \in lineCpu.on

FaultHere == FaultsVectored \/ lineCpu.vec = "direct"

LineTrap(l) == /\ Base \in lineCpu.on /\ Raised(l)
               /\ l = BusErrorLine => FaultHere
               /\ Lands(l, Runs(l, Dispatch(l)))

\* An exception enters at the base: in vectored mode that is slot 0, whose function
\* ends the program.
LineFault(code) ==
    /\ lineCpu.done /\ FaultHere
    /\ Lands(code, IF lineCpu.vec = "direct"
                   THEN [handler |-> lineCpu.exceptions[code], data |-> "null"]
                   ELSE [handler |-> "shutdown 300", data |-> "null"])

LineNext ==
    \/ LineCpuInit \/ LineClintInit \/ LocalInit \/ GlobalInit
    \/ \E l \in WiredLines, isr \in LineIsrs \cup {"default"} : LineRegister(l, isr)
    \/ \E l \in WiredLines \cup {Base}, on \in BOOLEAN : LineEnable(l, on)
    \/ \E mode \in {"direct", "vectored", "clic"} : LineSetVectorMode(mode)
    \/ \E isr \in LineIsrs : LineException(2, isr) \/ LineException(Software, isr)
    \/ \E isr \in LineIsrs \cup {"default"} : GlobalRegister(isr)
    \/ \E on \in BOOLEAN : GlobalEnable(on) \/ LineIpi(on)
    \/ \E n \in 0..2 : GlobalPriority(n) \/ GlobalThreshold(n)
    \/ \E l \in WiredLines : LineTrap(l)
    \/ LineFault(2)

LineSpec == LineInit /\ [][LineNext]_lineVars

----------------------------------------------------------------------------
\* LandsAsAsked: in both modes a trap runs the handler that was last registered for
\* its line through any controller, with the data registered with it, whichever
\* controllers were initialised since; the default handler of the software line
\* runs that of exception 3, and an exception its own.
LandsAsAsked ==
    LET l == lineLanded.line IN
    /\ l \in WiredLines =>
         IF lineAsked[l] \in LineIsrs
         THEN lineLanded.handler = lineAsked[l] /\ lineLanded.data = lineAsked[l]
         ELSE lineLanded.handler = IF l = Software THEN lineCpu.exceptions[Software] ELSE "default"
    /\ l = 2 => lineLanded.handler = lineCpu.exceptions[2]
=============================================================================

--------------------------- MODULE LocalInterrupts ---------------------------
(***************************************************************************)
(* How the harts set up the software, timer and external interrupt lines   *)
(* of their local interrupt controllers, and what a trap then finds        *)
(* (metal/src/drivers/riscv_cpu.c, riscv_clint0.c and the init function of *)
(* riscv_plic0.c).                                                         *)
(*                                                                         *)
(* The handler table and init_done belong to a controller, one per hart,   *)
(* in memory; mtvec, mie and mstatus are CSRs of the hart that executes.   *)
(* A function of one controller may run on any hart, so the two may part.  *)
(*                                                                         *)
(* A call is one write after the other: at[h] is the next one of hart h,   *)
(* and job[h] the call and how far its loops are.  Traps preempt it        *)
(* anywhere.                                                               *)
(***************************************************************************)
EXTENDS Integers

CONSTANTS
    N,              \* number of harts, in the order of the parents of the
                    \* CLINT and the PLIC
    IntcsFirst      \* the application initialises every CPU controller before
                    \* it initialises the CLINT or the PLIC

ASSUME HartsAssumption == N \in Nat \ {0}
ASSUME OrderAssumption == IntcsFirst \in BOOLEAN

Harts == 0 .. N - 1
Lines == {"SW", "TMR", "EXT"}
ClintLines == {"SW", "TMR"}

\* What a table entry can hold.  "isr" is the handler the application
\* registers for the line, whose private data is "own".
Handlers == {"null", "default", "isr", "plic"}
Privs    == {"null", "own", "plic"}

VARIABLES
    mtvec,          \* of each hart: "early" (early_trap_vector) or "table"
    mie,            \* of each hart: the lines enabled
    mstatus,        \* of each hart: the global enable
    intcDone,       \* init_done of the controller of each hart
    handler, data,  \* metal_int_table of each controller, by line
    sub,            \* sub_int of each entry: the CLINT or PLIC is known
    clintDone, plicDone,
    at,             \* the next write of the call each hart is in, or "idle"
    job,            \* the call, and the controller and the line it is at
    called,         \* the harts that have called the init function of their
                    \* CPU controller
    begun,          \* whether that of the CLINT and the PLIC has been called
    trap,           \* the trap each hart is in: line and private data read
    fate            \* "ok", or what a trap has made of the hart

csr    == <<mtvec, mie, mstatus>>
tables == <<handler, data, sub>>
done   == <<intcDone, clintDone, plicDone>>
thread == <<at, job>>
vars   == <<csr, tables, done, thread, called, begun, trap, fate>>

NoTrap == [line |-> "none", priv |-> "null"]
Job(op, g, l) == [op |-> op, parent |-> g, line |-> l]
NoJob == Job("none", 0, "none")
Table(v) == [h \in Harts |-> [l \in Lines |-> v]]

Init ==
    /\ mtvec = [h \in Harts |-> "early"]
    /\ mie = [h \in Harts |-> {}]
    /\ mstatus = [h \in Harts |-> FALSE]
    /\ intcDone = [h \in Harts |-> FALSE]
    /\ handler = Table("null") /\ data = Table("null") /\ sub = Table(FALSE)
    /\ clintDone = FALSE /\ plicDone = FALSE
    /\ at = [h \in Harts |-> "idle"] /\ job = [h \in Harts |-> NoJob]
    /\ called = {} /\ begun = {}
    /\ trap = [h \in Harts |-> NoTrap]
    /\ fate = [h \in Harts |-> "ok"]

-----------------------------------------------------------------------------
(* The calls *)

\* Hart h executes its thread: it is in no trap and still alive.
Runs(h) == fate[h] = "ok" /\ trap[h] = NoTrap
Idle(h) == Runs(h) /\ at[h] = "idle"

\* The thread of h comes to the write `label` of the call j.
Goes(h, label, j) ==
    /\ at' = [at EXCEPT ![h] = label]
    /\ job' = [job EXCEPT ![h] = j]

Call(h, label, op, g, l) ==
    /\ Idle(h)
    /\ Goes(h, label, Job(op, g, l))
    /\ UNCHANGED <<csr, tables, done, trap, fate>>

(***************************************************************************)
(* The application keeps to metal/interrupt.h: it initialises no           *)
(* controller twice, a hart its own CPU controller; it registers and       *)
(* enables lines of a controller that is initialised, and registers before *)
(* it enables, on the hart the line belongs to.                            *)
(***************************************************************************)
CallIntcInit(h) ==
    /\ h \notin called
    /\ called' = called \cup {h}
    /\ Call(h, "intcTest", "intc", h, "none")
    /\ UNCHANGED begun

AllIntcs == \A g \in Harts : g \in called /\ intcDone[g]

CallClintInit(h) ==
    /\ "clint" \notin begun
    /\ IF IntcsFirst THEN AllIntcs ELSE intcDone[h]
    /\ begun' = begun \cup {"clint"}
    /\ Call(h, "clintTest", "clint", 0, "SW")
    /\ UNCHANGED called

CallPlicInit(h) ==
    /\ "plic" \notin begun
    /\ IF IntcsFirst THEN AllIntcs ELSE intcDone[h]
    /\ begun' = begun \cup {"plic"}
    /\ Call(h, "plicTest", "plic", 0, "EXT")
    /\ UNCHANGED called

\* The controllers that the line l of hart h goes through are initialised.
Ready(h, l) ==
    /\ h \in called /\ intcDone[h]
    /\ IF l = "EXT" THEN plicDone ELSE clintDone

\* metal_interrupt_register_handler on the CLINT: the parent it finds for the
\* line is the controller of the calling hart.
CallRegister(h, l) ==
    /\ Ready(h, l)
    /\ l \notin mie[h]
    /\ Call(h, "isr", "register", h, l)
    /\ UNCHANGED <<called, begun>>

\* metal_interrupt_enable and _disable of a line, and of the global enable,
\* which are one CSR instruction.
Enable(h, l) ==
    /\ Idle(h)
    /\ Ready(h, l)
    /\ mie' = [mie EXCEPT ![h] = @ \cup {l}]
    /\ UNCHANGED <<mtvec, mstatus, tables, done, thread, called, begun, trap, fate>>

Disable(h, l) ==
    /\ Idle(h)
    /\ mie' = [mie EXCEPT ![h] = @ \ {l}]
    /\ UNCHANGED <<mtvec, mstatus, tables, done, thread, called, begun, trap, fate>>

GlobalEnable(h, b) ==
    /\ Idle(h)
    /\ b => h \in called /\ intcDone[h]
    /\ mstatus' = [mstatus EXCEPT ![h] = b]
    /\ UNCHANGED <<mtvec, mie, tables, done, thread, called, begun, trap, fate>>

-----------------------------------------------------------------------------
(* One write of a call *)

Own(h) == job[h].parent         \* the controller h works on, and the line
Line(h) == job[h].line

\* The write `label` of hart h is next.
Write(h, label) ==
    /\ Runs(h) /\ at[h] = label
    /\ UNCHANGED <<called, begun, trap, fate>>

\* A loop over the parents: the next turn starts at `first`, with the line l.
Loop(h, first, l, after) ==
    IF Own(h) + 1 < N THEN Goes(h, first, Job(job[h].op, Own(h) + 1, l))
                      ELSE Goes(h, after, job[h])

\* __metal_driver_riscv_cpu_controller_interrupt_init, which returns to its
\* caller or to the loop of the PLIC.
IntcReturns(h) ==
    IF job[h].op = "plic" THEN Goes(h, "default", job[h]) ELSE Goes(h, "idle", NoJob)

\* Mutation of IntcTest: init_done is not tested.
IntcTestAlways(h) ==
    /\ Write(h, "intcTest")
    /\ Goes(h, "wipe", job[h])
    /\ UNCHANGED <<csr, tables, done>>

IntcTest(h) ==
    /\ Write(h, "intcTest")
    /\ IF intcDone[Own(h)] THEN IntcReturns(h) ELSE Goes(h, "wipe", job[h])
    /\ UNCHANGED <<csr, tables, done>>

\* Mutation of Wipe: the trap vector is forgotten.
WipeNoVector(h) ==
    /\ Write(h, "wipe")
    /\ handler' = [handler EXCEPT ![Own(h)] = [l \in Lines |-> "null"]]
    /\ data' = [data EXCEPT ![Own(h)] = [l \in Lines |-> "null"]]
    /\ sub' = [sub EXCEPT ![Own(h)] = [l \in Lines |-> FALSE]]
    /\ Goes(h, "intcDone", job[h])
    /\ UNCHANGED <<csr, done>>

\* Default to use direct interrupt, setup sw cb table.
Wipe(h) ==
    /\ Write(h, "wipe")
    /\ handler' = [handler EXCEPT ![Own(h)] = [l \in Lines |-> "null"]]
    /\ data' = [data EXCEPT ![Own(h)] = [l \in Lines |-> "null"]]
    /\ sub' = [sub EXCEPT ![Own(h)] = [l \in Lines |-> FALSE]]
    /\ Goes(h, "vector", job[h])
    /\ UNCHANGED <<csr, done>>

\* Set the real trap handler, on the hart that executes.
Vector(h) ==
    /\ Write(h, "vector")
    /\ mtvec' = [mtvec EXCEPT ![h] = "table"]
    /\ Goes(h, "intcDone", job[h])
    /\ UNCHANGED <<mie, mstatus, tables, done>>

IntcDone(h) ==
    /\ Write(h, "intcDone")
    /\ intcDone' = [intcDone EXCEPT ![Own(h)] = TRUE]
    /\ IntcReturns(h)
    /\ UNCHANGED <<csr, tables, clintDone, plicDone>>

\* ..._interrupt_register with NULL, for the default handler, by the init
\* functions of the CLINT, for both its lines, and of the PLIC.
SetDefault(h) ==
    /\ Write(h, "default")
    /\ handler' = [handler EXCEPT ![Own(h)][Line(h)] = "default"]
    /\ Goes(h, "sub", job[h])
    /\ UNCHANGED <<csr, data, sub, done>>

\* Mutation of SubOf: the controller behind the line is not recorded.
SubOfNothing(h) == sub

SubOf(h) == [sub EXCEPT ![Own(h)][Line(h)] = TRUE]
SetSub(h) ==
    /\ Write(h, "sub")
    /\ sub' = SubOf(h)
    /\ CASE job[h].op = "plic" -> Goes(h, "isr", job[h])
         [] Line(h) = "SW"     -> Goes(h, "default", Job(job[h].op, Own(h), "TMR"))
         [] OTHER              -> Loop(h, "default", "SW", "clintDone")
    /\ UNCHANGED <<csr, handler, data, done>>

\* ..._interrupt_register with a handler: the one of the PLIC, by its init
\* function, or the application's.
SetHandler(h) ==
    /\ Write(h, "isr")
    /\ handler' = [handler EXCEPT ![Own(h)][Line(h)] =
                       IF job[h].op = "plic" THEN "plic" ELSE "isr"]
    /\ Goes(h, "data", job[h])
    /\ UNCHANGED <<csr, data, sub, done>>

SetData(h) ==
    /\ Write(h, "data")
    /\ data' = [data EXCEPT ![Own(h)][Line(h)] =
                    IF job[h].op = "plic" THEN "plic" ELSE "own"]
    /\ IF job[h].op = "plic" THEN Goes(h, "mie", job[h]) ELSE Goes(h, "idle", NoJob)
    /\ UNCHANGED <<csr, handler, sub, done>>

\* The PLIC enables the line once per parent on the hart that executes.
SetMie(h) ==
    /\ Write(h, "mie")
    /\ mie' = [mie EXCEPT ![h] = @ \cup {Line(h)}]
    /\ Loop(h, "intcTest", "EXT", "plicDone")
    /\ UNCHANGED <<mtvec, mstatus, tables, done>>

ClintTest(h) ==
    /\ Write(h, "clintTest")
    /\ IF clintDone THEN Goes(h, "idle", NoJob) ELSE Goes(h, "default", job[h])
    /\ UNCHANGED <<csr, tables, done>>

ClintDone(h) ==
    /\ Write(h, "clintDone")
    /\ clintDone' = TRUE
    /\ Goes(h, "idle", NoJob)
    /\ UNCHANGED <<csr, tables, intcDone, plicDone>>

PlicTest(h) ==
    /\ Write(h, "plicTest")
    /\ IF plicDone THEN Goes(h, "idle", NoJob) ELSE Goes(h, "intcTest", job[h])
    /\ UNCHANGED <<csr, tables, done>>

PlicDone(h) ==
    /\ Write(h, "plicDone")
    /\ plicDone' = TRUE
    /\ Goes(h, "idle", NoJob)
    /\ UNCHANGED <<csr, tables, intcDone, clintDone>>

-----------------------------------------------------------------------------
(* Traps *)

(***************************************************************************)
(* A line is raised, by a device, a timer or another hart, and the hart    *)
(* takes the interrupt between two writes.  early_trap_vector spins;       *)
(* __metal_exception_handler reads the private data of its own controller. *)
(*                                                                         *)
(* The enable bits of the PLIC are assumed to be 0 after reset, so that it *)
(* raises nothing before it is initialised: its init function enables the  *)
(* line of the executing hart before it has registered that hart's handler.*)
(***************************************************************************)
TrapEnter(h, l) ==
    /\ Runs(h)
    /\ mstatus[h] /\ l \in mie[h]
    /\ l = "EXT" => plicDone
    /\ IF mtvec[h] = "early"
       THEN fate' = [fate EXCEPT ![h] = "early"] /\ UNCHANGED trap
       ELSE trap' = [trap EXCEPT ![h] = [line |-> l, priv |-> data[h][l]]] /\ UNCHANGED fate
    /\ UNCHANGED <<csr, tables, done, thread, called, begun>>

(***************************************************************************)
(* What becomes of hart h when it calls the handler of its line.  The      *)
(* default software handler calls the handler of exception 3, the cause of *)
(* the interrupt, by default a shutdown; so does the default handler of    *)
(* the external line.  The default timer handler sets the compare register *)
(* through sub_int; without it the interrupt stays and traps again.        *)
(***************************************************************************)
Outcome(h) ==
    LET l == trap[h].line
    IN  CASE handler[h][l] = "null" -> "null"
          [] handler[h][l] = "default" /\ l # "TMR" -> "shutdown"
          [] handler[h][l] = "default" /\ l = "TMR" -> IF sub[h][l] THEN "ok" ELSE "storm"
          [] handler[h][l] = "isr"    -> IF trap[h].priv = "own" THEN "ok" ELSE "alien"
          [] handler[h][l] = "plic"   -> IF trap[h].priv = "plic" THEN "ok" ELSE "alien"

TrapCall(h) ==
    /\ trap[h] # NoTrap
    /\ fate' = [fate EXCEPT ![h] = Outcome(h)]
    /\ trap' = [trap EXCEPT ![h] = NoTrap]
    /\ UNCHANGED <<csr, tables, done, thread, called, begun>>

-----------------------------------------------------------------------------
Writes(h) ==
    \/ IntcTest(h) \/ Wipe(h) \/ Vector(h) \/ IntcDone(h)
    \/ SetDefault(h) \/ SetSub(h) \/ SetHandler(h) \/ SetData(h) \/ SetMie(h)
    \/ ClintTest(h) \/ ClintDone(h) \/ PlicTest(h) \/ PlicDone(h)

Calls(h) ==
    \/ CallIntcInit(h) \/ CallClintInit(h) \/ CallPlicInit(h)
    \/ \E l \in ClintLines : CallRegister(h, l)
    \/ \E l \in Lines : Enable(h, l) \/ Disable(h, l)
    \/ \E b \in BOOLEAN : GlobalEnable(h, b)

Next ==
    \E h \in Harts :
        \/ Calls(h) \/ Writes(h)
        \/ \E l \in Lines : TrapEnter(h, l)
        \/ TrapCall(h)

Spec == Init /\ [][Next]_vars

-----------------------------------------------------------------------------
Labels == {"idle", "clintTest", "plicTest", "intcTest", "wipe", "vector", "intcDone",
           "default", "sub", "isr", "data", "mie", "clintDone", "plicDone"}
Jobs == [op : {"none", "intc", "clint", "plic", "register"}, parent : Harts,
         line : Lines \cup {"none"}]

\* The types of the variables.
TypeOK ==
    /\ mtvec \in [Harts -> {"early", "table"}]
    /\ mie \in [Harts -> SUBSET Lines]
    /\ mstatus \in [Harts -> BOOLEAN]
    /\ intcDone \in [Harts -> BOOLEAN]
    /\ handler \in [Harts -> [Lines -> Handlers]]
    /\ data \in [Harts -> [Lines -> Privs]]
    /\ sub \in [Harts -> [Lines -> BOOLEAN]]
    /\ clintDone \in BOOLEAN /\ plicDone \in BOOLEAN
    /\ at \in [Harts -> Labels]
    /\ job \in [Harts -> Jobs]
    /\ called \subseteq Harts /\ begun \subseteq {"clint", "plic"}
    /\ trap \in [Harts -> [line : Lines, priv : Privs] \cup {NoTrap}]
    /\ fate \in [Harts -> {"ok", "early", "null", "alien", "storm", "shutdown"}]

\* An enabled interrupt never ends in early_trap_vector, in a null handler, in a
\* timer handler that cannot set the timer or in a handler called with private
\* data that was not registered with it, on any hart, while other harts are still
\* initialising and although the table entry is read and written in two pieces.
TrapsLand == \A h \in Harts : fate[h] \notin {"early", "null", "storm", "alien"}

\* A handler the application has registered stays: no init function of the
\* CPU controller, the CLINT or the PLIC running later takes it away.
RegisteredStays ==
    [][\A h \in Harts, l \in Lines : handler[h][l] = "isr" => handler'[h][l] = "isr"]_vars

\* "The CPU interrupt controller must be initialized before this function is
\* called or the return value will be -1" (metal/cpu.h): a hart whose
\* controller and whose CLINT are initialised can set its compare register.
TimerUsable ==
    \A h \in Harts : Ready(h, "TMR") /\ at[h] = "idle" => sub[h]["TMR"]

\* "Set the real trap handler if the value of mtvec is equal to
\* early_trap_vector": a hart that has initialised its controller has left it.
VectorSet ==
    \A h \in Harts : h \in called /\ at[h] = "idle" => mtvec[h] = "table"
=============================================================================

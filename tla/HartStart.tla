------------------------------ MODULE HartStart ------------------------------
(***************************************************************************)
(* How the harts of a machine start: _enter (metal/src/entry.S), the       *)
(* memory scrub (metal/src/scrub.S), _start (gloss/src/crt0.S), the Metal  *)
(* constructors (metal/src/init.c) and the barrier that lets the other     *)
(* harts wait for the one that initialises memory                          *)
(* (metal/src/synchronize_harts.c).                                        *)
(*                                                                         *)
(* The barrier uses the software interrupt bit (MSIP) of every hart but    *)
(* hart 0.  Hart 0 runs it, whichever hart is the boot hart.  After the    *)
(* barrier the boot hart runs main, which may send and clear software      *)
(* interrupts with the same bits and ends with the destructors; the        *)
(* others park in secondary_main.                                          *)
(***************************************************************************)
EXTENDS Naturals

CONSTANTS
    N,              \* __METAL_DT_MAX_HARTS
    BootHarts,      \* the values of __metal_boot_hart to start with
    Scrub,          \* __metal_eccscrub_bit: memory is zeroed first
    NumCtors,       \* how many Metal constructors the image has
    NumDtors,       \* how many Metal destructors
    MaxIpi          \* bound: software interrupts main may set or clear

ASSUME HartsAssumption == N \in Nat /\ N > 1 /\ BootHarts \subseteq 0 .. N - 1
ASSUME ScrubAssumption == Scrub \in BOOLEAN
ASSUME CtorsAssumption == NumCtors \in Nat /\ NumDtors \in Nat
ASSUME IpiAssumption == MaxIpi \in Nat

Harts == 0 .. N - 1
Others == 1 .. N - 1        \* the harts that use their MSIP bit in the barrier

VARIABLES
    pc,             \* where each hart is
    i,              \* the loop variable of hart 0 in the barrier
    msip,           \* the MSIP bits, 0 after reset
    data,           \* the data, ITIM and LIM segments
    bss,            \* the bss segment but for initDone
    initDone,       \* init_done of metal_init, a word of the bss segment
    ctors,          \* how many constructors have run
    finiDone,       \* fini_done of metal_fini, another
    dtors,          \* how many destructors have run
    mie,            \* the harts with an interrupt line enabled in mie
    boot,           \* __metal_boot_hart, the hart that initialises memory
    ipi,            \* history: main has set the MSIP bit of h and not cleared it
    ipis            \* how many interrupts main has set or cleared

vars == <<pc, i, msip, data, bss, initDone, ctors, finiDone, dtors, mie, boot, ipi, ipis>>
mem  == <<data, bss, initDone, ctors, boot>>
fini == <<finiDone, dtors>>
hist == <<ipi, ipis>>

Init ==
    /\ pc = [h \in Harts |-> "enter"]
    /\ i = 1
    /\ msip = [h \in Harts |-> 0]
    /\ data = "garbage"
    /\ bss = "garbage"
    /\ initDone \in {0, 1}
    /\ ctors = 0
    /\ finiDone \in {0, 1}
    /\ dtors = 0
    /\ mie = {}
    /\ boot \in BootHarts
    /\ ipi = [h \in Harts |-> FALSE]
    /\ ipis = 0

Goto(h, from, to) ==
    /\ pc[h] = from
    /\ pc' = [pc EXCEPT ![h] = to]

-----------------------------------------------------------------------------
(* Before the barrier *)

\* Each hart scrubs its own stack, the boot hart also the data and ITIM
\* segments; then every other hart skips the initialisation.
Enter(h) ==
    /\ Goto(h, "enter", IF h = boot THEN "copyData" ELSE "sync")
    /\ data' = IF h = boot /\ Scrub THEN "zero" ELSE data
    /\ UNCHANGED <<i, msip, bss, initDone, ctors, boot, mie, fini, hist>>

CopyData(h) ==
    /\ Goto(h, "copyData", "zeroBss")
    /\ data' = "image"
    /\ UNCHANGED <<i, msip, bss, initDone, ctors, boot, mie, fini, hist>>

\* Mutation of ZeroBss: init_done is not in the segment that is zeroed.
ZeroBssKeep(h) ==
    /\ Goto(h, "zeroBss", "metalInit")
    /\ bss' = "zero"
    /\ finiDone' = 0
    /\ UNCHANGED <<i, msip, data, initDone, ctors, boot, mie, dtors, hist>>

ZeroBss(h) ==
    /\ Goto(h, "zeroBss", "metalInit")
    /\ bss' = "zero"
    /\ initDone' = 0 /\ finiDone' = 0
    /\ UNCHANGED <<i, msip, data, ctors, boot, mie, dtors, hist>>

\* metal_init: the constructors run only once, in order.
MetalInit(h) ==
    /\ Goto(h, "metalInit", IF initDone = 1 \/ NumCtors = 0 THEN "sync" ELSE "ctor")
    /\ initDone' = 1
    /\ UNCHANGED <<i, msip, data, bss, ctors, boot, mie, fini, hist>>

\* A constructor may enable interrupt lines.
RunCtor(h) ==
    /\ Goto(h, "ctor", IF ctors + 1 = NumCtors THEN "sync" ELSE "ctor")
    /\ ctors' = ctors + 1
    /\ mie' \in {mie, mie \cup {h}}
    /\ UNCHANGED <<i, msip, data, bss, initDone, boot, fini, hist>>

-----------------------------------------------------------------------------
(* __metal_synchronize_harts *)

\* Hart 0 enters the barrier.
SyncZero ==
    /\ Goto(0, "sync", "waitAll")
    /\ i' = 1
    /\ UNCHANGED <<msip, mem, mie, fini, hist>>

\* Mutation of WaitMsip: the bit is not waited for.
WaitMsipNoWait ==
    /\ Goto(0, "waitAll", IF i + 1 = N THEN "clearAll" ELSE "waitAll")
    /\ i' = IF i + 1 = N THEN 1 ELSE i + 1
    /\ UNCHANGED <<msip, mem, mie, fini, hist>>

\* Hart 0 waits for all harts to set their MSIP bit, one after the other.
WaitMsip ==
    /\ msip[i] # 0
    /\ Goto(0, "waitAll", IF i + 1 = N THEN "clearAll" ELSE "waitAll")
    /\ i' = IF i + 1 = N THEN 1 ELSE i + 1
    /\ UNCHANGED <<msip, mem, mie, fini, hist>>

\* Hart 0 clears everyone's MSIP bit.
ClearMsip ==
    /\ Goto(0, "clearAll", IF i + 1 = N THEN "synced" ELSE "clearAll")
    /\ msip' = [msip EXCEPT ![i] = 0]
    /\ i' = IF i + 1 = N THEN i ELSE i + 1
    /\ UNCHANGED <<mem, mie, fini, hist>>

\* Mutation of RaiseMsip: the bit is the one of the hart before.
RaiseMsipBefore(h) ==
    /\ h # 0
    /\ Goto(h, "sync", "waitClear")
    /\ msip' = [msip EXCEPT ![h - 1] = 1]
    /\ UNCHANGED <<i, mem, mie, fini, hist>>

\* Other harts set their MSIP bit to indicate they're ready.
RaiseMsip(h) ==
    /\ h # 0
    /\ Goto(h, "sync", "waitClear")
    /\ msip' = [msip EXCEPT ![h] = 1]
    /\ UNCHANGED <<i, mem, mie, fini, hist>>

\* And wait for hart 0 to clear it.
WaitClear(h) ==
    /\ msip[h] # 1
    /\ Goto(h, "waitClear", "synced")
    /\ UNCHANGED <<i, msip, mem, mie, fini, hist>>

-----------------------------------------------------------------------------
(* After the barrier *)

\* _start: every hart disables its interrupt lines, those a constructor has
\* enabled too.  (MSIP bits are read-only in mip.)
CleanUp(h) ==
    /\ Goto(h, "synced", "clean")
    /\ mie' = mie \ {h}
    /\ UNCHANGED <<i, msip, mem, fini, hist>>

\* Mutation of Start: each hart clears its own bit once more as it leaves.
StartClears(h) ==
    /\ Goto(h, "clean", IF h = boot THEN "main" ELSE "park")
    /\ msip' = [msip EXCEPT ![h] = 0]
    /\ UNCHANGED <<i, mem, mie, fini, hist>>

\* secondary_main: the boot hart calls main, the others wait for interrupts.
Start(h) ==
    /\ Goto(h, "clean", IF h = boot THEN "main" ELSE "park")
    /\ UNCHANGED <<i, msip, mem, mie, fini, hist>>

\* main computes, a parked hart loops on wfi, and a hart that has called
\* metal_shutdown spins.
Idle(h) ==
    /\ pc[h] \in {"main", "park", "off"}
    /\ UNCHANGED vars

\* metal_fini, which main may call itself, and which exit calls when main is
\* over: the destructors run only once, in order.
MetalFini(h, exits) ==
    /\ Goto(h, "main", IF finiDone = 0 /\ NumDtors > 0
                         THEN IF exits THEN "exitDtor" ELSE "dtor"
                         ELSE IF exits THEN "off" ELSE "main")
    /\ finiDone' = 1
    /\ UNCHANGED <<i, msip, mem, mie, dtors, hist>>

RunDtor(h) ==
    /\ LET last == dtors + 1 = NumDtors
       IN  \/ Goto(h, "dtor", IF last THEN "main" ELSE "dtor")
           \/ Goto(h, "exitDtor", IF last THEN "off" ELSE "exitDtor")
    /\ dtors' = dtors + 1
    /\ UNCHANGED <<i, msip, mem, mie, finiDone, hist>>

\* main sends or clears the software interrupt of hart h.
SetIpi(h) ==
    /\ pc[boot] = "main"
    /\ ipis < MaxIpi
    /\ msip' = [msip EXCEPT ![h] = 1]
    /\ ipi' = [ipi EXCEPT ![h] = TRUE]
    /\ ipis' = ipis + 1
    /\ UNCHANGED <<pc, i, mem, mie, fini>>

ClearIpi(h) ==
    /\ pc[boot] = "main"
    /\ ipis < MaxIpi
    /\ msip' = [msip EXCEPT ![h] = 0]
    /\ ipi' = [ipi EXCEPT ![h] = FALSE]
    /\ ipis' = ipis + 1
    /\ UNCHANGED <<pc, i, mem, mie, fini>>

-----------------------------------------------------------------------------
Boot(h) == Enter(h) \/ CopyData(h) \/ ZeroBss(h) \/ MetalInit(h) \/ RunCtor(h)

Sync(h) ==
    \/ h = 0 /\ (SyncZero \/ WaitMsip \/ ClearMsip)
    \/ RaiseMsip(h)
    \/ WaitClear(h)
    \/ CleanUp(h)
    \/ Start(h)

Fini(h) == RunDtor(h) \/ \E exits \in BOOLEAN : MetalFini(h, exits)

Next ==
    \E h \in Harts :
        Boot(h) \/ Sync(h) \/ Idle(h) \/ SetIpi(h) \/ ClearIpi(h) \/ Fini(h)

\* Every hart executes; main need not send anything.
Fairness == \A h \in Harts : WF_vars(Boot(h) \/ Sync(h))

Spec == Init /\ [][Next]_vars
FairSpec == Spec /\ Fairness

-----------------------------------------------------------------------------
PreSync == {"enter", "copyData", "zeroBss", "metalInit", "ctor", "sync"}
InMain == {"main", "dtor", "exitDtor", "off"}
Started == InMain \cup {"clean", "park"}
PCs == PreSync \cup {"waitAll", "clearAll", "waitClear", "synced"} \cup Started

\* Hart h has left the barrier.
Past(h) == pc[h] \in {"synced"} \cup Started

\* Hart h has announced itself in the barrier.
Arrived(h) == pc[h] \notin PreSync

\* The clean-up has disabled the lines of every hart behind it.
LinesOff == \A h \in Harts : pc[h] \in Started => h \notin mie

\* The types of the variables.
TypeOK ==
    /\ pc \in [Harts -> PCs]
    /\ i \in Others
    /\ msip \in [Harts -> {0, 1}]
    /\ data \in {"garbage", "zero", "image"}
    /\ bss \in {"garbage", "zero"}
    /\ initDone \in {0, 1}
    /\ ctors \in 0 .. NumCtors
    /\ finiDone \in {0, 1}
    /\ dtors \in 0 .. NumDtors
    /\ mie \subseteq Harts
    /\ boot \in BootHarts
    /\ ipi \in [Harts -> BOOLEAN]
    /\ ipis \in 0 .. MaxIpi

\* No hart leaves the barrier before the boot hart has copied the data
\* segment, zeroed the bss and run every constructor once, whether or not the
\* boot hart is the hart 0 that runs the barrier; secondary_main starts without
\* an interrupt line enabled; and the machine is shut down only when every
\* destructor has run, whether exit called it or main before.
InitialisedBeforePast ==
    /\ \A h \in Harts : Past(h) => data = "image" /\ bss = "zero" /\ ctors = NumCtors
    /\ LinesOff
    /\ pc[boot] = "off" => dtors = NumDtors

\* Nobody leaves the barrier before everybody has entered it.
NobodyLeavesEarly == \A g, h \in Harts : Past(h) => Arrived(g)

\* When hart 0 is the boot hart, a software interrupt that main has sent stays
\* until main clears it: harts that are still in the barrier do not undo it.
\* (Another boot hart may be in main while hart 0 still clears, and then loses
\* what it sends.)
IpiKept == boot = 0 => \A h \in Harts : ipi[h] => msip[h] = 1

\* As long as main sends no software interrupt, every hart gets past the
\* barrier: the MSIP bit a hart waits on is not taken for another hart's.
\* (A machine that main shuts down is assumed to let the other harts run on, as
\* the shutdown that spins does.)
EveryoneStarts == [](ipis = 0) => \A h \in Harts : <>(pc[h] \in {"main", "park"})

\* "Wait for hart 0 to clear the MSIP bit", says the code: once the bit of a
\* waiting hart is clear, that hart goes on.
WaitEnds == \A h \in Harts : pc[h] = "waitClear" /\ msip[h] = 0 ~> pc[h] = "park"

-----------------------------------------------------------------------------
(* The inductive invariant that the theorems of HartStartProofs rest on. *)

\* Hart 0 has not yet seen every hart arrive.
Gathering == pc[0] \in PreSync \cup {"waitAll"}

\* The harts that run in the barrier the way hart 0, the boot hart and the
\* others do.
Roles ==
    \A h \in Harts :
        /\ h # boot => pc[h] \notin {"copyData", "zeroBss", "metalInit", "ctor"} \cup InMain
        /\ pc[h] \in {"waitAll", "clearAll"} => h = 0
        /\ pc[h] = "waitClear" => h # 0

\* Until hart 0 has seen everyone, the bits of the barrier are its own and the
\* harts that have set theirs are waiting.
BitsMeanWaiting ==
    Gathering => \A g \in Others : /\ ~Past(g)
                                   /\ msip[g] = IF pc[g] = "waitClear" THEN 1 ELSE 0

\* The harts that hart 0 has passed by in its loop have arrived.
SeenArrived ==
    /\ pc[0] = "waitAll" => \A g \in 1 .. i - 1 : Arrived(g)
    /\ ~Gathering => \A g \in Harts : Arrived(g)

\* The boot hart initialises memory in order.
BootOrder ==
    /\ pc[boot] \in {"enter", "copyData", "zeroBss", "metalInit"} => ctors = 0
    /\ pc[boot] \notin {"enter", "copyData"} => data = "image"
    /\ pc[boot] \notin {"enter", "copyData", "zeroBss"} => bss = "zero"
    /\ pc[boot] = "metalInit" => initDone = 0
    /\ pc[boot] = "ctor" => ctors < NumCtors
    /\ pc[boot] = "sync" \/ Arrived(boot) => ctors = NumCtors

\* Software interrupts are main's.
IpiFromMain == \A h \in Harts : ipi[h] => pc[boot] \in InMain

\* The destructors run in main or after it, once.
FiniOrder ==
    /\ pc[boot] \notin {"enter", "copyData", "zeroBss"} \cup InMain => finiDone = 0
    /\ pc[boot] \notin InMain \/ finiDone = 0 => dtors = 0
    /\ pc[boot] \in {"dtor", "exitDtor"} => finiDone = 1 /\ dtors < NumDtors
    /\ pc[boot] \in {"main", "off"} /\ finiDone = 1 => dtors = NumDtors
    /\ pc[boot] = "off" => finiDone = 1

IInv ==
    /\ TypeOK
    /\ Roles
    /\ BitsMeanWaiting
    /\ SeenArrived
    /\ BootOrder
    /\ IpiFromMain
    /\ FiniOrder
    /\ LinesOff
=============================================================================

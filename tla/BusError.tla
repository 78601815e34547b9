------------------------------ MODULE BusError ------------------------------
(* The bus error unit of one hart (sifive_buserror0.c).  A register is a set   *)
(* of events.  The calls that change one read it, write it and then read it    *)
(* again, once or twice, to answer; errors arrive between any two accesses.    *)
EXTENDS Integers, FiniteSets

CONSTANTS BeuEvents,                 \* METAL_BUSERROR_EVENT_ANY
          BeuMaxCalls, BeuMaxErrors  \* bounds: calls, errors

ASSUME BusErrorAssumption ==
    /\ BeuEvents # {} /\ "none" \notin BeuEvents
    /\ BeuMaxCalls \in Nat /\ BeuMaxErrors \in Nat

VARIABLES
    beuReg,    \* ENABLE, PLATFORM_INTERRUPT, LOCAL_INTERRUPT and ACCRUED
    beuCause,  \* CAUSE: the enabled event that came first, or "none"
    beuCall,   \* the call under way: its register, events and step, and what it read
    beuRet,    \* the last call and its answer, {} for 0
    beuFresh,  \* the events since the last read of ACCRUED
    beuSpent   \* calls and errors

beuVars == <<beuReg, beuCause, beuCall, beuRet, beuFresh, beuSpent>>

BeuIdle == [reg |-> "none", events |-> {}, on |-> FALSE, step |-> "none", held |-> {}]

\* After metal_driver_sifive_buserror_init, which enables all events.
BeuInit == /\ beuReg = [r \in {"enable", "platform", "local", "accrued"} |->
                          IF r = "enable" THEN BeuEvents ELSE {}]
           /\ beuCause = "none" /\ beuCall = BeuIdle
           /\ beuRet = [reg |-> "none", events |-> {}, answer |-> {}]
           /\ beuFresh = {} /\ beuSpent = [calls |-> 0, errors |-> 0]

\* An error: ACCRUED always, CAUSE if enabled and still free.
BeuError(e) ==
    /\ beuSpent.errors < BeuMaxErrors
    /\ beuSpent' = [beuSpent EXCEPT !.errors = @ + 1]
    /\ beuReg' = [beuReg EXCEPT !["accrued"] = @ \cup {e}]
    /\ beuCause' = IF beuCause = "none" /\ e \in beuReg["enable"] THEN e ELSE beuCause
    /\ beuFresh' = beuFresh \cup {e}
    /\ UNCHANGED <<beuCall, beuRet>>

----------------------------------------------------------------------------
BeuCounted == beuCall = BeuIdle /\ beuSpent.calls < BeuMaxCalls
              /\ beuSpent' = [beuSpent EXCEPT !.calls = @ + 1]

\* metal_buserror_set_event_enabled, _set_platform_interrupt, _set_local_interrupt
\* and _clear_event_accrued; without an event of BeuEvents they only answer.
BeuBegin(r, events, on) ==
    /\ events # {} /\ (r = "accrued" => ~on) /\ BeuCounted
    /\ beuCall' = [reg |-> r, events |-> events, on |-> on, step |-> "load", held |-> {}]
    /\ UNCHANGED <<beuReg, beuCause, beuRet, beuFresh>>

\* metal_buserror_clear_cause.
BeuClearCause == /\ BeuCounted /\ beuCause' = "none"
                 /\ UNCHANGED <<beuReg, beuCall, beuRet, beuFresh>>

BeuAt(step) == beuCall.step = step
BeuRegister == beuReg[beuCall.reg]
BeuRead == beuFresh' = IF beuCall.reg = "accrued" THEN {} ELSE beuFresh
BeuGoesOn(call) == beuCall' = call /\ UNCHANGED beuRet
BeuReturn(answer) ==
    /\ beuCall' = BeuIdle
    /\ beuRet' = [reg |-> beuCall.reg, events |-> beuCall.events, answer |-> answer]

BeuLoad == /\ BeuAt("load") /\ BeuRead
           /\ BeuGoesOn([beuCall EXCEPT !.step = "store", !.held = BeuRegister])
           /\ UNCHANGED <<beuReg, beuCause, beuSpent>>

\* The interrupt registers are not read again.
BeuStore ==
    /\ BeuAt("store")
    /\ beuReg' = [beuReg EXCEPT ![beuCall.reg] = IF beuCall.on THEN beuCall.held \cup beuCall.events
                                                 ELSE beuCall.held \ beuCall.events]
    /\ IF beuCall.reg \in {"enable", "accrued"} THEN BeuGoesOn([beuCall EXCEPT !.step = "check"])
                                                ELSE BeuReturn({})
    /\ UNCHANGED <<beuCause, beuFresh, beuSpent>>

\* Mutation of BeuReadsAgain: the same test for both.
BeuReadsAgainAlike == beuCall.events \cap BeuRegister = {}

\* set_event_enabled answers the register if none of the events is enabled,
\* clear_event_accrued if one is accrued, each after another read; 0 otherwise.
BeuReadsAgain == IF beuCall.reg = "enable" THEN beuCall.events \cap BeuRegister = {}
                                           ELSE beuCall.events \cap BeuRegister # {}
BeuCheck == /\ BeuAt("check") /\ BeuRead
            /\ IF BeuReadsAgain THEN BeuGoesOn([beuCall EXCEPT !.step = "again"])
                                ELSE BeuReturn({})
            /\ UNCHANGED <<beuReg, beuCause, beuSpent>>
BeuAnswer == /\ BeuAt("again") /\ BeuRead /\ BeuReturn(BeuRegister)
             /\ UNCHANGED <<beuReg, beuCause, beuSpent>>

BeuNext ==
    \/ \E e \in BeuEvents : BeuError(e)
    \/ \E r \in DOMAIN beuReg, events \in SUBSET BeuEvents, on \in BOOLEAN : BeuBegin(r, events, on)
    \/ BeuClearCause \/ BeuLoad \/ BeuStore \/ BeuCheck \/ BeuAnswer

BeuSpec == BeuInit /\ [][BeuNext]_beuVars

----------------------------------------------------------------------------
\* BeuQuiet: when clear_event_accrued answers 0 for the events that interrupt the
\* hart, none of them is accrued unless it came after the last read, so that the
\* handler is entered again for new errors only.
BeuQuiet ==
    beuRet.reg = "accrued" /\ beuRet.answer = {} /\ beuCall = BeuIdle =>
        (beuReg["accrued"] \cap beuReg["local"]) \cap beuRet.events \subseteq beuFresh
============================================================================

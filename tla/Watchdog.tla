------------------------------ MODULE Watchdog ------------------------------
(* The watchdog driver (sifive_wdog0.c): one thread that calls it, a handler  *)
(* that may interrupt the thread between any two accesses, and the timer.     *)
(* Every write of a register has to be unlocked by a write of the key; the    *)
(* write that follows locks the registers again, and a write to locked        *)
(* registers has no effect.  The configuration register is the set of its     *)
(* bits that are 1.                                                           *)
EXTENDS Integers, Sequences

CONSTANTS
    WdogClock,     \* rate of the clock that drives the timer
    WdogRates,     \* rates the application asks for
    WdogTimeouts,  \* time-outs the application asks for
    WdogCmpMax,    \* METAL_WDOGCMP_MASK, 0xffff on the chip
    WdogCountMax,  \* bound: the timer stops here
    WdogMaxCalls   \* bound: calls of the thread

ASSUME WdogAssumption == /\ WdogClock \in Nat \ {0} /\ WdogRates \subseteq Nat
                         /\ WdogTimeouts \subseteq Nat
                         /\ WdogCmpMax \in Nat /\ WdogCountMax \in Nat
                         /\ WdogMaxCalls \in Nat

VARIABLES
    wdog,      \* the registers, and whether the next write is unlocked
    wdogPc,    \* "idle", or the access of the thread that comes next
    wdogOps,   \* the register writes the call that is running has still to do
    wdogSeen,  \* the configuration the thread has read
    wdogIrq,   \* the interrupt is enabled, so that the handler runs
    wdogLost,  \* history: the handler has made a write of the thread be in vain
    wdogAsked, \* history: what the calls of the thread asked for
    wdogCalls  \* calls so far

wdogVars == <<wdog, wdogPc, wdogOps, wdogSeen, wdogIrq, wdogLost, wdogAsked, wdogCalls>>

ScaleBits == {"s0", "s1", "s2"}
Scale(cfg) == (IF "s0" \in cfg THEN 1 ELSE 0) + (IF "s1" \in cfg THEN 2 ELSE 0)
                  + (IF "s2" \in cfg THEN 4 ELSE 0)
BitsOf(scale) == CHOOSE bits \in SUBSET ScaleBits : Scale(bits) = scale

Results == {"no_result", "interrupt", "full_reset"}
RunOptions == {"stop", "run_always", "run_awake"}
ResultBits == [no_result |-> {}, interrupt |-> {"zerocmp"}, full_reset |-> {"rsten"}]
RunBits == [stop |-> {}, run_always |-> {"enalways"}, run_awake |-> {"coreawake"}]

\* The time-out in force, a value of the scale field and one of the compare
\* register, and the registers, as a reset leaves them.
ResetTimeout == [scale |-> {}, cmp |-> WdogCmpMax]
ResetAsked == [result |-> {}, run |-> {}, now |-> ResetTimeout, before |-> ResetTimeout]
ResetRegisters == [cfg |-> {}, cmp |-> WdogCmpMax, count |-> 0, unlocked |-> FALSE]

WdogInit == /\ wdog = ResetRegisters /\ wdogAsked = ResetAsked
            /\ wdogPc = "idle" /\ wdogOps = <<>> /\ wdogSeen = {}
            /\ wdogIrq = FALSE /\ wdogLost = FALSE /\ wdogCalls = 0

----------------------------------------------------------------------------
\* A register write of the driver: the bits of the configuration that it clears
\* and sets, or the value that it stores.
Clear(bits) == [reg |-> "cfg", clear |-> bits, set |-> {}, value |-> 0]
Set(bits) == [reg |-> "cfg", clear |-> {}, set |-> bits, value |-> 0]
Store(reg, value) == [reg |-> reg, clear |-> {}, set |-> {}, value |-> value]

Feed == <<Store("count", 0)>>

\* __metal_driver_sifive_wdog0_set_rate: the closest scale, of which the loop
\* tries all but the last.
ClosestScale(rate) ==
    LET Diff(i) == IF rate >= WdogClock \div 2^i THEN rate - WdogClock \div 2^i
                                                 ELSE WdogClock \div 2^i - rate
    IN  CHOOSE i \in 0..6 : \A j \in 0..6 : /\ Diff(i) <= Diff(j)
                                            /\ Diff(i) = Diff(j) => i <= j
NewScale(rate) == IF rate >= WdogClock THEN {} ELSE BitsOf(ClosestScale(rate))
SetRate(rate) == IF rate >= WdogClock THEN <<Clear(ScaleBits)>>
                                      ELSE <<Clear(ScaleBits), Set(NewScale(rate))>>

Capped(timeout) == IF timeout > WdogCmpMax THEN WdogCmpMax ELSE timeout

\* Mutation of SetTimeout: the field is cleared in place, as the comment rules out.
SetTimeoutInPlace(timeout) == <<Store("cmp", 0), Store("cmp", Capped(timeout))>>

\* set_timeout caps the value and writes it at once.
SetTimeout(timeout) == <<Store("cmp", Capped(timeout))>>

SetResult(result) == <<Clear({"rsten", "zerocmp"})>>
    \o IF result = "no_result" THEN <<>> ELSE <<Set(ResultBits[result])>>

Run(option) == <<Clear({"enalways", "coreawake"})>>
    \o IF option = "stop" THEN <<>> ELSE Feed \o <<Set(RunBits[option])>>

ClearInterrupt == <<Clear({"ip"})>>

----------------------------------------------------------------------------
\* A call of metal/watchdog.h: the writes it will do, and what it asks for.
Call(ops, asked) == /\ wdogPc = "idle" /\ wdogCalls < WdogMaxCalls
                    /\ wdogCalls' = wdogCalls + 1
                    /\ wdogOps' = ops /\ wdogPc' = "unlock"
                    /\ wdogAsked' = [asked EXCEPT !.before = wdogAsked.now]
                    /\ UNCHANGED <<wdog, wdogSeen, wdogIrq, wdogLost>>

WdogCall ==
    \/ Call(Feed, wdogAsked)
    \/ Call(ClearInterrupt, wdogAsked)
    \/ \E r \in WdogRates : Call(SetRate(r), [wdogAsked EXCEPT !.now.scale = NewScale(r)])
    \/ \E t \in WdogTimeouts : Call(SetTimeout(t), [wdogAsked EXCEPT !.now.cmp = Capped(t)])
    \/ \E r \in Results : Call(SetResult(r), [wdogAsked EXCEPT !.result = ResultBits[r]])
    \/ \E o \in RunOptions : Call(Run(o), [wdogAsked EXCEPT !.run = RunBits[o]])

\* The application enables the interrupt at the controller.
WdogEnableInterrupt == /\ wdogPc = "idle" /\ ~wdogIrq
                       /\ wdogIrq' = TRUE
                       /\ UNCHANGED <<wdog, wdogPc, wdogOps, wdogSeen, wdogLost, wdogAsked, wdogCalls>>

\* WDOG_UNLOCK writes the key; WDOG_UNLOCK_REGW then writes the register, which
\* for the configuration means that it is read first.
Unlock == /\ wdogPc = "unlock"
          /\ wdog' = [wdog EXCEPT !.unlocked = TRUE]
          /\ wdogPc' = IF Head(wdogOps).reg = "cfg" THEN "read" ELSE "write"
          /\ UNCHANGED <<wdogOps, wdogSeen, wdogIrq, wdogLost, wdogAsked, wdogCalls>>

ReadCfg == /\ wdogPc = "read"
           /\ wdogSeen' = wdog.cfg
           /\ wdogPc' = "write"
           /\ UNCHANGED <<wdog, wdogOps, wdogIrq, wdogLost, wdogAsked, wdogCalls>>

WdogWritten(regs, op) ==
    CASE op.reg = "cfg" -> [regs EXCEPT !.cfg = (wdogSeen \ op.clear) \cup op.set]
      [] op.reg = "cmp" -> [regs EXCEPT !.cmp = op.value]
      [] op.reg = "count" -> [regs EXCEPT !.count = op.value]

Write == /\ wdogPc = "write"
         /\ wdog' = [(IF wdog.unlocked THEN WdogWritten(wdog, Head(wdogOps)) ELSE wdog)
                        EXCEPT !.unlocked = FALSE]
         /\ wdogOps' = Tail(wdogOps)
         /\ wdogPc' = IF Len(wdogOps) = 1 THEN "idle" ELSE "unlock"
         /\ wdogSeen' = {}
         /\ UNCHANGED <<wdogIrq, wdogLost, wdogAsked, wdogCalls>>

\* The handler the application has registered for the interrupt: it clears it
\* with metal_watchdog_clear_interrupt and may feed the timer.  A write that the
\* thread had unlocked is locked again.
Handler == /\ wdogIrq /\ "ip" \in wdog.cfg
           /\ \E c \in {0, wdog.count} :
                wdog' = [wdog EXCEPT !.cfg = @ \ {"ip"}, !.count = c, !.unlocked = FALSE]
           /\ wdogLost' = (wdogLost \/ wdogPc \in {"read", "write"})
           /\ UNCHANGED <<wdogPc, wdogOps, wdogSeen, wdogIrq, wdogAsked, wdogCalls>>

----------------------------------------------------------------------------
\* The timer: it counts while it is enabled, and compares the scaled count.
Due(cfg, cmp) == wdog.count \div 2^Scale(cfg) >= cmp

WdogTick == /\ {"enalways", "coreawake"} \cap wdog.cfg # {} /\ wdog.count < WdogCountMax
            /\ wdog' = [wdog EXCEPT !.count = @ + 1]
            /\ UNCHANGED <<wdogPc, wdogOps, wdogSeen, wdogIrq, wdogLost, wdogAsked, wdogCalls>>

\* It raises the interrupt, or resets the system.
WdogExpire ==
    /\ Due(wdog.cfg, wdog.cmp) /\ "ip" \notin wdog.cfg
    /\ IF "rsten" \in wdog.cfg
         THEN /\ wdog' = ResetRegisters /\ wdogAsked' = ResetAsked
              /\ wdogPc' = "idle" /\ wdogOps' = <<>> /\ wdogSeen' = {}
              /\ wdogIrq' = FALSE /\ wdogLost' = FALSE
         ELSE wdog' = [wdog EXCEPT !.cfg = @ \cup {"ip"},
                                   !.count = IF "zerocmp" \in wdog.cfg THEN 0 ELSE @]
              /\ UNCHANGED <<wdogPc, wdogOps, wdogSeen, wdogIrq, wdogLost, wdogAsked>>
    /\ UNCHANGED wdogCalls

WdogNext == \/ WdogCall \/ WdogEnableInterrupt \/ Unlock \/ ReadCfg \/ Write
            \/ Handler \/ WdogTick \/ WdogExpire

WdogSpec == WdogInit /\ [][WdogNext]_wdogVars

----------------------------------------------------------------------------
\* The time-out that the calls have asked for has passed; while a call runs, the
\* one that was in force before it counts as well.
TimedOut == \/ Due(wdogAsked.now.scale, wdogAsked.now.cmp)
            \/ wdogPc # "idle" /\ Due(wdogAsked.before.scale, wdogAsked.before.cmp)

\* set_rate has cleared the scale and has still to set it.
ScaleCleared == wdogOps = <<Set(wdogAsked.now.scale)>>

\* WdogNotEarly: outside those two writes of set_rate the timer expires, and resets
\* the system, only when the time-out that the application asked for has passed,
\* in ticks of the scale that it asked for; also with a handler that clears and
\* feeds between any two accesses, unless it has made a write be in vain.
WdogNotEarly ==
    [][WdogExpire /\ ~wdogLost => TimedOut \/ ScaleCleared]_wdogVars

\* WdogNeverEarly: the same of set_rate too: no field is changed in place, which
\* would cause "a spurious interrupt because the compare value is temporarily 0".
WdogNeverEarly == [][WdogExpire /\ ~wdogLost => TimedOut]_wdogVars
============================================================================

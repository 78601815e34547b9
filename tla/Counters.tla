------------------------------ MODULE Counters ------------------------------
(* The performance counters of a 32-bit hart (hpm.c) and the C library's time  *)
(* (_times, gettimeofday), which is counter 0, mcycle.  A counter is two       *)
(* registers of HpmWord values each, which the code reads and clears half by   *)
(* half while it counts.  mcounteren is written with mtvec pointing behind the *)
(* write, so that a trap skips the write and does not return.                  *)
EXTENDS Integers

CONSTANTS
    HpmWord,     \* values of half a counter: 2^32
    HpmLast,     \* number of the last counter the code knows: 31
    HpmPresent,  \* number of the last counter the hart has
    HpmUserMode, \* does the hart have mcounteren?
    ClocksPerSec, Timebase,
    TimeWord,    \* values of an unsigned long long: 2^64
    HpmTickMax, HpmMaxCalls \* bounds: counted events, calls

ASSUME CountersAssumption ==
    /\ HpmWord \in Nat \ {0, 1} /\ HpmLast \in Nat /\ HpmPresent \in 2..HpmLast
    /\ HpmUserMode \in BOOLEAN
    /\ ClocksPerSec \in Nat \ {0} /\ Timebase \in Nat \ {0}
    /\ TimeWord \in Nat /\ ClocksPerSec * Timebase <= TimeWord
    /\ HpmTickMax \in Nat /\ HpmMaxCalls \in Nat

VARIABLES
    hpmReg,     \* value of every counter, both halves
    hpmEvents,  \* selected counters: those with an event
    hpmCount,   \* cpu->hpm_count
    hpmAccess,  \* mcounteren
    hpmMie,     \* are interrupts enabled?
    hpmCall,    \* the call under way: what it does, its step, counter and locals
    hpmRet,     \* the last call, the counter at its start and its result
    hpmTime,    \* cycles read and times returned by the last _times, gettimeofday
    hpmTicked,  \* events counted since the call began
    hpmTicks, hpmCalls

hpmVars == <<hpmReg, hpmEvents, hpmCount, hpmAccess, hpmMie, hpmCall, hpmRet, hpmTime,
             hpmTicked, hpmTicks, hpmCalls>>

HpmCounters == {0, 2} \cup 3..HpmPresent   \* 1 is mtime, in the CLINT
HpmIdle == [op |-> "none", step |-> "none", c |-> 0, hi |-> 0, lo |-> 0, from |-> 0]
HpmDone == [op |-> "none", c |-> 0, from |-> 0, value |-> 0]

HpmInit == /\ hpmReg = [c \in HpmCounters |-> 0] /\ hpmEvents = {}
           /\ hpmCount = 0 /\ hpmAccess = {} /\ hpmMie = TRUE
           /\ hpmCall = HpmIdle /\ hpmRet = HpmDone
           /\ hpmTime = [cycles |-> 0, times |-> 0, sec |-> 0, usec |-> 0]
           /\ hpmTicked = 0 /\ hpmTicks = 0 /\ hpmCalls = 0

\* A counter counts: mcycle and minstret always, the others while they have an
\* event.  None reaches 2^64.
HpmTick(c) ==
    /\ c \in {0, 2} \cup hpmEvents
    /\ hpmTicks < HpmTickMax
    /\ hpmTicks' = hpmTicks + 1
    /\ hpmReg' = [hpmReg EXCEPT ![c] = @ + 1]
    /\ hpmTicked' = IF c = hpmCall.c THEN hpmTicked + 1 ELSE hpmTicked
    /\ UNCHANGED <<hpmEvents, hpmCount, hpmAccess, hpmMie, hpmCall, hpmRet, hpmTime, hpmCalls>>

----------------------------------------------------------------------------
\* Calls without a step in between.
HpmAtomic == hpmCall = HpmIdle /\ hpmCalls < HpmMaxCalls /\ hpmCalls' = hpmCalls + 1
             /\ UNCHANGED <<hpmCall, hpmRet, hpmMie, hpmTicked, hpmTicks>>

\* metal_hpm_init: the counters are tried up to the last but one; all that were
\* found are cleared, mcycle among them.
Probed == IF HpmPresent < HpmLast THEN HpmPresent + 1 ELSE HpmLast
HpmInitialise ==
    /\ HpmAtomic /\ hpmCount = 0
    /\ hpmCount' = Probed
    /\ hpmEvents' = hpmEvents \ 3..(Probed - 1)
    /\ hpmReg' = [c \in HpmCounters |-> IF c < Probed THEN 0 ELSE hpmReg[c]]
    /\ UNCHANGED <<hpmAccess, hpmTime>>

\* metal_hpm_set_event and metal_hpm_clr_event, of all bits.
HpmSetEvent(c) == /\ HpmAtomic /\ c < hpmCount /\ c > 2
                  /\ hpmEvents' = hpmEvents \cup {c}
                  /\ UNCHANGED <<hpmReg, hpmCount, hpmAccess, hpmTime>>
HpmClrEvent(c) == /\ HpmAtomic /\ c < hpmCount /\ c > 2
                  /\ hpmEvents' = hpmEvents \ {c}
                  /\ UNCHANGED <<hpmReg, hpmCount, hpmAccess, hpmTime>>

\* Mutation of MulDiv: one multiplication.
MulDivPlain(v, num, den) == ((v * num) % TimeWord) \div den

\* muldiv: quotient and remainder apart, in words of TimeWord.
MulDiv(v, num, den) == (((((v % den) * num) % TimeWord) \div den) + ((v \div den) * num)) % TimeWord

\* metal_gettimeofday and _gettimeofday.
TimeOfDay(v) == [sec |-> v \div Timebase,
                 usec |-> (((v % Timebase) * ClocksPerSec) % TimeWord) \div Timebase]

\* _times and gettimeofday, of the cycles of mcycle: see HpmRead for the halves.
CTime == /\ HpmAtomic
         /\ hpmTime' = [cycles |-> hpmReg[0], times |-> MulDiv(hpmReg[0], ClocksPerSec, Timebase),
                        sec |-> TimeOfDay(hpmReg[0]).sec, usec |-> TimeOfDay(hpmReg[0]).usec]
         /\ UNCHANGED <<hpmReg, hpmEvents, hpmCount, hpmAccess>>

----------------------------------------------------------------------------
\* Calls in several steps.
HpmBegin(op, step, c) ==
    /\ hpmCall = HpmIdle /\ hpmCalls < HpmMaxCalls
    /\ hpmCalls' = hpmCalls + 1 /\ hpmTicked' = 0
    /\ hpmCall' = [HpmIdle EXCEPT !.op = op, !.step = step, !.c = c, !.from = hpmReg[c]]
    /\ UNCHANGED <<hpmReg, hpmEvents, hpmCount, hpmAccess, hpmMie, hpmRet, hpmTime, hpmTicks>>
HpmGo(fields) == hpmCall' = fields /\ UNCHANGED hpmRet
HpmFinish(value) ==
    /\ hpmCall' = HpmIdle
    /\ hpmRet' = [op |-> hpmCall.op, c |-> hpmCall.c, from |-> hpmCall.from, value |-> value]
At(step) == hpmCall.step = step
High(c) == hpmReg[c] \div HpmWord
Low(c) == hpmReg[c] % HpmWord

\* Mutation of ReadHighAgain: without the test.
ReadHighOnce == HpmFinish((hpmCall.hi * HpmWord) + hpmCall.lo)

\* metal_hpm_read_counter: high, low and high half, until the high halves agree.
ReadHighAgain ==
    IF High(hpmCall.c) = hpmCall.hi THEN HpmFinish((hpmCall.hi * HpmWord) + hpmCall.lo)
                                    ELSE HpmGo([hpmCall EXCEPT !.step = "high"])
HpmRead ==
    /\ \/ At("high") /\ HpmGo([hpmCall EXCEPT !.hi = High(hpmCall.c), !.step = "low"])
       \/ At("low") /\ HpmGo([hpmCall EXCEPT !.lo = Low(hpmCall.c), !.step = "again"])
       \/ At("again") /\ ReadHighAgain
    /\ UNCHANGED <<hpmReg, hpmEvents, hpmCount, hpmAccess, hpmMie, hpmTime, hpmTicked, hpmTicks,
                   hpmCalls>>

\* __metal_driver_cpu_mcycle_get reads mcycle in the same three steps, whether the
\* counters are initialised or not.
CycleCount == HpmBegin("read", "high", 0)

\* metal_hpm_clear_counter: high, low and high half.
ClearLow == HpmGo([hpmCall EXCEPT !.step = "clear again"])
HpmClear ==
    LET c == hpmCall.c
    IN  /\ \/ /\ At("clear high") /\ hpmReg' = [hpmReg EXCEPT ![c] = Low(c)]
              /\ HpmGo([hpmCall EXCEPT !.step = "clear low"])
           \/ /\ At("clear low") /\ hpmReg' = [hpmReg EXCEPT ![c] = High(c) * HpmWord]
              /\ ClearLow
           \/ /\ At("clear again") /\ hpmReg' = [hpmReg EXCEPT ![c] = Low(c)]
              /\ HpmFinish(0)
        /\ UNCHANGED <<hpmEvents, hpmCount, hpmAccess, hpmMie, hpmTime, hpmTicked, hpmTicks,
                       hpmCalls>>

\* metal_hpm_enable_access, metal_hpm_disable_access and metal_hpm_disable, whose
\* write a trap skips: an interrupt, or the access itself on a hart without
\* mcounteren.  The trap leaves the interrupts disabled.
AccessWritten == CASE hpmCall.op = "enable" -> hpmAccess \cup {hpmCall.c}
             [] hpmCall.op = "refuse" -> hpmAccess \ {hpmCall.c}
             [] hpmCall.op = "disable" -> {}
HpmWrite ==
    /\ At("access")
    /\ \/ HpmUserMode /\ hpmAccess' = AccessWritten /\ UNCHANGED hpmMie
       \/ (hpmMie \/ ~HpmUserMode) /\ hpmMie' = FALSE /\ UNCHANGED hpmAccess
    /\ hpmCount' = IF hpmCall.op = "disable" THEN 0 ELSE hpmCount
    /\ HpmFinish(0)
    /\ UNCHANGED <<hpmReg, hpmEvents, hpmTime, hpmTicked, hpmTicks, hpmCalls>>

HpmNext ==
    \/ \E c \in HpmCounters : HpmTick(c)
    \/ HpmInitialise \/ CTime
    \/ \E c \in HpmCounters :
        \/ HpmSetEvent(c) \/ HpmClrEvent(c)
        \/ c < hpmCount /\ \/ HpmBegin("read", "high", c) \/ HpmBegin("clear", "clear high", c)
                           \/ HpmBegin("enable", "access", c) \/ HpmBegin("refuse", "access", c)
    \/ HpmBegin("disable", "access", 0)
    \/ CycleCount \/ HpmRead \/ HpmClear \/ HpmWrite

HpmSpec == HpmInit /\ [][HpmNext]_hpmVars

----------------------------------------------------------------------------
\* HpmReadsTrue: what a read returns is a value the counter had between the
\* call's start and its end, however often the halves carry meanwhile.
HpmReadsTrue ==
    [][hpmCall.op = "read" /\ hpmCall' = HpmIdle =>
         hpmRet'.value \in hpmCall.from..(hpmCall.from + hpmTicked)]_hpmVars

\* TimesExact: _times and gettimeofday tell the same time, and it is the exact
\* quotient although the product does not fit.
TimesExact ==
    LET exact == (hpmTime.cycles * ClocksPerSec) \div Timebase
    IN  /\ hpmTime.times = exact % TimeWord
        /\ ((hpmTime.sec * ClocksPerSec) + hpmTime.usec) = exact
============================================================================

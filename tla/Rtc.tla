-------------------------------- MODULE Rtc --------------------------------
(* The real-time clock driver (sifive_rtc0.c): one thread that calls it and   *)
(* the counter, which runs between any two accesses of the driver.            *)
EXTENDS Integers

CONSTANTS
    RtcWord,      \* values of a 32-bit register, 2^32 on the chip
    RtcCompares,  \* compare values the application asks for
    RtcCounts,    \* counts the application sets
    RtcCountMax,  \* bound: the counter stops here
    RtcMaxCalls   \* bound: calls of the thread

ASSUME RtcAssumption == /\ RtcWord \in Nat \ {0, 1}
                        /\ RtcCompares \subseteq Nat /\ RtcCounts \subseteq Nat
                        /\ RtcCountMax \in Nat /\ RtcMaxCalls \in Nat

VARIABLES
    rtc,       \* the registers: scale, cmp, count, and whether it runs
    rtcPc,     \* "idle", or the access of the thread that comes next
    rtcCall,   \* argument of the call that is running, and the count when its first word was read
    rtcRet,    \* what the last call returned, and what it was asked for
    rtcCalls   \* calls so far

rtcVars == <<rtc, rtcPc, rtcCall, rtcRet, rtcCalls>>

Argument(a) == [arg |-> a, shift |-> 0, comp |-> a, seen |-> 0]
NoArgument == Argument(0)
Returned(op, asked, value) == [op |-> op, asked |-> asked, value |-> value]

RtcInit == /\ rtc = [scale |-> 0, cmp |-> RtcWord - 1, count |-> 0, running |-> FALSE]
           /\ rtcPc = "idle" /\ rtcCall = NoArgument
           /\ rtcRet = Returned("none", 0, 0) /\ rtcCalls = 0

Hi(count) == count \div RtcWord
Lo(count) == count % RtcWord

----------------------------------------------------------------------------
\* 2^n.  A value of 64 bits is shifted eight times at most: by 1, 2, ..., 8.
Power(n) == <<1, 2, 4, 8, 16, 32, 64, 128, 256>>[n + 1]

----------------------------------------------------------------------------
\* The calls of metal/rtc.h.  get_rate and set_rate return the rate of the clock.
RtcCallStarts(pcNext, arg) ==
    /\ rtcPc = "idle" /\ rtcCalls < RtcMaxCalls
    /\ rtcCalls' = rtcCalls + 1
    /\ rtcPc' = pcNext
    /\ rtcCall' = Argument(arg)
    /\ UNCHANGED <<rtc, rtcRet>>

RtcSetCompare(c) == RtcCallStarts("loop", c)
RtcGetCount == RtcCallStarts("hi", 0)
RtcSetCount(c) == RtcCallStarts("setHi", c)

RtcRun(on) == /\ rtcPc = "idle" /\ rtcCalls < RtcMaxCalls
              /\ rtcCalls' = rtcCalls + 1
              /\ rtc' = [rtc EXCEPT !.running = on]
              /\ UNCHANGED <<rtcPc, rtcCall, rtcRet>>

\* Mutation of ShiftTurn: the two statements the other way round.
ShiftTurnSwapped ==
    /\ rtcPc = "loop" /\ rtcCall.comp >= RtcWord
    /\ rtcCall' = [rtcCall EXCEPT !.shift = @ + 1, !.comp = @ \div Power(rtcCall.shift)]
    /\ UNCHANGED <<rtc, rtcPc, rtcRet, rtcCalls>>

\* A turn of the loop of set_compare: the value that is left is shifted by 1, then
\* by 2, then by 3, although the scale is only the number of turns.
ShiftTurn ==
    /\ rtcPc = "loop" /\ rtcCall.comp >= RtcWord
    /\ rtcCall' = [rtcCall EXCEPT !.shift = @ + 1, !.comp = @ \div Power(rtcCall.shift + 1)]
    /\ UNCHANGED <<rtc, rtcPc, rtcRet, rtcCalls>>

\* Then the scale is written first, then the compare register, then both are
\* read back.
WriteScale == /\ rtcPc = "loop" /\ rtcCall.comp < RtcWord
              /\ rtc' = [rtc EXCEPT !.scale = rtcCall.shift % 16]
              /\ rtcPc' = "cmp"
              /\ UNCHANGED <<rtcCall, rtcRet, rtcCalls>>

WriteCmp == /\ rtcPc = "cmp"
            /\ rtc' = [rtc EXCEPT !.cmp = rtcCall.comp]
            /\ rtcPc' = "getCompare"
            /\ UNCHANGED <<rtcCall, rtcRet, rtcCalls>>

GetCompare == /\ rtcPc = "getCompare"
              /\ rtcRet' = Returned("compare", rtcCall.arg, rtc.cmp * Power(rtc.scale))
              /\ rtcPc' = "idle" /\ rtcCall' = NoArgument
              /\ UNCHANGED <<rtc, rtcCalls>>

\* set_count writes the high word, then the low word, then reads the count.
SetHi == /\ rtcPc = "setHi"
         /\ rtc' = [rtc EXCEPT !.count = Hi(rtcCall.arg) * RtcWord + Lo(@)]
         /\ rtcPc' = "setLo"
         /\ UNCHANGED <<rtcCall, rtcRet, rtcCalls>>

SetLo == /\ rtcPc = "setLo"
         /\ rtc' = [rtc EXCEPT !.count = Hi(@) * RtcWord + Lo(rtcCall.arg)]
         /\ rtcPc' = "hi"
         /\ UNCHANGED <<rtcCall, rtcRet, rtcCalls>>

\* get_count reads the high word of the count, then the low word.
ReadHi == /\ rtcPc = "hi"
          /\ rtcCall' = [rtcCall EXCEPT !.seen = rtc.count]
          /\ rtcPc' = "lo"
          /\ UNCHANGED <<rtc, rtcRet, rtcCalls>>

ReadLo == /\ rtcPc = "lo"
          /\ rtcRet' = Returned("count", rtc.count, Hi(rtcCall.seen) * RtcWord + Lo(rtc.count))
          /\ rtcPc' = "idle" /\ rtcCall' = NoArgument
          /\ UNCHANGED <<rtc, rtcCalls>>

RtcTick == /\ rtc.running /\ rtc.count < RtcCountMax
           /\ rtc' = [rtc EXCEPT !.count = @ + 1]
           /\ UNCHANGED <<rtcPc, rtcCall, rtcRet, rtcCalls>>

RtcNext == \/ \E c \in RtcCompares : RtcSetCompare(c)
           \/ \E c \in RtcCounts : RtcSetCount(c)
           \/ RtcGetCount
           \/ \E on \in BOOLEAN : RtcRun(on)
           \/ ShiftTurn \/ WriteScale \/ WriteCmp \/ GetCompare
           \/ SetHi \/ SetLo \/ ReadHi \/ ReadLo
           \/ RtcTick

RtcSpec == RtcInit /\ [][RtcNext]_rtcVars

----------------------------------------------------------------------------
\* RtcNeverLate: the alarm set_compare programs is never after the one asked
\* for, and as long as one shift is enough it is less than two ticks before it.
RtcNeverLate ==
    rtcRet.op = "compare" =>
        /\ rtcRet.value <= rtcRet.asked
        /\ rtcRet.asked < 2 * RtcWord => rtcRet.asked - rtcRet.value < 2
============================================================================

-------------------------------- MODULE Pwm --------------------------------
(* The PWM driver (sifive_pwm0.c) on the clock of Clock.tla.  Registers and   *)
(* the driver's own variables are kept apart: the driver reports frequency    *)
(* and duty from its variables, the output follows the registers.  The scale  *)
(* field of the configuration register is the set of its bits that are 1.     *)
EXTENDS Clock

CONSTANTS
    Channels,      \* comparators 1, 2, ... that drive an output
    PwmFreqs,      \* frequencies the application asks for
    PwmDuties,     \* duty cycles in percent it asks for
    PwmMaxCount    \* largest value of a comparator

ASSUME PwmAssumption == /\ Channels \subseteq Nat \ {0} /\ PwmMaxCount \in Nat \ {0}
                        /\ PwmFreqs \subseteq Nat \ {0} /\ PwmDuties \subseteq 0..100
                        /\ \A f \in PwmFreqs, r \in Rates : f <= r

VARIABLE pwm  \* registers: cfg, scale, center, ip, cmp0, cmp; driver: freq, count, duty, enabled

PwmScaleBits == {1, 2, 4, 8}
PwmScale(bits) == LET V(b) == IF b \in bits THEN b ELSE 0 IN V(1) + V(2) + V(4) + V(8)
PwmBits(scale) == CHOOSE bits \in SUBSET PwmScaleBits : PwmScale(bits) = scale

PwmInitState ==
    pwm = [enabled |-> FALSE, freq |-> 0, count |-> 0, duty |-> [c \in Channels |-> 0],
           cmp0 |-> 0, cmp |-> [c \in Channels |-> 0], scale |-> {}, cfg |-> {},
           center |-> {}, ip |-> {}]

----------------------------------------------------------------------------
\* enable forgets the frequency and clears the configuration, but no duty.
PwmEnable == /\ pwm' = [pwm EXCEPT !.enabled = TRUE, !.freq = 0, !.count = 0,
                                   !.cfg = {}, !.scale = {}, !.center = {}, !.ip = {}]
             /\ UNCHANGED <<pc, pre, post>>

\* disable gives the pins back and leaves the timer as it is.
PwmDisable == UNCHANGED <<pwm, pc, pre, post>>

\* set_freq counts with the smallest scale for which the count fits.  When the
\* largest one is not enough either, the scale is one more than it counted with.
PwmCount(hz, f, p) == (hz \div 2^p) \div f
PwmFits(hz, f, p) == PwmCount(hz, f, p) <= PwmMaxCount
PwmPrescale(hz, f) ==
    IF \E p \in 0..15 : PwmFits(hz, f, p)
      THEN CHOOSE p \in 0..15 : /\ PwmFits(hz, f, p)
                                /\ \A q \in 0..(p - 1) : ~PwmFits(hz, f, q)
      ELSE 16
\* The scale is added to the field, which nothing but enable clears.
WithFreq(regs, f) ==
    LET p == PwmPrescale(rate, f)
        count == PwmCount(rate, f, IF p = 16 THEN 15 ELSE p)
    IN  [regs EXCEPT !.freq = (rate \div 2^p) \div count,
                     !.count = count - 1, !.cmp0 = count - 1,
                     !.scale = @ \cup PwmBits(p % 16)]

\* Mutation of PwmSetFreq: it registers no callbacks.
PwmSetFreqOnly(f) == /\ pwm' = WithFreq(pwm, f)
                     /\ UNCHANGED <<pc, pre, post>>

\* The callbacks are registered when there is no frequency yet: once per enable.
PwmSetFreq(f) ==
    /\ IF pwm.freq = 0
         THEN Appends(pre, "pwm") /\ Appends(post, "pwm") /\ RegisterBoth("pwm")
         ELSE UNCHANGED <<pre, post>>
    /\ pwm' = WithFreq(pwm, f)
    /\ UNCHANGED pc

CmpVal(duty) == (duty * pwm.count) \div 100
PwmSetDuty(c, duty, centered) ==
    /\ pwm' = [pwm EXCEPT !.cmp[c] = CmpVal(duty), !.duty[c] = duty,
                          !.center = IF centered THEN @ \cup {c} ELSE @ \ {c}]
    /\ UNCHANGED <<pc, pre, post>>

PwmTrigger(mode) ==
    /\ pwm' = [pwm EXCEPT !.cfg = @ \cup {"deglitch", "zerocmp",
                                          IF mode = "continuous" THEN "enalways" ELSE "enoneshot"}]
    /\ UNCHANGED <<pc, pre, post>>

Stopped(regs) == [regs EXCEPT !.cfg = @ \ {"enalways"}]
PwmStop == pwm' = Stopped(pwm) /\ UNCHANGED <<pc, pre, post>>

PwmCfgInterrupt(on) == /\ pwm' = [pwm EXCEPT !.cfg = IF on THEN @ \cup {"sticky"} ELSE @ \ {"sticky"}]
                       /\ UNCHANGED <<pc, pre, post>>
PwmClrInterrupt(c) == /\ pwm' = [pwm EXCEPT !.ip = @ \ {c}]
                      /\ UNCHANGED <<pc, pre, post>>

\* The calls of metal/pwm.h, enable first; the getters return freq and duty.
PwmCalls ==
    /\ pc = "idle"
    /\ \/ PwmEnable /\ IF pwm.enabled THEN SetUp ELSE UNCHANGED setups
       \/ /\ pwm.enabled
          /\ \/ \E f \in PwmFreqs : PwmSetFreq(f)
             \/ \E c \in Channels, d \in PwmDuties, b \in BOOLEAN : PwmSetDuty(c, d, b)
             \/ \E m \in {"continuous", "one_shot"} : PwmTrigger(m)
             \/ PwmStop \/ PwmDisable
             \/ \E b \in BOOLEAN : PwmCfgInterrupt(b)
             \/ \E c \in Channels \cup {0} : PwmClrInterrupt(c)
          /\ UNCHANGED setups
    /\ UNCHANGED <<rate, target, cursor, changes>>

----------------------------------------------------------------------------
\* pre_rate_change_callback stops the PWM.
PwmPre == /\ pc = "pwmPre"
          /\ pwm' = Stopped(pwm)
          /\ pc' = "preNext"

\* post_rate_change_callback sets the frequency it has and every duty cycle but
\* zero again; it does not start the PWM again.
PwmPost ==
    /\ pc = "pwmPost"
    /\ LET regs == WithFreq(pwm, pwm.freq)
       IN  pwm' = IF pwm.freq = 0 THEN pwm
                  ELSE [regs EXCEPT !.cmp = [c \in Channels |->
                            IF pwm.duty[c] = 0 THEN @[c]
                                               ELSE (pwm.duty[c] * regs.count) \div 100]]
    /\ pc' = "postNext"

PwmThread == /\ PwmPre \/ PwmPost
             /\ UNCHANGED clockVars

\* The timer: a comparator matches, a single shot is over.
PwmHardware ==
    /\ {"enalways", "enoneshot"} \cap pwm.cfg # {}
    /\ \/ \E c \in Channels \cup {0} : pwm' = [pwm EXCEPT !.ip = @ \cup {c}]
       \/ pwm' = [pwm EXCEPT !.cfg = @ \ {"enoneshot"}]
    /\ UNCHANGED <<pc, clockVars>>
============================================================================

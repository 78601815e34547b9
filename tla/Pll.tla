-------------------------------- MODULE Pll --------------------------------
(* The clock tree of the FE310: the oscillators, fixed clocks, and the PLL    *)
(* driver (sifive_fe310-g000_pll.c), which reconfigures the PLL while the     *)
(* code that does it runs from the clock it selects.  Every access of the     *)
(* driver to the PLL registers is a step; the PLL settles in its own time.    *)
EXTENDS Integers, Sequences

CONSTANTS
    PllRates,      \* rates in Hz the application asks for
    InitRates,     \* possible init rates of the device tree; 0 is none
    HfroscRef,     \* rate of the ring oscillator before its divider
    HfxoscRef,     \* rate of the crystal
    HfroscCfgs,    \* configurations the boot ROM may leave: [enable, ready, div]
    SettleTicks,   \* ticks of mtime after which the PLL and its lock bit have settled
    PllMaxCalls    \* bound: rate changes of the application

ASSUME PllAssumption == /\ PllRates \subseteq Nat /\ InitRates \subseteq Nat
                        /\ HfroscRef \in Nat /\ HfxoscRef \in Nat
                        /\ SettleTicks \in Nat /\ PllMaxCalls \in Nat
                        /\ \A cfg \in HfroscCfgs : cfg.div \in Nat

VARIABLES
    pll,       \* the fields of PLLCFG and PLLOUTDIV
    pllPc,     \* next access of the thread
    pllArg,    \* rate asked for, rate of the input, index of the configuration
    pllBoot,   \* init rate, HFROSC configuration, constructors still to run
    settling,  \* ticks since the PLL was last changed, SettleTicks for more
    locked,    \* the PLL has locked since
    waited,    \* ticks the thread has seen in its wait
    pllCalls   \* rate changes of the application so far

pllVars == <<pll, pllPc, pllArg, pllBoot, settling, locked, waited, pllCalls>>

\* multiplier, divisor, min_input_rate, max_input_rate, r, f, q, d
PllConfigs == <<
    <<1,32,12000000,24000000,1,31,3,63>>, <<1,32,24000000,48000000,3,31,2,63>>,
    <<1,16,6000000,12000000,0,31,3,63>>, <<1,16,12000000,24000000,1,31,2,63>>,
    <<1,16,24000000,48000000,3,31,2,31>>, <<1,8,6000000,12000000,0,31,3,31>>,
    <<1,8,12000000,24000000,1,31,2,31>>, <<1,8,24000000,48000000,3,31,2,15>>,
    <<1,4,6000000,12000000,0,31,3,15>>, <<1,4,12000000,24000000,1,31,2,15>>,
    <<1,4,24000000,48000000,3,31,2,7>>, <<1,2,6000000,12000000,0,31,2,15>>,
    <<1,2,12000000,24000000,1,31,1,15>>, <<1,2,24000000,48000000,3,31,1,7>>,
    <<2,1,6000000,12000000,0,31,1,7>>, <<2,1,12000000,24000000,1,31,1,3>>,
    <<2,1,24000000,48000000,3,31,3,-1>>, <<4,1,6000000,12000000,0,31,3,0>>,
    <<4,1,12000000,24000000,1,31,3,-1>>, <<4,1,24000000,48000000,3,31,2,-1>>,
    <<6,1,6000000,10666666,0,35,1,2>>, <<6,1,10666666,12000000,0,23,3,-1>>,
    <<6,1,12000000,16000000,1,47,3,-1>>, <<6,1,16000000,18000000,1,23,2,-1>>,
    <<6,1,18000000,21333333,2,35,2,-1>>, <<8,1,6000000,12000000,0,31,3,-1>>,
    <<8,1,12000000,24000000,1,31,2,-1>>, <<8,1,24000000,48000000,3,31,1,-1>>,
    <<10,1,6000000,9600000,0,39,3,-1>>, <<10,1,9600000,12000000,0,19,2,-1>>,
    <<10,1,12000000,19200000,1,39,2,-1>>, <<10,1,19200000,24000000,1,19,1,-1>>,
    <<10,1,24000000,38400000,3,39,1,-1>>, <<12,1,6000000,8000000,0,47,3,-1>>,
    <<12,1,8000000,12000000,0,23,2,-1>>, <<12,1,12000000,16000000,1,47,2,-1>>,
    <<12,1,16000000,24000000,1,23,1,-1>>, <<12,1,24000000,30000000,3,47,1,-1>>,
    <<12,1,30000000,32000000,3,47,1,-1>>, <<14,1,6000000,6857142,0,55,3,-1>>,
    <<14,1,6857143,12000000,0,27,2,-1>>, <<14,1,12000000,13714285,1,55,2,-1>>,
    <<14,1,13714286,24000000,1,27,1,-1>>, <<14,1,24000000,27428571,3,55,1,-1>>,
    <<16,1,6000000,12000000,0,31,2,-1>>, <<16,1,12000000,24000000,1,31,1,-1>>,
    <<18,1,6000000,10666666,0,35,2,-1>>, <<18,1,10666667,12000000,0,17,1,-1>>,
    <<18,1,12000000,21333333,1,35,1,-1>>, <<20,1,6000000,9600000,0,39,2,-1>>,
    <<20,1,9600000,12000000,0,19,1,-1>>, <<20,1,12000000,19200000,1,39,1,-1>>,
    <<22,1,6000000,8727272,0,43,2,-1>>, <<22,1,8727273,12000000,0,21,1,-1>>,
    <<22,1,12000000,17454545,1,43,1,-1>>, <<24,1,6000000,8000000,0,47,2,-1>>,
    <<24,1,8000000,12000000,0,23,1,-1>>, <<24,1,12000000,16000000,1,47,1,-1>>,
    <<26,1,6000000,7384615,0,51,2,-1>>, <<26,1,7384616,12000000,0,25,1,-1>>,
    <<26,1,12000000,14768230,1,51,1,-1>>, <<28,1,6000000,6857142,0,55,2,-1>>,
    <<28,1,6857143,12000000,0,27,1,-1>>, <<28,1,12000000,13714285,1,55,1,-1>>,
    <<30,1,6000000,6400000,0,59,2,-1>>, <<30,1,6400000,12000000,0,29,1,-1>>,
    <<30,1,12000000,12800000,1,59,1,-1>>, <<32,1,6000000,12000000,0,31,1,-1>>>>

PLL_LOCK_WAIT_TICKS == 4

Bypassing == [sel |-> FALSE, refsel |-> FALSE, bypass |-> TRUE,
              r |-> 0, f |-> 0, q |-> 0, div1 |-> TRUE, div |-> 0]

PllInit == /\ pll = Bypassing
           /\ pllPc = "reset" /\ pllArg = [rate |-> 0, ref |-> 0, index |-> 0]
           /\ pllBoot = [rate |-> 0, hfrosc |-> [enable |-> FALSE, ready |-> FALSE, div |-> 0],
                        left |-> 2]
           /\ settling = SettleTicks /\ locked = FALSE /\ waited = 0
           /\ pllCalls = 0

\* What the device tree says and the boot ROM leaves.
PllReset == /\ pllPc = "reset"
            /\ \E r \in InitRates, cfg \in HfroscCfgs, b \in BOOLEAN :
                 /\ pllBoot' = [pllBoot EXCEPT !.rate = r, !.hfrosc = cfg]
                 /\ pll' = [pll EXCEPT !.refsel = b]
            /\ pllPc' = "boot"
            /\ UNCHANGED <<pllArg, settling, locked, waited, pllCalls>>

----------------------------------------------------------------------------
\* get_rate_hz of the drivers of the tree; -1 is "no rate".
FixedClockRate(rate) == rate
FixedFactorRate(parent, mult, div) == (mult * parent) \div div
HfxoscRate(cfg) == IF cfg.enable /\ cfg.ready THEN FixedClockRate(HfxoscRef) ELSE -1
HfroscRate(cfg) ==
    IF cfg.enable /\ cfg.ready
      THEN FixedFactorRate(FixedClockRate(HfroscRef), 1, cfg.div + 1) ELSE -1

\* The crystal is the reference of the PLL, the ring oscillator the other one.
PllRef == HfxoscRate([enable |-> TRUE, ready |-> TRUE])
PllSel0 == HfroscRate(pllBoot.hfrosc)
InputRate(regs) == IF regs.refsel THEN PllRef ELSE PllSel0

\* 1 << q, for the two bits of the field.
DivQ(q) == <<1, 2, 4, 8>>[q + 1]

GetRate(regs) ==
    LET pllout == (((InputRate(regs) \div (regs.r + 1)) * (2 * (regs.f + 1))) \div DivQ(regs.q))
    IN  IF ~regs.sel THEN PllSel0
        ELSE IF regs.bypass THEN InputRate(regs)
        ELSE IF regs.q = 0 THEN -1
        ELSE IF regs.div1 THEN pllout ELSE pllout \div (2 * (regs.div + 1))

\* get_pll_config_freq
Valid(ref, c) == ref >= c[3] /\ ref <= c[4]
ConfigFreq(ref, c) == (ref * c[1]) \div c[2]

\* Every row of the table: what its registers make of a reference is its multiplier and
\* divisor, so that only the remainders of the divisions are lost.  Behind the first
\* divider, of r + 1, they multiply by a number h, or they divide by it.
Gain(c) == (2 * (c[6] + 1)) \div DivQ(c[7])
FinalDiv(c) == IF c[8] < 0 THEN 1 ELSE 2 * (c[8] + 1)
Agrees(c) ==
    /\ c[1] \in Nat /\ c[2] \in Nat \ {0} /\ c[3] \in Nat /\ c[4] \in Nat
    /\ c[5] \in 0..3 /\ c[6] \in 0..63 /\ c[7] \in 1..3 /\ c[8] \in (-1)..63
    /\ c[5] * c[1] <= 64
    /\ 2 * (c[6] + 1) = Gain(c) * DivQ(c[7])
    /\ \E h \in 1..64 : \/ Gain(c) = FinalDiv(c) * h /\ h * c[2] = (c[5] + 1) * c[1]
                        \/ FinalDiv(c) = Gain(c) * h /\ c[2] = (c[5] + 1) * h /\ c[1] = 1

ASSUME TableAgrees == \A i \in 1..Len(PllConfigs) : Agrees(PllConfigs[i])

\* find_closest_config: from the end, the first one of the closest.
Distance(ref, c, rate) == IF ConfigFreq(ref, c) > rate THEN ConfigFreq(ref, c) - rate
                                                       ELSE rate - ConfigFreq(ref, c)
ValidConfigs(ref) == {i \in 1..Len(PllConfigs) : Valid(ref, PllConfigs[i])}
ClosestConfig(ref, rate) ==
    CHOOSE i \in ValidConfigs(ref) :
        \A j \in ValidConfigs(ref) :
            LET Di == Distance(ref, PllConfigs[i], rate)
                Dj == Distance(ref, PllConfigs[j], rate)
            IN  Di < Dj \/ (Di = Dj /\ i >= j)

----------------------------------------------------------------------------
\* A change of the configuration register that the PLL has to follow.
Disturb == /\ settling' = 0 /\ locked' = FALSE
Quiet == UNCHANGED <<settling, locked>>
Change(regs, next) == /\ pll' = regs /\ pllPc' = next
                      /\ IF regs = pll \/ (regs.bypass /\ pll.bypass) THEN Quiet ELSE Disturb

\* The two constructors run before main, the first one only when there is an
\* init rate: pll_init switches the core off the PLL and the PLL to the
\* crystal and then sets the init rate; use_hfxosc sets the init rate again.
PllConstructor ==
    /\ pllPc = "boot" /\ pllBoot.left > 0
    /\ pllBoot' = [pllBoot EXCEPT !.left = @ - 1]
    /\ IF pllBoot.left = 2 /\ pllBoot.rate # 0
         THEN pll' = [pll EXCEPT !.sel = FALSE, !.refsel = TRUE]
         ELSE UNCHANGED pll
    /\ pllPc' = IF pllBoot.left = 2 /\ pllBoot.rate = 0 THEN "boot" ELSE "off"
    /\ pllArg' = [pllArg EXCEPT !.rate = pllBoot.rate]
    /\ UNCHANGED <<settling, locked, waited, pllCalls>>

PllBooted == /\ pllPc = "boot" /\ pllBoot.left = 0
             /\ pllPc' = "idle"
             /\ UNCHANGED <<pll, pllArg, pllBoot, settling, locked, waited, pllCalls>>

\* metal_clock_set_rate_hz on the PLL (Clock.tla has the callbacks around it).
PllSetRate(rate) == /\ pllPc = "idle" /\ pllCalls < PllMaxCalls
                    /\ pllCalls' = pllCalls + 1
                    /\ pllArg' = [pllArg EXCEPT !.rate = rate]
                    /\ pllPc' = "off"
                    /\ UNCHANGED <<pll, pllBoot, settling, locked, waited>>

\* set_rate_hz: off the PLL, then bypass it or pick a configuration.
SelectOff == /\ pllPc = "off"
             /\ pll' = [pll EXCEPT !.sel = FALSE]
             /\ pllPc' = "choose"
             /\ UNCHANGED <<pllArg, pllBoot, settling, locked, waited, pllCalls>>

Choose ==
    /\ pllPc = "choose"
    /\ LET ref == InputRate(pll)
           near == ref > 0 /\ (ref * 3) \div 4 <= pllArg.rate /\ (ref * 5) \div 4 >= pllArg.rate
       IN  IF near \/ ValidConfigs(ref) = {}
             THEN /\ Change([pll EXCEPT !.bypass = TRUE], "select")
                  /\ pllArg' = [pllArg EXCEPT !.ref = ref, !.index = 0]
             ELSE /\ pllPc' = "r"
                  /\ pllArg' = [pllArg EXCEPT !.ref = ref, !.index = ClosestConfig(ref, pllArg.rate)]
                  /\ UNCHANGED pll /\ Quiet
    /\ UNCHANGED <<pllBoot, waited, pllCalls>>

\* configure_pll: every field is cleared and set on its own.
Config == PllConfigs[pllArg.index]
ConfigurePll ==
    /\ \/ pllPc = "r" /\ Change([pll EXCEPT !.r = Config[5]], "f")
       \/ pllPc = "f" /\ Change([pll EXCEPT !.f = Config[6]], "q")
       \/ pllPc = "q" /\ Change([pll EXCEPT !.q = Config[7]], "outdiv")
       \/ /\ pllPc = "outdiv" /\ Quiet
          /\ pll' = IF Config[8] < 0 THEN [pll EXCEPT !.div1 = TRUE, !.div = 1]
                                     ELSE [pll EXCEPT !.div1 = FALSE, !.div = Config[8]]
          /\ pllPc' = "bypassOff"
       \/ pllPc = "bypassOff" /\ Change([pll EXCEPT !.bypass = FALSE], "ticks")
    /\ waited' = 0
    /\ UNCHANGED <<pllArg, pllBoot, pllCalls>>

\* Mutation of WaitEnough: one tick less.
WaitShort(ticks) == ticks >= PLL_LOCK_WAIT_TICKS

\* The wait ends when mtime is past its end.
WaitEnough(ticks) == ticks > PLL_LOCK_WAIT_TICKS

WaitTicks == /\ pllPc = "ticks" /\ WaitEnough(waited)
             /\ pllPc' = "lock"
             /\ UNCHANGED <<pll, pllArg, pllBoot, settling, locked, waited, pllCalls>>

\* The lock bit says nothing until the PLL has settled.
WaitLock == /\ pllPc = "lock" /\ (settling < SettleTicks \/ locked)
            /\ pllPc' = "select"
            /\ UNCHANGED <<pll, pllArg, pllBoot, settling, locked, waited, pllCalls>>

Select == /\ pllPc = "select"
          /\ pll' = [pll EXCEPT !.sel = TRUE]
          /\ pllPc' = IF pllBoot.left > 0 THEN "boot" ELSE "idle"
          /\ waited' = 0
          /\ UNCHANGED <<pllArg, pllBoot, settling, locked, pllCalls>>

\* mtime ticks; a PLL that has settled locks.
PllTick == /\ settling < SettleTicks \/ (pllPc = "ticks" /\ ~WaitEnough(waited))
           /\ settling' = IF settling < SettleTicks THEN settling + 1 ELSE settling
           /\ waited' = IF pllPc = "ticks" THEN waited + 1 ELSE waited
           /\ UNCHANGED <<pll, pllPc, pllArg, pllBoot, locked, pllCalls>>
PllLock == /\ ~pll.bypass /\ settling = SettleTicks /\ ~locked
           /\ locked' = TRUE
           /\ UNCHANGED <<pll, pllPc, pllArg, pllBoot, settling, waited, pllCalls>>

PllNext == \/ PllReset \/ PllConstructor \/ PllBooted
           \/ \E rate \in PllRates : PllSetRate(rate)
           \/ SelectOff \/ Choose \/ ConfigurePll
           \/ WaitTicks \/ WaitLock \/ Select
           \/ PllTick \/ PllLock

PllSpec == PllInit /\ [][PllNext]_pllVars

----------------------------------------------------------------------------
\* PllStable: the core runs from the PLL only when the PLL is bypassed or has
\* settled and locked on the configuration it has now.
PllStable == (pll.sel /\ ~pll.bypass) => (settling = SettleTicks /\ locked)

\* PllRateTold: the rate computed from the registers after a rate change is,
\* but for rounding, what the table promises for the configuration, and no valid
\* configuration is nearer to the rate that was asked for.
PllRateTold ==
    (pllPc = "idle" /\ pll.sel /\ ~pll.bypass) =>
        LET told == GetRate(pll)
            promised == ConfigFreq(pllArg.ref, Config)
        IN  /\ told - promised \in -64..64
            /\ \A i \in ValidConfigs(pllArg.ref) :
                 Distance(pllArg.ref, Config, pllArg.rate)
                     <= Distance(pllArg.ref, PllConfigs[i], pllArg.rate)

\* PllSound: the core never runs from a clock that is not what the driver says:
\* it is stable, and its rate is the one of the closest configuration.
PllSound == PllStable /\ PllRateTold
============================================================================

--------------------------- MODULE DevicesProofs ---------------------------
(* Proofs about the units of Devices, unit by unit, for every value of the     *)
(* constants; the last part carries them over to Devices itself.               *)
EXTENDS Devices, InterruptLinesProofs, WellFoundedInduction

-----------------------------------------------------------------------------
\* Physical memory protection, for any number of regions, any granularity and
\* any configurations, on a 32-bit hart.  On a 64-bit hart the property does not
\* hold: see Spread.

\* A mask or value for the configuration register has bits at one region only.
LEMMA SpreadOwn ==
    ASSUME PmpXlen = 32, NEW r \in Regions, NEW s \in Regions \ {r}, NEW bits
    PROVE  Spread(r, bits)[s] = {}
  <1>1. r \in Int /\ s \in Int /\ r # s
    BY PmpAssumption DEF Regions
  <1>2. ~(r \div 4 = s \div 4 /\ r % 4 = s % 4)
    BY <1>1
  <1>3. QED
    BY <1>2 DEF Spread, SameWord, Byte

\* The address register of another region is not written.
LEMMA AddressOfOthers ==
    ASSUME NEW c, NEW d, NEW r, NEW a, NEW s \in Regions \ {r}
    PROVE  LET next == WithAddr([cfg |-> c, addr |-> d], r, a)
           IN  next.cfg = c /\ next.addr[s] = d[s]
  <1> DEFINE regs == [cfg |-> c, addr |-> d]
             written == [t \in Regions |-> IF t = r THEN a ELSE d[t]]
  <1>1. [regs EXCEPT !.addr = written] = [cfg |-> c, addr |-> written]
    OBVIOUS
  <1>2. written[s] = d[s]
    OBVIOUS
  <1>3. AddrWritten(regs, r, a) \in {regs, [cfg |-> c, addr |-> written]}
    BY <1>1 DEF AddrWritten
  <1>4. WithAddr(regs, r, a) \in {regs, [cfg |-> c, addr |-> written]}
    BY <1>3 DEF WithAddr
  <1>5. QED
    BY <1>2, <1>4

\* Nor is the configuration of another region changed, although it is written.
LEMMA ConfigurationOfOthers ==
    ASSUME PmpXlen = 32, NEW regs, DOMAIN regs = {"cfg", "addr"}, NEW r, NEW cfg,
           NEW s \in Regions \ {r}
    PROVE  LET next == WithCfg(regs, r, cfg)
           IN  next.addr = regs.addr /\ next.cfg[s] = regs.cfg[s]
  <1> DEFINE mask == Spread(r, PmpBits)
             value == Spread(r, cfg)
             written == [t \in Regions |-> IF Locked(regs.cfg, t) THEN regs.cfg[t]
                                           ELSE (regs.cfg[t] \ mask[t]) \cup value[t]]
  <1>1. CASE r \notin Regions
    BY <1>1 DEF WithCfg
  <1>2. CASE r \in Regions
    <2>1. mask[s] = {} /\ value[s] = {}
      BY <1>2, SpreadOwn
    <2>2. (regs.cfg[s] \ mask[s]) \cup value[s] = regs.cfg[s]
      BY <2>1
    <2>3. written[s] = regs.cfg[s]
      BY <2>2
    <2>4. CfgWritten(regs, mask, value) = [regs EXCEPT !.cfg = written]
      BY DEF CfgWritten
    <2> HIDE DEF written
    <2>5. [regs EXCEPT !.cfg = written].cfg = written /\ [regs EXCEPT !.cfg = written].addr = regs.addr
      OBVIOUS
    <2>6. WithCfg(regs, r, cfg) \in {regs, [regs EXCEPT !.cfg = written]}
      BY <2>4 DEF WithCfg
    <2>7. QED
      BY <2>3, <2>5, <2>6
  <1>3. QED
    BY <1>1, <1>2

\* What PmpOthersKept says of a step.
OthersKept ==
    pmpRet'.rc = 0 =>
         \A r \in Regions \ {pmpRet'.region} :
             pmpCfg'[r] = pmpCfg[r] /\ pmpAddr'[r] = pmpAddr[r]

\* metal_pmp_set_region, which every setter ends in, keeps the other regions.
LEMMA SetKeepsOthers ==
    ASSUME PmpXlen = 32, NEW r, NEW cfg, NEW a, PmpSet(r, cfg, a)
    PROVE  OthersKept
  <1> DEFINE addressed == WithAddr(PmpRegs, r, a)
             next == SetRegion(PmpRegs, r, cfg, a)
  <1>1. pmpCfg' = next.cfg /\ pmpAddr' = next.addr /\ pmpRet'.region = r
    BY DEF PmpSet
  <1>2. SUFFICES ASSUME NEW s \in Regions \ {r}
                 PROVE  next.cfg[s] = pmpCfg[s] /\ next.addr[s] = pmpAddr[s]
    BY <1>1 DEF OthersKept
  <1>3. addressed.cfg = pmpCfg /\ addressed.addr[s] = pmpAddr[s]
    BY AddressOfOthers DEF PmpRegs
  <1>4. DOMAIN addressed = {"cfg", "addr"}
    BY DEF WithAddr, AddrWritten, PmpRegs
  <1>5. next \in {PmpRegs, WithCfg(addressed, r, cfg)}
    BY DEF SetRegion, RegionWritten
  <1> HIDE DEF next
  <1>6. CASE next = PmpRegs
    BY <1>6 DEF PmpRegs
  <1>7. CASE next = WithCfg(addressed, r, cfg)
    <2> HIDE DEF addressed
    <2>1. next.addr = addressed.addr /\ next.cfg[s] = addressed.cfg[s]
      BY <1>4, <1>7, ConfigurationOfOthers
    <2>2. QED
      BY <1>3, <2>1
  <1>8. QED
    BY <1>5, <1>6, <1>7

\* PmpOthersKeptHolds: on a 32-bit hart no call of pmp.c that sets a region changes
\* the configuration or the address of another one, although the configurations of
\* four regions share a register and every setter reads, changes and writes it.
THEOREM PmpOthersKeptHolds == PmpXlen = 32 => (PmpSpec => PmpOthersKept)
  <1> SUFFICES ASSUME PmpXlen = 32
               PROVE PmpSpec => PmpOthersKept
    OBVIOUS
  <1>1. [PmpNext]_pmpVars => [OthersKept]_pmpVars
    <2> SUFFICES ASSUME [PmpNext]_pmpVars
                 PROVE  [OthersKept]_pmpVars
      OBVIOUS
    <2>1. CASE \E r \in PmpAsked, cfg \in PmpConfigs, a \in PmpAddrs : PmpSet(r, cfg, a)
      BY <2>1, SetKeepsOthers
    <2>2. CASE \E r \in PmpAsked : PmpModify(r)
      BY <2>2, SetKeepsOthers DEF PmpModify
    <2>3. CASE PmpInitialise
      BY <2>3 DEF PmpInitialise, NoCall, OthersKept
    <2>4. CASE UNCHANGED pmpVars
      BY <2>4
    <2>5. QED
      BY <2>1, <2>2, <2>3, <2>4 DEF PmpNext
  <1>2. QED
    BY <1>1, PTL DEF PmpSpec, PmpOthersKept, OthersKept

-----------------------------------------------------------------------------
\* The PLL driver: the core never runs from a PLL that has not settled, for any
\* rates, oscillators and number of calls, if the PLL settles within the ticks
\* that the driver waits.

\* The accesses during which the core is off the PLL.
OffThePll == {"choose", "r", "f", "q", "outdiv", "bypassOff", "ticks", "lock", "select"}

\* The fields that matter, and the times.
PllTypeOK ==
    /\ {"sel", "bypass"} \subseteq DOMAIN pll
    /\ pll.sel \in BOOLEAN /\ pll.bypass \in BOOLEAN
    /\ settling \in 0..SettleTicks /\ waited \in Nat

\* What a step of the reconfiguration knows of the PLL.
Waiting ==
    /\ pllPc \in OffThePll => ~pll.sel
    /\ pllPc = "ticks" => waited <= settling \/ settling = SettleTicks
    /\ pllPc = "lock" => settling = SettleTicks
    /\ pllPc = "select" => pll.bypass \/ (settling = SettleTicks /\ locked)

PllIInv == PllTypeOK /\ Waiting /\ PllStable

\* The state after reset satisfies the inductive invariant.
LEMMA PllInitIInv == PllInit => PllIInv
  BY PllAssumption DEF PllInit, PllIInv, PllTypeOK, Waiting, PllStable, Bypassing, OffThePll

\* A field of the configuration is changed, other than the two that matter.
LEMMA FieldChanged ==
    ASSUME NEW regs, {"sel", "bypass"} \subseteq DOMAIN regs, NEW x, NEW y
    PROVE  \A next \in {[regs EXCEPT !.r = x], [regs EXCEPT !.f = x], [regs EXCEPT !.q = x],
                        [regs EXCEPT !.refsel = x], [regs EXCEPT !.div1 = x, !.div = y]} :
              {"sel", "bypass"} \subseteq DOMAIN next /\ next.sel = regs.sel /\ next.bypass = regs.bypass
  OBVIOUS

\* A change of the registers while the core is off the PLL.
LEMMA ChangeStep ==
    ASSUME PllIInv, NEW regs, NEW next \in {"f", "q", "outdiv", "ticks", "select"}, Change(regs, next),
           {"sel", "bypass"} \subseteq DOMAIN regs, regs.sel = FALSE, regs.bypass \in BOOLEAN,
           next = "select" => regs.bypass, waited' \in Nat, next = "ticks" => waited' = 0
    PROVE  PllIInv'
  <1> USE DEF PllIInv
  <1>1. pll' = regs /\ pllPc' = next /\ settling' \in 0..SettleTicks
    BY PllAssumption DEF Change, Quiet, Disturb, PllTypeOK
  <1>2. PllTypeOK' /\ PllStable'
    BY <1>1 DEF PllTypeOK, PllStable
  <1>3. Waiting'
    BY <1>1 DEF Waiting, OffThePll
  <1>4. QED
    BY <1>2, <1>3

\* The constructors and the beginning of a rate change take the core off the PLL,
\* or leave the registers alone.
LEMMA PllBeginStep ==
    ASSUME PllIInv, \/ PllReset \/ PllConstructor \/ PllBooted \/ SelectOff
                    \/ \E rate \in PllRates : PllSetRate(rate)
    PROVE  PllIInv'
  <1> USE DEF PllIInv
  <1>1. UNCHANGED <<settling, locked, waited>> /\ pllPc' \in {"boot", "off", "idle", "choose"}
    BY DEF PllReset, PllConstructor, PllBooted, SelectOff, PllSetRate
  <1>2. /\ {"sel", "bypass"} \subseteq DOMAIN pll' /\ pll'.sel \in {pll.sel, FALSE} /\ pll'.bypass = pll.bypass
        /\ pllPc' = "choose" => ~pll'.sel
    <2>1. CASE PllReset
      <3> PICK b \in BOOLEAN : pll' = [pll EXCEPT !.refsel = b]
        BY <2>1 DEF PllReset
      <3> QED
        BY <2>1, FieldChanged DEF PllReset, PllTypeOK
    <2>2. CASE PllConstructor
      <3>1. pll' \in {pll, [pll EXCEPT !.sel = FALSE, !.refsel = TRUE]} /\ pllPc' # "choose"
        BY <2>2 DEF PllConstructor
      <3>2. QED
        BY <3>1 DEF PllTypeOK
    <2>3. CASE PllBooted \/ \E rate \in PllRates : PllSetRate(rate)
      BY <2>3 DEF PllBooted, PllSetRate, PllTypeOK
    <2>4. CASE SelectOff
      BY <2>4 DEF SelectOff, PllTypeOK
    <2>5. QED
      BY <2>1, <2>2, <2>3, <2>4
  <1>3. PllTypeOK'
    BY <1>1, <1>2 DEF PllTypeOK
  <1>4. Waiting'
    BY <1>1, <1>2 DEF Waiting, OffThePll
  <1>5. PllStable'
    BY <1>1, <1>2 DEF PllStable, PllTypeOK
  <1>6. QED
    BY <1>3, <1>4, <1>5

\* The choice: bypass, or a configuration.
LEMMA ChooseStep == PllIInv /\ Choose => PllIInv'
  <1> SUFFICES ASSUME PllIInv, Choose
               PROVE PllIInv'
    OBVIOUS
  <1> USE DEF PllIInv
  <1> DEFINE bypassed == [pll EXCEPT !.bypass = TRUE]
  <1>1. ~pll.sel /\ waited' = waited
    BY DEF Choose, Waiting, OffThePll
  <1>2. CASE Change(bypassed, "select")
    <2>1. {"sel", "bypass"} \subseteq DOMAIN bypassed /\ bypassed.sel = FALSE /\ bypassed.bypass = TRUE
      BY <1>1 DEF PllTypeOK
    <2> HIDE DEF bypassed
    <2>2. QED
      BY <1>1, <1>2, <2>1, ChangeStep DEF PllTypeOK
  <1>3. CASE pllPc' = "r" /\ UNCHANGED pll /\ Quiet
    BY <1>1, <1>3 DEF Quiet, PllTypeOK, Waiting, OffThePll, PllStable
  <1>4. QED
    BY <1>2, <1>3 DEF Choose

\* The fields are written one by one, and bypassing ends.
LEMMA ConfigureStep == PllIInv /\ ConfigurePll => PllIInv'
  <1> SUFFICES ASSUME PllIInv, ConfigurePll
               PROVE PllIInv'
    OBVIOUS
  <1> USE DEF PllIInv
  <1>1. pll.sel = FALSE /\ waited' = 0
    BY DEF ConfigurePll, Waiting, OffThePll, PllTypeOK
  <1>2. CASE \E regs \in {[pll EXCEPT !.r = Config[5]], [pll EXCEPT !.f = Config[6]],
                          [pll EXCEPT !.q = Config[7]]}, next \in {"f", "q", "outdiv"} : Change(regs, next)
    <2> PICK regs \in {[pll EXCEPT !.r = Config[5]], [pll EXCEPT !.f = Config[6]],
                       [pll EXCEPT !.q = Config[7]]}, next \in {"f", "q", "outdiv"} : Change(regs, next)
      BY <1>2
    <2>1. {"sel", "bypass"} \subseteq DOMAIN regs /\ regs.sel = FALSE /\ regs.bypass \in BOOLEAN
      BY <1>1 DEF PllTypeOK
    <2>2. QED
      BY <1>1, <2>1, ChangeStep
  <1>3. CASE pllPc = "outdiv" /\ Quiet /\ pllPc' = "bypassOff"
    <2>1. {"sel", "bypass"} \subseteq DOMAIN pll' /\ pll'.sel = pll.sel /\ pll'.bypass = pll.bypass
      BY <1>3, FieldChanged DEF ConfigurePll, PllTypeOK
    <2>2. QED
      BY <1>1, <1>3, <2>1 DEF Quiet, PllTypeOK, Waiting, OffThePll, PllStable
  <1>4. CASE Change([pll EXCEPT !.bypass = FALSE], "ticks")
    <2> DEFINE regs == [pll EXCEPT !.bypass = FALSE]
    <2>1. {"sel", "bypass"} \subseteq DOMAIN regs /\ regs.sel = FALSE /\ regs.bypass = FALSE
      BY <1>1 DEF PllTypeOK
    <2> HIDE DEF regs
    <2>2. Change(regs, "ticks")
      BY <1>4 DEF regs
    <2>3. QED
      BY <1>1, <2>1, <2>2, ChangeStep
  <1>5. QED
    BY <1>2, <1>3, <1>4 DEF ConfigurePll

\* The wait, which is long enough for the PLL to settle.
LEMMA WaitStep ==
    ASSUME SettleTicks <= PLL_LOCK_WAIT_TICKS + 1,
           PllIInv, WaitTicks \/ WaitLock \/ PllTick \/ PllLock
    PROVE  PllIInv'
  <1> USE PllAssumption DEF PllIInv, PllTypeOK, Waiting, OffThePll, PllStable
  <1>1. CASE WaitTicks
    BY <1>1 DEF WaitTicks, WaitEnough, PLL_LOCK_WAIT_TICKS
  <1>2. CASE WaitLock
    BY <1>2 DEF WaitLock
  <1>3. CASE PllTick
    BY <1>3 DEF PllTick
  <1>4. CASE PllLock
    BY <1>4 DEF PllLock
  <1>5. QED
    BY <1>1, <1>2, <1>3, <1>4

\* The core goes back to the PLL.
LEMMA SelectStep == PllIInv /\ Select => PllIInv'
  <1> SUFFICES ASSUME PllIInv, Select
               PROVE PllIInv'
    OBVIOUS
  <1> USE DEF PllIInv
  <1>1. {"sel", "bypass"} \subseteq DOMAIN pll' /\ pll'.sel = TRUE /\ pll'.bypass = pll.bypass
    BY DEF Select, PllTypeOK
  <1>2. pllPc = "select" /\ pllPc' \in {"boot", "idle"} /\ waited' = 0 /\ UNCHANGED <<settling, locked>>
    BY DEF Select
  <1>3. QED
    BY <1>1, <1>2 DEF PllTypeOK, Waiting, OffThePll, PllStable

\* Every step keeps the inductive invariant.
LEMMA PllNextIInv ==
    ASSUME SettleTicks <= PLL_LOCK_WAIT_TICKS + 1
    PROVE  PllIInv /\ [PllNext]_pllVars => PllIInv'
  <1>1. PllIInv /\ UNCHANGED pllVars => PllIInv'
    BY DEF pllVars, PllIInv, PllTypeOK, Waiting, PllStable
  <1>2. QED
    BY <1>1, PllBeginStep, ChooseStep, ConfigureStep, WaitStep, SelectStep DEF PllNext

\* PllStableHolds: if the PLL and its lock bit settle within the ticks that the
\* driver waits for (PLL_LOCK_WAIT_TICKS, and one for the strict comparison), the
\* core runs from the PLL only while it is bypassed or has settled and locked on
\* the configuration it has, whatever rates are asked for and in whatever state
\* the boot ROM leaves the oscillators.
THEOREM PllStableHolds ==
    SettleTicks <= PLL_LOCK_WAIT_TICKS + 1 => (PllSpec => []PllStable)
  <1> SUFFICES ASSUME SettleTicks <= PLL_LOCK_WAIT_TICKS + 1
               PROVE PllSpec => []PllStable
    OBVIOUS
  <1>1. PllIInv /\ [PllNext]_pllVars => PllIInv'
    BY PllNextIInv
  <1>2. PllIInv => PllStable
    BY DEF PllIInv
  <1>3. QED
    BY <1>1, <1>2, PllInitIInv, PTL DEF PllSpec

-----------------------------------------------------------------------------
\* Reading a counter of two halves while it counts, for any width of a half, any
\* number of counters and of events.

ReadSteps == {"high", "low", "again"}
OtherSteps == {"none", "clear high", "clear low", "clear again", "access"}

HpmTypeOK ==
    /\ hpmReg \in [HpmCounters -> Nat]
    /\ hpmCall \in [op : {"none", "read", "clear", "enable", "refuse", "disable"},
                    step : ReadSteps \cup OtherSteps, c : HpmCounters, hi : Nat, lo : Nat, from : Nat]
    /\ hpmCall.op = "read" <=> hpmCall.step \in ReadSteps
    /\ hpmTicked \in Nat

\* What a read that is under way has: the counter at its start, and the halves at
\* moments since.
Reading ==
    hpmCall.op = "read" =>
        /\ hpmReg[hpmCall.c] = hpmCall.from + hpmTicked
        /\ At("low") => hpmCall.hi <= High(hpmCall.c)
        /\ At("again") => \E t \in 0..hpmTicked :
                             /\ hpmCall.lo = (hpmCall.from + t) % HpmWord
                             /\ hpmCall.hi <= (hpmCall.from + t) \div HpmWord

HpmIInv == HpmTypeOK /\ Reading

\* What HpmReadsTrue says of a step.
ReadTrue == hpmCall.op = "read" /\ hpmCall' = HpmIdle =>
                hpmRet'.value \in hpmCall.from..(hpmCall.from + hpmTicked)

\* Quotients and remainders of a word.
LEMMA Halves ==
    ASSUME NEW x \in Nat
    PROVE  /\ x \div HpmWord \in Nat /\ x % HpmWord \in Nat
           /\ ((x \div HpmWord) * HpmWord) + (x % HpmWord) = x
           /\ \A y \in Nat : x <= y => x \div HpmWord <= y \div HpmWord
  <1> HpmWord \in Nat \ {0}
    BY CountersAssumption
  <1>1. x \div HpmWord \in Nat /\ x % HpmWord \in Nat
    OBVIOUS
  <1>2. ((x \div HpmWord) * HpmWord) + (x % HpmWord) = x
    OBVIOUS
  <1>3. \A y \in Nat : x <= y => x \div HpmWord <= y \div HpmWord
    OBVIOUS
  <1>4. QED
    BY <1>1, <1>2, <1>3

\* The state after reset satisfies the inductive invariant.
LEMMA HpmInitIInv == HpmInit => HpmIInv
  <1> SUFFICES ASSUME HpmInit
               PROVE HpmIInv
    OBVIOUS
  <1>1. hpmCall = HpmIdle /\ 0 \in HpmCounters
    BY DEF HpmInit, HpmCounters
  <1>2. HpmTypeOK
    BY <1>1 DEF HpmInit, HpmTypeOK, HpmIdle, ReadSteps, OtherSteps
  <1>3. Reading
    BY <1>1 DEF Reading, HpmIdle
  <1>4. QED
    BY <1>2, <1>3 DEF HpmIInv

\* A counter counts.
LEMMA TickStep ==
    ASSUME HpmIInv, NEW c \in HpmCounters, HpmTick(c)
    PROVE  HpmIInv' /\ ReadTrue
  <1> USE DEF HpmIInv
  <1>1. /\ hpmReg' \in [HpmCounters -> Nat] /\ hpmReg'[c] = hpmReg[c] + 1
        /\ \A d \in HpmCounters : hpmReg[d] <= hpmReg'[d] /\ (d # c => hpmReg'[d] = hpmReg[d])
    BY DEF HpmTick, HpmTypeOK
  <1>2. hpmCall' = hpmCall /\ hpmTicked' = IF c = hpmCall.c THEN hpmTicked + 1 ELSE hpmTicked
    BY DEF HpmTick
  <1>3. HpmTypeOK'
    BY <1>1, <1>2 DEF HpmTypeOK
  <1>4. Reading'
    <2> SUFFICES ASSUME hpmCall.op = "read"
                 PROVE Reading'
      BY <1>2 DEF Reading
    <2>1. hpmReg'[hpmCall.c] = hpmCall.from + hpmTicked'
      BY <1>1, <1>2 DEF Reading, HpmTypeOK
    <2>2. High(hpmCall.c) <= High(hpmCall.c)'
      BY <1>1, <1>2, Halves DEF HpmTypeOK, High
    <2>3. High(hpmCall.c) \in Nat /\ High(hpmCall.c)' \in Nat
      BY <1>1, <1>2, Halves DEF HpmTypeOK, High
    <2>4. At("low") => hpmCall.hi <= High(hpmCall.c)'
      BY <2>2, <2>3 DEF Reading, HpmTypeOK
    <2>5. 0..hpmTicked \subseteq 0..hpmTicked'
      BY <1>2 DEF HpmTypeOK
    <2>6. QED
      BY <1>2, <2>1, <2>4, <2>5 DEF Reading, At, High
  <1>5. ReadTrue
    BY <1>2 DEF ReadTrue, HpmIdle
  <1>6. QED
    BY <1>3, <1>4, <1>5

\* A call without steps runs while no read is under way.
LEMMA AtomicStep ==
    ASSUME HpmIInv,
           HpmInitialise \/ CTime \/ \E c \in HpmCounters : HpmSetEvent(c) \/ HpmClrEvent(c)
    PROVE  HpmIInv' /\ ReadTrue
  <1> USE DEF HpmIInv
  <1>1. HpmAtomic
    BY DEF HpmInitialise, CTime, HpmSetEvent, HpmClrEvent
  <1>2. hpmCall = HpmIdle /\ hpmCall' = HpmIdle /\ hpmTicked' = hpmTicked
    BY <1>1 DEF HpmAtomic
  <1>3. hpmReg' \in [HpmCounters -> Nat]
    BY DEF HpmInitialise, CTime, HpmSetEvent, HpmClrEvent, HpmTypeOK
  <1>4. HpmTypeOK'
    BY <1>2, <1>3 DEF HpmTypeOK
  <1>5. Reading' /\ ReadTrue
    BY <1>2 DEF Reading, ReadTrue, HpmIdle
  <1>6. QED
    BY <1>4, <1>5

\* The start of a call of several steps.
LEMMA HpmBeginStep ==
    ASSUME HpmIInv, NEW c \in HpmCounters,
           NEW op \in {"read", "clear", "enable", "refuse", "disable"},
           NEW step \in {"high", "clear high", "access"}, op = "read" <=> step = "high",
           HpmBegin(op, step, c)
    PROVE  HpmIInv' /\ ReadTrue
  <1> USE DEF HpmIInv
  <1>1. hpmCall' = [op |-> op, step |-> step, c |-> c, hi |-> 0, lo |-> 0, from |-> hpmReg[c]]
    BY DEF HpmBegin, HpmIdle
  <1>2. hpmCall = HpmIdle /\ hpmReg' = hpmReg /\ hpmTicked' = 0
    BY DEF HpmBegin
  <1>3. HpmTypeOK'
    BY <1>1, <1>2 DEF HpmTypeOK, ReadSteps, OtherSteps
  <1>4. Reading'
    BY <1>1, <1>2 DEF Reading, At, HpmTypeOK
  <1>5. ReadTrue
    BY <1>2 DEF ReadTrue, HpmIdle
  <1>6. QED
    BY <1>3, <1>4, <1>5

\* The steps of a read: at the last one the low half belongs to the high half that
\* has not changed, and the two are the counter at the moment of the low half.
LEMMA ReadStep == HpmIInv /\ HpmRead => HpmIInv' /\ ReadTrue
  <1> SUFFICES ASSUME HpmIInv, HpmRead
               PROVE HpmIInv' /\ ReadTrue
    OBVIOUS
  <1> USE DEF HpmIInv
  <1> DEFINE c == hpmCall.c
             now == hpmReg[hpmCall.c]
  <1>1. hpmReg' = hpmReg /\ hpmTicked' = hpmTicked
    BY DEF HpmRead
  <1>2. hpmCall.op = "read" /\ hpmCall.step \in ReadSteps
    BY DEF HpmRead, HpmTypeOK, ReadSteps, At
  <1>3. now \in Nat /\ now = hpmCall.from + hpmTicked /\ hpmCall.from \in Nat /\ hpmTicked \in Nat
    BY <1>2 DEF HpmTypeOK, Reading
  <1>4. High(c) = now \div HpmWord /\ Low(c) = now % HpmWord /\ High(c) \in Nat /\ Low(c) \in Nat
    BY <1>3, Halves DEF High, Low
  <1> HIDE DEF now
  <1>5. CASE At("high") /\ HpmGo([hpmCall EXCEPT !.hi = High(c), !.step = "low"])
    <2>1. hpmCall' = [hpmCall EXCEPT !.hi = High(c), !.step = "low"]
      BY <1>5 DEF HpmGo
    <2>2. /\ hpmCall'.op = "read" /\ hpmCall'.step = "low" /\ hpmCall'.c = c /\ hpmCall'.hi = High(c)
          /\ hpmCall'.from = hpmCall.from
      BY <1>2, <2>1 DEF HpmTypeOK
    <2>3. hpmCall' \in [op : {"none", "read", "clear", "enable", "refuse", "disable"},
                        step : ReadSteps \cup OtherSteps, c : HpmCounters, hi : Nat, lo : Nat, from : Nat]
      BY <1>4, <2>1 DEF HpmTypeOK, ReadSteps
    <2>4. HpmTypeOK'
      BY <1>1, <2>2, <2>3 DEF HpmTypeOK, ReadSteps
    <2>5. High(c)' = High(c)
      BY <1>1, <2>2 DEF High
    <2>6. Reading'
      BY <1>1, <1>2, <1>4, <2>2, <2>5 DEF Reading, At
    <2>7. ReadTrue
      BY <2>2 DEF ReadTrue, HpmIdle
    <2>8. QED
      BY <2>4, <2>6, <2>7
  <1>6. CASE At("low") /\ HpmGo([hpmCall EXCEPT !.lo = Low(c), !.step = "again"])
    <2>1. hpmCall' = [hpmCall EXCEPT !.lo = Low(c), !.step = "again"]
      BY <1>6 DEF HpmGo
    <2>2. /\ hpmCall'.op = "read" /\ hpmCall'.step = "again" /\ hpmCall'.c = c /\ hpmCall'.lo = Low(c)
          /\ hpmCall'.hi = hpmCall.hi /\ hpmCall'.from = hpmCall.from
      BY <1>2, <2>1 DEF HpmTypeOK
    <2>3. hpmCall' \in [op : {"none", "read", "clear", "enable", "refuse", "disable"},
                        step : ReadSteps \cup OtherSteps, c : HpmCounters, hi : Nat, lo : Nat, from : Nat]
      BY <1>4, <2>1 DEF HpmTypeOK, ReadSteps
    <2>4. HpmTypeOK'
      BY <1>1, <2>2, <2>3 DEF HpmTypeOK, ReadSteps
    <2>5. /\ hpmTicked \in 0..hpmTicked'
          /\ hpmCall'.lo = (hpmCall'.from + hpmTicked) % HpmWord
          /\ hpmCall'.hi <= (hpmCall'.from + hpmTicked) \div HpmWord
      BY <1>1, <1>2, <1>3, <1>4, <1>6, <2>2 DEF Reading
    <2>6. Reading'
      BY <1>1, <1>2, <2>2, <2>5 DEF Reading, At
    <2>7. ReadTrue
      BY <2>2 DEF ReadTrue, HpmIdle
    <2>8. QED
      BY <2>4, <2>6, <2>7
  <1>7. CASE At("again") /\ High(c) = hpmCall.hi /\ HpmFinish((hpmCall.hi * HpmWord) + hpmCall.lo)
    <2>1. PICK t \in 0..hpmTicked : /\ hpmCall.lo = (hpmCall.from + t) % HpmWord
                                    /\ hpmCall.hi <= (hpmCall.from + t) \div HpmWord
      BY <1>2, <1>7 DEF Reading
    <2> DEFINE then == hpmCall.from + t
    <2>2. then \in Nat /\ then <= now
      BY <1>3
    <2> HIDE DEF then
    <2>3. then \div HpmWord <= now \div HpmWord /\ then \div HpmWord \in Nat
      BY <1>3, <2>2, Halves
    <2>4. hpmCall.hi = then \div HpmWord
      BY <1>3, <1>4, <1>7, <2>1, <2>3 DEF then, HpmTypeOK
    <2>5. (hpmCall.hi * HpmWord) + hpmCall.lo = then
      BY <2>1, <2>2, <2>4, Halves DEF then
    <2>6. then \in hpmCall.from..(hpmCall.from + hpmTicked)
      BY <1>3 DEF then
    <2>7. hpmRet'.value = (hpmCall.hi * HpmWord) + hpmCall.lo /\ hpmCall' = HpmIdle
      BY <1>7 DEF HpmFinish
    <2>8. ReadTrue
      BY <2>5, <2>6, <2>7 DEF ReadTrue
    <2>9. HpmTypeOK' /\ Reading'
      BY <1>1, <2>7 DEF HpmTypeOK, Reading, HpmIdle, ReadSteps, OtherSteps, HpmCounters
    <2>10. QED
      BY <2>8, <2>9
  <1>8. CASE At("again") /\ HpmGo([hpmCall EXCEPT !.step = "high"])
    <2>1. hpmCall' = [hpmCall EXCEPT !.step = "high"]
      BY <1>8 DEF HpmGo
    <2>2. hpmCall'.op = "read" /\ hpmCall'.step = "high" /\ hpmCall'.c = c /\ hpmCall'.from = hpmCall.from
      BY <1>2, <2>1 DEF HpmTypeOK
    <2>3. HpmTypeOK'
      BY <1>1, <1>2, <2>1 DEF HpmTypeOK, ReadSteps
    <2>4. Reading' /\ ReadTrue
      BY <1>1, <1>2, <2>2 DEF Reading, ReadTrue, At, HpmIdle
    <2>5. QED
      BY <2>3, <2>4
  <1>9. QED
    BY <1>5, <1>6, <1>7, <1>8 DEF HpmRead, ReadHighAgain

\* The steps of the other calls.
LEMMA OtherStep == HpmIInv /\ (HpmClear \/ HpmWrite) => HpmIInv' /\ ReadTrue
  <1> SUFFICES ASSUME HpmIInv, HpmClear \/ HpmWrite
               PROVE HpmIInv' /\ ReadTrue
    OBVIOUS
  <1> USE DEF HpmIInv
  <1>1. hpmCall.op # "read"
    BY DEF HpmClear, HpmWrite, At, HpmTypeOK, ReadSteps
  <1>2. hpmTicked' = hpmTicked
    BY DEF HpmClear, HpmWrite
  <1>3. hpmReg' \in [HpmCounters -> Nat]
    <2>1. High(hpmCall.c) \in Nat /\ Low(hpmCall.c) \in Nat /\ High(hpmCall.c) * HpmWord \in Nat
      BY Halves, CountersAssumption DEF High, Low, HpmTypeOK
    <2>2. QED
      BY <2>1 DEF HpmClear, HpmWrite, HpmTypeOK
  <1>4. hpmCall' = HpmIdle \/ \E step \in {"clear low", "clear again"} : hpmCall' = [hpmCall EXCEPT !.step = step]
    BY DEF HpmClear, ClearLow, HpmWrite, HpmGo, HpmFinish
  <1>5. HpmTypeOK' /\ hpmCall'.op # "read"
    <2>1. CASE hpmCall' = HpmIdle
      BY <1>2, <1>3, <2>1 DEF HpmTypeOK, HpmIdle, ReadSteps, OtherSteps, HpmCounters
    <2>2. CASE \E step \in {"clear low", "clear again"} : hpmCall' = [hpmCall EXCEPT !.step = step]
      <3> PICK step \in {"clear low", "clear again"} : hpmCall' = [hpmCall EXCEPT !.step = step]
        BY <2>2
      <3>1. hpmCall'.op = hpmCall.op /\ hpmCall'.step = step
        BY DEF HpmTypeOK
      <3>2. hpmCall' \in [op : {"none", "read", "clear", "enable", "refuse", "disable"},
                          step : ReadSteps \cup OtherSteps, c : HpmCounters, hi : Nat, lo : Nat, from : Nat]
        BY DEF HpmTypeOK, OtherSteps
      <3>3. QED
        BY <1>1, <1>2, <1>3, <3>1, <3>2 DEF HpmTypeOK, ReadSteps
    <2>3. QED
      BY <1>4, <2>1, <2>2
  <1>6. Reading' /\ ReadTrue
    BY <1>1, <1>5 DEF Reading, ReadTrue
  <1>7. QED
    BY <1>5, <1>6

\* Every step keeps the inductive invariant, and a read returns what is true.
LEMMA HpmNextIInv == HpmIInv /\ [HpmNext]_hpmVars => HpmIInv' /\ [ReadTrue]_hpmVars
  <1> SUFFICES ASSUME HpmIInv, [HpmNext]_hpmVars
               PROVE HpmIInv' /\ [ReadTrue]_hpmVars
    OBVIOUS
  <1>1. CASE \E c \in HpmCounters : HpmTick(c)
    BY <1>1, TickStep
  <1>2. CASE HpmInitialise \/ CTime \/ \E c \in HpmCounters : HpmSetEvent(c) \/ HpmClrEvent(c)
    BY <1>2, AtomicStep
  <1>3. CASE \/ \E c \in HpmCounters : \/ HpmBegin("read", "high", c) \/ HpmBegin("clear", "clear high", c)
                                       \/ HpmBegin("enable", "access", c) \/ HpmBegin("refuse", "access", c)
             \/ HpmBegin("disable", "access", 0) \/ CycleCount
    <2>1. 0 \in HpmCounters
      BY DEF HpmCounters
    <2>2. QED
      BY <1>3, <2>1, HpmBeginStep DEF CycleCount
  <1>4. CASE HpmRead
    BY <1>4, ReadStep
  <1>5. CASE HpmClear \/ HpmWrite
    BY <1>5, OtherStep
  <1>6. CASE UNCHANGED hpmVars
    BY <1>6 DEF hpmVars, HpmIInv, HpmTypeOK, Reading, At, High
  <1>7. QED
    BY <1>1, <1>2, <1>3, <1>4, <1>5, <1>6 DEF HpmNext

\* HpmReadsTrueHolds: metal_hpm_read_counter and the cycle count return a value that
\* the counter had between the start and the end of the call, for any width of the
\* halves and however often the low half carries meanwhile.
THEOREM HpmReadsTrueHolds == HpmSpec => HpmReadsTrue
  BY HpmInitIInv, HpmNextIInv, PTL DEF HpmSpec, HpmReadsTrue, ReadTrue

-----------------------------------------------------------------------------
\* The GPIO block, for any disjoint sets of pins and any number of calls, edges
\* and handlers.

EditsOn(pins) == [how : {"set", "clear", "toggle", "ack"}, r : Registers, mask : SUBSET pins]

GpioTypeOK ==
    /\ DOMAIN gpioReg = Registers /\ DOMAIN gpioAsked = Registers
    /\ gpioEdits \in Seq(EditsOn(ThreadPins)) /\ gpioHandler \in Seq(EditsOn(HandlerPins))
    /\ gpioHeld.read => gpioEdits # <<>>

\* What the thread has read is still true of its own pins when it writes.
HeldTrue ==
    gpioHeld.read /\ Head(gpioEdits).how # "ack" =>
        gpioHeld.pins \cap ThreadPins = gpioAsked[Head(gpioEdits).r]

GpioIInv == GpioTypeOK /\ HeldTrue /\ GpioThreadKept

\* A change of the thread's pins is the change of the register, seen at these pins.
LEMMA ResultOfThread ==
    ASSUME NEW e \in EditsOn(ThreadPins), e.how # "ack", NEW old
    PROVE  Result(e, old) \cap ThreadPins = Result(e, old \cap ThreadPins)
  BY DEF EditsOn, Result

\* A change of the handler's pins leaves the thread's alone.
LEMMA ResultOfHandler ==
    ASSUME NEW e \in EditsOn(HandlerPins), e.how # "ack", NEW old
    PROVE  Result(e, old) \cap ThreadPins = old \cap ThreadPins
  <1>1. e.mask \cap ThreadPins = {} /\ e.how \in {"set", "clear", "toggle"}
    BY GpioAssumption DEF EditsOn
  <1>2. QED
    BY <1>1 DEF Result

\* Short sequences.
LEMMA ShortSeq ==
    ASSUME NEW S, NEW a \in S, NEW b \in S, NEW c \in S, NEW d \in S
    PROVE  {<<a>>, <<a, b>>, <<a, b, c, d>>} \subseteq Seq(S)
  OBVIOUS

\* The calls change the pin they are given only.
LEMMA CallsOnPin ==
    ASSUME NEW pins, NEW p \in pins, NEW edits \in GpioCalls(p)
    PROVE  edits \in Seq(EditsOn(pins))
  <1>1. \A how \in {"set", "clear", "toggle", "ack"}, r \in Registers, mask \in {{}, {p}} :
           Edit(how, r, mask) \in EditsOn(pins)
    BY DEF Edit, EditsOn
  <1>2. \A r \in {"input_en", "output_en", "port", "iof_sel", "iof_en"} : r \in Registers
    BY DEF Registers
  <1>3. CASE edits \in PortCalls(p)
    <2>1. PICK how \in {"set", "clear", "toggle"}, r \in {"input_en", "output_en", "port"} :
             edits = <<Edit(how, r, {p})>>
      BY <1>3 DEF PortCalls
    <2>2. QED
      BY <1>1, <1>2, <2>1, ShortSeq
  <1>4. CASE edits \in LedCalls(p)
    <2>1. /\ Edit("clear", "input_en", {p}) \in EditsOn(pins)
          /\ Edit("set", "output_en", {p}) \in EditsOn(pins)
      BY <1>1, <1>2
    <2>2. QED
      BY <1>4, <2>1, ShortSeq DEF LedCalls
  <1>5. CASE edits \in PinmuxCalls(p)
    <2>1. CASE edits = <<Edit("clear", "iof_en", {p})>>
      BY <1>1, <1>2, <2>1, ShortSeq
    <2>2. CASE \E function \in {{}, {p}} :
                 edits = <<Edit("set", "iof_sel", {p}), Edit("set", "iof_en", function)>>
      <3>1. /\ Edit("set", "iof_sel", {p}) \in EditsOn(pins)
            /\ \A function \in {{}, {p}} : Edit("set", "iof_en", function) \in EditsOn(pins)
        BY <1>1, <1>2
      <3>2. QED
        BY <2>2, <3>1, ShortSeq
    <2>3. QED
      BY <1>5, <2>1, <2>2 DEF PinmuxCalls
  <1>6. CASE edits \in ConfigCalls(p) \cup ClearCalls(p)
    <2>1. PICK how \in {"set", "clear", "ack"}, edges \in TypeEdges : edits = ForEach(how, edges, p)
      <3>1. <<"rise", "fall", "high", "low">> \in TypeEdges
        BY DEF TypeEdges
      <3>2. QED
        BY <1>6, <3>1 DEF ConfigCalls, ClearCalls
    <2>2. edges \in Seq(Registers)
      <3>1. {"rise", "fall", "high", "low"} \subseteq Registers
        BY DEF Registers, Edges
      <3>2. QED
        BY <3>1, ShortSeq DEF TypeEdges
    <2>3. Len(edges) \in Nat /\ \A i \in 1..Len(edges) : edges[i] \in Registers
      BY <2>2
    <2>4. edits = [i \in 1..Len(edges) |-> Edit(how, edges[i], {p})]
      BY <2>1 DEF ForEach
    <2>5. \A i \in 1..Len(edges) : Edit(how, edges[i], {p}) \in EditsOn(pins)
      BY <1>1, <2>3
    <2>6. QED
      BY <2>3, <2>4, <2>5
  <1>7. QED
    BY <1>3, <1>4, <1>5, <1>6 DEF GpioCalls

\* The state before the first call satisfies the inductive invariant.
LEMMA GpioInitIInv == GpioInit => GpioIInv
  BY DEF GpioInit, GpioIInv, GpioTypeOK, HeldTrue, GpioThreadKept, NotRead

\* The thread begins a call, and reads a register.
LEMMA GpioThreadStep ==
    ASSUME GpioIInv, (\E p \in ThreadPins : GpioCall(p)) \/ GpioLoad
    PROVE  GpioIInv'
  <1> USE DEF GpioIInv
  <1>1. CASE \E p \in ThreadPins : GpioCall(p)
    <2>1. gpioEdits' \in Seq(EditsOn(ThreadPins))
      BY <1>1, CallsOnPin DEF GpioCall
    <2>2. ~gpioHeld.read
      BY <1>1 DEF GpioCall, GpioTypeOK
    <2>3. QED
      BY <1>1, <2>1, <2>2 DEF GpioCall, GpioTypeOK, HeldTrue, GpioThreadKept
  <1>2. CASE GpioLoad
    <2>1. Head(gpioEdits) \in EditsOn(ThreadPins)
      BY <1>2 DEF GpioLoad, GpioTypeOK
    <2>2. Head(gpioEdits).r \in Registers
      BY <2>1 DEF EditsOn
    <2>3. gpioHeld' = [pins |-> Current(Head(gpioEdits)), read |-> TRUE]
      BY <1>2 DEF GpioLoad
    <2>4. HeldTrue'
      BY <1>2, <2>2, <2>3 DEF GpioLoad, HeldTrue, Current, GpioThreadKept
    <2>5. QED
      BY <1>2, <2>4 DEF GpioLoad, GpioTypeOK, GpioThreadKept
  <1>3. QED
    BY <1>1, <1>2

\* The thread's write: at its own pins what it read is still true, and at these the
\* register becomes what the write asks.
LEMMA GpioStoreStep == GpioIInv /\ GpioStore => GpioIInv'
  <1> SUFFICES ASSUME GpioIInv, GpioStore
               PROVE GpioIInv'
    OBVIOUS
  <1> USE DEF GpioIInv
  <1> DEFINE e == Head(gpioEdits)
  <1>1. e \in EditsOn(ThreadPins) /\ e.r \in Registers /\ Tail(gpioEdits) \in Seq(EditsOn(ThreadPins))
    <2>1. e \in EditsOn(ThreadPins) /\ Tail(gpioEdits) \in Seq(EditsOn(ThreadPins))
      BY DEF GpioStore, GpioTypeOK
    <2>2. QED
      BY <2>1 DEF EditsOn
  <1>2. Stored(e, gpioHeld.pins) /\ gpioHeld.read /\ gpioHeld' = NotRead /\ gpioHandler' = gpioHandler
    BY DEF GpioStore
  <1>3. gpioAsked' = IF e.how = "ack" THEN gpioAsked ELSE [gpioAsked EXCEPT ![e.r] = Result(e, @)]
    BY DEF GpioStore
  <1>4. gpioReg' = IF e.how = "ack" THEN gpioReg
                   ELSE [gpioReg EXCEPT ![e.r] = Result(e, gpioHeld.pins)]
    BY <1>2 DEF Stored
  <1>5. GpioTypeOK' /\ HeldTrue'
    BY <1>1, <1>2, <1>3, <1>4 DEF GpioStore, GpioTypeOK, HeldTrue, NotRead
  <1>6. GpioThreadKept'
    <2>1. CASE e.how = "ack"
      BY <1>3, <1>4, <2>1 DEF GpioThreadKept
    <2>2. CASE e.how # "ack"
      <3>1. gpioHeld.pins \cap ThreadPins = gpioAsked[e.r]
        BY <1>2, <2>2 DEF HeldTrue
      <3>2. Result(e, gpioHeld.pins) \cap ThreadPins = Result(e, gpioAsked[e.r])
        BY <1>1, <2>2, <3>1, ResultOfThread
      <3> HIDE DEF e
      <3>3. QED
        BY <1>1, <1>3, <1>4, <2>2, <3>2 DEF GpioThreadKept, GpioTypeOK
    <2>3. QED
      BY <2>1, <2>2
  <1>7. QED
    BY <1>5, <1>6

\* The handler and the pins.
LEMMA GpioOtherStep ==
    ASSUME GpioIInv, \/ (\E p \in HandlerPins : GpioHandler(p)) \/ GpioHandled
                     \/ \E e \in Edges, p \in Pins : GpioEdge(e, p)
    PROVE  GpioIInv'
  <1> USE DEF GpioIInv
  <1>1. CASE \E p \in HandlerPins : GpioHandler(p)
    <2>1. gpioHandler' \in Seq(EditsOn(HandlerPins))
      BY <1>1, CallsOnPin DEF GpioHandler
    <2>2. QED
      BY <1>1, <2>1 DEF GpioHandler, GpioTypeOK, HeldTrue, GpioThreadKept
  <1>2. CASE GpioHandled
    <2> DEFINE e == Head(gpioHandler)
               next == Result(e, gpioReg[e.r])
    <2>1. e \in EditsOn(HandlerPins) /\ e.r \in Registers /\ Tail(gpioHandler) \in Seq(EditsOn(HandlerPins))
      <3>1. e \in EditsOn(HandlerPins) /\ Tail(gpioHandler) \in Seq(EditsOn(HandlerPins))
        BY <1>2 DEF GpioHandled, GpioTypeOK
      <3>2. QED
        BY <3>1 DEF EditsOn
    <2>2. gpioReg' = IF e.how = "ack" THEN gpioReg ELSE [gpioReg EXCEPT ![e.r] = next]
      BY <1>2 DEF GpioHandled, Stored, Current
    <2>3. e.how # "ack" => next \cap ThreadPins = gpioReg[e.r] \cap ThreadPins
      BY <2>1, ResultOfHandler
    <2> HIDE DEF e, next
    <2>4. GpioThreadKept'
      BY <1>2, <2>1, <2>2, <2>3 DEF GpioHandled, GpioThreadKept, GpioTypeOK
    <2>5. GpioTypeOK' /\ HeldTrue'
      BY <1>2, <2>1, <2>2 DEF GpioHandled, GpioTypeOK, HeldTrue, e
    <2>6. QED
      BY <2>4, <2>5
  <1>3. CASE \E e \in Edges, p \in Pins : GpioEdge(e, p)
    BY <1>3 DEF GpioEdge, GpioTypeOK, HeldTrue, GpioThreadKept
  <1>4. QED
    BY <1>1, <1>2, <1>3

LEMMA GpioNextIInv == GpioIInv /\ [GpioNext]_gpioVars => GpioIInv'
  <1>1. GpioIInv /\ UNCHANGED gpioVars => GpioIInv'
    BY DEF gpioVars, GpioIInv, GpioTypeOK, HeldTrue, GpioThreadKept
  <1>2. QED
    BY <1>1, GpioThreadStep, GpioStoreStep, GpioOtherStep DEF GpioNext

\* GpioThreadKeptHolds: none of the thread's changes of its pins is lost, in any
\* register and at any moment, although every call reads and writes the register
\* whole, without a lock, and a handler changes other pins in between; because
\* the handler runs to its end.
THEOREM GpioThreadKeptHolds == GpioSpec => []GpioThreadKept
  <1>1. GpioIInv => GpioThreadKept
    BY DEF GpioIInv
  <1>2. QED
    BY <1>1, GpioInitIInv, GpioNextIInv, PTL DEF GpioSpec

-----------------------------------------------------------------------------
\* The bus error unit, for any events and any number of errors and calls.

BeuTypeOK ==
    /\ DOMAIN beuReg = {"enable", "platform", "local", "accrued"}
    /\ DOMAIN beuCall = {"reg", "events", "on", "step", "held"}
    /\ beuCall = BeuIdle \/ beuCall.reg \in DOMAIN beuReg

BeuIInv == BeuTypeOK /\ BeuQuiet

LEMMA BeuInitIInv == BeuInit => BeuIInv
  BY DEF BeuInit, BeuIInv, BeuTypeOK, BeuQuiet, BeuIdle

\* An error, which is a new event.
LEMMA BeuErrorStep ==
    ASSUME BeuIInv, NEW e \in BeuEvents, BeuError(e)
    PROVE  BeuIInv'
  <1>1. /\ beuReg'["accrued"] = beuReg["accrued"] \cup {e} /\ beuReg'["local"] = beuReg["local"]
        /\ DOMAIN beuReg' = DOMAIN beuReg
    BY DEF BeuError, BeuIInv, BeuTypeOK
  <1>2. QED
    BY <1>1 DEF BeuError, BeuIInv, BeuTypeOK, BeuQuiet

\* A call begins, or has gone on to another access.
LEMMA BeuUnderWay ==
    ASSUME BeuIInv, DOMAIN beuReg' = DOMAIN beuReg,
           NEW step \in {"load", "store", "check", "again"}, NEW call,
           DOMAIN call = {"reg", "events", "on", "step", "held"}, call.step = step,
           call.reg \in DOMAIN beuReg, beuCall' = call
    PROVE  BeuIInv'
  BY DEF BeuIInv, BeuTypeOK, BeuQuiet, BeuIdle

LEMMA BeuCallStep ==
    ASSUME BeuIInv, \/ \E r \in DOMAIN beuReg, events \in SUBSET BeuEvents, on \in BOOLEAN :
                          BeuBegin(r, events, on)
                    \/ BeuClearCause
    PROVE  BeuIInv'
  <1>1. CASE \E r \in DOMAIN beuReg, events \in SUBSET BeuEvents, on \in BOOLEAN : BeuBegin(r, events, on)
    BY <1>1, BeuUnderWay DEF BeuBegin
  <1>2. CASE BeuClearCause
    BY <1>2 DEF BeuClearCause, BeuIInv, BeuTypeOK, BeuQuiet
  <1>3. QED
    BY <1>1, <1>2

\* The accesses of a call.  The last read of ACCRUED is the one that decides.
LEMMA BeuAccessStep ==
    ASSUME BeuIInv, BeuLoad \/ BeuStore \/ BeuCheck \/ BeuAnswer
    PROVE  BeuIInv'
  <1>1. beuCall # BeuIdle /\ beuCall.reg \in DOMAIN beuReg
    BY DEF BeuLoad, BeuStore, BeuCheck, BeuAnswer, BeuAt, BeuIdle, BeuIInv, BeuTypeOK
  <1>2. DOMAIN beuReg' = DOMAIN beuReg
    BY DEF BeuLoad, BeuStore, BeuCheck, BeuAnswer
  <1>3. ASSUME NEW step \in {"store", "check", "again"},
               \/ beuCall' = [beuCall EXCEPT !.step = step]
               \/ beuCall' = [beuCall EXCEPT !.step = step, !.held = BeuRegister]
        PROVE  BeuIInv'
    <2> DEFINE call == beuCall'
    <2>1. /\ DOMAIN call = {"reg", "events", "on", "step", "held"} /\ call.step = step
          /\ call.reg = beuCall.reg
      BY <1>3 DEF BeuIInv, BeuTypeOK
    <2>2. QED
      BY <1>1, <1>2, <2>1 DEF BeuIInv, BeuTypeOK, BeuQuiet, BeuIdle
  <1>4. ASSUME NEW answer, BeuReturn(answer),
               \/ beuCall.reg # "accrued"
               \/ beuCall.reg = "accrued" /\ beuReg' = beuReg /\ answer = BeuRegister
               \/ beuCall.reg = "accrued" /\ beuReg' = beuReg /\ beuCall.events \cap BeuRegister = {}
        PROVE  BeuIInv'
    <2>1. beuCall' = BeuIdle /\ beuRet'.reg = beuCall.reg /\ beuRet'.events = beuCall.events
          /\ beuRet'.answer = answer
      BY <1>4 DEF BeuReturn
    <2>2. BeuTypeOK'
      BY <1>2, <2>1 DEF BeuTypeOK, BeuIdle, BeuIInv
    <2>3. BeuQuiet'
      BY <1>4, <2>1 DEF BeuQuiet, BeuRegister
    <2>4. QED
      BY <2>2, <2>3 DEF BeuIInv
  <1>5. CASE BeuLoad
    BY <1>3, <1>5 DEF BeuLoad, BeuGoesOn
  <1>6. CASE BeuStore
    BY <1>3, <1>4, <1>6 DEF BeuStore, BeuGoesOn
  <1>7. CASE BeuCheck
    BY <1>3, <1>4, <1>7 DEF BeuCheck, BeuGoesOn, BeuReadsAgain
  <1>8. CASE BeuAnswer
    BY <1>4, <1>8 DEF BeuAnswer
  <1>9. QED
    BY <1>5, <1>6, <1>7, <1>8

LEMMA BeuNextIInv == BeuIInv /\ [BeuNext]_beuVars => BeuIInv'
  <1>1. BeuIInv /\ UNCHANGED beuVars => BeuIInv'
    BY DEF beuVars, BeuIInv, BeuTypeOK, BeuQuiet
  <1>2. QED
    BY <1>1, BeuErrorStep, BeuCallStep, BeuAccessStep DEF BeuNext

\* BeuQuietHolds: after metal_buserror_clear_event_accrued has answered 0, an event
\* that was to be cleared and interrupts the hart is accrued only if it happened
\* after the call's last read, whatever errors arrive between its accesses.
THEOREM BeuQuietHolds == BeuSpec => []BeuQuiet
  <1>1. BeuIInv => BeuQuiet
    BY DEF BeuIInv
  <1>2. QED
    BY <1>1, BeuInitIInv, BeuNextIInv, PTL DEF BeuSpec

-----------------------------------------------------------------------------
\* The core-local interrupt controller, for any interrupts, levels and calls.

ClicTypeOK ==
    /\ DOMAIN clicCfg = {"nm", "nl", "nv"} /\ clicCfg.nv \in {0, 1}
    /\ DOMAIN clicCtl = ClicIds /\ DOMAIN clicMtvt = ClicIds /\ DOMAIN clicTable = ClicIds
    /\ clicReady \subseteq ClicIds
    /\ clicMtvec \in {"direct", "clic", "vectored"}

\* The entry of the table that the mode chooses.
Entry(id) == CASE ModeOfClic = "hardware vector" -> clicMtvt[id]
               [] ModeOfClic = "selective vector" /\ VectoredBit(id) -> clicMtvt[id]
               [] OTHER -> clicTable[id]

\* A registered interrupt has a handler where the mode sends it.
ReadyLands == \A id \in clicReady : Entry(id) # "null"
NoneReady == clicMtvec = "direct" => clicReady = {}

ClicIInv == ClicTypeOK /\ NoneReady /\ ReadyLands

LEMMA ClicInitIInv == ClicInit => ClicIInv
  BY DEF ClicInit, ClicIInv, ClicTypeOK, NoneReady, ReadyLands

\* The two calls that register a handler.
LEMMA ClicRegisterStep ==
    ASSUME ClicIInv, clicMtvec # "direct", NEW id \in ClicIds, NEW isr \in {"isr", "default"},
           ClicRegister(id, isr) \/ ClicVectorRegister(id, isr)
    PROVE  ClicIInv'
  <1> USE DEF ClicIInv
  <1>1. UNCHANGED <<clicMtvec, clicCfg, clicCtl>> /\ clicReady' = clicReady \cup {id}
    BY DEF ClicRegister, ClicVectorRegister
  <1>2. CASE ClicRegister(id, isr)
    <2>1. clicTable' = [clicTable EXCEPT ![id] = isr] /\ clicMtvt' = clicMtvt
      BY <1>2 DEF ClicRegister
    <2>2. Entry(id)' = isr
      BY <1>1, <1>2, <2>1 DEF ClicRegister, RegisterAllowed, Entry, ModeOfClic, VectoredBit, ClicTypeOK
    <2>3. \A other \in clicReady : other # id => Entry(other)' = Entry(other)
      BY <1>1, <2>1 DEF Entry, ModeOfClic, VectoredBit, ClicTypeOK
    <2>4. QED
      BY <1>1, <2>1, <2>2, <2>3 DEF ReadyLands, NoneReady, ClicTypeOK
  <1>3. CASE ClicVectorRegister(id, isr)
    <2>1. clicMtvt' = [clicMtvt EXCEPT ![id] = isr] /\ clicTable' = clicTable
      BY <1>3 DEF ClicVectorRegister
    <2>2. Entry(id)' = isr
      BY <1>1, <1>3, <2>1 DEF ClicVectorRegister, Entry, ModeOfClic, VectoredBit, ClicTypeOK
    <2>3. \A other \in clicReady : other # id => Entry(other)' = Entry(other)
      BY <1>1, <2>1 DEF Entry, ModeOfClic, VectoredBit, ClicTypeOK
    <2>4. QED
      BY <1>1, <2>1, <2>2, <2>3 DEF ReadyLands, NoneReady, ClicTypeOK
  <1>4. QED
    BY <1>2, <1>3

\* A write of a control register, of one interrupt.
LEMMA ClicControlStep ==
    ASSUME ClicIInv, NEW id \in ClicIds, NEW op, NEW byte, ClicControl(op, id, byte)
    PROVE  ClicIInv'
  <1> USE DEF ClicIInv
  <1>1. /\ UNCHANGED <<clicMtvec, clicCfg, clicMtvt, clicTable>> /\ clicReady' = clicReady \ {id}
        /\ clicCtl' = [clicCtl EXCEPT ![id] = byte]
    BY DEF ClicControl, ClicUnready
  <1>2. \A other \in clicReady \ {id} : Entry(other)' = Entry(other)
    BY <1>1 DEF Entry, ModeOfClic, VectoredBit, ClicTypeOK
  <1>3. QED
    BY <1>1, <1>2 DEF ReadyLands, NoneReady, ClicTypeOK

\* The other steps: a change of the mode takes back what is registered, and the
\* numbers of bits do not matter.
LEMMA ClicOtherStep ==
    ASSUME ClicIInv,
           \/ ClicInitialise
           \/ clicMtvec # "direct" /\ \E mode \in {"selective nonvector", "selective vector", "hardware vector"} :
                                         ClicSetVectorMode(mode)
           \/ \E nm \in 0..2 : ClicConfigure([clicCfg EXCEPT !.nm = nm])
           \/ \E nl \in 0..8 : ClicConfigure([clicCfg EXCEPT !.nl = nl])
           \/ \E id \in ClicIds : \/ ClicEnable(id) \/ ClicDisable(id)
                                  \/ ClicPend(id) \/ ClicClear(id) \/ ClicTake(id)
           \/ UNCHANGED clicVars
    PROVE  ClicIInv'
  <1> USE DEF ClicIInv
  <1>1. CASE ClicInitialise
    BY <1>1 DEF ClicInitialise, ClicTypeOK, NoneReady, ReadyLands
  <1>2. CASE \E mode \in {"selective nonvector", "selective vector", "hardware vector"} :
                ClicSetVectorMode(mode)
    <2>1. clicReady' = {} /\ clicMtvec' \in {"clic", "vectored"} /\ UNCHANGED <<clicCtl, clicMtvt, clicTable>>
      BY <1>2 DEF ClicSetVectorMode, ClicUnready, ClicTypeOK
    <2>2. DOMAIN clicCfg' = {"nm", "nl", "nv"} /\ clicCfg'.nv \in {0, 1}
      BY <1>2 DEF ClicSetVectorMode, ClicTypeOK
    <2>3. QED
      BY <2>1, <2>2 DEF ClicTypeOK, NoneReady, ReadyLands
  <1>3. CASE \/ \E nm \in 0..2 : ClicConfigure([clicCfg EXCEPT !.nm = nm])
             \/ \E nl \in 0..8 : ClicConfigure([clicCfg EXCEPT !.nl = nl])
    <2>1. DOMAIN clicCfg' = DOMAIN clicCfg /\ clicCfg'.nv = clicCfg.nv
      BY <1>3 DEF ClicConfigure, ClicTypeOK
    <2>2. UNCHANGED <<clicMtvec, clicCtl, clicMtvt, clicTable, clicReady>>
      BY <1>3 DEF ClicConfigure
    <2>3. \A id \in clicReady : Entry(id)' = Entry(id)
      BY <2>1, <2>2 DEF Entry, ModeOfClic, VectoredBit
    <2>4. QED
      BY <2>1, <2>2, <2>3 DEF ClicTypeOK, NoneReady, ReadyLands
  <1>4. CASE \/ \E id \in ClicIds : \/ ClicEnable(id) \/ ClicDisable(id)
                                    \/ ClicPend(id) \/ ClicClear(id) \/ ClicTake(id)
             \/ UNCHANGED clicVars
    <2>1. UNCHANGED <<clicMtvec, clicCfg, clicCtl, clicMtvt, clicTable, clicReady>>
      BY <1>4 DEF ClicEnable, ClicDisable, ClicPend, ClicClear, ClicTake, clicVars
    <2>2. \A id \in clicReady : Entry(id)' = Entry(id)
      BY <2>1 DEF Entry, ModeOfClic, VectoredBit
    <2>3. QED
      BY <2>1, <2>2 DEF ClicTypeOK, NoneReady, ReadyLands
  <1>5. QED
    BY <1>1, <1>2, <1>3, <1>4

LEMMA ClicNextIInv == ClicIInv /\ [ClicNext]_clicVars => ClicIInv'
  BY ClicRegisterStep, ClicControlStep, ClicOtherStep
     DEF ClicNext, ClicVectorEnable, ClicVectorDisable, ClicSetPriority, ClicSetLevel

\* ClicLandsHolds: an interrupt that the hart takes after its handler has been
\* registered, with the call of its mode, goes to a handler and not to an empty
\* entry of either table, as long as neither the mode nor its control register is
\* changed afterwards, and the common handler, if it goes through that, is given the
\* controller.
THEOREM ClicLandsHolds == ClicSpec => ClicLands
  <1> DEFINE Landing == \A id \in ClicIds :
                           ClicTake(id) /\ id \in clicReady /\ (id < ClicCsw \/ clicSub = "clic")
                             => clicTaken'.to # "null"
  <1>1. ClicIInv /\ [ClicNext]_clicVars => [Landing]_clicVars
    <2> SUFFICES ASSUME ClicIInv
                 PROVE  Landing
      OBVIOUS
    <2>1. \A id : id < ClicCsw \/ clicSub = "clic" => GoesTo(id) = Entry(id)
      BY Zenon DEF GoesTo, Entry, Handled
    <2>2. QED
      BY <2>1 DEF ClicTake, ClicIInv, ReadyLands
  <1>2. QED
    BY <1>1, ClicInitIInv, ClicNextIInv, PTL DEF ClicSpec, ClicLands

-----------------------------------------------------------------------------
\* The level 2 cache, for any size of it and of the LIM, if the application asks
\* for no more than 257 ways.

\* What is known before the first constructor has run, and after.
CacheTypeOK ==
    /\ l2Index \in 0..(L2Ways - 1) /\ l2Lim \in -1..(L2Ways * WaySize) /\ l2Asked \in Nat
    /\ l2Answer.ways \in Int
    /\ l2Lim = -1 => l2Index = 0

CacheIInv == CacheTypeOK /\ LimKept

\* The index of a register that holds a number of ways.
LEMMA Enabled == \A i \in 0..(L2Ways - 1) : EnabledWays(i) = i + 1
  BY CachesAssumption DEF EnabledWays

\* The ways beside the LIM, and the LIM has the others to itself.
LEMMA Beside ==
    ASSUME NEW lim \in 0..(L2Ways * WaySize)
    PROVE  /\ WaysBeside(lim) \in 0..L2Ways
           /\ lim <= (L2Ways - WaysBeside(lim)) * WaySize
  <1> DEFINE k == (lim + (WaySize - 1)) \div WaySize
  <1>1. WaySize \in Nat \ {0} /\ L2Ways \in Nat /\ L2Ways * WaySize \in Nat /\ lim \in Nat
    BY CachesAssumption
  <1>2. k \in Nat
    BY <1>1
  <1>3. k * WaySize <= lim + (WaySize - 1) /\ lim + (WaySize - 1) < (k * WaySize) + WaySize
    BY <1>1
  <1> HIDE DEF k
  <1>4. lim <= k * WaySize
    BY <1>1, <1>2, <1>3
  <1>5. k <= L2Ways
    <2>1. SUFFICES ASSUME k >= L2Ways + 1
                   PROVE  FALSE
      BY <1>1, <1>2
    <2>2. k * WaySize >= (L2Ways + 1) * WaySize
      BY <1>1, <1>2, <2>1
    <2>3. (L2Ways + 1) * WaySize = (L2Ways * WaySize) + WaySize
      BY <1>1
    <2>4. QED
      BY <1>1, <1>2, <1>3, <2>2, <2>3
  <1>6. WaysBeside(lim) = L2Ways - k
    BY DEF WaysBeside, k
  <1>7. L2Ways - (L2Ways - k) = k
    BY <1>1, <1>2
  <1>8. QED
    BY <1>1, <1>2, <1>4, <1>5, <1>6, <1>7

\* What a request makes of the register.
LEMMA Requested ==
    ASSUME CacheTypeOK, NEW ways \in 0..257, SetEnabledWays(ways)
    PROVE  /\ l2Answer'.ways = ways
           /\ \/ l2Index' = l2Index /\ l2Answer'.answer # 0
              \/ /\ l2Index' = ways - 1 /\ ways \in (l2Index + 1)..L2Ways /\ l2Answer'.answer = 0
  <1>1. L2Ways \in 1..256 /\ l2Index \in 0..(L2Ways - 1) /\ EnabledWays(l2Index) = l2Index + 1
    BY CachesAssumption, Enabled DEF CacheTypeOK
  <1>2. CASE l2Index + 1 > ways
    BY <1>1, <1>2 DEF SetEnabledWays
  <1>3. CASE ~(l2Index + 1 > ways)
    <2>1. /\ l2Index' = Written8(l2Index, (ways - 1) % 256)
          /\ l2Answer' = [ways |-> ways, answer |-> IF EnabledWays(l2Index') # ways THEN -2 ELSE 0]
      BY <1>1, <1>3 DEF SetEnabledWays
    <2>2. CASE ways \in (l2Index + 1)..L2Ways
      <3>1. (ways - 1) % 256 = ways - 1 /\ ways - 1 \in l2Index..(L2Ways - 1)
        BY <1>1, <2>2
      <3>2. l2Index' = ways - 1
        BY <2>1, <3>1 DEF Written8
      <3>3. EnabledWays(l2Index') = ways
        BY <1>1, <2>2, <3>2, Enabled
      <3>4. QED
        BY <2>1, <2>2, <3>2, <3>3
    <2>3. CASE ways > L2Ways
      <3>1. l2Index' = l2Index
        <4>1. CASE ways = 257
          BY <1>1, <2>1, <4>1 DEF Written8
        <4>2. CASE ways # 257
          <5>1. (ways - 1) % 256 = ways - 1 /\ ~(ways - 1 \in l2Index..(L2Ways - 1))
            BY <1>1, <2>3, <4>2
          <5>2. QED
            BY <2>1, <5>1 DEF Written8
        <4>3. QED
          BY <4>1, <4>2
      <3>2. EnabledWays(l2Index') # ways
        BY <1>1, <2>3, <3>1
      <3>3. QED
        BY <2>1, <3>1, <3>2
    <2>4. QED
      BY <1>1, <1>3, <2>2, <2>3
  <1>4. QED
    BY <1>2, <1>3

LEMMA CacheInitIInv == CacheInit => CacheIInv
  <1> SUFFICES ASSUME CacheInit
               PROVE CacheIInv
    OBVIOUS
  <1>1. L2Ways \in 1..256 /\ L2Ways * WaySize \in Nat
    BY CachesAssumption
  <1>2. QED
    BY <1>1, Enabled DEF CacheInit, CacheIInv, CacheTypeOK, LimKept

\* The constructor, with the ways beside the LIM, once or again.
LEMMA ConstructorStep ==
    ASSUME CacheIInv, NEW lim \in 0..(L2Ways * WaySize), l2Lim' = lim, l2Asked' = l2Asked,
           SetEnabledWays(WaysBeside(lim)), l2Lim \in {-1, lim}
    PROVE  CacheIInv'
  <1> USE DEF CacheIInv
  <1> DEFINE ways == WaysBeside(lim)
  <1>1. ways \in 0..257 /\ ways <= L2Ways /\ lim <= (L2Ways - ways) * WaySize
    <2>1. WaysBeside(lim) \in 0..L2Ways /\ lim <= (L2Ways - WaysBeside(lim)) * WaySize
      BY Beside
    <2>2. L2Ways \in 1..256
      BY CachesAssumption
    <2> HIDE DEF ways
    <2>3. ways \in 0..257 /\ ways <= L2Ways
      BY <2>1, <2>2 DEF ways
    <2>4. QED
      BY <2>1, <2>3 DEF ways
  <1> HIDE DEF ways
  <1>2. /\ l2Answer'.ways = ways
        /\ \/ l2Index' = l2Index /\ l2Answer'.answer # 0
           \/ /\ l2Index' = ways - 1 /\ ways \in (l2Index + 1)..L2Ways /\ l2Answer'.answer = 0
    BY <1>1, Requested DEF ways
  <1>3. L2Ways \in Nat \ {0} /\ L2Ways * WaySize \in Nat /\ l2Index \in 0..(L2Ways - 1)
    BY CachesAssumption DEF CacheTypeOK
  <1>4. CacheTypeOK'
    BY <1>1, <1>2, <1>3 DEF CacheTypeOK
  <1>5. CASE l2Index' = l2Index /\ l2Answer'.answer # 0
    BY <1>4, <1>5 DEF LimKept, CacheTypeOK
  <1>6. CASE l2Index' = ways - 1 /\ ways \in (l2Index + 1)..L2Ways
    <2>1. l2Index' \in 0..(L2Ways - 1)
      BY <1>4 DEF CacheTypeOK
    <2>2. EnabledWays(l2Index') = ways
      BY <1>1, <1>6, <2>1, Enabled
    <2>3. QED
      BY <1>1, <1>2, <1>4, <2>2 DEF LimKept
  <1>7. QED
    BY <1>2, <1>5, <1>6

\* The application's request: what it is granted it has asked for.
LEMMA RequestStep ==
    ASSUME CacheIInv, NEW ways \in 1..257, L2SetWays(ways)
    PROVE  CacheIInv'
  <1> USE DEF CacheIInv
  <1>1. /\ l2Answer'.ways = ways
        /\ \/ l2Index' = l2Index /\ l2Answer'.answer # 0
           \/ /\ l2Index' = ways - 1 /\ ways \in (l2Index + 1)..L2Ways /\ l2Answer'.answer = 0
    BY Requested DEF L2SetWays
  <1>2. l2Asked' = IF l2Answer'.answer = 0 /\ ways > l2Asked THEN ways ELSE l2Asked
    BY DEF L2SetWays
  <1>3. l2Lim' = l2Lim /\ l2Lim # -1 /\ l2Asked \in Nat /\ l2Index \in 0..(L2Ways - 1) /\ L2Ways \in Nat \ {0}
    BY CachesAssumption DEF L2SetWays, CacheTypeOK
  <1>4. CacheTypeOK'
    BY <1>1, <1>2, <1>3 DEF CacheTypeOK
  <1>5. CASE l2Index' = l2Index /\ l2Answer'.answer # 0
    BY <1>2, <1>3, <1>4, <1>5 DEF LimKept
  <1>6. CASE l2Index' = ways - 1 /\ l2Answer'.answer = 0
    <2>1. l2Index' \in 0..(L2Ways - 1)
      BY <1>4 DEF CacheTypeOK
    <2>2. EnabledWays(l2Index') = ways
      BY <1>6, <2>1, Enabled
    <2>3. ways <= l2Asked'
      BY <1>2, <1>3, <1>6
    <2>4. QED
      BY <1>1, <1>4, <2>2, <2>3 DEF LimKept
  <1>7. QED
    BY <1>1, <1>5, <1>6

LEMMA CacheNextIInv ==
    ASSUME WaysAsked \subseteq 1..257
    PROVE  CacheIInv /\ [CacheNext]_cacheVars => CacheIInv'
  <1> SUFFICES ASSUME CacheIInv, [CacheNext]_cacheVars
               PROVE CacheIInv'
    OBVIOUS
  <1>1. CASE \E lim \in LimSizes : L2Init(lim)
    BY <1>1, ConstructorStep, CachesAssumption DEF L2Init
  <1>2. CASE L2InitAgain
    <2>1. l2Lim \in 0..(L2Ways * WaySize)
      BY <1>2, CachesAssumption DEF L2InitAgain, CacheIInv, CacheTypeOK
    <2>2. QED
      BY <1>2, <2>1, ConstructorStep DEF L2InitAgain
  <1>3. CASE \E ways \in WaysAsked : L2SetWays(ways)
    BY <1>3, RequestStep
  <1>4. CASE UNCHANGED l2Vars
    BY <1>4 DEF l2Vars, CacheIInv, CacheTypeOK, LimKept
  <1>5. CASE \E r \in L2Registers, mask \in L2Masks : L2SetMask(r, mask)
    BY <1>5 DEF L2SetMask, CacheIInv, CacheTypeOK, LimKept
  <1>6. QED
    BY <1>1, <1>2, <1>3, <1>4, <1>5 DEF CacheNext, L1Store, L1All, L1Line, cacheVars, l2Vars

\* LimKeptHolds: however the constructor and the application's requests follow each
\* other, no byte of the LIM comes to lie in a way that is cache without the
\* application having been granted that way, apart from way 0; and 0 is answered
\* only when as many ways are enabled as were asked for.  The requests are of at
\* most 257 ways: the low byte of a larger one is written all the same.
THEOREM LimKeptHolds ==
    ASSUME WaysAsked \subseteq 1..257
    PROVE  CacheSpec => []LimKept
  <1>1. CacheIInv => LimKept
    BY DEF CacheIInv
  <1>2. CacheIInv /\ [CacheNext]_cacheVars => CacheIInv'
    BY CacheNextIInv
  <1>3. QED
    BY <1>1, <1>2, CacheInitIInv, PTL DEF CacheSpec

-----------------------------------------------------------------------------
\* The C library's time, for any rates whose product fits in a word.

\* The quotient is the only number with a remainder.
LEMMA OnlyQuotient ==
    ASSUME NEW x \in Nat, NEW d \in Nat \ {0}, NEW k \in Nat, NEW r \in 0..(d - 1), x = (k * d) + r
    PROVE  x \div d = k
  <1> DEFINE q == x \div d
  <1>1. q \in Nat /\ q * d <= x /\ x < (q * d) + d
    OBVIOUS
  <1> HIDE DEF q
  <1>2. ~(q >= k + 1)
    <2>1. SUFFICES ASSUME q >= k + 1
                   PROVE  FALSE
      OBVIOUS
    <2>2. q * d >= (k + 1) * d /\ (k + 1) * d = (k * d) + d
      BY <1>1, <2>1
    <2>3. QED
      BY <1>1, <2>2
  <1>3. ~(k >= q + 1)
    <2>1. SUFFICES ASSUME k >= q + 1
                   PROVE  FALSE
      OBVIOUS
    <2>2. k * d >= (q + 1) * d /\ (q + 1) * d = (q * d) + d
      BY <1>1, <2>1
    <2>3. QED
      BY <1>1, <2>2
  <1>4. q = k
    BY <1>1, <1>2, <1>3
  <1>5. QED
    BY <1>4 DEF q

\* Multiples of the divisor come out of a quotient whole.
LEMMA MultipleOut ==
    ASSUME NEW a \in Nat, NEW b \in Nat, NEW d \in Nat \ {0}
    PROVE  ((a * d) + b) \div d = a + (b \div d)
  <1> DEFINE q == b \div d
             r == b % d
  <1>1. q \in Nat /\ r \in 0..(d - 1) /\ b = (q * d) + r
    OBVIOUS
  <1> HIDE DEF q, r
  <1>2. (a * d) + b = ((a + q) * d) + r /\ a + q \in Nat /\ (a * d) + b \in Nat
    BY <1>1
  <1>3. ((a * d) + b) \div d = a + q
    BY <1>1, <1>2, OnlyQuotient
  <1>4. QED
    BY <1>3 DEF q

\* A remainder fits: its product with the other rate is below that of the rates.
LEMMA ProductFits ==
    ASSUME NEW n \in Nat, NEW d \in Nat \ {0}, NEW r \in 0..(d - 1), n # 0, n * d <= TimeWord
    PROVE  (r * n) % TimeWord = r * n
  <1>1. r * n < d * n
    <2>1. r + 1 <= d
      OBVIOUS
    <2>2. (r + 1) * n <= d * n
      BY <2>1
    <2>3. QED
      BY <2>2
  <1>2. r * n \in Nat /\ r * n < TimeWord
    BY <1>1, CountersAssumption
  <1>3. QED
    BY <1>2, CountersAssumption

\* The two quotients of a number of cycles.
LEMMA Exact ==
    ASSUME NEW v \in Nat
    PROVE  LET exact == (v * ClocksPerSec) \div Timebase
           IN  /\ MulDiv(v, ClocksPerSec, Timebase) = exact % TimeWord
               /\ (TimeOfDay(v).sec * ClocksPerSec) + TimeOfDay(v).usec = exact
  <1> DEFINE q == v \div Timebase
             r == v % Timebase
  <1>1. ClocksPerSec \in Nat \ {0} /\ Timebase \in Nat \ {0} /\ ClocksPerSec * Timebase <= TimeWord
    BY CountersAssumption
  <1>2. q \in Nat /\ r \in 0..(Timebase - 1) /\ v = (q * Timebase) + r
    BY <1>1
  <1>3. MulDiv(v, ClocksPerSec, Timebase) =
            ((((r * ClocksPerSec) % TimeWord) \div Timebase) + (q * ClocksPerSec)) % TimeWord
    BY DEF MulDiv
  <1>4. TimeOfDay(v).sec = q /\ TimeOfDay(v).usec = ((r * ClocksPerSec) % TimeWord) \div Timebase
    BY DEF TimeOfDay
  <1> HIDE DEF q, r
  <1>5. (r * ClocksPerSec) % TimeWord = r * ClocksPerSec
    BY <1>1, <1>2, ProductFits
  <1>6. v * ClocksPerSec = ((q * ClocksPerSec) * Timebase) + (r * ClocksPerSec)
    BY <1>1, <1>2
  <1>7. q * ClocksPerSec \in Nat /\ r * ClocksPerSec \in Nat
    BY <1>1, <1>2
  <1>8. (v * ClocksPerSec) \div Timebase = (q * ClocksPerSec) + ((r * ClocksPerSec) \div Timebase)
    <2> DEFINE a == q * ClocksPerSec
               b == r * ClocksPerSec
    <2>1. a \in Nat /\ b \in Nat /\ v * ClocksPerSec = (a * Timebase) + b
      BY <1>6, <1>7
    <2> HIDE DEF a, b
    <2>2. ((a * Timebase) + b) \div Timebase = a + (b \div Timebase)
      BY <1>1, <2>1, MultipleOut
    <2>3. QED
      BY <2>1, <2>2 DEF a, b
  <1>9. (r * ClocksPerSec) \div Timebase \in Nat
    BY <1>1, <1>7
  <1>10. QED
    BY <1>3, <1>4, <1>5, <1>7, <1>8, <1>9

\* The time is that of the cycles that were read.
TimeOfCycles ==
    /\ hpmTime.cycles \in Nat
    /\ hpmTime.times = MulDiv(hpmTime.cycles, ClocksPerSec, Timebase)
    /\ hpmTime.sec = TimeOfDay(hpmTime.cycles).sec /\ hpmTime.usec = TimeOfDay(hpmTime.cycles).usec

LEMMA TimeIsExact == TimeOfCycles => TimesExact
  BY Exact DEF TimeOfCycles, TimesExact

LEMMA TimeInit == HpmInit => TimeOfCycles
  <1> SUFFICES ASSUME HpmInit
               PROVE TimeOfCycles
    OBVIOUS
  <1>1. Timebase \in Nat \ {0} /\ TimeWord \in Nat \ {0} /\ ClocksPerSec \in Nat \ {0}
    BY CountersAssumption
  <1>2. 0 \div Timebase = 0 /\ 0 % Timebase = 0 /\ 0 % TimeWord = 0
    BY <1>1
  <1>3. MulDiv(0, ClocksPerSec, Timebase) = 0 /\ TimeOfDay(0).sec = 0 /\ TimeOfDay(0).usec = 0
    BY <1>1, <1>2 DEF MulDiv, TimeOfDay
  <1>4. QED
    BY <1>3 DEF HpmInit, TimeOfCycles

LEMMA TimeStep == HpmIInv /\ TimeOfCycles /\ [HpmNext]_hpmVars => TimeOfCycles'
  <1> SUFFICES ASSUME HpmIInv, TimeOfCycles, [HpmNext]_hpmVars
               PROVE TimeOfCycles'
    OBVIOUS
  <1>1. CASE CTime
    <2>1. hpmReg[0] \in Nat
      BY DEF HpmIInv, HpmTypeOK, HpmCounters
    <2>2. QED
      BY <1>1, <2>1 DEF CTime, TimeOfCycles
  <1>2. CASE UNCHANGED hpmTime
    BY <1>2 DEF TimeOfCycles
  <1>3. QED
    BY <1>1, <1>2 DEF HpmNext, HpmTick, HpmInitialise, HpmSetEvent, HpmClrEvent, HpmBegin, CycleCount,
                      HpmRead, HpmClear, HpmWrite, hpmVars

\* TimesExactHolds: _times and gettimeofday are the exact quotient of the cycles by
\* the timebase, with the rate in CLOCKS_PER_SEC, and agree with each other, though
\* the product of cycles and rate need not fit in a word; the product of the two
\* rates has to.
THEOREM TimesExactHolds == HpmSpec => []TimesExact
  <1>1. HpmIInv /\ [HpmNext]_hpmVars => HpmIInv'
    BY HpmNextIInv
  <1>2. QED
    BY <1>1, HpmInitIInv, TimeInit, TimeStep, TimeIsExact, PTL DEF HpmSpec

-----------------------------------------------------------------------------
\* The watchdog, for any clock, rates, time-outs and number of calls.

\* The writes that leave the time-out alone.
OtherOps ==
    {Store("count", 0), Clear({"rsten", "zerocmp"}), Clear({"enalways", "coreawake"}), Clear({"ip"})}
    \cup {Set(ResultBits[result]) : result \in Results} \cup {Set(RunBits[option]) : option \in RunOptions}

SameScale(a, b) == \A s \in ScaleBits : s \in a <=> s \in b
InForce(timeout) == wdog.cmp = timeout.cmp /\ SameScale(wdog.cfg, timeout.scale)

WdogTypeOK ==
    /\ DOMAIN wdog = {"cfg", "cmp", "count", "unlocked"}
    /\ DOMAIN wdogAsked = {"result", "run", "now", "before"}
    /\ DOMAIN wdogAsked.now = {"scale", "cmp"}
    /\ wdogPc \in {"idle", "unlock", "read", "write"}

\* What the call that is running has still to write: nothing of the time-out, which
\* is the new one already; the compare value, or the scale in one or two writes, and
\* the old time-out is in force; or the last write of the scale, which is cleared.
ToWrite ==
    \/ wdogOps \in Seq(OtherOps) \ {<<>>} /\ InForce(wdogAsked.now)
    \/ /\ wdogOps = <<Store("cmp", wdogAsked.now.cmp)>>
       /\ InForce(wdogAsked.before) /\ SameScale(wdog.cfg, wdogAsked.now.scale)
    \/ /\ \/ wdogOps = <<Clear(ScaleBits)>> /\ wdogAsked.now.scale = {}
          \/ wdogOps = <<Clear(ScaleBits), Set(wdogAsked.now.scale)>>
       /\ InForce(wdogAsked.before) /\ wdog.cmp = wdogAsked.now.cmp
    \/ /\ wdogOps = <<Set(wdogAsked.now.scale)>>
       /\ SameScale(wdog.cfg, {}) /\ wdog.cmp = wdogAsked.now.cmp

\* The write that was unlocked is not in vain, and the scale that the thread has
\* read is the one that is set.
Unlocked ==
    /\ wdogPc \in {"read", "write"} => wdog.unlocked = TRUE
    /\ wdogPc = "write" /\ Head(wdogOps).reg = "cfg" => SameScale(wdogSeen, wdog.cfg)

Timeout == /\ wdogPc = "idle" => InForce(wdogAsked.now)
           /\ wdogPc # "idle" => ToWrite
           /\ Unlocked

WdogIInv == ~wdogLost => WdogTypeOK /\ Timeout

\* None of the other writes touches the compare register or the scale.
LEMMA OtherRegisters ==
    \A op \in OtherOps : op.reg \in {"cfg", "count"} /\ SameScale(op.clear \cup op.set, {})
  BY DEF OtherOps, Store, Clear, Set, SameScale, ScaleBits, ResultBits, RunBits, Results, RunOptions

\* The writes of every call but set_timeout and set_rate are among them.
LEMMA OtherCalls ==
    /\ {Feed, ClearInterrupt} \subseteq Seq(OtherOps) \ {<<>>}
    /\ \A result \in Results : SetResult(result) \in Seq(OtherOps) \ {<<>>}
    /\ \A option \in RunOptions : Run(option) \in Seq(OtherOps) \ {<<>>}
  <1>1. /\ {Store("count", 0), Clear({"rsten", "zerocmp"}),
            Clear({"enalways", "coreawake"}), Clear({"ip"})} \subseteq OtherOps
        /\ \A result \in Results : Set(ResultBits[result]) \in OtherOps
        /\ \A option \in RunOptions : Set(RunBits[option]) \in OtherOps
    BY DEF OtherOps
  <1>2. \A a, b, c \in OtherOps :
           /\ {<<a>>, <<a, b>>} \subseteq Seq(OtherOps) \ {<<>>}
           /\ {<<a>> \o <<>>, <<a>> \o <<b>>, <<a>> \o (<<b>> \o <<c>>)} \subseteq Seq(OtherOps) \ {<<>>}
    <2> TAKE a, b, c \in OtherOps
    <2>1. {<<>>, <<a>>, <<b>>, <<c>>, <<a, b>>} \subseteq Seq(OtherOps)
      BY ShortSeq
    <2>2. <<b>> \o <<c>> \in Seq(OtherOps)
      BY <2>1
    <2>3. \A rest \in Seq(OtherOps) : <<a>> \o rest \in Seq(OtherOps) /\ Len(<<a>> \o rest) = 1 + Len(rest)
      BY <2>1
    <2>4. \A rest \in Seq(OtherOps) : <<a>> \o rest # <<>>
      BY <2>3
    <2>5. QED
      BY <2>1, <2>2, <2>3, <2>4
  <1>3. {Feed, ClearInterrupt} \subseteq Seq(OtherOps) \ {<<>>}
    BY <1>1, <1>2 DEF Feed, ClearInterrupt
  <1>4. \A result \in Results : SetResult(result) \in Seq(OtherOps) \ {<<>>}
    BY <1>1, <1>2 DEF SetResult
  <1>5. \A option \in RunOptions : Run(option) \in Seq(OtherOps) \ {<<>>}
    BY <1>1, <1>2 DEF Run, Feed
  <1>6. QED
    BY <1>3, <1>4, <1>5

\* A reset leaves the time-out of ResetAsked in force.
LEMMA AfterReset ==
    ASSUME wdog = ResetRegisters, wdogAsked = ResetAsked, wdogPc = "idle"
    PROVE  WdogIInv
  <1>1. /\ DOMAIN wdog = {"cfg", "cmp", "count", "unlocked"} /\ wdog.cmp = WdogCmpMax /\ wdog.cfg = {}
    BY DEF ResetRegisters
  <1>2. /\ DOMAIN wdogAsked = {"result", "run", "now", "before"} /\ wdogAsked.now = ResetTimeout
    BY DEF ResetAsked
  <1>3. DOMAIN ResetTimeout = {"scale", "cmp"} /\ ResetTimeout.scale = {} /\ ResetTimeout.cmp = WdogCmpMax
    BY DEF ResetTimeout
  <1>4. QED
    BY <1>1, <1>2, <1>3 DEF WdogIInv, WdogTypeOK, Timeout, InForce, SameScale, Unlocked

LEMMA WdogInitIInv == WdogInit => WdogIInv
  BY AfterReset DEF WdogInit

\* The thread begins a call.
LEMMA WdogCallStep == WdogIInv /\ WdogCall => WdogIInv'
  <1> SUFFICES ASSUME WdogIInv, WdogCall
               PROVE WdogIInv'
    OBVIOUS
  <1>1. wdogPc = "idle" /\ wdogPc' = "unlock" /\ UNCHANGED <<wdog, wdogLost>>
    BY DEF WdogCall, Call
  <1> SUFFICES ASSUME ~wdogLost
               PROVE  WdogIInv'
    BY <1>1 DEF WdogIInv
  <1> DEFINE now == wdogAsked.now
  <1>2. ASSUME NEW ops, NEW asked, Call(ops, asked), DOMAIN asked = DOMAIN wdogAsked,
               DOMAIN asked.now = {"scale", "cmp"},
               \/ ops \in Seq(OtherOps) \ {<<>>} /\ asked.now = now
               \/ ops = <<Store("cmp", asked.now.cmp)>> /\ asked.now.scale = now.scale
               \/ /\ \/ ops = <<Clear(ScaleBits)>> /\ asked.now.scale = {}
                     \/ ops = <<Clear(ScaleBits), Set(asked.now.scale)>>
                  /\ asked.now.cmp = now.cmp
        PROVE  WdogIInv'
    <2>1. /\ wdogAsked'.now = asked.now /\ wdogAsked'.before = now /\ wdogOps' = ops
          /\ DOMAIN wdogAsked' = DOMAIN wdogAsked
      BY <1>2 DEF Call, WdogIInv, WdogTypeOK
    <2>2. WdogTypeOK'
      BY <1>1, <1>2, <2>1 DEF WdogIInv, WdogTypeOK
    <2>3. InForce(now)
      BY <1>1 DEF WdogIInv, Timeout
    <2>4. ToWrite'
      BY <1>1, <1>2, <2>1, <2>3 DEF ToWrite, InForce
    <2>5. QED
      BY <1>1, <2>2, <2>4 DEF WdogIInv, Timeout, Unlocked
  <1>3. ASSUME NEW x
        PROVE  \A asked \in {[wdogAsked EXCEPT !.result = x], [wdogAsked EXCEPT !.run = x]} :
                  DOMAIN asked = DOMAIN wdogAsked /\ asked.now = now
    BY DEF WdogIInv, WdogTypeOK
  <1>4. DOMAIN now = {"scale", "cmp"}
    BY DEF WdogIInv, WdogTypeOK
  <1>5. CASE Call(Feed, wdogAsked) \/ Call(ClearInterrupt, wdogAsked)
    BY <1>2, <1>4, <1>5, OtherCalls
  <1>6. CASE \E r \in WdogRates : Call(SetRate(r), [wdogAsked EXCEPT !.now.scale = NewScale(r)])
    <2> PICK r \in WdogRates : Call(SetRate(r), [wdogAsked EXCEPT !.now.scale = NewScale(r)])
      BY <1>6
    <2> DEFINE asked == [wdogAsked EXCEPT !.now.scale = NewScale(r)]
    <2>1. /\ DOMAIN asked = DOMAIN wdogAsked /\ DOMAIN asked.now = {"scale", "cmp"}
          /\ asked.now.scale = NewScale(r) /\ asked.now.cmp = now.cmp
      BY DEF WdogIInv, WdogTypeOK
    <2>2. CASE r >= WdogClock
      <3>1. SetRate(r) = <<Clear(ScaleBits)>> /\ NewScale(r) = {}
        BY <2>2, Zenon DEF SetRate, NewScale
      <3> HIDE DEF asked
      <3>2. Call(SetRate(r), asked)
        BY DEF asked
      <3>3. QED
        BY <1>2, <2>1, <3>1, <3>2
    <2>3. CASE ~(r >= WdogClock)
      <3>1. SetRate(r) = <<Clear(ScaleBits), Set(NewScale(r))>>
        BY <2>3, Zenon DEF SetRate
      <3> HIDE DEF asked
      <3>2. Call(SetRate(r), asked)
        BY DEF asked
      <3>3. QED
        BY <1>2, <2>1, <3>1, <3>2
    <2>4. QED
      BY <2>2, <2>3
  <1>7. CASE \E t \in WdogTimeouts : Call(SetTimeout(t), [wdogAsked EXCEPT !.now.cmp = Capped(t)])
    <2> PICK t \in WdogTimeouts : Call(SetTimeout(t), [wdogAsked EXCEPT !.now.cmp = Capped(t)])
      BY <1>7
    <2> DEFINE asked == [wdogAsked EXCEPT !.now.cmp = Capped(t)]
    <2>1. /\ DOMAIN asked = DOMAIN wdogAsked /\ DOMAIN asked.now = {"scale", "cmp"}
          /\ asked.now.cmp = Capped(t) /\ asked.now.scale = now.scale
          /\ SetTimeout(t) = <<Store("cmp", asked.now.cmp)>>
      BY DEF WdogIInv, WdogTypeOK, SetTimeout
    <2> HIDE DEF asked
    <2>2. Call(SetTimeout(t), asked)
      BY DEF asked
    <2>3. QED
      BY <1>2, <2>1, <2>2
  <1>8. CASE \E r \in Results : Call(SetResult(r), [wdogAsked EXCEPT !.result = ResultBits[r]])
    BY <1>2, <1>3, <1>4, <1>8, OtherCalls
  <1>9. CASE \E o \in RunOptions : Call(Run(o), [wdogAsked EXCEPT !.run = RunBits[o]])
    BY <1>2, <1>3, <1>4, <1>9, OtherCalls
  <1>10. QED
    BY <1>5, <1>6, <1>7, <1>8, <1>9 DEF WdogCall

\* The accesses of the thread: the write that was unlocked takes effect.
LEMMA WdogWriteStep == WdogIInv /\ Write => WdogIInv'
  <1> SUFFICES ASSUME WdogIInv, Write
               PROVE WdogIInv'
    OBVIOUS
  <1> DEFINE op == Head(wdogOps)
             written == WdogWritten(wdog, op)
  <1>1. /\ wdogPc = "write" /\ wdogOps' = Tail(wdogOps)
        /\ wdogPc' = IF Len(wdogOps) = 1 THEN "idle" ELSE "unlock"
        /\ UNCHANGED <<wdogAsked, wdogLost>>
    BY DEF Write
  <1>2. CASE wdogLost
    BY <1>1, <1>2 DEF WdogIInv
  <1>3. CASE ~wdogLost
    <2>1. WdogTypeOK /\ wdog.unlocked = TRUE /\ ToWrite /\ (op.reg = "cfg" => SameScale(wdogSeen, wdog.cfg))
      BY <1>1, <1>3 DEF WdogIInv, Timeout, Unlocked
    <2>2. wdog' = [written EXCEPT !.unlocked = FALSE]
      BY <2>1 DEF Write
    <2>3. ASSUME op.reg \in {"cfg", "cmp", "count"}
          PROVE  /\ DOMAIN wdog' = DOMAIN wdog
                 /\ wdog'.cmp = IF op.reg = "cmp" THEN op.value ELSE wdog.cmp
                 /\ wdog'.cfg = IF op.reg = "cfg" THEN (wdogSeen \ op.clear) \cup op.set ELSE wdog.cfg
      <3>1. /\ DOMAIN written = DOMAIN wdog
            /\ written.cmp = IF op.reg = "cmp" THEN op.value ELSE wdog.cmp
            /\ written.cfg = IF op.reg = "cfg" THEN (wdogSeen \ op.clear) \cup op.set ELSE wdog.cfg
        BY <2>1, <2>3 DEF WdogWritten, WdogTypeOK
      <3> HIDE DEF op, written
      <3>2. QED
        BY <2>1, <2>2, <3>1 DEF WdogTypeOK
    <2> HIDE DEF written
    <2>4. ASSUME DOMAIN wdog' = DOMAIN wdog, IF Len(wdogOps) = 1 THEN InForce(wdogAsked.now)' ELSE ToWrite'
          PROVE  WdogIInv'
      BY <1>1, <2>1, <2>4 DEF WdogIInv, WdogTypeOK, Timeout, Unlocked
    <2>5. CASE wdogOps \in Seq(OtherOps) \ {<<>>} /\ InForce(wdogAsked.now)
      <3>1. op \in OtherOps /\ Tail(wdogOps) \in Seq(OtherOps)
        BY <2>5
      <3>2. Len(wdogOps) # 1 => Tail(wdogOps) # <<>>
        <4>1. Len(Tail(wdogOps)) = Len(wdogOps) - 1 /\ Len(wdogOps) \in Nat
          BY <2>5
        <4>2. QED
          BY <4>1
      <3>3. op.reg \in {"cfg", "count"} /\ SameScale(op.clear \cup op.set, {})
        BY <3>1, OtherRegisters
      <3> HIDE DEF op
      <3>4. InForce(wdogAsked.now)'
        BY <1>1, <2>1, <2>3, <2>5, <3>3 DEF InForce, SameScale
      <3>5. QED
        BY <1>1, <2>3, <2>4, <3>1, <3>2, <3>3, <3>4 DEF ToWrite
    <2>6. CASE /\ wdogOps = <<Store("cmp", wdogAsked.now.cmp)>> /\ SameScale(wdog.cfg, wdogAsked.now.scale)
      <3>1. op = Store("cmp", wdogAsked.now.cmp) /\ Len(wdogOps) = 1
        BY <2>6
      <3>2. op.reg = "cmp" /\ op.value = wdogAsked.now.cmp
        BY <3>1 DEF Store
      <3> HIDE DEF op
      <3>3. InForce(wdogAsked.now)'
        BY <1>1, <2>3, <2>6, <3>2 DEF InForce
      <3>4. QED
        BY <2>3, <2>4, <3>1, <3>2, <3>3
    <2>7. CASE wdogOps = <<Clear(ScaleBits)>> /\ wdogAsked.now.scale = {} /\ wdog.cmp = wdogAsked.now.cmp
      <3>1. op = Clear(ScaleBits) /\ Len(wdogOps) = 1
        BY <2>7
      <3>2. op.reg = "cfg" /\ op.clear = ScaleBits /\ op.set = {}
        BY <3>1 DEF Clear
      <3> HIDE DEF op
      <3>3. InForce(wdogAsked.now)'
        BY <1>1, <2>3, <2>7, <3>2 DEF InForce, SameScale
      <3>4. QED
        BY <2>3, <2>4, <3>1, <3>2, <3>3
    <2>8. CASE wdogOps = <<Clear(ScaleBits), Set(wdogAsked.now.scale)>> /\ wdog.cmp = wdogAsked.now.cmp
      <3>1. op = Clear(ScaleBits) /\ Len(wdogOps) = 2 /\ Tail(wdogOps) = <<Set(wdogAsked.now.scale)>>
        BY <2>8
      <3>2. op.reg = "cfg" /\ op.clear = ScaleBits /\ op.set = {}
        BY <3>1 DEF Clear
      <3> HIDE DEF op
      <3>3. wdog'.cmp = wdogAsked'.now.cmp /\ SameScale(wdog.cfg, {})'
        BY <1>1, <2>3, <2>8, <3>2 DEF SameScale
      <3>4. wdogOps' = <<Set(wdogAsked'.now.scale)>>
        BY <1>1, <3>1
      <3>5. ToWrite'
        BY <3>3, <3>4 DEF ToWrite
      <3>6. QED
        BY <2>3, <2>4, <3>1, <3>2, <3>5
    <2>9. CASE wdogOps = <<Set(wdogAsked.now.scale)>> /\ SameScale(wdog.cfg, {}) /\ wdog.cmp = wdogAsked.now.cmp
      <3>1. op = Set(wdogAsked.now.scale) /\ Len(wdogOps) = 1
        BY <2>9
      <3>2. op.reg = "cfg" /\ op.clear = {} /\ op.set = wdogAsked.now.scale
        BY <3>1 DEF Set
      <3> HIDE DEF op
      <3>3. InForce(wdogAsked.now)'
        BY <1>1, <2>1, <2>3, <2>9, <3>2 DEF InForce, SameScale
      <3>4. QED
        BY <2>3, <2>4, <3>1, <3>2, <3>3
    <2>10. QED
      BY <2>1, <2>5, <2>6, <2>7, <2>8, <2>9 DEF ToWrite
  <1>4. QED
    BY <1>2, <1>3

\* The other steps leave the compare register and the scale alone, or reset
\* everything; a handler that locks the registers again between the unlocking and
\* the write makes the write be in vain.
LEMMA WdogOtherStep ==
    ASSUME WdogIInv, \/ WdogEnableInterrupt \/ Unlock \/ ReadCfg \/ Handler \/ WdogTick \/ WdogExpire
                     \/ UNCHANGED wdogVars
    PROVE  WdogIInv'
  <1>1. CASE WdogExpire /\ "rsten" \in wdog.cfg
    <2>1. wdog' = ResetRegisters /\ wdogAsked' = ResetAsked /\ wdogPc' = "idle"
      BY <1>1 DEF WdogExpire
    <2>2. DOMAIN wdog' = {"cfg", "cmp", "count", "unlocked"} /\ wdog'.cmp = WdogCmpMax /\ wdog'.cfg = {}
      BY <2>1 DEF ResetRegisters
    <2>3. DOMAIN wdogAsked' = {"result", "run", "now", "before"} /\ wdogAsked'.now = ResetTimeout
      BY <2>1 DEF ResetAsked
    <2>4. DOMAIN ResetTimeout = {"scale", "cmp"} /\ ResetTimeout.scale = {} /\ ResetTimeout.cmp = WdogCmpMax
      BY DEF ResetTimeout
    <2>5. QED
      BY <2>1, <2>2, <2>3, <2>4 DEF WdogIInv, WdogTypeOK, Timeout, InForce, SameScale, Unlocked
  <1>2. ASSUME wdogLost, ~(WdogExpire /\ "rsten" \in wdog.cfg)
         PROVE  wdogLost'
    <2>1. CASE Handler
      BY <1>2, <2>1, Zenon DEF Handler
    <2>2. CASE WdogExpire
      BY <1>2, <2>2 DEF WdogExpire
    <2>3. CASE WdogEnableInterrupt \/ Unlock \/ ReadCfg \/ WdogTick \/ UNCHANGED wdogVars
      BY <1>2, <2>3 DEF WdogEnableInterrupt, Unlock, ReadCfg, WdogTick, wdogVars
    <2>4. QED
      BY <2>1, <2>2, <2>3
  <1> SUFFICES ASSUME ~wdogLost, ~(WdogExpire /\ "rsten" \in wdog.cfg)
               PROVE  WdogIInv'
    BY <1>1, <1>2 DEF WdogIInv
  <1>3. WdogTypeOK /\ Timeout
    BY DEF WdogIInv
  <1>4. ASSUME UNCHANGED <<wdogOps, wdogAsked>>, DOMAIN wdog' = DOMAIN wdog, wdog'.cmp = wdog.cmp,
               SameScale(wdog.cfg, wdog'.cfg), (wdogPc' = "idle") <=> (wdogPc = "idle"),
               wdogPc' \in {"idle", "unlock", "read", "write"}, Unlocked'
        PROVE  WdogIInv'
    <2>1. \A timeout : InForce(timeout) <=> wdog'.cmp = timeout.cmp /\ SameScale(wdog'.cfg, timeout.scale)
      BY <1>4 DEF InForce, SameScale
    <2>2. \A bits : SameScale(wdog.cfg, bits) <=> SameScale(wdog'.cfg, bits)
      BY <1>4 DEF SameScale
    <2>3. WdogTypeOK'
      BY <1>3, <1>4 DEF WdogTypeOK
    <2>4. wdogPc' = "idle" => InForce(wdogAsked.now)'
      BY <1>3, <1>4, <2>1 DEF Timeout, InForce
    <2>5. wdogPc' # "idle" => ToWrite'
      <3>1. ToWrite => ToWrite'
        BY <1>4, <2>1, <2>2 DEF ToWrite, InForce
      <3>2. QED
        BY <1>3, <1>4, <3>1 DEF Timeout
    <2>6. QED
      BY <1>4, <2>3, <2>4, <2>5 DEF WdogIInv, Timeout
  <1>5. CASE WdogEnableInterrupt
    BY <1>3, <1>4, <1>5 DEF WdogEnableInterrupt, WdogTypeOK, Timeout, Unlocked, SameScale
  <1>6. CASE Unlock
    <2>1. /\ DOMAIN wdog' = DOMAIN wdog /\ wdog'.cmp = wdog.cmp /\ wdog'.unlocked = TRUE /\ wdog'.cfg = wdog.cfg
          /\ wdogOps' = wdogOps /\ wdogPc' \in {"read", "write"} /\ wdogPc = "unlock"
          /\ (Head(wdogOps).reg = "cfg" => wdogPc' # "write") /\ wdogAsked' = wdogAsked
      BY <1>3, <1>6 DEF Unlock, WdogTypeOK
    <2>2. Unlocked' /\ SameScale(wdog.cfg, wdog'.cfg)
      BY <2>1 DEF Unlocked, SameScale
    <2>3. QED
      BY <1>4, <2>1, <2>2
  <1>7. CASE ReadCfg
    <2>1. Unlocked' /\ SameScale(wdog.cfg, wdog'.cfg)
      BY <1>3, <1>7 DEF ReadCfg, Timeout, Unlocked, SameScale
    <2>2. QED
      BY <1>4, <1>7, <2>1 DEF ReadCfg
  <1>8. CASE Handler
    <2>1. CASE wdogPc \in {"read", "write"}
      BY <1>8, <2>1 DEF Handler, WdogIInv
    <2>2. CASE wdogPc \notin {"read", "write"}
      <3>1. PICK c : wdog' = [wdog EXCEPT !.cfg = @ \ {"ip"}, !.count = c, !.unlocked = FALSE]
        BY <1>8 DEF Handler
      <3>2. DOMAIN wdog' = DOMAIN wdog /\ wdog'.cmp = wdog.cmp /\ wdog'.cfg = wdog.cfg \ {"ip"}
        BY <1>3, <3>1 DEF WdogTypeOK
      <3>3. UNCHANGED <<wdogPc, wdogOps, wdogAsked>>
        BY <1>8 DEF Handler
      <3>4. Unlocked' /\ SameScale(wdog.cfg, wdog'.cfg)
        BY <2>2, <3>2, <3>3 DEF Unlocked, SameScale, ScaleBits
      <3>5. QED
        BY <1>3, <1>4, <3>2, <3>3, <3>4 DEF WdogTypeOK
    <2>3. QED
      BY <2>1, <2>2
  <1>9. CASE WdogTick
    <2>1. /\ DOMAIN wdog' = DOMAIN wdog /\ wdog'.cmp = wdog.cmp /\ wdog'.unlocked = wdog.unlocked
          /\ wdog'.cfg = wdog.cfg /\ UNCHANGED <<wdogPc, wdogOps, wdogSeen, wdogAsked>>
      BY <1>3, <1>9 DEF WdogTick, WdogTypeOK
    <2>2. Unlocked' /\ SameScale(wdog.cfg, wdog'.cfg)
      BY <1>3, <2>1 DEF Timeout, Unlocked, SameScale
    <2>3. QED
      BY <1>3, <1>4, <2>1, <2>2 DEF WdogTypeOK
  <1>10. CASE WdogExpire
    <2>1. /\ DOMAIN wdog' = DOMAIN wdog /\ wdog'.cmp = wdog.cmp /\ wdog'.unlocked = wdog.unlocked
          /\ wdog'.cfg = wdog.cfg \cup {"ip"} /\ UNCHANGED <<wdogPc, wdogOps, wdogSeen, wdogAsked>>
      BY <1>3, <1>10 DEF WdogExpire, WdogTypeOK
    <2>2. Unlocked' /\ SameScale(wdog.cfg, wdog'.cfg)
      BY <1>3, <2>1 DEF Timeout, Unlocked, SameScale, ScaleBits
    <2>3. QED
      BY <1>3, <1>4, <2>1, <2>2 DEF WdogTypeOK
  <1>11. CASE UNCHANGED wdogVars
    BY <1>3, <1>11 DEF wdogVars, WdogIInv, WdogTypeOK, Timeout, ToWrite, InForce, Unlocked
  <1>12. QED
    BY <1>5, <1>6, <1>7, <1>8, <1>9, <1>10, <1>11

LEMMA WdogNextIInv == WdogIInv /\ [WdogNext]_wdogVars => WdogIInv'
  BY WdogCallStep, WdogWriteStep, WdogOtherStep DEF WdogNext

\* The comparison sees only the three bits of the scale.
LEMMA DueAlike == \A a, b, cmp : SameScale(a, b) /\ Due(a, cmp) => Due(b, cmp)
  <1>1. \A a, b : SameScale(a, b) => Scale(a) = Scale(b)
    BY DEF SameScale, Scale, ScaleBits
  <1>2. QED
    BY <1>1 DEF Due

\* WdogNotEarlyHolds: unless a handler has made a write of the thread be in vain, the
\* watchdog expires, and resets the system, only when the time-out that the
\* application asked for, or before the call under way had asked for, has passed in
\* ticks of the scale asked for with it; or between the two writes of set_rate.
THEOREM WdogNotEarlyHolds == WdogSpec => WdogNotEarly
  <1> DEFINE InTime == WdogExpire /\ ~wdogLost => TimedOut \/ ScaleCleared
  <1>1. WdogIInv /\ [WdogNext]_wdogVars => [InTime]_wdogVars
    <2> SUFFICES ASSUME WdogIInv, WdogExpire, ~wdogLost
                 PROVE  TimedOut \/ ScaleCleared
      OBVIOUS
    <2>1. Timeout /\ Due(wdog.cfg, wdog.cmp)
      BY DEF WdogIInv, WdogExpire
    <2>2. \A timeout : InForce(timeout) => Due(timeout.scale, timeout.cmp)
      BY <2>1, DueAlike DEF InForce
    <2>3. CASE wdogPc = "idle"
      BY <2>1, <2>2, <2>3 DEF Timeout, TimedOut
    <2>4. CASE wdogPc # "idle"
      BY <2>1, <2>2, <2>4 DEF Timeout, ToWrite, TimedOut, ScaleCleared
    <2>5. QED
      BY <2>3, <2>4
  <1>2. QED
    BY <1>1, WdogInitIInv, WdogNextIInv, PTL DEF WdogSpec, WdogNotEarly

-----------------------------------------------------------------------------
\* The real-time clock, for any width of its registers and compare values of at
\* most 32 bits more.

\* What is left to shift away after k turns: the value is below RtcWord times this.
Room(k) == <<4294967296, 2147483648, 536870912, 67108864, 4194304, 131072, 2048, 16, 1>>[k + 1]

\* One turn of the loop: what is left, shifted back, is not above what was there.
LEMMA ShiftedBack ==
    ASSUME NEW k \in 0..7, NEW c \in Nat, NEW w \in Nat \ {0}, c < w * Room(k)
    PROVE  /\ c \div Power(k + 1) \in Nat
           /\ (c \div Power(k + 1)) * Power(k + 1) <= c
           /\ c \div Power(k + 1) < w * Room(k + 1)
  <1>1. /\ k = 0 => c < w * 4294967296 /\ Power(k + 1) = 2 /\ Room(k + 1) = 2147483648
        /\ k = 1 => c < w * 2147483648 /\ Power(k + 1) = 4 /\ Room(k + 1) = 536870912
        /\ k = 2 => c < w * 536870912 /\ Power(k + 1) = 8 /\ Room(k + 1) = 67108864
        /\ k = 3 => c < w * 67108864 /\ Power(k + 1) = 16 /\ Room(k + 1) = 4194304
        /\ k = 4 => c < w * 4194304 /\ Power(k + 1) = 32 /\ Room(k + 1) = 131072
        /\ k = 5 => c < w * 131072 /\ Power(k + 1) = 64 /\ Room(k + 1) = 2048
        /\ k = 6 => c < w * 2048 /\ Power(k + 1) = 128 /\ Room(k + 1) = 16
        /\ k = 7 => c < w * 16 /\ Power(k + 1) = 256 /\ Room(k + 1) = 1
    BY DEF Power, Room
  <1> HIDE DEF Power, Room
  <1>2. CASE k = 0
    BY <1>1, <1>2
  <1>3. CASE k = 1
    BY <1>1, <1>3
  <1>4. CASE k = 2
    BY <1>1, <1>4
  <1>5. CASE k = 3
    BY <1>1, <1>5
  <1>6. CASE k = 4
    BY <1>1, <1>6
  <1>7. CASE k = 5
    BY <1>1, <1>7
  <1>8. CASE k = 6
    BY <1>1, <1>8
  <1>9. CASE k = 7
    BY <1>1, <1>9
  <1>10. QED
    BY <1>2, <1>3, <1>4, <1>5, <1>6, <1>7, <1>8, <1>9

LEMMA PowerIs == /\ \A k \in 0..8 : Power(k) \in Nat \ {0}
                 /\ Power(0) = 1 /\ Power(1) = 2 /\ Room(0) = 4294967296 /\ Room(8) = 1
  BY DEF Power, Room

InCompare == rtcPc \in {"loop", "cmp", "getCompare"}

\* What the loop has done to the value asked for, after any number of turns.
LoopOK ==
    InCompare =>
        /\ rtcCall.arg \in RtcCompares /\ rtcCall.comp \in Nat /\ rtcCall.shift \in 0..8
        /\ rtcCall.comp <= rtcCall.arg
        /\ rtcCall.comp * Power(rtcCall.shift) <= rtcCall.arg
        /\ rtcCall.arg < 2 * RtcWord =>
              \/ rtcCall.shift = 0 /\ rtcCall.comp = rtcCall.arg
              \/ rtcCall.shift = 1 /\ rtcCall.comp = rtcCall.arg \div 2
        /\ rtcCall.comp < RtcWord * Room(rtcCall.shift)

RtcIInv ==
    /\ DOMAIN rtc = {"scale", "cmp", "count", "running"}
    /\ DOMAIN rtcCall = {"arg", "shift", "comp", "seen"}
    /\ LoopOK
    /\ rtcPc \in {"cmp", "getCompare"} => rtc.scale = rtcCall.shift
    /\ rtcPc = "getCompare" => rtc.cmp = rtcCall.comp
    /\ RtcNeverLate

LEMMA RtcInitIInv == RtcInit => RtcIInv
  BY DEF RtcInit, RtcIInv, LoopOK, InCompare, RtcNeverLate, NoArgument, Argument, Returned

\* The start of a call: nothing has been shifted.
LEMMA RtcStartStep ==
    ASSUME \A c \in RtcCompares : c < RtcWord * 4294967296, RtcIInv,
           \/ \E c \in RtcCompares : RtcSetCompare(c)
           \/ \E c \in RtcCounts : RtcSetCount(c)
           \/ RtcGetCount
    PROVE  RtcIInv'
  <1>1. rtc' = rtc /\ rtcRet' = rtcRet /\ DOMAIN rtcCall' = {"arg", "shift", "comp", "seen"}
    BY DEF RtcSetCompare, RtcSetCount, RtcGetCount, RtcCallStarts, NoArgument, Argument
  <1>2. rtcPc' \notin {"cmp", "getCompare"}
    BY DEF RtcSetCompare, RtcSetCount, RtcGetCount, RtcCallStarts
  <1>3. LoopOK'
    <2>1. CASE rtcPc' = "loop"
      <3>1. PICK c \in RtcCompares : RtcSetCompare(c)
        BY <2>1 DEF RtcSetCount, RtcGetCount, RtcCallStarts
      <3>2. rtcCall'.arg = c /\ rtcCall'.comp = c /\ rtcCall'.shift = 0
        BY <3>1 DEF RtcSetCompare, RtcCallStarts, NoArgument, Argument
      <3>3. c \in Nat /\ c < RtcWord * 4294967296
        BY RtcAssumption
      <3>4. c * 1 <= c
        BY <3>3
      <3>5. QED
        BY <3>2, <3>3, <3>4, PowerIs DEF LoopOK
    <2>2. QED
      BY <1>2, <2>1 DEF LoopOK, InCompare
  <1>4. RtcNeverLate'
    BY <1>1 DEF RtcIInv, RtcNeverLate
  <1>5. QED
    BY <1>1, <1>2, <1>3, <1>4 DEF RtcIInv

\* A turn of the loop.
LEMMA ShiftTurnStep == RtcIInv /\ ShiftTurn => RtcIInv'
  <1> SUFFICES ASSUME RtcIInv, ShiftTurn
               PROVE  RtcIInv'
    OBVIOUS
  <1> DEFINE a == rtcCall.arg
             c == rtcCall.comp
             k == rtcCall.shift
  <1>1. /\ rtcPc = "loop" /\ c >= RtcWord /\ UNCHANGED <<rtc, rtcPc, rtcRet>>
        /\ rtcCall' = [rtcCall EXCEPT !.shift = k + 1, !.comp = c \div Power(k + 1)]
    BY DEF ShiftTurn
  <1>2. /\ rtcCall'.arg = a /\ rtcCall'.shift = k + 1 /\ rtcCall'.comp = c \div Power(k + 1)
        /\ DOMAIN rtcCall' = {"arg", "shift", "comp", "seen"}
    BY <1>1 DEF RtcIInv
  <1>3. /\ a \in RtcCompares /\ c \in Nat /\ k \in 0..8 /\ c <= a /\ c < RtcWord * Room(k)
        /\ a < 2 * RtcWord => (k = 0 /\ c = a) \/ (k = 1 /\ c = a \div 2)
    BY <1>1 DEF RtcIInv, LoopOK, InCompare
  <1>4. RtcWord \in Nat \ {0} /\ a \in Nat
    BY <1>3, RtcAssumption
  <1> HIDE DEF a, c, k
  <1>5. k \in 0..7
    <2>1. k = 8 => c < RtcWord * 1
      BY <1>3, PowerIs
    <2>2. QED
      BY <1>1, <1>3, <1>4, <2>1
  <1>6. /\ c \div Power(k + 1) \in Nat
        /\ (c \div Power(k + 1)) * Power(k + 1) <= c
        /\ c \div Power(k + 1) < RtcWord * Room(k + 1)
    BY <1>3, <1>4, <1>5, ShiftedBack
  <1>7. c \div Power(k + 1) <= c
    <2>1. Power(k + 1) \in Nat \ {0}
      BY <1>5, PowerIs
    <2>2. QED
      BY <1>3, <1>6, <2>1
  <1>8. a < 2 * RtcWord => k = 0 /\ c = a
    BY <1>1, <1>3, <1>4
  <1>9. a < 2 * RtcWord => k + 1 = 1 /\ c \div Power(k + 1) = a \div 2
    BY <1>8, PowerIs
  <1> DEFINE d == c \div Power(k + 1)
  <1>10. /\ d \in Nat /\ k + 1 \in 0..8 /\ d <= a /\ d * Power(k + 1) <= a /\ d < RtcWord * Room(k + 1)
         /\ a < 2 * RtcWord => k + 1 = 1 /\ d = a \div 2
    <2>1. d * Power(k + 1) <= c /\ d <= c /\ d \in Nat /\ Power(k + 1) \in Nat
      BY <1>5, <1>6, <1>7, PowerIs
    <2>2. d * Power(k + 1) \in Nat
      BY <2>1
    <2> HIDE DEF d
    <2>3. d <= a /\ d * Power(k + 1) <= a
      BY <1>3, <1>4, <2>1, <2>2
    <2>4. QED
      BY <1>5, <1>6, <1>9, <2>1, <2>3 DEF d
  <1>11. rtcCall'.comp = d
    BY <1>2
  <1> HIDE DEF d
  <1>12. LoopOK'
    BY <1>2, <1>3, <1>10, <1>11 DEF LoopOK
  <1>13. RtcNeverLate'
    BY <1>1 DEF RtcIInv, RtcNeverLate
  <1>14. QED
    BY <1>1, <1>2, <1>12, <1>13 DEF RtcIInv

\* The writes of the result, and its read back.
LEMMA RtcCompareStep ==
    ASSUME RtcIInv, WriteScale \/ WriteCmp \/ GetCompare
    PROVE  RtcIInv'
  <1>1. CASE WriteScale
    <2>1. rtcPc = "loop" /\ rtcPc' = "cmp" /\ UNCHANGED <<rtcCall, rtcRet>>
      BY <1>1 DEF WriteScale
    <2>2. LoopOK' /\ rtcCall.shift \in 0..8
      BY <2>1 DEF RtcIInv, LoopOK, InCompare
    <2>3. DOMAIN rtc' = DOMAIN rtc /\ rtc'.scale = rtcCall.shift % 16
      BY <1>1 DEF WriteScale, RtcIInv
    <2>4. rtcCall.shift % 16 = rtcCall.shift
      BY <2>2
    <2>5. QED
      BY <2>1, <2>2, <2>3, <2>4 DEF RtcIInv, RtcNeverLate
  <1>2. CASE WriteCmp
    <2>1. rtcPc = "cmp" /\ rtcPc' = "getCompare" /\ UNCHANGED <<rtcCall, rtcRet>>
      BY <1>2 DEF WriteCmp
    <2>2. LoopOK'
      BY <2>1 DEF RtcIInv, LoopOK, InCompare
    <2>3. DOMAIN rtc' = DOMAIN rtc /\ rtc'.scale = rtc.scale /\ rtc'.cmp = rtcCall.comp
      BY <1>2 DEF WriteCmp, RtcIInv
    <2>4. QED
      BY <2>1, <2>2, <2>3 DEF RtcIInv, RtcNeverLate
  <1>3. CASE GetCompare
    <2> DEFINE a == rtcCall.arg
               c == rtcCall.comp
               k == rtcCall.shift
    <2>1. /\ rtcPc = "getCompare" /\ rtcPc' = "idle" /\ rtcCall' = NoArgument /\ rtc' = rtc
          /\ rtcRet' = Returned("compare", a, rtc.cmp * Power(rtc.scale))
      BY <1>3 DEF GetCompare
    <2>2. rtc.cmp = c /\ rtc.scale = k
      BY <2>1 DEF RtcIInv
    <2>3. /\ a \in RtcCompares /\ c \in Nat /\ k \in 0..8 /\ c * Power(k) <= a
          /\ a < 2 * RtcWord => (k = 0 /\ c = a) \/ (k = 1 /\ c = a \div 2)
      BY <2>1 DEF RtcIInv, LoopOK, InCompare
    <2>4. a \in Nat
      BY <2>3, RtcAssumption
    <2>5. rtcRet'.asked = a /\ rtcRet'.value = c * Power(k)
      BY <2>1, <2>2 DEF Returned
    <2> HIDE DEF a, c, k
    <2>6. a < 2 * RtcWord => a - c * Power(k) < 2
      <3>1. CASE k = 0 /\ c = a
        BY <2>4, <3>1, PowerIs
      <3>2. CASE k = 1 /\ c = a \div 2
        BY <2>4, <3>2, PowerIs
      <3>3. QED
        BY <2>3, <3>1, <3>2
    <2>7. RtcNeverLate'
      BY <2>3, <2>5, <2>6 DEF RtcNeverLate
    <2>8. QED
      BY <2>1, <2>7 DEF RtcIInv, LoopOK, InCompare, NoArgument, Argument
  <1>4. QED
    BY <1>1, <1>2, <1>3

\* The other steps do not touch what set_compare has computed.
RtcKept ==
    /\ DOMAIN rtc' = DOMAIN rtc /\ rtc'.scale = rtc.scale /\ rtc'.cmp = rtc.cmp
    /\ DOMAIN rtcCall' = {"arg", "shift", "comp", "seen"}
    /\ InCompare' => UNCHANGED <<rtcPc, rtcCall>>
    /\ RtcNeverLate'

LEMMA RtcRunKeeps == \A on : RtcIInv /\ RtcRun(on) => RtcKept
  <1> SUFFICES ASSUME NEW on, RtcIInv, RtcRun(on)
               PROVE  RtcKept
    OBVIOUS
  <1>1. rtc' = [rtc EXCEPT !.running = on] /\ UNCHANGED <<rtcPc, rtcCall, rtcRet>>
    BY DEF RtcRun
  <1>2. DOMAIN rtc' = DOMAIN rtc /\ rtc'.scale = rtc.scale /\ rtc'.cmp = rtc.cmp
    BY <1>1
  <1>3. QED
    BY <1>1, <1>2 DEF RtcIInv, RtcKept, InCompare, RtcNeverLate

LEMMA RtcKeptStep == RtcIInv /\ RtcKept => RtcIInv'
  <1> SUFFICES ASSUME RtcIInv, RtcKept
               PROVE  RtcIInv'
    OBVIOUS
  <1>1. LoopOK'
    BY DEF RtcIInv, RtcKept, LoopOK, InCompare
  <1>2. QED
    BY <1>1 DEF RtcIInv, RtcKept, InCompare

LEMMA RtcOtherStep ==
    ASSUME RtcIInv, \/ (\E on \in BOOLEAN : RtcRun(on)) \/ SetHi \/ SetLo \/ ReadHi \/ ReadLo \/ RtcTick
                    \/ UNCHANGED rtcVars
    PROVE  RtcIInv'
  <1>1. CASE \E on \in BOOLEAN : RtcRun(on)
    BY <1>1, RtcRunKeeps, RtcKeptStep
  <1>2. CASE SetHi
    BY <1>2, RtcKeptStep DEF SetHi, RtcKept, RtcIInv, InCompare, RtcNeverLate
  <1>3. CASE SetLo
    BY <1>3, RtcKeptStep DEF SetLo, RtcKept, RtcIInv, InCompare, RtcNeverLate
  <1>4. CASE ReadHi
    BY <1>4, RtcKeptStep DEF ReadHi, RtcKept, RtcIInv, InCompare, RtcNeverLate
  <1>5. CASE ReadLo
    <2>1. /\ UNCHANGED rtc /\ rtcPc' = "idle" /\ rtcCall' = NoArgument /\ rtcRet'.op = "count"
      BY <1>5 DEF ReadLo, Returned
    <2>2. DOMAIN NoArgument = {"arg", "shift", "comp", "seen"}
      BY DEF NoArgument, Argument
    <2>3. QED
      BY <2>1, <2>2, RtcKeptStep DEF RtcKept, InCompare, RtcNeverLate
  <1>6. CASE RtcTick
    BY <1>6, RtcKeptStep DEF RtcTick, RtcKept, RtcIInv, InCompare, RtcNeverLate
  <1>7. CASE UNCHANGED rtcVars
    <2>1. UNCHANGED <<rtc, rtcPc, rtcCall, rtcRet>>
      BY <1>7 DEF rtcVars
    <2>2. QED
      BY <2>1, RtcKeptStep DEF RtcKept, RtcIInv, RtcNeverLate
  <1>8. QED
    BY <1>1, <1>2, <1>3, <1>4, <1>5, <1>6, <1>7

\* RtcNeverLateHolds: for a compare value of at most 32 bits more than the register
\* has, the alarm is never after the value asked for, although the loop shifts by too
\* much; and one shift loses less than two ticks.
THEOREM RtcNeverLateHolds ==
    ASSUME \A c \in RtcCompares : c < RtcWord * 4294967296
    PROVE  RtcSpec => []RtcNeverLate
  <1>1. RtcIInv /\ [RtcNext]_rtcVars => RtcIInv'
    <2> SUFFICES ASSUME RtcIInv, [RtcNext]_rtcVars
                 PROVE  RtcIInv'
      OBVIOUS
    <2>1. CASE (\E c \in RtcCompares : RtcSetCompare(c)) \/ (\E c \in RtcCounts : RtcSetCount(c)) \/ RtcGetCount
      BY <2>1, RtcStartStep
    <2>2. CASE ShiftTurn
      BY <2>2, ShiftTurnStep
    <2>3. CASE WriteScale \/ WriteCmp \/ GetCompare
      BY <2>3, RtcCompareStep
    <2>4. CASE \/ (\E on \in BOOLEAN : RtcRun(on)) \/ SetHi \/ SetLo \/ ReadHi \/ ReadLo \/ RtcTick
               \/ UNCHANGED rtcVars
      BY <2>4, RtcOtherStep
    <2>5. QED
      BY <2>1, <2>2, <2>3, <2>4 DEF RtcNext
  <1>2. RtcIInv => RtcNeverLate
    BY DEF RtcIInv
  <1>3. QED
    BY <1>1, <1>2, RtcInitIInv, PTL DEF RtcSpec

-----------------------------------------------------------------------------
\* The rate of the PLL, for any rates asked for, any oscillators and any number of
\* calls: the row chosen is the nearest, its registers are written whole, and what
\* they make of the input is what the row promises.

\* A non-empty set of natural numbers has a least element.
Below == {ss \in Nat \X Nat : ss[1] < ss[2]}

LEMMA BelowWellFounded == IsWellFoundedOn(Below, Nat)
  BY NatLessThanWellFounded, Zenon DEF OpToRel, Below

LEMMA LeastOf ==
    ASSUME NEW S, S \subseteq Nat, S # {}
    PROVE  \E x \in S : \A y \in S : x <= y
  <1>1. PICK x \in S : \A y \in S : ~(<<y, x>> \in Below)
    BY BelowWellFounded, WFMin, Zenon
  <1>2. ASSUME NEW y \in S
        PROVE  x <= y
    <2>1. x \in Nat /\ y \in Nat /\ ~(<<y, x>> \in Below)
      BY <1>1
    <2>2. QED
      BY <2>1 DEF Below
  <1>3. QED
    BY <1>2

\* The rate that a row promises is a number, as are the distances to it.
LEMMA DistanceIsNat ==
    ASSUME NEW ref \in Nat, NEW rate \in Nat, NEW c, Agrees(c)
    PROVE  ConfigFreq(ref, c) \in Nat /\ Distance(ref, c, rate) \in Nat
  <1>1. c[1] \in Nat /\ c[2] \in Nat \ {0}
    BY DEF Agrees
  <1>2. ref * c[1] \in Nat
    BY <1>1
  <1>3. (ref * c[1]) \div c[2] \in Nat
    BY <1>1, <1>2
  <1>4. QED
    BY <1>3 DEF ConfigFreq, Distance

\* The loop of find_closest_config finds one: of the rows at the least distance, the last.
Nearest(i, ref, rate) ==
    /\ i \in ValidConfigs(ref)
    /\ \A j \in ValidConfigs(ref) : Distance(ref, PllConfigs[i], rate) <= Distance(ref, PllConfigs[j], rate)

LEMMA ClosestIsNearest ==
    ASSUME NEW ref \in Nat, NEW rate \in Nat, ValidConfigs(ref) # {}
    PROVE  Nearest(ClosestConfig(ref, rate), ref, rate)
  <1> DEFINE V == ValidConfigs(ref)
             n == Len(PllConfigs)
             D(i) == Distance(ref, PllConfigs[i], rate)
             Closest(i) == \A j \in V : D(i) < D(j) \/ (D(i) = D(j) /\ i >= j)
  <1>1. n \in Nat /\ V \subseteq 1..n
    BY DEF ValidConfigs, PllConfigs
  <1>2. \A i \in V : D(i) \in Nat
    BY <1>1, TableAgrees, DistanceIsNat
  <1>3. ClosestConfig(ref, rate) = CHOOSE i \in V : Closest(i)
    BY DEF ClosestConfig
  <1>4. \E i \in V : Closest(i)
    <2> HIDE DEF D
    <2>1. PICK i \in V : \A j \in V : D(i) <= D(j)
      <3>1. {D(k) : k \in V} \subseteq Nat /\ {D(k) : k \in V} # {}
        BY <1>2
      <3> DEFINE DD == {D(k) : k \in V}
      <3> HIDE DEF DD
      <3>2. PICK x \in DD : \A y \in DD : x <= y
        BY <3>1, LeastOf DEF DD
      <3>3. QED
        BY <3>2 DEF DD
    <2> DEFINE W == {n - k : k \in {k \in V : D(k) = D(i)}}
    <2>2. W \subseteq Nat /\ W # {}
      BY <1>1
    <2>3. PICK x \in W : \A y \in W : x <= y
      <3> HIDE DEF W
      <3> QED
        BY <2>2, LeastOf
    <2>4. PICK k \in V : D(k) = D(i) /\ x = n - k
      BY <2>3
    <2>5. \A j \in V : D(j) = D(i) => k >= j
      <3> TAKE j \in V
      <3> HAVE D(j) = D(i)
      <3>1. n - j \in W
        OBVIOUS
      <3> HIDE DEF W
      <3>2. n - k <= n - j
        BY <2>3, <2>4, <3>1
      <3>3. QED
        BY <1>1, <3>2
    <2>6. Closest(k)
      BY <1>2, <2>1, <2>4, <2>5
    <2>7. QED
      BY <2>6
  <1> DEFINE closest == ClosestConfig(ref, rate)
  <1> HIDE DEF D, V
  <1>5. closest \in V /\ Closest(closest)
    BY <1>3, <1>4
  <1> HIDE DEF closest
  <1>6. \A j \in V : D(closest) <= D(j)
    BY <1>2, <1>5
  <1>7. QED
    BY <1>5, <1>6 DEF Nearest, D, V, closest

\* A number is its quotient and its remainder.
LEMMA QuotientRemainder ==
    ASSUME NEW x \in Nat, NEW d \in Nat \ {0}
    PROVE  /\ x \div d \in Nat /\ x % d \in 0..(d - 1)
           /\ x = ((x \div d) * d) + (x % d)
  OBVIOUS

\* The divisions of get_rate_hz lose less than the remainder of the first one times the
\* multiplier.
LEMMA GainBehind ==
    ASSUME NEW ref \in Nat, NEW r \in 0..3, NEW m \in Nat, NEW n \in Nat \ {0}, NEW d \in Nat \ {0},
           NEW h \in Nat, h * n = (r + 1) * m, r * m <= 64
    PROVE  (((ref \div (r + 1)) * (d * h)) \div d) - ((ref * m) \div n) \in -64..64
  <1> DEFINE a == ref \div (r + 1)
             s == ref % (r + 1)
  <1>1. a \in Nat /\ s \in 0..r /\ ref = (a * (r + 1)) + s
    OBVIOUS
  <1> HIDE DEF a, s
  <1>2. (a * (d * h)) \div d = a * h
    <2>1. a * (d * h) = ((a * h) * d) + 0 /\ a * h \in Nat /\ 0 \in 0..(d - 1)
      BY <1>1
    <2> DEFINE k == a * h
    <2> HIDE DEF k
    <2>2. k \in Nat /\ a * (d * h) \in Nat /\ a * (d * h) = (k * d) + 0
      BY <2>1 DEF k
    <2>3. (a * (d * h)) \div d = k
      BY <2>1, <2>2, OnlyQuotient
    <2>4. QED
      BY <2>3 DEF k
  <1>3. s * m \in Nat /\ s * m <= r * m
    <2>1. s \in Nat /\ r \in Nat /\ s <= r
      BY <1>1
    <2>2. r * m = (s * m) + ((r - s) * m) /\ s * m \in Nat /\ (r - s) * m \in Nat
      BY <2>1
    <2>3. QED
      BY <2>2
  <1>4. (ref * m) \div n = (a * h) + ((s * m) \div n)
    <2>1. ref * m = ((a * h) * n) + (s * m)
      <3>1. ref * m = (a * ((r + 1) * m)) + (s * m)
        BY <1>1
      <3>2. a * (h * n) = (a * h) * n
        BY <1>1
      <3>3. QED
        BY <3>1, <3>2
    <2>2. a * h \in Nat
      BY <1>1
    <2>3. (((a * h) * n) + (s * m)) \div n = (a * h) + ((s * m) \div n)
      BY <1>3, <2>2, MultipleOut
    <2>4. QED
      BY <2>1, <2>3
  <1>5. (s * m) \div n \in 0..64
    <2> DEFINE p == s * m
    <2>1. p \in 0..64
      BY <1>3
    <2> HIDE DEF p
    <2>2. p \div n \in Nat /\ (p \div n) * n <= p
      BY <2>1
    <2>3. p \div n <= (p \div n) * n
      BY <2>2
    <2>4. p \div n \in 0..64
      BY <2>1, <2>2, <2>3
    <2>5. QED
      BY <2>4 DEF p
  <1> DEFINE k == a * h
             w == (s * m) \div n
  <1>6. k \in Nat /\ w \in 0..64
    BY <1>1, <1>5
  <1> HIDE DEF k, w
  <1>7. k - (k + w) \in -64..64
    BY <1>6
  <1>8. QED
    BY <1>2, <1>4, <1>7 DEF a, k, w

\* Two divisions, one after the other, are one.
LEMMA DividedTwice ==
    ASSUME NEW ref \in Nat, NEW r \in 0..3, NEW g \in Nat \ {0}, NEW h \in Nat \ {0}
    PROVE  ((ref \div (r + 1)) * g) \div (g * h) = ref \div ((r + 1) * h)
  <1> DEFINE a == ref \div (r + 1)
             s == ref % (r + 1)
  <1>1. a \in Nat /\ s \in 0..r /\ ref = (a * (r + 1)) + s
    <2>1. r + 1 \in Nat \ {0} /\ (r + 1) - 1 = r
      OBVIOUS
    <2>2. QED
      BY <2>1, QuotientRemainder
  <1> HIDE DEF a, s
  <1> DEFINE q == a \div h
             t == a % h
  <1>2. q \in Nat /\ t \in 0..(h - 1) /\ a = (q * h) + t
    BY <1>1
  <1> HIDE DEF q, t
  <1>3. (a * g) \div (g * h) = q
    <2>1. a * g = (q * (g * h)) + (t * g)
      BY <1>2
    <2>2. t * g \in 0..((g * h) - 1)
      <3>1. h - 1 - t \in Nat /\ g * h = ((h - 1 - t) * g) + (t * g) + g
        BY <1>2
      <3>2. (h - 1 - t) * g \in Nat /\ t * g \in Nat
        BY <1>2, <3>1
      <3>3. QED
        BY <3>1, <3>2
    <2>3. g * h \in Nat \ {0} /\ a * g \in Nat
      BY <1>1
    <2>4. QED
      BY <1>2, <2>1, <2>2, <2>3, OnlyQuotient
  <1>4. ref \div ((r + 1) * h) = q
    <2>1. ref = (q * ((r + 1) * h)) + ((t * (r + 1)) + s)
      BY <1>1, <1>2
    <2>2. (t * (r + 1)) + s \in 0..(((r + 1) * h) - 1)
      <3>1. h - 1 - t \in Nat /\ (r + 1) * h = ((h - 1 - t) * (r + 1)) + (t * (r + 1)) + (r + 1)
        BY <1>2
      <3>2. (h - 1 - t) * (r + 1) \in Nat /\ t * (r + 1) \in Nat
        BY <1>2, <3>1
      <3>3. QED
        BY <1>1, <3>1, <3>2
    <2>3. (r + 1) * h \in Nat \ {0}
      OBVIOUS
    <2>4. QED
      BY <1>2, <2>1, <2>2, <2>3, OnlyQuotient
  <1>5. QED
    BY <1>3, <1>4 DEF a

\* The rate of the registers of a row is, but for rounding, the one it promises.
LEMMA RowTold ==
    ASSUME NEW ref \in Nat, NEW c, Agrees(c)
    PROVE  ((((ref \div (c[5] + 1)) * (2 * (c[6] + 1))) \div DivQ(c[7])) \div FinalDiv(c)) - ConfigFreq(ref, c)
             \in -64..64
  <1> DEFINE m == c[1]
             n == c[2]
             r == c[5]
             g == Gain(c)
             d == FinalDiv(c)
             a == ref \div (r + 1)
  <1>1. PICK h \in 1..64 : \/ g = d * h /\ h * n = (r + 1) * m
                           \/ d = g * h /\ n = (r + 1) * h /\ m = 1
    BY DEF Agrees
  <1>2. /\ m \in Nat /\ n \in Nat \ {0} /\ r \in 0..3 /\ r * m <= 64 /\ c[6] \in 0..63
        /\ c[7] \in 1..3 /\ c[8] \in (-1)..63 /\ 2 * (c[6] + 1) = g * DivQ(c[7])
    BY DEF Agrees
  <1>3. DivQ(c[7]) \in {2, 4, 8}
    BY <1>2 DEF DivQ
  <1>4. d \in Nat \ {0}
    BY <1>2 DEF FinalDiv
  <1>5. g \in Nat \ {0}
    <2>1. g = (2 * (c[6] + 1)) \div DivQ(c[7])
      BY DEF Gain
    <2> DEFINE f == 2 * (c[6] + 1)
               q == DivQ(c[7])
    <2>2. f \in Nat /\ f # 0 /\ f = g * q
      BY <1>2
    <2> HIDE DEF f, g
    <2>3. g \in Nat
      BY <1>3, <2>1, <2>2 DEF f
    <2>4. QED
      BY <1>3, <2>2, <2>3
  <1>6. a \in Nat
    BY <1>2
  <1> HIDE DEF g, d, a
  <1>7. (a * (2 * (c[6] + 1))) \div DivQ(c[7]) = a * g
    <2> DEFINE k == a * g
    <2>1. k \in Nat /\ a * (2 * (c[6] + 1)) = k * DivQ(c[7])
      BY <1>2, <1>3, <1>5, <1>6
    <2> HIDE DEF k
    <2>2. (k * DivQ(c[7])) \div DivQ(c[7]) = k
      BY <1>3, <2>1
    <2>3. QED
      BY <2>1, <2>2 DEF k
  <1>8. ((a * g) \div d) - ((ref * m) \div n) \in -64..64
    <2>1. CASE g = d * h /\ h * n = (r + 1) * m
      <3> HIDE DEF m, n, r
      <3>1. /\ r \in 0..3 /\ m \in Nat /\ n \in Nat \ {0} /\ d \in Nat \ {0} /\ h \in Nat
            /\ h * n = (r + 1) * m /\ r * m <= 64
        BY <1>1, <1>2, <1>4, <2>1
      <3>2. (((ref \div (r + 1)) * (d * h)) \div d) - ((ref * m) \div n) \in -64..64
        BY <3>1, GainBehind, Zenon
      <3>3. QED
        BY <2>1, <3>2, Zenon DEF a
    <2>2. CASE d = g * h /\ n = (r + 1) * h /\ m = 1
      <3> HIDE DEF m, n, r
      <3>1. r \in 0..3 /\ g \in Nat \ {0} /\ h \in Nat \ {0}
        BY <1>1, <1>2, <1>5
      <3>2. ((ref \div (r + 1)) * g) \div (g * h) = ref \div ((r + 1) * h)
        BY <3>1, DividedTwice, Zenon
      <3>3. (a * g) \div d = ref \div n
        BY <2>2, <3>2, Zenon DEF a
      <3>4. ref * m = ref /\ ref \div n \in Nat
        BY <1>2, <2>2
      <3>5. QED
        BY <3>3, <3>4
    <2>3. QED
      BY <1>1, <2>1, <2>2
  <1>9. QED
    BY <1>7, <1>8 DEF a, g, d, ConfigFreq

\* The accesses that write the registers of the configuration chosen.
Writing == {"r", "f", "q", "outdiv", "bypassOff"}

\* A configuration has been chosen and is being written, or it is what the PLL runs at.
Chosen == \/ pllPc \in Writing
          \/ pllPc \in {"ticks", "lock", "select", "boot", "idle"} /\ ~pll.bypass

\* What has been written of it so far.
Written ==
    /\ pllPc # "r" => pll.r = Config[5]
    /\ pllPc \notin {"r", "f"} => pll.f = Config[6]
    /\ pllPc \notin {"r", "f", "q"} => pll.q = Config[7]
    /\ pllPc \notin {"r", "f", "q", "outdiv"} =>
         /\ Config[8] < 0 => pll.div1
         /\ ~(Config[8] < 0) => ~pll.div1 /\ pll.div = Config[8]

PllFields == {"sel", "refsel", "bypass", "r", "f", "q", "div1", "div"}

RateIInv ==
    /\ DOMAIN pll = PllFields /\ DOMAIN pllArg = {"rate", "ref", "index"}
    /\ DOMAIN pllBoot = {"rate", "hfrosc", "left"}
    /\ pllBoot.rate \in Nat /\ pllArg.rate \in Nat /\ pllBoot.hfrosc.div \in Nat
    /\ pllBoot.left \in 0..2
    /\ pllPc = "reset" => pllBoot.left = 2
    /\ pllBoot.left = 2 => pllPc \in {"reset", "boot"} /\ pll.bypass
    /\ Chosen => /\ pllArg.ref \in Nat /\ pllArg.ref = InputRate(pll)
                 /\ Nearest(pllArg.index, pllArg.ref, pllArg.rate)
                 /\ Written

LEMMA RateInit == PllInit => RateIInv
  BY DEF PllInit, RateIInv, Chosen, Writing, Bypassing, PllFields

\* A step that keeps what a configuration is chosen from keeps the choice.
RatesKept == UNCHANGED <<pllArg, pllBoot>> /\ pll'.refsel = pll.refsel

LEMMA InputKept ==
    ASSUME RatesKept
    PROVE  InputRate(pll)' = InputRate(pll)
  BY DEF RatesKept, InputRate, PllRef, PllSel0

LEMMA ChosenKept ==
    ASSUME RateIInv, RatesKept, DOMAIN pll' = PllFields, Chosen' => Chosen, Chosen' => Written',
           pllPc' # "reset", pllBoot.left # 2
    PROVE  RateIInv'
  <1>1. InputRate(pll)' = InputRate(pll)
    BY InputKept
  <1>2. Chosen' => /\ pllArg'.ref \in Nat /\ pllArg'.ref = InputRate(pll)'
                   /\ Nearest(pllArg.index, pllArg.ref, pllArg.rate)'
    BY <1>1 DEF RateIInv, RatesKept, Nearest, ValidConfigs
  <1>3. QED
    BY <1>2 DEF RateIInv, RatesKept

\* Before a configuration is chosen.
LEMMA RateBeginStep ==
    ASSUME RateIInv, \/ PllReset \/ PllConstructor \/ PllBooted \/ SelectOff
                     \/ \E rate \in PllRates : PllSetRate(rate)
    PROVE  RateIInv'
  <1>1. CASE PllReset
    <2> PICK r \in InitRates, cfg \in HfroscCfgs, b \in BOOLEAN :
           /\ pllBoot' = [pllBoot EXCEPT !.rate = r, !.hfrosc = cfg]
           /\ pll' = [pll EXCEPT !.refsel = b]
      BY <1>1 DEF PllReset
    <2>1. /\ DOMAIN pllBoot' = DOMAIN pllBoot /\ pllBoot'.rate = r /\ pllBoot'.left = pllBoot.left
          /\ pllBoot'.hfrosc = cfg
          /\ DOMAIN pll' = DOMAIN pll /\ pll'.bypass = pll.bypass
      BY DEF RateIInv, PllFields
    <2>2. pllPc = "reset" /\ pllPc' = "boot" /\ pllArg' = pllArg
      BY <1>1 DEF PllReset
    <2>3. r \in Nat /\ cfg.div \in Nat
      BY PllAssumption
    <2>4. QED
      BY <2>1, <2>2, <2>3 DEF RateIInv, Chosen, Writing
  <1>2. CASE PllConstructor
    <2>1. /\ pllBoot' = [pllBoot EXCEPT !.left = @ - 1]
          /\ pllArg' = [pllArg EXCEPT !.rate = pllBoot.rate]
          /\ pllPc = "boot" /\ pllBoot.left > 0
      BY <1>2 DEF PllConstructor
    <2>2. /\ DOMAIN pllBoot' = DOMAIN pllBoot /\ pllBoot'.rate = pllBoot.rate
          /\ pllBoot'.left = pllBoot.left - 1 /\ pllBoot'.hfrosc = pllBoot.hfrosc
          /\ DOMAIN pllArg' = DOMAIN pllArg /\ pllArg'.rate = pllBoot.rate
      BY <2>1 DEF RateIInv
    <2>3. DOMAIN pll' = DOMAIN pll
      BY <1>2 DEF PllConstructor
    <2>4. \/ pllPc' = "off"
          \/ pllPc' = "boot" /\ pllBoot.left = 2 /\ pll' = pll
      BY <1>2 DEF PllConstructor
    <2>5. QED
      BY <2>1, <2>2, <2>3, <2>4 DEF RateIInv, Chosen, Writing
  <1>3. CASE PllBooted
    <2>1. /\ pllPc = "boot" /\ pllPc' = "idle" /\ UNCHANGED <<pll, pllArg, pllBoot>>
          /\ pllBoot.left # 2
      BY <1>3 DEF PllBooted
    <2>2. RatesKept /\ DOMAIN pll' = PllFields
      BY <2>1 DEF RatesKept, RateIInv
    <2>3. (Chosen' => Chosen) /\ (Chosen' => Written')
      BY <2>1 DEF Chosen, Writing, RateIInv, Written, Config
    <2>4. QED
      BY <2>1, <2>2, <2>3, ChosenKept
  <1>4. CASE SelectOff
    <2>1. DOMAIN pll' = DOMAIN pll /\ pllPc = "off" /\ pllPc' = "choose" /\ UNCHANGED <<pllArg, pllBoot>>
      BY <1>4 DEF SelectOff
    <2>2. QED
      BY <2>1 DEF RateIInv, Chosen, Writing
  <1>5. CASE \E rate \in PllRates : PllSetRate(rate)
    <2> PICK rate \in PllRates : PllSetRate(rate)
      BY <1>5
    <2>1. /\ DOMAIN pllArg' = DOMAIN pllArg /\ pllArg'.rate = rate
          /\ pllPc = "idle" /\ pllPc' = "off" /\ UNCHANGED <<pll, pllBoot>>
      BY DEF PllSetRate, RateIInv
    <2>2. rate \in Nat
      BY PllAssumption
    <2>3. QED
      BY <2>1, <2>2 DEF RateIInv, Chosen, Writing
  <1>6. QED
    BY <1>1, <1>2, <1>3, <1>4, <1>5

\* A valid configuration needs an input.
LEMMA InputIsNat ==
    ASSUME NEW ref, ref \in Int, ValidConfigs(ref) # {}
    PROVE  ref \in Nat
  <1> PICK i \in ValidConfigs(ref) : TRUE
    OBVIOUS
  <1>1. i \in 1..Len(PllConfigs) /\ ref >= PllConfigs[i][3]
    BY DEF ValidConfigs, Valid
  <1>2. PllConfigs[i][3] \in Nat
    BY <1>1, TableAgrees DEF Agrees
  <1>3. QED
    BY <1>1, <1>2

\* The choice.
LEMMA RateChooseStep == RateIInv /\ Choose => RateIInv'
  <1> SUFFICES ASSUME RateIInv, Choose
               PROVE  RateIInv'
    OBVIOUS
  <1> DEFINE ref == InputRate(pll)
  <1>1. UNCHANGED pllBoot /\ pllPc = "choose"
    BY DEF Choose
  <1>2. CASE pllPc' = "select" /\ pll' = [pll EXCEPT !.bypass = TRUE]
             /\ pllArg' = [pllArg EXCEPT !.ref = ref, !.index = 0]
    <2>1. /\ DOMAIN pll' = DOMAIN pll /\ pll'.bypass
          /\ DOMAIN pllArg' = DOMAIN pllArg /\ pllArg'.rate = pllArg.rate
      BY <1>2 DEF RateIInv, PllFields
    <2>2. QED
      BY <1>1, <1>2, <2>1 DEF RateIInv, Chosen, Writing
  <1>3. CASE /\ ValidConfigs(ref) # {} /\ pllPc' = "r" /\ UNCHANGED pll
             /\ pllArg' = [pllArg EXCEPT !.ref = ref, !.index = ClosestConfig(ref, pllArg.rate)]
    <2>1. /\ DOMAIN pllArg' = DOMAIN pllArg /\ pllArg'.rate = pllArg.rate
          /\ pllArg'.ref = ref /\ pllArg'.index = ClosestConfig(ref, pllArg.rate)
      BY <1>3 DEF RateIInv
    <2>2. ref \in Int
      <3>1. PllSel0 \in Int
        BY PllAssumption DEF PllSel0, HfroscRate, FixedFactorRate, FixedClockRate, RateIInv
      <3>2. PllRef \in Int
        BY PllAssumption DEF PllRef, HfxoscRate, FixedClockRate
      <3>3. QED
        BY <3>1, <3>2 DEF InputRate
    <2> HIDE DEF ref
    <2>3. ref \in Nat /\ pllArg.rate \in Nat
      BY <1>3, <2>2, InputIsNat DEF RateIInv
    <2>4. Nearest(ClosestConfig(ref, pllArg.rate), ref, pllArg.rate)
      BY <1>3, <2>3, ClosestIsNearest
    <2>5. Nearest(pllArg.index, pllArg.ref, pllArg.rate)'
      BY <2>1, <2>4 DEF Nearest, ValidConfigs
    <2>6. InputRate(pll)' = ref
      BY <1>1, <1>3 DEF ref, InputRate, PllSel0, PllRef
    <2>7. Written'
      BY <1>3 DEF Written
    <2>8. QED
      BY <1>1, <1>3, <2>1, <2>3, <2>5, <2>6, <2>7 DEF RateIInv
  <1>4. QED
    BY <1>2, <1>3 DEF Choose, Change

\* The registers are written one by one.
LEMMA RateConfigureStep == RateIInv /\ ConfigurePll => RateIInv'
  <1> SUFFICES ASSUME RateIInv, ConfigurePll
               PROVE  RateIInv'
    OBVIOUS
  <1>1. UNCHANGED <<pllArg, pllBoot>> /\ Config' = Config
    BY DEF ConfigurePll, Config
  <1>2. ASSUME RatesKept, DOMAIN pll' = PllFields, Written', pllPc \in Writing,
               pllPc' \in {"f", "q", "outdiv", "bypassOff", "ticks"}
        PROVE  RateIInv'
    BY <1>2, ChosenKept DEF Chosen, RateIInv, Writing
  <1>3. pllPc \in Writing => Written
    BY DEF RateIInv, Chosen
  <1>4. CASE pllPc = "r" /\ Change([pll EXCEPT !.r = Config[5]], "f")
    <2>1. pll' = [pll EXCEPT !.r = Config[5]] /\ pllPc = "r" /\ pllPc' = "f"
      BY <1>4 DEF Change
    <2>2. DOMAIN pll' = PllFields /\ pll'.refsel = pll.refsel /\ pll'.r = Config[5]
      BY <2>1 DEF RateIInv, PllFields
    <2>3. QED
      BY <1>1, <1>2, <2>1, <2>2 DEF RatesKept, Writing, Written
  <1>5. CASE pllPc = "f" /\ Change([pll EXCEPT !.f = Config[6]], "q")
    <2>1. pll' = [pll EXCEPT !.f = Config[6]] /\ pllPc = "f" /\ pllPc' = "q"
      BY <1>5 DEF Change
    <2>2. DOMAIN pll' = PllFields /\ pll'.refsel = pll.refsel /\ pll'.f = Config[6] /\ pll'.r = pll.r
      BY <2>1 DEF RateIInv, PllFields
    <2>3. QED
      BY <1>1, <1>2, <1>3, <2>1, <2>2 DEF RatesKept, Writing, Written
  <1>6. CASE pllPc = "q" /\ Change([pll EXCEPT !.q = Config[7]], "outdiv")
    <2>1. pll' = [pll EXCEPT !.q = Config[7]] /\ pllPc = "q" /\ pllPc' = "outdiv"
      BY <1>6 DEF Change
    <2>2. /\ DOMAIN pll' = PllFields /\ pll'.refsel = pll.refsel
          /\ pll'.q = Config[7] /\ pll'.r = pll.r /\ pll'.f = pll.f
      BY <2>1 DEF RateIInv, PllFields
    <2>3. QED
      BY <1>1, <1>2, <1>3, <2>1, <2>2 DEF RatesKept, Writing, Written
  <1>7. CASE /\ pllPc = "outdiv" /\ pllPc' = "bypassOff"
             /\ pll' = IF Config[8] < 0 THEN [pll EXCEPT !.div1 = TRUE, !.div = 1]
                                        ELSE [pll EXCEPT !.div1 = FALSE, !.div = Config[8]]
    <2>1. /\ DOMAIN pll' = PllFields /\ pll'.refsel = pll.refsel
          /\ pll'.r = pll.r /\ pll'.f = pll.f /\ pll'.q = pll.q
          /\ Config[8] < 0 => pll'.div1
          /\ ~(Config[8] < 0) => ~pll'.div1 /\ pll'.div = Config[8]
      <3>1. CASE Config[8] < 0
        BY <1>7, <3>1 DEF RateIInv, PllFields
      <3>2. CASE ~(Config[8] < 0)
        BY <1>7, <3>2 DEF RateIInv, PllFields
      <3>3. QED
        BY <3>1, <3>2
    <2>2. QED
      BY <1>1, <1>2, <1>3, <1>7, <2>1 DEF RatesKept, Writing, Written
  <1>8. CASE pllPc = "bypassOff" /\ Change([pll EXCEPT !.bypass = FALSE], "ticks")
    <2>1. pll' = [pll EXCEPT !.bypass = FALSE] /\ pllPc = "bypassOff" /\ pllPc' = "ticks"
      BY <1>8 DEF Change
    <2>2. /\ DOMAIN pll' = PllFields
          /\ \A x \in PllFields \ {"bypass"} : pll'[x] = pll[x]
      BY <2>1 DEF RateIInv, PllFields
    <2>3. /\ pll'.refsel = pll.refsel /\ pll'.r = pll.r /\ pll'.f = pll.f /\ pll'.q = pll.q
          /\ pll'.div1 = pll.div1 /\ pll'.div = pll.div
      BY <2>2 DEF PllFields
    <2>4. QED
      BY <1>1, <1>2, <1>3, <2>1, <2>2, <2>3 DEF RatesKept, Writing, Written
  <1>9. QED
    BY <1>4, <1>5, <1>6, <1>7, <1>8 DEF ConfigurePll

\* The wait, the switch to the PLL, and the PLL itself.
LEMMA RateOtherStep ==
    ASSUME RateIInv, WaitTicks \/ WaitLock \/ Select \/ PllTick \/ PllLock \/ UNCHANGED pllVars
    PROVE  RateIInv'
  <1>1. CASE WaitTicks \/ WaitLock
    <2>1. /\ UNCHANGED <<pll, pllArg, pllBoot>>
          /\ pllPc \in {"ticks", "lock"} /\ pllPc' \in {"lock", "select"}
      BY <1>1 DEF WaitTicks, WaitLock
    <2>2. Chosen' => Chosen /\ Written'
      BY <2>1 DEF RateIInv, Chosen, Writing, Written, Config
    <2>3. QED
      BY <2>1, <2>2, ChosenKept DEF RatesKept, RateIInv
  <1>2. CASE Select
    <2>1. /\ UNCHANGED <<pllArg, pllBoot>> /\ pll' = [pll EXCEPT !.sel = TRUE]
          /\ pllPc = "select" /\ pllPc' \in {"boot", "idle"}
      BY <1>2 DEF Select
    <2>2. /\ DOMAIN pll' = PllFields
          /\ pll'.refsel = pll.refsel /\ pll'.bypass = pll.bypass /\ pll'.r = pll.r /\ pll'.f = pll.f
          /\ pll'.q = pll.q /\ pll'.div1 = pll.div1 /\ pll'.div = pll.div
      BY <2>1 DEF RateIInv, PllFields
    <2>3. Chosen' => Chosen /\ Written'
      BY <2>1, <2>2 DEF RateIInv, Chosen, Writing, Written, Config
    <2>4. pllBoot.left # 2
      BY <2>1 DEF RateIInv
    <2>5. QED
      BY <2>1, <2>2, <2>3, <2>4, ChosenKept DEF RatesKept
  <1>3. CASE PllTick \/ PllLock \/ UNCHANGED pllVars
    <2>1. UNCHANGED <<pll, pllPc, pllArg, pllBoot>>
      BY <1>3 DEF PllTick, PllLock, pllVars
    <2>2. InputRate(pll)' = InputRate(pll) /\ (Nearest(pllArg.index, pllArg.ref, pllArg.rate) =>
                                               Nearest(pllArg.index, pllArg.ref, pllArg.rate)')
      BY <2>1 DEF InputRate, PllSel0, PllRef, Nearest, ValidConfigs
    <2>3. (Chosen' => Chosen) /\ (Written => Written')
      BY <2>1 DEF Chosen, Writing, Written, Config
    <2>4. QED
      BY <2>1, <2>2, <2>3 DEF RateIInv
  <1>4. QED
    BY <1>1, <1>2, <1>3

\* With the rate changed, the registers tell it.
LEMMA RateIsTold == RateIInv => PllRateTold
  <1> SUFFICES ASSUME RateIInv, pllPc = "idle", pll.sel, ~pll.bypass
               PROVE  PllRateTold
    BY DEF PllRateTold
  <1> DEFINE ref == pllArg.ref
             c == Config
  <1>1. /\ ref \in Nat /\ ref = InputRate(pll) /\ Nearest(pllArg.index, ref, pllArg.rate) /\ Written
    BY DEF RateIInv, Chosen
  <1>2. Agrees(c)
    BY <1>1, TableAgrees DEF Nearest, ValidConfigs, Config
  <1>3. /\ c[5] \in 0..3 /\ c[6] \in 0..63 /\ c[7] \in 1..3 /\ c[8] \in (-1)..63
    BY <1>2 DEF Agrees
  <1>4. /\ pll.r = c[5] /\ pll.f = c[6] /\ pll.q = c[7]
        /\ c[8] < 0 => pll.div1
        /\ ~(c[8] < 0) => ~pll.div1 /\ pll.div = c[8]
    BY <1>1 DEF Written
  <1> HIDE DEF c, ref
  <1> DEFINE out == (((ref \div (c[5] + 1)) * (2 * (c[6] + 1))) \div DivQ(c[7]))
  <1>5. (out \div FinalDiv(c)) - ConfigFreq(ref, c) \in -64..64
    BY <1>1, <1>2, RowTold
  <1>6. GetRate(pll) = IF pll.div1 THEN out ELSE out \div (2 * (pll.div + 1))
    <2>1. pll.q # 0
      BY <1>3, <1>4
    <2>2. (((InputRate(pll) \div (pll.r + 1)) * (2 * (pll.f + 1))) \div DivQ(pll.q)) = out
      BY <1>1, <1>4
    <2> HIDE DEF out
    <2>3. QED
      BY <2>1, <2>2 DEF GetRate
  <1>7. out \in Int
    <2>1. DivQ(c[7]) \in {2, 4, 8}
      BY <1>3 DEF DivQ
    <2>2. (ref \div (c[5] + 1)) \in Nat /\ 2 * (c[6] + 1) \in Nat
      BY <1>1, <1>3
    <2>3. QED
      BY <2>1, <2>2
  <1> HIDE DEF out
  <1>8. GetRate(pll) = out \div FinalDiv(c)
    <2>1. CASE c[8] < 0
      BY <1>4, <1>6, <1>7, <2>1 DEF FinalDiv
    <2>2. CASE ~(c[8] < 0)
      BY <1>4, <1>6, <2>2 DEF FinalDiv
    <2>3. QED
      BY <2>1, <2>2
  <1>9. QED
    BY <1>1, <1>5, <1>8 DEF PllRateTold, Nearest, c, ref, Config

\* PllSoundHolds: the core runs from the PLL only when it has settled, and the rate that
\* the registers tell after a rate change is the one of the valid configuration nearest
\* to the rate asked for, whatever rates are asked for, with whatever oscillators.
THEOREM PllSoundHolds ==
    SettleTicks <= PLL_LOCK_WAIT_TICKS + 1 => (PllSpec => []PllSound)
  <1> SUFFICES ASSUME SettleTicks <= PLL_LOCK_WAIT_TICKS + 1
               PROVE  PllSpec => []PllSound
    OBVIOUS
  <1>1. RateIInv /\ [PllNext]_pllVars => RateIInv'
    BY RateBeginStep, RateChooseStep, RateConfigureStep, RateOtherStep DEF PllNext
  <1>2. PllSpec => []PllStable
    BY PllStableHolds
  <1>3. PllSound <=> PllStable /\ PllRateTold
    BY DEF PllSound
  <1>4. QED
    BY <1>1, <1>2, <1>3, RateInit, RateIsTold, PTL DEF PllSpec

-----------------------------------------------------------------------------
\* Devices, where the units are side by side.

\* A step of Devices is a step of each unit, or none.
LEMMA UnitSteps ==
    [Next]_vars => /\ [WdogNext]_wdogVars /\ [PllNext]_pllVars /\ [PmpNext]_pmpVars
                   /\ [HpmNext]_hpmVars /\ [ClicNext]_clicVars /\ [GpioNext]_gpioVars
                   /\ [BeuNext]_beuVars /\ [CacheNext]_cacheVars /\ [LineNext]_lineVars
                   /\ [RtcNext]_rtcVars
  <1> SUFFICES ASSUME [Next]_vars
               PROVE  /\ [WdogNext]_wdogVars /\ [PllNext]_pllVars /\ [PmpNext]_pmpVars
                      /\ [HpmNext]_hpmVars /\ [ClicNext]_clicVars /\ [GpioNext]_gpioVars
                      /\ [BeuNext]_beuVars /\ [CacheNext]_cacheVars /\ [LineNext]_lineVars
                      /\ [RtcNext]_rtcVars
    OBVIOUS
  <1>1. CASE UNCHANGED vars
    BY <1>1 DEF vars
  <1>2. CASE Next
    <2>1. ASSUME NEW u \in Units, Others(u)
          PROVE  /\ (u # "watchdog" => UNCHANGED wdogVars) /\ (u # "pll" => UNCHANGED pllVars)
                 /\ (u # "pmp" => UNCHANGED pmpVars) /\ (u # "counters" => UNCHANGED hpmVars)
                 /\ (u # "clic" => UNCHANGED clicVars) /\ (u # "gpio" => UNCHANGED gpioVars)
                 /\ (u # "buserror" => UNCHANGED beuVars) /\ (u # "caches" => UNCHANGED cacheVars)
                 /\ (u # "lines" => UNCHANGED lineVars) /\ (u # "rtc" => UNCHANGED rtcVars)
      BY <2>1 DEF Others
    <2>2. QED
      BY <1>2 DEF Next, Others
  <1>3. QED
    BY <1>1, <1>2

\* A behaviour of Devices is one of every unit.
LEMMA UnitSpecs ==
    Spec => /\ WdogSpec /\ PllSpec /\ PmpSpec /\ HpmSpec /\ ClicSpec /\ GpioSpec /\ BeuSpec
            /\ CacheSpec /\ LineSpec /\ RtcSpec
  <1>1. Init => /\ WdogInit /\ PllInit /\ PmpInit /\ HpmInit /\ ClicInit /\ GpioInit /\ BeuInit
                /\ CacheInit /\ LineInit /\ RtcInit
    BY DEF Init
  <1>2. QED
    BY <1>1, UnitSteps, PTL DEF Spec, WdogSpec, PllSpec, PmpSpec, HpmSpec, ClicSpec, GpioSpec, BeuSpec,
                                CacheSpec, LineSpec, RtcSpec

\* DevicesHold: what is proved of the units by themselves holds of all of them side
\* by side, under the hypotheses of each.
THEOREM DevicesHold ==
    ASSUME PmpXlen = 32, SettleTicks <= PLL_LOCK_WAIT_TICKS + 1, WaysAsked \subseteq 1..257,
           ~FaultsVectored, \A c \in RtcCompares : c < RtcWord * 4294967296
    PROVE  Spec => /\ WdogNotEarly /\ PmpOthersKept /\ HpmReadsTrue /\ ClicLands
                   /\ [](PllSound /\ TimesExact /\ GpioThreadKept /\ BeuQuiet /\ LimKept
                        /\ LandsAsAsked /\ RtcNeverLate)
  <1>1. PmpSpec => PmpOthersKept
    BY PmpOthersKeptHolds
  <1>2. PllSpec => []PllSound
    BY PllSoundHolds
  <1>3. CacheSpec => []LimKept
    BY LimKeptHolds
  <1>4. LineSpec => []LandsAsAsked
    BY LandsAsAskedHolds
  <1>5. RtcSpec => []RtcNeverLate
    BY RtcNeverLateHolds
  <1>6. QED
    BY <1>1, <1>2, <1>3, <1>4, <1>5, UnitSpecs, WdogNotEarlyHolds, HpmReadsTrueHolds, ClicLandsHolds,
       TimesExactHolds, GpioThreadKeptHolds, BeuQuietHolds, PTL
=============================================================================

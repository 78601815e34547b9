-------------------------------- MODULE Pmp --------------------------------
(* Physical memory protection (pmp.c) of one hart.  A configuration is the    *)
(* set of its bits that are 1; A0 and A1 are the two bits of the address      *)
(* mode.  The configurations of four regions (eight on a 64-bit hart) share a *)
(* register.  No write changes a region that is locked, nor the address below *)
(* a locked top-of-range region.                                              *)
EXTENDS Integers

CONSTANTS
    PmpXlen,     \* width of a register: 32 or 64
    PmpNum,      \* number of regions of the hart
    PmpAddrs,    \* the addresses it sets, of 3 bits
    PmpGrain,    \* bits of an address that read as 0 while the region is off
    PmpAsked,    \* the regions the application sets
    PmpConfigs,  \* the configurations it sets
    PmpMaxCalls  \* bound: calls

ASSUME PmpAssumption == /\ PmpXlen \in {32, 64}
                        /\ PmpNum \in Nat \ {0} /\ PmpMaxCalls \in Nat
                        /\ PmpAddrs \subseteq 0..(2^3 - 1) /\ PmpGrain \in 0..2
                        /\ PmpAsked \subseteq Nat

VARIABLES
    pmpCfg,    \* configuration of every region
    pmpAddr,   \* address register of every region
    pmpGran,   \* granularity metal_pmp_init has detected, 0 before
    pmpRet,    \* region, configuration, address and result of the last call
    pmpCalls   \* calls so far

pmpVars == <<pmpCfg, pmpAddr, pmpGran, pmpRet, pmpCalls>>

Regions == 0..(PmpNum - 1)
PmpBits == {"R", "W", "X", "A0", "A1", "pad", "L"}
PmpOff == {}
TOR == {"A0"}
NA4 == {"A1"}
NAPOT == {"A0", "A1"}
ModeOf(cfg) == cfg \cap {"A0", "A1"}

NoCall == [region |-> 0, cfg |-> PmpOff, addr |-> 0, rc |-> 1]

PmpInit == /\ pmpCfg = [r \in Regions |-> PmpOff]
           /\ pmpAddr = [r \in Regions |-> 0]
           /\ pmpGran = 0 /\ pmpRet = NoCall /\ pmpCalls = 0

----------------------------------------------------------------------------
\* The hardware.  An address reads without its lowest bits unless it is NAPOT.
PmpRead(a, cfg) == IF ModeOf(cfg) = NAPOT THEN a ELSE a - (a % (2^PmpGrain))
Locked(cfg, r) == r \in Regions /\ "L" \in cfg[r]
AddrLocked(cfg, r) == Locked(cfg, r) \/ (Locked(cfg, r + 1) /\ ModeOf(cfg[r + 1]) = TOR)
AddrWritten(regs, r, a) ==
    IF r \in Regions /\ ~AddrLocked(regs.cfg, r) 
      THEN [regs EXCEPT !.addr = [s \in Regions |-> IF s = r THEN a ELSE @[s]]] ELSE regs

\* csrc of the mask and csrs of the value: both give a set of bits per region.
CfgWritten(regs, mask, value) ==
    [regs EXCEPT !.cfg = [r \in Regions |-> IF Locked(@, r) THEN @[r]
                                            ELSE (@[r] \ mask[r]) \cup value[r]]]

\* The mask and the value are shifted as 32-bit integers.  On a 64-bit hart the
\* shift takes the low five bits of its distance, and bit 31 of what comes out
\* is copied to the upper half of the register.
Byte(r) == IF PmpXlen = 32 THEN r % 4 ELSE (r % 8) % 4
SameWord(r, s) == IF PmpXlen = 32 THEN r \div 4 = s \div 4 ELSE r \div 8 = s \div 8
\* Mutation of Spread: a mask for all the regions of the register.
SpreadWide(r, bits) == [s \in Regions |-> IF SameWord(r, s) THEN bits ELSE {}]

Spread(r, bits) ==
    [s \in Regions |->
        IF ~SameWord(r, s) THEN {}
        ELSE IF (IF PmpXlen = 32 THEN s % 4 ELSE s % 8) = Byte(r) THEN bits
        ELSE IF PmpXlen = 64 /\ (s % 8) >= 4 /\ Byte(r) = 3 /\ "L" \in bits THEN PmpBits
        ELSE {}]

\* _get_pmpaddr_granularity: the lowest bit that is 0; there is none in an
\* address of all ones, for which the loop does not end.
AllOnes == 2^3 - 1
Bit(a, i) == (a \div 2^i) % 2
LowestBit(a, v) == CHOOSE i \in 0..2 : Bit(a, i) = v /\ \A j \in 0..(i - 1) : Bit(a, j) # v
AddrGranularity(a) == 2^(LowestBit(a, 0) + 3)

\* _get_detected_granularity, from the lowest bit that is 1.
DetectedGranularity(a) == IF a = 0 THEN 2^30 ELSE 2^(LowestBit(a, 1) + 2)

----------------------------------------------------------------------------
\* metal_pmp_get_region, for a region that may be one too large.
GetConfig(regs, r) == IF r \in Regions THEN regs.cfg[r] ELSE PmpOff
GetAddress(regs, r) == IF r \in Regions THEN PmpRead(regs.addr[r], regs.cfg[r]) ELSE 0

\* metal_pmp_set_region: result, and the registers afterwards.
TooSmall(cfg, a) == \/ ModeOf(cfg) = NA4 /\ pmpGran > 4
                    \/ ModeOf(cfg) = NAPOT /\ pmpGran > AddrGranularity(a)
Refused(regs, r, cfg, a) == IF r > PmpNum THEN 2
                            ELSE IF TooSmall(cfg, a) THEN 3
                            ELSE IF "L" \in GetConfig(regs, r) THEN 4 ELSE 0

WithAddr(regs, r, a) == IF GetAddress(regs, r) # a THEN AddrWritten(regs, r, a) ELSE regs
WithCfg(regs, r, cfg) ==
    IF GetConfig(regs, r) # cfg /\ r \in Regions
      THEN CfgWritten(regs, Spread(r, PmpBits), Spread(r, cfg)) ELSE regs

RegionWritten(regs, r, cfg, a) == WithCfg(WithAddr(regs, r, a), r, cfg)
SetRegion(regs, r, cfg, a) ==
    IF Refused(regs, r, cfg, a) = 0 THEN RegionWritten(regs, r, cfg, a) ELSE regs

PmpRegs == [cfg |-> pmpCfg, addr |-> pmpAddr]

PmpSet(r, cfg, a) ==
    /\ pmpCalls < PmpMaxCalls
    /\ ModeOf(cfg) = NAPOT => a # AllOnes
    /\ LET regs == SetRegion(PmpRegs, r, cfg, a)
       IN  pmpCfg' = regs.cfg /\ pmpAddr' = regs.addr
    /\ pmpRet' = [region |-> r, cfg |-> cfg, addr |-> a, rc |-> Refused(PmpRegs, r, cfg, a)]
    /\ pmpCalls' = pmpCalls + 1
    /\ UNCHANGED pmpGran

\* metal_pmp_lock, set_address, set_address_mode, set_executable, set_writeable
\* and set_readable: read the region, change one part and set it again.
PmpModify(r) ==
    LET cfg == GetConfig(PmpRegs, r)
        a == GetAddress(PmpRegs, r)
    IN  \/ "L" \notin cfg /\ PmpSet(r, cfg \cup {"L"}, a)
        \/ \E b \in PmpAddrs : PmpSet(r, cfg, b)
        \/ \E mode \in {PmpOff, TOR, NA4, NAPOT} : PmpSet(r, (cfg \ NAPOT) \cup mode, a)
        \/ \E bit \in {"R", "W", "X"} : \/ PmpSet(r, cfg \cup {bit}, a)
                                        \/ PmpSet(r, cfg \ {bit}, a)

\* metal_pmp_init sets every region to off, and finds the granularity by
\* writing all ones to the first address register and clearing it again.
ClearedUpTo[n \in 0..PmpNum] ==
    IF n = 0 THEN PmpRegs ELSE SetRegion(ClearedUpTo[n - 1], n - 1, PmpOff, 0)
PmpInitialise ==
    LET cleared == ClearedUpTo[PmpNum]
        ones == SetRegion(cleared, 0, GetConfig(cleared, 0), AllOnes)
        regs == SetRegion(ones, 0, GetConfig(ones, 0), 0)
        refused == Refused(cleared, 0, GetConfig(cleared, 0), AllOnes) # 0
    IN  /\ pmpCalls < PmpMaxCalls
        /\ ModeOf(GetConfig(cleared, 0)) # NAPOT
        /\ pmpCalls' = pmpCalls + 1
        /\ pmpCfg' = regs.cfg /\ pmpAddr' = regs.addr
        /\ pmpGran' = IF refused THEN pmpGran ELSE DetectedGranularity(GetAddress(ones, 0))
        /\ pmpRet' = NoCall

PmpNext == \/ \E r \in PmpAsked, cfg \in PmpConfigs, a \in PmpAddrs : PmpSet(r, cfg, a)
           \/ \E r \in PmpAsked : PmpModify(r)
           \/ PmpInitialise

PmpSpec == PmpInit /\ [][PmpNext]_pmpVars

----------------------------------------------------------------------------
\* PmpOthersKept: setting a region changes no other one, whichever share its
\* register ("The PMP region to configure", and no other).
PmpOthersKept ==
    [][pmpRet'.rc = 0 =>
         \A r \in Regions \ {pmpRet'.region} :
             pmpCfg'[r] = pmpCfg[r] /\ pmpAddr'[r] = pmpAddr[r]]_pmpVars
============================================================================

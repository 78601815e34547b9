------------------------------- MODULE Caches -------------------------------
(* The level 2 cache (sifive_ccache0.c), whose memory is shared with the LIM,  *)
(* and the level 1 data caches (cache.c).  Ways of the level 2 cache can be    *)
(* enabled, never disabled; what a way holds as LIM is lost when it becomes    *)
(* cache.                                                                      *)
EXTENDS Integers, FiniteSets

CONSTANTS
    L2Ways,      \* ways the cache has
    WaySize,     \* block_size * num_sets * num_bank
    LimSizes,    \* sizes of the LIM segment the linker may leave
    WaysAsked,   \* numbers of ways the application asks for
    L2Registers, L2Masks, \* way masks, event selectors and client filter; their values
    CacheHarts, CachedHarts, \* harts; those with a data cache
    CacheLines,  \* addresses of cache lines
    CacheMaxCalls \* bound: calls

ASSUME CachesAssumption ==
    /\ L2Ways \in 1..256 /\ WaySize \in Nat \ {0}
    /\ LimSizes \subseteq 0..(L2Ways * WaySize)
    /\ WaysAsked \subseteq 1..300 /\ CachedHarts \subseteq CacheHarts
    /\ CacheMaxCalls \in Nat

VARIABLES
    l2Lim,      \* size of the LIM segment; -1 before it is known
    l2Index,    \* WAYENABLE
    l2Asked,    \* the most ways the application was granted
    l2Answer,   \* the last call of set_enabled_ways and its answer
    l2Mask,     \* the other registers
    l1Dirty,    \* dirty lines of every hart's data cache
    cacheMie,   \* the harts with interrupts enabled
    cacheCalls

cacheVars == <<l2Lim, l2Index, l2Asked, l2Answer, l2Mask, l1Dirty, cacheMie, cacheCalls>>
l2Vars == <<l2Lim, l2Index, l2Asked, l2Answer, l2Mask>>
l1Vars == <<l1Dirty, cacheMie>>

CacheInit ==
    /\ l2Lim = -1 /\ l2Index = 0 /\ l2Asked = 0 /\ l2Answer = [ways |-> 0, answer |-> 0]
    /\ l2Mask = [r \in L2Registers |-> "reset"]
    /\ l1Dirty = [h \in CacheHarts |-> {}] /\ cacheMie = CacheHarts
    /\ cacheCalls = 0

CacheCall == cacheCalls < CacheMaxCalls /\ cacheCalls' = cacheCalls + 1

----------------------------------------------------------------------------
\* sifive_ccache0_get_enabled_ways.
EnabledWays(index) == (index % 256) + 1

\* What the hardware makes of a write of WAYENABLE.
Written8(index, value) == IF value \in index..(L2Ways - 1) THEN value ELSE index

\* sifive_ccache0_set_enabled_ways.
SetEnabledWays(ways) ==
    IF EnabledWays(l2Index) > ways
    THEN l2Answer' = [ways |-> ways, answer |-> -1] /\ UNCHANGED l2Index
    ELSE /\ l2Index' = Written8(l2Index, (ways - 1) % 256)
         /\ l2Answer' = [ways |-> ways,
                         answer |-> IF EnabledWays(l2Index') # ways THEN -2 ELSE 0]

\* Mutation of WaysBeside: only whole ways counted.
WaysBesideWhole(lim) == L2Ways - (lim \div WaySize)

\* sifive_ccache0_init, a constructor: the ways that hold LIM are left out.
WaysBeside(lim) == L2Ways - ((lim + (WaySize - 1)) \div WaySize)
L2Init(lim) ==
    /\ l2Lim = -1 /\ l2Lim' = lim
    /\ SetEnabledWays(WaysBeside(lim))
    /\ UNCHANGED <<l2Asked, l2Mask, l1Vars, cacheCalls>>

\* metal_l2cache_init again, and metal_l2cache_set_enabled_ways.
L2InitAgain ==
    /\ l2Lim >= 0 /\ CacheCall
    /\ SetEnabledWays(WaysBeside(l2Lim))
    /\ UNCHANGED <<l2Lim, l2Asked, l2Mask, l1Vars>>
L2SetWays(ways) ==
    /\ l2Lim >= 0 /\ CacheCall
    /\ SetEnabledWays(ways)
    /\ l2Asked' = IF l2Answer'.answer = 0 /\ ways > l2Asked THEN ways ELSE l2Asked
    /\ UNCHANGED <<l2Lim, l2Mask, l1Vars>>

\* sifive_ccache0_set_way_mask, _set_pmevent_selector and _set_client_filter.
L2SetMask(r, mask) ==
    /\ l2Lim >= 0 /\ CacheCall /\ l2Mask' = [l2Mask EXCEPT ![r] = mask]
    /\ UNCHANGED <<l2Lim, l2Index, l2Asked, l2Answer, l1Vars>>

----------------------------------------------------------------------------
\* A hart's store into a line of its data cache.
L1Store(h, line) ==
    /\ h \in CachedHarts /\ line \notin l1Dirty[h]
    /\ l1Dirty' = [l1Dirty EXCEPT ![h] = @ \cup {line}]
    /\ UNCHANGED <<l2Vars, cacheMie, cacheCalls>>

\* metal_dcache_l1_flush and metal_dcache_l1_discard by hart `me` for hartid h:
\* all lines, or one.  The instruction acts on the data cache of `me`; with an
\* address a trap skips it and leaves interrupts disabled, which is an interrupt,
\* or the instruction itself on a hart without a data cache.
L1All(me, h) ==
    /\ CacheCall /\ {me, h} \subseteq CachedHarts
    /\ l1Dirty' = [l1Dirty EXCEPT ![me] = {}]
    /\ UNCHANGED <<l2Vars, cacheMie>>
L1Line(me, h, line) ==
    /\ CacheCall
    /\ \/ h \notin CachedHarts /\ UNCHANGED l1Vars
       \/ /\ {me, h} \subseteq CachedHarts
          /\ l1Dirty' = [l1Dirty EXCEPT ![me] = @ \ {line}]
          /\ UNCHANGED cacheMie
       \/ /\ h \in CachedHarts /\ (me \in CachedHarts => me \in cacheMie)
          /\ cacheMie' = cacheMie \ {me}
          /\ UNCHANGED l1Dirty
    /\ UNCHANGED l2Vars

CacheNext ==
    \/ \E lim \in LimSizes : L2Init(lim)
    \/ L2InitAgain
    \/ \E ways \in WaysAsked : L2SetWays(ways)
    \/ \E r \in L2Registers, mask \in L2Masks : L2SetMask(r, mask)
    \/ \E me \in CacheHarts, line \in CacheLines :
        \/ L1Store(me, line)
        \/ \E h \in CacheHarts : L1All(me, h) \/ L1Line(me, h, line)

CacheSpec == CacheInit /\ [][CacheNext]_cacheVars

----------------------------------------------------------------------------
\* LimKept: no byte of the LIM lies in a way that is cache, unless the
\* application was granted that way or the LIM takes way 0, which is always
\* enabled; and the answer 0 means as many ways as were asked.
LimKept ==
    /\ LET own == (L2Ways - EnabledWays(l2Index)) * WaySize
       IN  l2Lim <= own \/ EnabledWays(l2Index) <= l2Asked \/ l2Index = 0
    /\ (l2Answer.answer = 0 /\ l2Answer.ways > 0) => EnabledWays(l2Index) = l2Answer.ways
============================================================================

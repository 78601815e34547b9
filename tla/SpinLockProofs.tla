--------------------------- MODULE SpinLockProofs ---------------------------
(***************************************************************************)
(* Proofs about the spin lock, for any set of harts, any choice of harts   *)
(* whose interrupt handlers share the lock, and any bound on the back-off. *)
(***************************************************************************)
EXTENDS SpinLock, TLAPS

\* The initial state satisfies the inductive invariant.
LEMMA InitIInv == Init => IInv
  <1> SUFFICES ASSUME Init
               PROVE IInv
    OBVIOUS
  <1> USE BackoffPositive DEF Init
  <1>1. TypeOK
    BY DEF TypeOK, NotCalled
  <1>2. MutualExclusion /\ NotLeaked /\ FreeWordFree /\ Holders = {}
    BY DEF MutualExclusion, NotLeaked, FreeWordFree, Holders
  <1>3. BackoffBounded
    BY DEF BackoffBounded
  <1>4. QED
    BY <1>1, <1>2, <1>3 DEF IInv

\* Every step preserves the inductive invariant: the swap is the only step
\* that makes a holder, and it does so only when the word was 0, that is when
\* by FreeWordFree there was none.  A failed swap leaves a word of 1 to the
\* holder it has by NotLeaked, and the give, whose context is by
\* MutualExclusion the only holder, leaves a word of 0 and nobody.
LEMMA NextIInv == IInv /\ [Next]_vars => IInv'
  <1> SUFFICES ASSUME IInv, [Next]_vars
               PROVE IInv'
    OBVIOUS
  <1> USE BackoffPositive
  <1>1. CASE LockInit
    <2>1. TypeOK'
      BY <1>1 DEF LockInit, build, IInv, TypeOK, InitCode, NotCalled
    <2>2. Holders = {} /\ Holders' = {} /\ word' = 0
      BY <1>1 DEF LockInit, IInv, TypeOK, Holders, NotLeaked
    <2>3. MutualExclusion' /\ NotLeaked' /\ FreeWordFree'
      BY <1>1, <2>2 DEF LockInit, IInv, MutualExclusion, NotLeaked, FreeWordFree
    <2>4. BackoffBounded'
      BY <1>1 DEF LockInit, IInv, BackoffBounded
    <2>5. QED
      BY <1>1, <2>1, <2>2, <2>3, <2>4 DEF LockInit, IInv, InitCode, NotCalled
  <1>2. ASSUME NEW c \in Contexts, TakeCall(c)
        PROVE IInv'
    <2>1. TypeOK'
      BY <1>2 DEF TakeCall, build, IInv, TypeOK
    <2>2. Holders' = Holders
      BY <1>2 DEF TakeCall, IInv, TypeOK, Holders
    <2>3. MutualExclusion'
      BY <1>2 DEF TakeCall, IInv, TypeOK, MutualExclusion
    <2>4. BackoffBounded'
      BY <1>2 DEF TakeCall, IInv, TypeOK, BackoffBounded
    <2>5. QED
      BY <1>2, <2>1, <2>2, <2>3, <2>4
         DEF TakeCall, build, IInv, NotLeaked, FreeWordFree
  <1>3. ASSUME NEW c \in Contexts, Swap(c)
        PROVE IInv'
    <2>1. TypeOK'
      BY <1>3 DEF Swap, build, IInv, TypeOK
    <2>2. word = 0 => \A d \in Contexts : pc'[d] = "held" <=> d = c
      BY <1>3 DEF Swap, IInv, TypeOK, FreeWordFree, Holders
    <2>3. word # 0 => \A d \in Contexts : pc'[d] = "held" <=> pc[d] = "held"
      BY <1>3 DEF Swap, IInv, TypeOK
    <2>4. MutualExclusion'
      BY <2>2, <2>3 DEF IInv, MutualExclusion
    <2>5. \E d \in Contexts : pc'[d] = "held"
      <3>1. CASE word = 0
        BY <3>1, <2>2
      <3>2. CASE word # 0
        BY <3>2, <2>3 DEF IInv, TypeOK, NotLeaked, Holders
      <3>3. QED
        BY <3>1, <3>2
    <2>6. NotLeaked' /\ FreeWordFree'
      BY <1>3, <2>5 DEF Swap, NotLeaked, FreeWordFree, Holders
    <2>7. QED
      BY <1>3, <2>1, <2>4, <2>6 DEF Swap, build, IInv, BackoffBounded
  <1>4. ASSUME NEW c \in Contexts, Spin(c)
        PROVE IInv'
    <2>1. TypeOK'
      BY <1>4 DEF Spin, build, IInv, TypeOK
    <2>2. Holders' = Holders
      BY <1>4 DEF Spin, IInv, TypeOK, Holders
    <2>3. MutualExclusion'
      BY <1>4 DEF Spin, IInv, TypeOK, MutualExclusion
    <2>4. BackoffBounded'
      BY <1>4 DEF Spin, IInv, TypeOK, BackoffBounded
    <2>5. initCode # NotCalled
      BY <1>4 DEF Spin, IInv
    <2>6. QED
      BY <1>4, <2>1, <2>2, <2>3, <2>4, <2>5
         DEF Spin, build, IInv, NotLeaked, FreeWordFree
  <1>5. ASSUME NEW c \in Contexts,
               BusFault(c) \/ BusFaultReturn(c) \/ TrapTake(c) \/ TakeRefused(c)
        PROVE IInv'
    <2> USE DEF BusFault, BusFaultReturn, TrapTake, TakeRefused, build
    <2>1. TypeOK'
      BY <1>5 DEF IInv, TypeOK
    <2>2. Holders' = Holders
      BY <1>5 DEF IInv, TypeOK, Holders
    <2>3. MutualExclusion'
      BY <1>5 DEF IInv, TypeOK, MutualExclusion
    <2>4. initCode # NotCalled
      BY <1>5 DEF IInv
    <2>5. QED
      BY <1>5, <2>1, <2>2, <2>3, <2>4
         DEF IInv, NotLeaked, FreeWordFree, BackoffBounded
  <1>6. ASSUME NEW c \in Contexts, Give(c)
        PROVE IInv'
    <2>1. TypeOK'
      BY <1>6 DEF Give, build, IInv, TypeOK
    <2>2. \A d \in Contexts : pc'[d] # "held"
      BY <1>6 DEF Give, IInv, TypeOK, MutualExclusion
    <2>3. initCode # NotCalled
      BY <1>6 DEF Give, IInv
    <2>4. QED
      BY <1>6, <2>1, <2>2, <2>3 DEF Give, IInv, MutualExclusion,
         NotLeaked, FreeWordFree, BackoffBounded, Holders
  <1>7. CASE UNCHANGED vars
    BY <1>7 DEF vars, build, IInv, TypeOK, MutualExclusion, NotLeaked,
       BackoffBounded, FreeWordFree, Holders
  <1>8. QED
    BY <1>1, <1>2, <1>3, <1>4, <1>5, <1>6, <1>7 DEF Next

\* The inductive invariant holds in every reachable state.
LEMMA SpecIInv == Spec => []IInv
  BY InitIInv, NextIInv, PTL DEF Spec

\* lock->_state, the locals of metal_lock_take and the return code of
\* metal_lock_init keep their types.
THEOREM TypeCorrect == Spec => []TypeOK
  BY SpecIInv, PTL DEF IInv

\* At most one context is between metal_lock_take and metal_lock_give.
THEOREM LockExcludes == Spec => []MutualExclusion
  BY SpecIInv, PTL DEF IInv

\* A word of 1 always has a holder who will give it back: failed exchanges,
\* refusals and faults of the other contexts never leave the lock taken by nobody.
THEOREM LockNeverLeaked == Spec => []NotLeaked
  BY SpecIInv, PTL DEF IInv

\* The delay of metal_lock_take stays below twice max_backoff.
THEOREM DelayBounded == Spec => []BackoffBounded
  BY SpecIInv, PTL DEF IInv

-----------------------------------------------------------------------------
(***************************************************************************)
(* Refinement: a successful swap is the abstract acquisition, a give is    *)
(* the abstract release, every other step leaves the holders alone.        *)
(***************************************************************************)

\* A step of the lock is a step of the mutex or leaves its holders unchanged.
LEMMA StepRefines == IInv /\ [Next]_vars => [Abstract!Next]_Holders
  <1> SUFFICES ASSUME IInv, [Next]_vars
               PROVE (\E c \in Contexts : Abstract!Acquire(c) \/ Abstract!Release(c))
                     \/ Holders' = Holders
    BY DEF Abstract!Next
  <1> USE DEF IInv, TypeOK
  <1>1. CASE LockInit
    BY <1>1 DEF LockInit, Holders
  <1>2. ASSUME NEW c \in Contexts,
               \/ TakeCall(c) \/ Spin(c)
               \/ BusFault(c) \/ BusFaultReturn(c) \/ TrapTake(c) \/ TakeRefused(c)
        PROVE Holders' = Holders
    BY <1>2 DEF TakeCall, Spin, BusFault, BusFaultReturn, TrapTake, TakeRefused, Holders
  <1>3. ASSUME NEW c \in Contexts, Swap(c)
        PROVE Abstract!Acquire(c) \/ Holders' = Holders
    <2>1. CASE word = 0
      <3>1. Holders = {} /\ Holders' = {c}
        BY <1>3, <2>1 DEF Swap, Holders, FreeWordFree
      <3>2. QED
        BY <3>1 DEF Abstract!Acquire
    <2>2. CASE word # 0
      BY <1>3, <2>2 DEF Swap, Holders
    <2>3. QED
      BY <2>1, <2>2
  <1>4. ASSUME NEW c \in Contexts, Give(c)
        PROVE Abstract!Release(c)
    <2>1. Holders = {c} /\ Holders' = {}
      BY <1>4 DEF Give, Holders, MutualExclusion
    <2>2. QED
      BY <2>1 DEF Abstract!Release
  <1>5. CASE UNCHANGED vars
    BY <1>5 DEF vars, Holders
  <1>6. QED
    BY <1>1, <1>2, <1>3, <1>4, <1>5 DEF Next

\* The spin lock implements the abstract mutex.
THEOREM LockRefinesMutex == Spec => ImplementsMutex
  <1>1. Init => Abstract!Init
    BY DEF Init, Abstract!Init, Holders
  <1>2. QED
    BY <1>1, SpecIInv, StepRefines, PTL DEF Spec, ImplementsMutex, Abstract!Spec
=============================================================================

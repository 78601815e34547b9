------------------------------ MODULE SpinLock ------------------------------
(***************************************************************************)
(* The software lock of metal/include/metal/lock.h: one word of memory,    *)
(* taken with amoswap.w.aq in a loop with exponential back-off and given   *)
(* back with amoswap.w.rl.                                                 *)
(*                                                                         *)
(* The lock is shared by the thread of every hart and, on the harts in     *)
(* Handlers, by an interrupt handler that preempts the thread of its hart  *)
(* and runs to completion before the thread goes on.                       *)
(***************************************************************************)
EXTENDS Naturals

CONSTANTS
    Harts,          \* the harts whose threads use the lock
    Handlers,       \* the harts whose interrupt handler uses it too
    MaxBackoff      \* max_backoff of metal_lock_take

ASSUME HandlersAreHarts == Handlers \subseteq Harts
ASSUME BackoffPositive == MaxBackoff \in Nat \ {0}

Thread(h)  == <<h, "thread">>
Handler(h) == <<h, "handler">>
Contexts   == {Thread(h) : h \in Harts} \cup {Handler(h) : h \in Handlers}

\* What the generated memory table says of the lock's address: no entry, an
\* entry without the A attribute, an entry with it.
TableSays == {"nothing", "noamo", "amo"}

NotCalled == 4      \* metal_lock_init has not been called yet

VARIABLES
    isa,            \* compiled for harts with the A extension
    table,          \* what the memory table says of the lock
    amo,            \* the memory does exchange words atomically
    initCode,       \* what metal_lock_init returned
    word,           \* lock->_state
    pc,             \* where each context is
    backoff         \* the local variable of metal_lock_take

build == <<isa, table, amo>>
vars == <<build, initCode, word, pc, backoff>>

Init ==
    /\ isa \in BOOLEAN /\ table \in TableSays /\ amo \in BOOLEAN
    /\ initCode = NotCalled
    /\ word = 0             \* .data.locks is copied from the image by crt0
    /\ pc = [c \in Contexts |-> "idle"]
    /\ backoff = [c \in Contexts |-> 1]

\* The thread of a hart does not run while the handler of that hart does.
Runs(c) == \A h \in Handlers : c = Thread(h) => pc[Handler(h)] = "idle"

-----------------------------------------------------------------------------

\* What metal_lock_init returns: it asks the compiler and the table, and never
\* tries the memory.
InitCode == CASE ~isa -> 3
              [] isa /\ table = "nothing" -> 1
              [] isa /\ table = "noamo" -> 2
              [] OTHER -> 0

\* Mutation of LockInit: the word is reset at any time, also while it is held.
LockInitAgain ==
    /\ initCode' = InitCode
    /\ word' = IF InitCode = 0 THEN 0 ELSE word
    /\ UNCHANGED <<build, pc, backoff>>

(***************************************************************************)
(* metal_lock_init.  It is called once, before the lock is shared: the     *)
(* function stores 0 whatever the word holds.                              *)
(***************************************************************************)
LockInit ==
    /\ initCode = NotCalled
    /\ initCode' = InitCode
    /\ word' = IF InitCode = 0 THEN 0 ELSE word
    /\ UNCHANGED <<build, pc, backoff>>

\* metal_lock_take is called, whatever metal_lock_init answered.
TakeCall(c) ==
    /\ initCode # NotCalled
    /\ Runs(c)
    /\ pc[c] = "idle"
    /\ pc' = [pc EXCEPT ![c] = "swap"]
    /\ backoff' = [backoff EXCEPT ![c] = 1]
    /\ UNCHANGED <<build, initCode, word>>

\* Mutation of Swap: the old value is not tested.
SwapCareless(c) ==
    /\ Runs(c) /\ pc[c] = "swap" /\ isa /\ amo
    /\ word' = 1
    /\ pc' = [pc EXCEPT ![c] = "held"]
    /\ UNCHANGED <<build, initCode, backoff>>

\* One amoswap.w.aq of the loop, where the memory can do it: the word becomes 1
\* and the old value decides.
Swap(c) ==
    /\ Runs(c)
    /\ pc[c] = "swap"
    /\ isa /\ amo
    /\ word' = 1
    /\ pc' = [pc EXCEPT ![c] = IF word = 0 THEN "held" ELSE "spin"]
    /\ UNCHANGED <<build, initCode, backoff>>

\* Mutations of Spin: the 1 of a failed exchange is stored after the delay only,
\* as if load and store were two instructions; the delay is never followed by
\* another swap.
SpinStoresLate(c) ==
    /\ Runs(c) /\ pc[c] = "spin"
    /\ word' = 1
    /\ pc' = [pc EXCEPT ![c] = "swap"]
    /\ UNCHANGED <<build, initCode, backoff>>

SpinForever(c) ==
    /\ Runs(c) /\ pc[c] = "spin"
    /\ UNCHANGED vars

\* The delay loop, then the doubling of backoff while it is below max_backoff.
Spin(c) ==
    /\ Runs(c)
    /\ pc[c] = "spin"
    /\ pc' = [pc EXCEPT ![c] = "swap"]
    /\ backoff' = [backoff EXCEPT ![c] = IF @ < MaxBackoff THEN 2 * @ ELSE @]
    /\ UNCHANGED <<build, initCode, word>>

\* The memory refuses the amoswap: the bus raises a store/AMO access fault.
BusFault(c) ==
    /\ Runs(c)
    /\ pc[c] = "swap"
    /\ isa /\ ~amo
    /\ pc' = [pc EXCEPT ![c] = "fault"]
    /\ UNCHANGED <<build, initCode, word, backoff>>

\* The exception handler, if it returns, goes back to the amoswap.
BusFaultReturn(c) ==
    /\ Runs(c)
    /\ pc[c] = "fault"
    /\ pc' = [pc EXCEPT ![c] = "swap"]
    /\ UNCHANGED <<build, initCode, word, backoff>>

\* Compiled without atomics, metal_lock_take calls _metal_trap instead.
TrapTake(c) ==
    /\ Runs(c)
    /\ pc[c] = "swap"
    /\ ~isa
    /\ pc' = [pc EXCEPT ![c] = "trap"]
    /\ UNCHANGED <<build, initCode, word, backoff>>

\* If execution returns from _metal_trap, metal_lock_take returns 1.
TakeRefused(c) ==
    /\ Runs(c)
    /\ pc[c] = "trap"
    /\ pc' = [pc EXCEPT ![c] = "idle"]
    /\ UNCHANGED <<build, initCode, word, backoff>>

\* Mutation of Give: the word stays 1.
GiveNothing(c) ==
    /\ Runs(c) /\ pc[c] = "held"
    /\ pc' = [pc EXCEPT ![c] = "idle"]
    /\ UNCHANGED <<build, initCode, word, backoff>>

\* metal_lock_give, called by the context that holds the lock.
Give(c) ==
    /\ Runs(c)
    /\ pc[c] = "held"
    /\ word' = 0
    /\ pc' = [pc EXCEPT ![c] = "idle"]
    /\ UNCHANGED <<build, initCode, backoff>>

Next ==
    \/ LockInit
    \/ \E c \in Contexts :
          \/ TakeCall(c) \/ Swap(c) \/ Spin(c) \/ Give(c)
          \/ BusFault(c) \/ BusFaultReturn(c) \/ TrapTake(c) \/ TakeRefused(c)

(***************************************************************************)
(* A context that has called metal_lock_take or that holds the lock keeps  *)
(* executing; nothing obliges it to call in the first place.               *)
(***************************************************************************)
Fairness == \A c \in Contexts : WF_vars(Swap(c) \/ Spin(c) \/ Give(c))

Spec == Init /\ [][Next]_vars
FairSpec == Spec /\ Fairness

-----------------------------------------------------------------------------
Holders    == {c \in Contexts : pc[c] = "held"}
Waiting(c) == pc[c] \in {"swap", "spin"}

\* The types of the variables.
TypeOK ==
    /\ isa \in BOOLEAN /\ table \in TableSays /\ amo \in BOOLEAN
    /\ initCode \in {0, 1, 2, 3, NotCalled}
    /\ word \in {0, 1}
    /\ pc \in [Contexts -> {"idle", "swap", "spin", "held", "fault", "trap"}]
    /\ backoff \in [Contexts -> Nat \ {0}]

\* Between metal_lock_take and metal_lock_give a context is alone, whatever
\* mixture of harts and interrupt handlers competes for the word.
MutualExclusion == \A c, d \in Contexts : pc[c] = "held" /\ pc[d] = "held" => c = d

\* The lock is never lost: the word is 1 only while some context is between its
\* successful exchange and its give, however many contexts have exchanged a 1 for
\* a 1 meanwhile, whatever metal_lock_init answered and whoever was refused.
NotLeaked == word = 1 => Holders # {}

\* The doubling tests backoff before it multiplies, so the delay of the loop
\* may pass max_backoff but never reaches twice that value.
BackoffBounded == \A c \in Contexts : backoff[c] < 2 * MaxBackoff

\* The word is 0 only when nobody holds the lock: what makes MutualExclusion
\* inductive.
FreeWordFree == word = 0 => Holders = {}

IInv ==
    /\ TypeOK
    /\ MutualExclusion
    /\ NotLeaked
    /\ BackoffBounded
    /\ FreeWordFree
    /\ Holders # {} => isa /\ amo
    /\ initCode = NotCalled => \A c \in Contexts : pc[c] = "idle"

\* The lock implements the abstract mutex: the holders are the contexts
\* between a successful swap and the give.
Abstract == INSTANCE Mutex WITH holders <- Holders
ImplementsMutex == Abstract!Spec

\* The lock is not recursive: a handler that interrupts the holder on its own
\* hart and takes the lock waits for a thread that cannot run.
SelfDeadlock ==
    \E h \in Handlers : pc[Thread(h)] = "held" /\ Waiting(Handler(h))

\* A lock that is free while somebody waits is taken by somebody.
FreeLockIsTaken ==
    (word = 0 /\ isa /\ amo /\ \E c \in Contexts : Waiting(c)) ~> (word = 1)

\* A waiter sees the lock given back, unless a handler waits for the thread
\* that it has itself interrupted: the only way to lose the lock for good.
WaiterSeesRelease ==
    \A c \in Contexts :
        Waiting(c) /\ isa /\ amo ~> (word = 0 \/ SelfDeadlock \/ pc[c] = "held")
=============================================================================

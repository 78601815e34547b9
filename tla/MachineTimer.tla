---------------------------- MODULE MachineTimer ----------------------------
(***************************************************************************)
(* The machine timer of the CLINT (metal/src/drivers/riscv_clint0.c) as    *)
(* the CPU driver uses it: mtime and the mtimecmp register of each hart    *)
(* are 64 bits wide but are read and written 32 bits at a time, while the  *)
(* counter runs and while the timer interrupt may preempt the thread.      *)
(*                                                                         *)
(* A 64-bit value is a pair of words.  The thread of a hart reads the time *)
(* and sets the compare register of its hart; the timer interrupt of the   *)
(* hart runs the default handler, which reads the time and sets the        *)
(* compare register Period ticks later.                                    *)
(***************************************************************************)
EXTENDS Naturals

CONSTANTS
    Harts,
    B,              \* the number of values of a word, 2^32
    Period          \* what the timer handler adds to the time, 10

ASSUME WordBase == B \in Nat /\ B > 1
ASSUME PeriodFits == Period \in Nat /\ Period < B

Word == 0 .. B - 1
Time == [hi : Word, lo : Word]

Leq(a, b) == a.hi < b.hi \/ (a.hi = b.hi /\ a.lo <= b.lo)

\* a + n on 64 bits, for n smaller than a word.
Plus(a, n) ==
    IF a.lo + n < B
    THEN [hi |-> a.hi, lo |-> a.lo + n]
    ELSE [hi |-> IF a.hi = B - 1 THEN 0 ELSE a.hi + 1, lo |-> (a.lo + n) - B]

Thread(h)  == <<h, "thread">>
Handler(h) == <<h, "handler">>
Contexts   == Harts \X {"thread", "handler"}

VARIABLES
    mtime,      \* the counter
    cmp,        \* cmp[h]: the mtimecmp register of hart h
    mtie,       \* mtie[h]: the timer interrupt enable bit of mie on hart h
    pc,         \* where each context is; a handler not running is "idle"
    hi, lo,     \* the locals of __metal_clint0_mtime_get
    arg,        \* the argument of mtimecmp_set
    snap,       \* history: mtime at the context's last read of the low word
    armed       \* history: the last value a completed mtimecmp_set requested

vars == <<mtime, cmp, mtie, pc, hi, lo, arg, snap, armed>>

Zero == [hi |-> 0, lo |-> 0]
Never == [hi |-> B - 1, lo |-> B - 1]

(***************************************************************************)
(* mtimecmp has no reset value: the models start from any value, armed as  *)
(* if it had been requested.                                               *)
(***************************************************************************)
Init ==
    /\ mtime = Zero
    /\ cmp \in [Harts -> Time]
    /\ mtie = [h \in Harts |-> FALSE]
    /\ pc = [c \in Contexts |-> "idle"]
    /\ hi = [c \in Contexts |-> 0]
    /\ lo = [c \in Contexts |-> 0]
    /\ arg = [c \in Contexts |-> Zero]
    /\ snap = [c \in Contexts |-> Zero]
    /\ armed = cmp

\* The timer interrupt is pending while mtime has reached the compare register.
MTIP(h) == Leq(cmp[h], mtime)

\* The thread of a hart does not run while the handler of the hart does.
Runs(c) == \A h \in Harts : c = Thread(h) => pc[Handler(h)] = "idle"

Goto(c, from, to) ==
    /\ Runs(c)
    /\ pc[c] = from
    /\ pc' = [pc EXCEPT ![c] = to]

-----------------------------------------------------------------------------
(***************************************************************************)
(* The counter advances by any amount.  It is assumed not to reach the     *)
(* last 2^32 ticks of its range.                                           *)
(***************************************************************************)
Tick ==
    \E t \in Time :
        /\ Leq(mtime, t)
        /\ t.hi < B - 1
        /\ mtime' = t
        /\ UNCHANGED <<cmp, mtie, pc, hi, lo, arg, snap, armed>>

-----------------------------------------------------------------------------
(* __metal_clint0_mtime_get *)

ReadCall(h) ==
    /\ Goto(Thread(h), "idle", "readHi")
    /\ UNCHANGED <<mtime, cmp, mtie, hi, lo, arg, snap, armed>>

ReadHi(c) ==
    /\ Goto(c, "readHi", "readLo")
    /\ hi' = [hi EXCEPT ![c] = mtime.hi]
    /\ UNCHANGED <<mtime, cmp, mtie, lo, arg, snap, armed>>

ReadLo(c) ==
    /\ Goto(c, "readLo", "checkHi")
    /\ lo' = [lo EXCEPT ![c] = mtime.lo]
    /\ snap' = [snap EXCEPT ![c] = mtime]
    /\ UNCHANGED <<mtime, cmp, mtie, hi, arg, armed>>

\* Mutation of CheckHi: the high word is not read again.
CheckHiNever(c) ==
    /\ Goto(c, "checkHi", "readDone")
    /\ UNCHANGED <<mtime, cmp, mtie, hi, lo, arg, snap, armed>>

\* Guard against rollover when reading: the high word must not have changed.
CheckHi(c) ==
    /\ Goto(c, "checkHi", IF mtime.hi = hi[c] THEN "readDone" ELSE "readHi")
    /\ UNCHANGED <<mtime, cmp, mtie, hi, lo, arg, snap, armed>>

\* The value __metal_clint0_mtime_get returns.
ReadValue(c) == [hi |-> hi[c], lo |-> lo[c]]

ReadReturn(h) ==
    /\ Goto(Thread(h), "readDone", "idle")
    /\ UNCHANGED <<mtime, cmp, mtie, hi, lo, arg, snap, armed>>

-----------------------------------------------------------------------------
(* __metal_driver_riscv_clint0_mtimecmp_set *)

SetCall(h, t) ==
    /\ Goto(Thread(h), "idle", "setMax")
    /\ arg' = [arg EXCEPT ![Thread(h)] = t]
    /\ UNCHANGED <<mtime, cmp, mtie, hi, lo, snap, armed>>

\* Mutations of SetMax: the high word is set to 0; it is left alone.
SetMaxZero(c) ==
    /\ Goto(c, "setMax", "setLo")
    /\ cmp' = [cmp EXCEPT ![c[1]].hi = 0]
    /\ UNCHANGED <<mtime, mtie, hi, lo, arg, snap, armed>>

SetMaxSkipped(c) ==
    /\ Goto(c, "setMax", "setLo")
    /\ UNCHANGED <<mtime, cmp, mtie, hi, lo, arg, snap, armed>>

\* For that set the high word to a max value first.
SetMax(c) ==
    /\ Goto(c, "setMax", "setLo")
    /\ cmp' = [cmp EXCEPT ![c[1]].hi = B - 1]
    /\ UNCHANGED <<mtime, mtie, hi, lo, arg, snap, armed>>

SetLo(c) ==
    /\ Goto(c, "setLo", "setHi")
    /\ cmp' = [cmp EXCEPT ![c[1]].lo = arg[c].lo]
    /\ UNCHANGED <<mtime, mtie, hi, lo, arg, snap, armed>>

SetHi(c) ==
    /\ Goto(c, "setHi", "idle")
    /\ cmp' = [cmp EXCEPT ![c[1]].hi = arg[c].hi]
    /\ armed' = [armed EXCEPT ![c[1]] = arg[c]]
    /\ UNCHANGED <<mtime, mtie, hi, lo, arg, snap>>

-----------------------------------------------------------------------------
(* The timer interrupt and the thread's mask for it *)

\* The thread enables or disables the timer interrupt of its hart.
SetEnable(h, b) ==
    /\ Goto(Thread(h), "idle", "idle")
    /\ mtie' = [mtie EXCEPT ![h] = b]
    /\ UNCHANGED <<mtime, cmp, hi, lo, arg, snap, armed>>

\* Mutation of Interrupt: it is taken only between two calls of the thread.
InterruptBetweenCalls(h) ==
    /\ mtie[h] /\ MTIP(h)
    /\ pc[Thread(h)] = "idle"
    /\ Goto(Handler(h), "idle", "readHi")
    /\ UNCHANGED <<mtime, cmp, mtie, hi, lo, arg, snap, armed>>

\* The interrupt is taken between two instructions of the thread, and the
\* exception handler calls __metal_default_timer_handler.
Interrupt(h) ==
    /\ mtie[h]
    /\ MTIP(h)
    /\ Goto(Handler(h), "idle", "readHi")
    /\ UNCHANGED <<mtime, cmp, mtie, hi, lo, arg, snap, armed>>

\* The handler has the time and sets the compare register Period later; it
\* returns to the thread after SetHi.
HandlerRearm(h) ==
    /\ Goto(Handler(h), "readDone", "setMax")
    /\ arg' = [arg EXCEPT ![Handler(h)] = Plus(ReadValue(Handler(h)), Period)]
    /\ UNCHANGED <<mtime, cmp, mtie, hi, lo, snap, armed>>

-----------------------------------------------------------------------------
Step(c) == ReadHi(c) \/ ReadLo(c) \/ CheckHi(c) \/ SetMax(c) \/ SetLo(c) \/ SetHi(c)

Next ==
    \/ Tick
    \/ \E c \in Contexts : Step(c)
    \/ \E h \in Harts :
          \/ ReadCall(h) \/ ReadReturn(h)
          \/ \E t \in Time : SetCall(h, t)
          \/ \E b \in BOOLEAN : SetEnable(h, b)
          \/ Interrupt(h) \/ HandlerRearm(h)

(***************************************************************************)
(* A hart executes: a call in progress goes on, a pending enabled          *)
(* interrupt is taken.  The counter need not advance.                      *)
(***************************************************************************)
Fairness ==
    /\ \A c \in Contexts : WF_vars(Step(c))
    /\ \A h \in Harts : WF_vars(Interrupt(h)) /\ WF_vars(HandlerRearm(h))

Spec == Init /\ [][Next]_vars
FairSpec == Spec /\ Fairness

-----------------------------------------------------------------------------
PCs == {"idle", "readHi", "readLo", "checkHi", "readDone", "setMax", "setLo", "setHi"}

\* The types of the variables.
TypeOK ==
    /\ mtime \in Time
    /\ cmp \in [Harts -> Time]
    /\ mtie \in [Harts -> BOOLEAN]
    /\ pc \in [Contexts -> PCs]
    /\ hi \in [Contexts -> Word]
    /\ lo \in [Contexts -> Word]
    /\ arg \in [Contexts -> Time]
    /\ snap \in [Contexts -> Time]
    /\ armed \in [Harts -> Time]

\* mtime_get returns the exact value of the counter at the instant of its read
\* of the low word, however far the counter ran and however long the handler
\* preempted the reader between its three reads.
ReadIsSnapshot == \A c \in Contexts : pc[c] = "readDone" => ReadValue(c) = snap[c]

\* Hart h is between the first and the last write of mtimecmp_set.
Rewriting(h) == \E c \in {Thread(h), Handler(h)} : pc[c] \in {"setLo", "setHi"}

\* No write of the sequence raises the timer interrupt before the time that a
\* completed mtimecmp_set asked for.
NoSpuriousInterrupt == \A h \in Harts : MTIP(h) => Leq(armed[h], mtime)

\* Outside mtimecmp_set the compare register holds the value of the last call
\* that finished, never the words of two calls, although the thread and the
\* handler of the hart both write it.
CompareNotTorn == \A h \in Harts : ~Rewriting(h) => cmp[h] = armed[h]

\* Reader side of the inductive invariant: what the words read so far say.
ReaderInv ==
    \A c \in Contexts :
        /\ Leq(snap[c], mtime)
        /\ pc[c] = "readLo" => hi[c] <= mtime.hi
        /\ pc[c] = "checkHi" => hi[c] <= snap[c].hi /\ lo[c] = snap[c].lo

\* Writer side: during the sequence the high word is at its maximum, so the
\* interrupt is off and the handler cannot start.
WriterInv ==
    \A h \in Harts :
        /\ \A c \in {Thread(h), Handler(h)} :
              /\ pc[c] \in {"setLo", "setHi"} => cmp[h].hi = B - 1
              /\ pc[c] = "setHi" => cmp[h].lo = arg[c].lo
        /\ pc[Thread(h)] \in {"setLo", "setHi"} => pc[Handler(h)] = "idle"

IInv ==
    /\ TypeOK
    /\ mtime.hi < B - 1
    /\ ReadIsSnapshot
    /\ CompareNotTorn
    /\ ReaderInv
    /\ WriterInv

\* A time in the past and an enabled interrupt bring the handler, unless the
\* thread disables the interrupt or sets another time first; and the handler,
\* which reads the running counter, finishes and the thread runs again.
TimerServed ==
    \A h \in Harts :
        /\ mtie[h] /\ MTIP(h) ~> (pc[Handler(h)] # "idle" \/ ~mtie[h] \/ ~MTIP(h))
        /\ pc[Handler(h)] # "idle" ~> pc[Handler(h)] = "idle"
=============================================================================

------------------------- MODULE MachineTimerProofs -------------------------
(***************************************************************************)
(* Proofs about the machine timer for any number of harts, any word base   *)
(* and any period: reads are snapshots, writes neither tear the compare    *)
(* register nor raise a spurious interrupt.                                *)
(***************************************************************************)
EXTENDS MachineTimer, TLAPS

USE WordBase, PeriodFits

\* The order of 64-bit values is transitive and total, and sums stay values.
LEMMA LeqTransitive ==
    ASSUME NEW a \in Time, NEW b \in Time, NEW c \in Time, Leq(a, b), Leq(b, c)
    PROVE Leq(a, c)
  BY DEF Leq, Time, Word

\* A sum of times is a time.
LEMMA PlusTime ==
    ASSUME NEW a \in Time
    PROVE Plus(a, Period) \in Time
  BY DEF Plus, Time, Word

\* The initial states satisfy the inductive invariant.
LEMMA InitIInv == Init => IInv
  <1> SUFFICES ASSUME Init
               PROVE IInv
    OBVIOUS
  <1>1. Zero \in Time /\ 0 \in Word /\ B - 1 \in Word
    BY DEF Zero, Time, Word
  <1>2. TypeOK
    BY <1>1 DEF Init, TypeOK, PCs
  <1>3. ReaderInv
    BY DEF Init, ReaderInv, Leq, Zero
  <1>4. QED
    BY <1>2, <1>3 DEF Init, IInv, ReadIsSnapshot, CompareNotTorn, WriterInv, Rewriting, Zero,
       Contexts, Thread, Handler

\* Both contexts of a hart are contexts, and they are distinct.
LEMMA ContextFacts ==
    /\ \A h \in Harts : Thread(h) \in Contexts /\ Handler(h) \in Contexts
    /\ \A h \in Harts : Thread(h)[1] = h /\ Handler(h)[1] = h
    /\ \A g, h : Thread(g) # Handler(h)
    /\ \A g, h : Thread(g) = Thread(h) => g = h
    /\ \A g, h : Handler(g) = Handler(h) => g = h
    /\ \A c \in Contexts : c[1] \in Harts /\ (c = Thread(c[1]) \/ c = Handler(c[1]))
  BY DEF Contexts, Thread, Handler

-----------------------------------------------------------------------------
\* Every step preserves the types.
LEMMA TypeStep == TypeOK /\ [Next]_vars => TypeOK'
  <1> SUFFICES ASSUME TypeOK, [Next]_vars
               PROVE TypeOK'
    OBVIOUS
  <1> USE DEF TypeOK, Goto, PCs
  <1>1. CASE Tick
    BY <1>1 DEF Tick
  <1>2. ASSUME NEW c \in Contexts, Step(c)
        PROVE TypeOK'
    <2> B - 1 \in Word /\ c[1] \in Harts
      BY ContextFacts DEF Word
    <2> mtime.hi \in Word /\ mtime.lo \in Word /\ arg[c].hi \in Word /\ arg[c].lo \in Word
      BY DEF Time
    <2>1. CASE ReadHi(c) \/ ReadLo(c) \/ CheckHi(c)
      BY <2>1 DEF ReadHi, ReadLo, CheckHi
    <2>2. CASE SetMax(c)
      BY <2>2 DEF SetMax, Time
    <2>3. CASE SetLo(c)
      BY <2>3 DEF SetLo, Time
    <2>4. CASE SetHi(c)
      BY <2>4 DEF SetHi, Time
    <2>5. QED
      BY <1>2, <2>1, <2>2, <2>3, <2>4 DEF Step
  <1>3. ASSUME NEW h \in Harts,
               \/ ReadCall(h) \/ ReadReturn(h) \/ Interrupt(h)
               \/ \E t \in Time : SetCall(h, t)
               \/ \E b \in BOOLEAN : SetEnable(h, b)
        PROVE TypeOK'
    BY <1>3, ContextFacts DEF ReadCall, ReadReturn, Interrupt, SetCall, SetEnable
  <1>4. ASSUME NEW h \in Harts, HandlerRearm(h)
        PROVE TypeOK'
    <2>1. ReadValue(Handler(h)) \in Time
      BY ContextFacts DEF ReadValue, Time
    <2>2. QED
      BY <1>4, <2>1, PlusTime, ContextFacts DEF HandlerRearm
  <1>5. CASE UNCHANGED vars
    BY <1>5 DEF vars
  <1>6. QED
    BY <1>1, <1>2, <1>3, <1>4, <1>5 DEF Next

\* The counter stays below the last 2^32 ticks and never runs backwards.
LEMMA CounterStep ==
    TypeOK /\ mtime.hi < B - 1 /\ [Next]_vars
        => mtime' \in Time /\ mtime'.hi < B - 1 /\ Leq(mtime, mtime')
  <1> SUFFICES ASSUME TypeOK, mtime.hi < B - 1, [Next]_vars
               PROVE mtime' \in Time /\ mtime'.hi < B - 1 /\ Leq(mtime, mtime')
    OBVIOUS
  <1>1. CASE Tick
    BY <1>1 DEF Tick
  <1>2. CASE mtime' = mtime
    BY <1>2 DEF TypeOK, Leq, Time, Word
  <1>3. QED
    BY <1>1, <1>2 DEF Next, Step, vars, ReadHi, ReadLo, CheckHi, SetMax, SetLo, SetHi,
       ReadCall, ReadReturn, SetCall, SetEnable, Interrupt, HandlerRearm

\* The reader's part of the invariant: when the high word is the same before
\* and after the low word was read, it was that word at the instant between.
LEMMA ReadStep == IInv /\ [Next]_vars => ReadIsSnapshot' /\ ReaderInv'
  <1> SUFFICES ASSUME IInv, [Next]_vars, NEW c \in Contexts
               PROVE /\ pc'[c] = "readDone" => ReadValue(c)' = snap'[c]
                     /\ Leq(snap'[c], mtime')
                     /\ pc'[c] = "readLo" => hi'[c] <= mtime'.hi
                     /\ pc'[c] = "checkHi" => hi'[c] <= snap'[c].hi /\ lo'[c] = snap'[c].lo
    BY DEF ReadIsSnapshot, ReaderInv
  <1> USE DEF IInv
  <1>m. mtime' \in Time /\ mtime'.hi < B - 1 /\ Leq(mtime, mtime')
    BY CounterStep
  <1>t. TypeOK'
    BY TypeStep
  <1>h. mtime.hi <= mtime'.hi
    BY <1>m DEF Leq, TypeOK, Time, Word
  <1>a. Leq(snap[c], mtime')
    BY <1>m, LeqTransitive DEF ReaderInv, TypeOK
  <1>w. /\ mtime.hi \in Nat /\ mtime'.hi \in Nat /\ hi[c] \in Nat /\ snap[c] \in Time
        /\ snap[c].hi \in Nat
    BY <1>m DEF TypeOK, Time, Word
  <1>0. CASE /\ UNCHANGED <<hi[c], lo[c], snap[c]>>
             /\ pc'[c] \in {"readDone", "readLo", "checkHi"} => pc'[c] = pc[c]
    BY <1>0, <1>h, <1>a, <1>w DEF ReadIsSnapshot, ReaderInv, ReadValue
  <1>1. ASSUME NEW d \in Contexts, Step(d)
        PROVE \/ UNCHANGED <<hi[c], lo[c], snap[c]>>
                  /\ (pc'[c] \in {"readDone", "readLo", "checkHi"} => pc'[c] = pc[c])
              \/ d = c /\ (ReadHi(c) \/ ReadLo(c) \/ CheckHi(c))
    BY <1>1 DEF Step, ReadHi, ReadLo, CheckHi, SetMax, SetLo, SetHi, Goto, TypeOK
  <1>2. CASE ReadHi(c)
    BY <1>2, <1>a, <1>w DEF ReadHi, Goto, TypeOK
  <1>3. CASE ReadLo(c)
    <2>1. snap'[c] = mtime /\ lo'[c] = mtime.lo /\ hi'[c] = hi[c] /\ pc'[c] = "checkHi"
      BY <1>3 DEF ReadLo, Goto, TypeOK
    <2>2. hi[c] <= mtime.hi
      BY <1>3 DEF ReadLo, Goto, ReaderInv
    <2>3. QED
      BY <2>1, <2>2, <1>m
  <1>4. CASE CheckHi(c)
    <2>1. UNCHANGED <<hi, lo, snap, mtime>>
      BY <1>4 DEF CheckHi
    <2>2. pc'[c] = "readDone" => mtime.hi = hi[c]
      BY <1>4 DEF CheckHi, Goto, TypeOK
    <2>3. hi[c] <= snap[c].hi /\ lo[c] = snap[c].lo /\ snap[c].hi <= mtime.hi
      BY <1>4, <1>w DEF CheckHi, Goto, ReaderInv, Leq
    <2>4. mtime.hi = hi[c] => ReadValue(c) = snap[c]
      BY <2>3, <1>w DEF ReadValue, Time
    <2>5. pc'[c] \in {"readDone", "readHi"}
      BY <1>4 DEF CheckHi, Goto, TypeOK
    <2>6. QED
      BY <2>1, <2>2, <2>4, <2>5, <1>a DEF ReadValue
  <1>5. ASSUME NEW h \in Harts,
               \/ ReadCall(h) \/ ReadReturn(h) \/ Interrupt(h) \/ HandlerRearm(h)
               \/ \E t \in Time : SetCall(h, t)
               \/ \E b \in BOOLEAN : SetEnable(h, b)
        PROVE UNCHANGED <<hi[c], lo[c], snap[c]>>
                /\ (pc'[c] \in {"readDone", "readLo", "checkHi"} => pc'[c] = pc[c])
    BY <1>5 DEF ReadCall, ReadReturn, Interrupt, HandlerRearm, SetCall, SetEnable, Goto, TypeOK
  <1>6. CASE Tick \/ UNCHANGED vars
    BY <1>6, <1>0 DEF Tick, vars
  <1>7. QED
    BY <1>0, <1>1, <1>2, <1>3, <1>4, <1>5, <1>6 DEF Next

\* The writer's part of the invariant.  The one delicate step is the interrupt:
\* between the first and the last write of mtimecmp_set the compare register is
\* beyond every value of the counter, so the handler cannot start there.
LEMMA WriteStep == IInv /\ [Next]_vars => CompareNotTorn' /\ WriterInv'
  <1> SUFFICES ASSUME IInv, [Next]_vars, NEW h \in Harts
               PROVE /\ ~Rewriting(h)' => cmp'[h] = armed'[h]
                     /\ \A c \in {Thread(h), Handler(h)} :
                           /\ pc'[c] \in {"setLo", "setHi"} => cmp'[h].hi = B - 1
                           /\ pc'[c] = "setHi" => cmp'[h].lo = arg'[c].lo
                     /\ pc'[Thread(h)] \in {"setLo", "setHi"} => pc'[Handler(h)] = "idle"
    BY DEF CompareNotTorn, WriterInv
  <1> DEFINE T == Thread(h)
             H == Handler(h)
             Goal == /\ ~Rewriting(h)' => cmp'[h] = armed'[h]
                     /\ \A c \in {T, H} :
                           /\ pc'[c] \in {"setLo", "setHi"} => cmp'[h].hi = B - 1
                           /\ pc'[c] = "setHi" => cmp'[h].lo = arg'[c].lo
                     /\ pc'[T] \in {"setLo", "setHi"} => pc'[H] = "idle"
  <1> SUFFICES Goal
    OBVIOUS
  <1> USE DEF IInv
  <1>c. T \in Contexts /\ H \in Contexts /\ T # H /\ T[1] = h /\ H[1] = h
    BY ContextFacts
  <1>d. \A d \in Contexts : d[1] = h => d = T \/ d = H
    BY ContextFacts
  <1>i. /\ ~Rewriting(h) => cmp[h] = armed[h]
        /\ \A c \in {T, H} :
              /\ pc[c] \in {"setLo", "setHi"} => cmp[h].hi = B - 1
              /\ pc[c] = "setHi" => cmp[h].lo = arg[c].lo
        /\ pc[T] \in {"setLo", "setHi"} => pc[H] = "idle"
    BY DEF CompareNotTorn, WriterInv
  <1>r. Rewriting(h) <=> pc[T] \in {"setLo", "setHi"} \/ pc[H] \in {"setLo", "setHi"}
    BY DEF Rewriting
  <1>s. Rewriting(h)' <=> pc'[T] \in {"setLo", "setHi"} \/ pc'[H] \in {"setLo", "setHi"}
    BY DEF Rewriting
  <1> HIDE DEF T, H
  \* A step that touches neither the registers nor the sequences of hart h.
  <1>0. CASE /\ cmp'[h] = cmp[h] /\ armed'[h] = armed[h]
             /\ arg'[T] = arg[T] /\ arg'[H] = arg[H]
             /\ \A c \in {T, H} : \/ pc'[c] = pc[c]
                                  \/ {pc[c], pc'[c]} \cap {"setLo", "setHi"} = {} /\ pc[c] # "idle"
                                  \/ {pc[c], pc'[c]} \cap {"setLo", "setHi"} = {} /\ c = T
    BY <1>0, <1>i, <1>r, <1>s, <1>c
  <1>1. ASSUME NEW d \in Contexts, Step(d), d # T, d # H
        PROVE Goal
    <2>1. d[1] # h
      BY <1>1, <1>d
    <2>2. cmp'[h] = cmp[h] /\ armed'[h] = armed[h] /\ arg' = arg /\ pc'[T] = pc[T] /\ pc'[H] = pc[H]
      BY <1>1, <1>c, <2>1 DEF Step, ReadHi, ReadLo, CheckHi, SetMax, SetLo, SetHi, Goto, TypeOK
    <2>3. QED
      BY <2>2, <1>0
  <1>2. ASSUME NEW d \in {T, H}, ReadHi(d) \/ ReadLo(d) \/ CheckHi(d)
        PROVE Goal
    BY <1>2, <1>0, <1>c DEF ReadHi, ReadLo, CheckHi, Goto, TypeOK
  \* The thread runs only while the handler of its hart is idle.
  <1>t. ASSUME NEW d \in {T, H}, Runs(d)
        PROVE d = T => pc[H] = "idle"
    BY <1>t DEF Runs, T, H
  \* While the handler is at work the thread is not inside the sequence.
  <1>u. pc[H] # "idle" => pc[T] \notin {"setLo", "setHi"}
    BY <1>i
  <1>3. ASSUME NEW d \in {T, H}, SetMax(d)
        PROVE Goal
    <2>1. cmp'[h].hi = B - 1 /\ pc'[d] = "setLo" /\ arg' = arg
      BY <1>3, <1>c DEF SetMax, Goto, TypeOK, Time
    <2>2. \A c \in {T, H} : c # d => pc'[c] = pc[c] /\ pc[c] \notin {"setLo", "setHi"}
      BY <1>3, <1>c, <1>t, <1>u DEF SetMax, Goto, TypeOK
    <2>3. pc'[T] = "setLo" => pc'[H] = "idle"
      BY <1>3, <1>c, <1>t, <2>1, <2>2 DEF SetMax, Goto
    <2>4. QED
      BY <2>1, <2>2, <2>3, <1>s
  <1>4. ASSUME NEW d \in {T, H}, SetLo(d)
        PROVE Goal
    <2>1. cmp'[h].hi = B - 1 /\ cmp'[h].lo = arg[d].lo /\ pc'[d] = "setHi" /\ arg' = arg
      BY <1>4, <1>c, <1>i DEF SetLo, Goto, TypeOK, Time
    <2>2. \A c \in {T, H} : c # d => pc'[c] = pc[c] /\ pc[c] \notin {"setLo", "setHi"}
      BY <1>4, <1>c, <1>t, <1>u DEF SetLo, Goto, TypeOK
    <2>3. pc'[T] = "setHi" => pc'[H] = "idle"
      BY <1>4, <1>c, <1>t, <2>1, <2>2 DEF SetLo, Goto
    <2>4. QED
      BY <2>1, <2>2, <2>3, <1>s
  <1>5. ASSUME NEW d \in {T, H}, SetHi(d)
        PROVE Goal
    <2>1. cmp'[h] = [hi |-> arg[d].hi, lo |-> cmp[h].lo]
      BY <1>5, <1>c DEF SetHi, TypeOK, Time
    <2>2. cmp[h].lo = arg[d].lo /\ arg[d] \in Time
      BY <1>5, <1>i, <1>c DEF SetHi, Goto, TypeOK
    <2>3. cmp'[h] = arg[d]
      BY <2>1, <2>2 DEF Time
    <2>4. armed'[h] = arg[d] /\ pc'[d] = "idle"
      BY <1>5, <1>c DEF SetHi, Goto, TypeOK
    <2>5. \A c \in {T, H} : c # d => pc'[c] = pc[c] /\ pc[c] \notin {"setLo", "setHi"}
      BY <1>5, <1>c, <1>t, <1>u DEF SetHi, Goto, TypeOK
    <2>6. QED
      BY <2>3, <2>4, <2>5, <1>s
  <1>6. ASSUME NEW g \in Harts, Interrupt(g)
        PROVE Goal
    <2>1. CASE g = h
      <3>1. ~(cmp[h].hi = B - 1)
        BY <1>6, <2>1 DEF Interrupt, MTIP, Leq, TypeOK, Time, Word
      <3>2. pc[T] \notin {"setLo", "setHi"}
        BY <3>1, <1>i
      <3>3. pc[H] = "idle" /\ pc'[H] = "readHi" /\ pc'[T] = pc[T] /\ UNCHANGED <<cmp, armed, arg>>
        BY <1>6, <2>1, <1>c DEF Interrupt, Goto, TypeOK, H
      <3>4. QED
        BY <3>2, <3>3, <1>i, <1>r, <1>s
    <2>2. CASE g # h
      <3>1. pc'[T] = pc[T] /\ pc'[H] = pc[H] /\ UNCHANGED <<cmp, armed, arg>>
        BY <1>6, <2>2, ContextFacts DEF Interrupt, Goto, TypeOK, T, H
      <3>2. QED
        BY <3>1, <1>0
    <2>3. QED
      BY <2>1, <2>2
  <1>7. ASSUME NEW g \in Harts,
               \/ ReadCall(g) \/ ReadReturn(g)
               \/ \E b \in BOOLEAN : SetEnable(g, b)
        PROVE Goal
    <2>1. UNCHANGED <<cmp, armed, arg>> /\ pc'[H] = pc[H]
      BY <1>7, ContextFacts DEF ReadCall, ReadReturn, SetEnable, Goto, TypeOK, H
    <2>2. pc'[T] = pc[T] \/ {pc[T], pc'[T]} \cap {"setLo", "setHi"} = {}
      BY <1>7, <1>c DEF ReadCall, ReadReturn, SetEnable, Goto, TypeOK
    <2>3. QED
      BY <2>1, <2>2, <1>0
  <1>8. ASSUME NEW g \in Harts, NEW t \in Time, SetCall(g, t)
        PROVE Goal
    <2>1. CASE g = h
      <3>1. /\ UNCHANGED <<cmp, armed>> /\ arg'[H] = arg[H] /\ pc'[H] = pc[H]
            /\ pc[T] = "idle" /\ pc'[T] = "setMax"
        BY <1>8, <2>1, <1>c DEF SetCall, Goto, TypeOK, T
      <3>2. QED
        BY <3>1, <1>i, <1>r, <1>s, <1>c
    <2>2. CASE g # h
      <3>1. /\ UNCHANGED <<cmp, armed>> /\ arg'[H] = arg[H] /\ arg'[T] = arg[T]
            /\ pc'[T] = pc[T] /\ pc'[H] = pc[H]
        BY <1>8, <2>2, <1>c, ContextFacts DEF SetCall, Goto, TypeOK, T, H
      <3>2. QED
        BY <3>1, <1>0
    <2>3. QED
      BY <2>1, <2>2
  <1>9. ASSUME NEW g \in Harts, HandlerRearm(g)
        PROVE Goal
    <2>1. CASE g = h
      <3>1. /\ UNCHANGED <<cmp, armed>> /\ arg'[T] = arg[T] /\ pc'[T] = pc[T]
            /\ pc[H] = "readDone" /\ pc'[H] = "setMax"
        BY <1>9, <2>1, <1>c DEF HandlerRearm, Goto, TypeOK, H
      <3>2. QED
        BY <3>1, <1>i, <1>r, <1>s, <1>c
    <2>2. CASE g # h
      <3>1. /\ UNCHANGED <<cmp, armed>> /\ arg'[H] = arg[H] /\ arg'[T] = arg[T]
            /\ pc'[T] = pc[T] /\ pc'[H] = pc[H]
        BY <1>9, <2>2, <1>c, ContextFacts DEF HandlerRearm, Goto, TypeOK, T, H
      <3>2. QED
        BY <3>1, <1>0
    <2>3. QED
      BY <2>1, <2>2
  <1>10. CASE Tick \/ UNCHANGED vars
    BY <1>10, <1>0 DEF Tick, vars
  <1>11. QED
    BY <1>1, <1>2, <1>3, <1>4, <1>5, <1>6, <1>7, <1>8, <1>9, <1>10 DEF Next, Step

-----------------------------------------------------------------------------
\* The inductive invariant holds in every reachable state.
LEMMA SpecIInv == Spec => []IInv
  <1>1. IInv /\ [Next]_vars => IInv'
    BY TypeStep, CounterStep, ReadStep, WriteStep DEF IInv
  <1>2. QED
    BY <1>1, InitIInv, PTL DEF Spec

\* Every word stays a word and every 64-bit value a pair of words.
THEOREM TypeCorrect == Spec => []TypeOK
  BY SpecIInv, PTL DEF IInv

\* mtime_get returns the counter as it was at one instant of the call.
THEOREM ReadsAreSnapshots == Spec => []ReadIsSnapshot
  BY SpecIInv, PTL DEF IInv

\* Thread and handler never leave a compare register with words of two calls.
THEOREM CompareWhole == Spec => []CompareNotTorn
  BY SpecIInv, PTL DEF IInv

\* A pending timer interrupt means that a requested time has come.
THEOREM InterruptsJustified == Spec => []NoSpuriousInterrupt
  <1>1. IInv => NoSpuriousInterrupt
    <2> SUFFICES ASSUME IInv, NEW h \in Harts, MTIP(h)
                 PROVE Leq(armed[h], mtime)
      BY DEF NoSpuriousInterrupt
    <2>1. cmp[h].hi # B - 1
      BY DEF IInv, MTIP, Leq, TypeOK, Time, Word
    <2>2. ~Rewriting(h)
      BY <2>1 DEF IInv, WriterInv, Rewriting
    <2>3. QED
      BY <2>2 DEF IInv, CompareNotTorn, MTIP
  <1>2. QED
    BY <1>1, SpecIInv, PTL
=============================================================================

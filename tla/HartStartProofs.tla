--------------------------- MODULE HartStartProofs ---------------------------
(***************************************************************************)
(* Proofs about the start of the harts, for any number of harts, any boot  *)
(* hart and any number of constructors, destructors and software           *)
(* interrupts.                                                             *)
(***************************************************************************)
EXTENDS HartStart, TLAPS

\* The initial state satisfies the inductive invariant.
LEMMA InitIInv == Init => IInv
  <1> SUFFICES ASSUME Init
               PROVE IInv
    OBVIOUS
  <1> USE HartsAssumption, CtorsAssumption, IpiAssumption DEF Init, Harts, Others
  <1>1. TypeOK
    BY DEF TypeOK, PCs, Started, InMain, PreSync
  <1>2. Roles /\ BitsMeanWaiting /\ SeenArrived
    BY DEF Roles, BitsMeanWaiting, SeenArrived, Gathering, PreSync, Past, Started, InMain, Arrived
  <1>3. BootOrder /\ IpiFromMain
    BY DEF BootOrder, IpiFromMain, Arrived, PreSync
  <1>4. FiniOrder /\ LinesOff
    BY DEF FiniOrder, LinesOff, Started, InMain
  <1>5. QED
    BY <1>1, <1>2, <1>3, <1>4 DEF IInv

\* Before the barrier only the boot hart changes memory, and nobody's bit moves.
LEMMA BootIInv ==
    ASSUME IInv, NEW h \in Harts, Boot(h)
    PROVE IInv'
  <1> USE HartsAssumption, CtorsAssumption, IpiAssumption DEF Harts, Others, Goto, hist, fini
  <1>1. \E to \in PreSync : pc' = [pc EXCEPT ![h] = to]
    BY DEF Boot, Enter, CopyData, ZeroBss, MetalInit, RunCtor, PreSync
  <1>2. h \in Harts /\ pc[h] \in PreSync /\ pc' \in [Harts -> PCs] /\ boot \in Harts
    <2>1. pc[h] \in PreSync
      BY DEF Boot, Enter, CopyData, ZeroBss, MetalInit, RunCtor, PreSync
    <2>2. QED
      BY <1>1, <2>1 DEF IInv, TypeOK, PCs
  <1>3. UNCHANGED <<i, msip, boot, ipi, ipis>>
    BY DEF Boot, Enter, CopyData, ZeroBss, MetalInit, RunCtor
  <1>4. TypeOK'
    <2>1. mie' \subseteq Harts
      BY DEF Boot, Enter, CopyData, ZeroBss, MetalInit, RunCtor, IInv, TypeOK
    <2>2. h = boot \/ ctors' = ctors
      BY DEF Boot, Enter, CopyData, ZeroBss, MetalInit, RunCtor, IInv, Roles
    <2>3. ctors' \in 0 .. NumCtors
      BY <1>2, <2>2 DEF Boot, Enter, CopyData, ZeroBss, MetalInit, RunCtor, IInv, TypeOK,
         BootOrder
    <2>4. data' \in {"garbage", "zero", "image"} /\ bss' \in {"garbage", "zero"}
      BY DEF Boot, Enter, CopyData, ZeroBss, MetalInit, RunCtor, IInv, TypeOK
    <2>5. initDone' \in {0, 1} /\ finiDone' \in {0, 1} /\ dtors' \in 0 .. NumDtors
      BY DEF Boot, Enter, CopyData, ZeroBss, MetalInit, RunCtor, IInv, TypeOK
    <2>6. QED
      BY <1>2, <1>3, <2>1, <2>3, <2>4, <2>5 DEF IInv, TypeOK
  <1>5. Roles'
    BY <1>1, <1>2, <1>3 DEF Boot, Enter, CopyData, ZeroBss, MetalInit, RunCtor, IInv,
       TypeOK, Roles, InMain, PreSync
  <1>6. BitsMeanWaiting' /\ SeenArrived' /\ IpiFromMain'
    BY <1>1, <1>2, <1>3 DEF IInv, TypeOK, BitsMeanWaiting, SeenArrived, IpiFromMain,
       Gathering, Past, Started, InMain, Arrived, PreSync
  <1>7. BootOrder'
    <2>1. CASE h = boot
      BY <1>2, <2>1 DEF Boot, Enter, CopyData, ZeroBss, MetalInit, RunCtor, IInv, TypeOK,
         BootOrder, Arrived, PreSync
    <2>2. CASE h # boot
      BY <1>2, <2>2 DEF Boot, Enter, CopyData, ZeroBss, MetalInit, RunCtor, IInv, TypeOK,
         BootOrder, Roles, Arrived, PreSync
    <2>3. QED
      BY <2>1, <2>2
  <1>8. FiniOrder'
    <2>1. CASE h = boot
      BY <1>2, <1>3, <2>1 DEF Boot, Enter, CopyData, ZeroBss, MetalInit, RunCtor, IInv,
         TypeOK, FiniOrder, InMain, PreSync
    <2>2. CASE h # boot
      BY <1>2, <1>3, <2>2 DEF Boot, Enter, CopyData, ZeroBss, MetalInit, RunCtor, IInv,
         TypeOK, FiniOrder, Roles, InMain, PreSync
    <2>3. QED
      BY <2>1, <2>2
  <1>9. LinesOff'
    BY <1>1, <1>2 DEF Boot, Enter, CopyData, ZeroBss, MetalInit, RunCtor, IInv, TypeOK,
       LinesOff, Started, InMain, PreSync
  <1>10. QED
    BY <1>4, <1>5, <1>6, <1>7, <1>8, <1>9 DEF IInv

\* In the barrier hart 0 passes hart i by only after i has arrived, and no bit
\* is cleared before hart 0 has passed by all of them.
LEMMA SyncIInv ==
    ASSUME IInv, NEW h \in Harts, Sync(h)
    PROVE IInv'
  <1> USE HartsAssumption, CtorsAssumption, IpiAssumption DEF Harts, Others, Goto, hist, mem, fini
  <1>1. CASE SyncZero
    <2>1. TypeOK' /\ Roles' /\ BootOrder' /\ IpiFromMain' /\ FiniOrder' /\ LinesOff'
      BY <1>1 DEF SyncZero, IInv, TypeOK, Roles, BootOrder, IpiFromMain,
         FiniOrder, LinesOff, PCs, Started, InMain, Arrived, PreSync
    <2>2. BitsMeanWaiting' /\ SeenArrived'
      BY <1>1 DEF SyncZero, IInv, TypeOK, BitsMeanWaiting, SeenArrived, Gathering,
         Past, Started, InMain, Arrived, PreSync
    <2>3. QED
      BY <2>1, <2>2 DEF IInv
  <1>2. CASE WaitMsip
    <2>1. TypeOK' /\ Roles' /\ BootOrder' /\ IpiFromMain' /\ FiniOrder' /\ LinesOff'
      BY <1>2 DEF WaitMsip, IInv, TypeOK, Roles, BootOrder, IpiFromMain,
         FiniOrder, LinesOff, PCs, Started, InMain, Arrived, PreSync
    <2>2. Gathering /\ Arrived(i) /\ \A g \in 1 .. i - 1 : Arrived(g)
      BY <1>2 DEF WaitMsip, IInv, TypeOK, BitsMeanWaiting, SeenArrived, Gathering,
         Started, InMain, Arrived, PreSync
    <2>3. \A g \in Harts : Arrived(g) => Arrived(g)'
      BY <1>2 DEF WaitMsip, IInv, TypeOK, Arrived, PreSync
    <2>4. BitsMeanWaiting' /\ SeenArrived'
      BY <1>2, <2>2, <2>3 DEF WaitMsip, IInv, TypeOK, BitsMeanWaiting, SeenArrived,
         Gathering, Past, Started, InMain, Arrived, PreSync
    <2>5. QED
      BY <2>1, <2>4 DEF IInv
  <1>3. CASE ClearMsip
    <2>1. TypeOK' /\ Roles' /\ BootOrder' /\ IpiFromMain' /\ FiniOrder' /\ LinesOff'
      BY <1>3 DEF ClearMsip, IInv, TypeOK, Roles, BootOrder, IpiFromMain,
         FiniOrder, LinesOff, PCs, Started, InMain, Arrived, PreSync
    <2>2. BitsMeanWaiting' /\ SeenArrived'
      BY <1>3 DEF ClearMsip, IInv, TypeOK, BitsMeanWaiting, SeenArrived, Gathering,
         Past, Started, InMain, Arrived, PreSync
    <2>3. QED
      BY <2>1, <2>2 DEF IInv
  <1>4. CASE RaiseMsip(h)
    <2>1. TypeOK' /\ Roles' /\ BootOrder' /\ IpiFromMain' /\ FiniOrder' /\ LinesOff'
      BY <1>4 DEF RaiseMsip, IInv, TypeOK, Roles, BootOrder, IpiFromMain,
         FiniOrder, LinesOff, PCs, Started, InMain, Arrived, PreSync
    <2>2. BitsMeanWaiting' /\ SeenArrived'
      BY <1>4 DEF RaiseMsip, IInv, TypeOK, BitsMeanWaiting, SeenArrived, Gathering,
         Past, Started, InMain, Arrived, PreSync
    <2>3. QED
      BY <2>1, <2>2 DEF IInv
  <1>5. CASE WaitClear(h)
    <2>1. TypeOK' /\ Roles' /\ BootOrder' /\ IpiFromMain' /\ FiniOrder' /\ LinesOff'
      BY <1>5 DEF WaitClear, IInv, TypeOK, Roles, BootOrder, IpiFromMain,
         FiniOrder, LinesOff, PCs, Started, InMain, Arrived, PreSync
    <2>2. ~Gathering
      BY <1>5 DEF WaitClear, IInv, TypeOK, Roles, BitsMeanWaiting
    <2>3. BitsMeanWaiting' /\ SeenArrived'
      BY <1>5, <2>2 DEF WaitClear, IInv, TypeOK, BitsMeanWaiting, SeenArrived, Gathering,
         Roles, Past, Started, InMain, Arrived, PreSync
    <2>4. QED
      BY <2>1, <2>3 DEF IInv
  <1>6. CASE CleanUp(h)
    <2>1. TypeOK' /\ Roles' /\ BootOrder' /\ IpiFromMain' /\ FiniOrder' /\ LinesOff'
      BY <1>6 DEF CleanUp, IInv, TypeOK, Roles, BootOrder, IpiFromMain,
         FiniOrder, LinesOff, PCs, Started, InMain, Arrived, PreSync
    <2>2. BitsMeanWaiting' /\ SeenArrived'
      BY <1>6 DEF CleanUp, IInv, TypeOK, BitsMeanWaiting, SeenArrived, Gathering,
         Past, Started, InMain, Arrived, PreSync
    <2>3. QED
      BY <2>1, <2>2 DEF IInv
  <1>7. CASE Start(h)
    <2>1. TypeOK' /\ Roles' /\ BootOrder' /\ IpiFromMain' /\ FiniOrder' /\ LinesOff'
      BY <1>7 DEF Start, IInv, TypeOK, Roles, BootOrder, IpiFromMain,
         FiniOrder, LinesOff, PCs, Started, InMain, Arrived, PreSync
    <2>2. BitsMeanWaiting' /\ SeenArrived'
      BY <1>7 DEF Start, IInv, TypeOK, BitsMeanWaiting, SeenArrived, Gathering,
         Past, Started, InMain, Arrived, PreSync
    <2>3. QED
      BY <2>1, <2>2 DEF IInv
  <1>8. QED
    BY <1>1, <1>2, <1>3, <1>4, <1>5, <1>6, <1>7 DEF Sync

\* main runs only when hart 0 has seen every hart, so that its software
\* interrupts are not taken for arrivals.
LEMMA MainIInv ==
    ASSUME IInv, NEW h \in Harts, SetIpi(h) \/ ClearIpi(h)
    PROVE IInv'
  <1> USE HartsAssumption, IpiAssumption DEF Harts, Others, mem, fini
  <1>1. boot \in Harts /\ Past(boot) /\ ~Gathering
    BY DEF SetIpi, ClearIpi, IInv, TypeOK, BitsMeanWaiting, Gathering, Past,
       Started, InMain, PreSync
  <1>2. UNCHANGED <<pc, i, data, bss, initDone, ctors, finiDone, dtors, mie, boot>>
        /\ TypeOK'
    <2>1. CASE SetIpi(h)
      BY <2>1 DEF SetIpi, IInv, TypeOK
    <2>2. CASE ClearIpi(h)
      BY <2>2 DEF ClearIpi, IInv, TypeOK
    <2>3. QED
      BY <2>1, <2>2
  <1>3. Roles' /\ BootOrder' /\ FiniOrder' /\ LinesOff'
    BY <1>2 DEF IInv, Roles, BootOrder, FiniOrder, LinesOff, Arrived
  <1>4. BitsMeanWaiting' /\ SeenArrived' /\ IpiFromMain'
    BY <1>1, <1>2 DEF SetIpi, ClearIpi, IInv, TypeOK, BitsMeanWaiting, SeenArrived,
       IpiFromMain, InMain, Gathering, Arrived
  <1>5. QED
    BY <1>2, <1>3, <1>4 DEF IInv

\* The destructors run on the boot hart, when every hart has arrived.
LEMMA FiniIInv ==
    ASSUME IInv, NEW h \in Harts, Fini(h)
    PROVE IInv'
  <1> USE HartsAssumption, CtorsAssumption, IpiAssumption DEF Harts, Others, mem, hist
  <1>1. h = boot /\ pc[h] \in InMain /\ Past(h) /\ ~Gathering
    BY DEF Fini, RunDtor, MetalFini, Goto, IInv, TypeOK, Roles, BitsMeanWaiting, Gathering,
       Past, Started, InMain, PreSync
  <1>2. \E to \in InMain : pc' = [pc EXCEPT ![h] = to]
    BY DEF Fini, RunDtor, MetalFini, Goto, InMain
  <1>3. UNCHANGED <<i, msip, data, bss, initDone, ctors, boot, mie, ipi, ipis>>
    BY DEF Fini, RunDtor, MetalFini
  <1>4. dtors' \in 0 .. NumDtors /\ finiDone' \in {0, 1}
    <2>1. CASE RunDtor(h)
      BY <1>1, <2>1 DEF RunDtor, Goto, IInv, TypeOK, FiniOrder
    <2>2. CASE \E exits \in BOOLEAN : MetalFini(h, exits)
      BY <2>2 DEF MetalFini, IInv, TypeOK
    <2>3. QED
      BY <2>1, <2>2 DEF Fini
  <1>5. TypeOK' /\ Roles'
    BY <1>1, <1>2, <1>3, <1>4 DEF IInv, TypeOK, Roles, PCs, Started, InMain
  <1>6. BitsMeanWaiting' /\ SeenArrived' /\ IpiFromMain' /\ LinesOff'
    BY <1>1, <1>2, <1>3 DEF IInv, TypeOK, BitsMeanWaiting, SeenArrived, IpiFromMain, LinesOff,
       Gathering, Past, Started, Arrived, InMain, PreSync
  <1>7. BootOrder'
    BY <1>1, <1>2, <1>3 DEF IInv, TypeOK, BootOrder, Arrived, InMain, PreSync
  <1>8. FiniOrder'
    <2>1. CASE RunDtor(h)
      BY <1>1, <1>3, <2>1 DEF RunDtor, Goto, IInv, TypeOK, FiniOrder, InMain
    <2>2. ASSUME NEW exits \in BOOLEAN, MetalFini(h, exits)
          PROVE FiniOrder'
      BY <1>1, <1>3, <2>2 DEF MetalFini, Goto, IInv, TypeOK, FiniOrder, InMain
    <2>3. QED
      BY <2>1, <2>2 DEF Fini
  <1>9. QED
    BY <1>5, <1>6, <1>7, <1>8 DEF IInv

\* Every step preserves the inductive invariant.
LEMMA NextIInv == IInv /\ [Next]_vars => IInv'
  <1> SUFFICES ASSUME IInv, [Next]_vars
               PROVE IInv'
    OBVIOUS
  <1>1. ASSUME UNCHANGED vars
        PROVE IInv'
    BY <1>1 DEF vars, IInv, TypeOK, Roles, BitsMeanWaiting, SeenArrived, BootOrder,
       IpiFromMain, FiniOrder, LinesOff, Gathering, Past, Arrived
  <1>2. ASSUME NEW h \in Harts, Idle(h)
        PROVE IInv'
    BY <1>1, <1>2 DEF Idle
  <1>3. QED
    BY <1>1, <1>2, BootIInv, SyncIInv, MainIInv, FiniIInv DEF Next

\* The invariant holds in every reachable state.
LEMMA Invariance == Spec => []IInv
  BY InitIInv, NextIInv, PTL DEF Spec

\* The variables keep their types.
THEOREM TypeCorrect == Spec => []TypeOK
  <1>1. IInv => TypeOK
    BY DEF IInv
  <1>2. QED
    BY <1>1, Invariance, PTL

\* A hart that is past the barrier shows that hart 0 has seen every hart.
LEMMA PastMeansSeen ==
    ASSUME IInv, NEW h \in Harts, Past(h)
    PROVE \A g \in Harts : Arrived(g)
  <1>1. ~Gathering
    BY HartsAssumption DEF IInv, BitsMeanWaiting, Gathering, Past, Started, InMain, PreSync,
       Harts, Others
  <1>2. QED
    BY <1>1 DEF IInv, SeenArrived

\* Nobody leaves the barrier of __metal_synchronize_harts before everybody has
\* entered it.
THEOREM BarrierHolds == Spec => []NobodyLeavesEarly
  <1>1. IInv => NobodyLeavesEarly
    BY PastMeansSeen DEF NobodyLeavesEarly
  <1>2. QED
    BY <1>1, Invariance, PTL

\* No hart leaves the barrier before memory is initialised, whichever hart is
\* the boot hart, none enters secondary_main with a line enabled, and a shutdown
\* comes after every destructor.
THEOREM MemoryReady == Spec => []InitialisedBeforePast
  <1>1. ASSUME IInv, NEW h \in Harts, Past(h)
        PROVE data = "image" /\ bss = "zero" /\ ctors = NumCtors
    <2>1. Arrived(boot)
      BY <1>1, PastMeansSeen, HartsAssumption DEF IInv, TypeOK, Harts
    <2>2. QED
      BY <1>1, <2>1 DEF IInv, BootOrder, Arrived, PreSync
  <1>2. IInv => InitialisedBeforePast
    BY <1>1 DEF InitialisedBeforePast, IInv, FiniOrder
  <1>3. QED
    BY <1>2, Invariance, PTL

\* With hart 0 as boot hart no hart in the barrier clears a software interrupt of
\* main: hart 0, the only one to clear bits there, is in main itself.
THEOREM BarrierKeepsIpi == Spec => []IpiKept
  <1>1. Init => IpiKept
    BY DEF Init, IpiKept
  <1>2. ASSUME IInv, IpiKept, [Next]_vars
        PROVE IpiKept'
    <2> USE DEF IpiKept, hist, mem, fini
    <2>1. CASE UNCHANGED vars
      BY <1>2, <2>1 DEF vars
    <2>2. ASSUME NEW h \in Harts, Boot(h) \/ Idle(h)
          PROVE IpiKept'
      BY <1>2, <2>2 DEF Boot, Enter, CopyData, ZeroBss, MetalInit, RunCtor, Idle, vars
    <2>3. CASE ClearMsip
      BY <1>2, <2>3 DEF ClearMsip, Goto, IInv, IpiFromMain, InMain
    <2>4. ASSUME NEW h \in Harts, RaiseMsip(h) \/ SetIpi(h) \/ ClearIpi(h)
          PROVE IpiKept'
      BY <1>2, <2>4 DEF RaiseMsip, SetIpi, ClearIpi, IInv, TypeOK
    <2>5. ASSUME NEW h \in Harts, SyncZero \/ WaitMsip \/ WaitClear(h) \/ CleanUp(h)
                               \/ Start(h) \/ Fini(h)
          PROVE IpiKept'
      BY <1>2, <2>5 DEF SyncZero, WaitMsip, WaitClear, CleanUp, Start, Fini,
         RunDtor, MetalFini
    <2>6. QED
      BY <1>2, <2>1, <2>2, <2>3, <2>4, <2>5 DEF Next, Sync
  <1>3. QED
    BY <1>1, <1>2, Invariance, PTL DEF Spec
=============================================================================

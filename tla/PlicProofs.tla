----------------------------- MODULE PlicProofs -----------------------------
(***************************************************************************)
(* Proofs about the interrupt controller and its driver, for any number of *)
(* harts and sources, any context ids the board header gives, any masks,   *)
(* levels and handlers the application passes.                             *)
(***************************************************************************)
EXTENDS Plic, TLAPS

\* The initial state satisfies the inductive invariant.
LEMMA InitIInv == Init => IInv
  <1> SUFFICES ASSUME Init
               PROVE IInv
    OBVIOUS
  <1> USE LevelsAssumption DEF Init
  <1>1. TypeOK
    BY DEF TypeOK, Calls, NoCall
  <1>2. QuietBoot /\ NotPendingTwice /\ ServedEnabled /\ NeverStuck
    BY DEF QuietBoot, NotPendingTwice, ServedEnabled, NeverStuck
  <1>3. CallsApart /\ CallFresh /\ EnabledHaveHandler
    BY DEF CallsApart, CallFresh, EnabledHaveHandler
  <1>4. QED
    BY <1>1, <1>2, <1>3 DEF IInv

-----------------------------------------------------------------------------
(* Steps, by the part of the state they touch *)

\* The writes to priorities and thresholds, on which the invariant does not
\* depend.
LevelStep ==
    /\ prio' \in [Sources -> Nat]
    /\ thr' \in [Contexts -> Nat]
    /\ UNCHANGED <<enable, ip, busy, soft, tpc, call, hpc, idx>>

\* Such a step preserves the invariant.
LEMMA LevelIInv == IInv /\ LevelStep => IInv'
  <1> SUFFICES ASSUME IInv, LevelStep
               PROVE IInv'
    OBVIOUS
  <1> USE DEF IInv, LevelStep, soft
  <1>1. TypeOK'
    BY DEF TypeOK
  <1>2. QuietBoot' /\ NotPendingTwice' /\ ServedEnabled' /\ NeverStuck'
    BY DEF QuietBoot, NotPendingTwice, ServedEnabled, NeverStuck, Serves
  <1>3. CallsApart' /\ CallFresh' /\ EnabledHaveHandler'
    BY DEF CallsApart, CallFresh, EnabledHaveHandler
  <1>4. QED
    BY <1>1, <1>2, <1>3

\* A new pending interrupt: no disable call in progress names its source.
LEMMA RaiseIInv == ASSUME IInv, NEW s \in Sources, Raise(s)
                   PROVE  IInv'
  <1> USE DEF IInv, Raise, soft
  <1>1. TypeOK'
    BY DEF TypeOK
  <1>2. QuietBoot' /\ NotPendingTwice' /\ ServedEnabled' /\ NeverStuck'
    BY DEF QuietBoot, NotPendingTwice, ServedEnabled, NeverStuck, Serves
  <1>3. CallsApart' /\ EnabledHaveHandler'
    BY DEF CallsApart, EnabledHaveHandler
  <1>4. CallFresh'
    BY DEF CallFresh, Quiet
  <1>5. QED
    BY <1>1, <1>2, <1>3, <1>4

\* plic0_init finds nothing pending and no call in progress.
LEMMA PlicInitIInv == ASSUME IInv, NEW h \in Harts, PlicInit(h)
                      PROVE  IInv'
  <1> USE DEF IInv, PlicInit
  <1>1. TypeOK'
    BY DEF TypeOK
  <1>2. ip = {} /\ busy = {} /\ \A g \in Harts : tpc[g] = "idle" /\ hpc[g] = "idle"
    BY DEF QuietBoot
  <1>3. \A g \in Harts : idx[g] = 0
    BY <1>2 DEF ServedEnabled
  <1>4. QuietBoot' /\ NotPendingTwice' /\ ServedEnabled' /\ NeverStuck'
    BY <1>2, <1>3 DEF QuietBoot, NotPendingTwice, ServedEnabled, NeverStuck
  <1>5. CallsApart' /\ CallFresh' /\ EnabledHaveHandler'
    BY <1>2 DEF CallsApart, CallFresh, EnabledHaveHandler
  <1>6. QED
    BY <1>1, <1>4, <1>5

-----------------------------------------------------------------------------
(* The thread of a hart: registering, enabling and disabling *)

\* A registration: the table entry of a source only goes to a handler.
LEMMA RegisterIInv ==
    ASSUME IInv, NEW h \in Harts, NEW s \in Sources, NEW kind \in Kinds[s],
           Register(h, s, kind)
    PROVE  IInv'
  <1> USE DEF IInv, Register, soft, Idle
  <1>0. kind \in {"isr", "default"}
    BY KindsAssumption
  <1>1. TypeOK'
    BY <1>0 DEF TypeOK, Calls, NoCall
  <1>2. QuietBoot' /\ NotPendingTwice' /\ ServedEnabled' /\ NeverStuck'
    BY DEF QuietBoot, NotPendingTwice, ServedEnabled, NeverStuck, Serves
  <1>3. EnabledHaveHandler'
    BY DEF EnabledHaveHandler
  <1>4. tpc'[h] = kind /\ call'[h].s = s /\ call'[h].on
    BY DEF TypeOK, NoCall
  <1>5. \A g \in Harts : g # h => tpc'[g] = tpc[g] /\ call'[g] = call[g]
    BY DEF TypeOK
  <1>6. CallsApart'
    BY <1>0, <1>4, <1>5 DEF CallsApart
  <1>7. CallFresh'
    BY <1>0, <1>4, <1>5 DEF CallFresh
  <1>8. QED
    BY <1>1, <1>2, <1>3, <1>6, <1>7

\* The step that writes a handler into the table keeps the invariant.
LEMMA RegisterTableIInv == ASSUME IInv, NEW h \in Harts, RegisterTable(h)
                           PROVE  IInv'
  <1> USE DEF IInv, RegisterTable, hw
  <1>0. call[h].s \in Sources
    BY DEF CallsApart
  <1>1. TypeOK'
    BY <1>0 DEF TypeOK, Calls, NoCall
  <1>2. QuietBoot' /\ NotPendingTwice' /\ ServedEnabled' /\ NeverStuck'
    BY DEF QuietBoot, NotPendingTwice, ServedEnabled, NeverStuck, Serves
  <1>3. \A s \in Sources : isr[s] # "none" => isr'[s] # "none"
    BY <1>0 DEF TypeOK
  <1>4. EnabledHaveHandler'
    BY <1>3 DEF EnabledHaveHandler, TypeOK
  <1>5. tpc'[h] = "idle" /\ \A g \in Harts : g # h => tpc'[g] = tpc[g] /\ call'[g] = call[g]
    BY DEF TypeOK
  <1>6. CallsApart'
    BY <1>5 DEF CallsApart
  <1>7. CallFresh'
    BY <1>3, <1>5 DEF CallFresh, CallsApart
  <1>8. QED
    BY <1>1, <1>2, <1>4, <1>6, <1>7

\* An enable or disable call begins: no other is in progress, and what it
\* disables is silent.
LEMMA StartIInv ==
    ASSUME IInv, NEW h \in Harts, NEW s \in Sources, NEW on \in BOOLEAN,
           NEW mask \in SUBSET Contexts, NEW first \in Nat, NEW last \in Contexts,
           first \in Contexts \/ first > last,
           Start(h, s, on, mask, first, last)
    PROVE  IInv'
  <1> USE DEF IInv, Start, hw, soft, Idle
  <1>1. TypeOK'
    BY DEF TypeOK, Calls, Contexts
  <1>2. QuietBoot' /\ NotPendingTwice' /\ ServedEnabled' /\ NeverStuck'
    BY DEF QuietBoot, NotPendingTwice, ServedEnabled, NeverStuck, Serves
  <1>3. EnabledHaveHandler'
    BY DEF EnabledHaveHandler
  <1>4. /\ tpc'[h] = IF first <= last THEN "read" ELSE "ret"
        /\ call'[h] = [s |-> s, on |-> on, mask |-> mask,
                       at |-> first, last |-> last, current |-> {}]
    BY DEF TypeOK
  <1>5. \A g \in Harts : g # h => tpc'[g] = tpc[g] /\ call'[g] = call[g]
    BY DEF TypeOK
  <1>6. CallsApart'
    <2>1. tpc'[h] = "read" => first \in Contexts
      BY <1>4 DEF Contexts
    <2>2. QED
      BY <1>4, <1>5, <2>1 DEF CallsApart, Exclusive
  <1>7. CallFresh'
    BY <1>4, <1>5 DEF CallFresh
  <1>8. QED
    BY <1>1, <1>2, <1>3, <1>6, <1>7

\* So does reading an enable word,
LEMMA ReadWordIInv == ASSUME IInv, NEW h \in Harts, ReadWord(h)
                      PROVE  IInv'
  <1> USE DEF IInv, ReadWord, hw, soft
  <1>0. call[h].at \in Contexts
    BY DEF CallsApart
  <1>1. TypeOK'
    <2>1. call[h] \in Calls /\ enable[call[h].at] \in SUBSET Sources
      BY <1>0 DEF TypeOK
    <2>2. [call[h] EXCEPT !.current = enable[call[h].at]] \in Calls
      BY <2>1 DEF Calls
    <2>3. QED
      BY <2>2 DEF TypeOK
  <1>2. QuietBoot' /\ NotPendingTwice' /\ ServedEnabled' /\ NeverStuck'
    BY DEF QuietBoot, NotPendingTwice, ServedEnabled, NeverStuck, Serves
  <1>3. EnabledHaveHandler'
    BY DEF EnabledHaveHandler
  <1>4. /\ tpc'[h] = "write" /\ call'[h].current = enable[call'[h].at]
        /\ call'[h].s = call[h].s /\ call'[h].on = call[h].on
        /\ call'[h].at = call[h].at /\ call'[h].last = call[h].last
    BY DEF TypeOK, Calls
  <1>5. \A g \in Harts : g # h => tpc'[g] = tpc[g] /\ call'[g] = call[g]
    BY DEF TypeOK
  <1>6. CallsApart'
    BY <1>4, <1>5 DEF CallsApart
  <1>7. CallFresh'
    BY <1>4, <1>5 DEF CallFresh
  <1>8. QED
    BY <1>1, <1>2, <1>3, <1>6, <1>7

\* The write: by CallFresh the word is the one read, so that only the bit of
\* the call changes, and no bit of a source that is being served is cleared.
LEMMA WriteWordIInv == ASSUME IInv, NEW h \in Harts, WriteWord(h)
                       PROVE  IInv'
  <1> USE DEF IInv, WriteWord, soft
  <1> DEFINE s == call[h].s
             c == call[h].at
  <1>0. s \in Sources /\ c \in Contexts /\ call[h].last \in Contexts /\ call[h] \in Calls
    BY DEF CallsApart, TypeOK
  <1>1. /\ enable'[c] = IF call[h].on THEN enable[c] \cup {s} ELSE enable[c] \ {s}
        /\ \A d \in Contexts : d # c => enable'[d] = enable[d]
    BY <1>0 DEF CallFresh, Updated, TypeOK
  <1>2. TypeOK'
    <2>1. enable' \in [Contexts -> SUBSET Sources]
      BY <1>0, <1>1 DEF TypeOK
    <2>2. c + 1 \in Nat
      BY <1>0, SizeAssumption DEF Contexts
    <2>3. [call[h] EXCEPT !.at = c + 1, !.current = {}] \in Calls
      BY <1>0, <2>2 DEF Calls
    <2>4. call' \in [Harts -> Calls]
      BY <2>3 DEF TypeOK
    <2>5. QED
      BY <2>1, <2>4 DEF TypeOK
  <1>3. QuietBoot' /\ NotPendingTwice' /\ NeverStuck'
    BY DEF QuietBoot, NotPendingTwice, NeverStuck, Serves
  <1>4. ServedEnabled'
    <2>1. \A g \in Harts : idx[g] # 0 /\ ~call[h].on => idx[g] # s
      BY DEF ServedEnabled, CallFresh
    <2>2. \A g \in Harts : idx[g] # 0 => idx[g] \in enable'[ContextIds[g]]
      BY <1>0, <1>1, <2>1 DEF ServedEnabled
    <2>3. QED
      BY <2>2 DEF ServedEnabled
  <1>5. EnabledHaveHandler'
    BY <1>0, <1>1 DEF EnabledHaveHandler, CallFresh
  <1>6. /\ tpc'[h] = IF c < call[h].last THEN "read" ELSE "ret"
        /\ call'[h].s = s /\ call'[h].on = call[h].on
        /\ call'[h].at = c + 1 /\ call'[h].last = call[h].last
    BY <1>0 DEF TypeOK, Calls
  <1>7. \A g \in Harts : g # h => tpc'[g] = tpc[g] /\ call'[g] = call[g]
    BY DEF TypeOK
  <1>8. tpc[h] = "write" /\ \A g \in Harts : g # h => tpc[g] \notin {"read", "write", "ret"}
    BY DEF CallsApart
  <1>9. CallsApart'
    <2>1. tpc'[h] = "read" => c + 1 \in Contexts
      BY <1>0, <1>6, SizeAssumption DEF Contexts
    <2> HIDE DEF WriteWord, s, c
    <2>2. QED
      BY <1>0, <1>6, <1>7, <1>8, <2>1 DEF CallsApart
  <1>10. CallFresh'
    <2>1. UNCHANGED <<ip, busy, isr>>
      OBVIOUS
    <2>2. /\ tpc'[h] # "write"
          /\ ~call'[h].on => call'[h].s \notin ip \cup busy
          /\ call'[h].on => isr[call'[h].s] # "none"
      BY <1>6, <1>8 DEF CallFresh
    <2> HIDE DEF WriteWord, s, c
    <2>3. QED
      BY <1>7, <1>8, <2>1, <2>2 DEF CallFresh
  <1>11. QED
    BY <1>2, <1>3, <1>4, <1>5, <1>9, <1>10

\* the return of a call,
LEMMA ReturnIInv == ASSUME IInv, NEW h \in Harts, Return(h)
                    PROVE  IInv'
  <1> USE DEF IInv, Return, hw, soft
  <1>1. TypeOK'
    BY DEF TypeOK, Calls, NoCall
  <1>2. QuietBoot' /\ NotPendingTwice' /\ ServedEnabled' /\ NeverStuck'
    BY DEF QuietBoot, NotPendingTwice, ServedEnabled, NeverStuck, Serves
  <1>3. EnabledHaveHandler'
    BY DEF EnabledHaveHandler
  <1>4. tpc'[h] = "idle" /\ \A g \in Harts : g # h => tpc'[g] = tpc[g] /\ call'[g] = call[g]
    BY DEF TypeOK
  <1>5. CallsApart' /\ CallFresh'
    BY <1>4 DEF CallsApart, CallFresh
  <1>6. QED
    BY <1>1, <1>2, <1>3, <1>5

-----------------------------------------------------------------------------
(* The handler of a hart *)

\* the trap,
LEMMA TrapIInv == ASSUME IInv, NEW h \in Harts, Trap(h)
                  PROVE  IInv'
  <1> USE DEF IInv, Trap, hw, soft, Runs
  <1>1. TypeOK'
    BY DEF TypeOK
  <1>2. idx[h] = 0
    BY DEF ServedEnabled
  <1>3. \A g \in Harts : g # h => hpc'[g] = hpc[g]
    BY DEF TypeOK
  <1>4. QuietBoot' /\ NotPendingTwice' /\ ServedEnabled'
    BY <1>2, <1>3 DEF QuietBoot, NotPendingTwice, ServedEnabled
  <1>5. NeverStuck'
    BY <1>2, <1>3 DEF NeverStuck, Serves, TypeOK, Sources
  <1>6. CallsApart' /\ CallFresh' /\ EnabledHaveHandler'
    BY DEF CallsApart, CallFresh, EnabledHaveHandler
  <1>7. QED
    BY <1>1, <1>4, <1>5, <1>6

\* The claim: a source that is pending is not served by anybody.
LEMMA ClaimIInv == ASSUME IInv, NEW h \in Harts, Claim(h)
                   PROVE  IInv'
  <1> USE DEF IInv, soft
  <1>0. hpc[h] = "claim" /\ inited /\ hpc' = [hpc EXCEPT ![h] = "call"]
    BY DEF Claim, QuietBoot
  <1>1. UNCHANGED <<prio, enable, thr, soft, tpc, call>>
    BY DEF Claim
  <1>2. idx[h] = 0
    BY <1>0 DEF ServedEnabled
  <1>3. hpc'[h] = "call" /\ \A g \in Harts : g # h => hpc'[g] = hpc[g]
    BY <1>0 DEF TypeOK
  <1>4. CASE \E s \in Sources :
                 /\ ContextIds[h] \in Contexts /\ Best(ContextIds[h], s)
                 /\ idx' = [idx EXCEPT ![h] = s]
                 /\ ip' = ip \ {s}
                 /\ busy' = busy \cup {s}
    <2>1. PICK s \in Sources :
                 /\ ContextIds[h] \in Contexts /\ Best(ContextIds[h], s)
                 /\ idx' = [idx EXCEPT ![h] = s]
                 /\ ip' = ip \ {s}
                 /\ busy' = busy \cup {s}
      BY <1>4
    <2>2. s \in ip /\ s \in enable[ContextIds[h]] /\ s \notin busy
      BY <2>1 DEF Best, Candidates, NotPendingTwice
    <2>3. idx'[h] = s /\ \A g \in Harts : g # h => idx'[g] = idx[g]
      BY <2>1 DEF TypeOK
    <2>4. TypeOK'
      BY <1>0, <1>1, <2>1 DEF TypeOK
    <2>5. QuietBoot' /\ NotPendingTwice'
      BY <1>0, <1>1, <2>1 DEF QuietBoot, NotPendingTwice
    <2>6. \A g \in Harts : idx[g] # s
      BY <2>2 DEF ServedEnabled, Sources
    <2>7. ServedEnabled'
      BY <1>1, <1>3, <2>1, <2>2, <2>3, <2>6 DEF ServedEnabled
    <2>8. NeverStuck'
      BY <1>2, <1>3, <2>1, <2>3 DEF NeverStuck, Serves, TypeOK, Sources
    <2>9. CallsApart' /\ CallFresh' /\ EnabledHaveHandler'
      BY <1>1, <2>1, <2>2 DEF CallsApart, CallFresh, EnabledHaveHandler
    <2>10. QED
      BY <2>4, <2>5, <2>7, <2>8, <2>9
  <1>5. CASE idx' = [idx EXCEPT ![h] = 0] /\ UNCHANGED <<ip, busy>>
    <2>1. idx' = idx
      BY <1>2, <1>5 DEF TypeOK
    <2>2. TypeOK'
      BY <1>0, <1>1, <1>5, <2>1 DEF TypeOK
    <2>3. QuietBoot' /\ NotPendingTwice' /\ ServedEnabled'
      BY <1>0, <1>1, <1>2, <1>3, <1>5, <2>1 DEF QuietBoot, NotPendingTwice, ServedEnabled
    <2>4. NeverStuck'
      BY <1>3, <1>5, <2>1 DEF NeverStuck, Serves
    <2>5. CallsApart' /\ CallFresh' /\ EnabledHaveHandler'
      BY <1>1, <1>5 DEF CallsApart, CallFresh, EnabledHaveHandler
    <2>6. QED
      BY <2>2, <2>3, <2>4, <2>5
  <1>6. QED
    BY <1>4, <1>5 DEF Claim

\* the call of the handler,
LEMMA CallIsrIInv == ASSUME IInv, NEW h \in Harts, CallIsr(h)
                     PROVE  IInv'
  <1> USE DEF IInv, CallIsr, hw, soft
  <1>1. hpc'[h] \in {"complete", "halt"} /\ \A g \in Harts : g # h => hpc'[g] = hpc[g]
    BY DEF TypeOK
  <1>2. TypeOK'
    BY DEF TypeOK
  <1>3. QuietBoot' /\ NotPendingTwice'
    BY DEF QuietBoot, NotPendingTwice
  <1>4. ServedEnabled' /\ NeverStuck'
    BY <1>1 DEF ServedEnabled, NeverStuck, Serves
  <1>5. CallsApart' /\ CallFresh' /\ EnabledHaveHandler'
    BY DEF CallsApart, CallFresh, EnabledHaveHandler
  <1>6. QED
    BY <1>2, <1>3, <1>4, <1>5

\* The completion: by ServedEnabled the source is enabled for the context it
\* was claimed from, so the controller does not ignore it.
LEMMA CompleteIInv == ASSUME IInv, NEW h \in Harts, Complete(h)
                      PROVE  IInv'
  <1> USE DEF IInv, soft
  <1>0. /\ hpc[h] = "complete" /\ hpc' = [hpc EXCEPT ![h] = "idle"]
        /\ idx' = [idx EXCEPT ![h] = 0]
        /\ UNCHANGED <<prio, enable, thr, ip, soft, tpc, call>>
    BY DEF Complete
  <1>1. /\ hpc'[h] = "idle" /\ idx'[h] = 0
        /\ \A g \in Harts : g # h => hpc'[g] = hpc[g] /\ idx'[g] = idx[g]
    BY <1>0 DEF TypeOK
  <1>2. busy' = busy \ {idx[h]}
    <2>1. CASE idx[h] # 0
      BY <2>1 DEF Complete, ServedEnabled
    <2>2. CASE idx[h] = 0
      BY <2>2 DEF Complete, TypeOK, Sources
    <2>3. QED
      BY <2>1, <2>2
  <1>3. TypeOK'
    BY <1>0, <1>2 DEF TypeOK
  <1>4. QuietBoot' /\ NotPendingTwice'
    BY <1>0, <1>2 DEF QuietBoot, NotPendingTwice
  <1>5. ServedEnabled'
    BY <1>0, <1>1, <1>2 DEF ServedEnabled
  <1>6. NeverStuck'
    BY <1>1, <1>2 DEF NeverStuck, Serves
  <1>7. CallsApart' /\ CallFresh' /\ EnabledHaveHandler'
    BY <1>0, <1>2 DEF CallsApart, CallFresh, EnabledHaveHandler
  <1>8. QED
    BY <1>3, <1>4, <1>5, <1>6, <1>7

-----------------------------------------------------------------------------
(* The invariant *)

\* and every step.
LEMMA NextIInv == IInv /\ [Next]_vars => IInv'
  <1> SUFFICES ASSUME IInv, [Next]_vars
               PROVE IInv'
    OBVIOUS
  <1>1. ASSUME NEW h \in Harts, Thread(h)
        PROVE IInv'
    <2>1. ASSUME NEW s \in Sources, NEW p \in Levels, SetPriority(h, s, p)
          PROVE IInv'
      <3>1. LevelStep
        BY <2>1, LevelsAssumption DEF SetPriority, LevelStep, IInv, TypeOK
      <3>2. QED
        BY <3>1, LevelIInv
    <2>2. ASSUME NEW s \in Sources, NEW kind \in Kinds[s], Register(h, s, kind)
          PROVE IInv'
      BY <2>2, RegisterIInv
    <2>3. ASSUME NEW s \in Sources, NEW on \in BOOLEAN, SetEnable(h, s, on)
          PROVE IInv'
      <3>1. h \in Contexts /\ h \in Nat /\ {h} \in SUBSET Contexts
        BY DEF Harts, Contexts
      <3>2. Start(h, s, on, {h}, h, h)
        BY <2>3 DEF SetEnable
      <3>3. QED
        BY <3>1, <3>2, StartIInv
    <2>4. ASSUME NEW s \in Sources, NEW on \in BOOLEAN, NEW m \in Masks,
                 AffinityEnable(h, s, on, m)
          PROVE IInv'
      <3>1. PICK last \in m : Start(h, s, on, m, 1, last)
        BY <2>4 DEF AffinityEnable
      <3>2. m \in SUBSET Contexts /\ last \in Contexts
        BY MasksAssumption
      <3>3. 1 \in Nat /\ (1 \in Contexts \/ 1 > last)
        BY <3>2, SizeAssumption DEF Contexts
      <3>4. QED
        BY <3>1, <3>2, <3>3, StartIInv
    <2>5. ASSUME NEW t \in Levels, SetThreshold(h, t)
          PROVE IInv'
      <3>1. LevelStep
        BY <2>5, LevelsAssumption DEF SetThreshold, LevelStep, IInv, TypeOK
      <3>2. QED
        BY <3>1, LevelIInv
    <2>6. ASSUME NEW t \in Levels, NEW m \in Masks, AffinityThreshold(h, m, t)
          PROVE IInv'
      <3>1. LevelStep
        BY <2>6, LevelsAssumption DEF AffinityThreshold, LevelStep, IInv, TypeOK
      <3>2. QED
        BY <3>1, LevelIInv
    <2>7. QED
      BY <1>1, <2>1, <2>2, <2>3, <2>4, <2>5, <2>6, PlicInitIInv, RegisterTableIInv,
         ReadWordIInv, WriteWordIInv, ReturnIInv DEF Thread
  <1>2. ASSUME NEW h \in Harts, Trap(h) \/ Handle(h)
        PROVE IInv'
    BY <1>2, TrapIInv, ClaimIInv, CallIsrIInv, CompleteIInv DEF Handle
  <1>3. CASE UNCHANGED vars
    <2>1. LevelStep
      BY <1>3 DEF vars, hw, soft, LevelStep, IInv, TypeOK
    <2>2. QED
      BY <2>1, LevelIInv
  <1>4. QED
    BY <1>1, <1>2, <1>3, RaiseIInv DEF Next

\* The inductive invariant holds always.
LEMMA Invariant == Spec => []IInv
  BY InitIInv, NextIInv, PTL DEF Spec

-----------------------------------------------------------------------------
(* What follows from it *)

\* The variables keep their types.
THEOREM TypeCorrect == Spec => []TypeOK
  <1>1. IInv => TypeOK
    BY DEF IInv
  <1>2. QED
    BY <1>1, Invariant, PTL

\* Whatever contexts a source is enabled for, and whatever the context ids of
\* the board are, no two harts serve it at a time.
THEOREM ServedOnce == Spec => []ServedByOne
  <1>1. IInv => ServedByOne
    BY DEF IInv, ServedByOne, ServedEnabled, Serves, Sources
  <1>2. QED
    BY <1>1, Invariant, PTL

\* Every claimed source is being served: no completion is ignored, provided
\* enable and disable calls exclude each other and silence what they disable.
THEOREM NothingStuck == Spec => []NeverStuck
  <1>1. IInv => NeverStuck
    BY DEF IInv
  <1>2. QED
    BY <1>1, Invariant, PTL

\* The handler always finds a registered handler for what it has claimed.
THEOREM HandlerFound == Spec => []ClaimHasHandler
  <1>1. IInv => ClaimHasHandler
    <2> SUFFICES ASSUME IInv, NEW h \in Harts, hpc[h] = "call", idx[h] # 0
                 PROVE isr[idx[h]] # "none"
      BY DEF ClaimHasHandler
    <2>1. inited
      BY DEF IInv, QuietBoot
    <2>2. QED
      BY <2>1 DEF IInv, ServedEnabled, EnabledHaveHandler
  <1>2. QED
    BY <1>1, Invariant, PTL


-----------------------------------------------------------------------------
(* What an enable or disable call does *)

\* The loop of for_each_metal_affinity visits every context from 1 to the highest in
\* the mask.  So it visits all that are asked for when 0 is not, and no others when
\* the mask has no gaps.
Gapless(m) == \A c \in m : \A b \in 1 .. c : b \in m

InCall(h) == tpc[h] \in {"read", "write", "ret"}

\* Behind the context a call is at, it has done what it was asked to, and nothing that
\* it was asked is ahead of the last.
Progress ==
    \A h \in Harts : InCall(h) =>
        /\ call[h].mask \subseteq Contexts
        /\ \A c \in call[h].mask : c <= call[h].last
        /\ \A c \in call[h].mask : c < call[h].at => (call[h].s \in enable[c] <=> call[h].on)
        /\ tpc[h] = "ret" => call[h].last < call[h].at

\* From where a call is to the last context, it was asked for every one.
OnlyMask ==
    \A h \in Harts : InCall(h) =>
        /\ tpc[h] # "ret" => call[h].at <= call[h].last
        /\ \A b \in Contexts : call[h].at <= b /\ b <= call[h].last => b \in call[h].mask

\* A step that neither touches a call between its read and its return nor an enable
\* word keeps both.
LEMMA ProgressAside ==
    ASSUME enable' = enable,
           \A h \in Harts : InCall(h)' => InCall(h) /\ tpc'[h] = tpc[h] /\ call'[h] = call[h]
    PROVE  (Progress => Progress') /\ (OnlyMask => OnlyMask')
  BY DEF Progress, OnlyMask, InCall

\* The start of a call: nothing is behind it yet.
LEMMA ProgressStart ==
    ASSUME IInv, NEW h \in Harts, NEW s \in Sources, NEW on \in BOOLEAN,
           NEW mask \in SUBSET Contexts, NEW first \in Nat, NEW last \in Contexts,
           \A c \in mask : c <= last,
           Start(h, s, on, mask, first, last)
    PROVE  /\ (\A c \in mask : first <= c) /\ Progress => Progress'
           /\ (\A b \in Contexts : first <= b /\ b <= last => b \in mask) /\ OnlyMask => OnlyMask'
  <1> USE DEF Start, hw, soft
  <1>1. /\ tpc'[h] = IF first <= last THEN "read" ELSE "ret"
        /\ call'[h] = [s |-> s, on |-> on, mask |-> mask,
                       at |-> first, last |-> last, current |-> {}]
    BY DEF IInv, TypeOK
  <1>2. \A g \in Harts : g # h => tpc'[g] = tpc[g] /\ call'[g] = call[g]
    BY DEF IInv, TypeOK
  <1>3. last \in Int /\ first \in Int /\ Contexts \subseteq Int
    BY DEF Contexts
  <1> DEFINE k == [s |-> s, on |-> on, mask |-> mask, at |-> first, last |-> last, current |-> {}]
  <1>4. /\ k.mask = mask /\ k.at = first /\ k.last = last
        /\ call'[h] = k
        /\ tpc'[h] = IF first <= last THEN "read" ELSE "ret"
    BY <1>1, <1>3
  <1>5. enable' = enable
    OBVIOUS
  <1> HIDE DEF Start, k
  <1>6. /\ call'[h].mask = mask /\ call'[h].at = first /\ call'[h].last = last
        /\ tpc'[h] = "ret" => last < first
        /\ tpc'[h] # "ret" => first <= last
    <2>1. tpc'[h] = "ret" => ~(first <= last)
      BY <1>4
    <2>2. tpc'[h] # "ret" => first <= last
      BY <1>4
    <2>3. last \in Int
      BY <1>3
    <2>4. QED
      BY <1>3, <1>4, <2>1, <2>2, <2>3
  <1>7. ASSUME \A c \in mask : first <= c, Progress
        PROVE  Progress'
    <2>1. \A c \in mask : ~(c < first)
      BY <1>3, <1>7
    <2>2. QED
      BY <1>2, <1>4, <1>5, <1>6, <1>7, <2>1 DEF Progress, InCall
  <1>8. ASSUME \A b \in Contexts : first <= b /\ b <= last => b \in mask, OnlyMask
        PROVE  OnlyMask'
    BY <1>2, <1>6, <1>8 DEF OnlyMask, InCall
  <1>9. QED
    BY <1>7, <1>8

\* The write of a word: the context it is for is done then, and the others keep
\* what they have.
LEMMA ProgressWrite ==
    ASSUME IInv, NEW h \in Harts, WriteWord(h)
    PROVE  /\ Progress => Progress'
           /\ OnlyMask => OnlyMask' /\ call[h].at \in call[h].mask
           /\ \A c \in Contexts, s \in Sources :
                 (s \in enable[c]) # (s \in enable'[c]) => c = call[h].at /\ s = call[h].s
  <1> DEFINE s == call[h].s
             c == call[h].at
             last == call[h].last
             mask == call[h].mask
             on == call[h].on
  <1>0. s \in Sources /\ c \in Contexts /\ last \in Contexts /\ call[h] \in Calls /\ tpc[h] = "write"
    BY DEF WriteWord, IInv, CallsApart, TypeOK
  <1>1. /\ enable'[c] = IF on THEN enable[c] \cup {s} ELSE enable[c] \ {s}
        /\ \A d \in Contexts : d # c => enable'[d] = enable[d]
    BY <1>0 DEF WriteWord, IInv, CallFresh, Updated, TypeOK
  <1>2. /\ tpc'[h] = IF c < last THEN "read" ELSE "ret"
        /\ call'[h].s = s /\ call'[h].on = on /\ call'[h].mask = mask
        /\ call'[h].at = c + 1 /\ call'[h].last = last
    BY <1>0 DEF WriteWord, IInv, TypeOK, Calls
  <1>3. \A g \in Harts : g # h => tpc'[g] = tpc[g] /\ call'[g] = call[g]
    BY DEF WriteWord, IInv, TypeOK
  <1>4. \A g \in Harts : g # h => ~InCall(g)
    BY <1>0 DEF IInv, CallsApart, InCall
  <1>5. c \in Int /\ last \in Int /\ Contexts \subseteq Int
    BY <1>0 DEF Contexts
  <1>6. ASSUME Progress
        PROVE  Progress'
    <2>1. /\ mask \subseteq Contexts /\ \A b \in mask : b <= last
          /\ \A b \in mask : b < c => (s \in enable[b] <=> on)
      BY <1>0, <1>6 DEF Progress, InCall
    <2> HIDE DEF s, c, last, mask, on
    <2>2. \A b \in mask : b < c + 1 => (s \in enable'[b] <=> on)
      BY <1>0, <1>1, <1>5, <2>1
    <2>3. tpc'[h] = "ret" => last < c + 1
      BY <1>2, <1>5
    <2>4. QED
      BY <1>2, <1>3, <1>4, <2>1, <2>2, <2>3 DEF Progress, InCall
  <1>7. ASSUME OnlyMask
        PROVE  OnlyMask' /\ c \in mask
    <2>1. c <= last /\ \A b \in Contexts : c <= b /\ b <= last => b \in mask
      BY <1>0, <1>7 DEF OnlyMask, InCall
    <2> HIDE DEF s, c, last, mask, on
    <2>2. /\ tpc'[h] # "ret" => c + 1 <= last
          /\ \A b \in Contexts : c + 1 <= b /\ b <= last => b \in mask
      BY <1>2, <1>5, <2>1
    <2>3. c \in mask
      BY <1>0, <1>5, <2>1
    <2>4. QED
      BY <1>2, <1>3, <1>4, <2>2, <2>3 DEF OnlyMask, InCall
  <1>8. QED
    BY <1>1, <1>6, <1>7

\* Every step keeps them, when the masks are such.
LEMMA ProgressNext ==
    ASSUME IInv, [Next]_vars
    PROVE  /\ (\A m \in Masks : 0 \notin m) /\ Progress => Progress'
           /\ (\A m \in Masks : Gapless(m)) /\ OnlyMask => OnlyMask'
  <1> DEFINE Kept == /\ (\A m \in Masks : 0 \notin m) /\ Progress => Progress'
                     /\ (\A m \in Masks : Gapless(m)) /\ OnlyMask => OnlyMask'
  <1> USE DEF soft, hw
  <1>1. ASSUME NEW h \in Harts, NEW s \in Sources, NEW on \in BOOLEAN, SetEnable(h, s, on)
        PROVE  Kept
    <2>1. h \in Contexts /\ h \in Nat /\ {h} \in SUBSET Contexts
      BY DEF Harts, Contexts
    <2>2. /\ \A c \in {h} : h <= c /\ c <= h
          /\ \A b \in Contexts : h <= b /\ b <= h => b \in {h}
      BY <2>1 DEF Contexts
    <2>3. Start(h, s, on, {h}, h, h)
      BY <1>1 DEF SetEnable
    <2>4. QED
      BY <2>1, <2>2, <2>3, ProgressStart
  <1>2. ASSUME NEW h \in Harts, NEW s \in Sources, NEW on \in BOOLEAN, NEW m \in Masks,
               AffinityEnable(h, s, on, m)
        PROVE  Kept
    <2>1. PICK last \in m : (\A c \in m : c <= last) /\ Start(h, s, on, m, 1, last)
      BY <1>2 DEF AffinityEnable
    <2>2. m \in SUBSET Contexts /\ last \in Contexts /\ 1 \in Nat
      BY MasksAssumption
    <2>3. 0 \notin m => \A c \in m : 1 <= c
      BY <2>2 DEF Contexts
    <2>4. Gapless(m) => \A b \in Contexts : 1 <= b /\ b <= last => b \in m
      BY <2>2 DEF Gapless, Contexts
    <2>5. QED
      BY <2>1, <2>2, <2>3, <2>4, ProgressStart
  <1>3. ASSUME NEW h \in Harts, ReadWord(h)
        PROVE  Kept
    <2>1. /\ tpc[h] = "read" /\ tpc'[h] = "write" /\ enable' = enable
          /\ call'[h].s = call[h].s /\ call'[h].on = call[h].on /\ call'[h].mask = call[h].mask
          /\ call'[h].at = call[h].at /\ call'[h].last = call[h].last
      BY <1>3 DEF ReadWord, IInv, TypeOK, Calls
    <2>2. \A g \in Harts : g # h => tpc'[g] = tpc[g] /\ call'[g] = call[g]
      BY <1>3 DEF ReadWord, IInv, TypeOK
    <2>3. QED
      BY <2>1, <2>2 DEF Progress, OnlyMask, InCall
  <1>4. ASSUME NEW h \in Harts, WriteWord(h)
        PROVE  Kept
    BY <1>4, ProgressWrite
  <1>5. ASSUME NEW h \in Harts, PlicInit(h)
        PROVE  Kept
    BY <1>5 DEF PlicInit, IInv, QuietBoot, Progress, OnlyMask, InCall
  <1>6. ASSUME NEW h \in Harts,
               RegisterTable(h) \/ Return(h) \/ \E s \in Sources : \E kind \in Kinds[s] : Register(h, s, kind)
        PROVE  Kept
    <2>1. /\ tpc'[h] \in {"idle", "isr", "default"} /\ enable' = enable
          /\ \A g \in Harts : g # h => tpc'[g] = tpc[g] /\ call'[g] = call[g]
      <3>1. CASE RegisterTable(h) \/ Return(h)
        BY <3>1 DEF RegisterTable, Return, IInv, TypeOK
      <3>2. ASSUME NEW s \in Sources, NEW kind \in Kinds[s], Register(h, s, kind)
            PROVE  /\ tpc'[h] \in {"idle", "isr", "default"} /\ enable' = enable
                   /\ \A g \in Harts : g # h => tpc'[g] = tpc[g] /\ call'[g] = call[g]
        <4>1. kind \in {"isr", "default"}
          BY KindsAssumption
        <4>2. QED
          BY <3>2, <4>1 DEF Register, IInv, TypeOK
      <3>3. QED
        BY <1>6, <3>1, <3>2
    <2>2. QED
      BY <2>1, ProgressAside DEF InCall
  <1>7. CASE UNCHANGED <<enable, tpc, call>>
    BY <1>7, ProgressAside DEF InCall
  <1>8. ASSUME NEW h \in Harts, Trap(h) \/ Handle(h)
        PROVE  UNCHANGED <<enable, tpc, call>>
    BY <1>8 DEF Trap, Handle, Claim, CallIsr, Complete
  <1>9. ASSUME NEW s \in Sources, Raise(s)
        PROVE  UNCHANGED <<enable, tpc, call>>
    BY <1>9 DEF Raise
  <1>10. ASSUME NEW h \in Harts,
                \/ \E s \in Sources, p \in Levels : SetPriority(h, s, p)
                \/ \E t \in Levels : SetThreshold(h, t)
                \/ \E t \in Levels, m \in Masks : AffinityThreshold(h, m, t)
         PROVE  UNCHANGED <<enable, tpc, call>>
    BY <1>10 DEF SetPriority, SetThreshold, AffinityThreshold
  <1>11. UNCHANGED vars => UNCHANGED <<enable, tpc, call>>
    BY DEF vars
  <1>12. ASSUME NEW h \in Harts, Thread(h)
         PROVE  Kept
    BY <1>12, <1>1, <1>2, <1>3, <1>4, <1>5, <1>6, <1>7, <1>10 DEF Thread
  <1>13. QED
    BY <1>7, <1>8, <1>9, <1>11, <1>12 DEF Next

LEMMA ProgressInit == Init => Progress /\ OnlyMask
  BY DEF Init, Progress, OnlyMask, InCall

\* CallTakesEffectHolds: unless a mask names context 0, an enable or disable call that
\* returns has done in every context what it was asked to, whatever the harts do with
\* their own contexts, with their claims and with their registrations meanwhile.
THEOREM CallTakesEffectHolds ==
    ASSUME \A m \in Masks : 0 \notin m
    PROVE  Spec => []CallTakesEffect
  <1>1. IInv /\ Progress => CallTakesEffect
    <2> SUFFICES ASSUME IInv, Progress, NEW h \in Harts, tpc[h] = "ret", NEW c \in call[h].mask
                 PROVE  call[h].s \in enable[c] <=> call[h].on
      BY DEF CallTakesEffect
    <2>1. /\ c \in Int /\ c <= call[h].last /\ call[h].last < call[h].at
          /\ c < call[h].at => (call[h].s \in enable[c] <=> call[h].on)
      BY DEF Progress, InCall, Contexts
    <2>2. call[h].last \in Int /\ call[h].at \in Int
      BY DEF IInv, TypeOK, Calls
    <2>3. QED
      BY <2>1, <2>2
  <1>2. IInv /\ Progress /\ [Next]_vars => Progress'
    BY ProgressNext
  <1>3. QED
    BY <1>1, <1>2, ProgressInit, Invariant, PTL DEF Spec

\* EnableOnlyAskedHolds: unless a mask has gaps, which the loop over its bits fills,
\* an enable bit changes only for a call that names its source and its context; no
\* write of a whole word undoes what another call did.
THEOREM EnableOnlyAskedHolds ==
    ASSUME \A m \in Masks : Gapless(m)
    PROVE  Spec => EnableOnlyAsked
  <1>1. ASSUME IInv, OnlyMask, [Next]_vars, inited, NEW c \in Contexts, NEW s \in Sources,
               (s \in enable[c]) # (s \in enable'[c])
        PROVE  \E h \in Harts : tpc[h] = "write" /\ call[h].s = s /\ c \in call[h].mask
    <2>1. ASSUME NEW h \in Harts, Thread(h)
          PROVE  WriteWord(h) \/ enable' = enable
      BY <1>1, <2>1 DEF Thread, PlicInit, RegisterTable, ReadWord, Return, SetPriority, Register, SetEnable,
                        AffinityEnable, Start, SetThreshold, AffinityThreshold, hw
    <2>2. ASSUME NEW h \in Harts, Trap(h) \/ Handle(h)
          PROVE  enable' = enable
      BY <2>2 DEF Trap, Handle, Claim, CallIsr, Complete, hw
    <2>3. (\E t \in Sources : Raise(t)) => enable' = enable
      BY DEF Raise
    <2>4. UNCHANGED vars => enable' = enable
      BY DEF vars, hw
    <2>5. PICK h \in Harts : WriteWord(h)
      BY <1>1, <2>1, <2>2, <2>3, <2>4 DEF Next
    <2>6. call[h].at \in call[h].mask /\ c = call[h].at /\ s = call[h].s
      BY <1>1, <2>5, ProgressWrite
    <2>7. QED
      BY <2>5, <2>6 DEF WriteWord
  <1>2. IInv /\ OnlyMask /\ [Next]_vars => OnlyMask'
    BY ProgressNext
  <1>3. IInv /\ OnlyMask /\ [Next]_vars =>
            [inited => \A c \in Contexts, s \in Sources :
                (s \in enable[c]) # (s \in enable'[c]) =>
                    \E h \in Harts : tpc[h] = "write" /\ call[h].s = s /\ c \in call[h].mask]_vars
    BY <1>1
  <1>4. QED
    BY <1>2, <1>3, ProgressInit, Invariant, PTL DEF Spec, EnableOnlyAsked
=============================================================================

-------------------------------- MODULE Plic --------------------------------
(***************************************************************************)
(* The platform-level interrupt controller as metal/src/drivers/           *)
(* riscv_plic0.c drives it: each hart has a context with enable bits and a *)
(* threshold; the handler of a hart claims a source, calls the handler     *)
(* registered for it and completes it, while the threads of all harts      *)
(* register handlers and change enable bits and thresholds of any context. *)
(*                                                                         *)
(* The controller itself is external: a source that is claimed is not      *)
(* pending again before its completion, a claim takes the pending enabled  *)
(* source of highest priority, and a completion for a source the context   *)
(* has not enabled is ignored.                                             *)
(***************************************************************************)
EXTENDS Integers

CONSTANTS
    N,              \* number of harts, and of contexts (__METAL_PLIC_NUM_PARENTS)
    NumSources,     \* source ids go from 1 to this, below num_interrupts
    MaxPriority,    \* __metal_driver_sifive_plic0_max_priority
    ContextIds,     \* __metal_driver_sifive_plic0_context_ids
    Masks,          \* the bit masks the application passes to affinity calls
    Levels,         \* the thresholds and priorities it sets
    Kinds           \* what it registers for each source: a handler or NULL

Harts    == 0 .. N - 1
Contexts == 0 .. N - 1
Sources  == 1 .. NumSources

ASSUME SizeAssumption == N \in Nat \ {0} /\ NumSources \in Nat /\ MaxPriority \in Nat
ASSUME IdsAssumption == ContextIds \in [Harts -> Int]
ASSUME MasksAssumption == Masks \subseteq SUBSET Contexts
ASSUME LevelsAssumption == Levels \subseteq Nat
ASSUME KindsAssumption == Kinds \in [Sources -> SUBSET {"isr", "default"}]

VARIABLES
    prio,           \* the priority register of each source
    enable,         \* the enable bits of each context
    thr,            \* the threshold register of each context
    ip,             \* the sources pending
    busy,           \* the sources claimed and not completed
    inited,         \* init_done
    isr,            \* metal_exint_table
    tpc,            \* where the thread of each hart is
    call,           \* the arguments and locals of its call
    hpc,            \* where the interrupt handler of each hart is
    idx             \* idx of __metal_plic0_handler on each hart

hw   == <<prio, enable, thr, ip, busy>>
soft == <<inited, isr>>
vars == <<hw, soft, tpc, call, hpc, idx>>

\* A call of an enable or affinity function: the source, whether it enables,
\* the contexts asked for, the one it is at, the last one, and the word read.
NoCall == [s |-> 0, on |-> FALSE, mask |-> {}, at |-> 0, last |-> 0, current |-> {}]

\* The registers have no reset value.
Init ==
    /\ prio \in [Sources -> Levels]
    /\ enable \in [Contexts -> SUBSET Sources]
    /\ thr \in [Contexts -> Levels]
    /\ ip = {} /\ busy = {}
    /\ inited = FALSE
    /\ isr = [s \in Sources |-> "none"]
    /\ tpc = [h \in Harts |-> "idle"]
    /\ call = [h \in Harts |-> NoCall]
    /\ hpc = [h \in Harts |-> "idle"]
    /\ idx = [h \in Harts |-> 0]

-----------------------------------------------------------------------------
(* The controller *)

\* The sources a context can be interrupted by.
Candidates(c) == {s \in ip : s \in enable[c] /\ prio[s] > 0}

\* The external interrupt of the hart whose context this is.
Asserted(c) == \E s \in Candidates(c) : prio[s] > thr[c]

\* The claim register of a context: the highest priority, then the lowest id.
Best(c, s) ==
    /\ s \in Candidates(c)
    /\ \A t \in Candidates(c) : prio[t] < prio[s] \/ (prio[t] = prio[s] /\ s <= t)

\* The application silences a device before it disables its source.
Quiet(s) == \E h \in Harts : tpc[h] # "idle" /\ call[h].s = s /\ ~call[h].on

Raise(s) ==
    /\ inited /\ s \notin ip \cup busy /\ ~Quiet(s)
    /\ ip' = ip \cup {s}
    /\ UNCHANGED <<prio, enable, thr, busy, soft, tpc, call, hpc, idx>>

-----------------------------------------------------------------------------
(* The thread of a hart *)

Runs(h) == hpc[h] = "idle"

\* Mutation of PlicInit: init_done is not tested.
PlicInitAgain(h) ==
    /\ Runs(h) /\ tpc[h] = "idle"
    /\ enable' = [c \in Contexts |-> {}]
    /\ prio' = IF MaxPriority > 0 THEN [s \in Sources |-> 0] ELSE prio
    /\ thr' = [c \in Contexts |-> 0]
    /\ isr' = [s \in Sources |-> "none"]
    /\ inited' = TRUE
    /\ UNCHANGED <<ip, busy, tpc, call, hpc, idx>>

PlicInit(h) ==
    /\ Runs(h) /\ tpc[h] = "idle" /\ ~inited
    /\ enable' = [c \in Contexts |-> {}]
    /\ prio' = IF MaxPriority > 0 THEN [s \in Sources |-> 0] ELSE prio
    /\ thr' = [c \in Contexts |-> 0]
    /\ isr' = [s \in Sources |-> "none"]
    /\ inited' = TRUE
    /\ UNCHANGED <<ip, busy, tpc, call, hpc, idx>>

Idle(h) == inited /\ Runs(h) /\ tpc[h] = "idle"

\* The strict comparison of __metal_driver_riscv_plic0_set_priority.
Accepted(p) == MaxPriority > 0 /\ p < MaxPriority

SetPriority(h, s, p) ==
    /\ Idle(h)
    /\ Accepted(p)
    /\ prio' = [prio EXCEPT ![s] = p]
    /\ UNCHANGED <<enable, thr, ip, busy, soft, tpc, call, hpc, idx>>

\* register: the priority first, whose failure is ignored, ...
Register(h, s, kind) ==
    LET p == IF kind = "isr" THEN 2 ELSE 1
    IN  /\ Idle(h)
        /\ prio' = IF Accepted(p) THEN [prio EXCEPT ![s] = p] ELSE prio
        /\ tpc' = [tpc EXCEPT ![h] = kind]
        /\ call' = [call EXCEPT ![h] = [NoCall EXCEPT !.s = s, !.on = TRUE]]
        /\ UNCHANGED <<enable, thr, ip, busy, soft, hpc, idx>>

\* ... then the table.
RegisterTable(h) ==
    /\ Runs(h) /\ tpc[h] \in {"isr", "default"}
    /\ isr' = [isr EXCEPT ![call[h].s] = tpc[h]]
    /\ tpc' = [tpc EXCEPT ![h] = "idle"]
    /\ call' = [call EXCEPT ![h] = NoCall]
    /\ UNCHANGED <<hw, inited, hpc, idx>>

(***************************************************************************)
(* Enable and disable, for the context with the number of the hart and for *)
(* a mask of contexts.  The application registers a handler before it      *)
(* enables a source, and the calls of different harts exclude each other   *)
(* (lock.h), for the enable word is read and written back.                 *)
(***************************************************************************)
Exclusive == \A h \in Harts : tpc[h] \notin {"read", "write", "ret"}

Start(h, s, on, mask, first, last) ==
    /\ Idle(h)
    /\ Exclusive
    /\ IF on THEN isr[s] # "none" ELSE s \notin ip \cup busy
    /\ call' = [call EXCEPT ![h] = [s |-> s, on |-> on, mask |-> mask,
                                    at |-> first, last |-> last, current |-> {}]]
    /\ tpc' = [tpc EXCEPT ![h] = IF first <= last THEN "read" ELSE "ret"]
    /\ UNCHANGED <<hw, soft, hpc, idx>>

SetEnable(h, s, on) == Start(h, s, on, {h}, h, h)

\* for_each_metal_affinity goes up to the highest bit of the mask and does not
\* test the bits below; the body leaves out context 0.
AffinityEnable(h, s, on, mask) ==
    \E last \in mask : (\A c \in mask : c <= last) /\ Start(h, s, on, mask, 1, last)

ReadWord(h) ==
    /\ Runs(h) /\ tpc[h] = "read"
    /\ call' = [call EXCEPT ![h].current = enable[call[h].at]]
    /\ tpc' = [tpc EXCEPT ![h] = "write"]
    /\ UNCHANGED <<hw, soft, hpc, idx>>

\* Mutations of Updated: the bit is always set; the other bits of the word are
\* not kept.
UpdatedSet(k) == k.current \cup {k.s}
UpdatedAlone(k) == IF k.on THEN {k.s} ELSE {}

\* The word that __metal_plic0_enable writes back.
Updated(k) == IF k.on THEN k.current \cup {k.s} ELSE k.current \ {k.s}

WriteWord(h) ==
    /\ Runs(h) /\ tpc[h] = "write"
    /\ enable' = [enable EXCEPT ![call[h].at] = Updated(call[h])]
    /\ call' = [call EXCEPT ![h].at = @ + 1, ![h].current = {}]
    /\ tpc' = [tpc EXCEPT ![h] = IF call[h].at < call[h].last THEN "read" ELSE "ret"]
    /\ UNCHANGED <<prio, thr, ip, busy, soft, hpc, idx>>

Return(h) ==
    /\ Runs(h) /\ tpc[h] = "ret"
    /\ tpc' = [tpc EXCEPT ![h] = "idle"]
    /\ call' = [call EXCEPT ![h] = NoCall]
    /\ UNCHANGED <<hw, soft, hpc, idx>>

\* set_threshold: the context with the number of the hart.
SetThreshold(h, t) ==
    /\ Idle(h)
    /\ thr' = [thr EXCEPT ![h] = t]
    /\ UNCHANGED <<prio, enable, ip, busy, soft, tpc, call, hpc, idx>>

\* affinity_set_threshold, with the same loop over the mask.
AffinityThreshold(h, mask, t) ==
    /\ Idle(h)
    /\ thr' = [c \in Contexts |-> IF c # 0 /\ \E b \in mask : c <= b THEN t ELSE thr[c]]
    /\ UNCHANGED <<prio, enable, ip, busy, soft, tpc, call, hpc, idx>>

-----------------------------------------------------------------------------
(* __metal_plic0_handler *)

\* The external interrupt of the hart is taken.
Trap(h) ==
    /\ inited /\ Runs(h)
    /\ Asserted(h)
    /\ hpc' = [hpc EXCEPT ![h] = "claim"]
    /\ UNCHANGED <<hw, soft, tpc, call, idx>>

\* Mutation of Claim: every hart claims from context 0.
ClaimFromZero(h) ==
    /\ hpc[h] = "claim"
    /\ \/ \E s \in Sources :
             /\ Best(0, s)
             /\ idx' = [idx EXCEPT ![h] = s]
             /\ ip' = ip \ {s}
             /\ busy' = busy \cup {s}
       \/ /\ Candidates(0) = {}
          /\ idx' = [idx EXCEPT ![h] = 0]
          /\ UNCHANGED <<ip, busy>>
    /\ hpc' = [hpc EXCEPT ![h] = "call"]
    /\ UNCHANGED <<prio, enable, thr, soft, tpc, call>>

\* The claim is for the context that ContextIds gives; outside the contexts
\* there is no register and the value read is 0.
Claim(h) ==
    LET c == ContextIds[h]
    IN  /\ hpc[h] = "claim"
        /\ \/ \E s \in Sources :
                 /\ c \in Contexts /\ Best(c, s)
                 /\ idx' = [idx EXCEPT ![h] = s]
                 /\ ip' = ip \ {s}
                 /\ busy' = busy \cup {s}
           \/ /\ c \in Contexts => Candidates(c) = {}
              /\ idx' = [idx EXCEPT ![h] = 0]
              /\ UNCHANGED <<ip, busy>>
        /\ hpc' = [hpc EXCEPT ![h] = "call"]
        /\ UNCHANGED <<prio, enable, thr, soft, tpc, call>>

\* Mutation of CallIsr: the source is completed before its handler is called.
CallIsrCompleted(h) ==
    /\ hpc[h] = "call"
    /\ busy' = busy \ {idx[h]}
    /\ hpc' = [hpc EXCEPT ![h] =
                 IF idx[h] # 0 /\ isr[idx[h]] = "default" THEN "halt" ELSE "complete"]
    /\ UNCHANGED <<prio, enable, thr, ip, soft, tpc, call, idx>>

\* The default handler shuts the machine down: the hart goes no further.
CallIsr(h) ==
    /\ hpc[h] = "call"
    /\ hpc' = [hpc EXCEPT ![h] =
                 IF idx[h] # 0 /\ isr[idx[h]] = "default" THEN "halt" ELSE "complete"]
    /\ UNCHANGED <<hw, soft, tpc, call, idx>>

\* Mutation of Complete: every hart completes at context 0.
CompleteAtZero(h) ==
    /\ hpc[h] = "complete"
    /\ busy' = IF idx[h] \in enable[0] THEN busy \ {idx[h]} ELSE busy
    /\ idx' = [idx EXCEPT ![h] = 0]
    /\ hpc' = [hpc EXCEPT ![h] = "idle"]
    /\ UNCHANGED <<prio, enable, thr, ip, soft, tpc, call>>

Complete(h) ==
    LET c == ContextIds[h]
    IN  /\ hpc[h] = "complete"
        /\ busy' = IF c \in Contexts /\ idx[h] \in enable[c] THEN busy \ {idx[h]} ELSE busy
        /\ idx' = [idx EXCEPT ![h] = 0]
        /\ hpc' = [hpc EXCEPT ![h] = "idle"]
        /\ UNCHANGED <<prio, enable, thr, ip, soft, tpc, call>>

-----------------------------------------------------------------------------
Handle(h) == Claim(h) \/ CallIsr(h) \/ Complete(h)

Thread(h) ==
    \/ PlicInit(h) \/ RegisterTable(h) \/ ReadWord(h) \/ WriteWord(h) \/ Return(h)
    \/ \E s \in Sources :
          \/ \E p \in Levels : SetPriority(h, s, p)
          \/ \E kind \in Kinds[s] : Register(h, s, kind)
          \/ \E on \in BOOLEAN : SetEnable(h, s, on)
          \/ \E on \in BOOLEAN, m \in Masks : AffinityEnable(h, s, on, m)
    \/ \E t \in Levels : SetThreshold(h, t)
    \/ \E t \in Levels, m \in Masks : AffinityThreshold(h, m, t)

Next ==
    \/ \E s \in Sources : Raise(s)
    \/ \E h \in Harts : Thread(h) \/ Trap(h) \/ Handle(h)

\* A hart takes an interrupt that stays asserted and executes its handler.
Fairness == \A h \in Harts : WF_vars(Trap(h)) /\ WF_vars(Handle(h))

Spec == Init /\ [][Next]_vars
FairSpec == Spec /\ Fairness

-----------------------------------------------------------------------------
Calls == [s : Sources \cup {0}, on : BOOLEAN, mask : SUBSET Contexts,
          at : Nat, last : Nat, current : SUBSET Sources]

\* The types of the variables.
TypeOK ==
    /\ prio \in [Sources -> Nat]
    /\ enable \in [Contexts -> SUBSET Sources]
    /\ thr \in [Contexts -> Nat]
    /\ ip \subseteq Sources /\ busy \subseteq Sources
    /\ inited \in BOOLEAN
    /\ isr \in [Sources -> {"none", "isr", "default"}]
    /\ tpc \in [Harts -> {"idle", "isr", "default", "read", "write", "ret"}]
    /\ call \in [Harts -> Calls]
    /\ hpc \in [Harts -> {"idle", "claim", "call", "complete", "halt"}]
    /\ idx \in [Harts -> Sources \cup {0}]

\* Hart h has claimed source s and not completed it.
Serves(h, s) == idx[h] = s /\ hpc[h] \in {"call", "complete", "halt"}

\* No source is served by two harts at a time, whatever contexts it is enabled
\* for and whoever changes the enable bits meanwhile.
ServedByOne ==
    \A s \in Sources, g, h \in Harts : Serves(g, s) /\ Serves(h, s) => g = h

\* No source is left claimed for ever: the completion of a served source is
\* not ignored.
NeverStuck == \A s \in busy : \E h \in Harts : Serves(h, s)

\* A source that a hart has claimed has a handler to call.
ClaimHasHandler ==
    \A h \in Harts : hpc[h] = "call" /\ idx[h] # 0 => isr[idx[h]] # "none"

\* "The result of each hart context. 0 upon success at relevant bit": when an
\* enable or disable call returns, it has done so in every context asked for.
CallTakesEffect ==
    \A h \in Harts : tpc[h] = "ret" =>
        \A c \in call[h].mask : call[h].s \in enable[c] <=> call[h].on

\* An enable bit changes only for a call that names its source and context:
\* the word written back does not undo the calls of others.
EnableOnlyAsked ==
    [][inited => \A c \in Contexts, s \in Sources :
          (s \in enable[c]) # (s \in enable'[c]) =>
              \E h \in Harts : tpc[h] = "write" /\ call[h].s = s /\ c \in call[h].mask]_vars

\* A hart that is interrupted gets something to serve, or its interrupt goes
\* away because another hart serves it.
InterruptServed ==
    \A h \in Harts : Asserted(h) ~> (~Asserted(h) \/ idx[h] # 0 \/ hpc[h] = "halt")

-----------------------------------------------------------------------------
(* The inductive invariant that the theorems of PlicProofs rest on. *)

\* Before plic0_init nothing happens.
QuietBoot ==
    ~inited => /\ ip = {} /\ busy = {}
               /\ \A h \in Harts : tpc[h] = "idle" /\ hpc[h] = "idle"

\* A source is not pending while it is served.
NotPendingTwice == ip \cap busy = {}

\* The source a hart serves was claimed by it alone and is still enabled for
\* the context it was claimed from.
ServedEnabled ==
    \A h \in Harts : idx[h] # 0 =>
        /\ hpc[h] \in {"call", "complete", "halt"}
        /\ idx[h] \in busy
        /\ ContextIds[h] \in Contexts
        /\ idx[h] \in enable[ContextIds[h]]
        /\ \A g \in Harts : idx[g] = idx[h] => g = h

\* One enable or disable call at a time is between its read and its return,
\* for a source that exists, at a context that exists.
CallsApart ==
    \A h \in Harts :
        /\ tpc[h] # "idle" => call[h].s \in Sources
        /\ tpc[h] \in {"isr", "default"} => call[h].on
        /\ tpc[h] \in {"read", "write"} => call[h].at \in Contexts /\ call[h].last \in Contexts
        /\ tpc[h] \in {"read", "write", "ret"} =>
              \A g \in Harts : tpc[g] \in {"read", "write", "ret"} => g = h

\* What a call has read and what it may rely on until it writes.
CallFresh ==
    \A h \in Harts :
        /\ tpc[h] = "write" => call[h].current = enable[call[h].at]
        /\ tpc[h] # "idle" /\ ~call[h].on => call[h].s \notin ip \cup busy
        /\ tpc[h] \in {"read", "write"} /\ call[h].on => isr[call[h].s] # "none"

\* Only sources with a handler are enabled.
EnabledHaveHandler ==
    inited => \A c \in Contexts : \A s \in enable[c] : isr[s] # "none"

IInv ==
    /\ TypeOK
    /\ QuietBoot
    /\ NotPendingTwice
    /\ ServedEnabled
    /\ CallsApart
    /\ CallFresh
    /\ EnabledHaveHandler
    /\ NeverStuck
=============================================================================

----------------------- MODULE LocalInterruptsProofs -----------------------
(* Proofs about how the harts set up their interrupt lines, for any number of  *)
(* harts that initialise, register, enable and trap in any order, as long as   *)
(* the CPU controllers are initialised first (IntcsFirst).                     *)
EXTENDS LocalInterrupts, TLAPS

IntcLabels == {"intcTest", "wipe", "vector", "intcDone"}

\* Hart h may come to the write `label` of the call j.
JobOK(h, label, j) ==
    /\ label \in Labels /\ j \in Jobs
    /\ j.op = "none" => label = "idle" /\ j = NoJob
    /\ j.op = "intc" => label \in IntcLabels /\ j.parent = h
    /\ j.op = "clint" => /\ label \in {"clintTest", "default", "sub", "clintDone"}
                         /\ j.line \in ClintLines
    /\ j.op = "plic" => /\ label \in {"plicTest", "default", "sub", "isr", "data", "mie", "plicDone"}
                                     \cup IntcLabels
                        /\ j.line = "EXT"
    /\ j.op = "register" => label \in {"isr", "data"} /\ j.parent = h /\ j.line \in ClintLines

JobsOK == \A h \in Harts : JobOK(h, at[h], job[h])

TInv == TypeOK /\ JobsOK

\* The CLINT and the PLIC start with every CPU controller initialised, by the
\* hart it belongs to; each is initialised by one hart, once.
OwnIntc(h) ==
    /\ intcDone[h] => h \in called /\ mtvec[h] = "table"
    /\ mstatus[h] => intcDone[h]
    /\ h \in called <=> intcDone[h] \/ job[h].op = "intc"
    /\ at[h] \in {"wipe", "vector", "intcDone"} => job[h].op = "intc" /\ ~intcDone[h]
    /\ at[h] = "intcDone" => mtvec[h] = "table"
ControllersFirst ==
    /\ begun # {} => \A g \in Harts : intcDone[g]
    /\ \A h \in Harts : OwnIntc(h)

OnceEach ==
    /\ clintDone => "clint" \in begun
    /\ plicDone => "plic" \in begun
    /\ \A h \in Harts : /\ job[h].op = "clint" => "clint" \in begun /\ ~clintDone
                        /\ job[h].op = "plic" => "plic" \in begun /\ ~plicDone
    /\ \A g, h \in Harts : job[g].op = job[h].op /\ job[g].op \in {"clint", "plic"} => g = h

\* What the init function of the CLINT leaves in the entries it has passed.
Known(g, l) == handler[g][l] \in {"default", "isr"} /\ sub[g][l]
ClintPassed(h, g, l) ==
    \/ at[h] = "clintDone"
    \/ g < job[h].parent
    \/ g = job[h].parent /\ l = "SW" /\ job[h].line = "TMR"
ClintLoop(h) ==
    job[h].op = "clint" =>
        /\ at[h] = "clintTest" => job[h].parent = 0 /\ job[h].line = "SW"
        /\ \A g \in Harts, l \in ClintLines : ClintPassed(h, g, l) => Known(g, l)
        /\ at[h] = "sub" => handler[job[h].parent][job[h].line] = "default"
ClintProgress ==
    /\ clintDone => \A g \in Harts, l \in ClintLines : Known(g, l)
    /\ \A h \in Harts : ClintLoop(h)

\* What the init function of the PLIC leaves in the entries it has passed.
Dispatches(g) == handler[g]["EXT"] = "plic" /\ data[g]["EXT"] = "plic"
PlicLoop(h) ==
    job[h].op = "plic" =>
        /\ at[h] = "plicTest" => job[h].parent = 0
        /\ \A g \in Harts : g < job[h].parent \/ at[h] = "plicDone" => Dispatches(g)
        /\ at[h] = "data" => handler[job[h].parent]["EXT"] = "plic"
        /\ at[h] = "mie" => Dispatches(job[h].parent)
PlicProgress ==
    /\ plicDone => \A g \in Harts : Dispatches(g)
    /\ \A h \in Harts : PlicLoop(h)

\* Handlers of the application are registered behind the initialisation, on
\* lines that are off, with their data except for the write in between.
EntryKept(h, l) ==
    /\ handler[h][l] # "plic"
    /\ l \in mie[h] => clintDone
    /\ handler[h][l] = "isr" =>
           /\ clintDone
           /\ data[h][l] = "own" \/ (job[h].op = "register" /\ job[h].line = l /\ at[h] = "data")
EntriesKept ==
    \A h \in Harts :
        /\ handler[h]["EXT"] # "isr"
        /\ \A l \in ClintLines : EntryKept(h, l)
        /\ job[h].op = "register" => clintDone /\ job[h].line \notin mie[h]

\* A trap is on an enabled line, and the data it has read is still in the entry.
TrapTrue(h) ==
    trap[h] # NoTrap =>
        /\ trap[h].line \in mie[h]
        /\ trap[h].priv = data[h][trap[h].line]
        /\ trap[h].line = "EXT" => plicDone
TrapsTrue == \A h \in Harts : TrapTrue(h)

IInv ==
    /\ TInv
    /\ ControllersFirst
    /\ OnceEach
    /\ ClintProgress
    /\ PlicProgress
    /\ EntriesKept
    /\ TrapsTrue
    /\ TrapsLand

-----------------------------------------------------------------------------
(* Types *)

LEMMA HartZero == 0 \in Harts /\ Harts \subseteq Int
  BY HartsAssumption DEF Harts

\* A thread goes on with a write that is possible, and no other thread moves.
LEMMA GoesOn ==
    ASSUME TInv, NEW h \in Harts, NEW label, NEW j, Goes(h, label, j), JobOK(h, label, j)
    PROVE  /\ at' \in [Harts -> Labels] /\ job' \in [Harts -> Jobs] /\ JobsOK'
           /\ at'[h] = label /\ job'[h] = j
           /\ \A g \in Harts \ {h} : at'[g] = at[g] /\ job'[g] = job[g]
  <1>1. at \in [Harts -> Labels] /\ job \in [Harts -> Jobs] /\ label \in Labels /\ j \in Jobs
    BY DEF TInv, TypeOK, JobOK
  <1>2. at' \in [Harts -> Labels] /\ job' \in [Harts -> Jobs]
    BY <1>1 DEF Goes
  <1>3. at'[h] = label /\ job'[h] = j /\ \A g \in Harts \ {h} : at'[g] = at[g] /\ job'[g] = job[g]
    BY <1>1 DEF Goes
  <1>4. ASSUME NEW g \in Harts
        PROVE  JobOK(g, at'[g], job'[g])
    BY <1>3 DEF TInv, JobsOK
  <1>5. QED
    BY <1>2, <1>3, <1>4 DEF JobsOK

\* Where the threads go when a function returns.
LEMMA Idles == ASSUME NEW h \in Harts PROVE JobOK(h, "idle", NoJob)
  BY HartZero DEF JobOK, NoJob, Job, Labels, Jobs, Lines

\* What is known of the thread of h at each of its writes.
LEMMA AtWrite ==
    ASSUME TInv, NEW h \in Harts
    PROVE  /\ JobOK(h, at[h], job[h])
           /\ Own(h) \in Harts
           /\ at[h] = "idle" <=> job[h].op = "none"
           /\ job[h] \in Jobs
  BY DEF TInv, JobsOK, JobOK, Jobs, Own, Labels, IntcLabels, NoJob

LEMMA IntcReturnsOK ==
    ASSUME TInv, NEW h \in Harts, at[h] \in {"intcTest", "intcDone"}, IntcReturns(h)
    PROVE  \E label, j : Goes(h, label, j) /\ JobOK(h, label, j)
  <1>1. CASE job[h].op = "plic"
    BY <1>1, AtWrite DEF IntcReturns, JobOK, Labels
  <1>2. CASE job[h].op # "plic"
    BY <1>2, Idles DEF IntcReturns
  <1>3. QED
    BY <1>1, <1>2

LEMMA LoopOK ==
    ASSUME TInv, NEW h \in Harts, NEW first, NEW l, NEW after, Loop(h, first, l, after),
           JobOK(h, after, job[h]),
           \A g \in Harts : JobOK(h, first, Job(job[h].op, g, l))
    PROVE  \E label, j : Goes(h, label, j) /\ JobOK(h, label, j)
  <1>1. CASE Own(h) + 1 < N
    <2>1. Own(h) + 1 \in Harts
      BY <1>1, AtWrite, HartsAssumption DEF Harts
    <2>2. QED
      BY <1>1, <2>1 DEF Loop
  <1>2. CASE ~(Own(h) + 1 < N)
    BY <1>2 DEF Loop
  <1>3. QED
    BY <1>1, <1>2

-----------------------------------------------------------------------------
(* Types *)

\* The variables beside the threads.
OthersTyped ==
    /\ mtvec \in [Harts -> {"early", "table"}]
    /\ mie \in [Harts -> SUBSET Lines]
    /\ mstatus \in [Harts -> BOOLEAN]
    /\ intcDone \in [Harts -> BOOLEAN]
    /\ handler \in [Harts -> [Lines -> Handlers]]
    /\ data \in [Harts -> [Lines -> Privs]]
    /\ sub \in [Harts -> [Lines -> BOOLEAN]]
    /\ clintDone \in BOOLEAN /\ plicDone \in BOOLEAN
    /\ called \subseteq Harts /\ begun \subseteq {"clint", "plic"}
    /\ trap \in [Harts -> [line : Lines, priv : Privs] \cup {NoTrap}]
    /\ fate \in [Harts -> {"ok", "early", "null", "alien", "storm", "shutdown"}]

ThreadsTyped == at \in [Harts -> Labels] /\ job \in [Harts -> Jobs] /\ JobsOK

LEMMA TInvParts == TInv <=> OthersTyped /\ ThreadsTyped
  BY DEF TInv, TypeOK, OthersTyped, ThreadsTyped

LEMMA TInvPartsNext == TInv' <=> OthersTyped' /\ ThreadsTyped'
  BY DEF TInv, TypeOK, OthersTyped, ThreadsTyped

LEMMA JobTyped ==
    ASSUME NEW h \in Harts, NEW op \in {"intc", "clint", "plic", "register"}, NEW l \in Lines \cup {"none"}
    PROVE  /\ Job(op, h, l) \in Jobs
           /\ Job(op, h, l).op = op /\ Job(op, h, l).parent = h /\ Job(op, h, l).line = l
  BY DEF Job, Jobs

\* The calls of the application.
LEMMA CallsTyped ==
    ASSUME TInv, NEW h \in Harts, Calls(h)
    PROVE  TInv'
  <1> USE TInvParts, TInvPartsNext
  <1>1. ASSUME NEW label, NEW op, NEW g, NEW l, Call(h, label, op, g, l),
               JobOK(h, label, Job(op, g, l)),
               called' \subseteq Harts, begun' \subseteq {"clint", "plic"}
        PROVE  TInv'
    <2>1. ThreadsTyped'
      BY <1>1, GoesOn DEF Call, ThreadsTyped
    <2>2. OthersTyped'
      BY <1>1 DEF Call, OthersTyped, csr, tables, done
    <2>3. QED
      BY <2>1, <2>2
  <1>2. CASE CallIntcInit(h)
    <2>1. JobOK(h, "intcTest", Job("intc", h, "none"))
      BY JobTyped DEF JobOK, Labels, IntcLabels
    <2>2. QED
      BY <1>1, <1>2, <2>1 DEF CallIntcInit, OthersTyped
  <1>3. CASE CallClintInit(h)
    <2>1. JobOK(h, "clintTest", Job("clint", 0, "SW"))
      BY JobTyped, HartZero DEF JobOK, Labels, Lines, ClintLines
    <2>2. QED
      BY <1>1, <1>3, <2>1 DEF CallClintInit, OthersTyped
  <1>4. CASE CallPlicInit(h)
    <2>1. JobOK(h, "plicTest", Job("plic", 0, "EXT"))
      BY JobTyped, HartZero DEF JobOK, Labels, Lines
    <2>2. QED
      BY <1>1, <1>4, <2>1 DEF CallPlicInit, OthersTyped
  <1>5. ASSUME NEW l \in ClintLines, CallRegister(h, l)
        PROVE  TInv'
    <2>1. JobOK(h, "isr", Job("register", h, l))
      BY JobTyped DEF JobOK, Labels, Lines, ClintLines
    <2>2. QED
      BY <1>1, <1>5, <2>1 DEF CallRegister, OthersTyped
  <1>6. ASSUME NEW l \in Lines, Enable(h, l) \/ Disable(h, l)
        PROVE  TInv'
    <2>1. ThreadsTyped'
      BY <1>6 DEF Enable, Disable, thread, ThreadsTyped, JobsOK
    <2>2. OthersTyped'
      <3>1. CASE Enable(h, l)
        BY <1>6, <3>1 DEF Enable, OthersTyped, tables, done
      <3>2. CASE Disable(h, l)
        BY <3>2 DEF Disable, OthersTyped, tables, done
      <3>3. QED
        BY <1>6, <3>1, <3>2
    <2>3. QED
      BY <2>1, <2>2
  <1>7. ASSUME NEW b \in BOOLEAN, GlobalEnable(h, b)
        PROVE  TInv'
    <2>1. ThreadsTyped'
      BY <1>7 DEF GlobalEnable, thread, ThreadsTyped, JobsOK
    <2>2. OthersTyped'
      BY <1>7 DEF GlobalEnable, OthersTyped, tables, done
    <2>3. QED
      BY <2>1, <2>2
  <1>8. QED
    BY <1>2, <1>3, <1>4, <1>5, <1>6, <1>7 DEF Calls

\* A write leaves the thread at a write that is possible.
LEMMA WritesGoOn ==
    ASSUME TInv, NEW h \in Harts, Writes(h)
    PROVE  \E label, j : Goes(h, label, j) /\ JobOK(h, label, j)
  <1> DEFINE On == \E label, j : Goes(h, label, j) /\ JobOK(h, label, j)
  <1>0. JobOK(h, at[h], job[h]) /\ Own(h) \in Harts /\ job[h] \in Jobs
    BY AtWrite
  <1>1. CASE IntcTest(h)
    <2>1. CASE intcDone[Own(h)]
      BY <1>1, <2>1, IntcReturnsOK DEF IntcTest, Write
    <2>2. CASE ~intcDone[Own(h)]
      BY <1>0, <1>1, <2>2 DEF IntcTest, Write, JobOK, Labels, IntcLabels, ClintLines
    <2>3. QED
      BY <2>1, <2>2
  <1>2. CASE Wipe(h) \/ Vector(h)
    BY <1>0, <1>2 DEF Wipe, Vector, Write, JobOK, Labels, IntcLabels, ClintLines
  <1>3. CASE IntcDone(h)
    BY <1>3, IntcReturnsOK DEF IntcDone, Write
  <1>4. CASE SetDefault(h)
    BY <1>0, <1>4 DEF SetDefault, Write, JobOK, Labels, IntcLabels, ClintLines
  <1>5. CASE SetSub(h)
    <2>1. at[h] = "sub" /\ job[h].op \in {"clint", "plic"}
      BY <1>0, <1>5 DEF SetSub, Write, JobOK, IntcLabels, Jobs
    <2>2. CASE job[h].op = "plic"
      BY <1>0, <1>5, <2>1, <2>2 DEF SetSub, Line, JobOK, Labels, IntcLabels
    <2>3. CASE job[h].op = "clint" /\ Line(h) = "SW"
      <3>1. JobOK(h, "default", Job("clint", Own(h), "TMR"))
        BY <1>0, JobTyped DEF JobOK, Labels, Lines, ClintLines
      <3>2. QED
        BY <1>5, <2>3, <3>1 DEF SetSub
    <2>4. CASE job[h].op = "clint" /\ Line(h) # "SW"
      <3>1. JobOK(h, "clintDone", job[h])
        BY <1>0, <2>4 DEF JobOK, Labels
      <3>2. \A g \in Harts : JobOK(h, "default", Job("clint", g, "SW"))
        BY JobTyped DEF JobOK, Labels, Lines, ClintLines
      <3>3. Loop(h, "default", "SW", "clintDone")
        BY <1>5, <2>4 DEF SetSub
      <3>4. QED
        BY <2>4, <3>1, <3>2, <3>3, LoopOK
    <2>5. QED
      BY <2>1, <2>2, <2>3, <2>4
  <1>6. CASE SetHandler(h)
    BY <1>0, <1>6 DEF SetHandler, Write, JobOK, Labels, IntcLabels, ClintLines, Jobs
  <1>7. CASE SetData(h)
    <2>1. CASE job[h].op = "plic"
      BY <1>0, <1>7, <2>1 DEF SetData, Write, JobOK, Labels
    <2>2. CASE job[h].op # "plic"
      BY <1>7, <2>2, Idles DEF SetData
    <2>3. QED
      BY <2>1, <2>2
  <1>8. CASE SetMie(h)
    <2>1. job[h].op = "plic"
      BY <1>0, <1>8 DEF SetMie, Write, JobOK, Jobs, IntcLabels
    <2>2. JobOK(h, "plicDone", job[h])
      BY <1>0, <2>1 DEF JobOK, Labels
    <2>3. \A g \in Harts : JobOK(h, "intcTest", Job("plic", g, "EXT"))
      BY JobTyped DEF JobOK, Labels, Lines, IntcLabels
    <2>4. Loop(h, "intcTest", "EXT", "plicDone")
      BY <1>8 DEF SetMie
    <2>5. QED
      BY <2>1, <2>2, <2>3, <2>4, LoopOK
  <1>9. CASE ClintTest(h)
    <2>1. CASE clintDone
      BY <1>9, <2>1, Idles DEF ClintTest
    <2>2. CASE ~clintDone
      BY <1>0, <1>9, <2>2 DEF ClintTest, Write, JobOK, Labels, IntcLabels
    <2>3. QED
      BY <2>1, <2>2
  <1>10. CASE ClintDone(h) \/ PlicDone(h)
    BY <1>10, Idles DEF ClintDone, PlicDone
  <1>11. CASE PlicTest(h)
    <2>1. CASE plicDone
      BY <1>11, <2>1, Idles DEF PlicTest
    <2>2. CASE ~plicDone
      BY <1>0, <1>11, <2>2 DEF PlicTest, Write, JobOK, Labels, IntcLabels
    <2>3. QED
      BY <2>1, <2>2
  <1>12. QED
    BY <1>1, <1>2, <1>3, <1>4, <1>5, <1>6, <1>7, <1>8, <1>9, <1>10, <1>11 DEF Writes

\* One field of a table entry is written.
LEMMA EntryTyped ==
    ASSUME NEW V, NEW f \in [Harts -> [Lines -> V]], NEW g \in Harts, NEW l \in Lines, NEW x \in V
    PROVE  [f EXCEPT ![g][l] = x] \in [Harts -> [Lines -> V]]
  <1>1. [f[g] EXCEPT ![l] = x] \in [Lines -> V]
    OBVIOUS
  <1>2. [f EXCEPT ![g][l] = x] = [f EXCEPT ![g] = [f[g] EXCEPT ![l] = x]]
    OBVIOUS
  <1>3. QED
    BY <1>1, <1>2

LEMMA EntryWritten ==
    ASSUME NEW V, NEW f \in [Harts -> [Lines -> V]], NEW g \in Harts, NEW l \in Lines, NEW x
    PROVE  /\ [f EXCEPT ![g][l] = x][g][l] = x
           /\ \A m \in Lines \ {l} : [f EXCEPT ![g][l] = x][g][m] = f[g][m]
           /\ \A i \in Harts \ {g} : [f EXCEPT ![g][l] = x][i] = f[i]
  <1>1. [f EXCEPT ![g][l] = x] = [f EXCEPT ![g] = [f[g] EXCEPT ![l] = x]]
    OBVIOUS
  <1>2. QED
    BY <1>1

\* And the other variables with their types.
LEMMA WritesTyped ==
    ASSUME TInv, NEW h \in Harts, Writes(h)
    PROVE  TInv'
  <1>1. ThreadsTyped'
    BY WritesGoOn, GoesOn DEF ThreadsTyped
  <1>2. OthersTyped /\ Own(h) \in Harts /\ JobOK(h, at[h], job[h])
    BY TInvParts, AtWrite
  <1>3. called' = called /\ begun' = begun /\ trap' = trap /\ fate' = fate
    BY DEF Writes, Write, IntcTest, Wipe, Vector, IntcDone, SetDefault, SetSub, SetHandler,
           SetData, SetMie, ClintTest, ClintDone, PlicTest, PlicDone
  <1>4. CASE IntcTest(h) \/ ClintTest(h) \/ PlicTest(h)
    BY <1>1, <1>2, <1>3, <1>4, TInvPartsNext
       DEF IntcTest, ClintTest, PlicTest, OthersTyped, csr, tables, done
  <1>5. CASE Wipe(h)
    <2>1. handler' \in [Harts -> [Lines -> Handlers]] /\ data' \in [Harts -> [Lines -> Privs]]
      BY <1>2, <1>5 DEF Wipe, OthersTyped, Handlers, Privs
    <2>2. sub' \in [Harts -> [Lines -> BOOLEAN]]
      BY <1>2, <1>5 DEF Wipe, OthersTyped
    <2>3. QED
      BY <1>1, <1>2, <1>3, <1>5, <2>1, <2>2, TInvPartsNext DEF Wipe, OthersTyped, csr, done
  <1>6. CASE Vector(h) \/ IntcDone(h) \/ ClintDone(h) \/ PlicDone(h)
    BY <1>1, <1>2, <1>3, <1>6, TInvPartsNext
       DEF Vector, IntcDone, ClintDone, PlicDone, OthersTyped, csr, tables, done
  <1>7. CASE SetDefault(h) \/ SetHandler(h) \/ SetData(h) \/ SetSub(h)
    <2>0. Line(h) \in Lines
      BY <1>2, <1>7 DEF SetDefault, SetHandler, SetData, SetSub, Write, JobOK, Jobs, Lines,
                        ClintLines, IntcLabels, Line, NoJob
    <2>1. handler' \in [Harts -> [Lines -> Handlers]]
      <3>1. \A x \in Handlers : [handler EXCEPT ![Own(h)][Line(h)] = x] \in [Harts -> [Lines -> Handlers]]
        BY <1>2, <2>0, EntryTyped DEF OthersTyped
      <3>2. "default" \in Handlers /\ (IF job[h].op = "plic" THEN "plic" ELSE "isr") \in Handlers
        BY DEF Handlers
      <3>3. CASE SetDefault(h)
        BY <3>1, <3>2, <3>3 DEF SetDefault
      <3>4. CASE SetHandler(h)
        BY <3>1, <3>2, <3>4 DEF SetHandler
      <3>5. QED
        BY <1>2, <1>7, <3>3, <3>4 DEF SetData, SetSub, OthersTyped
    <2>2. data' \in [Harts -> [Lines -> Privs]]
      <3>1. \A x \in Privs : [data EXCEPT ![Own(h)][Line(h)] = x] \in [Harts -> [Lines -> Privs]]
        BY <1>2, <2>0, EntryTyped DEF OthersTyped
      <3>2. (IF job[h].op = "plic" THEN "plic" ELSE "own") \in Privs
        BY DEF Privs
      <3>3. QED
        BY <1>2, <1>7, <3>1, <3>2 DEF SetDefault, SetHandler, SetData, SetSub, OthersTyped
    <2>3. sub' \in [Harts -> [Lines -> BOOLEAN]]
      <3>1. SubOf(h) \in [Harts -> [Lines -> BOOLEAN]]
        BY <1>2, <2>0, EntryTyped DEF OthersTyped, SubOf
      <3>2. QED
        BY <1>2, <1>7, <3>1 DEF SetDefault, SetHandler, SetData, SetSub, OthersTyped
    <2>4. QED
      BY <1>1, <1>2, <1>3, <1>7, <2>1, <2>2, <2>3, TInvPartsNext
         DEF SetDefault, SetHandler, SetData, SetSub, OthersTyped, csr, done
  <1>8. CASE SetMie(h)
    <2>1. Line(h) \in Lines
      BY <1>2, <1>8 DEF SetMie, Write, JobOK, Jobs, Lines, IntcLabels, Line
    <2>2. mie' \in [Harts -> SUBSET Lines]
      BY <1>2, <1>8, <2>1 DEF SetMie, OthersTyped
    <2>3. QED
      BY <1>1, <1>2, <1>3, <1>8, <2>2, TInvPartsNext DEF SetMie, OthersTyped, tables, done
  <1>9. QED
    BY <1>4, <1>5, <1>6, <1>7, <1>8 DEF Writes

\* A trap changes neither the tables nor the thread it preempts.
LEMMA TrapsTyped ==
    ASSUME TInv, NEW h \in Harts, (\E l \in Lines : TrapEnter(h, l)) \/ TrapCall(h)
    PROVE  TInv'
  <1>0. OthersTyped /\ ThreadsTyped
    BY TInvParts
  <1>1. ThreadsTyped'
    BY <1>0 DEF TrapEnter, TrapCall, thread, ThreadsTyped, JobsOK
  <1>2. ASSUME NEW l \in Lines, TrapEnter(h, l)
        PROVE  OthersTyped'
    <2>1. trap' \in [Harts -> [line : Lines, priv : Privs] \cup {NoTrap}]
      BY <1>0, <1>2 DEF TrapEnter, OthersTyped
    <2>2. fate' \in [Harts -> {"ok", "early", "null", "alien", "storm", "shutdown"}]
      BY <1>0, <1>2 DEF TrapEnter, OthersTyped
    <2>3. QED
      BY <1>0, <1>2, <2>1, <2>2 DEF TrapEnter, OthersTyped, csr, tables, done
  <1>3. CASE TrapCall(h)
    <2>1. trap' \in [Harts -> [line : Lines, priv : Privs] \cup {NoTrap}]
      BY <1>0, <1>3 DEF TrapCall, OthersTyped, NoTrap, Privs
    <2>2. trap[h].line \in Lines /\ handler[h][trap[h].line] \in Handlers
      BY <1>0, <1>3 DEF TrapCall, OthersTyped
    <2>3. Outcome(h) \in {"ok", "early", "null", "alien", "storm", "shutdown"}
      <3> DEFINE l == trap[h].line
      <3>1. handler[h][l] \in {"null", "default", "isr", "plic"}
        BY <2>2 DEF Handlers
      <3>2. CASE handler[h][l] = "null"
        BY <3>2 DEF Outcome
      <3>3. CASE handler[h][l] = "default"
        BY <3>3 DEF Outcome
      <3>4. CASE handler[h][l] \in {"isr", "plic"}
        BY <3>4 DEF Outcome
      <3>5. QED
        BY <3>1, <3>2, <3>3, <3>4
    <2>4. QED
      BY <1>0, <1>1, <1>3, <2>1, <2>3, TInvPartsNext DEF TrapCall, OthersTyped, csr, tables, done
  <1>4. QED
    BY <1>1, <1>2, <1>3, TInvPartsNext

LEMMA InitTyped == Init => TInv
  <1> SUFFICES ASSUME Init
               PROVE  TInv
    OBVIOUS
  <1>1. OthersTyped
    BY DEF Init, OthersTyped, Table, Handlers, Privs
  <1>2. \A h \in Harts : JobOK(h, at[h], job[h])
    BY Idles DEF Init
  <1>3. ThreadsTyped
    BY <1>2 DEF Init, ThreadsTyped, JobsOK, JobOK
  <1>4. QED
    BY <1>1, <1>3, TInvParts

LEMMA NextTyped == TInv /\ [Next]_vars => TInv'
  <1>1. ASSUME TInv, UNCHANGED vars
        PROVE  TInv'
    BY <1>1 DEF TInv, TypeOK, JobsOK, vars, csr, tables, done, thread
  <1>2. QED
    BY <1>1, CallsTyped, WritesTyped, TrapsTyped DEF Next

\* Every variable keeps its type, and every thread is at a write of the function
\* it has called, in either order of the initialisation.
THEOREM TypeCorrect == Spec => []TypeOK
  <1>1. TInv => TypeOK
    BY DEF TInv
  <1>2. QED
    BY <1>1, InitTyped, NextTyped, PTL DEF Spec

-----------------------------------------------------------------------------
(* Steps of one hart *)

\* A hart moves only its own thread.
LEMMA OthersStay ==
    ASSUME TInv, NEW h \in Harts, NEW g \in Harts \ {h},
           Calls(h) \/ Writes(h) \/ (\E l \in Lines : TrapEnter(h, l)) \/ TrapCall(h)
    PROVE  at'[g] = at[g] /\ job'[g] = job[g]
  <1>1. CASE Writes(h)
    BY <1>1, WritesGoOn, GoesOn
  <1>2. CASE Calls(h)
    <2>1. ASSUME NEW label, NEW j, Goes(h, label, j)
          PROVE  at'[g] = at[g] /\ job'[g] = job[g]
      BY <2>1 DEF Goes, TInv, TypeOK
    <2>2. QED
      BY <1>2, <2>1 DEF Calls, CallIntcInit, CallClintInit, CallPlicInit, CallRegister, Call,
                        Enable, Disable, GlobalEnable, thread
  <1>3. CASE (\E l \in Lines : TrapEnter(h, l)) \/ TrapCall(h)
    BY <1>3 DEF TrapEnter, TrapCall, thread
  <1>4. QED
    BY <1>1, <1>2, <1>3

\* A call starts at the first write of its function.
LEMMA Started ==
    ASSUME TInv, NEW h \in Harts, NEW label, NEW op, NEW g, NEW l, Call(h, label, op, g, l)
    PROVE  /\ at[h] = "idle" /\ job[h].op = "none" /\ trap[h] = NoTrap
           /\ at'[h] = label /\ job'[h].op = op /\ job'[h].parent = g /\ job'[h].line = l
  BY AtWrite DEF Call, Goes, TInv, TypeOK, Idle, Runs, Job

\* The CPU controllers are initialised before the CLINT and the PLIC, so that
\* nothing else has begun while the table of one is set up.
LEMMA WhileSetUp ==
    ASSUME IInv, NEW h \in Harts, at[h] \in {"wipe", "vector", "intcDone"}
    PROVE  /\ job[h].op = "intc" /\ Own(h) = h /\ ~intcDone[h]
           /\ begun = {} /\ ~clintDone /\ ~plicDone
           /\ \A g \in Harts : /\ job[g].op \in {"none", "intc"}
                               /\ trap[g] = NoTrap
                               /\ \A l \in ClintLines : l \notin mie[g] /\ handler[g][l] # "isr"
  <1>1. job[h].op = "intc" /\ Own(h) = h /\ ~intcDone[h]
    BY AtWrite DEF IInv, ControllersFirst, OwnIntc, JobOK, Own
  <1>2. begun = {}
    BY <1>1 DEF IInv, ControllersFirst
  <1>3. ~clintDone /\ ~plicDone
    BY <1>2 DEF IInv, OnceEach
  <1>4. ASSUME NEW g \in Harts
        PROVE  job[g].op \in {"none", "intc"}
    BY <1>2, <1>3, AtWrite DEF IInv, OnceEach, EntriesKept, Jobs
  <1>5. ASSUME NEW g \in Harts, NEW l \in ClintLines
        PROVE  l \notin mie[g] /\ handler[g][l] # "isr"
    BY <1>3 DEF IInv, EntriesKept, EntryKept
  <1>6. ASSUME NEW g \in Harts
        PROVE  trap[g] = NoTrap
    BY <1>3, <1>5 DEF IInv, TrapsTrue, TrapTrue, TInv, TypeOK, Lines, ClintLines
  <1>7. QED
    BY <1>1, <1>2, <1>3, <1>4, <1>5, <1>6

-----------------------------------------------------------------------------
(* The invariant, part by part *)

LEMMA InitIInv == Init => IInv
  <1> SUFFICES ASSUME Init
               PROVE  IInv
    OBVIOUS
  <1> USE DEF Init
  <1>1. \A h \in Harts : job[h].op = "none" /\ at[h] = "idle"
    BY DEF NoJob, Job
  <1>2. ControllersFirst /\ OnceEach
    BY <1>1 DEF ControllersFirst, OwnIntc, OnceEach
  <1>3. ClintProgress /\ PlicProgress
    BY <1>1 DEF ClintProgress, ClintLoop, PlicProgress, PlicLoop
  <1>4. EntriesKept
    BY <1>1 DEF EntriesKept, EntryKept, Table, Lines, ClintLines
  <1>5. TrapsTrue /\ TrapsLand
    BY DEF TrapsTrue, TrapTrue, TrapsLand
  <1>6. QED
    BY <1>2, <1>3, <1>4, <1>5, InitTyped DEF IInv

\* Where the thread of h is after a write.
LEMMA Moved ==
    ASSUME TInv, NEW h \in Harts
    PROVE  /\ \A label, j : Goes(h, label, j) => at'[h] = label /\ job'[h] = j
           /\ IntcReturns(h) => \/ job[h].op = "plic" /\ at'[h] = "default" /\ job'[h] = job[h]
                                \/ job[h].op # "plic" /\ at'[h] = "idle" /\ job'[h] = NoJob
           /\ \A first, l, after : Loop(h, first, l, after) =>
                  \/ /\ Own(h) + 1 \in Harts /\ at'[h] = first
                     /\ job'[h].op = job[h].op /\ job'[h].parent = Own(h) + 1 /\ job'[h].line = l
                  \/ Own(h) = N - 1 /\ at'[h] = after /\ job'[h] = job[h]
  <1>1. \A label, j : Goes(h, label, j) => at'[h] = label /\ job'[h] = j
    BY DEF Goes, TInv, TypeOK
  <1>2. IntcReturns(h) => \/ job[h].op = "plic" /\ at'[h] = "default" /\ job'[h] = job[h]
                          \/ job[h].op # "plic" /\ at'[h] = "idle" /\ job'[h] = NoJob
    BY DEF IntcReturns, Goes, TInv, TypeOK
  <1>3. ASSUME NEW first, NEW l, NEW after, Loop(h, first, l, after)
        PROVE  \/ /\ Own(h) + 1 \in Harts /\ at'[h] = first
                  /\ job'[h].op = job[h].op /\ job'[h].parent = Own(h) + 1 /\ job'[h].line = l
               \/ Own(h) = N - 1 /\ at'[h] = after /\ job'[h] = job[h]
    <2>1. Own(h) \in Harts
      BY AtWrite
    <2>2. CASE Own(h) + 1 < N
      BY <1>1, <1>3, <2>1, <2>2, HartsAssumption DEF Loop, Harts, Job
    <2>3. CASE ~(Own(h) + 1 < N)
      BY <1>1, <1>3, <2>1, <2>3, HartsAssumption DEF Loop, Harts
    <2>4. QED
      BY <2>2, <2>3
  <1>4. QED
    BY <1>1, <1>2, <1>3

LEMMA NextControllersFirst ==
    ASSUME IInv, IntcsFirst, NEW h \in Harts, Calls(h) \/ Writes(h)
    PROVE  ControllersFirst'
  <1>0. TInv /\ OwnIntc(h) /\ job[h] \in Jobs /\ JobOK(h, at[h], job[h]) /\ Own(h) \in Harts
    BY AtWrite DEF IInv, ControllersFirst
  <1>1. ASSUME NEW g \in Harts \ {h}, called' = called \/ called' = called \cup {h},
               mtvec'[g] = mtvec[g], mstatus'[g] = mstatus[g], intcDone'[g] = intcDone[g]
        PROVE  OwnIntc(g)'
    BY <1>0, <1>1, OthersStay DEF OwnIntc, IInv, ControllersFirst
  <1>2. ASSUME begun' = begun, called' = called, UNCHANGED <<mtvec, mstatus, intcDone>>, OwnIntc(h)'
        PROVE  ControllersFirst'
    BY <1>1, <1>2 DEF IInv, ControllersFirst
  <1> USE DEF csr, tables, done, thread
  <1>3. CASE CallIntcInit(h)
    <2>1. OwnIntc(h)'
      BY <1>0, <1>3, Started DEF CallIntcInit, Call, OwnIntc
    <2>2. QED
      BY <1>1, <1>3, <2>1 DEF CallIntcInit, Call, IInv, ControllersFirst
  <1>4. CASE CallClintInit(h) \/ CallPlicInit(h)
    <2>1. OwnIntc(h)'
      BY <1>0, <1>4, Started DEF CallClintInit, CallPlicInit, Call, OwnIntc
    <2>2. \A g \in Harts : intcDone'[g]
      BY <1>4 DEF CallClintInit, CallPlicInit, Call, AllIntcs
    <2>3. QED
      BY <1>1, <1>4, <2>1, <2>2 DEF CallClintInit, CallPlicInit, Call, IInv, ControllersFirst
  <1>5. CASE \E l \in ClintLines : CallRegister(h, l)
    BY <1>0, <1>2, <1>5, Started DEF CallRegister, Call, OwnIntc
  <1>6. CASE \E l \in Lines : Enable(h, l) \/ Disable(h, l)
    BY <1>0, <1>2, <1>6 DEF Enable, Disable, OwnIntc
  <1>7. CASE \E b \in BOOLEAN : GlobalEnable(h, b)
    <2>1. mstatus'[h] => intcDone'[h]
      BY <1>0, <1>7 DEF GlobalEnable, TInv, TypeOK
    <2>2. OwnIntc(h)'
      BY <1>0, <1>7, <2>1 DEF GlobalEnable, OwnIntc
    <2>3. \A g \in Harts \ {h} : mstatus'[g] = mstatus[g]
      BY <1>0, <1>7 DEF GlobalEnable, TInv, TypeOK
    <2>4. QED
      BY <1>1, <1>7, <2>2, <2>3 DEF GlobalEnable, IInv, ControllersFirst
  <1>8. CASE IntcTest(h)
    <2>1. job[h].op = "plic" => intcDone[Own(h)]
      BY <1>0 DEF IInv, OnceEach, ControllersFirst
    <2>2. job[h].op \in {"plic", "intc"} /\ (job[h].op = "intc" => Own(h) = h)
      BY <1>0, <1>8 DEF IntcTest, Write, JobOK, Jobs, Own
    <2>3. OwnIntc(h)'
      BY <1>0, <1>8, <2>1, <2>2, Moved DEF IntcTest, Write, OwnIntc, NoJob, Job
    <2>4. QED
      BY <1>2, <1>8, <2>3 DEF IntcTest, Write
  <1>9. CASE Wipe(h)
    BY <1>0, <1>2, <1>9, Moved DEF Wipe, Write, OwnIntc
  <1>10. CASE Vector(h)
    <2>1. mtvec'[h] = "table" /\ \A g \in Harts \ {h} : mtvec'[g] = mtvec[g]
      BY <1>0, <1>10 DEF Vector, TInv, TypeOK
    <2>2. OwnIntc(h)'
      BY <1>0, <1>10, <2>1, Moved DEF Vector, Write, OwnIntc
    <2>3. QED
      BY <1>1, <1>10, <2>1, <2>2 DEF Vector, Write, IInv, ControllersFirst
  <1>11. CASE IntcDone(h)
    <2>1. at[h] = "intcDone" /\ Own(h) = h /\ job[h].op = "intc"
      BY <1>11, WhileSetUp DEF IntcDone, Write
    <2>2. intcDone'[h] /\ \A g \in Harts \ {h} : intcDone'[g] = intcDone[g]
      BY <1>0, <1>11, <2>1 DEF IntcDone, TInv, TypeOK
    <2>3. OwnIntc(h)'
      BY <1>0, <1>11, <2>1, <2>2, Moved DEF IntcDone, Write, OwnIntc, NoJob, Job
    <2>4. QED
      BY <1>1, <1>11, <2>2, <2>3 DEF IntcDone, Write, IInv, ControllersFirst
  <1>12. CASE SetDefault(h) \/ SetHandler(h) \/ SetData(h)
    <2>1. at'[h] \in {"sub", "data", "mie", "idle"} /\ job[h].op # "intc" /\ job'[h].op # "intc"
      BY <1>0, <1>12, Moved
         DEF SetDefault, SetHandler, SetData, Write, JobOK, IntcLabels, NoJob, Job
    <2>2. OwnIntc(h)'
      BY <1>0, <1>12, <2>1 DEF SetDefault, SetHandler, SetData, Write, OwnIntc
    <2>3. QED
      BY <1>2, <1>12, <2>2 DEF SetDefault, SetHandler, SetData, Write
  <1>13. CASE SetSub(h) \/ SetMie(h)
    <2>1. at'[h] \in {"isr", "default", "clintDone", "intcTest", "plicDone"} /\ job'[h].op = job[h].op
      BY <1>0, <1>13, Moved DEF SetSub, SetMie, Job
    <2>2. OwnIntc(h)'
      BY <1>0, <1>13, <2>1 DEF SetSub, SetMie, Write, OwnIntc
    <2>3. QED
      BY <1>2, <1>13, <2>2 DEF SetSub, SetMie, Write
  <1>14. CASE ClintTest(h) \/ ClintDone(h) \/ PlicTest(h) \/ PlicDone(h)
    BY <1>0, <1>2, <1>14, Moved
       DEF ClintTest, ClintDone, PlicTest, PlicDone, Write, OwnIntc, JobOK, IntcLabels, NoJob, Job
  <1>15. QED
    BY <1>3, <1>4, <1>5, <1>6, <1>7, <1>8, <1>9, <1>10, <1>11, <1>12, <1>13, <1>14 DEF Calls, Writes

\* The CLINT and the PLIC are each begun, and done, by one call of one hart.
LEMMA NextOnceEach ==
    ASSUME IInv, IntcsFirst, NEW h \in Harts, Calls(h) \/ Writes(h)
    PROVE  OnceEach'
  <1>0. TInv /\ JobOK(h, at[h], job[h])
    BY AtWrite DEF IInv
  <1>1. \A g \in Harts \ {h} : job'[g] = job[g]
    BY <1>0, OthersStay
  \* The call goes on, or returns.
  <1>2. ASSUME UNCHANGED <<begun, clintDone, plicDone>>,
               job'[h].op = job[h].op \/ job'[h].op \notin {"clint", "plic"}
        PROVE  OnceEach'
    BY <1>1, <1>2 DEF IInv, OnceEach
  <1> USE DEF csr, tables, done, thread
  <1>3. CASE CallIntcInit(h) \/ \E l \in ClintLines : CallRegister(h, l)
    <2>1. job'[h].op \in {"intc", "register"}
      BY <1>0, <1>3, Started DEF CallIntcInit, CallRegister
    <2>2. QED
      BY <1>2, <1>3, <2>1 DEF CallIntcInit, CallRegister, Call
  <1>4. CASE CallClintInit(h)
    <2>1. job'[h].op = "clint" /\ \A g \in Harts : job[g].op # "clint"
      BY <1>0, <1>4, Started DEF CallClintInit, IInv, OnceEach
    <2>2. ~clintDone /\ begun' = begun \cup {"clint"} /\ UNCHANGED <<clintDone, plicDone>>
      BY <1>4 DEF CallClintInit, Call, IInv, OnceEach
    <2>3. QED
      BY <1>1, <2>1, <2>2 DEF IInv, OnceEach
  <1>5. CASE CallPlicInit(h)
    <2>1. job'[h].op = "plic" /\ \A g \in Harts : job[g].op # "plic"
      BY <1>0, <1>5, Started DEF CallPlicInit, IInv, OnceEach
    <2>2. ~plicDone /\ begun' = begun \cup {"plic"} /\ UNCHANGED <<clintDone, plicDone>>
      BY <1>5 DEF CallPlicInit, Call, IInv, OnceEach
    <2>3. QED
      BY <1>1, <2>1, <2>2 DEF IInv, OnceEach
  <1>6. CASE (\E l \in Lines : Enable(h, l) \/ Disable(h, l)) \/ \E b \in BOOLEAN : GlobalEnable(h, b)
    BY <1>2, <1>6 DEF Enable, Disable, GlobalEnable
  <1>7. CASE ClintDone(h)
    <2>1. job[h].op = "clint" /\ clintDone' /\ UNCHANGED <<begun, plicDone>>
      BY <1>0, <1>7 DEF ClintDone, Write, JobOK, Jobs, IntcLabels
    <2>2. job'[h].op = "none"
      BY <1>0, <1>7, Moved DEF ClintDone, NoJob, Job
    <2>3. QED
      BY <1>1, <2>1, <2>2 DEF IInv, OnceEach
  <1>8. CASE PlicDone(h)
    <2>1. job[h].op = "plic" /\ plicDone' /\ UNCHANGED <<begun, clintDone>>
      BY <1>0, <1>8 DEF PlicDone, Write, JobOK, Jobs, IntcLabels
    <2>2. job'[h].op = "none"
      BY <1>0, <1>8, Moved DEF PlicDone, NoJob, Job
    <2>3. QED
      BY <1>1, <2>1, <2>2 DEF IInv, OnceEach
  <1>9. CASE Writes(h) /\ ~ClintDone(h) /\ ~PlicDone(h)
    <2>1. job'[h].op = job[h].op \/ job'[h].op \notin {"clint", "plic"}
      BY <1>0, <1>9, Moved
         DEF Writes, IntcTest, Wipe, Vector, IntcDone, SetDefault, SetSub, SetHandler, SetData,
             SetMie, ClintTest, PlicTest, NoJob, Job
    <2>2. UNCHANGED <<begun, clintDone, plicDone>>
      BY <1>9 DEF Writes, Write, IntcTest, Wipe, Vector, IntcDone, SetDefault, SetSub,
                  SetHandler, SetData, SetMie, ClintTest, PlicTest
    <2>3. QED
      BY <1>2, <2>1, <2>2
  <1>10. QED
    BY <1>3, <1>4, <1>5, <1>6, <1>7, <1>8, <1>9 DEF Calls

\* What a write after the set-up of the tables does to them: it changes one field
\* of the entry the call is at, and the two loops share no entry.
LEMMA TableWritten ==
    ASSUME TInv, NEW h \in Harts, Writes(h), ~Wipe(h)
    PROVE  \A g \in Harts, l \in Lines :
               \/ /\ g = Own(h) /\ l = Line(h) /\ at[h] \in {"default", "sub", "isr", "data"}
                  /\ handler'[g][l] = CASE at[h] = "default" -> "default"
                                        [] at[h] = "isr" -> IF job[h].op = "plic" THEN "plic" ELSE "isr"
                                        [] OTHER -> handler[g][l]
                  /\ data'[g][l] = IF at[h] # "data" THEN data[g][l]
                                   ELSE IF job[h].op = "plic" THEN "plic" ELSE "own"
                  /\ sub[g][l] \/ at[h] = "sub" => sub'[g][l]
               \/ /\ ~(g = Own(h) /\ l = Line(h) /\ at[h] \in {"default", "sub", "isr", "data"})
                  /\ handler'[g][l] = handler[g][l] /\ data'[g][l] = data[g][l] /\ sub'[g][l] = sub[g][l]
  <1>0. OthersTyped /\ JobOK(h, at[h], job[h]) /\ Own(h) \in Harts
    BY AtWrite, TInvParts
  <1>1. CASE at[h] \notin {"default", "sub", "isr", "data"}
    BY <1>1 DEF Writes, Write, IntcTest, Vector, IntcDone, SetDefault, SetSub, SetHandler, SetData,
                SetMie, ClintTest, ClintDone, PlicTest, PlicDone, tables
  <1>2. at[h] \in {"default", "sub", "isr", "data"} => Line(h) \in Lines
    BY <1>0 DEF JobOK, Line, Lines, ClintLines, IntcLabels, Jobs
  <1>3. CASE at[h] = "default"
    <2>1. SetDefault(h)
      BY <1>3 DEF Writes, Write, IntcTest, Vector, IntcDone, SetSub, SetHandler, SetData,
                  SetMie, ClintTest, ClintDone, PlicTest, PlicDone
    <2>2. QED
      BY <1>0, <1>2, <1>3, <2>1, EntryWritten DEF SetDefault, OthersTyped
  <1>4. CASE at[h] = "sub"
    <2>1. SetSub(h)
      BY <1>4 DEF Writes, Write, IntcTest, Vector, IntcDone, SetDefault, SetHandler, SetData,
                  SetMie, ClintTest, ClintDone, PlicTest, PlicDone
    <2>2. QED
      <3>1. sub' = SubOf(h) /\ handler' = handler /\ data' = data
        BY <2>1 DEF SetSub
      <3>2. SubOf(h)[Own(h)][Line(h)]
        BY <1>0, <1>2, <1>4, EntryWritten DEF OthersTyped, SubOf
      <3>3. \A g \in Harts, l \in Lines :
                ~(g = Own(h) /\ l = Line(h)) => SubOf(h)[g][l] = sub[g][l]
        <4>1. SubOf(h) = [sub EXCEPT ![Own(h)] = [sub[Own(h)] EXCEPT ![Line(h)] = TRUE]]
          BY DEF SubOf
        <4>2. \A l \in Lines \ {Line(h)} : SubOf(h)[Own(h)][l] = sub[Own(h)][l]
          BY <1>0, <4>1 DEF OthersTyped
        <4>3. \A g \in Harts \ {Own(h)} : SubOf(h)[g] = sub[g]
          BY <1>0, <4>1 DEF OthersTyped
        <4>4. QED
          BY <4>2, <4>3
      <3>4. QED
        BY <1>4, <3>1, <3>2, <3>3
  <1>5. CASE at[h] = "isr"
    <2>1. SetHandler(h)
      BY <1>5 DEF Writes, Write, IntcTest, Vector, IntcDone, SetDefault, SetSub, SetData,
                  SetMie, ClintTest, ClintDone, PlicTest, PlicDone
    <2>2. QED
      BY <1>0, <1>2, <1>5, <2>1, EntryWritten DEF SetHandler, OthersTyped
  <1>6. CASE at[h] = "data"
    <2>1. SetData(h)
      BY <1>6 DEF Writes, Write, IntcTest, Vector, IntcDone, SetDefault, SetSub, SetHandler,
                  SetMie, ClintTest, ClintDone, PlicTest, PlicDone
    <2>2. QED
      BY <1>0, <1>2, <1>6, <2>1, EntryWritten DEF SetData, OthersTyped
  <1>7. QED
    BY <1>1, <1>3, <1>4, <1>5, <1>6

LEMMA NextClintProgress ==
    ASSUME IInv, IntcsFirst, NEW h \in Harts, Calls(h) \/ Writes(h)
    PROVE  ClintProgress'
  <1>0. /\ TInv /\ OthersTyped /\ JobOK(h, at[h], job[h]) /\ job[h] \in Jobs
        /\ Own(h) \in Harts /\ Own(h) = job[h].parent /\ Line(h) = job[h].line
    BY AtWrite, TInvParts DEF IInv, Own, Line
  <1>1. \A g \in Harts \ {h} : at'[g] = at[g] /\ job'[g] = job[g]
    BY <1>0, OthersStay
  <1> USE DEF csr, tables, done, thread
  <1>2. CASE Calls(h)
    <2>1. UNCHANGED <<handler, sub, clintDone>>
      BY <1>2 DEF Calls, CallIntcInit, CallClintInit, CallPlicInit, CallRegister, Call,
                  Enable, Disable, GlobalEnable
    <2>2. CASE CallClintInit(h)
      <3>1. /\ at'[h] = "clintTest" /\ job'[h].op = "clint"
            /\ job'[h].parent = 0 /\ job'[h].line = "SW"
        BY <1>0, <2>2, Started DEF CallClintInit
      <3>2. \A g \in Harts, l \in ClintLines : ~ClintPassed(h, g, l)'
        BY <3>1 DEF ClintPassed, Harts
      <3>3. ClintLoop(h)'
        BY <3>1, <3>2 DEF ClintLoop
      <3>4. QED
        BY <1>1, <2>1, <3>3 DEF IInv, ClintProgress, ClintLoop, ClintPassed, Known
    <2>3. CASE ~CallClintInit(h)
      <3>1. (at'[h] = at[h] /\ job'[h] = job[h]) \/ job'[h].op # "clint"
        BY <1>0, <1>2, <2>3, Started DEF Calls, CallIntcInit, CallPlicInit, CallRegister,
           Enable, Disable, GlobalEnable
      <3>2. QED
        BY <1>1, <2>1, <3>1 DEF IInv, ClintProgress, ClintLoop, ClintPassed, Known
    <2>4. QED
      BY <2>2, <2>3
  <1>3. CASE Wipe(h)
    <2>1. ~clintDone /\ \A g \in Harts : job[g].op # "clint"
      BY <1>3, WhileSetUp DEF Wipe, Write
    <2>2. ~clintDone' /\ job'[h] = job[h]
      BY <1>0, <1>3, <2>1, Moved DEF Wipe
    <2>3. QED
      BY <1>1, <2>1, <2>2 DEF ClintProgress, ClintLoop
  <1>4. CASE Writes(h) /\ ~Wipe(h)
    <2>1. /\ job[h].op = "clint" => ~clintDone /\ \A g \in Harts \ {h} : job[g].op # "clint"
          /\ job[h].op = "register" => clintDone
      BY DEF IInv, OnceEach, EntriesKept
    \* Only the call itself and a registration behind it write these entries.
    <2>2. ASSUME NEW g \in Harts, NEW l \in ClintLines
          PROVE  /\ job[h].op \notin {"clint", "register"} =>
                        handler'[g][l] = handler[g][l] /\ sub'[g][l] = sub[g][l]
                 /\ Known(g, l) => Known(g, l)'
                 /\ ~(g = Own(h) /\ l = Line(h)) =>
                        handler'[g][l] = handler[g][l] /\ sub'[g][l] = sub[g][l]
      BY <1>0, <1>4, TableWritten DEF JobOK, Known, Lines, ClintLines, IntcLabels, Jobs
    <2>3. clintDone' => \A g \in Harts, l \in ClintLines : Known(g, l)'
      <3>1. CASE clintDone
        BY <2>2, <3>1 DEF IInv, ClintProgress
      <3>2. CASE ~clintDone /\ clintDone'
        <4>1. at[h] = "clintDone"
          BY <1>4, <3>2 DEF Writes, Write, IntcTest, Vector, IntcDone, SetDefault, SetSub,
             SetHandler, SetData, SetMie, ClintTest, ClintDone, PlicTest, PlicDone
        <4>2. job[h].op = "clint"
          BY <1>0, <4>1 DEF JobOK, Jobs, IntcLabels
        <4>3. \A g \in Harts, l \in ClintLines : Known(g, l)
          BY <4>1, <4>2 DEF IInv, ClintProgress, ClintLoop, ClintPassed
        <4>4. QED
          BY <2>2, <4>3
      <3>3. QED
        BY <3>1, <3>2
    <2>4. ASSUME NEW k \in Harts \ {h}
          PROVE  ClintLoop(k)'
      <3>1. SUFFICES ASSUME job[k].op = "clint"
                     PROVE  ClintLoop(k)'
        BY <1>1 DEF ClintLoop
      <3>2. job[h].op \notin {"clint", "register"}
        BY <2>1, <3>1 DEF IInv, OnceEach
      <3>3. job[k].parent \in Harts /\ job[k].line \in ClintLines
        BY <1>0, <3>1, AtWrite DEF JobOK, Jobs
      <3>4. QED
        BY <1>1, <2>2, <3>1, <3>2, <3>3 DEF IInv, ClintProgress, ClintLoop, ClintPassed, Known
    <2>5. ClintLoop(h)'
      <3>1. SUFFICES ASSUME job'[h].op = "clint"
                     PROVE  ClintLoop(h)'
        BY DEF ClintLoop
      <3>2. job[h].op = "clint" /\ at[h] \in {"clintTest", "default", "sub"} /\ Line(h) \in ClintLines
        BY <1>0, <1>4, <3>1, Moved
           DEF JobOK, IntcLabels, Writes, Write, IntcTest, Vector, IntcDone, SetDefault, SetSub,
               SetHandler, SetData, SetMie, ClintTest, ClintDone, PlicTest, PlicDone, NoJob, Job
      <3>3. ClintLoop(h)
        BY DEF IInv, ClintProgress
      <3>4. CASE at[h] = "clintTest"
        <4>1. at'[h] = "default" /\ job'[h] = job[h]
          BY <1>0, <1>4, <2>1, <3>2, <3>4, Moved
             DEF Writes, Write, IntcTest, Vector, IntcDone, SetDefault, SetSub, SetHandler, SetData,
                 SetMie, ClintTest, ClintDone, PlicTest, PlicDone
        <4>2. QED
          BY <2>2, <3>2, <3>3, <3>4, <4>1 DEF ClintLoop, ClintPassed
      <3>5. CASE at[h] = "default"
        <4>1. SetDefault(h)
          BY <1>4, <3>5 DEF Writes, Write, IntcTest, Vector, IntcDone, SetSub, SetHandler, SetData,
             SetMie, ClintTest, ClintDone, PlicTest, PlicDone
        <4>2. at'[h] = "sub" /\ job'[h] = job[h]
          BY <1>0, <4>1, Moved DEF SetDefault
        <4>3. handler'[Own(h)][Line(h)] = "default"
          BY <1>0, <3>2, <4>1 DEF SetDefault, OthersTyped, Lines, ClintLines
        <4>4. QED
          BY <1>0, <2>2, <3>2, <3>3, <3>5, <4>2, <4>3 DEF ClintLoop, ClintPassed
      <3>6. CASE at[h] = "sub"
        <4>1. SetSub(h)
          BY <1>4, <3>6 DEF Writes, Write, IntcTest, Vector, IntcDone, SetDefault, SetHandler,
             SetData, SetMie, ClintTest, ClintDone, PlicTest, PlicDone
        <4>2. \A g \in Harts, l \in ClintLines : g = Own(h) /\ l = Line(h) => Known(g, l)'
          <5>1. Own(h) \in Harts /\ Line(h) \in Lines
            BY <1>0, <3>2 DEF Lines, ClintLines
          <5>2. sub'[Own(h)][Line(h)]
            BY <1>0, <4>1, <5>1 DEF SetSub, SubOf, OthersTyped
          <5>3. handler'[Own(h)][Line(h)] = "default"
            BY <1>0, <3>2, <3>3, <3>6, <4>1 DEF SetSub, ClintLoop
          <5>4. QED
            BY <5>2, <5>3 DEF Known
        <4>3. CASE Line(h) = "SW"
          <5>1. at'[h] = "default" /\ job'[h].parent = Own(h) /\ job'[h].line = "TMR"
            BY <1>0, <3>2, <4>1, <4>3, Moved DEF SetSub, Job
          <5>2. \A g \in Harts, l \in ClintLines :
                    ClintPassed(h, g, l)' => ClintPassed(h, g, l) \/ (g = Own(h) /\ l = Line(h))
            BY <1>0, <4>3, <5>1 DEF ClintPassed
          <5>3. QED
            BY <2>2, <3>2, <3>3, <4>2, <5>1, <5>2 DEF ClintLoop
        <4>4. CASE Line(h) = "TMR"
          <5>1. \/ /\ Own(h) + 1 \in Harts /\ at'[h] = "default"
                   /\ job'[h].parent = Own(h) + 1 /\ job'[h].line = "SW"
                \/ Own(h) = N - 1 /\ at'[h] = "clintDone" /\ job'[h] = job[h]
            BY <1>0, <3>2, <4>1, <4>4, Moved DEF SetSub
          <5>2. ASSUME NEW g \in Harts, NEW l \in ClintLines, ClintPassed(h, g, l)'
                PROVE  ClintPassed(h, g, l) \/ (g = Own(h) /\ l = Line(h))
            <6>1. g < Own(h) \/ g = Own(h)
              BY <1>0, <5>1, <5>2, HartsAssumption DEF ClintPassed, Harts
            <6>2. g < Own(h) => ClintPassed(h, g, l)
              BY <1>0 DEF ClintPassed
            <6>3. g = Own(h) /\ l # Line(h) => ClintPassed(h, g, l)
              BY <1>0, <4>4 DEF ClintPassed, ClintLines
            <6>4. QED
              BY <6>1, <6>2, <6>3
          <5>3. QED
            BY <2>2, <3>2, <3>3, <4>2, <5>1, <5>2 DEF ClintLoop
        <4>5. QED
          BY <3>2, <4>3, <4>4 DEF ClintLines
      <3>7. QED
        BY <3>2, <3>4, <3>5, <3>6
    <2>6. QED
      BY <2>3, <2>4, <2>5 DEF ClintProgress
  <1>5. QED
    BY <1>2, <1>3, <1>4

LEMMA NextPlicProgress ==
    ASSUME IInv, IntcsFirst, NEW h \in Harts, Calls(h) \/ Writes(h)
    PROVE  PlicProgress'
  <1>0. /\ TInv /\ OthersTyped /\ JobOK(h, at[h], job[h]) /\ job[h] \in Jobs
        /\ Own(h) \in Harts /\ Own(h) = job[h].parent /\ Line(h) = job[h].line
    BY AtWrite, TInvParts DEF IInv, Own, Line
  <1>1. \A g \in Harts \ {h} : at'[g] = at[g] /\ job'[g] = job[g]
    BY <1>0, OthersStay
  <1> USE DEF csr, tables, done, thread
  <1>2. CASE Calls(h)
    <2>1. UNCHANGED <<handler, data, plicDone>>
      BY <1>2 DEF Calls, CallIntcInit, CallClintInit, CallPlicInit, CallRegister, Call,
                  Enable, Disable, GlobalEnable
    <2>2. CASE CallPlicInit(h)
      <3>1. at'[h] = "plicTest" /\ job'[h].op = "plic" /\ job'[h].parent = 0
        BY <1>0, <2>2, Started DEF CallPlicInit
      <3>2. PlicLoop(h)'
        BY <3>1 DEF PlicLoop, Harts
      <3>3. QED
        BY <1>1, <2>1, <3>2 DEF IInv, PlicProgress, PlicLoop, Dispatches
    <2>3. CASE ~CallPlicInit(h)
      <3>1. (at'[h] = at[h] /\ job'[h] = job[h]) \/ job'[h].op # "plic"
        BY <1>0, <1>2, <2>3, Started DEF Calls, CallIntcInit, CallClintInit, CallRegister,
           Enable, Disable, GlobalEnable
      <3>2. QED
        BY <1>1, <2>1, <3>1 DEF IInv, PlicProgress, PlicLoop, Dispatches
    <2>4. QED
      BY <2>2, <2>3
  <1>3. CASE Wipe(h)
    <2>1. ~plicDone /\ \A g \in Harts : job[g].op # "plic"
      BY <1>3, WhileSetUp DEF Wipe, Write
    <2>2. ~plicDone' /\ job'[h] = job[h]
      BY <1>0, <1>3, <2>1, Moved DEF Wipe
    <2>3. QED
      BY <1>1, <2>1, <2>2 DEF PlicProgress, PlicLoop
  <1>4. CASE Writes(h) /\ ~Wipe(h)
    <2>1. job[h].op = "plic" => ~plicDone /\ \A g \in Harts \ {h} : job[g].op # "plic"
      BY DEF IInv, OnceEach
    \* Only the call itself writes these entries.
    <2>2. ASSUME NEW g \in Harts, job[h].op # "plic" \/ g # Own(h)
          PROVE  handler'[g]["EXT"] = handler[g]["EXT"] /\ data'[g]["EXT"] = data[g]["EXT"]
      BY <1>0, <1>4, <2>2, TableWritten DEF JobOK, Lines, ClintLines, IntcLabels, Jobs
    <2>3. plicDone' => \A g \in Harts : Dispatches(g)'
      <3>1. CASE plicDone
        BY <2>1, <2>2, <3>1 DEF IInv, PlicProgress, Dispatches
      <3>2. CASE ~plicDone /\ plicDone'
        <4>1. at[h] = "plicDone" /\ UNCHANGED <<handler, data>>
          BY <1>4, <3>2 DEF Writes, Write, IntcTest, Vector, IntcDone, SetDefault, SetSub,
             SetHandler, SetData, SetMie, ClintTest, ClintDone, PlicTest, PlicDone
        <4>2. job[h].op = "plic"
          BY <1>0, <4>1 DEF JobOK, Jobs, IntcLabels
        <4>3. \A g \in Harts : Dispatches(g)
          BY <4>1, <4>2 DEF IInv, PlicProgress, PlicLoop
        <4>4. QED
          BY <4>1, <4>3 DEF Dispatches
      <3>3. QED
        BY <3>1, <3>2
    <2>4. ASSUME NEW k \in Harts \ {h}
          PROVE  PlicLoop(k)'
      <3>1. SUFFICES ASSUME job[k].op = "plic"
                     PROVE  PlicLoop(k)'
        BY <1>1 DEF PlicLoop
      <3>2. job[h].op # "plic"
        BY <2>1, <3>1
      <3>3. job[k].parent \in Harts
        BY <1>0, AtWrite DEF Jobs
      <3>4. QED
        BY <1>1, <2>2, <3>1, <3>2, <3>3 DEF IInv, PlicProgress, PlicLoop, Dispatches
    <2>5. PlicLoop(h)'
      <3>1. SUFFICES ASSUME job'[h].op = "plic"
                     PROVE  PlicLoop(h)'
        BY DEF PlicLoop
      <3>2. /\ job[h].op = "plic" /\ Line(h) = "EXT"
            /\ at[h] \in {"plicTest", "intcTest", "default", "sub", "isr", "data", "mie"}
        <4>1. job[h].op = "plic"
          BY <1>0, <1>4, <3>1, Moved
             DEF JobOK, Writes, Write, IntcTest, Vector, IntcDone, SetDefault, SetSub,
             SetHandler, SetData, SetMie, ClintTest, ClintDone, PlicTest, PlicDone, NoJob, Job
        <4>2. at[h] # "plicDone"
          BY <1>0, <1>4, <3>1, Moved
             DEF Writes, Write, IntcTest, Vector, IntcDone, SetDefault, SetSub,
             SetHandler, SetData, SetMie, ClintTest, ClintDone, PlicTest, PlicDone, NoJob, Job
        <4>3. at[h] \notin {"wipe", "vector", "intcDone"}
          BY <4>1, WhileSetUp
        <4>4. QED
          BY <1>0, <4>1, <4>2, <4>3 DEF JobOK, IntcLabels
      <3>3. PlicLoop(h)
        BY DEF IInv, PlicProgress
      <3>4. \A g \in Harts : g < Own(h) => Dispatches(g)'
        BY <1>0, <2>2, <3>2, <3>3 DEF PlicLoop, Dispatches, Harts
      <3>5. CASE at[h] \in {"plicTest", "intcTest", "default", "sub"}
        <4>1. job[h].op = "plic" /\ intcDone[Own(h)] /\ ~plicDone
          BY <1>0, <2>1, <3>2 DEF IInv, OnceEach, ControllersFirst
        <4>2. at'[h] \in {"intcTest", "default", "sub", "isr"} /\ job'[h] = job[h]
          BY <1>0, <1>4, <3>2, <3>5, <4>1, Moved
             DEF Writes, Write, IntcTest, Vector, IntcDone, SetDefault, SetSub,
             SetHandler, SetData, SetMie, ClintTest, ClintDone, PlicTest, PlicDone
        <4>3. QED
          BY <1>0, <3>4, <4>2 DEF PlicLoop
      <3>6. CASE at[h] \in {"isr", "data"}
        <4>1. /\ at[h] = "isr" => at'[h] = "data"
              /\ at[h] = "data" => at'[h] = "mie"
              /\ job'[h] = job[h]
          BY <1>0, <1>4, <3>2, <3>6, Moved
             DEF Writes, Write, IntcTest, Vector, IntcDone, SetDefault, SetSub,
             SetHandler, SetData, SetMie, ClintTest, ClintDone, PlicTest, PlicDone
        <4>2. at[h] = "isr" => \A g \in Harts : g = Own(h) => handler'[g]["EXT"] = "plic"
          BY <1>0, <1>4, <3>2, TableWritten DEF Lines
        <4>3. at[h] = "data" => \A g \in Harts : g = Own(h) => Dispatches(g)'
          BY <1>0, <1>4, <3>2, <3>3, TableWritten DEF Lines, Dispatches, PlicLoop
        <4>4. QED
          BY <1>0, <3>4, <3>6, <4>1, <4>2, <4>3 DEF PlicLoop
      <3>7. CASE at[h] = "mie"
        <4>1. SetMie(h)
          BY <1>4, <3>7 DEF Writes, Write, IntcTest, Vector, IntcDone, SetDefault, SetSub,
             SetHandler, SetData, SetMie, ClintTest, ClintDone, PlicTest, PlicDone
        <4>2. \/ /\ Own(h) + 1 \in Harts /\ at'[h] = "intcTest" /\ job'[h].parent = Own(h) + 1
              \/ Own(h) = N - 1 /\ at'[h] = "plicDone" /\ job'[h] = job[h]
          BY <1>0, <4>1, Moved DEF SetMie
        <4>3. \A g \in Harts : g = Own(h) => Dispatches(g)'
          BY <1>0, <3>2, <3>3, <3>7, <4>1 DEF SetMie, PlicLoop, Dispatches
        <4>4. ASSUME NEW g \in Harts, g < job'[h].parent \/ at'[h] = "plicDone"
              PROVE  g < Own(h) \/ g = Own(h)
          BY <1>0, <4>2, <4>4, HartsAssumption DEF Harts
        <4>5. QED
          BY <3>4, <4>2, <4>3, <4>4 DEF PlicLoop
      <3>8. QED
        BY <3>2, <3>5, <3>6, <3>7
    <2>6. QED
      BY <2>3, <2>4, <2>5 DEF PlicProgress
  <1>5. QED
    BY <1>2, <1>3, <1>4

\* Only the PLIC enables a line while it is initialised, the external one.
LEMMA MieWritten ==
    ASSUME TInv, NEW h \in Harts, Writes(h), NEW g \in Harts, NEW l \in ClintLines
    PROVE  l \in mie'[g] <=> l \in mie[g]
  <1>1. CASE SetMie(h)
    <2>1. Line(h) = "EXT"
      BY <1>1, AtWrite DEF SetMie, Write, JobOK, Jobs, IntcLabels, Line
    <2>2. QED
      BY <1>1, <2>1 DEF SetMie, TInv, TypeOK, ClintLines
  <1>2. CASE ~SetMie(h)
    BY <1>2 DEF Writes, IntcTest, Wipe, Vector, IntcDone, SetDefault, SetSub, SetHandler, SetData,
                ClintTest, ClintDone, PlicTest, PlicDone, csr
  <1>3. QED
    BY <1>1, <1>2

LEMMA NextEntriesKept ==
    ASSUME IInv, IntcsFirst, NEW h \in Harts, Calls(h) \/ Writes(h)
    PROVE  EntriesKept'
  <1>0. /\ TInv /\ OthersTyped /\ JobOK(h, at[h], job[h]) /\ job[h] \in Jobs
        /\ Own(h) \in Harts /\ Own(h) = job[h].parent /\ Line(h) = job[h].line
    BY AtWrite, TInvParts DEF IInv, Own, Line
  <1>1. \A g \in Harts \ {h} : at'[g] = at[g] /\ job'[g] = job[g]
    BY <1>0, OthersStay
  <1> USE DEF csr, tables, done, thread
  <1>2. CASE Calls(h)
    <2>1. UNCHANGED <<handler, data, clintDone>>
      BY <1>2 DEF Calls, CallIntcInit, CallClintInit, CallPlicInit, CallRegister, Call,
                  Enable, Disable, GlobalEnable
    <2>2. job[h].op = "none"
      BY <1>0, <1>2, AtWrite, Started DEF Calls, CallIntcInit, CallClintInit, CallPlicInit,
         CallRegister, Enable, Disable, GlobalEnable, Idle
    <2>3. ASSUME NEW g \in Harts, NEW l \in ClintLines
          PROVE  l \in mie'[g] => clintDone
      <3>1. CASE \E m \in Lines : Enable(h, m)
        BY <1>0, <3>1 DEF Enable, Ready, IInv, EntriesKept, EntryKept, OthersTyped, ClintLines
      <3>2. CASE \E m \in Lines : Disable(h, m)
        BY <1>0, <3>2 DEF Disable, IInv, EntriesKept, EntryKept, OthersTyped
      <3>3. CASE UNCHANGED mie
        BY <3>3 DEF IInv, EntriesKept, EntryKept
      <3>4. QED
        BY <1>2, <3>1, <3>2, <3>3
           DEF Calls, CallIntcInit, CallClintInit, CallPlicInit, CallRegister, Call, GlobalEnable
    <2>4. \A g \in Harts, l \in ClintLines : EntryKept(g, l)'
      BY <1>1, <2>1, <2>2, <2>3 DEF IInv, EntriesKept, EntryKept
    <2>5. ASSUME NEW g \in Harts, job'[g].op = "register"
          PROVE  clintDone' /\ job'[g].line \notin mie'[g]
      <3>1. CASE g = h
        <4>1. PICK l \in ClintLines : CallRegister(h, l)
          BY <1>0, <1>2, <2>2, <2>5, <3>1, Started
             DEF Calls, CallIntcInit, CallClintInit, CallPlicInit, Enable, Disable, GlobalEnable
        <4>2. job'[h].line = l /\ clintDone /\ l \notin mie[h] /\ UNCHANGED mie
          BY <1>0, <4>1, Started DEF CallRegister, Call, Ready, ClintLines
        <4>3. QED
          BY <2>1, <3>1, <4>2
      <3>2. CASE g # h
        <4>1. mie'[g] = mie[g]
          BY <1>0, <1>2, <3>2 DEF Calls, CallIntcInit, CallClintInit, CallPlicInit, CallRegister,
             Call, Enable, Disable, GlobalEnable, OthersTyped
        <4>2. QED
          BY <1>1, <2>1, <2>5, <3>2, <4>1 DEF IInv, EntriesKept
      <3>3. QED
        BY <3>1, <3>2
    <2>6. QED
      BY <2>1, <2>4, <2>5 DEF EntriesKept, IInv
  <1>3. CASE Wipe(h)
    <2>1. /\ at[h] = "wipe" /\ Own(h) = h /\ job'[h] = job[h] /\ UNCHANGED <<mie, clintDone>>
          /\ job[h].op = "intc"
      BY <1>0, <1>3, WhileSetUp, Moved DEF Wipe, Write
    <2>2. \A l \in Lines : handler'[h][l] = "null"
      BY <1>0, <1>3, <2>1 DEF Wipe, OthersTyped
    <2>3. \A g \in Harts \ {h} : handler'[g] = handler[g] /\ data'[g] = data[g]
      BY <1>0, <1>3, <2>1 DEF Wipe, OthersTyped
    <2>4. QED
      BY <1>1, <2>1, <2>2, <2>3 DEF IInv, EntriesKept, EntryKept, Lines, ClintLines
  <1>4. CASE Writes(h) /\ ~Wipe(h)
    <2>1. clintDone => clintDone'
      BY <1>4 DEF Writes, Write, IntcTest, Vector, IntcDone, SetDefault, SetSub,
             SetHandler, SetData, SetMie, ClintTest, ClintDone, PlicTest, PlicDone
    <2>2. \/ job'[h] = job[h] \/ job'[h].op # "register"
      BY <1>0, <1>4, Moved DEF JobOK, Writes, Write, IntcTest, Vector, IntcDone, SetDefault, SetSub,
             SetHandler, SetData, SetMie, ClintTest, ClintDone, PlicTest, PlicDone,
             IntcLabels, NoJob, Job
    <2>3. ASSUME NEW g \in Harts
          PROVE  handler'[g]["EXT"] # "isr"
      BY <1>0, <1>4, TableWritten DEF IInv, EntriesKept, JobOK, Lines, ClintLines, IntcLabels, Jobs
    <2>4. job[h].op = "register" => Own(h) = h /\ clintDone
      BY <1>0 DEF JobOK, IInv, EntriesKept
    <2>5. ASSUME NEW g \in Harts, NEW l \in ClintLines
          PROVE  EntryKept(g, l)'
      <3>1. l \in mie'[g] => clintDone'
        BY <1>0, <1>4, <2>1, MieWritten DEF IInv, EntriesKept, EntryKept
      <3>2. EntryKept(g, l)
        BY DEF IInv, EntriesKept
      <3>3. CASE g = Own(h) /\ l = Line(h) /\ at[h] \in {"default", "sub"}
        <4>1. /\ at[h] = "default" => handler'[g][l] = "default"
              /\ at[h] = "sub" => handler'[g][l] = handler[g][l]
              /\ data'[g][l] = data[g][l]
          BY <1>4, <1>0, <3>3, TableWritten DEF Lines, ClintLines
        <4>2. handler'[g][l] # "isr"
          <5>1. job[h].op = "clint"
            BY <1>0, <3>3 DEF JobOK, IntcLabels, Jobs, ClintLines
          <5>2. handler[g][l] # "isr"
            BY <3>2, <5>1 DEF IInv, OnceEach, EntryKept
          <5>3. QED
            BY <3>3, <4>1, <5>2
        <4>3. QED
          BY <3>1, <3>2, <3>3, <4>1, <4>2 DEF EntryKept
      <3>4. CASE g = Own(h) /\ l = Line(h) /\ at[h] \in {"isr", "data"}
        <4>1. job[h].op = "register" /\ g = h /\ clintDone
          BY <1>0, <2>4, <3>4 DEF JobOK, IntcLabels, Jobs, ClintLines
        <4>2. /\ at[h] = "isr" => handler'[g][l] = "isr"
              /\ at[h] = "data" => handler'[g][l] = handler[g][l] /\ data'[g][l] = "own"
          BY <1>0, <1>4, <3>4, <4>1, TableWritten DEF Lines, ClintLines
        <4>3. at[h] = "isr" => at'[h] = "data" /\ job'[h] = job[h]
          BY <1>0, <1>4, Moved
             DEF Writes, Write, IntcTest, Vector, IntcDone, SetDefault, SetSub, SetHandler, SetData,
                 SetMie, ClintTest, ClintDone, PlicTest, PlicDone
        <4>4. QED
          BY <1>0, <2>1, <3>1, <3>2, <3>4, <4>1, <4>2, <4>3 DEF EntryKept
      <3>5. CASE ~(g = Own(h) /\ l = Line(h) /\ at[h] \in {"default", "sub", "isr", "data"})
        <4>1. handler'[g][l] = handler[g][l] /\ data'[g][l] = data[g][l]
          BY <1>4, <1>0, <3>5, TableWritten DEF Lines, ClintLines
        <4>2. ASSUME job[g].op = "register", job[g].line = l, at[g] = "data"
              PROVE  job'[g].op = "register" /\ job'[g].line = l /\ at'[g] = "data"
          <5>1. g # h
            BY <1>0, <2>4, <3>5, <4>2
          <5>2. QED
            BY <1>1, <4>2, <5>1
        <4>3. QED
          BY <2>1, <3>1, <3>2, <4>1, <4>2 DEF EntryKept
      <3>6. QED
        BY <3>3, <3>4, <3>5
    <2>6. ASSUME NEW g \in Harts, job'[g].op = "register"
          PROVE  clintDone' /\ job'[g].line \notin mie'[g]
      <3>1. job'[g] = job[g]
        BY <1>1, <2>2, <2>6
      <3>2. job[g].line \in ClintLines
        BY <1>0, <2>6, <3>1, AtWrite DEF JobOK
      <3>3. QED
        BY <1>0, <1>4, <2>1, <2>6, <3>1, <3>2, MieWritten DEF IInv, EntriesKept
    <2>7. QED
      BY <2>3, <2>5, <2>6 DEF EntriesKept
  <1>5. QED
    BY <1>2, <1>3, <1>4

\* A call or a write is made by a hart that is in no trap; the entry of another
\* hart's trap is written by no one.
LEMMA NextTrapsTrue ==
    ASSUME IInv, IntcsFirst, NEW h \in Harts, Calls(h) \/ Writes(h)
    PROVE  TrapsTrue' /\ TrapsLand'
  <1>0. /\ TInv /\ OthersTyped /\ JobOK(h, at[h], job[h]) /\ job[h] \in Jobs
        /\ Own(h) \in Harts /\ Own(h) = job[h].parent /\ Line(h) = job[h].line
    BY AtWrite, TInvParts DEF IInv, Own, Line
  <1> USE DEF csr, tables, done, thread
  <1>1. trap[h] = NoTrap /\ UNCHANGED <<trap, fate>>
    BY DEF Calls, CallIntcInit, CallClintInit, CallPlicInit, CallRegister, Call, Enable, Disable,
           GlobalEnable, Idle, Runs, Wipe, Writes, Write, IntcTest, Vector, IntcDone, SetDefault, SetSub,
             SetHandler, SetData, SetMie, ClintTest, ClintDone, PlicTest, PlicDone
  <1>2. TrapsLand'
    BY <1>1 DEF IInv, TrapsLand
  <1>3. ASSUME NEW g \in Harts
        PROVE  TrapTrue(g)'
    <2>1. SUFFICES ASSUME trap[g] # NoTrap
                   PROVE  TrapTrue(g)'
      BY <1>1 DEF TrapTrue
    <2>2. /\ g # h /\ TrapTrue(g) /\ trap[g].line \in Lines
          /\ trap[g].line \in ClintLines => clintDone
      BY <1>0, <1>1, <2>1 DEF IInv, TrapsTrue, TrapTrue, EntriesKept, EntryKept, OthersTyped
    <2>3. mie'[g] = mie[g]
      BY <1>0, <2>2 DEF Calls, CallIntcInit, CallClintInit, CallPlicInit, CallRegister, Call,
         Enable, Disable, GlobalEnable, Wipe, OthersTyped, Writes, Write, IntcTest, Vector, IntcDone, SetDefault, SetSub,
             SetHandler, SetData, SetMie, ClintTest, ClintDone, PlicTest, PlicDone
    <2>4. plicDone => plicDone'
      BY DEF Calls, CallIntcInit, CallClintInit, CallPlicInit, CallRegister, Call,
         Enable, Disable, GlobalEnable, Wipe, Writes, Write, IntcTest, Vector, IntcDone, SetDefault, SetSub,
             SetHandler, SetData, SetMie, ClintTest, ClintDone, PlicTest, PlicDone
    <2>5. data'[g][trap[g].line] = data[g][trap[g].line]
      <3>1. CASE Calls(h)
        BY <3>1 DEF Calls, CallIntcInit, CallClintInit, CallPlicInit, CallRegister, Call,
           Enable, Disable, GlobalEnable
      <3>2. ~Wipe(h)
        BY <2>1, WhileSetUp DEF Wipe, Write
      <3>3. CASE Writes(h)
        <4>1. ~(g = Own(h) /\ trap[g].line = Line(h) /\ at[h] = "data")
          <5>1. ASSUME at[h] = "data", g = Own(h), trap[g].line = Line(h)
                PROVE  FALSE
            <6>1. job[h].op = "plic" /\ Line(h) = "EXT"
              BY <1>0, <2>2, <5>1 DEF JobOK, Jobs, IntcLabels
            <6>2. plicDone
              BY <2>1, <2>2, <5>1, <6>1 DEF TrapTrue
            <6>3. QED
              BY <6>1, <6>2 DEF IInv, OnceEach
          <5>2. QED
            BY <5>1
        <4>2. QED
          BY <1>0, <2>2, <3>2, <3>3, <4>1, TableWritten
      <3>4. QED
        BY <3>1, <3>3
    <2>6. QED
      BY <1>1, <2>1, <2>2, <2>3, <2>4, <2>5 DEF TrapTrue
  <1>4. QED
    BY <1>2, <1>3 DEF TrapsTrue

\* A trap finds its line as the initialisation or a registration has left it.
LEMMA TrapIInv ==
    ASSUME IInv, NEW h \in Harts, (\E l \in Lines : TrapEnter(h, l)) \/ TrapCall(h)
    PROVE  IInv'
  <1>0. TInv /\ OthersTyped
    BY TInvParts DEF IInv
  <1>1. TInv'
    BY <1>0, TrapsTyped
  <1>2. UNCHANGED <<csr, tables, done, thread, called, begun>>
    BY DEF TrapEnter, TrapCall
  <1> USE DEF csr, tables, done, thread
  <1>3. ControllersFirst' /\ OnceEach' /\ ClintProgress' /\ PlicProgress' /\ EntriesKept'
    <2>1. ControllersFirst' /\ OnceEach'
      BY <1>2 DEF IInv, ControllersFirst, OwnIntc, OnceEach
    <2>2. ClintProgress'
      BY <1>2 DEF IInv, ClintProgress, ClintLoop, ClintPassed, Known
    <2>3. PlicProgress'
      BY <1>2 DEF IInv, PlicProgress, PlicLoop, Dispatches
    <2>4. EntriesKept'
      BY <1>2 DEF IInv, EntriesKept, EntryKept
    <2>5. QED
      BY <2>1, <2>2, <2>3, <2>4
  <1>4. ASSUME NEW l \in Lines, TrapEnter(h, l)
        PROVE  TrapsTrue' /\ TrapsLand'
    <2>1. mtvec[h] = "table" /\ l \in mie[h] /\ (l = "EXT" => plicDone)
      BY <1>4 DEF TrapEnter, IInv, ControllersFirst, OwnIntc
    <2>2. fate' = fate /\ trap' = [trap EXCEPT ![h] = [line |-> l, priv |-> data[h][l]]]
      BY <1>4, <2>1 DEF TrapEnter
    <2>3. TrapTrue(h)'
      BY <1>0, <1>2, <2>1, <2>2 DEF TrapTrue, OthersTyped
    <2>4. \A g \in Harts \ {h} : TrapTrue(g)'
      BY <1>0, <1>2, <2>2 DEF TrapTrue, IInv, TrapsTrue, OthersTyped
    <2>5. QED
      BY <2>2, <2>3, <2>4 DEF TrapsTrue, TrapsLand, IInv
  <1>5. CASE TrapCall(h)
    <2> DEFINE l == trap[h].line
    <2>1. /\ l \in Lines /\ l \in mie[h] /\ trap[h].priv = data[h][l]
          /\ l = "EXT" => plicDone
      BY <1>0, <1>5 DEF TrapCall, IInv, TrapsTrue, TrapTrue, OthersTyped
    <2>2. Outcome(h) \notin {"early", "null", "storm", "alien"}
      <3>1. CASE l = "EXT"
        <4>1. handler[h][l] = "plic" /\ trap[h].priv = "plic"
          BY <2>1, <3>1 DEF IInv, PlicProgress, Dispatches
        <4>2. QED
          BY <4>1 DEF Outcome
      <3>2. CASE l \in ClintLines
        <4>1. clintDone /\ EntryKept(h, l)
          BY <2>1, <3>2 DEF IInv, EntriesKept, EntryKept
        <4>2. handler[h][l] \in {"default", "isr"} /\ sub[h][l]
          BY <3>2, <4>1 DEF IInv, ClintProgress, Known
        <4>3. handler[h][l] = "isr" => trap[h].priv = "own"
          BY <2>1, <4>1 DEF EntryKept, IInv, EntriesKept
        <4>4. CASE handler[h][l] = "isr"
          BY <4>3, <4>4 DEF Outcome
        <4>5. CASE handler[h][l] = "default"
          BY <4>2, <4>5 DEF Outcome
        <4>6. QED
          BY <4>2, <4>4, <4>5
      <3>3. QED
        BY <2>1, <3>1, <3>2 DEF Lines, ClintLines
    <2>3. TrapsLand'
      BY <1>0, <1>5, <2>2 DEF TrapCall, TrapsLand, IInv, OthersTyped
    <2>4. \A g \in Harts : TrapTrue(g)'
      BY <1>0, <1>2, <1>5 DEF TrapCall, TrapTrue, IInv, TrapsTrue, OthersTyped
    <2>5. QED
      BY <1>1, <1>3, <2>3, <2>4 DEF TrapsTrue, IInv
  <1>6. QED
    BY <1>1, <1>3, <1>4, <1>5 DEF IInv

LEMMA NextIInv == IInv /\ IntcsFirst /\ [Next]_vars => IInv'
  <1>1. ASSUME IInv, UNCHANGED vars
        PROVE  IInv'
    <2>1. TInv' /\ ControllersFirst' /\ OnceEach' /\ TrapsTrue' /\ TrapsLand'
      BY <1>1 DEF IInv, TInv, TypeOK, JobsOK, ControllersFirst, OwnIntc, OnceEach, TrapsTrue,
                  TrapTrue, TrapsLand, vars, csr, tables, done, thread
    <2>2. ClintProgress' /\ PlicProgress' /\ EntriesKept'
      BY <1>1 DEF IInv, ClintProgress, ClintLoop, ClintPassed, Known, PlicProgress, PlicLoop,
                  Dispatches, EntriesKept, EntryKept, vars, csr, tables, done, thread
    <2>3. QED
      BY <2>1, <2>2 DEF IInv
  <1>2. ASSUME IInv, IntcsFirst, NEW h \in Harts, Calls(h) \/ Writes(h)
        PROVE  IInv'
    BY <1>2, CallsTyped, WritesTyped, NextControllersFirst, NextOnceEach, NextClintProgress,
       NextPlicProgress, NextEntriesKept, NextTrapsTrue DEF IInv
  <1>3. QED
    BY <1>1, <1>2, TrapIInv DEF Next

-----------------------------------------------------------------------------
(* The theorems *)

LEMMA Invariant ==
    ASSUME IntcsFirst
    PROVE  Spec => []IInv
  <1>1. IInv /\ [Next]_vars => IInv'
    BY NextIInv
  <1>2. QED
    BY <1>1, InitIInv, PTL DEF Spec

\* With the CPU controllers initialised before the CLINT and the PLIC, on any
\* number of harts, no enabled interrupt ends in early_trap_vector, in a null
\* handler, with data that was not registered with its handler or in a timer
\* handler that cannot set the timer.
THEOREM TrapsLandHolds ==
    ASSUME IntcsFirst
    PROVE  Spec => []TrapsLand
  <1>1. IInv => TrapsLand
    BY DEF IInv
  <1>2. QED
    BY <1>1, Invariant, PTL

\* A hart whose controllers are initialised finds the CLINT behind its timer line.
THEOREM TimerUsableHolds ==
    ASSUME IntcsFirst
    PROVE  Spec => []TimerUsable
  <1>1. IInv => TimerUsable
    BY DEF IInv, TimerUsable, Ready, ClintProgress, Known, ClintLines
  <1>2. QED
    BY <1>1, Invariant, PTL

\* A hart that has initialised its CPU controller has left early_trap_vector.
THEOREM VectorSetHolds ==
    ASSUME IntcsFirst
    PROVE  Spec => []VectorSet
  <1>1. IInv => VectorSet
    BY AtWrite DEF IInv, VectorSet, ControllersFirst, OwnIntc
  <1>2. QED
    BY <1>1, Invariant, PTL

\* No init function that runs later takes a registered handler away: what it
\* still writes once the CLINT is initialised is the external line.
THEOREM RegisteredStaysHolds ==
    ASSUME IntcsFirst
    PROVE  Spec => RegisteredStays
  <1> DEFINE Stays == \A h \in Harts, l \in Lines : handler[h][l] = "isr" => handler'[h][l] = "isr"
  <1>1. ASSUME IInv, [Next]_vars, NEW g \in Harts, NEW l \in Lines, handler[g][l] = "isr"
        PROVE  handler'[g][l] = "isr"
    <2>1. l \in ClintLines /\ clintDone
      BY <1>1 DEF IInv, EntriesKept, EntryKept, Lines, ClintLines
    <2>2. ASSUME NEW h \in Harts, Calls(h) \/ (\E m \in Lines : TrapEnter(h, m)) \/ TrapCall(h)
          PROVE  handler' = handler
      BY <2>2 DEF Calls, CallIntcInit, CallClintInit, CallPlicInit, CallRegister, Call, Enable,
                  Disable, GlobalEnable, TrapEnter, TrapCall, tables
    <2>3. ASSUME NEW h \in Harts, Writes(h)
          PROVE  handler'[g][l] = "isr"
      <3>1. ~Wipe(h)
        BY <1>1, <2>1, WhileSetUp DEF Wipe, Write
      <3>2. TInv /\ JobOK(h, at[h], job[h]) /\ job[h] \in Jobs
        BY <1>1, AtWrite DEF IInv
      <3>3. job[h].op # "clint"
        BY <1>1, <2>1 DEF IInv, OnceEach
      <3>4. Line(h) = l /\ at[h] \in {"default", "sub", "isr", "data"} => job[h].op = "register"
        BY <2>1, <3>2, <3>3 DEF JobOK, Jobs, IntcLabels, ClintLines, Line
      <3>5. job[h].op = "register" => at[h] \notin {"default", "sub"}
        BY <3>2 DEF JobOK
      <3>6. QED
        BY <1>1, <2>3, <3>1, <3>2, <3>4, <3>5, TableWritten
    <2>4. QED
      BY <1>1, <2>2, <2>3 DEF Next, vars, tables
  <1>2. IInv /\ [Next]_vars => [Stays]_vars
    BY <1>1
  <1>3. QED
    BY <1>2, Invariant, PTL DEF Spec, RegisteredStays
=============================================================================

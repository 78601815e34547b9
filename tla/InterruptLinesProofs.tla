------------------------ MODULE InterruptLinesProofs ------------------------
(* Proofs about the interrupt lines of a hart, for any set of local lines, any *)
(* handlers and any number of calls.                                           *)
EXTENDS InterruptLines, TLAPS

Names == LineIsrs \cup {"null", "default", "plic"}
Entries == [handler : Names, data : Names]

Controllers == [done : BOOLEAN, vec : {"early", "direct", "vectored"},
                on : SUBSET (WiredLines \cup {Base}), sub : SUBSET WiredLines,
                table : [WiredLines -> Entries], exceptions : [{2, Software} -> Names]]
Plics == [done : BOOLEAN, entry : Entries, on : BOOLEAN, priority : Nat, threshold : Nat]

\* The types of the variables.
LineTypeOK ==
    /\ lineCpu \in Controllers /\ linePlic \in Plics
    /\ lineInit \in SUBSET {"clint", "local", "global"}
    /\ lineMsip \in BOOLEAN
    /\ lineAsked \in [WiredLines -> LineIsrs \cup {"null", "default"}]
    /\ lineCalls \in Nat

\* Nothing has been initialised, registered or enabled before the CPU controller is.
ControllerFirst ==
    IF lineCpu.done THEN lineCpu.vec # "early"
    ELSE lineInit = {} /\ lineCpu.on = {} /\ \A l \in WiredLines : lineAsked[l] = "null"

\* A line that is enabled belongs to a controller that is initialised, and such a
\* controller's lines have a handler that was asked for.
EnabledKnown ==
    /\ \A l \in LocalLines : l \in lineCpu.on => "local" \in lineInit
    /\ Software \in lineCpu.on => "clint" \in lineInit
    /\ External \in lineCpu.on => "global" \in lineInit
    /\ "local" \in lineInit => \A l \in LocalLines : lineAsked[l] # "null"
    /\ "clint" \in lineInit => lineAsked[Software] # "null"
    /\ "global" \in lineInit => /\ lineAsked[External] # "null"
                                /\ lineCpu.table[External].handler = "plic"

\* An entry is what was asked for.
Answers(entry, asked) ==
    asked # "null" => IF asked \in LineIsrs THEN entry = [handler |-> asked, data |-> asked]
                                            ELSE entry.handler = "default"
TablesKept ==
    /\ \A l \in WiredLines \ {External} : Answers(lineCpu.table[l], lineAsked[l])
    /\ Answers(linePlic.entry, lineAsked[External])

LineIInv == LineTypeOK /\ ControllerFirst /\ EnabledKnown /\ TablesKept /\ LandsAsAsked

-----------------------------------------------------------------------------
\* The lines are numbers, all different, and the names of handlers too.
LEMMA LinesApart ==
    /\ LocalLines \subseteq 16..31
    /\ Software \in WiredLines /\ External \in WiredLines /\ BusErrorLine \in WiredLines
    /\ LocalLines \subseteq WiredLines
    /\ \A l \in LocalLines : l \notin {Base, Software, External, BusErrorLine, 2}
    /\ {"null", "default", "plic"} \cap LineIsrs = {}
  BY LinesAssumption DEF WiredLines, Base, Software, External, BusErrorLine

\* The state after reset satisfies the inductive invariant.
LEMMA LineInitIInv == LineInit => LineIInv
  <1> SUFFICES ASSUME LineInit
               PROVE LineIInv
    OBVIOUS
  <1>1. LineTypeOK
    BY DEF LineInit, LineTypeOK, NoHandler, Controllers, Plics, Entries, Names
  <1>2. ControllerFirst /\ EnabledKnown
    BY LinesApart DEF LineInit, ControllerFirst, EnabledKnown
  <1>3. TablesKept
    BY LinesApart DEF LineInit, TablesKept, Answers
  <1>4. LandsAsAsked
    BY LinesApart DEF LineInit, LandsAsAsked, NoLanding, WiredLines, Software, External, BusErrorLine
  <1>5. QED
    BY <1>1, <1>2, <1>3, <1>4 DEF LineIInv

\* A step that forgets the last trap keeps LandsAsAsked.
LEMMA NothingLanded == lineLanded' = NoLanding => LandsAsAsked'
  BY LinesApart DEF LandsAsAsked, NoLanding, WiredLines, Software, External, BusErrorLine

\* The initialisation of the CPU controller.
LEMMA CpuInitStep == LineIInv /\ LineCpuInit => LineIInv'
  <1> SUFFICES ASSUME LineIInv, LineCpuInit
               PROVE LineIInv'
    OBVIOUS
  <1> USE DEF LineIInv
  <1>1. LineTypeOK'
    BY DEF LineCpuInit, CpuInitialised, LineTypeOK, NoHandler, Controllers, Entries, Names
  <1>2. ControllerFirst' /\ EnabledKnown'
    BY LinesApart DEF LineCpuInit, CpuInitialised, LineTypeOK, Controllers, ControllerFirst, EnabledKnown
  <1>3. TablesKept'
    BY LinesApart DEF LineCpuInit, ControllerFirst, TablesKept, Answers
  <1>4. QED
    BY <1>1, <1>2, <1>3, NothingLanded DEF LineCpuInit

\* The initialisation of a controller whose lines are known and not the PLIC's.
LEMMA RegistersStep ==
    ASSUME NEW k \in {"clint", "local"}, NEW lines,
           k = "clint" => lines = {Software}, k = "local" => lines = LocalLines,
           LineIInv, RegistersLines(k, lines)
    PROVE  LineIInv'
  <1> USE DEF LineIInv
  <1>1. lines \subseteq WiredLines \ {External}
    BY LinesApart DEF WiredLines, Software, External
  <1>2. /\ lineCpu'.done = lineCpu.done /\ lineCpu'.vec = lineCpu.vec /\ lineCpu'.on = lineCpu.on
        /\ lineCpu'.table = [l \in WiredLines |-> IF l \in lines THEN [lineCpu.table[l] EXCEPT !.handler = "default"]
                                                    ELSE lineCpu.table[l]]
    BY DEF RegistersLines, LineTypeOK, Controllers
  <1> DEFINE table == [l \in WiredLines |-> IF l \in lines THEN [lineCpu.table[l] EXCEPT !.handler = "default"]
                                            ELSE lineCpu.table[l]]
  <1>3. LineTypeOK'
    <2>1. \A e \in Entries : [e EXCEPT !.handler = "default"] \in Entries
      BY DEF Entries, Names
    <2>2. table \in [WiredLines -> Entries]
      BY <2>1 DEF LineTypeOK, Controllers
    <2>3. lineCpu.sub \cup lines \in SUBSET WiredLines
      BY <1>1 DEF LineTypeOK, Controllers
    <2>4. [lineCpu EXCEPT !.sub = lineCpu.sub \cup lines, !.table = table] \in Controllers
      BY <2>2, <2>3 DEF LineTypeOK, Controllers
    <2>5. lineCpu' \in Controllers
      BY <2>4 DEF RegistersLines
    <2>6. QED
      BY <2>5, <1>1 DEF RegistersLines, LineTypeOK
  <1>4. ControllerFirst'
    BY <1>2 DEF RegistersLines, ControllerFirst
  <1>5. EnabledKnown'
    BY <1>1, <1>2, LinesApart DEF RegistersLines, LineTypeOK, Controllers, EnabledKnown
  <1>6. TablesKept'
    BY <1>1, <1>2, LinesApart DEF RegistersLines, LineTypeOK, Controllers, TablesKept, Answers, Entries
  <1>7. QED
    BY <1>3, <1>4, <1>5, <1>6, NothingLanded DEF RegistersLines

\* What a registration makes of a controller: the entry of the line, and at most
\* the controller behind it.
RegisteredAs(c, r, l, isr, data) ==
    /\ r \in Controllers
    /\ r.done = c.done /\ r.vec = c.vec /\ r.on = c.on /\ r.exceptions = c.exceptions
    /\ \A k \in WiredLines \ {l} : r.table[k] = c.table[k]
    /\ Registrable(c, l) => IF isr = "default" THEN r.table[l].handler = "default"
                            ELSE r.table[l] = [handler |-> isr, data |-> data]
    /\ ~Registrable(c, l) => r = c

\* A registration at the CPU controller does that.
LEMMA RegisteredController ==
    ASSUME NEW c \in Controllers, NEW l \in WiredLines, NEW isr \in Names, NEW data \in Names
    PROVE  RegisteredAs(c, CpuRegistered(c, l, isr, data), l, isr, data)
  <1> USE DEF RegisteredAs
  <1> DEFINE entry == [handler |-> isr, data |-> data]
             kept == [c.table[l] EXCEPT !.handler = "default"]
  <1>1. entry \in Entries /\ kept \in Entries /\ kept.handler = "default"
    BY DEF Controllers, Entries, Names
  <1>2. CASE ~Registrable(c, l)
    BY <1>2 DEF CpuRegistered
  <1>3. CASE Registrable(c, l) /\ (isr # "default" \/ l = BusErrorLine)
    <2> DEFINE table == [c.table EXCEPT ![l] = entry]
    <2>1. CpuRegistered(c, l, isr, data) = [c EXCEPT !.table = table]
      BY <1>3 DEF CpuRegistered, Controllers
    <2>2. table \in [WiredLines -> Entries] /\ table[l] = entry
      BY <1>1 DEF Controllers
    <2>3. \A k \in WiredLines \ {l} : table[k] = c.table[k]
      BY DEF Controllers
    <2>4. [c EXCEPT !.table = table] \in Controllers
      BY <2>2 DEF Controllers
    <2> HIDE DEF table
    <2>5. [c EXCEPT !.table = table].table = table
      BY DEF Controllers
    <2>6. QED
      BY <1>3, <2>1, <2>2, <2>3, <2>4, <2>5 DEF Controllers
  <1>4. CASE Registrable(c, l) /\ isr = "default" /\ l # BusErrorLine
    <2> DEFINE table == [c.table EXCEPT ![l] = kept]
               sub == c.sub \cup {l}
    <2>1. CpuRegistered(c, l, isr, data) = [c EXCEPT !.table = table, !.sub = sub]
      BY <1>4 DEF CpuRegistered, Controllers
    <2>2. table \in [WiredLines -> Entries] /\ table[l] = kept
      BY <1>1 DEF Controllers
    <2>3. \A k \in WiredLines \ {l} : table[k] = c.table[k]
      BY DEF Controllers
    <2>4. sub \in SUBSET WiredLines
      BY DEF Controllers
    <2>5. [c EXCEPT !.table = table, !.sub = sub] \in Controllers
      BY <2>2, <2>4 DEF Controllers
    <2> HIDE DEF table, sub
    <2>6. [c EXCEPT !.table = table, !.sub = sub].table = table
      BY DEF Controllers
    <2>7. QED
      BY <1>1, <1>4, <2>1, <2>2, <2>3, <2>5, <2>6 DEF Controllers
  <1>5. QED
    BY <1>2, <1>3, <1>4

\* What enabling or disabling makes of a controller.
EnabledAs(c, r, l) ==
    /\ r \in Controllers
    /\ r.done = c.done /\ r.vec = c.vec /\ r.exceptions = c.exceptions /\ r.table = c.table
    /\ r.on \subseteq c.on \cup {l}

\* Enabling and disabling at the CPU controller do that.
LEMMA EnabledController ==
    ASSUME NEW c \in Controllers, NEW l \in WiredLines \cup {Base}, NEW on \in BOOLEAN
    PROVE  EnabledAs(c, CpuEnabled(c, l, on), l)
  <1> USE DEF EnabledAs
  <1> DEFINE more == c.on \cup {l}
             less == c.on \ {l}
  <1>1. more \in SUBSET (WiredLines \cup {Base}) /\ less \in SUBSET (WiredLines \cup {Base})
    BY DEF Controllers
  <1>2. /\ less \subseteq more /\ c.on \subseteq more
    OBVIOUS
  <1>3. CASE ~Maskable(l)
    BY <1>3 DEF CpuEnabled
  <1>4. CASE Maskable(l) /\ on
    <2> HIDE DEF more
    <2>1. CpuEnabled(c, l, on) = [c EXCEPT !.on = more]
      BY <1>4 DEF CpuEnabled, more
    <2>2. QED
      BY <1>1, <2>1 DEF Controllers, more
  <1>5. CASE Maskable(l) /\ ~on
    <2> HIDE DEF less
    <2>1. CpuEnabled(c, l, on) = [c EXCEPT !.on = less]
      BY <1>5 DEF CpuEnabled, less
    <2>2. QED
      BY <1>1, <1>2, <2>1 DEF Controllers
  <1>6. QED
    BY <1>3, <1>4, <1>5

\* The PLIC's initialisation takes the external line and leaves all others.
TakenBy(c, r) ==
    /\ r \in Controllers
    /\ r.done = c.done /\ r.vec = c.vec /\ r.exceptions = c.exceptions
    /\ r.on \subseteq c.on \cup {External}
    /\ \A k \in WiredLines \ {External} : r.table[k] = c.table[k]
    /\ r.table[External].handler = "plic"

LEMMA PlicTakes ==
    ASSUME NEW c \in Controllers, c.done
    PROVE  TakenBy(c, PlicTakesLine(c))
  <1> DEFINE known == CpuRegistered(c, External, "default", "plic")
             taken == CpuRegistered(known, External, "plic", "plic")
  <1>1. "default" \in Names /\ "plic" \in Names /\ External \in WiredLines
    BY LinesApart DEF Names
  <1>2. RegisteredAs(c, known, External, "default", "plic")
    BY <1>1, RegisteredController
  <1> HIDE DEF known
  <1>3. known \in Controllers
    BY <1>2 DEF RegisteredAs
  <1>4. RegisteredAs(known, taken, External, "plic", "plic")
    BY <1>1, <1>3, RegisteredController
  <1> HIDE DEF taken
  <1>5. Registrable(known, External)
    BY <1>1 DEF Registrable, External, BusErrorLine
  <1>6. taken.table[External] = [handler |-> "plic", data |-> "plic"]
    BY <1>4, <1>5 DEF RegisteredAs
  <1>7. /\ taken \in Controllers /\ taken.done = c.done /\ taken.vec = c.vec /\ taken.on = c.on
        /\ taken.exceptions = c.exceptions
        /\ \A k \in WiredLines \ {External} : taken.table[k] = c.table[k]
    BY <1>2, <1>4 DEF RegisteredAs
  <1>8. PlicTakesLine(c) = CpuEnabled(taken, External, TRUE)
    BY DEF PlicTakesLine, CpuInitialised, known, taken
  <1>9. EnabledAs(taken, PlicTakesLine(c), External)
    BY <1>1, <1>7, <1>8, EnabledController
  <1>10. QED
    BY <1>6, <1>7, <1>9 DEF EnabledAs, TakenBy

-----------------------------------------------------------------------------
\* What a registration at the PLIC makes of its source.
LEMMA RegisteredPlic ==
    ASSUME NEW p \in Plics, NEW isr \in LineIsrs \cup {"default"}, NEW data,
           isr # "default" => data = isr
    PROVE  /\ PlicRegistered(p, isr, data) \in Plics
           /\ Answers(PlicRegistered(p, isr, data).entry, isr)
  <1>1. \A e \in Entries : [e EXCEPT !.handler = "default"] \in Entries
    BY DEF Entries, Names
  <1>2. isr # "default" => [handler |-> isr, data |-> data] \in Entries
    BY DEF Entries, Names
  <1>3. PlicRegistered(p, isr, data) \in Plics
    BY <1>1, <1>2 DEF PlicRegistered, Plics
  <1>4. Answers(PlicRegistered(p, isr, data).entry, isr)
    BY LinesApart DEF PlicRegistered, Plics, Answers, Entries
  <1>5. QED
    BY <1>3, <1>4

\* The initialisation of the PLIC and of its forwarding controller.
LEMMA GlobalInitStep == LineIInv /\ GlobalInit => LineIInv'
  <1> SUFFICES ASSUME LineIInv, GlobalInit
               PROVE LineIInv'
    OBVIOUS
  <1> USE DEF LineIInv
  <1> DEFINE cleared == [linePlic EXCEPT !.done = TRUE, !.on = FALSE, !.entry = NoHandler, !.threshold = 0]
  <1>1. TakenBy(lineCpu, lineCpu')
    BY PlicTakes DEF GlobalInit, LineTypeOK
  <1>2. cleared \in Plics
    BY DEF LineTypeOK, Plics, NoHandler, Entries, Names
  <1>3. linePlic' = PlicRegistered(cleared, "default", "global")
    BY DEF GlobalInit
  <1> HIDE DEF cleared
  <1>4. linePlic' \in Plics /\ Answers(linePlic'.entry, "default")
    BY <1>2, <1>3, RegisteredPlic
  <1>5. lineAsked' \in [WiredLines -> LineIsrs \cup {"null", "default"}] /\ lineAsked'[External] = "default"
        /\ \A l \in WiredLines \ {External} : lineAsked'[l] = lineAsked[l]
    BY LinesApart DEF GlobalInit, LineTypeOK
  <1>6. LineTypeOK'
    BY <1>1, <1>4, <1>5 DEF GlobalInit, LineTypeOK, TakenBy
  <1>7. ControllerFirst'
    BY <1>1 DEF GlobalInit, ControllerFirst, TakenBy
  <1>8. EnabledKnown'
    BY <1>1, <1>5, LinesApart DEF GlobalInit, EnabledKnown, TakenBy, External, Software
  <1>9. TablesKept'
    BY <1>1, <1>4, <1>5, LinesApart DEF TablesKept, TakenBy
  <1>10. QED
    BY <1>6, <1>7, <1>8, <1>9, NothingLanded DEF GlobalInit

-----------------------------------------------------------------------------
\* A line that the application may register is not the PLIC's, and its controller
\* is initialised.
LEMMA BehindKnown ==
    ASSUME ControllerFirst, NEW l \in WiredLines, Behind(l)
    PROVE  lineCpu.done /\ l # External /\ (l \in LocalLines => "local" \in lineInit)
           /\ (l = Software => "clint" \in lineInit)
  BY LinesApart DEF Behind, Initialised, ControllerFirst, Software, External, BusErrorLine

\* A registration of the application.
LEMMA LineRegisterStep ==
    ASSUME NEW l \in WiredLines, NEW isr \in LineIsrs \cup {"default"}, LineIInv, LineRegister(l, isr)
    PROVE  LineIInv'
  <1> USE DEF LineIInv
  <1>1. isr \in Names /\ isr # "null"
    BY LinesApart DEF Names
  <1>2. RegisteredAs(lineCpu, lineCpu', l, isr, isr)
    BY <1>1, RegisteredController DEF LineRegister, LineTypeOK
  <1>3. lineCpu.done /\ l # External
    BY BehindKnown DEF LineRegister
  <1>4. /\ lineAsked' \in [WiredLines -> LineIsrs \cup {"null", "default"}]
        /\ \A k \in WiredLines \ {l} : lineAsked'[k] = lineAsked[k]
        /\ lineAsked'[l] = IF Registrable(lineCpu, l) THEN isr ELSE lineAsked[l]
    BY DEF LineRegister, LineTypeOK
  <1>5. LineTypeOK'
    BY <1>2, <1>4 DEF LineRegister, LineCounted, LineTypeOK, RegisteredAs
  <1>6. ControllerFirst'
    BY <1>2, <1>3 DEF LineRegister, ControllerFirst, RegisteredAs
  <1>7. EnabledKnown'
    BY <1>1, <1>2, <1>3, <1>4, LinesApart DEF LineRegister, EnabledKnown, RegisteredAs
  <1>8. TablesKept'
    <2>1. Answers(lineCpu'.table[l], lineAsked'[l])
      BY <1>2, <1>3, <1>4, LinesApart DEF TablesKept, Answers, RegisteredAs
    <2>2. \A k \in WiredLines \ {External, l} : Answers(lineCpu'.table[k], lineAsked'[k])
      BY <1>2, <1>4 DEF TablesKept, RegisteredAs
    <2>3. Answers(linePlic'.entry, lineAsked'[External])
      BY <1>3, <1>4, LinesApart DEF LineRegister, TablesKept
    <2>4. QED
      BY <2>1, <2>2, <2>3 DEF TablesKept
  <1>9. QED
    BY <1>5, <1>6, <1>7, <1>8, NothingLanded DEF LineRegister, LineCounted

\* A line or the base is enabled or disabled.
LEMMA LineEnableStep ==
    ASSUME NEW l \in WiredLines \cup {Base}, NEW on \in BOOLEAN, LineIInv, LineEnable(l, on)
    PROVE  LineIInv'
  <1> USE DEF LineIInv
  <1>1. EnabledAs(lineCpu, lineCpu', l)
    BY EnabledController DEF LineEnable, LineTypeOK
  <1>2. lineCpu.done
    BY BehindKnown DEF LineEnable
  <1>3. l \in lineCpu'.on => l # External /\ (l \in LocalLines => "local" \in lineInit)
                              /\ (l = Software => "clint" \in lineInit)
    BY BehindKnown, LinesApart DEF LineEnable, Base, External, Software
  <1>4. LineTypeOK'
    BY <1>1 DEF LineEnable, LineCounted, LineTypeOK, EnabledAs
  <1>5. ControllerFirst'
    BY <1>1, <1>2 DEF LineEnable, ControllerFirst, EnabledAs
  <1>6. EnabledKnown'
    BY <1>1, <1>3 DEF LineEnable, EnabledKnown, EnabledAs
  <1>7. TablesKept'
    BY <1>1 DEF LineEnable, TablesKept, EnabledAs
  <1>8. QED
    BY <1>4, <1>5, <1>6, <1>7, NothingLanded DEF LineEnable, LineCounted

\* The vector mode is set, or an exception's handler, or the software interrupt.
LEMMA LineModeStep ==
    ASSUME LineIInv,
           \/ \E mode \in {"direct", "vectored", "clic"} : LineSetVectorMode(mode)
           \/ \E code \in {2, Software}, isr \in LineIsrs : LineException(code, isr)
           \/ \E on \in BOOLEAN : LineIpi(on)
    PROVE  LineIInv'
  <1> USE DEF LineIInv
  <1>1. /\ lineCpu' \in Controllers /\ lineCpu'.on = lineCpu.on /\ lineCpu'.table = lineCpu.table
        /\ lineCpu.done /\ lineCpu'.done /\ lineCpu'.vec # "early" /\ lineMsip' \in BOOLEAN
    <2>1. CASE \E mode \in {"direct", "vectored", "clic"} : LineSetVectorMode(mode)
      BY <2>1 DEF LineSetVectorMode, CpuVectored, VectorWritten, LineTypeOK, Controllers, ControllerFirst
    <2>2. CASE \E code \in {2, Software}, isr \in LineIsrs : LineException(code, isr)
      <3> PICK code \in {2, Software}, isr \in LineIsrs : LineException(code, isr)
        BY <2>2
      <3> DEFINE handlers == [lineCpu.exceptions EXCEPT ![code] = isr]
      <3>1. handlers \in [{2, Software} -> Names]
        BY DEF LineTypeOK, Controllers, Names
      <3>2. lineCpu' = [lineCpu EXCEPT !.exceptions = handlers]
        BY DEF LineException, ExceptionRegistered, LineTypeOK, Controllers
      <3> HIDE DEF handlers
      <3>3. QED
        BY <3>1, <3>2 DEF LineException, LineTypeOK, Controllers, ControllerFirst
    <2>3. CASE \E on \in BOOLEAN : LineIpi(on)
      BY <2>3 DEF LineIpi, LineTypeOK, ControllerFirst
    <2>4. QED
      BY <2>1, <2>2, <2>3
  <1>2. LineCounted /\ UNCHANGED <<linePlic, lineInit, lineAsked>>
    BY DEF LineSetVectorMode, LineException, LineIpi
  <1>3. LineTypeOK'
    BY <1>1, <1>2 DEF LineCounted, LineTypeOK
  <1>4. ControllerFirst' /\ EnabledKnown' /\ TablesKept'
    BY <1>1, <1>2 DEF ControllerFirst, EnabledKnown, TablesKept
  <1>5. QED
    BY <1>2, <1>3, <1>4, NothingLanded DEF LineCounted

\* The calls on the PLIC's source.
LEMMA GlobalStep ==
    ASSUME LineIInv,
           \/ \E isr \in LineIsrs \cup {"default"} : GlobalRegister(isr)
           \/ \E on \in BOOLEAN : GlobalEnable(on)
           \/ \E n \in 0..2 : GlobalPriority(n) \/ GlobalThreshold(n)
    PROVE  LineIInv'
  <1> USE DEF LineIInv
  <1>1. /\ linePlic' \in Plics /\ Answers(linePlic'.entry, lineAsked'[External])
        /\ lineAsked' \in [WiredLines -> LineIsrs \cup {"null", "default"}]
        /\ lineAsked[External] # "null" => lineAsked'[External] # "null"
        /\ \A l \in WiredLines \ {External} : lineAsked'[l] = lineAsked[l]
    <2>1. CASE \E isr \in LineIsrs \cup {"default"} : GlobalRegister(isr)
      <3> PICK isr \in LineIsrs \cup {"default"} : GlobalRegister(isr)
        BY <2>1
      <3>1. linePlic' \in Plics /\ Answers(linePlic'.entry, isr)
        BY RegisteredPlic DEF GlobalRegister, LineTypeOK
      <3>2. QED
        BY <3>1, LinesApart DEF GlobalRegister, LineTypeOK
    <2>2. CASE \E on \in BOOLEAN : GlobalEnable(on)
      BY <2>2 DEF GlobalEnable, GlobalStores, LineTypeOK, Plics, TablesKept
    <2>3. CASE \E n \in 0..2 : GlobalPriority(n) \/ GlobalThreshold(n)
      BY <2>3 DEF GlobalPriority, GlobalThreshold, GlobalStores, LineTypeOK, Plics, TablesKept
    <2>4. QED
      BY <2>1, <2>2, <2>3
  <1>2. LineCounted /\ UNCHANGED <<lineCpu, lineInit, lineMsip>> /\ "global" \in lineInit
    BY DEF GlobalRegister, GlobalEnable, GlobalPriority, GlobalThreshold, GlobalStores, Initialised
  <1>3. LineTypeOK'
    BY <1>1, <1>2 DEF LineCounted, LineTypeOK
  <1>4. ControllerFirst' /\ EnabledKnown'
    BY <1>1, <1>2, LinesApart DEF ControllerFirst, EnabledKnown, External, Software
  <1>5. TablesKept'
    BY <1>1, <1>2 DEF TablesKept
  <1>6. QED
    BY <1>2, <1>3, <1>4, <1>5, NothingLanded DEF LineCounted

-----------------------------------------------------------------------------
\* Where a line lands, when bus errors and exceptions happen in direct mode: its
\* entry is what was asked for, whether the PLIC stands behind it or not.
LEMMA LineTrapStep ==
    ASSUME ~FaultsVectored, NEW l \in WiredLines, LineIInv, LineTrap(l)
    PROVE  LineIInv'
  <1> USE DEF LineIInv
  <1> DEFINE entry == Runs(l, lineCpu.table[l])
  <1>1. UNCHANGED <<lineCpu, linePlic, lineInit, lineMsip, lineAsked, lineCalls>>
    BY DEF LineTrap, Lands
  <1>2. LineTypeOK' /\ ControllerFirst' /\ EnabledKnown' /\ TablesKept'
    BY <1>1 DEF LineTypeOK, ControllerFirst, EnabledKnown, TablesKept
  <1>3. lineCpu.done /\ lineCpu.vec \in {"direct", "vectored"}
    BY DEF LineTrap, ControllerFirst, LineTypeOK, Controllers
  <1>4. lineCpu.vec = "direct" \/ l < 32
    BY LinesApart DEF LineTrap, FaultHere, WiredLines, Software, External
  <1>5. Dispatch(l) = lineCpu.table[l]
    BY <1>3, <1>4 DEF Dispatch, VectorReads
  <1>6. lineLanded' = [line |-> l, handler |-> entry.handler, data |-> entry.data]
    BY <1>5 DEF LineTrap, Lands
  <1>7. lineAsked[l] # "null"
    BY LinesApart DEF LineTrap, Raised, EnabledKnown, WiredLines
  <1>8. l = External => entry = linePlic.entry
    <2>1. l = External => External \in lineCpu.on
      BY DEF LineTrap, Raised, External, Software, BusErrorLine
    <2>2. l = External => lineCpu.table[l].handler = "plic"
      BY <2>1 DEF EnabledKnown
    <2>3. QED
      BY <2>2 DEF Runs
  <1>9. l # External => Answers(lineCpu.table[l], lineAsked[l])
    BY DEF TablesKept
  <1>10. IF lineAsked[l] \in LineIsrs THEN entry = [handler |-> lineAsked[l], data |-> lineAsked[l]]
         ELSE entry.handler = IF l = Software THEN lineCpu.exceptions[Software] ELSE "default"
    <2>1. CASE l = External
      BY <2>1, <1>7, <1>8 DEF TablesKept, Answers, External, Software
    <2>2. CASE l # External
      BY <2>2, <1>7, <1>9, LinesApart DEF Answers, Runs
    <2>3. QED
      BY <2>1, <2>2
  <1>11. LandsAsAsked'
    BY <1>1, <1>6, <1>10, LinesApart DEF LandsAsAsked, WiredLines, Software, External, BusErrorLine
  <1>12. QED
    BY <1>2, <1>11

\* An exception runs its handler.
LEMMA LineFaultStep ==
    ASSUME ~FaultsVectored, LineIInv, LineFault(2)
    PROVE  LineIInv'
  <1> USE DEF LineIInv
  <1>1. /\ UNCHANGED <<lineCpu, linePlic, lineInit, lineMsip, lineAsked, lineCalls>>
        /\ lineLanded' = [line |-> 2, handler |-> lineCpu.exceptions[2], data |-> "null"]
    BY DEF LineFault, Lands, FaultHere
  <1>2. LineTypeOK' /\ ControllerFirst' /\ EnabledKnown' /\ TablesKept'
    BY <1>1 DEF LineTypeOK, ControllerFirst, EnabledKnown, TablesKept
  <1>3. LandsAsAsked'
    BY <1>1, LinesApart DEF LandsAsAsked, WiredLines, Software, External, BusErrorLine
  <1>4. QED
    BY <1>2, <1>3

\* Every step keeps the inductive invariant.
LEMMA LineNextIInv == ~FaultsVectored /\ LineIInv /\ [LineNext]_lineVars => LineIInv'
  <1> SUFFICES ASSUME ~FaultsVectored, LineIInv, [LineNext]_lineVars
               PROVE LineIInv'
    OBVIOUS
  <1>1. CASE LineCpuInit
    BY <1>1, CpuInitStep
  <1>2. CASE LineClintInit
    BY <1>2, RegistersStep DEF LineClintInit
  <1>3. CASE LocalInit
    BY <1>3, RegistersStep DEF LocalInit
  <1>4. CASE GlobalInit
    BY <1>4, GlobalInitStep
  <1>5. CASE \E l \in WiredLines, isr \in LineIsrs \cup {"default"} : LineRegister(l, isr)
    BY <1>5, LineRegisterStep
  <1>6. CASE \E l \in WiredLines \cup {Base}, on \in BOOLEAN : LineEnable(l, on)
    BY <1>6, LineEnableStep
  <1>7. CASE \/ \E mode \in {"direct", "vectored", "clic"} : LineSetVectorMode(mode)
             \/ \E isr \in LineIsrs : LineException(2, isr) \/ LineException(Software, isr)
             \/ \E on \in BOOLEAN : LineIpi(on)
    BY <1>7, LineModeStep
  <1>8. CASE \/ \E isr \in LineIsrs \cup {"default"} : GlobalRegister(isr)
             \/ \E on \in BOOLEAN : GlobalEnable(on)
             \/ \E n \in 0..2 : GlobalPriority(n) \/ GlobalThreshold(n)
    BY <1>8, GlobalStep
  <1>9. CASE \E l \in WiredLines : LineTrap(l)
    BY <1>9, LineTrapStep
  <1>10. CASE LineFault(2)
    BY <1>10, LineFaultStep
  <1>11. CASE UNCHANGED lineVars
    BY <1>11 DEF lineVars, LineIInv, LineTypeOK, ControllerFirst, EnabledKnown, TablesKept, LandsAsAsked
  <1>12. QED
    BY <1>1, <1>2, <1>3, <1>4, <1>5, <1>6, <1>7, <1>8, <1>9, <1>10, <1>11 DEF LineNext

-----------------------------------------------------------------------------
\* LinesInductive: when bus errors and exceptions happen in direct mode only, the
\* invariant of the interrupt controllers (riscv_cpu.c, sifive_local-external-
\* interrupts0.c, sifive_global-external-interrupts0.c) holds: no line is enabled
\* whose controller has not been initialised, and the tables hold what was asked for.
THEOREM LinesInductive == ~FaultsVectored => (LineSpec => []LineIInv)
  <1> SUFFICES ASSUME ~FaultsVectored
               PROVE LineSpec => []LineIInv
    OBVIOUS
  <1>1. LineIInv /\ [LineNext]_lineVars => LineIInv'
    BY LineNextIInv
  <1>2. QED
    BY <1>1, LineInitIInv, PTL DEF LineSpec

\* LandsAsAskedHolds: under the same condition every trap, in direct and in vectored
\* mode, runs the handler that was last registered for its line, with its own data.
THEOREM LandsAsAskedHolds == ~FaultsVectored => (LineSpec => []LandsAsAsked)
  <1>1. LineIInv => LandsAsAsked
    BY DEF LineIInv
  <1>2. QED
    BY <1>1, LinesInductive, PTL
=============================================================================

------------------------ MODULE ClockedDriversProofs ------------------------
(* Proofs about the drivers on one clock, for any rates, baud rates, FIFO      *)
(* sizes, configurations and numbers of calls.                                 *)
EXTENDS ClockedDrivers, FiniteSetTheorems, TLAPS

UartLabels == {"uartPutc", "ttyGetc", "uartPre", "uartWait", "uartDrain", "uartPost"}
SpiLabels == {"spiSend", "spiAnswer", "spiPre", "spiWait", "spiPost"}
I2cLabels == {"i2cAddress", "i2cAddressed", "i2cByte", "i2cDone", "i2cPre", "i2cPost"}
PwmLabels == {"pwmPre", "pwmPost"}
ClockLabels == {"pre", "preNext", "post", "postNext"}
CallbackLabels == {"uartPre", "uartPost", "spiPre", "spiPost", "i2cPre", "i2cPost", "pwmPre", "pwmPost"}

\* What the steps of a driver, and of the clock, do to the label of the thread.
UartMoves == {pc, pc'} \subseteq UartLabels \cup {"idle", "preNext", "postNext"}
SpiMoves == {pc, pc'} \subseteq SpiLabels \cup {"idle", "preNext", "postNext"}
I2cMoves == {pc, pc'} \subseteq I2cLabels \cup {"idle", "preNext", "postNext"}
PwmMoves == {pc, pc'} \subseteq PwmLabels \cup {"idle", "preNext", "postNext"}
ClockMoves == {pc, pc'} \subseteq ClockLabels \cup CallbackLabels \cup {"idle"}

LEMMA UartPc == UartStep \/ UartThread => UartMoves
  BY DEF UartStep, UartInit, UartCalls, UartSetUps, UartSetBaud, UartSetTxWatermark, UartSetRxWatermark,
         UartInterruptEnable, UartInterruptDisable, UartPutcCall, UartGetc, TtyGetcCall, UartThread,
         UartPutc, TtyGetc, UartPre, UartWait, UartDrain, UartPost, UartMoves, UartLabels

LEMMA SpiPc == SpiStep \/ SpiThread => SpiMoves
  BY DEF SpiStep, SpiInit, SpiCalls, SpiSetBaud, SpiTransferCall, SpiThread, SpiSend, SpiAnswer,
         SpiTimeout, SpiPre, SpiWait, SpiPost, SpiMoves, SpiLabels

LEMMA I2cPc == I2cStep \/ I2cThread => I2cMoves
  <1> USE DEF I2cMoves, I2cLabels
  <1>1. CASE I2cStep
    BY <1>1 DEF I2cStep, I2cCalls, I2cInit, I2cSetBaud, I2cCall
  <1>2. CASE I2cThread
    BY <1>2 DEF I2cThread, I2cAddress, I2cAddressed, I2cByte, I2cDone, I2cTimeout, I2cPre, I2cPost, Finished
  <1>3. QED
    BY <1>1, <1>2

LEMMA PwmPc == PwmStep \/ PwmThread => PwmMoves
  BY DEF PwmStep, PwmCalls, PwmEnable, PwmDisable, PwmSetFreq, PwmSetDuty, PwmTrigger, PwmStop,
         PwmCfgInterrupt, PwmClrInterrupt, PwmThread, PwmPre, PwmPost, PwmMoves, PwmLabels

LEMMA ClockPc == (\E hz \in Rates : SetRateCall(hz)) \/ ClockThread => ClockMoves
  <1> USE DEF ClockMoves, ClockLabels, CallbackLabels
  <1>1. CASE \E hz \in Rates : SetRateCall(hz)
    BY <1>1 DEF SetRateCall
  <1>2. CASE \E d \in Drivers : CallPre(d) \/ CallPost(d)
    BY <1>2 DEF CallPre, CallPost, Drivers
  <1>3. CASE NextCallback \/ ChangeRate \/ ChangeReturn
    BY <1>3 DEF NextCallback, ChangeRate, ChangeReturn
  <1>4. QED
    BY <1>1, <1>2, <1>3 DEF ClockThread

\* A step is one of a driver, of its controller, or of the clock; it leaves the
\* other drivers alone.
LEMMA Steps ==
    ASSUME [Next]_vars
    PROVE  \/ (UartStep \/ UartThread) /\ UNCHANGED <<spi, i2c, pwm, used>>
           \/ (SpiStep \/ SpiThread) /\ UNCHANGED <<uart, i2c, pwm, used>>
           \/ (I2cStep \/ I2cThread) /\ UNCHANGED <<uart, spi, pwm, used>>
           \/ (PwmStep \/ PwmThread) /\ UNCHANGED <<uart, spi, i2c, used>>
           \/ ((\E hz \in Rates : SetRateCall(hz)) \/ ClockThread) /\ UNCHANGED <<uart, spi, i2c, pwm, used>>
           \/ UartHardware /\ UNCHANGED <<spi, i2c, pwm, used>>
           \/ SpiHardware /\ UNCHANGED <<uart, i2c, pwm, used>>
           \/ I2cComplete /\ UNCHANGED <<uart, spi, pwm, used>>
           \/ PwmHardware /\ UNCHANGED <<uart, spi, i2c, used>>
           \/ UNCHANGED vars
  BY DEF Next, Application, Thread, UartDevice, SpiDevice, I2cDevice, PwmDevice, UartStep, SpiStep,
         I2cStep, PwmStep

-----------------------------------------------------------------------------
\* The SPI driver: where the bytes are that have been sent.

SpiBytes == [xfer : Nat \ {0}, i : Nat]
InTransfer == pc \in {"spiSend", "spiAnswer"}
Awaited == [xfer |-> spi.xfer, i |-> spi.i]

SpiTypeOK ==
    /\ {"tx", "rx", "got", "busy", "late", "xfer", "i", "cfg", "hold", "ret", "proto", "baud", "div",
        "init", "txmark"} = DOMAIN spi
    /\ spi.tx \in Seq(SpiBytes) /\ spi.rx \in Seq(SpiBytes) /\ spi.got \in Seq(SpiBytes)
    /\ spi.busy \in SpiBytes \cup {NoByte}
    /\ spi.late \in Nat /\ spi.xfer \in Nat /\ spi.i \in Nat
    /\ InTransfer => spi.xfer # 0

\* The receive FIFO has not overflowed.
Slip == spi.late < FifoDepth => SlipCounted

\* Without a time-out the byte under way is the one that is waited for.
Awaiting ==
    (spi.late = 0 /\ pc = "spiAnswer") =>
        /\ \A k \in 1..Len(spi.tx) : spi.tx[k] = Awaited
        /\ \A k \in 1..Len(spi.rx) : spi.rx[k] = Awaited
        /\ SpiBusy => spi.busy = Awaited

Stored == (spi.late = 0 /\ InTransfer) => Len(spi.got) = spi.i

SpiIInv == SpiTypeOK /\ Slip /\ Awaiting /\ Stored /\ AnswersMatch

\* Slip as a sum, and what each move of a byte does to it: t and r bytes are in the
\* FIFOs, b on the line, and w is waited for.
OnLine == IF SpiBusy THEN 1 ELSE 0
Waits == IF pc = "spiAnswer" THEN 1 ELSE 0
AddsUp(t, r, b, late, w) == late < FifoDepth => t + r + b = late + w

LEMMA SlipAdds ==
    /\ Slip <=> AddsUp(Len(spi.tx), Len(spi.rx), OnLine, spi.late, Waits)
    /\ Slip' <=> AddsUp(Len(spi'.tx), Len(spi'.rx), OnLine', spi'.late, Waits')
    /\ OnLine \in {0, 1} /\ Waits \in {0, 1}
    /\ SpiTypeOK => Len(spi.tx) \in Nat /\ Len(spi.rx) \in Nat /\ spi.late \in Nat
  BY DEF Slip, SlipCounted, AddsUp, OnLine, Waits, SpiTypeOK

LEMMA SlipMoves ==
    ASSUME NEW t \in Nat, NEW r \in Nat, NEW b \in {0, 1}, NEW late \in Nat, NEW w \in {0, 1},
           AddsUp(t, r, b, late, w)
    PROVE  /\ late = 0 /\ w = 0 => t = 0 /\ r = 0 /\ b = 0
           /\ w = 0 => AddsUp(t + 1, r, b, late, 1)
           /\ w = 1 => AddsUp(t, r - 1, b, late, 0)
           /\ w = 1 => AddsUp(t, r, b, late + 1, 0)
           /\ b = 0 => AddsUp(t - 1, r, 1, late, w)
  BY SpiAssumption DEF AddsUp

LEMMA SpiInitIInv == Init => SpiIInv
  <1> SUFFICES ASSUME Init
               PROVE SpiIInv
    OBVIOUS
  <1>1. /\ DOMAIN spi = {"tx", "rx", "got", "busy", "late", "xfer", "i", "cfg", "hold", "ret", "proto",
                         "baud", "div", "init", "txmark"}
        /\ spi.tx = <<>> /\ spi.rx = <<>> /\ spi.got = <<>> /\ spi.busy = NoByte
        /\ spi.late = 0 /\ spi.xfer = 0 /\ spi.i = 0
    BY DEF Init, SpiInitState
  <1>2. pc = "idle"
    BY DEF Init
  <1>3. QED
    BY <1>1, <1>2 DEF SpiIInv, SpiTypeOK, InTransfer, Slip, SlipCounted, SpiBusy, Awaiting, Stored, AnswersMatch

\* A step that leaves the SPI driver alone.
LEMMA SpiAside ==
    ASSUME SpiIInv, spi' = spi, pc' = pc \/ {pc, pc'} \cap {"spiSend", "spiAnswer"} = {}
    PROVE  SpiIInv'
  BY DEF SpiIInv, SpiTypeOK, InTransfer, Slip, SlipCounted, SpiBusy, Awaiting, Awaited, Stored, AnswersMatch

\* A step that changes neither the FIFOs nor the transfer.
LEMMA SpiSettings ==
    ASSUME SpiIInv, DOMAIN spi' = DOMAIN spi,
           UNCHANGED <<spi.tx, spi.rx, spi.got, spi.busy, spi.late, spi.xfer, spi.i>>,
           pc' # "spiAnswer", pc' = "spiSend" => pc = "spiSend", pc # "spiAnswer"
    PROVE  SpiIInv'
  BY DEF SpiIInv, SpiTypeOK, InTransfer, Slip, SlipCounted, SpiBusy, Awaiting, Stored, AnswersMatch

LEMMA SpiSettingsStep ==
    ASSUME SpiIInv, \/ (\E b \in SpiBauds : SpiInit(b))
                    \/ SpiPre \/ SpiWait \/ SpiPost
                    \/ pc = "idle" /\ \E b \in SpiBauds : SpiSetBaud(b)
    PROVE  SpiIInv'
  <1> USE DEF SpiIInv
  <1> DEFINE Keeps(next) ==
          /\ DOMAIN next = DOMAIN spi /\ next.tx = spi.tx /\ next.rx = spi.rx /\ next.got = spi.got
          /\ next.busy = spi.busy /\ next.late = spi.late /\ next.xfer = spi.xfer /\ next.i = spi.i
  <1>1. \A b : Keeps(WithSpiBaud(spi, b))
    BY DEF WithSpiBaud, SpiTypeOK
  <1>2. Keeps(spi) /\ Keeps([spi EXCEPT !.txmark = 1])
    BY DEF SpiTypeOK
  <1>3. \A b : Keeps([WithSpiBaud(spi, b) EXCEPT !.init = TRUE])
    <2> TAKE b
    <2> DEFINE next == WithSpiBaud(spi, b)
    <2>1. Keeps(next)
      BY <1>1
    <2> HIDE DEF next
    <2>2. Keeps([next EXCEPT !.init = TRUE])
      BY <2>1 DEF SpiTypeOK
    <2>3. QED
      BY <2>2 DEF next
  <1>4. \/ spi' \in {spi, [spi EXCEPT !.txmark = 1]}
        \/ \E b : spi' \in {WithSpiBaud(spi, b), [WithSpiBaud(spi, b) EXCEPT !.init = TRUE]}
    BY DEF SpiInit, SpiPre, SpiWait, SpiPost, SpiSetBaud
  <1> HIDE DEF Keeps
  <1>5. Keeps(spi')
    BY <1>1, <1>2, <1>3, <1>4
  <1>6. pc # "spiAnswer" /\ pc' # "spiAnswer" /\ pc' # "spiSend"
    BY DEF SpiInit, SpiPre, SpiWait, SpiPost, SpiSetBaud
  <1>7. QED
    BY <1>5, <1>6, SpiSettings DEF Keeps

\* A transfer begins: as many bytes as have been late are on their way.
LEMMA SpiTransferStep ==
    ASSUME SpiIInv, NEW c, pc = "idle", SpiTransferCall(c)
    PROVE  SpiIInv'
  <1>1. /\ DOMAIN spi' = DOMAIN spi /\ spi'.tx = spi.tx /\ spi'.rx = spi.rx /\ spi'.busy = spi.busy
        /\ spi'.late = spi.late /\ spi'.got = <<>> /\ spi'.i = 0 /\ spi'.xfer = spi.xfer + 1
    BY DEF SpiTransferCall, SpiIInv, SpiTypeOK
  <1>2. pc' = "spiSend"
    BY DEF SpiTransferCall
  <1>3. <<>> \in Seq(SpiBytes) /\ Len(<<>>) = 0
    OBVIOUS
  <1>4. SpiTypeOK'
    BY <1>1, <1>3 DEF SpiIInv, SpiTypeOK
  <1>5. Slip'
    BY <1>1, <1>2 DEF SpiIInv, Slip, SlipCounted, SpiBusy
  <1>6. Awaiting' /\ Stored'
    BY <1>1, <1>2, <1>3 DEF Awaiting, Stored
  <1>7. AnswersMatch'
    BY <1>1, <1>3 DEF AnswersMatch
  <1>8. QED
    BY <1>4, <1>5, <1>6, <1>7 DEF SpiIInv

\* Between its frames a transfer without a time-out has no byte on its way.
LEMMA NothingUnderWay ==
    ASSUME SpiIInv, spi.late = 0, pc # "spiAnswer"
    PROVE  spi.tx = <<>> /\ spi.rx = <<>> /\ ~SpiBusy
  <1>1. Len(spi.tx) = 0 /\ Len(spi.rx) = 0 /\ OnLine = 0
    <2>1. SpiTypeOK /\ Slip /\ Waits = 0
      BY DEF SpiIInv, Waits
    <2>2. QED
      BY <2>1, SlipAdds, SlipMoves
  <1>2. QED
    BY <1>1 DEF SpiIInv, SpiTypeOK, OnLine

LEMMA SpiSendStep == SpiIInv /\ SpiSend => SpiIInv'
  <1> SUFFICES ASSUME SpiIInv, SpiSend
               PROVE SpiIInv'
    OBVIOUS
  <1> DEFINE byte == [xfer |-> spi.xfer, i |-> spi.i]
  <1>1. CASE spi.i < spi.cfg.len
    <2>1. pc = "spiSend" /\ pc' = "spiAnswer" /\ spi' = [spi EXCEPT !.tx = Append(spi.tx, byte)]
      BY <1>1 DEF SpiSend
    <2>2. byte \in SpiBytes
      BY <2>1 DEF SpiBytes, SpiIInv, SpiTypeOK, InTransfer
    <2> HIDE DEF byte
    <2>3. Append(spi.tx, byte) \in Seq(SpiBytes) /\ Len(Append(spi.tx, byte)) = Len(spi.tx) + 1
      BY <2>2 DEF SpiIInv, SpiTypeOK
    <2>4. /\ DOMAIN spi' = DOMAIN spi /\ spi'.tx = Append(spi.tx, byte)
          /\ UNCHANGED <<spi.rx, spi.got, spi.busy, spi.late, spi.xfer, spi.i>>
      BY <2>1 DEF SpiIInv, SpiTypeOK
    <2>5. SpiTypeOK' /\ Awaited' = byte
      BY <2>1, <2>3, <2>4 DEF SpiIInv, SpiTypeOK, InTransfer, Awaited, byte
    <2>6. Slip'
      <3>1. SpiTypeOK /\ Slip /\ Waits = 0 /\ Waits' = 1 /\ OnLine' = OnLine
        BY <2>1, <2>4 DEF SpiIInv, Waits, OnLine, SpiBusy
      <3>2. AddsUp(Len(spi.tx) + 1, Len(spi.rx), OnLine, spi.late, 1)
        BY <3>1, SlipAdds, SlipMoves
      <3>3. QED
        BY <2>3, <2>4, <3>1, <3>2, SlipAdds
    <2>7. Awaiting'
      <3>1. CASE spi.late = 0
        <4>1. spi.tx = <<>> /\ spi.rx = <<>> /\ ~SpiBusy
          BY <2>1, <3>1, NothingUnderWay
        <4>2. Len(spi'.tx) = 1 /\ spi'.tx[1] = byte /\ spi'.rx = <<>> /\ spi'.busy = NoByte
          BY <2>4, <4>1 DEF SpiBusy
        <4>3. QED
          BY <2>5, <4>2 DEF Awaiting, SpiBusy
      <3>2. CASE spi.late # 0
        BY <2>4, <3>2 DEF Awaiting
      <3>3. QED
        BY <3>1, <3>2
    <2>8. Stored' /\ AnswersMatch'
      BY <2>1, <2>4 DEF SpiIInv, Stored, InTransfer, AnswersMatch
    <2>9. QED
      BY <2>5, <2>6, <2>7, <2>8 DEF SpiIInv
  <1>2. CASE ~(spi.i < spi.cfg.len)
    <2>1. pc = "spiSend" /\ pc' = "idle" /\ spi' = [spi EXCEPT !.hold = FALSE, !.ret = 0]
      BY <1>2 DEF SpiSend
    <2>2. /\ DOMAIN spi' = DOMAIN spi
          /\ UNCHANGED <<spi.tx, spi.rx, spi.got, spi.busy, spi.late, spi.xfer, spi.i>>
      BY <2>1 DEF SpiIInv, SpiTypeOK
    <2>3. QED
      BY <2>1, <2>2, SpiSettings
  <1>3. QED
    BY <1>1, <1>2

\* The answer is stored.  Without a time-out it is the one to the byte just sent.
LEMMA SpiAnswerStep == SpiIInv /\ SpiAnswer => SpiIInv'
  <1> SUFFICES ASSUME SpiIInv, SpiAnswer
               PROVE SpiIInv'
    OBVIOUS
  <1> DEFINE answer == Head(spi.rx)
             got == Append(spi.got, answer)
  <1>1. /\ DOMAIN spi' = DOMAIN spi /\ spi'.rx = Tail(spi.rx) /\ spi'.got = got /\ spi'.i = spi.i + 1
        /\ UNCHANGED <<spi.tx, spi.busy, spi.late, spi.xfer>>
    BY DEF SpiAnswer, SpiIInv, SpiTypeOK
  <1>2. pc = "spiAnswer" /\ pc' = "spiSend" /\ spi.rx # <<>>
    BY DEF SpiAnswer
  <1>3. /\ answer \in SpiBytes /\ Tail(spi.rx) \in Seq(SpiBytes) /\ Len(Tail(spi.rx)) = Len(spi.rx) - 1
        /\ answer = spi.rx[1] /\ Len(spi.rx) >= 1
    BY <1>2 DEF SpiIInv, SpiTypeOK
  <1> HIDE DEF answer
  <1>4. /\ got \in Seq(SpiBytes) /\ Len(got) = Len(spi.got) + 1 /\ got[Len(spi.got) + 1] = answer
        /\ \A k \in 1..Len(spi.got) : got[k] = spi.got[k]
    BY <1>3 DEF SpiIInv, SpiTypeOK
  <1> HIDE DEF got
  <1>5. SpiTypeOK'
    BY <1>1, <1>2, <1>3, <1>4 DEF SpiIInv, SpiTypeOK, InTransfer
  <1>6. Slip'
    <2>1. SpiTypeOK /\ Slip /\ Waits = 1 /\ Waits' = 0 /\ OnLine' = OnLine
      BY <1>1, <1>2 DEF SpiIInv, Waits, OnLine, SpiBusy
    <2>2. AddsUp(Len(spi.tx), Len(spi.rx) - 1, OnLine, spi.late, 0)
      BY <2>1, SlipAdds, SlipMoves
    <2>3. QED
      BY <1>1, <1>3, <2>1, <2>2, SlipAdds
  <1>7. Awaiting'
    BY <1>2 DEF Awaiting
  <1>8. Stored' /\ AnswersMatch'
    <2>1. CASE spi.late = 0
      <3>1. answer = [xfer |-> spi.xfer, i |-> spi.i]
        BY <1>2, <1>3, <2>1 DEF SpiIInv, Awaiting, Awaited
      <3>2. Len(spi.got) = spi.i
        BY <1>2, <2>1 DEF SpiIInv, Stored, InTransfer
      <3>3. spi.got \in Seq(SpiBytes) /\ Len(spi.got) \in Nat
        BY DEF SpiIInv, SpiTypeOK
      <3>4. \A k \in 1..Len(got) : got[k] = [xfer |-> spi.xfer, i |-> k - 1]
        <4> TAKE k \in 1..Len(got)
        <4>1. CASE k \in 1..Len(spi.got)
          BY <1>4, <2>1, <4>1 DEF SpiIInv, AnswersMatch
        <4>2. CASE k = Len(spi.got) + 1
          BY <1>4, <3>1, <3>2, <3>3, <4>2
        <4>3. QED
          BY <1>4, <3>3, <4>1, <4>2
      <3>5. QED
        BY <1>1, <1>4, <3>2, <3>4 DEF Stored, AnswersMatch
    <2>2. CASE spi.late # 0
      BY <1>1, <2>2 DEF Stored, AnswersMatch
    <2>3. QED
      BY <2>1, <2>2
  <1>9. QED
    BY <1>5, <1>6, <1>7, <1>8 DEF SpiIInv

\* A time-out leaves the byte that was waited for behind.
LEMMA SpiTimeoutStep == SpiIInv /\ SpiTimeout => SpiIInv'
  <1> SUFFICES ASSUME SpiIInv, SpiTimeout
               PROVE SpiIInv'
    OBVIOUS
  <1>1. /\ DOMAIN spi' = DOMAIN spi /\ spi'.late = spi.late + 1
        /\ UNCHANGED <<spi.tx, spi.rx, spi.got, spi.busy, spi.xfer, spi.i>>
    BY DEF SpiTimeout, SpiIInv, SpiTypeOK
  <1>2. pc = "spiAnswer" /\ pc' = "idle"
    BY DEF SpiTimeout
  <1>3. SpiTypeOK'
    BY <1>1, <1>2 DEF SpiIInv, SpiTypeOK, InTransfer
  <1>5. Slip'
    <2>1. SpiTypeOK /\ Slip /\ Waits = 1 /\ Waits' = 0 /\ OnLine' = OnLine
      BY <1>1, <1>2 DEF SpiIInv, Waits, OnLine, SpiBusy
    <2>2. AddsUp(Len(spi.tx), Len(spi.rx), OnLine, spi.late + 1, 0)
      BY <2>1, SlipAdds, SlipMoves
    <2>3. QED
      BY <1>1, <2>1, <2>2, SlipAdds
  <1>6. Awaiting' /\ Stored' /\ AnswersMatch'
    BY <1>1, <1>2 DEF SpiIInv, SpiTypeOK, Awaiting, Stored, AnswersMatch
  <1>7. QED
    BY <1>3, <1>5, <1>6 DEF SpiIInv

\* The controller moves a byte on.  The receive FIFO has room for the answer, as it
\* holds late answers only.
LEMMA SpiHardwareStep == SpiIInv /\ SpiHardware => SpiIInv'
  <1> SUFFICES ASSUME SpiIInv, SpiHardware
               PROVE SpiIInv'
    OBVIOUS
  <1>1. pc' = pc
    BY DEF SpiHardware
  <1>2. CASE SpiLoad
    <2>1. /\ DOMAIN spi' = DOMAIN spi /\ spi'.tx = Tail(spi.tx) /\ spi'.busy = Head(spi.tx)
          /\ UNCHANGED <<spi.rx, spi.got, spi.late, spi.xfer, spi.i>>
      BY <1>2 DEF SpiLoad, SpiIInv, SpiTypeOK
    <2>2. spi.tx # <<>> /\ ~SpiBusy
      BY <1>2 DEF SpiLoad
    <2>3. /\ Head(spi.tx) \in SpiBytes /\ Tail(spi.tx) \in Seq(SpiBytes) /\ Len(Tail(spi.tx)) = Len(spi.tx) - 1
          /\ Head(spi.tx) = spi.tx[1] /\ \A k \in 1..Len(Tail(spi.tx)) : Tail(spi.tx)[k] = spi.tx[k + 1]
          /\ Len(spi.tx) \in Nat /\ Len(spi.tx) >= 1
      BY <2>2 DEF SpiIInv, SpiTypeOK
    <2>4. Head(spi.tx) # NoByte
      BY <2>3 DEF SpiBytes, NoByte
    <2>5. SpiTypeOK'
      BY <1>1, <2>1, <2>3 DEF SpiIInv, SpiTypeOK, InTransfer
    <2>6. Slip'
      <3>1. SpiTypeOK /\ Slip /\ Waits' = Waits /\ OnLine = 0 /\ OnLine' = 1
        BY <1>1, <2>1, <2>2, <2>4 DEF SpiIInv, Waits, OnLine, SpiBusy
      <3>2. AddsUp(Len(spi.tx) - 1, Len(spi.rx), 1, spi.late, Waits)
        BY <3>1, SlipAdds, SlipMoves
      <3>3. QED
        BY <2>1, <2>3, <3>1, <3>2, SlipAdds
    <2>7. Awaiting'
      <3>1. ASSUME spi.late = 0, pc = "spiAnswer"
            PROVE  /\ \A k \in 1..Len(spi'.tx) : spi'.tx[k] = Awaited
                   /\ \A k \in 1..Len(spi'.rx) : spi'.rx[k] = Awaited
                   /\ spi'.busy = Awaited
        <4>1. /\ \A k \in 1..Len(spi.tx) : spi.tx[k] = Awaited
              /\ \A k \in 1..Len(spi.rx) : spi.rx[k] = Awaited
          BY <3>1 DEF SpiIInv, Awaiting
        <4>2. \A k \in 1..Len(Tail(spi.tx)) : k + 1 \in 1..Len(spi.tx)
          BY <2>3
        <4>3. QED
          BY <2>1, <2>3, <4>1, <4>2
      <3>2. Awaited' = Awaited
        BY <2>1 DEF Awaited
      <3>3. QED
        BY <1>1, <2>1, <3>1, <3>2 DEF Awaiting
    <2>8. Stored' /\ AnswersMatch'
      BY <1>1, <2>1 DEF SpiIInv, Stored, InTransfer, AnswersMatch
    <2>9. QED
      BY <2>5, <2>6, <2>7, <2>8 DEF SpiIInv
  <1>3. CASE SpiShifted
    <2> DEFINE rx == IF Len(spi.rx) < FifoDepth THEN Append(spi.rx, spi.busy) ELSE spi.rx
    <2>1. /\ DOMAIN spi' = DOMAIN spi /\ spi'.rx = rx /\ spi'.busy = NoByte
          /\ UNCHANGED <<spi.tx, spi.got, spi.late, spi.xfer, spi.i>>
      BY <1>3 DEF SpiShifted, SpiIInv, SpiTypeOK
    <2>2. SpiBusy /\ spi.busy \in SpiBytes
      BY <1>3 DEF SpiShifted, SpiBusy, SpiIInv, SpiTypeOK
    <2> DEFINE longer == Append(spi.rx, spi.busy)
    <2>a. spi.rx \in Seq(SpiBytes) /\ Len(spi.rx) \in Nat
      BY DEF SpiIInv, SpiTypeOK
    <2>b. /\ longer \in Seq(SpiBytes) /\ Len(longer) = Len(spi.rx) + 1
          /\ \A k \in 1..Len(longer) : longer[k] = IF k = Len(spi.rx) + 1 THEN spi.busy ELSE spi.rx[k]
      BY <2>2, <2>a
    <2> HIDE DEF longer
    <2>3. rx \in Seq(SpiBytes) /\ \A k \in 1..Len(rx) : rx[k] = spi.busy \/ (k \in 1..Len(spi.rx) /\ rx[k] = spi.rx[k])
      <3>1. CASE Len(spi.rx) < FifoDepth
        <4>1. rx = longer
          BY <3>1 DEF longer
        <4> HIDE DEF rx
        <4>2. QED
          BY <2>a, <2>b, <4>1
      <3>2. CASE ~(Len(spi.rx) < FifoDepth)
        BY <2>a, <3>2
      <3>3. QED
        BY <3>1, <3>2
    <2>4. Len(spi.rx) < FifoDepth => Len(rx) = Len(spi.rx) + 1
      BY <2>b DEF longer
    <2> HIDE DEF rx
    <2>5. SpiTypeOK'
      BY <1>1, <2>1, <2>3 DEF SpiIInv, SpiTypeOK, InTransfer
    <2>6. Slip'
      <3>1. SpiTypeOK /\ Slip /\ Waits' = Waits /\ OnLine = 1 /\ OnLine' = 0
        BY <1>1, <2>1, <2>2 DEF SpiIInv, Waits, OnLine, SpiBusy
      <3>2. /\ spi.late < FifoDepth => Len(spi.rx) < FifoDepth
            /\ AddsUp(Len(spi.tx), Len(spi.rx) + 1, 0, spi.late, Waits)
        <4>1. /\ Len(spi.tx) \in Nat /\ Len(spi.rx) \in Nat /\ spi.late \in Nat
              /\ Waits \in {0, 1} /\ AddsUp(Len(spi.tx), Len(spi.rx), OnLine, spi.late, Waits)
          BY <3>1, SlipAdds
        <4>2. \A t, r, late \in Nat, w \in {0, 1} : AddsUp(t, r, 1, late, w) =>
                  (late < FifoDepth => r < FifoDepth) /\ AddsUp(t, r + 1, 0, late, w)
          BY SpiAssumption DEF AddsUp
        <4>3. QED
          BY <3>1, <4>1, <4>2
      <3>3. AddsUp(Len(spi'.tx), Len(spi'.rx), 0, spi'.late, Waits)
        BY <2>1, <2>4, <3>2 DEF AddsUp
      <3>4. QED
        BY <3>1, <3>3, SlipAdds
    <2>7. Awaiting'
      <3>1. ASSUME spi.late = 0, pc = "spiAnswer"
            PROVE  /\ \A k \in 1..Len(spi'.tx) : spi'.tx[k] = Awaited
                   /\ \A k \in 1..Len(spi'.rx) : spi'.rx[k] = Awaited
        BY <2>1, <2>2, <2>3, <3>1 DEF SpiIInv, Awaiting
      <3>2. Awaited' = Awaited
        BY <2>1 DEF Awaited
      <3>3. QED
        BY <1>1, <2>1, <3>1, <3>2 DEF Awaiting, SpiBusy
    <2>8. Stored' /\ AnswersMatch'
      BY <1>1, <2>1 DEF SpiIInv, Stored, InTransfer, AnswersMatch
    <2>9. QED
      BY <2>5, <2>6, <2>7, <2>8 DEF SpiIInv
  <1>4. QED
    BY <1>2, <1>3 DEF SpiHardware

LEMMA SpiNextIInv == SpiIInv /\ [Next]_vars => SpiIInv'
  <1> SUFFICES ASSUME SpiIInv, [Next]_vars
               PROVE SpiIInv'
    OBVIOUS
  <1>1. CASE SpiStep \/ SpiThread
    <2>1. CASE SpiStep
      <3>1. \/ \E b \in SpiBauds : SpiInit(b)
            \/ pc = "idle" /\ \E b \in SpiBauds : SpiSetBaud(b)
            \/ pc = "idle" /\ \E c \in Configs : SpiTransferCall(c)
        BY <2>1 DEF SpiStep, SpiCalls
      <3>2. QED
        BY <3>1, SpiSettingsStep, SpiTransferStep
    <2>2. CASE SpiThread
      <3>1. SpiSend \/ SpiAnswer \/ SpiTimeout \/ SpiPre \/ SpiWait \/ SpiPost
        BY <2>2 DEF SpiThread
      <3>2. QED
        BY <3>1, SpiSettingsStep, SpiSendStep, SpiAnswerStep, SpiTimeoutStep
    <2>3. QED
      BY <1>1, <2>1, <2>2
  <1>2. CASE SpiHardware
    BY <1>2, SpiHardwareStep
  <1>3. CASE \/ (UartStep \/ UartThread) /\ UNCHANGED spi
             \/ (I2cStep \/ I2cThread) /\ UNCHANGED spi
             \/ (PwmStep \/ PwmThread) /\ UNCHANGED spi
             \/ ((\E hz \in Rates : SetRateCall(hz)) \/ ClockThread) /\ UNCHANGED spi
    <2>1. {pc, pc'} \cap {"spiSend", "spiAnswer"} = {}
      BY <1>3, UartPc, I2cPc, PwmPc, ClockPc
         DEF UartMoves, I2cMoves, PwmMoves, ClockMoves, UartLabels, I2cLabels, PwmLabels, ClockLabels,
             CallbackLabels
    <2>2. QED
      BY <1>3, <2>1, SpiAside
  <1>4. CASE (UartHardware \/ I2cComplete \/ PwmHardware \/ UNCHANGED vars) /\ UNCHANGED spi
    BY <1>4, SpiAside DEF UartHardware, I2cComplete, PwmHardware, vars
  <1>5. QED
    BY <1>1, <1>2, <1>3, <1>4, Steps DEF vars

\* AnswersMatchHolds: as long as no transfer has timed out, the answer that a
\* transfer stores at an index is the one to the byte that it sent there, whatever
\* the controller does with its FIFOs in the meantime.
THEOREM AnswersMatchHolds == Spec => []AnswersMatch
  <1>1. SpiIInv => AnswersMatch
    BY DEF SpiIInv
  <1>2. QED
    BY <1>1, SpiInitIInv, SpiNextIInv, PTL DEF Spec

\* SlipCountedHolds: the SPI controller holds one byte for every transfer that has
\* timed out, as long as these are fewer than the receive FIFO has entries: with as
\* many it is full, and the next answer is lost.
THEOREM SlipCountedHolds == Spec => [](spi.late < FifoDepth => SlipCounted)
  <1>1. SpiIInv => (spi.late < FifoDepth => SlipCounted)
    BY DEF SpiIInv, Slip
  <1>2. QED
    BY <1>1, SpiInitIInv, SpiNextIInv, PTL DEF Spec


-----------------------------------------------------------------------------
\* The lists of callbacks and their traversal.

PreLabels == {"pre", "preNext", "uartPre", "uartWait", "uartDrain", "spiPre", "spiWait", "i2cPre", "pwmPre"}
PostLabels == {"post", "postNext", "uartPost", "spiPost", "i2cPost", "pwmPost"}

\* The drivers whose cells have been put in the lists.
Registered == {d \in Drivers : \/ d = "uart" /\ uart.init
                               \/ d = "spi" /\ spi.init
                               \/ d = "i2c" /\ i2c.init
                               \/ d = "pwm" /\ pwm.freq # 0}

\* What the pre callback of a driver leaves behind, and its post callback.
UartDrained == uart.fifo = 0 /\ (SymbolFits => uart.left = 0)
Quiet(d) == /\ d = "uart" => UartDrained
            /\ d = "spi" => spi.tx = <<>>
            /\ d = "i2c" => ~i2c.tip
            /\ d = "pwm" => "enalways" \notin pwm.cfg
Follows(d) ==
    /\ d = "uart" /\ uart.init => uart.div + 1 = rate \div uart.baud
    /\ d = "spi" /\ spi.init /\ SpiDivider(spi.baud) \in 0..SckDivMax => spi.div + 1 = rate \div (2 * spi.baud)
    /\ d = "i2c" /\ i2c.init /\ Prescales(i2c.baud) => i2c.prescale = Prescaler(i2c.baud)

Lists == [head : Drivers \cup {NoCell}, next : [Drivers -> Drivers \cup {NoCell}]]

\* A list that ends holds every driver that was put in.  One that a cell was put in
\* twice does not end.
Holds(list, cells) == Ends(list) => cells \subseteq Reached(list)

\* The cells of the set have been left behind by the traversal.
Behind(list, done) == /\ list.head \in done \cup {cursor}
                      /\ \A c \in done : list.next[c] \in done \cup {cursor}

CursorOK == /\ pc \in {"uartPre", "uartWait", "uartDrain", "uartPost"} => cursor = "uart"
            /\ pc \in {"spiPre", "spiWait", "spiPost"} => cursor = "spi"
            /\ pc \in {"i2cPre", "i2cPost"} => cursor = "i2c"
            /\ pc \in {"pwmPre", "pwmPost"} => cursor = "pwm"
            /\ pc \in {"preNext", "postNext"} => cursor # NoCell

ClockOK == /\ rate \in Rates /\ target \in Rates
           /\ pre \in Lists /\ post \in Lists
           /\ Holds(pre, Registered) /\ Holds(post, Registered)
           /\ pc \in PreLabels => cursor \in Reached(pre)
           /\ pc \in PostLabels => cursor \in Reached(post)

UartOK ==
    /\ DOMAIN uart = {"init", "baud", "div", "txen", "txcnt", "rxcnt", "ie", "fifo", "left", "rx", "waited"}
    /\ uart.init \in BOOLEAN /\ uart.fifo \in Nat /\ uart.left \in 0..SymbolBits /\ uart.waited \in Nat
    /\ uart.init => uart.baud \in Bauds
    /\ ~uart.init => ~TxBusy /\ pc # "uartPutc"
    /\ pc = "uartWait" => uart.txcnt = {0} /\ uart.waited = 0
    /\ pc = "uartDrain" => /\ uart.fifo = 0
                           /\ uart.left = 0 \/ uart.left + uart.waited <= SymbolBits

SpiOK == /\ spi.init \in BOOLEAN
         /\ spi.init => spi.baud \in SpiBauds
         /\ ~spi.init => spi.tx = <<>> /\ ~InTransfer
         /\ pc = "spiWait" => spi.txmark = 1

I2cOK ==
    /\ DOMAIN i2c = {"init", "baud", "prescale", "en", "tip", "cmd", "nack", "bus", "req", "dir", "i", "ret",
                     "refused", "calls"}
    /\ i2c.init \in BOOLEAN /\ i2c.tip \in BOOLEAN
    /\ ~i2c.init => ~i2c.tip /\ pc \notin {"i2cAddress", "i2cAddressed", "i2cByte", "i2cDone"}
    /\ pc = "i2cByte" => ~i2c.tip

PwmOK == DOMAIN pwm = {"enabled", "freq", "count", "duty", "cmp0", "cmp", "scale", "cfg", "center", "ip"}

\* In the traversal of the pre list every driver left behind is quiet, and in that of
\* the post list it follows the rate; otherwise every driver does.
PreWalk == /\ pc \in PreLabels => \E done \in SUBSET Drivers : Behind(pre, done) /\ \A d \in done : Quiet(d)
           /\ pc = "preNext" => Quiet(cursor)
PostWalk == /\ pc \in PostLabels => \E done \in SUBSET Drivers : Behind(post, done) /\ \A d \in done : Follows(d)
            /\ pc = "postNext" => Follows(cursor)
            /\ pc \notin PostLabels => \A d \in Drivers : Follows(d)

WalkIInv == ClockOK /\ CursorOK /\ UartOK /\ SpiIInv /\ SpiOK /\ I2cOK /\ PwmOK /\ PreWalk /\ PostWalk

\* A walk of four steps meets every cell there is.
After(list, c) == IF c = NoCell THEN NoCell ELSE list.next[c]
Second(list) == After(list, list.head)
Third(list) == After(list, Second(list))
Fourth(list) == After(list, Third(list))
Fifth(list) == After(list, Fourth(list))

LEMMA FourDrivers == Cardinality(Drivers) = 4
  <1>1. Cardinality({}) = 0 /\ IsFiniteSet({})
    BY FS_EmptySet
  <1>2. Cardinality({"uart"}) = 1 /\ IsFiniteSet({"uart"})
    BY <1>1, FS_AddElement
  <1>3. Cardinality({"uart"} \cup {"spi"}) = 2 /\ IsFiniteSet({"uart"} \cup {"spi"})
    BY <1>2, FS_AddElement
  <1>4. Cardinality({"uart", "spi"} \cup {"i2c"}) = 3 /\ IsFiniteSet({"uart", "spi"} \cup {"i2c"})
    <2>1. {"uart"} \cup {"spi"} = {"uart", "spi"}
      OBVIOUS
    <2>2. QED
      BY <1>3, <2>1, FS_AddElement
  <1>5. Cardinality({"uart", "spi", "i2c"} \cup {"pwm"}) = 4
    <2>1. {"uart", "spi"} \cup {"i2c"} = {"uart", "spi", "i2c"}
      OBVIOUS
    <2>2. QED
      BY <1>4, <2>1, FS_AddElement
  <1>6. {"uart", "spi", "i2c"} \cup {"pwm"} = Drivers
    BY DEF Drivers
  <1>7. QED
    BY <1>5, <1>6

LEMMA ReachedIs ==
    ASSUME NEW list
    PROVE  Reached(list) = {list.head, Second(list), Third(list), Fourth(list), Fifth(list)}
  <1> DEFINE Step(s) == s \cup {list.next[c] : c \in s \ {NoCell}}
             Round(f) == [n \in 0..Cardinality(Drivers) |-> IF n = 0 THEN {list.head} ELSE Step(f[n - 1])]
             Walk == CHOOSE f : f = Round(f)
             w1 == {list.head}
             w2 == Step(w1)
             w3 == Step(w2)
             w4 == Step(w3)
             w5 == Step(w4)
             walk == [n \in 0..Cardinality(Drivers) |->
                          IF n = 0 THEN w1 ELSE IF n = 1 THEN w2 ELSE IF n = 2 THEN w3
                          ELSE IF n = 3 THEN w4 ELSE w5]
  <1>1. Reached(list) = Walk[4]
    BY FourDrivers DEF Reached
  <1>2. walk = Round(walk)
    <2> HIDE DEF Step
    <2>1. DOMAIN walk = 0..4 /\ DOMAIN Round(walk) = 0..4
      BY FourDrivers
    <2>2. \A n \in 0..4 : walk[n] = Round(walk)[n]
      <3> TAKE n \in 0..4
      <3>1. n \in {0, 1, 2, 3, 4}
        OBVIOUS
      <3>2. QED
        BY <3>1, FourDrivers
    <2>3. QED
      BY <2>1, <2>2, FourDrivers
  <1>3. Walk = Round(Walk)
    BY <1>2
  <1> HIDE DEF Walk, Step
  <1>4. /\ Walk[0] = w1 /\ Walk[1] = Step(Walk[0]) /\ Walk[2] = Step(Walk[1])
        /\ Walk[3] = Step(Walk[2]) /\ Walk[4] = Step(Walk[3])
    BY <1>3, FourDrivers
  <1>5. Walk[4] = w5
    BY <1>4
  <1> USE DEF Step
  <1>6. w2 = {list.head, Second(list)}
    BY DEF Second, After
  <1>7. w3 = {list.head, Second(list), Third(list)}
    BY <1>6 DEF Third, Second, After
  <1>8. w4 = {list.head, Second(list), Third(list), Fourth(list)}
    BY <1>7 DEF Fourth, Third, Second, After
  <1>9. w5 = {list.head, Second(list), Third(list), Fourth(list), Fifth(list)}
    BY <1>8 DEF Fifth, Fourth, Third, Second, After
  <1>10. QED
    BY <1>1, <1>5, <1>9

LEMMA CellsReached ==
    ASSUME NEW list \in Lists
    PROVE  /\ Reached(list) \subseteq Drivers \cup {NoCell}
           /\ list.head \in Reached(list)
           /\ \A c \in Reached(list) \ {NoCell} : list.next[c] \in Reached(list)
  <1>1. NoCell \notin Drivers
    BY DEF NoCell, Drivers
  <1>2. \A c \in Drivers \cup {NoCell} : After(list, c) \in Drivers \cup {NoCell}
    BY DEF Lists, After
  <1>3. list.head \in Drivers \cup {NoCell}
    BY DEF Lists
  <1>4. /\ Second(list) \in Drivers \cup {NoCell} /\ Third(list) \in Drivers \cup {NoCell}
        /\ Fourth(list) \in Drivers \cup {NoCell} /\ Fifth(list) \in Drivers \cup {NoCell}
    BY <1>2, <1>3 DEF Second, Third, Fourth, Fifth
  \* Of five cells that are drivers, two are the same, and the walk repeats itself.
  <1>5. Fifth(list) # NoCell => After(list, Fifth(list)) \in Reached(list)
    <2> SUFFICES ASSUME Fifth(list) # NoCell
                 PROVE  After(list, Fifth(list)) \in Reached(list)
      OBVIOUS
    <2>1. list.head # NoCell /\ Second(list) # NoCell /\ Third(list) # NoCell /\ Fourth(list) # NoCell
      BY DEF Second, Third, Fourth, Fifth, After
    <2>2. \/ Fifth(list) \in {list.head, Second(list), Third(list), Fourth(list)}
          \/ Fourth(list) \in {list.head, Second(list), Third(list)}
          \/ Third(list) \in {list.head, Second(list)}
          \/ Second(list) = list.head
      BY <1>3, <1>4, <2>1 DEF Drivers
    <2> DEFINE h1 == list.head
               h2 == Second(list)
               h3 == Third(list)
               h4 == Fourth(list)
               h5 == Fifth(list)
               N(c) == After(list, c)
    <2>3. h2 = N(h1) /\ h3 = N(h2) /\ h4 = N(h3) /\ h5 = N(h4)
      BY DEF Second, Third, Fourth, Fifth
    <2>4. Reached(list) = {h1, h2, h3, h4, h5}
      BY ReachedIs
    <2> HIDE DEF h1, h2, h3, h4, h5, N
    <2>5. N(h5) \in {h1, h2, h3, h4, h5}
      BY <2>2, <2>3 DEF h1, h2, h3, h4, h5
    <2>6. QED
      BY <2>4, <2>5 DEF N, h5
  <1>6. \A c \in Reached(list) \ {NoCell} : list.next[c] \in Reached(list)
    BY <1>5, ReachedIs DEF Second, Third, Fourth, Fifth, After
  <1>7. QED
    BY <1>3, <1>4, <1>6, ReachedIs

LEMMA ReachedLeast ==
    ASSUME NEW list, NEW cells, list.head \in cells, \A c \in cells \ {NoCell} : list.next[c] \in cells
    PROVE  Reached(list) \subseteq cells
  <1>1. \A c \in cells : After(list, c) \in cells
    BY DEF After
  <1>2. QED
    BY <1>1, ReachedIs DEF Second, Third, Fourth, Fifth

\* A walk that ends has one last cell.
LEMMA OneLast ==
    ASSUME NEW list, Ends(list), list.head # NoCell
    PROVE  /\ \E c \in Reached(list) \ {NoCell} : list.next[c] = NoCell
           /\ \A c, e \in Reached(list) \ {NoCell} :
                  list.next[c] = NoCell /\ list.next[e] = NoCell => c = e
  <1>1. NoCell \in {list.head, Second(list), Third(list), Fourth(list), Fifth(list)}
    BY ReachedIs DEF Ends
  <1>2. \E c \in {list.head, Second(list), Third(list), Fourth(list)} \ {NoCell} : list.next[c] = NoCell
    BY <1>1 DEF Second, Third, Fourth, Fifth, After
  <1>3. \A c, e \in {list.head, Second(list), Third(list), Fourth(list), Fifth(list)} \ {NoCell} :
            list.next[c] = NoCell /\ list.next[e] = NoCell => c = e
    BY <1>1 DEF Second, Third, Fourth, Fifth, After
  <1>4. QED
    BY <1>2, <1>3, ReachedIs

\* What appending makes of a list: its cell first loses its successor.
Cut(list, d) == [list EXCEPT !.next[d] = NoCell]

LEMMA AppendMakes ==
    ASSUME NEW list \in Lists, NEW d \in Drivers, Appends(list, d)
    PROVE  /\ Cut(list, d) \in Lists /\ Append1(list, d) \in Lists /\ NoCell \in Reached(Cut(list, d))
           /\ Cut(list, d).head = list.head /\ Cut(list, d).next[d] = NoCell
           /\ \A c \in Drivers \ {d} : Cut(list, d).next[c] = list.next[c]
           /\ list.head = NoCell => Append1(list, d).head = d
           /\ list.head # NoCell =>
                  /\ Append1(list, d).head = list.head
                  /\ \E last \in Reached(Cut(list, d)) \ {NoCell} :
                         /\ Cut(list, d).next[last] = NoCell /\ Append1(list, d).next[last] = d
                         /\ \A c \in Reached(Cut(list, d)) \ {NoCell} :
                                Cut(list, d).next[c] = NoCell => c = last
                         /\ \A c \in Drivers \ {last} : Append1(list, d).next[c] = Cut(list, d).next[c]
  <1> DEFINE cut == Cut(list, d)
             new == Append1(list, d)
  <1>1. /\ cut \in Lists /\ cut.head = list.head /\ cut.next[d] = NoCell
        /\ \A c \in Drivers \ {d} : cut.next[c] = list.next[c]
    BY DEF Lists, Cut
  <1>2. NoCell \in Reached(cut)
    BY DEF Appends, Ends, Cut
  <1> DEFINE last == CHOOSE c \in Reached(cut) \ {NoCell} : cut.next[c] = NoCell
  <1>3. new = IF cut.head = NoCell THEN [cut EXCEPT !.head = d] ELSE [cut EXCEPT !.next[last] = d]
    BY DEF Append1, Cut
  <1> HIDE DEF cut, new
  <1>4. CASE list.head = NoCell
    <2>1. new = [cut EXCEPT !.head = d]
      BY <1>1, <1>3, <1>4
    <2>2. new \in Lists /\ new.head = d
      BY <1>1, <2>1 DEF Lists
    <2>3. QED
      BY <1>1, <1>2, <1>4, <2>2 DEF cut, new
  <1>5. CASE list.head # NoCell
    <2>1. Ends(cut) /\ cut.head # NoCell
      BY <1>1, <1>2, <1>5 DEF Ends
    <2>2. last \in Reached(cut) \ {NoCell} /\ cut.next[last] = NoCell
      BY <2>1, OneLast
    <2>3. \A c \in Reached(cut) \ {NoCell} : cut.next[c] = NoCell => c = last
      BY <2>1, <2>2, OneLast
    <2>4. last \in Drivers
      BY <1>1, <2>2, CellsReached
    <2>5. new = [cut EXCEPT !.next[last] = d]
      BY <1>3, <2>1
    <2> HIDE DEF last
    <2>6. /\ new \in Lists /\ new.head = cut.head /\ new.next[last] = d
          /\ \A c \in Drivers \ {last} : new.next[c] = cut.next[c]
      BY <1>1, <2>4, <2>5 DEF Lists
    <2>7. QED
      BY <1>1, <1>2, <1>5, <2>2, <2>3, <2>6 DEF cut, new
  <1>6. QED
    BY <1>4, <1>5

LEMMA AppendHolds ==
    ASSUME NEW list \in Lists, NEW d \in Drivers, Appends(list, d),
           NEW cells \in SUBSET Drivers, Holds(list, cells)
    PROVE  Holds(Append1(list, d), cells \cup {d})
  <1> DEFINE cut == Cut(list, d)
             new == Append1(list, d)
  <1>1. /\ cut \in Lists /\ new \in Lists /\ NoCell \in Reached(cut)
        /\ cut.head = list.head /\ cut.next[d] = NoCell
        /\ \A c \in Drivers \ {d} : cut.next[c] = list.next[c]
        /\ list.head = NoCell => new.head = d
    BY AppendMakes
  <1>2. list.head # NoCell =>
            /\ new.head = list.head
            /\ \E last \in Reached(cut) \ {NoCell} :
                   /\ cut.next[last] = NoCell /\ new.next[last] = d
                   /\ \A c \in Reached(cut) \ {NoCell} : cut.next[c] = NoCell => c = last
                   /\ \A c \in Drivers \ {last} : new.next[c] = cut.next[c]
    BY AppendMakes
  <1> HIDE DEF cut, new
  <1>3. CASE list.head = NoCell
    <2>1. Reached(list) \subseteq {NoCell}
      BY <1>3, ReachedLeast
    <2>2. NoCell \in Reached(list)
      BY <1>3, CellsReached
    <2>3. cells = {}
      BY <2>1, <2>2 DEF Holds, Ends, Drivers, NoCell
    <2>4. d \in Reached(new)
      BY <1>1, <1>3, CellsReached
    <2>5. QED
      BY <2>3, <2>4 DEF Holds, new
  <1>4. CASE list.head # NoCell
    <2>1. new.head = list.head
      BY <1>2, <1>4
    <2>2. PICK last \in Reached(cut) \ {NoCell} :
              /\ cut.next[last] = NoCell /\ new.next[last] = d
              /\ \A c \in Reached(cut) \ {NoCell} : cut.next[c] = NoCell => c = last
              /\ \A c \in Drivers \ {last} : new.next[c] = cut.next[c]
      BY <1>2, <1>4
    <2>3. /\ Reached(cut) \subseteq Drivers \cup {NoCell} /\ list.head \in Reached(cut)
          /\ \A c \in Reached(cut) \ {NoCell} : cut.next[c] \in Reached(cut)
      BY <1>1, CellsReached
    <2>4. /\ Reached(list) \subseteq Drivers \cup {NoCell} /\ list.head \in Reached(list)
          /\ \A c \in Reached(list) \ {NoCell} : list.next[c] \in Reached(list)
      BY CellsReached
    <2>5. /\ Reached(new) \subseteq Drivers \cup {NoCell} /\ list.head \in Reached(new)
          /\ \A c \in Reached(new) \ {NoCell} : new.next[c] \in Reached(new)
      BY <1>1, <2>1, CellsReached
    \* The cell was in the list: the walk now comes back to it.
    <2>6. CASE last = d
      <3> DEFINE loop == Reached(cut) \ {NoCell}
      <3>1. \A c \in loop : new.next[c] \in loop
        BY <2>2, <2>3, <2>6
      <3>2. Reached(new) \subseteq loop
        BY <1>4, <2>1, <2>3, <3>1, ReachedLeast
      <3>3. QED
        BY <3>2 DEF Holds, Ends, new
    \* It was not: it is behind all the others.
    <2>7. CASE last # d
      <3>1. d \notin Reached(cut)
        BY <1>1, <2>2, <2>7 DEF Drivers, NoCell
      <3>2. \A c \in Reached(cut) \ {NoCell} : list.next[c] = cut.next[c]
        BY <1>1, <2>3, <3>1
      <3>3. Reached(list) \subseteq Reached(cut)
        BY <2>3, <3>2, ReachedLeast
      <3>4. Reached(cut) \subseteq Reached(list) \cup {NoCell}
        <4>1. \A c \in (Reached(list) \cup {NoCell}) \ {NoCell} : cut.next[c] \in Reached(list) \cup {NoCell}
          BY <1>1, <2>4
        <4>2. QED
          BY <1>1, <2>4, <4>1, ReachedLeast
      <3>5. Ends(list)
        BY <2>2, <2>4, <3>2, <3>4 DEF Ends
      <3>6. cells \subseteq Reached(cut)
        BY <3>3, <3>5 DEF Holds
      <3>7. Reached(cut) \subseteq Reached(new) \cup {NoCell}
        <4>1. \A c \in (Reached(new) \cup {NoCell}) \ {NoCell} : cut.next[c] \in Reached(new) \cup {NoCell}
          BY <2>2, <2>5
        <4>2. QED
          BY <1>1, <2>5, <4>1, ReachedLeast
      <3>8. d \in Reached(new)
        BY <2>2, <2>5, <3>7
      <3>9. cells \cup {d} \subseteq Reached(new)
        BY <3>6, <3>7, <3>8 DEF Drivers, NoCell
      <3>10. QED
        BY <3>9 DEF Holds, new
    <2>8. QED
      BY <2>6, <2>7
  <1>5. QED
    BY <1>3, <1>4

\* A cell that is in the list already becomes its own successor.
LEMMA AppendAgain ==
    ASSUME NEW list \in Lists, NEW d \in Drivers, Appends(list, d), d \in Reached(list)
    PROVE  LET new == Append1(list, d)
           IN  /\ new.head = list.head /\ new.next[d] = d
               /\ \A c \in Drivers \ {d} : new.next[c] = list.next[c]
               /\ d \in Reached(new)
  <1> DEFINE cut == Cut(list, d)
             new == Append1(list, d)
  <1>1. /\ cut \in Lists /\ new \in Lists /\ cut.head = list.head /\ cut.next[d] = NoCell
        /\ \A c \in Drivers \ {d} : cut.next[c] = list.next[c]
    BY AppendMakes
  <1>2. list.head # NoCell =>
            /\ new.head = list.head
            /\ \E last \in Reached(cut) \ {NoCell} :
                   /\ cut.next[last] = NoCell /\ new.next[last] = d
                   /\ \A c \in Reached(cut) \ {NoCell} : cut.next[c] = NoCell => c = last
                   /\ \A c \in Drivers \ {last} : new.next[c] = cut.next[c]
    BY AppendMakes
  <1> HIDE DEF cut, new
  <1>3. list.head # NoCell
    <2>1. ASSUME list.head = NoCell
          PROVE  FALSE
      <3>1. Reached(list) \subseteq {NoCell}
        BY <2>1, ReachedLeast
      <3>2. QED
        BY <3>1 DEF Drivers, NoCell
    <2>2. QED
      BY <2>1
  <1>4. PICK last \in Reached(cut) \ {NoCell} :
            /\ cut.next[last] = NoCell /\ new.next[last] = d
            /\ \A c \in Reached(cut) \ {NoCell} : cut.next[c] = NoCell => c = last
            /\ \A c \in Drivers \ {last} : new.next[c] = cut.next[c]
    BY <1>2, <1>3
  <1>5. /\ Reached(cut) \subseteq Drivers \cup {NoCell} /\ list.head \in Reached(cut)
        /\ \A c \in Reached(cut) \ {NoCell} : cut.next[c] \in Reached(cut)
    BY <1>1, CellsReached
  <1>6. d \in Reached(cut)
    <2>1. ASSUME d \notin Reached(cut)
          PROVE  FALSE
      <3>1. \A c \in Reached(cut) \ {NoCell} : list.next[c] \in Reached(cut)
        BY <1>1, <1>5, <2>1
      <3>2. Reached(list) \subseteq Reached(cut)
        BY <1>5, <3>1, ReachedLeast
      <3>3. QED
        BY <2>1, <3>2
    <2>2. QED
      BY <2>1
  <1>7. last = d
    BY <1>1, <1>4, <1>6 DEF Drivers, NoCell
  <1>8. d \in Reached(new)
    <2>1. /\ list.head \in Reached(new)
          /\ \A c \in Reached(new) \ {NoCell} : new.next[c] \in Reached(new)
          /\ Reached(new) \subseteq Drivers \cup {NoCell}
      BY <1>1, <1>2, <1>3, CellsReached
    <2>2. \A c \in (Reached(new) \cup {NoCell}) \ {NoCell} : cut.next[c] \in Reached(new) \cup {NoCell}
      BY <1>1, <1>4, <1>7, <2>1
    <2>3. Reached(cut) \subseteq Reached(new) \cup {NoCell}
      BY <1>1, <2>1, <2>2, ReachedLeast
    <2>4. QED
      BY <1>6, <2>3 DEF Drivers, NoCell
  <1>9. QED
    BY <1>1, <1>2, <1>3, <1>4, <1>7, <1>8 DEF new

\* What the drivers keep by themselves.

LEMMA WithBaudKeeps ==
    ASSUME NEW u, NEW b,
           DOMAIN u = {"init", "baud", "div", "txen", "txcnt", "rxcnt", "ie", "fifo", "left", "rx", "waited"}
    PROVE  /\ DOMAIN WithBaud(u, b) = DOMAIN u /\ WithBaud(u, b).init = u.init /\ WithBaud(u, b).baud = b
           /\ WithBaud(u, b).fifo = u.fifo /\ WithBaud(u, b).left = u.left
           /\ WithBaud(u, b).waited = u.waited /\ WithBaud(u, b).txcnt = u.txcnt
           /\ WithBaud(u, b).div = rate \div b - 1
  BY DEF WithBaud

\* The wait of the drain is long enough: a floor of the whole is not less than the
\* parts of the floor, and a number that fits a long is what the long holds.
LEMMA FloorTimes ==
    ASSUME NEW s \in Nat, NEW r \in Nat, NEW b \in Nat \ {0}
    PROVE  s * (r \div b) <= (s * r) \div b
  <1> DEFINE q == r \div b
  <1>1. q \in Nat /\ b * q <= r
    OBVIOUS
  <1> HIDE DEF q
  <1>2. s * r \in Nat /\ s * q \in Nat
    BY <1>1
  <1>3. s * (b * q) <= s * r
    BY <1>1
  <1>4. s * (b * q) = b * (s * q)
    BY <1>1
  <1>5. ASSUME NEW m \in Nat, NEW k \in Nat, b * k <= m
        PROVE  k <= m \div b
    <2>1. PICK d \in Nat : d = m \div b /\ m < b * (d + 1)
      OBVIOUS
    <2>2. SUFFICES ASSUME d + 1 <= k
                   PROVE  FALSE
      BY <2>1
    <2>3. b * (d + 1) <= b * k
      BY <2>1, <2>2
    <2>4. b * (d + 1) \in Nat /\ b * k \in Nat
      BY <2>1
    <2>5. QED
      BY <1>5, <2>1, <2>3, <2>4
  <1>6. s * q <= (s * r) \div b
    BY <1>2, <1>3, <1>4, <1>5
  <1>7. QED
    BY <1>6 DEF q

LEMMA LongHolds ==
    ASSUME NEW n \in 0..LongMax
    PROVE  CLong(n) = n
  <1>1. (n + LongMax + 1) % (2 * (LongMax + 1)) = n + LongMax + 1
    BY UartAssumption
  <1>2. QED
    BY <1>1, UartAssumption DEF CLong

LEMMA LongEnough ==
    ASSUME rate \in Rates, uart.baud \in Bauds, uart.waited \in Nat,
           uart.div + 1 = rate \div uart.baud, SymbolFits, ~BitsLeftToWait
    PROVE  uart.waited >= SymbolBits
  <1> DEFINE b == uart.baud
             w == uart.waited
             q == rate \div b
  <1>1. rate \in Nat /\ b \in Nat \ {0} /\ b <= rate /\ SymbolBits \in Nat
    BY ClockAssumption, UartAssumption
  <1>2. q \in Nat \ {0}
    BY <1>1
  <1>3. SymbolBits * rate \in 0..LongMax
    BY <1>1, UartAssumption DEF SymbolFits
  <1>4. CyclesToWait = (SymbolBits * rate) \div b
    BY <1>3, LongHolds DEF CyclesToWait
  <1>5. SymbolBits * q <= CyclesToWait
    BY <1>1, <1>4, FloorTimes
  <1>6. ~((w + 1) * q <= CyclesToWait)
    BY DEF BitsLeftToWait
  <1>7. CyclesToWait \in Nat /\ w \in Nat
    BY <1>1, <1>3, <1>4
  <1> HIDE DEF q
  <1>8. ~((w + 1) * q <= SymbolBits * q)
    <2>1. (w + 1) * q \in Nat /\ SymbolBits * q \in Nat
      BY <1>1, <1>2, <1>7
    <2>2. QED
      BY <1>5, <1>6, <1>7, <2>1
  <1>9. SUFFICES ASSUME w + 1 <= SymbolBits
                 PROVE  FALSE
    BY <1>1, <1>7
  <1>10. (w + 1) * q <= SymbolBits * q
    BY <1>1, <1>2, <1>7, <1>9
  <1>11. QED
    BY <1>8, <1>10

LEMMA UartSettingsStep ==
    ASSUME UartOK, rate \in Rates,
           \/ \E b \in Bauds : UartInit(b)
           \/ pc = "idle" /\ uart.init /\ UartSetUps
           \/ UartPost
    PROVE  /\ UartOK' /\ UNCHANGED <<uart.fifo, uart.left>>
           /\ uart.init => uart'.init
           /\ \/ uart'.init => uart'.div + 1 = rate \div uart'.baud
              \/ UNCHANGED <<uart.init, uart.baud, uart.div>>
  <1> USE DEF UartOK
  <1> DEFINE d == {"init", "baud", "div", "txen", "txcnt", "rxcnt", "ie", "fifo", "left", "rx", "waited"}
  <1>1. CASE \E b \in Bauds : UartInit(b)
    <2>1. PICK b \in Bauds : UartInit(b)
      BY <1>1
    <2>2. DOMAIN WithBaud(uart, b) = d
      BY WithBaudKeeps
    <2>3. uart' = [WithBaud(uart, b) EXCEPT !.init = TRUE]
      BY <2>1 DEF UartInit
    <2>4. /\ DOMAIN uart' = d /\ uart'.init = TRUE /\ uart'.baud = b
          /\ uart'.fifo = uart.fifo /\ uart'.left = uart.left /\ uart'.waited = uart.waited
          /\ uart'.div = rate \div b - 1
      BY <2>2, <2>3, WithBaudKeeps
    <2>5. pc = "idle" /\ pc' = "idle"
      BY <2>1 DEF UartInit
    <2>6. UartOK'
      BY <2>4, <2>5 DEF TxBusy
    <2>7. rate \div b \in Int
      BY ClockAssumption, UartAssumption
    <2>8. uart'.div + 1 = rate \div uart'.baud
      BY <2>4, <2>7
    <2>9. QED
      BY <2>4, <2>6, <2>8
  <1>2. CASE UartPost \/ (pc = "idle" /\ \E b \in Bauds : UartSetBaud(b))
    <2>1. PICK b : uart' = WithBaud(uart, b) /\ (uart.init => b \in Bauds)
      BY <1>2 DEF UartPost, UartSetBaud
    <2>2. /\ DOMAIN uart' = d /\ uart'.init = uart.init /\ uart'.baud = b
          /\ uart'.fifo = uart.fifo /\ uart'.left = uart.left /\ uart'.waited = uart.waited
          /\ uart'.div = rate \div b - 1
      BY <2>1, WithBaudKeeps
    <2>3. pc' \in {"idle", "postNext"}
      BY <1>2 DEF UartPost, UartSetBaud
    <2>4. UartOK'
      BY <2>1, <2>2, <2>3 DEF TxBusy
    <2>5. uart'.init => uart'.div + 1 = rate \div uart'.baud
      <3>1. uart'.init => rate \div b \in Int
        BY <2>1, <2>2, ClockAssumption, UartAssumption
      <3>2. QED
        BY <2>2, <3>1
    <2>6. QED
      BY <2>2, <2>4, <2>5
  <1>3. CASE pc = "idle" /\ uart.init /\ UartSetUps /\ ~(\E b \in Bauds : UartSetBaud(b))
    <2>1. /\ DOMAIN uart' = d
          /\ UNCHANGED <<uart.init, uart.baud, uart.div, uart.fifo, uart.left, uart.waited, pc>>
      BY <1>3 DEF UartSetUps, UartSetTxWatermark, UartSetRxWatermark, UartInterruptEnable, UartInterruptDisable
    <2>2. QED
      BY <1>3, <2>1 DEF TxBusy
  <1>4. QED
    BY <1>1, <1>2, <1>3

LEMMA UartOtherStep ==
    ASSUME UartOK, rate \in Rates, rate' = rate,
           pc = "uartDrain" /\ uart.init => uart.div + 1 = rate \div uart.baud,
                   \/ pc = "idle" /\ uart.init /\ (UartPutcCall \/ UartGetc \/ TtyGetcCall)
                   \/ UartPutc \/ TtyGetc \/ UartPre \/ UartWait \/ UartDrain
    PROVE  /\ UartOK' /\ UNCHANGED <<uart.init, uart.baud, uart.div>>
           /\ ~UartPutc => (UartDrained => UartDrained')
           /\ UartDrain /\ pc' = "preNext" => UartDrained'
  <1> USE UartAssumption DEF UartOK
  <1> DEFINE d == {"init", "baud", "div", "txen", "txcnt", "rxcnt", "ie", "fifo", "left", "rx", "waited"}
  <1>1. CASE (pc = "idle" /\ uart.init /\ (UartPutcCall \/ UartGetc \/ TtyGetcCall)) \/ TtyGetc
    <2>1. /\ DOMAIN uart' = d
          /\ UNCHANGED <<uart.init, uart.baud, uart.div, uart.fifo, uart.left, uart.waited>>
          /\ pc' \in {"idle", "ttyGetc", "uartPutc"} /\ (pc' = "uartPutc" => uart.init) /\ pc # "uartDrain"
      BY <1>1 DEF UartPutcCall, UartGetc, TtyGetcCall, TtyGetc
    <2>2. QED
      BY <2>1 DEF TxBusy, UartDrained, SymbolFits, UartDrain
  <1>2. CASE UartPutc
    <2>1. /\ DOMAIN uart' = d /\ uart'.fifo = uart.fifo + 1
          /\ UNCHANGED <<uart.init, uart.baud, uart.div, uart.left, uart.waited>>
          /\ pc = "uartPutc" /\ pc' = "idle"
      BY <1>2 DEF UartPutc
    <2>2. QED
      BY <1>2, <2>1 DEF TxBusy, UartDrained, SymbolFits, UartDrain
  <1>3. CASE UartPre
    <2>1. /\ DOMAIN uart' = d /\ uart'.txcnt = {0} /\ uart'.waited = 0
          /\ UNCHANGED <<uart.init, uart.baud, uart.div, uart.left, uart.fifo>>
          /\ pc = "uartPre" /\ pc' = "uartWait"
      BY <1>3 DEF UartPre
    <2>2. QED
      BY <2>1 DEF TxBusy, UartDrained, SymbolFits, UartDrain
  <1>4. CASE UartWait
    <2>1. uart' = uart /\ pc = "uartWait" /\ pc' = "uartDrain" /\ uart.fifo < Level(uart.txcnt)
      BY <1>4 DEF UartWait, TxwmPending
    <2>2. Level({0}) = 1
      BY DEF Level
    <2>3. uart.fifo = 0 /\ uart.left + 0 <= SymbolBits
      BY <2>1, <2>2
    <2>4. QED
      BY <2>1, <2>3 DEF TxBusy, UartDrained, SymbolFits, UartDrain
  <1>5. CASE UartDrain
    <2>1. CASE BitsLeftToWait
      <3>1. /\ DOMAIN uart' = d /\ uart'.waited = uart.waited + 1
            /\ uart'.left = IF uart.left = 0 THEN 0 ELSE uart.left - 1
            /\ UNCHANGED <<uart.init, uart.baud, uart.div, uart.fifo, pc>> /\ pc = "uartDrain"
        BY <1>5, <2>1 DEF UartDrain
      <3>2. uart'.left \in 0..SymbolBits /\ (uart'.left = 0 \/ uart'.left + uart'.waited <= SymbolBits)
        BY <3>1
      <3>3. QED
        BY <3>1, <3>2 DEF TxBusy, UartDrained, SymbolFits, UartPutc
    <2>2. CASE ~BitsLeftToWait
      <3>1. uart' = uart /\ pc = "uartDrain" /\ pc' = "preNext"
        BY <1>5, <2>2 DEF UartDrain
      <3>2. uart.init /\ SymbolFits => uart.waited >= SymbolBits
        BY <2>2, <3>1, LongEnough
      <3>3. uart.fifo = 0 /\ (SymbolFits => uart.left = 0)
        BY <3>1, <3>2 DEF TxBusy
      <3>4. QED
        BY <3>1, <3>3 DEF TxBusy, UartDrained, SymbolFits, UartPutc
    <2>3. QED
      BY <2>1, <2>2
  <1>6. QED
    BY <1>1, <1>2, <1>3, <1>4, <1>5

LEMMA UartHardwareStep ==
    ASSUME UartOK, UartHardware
    PROVE  UartOK' /\ UNCHANGED <<uart.init, uart.baud, uart.div>> /\ (UartDrained => UartDrained')
  <1> USE UartAssumption DEF UartOK
  <1> DEFINE d == {"init", "baud", "div", "txen", "txcnt", "rxcnt", "ie", "fifo", "left", "rx", "waited"}
  <1>1. pc' = pc /\ rate' = rate
    BY DEF UartHardware, clockVars
  <1>2. CASE UartLoad
    <2>1. /\ DOMAIN uart' = d /\ uart'.fifo = uart.fifo - 1 /\ uart'.left = SymbolBits
          /\ UNCHANGED <<uart.init, uart.baud, uart.div, uart.waited, uart.txcnt>>
          /\ uart.fifo > 0
      BY <1>2 DEF UartLoad
    <2>2. QED
      BY <1>1, <2>1 DEF TxBusy, UartDrained, SymbolFits
  <1>3. CASE UartBit
    <2>1. /\ DOMAIN uart' = d /\ uart'.left = uart.left - 1
          /\ UNCHANGED <<uart.init, uart.baud, uart.div, uart.waited, uart.txcnt, uart.fifo>>
          /\ uart.left > 0
      BY <1>3 DEF UartBit
    <2>2. QED
      BY <1>1, <2>1 DEF TxBusy, UartDrained, SymbolFits
  <1>4. CASE UartReceive
    <2>1. /\ DOMAIN uart' = d
          /\ UNCHANGED <<uart.init, uart.baud, uart.div, uart.waited, uart.txcnt, uart.fifo, uart.left>>
      BY <1>4 DEF UartReceive
    <2>2. QED
      BY <1>1, <2>1 DEF TxBusy, UartDrained, SymbolFits
  <1>5. QED
    BY <1>2, <1>3, <1>4 DEF UartHardware

LEMMA WithSpiBaudKeeps ==
    ASSUME NEW s, NEW b, DOMAIN s = DOMAIN spi, SpiTypeOK
    PROVE  /\ DOMAIN WithSpiBaud(s, b) = DOMAIN s /\ WithSpiBaud(s, b).init = s.init
           /\ WithSpiBaud(s, b).baud = b
           /\ WithSpiBaud(s, b).tx = s.tx /\ WithSpiBaud(s, b).txmark = s.txmark
           /\ ~(SpiDivider(b) > SckDivMax) => WithSpiBaud(s, b).div = SpiDivider(b) % (SckDivMax + 1)
  <1>1. CASE SpiDivider(b) > SckDivMax
    BY <1>1 DEF WithSpiBaud, SpiTypeOK
  <1>2. CASE ~(SpiDivider(b) > SckDivMax)
    BY <1>2 DEF WithSpiBaud, SpiTypeOK
  <1>3. QED
    BY <1>1, <1>2

LEMMA SpiDividerFits ==
    ASSUME NEW b \in SpiBauds, rate \in Rates, SpiDivider(b) \in 0..SckDivMax
    PROVE  ~(SpiDivider(b) > SckDivMax) /\ (SpiDivider(b) % (SckDivMax + 1)) + 1 = rate \div (2 * b)
  <1>1. \A x, m \in Nat : x <= m => x % (m + 1) = x
    OBVIOUS
  <1>2. rate \div (2 * b) \in Int
    <2>1. rate \in Nat /\ 2 * b \in Nat \ {0}
      BY ClockAssumption, SpiAssumption
    <2> DEFINE c == 2 * b
    <2> HIDE DEF c
    <2>2. rate \div c \in Int
      BY <2>1 DEF c
    <2>3. QED
      BY <2>2 DEF c
  <1> DEFINE q == rate \div (2 * b)
  <1>3. SpiDivider(b) = q - 1
    BY DEF SpiDivider
  <1> HIDE DEF q
  <1>4. SckDivMax \in Nat /\ q \in Int
    BY <1>2, SpiAssumption DEF q
  <1>5. (q - 1) % (SckDivMax + 1) = q - 1
    BY <1>1, <1>3, <1>4
  <1>6. QED
    BY <1>3, <1>4, <1>5 DEF q

LEMMA SpiSettingsOK ==
    ASSUME SpiIInv, SpiOK, rate \in Rates,
           \/ \E b \in SpiBauds : SpiInit(b)
           \/ pc = "idle" /\ spi.init /\ \E b \in SpiBauds : SpiSetBaud(b)
           \/ SpiPost
    PROVE  /\ SpiOK' /\ spi'.tx = spi.tx
           /\ spi.init => spi'.init
           /\ spi'.init /\ SpiDivider(spi'.baud) \in 0..SckDivMax =>
                  spi'.div + 1 = rate \div (2 * spi'.baud)
  <1> USE DEF SpiOK
  <1>1. SpiTypeOK
    BY DEF SpiIInv
  <1>2. PICK b : /\ spi' = WithSpiBaud(spi, b) \/ spi' = [WithSpiBaud(spi, b) EXCEPT !.init = TRUE]
                 /\ spi'.init => b \in SpiBauds
    <2>1. CASE \E b \in SpiBauds : SpiInit(b)
      BY <2>1 DEF SpiInit
    <2>2. CASE pc = "idle" /\ spi.init /\ \E b \in SpiBauds : SpiSetBaud(b)
      BY <2>2 DEF SpiSetBaud
    <2>3. CASE SpiPost
      <3>1. spi' = WithSpiBaud(spi, spi.baud)
        BY <2>3 DEF SpiPost
      <3>2. spi'.init = spi.init
        BY <1>1, <3>1, WithSpiBaudKeeps
      <3>3. QED
        BY <3>1, <3>2
    <2>4. QED
      BY <2>1, <2>2, <2>3
  <1> DEFINE new == WithSpiBaud(spi, b)
  <1>3. /\ DOMAIN new = DOMAIN spi /\ new.init = spi.init /\ new.baud = b /\ new.tx = spi.tx
        /\ ~(SpiDivider(b) > SckDivMax) => new.div = SpiDivider(b) % (SckDivMax + 1)
    BY <1>1, WithSpiBaudKeeps
  <1> HIDE DEF new
  <1>4. /\ spi'.baud = b /\ spi'.tx = spi.tx /\ spi'.div = new.div
        /\ spi'.init = spi.init \/ spi'.init = TRUE
    BY <1>1, <1>2, <1>3 DEF new, SpiTypeOK
  <1>5. pc \in {"idle", "spiPost"} /\ pc' \in {"idle", "postNext"} /\ (spi'.init \/ spi' = new)
    BY <1>1, <1>2, <1>3 DEF SpiInit, SpiSetBaud, SpiPost, new, SpiTypeOK
  <1>6. SpiOK'
    BY <1>2, <1>3, <1>4, <1>5 DEF InTransfer
  <1>7. ASSUME spi'.init, SpiDivider(b) \in 0..SckDivMax
        PROVE  spi'.div + 1 = rate \div (2 * b)
    BY <1>2, <1>3, <1>4, <1>7, SpiDividerFits
  <1>8. QED
    BY <1>4, <1>6, <1>7

LEMMA SpiOtherOK ==
    ASSUME SpiIInv, SpiOK, \/ pc = "idle" /\ spi.init /\ \E c \in Configs : SpiTransferCall(c)
                           \/ SpiSend \/ SpiAnswer \/ SpiTimeout \/ SpiPre \/ SpiWait \/ SpiHardware
    PROVE  /\ SpiOK' /\ UNCHANGED <<spi.init, spi.baud, spi.div>>
           /\ ~SpiSend => (spi.tx = <<>> => spi'.tx = <<>>)
           /\ SpiWait => spi'.tx = <<>>
  <1> USE DEF SpiOK, InTransfer
  <1>1. SpiTypeOK
    BY DEF SpiIInv
  <1>2. CASE (pc = "idle" /\ spi.init /\ \E c \in Configs : SpiTransferCall(c)) \/ SpiAnswer \/ SpiTimeout \/ SpiPre
    <2>1. UNCHANGED <<spi.init, spi.baud, spi.div, spi.tx>> /\ (SpiPre => spi'.txmark = 1)
      BY <1>1, <1>2 DEF SpiTransferCall, SpiAnswer, SpiTimeout, SpiPre, SpiTypeOK
    <2>2. /\ SpiPre => pc' = "spiWait"
          /\ ~SpiPre => pc' \in {"idle", "spiSend"} /\ spi.init
          /\ pc # "spiWait"
      BY <1>2 DEF SpiTransferCall, SpiAnswer, SpiTimeout, SpiPre
    <2>3. QED
      BY <1>2, <2>1, <2>2 DEF SpiWait
  <1>3. CASE SpiSend
    <2>1. UNCHANGED <<spi.init, spi.baud, spi.div>>
      BY <1>1, <1>3 DEF SpiSend, SpiTypeOK
    <2>2. pc = "spiSend" /\ pc' \in {"idle", "spiAnswer"}
      BY <1>3 DEF SpiSend
    <2>3. QED
      BY <1>3, <2>1, <2>2 DEF SpiWait
  <1>4. CASE SpiWait
    <2>1. spi' = spi /\ pc = "spiWait" /\ pc' = "preNext" /\ Len(spi.tx) < spi.txmark
      BY <1>4 DEF SpiWait
    <2>2. Len(spi.tx) \in Nat /\ spi.txmark = 1
      BY <1>1, <2>1 DEF SpiTypeOK
    <2>3. spi.tx = <<>>
      <3>1. \A n \in Nat : n < 1 => n = 0
        OBVIOUS
      <3>2. Len(spi.tx) = 0
        BY <2>1, <2>2, <3>1
      <3>3. QED
        BY <1>1, <3>2 DEF SpiTypeOK
    <2>4. QED
      BY <2>1, <2>3
  <1>5. CASE SpiHardware
    <2>1. pc' = pc
      BY <1>5 DEF SpiHardware
    <2>2. UNCHANGED <<spi.init, spi.baud, spi.div, spi.txmark>> /\ (spi.tx = <<>> => spi'.tx = <<>>)
      BY <1>1, <1>5 DEF SpiHardware, SpiLoad, SpiShifted, SpiTypeOK
    <2>3. SpiWait => FALSE
      BY <2>1 DEF SpiWait
    <2>4. QED
      BY <2>1, <2>2, <2>3
  <1>6. QED
    BY <1>2, <1>3, <1>4, <1>5

\* I2C.
I2cFields == {"init", "baud", "prescale", "en", "tip", "cmd", "nack", "bus", "req", "dir", "i", "ret",
              "refused", "calls"}
I2cCallLabels == {"i2cAddress", "i2cAddressed", "i2cByte", "i2cDone"}

LEMMA WithI2cBaudKeeps ==
    ASSUME NEW s, NEW b, DOMAIN s = I2cFields
    PROVE  /\ DOMAIN WithI2cBaud(s, b) = I2cFields /\ WithI2cBaud(s, b).init = s.init
           /\ WithI2cBaud(s, b).tip = s.tip /\ WithI2cBaud(s, b).cmd = s.cmd
           /\ IF Prescales(b) THEN WithI2cBaud(s, b).baud = b /\ WithI2cBaud(s, b).prescale = Prescaler(b)
                              ELSE WithI2cBaud(s, b) = s
  BY DEF WithI2cBaud, I2cFields

LEMMA I2cSettingsOK ==
    ASSUME I2cOK, \/ \E b \in I2cBauds : I2cInit(b) \/ I2cSetBaud(b)
                  \/ I2cPost
    PROVE  /\ I2cOK' /\ UNCHANGED <<i2c.tip, i2c.cmd>>
           /\ i2c.init => i2c'.init
           /\ (i2c.init /\ Prescales(i2c.baud) => i2c.prescale = Prescaler(i2c.baud)) =>
                  (i2c'.init /\ Prescales(i2c'.baud) => i2c'.prescale = Prescaler(i2c'.baud))
           /\ I2cPost => (i2c'.init /\ Prescales(i2c'.baud) => i2c'.prescale = Prescaler(i2c'.baud))
           /\ I2cPost => i2c'.init = i2c.init
  <1>1. DOMAIN i2c = I2cFields
    BY DEF I2cOK, I2cFields
  <1>2. CASE \E b \in I2cBauds : I2cInit(b)
    <2>1. PICK b \in I2cBauds : I2cInit(b)
      BY <1>2
    <2> DEFINE new == WithI2cBaud(i2c, b)
               on == i2c.init \/ Prescales(b)
    <2>2. /\ DOMAIN new = I2cFields /\ new.init = i2c.init /\ new.tip = i2c.tip /\ new.cmd = i2c.cmd
          /\ IF Prescales(b) THEN new.baud = b /\ new.prescale = Prescaler(b) ELSE new = i2c
      BY <1>1, WithI2cBaudKeeps
    <2>3. i2c' = [new EXCEPT !.init = new.init \/ Prescales(b), !.calls = new.calls + 1]
      BY <2>1 DEF I2cInit
    <2> HIDE DEF new
    <2>4. i2c' = [new EXCEPT !.init = on, !.calls = new.calls + 1]
      BY <2>2, <2>3
    <2>5. on \in BOOLEAN /\ (i2c.init => on) /\ (on => i2c.init \/ Prescales(b))
      BY DEF I2cOK
    <2> HIDE DEF on
    <2>6. /\ DOMAIN i2c' = I2cFields /\ i2c'.init = on /\ i2c'.tip = new.tip /\ i2c'.cmd = new.cmd
          /\ i2c'.baud = new.baud /\ i2c'.prescale = new.prescale
      BY <2>2, <2>4 DEF I2cFields
    <2>7. pc = "idle" /\ pc' = "idle"
      BY <2>1 DEF I2cInit
    <2>8. I2cOK'
      BY <2>2, <2>5, <2>6, <2>7 DEF I2cOK, I2cFields
    <2>9. ~I2cPost
      BY <2>7 DEF I2cPost
    <2>10. (i2c.init /\ Prescales(i2c.baud) => i2c.prescale = Prescaler(i2c.baud)) =>
               (i2c'.init /\ Prescales(i2c'.baud) => i2c'.prescale = Prescaler(i2c'.baud))
      <3>1. CASE Prescales(b)
        BY <2>2, <2>6, <3>1
      <3>2. CASE ~Prescales(b)
        BY <2>2, <2>5, <2>6, <3>2
      <3>3. QED
        BY <3>1, <3>2
    <2>11. QED
      BY <2>2, <2>5, <2>6, <2>8, <2>9, <2>10
  <1>3. CASE \E b \in I2cBauds : I2cSetBaud(b)
    <2>1. PICK b \in I2cBauds : I2cSetBaud(b)
      BY <1>3
    <2> DEFINE new == WithI2cBaud(i2c, b)
    <2>2. /\ DOMAIN new = I2cFields /\ new.init = i2c.init /\ new.tip = i2c.tip /\ new.cmd = i2c.cmd
          /\ IF Prescales(b) THEN new.baud = b /\ new.prescale = Prescaler(b) ELSE new = i2c
      BY <1>1, WithI2cBaudKeeps
    <2>3. i2c' = [new EXCEPT !.calls = new.calls + 1]
      BY <2>1 DEF I2cSetBaud
    <2> HIDE DEF new
    <2>4. /\ DOMAIN i2c' = I2cFields /\ i2c'.init = new.init /\ i2c'.tip = new.tip /\ i2c'.cmd = new.cmd
          /\ i2c'.baud = new.baud /\ i2c'.prescale = new.prescale
      BY <2>2, <2>3 DEF I2cFields
    <2>5. pc = "idle" /\ pc' = "idle"
      BY <2>1 DEF I2cSetBaud
    <2>6. I2cOK' /\ ~I2cPost
      BY <2>2, <2>4, <2>5 DEF I2cOK, I2cFields, I2cPost
    <2>7. QED
      BY <2>2, <2>4, <2>6
  <1>4. CASE I2cPost
    <2> DEFINE new == WithI2cBaud(i2c, i2c.baud)
    <2>1. /\ DOMAIN new = I2cFields /\ new.init = i2c.init /\ new.tip = i2c.tip /\ new.cmd = i2c.cmd
          /\ IF Prescales(i2c.baud) THEN new.baud = i2c.baud /\ new.prescale = Prescaler(i2c.baud)
                                    ELSE new = i2c
      BY <1>1, WithI2cBaudKeeps
    <2>2. i2c' = new /\ pc = "i2cPost" /\ pc' = "postNext"
      BY <1>4 DEF I2cPost
    <2> HIDE DEF new
    <2>3. I2cOK'
      BY <2>1, <2>2 DEF I2cOK, I2cFields
    <2>4. QED
      BY <2>1, <2>2, <2>3
  <1>5. QED
    BY <1>2, <1>3, <1>4

LEMMA I2cOtherOK ==
    ASSUME I2cOK, \/ \E q \in Requests : I2cCall(q)
                  \/ I2cAddress \/ I2cAddressed \/ I2cByte \/ I2cDone \/ I2cTimeout \/ I2cPre \/ I2cComplete
    PROVE  /\ I2cOK' /\ UNCHANGED <<i2c.init, i2c.baud, i2c.prescale>>
           /\ I2cComplete \/ I2cPre => (~i2c.tip => ~i2c'.tip)
           /\ I2cPre => ~i2c'.tip
           /\ i2c'.cmd # i2c.cmd \/ (i2c'.tip /\ ~i2c.tip) => ~i2c.tip
  <1> USE DEF I2cOK
  <1>1. DOMAIN i2c = I2cFields
    BY DEF I2cFields
  <1>2. CASE \E q \in Requests : I2cCall(q)
    <2>1. DOMAIN i2c' = I2cFields /\ UNCHANGED <<i2c.init, i2c.baud, i2c.prescale, i2c.tip, i2c.cmd>>
      BY <1>1, <1>2 DEF I2cCall, I2cFields
    <2>2. pc = "idle" /\ (pc' = "idle" \/ (pc' = "i2cAddress" /\ i2c.init))
      BY <1>2 DEF I2cCall
    <2>3. QED
      BY <2>1, <2>2 DEF I2cFields, I2cPre, I2cComplete
  <1>3. CASE I2cAddress
    <2>1. /\ DOMAIN i2c' = I2cFields /\ UNCHANGED <<i2c.init, i2c.baud, i2c.prescale>> /\ i2c'.tip = TRUE
          /\ pc = "i2cAddress" /\ pc' = "i2cAddressed" /\ ~i2c.tip
      BY <1>1, <1>3 DEF I2cAddress, Issue, I2cFields
    <2>2. QED
      BY <2>1 DEF I2cFields, I2cPre, I2cComplete
  <1>4. CASE I2cAddressed
    <2>1. /\ DOMAIN i2c' = I2cFields /\ UNCHANGED <<i2c.init, i2c.baud, i2c.prescale, i2c.tip, i2c.cmd>>
          /\ pc = "i2cAddressed" /\ pc' \in {"idle", "i2cByte"} /\ ~i2c.tip
      BY <1>1, <1>4 DEF I2cAddressed, I2cFields
    <2>2. QED
      BY <2>1 DEF I2cFields, I2cPre, I2cComplete
  <1>5. \A s : DOMAIN s = I2cFields /\ Finished(s) =>
            /\ DOMAIN i2c' = I2cFields /\ i2c'.init = s.init /\ i2c'.baud = s.baud
            /\ i2c'.prescale = s.prescale /\ i2c'.tip = s.tip /\ i2c'.cmd = s.cmd
            /\ pc' \in {"idle", "i2cAddress"}
    BY DEF Finished, I2cFields
  <1>6. CASE I2cByte
    <2>1. CASE i2c.i < Length
      <3>1. /\ DOMAIN i2c' = I2cFields /\ UNCHANGED <<i2c.init, i2c.baud, i2c.prescale>> /\ i2c'.tip = TRUE
            /\ pc = "i2cByte" /\ pc' = "i2cDone"
        BY <1>1, <1>6, <2>1 DEF I2cByte, Issue, I2cFields
      <3>2. QED
        BY <3>1 DEF I2cFields, I2cPre, I2cComplete
    <2>2. CASE ~(i2c.i < Length)
      <3>1. Finished(i2c) /\ pc = "i2cByte"
        BY <1>6, <2>2 DEF I2cByte
      <3>2. QED
        BY <1>1, <1>5, <3>1 DEF I2cFields, I2cPre, I2cComplete
    <2>3. QED
      BY <2>1, <2>2
  <1>7. CASE I2cDone
    <2>1. pc = "i2cDone" /\ ~i2c.tip
      BY <1>7 DEF I2cDone
    <2>2. CASE i2c.dir = "write" /\ i2c.nack
      <3> DEFINE s == [i2c EXCEPT !.ret = -1, !.refused = TRUE]
      <3>1. Finished(s)
        BY <1>7, <2>2 DEF I2cDone
      <3>2. /\ DOMAIN s = I2cFields /\ s.init = i2c.init /\ s.baud = i2c.baud /\ s.prescale = i2c.prescale
            /\ s.tip = i2c.tip /\ s.cmd = i2c.cmd
        BY <1>1 DEF I2cFields
      <3> HIDE DEF s
      <3>3. QED
        BY <1>5, <2>1, <3>1, <3>2 DEF I2cFields, I2cPre, I2cComplete
    <2>3. CASE ~(i2c.dir = "write" /\ i2c.nack)
      <3>1. i2c' = [i2c EXCEPT !.i = @ + 1] /\ pc' = "i2cByte"
        BY <1>7, <2>3 DEF I2cDone
      <3>2. DOMAIN i2c' = I2cFields /\ UNCHANGED <<i2c.init, i2c.baud, i2c.prescale, i2c.tip, i2c.cmd>>
        BY <1>1, <3>1 DEF I2cFields
      <3>3. QED
        BY <2>1, <3>1, <3>2 DEF I2cFields, I2cPre, I2cComplete
    <2>4. QED
      BY <2>2, <2>3
  <1>8. CASE I2cTimeout
    <2>1. /\ DOMAIN i2c' = I2cFields /\ UNCHANGED <<i2c.init, i2c.baud, i2c.prescale, i2c.tip, i2c.cmd>>
          /\ pc' = "idle" /\ pc \in I2cCallLabels
      BY <1>1, <1>8 DEF I2cTimeout, I2cFields, I2cCallLabels
    <2>2. QED
      BY <2>1 DEF I2cFields, I2cPre, I2cComplete, I2cCallLabels
  <1>9. CASE I2cPre
    <2>1. i2c' = i2c /\ pc = "i2cPre" /\ pc' = "preNext" /\ ~i2c.tip
      BY <1>9 DEF I2cPre
    <2>2. QED
      BY <2>1
  <1>10. CASE I2cComplete
    <2>1. /\ DOMAIN i2c' = I2cFields /\ UNCHANGED <<i2c.init, i2c.baud, i2c.prescale, i2c.cmd>>
          /\ i2c'.tip = FALSE /\ i2c.tip /\ pc' = pc
      BY <1>1, <1>10 DEF I2cComplete, I2cFields
    <2>2. QED
      BY <2>1 DEF I2cFields, I2cPre
  <1>11. QED
    BY <1>2, <1>3, <1>4, <1>6, <1>7, <1>8, <1>9, <1>10

\* PWM.
PwmFields == {"enabled", "freq", "count", "duty", "cmp0", "cmp", "scale", "cfg", "center", "ip"}

LEMMA WithFreqKeeps ==
    ASSUME NEW regs, NEW f, DOMAIN regs = PwmFields
    PROVE  DOMAIN WithFreq(regs, f) = PwmFields
  <1>1. \A a, b, c, d, e : DOMAIN [[[[regs EXCEPT !.freq = a] EXCEPT !.count = b] EXCEPT !.cmp0 = c] EXCEPT
                                       !.scale = d] = PwmFields
    OBVIOUS
  <1>2. QED
    BY <1>1 DEF WithFreq

\* The calls that register nothing take a frequency away, if anything.
LEMMA PwmCallsOK ==
    ASSUME PwmOK, PwmCalls
    PROVE  /\ PwmOK' /\ pc = "idle" /\ pc' = "idle"
           /\ \/ UNCHANGED <<pre, post>> /\ (pwm'.freq # 0 => pwm.freq # 0)
              \/ Appends(pre, "pwm") /\ Appends(post, "pwm") /\ RegisterBoth("pwm")
  <1> USE DEF PwmOK
  <1> DEFINE Plain == UNCHANGED <<pre, post>> /\ (pwm'.freq # 0 => pwm.freq # 0)
  <1>1. pc = "idle"
    BY DEF PwmCalls
  <1>2. CASE \E f \in PwmFreqs : PwmSetFreq(f)
    <2>1. PICK f \in PwmFreqs : PwmSetFreq(f)
      BY <1>2
    <2>2. pwm' = WithFreq(pwm, f) /\ pc' = pc
      BY <2>1 DEF PwmSetFreq
    <2>3. \/ Appends(pre, "pwm") /\ Appends(post, "pwm") /\ RegisterBoth("pwm")
          \/ UNCHANGED <<pre, post>> /\ pwm.freq # 0
      BY <2>1 DEF PwmSetFreq
    <2>4. DOMAIN pwm' = PwmFields
      BY <2>2, WithFreqKeeps DEF PwmFields
    <2>5. QED
      BY <1>1, <2>2, <2>3, <2>4 DEF PwmFields
  <1>3. CASE PwmEnable \/ PwmDisable \/ (\E m \in {"continuous", "one_shot"} : PwmTrigger(m)) \/ PwmStop
    <2>1. PwmOK' /\ pc' = pc /\ Plain
      BY <1>3 DEF PwmEnable, PwmDisable, PwmTrigger, PwmStop, Stopped
    <2>2. QED
      BY <1>1, <2>1
  <1>4. CASE \/ \E c \in Channels, d \in PwmDuties, b \in BOOLEAN : PwmSetDuty(c, d, b)
             \/ \E b \in BOOLEAN : PwmCfgInterrupt(b)
             \/ \E c \in Channels \cup {0} : PwmClrInterrupt(c)
    <2>1. PwmOK' /\ pc' = pc /\ Plain
      BY <1>4 DEF PwmSetDuty, PwmCfgInterrupt, PwmClrInterrupt
    <2>2. QED
      BY <1>1, <2>1
  <1>5. QED
    BY <1>2, <1>3, <1>4 DEF PwmCalls

LEMMA PwmOtherOK ==
    ASSUME PwmOK, PwmPre \/ PwmPost \/ PwmHardware
    PROVE  /\ PwmOK' /\ (pwm'.freq # 0 => pwm.freq # 0)
           /\ PwmPre => "enalways" \notin pwm'.cfg
           /\ ~PwmPost => ("enalways" \notin pwm.cfg => "enalways" \notin pwm'.cfg)
  <1> USE DEF PwmOK
  <1>1. CASE PwmPre
    <2>1. pwm' = [pwm EXCEPT !.cfg = pwm.cfg \ {"enalways"}] /\ pc = "pwmPre"
      BY <1>1 DEF PwmPre, Stopped
    <2>2. QED
      BY <2>1 DEF PwmPost
  <1>2. CASE PwmPost
    <2> DEFINE regs == WithFreq(pwm, pwm.freq)
    <2>1. DOMAIN regs = PwmFields
      BY WithFreqKeeps DEF PwmFields
    <2>2. pwm.freq = 0 => pwm' = pwm
      BY <1>2 DEF PwmPost
    <2>3. pwm.freq # 0 => \E cmp : pwm' = [regs EXCEPT !.cmp = cmp]
      BY <1>2 DEF PwmPost
    <2> HIDE DEF regs
    <2>4. PwmOK'
      BY <2>1, <2>2, <2>3 DEF PwmFields
    <2>5. pc = "pwmPost"
      BY <1>2 DEF PwmPost
    <2>6. QED
      BY <1>2, <2>2, <2>4, <2>5 DEF PwmPre
  <1>3. CASE PwmHardware
    <2>1. pc' = pc
      BY <1>3 DEF PwmHardware
    <2>2. /\ PwmOK' /\ pwm'.freq = pwm.freq
          /\ pwm'.cfg = pwm.cfg \/ pwm'.cfg = pwm.cfg \ {"enoneshot"}
      BY <1>3 DEF PwmHardware
    <2>3. ~PwmPre
      BY <2>1 DEF PwmPre
    <2>4. QED
      BY <2>2, <2>3
  <1>4. QED
    BY <1>1, <1>2, <1>3

\* What a step of a driver or of its controller does to the traversal.
PreOf == [uart |-> {"uartPre", "uartWait", "uartDrain"}, spi |-> {"spiPre", "spiWait"}, i2c |-> {"i2cPre"},
          pwm |-> {"pwmPre"}]
PostOf == [uart |-> {"uartPost"}, spi |-> {"spiPost"}, i2c |-> {"i2cPost"}, pwm |-> {"pwmPost"}]

Runs(d) == \/ pc' = pc
           \/ {pc, pc'} \cap (PreLabels \cup PostLabels) = {}
           \/ pc \in PreOf[d] /\ pc' \in PreOf[d] \cup {"preNext"}
           \/ pc \in PostOf[d] /\ pc' = "postNext"

Appended(d) == /\ Appends(pre, d) /\ Appends(post, d) /\ RegisterBoth(d)
               /\ \/ pc = "idle" /\ pc' = "idle"
                  \/ d = "i2c" /\ pc = "i2cPost" /\ pc' = "postNext"

Effect(d) == /\ UNCHANGED <<rate, target, cursor>>
             /\ Runs(d)
             /\ Follows(d) => Follows(d)'
             /\ pc \in PreLabels /\ Quiet(d) => Quiet(d)'
             /\ pc # "preNext" /\ pc' = "preNext" => Quiet(d)'
             /\ pc # "postNext" /\ pc' = "postNext" => Follows(d)'
             /\ \/ UNCHANGED <<pre, post>> /\ (d \in Registered' => d \in Registered)
                \/ Appended(d)

LEMMA UartEffect ==
    ASSUME UartOK, rate \in Rates, pc \notin PostLabels => Follows("uart"),
           UartStep \/ UartThread \/ UartHardware
    PROVE  UartOK' /\ Effect("uart")
  <1> DEFINE Divides == uart.init => uart.div + 1 = rate \div uart.baud
  <1>1. (Follows("uart") <=> Divides) /\ (Follows("uart")' <=> Divides')
    BY DEF Follows
  <1>2. (Quiet("uart") <=> UartDrained) /\ (Quiet("uart")' <=> UartDrained')
    BY DEF Quiet
  <1>3. ("uart" \in Registered <=> uart.init) /\ ("uart" \in Registered' <=> uart'.init)
    BY DEF Registered, Drivers
  <1>4. CASE \E b \in Bauds : UartInit(b)
    <2>1. Appended("uart") /\ pc = "idle" /\ pc' = "idle" /\ UNCHANGED <<rate, target, cursor>>
      BY <1>4 DEF UartInit, Appended
    <2>2. UartOK' /\ (Divides => Divides')
      BY <1>4, <2>1, UartSettingsStep
    <2>3. QED
      BY <1>1, <2>1, <2>2 DEF Effect, Runs, PreLabels, PostLabels
  <1>5. CASE UartPost /\ UNCHANGED clockVars
    <2>1. pc = "uartPost" /\ pc' = "postNext" /\ UNCHANGED <<rate, target, cursor, pre, post>>
      BY <1>5 DEF UartPost, clockVars
    <2>2. UartOK' /\ uart'.init = uart.init
      <3>1. uart' = WithBaud(uart, uart.baud)
        BY <1>5 DEF UartPost
      <3>2. QED
        BY <1>5, <3>1, UartSettingsStep, WithBaudKeeps DEF UartOK
    <2>3. Divides'
      <3>1. uart' = WithBaud(uart, uart.baud)
        BY <1>5 DEF UartPost
      <3>2. uart'.div = rate \div uart.baud - 1 /\ uart'.baud = uart.baud
        BY <3>1, WithBaudKeeps DEF UartOK
      <3>3. uart.init => rate \div uart.baud \in Int
        <4>1. rate \in Nat /\ (uart.init => uart.baud \in Nat \ {0})
          BY ClockAssumption, UartAssumption DEF UartOK
        <4>2. QED
          BY <4>1
      <3>4. QED
        BY <2>1, <2>2, <3>2, <3>3
    <2>4. QED
      BY <1>1, <1>3, <2>1, <2>2, <2>3 DEF Effect, Runs, PreLabels, PostLabels, PostOf
  <1>6. CASE pc = "idle" /\ uart.init /\ UartSetUps /\ UNCHANGED <<rate, target, pre, post, cursor, changes>>
    <2>1. pc' = "idle"
      BY <1>6 DEF UartSetUps, UartSetBaud, UartSetTxWatermark, UartSetRxWatermark, UartInterruptEnable,
                  UartInterruptDisable
    <2>2. UartOK' /\ (Divides => Divides')
      BY <1>6, UartSettingsStep
    <2>3. QED
      BY <1>1, <1>3, <1>6, <2>1, <2>2 DEF Effect, Runs, PreLabels, PostLabels
  <1>7. CASE /\ \/ pc = "idle" /\ uart.init /\ (UartPutcCall \/ UartGetc \/ TtyGetcCall)
                \/ UartPutc \/ TtyGetc \/ UartPre \/ UartWait \/ UartDrain
             /\ UNCHANGED <<rate, target, pre, post, cursor, changes>>
    <2>1. /\ UartOK' /\ UNCHANGED <<uart.init, uart.baud, uart.div>>
          /\ ~UartPutc => (UartDrained => UartDrained')
          /\ UartDrain /\ pc' = "preNext" => UartDrained'
      <3>1. pc = "uartDrain" /\ uart.init => uart.div + 1 = rate \div uart.baud
        BY <1>1 DEF PostLabels
      <3>2. QED
        BY <1>7, <3>1, UartOtherStep
    <2>2. (Divides => Divides') /\ (uart'.init => uart.init)
      BY <1>7, <2>1
    <2>3. /\ Runs("uart") /\ (UartPutc => pc \notin PreLabels)
          /\ pc # "preNext" /\ pc' = "preNext" => UartDrain
          /\ pc' = "postNext" => pc = "postNext"
      BY <1>7 DEF UartPutcCall, UartGetc, TtyGetcCall, UartPutc, TtyGetc, UartPre, UartWait, UartDrain, Runs,
                  PreLabels, PostLabels, PreOf
    <2>4. QED
      BY <1>1, <1>2, <1>3, <1>7, <2>1, <2>2, <2>3 DEF Effect
  <1>8. CASE UartHardware
    <2>1. UartOK' /\ UNCHANGED <<uart.init, uart.baud, uart.div>> /\ (UartDrained => UartDrained')
      BY <1>8, UartHardwareStep
    <2>2. UNCHANGED <<pc, rate, target, pre, post, cursor>>
      BY <1>8 DEF UartHardware, clockVars
    <2>3. Divides => Divides'
      BY <2>1, <2>2
    <2>4. QED
      BY <1>1, <1>2, <1>3, <2>1, <2>2, <2>3 DEF Effect, Runs
  <1>9. CASE UartStep \/ UartThread
    <2>1. CASE UartStep
      BY <1>4, <1>6, <1>7, <2>1 DEF UartStep, UartCalls
    <2>2. CASE UartThread
      BY <1>5, <1>7, <2>2 DEF UartThread, clockVars
    <2>3. QED
      BY <1>9, <2>1, <2>2
  <1>10. QED
    BY <1>8, <1>9

LEMMA SpiEffect ==
    ASSUME SpiIInv, SpiOK, rate \in Rates, SpiStep \/ SpiThread \/ SpiHardware
    PROVE  SpiOK' /\ Effect("spi")
  <1> DEFINE Divides == spi.init /\ SpiDivider(spi.baud) \in 0..SckDivMax => spi.div + 1 = rate \div (2 * spi.baud)
  <1>1. (Follows("spi") <=> Divides) /\ (Follows("spi")' <=> Divides')
    BY DEF Follows
  <1>2. (Quiet("spi") <=> spi.tx = <<>>) /\ (Quiet("spi")' <=> spi'.tx = <<>>)
    BY DEF Quiet
  <1>3. ("spi" \in Registered <=> spi.init) /\ ("spi" \in Registered' <=> spi'.init)
    BY DEF Registered, Drivers
  <1>4. CASE \/ \E b \in SpiBauds : SpiInit(b)
             \/ /\ \/ pc = "idle" /\ spi.init /\ \E b \in SpiBauds : SpiSetBaud(b)
                   \/ SpiPost
                /\ UNCHANGED <<rate, target, pre, post, cursor, changes>>
    <2>1. /\ SpiOK' /\ spi'.tx = spi.tx
          /\ spi'.init /\ SpiDivider(spi'.baud) \in 0..SckDivMax =>
                 spi'.div + 1 = rate \div (2 * spi'.baud)
      BY <1>4, SpiSettingsOK
    <2>2. UNCHANGED <<rate, target, cursor>>
      BY <1>4 DEF SpiInit
    <2>3. Divides'
      BY <2>1, <2>2 DEF SpiDivider
    <2>4. Runs("spi") /\ (pc' = "preNext" => pc = "preNext")
      BY <1>4 DEF SpiInit, SpiSetBaud, SpiPost, Runs, PreLabels, PostLabels, PostOf
    <2>5. \/ UNCHANGED <<pre, post>> /\ ("spi" \in Registered' => "spi" \in Registered)
          \/ Appended("spi")
      <3>1. CASE \E b \in SpiBauds : SpiInit(b)
        BY <3>1 DEF SpiInit, Appended
      <3>2. CASE pc = "idle" /\ spi.init /\ UNCHANGED <<pre, post>>
        BY <1>3, <3>2
      <3>3. CASE SpiPost /\ UNCHANGED <<pre, post>>
        <4>1. spi' = WithSpiBaud(spi, spi.baud)
          BY <3>3 DEF SpiPost
        <4>2. spi'.init = spi.init
          BY <4>1, WithSpiBaudKeeps DEF SpiIInv
        <4>3. QED
          BY <1>3, <3>3, <4>2
      <3>4. QED
        BY <1>4, <3>1, <3>2, <3>3
    <2>6. QED
      BY <1>1, <1>2, <2>1, <2>2, <2>3, <2>4, <2>5 DEF Effect
  <1>5. CASE /\ \/ pc = "idle" /\ spi.init /\ \E c \in Configs : SpiTransferCall(c)
                \/ SpiSend \/ SpiAnswer \/ SpiTimeout \/ SpiPre \/ SpiWait \/ SpiHardware
             /\ UNCHANGED <<rate, target, pre, post, cursor, changes>>
    <2>1. /\ SpiOK' /\ UNCHANGED <<spi.init, spi.baud, spi.div>>
          /\ ~SpiSend => (spi.tx = <<>> => spi'.tx = <<>>)
          /\ SpiWait => spi'.tx = <<>>
      BY <1>5, SpiOtherOK
    <2>2. /\ Runs("spi") /\ (SpiSend => pc \notin PreLabels)
          /\ pc # "preNext" /\ pc' = "preNext" => SpiWait
          /\ pc' = "postNext" => pc = "postNext"
      BY <1>5 DEF SpiTransferCall, SpiSend, SpiAnswer, SpiTimeout, SpiPre, SpiWait, SpiHardware, Runs,
                  PreLabels, PostLabels, PreOf
    <2>3. Divides => Divides'
      BY <1>5, <2>1 DEF SpiDivider
    <2>4. QED
      BY <1>1, <1>2, <1>3, <1>5, <2>1, <2>2, <2>3 DEF Effect
  <1>6. CASE SpiStep
    BY <1>4, <1>5, <1>6 DEF SpiStep, SpiCalls
  <1>7. CASE SpiThread \/ SpiHardware
    BY <1>4, <1>5, <1>7 DEF SpiThread, SpiHardware, clockVars
  <1>8. QED
    BY <1>6, <1>7

LEMMA I2cEffect ==
    ASSUME I2cOK, I2cStep \/ I2cThread \/ I2cComplete
    PROVE  I2cOK' /\ Effect("i2c")
  <1> DEFINE Divides == i2c.init /\ Prescales(i2c.baud) => i2c.prescale = Prescaler(i2c.baud)
  <1>1. (Follows("i2c") <=> Divides) /\ (Follows("i2c")' <=> Divides')
    BY DEF Follows
  <1>2. (Quiet("i2c") <=> ~i2c.tip) /\ (Quiet("i2c")' <=> ~i2c'.tip)
    BY DEF Quiet
  <1>3. ("i2c" \in Registered <=> i2c.init) /\ ("i2c" \in Registered' <=> i2c'.init)
    BY DEF Registered, Drivers
  <1>4. CASE (\E b \in I2cBauds : I2cInit(b) \/ I2cSetBaud(b)) \/ I2cPost
    <2>1. UNCHANGED <<rate, target, cursor>>
      BY <1>4 DEF I2cInit, I2cSetBaud, I2cPost
    <2>2. I2cOK' /\ i2c'.tip = i2c.tip
      BY <1>4, I2cSettingsOK
    <2>3. (Divides => Divides') /\ (I2cPost => Divides')
      <3>1. \A b : (Prescales(b) <=> Prescales(b)') /\ (Prescaler(b) = Prescaler(b)')
        BY <2>1 DEF Prescales, Prescaler
      <3>2. QED
        BY <1>4, <3>1, I2cSettingsOK DEF Prescales, Prescaler
    <2>4. Appended("i2c")
      BY <1>4 DEF I2cInit, I2cSetBaud, I2cPost, I2cRegisters, Appended
    <2>5. Runs("i2c") /\ (pc' = "preNext" => pc = "preNext") /\ (pc' = "postNext" => I2cPost)
      BY <1>4 DEF I2cInit, I2cSetBaud, I2cPost, Runs, PreLabels, PostLabels, PostOf
    <2>6. QED
      BY <1>1, <1>2, <2>1, <2>2, <2>3, <2>4, <2>5 DEF Effect
  <1>5. CASE /\ \/ \E q \in Requests : I2cCall(q)
                \/ I2cAddress \/ I2cAddressed \/ I2cByte \/ I2cDone \/ I2cTimeout \/ I2cPre \/ I2cComplete
             /\ UNCHANGED clockVars
    <2>1. /\ I2cOK' /\ UNCHANGED <<i2c.init, i2c.baud, i2c.prescale>>
          /\ I2cComplete \/ I2cPre => (~i2c.tip => ~i2c'.tip)
          /\ I2cPre => ~i2c'.tip
      BY <1>5, I2cOtherOK
    <2>2. /\ Runs("i2c") /\ (pc \in PreLabels => I2cComplete \/ I2cPre)
          /\ pc # "preNext" /\ pc' = "preNext" => I2cPre
          /\ pc' = "postNext" => pc = "postNext"
      BY <1>5 DEF I2cCall, I2cAddress, I2cAddressed, I2cByte, I2cDone, I2cTimeout, I2cPre, I2cComplete, Finished,
                  Runs, PreLabels, PostLabels, PreOf
    <2>3. UNCHANGED <<rate, target, cursor, pre, post>>
      BY <1>5 DEF clockVars
    <2>4. Divides => Divides'
      BY <2>1, <2>3 DEF Prescales, Prescaler
    <2>5. QED
      BY <1>1, <1>2, <1>3, <2>1, <2>2, <2>3, <2>4 DEF Effect
  <1>6. CASE I2cStep
    BY <1>4, <1>5, <1>6 DEF I2cStep, I2cCalls, I2cCall
  <1>7. CASE I2cThread \/ I2cComplete
    BY <1>4, <1>5, <1>7 DEF I2cThread, I2cPre, I2cComplete
  <1>8. QED
    BY <1>6, <1>7

LEMMA PwmEffect ==
    ASSUME PwmOK, PwmStep \/ PwmThread \/ PwmHardware
    PROVE  PwmOK' /\ Effect("pwm")
  <1>1. Follows("pwm") /\ Follows("pwm")'
    BY DEF Follows
  <1>2. (Quiet("pwm") <=> "enalways" \notin pwm.cfg) /\ (Quiet("pwm")' <=> "enalways" \notin pwm'.cfg)
    BY DEF Quiet
  <1>3. ("pwm" \in Registered <=> pwm.freq # 0) /\ ("pwm" \in Registered' <=> pwm'.freq # 0)
    BY DEF Registered, Drivers
  <1>4. CASE PwmStep
    <2>1. PwmCalls
      BY <1>4 DEF PwmStep
    <2>2. UNCHANGED <<rate, target, cursor>>
      BY <2>1 DEF PwmCalls
    <2>3. QED
      BY <1>1, <1>3, <2>1, <2>2, PwmCallsOK DEF Effect, Appended, Runs, PreLabels, PostLabels
  <1>5. CASE PwmThread \/ PwmHardware
    <2>1. /\ PwmOK' /\ (pwm'.freq # 0 => pwm.freq # 0)
          /\ PwmPre => "enalways" \notin pwm'.cfg
          /\ ~PwmPost => ("enalways" \notin pwm.cfg => "enalways" \notin pwm'.cfg)
      BY <1>5, PwmOtherOK DEF PwmThread
    <2>2. UNCHANGED <<rate, target, cursor, pre, post>>
      BY <1>5 DEF PwmThread, PwmHardware, clockVars
    <2>3. /\ Runs("pwm") /\ (PwmPost => pc \notin PreLabels)
          /\ pc # "preNext" /\ pc' = "preNext" => PwmPre
      BY <1>5 DEF PwmThread, PwmHardware, PwmPre, PwmPost, Runs, PreLabels, PostLabels, PreOf, PostOf
    <2>4. QED
      BY <1>1, <1>2, <1>3, <2>1, <2>2, <2>3 DEF Effect
  <1>6. QED
    BY <1>4, <1>5

LEMMA RunsLabels ==
    ASSUME NEW d \in Drivers, Runs(d)
    PROVE  /\ pc' \in PreLabels => pc \in PreLabels
           /\ pc' \in PostLabels <=> pc \in PostLabels
           /\ CursorOK /\ pc' \in {"preNext", "postNext"} /\ pc' # pc => cursor = d
           /\ CursorOK /\ cursor' = cursor => CursorOK'
  <1> USE DEF PreLabels, PostLabels
  <1> DEFINE PreLabel == (d = "uart" /\ pc \in {"uartPre", "uartWait", "uartDrain"}) \/ (d = "spi" /\ pc \in {"spiPre", "spiWait"})
                             \/ (d = "i2c" /\ pc = "i2cPre") \/ (d = "pwm" /\ pc = "pwmPre")
             PostLabel == (d = "uart" /\ pc = "uartPost") \/ (d = "spi" /\ pc = "spiPost")
                             \/ (d = "i2c" /\ pc = "i2cPost") \/ (d = "pwm" /\ pc = "pwmPost")
  <1>1. /\ pc \in PreOf[d] <=> PreLabel
        /\ pc' \in PreOf[d] <=> PreLabel'
        /\ pc \in PostOf[d] <=> PostLabel
    <2>1. d \in {"uart", "spi", "i2c", "pwm"}
      BY DEF Drivers
    <2>2. /\ PreOf["uart"] = {"uartPre", "uartWait", "uartDrain"} /\ PreOf["spi"] = {"spiPre", "spiWait"}
          /\ PreOf["i2c"] = {"i2cPre"} /\ PreOf["pwm"] = {"pwmPre"}
          /\ PostOf["uart"] = {"uartPost"} /\ PostOf["spi"] = {"spiPost"}
          /\ PostOf["i2c"] = {"i2cPost"} /\ PostOf["pwm"] = {"pwmPost"}
      BY DEF PreOf, PostOf
    <2>3. QED
      BY <2>1, <2>2
  <1>2. \/ pc' = pc
        \/ pc \notin PreLabels \cup PostLabels /\ pc' \notin PreLabels \cup PostLabels
        \/ PreLabel /\ (PreLabel' \/ pc' = "preNext")
        \/ PostLabel /\ pc' = "postNext"
    BY <1>1 DEF Runs
  <1>3. (pc' \in PreLabels => pc \in PreLabels) /\ (pc' \in PostLabels <=> pc \in PostLabels)
    BY <1>2
  <1>4. ASSUME CursorOK, pc' \in {"preNext", "postNext"}, pc' # pc
        PROVE  cursor = d
    BY <1>2, <1>4 DEF CursorOK
  <1>5. ASSUME CursorOK, cursor' = cursor
        PROVE  CursorOK'
    BY <1>2, <1>5 DEF CursorOK, NoCell
  <1>6. QED
    BY <1>3, <1>4, <1>5

LEMMA EffectOnClock ==
    ASSUME ClockOK, CursorOK, NEW d \in Drivers, Effect(d), Registered' \subseteq Registered \cup {d},
           UNCHANGED <<pre, post>> /\ (d \in Registered' => d \in Registered) => Registered' \subseteq Registered
    PROVE  ClockOK' /\ CursorOK'
  <1> USE DEF ClockOK
  <1>1. UNCHANGED <<rate, target, cursor>> /\ Runs(d)
    BY DEF Effect
  <1>2. CASE UNCHANGED <<pre, post>> /\ (d \in Registered' => d \in Registered)
    <2>1. Registered' \subseteq Registered
      BY <1>2
    <2>2. Holds(pre', Registered') /\ Holds(post', Registered')
      BY <1>2, <2>1 DEF Holds
    <2>3. /\ pc' \in PreLabels => pc \in PreLabels
          /\ pc' \in PostLabels => pc \in PostLabels
      BY <1>1, RunsLabels
    <2>4. ClockOK'
      BY <1>1, <1>2, <2>2, <2>3
    <2>5. QED
      BY <1>1, <2>4, RunsLabels
  <1>3. CASE Appended(d)
    <2>1. Registered \in SUBSET Drivers
      BY DEF Registered
    <2>2. Holds(pre', Registered \cup {d}) /\ Holds(post', Registered \cup {d})
      BY <1>3, <2>1, AppendHolds DEF Appended, RegisterBoth
    <2>3. Holds(pre', Registered') /\ Holds(post', Registered')
      BY <2>2 DEF Holds
    <2>4. pre' \in Lists /\ post' \in Lists
      BY <1>3, AppendMakes DEF Appended, RegisterBoth
    <2>5. pc' \notin PreLabels /\ (pc' \in PostLabels => d = "i2c" /\ pc = "i2cPost")
      BY <1>3 DEF Appended, PreLabels, PostLabels
    <2>6. ASSUME pc' \in PostLabels
          PROVE  cursor' \in Reached(post')
      <3>1. cursor = d /\ d \in Reached(post)
        BY <2>5, <2>6 DEF CursorOK, PostLabels
      <3>2. QED
        BY <1>1, <1>3, <3>1, AppendAgain DEF Appended, RegisterBoth
    <2>7. ClockOK'
      BY <1>1, <2>3, <2>4, <2>5, <2>6
    <2>8. QED
      BY <1>1, <2>7, RunsLabels
  <1>4. QED
    BY <1>2, <1>3 DEF Effect

\* The other drivers do not notice.
Others(d) == \A e \in Drivers \ {d} : (Quiet(e) => Quiet(e)') /\ (Follows(e) => Follows(e)')

LEMMA EffectOnPreWalk ==
    ASSUME ClockOK, CursorOK, PreWalk, NEW d \in Drivers, Effect(d), Others(d)
    PROVE  PreWalk'
  <1>1. UNCHANGED <<rate, target, cursor>> /\ Runs(d)
    BY DEF Effect
  <1>2. ASSUME pc' \in PreLabels
        PROVE  /\ \E done \in SUBSET Drivers : Behind(pre, done)' /\ \A e \in done : Quiet(e)'
               /\ pc' = "preNext" => \A c \in Drivers : c = cursor => Quiet(c)'
    <2>1. pc \in PreLabels
      BY <1>1, <1>2, RunsLabels
    <2>2. pre' = pre
      BY <1>2 DEF Effect, Appended, PreLabels
    <2>3. \A e \in Drivers : Quiet(e) => Quiet(e)'
      BY <2>1 DEF Effect, Others
    <2>4. PICK done \in SUBSET Drivers : Behind(pre, done) /\ \A e \in done : Quiet(e)
      BY <2>1 DEF PreWalk
    <2>5. Behind(pre, done)'
      BY <1>1, <2>2, <2>4 DEF Behind
    <2>6. \A e \in done : Quiet(e)'
      BY <2>3, <2>4
    <2>7. ASSUME pc' = "preNext", NEW c \in Drivers, c = cursor
          PROVE  Quiet(c)'
      <3>1. CASE pc = "preNext"
        BY <2>3, <2>7, <3>1 DEF PreWalk
      <3>2. CASE pc # "preNext"
        <4>1. Quiet(d)'
          BY <2>7, <3>2 DEF Effect
        <4>2. cursor = d
          BY <1>1, <2>7, <3>2, RunsLabels
        <4>3. QED
          BY <2>7, <4>1, <4>2
      <3>3. QED
        BY <3>1, <3>2
    <2>8. QED
      BY <2>5, <2>6, <2>7
  <1>3. pc' = "preNext" => cursor \in Drivers
    <2>1. pc' = "preNext" => pc \in PreLabels /\ cursor # NoCell
      BY <1>1, RunsLabels DEF CursorOK, PreLabels, PostLabels
    <2>2. QED
      BY <2>1, CellsReached DEF ClockOK
  <1>4. pc' = "preNext" => Quiet(cursor)'
    BY <1>1, <1>2, <1>3 DEF PreLabels, Quiet
  <1>5. QED
    BY <1>2, <1>4 DEF PreWalk

LEMMA EffectOnPostWalk ==
    ASSUME ClockOK, CursorOK, PostWalk, NEW d \in Drivers, Effect(d), Others(d)
    PROVE  PostWalk'
  <1>1. UNCHANGED <<rate, target, cursor>> /\ Runs(d)
    BY DEF Effect
  <1>2. \A e \in Drivers : Follows(e) => Follows(e)'
    BY DEF Effect, Others
  <1>3. ASSUME pc' \in PostLabels
        PROVE  /\ \E done \in SUBSET Drivers : Behind(post, done)' /\ \A e \in done : Follows(e)'
               /\ pc' = "postNext" => \A c \in Drivers : c = cursor => Follows(c)'
    <2>1. pc \in PostLabels
      BY <1>1, <1>3, RunsLabels
    <2>2. PICK done \in SUBSET Drivers : Behind(post, done) /\ \A e \in done : Follows(e)
      BY <2>1 DEF PostWalk
    <2>3. Behind(post, done)'
      <3>1. CASE post' = post
        BY <1>1, <2>2, <3>1 DEF Behind
      <3>2. CASE Appended(d)
        <4>1. cursor = d
          BY <1>3, <3>2 DEF Appended, PostLabels, CursorOK
        <4>2. d \in Reached(post) /\ post \in Lists /\ post' = Append1(post, d) /\ Appends(post, d)
          BY <2>1, <3>2, <4>1 DEF ClockOK, Appended, RegisterBoth
        <4>3. /\ post'.head = post.head /\ post'.next[d] = d
              /\ \A c \in Drivers \ {d} : post'.next[c] = post.next[c]
          BY <4>2, AppendAgain
        <4>4. QED
          BY <1>1, <2>2, <4>1, <4>3 DEF Behind
      <3>3. QED
        BY <3>1, <3>2 DEF Effect
    <2>4. \A e \in done : Follows(e)'
      BY <1>2, <2>2
    <2>5. ASSUME pc' = "postNext", NEW c \in Drivers, c = cursor
          PROVE  Follows(c)'
      <3>1. CASE pc = "postNext"
        BY <1>2, <2>5, <3>1 DEF PostWalk
      <3>2. CASE pc # "postNext"
        <4>1. Follows(d)'
          BY <2>5, <3>2 DEF Effect
        <4>2. cursor = d
          BY <1>1, <2>5, <3>2, RunsLabels
        <4>3. QED
          BY <2>5, <4>1, <4>2
      <3>3. QED
        BY <3>1, <3>2
    <2>6. QED
      BY <2>3, <2>4, <2>5
  <1>4. pc' = "postNext" => cursor \in Drivers
    <2>1. pc' = "postNext" => pc \in PostLabels /\ cursor # NoCell
      BY <1>1, RunsLabels DEF CursorOK, PreLabels, PostLabels
    <2>2. QED
      BY <2>1, CellsReached DEF ClockOK
  <1>5. pc' = "postNext" => Follows(cursor)'
    BY <1>1, <1>3, <1>4 DEF PostLabels, Follows
  <1>6. pc' \notin PostLabels => \A e \in Drivers : Follows(e)'
    <2>1. pc' \notin PostLabels => pc \notin PostLabels
      BY <1>1, RunsLabels
    <2>2. QED
      BY <1>2, <2>1 DEF PostWalk
  <1>7. QED
    BY <1>3, <1>5, <1>6 DEF PostWalk

\* At its end the traversal has left every driver that was registered behind.
LEMMA WalkEnds ==
    ASSUME NEW list \in Lists, Holds(list, Registered), cursor = NoCell, cursor \in Reached(list),
           NEW done \in SUBSET Drivers, Behind(list, done)
    PROVE  Registered \subseteq done
  <1>1. Ends(list)
    BY DEF Ends
  <1>2. \A c \in (done \cup {NoCell}) \ {NoCell} : list.next[c] \in done \cup {NoCell}
    BY DEF Behind
  <1>3. Reached(list) \subseteq done \cup {NoCell}
    BY <1>2, ReachedLeast DEF Behind
  <1>4. Registered \subseteq Drivers /\ NoCell \notin Drivers
    BY DEF Registered, Drivers, NoCell
  <1>5. QED
    BY <1>1, <1>3, <1>4 DEF Holds

ClockStep == (\E hz \in Rates : SetRateCall(hz)) \/ ClockThread

LEMMA ClockEffect ==
    ASSUME ClockOK, CursorOK, PreWalk, PostWalk, ClockStep, UNCHANGED <<uart, spi, i2c, pwm, used>>
    PROVE  ClockOK' /\ CursorOK' /\ PreWalk' /\ PostWalk'
  <1> USE DEF ClockOK
  <1>1. Registered' = Registered
    BY DEF Registered
  <1>2. rate' = rate => \A d \in Drivers : Quiet(d)' <=> Quiet(d)
    BY DEF Quiet, UartDrained, SymbolFits
  <1>3. rate' = rate => \A d \in Drivers : Follows(d)' <=> Follows(d)
    BY DEF Follows, SpiDivider, Prescales, Prescaler
  <1>4. CASE \E hz \in Rates : SetRateCall(hz)
    <2>1. /\ pc = "idle" /\ pc' = "pre" /\ cursor' = pre.head /\ target' \in Rates
          /\ UNCHANGED <<rate, pre, post>>
      BY <1>4 DEF SetRateCall
    <2>2. pre.head \in Reached(pre)
      BY CellsReached
    <2>3. ClockOK' /\ CursorOK'
      BY <1>1, <2>1, <2>2 DEF PreLabels, PostLabels, CursorOK, Holds
    <2>4. Behind(pre, {})'
      BY <2>1 DEF Behind
    <2>5. PreWalk'
      BY <2>1, <2>4 DEF PreWalk
    <2>6. PostWalk'
      BY <1>3, <2>1 DEF PostWalk, PostLabels
    <2>7. QED
      BY <2>3, <2>5, <2>6
  <1>5. CASE \E d \in Drivers : CallPre(d)
    <2>1. PICK d \in Drivers : CallPre(d)
      BY <1>5
    <2>2. pc = "pre" /\ cursor = d /\ UNCHANGED <<rate, target, pre, post, cursor>>
      BY <2>1 DEF CallPre, clockVars
    <2>3. \/ d = "uart" /\ pc' = "uartPre"
          \/ d = "spi" /\ pc' = "spiPre"
          \/ d = "i2c" /\ pc' = "i2cPre"
          \/ d = "pwm" /\ pc' = "pwmPre"
      BY <2>1 DEF CallPre, Drivers
    <2>4. ClockOK' /\ CursorOK'
      BY <1>1, <2>2, <2>3 DEF PreLabels, PostLabels, CursorOK, Holds
    <2>5. PICK done \in SUBSET Drivers : Behind(pre, done) /\ \A e \in done : Quiet(e)
      BY <2>2 DEF PreWalk, PreLabels
    <2>6. Behind(pre, done)' /\ \A e \in done : Quiet(e)'
      BY <1>2, <2>2, <2>5 DEF Behind
    <2>7. PreWalk'
      BY <2>3, <2>6 DEF PreWalk
    <2>8. PostWalk'
      BY <1>3, <2>2, <2>3 DEF PostWalk, PostLabels
    <2>9. QED
      BY <2>4, <2>7, <2>8
  <1>6. CASE \E d \in Drivers : CallPost(d)
    <2>1. PICK d \in Drivers : CallPost(d)
      BY <1>6
    <2>2. pc = "post" /\ cursor = d /\ UNCHANGED <<rate, target, pre, post, cursor>>
      BY <2>1 DEF CallPost, clockVars
    <2>3. \/ d = "uart" /\ pc' = "uartPost"
          \/ d = "spi" /\ pc' = "spiPost"
          \/ d = "i2c" /\ pc' = "i2cPost"
          \/ d = "pwm" /\ pc' = "pwmPost"
      BY <2>1 DEF CallPost, Drivers
    <2>4. ClockOK' /\ CursorOK'
      BY <1>1, <2>2, <2>3 DEF PreLabels, PostLabels, CursorOK, Holds
    <2>5. PICK done \in SUBSET Drivers : Behind(post, done) /\ \A e \in done : Follows(e)
      BY <2>2 DEF PostWalk, PostLabels
    <2>6. Behind(post, done)' /\ \A e \in done : Follows(e)'
      BY <1>3, <2>2, <2>5 DEF Behind
    <2>7. PostWalk'
      BY <2>3, <2>6 DEF PostWalk, PostLabels
    <2>8. PreWalk'
      BY <2>3 DEF PreWalk, PreLabels
    <2>9. QED
      BY <2>4, <2>7, <2>8
  <1>7. CASE NextCallback /\ pc = "preNext"
    <2>1. pc' = "pre" /\ cursor' = pre.next[cursor] /\ UNCHANGED <<rate, target, pre, post>>
      BY <1>7 DEF NextCallback
    <2>2. cursor \in Drivers /\ cursor \in Reached(pre) /\ pre.next[cursor] \in Reached(pre)
      BY <1>7, CellsReached DEF CursorOK, PreLabels
    <2>3. ClockOK' /\ CursorOK'
      BY <1>1, <2>1, <2>2 DEF PreLabels, PostLabels, CursorOK, Holds
    <2>4. PICK done \in SUBSET Drivers : Behind(pre, done) /\ \A e \in done : Quiet(e)
      BY <1>7 DEF PreWalk, PreLabels
    <2>5. Quiet(cursor)
      BY <1>7 DEF PreWalk
    <2> DEFINE more == done \cup {cursor}
    <2>6. /\ pre'.head \in more \cup {cursor'}
          /\ \A c \in more : pre'.next[c] \in more \cup {cursor'}
      BY <2>1, <2>4 DEF Behind
    <2>7. more \in SUBSET Drivers /\ \A e \in more : Quiet(e)'
      BY <1>2, <2>1, <2>2, <2>4, <2>5
    <2> HIDE DEF more
    <2>8. \E set \in SUBSET Drivers : Behind(pre, set)' /\ \A e \in set : Quiet(e)'
      BY <2>6, <2>7 DEF Behind
    <2>9. PreWalk'
      BY <2>1, <2>8 DEF PreWalk
    <2>10. PostWalk'
      BY <1>3, <1>7, <2>1 DEF PostWalk, PostLabels
    <2>11. QED
      BY <2>3, <2>9, <2>10
  <1>8. CASE NextCallback /\ pc = "postNext"
    <2>1. pc' = "post" /\ cursor' = post.next[cursor] /\ UNCHANGED <<rate, target, pre, post>>
      BY <1>8 DEF NextCallback
    <2>2. cursor \in Drivers /\ cursor \in Reached(post) /\ post.next[cursor] \in Reached(post)
      BY <1>8, CellsReached DEF CursorOK, PostLabels
    <2>3. ClockOK' /\ CursorOK'
      BY <1>1, <2>1, <2>2 DEF PreLabels, PostLabels, CursorOK, Holds
    <2>4. PICK done \in SUBSET Drivers : Behind(post, done) /\ \A e \in done : Follows(e)
      BY <1>8 DEF PostWalk, PostLabels
    <2>5. Follows(cursor)
      BY <1>8 DEF PostWalk
    <2> DEFINE more == done \cup {cursor}
    <2>6. /\ post'.head \in more \cup {cursor'}
          /\ \A c \in more : post'.next[c] \in more \cup {cursor'}
      BY <2>1, <2>4 DEF Behind
    <2>7. more \in SUBSET Drivers /\ \A e \in more : Follows(e)'
      BY <1>3, <2>1, <2>2, <2>4, <2>5
    <2> HIDE DEF more
    <2>8. \E set \in SUBSET Drivers : Behind(post, set)' /\ \A e \in set : Follows(e)'
      BY <2>6, <2>7 DEF Behind
    <2>9. PostWalk'
      BY <2>1, <2>8 DEF PostWalk, PostLabels
    <2>10. PreWalk'
      BY <2>1 DEF PreWalk, PreLabels
    <2>11. QED
      BY <2>3, <2>9, <2>10
  <1>9. CASE ChangeRate
    <2>1. /\ pc' = "post" /\ cursor' = post.head /\ rate' = target /\ UNCHANGED <<target, pre, post>>
      BY <1>9 DEF ChangeRate
    <2>2. post.head \in Reached(post)
      BY CellsReached
    <2>3. ClockOK' /\ CursorOK'
      BY <1>1, <2>1, <2>2 DEF PreLabels, PostLabels, CursorOK, Holds
    <2>4. Behind(post, {})'
      BY <2>1 DEF Behind
    <2>5. PostWalk'
      BY <2>1, <2>4 DEF PostWalk, PostLabels
    <2>6. PreWalk'
      BY <2>1 DEF PreWalk, PreLabels
    <2>7. QED
      BY <2>3, <2>5, <2>6
  <1>10. CASE ChangeReturn
    <2>1. pc = "post" /\ cursor = NoCell /\ pc' = "idle" /\ UNCHANGED <<rate, target, pre, post, cursor>>
      BY <1>10 DEF ChangeReturn, clockVars
    <2>2. ClockOK' /\ CursorOK' /\ PreWalk'
      BY <1>1, <2>1 DEF PreLabels, PostLabels, CursorOK, Holds, PreWalk
    <2>3. PICK done \in SUBSET Drivers : Behind(post, done) /\ \A e \in done : Follows(e)
      BY <2>1 DEF PostWalk, PostLabels
    <2>4. cursor \in Reached(post)
      BY <2>1 DEF PostLabels
    <2>5. Registered \subseteq done
      BY <2>1, <2>3, <2>4, WalkEnds
    <2>6. \A d \in Drivers : d \notin Registered => Follows(d)
      BY DEF Registered, Follows
    <2>7. \A d \in Drivers : Follows(d)'
      BY <1>3, <2>1, <2>3, <2>5, <2>6
    <2>8. PostWalk'
      BY <2>1, <2>7 DEF PostWalk, PostLabels
    <2>9. QED
      BY <2>2, <2>8
  <1>11. NextCallback => pc \in {"preNext", "postNext"}
    BY DEF NextCallback
  <1>12. QED
    BY <1>4, <1>5, <1>6, <1>7, <1>8, <1>9, <1>10, <1>11 DEF ClockStep, ClockThread

LEMMA WalkInitIInv == Init => WalkIInv
  <1> SUFFICES ASSUME Init
               PROVE WalkIInv
    OBVIOUS
  <1>1. /\ pc = "idle" /\ rate \in Rates /\ target = rate /\ pre = EmptyList /\ post = EmptyList
    BY DEF Init, ClockInit
  <1>2. SpiIInv
    BY SpiInitIInv
  <1>3. uart.init = FALSE /\ spi.init = FALSE /\ i2c.init = FALSE /\ pwm.freq = 0
    BY DEF Init, UartInitState, SpiInitState, I2cInitState, PwmInitState
  <1>4. Registered = {}
    BY <1>3 DEF Registered
  <1>5. EmptyList \in Lists
    BY DEF EmptyList, Lists
  <1>6. ClockOK
    BY <1>1, <1>4, <1>5 DEF ClockOK, Holds, PreLabels, PostLabels
  <1>7. CursorOK /\ PreWalk
    BY <1>1 DEF CursorOK, PreWalk, PreLabels
  <1>8. PostWalk
    BY <1>1, <1>3 DEF PostWalk, PostLabels, Follows
  <1>9. UartOK
    <2>1. /\ DOMAIN uart = {"init", "baud", "div", "txen", "txcnt", "rxcnt", "ie", "fifo", "left", "rx", "waited"}
          /\ uart.init = FALSE /\ uart.fifo = 0 /\ uart.left = 0 /\ uart.waited = 0
      BY DEF Init, UartInitState
    <2>2. 0 \in 0..SymbolBits /\ 0 \in Nat
      BY UartAssumption
    <2>3. ~TxBusy
      BY <2>1 DEF TxBusy
    <2>4. QED
      BY <1>1, <2>1, <2>2, <2>3 DEF UartOK
  <1>10. SpiOK
    BY <1>1 DEF Init, SpiInitState, SpiOK, InTransfer
  <1>11. I2cOK
    BY <1>1 DEF Init, I2cInitState, I2cOK
  <1>12. PwmOK
    BY DEF Init, PwmInitState, PwmOK
  <1>13. QED
    BY <1>2, <1>6, <1>7, <1>8, <1>9, <1>10, <1>11, <1>12 DEF WalkIInv

\* The drivers that a step leaves alone keep what they have.
LEMMA DriversAside ==
    ASSUME pc' = pc \/ {pc, pc'} \cap {"uartPutc", "uartWait", "uartDrain"} = {}, UartOK, uart' = uart
    PROVE  UartOK'
  BY DEF UartOK, TxBusy

LEMMA SpiOKAside ==
    ASSUME pc' = pc \/ {pc, pc'} \cap {"spiSend", "spiAnswer", "spiWait"} = {}, SpiOK, spi' = spi
    PROVE  SpiOK'
  BY DEF SpiOK, InTransfer

LEMMA I2cAside ==
    ASSUME pc' = pc \/ {pc, pc'} \cap I2cCallLabels = {}, I2cOK, i2c' = i2c
    PROVE  I2cOK'
  BY DEF I2cOK, I2cCallLabels

LEMMA PwmAside == PwmOK /\ pwm' = pwm => PwmOK'
  BY DEF PwmOK

\* What a step with an effect on one driver does to the rest.
LEMMA EffectOnWalk ==
    ASSUME ClockOK, CursorOK, PreWalk, PostWalk, NEW d \in Drivers, Effect(d),
           d # "uart" => uart' = uart, d # "spi" => spi' = spi, d # "i2c" => i2c' = i2c,
           d # "pwm" => pwm' = pwm
    PROVE  ClockOK' /\ CursorOK' /\ PreWalk' /\ PostWalk'
  <1>1. rate' = rate
    BY DEF Effect
  <1>2. Others(d)
    BY <1>1 DEF Others, Quiet, UartDrained, SymbolFits, Follows, SpiDivider, Prescales, Prescaler, Drivers
  <1>3. Registered' \subseteq Registered \cup {d}
    BY DEF Registered, Drivers
  <1>4. (d \in Registered' => d \in Registered) => Registered' \subseteq Registered
    BY <1>3
  <1>5. QED
    BY <1>2, <1>3, <1>4, EffectOnClock, EffectOnPreWalk, EffectOnPostWalk

LEMMA WalkNextIInv == WalkIInv /\ [Next]_vars => WalkIInv'
  <1> SUFFICES ASSUME WalkIInv, [Next]_vars
               PROVE WalkIInv'
    OBVIOUS
  <1>1. ClockOK /\ CursorOK /\ UartOK /\ SpiIInv /\ SpiOK /\ I2cOK /\ PwmOK /\ PreWalk /\ PostWalk /\ rate \in Rates
    BY DEF WalkIInv, ClockOK
  <1>2. SpiIInv'
    BY <1>1, SpiNextIInv
  <1>3. "uart" \in Drivers /\ "spi" \in Drivers /\ "i2c" \in Drivers /\ "pwm" \in Drivers
    BY DEF Drivers
  <1>4. CASE (UartStep \/ UartThread \/ UartHardware) /\ UNCHANGED <<spi, i2c, pwm, used>>
    <2>1. UartOK' /\ Effect("uart")
      BY <1>1, <1>3, <1>4, UartEffect DEF PostWalk
    <2>2. ClockOK' /\ CursorOK' /\ PreWalk' /\ PostWalk'
      BY <1>1, <1>3, <1>4, <2>1, EffectOnWalk
    <2>3. pc' = pc \/ UartMoves
      BY <1>4, UartPc DEF UartHardware
    <2>4. SpiOK' /\ I2cOK' /\ PwmOK'
      BY <1>1, <1>4, <2>3, SpiOKAside, I2cAside, PwmAside DEF UartMoves, UartLabels, I2cCallLabels
    <2>5. QED
      BY <1>2, <2>1, <2>2, <2>4 DEF WalkIInv
  <1>5. CASE (SpiStep \/ SpiThread \/ SpiHardware) /\ UNCHANGED <<uart, i2c, pwm, used>>
    <2>1. SpiOK' /\ Effect("spi")
      BY <1>1, <1>5, SpiEffect
    <2>2. ClockOK' /\ CursorOK' /\ PreWalk' /\ PostWalk'
      BY <1>1, <1>3, <1>5, <2>1, EffectOnWalk
    <2>3. pc' = pc \/ SpiMoves
      BY <1>5, SpiPc DEF SpiHardware
    <2>4. UartOK' /\ I2cOK' /\ PwmOK'
      BY <1>1, <1>5, <2>3, DriversAside, I2cAside, PwmAside DEF SpiMoves, SpiLabels, I2cCallLabels
    <2>5. QED
      BY <1>2, <2>1, <2>2, <2>4 DEF WalkIInv
  <1>6. CASE (I2cStep \/ I2cThread \/ I2cComplete) /\ UNCHANGED <<uart, spi, pwm, used>>
    <2>1. I2cOK' /\ Effect("i2c")
      BY <1>1, <1>6, I2cEffect
    <2>2. ClockOK' /\ CursorOK' /\ PreWalk' /\ PostWalk'
      BY <1>1, <1>3, <1>6, <2>1, EffectOnWalk
    <2>3. pc' = pc \/ I2cMoves
      BY <1>6, I2cPc DEF I2cComplete
    <2>4. UartOK' /\ SpiOK' /\ PwmOK'
      BY <1>1, <1>6, <2>3, DriversAside, SpiOKAside, PwmAside DEF I2cMoves, I2cLabels
    <2>5. QED
      BY <1>2, <2>1, <2>2, <2>4 DEF WalkIInv
  <1>7. CASE (PwmStep \/ PwmThread \/ PwmHardware) /\ UNCHANGED <<uart, spi, i2c, used>>
    <2>1. PwmOK' /\ Effect("pwm")
      BY <1>1, <1>7, PwmEffect
    <2>2. ClockOK' /\ CursorOK' /\ PreWalk' /\ PostWalk'
      BY <1>1, <1>3, <1>7, <2>1, EffectOnWalk
    <2>3. pc' = pc \/ PwmMoves
      BY <1>7, PwmPc DEF PwmHardware
    <2>4. UartOK' /\ SpiOK' /\ I2cOK'
      BY <1>1, <1>7, <2>3, DriversAside, SpiOKAside, I2cAside DEF PwmMoves, PwmLabels, I2cCallLabels
    <2>5. QED
      BY <1>2, <2>1, <2>2, <2>4 DEF WalkIInv
  <1>8. CASE ClockStep /\ UNCHANGED <<uart, spi, i2c, pwm, used>>
    <2>1. ClockOK' /\ CursorOK' /\ PreWalk' /\ PostWalk'
      BY <1>1, <1>8, ClockEffect
    <2>2. ClockMoves /\ pc \notin {"uartPutc", "uartWait", "uartDrain", "spiSend", "spiAnswer", "spiWait"}
      BY <1>8, ClockPc DEF ClockStep, ClockMoves, ClockLabels, CallbackLabels
    <2>3. UartOK' /\ SpiOK' /\ I2cOK' /\ PwmOK'
      BY <1>1, <1>8, <2>2, DriversAside, SpiOKAside, I2cAside, PwmAside
         DEF ClockMoves, ClockLabels, CallbackLabels, I2cCallLabels
    <2>4. QED
      BY <1>2, <2>1, <2>3 DEF WalkIInv
  <1>9. CASE UNCHANGED vars
    <2>1. UNCHANGED <<pc, rate, target, pre, post, cursor, uart, spi, i2c, pwm>>
      BY <1>9 DEF vars, clockVars
    <2>2. ClockOK' /\ CursorOK' /\ UartOK' /\ SpiOK' /\ I2cOK' /\ PwmOK'
      BY <1>1, <2>1 DEF ClockOK, Registered, Holds, CursorOK, UartOK, TxBusy, SpiOK, InTransfer, I2cOK, PwmOK
    <2>3. \A d : (Quiet(d) => Quiet(d)') /\ (Follows(d) => Follows(d)')
      BY <2>1 DEF Quiet, UartDrained, SymbolFits, Follows, SpiDivider, Prescales, Prescaler
    <2>4. \A done : (Behind(pre, done) => Behind(pre, done)') /\ (Behind(post, done) => Behind(post, done)')
      BY <2>1 DEF Behind
    <2>5. PreWalk'
      BY <1>1, <2>1, <2>3, <2>4 DEF PreWalk
    <2>6. PostWalk'
      BY <1>1, <2>1, <2>3, <2>4 DEF PostWalk
    <2>7. QED
      BY <1>2, <2>2, <2>5, <2>6 DEF WalkIInv
  <1>10. QED
    BY <1>4, <1>5, <1>6, <1>7, <1>8, <1>9, Steps DEF ClockStep


-----------------------------------------------------------------------------
\* What the traversal promises.

\* The rate changes at the end of the pre list and nowhere else: every driver that
\* has been registered is quiet then.
LEMMA RateChanges ==
    ASSUME WalkIInv, [Next]_vars, rate' # rate
    PROVE  pc = "pre" /\ cursor = NoCell /\ \A d \in Registered : Quiet(d)
  <1>1. ClockOK /\ CursorOK /\ UartOK /\ SpiIInv /\ SpiOK /\ I2cOK /\ PwmOK /\ PreWalk /\ rate \in Rates
    BY DEF WalkIInv, ClockOK
  <1>2. ~(UartStep \/ UartThread \/ UartHardware)
    <2>1. pc \notin PostLabels => Follows("uart")
      BY DEF WalkIInv, PostWalk, Drivers
    <2>2. QED
      BY <1>1, <2>1, UartEffect DEF Effect
  <1>3. ~(SpiStep \/ SpiThread \/ SpiHardware)
    BY <1>1, SpiEffect DEF Effect
  <1>4. ~(I2cStep \/ I2cThread \/ I2cComplete)
    BY <1>1, I2cEffect DEF Effect
  <1>5. ~(PwmStep \/ PwmThread \/ PwmHardware)
    BY <1>1, PwmEffect DEF Effect
  <1>6. ~UNCHANGED vars
    BY DEF vars, clockVars
  <1>7. (\E hz \in Rates : SetRateCall(hz)) \/ ClockThread
    BY <1>2, <1>3, <1>4, <1>5, <1>6, Steps
  <1>8. pc = "pre" /\ cursor = NoCell
    BY <1>7 DEF ClockThread, SetRateCall, CallPre, CallPost, NextCallback, ChangeRate, ChangeReturn, clockVars
  <1>9. PICK done \in SUBSET Drivers : Behind(pre, done) /\ \A d \in done : Quiet(d)
    BY <1>1, <1>8 DEF PreWalk, PreLabels
  <1>10. pre \in Lists /\ Holds(pre, Registered) /\ cursor \in Reached(pre)
    BY <1>1, <1>8 DEF ClockOK, PreLabels
  <1>11. Registered \subseteq done
    BY <1>8, <1>9, <1>10, WalkEnds
  <1>12. QED
    BY <1>8, <1>9, <1>11

\* DividersFollowHolds: between calls the divider of every driver is the one for the
\* rate of the clock, whichever drivers are on it and whatever was set again or
\* initialised twice before.
THEOREM DividersFollowHolds == Spec => []DividersFollow
  <1>1. WalkIInv => DividersFollow
    <2> SUFFICES ASSUME WalkIInv, pc = "idle"
                 PROVE  /\ uart.init => (uart.div + 1) = rate \div uart.baud
                        /\ spi.init /\ SpiDivider(spi.baud) \in 0..SckDivMax =>
                               (spi.div + 1) = rate \div (2 * spi.baud)
                        /\ i2c.init /\ Prescales(i2c.baud) => i2c.prescale = Prescaler(i2c.baud)
      BY DEF DividersFollow
    <2>1. \A d \in Drivers : Follows(d)
      BY DEF WalkIInv, PostWalk, PostLabels
    <2>2. Follows("uart") /\ Follows("spi") /\ Follows("i2c")
      BY <2>1 DEF Drivers
    <2>3. QED
      BY <2>2 DEF Follows
  <1>2. QED
    BY <1>1, WalkInitIInv, WalkNextIInv, PTL DEF Spec

\* NothingCutHolds: metal_clock_set_rate_hz changes the rate only when the UART has
\* sent its FIFO, and the last byte too where a long holds the product of the symbol
\* and the rate, and when the I2C controller and, unless a transfer gave up before,
\* the SPI controller have nothing on their lines.
THEOREM NothingCutHolds == Spec => NothingCut
  <1>1. ASSUME WalkIInv, [Next]_vars, rate' # rate
        PROVE  /\ uart.fifo = 0 /\ (SymbolFits => uart.left = 0) /\ ~i2c.tip
               /\ spi.tx = <<>> /\ (SpiBusy => spi.late > 0)
    <2>1. pc = "pre" /\ \A d \in Registered : Quiet(d)
      BY <1>1, RateChanges
    <2>2. UartOK /\ SpiIInv /\ SpiOK /\ I2cOK
      BY <1>1 DEF WalkIInv
    <2>3. uart.fifo = 0 /\ (SymbolFits => uart.left = 0)
      <3>1. uart.init => Quiet("uart")
        BY <2>1 DEF Registered, Drivers
      <3>2. QED
        BY <2>2, <3>1 DEF UartOK, TxBusy, Quiet, UartDrained
    <2>4. ~i2c.tip
      <3>1. i2c.init => Quiet("i2c")
        BY <2>1 DEF Registered, Drivers
      <3>2. QED
        BY <2>2, <3>1 DEF I2cOK, Quiet
    <2>5. spi.tx = <<>>
      <3>1. spi.init => Quiet("spi")
        BY <2>1 DEF Registered, Drivers
      <3>2. QED
        BY <2>2, <3>1 DEF SpiOK, Quiet
    <2>6. SpiBusy => spi.late > 0
      <3>1. spi.late = 0 => ~SpiBusy
        BY <2>1, <2>2, NothingUnderWay
      <3>2. spi.late \in Nat
        BY <2>2 DEF SpiIInv, SpiTypeOK
      <3>3. QED
        BY <3>1, <3>2
    <2>7. QED
      BY <2>3, <2>4, <2>5, <2>6
  <1>2. WalkIInv /\ [Next]_vars =>
            [rate' # rate => /\ uart.fifo = 0 /\ (SymbolFits => uart.left = 0)
                             /\ ~i2c.tip
                             /\ spi.tx = <<>> /\ (SpiBusy => spi.late > 0)]_vars
    BY <1>1
  <1>3. QED
    BY <1>2, WalkInitIInv, WalkNextIInv, PTL DEF Spec, NothingCut

\* PwmQuietHolds: whoever else is on the clock, a PWM that has a frequency does not
\* run continuously over a change of the rate.
THEOREM PwmQuietHolds == Spec => PwmQuiet
  <1>1. ASSUME WalkIInv, [Next]_vars, rate' # rate, pwm.freq # 0
        PROVE  "enalways" \notin pwm.cfg
    <2>1. Quiet("pwm")
      BY <1>1, RateChanges DEF Registered, Drivers
    <2>2. QED
      BY <2>1 DEF Quiet
  <1>2. WalkIInv /\ [Next]_vars => [(rate' # rate /\ pwm.freq # 0) => "enalways" \notin pwm.cfg]_vars
    BY <1>1
  <1>3. QED
    BY <1>2, WalkInitIInv, WalkNextIInv, PTL DEF Spec, PwmQuiet

\* CommandsQueueUpHolds: the I2C driver writes a command only when the controller has
\* finished the one before, whatever timed out in between and whatever the rate
\* changes did to its lists.
THEOREM CommandsQueueUpHolds == Spec => CommandsQueueUp
  <1>1. ASSUME WalkIInv, [Next]_vars
        PROVE  (i2c'.cmd # i2c.cmd \/ (i2c'.tip /\ ~i2c.tip)) => ~i2c.tip
    <2>1. I2cOK
      BY <1>1 DEF WalkIInv
    <2>2. CASE i2c' = i2c
      BY <2>2
    <2>3. CASE \/ \E b \in I2cBauds : I2cInit(b) \/ I2cSetBaud(b)
               \/ I2cPost
      BY <2>1, <2>3, I2cSettingsOK
    <2>4. CASE \/ \E q \in Requests : I2cCall(q)
               \/ I2cAddress \/ I2cAddressed \/ I2cByte \/ I2cDone \/ I2cTimeout \/ I2cPre \/ I2cComplete
      BY <2>1, <2>4, I2cOtherOK
    <2>5. i2c' # i2c => I2cStep \/ I2cThread \/ I2cComplete
      BY <1>1, Steps DEF vars
    <2>6. QED
      BY <2>2, <2>3, <2>4, <2>5 DEF I2cStep, I2cCalls, I2cThread
  <1>2. WalkIInv /\ [Next]_vars => [(i2c'.cmd # i2c.cmd \/ (i2c'.tip /\ ~i2c.tip)) => ~i2c.tip]_vars
    BY <1>1
  <1>3. QED
    BY <1>2, WalkInitIInv, WalkNextIInv, PTL DEF Spec, CommandsQueueUp
=============================================================================

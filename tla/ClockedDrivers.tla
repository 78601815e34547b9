------------------------------- MODULE ClockedDrivers -------------------------------
(* The drivers on one clock: one thread that initialises them, calls   *)
(* them and changes the rate of the clock, and the controllers, which go on   *)
(* by themselves.                                                             *)
EXTENDS Uart, Spi, I2c, Pwm

CONSTANT UsedSets  \* the sets of drivers an application may use

ASSUME ClockedAssumption == UsedSets \subseteq SUBSET Drivers

VARIABLE used      \* the drivers this application uses

vars == <<pc, clockVars, uart, spi, i2c, pwm, used>>

Init == /\ ClockInit /\ UartInitState /\ SpiInitState /\ I2cInitState /\ PwmInitState
        /\ used \in UsedSets
        /\ pc = "idle"
        \* Two drivers at a time keep the set-up of their initialisation.
        /\ setups = IF Cardinality(used) > 1 THEN MaxSetups ELSE 0
        \* Bound: only a UART by itself starts at any rate, others at the lowest.
        /\ used = {"uart"} \/ \A r \in Rates : rate <= r

UartStep == /\ "uart" \in used
            /\ (\E b \in Bauds : UartInit(b)) \/ UartCalls
            /\ UNCHANGED <<spi, i2c, pwm, used>>
SpiStep == /\ "spi" \in used
           /\ (\E b \in SpiBauds : SpiInit(b)) \/ SpiCalls
           /\ UNCHANGED <<uart, i2c, pwm, used>>
I2cStep == /\ "i2c" \in used
           /\ I2cCalls
           /\ UNCHANGED <<uart, spi, pwm, used>>
PwmStep == /\ "pwm" \in used
           /\ PwmCalls
           /\ UNCHANGED <<uart, spi, i2c, used>>

\* The application: it may stop calling at any time.
Application == \/ UartStep \/ SpiStep \/ I2cStep \/ PwmStep
               \/ /\ \E hz \in Rates : SetRateCall(hz)
                  /\ UNCHANGED <<uart, spi, i2c, pwm, used>>

\* A call that is running.
Thread == \/ UartThread /\ UNCHANGED <<spi, i2c, pwm, used>>
          \/ SpiThread /\ UNCHANGED <<uart, i2c, pwm, used>>
          \/ I2cThread /\ UNCHANGED <<uart, spi, pwm, used>>
          \/ PwmThread /\ UNCHANGED <<uart, spi, i2c, used>>
          \/ ClockThread /\ UNCHANGED <<uart, spi, i2c, pwm, used>>

UartDevice == UartHardware /\ UNCHANGED <<spi, i2c, pwm, used>>
SpiDevice == SpiHardware /\ UNCHANGED <<uart, i2c, pwm, used>>
I2cDevice == I2cComplete /\ UNCHANGED <<uart, spi, pwm, used>>
PwmDevice == PwmHardware /\ UNCHANGED <<uart, spi, i2c, used>>

Next == Application \/ Thread \/ UartDevice \/ SpiDevice \/ I2cDevice \/ PwmDevice

\* The thread runs, and time passes, so that a wait with a time-out is over at
\* some point.  The transmitters are clocked; nobody has to send to the UART.
Fairness == /\ WF_vars(Thread)
            /\ WF_vars((UartLoad \/ UartBit) /\ UNCHANGED <<pc, clockVars, spi, i2c, pwm, used>>)
            /\ WF_vars(SpiDevice)

Spec == Init /\ [][Next]_vars /\ Fairness

----------------------------------------------------------------------------
\* NothingCut: the rate never changes under a byte on a line: the UART has sent
\* its FIFO and, at a rate whose symbol time a long can hold, the last byte too;
\* the I2C controller is idle, and the SPI controller is too unless a transfer
\* gave up on a byte before (its callback looks at the FIFO only).
NothingCut ==
    [][rate' # rate => /\ uart.fifo = 0 /\ (SymbolFits => uart.left = 0)
                       /\ ~i2c.tip
                       /\ spi.tx = <<>> /\ (SpiBusy => spi.late > 0)]_vars

\* DividersFollow: between calls the divider of every driver that has been
\* initialised is the one for the rate the clock runs at and the baud rate that
\* get_baud_rate reports: no rate change and no driver was left out.
DividersFollow ==
    pc = "idle" =>
        /\ uart.init => (uart.div + 1) = rate \div uart.baud
        /\ spi.init /\ SpiDivider(spi.baud) \in 0..SckDivMax =>
               (spi.div + 1) = rate \div (2 * spi.baud)
        /\ i2c.init /\ Prescales(i2c.baud) => i2c.prescale = Prescaler(i2c.baud)

\* SlipCounted: every time-out leaves one byte behind, in a FIFO or on the
\* line, and nothing else does: between calls the SPI controller holds as many
\* bytes as transfers have timed out.
SlipCounted ==
    Len(spi.tx) + Len(spi.rx) + (IF SpiBusy THEN 1 ELSE 0)
        = spi.late + (IF pc = "spiAnswer" THEN 1 ELSE 0)

\* AnswersMatch: a transfer that runs while no earlier one has timed out stores
\* at each index the answer to the byte it sent there.
AnswersMatch ==
    spi.late = 0 =>
        \A k \in 1..Len(spi.got) : spi.got[k] = [xfer |-> spi.xfer, i |-> k - 1]

\* CommandsQueueUp: a command is written to the I2C controller only when it has
\* finished the one before, whatever timed out in between.
CommandsQueueUp == [][(i2c'.cmd # i2c.cmd \/ (i2c'.tip /\ ~i2c.tip)) => ~i2c.tip]_vars

\* PwmQuiet: a PWM that has a frequency never runs continuously over a change of
\* the rate its frequency was computed for, whoever else is on the clock.
PwmQuiet == [][(rate' # rate /\ pwm.freq # 0) => "enalways" \notin pwm.cfg]_vars

\* DrainEnds: metal_clock_set_rate_hz comes back on a clock without I2C and PWM:
\* the drains of the UART and of the SPI driver end, whatever the watermarks and
\* the FIFOs were.
DrainEnds == (pc = "pre" /\ used \cap {"i2c", "pwm"} = {}) ~> (pc = "idle")
============================================================================

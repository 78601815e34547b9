--------------------------------- MODULE Spi ---------------------------------
(* sifive_spi0.c as a driver on the clock.  A transfer sends a byte and waits *)
(* for the one the slave answers to it, command, address and dummy frames     *)
(* first; the wait has a time-out, and the late byte then stays behind.  A    *)
(* byte is named by the transfer that sent it and its index, and so is the    *)
(* answer to it.                                                              *)
EXTENDS Clock

CONSTANTS
    SpiBauds,      \* baud rates applications ask for
    SckDivMax,     \* greatest value of the divider field (0xFFF)
    FifoDepth,     \* entries of each FIFO
    Configs,       \* configurations and lengths applications ask for
    MaxLen,        \* bound: bytes of a transfer
    MaxTransfers,  \* bound: transfers
    MaxTimeouts    \* bound: transfers that give up

ASSUME SpiAssumption == /\ SpiBauds \subseteq Nat \ {0} /\ SpiBauds # {}
                        /\ SckDivMax \in Nat /\ FifoDepth \in Nat \ {0}
                        /\ MaxLen \in Nat /\ MaxTransfers \in Nat
                        /\ MaxTimeouts \in Nat

\* struct metal_spi_config, without the fields that only set pins, and the
\* length of the transfer, which counts the frames of all stages.
AllConfigs ==
    {c \in [protocol : {"single", "quad"},
            multi_wire : {"all", "data_only", "addr_data"},
            cmd : 0..MaxLen, addr : 0..MaxLen, dummy : 0..MaxLen, len : 0..MaxLen] :
        c.cmd + c.addr + c.dummy <= c.len}

ASSUME ConfigAssumption == Configs \subseteq AllConfigs

VARIABLE spi

NoByte == [xfer |-> 0, i |-> 0]
NoConfig == [protocol |-> "single", multi_wire |-> "all",
             cmd |-> 0, addr |-> 0, dummy |-> 0, len |-> 0]

SpiInitState ==
    spi \in [init : {FALSE}, baud : {0}, div : {3},
             proto : {"single"}, hold : {FALSE}, txmark : {0},
             tx : {<<>>}, busy : {NoByte}, rx : {<<>>},
             xfer : {0}, cfg : {NoConfig}, i : {0},
             got : {<<>>}, ret : {0}, late : {0}]

SpiBusy == spi.busy # NoByte
SpiTxFull == Len(spi.tx) = FifoDepth

----------------------------------------------------------------------------
\* __metal_driver_sifive_spi0_set_baud_rate: the baud rate is remembered even
\* when the divider it needs does not fit and the register is left alone.
SpiDivider(b) == rate \div (2 * b) - 1
WithSpiBaud(s, b) ==
    IF SpiDivider(b) > SckDivMax
      THEN [s EXCEPT !.baud = b]
      ELSE [s EXCEPT !.baud = b, !.div = SpiDivider(b) % (SckDivMax + 1)]

SpiInit(b) ==
    /\ pc = "idle" /\ ~spi.init
    /\ Appends(pre, "spi") /\ Appends(post, "spi")
    /\ RegisterBoth("spi")
    /\ spi' = [WithSpiBaud(spi, b) EXCEPT !.init = TRUE]
    /\ UNCHANGED <<pc, rate, target, cursor, changes, setups>>

SpiSetBaud(b) == /\ spi' = WithSpiBaud(spi, b)
                 /\ UNCHANGED pc

\* configure_spi: the protocol of the first frame; only a transfer that uses
\* several wires throughout starts with them.
FirstProtocol(c) == IF c.multi_wire = "all" THEN c.protocol ELSE "single"

\* spi_mode_switch, called when the address and when the data stage begin: the
\* stage named by the configuration changes to its protocol (one wire has none).
Switched(c, stage, proto) ==
    IF c.multi_wire = stage THEN c.protocol ELSE proto

\* The two switches that lie between the frames i and i + 1.
AfterFrame(c, i, proto) ==
    LET addressed == IF i = c.cmd THEN Switched(c, "addr_data", proto) ELSE proto
    IN  IF i = c.cmd + c.addr + c.dummy
          THEN Switched(c, "data_only", addressed) ELSE addressed

\* The call configures the controller, holds the chip select and comes to its
\* first frame.
SpiTransferCall(c) ==
    /\ spi.xfer < MaxTransfers
    /\ spi' = [spi EXCEPT !.xfer = @ + 1, !.cfg = c, !.i = 0, !.got = <<>>,
                          !.hold = TRUE,
                          !.proto = AfterFrame(c, 0, FirstProtocol(c))]
    /\ pc' = "spiSend"

\* Mutation of SpiSend: from the wrong end of the buffer.
SpiSendBack ==
    /\ pc = "spiSend"
    /\ IF spi.i < spi.cfg.len
         THEN /\ ~SpiTxFull
              /\ spi' = [spi EXCEPT
                     !.tx = Append(@, [xfer |-> spi.xfer, i |-> spi.cfg.len - 1 - spi.i])]
              /\ pc' = "spiAnswer"
         ELSE /\ spi' = [spi EXCEPT !.hold = FALSE, !.ret = 0]
              /\ pc' = "idle"

\* The loops of all four stages: wait for room, write the byte, wait for the
\* answer, store it.  At the end the chip select goes back to automatic.
SpiSend ==
    /\ pc = "spiSend"
    /\ IF spi.i < spi.cfg.len
         THEN /\ ~SpiTxFull
              /\ spi' = [spi EXCEPT
                     !.tx = Append(@, [xfer |-> spi.xfer, i |-> spi.i])]
              /\ pc' = "spiAnswer"
         ELSE /\ spi' = [spi EXCEPT !.hold = FALSE, !.ret = 0]
              /\ pc' = "idle"

\* Mutation of SpiAnswer: the answer stays in the FIFO.
SpiAnswerPeeked ==
    /\ pc = "spiAnswer" /\ spi.rx # <<>>
    /\ spi' = [spi EXCEPT !.got = Append(@, Head(spi.rx)), !.i = @ + 1,
                          !.proto = AfterFrame(spi.cfg, spi.i + 1, @)]
    /\ pc' = "spiSend"

SpiAnswer ==
    /\ pc = "spiAnswer" /\ spi.rx # <<>>
    /\ spi' = [spi EXCEPT !.rx = Tail(@), !.got = Append(@, Head(spi.rx)),
                          !.i = @ + 1,
                          !.proto = AfterFrame(spi.cfg, spi.i + 1, @)]
    /\ pc' = "spiSend"

\* metal_time has passed endwait: release the chip select, return 1, and leave
\* the FIFOs as they are.
SpiTimeout ==
    /\ pc = "spiAnswer" /\ spi.rx = <<>> /\ spi.late < MaxTimeouts
    /\ spi' = [spi EXCEPT !.hold = FALSE, !.ret = 1, !.late = @ + 1]
    /\ pc' = "idle"

----------------------------------------------------------------------------
\* pre_rate_change_callback_func waits for an empty transmit FIFO and not for
\* the byte behind it: a transfer that returned 0 has left none.
SpiPre == /\ pc = "spiPre"
          /\ spi' = [spi EXCEPT !.txmark = 1]
          /\ pc' = "spiWait"
SpiWait == /\ pc = "spiWait" /\ Len(spi.tx) < spi.txmark
           /\ pc' = "preNext"
           /\ UNCHANGED spi

SpiPost == /\ pc = "spiPost"
           /\ spi' = WithSpiBaud(spi, spi.baud)
           /\ pc' = "postNext"

----------------------------------------------------------------------------
\* The hardware: a byte leaves the FIFO, and its answer arrives when it is out
\* (and is lost when the receive FIFO is full).
SpiLoad == /\ spi.tx # <<>> /\ ~SpiBusy
           /\ spi' = [spi EXCEPT !.tx = Tail(@), !.busy = Head(spi.tx)]
SpiShifted ==
    /\ SpiBusy
    /\ spi' = [spi EXCEPT !.busy = NoByte,
                   !.rx = IF Len(@) < FifoDepth THEN Append(@, spi.busy) ELSE @]

\* The calls of metal/spi.h.
SpiCalls ==
    /\ pc = "idle" /\ spi.init
    /\ \/ (\E b \in SpiBauds : SpiSetBaud(b)) /\ SetUp
       \/ (\E c \in Configs : SpiTransferCall(c)) /\ UNCHANGED setups
    /\ UNCHANGED <<rate, target, pre, post, cursor, changes>>

SpiThread == /\ SpiSend \/ SpiAnswer \/ SpiTimeout \/ SpiPre \/ SpiWait \/ SpiPost
             /\ UNCHANGED clockVars

SpiHardware == /\ SpiLoad \/ SpiShifted
               /\ UNCHANGED <<pc, clockVars>>
============================================================================

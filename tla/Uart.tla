-------------------------------- MODULE Uart --------------------------------
(* sifive_uart0.c as a driver on the clock: the transmit FIFO and the shift   *)
(* register behind it, which go on sending while the thread does other        *)
(* things, and the callbacks that drain them before a rate change.            *)
EXTENDS Clock

CONSTANTS
    Bauds,       \* baud rates applications ask for
    TxDepth,     \* entries of the transmit FIFO
    RxDepth,     \* entries of the receive FIFO
    SymbolBits,  \* bits of a symbol on the line (ten with one stop bit)
    LongMax      \* LONG_MAX of the hart: 2^31 - 1 on RV32, 2^63 - 1 on RV64

\* A symbol has a bit; no UART is asked to send faster than its clock runs.
ASSUME UartAssumption == /\ Bauds \subseteq Nat \ {0} /\ Bauds # {}
                         /\ TxDepth \in Nat \ {0} /\ RxDepth \in Nat \ {0}
                         /\ SymbolBits \in Nat \ {0} /\ LongMax \in Nat
                         /\ \A b \in Bauds, r \in Rates : b <= r

VARIABLE uart

\* The watermark fields hold a level bit by bit: two of the three bits.
LevelBits == {0, 1}
Level(bits) == (IF 0 \in bits THEN 1 ELSE 0) + (IF 1 \in bits THEN 2 ELSE 0)

UartInitState ==
    uart \in [init : {FALSE}, baud : {0}, div : {0}, txen : {FALSE},
              txcnt : {{}}, rxcnt : {{}}, ie : {{}}, fifo : {0},
              left : {0}, rx : {0}, waited : {0}]

TxFull == uart.fifo = TxDepth
TxBusy == uart.fifo > 0 \/ uart.left > 0
TxwmPending == uart.fifo < Level(uart.txcnt)

----------------------------------------------------------------------------
\* __metal_driver_sifive_uart0_set_baud_rate, on a UART that has a clock.
WithBaud(u, b) == [u EXCEPT !.baud = b, !.div = rate \div b - 1, !.txen = TRUE]

\* __metal_driver_sifive_uart0_init: register both callbacks, set the baud rate.
UartInit(b) ==
    /\ pc = "idle" /\ ~uart.init
    /\ Appends(pre, "uart") /\ Appends(post, "uart")
    /\ RegisterBoth("uart")
    /\ uart' = [WithBaud(uart, b) EXCEPT !.init = TRUE]
    /\ UNCHANGED <<pc, rate, target, cursor, changes, setups>>

UartSetBaud(b) == /\ uart' = WithBaud(uart, b)
                  /\ UNCHANGED pc

\* The watermark setters only set bits of the field, they clear none.
UartSetTxWatermark(bits) == /\ uart' = [uart EXCEPT !.txcnt = @ \cup bits]
                            /\ UNCHANGED pc
UartSetRxWatermark(bits) == /\ uart' = [uart EXCEPT !.rxcnt = @ \cup bits]
                            /\ UNCHANGED pc

UartInterruptEnable(i) == /\ uart' = [uart EXCEPT !.ie = @ \cup {i}]
                          /\ UNCHANGED pc
UartInterruptDisable(i) == /\ uart' = [uart EXCEPT !.ie = @ \ {i}]
                           /\ UNCHANGED pc

\* putc spins until the FIFO has room, then writes TXDATA.
UartPutcCall == /\ pc' = "uartPutc"
                /\ UNCHANGED uart
UartPutc == /\ pc = "uartPutc" /\ ~TxFull
            /\ uart' = [uart EXCEPT !.fifo = @ + 1]
            /\ pc' = "idle"

\* getc reads once; the read takes the byte if there is one.
UartGetc == /\ uart' = [uart EXCEPT !.rx = IF @ = 0 THEN 0 ELSE @ - 1]
            /\ UNCHANGED pc

\* metal_tty_getc calls getc until there is a byte.
TtyGetcCall == /\ pc' = "ttyGetc"
               /\ UNCHANGED uart
TtyGetc == /\ pc = "ttyGetc" /\ uart.rx > 0
           /\ uart' = [uart EXCEPT !.rx = @ - 1]
           /\ pc' = "idle"

----------------------------------------------------------------------------
\* Mutation of UartWait: no count, as if an empty FIFO meant an idle line.
UartWaitOnly == /\ pc = "uartWait" /\ TxwmPending
                /\ pc' = "preNext"
                /\ UNCHANGED uart

\* Mutation of UartPre: a watermark of zero, which the FIFO is never below.
UartPreZero == /\ pc = "uartPre"
               /\ uart' = [uart EXCEPT !.txcnt = {}, !.waited = 0]
               /\ pc' = "uartWait"

\* pre_rate_change_callback_func: watermark one, wait for an empty FIFO, then
\* count the time of one symbol for the byte that is still being shifted out.
UartPre == /\ pc = "uartPre"
           /\ uart' = [uart EXCEPT !.txcnt = {0}, !.waited = 0]
           /\ pc' = "uartWait"

UartWait == /\ pc = "uartWait" /\ TxwmPending
            /\ pc' = "uartDrain"
            /\ UNCHANGED uart

\* What a long holds of a number.
CLong(n) == ((n + LongMax + 1) % (2 * (LongMax + 1))) - (LongMax + 1)

\* bits_per_symbol * clk_freq / baud_rate, the turns of the loop: the product is
\* computed in a long, and a negative one makes no turn.
SymbolFits == SymbolBits * rate <= LongMax
CyclesToWait == LET product == CLong(SymbolBits * rate)
                IN  IF product < 0 THEN 0 ELSE product \div uart.baud

\* The loop runs on the clock that shifts and a turn takes a cycle at least, so
\* that every div + 1 turns cover a bit.  It has turns left for another bit:
BitsLeftToWait == (uart.waited + 1) * (uart.div + 1) <= CyclesToWait

UartDrain ==
    /\ pc = "uartDrain"
    /\ IF BitsLeftToWait
         THEN /\ uart' = [uart EXCEPT !.waited = @ + 1,
                                      !.left = IF @ = 0 THEN 0 ELSE @ - 1]
              /\ UNCHANGED pc
         ELSE /\ pc' = "preNext"
              /\ UNCHANGED uart

\* post_rate_change_callback_func sets the same baud rate again.
UartPost == /\ pc = "uartPost"
            /\ uart' = WithBaud(uart, uart.baud)
            /\ pc' = "postNext"

----------------------------------------------------------------------------
\* The hardware: a byte moves from the FIFO to the shift register, a bit goes
\* out on the line, a byte comes in (and is lost when the FIFO is full).
UartLoad == /\ uart.txen /\ uart.fifo > 0 /\ uart.left = 0
            /\ uart' = [uart EXCEPT !.fifo = @ - 1, !.left = SymbolBits]
UartBit == /\ uart.left > 0
           /\ uart' = [uart EXCEPT !.left = @ - 1]
UartReceive == /\ uart.txen /\ uart.rx < RxDepth
               /\ uart' = [uart EXCEPT !.rx = @ + 1]

\* The calls of metal/uart.h, each through the vtable of the driver.
UartSetUps ==
    \/ \E b \in Bauds : UartSetBaud(b)
    \/ \E bits \in SUBSET LevelBits : \/ UartSetTxWatermark(bits)
                                      \/ UartSetRxWatermark(bits)
    \/ \E i \in {"tx", "rx"} : UartInterruptEnable(i) \/ UartInterruptDisable(i)

UartCalls ==
    /\ pc = "idle" /\ uart.init
    /\ \/ UartSetUps /\ SetUp
       \/ (UartPutcCall \/ UartGetc \/ TtyGetcCall) /\ UNCHANGED setups
    /\ UNCHANGED <<rate, target, pre, post, cursor, changes>>

UartThread ==
    /\ UartPutc \/ TtyGetc \/ UartPre \/ UartWait \/ UartDrain \/ UartPost
    /\ UNCHANGED clockVars

UartHardware ==
    /\ UartLoad \/ UartBit \/ UartReceive
    /\ UNCHANGED <<pc, clockVars>>
============================================================================

--------------------------------- MODULE I2c ---------------------------------
(* sifive_i2c0.c as a driver on the clock.  A call sends the address and then *)
(* reads or writes byte by byte, each time waiting, up to a time-out, for the *)
(* controller to finish the command; the slave may refuse the address or any  *)
(* byte.  Every set_baud_rate registers the clock callbacks once more.        *)
EXTENDS Clock

CONSTANTS
    I2cBauds,     \* baud rates applications ask for
    PrescaleMax,  \* greatest prescaler (0xFFFF)
    MaxBytes,     \* bound: bytes each way in one call
    MaxCalls      \* bound: calls, those of init and set_baud_rate included

ASSUME I2cAssumption == /\ I2cBauds \subseteq Nat \ {0} /\ I2cBauds # {}
                        /\ PrescaleMax \in Nat
                        /\ MaxBytes \in Nat /\ MaxCalls \in Nat

VARIABLE i2c

\* What a call is to do: write and read have one direction and a stop flag,
\* transfer writes and then reads and always stops.
Requests ==
    [op : {"write"}, tx : 0..MaxBytes, rx : {0}, stop : BOOLEAN]
      \cup [op : {"read"}, tx : {0}, rx : 0..MaxBytes, stop : BOOLEAN]
      \cup [op : {"transfer"}, tx : 0..MaxBytes, rx : 0..MaxBytes, stop : {TRUE}]
NoRequest == [op |-> "none", tx |-> 0, rx |-> 0, stop |-> FALSE]

NoCommand == [start |-> FALSE, stop |-> FALSE, dir |-> "write"]

I2cInitState ==
    i2c \in [init : {FALSE}, baud : {0}, prescale : {0},
             en : {FALSE}, tip : {FALSE}, cmd : {NoCommand}, nack : {FALSE},
             bus : {"free"}, req : {NoRequest}, dir : {"write"}, i : {0},
             ret : {0}, refused : {FALSE}, calls : {0}]

----------------------------------------------------------------------------
\* __metal_driver_sifive_i2c0_set_baud_rate: both callbacks are registered
\* before the prescaler is even computed; when it is out of range the old baud
\* rate stays.  Where no baud rate was ever accepted the division is by zero,
\* which gives all ones on RISC-V.
Prescaler(b) == (IF b = 0 THEN -1 ELSE rate \div (b * 5)) - 1
Prescales(b) == Prescaler(b) \in 0..PrescaleMax
WithI2cBaud(s, b) ==
    IF Prescales(b)
      THEN [s EXCEPT !.prescale = Prescaler(b), !.en = TRUE, !.baud = b]
      ELSE s

I2cRegisters == /\ Appends(pre, "i2c") /\ Appends(post, "i2c")
                /\ RegisterBoth("i2c")

\* __metal_driver_sifive_i2c0_init in master mode; it may be called again.
I2cInit(b) ==
    /\ pc = "idle" /\ i2c.calls < MaxCalls
    /\ I2cRegisters
    /\ i2c' = [WithI2cBaud(i2c, b) EXCEPT !.init = @ \/ Prescales(b),
                                         !.calls = @ + 1]
    /\ UNCHANGED <<pc, rate, target, cursor, changes, setups>>

I2cSetBaud(b) ==
    /\ pc = "idle" /\ i2c.init /\ i2c.calls < MaxCalls
    /\ I2cRegisters
    /\ i2c' = [WithI2cBaud(i2c, b) EXCEPT !.calls = @ + 1]
    /\ UNCHANGED <<pc, rate, target, cursor, changes, setups>>

\* write, read and transfer fail at once before a successful init.  A transfer
\* of nothing returns without having touched its result: any value.
I2cCall(q) ==
    /\ pc = "idle" /\ i2c.calls < MaxCalls
    /\ LET first == IF q.op = "read" \/ (q.op = "transfer" /\ q.tx = 0)
                      THEN "read" ELSE "write"
           nothing == q.op = "transfer" /\ q.tx = 0 /\ q.rx = 0
       IN  /\ pc' = IF ~i2c.init \/ nothing THEN "idle" ELSE "i2cAddress"
           /\ \E r \in IF i2c.init /\ nothing THEN {-1, 0} ELSE {-1} :
                i2c' = [i2c EXCEPT !.calls = @ + 1, !.req = q, !.dir = first,
                                   !.i = 0, !.ret = r, !.refused = FALSE]
    /\ UNCHANGED clockVars

\* Write the command register: the controller starts.
Issue(s, start, stop) ==
    [s EXCEPT !.tip = TRUE,
              !.cmd = [start |-> start, stop |-> stop,
                       dir |-> IF start THEN "write" ELSE s.dir]]

Length == IF i2c.dir = "write" THEN i2c.req.tx ELSE i2c.req.rx

\* Mutation of I2cAddress: without the first wait.
I2cAddressNow ==
    /\ pc = "i2cAddress"
    /\ i2c' = Issue(i2c, TRUE, FALSE)
    /\ pc' = "i2cAddressed"

\* write_addr: wait for the previous command, then send the address.
I2cAddress ==
    /\ pc = "i2cAddress" /\ ~i2c.tip
    /\ i2c' = Issue(i2c, TRUE, FALSE)
    /\ pc' = "i2cAddressed"

\* The address is out: give up unless the slave acknowledged it.
I2cAddressed ==
    /\ pc = "i2cAddressed" /\ ~i2c.tip
    /\ IF i2c.nack
         THEN /\ i2c' = [i2c EXCEPT !.ret = -1]
              /\ pc' = "idle"
         ELSE /\ i2c' = [i2c EXCEPT !.ret = 0, !.i = 0]
              /\ pc' = "i2cByte"

\* The stop condition goes with the last byte; a transfer that reads afterwards
\* starts again instead.
StopsHere(s) ==
    /\ s.i = (IF s.dir = "write" THEN s.req.tx ELSE s.req.rx) - 1
    /\ s.req.stop
    /\ s.dir = "read" \/ s.req.op = "write" \/ s.req.rx = 0

\* The end of one direction: a transfer goes on to read, whatever ret says.
Finished(s) ==
    IF s.req.op = "transfer" /\ s.dir = "write" /\ s.req.rx > 0
      THEN /\ i2c' = [s EXCEPT !.dir = "read"]
           /\ pc' = "i2cAddress"
      ELSE /\ i2c' = s
           /\ pc' = "idle"

\* One turn of the write or of the read loop, up to its command.
I2cByte ==
    /\ pc = "i2cByte"
    /\ IF i2c.i < Length
         THEN /\ i2c' = Issue(i2c, FALSE, StopsHere(i2c))
              /\ pc' = "i2cDone"
         ELSE Finished(i2c)

\* The rest of the turn: a written byte the slave refused ends the loop.
I2cDone ==
    /\ pc = "i2cDone" /\ ~i2c.tip
    /\ IF i2c.dir = "write" /\ i2c.nack
         THEN Finished([i2c EXCEPT !.ret = -1, !.refused = TRUE])
         ELSE /\ i2c' = [i2c EXCEPT !.i = @ + 1]
              /\ pc' = "i2cByte"

\* METAL_I2C_REG_CHECK: the controller is still busy when the time is over; the
\* call returns from wherever it waits, without a stop condition.
I2cTimeout ==
    /\ pc \in {"i2cAddress", "i2cAddressed", "i2cDone"} /\ i2c.tip
    /\ i2c' = [i2c EXCEPT !.ret = -1]
    /\ pc' = "idle"

----------------------------------------------------------------------------
\* pre_rate_change_callback waits for the running command, with no time-out.
I2cPre == /\ pc = "i2cPre" /\ ~i2c.tip
          /\ pc' = "preNext"
          /\ UNCHANGED <<i2c, clockVars>>

\* post_rate_change_callback sets the baud rate, which registers the cells of
\* the very list that is being walked.
I2cPost == /\ pc = "i2cPost"
           /\ I2cRegisters
           /\ i2c' = WithI2cBaud(i2c, i2c.baud)
           /\ pc' = "postNext"
           /\ UNCHANGED <<rate, target, cursor, changes, setups>>

----------------------------------------------------------------------------
\* The controller finishes a command: start takes the bus, stop frees it, and a
\* written byte is acknowledged or not.
I2cComplete ==
    /\ i2c.tip
    /\ \E nack \in IF i2c.cmd.dir = "write" THEN BOOLEAN ELSE {i2c.nack} :
         i2c' = [i2c EXCEPT !.tip = FALSE, !.nack = nack,
                            !.bus = IF i2c.cmd.stop THEN "free" ELSE "held"]
    /\ UNCHANGED <<pc, clockVars>>

\* The calls of metal/i2c.h.
I2cCalls == \/ \E b \in I2cBauds : I2cInit(b) \/ I2cSetBaud(b)
            \/ \E q \in Requests : I2cCall(q)

I2cThread ==
    \/ /\ \/ I2cAddress \/ I2cAddressed \/ I2cByte \/ I2cDone \/ I2cTimeout
       /\ UNCHANGED clockVars
    \/ I2cPre \/ I2cPost
============================================================================

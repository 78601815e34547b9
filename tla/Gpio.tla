-------------------------------- MODULE Gpio --------------------------------
(* The GPIO block (sifive_gpio0.c, gpio.h) and the LEDs on its pins.  A        *)
(* register is the set of the pins whose bit is 1.  Every call is one or more  *)
(* read-modify-writes of a whole register, without a lock; an interrupt        *)
(* handler that works on other pins runs between any two of the thread's       *)
(* accesses and to its end.                                                    *)
EXTENDS Integers, Sequences, FiniteSets

CONSTANTS
    ThreadPins, HandlerPins, \* the pins each of the two works on
    GpioMaxCalls, GpioMaxHandled, GpioMaxEdges \* bounds: calls of each, edges

ASSUME GpioAssumption == /\ ThreadPins \cap HandlerPins = {}
                         /\ GpioMaxCalls \in Nat /\ GpioMaxHandled \in Nat /\ GpioMaxEdges \in Nat

VARIABLES
    gpioReg,   \* the registers the software sets
    gpioIp,    \* the pending registers: a 1 that is written clears the bit
    gpioEdits, \* the thread's read-modify-writes to come
    gpioHandler, \* and the handler's
    gpioHeld,  \* what it has read for the first of them
    gpioAsked, \* what the writes it has made asked of its pins
    gpioSpent  \* calls of the thread and of the handler, and edges

gpioVars == <<gpioReg, gpioIp, gpioEdits, gpioHandler, gpioHeld, gpioAsked, gpioSpent>>

Pins == ThreadPins \cup HandlerPins
Edges == {"rise", "fall", "high", "low"}
Registers == {"input_en", "output_en", "port", "iof_sel", "iof_en"} \cup Edges
NotRead == [pins |-> {}, read |-> FALSE]

\* gpioReg["rise"] is RISE_IE and gpioIp["rise"] is RISE_IP, and so on.
GpioInit == /\ gpioReg = [r \in Registers |-> {}] /\ gpioIp = [e \in Edges |-> {}]
            /\ gpioEdits = <<>> /\ gpioHandler = <<>> /\ gpioHeld = NotRead
            /\ gpioAsked = [r \in Registers |-> {}]
            /\ gpioSpent = [thread |-> 0, handler |-> 0, edges |-> 0]

----------------------------------------------------------------------------
\* A read-modify-write: |= mask, &= ~mask, or = ^ mask; "ack" is the |= of a
\* pending register.
Edit(how, r, mask) == [how |-> how, r |-> r, mask |-> mask]

\* Mutation of Result: the mask alone.
ResultMask(e, old) == IF e.how = "clear" THEN {} ELSE e.mask

\* The new value of a register of which `old` was read.
Result(e, old) == CASE e.how = "set" -> old \cup e.mask
                    [] e.how = "clear" -> old \ e.mask
                    [] e.how = "toggle" -> (old \ e.mask) \cup (e.mask \ old)

\* Inputs, outputs and the value of the port.
PortCalls(p) ==
    {<<Edit("set", r, {p})>> : r \in {"input_en", "output_en", "port"}} \cup
    {<<Edit("clear", r, {p})>> : r \in {"input_en", "output_en", "port"}} \cup
    {<<Edit("toggle", "port", {p})>>}

\* metal_led_enable; metal_led_on, _off and _toggle are calls of PortCalls.
LedCalls(p) == {<<Edit("clear", "input_en", {p}), Edit("set", "output_en", {p})>>}

\* The pin multiplexer: the function, 0 or 1, is OR'ed into IOF_EN and the pin
\* into IOF_SEL.
PinmuxCalls(p) ==
    {<<Edit("set", "iof_sel", {p}), Edit("set", "iof_en", function)>> : function \in {{}, {p}}}
    \cup {<<Edit("clear", "iof_en", {p})>>}

\* The registers of an interrupt type, in the order the code writes them.
TypeEdges == {<<"rise">>, <<"fall">>, <<"rise", "fall">>, <<"high">>, <<"low">>,
              <<"high", "low">>, <<"rise", "fall", "high", "low">>}
ForEach(how, edges, p) == [i \in 1..Len(edges) |-> Edit(how, edges[i], {p})]

\* metal_gpio_config_interrupt and metal_gpio_clear_interrupt.
ConfigCalls(p) == {ForEach("set", edges, p) : edges \in TypeEdges}
                  \cup {ForEach("clear", <<"rise", "fall", "high", "low">>, p)}
ClearCalls(p) == {ForEach("ack", edges, p) : edges \in TypeEdges}

GpioCalls(p) == PortCalls(p) \cup LedCalls(p) \cup PinmuxCalls(p) \cup ConfigCalls(p)
                \cup ClearCalls(p)

----------------------------------------------------------------------------
\* One store, of a register of which `old` was read.
Stored(e, old) ==
    /\ gpioReg' = IF e.how = "ack" THEN gpioReg ELSE [gpioReg EXCEPT ![e.r] = Result(e, old)]
    /\ gpioIp' = IF e.how = "ack" THEN [gpioIp EXCEPT ![e.r] = @ \ (old \cup e.mask)] ELSE gpioIp
Current(e) == IF e.how = "ack" THEN gpioIp[e.r] ELSE gpioReg[e.r]

\* A call of the thread, and the two accesses of its read-modify-writes.
GpioCall(p) ==
    /\ gpioHandler = <<>> /\ gpioEdits = <<>> /\ gpioSpent.thread < GpioMaxCalls
    /\ gpioSpent' = [gpioSpent EXCEPT !.thread = @ + 1]
    /\ gpioEdits' \in GpioCalls(p)
    /\ UNCHANGED <<gpioReg, gpioIp, gpioHandler, gpioHeld, gpioAsked>>
GpioLoad ==
    /\ gpioHandler = <<>> /\ gpioEdits # <<>> /\ ~gpioHeld.read
    /\ gpioHeld' = [pins |-> Current(Head(gpioEdits)), read |-> TRUE]
    /\ UNCHANGED <<gpioReg, gpioIp, gpioEdits, gpioHandler, gpioAsked, gpioSpent>>
GpioStore ==
    /\ gpioHandler = <<>> /\ gpioHeld.read
    /\ LET e == Head(gpioEdits)
       IN  /\ Stored(e, gpioHeld.pins)
           /\ gpioAsked' = IF e.how = "ack" THEN gpioAsked
                           ELSE [gpioAsked EXCEPT ![e.r] = Result(e, @)]
    /\ gpioEdits' = Tail(gpioEdits) /\ gpioHeld' = NotRead
    /\ UNCHANGED <<gpioHandler, gpioSpent>>

\* The handler's call, and its read-modify-writes: only an edge could come
\* between the two accesses of one, with the effect it has before or after both.
GpioHandler(p) ==
    /\ gpioHandler = <<>> /\ gpioSpent.handler < GpioMaxHandled
    /\ gpioSpent' = [gpioSpent EXCEPT !.handler = @ + 1]
    /\ gpioHandler' \in GpioCalls(p)
    /\ UNCHANGED <<gpioReg, gpioIp, gpioEdits, gpioHeld, gpioAsked>>
GpioHandled ==
    /\ gpioHandler # <<>>
    /\ Stored(Head(gpioHandler), Current(Head(gpioHandler)))
    /\ gpioHandler' = Tail(gpioHandler)
    /\ UNCHANGED <<gpioEdits, gpioHeld, gpioAsked, gpioSpent>>

\* An edge or a level at a pin, which is recorded whether or not it is enabled.
GpioEdge(e, p) ==
    /\ gpioSpent.edges < GpioMaxEdges
    /\ gpioSpent' = [gpioSpent EXCEPT !.edges = @ + 1]
    /\ gpioIp' = [gpioIp EXCEPT ![e] = @ \cup {p}]
    /\ UNCHANGED <<gpioReg, gpioEdits, gpioHandler, gpioHeld, gpioAsked>>

GpioNext == \/ \E p \in ThreadPins : GpioCall(p)
            \/ GpioLoad \/ GpioStore
            \/ (\E p \in HandlerPins : GpioHandler(p)) \/ GpioHandled
            \/ \E e \in Edges, p \in Pins : GpioEdge(e, p)

GpioSpec == GpioInit /\ [][GpioNext]_gpioVars

----------------------------------------------------------------------------
\* GpioThreadKept: the thread's pins are in every register what the writes of its
\* calls have asked so far, whatever the handler did to the other pins between a
\* read and its write.  (The handler's own updates may be lost.)
GpioThreadKept == \A r \in Registers : gpioReg[r] \cap ThreadPins = gpioAsked[r]
============================================================================

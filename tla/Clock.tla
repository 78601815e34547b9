------------------------------- MODULE Clock -------------------------------
(* The clock interface of metal/clock.h: the linked lists of rate change      *)
(* callbacks, their traversal by metal_clock_set_rate_hz, and the one thread  *)
(* that calls drivers.  A list cell belongs to a driver: every driver has one *)
(* cell for the pre and one for the post list, so a list is the head and the  *)
(* _next pointer of each cell.  The drivers of this clock extend the module:  *)
(* a callback starts at the label DriverLabel gives it and comes back to      *)
(* "preNext" or "postNext".                                                   *)
EXTENDS Integers, FiniteSets, Sequences

CONSTANTS
    Rates,      \* the rates in Hz the clock can run at
    MaxChanges, \* bound: rate changes the application asks for
    MaxSetups   \* bound: calls that change the set-up of a driver

ASSUME ClockAssumption == /\ Rates \subseteq Nat \ {0} /\ Rates # {}
                          /\ MaxChanges \in Nat /\ MaxSetups \in Nat

Drivers == {"uart", "spi", "i2c", "pwm"}
NoCell == "null"

VARIABLES
    pc,        \* label of the thread
    rate,      \* rate of the clock
    target,    \* argument of the rate change that is running
    pre,       \* list of pre rate change callbacks
    post,      \* list of post rate change callbacks
    cursor,    \* current cell of the traversal
    changes,   \* rate changes so far
    setups     \* set-up calls so far

clockVars == <<rate, target, pre, post, cursor, changes, setups>>

SetUp == /\ setups < MaxSetups
         /\ setups' = setups + 1

EmptyList == [head |-> NoCell, next |-> [d \in Drivers |-> NoCell]]

ClockInit == /\ rate \in Rates /\ target = rate
             /\ pre = EmptyList /\ post = EmptyList
             /\ cursor = NoCell /\ changes = 0

----------------------------------------------------------------------------
\* The cells a walk along _next from the head meets.  As there are no more
\* cells than drivers, that many steps meet all of them.
Reached(list) ==
    LET Step(s) == s \cup {list.next[c] : c \in s \ {NoCell}}
        Walk[n \in 0..Cardinality(Drivers)] ==
            IF n = 0 THEN {list.head} ELSE Step(Walk[n - 1])
    IN  Walk[Cardinality(Drivers)]

\* A walk that meets the end of the list ends; otherwise it goes on for ever.
Ends(list) == NoCell \in Reached(list)

\* Mutation of Append1: it drops the list it is given.
AppendDropping(list, d) == [list EXCEPT !.next[d] = NoCell, !.head = d]

\* _metal_clock_append_to_callbacks: the cell loses its successor first, then
\* becomes the successor of the last cell.  A cell that is in the list already
\* thereby cuts the list behind itself and may become its own successor.
Append1(list, d) ==
    LET cut == [list EXCEPT !.next[d] = NoCell]
        last == CHOOSE c \in Reached(cut) \ {NoCell} : cut.next[c] = NoCell
    IN  IF cut.head = NoCell THEN [cut EXCEPT !.head = d]
                             ELSE [cut EXCEPT !.next[last] = d]

\* The append itself walks to the last cell: without one it never returns.
Appends(list, d) == Ends([list EXCEPT !.next[d] = NoCell])

\* metal_clock_register_pre_rate_change_callback and its post twin, which
\* every driver calls one after the other with its two cells.
RegisterBoth(d) == /\ pre' = Append1(pre, d)
                   /\ post' = Append1(post, d)

----------------------------------------------------------------------------
\* metal_clock_set_rate_hz, on a clock whose driver accepts any of Rates.
SetRateCall(hz) ==
    /\ pc = "idle" /\ changes < MaxChanges
    /\ target' = hz /\ changes' = changes + 1
    /\ cursor' = pre.head
    /\ pc' = "pre"
    /\ UNCHANGED <<rate, pre, post, setups>>

\* _metal_clock_call_all_callbacks calls the callback of the current cell.
CallPre(d) ==
    /\ pc = "pre" /\ cursor = d
    /\ pc' = [uart |-> "uartPre", spi |-> "spiPre", i2c |-> "i2cPre", pwm |-> "pwmPre"][d]
    /\ UNCHANGED clockVars

CallPost(d) ==
    /\ pc = "post" /\ cursor = d
    /\ pc' = [uart |-> "uartPost", spi |-> "spiPost", i2c |-> "i2cPost", pwm |-> "pwmPost"][d]
    /\ UNCHANGED clockVars

\* The callback has returned: current = current->_next, as it is now.
NextCallback ==
    /\ \/ pc = "preNext" /\ cursor' = pre.next[cursor] /\ pc' = "pre"
       \/ pc = "postNext" /\ cursor' = post.next[cursor] /\ pc' = "post"
    /\ UNCHANGED <<rate, target, pre, post, changes, setups>>

\* The pre list is done: the clock driver changes the rate, then the post list.
ChangeRate ==
    /\ pc = "pre" /\ cursor = NoCell
    /\ rate' = target
    /\ cursor' = post.head
    /\ pc' = "post"
    /\ UNCHANGED <<target, pre, post, changes, setups>>

ChangeReturn ==
    /\ pc = "post" /\ cursor = NoCell
    /\ pc' = "idle"
    /\ UNCHANGED clockVars

\* The traversal of the two lists.
ClockThread == \/ \E d \in Drivers : CallPre(d) \/ CallPost(d)
               \/ NextCallback \/ ChangeRate \/ ChangeReturn
============================================================================

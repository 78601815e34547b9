------------------------------ MODULE Devices ------------------------------
(* The units of a chip that share nothing with each other, neither registers  *)
(* nor driver state.  Their steps commute, so that a run looks at one of them *)
(* at a time; which one is chosen at the start.                               *)
EXTENDS Watchdog, Rtc, Pll, Pmp, Counters, Clic, Gpio, BusError, Caches,
        InterruptLines

VARIABLE unit   \* the unit this behaviour is about

vars == <<wdogVars, rtcVars, pllVars, pmpVars, hpmVars, clicVars, gpioVars, beuVars,
          cacheVars, lineVars, unit>>

Units == {"watchdog", "rtc", "pll", "pmp", "counters", "clic", "gpio", "buserror", "caches",
          "lines"}

Init == /\ WdogInit /\ RtcInit /\ PllInit /\ PmpInit /\ HpmInit /\ ClicInit
        /\ GpioInit /\ BeuInit /\ CacheInit /\ LineInit
        /\ unit \in Units

\* What the other units keep while `u` takes a step.
Others(u) == /\ unit = u /\ UNCHANGED unit
             /\ u # "watchdog" => UNCHANGED wdogVars
             /\ u # "rtc" => UNCHANGED rtcVars
             /\ u # "pll" => UNCHANGED pllVars
             /\ u # "pmp" => UNCHANGED pmpVars
             /\ u # "counters" => UNCHANGED hpmVars
             /\ u # "clic" => UNCHANGED clicVars
             /\ u # "gpio" => UNCHANGED gpioVars
             /\ u # "buserror" => UNCHANGED beuVars
             /\ u # "caches" => UNCHANGED cacheVars
             /\ u # "lines" => UNCHANGED lineVars

Next == \/ Others("watchdog") /\ WdogNext
        \/ Others("rtc") /\ RtcNext
        \/ Others("pll") /\ PllNext
        \/ Others("pmp") /\ PmpNext
        \/ Others("counters") /\ HpmNext
        \/ Others("clic") /\ ClicNext
        \/ Others("gpio") /\ GpioNext
        \/ Others("buserror") /\ BeuNext
        \/ Others("caches") /\ CacheNext
        \/ Others("lines") /\ LineNext

Spec == Init /\ [][Next]_vars
============================================================================

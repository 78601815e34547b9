----------------------------- MODULE MCDevices -----------------------------
(* Devices with small sets for its constants.                                *)
EXTENDS Devices

\* The ring oscillator as the boot ROM leaves it, and not yet ready.
Oscillators == {[enable |-> TRUE, ready |-> TRUE, div |-> 4],
                [enable |-> TRUE, ready |-> FALSE, div |-> 4]}

\* Off, power-of-two, top-of-range, and the last two locked.
FewConfigs == {{}, {"R", "W", "A0", "A1"}, {"R", "A0"}, {"R", "A0", "A1", "L"}, {"A0", "L"}}

\* A level or priority of no bits and of some.
SomeBytes == {{}, {7, 5, 4}}
============================================================================

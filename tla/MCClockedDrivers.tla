----------------------------- MODULE MCClockedDrivers -----------------------------
(* ClockedDrivers with small sets for its constants.                                *)
EXTENDS ClockedDrivers

Config(p, m, c, a, d, l) == [protocol |-> p, multi_wire |-> m,
                             cmd |-> c, addr |-> a, dummy |-> d, len |-> l]

\* One wire throughout; a command on one wire, then address and data on four; a
\* command and a dummy frame on one wire, then data on four; four throughout.
FlashConfigs == {Config("single", "all", 0, 0, 0, 2),
                 Config("quad", "addr_data", 1, 1, 0, 3),
                 Config("quad", "data_only", 1, 0, 1, 3),
                 Config("quad", "all", 0, 0, 0, 1)}

AloneAndTogether == {{"uart"}, {"spi"}, {"i2c"}, {"uart", "spi"}, {"pwm"}}
=============================================================================

----------------------------- MODULE MCWatchdog -----------------------------
(* Watchdog by itself, with the constants of its cfg.                        *)
EXTENDS Watchdog
=============================================================================

----------------------------- MODULE MCSpinLock -----------------------------
(* SpinLock with the instances of its cfgs: harts are model values.        *)
EXTENDS SpinLock
=============================================================================

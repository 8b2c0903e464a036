------------------------------- MODULE MCBle -------------------------------
(* Ble for TLC: devices are interchangeable.                               *)
EXTENDS Ble, TLC

Symmetry == Permutations(Devices)
=============================================================================

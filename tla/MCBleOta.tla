------------------------------ MODULE MCBleOta ------------------------------
(* A small instance of BleOta: packets of one and of two units, so that a  *)
(* stale packet size is both too short and too long.                       *)
EXTENDS BleOta
=============================================================================

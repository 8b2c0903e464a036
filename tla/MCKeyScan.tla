------------------------------ MODULE MCKeyScan ------------------------------
(***************************************************************************)
(* KeyScan for TLC: MaxTime is beyond Half ticks, where a difference of    *)
(* two times turns negative, and beyond 2 * Half.                          *)
(***************************************************************************)
EXTENDS KeyScan
=============================================================================

------------------------------ MODULE MCParams ------------------------------
(* A small instance of Params: one value of each kind besides the default. *)
EXTENDS Params
=============================================================================

---------------------------- MODULE MCProvisioning ----------------------------
(***************************************************************************)
(* Provisioning for TLC: the two lengths are its only bounds.              *)
(***************************************************************************)
EXTENDS Provisioning
=============================================================================

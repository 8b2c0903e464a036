----------------------------- MODULE MCGateway -----------------------------
(***************************************************************************)
(* Gateway for TLC.  Its state is finite for every QueueLen: no further    *)
(* bound is needed.                                                        *)
(***************************************************************************)
EXTENDS Gateway
=============================================================================

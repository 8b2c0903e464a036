------------------------------- MODULE MCMqtt -------------------------------
(* Mqtt for TLC: topics and messages are interchangeable.                  *)
EXTENDS Mqtt, TLC

Symmetry == Permutations(Topics) \cup Permutations(Messages)
=============================================================================

------------------------------ MODULE MCUpdate ------------------------------
(* Update with files of three chunks and two downloads, one of which may   *)
(* open while another is being ended.                                      *)
EXTENDS Update
=============================================================================

------------------------------- MODULE Outbox -------------------------------
(***************************************************************************)
(* What mqtt_publish promises its callers: a publication it has accepted   *)
(* reaches the server at most once, and nothing else does.  It does not    *)
(* promise an order, nor that every publication arrives.                   *)
(***************************************************************************)
EXTENDS Sequences, SequencesExt

CONSTANT Messages

VARIABLES
    accepted,       \* publications handed to mqtt_publish
    delivered       \* publications handed to the server, in order

Init ==
    /\ accepted = {}
    /\ delivered = <<>>

Accept(m) ==
    /\ m \notin accepted
    /\ accepted' = accepted \cup {m}
    /\ UNCHANGED delivered

Deliver(m) ==
    /\ m \in accepted \ ToSet(delivered)
    /\ delivered' = Append(delivered, m)
    /\ UNCHANGED accepted

Next == \E m \in Messages : Accept(m) \/ Deliver(m)

Spec == Init /\ [][Next]_<<accepted, delivered>>
=============================================================================

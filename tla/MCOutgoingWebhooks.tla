------------------------ MODULE MCOutgoingWebhooks ------------------------
(* Small instances of OutgoingWebhooks for TLC.                            *)
EXTENDS OutgoingWebhooks

CONSTANTS d1, d2

\* The two events are an erasure and another.
MixedInit == Init /\ row[d1].event = "erasure" /\ row[d2].event = "other"
MixedSpec == MixedInit /\ [][Next]_vars /\ Fairness
=============================================================================

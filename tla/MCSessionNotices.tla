-------------------------- MODULE MCSessionNotices --------------------------
(* Small instances of SessionNotices for TLC.                              *)
EXTENDS SessionNotices, TLC

CONSTANT m1

\* Members and workers are interchangeable; only the run without liveness
\* properties uses it.
Symmetry == Permutations(Members) \cup Permutations(Workers)

\* A day before the start: one member joined earlier and was told so.
Told == <<m1, "rsvp_confirmed", 1>>
DayBefore ==
  /\ series = "scheduled" /\ occurrence = "scheduled"
  /\ capacity = 1 /\ clock = Day
  /\ row = [m \in Members |-> IF m = m1 THEN [state |-> "active", ticket |-> 1, since |-> 1]
                              ELSE NoRow]
  /\ nextTicket = 2
  /\ request = [m \in Members |-> Idle]
  /\ jobs = <<>> /\ named = {Told}
  /\ upsets = 0 /\ excuse = {}
  /\ run = [w \in Workers |-> AtRest]
  /\ ledger = {Told} /\ mail = SetToBag({Told}) /\ lost = EmptyBag
  /\ gaveUp = FALSE

DayBeforeSpec == DayBefore /\ [][NoticeNext]_allVars /\ NoticeFairness
=============================================================================

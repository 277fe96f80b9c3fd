--------------------------- MODULE MCEventPlaces ---------------------------
(* Small instances of EventPlaces for TLC.                                 *)
EXTENDS EventPlaces, TLC

CONSTANTS m1, m2, m3

\* Two records of one account, and another's: the two are interchangeable.
Symmetry == Permutations({m1, m2})

\* The line run starts with every ticket on sale, one seat on each priced one
\* and payments on: an edit takes a ticket off sale, changes a capacity, moves
\* the event, switches payments off or takes a client away.
LineInit ==
  /\ Init /\ online
  /\ \A t \in Tickets :
       ticket[t] = [sale |-> "live", capacity |-> IF t \in Priced THEN 1 ELSE 2]
LineSpec == LineInit /\ [][Next]_vars
=============================================================================

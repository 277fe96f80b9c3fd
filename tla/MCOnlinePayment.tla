-------------------------- MODULE MCOnlinePayment --------------------------
(* OnlinePayment on small instances.                                       *)
EXTENDS OnlinePayment, TLC

\* Charges, checkouts, tabs and handlers have no identity of their own.
Symmetry == Permutations(Checkouts) \cup Permutations(Tabs) \cup Permutations(Workers)
=============================================================================

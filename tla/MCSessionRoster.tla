-------------------------- MODULE MCSessionRoster --------------------------
(* Small instances of SessionRoster for TLC: three members and a capacity  *)
(* of one or two, so that somebody always waits.                           *)
EXTENDS SessionRoster, TLC

\* Members are interchangeable.
Symmetry == Permutations(Members)
=============================================================================

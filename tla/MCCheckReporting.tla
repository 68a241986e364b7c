-------------------------- MODULE MCCheckReporting --------------------------
(* Small instances of CheckReporting for TLC. *)
EXTENDS CheckReporting, TLC

CONSTANTS A, B

OneSession  == {A}
TwoSessions == {A, B}

\* The sessions are interchangeable, and nothing here is a liveness property.
EitherSession == Permutations(TwoSessions)
=============================================================================

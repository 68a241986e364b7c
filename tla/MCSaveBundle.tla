---------------------------- MODULE MCSaveBundle ----------------------------
(* Small instances of SaveBundle for TLC. *)
EXTENDS SaveBundle

CONSTANTS A, B

TwoSessions == {A, B}
TheirNames  == {1, 2}
OwnNames    == [s \in TwoSessions |-> IF s = A THEN 1 ELSE 2]
OneName     == [s \in TwoSessions |-> 1]

Entry(save, state) == [save |-> save, state |-> state]
StateOfA  == {[s \in TwoSessions |-> Entry(None, IF s = A THEN 0 ELSE None)]}
NoFiles   == {[n \in TheirNames |-> None]}
\* B's container, copied over the file of A, or no file at all.
CopiedOver ==
    NoFiles \cup {[n \in TheirNames |->
                     IF n = 1 THEN [of |-> B, save |-> 0, state |-> 0] ELSE None]}
NoLegacy  == {[s \in TwoSessions |-> Entry(None, None)]}
=============================================================================

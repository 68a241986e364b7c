-------------------------- MODULE MCInboundGrants --------------------------
(* Small instances of InboundGrants for TLC. *)
EXTENDS InboundGrants

CONSTANTS A, B

OneSession  == {A}
TwoSessions == {A, B}

\* Every kind, a tier beyond the last one, a trap ahead of real items.
CleanStream == [s \in Session |->
    IF s = A THEN <<"tiered", "trap", "kear", "tiered">> ELSE <<"item", "void">>]

PlainStream == [s \in Session |-> <<"item">>]
=============================================================================

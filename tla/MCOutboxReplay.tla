---------------------------- MODULE MCOutboxReplay ----------------------------
(***************************************************************************)
(* Instances of OutboxReplay for TLC.                                      *)
(***************************************************************************)
EXTENDS OutboxReplay

CONSTANTS c1, c2

\* One clock for everyone, and a client whose clock is one instant ahead.
NoSkew == [c \in Clients |-> 0]
SecondAhead == [c \in Clients |-> IF c = c2 THEN 1 ELSE 0]
=============================================================================

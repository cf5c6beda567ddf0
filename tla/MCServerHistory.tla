---------------------------- MODULE MCServerHistory ----------------------------
(* A small instance of the open server and its history, for TLC. *)
EXTENDS ServerHistory

CONSTANTS c1, c2, c3

\* Three seats, one client for each, with packets for JOIN and two hands.
MCPort3     == [c \in Conns |-> IF c = c1 THEN 0 ELSE IF c = c2 THEN 1 ELSE 2]
MCSends3    == [c \in Conns |-> 3]
MCAmounts   == {}
MCStrengths == {1, 2}

=============================================================================

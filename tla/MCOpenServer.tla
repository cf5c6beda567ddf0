---------------------------- MODULE MCOpenServer ----------------------------
(* A small instance of the open server for TLC. *)
EXTENDS OpenServer

CONSTANTS c1, c2, c3

\* Two seats, and c3 may take the seat of c1.
MCPort      == [c \in Conns |-> IF c = c2 THEN 1 ELSE 0]
\* JOIN and two hands; the client of the third connection has one packet less.
MCSends     == [c \in Conns |-> IF c = c3 THEN 2 ELSE 3]
MCAmounts   == {}
MCStrengths == {1, 2}

=============================================================================

---------------------------- MODULE MCPokerSystem ----------------------------
(* The system with one client for each seat, for TLC. *)
EXTENDS PokerSystem

MCPort      == [c \in Conns |-> c]
\* Two clients of three have the longer scripts.
MCLines     == [c \in Conns |-> IF c = 0 THEN 1 ELSE 4]
\* Every script has up to three lines.
MCLines3    == [c \in Conns |-> 3]
MCAmounts   == {}
MCStrengths == {1}

=============================================================================

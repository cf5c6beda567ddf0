----------------------------- MODULE MCTuiSystem -----------------------------
(* The system with one terminal client for each seat, for TLC. *)
EXTENDS TuiSystem

MCPort      == [c \in Conns |-> c]
\* One user goes on longer than the others.
MCClicks    == [c \in Conns |-> IF c = 0 THEN 3 ELSE 2]
MCAmounts   == {2}
MCStrengths == {1}

=============================================================================

------------------------------ MODULE ChipLedger ------------------------------
(***************************************************************************)
(* What a poker table promises about chips, with no streets, turns or bets:*)
(* chips move only from the stack of a seat that is in the hand to the pot *)
(* and, all of them at once, from the pot to the stack of a seat that is   *)
(* still in the hand.  A seat that is out stays out.                       *)
(*                                                                         *)
(* PokerTable is shown to implement this specification.                    *)
(***************************************************************************)
EXTENDS Integers

CONSTANTS Seat, StartingStack

VARIABLES
    stack,   \* chips in front of each seat
    pot,     \* chips in the pot
    in       \* seats that may still put chips in or win the pot

ledgerVars == <<stack, pot, in>>

LedgerInit ==
    /\ stack = [p \in Seat |-> StartingStack]
    /\ pot = 0
    /\ in = {}

\* A seat sits down, which it may do only while nothing is at stake.
Enter(p) ==
    /\ pot = 0
    /\ in' = in \cup {p}
    /\ UNCHANGED <<stack, pot>>

PutIn(p, chips) ==
    /\ p \in in
    /\ chips \in 0 .. stack[p]
    /\ stack' = [stack EXCEPT ![p] = @ - chips]
    /\ pot' = pot + chips
    /\ UNCHANGED in

GiveUp(p) ==
    /\ in' = in \ {p}
    /\ UNCHANGED <<stack, pot>>

Award(p) ==
    /\ p \in in
    /\ stack' = [stack EXCEPT ![p] = @ + pot]
    /\ pot' = 0
    /\ UNCHANGED in

LedgerNext ==
    \E p \in Seat :
        \/ Enter(p)
        \/ \E chips \in 0 .. stack[p] : PutIn(p, chips)
        \/ GiveUp(p)
        \/ Award(p)

LedgerSpec == LedgerInit /\ [][LedgerNext]_ledgerVars

=============================================================================

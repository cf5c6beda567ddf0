----------------------------- MODULE HandProtocol -----------------------------
(***************************************************************************)
(* What a poker server promises to those who sit at its table, with no     *)
(* sockets, packets or rounds of questions: seats are taken before the     *)
(* first hand and given up between hands only; a hand is dealt to all who  *)
(* sit, and to two at least; it goes through the four streets in order,    *)
(* with the cards of each street on the board and nobody dealt in or out   *)
(* on the way; and the table may stop at any time, for good.               *)
(*                                                                         *)
(* OpenServer is shown to implement this specification.                    *)
(***************************************************************************)
EXTENDS Naturals

CONSTANT Seat

VARIABLES
    stage,     \* "seating", "between" hands, a street of a hand, or "over"
    players,   \* seats that play
    dealt,     \* seats that hold cards of the hand
    board      \* cards on the board

handVars == <<stage, players, dealt, board>>

Following == [PREFLOP |-> "FLOP", FLOP |-> "TURN", TURN |-> "RIVER"]
OnBoard   == [PREFLOP |-> 0, FLOP |-> 3, TURN |-> 4, RIVER |-> 5]

HandInit == stage = "seating" /\ players = {} /\ dealt = {} /\ board = 0

SitDown(p) ==
    /\ stage = "seating"
    /\ players' = players \cup {p}
    /\ UNCHANGED <<stage, dealt, board>>

Open ==
    /\ stage = "seating" /\ players # {}
    /\ stage' = "between"
    /\ UNCHANGED <<players, dealt, board>>

GetUp(p) ==
    /\ stage = "between"
    /\ players' = players \ {p}
    /\ UNCHANGED <<stage, dealt, board>>

Deal ==
    /\ stage = "between" /\ \E p, q \in players : p # q
    /\ stage' = "PREFLOP"
    /\ dealt' = players
    /\ UNCHANGED <<players, board>>

Street ==
    /\ stage \in DOMAIN Following
    /\ stage' = Following[stage]
    /\ board' = OnBoard[stage']
    /\ UNCHANGED <<players, dealt>>

EndHand ==
    /\ stage = "RIVER"
    /\ stage' = "between"
    /\ dealt' = {} /\ board' = 0
    /\ UNCHANGED players

Stop ==
    /\ stage' = "over"
    /\ dealt' = {} /\ board' = 0
    /\ UNCHANGED players

HandNext ==
    \/ \E p \in Seat : SitDown(p) \/ GetUp(p)
    \/ Open \/ Deal \/ Street \/ EndHand \/ Stop

HandProtocolSpec == HandInit /\ [][HandNext]_handVars

=============================================================================

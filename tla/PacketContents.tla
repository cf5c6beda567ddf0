---------------------------- MODULE PacketContents ----------------------------
(***************************************************************************)
(* What an INFO packet tells a client (build_info_packet over save_state), *)
(* and what the terminal client offers its user from it.                   *)
(***************************************************************************)
EXTENDS PokerTable

\* Mutant: an owed answer is shown as it is stored.
ShownBetRaw(p) == current_bets[p]

\* A bet of -1, which stands for an owed answer, is shown as 0.
ShownBet(p) == IF current_bets[p] < 0 THEN 0 ELSE current_bets[p]

\* 1 for in hand, 0 for folded, 2 for left, and for all in.
ShownStatus(p) ==
    CASE player_status[p] = "ACTIVE" -> 1
      [] player_status[p] = "FOLDED" -> 0
      [] OTHER -> 2

InfoPacket(p) ==
    [player_cards    |-> player_hands[p],
     community_cards |-> community_cards,
     player_stacks   |-> player_stacks,
     pot_size        |-> pot_size,
     dealer          |-> dealer_player,
     player_turn     |-> current_player,
     bet_size        |-> highest_bet,
     player_bets     |-> [q \in Seats |-> ShownBet(q)],
     player_status   |-> [q \in Seats |-> ShownStatus(q)]]

\* Button 0 of the game screen.
FirstButton(info) == [type |-> IF info.bet_size = 0 THEN "CHECK" ELSE "CALL", amount |-> 0]

-----------------------------------------------------------------------------
(* Properties *)

\* The caller waits for the seat whose turn it is.
Asked(p) == phase = "hand" /\ ~CheckBettingEnd /\ p = current_player

\* Whenever the betting is not over, the move the terminal client offers to the
\* player it waits for is one handle_client_action accepts, so that he is never
\* left with a bet he can neither check nor call.
OfferedMoveIsAccepted ==
    \A p \in Seats : Asked(p) => Accepts(p, FirstButton(InfoPacket(p)))

\* Nobody is waited for who has nothing to answer: the seat the caller waits for
\* has a bet to call, and the INFO says how much, the bet less what is shown as
\* its own.
AskedSeatOwesWhatIsShown ==
    \A p \in Seats : Asked(p) =>
        LET info == InfoPacket(p)
        IN  /\ current_bets[p] = -1
            /\ info.bet_size - info.player_bets[p] = CallAmount(p)

=============================================================================

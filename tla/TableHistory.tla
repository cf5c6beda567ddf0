----------------------------- MODULE TableHistory -----------------------------
(***************************************************************************)
(* PokerTable with history variables.  One is the chips each seat has put  *)
(* into the pot in this street: the engine keeps only current_bets, where a*)
(* raise overwrites the bets of the others with -1.  The other remembers   *)
(* which seats joined, which a status of FOLDED does not tell.             *)
(***************************************************************************)
EXTENDS PokerTable

VARIABLES
    paid,     \* chips put in by each seat since the street began
    seated    \* seats whose JOIN was accepted

historyVars == <<tableVars, paid, seated>>

NothingPaid == [p \in Seats |-> 0]

SameStreet == phase = "hand" /\ phase' = "hand" /\ round_stage' = round_stage

Record ==
    /\ paid' = IF SameStreet
               THEN [p \in Seats |-> paid[p] + player_stacks[p] - player_stacks'[p]]
               ELSE NothingPaid
    /\ seated' = seated \cup {p \in Seats : player_status'[p] = "ACTIVE"}

HistoryInit == Init /\ paid = NothingPaid /\ seated = {}
HistoryNext == Next /\ Record
HistorySpec == HistoryInit /\ [][HistoryNext]_historyVars

\* A caller that goes on: it deals the next street or ends the hand when the
\* betting is over, and otherwise brings the packets of the seat whose turn it is
\* until one is accepted.
Acts == \E p \in Seats, in \in ActionPackets : HandleClientAction(p, in)
FairSpec ==
    /\ HistorySpec
    /\ WF_historyVars(Acts /\ Record)
    /\ WF_historyVars(ServerCommunity /\ Record)
    /\ WF_historyVars(ServerEnd /\ Record)

-----------------------------------------------------------------------------
(* Properties *)

\* Nobody stays in cheaply: a seat that can still act and counts as having
\* matched the highest bet has put at least that much in during this street.
MatchedHasPaid ==
    phase = "hand" =>
        \A p \in Active : current_bets[p] = highest_bet => paid[p] >= highest_bet

\* No betting goes on for ever: whatever is raised, called and folded, a hand
\* comes to its showdown or everybody is all in and server_community is called,
\* whose scan for an ACTIVE seat does not end then (game_logic.c:309).
BettingEnds == phase = "hand" ~> phase = "reset" \/ (phase = "spin" /\ Active = {})

\* No move is free while the caller waits for one: it costs chips or the seat its
\* say, and neither comes back within the street.  So a street has no more moves
\* than there are chips and seats, whoever raises whom.
EveryMoveCosts ==
    [][SameStreet /\ ~CheckBettingEnd =>
          /\ pot_size' >= pot_size /\ Active' \subseteq Active
          /\ pot_size' > pot_size \/ Active' # Active]_historyVars

\* Who calls has paid the bet to call and no more: game_logic.h:33 says that
\* current_bets is the "amount bet this round", and in the expected logs of test4
\* a player who has bet 5 calls 10 with 5 more.  A raise forgets what the others
\* have bet, and the call of one who had bet takes the whole bet again.
CallPaysTheDifference ==
    [][\A p \in Active :
          /\ SameStreet /\ highest_bet' = highest_bet
          /\ current_bets[p] # highest_bet /\ current_bets'[p] = highest_bet
          => paid'[p] <= highest_bet]_historyVars

\* In the expected logs of test4 every seat that is still in gets its turn after
\* a raise before the street closes.  check_betting_end closes it earlier.
StreetClosesWhenAnswered ==
    [][phase = "hand" /\ round_stage' # round_stage =>
          \A p \in Active : current_bets[p] # -1]_historyVars

\* In the expected logs of test4 the player who folded in the first hand is
\* dealt in and plays in the second.  No function of the engine clears FOLDED.
EverySeatIsDealtIn ==
    phase = "hand" => \A p \in seated \cap NonLeft : player_hands[p] # NoHand

=============================================================================

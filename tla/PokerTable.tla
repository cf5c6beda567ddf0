----------------------------- MODULE PokerTable -----------------------------
(***************************************************************************)
(* The table engine: game_state_t and the functions that change it, from   *)
(* game_logic.c and client_action_handler.c.  The engine is a library; the *)
(* variable phase is the place its caller has reached in the life of a     *)
(* hand, reset_game_state -> ready answers -> server_deal -> betting and   *)
(* streets -> server_end.  The caller is any program that keeps to that    *)
(* order, asks a seat to act only while two contenders are left, and goes  *)
(* to the next street only when check_betting_end says so.  What the       *)
(* shipped main() makes of the engine is module PokerServer.               *)
(*                                                                         *)
(* A card is the position it has in the shuffled deck, so that a card in   *)
(* two places shows as a position in two places.  What a hand is worth is  *)
(* chosen at the showdown (value_of_hand itself is module HandValue).      *)
(***************************************************************************)
EXTENDS Integers, FiniteSets

CONSTANTS
    MAX_PLAYERS,     \* seats at the table
    StartingStack,   \* chips each seat starts with
    Amounts,         \* the amounts a RAISE packet may name
    Strengths,       \* what value_of_hand may return
    DECK_SIZE        \* cards in the deck

ASSUME SeatsAssumption == MAX_PLAYERS \in Nat \ {0, 1}
ASSUME StackAssumption == StartingStack \in Nat
\* An amount of INT_MAX would overflow newAmt - (-1); see the README.
ASSUME AmountsAssumption == Amounts \subseteq Int
\* The category in the upper bits makes the value of five or more cards positive;
\* it is a uint64_t.
ASSUME StrengthsAssumption ==
    /\ Strengths \subseteq Nat \ {0}
    /\ \E best \in Strengths : \A value \in Strengths : value <= best
ASSUME DeckAssumption == DECK_SIZE \in Nat /\ 2 * MAX_PLAYERS + 5 <= DECK_SIZE

VARIABLES
    player_status,    \* FOLDED, ACTIVE, ALLIN or LEFT
    player_stacks,    \* chips in front of each seat
    current_bets,     \* the bet of each seat, -1 when it owes an answer to a raise
    highest_bet,      \* the bet to call
    pot_size,         \* chips in the pot
    current_player,   \* the seat whose turn it is, -1 for none
    dealer_player,    \* the seat with the button
    round_stage,      \* the street
    next_card,        \* position in the deck of the next card to draw
    player_hands,     \* the two cards of each seat
    community_cards,  \* the set of cards on the board
    phase             \* where the caller is

tableVars == <<player_status, player_stacks, current_bets, highest_bet, pot_size,
               current_player, dealer_player, round_stage, next_card,
               player_hands, community_cards, phase>>
cardVars  == <<next_card, player_hands, community_cards>>

-----------------------------------------------------------------------------
(* Seats *)

Seats    == 0 .. MAX_PLAYERS - 1
Statuses == {"FOLDED", "ACTIVE", "ALLIN", "LEFT"}
Stages   == {"INIT", "PREFLOP", "FLOP", "TURN", "RIVER"}
Phases   == {"join", "reset", "ready", "hand", "halt", "spin"}
NoHand   == <<-1, -1>>

SeatsThat(status) == {p \in Seats : player_status[p] = status}
Active     == SeatsThat("ACTIVE")
Contenders == Active \cup SeatsThat("ALLIN")
NonLeft    == Seats \ SeatsThat("LEFT")

\* Mutant: one contender is enough to go on.
ContestedByOne == Contenders # {}

\* Two contenders are left: the hand is not decided yet.
Contested == \E p, q \in Contenders : p # q

\* How many times p has to be advanced modulo MAX_PLAYERS to come to q.
Steps(p, q) == IF q > p THEN q - p ELSE q - p + MAX_PLAYERS

\* The scans "x = (p + 1) % MAX_PLAYERS; while(x not in S) x = (x + 1) % ...".
NextIn(p, S) == CHOOSE q \in S : \A r \in S : Steps(p, q) <= Steps(p, r)

-----------------------------------------------------------------------------
(* Initial state and the seats' arrival *)

Init ==
    /\ player_status = [p \in Seats |-> "FOLDED"]
    /\ player_stacks = [p \in Seats |-> StartingStack]
    /\ current_bets = [p \in Seats |-> 0]
    /\ highest_bet = 0
    /\ pot_size = 0
    /\ current_player = 1
    /\ dealer_player = 0
    /\ round_stage = "INIT"
    /\ next_card = 0
    /\ player_hands = [p \in Seats |-> <<0, 0>>]
    /\ community_cards = {0}
    /\ phase = "join"

Join(p) ==
    /\ phase = "join"
    /\ player_status' = [player_status EXCEPT ![p] = "ACTIVE"]
    /\ UNCHANGED <<player_stacks, current_bets, highest_bet, pot_size, current_player,
                   dealer_player, round_stage, cardVars, phase>>

JoinDone ==
    /\ phase = "join"
    /\ Active # {}
    /\ phase' = "reset"
    /\ UNCHANGED <<player_status, player_stacks, current_bets, highest_bet, pot_size,
                   current_player, dealer_player, round_stage, cardVars>>

-----------------------------------------------------------------------------
(* Between hands *)

\* The button moves past the seats that left, except before the first hand.
NextDealer ==
    IF round_stage # "INIT" THEN NextIn(dealer_player, NonLeft) ELSE dealer_player

ResetGameState ==
    /\ phase = "reset"
    /\ next_card' = 0
    /\ community_cards' = {}
    /\ player_hands' = [p \in Seats |-> NoHand]
    /\ current_bets' = [p \in Seats |-> 0]
    /\ highest_bet' = 0
    /\ pot_size' = 0
    /\ dealer_player' = NextDealer
    /\ current_player' = -1
    /\ round_stage' = "PREFLOP"
    /\ phase' = "ready"
    /\ UNCHANGED <<player_status, player_stacks>>

\* Mutant: the connection is closed and the seat stays.
LeaveKeepsStatus(p) ==
    /\ phase = "ready"
    /\ p \in NonLeft
    /\ UNCHANGED tableVars

\* A seat answers LEAVE, or its connection is gone, when it is asked to be ready.
Leave(p) ==
    /\ phase = "ready"
    /\ p \in NonLeft
    /\ player_status' = [player_status EXCEPT ![p] = "LEFT"]
    /\ UNCHANGED <<player_stacks, current_bets, highest_bet, pot_size, current_player,
                   dealer_player, round_stage, cardVars, phase>>

\* Fewer than two seats said READY.
Halt ==
    /\ phase = "ready"
    /\ phase' = "halt"
    /\ UNCHANGED <<player_status, player_stacks, current_bets, highest_bet, pot_size,
                   current_player, dealer_player, round_stage, cardVars>>

\* Seats are dealt in ascending order, two consecutive cards each.
DealtBefore(p) == Cardinality({q \in Active : q < p})

\* Mutant: one card is drawn for two.
DealtHandOverlaps(p) == <<next_card + DealtBefore(p), next_card + DealtBefore(p) + 1>>

DealtHand(p) ==
    <<next_card + 2 * DealtBefore(p), next_card + 2 * DealtBefore(p) + 1>>

\* The seat that opens: the scan gives up at the dealer when nobody is ACTIVE.
FirstToAct == IF Active = {} THEN dealer_player ELSE NextIn(dealer_player, Active)

\* Two seats at least said READY, so two have not left.
EnoughReady == \E p, q \in NonLeft : p # q

ServerDeal ==
    /\ phase = "ready"
    /\ EnoughReady
    /\ current_bets' = [p \in Seats |-> 0]
    /\ highest_bet' = 0
    /\ current_player' = FirstToAct
    /\ player_hands' = [p \in Seats |-> IF p \in Active THEN DealtHand(p) ELSE player_hands[p]]
    /\ next_card' = next_card + 2 * Cardinality(Active)
    /\ phase' = "hand"
    /\ UNCHANGED <<player_status, player_stacks, pot_size, dealer_player, round_stage,
                   community_cards>>

-----------------------------------------------------------------------------
(* handle_client_action: a packet it refuses (return -1) changes nothing.  *)

MayAct(p) == phase = "hand" /\ p = current_player /\ player_status[p] = "ACTIVE"

\* callAmt
CallAmount(p) ==
    IF current_bets[p] < 0 THEN highest_bet ELSE highest_bet - current_bets[p]

\* The chips that leave p's stack for the pot.
Stake(p, chips) ==
    /\ player_stacks' = [player_stacks EXCEPT ![p] = @ - chips]
    /\ pot_size' = pot_size + chips

\* Mutant: whoever has no bet of its own may check.
CanCheckUnbet(p) == current_bets[p] <= 0

CanCheck(p) == CallAmount(p) = 0

Check(p) ==
    /\ current_bets' = [current_bets EXCEPT ![p] = highest_bet]
    /\ UNCHANGED <<player_stacks, pot_size, highest_bet, player_status>>

CanCall(p) == CallAmount(p) # 0

Call(p) ==
    /\ player_stacks[p] > CallAmount(p)
    /\ Stake(p, CallAmount(p))
    /\ current_bets' = [current_bets EXCEPT ![p] = highest_bet]
    /\ UNCHANGED <<highest_bet, player_status>>

\* Mutant: the pot is given chips the caller does not have.
CallAllInInFull(p) ==
    /\ player_stacks[p] <= CallAmount(p)
    /\ player_stacks' = [player_stacks EXCEPT ![p] = 0]
    /\ pot_size' = pot_size + CallAmount(p)
    /\ player_status' = [player_status EXCEPT ![p] = "ALLIN"]
    /\ current_bets' = [current_bets EXCEPT ![p] = highest_bet]
    /\ UNCHANGED highest_bet

\* A call with too few chips puts in all of them and still counts as matched.
CallAllIn(p) ==
    /\ player_stacks[p] <= CallAmount(p)
    /\ Stake(p, player_stacks[p])
    /\ player_status' = [player_status EXCEPT ![p] = "ALLIN"]
    /\ current_bets' = [current_bets EXCEPT ![p] = highest_bet]
    /\ UNCHANGED highest_bet

\* Mutant: the stack is not looked at.
CanRaiseOnCredit(p, newAmt) == newAmt > highest_bet /\ newAmt > current_bets[p]

CanRaise(p, newAmt) ==
    /\ newAmt > highest_bet
    /\ newAmt > current_bets[p]
    /\ player_stacks[p] >= newAmt - current_bets[p]

\* Mutant: the other seats are not marked.
RaiseUnanswered(p, newAmt) ==
    /\ Stake(p, newAmt - current_bets[p])
    /\ highest_bet' = newAmt
    /\ current_bets' = [current_bets EXCEPT ![p] = newAmt]
    /\ UNCHANGED player_status

\* Mutant: the raise is paid, the call it contains is not.
RaiseWithoutCall(p, newAmt) ==
    /\ Stake(p, newAmt - highest_bet)
    /\ highest_bet' = newAmt
    /\ current_bets' = [q \in Seats |-> IF q = p THEN newAmt
                                        ELSE IF q \in Active THEN -1
                                        ELSE current_bets[q]]
    /\ UNCHANGED player_status

\* Every other ACTIVE seat now owes an answer, which is written as a bet of -1.
Raise(p, newAmt) ==
    /\ Stake(p, newAmt - current_bets[p])
    /\ highest_bet' = newAmt
    /\ current_bets' = [q \in Seats |-> IF q = p THEN newAmt
                                        ELSE IF q \in Active THEN -1
                                        ELSE current_bets[q]]
    /\ UNCHANGED player_status

Fold(p) ==
    /\ player_status' = [player_status EXCEPT ![p] = "FOLDED"]
    /\ UNCHANGED <<player_stacks, pot_size, highest_bet, current_bets>>

\* Mutants: the seat next to p, ACTIVE or not; the scan starts at seat 0.
PassTurnToNeighbour(p) == current_player' = (p + 1) % MAX_PLAYERS
PassTurnFromZero(p) ==
    current_player' =
        NextIn(MAX_PLAYERS - 1, {q \in Seats : player_status'[q] = "ACTIVE"} \cup {p})

\* The scan for the next ACTIVE seat stops at p when there is no other.
PassTurn(p) ==
    current_player' = NextIn(p, {q \in Seats : player_status'[q] = "ACTIVE"} \cup {p})

\* The packets that ask for something in the betting.
ActionPackets ==
    [type : {"CHECK", "CALL", "FOLD"}, amount : {0}] \cup [type : {"RAISE"}, amount : Amounts]

\* Whether the answer is ACK (return 0) or NACK (return -1).
Accepts(p, in) ==
    /\ MayAct(p)
    /\ \/ in.type = "CHECK" /\ CanCheck(p)
       \/ in.type = "CALL" /\ CanCall(p)
       \/ in.type = "RAISE" /\ CanRaise(p, in.amount)
       \/ in.type = "FOLD"

HandleClientAction(p, in) ==
    /\ Contested
    /\ Accepts(p, in)
    /\ \/ in.type = "CHECK" /\ Check(p)
       \/ in.type = "CALL" /\ Call(p)
       \/ in.type = "CALL" /\ CallAllIn(p)
       \/ in.type = "RAISE" /\ Raise(p, in.amount)
       \/ in.type = "FOLD" /\ Fold(p)
    /\ PassTurn(p)
    /\ UNCHANGED <<dealer_player, round_stage, cardVars, phase>>

-----------------------------------------------------------------------------
(* Streets and showdown *)

\* The seats whose bet check_betting_end can see: -1 is also its mark for
\* "no bet seen yet", so a seat that owes an answer does not start the scan.
Bidders == {p \in Active : current_bets[p] # -1}

\* Mutant: a street without a bet is not over.
CheckBettingEndAfterBet == ~Contested \/ (highest_bet > 0 /\ Bidders = Active)

CheckBettingEnd ==
    \/ ~Contested
    \/ Bidders = {}
    \/ \E lead \in Bidders :
          /\ \A p \in Bidders : lead <= p
          /\ \A p \in Active : p > lead => current_bets[p] = current_bets[lead]
          /\ current_bets[lead] = highest_bet

\* Mutant: a street is skipped.
NextStageSkips == [PREFLOP |-> "TURN", FLOP |-> "TURN", TURN |-> "RIVER"]

NextStage == [PREFLOP |-> "FLOP", FLOP |-> "TURN", TURN |-> "RIVER"]
NewCards  == [PREFLOP |-> 3, FLOP |-> 1, TURN |-> 1]

\* The scan for the first seat to act has no way out when nobody is ACTIVE:
\* the cards are out and the bets are cleared, and the call never returns.
ServerCommunity ==
    /\ phase = "hand"
    /\ CheckBettingEnd
    /\ round_stage # "RIVER"
    /\ round_stage' = NextStage[round_stage]
    /\ community_cards' =
          community_cards \cup next_card .. next_card + NewCards[round_stage] - 1
    /\ next_card' = next_card + NewCards[round_stage]
    /\ current_bets' = [p \in Seats |-> IF p \in Active THEN 0 ELSE current_bets[p]]
    /\ highest_bet' = 0
    /\ IF Active = {}
       THEN phase' = "spin" /\ UNCHANGED current_player
       ELSE current_player' = NextIn(dealer_player, Active) /\ UNCHANGED phase
    /\ UNCHANGED <<player_status, player_stacks, pot_size, dealer_player, player_hands>>

\* The values value_of_hand may give.  A contender that was not dealt in plays
\* the five cards on the board, and no seven cards are worth less than those.
HandValues ==
    {value \in [Seats -> Strengths] :
        \A p, q \in Seats : player_hands[p] = NoHand => value[p] <= value[q]}

\* Mutants: a seat that is all in, or any seat, folded or not.
FindWinnerNotAllIn(value) ==
    LET best == {p \in Active : \A q \in Active : value[q] <= value[p]}
    IN  IF best = {} THEN -1 ELSE CHOOSE p \in best : TRUE
FindWinnerAnySeat(value) == CHOOSE p \in Seats : \A q \in Seats : value[q] <= value[p]

\* find_winner: the lowest seat among the contenders with the best hand, -1 for none.
FindWinner(value) ==
    LET best == {p \in Contenders : \A q \in Contenders : value[q] <= value[p]}
    IN  IF Contenders = {} THEN -1
        ELSE CHOOSE p \in best : \A q \in best : p <= q

ServerEnd ==
    /\ phase = "hand"
    /\ CheckBettingEnd
    /\ round_stage = "RIVER"
    /\ \E value \in HandValues :
          LET won == FindWinner(value)
          IN  IF won \in Seats
              THEN /\ player_stacks' = [player_stacks EXCEPT ![won] = @ + pot_size]
                   /\ pot_size' = 0
              ELSE UNCHANGED <<player_stacks, pot_size>>
    /\ phase' = "reset"
    /\ UNCHANGED <<player_status, current_bets, highest_bet, current_player,
                   dealer_player, round_stage, cardVars>>

-----------------------------------------------------------------------------
Next ==
    \/ \E p \in Seats : Join(p)
    \/ JoinDone
    \/ ResetGameState
    \/ \E p \in Seats : Leave(p)
    \/ Halt
    \/ ServerDeal
    \/ \E p \in Seats, in \in ActionPackets : HandleClientAction(p, in)
    \/ ServerCommunity
    \/ ServerEnd

Spec == Init /\ [][Next]_tableVars

-----------------------------------------------------------------------------
(* Properties *)

\* Every variable stays in its range; in particular no stack is overdrawn and
\* the button and the turn are seats.
TypeOK ==
    /\ player_status \in [Seats -> Statuses]
    /\ player_stacks \in [Seats -> Nat]
    /\ current_bets \in [Seats -> Nat \cup {-1}]
    /\ highest_bet \in Nat
    /\ pot_size \in Nat
    /\ current_player \in Seats \cup {-1}
    /\ dealer_player \in Seats
    /\ round_stage \in Stages
    /\ next_card \in Nat
    /\ player_hands \in [Seats -> Int \X Int]
    /\ community_cards \subseteq Int
    /\ phase \in Phases

\* During a hand the turn is at a seat that can take it, if there is one: the
\* scans of server_deal, server_community and handle_client_action agree.
TurnIsActive ==
    phase = "hand" /\ Active # {} => current_player \in Active

\* During a street a seat that can act has either matched the highest bet or is
\* marked -1, and then there is a bet to answer: callAmt is 0 or all of it.
BetsMatchedOrOwed ==
    phase = "hand" =>
        \A p \in Active : \/ current_bets[p] = highest_bet
                          \/ current_bets[p] = -1 /\ highest_bet > 0

\* The pot holds at least the bet that has to be called, and it is empty when
\* reset_game_state clears it, so that no chips are lost there.
PotCoversBet ==
    /\ phase = "hand" => pot_size >= highest_bet
    /\ phase \in {"join", "reset", "ready"} => pot_size = 0

\* Places between the seat to act and seat p, in the order the turn takes.
TurnsUntil(p) ==
    IF p >= current_player THEN p - current_player
    ELSE p - current_player + MAX_PLAYERS

\* After a raise the turn reaches every seat that owes an answer before it
\* reaches any seat that has matched: nobody is asked again while another seat
\* has not answered, however many raises and folds came in between.
OwedComeFirst ==
    phase = "hand" =>
        \A p, q \in Active :
            current_bets[p] = -1 /\ current_bets[q] # -1 => TurnsUntil(p) < TurnsUntil(q)

\* Once a street has been dealt find_winner has somebody to choose, so that
\* player_stacks[winner] is a seat's stack.
SomeoneCanWin ==
    phase = "hand" /\ round_stage # "PREFLOP" => Contenders # {}

\* There is a seat for the button to move to: with this NextIn(_, NonLeft) is the
\* scan of reset_game_state, which has no way out otherwise.
ButtonHasASeat == phase \in {"reset", "hand"} => NonLeft # {}

\* The street the caller can be in at each place.
StageFitsPhase ==
    /\ phase = "ready" => round_stage = "PREFLOP"
    /\ phase = "hand" => round_stage # "INIT"

\* The inductive invariant of the table.
TableInv ==
    /\ TypeOK
    /\ StageFitsPhase
    /\ TurnIsActive
    /\ BetsMatchedOrOwed
    /\ PotCoversBet
    /\ OwedComeFirst
    /\ SomeoneCanWin
    /\ ButtonHasASeat

\* The cards out at any time are different cards of the deck.
CardsAreDistinct ==
    phase \in {"ready", "hand"} =>
        /\ next_card <= DECK_SIZE
        /\ community_cards \subseteq 0 .. next_card - 1
        /\ \A p \in Seats : player_hands[p] # NoHand =>
              \A i \in 1 .. 2 :
                /\ player_hands[p][i] \in 0 .. next_card - 1
                /\ player_hands[p][i] \notin community_cards
                /\ \A q \in Seats, j \in 1 .. 2 :
                      player_hands[q][j] = player_hands[p][i] => q = p /\ j = i

\* Chips in front of the seats below each seat, and at MAX_PLAYERS of all.
ChipsBelow(stacks) ==
    LET sum[p \in 0 .. MAX_PLAYERS] == IF p = 0 THEN 0 ELSE sum[p - 1] + stacks[p - 1]
    IN  sum

\* No chip is made or lost: the stacks and the pot always add up to what the
\* seats started with, through raises, short calls, showdowns and new hands.
ChipsAreConserved ==
    pot_size + ChipsBelow(player_stacks)[MAX_PLAYERS] = MAX_PLAYERS * StartingStack

Ledger == INSTANCE ChipLedger
    WITH Seat <- Seats, stack <- player_stacks, pot <- pot_size, in <- Contenders

\* The engine moves chips only as the abstract ledger allows: in from a seat
\* that is in the hand, out to one that is, and none lost between hands.
ImplementsLedger == Ledger!LedgerSpec

=============================================================================

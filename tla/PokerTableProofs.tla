-------------------------- MODULE PokerTableProofs --------------------------
(***************************************************************************)
(* Theorems about the table engine, for every number of seats, stack, set  *)
(* of raises and set of hand values.                                       *)
(***************************************************************************)
EXTENDS PacketContents, FiniteSetTheorems, WellFoundedInduction, TLAPS

-----------------------------------------------------------------------------
(* Lemmas about the operators *)

\* A non-empty set of naturals has a least element.
LEMMA LeastElement ==
    ASSUME NEW S, S \subseteq Nat, S # {}
    PROVE  \E m \in S : \A n \in S : m <= n
<1> DEFINE R == {ss \in Nat \X Nat : ss[1] < ss[2]}
<1>1. IsWellFoundedOn(R, Nat)
  BY NatLessThanWellFounded DEF OpToRel
<1>2. PICK m \in S : \A n \in S : ~ (<<n, m>> \in R)
  <2> HIDE DEF R
  <2>1. QED
    BY <1>1, WFMin
<1>3. \A j, k \in Nat : j < k => <<j, k>> \in R
  OBVIOUS
<1> HIDE DEF R
<1>4. ASSUME NEW n \in S PROVE m <= n
  <2>1. n \in Nat /\ m \in Nat
    OBVIOUS
  <2>2. ~ (<<n, m>> \in R)
    BY <1>2
  <2>3. ~ (n < m)
    BY <1>3, <2>1, <2>2
  <2>4. QED
    BY <2>1, <2>3
<1>5. QED
  BY <1>4

\* The scan for the next seat of a set finds one of the set, and the nearest.
LEMMA NextInIsNearest ==
    ASSUME NEW p \in Seats, NEW S \in SUBSET Seats, S # {}
    PROVE  /\ NextIn(p, S) \in S
           /\ \A r \in S : Steps(p, NextIn(p, S)) <= Steps(p, r)
<1> DEFINE D == {Steps(p, q) : q \in S}
<1>1. \A q \in Seats : Steps(p, q) \in Nat
  BY SeatsAssumption DEF Steps, Seats
<1>2. D \subseteq Nat /\ D # {}
  BY <1>1
<1>3. PICK d \in D : \A e \in D : d <= e
  BY <1>2, LeastElement
<1>4. \E q \in S : \A r \in S : Steps(p, q) <= Steps(p, r)
  BY <1>3
<1>5. QED
  BY <1>4 DEF NextIn

\* A set of seats has a cardinality.
LEMMA SeatsAreFinite ==
    ASSUME NEW S \in SUBSET Seats
    PROVE  IsFiniteSet(S) /\ Cardinality(S) \in Nat
<1>1. IsFiniteSet(Seats)
  BY FS_Interval, SeatsAssumption DEF Seats
<1>2. QED
  BY <1>1, FS_Subset, FS_CardinalityType

-----------------------------------------------------------------------------
(* The inductive invariant *)

LEMMA InitEstablishes == Init => TableInv
<1> SUFFICES ASSUME Init PROVE TableInv
  OBVIOUS
<1>1. TypeOK
  BY SeatsAssumption, StackAssumption
  DEF Init, TypeOK, Seats, Statuses, Stages, Phases
<1>2. QED
  BY <1>1 DEF Init, TableInv, StageFitsPhase, TurnIsActive, BetsMatchedOrOwed, PotCoversBet,
              OwedComeFirst, SomeoneCanWin, ButtonHasASeat

LEMMA StutterKeeps ==
    ASSUME TableInv, UNCHANGED tableVars
    PROVE  TableInv'
BY DEF tableVars, TableInv, TypeOK, StageFitsPhase, TurnIsActive, BetsMatchedOrOwed,
       PotCoversBet, OwedComeFirst, TurnsUntil, SomeoneCanWin, ButtonHasASeat, Active,
       Contenders, NonLeft, SeatsThat

LEMMA JoinKeeps ==
    ASSUME TableInv, NEW p \in Seats, Join(p)
    PROVE  TableInv'
<1> USE DEF TableInv, Join
<1>1. TypeOK'
  BY DEF TypeOK, cardVars, Statuses
<1>2. StageFitsPhase' /\ PotCoversBet'
  BY DEF StageFitsPhase, PotCoversBet
<1>3. phase' = "join"
  OBVIOUS
<1>4. QED
  BY <1>1, <1>2, <1>3
  DEF TurnIsActive, BetsMatchedOrOwed, OwedComeFirst, SomeoneCanWin, ButtonHasASeat

LEMMA JoinDoneKeeps ==
    ASSUME TableInv, JoinDone
    PROVE  TableInv'
<1> USE DEF TableInv, JoinDone
<1>1. TypeOK'
  BY DEF TypeOK, cardVars, Phases
<1>2. PotCoversBet' /\ StageFitsPhase'
  BY DEF PotCoversBet, StageFitsPhase
<1>3. NonLeft' # {}
  <2>1. PICK p \in Active : TRUE
    OBVIOUS
  <2>2. p \in NonLeft'
    BY <2>1 DEF Active, NonLeft, SeatsThat
  <2>3. QED
    BY <2>2
<1>4. QED
  BY <1>1, <1>2, <1>3
  DEF TurnIsActive, BetsMatchedOrOwed, OwedComeFirst, SomeoneCanWin, ButtonHasASeat

LEMMA ResetKeeps ==
    ASSUME TableInv, ResetGameState
    PROVE  TableInv'
<1> USE DEF TableInv, ResetGameState
<1>1. NextDealer \in Seats
  <2>1. NonLeft # {} /\ NonLeft \subseteq Seats
    BY DEF ButtonHasASeat, NonLeft
  <2>2. dealer_player \in Seats
    BY DEF TypeOK
  <2>3. NextIn(dealer_player, NonLeft) \in NonLeft
    BY <2>1, <2>2, NextInIsNearest
  <2>4. QED
    BY <2>1, <2>2, <2>3 DEF NextDealer
<1>2. TypeOK'
  BY <1>1 DEF TypeOK, NoHand, Phases, Stages
<1>3. StageFitsPhase' /\ PotCoversBet'
  BY DEF StageFitsPhase, PotCoversBet
<1>4. QED
  BY <1>2, <1>3
  DEF TurnIsActive, BetsMatchedOrOwed, OwedComeFirst, SomeoneCanWin, ButtonHasASeat

LEMMA LeaveKeeps ==
    ASSUME TableInv, NEW p \in Seats, Leave(p)
    PROVE  TableInv'
<1> USE DEF TableInv, Leave
<1>1. TypeOK'
  BY DEF TypeOK, cardVars, Statuses
<1>2. StageFitsPhase' /\ PotCoversBet'
  BY DEF StageFitsPhase, PotCoversBet
<1>3. QED
  BY <1>1, <1>2
  DEF TurnIsActive, BetsMatchedOrOwed, OwedComeFirst, SomeoneCanWin, ButtonHasASeat

LEMMA HaltKeeps ==
    ASSUME TableInv, Halt
    PROVE  TableInv'
<1> USE DEF TableInv, Halt
<1>1. TypeOK'
  BY DEF TypeOK, cardVars, Phases
<1>2. QED
  BY <1>1
  DEF StageFitsPhase, PotCoversBet, TurnIsActive, BetsMatchedOrOwed, OwedComeFirst,
      SomeoneCanWin, ButtonHasASeat

LEMMA DealKeeps ==
    ASSUME TableInv, ServerDeal
    PROVE  TableInv'
<1> USE DEF TableInv, ServerDeal
<1>1. Active \subseteq Seats /\ Active' = Active
  BY DEF Active, SeatsThat
<1>2. FirstToAct \in Seats /\ (Active # {} => FirstToAct \in Active)
  <2>1. dealer_player \in Seats
    BY DEF TypeOK
  <2>2. Active # {} => NextIn(dealer_player, Active) \in Active
    BY <1>1, <2>1, NextInIsNearest
  <2>3. QED
    BY <1>1, <2>1, <2>2 DEF FirstToAct
<1>3. TypeOK'
  <2>1. Cardinality(Active) \in Nat
    BY <1>1, SeatsAreFinite
  <2>2. \A p \in Seats : DealtHand(p) \in Int \X Int
    <3>1. TAKE p \in Seats
    <3>2. DealtBefore(p) \in Nat
      BY <1>1, SeatsAreFinite DEF DealtBefore
    <3>3. QED
      BY <3>2 DEF DealtHand, TypeOK
  <2>3. player_hands' \in [Seats -> Int \X Int]
    BY <2>2 DEF TypeOK
  <2>4. QED
    BY <1>2, <2>1, <2>3 DEF TypeOK, Phases
<1>4. StageFitsPhase' /\ PotCoversBet'
  BY DEF StageFitsPhase, PotCoversBet, TypeOK
<1>5. TurnIsActive'
  BY <1>1, <1>2 DEF TurnIsActive
<1>6. BetsMatchedOrOwed' /\ OwedComeFirst'
  BY <1>1 DEF BetsMatchedOrOwed, OwedComeFirst
<1>7. SomeoneCanWin' /\ ButtonHasASeat'
  BY DEF SomeoneCanWin, ButtonHasASeat, StageFitsPhase, NonLeft, SeatsThat, EnoughReady
<1>8. QED
  BY <1>3, <1>4, <1>5, <1>6, <1>7

-----------------------------------------------------------------------------
(* handle_client_action *)

\* What every packet that is accepted does, whichever it is.
LEMMA ActionEffect ==
    ASSUME TableInv, NEW p \in Seats, NEW in \in ActionPackets, HandleClientAction(p, in)
    PROVE  /\ p = current_player /\ p \in Active
           /\ highest_bet' \in Nat /\ highest_bet' >= highest_bet
           /\ player_status' \in [Seats -> Statuses]
           /\ player_stacks' \in [Seats -> Nat]
           /\ pot_size' \in Nat
           /\ pot_size' >= pot_size + (highest_bet' - highest_bet)
           /\ current_bets' \in [Seats -> Nat \cup {-1}]
           /\ \A q \in Seats \ {p} : player_status'[q] = player_status[q]
           /\ player_status'[p] # "LEFT"
           /\ p \in Active' => current_bets'[p] = highest_bet'
           /\ \/ highest_bet' = highest_bet
                 /\ \A q \in Seats \ {p} : current_bets'[q] = current_bets[q]
              \/ highest_bet' > highest_bet
                 /\ \A q \in Active \ {p} : current_bets'[q] = -1
<1> USE DEF TableInv
<1>1. /\ phase = "hand" /\ p = current_player /\ p \in Active /\ player_status[p] = "ACTIVE"
      /\ highest_bet \in Nat /\ pot_size \in Nat
      /\ player_stacks \in [Seats -> Nat] /\ player_status \in [Seats -> Statuses]
      /\ current_bets \in [Seats -> Nat \cup {-1}]
  BY DEF HandleClientAction, Accepts, MayAct, Active, SeatsThat, TypeOK
<1>2. current_bets[p] = highest_bet \/ (current_bets[p] = -1 /\ highest_bet > 0)
  BY <1>1 DEF BetsMatchedOrOwed
<1>3. CallAmount(p) \in Nat
  BY <1>1, <1>2 DEF CallAmount
<1>4. CASE Check(p)
  BY <1>1, <1>4 DEF Check, Active, SeatsThat
<1>5. CASE Call(p)
  <2>1. player_stacks' \in [Seats -> Nat] /\ pot_size' \in Nat /\ pot_size' >= pot_size
    BY <1>1, <1>3, <1>5 DEF Call, Stake
  <2>2. highest_bet' = highest_bet /\ player_status' = player_status
    BY <1>5 DEF Call
  <2>3. current_bets' = [current_bets EXCEPT ![p] = highest_bet]
    BY <1>5 DEF Call
  <2>4. QED
    BY <1>1, <2>1, <2>2, <2>3
<1>6. CASE CallAllIn(p)
  <2>1. player_stacks' \in [Seats -> Nat] /\ pot_size' \in Nat /\ pot_size' >= pot_size
    BY <1>1, <1>6 DEF CallAllIn, Stake
  <2>2. highest_bet' = highest_bet /\ player_status' = [player_status EXCEPT ![p] = "ALLIN"]
    BY <1>6 DEF CallAllIn
  <2>3. current_bets' = [current_bets EXCEPT ![p] = highest_bet]
    BY <1>6 DEF CallAllIn
  <2>4. player_status' \in [Seats -> Statuses] /\ player_status'[p] # "LEFT"
    BY <1>1, <2>2 DEF Statuses
  <2>5. QED
    BY <1>1, <2>1, <2>2, <2>3, <2>4
<1>7. CASE in.type = "RAISE" /\ Raise(p, in.amount)
  <2>1. in.amount \in Int /\ CanRaise(p, in.amount)
    BY <1>7, AmountsAssumption DEF ActionPackets, HandleClientAction, Accepts
  <2>2. /\ in.amount > highest_bet
        /\ in.amount - current_bets[p] \in Nat
        /\ current_bets[p] <= highest_bet
        /\ player_stacks[p] >= in.amount - current_bets[p]
    BY <1>1, <1>2, <2>1 DEF CanRaise
  <2>3. player_stacks' \in [Seats -> Nat] /\ pot_size' = pot_size + (in.amount - current_bets[p])
    BY <1>1, <1>7, <2>2 DEF Raise, Stake
  <2>4. highest_bet' = in.amount /\ highest_bet' \in Nat
    BY <1>1, <1>7, <2>1, <2>2 DEF Raise
  <2>5. current_bets' \in [Seats -> Nat \cup {-1}]
    BY <1>1, <1>7, <2>4 DEF Raise
  <2>6. /\ \A q \in Active \ {p} : current_bets'[q] = -1
        /\ current_bets'[p] = highest_bet'
    BY <1>1, <1>7, <2>4 DEF Raise, Active, SeatsThat
  <2>7. player_status' = player_status
    BY <1>7 DEF Raise
  <2>8. QED
    BY <1>1, <2>1, <2>2, <2>3, <2>4, <2>5, <2>6, <2>7
<1>8. CASE Fold(p)
  BY <1>1, <1>8 DEF Fold, Active, SeatsThat, Statuses
<1>9. QED
  BY <1>4, <1>5, <1>6, <1>7, <1>8 DEF HandleClientAction

\* The turn goes to another seat that is ACTIVE if there is one.
LEMMA TurnPasses ==
    ASSUME TableInv, NEW p \in Seats, NEW in \in ActionPackets, HandleClientAction(p, in)
    PROVE  /\ current_player' \in Seats
           /\ Active' \subseteq Active
           /\ current_player' \in Active' \cup {p}
           /\ Active' # {} => current_player' \in Active'
           /\ \A q \in Active' \cup {p} : Steps(p, current_player') <= Steps(p, q)
<1> DEFINE S == Active' \cup {p}
<1>1. S = {q \in Seats : player_status'[q] = "ACTIVE"} \cup {p}
  BY DEF Active, SeatsThat
<1>2. S \in SUBSET Seats /\ S # {}
  BY DEF Active, SeatsThat
<1>3. current_player' = NextIn(p, S)
  BY <1>1 DEF HandleClientAction, PassTurn
<1>4. current_player' \in S /\ \A q \in S : Steps(p, current_player') <= Steps(p, q)
  BY <1>2, <1>3, NextInIsNearest
<1>5. Active' \subseteq Active
  BY ActionEffect DEF Active, SeatsThat
<1>6. ASSUME Active' # {} PROVE current_player' \in Active'
  <2>1. CASE p \in Active'
    BY <2>1, <1>4
  <2>2. CASE p \notin Active'
    <3>1. PICK q \in Active' : TRUE
      BY <1>6
    <3>2. q # p /\ q \in Seats
      BY <2>2, <3>1 DEF Active, SeatsThat
    <3>3. Steps(p, q) < Steps(p, p)
      BY <3>2, SeatsAssumption DEF Steps, Seats
    <3>4. Steps(p, current_player') <= Steps(p, q)
      BY <1>4, <3>1
    <3>5. current_player' # p
      BY <3>2, <3>3, <3>4, SeatsAssumption DEF Steps, Seats
    <3>6. QED
      BY <1>4, <3>5
  <2>3. QED
    BY <2>1, <2>2
<1>7. QED
  BY <1>2, <1>4, <1>5, <1>6

LEMMA HandleKeeps ==
    ASSUME TableInv, NEW p \in Seats, NEW in \in ActionPackets, HandleClientAction(p, in)
    PROVE  TableInv'
<1> USE DEF TableInv
<1>1. /\ phase = "hand" /\ phase' = "hand" /\ round_stage' = round_stage
      /\ UNCHANGED <<dealer_player, next_card, player_hands, community_cards>>
      /\ Contested
  BY DEF HandleClientAction, Accepts, MayAct, cardVars
<1>2. TypeOK'
  BY <1>1, ActionEffect, TurnPasses DEF TypeOK
<1>3. StageFitsPhase'
  BY <1>1 DEF StageFitsPhase
<1>4. PotCoversBet'
  <2>1. /\ highest_bet \in Nat /\ pot_size \in Nat /\ highest_bet' \in Nat /\ pot_size' \in Nat
        /\ pot_size' >= pot_size + (highest_bet' - highest_bet)
    BY ActionEffect DEF TypeOK
  <2>2. pot_size >= highest_bet
    BY <1>1 DEF PotCoversBet
  <2>3. \A a, b, c, d \in Nat : a <= b /\ c >= b + (d - a) => c >= d
    OBVIOUS
  <2>4. pot_size' >= highest_bet'
    BY <2>1, <2>2, <2>3
  <2>5. QED
    BY <1>1, <2>4 DEF PotCoversBet
<1>5. TurnIsActive'
  BY TurnPasses DEF TurnIsActive
<1>6. BetsMatchedOrOwed'
  <2> SUFFICES ASSUME NEW q \in Active'
               PROVE  \/ current_bets'[q] = highest_bet'
                      \/ current_bets'[q] = -1 /\ highest_bet' > 0
    BY DEF BetsMatchedOrOwed
  <2>1. q \in Active /\ q \in Seats
    BY TurnPasses DEF Active, SeatsThat
  <2>2. current_bets[q] = highest_bet \/ (current_bets[q] = -1 /\ highest_bet > 0)
    BY <1>1, <2>1 DEF BetsMatchedOrOwed
  <2>3. highest_bet \in Nat /\ highest_bet' \in Nat
    BY ActionEffect DEF TypeOK
  <2>4. CASE q = p
    BY <2>4, ActionEffect
  <2>5. CASE q # p /\ highest_bet' = highest_bet
    <3>1. current_bets'[q] = current_bets[q]
      BY <2>1, <2>3, <2>5, ActionEffect
    <3>2. QED
      BY <2>2, <2>5, <3>1
  <2>6. CASE q # p /\ highest_bet' # highest_bet
    BY <2>1, <2>3, <2>6, ActionEffect
  <2>7. QED
    BY <2>4, <2>5, <2>6
<1>7. OwedComeFirst'
  <2> SUFFICES ASSUME NEW o \in Active', NEW m \in Active',
                      current_bets'[o] = -1, current_bets'[m] # -1
               PROVE  TurnsUntil(o)' < TurnsUntil(m)'
    BY DEF OwedComeFirst
  <2>1. /\ o \in Active /\ m \in Active /\ o \in Seats /\ m \in Seats
        /\ p = current_player
    BY TurnPasses, ActionEffect DEF Active, SeatsThat
  <2>2. PICK n \in Seats : /\ n = current_player'
                          /\ Steps(p, n) <= Steps(p, o)
                          /\ Steps(p, n) <= Steps(p, m)
    BY TurnPasses
  <2>3. o # p
    BY ActionEffect DEF TypeOK
  <2>4. Steps(p, o) < Steps(p, m)
    <3>1. CASE m = p
      BY <2>1, <2>3, <3>1, SeatsAssumption DEF Steps, Seats
    <3>2. CASE m # p
      <4>1. highest_bet \in Nat /\ highest_bet' \in Nat
        BY ActionEffect DEF TypeOK
      <4>2. current_bets[o] = -1 /\ current_bets[m] # -1
        BY <2>1, <2>3, <3>2, <4>1, ActionEffect
      <4>3. TurnsUntil(o) < TurnsUntil(m)
        BY <1>1, <2>1, <4>2 DEF OwedComeFirst
      <4>4. QED
        BY <2>1, <2>3, <3>2, <4>3, SeatsAssumption DEF TurnsUntil, Steps, Seats
    <3>3. QED
      BY <3>1, <3>2
  <2>5. /\ TurnsUntil(o)' = Steps(p, o) - Steps(p, n)
        /\ TurnsUntil(m)' = Steps(p, m) - Steps(p, n)
    <3>1. \A q \in Seats : Steps(p, n) <= Steps(p, q) =>
             Steps(p, q) - Steps(p, n) = IF q >= n THEN q - n ELSE q - n + MAX_PLAYERS
      BY SeatsAssumption DEF Steps, Seats
    <3>2. QED
      BY <2>1, <2>2, <3>1 DEF TurnsUntil
  <2>6. Steps(p, o) \in Int /\ Steps(p, m) \in Int /\ Steps(p, n) \in Int
    BY <2>1, SeatsAssumption DEF Steps, Seats
  <2>7. QED
    BY <2>4, <2>5, <2>6
<1>8. SomeoneCanWin'
  <2>1. PICK q \in Contenders : q # p
    BY <1>1 DEF Contested
  <2>2. q \in Contenders'
    BY <2>1, ActionEffect DEF Contenders, Active, SeatsThat
  <2>3. QED
    BY <2>2 DEF SomeoneCanWin
<1>9. ButtonHasASeat'
  <2>1. p \in NonLeft'
    BY ActionEffect DEF NonLeft, SeatsThat
  <2>2. QED
    BY <2>1 DEF ButtonHasASeat
<1>10. QED
  BY <1>2, <1>3, <1>4, <1>5, <1>6, <1>7, <1>8, <1>9

-----------------------------------------------------------------------------
(* Streets and showdown *)

LEMMA CommunityKeeps ==
    ASSUME TableInv, ServerCommunity
    PROVE  TableInv'
<1> USE DEF TableInv, ServerCommunity
<1>1. Active \subseteq Seats /\ Active' = Active /\ phase = "hand"
  BY DEF Active, SeatsThat
<1>2. round_stage \in {"PREFLOP", "FLOP", "TURN"}
  BY DEF TypeOK, Stages, StageFitsPhase
<1>3. /\ NextStage[round_stage] \in {"FLOP", "TURN", "RIVER"}
      /\ NewCards[round_stage] \in Nat
  BY <1>2 DEF NextStage, NewCards
<1>4. \/ phase' = "spin" /\ current_player' = current_player /\ Active = {}
      \/ phase' = "hand" /\ current_player' \in Active
  <2>1. ASSUME Active # {} PROVE NextIn(dealer_player, Active) \in Active
    BY <1>1, <2>1, NextInIsNearest DEF TypeOK
  <2>2. QED
    BY <1>1, <2>1
<1>5. TypeOK'
  <2>1. community_cards' \subseteq Int
    <3>1. community_cards' =
            community_cards \cup next_card .. next_card + NewCards[round_stage] - 1
      OBVIOUS
    <3>2. community_cards \subseteq Int /\ next_card \in Int
      BY DEF TypeOK
    <3>3. next_card .. next_card + NewCards[round_stage] - 1 \subseteq Int
      BY <1>3, <3>2
    <3>4. QED
      BY <3>1, <3>2, <3>3
  <2>2. current_bets' \in [Seats -> Nat \cup {-1}]
    BY DEF TypeOK
  <2>3. current_player' \in Seats \cup {-1} /\ phase' \in Phases
    BY <1>1, <1>4 DEF TypeOK, Phases
  <2>4. next_card' \in Nat /\ round_stage' \in Stages
    BY <1>3 DEF TypeOK, Stages
  <2>5. QED
    BY <2>1, <2>2, <2>3, <2>4 DEF TypeOK
<1>6. StageFitsPhase'
  BY <1>3, <1>4 DEF StageFitsPhase
<1>7. PotCoversBet'
  BY <1>4 DEF PotCoversBet, TypeOK
<1>8. TurnIsActive'
  BY <1>1, <1>4 DEF TurnIsActive
<1>9. BetsMatchedOrOwed' /\ OwedComeFirst'
  BY <1>1 DEF BetsMatchedOrOwed, OwedComeFirst
<1>10. SomeoneCanWin'
  BY <1>1, <1>4 DEF SomeoneCanWin, Contenders
<1>11. ButtonHasASeat'
  BY <1>1, <1>4 DEF ButtonHasASeat, NonLeft, SeatsThat
<1>12. QED
  BY <1>5, <1>6, <1>7, <1>8, <1>9, <1>10, <1>11

\* find_winner names a contender whenever there is one.
LEMMA WinnerIsAContender ==
    ASSUME NEW value \in [Seats -> Strengths], Contenders # {}
    PROVE  FindWinner(value) \in Contenders
<1>1. Contenders \subseteq Seats
  BY DEF Contenders, Active, SeatsThat
<1>2. \A q \in Contenders : value[q] \in Strengths
  BY <1>1
<1>3. PICK top \in Nat : \A v \in Strengths : v <= top
  BY StrengthsAssumption
<1> DEFINE Bounds == {b \in Nat : \A q \in Contenders : value[q] <= b}
<1>4. Bounds \subseteq Nat /\ Bounds # {}
  <2>1. top \in Bounds
    BY <1>2, <1>3
  <2>2. QED
    BY <2>1
<1>5. PICK b \in Bounds : \A a \in Bounds : b <= a
  BY <1>4, LeastElement
<1>6. \E p \in Contenders : value[p] = b
  <2> SUFFICES ASSUME \A p \in Contenders : value[p] # b
               PROVE  FALSE
    OBVIOUS
  <2>1. b \in Nat /\ \A q \in Contenders : value[q] \in Nat \ {0} /\ value[q] <= b
    BY <1>2, StrengthsAssumption
  <2>2. b - 1 \in Nat /\ \A q \in Contenders : value[q] <= b - 1
    BY <2>1
  <2>3. b - 1 \in Bounds
    BY <2>2
  <2>4. b <= b - 1
    BY <1>5, <2>3
  <2>5. QED
    BY <2>1, <2>4
<1> DEFINE best == {p \in Contenders : \A q \in Contenders : value[q] <= value[p]}
<1>7. best \subseteq Nat /\ best # {}
  <2>1. best \subseteq Contenders
    OBVIOUS
  <2>2. Seats \subseteq Nat
    BY SeatsAssumption DEF Seats
  <2>3. best # {}
    BY <1>5, <1>6
  <2> HIDE DEF best
  <2>4. QED
    BY <1>1, <2>1, <2>2, <2>3
<1>8. \E p \in best : \A q \in best : p <= q
  <2> HIDE DEF best
  <2>1. QED
    BY <1>7, LeastElement
<1>9. (CHOOSE p \in best : \A q \in best : p <= q) \in best
  BY <1>8
<1>10. QED
  BY <1>9 DEF FindWinner

LEMMA EndKeeps ==
    ASSUME TableInv, ServerEnd
    PROVE  TableInv'
<1> USE DEF TableInv
<1>1. /\ phase = "hand" /\ round_stage = "RIVER" /\ phase' = "reset"
      /\ UNCHANGED <<player_status, current_bets, highest_bet, current_player, dealer_player,
                     round_stage, next_card, player_hands, community_cards>>
  BY DEF ServerEnd, cardVars
<1>2. Contenders # {} /\ Contenders \subseteq Seats
  BY <1>1 DEF SomeoneCanWin, Contenders, Active, SeatsThat
<1>3. PICK won \in Seats : /\ won \in Contenders
                           /\ player_stacks' = [player_stacks EXCEPT ![won] = @ + pot_size]
                           /\ pot_size' = 0
  <2>1. PICK value \in HandValues :
              IF FindWinner(value) \in Seats
              THEN /\ player_stacks' = [player_stacks EXCEPT ![FindWinner(value)] = @ + pot_size]
                   /\ pot_size' = 0
              ELSE UNCHANGED <<player_stacks, pot_size>>
    BY DEF ServerEnd
  <2>2. FindWinner(value) \in Contenders
    BY <1>2, WinnerIsAContender DEF HandValues
  <2>3. QED
    BY <1>2, <2>1, <2>2
<1>4. TypeOK'
  <2>1. player_stacks' \in [Seats -> Nat] /\ pot_size' \in Nat
    BY <1>3 DEF TypeOK
  <2>2. QED
    BY <1>1, <2>1 DEF TypeOK, Phases
<1>5. StageFitsPhase' /\ PotCoversBet'
  BY <1>1, <1>3 DEF StageFitsPhase, PotCoversBet
<1>6. NonLeft' # {}
  BY <1>1 DEF ButtonHasASeat, NonLeft, SeatsThat
<1>7. QED
  BY <1>1, <1>4, <1>5, <1>6
  DEF TurnIsActive, BetsMatchedOrOwed, OwedComeFirst, SomeoneCanWin, ButtonHasASeat

-----------------------------------------------------------------------------
(* The theorems *)

LEMMA NextKeeps == TableInv /\ [Next]_tableVars => TableInv'
<1> SUFFICES ASSUME TableInv, [Next]_tableVars PROVE TableInv'
  OBVIOUS
<1>1. ASSUME NEW p \in Seats, Join(p) PROVE TableInv'
  BY <1>1, JoinKeeps
<1>2. CASE JoinDone
  BY <1>2, JoinDoneKeeps
<1>3. CASE ResetGameState
  BY <1>3, ResetKeeps
<1>4. ASSUME NEW p \in Seats, Leave(p) PROVE TableInv'
  BY <1>4, LeaveKeeps
<1>5. CASE Halt
  BY <1>5, HaltKeeps
<1>6. CASE ServerDeal
  BY <1>6, DealKeeps
<1>7. ASSUME NEW p \in Seats, NEW in \in ActionPackets, HandleClientAction(p, in)
      PROVE  TableInv'
  BY <1>7, HandleKeeps
<1>8. CASE ServerCommunity
  BY <1>8, CommunityKeeps
<1>9. CASE ServerEnd
  BY <1>9, EndKeeps
<1>10. CASE UNCHANGED tableVars
  BY <1>10, StutterKeeps
<1>11. QED
  BY <1>1, <1>2, <1>3, <1>4, <1>5, <1>6, <1>7, <1>8, <1>9, <1>10 DEF Next

\* The inductive invariant holds in every state of the table, however many seats
\* and chips there are and whatever is raised.
THEOREM TableIsSound == Spec => []TableInv
BY InitEstablishes, NextKeeps, PTL DEF Spec

\* Every variable stays in its range: no stack is overdrawn.
THEOREM TypeCorrect == Spec => []TypeOK
<1>1. TableInv => TypeOK
  BY DEF TableInv
<1>2. QED
  BY <1>1, TableIsSound, PTL

\* The turn is always at a seat that can take it when there is one.
THEOREM TurnStaysActive == Spec => []TurnIsActive
<1>1. TableInv => TurnIsActive
  BY DEF TableInv
<1>2. QED
  BY <1>1, TableIsSound, PTL

\* A seat that can act has matched the bet or is marked to answer it: what
\* callAmt is computed from never holds a third kind of value.
THEOREM BetsStayMatchedOrOwed == Spec => []BetsMatchedOrOwed
<1>1. TableInv => BetsMatchedOrOwed
  BY DEF TableInv
<1>2. QED
  BY <1>1, TableIsSound, PTL

\* A raise is answered by everybody who owes an answer before anybody is asked
\* again, for every number of seats.
THEOREM OwedAreAskedFirst == Spec => []OwedComeFirst
<1>1. TableInv => OwedComeFirst
  BY DEF TableInv
<1>2. QED
  BY <1>1, TableIsSound, PTL

\* The pot covers the bet to call and is empty when it is cleared.
THEOREM PotIsNeverLost == Spec => []PotCoversBet
<1>1. TableInv => PotCoversBet
  BY DEF TableInv
<1>2. QED
  BY <1>1, TableIsSound, PTL

\* There is somebody to pay the pot to whenever the showdown may come.
THEOREM WinnerExists == Spec => []SomeoneCanWin
<1>1. TableInv => SomeoneCanWin
  BY DEF TableInv
<1>2. QED
  BY <1>1, TableIsSound, PTL

-----------------------------------------------------------------------------
(* What INFO tells the seat that is asked *)

\* When everybody who can act has matched the bet the betting is over.
LEMMA AllMatchedEndsBetting ==
    ASSUME \A p \in Active : current_bets[p] # -1 /\ current_bets[p] = highest_bet
    PROVE  CheckBettingEnd
<1>1. Bidders = Active /\ Active \subseteq Nat
  BY SeatsAssumption DEF Bidders, Active, SeatsThat, Seats
<1>2. CASE Active = {}
  BY <1>1, <1>2 DEF CheckBettingEnd
<1>3. CASE Active # {}
  <2>1. PICK lead \in Active : \A p \in Active : lead <= p
    BY <1>1, <1>3, LeastElement
  <2>2. QED
    BY <1>1, <2>1 DEF CheckBettingEnd
<1>4. QED
  BY <1>2, <1>3

\* The seat whose turn it is would be the last to owe an answer: if it does not,
\* nobody does, and the betting is over.
LEMMA AskedSeatOwes ==
    ASSUME TableInv, NEW p \in Seats, Asked(p)
    PROVE  p \in Active /\ current_bets[p] = -1 /\ highest_bet \in Nat /\ highest_bet > 0
<1> USE DEF TableInv
<1>1. phase = "hand" /\ ~CheckBettingEnd /\ p = current_player
  BY DEF Asked
<1>2. Active # {}
  BY <1>1 DEF CheckBettingEnd, Bidders
<1>3. p \in Active
  BY <1>1, <1>2 DEF TurnIsActive
<1>4. current_bets[p] = -1
  <2>1. SUFFICES ASSUME current_bets[p] # -1 PROVE FALSE
    OBVIOUS
  <2>2. TurnsUntil(p) = 0 /\ \A q \in Active : TurnsUntil(q) \in Nat
    BY <1>1, SeatsAssumption DEF TurnsUntil, Active, SeatsThat, Seats
  <2>3. \A q \in Active : current_bets[q] # -1
    <3>1. \A q \in Active : current_bets[q] = -1 => TurnsUntil(q) < TurnsUntil(p)
      BY <1>1, <1>3, <2>1 DEF OwedComeFirst
    <3>2. QED
      BY <2>2, <3>1
  <2>4. \A q \in Active : current_bets[q] = highest_bet
    BY <1>1, <2>3 DEF BetsMatchedOrOwed
  <2>5. QED
    BY <1>1, <2>3, <2>4, AllMatchedEndsBetting
<1>5. highest_bet \in Nat
  BY DEF TypeOK
<1>6. highest_bet > 0
  BY <1>1, <1>3, <1>4, <1>5 DEF BetsMatchedOrOwed
<1>7. QED
  BY <1>3, <1>4, <1>5, <1>6

\* The seat the caller waits for always has something to answer, and INFO tells
\* it what: the difference between the bet and its own bet as shown is callAmt.
THEOREM AskedSeatIsTold == Spec => []AskedSeatOwesWhatIsShown
<1>1. ASSUME TableInv, NEW p \in Seats, Asked(p)
      PROVE  /\ current_bets[p] = -1
             /\ InfoPacket(p).bet_size - InfoPacket(p).player_bets[p] = CallAmount(p)
  BY <1>1, AskedSeatOwes DEF InfoPacket, ShownBet, CallAmount
<1>2. TableInv => AskedSeatOwesWhatIsShown
  BY <1>1 DEF AskedSeatOwesWhatIsShown
<1>3. QED
  BY <1>2, TableIsSound, PTL

\* The first button of the game screen is a legal move whenever the player is
\* waited for, for any number of seats and after any raises, folds and all-ins.
THEOREM FirstButtonIsLegal == Spec => []OfferedMoveIsAccepted
<1>1. ASSUME TableInv, NEW p \in Seats, Asked(p)
      PROVE  Accepts(p, FirstButton(InfoPacket(p)))
  <2>1. p \in Active /\ current_bets[p] = -1 /\ highest_bet \in Nat /\ highest_bet > 0
    BY <1>1, AskedSeatOwes
  <2>2. FirstButton(InfoPacket(p)).type = "CALL"
    BY <2>1 DEF FirstButton, InfoPacket
  <2>3. MayAct(p)
    BY <1>1, <2>1 DEF MayAct, Asked, Active, SeatsThat
  <2>4. CanCall(p)
    BY <2>1 DEF CanCall, CallAmount
  <2>5. QED
    BY <2>2, <2>3, <2>4 DEF Accepts
<1>2. TableInv => OfferedMoveIsAccepted
  BY <1>1 DEF OfferedMoveIsAccepted
<1>3. QED
  BY <1>2, TableIsSound, PTL

-----------------------------------------------------------------------------
(* The cards: no card is in two places.  A hand is dealt by counting the    *)
(* ACTIVE seats below each seat, so this is about cardinalities.            *)

\* Every seat that is dealt in has a place of its own in the order of dealing.
LEMMA PlacesDiffer ==
    ASSUME NEW p \in Active
    PROVE  /\ DealtBefore(p) \in Nat
           /\ DealtBefore(p) + 1 <= Cardinality(Active)
           /\ \A q \in Active : p < q => DealtBefore(p) + 1 <= DealtBefore(q)
<1> DEFINE Below(r) == {q \in Active : q < r}
<1>1. Active \subseteq Seats /\ Active \subseteq Int
  BY SeatsAssumption DEF Active, SeatsThat, Seats
<1>2. p \notin Below(p)
  BY <1>1
<1>3. IsFiniteSet(Below(p)) /\ DealtBefore(p) \in Nat
  BY <1>1, SeatsAreFinite DEF DealtBefore
<1>4. Cardinality(Below(p) \cup {p}) = DealtBefore(p) + 1
  BY <1>2, <1>3, FS_AddElement DEF DealtBefore
<1>5. ASSUME NEW S \in SUBSET Seats, Below(p) \cup {p} \subseteq S
      PROVE  DealtBefore(p) + 1 <= Cardinality(S)
  <2>1. IsFiniteSet(S)
    BY SeatsAreFinite
  <2>2. Cardinality(Below(p) \cup {p}) <= Cardinality(S)
    BY <1>5, <2>1, FS_Subset
  <2>3. QED
    BY <1>4, <2>2
<1>6. DealtBefore(p) + 1 <= Cardinality(Active)
  BY <1>1, <1>5
<1>7. ASSUME NEW q \in Active, p < q
      PROVE  DealtBefore(p) + 1 <= DealtBefore(q)
  <2>1. \A r \in Active : r < p => r < q
    BY <1>1, <1>7
  <2>2. Below(p) \cup {p} \subseteq Below(q)
    BY <1>7, <2>1
  <2>3. Below(q) \in SUBSET Seats
    BY <1>1
  <2>4. QED
    BY <1>5, <2>2, <2>3 DEF DealtBefore
<1>8. QED
  BY <1>3, <1>6, <1>7

\* There are not more seats dealt in than seats.
LEMMA ActiveIsBounded ==
    Cardinality(Active) \in Nat /\ Cardinality(Active) <= MAX_PLAYERS
<1>1. Active \in SUBSET Seats
  BY DEF Active, SeatsThat
<1>2. IsFiniteSet(Seats) /\ Cardinality(Seats) = MAX_PLAYERS
  BY FS_Interval, SeatsAssumption DEF Seats
<1>3. QED
  BY <1>1, <1>2, FS_Subset, FS_CardinalityType

-----------------------------------------------------------------------------
(* The inductive invariant *)

\* Cards on the board in each street.
BoardSize == [PREFLOP |-> 0, FLOP |-> 3, TURN |-> 4, RIVER |-> 5]

\* Between the reset and the deal no card is out; afterwards two for each seat,
\* at most, and those on the board.
DeckLasts ==
    /\ phase = "ready" => next_card = 0 /\ \A p \in Seats : player_hands[p] = NoHand
    /\ phase = "hand" => next_card <= 2 * MAX_PLAYERS + BoardSize[round_stage]

CardInv == TypeOK /\ StageFitsPhase /\ DeckLasts /\ CardsAreDistinct

\* A step that leaves the cards where they are.
LEMMA CardsStay ==
    ASSUME CardInv, TypeOK', StageFitsPhase', UNCHANGED cardVars, phase' = "hand" => phase = "hand",
           phase' = "ready" => phase = "ready", phase' = "hand" => round_stage' = round_stage
    PROVE  CardInv'
<1> USE DEF CardInv, cardVars
<1>1. DeckLasts'
  BY DEF DeckLasts
<1>2. CardsAreDistinct'
  BY DEF CardsAreDistinct
<1>3. QED
  BY <1>1, <1>2

LEMMA ResetClearsCards ==
    ASSUME TypeOK', StageFitsPhase', ResetGameState
    PROVE  CardInv'
<1>1. /\ next_card' = 0 /\ community_cards' = {} /\ phase' = "ready"
      /\ \A p \in Seats : player_hands'[p] = NoHand
  BY DEF ResetGameState
<1>2. DeckLasts'
  BY <1>1 DEF DeckLasts
<1>3. CardsAreDistinct'
  BY <1>1, DeckAssumption, SeatsAssumption DEF CardsAreDistinct
<1>4. QED
  BY <1>2, <1>3 DEF CardInv

\* What a deal does: server_deal and the copy of it in main().
DealsCards ==
    /\ phase = "ready" /\ phase' = "hand"
    /\ player_hands' = [p \in Seats |-> IF p \in Active THEN DealtHand(p) ELSE player_hands[p]]
    /\ next_card' = next_card + 2 * Cardinality(Active)
    /\ UNCHANGED <<round_stage, community_cards>>

\* Two cards to each seat, different from those of every other.
LEMMA DealKeepsCards ==
    ASSUME CardInv, TypeOK', StageFitsPhase', DealsCards
    PROVE  CardInv'
<1>1. /\ next_card = 0 /\ phase = "ready" /\ phase' = "hand" /\ round_stage' = "PREFLOP"
      /\ community_cards' = community_cards /\ community_cards = {}
      /\ \A p \in Seats : player_hands[p] = NoHand
  BY DEF DealsCards, CardInv, StageFitsPhase, DeckLasts, CardsAreDistinct
<1>2. next_card' = 2 * Cardinality(Active)
  BY <1>1, ActiveIsBounded DEF DealsCards
<1>3. \A p \in Active : player_hands'[p] = <<2 * DealtBefore(p), 2 * DealtBefore(p) + 1>>
  BY <1>1, PlacesDiffer DEF DealsCards, DealtHand, Active, SeatsThat
<1>4. \A p \in Seats : player_hands'[p] # NoHand => p \in Active
  BY <1>1 DEF DealsCards
<1>5. next_card' <= 2 * MAX_PLAYERS /\ next_card' <= DECK_SIZE /\ next_card' \in Nat
  BY <1>2, ActiveIsBounded, SeatsAssumption, DeckAssumption
<1>6. DeckLasts'
  BY <1>1, <1>5, SeatsAssumption DEF DeckLasts, BoardSize
<1>7. ASSUME NEW p \in Active, NEW i \in 1 .. 2
      PROVE  player_hands'[p][i] = 2 * DealtBefore(p) + i - 1
  BY <1>3, <1>7, PlacesDiffer
<1>8. \A p \in Active, i \in 1 .. 2 : player_hands'[p][i] \in 0 .. next_card' - 1
  BY <1>2, <1>7, PlacesDiffer, ActiveIsBounded
<1>9. ASSUME NEW p \in Active, NEW q \in Active, NEW i \in 1 .. 2, NEW j \in 1 .. 2,
             player_hands'[q][j] = player_hands'[p][i]
      PROVE  q = p /\ j = i
  <2>1. 2 * DealtBefore(q) + j - 1 = 2 * DealtBefore(p) + i - 1
    BY <1>7, <1>9
  <2>2. p \in Int /\ q \in Int
    BY SeatsAssumption DEF Active, SeatsThat, Seats
  <2>3. ~ (p < q) /\ ~ (q < p)
    BY <2>1, PlacesDiffer
  <2>4. p = q
    BY <2>2, <2>3
  <2>5. QED
    BY <2>1, <2>4, PlacesDiffer
<1>10. ASSUME NEW q \in Seats, NEW j \in 1 .. 2, NEW p \in Active, NEW i \in 1 .. 2,
              player_hands'[q][j] = player_hands'[p][i]
       PROVE  q = p /\ j = i
  <2>1. CASE q \in Active
    BY <1>9, <1>10, <2>1
  <2>2. CASE q \notin Active
    <3>1. player_hands'[q] = NoHand
      BY <1>4, <2>2
    <3>2. player_hands'[q][j] = -1
      BY <3>1 DEF NoHand
    <3>3. player_hands'[p][i] \in Nat
      BY <1>8, <1>5
    <3>4. QED
      BY <1>10, <3>2, <3>3
  <2>3. QED
    BY <2>1, <2>2
<1>11. CardsAreDistinct'
  BY <1>1, <1>4, <1>5, <1>8, <1>10 DEF CardsAreDistinct
<1>12. QED
  BY <1>6, <1>11 DEF CardInv

\* The board grows by the next cards of the deck, which nobody holds.
LEMMA CommunityKeepsCards ==
    ASSUME CardInv, TypeOK', StageFitsPhase', ServerCommunity
    PROVE  CardInv'
<1>1. CASE phase' # "hand"
  <2>1. phase' # "ready"
    BY DEF ServerCommunity
  <2>2. QED
    BY <1>1, <2>1 DEF CardInv, DeckLasts, CardsAreDistinct
<1>2. CASE phase' = "hand"
  <2>1. /\ phase = "hand" /\ next_card \in Nat /\ player_hands' = player_hands
        /\ next_card <= 2 * MAX_PLAYERS + BoardSize[round_stage]
        /\ round_stage \in {"PREFLOP", "FLOP", "TURN"}
        /\ round_stage' = NextStage[round_stage]
    BY DEF ServerCommunity, CardInv, TypeOK, StageFitsPhase, DeckLasts, Stages
  <2> DEFINE fresh == NewCards[round_stage]
  <2>2. /\ fresh \in 1 .. 3
        /\ BoardSize[round_stage'] = BoardSize[round_stage] + fresh
        /\ BoardSize[round_stage'] \in 0 .. 5
        /\ BoardSize[round_stage] \in 0 .. 5
    BY <2>1 DEF NewCards, NextStage, BoardSize
  <2>3. /\ next_card' = next_card + fresh
        /\ community_cards' = community_cards \cup next_card .. next_card + fresh - 1
    BY DEF ServerCommunity
  <2> HIDE DEF fresh
  <2>4. /\ next_card' <= 2 * MAX_PLAYERS + BoardSize[round_stage']
        /\ next_card' <= DECK_SIZE /\ next_card' \in Nat
    BY <2>1, <2>2, <2>3, SeatsAssumption, DeckAssumption
  <2>5. DeckLasts'
    BY <1>2, <2>4 DEF DeckLasts
  <2>6. community_cards' \subseteq 0 .. next_card' - 1
    BY <2>1, <2>2, <2>3 DEF CardInv, CardsAreDistinct
  <2>7. ASSUME NEW p \in Seats, player_hands[p] # NoHand, NEW i \in 1 .. 2
        PROVE  /\ player_hands[p][i] \in 0 .. next_card' - 1
               /\ player_hands[p][i] \notin community_cards'
    <3>1. player_hands[p][i] \in 0 .. next_card - 1 /\ player_hands[p][i] \notin community_cards
      BY <2>1, <2>7 DEF CardInv, CardsAreDistinct
    <3>2. QED
      BY <2>1, <2>2, <2>3, <3>1
  <2> DEFINE NobodyShares(hands) ==
         \A p \in Seats : hands[p] # NoHand =>
            \A i \in 1 .. 2 : \A q \in Seats, j \in 1 .. 2 :
               hands[q][j] = hands[p][i] => q = p /\ j = i
  <2>8. NobodyShares(player_hands)
    BY <2>1 DEF CardInv, CardsAreDistinct
  <2>9. player_hands' = player_hands
    BY <2>1
  <2>10. CardsAreDistinct'
    <3>1. \A p \in Seats : player_hands'[p] # NoHand =>
             \A i \in 1 .. 2 : /\ player_hands'[p][i] \in 0 .. next_card' - 1
                              /\ player_hands'[p][i] \notin community_cards'
      BY <2>7, <2>9
    <3>2. NobodyShares(player_hands')
      <4> HIDE DEF NobodyShares
      <4>1. QED
        BY <2>8, <2>9
    <3>3. QED
      BY <2>4, <2>6, <3>1, <3>2, Zenon DEF CardsAreDistinct
  <2>11. QED
    BY <2>5, <2>10 DEF CardInv
<1>3. QED
  BY <1>1, <1>2

LEMMA CardsKeep == TableInv /\ CardInv /\ [Next]_tableVars => CardInv'
<1> SUFFICES ASSUME TableInv, CardInv, [Next]_tableVars PROVE CardInv'
  OBVIOUS
<1>1. TypeOK' /\ StageFitsPhase'
  BY NextKeeps DEF TableInv
<1>2. CASE ResetGameState
  BY <1>1, <1>2, ResetClearsCards
<1>3. CASE ServerDeal
  BY <1>1, <1>3, DealKeepsCards DEF ServerDeal, DealsCards
<1>4. CASE ServerCommunity
  BY <1>1, <1>4, CommunityKeepsCards
<1>5. CASE JoinDone \/ Halt \/ ServerEnd \/ UNCHANGED tableVars
  BY <1>1, <1>5, CardsStay DEF JoinDone, Halt, ServerEnd, cardVars, tableVars
<1>6. ASSUME NEW p \in Seats, Join(p) \/ Leave(p) PROVE CardInv'
  BY <1>1, <1>6, CardsStay DEF Join, Leave
<1>7. ASSUME NEW p \in Seats, NEW in \in ActionPackets, HandleClientAction(p, in)
      PROVE  CardInv'
  BY <1>1, <1>7, CardsStay DEF HandleClientAction
<1>8. QED
  BY <1>2, <1>3, <1>4, <1>5, <1>6, <1>7 DEF Next

\* No card is dealt twice and the deck never runs out, however many seats are
\* dealt in and whichever of them left between hands.
THEOREM NoCardTwice == Spec => []CardsAreDistinct
<1>1. Init => CardInv
  BY InitEstablishes DEF Init, TableInv, CardInv, DeckLasts, CardsAreDistinct
<1>2. CardInv => CardsAreDistinct
  BY DEF CardInv
<1>3. QED
  BY <1>1, <1>2, CardsKeep, TableIsSound, PTL DEF Spec

=============================================================================

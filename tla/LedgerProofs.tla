----------------------------- MODULE LedgerProofs -----------------------------
(***************************************************************************)
(* The table engine implements the chip ledger: every step of the engine   *)
(* is one step of the ledger or changes nothing the ledger speaks of.  So  *)
(* no chip is made or lost: a step of the ledger moves chips between one   *)
(* stack and the pot, and that the total stays is a fact about the sum of  *)
(* the stacks, by induction on the seats.  What was paid into the pot says *)
(* more than current_bets does: a seat that counts as having matched the   *)
(* bet has paid it in this street, and a move that was waited for costs    *)
(* chips or the seat its say.                                              *)
(***************************************************************************)
EXTENDS TableHistory, PokerTableProofs

-----------------------------------------------------------------------------
(* The refinement *)

\* An action that changes no status leaves the contenders alone.
LEMMA SameContenders ==
    ASSUME player_status' = player_status
    PROVE  Contenders' = Contenders
BY DEF Contenders, Active, SeatsThat

LEMMA LedgerStarts == Init => Ledger!LedgerInit
BY DEF Init, Ledger!LedgerInit, Contenders, Active, SeatsThat

\* A seat that joins enters, one that leaves gives up.
LEMMA JoinEnters ==
    ASSUME TableInv, NEW p \in Seats, Join(p)
    PROVE  Ledger!LedgerNext
<1>1. pot_size = 0
  BY DEF TableInv, PotCoversBet, Join
<1>2. Contenders' = Contenders \cup {p}
  BY DEF TableInv, TypeOK, Join, Contenders, Active, SeatsThat
<1>3. Ledger!Enter(p)
  BY <1>1, <1>2 DEF Join, Ledger!Enter
<1>4. QED
  BY <1>3 DEF Ledger!LedgerNext

LEMMA LeaveGivesUp ==
    ASSUME TableInv, NEW p \in Seats, Leave(p)
    PROVE  Ledger!LedgerNext
<1>1. Contenders' = Contenders \ {p}
  BY DEF TableInv, TypeOK, Leave, Contenders, Active, SeatsThat
<1>2. Ledger!GiveUp(p)
  BY <1>1 DEF Leave, Ledger!GiveUp
<1>3. QED
  BY <1>2 DEF Ledger!LedgerNext

\* A packet puts chips in, gives up, or is a check.
LEMMA ActionPays ==
    ASSUME TableInv, NEW p \in Seats, NEW in \in ActionPackets, HandleClientAction(p, in)
    PROVE  Ledger!LedgerNext \/ UNCHANGED Ledger!ledgerVars
<1>1. /\ phase = "hand" /\ p \in Active /\ p \in Contenders
      /\ player_status[p] = "ACTIVE" /\ player_status \in [Seats -> Statuses]
      /\ player_stacks[p] \in Nat /\ highest_bet \in Nat
      /\ current_bets[p] \in Nat \cup {-1}
  BY DEF HandleClientAction, Accepts, MayAct, Active, Contenders, SeatsThat, TableInv, TypeOK
<1>2. current_bets[p] = highest_bet \/ current_bets[p] = -1
  BY <1>1 DEF TableInv, BetsMatchedOrOwed
<1>3. CallAmount(p) \in Nat
  BY <1>1, <1>2 DEF CallAmount
<1>4. ASSUME NEW chips \in 0 .. player_stacks[p], Stake(p, chips), Contenders' = Contenders
      PROVE  Ledger!LedgerNext
  <2>1. Ledger!PutIn(p, chips)
    BY <1>1, <1>4 DEF Stake, Ledger!PutIn
  <2>2. QED
    BY <2>1 DEF Ledger!LedgerNext
<1>5. CASE Check(p)
  BY <1>5, SameContenders DEF Check, Ledger!ledgerVars
<1>6. CASE Call(p)
  <2>1. CallAmount(p) \in 0 .. player_stacks[p] /\ Stake(p, CallAmount(p))
    BY <1>1, <1>3, <1>6 DEF Call
  <2>2. QED
    BY <1>4, <1>6, <2>1, SameContenders DEF Call
<1>7. CASE CallAllIn(p)
  <2>1. player_stacks[p] \in 0 .. player_stacks[p] /\ Stake(p, player_stacks[p])
    BY <1>1, <1>7 DEF CallAllIn
  <2>2. Contenders' = Contenders
    BY <1>1, <1>7 DEF CallAllIn, Contenders, Active, SeatsThat
  <2>3. QED
    BY <1>4, <2>1, <2>2
<1>8. CASE in.type = "RAISE" /\ Raise(p, in.amount)
  <2>1. in.amount \in Int /\ CanRaise(p, in.amount)
    BY <1>8, AmountsAssumption DEF ActionPackets, HandleClientAction, Accepts
  <2>2. in.amount - current_bets[p] \in 0 .. player_stacks[p]
    BY <1>1, <1>2, <2>1 DEF CanRaise
  <2>3. QED
    BY <1>4, <1>8, <2>2, SameContenders DEF Raise
<1>9. CASE Fold(p)
  <2>1. Contenders' = Contenders \ {p}
    BY <1>1, <1>9 DEF Fold, Contenders, Active, SeatsThat
  <2>2. Ledger!GiveUp(p)
    BY <1>9, <2>1 DEF Fold, Ledger!GiveUp
  <2>3. QED
    BY <2>2 DEF Ledger!LedgerNext
<1>10. QED
  BY <1>5, <1>6, <1>7, <1>8, <1>9 DEF HandleClientAction

\* The showdown awards the pot to a contender.
LEMMA EndAwards ==
    ASSUME TableInv, ServerEnd
    PROVE  Ledger!LedgerNext
<1>1. /\ Contenders # {} /\ Contenders \subseteq Seats
      /\ Contenders' = Contenders
  BY SameContenders
  DEF ServerEnd, TableInv, SomeoneCanWin, Contenders, Active, SeatsThat
<1>2. PICK value \in HandValues :
            IF FindWinner(value) \in Seats
            THEN /\ player_stacks' = [player_stacks EXCEPT ![FindWinner(value)] = @ + pot_size]
                 /\ pot_size' = 0
            ELSE UNCHANGED <<player_stacks, pot_size>>
  BY DEF ServerEnd
<1>3. FindWinner(value) \in Contenders
  BY <1>1, WinnerIsAContender DEF HandValues
<1>4. Ledger!Award(FindWinner(value))
  BY <1>1, <1>2, <1>3 DEF Ledger!Award
<1>5. QED
  BY <1>1, <1>3, <1>4 DEF Ledger!LedgerNext

LEMMA LedgerSteps ==
    ASSUME TableInv, [Next]_tableVars
    PROVE  [Ledger!LedgerNext]_(Ledger!ledgerVars)
<1>1. ASSUME NEW p \in Seats, Join(p) PROVE Ledger!LedgerNext
  BY <1>1, JoinEnters
<1>2. CASE JoinDone
  BY <1>2, SameContenders DEF JoinDone, Ledger!ledgerVars
<1>3. CASE ResetGameState
  BY <1>3, SameContenders DEF ResetGameState, Ledger!ledgerVars, TableInv, PotCoversBet
<1>4. ASSUME NEW p \in Seats, Leave(p) PROVE Ledger!LedgerNext
  BY <1>4, LeaveGivesUp
<1>5. CASE Halt
  BY <1>5, SameContenders DEF Halt, Ledger!ledgerVars
<1>6. CASE ServerDeal
  BY <1>6, SameContenders DEF ServerDeal, Ledger!ledgerVars
<1>7. ASSUME NEW p \in Seats, NEW in \in ActionPackets, HandleClientAction(p, in)
      PROVE  Ledger!LedgerNext \/ UNCHANGED Ledger!ledgerVars
  BY <1>7, ActionPays
<1>8. CASE ServerCommunity
  BY <1>8, SameContenders DEF ServerCommunity, Ledger!ledgerVars
<1>9. CASE ServerEnd
  BY <1>9, EndAwards
<1>10. CASE UNCHANGED tableVars
  BY <1>10, SameContenders DEF tableVars, Ledger!ledgerVars
<1>11. QED
  BY <1>1, <1>2, <1>3, <1>4, <1>5, <1>6, <1>7, <1>8, <1>9, <1>10 DEF Next

\* The engine moves chips only as the ledger allows, for every number of seats,
\* every stack and every set of raises and hand values.
THEOREM TableImplementsLedger == Spec => ImplementsLedger
<1>1. Init => Ledger!LedgerInit
  BY LedgerStarts
<1>2. TableInv /\ [Next]_tableVars => [Ledger!LedgerNext]_(Ledger!ledgerVars)
  BY LedgerSteps
<1>3. QED
  BY <1>1, <1>2, TableIsSound, PTL DEF Spec, ImplementsLedger, Ledger!LedgerSpec


-----------------------------------------------------------------------------
(* Sums over the seats *)

\* Induction on the naturals, for a set rather than a predicate: it is the
\* least number that is not in the set that there cannot be.
LEMMA EveryNatural ==
    ASSUME NEW S, 0 \in S, \A n \in Nat : n \in S => n + 1 \in S
    PROVE  Nat \subseteq S
<1> SUFFICES ASSUME Nat \ S # {} PROVE FALSE
  OBVIOUS
<1>1. PICK m \in Nat \ S : \A n \in Nat \ S : m <= n
  BY LeastElement
<1>2. m - 1 \in Nat
  BY <1>1
<1>3. m - 1 \in S
  BY <1>1, <1>2
<1>4. (m - 1) + 1 \in S
  BY <1>2, <1>3
<1>5. QED
  BY <1>1, <1>4

\* The recursion of ChipsBelow defines a function.
LEMMA SumExists ==
    ASSUME NEW s
    PROVE  \E sum : sum = [p \in 0 .. MAX_PLAYERS |->
                              IF p = 0 THEN 0 ELSE sum[p - 1] + s[p - 1]]
<1> DEFINE IsSum(sum, n) ==
       sum = [p \in 0 .. n |-> IF p = 0 THEN 0 ELSE sum[p - 1] + s[p - 1]]
    S == {n \in Nat : \E sum : IsSum(sum, n)}
<1>1. 0 \in S
  <2>1. IsSum([p \in 0 .. 0 |-> 0], 0)
    OBVIOUS
  <2>2. QED
    BY <2>1
<1>2. ASSUME NEW n \in Nat, n \in S
      PROVE  n + 1 \in S
  <2>1. PICK sum : IsSum(sum, n)
    BY <1>2
  <2> DEFINE longer == [p \in 0 .. n + 1 |-> IF p <= n THEN sum[p] ELSE sum[n] + s[n]]
  <2>2. \A p \in 0 .. n : sum[p] = IF p = 0 THEN 0 ELSE sum[p - 1] + s[p - 1]
    <3> HIDE DEF S
    <3>1. QED
      BY <2>1
  <2>3. ASSUME NEW p \in 0 .. n + 1
        PROVE  longer[p] = IF p = 0 THEN 0 ELSE longer[p - 1] + s[p - 1]
    <3>1. CASE p = 0
      BY <2>2, <3>1
    <3>2. CASE p # 0 /\ p <= n
      <4>1. p - 1 \in 0 .. n /\ longer[p] = sum[p] /\ longer[p - 1] = sum[p - 1]
        BY <3>2
      <4>2. QED
        BY <2>2, <3>2, <4>1
    <3>3. CASE p = n + 1
      <4>1. p - 1 = n /\ longer[n] = sum[n] /\ longer[p] = sum[n] + s[n] /\ p # 0
        BY <3>3
      <4>2. QED
        BY <4>1
    <3>4. QED
      BY <3>1, <3>2, <3>3
  <2>4. IsSum(longer, n + 1)
    BY <2>3
  <2> HIDE DEF IsSum, longer
  <2>5. QED
    BY <2>4
<1> HIDE DEF S
<1>3. Nat \subseteq S
  BY <1>1, <1>2, EveryNatural
<1>4. MAX_PLAYERS \in S
  BY <1>3, SeatsAssumption
<1>5. QED
  BY <1>4 DEF S

\* What ChipsBelow computes, step by step.
LEMMA SumStep ==
    ASSUME NEW s \in [Seats -> Int]
    PROVE  /\ ChipsBelow(s)[0] = 0
           /\ \A n \in Seats : ChipsBelow(s)[n + 1] = ChipsBelow(s)[n] + s[n]
<1> DEFINE sum == ChipsBelow(s)
<1>1. sum = [p \in 0 .. MAX_PLAYERS |-> IF p = 0 THEN 0 ELSE sum[p - 1] + s[p - 1]]
  BY SumExists DEF ChipsBelow
<1> HIDE DEF sum
<1>2. sum[0] = 0
  BY <1>1, SeatsAssumption
<1>3. ASSUME NEW n \in Seats PROVE sum[n + 1] = sum[n] + s[n]
  <2>1. n + 1 \in 0 .. MAX_PLAYERS /\ n + 1 # 0 /\ (n + 1) - 1 = n
    BY SeatsAssumption DEF Seats
  <2>2. QED
    BY <1>1, <2>1
<1>4. QED
  BY <1>2, <1>3 DEF sum

\* Induction on the seats for a claim about every number of first seats.
LEMMA EverySeat ==
    ASSUME NEW S, 0 \in S, \A n \in Seats : n \in S => n + 1 \in S
    PROVE  0 .. MAX_PLAYERS \subseteq S
<1> DEFINE T == S \cup {n \in Nat : n > MAX_PLAYERS}
<1>1. 0 \in T
  OBVIOUS
<1>2. ASSUME NEW n \in Nat, n \in T PROVE n + 1 \in T
  <2>1. CASE n \in Seats
    <3>1. n \in S
      BY <1>2, <2>1, SeatsAssumption DEF Seats
    <3>2. QED
      BY <2>1, <3>1
  <2>2. CASE n \notin Seats
    BY <2>2, SeatsAssumption DEF Seats
  <2>3. QED
    BY <2>1, <2>2
<1>3. Nat \subseteq T
  <2> HIDE DEF T
  <2>1. QED
    BY <1>1, <1>2, EveryNatural
<1>4. QED
  BY <1>3, SeatsAssumption

LEMMA SumIsInt ==
    ASSUME NEW s \in [Seats -> Int]
    PROVE  \A n \in 0 .. MAX_PLAYERS : ChipsBelow(s)[n] \in Int
<1> DEFINE S == {n \in Nat : ChipsBelow(s)[n] \in Int}
<1>1. 0 \in S
  BY SumStep
<1>2. ASSUME NEW n \in Seats, n \in S PROVE n + 1 \in S
  <2>1. s[n] \in Int /\ ChipsBelow(s)[n + 1] = ChipsBelow(s)[n] + s[n]
    BY SumStep
  <2>2. QED
    BY <1>2, <2>1
<1>3. 0 .. MAX_PLAYERS \subseteq S
  <2> HIDE DEF S
  <2>1. QED
    BY <1>1, <1>2, EverySeat
<1>4. QED
  BY <1>3

\* Chips given to one seat are given to all sums it is in.
LEMMA SumChanges ==
    ASSUME NEW s \in [Seats -> Int], NEW p \in Seats, NEW chips \in Int,
           NEW t \in [Seats -> Int], t = [s EXCEPT ![p] = s[p] + chips]
    PROVE  ChipsBelow(t)[MAX_PLAYERS] = ChipsBelow(s)[MAX_PLAYERS] + chips
<1> DEFINE S == {n \in Nat : ChipsBelow(t)[n] = ChipsBelow(s)[n] + (IF p < n THEN chips ELSE 0)}
<1>1. 0 \in S
  <2>1. ChipsBelow(s)[0] = 0 /\ ChipsBelow(t)[0] = 0
    BY SumStep
  <2>2. ~ (p < 0)
    BY SeatsAssumption DEF Seats
  <2>3. QED
    BY <2>1, <2>2
<1>2. ASSUME NEW n \in Seats, n \in S PROVE n + 1 \in S
  <2>1. /\ ChipsBelow(s)[n + 1] = ChipsBelow(s)[n] + s[n]
        /\ ChipsBelow(t)[n + 1] = ChipsBelow(t)[n] + t[n]
    BY SumStep
  <2>2. ChipsBelow(s)[n] \in Int /\ s[n] \in Int /\ n \in Int /\ p \in Int /\ n + 1 \in Nat
    BY SumIsInt, SeatsAssumption DEF Seats
  <2>3. t[n] = s[n] + (IF n = p THEN chips ELSE 0)
    BY <2>2
  <2>4. ChipsBelow(t)[n] = ChipsBelow(s)[n] + (IF p < n THEN chips ELSE 0)
    BY <1>2
  <2>5. ChipsBelow(t)[n + 1] = ChipsBelow(s)[n + 1] + (IF p < n + 1 THEN chips ELSE 0)
    BY <2>1, <2>2, <2>3, <2>4
  <2>6. QED
    BY <2>2, <2>5
<1>3. 0 .. MAX_PLAYERS \subseteq S
  <2> HIDE DEF S
  <2>1. QED
    BY <1>1, <1>2, EverySeat
<1>4. ChipsBelow(t)[MAX_PLAYERS] = ChipsBelow(s)[MAX_PLAYERS]
                                   + (IF p < MAX_PLAYERS THEN chips ELSE 0)
  <2>1. MAX_PLAYERS \in 0 .. MAX_PLAYERS
    BY SeatsAssumption
  <2>2. QED
    BY <1>3, <2>1
<1>5. p < MAX_PLAYERS
  BY SeatsAssumption DEF Seats
<1>6. QED
  BY <1>4, <1>5

\* The sum of equal stacks.
LEMMA SumOfEqual ==
    ASSUME NEW s \in [Seats -> Int], NEW chips \in Int, \A p \in Seats : s[p] = chips
    PROVE  ChipsBelow(s)[MAX_PLAYERS] = MAX_PLAYERS * chips
<1> DEFINE S == {n \in Nat : ChipsBelow(s)[n] = n * chips}
<1>1. 0 \in S
  BY SumStep
<1>2. ASSUME NEW n \in Seats, n \in S PROVE n + 1 \in S
  <2>1. ChipsBelow(s)[n + 1] = n * chips + chips
    BY <1>2, SumStep
  <2>2. n \in Nat
    BY SeatsAssumption DEF Seats
  <2>3. (n + 1) * chips = n * chips + chips
    BY <2>2
  <2>4. QED
    BY <2>1, <2>2, <2>3
<1>3. 0 .. MAX_PLAYERS \subseteq S
  <2> HIDE DEF S
  <2>1. QED
    BY <1>1, <1>2, EverySeat
<1>4. QED
  BY <1>3, SeatsAssumption

-----------------------------------------------------------------------------
(* Conservation *)

\* The ledger moves chips between one stack and the pot.
LEMMA LedgerMovesChips ==
    ASSUME TableInv, Ledger!LedgerNext
    PROVE  \/ UNCHANGED <<player_stacks, pot_size>>
           \/ \E p \in Seats, chips \in Int :
                 /\ player_stacks' = [player_stacks EXCEPT ![p] = player_stacks[p] + chips]
                 /\ pot_size' = pot_size - chips
<1>1. player_stacks \in [Seats -> Nat] /\ pot_size \in Nat
  BY DEF TableInv, TypeOK
<1>2. ASSUME NEW p \in Seats, NEW chips \in 0 .. player_stacks[p], Ledger!PutIn(p, chips)
      PROVE  /\ -chips \in Int
             /\ player_stacks' = [player_stacks EXCEPT ![p] = player_stacks[p] + (-chips)]
             /\ pot_size' = pot_size - (-chips)
  <2>1. player_stacks[p] - chips = player_stacks[p] + (-chips) /\ pot_size + chips = pot_size - (-chips)
    BY <1>1
  <2>2. player_stacks' = [player_stacks EXCEPT ![p] = player_stacks[p] - chips]
        /\ pot_size' = pot_size + chips
    BY <1>2 DEF Ledger!PutIn
  <2>3. -chips \in Int
    BY <1>1
  <2>4. QED
    BY <2>1, <2>2, <2>3
<1>3. ASSUME NEW p \in Seats, Ledger!Award(p)
      PROVE  /\ player_stacks' = [player_stacks EXCEPT ![p] = player_stacks[p] + pot_size]
             /\ pot_size' = pot_size - pot_size
  BY <1>1, <1>3 DEF Ledger!Award
<1>4. ASSUME NEW p \in Seats, Ledger!Enter(p) \/ Ledger!GiveUp(p)
      PROVE  UNCHANGED <<player_stacks, pot_size>>
  BY <1>4 DEF Ledger!Enter, Ledger!GiveUp
<1>5. QED
  BY <1>1, <1>2, <1>3, <1>4 DEF Ledger!LedgerNext

ChipsInv == TableInv /\ ChipsAreConserved

LEMMA ChipsKeep == ChipsInv /\ [Next]_tableVars => ChipsInv'
<1> SUFFICES ASSUME ChipsInv, [Next]_tableVars PROVE ChipsInv'
  OBVIOUS
<1> USE DEF ChipsInv
<1>1. TableInv'
  BY NextKeeps
<1>2. /\ player_stacks \in [Seats -> Int] /\ player_stacks' \in [Seats -> Int]
      /\ pot_size \in Int
  BY <1>1 DEF TableInv, TypeOK
<1>3. Ledger!LedgerNext \/ UNCHANGED Ledger!ledgerVars
  BY LedgerSteps
<1>4. ASSUME NEW p \in Seats, NEW chips \in Int,
             player_stacks' = [player_stacks EXCEPT ![p] = player_stacks[p] + chips],
             pot_size' = pot_size - chips
      PROVE  ChipsAreConserved'
  <2> DEFINE stacks == player_stacks
             after == player_stacks'
  <2>1. ChipsBelow(after)[MAX_PLAYERS] = ChipsBelow(stacks)[MAX_PLAYERS] + chips
    <3>1. stacks \in [Seats -> Int] /\ after \in [Seats -> Int]
      BY <1>2
    <3>2. after = [stacks EXCEPT ![p] = stacks[p] + chips]
      BY <1>4
    <3> HIDE DEF stacks, after
    <3>3. \A t \in [Seats -> Int] : t = [stacks EXCEPT ![p] = stacks[p] + chips] =>
             ChipsBelow(t)[MAX_PLAYERS] = ChipsBelow(stacks)[MAX_PLAYERS] + chips
      BY <3>1, SumChanges, Zenon
    <3>4. QED
      BY <3>1, <3>2, <3>3, Zenon
  <2>2. ChipsBelow(player_stacks)[MAX_PLAYERS] \in Int
    BY <1>2, SumIsInt, SeatsAssumption
  <2>3. QED
    BY <1>2, <1>4, <2>1, <2>2 DEF ChipsAreConserved
<1>5. ASSUME UNCHANGED <<player_stacks, pot_size>>
      PROVE  ChipsAreConserved'
  BY <1>5 DEF ChipsAreConserved
<1>6. UNCHANGED Ledger!ledgerVars => UNCHANGED <<player_stacks, pot_size>>
  BY DEF Ledger!ledgerVars
<1>7. QED
  BY <1>1, <1>3, <1>4, <1>5, <1>6, LedgerMovesChips

\* The stacks and the pot always add up to what the seats started with.
THEOREM NoChipIsLost == Spec => []ChipsAreConserved
<1>1. Init => ChipsInv
  <2> SUFFICES ASSUME Init PROVE ChipsInv
    OBVIOUS
  <2>1. ChipsBelow(player_stacks)[MAX_PLAYERS] = MAX_PLAYERS * StartingStack
    BY SumOfEqual, StackAssumption DEF Init
  <2>2. MAX_PLAYERS * StartingStack \in Int
    BY SeatsAssumption, StackAssumption
  <2>3. QED
    BY <2>1, <2>2, InitEstablishes DEF Init, ChipsInv, ChipsAreConserved
<1>2. ChipsInv => ChipsAreConserved
  BY DEF ChipsInv
<1>3. QED
  BY <1>1, <1>2, ChipsKeep, PTL DEF Spec

-----------------------------------------------------------------------------
(* What the seats have paid in a street *)

\* Within a street only a packet that is accepted is a step.
LEMMA StreetStepIsAMove ==
    ASSUME TableInv, Next, SameStreet
    PROVE  \E p \in Seats, in \in ActionPackets : HandleClientAction(p, in)
<1>1. round_stage \in Stages
  BY DEF TableInv, TypeOK
<1>2. ~ServerCommunity
  BY <1>1 DEF ServerCommunity, SameStreet, NextStage, TableInv, StageFitsPhase, Stages
<1>3. QED
  BY <1>2 DEF Next, SameStreet, Join, JoinDone, ResetGameState, Leave, Halt, ServerDeal,
              ServerEnd

\* What was paid in a street is never negative: chips are given back only at
\* the showdown.
HistoryInv ==
    /\ TableInv
    /\ paid \in [Seats -> Nat]
    /\ MatchedHasPaid

\* What a packet that is accepted does to the seat it is from: it pays up to the
\* new bet, or cannot act any more.
LEMMA MatcherPays ==
    ASSUME HistoryInv, NEW p \in Seats, NEW in \in ActionPackets, HandleClientAction(p, in)
    PROVE  /\ phase = "hand" /\ highest_bet \in Nat /\ highest_bet' \in Nat
           /\ \A q \in Seats \ {p} : player_stacks'[q] = player_stacks[q]
           /\ player_stacks[p] - player_stacks'[p] \in Nat
           /\ p \in Active' /\ current_bets'[p] = highest_bet' =>
                 paid[p] + player_stacks[p] - player_stacks'[p] >= highest_bet'
           /\ \A q \in Seats \ {p} : q \in Active' =>
                 /\ q \in Active
                 /\ current_bets'[q] = highest_bet' =>
                       current_bets[q] = highest_bet /\ highest_bet' = highest_bet
<1> USE DEF HistoryInv
<1>1. /\ phase = "hand" /\ p \in Active /\ player_status[p] = "ACTIVE"
      /\ player_status \in [Seats -> Statuses]
      /\ player_stacks \in [Seats -> Nat] /\ player_stacks[p] \in Nat
      /\ current_bets \in [Seats -> Nat \cup {-1}] /\ current_bets[p] \in Nat \cup {-1}
      /\ highest_bet \in Nat /\ paid[p] \in Nat /\ pot_size \in Nat
  BY DEF HandleClientAction, Accepts, MayAct, Active, SeatsThat, TableInv, TypeOK
<1>2. \/ current_bets[p] = highest_bet /\ paid[p] >= highest_bet
      \/ current_bets[p] = -1 /\ highest_bet > 0
  BY <1>1 DEF TableInv, BetsMatchedOrOwed, MatchedHasPaid
<1>3. CallAmount(p) \in Nat /\ paid[p] + CallAmount(p) >= highest_bet
  BY <1>1, <1>2 DEF CallAmount
<1>4. \A q \in Seats : q \in Active <=> player_status[q] = "ACTIVE"
  BY DEF Active, SeatsThat
<1>5. \A q \in Seats : q \in Active' <=> player_status'[q] = "ACTIVE"
  BY DEF Active, SeatsThat
<1>6. CASE Check(p) /\ CanCheck(p)
  BY <1>1, <1>3, <1>4, <1>5, <1>6 DEF Check, CanCheck
<1>7. CASE Call(p)
  <2>1. player_stacks' = [player_stacks EXCEPT ![p] = player_stacks[p] - CallAmount(p)]
    BY <1>7 DEF Call, Stake
  <2>2. player_stacks[p] - player_stacks'[p] = CallAmount(p)
    BY <1>1, <1>3, <2>1
  <2>3. \A q \in Seats \ {p} : player_stacks'[q] = player_stacks[q]
    BY <1>1, <2>1
  <2>4. /\ current_bets' = [current_bets EXCEPT ![p] = highest_bet]
        /\ highest_bet' = highest_bet /\ player_status' = player_status
    BY <1>7 DEF Call
  <2>5. player_stacks'[p] \in Int
    BY <1>1, <1>3, <2>1
  <2>6. paid[p] + player_stacks[p] - player_stacks'[p] >= highest_bet'
    BY <1>1, <1>3, <2>2, <2>4, <2>5
  <2>7. QED
    BY <1>1, <1>3, <1>4, <1>5, <2>2, <2>3, <2>4, <2>6
<1>8. CASE CallAllIn(p)
  BY <1>1, <1>4, <1>5, <1>8 DEF CallAllIn, Stake
<1>9. CASE in.type = "RAISE" /\ Raise(p, in.amount)
  <2>1. in.amount \in Int /\ CanRaise(p, in.amount)
    BY <1>9, AmountsAssumption DEF ActionPackets, HandleClientAction, Accepts
  <2>2. /\ player_stacks' = [player_stacks EXCEPT ![p] = player_stacks[p] - (in.amount - current_bets[p])]
        /\ highest_bet' = in.amount /\ player_status' = player_status
        /\ current_bets' = [q \in Seats |-> IF q = p THEN in.amount
                                            ELSE IF q \in Active THEN -1 ELSE current_bets[q]]
    BY <1>9 DEF Raise, Stake
  <2>3. in.amount \in Nat /\ in.amount > highest_bet /\ in.amount > current_bets[p]
    BY <1>1, <2>1 DEF CanRaise
  <2>4. /\ player_stacks[p] - player_stacks'[p] = in.amount - current_bets[p]
        /\ in.amount - current_bets[p] \in Nat /\ player_stacks'[p] \in Int
    BY <1>1, <2>2, <2>3
  <2>5. \A q \in Seats \ {p} : player_stacks'[q] = player_stacks[q]
    BY <1>1, <2>2
  <2>6. paid[p] + player_stacks[p] - player_stacks'[p] >= highest_bet'
    BY <1>1, <1>2, <2>2, <2>3, <2>4
  <2>7. \A q \in Seats \ {p} : q \in Active' => q \in Active /\ current_bets'[q] = -1
    BY <1>4, <1>5, <2>2
  <2>8. QED
    BY <1>1, <2>2, <2>3, <2>4, <2>5, <2>6, <2>7
<1>10. CASE Fold(p)
  BY <1>1, <1>4, <1>5, <1>10 DEF Fold
<1>11. QED
  BY <1>6, <1>7, <1>8, <1>9, <1>10 DEF HandleClientAction, Accepts

LEMMA HistoryKeeps == HistoryInv /\ [HistoryNext]_historyVars => HistoryInv'
<1> SUFFICES ASSUME HistoryInv, [HistoryNext]_historyVars PROVE HistoryInv'
  OBVIOUS
<1>1. TableInv'
  BY NextKeeps DEF HistoryInv, HistoryNext, historyVars
<1>2. CASE UNCHANGED historyVars
  BY <1>1, <1>2 DEF historyVars, tableVars, HistoryInv, MatchedHasPaid, Active, SeatsThat
<1>3. CASE HistoryNext /\ ~SameStreet
  <2>1. paid' = [p \in Seats |-> 0]
    BY <1>3 DEF HistoryNext, Record, NothingPaid
  <2>2. phase' = "hand" => highest_bet' = 0
    BY <1>3 DEF HistoryNext, Next, SameStreet, Join, JoinDone, ResetGameState, Leave, Halt,
                ServerDeal, HandleClientAction, ServerCommunity, ServerEnd
  <2>3. MatchedHasPaid'
    BY <2>1, <2>2 DEF MatchedHasPaid, Active, SeatsThat
  <2>4. QED
    BY <1>1, <2>1, <2>3 DEF HistoryInv
<1>4. CASE HistoryNext /\ SameStreet
  <2>1. PICK p \in Seats, in \in ActionPackets : HandleClientAction(p, in)
    BY <1>4, StreetStepIsAMove DEF HistoryNext, HistoryInv
  <2>2. paid' = [q \in Seats |-> paid[q] + player_stacks[q] - player_stacks'[q]]
    BY <1>4 DEF HistoryNext, Record
  <2>3. paid \in [Seats -> Nat] /\ player_stacks \in [Seats -> Nat]
    BY DEF HistoryInv, TableInv, TypeOK
  <2>4. player_stacks' \in [Seats -> Nat]
    BY <1>1 DEF TableInv, TypeOK
  <2>5. \A q \in Seats \ {p} : paid'[q] = paid[q]
    BY <2>1, <2>2, <2>3, <2>4, MatcherPays
  <2>6. paid'[p] \in Nat /\ paid'[p] = paid[p] + player_stacks[p] - player_stacks'[p]
    BY <2>1, <2>2, <2>3, <2>4, MatcherPays
  <2>7. paid' \in [Seats -> Nat]
    BY <2>2, <2>3, <2>5, <2>6
  <2>8. ASSUME NEW q \in Active', current_bets'[q] = highest_bet'
        PROVE  paid'[q] >= highest_bet'
    <3>1. q \in Seats
      BY <2>8 DEF Active, SeatsThat
    <3>2. CASE q = p
      BY <2>1, <2>6, <2>8, <3>2, MatcherPays
    <3>3. CASE q # p
      <4>1. /\ phase = "hand" /\ q \in Active /\ current_bets[q] = highest_bet
            /\ highest_bet' = highest_bet
        BY <2>1, <2>8, <3>1, <3>3, MatcherPays
      <4>2. paid[q] >= highest_bet
        BY <4>1 DEF HistoryInv, MatchedHasPaid
      <4>3. QED
        BY <2>5, <3>1, <3>3, <4>1, <4>2
    <3>4. QED
      BY <3>2, <3>3
  <2>9. QED
    BY <1>1, <2>7, <2>8 DEF HistoryInv, MatchedHasPaid
<1>5. QED
  BY <1>2, <1>3, <1>4

\* Nobody stays in cheaply: who counts as having matched the bet has paid it in
\* this street, whatever raises came after what he paid before.
THEOREM MatchedSeatHasPaid == HistorySpec => []MatchedHasPaid
<1>1. HistoryInit => HistoryInv
  BY InitEstablishes DEF HistoryInit, Init, HistoryInv, NothingPaid, MatchedHasPaid
<1>2. HistoryInv => MatchedHasPaid
  BY DEF HistoryInv
<1>3. QED
  BY <1>1, <1>2, HistoryKeeps, PTL DEF HistorySpec

-----------------------------------------------------------------------------
(* What a move costs *)

\* The seat that is waited for owes all of a positive bet: a check is refused, a
\* call or raise brings chips, and who has none left to bring is all in.
LEMMA MoveCosts ==
    ASSUME TableInv, NEW p \in Seats, NEW in \in ActionPackets, HandleClientAction(p, in),
           ~CheckBettingEnd
    PROVE  /\ pot_size' >= pot_size /\ Active' \subseteq Active
           /\ pot_size' > pot_size \/ Active' # Active
<1>1. /\ p = current_player /\ p \in Active /\ phase = "hand"
      /\ pot_size \in Nat /\ pot_size' \in Nat /\ pot_size' >= pot_size
      /\ \A q \in Seats \ {p} : player_status'[q] = player_status[q]
  BY ActionEffect DEF HandleClientAction, Accepts, MayAct, TableInv, TypeOK
<1>2. current_bets[p] = -1 /\ highest_bet \in Nat /\ highest_bet > 0
  BY <1>1, AskedSeatOwes DEF Asked
<1>3. CallAmount(p) = highest_bet
  BY <1>2 DEF CallAmount
<1>4. Active' \subseteq Active
  BY <1>1 DEF Active, SeatsThat
<1>5. /\ player_status \in [Seats -> Statuses] /\ player_status[p] = "ACTIVE"
      /\ player_stacks[p] \in Nat
  BY <1>1 DEF TableInv, TypeOK, Active, SeatsThat
<1>6. ~CanCheck(p)
  BY <1>2, <1>3 DEF CanCheck
<1>7. CASE Call(p)
  BY <1>1, <1>2, <1>3, <1>4, <1>7 DEF Call, Stake
<1>8. CASE CallAllIn(p)
  BY <1>1, <1>4, <1>5, <1>8 DEF CallAllIn, Active, SeatsThat
<1>9. CASE in.type = "RAISE" /\ Raise(p, in.amount)
  <2>1. in.amount \in Int /\ CanRaise(p, in.amount)
    BY <1>9, AmountsAssumption DEF ActionPackets, HandleClientAction, Accepts
  <2>2. pot_size' = pot_size + (in.amount - current_bets[p]) /\ in.amount > current_bets[p]
    BY <1>9, <2>1 DEF Raise, Stake, CanRaise
  <2>3. QED
    BY <1>1, <1>2, <1>4, <2>1, <2>2
<1>10. CASE Fold(p)
  BY <1>1, <1>4, <1>5, <1>10 DEF Fold, Active, SeatsThat
<1>11. QED
  BY <1>6, <1>7, <1>8, <1>9, <1>10 DEF HandleClientAction, Accepts

\* Why a hand ends, for any number of seats and chips: a move the caller waited
\* for adds to a pot that holds at most all chips or takes a seat out of play.
THEOREM NoFreeMoves == HistorySpec => EveryMoveCosts
<1>1. ASSUME TableInv, [HistoryNext]_historyVars
      PROVE  [SameStreet /\ ~CheckBettingEnd =>
                /\ pot_size' >= pot_size /\ Active' \subseteq Active
                /\ pot_size' > pot_size \/ Active' # Active]_historyVars
  BY <1>1, StreetStepIsAMove, MoveCosts DEF HistoryNext
<1>2. HistoryInit => TableInv
  BY InitEstablishes DEF HistoryInit
<1>3. TableInv /\ [HistoryNext]_historyVars => TableInv'
  BY NextKeeps DEF HistoryNext, historyVars
<1>4. QED
  BY <1>1, <1>2, <1>3, PTL DEF HistorySpec, EveryMoveCosts

=============================================================================

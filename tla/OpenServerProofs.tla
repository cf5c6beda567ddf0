--------------------------- MODULE OpenServerProofs ---------------------------
(***************************************************************************)
(* Theorems about main() of poker_server.c with clients that may do        *)
(* anything, for every number of seats, connections and packets.           *)
(***************************************************************************)
EXTENDS ServerHistory, ServerProofs

\* A step of the open system is one of the server or of some client.
LEMMA OpenIsNet == [OpenNext]_openVars => [NetNext]_serverVars
<1>1. ASSUME NEW c \in Conns, SendAny(c) PROVE ClientActs(c)
  BY <1>1, ClientsAct DEF SendAny
<1>2. ASSUME NEW c \in Conns, ClientRecv(c) \/ ClientClose(c) PROVE ClientActs(c)
  BY <1>2, ClientsAct
<1>3. QED
  BY <1>1, <1>2 DEF OpenNext, ClientNext, NetNext, openVars

-----------------------------------------------------------------------------
(* The betting and the scans *)

THEOREM ServerInvHolds == OpenSpec => []ServerInv
<1>1. OpenInit => ServerInv
  BY ServerInvHoldsInitially DEF OpenInit
<1>2. ServerInv /\ [OpenNext]_openVars => ServerInv'
  BY OpenIsNet, ServerKeeps
<1>3. QED
  BY <1>1, <1>2, PTL DEF OpenSpec

\* No client is ever asked for a bet, for any number of seats and whatever the
\* clients do: the branch of the betting loop that reads a packet is dead.
THEOREM NobodyIsAskedToBet == OpenSpec => []BettingNeverOpens
<1>1. ServerInv => BettingNeverOpens
  BY NoBetsEndBetting DEF ServerInv, BettingNeverOpens
<1>2. QED
  BY <1>1, ServerInvHolds, PTL

\* The server never hangs in a scan for a seat, whoever left or never came.
THEOREM ScansEnd == OpenSpec => []ServerNeverSpins
<1>1. ServerInv => ServerNeverSpins
  BY DEF ServerInv, SomebodyPlays, ServerNeverSpins
<1>2. QED
  BY <1>1, ServerInvHolds, PTL

-----------------------------------------------------------------------------
(* Whom the server serves *)

THEOREM ServingInvHolds == OpenSpec => []ServingInv
<1>1. OpenInit => ServingInv
  BY ServingInvHoldsInitially DEF OpenInit
<1>2. ServingInv /\ [OpenNext]_openVars => ServingInv'
  BY OpenIsNet, ServingKeeps
<1>3. QED
  BY <1>1, <1>2, PTL DEF OpenSpec

\* The server reads from and writes to sockets it has accepted and not closed,
\* for any number of seats and clients: also when two clients joined at a seat,
\* when one went away before its JOIN, and when nobody took a seat.
THEOREM OpenSeatsAreServed == OpenSpec => []ServedSeatIsOpen
<1>1. ServingInv => ServedSeatIsOpen
  <2>1. SUFFICES ASSUME ServingInv, NEW p \in NonLeft,
                        player_status[p] = "ACTIVE" \/ phase = "hand"
                 PROVE  sockets[p] \in Conns /\ serverEnd[sockets[p]] = "open"
    BY DEF ServedSeatIsOpen
  <2>2. p \in Seats /\ player_status[p] # "LEFT"
    BY DEF NonLeft, SeatsThat
  <2>3. player_status[p] = "ACTIVE"
    BY <2>1, <2>2 DEF ServingInv, PlayersServed
  <2>4. Served(p) /\ sockets[p] \in Conns \cup {NoConn}
    BY <2>1, <2>2, <2>3 DEF ServingInv, PlayersServed, ConnectionsInPlace
  <2>5. QED
    BY <2>4 DEF Served
<1>2. QED
  BY <1>1, ServingInvHolds, PTL

-----------------------------------------------------------------------------
(* What is sent, and to whom *)

THEOREM StreamInvHolds == OpenSpec => []StreamInv
<1>1. OpenInit => StreamInv
  BY StreamInvHoldsInitially DEF OpenInit
<1>2. StreamInv /\ ServingInv /\ [OpenNext]_openVars => StreamInv'
  BY OpenIsNet, StreamKeeps
<1>3. QED
  BY <1>1, <1>2, ServingInvHolds, PTL DEF OpenSpec

\* A client is never told that the turn is at no seat, and may use player_turn
\* as an index.
THEOREM TurnShownIsASeat == OpenSpec => []InfoNamesASeat
<1>1. StreamInv => InfoNamesASeat
  <2>1. SUFFICES ASSUME StreamInv, NEW c \in Conns, NEW n \in DOMAIN toClient[c],
                        toClient[c][n].type = "INFO"
                 PROVE  toClient[c][n].turn \in Seats
    BY DEF InfoNamesASeat
  <2>2. toClient[c] \in Seq(Packets)
    BY <2>1 DEF StreamInv
  <2>3. n \in 1 .. Len(toClient[c])
    BY <2>2, LenProperties
  <2>4. toClient[c][n] \in Packets
    BY <2>2, <2>3, ElementOfSeq
  <2>5. QED
    BY <2>1, <2>4 DEF Packets
<1>2. QED
  BY <1>1, StreamInvHolds, PTL

\* Who left stays away, and nothing is written to its socket.
THEOREM WhoLeftIsLeftAlone == OpenSpec => LeftIsFinal
<1>1. ServingInv /\ StreamInv /\ [OpenNext]_openVars => [LeftStays]_openVars
  BY OpenIsNet, StreamKeeps
<1>2. QED
  BY <1>1, ServingInvHolds, StreamInvHolds, PTL DEF OpenSpec, LeftIsFinal, LeftStays

-----------------------------------------------------------------------------
(* Types *)

\* The range of every variable, and the street it is at each place.
ServerTypeInv == ServerTypeOK /\ StageFitsPhase

\* What a step that leaves the table and the ready loop alone keeps.
LEMMA QuietKeepsTypes ==
    ASSUME ServerTypeInv, ServingInv',
           UNCHANGED <<tableVars, asking, readyCount>>,
           server' \in {"starting", "up", "exited", "killed"}
    PROVE  ServerTypeInv'
<1>1. TypeOK' /\ StageFitsPhase'
  BY DEF ServerTypeInv, ServerTypeOK, TypeOK, StageFitsPhase, tableVars
<1>2. /\ readset' \subseteq Seats
      /\ sockets' \in [Seats -> Conns \cup {NoConn}]
      /\ \A p \in Seats : \A n \in DOMAIN backlog'[p] : Port[backlog'[p][n]] = p
  BY DEF ServingInv, ConnectionsInPlace
<1>3. QED
  BY <1>1, <1>2 DEF ServerTypeInv, ServerTypeOK

LEMMA TypesKeep ==
    ASSUME ServerTypeInv, ServingInv, StreamInv, [NetNext]_serverVars
    PROVE  ServerTypeInv'
<1>1. ServingInv' /\ StreamInv'
  BY ServingKeeps, StreamKeeps
<1>2. /\ readset' \subseteq Seats
      /\ sockets' \in [Seats -> Conns \cup {NoConn}]
      /\ \A p \in Seats : \A n \in DOMAIN backlog'[p] : Port[backlog'[p][n]] = p
  <2>1. ConnectionsInPlace'
    BY <1>1 DEF ServingInv
  <2>2. \A p \in Seats : DOMAIN backlog'[p] = 1 .. Len(backlog'[p])
    BY <2>1 DEF ConnectionsInPlace
  <2>3. QED
    BY <2>1, <2>2 DEF ConnectionsInPlace
<1>3. dealer_player' \in Seats /\ player_status' \in [Seats -> Statuses]
  BY <1>1 DEF ServingInv, ServerInv, SomebodyPlays, StreamInv
<1> USE DEF ServerTypeInv, ServerTypeOK
<1>4. ASSUME NEW i \in Seats, Accept(i) PROVE ServerTypeInv'
  <2>1. TypeOK' /\ StageFitsPhase'
    BY <1>3, <1>4 DEF Accept, Join, TypeOK, StageFitsPhase, tableVars, cardVars
  <2>2. UNCHANGED <<server, asking, readyCount>>
    BY <1>4 DEF Accept, readyVars
  <2>3. QED
    BY <1>2, <2>1, <2>2
<1>5. CASE AllJoined
  <2>1. TypeOK' /\ StageFitsPhase'
    BY <1>5 DEF AllJoined, JoinDone, TypeOK, StageFitsPhase, cardVars, Phases
  <2>2. UNCHANGED <<server, asking, readyCount>>
    BY <1>5 DEF AllJoined, readyVars
  <2>3. QED
    BY <1>2, <2>1, <2>2
<1>6. CASE BeginHand
  <2>1. TypeOK' /\ StageFitsPhase'
    BY <1>3, <1>6 DEF BeginHand, ResetGameState, TypeOK, StageFitsPhase, Stages, Phases, NoHand
  <2>2. server' = server /\ asking' = 0 /\ readyCount' = 0
    BY <1>6 DEF BeginHand
  <2>3. QED
    BY <1>2, <2>1, <2>2, SeatsAssumption
<1>7. CASE SkipLeft \/ AskReady
  <2>1. TypeOK' /\ StageFitsPhase'
    BY <1>3, <1>7 DEF SkipLeft, AskReady, Leave, TypeOK, StageFitsPhase, tableVars, cardVars
  <2>2. /\ server' = server /\ asking \in Seats /\ asking' = asking + 1
        /\ readyCount' = readyCount \/ readyCount' = readyCount + 1
    BY <1>7 DEF SkipLeft, AskReady
  <2>3. asking' \in 0 .. MAX_PLAYERS /\ readyCount' \in 0 .. asking'
    BY <2>2, SeatsAssumption DEF Seats
  <2>4. QED
    BY <1>2, <2>1, <2>2, <2>3
<1>8. CASE HaltAll
  <2>1. TypeOK' /\ StageFitsPhase'
    BY <1>8 DEF HaltAll, Halt, TypeOK, StageFitsPhase, cardVars, Phases
  <2>2. server' \in {"exited", "killed"} /\ UNCHANGED <<asking, readyCount>>
    BY <1>8 DEF HaltAll, readyVars
  <2>3. QED
    BY <1>2, <2>1, <2>2
<1>9. CASE StartHand
  <2>1. phase = "ready" /\ Active # {}
    BY <1>9, StartersPlay DEF StartHand, ServingInv
  <2>2. current_player' \in Seats
    BY <1>9, <2>1, TurnGoesToASeat DEF StartHand, StreamInv
  <2>3. player_hands' \in [Seats -> Int \X Int] /\ next_card' \in Nat
    <3>1. Cardinality(Active) \in Nat
      BY SeatsAreFinite DEF Active, SeatsThat
    <3>2. ASSUME NEW p \in Seats PROVE DealtHand(p) \in Int \X Int
      <4>1. {q \in Active : q < p} \in SUBSET Seats
        BY DEF Active, SeatsThat
      <4>2. DealtBefore(p) \in Nat
        BY <4>1, SeatsAreFinite DEF DealtBefore
      <4>3. QED
        BY <4>2 DEF DealtHand, TypeOK
    <3>3. /\ player_hands' = [p \in Seats |-> IF p \in Active THEN DealtHand(p)
                                              ELSE player_hands[p]]
          /\ next_card' = next_card + 2 * Cardinality(Active)
      BY <1>9 DEF StartHand
    <3> HIDE DEF DealtHand
    <3>4. \A p \in Seats : (IF p \in Active THEN DealtHand(p) ELSE player_hands[p])
                              \in Int \X Int
      BY <3>2 DEF TypeOK
    <3>5. QED
      BY <3>1, <3>3, <3>4 DEF TypeOK
  <2>4. /\ phase' = "hand"
        /\ UNCHANGED <<player_stacks, current_bets, highest_bet, pot_size, round_stage,
                       community_cards, asking, readyCount>>
        /\ server' \in {"up", "killed"}
    BY <1>9, <2>1 DEF StartHand, Survives, readyVars
  <2>5. TypeOK' /\ StageFitsPhase'
    BY <1>3, <2>1, <2>2, <2>3, <2>4 DEF TypeOK, StageFitsPhase, Phases
  <2>6. QED
    BY <1>2, <2>4, <2>5
<1>10. CASE BettingLoop
  <2>1. phase = "hand" /\ CheckBettingEnd /\ Active # {}
    BY <1>10, NoBetsEndBetting DEF BettingLoop, ServingInv, ServerInv, SomebodyPlays
  <2>2. UNCHANGED <<asking, readyCount>>
    BY <1>10 DEF BettingLoop, readyVars
  <2>3. CASE Showdown
    <3>1. PICK value \in HandValues :
             player_stacks' = [player_stacks EXCEPT ![FindWinner(value)] = @ + pot_size]
      BY <2>3 DEF Showdown
    <3>2. FindWinner(value) \in Seats
      <4>1. Contenders # {} /\ Contenders \subseteq Seats
        BY <2>1 DEF Contenders, Active, SeatsThat
      <4>2. QED
        BY <4>1, WinnerIsAContender DEF HandValues
    <3>3. player_stacks' \in [Seats -> Nat]
      BY <3>1, <3>2 DEF TypeOK
    <3>4. /\ pot_size' = 0 /\ phase' = "reset"
          /\ UNCHANGED <<current_bets, highest_bet, current_player, round_stage, cardVars>>
          /\ server' \in {"up", "killed"}
      BY <2>3 DEF Showdown, Survives
    <3>5. TypeOK' /\ StageFitsPhase'
      BY <1>3, <3>3, <3>4 DEF TypeOK, StageFitsPhase, Phases, cardVars
    <3>6. QED
      BY <1>2, <2>2, <3>4, <3>5
  <2>4. CASE NextStreet /\ round_stage # "RIVER"
    <3>1. round_stage \in {"PREFLOP", "FLOP", "TURN"}
      BY <2>1, <2>4 DEF TypeOK, StageFitsPhase, Stages
    <3>2. /\ round_stage' \in {"FLOP", "TURN", "RIVER"}
          /\ next_card' \in Nat
          /\ community_cards' \subseteq Int
      <4>1. /\ NextStage[round_stage] \in {"FLOP", "TURN", "RIVER"}
            /\ NewCards[round_stage] \in Nat
        BY <3>1 DEF NextStage, NewCards
      <4>2. /\ round_stage' = NextStage[round_stage]
            /\ next_card' = next_card + NewCards[round_stage]
            /\ community_cards' =
                  community_cards \cup next_card .. next_card + NewCards[round_stage] - 1
        BY <2>4 DEF NextStreet, ServerCommunity
      <4>3. next_card \in Nat /\ community_cards \subseteq Int
        BY DEF TypeOK
      <4>4. next_card .. next_card + NewCards[round_stage] - 1 \subseteq Int
        OBVIOUS
      <4>5. community_cards' \subseteq Int
        BY <4>2, <4>3, <4>4
      <4> HIDE DEF ServerTypeInv, ServerTypeOK
      <4>6. next_card' \in Nat
        BY <4>1, <4>2, <4>3
      <4>7. QED
        BY <4>1, <4>2, <4>5, <4>6
    <3>3. current_player' \in Seats
      BY <2>1, <2>4, TurnGoesToASeat DEF NextStreet, ServerCommunity, StreamInv
    <3>4. current_bets' \in [Seats -> Nat \cup {-1}] /\ highest_bet' = 0
      BY <2>4 DEF NextStreet, ServerCommunity, TypeOK
    <3>5. /\ phase' = "hand" /\ UNCHANGED <<player_stacks, pot_size, player_hands>>
          /\ server' \in {"up", "killed"}
      BY <2>1, <2>4 DEF NextStreet, ServerCommunity, Survives
    <3>6. TypeOK' /\ StageFitsPhase'
      BY <1>3, <3>2, <3>3, <3>4, <3>5 DEF TypeOK, StageFitsPhase, Phases, Stages
    <3>7. QED
      BY <1>2, <2>2, <3>5, <3>6
  <2>5. QED
    BY <1>10, <2>1, <2>3, <2>4 DEF BettingLoop
<1>11. CASE Select \/ Listen \/ UNCHANGED serverVars
  BY <1>1, <1>11, QuietKeepsTypes
  DEF Select, Listen, serverVars, readyVars
<1>12. ASSUME NEW c \in Conns, Connect(c) \/ ClientActs(c)
       PROVE  ServerTypeInv'
  BY <1>1, <1>12, QuietKeepsTypes DEF Connect, ClientActs, readyVars
<1>13. QED
  BY <1>4, <1>5, <1>6, <1>7, <1>8, <1>9, <1>10, <1>11, <1>12 DEF NetNext, ServerNext

THEOREM ServerTypeInvHolds == OpenSpec => []ServerTypeInv
<1>1. OpenInit => ServerTypeInv
  <2> SUFFICES ASSUME OpenInit PROVE ServerTypeInv
    OBVIOUS
  <2>1. TypeOK
    BY SeatsAssumption, StackAssumption
    DEF OpenInit, ServerInit, Init, TypeOK, Seats, Statuses, Stages, Phases
  <2>2. ServingInv
    BY ServingInvHoldsInitially DEF OpenInit
  <2>3. QED
    BY <2>1, <2>2, SeatsAssumption
    DEF OpenInit, ServerInit, Init, ServerTypeInv, ServerTypeOK, StageFitsPhase,
        ServingInv, ConnectionsInPlace
<1>2. ServerTypeInv /\ ServingInv /\ StreamInv /\ [OpenNext]_openVars => ServerTypeInv'
  BY OpenIsNet, TypesKeep
<1>3. QED
  BY <1>1, <1>2, ServingInvHolds, StreamInvHolds, PTL DEF OpenSpec

\* Every variable of the server stays in its range whatever the clients do: the
\* READYs of a round are at most the seats asked, and every connection waits at
\* its own port.
THEOREM ServerTypesHold == OpenSpec => []ServerTypeOK
<1>1. ServerTypeInv => ServerTypeOK
  BY DEF ServerTypeInv
<1>2. QED
  BY <1>1, ServerTypeInvHolds, PTL

-----------------------------------------------------------------------------
(* The order of what is sent *)

THEOREM OrderInvHolds == OpenSpec => []OrderInv
<1>1. OpenInit => OrderInv
  BY OrderInvHoldsInitially DEF OpenInit
<1>2. OrderInv /\ ServingInv /\ StreamInv /\ [OpenNext]_openVars => OrderInv'
  BY OpenIsNet, OrderKeeps
<1>3. QED
  BY <1>1, <1>2, ServingInvHolds, StreamInvHolds, PTL DEF OpenSpec

\* Every client is sent whole hands: four INFOs and an END, whoever else left,
\* closed or never read, and nothing after HALT.
THEOREM WholeHandsAreSent == OpenSpec => []HandsAreWhole
<1>1. StreamInv /\ OrderInv => HandsAreWhole
  <2>1. SUFFICES ASSUME StreamInv, OrderInv, NEW c \in Conns
                 PROVE  /\ \A m, n \in Ends(c) : m < n => n - m >= 5
                        /\ \A n \in DOMAIN toClient[c] :
                              toClient[c][n].type = "HALT" => n = Len(toClient[c])
    BY DEF HandsAreWhole
  <2>2. DOMAIN toClient[c] = 1 .. Len(toClient[c])
    BY <2>1 DEF StreamInv
  <2>3. WholeHands(toClient[c])
    BY <2>1 DEF OrderInv
  <2>4. QED
    BY <2>2, <2>3 DEF WholeHands, Ends
<1>2. QED
  BY <1>1, StreamInvHolds, OrderInvHolds, PTL

-----------------------------------------------------------------------------
(* The cards of main(), which has a deal of its own *)

LEMMA ServerCardsKeep ==
    ASSUME CardInv, ServerTypeInv, ServingInv, StreamInv, [NetNext]_serverVars
    PROVE  CardInv'
<1>1. TypeOK' /\ StageFitsPhase'
  BY TypesKeep DEF ServerTypeInv, ServerTypeOK
<1>2. CASE BeginHand
  BY <1>1, <1>2, ResetClearsCards DEF BeginHand
<1>3. CASE StartHand
  <2>1. Active # {}
    BY <1>3, StartersPlay DEF ServingInv
  <2>2. DealsCards
    BY <1>3, <2>1 DEF StartHand, DealsCards
  <2>3. QED
    BY <1>1, <2>2, DealKeepsCards
<1>4. CASE BettingLoop
  <2>1. phase = "hand" /\ CheckBettingEnd
    BY <1>4, NoBetsEndBetting DEF BettingLoop, ServingInv, ServerInv
  <2>2. CASE ServerCommunity
    BY <1>1, <2>2, CommunityKeepsCards
  <2>3. CASE Showdown
    BY <1>1, <2>3, CardsStay DEF Showdown
  <2>4. QED
    BY <1>4, <2>1, <2>2, <2>3 DEF BettingLoop, NextStreet
<1>5. CASE AllJoined \/ HaltAll
  BY <1>1, <1>5, CardsStay DEF AllJoined, JoinDone, HaltAll, Halt
<1>6. ASSUME NEW i \in Seats, Accept(i) PROVE CardInv'
  BY <1>1, <1>6, CardsStay DEF Accept, Join, tableVars, cardVars
<1>7. CASE SkipLeft \/ AskReady
  BY <1>1, <1>7, CardsStay DEF SkipLeft, AskReady, Leave, tableVars, cardVars
<1>8. CASE UNCHANGED tableVars
  BY <1>1, <1>8, CardsStay DEF tableVars, cardVars
<1>9. QED
  BY <1>2, <1>3, <1>4, <1>5, <1>6, <1>7, <1>8
  DEF NetNext, ServerNext, Select, Listen, Connect, ClientActs, serverVars

THEOREM CardInvHolds == OpenSpec => []CardInv
<1>1. OpenInit => CardInv
  <2> SUFFICES ASSUME OpenInit PROVE CardInv
    OBVIOUS
  <2>1. Init
    BY DEF OpenInit, ServerInit
  <2>2. TypeOK /\ StageFitsPhase
    BY <2>1, InitEstablishes DEF TableInv
  <2>3. QED
    BY <2>1, <2>2 DEF Init, CardInv, DeckLasts, CardsAreDistinct
<1>2. CardInv /\ ServerTypeInv /\ ServingInv /\ StreamInv /\ [OpenNext]_openVars => CardInv'
  BY OpenIsNet, ServerCardsKeep
<1>3. QED
  BY <1>1, <1>2, ServerTypeInvHolds, ServingInvHolds, StreamInvHolds, PTL DEF OpenSpec

\* No card of main()'s own deal is in two places, whoever left between the hands
\* and however many hands are played.
THEOREM NoCardTwiceInMain == OpenSpec => []CardsAreDistinct
<1>1. CardInv => CardsAreDistinct
  BY DEF CardInv
<1>2. QED
  BY <1>1, CardInvHolds, PTL

-----------------------------------------------------------------------------
(* The hands: who plays them, and through which streets *)

\* The seats asked already that play.
AskedAlready == {p \in Active : p < asking}

\* As many seats play as have said READY, and a hand is dealt to who plays it and
\* has the cards of its street on the board.
HandInv ==
    /\ phase = "ready" => readyCount <= Cardinality(AskedAlready)
    /\ phase = "hand" =>
          /\ Cardinality(Active) >= 2
          /\ Active = {p \in Seats : player_hands[p] # NoHand}
          /\ Cardinality(community_cards) = BoardSize[round_stage]

\* What a step that leaves the table and the ready loop alone keeps.
LEMMA QuietKeepsHands ==
    ASSUME HandInv, UNCHANGED <<tableVars, asking, readyCount>>
    PROVE  HandInv'
<1>1. Active' = Active /\ AskedAlready' = AskedAlready
  BY DEF Active, SeatsThat, AskedAlready, tableVars
<1>2. QED
  BY <1>1 DEF HandInv, tableVars

\* The ready loop counts a READY only of a seat that plays, and a seat that leaves
\* was not counted.
LEMMA AskingKeepsHands ==
    ASSUME HandInv, ServerTypeInv, ServingInv, SkipLeft \/ AskReady
    PROVE  HandInv'
<1>1. /\ phase = "ready" /\ phase' = "ready" /\ asking \in Seats /\ asking' = asking + 1
      /\ readyCount <= Cardinality(AskedAlready) /\ readyCount \in Nat
      /\ \A p \in Seats : p # asking => player_status'[p] = player_status[p]
  BY DEF SkipLeft, AskReady, Leave, tableVars, HandInv, ServingInv, ServerInv, SomebodyPlays
<1>2. AskedAlready \in SUBSET Seats /\ AskedAlready' \in SUBSET Seats
  BY DEF AskedAlready, Active, SeatsThat
<1>3. IsFiniteSet(AskedAlready) /\ IsFiniteSet(AskedAlready')
  BY <1>2, SeatsAreFinite
<1>4. AskedAlready \subseteq AskedAlready' /\ asking \notin AskedAlready
  BY <1>1, SeatsAssumption DEF AskedAlready, Active, SeatsThat, Seats
<1>5. Cardinality(AskedAlready) <= Cardinality(AskedAlready')
  BY <1>3, <1>4, FS_Subset
<1>6. CASE readyCount' = readyCount
  BY <1>1, <1>3, <1>5, <1>6, FS_CardinalityType DEF HandInv
<1>7. CASE /\ readyCount' = readyCount + 1
           /\ sockets[asking] # NoConn /\ Receives(sockets[asking], "READY")
           /\ AskReady
  <2>1. player_status' = player_status
    BY <1>7 DEF AskReady, Leaves, Receives, ReceivesNothing, tableVars
  <2>2. player_status[asking] = "ACTIVE"
    BY <1>1, <1>7 DEF AskReady, ServingInv, ServerInv, SomebodyPlays
  <2>3. asking \in AskedAlready'
    BY <1>1, <2>1, <2>2, SeatsAssumption DEF AskedAlready, Active, SeatsThat, Seats
  <2>4. AskedAlready \cup {asking} \in SUBSET AskedAlready'
    BY <1>4, <2>3
  <2>5. Cardinality(AskedAlready \cup {asking}) = Cardinality(AskedAlready) + 1
    BY <1>3, <1>4, FS_AddElement
  <2>6. Cardinality(AskedAlready \cup {asking}) <= Cardinality(AskedAlready')
    BY <1>3, <2>4, FS_Subset
  <2>7. readyCount' <= Cardinality(AskedAlready')
    BY <1>1, <1>3, <1>7, <2>5, <2>6, FS_CardinalityType
  <2>8. QED
    BY <1>1, <2>7 DEF HandInv
<1>8. QED
  BY <1>6, <1>7 DEF SkipLeft, AskReady

\* When the loop has come round everybody who plays has been asked.
LEMMA TwoAtLeastStart ==
    ASSUME HandInv, ServerTypeInv, ServingInv, StartHand
    PROVE  Cardinality(Active) >= 2
<1>1. phase = "ready" /\ asking = MAX_PLAYERS /\ readyCount >= 2 /\ readyCount \in Nat
  BY DEF StartHand, ServingInv, ServerInv, SomebodyPlays
<1>2. AskedAlready = Active
  BY <1>1, SeatsAssumption DEF AskedAlready, Active, SeatsThat, Seats
<1>3. Cardinality(Active) \in Nat
  BY ActiveIsBounded
<1>4. QED
  BY <1>1, <1>2, <1>3 DEF HandInv

LEMMA StartingKeepsHands ==
    ASSUME HandInv, CardInv, ServerTypeInv, ServingInv, StartHand
    PROVE  HandInv'
<1>1. Active # {} /\ Cardinality(Active) >= 2
  BY StartersPlay, TwoAtLeastStart DEF ServingInv
<1>2. /\ phase = "ready" /\ phase' = "hand" /\ round_stage' = "PREFLOP"
      /\ player_status' = player_status /\ community_cards' = community_cards
      /\ player_hands' = [p \in Seats |-> IF p \in Active THEN DealtHand(p) ELSE player_hands[p]]
  BY <1>1 DEF StartHand, ServerTypeInv, StageFitsPhase
<1>3. Active' = Active /\ Active \subseteq Seats
  BY <1>2 DEF Active, SeatsThat
<1>4. next_card = 0 /\ community_cards = {} /\ \A p \in Seats : player_hands[p] = NoHand
  BY <1>2 DEF CardInv, DeckLasts, CardsAreDistinct
<1>5. ASSUME NEW p \in Active PROVE DealtHand(p) # NoHand
  <2>1. DealtHand(p)[1] \in Nat
    BY <1>4, PlacesDiffer DEF DealtHand
  <2>2. NoHand[1] \notin Nat
    BY DEF NoHand
  <2>3. QED
    BY <2>1, <2>2
<1>6. Active' = {p \in Seats : player_hands'[p] # NoHand}
  BY <1>2, <1>3, <1>4, <1>5
<1>7. Cardinality(community_cards') = BoardSize[round_stage']
  BY <1>2, <1>4, FS_EmptySet DEF BoardSize
<1>8. QED
  BY <1>1, <1>2, <1>3, <1>6, <1>7 DEF HandInv

\* The next cards of the deck are not on the board yet.
LEMMA BoardGrows ==
    ASSUME HandInv, CardInv, phase = "hand", ServerCommunity
    PROVE  /\ round_stage \in {"PREFLOP", "FLOP", "TURN"}
           /\ round_stage' = NextStage[round_stage]
           /\ Cardinality(community_cards') = BoardSize[round_stage']
<1>1. round_stage \in {"PREFLOP", "FLOP", "TURN"} /\ round_stage' = NextStage[round_stage]
  BY DEF ServerCommunity, CardInv, TypeOK, StageFitsPhase, Stages
<1> DEFINE fresh == NewCards[round_stage]
           drawn == next_card .. next_card + fresh - 1
<1>2. /\ fresh \in 1 .. 3
      /\ BoardSize[round_stage'] = BoardSize[round_stage] + fresh
      /\ BoardSize[round_stage] \in 0 .. 5
  BY <1>1 DEF NewCards, NextStage, BoardSize
<1>3. community_cards' = community_cards \cup drawn
  BY DEF ServerCommunity
<1> HIDE DEF fresh
<1>4. next_card \in Nat /\ community_cards \subseteq 0 .. next_card - 1
  BY DEF CardInv, TypeOK, CardsAreDistinct
<1>5. IsFiniteSet(0 .. next_card - 1)
  BY <1>4, FS_Interval
<1>6. IsFiniteSet(community_cards)
  BY <1>4, <1>5, FS_Subset
<1>7. IsFiniteSet(drawn) /\ Cardinality(drawn) = fresh
  <2>1. next_card \in Int /\ next_card + fresh - 1 \in Int
    BY <1>2, <1>4
  <2>2. ~ (next_card > next_card + fresh - 1)
    BY <1>2, <1>4
  <2>3. (next_card + fresh - 1) - next_card + 1 = fresh
    BY <1>2, <1>4
  <2>4. QED
    BY <2>1, <2>2, <2>3, FS_Interval
<1>8. community_cards \cap drawn = {}
  BY <1>2, <1>4
<1> HIDE DEF drawn
<1>9. Cardinality(community_cards') = Cardinality(community_cards) + fresh - 0
  BY <1>3, <1>6, <1>7, <1>8, FS_Union, FS_EmptySet
<1>10. QED
  BY <1>1, <1>2, <1>9 DEF HandInv

LEMMA HandsKeep ==
    ASSUME HandInv, CardInv, ServerTypeInv, ServingInv, [NetNext]_serverVars
    PROVE  HandInv'
<1>1. CASE BeginHand
  <2>1. phase' = "ready" /\ asking' = 0 /\ readyCount' = 0
    BY <1>1 DEF BeginHand, ResetGameState
  <2>2. AskedAlready' = {}
    BY <2>1, SeatsAssumption DEF AskedAlready, Active, SeatsThat, Seats
  <2>3. QED
    BY <2>1, <2>2, FS_EmptySet DEF HandInv
<1>2. CASE SkipLeft \/ AskReady
  BY <1>2, AskingKeepsHands
<1>3. CASE StartHand
  BY <1>3, StartingKeepsHands
<1>4. CASE BettingLoop
  <2>1. phase = "hand" /\ CheckBettingEnd /\ Active # {}
    BY <1>4, NoBetsEndBetting DEF BettingLoop, ServingInv, ServerInv, SomebodyPlays
  <2>2. CASE ServerCommunity
    <3>1. player_status' = player_status /\ player_hands' = player_hands /\ phase' = "hand"
      BY <2>1, <2>2 DEF ServerCommunity
    <3>2. Active' = Active
      BY <3>1 DEF Active, SeatsThat
    <3>3. QED
      BY <2>1, <2>2, <3>1, <3>2, BoardGrows DEF HandInv
  <2>3. CASE Showdown
    BY <2>3 DEF Showdown, HandInv
  <2>4. QED
    BY <1>4, <2>1, <2>2, <2>3 DEF BettingLoop, NextStreet
<1>5. CASE AllJoined \/ HaltAll
  BY <1>5 DEF AllJoined, JoinDone, HaltAll, Halt, HandInv
<1>6. ASSUME NEW i \in Seats, Accept(i) PROVE HandInv'
  <2>1. CASE Join(i)
    BY <2>1 DEF Join, HandInv
  <2>2. CASE UNCHANGED tableVars
    BY <1>6, <2>2, QuietKeepsHands DEF Accept, readyVars
  <2>3. QED
    BY <1>6, <2>1, <2>2 DEF Accept
<1>7. CASE Select \/ Listen \/ UNCHANGED serverVars
  BY <1>7, QuietKeepsHands DEF Select, Listen, serverVars, readyVars
<1>8. ASSUME NEW c \in Conns, Connect(c) \/ ClientActs(c) PROVE HandInv'
  BY <1>8, QuietKeepsHands DEF Connect, ClientActs, readyVars
<1>9. QED
  BY <1>1, <1>2, <1>3, <1>4, <1>5, <1>6, <1>7, <1>8 DEF NetNext, ServerNext

THEOREM HandInvHolds == OpenSpec => []HandInv
<1>1. OpenInit => HandInv
  BY DEF OpenInit, ServerInit, Init, HandInv
<1>2. HandInv /\ CardInv /\ ServerTypeInv /\ ServingInv /\ [OpenNext]_openVars => HandInv'
  BY OpenIsNet, HandsKeep
<1>3. QED
  BY <1>1, <1>2, CardInvHolds, ServerTypeInvHolds, ServingInvHolds, PTL DEF OpenSpec

\* The pot goes to a seat with cards, and its number to everybody who is served.
WinnerNamed ==
    phase = "hand" /\ phase' = "reset" =>
        \E winner \in Active :
           /\ player_hands[winner] # NoHand
           /\ \A c \in Conns : toClient'[c] \in {toClient[c], Append(toClient[c], EndPacket(winner))}

LEMMA ShowdownsName ==
    ASSUME HandInv, ServingInv, StreamInv, OrderInv, [NetNext]_serverVars
    PROVE  WinnerNamed
<1>1. SUFFICES ASSUME phase = "hand", phase' = "reset" PROVE WinnerNamed
  BY DEF WinnerNamed
<1>2. CheckBettingEnd /\ Active # {}
  BY <1>1, NoBetsEndBetting DEF ServingInv, ServerInv, SomebodyPlays
<1>3. Showdown
  <2>1. ~ NextStreet
    BY <1>1, <1>2 DEF NextStreet, ServerCommunity
  <2>2. \A c \in Conns : ~Connect(c) /\ ~ClientActs(c)
    BY <1>1 DEF Connect, ClientActs, tableVars
  <2>3. ~ UNCHANGED serverVars /\ ~Listen
    BY <1>1 DEF serverVars, tableVars, Listen
  <2>4. \A i \in Seats : ~Accept(i)
    BY <1>1 DEF Accept
  <2>5. QED
    BY <1>1, <1>2, <2>1, <2>2, <2>3, <2>4
    DEF NetNext, ServerNext, Select, AllJoined, JoinDone, BeginHand, ResetGameState, SkipLeft,
        AskReady, HaltAll, Halt, StartHand, BettingLoop
<1>4. PICK winner \in Active : EndPacket(winner) \in Packets /\ Broadcast(EndPacket(winner))
  BY <1>1, <1>3, ShowdownNamesTheWinner
<1>5. player_hands[winner] # NoHand
  BY <1>1, <1>4 DEF HandInv
<1>6. \A c \in Conns : toClient'[c] \in {toClient[c], Append(toClient[c], EndPacket(winner))}
  BY <1>1, <1>4, SendersHaveSockets, BroadcastAdds DEF ServingInv, StreamInv
<1>7. QED
  BY <1>4, <1>5, <1>6 DEF WinnerNamed

\* In every hand of main() find_winner finds a seat that was dealt cards and is
\* still at the table, its number is an index of player_stacks, and no client is
\* told of another winner.
THEOREM WinnersHavePlayed == OpenSpec => WinnerPlayedTheHand
<1>1. HandInv /\ ServingInv /\ StreamInv /\ OrderInv /\ [OpenNext]_openVars
         => [WinnerNamed]_openVars
  BY OpenIsNet, ShowdownsName
<1>2. QED
  BY <1>1, HandInvHolds, ServingInvHolds, StreamInvHolds, OrderInvHolds, PTL
  DEF OpenSpec, WinnerPlayedTheHand, WinnerNamed

-----------------------------------------------------------------------------
(* The refinement *)

HoldCards == {p \in Seats : player_hands[p] # NoHand}

\* What HandProtocol sees of the table, and that it sees nothing else.
Seen(stage, players, dealt, board) ==
    /\ HandStage = stage
    /\ Active = players
    /\ (IF InHand THEN HoldCards ELSE {}) = dealt
    /\ (IF InHand THEN Cardinality(community_cards) ELSE 0) = board

LEMMA UpIsSeen ==
    ASSUME server \in {"starting", "up"}
    PROVE  /\ phase = "join" => Seen("seating", Active, {}, 0)
           /\ phase \in {"reset", "ready"} => Seen("between", Active, {}, 0)
           /\ phase = "hand" =>
                 Seen(round_stage, Active, HoldCards, Cardinality(community_cards))
BY DEF Seen, HandStage, InHand

\* The same of the state after a step.
LEMMA UpIsSeenNext ==
    ASSUME server' \in {"starting", "up"}
    PROVE  /\ phase' = "join" => Seen("seating", Active, {}, 0)'
           /\ phase' \in {"reset", "ready"} => Seen("between", Active, {}, 0)'
           /\ phase' = "hand" =>
                 Seen(round_stage, Active, HoldCards, Cardinality(community_cards))'
BY DEF Seen, HandStage, InHand

\* Two seats that differ are all it takes to be two.
LEMMA TwoSeatsDiffer ==
    ASSUME Cardinality(Active) >= 2
    PROVE  \E p, q \in Active : p # q
<1>1. IsFiniteSet(Active)
  BY SeatsAreFinite DEF Active, SeatsThat
<1>2. Active # {}
  BY FS_EmptySet
<1>3. PICK p \in Active : TRUE
  BY <1>2
<1>4. CASE \A q \in Active : q = p
  <2>1. Active = {p}
    BY <1>3, <1>4
  <2>2. Cardinality(Active) = 1
    BY <2>1, FS_Singleton
  <2>3. QED
    BY <2>2
<1>5. QED
  BY <1>3, <1>4

\* A step that ends the server stops the table, whatever it has done before.
LEMMA EndingStops ==
    ASSUME server' \in {"exited", "killed"}, player_status' = player_status
    PROVE  Protocol!Stop
<1>1. Seen("over", Active, {}, 0)'
  BY DEF Seen, HandStage, InHand
<1>2. Active' = Active
  BY DEF Active, SeatsThat
<1>3. QED
  BY <1>1, <1>2 DEF Seen, HoldCards, Protocol!Stop

LEMMA StepsPlayHands ==
    ASSUME HandInv, CardInv, ServerTypeInv, ServingInv, HandInv', [NetNext]_serverVars
    PROVE  [Protocol!HandNext]_(Protocol!handVars)
<1> USE DEF Protocol!HandNext, Protocol!handVars
\* Nothing is seen of a step that leaves the table and the server's life alone.
<1>1. ASSUME UNCHANGED tableVars,
             server' = server \/ (server = "starting" /\ server' = "up")
      PROVE  UNCHANGED Protocol!handVars
  BY <1>1 DEF tableVars, HandStage, InHand, Active, SeatsThat
<1>2. ASSUME server = "up", server' = "up", NEW i \in Seats, Join(i)
      PROVE  Protocol!SitDown(i)
  <2>1. Seen("seating", Active, {}, 0) /\ Seen("seating", Active, {}, 0)'
    BY <1>2, UpIsSeen, UpIsSeenNext DEF Join
  <2>2. Active' = Active \cup {i}
    BY <1>2 DEF Join, Active, SeatsThat, ServerTypeInv, ServerTypeOK, TypeOK
  <2>3. QED
    BY <2>1, <2>2 DEF Seen, HoldCards, Protocol!SitDown
<1>3. ASSUME NEW i \in Seats, Accept(i), server = "up" PROVE [Protocol!HandNext]_(Protocol!handVars)
  BY <1>1, <1>2, <1>3 DEF Accept
<1>4. ASSUME AllJoined, server = "up" PROVE Protocol!Open
  <2>1. phase = "join" /\ phase' = "reset" /\ Active # {} /\ UNCHANGED <<player_status, server>>
    BY <1>4 DEF AllJoined, JoinDone
  <2>2. Seen("seating", Active, {}, 0) /\ Seen("between", Active, {}, 0)'
    BY <1>4, <2>1, UpIsSeen, UpIsSeenNext
  <2>3. Active' = Active
    BY <2>1 DEF Active, SeatsThat
  <2>4. QED
    BY <2>1, <2>2, <2>3 DEF Seen, HoldCards, Protocol!Open
<1>5. ASSUME BeginHand, server = "up" PROVE UNCHANGED Protocol!handVars
  <2>1. phase = "reset" /\ phase' = "ready" /\ UNCHANGED <<player_status, server>>
    BY <1>5 DEF BeginHand, ResetGameState
  <2>2. Seen("between", Active, {}, 0) /\ Seen("between", Active, {}, 0)'
    BY <1>5, <2>1, UpIsSeen, UpIsSeenNext
  <2>3. Active' = Active
    BY <2>1 DEF Active, SeatsThat
  <2>4. QED
    BY <2>2, <2>3 DEF Seen, HoldCards
<1>6. ASSUME server = "up", server' = "up", NEW p \in Seats, Leave(p)
      PROVE  Protocol!GetUp(p)
  <2>1. Seen("between", Active, {}, 0) /\ Seen("between", Active, {}, 0)'
    BY <1>6, UpIsSeen, UpIsSeenNext DEF Leave
  <2>2. Active' = Active \ {p}
    BY <1>6 DEF Leave, Active, SeatsThat, ServerTypeInv, ServerTypeOK, TypeOK
  <2>3. QED
    BY <2>1, <2>2 DEF Seen, HoldCards, Protocol!GetUp
<1>7. ASSUME AskReady, server = "up" PROVE [Protocol!HandNext]_(Protocol!handVars)
  <2>1. server' = server /\ asking \in Seats /\ (Leave(asking) \/ UNCHANGED tableVars)
    BY <1>7 DEF AskReady
  <2>2. QED
    BY <1>1, <1>6, <1>7, <2>1
<1>8. ASSUME HaltAll PROVE Protocol!Stop
  BY <1>8, EndingStops DEF HaltAll, Halt
<1>9. ASSUME StartHand, server = "up" PROVE Protocol!Deal \/ Protocol!Stop
  <2>1. Active # {} /\ Cardinality(Active) >= 2
    BY <1>9, StartersPlay, TwoAtLeastStart DEF ServingInv
  <2>2. /\ phase = "ready" /\ phase' = "hand" /\ round_stage' = "PREFLOP"
        /\ player_status' = player_status
        /\ server' \in {"up", "killed"}
    BY <1>9, <2>1 DEF StartHand, Survives, ServerTypeInv, StageFitsPhase
  <2>3. CASE server' = "killed"
    BY <2>2, <2>3, EndingStops
  <2>4. CASE server' = "up"
    <3>1. Seen("between", Active, {}, 0)
      BY <1>9, <2>2, UpIsSeen
    <3>2. Seen("PREFLOP", Active, Active, 0)'
      <4>1. Seen(round_stage, Active, HoldCards, Cardinality(community_cards))'
        BY <2>2, <2>4, UpIsSeenNext
      <4>2. HoldCards' = Active' /\ Cardinality(community_cards') = 0
        BY <2>2 DEF HandInv, HoldCards, BoardSize
      <4>3. QED
        BY <2>2, <4>1, <4>2 DEF Seen
    <3>3. Active' = Active
      BY <2>2 DEF Active, SeatsThat
    <3>4. QED
      BY <2>1, <3>1, <3>2, <3>3, TwoSeatsDiffer DEF Seen, HoldCards, Protocol!Deal
  <2>5. QED
    BY <2>2, <2>3, <2>4
<1>10. ASSUME BettingLoop, server = "up"
       PROVE  Protocol!Street \/ Protocol!EndHand \/ Protocol!Stop
  <2>1. /\ phase = "hand" /\ CheckBettingEnd /\ Active # {}
        /\ IF round_stage = "RIVER" THEN Showdown ELSE NextStreet
    BY <1>10, NoBetsEndBetting DEF BettingLoop, ServingInv, ServerInv, SomebodyPlays
  <2>2. player_status' = player_status /\ server' \in {"up", "killed"}
    BY <2>1 DEF Showdown, NextStreet, ServerCommunity, Survives
  <2>3. Active' = Active
    BY <2>2 DEF Active, SeatsThat
  <2>4. Seen(round_stage, Active, HoldCards, Cardinality(community_cards))
    BY <1>10, <2>1, UpIsSeen
  <2>5. CASE server' = "killed"
    BY <2>2, <2>5, EndingStops
  <2>6. CASE server' = "up" /\ round_stage = "RIVER"
    <3>1. Seen("between", Active, {}, 0)'
      BY <2>1, <2>6, UpIsSeenNext DEF Showdown
    <3>2. Protocol!EndHand
      BY <2>3, <2>4, <2>6, <3>1 DEF Seen, HoldCards, Protocol!EndHand
    <3>3. QED
      BY <3>2
  <2>7. CASE server' = "up" /\ round_stage # "RIVER"
    <3>1. ServerCommunity /\ phase' = "hand" /\ player_hands' = player_hands
      BY <2>1, <2>7 DEF NextStreet, ServerCommunity
    <3>2. /\ round_stage \in {"PREFLOP", "FLOP", "TURN"}
          /\ round_stage' = NextStage[round_stage]
          /\ Cardinality(community_cards') = BoardSize[round_stage']
      BY <2>1, <3>1, BoardGrows
    <3>3. Seen(round_stage, Active, HoldCards, BoardSize[round_stage])'
      <4>1. Seen(round_stage, Active, HoldCards, Cardinality(community_cards))'
        BY <2>7, <3>1, UpIsSeenNext
      <4>2. QED
        BY <3>2, <4>1 DEF Seen
    <3>4. Protocol!Street
      BY <2>3, <2>4, <3>1, <3>2, <3>3
      DEF Seen, HoldCards, Protocol!Street, Protocol!Following, Protocol!OnBoard,
          NextStage, BoardSize
    <3>5. QED
      BY <3>4
  <2>8. QED
    BY <2>2, <2>5, <2>6, <2>7
<1>11. CASE SkipLeft \/ Select \/ Listen \/ UNCHANGED serverVars
  BY <1>1, <1>11 DEF SkipLeft, Select, Listen, serverVars
<1>12. ASSUME NEW c \in Conns, Connect(c) \/ ClientActs(c)
       PROVE  UNCHANGED Protocol!handVars
  BY <1>1, <1>12 DEF Connect, ClientActs
<1>13. QED
  BY <1>3, <1>4, <1>5, <1>7, <1>8, <1>9, <1>10, <1>11, <1>12 DEF NetNext, ServerNext

\* main() implements HandProtocol for every number of seats and whatever its
\* clients do.
THEOREM HandsArePlayed == OpenSpec => PlaysHands
<1>1. OpenInit => Protocol!HandInit
  <2> SUFFICES ASSUME OpenInit PROVE Protocol!HandInit
    OBVIOUS
  <2>1. server = "starting" /\ phase = "join" /\ \A p \in Seats : player_status[p] = "FOLDED"
    BY DEF OpenInit, ServerInit, Init
  <2>2. Seen("seating", Active, {}, 0) /\ Active = {}
    BY <2>1, UpIsSeen DEF Active, SeatsThat
  <2>3. QED
    BY <2>2 DEF Seen, HoldCards, Protocol!HandInit
<1>2. HandInv /\ CardInv /\ ServerTypeInv /\ ServingInv /\ HandInv' /\ [OpenNext]_openVars
         => [Protocol!HandNext]_(Protocol!handVars)
  BY OpenIsNet, StepsPlayHands
<1>3. QED
  BY <1>1, <1>2, HandInvHolds, CardInvHolds, ServerTypeInvHolds, ServingInvHolds, PTL
  DEF OpenSpec, PlaysHands, Protocol!HandProtocolSpec

-----------------------------------------------------------------------------
(* Who can kill the server *)

\* The invariants above hold with the history variables too.
LEMMA HistoryIsNet == [HistoryNext]_historyVars => [OpenNext]_openVars
BY DEF HistoryNext, historyVars

LEMMA HistoryInvsHold == HistorySpec => [](ServingInv /\ StreamInv /\ OrderInv)
<1>1. HistoryInit => ServingInv /\ StreamInv /\ OrderInv
  BY ServingInvHoldsInitially, StreamInvHoldsInitially, OrderInvHoldsInitially
  DEF HistoryInit, OpenInit
<1>2. ServingInv /\ StreamInv /\ OrderInv /\ [HistoryNext]_historyVars
         => ServingInv' /\ StreamInv' /\ OrderInv'
  BY HistoryIsNet, OpenIsNet, ServingKeeps, StreamKeeps, OrderKeeps
<1>3. QED
  BY <1>1, <1>2, PTL DEF HistorySpec

Sent == [type : PacketTypes, amount : {0}]

TookLeave(c) == Gone(c) /\ c \notin hungUp

\* A client that took leave was never sent to since: the ready loop comes to its
\* seat before anything is sent, and finds a LEAVE there or the end.
LeaveTaken(c) ==
    /\ ~reset[c]
    /\ serverEnd[c] # "closed" /\ Unread(c) # <<>> => Head(Unread(c)).type = "LEAVE"
    /\ Playing(c) => phase \in {"join", "reset"} \/ (phase = "ready" /\ asking <= Port[c])

HangInv ==
    /\ toServer \in [Conns -> Seq(Sent)]
    /\ \A c \in Conns : TookLeave(c) => LeaveTaken(c)

\* To whom anything is sent has not taken leave.
LEMMA NobodyOnLeaveIsSentTo ==
    ASSUME HangInv, NEW c \in Conns, TookLeave(c),
           phase = "hand" \/ (phase = "ready" /\ asking = MAX_PLAYERS)
    PROVE  ~Playing(c)
<1>1. Port[c] < MAX_PLAYERS /\ Port[c] \in Nat
  BY PortAssumption, SeatsAssumption DEF Seats
<1>2. QED
  BY <1>1, SeatsAssumption DEF HangInv, LeaveTaken

\* A step of the server that reads and sends nothing.
LEMMA SilenceKeepsLeave ==
    ASSUME HangInv,
           UNCHANGED <<toServer, reset, serverEnd, clientEnd, sockets, hungUp, player_status>>,
           NEW c \in Conns, TookLeave(c)',
           \/ phase' \in {"join", "reset"}
           \/ UNCHANGED <<phase, asking>>
           \/ phase' = "ready" /\ asking' <= Port[c]
    PROVE  LeaveTaken(c)'
<1>1. TookLeave(c) /\ Unread(c)' = Unread(c) /\ (Playing(c)' <=> Playing(c))
  BY DEF TookLeave, Gone, Unread, Playing, NonLeft, SeatsThat
<1>2. QED
  BY <1>1 DEF HangInv, LeaveTaken

LEMMA AcceptKeepsLeave ==
    ASSUME HangInv, ServingInv, UNCHANGED hungUp, NEW i \in Seats, Accept(i)
    PROVE  HangInv'
<1> DEFINE d == Head(backlog[i])
<1>1. /\ phase = "join" /\ phase' = "join" /\ UNCHANGED <<reset, clientEnd>>
      /\ backlog[i] # <<>>
      /\ toServer' = IF toServer[d] # <<>> THEN [toServer EXCEPT ![d] = Tail(@)] ELSE toServer
      /\ \/ serverEnd' = [serverEnd EXCEPT ![d] = "open"]
         \/ serverEnd' = [serverEnd EXCEPT ![d] = "closed"]
  BY DEF Accept, Join, Consume, tableVars, ServingInv, ConnectionsInPlace
<1>2. d \in Conns /\ serverEnd[d] = "none" /\ serverEnd \in [Conns -> {"none", "open", "closed"}]
  <2>1. backlog[i] \in Seq(Conns) /\ 1 \in 1 .. Len(backlog[i]) /\ d = backlog[i][1]
    BY <1>1 DEF ServingInv, ConnectionsInPlace
  <2>2. QED
    BY <2>1 DEF ServingInv, ConnectionsInPlace
<1> HIDE DEF d
<1>3. toServer' \in [Conns -> Seq(Sent)]
  <2>1. toServer[d] # <<>> => Tail(toServer[d]) \in Seq(Sent)
    BY <1>2 DEF HangInv
  <2>2. QED
    BY <1>1, <1>2, <2>1 DEF HangInv
<1>4. ASSUME NEW c \in Conns, TookLeave(c)' PROVE LeaveTaken(c)'
  <2>1. TookLeave(c) /\ ~reset'[c]
    BY <1>1, <1>4 DEF TookLeave, Gone, HangInv, LeaveTaken
  <2>2. CASE c = d
    <3>1. Unread(c) = IF toServer[c] = <<>> THEN <<>> ELSE Tail(toServer[c])
      BY <1>2, <2>2 DEF Unread
    <3>2. Unread(c)' = Unread(c)
      BY <1>1, <1>2, <2>2, <3>1 DEF Unread, HangInv
    <3>3. QED
      BY <1>1, <1>2, <2>1, <2>2, <3>2 DEF HangInv, LeaveTaken
  <2>3. CASE c # d
    <3>1. toServer'[c] = toServer[c] /\ serverEnd'[c] = serverEnd[c]
      BY <1>1, <1>2, <2>3 DEF HangInv
    <3>2. Unread(c)' = Unread(c)
      BY <3>1 DEF Unread
    <3>3. QED
      BY <1>1, <2>1, <3>1, <3>2 DEF HangInv, LeaveTaken
  <2>4. QED
    BY <2>2, <2>3
<1>5. QED
  BY <1>3, <1>4 DEF HangInv

\* The ready loop finds out who took leave, and passes over who left before.
LEMMA AskKeepsLeave ==
    ASSUME HangInv, ServingInv, UNCHANGED hungUp, AskReady
    PROVE  HangInv'
<1> DEFINE d == sockets[asking]
<1>1. /\ phase = "ready" /\ phase' = "ready" /\ UNCHANGED <<reset, clientEnd, sockets>>
      /\ asking \in Seats /\ asking' = asking + 1 /\ player_status[asking] # "LEFT"
      /\ toServer' = IF ReceivesNothing(d) THEN toServer ELSE [toServer EXCEPT ![d] = Tail(@)]
      /\ IF Leaves(d)
         THEN /\ player_status' = [player_status EXCEPT ![asking] = "LEFT"]
              /\ serverEnd' = IF d = NoConn THEN serverEnd ELSE [serverEnd EXCEPT ![d] = "closed"]
         ELSE UNCHANGED <<player_status, serverEnd>>
      /\ d # NoConn => Readable(d)
  BY DEF AskReady, Leave, Consume, tableVars
<1>2. /\ d \in Conns \cup {NoConn} /\ (d # NoConn => Port[d] = asking)
      /\ serverEnd \in [Conns -> {"none", "open", "closed"}]
      /\ player_status \in [Seats -> Statuses]
  BY <1>1 DEF ServingInv, ConnectionsInPlace, ServerInv, SomebodyPlays
<1>3. d # NoConn => d \in Conns /\ serverEnd[d] = "open"
  <2>1. d # NoConn => player_status[asking] = "ACTIVE"
    BY <1>1 DEF ServingInv, ServerInv, SomebodyPlays
  <2>2. QED
    BY <1>1, <1>2, <2>1 DEF ServingInv, PlayersServed, Served
<1> HIDE DEF d
<1>4. toServer' \in [Conns -> Seq(Sent)]
  <2>1. ~ReceivesNothing(d) => d \in Conns /\ toServer[d] # <<>>
    BY <1>1, <1>3 DEF ReceivesNothing, Readable
  <2>2. ~ReceivesNothing(d) => Tail(toServer[d]) \in Seq(Sent)
    BY <2>1 DEF HangInv
  <2>3. QED
    BY <1>1, <2>1, <2>2 DEF HangInv
<1>5. ASSUME NEW c \in Conns, TookLeave(c)' PROVE LeaveTaken(c)'
  <2>1. TookLeave(c) /\ LeaveTaken(c) /\ ~reset'[c] /\ c # NoConn
    BY <1>1, <1>5, ConnsAssumption DEF TookLeave, Gone, HangInv, LeaveTaken
  <2>2. CASE c = d
    <3>1. Leaves(c)
      <4>1. Unread(c) = toServer[c]
        BY <1>3, <2>1, <2>2 DEF Unread
      <4>2. QED
        BY <1>3, <2>1, <2>2, <4>1
        DEF Leaves, ReceivesNothing, Receives, TookLeave, LeaveTaken
    <3>2. serverEnd'[c] = "closed"
      BY <1>1, <1>2, <2>1, <2>2, <3>1
    <3>3. ~Playing(c)'
      <4>1. ASSUME NEW p \in Seats, player_status'[p] # "LEFT" PROVE sockets'[p] # c
        <5>1. p # asking
          BY <1>1, <1>2, <2>2, <3>1, <4>1
        <5>2. QED
          BY <1>1, <1>2, <2>1, <2>2, <5>1 DEF ServingInv, ConnectionsInPlace
      <4>2. QED
        BY <4>1 DEF Playing, NonLeft, SeatsThat
    <3>4. QED
      BY <2>1, <3>2, <3>3 DEF LeaveTaken
  <2>3. CASE c # d
    <3>1. toServer'[c] = toServer[c] /\ serverEnd'[c] = serverEnd[c]
      BY <1>1, <1>2, <2>3 DEF HangInv
    <3>2. Unread(c)' = Unread(c)
      BY <3>1 DEF Unread
    <3>3. ASSUME Playing(c)' PROVE asking' <= Port[c]
      <4>1. PICK p \in Seats : player_status'[p] # "LEFT" /\ sockets[p] = c
        BY <1>1, <3>3 DEF Playing, NonLeft, SeatsThat
      <4>2. p # asking /\ Port[c] = p
        BY <2>1, <2>3, <4>1 DEF d, ServingInv, ConnectionsInPlace
      <4>3. player_status[p] # "LEFT"
        BY <1>1, <1>2, <4>1, <4>2
      <4>4. Playing(c)
        BY <4>1, <4>3 DEF Playing, NonLeft, SeatsThat
      <4>5. asking <= Port[c]
        BY <1>1, <2>1, <4>4 DEF LeaveTaken
      <4>6. asking \in Nat /\ p \in Nat
        BY <1>1, SeatsAssumption DEF Seats
      <4>7. QED
        BY <1>1, <4>2, <4>5, <4>6
    <3>4. QED
      BY <1>1, <2>1, <3>1, <3>2, <3>3 DEF LeaveTaken
  <2>4. QED
    BY <2>2, <2>3
<1>6. QED
  BY <1>4, <1>5 DEF HangInv

\* Nothing that is sent to the table goes to who took leave.
LEMMA BroadcastKeepsLeave ==
    ASSUME HangInv, ServingInv, StreamInv, OrderInv,
           phase = "hand" \/ (phase = "ready" /\ asking = MAX_PLAYERS),
           NEW packet \in Packets, Broadcast(packet),
           UNCHANGED <<toServer, serverEnd, clientEnd, sockets, hungUp, player_status>>
    PROVE  HangInv'
<1>1. SUFFICES ASSUME NEW c \in Conns, TookLeave(c)' PROVE LeaveTaken(c)'
  BY DEF HangInv
<1>2. TookLeave(c) /\ Unread(c)' = Unread(c) /\ (Playing(c)' <=> Playing(c))
  BY <1>1 DEF TookLeave, Gone, Unread, Playing, NonLeft, SeatsThat
<1>3. ~Playing(c)
  BY <1>2, NobodyOnLeaveIsSentTo
<1>4. ~reset'[c]
  BY <1>2, <1>3, SendersHaveSockets, BroadcastAdds
  DEF ServingInv, StreamInv, HangInv, LeaveTaken
<1>5. QED
  BY <1>2, <1>3, <1>4 DEF HangInv, LeaveTaken

LEMMA ServerKeepsLeave ==
    ASSUME HangInv, ServingInv, StreamInv, OrderInv, ServerNext, UNCHANGED hungUp
    PROVE  HangInv'
<1>1. \A c \in Conns : Port[c] \in Seats /\ Port[c] \in Nat
  BY PortAssumption, SeatsAssumption DEF Seats
<1>2. CASE Listen \/ Select
  <2>1. UNCHANGED <<toServer, reset, serverEnd, clientEnd, sockets, hungUp, player_status, phase,
                    asking>>
    BY <1>2 DEF Listen, Select, tableVars, readyVars, netVars, streamVars
  <2>2. QED
    BY <2>1, SilenceKeepsLeave DEF HangInv
<1>3. ASSUME NEW i \in Seats, Accept(i) PROVE HangInv'
  BY <1>3, AcceptKeepsLeave
<1>4. CASE AllJoined \/ BeginHand
  <2>1. /\ UNCHANGED <<toServer, reset, serverEnd, clientEnd, sockets, hungUp, player_status>>
        /\ phase' = "reset" \/ (phase' = "ready" /\ asking' = 0)
    BY <1>4 DEF AllJoined, JoinDone, BeginHand, ResetGameState, netVars, streamVars
  <2>2. QED
    BY <1>1, <2>1, SilenceKeepsLeave DEF HangInv
<1>5. CASE SkipLeft
  <2>1. /\ UNCHANGED <<toServer, reset, serverEnd, clientEnd, sockets, hungUp, player_status>>
        /\ phase = "ready" /\ phase' = "ready" /\ asking' = asking + 1
        /\ asking \in Seats /\ player_status[asking] = "LEFT"
    BY <1>5 DEF SkipLeft, tableVars, netVars, streamVars
  <2>2. ASSUME NEW c \in Conns, TookLeave(c)' PROVE LeaveTaken(c)'
    <3>1. CASE Playing(c)
      <4>1. TookLeave(c)
        BY <2>1, <2>2 DEF TookLeave, Gone
      <4>2. asking <= Port[c]
        BY <2>1, <3>1, <4>1 DEF HangInv, LeaveTaken
      <4>3. Port[c] \in NonLeft
        BY <3>1, ConnsAssumption DEF Playing, ServingInv, ConnectionsInPlace, NonLeft, SeatsThat
      <4>4. Port[c] # asking
        BY <2>1, <4>3 DEF NonLeft, SeatsThat
      <4>5. asking' <= Port[c]
        BY <1>1, <2>1, <4>2, <4>4, SeatsAssumption DEF Seats
      <4>6. QED
        BY <2>1, <2>2, <4>5, SilenceKeepsLeave
    <3>2. CASE ~Playing(c)
      <4>1. TookLeave(c) /\ Unread(c)' = Unread(c) /\ ~Playing(c)'
        BY <2>1, <2>2, <3>2 DEF TookLeave, Gone, Unread, Playing, NonLeft, SeatsThat
      <4>2. QED
        BY <2>1, <4>1 DEF HangInv, LeaveTaken
    <3>3. QED
      BY <3>1, <3>2
  <2>3. QED
    BY <2>1, <2>2 DEF HangInv
<1>6. CASE AskReady
  BY <1>6, AskKeepsLeave
<1>7. CASE HaltAll
  <2>1. /\ phase = "ready" /\ asking = MAX_PLAYERS /\ Broadcast(Packet("HALT"))
        /\ UNCHANGED <<toServer, serverEnd, clientEnd, sockets, hungUp, player_status>>
    BY <1>7 DEF HaltAll, Halt
  <2>2. Packet("HALT") \in Packets
    BY DEF Packet, Packets
  <2>3. QED
    BY <2>1, <2>2, BroadcastKeepsLeave
<1>8. CASE StartHand
  <2>1. /\ phase = "ready" /\ asking = MAX_PLAYERS /\ Active # {}
        /\ UNCHANGED <<toServer, serverEnd, clientEnd, sockets, hungUp, player_status>>
    BY <1>8, StartersPlay DEF StartHand, ServingInv
  <2>2. /\ Broadcast(Packet("INFO")) /\ current_player' = NextIn(dealer_player, Active)
        /\ highest_bet' = highest_bet
    BY <1>8, <2>1 DEF StartHand
  <2>3. current_player' \in Seats /\ highest_bet' = 0
    BY <2>1, <2>2, TurnGoesToASeat DEF StreamInv, ServingInv, ServerInv, NoBets
  <2>4. Packet("INFO") \in Packets
    BY <2>3, SeatsAssumption DEF Packet, Packets, Seats
  <2>5. QED
    BY <2>1, <2>2, <2>4, BroadcastKeepsLeave
<1>9. CASE BettingLoop
  <2>1. /\ phase = "hand" /\ CheckBettingEnd /\ Active # {}
        /\ UNCHANGED <<toServer, serverEnd, clientEnd, sockets, hungUp>>
    BY <1>9, NoBetsEndBetting DEF BettingLoop, ServingInv, ServerInv, SomebodyPlays
  <2>2. CASE Showdown
    <3>1. PICK winner : EndPacket(winner) \in Packets /\ Broadcast(EndPacket(winner))
      BY <2>1, <2>2, ShowdownNamesTheWinner
    <3>2. player_status' = player_status
      BY <2>2 DEF Showdown
    <3>3. QED
      BY <2>1, <3>1, <3>2, BroadcastKeepsLeave
  <2>3. CASE NextStreet
    <3>1. /\ Broadcast(Packet("INFO")) /\ player_status' = player_status
          /\ current_player' = NextIn(dealer_player, Active) /\ highest_bet' = 0
      BY <2>1, <2>3 DEF NextStreet, ServerCommunity
    <3>2. current_player' \in Seats
      BY <2>1, <3>1, TurnGoesToASeat DEF StreamInv
    <3>3. Packet("INFO") \in Packets
      BY <3>1, <3>2, SeatsAssumption DEF Packet, Packets, Seats
    <3>4. QED
      BY <2>1, <3>1, <3>3, BroadcastKeepsLeave
  <2>4. QED
    BY <1>9, <2>1, <2>2, <2>3 DEF BettingLoop
<1>10. QED
  BY <1>2, <1>3, <1>4, <1>5, <1>6, <1>7, <1>8, <1>9 DEF ServerNext

\* A client that closes takes leave or is recorded as one that hung up.
LEMMA ClientKeepsLeave ==
    ASSUME HangInv, ServingInv, OrderInv, ClientNext,
           hungUp' = hungUp \cup {c \in Conns : ~Gone(c) /\ Gone(c)' /\ ~TakesLeave(c)}
    PROVE  HangInv'
<1> USE DEF Gone
<1>1. PICK d \in Conns : SendAny(d) \/ Connect(d) \/ ClientRecv(d) \/ ClientClose(d)
  BY DEF ClientNext
<1>2. /\ UNCHANGED <<tableVars, asking, sockets, serverEnd, reset>>
      /\ ~Gone(d)
      /\ \A c \in Conns : c # d => clientEnd'[c] = clientEnd[c] /\ toServer'[c] = toServer[c]
      /\ Gone(d)' => toServer' = toServer
      /\ toServer' \in [Conns -> Seq(Sent)]
  <2>1. CASE SendAny(d)
    <3>1. PICK packet \in Sent : ClientSend(d, packet)
      BY <2>1 DEF SendAny, Sent
    <3>2. /\ clientEnd[d] = "open" /\ clientEnd' = clientEnd
          /\ UNCHANGED <<tableVars, asking, sockets, serverEnd, reset>>
          /\ toServer' = toServer \/ toServer' = [toServer EXCEPT ![d] = Append(toServer[d], packet)]
      BY <3>1 DEF ClientSend, readyVars
    <3>3. Append(toServer[d], packet) \in Seq(Sent)
      BY <3>1 DEF HangInv
    <3>4. QED
      BY <3>2, <3>3 DEF HangInv
  <2>2. CASE Connect(d) \/ ClientRecv(d) \/ ClientClose(d)
    BY <2>2 DEF Connect, ClientRecv, ClientClose, HangInv, ServingInv, ConnectionsInPlace,
                readyVars, streamVars
  <2>3. QED
    BY <1>1, <2>1, <2>2
<1>3. ASSUME NEW c \in Conns, TookLeave(c)' PROVE LeaveTaken(c)'
  <2>1. (Playing(c)' <=> Playing(c)) /\ UNCHANGED <<phase, asking, reset, serverEnd>>
    BY <1>2 DEF Playing, NonLeft, SeatsThat, tableVars
  <2>2. CASE Gone(c)
    <3>1. TookLeave(c) /\ c # d
      BY <1>2, <1>3, <2>2 DEF TookLeave
    <3>2. Unread(c)' = Unread(c)
      BY <1>2, <3>1 DEF Unread
    <3>3. QED
      BY <2>1, <3>1, <3>2 DEF HangInv, LeaveTaken
  <2>3. CASE ~Gone(c)
    <3>1. Gone(c)' /\ TakesLeave(c) /\ c = d
      BY <1>2, <1>3, <2>3 DEF TookLeave
    <3>2. Unread(c)' = Unread(c)
      BY <1>2, <3>1 DEF Unread
    <3>3. ~reset[c]
      BY <2>3 DEF OrderInv
    <3>4. QED
      BY <2>1, <3>1, <3>2, <3>3 DEF TakesLeave, LeaveTaken
  <2>4. QED
    BY <2>2, <2>3
<1>4. QED
  BY <1>2, <1>3 DEF HangInv

\* The server is only ever killed by a client that hung up where main() does not
\* look before it sends: never by one that leaves between the hands, as the
\* clients of the repository do, or that goes away while the table fills.
THEOREM OnlyWhoHungUpKills == HistorySpec => []OnlyHangingUpKills
<1>1. HistoryInit => HangInv
  BY DEF HistoryInit, OpenInit, ServerInit, HangInv, TookLeave, Gone
<1>2. HangInv /\ ServingInv /\ StreamInv /\ OrderInv /\ [HistoryNext]_historyVars => HangInv'
  <2> SUFFICES ASSUME HangInv, ServingInv, StreamInv, OrderInv, [HistoryNext]_historyVars
               PROVE  HangInv'
    OBVIOUS
  <2>1. CASE ServerNext /\ Record
    <3>1. clientEnd' = clientEnd
      BY <2>1 DEF ServerNext, Listen, Select, Accept, AllJoined, BeginHand, SkipLeft, AskReady,
                  HaltAll, StartHand, BettingLoop, netVars
    <3>2. hungUp' = hungUp
      BY <2>1, <3>1 DEF Record, Gone
    <3>3. QED
      BY <2>1, <3>2, ServerKeepsLeave
  <2>2. CASE ClientNext /\ Record
    BY <2>2, ClientKeepsLeave DEF Record
  <2>3. CASE UNCHANGED historyVars
    BY <2>3 DEF historyVars, openVars, serverVars, tableVars, netVars, streamVars, readyVars,
                HangInv, TookLeave, LeaveTaken, Gone, Unread, Playing, NonLeft, SeatsThat
  <2>4. QED
    BY <2>1, <2>2, <2>3 DEF HistoryNext, OpenNext
<1>3. HangInv /\ OrderInv => OnlyHangingUpKills
  BY DEF HangInv, OrderInv, OnlyHangingUpKills, TookLeave, LeaveTaken
<1>4. QED
  BY <1>1, <1>2, <1>3, HistoryInvsHold, PTL DEF HistorySpec

=============================================================================

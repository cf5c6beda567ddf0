--------------------------- MODULE ServerProofs ---------------------------
(***************************************************************************)
(* What main() of poker_server.c keeps, whatever its clients are: lemmas   *)
(* about the steps of PokerServer and about a step of any client, for the  *)
(* theorems about the systems that are built on it (OpenServer, TuiSystem, *)
(* PokerSystem), for every number of seats and connections.                *)
(***************************************************************************)
EXTENDS PokerServer, PokerTableProofs, SequenceTheorems

-----------------------------------------------------------------------------
(* Any client *)

\* What a client may do to what the server can see of it, once connected: send a
\* packet or not, read one or not, or close.
ClientActs(c) ==
    /\ clientEnd[c] = "open"
    /\ UNCHANGED <<tableVars, server, joinVars, readyVars, sockets, serverEnd, reset>>
    /\ \/ toServer' = toServer
       \/ \E packet : toServer' = [toServer EXCEPT ![c] = Append(toServer[c], packet)]
    /\ \/ UNCHANGED <<clientEnd, toClient>>
       \/ /\ toClient[c] # <<>>
          /\ toClient' = [toClient EXCEPT ![c] = Tail(toClient[c])]
          /\ UNCHANGED clientEnd
       \/ /\ toClient' = [toClient EXCEPT ![c] = <<>>]
          /\ clientEnd' = [clientEnd EXCEPT ![c] = "closed"]

\* A step of the server or of a client.
NetNext == ServerNext \/ \E c \in Conns : Connect(c) \/ ClientActs(c)

\* The ways a client of this repository acts are such ways.
LEMMA ClientsAct ==
    ASSUME NEW c \in Conns,
           (\E packet : ClientSend(c, packet)) \/ ClientRecv(c) \/ ClientClose(c)
    PROVE  ClientActs(c)
BY DEF ClientActs, ClientSend, ClientRecv, ClientClose

-----------------------------------------------------------------------------
(* The betting: nobody has a bet, and somebody plays *)

\* From reset_game_state to the end of the hand nobody has a bet.
NoBets ==
    phase \in {"ready", "hand"} =>
        highest_bet = 0 /\ \A p \in Seats : current_bets[p] = 0

\* A seat with a connection plays unless it left, and if anybody said READY in
\* this ready loop there is somebody to play.
SomebodyPlays ==
    /\ player_status \in [Seats -> Statuses]
    /\ DOMAIN sockets = Seats
    /\ \A p \in Seats : sockets[p] # NoConn => player_status[p] \in {"ACTIVE", "LEFT"}
    /\ asking \in Nat
    /\ readyCount \in Nat
    /\ phase = "ready" /\ readyCount > 0 => \E p \in Active : p < asking
    /\ phase = "hand" => Active # {}
    /\ phase # "spin"

ServerInv == NoBets /\ SomebodyPlays

\* When nobody has a bet check_betting_end says that the betting is over.
LEMMA NoBetsEndBetting ==
    ASSUME NoBets, phase = "hand"
    PROVE  CheckBettingEnd
<1>1. /\ highest_bet = 0
      /\ \A p \in Active : current_bets[p] = 0
      /\ Active \subseteq Nat
  BY SeatsAssumption DEF NoBets, Active, SeatsThat, Seats
<1>2. Bidders = Active
  <2>1. \A p \in Active : current_bets[p] # -1
    BY <1>1
  <2>2. QED
    BY <2>1 DEF Bidders
<1>3. CASE Active = {}
  BY <1>2, <1>3 DEF CheckBettingEnd
<1>4. CASE Active # {}
  <2>1. PICK lead \in Active : \A p \in Active : lead <= p
    BY <1>1, <1>4, LeastElement
  <2>2. QED
    BY <1>1, <1>2, <2>1 DEF CheckBettingEnd
<1>5. QED
  BY <1>3, <1>4

LEMMA ServerInvHoldsInitially == ServerInit => ServerInv
<1> SUFFICES ASSUME ServerInit PROVE ServerInv
  OBVIOUS
<1>1. NoBets
  BY DEF ServerInit, Init, NoBets
<1>2. SomebodyPlays
  BY DEF ServerInit, Init, SomebodyPlays, Statuses
<1>3. QED
  BY <1>1, <1>2 DEF ServerInv

\* What a step that leaves the table and the seats alone keeps.
LEMMA QuietKeeps ==
    ASSUME ServerInv, UNCHANGED <<tableVars, sockets, asking, readyCount>>
    PROVE  ServerInv'
BY DEF ServerInv, NoBets, SomebodyPlays, tableVars, Active, SeatsThat

LEMMA AcceptKeeps ==
    ASSUME ServerInv, NEW i \in Seats, Accept(i)
    PROVE  ServerInv'
<1>1. CASE /\ Join(i)
           /\ sockets' = [sockets EXCEPT ![i] = Head(backlog[i])]
           /\ UNCHANGED readyVars
  <2>1. phase' = "join"
    BY <1>1 DEF Join
  <2>2. player_status' = [player_status EXCEPT ![i] = "ACTIVE"]
    BY <1>1 DEF Join
  <2>3. player_status' \in [Seats -> Statuses] /\ DOMAIN sockets' = Seats
    BY <1>1, <2>2 DEF ServerInv, SomebodyPlays, Statuses
  <2>4. \A p \in Seats : sockets'[p] # NoConn => player_status'[p] \in {"ACTIVE", "LEFT"}
    BY <1>1, <2>2 DEF ServerInv, SomebodyPlays
  <2>5. asking' \in Nat /\ readyCount' \in Nat
    BY <1>1 DEF ServerInv, SomebodyPlays, readyVars
  <2>6. QED
    BY <2>1, <2>3, <2>4, <2>5 DEF ServerInv, NoBets, SomebodyPlays
<1>2. CASE UNCHANGED <<tableVars, sockets, readyVars>>
  BY <1>2, QuietKeeps DEF readyVars
<1>3. QED
  BY <1>1, <1>2 DEF Accept

LEMMA BeginKeeps ==
    ASSUME ServerInv, BeginHand
    PROVE  ServerInv'
<1>1. NoBets'
  BY DEF BeginHand, ResetGameState, NoBets
<1>2. SomebodyPlays'
  BY DEF ServerInv, SomebodyPlays, BeginHand, ResetGameState, netVars
<1>3. QED
  BY <1>1, <1>2 DEF ServerInv

LEMMA SkipKeeps ==
    ASSUME ServerInv, SkipLeft
    PROVE  ServerInv'
<1>1. asking \in Nat /\ asking' = asking + 1 /\ UNCHANGED <<tableVars, readyCount, sockets>>
  BY DEF ServerInv, SomebodyPlays, SkipLeft, netVars
<1>2. NoBets'
  BY <1>1 DEF ServerInv, NoBets, tableVars
<1>3. \A p \in Seats : p < asking => p < asking'
  BY <1>1, SeatsAssumption DEF Seats
<1>4. Active' = Active /\ Active \subseteq Seats
  BY <1>1 DEF Active, SeatsThat, tableVars
<1>5. phase' = "ready" /\ readyCount' > 0 => \E p \in Active' : p < asking'
  BY <1>1, <1>3, <1>4 DEF ServerInv, SomebodyPlays, tableVars
<1>6. SomebodyPlays'
  BY <1>1, <1>4, <1>5 DEF ServerInv, SomebodyPlays, tableVars
<1>7. QED
  BY <1>2, <1>6 DEF ServerInv

\* The seat that is asked may leave, the ones before it that play stay, and it
\* plays itself if it says READY.
LEMMA AskKeeps ==
    ASSUME ServerInv, AskReady
    PROVE  ServerInv'
<1> USE DEF ServerInv
<1>1. /\ phase = "ready" /\ phase' = "ready"
      /\ asking \in Seats /\ asking \in Nat /\ asking' = asking + 1
      /\ player_status[asking] # "LEFT"
      /\ UNCHANGED <<highest_bet, current_bets, sockets>>
  BY DEF AskReady, Leave, tableVars, SomebodyPlays
<1>2. player_status' = player_status
      \/ player_status' = [player_status EXCEPT ![asking] = "LEFT"]
  BY DEF AskReady, Leave, tableVars
<1>3. NoBets'
  BY <1>1 DEF NoBets
<1>4. /\ player_status' \in [Seats -> Statuses]
      /\ \A p \in Seats : sockets'[p] # NoConn => player_status'[p] \in {"ACTIVE", "LEFT"}
  BY <1>1, <1>2 DEF SomebodyPlays, Statuses
<1>5. \A p \in Active : p < asking => p \in Active' /\ p < asking'
  <2>1. TAKE p \in Active
  <2>2. HAVE p < asking
  <2>3. p \in Seats /\ p \in Nat /\ player_status[p] = "ACTIVE"
    BY SeatsAssumption DEF Active, SeatsThat, Seats
  <2>4. p # asking /\ p < asking'
    BY <1>1, <2>2, <2>3
  <2>5. player_status'[p] = "ACTIVE"
    BY <1>2, <2>3, <2>4 DEF SomebodyPlays
  <2>6. QED
    BY <2>3, <2>4, <2>5 DEF Active, SeatsThat
<1>6. CASE readyCount' = readyCount
  BY <1>1, <1>3, <1>4, <1>5, <1>6 DEF SomebodyPlays
<1>7. CASE /\ readyCount' = readyCount + 1
           /\ sockets[asking] # NoConn /\ Receives(sockets[asking], "READY")
  <2>1. player_status' = player_status
    BY <1>7 DEF AskReady, Leaves, Receives, ReceivesNothing, tableVars
  <2>2. player_status[asking] = "ACTIVE"
    BY <1>1, <1>7 DEF SomebodyPlays
  <2>3. asking \in Active' /\ asking < asking'
    BY <1>1, <2>1, <2>2 DEF Active, SeatsThat
  <2>4. readyCount' \in Nat
    BY <1>7 DEF SomebodyPlays
  <2>5. QED
    BY <1>1, <1>3, <1>4, <2>3, <2>4 DEF SomebodyPlays
<1>8. QED
  BY <1>6, <1>7 DEF AskReady

\* A hand starts with somebody to play it.
LEMMA StartersPlay ==
    ASSUME ServerInv, StartHand
    PROVE  Active # {}
<1>1. phase = "ready" /\ readyCount >= 2 /\ readyCount \in Nat
  BY DEF StartHand, ServerInv, SomebodyPlays
<1>2. QED
  BY <1>1 DEF ServerInv, SomebodyPlays

LEMMA StartKeeps ==
    ASSUME ServerInv, StartHand
    PROVE  ServerInv'
<1>1. Active # {}
  BY StartersPlay
<1>2. /\ phase = "ready" /\ phase' = "hand"
      /\ UNCHANGED <<player_status, current_bets, highest_bet, sockets, readyVars>>
  BY <1>1 DEF StartHand
<1>3. Active' = Active
  BY <1>2 DEF Active, SeatsThat
<1>4. NoBets'
  BY <1>2 DEF ServerInv, NoBets
<1>5. SomebodyPlays'
  BY <1>1, <1>2, <1>3 DEF ServerInv, SomebodyPlays, readyVars
<1>6. QED
  BY <1>4, <1>5 DEF ServerInv

\* The betting loop only ever deals the next street or ends the hand.
LEMMA BettingKeeps ==
    ASSUME ServerInv, BettingLoop
    PROVE  ServerInv'
<1>1. phase = "hand" /\ CheckBettingEnd /\ UNCHANGED <<sockets, readyVars>>
  BY NoBetsEndBetting DEF BettingLoop, ServerInv
<1>2. Active # {}
  BY <1>1 DEF ServerInv, SomebodyPlays
<1>3. CASE Showdown
  BY <1>1, <1>3 DEF ServerInv, NoBets, SomebodyPlays, Showdown, readyVars
<1>4. CASE ServerCommunity
  <2>1. /\ phase' = "hand" /\ player_status' = player_status /\ highest_bet' = 0
        /\ current_bets' = [p \in Seats |-> IF p \in Active THEN 0 ELSE current_bets[p]]
    BY <1>2, <1>4 DEF ServerCommunity
  <2>2. NoBets'
    BY <1>1, <2>1 DEF ServerInv, NoBets
  <2>3. Active' = Active
    BY <2>1 DEF Active, SeatsThat
  <2>4. SomebodyPlays'
    BY <1>1, <1>2, <2>1, <2>3 DEF ServerInv, SomebodyPlays, readyVars
  <2>5. QED
    BY <2>2, <2>4 DEF ServerInv
<1>5. QED
  BY <1>1, <1>3, <1>4 DEF BettingLoop, NextStreet

LEMMA ServerKeeps ==
    ASSUME ServerInv, [NetNext]_serverVars
    PROVE  ServerInv'
<1>1. CASE Select
  BY <1>1, QuietKeeps DEF Select, readyVars, netVars
<1>2. ASSUME NEW i \in Seats, Accept(i) PROVE ServerInv'
  BY <1>2, AcceptKeeps
<1>3. CASE AllJoined
  BY <1>3 DEF AllJoined, JoinDone, ServerInv, NoBets, SomebodyPlays, readyVars, netVars
<1>4. CASE BeginHand
  BY <1>4, BeginKeeps
<1>5. CASE SkipLeft
  BY <1>5, SkipKeeps
<1>6. CASE AskReady
  BY <1>6, AskKeeps
<1>7. CASE HaltAll
  BY <1>7 DEF HaltAll, Halt, ServerInv, NoBets, SomebodyPlays, readyVars
<1>8. CASE StartHand
  BY <1>8, StartKeeps
<1>9. CASE BettingLoop
  BY <1>9, BettingKeeps
<1>10. ASSUME NEW c \in Conns, Connect(c) \/ ClientActs(c)
       PROVE  ServerInv'
  BY <1>10, QuietKeeps DEF Connect, ClientActs, readyVars
<1>11. CASE Listen \/ UNCHANGED serverVars
  BY <1>11, QuietKeeps DEF Listen, serverVars, readyVars, netVars
<1>12. QED
  BY <1>1, <1>2, <1>3, <1>4, <1>5, <1>6, <1>7, <1>8, <1>9, <1>10, <1>11
  DEF NetNext, ServerNext

-----------------------------------------------------------------------------
(* The connections: whom the server serves *)

\* A connection is at one place only: in the listen queue of its port, once and
\* not accepted, or at the seat of its port, or neither.
ConnectionsInPlace ==
    /\ sockets \in [Seats -> Conns \cup {NoConn}]
    /\ serverEnd \in [Conns -> {"none", "open", "closed"}]
    /\ clientEnd \in [Conns -> {"idle", "open", "closed"}]
    /\ backlog \in [Seats -> Seq(Conns)]
    /\ readset \in SUBSET Seats
    /\ \A p \in Seats : sockets[p] # NoConn => Port[sockets[p]] = p
    /\ \A p \in readset : backlog[p] # <<>>
    /\ \A p \in Seats : \A n \in 1 .. Len(backlog[p]) :
          /\ Port[backlog[p][n]] = p
          /\ serverEnd[backlog[p][n]] = "none"
          /\ clientEnd[backlog[p][n]] # "idle"
    /\ \A p \in Seats : \A m, n \in 1 .. Len(backlog[p]) :
          backlog[p][m] = backlog[p][n] => m = n
    /\ \A c \in Conns : clientEnd[c] = "idle" => serverEnd[c] = "none"

Served(p) == sockets[p] # NoConn /\ serverEnd[sockets[p]] = "open"

\* Who plays is served; a seat the ready loop has asked plays or has left, and so
\* does every seat during a hand.  Nobody leaves before the table is full.
PlayersServed ==
    /\ \A p \in Seats : player_status[p] = "ACTIVE" => Served(p)
    /\ phase = "ready" =>
          \A p \in Seats : p < asking => player_status[p] \in {"ACTIVE", "LEFT"}
    /\ phase = "hand" => \A p \in Seats : player_status[p] \in {"ACTIVE", "LEFT"}
    /\ phase = "join" => \A p \in Seats : player_status[p] # "LEFT"

ServingInv == ServerInv /\ ConnectionsInPlace /\ PlayersServed

LEMMA ServingInvHoldsInitially == ServerInit => ServingInv
<1> SUFFICES ASSUME ServerInit PROVE ServingInv
  OBVIOUS
<1>1. ConnectionsInPlace
  BY DEF ServerInit, ConnectionsInPlace
<1>2. PlayersServed
  BY DEF ServerInit, Init, PlayersServed
<1>3. QED
  BY <1>1, <1>2, ServerInvHoldsInitially DEF ServingInv

\* The variables ConnectionsInPlace speaks of.
connVars == <<sockets, serverEnd, clientEnd, backlog, readset>>

LEMMA ConnectionsStay ==
    ASSUME ConnectionsInPlace, UNCHANGED connVars
    PROVE  ConnectionsInPlace'
BY DEF ConnectionsInPlace, connVars

\* A step that leaves the table and the seats alone.
LEMMA PlayersStay ==
    ASSUME PlayersServed, UNCHANGED <<tableVars, asking, sockets, serverEnd>>
    PROVE  PlayersServed'
BY DEF PlayersServed, Served, tableVars

\* The next connection in the queue of a port is one to that port, and new.
LEMMA NextIsNew ==
    ASSUME ConnectionsInPlace, NEW i \in Seats, backlog[i] # <<>>
    PROVE  LET c == Head(backlog[i])
           IN  /\ c = backlog[i][1] /\ c \in Conns /\ c # NoConn
               /\ Port[c] = i /\ serverEnd[c] = "none" /\ clientEnd[c] # "idle"
<1>1. backlog[i] \in Seq(Conns) /\ Len(backlog[i]) \in Nat /\ Len(backlog[i]) > 0
  BY DEF ConnectionsInPlace
<1>2. Head(backlog[i]) = backlog[i][1] /\ backlog[i][1] \in Conns
  BY <1>1
<1>3. 1 \in 1 .. Len(backlog[i])
  BY <1>1
<1>4. QED
  BY <1>2, <1>3, ConnsAssumption DEF ConnectionsInPlace

\* accept takes a connection out of the queue for good, and it was at no seat.
LEMMA AcceptServes ==
    ASSUME ServingInv, NEW i \in Seats, Accept(i)
    PROVE  ConnectionsInPlace' /\ PlayersServed'
<1> DEFINE c == Head(backlog[i])
<1> USE DEF ServingInv
<1>1. /\ i \in readset /\ phase = "join" /\ backlog[i] # <<>>
      /\ backlog' = [backlog EXCEPT ![i] = Tail(@)]
      /\ readset' = readset \ {i}
      /\ clientEnd' = clientEnd
  BY DEF Accept, ConnectionsInPlace
<1>2. backlog[i] \in Seq(Conns) /\ Len(backlog[i]) \in Nat /\ Len(backlog[i]) > 0
  BY <1>1 DEF ConnectionsInPlace
<1>3. /\ c = backlog[i][1] /\ c \in Conns /\ c # NoConn
      /\ Port[c] = i /\ serverEnd[c] = "none" /\ clientEnd[c] # "idle"
  BY <1>1, NextIsNew
<1>4. \A p \in Seats : player_status[p] = "ACTIVE" => sockets[p] # c
  BY <1>3 DEF PlayersServed, Served
<1>5. /\ backlog' \in [Seats -> Seq(Conns)]
      /\ \A p \in Seats : \A n \in 1 .. Len(backlog'[p]) :
            /\ backlog'[p][n] # c
            /\ \E k \in 1 .. Len(backlog[p]) :
                  /\ backlog'[p][n] = backlog[p][k]
                  /\ k = IF p = i THEN n + 1 ELSE n
  <2>1. Tail(backlog[i]) \in Seq(Conns) /\ Len(Tail(backlog[i])) = Len(backlog[i]) - 1
        /\ \A n \in 1 .. Len(backlog[i]) - 1 : Tail(backlog[i])[n] = backlog[i][n + 1]
    BY <1>1, <1>2
  <2>2. backlog' \in [Seats -> Seq(Conns)]
    BY <1>1, <2>1 DEF ConnectionsInPlace
  <2>3. ASSUME NEW p \in Seats, p # i, NEW n \in 1 .. Len(backlog'[p])
        PROVE  backlog'[p] = backlog[p] /\ backlog'[p][n] # c
    <3>1. backlog'[p] = backlog[p]
      BY <1>1, <2>3 DEF ConnectionsInPlace
    <3>2. Port[backlog[p][n]] = p
      BY <2>3, <3>1 DEF ConnectionsInPlace
    <3>3. QED
      BY <1>3, <2>3, <3>1, <3>2
  <2>4. ASSUME NEW n \in 1 .. Len(backlog'[i])
        PROVE  n + 1 \in 1 .. Len(backlog[i]) /\ backlog'[i][n] = backlog[i][n + 1]
               /\ backlog'[i][n] # c
    <3>1. backlog'[i] = Tail(backlog[i])
      BY <1>1 DEF ConnectionsInPlace
    <3>2. n \in Int /\ 1 <= n /\ n <= Len(backlog[i]) - 1
      BY <1>2, <2>1, <2>4, <3>1
    <3>3. n + 1 \in 1 .. Len(backlog[i]) /\ 1 \in 1 .. Len(backlog[i]) /\ n + 1 # 1
      BY <1>2, <3>2
    <3>4. backlog'[i][n] = backlog[i][n + 1]
      BY <1>2, <2>1, <3>1, <3>2
    <3>5. backlog[i][n + 1] # backlog[i][1]
      BY <3>3 DEF ConnectionsInPlace
    <3>6. QED
      BY <1>3, <3>3, <3>4, <3>5
  <2>5. QED
    BY <2>2, <2>3, <2>4
<1>6. /\ \A p \in Seats : \A n \in 1 .. Len(backlog'[p]) :
            /\ Port[backlog'[p][n]] = p
            /\ serverEnd[backlog'[p][n]] = "none"
            /\ clientEnd[backlog'[p][n]] # "idle"
            /\ backlog'[p][n] # c
      /\ \A p \in Seats : \A m, n \in 1 .. Len(backlog'[p]) :
            backlog'[p][m] = backlog'[p][n] => m = n
  <2>1. \A p \in Seats : \A n \in 1 .. Len(backlog'[p]) :
            /\ Port[backlog'[p][n]] = p
            /\ serverEnd[backlog'[p][n]] = "none"
            /\ clientEnd[backlog'[p][n]] # "idle"
            /\ backlog'[p][n] # c
    <3>1. TAKE p \in Seats
    <3>2. TAKE n \in 1 .. Len(backlog'[p])
    <3>3. PICK k \in 1 .. Len(backlog[p]) : backlog'[p][n] = backlog[p][k]
      BY <1>5
    <3>4. /\ Port[backlog[p][k]] = p
          /\ serverEnd[backlog[p][k]] = "none"
          /\ clientEnd[backlog[p][k]] # "idle"
      BY DEF ConnectionsInPlace
    <3>5. QED
      BY <1>5, <3>3, <3>4
  <2>2. ASSUME NEW p \in Seats, NEW m \in 1 .. Len(backlog'[p]), NEW n \in 1 .. Len(backlog'[p]),
               backlog'[p][m] = backlog'[p][n]
        PROVE  m = n
    <3>1. PICK k \in 1 .. Len(backlog[p]) :
             backlog'[p][m] = backlog[p][k] /\ k = IF p = i THEN m + 1 ELSE m
      BY <1>5
    <3>2. PICK l \in 1 .. Len(backlog[p]) :
             backlog'[p][n] = backlog[p][l] /\ l = IF p = i THEN n + 1 ELSE n
      BY <1>5
    <3>3. k = l
      <4>1. backlog[p][k] = backlog[p][l]
        BY <2>2, <3>1, <3>2
      <4>2. QED
        BY <4>1 DEF ConnectionsInPlace
    <3>4. m \in Int /\ n \in Int
      OBVIOUS
    <3>5. QED
      BY <3>1, <3>2, <3>3, <3>4
  <2>3. QED
    BY <2>1, <2>2
<1>7. \A p \in readset' : backlog'[p] # <<>>
  BY <1>1 DEF ConnectionsInPlace
<1>8. CASE /\ Join(i)
           /\ sockets' = [sockets EXCEPT ![i] = c]
           /\ serverEnd' = [serverEnd EXCEPT ![c] = "open"]
  <2>1. /\ phase' = "join"
        /\ player_status' = [player_status EXCEPT ![i] = "ACTIVE"]
    BY <1>8 DEF Join
  <2>2. /\ sockets' \in [Seats -> Conns \cup {NoConn}]
        /\ serverEnd' \in [Conns -> {"none", "open", "closed"}]
        /\ \A p \in Seats : sockets'[p] # NoConn => Port[sockets'[p]] = p
        /\ \A d \in Conns : clientEnd'[d] = "idle" => serverEnd'[d] = "none"
    BY <1>1, <1>3, <1>8 DEF ConnectionsInPlace
  <2>3. \A p \in Seats : \A n \in 1 .. Len(backlog'[p]) : serverEnd'[backlog'[p][n]] = "none"
    <3>1. TAKE p \in Seats
    <3>2. TAKE n \in 1 .. Len(backlog'[p])
    <3>3. serverEnd[backlog'[p][n]] = "none" /\ backlog'[p][n] # c
      BY <1>6
    <3>4. QED
      BY <1>5, <1>8, <3>3 DEF ConnectionsInPlace
  <2>4. /\ clientEnd' \in [Conns -> {"idle", "open", "closed"}]
        /\ readset' \in SUBSET Seats
    BY <1>1 DEF ConnectionsInPlace
  <2>5. ConnectionsInPlace'
    <3>1. \A p \in Seats : \A n \in 1 .. Len(backlog'[p]) :
             /\ Port[backlog'[p][n]] = p
             /\ serverEnd'[backlog'[p][n]] = "none"
             /\ clientEnd'[backlog'[p][n]] # "idle"
      <4>1. TAKE p \in Seats
      <4>2. TAKE n \in 1 .. Len(backlog'[p])
      <4>3. Port[backlog'[p][n]] = p /\ clientEnd[backlog'[p][n]] # "idle"
        BY <1>6
      <4>4. QED
        BY <1>1, <2>3, <4>3
    <3>2. QED
      BY <1>5, <1>6, <1>7, <2>2, <2>4, <3>1 DEF ConnectionsInPlace
  <2>6. PlayersServed'
    BY <1>1, <1>3, <1>8, <2>1 DEF PlayersServed, Served, ConnectionsInPlace, ServerInv, SomebodyPlays
  <2>7. QED
    BY <2>5, <2>6
<1>9. CASE /\ serverEnd' = [serverEnd EXCEPT ![c] = "closed"]
           /\ UNCHANGED <<tableVars, sockets>>
  <2>1. ConnectionsInPlace'
    BY <1>1, <1>3, <1>5, <1>6, <1>7, <1>9 DEF ConnectionsInPlace
  <2>2. PlayersServed'
    BY <1>1, <1>3, <1>4, <1>9 DEF PlayersServed, Served, ConnectionsInPlace, tableVars
  <2>3. QED
    BY <2>1, <2>2
<1>10. QED
  BY <1>8, <1>9 DEF Accept

\* The seat that is asked leaves, and its connection with it, or it plays.
LEMMA AskServes ==
    ASSUME ServingInv, AskReady
    PROVE  ConnectionsInPlace' /\ PlayersServed'
<1> USE DEF ServingInv
<1>1. /\ phase = "ready" /\ phase' = "ready"
      /\ asking \in Seats /\ asking' = asking + 1
      /\ player_status[asking] # "LEFT"
      /\ UNCHANGED <<sockets, clientEnd, backlog, readset>>
  BY DEF AskReady, Leave, tableVars, joinVars
<1>2. \A p \in Seats : p < asking' => p < asking \/ p = asking
  BY <1>1, SeatsAssumption DEF Seats
<1>3. player_status \in [Seats -> Statuses]
  BY DEF ServerInv, SomebodyPlays
<1>4. CASE /\ player_status' = [player_status EXCEPT ![asking] = "LEFT"]
           /\ serverEnd' = IF sockets[asking] = NoConn THEN serverEnd
                           ELSE [serverEnd EXCEPT ![sockets[asking]] = "closed"]
  <2>1. \A p \in Seats : p # asking /\ sockets[p] # NoConn => sockets[p] # sockets[asking]
    BY <1>1 DEF ConnectionsInPlace
  <2>2. \A p \in Seats : player_status'[p] = "ACTIVE" =>
            p # asking /\ player_status[p] = "ACTIVE"
    BY <1>1, <1>3, <1>4
  <2>3. \A p \in Seats : player_status'[p] = "ACTIVE" => Served(p)'
    BY <1>1, <1>4, <2>1, <2>2, ConnsAssumption DEF PlayersServed, Served, ConnectionsInPlace
  <2>4. PlayersServed'
    BY <1>1, <1>2, <1>3, <1>4, <2>3 DEF PlayersServed
  <2>5. sockets[asking] # NoConn =>
            serverEnd[sockets[asking]] = "open" /\ sockets[asking] \in Conns
    <3>1. sockets[asking] # NoConn => player_status[asking] = "ACTIVE"
      BY <1>1 DEF ServerInv, SomebodyPlays
    <3>2. QED
      BY <1>1, <3>1 DEF PlayersServed, Served, ConnectionsInPlace
  <2>6. \A p \in Seats : \A n \in 1 .. Len(backlog[p]) :
            serverEnd'[backlog[p][n]] = "none"
    <3>1. TAKE p \in Seats
    <3>2. TAKE n \in 1 .. Len(backlog[p])
    <3>3. serverEnd[backlog[p][n]] = "none" /\ backlog[p][n] \in Conns
      BY DEF ConnectionsInPlace
    <3>4. sockets[asking] # NoConn => serverEnd[sockets[asking]] = "open"
      BY <2>5
    <3>5. QED
      BY <1>4, <3>3, <3>4 DEF ConnectionsInPlace
  <2>7. ConnectionsInPlace'
    <3>1. /\ serverEnd' \in [Conns -> {"none", "open", "closed"}]
          /\ \A c \in Conns : clientEnd[c] = "idle" => serverEnd'[c] = "none"
      BY <1>4, <2>5 DEF ConnectionsInPlace
    <3>2. QED
      BY <1>1, <2>6, <3>1 DEF ConnectionsInPlace
  <2>8. QED
    BY <2>4, <2>7
<1>5. CASE /\ UNCHANGED <<tableVars, serverEnd>>
           /\ sockets[asking] # NoConn
  <2>1. player_status[asking] \in {"ACTIVE", "LEFT"}
    BY <1>1, <1>5 DEF ServerInv, SomebodyPlays
  <2>2. ConnectionsInPlace'
    BY <1>1, <1>5, ConnectionsStay DEF connVars
  <2>3. PlayersServed'
    BY <1>1, <1>2, <1>5, <2>1 DEF PlayersServed, Served, tableVars
  <2>4. QED
    BY <2>2, <2>3
<1>6. QED
  BY <1>4, <1>5 DEF AskReady, Leaves, Leave, ReceivesNothing

\* Every seat has been asked when a hand starts.
LEMMA StartServes ==
    ASSUME ServingInv, StartHand
    PROVE  ConnectionsInPlace' /\ PlayersServed'
<1>1. /\ phase = "ready" /\ asking = MAX_PLAYERS /\ phase' \in {"hand", "spin"}
      /\ UNCHANGED <<player_status, sockets, serverEnd, clientEnd, joinVars>>
  BY DEF StartHand
<1>2. \A p \in Seats : p < asking
  BY <1>1, SeatsAssumption DEF Seats
<1>3. ConnectionsInPlace'
  BY <1>1, ConnectionsStay DEF ServingInv, connVars, joinVars
<1>4. PlayersServed'
  BY <1>1, <1>2 DEF ServingInv, PlayersServed, Served
<1>5. QED
  BY <1>3, <1>4

\* Nobody folds and nobody leaves during a hand.
LEMMA BettingServes ==
    ASSUME ServingInv, BettingLoop
    PROVE  ConnectionsInPlace' /\ PlayersServed'
<1>1. phase = "hand" /\ CheckBettingEnd
  BY NoBetsEndBetting DEF BettingLoop, ServingInv, ServerInv
<1>2. /\ phase' \in {"hand", "spin", "reset"}
      /\ UNCHANGED <<player_status, sockets, serverEnd, clientEnd, joinVars>>
  BY <1>1 DEF BettingLoop, Showdown, NextStreet, ServerCommunity
<1>3. ConnectionsInPlace'
  BY <1>2, ConnectionsStay DEF ServingInv, connVars, joinVars
<1>4. PlayersServed'
  BY <1>1, <1>2 DEF ServingInv, PlayersServed, Served
<1>5. QED
  BY <1>3, <1>4

\* A new connection goes to the end of the queue of its port.
LEMMA ConnectServes ==
    ASSUME ServingInv, NEW c \in Conns, Connect(c)
    PROVE  ConnectionsInPlace' /\ PlayersServed'
<1> DEFINE i == Port[c]
<1> USE DEF ServingInv
<1>1. /\ clientEnd[c] = "idle" /\ clientEnd' = [clientEnd EXCEPT ![c] = "open"]
      /\ backlog' = [backlog EXCEPT ![i] = Append(@, c)]
      /\ UNCHANGED <<tableVars, asking, sockets, serverEnd, readset>>
  BY DEF Connect, readyVars
<1>2. i \in Seats /\ backlog[i] \in Seq(Conns) /\ serverEnd[c] = "none"
  BY <1>1, PortAssumption DEF ConnectionsInPlace
<1>3. /\ Append(backlog[i], c) \in Seq(Conns)
      /\ Len(Append(backlog[i], c)) = Len(backlog[i]) + 1
      /\ Len(backlog[i]) \in Nat
      /\ Append(backlog[i], c)[Len(backlog[i]) + 1] = c
      /\ \A n \in 1 .. Len(backlog[i]) : Append(backlog[i], c)[n] = backlog[i][n]
  BY <1>2
<1>4. backlog' \in [Seats -> Seq(Conns)]
  BY <1>1, <1>2, <1>3 DEF ConnectionsInPlace
<1>5. \A p \in Seats : p # i => backlog'[p] = backlog[p]
  BY <1>1 DEF ConnectionsInPlace
<1>6. backlog'[i] = Append(backlog[i], c)
  BY <1>1, <1>2 DEF ConnectionsInPlace
<1>7. \A p \in Seats : \A n \in 1 .. Len(backlog'[p]) :
         \/ n \in 1 .. Len(backlog[p]) /\ backlog'[p][n] = backlog[p][n]
         \/ p = i /\ n = Len(backlog[i]) + 1 /\ backlog'[p][n] = c
  BY <1>3, <1>5, <1>6
<1>8. \A p \in Seats : \A n \in 1 .. Len(backlog[p]) : backlog[p][n] # c
  BY <1>1 DEF ConnectionsInPlace
<1>9. \A p \in Seats : \A n \in 1 .. Len(backlog[p]) :
         /\ Port[backlog[p][n]] = p
         /\ serverEnd[backlog[p][n]] = "none"
         /\ clientEnd'[backlog[p][n]] # "idle"
  BY <1>1, <1>8 DEF ConnectionsInPlace
<1>10. \A p \in Seats : \A n \in 1 .. Len(backlog'[p]) :
         /\ Port[backlog'[p][n]] = p
         /\ serverEnd'[backlog'[p][n]] = "none"
         /\ clientEnd'[backlog'[p][n]] # "idle"
  <2>1. TAKE p \in Seats
  <2>2. TAKE n \in 1 .. Len(backlog'[p])
  <2>3. clientEnd'[c] # "idle"
    BY <1>1 DEF ConnectionsInPlace
  <2>4. QED
    BY <1>1, <1>2, <1>7, <1>9, <2>3
<1>11. \A p \in Seats : \A m, n \in 1 .. Len(backlog'[p]) :
          backlog'[p][m] = backlog'[p][n] => m = n
  <2>1. TAKE p \in Seats
  <2>2. TAKE m, n \in 1 .. Len(backlog'[p])
  <2>3. \A k, l \in 1 .. Len(backlog[p]) : backlog[p][k] = backlog[p][l] => k = l
    BY DEF ConnectionsInPlace
  <2>4. QED
    BY <1>7, <1>8, <2>3
<1>12. \A p \in readset' : backlog'[p] # <<>>
  <2>1. \A p \in readset : p \in Seats /\ backlog[p] # <<>>
    BY DEF ConnectionsInPlace
  <2>2. backlog'[i] # <<>>
    BY <1>3, <1>6
  <2>3. QED
    BY <1>1, <1>5, <2>1, <2>2
<1>13. /\ clientEnd' \in [Conns -> {"idle", "open", "closed"}]
       /\ \A d \in Conns : clientEnd'[d] = "idle" => serverEnd'[d] = "none"
  BY <1>1 DEF ConnectionsInPlace
<1>14. ConnectionsInPlace'
  <2>1. /\ sockets' \in [Seats -> Conns \cup {NoConn}]
        /\ serverEnd' \in [Conns -> {"none", "open", "closed"}]
        /\ readset' \in SUBSET Seats
        /\ \A p \in Seats : sockets'[p] # NoConn => Port[sockets'[p]] = p
    BY <1>1 DEF ConnectionsInPlace
  <2>2. QED
    BY <1>4, <1>10, <1>11, <1>12, <1>13, <2>1 DEF ConnectionsInPlace
<1>15. PlayersServed'
  BY <1>1, PlayersStay
<1>16. QED
  BY <1>14, <1>15

LEMMA ClientServes ==
    ASSUME ServingInv, NEW c \in Conns, ClientActs(c)
    PROVE  ConnectionsInPlace' /\ PlayersServed'
<1> USE DEF ServingInv
<1>1. /\ clientEnd[c] = "open"
      /\ clientEnd' = clientEnd \/ clientEnd' = [clientEnd EXCEPT ![c] = "closed"]
      /\ UNCHANGED <<tableVars, asking, sockets, serverEnd, backlog, readset>>
  BY DEF ClientActs, joinVars, readyVars
<1>2. \A d \in Conns : clientEnd'[d] = "idle" => clientEnd[d] = "idle"
  BY <1>1 DEF ConnectionsInPlace
<1>3. \A p \in Seats : \A n \in 1 .. Len(backlog[p]) :
         backlog[p][n] \in Conns /\ clientEnd'[backlog[p][n]] # "idle"
  <2>1. TAKE p \in Seats
  <2>2. TAKE n \in 1 .. Len(backlog[p])
  <2>3. backlog[p][n] \in Conns /\ clientEnd[backlog[p][n]] # "idle"
    BY DEF ConnectionsInPlace
  <2>4. QED
    BY <1>2, <2>3
<1>4. clientEnd' \in [Conns -> {"idle", "open", "closed"}]
  BY <1>1 DEF ConnectionsInPlace
<1>5. ConnectionsInPlace'
  BY <1>1, <1>2, <1>3, <1>4 DEF ConnectionsInPlace
<1>6. PlayersServed'
  BY <1>1, PlayersStay
<1>7. QED
  BY <1>5, <1>6

LEMMA ServingKeeps ==
    ASSUME ServingInv, [NetNext]_serverVars
    PROVE  ServingInv'
<1> SUFFICES ConnectionsInPlace' /\ PlayersServed'
  BY ServerKeeps DEF ServingInv
<1> USE DEF ServingInv
<1>1. CASE Select
  <2>1. /\ readset' = {i \in Seats : backlog[i] # <<>>}
        /\ UNCHANGED <<tableVars, asking, sockets, serverEnd, clientEnd, backlog>>
    BY <1>1 DEF Select, readyVars, netVars
  <2>2. ConnectionsInPlace'
    BY <2>1 DEF ConnectionsInPlace
  <2>3. QED
    BY <2>1, <2>2, PlayersStay
<1>2. ASSUME NEW i \in Seats, Accept(i) PROVE ConnectionsInPlace' /\ PlayersServed'
  BY <1>2, AcceptServes
<1>3. CASE AllJoined
  <2>1. /\ phase' = "reset"
        /\ UNCHANGED <<player_status, connVars>>
    BY <1>3 DEF AllJoined, JoinDone, joinVars, netVars, connVars
  <2>2. QED
    BY <2>1, ConnectionsStay DEF PlayersServed, Served, connVars
<1>4. CASE BeginHand
  <2>1. /\ phase' = "ready" /\ asking' = 0
        /\ UNCHANGED <<player_status, connVars>>
    BY <1>4 DEF BeginHand, ResetGameState, joinVars, netVars, connVars
  <2>2. \A p \in Seats : ~ (p < asking')
    BY <2>1, SeatsAssumption DEF Seats
  <2>3. QED
    BY <2>1, <2>2, ConnectionsStay DEF PlayersServed, Served, connVars
<1>5. CASE SkipLeft
  <2>1. /\ asking' = asking + 1 /\ asking \in Seats /\ player_status[asking] = "LEFT"
        /\ UNCHANGED <<tableVars, connVars>>
    BY <1>5 DEF SkipLeft, joinVars, netVars, connVars
  <2>2. \A p \in Seats : p < asking' => p < asking \/ p = asking
    BY <2>1, SeatsAssumption DEF Seats
  <2>3. QED
    BY <2>1, <2>2, ConnectionsStay DEF PlayersServed, Served, connVars, tableVars
<1>6. CASE AskReady
  BY <1>6, AskServes
<1>7. CASE HaltAll
  <2>1. phase' = "halt" /\ UNCHANGED <<player_status, connVars>>
    BY <1>7 DEF HaltAll, Halt, joinVars, connVars
  <2>2. QED
    BY <2>1, ConnectionsStay DEF PlayersServed, Served, connVars
<1>8. CASE StartHand
  BY <1>8, StartServes
<1>9. CASE BettingLoop
  BY <1>9, BettingServes
<1>10. ASSUME NEW c \in Conns, Connect(c) PROVE ConnectionsInPlace' /\ PlayersServed'
  BY <1>10, ConnectServes
<1>11. ASSUME NEW c \in Conns, ClientActs(c) PROVE ConnectionsInPlace' /\ PlayersServed'
  BY <1>11, ClientServes
<1>12. CASE Listen \/ UNCHANGED serverVars
  <2>1. UNCHANGED <<tableVars, asking, connVars>>
    BY <1>12 DEF Listen, serverVars, joinVars, readyVars, netVars, connVars
  <2>2. QED
    BY <2>1, ConnectionsStay, PlayersStay DEF connVars
<1>13. QED
  BY <1>1, <1>2, <1>3, <1>4, <1>5, <1>6, <1>7, <1>8, <1>9, <1>10, <1>11, <1>12
  DEF NetNext, ServerNext

-----------------------------------------------------------------------------
(* What is sent, and to whom *)

\* The packets the server puts on the way: nobody is answered ACK or NACK, and an
\* INFO names a seat.
Packets ==
    {m \in [type : {"INFO", "END", "HALT"}, turn : Int, bet : Int] :
        m.type = "INFO" => m.turn \in Seats}

\* The button is at a seat, and there is one for it to move to after a hand.
StreamInv ==
    /\ toClient \in [Conns -> Seq(Packets)]
    /\ dealer_player \in Seats
    /\ phase = "reset" => NonLeft # {}

\* The scan for the seat to act ends at a seat.
LEMMA TurnGoesToASeat ==
    ASSUME dealer_player \in Seats, Active # {}
    PROVE  NextIn(dealer_player, Active) \in Seats
<1>1. Active \in SUBSET Seats
  BY DEF Active, SeatsThat
<1>2. QED
  BY <1>1, NextInIsNearest

\* A broadcast adds at most one packet to a stream, and none to that of a seat
\* that left.
LEMMA BroadcastReaches ==
    ASSUME ConnectionsInPlace, toClient \in [Conns -> Seq(Packets)],
           NEW packet \in Packets, Broadcast(packet)
    PROVE  /\ toClient' \in [Conns -> Seq(Packets)]
           /\ \A p \in Seats : player_status[p] = "LEFT" /\ sockets[p] \in Conns
                 => toClient'[sockets[p]] = toClient[sockets[p]]
<1>1. PICK reached \in SUBSET NonLeft :
         toClient' = [c \in Conns |->
            IF ~Gone(c) /\ \E p \in reached : sockets[p] = c
            THEN toClient[c] \o <<packet>>
            ELSE toClient[c]]
  <2> DEFINE reached == {q \in NonLeft : \A r \in NonLeft \cap Broken : q < r}
             packets == [p \in Seats |-> <<packet>>]
  <2>1. toClient' = [c \in Conns |->
            IF ~Gone(c) /\ \E p \in reached : sockets[p] = c
            THEN toClient[c] \o packets[Port[c]]
            ELSE toClient[c]]
    BY Zenon DEF Broadcast, Send
  <2>2. \A c \in Conns : packets[Port[c]] = <<packet>>
    BY PortAssumption
  <2>3. reached \in SUBSET NonLeft
    OBVIOUS
  <2> HIDE DEF reached, packets
  <2>4. QED
    BY <2>1, <2>2, <2>3
<1>2. <<packet>> \in Seq(Packets)
  OBVIOUS
<1>3. \A c \in Conns : toClient[c] \o <<packet>> \in Seq(Packets)
  BY <1>2, ConcatProperties
<1>4. ASSUME NEW p \in Seats, player_status[p] = "LEFT", sockets[p] \in Conns
      PROVE  toClient'[sockets[p]] = toClient[sockets[p]]
  <2>1. \A q \in reached : sockets[q] # sockets[p]
    <3>1. TAKE q \in reached
    <3>2. q \in Seats /\ q # p
      BY <1>4 DEF NonLeft, SeatsThat
    <3>3. sockets[p] # NoConn
      BY <1>4, ConnsAssumption
    <3>4. QED
      BY <3>2, <3>3 DEF ConnectionsInPlace
  <2>2. QED
    BY <1>1, <1>4, <2>1
<1>5. QED
  BY <1>1, <1>3, <1>4

LEMMA StreamInvHoldsInitially == ServerInit => StreamInv
<1> SUFFICES ASSUME ServerInit PROVE StreamInv
  OBVIOUS
<1>1. 0 \in Seats
  BY SeatsAssumption DEF Seats
<1>2. toClient = [c \in Conns |-> <<>>]
  BY DEF ServerInit
<1>3. toClient \in [Conns -> Seq(Packets)]
  BY <1>2
<1>4. QED
  BY <1>1, <1>3 DEF ServerInit, Init, StreamInv

\* Whom find_winner finds when a hand of main() is over: nobody can be all in, and
\* so it is a seat that is still ACTIVE.
LEMMA WinnerIsPlaying ==
    ASSUME ServingInv, phase = "hand", NEW value \in HandValues
    PROVE  FindWinner(value) \in Active /\ EndPacket(FindWinner(value)) \in Packets
<1>1. \A p \in Seats : player_status[p] # "ALLIN"
  BY DEF ServingInv, PlayersServed
<1>2. Contenders = Active
  BY <1>1 DEF Contenders, Active, SeatsThat
<1>3. Active # {}
  BY DEF ServingInv, ServerInv, SomebodyPlays
<1>4. FindWinner(value) \in Active
  BY <1>2, <1>3, WinnerIsAContender DEF HandValues
<1>5. FindWinner(value) \in Int
  BY <1>4, SeatsAssumption DEF Active, SeatsThat, Seats
<1>6. QED
  BY <1>4, <1>5 DEF EndPacket, Packets

\* The packet that ends a hand.
LEMMA ShowdownNamesTheWinner ==
    ASSUME ServingInv, phase = "hand", Showdown
    PROVE  \E winner \in Active :
              /\ EndPacket(winner) \in Packets /\ EndPacket(winner).type = "END"
              /\ Broadcast(EndPacket(winner))
<1>1. PICK value \in HandValues : Broadcast(EndPacket(FindWinner(value)))
  BY DEF Showdown
<1>2. QED
  BY <1>1, WinnerIsPlaying DEF EndPacket

\* The first INFO of a hand comes after the scan for the seat to act.
LEMMA StartSends ==
    ASSUME ServingInv, StreamInv, StartHand
    PROVE  /\ StreamInv'
           /\ \A p \in Seats : player_status[p] = "LEFT" /\ sockets[p] \in Conns
                 => toClient'[sockets[p]] = toClient[sockets[p]]
<1>1. Active # {}
  BY StartersPlay DEF ServingInv
<1>2. /\ phase = "ready" /\ phase' = "hand" /\ highest_bet' = highest_bet
      /\ dealer_player' = dealer_player
      /\ current_player' = NextIn(dealer_player, Active)
      /\ Broadcast(Packet("INFO"))
  BY <1>1 DEF StartHand
<1>3. current_player' \in Seats /\ highest_bet' = 0
  BY <1>1, <1>2, TurnGoesToASeat DEF StreamInv, ServingInv, ServerInv, NoBets
<1>4. Packet("INFO") \in Packets /\ Packet("INFO").type = "INFO"
  BY <1>3, SeatsAssumption DEF Packet, Packets, Seats
<1>5. QED
  BY <1>2, <1>4, BroadcastReaches DEF ServingInv, StreamInv

LEMMA BettingSends ==
    ASSUME ServingInv, StreamInv, BettingLoop
    PROVE  /\ StreamInv'
           /\ player_status' = player_status
           /\ \A p \in Seats : player_status[p] = "LEFT" /\ sockets[p] \in Conns
                 => toClient'[sockets[p]] = toClient[sockets[p]]
<1>1. phase = "hand" /\ CheckBettingEnd /\ Active # {}
  BY NoBetsEndBetting DEF BettingLoop, ServingInv, ServerInv, SomebodyPlays
<1>2. /\ Active \in SUBSET Seats /\ NonLeft \in SUBSET Seats
      /\ Active \subseteq NonLeft /\ dealer_player \in Seats
  BY DEF Active, NonLeft, SeatsThat, StreamInv
<1>3. CASE Showdown
  <2>1. /\ player_status' = player_status
        /\ dealer_player' = NextIn(dealer_player, NonLeft)
    BY <1>3 DEF Showdown
  <2>2. PICK winner : EndPacket(winner) \in Packets /\ Broadcast(EndPacket(winner))
    BY <1>1, <1>3, ShowdownNamesTheWinner
  <2>3. dealer_player' \in Seats
    <3>1. NextIn(dealer_player, NonLeft) \in NonLeft
      BY <1>1, <1>2, NextInIsNearest
    <3>2. QED
      BY <1>2, <2>1, <3>1
  <2>4. NonLeft' # {}
    BY <1>1, <1>2, <2>1 DEF NonLeft, SeatsThat
  <2>5. QED
    BY <2>1, <2>2, <2>3, <2>4, BroadcastReaches DEF ServingInv, StreamInv
<1>4. CASE NextStreet
  <2>1. /\ Broadcast(Packet("INFO")) /\ player_status' = player_status /\ phase' = "hand"
        /\ dealer_player' = dealer_player /\ highest_bet' = 0
        /\ current_player' = NextIn(dealer_player, Active)
    BY <1>1, <1>4 DEF NextStreet, ServerCommunity
  <2>2. current_player' \in Seats
    BY <1>1, <2>1, TurnGoesToASeat DEF StreamInv
  <2>3. Packet("INFO") \in Packets /\ Packet("INFO").type = "INFO"
    BY <2>1, <2>2, SeatsAssumption DEF Packet, Packets, Seats
  <2>4. QED
    BY <2>1, <2>3, BroadcastReaches DEF ServingInv, StreamInv
<1>5. QED
  BY <1>1, <1>3, <1>4 DEF BettingLoop

\* What a step leaves behind for the seats that left.
LeftStays ==
    \A p \in Seats : player_status[p] = "LEFT" =>
        /\ player_status'[p] = "LEFT"
        /\ sockets[p] \in Conns => Len(toClient'[sockets[p]]) <= Len(toClient[sockets[p]])

LEMMA StreamKeeps ==
    ASSUME ServingInv, StreamInv, [NetNext]_serverVars
    PROVE  StreamInv' /\ LeftStays
<1>1. \A c \in Conns : toClient[c] \in Seq(Packets) /\ Len(toClient[c]) \in Nat
  BY DEF StreamInv
<1>2. ASSUME \A p \in Seats : player_status[p] = "LEFT" => player_status'[p] = "LEFT",
             \A p \in Seats : player_status[p] = "LEFT" /\ sockets[p] \in Conns
                 => toClient'[sockets[p]] = toClient[sockets[p]]
      PROVE  LeftStays
  BY <1>1, <1>2 DEF LeftStays
<1>3. CASE UNCHANGED <<tableVars, toClient>>
  BY <1>2, <1>3 DEF StreamInv, NonLeft, SeatsThat, tableVars
<1>4. ASSUME NEW i \in Seats, Accept(i) PROVE StreamInv' /\ LeftStays
  <2>1. /\ phase = "join" /\ phase' = "join"
        /\ UNCHANGED <<toClient, dealer_player>>
    BY <1>4 DEF Accept, Join, tableVars
  <2>2. \A p \in Seats : player_status[p] # "LEFT"
    BY <2>1 DEF ServingInv, PlayersServed
  <2>3. QED
    BY <2>1, <2>2 DEF StreamInv, LeftStays
<1>5. CASE AllJoined
  <2>1. /\ Active # {} /\ UNCHANGED <<toClient, dealer_player, player_status>>
    BY <1>5 DEF AllJoined, JoinDone, netVars, streamVars
  <2>2. NonLeft' # {}
    BY <2>1 DEF Active, NonLeft, SeatsThat
  <2>3. QED
    BY <1>2, <2>1, <2>2 DEF StreamInv
<1>6. CASE BeginHand
  <2>1. /\ phase = "reset" /\ phase' = "ready" /\ dealer_player' = NextDealer
        /\ UNCHANGED <<toClient, player_status>>
    BY <1>6 DEF BeginHand, ResetGameState, netVars, streamVars
  <2>2. NonLeft \in SUBSET Seats /\ NonLeft # {} /\ dealer_player \in Seats
    BY <2>1 DEF NonLeft, StreamInv
  <2>3. NextIn(dealer_player, NonLeft) \in Seats
    BY <2>2, NextInIsNearest
  <2>4. dealer_player' \in Seats
    BY <2>1, <2>2, <2>3 DEF NextDealer
  <2>5. QED
    BY <1>2, <2>1, <2>4 DEF StreamInv
<1>7. CASE AskReady
  <2>1. /\ phase = "ready" /\ phase' = "ready" /\ UNCHANGED <<toClient, dealer_player>>
        /\ \/ player_status' = [player_status EXCEPT ![asking] = "LEFT"]
           \/ player_status' = player_status
    BY <1>7 DEF AskReady, Leave, tableVars
  <2>2. player_status \in [Seats -> Statuses]
    BY DEF ServingInv, ServerInv, SomebodyPlays
  <2>3. \A p \in Seats : player_status[p] = "LEFT" => player_status'[p] = "LEFT"
    BY <2>1, <2>2
  <2>4. QED
    BY <1>2, <2>1, <2>3 DEF StreamInv
<1>8. CASE HaltAll
  <2>1. /\ phase' = "halt" /\ Broadcast(Packet("HALT")) /\ UNCHANGED <<player_status, dealer_player>>
    BY <1>8 DEF HaltAll, Halt
  <2>2. Packet("HALT") \in Packets /\ Packet("HALT").type = "HALT"
    BY DEF Packet, Packets
  <2>3. /\ toClient' \in [Conns -> Seq(Packets)]
        /\ \A p \in Seats : player_status[p] = "LEFT" /\ sockets[p] \in Conns
              => toClient'[sockets[p]] = toClient[sockets[p]]
    BY <2>1, <2>2, BroadcastReaches DEF ServingInv, StreamInv
  <2>4. QED
    BY <1>2, <2>1, <2>3 DEF StreamInv
<1>9. CASE StartHand
  <2>1. player_status' = player_status
    BY <1>9 DEF StartHand
  <2>2. QED
    BY <1>2, <1>9, <2>1, StartSends
<1>10. CASE BettingLoop
  BY <1>2, <1>10, BettingSends
<1>11. ASSUME NEW c \in Conns, ClientActs(c)
       PROVE  StreamInv' /\ LeftStays
  <2>1. UNCHANGED tableVars
    BY <1>11 DEF ClientActs
  <2>2. PICK rest \in Seq(Packets) :
           toClient' = [toClient EXCEPT ![c] = rest] /\ Len(rest) <= Len(toClient[c])
    <3>1. CASE toClient' = toClient
      BY <1>1, <3>1 DEF StreamInv
    <3>2. CASE toClient[c] # <<>> /\ toClient' = [toClient EXCEPT ![c] = Tail(toClient[c])]
      <4>1. Tail(toClient[c]) \in Seq(Packets) /\ Len(Tail(toClient[c])) <= Len(toClient[c])
        BY <1>1, <3>2
      <4>2. QED
        BY <3>2, <4>1
    <3>3. CASE toClient' = [toClient EXCEPT ![c] = <<>>]
      <4>1. <<>> \in Seq(Packets) /\ Len(<<>>) <= Len(toClient[c])
        BY <1>1
      <4>2. QED
        BY <3>3, <4>1
    <3>4. QED
      BY <1>11, <3>1, <3>2, <3>3 DEF ClientActs
  <2>3. toClient' \in [Conns -> Seq(Packets)]
    BY <2>2 DEF StreamInv
  <2>4. \A d \in Conns : Len(toClient'[d]) <= Len(toClient[d])
    BY <1>1, <2>2 DEF StreamInv
  <2>5. QED
    BY <2>1, <2>3, <2>4 DEF StreamInv, LeftStays, NonLeft, SeatsThat, tableVars
<1>12. ASSUME NEW c \in Conns, Connect(c)
       PROVE  StreamInv' /\ LeftStays
  BY <1>3, <1>12 DEF Connect, streamVars
<1>13. CASE Listen \/ Select \/ SkipLeft \/ UNCHANGED serverVars
  BY <1>3, <1>13 DEF Listen, Select, SkipLeft, serverVars, netVars, streamVars
<1>14. QED
  BY <1>4, <1>5, <1>6, <1>7, <1>8, <1>9, <1>10, <1>11, <1>12, <1>13
  DEF NetNext, ServerNext

-----------------------------------------------------------------------------
(* The order of what is sent *)

\* In a stream of packets two ENDs are a hand apart, and HALT is the last.
WholeHands(s) ==
    /\ \A m, n \in 1 .. Len(s) :
          s[m].type = "END" /\ s[n].type = "END" /\ m < n => n - m >= 5
    /\ \A n \in 1 .. Len(s) : s[n].type = "HALT" => n = Len(s)
NoHalt(s)      == \A n \in 1 .. Len(s) : s[n].type # "HALT"
SinceEnd(s, k) == \A n \in 1 .. Len(s) : s[n].type = "END" => Len(s) - n >= k
AtEnd(s)       == Len(s) > 0 => s[Len(s)].type = "END"

\* Reading the first packet spoils none of this, nor does losing all of them.
LEMMA ReadingKeepsOrder ==
    ASSUME NEW s \in Seq(Packets), s # <<>>
    PROVE  /\ WholeHands(s) => WholeHands(Tail(s))
           /\ NoHalt(s) => NoHalt(Tail(s))
           /\ \A k \in Nat : SinceEnd(s, k) => SinceEnd(Tail(s), k)
           /\ AtEnd(s) => AtEnd(Tail(s))
<1> DEFINE t == Tail(s)
<1>1. /\ Len(s) \in Nat /\ Len(s) > 0 /\ Len(t) = Len(s) - 1
      /\ \A n \in 1 .. Len(t) : n + 1 \in 1 .. Len(s) /\ t[n] = s[n + 1]
  OBVIOUS
<1> HIDE DEF t
<1>2. WholeHands(s) => WholeHands(t)
  <2>1. SUFFICES ASSUME WholeHands(s) PROVE WholeHands(t)
    OBVIOUS
  <2>2. ASSUME NEW m \in 1 .. Len(t), NEW n \in 1 .. Len(t),
               t[m].type = "END", t[n].type = "END", m < n
        PROVE  n - m >= 5
    <3>1. /\ m + 1 \in 1 .. Len(s) /\ t[m] = s[m + 1]
          /\ n + 1 \in 1 .. Len(s) /\ t[n] = s[n + 1]
      BY <1>1
    <3>2. m + 1 < n + 1
      BY <2>2
    <3>3. (n + 1) - (m + 1) >= 5
      BY <2>1, <2>2, <3>1, <3>2 DEF WholeHands
    <3>4. QED
      BY <3>3
  <2>3. ASSUME NEW n \in 1 .. Len(t), t[n].type = "HALT" PROVE n = Len(t)
    <3>1. n + 1 \in 1 .. Len(s) /\ s[n + 1].type = "HALT"
      BY <1>1, <2>3
    <3>2. n + 1 = Len(s)
      BY <2>1, <3>1 DEF WholeHands
    <3>3. QED
      BY <1>1, <3>2
  <2>4. QED
    BY <2>2, <2>3 DEF WholeHands
<1>3. NoHalt(s) => NoHalt(t)
  BY <1>1 DEF NoHalt
<1>4. ASSUME NEW k \in Nat, SinceEnd(s, k) PROVE SinceEnd(t, k)
  <2>1. SUFFICES ASSUME NEW n \in 1 .. Len(t), t[n].type = "END" PROVE Len(t) - n >= k
    BY DEF SinceEnd
  <2>2. Len(s) - (n + 1) >= k
    BY <1>1, <1>4, <2>1 DEF SinceEnd
  <2>3. QED
    BY <1>1, <2>2
<1>5. AtEnd(s) => AtEnd(t)
  BY <1>1 DEF AtEnd
<1>6. QED
  BY <1>2, <1>3, <1>4, <1>5 DEF t

LEMMA NothingIsInOrder ==
    /\ WholeHands(<<>>) /\ NoHalt(<<>>) /\ AtEnd(<<>>)
    /\ \A k \in Nat : SinceEnd(<<>>, k)
BY DEF WholeHands, NoHalt, AtEnd, SinceEnd

\* One more packet, while no HALT was sent.
LEMMA SendingKeepsOrder ==
    ASSUME NEW s \in Seq(Packets), NEW packet \in Packets, WholeHands(s), NoHalt(s),
           packet.type = "END" => SinceEnd(s, 4)
    PROVE  /\ WholeHands(Append(s, packet))
           /\ packet.type # "HALT" => NoHalt(Append(s, packet))
           /\ packet.type = "END" => AtEnd(Append(s, packet))
           /\ \A k \in Nat : packet.type # "END" /\ SinceEnd(s, k)
                 => SinceEnd(Append(s, packet), k + 1)
           /\ packet.type # "END" /\ AtEnd(s) => SinceEnd(Append(s, packet), 1)
<1> DEFINE t == Append(s, packet)
<1>1. /\ Len(s) \in Nat /\ Len(t) = Len(s) + 1 /\ t[Len(t)] = packet
      /\ \A n \in 1 .. Len(t) :
            (n \in 1 .. Len(s) /\ t[n] = s[n]) \/ (n = Len(t) /\ t[n] = packet)
  OBVIOUS
<1> HIDE DEF t
<1>2. WholeHands(t)
  <2>1. ASSUME NEW m \in 1 .. Len(t), NEW n \in 1 .. Len(t),
               t[m].type = "END", t[n].type = "END", m < n
        PROVE  n - m >= 5
    <3>1. m \in 1 .. Len(s) /\ t[m] = s[m]
      BY <1>1, <2>1
    <3>2. CASE n \in 1 .. Len(s) /\ t[n] = s[n]
      BY <2>1, <3>1, <3>2 DEF WholeHands
    <3>3. CASE n = Len(t) /\ t[n] = packet
      <4>1. Len(s) - m >= 4
        BY <2>1, <3>1, <3>3 DEF SinceEnd
      <4>2. QED
        BY <1>1, <3>1, <3>3, <4>1
    <3>4. QED
      BY <1>1, <3>2, <3>3
  <2>2. ASSUME NEW n \in 1 .. Len(t), t[n].type = "HALT" PROVE n = Len(t)
    BY <1>1, <2>2 DEF NoHalt
  <2>3. QED
    BY <2>1, <2>2 DEF WholeHands
<1>3. packet.type # "HALT" => NoHalt(t)
  BY <1>1 DEF NoHalt
<1>4. packet.type = "END" => AtEnd(t)
  BY <1>1 DEF AtEnd
<1>5. ASSUME NEW k \in Nat, packet.type # "END", SinceEnd(s, k) PROVE SinceEnd(t, k + 1)
  <2>1. SUFFICES ASSUME NEW n \in 1 .. Len(t), t[n].type = "END" PROVE Len(t) - n >= k + 1
    BY DEF SinceEnd
  <2>2. n \in 1 .. Len(s) /\ s[n].type = "END"
    BY <1>1, <1>5, <2>1
  <2>3. Len(s) - n >= k
    BY <1>5, <2>2 DEF SinceEnd
  <2>4. QED
    BY <1>1, <2>3
<1>6. ASSUME packet.type # "END", AtEnd(s) PROVE SinceEnd(t, 1)
  <2>1. SUFFICES ASSUME NEW n \in 1 .. Len(t), t[n].type = "END" PROVE Len(t) - n >= 1
    BY DEF SinceEnd
  <2>2. QED
    BY <1>1, <1>6, <2>1
<1>7. QED
  BY <1>2, <1>3, <1>4, <1>5, <1>6 DEF t

\* The INFOs of a hand that have been sent on a street.
Infos == [PREFLOP |-> 1, FLOP |-> 2, TURN |-> 3, RIVER |-> 4]

Running     == server \in {"starting", "up"}
Playing(c)  == \E p \in NonLeft : sockets[p] = c

\* While the server runs the stream of every client that is not in a hand stops at
\* an END, and that of a client in a hand has an INFO for every street since. Who
\* has closed has no stream, and only its connection can be reset.
OrderInv ==
    /\ phase = "ready" => round_stage = "PREFLOP"
    /\ phase = "hand" => round_stage \in {"PREFLOP", "FLOP", "TURN", "RIVER"}
    /\ reset \in [Conns -> BOOLEAN]
    /\ \A c \in Conns :
          /\ reset[c] => Gone(c)
          /\ Gone(c) => toClient[c] = <<>>
          /\ WholeHands(toClient[c])
          /\ Running => NoHalt(toClient[c])
          /\ Running /\ ~(phase = "hand" /\ Playing(c)) => AtEnd(toClient[c])
          /\ Running /\ phase = "hand" /\ Playing(c) =>
                SinceEnd(toClient[c], Infos[round_stage])
    /\ server = "killed" => \E p \in NonLeft : sockets[p] \in Conns /\ reset[sockets[p]]

\* A broadcast reaches everybody who is served and has not closed, or the server
\* is killed in it by one who has.
LEMMA BroadcastAdds ==
    ASSUME ConnectionsInPlace, toClient \in [Conns -> Seq(Packets)], OrderInv,
           \A p \in NonLeft : sockets[p] \in Conns,
           NEW packet \in Packets, Broadcast(packet)
    PROVE  /\ reset' \in [Conns -> BOOLEAN]
           /\ \A c \in Conns :
                 /\ reset'[c] => Gone(c)
                 /\ reset[c] => reset'[c]
                 /\ reset'[c] => reset[c] \/ Playing(c)
                 /\ Gone(c) \/ ~Playing(c) => toClient'[c] = toClient[c]
                 /\ Broken = {} /\ ~Gone(c) /\ Playing(c) =>
                       toClient'[c] = Append(toClient[c], packet)
                 /\ \/ toClient'[c] = toClient[c]
                    \/ toClient'[c] = Append(toClient[c], packet)
           /\ Broken # {} => \E p \in NonLeft : sockets[p] \in Conns /\ reset'[sockets[p]]
<1> DEFINE reached == {q \in NonLeft : \A r \in NonLeft \cap Broken : q < r}
           packets == [p \in Seats |-> <<packet>>]
<1>1. /\ toClient' = [c \in Conns |->
            IF ~Gone(c) /\ \E p \in reached : sockets[p] = c
            THEN toClient[c] \o packets[Port[c]]
            ELSE toClient[c]]
      /\ \E answered \in SUBSET {c \in Conns : Gone(c) /\ \E p \in reached : sockets[p] = c} :
            reset' = [c \in Conns |-> reset[c] \/ c \in answered]
  BY Zenon DEF Broadcast, Send
<1>2. \A c \in Conns : packets[Port[c]] = <<packet>>
  BY PortAssumption
<1>3. reached \subseteq NonLeft /\ (Broken = {} => reached = NonLeft)
  OBVIOUS
<1> HIDE DEF reached, packets
<1>4. \A c \in Conns : toClient[c] \o packets[Port[c]] = Append(toClient[c], packet)
  BY <1>2, AppendIsConcat
<1>5. \A c \in Conns : toClient'[c] = IF ~Gone(c) /\ \E p \in reached : sockets[p] = c
                                      THEN Append(toClient[c], packet)
                                      ELSE toClient[c]
  BY <1>1, <1>4
<1>6. /\ reset' \in [Conns -> BOOLEAN]
      /\ \A c \in Conns : (reset'[c] => Gone(c)) /\ (reset[c] => reset'[c])
      /\ \A c \in Conns : reset'[c] => reset[c] \/ Playing(c)
  <2>1. PICK answered \in SUBSET {c \in Conns : Gone(c) /\ \E p \in reached : sockets[p] = c} :
           reset' = [c \in Conns |-> reset[c] \/ c \in answered]
    BY <1>1
  <2>2. reset' \in [Conns -> BOOLEAN]
    BY <2>1
  <2>3. ASSUME NEW c \in Conns, reset'[c] PROVE Gone(c)
    <3>1. reset[c] \/ c \in answered
      BY <2>1, <2>3
    <3>2. QED
      BY <3>1 DEF OrderInv
  <2>4. \A c \in Conns : (reset[c] => reset'[c]) /\ (reset'[c] => reset[c] \/ Playing(c))
    BY <1>3, <2>1 DEF Playing
  <2>5. QED
    BY <2>2, <2>3, <2>4
<1>7. ASSUME Broken # {}
      PROVE  \E p \in NonLeft : sockets[p] \in Conns /\ reset'[sockets[p]]
  BY <1>6, <1>7 DEF Broken
<1>8. QED
  BY <1>3, <1>5, <1>6, <1>7 DEF Playing

\* A step that sends nothing: between hands it may do what it likes to the seats.
LEMMA SilenceKeepsOrder ==
    ASSUME OrderInv, UNCHANGED <<toClient, reset>>,
           \A c \in Conns : Gone(c)' <=> Gone(c),
           Running' => Running,
           \/ UNCHANGED <<player_status, sockets, phase, round_stage>>
           \/ /\ phase # "hand" /\ phase' # "hand"
              /\ phase' = "ready" => round_stage' = "PREFLOP"
              /\ server' # "killed",
           server' = "killed" => server = "killed"
    PROVE  OrderInv'
<1>1. CASE UNCHANGED <<player_status, sockets, phase, round_stage>>
  BY <1>1 DEF OrderInv, Playing, NonLeft, SeatsThat
<1>2. CASE /\ phase # "hand" /\ phase' # "hand"
           /\ phase' = "ready" => round_stage' = "PREFLOP"
           /\ server' # "killed"
  BY <1>2 DEF OrderInv
<1>3. QED
  BY <1>1, <1>2

LEMMA ClientKeepsOrder ==
    ASSUME ConnectionsInPlace, StreamInv, OrderInv, NEW c \in Conns, ClientActs(c)
    PROVE  OrderInv'
<1>1. /\ UNCHANGED <<tableVars, server, sockets, reset>>
      /\ clientEnd[c] = "open"
      /\ toClient[c] \in Seq(Packets)
  BY DEF ClientActs, StreamInv
<1>2. /\ \A d \in Conns : d # c => clientEnd'[d] = clientEnd[d] /\ toClient'[d] = toClient[d]
      /\ \/ clientEnd' = clientEnd /\ toClient'[c] = toClient[c]
         \/ /\ clientEnd' = clientEnd
            /\ toClient[c] # <<>> /\ toClient'[c] = Tail(toClient[c])
         \/ Gone(c)' /\ toClient'[c] = <<>>
  BY DEF ClientActs, ConnectionsInPlace, StreamInv, Gone
<1>3. /\ WholeHands(toClient[c]) => WholeHands(toClient'[c])
      /\ NoHalt(toClient[c]) => NoHalt(toClient'[c])
      /\ \A k \in Nat : SinceEnd(toClient[c], k) => SinceEnd(toClient'[c], k)
      /\ AtEnd(toClient[c]) => AtEnd(toClient'[c])
      /\ Gone(c)' => toClient'[c] = <<>>
  BY <1>1, <1>2, ReadingKeepsOrder, NothingIsInOrder DEF Gone
<1>4. /\ \A d \in Conns : Gone(d) => Gone(d)'
      /\ \A d \in Conns : Playing(d)' <=> Playing(d)
      /\ UNCHANGED <<phase, round_stage, player_status>>
      /\ Running' <=> Running
      /\ NonLeft' = NonLeft
  BY <1>1, <1>2 DEF Gone, Playing, Running, NonLeft, SeatsThat, tableVars
<1>5. phase = "hand" => Infos[round_stage] \in Nat
  BY DEF OrderInv, Infos
<1>6. ASSUME NEW d \in Conns
      PROVE  /\ reset'[d] => Gone(d)'
             /\ Gone(d)' => toClient'[d] = <<>>
             /\ WholeHands(toClient'[d])
             /\ Running' => NoHalt(toClient'[d])
             /\ Running' /\ ~(phase' = "hand" /\ Playing(d)') => AtEnd(toClient'[d])
             /\ Running' /\ phase' = "hand" /\ Playing(d)' =>
                   SinceEnd(toClient'[d], Infos[round_stage])
  <2>1. CASE d = c
    BY <1>1, <1>3, <1>4, <1>5, <2>1 DEF OrderInv
  <2>2. CASE d # c
    BY <1>1, <1>2, <1>4, <2>2 DEF OrderInv, Gone
  <2>3. QED
    BY <2>1, <2>2
<1>7. server' = "killed" => (\E p \in NonLeft : sockets[p] \in Conns /\ reset[sockets[p]])'
  BY <1>1, <1>4 DEF OrderInv
<1>8. QED
  BY <1>1, <1>4, <1>6, <1>7 DEF OrderInv

\* What a broadcast during or after a hand leaves, if the streams allow it.
LEMMA BroadcastKeepsOrder ==
    ASSUME ConnectionsInPlace, StreamInv, OrderInv, server = "up",
           \A p \in NonLeft : sockets[p] \in Conns,
           NEW packet \in Packets, Broadcast(packet),
           UNCHANGED <<player_status, sockets, clientEnd>>,
           server' # "up" \/ Broken = {},
           server' = "killed" => Broken # {},
           server' \in {"up", "exited", "killed"},
           packet.type = "HALT" => server' # "up",
           phase' = "hand" => packet.type = "INFO",
           phase' = "hand" /\ phase # "hand" => round_stage' = "PREFLOP",
           phase' = "hand" /\ phase = "hand" => Infos[round_stage'] = Infos[round_stage] + 1,
           phase' = "hand" => round_stage' \in {"PREFLOP", "FLOP", "TURN", "RIVER"},
           phase' # "hand" => packet.type # "INFO",
           phase' # "ready",
           packet.type = "END" => phase = "hand" /\ round_stage = "RIVER"
    PROVE  OrderInv'
<1>1. /\ reset' \in [Conns -> BOOLEAN]
      /\ \A c \in Conns :
            /\ reset'[c] => Gone(c)
            /\ Gone(c) \/ ~Playing(c) => toClient'[c] = toClient[c]
            /\ Broken = {} /\ ~Gone(c) /\ Playing(c) =>
                  toClient'[c] = Append(toClient[c], packet)
            /\ \/ toClient'[c] = toClient[c]
               \/ Playing(c) /\ toClient'[c] = Append(toClient[c], packet)
      /\ Broken # {} => \E p \in NonLeft : sockets[p] \in Conns /\ reset'[sockets[p]]
  BY BroadcastAdds DEF StreamInv
<1>2. /\ NonLeft' = NonLeft
      /\ \A c \in Conns : (Gone(c)' <=> Gone(c)) /\ (Playing(c)' <=> Playing(c))
      /\ Running /\ (Running' <=> server' = "up")
  BY DEF NonLeft, SeatsThat, Gone, Playing, Running
<1>3. packet.type \in {"INFO", "END", "HALT"}
  BY DEF Packets
<1>4. ASSUME NEW c \in Conns
      PROVE  /\ WholeHands(toClient[c]) /\ NoHalt(toClient[c])
             /\ toClient[c] \in Seq(Packets)
             /\ Gone(c) => toClient[c] = <<>>
             /\ ~(phase = "hand" /\ Playing(c)) => AtEnd(toClient[c])
             /\ phase = "hand" /\ Playing(c) => SinceEnd(toClient[c], Infos[round_stage])
  BY <1>2 DEF OrderInv, StreamInv
<1>5. phase = "hand" => Infos[round_stage] \in Nat
  BY DEF OrderInv, Infos
<1>6. Infos["PREFLOP"] = 1 /\ Infos["RIVER"] = 4
  BY DEF Infos
<1> HIDE DEF Infos
<1>7. ASSUME NEW c \in Conns
      PROVE  /\ WholeHands(toClient'[c])
             /\ Running' => NoHalt(toClient'[c])
             /\ Running' /\ ~(phase' = "hand" /\ Playing(c)') => AtEnd(toClient'[c])
             /\ Running' /\ phase' = "hand" /\ Playing(c)' =>
                   SinceEnd(toClient'[c], Infos[round_stage'])
  <2> DEFINE s == toClient[c]
             t == toClient'[c]
  <2>1. CASE Playing(c) /\ t = Append(s, packet)
    <3>1. packet.type = "END" => SinceEnd(s, 4)
      BY <1>4, <1>6, <2>1
    <3>2. /\ WholeHands(t)
          /\ packet.type # "HALT" => NoHalt(t)
          /\ packet.type = "END" => AtEnd(t)
          /\ \A k \in Nat : packet.type # "END" /\ SinceEnd(s, k) => SinceEnd(t, k + 1)
          /\ packet.type # "END" /\ AtEnd(s) => SinceEnd(t, 1)
      BY <1>3, <1>4, <2>1, <3>1, SendingKeepsOrder
    <3>3. Running' => NoHalt(t)
      BY <1>2, <3>2
    <3>4. Running' /\ ~(phase' = "hand" /\ Playing(c)') => AtEnd(t)
      BY <1>2, <1>3, <2>1, <3>2
    <3>5. ASSUME Running', phase' = "hand", Playing(c)'
          PROVE  SinceEnd(t, Infos[round_stage'])
      <4>1. CASE phase = "hand"
        BY <1>2, <1>4, <1>5, <2>1, <3>2, <3>5, <4>1
      <4>2. CASE phase # "hand"
        BY <1>4, <1>6, <3>2, <3>5, <4>2
      <4>3. QED
        BY <4>1, <4>2
    <3>6. QED
      BY <3>2, <3>3, <3>4, <3>5
  <2>2. CASE t = s /\ (Gone(c) \/ ~Playing(c))
    <3>1. CASE Gone(c)
      <4>1. t = <<>>
        BY <1>4, <2>2, <3>1
      <4>2. phase' = "hand" => Infos[round_stage'] \in Nat
        BY <1>5, <1>6
      <4>3. QED
        BY <4>1, <4>2, NothingIsInOrder
    <3>2. CASE ~Playing(c)
      BY <1>2, <1>4, <2>2, <3>2
    <3>3. QED
      BY <2>2, <3>1, <3>2
  <2>3. CASE t = s /\ Broken # {}
    BY <1>2, <1>4, <2>3
  <2>4. QED
    BY <1>1, <2>1, <2>2, <2>3
<1>8. \A c \in Conns : (reset[c] => Gone(c))' /\ (Gone(c) => toClient[c] = <<>>)'
  BY <1>1, <1>2, <1>4
<1>9. server' = "killed" => (\E p \in NonLeft : sockets[p] \in Conns /\ reset[sockets[p]])'
  BY <1>1, <1>2
<1>10. QED
  BY <1>1, <1>7, <1>8, <1>9 DEF OrderInv

\* Who has not left has a socket when anything is sent to everybody.
LEMMA SendersHaveSockets ==
    ASSUME ServingInv,
           phase = "hand" \/ (phase = "ready" /\ asking = MAX_PLAYERS)
    PROVE  \A p \in NonLeft : sockets[p] \in Conns
<1>1. TAKE p \in NonLeft
<1>2. p \in Seats /\ player_status[p] # "LEFT" /\ p < MAX_PLAYERS
  BY SeatsAssumption DEF NonLeft, SeatsThat, Seats
<1>3. player_status[p] = "ACTIVE"
  BY <1>2 DEF ServingInv, PlayersServed
<1>4. QED
  BY <1>2, <1>3 DEF ServingInv, PlayersServed, Served, ConnectionsInPlace

LEMMA OrderKeeps ==
    ASSUME ServingInv, StreamInv, OrderInv, [NetNext]_serverVars
    PROVE  OrderInv'
<1>1. ConnectionsInPlace
  BY DEF ServingInv
<1>2. ASSUME NEW c \in Conns, ClientActs(c) PROVE OrderInv'
  BY <1>1, <1>2, ClientKeepsOrder
<1>3. ASSUME NEW c \in Conns, Connect(c) PROVE OrderInv'
  <2>1. UNCHANGED <<tableVars, server, sockets, toClient, reset>>
    BY <1>3 DEF Connect, streamVars
  <2>2. \A d \in Conns : Gone(d)' <=> Gone(d)
    BY <1>1, <1>3 DEF Connect, Gone, ConnectionsInPlace
  <2>3. QED
    BY <2>1, <2>2, SilenceKeepsOrder DEF Running, tableVars
<1>4. CASE Listen \/ Select \/ SkipLeft \/ UNCHANGED serverVars
  <2>1. UNCHANGED <<tableVars, sockets, toClient, reset, clientEnd>>
    BY <1>4 DEF Listen, Select, SkipLeft, serverVars, netVars, streamVars
  <2>2. server' = server \/ (server = "starting" /\ server' = "up")
    BY <1>4 DEF Listen, Select, SkipLeft, serverVars
  <2>3. QED
    BY <2>1, <2>2, SilenceKeepsOrder DEF Running, Gone, tableVars
<1>5. ASSUME server = "up",
             (\E i \in Seats : Accept(i)) \/ AllJoined \/ BeginHand \/ AskReady
      PROVE  OrderInv'
  <2>1. /\ UNCHANGED <<server, toClient, reset, clientEnd>>
        /\ phase # "hand" /\ phase' # "hand"
        /\ phase' = "ready" => round_stage' = "PREFLOP"
    BY <1>5 DEF Accept, AllJoined, BeginHand, AskReady, Join, JoinDone, ResetGameState, Leave,
                OrderInv, tableVars, netVars, streamVars
  <2>2. QED
    BY <1>5, <2>1, SilenceKeepsOrder DEF Running, Gone
<1>6. CASE server = "up" /\ HaltAll
  <2>1. /\ Broadcast(Packet("HALT")) /\ phase' = "halt"
        /\ UNCHANGED <<player_status, sockets, clientEnd>>
        /\ server' = IF Broken = {} THEN "exited" ELSE "killed"
        /\ phase = "ready" /\ asking = MAX_PLAYERS
    BY <1>6 DEF HaltAll, Halt
  <2>2. Packet("HALT") \in Packets /\ Packet("HALT").type = "HALT"
    BY DEF Packet, Packets
  <2>3. QED
    BY <1>1, <1>6, <2>1, <2>2, BroadcastKeepsOrder, SendersHaveSockets
<1>7. CASE server = "up" /\ StartHand
  <2>1. phase = "ready" /\ asking = MAX_PLAYERS /\ Active # {}
    BY <1>7, StartersPlay DEF StartHand, ServingInv
  <2>2. /\ Broadcast(Packet("INFO")) /\ Survives(NonLeft) /\ phase' = "hand"
        /\ UNCHANGED <<player_status, sockets, clientEnd, round_stage, highest_bet>>
        /\ current_player' = NextIn(dealer_player, Active)
    BY <1>7, <2>1 DEF StartHand
  <2>3. current_player' \in Seats
    BY <2>1, <2>2, TurnGoesToASeat DEF StreamInv
  <2>4. Packet("INFO") \in Packets /\ Packet("INFO").type = "INFO"
    BY <2>1, <2>2, <2>3, SeatsAssumption DEF Packet, Packets, Seats, ServingInv, ServerInv, NoBets
  <2>5. NonLeft \cap Broken = Broken
    BY DEF Broken
  <2>6. round_stage' = "PREFLOP"
    BY <2>1, <2>2 DEF OrderInv
  <2>7. QED
    BY <1>1, <1>7, <2>1, <2>2, <2>4, <2>5, <2>6, BroadcastKeepsOrder, SendersHaveSockets
    DEF Survives
<1>8. CASE server = "up" /\ BettingLoop
  <2>1. phase = "hand" /\ CheckBettingEnd /\ Active # {} /\ UNCHANGED <<sockets, clientEnd>>
    BY <1>8, NoBetsEndBetting DEF BettingLoop, ServingInv, ServerInv, SomebodyPlays
  <2>2. NonLeft \cap Broken = Broken
    BY DEF Broken
  <2>3. CASE Showdown /\ round_stage = "RIVER"
    <3>1. Survives(NonLeft) /\ phase' = "reset" /\ player_status' = player_status
      BY <2>3 DEF Showdown
    <3>2. PICK winner : /\ EndPacket(winner) \in Packets /\ EndPacket(winner).type = "END"
                        /\ Broadcast(EndPacket(winner))
      BY <2>1, <2>3, ShowdownNamesTheWinner
    <3>3. server' = IF Broken = {} THEN "up" ELSE "killed"
      BY <2>2, <3>1 DEF Survives
    <3>4. \A p \in NonLeft : sockets[p] \in Conns
      BY <2>1, SendersHaveSockets
    <3>5. QED
      BY <1>1, <1>8, <2>1, <2>3, <3>1, <3>2, <3>3, <3>4, BroadcastKeepsOrder
  <2>4. CASE NextStreet /\ round_stage # "RIVER"
    <3>1. /\ Broadcast(Packet("INFO")) /\ Survives(NonLeft) /\ phase' = "hand"
          /\ player_status' = player_status /\ highest_bet' = 0
          /\ current_player' = NextIn(dealer_player, Active)
          /\ round_stage' = NextStage[round_stage]
      BY <2>1, <2>4 DEF NextStreet, ServerCommunity
    <3>2. round_stage \in {"PREFLOP", "FLOP", "TURN"}
      BY <2>1, <2>4 DEF OrderInv
    <3>3. /\ round_stage' \in {"FLOP", "TURN", "RIVER"}
          /\ Infos[round_stage'] = Infos[round_stage] + 1
      BY <3>1, <3>2 DEF NextStage, Infos
    <3>4. current_player' \in Seats
      BY <2>1, <3>1, TurnGoesToASeat DEF StreamInv
    <3>5. Packet("INFO") \in Packets /\ Packet("INFO").type = "INFO"
      BY <3>1, <3>4, SeatsAssumption DEF Packet, Packets, Seats
    <3>6. server' = IF Broken = {} THEN "up" ELSE "killed"
      BY <2>2, <3>1 DEF Survives
    <3>7. \A p \in NonLeft : sockets[p] \in Conns
      BY <2>1, SendersHaveSockets
    <3>8. QED
      BY <1>1, <1>8, <2>1, <3>1, <3>3, <3>5, <3>6, <3>7, BroadcastKeepsOrder
  <2>5. QED
    BY <1>8, <2>1, <2>3, <2>4 DEF BettingLoop
<1>9. QED
  BY <1>2, <1>3, <1>4, <1>5, <1>6, <1>7, <1>8 DEF NetNext, ServerNext

LEMMA OrderInvHoldsInitially == ServerInit => OrderInv
<1> SUFFICES ASSUME ServerInit PROVE OrderInv
  OBVIOUS
<1>1. /\ phase = "join" /\ server = "starting" /\ reset = [c \in Conns |-> FALSE]
      /\ \A c \in Conns : toClient[c] = <<>>
  BY DEF ServerInit, Init
<1>2. QED
  BY <1>1, NothingIsInOrder DEF OrderInv

=============================================================================

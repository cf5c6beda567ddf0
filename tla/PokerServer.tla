----------------------------- MODULE PokerServer -----------------------------
(***************************************************************************)
(* main() of poker_server.c: the join loop, the ready loop, the betting    *)
(* loop and the showdown over the table of PokerTable, with the sockets it *)
(* reads from and writes to.  The server is one thread, every recv blocks; *)
(* an action is what main() does from one place where it can block to the  *)
(* next.  A connection is a member of Conns; it outlives nothing and is    *)
(* never reused, so that two clients that take the same seat are two       *)
(* connections.                                                            *)
(*                                                                         *)
(* Sockets are modelled by what the code can see of them.  A packet to a   *)
(* peer that has closed is lost, and the connection may be reset by the    *)
(* time of the next packet to that peer, which then kills the sender       *)
(* (SIGPIPE, which nothing in the program handles).  A recv returns what   *)
(* is queued first and 0 or an error after that.                           *)
(***************************************************************************)
EXTENDS PokerTable, Sequences

CONSTANTS
    Conns,      \* connections that clients may open
    Port,       \* the seat whose port a connection is made to
    NoConn      \* game.sockets[] of a seat nobody took: 0, not a socket

ASSUME ConnsAssumption == IsFiniteSet(Conns) /\ NoConn \notin Conns
ASSUME PortAssumption  == Port \in [Conns -> Seats]

VARIABLES
    server,         \* "starting", "up", "exited" or "killed"
    player_count,   \* JOINs accepted
    readset,        \* ports select found ready that are not served yet
    asking,         \* the seat the ready loop has come to
    readyCount,     \* READYs of this hand
    sockets,        \* game.sockets: the connection of each seat
    backlog,        \* connections at each port that are not accepted yet
    clientEnd,      \* "idle", "open" or "closed"
    serverEnd,      \* "none", "open" or "closed"
    toServer,       \* packets on their way to the server
    toClient,       \* packets on their way to the client
    reset           \* whether the next packet to the client kills the server

joinVars   == <<player_count, readset, backlog>>
readyVars  == <<asking, readyCount>>
streamVars == <<toServer, toClient, reset>>
netVars    == <<sockets, clientEnd, serverEnd, streamVars>>
serverVars == <<tableVars, server, joinVars, readyVars, netVars>>

ServerInit ==
    /\ Init
    /\ server = "starting"
    /\ player_count = 0
    /\ readset = {}
    /\ asking = 0
    /\ readyCount = 0
    /\ sockets = [p \in Seats |-> NoConn]
    /\ backlog = [p \in Seats |-> <<>>]
    /\ clientEnd = [c \in Conns |-> "idle"]
    /\ serverEnd = [c \in Conns |-> "none"]
    /\ toServer = [c \in Conns |-> <<>>]
    /\ toClient = [c \in Conns |-> <<>>]
    /\ reset = [c \in Conns |-> FALSE]

-----------------------------------------------------------------------------
(* Sockets *)

Gone(c)     == clientEnd[c] = "closed"
Readable(c) == toServer[c] # <<>> \/ Gone(c)

\* recv(c) returns a packet.
Receives(c, type) ==
    /\ toServer[c] # <<>>
    /\ Head(toServer[c]).type = type
Consume(c) == toServer' = [toServer EXCEPT ![c] = Tail(@)]

\* recv(c) returns 0 or -1.
ReceivesNothing(c) == c = NoConn \/ (toServer[c] = <<>> /\ Gone(c))

\* The seats that are still served but whose connection was reset.
Broken == {p \in NonLeft : reset[sockets[p]]}

\* send() to each of the seats in ascending order.  The seats below the first
\* broken one get their packets, then the server dies.  Each packet to a peer
\* that has closed is lost and may bring a reset.
Send(seats, packets) ==
    LET reached == {p \in seats : \A q \in seats \cap Broken : p < q}
    IN  /\ toClient' = [c \in Conns |->
              IF ~Gone(c) /\ \E p \in reached : sockets[p] = c
              THEN toClient[c] \o packets[Port[c]]
              ELSE toClient[c]]
        /\ \E answered \in SUBSET {c \in Conns : Gone(c) /\ \E p \in reached : sockets[p] = c} :
              reset' = [c \in Conns |-> reset[c] \/ c \in answered]

\* Whether the process survives the loop: SIGPIPE is not handled.
Survives(seats) == server' = IF seats \cap Broken = {} THEN "up" ELSE "killed"

\* Mutant: INFO is put together before the turn has moved.
PacketBeforeTheScan(type) ==
    IF type = "INFO" THEN [type |-> type, turn |-> current_player, bet |-> highest_bet]
    ELSE [type |-> type, turn |-> -1, bet |-> 0]

\* A packet to a client: of its contents the clients act on player_turn and, the
\* terminal client, on bet_size, in an INFO, and on the winner in an END.
Packet(type) ==
    IF type = "INFO" THEN [type |-> type, turn |-> current_player', bet |-> highest_bet']
    ELSE [type |-> type, turn |-> -1, bet |-> 0]

EndPacket(winner) == [type |-> "END", turn |-> winner, bet |-> 0]

\* Mutant: the seats that left are not skipped.
BroadcastToAll(packet) == Send(Seats, [p \in Seats |-> <<packet>>])

\* The loops "for p: if(player_status[p] != PLAYER_LEFT) send(...)".
Broadcast(packet) == Send(NonLeft, [p \in Seats |-> <<packet>>])

-----------------------------------------------------------------------------
(* Join loop *)

\* socket, bind and listen for every port: nobody can connect before.
Listen ==
    /\ server = "starting"
    /\ server' = "up"
    /\ UNCHANGED <<tableVars, joinVars, readyVars, netVars>>

\* select() returns the ports where a connection waits.
Select ==
    /\ phase = "join" /\ readset = {}
    /\ player_count < MAX_PLAYERS
    /\ readset' = {i \in Seats : backlog[i] # <<>>}
    /\ readset' # {}
    /\ UNCHANGED <<tableVars, server, player_count, backlog, readyVars, netVars>>

\* accept() on the lowest port of the round, then recv of one packet from that
\* client, however long it takes.  When the client went away without sending
\* one, joinPkt is what the stack holds there: a JOIN or not.
Accept(i) ==
    LET c == Head(backlog[i])
        admits == \/ Receives(c, "JOIN")
                  \/ ReceivesNothing(c)
        refuses == ~Receives(c, "JOIN")
    IN  /\ phase = "join"
        /\ i \in readset /\ \A j \in readset : i <= j
        /\ Readable(c)
        /\ backlog' = [backlog EXCEPT ![i] = Tail(@)]
        /\ readset' = readset \ {i}
        /\ IF toServer[c] # <<>> THEN Consume(c) ELSE UNCHANGED toServer
        /\ \/ /\ admits
              /\ Join(i)
              /\ sockets' = [sockets EXCEPT ![i] = c]
              /\ serverEnd' = [serverEnd EXCEPT ![c] = "open"]
              /\ player_count' = player_count + 1
           \/ /\ refuses
              /\ serverEnd' = [serverEnd EXCEPT ![c] = "closed"]
              /\ UNCHANGED <<tableVars, sockets, player_count>>
        /\ UNCHANGED <<server, readyVars, clientEnd, toClient, reset>>

AllJoined ==
    /\ readset = {} /\ player_count >= MAX_PLAYERS
    /\ JoinDone
    /\ UNCHANGED <<server, joinVars, readyVars, netVars>>

-----------------------------------------------------------------------------
(* Ready loop *)

\* Mutant: the READYs of the last hand count.
BeginHandCountsOn ==
    /\ ResetGameState
    /\ asking' = 0
    /\ UNCHANGED <<readyCount, server, joinVars, netVars>>

BeginHand ==
    /\ ResetGameState
    /\ asking' = 0
    /\ readyCount' = 0
    /\ UNCHANGED <<server, joinVars, netVars>>

\* Mutant: a seat that left counts as ready.
SkipLeftAsReady ==
    /\ phase = "ready" /\ asking \in Seats
    /\ player_status[asking] = "LEFT"
    /\ asking' = asking + 1
    /\ readyCount' = readyCount + 1
    /\ UNCHANGED <<tableVars, server, joinVars, netVars>>

SkipLeft ==
    /\ phase = "ready" /\ asking \in Seats
    /\ player_status[asking] = "LEFT"
    /\ asking' = asking + 1
    /\ UNCHANGED <<tableVars, server, joinVars, readyCount, netVars>>

\* Mutant: a recv of 0 is not looked at, only an error is.
LeavesOnError(c) == c = NoConn \/ Receives(c, "LEAVE")

Leaves(c) == ReceivesNothing(c) \/ Receives(c, "LEAVE")

\* recv from the seat: no answer or LEAVE and it has left, READY and it counts,
\* anything else is dropped and the seat stays.
AskReady ==
    LET c == sockets[asking]
    IN  /\ phase = "ready" /\ asking \in Seats
        /\ player_status[asking] # "LEFT"
        /\ c # NoConn => Readable(c)
        /\ asking' = asking + 1
        /\ IF Leaves(c)
           THEN /\ Leave(asking)
                /\ serverEnd' = IF c = NoConn THEN serverEnd
                                ELSE [serverEnd EXCEPT ![c] = "closed"]
           ELSE UNCHANGED <<tableVars, serverEnd>>
        /\ IF ReceivesNothing(c) THEN UNCHANGED toServer ELSE Consume(c)
        /\ readyCount' = IF c # NoConn /\ Receives(c, "READY") THEN readyCount + 1
                         ELSE readyCount
        /\ UNCHANGED <<server, joinVars, sockets, clientEnd, toClient, reset>>

\* HALT to everybody, close, and the process ends.
HaltAll ==
    /\ asking = MAX_PLAYERS /\ readyCount < 2
    /\ Halt
    /\ Broadcast(Packet("HALT"))
    /\ server' = IF Broken = {} THEN "exited" ELSE "killed"
    /\ UNCHANGED <<joinVars, readyVars, sockets, clientEnd, serverEnd, toServer>>

-----------------------------------------------------------------------------
(* A hand *)

\* Two cards to each ACTIVE seat and the first INFO.  The scan for the seat to
\* act has no way out when nobody is ACTIVE.
StartHand ==
    /\ phase = "ready" /\ asking = MAX_PLAYERS /\ readyCount >= 2
    /\ player_hands' = [p \in Seats |-> IF p \in Active THEN DealtHand(p) ELSE player_hands[p]]
    /\ next_card' = next_card + 2 * Cardinality(Active)
    /\ UNCHANGED <<player_status, player_stacks, current_bets, highest_bet, pot_size,
                   dealer_player, round_stage, community_cards,
                   joinVars, readyVars, sockets, clientEnd, serverEnd, toServer>>
    /\ IF Active = {}
       THEN phase' = "spin" /\ UNCHANGED <<current_player, toClient, reset, server>>
       ELSE /\ phase' = "hand"
            /\ current_player' = NextIn(dealer_player, Active)
            /\ Broadcast(Packet("INFO"))
            /\ Survives(NonLeft)

\* check_betting_end says the street is over: the next cards, the bets cleared
\* and INFO, which is what server_community does but for the INFO.
NextStreet ==
    /\ ServerCommunity
    /\ IF Active = {}
       THEN UNCHANGED <<toClient, reset, server>>
       ELSE Broadcast(Packet("INFO")) /\ Survives(NonLeft)

\* The pot to the winner, END with his seat to everybody, and the button moves.
Showdown ==
    /\ CheckBettingEnd
    /\ \E value \in HandValues :
          LET winner == FindWinner(value)
          IN  /\ player_stacks' = [player_stacks EXCEPT ![winner] = @ + pot_size]
              /\ Broadcast(EndPacket(winner))
    /\ pot_size' = 0
    /\ Survives(NonLeft)
    /\ dealer_player' = NextIn(dealer_player, NonLeft)
    /\ phase' = "reset"
    /\ UNCHANGED <<player_status, current_bets, highest_bet, current_player,
                   round_stage, cardVars>>

\* The connection of the seat to act is gone: the seat is folded and the next
\* ACTIVE one has the turn.  The scan has no way out when there is none.
FoldGone(p) ==
    /\ player_status' = [player_status EXCEPT ![p] = "FOLDED"]
    /\ UNCHANGED <<player_stacks, current_bets, highest_bet, pot_size, dealer_player,
                   round_stage, cardVars>>
    /\ IF Active = {p}
       THEN phase' = "spin" /\ UNCHANGED <<current_player, toClient, reset, server>>
       ELSE /\ current_player' = NextIn(p, Active \ {p})
            /\ Broadcast(Packet("INFO"))
            /\ Survives(NonLeft)
            /\ UNCHANGED phase

\* handle_client_action: INFO to everybody, then ACK to the seat that acted; or
\* only NACK to that seat.
Act(p, in) ==
    IF Accepts(p, in)
    THEN /\ HandleClientAction(p, in)
         /\ Send(NonLeft, [q \in Seats |-> IF q = p /\ Broken = {}
                                           THEN <<Packet("INFO"), Packet("ACK")>>
                                           ELSE <<Packet("INFO")>>])
         /\ Survives(NonLeft)
    ELSE /\ UNCHANGED tableVars
         /\ Send({p}, [q \in Seats |-> <<Packet("NACK")>>])
         /\ Survives({p})

\* recv from the seat whose turn it is, and what follows from it.
AskTurn ==
    LET c == sockets[current_player]
    IN  /\ Readable(c)
        /\ IF ReceivesNothing(c)
           THEN FoldGone(current_player) /\ UNCHANGED toServer
           ELSE Act(current_player, Head(toServer[c])) /\ Consume(c)

\* One round of the betting loop.
BettingLoop ==
    /\ phase = "hand"
    /\ IF ~CheckBettingEnd THEN AskTurn
       ELSE /\ IF round_stage = "RIVER" THEN Showdown ELSE NextStreet
            /\ UNCHANGED toServer
    /\ UNCHANGED <<joinVars, readyVars, sockets, clientEnd, serverEnd>>

ServerNext ==
    \/ Listen
    \/ /\ server = "up"
       /\ \/ Select
          \/ \E i \in Seats : Accept(i)
          \/ AllJoined
          \/ BeginHand
          \/ SkipLeft
          \/ AskReady
          \/ HaltAll
          \/ StartHand
          \/ BettingLoop

-----------------------------------------------------------------------------
(* The clients' side of a connection *)

\* Only a listening server lets a client connect.
Connect(c) ==
    /\ clientEnd[c] = "idle" /\ server = "up"
    /\ clientEnd' = [clientEnd EXCEPT ![c] = "open"]
    /\ backlog' = [backlog EXCEPT ![Port[c]] = Append(@, c)]
    /\ UNCHANGED <<tableVars, server, player_count, readset, readyVars, sockets, serverEnd,
                   streamVars>>

\* A packet to a server that has closed is lost.  (Who has a connection has seen
\* the server up.)
ServerIsGone(c) == server # "up" \/ serverEnd[c] = "closed"

ClientSend(c, packet) ==
    /\ clientEnd[c] = "open"
    /\ toServer' = IF ServerIsGone(c) THEN toServer
                   ELSE [toServer EXCEPT ![c] = Append(@, packet)]
    /\ UNCHANGED <<tableVars, server, joinVars, readyVars, sockets, clientEnd, serverEnd,
                   toClient, reset>>

ClientRecv(c) ==
    /\ clientEnd[c] = "open"
    /\ toClient[c] # <<>>
    /\ toClient' = [toClient EXCEPT ![c] = Tail(@)]
    /\ UNCHANGED <<tableVars, server, joinVars, readyVars, sockets, clientEnd, serverEnd,
                   toServer, reset>>

\* close(), or the end of the process.  What was not read is lost.
ClientClose(c) ==
    /\ clientEnd[c] = "open"
    /\ clientEnd' = [clientEnd EXCEPT ![c] = "closed"]
    /\ toClient' = [toClient EXCEPT ![c] = <<>>]
    /\ UNCHANGED <<tableVars, server, joinVars, readyVars, sockets, serverEnd, toServer, reset>>

=============================================================================

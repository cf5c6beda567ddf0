------------------------------ MODULE OpenServer ------------------------------
(***************************************************************************)
(* The server with clients that may do anything: send any packets in any   *)
(* order, read or not read what they are sent, take a seat that is taken,  *)
(* and close at any time.                                                  *)
(***************************************************************************)
EXTENDS PokerServer

CONSTANTS
    MaxSends,       \* bound: packets each client sends
    PacketTypes     \* the types of the packets it may send

ASSUME SendsAssumption == MaxSends \in [Conns -> Nat]

VARIABLE sends   \* packets each client has sent

openVars == <<serverVars, sends>>

OpenInit == ServerInit /\ sends = [c \in Conns |-> 0]

SendAny(c) ==
    /\ sends[c] < MaxSends[c]
    /\ sends' = [sends EXCEPT ![c] = @ + 1]
    /\ \E type \in PacketTypes : ClientSend(c, [type |-> type, amount |-> 0])

ClientNext ==
    \E c \in Conns :
        \/ SendAny(c)
        \/ Connect(c) /\ UNCHANGED sends
        \/ ClientRecv(c) /\ UNCHANGED sends
        \/ ClientClose(c) /\ UNCHANGED sends

OpenNext == (ServerNext /\ UNCHANGED sends) \/ ClientNext

\* The server runs whenever it can; nothing is expected of the clients.
OpenSpec == OpenInit /\ [][OpenNext]_openVars /\ WF_openVars(ServerNext /\ UNCHANGED sends)

-----------------------------------------------------------------------------
(* Properties *)

\* Every server variable stays in its range.
ServerTypeOK ==
    /\ TypeOK
    /\ server \in {"starting", "up", "exited", "killed"}
    /\ readset \subseteq Seats
    /\ asking \in 0 .. MAX_PLAYERS
    /\ readyCount \in 0 .. asking
    /\ sockets \in [Seats -> Conns \cup {NoConn}]
    /\ \A p \in Seats : \A n \in DOMAIN backlog[p] : Port[backlog[p][n]] = p

\* The betting of every street is over before anybody is asked: at the start of
\* a street all bets are 0 and so is the bet to call, and that is what
\* check_betting_end takes for a street in which everybody has matched.
BettingNeverOpens == phase = "hand" => CheckBettingEnd

\* The scans for a seat that is ACTIVE or has not LEFT always end, whoever left
\* or never came: the server does not hang in a loop without a recv.
ServerNeverSpins == phase # "spin"

\* A seat that is ACTIVE, and every seat that is sent the packets of a hand, has
\* a connection, and one that the server has not closed.
ServedSeatIsOpen ==
    \A p \in NonLeft :
        player_status[p] = "ACTIVE" \/ phase = "hand" =>
            sockets[p] \in Conns /\ serverEnd[sockets[p]] = "open"

\* A client that has not read anything sees whole hands: between two ENDs lie
\* the four INFOs of one hand, and HALT is the last packet there is.
Ends(c) == {n \in DOMAIN toClient[c] : toClient[c][n].type = "END"}
HandsAreWhole ==
    \A c \in Conns :
        /\ \A m, n \in Ends(c) : m < n => n - m >= 5
        /\ \A n \in DOMAIN toClient[c] : toClient[c][n].type = "HALT" => n = Len(toClient[c])

\* Every INFO names a seat as the one to act, also after reset_game_state has set
\* the turn to -1: the terminal client writes into player_panels[player_turn]
\* (client.c:807).
InfoNamesASeat ==
    \A c \in Conns : \A n \in DOMAIN toClient[c] :
        toClient[c][n].type = "INFO" => toClient[c][n].turn \in Seats

\* Who wins a hand has played it: main() uses what find_winner returns as an index
\* as it is (poker_server.c:208), and the seat END names to everybody is one that
\* holds cards and has not left.
WinnerPlayedTheHand ==
    [][phase = "hand" /\ phase' = "reset" =>
          \E winner \in Active :
             /\ player_hands[winner] # NoHand
             /\ \A c \in Conns : toClient'[c] \in {toClient[c], Append(toClient[c], EndPacket(winner))}
      ]_openVars

\* A hand that was dealt is played to its END whatever the clients do, unless
\* the server is killed: it waits for nobody in between.
HandRunsThrough == phase = "hand" ~> (phase = "reset" \/ server = "killed")

\* A seat that LEFT is never sent anything again and never comes back.
LeftIsFinal ==
    [][\A p \in Seats : player_status[p] = "LEFT" =>
          /\ player_status'[p] = "LEFT"
          /\ sockets[p] \in Conns => Len(toClient'[sockets[p]]) <= Len(toClient[sockets[p]])
      ]_openVars

\* Where the table is in the sense of HandProtocol.
InHand == phase = "hand" /\ server \in {"starting", "up"}
HandStage ==
    IF server \in {"exited", "killed"} THEN "over"
    ELSE IF InHand THEN round_stage
    ELSE [join |-> "seating", reset |-> "between", ready |-> "between",
          halt |-> "halt", spin |-> "spin"][phase]

Protocol == INSTANCE HandProtocol WITH
    Seat    <- Seats,
    stage   <- HandStage,
    players <- Active,
    dealt   <- IF InHand THEN {p \in Seats : player_hands[p] # NoHand} ELSE {},
    board   <- IF InHand THEN Cardinality(community_cards) ELSE 0

\* main() plays hands as HandProtocol says, although it repeats the deal, the
\* showdown and the moves of the button: a hand is dealt to every seat that plays
\* and to two at least, nobody comes or goes before its END, and each street puts
\* its cards on the board.
PlaysHands == Protocol!HandProtocolSpec

=============================================================================

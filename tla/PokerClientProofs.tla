-------------------------- MODULE PokerClientProofs --------------------------
(***************************************************************************)
(* What the server and the clients of this repository keep between them:   *)
(* lemmas about poker_client.c with any handlers, for the theorems about   *)
(* TuiSystem and PokerSystem.                                              *)
(***************************************************************************)
EXTENDS PokerClient, ServerProofs

-----------------------------------------------------------------------------
(* Any client built on poker_client.c *)

\* The places of at where the client neither waits for a packet nor has gone.
AtInput   == {"prompt", "typing", "return"}
Receiving == {"response", "receive"}
Places    == {"start", "join", "gone"} \cup AtInput \cup Receiving

Sendable == [type : {"JOIN", "READY", "CHECK", "CALL", "RAISE", "FOLD", "LEAVE"}, amount : Int]

\* What such a client does: connect, join, wait only after it has sent something,
\* go back to its input after an END, and leave only for good.
ActsTo(c, place) ==
    /\ at' = [at EXCEPT ![c] = place]
    /\ \/ /\ at[c] = "start" /\ place = "join"
          /\ Connect(c)
       \/ /\ at[c] = "start" /\ place \in {"start", "gone"}
          /\ UNCHANGED serverVars
       \/ /\ at[c] = "join" /\ place = "prompt"
          /\ ClientSend(c, Move("JOIN"))
       \/ /\ at[c] \in AtInput /\ place \in AtInput
          /\ UNCHANGED serverVars
       \/ /\ at[c] \in AtInput /\ place \in Receiving
          /\ \E packet \in Sendable : packet.type # "LEAVE" /\ ClientSend(c, packet)
       \/ /\ at[c] \in Receiving /\ place \in AtInput
          /\ ServerIsGone(c)
          /\ UNCHANGED serverVars
       \/ /\ at[c] \in Receiving /\ place \in AtInput \cup {"receive"}
          /\ Head(toClient[c]).type = "END" => place \in AtInput
          /\ ClientRecv(c)
       \/ /\ at[c] \in Places \ {"start", "gone"} /\ place = "gone"
          /\ ClientClose(c) \/ SayLeave(c)

SessionActs(c) == \E place \in Places : ActsTo(c, place)

SessionNext == (ServerNext /\ UNCHANGED at) \/ \E c \in Conns : SessionActs(c)

\* Where a client is tells whether it is connected, and nobody connects before
\* the server listens.
PlacesInv ==
    /\ at \in [Conns -> Places]
    /\ \A c \in Conns : at[c] = "start" => clientEnd[c] = "idle"
    /\ \A c \in Conns : at[c] \notin {"start", "gone"} => clientEnd[c] = "open"
    /\ server = "starting" => \A c \in Conns : clientEnd[c] = "idle"

\* The server has not come to the seat of c since it last dealt, or never did.
NotAsked(c) ==
    \/ phase \in {"join", "reset"}
    \/ phase = "ready" /\ asking <= Port[c]

\* Until the server has come to its seat, a client that waits with nothing to read
\* has something on its way: once the server has accepted it, and before that one
\* packet more than the JOIN that accept will take.
WaitsRightly(c) ==
    /\ server = "up" /\ serverEnd[c] = "none" /\ at[c] \in AtInput =>
          Len(toServer[c]) >= 1
    /\ server = "up" /\ serverEnd[c] = "none" /\ at[c] \in Receiving =>
          Len(toServer[c]) >= 2
    /\ server = "up" /\ sockets[Port[c]] = c /\ NotAsked(c) /\ Waiting(c) =>
          toServer[c] # <<>>
    /\ \A n \in 1 .. Len(toServer[c]) : toServer[c][n].type = "LEAVE" => Gone(c)
    /\ player_status[Port[c]] = "LEFT" /\ sockets[Port[c]] = c => Gone(c)

WaitInv ==
    /\ toServer \in [Conns -> Seq(Sendable)]
    /\ \A c \in Conns : WaitsRightly(c)

sessionNetVars == <<serverVars, at>>

\* To the server such a client is a client.
LEMMA SessionIsNet ==
    ASSUME PlacesInv, [SessionNext]_sessionNetVars
    PROVE  [NetNext]_serverVars
<1>1. ASSUME NEW c \in Conns, SessionActs(c)
      PROVE  Connect(c) \/ ClientActs(c) \/ UNCHANGED serverVars
  <2>1. CASE \E packet : ClientSend(c, packet)
    BY <2>1, ClientsAct
  <2>2. CASE ClientRecv(c) \/ ClientClose(c)
    BY <2>2, ClientsAct
  <2>3. CASE SayLeave(c) /\ at[c] \notin {"start", "gone"}
    <3>1. clientEnd[c] = "open"
      BY <2>3 DEF PlacesInv
    <3>2. CASE ClientClose(c)
      BY <3>2, ClientsAct
    <3>3. CASE /\ clientEnd' = [clientEnd EXCEPT ![c] = "closed"]
               /\ toClient' = [toClient EXCEPT ![c] = <<>>]
               /\ toServer' = IF ServerIsGone(c) THEN toServer
                              ELSE [toServer EXCEPT ![c] = Append(@, Move("LEAVE"))]
               /\ UNCHANGED <<tableVars, server, joinVars, readyVars, sockets, serverEnd, reset>>
      BY <3>1, <3>3 DEF ClientActs
    <3>4. QED
      BY <2>3, <3>2, <3>3 DEF SayLeave
  <2>4. QED
    BY <1>1, <2>1, <2>2, <2>3 DEF SessionActs, ActsTo
<1>2. CASE UNCHANGED sessionNetVars
  BY <1>2 DEF sessionNetVars
<1>3. QED
  BY <1>1, <1>2 DEF SessionNext, NetNext

\* What poker_client.c does is what such a client does.
LEMMA SessionStepsAct ==
    ASSUME NEW c \in Conns, NEW back \in AtInput,
           Start(c) \/ Retry(c) \/ SendJoin(c) \/ TakeResponse(c, back) \/ RecvFails(c, back)
    PROVE  SessionActs(c)
<1>1. CASE Start(c)
  <2>1. ActsTo(c, "join")
    BY <1>1 DEF Start, ActsTo, GoTo
  <2>2. QED
    BY <2>1 DEF SessionActs, Places
<1>2. CASE Retry(c)
  <2>1. ActsTo(c, "gone") \/ ActsTo(c, "start")
    BY <1>2 DEF Retry, ActsTo, GoTo
  <2>2. QED
    BY <2>1 DEF SessionActs, Places
<1>3. CASE SendJoin(c)
  <2>1. ActsTo(c, "prompt")
    BY <1>3 DEF SendJoin, ActsTo, GoTo
  <2>2. QED
    BY <2>1 DEF SessionActs, Places, AtInput
<1>4. CASE TakeResponse(c, back)
  <2>1. /\ at[c] \in Receiving /\ ClientRecv(c)
        /\ \/ /\ at' = [at EXCEPT ![c] = "receive"]
              /\ Head(toClient[c]).type # "END"
           \/ at' = [at EXCEPT ![c] = back]
    BY <1>4 DEF TakeResponse, GoTo, Receiving
  <2>2. ActsTo(c, "receive") \/ ActsTo(c, back)
    BY <2>1 DEF ActsTo
  <2>3. QED
    BY <2>2 DEF SessionActs, Places, Receiving
<1>5. CASE RecvFails(c, back)
  <2>1. ActsTo(c, back)
    BY <1>5 DEF RecvFails, ActsTo, GoTo, Receiving
  <2>2. QED
    BY <2>1 DEF SessionActs, Places
<1>6. QED
  BY <1>1, <1>2, <1>3, <1>4, <1>5

LEMMA SendersAct ==
    ASSUME NEW c \in Conns, at[c] \in AtInput, NEW packet \in Sendable, packet.type # "LEAVE",
           SendPacket(c, packet)
    PROVE  SessionActs(c)
<1>1. PICK place \in Receiving : SendThen(c, packet, place)
  BY DEF SendPacket, Receiving
<1>2. CASE ClientClose(c) /\ GoTo(c, "gone")
  <2>1. at[c] \in Places \ {"start", "gone"}
    BY DEF Places, AtInput
  <2>2. ActsTo(c, "gone")
    BY <1>2, <2>1 DEF ActsTo, GoTo
  <2>3. QED
    BY <2>2 DEF SessionActs, Places
<1>3. CASE ClientSend(c, packet) /\ GoTo(c, place)
  <2>1. ActsTo(c, place)
    BY <1>3 DEF ActsTo, GoTo
  <2>2. QED
    BY <2>1 DEF SessionActs, Places
<1>4. QED
  BY <1>1, <1>2, <1>3 DEF SendThen

LEMMA LeaversAct ==
    ASSUME NEW c \in Conns, at[c] \in Places \ {"start", "gone"},
           (ClientClose(c) /\ GoTo(c, "gone")) \/ SayLeave(c)
    PROVE  SessionActs(c)
<1>1. ActsTo(c, "gone")
  BY DEF ActsTo, GoTo, SayLeave
<1>2. QED
  BY <1>1 DEF SessionActs, Places

LEMMA ServerLeavesClients ==
    ASSUME ServerNext
    PROVE  /\ clientEnd' = clientEnd
           /\ server' # "starting"
<1>1. CASE Listen
  BY <1>1 DEF Listen, netVars
<1>2. CASE server = "up" /\ (Select \/ AllJoined \/ BeginHand \/ SkipLeft \/ AskReady)
  BY <1>2 DEF Select, AllJoined, BeginHand, SkipLeft, AskReady, netVars
<1>3. ASSUME NEW i \in Seats, server = "up", Accept(i)
      PROVE  clientEnd' = clientEnd /\ server' = server
  BY <1>3 DEF Accept
<1>4. CASE server = "up" /\ (HaltAll \/ StartHand)
  BY <1>4 DEF HaltAll, StartHand, Survives
<1>5. CASE server = "up" /\ BettingLoop
  <2>1. clientEnd' = clientEnd
    BY <1>5 DEF BettingLoop
  <2>2. CASE Showdown \/ NextStreet
    BY <1>5, <2>1, <2>2 DEF Showdown, NextStreet, Survives
  <2>3. CASE AskTurn
    BY <1>5, <2>1, <2>3 DEF AskTurn, FoldGone, Act, Survives
  <2>4. QED
    BY <1>5, <2>2, <2>3 DEF BettingLoop
<1>6. QED
  BY <1>1, <1>2, <1>3, <1>4, <1>5 DEF ServerNext

LEMMA PlacesKeep ==
    ASSUME PlacesInv, ConnectionsInPlace, [SessionNext]_sessionNetVars
    PROVE  PlacesInv'
<1>1. CASE ServerNext /\ UNCHANGED at
  BY <1>1, ServerLeavesClients DEF PlacesInv
<1>2. CASE UNCHANGED sessionNetVars
  BY <1>2 DEF PlacesInv, sessionNetVars, serverVars, netVars
<1>3. ASSUME NEW c \in Conns, SessionActs(c)
      PROVE  PlacesInv'
  <2>1. PICK place \in Places : ActsTo(c, place)
    BY <1>3 DEF SessionActs
  <2>2. at' \in [Conns -> Places]
    BY <2>1 DEF PlacesInv, ActsTo
  <2>3. /\ \A d \in Conns : d # c => at'[d] = at[d] /\ clientEnd'[d] = clientEnd[d]
        /\ at'[c] = "start" => clientEnd'[c] = "idle"
        /\ at'[c] \notin {"start", "gone"} => clientEnd'[c] = "open"
        /\ server' = server
        /\ server = "starting" => clientEnd' = clientEnd
    <3>1. /\ at'[c] = place
          /\ \A d \in Conns : d # c => at'[d] = at[d]
      BY <2>1 DEF PlacesInv, ActsTo
    <3>2. CASE Connect(c) /\ at[c] = "start" /\ at'[c] = "join"
      BY <3>1, <3>2 DEF Connect, ConnectionsInPlace
    <3>3. CASE UNCHANGED serverVars /\ (at'[c] = "start" => at[c] = "start")
               /\ (at'[c] \notin {"start", "gone"} => at[c] \notin {"start", "gone"})
      BY <3>1, <3>3 DEF PlacesInv, serverVars, netVars
    <3>4. CASE /\ (\E packet : ClientSend(c, packet)) \/ ClientRecv(c)
               /\ at'[c] \notin {"start", "gone"}
      BY <3>1, <3>4 DEF ClientSend, ClientRecv
    <3>5. CASE /\ at[c] \notin {"start", "gone"} /\ at'[c] = "gone"
               /\ ClientClose(c) \/ SayLeave(c)
      <4>1. clientEnd[c] = "open" /\ server # "starting"
        BY <3>5 DEF PlacesInv
      <4>2. /\ clientEnd' = [clientEnd EXCEPT ![c] = "closed"]
            /\ server' = server
        BY <3>5 DEF SayLeave, ClientClose
      <4>3. QED
        BY <3>1, <3>5, <4>1, <4>2 DEF ConnectionsInPlace
    <3>6. QED
      BY <2>1, <3>1, <3>2, <3>3, <3>4, <3>5
      DEF ActsTo, Places, AtInput, Receiving
  <2>4. QED
    BY <2>2, <2>3 DEF PlacesInv
<1>4. QED
  BY <1>1, <1>2, <1>3 DEF SessionNext

\* Who has closed has gone.
LEMMA TheGoneAreGone ==
    ASSUME PlacesInv, NEW c \in Conns, Gone(c)
    PROVE  at[c] = "gone"
BY DEF PlacesInv, Gone

-----------------------------------------------------------------------------
(* Waiting for each other *)

\* A client that sits at its seat and has not closed is served there.
LEMMA SeatedIsServed ==
    ASSUME ServingInv, PlacesInv, WaitInv, NEW c \in Conns,
           sockets[Port[c]] = c, at[c] # "gone"
    PROVE  /\ serverEnd[c] = "open"
           /\ player_status[Port[c]] = "ACTIVE"
<1>1. Port[c] \in Seats /\ c # NoConn
  BY PortAssumption, ConnsAssumption
<1>2. ~Gone(c)
  BY TheGoneAreGone
<1>3. player_status[Port[c]] # "LEFT"
  BY <1>2 DEF WaitInv, WaitsRightly
<1>4. player_status[Port[c]] = "ACTIVE"
  BY <1>1, <1>3 DEF ServingInv, ServerInv, SomebodyPlays
<1>5. QED
  BY <1>1, <1>4 DEF ServingInv, PlayersServed, Served

\* What the client itself does: it waits only after it has sent something.
LEMMA ClientWaitsRightly ==
    ASSUME ServingInv, StreamInv, OrderInv, PlacesInv, WaitInv,
           NEW c \in Conns, NEW place \in Places, ActsTo(c, place)
    PROVE  WaitInv'
<1> DEFINE sent  == toServer[c]
           sent2 == toServer'[c]
<1>1. /\ at'[c] = place
      /\ \A d \in Conns : d # c => at'[d] = at[d]
      /\ WaitsRightly(c)
      /\ toServer \in [Conns -> Seq(Sendable)] /\ sent \in Seq(Sendable)
      /\ clientEnd \in [Conns -> {"idle", "open", "closed"}]
  BY DEF ActsTo, PlacesInv, WaitInv, ServingInv, ConnectionsInPlace
<1>2. UNCHANGED <<tableVars, server, sockets, serverEnd, asking>>
  BY DEF ActsTo, Connect, ClientSend, ClientRecv, ClientClose, SayLeave, serverVars, netVars,
         readyVars
<1>3. ASSUME NEW d \in Conns, d # c,
             toServer'[d] = toServer[d], toClient'[d] = toClient[d], clientEnd'[d] = clientEnd[d]
      PROVE  WaitsRightly(d)'
  BY <1>1, <1>2, <1>3 DEF WaitInv, WaitsRightly, Waiting, NotAsked, Gone, tableVars
<1> DEFINE Others == \A d \in Conns : d # c =>
              /\ toServer'[d] = toServer[d]
              /\ toClient'[d] = toClient[d]
              /\ clientEnd'[d] = clientEnd[d]
<1>4. ASSUME Others, WaitsRightly(c)', toServer' \in [Conns -> Seq(Sendable)]
      PROVE  WaitInv'
  <2>1. \A d \in Conns : WaitsRightly(d)'
    BY <1>3, <1>4
  <2>2. QED
    BY <1>4, <2>1 DEF WaitInv
<1>5. player_status'[Port[c]] = "LEFT" /\ sockets'[Port[c]] = c => Gone(c)
  BY <1>1, <1>2 DEF WaitsRightly, tableVars
<1>6. ASSUME NEW packet \in Sendable, ClientSend(c, packet), packet.type # "LEAVE",
             \/ at[c] = "join" /\ place = "prompt"
             \/ at[c] \in AtInput /\ place \in Receiving
      PROVE  WaitInv'
  <2>1. /\ toServer' = IF ServerIsGone(c) THEN toServer
                       ELSE [toServer EXCEPT ![c] = Append(@, packet)]
        /\ UNCHANGED <<clientEnd, toClient>>
    BY <1>6 DEF ClientSend
  <2>2. /\ Append(sent, packet) \in Seq(Sendable)
        /\ Len(Append(sent, packet)) = Len(sent) + 1 /\ Len(sent) \in Nat
        /\ \A n \in 1 .. Len(sent) + 1 : Append(sent, packet)[n] =
              IF n = Len(sent) + 1 THEN packet ELSE sent[n]
    BY <1>1
  <2>3. /\ sent2 = IF ServerIsGone(c) THEN sent ELSE Append(sent, packet)
        /\ toServer' \in [Conns -> Seq(Sendable)]
        /\ Others
    BY <1>1, <2>1, <2>2
  <2>4. server = "up" /\ serverEnd[c] = "none" => Len(sent2) = Len(sent) + 1
    BY <2>2, <2>3 DEF ServerIsGone
  <2>5. server = "up" /\ sockets[Port[c]] = c => Len(sent2) = Len(sent) + 1
    <3>1. at[c] # "gone"
      BY <1>6 DEF AtInput
    <3>2. QED
      BY <2>2, <2>3, <3>1, SeatedIsServed DEF ServerIsGone
  <2>6. \A n \in 1 .. Len(sent2) : sent2[n].type = "LEAVE" => Gone(c)
    <3>1. \A n \in 1 .. Len(sent) : sent[n].type = "LEAVE" => Gone(c)
      BY <1>1 DEF WaitsRightly
    <3>2. CASE ServerIsGone(c)
      BY <2>3, <3>1, <3>2
    <3>3. CASE ~ServerIsGone(c)
      <4>1. ASSUME NEW n \in 1 .. Len(sent) + 1, Append(sent, packet)[n].type = "LEAVE"
            PROVE  Gone(c)
        <5>1. n \in 1 .. Len(sent) /\ sent[n].type = "LEAVE"
          BY <1>6, <2>2, <4>1
        <5>2. QED
          BY <3>1, <5>1
      <4>2. QED
        BY <2>2, <2>3, <3>3, <4>1
    <3>4. QED
      BY <3>2, <3>3
  <2>7. server = "up" /\ serverEnd[c] = "none" /\ at[c] \in AtInput => Len(sent) >= 1
    BY <1>1 DEF WaitsRightly
  <2>8. sent2 = <<>> => Len(sent2) = 0
    OBVIOUS
  <2>9. WaitsRightly(c)'
    BY <1>1, <1>2, <1>5, <1>6, <2>1, <2>2, <2>4, <2>5, <2>6, <2>7, <2>8
    DEF WaitsRightly, Waiting, Gone, AtInput, Receiving
  <2>10. QED
    BY <1>4, <2>3, <2>9
<1>7. ASSUME UNCHANGED <<toServer, clientEnd, toClient>>, place \notin Receiving,
             place \in AtInput => at[c] \in AtInput \cup Receiving
      PROVE  WaitInv'
  <2>1. Others /\ toServer' \in [Conns -> Seq(Sendable)]
    BY <1>1, <1>7
  <2>2. WaitsRightly(c)'
    <3>1. Len(sent) \in Nat
      BY <1>1
    <3>2. QED
      BY <1>1, <1>2, <1>5, <1>7, <3>1 DEF WaitsRightly, Waiting, Gone, Receiving
  <2>3. QED
    BY <1>4, <2>1, <2>2
<1>8. ASSUME Connect(c), place = "join"
      PROVE  WaitInv'
  <2>1. /\ UNCHANGED <<toServer, toClient>> /\ clientEnd[c] = "idle"
        /\ clientEnd' = [clientEnd EXCEPT ![c] = "open"]
    BY <1>8 DEF Connect, streamVars
  <2>2. Others /\ toServer' \in [Conns -> Seq(Sendable)] /\ ~Gone(c)
    BY <1>1, <2>1 DEF Gone
  <2>3. WaitsRightly(c)'
    BY <1>1, <1>2, <1>5, <1>8, <2>1, <2>2 DEF WaitsRightly, Waiting, AtInput, Receiving
  <2>4. QED
    BY <1>4, <2>2, <2>3
<1>9. ASSUME ClientRecv(c), at[c] \in Receiving, place \in AtInput \cup {"receive"},
             Head(toClient[c]).type = "END" => place \in AtInput
      PROVE  WaitInv'
  <2>1. /\ toClient[c] # <<>> /\ toClient' = [toClient EXCEPT ![c] = Tail(@)]
        /\ UNCHANGED <<toServer, clientEnd>>
    BY <1>9 DEF ClientRecv
  <2>2. toClient \in [Conns -> Seq(Packets)]
    BY DEF StreamInv
  <2>3. Others /\ toServer' \in [Conns -> Seq(Sendable)]
    BY <1>1, <2>1, <2>2
  <2>4. server = "up" /\ NotAsked(c) /\ toClient'[c] = <<>> => place \in AtInput
    <3>1. ASSUME server = "up", NotAsked(c), Tail(toClient[c]) = <<>>
          PROVE  Head(toClient[c]).type = "END"
      <4>1. AtEnd(toClient[c])
        BY <3>1 DEF OrderInv, Running, NotAsked
      <4>2. Len(toClient[c]) = 1 /\ Head(toClient[c]) = toClient[c][1]
        <5>1. toClient[c] \in Seq(Packets) /\ Len(toClient[c]) \in Nat
          BY <2>2
        <5>2. Len(Tail(toClient[c])) = Len(toClient[c]) - 1 /\ Len(toClient[c]) > 0
          BY <2>1, <5>1
        <5>3. Len(Tail(toClient[c])) = 0
          BY <3>1, EmptySeq
        <5>4. QED
          BY <5>1, <5>2, <5>3
      <4>3. QED
        BY <4>1, <4>2 DEF AtEnd
    <3>2. toClient'[c] = Tail(toClient[c])
      BY <2>1, <2>2
    <3>3. QED
      BY <1>9, <3>1, <3>2
  <2>5. Len(sent) \in Nat
    BY <1>1
  <2>6. WaitsRightly(c)'
    BY <1>1, <1>2, <1>5, <1>9, <2>1, <2>4, <2>5
    DEF WaitsRightly, Waiting, NotAsked, Gone, AtInput, Receiving, tableVars
  <2>7. QED
    BY <1>4, <2>3, <2>6
<1>10. ASSUME ClientClose(c) \/ SayLeave(c), place = "gone"
       PROVE  WaitInv'
  <2>1. /\ clientEnd' = [clientEnd EXCEPT ![c] = "closed"]
        /\ toClient' = [toClient EXCEPT ![c] = <<>>]
        /\ \/ toServer' = toServer
           \/ toServer' = [toServer EXCEPT ![c] = Append(@, Move("LEAVE"))]
    BY <1>10 DEF ClientClose, SayLeave
  <2>2. Move("LEAVE") \in Sendable
    BY DEF Move, Sendable
  <2>3. Others /\ toServer' \in [Conns -> Seq(Sendable)] /\ Gone(c)'
    <3>1. Append(sent, Move("LEAVE")) \in Seq(Sendable)
      BY <1>1, <2>2
    <3>2. toClient \in [Conns -> Seq(Packets)]
      BY DEF StreamInv
    <3>3. QED
      BY <1>1, <2>1, <3>1, <3>2 DEF Gone
  <2>4. WaitsRightly(c)'
    BY <1>1, <1>10, <2>3 DEF WaitsRightly, Waiting, AtInput, Receiving
  <2>5. QED
    BY <1>4, <2>3, <2>4
<1>11. QED
  <2>1. Move("JOIN") \in Sendable /\ Move("JOIN").type # "LEAVE"
    BY DEF Move, Sendable
  <2>2. CASE /\ UNCHANGED serverVars /\ place \notin Receiving
             /\ place \in AtInput => at[c] \in AtInput \cup Receiving
    BY <1>7, <2>2 DEF serverVars, netVars, streamVars
  <2>3. QED
    BY <1>6, <1>8, <1>9, <1>10, <2>1, <2>2 DEF ActsTo, AtInput, Receiving

\* A step of the server that reads nothing and seats nobody, and leaves who is not
\* asked yet with what it had to read.
LEMMA ServerStepWaits ==
    ASSUME WaitInv, UNCHANGED <<toServer, clientEnd, at, sockets, serverEnd, player_status>>,
           server' = "up" => server = "up",
           \A c \in Conns :
              server' = "up" /\ sockets[Port[c]] = c /\ at[c] \in Receiving
              /\ NotAsked(c)' /\ toClient'[c] = <<>>
                 => NotAsked(c) /\ toClient[c] = <<>>
    PROVE  WaitInv'
<1>1. ASSUME NEW c \in Conns PROVE WaitsRightly(c)'
  BY DEF WaitInv, WaitsRightly, Waiting, Gone, Receiving
<1>2. QED
  BY <1>1 DEF WaitInv

\* accept takes one packet of the client it seats, which then has one more if it
\* waits.
LEMMA AcceptWaits ==
    ASSUME ServingInv, PlacesInv, WaitInv, NEW i \in Seats, Accept(i), server = "up",
           UNCHANGED at
    PROVE  WaitInv'
<1>0. PICK c : c = Head(backlog[i])
  OBVIOUS
<1>1. /\ phase = "join" /\ backlog[i] # <<>>
      /\ UNCHANGED <<server, clientEnd, toClient, asking>>
      /\ toServer' = IF toServer[c] # <<>> THEN [toServer EXCEPT ![c] = Tail(@)] ELSE toServer
      /\ \/ /\ Join(i)
            /\ sockets' = [sockets EXCEPT ![i] = c]
            /\ serverEnd' = [serverEnd EXCEPT ![c] = "open"]
         \/ /\ serverEnd' = [serverEnd EXCEPT ![c] = "closed"]
            /\ UNCHANGED <<tableVars, sockets>>
  BY <1>0 DEF Accept, Consume, ServingInv, ConnectionsInPlace, readyVars
<1>2. c \in Conns /\ Port[c] = i /\ serverEnd[c] = "none"
  BY <1>0, <1>1, NextIsNew DEF ServingInv
<1>3. /\ toServer' \in [Conns -> Seq(Sendable)]
      /\ \A d \in Conns : d # c => toServer'[d] = toServer[d]
      /\ Len(toServer[c]) \in Nat
      /\ Len(toServer[c]) >= 2 => toServer'[c] # <<>>
      /\ \A n \in 1 .. Len(toServer'[c]) :
            \E m \in 1 .. Len(toServer[c]) : toServer'[c][n] = toServer[c][m]
  <2>1. toServer[c] \in Seq(Sendable)
    BY <1>2 DEF WaitInv
  <2>2. CASE toServer[c] = <<>>
    BY <1>1, <1>2, <2>1, <2>2 DEF WaitInv
  <2>3. CASE toServer[c] # <<>>
    <3>1. /\ Tail(toServer[c]) \in Seq(Sendable)
          /\ Len(Tail(toServer[c])) = Len(toServer[c]) - 1 /\ Len(toServer[c]) \in Nat
          /\ \A n \in 1 .. Len(Tail(toServer[c])) :
                n + 1 \in 1 .. Len(toServer[c]) /\ Tail(toServer[c])[n] = toServer[c][n + 1]
      BY <2>1, <2>3
    <3>2. Len(toServer[c]) >= 2 => Tail(toServer[c]) # <<>>
      <4>1. Len(<<>>) = 0
        BY EmptySeq
      <4>2. QED
        BY <3>1, <4>1
    <3>3. toServer'[c] = Tail(toServer[c])
      BY <1>1, <1>2, <2>3 DEF WaitInv
    <3>4. toServer' \in [Conns -> Seq(Sendable)]
          /\ \A d \in Conns : d # c => toServer'[d] = toServer[d]
      BY <1>1, <1>2, <2>3, <3>1 DEF WaitInv
    <3>5. \A n \in 1 .. Len(toServer'[c]) :
              \E m \in 1 .. Len(toServer[c]) : toServer'[c][n] = toServer[c][m]
      <4>1. TAKE n \in 1 .. Len(toServer'[c])
      <4>2. n + 1 \in 1 .. Len(toServer[c]) /\ toServer'[c][n] = toServer[c][n + 1]
        BY <3>1, <3>3
      <4>3. QED
        BY <4>2
    <3>6. QED
      BY <3>1, <3>2, <3>3, <3>4, <3>5
  <2>4. QED
    BY <2>2, <2>3
<1>4. /\ \A p \in Seats : player_status'[p] # "LEFT"
      /\ \A d \in Conns : d # c => serverEnd'[d] = serverEnd[d]
      /\ serverEnd'[c] # "none"
      /\ \A d \in Conns : d # c /\ sockets'[Port[d]] = d => sockets[Port[d]] = d
      /\ sockets'[Port[c]] = c => sockets' = [sockets EXCEPT ![i] = c]
  <2>1. \A p \in Seats : player_status[p] # "LEFT"
    BY <1>1 DEF ServingInv, PlayersServed
  <2>2. CASE /\ Join(i)
             /\ sockets' = [sockets EXCEPT ![i] = c]
             /\ serverEnd' = [serverEnd EXCEPT ![c] = "open"]
    <3>1. player_status' = [player_status EXCEPT ![i] = "ACTIVE"]
      BY <2>2 DEF Join
    <3>2. \A p \in Seats : player_status'[p] # "LEFT"
      BY <2>1, <3>1 DEF ServingInv, ServerInv, SomebodyPlays
    <3>3. QED
      BY <1>2, <2>2, <3>2, PortAssumption DEF ServingInv, ConnectionsInPlace
  <2>3. CASE /\ serverEnd' = [serverEnd EXCEPT ![c] = "closed"]
             /\ UNCHANGED <<tableVars, sockets>>
    <3>1. sockets[i] # c
      <4>1. player_status[i] = "ACTIVE" => sockets[i] # c
        BY <1>2 DEF ServingInv, PlayersServed, Served
      <4>2. sockets[i] # NoConn => player_status[i] = "ACTIVE"
        BY <2>1 DEF ServingInv, ServerInv, SomebodyPlays
      <4>3. QED
        BY <1>2, <4>1, <4>2, ConnsAssumption
    <3>2. QED
      BY <1>2, <2>1, <2>3, <3>1 DEF ServingInv, ConnectionsInPlace, tableVars
  <2>4. QED
    BY <1>1, <2>2, <2>3
<1>5. ASSUME NEW d \in Conns, d # c PROVE WaitsRightly(d)'
  <2>1. WaitsRightly(d) /\ phase = "join"
    BY <1>1 DEF WaitInv
  <2>2. Port[d] \in Seats
    BY PortAssumption
  <2>3. QED
    BY <1>1, <1>3, <1>4, <1>5, <2>1, <2>2 DEF WaitsRightly, Waiting, Gone, NotAsked
<1>6. WaitsRightly(c)'
  <2>1. WaitsRightly(c) /\ Port[c] \in Seats
    BY <1>2, PortAssumption DEF WaitInv
  <2>2. QED
    BY <1>1, <1>2, <1>3, <1>4, <2>1 DEF WaitsRightly, Waiting, Gone, Receiving
<1>7. QED
  BY <1>3, <1>5, <1>6 DEF WaitInv

\* Who has been asked is not asked again in this ready loop, and leaves only when
\* it has closed.
LEMMA AskWaits ==
    ASSUME ServingInv, WaitInv, AskReady, UNCHANGED at
    PROVE  WaitInv'
<1>0. PICK c : c = sockets[asking]
  OBVIOUS
<1>1. /\ asking \in Seats /\ asking \in Nat /\ asking' = asking + 1
      /\ phase = "ready" /\ phase' = "ready"
      /\ UNCHANGED <<server, sockets, clientEnd, toClient>>
      /\ player_status[asking] # "LEFT"
      /\ toServer' = IF ReceivesNothing(c) THEN toServer ELSE [toServer EXCEPT ![c] = Tail(@)]
      /\ ~ReceivesNothing(c) => Readable(c)
      /\ \A p \in Seats : p # asking => player_status'[p] = player_status[p]
      /\ player_status'[asking] = "LEFT" => ReceivesNothing(c) \/ Receives(c, "LEAVE")
      /\ \A d \in Conns : d # c => serverEnd'[d] = serverEnd[d]
      /\ serverEnd'[c] = serverEnd[c] \/ serverEnd' = [serverEnd EXCEPT ![c] = "closed"]
  <2>1. asking \in Nat /\ player_status \in [Seats -> Statuses]
    BY DEF ServingInv, ServerInv, SomebodyPlays
  <2>2. serverEnd \in [Conns -> {"none", "open", "closed"}]
    BY DEF ServingInv, ConnectionsInPlace
  <2>3. QED
    BY <1>0, <2>1, <2>2 DEF AskReady, Leaves, Leave, Consume, ReceivesNothing, tableVars
<1>2. c = NoConn \/ (c \in Conns /\ Port[c] = asking /\ serverEnd[c] # "none")
  <2>1. c # NoConn => c \in Conns /\ Port[c] = asking
    BY <1>0, <1>1 DEF ServingInv, ConnectionsInPlace
  <2>2. c # NoConn => player_status[asking] = "ACTIVE"
    BY <1>0, <1>1 DEF ServingInv, ServerInv, SomebodyPlays
  <2>3. QED
    BY <1>0, <1>1, <2>1, <2>2 DEF ServingInv, PlayersServed, Served
<1>3. ASSUME NEW d \in Conns, d # c PROVE WaitsRightly(d)'
  <2>1. WaitsRightly(d) /\ Port[d] \in Seats /\ Port[d] \in Nat
    BY PortAssumption, SeatsAssumption DEF WaitInv, Seats
  <2>2. /\ toServer'[d] = toServer[d] /\ serverEnd'[d] = serverEnd[d]
        /\ NotAsked(d)' => NotAsked(d)
    <3>1. toServer'[d] = toServer[d]
      BY <1>1, <1>3 DEF WaitInv
    <3>2. NotAsked(d)' => NotAsked(d)
      BY <1>1, <2>1 DEF NotAsked
    <3>3. QED
      BY <1>1, <1>3, <3>1, <3>2
  <2>3. sockets'[Port[d]] = d => Port[d] # asking
    BY <1>0, <1>1, <1>3
  <2>4. QED
    BY <1>1, <2>1, <2>2, <2>3 DEF WaitsRightly, Waiting, Gone
<1>4. ASSUME c \in Conns PROVE WaitsRightly(c)' /\ toServer' \in [Conns -> Seq(Sendable)]
  <2>1. /\ WaitsRightly(c) /\ Port[c] = asking /\ serverEnd[c] # "none" /\ c # NoConn
        /\ toServer \in [Conns -> Seq(Sendable)] /\ toServer[c] \in Seq(Sendable)
    BY <1>2, <1>4, ConnsAssumption DEF WaitInv
  <2>2. serverEnd'[c] # "none" /\ ~NotAsked(c)'
    BY <1>1, <1>4, <2>1, SeatsAssumption DEF NotAsked, ServingInv, ConnectionsInPlace
  <2>3. toServer[c] # <<>> =>
            /\ Tail(toServer[c]) \in Seq(Sendable)
            /\ 1 \in 1 .. Len(toServer[c]) /\ Head(toServer[c]) = toServer[c][1]
            /\ \A n \in 1 .. Len(Tail(toServer[c])) :
                  n + 1 \in 1 .. Len(toServer[c]) /\ Tail(toServer[c])[n] = toServer[c][n + 1]
    BY <2>1
  <2>4. ~ReceivesNothing(c) => toServer[c] # <<>>
    BY <1>1 DEF ReceivesNothing, Readable
  <2>5. /\ toServer'[c] = toServer[c] \/ (toServer[c] # <<>> /\ toServer'[c] = Tail(toServer[c]))
        /\ toServer' \in [Conns -> Seq(Sendable)]
    BY <1>1, <1>4, <2>1, <2>3, <2>4
  <2>6. \A n \in 1 .. Len(toServer'[c]) : toServer'[c][n].type = "LEAVE" => Gone(c)
    BY <2>1, <2>3, <2>5 DEF WaitsRightly
  <2>7. player_status'[Port[c]] = "LEFT" => Gone(c)
    <3>1. Receives(c, "LEAVE") => Gone(c)
      BY <2>1, <2>3 DEF WaitsRightly, Receives
    <3>2. ReceivesNothing(c) => Gone(c)
      BY <2>1 DEF ReceivesNothing
    <3>3. QED
      BY <1>1, <2>1, <3>1, <3>2
  <2>8. QED
    BY <1>1, <2>2, <2>5, <2>6, <2>7 DEF WaitsRightly, Gone
<1>5. c = NoConn => toServer' = toServer
  BY <1>1 DEF ReceivesNothing
<1>6. QED
  BY <1>2, <1>3, <1>4, <1>5 DEF WaitInv

\* The END of a hand goes to everybody who may be waiting for it.
LEMMA ShowdownWaits ==
    ASSUME ServingInv, StreamInv, OrderInv, PlacesInv, WaitInv,
           BettingLoop, server = "up", UNCHANGED at
    PROVE  WaitInv'
<1>1. /\ phase = "hand" /\ CheckBettingEnd
      /\ UNCHANGED <<toServer, clientEnd, sockets, serverEnd, asking>>
  BY NoBetsEndBetting DEF BettingLoop, ServingInv, ServerInv, readyVars
<1>2. CASE NextStreet
  <2>1. /\ UNCHANGED player_status
        /\ phase' \in {"hand", "spin"}
    BY <1>1, <1>2 DEF NextStreet, ServerCommunity
  <2>2. QED
    BY <1>1, <2>1, ServerStepWaits DEF NotAsked
<1>3. CASE Showdown
  <2>1. UNCHANGED player_status /\ Survives(NonLeft)
    BY <1>3 DEF Showdown
  <2>2. PICK winner : EndPacket(winner) \in Packets /\ Broadcast(EndPacket(winner))
    BY <1>1, <1>3, ShowdownNamesTheWinner
  <2>3. \A p \in NonLeft : sockets[p] \in Conns
    BY <1>1, SendersHaveSockets
  <2>4. ASSUME NEW c \in Conns, server' = "up", sockets[Port[c]] = c, at[c] \in Receiving
        PROVE  toClient'[c] # <<>>
    <3>1. at[c] # "gone" /\ ~Gone(c)
      BY <2>4, TheGoneAreGone DEF Receiving
    <3>2. Port[c] \in NonLeft
      BY <2>4, <3>1, SeatedIsServed, PortAssumption DEF NonLeft, SeatsThat
    <3>3. Playing(c)
      BY <2>4, <3>2 DEF Playing
    <3>4. Broken = {}
      BY <2>1, <2>4 DEF Survives, Broken
    <3>5. toClient'[c] = Append(toClient[c], EndPacket(winner))
      BY <2>1, <2>2, <2>3, <3>1, <3>3, <3>4, BroadcastAdds DEF ServingInv, StreamInv
    <3>6. toClient[c] \in Seq(Packets)
      BY DEF StreamInv
    <3>7. QED
      BY <2>2, <3>5, <3>6
  <2>5. QED
    BY <1>1, <2>1, <2>4, ServerStepWaits
<1>4. QED
  BY <1>1, <1>2, <1>3 DEF BettingLoop

LEMMA WaitKeeps ==
    ASSUME ServingInv, StreamInv, OrderInv, PlacesInv, WaitInv, [SessionNext]_sessionNetVars
    PROVE  WaitInv'
<1>1. ASSUME NEW c \in Conns, SessionActs(c) PROVE WaitInv'
  BY <1>1, ClientWaitsRightly DEF SessionActs
<1>2. CASE UNCHANGED sessionNetVars
  BY <1>2 DEF sessionNetVars, serverVars, tableVars, readyVars, netVars, streamVars,
              WaitInv, WaitsRightly, Waiting, NotAsked, Gone
<1>3. CASE UNCHANGED at /\ Listen
  <2>1. /\ UNCHANGED <<toServer, clientEnd, sockets, serverEnd, player_status>>
        /\ \A c \in Conns : at[c] \in {"start", "gone"}
    BY <1>3 DEF Listen, netVars, streamVars, tableVars, PlacesInv
  <2>2. ASSUME NEW c \in Conns PROVE WaitsRightly(c)'
    BY <1>3, <2>1 DEF WaitInv, WaitsRightly, Waiting, Gone, AtInput, Receiving
  <2>3. QED
    BY <2>1, <2>2 DEF WaitInv
<1>4. ASSUME UNCHANGED at, server = "up", NEW i \in Seats, Accept(i) PROVE WaitInv'
  BY <1>4, AcceptWaits
<1>5. CASE UNCHANGED at /\ AskReady
  BY <1>5, AskWaits
<1>6. CASE UNCHANGED at /\ server = "up" /\ BettingLoop
  BY <1>6, ShowdownWaits
<1>7. CASE UNCHANGED at /\ server = "up" /\ (Select \/ SkipLeft)
  <2>1. /\ UNCHANGED <<toServer, clientEnd, sockets, serverEnd, player_status, toClient, phase>>
        /\ asking' = asking \/ (asking \in Nat /\ asking' = asking + 1)
    BY <1>7 DEF Select, SkipLeft, netVars, streamVars, tableVars, readyVars, ServingInv,
                ServerInv, SomebodyPlays
  <2>2. \A c \in Conns : NotAsked(c)' => NotAsked(c)
    <3>1. \A c \in Conns : Port[c] \in Nat
      BY PortAssumption, SeatsAssumption DEF Seats
    <3>2. QED
      BY <2>1, <3>1 DEF NotAsked
  <2>3. QED
    BY <1>7, <2>1, <2>2, ServerStepWaits
<1>8. CASE UNCHANGED at /\ server = "up" /\ (AllJoined \/ BeginHand)
  <2>1. /\ UNCHANGED <<toServer, clientEnd, sockets, serverEnd, toClient>>
        /\ phase \in {"join", "reset"}
    BY <1>8 DEF AllJoined, BeginHand, netVars, streamVars, JoinDone, ResetGameState
  <2>2. \A p \in Seats : player_status'[p] = "LEFT" => player_status[p] = "LEFT"
    BY <1>8 DEF AllJoined, BeginHand, JoinDone, ResetGameState
  <2>3. ASSUME NEW c \in Conns PROVE WaitsRightly(c)'
    <3>1. WaitsRightly(c) /\ Port[c] \in Seats
      BY PortAssumption DEF WaitInv
    <3>2. QED
      BY <1>8, <2>1, <2>2, <3>1 DEF WaitsRightly, Waiting, NotAsked, Gone, Receiving
  <2>4. QED
    BY <2>1, <2>3 DEF WaitInv
<1>9. CASE UNCHANGED at /\ server = "up" /\ (HaltAll \/ StartHand)
  <2>1. /\ UNCHANGED <<toServer, clientEnd, sockets, serverEnd, player_status>>
        /\ phase' \in {"halt", "spin", "hand"}
    BY <1>9 DEF HaltAll, Halt, StartHand
  <2>2. QED
    BY <1>9, <2>1, ServerStepWaits DEF NotAsked
<1>10. QED
  BY <1>1, <1>2, <1>3, <1>4, <1>5, <1>6, <1>7, <1>8, <1>9 DEF SessionNext, ServerNext

\* What a session keeps, all of it.
SessionInv == ServingInv /\ StreamInv /\ OrderInv /\ PlacesInv /\ WaitInv

LEMMA SessionInvHoldsInitially == ServerInit /\ SessionInit => SessionInv
<1> SUFFICES ASSUME ServerInit, SessionInit PROVE SessionInv
  OBVIOUS
<1>1. PlacesInv
  BY DEF ServerInit, SessionInit, PlacesInv, Places
<1>2. /\ toServer = [c \in Conns |-> <<>>] /\ server = "starting"
      /\ \A p \in Seats : player_status[p] # "LEFT"
  BY DEF ServerInit, Init
<1>3. toServer \in [Conns -> Seq(Sendable)]
  BY <1>2
<1>4. ASSUME NEW c \in Conns PROVE WaitsRightly(c)
  BY <1>2, PortAssumption DEF WaitsRightly
<1>5. QED
  BY <1>1, <1>3, <1>4, ServingInvHoldsInitially, StreamInvHoldsInitially,
     OrderInvHoldsInitially DEF SessionInv, WaitInv

LEMMA SessionKeeps ==
    ASSUME SessionInv, [SessionNext]_sessionNetVars
    PROVE  SessionInv'
<1>1. [NetNext]_serverVars
  BY SessionIsNet DEF SessionInv
<1>2. ServingInv' /\ StreamInv' /\ OrderInv'
  BY <1>1, ServingKeeps, StreamKeeps, OrderKeeps DEF SessionInv
<1>3. PlacesInv' /\ WaitInv'
  BY PlacesKeep, WaitKeeps DEF SessionInv, ServingInv
<1>4. QED
  BY <1>2, <1>3 DEF SessionInv

\* A client that waits at the seat the ready loop has come to has something on its
\* way there, since it was not asked before in this loop.
LEMMA NobodyWaitsForEachOther == SessionInv => NoMutualWait
<1> SUFFICES ASSUME SessionInv, NEW c \in Conns,
                    server = "up", phase = "ready", asking = Port[c], sockets[Port[c]] = c,
                    Waiting(c)
             PROVE  toServer[c] # <<>>
  BY DEF NoMutualWait
<1>1. Port[c] \in Nat
  BY PortAssumption, SeatsAssumption DEF Seats
<1>2. NotAsked(c)
  BY <1>1 DEF NotAsked
<1>3. QED
  BY <1>2 DEF SessionInv, WaitInv, WaitsRightly

=============================================================================

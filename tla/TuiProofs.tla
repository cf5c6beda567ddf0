----------------------------- MODULE TuiProofs -----------------------------
(***************************************************************************)
(* What the screens of the terminal clients and the server know of each    *)
(* other, for every number of seats, every stream of clicks and every      *)
(* amount typed.                                                           *)
(***************************************************************************)
EXTENDS TuiSystem, PokerClientProofs

-----------------------------------------------------------------------------
(* Screens *)

ScreenTypes ==
    /\ screen \in [Conns -> {"ready", "check", "call"}]
    /\ enabled \in [Conns -> BOOLEAN]
    /\ pending \in [Conns -> {"none", "bet", "draw"}]
    /\ typed \in [Conns -> Int]
    /\ last \in [Conns -> Packets \cup {NoPacket}]

\* The last packet says that it is the client's turn.
MyTurn(c) == last[c].type = "INFO" /\ last[c].turn = Port[c]

\* A client that is back from the ready screen stays on game screens, and a game
\* screen, the bet prompt and what is left of send_raise go with the INFO that gave
\* it the turn.
ScreenRight(c) ==
    /\ pending[c] # "none" => at[c] \in {"response", "return", "gone"}
    /\ at[c] = "return" => pending[c] # "none"
    /\ at[c] \in {"start", "join"} => enabled[c]
    /\ at[c] \in {"start", "join", "receive"} => screen[c] = "ready"
    /\ at[c] \in {"typing", "response", "return"} => screen[c] # "ready"
    /\ at[c] = "response" => enabled[c] \/ pending[c] # "none"
    /\ screen[c] # "ready" /\ at[c] \in {"prompt", "typing", "response", "return"} => MyTurn(c)

TuiInv == ScreenTypes /\ \A c \in Conns : ScreenRight(c)

\* What ScreenRight speaks of, of each client.
view(c) == <<at[c], screen[c], enabled[c], pending[c], last[c]>>

Others(c) == \A d \in Conns : d # c => view(d)' = view(d)

LEMMA OthersStayRight ==
    ASSUME TuiInv, NEW c \in Conns, Others(c), ScreenTypes', ScreenRight(c)'
    PROVE  TuiInv'
<1>1. ASSUME NEW d \in Conns, d # c PROVE ScreenRight(d)'
  <2>1. ScreenRight(d) /\ view(d)' = view(d)
    BY <1>1 DEF TuiInv, Others
  <2>2. QED
    BY <2>1 DEF ScreenRight, MyTurn, view
<1>2. QED
  BY <1>1 DEF TuiInv

\* poker_client.c moves a client from screen to screen only in a call that returns.
LEMMA SessionKeepsScreens ==
    ASSUME TuiInv, PlacesInv, StreamInv, NEW c \in Conns, SessionStep(c)
    PROVE  TuiInv' /\ SessionActs(c)
<1>1. Back(c) \in AtInput
  BY DEF Back, AtInput
<1>2. /\ UNCHANGED screenVars /\ ScreenRight(c) /\ ScreenTypes
      /\ at \in [Conns -> Places]
  BY DEF SessionStep, TuiInv, PlacesInv
<1>3. \E place : /\ GoTo(c, place)
                 /\ \/ at[c] = "start" /\ place \in {"start", "join", "gone"}
                    \/ at[c] = "join" /\ place = "prompt"
                    \/ at[c] \in {"response", "receive"} /\ place = Back(c)
  <2>1. CASE Start(c) \/ Retry(c) \/ SendJoin(c) \/ RecvFails(c, Back(c))
    BY <2>1 DEF Start, Retry, SendJoin, RecvFails
  <2>2. CASE TakeResponse(c, Back(c))
    <3>1. toClient[c] # <<>> /\ toClient[c] \in Seq(Packets)
      BY <2>2 DEF TakeResponse, ClientRecv, StreamInv
    <3>2. Head(toClient[c]) \in Packets
      BY <3>1
    <3>3. QED
      BY <2>2, <3>2 DEF TakeResponse, Packets
  <2>3. QED
    BY <2>1, <2>2 DEF SessionStep
<1>4. PICK place : /\ GoTo(c, place)
                   /\ \/ at[c] = "start" /\ place \in {"start", "join", "gone"}
                      \/ at[c] = "join" /\ place = "prompt"
                      \/ at[c] \in {"response", "receive"} /\ place = Back(c)
  BY <1>3
<1>5. at'[c] = place /\ Others(c)
  BY <1>2, <1>4 DEF GoTo, Others, view, screenVars
<1>6. ScreenRight(c)' /\ ScreenTypes'
  BY <1>2, <1>4, <1>5 DEF ScreenRight, ScreenTypes, MyTurn, screenVars, Back
<1>7. QED
  BY <1>1, <1>5, <1>6, OthersStayRight, SessionStepsAct DEF SessionStep

\* Nothing but HALT, END and INFO arrives, and INFO leaves the game screen to who
\* has the turn.
LEMMA PacketsKeepScreens ==
    ASSUME TuiInv, PlacesInv, StreamInv, NEW c \in Conns, TakePacket(c)
    PROVE  TuiInv' /\ SessionActs(c)
<1> DEFINE packet == Head(toClient[c])
<1>1. /\ at[c] = "receive" /\ toClient[c] # <<>>
      /\ last' = [last EXCEPT ![c] = packet] /\ UNCHANGED typed
  BY DEF TakePacket
<1>2. packet \in Packets
  BY <1>1 DEF StreamInv
<1>3. /\ ScreenRight(c) /\ ScreenTypes /\ at \in [Conns -> Places]
      /\ pending[c] = "none" /\ screen[c] = "ready"
  BY <1>1 DEF TuiInv, ScreenRight, PlacesInv
<1>4. last' \in [Conns -> Packets \cup {NoPacket}] /\ last'[c] = packet
      /\ \A d \in Conns : d # c => last'[d] = last[d]
  BY <1>1, <1>2, <1>3 DEF ScreenTypes
<1> HIDE DEF packet
<1>5. CASE packet.type = "HALT"
  <2>1. ClientClose(c) /\ GoTo(c, "gone") /\ UNCHANGED <<screen, enabled, pending>>
    BY <1>5 DEF TakePacket, packet
  <2>2. ScreenTypes' /\ ScreenRight(c)' /\ Others(c)
    BY <1>1, <1>3, <1>4, <2>1 DEF ScreenTypes, ScreenRight, GoTo, Others, view
  <2>3. at[c] \in Places \ {"start", "gone"}
    BY <1>1 DEF Places, Receiving
  <2>4. QED
    BY <2>1, <2>2, <2>3, OthersStayRight, LeaversAct
<1>6. ASSUME NEW name \in {"ready", "check", "call"}, Loop(c, name), ClientRecv(c),
             name # "ready" => packet.type = "INFO" /\ packet.turn = Port[c]
      PROVE  TuiInv' /\ SessionActs(c)
  <2>1. ScreenTypes' /\ ScreenRight(c)' /\ Others(c)
    BY <1>1, <1>3, <1>4, <1>6
    DEF ScreenTypes, ScreenRight, MyTurn, Loop, GoTo, Others, view
  <2>2. ActsTo(c, "prompt")
    BY <1>1, <1>6 DEF ActsTo, Loop, GoTo, AtInput, Receiving
  <2>3. QED
    BY <2>1, <2>2, OthersStayRight DEF SessionActs, Places, AtInput
<1>7. CASE packet.type = "END"
  BY <1>6, <1>7 DEF TakePacket, ReadyScreen, packet
<1>8. CASE packet.type = "INFO"
  <2>1. ClientRecv(c) /\ GameScreen(c, packet, pending[c])
    BY <1>8 DEF TakePacket, packet
  <2>2. CASE packet.turn = Port[c]
    <3>1. Loop(c, IF packet.bet = 0 THEN "check" ELSE "call")
      BY <1>8, <2>1, <2>2 DEF GameScreen
    <3>2. QED
      BY <1>6, <1>8, <2>1, <2>2, <3>1
  <2>3. CASE packet.turn # Port[c]
    <3>1. /\ GoTo(c, "receive") /\ UNCHANGED screen
          /\ enabled' = [enabled EXCEPT ![c] = FALSE]
          /\ pending' = [pending EXCEPT ![c] = "none"]
      BY <1>3, <2>1, <2>3 DEF GameScreen
    <3>2. ScreenTypes' /\ ScreenRight(c)' /\ Others(c)
      BY <1>1, <1>3, <1>4, <3>1 DEF ScreenTypes, ScreenRight, GoTo, Others, view
    <3>3. ActsTo(c, "receive")
      BY <1>1, <1>8, <2>1, <3>1 DEF ActsTo, GoTo, Receiving, packet
    <3>4. QED
      BY <3>2, <3>3, OthersStayRight DEF SessionActs, Places, Receiving
  <2>4. QED
    BY <2>2, <2>3
<1>9. QED
  BY <1>2, <1>5, <1>7, <1>8 DEF Packets

\* After send_packet the client receives, waits for an answer or has been killed.
LEMMA SendersGo ==
    ASSUME NEW c \in Conns, NEW packet, SendPacket(c, packet)
    PROVE  GoTo(c, "gone") \/ GoTo(c, IF packet.type = "READY" THEN "receive" ELSE "response")
BY DEF SendPacket, SendThen

\* Who may type has the turn, and what is left of send_raise ends in a game screen.
LEMMA UsersKeepScreens ==
    ASSUME TuiInv, PlacesInv, NEW c \in Conns,
           UserStep(c) \/ RaiseAfterMove(c) \/ DrawAgain(c) \/ CloseTerminal(c)
    PROVE  TuiInv' /\ SessionActs(c)
<1>1. ScreenRight(c) /\ ScreenTypes /\ at \in [Conns -> Places]
  BY DEF TuiInv, PlacesInv
<1>2. CASE ClickFirst(c)
  <2> DEFINE type == CASE screen[c] = "ready" -> "READY"
                       [] screen[c] = "check" -> "CHECK"
                       [] screen[c] = "call"  -> "CALL"
  <2>1. at[c] = "prompt" /\ enabled[c] /\ SendPacket(c, Move(type)) /\ UNCHANGED screenVars
    BY <1>2 DEF ClickFirst, Click
  <2>2. type \in {"READY", "CHECK", "CALL"} /\ (type = "READY" <=> screen[c] = "ready")
    BY <1>1 DEF ScreenTypes
  <2> HIDE DEF type
  <2>3. Move(type) \in Sendable /\ Move(type).type = type /\ at[c] \in AtInput
    BY <2>1, <2>2 DEF Move, Sendable, AtInput
  <2>4. GoTo(c, "gone") \/ GoTo(c, IF type = "READY" THEN "receive" ELSE "response")
    BY <2>1, <2>3, SendersGo
  <2>5. ScreenTypes' /\ ScreenRight(c)' /\ Others(c)
    BY <1>1, <2>1, <2>2, <2>4
    DEF ScreenTypes, ScreenRight, MyTurn, screenVars, GoTo, Others, view
  <2>6. QED
    BY <2>1, <2>2, <2>3, <2>5, OthersStayRight, SendersAct
<1>3. CASE ClickRaise(c)
  <2>1. /\ at[c] = "prompt" /\ screen[c] # "ready" /\ GoTo(c, "typing")
        /\ enabled' = [enabled EXCEPT ![c] = FALSE]
        /\ UNCHANGED <<serverVars, screen, pending, typed, last>>
    BY <1>3 DEF ClickRaise, Click
  <2>2. ScreenTypes' /\ ScreenRight(c)' /\ Others(c)
    BY <1>1, <2>1 DEF ScreenTypes, ScreenRight, MyTurn, GoTo, Others, view
  <2>3. ActsTo(c, "typing")
    BY <2>1 DEF ActsTo, GoTo, AtInput
  <2>4. QED
    BY <2>2, <2>3, OthersStayRight DEF SessionActs, Places, AtInput
<1>4. CASE ClickLast(c)
  <2>1. /\ at[c] = "prompt" /\ enabled[c] /\ UNCHANGED screenVars
        /\ IF screen[c] = "ready" THEN SayLeave(c) ELSE SendPacket(c, Move("FOLD"))
    BY <1>4 DEF ClickLast, Click
  <2>2. Move("FOLD") \in Sendable /\ Move("FOLD").type = "FOLD"
        /\ at[c] \in AtInput /\ at[c] \in Places \ {"start", "gone"}
    BY <2>1 DEF Move, Sendable, AtInput, Places
  <2>3. GoTo(c, "gone") \/ (screen[c] # "ready" /\ GoTo(c, "response"))
    BY <2>1, <2>2, SendersGo DEF SayLeave
  <2>4. ScreenTypes' /\ ScreenRight(c)' /\ Others(c)
    BY <1>1, <2>1, <2>3
    DEF ScreenTypes, ScreenRight, MyTurn, screenVars, GoTo, Others, view
  <2>5. QED
    BY <2>1, <2>2, <2>4, OthersStayRight, SendersAct, LeaversAct
<1>5. CASE TypeAmount(c)
  <2>1. PICK amount \in RaiseAmounts :
           /\ at[c] = "typing"
           /\ typed' = [typed EXCEPT ![c] = amount]
           /\ pending' = [pending EXCEPT ![c] = IF amount < 0 THEN "bet" ELSE "draw"]
           /\ SendPacket(c, CASE amount = -1 -> Move("FOLD")
                              [] amount = -2 -> Move(IF last[c].bet = 0 THEN "CHECK" ELSE "CALL")
                              [] OTHER -> [type |-> "RAISE", amount |-> amount])
           /\ UNCHANGED <<screen, enabled, last>>
    BY <1>5 DEF TypeAmount
  <2>2. amount \in Int /\ at[c] \in AtInput
    BY <2>1, AmountsAssumption DEF RaiseAmounts, AtInput
  <2>3. PICK packet \in Sendable : packet.type \notin {"LEAVE", "READY"} /\ SendPacket(c, packet)
    <3>1. CASE amount = -1
      <4>1. SendPacket(c, Move("FOLD"))
        BY <2>1, <3>1
      <4>2. QED
        BY <4>1 DEF Move, Sendable
    <3>2. CASE amount = -2
      <4>1. SendPacket(c, Move("CHECK")) \/ SendPacket(c, Move("CALL"))
        BY <2>1, <3>2
      <4>2. QED
        BY <4>1 DEF Move, Sendable
    <3>3. CASE amount # -1 /\ amount # -2
      <4>1. SendPacket(c, [type |-> "RAISE", amount |-> amount])
        BY <2>1, <3>3
      <4>2. QED
        BY <2>2, <4>1 DEF Sendable
    <3>4. QED
      BY <3>1, <3>2, <3>3
  <2>4. GoTo(c, "gone") \/ GoTo(c, "response")
    BY <2>3, SendersGo
  <2>5. ScreenTypes' /\ ScreenRight(c)' /\ Others(c)
    BY <1>1, <2>1, <2>2, <2>4 DEF ScreenTypes, ScreenRight, MyTurn, GoTo, Others, view
  <2>6. QED
    BY <2>2, <2>3, <2>5, OthersStayRight, SendersAct
<1>6. CASE RaiseAfterMove(c)
  <2> DEFINE packet == [type |-> "RAISE", amount |-> typed[c]]
  <2>1. /\ at[c] = "return" /\ SendPacket(c, packet)
        /\ pending' = [pending EXCEPT ![c] = "draw"]
        /\ UNCHANGED <<screen, enabled, typed, last>>
    BY <1>6 DEF RaiseAfterMove
  <2>2. packet \in Sendable /\ packet.type = "RAISE" /\ at[c] \in AtInput
    BY <1>1, <2>1 DEF Sendable, ScreenTypes, AtInput
  <2> HIDE DEF packet
  <2>3. GoTo(c, "gone") \/ GoTo(c, "response")
    BY <2>1, <2>2, SendersGo
  <2>4. ScreenTypes' /\ ScreenRight(c)' /\ Others(c)
    BY <1>1, <2>1, <2>3 DEF ScreenTypes, ScreenRight, MyTurn, GoTo, Others, view
  <2>5. QED
    BY <2>1, <2>2, <2>4, OthersStayRight, SendersAct
<1>7. CASE DrawAgain(c)
  <2>1. /\ at[c] = "return" /\ GameScreen(c, last[c], "none")
        /\ typed' = [typed EXCEPT ![c] = 0] /\ UNCHANGED <<serverVars, last>>
    BY <1>7 DEF DrawAgain
  <2>2. MyTurn(c)
    BY <1>1, <2>1 DEF ScreenRight
  <2>3. PICK name \in {"check", "call"} : Loop(c, name)
    BY <2>1, <2>2 DEF GameScreen, MyTurn
  <2>4. ScreenTypes' /\ ScreenRight(c)' /\ Others(c)
    BY <1>1, <2>1, <2>2, <2>3
    DEF ScreenTypes, ScreenRight, MyTurn, Loop, GoTo, Others, view
  <2>5. ActsTo(c, "prompt")
    BY <2>1, <2>3 DEF ActsTo, Loop, GoTo, AtInput
  <2>6. QED
    BY <2>4, <2>5, OthersStayRight DEF SessionActs, Places, AtInput
<1>8. CASE CloseTerminal(c)
  <2>1. /\ at[c] \in Places \ {"start", "gone"} /\ ClientClose(c) /\ GoTo(c, "gone")
        /\ UNCHANGED screenVars
    BY <1>1, <1>8 DEF CloseTerminal
  <2>2. ScreenTypes' /\ ScreenRight(c)' /\ Others(c)
    BY <1>1, <2>1 DEF ScreenTypes, ScreenRight, screenVars, GoTo, Others, view
  <2>3. QED
    BY <2>1, <2>2, OthersStayRight, LeaversAct
<1>9. QED
  BY <1>2, <1>3, <1>4, <1>5, <1>6, <1>7, <1>8 DEF UserStep

LEMMA TuiInvHoldsInitially == TuiInit => TuiInv
<1> SUFFICES ASSUME TuiInit PROVE TuiInv
  OBVIOUS
<1>1. ScreenTypes
  BY DEF TuiInit, ScreenTypes
<1>2. QED
  BY <1>1 DEF TuiInit, SessionInit, TuiInv, ScreenRight

LEMMA TuiKeeps ==
    ASSUME TuiInv, PlacesInv, StreamInv, [SystemNext]_systemVars
    PROVE  TuiInv' /\ [SessionNext]_sessionNetVars
<1>1. CASE UNCHANGED tuiVars /\ (ServerNext \/ UNCHANGED serverVars)
  <2>1. UNCHANGED <<at, screenVars>>
    BY <1>1 DEF tuiVars, sessionVars
  <2>2. TuiInv'
    BY <2>1 DEF TuiInv, ScreenTypes, ScreenRight, MyTurn, screenVars
  <2>3. QED
    BY <1>1, <2>1, <2>2 DEF SessionNext, sessionNetVars
<1>2. ASSUME NEW c \in Conns, ProgramStep(c) \/ UserStep(c) \/ CloseTerminal(c)
      PROVE  TuiInv' /\ SessionActs(c)
  BY <1>2, SessionKeepsScreens, PacketsKeepScreens, UsersKeepScreens DEF ProgramStep
<1>3. QED
  BY <1>1, <1>2 DEF SystemNext, ServerStep, systemVars, SessionNext

-----------------------------------------------------------------------------
(* A screen without buttons *)

\* The server does not come back: it neither starts again nor opens again a
\* connection that it has closed.
LEMMA GoneServerStays ==
    ASSUME ConnectionsInPlace, [SessionNext]_sessionNetVars, NEW c \in Conns,
           ServerIsGone(c), server # "starting"
    PROVE  ServerIsGone(c)'
<1>1. serverEnd \in [Conns -> {"none", "open", "closed"}]
  BY DEF ConnectionsInPlace
<1>2. CASE UNCHANGED <<server, serverEnd>>
  BY <1>2 DEF ServerIsGone
<1>3. ASSUME server = "up", NEW i \in Seats, Accept(i) PROVE ServerIsGone(c)'
  <2>1. PICK d : d = Head(backlog[i])
    OBVIOUS
  <2>2. serverEnd[d] = "none" /\ d # c
    <3>1. backlog[i] # <<>>
      BY <1>3 DEF Accept, ConnectionsInPlace
    <3>2. serverEnd[d] = "none"
      BY <2>1, <3>1, NextIsNew
    <3>3. QED
      BY <1>3, <3>2 DEF ServerIsGone
  <2>3. serverEnd' = [serverEnd EXCEPT ![d] = "open"] \/ serverEnd' = [serverEnd EXCEPT ![d] = "closed"]
    BY <1>3, <2>1 DEF Accept
  <2>4. QED
    BY <1>1, <1>3, <2>2, <2>3 DEF ServerIsGone
<1>4. CASE server = "up" /\ AskReady
  <2>1. serverEnd' = serverEnd \/ serverEnd' = [serverEnd EXCEPT ![sockets[asking]] = "closed"]
    BY <1>4 DEF AskReady
  <2>2. QED
    BY <1>1, <1>4, <2>1 DEF ServerIsGone
<1>5. CASE server = "up" /\ (Select \/ AllJoined \/ BeginHand \/ SkipLeft \/ HaltAll
                           \/ StartHand \/ BettingLoop)
  <2>1. serverEnd' = serverEnd
    BY <1>5 DEF Select, AllJoined, BeginHand, SkipLeft, HaltAll, StartHand, BettingLoop, netVars
  <2>2. QED
    BY <1>5, <2>1 DEF ServerIsGone
<1>6. ASSUME NEW d \in Conns, SessionActs(d) PROVE UNCHANGED <<server, serverEnd>>
  BY <1>6 DEF SessionActs, ActsTo, Connect, ClientSend, ClientRecv, ClientClose, SayLeave,
              serverVars, netVars
<1>7. CASE UNCHANGED sessionNetVars
  BY <1>2, <1>7 DEF sessionNetVars, serverVars, netVars
<1>8. QED
  BY <1>2, <1>3, <1>4, <1>5, <1>6, <1>7 DEF SessionNext, ServerNext, Listen

\* A step of another leaves a client's view as it is.
LEMMA ViewsChangeAlone ==
    ASSUME TuiInv, PlacesInv, StreamInv, NEW c \in Conns,
           ProgramStep(c) \/ UserStep(c) \/ CloseTerminal(c)
    PROVE  Others(c)
<1> USE DEF TuiInv, ScreenTypes, PlacesInv, Others, view, GoTo
<1>1. CASE SessionStep(c)
  BY <1>1 DEF SessionStep, Start, Retry, SendJoin, TakeResponse, RecvFails, screenVars
<1>2. CASE TakePacket(c)
  BY <1>2 DEF TakePacket, ReadyScreen, GameScreen, Loop
<1>3. CASE ClickFirst(c) \/ ClickRaise(c) \/ ClickLast(c)
  BY <1>3 DEF ClickFirst, ClickRaise, ClickLast, SendPacket, SendThen, SayLeave, screenVars
<1>4. CASE TypeAmount(c) \/ RaiseAfterMove(c)
  BY <1>4 DEF TypeAmount, RaiseAfterMove, SendPacket, SendThen
<1>5. CASE DrawAgain(c)
  BY <1>5 DEF DrawAgain, GameScreen, Loop
<1>6. CASE CloseTerminal(c)
  BY <1>6 DEF CloseTerminal, screenVars
<1>7. QED
  BY <1>1, <1>2, <1>3, <1>4, <1>5, <1>6 DEF ProgramStep, UserStep

\* A call returns to a screen without buttons only because the server is gone.
LEMMA OnlyRecvFreezes ==
    ASSUME TuiInv, PlacesInv, StreamInv, NEW c \in Conns,
           ProgramStep(c) \/ UserStep(c) \/ CloseTerminal(c),
           at'[c] = "prompt", ~enabled'[c]
    PROVE  ServerIsGone(c) /\ clientEnd[c] = "open"
<1>1. ScreenRight(c) /\ ScreenTypes /\ at \in [Conns -> Places]
  BY DEF TuiInv, PlacesInv
<1>2. CASE SessionStep(c)
  <2>1. enabled' = enabled
    BY <1>2 DEF SessionStep, screenVars
  <2>2. CASE RecvFails(c, Back(c))
    BY <2>2 DEF RecvFails, PlacesInv
  <2>3. CASE TakeResponse(c, Back(c))
    <3>1. toClient[c] # <<>> /\ toClient[c] \in Seq(Packets) /\ at[c] = "response"
      BY <2>3 DEF TakeResponse, ClientRecv, StreamInv
    <3>2. Head(toClient[c]) \in Packets
      BY <3>1
    <3>3. Back(c) = "prompt"
      BY <1>1, <2>3, <3>2 DEF TakeResponse, GoTo, Packets
    <3>4. QED
      BY <1>1, <2>1, <3>1, <3>3 DEF ScreenRight, Back
  <2>4. CASE Start(c) \/ Retry(c) \/ SendJoin(c)
    BY <1>1, <2>1, <2>4 DEF Start, Retry, SendJoin, GoTo, ScreenRight
  <2>5. QED
    BY <1>2, <2>2, <2>3, <2>4 DEF SessionStep
<1>3. CASE TakePacket(c)
  <2>1. toClient[c] # <<>> /\ toClient[c] \in Seq(Packets)
    BY <1>3 DEF TakePacket, StreamInv
  <2>2. Head(toClient[c]) \in Packets
    BY <2>1
  <2>3. QED
    BY <1>1, <1>3, <2>2
    DEF TakePacket, ReadyScreen, GameScreen, Loop, GoTo, ScreenTypes, Packets
<1>4. CASE ClickFirst(c) \/ ClickRaise(c) \/ ClickLast(c) \/ CloseTerminal(c)
  BY <1>1, <1>4 DEF ClickFirst, ClickRaise, ClickLast, CloseTerminal, SendPacket, SendThen,
                    SayLeave, GoTo
<1>5. CASE TypeAmount(c) \/ RaiseAfterMove(c)
  BY <1>1, <1>5 DEF TypeAmount, RaiseAfterMove, SendPacket, SendThen, GoTo
<1>6. CASE DrawAgain(c)
  <2>1. MyTurn(c)
    BY <1>1, <1>6 DEF DrawAgain, ScreenRight
  <2>2. QED
    BY <1>1, <1>6, <2>1 DEF DrawAgain, GameScreen, Loop, MyTurn, ScreenTypes
<1>7. QED
  BY <1>2, <1>3, <1>4, <1>5, <1>6 DEF ProgramStep, UserStep

LEMMA FreezesKeep ==
    ASSUME TuiInv, SessionInv, OnlyADeadServerFreezes, [SystemNext]_systemVars
    PROVE  OnlyADeadServerFreezes'
<1> SUFFICES ASSUME NEW c \in Conns, at'[c] = "prompt", ~enabled'[c]
             PROVE  ServerIsGone(c)'
  BY DEF OnlyADeadServerFreezes
<1>1. PlacesInv /\ StreamInv /\ ConnectionsInPlace /\ [SessionNext]_sessionNetVars
  BY TuiKeeps DEF SessionInv, ServingInv
<1>2. ASSUME ServerIsGone(c), clientEnd[c] # "idle" PROVE ServerIsGone(c)'
  BY <1>1, <1>2, GoneServerStays DEF PlacesInv
<1>3. CASE view(c)' = view(c)
  <2>1. at[c] = "prompt" /\ ~enabled[c]
    BY <1>3 DEF view
  <2>2. clientEnd[c] = "open"
    BY <1>1, <2>1 DEF PlacesInv
  <2>3. QED
    BY <1>2, <2>1, <2>2 DEF OnlyADeadServerFreezes
<1>4. ASSUME NEW d \in Conns, ProgramStep(d) \/ UserStep(d) \/ CloseTerminal(d)
      PROVE  ServerIsGone(c)'
  <2>1. CASE d = c
    BY <1>1, <1>2, <1>4, <2>1, OnlyRecvFreezes
  <2>2. CASE d # c
    BY <1>1, <1>3, <1>4, <2>2, ViewsChangeAlone DEF Others
  <2>3. QED
    BY <2>1, <2>2
<1>5. CASE UNCHANGED tuiVars
  BY <1>3, <1>5 DEF tuiVars, sessionVars, screenVars, view
<1>6. QED
  BY <1>4, <1>5 DEF SystemNext, ServerStep, systemVars

-----------------------------------------------------------------------------
(* The ready screen *)

NoEnd(s)    == \A n \in 1 .. Len(s) : s[n].type # "END"
EndsOnce(s) == Len(s) > 0 /\ \A n \in 1 .. Len(s) : s[n].type = "END" <=> n = Len(s)

Taken == {p \in Seats : sockets[p] # NoConn}

\* With one client for each seat a client that was accepted sits at its seat, and
\* nobody's place is taken by another.
SeatsFilled ==
    /\ player_count = Cardinality(Taken)
    /\ phase # "join" => Taken = Seats

\* How far the server and a client that is on the ready screen, or receives after
\* it, can be apart.
InStep(c) ==
    /\ at[c] \in {"start", "join"} =>
          serverEnd[c] = "none" /\ toServer[c] = <<>> /\ toClient[c] = <<>>
    /\ server = "up" /\ at[c] \in {"prompt", "receive"} /\ screen[c] = "ready" =>
          /\ serverEnd[c] # "closed"
          /\ serverEnd[c] = "none" =>
                /\ toClient[c] = <<>>
                /\ toServer[c] = IF at[c] = "prompt" THEN <<Move("JOIN")>>
                                 ELSE <<Move("JOIN"), Move("READY")>>
          /\ serverEnd[c] = "open" /\ at[c] = "prompt" =>
                NotAsked(c) /\ toServer[c] = <<>> /\ toClient[c] = <<>>
          /\ serverEnd[c] = "open" /\ at[c] = "receive" =>
                \/ NotAsked(c) /\ toServer[c] = <<Move("READY")>> /\ toClient[c] = <<>>
                \/ ~NotAsked(c) /\ toServer[c] = <<>> /\ NoEnd(toClient[c])
                \/ NotAsked(c) /\ toServer[c] = <<>> /\ EndsOnce(toClient[c])

ReadyInv == SeatsFilled /\ \A c \in Conns : InStep(c)

LEMMA ReadingEnds ==
    ASSUME NEW s \in Seq(Packets), s # <<>>
    PROVE  /\ Head(s) \in Packets /\ Tail(s) \in Seq(Packets)
           /\ NoEnd(s) => Head(s).type # "END" /\ NoEnd(Tail(s))
           /\ EndsOnce(s) => IF Head(s).type = "END" THEN Tail(s) = <<>>
                             ELSE EndsOnce(Tail(s))
<1> DEFINE t == Tail(s)
<1>1. /\ Len(s) \in Nat /\ Len(s) > 0 /\ t \in Seq(Packets) /\ Len(t) = Len(s) - 1
      /\ Head(s) = s[1] /\ 1 \in 1 .. Len(s) /\ s[1] \in Packets
      /\ \A n \in 1 .. Len(t) : n + 1 \in 1 .. Len(s) /\ t[n] = s[n + 1]
  OBVIOUS
<1>2. Len(t) = 0 => t = <<>>
  BY <1>1, EmptySeq
<1> HIDE DEF t
<1>3. NoEnd(s) => Head(s).type # "END" /\ NoEnd(t)
  BY <1>1 DEF NoEnd
<1>4. ASSUME EndsOnce(s), Head(s).type = "END" PROVE t = <<>>
  BY <1>1, <1>2, <1>4 DEF EndsOnce
<1>5. ASSUME EndsOnce(s), Head(s).type # "END" PROVE EndsOnce(t)
  <2>1. Len(s) # 1
    BY <1>1, <1>5 DEF EndsOnce
  <2>2. ASSUME NEW n \in 1 .. Len(t) PROVE t[n].type = "END" <=> n = Len(t)
    <3>1. n + 1 \in 1 .. Len(s) /\ t[n] = s[n + 1]
      BY <1>1
    <3>2. s[n + 1].type = "END" <=> n + 1 = Len(s)
      BY <1>5, <3>1 DEF EndsOnce
    <3>3. QED
      BY <1>1, <3>1, <3>2
  <2>3. QED
    BY <1>1, <2>1, <2>2 DEF EndsOnce
<1>6. QED
  BY <1>1, <1>3, <1>4, <1>5 DEF t

LEMMA SendingEnds ==
    ASSUME NEW s \in Seq(Packets), NEW packet \in Packets, NoEnd(s)
    PROVE  IF packet.type = "END" THEN EndsOnce(Append(s, packet)) ELSE NoEnd(Append(s, packet))
<1> DEFINE t == Append(s, packet)
<1>1. /\ Len(s) \in Nat /\ Len(t) = Len(s) + 1
      /\ \A n \in 1 .. Len(t) :
            (n \in 1 .. Len(s) /\ t[n] = s[n]) \/ (n = Len(t) /\ t[n] = packet)
  OBVIOUS
<1> HIDE DEF t
<1>2. CASE packet.type = "END"
  <2>1. ASSUME NEW n \in 1 .. Len(t) PROVE t[n].type = "END" <=> n = Len(t)
    <3>1. CASE n = Len(t) /\ t[n] = packet
      BY <1>2, <3>1
    <3>2. CASE n \in 1 .. Len(s) /\ t[n] = s[n]
      BY <1>1, <3>2 DEF NoEnd
    <3>3. QED
      BY <1>1, <3>1, <3>2
  <2>2. QED
    BY <1>1, <1>2, <2>1 DEF EndsOnce, t
<1>3. CASE packet.type # "END"
  BY <1>1, <1>3 DEF NoEnd, t
<1>4. QED
  BY <1>2, <1>3

\* Once the table is full every client sits at its seat.
LEMMA ClientsSit ==
    ASSUME SeatsFilled, ConnectionsInPlace, phase # "join", NEW c \in Conns
    PROVE  sockets[Port[c]] = c
<1>1. Port[c] \in Seats /\ sockets[Port[c]] # NoConn
  BY PortAssumption DEF SeatsFilled, Taken
<1>2. sockets[Port[c]] \in Conns /\ Port[sockets[Port[c]]] = Port[c]
  BY <1>1 DEF ConnectionsInPlace
<1>3. QED
  BY <1>2, OneClientEach

\* Nobody is accepted twice.
LEMMA NewSeatIsFree ==
    ASSUME ServingInv, NEW i \in Seats, backlog[i] # <<>>, phase = "join"
    PROVE  sockets[i] = NoConn
<1>1. SUFFICES ASSUME sockets[i] # NoConn PROVE FALSE
  OBVIOUS
<1>2. PICK c \in Conns : Port[c] = i /\ serverEnd[c] = "none"
  BY NextIsNew DEF ServingInv
<1>3. sockets[i] = c
  BY <1>1, <1>2, OneClientEach DEF ServingInv, ConnectionsInPlace
<1>4. player_status[i] = "ACTIVE"
  BY <1>1 DEF ServingInv, ServerInv, SomebodyPlays, PlayersServed
<1>5. QED
  BY <1>2, <1>3, <1>4 DEF ServingInv, PlayersServed, Served

LEMMA SeatsFilledKeeps ==
    ASSUME ServingInv, SeatsFilled, [SessionNext]_sessionNetVars
    PROVE  SeatsFilled'
<1>1. IsFiniteSet(Seats) /\ Cardinality(Seats) = MAX_PLAYERS /\ MAX_PLAYERS \in Nat
  BY FS_Interval, SeatsAssumption DEF Seats
<1>2. Taken \subseteq Seats /\ IsFiniteSet(Taken) /\ Cardinality(Taken) \in Nat
      /\ Cardinality(Taken) <= MAX_PLAYERS
      /\ (Cardinality(Taken) = MAX_PLAYERS => Taken = Seats)
  BY <1>1, FS_Subset, FS_CardinalityType DEF Taken
<1>3. ASSUME UNCHANGED <<sockets, player_count>>, phase' # "join" => phase # "join"
      PROVE  SeatsFilled'
  BY <1>3 DEF SeatsFilled, Taken
<1>4. ASSUME NEW i \in Seats, Accept(i) PROVE SeatsFilled'
  <2>1. CASE /\ Join(i) /\ player_count' = player_count + 1
             /\ sockets' = [sockets EXCEPT ![i] = Head(backlog[i])]
    <3>1. backlog[i] # <<>> /\ phase = "join" /\ phase' = "join"
      BY <1>4, <2>1 DEF Accept, Join, ServingInv, ConnectionsInPlace
    <3>2. sockets[i] = NoConn /\ Head(backlog[i]) # NoConn
      BY <3>1, NewSeatIsFree, NextIsNew DEF ServingInv
    <3>3. Taken' = Taken \cup {i} /\ i \notin Taken
      BY <2>1, <3>2 DEF Taken, ServingInv, ConnectionsInPlace
    <3>4. Cardinality(Taken') = Cardinality(Taken) + 1
      BY <1>2, <3>3, FS_AddElement
    <3>5. QED
      BY <2>1, <3>1, <3>4 DEF SeatsFilled
  <2>2. QED
    BY <1>3, <1>4, <2>1 DEF Accept, tableVars
<1>5. CASE AllJoined
  <2>1. player_count >= MAX_PLAYERS /\ UNCHANGED <<sockets, player_count>>
    BY <1>5 DEF AllJoined, joinVars, netVars
  <2>2. Taken = Seats
    BY <1>1, <1>2, <2>1 DEF SeatsFilled
  <2>3. QED
    BY <2>1, <2>2 DEF SeatsFilled, Taken
<1>6. CASE Select \/ BeginHand \/ SkipLeft \/ AskReady \/ HaltAll \/ StartHand
  BY <1>3, <1>6 DEF Select, BeginHand, ResetGameState, SkipLeft, AskReady, Leave, HaltAll, Halt,
                    StartHand, joinVars, netVars, tableVars
<1>7. CASE BettingLoop
  BY <1>3, <1>7 DEF BettingLoop, joinVars
<1>8. CASE Listen \/ UNCHANGED sessionNetVars
  BY <1>3, <1>8 DEF Listen, sessionNetVars, serverVars, joinVars, netVars, tableVars
<1>9. ASSUME NEW c \in Conns, SessionActs(c) PROVE SeatsFilled'
  <2>1. UNCHANGED <<sockets, player_count, phase>>
    BY <1>9 DEF SessionActs, ActsTo, Connect, ClientSend, ClientRecv, ClientClose, SayLeave,
                serverVars, joinVars, netVars, tableVars
  <2>2. QED
    BY <1>3, <2>1
<1>10. QED
  BY <1>4, <1>5, <1>6, <1>7, <1>8, <1>9 DEF SessionNext, ServerNext

LEMMA OneThenAnother ==
    ASSUME NEW a, NEW b
    PROVE  /\ Append(<<>>, b) = <<b>> /\ Append(<<a>>, b) = <<a, b>>
           /\ Tail(<<a, b>>) = <<b>> /\ Tail(<<b>>) = <<>>
           /\ Head(<<a, b>>) = a /\ Head(<<b>>) = b
           /\ <<a, b>> # <<>> /\ <<b>> # <<>>
<1> DEFINE s == <<a>>
           t == <<a, b>>
<1>1. s \in Seq({a, b}) /\ Len(s) = 1 /\ s[1] = a
  OBVIOUS
<1>2. t \in Seq({a, b}) /\ Len(t) = 2 /\ t[1] = a /\ t[2] = b
  OBVIOUS
<1>3. Append(s, b) = t
  <2>1. Append(s, b) \in Seq({a, b}) /\ Len(Append(s, b)) = 2
    BY <1>1
  <2>2. \A i \in 1 .. 2 : Append(s, b)[i] = t[i]
    BY <1>1
  <2>3. QED
    BY <1>2, <2>1, <2>2, SeqEqual
<1>4. Tail(t) = <<b>> /\ Tail(<<b>>) = <<>> /\ Append(<<>>, b) = <<b>>
  OBVIOUS
<1>5. QED
  BY <1>3, <1>4

\* What a client does that is not on the ready screen after it.
LEMMA AwayFromReady ==
    ASSUME NEW c \in Conns,
           at'[c] \notin {"start", "join"},
           at'[c] \in {"prompt", "receive"} => screen'[c] # "ready" \/ server' # "up"
    PROVE  InStep(c)'
BY DEF InStep

\* A client sends to a server that has not closed its connection.
LEMMA SendersReach ==
    ASSUME NEW c \in Conns, NEW packet, ClientSend(c, packet),
           toServer \in [Conns -> Seq(Sendable)],
           server = "up", serverEnd[c] # "closed"
    PROVE  toServer'[c] = Append(toServer[c], packet)
BY DEF ClientSend, ServerIsGone

\* send_packet on the ready screen, and what its handlers read: a client waits for a
\* hand only after its READY, and is back when it has read the END of it.
LEMMA ClientStaysInStep ==
    ASSUME TuiInv, SessionInv, ReadyInv, NEW c \in Conns,
           ProgramStep(c) \/ UserStep(c) \/ CloseTerminal(c)
    PROVE  InStep(c)'
<1>1. /\ ScreenRight(c) /\ ScreenTypes /\ at \in [Conns -> Places] /\ InStep(c)
      /\ toServer \in [Conns -> Seq(Sendable)] /\ toClient \in [Conns -> Seq(Packets)]
  BY DEF TuiInv, SessionInv, PlacesInv, ReadyInv, WaitInv, StreamInv
<1>2. CASE Start(c) /\ UNCHANGED screenVars
  BY <1>1, <1>2 DEF Start, Connect, GoTo, streamVars, InStep
<1>3. CASE Retry(c) /\ UNCHANGED screenVars
  BY <1>1, <1>3 DEF Retry, GoTo, serverVars, netVars, streamVars, InStep
<1>4. CASE SendJoin(c) /\ UNCHANGED screenVars
  <2>1. /\ at[c] = "join" /\ at'[c] = "prompt" /\ ClientSend(c, Move("JOIN"))
    BY <1>1, <1>4 DEF SendJoin, GoTo
  <2>2. /\ serverEnd[c] = "none" /\ toServer[c] = <<>> /\ toClient[c] = <<>>
        /\ UNCHANGED <<server, serverEnd, toClient>>
    BY <1>1, <2>1 DEF InStep, ClientSend
  <2>3. server = "up" => toServer'[c] = <<Move("JOIN")>>
    <3>1. Append(<<>>, Move("JOIN")) = <<Move("JOIN")>>
      OBVIOUS
    <3>2. QED
      BY <1>1, <2>1, <2>2, <3>1, SendersReach
  <2>4. QED
    BY <2>1, <2>2, <2>3 DEF InStep
<1>5. CASE (TakeResponse(c, Back(c)) \/ RecvFails(c, Back(c))) /\ UNCHANGED screenVars
  <2>1. Back(c) \in {"prompt", "return"} /\ screen' = screen
    BY <1>5 DEF Back, screenVars
  <2>2. CASE at[c] = "response"
    <3>1. screen'[c] # "ready"
      BY <1>1, <2>1, <2>2 DEF ScreenRight
    <3>2. at'[c] \in {"receive", "prompt", "return"}
      BY <1>1, <1>5, <2>1 DEF TakeResponse, RecvFails, GoTo
    <3>3. QED
      BY <3>1, <3>2, AwayFromReady
  <2>3. CASE at[c] = "receive"
    <3>1. RecvFails(c, Back(c)) /\ at'[c] \in {"prompt", "return"} /\ server' = server
      BY <1>1, <1>5, <2>1, <2>3 DEF TakeResponse, RecvFails, GoTo, serverVars
    <3>2. screen[c] = "ready"
      BY <1>1, <2>3 DEF ScreenRight
    <3>3. server # "up"
      BY <1>1, <2>3, <3>1, <3>2 DEF RecvFails, ServerIsGone, InStep
    <3>4. QED
      BY <3>1, <3>3, AwayFromReady
  <2>4. QED
    BY <1>5, <2>2, <2>3 DEF TakeResponse, RecvFails
<1>6. CASE TakePacket(c)
  <2> DEFINE packet == Head(toClient[c])
  <2>1. /\ at[c] = "receive" /\ toClient[c] # <<>> /\ toClient[c] \in Seq(Packets)
        /\ screen[c] = "ready"
    BY <1>1, <1>6 DEF TakePacket, ScreenRight
  <2>2. /\ packet \in Packets
        /\ NoEnd(toClient[c]) => packet.type # "END" /\ NoEnd(Tail(toClient[c]))
        /\ EndsOnce(toClient[c]) => IF packet.type = "END" THEN Tail(toClient[c]) = <<>>
                                    ELSE EndsOnce(Tail(toClient[c]))
    BY <2>1, ReadingEnds
  <2> HIDE DEF packet
  <2>3. CASE packet.type = "HALT"
    <3>1. at'[c] = "gone"
      BY <1>1, <1>6, <2>3 DEF TakePacket, GoTo, packet
    <3>2. QED
      BY <3>1, AwayFromReady
  <2>4. CASE packet.type # "HALT"
    <3>1. /\ toClient'[c] = Tail(toClient[c])
          /\ UNCHANGED <<server, serverEnd, toServer, phase, asking>>
      BY <1>1, <1>6, <2>4 DEF TakePacket, ClientRecv, tableVars, readyVars, packet
    <3>2. NotAsked(c)' <=> NotAsked(c)
      BY <3>1 DEF NotAsked
    <3>3. \/ packet.type = "END" /\ at'[c] = "prompt"
          \/ packet.type = "INFO" /\ at'[c] = "prompt" /\ screen'[c] # "ready"
          \/ packet.type = "INFO" /\ at'[c] = "receive"
      BY <1>1, <1>6, <2>2, <2>4
      DEF TakePacket, ReadyScreen, GameScreen, Loop, GoTo, ScreenTypes, Packets, packet
    <3>4. server = "up" => \/ ~NotAsked(c) /\ NoEnd(toClient[c])
                           \/ NotAsked(c) /\ EndsOnce(toClient[c])
      BY <1>1, <2>1 DEF InStep, ServingInv, ConnectionsInPlace, SessionInv
    <3>5. server = "up" => serverEnd[c] = "open" /\ toServer[c] = <<>>
      BY <1>1, <2>1 DEF InStep, SessionInv, ServingInv, ConnectionsInPlace
    <3>6. QED
      BY <2>2, <3>1, <3>2, <3>3, <3>4, <3>5 DEF InStep
  <2>5. QED
    BY <2>3, <2>4
<1>7. CASE ClickFirst(c)
  <2>1. at[c] = "prompt" /\ UNCHANGED screenVars
    BY <1>7 DEF ClickFirst, Click
  <2>2. CASE screen[c] # "ready"
    <3>1. screen'[c] # "ready" /\ at'[c] \notin {"start", "join"}
      BY <1>1, <1>7, <2>1, <2>2 DEF ClickFirst, SendPacket, SendThen, GoTo, screenVars
    <3>2. QED
      BY <3>1, AwayFromReady
  <2>3. CASE screen[c] = "ready"
    <3>1. SendPacket(c, Move("READY"))
      BY <1>7, <2>3 DEF ClickFirst
    <3>2. CASE ClientSend(c, Move("READY")) /\ GoTo(c, "receive")
      <4>1. /\ at'[c] = "receive"
            /\ UNCHANGED <<server, serverEnd, toClient, phase, asking>>
        BY <1>1, <3>2 DEF GoTo, ClientSend, tableVars, readyVars
      <4>2. NotAsked(c)' <=> NotAsked(c)
        BY <4>1 DEF NotAsked
      <4>3. server = "up" /\ serverEnd[c] # "closed" =>
                toServer'[c] = Append(toServer[c], Move("READY"))
        BY <1>1, <3>2, SendersReach
      <4>4. /\ Append(<<>>, Move("READY")) = <<Move("READY")>>
            /\ Append(<<Move("JOIN")>>, Move("READY")) = <<Move("JOIN"), Move("READY")>>
        BY OneThenAnother
      <4>5. QED
        BY <1>1, <2>1, <2>3, <4>1, <4>2, <4>3, <4>4 DEF InStep
    <3>3. CASE GoTo(c, "gone")
      BY <1>1, <3>3, AwayFromReady DEF GoTo
    <3>4. QED
      BY <3>1, <3>2, <3>3 DEF SendPacket, SendThen, Move
  <2>4. QED
    BY <2>2, <2>3
<1>8. CASE ClickRaise(c) \/ ClickLast(c) \/ TypeAmount(c) \/ RaiseAfterMove(c) \/ CloseTerminal(c)
  <2>1. CASE ClickRaise(c) \/ CloseTerminal(c)
    BY <1>1, <2>1, AwayFromReady DEF ClickRaise, CloseTerminal, GoTo
  <2>2. CASE ClickLast(c)
    <3>1. GoTo(c, "gone") \/ GoTo(c, "response")
      BY <2>2, SendersGo DEF ClickLast, SayLeave, Move
    <3>2. QED
      BY <1>1, <3>1, AwayFromReady DEF GoTo
  <2>3. CASE TypeAmount(c) \/ RaiseAfterMove(c)
    <3>1. screen'[c] # "ready" /\ at'[c] \notin {"start", "join"}
      BY <1>1, <2>3
      DEF TypeAmount, RaiseAfterMove, SendPacket, SendThen, GoTo, ScreenRight
    <3>2. QED
      BY <3>1, AwayFromReady
  <2>4. QED
    BY <1>8, <2>1, <2>2, <2>3
<1>9. CASE DrawAgain(c)
  <2>1. MyTurn(c)
    BY <1>1, <1>9 DEF DrawAgain, ScreenRight
  <2>2. screen'[c] # "ready" /\ at'[c] = "prompt"
    BY <1>1, <1>9, <2>1 DEF DrawAgain, GameScreen, Loop, GoTo, MyTurn, ScreenTypes
  <2>3. QED
    BY <2>2, AwayFromReady
<1>10. QED
  BY <1>2, <1>3, <1>4, <1>5, <1>6, <1>7, <1>8, <1>9 DEF ProgramStep, SessionStep, UserStep

-----------------------------------------------------------------------------
(* What the server does to a client on the ready screen *)

\* On the ready screen, or receiving after it, and the server can be reached.
AtReady(c) == server = "up" /\ at[c] \in {"prompt", "receive"} /\ screen[c] = "ready"

\* A step of the server that the client does not see.
LEMMA UnseenKeepsStep ==
    ASSUME NEW c \in Conns, InStep(c), UNCHANGED <<at, screen>>,
           serverEnd'[c] = serverEnd[c], toServer'[c] = toServer[c], toClient'[c] = toClient[c],
           server' = "up" => server = "up" \/ at[c] \notin {"prompt", "receive"},
           server' = "up" /\ AtReady(c) /\ serverEnd[c] = "open" =>
              (NotAsked(c)' <=> NotAsked(c))
    PROVE  InStep(c)'
BY DEF InStep, AtReady

\* Once the table is full a client on the ready screen plays.
LEMMA ReadyClientsPlay ==
    ASSUME SessionInv, SeatsFilled, phase # "join", NEW c \in Conns, AtReady(c)
    PROVE  /\ sockets[Port[c]] = c /\ serverEnd[c] = "open"
           /\ player_status[Port[c]] = "ACTIVE"
           /\ ~Gone(c) /\ Playing(c)
<1>1. at[c] # "gone" /\ Port[c] \in Seats
  BY PortAssumption DEF AtReady
<1>2. sockets[Port[c]] = c
  BY ClientsSit DEF SessionInv, ServingInv
<1>3. serverEnd[c] = "open" /\ player_status[Port[c]] = "ACTIVE"
  BY <1>1, <1>2, SeatedIsServed DEF SessionInv
<1>4. ~Gone(c)
  BY <1>1, TheGoneAreGone DEF SessionInv
<1>5. QED
  BY <1>1, <1>2, <1>3, <1>4 DEF Playing, NonLeft, SeatsThat

\* accept takes the JOIN of a client that has sent it.
LEMMA AcceptKeepsStep ==
    ASSUME TuiInv, SessionInv, ReadyInv, UNCHANGED <<at, screen>>, server = "up",
           NEW i \in Seats, Accept(i), NEW d \in Conns
    PROVE  InStep(d)'
<1>1. PICK c : c = Head(backlog[i])
  OBVIOUS
<1>2. /\ phase = "join" /\ phase' = "join" /\ backlog[i] # <<>> /\ Readable(c)
      /\ UNCHANGED <<server, asking, toClient>>
  BY <1>1
  DEF Accept, Join, SessionInv, ServingInv, ConnectionsInPlace, tableVars, readyVars
<1>3. c \in Conns /\ serverEnd[c] = "none" /\ clientEnd[c] # "idle"
  BY <1>1, <1>2, NextIsNew DEF SessionInv, ServingInv
<1>4. /\ serverEnd \in [Conns -> {"none", "open", "closed"}]
      /\ toServer \in [Conns -> Seq(Sendable)] /\ at \in [Conns -> Places]
      /\ \A e \in Conns : InStep(e) /\ ScreenRight(e)
  BY DEF SessionInv, ServingInv, ConnectionsInPlace, WaitInv, PlacesInv, ReadyInv, TuiInv
<1>5. /\ toServer' = IF toServer[c] # <<>> THEN [toServer EXCEPT ![c] = Tail(@)] ELSE toServer
      /\ \/ serverEnd' = [serverEnd EXCEPT ![c] = "open"]
         \/ /\ serverEnd' = [serverEnd EXCEPT ![c] = "closed"]
            /\ ~Receives(c, "JOIN")
  BY <1>1 DEF Accept, Consume
<1>6. CASE d # c
  <2>1. serverEnd'[d] = serverEnd[d] /\ toServer'[d] = toServer[d] /\ toClient'[d] = toClient[d]
    BY <1>2, <1>3, <1>4, <1>5, <1>6
  <2>2. NotAsked(d)' <=> NotAsked(d)
    BY <1>2 DEF NotAsked
  <2>3. QED
    BY <1>2, <1>4, <2>1, <2>2, UnseenKeepsStep
<1>7. CASE d = c
  <2>1. CASE AtReady(c)
    <3>1. toClient[c] = <<>> /\ toServer[c] = IF at[c] = "prompt" THEN <<Move("JOIN")>>
                                              ELSE <<Move("JOIN"), Move("READY")>>
      BY <1>3, <1>4, <2>1 DEF InStep, AtReady
    <3>2. /\ toServer[c] # <<>> /\ Head(toServer[c]) = Move("JOIN")
          /\ Tail(toServer[c]) = IF at[c] = "prompt" THEN <<>> ELSE <<Move("READY")>>
      BY <3>1, OneThenAnother
    <3>3. serverEnd'[c] = "open" /\ toServer'[c] = Tail(toServer[c])
      BY <1>3, <1>4, <1>5, <3>2 DEF Receives, Move
    <3>4. NotAsked(c)'
      BY <1>2 DEF NotAsked
    <3>5. QED
      BY <1>2, <1>7, <2>1, <3>1, <3>2, <3>3, <3>4 DEF InStep, AtReady
  <2>2. CASE ~AtReady(c)
    <3>1. at[c] \notin {"start", "join"}
      <4>1. at[c] # "start"
        BY <1>3 DEF SessionInv, PlacesInv
      <4>2. at[c] = "join" => toServer[c] = <<>> /\ ~Gone(c)
        BY <1>3, <1>4, TheGoneAreGone DEF InStep, SessionInv
      <4>3. QED
        BY <1>2, <4>1, <4>2 DEF Readable
    <3>2. QED
      BY <1>2, <1>7, <2>2, <3>1 DEF InStep, AtReady
  <2>3. QED
    BY <2>1, <2>2
<1>8. QED
  BY <1>6, <1>7

\* A seat that is asked has sent its READY, which is all there is to read.
LEMMA AskKeepsStep ==
    ASSUME TuiInv, SessionInv, ReadyInv, UNCHANGED <<at, screen>>, server = "up",
           AskReady, NEW d \in Conns
    PROVE  InStep(d)'
<1>1. PICK c : c = sockets[asking]
  OBVIOUS
<1>2. /\ asking \in Seats /\ asking \in Nat /\ asking' = asking + 1
      /\ phase = "ready" /\ phase' = "ready"
      /\ UNCHANGED <<server, toClient>>
      /\ c # NoConn => Readable(c)
      /\ toServer' = IF ReceivesNothing(c) THEN toServer ELSE [toServer EXCEPT ![c] = Tail(@)]
      /\ \/ serverEnd' = serverEnd
         \/ /\ serverEnd' = [serverEnd EXCEPT ![c] = "closed"]
            /\ ReceivesNothing(c) \/ Receives(c, "LEAVE")
  BY <1>1 DEF AskReady, Leaves, Leave, Consume, tableVars, SessionInv, ServingInv, ServerInv, SomebodyPlays
<1>3. /\ InStep(d) /\ Port[d] \in Nat /\ sockets[Port[d]] = d
      /\ serverEnd \in [Conns -> {"none", "open", "closed"}]
      /\ toServer \in [Conns -> Seq(Sendable)]
  BY <1>2, ClientsSit, PortAssumption, SeatsAssumption
  DEF ReadyInv, Seats, SessionInv, ServingInv, ConnectionsInPlace, WaitInv
<1>4. CASE d # c
  <2>1. Port[d] # asking
    BY <1>1, <1>3, <1>4
  <2>2. NotAsked(d)' <=> NotAsked(d)
    BY <1>2, <1>3, <2>1 DEF NotAsked
  <2>3. serverEnd'[d] = serverEnd[d] /\ toServer'[d] = toServer[d] /\ toClient'[d] = toClient[d]
    BY <1>2, <1>3, <1>4
  <2>4. QED
    BY <1>2, <1>3, <2>2, <2>3, UnseenKeepsStep
<1>5. CASE d = c
  <2>1. c \in Conns /\ c # NoConn /\ Port[c] = asking
    BY <1>1, <1>2, <1>3, <1>5, ConnsAssumption DEF SessionInv, ServingInv, ConnectionsInPlace
  <2>2. CASE AtReady(c)
    <3>1. ~Gone(c) /\ serverEnd[c] = "open"
      BY <1>2, <2>1, <2>2, ReadyClientsPlay DEF ReadyInv
    <3>2. toServer[c] # <<>>
      BY <1>2, <2>1, <3>1 DEF Readable
    <3>3. at[c] = "receive" /\ toServer[c] = <<Move("READY")>> /\ toClient[c] = <<>>
      BY <1>3, <1>5, <2>2, <3>1, <3>2 DEF InStep, AtReady
    <3>4. Head(toServer[c]) = Move("READY") /\ Tail(toServer[c]) = <<>>
      BY <3>3, OneThenAnother
    <3>5. ~ReceivesNothing(c) /\ ~Receives(c, "LEAVE")
      BY <2>1, <3>2, <3>4 DEF ReceivesNothing, Receives, Move
    <3>6. toServer'[c] = <<>> /\ serverEnd'[c] = "open" /\ toClient'[c] = <<>>
      BY <1>2, <1>3, <2>1, <3>1, <3>3, <3>4, <3>5
    <3>7. ~NotAsked(c)' /\ NoEnd(<<>>)
      <4>1. NoEnd(<<>>)
        BY DEF NoEnd
      <4>2. QED
        BY <1>2, <2>1, <4>1 DEF NotAsked
    <3>8. QED
      BY <1>5, <2>2, <3>3, <3>6, <3>7 DEF InStep, AtReady
  <2>3. CASE ~AtReady(c)
    <3>1. at[c] \notin {"start", "join"}
      <4>1. at[c] # "gone" => serverEnd[c] = "open"
        BY <1>3, <1>5, SeatedIsServed DEF SessionInv
      <4>2. QED
        BY <1>3, <1>5, <4>1 DEF InStep
    <3>2. QED
      BY <1>2, <1>5, <2>3, <3>1 DEF InStep, AtReady
  <2>4. QED
    BY <2>2, <2>3
<1>6. QED
  BY <1>4, <1>5

\* A hand goes to everybody from the first INFO to the END.
LEMMA BroadcastKeepsStep ==
    ASSUME SessionInv, ReadyInv, UNCHANGED <<at, screen, serverEnd, toServer, asking>>,
           server = "up", phase = "hand" \/ (phase = "ready" /\ asking = MAX_PLAYERS),
           NEW packet \in Packets, Broadcast(packet),
           server' = "up" => /\ Broken = {}
                             /\ \/ packet.type = "INFO" /\ phase' = "hand"
                                \/ packet.type = "END" /\ phase' = "reset",
           NEW c \in Conns
    PROVE  InStep(c)'
<1>1. \A p \in NonLeft : sockets[p] \in Conns
  BY SendersHaveSockets DEF SessionInv
<1>2. /\ Broken = {} /\ ~Gone(c) /\ Playing(c) =>
            toClient'[c] = Append(toClient[c], packet)
      /\ ~Playing(c) => toClient'[c] = toClient[c]
  BY <1>1, BroadcastAdds DEF SessionInv, ServingInv, StreamInv
<1>3. InStep(c) /\ toClient[c] \in Seq(Packets) /\ Port[c] \in Seats
  BY PortAssumption DEF ReadyInv, SessionInv, StreamInv
<1>4. ~NotAsked(c)
  <2>1. Port[c] \in Nat /\ Port[c] < MAX_PLAYERS
    BY <1>3, SeatsAssumption DEF Seats
  <2>2. QED
    BY <2>1, SeatsAssumption DEF NotAsked
<1>5. at[c] \in {"start", "join"} => toClient'[c] = toClient[c]
  <2>1. ASSUME Playing(c), at[c] # "gone" PROVE serverEnd[c] = "open"
    <3>1. sockets[Port[c]] = c
      BY <2>1, ConnsAssumption
      DEF Playing, NonLeft, SeatsThat, SessionInv, ServingInv, ConnectionsInPlace
    <3>2. QED
      BY <2>1, <3>1, SeatedIsServed DEF SessionInv
  <2>2. QED
    BY <1>2, <1>3, <2>1 DEF InStep
<1>6. CASE server' = "up" /\ AtReady(c)
  <2>1. ~Gone(c) /\ Playing(c) /\ serverEnd[c] = "open"
    BY <1>6, ReadyClientsPlay DEF ReadyInv
  <2>2. toClient'[c] = Append(toClient[c], packet)
    BY <1>2, <1>6, <2>1
  <2>3. at[c] = "receive" /\ toServer[c] = <<>> /\ NoEnd(toClient[c])
    BY <1>3, <1>4, <1>6, <2>1 DEF InStep, AtReady
  <2>4. IF packet.type = "END" THEN EndsOnce(toClient'[c]) ELSE NoEnd(toClient'[c])
    BY <1>3, <2>2, <2>3, SendingEnds
  <2>5. (packet.type = "END" => NotAsked(c)') /\ (packet.type = "INFO" => ~NotAsked(c)')
    BY <1>6 DEF NotAsked
  <2>6. QED
    BY <1>6, <2>1, <2>3, <2>4, <2>5 DEF InStep, AtReady
<1>7. CASE ~(server' = "up" /\ AtReady(c))
  BY <1>3, <1>5, <1>7 DEF InStep, AtReady
<1>8. QED
  BY <1>6, <1>7

LEMMA HandKeepsStep ==
    ASSUME SessionInv, ReadyInv, UNCHANGED <<at, screen>>, server = "up",
           HaltAll \/ StartHand \/ BettingLoop,
           NEW c \in Conns
    PROVE  InStep(c)'
<1>1. NonLeft \cap Broken = Broken
  BY DEF Broken
<1>2. /\ ServerInv /\ dealer_player \in Seats
      /\ Active # {} => NextIn(dealer_player, Active) \in Seats
  BY TurnGoesToASeat DEF SessionInv, ServingInv, StreamInv
<1>3. CASE HaltAll
  <2>1. /\ phase = "ready" /\ asking = MAX_PLAYERS /\ Broadcast(Packet("HALT")) /\ server' # "up"
        /\ UNCHANGED <<serverEnd, toServer, asking>>
    BY <1>3 DEF HaltAll, Halt, readyVars
  <2>2. Packet("HALT") \in Packets /\ Packet("HALT").type = "HALT"
    BY DEF Packet, Packets
  <2>3. QED
    BY <2>1, <2>2, BroadcastKeepsStep
<1>4. CASE StartHand
  <2>1. /\ phase = "ready" /\ asking = MAX_PLAYERS /\ Active # {}
        /\ UNCHANGED <<serverEnd, toServer, asking, highest_bet>>
    BY <1>2, <1>4, StartersPlay DEF StartHand, readyVars
  <2>2. /\ Broadcast(Packet("INFO")) /\ Survives(NonLeft) /\ phase' = "hand"
        /\ current_player' = NextIn(dealer_player, Active)
    BY <1>4, <2>1 DEF StartHand
  <2>3. Packet("INFO") \in Packets /\ Packet("INFO").type = "INFO"
    BY <1>2, <2>1, <2>2, SeatsAssumption DEF Packet, Packets, Seats, ServerInv, NoBets
  <2>4. server' = "up" => Broken = {}
    BY <1>1, <2>2 DEF Survives
  <2>5. QED
    BY <2>1, <2>2, <2>3, <2>4, BroadcastKeepsStep
<1>5. CASE BettingLoop
  <2>1. /\ phase = "hand" /\ CheckBettingEnd /\ Active # {}
        /\ UNCHANGED <<serverEnd, toServer, asking>>
    BY <1>2, <1>5, NoBetsEndBetting DEF BettingLoop, ServerInv, SomebodyPlays, readyVars
  <2>2. CASE Showdown
    <3>1. Survives(NonLeft) /\ phase' = "reset"
      BY <2>2 DEF Showdown
    <3>2. PICK winner : /\ EndPacket(winner) \in Packets /\ EndPacket(winner).type = "END"
                        /\ Broadcast(EndPacket(winner))
      BY <2>1, <2>2, ShowdownNamesTheWinner DEF SessionInv
    <3>3. server' = "up" => Broken = {}
      BY <1>1, <3>1 DEF Survives
    <3>4. QED
      BY <2>1, <3>1, <3>2, <3>3, BroadcastKeepsStep
  <2>3. CASE NextStreet
    <3>1. /\ Broadcast(Packet("INFO")) /\ Survives(NonLeft) /\ phase' = "hand" /\ highest_bet' = 0
          /\ current_player' = NextIn(dealer_player, Active)
      BY <2>1, <2>3 DEF NextStreet, ServerCommunity
    <3>2. Packet("INFO") \in Packets /\ Packet("INFO").type = "INFO"
      BY <1>2, <2>1, <3>1, SeatsAssumption DEF Packet, Packets, Seats
    <3>3. server' = "up" => Broken = {}
      BY <1>1, <3>1 DEF Survives
    <3>4. QED
      BY <2>1, <3>1, <3>2, <3>3, BroadcastKeepsStep
  <2>4. QED
    BY <1>5, <2>1, <2>2, <2>3 DEF BettingLoop
<1>6. QED
  BY <1>3, <1>4, <1>5

LEMMA ServerStaysInStep ==
    ASSUME TuiInv, SessionInv, ReadyInv, ServerNext, UNCHANGED <<at, screen>>,
           NEW c \in Conns
    PROVE  InStep(c)'
<1>1. InStep(c) /\ Port[c] \in Seats /\ Port[c] \in Nat
  BY PortAssumption, SeatsAssumption DEF ReadyInv, Seats
<1>2. CASE Listen
  <2>1. /\ server = "starting" /\ UNCHANGED <<serverEnd, toServer, toClient, phase, asking>>
    BY <1>2 DEF Listen, netVars, streamVars, tableVars, readyVars
  <2>2. at[c] \in {"start", "gone"}
    BY <2>1 DEF SessionInv, PlacesInv
  <2>3. QED
    BY <1>1, <2>1, <2>2, UnseenKeepsStep DEF AtReady
<1>3. CASE server = "up" /\ (Select \/ AllJoined \/ BeginHand)
  <2>1. UNCHANGED <<server, serverEnd, toServer, toClient>>
    BY <1>3 DEF Select, AllJoined, BeginHand, netVars, streamVars
  <2>2. NotAsked(c)' <=> NotAsked(c)
    BY <1>1, <1>3
    DEF Select, AllJoined, JoinDone, BeginHand, ResetGameState, NotAsked, tableVars, readyVars
  <2>3. QED
    BY <1>1, <1>3, <2>1, <2>2, UnseenKeepsStep
<1>4. CASE server = "up" /\ SkipLeft
  <2>1. /\ phase = "ready" /\ player_status[asking] = "LEFT"
        /\ asking \in Nat /\ asking' = asking + 1
        /\ UNCHANGED <<server, phase, serverEnd, toServer, toClient>>
    BY <1>4 DEF SkipLeft, tableVars, netVars, streamVars, SessionInv, ServingInv, ServerInv,
                SomebodyPlays
  <2>2. AtReady(c) => asking # Port[c]
    BY <2>1, ReadyClientsPlay DEF ReadyInv
  <2>3. AtReady(c) => (NotAsked(c)' <=> NotAsked(c))
    BY <1>1, <2>1, <2>2 DEF NotAsked
  <2>4. QED
    BY <1>1, <1>4, <2>1, <2>3, UnseenKeepsStep
<1>5. ASSUME server = "up", NEW i \in Seats, Accept(i) PROVE InStep(c)'
  BY <1>5, AcceptKeepsStep
<1>6. CASE server = "up" /\ AskReady
  BY <1>6, AskKeepsStep
<1>7. CASE server = "up" /\ (HaltAll \/ StartHand \/ BettingLoop)
  BY <1>7, HandKeepsStep
<1>8. QED
  BY <1>2, <1>3, <1>4, <1>5, <1>6, <1>7 DEF ServerNext

\* A step of one client does not touch another.
LEMMA OthersStayInStep ==
    ASSUME TuiInv, SessionInv, ReadyInv, NEW c \in Conns,
           ProgramStep(c) \/ UserStep(c) \/ CloseTerminal(c),
           NEW d \in Conns, d # c
    PROVE  InStep(d)'
<1>1. Others(c) /\ SessionActs(c)
  BY ViewsChangeAlone, SessionKeepsScreens, PacketsKeepScreens, UsersKeepScreens
  DEF SessionInv, ProgramStep
<1>2. /\ at'[d] = at[d] /\ screen'[d] = screen[d] /\ InStep(d)
  BY <1>1 DEF Others, view, ReadyInv
<1>3. /\ toServer \in [Conns -> Seq(Sendable)] /\ toClient \in [Conns -> Seq(Packets)]
  BY DEF SessionInv, WaitInv, StreamInv
<1>4. /\ UNCHANGED <<server, phase, asking, serverEnd>>
      /\ toServer'[d] = toServer[d] /\ toClient'[d] = toClient[d]
  BY <1>1, <1>3
  DEF SessionActs, ActsTo, Connect, ClientSend, ClientRecv, ClientClose, SayLeave,
      serverVars, netVars, streamVars, tableVars, readyVars
<1>5. QED
  BY <1>2, <1>4 DEF InStep, NotAsked

LEMMA ReadyKeeps ==
    ASSUME TuiInv, SessionInv, ReadyInv, [SystemNext]_systemVars
    PROVE  ReadyInv'
<1>1. [SessionNext]_sessionNetVars
  BY TuiKeeps DEF SessionInv
<1>2. SeatsFilled'
  BY <1>1, SeatsFilledKeeps DEF SessionInv, ReadyInv
<1>3. ASSUME NEW c \in Conns PROVE InStep(c)'
  <2>1. CASE ServerStep
    <3>1. ServerNext /\ UNCHANGED <<at, screen>>
      BY <2>1 DEF ServerStep, tuiVars, sessionVars, screenVars
    <3>2. QED
      BY <3>1, ServerStaysInStep
  <2>2. ASSUME NEW d \in Conns, ProgramStep(d) \/ UserStep(d) \/ CloseTerminal(d)
        PROVE  InStep(c)'
    BY <2>2, ClientStaysInStep, OthersStayInStep
  <2>3. CASE UNCHANGED systemVars
    BY <2>3 DEF systemVars, serverVars, tableVars, readyVars, netVars, streamVars, tuiVars,
                sessionVars, screenVars, ReadyInv, InStep, NotAsked
  <2>4. QED
    BY <2>1, <2>2, <2>3 DEF SystemNext
<1>4. QED
  BY <1>2, <1>3 DEF ReadyInv

LEMMA ReadyInvHoldsInitially == SystemInit => ReadyInv
<1> SUFFICES ASSUME SystemInit PROVE ReadyInv
  OBVIOUS
<1>1. Taken = {}
  BY DEF SystemInit, ServerInit, Taken
<1>2. SeatsFilled
  BY <1>1, FS_EmptySet DEF SystemInit, ServerInit, Init, SeatsFilled
<1>3. QED
  BY <1>2 DEF SystemInit, ServerInit, TuiInit, SessionInit, ReadyInv, InStep

-----------------------------------------------------------------------------
(* Theorems *)

LEMMA SessionInvHolds == SystemSpec => [](SessionInv /\ TuiInv)
<1>1. SystemInit => SessionInv /\ TuiInv
  BY SessionInvHoldsInitially, TuiInvHoldsInitially DEF SystemInit, TuiInit
<1>2. SessionInv /\ TuiInv /\ [SystemNext]_systemVars => SessionInv' /\ TuiInv'
  <2>1. SUFFICES ASSUME SessionInv, TuiInv, [SystemNext]_systemVars PROVE SessionInv' /\ TuiInv'
    OBVIOUS
  <2>2. TuiInv' /\ [SessionNext]_sessionNetVars
    BY <2>1, TuiKeeps DEF SessionInv
  <2>3. QED
    BY <2>1, <2>2, SessionKeeps
<1>3. QED
  BY <1>1, <1>2, PTL DEF SystemSpec

\* The server never waits in the ready loop for a terminal client that waits for the
\* server, whatever its user clicks and types: recv_packet answers to what was sent.
THEOREM NobodyWaits == SystemSpec => []NoMutualWait
<1>1. SessionInv => NoMutualWait
  BY NobodyWaitsForEachOther
<1>2. QED
  BY <1>1, SessionInvHolds, PTL

\* No user is left in front of a screen with its buttons disabled unless the server is
\* gone: every way back to poker_game_screen and ready_leave_screen enables them.
THEOREM ScreensAnswer == SystemSpec => []OnlyADeadServerFreezes
<1>1. SystemInit => OnlyADeadServerFreezes
  BY DEF SystemInit, TuiInit, SessionInit, OnlyADeadServerFreezes
<1>2. SessionInv /\ TuiInv /\ OnlyADeadServerFreezes /\ [SystemNext]_systemVars
        => OnlyADeadServerFreezes'
  BY FreezesKeep
<1>3. QED
  BY <1>1, <1>2, SessionInvHolds, PTL DEF SystemSpec

LEMMA ReadyInvHolds == SystemSpec => []ReadyInv
<1>1. SystemInit => ReadyInv
  BY ReadyInvHoldsInitially
<1>2. SessionInv /\ TuiInv /\ ReadyInv /\ [SystemNext]_systemVars => ReadyInv'
  BY ReadyKeeps
<1>3. QED
  BY <1>1, <1>2, SessionInvHolds, PTL DEF SystemSpec

\* A client that shows the ready screen is in no hand: its READY and its LEAVE reach
\* the server between hands, as poker_client.h asks.
THEOREM ReadyIsSaidBetweenHands == SystemSpec => []ReadyScreenBetweenHands
<1>1. SessionInv /\ ReadyInv => ReadyScreenBetweenHands
  <2>1. SUFFICES ASSUME SessionInv, ReadyInv, NEW c \in Conns,
                        at[c] = "prompt", screen[c] = "ready", server = "up", phase = "hand"
                 PROVE  FALSE
    BY DEF ReadyScreenBetweenHands
  <2>2. AtReady(c) /\ InStep(c)
    BY <2>1 DEF AtReady, ReadyInv
  <2>3. serverEnd[c] = "open"
    BY <2>1, <2>2, ReadyClientsPlay DEF ReadyInv
  <2>4. NotAsked(c)
    BY <2>1, <2>2, <2>3 DEF InStep
  <2>5. QED
    BY <2>1, <2>4 DEF NotAsked
<1>2. QED
  BY <1>1, SessionInvHolds, ReadyInvHolds, PTL

=============================================================================

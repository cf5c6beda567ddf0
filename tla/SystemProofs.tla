---------------------------- MODULE SystemProofs ----------------------------
(***************************************************************************)
(* The server and the automated clients never wait for each other, for     *)
(* every number of them and every script.                                  *)
(***************************************************************************)
EXTENDS PokerSystem, PokerClientProofs

\* The automated client is a client built on poker_client.c.
LEMMA ClientStepsAct ==
    ASSUME PlacesInv, NEW c \in Conns, ClientStep(c)
    PROVE  SessionActs(c) \/ UNCHANGED sessionNetVars
<1>1. "prompt" \in AtInput /\ "prompt" \in Places
  BY DEF AtInput, Places
<1>2. CASE SessionStep(c)
  BY <1>1, <1>2, SessionStepsAct DEF SessionStep
<1>3. ASSUME NEW type \in Commands \cup {"FOLD"}, at[c] = "prompt", SendPacket(c, Move(type))
      PROVE  SessionActs(c)
  <2>1. Move(type) \in Sendable /\ Move(type).type # "LEAVE"
    BY CommandsAssumption DEF Move, Sendable
  <2>2. QED
    BY <1>1, <1>3, <2>1, SendersAct
<1>4. CASE at[c] = "prompt" /\ SayLeave(c)
  BY <1>1, <1>4, LeaversAct
<1>5. CASE ReadLine(c)
  BY <1>3, <1>4, <1>5 DEF ReadLine
<1>6. CASE ReadEof(c)
  BY <1>6 DEF ReadEof, sessionNetVars, sessionVars
<1>7. CASE AfterEof(c)
  BY <1>3, <1>4, <1>7 DEF AfterEof
<1>8. CASE TakePacket(c)
  <2> DEFINE packet == Head(toClient[c])
             place  == AfterPacket(packet, packet.type = "INFO" /\ packet.turn = Port[c])
  <2>1. /\ at[c] = "receive" /\ GoTo(c, place)
        /\ IF packet.type = "HALT" THEN ClientClose(c) ELSE ClientRecv(c)
    BY <1>8 DEF TakePacket
  <2>2. CASE packet.type = "HALT"
    BY <2>1, <2>2, LeaversAct DEF AfterPacket, Places, Receiving
  <2>3. CASE packet.type # "HALT"
    <3>1. place \in {"prompt", "receive"} /\ (packet.type = "END" => place = "prompt")
      BY <2>3 DEF AfterPacket
    <3>2. ActsTo(c, place)
      BY <2>1, <2>3, <3>1 DEF ActsTo, GoTo, AtInput, Receiving
    <3>3. QED
      BY <3>1, <3>2 DEF SessionActs, Places, AtInput, Receiving
  <2>4. QED
    BY <2>2, <2>3
<1>9. QED
  BY <1>2, <1>5, <1>6, <1>7, <1>8 DEF ClientStep

LEMMA SystemIsSession ==
    ASSUME PlacesInv, [SystemNext]_systemVars
    PROVE  [SessionNext]_sessionNetVars
<1>1. CASE ServerStep
  BY <1>1 DEF ServerStep, clientVars, sessionVars, SessionNext
<1>2. ASSUME NEW c \in Conns, ClientStep(c)
      PROVE  [SessionNext]_sessionNetVars
  BY <1>2, ClientStepsAct DEF SessionNext
<1>3. CASE UNCHANGED systemVars
  BY <1>3 DEF systemVars, clientVars, sessionVars, sessionNetVars
<1>4. QED
  BY <1>1, <1>2, <1>3 DEF SystemNext

-----------------------------------------------------------------------------
LEMMA SessionInvHolds == SystemSpec => []SessionInv
<1>1. SystemInit => SessionInv
  BY SessionInvHoldsInitially DEF SystemInit, ClientInit
<1>2. SessionInv /\ [SystemNext]_systemVars => SessionInv'
  BY SystemIsSession, SessionKeeps DEF SessionInv
<1>3. QED
  BY <1>1, <1>2, PTL DEF SystemSpec

\* The server never waits in the ready loop for a client that waits for the server:
\* recv of poker_server.c and recv_packet of poker_client.c do not block each other,
\* whatever the scripts say.
THEOREM NobodyWaits == SystemSpec => []NoMutualWait
<1>1. SessionInv => NoMutualWait
  BY NobodyWaitsForEachOther
<1>2. QED
  BY <1>1, SessionInvHolds, PTL

=============================================================================

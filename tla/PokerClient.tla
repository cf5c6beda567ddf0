----------------------------- MODULE PokerClient -----------------------------
(***************************************************************************)
(* poker_client.c, the part both clients are built on: connecting, sending *)
(* a packet and waiting for a packet.  The handlers of the packets, and    *)
(* what makes a client send one, are in AutomatedClient and TuiClient.     *)
(*                                                                         *)
(* A client has no main loop.  A command calls recv_packet, the handler of *)
(* the packet calls recv_packet or opens a loop that reads input and never *)
(* ends, and so on inwards: a call that returns comes back to the innermost*)
(* input loop.  What matters of the stack is where the client is:          *)
(*    "start"     in connect_to_serv, not connected                        *)
(*    "join"      connected                                                *)
(*    "prompt"    about to read input in the innermost loop                *)
(*    "response"  in send_packet, waiting for the answer to a move         *)
(*    "receive"   in recv_packet                                           *)
(*    "gone"      exited                                                   *)
(***************************************************************************)
EXTENDS PokerServer

CONSTANT Attempts   \* how often connect_to_serv tries

ASSUME AttemptsAssumption == Attempts \in Nat \ {0}

VARIABLES
    at,         \* see above
    attempts,   \* failed attempts to connect
    late        \* the client has sent a packet to a server that is gone

sessionVars == <<at, attempts, late>>

SessionInit ==
    /\ at = [c \in Conns |-> "start"]
    /\ attempts = [c \in Conns |-> 0]
    /\ late = [c \in Conns |-> FALSE]

GoTo(c, place) == at' = [at EXCEPT ![c] = place]

Move(type) == [type |-> type, amount |-> 0]

-----------------------------------------------------------------------------
(* connect_to_serv *)

Start(c) ==
    /\ at[c] = "start"
    /\ Connect(c)
    /\ GoTo(c, "join")
    /\ attempts' = [attempts EXCEPT ![c] = 0]
    /\ UNCHANGED late

\* Nobody listens.  The client tries again after a while, and gives up.
Retry(c) ==
    /\ at[c] = "start" /\ server # "up"
    /\ attempts' = [attempts EXCEPT ![c] = @ + 1]
    /\ GoTo(c, IF attempts'[c] = Attempts THEN "gone" ELSE "start")
    /\ UNCHANGED <<serverVars, late>>

SendJoin(c) ==
    /\ at[c] = "join"
    /\ ClientSend(c, Move("JOIN"))
    /\ GoTo(c, "prompt")
    /\ late' = [late EXCEPT ![c] = ServerIsGone(c)]
    /\ UNCHANGED attempts

-----------------------------------------------------------------------------
(* send_packet *)

\* Mutant: SIGPIPE is ignored.
SendThenGoesOn(c, packet, place) ==
    /\ ClientSend(c, packet)
    /\ GoTo(c, place)
    /\ late' = [late EXCEPT ![c] = ServerIsGone(c)]
    /\ UNCHANGED attempts

\* send() with what becomes of the client after it.  The first packet to a
\* server that is gone is lost and brings a reset, the second kills the client.
SendThen(c, packet, place) ==
    /\ IF late[c]
       THEN ClientClose(c) /\ GoTo(c, "gone") /\ UNCHANGED late
       ELSE /\ ClientSend(c, packet)
            /\ GoTo(c, place)
            /\ late' = [late EXCEPT ![c] = ServerIsGone(c)]
    /\ UNCHANGED attempts

\* Mutant: it waits for an answer to READY too.
SendPacketAndWait(c, packet) == SendThen(c, packet, "response")

\* send_packet waits for an answer to every packet but READY and LEAVE; after
\* READY the client itself calls recv_packet.
SendPacket(c, packet) ==
    SendThen(c, packet, IF packet.type = "READY" THEN "receive" ELSE "response")

\* The packet that comes after a move is taken for the answer to it, whatever it
\* is, and no handler sees it.  After an ACK the client receives, after anything
\* else its calls return.
TakeResponse(c, back) ==
    /\ at[c] = "response"
    /\ ClientRecv(c)
    /\ GoTo(c, IF Head(toClient[c]).type = "ACK" THEN "receive" ELSE back)
    /\ UNCHANGED <<attempts, late>>

\* LEAVE, then disconnect_to_serv and exit.
SayLeave(c) ==
    /\ IF late[c] THEN ClientClose(c)
       ELSE /\ clientEnd' = [clientEnd EXCEPT ![c] = "closed"]
            /\ toClient' = [toClient EXCEPT ![c] = <<>>]
            /\ toServer' = IF ServerIsGone(c) THEN toServer
                           ELSE [toServer EXCEPT ![c] = Append(@, Move("LEAVE"))]
            /\ UNCHANGED <<tableVars, server, joinVars, readyVars, sockets, serverEnd, reset>>
    /\ GoTo(c, "gone")
    /\ UNCHANGED <<attempts, late>>

\* Mutant: a recv that failed is tried again.
RecvFailsAgain(c, back) ==
    /\ at[c] \in {"response", "receive"}
    /\ toClient[c] = <<>> /\ ServerIsGone(c)
    /\ UNCHANGED <<serverVars, sessionVars>>

\* recv returns 0 or -1, in send_packet or in recv_packet: the calls return.
RecvFails(c, back) ==
    /\ at[c] \in {"response", "receive"}
    /\ toClient[c] = <<>> /\ ServerIsGone(c)
    /\ GoTo(c, back)
    /\ UNCHANGED <<serverVars, attempts, late>>

-----------------------------------------------------------------------------
(* Properties of the server with any such clients *)

Waiting(c) == at[c] \in {"response", "receive"} /\ toClient[c] = <<>>

\* The server and a client never wait for each other: when the ready loop has
\* come to a seat and its client waits for a packet, what the client sent last
\* is still on its way.
NoMutualWait ==
    \A c \in Conns :
        server = "up" /\ phase = "ready" /\ asking = Port[c] /\ sockets[Port[c]] = c =>
            ~ (Waiting(c) /\ toServer[c] = <<>>)

\* No client gives up before the server listens.  Without it the join loop waits
\* for ever for the seat that is missing.
ServerStartsInTime == [](server = "starting" => \A c \in Conns : at[c] # "gone")

=============================================================================

----------------------------- MODULE PokerSystem -----------------------------
(***************************************************************************)
(* The system the tests of the repository start: the server and one        *)
(* automated client with a script for each seat.                           *)
(***************************************************************************)
EXTENDS AutomatedClient

systemVars == <<serverVars, clientVars>>

SystemInit == ServerInit /\ ClientInit

ServerStep == ServerNext /\ UNCHANGED clientVars

SystemNext == ServerStep \/ \E c \in Conns : ClientStep(c)

\* Every process runs whenever it can: a script is a file, so that a client that
\* reads a line gets one or the end of the file.
Fairness == WF_systemVars(ServerStep) /\ \A c \in Conns : WF_systemVars(ClientStep(c))

SystemSpec == SystemInit /\ [][SystemNext]_systemVars /\ Fairness

-----------------------------------------------------------------------------
(* Properties *)

\* Everybody goes home: the server stops, by HALT or because a client closed
\* while it was playing, and every client exits.  Only a client that gave up
\* before the server listened can keep the others waiting.
EverybodyStops ==
    ServerStartsInTime =>
        <>(server \in {"exited", "killed"} /\ \A c \in Conns : at[c] = "gone")

\* A player who checks at his turn is answered ACK, as in the expected logs of
\* test1.  The server never reads a packet during a hand.
MoveIsAcked ==
    [][\A c \in Conns : loop[c] = "info" /\ at[c] = "response" /\ toClient[c] # <<>> =>
          at'[c] \in {"response", "receive"}]_systemVars

=============================================================================

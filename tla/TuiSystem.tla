------------------------------ MODULE TuiSystem ------------------------------
(***************************************************************************)
(* The server and one terminal client for each seat.                       *)
(***************************************************************************)
EXTENDS TuiClient

ASSUME OneClientEach == \A c, d \in Conns : Port[c] = Port[d] => c = d

systemVars == <<serverVars, tuiVars>>

SystemInit == ServerInit /\ TuiInit

ServerStep == ServerNext /\ UNCHANGED tuiVars

SystemNext ==
    \/ ServerStep
    \/ \E c \in Conns : ProgramStep(c) \/ UserStep(c) \/ CloseTerminal(c)

\* A user who can neither click nor type any more.
Finished(c) == at[c] = "prompt" /\ (~enabled[c] \/ clicks[c] = MaxClicks[c])

\* The processes run whenever they can.  Of the users it is assumed that they go
\* on clicking and typing while they can and then close the terminal.
Fairness ==
    /\ WF_systemVars(ServerStep)
    /\ \A c \in Conns :
          /\ WF_systemVars(ProgramStep(c))
          /\ WF_systemVars(UserStep(c))
          /\ WF_systemVars(Finished(c) /\ CloseTerminal(c))

SystemSpec == SystemInit /\ [][SystemNext]_systemVars /\ Fairness

-----------------------------------------------------------------------------
(* Properties *)

\* A screen whose buttons are all disabled, on which the user can only close the
\* terminal, is left behind only when the connection is gone: after every other
\* answer, and after the bet prompt, some loop has enabled its buttons again.
OnlyADeadServerFreezes ==
    \A c \in Conns : at[c] = "prompt" /\ ~enabled[c] => ServerIsGone(c)

\* poker_client.h says of ready() that it "should only be sent if the server state
\* is in INIT or END", and of leave() in END: a client that shows the ready screen
\* is never in a hand, however far its user lags behind the server.
ReadyScreenBetweenHands ==
    \A c \in Conns :
        at[c] = "prompt" /\ screen[c] = "ready" /\ enabled[c] /\ server = "up"
            => phase # "hand"

\* Nobody waits for ever once the table is full: as long as the users act, every
\* recv of every client returns, with a packet or because the server is gone.
RecvReturns ==
    \A c \in Conns : Waiting(c) /\ phase # "join" ~> ~Waiting(c)

\* send_raise is to "get a valid bet amount" (client.c:669) and bet_raise it.  A
\* move typed at the prompt is sent, and then its code is raised too.
RaisesAreAmounts ==
    \A c \in Conns : \A n \in DOMAIN toServer[c] :
        toServer[c][n].type = "RAISE" => toServer[c][n].amount > 0

=============================================================================

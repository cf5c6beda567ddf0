---------------------------- MODULE ServerHistory ----------------------------
(***************************************************************************)
(* The open server with history variables: who had the button in the last  *)
(* hand that was dealt, and which clients closed where the server would    *)
(* not look before it sends to them.                                       *)
(***************************************************************************)
EXTENDS OpenServer

VARIABLES
    lastDealer,   \* the dealer of the last hand, -1 before the first
    hungUp        \* connections whose client hung up, see TakesLeave

historyVars == <<openVars, lastDealer, hungUp>>

\* What the server has still to read of a connection once its JOIN is read.
Unread(c) ==
    IF serverEnd[c] = "none" /\ toServer[c] # <<>> THEN Tail(toServer[c]) ELSE toServer[c]

\* A client that closes now takes leave of the table: the ready loop has not come
\* to its seat since the last hand, and what it will read there is LEAVE or the
\* end of the connection.  Everybody else hangs up.
TakesLeave(c) ==
    /\ phase \in {"join", "reset"} \/ (phase = "ready" /\ asking <= Port[c])
    /\ Unread(c) # <<>> => Head(Unread(c)).type = "LEAVE"

HistoryInit == OpenInit /\ lastDealer = -1 /\ hungUp = {}

Record ==
    /\ lastDealer' = IF phase' = "hand" THEN dealer_player' ELSE lastDealer
    /\ hungUp' = hungUp \cup {c \in Conns : ~Gone(c) /\ Gone(c)' /\ ~TakesLeave(c)}

HistoryNext == OpenNext /\ Record
HistorySpec ==
    /\ HistoryInit /\ [][HistoryNext]_historyVars
    /\ WF_historyVars(ServerNext /\ UNCHANGED sends /\ Record)

-----------------------------------------------------------------------------
(* Properties *)

\* Nothing in the program handles SIGPIPE, so one client can end the game for
\* all.  Only one that hung up can: who closes between two hands, or while the
\* table fills, is found by the recv of the ready loop and never sent to again.
OnlyHangingUpKills ==
    server = "killed" => \E p \in NonLeft : sockets[p] \in hungUp

\* In the expected logs of test2 the dealer of the second hand is the seat after
\* the dealer of the first.  main() moves the button after END and
\* reset_game_state moves it again.
ButtonMovesOneSeat ==
    [][phase = "ready" /\ phase' = "hand" /\ lastDealer # -1 /\ NonLeft = Seats =>
          dealer_player = NextIn(lastDealer, Seats)]_historyVars

=============================================================================

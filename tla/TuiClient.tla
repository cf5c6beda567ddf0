------------------------------ MODULE TuiClient ------------------------------
(***************************************************************************)
(* The terminal client, TUI/client.c over PokerClient, one for each        *)
(* connection.  Its input loops are the ready screen (ready_leave_screen,  *)
(* the handler of END) and the game screen (poker_game_screen, the handler *)
(* of INFO); its input is clicks on the three buttons, which do not overlap*)
(* so that a click is one callback, and the line typed at the bet prompt.  *)
(* at[c] has two more places:                                              *)
(*    "typing"    in get_raise_amount                                      *)
(*    "return"    the calls return into send_raise, which goes on          *)
(* Both screens disable the buttons before they enable those they use, so  *)
(* that the callbacks of enabled buttons are those of the innermost loop.  *)
(* Drawing is left out.                                                    *)
(***************************************************************************)
EXTENDS PokerClient

CONSTANT MaxClicks   \* bound: clicks of each user

ASSUME ClicksAssumption == MaxClicks \in [Conns -> Nat]

VARIABLES
    screen,   \* the innermost input loop: "ready", or button 0 of the game: "check", "call"
    enabled,  \* the buttons of the screen are enabled
    pending,  \* what is left of send_raise: "bet" (bet_raise is next), "draw", "none"
    typed,    \* amount in send_raise
    last,     \* serv_pkt, the last packet recv_packet got
    clicks    \* clicks made

screenVars == <<screen, enabled, pending, typed, last>>
tuiVars    == <<sessionVars, screenVars, clicks>>

NoPacket == [type |-> "ACK", turn |-> 0, bet |-> 0]

TuiInit ==
    /\ SessionInit
    /\ screen = [c \in Conns |-> "ready"]
    /\ enabled = [c \in Conns |-> TRUE]
    /\ pending = [c \in Conns |-> "none"]
    /\ typed = [c \in Conns |-> 0]
    /\ last = [c \in Conns |-> NoPacket]
    /\ clicks = [c \in Conns |-> 0]

\* Where a call that returns comes back to.
Back(c) == IF pending[c] = "none" THEN "prompt" ELSE "return"

-----------------------------------------------------------------------------
(* Screens *)

\* A new input loop: no frame below it is ever returned to.
Loop(c, name) ==
    /\ GoTo(c, "prompt")
    /\ screen' = [screen EXCEPT ![c] = name]
    /\ enabled' = [enabled EXCEPT ![c] = TRUE]
    /\ pending' = [pending EXCEPT ![c] = "none"]

\* Mutant: after a hand the client receives on.
ReadyScreenReceives(c) ==
    /\ GoTo(c, "receive")
    /\ UNCHANGED <<screen, enabled, pending>>

\* ready_leave_screen.
ReadyScreen(c) == Loop(c, "ready")

\* poker_game_screen: a loop at the client's turn, as is_players_turn sees it,
\* else recv_packet with all buttons disabled, after which this call returns.
GameScreen(c, packet, left) ==
    IF packet.type = "INFO" /\ packet.turn = Port[c]
    THEN Loop(c, IF packet.bet = 0 THEN "check" ELSE "call")
    ELSE /\ GoTo(c, "receive")
         /\ enabled' = [enabled EXCEPT ![c] = FALSE]
         /\ pending' = [pending EXCEPT ![c] = left]
         /\ UNCHANGED screen

\* recv_packet and the handler of the packet; ACK and NACK have none.
TakePacket(c) ==
    LET packet == Head(toClient[c])
    IN  /\ at[c] = "receive" /\ toClient[c] # <<>>
        /\ last' = [last EXCEPT ![c] = packet]
        /\ \/ /\ packet.type = "HALT"
              /\ ClientClose(c) /\ GoTo(c, "gone")
              /\ UNCHANGED <<screen, enabled, pending>>
           \/ /\ packet.type = "END"
              /\ ClientRecv(c) /\ ReadyScreen(c)
           \/ /\ packet.type \notin {"HALT", "END"}
              /\ ClientRecv(c)
              /\ IF packet.type = "INFO" THEN GameScreen(c, packet, pending[c])
                 ELSE GoTo(c, Back(c)) /\ UNCHANGED <<screen, enabled, pending>>
        /\ UNCHANGED <<attempts, late, typed, clicks>>

-----------------------------------------------------------------------------
(* The user *)

Click(c) ==
    /\ at[c] = "prompt" /\ enabled[c]
    /\ clicks[c] < MaxClicks[c]
    /\ clicks' = [clicks EXCEPT ![c] = @ + 1]

\* Button 0: send_ready, or send_check or send_call.
ClickFirst(c) ==
    /\ Click(c)
    /\ SendPacket(c, Move(CASE screen[c] = "ready" -> "READY"
                            [] screen[c] = "check" -> "CHECK"
                            [] screen[c] = "call"  -> "CALL"))
    /\ UNCHANGED screenVars

\* Button 1, which the ready screen leaves disabled: send_raise, whose prompt
\* disables the buttons.
ClickRaise(c) ==
    /\ Click(c)
    /\ screen[c] # "ready"
    /\ GoTo(c, "typing")
    /\ enabled' = [enabled EXCEPT ![c] = FALSE]
    /\ UNCHANGED <<serverVars, attempts, late, screen, pending, typed, last>>

\* Button 2: send_leave or send_fold.
ClickLast(c) ==
    /\ Click(c)
    /\ IF screen[c] = "ready" THEN SayLeave(c) ELSE SendPacket(c, Move("FOLD"))
    /\ UNCHANGED screenVars

\* What get_raise_amount returns: -1 for "fold", -2 for "check" or "call",
\* whichever the screen has, or the amount.  It asks again for any other line.
RaiseAmounts == {-1, -2} \cup {amount \in Amounts : amount > 0}

\* send_raise: the move that was typed, or the raise.
TypeAmount(c) ==
    /\ at[c] = "typing"
    /\ \E amount \in RaiseAmounts :
          /\ typed' = [typed EXCEPT ![c] = amount]
          /\ pending' = [pending EXCEPT ![c] = IF amount < 0 THEN "bet" ELSE "draw"]
          /\ SendPacket(c, CASE amount = -1 -> Move("FOLD")
                             [] amount = -2 -> Move(IF last[c].bet = 0 THEN "CHECK" ELSE "CALL")
                             [] OTHER -> [type |-> "RAISE", amount |-> amount])
    /\ UNCHANGED <<screen, enabled, last, clicks>>

\* After the move send_raise goes on to bet_raise, whatever was typed.
RaiseAfterMove(c) ==
    /\ at[c] = "return" /\ pending[c] = "bet"
    /\ SendPacket(c, [type |-> "RAISE", amount |-> typed[c]])
    /\ pending' = [pending EXCEPT ![c] = "draw"]
    /\ UNCHANGED <<screen, enabled, typed, last, clicks>>

\* Mutant: send_raise returns to the loop with its buttons disabled.
ReturnUndrawn(c) ==
    /\ at[c] = "return" /\ pending[c] = "draw"
    /\ GoTo(c, "prompt")
    /\ pending' = [pending EXCEPT ![c] = "none"]
    /\ typed' = [typed EXCEPT ![c] = 0]
    /\ UNCHANGED <<serverVars, attempts, late, screen, enabled, last, clicks>>

\* And to poker_game_screen.
DrawAgain(c) ==
    /\ at[c] = "return" /\ pending[c] = "draw"
    /\ GameScreen(c, last[c], "none")
    /\ typed' = [typed EXCEPT ![c] = 0]
    /\ UNCHANGED <<serverVars, attempts, late, last, clicks>>

\* The terminal is closed, or it is too small and the client exits.
CloseTerminal(c) ==
    /\ at[c] \notin {"start", "gone"}
    /\ ClientClose(c)
    /\ GoTo(c, "gone")
    /\ UNCHANGED <<attempts, late, screenVars, clicks>>

-----------------------------------------------------------------------------
\* The steps that are poker_client.c's alone.
SessionStep(c) ==
    /\ \/ Start(c) \/ Retry(c) \/ SendJoin(c)
       \/ TakeResponse(c, Back(c)) \/ RecvFails(c, Back(c))
    /\ UNCHANGED <<screenVars, clicks>>

\* What the client does without its user.
ProgramStep(c) ==
    SessionStep(c) \/ TakePacket(c) \/ RaiseAfterMove(c) \/ DrawAgain(c)

UserStep(c) == ClickFirst(c) \/ ClickRaise(c) \/ ClickLast(c) \/ TypeAmount(c)

=============================================================================

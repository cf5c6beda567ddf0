--------------------------- MODULE AutomatedClient ---------------------------
(***************************************************************************)
(* The scripted client, automated.c over PokerClient, one for each         *)
(* connection.  Its input loops are the prompts of on_end and on_info, and *)
(* its input is the lines of a script, which are any commands.             *)
(***************************************************************************)
EXTENDS PokerClient

CONSTANTS
    Commands,   \* the commands a script may hold
    MaxLines    \* bound: lines in the script of each client

\* command_names but "leave", which ReadLine has as well.
ASSUME CommandsAssumption == Commands \subseteq {"READY", "RAISE", "CALL", "CHECK", "FOLD"}
ASSUME LinesAssumption == MaxLines \in [Conns -> Nat]

VARIABLES
    loop,    \* "end" or "info": the handler the innermost prompt loop is in
    eof,     \* done_reading
    lines    \* lines read

clientVars == <<sessionVars, loop, eof, lines>>

ClientInit ==
    /\ SessionInit
    /\ loop = [c \in Conns |-> "end"]
    /\ eof = [c \in Conns |-> FALSE]
    /\ lines = [c \in Conns |-> 0]

\* A line of the script.
ReadLine(c) ==
    /\ at[c] = "prompt" /\ ~eof[c]
    /\ lines[c] < MaxLines[c]
    /\ lines' = [lines EXCEPT ![c] = @ + 1]
    /\ \/ \E type \in Commands : SendPacket(c, Move(type))
       \/ SayLeave(c)
    /\ UNCHANGED <<loop, eof>>

\* The script has no more lines.
ReadEof(c) ==
    /\ at[c] = "prompt" /\ ~eof[c]
    /\ eof' = [eof EXCEPT ![c] = TRUE]
    /\ UNCHANGED <<serverVars, sessionVars, loop, lines>>

\* Then the client folds in on_info and leaves in on_end.
AfterEof(c) ==
    /\ at[c] = "prompt" /\ eof[c]
    /\ IF loop[c] = "info" THEN SendPacket(c, Move("FOLD")) ELSE SayLeave(c)
    /\ UNCHANGED <<loop, eof, lines>>

\* Mutant: on_end receives on instead of asking for a command.
AfterPacketAtEnd(packet, mine) ==
    CASE packet.type = "HALT" -> "gone"
      [] packet.type = "INFO" /\ mine -> "prompt"
      [] packet.type \in {"ACK", "NACK"} -> "prompt"
      [] OTHER -> "receive"

\* Where the handler of a packet leaves the client.
AfterPacket(packet, mine) ==
    CASE packet.type = "HALT" -> "gone"
      [] packet.type = "INFO" /\ ~mine -> "receive"
      [] OTHER -> "prompt"

\* recv_packet and the handler of the packet: on_info opens a prompt loop when
\* the turn is the client's and receives on when it is not, on_end opens one,
\* on_halt exits, and after an ACK or a NACK the calls return.
TakePacket(c) ==
    LET packet == Head(toClient[c])
        mine   == packet.type = "INFO" /\ packet.turn = Port[c]
    IN  /\ at[c] = "receive" /\ toClient[c] # <<>>
        /\ IF packet.type = "HALT" THEN ClientClose(c) ELSE ClientRecv(c)
        /\ GoTo(c, AfterPacket(packet, mine))
        /\ loop' = [loop EXCEPT ![c] = IF packet.type = "END" THEN "end"
                                       ELSE IF mine THEN "info" ELSE @]
        /\ UNCHANGED <<attempts, late, eof, lines>>

\* The steps that are poker_client.c's alone.
SessionStep(c) ==
    /\ \/ Start(c) \/ Retry(c) \/ SendJoin(c)
       \/ TakeResponse(c, "prompt") \/ RecvFails(c, "prompt")
    /\ UNCHANGED <<loop, eof, lines>>

ClientStep(c) ==
    \/ SessionStep(c)
    \/ ReadLine(c) \/ ReadEof(c) \/ AfterEof(c)
    \/ TakePacket(c)

=============================================================================

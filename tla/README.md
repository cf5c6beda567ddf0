# Formal model of the poker table

TLA+ modules, TLC configurations and TLAPS proofs for the networked poker table
of this repository: a server process that deals Texas hold'em to six seats over
TCP, and the clients that play it. Paths below are relative to the repository
root (`src/server/...`, `include/...`, `scripts/...`).

## 1. The system

### Components

| component | code | state | operations |
|---|---|---|---|
| table engine | `src/server/game_logic.c`, `src/server/client_action_handler.c`, `include/game_logic.h` | `game_state_t`: status, stack and bet of each seat, bet to call, pot, turn, button, street, deck position, cards | `init_game_state`, `reset_game_state`, `server_deal`, `handle_client_action`, `check_betting_end`, `server_community`, `find_winner`, `server_end` |
| hand evaluation | `value_of_hand` in `game_logic.c` | none (pure) | a 64-bit value of five to seven cards |
| server main loop | `src/server/poker_server.c` | the table, the sockets, `player_count`, `readyCount`, the loop counters | join loop, ready loop, betting loop, showdown, halt |
| automated client | `src/client/automated.c` over `src/client/poker_client.c` | where its nested prompt loops are, `done_reading`, the script, one socket | the commands, `send_packet`, `recv_packet`, the handlers of INFO, END, HALT |
| packet contents | `build_info_packet`, `build_end_packet` in `client_action_handler.c`, `include/poker_client.h` | none (copies of the table) | fill in INFO and END |
| terminal client | `src/client/TUI/client.c` over `src/client/poker_client.c` | the innermost screen, which buttons are enabled, how far `send_raise` has come, one socket | clicks on three buttons, the bet prompt, the handlers of INFO, END, HALT |
| logs, card names | `src/shared/logs.c`, `src/shared/utility.c` | a log file; tables of names | printing |
| tests | `file_comparison_test.cpp`, `scripts/` | none | run a server and six scripted clients and compare logs |

### How they interact

The server is one process with one thread. It listens on one port for each seat;
which seat a client gets is the port it connects to. All packets are structs of
fixed size sent with one `send` and received with one blocking `recv`. The join
loop uses `select` over the listening sockets; everything after it reads one seat
at a time and waits for that seat however long it takes. The server calls the
engine directly and in part repeats it: `main()` has its own copy of the deal, of
the showdown, and of the move of the button.

A client sends JOIN, then READY before every hand, then a move when an INFO names
its seat as the one to act, and LEAVE when it goes. `automated.c` has no main
loop: a command that was accepted calls `recv_packet`, the handler of the packet
calls `recv_packet` or opens a prompt loop, and so on inwards. The terminal client
is built the same way: its ready screen and its game screen are loops without an
exit that the handlers of END and INFO open one inside the other.

### What is hard here

* **State overloaded with meaning.** `current_bets[p] = -1` means "owes an answer
  to a raise" in `handle_client_action` and "no bet seen yet" in
  `check_betting_end`. "All bets are equal" means "the betting is over", which is
  also true before it has begun.
* **Scans without an exit.** Every "next seat that ..." is a `while` loop modulo
  six that never ends when there is no such seat.
* **Two copies of one step**: the button, the deal and the showdown.
* **Blocking reads in seat order**, with clients that block too: who waits for
  whom.
* **Clients that go away** at any time: `recv` gives 0, `send` kills the server
  with SIGPIPE in the middle of a broadcast, and a connection that was accepted
  may be gone before its JOIN, in which case the packet that is looked at is
  uninitialised memory.
* **Replies matched by position**: `send_packet` takes whatever packet comes next
  for the answer.
* **Input loops in handlers**: a terminal client reads either its user or its
  socket, never both, and a screen left without a loop of its own has no button
  that works.
* **A start without order**: clients try to connect for some seconds and give up.

The line of each hazard, with the properties that look for it, is in
`PROJECT.json`.

### What makes each component correct

* Engine: chips are neither made nor lost; nobody bets chips he does not have;
  the turn is at somebody who can take it and goes round in order; nobody stays in
  for less than the bet; the pot goes to somebody who is in the hand; cards are
  dealt once.
* Hand evaluation: a hand is worth its best five cards.
* Server: seats that are served have an open connection; who LEFT is never served
  again; no scan hangs; a hand that was dealt ends, and its pot goes to a seat that
  played it; the packets of a hand come whole; a client that leaves in an orderly way
  harms nobody.
* Packets: what INFO says and the clients offer is what the engine accepts.
* Clients and server: they never wait for each other, no user is left with a screen
  that does nothing, and everybody stops.

## 2. Modules

| module | what it is |
|---|---|
| `PokerTable` | the engine: one action for each function that changes `game_state_t`, under any caller that keeps the order of a hand |
| `TableHistory` | `PokerTable` with what each seat paid in the street and who was ever seated, for properties about the past |
| `PacketContents` | INFO as a function of the table, and the move a client offers from it |
| `ChipLedger` | the abstract specification of the engine: chips move from seats that are in, to a seat that is in, and nothing else |
| `HandProtocol` | the abstract specification of the server: seats are taken and given up between hands, a hand is dealt to all who play and goes through its streets to its end |
| `HandValue` | `value_of_hand` as an operator over sets of cards, and the five-card rule it is compared with |
| `PokerServer` | `main()` over `PokerTable`, with sockets; it has no specification of its own |
| `OpenServer` | `PokerServer` with clients that may do anything, and how it maps to `HandProtocol` |
| `ServerHistory` | `OpenServer` with the dealer of the last hand and the clients that hung up |
| `PokerClient` | `poker_client.c`: connecting and retrying, JOIN, `send_packet`, `recv_packet`; what both clients share |
| `AutomatedClient` | the scripted client over `PokerClient` |
| `PokerSystem` | server and one automated client for each seat: the system the tests start |
| `TuiClient` | the terminal client and its user over `PokerClient` |
| `TuiSystem` | server and one terminal client for each seat |
| `PokerTableProofs`, `LedgerProofs` | theorems about the engine |
| `HandValueProofs` | theorems about `value_of_hand` |
| `ServerProofs`, `OpenServerProofs` | lemmas about the server under any client, theorems with open clients |
| `PokerClientProofs`, `SystemProofs`, `TuiProofs` | lemmas about the server and clients built on `poker_client.c`, theorems about the two systems |
| `MC*` | small instances for TLC |

Each layer extends the one below: `PokerTable`, `PokerServer`, `PokerClient`, then
`AutomatedClient` and `PokerSystem`, or `TuiClient` and `TuiSystem`.

`PokerServer` extends `PokerTable` and uses its operators as the code calls the
functions: `Join`, `ResetGameState`, `Leave`, `Halt`, `CheckBettingEnd`,
`ServerCommunity`, `FindWinner`, `Accepts` and `HandleClientAction` are the
engine's own definitions. What `main()` does by itself, the deal, the showdown and
the fold of a seat whose connection is gone, is defined there.

### State and code

* `player_status`, `player_stacks`, `current_bets`, `highest_bet`, `pot_size`,
  `current_player`, `dealer_player`, `round_stage`, `next_card`, `player_hands`,
  `community_cards` are the members of `game_state_t` of the same names.
* `phase` is the place the caller has reached: `"join"`, `"reset"` (about to call
  `reset_game_state`), `"ready"` (the ready loop), `"hand"` (the betting loop),
  `"halt"`, and `"spin"` for a scan that never ends. It stands for the program
  counter. An action of the server is what `main()` does from one place where it
  may block to the next.
* A card is its position in the shuffled deck, so that a card in two places is a
  number in two places; shuffling itself changes nothing a property speaks of.
  At a showdown the value of each hand is chosen, with two constraints
  `HandValue` establishes: values are positive, and a seat that was not dealt in
  (it plays the board) is worth no more than a seat with seven cards.
* `Steps` and `NextIn` are the scans `x = (x + 1) % MAX_PLAYERS`.
* `sockets` is `game.sockets`; `backlog`, `readset`, `player_count` belong to the
  join loop, `asking` is the loop variable of the ready loop, `readyCount` the
  local of that name.
* `toServer`, `toClient` are the bytes in flight of each connection, in packets;
  `clientEnd` and `serverEnd` who closed; `reset` that the peer's host has
  answered a packet to a closed socket, after which the next `send` raises
  SIGPIPE.
* `server` is `"starting"` until every port listens (`Listen`), so that clients may
  be started first.
* In the clients, `at` replaces the call stack: every call that returns comes back
  to the innermost input loop, so only where in it the client is can make a
  difference. `attempts` counts failed `connect`s and `late` says that a packet was
  sent to a server that is gone. Which loop that is, is `loop` in the automated
  client and `screen` in the terminal client.
* In the terminal client `enabled` is `is_active` of the buttons of the screen, and
  `pending` is the one call that does something after another returns: `send_raise`,
  which goes on to `bet_raise` and then draws the game screen again. `typed` is its
  `amount`, `last` is `serv_pkt`.

### What is abstracted

Of an INFO packet the clients act on `player_turn` and, the terminal client, on
`bet_size`, so packets carry a type and those two, or, in an END, the winner (in the
member `turn`); the whole of INFO is in `PacketContents`, over the table alone. Amounts of RAISE are a constant set of integers;
the automated client's are left out. Log lines and printing are left out, as are the
panels of the terminal client and the keys that make up a line at its prompt: the
buttons do not overlap, so a click is one callback or none. `connect_to_serv` tries
`Attempts` times, without the times in between. Partial reads and writes of a
packet are left out: packets are a few hundred bytes on the loopback interface and
the code has no handling for them. A failing `bind`, `listen`, `accept` or `select`
is left out; the program exits there before it has a state worth speaking of.

Reads of uninitialised memory (`joinPkt` after a failed `recv`) are a choice
between what the read may give. The signed overflow of `newAmt -
current_bets[p]` at `client_action_handler.c:67` for `newAmt = INT_MAX` and a bet of
-1 is excluded, as the assumption on `Amounts` names integers without a width.

## 3. Model checking

| run | instance | what it shows |
|---|---|---|
| `hand_value` | every hand of up to seven cards out of {2..6, A} in three suits and out of {J..A} in four suits with two tens and a nine | `value_of_hand` is the value of the best five cards, and a further card never makes it less |
| `table` | 3 seats, 2 chips each, raises to -1..4, two hand values | the engine's invariants, the ledger, payments, what INFO tells and offers the seat that is asked, that no move is free and no betting goes on for ever |
| `open_server` | 2 seats, 3 connections (two at seat 0), 3, 3 and 2 packets, any of JOIN, READY, LEAVE | join loop, packets of two hands, departures |
| `open_server3` | 3 seats and connections, 3 packets each, JOIN and READY | hands are played as `HandProtocol` says, also after a departure; the winner is a seat that was dealt cards; `main()`'s own deal gives no card twice; scans end; a dealt hand reaches its END; only a client that hangs up where `main()` does not look kills the server |
| `system` | 3 automated clients, scripts of up to 1, 4 and 4 lines of READY, CHECK, `leave` | no mutual waiting, everybody stops |
| `tui` | 3 terminal clients, users with 3, 2 and 2 clicks and any line at the prompt | no mutual waiting, every `recv` returns, no frozen screen, no ready screen during a hand |
| `street_closes`, `dealt_in` | as `table` | what expected logs say of the engine and the code does not do |
| `call_pays` | as `table`, with 4 chips each | the same, of what a call costs |
| `button` | as `open_server3` | the same for `main()` |
| `acked` | 2 automated clients, scripts of up to 3 lines | the same for the automated client |
| `tui_raise` | as `tui` | the same for the terminal client |

### The bounds and why they are enough

*Table.* Three seats are the fewest with a seat on either side of a raiser and one
that has folded or is all in. Two chips each allow a raise and a re-raise with the last
chip in the first hand. TLC goes through every hand that can follow another, so
that stacks take the divisions of six chips that play can bring about, with short
calls, unequal stacks and three raises in a street. `call_pays` has four chips
each, so that a seat can bet, be raised and still call with chips to spare. The deck has
the eleven cards three hands and a board need: one more draw would be out of range. The
state space is finite without a bound on hands or actions.

*Hands.* Low ranks with the ace show both sides of the ace; the three suits give
flushes, straight flushes, two threes of a kind and three pairs. The high deck has
four suits for four of a kind with every kicker and the straights up to the ace.
`find_winner` compares seven cards; hands of five and six come first, as a seat may
be at the showdown with the board alone.

*Open server.* JOIN and two READYs are two whole hands, and anything else in place of
one of them is a departure, an early packet or a refusal. A third connection at a
seat that is taken is enough for the join loop's count to go wrong. LEAVE is not
sent in `open_server3`, because the server treats a connection that closes the same
way and the clients there may close. `MaxSends` is the only bound on the clients; they may
read and close at any time.

*Terminal clients.* A click is READY, LEAVE, a move or the prompt, so three clicks take
one user through a hand and his next ready round, with moves the server never asked
for in between; the users with two are gone or idle when he is in it. One raise can be
typed, which is enough as its amount is never looked at by this server. Two attempts to
connect are the first failure and the last.

*System.* The scripts are bounded, and the server plays on as long as they last.
A script has no bound on what the client does after its end. One client with a
short script leaves while the others go on for further hands.

`CHECK_DEADLOCK FALSE` stands in every configuration: a table that has halted, a
hand of seven cards and a system in which all processes have exited may stop. That nobody stops
too early is what `HandRunsThrough`, `NoMutualWait` and `EverybodyStops` are for.

### Fairness

`OpenSpec` has weak fairness of the server's steps: the process is runnable
whenever it is not blocked in `select` or `recv`, and those are the guards of the
actions. Nothing is expected of the clients. `SystemSpec` has weak fairness of the
server and of each client: a script is a file, so a client at its prompt always
gets a line or the end of the file, and both ends' `recv` return once there is a
packet or the peer is gone. Weak fairness is enough as no step of one process
disables a step of another, except where it ends it. Which of the lines a script
has is a choice without fairness. `HistorySpec` of `ServerHistory` is `OpenSpec` with
history variables: its fairness is that of the server's steps, recorded.

`TuiSystem` has weak fairness of the server and of what each client does without its
user. Of the users it assumes that they go on while a button is enabled or the prompt
is open, and close the terminal when they are done: a client that shows a loop reads
nothing from its socket, so a user who walks away holds up the table by design, and
`RecvReturns` is about everything else. A user may always be slower than the hands.

`FairSpec` of `TableHistory` is a caller that does its part: it deals the next street or
ends the hand once the betting is over, and otherwise brings packets of the seat whose
turn it is until one is accepted. `BettingEnds` under it is a statement about the engine:
no sequence of raises, calls and checks keeps the betting open. It does not say that
every hand comes to its end. When everybody is all in, `server_community` never returns
from its scan for an ACTIVE seat (`game_logic.c:309`), which the run `table` reaches as
`phase = "spin"`, and the property allows that and only that. Nothing in the program calls
`server_community`; the copy of it in `main()` is only come to with somebody ACTIVE, which
is `ServerNeverSpins`. Nor does `BettingEnds` say that every raise is answered: a street
may close too early (`street_closes`).

`EverybodyStops` is stated under `ServerStartsInTime`, that no client gives up before the server
listens. It is needed: the join loop waits for the seat of a client that has given up,
for ever, and with it the clients that came in time.

### What the runs found

Each of these is a run whose property TLC finds violated, the property being a
sentence or an expected log of the repository.

* `call_pays`: `game_logic.h:33` calls `current_bets` the "amount bet this
  round", and in the expected logs of `test4` a player who has bet 5 calls 10 with 5 more.
  A raise overwrites the bets of the others with -1, and `callAmt` of such a seat is the
  whole bet (`client_action_handler.c:39`). TLC's trace, of two players with four chips: seat
  1 raises to 1 and pays 1, seat 0 raises to 2, seat 1 calls and pays 2, so that it has put
  in 3 for a bet of 2. Nobody gets in cheaper than he should (`MatchedHasPaid` holds); he
  pays more.
* `street_closes`: after a raise, `check_betting_end` skips the seats below the first
  seat with a bet, as their -1 is its own mark for "no bet seen yet". A raise by the
  last seat closes the street without asking anybody.
* `dealt_in`: nothing sets FOLDED back to ACTIVE; whoever folds sits out for ever,
  though he has to say READY before every hand. An ALLIN seat stays ALLIN the same
  way and goes to later showdowns with no cards of its own.
* `button`: `main()` moves the button after END and `reset_game_state` moves it
  again, two seats for each hand; in the expected logs of `test2` it moves one.
* `acked`: the expected logs show a move answered by ACK. In the shipped server it
  never is, see below.
* `tui_raise`: a fold, check or call typed at the bet prompt is sent, and then
  `send_raise` goes on to `bet_raise` with the code -1 or -2 of what was typed.

**Betting never opens.** The property `BettingNeverOpens` holds, and is proved: at
the start of a street all bets are 0 and the bet to call is 0, which is how
`check_betting_end` recognises a finished street. The shipped `main()` deals a hand
from INFO to END without reading a packet; the moves clients send at their turn
wait in the socket and are read in the next ready loop as answers that are neither
READY nor LEAVE. The branch of the betting loop that reads a packet (`AskTurn`,
`Act`, `FoldGone`) is translated like the rest and is unreachable; the engine under it is
checked in `PokerTable`, whose caller asks before it looks.

Observations that follow from the same models and that no run states:

* "All 6 players joined" (`poker_server.c:78`) is printed after six JOINs, which may have
  been at fewer ports: the join loop does not look whether a seat is taken. The run
  `open_server` has such tables in it, and the seats that are served are in order in them
  (`ServedSeatIsOpen`); but a seat stays empty, and the client whose socket was overwritten is
  neither served nor closed.
* A raise by a seat that owes an answer is computed from its mark: `newAmt - (-1)` is one
  chip more than the amount (`client_action_handler.c:67`). In the trace of `call_pays` seat
  0, which had bet nothing, pays 3 to raise to 2. The chip goes into the pot, and
  `ChipsAreConserved` holds.
* A `send` to a socket the server itself has closed would fail with EBADF and not with
  SIGPIPE; it never comes to that (`LeftIsFinal`, `ServedSeatIsOpen`). What kills the server is
  a peer that is gone, and `OnlyHangingUpKills` says which: one that closes during a hand,
  after its answer in the ready loop, or with a packet other than LEAVE left to be read.
* A client at the end of its input is to leave at the next END (`automated.c:11-12`). An
  END that comes as the "answer" to its fold is not seen as one, and it folds on until
  the connection is gone; `EverybodyStops` holds because the connection does go.
* The first hand may have a dealer who has LEFT, since the button is not moved before it
  (`game_logic.c:225`).
* A client that answers the ready loop with any packet but READY or LEAVE is dealt in
  (`poker_server.c:88-100`), a move it sent in the last hand for instance. In the code
  as it is this is what keeps clients from being thrown out.
* When the connection is gone, `recv_packet` returns to whatever loop is innermost: on
  a game screen that had disabled its buttons nothing works any more and the client
  has to be killed. `OnlyADeadServerFreezes` says that this is the only way to get there.
* `save_state` shows a seat that is all in with the number of a seat that left
  (`ShownStatus`), and the terminal client leaves its name out; `poker_client.h` has no
  number for it.
* `raise allin` names the whole stack (`automated.c:82`), and the engine takes
  `newAmt - current_bets[p]` from it: for a seat that owes an answer that is one chip
  more than it has, so the raise is refused.
* The END packet's `pot_size` is always 0, because the pot is paid out before
  `build_end_packet` is called, where `scripts/tests/test4/expected/player0.logs:237` has
  67.
* After the last failed attempt `connect_to_serv` sleeps for 6.4 s and then does not try
  again.
* An ace is never a one: A-2-3-4-5 is no straight and A-3-4-5-6 is one
  (`game_logic.c:46-54`). `HandValue` takes this as a rule of the house in its reference
  and says so.

### Mutants

Each property of a passing run has a mutant: a definition that models code, changed
the way a plausible bug would change it (a dropped mark, a scan that starts in the
wrong place, a status that is not set), under which TLC finds that property
violated. They stand next to the definitions they change, under a comment that
begins with "Mutant".

## 4. Proofs

Every property that a passing run checks is proved, except the four liveness
properties: all invariants, the refinements of `ChipLedger` (`ImplementsLedger`) and of
`HandProtocol` (`PlaysHands`), and the action properties `EveryMoveCosts`,
`LeftIsFinal`, `WinnerPlayedTheHand` and `MoreCardsNeverLose`. The proofs are for every
number of seats, every stack, every set of raise amounts, every set of hand values,
every set of connections, every hand of up to seven cards, every script and every user,
from the assumptions the modules name and nothing else:

* `PokerTable`: at least two seats, a deck that is large enough, a largest hand value;
* `HandValue`, `DecksOfCards`: cards are of the 52;
* `PokerServer`: finitely many connections, a port for each;
* `AutomatedClient`, `CommandsAssumption`: a line of a script sends one of the commands
  the client knows (`command_names`);
* `TuiSystem`, `OneClientEach`: no two terminal clients at one port. Only
  `ReadyScreenBetweenHands` needs it. With two at one seat the join loop loses one of
  them, which shows its ready screen for ever and is in no hand; the property would be
  about the wrong one.

**`PokerTableProofs`.** `TableInv` is the inductive invariant of the engine
(`TableIsSound`); its conjuncts are properties the run `table` checks and two more,
`StageFitsPhase` and `ButtonHasASeat`, which say little by themselves. None of the properties is inductive alone:

* `TypeOK` needs `BetsMatchedOrOwed`: a bet of an ACTIVE seat that is neither the bet to
  call nor -1 could make `callAmt` negative and a stack or a pot leave `Nat`.
* `PotCoversBet` at a reset needs `SomeoneCanWin`, since a showdown without a winner
  would leave the pot to be cleared, and `SomeoneCanWin` needs the seats to act only
  while two contenders are left.
* `OwedComeFirst` needs `TurnIsActive`: the seat to act is the only one whose answer
  changes the order, and `PassTurn` finds the nearest ACTIVE seat from there. It is the
  heart of the module: for any number of seats, folds and all-ins the seats that owe an
  answer are exactly those the turn meets first.
* From it follow `AskedSeatIsTold` and `FirstButtonIsLegal`, without a new invariant: if
  the seat whose turn it is had matched, then by `OwedComeFirst` nobody would owe, by
  `BetsMatchedOrOwed` all would have the same bet, and `check_betting_end` would have
  said so (`AllMatchedEndsBetting`). So the seat that is waited for owes all of a
  positive bet, and CALL, which INFO makes the client offer, is legal.
* `ButtonHasASeat` and `StageFitsPhase` make the operators `NextIn` and `NextStage`
  meaningful where they are applied.

The proof that a packet keeps the invariant has one lemma for each kind of move.
`NextInIsNearest`, from `LeastElement`, says what a scan finds.

*Cards.* `NoCardTwice` has `DeckLasts` for its strengthening: no card is out between a
reset and the deal, and afterwards `next_card` is at most two for each seat and those on
the board of this street, so that the assumption on `DECK_SIZE` is what keeps the river
in the deck. What a deal hands out is a cardinality (the ACTIVE seats below a seat), and
that the hands of two seats differ follows from its being monotone. The inductive
invariant, `CardInv`, is stated over the table alone, so that it serves for the engine and for
`main()`, whose deal is a copy (`NoCardTwiceInMain`).

**`LedgerProofs`.** `TableImplementsLedger`: the engine implements `ChipLedger` under
the refinement mapping stack = `player_stacks`, pot = `pot_size`, in = `Contenders`.
Each action of the engine is one of the ledger or a stutter, and `TableInv` gives what
is needed for it: chips put in are between 0 and the stack, nobody enters while chips
are at stake, and the winner is a contender.

`NoChipIsLost` is about the sum of the stacks, `ChipsBelow`, which the engine defines as
a recursive function over the seats. That the function exists, that it is an integer at
every seat, and how it moves with one stack are inductions over the seats, each carried
out through a least counterexample (`LeastElement`), as the provers cannot instantiate
an induction theorem. A step of the ledger changes one stack and the pot by opposite
amounts (`LedgerMovesChips`), and every step of the engine is one or a stutter.

`MatchedSeatHasPaid`, with the payments of `TableHistory`: who has matched has paid, although
`current_bets` forgets what was bet before a raise. `MatcherPays` says of a packet that
is accepted that its sender pays at least the difference to the new bet or cannot act
any more, and that everybody else who still counts as matched faces the same bet as
before. `NoFreeMoves` is the reason that a hand ends, without the fairness: the seat that
is waited for owes all of a positive bet (`AskedSeatOwes`), so a check is refused and any
other move adds to the pot, which conservation bounds, or takes a seat out of play.

**`HandValueProofs`.** `value_of_hand` against the rule of the best five cards, for every
hand of five to seven cards of the whole deck (`BestFive`); the run goes through two small
decks. `Highest` picks the rank with i - 1 higher ones, so what it returns is known from
counting (`Positions`) and comes without a recursion over the hand. Five cards share their
ranks in one of six ways, and for each the rule gives a category and a tie-break. The proof
has two halves:

* `NoFiveAreWorthMore`: the category of any five cards is one the code finds in the whole
  hand at the latest, since the code tries them from the top; and where it is the same
  category, the tie-break of the five is drawn from fewer ranks than that of the hand. One
  lemma for each shape. That a second suit with five cards, or a second pair beside two
  threes of a kind, does not interfere, is that seven cards are too few for either.
* `SomeFiveAreWorthIt`: from what made the code choose a category five cards of the hand
  are picked that are of this category and hold the ranks of the tie-break; one lemma for
  each of the nine.

`MoreCards` follows: the best five of a hand are five cards of any larger one.

**`ServerProofs`.** What `main()` keeps whatever its clients are. A client is reduced to
what the server can see of it, `ClientActs`: append a packet, take one, or close.
`NetNext` is the server with such clients, the invariants are proved over it, and every
system (`OpenServer`, `PokerSystem`, `TuiSystem`) is shown to be one of its instances.
There are four layers, each resting on those before it:

* `ServerInv` is `NoBets` (from the reset to the end of a hand nobody has a bet) and
  `SomebodyPlays` (a seat with a connection is ACTIVE or has LEFT, and a READY counted
  means that some seat asked already is ACTIVE). `NoBets` makes `CheckBettingEnd` true
  in every street, by `NoBetsEndBetting`; since it is, no step of the betting branch is
  taken and `SomebodyPlays` need not survive folds.
* `ServingInv` adds `PlayersServed` (an ACTIVE seat has a connection the server has not
  closed; the seats the ready loop has asked are ACTIVE or have left), which a READY or
  LEAVE from the wrong socket would break. So it rests on `ConnectionsInPlace`: a
  connection is once in the listen queue of its own port and not yet accepted, or at the
  seat of its port, or gone from both. Then accepting a connection cannot hand a seat
  one that is closed or served already.
* `StreamInv`: the button is at a seat, and what is in flight is made of packets whose
  turn, in an INFO, is a seat.
* `OrderInv`: while the server runs, the stream of a client that is not in a hand stops
  at an END, and that of a client in a hand has had one INFO for each street since the
  last END. So at least four packets lie between two ENDs when the next is sent. HALT is
  sent once, in the step in which the server exits. A server that was killed has a seat
  with a reset connection that has not LEFT.

**`OpenServerProofs`.** The theorems with clients that may do anything:
`NobodyIsAskedToBet` and `ScansEnd` from the first layer, `OpenSeatsAreServed` from the
second, `TurnShownIsASeat` and, with the fact that a broadcast skips who left,
`WhoLeftIsLeftAlone` from the third, `WholeHandsAreSent` from the fourth. `ServerTypesHold` is the type invariant of the server. It is not the engine's
over again, as `main()` has its own deal, showdown and fold: their ranges need `NoBets`,
and `readyCount <= asking` is what says that no READY of an earlier hand is counted.

`HandsArePlayed` is the refinement of `HandProtocol`. The mapping takes `stage` from the
place `main()` has reached and, in a hand, from `round_stage`; players are the ACTIVE seats,
`dealt` those that hold cards and `board` the number of cards on the board. A step of the
join loop seats one player or opens the table, an answer in the ready loop is a player
getting up or a stutter, and a process that exits or is killed has stopped. It needs
`HandInv`: the READYs counted are no more than the ACTIVE seats among those asked, so
that two READYs are two players; in a hand exactly the ACTIVE seats hold cards; and the
board has as many cards as its street. `HandProtocol` has no winner. `WinnersHavePlayed`
is about him: in a hand of `main()` nobody is all in, so the contenders are the ACTIVE seats,
which by `HandInv` hold cards and by `SomebodyPlays` are not none (`WinnerIsPlaying`).

`OnlyWhoHungUpKills` is about `HistorySpec`, which records who closed where `main()` would
not look before it sends (`TakesLeave` says where it does look). `HangInv` is its invariant: a
client that took leave has a connection that was never reset, has a LEAVE or the end of the
stream next to be read, and is at a seat, if it is still at one, that the ready loop has not
come to. So the ready loop reads that packet and lets the seat go before the next thing is
sent to the table; until then nothing is sent, as a hand starts only when the loop has come
round. Each of the three parts needs the other two.

**`PokerClientProofs`.** `SessionActs` is any client built on `poker_client.c`: it
connects, sends JOIN, is at its input or waits for a packet, waits only after it has
sent something or read a packet that is no END, and sends LEAVE only to go. Both clients of the
repository are shown to be such clients, whatever their handlers do. `WaitInv` is what
keeps them and the server from waiting for each other: until the ready loop has come to
its seat, a client that waits with nothing to read has a packet on its way. Three things
could break it, and make its other conjuncts necessary. JOIN is taken by the join loop,
so before it is accepted a client that waits must have two packets on their way. A
client may wait again after an END without sending; `OrderInv` says that an END is the
last thing sent before the ready loop, and the handler of END goes to the input. And the
seat of a client that waits could be one that LEFT; LEAVE is sent only by who goes.
`NobodyWaitsForEachOther` concludes `NoMutualWait`.

**`SystemProofs`** and **`TuiProofs`** apply it to the automated and to the terminal
clients (`NobodyWaits` in each). `TuiProofs` goes on to the screens:

* `ScreensAnswer` rests on `ScreenRight`: a game screen, the bet prompt and what is left
  of `send_raise` go with the last INFO having given the client the turn, and a client
  that has left the ready screen never calls `recv_packet` but for an answer to what it
  sent. So each answer that is a packet ends in a loop that enables buttons, and only
  the connection's end does not.
* `ReadyIsSaidBetweenHands` is an account of one round between two processes that do not
  see each other. `InStep` says how far apart they can be: a client on its ready screen
  has nothing in flight in either direction, once its JOIN is read, and has not been
  asked; after its READY either that is on its way, or it was taken and no END is in
  flight, or the hand is over and the END is the last packet in flight. `SeatsFilled`
  counts the JOINs, so that the ready loop starts only with everybody seated; it is
  where `OneClientEach` is used.

**Only model-checked.** The liveness properties `BettingEnds`, `HandRunsThrough`,
`EverybodyStops` and `RecvReturns`, as fairness and ENABLED are out of the prover's reach;
of the first the safety part is proved, as `NoFreeMoves`. And the violation runs, which are
counterexamples.

## 5. Not modelled

The logs, the tables of card names, the test driver and the build files: they keep no
state that the game or a client acts on. The drawing of the terminal client. The
contents of END but for the winner, which are printed and never acted on. `evaluate_hand`, which nothing
calls, and prototypes without a body such as `server_join`.

The branch of `main()`'s betting loop that reads a packet is modelled and never taken, in
any run: it is dead in this server, which is proved. Runs that take it would need a
server that opens the betting, which is a different program.

## 6. Plan

Done: the engine with its history and its ledger (1), hand evaluation (2), the
server's main loop with open clients (3), the automated client and the whole system
(4), the proofs of the engine's invariant, of the ledger and of the server's two
main facts (5), the common part of the clients with its retries, the terminal client
and its system (6), what INFO says and that betting ends (7), the proofs about connections
and packets (8), of cards, conservation and payments (9), of the order of packets and of
what server and clients know of each other (10), of hand evaluation for the whole deck,
of the hands `main()` plays as a refinement of `HandProtocol`, and of what a move costs
(11). The order was by how much depends on each part.

What is left: the liveness properties, which need a proof system with fairness; the
rest of END, should a client ever act on it; and a server that opens the betting, if
the code is changed to one. `Act`, `AskTurn` and `FoldGone` are ready for it, and the runs and proofs
that rest on `BettingNeverOpens` would have to be done again.

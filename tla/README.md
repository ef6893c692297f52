# Pexeso: models, checks and proofs

This directory is the verification project of the network memory game in
`../src`: a threaded C server (`server_src`) and a JavaFX client
(`client_src`). It holds TLA+ modules translated from that code, TLC
configurations that check them on small instances, and theorems that TLAPS
proves for every value of the constants. `PROJECT.json` is its index: the
components, the runs, the lines each definition stands for, the hazards, the
findings and the theorems.

Sources are named by their short names: `client_handler.c:640` is
`src/server_src/client_handler.c`, line 640.

1. [The system](#1-the-system)
2. [The modules](#2-the-modules)
3. [The runs](#3-the-runs)
4. [The proofs](#4-the-proofs)
5. [Where code and documents disagree](#5-where-code-and-documents-disagree)
6. [What is not modelled](#6-what-is-not-modelled)
7. [Plan](#7-plan)

## 1. The system

A server process runs one **handler thread** per connection, a **PING thread**
(once a second), a **timeout checker** (every five seconds) and the main thread,
which accepts connections. They share three kinds of heap objects: `client_t`,
`room_t` and `game_t`. A client process has a **reader thread** and the
**JavaFX thread**, which share one `ClientConnection`.

### Components

| component | state it keeps | operations | what makes it correct |
|---|---|---|---|
| Game rules, `game.c` | players, scores, readiness, turn, board, the half-played turn, matched pairs | create, ready, start, flip, check match, remove player | the cards face up are those of the unfinished turn; pairs leave together and are counted; the turn is at a player; somebody can move until the game ends |
| One game under the handler threads, `client_handler.c`, `room.c`, `server.c` | a `game_t` without a lock, the room's seats, what each thread has read | READY, FLIP, LEAVE_ROOM, loss, removal, return, expiry | the players see a game of memory whatever the interleaving; the player at turn knows it; a ready game starts; a forfeit shares all that is left |
| Rooms, `room.c` | seats, count, owner, state, game; `rooms_mutex` | create, join, leave, hand over the ownership, destroy | counts, seats and pointers agree; a room has an owner; nothing freed is pointed to |
| Handler threads, `client_handler.c` | state, room and flags of a `client_t`; receive buffer; error counter | all messages; the cleanup after a loss; the take-over by RECONNECT | a client is freed exactly once and only when nobody holds it; its state fits its room |
| Timeout checker and PING thread, `server.c` | activity, PING, PONG and disconnect times; a copy of the list per round | send PING, mark and cut off a silent client, expire one, forfeit its game | a dead network is noticed, an answering client is not cut off, a lost one is kept ninety seconds and then freed |
| Client list, `client_list.c` | array of clients, `clients_mutex` | add (evicting), remove, replace, find, copy, shut down | it holds the clients that exist, each once |
| Server shutdown, `main.c`, `server.c` | `running`; the detached threads | SERVER_SHUTDOWN to all, cut the sockets, wait three seconds, free everything | it ends; a client is told before it is cut; nothing freed is used afterwards |
| Message parsing and error counting, `client_handler.c` | `line_buffer`, error count, descriptor | put lines together, count, close | a line is handled once and whole; three errors end the session; a handler uses its own descriptor |
| Client connection, `ClientConnection.java` | volatile flags, id, socket, counters | connect, read, disconnect, automatic reconnect | flags are consistent between the threads; reconnecting ends; it is not done when it must not be |
| Login and lobby screens | the view, `connected` | callbacks, buttons | a loss is shown; the user is not moved against his will |
| Game screen, `GameController.java` | `cardMatched`, `flippedIndices`, `myTurn`, the buttons | GAME_START, CARD_REVEAL, MATCH, MISMATCH, YOUR_TURN, GAME_STATE, click, hide | the screen agrees with the server's board; it allows the clicks that the server accepts |
| Start-up, logging, client entry point, layout | – | input and output | – |

### Interactions

* Handler threads and the checker call `room.c` and `game.c` on shared objects.
  `rooms_mutex` protects single functions of `room.c` and not what a handler does
  between two of them; the checker does not take it; nothing protects a game.
* A `client_t` is pointed to by the client list, by copies of the list that the
  checker and the shutdown work on, by its room's `players[]` and `owner`, and
  by its game's `players[]`. A RECONNECT makes a new `client_t` take the place of
  an old one in some of them and frees the old one.
* Server and client exchange lines over TCP. PING and PONG are the only traffic
  that either side depends on for its timeouts.
* The reader thread of the client reports to a listener. Part of what the listener
  does it does on the spot (`cardMatched`, `flippedIndices`), and part it hands to
  the JavaFX thread with `Platform.runLater`. The user's clicks run there too, and
  the hiding of mismatched cards waits on a thread of its own.

### What is hard

The order of calls of two handlers, of a handler and the checker, or of the
reader and the JavaFX thread; pointers that outlive what they point to; arrays
with holes that are read up to a count; departures in the middle of a turn; the
loss, the late answer and the retry on a connection that either side may take
for dead first; a shutdown that meets all of this; a screen that is told in
pieces what the server has done at once. `PROJECT.json` lists each hazard with
its line and the properties that watch it.

## 2. The modules

```
MemoryGame           the game as its players know it
Game                 game.c as operators on a record
  GamePlay           one game under the handler threads    -> MCGamePlay
                     implements MemoryGame
  Rooms              rooms, clients, threads, the checker  -> MCRooms
  ClientView         one game, the connection to a player
                     and his screen                        -> MCClientView
ServerLife           the process, its threads, the list    -> MCServerLife
Receiver             recv(), lines, errors, descriptors    -> MCReceiver
Keepalive            the clocks of both sides              -> MCKeepalive
ClientConnection     reader thread and JavaFX thread       -> MCClientConnection

Game_proofs <- GamePlay_proofs, ClientView_proofs
Rooms_proofs, ServerLife_proofs, Receiver_proofs, Keepalive_proofs,
ClientConnection_proofs
```

`GamePlay`, `Rooms`, `ServerLife` and `Receiver` look at the same handlers from
four sides. `GamePlay` keeps every player, score and card of one game, and
leaves out who owns the room and who joins later. `Rooms` keeps the memory of
rooms and clients and the owner, and leaves out what is sent. `ServerLife` keeps
the list and every thread of the process from start to end, and of rooms and
games only who plays. `Receiver` keeps what happens between `recv()` and
`handle_message`. `ClientView` has one game of two players once more, with every
message of it, and the client that receives them.

### Game

The `game_t` as a record, the C arrays as functions on `0 .. 3`, because the
shifting of players by `game_remove_player` is where things go wrong. The board
is a function from card indices to `HIDDEN`, `REVEALED` and `MATCHED`, and the
deal is any that `shuffle_array` can produce (`Deals`). Each function of
`game.c` is one operator, its early returns a guard (`CanFlip`, `CanReady`,
`CanStart`, `CanCreate`). `Forfeit` is the sharing of the remaining pairs, which
the server has twice: in `room_remove_player` and in the timeout checker.

### GamePlay and MemoryGame

A step of `GamePlay` is one call into `game.c` or `room.c` with the thread-local
code around it. `thread[c]` says between which two calls the handler of `c`
stands:

| action | code |
|---|---|
| `MarkReady`, `StartGame` | `handle_ready`, before and after the check of all players |
| `Flip`, `Settle` | `handle_flip`, the card and then `game_check_match` with MATCH, MISMATCH, GAME_END and YOUR_TURN |
| `Leave` | `handle_leave_room`; and the cleanup of a client that is not in a running game |
| `Drop`, `RemoveFromGame`, `RemoveFromRoom` | the cleanup of a player whom two or more others survive |
| `Wait`, `Return`, `Expire` | the cleanup that keeps a player; RECONNECT; the end of its ninety seconds |

`told` is the client YOUR_TURN was sent to last, `hadTurn` the local
`was_his_turn`, `over` the destruction of the game with its room. `seats` is the
room's array, which may have holes, and `Remaining` counts over its first
`player_count` places as the cleanup does. A returning client keeps its name in
the model: the new `client_t` takes the old one's place in the game, and that
the pointers change is the business of `Rooms`.

`MemoryGame` is what the players are promised: cards on a table, two turned up
and either won or turned down, a turn, points. It has no arrays, no indices and
no threads. `Memory` in `GamePlay` is an instance of it in which the abstract
variables are computed from the `game_t`:

| abstract | concrete |
|---|---|
| `phase` | `Phase(game, over)`: the state, and "over" once the room has gone |
| `players` | `Members(game)`: whoever is in `players[]` below the count |
| `table`, `up` | the cards that are not `MATCHED`, and those `REVEALED` |
| `turn` | `TurnOf(game, over)`: the player at `current_player_index` |
| `points` | `Points(game)`: the score on the place of each player |

`PlaysMemory == Memory!Spec` says that each step of the server is a move of that
game or none. The abstract game allows what the loss of a player does in the
code: the player goes with the points, somebody who is left gets the turn, and
the card that lies face up stays for whoever that is.

### Rooms

`client`, `room` and `thread` are functions to records with the fields that
decide anything: `state`, `room`, `is_disconnected` (`down`) and `socket_fd # -1`
(`open`) of a client; array, count, owner, state and game of a room; program
counter, local room pointer and client about to be replaced of a thread.

A step is a critical section of `rooms_mutex` with the local code around it, or
a stretch between two of them. So `room_remove_player` and the `room_destroy`
that follows it are two steps, as are `room_get_by_id` and `room_add_player`,
the checks of START_GAME and `game_create`, the search of the old client and the
take-over from it.

Objects are `unborn`, `live` or `freed` and are never used twice, so a pointer
to a freed one is recognised. What a thread does after following one is
undefined in C. The step is `Touch` for a handler and `TouchInCheck` for the
checker, it sets `memory` to `touched`, and nothing happens after it; every
property speaks about what comes before.

A game is a value in its room (`game`), so what can be freed while a thread works with it
is a pointer: `handle_ready`, `handle_flip` and the cleanup read `room->game` once
and go on with it. `Holding(r)` are the threads that have read it, and `dangling`
collects those whose game has been destroyed since; a step of such a thread is
`Touch` (`Stale`). The last read of the cleanup, of whose turn it is once the
player is out of the room, changes nothing and is left out.

Two simplifications: `Expire` examines and expires a client in one step,
although the checker works from a copy of the list (`ServerLife` has the copy);
and it starts only after the client's handler thread has ended (ninety seconds
lie between the two).

### ServerLife

The process from `server_init` to `exit()`. `list` is `client_array` with its
holes, `Sizes` the values `max_clients` may have. The main thread, the PING
thread, the checker and every handler have a place in their loops:

| action | code |
|---|---|
| `Accept`, `Spawn`, `SpawnFailed` | `server_run`: `client_list_add` with its three ways (a free entry, a client that waits for its reconnect is evicted and freed, the list is full), and `pthread_create` |
| `Signal`, `BeginShutdown`, `Notify`, `BeginCutting`, `Cut`, `Join`, `Finish` | `signal_handler`, which any thread may run, and `server_shutdown` with its two copies of the list, a second apart |
| `Ping`, `PingerEnds` | the PING thread |
| `CheckRound`, `Examine`, `CutOff`, `Expire` | the checker: it takes a client of its copy, copies the fields, and acts on these |
| `Hello`, `StartGame`, `LeaveGame`, `EndGame`, `Speak` | what handlers do at a message: who is logged in, who plays, who is sent to |
| `Find`, `TakeOver`, `Replace` | `handle_reconnect`: the search, the take-over, `client_list_replace` with `free()` |
| `LoseToGame`, `LoseAndKeep`, `Tell`, `LoseOutside`, `Delist` | the cleanup: removed from the game and freed, kept, or freed at once |

What the clock decides is a choice of `Examine` (`Verdicts`); when it decides is
`Keepalive`. `process` says how things end: `over` after `Finish`; `touched` when
a thread follows a pointer to a freed client; `killed` by SIGPIPE, which
`send()` raises on a socket that has been shut down (`Outcomes`). Nothing happens
after any of them. SIGPIPE from a peer that has gone, which could come at any
`send()`, is left out, or every behaviour could end anywhere. `Finish` takes the
three seconds of `server_shutdown` to be enough for the handlers that have been
woken.

### Receiver

Two handlers, each with its `line_buffer`, and the descriptors of the process:
`accept()` takes the lowest free one. `Recv` returns any characters, cut at any
place, and `Assemble` folds them into lines as the loop of
`client_handler_thread` does, with the overflow that is counted and begins the
line afresh. The third error closes the descriptor in the middle of the loop and
leaves `socket_fd` as it is; `Close` and `Keep` are the two cleanups, one of which
closes and the other only shuts down. `Messages` (the places at which a message
ends), `Message` and `Overflows` say without a reader what a sequence of
characters amounts to; the properties compare the two.

### Keepalive

One connection, second by second. `Tick` is the only step that lets time pass
and is enabled once nothing is due (`Urgent`), which is the usual way of writing
discrete time without fairness. The PING is sent in one step and
`waiting_for_pong` set in another. Messages and the two kinds of close are
`wire`, with their ages; TCP keeps what is sent during the outage. `Reconnect` is
`handle_reconnect` together with the client's reading of its answer.

### ClientConnection

`conn` holds the volatile flags, `sock` the state of the current socket,
`reader` the place of the reader thread in `readerLoop`, its `finally` block and
`reconnect()`, `returning` a predecessor that has started a new reader and is
still inside `reconnect()`. `tasks` is the JavaFX queue. The callbacks of
`LoginController`, `LobbyController` and `GameController` are what they queue;
`screen` says which of them listens. The server and the network answer as they
like, with the restriction that nobody reads over a dead socket.

The object is followed from `connect()` to the end of its last reader. After a
return to the login screen, a new `LoginController` has a `ClientConnection` of
its own, and the object followed here lives on as an orphan whose callbacks can
still change the screen: `again` is that new login screen, `second` a session
opened from it.

### ClientView

The composition of a game with one of its two players: the `game_t` and the
handler threads that play it (`FlipByRival`, `FlipByMe`, `Reveal`, `Settle`), the
messages on their way (`inbox`, `outbox`), the reader thread that handles them
(`HandleGameStart` to `HandleGameState`), the JavaFX queue (`tasks`, `RunBuild` to
`RunHide`), the threads that wait a second before mismatched cards are hidden
(`sleepers`, `Wake`) and the clicks of the user (`Click`).

`matched`, `flipped` and `myTurn` are `cardMatched`, `flippedIndices` and
`myTurn` of `GameController`, `face` what the buttons show. The connection may be
lost (`LoseLink`) and come back (`Join`, `FormatState`, `SendState`, `Prompt`):
GAME_STATE is formatted in one step and sent in another, since nothing locks the
game in between. A rival who moves then is noted in `overtaken`.

## 3. The runs

Every run finishes within three minutes on two workers.

### Runs that pass

| run | instance | states | shows |
|---|---|---|---|
| `game3` | 2–3 players, 2 pairs, fair | 209 508 | `TypeOK`, `BoardConsistent`, `PairsLeaveTogether`, `MoveLeft`, `SettlerInGame`, `ForfeitSharesTheRest`, `ReadyGameStarts`, `PlaysMemory` |
| `game2` | 2 players, 3 pairs | 255 150 | `TurnHolderKnows`, `TurnFollowsOrder` |
| `rooms3` | 3 clients, 1 room of 3, 1 pair, symmetric | 582 230 | `TypeOK`, `SeatsCounted`, `PointersAgree`, `OwnerSeated`, `StateFitsRoom` |
| `rooms_live` | a game of 2 and a third client, fair | 238 294 | `LostClientFreed`, `AbandonedRoomFreed` |
| `connection` | 7 attempts, 3 invalid lines, fair | 8 445 | `TypeOK`, `ReconnectingHeld`, `RunningIsRead`, `ServerEndsIt`, `OutageEnds` |
| `keepalive` | delays of 1–2 s, an outage of up to 130 s | 615 743 | `TypeOK`, `HealthyStays`, `LossNoticed`, `KeptNinetySeconds`, `NoHalfOpen` |
| `server_life` | 3 clients, a list of 2 or 3 | 3 111 880 | `TypeOK`, `ListSound`, `NothingLost`, `ToldBeforeCut` |
| `server_stop` | 3 clients, a list of 2, fair | 773 178 | `ShutdownEnds` |
| `receiver` | 2 clients, 2 descriptors, 6 characters, symmetric | 1 096 208 | `TypeOK`, `HandledAsReceived`, `CountedAsReceived`, `DescriptorsApart` |
| `client_view` | 2 pairs, one loss of the connection | 5 281 258 | `TypeOK`, `ReaderMirrors`, `ClicksFitServer`, `NothingPeeked` |

What each of them says, in words:

* `game3`: whatever order moves, departures, losses, returns and the checker
  come in, the cards face up are those that the unfinished turn recorded, both
  cards of a pair leave together and are counted, a card is left to turn, a
  thread that settles a turn has a player to pass it to, a forfeit would give
  away exactly what is left and evenly, a game whose players are all ready
  starts, and the whole is a game of memory: points come from pairs only and
  stay with their player, and only a mismatch or a loss moves the turn.
* `game2`: between two players the turn goes back and forth only after a
  mismatch, and its holder has been told.
* `rooms3`: while rooms are created, joined, left, handed over, played in, lost
  and destroyed, the count is the number of seats taken, seats and back
  pointers agree, the owner is seated, and the `state` of a client that has a
  seat fits its room. (One whose reconnect missed its seat may stay in a game
  that its room no longer has: this takes four clients, see
  `ReplacedEverywhere` in section 5.)
* `rooms_live`: no combination of `state`, `is_disconnected` and `socket_fd` leaves a
  lost client or its room behind for ever. The run starts in a running game,
  because that is where clients are kept.
* `connection`: every way out of `reconnect()` gives the flag back, `running`
  means that somebody reads, a server that ended the session is left alone, and
  an outage ends in a reader or at the login screen.
* `keepalive`: no side takes the other for dead before the outage; both notice
  it within their bounds; the session is kept between 90 and 95 seconds; where
  one side has given up the connection the other learns of it.
* `server_life`: the list holds the clients that exist, each once, while main,
  handlers and the checker add, evict, replace, remove and free; and the socket
  that the shutdown cuts is one whose client was sent SERVER_SHUTDOWN. The run
  starts with two or three clients in a game, because the interesting losses
  happen there.
* `server_stop`: after the signal the main thread comes to its end with every
  client freed, or the process has ended before by SIGPIPE or at freed memory:
  nobody waits for ever.
* `receiver`: which messages are handled and how many errors are counted
  depends on the characters alone and not on how they are cut; and until
  somebody makes the third error every handler reads its own descriptor.
* `client_view`: when nothing is on its way, the reader's sets are the cards
  the server holds matched and face up, the screen allows exactly the clicks that
  the server accepts, and, as long as the connection has held, shows no hidden
  card. The first two except a return during which the rival has moved
  (`overtaken`), where the code does not have them.

Each of these properties is known to be violated by at least one plausible
mistake in the code: the mutants of `PROJECT.json` name them, and the mutated
definitions stand before the real ones, each with a comment that names the
mistake.

### Bounds, and why they are enough

* **Players.** The turn and the shifting of places distinguish the first, a
  middle and the last place: three players have all of them.
  `MAX_PLAYERS_PER_ROOM` stays 4 in every instance, so there are always places
  beyond the players. `ClientView` has two: the screen tells its own turn from
  any other, and no more.
* **Pairs.** The boards have 8 pairs and more, the checked ones 1 to 3: a match,
  a mismatch, the last pair and a game that goes on after a match all happen
  with two, and a remainder in the forfeit as well. The proofs hold of any
  number.
* **Deals.** All that the shuffle can produce, so no board is special. `client_view`
  keeps one: its properties do not tell cards apart by their places.
* **Clients and rooms.** Three clients are an owner, another player and one who
  joins or reconnects; one room is enough for everything but `RoomsIndependent`
  (section 5), which takes two. `PointersAgree` and `StateFitsRoom` are checked
  with one room, because with two the code has that defect and they do not hold.
  A newcomer beside a game of three takes a fourth client: more than ten million
  states of that instance were searched without a violation.
* **The list.** In `rooms3` it can hold every client, so none is evicted there.
  With `MaxClients = 2` in the same configuration clients are evicted, and the
  invariants hold as well. In `server_life` a list of two with three clients
  evicts, and one of three has a hole in the middle.
* **Objects.** A client or a room is allocated once in a behaviour: three
  connections and one or two rooms in all.
* **`Receiver`.** Characters: a letter that is a message, a letter that is not,
  LF and CR. `MAX_MESSAGE_LENGTH` is 3, so that lines below, at and beyond it
  fit in the six characters that are received; `MAX_ERROR_COUNT` is 2. Chunks of
  one and two characters cut at every place. Two descriptors are enough for one
  to be given back and taken by the other connection.
* **`ClientView`.** `MaxClicks` FLIPs under way is one, a message is not read late
  by more than a handler's own answers (`MaxUnread`), one task may wait when the
  next message is read (`MaxUnrun`), one pair of cards waits to be hidden
  (`MaxSleepers`), and the connection is lost once. Each bound is a guard. With
  `MaxSleepers` at one, a mismatch is not settled before the cards of the
  last one are hidden: two mismatches within a second of each other are left out.
* **`MaxTasks`** is two: an attempt of the reconnect loop does not begin while
  more than two tasks are queued. One attempt queues at most two tasks, so the
  queue holds a few more. The loop sleeps ten seconds before each attempt after
  the first one, which a JavaFX thread that lives uses to empty the queue.
* **`MaxOutage`** is 130 s, beyond the ninety seconds of `RECONNECT_TIMEOUT` and
  the time of seven attempts (105 s at most). There is one outage per behaviour.
* **`ConnectFailures`**: `connect()` fails at once (a refused connection) or
  after `CONNECTION_TIMEOUT_MS`.
* **Delays** of one to two seconds are slower than any network the game is
  played over. The race of an early PONG needs a delay below one second.

`SYMMETRY` is used in `rooms3` and `receiver` only, for safety, over clients that
nothing tells apart before they connect. The runs of `GamePlay` keep one order
of the players instead (`OrderedInit`): every other initial state is a renaming
of one of these, and the liveness property may stand beside the invariants.

### Fairness

* `GamePlay`: a handler that has started a message runs on (`Continue`), and the
  checker comes round (`Expire`). The scheduler and the loop of the checker
  justify both. No player is bound to send anything.
* `Rooms`: `RunOn` per client: a handler runs on, and `recv()` returns on a
  socket that has been shut down, so the cleanup comes. `Expiry`: the checker
  visits every client in each round. Nobody is bound to connect or to fall silent.
* `ServerLife`: `Progress` is one condition for all threads together: some thread
  that is not waiting for a message goes on. It is weaker than fairness for each
  of them, and enough, because after the signal each can only go on so far.
* `ClientConnection`: the reader goes on where it does not need a line of the
  server (a read ends by `READ_TIMEOUT_MS`, `reconnect()` by its own timeouts),
  the old reader leaves `reconnect()`, and the JavaFX thread works off its
  queue.
* `Keepalive`, `Receiver` and `ClientView` need none: the properties of the first
  are bounds on time, those of the others speak of states in which nothing is
  on its way.

`CHECK_DEADLOCK FALSE` stands wherever the program itself may stop. `Rooms` stops
when every client has been freed and at the first use of freed memory;
`ServerLife` when the process has ended; `Receiver` when all handlers have ended or
`MaxBytes` characters have come; `ClientView` when the game is over;
`ClientConnection` when its last reader has ended; `Keepalive` when the client has
told the user that it is over. `GamePlay` is checked for deadlock: it says itself
when it has ended.

## 4. The proofs

TLAPS proves these as theorems of the specifications, for every set of clients,
every number of pairs and of rooms, every size of the list, every delay and every limit.

| module | theorems |
|---|---|
| `GamePlay_proofs` | `TypeCorrect`, `BoardAlwaysConsistent`, `PairsAlwaysLeaveTogether`, `MoveAlwaysLeft`, `SettlerAlwaysInGame`, `ForfeitAlwaysSharesTheRest`, `TurnHolderAlwaysKnows`, `TurnAlwaysFollowsOrder`, `GameImplementsMemory` |
| `Rooms_proofs` | `RoomsTypeCorrect`, `SeatsAlwaysCounted`, `OwnerAlwaysSeated`, `PointersAlwaysAgree`, `PointersOfOneRoomAgree`, `StateAlwaysFitsRoom`, `StatesOfOneRoomFit` |
| `ServerLife_proofs` | `LifeTypeCorrect`, `ListAlwaysSound`, `NothingEverLost`, `AlwaysToldBeforeCut` |
| `Receiver_proofs` | `ReceiverTypeCorrect`, `AlwaysHandledAsReceived`, `AlwaysCountedAsReceived`, `DescriptorsAlwaysApart` |
| `Keepalive_proofs` | `ClocksTypeCorrect`, `LossAlwaysNoticed`, `AlwaysKeptNinetySeconds`, `NeverHalfOpen`, `HealthyAlwaysStays` |
| `ClientView_proofs` | `ViewTypeCorrect`, `ReaderAlwaysMirrors`, `ClicksAlwaysFitServer`, `NothingEverPeeked` |
| `ClientConnection_proofs` | `ConnectionTypeCorrect`, `ReconnectingAlwaysHeld`, `RunningAlwaysRead`, `ServerAlwaysEndsIt`, `AlwaysAsksWithId` |

**Assumptions.** `NULL` is not a client, there is at least one pair, the limits of
attempts and invalid lines are positive numbers, a room is made for two to four
players, `NULL` is neither a room nor a game, the array of rooms and the list have at least one
place, there is at least one descriptor, a message is at least two characters long
and one error at least ends a session, LF and CR are two characters and no letters,
the delays are numbers with the least not above the greatest, and a failing
`connect()` takes at most five seconds. Nothing else, except where a theorem states
a hypothesis of its own: `HealthyAlwaysStays` that a message takes at least a second
and a PING with its PONG no longer than `PONG_TIMEOUT` (`GoodNetwork`);
`PointersAlwaysAgree` and `StateAlwaysFitsRoom` that no client ever sits in two live
rooms (`SeatedOnce`).

**The game.** `TypeOK` is not inductive: `(current + 1) % player_count` is a
place of the array only if the game has a player, and the thread that
computes it may have been overtaken by a removal. The invariant is

    IInv == TypeOK /\ GameInv(game) /\ SettlerInGame

`SettlerInGame` says that a thread which has turned a card and not yet settled
the turn belongs to a player of the game. A removal is done by the leaver's own
thread, so it can take out nobody who is settling. `GameInv` adds that the
players fill the first places with the turn at one of them
(`PlayersInPlace`), that the value function is a deal and that the game is finished exactly
when all pairs are matched. `Game_proofs` has one lemma per operator of `Game`,
that it preserves `GameInv`; `RemoveAtInv` and `MatchInv` are the long ones: the
shift of the places with the three cases of `current_player_index`, and the
counting of the values that have left. `MoveExists` derives `MoveLeft`: fewer
than two cards lie face up and some value has not left, so one of its two cards
is hidden. `NextInv` has one step per action. `ForfeitShares` computes what a forfeit
gives away: `CountPlaces` counts a set of places one by one, so that the rank of a
winner is a sum, and the sum of the shares is worked out for one to four winners.

**Two players.** `TurnHolderKnows` and `TurnFollowsOrder` are false of three players
(section 5), so their theorems begin with `game.count = 2`. The clients may be any number.

    PairInv == PairSeated
               /\ (~over /\ game.state = "PLAYING" => told = CurrentPlayer(game))
               /\ \A c \in Clients : At(c, "flipped") => CurrentPlayer(game) = c

`PairSeated` says that the room has the two players of the game in its first two places and that
nobody is being removed: the others are never the two that `Drop` asks for
(`PairNeverDrops`), and whoever leaves ends the game (`PairUnseatEnds`). The last
conjunct is why `Settle` may send YOUR_TURN to its own client after a match. TLC checked `PairInv`
on the instance of `game2` before it was proved.

**The refinement.** `GameImplementsMemory` is `Spec => Memory!Spec`. The mapping
looks for a player's score at the place where the player is found, so the proof
needs that nobody sits on two places:

    RInv == IInv /\ Distinct(game) /\ Underway

`Underway` says that a finished game is destroyed in the same step, and that only
a running game has threads in the middle of a turn or of a removal. The lemmas
say what each operator of `Game` does to the mapped variables (`RemoveAt` takes a
player and the points and moves nobody else's; `Match` is `Win`; `Mismatch` is
`TurnDown`; a forfeit gives points to leaders only), and the theorem has one step
per action, which picks the abstract move or shows that nothing has changed.

**The rooms.** `SeatsCounted` and `OwnerSeated` hold for any number of rooms,
whatever becomes of the games in them, so the invariant takes the game as a
value of an arbitrary set (`Shape`):

    RoomsInv == Typed /\ CheckerSound
                /\ \A r \in RoomIds : SeatsSound(r) /\ RoomOwned(r)
                /\ \A c \in Clients : ThreadSound(c)

Neither property is inductive. That a place is given up once when a client is
removed needs that nobody sits on two (`SeatsSound`), and a take-over by
RECONNECT keeps that only because the new client sits nowhere: those who sit
have logged in, and a thread about to take over has not (`ThreadSound`), which
no other thread can change for it. A room with no seat taken or no owner is in the hands of
a thread that is about to destroy it (`Doomed`), and stays there until that
thread does. `KeptSound` treats every step that leaves a room's seats alone,
`HandlerStep` and `CheckerStep` add what a step may do to clients and to other
threads, and the rest is one lemma per action; `WithoutSeats`, `NewOwner` and
`SwapSeats` are about the arrays.

**The pointers.** `PointersAgree` is false once a client sits in the arrays of two
live rooms: a room that gives its players up and is not yet destroyed still seats
them, they may enter another one, and `room_destroy` then takes the pointer to the
other one away (`RoomsIndependent`, section 5). The theorem says that this is the
only way: `Spec /\ []SeatedOnce => []PointersAgree`, for any number of rooms; with a
single room the hypothesis holds of itself (`PointersOfOneRoomAgree`).

    PointInv == RoomsInv /\ (\A r \in RoomIds : Points(r))
                         /\ \A c \in Clients : Joinable(c)

`Points` follows a room through its life: nobody sits in it before it is created,
those it seats point to it while it lives on, and none of them does once it is
freed. The last part is what a take-over by RECONNECT needs, since it copies the
pointer of the old client without a look at the room. `QuietStep` treats the
steps that leave seats and pointers alone, `LobbyStep` those that send the clients of
one room to the lobby, and `OthersEntered` those by which a client enters a room.
That the room of a step is not freed comes from the guard of the step
(`~Stale`): at freed memory the behaviours end.

**The games of the rooms.** A game that is made from an array with holes
(`RequiredPlayers`, section 5) has places without a player and does not satisfy `GameInv`, so
`TypeOK` of `Rooms` rests on less: `InBounds(g)` says that a game keeps to its type
and that nobody stands behind its last place. `Game_proofs` shows that every
operator preserves it, `CheckMatch` only if the game still has a player.

    GamesInv == RoomsInv /\ dangling \subseteq Clients
                /\ (\A r \in RoomIds : GameSound(r))
                /\ \A d \in Clients : Held(d) /\ Founding(d)

`Held` is what the thread in `handle_flip` needs: while its pointer does not
dangle, the room has the game it has read, and the thread's client, as long as it exists, plays in
it, so the division by `player_count` is safe. Others can take the game away, which puts the
thread into `dangling`; they can take themselves out of it, and not this client;
a RECONNECT that takes over its place frees the client, and the thread that
goes on then follows a freed pointer. Nobody gives the room another game
meanwhile, since only its owner creates one, in a room that has none
(`Founding`). `GamesStep` has the four things a step may do to a game, and each
action has a lemma that names the one it does.

**Who plays.** `StateFitsRoom` follows from

    FitInv == PointInv /\ GamesInv /\ (\A d \in Clients : Placed(d))
              /\ \A r \in RoomIds : Fits(r)

`Fits` says of a room that lives on that whoever sits in it in STATE_IN_GAME has a game
there. A game is taken away together with the clients that are seated, who go to
the lobby in the same step; STATE_IN_GAME is given only by the start of a game, to
those in the first places of its room. If one of them also sat in another room without a
game, that room would not fit: this is where `SeatedOnce` is needed, besides the pointers. With
a single room it holds of itself (`StatesOfOneRoomFit`). TLC finds `FitInv` true in all
states of `rooms3`, and `GamesInv` in six million states with two rooms.

**The client list.** `ListAlwaysSound` and `NothingEverLost` come from one invariant,
which holds until the process ends:

    ListInv == process = "up" => Types /\ Exact /\ Marked /\ Born

`Exact` says that the clients in the list are those that exist, each once. It is
not inductive: `client_list_replace` puts the new client at the old one's place
and clears the new one's own, which is right only if the two differ, and they do
because a client that is marked has no socket (`Marked`), so that a handler
that hears from its client cannot find that client as its own predecessor. `Born`
excludes that a thread works on a client that was never accepted. `RemovedExact`
and `ReplacedExact` are the lemmas about the array, `FirstOfIn` finds the first
place of a set by the well-foundedness of the numbers.

`LifeTypeCorrect` needs to know of the copies of the list that they hold clients and
are no longer than the array. A copy is made with `SelectSeq`, which is defined by
recursion; `SnapshotIs` says what it returns, by a look at the first prefix for which
that would be wrong, since such a first one exists (`UpTo`) and the prefix
before it is right.

`AlwaysToldBeforeCut` is about the two copies that `server_shutdown` works off, a
second apart:

    ToldInv == process = "up" => Told(client, main, told)

together with `ListInv`. `Told` follows the sockets through both loops: only clients that
exist have one and none is cut before the second copy; while the first copy is worked off,
whoever has an open socket has been sent SERVER_SHUTDOWN or is still to come in that copy;
from the second one on, whoever has a socket was told. TLC checked it on the instance of
`server_life` before it was proved.

**The lines.** The reader of `Receiver` and the text it stands for are two recursive
functions. The theorems relate them with `Matches(r, t)`: what the reader `r` has
handled, counted and kept is what the characters `t` amount to. `TakeMatches` is
one character: a line grows, ends as a message or as an empty line, or overflows.
`AssembleMatches` goes over a whole chunk, again by the first prefix at which it
would fail. The invariant is

    RecvInv == TypeOK /\ Assembled

and `HandledAsReceived` and `CountedAsReceived` follow from `Assembled`.
`DescriptorsApart` is preserved together with it (`DescriptorsNext`): counts only grow, and
a reader is cut off only by a count that has reached the limit.

**The clocks.** The theorems of `Keepalive` hold for all delays, however slow, and
an outage of any length:

    ClockInv == TypeOK /\ Kept90 /\ Closes /\ PingsInTime
                /\ ServerNotices /\ ClientNotices

`ServerNotices` adds up what the three clocks have counted of the outage:
at most a PING interval before the PING is sent, `PONG_TIMEOUT` after it, and the time to
the next round of the checker (`ToCheck`). `Kept90` adds the age of a loss to the
same `ToCheck`. `Closes` follows a close from the side that gave up to the one that
has not read of it yet. `HealthyAlwaysStays` has a hypothesis on the network, without which it is false:
`GoodNetwork` bounds the delays, and the code's five seconds leave exactly 1 and 2. `HealthInv`
says that as long as there was no outage nobody has closed, and `PingUnderWay` where the
PING is: on its way for as long as the server's clock has counted since it was
sent, or replaced by a PONG at most one delay younger, so that the PONG is there in time. TLC checked `HealthInv` on the
instance of `keepalive` before it was proved.

**The screen.** The properties of `ClientView` speak of moments when nothing is on
its way. The invariant has to speak of every moment, whatever the queues hold, and for any
number of messages, tasks and clicks under way:

    ServerInv /\ Typed /\ LinkInv /\ ViewInv        (and HidingInv for TypeOK)

`ViewInv` says that the messages in `inbox` *lead* (`Leads`) from the view the
client has now (`View`: its two sets, the turn, the cards that may lie open for
no reason) to one that agrees with the server (`FinalView`). `Leads` is a path of
views, one for each message, and not a function defined by recursion, because that
is easier to reason about at both ends: a message that is sent makes the path longer at its end
(`LeadsAppend`), a message that is read shortens it at the front (`LeadsTail`).
So each message is shown once to do to the view what the server did to the game, and
each handler of the reader once to do to the client's variables what the message
does to the view. Two notions tie the JavaFX thread to it. `Due` is what the tasks
will make of `myTurn`: the last mismatch decides, whose task hands over another, and
else the last task that sets it. `Covered` says of a card that shows a value and must not that a
task or a thread which hides it comes after every task that shows it. `LinkInv`
has the return: unless the rival has moved meanwhile (`overtaken`), nobody is
within a FLIP between `Join` and `Prompt`, GAME_STATE is still true when it is
sent, and it comes first in an empty queue; a loss of the connection is
what makes `ViewInv` false and GAME_STATE what restores it. `HidingInv`
counts a mismatch as a message, as a task and as a thread. TLC checked the whole
on the instance of `client_view`, with the path written as a fold, and longer
queues for 20 million states, before it was proved.

**The connection.** Each of the four properties needs another to be preserved:
`reconnecting` is given back correctly only if a second thread is not inside
`reconnect()` meanwhile (`OneInside`), that follows from `reconnecting` being
held, and the type of the invalid-line counter from its being below
the limit while a reader reads (`BelowLimit`). The invariant is the
conjunction of all; three lemmas go through the actions of the reader's loop,
of the reconnect and of the screens. It also gives `AlwaysAsksWithId`, that
RECONNECT is sent with the id of a session.

**Only model-checked.** The liveness properties (`ReadyGameStarts`,
`LostClientFreed`, `AbandonedRoomFreed`, `OutageEnds`, `ShutdownEnds`), which need
fairness and `ENABLED`, out of the prover's reach. Every other property of a passing
run is a theorem; `HealthyStays`, `TurnHolderKnows`, `TurnFollowsOrder`, `PointersAgree`
and `StateFitsRoom` under the hypotheses named above, without which they are false.

## 5. Where code and documents disagree

Each of these runs checks one property that a document or a comment of the
repository states, and TLC finds it violated. The findings of `PROJECT.json`
quote the lines.

| run | property | what happens |
|---|---|---|
| `quit` | `QuitStaysQuit` | the reconnect loop undoes a disconnect |
| `server_killed` | `StopsByItself` | the shutdown cuts the players' sockets, the first handler that wakes broadcasts to one of them, and SIGPIPE ends the process before its clean-up |

The modules state more properties that the code does not have, most of them in
a section of their own at the end of the module. They are not runs of the project.
To see one refuted, put it into the configuration named here in place of the
properties there, with the changed constants; TLC refuted each of them so.

| property | configuration | what happens |
|---|---|---|
| `TurnFollowsOrder` | `MCGamePlay3` | `game_remove_player` compares the turn with the lowered count first: if the last player has the turn and another is lost, the first one gets it (`game.c:146`) |
| `TurnHolderPresent` | `MCGamePlay3` | LEAVE_ROOM leaves the player in the game, and the turn comes to him (`client_handler.c:294`) |
| `TurnHolderKnows` | `MCGamePlay3` | `was_his_turn` is read before the removal; a turn that moved in between is passed on without YOUR_TURN (`client_handler.c:850`) |
| `ForfeitOnlyToRemaining` | `MCGamePlay3` | a player who left the room still gets a share of a forfeit (`room.c:233`) |
| `PausedWhileWaiting` | `MCGamePlay3` | a game with a disconnected player does not pause (`README.md:336`) |
| `OnlyLastRivalWaits` | `MCGamePlay3`, `SPECIFICATION Spec`, `Clients <- Four`, `TotalPairs = 1` | the cleanup counts the first `player_count` places of an array with holes (`client_handler.c:819`) |
| `FreedUnheld` | `MCRooms3` | RECONNECT frees the old client under its own handler (`client_handler.c:680`) |
| `GamePlayersLive` | `MCRooms3` | a game points to a freed client (`room.c:196`) |
| `RequiredPlayers` | `MCRooms3` | START_GAME counts the players twice (`client_handler.c:410`) |
| `ReplacedEverywhere` | `MCRooms3`, no symmetry | RECONNECT misses places behind a hole (`client_handler.c:641`) |
| `RoomsIndependent` | `MCRooms3`, `Clients <- Two`, `RoomIds <- TwoRooms`, `MaxRooms = 2`, `MaxPlayers = 2`, `MaxClients = 2`, no symmetry | `room_destroy` resets a client that has entered another room meanwhile (`room.c:308`) |
| `KeptForReconnect` | `MCRooms3`, `MaxPlayers = 2`, `MaxClients = 2`, no symmetry | a full list evicts a client that waits for its reconnect (`client_list.c:123`) |
| `SnapshotsLive` | `MCServerLife` | the checker or the shutdown works on a client that has been freed since its copy of the list (`server.c:338`) |
| `TakenOverOnce` | `MCServerLife`, `Clients = {a, b, c, d}`, `Sizes = {3}` | a RECONNECT and its retry both find the old client before either replaces it (`client_handler.c:587`) |
| `ThreeErrorsCut` | `MCReceiver` | overlong lines are counted without a look at the limit; `README.md:362` says "Po 3 chybách → odpojení klienta" |
| `ReadsItsOwn` | `MCReceiver` | the descriptor closed at the third error is read and closed once more, when it may be another's (`client_handler.c:46`) |
| `DescriptorsReturned` | `MCReceiver` | a client that is kept takes its descriptor with it: nobody closes it (`client_handler.c:880`) |
| `ShortOutageBridged` | `MCKeepaliveOutage` | a client that is faster than the server's timeout is refused and gives up |
| `SeventySecondsTried` | `MCKeepaliveOutage` | seven attempts can be over after sixty seconds (`ClientConnection.java:316`) |
| `AnsweringClientKept` | `MCKeepaliveOutage`, `MinDelay = 0`, `MaxDelay = 1`, `MaxOutage = 0` | a PONG handled before the flag is set is forgotten (`server.c:293`) |
| `ExpiryEndsLoop` | `MCClientConnectionQuit` | the loop goes on after the session has expired (`ClientConnection.java:480`) |
| `LossIsShown` | `MCClientConnectionQuit` | a lobby can stand on a connection that nobody reads (`ClientConnection.java:307`) |
| `ManualLoginStands` | `MCClientConnection`, `MaxAttempts <- Two` | the loop takes the user out of the session opened since (`ClientConnection.java:337`) |
| `ClicksAlwaysFit` | `MCClientView` | GAME_STATE is sent after what it says has been overtaken; the player who has the turn cannot click (`client_handler.c:703`) |
| `FaceUpIsShown` | `MCClientView` | a card that is turned again within a second of its mismatch is hidden (`GameController.java:338`) |
| `NeverPeeked` | `MCClientView` | GAME_STATE leaves cards as they were shown when the connection was lost (`GameController.java:648`) |
| `ClicksAccepted` | `MCClientView` | a second click before CARD_REVEAL comes back sends FLIP again, which is an error (`GameController.java:290`) |

## 6. What is not modelled

* **Text.** The formats of the messages, names and logs; `game_get_winners`; the
  parsing of the parameters of a message. Whether a message is an error is a
  choice of the peer in `Receiver`.
* **Start-up, arguments, logging, entry point, layout**: input and output
  without any decision of the protocol. Of the start-up `ServerLife` has the threads.
* **`room_system_shutdown`**, which frees rooms after the last thread that uses
  them has ended; and **`client_count`** of the list, which is only logged.
* **SIGPIPE by a peer that has gone**, at any `send()`: `ServerLife` has that of the
  server's own shutdown.
* **Partial sends.** `send()` is taken to succeed or to be seen later as a loss.
* **The game screen of more than two players**, READY, START_GAME, the scores
  and the list of players; the room list and the dialogs of the lobby.
* **The checker's copy of the client list in `Rooms`**: `ServerLife` has it, with
  what an expiry does to the list, and `Rooms` what it does to the rooms.

## 7. Plan

The core and the parts around it are done: the rules and the abstract game that
they implement, a game under its threads, rooms and their memory, the process
and its list, the reception of lines, both sides of the connection, and the
screen. What is left, in this order:

1. **`Reconnect`**: the handshake of the two sides composed: the new `client_t` is
   in the room before WELCOME is sent, so a broadcast can arrive first, which
   `reconnect()` takes for a refusal.
2. **A game in WAITING**: what its players must do for it to start when one of
   them leaves before READY; the abstract game has the statement, the room the
   code.
3. **Proofs** of what these two promise, as far as it is safety.

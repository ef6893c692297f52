------------------------------ MODULE GamePlay ------------------------------
(***************************************************************************)
(* One game, from its creation to its end, under the handler threads of    *)
(* its players (server_src/client_handler.c).  No lock protects a game:    *)
(* each thread calls the functions of game.c one after the other, and the  *)
(* threads interleave between those calls.  One step here is one such call *)
(* with the thread-local code around it.                                   *)
(*                                                                         *)
(* Of the room only the array of its players is kept; its owner, those who *)
(* join later and the life of its memory are the subject of module Rooms.  *)
(***************************************************************************)
EXTENDS Game

VARIABLES
    game,      \* the game_t
    seats,     \* room->players
    thread,    \* where the handler thread of each client stands
    hadTurn,   \* was_his_turn, a local of the disconnecting thread
    told,      \* the last client YOUR_TURN was sent to
    over       \* the game has been destroyed

vars == <<game, seats, thread, hadTurn, told, over>>

ThreadStates ==
    {"idle",      \* waiting in recv()
     "marked",    \* in handle_ready, after game_player_ready
     "flipped",   \* in handle_flip, after game_flip_card
     "removing",  \* cleaning up, before game_remove_player
     "removed",   \* cleaning up, before room_remove_player
     "waiting",   \* ended; the client is kept for a reconnect
     "gone"}      \* out of the room

\* The game, its room and the threads within their types.
TypeOK ==
    /\ game \in GameType
    /\ seats \in [Slots -> Clients \cup {NULL}]
    /\ thread \in [Clients -> ThreadStates]
    /\ hadTurn \in [Clients -> BOOLEAN]
    /\ told \in Clients \cup {NULL}
    /\ over \in BOOLEAN

Seated == {seats[i] : i \in Slots} \ {NULL}
PlayerCount == Cardinality({i \in Slots : seats[i] # NULL})

\* The others in the room as the cleanup counts them: it looks at the first
\* player_count places of an array that may have holes.
Remaining(c) ==
    Cardinality({i \in 0 .. PlayerCount - 1 : seats[i] \notin {NULL, c}})

\* The client is in the room and its thread is ready for the next message.
Idle(c) == ~over /\ c \in Seated /\ thread[c] = "idle"

At(c, pc) == ~over /\ thread[c] = pc

Goto(c, pc) == thread' = [thread EXCEPT ![c] = pc]

\* handle_start_game creates the game of a full room: its players are the
\* first places of the room's array.
Init ==
    /\ \E n \in Slots \cup {MAX_PLAYERS_PER_ROOM}, deal \in Deals :
          /\ CanCreate(n)
          /\ seats \in [Slots -> Clients \cup {NULL}]
          /\ \A i \in Slots : (seats[i] # NULL) <=> (i < n)
          /\ \A i, j \in 0 .. n - 1 : i # j => seats[i] # seats[j]
          /\ game = Create(seats, n, deal)
    /\ thread = [c \in Clients |-> IF c \in Seated THEN "idle" ELSE "gone"]
    /\ hadTurn = [c \in Clients |-> FALSE]
    /\ told = NULL
    /\ over = FALSE

-----------------------------------------------------------------------------
(* handle_ready: mark the player, then start the game if all are marked.   *)

MarkReady(c) ==
    /\ Idle(c)
    /\ CanReady(game, c)
    /\ game' = PlayerReady(game, c)
    /\ Goto(c, "marked")
    /\ UNCHANGED <<seats, hadTurn, told, over>>

\* Mutant: only the READY of the room's first player starts the game.
StartGameByFirst(c) ==
    /\ At(c, "marked")
    /\ IF AllPlayersReady(game) /\ CanStart(game) /\ game.players[0] = c
       THEN /\ game' = Start(game)
            /\ told' = CurrentPlayer(game')
       ELSE UNCHANGED <<game, told>>
    /\ Goto(c, "idle")
    /\ UNCHANGED <<seats, hadTurn, over>>

StartGame(c) ==
    /\ At(c, "marked")
    /\ IF AllPlayersReady(game) /\ CanStart(game)
       THEN /\ game' = Start(game)
            /\ told' = CurrentPlayer(game')
       ELSE UNCHANGED <<game, told>>
    /\ Goto(c, "idle")
    /\ UNCHANGED <<seats, hadTurn, over>>

(* handle_flip: turn a card, then settle the turn if it was the second.    *)

Flip(c, i) ==
    /\ Idle(c)
    /\ CanFlip(game, c, i)
    /\ game' = FlipCard(game, i)
    /\ Goto(c, "flipped")
    /\ UNCHANGED <<seats, hadTurn, told, over>>

\* Mutant: YOUR_TURN goes to the sender of FLIP after a mismatch too.
SettleTellingSender(c) ==
    /\ At(c, "flipped")
    /\ game' = CheckMatch(game)
    /\ over' = (game'.state = "FINISHED")
    /\ told' = IF game.flips = 2 /\ ~over' THEN c ELSE told
    /\ Goto(c, "idle")
    /\ UNCHANGED <<seats, hadTurn>>

Settle(c) ==
    /\ At(c, "flipped")
    /\ game' = CheckMatch(game)
    /\ over' = (game'.state = "FINISHED")
    /\ told' = IF game.flips = 2
               THEN IF IsMatch(game)
                    THEN IF over' THEN told ELSE c
                    ELSE CurrentPlayer(game')
               ELSE told
    /\ Goto(c, "idle")
    /\ UNCHANGED <<seats, hadTurn>>

-----------------------------------------------------------------------------
(* room_remove_player, as far as the game is concerned: it forfeits a game *)
(* whose room is left with fewer than two clients.                         *)

Unseat(c) ==
    /\ seats' = [i \in Slots |-> IF seats[i] = c THEN NULL ELSE seats[i]]
    /\ over' = (PlayerCount' < 2)
    /\ game' = IF over' THEN [game EXCEPT !.scores = Forfeit(game, c)]
               ELSE game

(* handle_leave_room, and the cleanup of a client lost before the start:   *)
(* neither takes the client out of the game.                               *)

Leave(c) ==
    /\ Idle(c)
    /\ Unseat(c)
    /\ Goto(c, "gone")
    /\ UNCHANGED <<hadTurn, told>>

(* The cleanup of client_handler_thread while the game is played: with two *)
(* or more others in the room the client is removed ...                    *)

Drop(c) ==
    /\ Idle(c)
    /\ game.state = "PLAYING"
    /\ Remaining(c) >= 2
    /\ hadTurn' = [hadTurn EXCEPT ![c] = (CurrentPlayer(game) = c)]
    /\ Goto(c, "removing")
    /\ UNCHANGED <<game, seats, told, over>>

RemoveFromGame(c) ==
    /\ At(c, "removing")
    /\ game' = RemovePlayer(game, c)
    /\ Goto(c, "removed")
    /\ UNCHANGED <<seats, hadTurn, told, over>>

RemoveFromRoom(c) ==
    /\ At(c, "removed")
    /\ Unseat(c)
    /\ told' = IF hadTurn[c] /\ ~over' /\ CurrentPlayer(game) # NULL
               THEN CurrentPlayer(game) ELSE told
    /\ Goto(c, "gone")
    /\ UNCHANGED hadTurn

(* ... and with fewer it is kept: it may come back by RECONNECT, or the    *)
(* timeout checker forfeits the game.                                      *)

Wait(c) ==
    /\ Idle(c)
    /\ game.state = "PLAYING"
    /\ Remaining(c) < 2
    /\ Goto(c, "waiting")
    /\ UNCHANGED <<game, seats, hadTurn, told, over>>

Return(c) ==
    /\ At(c, "waiting")
    /\ told' = IF CurrentPlayer(game) = c THEN c ELSE told
    /\ Goto(c, "idle")
    /\ UNCHANGED <<game, seats, hadTurn, over>>

Expire(c) ==
    /\ At(c, "waiting")
    /\ game' = [game EXCEPT !.scores = Forfeit(game, c)]
    /\ seats' = [i \in Slots |-> NULL]
    /\ over' = TRUE
    /\ Goto(c, "gone")
    /\ UNCHANGED <<hadTurn, told>>

\* The game is destroyed and its room with it: nothing is left to happen.
Ended == over /\ UNCHANGED vars

-----------------------------------------------------------------------------

\* What a thread does by itself, once a message or the loss of the
\* connection has started it.
Continue(c) ==
    StartGame(c) \/ Settle(c) \/ RemoveFromGame(c) \/ RemoveFromRoom(c)

Request(c) ==
    \/ MarkReady(c)
    \/ \E i \in Cards : Flip(c, i)
    \/ Leave(c)
    \/ Drop(c)
    \/ Wait(c)
    \/ Return(c)

Next ==
    \/ \E c \in Clients : Request(c) \/ Continue(c) \/ Expire(c)
    \/ Ended

\* A started handler runs on, and the timeout checker comes round; nothing
\* makes a player send a message.
Fairness == \A c \in Clients : WF_vars(Continue(c)) /\ WF_vars(Expire(c))

Spec == Init /\ [][Next]_vars
FairSpec == Spec /\ Fairness

-----------------------------------------------------------------------------
(* Properties of the board.                                                *)

\* The cards lying face up are exactly those the unfinished turn has
\* recorded (first_card_index, second_card_index, flips_this_turn), whoever
\* leaves in the middle of it and whichever thread settles it.
BoardConsistent == FaceUpIsTurn(game)

\* The two cards of a value leave the board together, and matched_pairs
\* counts the values that have left.
PairsLeaveTogether == PairsTogether(game)

\* As long as the game is played and the turn is not full, some card can be
\* turned: nobody is asked to play on an exhausted board.
MoveLeft == HasMove(game)

-----------------------------------------------------------------------------
(* Properties of the players.                                              *)

\* A thread that is about to settle a turn still belongs to a player of the
\* game: player_count is not zero in (current + 1) % player_count, and the
\* player whose name is logged exists.
SettlerInGame ==
    \A c \in Clients : At(c, "flipped") =>
        /\ PlaysIn(game, c)
        /\ game.players[game.current] # NULL

Total(scores) == scores[0] + scores[1] + scores[2] + scores[3]

\* Were the game forfeited now, by any player, every pair left on the board
\* would be given away, and players with equal scores would stay within one
\* point of each other.
ForfeitSharesTheRest ==
    ~over => \A c \in Clients : Rivals(game, c) # {} =>
        LET final == Forfeit(game, c)
        IN  /\ Total(final) = Total(game.scores) + TotalPairs - game.matched
            /\ \A i, j \in Leaders(game, c) : final[i] <= final[j] + 1

-----------------------------------------------------------------------------
(* The game that the players know, and how it is kept: by the arrays of a  *)
(* game_t, until it is destroyed.                                          *)

Phase(g, destroyed) ==
    IF destroyed \/ g.state = "FINISHED" THEN "over"
    ELSE IF g.state = "PLAYING" THEN "playing" ELSE "waiting"
Members(g) == {p \in Clients : PlaysIn(g, p)}
Table(g) == {i \in Cards : g.card[i] # "MATCHED"}
TurnOf(g, destroyed) == IF destroyed THEN NULL ELSE CurrentPlayer(g)
Points(g) ==
    [p \in Clients |-> IF PlaysIn(g, p) THEN g.scores[IndexOf(g, p)] ELSE 0]

Memory == INSTANCE MemoryGame WITH
    Players <- Clients,
    Nobody  <- NULL,
    phase   <- Phase(game, over),
    players <- Members(game),
    value   <- game.value,
    table   <- Table(game),
    up      <- CardsIn(game, "REVEALED"),
    turn    <- TurnOf(game, over),
    points  <- Points(game)

\* Whatever the handlers do in whichever order, the players see a memory game:
\* cards are won by two with their points or turned down, every point stays with
\* its player though the arrays are shifted, and only a mismatch or the loss of
\* a player moves the turn.
PlaysMemory == Memory!Spec

-----------------------------------------------------------------------------
(* Properties of the turn.  They hold of two players; with more, the       *)
(* departure of one of them breaks each.                                   *)

Moving == CurrentPlayer(game) # CurrentPlayer(game')
          /\ NULL \notin {CurrentPlayer(game), CurrentPlayer(game')} /\ ~over'

\* The turn goes to the next player in order, and only after a mismatch or
\* because the player who had it has left the game.
TurnFollowsOrder ==
    [][Moving =>
        /\ CurrentPlayer(game') = game.players[(game.current + 1) % game.count]
        /\ \/ game.flips = 2 /\ ~IsMatch(game)
           \/ ~PlaysIn(game', CurrentPlayer(game))]_vars

\* When no handler is at work, the player whose turn it is was the last to
\* be sent YOUR_TURN.
TurnHolderKnows ==
    ~over /\ game.state = "PLAYING"
          /\ (\A c \in Clients : thread[c] \in {"idle", "waiting", "gone"})
        => told = CurrentPlayer(game)

\* The player whose turn it is is in the room.
TurnHolderPresent ==
    ~over /\ game.state = "PLAYING"
          /\ (\A c \in Clients : thread[c] # "removed")
        => CurrentPlayer(game) \in Seated

\* A forfeit adds points only to players still in the room.
ForfeitOnlyToRemaining ==
    [][over' /\ ~over /\ game'.state # "FINISHED" =>
        \A i \in Slots : game'.scores[i] > game.scores[i]
                            => game.players[i] \in Seated]_vars

\* While a lost player is waited for, nobody plays.
PausedWhileWaiting ==
    [][(\E c \in Clients : At(c, "waiting")) =>
        game'.card = game.card]_vars

\* A client lost from a game that two or more others still play is removed
\* at once; only the last rival of a player is waited for.
OnlyLastRivalWaits ==
    [][\A c \in Clients : At(c, "idle") /\ thread'[c] = "waiting" =>
        Cardinality(Seated \ {c}) < 2]_vars

-----------------------------------------------------------------------------
(* Liveness.                                                               *)

\* A game whose players are all ready starts, however their READYs and the
\* checks that follow them interleave.
ReadyGameStarts ==
    (game.state = "WAITING" /\ AllPlayersReady(game) /\ ~over)
        ~> (game.state = "PLAYING" \/ over)
=============================================================================

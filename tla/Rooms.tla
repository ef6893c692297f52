-------------------------------- MODULE Rooms --------------------------------
(***************************************************************************)
(* Rooms, the clients that point to them and are pointed to by them, and   *)
(* the threads that change both: the handler thread of every client        *)
(* (client_handler.c), which works on its client_t and calls room.c, and   *)
(* the timeout checker (server.c).                                         *)
(*                                                                         *)
(* A step is a critical section of rooms_mutex together with the local     *)
(* code around it, or a stretch of code between two of them.  A freed      *)
(* object stays in the model as "freed", and pointers to it stay what they *)
(* are.  What a thread does once it follows such a pointer is undefined    *)
(* (it may go on with stale contents, corrupt the heap or crash): the step *)
(* is Touch, and the model ends there.                                     *)
(***************************************************************************)
EXTENDS Game

CONSTANTS RoomIds,       \* the rooms that can ever be created
          MaxRooms,      \* size of the rooms array
          MaxPlayers,    \* max_players of every room
          MaxClients     \* size of the client list

ASSUME RoomsAssumption ==
    /\ NULL \notin RoomIds
    /\ NULL \notin GameType
    /\ MaxRooms \in Nat \ {0}
    /\ MaxPlayers \in 2 .. MAX_PLAYERS_PER_ROOM
    /\ MaxClients \in Nat \ {0}

VARIABLES
    client,     \* the client_t objects
    room,       \* the room_t objects, each with its game
    thread,     \* the handler thread of each client
    checker,    \* the timeout checker thread
    dangling,   \* the handler threads that hold a pointer to a destroyed game
    memory      \* "touched" once a thread has followed a pointer to a freed object

vars == <<client, room, thread, checker, dangling, memory>>

-----------------------------------------------------------------------------

Lives == {"unborn", "live", "freed"}

\* state, room, is_disconnected, whether socket_fd is not -1.
ClientType ==
    [life  : Lives,
     state : {"CONNECTED", "IN_LOBBY", "IN_ROOM", "IN_GAME"},
     room  : RoomIds \cup {NULL},
     down  : BOOLEAN,
     open  : BOOLEAN]

RoomType ==
    [life    : Lives,
     players : [Slots -> Clients \cup {NULL}],
     count   : 0 .. MAX_PLAYERS_PER_ROOM,
     owner   : Clients \cup {NULL},
     state   : {"WAITING", "PLAYING", "FINISHED"},
     game    : GameType \cup {NULL}]

\* Where a thread stands: the local room pointer it holds there, the client
\* it is about to replace, and where it goes on after room_destroy.
ThreadType ==
    [pc   : {"idle", "joining", "creating", "marked", "flipped", "removing",
             "removed", "destroying", "freeing", "reconnecting", "ended"},
     room : RoomIds \cup {NULL},
     old  : Clients \cup {NULL},
     next : {"idle", "freeing", "ended"}]

CheckerType ==
    [pc     : {"idle", "destroying", "freeing"},
     room   : RoomIds \cup {NULL},
     client : Clients \cup {NULL}]

Idle == [pc |-> "idle", room |-> NULL, old |-> NULL, next |-> "idle"]
At(pc, r, next) == [pc |-> pc, room |-> r, old |-> NULL, next |-> next]
Pc(p) == At(p, NULL, "idle")

EmptySeats == [i \in Slots |-> NULL]

Init ==
    /\ client = [c \in Clients |->
                    [life |-> "unborn", state |-> "CONNECTED", room |-> NULL,
                     down |-> FALSE, open |-> FALSE]]
    /\ room = [r \in RoomIds |->
                  [life |-> "unborn", players |-> EmptySeats, count |-> 0,
                   owner |-> NULL, state |-> "WAITING", game |-> NULL]]
    /\ thread = [c \in Clients |-> Pc("ended")]
    /\ checker = [pc |-> "idle", room |-> NULL, client |-> NULL]
    /\ dangling = {}
    /\ memory = "sound"

-----------------------------------------------------------------------------

SeatedIn(r) == {room[r].players[i] : i \in Slots} \ {NULL}

\* c waits in recv(), and a message of its peer can arrive.
Ready(c) == client[c].life = "live" /\ thread[c].pc = "idle"
Listening(c) == Ready(c) /\ client[c].open

InStep(c, pc) == thread[c].pc = pc

Goto(c, t) == thread' = [thread EXCEPT ![c] = t]

\* Mutant: the state is not reset.
ToLobbyKeepingState(S) ==
    [c \in Clients |-> IF c \in S THEN [client[c] EXCEPT !.room = NULL]
                       ELSE client[c]]

\* The clients of S go to the lobby.
ToLobby(S) ==
    [c \in Clients |->
        IF c \in S THEN [client[c] EXCEPT !.room = NULL, !.state = "IN_LOBBY"]
        ELSE client[c]]

FirstOf(S) == CHOOSE i \in S : \A j \in S : i <= j

(* room_remove_player, up to the release of the mutex.  The room is        *)
(* destroyed next, outside of it, when a game is forfeited, when only      *)
(* disconnected players are left to the owner, or when nobody is left.     *)

\* Mutant: the early return for a client that is not found is missing.
NotFoundIgnored(r, c) == FALSE

NotFound(r, c) == c \notin SeatedIn(r)

\* The seats without c, and the first of a player not marked disconnected.
Without(r, c) ==
    [i \in Slots |-> IF room[r].players[i] = c THEN NULL ELSE room[r].players[i]]
Heirs(r, c) ==
    {i \in Slots : Without(r, c)[i] # NULL /\ ~client[Without(r, c)[i]].down}

\* Mutant: the ownership stays with the client that leaves.
OwnerKept(r, c) == room[r].owner

OwnerWithout(r, c) ==
    IF room[r].owner = c /\ Heirs(r, c) # {}
    THEN Without(r, c)[FirstOf(Heirs(r, c))] ELSE room[r].owner

Forfeits(r, c) == room[r].game # NULL /\ room[r].count - 1 < 2
Orphans(r, c) == room[r].owner = c /\ room[r].count > 1 /\ Heirs(r, c) = {}

Closes(r, c) == Orphans(r, c) \/ room[r].count = 1

\* Mutant: player_count is not reset.
EmptiedUncounted(r) ==
    [room EXCEPT ![r].players = EmptySeats, ![r].game = NULL,
                 ![r].state = "WAITING"]

\* The room after the end of a forfeited game.
Emptied(r) ==
    [room EXCEPT ![r].players = EmptySeats, ![r].count = 0,
                 ![r].game = NULL, ![r].state = "WAITING"]

\* The threads that have read the pointer to the game of r and work with it.
\* A thread that has taken its client out of the game and then out of the room
\* reads the game once more if it was that client's turn, to tell the next
\* player.  That read changes nothing here and is left out.
Holding(r) ==
    {c \in Clients : /\ thread[c].pc \in {"marked", "flipped", "removing"}
                     /\ thread[c].room = r}

RemoveFrom(r, c, next) ==
    \/ /\ NotFound(r, c)
       /\ Goto(c, Pc(next))
       /\ UNCHANGED <<client, room, dangling>>
    \/ /\ ~NotFound(r, c) /\ Forfeits(r, c)
       /\ room' = Emptied(r)
       /\ client' = ToLobby(SeatedIn(r))
       /\ dangling' = dangling \cup Holding(r)
       /\ Goto(c, At("destroying", r, next))
    \/ /\ ~NotFound(r, c) /\ ~Forfeits(r, c)
       /\ room' = [room EXCEPT ![r].players = Without(r, c),
                               ![r].count = @ - 1,
                               ![r].owner = OwnerWithout(r, c)]
       /\ client' = ToLobby(IF Orphans(r, c) THEN SeatedIn(r) ELSE {c})
       /\ Goto(c, IF Closes(r, c) THEN At("destroying", r, next)
                  ELSE Pc(next))
       /\ UNCHANGED dangling

(* room_destroy.                                                           *)

\* Mutant: the players' pointers to the room are not cleared.
DestroyedUncleared(r) ==
    /\ room' = [room EXCEPT ![r].life = "freed"]
    /\ UNCHANGED client

Destroyed(r) ==
    /\ client' = ToLobby(SeatedIn(r))
    /\ room' = [room EXCEPT ![r].life = "freed"]

DestroyRoom(c) ==
    /\ InStep(c, "destroying")
    /\ Destroyed(thread[c].room)
    /\ Goto(c, Pc(thread[c].next))
    /\ UNCHANGED <<checker, dangling, memory>>

-----------------------------------------------------------------------------
(* server_run accepts a connection.  client_list_add makes room in a full  *)
(* list by freeing a client that waits for its reconnect, if there is one. *)

Listed == {d \in Clients : client[d].life = "live"}
Waiting == {d \in Listed : client[d].down /\ ~client[d].open}

Connect(c) ==
    /\ client[c].life = "unborn"
    /\ \E evicted \in IF Cardinality(Listed) < MaxClients THEN {{}}
                      ELSE {{d} : d \in Waiting} :
          client' = [d \in Clients |->
                        IF d = c THEN [client[d] EXCEPT !.life = "live",
                                                        !.open = TRUE]
                        ELSE IF d \in evicted
                        THEN [client[d] EXCEPT !.life = "freed"]
                        ELSE client[d]]
    /\ Goto(c, Idle)
    /\ UNCHANGED <<room, checker, dangling, memory>>

(* handle_hello.                                                           *)

Hello(c) ==
    /\ Listening(c)
    /\ client[c].state = "CONNECTED"
    /\ client' = [client EXCEPT ![c].state = "IN_LOBBY"]
    /\ UNCHANGED <<room, thread, checker, dangling, memory>>

\* The guard that handle_create_room and handle_join_room share.
MayEnter(c) ==
    Listening(c) /\ client[c].state # "CONNECTED" /\ client[c].room = NULL

(* handle_create_room with room_create: the first free entry of the array. *)

CreateRoom(c, r) ==
    /\ MayEnter(c)
    /\ room[r].life = "unborn"
    /\ Cardinality({s \in RoomIds : room[s].life = "live"}) < MaxRooms
    /\ room' = [room EXCEPT
                    ![r].life = "live", ![r].owner = c, ![r].count = 1,
                    ![r].players = [EmptySeats EXCEPT ![0] = c]]
    /\ client' = [client EXCEPT ![c].room = r, ![c].state = "IN_ROOM"]
    /\ UNCHANGED <<thread, checker, dangling, memory>>

(* handle_join_room: room_get_by_id, and after it room_add_player, each    *)
(* with the mutex of its own.                                              *)

FindRoom(c, r) ==
    /\ MayEnter(c)
    /\ room[r].life = "live"
    /\ Goto(c, At("joining", r, "idle"))
    /\ UNCHANGED <<client, room, checker, dangling, memory>>

AddPlayer(c) ==
    LET r    == thread[c].room
        free == {i \in Slots : room[r].players[i] = NULL}
    IN  /\ InStep(c, "joining")
        /\ IF room[r].count < MaxPlayers /\ c \notin SeatedIn(r) /\ free # {}
           THEN /\ room' = [room EXCEPT ![r].players[FirstOf(free)] = c,
                                        ![r].count = @ + 1]
                /\ client' = [client EXCEPT ![c].room = r,
                                            ![c].state = "IN_ROOM"]
           ELSE UNCHANGED <<client, room>>
        /\ Goto(c, Idle)
        /\ UNCHANGED <<checker, dangling, memory>>

(* handle_leave_room.                                                      *)

LeaveRoom(c) ==
    /\ Listening(c)
    /\ client[c].room # NULL
    /\ RemoveFrom(client[c].room, c, "idle")
    /\ UNCHANGED <<checker, memory>>

-----------------------------------------------------------------------------
(* handle_start_game: the checks, and then game_create, which reads the    *)
(* room's array and count again.                                           *)

CheckStart(c) ==
    LET r == client[c].room
    IN  /\ Listening(c)
        /\ r # NULL
        /\ room[r].owner = c
        /\ room[r].game = NULL
        /\ room[r].count >= MaxPlayers
        /\ Goto(c, At("creating", r, "idle"))
        /\ UNCHANGED <<client, room, checker, dangling, memory>>

CreateGame(c) ==
    LET r == thread[c].room
    IN  /\ InStep(c, "creating")
        /\ \E deal \in Deals :
              room' = [room EXCEPT ![r].game =
                          IF CanCreate(room[r].count)
                          THEN Create(room[r].players, room[r].count, deal)
                          ELSE NULL]
        /\ Goto(c, Idle)
        /\ UNCHANGED <<client, checker, dangling, memory>>

(* handle_ready: the mark, and then the start of a game all of whose       *)
(* players are marked.  Only the first player_count places of the room     *)
(* become STATE_IN_GAME.                                                   *)

FirstPlaces(r) ==
    {room[r].players[i] : i \in 0 .. room[r].count - 1} \ {NULL}

MarkReady(c) ==
    LET r == client[c].room
    IN  /\ Listening(c)
        /\ r # NULL
        /\ room[r].game # NULL
        /\ CanReady(room[r].game, c)
        /\ room' = [room EXCEPT ![r].game = PlayerReady(@, c)]
        /\ Goto(c, At("marked", r, "idle"))
        /\ UNCHANGED <<client, checker, dangling, memory>>

StartPlay(c) ==
    LET r == thread[c].room
        g == room[r].game
    IN  /\ InStep(c, "marked")
        /\ IF AllPlayersReady(g) /\ CanStart(g)
           THEN /\ room' = [room EXCEPT ![r].game = Start(@),
                                        ![r].state = "PLAYING"]
                /\ client' = [d \in Clients |->
                                 IF d \in FirstPlaces(r)
                                 THEN [client[d] EXCEPT !.state = "IN_GAME"]
                                 ELSE client[d]]
           ELSE UNCHANGED <<client, room>>
        /\ Goto(c, Idle)
        /\ UNCHANGED <<checker, dangling, memory>>

(* handle_flip: a card, and then the turn.  The end of the game returns    *)
(* the first player_count places to the lobby and destroys the room.       *)

FlipOne(c) ==
    LET r == client[c].room
    IN  /\ Listening(c)
        /\ r # NULL
        /\ room[r].game # NULL
        /\ \E i \in Cards : /\ CanFlip(room[r].game, c, i)
                            /\ room' = [room EXCEPT ![r].game = FlipCard(@, i)]
        /\ Goto(c, At("flipped", r, "idle"))
        /\ UNCHANGED <<client, checker, dangling, memory>>

SettleTurn(c) ==
    LET r == thread[c].room
        g == room[r].game
    IN  /\ InStep(c, "flipped")
        /\ IF CheckMatch(g).state # "FINISHED"
           THEN /\ room' = [room EXCEPT ![r].game = CheckMatch(@)]
                /\ Goto(c, Idle)
                /\ UNCHANGED <<client, dangling>>
           ELSE /\ room' = [room EXCEPT ![r].game = NULL,
                                        ![r].state = "FINISHED"]
                /\ client' = ToLobby(FirstPlaces(r))
                /\ dangling' = dangling \cup (Holding(r) \ {c})
                /\ Goto(c, At("destroying", r, "idle"))
        /\ UNCHANGED <<checker, memory>>

-----------------------------------------------------------------------------
(* The cleanup of client_handler_thread, when recv() fails: the peer has   *)
(* gone, or the server has shut the socket down.                           *)

\* The others of the room, as far as the first player_count places show.
RemainingIn(r, c) ==
    Cardinality({i \in 0 .. room[r].count - 1 :
                    room[r].players[i] \notin {NULL, c}})

InLiveGame(c) ==
    /\ client[c].state = "IN_GAME"
    /\ client[c].room # NULL
    /\ room[client[c].room].game # NULL

\* Two or more others: the client leaves the game, the room and the server.
LoseToGame(c) ==
    /\ Ready(c)
    /\ InLiveGame(c)
    /\ RemainingIn(client[c].room, c) >= 2
    /\ Goto(c, At("removing", client[c].room, "idle"))
    /\ UNCHANGED <<client, room, checker, dangling, memory>>

RemoveFromGame(c) ==
    LET r == thread[c].room
    IN  /\ InStep(c, "removing")
        /\ room' = [room EXCEPT ![r].game = RemovePlayer(@, c)]
        /\ Goto(c, At("removed", r, "idle"))
        /\ UNCHANGED <<client, checker, dangling, memory>>

RemoveFromRoom(c) ==
    /\ InStep(c, "removed")
    /\ RemoveFrom(thread[c].room, c, "freeing")
    /\ UNCHANGED <<checker, memory>>

\* Fewer: the client is kept, and waits for a RECONNECT.
LoseAndKeep(c) ==
    /\ Ready(c)
    /\ InLiveGame(c)
    /\ RemainingIn(client[c].room, c) < 2
    /\ client' = [client EXCEPT ![c].down = TRUE, ![c].open = FALSE]
    /\ Goto(c, Pc("ended"))
    /\ UNCHANGED <<room, checker, dangling, memory>>

\* Mutant: every client is kept, and not only one that will expire.
AfterLossKept(c) == "ended"

AfterLoss(c) == IF client[c].down THEN "ended" ELSE "freeing"

\* Not in a game.  A client the timeout checker has marked is kept.
LoseOutside(c) ==
    LET r == client[c].room
    IN  /\ Ready(c)
        /\ ~InLiveGame(c)
        /\ IF r # NULL /\ ~(client[c].down /\ client[c].state = "IN_GAME")
           THEN RemoveFrom(r, c, AfterLoss(c))
           ELSE Goto(c, Pc(AfterLoss(c))) /\ UNCHANGED <<client, room, dangling>>
        /\ UNCHANGED <<checker, memory>>

\* client_list_remove, close and free.
FreeClient(c) ==
    /\ InStep(c, "freeing")
    /\ client' = [client EXCEPT ![c].life = "freed", ![c].open = FALSE]
    /\ Goto(c, Pc("ended"))
    /\ UNCHANGED <<room, checker, dangling, memory>>

-----------------------------------------------------------------------------
(* The timeout checker.  It shuts the socket of a silent client down: one  *)
(* that has left a PING unanswered is marked for a reconnect, one that has *)
(* just sent nothing for two minutes is not.                               *)

ShutDown(c, mark) ==
    /\ client[c].life = "live"
    /\ client[c].state # "CONNECTED"
    /\ client[c].open
    /\ client' = [client EXCEPT ![c].down = @ \/ mark, ![c].open = FALSE]
    /\ UNCHANGED <<room, thread, checker, dangling, memory>>

PongTimeout(c) == ShutDown(c, TRUE)
InactivityTimeout(c) == ShutDown(c, FALSE)

\* Mutant: the emptied room is not destroyed.
AfterForfeitKept(r, c) == [pc |-> "freeing", room |-> NULL, client |-> c]

AfterForfeit(r, c) == [pc |-> "destroying", room |-> r, client |-> c]

\* RECONNECT_TIMEOUT seconds have gone since c was lost.  A handler thread does
\* not take that long to end.
Expired(c) ==
    /\ checker.pc = "idle"
    /\ client[c].life = "live" /\ client[c].down /\ ~client[c].open
    /\ thread[c].pc = "ended"

\* A client that has not come back forfeits its game.  rooms_mutex is not taken.
Expire(c) ==
    LET r == client[c].room
    IN  /\ Expired(c)
        /\ IF r # NULL /\ room[r].game # NULL
           THEN /\ client' = ToLobby(SeatedIn(r))
                /\ room' = Emptied(r)
                /\ dangling' = dangling \cup Holding(r)
                /\ checker' = AfterForfeit(r, c)
           ELSE /\ checker' = [pc |-> "freeing", room |-> NULL, client |-> c]
                /\ UNCHANGED <<client, room, dangling>>
        /\ UNCHANGED <<thread, memory>>

ExpireRoom ==
    /\ checker.pc = "destroying"
    /\ Destroyed(checker.room)
    /\ checker' = [checker EXCEPT !.pc = "freeing", !.room = NULL]
    /\ UNCHANGED <<thread, dangling, memory>>

ExpireClient ==
    /\ checker.pc = "freeing"
    /\ client' = [client EXCEPT ![checker.client].life = "freed"]
    /\ checker' = [pc |-> "idle", room |-> NULL, client |-> NULL]
    /\ UNCHANGED <<room, thread, dangling, memory>>

-----------------------------------------------------------------------------
(* handle_reconnect, of a connection that has not said HELLO: the Java     *)
(* client sends RECONNECT first.  client_list_find_by_id finds the client  *)
(* that holds the id; the new one takes over its state and its places.     *)

FindSession(c, old) ==
    /\ Listening(c)
    /\ client[c].state = "CONNECTED"
    /\ old # c /\ client[old].life = "live"
    /\ client[old].state # "CONNECTED"
    /\ client[old].down \/ ~client[old].open
    /\ Goto(c, [Pc("reconnecting") EXCEPT !.old = old])
    /\ UNCHANGED <<client, room, checker, dangling, memory>>

\* ps with new in the place of old, among the first n.
Swap(ps, n, old, new) ==
    [i \in Slots |-> IF i < n /\ ps[i] = old THEN new ELSE ps[i]]

SwapInGame(g, old, new) ==
    IF g = NULL THEN NULL
    ELSE [g EXCEPT !.players = Swap(g.players, g.count, old, new)]

TakeOver(c) ==
    LET old == thread[c].old
        r   == client[old].room
    IN  /\ InStep(c, "reconnecting")
        /\ client' = [client EXCEPT
                         ![c].state = client[old].state, ![c].room = r,
                         ![old].life = "freed", ![old].open = FALSE]
        /\ IF r = NULL THEN UNCHANGED room
           ELSE room' = [room EXCEPT
                   ![r].players = Swap(@, room[r].count, old, c),
                   ![r].game = SwapInGame(@, old, c)]
        /\ Goto(c, Idle)
        /\ UNCHANGED <<checker, dangling, memory>>

-----------------------------------------------------------------------------

\* The clients whose client_t a step on room r may read: those it seats,
\* to whom the step broadcasts, and the players of its game.
People(r) ==
    SeatedIn(r) \cup
    (IF room[r].game = NULL THEN {}
     ELSE {room[r].game.players[i] : i \in Seats(room[r].game)} \ {NULL})

\* A step on room r reads freed memory: the room, or one of these clients.
StaleRoom(r) ==
    room[r].life = "freed" \/ \E d \in People(r) : client[d].life = "freed"

InUse(c) == IF thread[c].pc = "idle" THEN client[c].room ELSE thread[c].room

\* The next step of c's thread follows a pointer to freed memory: its own
\* client_t (which the cleanup of a client that is kept no longer reads once
\* it is out of the room), the client it replaces, the game it had read from
\* its room, the room, or a client that the room or the game points to.
Stale(c) ==
    /\ thread[c].pc # "ended"
    /\ \/ client[c].life = "freed" /\ thread[c].next # "ended"
       \/ thread[c].old # NULL /\ client[thread[c].old].life = "freed"
       \/ c \in dangling
       \/ InUse(c) # NULL /\ StaleRoom(InUse(c))

Touch(c) ==
    /\ memory = "sound"
    /\ Stale(c)
    /\ memory' = "touched"
    /\ UNCHANGED <<client, room, thread, checker, dangling>>

\* So does the checker when c has expired: it looks for a game in the room, and
\* at those in the room if there is one.
ExpiryStale(c) ==
    LET r == client[c].room
    IN  /\ r # NULL
        /\ \/ room[r].life = "freed"
           \/ room[r].game # NULL /\ StaleRoom(r)

TouchInCheck ==
    /\ memory = "sound"
    /\ \/ \E c \in Clients : Expired(c) /\ ExpiryStale(c)
       \/ checker.pc = "destroying" /\ StaleRoom(checker.room)
    /\ memory' = "touched"
    /\ UNCHANGED <<client, room, thread, checker, dangling>>

Enter(c) ==
    Hello(c) \/ \E r \in RoomIds : CreateRoom(c, r) \/ FindRoom(c, r)
Play(c) ==
    LeaveRoom(c) \/ CheckStart(c) \/ MarkReady(c) \/ FlipOne(c)
Lose(c) == LoseToGame(c) \/ LoseAndKeep(c) \/ LoseOutside(c)
Return(c) == \E old \in Clients : FindSession(c, old)

\* What a handler thread does once it is started.
Continue(c) ==
    /\ memory = "sound" /\ ~Stale(c)
    /\ \/ AddPlayer(c) \/ CreateGame(c) \/ StartPlay(c) \/ SettleTurn(c)
       \/ RemoveFromGame(c) \/ RemoveFromRoom(c) \/ DestroyRoom(c)
       \/ FreeClient(c) \/ TakeOver(c)

Request(c) ==
    /\ memory = "sound" /\ ~Stale(c)
    /\ Connect(c) \/ Enter(c) \/ Play(c) \/ Lose(c) \/ Return(c)

Expiring ==
    \/ \E c \in Clients : ~ExpiryStale(c) /\ Expire(c)
    \/ checker.pc = "destroying" /\ ~StaleRoom(checker.room) /\ ExpireRoom
    \/ ExpireClient

Check ==
    /\ memory = "sound"
    /\ Expiring \/ \E c \in Clients : PongTimeout(c) \/ InactivityTimeout(c)

Next ==
    \/ \E c \in Clients : Request(c) \/ Continue(c) \/ Touch(c)
    \/ Check
    \/ TouchInCheck

\* What a handler thread does without hearing from its client.
RunOn(c) ==
    \/ Continue(c)
    \/ memory = "sound" /\ ~Stale(c) /\ ~client[c].open /\ Lose(c)
    \/ (thread[c].pc # "idle" \/ ~client[c].open) /\ Touch(c)

Expiry == (memory = "sound" /\ Expiring) \/ TouchInCheck

\* A started handler runs on, recv() returns on a socket that was shut down,
\* and the timeout checker goes on expiring clients.  Nobody is bound to
\* connect, to send anything or to fall silent.
Fairness == (\A c \in Clients : WF_vars(RunOn(c))) /\ WF_vars(Expiry)

Spec == Init /\ [][Next]_vars
FairSpec == Spec /\ Fairness

-----------------------------------------------------------------------------
(* Properties.  They hold up to the first use of freed memory; nothing can *)
(* be said of what comes after it.                                         *)

\* Every object and every thread within its type: no seat or card outside its
\* array, no count beyond MAX_PLAYERS_PER_ROOM.
TypeOK ==
    /\ client \in [Clients -> ClientType]
    /\ room \in [RoomIds -> RoomType]
    /\ thread \in [Clients -> ThreadType]
    /\ checker \in CheckerType
    /\ dangling \subseteq Clients
    /\ memory \in {"sound", "touched"}

Alive == {r \in RoomIds : room[r].life = "live"}

\* The rooms that some thread is about to destroy.
Doomed ==
    {thread[c].room : c \in {d \in Clients : thread[d].pc = "destroying"}}
    \cup (IF checker.pc = "destroying" THEN {checker.room} ELSE {})

Places(r) == {i \in Slots : room[r].players[i] # NULL}

\* player_count counts the seats that are taken, and is never zero nor more
\* than max_players in a room that will live on: room_add_player,
\* room_remove_player, the forfeits and handle_reconnect agree on it.
SeatsCounted ==
    \A r \in Alive :
        /\ room[r].count = Cardinality(Places(r))
        /\ room[r].count <= MaxPlayers
        /\ r \notin Doomed => room[r].count > 0

\* A client that a room seats points back to that room, and no client points
\* to a destroyed room that had seated it.  (A client whose reconnect missed
\* its seat, see ReplacedEverywhere, is in no room's array, and the pointer to
\* the room is cleared by nobody.)  This and StateFitsRoom hold of one room;
\* with two, RoomsIndependent fails and takes them with it.
PointersAgree ==
    /\ \A r \in Alive \ Doomed : \A c \in SeatedIn(r) :
          client[c].life = "live" => client[c].room = r
    /\ \A c \in Listed : client[c].room # NULL =>
          client[c].room \in Alive \/ c \notin SeatedIn(client[c].room)

\* A room that lives on is owned by a client it seats, so that somebody can
\* start a game, unless the owner has come back by RECONNECT: the room then
\* keeps the pointer to the client_t that was replaced.
OwnerSeated ==
    \A r \in Alive \ Doomed :
        room[r].owner \in SeatedIn(r) \/ client[room[r].owner].life = "freed"

\* state and room of a client fit: a client in STATE_IN_ROOM is in a room, and
\* in a room that lives on and has lost its game nobody is left in
\* STATE_IN_GAME.  (Without a seat a client may be: one whose reconnect missed
\* it, or was between a start and the end of a room that gave its players up.)
StateFitsRoom ==
    /\ \A c \in Listed : client[c].state = "IN_ROOM" => client[c].room # NULL
    /\ \A r \in Alive \ Doomed : \A c \in SeatedIn(r) :
          client[c].life = "live" /\ client[c].state = "IN_GAME" => room[r].game # NULL

-----------------------------------------------------------------------------
(* Properties that the code does not have.                                 *)

\* The players of a game are clients that exist: the server prints their
\* names and sends to them until the game ends.
GamePlayersLive ==
    \A r \in Alive \ Doomed : room[r].game # NULL =>
        \A c \in People(r) : client[c].life = "live"

\* What happens to one room leaves the clients of the others where they are.
RoomsIndependent ==
    [][\A r \in Alive \ Doomed : room'[r] = room[r] =>
        \A c \in SeatedIn(r) :
            client[c].room = r => client'[c].room = r]_vars

\* When a client_t is freed, no handler thread works on it any more.
FreedUnheld ==
    \A c \in Clients : client[c].life = "freed" => thread[c].pc = "ended"

\* A reconnect leaves no pointer to the old client_t in its room's array.
ReplacedEverywhere ==
    [][\A c \in Clients : InStep(c, "reconnecting") /\ TakeOver(c) =>
        \A r \in Alive : thread[c].old \notin SeatedIn(r)']_vars

\* A game is played by as many as its room was made for.
RequiredPlayers ==
    \A r \in Alive : room[r].game # NULL =>
        /\ room[r].game.count = MaxPlayers
        /\ \A i \in Seats(room[r].game) : room[r].game.players[i] # NULL

\* A client that waits for its reconnect is given up only when its time has
\* run out, and otherwise replaced by the one that reconnects.
KeptForReconnect ==
    [][\A c \in Waiting : client'[c].life = "freed" =>
        \/ checker.pc = "freeing" /\ checker.client = c
        \/ thread[c].pc = "freeing"
        \/ \E d \in Clients : thread[d].old = c]_vars

-----------------------------------------------------------------------------
(* Liveness.                                                               *)

\* A client whose connection is gone is freed in the end: by its handler, by
\* the timeout checker or by the client that reconnects in its place.
LostClientFreed ==
    \A c \in Clients :
        (client[c].life = "live" /\ ~client[c].open)
            ~> (client[c].life = "freed" \/ memory = "touched")

\* A room without a connected player is destroyed in the end, unless one of
\* them comes back or somebody else joins.
AbandonedRoomFreed ==
    \A r \in RoomIds :
        (r \in Alive /\ \A c \in SeatedIn(r) : ~client[c].open)
            ~> (\/ room[r].life = "freed"
                \/ \E c \in SeatedIn(r) : client[c].open
                \/ memory = "touched")
=============================================================================

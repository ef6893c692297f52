---------------------------- MODULE Rooms_proofs ----------------------------
(***************************************************************************)
(* The seats, owners, pointers and games of module Rooms, for every set    *)
(* of clients, any number of rooms and every limit: player_count counts    *)
(* the seats that are taken, a room that lives on has an owner whom it     *)
(* seats, every game keeps to its type, and as long as nobody sits in two  *)
(* live rooms a seated client points back to its room and plays only while *)
(* the room has a game.                                                    *)
(***************************************************************************)
EXTENDS Rooms, Game_proofs, FiniteSetTheorems, TLAPS

(* A room with games from a set G.  Nothing depends on the games here.     *)
Filled == [Slots -> Clients \cup {NULL}]
Shape(G) ==
    [life : Lives, players : Filled, count : Nat, owner : Clients \cup {NULL},
     state : {"WAITING", "PLAYING", "FINISHED"}, game : G]

Typed ==
    /\ client \in [Clients -> ClientType]
    /\ thread \in [Clients -> ThreadType]
    /\ checker \in CheckerType
    /\ \E G : room \in [RoomIds -> Shape(G)]

\* Nobody sits on two seats, the seats are counted, and those who sit there have
\* logged in.
SeatsSound(r) ==
    /\ \A i, j \in Slots :
          room[r].players[i] = room[r].players[j] /\ room[r].players[i] # NULL => i = j
    /\ room[r].count = Cardinality(Places(r))
    /\ room[r].count <= MaxPlayers
    /\ \A i \in Slots : \A c \in Clients :
          room[r].players[i] = c => client[c].state # "CONNECTED"

\* A room that lives on is not empty, and its owner sits in it or was replaced.
RoomOwned(r) ==
    room[r].life = "live" =>
        /\ room[r].owner \in Clients
        /\ \/ r \in Doomed
           \/ /\ room[r].count > 0
              /\ \/ room[r].owner \in SeatedIn(r)
                 \/ client[room[r].owner].life = "freed"

\* Only the handler of an accepted client runs, a thread that works on a room
\* holds one, and a reconnect replaces another client that has logged in.
Holders ==
    {"joining", "creating", "marked", "flipped", "removing", "removed", "destroying"}

ThreadSound(c) ==
    /\ client[c].life = "unborn" =>
          thread[c].pc = "ended" /\ client[c].state = "CONNECTED"
    /\ thread[c].pc \in Holders => thread[c].room \in RoomIds
    /\ thread[c].pc = "reconnecting" =>
          /\ client[c].state = "CONNECTED"
          /\ thread[c].old \in Clients
          /\ client[thread[c].old].state # "CONNECTED"

CheckerSound ==
    /\ checker.pc = "destroying" => checker.room \in RoomIds
    /\ checker.pc \in {"destroying", "freeing"} => checker.client \in Clients

\* The inductive invariant.
RoomsInv ==
    /\ Typed
    /\ \A r \in RoomIds : SeatsSound(r) /\ RoomOwned(r)
    /\ \A c \in Clients : ThreadSound(c)
    /\ CheckerSound

-----------------------------------------------------------------------------
(* What a step may do.                                                     *)

\* To a client: a freed one stays freed, a login is not taken back.
Onward(d) ==
    /\ client[d].life = "freed" => client'[d].life = "freed"
    /\ client'[d].life = "unborn" => client[d].life = "unborn"
    /\ client[d].state # "CONNECTED" => client'[d].state # "CONNECTED"

\* To the client of another thread: it does not log in either.
Steady(d) ==
    /\ Onward(d)
    /\ client[d].state = "CONNECTED" => client'[d].state = "CONNECTED"

\* To a room: nothing but what belongs to its game.
Kept(r) ==
    /\ room'[r].life = room[r].life
    /\ room'[r].players = room[r].players
    /\ room'[r].count = room[r].count
    /\ room'[r].owner = room[r].owner

\* A room that is kept stays sound, as long as nobody has given up destroying
\* it.
LEMMA KeptSound ==
    ASSUME NEW r \in RoomIds, SeatsSound(r), RoomOwned(r), Kept(r),
           r \in Doomed => r \in Doomed',
           \A d \in Clients : Onward(d)
    PROVE  SeatsSound(r)' /\ RoomOwned(r)'
<1>1. Places(r)' = Places(r) /\ SeatedIn(r)' = SeatedIn(r)
  BY DEF Kept, Places, SeatedIn
<1>2. SeatsSound(r)'
  BY <1>1 DEF SeatsSound, Kept, Onward
<1>3. RoomOwned(r)'
  BY <1>1 DEF RoomOwned, Kept, Onward
<1> QED
  BY <1>2, <1>3

\* The rooms that are about to be destroyed, after a step of one thread.
LEMMA DoomedAfter ==
    ASSUME thread \in [Clients -> ThreadType], NEW c \in Clients, NEW t,
           thread' = [thread EXCEPT ![c] = t], checker' = checker
    PROVE  /\ \A r \in Doomed : r \in Doomed' \/ (thread[c].pc = "destroying" /\ thread[c].room = r)
           /\ t.pc = "destroying" => t.room \in Doomed'
BY DEF Doomed

\* A step of one handler thread.
LEMMA HandlerStep ==
    ASSUME RoomsInv, NEW c \in Clients, NEW t \in ThreadType,
           thread' = [thread EXCEPT ![c] = t], checker' = checker,
           client' \in [Clients -> ClientType],
           \E G : room' \in [RoomIds -> Shape(G)],
           \A d \in Clients : Onward(d),
           \A d \in Clients \ {c} : Steady(d),
           ThreadSound(c)',
           \A r \in RoomIds :
               \/ Kept(r) /\ ~(thread[c].pc = "destroying" /\ thread[c].room = r)
               \/ SeatsSound(r)' /\ RoomOwned(r)'
    PROVE  RoomsInv'
<1>1. Typed'
  BY DEF RoomsInv, Typed
<1>2. ASSUME NEW r \in RoomIds PROVE SeatsSound(r)' /\ RoomOwned(r)'
  <2>1. CASE SeatsSound(r)' /\ RoomOwned(r)'
    BY <2>1
  <2>2. CASE Kept(r) /\ ~(thread[c].pc = "destroying" /\ thread[c].room = r)
    <3>1. r \in Doomed => r \in Doomed'
      BY <2>2, DoomedAfter DEF RoomsInv, Typed
    <3> QED
      BY <2>2, <3>1, KeptSound DEF RoomsInv
  <2> QED
    BY <2>1, <2>2
<1>3. ASSUME NEW d \in Clients PROVE ThreadSound(d)'
  <2>1. CASE d = c
    BY <2>1
  <2>2. CASE d # c
    <3>1. thread'[d] = thread[d] /\ Steady(d) /\ ThreadSound(d)
      BY <2>2 DEF RoomsInv, Typed
    <3> QED
      BY <3>1 DEF ThreadSound, Steady, Onward
  <2> QED
    BY <2>1, <2>2
<1>4. CheckerSound'
  BY DEF RoomsInv, CheckerSound
<1> QED
  BY <1>1, <1>2, <1>3, <1>4 DEF RoomsInv

\* A step of the checker.
LEMMA CheckerStep ==
    ASSUME RoomsInv, thread' = thread, checker' \in CheckerType, CheckerSound',
           client' \in [Clients -> ClientType],
           \E G : room' \in [RoomIds -> Shape(G)],
           \A d \in Clients : Steady(d),
           \A r \in RoomIds :
               \/ Kept(r) /\ ~(checker.pc = "destroying" /\ checker.room = r)
               \/ SeatsSound(r)' /\ RoomOwned(r)'
    PROVE  RoomsInv'
<1>1. Typed'
  BY DEF RoomsInv, Typed
<1>2. ASSUME NEW r \in RoomIds PROVE SeatsSound(r)' /\ RoomOwned(r)'
  <2>1. CASE SeatsSound(r)' /\ RoomOwned(r)'
    BY <2>1
  <2>2. CASE Kept(r) /\ ~(checker.pc = "destroying" /\ checker.room = r)
    <3>1. r \in Doomed => r \in Doomed'
      BY <2>2 DEF Doomed
    <3>2. \A d \in Clients : Onward(d)
      BY DEF Steady
    <3> QED
      BY <2>2, <3>1, <3>2, KeptSound DEF RoomsInv
  <2> QED
    BY <2>1, <2>2
<1>3. ASSUME NEW d \in Clients PROVE ThreadSound(d)'
  <2>1. thread'[d] = thread[d] /\ Steady(d) /\ ThreadSound(d)
    BY DEF RoomsInv
  <2> QED
    BY <2>1 DEF ThreadSound, Steady, Onward
<1> QED
  BY <1>1, <1>2, <1>3 DEF RoomsInv

-----------------------------------------------------------------------------
(* The parts of a step: places of threads, fields of clients and of rooms. *)

Pcs == Holders \cup {"idle", "freeing", "reconnecting", "ended"}

LEMMA AtTyped ==
    ASSUME NEW p \in Pcs, NEW r \in RoomIds \cup {NULL},
           NEW next \in {"idle", "freeing", "ended"}
    PROVE  At(p, r, next) \in ThreadType /\ At(p, r, next).pc = p
           /\ At(p, r, next).room = r
BY DEF At, Pcs, Holders, ThreadType

LEMMA IdleTyped == Idle \in ThreadType /\ Idle.pc = "idle"
BY DEF Idle, ThreadType

LEMMA LifeSet ==
    ASSUME NEW x \in ClientType, NEW l \in Lives
    PROVE  /\ [x EXCEPT !.life = l] \in ClientType
           /\ [x EXCEPT !.life = l].life = l
           /\ [x EXCEPT !.life = l].state = x.state
BY DEF ClientType

LEMMA LifeOpenSet ==
    ASSUME NEW x \in ClientType, NEW l \in Lives, NEW b \in BOOLEAN
    PROVE  /\ [x EXCEPT !.life = l, !.open = b] \in ClientType
           /\ [x EXCEPT !.life = l, !.open = b].life = l
           /\ [x EXCEPT !.life = l, !.open = b].state = x.state
BY DEF ClientType

LEMMA DownOpenSet ==
    ASSUME NEW x \in ClientType, NEW a \in BOOLEAN, NEW b \in BOOLEAN
    PROVE  /\ [x EXCEPT !.down = a, !.open = b] \in ClientType
           /\ [x EXCEPT !.down = a, !.open = b].life = x.life
           /\ [x EXCEPT !.down = a, !.open = b].state = x.state
BY DEF ClientType

States == {"CONNECTED", "IN_LOBBY", "IN_ROOM", "IN_GAME"}

LEMMA StateSet ==
    ASSUME NEW x \in ClientType, NEW st \in States
    PROVE  /\ [x EXCEPT !.state = st] \in ClientType
           /\ [x EXCEPT !.state = st].life = x.life
           /\ [x EXCEPT !.state = st].state = st
BY DEF ClientType, States

LEMMA LobbySet ==
    ASSUME NEW x \in ClientType
    PROVE  LET y == [x EXCEPT !.room = NULL, !.state = "IN_LOBBY"]
           IN  y \in ClientType /\ y.life = x.life /\ y.state = "IN_LOBBY"
BY DEF ClientType

\* The clients of a room, or one that has logged in, go to the lobby.
LEMMA ToLobbySteady ==
    ASSUME Typed, NEW S, \A d \in Clients : d \in S => client[d].state # "CONNECTED",
           client' = ToLobby(S)
    PROVE  /\ client' \in [Clients -> ClientType]
           /\ \A d \in Clients : Steady(d) /\ client'[d].life = client[d].life
<1>1. ASSUME NEW d \in Clients
      PROVE  /\ client'[d] \in ClientType
             /\ client'[d].life = client[d].life
             /\ \/ client'[d].state = client[d].state
                \/ client[d].state # "CONNECTED" /\ client'[d].state = "IN_LOBBY"
  <2>1. CASE d \in S
    <3>1. client'[d] = [client[d] EXCEPT !.room = NULL, !.state = "IN_LOBBY"]
      BY <2>1 DEF ToLobby
    <3>2. client[d] \in ClientType /\ client[d].state # "CONNECTED"
      BY <2>1 DEF Typed
    <3>3. /\ client'[d] \in ClientType
          /\ client'[d].life = client[d].life
          /\ client'[d].state = "IN_LOBBY"
      BY <3>1, <3>2, LobbySet
    <3> QED
      BY <3>2, <3>3
  <2>2. CASE d \notin S
    BY <2>2 DEF ToLobby, Typed
  <2> QED
    BY <2>1, <2>2
<1>2. client' \in [Clients -> ClientType]
  BY <1>1 DEF ToLobby
<1> QED
  BY <1>1, <1>2 DEF Steady, Onward

\* Another game, or another state, is nothing to the seats.
LEMMA GameChanged ==
    ASSUME Typed, NEW r \in RoomIds, NEW g, NEW st \in {"WAITING", "PLAYING", "FINISHED"},
           \/ room' = [room EXCEPT ![r].game = g]
           \/ room' = [room EXCEPT ![r].game = g, ![r].state = st]
    PROVE  (\E G : room' \in [RoomIds -> Shape(G)]) /\ \A s \in RoomIds : Kept(s)
<1>1. PICK G : room \in [RoomIds -> Shape(G)]
  BY DEF Typed
<1>2. room' \in [RoomIds -> Shape(G \cup {g})]
  BY <1>1 DEF Shape
<1>3. \A s \in RoomIds : Kept(s)
  BY <1>1 DEF Shape, Kept
<1> QED
  BY <1>2, <1>3

\* The first of a set of seats.
LEMMA FirstSeat ==
    ASSUME NEW S, S \subseteq Slots, S # {}
    PROVE  FirstOf(S) \in S
<1>1. \A i \in S : i \in Int /\ 0 <= i /\ i <= 3
  BY DEF Slots, MAX_PLAYERS_PER_ROOM
<1>2. \E i \in S : \A j \in S : i <= j
  <2>1. CASE 0 \in S
    BY <1>1, <2>1
  <2>2. CASE 0 \notin S /\ 1 \in S
    BY <1>1, <2>2
  <2>3. CASE 0 \notin S /\ 1 \notin S /\ 2 \in S
    BY <1>1, <2>3
  <2>4. CASE 0 \notin S /\ 1 \notin S /\ 2 \notin S
    BY <1>1, <2>4
  <2> QED
    BY <2>1, <2>2, <2>3, <2>4
<1> QED
  BY <1>2 DEF FirstOf

-----------------------------------------------------------------------------
(* The actions that leave the seats alone.                                 *)

LEMMA ConnectSound == ASSUME RoomsInv, NEW c \in Clients, Connect(c) PROVE RoomsInv'
<1>1. PICK evicted :
        client' = [d \in Clients |->
                      IF d = c THEN [client[d] EXCEPT !.life = "live", !.open = TRUE]
                      ELSE IF d \in evicted THEN [client[d] EXCEPT !.life = "freed"]
                      ELSE client[d]]
  BY DEF Connect
<1>2. /\ thread' = [thread EXCEPT ![c] = Idle] /\ checker' = checker /\ room' = room
      /\ client[c].life = "unborn" /\ thread[c].pc = "ended"
  BY DEF Connect, Goto, RoomsInv, ThreadSound
<1>3. ASSUME NEW d \in Clients
      PROVE  /\ client'[d] \in ClientType /\ client'[d].state = client[d].state
             /\ client'[d].life \in {client[d].life, "live", "freed"}
             /\ d # c => client'[d].life \in {client[d].life, "freed"}
             /\ d = c => client'[d].life = "live"
  <2>1. client[d] \in ClientType
    BY DEF RoomsInv, Typed
  <2>2. "live" \in Lives /\ "freed" \in Lives /\ TRUE \in BOOLEAN
    BY DEF Lives
  <2>3. CASE d = c
    BY <1>1, <2>1, <2>2, <2>3, LifeOpenSet
  <2>4. CASE d # c /\ d \in evicted
    BY <1>1, <2>1, <2>2, <2>4, LifeSet
  <2>5. CASE d # c /\ d \notin evicted
    BY <1>1, <2>1, <2>5
  <2> QED
    BY <2>3, <2>4, <2>5
<1>4. client' \in [Clients -> ClientType]
  BY <1>1, <1>3
<1>5. \A d \in Clients : Onward(d) /\ (d # c => Steady(d))
  BY <1>2, <1>3 DEF Onward, Steady
<1>6. ThreadSound(c)'
  BY <1>2, <1>3, IdleTyped DEF ThreadSound, Holders, RoomsInv, Typed
<1>7. \A r \in RoomIds : Kept(r)
  BY <1>2 DEF Kept
<1> QED
  BY <1>2, <1>4, <1>5, <1>6, <1>7, IdleTyped, HandlerStep DEF RoomsInv, Typed

\* A handler moves on and does nothing else to clients and seats.
LEMMA Moved ==
    ASSUME RoomsInv, NEW c \in Clients, NEW t \in ThreadType, Goto(c, t),
           UNCHANGED <<client, checker>>, client[c].life # "unborn",
           t.pc \in Holders => t.room \in RoomIds,
           t.pc # "reconnecting", thread[c].pc # "destroying",
           \E G : room' \in [RoomIds -> Shape(G)],
           \A r \in RoomIds : Kept(r)
    PROVE  RoomsInv'
<1>1. thread' = [thread EXCEPT ![c] = t] /\ client' = client /\ checker' = checker
  BY DEF Goto
<1>2. thread'[c] = t
  BY <1>1 DEF RoomsInv, Typed
<1>3. ThreadSound(c)'
  BY <1>1, <1>2 DEF ThreadSound
<1>4. \A d \in Clients : Onward(d) /\ Steady(d)
  BY <1>1 DEF Onward, Steady
<1>5. client' \in [Clients -> ClientType]
  BY <1>1 DEF RoomsInv, Typed
<1> QED
  BY <1>1, <1>3, <1>4, <1>5, HandlerStep

LEMMA RoomsKept ==
    ASSUME RoomsInv, room' = room
    PROVE  (\E G : room' \in [RoomIds -> Shape(G)]) /\ \A r \in RoomIds : Kept(r)
BY DEF RoomsInv, Typed, Kept

\* Whoever hears from a client, or runs its handler, works on an accepted one.
LEMMA Accepted ==
    ASSUME RoomsInv, NEW c \in Clients, Ready(c) \/ thread[c].pc # "ended"
    PROVE  client[c].life # "unborn"
BY DEF RoomsInv, ThreadSound, Ready

LEMMA HelloSound == ASSUME RoomsInv, NEW c \in Clients, Hello(c) PROVE RoomsInv'
<1>1. /\ client' = [client EXCEPT ![c].state = "IN_LOBBY"]
      /\ UNCHANGED <<room, thread, checker>>
      /\ thread[c].pc = "idle" /\ client[c].life = "live"
  BY DEF Hello, Listening, Ready
<1>2. thread \in [Clients -> ThreadType] /\ client \in [Clients -> ClientType]
  BY DEF RoomsInv, Typed
<1>3. thread' = [thread EXCEPT ![c] = thread[c]] /\ thread[c] \in ThreadType
  BY <1>1, <1>2
<1>4. /\ client' \in [Clients -> ClientType]
      /\ client'[c].life = "live" /\ client'[c].state = "IN_LOBBY"
      /\ \A d \in Clients \ {c} : client'[d] = client[d]
  <2>1. "IN_LOBBY" \in States
    BY DEF States
  <2> QED
    BY <1>1, <1>2, <2>1, StateSet
<1>5. \A d \in Clients : Onward(d) /\ (d # c => Steady(d))
  BY <1>1, <1>4 DEF Onward, Steady
<1>6. ThreadSound(c)'
  BY <1>1, <1>4 DEF ThreadSound, Holders
<1> QED
  BY <1>1, <1>3, <1>4, <1>5, <1>6, RoomsKept, HandlerStep

LEMMA FindRoomSound ==
    ASSUME RoomsInv, NEW c \in Clients, NEW r \in RoomIds, FindRoom(c, r)
    PROVE  RoomsInv'
<1>1. /\ Ready(c) /\ thread[c].pc = "idle" /\ Goto(c, At("joining", r, "idle"))
      /\ UNCHANGED <<client, room, checker>>
  BY DEF FindRoom, MayEnter, Listening, Ready
<1>2. /\ At("joining", r, "idle") \in ThreadType
      /\ At("joining", r, "idle").pc = "joining" /\ At("joining", r, "idle").room = r
  BY AtTyped DEF Pcs, Holders
<1> QED
  BY <1>1, <1>2, Accepted, RoomsKept, Moved

LEMMA CheckStartSound == ASSUME RoomsInv, NEW c \in Clients, CheckStart(c) PROVE RoomsInv'
<1> DEFINE r == client[c].room
           t == At("creating", r, "idle")
<1>1. /\ Ready(c) /\ thread[c].pc = "idle" /\ Goto(c, t) /\ r # NULL
      /\ UNCHANGED <<client, room, checker>>
  BY DEF CheckStart, Listening, Ready
<1>2. r \in RoomIds
  BY <1>1 DEF RoomsInv, Typed, ClientType
<1>3. t \in ThreadType /\ t.pc = "creating" /\ t.room = r
  BY <1>2, AtTyped DEF Pcs, Holders
<1> HIDE DEF t, r
<1> QED
  BY <1>1, <1>2, <1>3, Accepted, RoomsKept, Moved

\* A thread that holds no room stands at a place where it needs none.
LEMMA PcTyped ==
    ASSUME NEW p \in {"idle", "freeing", "ended"}
    PROVE  Pc(p) \in ThreadType /\ Pc(p).pc = p
BY DEF Pc, At, ThreadType

LEMMA CreateGameSound == ASSUME RoomsInv, NEW c \in Clients, CreateGame(c) PROVE RoomsInv'
<1> DEFINE r == thread[c].room
<1>1. /\ thread[c].pc = "creating" /\ Goto(c, Idle)
      /\ UNCHANGED <<client, checker>>
      /\ \E g : room' = [room EXCEPT ![r].game = g]
  BY DEF CreateGame, InStep
<1>2. r \in RoomIds
  BY <1>1 DEF RoomsInv, ThreadSound, Holders
<1>3. "WAITING" \in {"WAITING", "PLAYING", "FINISHED"}
  OBVIOUS
<1>4. (\E G : room' \in [RoomIds -> Shape(G)]) /\ \A s \in RoomIds : Kept(s)
  BY <1>1, <1>2, <1>3, GameChanged DEF RoomsInv
<1> HIDE DEF r
<1> QED
  BY <1>1, <1>4, Accepted, IdleTyped, Moved DEF Holders

LEMMA MarkReadySound == ASSUME RoomsInv, NEW c \in Clients, MarkReady(c) PROVE RoomsInv'
<1> DEFINE r == client[c].room
           t == At("marked", r, "idle")
           g == PlayerReady(room[r].game, c)
<1>1. /\ Ready(c) /\ thread[c].pc = "idle" /\ Goto(c, t) /\ r # NULL
      /\ UNCHANGED <<client, checker>>
      /\ room' = [room EXCEPT ![r].game = g]
  BY DEF MarkReady, Listening, Ready
<1>2. r \in RoomIds
  BY <1>1 DEF RoomsInv, Typed, ClientType
<1>3. t \in ThreadType /\ t.pc = "marked" /\ t.room = r
  BY <1>2, AtTyped DEF Pcs, Holders
<1>4. "WAITING" \in {"WAITING", "PLAYING", "FINISHED"}
  OBVIOUS
<1> HIDE DEF t, r, g
<1>5. (\E G : room' \in [RoomIds -> Shape(G)]) /\ \A s \in RoomIds : Kept(s)
  BY <1>1, <1>2, <1>4, GameChanged DEF RoomsInv
<1> QED
  BY <1>1, <1>2, <1>3, <1>5, Accepted, Moved

LEMMA FlipOneSound == ASSUME RoomsInv, NEW c \in Clients, FlipOne(c) PROVE RoomsInv'
<1> DEFINE r == client[c].room
           t == At("flipped", r, "idle")
<1>1. /\ Ready(c) /\ thread[c].pc = "idle" /\ Goto(c, t) /\ r # NULL
      /\ UNCHANGED <<client, checker>>
      /\ \E g : room' = [room EXCEPT ![r].game = g]
  BY DEF FlipOne, Listening, Ready
<1>2. r \in RoomIds
  BY <1>1 DEF RoomsInv, Typed, ClientType
<1>3. t \in ThreadType /\ t.pc = "flipped" /\ t.room = r
  BY <1>2, AtTyped DEF Pcs, Holders
<1>4. "WAITING" \in {"WAITING", "PLAYING", "FINISHED"}
  OBVIOUS
<1> HIDE DEF t, r
<1>5. (\E G : room' \in [RoomIds -> Shape(G)]) /\ \A s \in RoomIds : Kept(s)
  BY <1>1, <1>2, <1>4, GameChanged DEF RoomsInv
<1> QED
  BY <1>1, <1>2, <1>3, <1>5, Accepted, Moved

LEMMA RemoveFromGameSound ==
    ASSUME RoomsInv, NEW c \in Clients, RemoveFromGame(c) PROVE RoomsInv'
<1> DEFINE r == thread[c].room
           t == At("removed", r, "idle")
           g == RemovePlayer(room[r].game, c)
<1>1. /\ thread[c].pc = "removing" /\ Goto(c, t)
      /\ UNCHANGED <<client, checker>>
      /\ room' = [room EXCEPT ![r].game = g]
  BY DEF RemoveFromGame, InStep
<1>2. r \in RoomIds
  BY <1>1 DEF RoomsInv, ThreadSound, Holders
<1>3. t \in ThreadType /\ t.pc = "removed" /\ t.room = r
  BY <1>2, AtTyped DEF Pcs, Holders
<1>4. "WAITING" \in {"WAITING", "PLAYING", "FINISHED"}
  OBVIOUS
<1> HIDE DEF t, r, g
<1>5. (\E G : room' \in [RoomIds -> Shape(G)]) /\ \A s \in RoomIds : Kept(s)
  BY <1>1, <1>2, <1>4, GameChanged DEF RoomsInv
<1> QED
  BY <1>1, <1>2, <1>3, <1>5, Accepted, Moved

LEMMA LoseToGameSound == ASSUME RoomsInv, NEW c \in Clients, LoseToGame(c) PROVE RoomsInv'
<1> DEFINE r == client[c].room
           t == At("removing", r, "idle")
<1>1. /\ Ready(c) /\ thread[c].pc = "idle" /\ Goto(c, t) /\ r # NULL
      /\ UNCHANGED <<client, room, checker>>
  BY DEF LoseToGame, InLiveGame, Ready
<1>2. r \in RoomIds
  BY <1>1 DEF RoomsInv, Typed, ClientType
<1>3. t \in ThreadType /\ t.pc = "removing" /\ t.room = r
  BY <1>2, AtTyped DEF Pcs, Holders
<1> HIDE DEF t, r
<1> QED
  BY <1>1, <1>2, <1>3, Accepted, RoomsKept, Moved

LEMMA FindSessionSound ==
    ASSUME RoomsInv, NEW c \in Clients, NEW old \in Clients, FindSession(c, old)
    PROVE  RoomsInv'
<1> DEFINE t == [Pc("reconnecting") EXCEPT !.old = old]
<1>1. /\ thread[c].pc = "idle" /\ client[c].life = "live"
      /\ client[c].state = "CONNECTED" /\ client[old].state # "CONNECTED"
      /\ thread' = [thread EXCEPT ![c] = t]
      /\ UNCHANGED <<client, room, checker>>
  BY DEF FindSession, Listening, Ready, Goto
<1>2. t \in ThreadType /\ t.pc = "reconnecting" /\ t.old = old
  BY DEF Pc, At, ThreadType
<1> HIDE DEF t
<1>3. thread'[c] = t
  BY <1>1 DEF RoomsInv, Typed
<1>4. ThreadSound(c)'
  BY <1>1, <1>2, <1>3 DEF ThreadSound, Holders
<1>5. \A d \in Clients : Onward(d) /\ Steady(d)
  BY <1>1 DEF Onward, Steady
<1>6. client' \in [Clients -> ClientType]
  BY <1>1 DEF RoomsInv, Typed
<1> QED
  BY <1>1, <1>2, <1>4, <1>5, <1>6, RoomsKept, HandlerStep

-----------------------------------------------------------------------------
(* The actions that change clients and leave the seats alone.              *)

\* A handler goes on, having changed clients.
LEMMA Changed ==
    ASSUME RoomsInv, NEW c \in Clients, NEW t \in ThreadType, Goto(c, t),
           checker' = checker, client[c].life # "unborn",
           client' \in [Clients -> ClientType],
           \A d \in Clients : Steady(d),
           t.pc \in Holders => t.room \in RoomIds,
           t.pc # "reconnecting", thread[c].pc # "destroying",
           \E G : room' \in [RoomIds -> Shape(G)],
           \A r \in RoomIds : Kept(r) \/ (SeatsSound(r)' /\ RoomOwned(r)')
    PROVE  RoomsInv'
<1>1. thread' = [thread EXCEPT ![c] = t] /\ thread'[c] = t
  BY DEF Goto, RoomsInv, Typed
<1>2. ThreadSound(c)'
  BY <1>1 DEF ThreadSound, Steady, Onward
<1>3. \A d \in Clients : Onward(d)
  BY DEF Steady
<1> QED
  BY <1>1, <1>2, <1>3, HandlerStep

LEMMA FirstPlacesSeated ==
    ASSUME RoomsInv, NEW r \in RoomIds
    PROVE  /\ FirstPlaces(r) \subseteq SeatedIn(r)
           /\ \A d \in Clients : d \in FirstPlaces(r) \/ d \in SeatedIn(r) =>
                 client[d].state # "CONNECTED"
<1>1. 0 .. room[r].count - 1 \subseteq Slots
  <2>1. room[r].count \in Nat /\ room[r].count <= MaxPlayers /\ MaxPlayers \in Nat
        /\ MaxPlayers <= 4
    BY RoomsAssumption DEF RoomsInv, Typed, SeatsSound, Shape, MAX_PLAYERS_PER_ROOM
  <2> QED
    BY <2>1 DEF Slots, MAX_PLAYERS_PER_ROOM
<1>2. \A d \in Clients : d \in SeatedIn(r) => client[d].state # "CONNECTED"
  BY DEF RoomsInv, SeatsSound, SeatedIn
<1>3. FirstPlaces(r) \subseteq SeatedIn(r)
  BY <1>1 DEF FirstPlaces, SeatedIn
<1> QED
  BY <1>2, <1>3

LEMMA StartPlaySound == ASSUME RoomsInv, NEW c \in Clients, StartPlay(c) PROVE RoomsInv'
<1> DEFINE r == thread[c].room
           g == Start(room[r].game)
<1>1. /\ thread[c].pc = "marked" /\ Goto(c, Idle) /\ checker' = checker
      /\ \/ UNCHANGED <<client, room>>
         \/ /\ room' = [room EXCEPT ![r].game = g, ![r].state = "PLAYING"]
            /\ client' = [d \in Clients |->
                             IF d \in FirstPlaces(r)
                             THEN [client[d] EXCEPT !.state = "IN_GAME"]
                             ELSE client[d]]
  BY DEF StartPlay, InStep
<1>2. r \in RoomIds
  BY <1>1 DEF RoomsInv, ThreadSound, Holders
<1> HIDE DEF g
<1>3. (\E G : room' \in [RoomIds -> Shape(G)]) /\ \A s \in RoomIds : Kept(s)
  <2>1. CASE UNCHANGED <<client, room>>
    BY <2>1, RoomsKept
  <2>2. CASE room' = [room EXCEPT ![r].game = g, ![r].state = "PLAYING"]
    <3>1. "PLAYING" \in {"WAITING", "PLAYING", "FINISHED"}
      OBVIOUS
    <3> QED
      BY <1>2, <2>2, <3>1, GameChanged DEF RoomsInv
  <2> QED
    BY <1>1, <2>1, <2>2
<1>4. ASSUME NEW d \in Clients PROVE Steady(d) /\ client'[d] \in ClientType
  <2>1. CASE client'[d] = client[d]
    BY <2>1 DEF Steady, Onward, RoomsInv, Typed
  <2>2. CASE d \in FirstPlaces(r) /\ client'[d] = [client[d] EXCEPT !.state = "IN_GAME"]
    <3>1. client[d].state # "CONNECTED"
      BY <1>2, <2>2, FirstPlacesSeated
    <3>2. client[d] \in ClientType /\ "IN_GAME" \in States
      BY DEF RoomsInv, Typed, States
    <3> QED
      BY <2>2, <3>1, <3>2, StateSet DEF Steady, Onward
  <2> QED
    BY <1>1, <2>1, <2>2
<1>5. client' \in [Clients -> ClientType]
  BY <1>1, <1>4 DEF RoomsInv, Typed
<1> QED
  BY <1>1, <1>3, <1>4, <1>5, Accepted, IdleTyped, Changed DEF Holders

LEMMA SettleTurnSound == ASSUME RoomsInv, NEW c \in Clients, SettleTurn(c) PROVE RoomsInv'
<1> DEFINE r == thread[c].room
           g == CheckMatch(room[r].game)
           t == At("destroying", r, "idle")
<1>1. /\ thread[c].pc = "flipped" /\ checker' = checker
      /\ \/ room' = [room EXCEPT ![r].game = g] /\ Goto(c, Idle) /\ client' = client
         \/ /\ room' = [room EXCEPT ![r].game = NULL, ![r].state = "FINISHED"]
            /\ client' = ToLobby(FirstPlaces(r))
            /\ Goto(c, t)
  BY DEF SettleTurn, InStep
<1>2. r \in RoomIds
  BY <1>1 DEF RoomsInv, ThreadSound, Holders
<1>3. t \in ThreadType /\ t.pc = "destroying" /\ t.room = r
  BY <1>2, AtTyped DEF Pcs, Holders
<1> HIDE DEF g, t
<1>4. "FINISHED" \in {"WAITING", "PLAYING", "FINISHED"}
  OBVIOUS
<1>5. (\E G : room' \in [RoomIds -> Shape(G)]) /\ \A s \in RoomIds : Kept(s)
  BY <1>1, <1>2, <1>4, GameChanged DEF RoomsInv
<1>6. CASE Goto(c, Idle) /\ client' = client
  BY <1>1, <1>5, <1>6, Accepted, IdleTyped, Moved DEF Holders
<1>7. CASE Goto(c, t) /\ client' = ToLobby(FirstPlaces(r))
  <2>1. client' \in [Clients -> ClientType] /\ \A d \in Clients : Steady(d)
    BY <1>2, <1>7, FirstPlacesSeated, ToLobbySteady DEF RoomsInv
  <2> QED
    BY <1>1, <1>2, <1>3, <1>5, <1>7, <2>1, Accepted, Changed
<1> QED
  BY <1>1, <1>6, <1>7

LEMMA LoseAndKeepSound == ASSUME RoomsInv, NEW c \in Clients, LoseAndKeep(c) PROVE RoomsInv'
<1>1. /\ Ready(c) /\ thread[c].pc = "idle"
      /\ client' = [client EXCEPT ![c].down = TRUE, ![c].open = FALSE]
      /\ Goto(c, Pc("ended")) /\ UNCHANGED <<room, checker>>
  BY DEF LoseAndKeep, Ready
<1>2. client' = [client EXCEPT ![c] = [client[c] EXCEPT !.down = TRUE, !.open = FALSE]]
  BY <1>1 DEF RoomsInv, Typed
<1>3. \A d \in Clients : client[d] \in ClientType
  BY DEF RoomsInv, Typed
<1>4. [client[c] EXCEPT !.down = TRUE, !.open = FALSE] \in ClientType
      /\ [client[c] EXCEPT !.down = TRUE, !.open = FALSE].life = client[c].life
      /\ [client[c] EXCEPT !.down = TRUE, !.open = FALSE].state = client[c].state
  BY <1>3 DEF ClientType
<1>5. client' \in [Clients -> ClientType] /\ \A d \in Clients : Steady(d)
  BY <1>2, <1>3, <1>4 DEF RoomsInv, Typed, Steady, Onward
<1>6. "ended" \in {"idle", "freeing", "ended"} /\ "ended" \notin Holders
  BY DEF Holders
<1> QED
  BY <1>1, <1>5, <1>6, PcTyped, RoomsKept, Accepted, Changed

LEMMA FreeClientSound == ASSUME RoomsInv, NEW c \in Clients, FreeClient(c) PROVE RoomsInv'
<1> DEFINE x == [client[c] EXCEPT !.life = "freed", !.open = FALSE]
<1>1. /\ thread[c].pc = "freeing"
      /\ client' = [client EXCEPT ![c].life = "freed", ![c].open = FALSE]
      /\ Goto(c, Pc("ended")) /\ UNCHANGED <<room, checker>>
  BY DEF FreeClient, InStep
<1>2. client' = [client EXCEPT ![c] = x]
  BY <1>1 DEF RoomsInv, Typed
<1>3. \A d \in Clients : client[d] \in ClientType
  BY DEF RoomsInv, Typed
<1>4. x \in ClientType /\ x.life = "freed" /\ x.state = client[c].state
  BY <1>3 DEF ClientType, Lives
<1> HIDE DEF x
<1>5. client' \in [Clients -> ClientType] /\ \A d \in Clients : Steady(d)
  BY <1>2, <1>3, <1>4 DEF RoomsInv, Typed, Steady, Onward
<1>6. "ended" \in {"idle", "freeing", "ended"} /\ "ended" \notin Holders
  BY DEF Holders
<1> QED
  BY <1>1, <1>5, <1>6, PcTyped, RoomsKept, Accepted, Changed

LEMMA ShutDownSound ==
    ASSUME RoomsInv, NEW c \in Clients, NEW mark \in BOOLEAN, ShutDown(c, mark)
    PROVE  RoomsInv'
<1> DEFINE x == [client[c] EXCEPT !.down = client[c].down \/ mark, !.open = FALSE]
<1>1. /\ client' = [client EXCEPT ![c].down = @ \/ mark, ![c].open = FALSE]
      /\ UNCHANGED <<room, thread, checker>>
  BY DEF ShutDown
<1>2. client' = [client EXCEPT ![c] = x]
  BY <1>1 DEF RoomsInv, Typed
<1>3. \A d \in Clients : client[d] \in ClientType
  BY DEF RoomsInv, Typed
<1>4. client[c].down \in BOOLEAN
  BY <1>3 DEF ClientType
<1>5. (client[c].down \/ mark) \in BOOLEAN
  BY <1>4
<1>6. x \in ClientType /\ x.life = client[c].life /\ x.state = client[c].state
  BY <1>3, <1>5, DownOpenSet
<1> HIDE DEF x
<1>7. client' \in [Clients -> ClientType] /\ \A d \in Clients : Steady(d)
  BY <1>2, <1>3, <1>6 DEF RoomsInv, Typed, Steady, Onward
<1>8. Doomed' = Doomed
  BY <1>1 DEF Doomed
<1>9. \A r \in RoomIds : SeatsSound(r)' /\ RoomOwned(r)'
  BY <1>7, <1>8, RoomsKept, KeptSound, <1>1 DEF RoomsInv, Steady
<1>10. checker' \in CheckerType /\ CheckerSound'
  BY <1>1 DEF RoomsInv, Typed, CheckerSound
<1> QED
  BY <1>1, <1>7, <1>9, <1>10, RoomsKept, CheckerStep

LEMMA ExpireClientSound == ASSUME RoomsInv, ExpireClient PROVE RoomsInv'
<1> DEFINE c == checker.client
           x == [client[c] EXCEPT !.life = "freed"]
<1>1. /\ checker.pc = "freeing"
      /\ client' = [client EXCEPT ![c].life = "freed"]
      /\ checker' = [pc |-> "idle", room |-> NULL, client |-> NULL]
      /\ UNCHANGED <<room, thread>>
  BY DEF ExpireClient
<1>2. c \in Clients
  BY <1>1 DEF RoomsInv, CheckerSound
<1>3. client' = [client EXCEPT ![c] = x]
  BY <1>1, <1>2 DEF RoomsInv, Typed
<1>4. \A d \in Clients : client[d] \in ClientType
  BY DEF RoomsInv, Typed
<1>5. x \in ClientType /\ x.life = "freed" /\ x.state = client[c].state
  BY <1>2, <1>4, LifeSet DEF Lives
<1> HIDE DEF x, c
<1>6. client' \in [Clients -> ClientType] /\ \A d \in Clients : Steady(d)
  BY <1>2, <1>3, <1>4, <1>5 DEF RoomsInv, Typed, Steady, Onward
<1>7. checker' \in CheckerType /\ CheckerSound'
  BY <1>1 DEF CheckerType, CheckerSound
<1> QED
  BY <1>1, <1>6, <1>7, RoomsKept, CheckerStep

-----------------------------------------------------------------------------
(* The actions that change the seats.                                      *)

\* One room is written.
LEMMA OneRoom ==
    ASSUME Typed, NEW r \in RoomIds, NEW y, NEW G, NEW g,
           room \in [RoomIds -> Shape(G)], y \in Shape(G \cup {g}),
           room' = [room EXCEPT ![r] = y]
    PROVE  /\ \E H : room' \in [RoomIds -> Shape(H)]
           /\ room'[r] = y
           /\ \A s \in RoomIds \ {r} : Kept(s)
<1>1. Shape(G) \subseteq Shape(G \cup {g})
  BY DEF Shape
<1>2. room' \in [RoomIds -> Shape(G \cup {g})]
  BY <1>1
<1> QED
  BY <1>2 DEF Kept

\* What players, count and owner become, whatever the game is.
Becomes(r, life, ps, n, o) ==
    /\ \E H : room' \in [RoomIds -> Shape(H)]
    /\ room'[r].life = life /\ room'[r].players = ps
    /\ room'[r].count = n /\ room'[r].owner = o
    /\ \A s \in RoomIds \ {r} : Kept(s)

LEMMA CreatedRoom ==
    ASSUME Typed, NEW r \in RoomIds, NEW c \in Clients,
           room' = [room EXCEPT
                       ![r].life = "live", ![r].owner = c, ![r].count = 1,
                       ![r].players = [EmptySeats EXCEPT ![0] = c]]
    PROVE  Becomes(r, "live", [EmptySeats EXCEPT ![0] = c], 1, c)
<1> DEFINE ps == [EmptySeats EXCEPT ![0] = c]
           y == [room[r] EXCEPT !.life = "live", !.owner = c, !.count = 1, !.players = ps]
<1>1. PICK G : room \in [RoomIds -> Shape(G)]
  BY DEF Typed
<1>2. ps \in Filled
  BY DEF Filled, EmptySeats
<1>3. room' = [room EXCEPT ![r] = y]
  BY <1>1
<1>4. room[r] \in Shape(G)
  BY <1>1
<1> HIDE DEF ps
<1>5. y \in Shape(G \cup {NULL}) /\ y.life = "live" /\ y.players = ps /\ y.count = 1
      /\ y.owner = c
  BY <1>2, <1>4 DEF Shape, Lives
<1> HIDE DEF y
<1>6. /\ \E H : room' \in [RoomIds -> Shape(H)]
      /\ room'[r] = y
      /\ \A s \in RoomIds \ {r} : Kept(s)
  BY <1>1, <1>3, <1>5, OneRoom
<1>7. Becomes(r, "live", ps, 1, c)
  BY <1>5, <1>6 DEF Becomes
<1> QED
  BY <1>7 DEF ps

LEMMA JoinedRoom ==
    ASSUME Typed, NEW r \in RoomIds, NEW c \in Clients, NEW i \in Slots,
           room' = [room EXCEPT ![r].players[i] = c, ![r].count = @ + 1]
    PROVE  Becomes(r, room[r].life, [room[r].players EXCEPT ![i] = c],
                   room[r].count + 1, room[r].owner)
<1> DEFINE ps == [room[r].players EXCEPT ![i] = c]
           n == room[r].count + 1
           y == [room[r] EXCEPT !.players = ps, !.count = n]
<1>1. PICK G : room \in [RoomIds -> Shape(G)]
  BY DEF Typed
<1>2. room[r] \in Shape(G)
  BY <1>1
<1>3. ps \in Filled /\ n \in Nat
  BY <1>2 DEF Filled, Shape
<1>4. room' = [room EXCEPT ![r] = y]
  BY <1>1
<1> HIDE DEF ps, n
<1>5. y \in Shape(G \cup {NULL}) /\ y.life = room[r].life /\ y.players = ps /\ y.count = n
      /\ y.owner = room[r].owner
  BY <1>2, <1>3 DEF Shape
<1> HIDE DEF y
<1> QED
  BY <1>1, <1>4, <1>5, OneRoom DEF Becomes, ps, n

LEMMA EmptiedRoom ==
    ASSUME Typed, NEW r \in RoomIds, room' = Emptied(r)
    PROVE  Becomes(r, room[r].life, EmptySeats, 0, room[r].owner)
<1> DEFINE ps == EmptySeats
           y == [room[r] EXCEPT !.players = ps, !.count = 0, !.game = NULL,
                                !.state = "WAITING"]
<1>1. PICK G : room \in [RoomIds -> Shape(G)]
  BY DEF Typed
<1>2. room[r] \in Shape(G)
  BY <1>1
<1>3. ps \in Filled
  BY DEF Filled, EmptySeats
<1>4. room' = [room EXCEPT ![r] = y]
  BY <1>1 DEF Emptied
<1> HIDE DEF ps
<1>5. y \in Shape(G \cup {NULL}) /\ y.life = room[r].life /\ y.players = ps /\ y.count = 0
      /\ y.owner = room[r].owner
  BY <1>2, <1>3 DEF Shape
<1> HIDE DEF y
<1> QED
  BY <1>1, <1>4, <1>5, OneRoom DEF Becomes, ps

LEMMA LeftRoom ==
    ASSUME Typed, NEW r \in RoomIds, NEW ps \in Filled, NEW o \in Clients \cup {NULL},
           room[r].count > 0,
           room' = [room EXCEPT ![r].players = ps, ![r].count = @ - 1, ![r].owner = o]
    PROVE  Becomes(r, room[r].life, ps, room[r].count - 1, o)
<1> DEFINE n == room[r].count - 1
           y == [room[r] EXCEPT !.players = ps, !.count = n, !.owner = o]
<1>1. PICK G : room \in [RoomIds -> Shape(G)]
  BY DEF Typed
<1>2. room[r] \in Shape(G)
  BY <1>1
<1>3. n \in Nat
  BY <1>2 DEF Shape
<1>4. room' = [room EXCEPT ![r] = y]
  BY <1>1
<1> HIDE DEF n
<1>5. y \in Shape(G \cup {NULL}) /\ y.life = room[r].life /\ y.players = ps /\ y.count = n
      /\ y.owner = o
  BY <1>2, <1>3 DEF Shape
<1> HIDE DEF y
<1> QED
  BY <1>1, <1>4, <1>5, OneRoom DEF Becomes, n

LEMMA FreedRoom ==
    ASSUME Typed, NEW r \in RoomIds, room' = [room EXCEPT ![r].life = "freed"]
    PROVE  Becomes(r, "freed", room[r].players, room[r].count, room[r].owner)
<1> DEFINE y == [room[r] EXCEPT !.life = "freed"]
<1>1. PICK G : room \in [RoomIds -> Shape(G)]
  BY DEF Typed
<1>2. room[r] \in Shape(G)
  BY <1>1
<1>3. room' = [room EXCEPT ![r] = y]
  BY <1>1
<1>4. y \in Shape(G \cup {NULL}) /\ y.life = "freed" /\ y.players = room[r].players
      /\ y.count = room[r].count /\ y.owner = room[r].owner
  BY <1>2 DEF Shape, Lives
<1> HIDE DEF y
<1> QED
  BY <1>1, <1>3, <1>4, OneRoom DEF Becomes

LEMMA SwappedRoom ==
    ASSUME Typed, NEW r \in RoomIds, NEW ps \in Filled, NEW g,
           room' = [room EXCEPT ![r].players = ps, ![r].game = g]
    PROVE  Becomes(r, room[r].life, ps, room[r].count, room[r].owner)
<1> DEFINE y == [room[r] EXCEPT !.players = ps, !.game = g]
<1>1. PICK G : room \in [RoomIds -> Shape(G)]
  BY DEF Typed
<1>2. room[r] \in Shape(G)
  BY <1>1
<1>3. room' = [room EXCEPT ![r] = y]
  BY <1>1
<1>4. y \in Shape(G \cup {g}) /\ y.life = room[r].life /\ y.players = ps
      /\ y.count = room[r].count /\ y.owner = room[r].owner
  BY <1>2 DEF Shape
<1> HIDE DEF y
<1> QED
  BY <1>1, <1>3, <1>4, OneRoom DEF Becomes

LEMMA FiniteSlots ==
    /\ IsFiniteSet(Slots)
    /\ \A S : S \subseteq Slots => IsFiniteSet(S) /\ Cardinality(S) \in Nat
<1>1. IsFiniteSet(Slots)
  <2>1. Slots = 0 .. 3
    BY DEF Slots, MAX_PLAYERS_PER_ROOM
  <2>2. 0 \in Int /\ 3 \in Int
    OBVIOUS
  <2>3. IsFiniteSet(0 .. 3)
    BY <2>2, FS_Interval, Zenon
  <2> QED
    BY <2>1, <2>3
<1>2. ASSUME NEW S, S \subseteq Slots PROVE IsFiniteSet(S) /\ Cardinality(S) \in Nat
  <2>1. S \in SUBSET Slots
    BY <1>2
  <2>2. IsFiniteSet(S)
    BY <1>1, <2>1, FS_Subset
  <2>3. Cardinality(S) \in Nat
    BY <2>2, FS_CardinalityType
  <2> QED
    BY <2>2, <2>3
<1> QED
  BY <1>1, <1>2

\* The seats of a room after a step, told by what players became.
LEMMA SeatsAfter ==
    ASSUME NEW r \in RoomIds, NEW life, NEW ps, NEW n, NEW o, Becomes(r, life, ps, n, o),
           \A i, j \in Slots : ps[i] = ps[j] /\ ps[i] # NULL => i = j,
           n = Cardinality({i \in Slots : ps[i] # NULL}),
           n <= MaxPlayers,
           \A i \in Slots : \A c \in Clients : ps[i] = c => client'[c].state # "CONNECTED"
    PROVE  SeatsSound(r)'
<1>1. room'[r].players = ps /\ room'[r].count = n
  BY DEF Becomes
<1>2. Places(r)' = {i \in Slots : ps[i] # NULL}
  BY <1>1 DEF Places
<1> QED
  BY <1>1, <1>2 DEF SeatsSound

\* A client enters a room.
LEMMA Entered ==
    ASSUME RoomsInv, NEW c \in Clients, NEW r \in RoomIds, client[c].life # "unborn",
           client' = [client EXCEPT ![c].room = r, ![c].state = "IN_ROOM"]
    PROVE  /\ client' \in [Clients -> ClientType]
           /\ client'[c].state = "IN_ROOM" /\ client'[c].life = client[c].life
           /\ \A d \in Clients : Onward(d) /\ (d # c => client'[d] = client[d] /\ Steady(d))
<1> DEFINE x == [client[c] EXCEPT !.room = r, !.state = "IN_ROOM"]
<1>1. client' = [client EXCEPT ![c] = x]
  BY DEF RoomsInv, Typed
<1>2. client[c] \in ClientType /\ "IN_ROOM" \in States /\ r \in RoomIds \cup {NULL}
  BY DEF RoomsInv, Typed, States
<1>3. x \in ClientType /\ x.life = client[c].life /\ x.state = "IN_ROOM"
  BY <1>2 DEF ClientType, States
<1> HIDE DEF x
<1> QED
  BY <1>1, <1>3 DEF RoomsInv, Typed, Onward, Steady

LEMMA CreateRoomSound ==
    ASSUME RoomsInv, NEW c \in Clients, NEW r \in RoomIds, CreateRoom(c, r)
    PROVE  RoomsInv'
<1> DEFINE ps == [EmptySeats EXCEPT ![0] = c]
<1>1. /\ Ready(c) /\ client[c].life = "live" /\ thread[c].pc = "idle"
      /\ client' = [client EXCEPT ![c].room = r, ![c].state = "IN_ROOM"]
      /\ UNCHANGED <<thread, checker>>
  BY DEF CreateRoom, MayEnter, Listening, Ready
<1>2. Becomes(r, "live", ps, 1, c)
  BY CreatedRoom DEF CreateRoom, RoomsInv
<1>3. /\ client' \in [Clients -> ClientType]
      /\ client'[c].state = "IN_ROOM" /\ client'[c].life = "live"
      /\ \A d \in Clients : Onward(d) /\ (d # c => Steady(d))
  BY <1>1, Entered
<1>4. /\ 0 \in Slots /\ \A i \in Slots : ps[i] = IF i = 0 THEN c ELSE NULL
      /\ c # NULL
  BY ClientsAssumption DEF EmptySeats, Slots, MAX_PLAYERS_PER_ROOM
<1> HIDE DEF ps
<1>5. SeatsSound(r)'
  <2>1. {i \in Slots : ps[i] # NULL} = {0}
    BY <1>4
  <2>2. 1 = Cardinality({i \in Slots : ps[i] # NULL})
    BY <2>1, FS_Singleton
  <2>3. 1 <= MaxPlayers
    BY RoomsAssumption DEF MAX_PLAYERS_PER_ROOM
  <2>4. \A i, j \in Slots : ps[i] = ps[j] /\ ps[i] # NULL => i = j
    BY <1>4
  <2>5. \A i \in Slots : \A d \in Clients : ps[i] = d => client'[d].state # "CONNECTED"
    BY <1>3, <1>4, ClientsAssumption
  <2> QED
    BY <1>2, <2>2, <2>3, <2>4, <2>5, SeatsAfter
<1>6. RoomOwned(r)'
  BY <1>2, <1>4 DEF Becomes, RoomOwned, SeatedIn
<1>7. thread' = [thread EXCEPT ![c] = thread[c]] /\ thread[c] \in ThreadType
  BY <1>1 DEF RoomsInv, Typed
<1>8. ThreadSound(c)'
  BY <1>1, <1>3 DEF ThreadSound, Holders
<1>9. (\E G : room' \in [RoomIds -> Shape(G)]) /\ \A s \in RoomIds \ {r} : Kept(s)
  BY <1>2 DEF Becomes
<1>10. \A s \in RoomIds :
          \/ Kept(s) /\ ~(thread[c].pc = "destroying" /\ thread[c].room = s)
          \/ SeatsSound(s)' /\ RoomOwned(s)'
  BY <1>1, <1>5, <1>6, <1>9
<1> QED
  BY <1>1, <1>3, <1>7, <1>8, <1>9, <1>10, HandlerStep

\* A handler that is not about to destroy a room gives up none that is.
LEMMA StillDoomed ==
    ASSUME RoomsInv, NEW c \in Clients, NEW t, Goto(c, t), checker' = checker,
           thread[c].pc # "destroying"
    PROVE  /\ \A r \in Doomed : r \in Doomed'
           /\ t.pc = "destroying" => t.room \in Doomed'
BY DoomedAfter DEF Goto, RoomsInv, Typed

\* The seats of a sound room, as arithmetic sees them.
LEMMA Counted ==
    ASSUME RoomsInv, NEW r \in RoomIds
    PROVE  /\ room[r].count = Cardinality(Places(r)) /\ room[r].count \in Nat
           /\ room[r].count <= MaxPlayers /\ MaxPlayers \in Nat
           /\ Places(r) \subseteq Slots /\ IsFiniteSet(Places(r))
           /\ room[r].players \in Filled
           /\ room[r].owner \in Clients \cup {NULL}
<1>1. Places(r) \subseteq Slots
  BY DEF Places
<1>2. MaxPlayers \in Nat
  BY RoomsAssumption DEF MAX_PLAYERS_PER_ROOM
<1>3. /\ room[r].count = Cardinality(Places(r)) /\ room[r].count <= MaxPlayers
      /\ room[r].count \in Nat /\ room[r].players \in Filled
      /\ room[r].owner \in Clients \cup {NULL}
  BY DEF RoomsInv, SeatsSound, Typed, Shape
<1> QED
  BY <1>1, <1>2, <1>3, FiniteSlots

LEMMA AddPlayerSound == ASSUME RoomsInv, NEW c \in Clients, AddPlayer(c) PROVE RoomsInv'
<1>1. PICK r \in RoomIds : r = thread[c].room
  BY DEF AddPlayer, InStep, RoomsInv, ThreadSound, Holders
<1> DEFINE free == {j \in Slots : room[r].players[j] = NULL}
           i == FirstOf(free)
           ps == [room[r].players EXCEPT ![i] = c]
           n == room[r].count + 1
<1>2. /\ thread[c].pc = "joining" /\ Goto(c, Idle) /\ checker' = checker
      /\ \/ UNCHANGED <<client, room>>
         \/ /\ room[r].count < MaxPlayers /\ c \notin SeatedIn(r) /\ free # {}
            /\ room' = [room EXCEPT ![r].players[i] = c, ![r].count = @ + 1]
            /\ client' = [client EXCEPT ![c].room = r, ![c].state = "IN_ROOM"]
  BY <1>1 DEF AddPlayer, InStep
<1>3. CASE UNCHANGED <<client, room>>
  BY <1>2, <1>3, RoomsKept, Accepted, IdleTyped, Moved DEF Holders
<1>4. CASE /\ room[r].count < MaxPlayers /\ c \notin SeatedIn(r) /\ free # {}
           /\ room' = [room EXCEPT ![r].players[i] = c, ![r].count = @ + 1]
           /\ client' = [client EXCEPT ![c].room = r, ![c].state = "IN_ROOM"]
  <2>1. i \in Slots /\ room[r].players[i] = NULL
    <3>1. free \subseteq Slots
      OBVIOUS
    <3>2. i \in free
      BY <1>4, <3>1, FirstSeat
    <3> QED
      BY <3>2
  <2> HIDE DEF i, free
  <2>2. Becomes(r, room[r].life, ps, n, room[r].owner)
    BY <1>1, <1>4, <2>1, JoinedRoom DEF RoomsInv
  <2>3. client[c].life # "unborn"
    BY <1>2, Accepted
  <2>4. /\ client' \in [Clients -> ClientType]
        /\ client'[c].state = "IN_ROOM" /\ client'[c].life # "unborn"
        /\ \A d \in Clients :
              Onward(d) /\ (d # c => client'[d] = client[d] /\ Steady(d))
    BY <1>1, <1>4, <2>3, Entered
  <2>5. /\ \A j \in Slots : ps[j] = IF j = i THEN c ELSE room[r].players[j]
        /\ c # NULL
    BY <1>1, Counted, ClientsAssumption DEF Filled
  <2>6. \A j \in Slots : room[r].players[j] # c
    BY <1>4, ClientsAssumption DEF SeatedIn
  <2> HIDE DEF ps
  <2>7. SeatsSound(r)'
    <3>1. {j \in Slots : ps[j] # NULL} = Places(r) \cup {i}
      BY <2>1, <2>5 DEF Places
    <3>2. i \notin Places(r)
      BY <2>1 DEF Places
    <3>3. n = Cardinality({j \in Slots : ps[j] # NULL})
      <4>1. Cardinality(Places(r) \cup {i}) = Cardinality(Places(r)) + 1
        BY <3>2, Counted, FS_AddElement
      <4>2. n = Cardinality(Places(r) \cup {i})
        BY <4>1, Counted
      <4> QED
        BY <3>1, <4>2
    <3>4. n <= MaxPlayers
      BY <1>1, <1>4, Counted
    <3>5. \A j, k \in Slots : ps[j] = ps[k] /\ ps[j] # NULL => j = k
      BY <1>1, <2>5, <2>6 DEF RoomsInv, SeatsSound
    <3>6. \A j \in Slots : \A d \in Clients : ps[j] = d => client'[d].state # "CONNECTED"
      BY <1>1, <2>4, <2>5 DEF RoomsInv, SeatsSound
    <3> HIDE DEF n
    <3> QED
      BY <1>1, <2>2, <3>3, <3>4, <3>5, <3>6, SeatsAfter
  <2>8. RoomOwned(r)'
    <3>1. SeatedIn(r) \subseteq SeatedIn(r)'
      BY <2>1, <2>2, <2>5 DEF Becomes, SeatedIn
    <3>2. r \in Doomed => r \in Doomed'
      BY <1>2, StillDoomed
    <3>3. n > 0
      BY <1>1, Counted
    <3> HIDE DEF n
    <3>4. RoomOwned(r) /\ \A d \in Clients : Onward(d)
      BY <2>4 DEF RoomsInv
    <3> QED
      BY <2>2, <3>1, <3>2, <3>3, <3>4 DEF Becomes, RoomOwned, Onward
  <2>9. (\E G : room' \in [RoomIds -> Shape(G)]) /\ \A s \in RoomIds \ {r} : Kept(s)
    BY <2>2 DEF Becomes
  <2>10. \A s \in RoomIds :
            \/ Kept(s) /\ ~(thread[c].pc = "destroying" /\ thread[c].room = s)
            \/ SeatsSound(s)' /\ RoomOwned(s)'
    BY <1>2, <2>7, <2>8, <2>9
  <2>11. thread' = [thread EXCEPT ![c] = Idle] /\ thread'[c] = Idle
    BY <1>2 DEF Goto, RoomsInv, Typed
  <2>12. ThreadSound(c)'
    BY <2>4, <2>11, IdleTyped DEF ThreadSound, Holders
  <2> QED
    BY <1>2, <2>4, <2>9, <2>10, <2>11, <2>12, IdleTyped, HandlerStep
<1> QED
  BY <1>2, <1>3, <1>4

\* The seats of a room that is freed.
LEMMA FreedSound ==
    ASSUME RoomsInv, NEW r \in RoomIds, Destroyed(r)
    PROVE  /\ client' \in [Clients -> ClientType] /\ \A d \in Clients : Steady(d)
           /\ \E G : room' \in [RoomIds -> Shape(G)]
           /\ \A s \in RoomIds \ {r} : Kept(s)
           /\ SeatsSound(r)' /\ RoomOwned(r)'
<1>1. Becomes(r, "freed", room[r].players, room[r].count, room[r].owner)
  BY FreedRoom DEF Destroyed, RoomsInv
<1>2. client' \in [Clients -> ClientType] /\ \A d \in Clients : Steady(d)
  BY FirstPlacesSeated, ToLobbySteady DEF Destroyed, RoomsInv
<1>3. Places(r)' = Places(r)
  BY <1>1 DEF Becomes, Places
<1>4. SeatsSound(r)'
  BY <1>1, <1>2, <1>3 DEF Becomes, RoomsInv, SeatsSound, Steady, Onward
<1>5. RoomOwned(r)'
  BY <1>1 DEF Becomes, RoomOwned
<1> QED
  BY <1>1, <1>2, <1>4, <1>5 DEF Becomes

LEMMA DestroyRoomSound == ASSUME RoomsInv, NEW c \in Clients, DestroyRoom(c) PROVE RoomsInv'
<1>1. PICK r \in RoomIds : r = thread[c].room
  BY DEF DestroyRoom, InStep, RoomsInv, ThreadSound, Holders
<1> DEFINE t == Pc(thread[c].next)
<1>2. thread[c].pc = "destroying" /\ Destroyed(r) /\ Goto(c, t) /\ checker' = checker
  BY <1>1 DEF DestroyRoom, InStep
<1>3. t \in ThreadType /\ t.pc \in {"idle", "freeing", "ended"}
  <2>1. thread[c].next \in {"idle", "freeing", "ended"}
    BY DEF RoomsInv, Typed, ThreadType
  <2> QED
    BY <2>1, PcTyped
<1> HIDE DEF t
<1>4. /\ client' \in [Clients -> ClientType] /\ \A d \in Clients : Steady(d) /\ Onward(d)
      /\ \E G : room' \in [RoomIds -> Shape(G)]
      /\ \A s \in RoomIds \ {r} : Kept(s)
      /\ SeatsSound(r)' /\ RoomOwned(r)'
  BY <1>2, FreedSound DEF Steady
<1>5. thread' = [thread EXCEPT ![c] = t] /\ thread'[c] = t
  BY <1>2 DEF Goto, RoomsInv, Typed
<1>6. ThreadSound(c)'
  <2>1. client[c].life # "unborn"
    BY <1>2, Accepted
  <2> QED
    BY <1>3, <1>4, <1>5, <2>1 DEF ThreadSound, Holders, Onward
<1>7. \A s \in RoomIds :
         \/ Kept(s) /\ ~(thread[c].pc = "destroying" /\ thread[c].room = s)
         \/ SeatsSound(s)' /\ RoomOwned(s)'
  BY <1>1, <1>4
<1> QED
  BY <1>2, <1>3, <1>4, <1>5, <1>6, <1>7, HandlerStep

LEMMA ExpireRoomSound == ASSUME RoomsInv, ExpireRoom PROVE RoomsInv'
<1>1. PICK r \in RoomIds : r = checker.room
  BY DEF ExpireRoom, RoomsInv, CheckerSound
<1>2. /\ checker.pc = "destroying" /\ Destroyed(r) /\ thread' = thread
      /\ checker' = [checker EXCEPT !.pc = "freeing", !.room = NULL]
  BY <1>1 DEF ExpireRoom
<1>3. /\ client' \in [Clients -> ClientType] /\ \A d \in Clients : Steady(d)
      /\ \E G : room' \in [RoomIds -> Shape(G)]
      /\ \A s \in RoomIds \ {r} : Kept(s)
      /\ SeatsSound(r)' /\ RoomOwned(r)'
  BY <1>2, FreedSound
<1>4. checker' \in CheckerType /\ CheckerSound'
  BY <1>2 DEF RoomsInv, Typed, CheckerSound, CheckerType
<1>5. \A s \in RoomIds :
         \/ Kept(s) /\ ~(checker.pc = "destroying" /\ checker.room = s)
         \/ SeatsSound(s)' /\ RoomOwned(s)'
  BY <1>1, <1>3
<1> QED
  BY <1>2, <1>3, <1>4, <1>5, CheckerStep

\* The seats of a room whose game is forfeited, once it has been emptied.
LEMMA EmptiedSound ==
    ASSUME RoomsInv, NEW r \in RoomIds, room' = Emptied(r), r \in Doomed'
    PROVE  /\ \E G : room' \in [RoomIds -> Shape(G)]
           /\ \A s \in RoomIds \ {r} : Kept(s)
           /\ SeatsSound(r)' /\ RoomOwned(r)'
<1>1. Becomes(r, room[r].life, EmptySeats, 0, room[r].owner)
  BY EmptiedRoom DEF RoomsInv
<1>2. SeatsSound(r)'
  <2>1. \A i \in Slots : EmptySeats[i] = NULL
    BY DEF EmptySeats
  <2>2. {i \in Slots : EmptySeats[i] # NULL} = {}
    BY <2>1
  <2>3. 0 = Cardinality({i \in Slots : EmptySeats[i] # NULL})
    BY <2>2, FS_EmptySet
  <2>4. 0 <= MaxPlayers
    BY RoomsAssumption DEF MAX_PLAYERS_PER_ROOM
  <2>5. /\ \A i, j \in Slots : EmptySeats[i] = EmptySeats[j] /\ EmptySeats[i] # NULL => i = j
        /\ \A i \in Slots : \A c \in Clients :
              EmptySeats[i] = c => client'[c].state # "CONNECTED"
    BY <2>1, ClientsAssumption
  <2> QED
    BY <1>1, <2>3, <2>4, <2>5, SeatsAfter
<1>3. RoomOwned(r)'
  BY <1>1 DEF Becomes, RoomOwned, RoomsInv
<1> QED
  BY <1>1, <1>2, <1>3 DEF Becomes

\* room_remove_player takes one client, and no other, off its seat.
Thinned(ps, r, c) ==
    /\ ps \in Filled
    /\ room[r].count > 0
    /\ room[r].count - 1 = Cardinality({i \in Slots : ps[i] # NULL})
    /\ \A i, j \in Slots : ps[i] = ps[j] /\ ps[i] # NULL => i = j
    /\ \A i \in Slots : ps[i] \in {NULL, room[r].players[i]}
    /\ \A i \in Slots : room[r].players[i] # c => ps[i] = room[r].players[i]

LEMMA WithoutSeats ==
    ASSUME RoomsInv, NEW r \in RoomIds, NEW c \in Clients, ~NotFound(r, c)
    PROVE  Thinned(Without(r, c), r, c)
<1> DEFINE ps == Without(r, c)
<1>1. /\ \A i \in Slots : ps[i] = IF room[r].players[i] = c THEN NULL ELSE room[r].players[i]
      /\ room[r].players \in Filled /\ c # NULL
  BY Counted, ClientsAssumption DEF Without
<1>2. PICK k \in Slots : room[r].players[k] = c
  BY <1>1 DEF NotFound, SeatedIn
<1>3. ps \in Filled
  BY <1>1 DEF Without, Filled
<1> HIDE DEF ps
<1>4. \A i, j \in Slots : room[r].players[i] = room[r].players[j]
                          /\ room[r].players[i] # NULL => i = j
  BY DEF RoomsInv, SeatsSound
<1>5. {i \in Slots : ps[i] # NULL} = Places(r) \ {k} /\ k \in Places(r)
  BY <1>1, <1>2, <1>4 DEF Places
<1>6. Cardinality(Places(r) \ {k}) = Cardinality(Places(r)) - 1
  BY <1>5, Counted, FS_RemoveElement
<1>7. Cardinality(Places(r) \ {k}) \in Nat
  BY Counted, FiniteSlots
<1>8. room[r].count > 0 /\ room[r].count - 1 = Cardinality(Places(r) \ {k})
  <2>1. room[r].count = Cardinality(Places(r)) /\ room[r].count \in Nat
    BY Counted
  <2> QED
    BY <1>6, <1>7, <2>1
<1>9. room[r].count - 1 = Cardinality({i \in Slots : ps[i] # NULL})
  BY <1>5, <1>8
<1>10. \A i, j \in Slots : ps[i] = ps[j] /\ ps[i] # NULL => i = j
  BY <1>1, <1>4
<1>11. /\ \A i \in Slots : ps[i] \in {NULL, room[r].players[i]}
       /\ \A i \in Slots : room[r].players[i] # c => ps[i] = room[r].players[i]
  BY <1>1
<1>12. Thinned(ps, r, c)
  BY <1>3, <1>8, <1>9, <1>10, <1>11 DEF Thinned
<1> QED
  BY <1>12 DEF ps

\* The ownership passes to a client that keeps its seat, if there is one that
\* is not marked disconnected.
LEMMA NewOwner ==
    ASSUME RoomsInv, NEW r \in RoomIds, NEW c \in Clients, ~NotFound(r, c)
    PROVE  /\ OwnerWithout(r, c) \in Clients \cup {NULL}
           /\ room[r].owner \in Clients => OwnerWithout(r, c) \in Clients
           /\ room[r].owner = c /\ Heirs(r, c) # {} =>
                 \E i \in Slots : /\ Without(r, c)[i] = OwnerWithout(r, c)
                                  /\ OwnerWithout(r, c) # NULL
           /\ room[r].owner # c => OwnerWithout(r, c) = room[r].owner
<1>1. CASE room[r].owner = c /\ Heirs(r, c) # {}
  <2>1. Heirs(r, c) \subseteq Slots
    BY DEF Heirs
  <2>2. PICK i \in Heirs(r, c) : i = FirstOf(Heirs(r, c))
    BY <1>1, <2>1, FirstSeat
  <2>3. i \in Slots /\ Without(r, c)[i] # NULL /\ OwnerWithout(r, c) = Without(r, c)[i]
    BY <1>1, <2>2 DEF Heirs, OwnerWithout
  <2>4. Without(r, c) \in Filled
    BY WithoutSeats DEF Thinned
  <2>5. Without(r, c)[i] \in Clients \cup {NULL}
    BY <2>3, <2>4 DEF Filled
  <2> QED
    BY <1>1, <2>3, <2>5
<1>2. CASE ~(room[r].owner = c /\ Heirs(r, c) # {})
  BY <1>2, Counted DEF OwnerWithout
<1> QED
  BY <1>1, <1>2

LEMMA LeftSound ==
    ASSUME RoomsInv, NEW r \in RoomIds, NEW c \in Clients, ~NotFound(r, c),
           room' = [room EXCEPT ![r].players = Without(r, c), ![r].count = @ - 1,
                                ![r].owner = OwnerWithout(r, c)],
           \A d \in Clients : Onward(d),
           r \in Doomed \/ Closes(r, c) => r \in Doomed'
    PROVE  /\ \E G : room' \in [RoomIds -> Shape(G)]
           /\ \A s \in RoomIds \ {r} : Kept(s)
           /\ SeatsSound(r)' /\ RoomOwned(r)'
<1> DEFINE ps == Without(r, c)
           n == room[r].count - 1
           o == OwnerWithout(r, c)
<1>1. Thinned(ps, r, c)
  BY WithoutSeats
<1>2. /\ ps \in Filled /\ room[r].count > 0
      /\ n = Cardinality({i \in Slots : ps[i] # NULL})
      /\ \A i, j \in Slots : ps[i] = ps[j] /\ ps[i] # NULL => i = j
      /\ \A i \in Slots : ps[i] \in {NULL, room[r].players[i]}
      /\ \A i \in Slots : room[r].players[i] # c => ps[i] = room[r].players[i]
  BY <1>1 DEF Thinned
<1>3. /\ o \in Clients \cup {NULL} /\ (room[r].owner \in Clients => o \in Clients)
      /\ room[r].owner = c /\ Heirs(r, c) # {} => \E i \in Slots : ps[i] = o /\ o # NULL
      /\ room[r].owner # c => o = room[r].owner
  BY NewOwner
<1>4. Becomes(r, room[r].life, ps, n, o)
  BY <1>2, <1>3, LeftRoom DEF RoomsInv
<1> HIDE DEF ps, o
<1>5. n \in Nat /\ n <= MaxPlayers
  BY <1>2, Counted
<1>6. SeatsSound(r)'
  <2>1. \A i \in Slots : \A d \in Clients : ps[i] = d => client'[d].state # "CONNECTED"
    BY <1>2, ClientsAssumption DEF RoomsInv, SeatsSound, Onward
  <2> HIDE DEF n
  <2> QED
    BY <1>2, <1>4, <1>5, <2>1, SeatsAfter
<1>7. RoomOwned(r)'
  <2> SUFFICES ASSUME room'[r].life = "live", r \notin Doomed'
               PROVE  /\ o \in Clients /\ n > 0
                      /\ o \in SeatedIn(r)' \/ client'[o].life = "freed"
    <3>1. o \in Clients /\ r \in Doomed' => RoomOwned(r)'
      BY <1>4 DEF Becomes, RoomOwned
    <3>2. room'[r].life = "live" => o \in Clients
      BY <1>3, <1>4 DEF Becomes, RoomOwned, RoomsInv
    <3> HIDE DEF n
    <3> QED
      BY <1>4, <3>1, <3>2 DEF Becomes, RoomOwned
  <2>1. room[r].life = "live" /\ r \notin Doomed /\ ~Closes(r, c)
    BY <1>4 DEF Becomes
  <2>2. /\ room[r].owner \in Clients
        /\ room[r].owner \in SeatedIn(r) \/ client[room[r].owner].life = "freed"
    BY <2>1 DEF RoomsInv, RoomOwned
  <2>3. n > 0
    BY <1>2, <1>5, <2>1, Counted DEF Closes
  <2>4. room[r].owner = c => Heirs(r, c) # {}
    BY <2>1, <2>3, Counted DEF Closes, Orphans
  <2>5. SeatedIn(r)' = {ps[i] : i \in Slots} \ {NULL}
    BY <1>4 DEF Becomes, SeatedIn
  <2>6. CASE room[r].owner = c
    BY <1>3, <2>2, <2>3, <2>4, <2>5, <2>6
  <2>7. CASE room[r].owner # c
    <3>1. o = room[r].owner
      BY <1>3, <2>7
    <3>2. CASE o \in SeatedIn(r)
      <4>1. PICK i \in Slots : room[r].players[i] = o
        BY <3>2 DEF SeatedIn
      <4>2. ps[i] = o /\ o # NULL
        BY <1>2, <2>7, <3>1, <3>2, <4>1 DEF SeatedIn
      <4>3. o \in SeatedIn(r)'
        BY <2>5, <4>2
      <4> QED
        BY <2>2, <2>3, <3>1, <4>3
    <3>3. CASE client[o].life = "freed"
      BY <2>2, <2>3, <3>1, <3>3 DEF Onward
    <3> QED
      BY <2>2, <3>1, <3>2, <3>3
  <2> QED
    BY <2>6, <2>7
<1> QED
  BY <1>4, <1>6, <1>7 DEF Becomes

LEMMA RemoveFromSound ==
    ASSUME RoomsInv, NEW r \in RoomIds, NEW c \in Clients,
           NEW next \in {"idle", "freeing", "ended"}, RemoveFrom(r, c, next),
           checker' = checker, client[c].life # "unborn", thread[c].pc # "destroying"
    PROVE  RoomsInv'
<1> DEFINE out == At("destroying", r, next)
<1>1. /\ Pc(next) \in ThreadType /\ Pc(next).pc = next /\ next \notin Holders
      /\ next # "reconnecting" /\ next # "destroying"
  BY PcTyped DEF Holders
<1>2. out \in ThreadType /\ out.pc = "destroying" /\ out.room = r
  BY AtTyped DEF Pcs, Holders
<1> HIDE DEF out
<1>3. CASE NotFound(r, c) /\ Goto(c, Pc(next)) /\ UNCHANGED <<client, room>>
  BY <1>1, <1>3, RoomsKept, Moved
<1>4. CASE /\ room' = Emptied(r) /\ client' = ToLobby(SeatedIn(r)) /\ Goto(c, out)
  <2>1. r \in Doomed'
    BY <1>2, <1>4, StillDoomed
  <2>2. client' \in [Clients -> ClientType] /\ \A d \in Clients : Steady(d)
    BY <1>4, FirstPlacesSeated, ToLobbySteady DEF RoomsInv
  <2>3. /\ \E G : room' \in [RoomIds -> Shape(G)]
        /\ \A s \in RoomIds \ {r} : Kept(s)
        /\ SeatsSound(r)' /\ RoomOwned(r)'
    BY <1>4, <2>1, EmptiedSound
  <2> QED
    BY <1>2, <1>4, <2>2, <2>3, Changed
<1>5. CASE /\ ~NotFound(r, c)
           /\ room' = [room EXCEPT ![r].players = Without(r, c), ![r].count = @ - 1,
                                   ![r].owner = OwnerWithout(r, c)]
           /\ client' = ToLobby(IF Orphans(r, c) THEN SeatedIn(r) ELSE {c})
           /\ Goto(c, IF Closes(r, c) THEN out ELSE Pc(next))
  <2>1. PICK t : Goto(c, t) /\ t = IF Closes(r, c) THEN out ELSE Pc(next)
    BY <1>5
  <2>2. /\ t \in ThreadType /\ (t.pc \in Holders => t.room \in RoomIds)
        /\ t.pc # "reconnecting"
        /\ Closes(r, c) => t.pc = "destroying" /\ t.room = r
    BY <1>1, <1>2, <2>1
  <2>3. \A d \in Clients : d \in (IF Orphans(r, c) THEN SeatedIn(r) ELSE {c}) =>
            client[d].state # "CONNECTED"
    BY <1>5, FirstPlacesSeated DEF NotFound
  <2>4. client' \in [Clients -> ClientType] /\ \A d \in Clients : Steady(d) /\ Onward(d)
    BY <1>5, <2>3, ToLobbySteady DEF RoomsInv, Steady
  <2>5. r \in Doomed \/ Closes(r, c) => r \in Doomed'
    BY <2>1, <2>2, StillDoomed
  <2>6. /\ \E G : room' \in [RoomIds -> Shape(G)]
        /\ \A s \in RoomIds \ {r} : Kept(s)
        /\ SeatsSound(r)' /\ RoomOwned(r)'
    BY <1>5, <2>4, <2>5, LeftSound
  <2> QED
    BY <2>1, <2>2, <2>4, <2>6, Changed
<1> QED
  BY <1>3, <1>4, <1>5 DEF RemoveFrom, out

LEMMA LeaveRoomSound == ASSUME RoomsInv, NEW c \in Clients, LeaveRoom(c) PROVE RoomsInv'
<1>1. /\ Ready(c) /\ thread[c].pc = "idle" /\ client[c].room # NULL
      /\ RemoveFrom(client[c].room, c, "idle") /\ checker' = checker
  BY DEF LeaveRoom, Listening, Ready
<1>2. client[c].room \in RoomIds
  BY <1>1 DEF RoomsInv, Typed, ClientType
<1>3. PICK r \in RoomIds : r = client[c].room
  BY <1>2
<1>4. RemoveFrom(r, c, "idle")
  BY <1>1, <1>3
<1>5. client[c].life # "unborn" /\ thread[c].pc # "destroying"
  BY <1>1, Accepted
<1> QED
  BY <1>1, <1>4, <1>5, RemoveFromSound

LEMMA RemoveFromRoomSound ==
    ASSUME RoomsInv, NEW c \in Clients, RemoveFromRoom(c) PROVE RoomsInv'
<1>1. /\ thread[c].pc = "removed" /\ checker' = checker
      /\ RemoveFrom(thread[c].room, c, "freeing")
  BY DEF RemoveFromRoom, InStep
<1>2. PICK r \in RoomIds : r = thread[c].room
  BY <1>1 DEF RoomsInv, ThreadSound, Holders
<1>3. RemoveFrom(r, c, "freeing")
  BY <1>1, <1>2
<1>4. client[c].life # "unborn" /\ thread[c].pc # "destroying"
  BY <1>1, Accepted
<1> QED
  BY <1>1, <1>3, <1>4, RemoveFromSound

LEMMA LoseOutsideSound == ASSUME RoomsInv, NEW c \in Clients, LoseOutside(c) PROVE RoomsInv'
<1>1. /\ Ready(c) /\ thread[c].pc = "idle" /\ checker' = checker
      /\ \/ /\ client[c].room # NULL
            /\ RemoveFrom(client[c].room, c, AfterLoss(c))
         \/ Goto(c, Pc(AfterLoss(c))) /\ UNCHANGED <<client, room>>
  BY DEF LoseOutside, Ready
<1>2. client[c].life # "unborn" /\ thread[c].pc # "destroying"
  BY <1>1, Accepted
<1>3. PICK next \in {"idle", "freeing", "ended"} : next = AfterLoss(c)
  BY DEF AfterLoss
<1>4. CASE client[c].room # NULL /\ RemoveFrom(client[c].room, c, AfterLoss(c))
  <2>1. PICK r \in RoomIds : r = client[c].room
    BY <1>4 DEF RoomsInv, Typed, ClientType
  <2>2. RemoveFrom(r, c, next)
    BY <1>3, <1>4, <2>1
  <2> QED
    BY <1>1, <1>2, <2>2, RemoveFromSound
<1>5. CASE Goto(c, Pc(AfterLoss(c))) /\ UNCHANGED <<client, room>>
  <2>1. Goto(c, Pc(next))
    BY <1>3, <1>5
  <2>2. Pc(next) \in ThreadType /\ Pc(next).pc \notin Holders /\ Pc(next).pc # "reconnecting"
    BY PcTyped DEF Holders
  <2> QED
    BY <1>1, <1>2, <1>5, <2>1, <2>2, RoomsKept, Moved
<1> QED
  BY <1>1, <1>4, <1>5

LEMMA ExpireSound == ASSUME RoomsInv, NEW c \in Clients, Expire(c) PROVE RoomsInv'
<1>1. /\ checker.pc = "idle" /\ thread' = thread
      /\ \/ /\ client[c].room # NULL
            /\ client' = ToLobby(SeatedIn(client[c].room))
            /\ room' = Emptied(client[c].room)
            /\ checker' = AfterForfeit(client[c].room, c)
         \/ /\ checker' = [pc |-> "freeing", room |-> NULL, client |-> c]
            /\ UNCHANGED <<client, room>>
  BY DEF Expire, Expired
<1>2. CASE /\ checker' = [pc |-> "freeing", room |-> NULL, client |-> c]
           /\ UNCHANGED <<client, room>>
  <2>1. checker' \in CheckerType /\ CheckerSound'
    BY <1>2 DEF CheckerType, CheckerSound
  <2>2. client' \in [Clients -> ClientType] /\ \A d \in Clients : Steady(d)
    BY <1>2 DEF RoomsInv, Typed, Steady, Onward
  <2> QED
    BY <1>1, <1>2, <2>1, <2>2, RoomsKept, CheckerStep
<1>3. CASE /\ client[c].room # NULL
           /\ client' = ToLobby(SeatedIn(client[c].room))
           /\ room' = Emptied(client[c].room)
           /\ checker' = AfterForfeit(client[c].room, c)
  <2>1. PICK r \in RoomIds : r = client[c].room
    BY <1>3 DEF RoomsInv, Typed, ClientType
  <2>2. /\ client' = ToLobby(SeatedIn(r)) /\ room' = Emptied(r)
        /\ checker' = [pc |-> "destroying", room |-> r, client |-> c]
    BY <1>3, <2>1 DEF AfterForfeit
  <2>3. checker' \in CheckerType /\ CheckerSound'
    BY <2>2 DEF CheckerType, CheckerSound
  <2>4. r \in Doomed'
    BY <2>2 DEF Doomed
  <2>5. client' \in [Clients -> ClientType] /\ \A d \in Clients : Steady(d)
    BY <2>2, FirstPlacesSeated, ToLobbySteady DEF RoomsInv
  <2>6. /\ \E G : room' \in [RoomIds -> Shape(G)]
        /\ \A s \in RoomIds \ {r} : Kept(s)
        /\ SeatsSound(r)' /\ RoomOwned(r)'
    BY <2>2, <2>4, EmptiedSound
  <2>7. \A s \in RoomIds :
           \/ Kept(s) /\ ~(checker.pc = "destroying" /\ checker.room = s)
           \/ SeatsSound(s)' /\ RoomOwned(s)'
    BY <1>1, <2>6
  <2> QED
    BY <1>1, <2>3, <2>5, <2>6, <2>7, CheckerStep
<1> QED
  BY <1>1, <1>2, <1>3

\* The reconnecting client takes the place of the old one and of nobody else.
Swapped(ps, r, c, old) ==
    /\ ps \in Filled
    /\ room[r].count = Cardinality({i \in Slots : ps[i] # NULL})
    /\ \A i, j \in Slots : ps[i] = ps[j] /\ ps[i] # NULL => i = j
    /\ \A i \in Slots : ps[i] \in {c, room[r].players[i]}
    /\ \A i \in Slots : room[r].players[i] # old => ps[i] = room[r].players[i]

LEMMA SwapSeats ==
    ASSUME RoomsInv, NEW r \in RoomIds, NEW c \in Clients, NEW old \in Clients,
           \A i \in Slots : room[r].players[i] # c
    PROVE  Swapped(Swap(room[r].players, room[r].count, old, c), r, c, old)
<1> DEFINE ps == Swap(room[r].players, room[r].count, old, c)
<1>1. /\ \A i \in Slots : \/ ps[i] = room[r].players[i]
                          \/ ps[i] = c /\ room[r].players[i] = old
      /\ room[r].players \in Filled /\ c # NULL /\ old # NULL
  BY Counted, ClientsAssumption DEF Swap
<1>2. ps \in Filled
  BY <1>1 DEF Swap, Filled
<1> HIDE DEF ps
<1>3. {i \in Slots : ps[i] # NULL} = Places(r)
  BY <1>1 DEF Places
<1>4. \A i, j \in Slots : ps[i] = ps[j] /\ ps[i] # NULL => i = j
  BY <1>1 DEF RoomsInv, SeatsSound
<1>5. room[r].count = Cardinality(Places(r))
  BY Counted
<1>6. /\ \A i \in Slots : ps[i] \in {c, room[r].players[i]}
      /\ \A i \in Slots : room[r].players[i] # old => ps[i] = room[r].players[i]
  BY <1>1
<1>7. room[r].count = Cardinality({i \in Slots : ps[i] # NULL})
  BY <1>3, <1>5
<1>8. Swapped(ps, r, c, old)
  BY <1>2, <1>4, <1>6, <1>7 DEF Swapped
<1> QED
  BY <1>8 DEF ps

LEMMA TakeOverSound == ASSUME RoomsInv, NEW c \in Clients, TakeOver(c) PROVE RoomsInv'
<1>1. PICK old \in Clients : old = thread[c].old
  <2>1. thread[c].pc = "reconnecting"
    BY Zenon DEF TakeOver, InStep
  <2>2. ThreadSound(c)
    BY DEF RoomsInv
  <2> QED
    BY <2>1, <2>2 DEF ThreadSound
<1>2. client[c] \in ClientType /\ client[old] \in ClientType
  BY DEF RoomsInv, Typed
<1>3. PICK r \in RoomIds \cup {NULL}, st \in States :
          r = client[old].room /\ st = client[old].state
  BY <1>2 DEF ClientType, States
<1>4. /\ thread[c].pc = "reconnecting" /\ Goto(c, Idle) /\ checker' = checker
      /\ client' = [client EXCEPT ![c].state = st, ![c].room = r,
                                  ![old].life = "freed", ![old].open = FALSE]
      /\ \/ r = NULL /\ room' = room
         \/ /\ r # NULL
            /\ room' = [room EXCEPT
                   ![r].players = Swap(@, room[r].count, old, c),
                   ![r].game = SwapInGame(@, old, c)]
  BY <1>1, <1>3, ZenonT(60) DEF TakeOver, InStep
<1>5. client[c].state = "CONNECTED" /\ st # "CONNECTED" /\ c # old
  <2>1. ThreadSound(c) /\ thread[c].pc = "reconnecting"
    BY <1>4 DEF RoomsInv
  <2> QED
    BY <1>1, <1>3, <2>1 DEF ThreadSound
<1> DEFINE x == [client[c] EXCEPT !.room = r, !.state = st]
           y == [client[old] EXCEPT !.life = "freed", !.open = FALSE]
<1>6. x \in ClientType /\ x.life = client[c].life /\ x.state = st
  BY <1>2 DEF ClientType, States
<1>7. y \in ClientType /\ y.life = "freed" /\ y.state = st
  BY <1>2, <1>3 DEF ClientType, Lives
<1>8. client' = [client EXCEPT ![c] = x, ![old] = y]
  BY <1>2, <1>4, <1>5 DEF RoomsInv, Typed, ClientType
<1> HIDE DEF x, y
<1>9. /\ client' \in [Clients -> ClientType]
      /\ client'[c] = x /\ client'[old] = y
      /\ \A d \in Clients \ {c, old} : client'[d] = client[d]
  BY <1>5, <1>6, <1>7, <1>8 DEF RoomsInv, Typed
<1>10. \A d \in Clients : Onward(d) /\ (d # c => Steady(d))
  BY <1>3, <1>5, <1>6, <1>7, <1>9 DEF Onward, Steady
<1>11. thread' = [thread EXCEPT ![c] = Idle] /\ thread'[c] = Idle
  BY <1>4 DEF Goto, RoomsInv, Typed
<1>12. ThreadSound(c)'
  <2>1. client[c].life # "unborn"
    BY <1>4, Accepted
  <2> QED
    BY <1>6, <1>9, <1>11, <2>1, IdleTyped DEF ThreadSound, Holders
<1>13. CASE room' = room
  <2>1. (\E G : room' \in [RoomIds -> Shape(G)]) /\ \A s \in RoomIds : Kept(s)
    BY <1>13, RoomsKept
  <2> QED
    BY <1>4, <1>9, <1>10, <1>11, <1>12, <2>1, IdleTyped, HandlerStep
<1>14. CASE /\ r \in RoomIds
            /\ room' = [room EXCEPT
                   ![r].players = Swap(@, room[r].count, old, c),
                   ![r].game = SwapInGame(@, old, c)]
  <2> DEFINE ps == Swap(room[r].players, room[r].count, old, c)
             g == SwapInGame(room[r].game, old, c)
  <2>1. room' = [room EXCEPT ![r].players = ps, ![r].game = g]
    BY <1>14 DEF RoomsInv, Typed, Shape
  <2>2. \A i \in Slots : room[r].players[i] # c
    BY <1>5, <1>14 DEF RoomsInv, SeatsSound
  <2>3. /\ ps \in Filled
        /\ room[r].count = Cardinality({i \in Slots : ps[i] # NULL})
        /\ \A i, j \in Slots : ps[i] = ps[j] /\ ps[i] # NULL => i = j
        /\ \A i \in Slots : ps[i] \in {c, room[r].players[i]}
        /\ \A i \in Slots : room[r].players[i] # old => ps[i] = room[r].players[i]
    BY <1>14, <2>2, SwapSeats DEF Swapped
  <2> HIDE DEF ps, g
  <2>4. Becomes(r, room[r].life, ps, room[r].count, room[r].owner)
    BY <1>14, <2>1, <2>3, SwappedRoom DEF RoomsInv
  <2>5. SeatsSound(r)'
    <3>1. room[r].count <= MaxPlayers
      BY <1>14, Counted
    <3>2. \A i \in Slots : \A d \in Clients : ps[i] = d => client'[d].state # "CONNECTED"
      BY <1>5, <1>6, <1>9, <1>10, <1>14, <2>3 DEF RoomsInv, SeatsSound, Onward
    <3> QED
      BY <1>14, <2>3, <2>4, <3>1, <3>2, SeatsAfter
  <2>6. RoomOwned(r)'
    <3>1. r \in Doomed => r \in Doomed'
      BY <1>4, StillDoomed
    <3>2. room[r].owner \in SeatedIn(r) /\ room[r].owner # old =>
              room[r].owner \in SeatedIn(r)'
      BY <2>3, <2>4 DEF Becomes, SeatedIn
    <3>3. client[room[r].owner].life = "freed" /\ room[r].owner \in Clients =>
              client'[room[r].owner].life = "freed"
      BY <1>10 DEF Onward
    <3>4. client'[old].life = "freed"
      BY <1>7, <1>9
    <3> QED
      BY <1>14, <2>4, <3>1, <3>2, <3>3, <3>4 DEF Becomes, RoomOwned, RoomsInv
  <2>7. \A s \in RoomIds :
           \/ Kept(s) /\ ~(thread[c].pc = "destroying" /\ thread[c].room = s)
           \/ SeatsSound(s)' /\ RoomOwned(s)'
    BY <1>4, <2>4, <2>5, <2>6 DEF Becomes
  <2>8. \E G : room' \in [RoomIds -> Shape(G)]
    BY <2>4 DEF Becomes
  <2> QED
    BY <1>4, <1>9, <1>10, <1>11, <1>12, <2>7, <2>8, IdleTyped, HandlerStep
<1> QED
  BY <1>4, <1>13, <1>14

-----------------------------------------------------------------------------
(* The theorems.                                                           *)

LEMMA InitSound == Init => RoomsInv
<1> SUFFICES ASSUME Init PROVE RoomsInv
  OBVIOUS
<1>1. Pc("ended") \in ThreadType /\ Pc("ended").pc = "ended"
  BY PcTyped
<1>2. \E G : room \in [RoomIds -> Shape(G)]
  <2>1. EmptySeats \in Filled
    BY DEF EmptySeats, Filled
  <2>2. [life |-> "unborn", players |-> EmptySeats, count |-> 0, owner |-> NULL,
         state |-> "WAITING", game |-> NULL] \in Shape({NULL})
    BY <2>1 DEF Shape, Lives
  <2>3. room \in [RoomIds -> Shape({NULL})]
    BY <2>2 DEF Init
  <2> QED
    BY <2>3
<1>3. Typed
  BY <1>1, <1>2 DEF Init, Typed, ClientType, CheckerType, Lives
<1>4. ASSUME NEW r \in RoomIds PROVE SeatsSound(r) /\ RoomOwned(r)
  <2>1. \A i \in Slots : room[r].players[i] = NULL
    BY DEF Init, EmptySeats
  <2>2. Places(r) = {} /\ room[r].count = 0 /\ room[r].life = "unborn"
    BY <2>1 DEF Init, Places
  <2>3. 0 = Cardinality(Places(r))
    BY <2>2, FS_EmptySet
  <2>4. 0 <= MaxPlayers
    BY RoomsAssumption DEF MAX_PLAYERS_PER_ROOM
  <2>5. SeatsSound(r)
    BY <2>1, <2>2, <2>3, <2>4, ClientsAssumption DEF SeatsSound
  <2> QED
    BY <2>2, <2>5 DEF RoomOwned
<1>5. \A c \in Clients : ThreadSound(c)
  BY <1>1 DEF Init, ThreadSound, Holders
<1>6. CheckerSound
  BY DEF Init, CheckerSound
<1> QED
  BY <1>3, <1>4, <1>5, <1>6 DEF RoomsInv

LEMMA RequestSound == ASSUME RoomsInv, NEW c \in Clients, Request(c) PROVE RoomsInv'
<1>1. CASE Connect(c)
  BY <1>1, ConnectSound
<1>2. CASE Enter(c)
  <2>1. CASE Hello(c)
    BY <2>1, HelloSound
  <2>2. CASE \E r \in RoomIds : CreateRoom(c, r)
    BY <2>2, CreateRoomSound
  <2>3. CASE \E r \in RoomIds : FindRoom(c, r)
    BY <2>3, FindRoomSound
  <2> QED
    BY <1>2, <2>1, <2>2, <2>3 DEF Enter
<1>3. CASE Play(c)
  <2>1. CASE LeaveRoom(c)
    BY <2>1, LeaveRoomSound
  <2>2. CASE CheckStart(c)
    BY <2>2, CheckStartSound
  <2>3. CASE MarkReady(c)
    BY <2>3, MarkReadySound
  <2>4. CASE FlipOne(c)
    BY <2>4, FlipOneSound
  <2> QED
    BY <1>3, <2>1, <2>2, <2>3, <2>4 DEF Play
<1>4. CASE Lose(c)
  BY <1>4, LoseToGameSound, LoseAndKeepSound, LoseOutsideSound DEF Lose
<1>5. CASE Return(c)
  BY <1>5, FindSessionSound DEF Return
<1> QED
  BY <1>1, <1>2, <1>3, <1>4, <1>5 DEF Request

LEMMA ContinueSound == ASSUME RoomsInv, NEW c \in Clients, Continue(c) PROVE RoomsInv'
<1>1. CASE AddPlayer(c)
  BY <1>1, AddPlayerSound
<1>2. CASE CreateGame(c)
  BY <1>2, CreateGameSound
<1>3. CASE StartPlay(c)
  BY <1>3, StartPlaySound
<1>4. CASE SettleTurn(c)
  BY <1>4, SettleTurnSound
<1>5. CASE RemoveFromGame(c)
  BY <1>5, RemoveFromGameSound
<1>6. CASE RemoveFromRoom(c)
  BY <1>6, RemoveFromRoomSound
<1>7. CASE DestroyRoom(c)
  BY <1>7, DestroyRoomSound
<1>8. CASE FreeClient(c)
  BY <1>8, FreeClientSound
<1>9. CASE TakeOver(c)
  BY <1>9, TakeOverSound
<1> QED
  BY <1>1, <1>2, <1>3, <1>4, <1>5, <1>6, <1>7, <1>8, <1>9 DEF Continue

LEMMA CheckSound == ASSUME RoomsInv, Check PROVE RoomsInv'
<1>1. ASSUME NEW c \in Clients, PongTimeout(c) PROVE RoomsInv'
  BY <1>1, ShutDownSound DEF PongTimeout
<1>2. ASSUME NEW c \in Clients, InactivityTimeout(c) PROVE RoomsInv'
  BY <1>2, ShutDownSound DEF InactivityTimeout
<1>3. ASSUME NEW c \in Clients, Expire(c) PROVE RoomsInv'
  BY <1>3, ExpireSound
<1> QED
  BY <1>1, <1>2, <1>3, ExpireRoomSound, ExpireClientSound DEF Check, Expiring

\* Nothing that the invariant speaks of changes.
LEMMA UnchangedSound ==
    ASSUME RoomsInv, UNCHANGED <<client, room, thread, checker>> PROVE RoomsInv'
<1>1. Doomed' = Doomed
  BY DEF Doomed
<1>2. ASSUME NEW r \in RoomIds PROVE SeatsSound(r)' /\ RoomOwned(r)'
  <2>1. SeatsSound(r) /\ RoomOwned(r)
    BY DEF RoomsInv
  <2> QED
    BY <1>1, <2>1 DEF SeatsSound, RoomOwned, Places, SeatedIn
<1>3. \A c \in Clients : ThreadSound(c)'
  BY DEF RoomsInv, ThreadSound
<1>4. Typed' /\ CheckerSound'
  BY DEF RoomsInv, Typed, CheckerSound
<1> QED
  BY <1>2, <1>3, <1>4 DEF RoomsInv

LEMMA NextSound == RoomsInv /\ [Next]_vars => RoomsInv'
<1> SUFFICES ASSUME RoomsInv, [Next]_vars PROVE RoomsInv'
  OBVIOUS
<1>1. CASE \E c \in Clients : Request(c)
  BY <1>1, RequestSound
<1>2. CASE \E c \in Clients : Continue(c)
  BY <1>2, ContinueSound
<1>3. CASE \E c \in Clients : Touch(c)
  BY <1>3, UnchangedSound DEF Touch
<1>4. CASE Check
  BY <1>4, CheckSound
<1>5. CASE TouchInCheck
  BY <1>5, UnchangedSound DEF TouchInCheck
<1>6. CASE UNCHANGED vars
  BY <1>6, UnchangedSound DEF vars
<1> QED
  BY <1>1, <1>2, <1>3, <1>4, <1>5, <1>6 DEF Next

\* The rooms and their threads stay within the inductive invariant, whatever
\* handler threads, timeout checker and reconnects do to each other.
THEOREM RoomsInvariant == Spec => []RoomsInv
<1> QED
  BY InitSound, NextSound, PTL DEF Spec

\* Conjunction by conjunction, what the invariant says of a live room.
LEMMA InvSeats == RoomsInv => SeatsCounted
<1> SUFFICES ASSUME RoomsInv, NEW r \in Alive
             PROVE  /\ room[r].count = Cardinality(Places(r))
                    /\ room[r].count <= MaxPlayers
                    /\ r \notin Doomed => room[r].count > 0
  BY DEF SeatsCounted
<1>1. r \in RoomIds /\ room[r].life = "live"
  BY DEF Alive
<1> QED
  BY <1>1 DEF RoomsInv, SeatsSound, RoomOwned

LEMMA InvOwner == RoomsInv => OwnerSeated
BY DEF RoomsInv, RoomOwned, OwnerSeated, Alive

\* player_count of every room is the number of its seats that are taken, at
\* most max_players, and above zero while nobody destroys the room: the
\* separate critical sections of join, leave, forfeit, expiry and reconnect
\* never miscount.
THEOREM SeatsAlwaysCounted == Spec => []SeatsCounted
<1> QED
  BY RoomsInvariant, InvSeats, PTL

\* A room that nobody destroys has an owner who sits in it, or whose client_t
\* was replaced: room_remove_player never leaves it without one.
THEOREM OwnerAlwaysSeated == Spec => []OwnerSeated
<1> QED
  BY RoomsInvariant, InvOwner, PTL

-----------------------------------------------------------------------------
(* The pointers of the clients to their rooms.  They agree with the arrays *)
(* of the rooms for as long as no client sits in two live rooms, which the *)
(* code allows between the step that gives the players of a room up and    *)
(* room_destroy, which clears their pointers again.                        *)

SeatedOnce == \A r, s \in Alive : r # s => SeatedIn(r) \cap SeatedIn(s) = {}

\* Those a room seats point to it while it lives on, no longer once it is
\* freed, and nobody sits in a room before it is created.
Points(r) ==
    /\ room[r].life = "live" /\ r \notin Doomed =>
          \A d \in Clients :
              d \in SeatedIn(r) /\ client[d].life = "live" => client[d].room = r
    /\ room[r].life = "freed" =>
          \A d \in Clients :
              d \in SeatedIn(r) /\ client[d].life = "live" => client[d].room # r
    /\ room[r].life = "unborn" => \A d \in Clients : d \notin SeatedIn(r)

\* The room that a thread is about to join was created.
Joinable(c) == thread[c].pc = "joining" => room[thread[c].room].life # "unborn"

PointInv ==
    /\ RoomsInv
    /\ \A r \in RoomIds : Points(r)
    /\ \A c \in Clients : Joinable(c)

LEMMA SeatedClients ==
    ASSUME RoomsInv, NEW r \in RoomIds
    PROVE  /\ SeatedIn(r) \subseteq Clients
           /\ \A d \in SeatedIn(r) :
                 client[d].state # "CONNECTED" /\ client[d].life # "unborn"
<1>1. room[r].players \in Filled
  BY Counted
<1>2. SeatedIn(r) \subseteq Clients
  BY <1>1 DEF Filled, SeatedIn
<1>3. \A d \in Clients : d \in SeatedIn(r) => client[d].state # "CONNECTED"
  BY FirstPlacesSeated
<1>4. \A d \in Clients : client[d].life = "unborn" => client[d].state = "CONNECTED"
  BY DEF RoomsInv, ThreadSound
<1> QED
  BY <1>2, <1>3, <1>4

\* A room that is kept is still pointed to, if those it seats keep their room, or
\* lose it in a room that is given up.
LEMMA StillPointed ==
    ASSUME NEW r \in RoomIds, Points(r), Kept(r), r \in Doomed => r \in Doomed',
           \A d \in Clients : d \in SeatedIn(r) /\ client'[d].life = "live" =>
               /\ client[d].life = "live"
               /\ \/ client'[d].room = client[d].room
                  \/ client'[d].room = NULL /\ (r \in Doomed' \/ room[r].life # "live")
    PROVE  Points(r)'
<1>1. SeatedIn(r)' = SeatedIn(r) /\ room'[r].life = room[r].life /\ r # NULL
  BY RoomsAssumption DEF Kept, SeatedIn
<1> QED
  BY <1>1 DEF Points

\* After a step the threads that are about to join still find a room.
LEMMA PointStep ==
    ASSUME PointInv, RoomsInv', \A r \in RoomIds : Points(r)',
           \A r \in RoomIds : room'[r].life = "unborn" => room[r].life = "unborn",
           \A d \in Clients :
               thread'[d] = thread[d] \/ Joinable(d)'
    PROVE  PointInv'
<1>1. ASSUME NEW d \in Clients PROVE Joinable(d)'
  <2>1. CASE thread'[d] = thread[d] /\ thread[d].pc = "joining"
    <3>1. thread[d].room \in RoomIds /\ Joinable(d)
      BY <2>1 DEF PointInv, RoomsInv, ThreadSound, Holders
    <3> QED
      BY <2>1, <3>1 DEF Joinable
  <2>2. CASE thread'[d] = thread[d] /\ thread[d].pc # "joining"
    BY <2>2 DEF Joinable
  <2> QED
    BY <2>1, <2>2
<1> QED
  BY <1>1 DEF PointInv

\* A handler that moves on to t, and does not join a room.
LEMMA ThreadMoved ==
    ASSUME RoomsInv, NEW c \in Clients, NEW t, Goto(c, t), t.pc # "joining"
    PROVE  \A d \in Clients : thread'[d] = thread[d] \/ Joinable(d)'
BY DEF RoomsInv, Typed, Goto, Joinable

\* A client that has logged in keeps its room; it may be freed.
KeepsRoom(d) ==
    client[d].state # "CONNECTED" /\ client'[d].life = "live" =>
        client[d].life = "live" /\ client'[d].room = client[d].room

\* A step that leaves the seats, and the rooms of the clients, alone.
LEMMA QuietStep ==
    ASSUME PointInv, RoomsInv', \A r \in RoomIds : Kept(r),
           \A r \in Doomed : r \in Doomed',
           \A d \in Clients : KeepsRoom(d),
           \A d \in Clients : thread'[d] = thread[d] \/ Joinable(d)'
    PROVE  PointInv'
<1>1. ASSUME NEW r \in RoomIds PROVE Points(r)'
  <2>1. Points(r) /\ RoomsInv
    BY DEF PointInv
  <2>2. \A d \in Clients : d \in SeatedIn(r) => client[d].state # "CONNECTED"
    BY <2>1, SeatedClients
  <2> QED
    BY <2>1, <2>2, StillPointed DEF KeepsRoom
<1> QED
  BY <1>1, PointStep DEF Kept

LEMMA QuietHandler ==
    ASSUME PointInv, RoomsInv', NEW c \in Clients, NEW t, Goto(c, t), checker' = checker,
           thread[c].pc # "destroying", t.pc # "joining",
           \A r \in RoomIds : Kept(r),
           \A d \in Clients : KeepsRoom(d)
    PROVE  PointInv'
<1>1. \A r \in Doomed : r \in Doomed'
  BY StillDoomed DEF PointInv
<1>2. \A d \in Clients : thread'[d] = thread[d] \/ Joinable(d)'
  BY ThreadMoved DEF PointInv
<1> QED
  BY <1>1, <1>2, QuietStep

\* Who goes to the lobby leaves its room.
LEMMA LobbyRooms ==
    ASSUME RoomsInv, NEW S, client' = ToLobby(S), NEW d \in Clients
    PROVE  /\ client'[d].life = client[d].life
           /\ d \in S => client'[d].room = NULL
           /\ d \notin S => client'[d].room = client[d].room
<1>1. client[d] \in ClientType
  BY DEF RoomsInv, Typed
<1>2. CASE d \in S
  <2>1. client'[d] = [client[d] EXCEPT !.room = NULL, !.state = "IN_LOBBY"]
    BY <1>2 DEF ToLobby
  <2> QED
    BY <1>1, <1>2, <2>1 DEF ClientType
<1>3. CASE d \notin S
  <2>1. client'[d] = client[d]
    BY <1>1, <1>3 DEF ToLobby
  <2> QED
    BY <1>3, <2>1
<1> QED
  BY <1>2, <1>3

\* Clients of room r go to the lobby: no other live room seats them.
LEMMA OthersPointed ==
    ASSUME PointInv, SeatedOnce, NEW r \in RoomIds, room[r].life # "freed",
           NEW S, S \subseteq SeatedIn(r), client' = ToLobby(S),
           NEW s \in RoomIds, s # r, Kept(s), s \in Doomed => s \in Doomed'
    PROVE  Points(s)'
<1>1. Points(s) /\ Points(r) /\ RoomsInv
  BY DEF PointInv
<1>2. ASSUME NEW d \in Clients, d \in SeatedIn(s), client'[d].life = "live"
      PROVE  /\ client[d].life = "live"
             /\ \/ client'[d].room = client[d].room
                \/ client'[d].room = NULL /\ room[s].life # "live"
  <2>1. CASE d \notin S
    BY <1>1, <1>2, <2>1, LobbyRooms
  <2>2. CASE d \in S
    <3>1. client'[d].room = NULL /\ client'[d].life = client[d].life
      BY <1>1, <2>2, LobbyRooms
    <3>2. room[r].life \in Lives
      BY <1>1 DEF RoomsInv, Typed, Shape
    <3>3. room[r].life = "live"
      BY <1>1, <2>2, <3>2 DEF Points, Lives
    <3>4. room[s].life # "live"
      BY <1>2, <2>2, <3>3 DEF SeatedOnce, Alive
    <3> QED
      BY <1>2, <3>1, <3>4
  <2> QED
    BY <2>1, <2>2
<1> QED
  BY <1>1, <1>2, StillPointed

\* A step that touches nobody's client_t, seats nobody and joins nothing.
LEMMA HandlerOnly ==
    ASSUME PointInv, RoomsInv', NEW c \in Clients, NEW t, Goto(c, t), t.pc # "joining",
           UNCHANGED <<client, checker>>, thread[c].pc # "destroying",
           \A r \in RoomIds : Kept(r)
    PROVE  PointInv'
BY QuietHandler DEF KeepsRoom

LEMMA ConnectPoints == ASSUME PointInv, NEW c \in Clients, Connect(c) PROVE PointInv'
<1>1. RoomsInv /\ RoomsInv'
  BY ConnectSound DEF PointInv
<1>2. PICK evicted :
        client' = [d \in Clients |->
                      IF d = c THEN [client[d] EXCEPT !.life = "live", !.open = TRUE]
                      ELSE IF d \in evicted THEN [client[d] EXCEPT !.life = "freed"]
                      ELSE client[d]]
  BY DEF Connect
<1>3. /\ client[c].life = "unborn" /\ Goto(c, Idle) /\ UNCHANGED <<room, checker>>
      /\ thread[c].pc = "ended" /\ client[c].state = "CONNECTED"
  BY <1>1 DEF Connect, RoomsInv, ThreadSound
<1>4. ASSUME NEW d \in Clients PROVE KeepsRoom(d)
  <2>1. CASE d = c
    BY <1>3, <2>1 DEF KeepsRoom
  <2>2. CASE d # c /\ d \in evicted
    <3>1. client'[d] = [client[d] EXCEPT !.life = "freed"] /\ client[d] \in ClientType
      BY <1>1, <1>2, <2>2 DEF RoomsInv, Typed
    <3>2. client'[d].life = "freed"
      BY <3>1, LifeSet DEF Lives
    <3> QED
      BY <3>2 DEF KeepsRoom
  <2>3. CASE d # c /\ d \notin evicted
    <3>1. client'[d] = client[d]
      BY <1>2, <2>3
    <3> QED
      BY <3>1 DEF KeepsRoom
  <2> QED
    BY <2>1, <2>2, <2>3
<1> QED
  BY <1>1, <1>3, <1>4, IdleTyped, RoomsKept, QuietHandler

LEMMA HelloPoints == ASSUME PointInv, NEW c \in Clients, Hello(c) PROVE PointInv'
<1>1. RoomsInv /\ RoomsInv'
  BY HelloSound DEF PointInv
<1>2. /\ client' = [client EXCEPT ![c].state = "IN_LOBBY"]
      /\ client[c].state = "CONNECTED" /\ UNCHANGED <<room, thread, checker>>
  BY DEF Hello
<1>3. \A d \in Clients : KeepsRoom(d)
  BY <1>1, <1>2 DEF KeepsRoom, RoomsInv, Typed
<1>4. \A r \in Doomed : r \in Doomed'
  BY <1>2 DEF Doomed
<1> QED
  BY <1>1, <1>2, <1>3, <1>4, RoomsKept, QuietStep

LEMMA FindRoomPoints ==
    ASSUME PointInv, NEW c \in Clients, NEW r \in RoomIds, FindRoom(c, r)
    PROVE  PointInv'
<1> DEFINE t == At("joining", r, "idle")
<1>1. RoomsInv /\ RoomsInv'
  BY FindRoomSound DEF PointInv
<1>2. /\ thread[c].pc = "idle" /\ Goto(c, t) /\ room[r].life = "live"
      /\ UNCHANGED <<client, room, checker>>
  BY DEF FindRoom, MayEnter, Listening, Ready
<1>3. t.room = r
  BY DEF At
<1> HIDE DEF t
<1>4. \A d \in Clients : thread'[d] = thread[d] \/ Joinable(d)'
  BY <1>1, <1>2, <1>3 DEF Joinable, Goto, RoomsInv, Typed
<1>5. \A s \in Doomed : s \in Doomed'
  BY <1>1, <1>2, StillDoomed
<1>6. \A d \in Clients : KeepsRoom(d)
  BY <1>2 DEF KeepsRoom
<1> QED
  BY <1>1, <1>2, <1>4, <1>5, <1>6, RoomsKept, QuietStep

LEMMA CheckStartPoints == ASSUME PointInv, NEW c \in Clients, CheckStart(c) PROVE PointInv'
<1> DEFINE t == At("creating", client[c].room, "idle")
<1>1. /\ thread[c].pc = "idle" /\ Goto(c, t) /\ UNCHANGED <<client, room, checker>>
  BY DEF CheckStart, Listening, Ready
<1>2. t.pc = "creating"
  BY DEF At
<1> HIDE DEF t
<1>3. RoomsInv /\ RoomsInv'
  BY CheckStartSound DEF PointInv
<1> QED
  BY <1>1, <1>2, <1>3, RoomsKept, HandlerOnly

LEMMA CreateGamePoints == ASSUME PointInv, NEW c \in Clients, CreateGame(c) PROVE PointInv'
<1>1. /\ thread[c].pc = "creating" /\ Goto(c, Idle) /\ UNCHANGED <<client, checker>>
      /\ \E g : room' = [room EXCEPT ![thread[c].room].game = g]
  BY DEF CreateGame, InStep
<1>2. RoomsInv /\ RoomsInv'
  BY CreateGameSound DEF PointInv
<1>3. PICK r \in RoomIds : r = thread[c].room
  BY <1>1, <1>2 DEF RoomsInv, ThreadSound, Holders
<1>4. PICK g : room' = [room EXCEPT ![r].game = g]
  BY <1>1, <1>3
<1>5. \A s \in RoomIds : Kept(s)
  BY <1>2, <1>4 DEF Kept, RoomsInv, Typed, Shape
<1> QED
  BY <1>1, <1>2, <1>5, IdleTyped, HandlerOnly

\* A handler in a room that has a game changes the game.
LEMMA GameOnly ==
    ASSUME PointInv, RoomsInv', NEW c \in Clients, NEW r, r \in RoomIds, NEW t,
           Goto(c, t), t.pc # "joining", UNCHANGED <<client, checker>>,
           thread[c].pc # "destroying",
           NEW g, room' = [room EXCEPT ![r].game = g]
    PROVE  PointInv'
<1>1. \A s \in RoomIds : Kept(s)
  BY DEF Kept, PointInv, RoomsInv, Typed, Shape
<1> QED
  BY <1>1, HandlerOnly

LEMMA MarkReadyPoints == ASSUME PointInv, NEW c \in Clients, MarkReady(c) PROVE PointInv'
<1> DEFINE r == client[c].room
           t == At("marked", r, "idle")
           g == PlayerReady(room[r].game, c)
<1>1. /\ thread[c].pc = "idle" /\ Goto(c, t) /\ r # NULL
      /\ UNCHANGED <<client, checker>>
      /\ room' = [room EXCEPT ![r].game = g]
  BY DEF MarkReady, Listening, Ready
<1>2. RoomsInv' /\ r \in RoomIds
  BY <1>1, MarkReadySound DEF PointInv, RoomsInv, Typed, ClientType
<1>3. t.pc = "marked"
  BY DEF At
<1> HIDE DEF t, r, g
<1> QED
  BY <1>1, <1>2, <1>3, GameOnly

LEMMA FlipOnePoints == ASSUME PointInv, NEW c \in Clients, FlipOne(c) PROVE PointInv'
<1> DEFINE r == client[c].room
           t == At("flipped", r, "idle")
<1>1. /\ thread[c].pc = "idle" /\ Goto(c, t) /\ r # NULL
      /\ UNCHANGED <<client, checker>>
      /\ \E g : room' = [room EXCEPT ![r].game = g]
  BY DEF FlipOne, Listening, Ready
<1>2. RoomsInv' /\ r \in RoomIds
  BY <1>1, FlipOneSound DEF PointInv, RoomsInv, Typed, ClientType
<1>3. t.pc = "flipped"
  BY DEF At
<1> HIDE DEF t, r
<1>4. PICK g : room' = [room EXCEPT ![r].game = g]
  BY <1>1
<1> QED
  BY <1>1, <1>2, <1>3, <1>4, GameOnly

LEMMA RemoveFromGamePoints ==
    ASSUME PointInv, NEW c \in Clients, RemoveFromGame(c) PROVE PointInv'
<1> DEFINE r == thread[c].room
           t == At("removed", r, "idle")
           g == RemovePlayer(room[r].game, c)
<1>1. /\ thread[c].pc = "removing" /\ Goto(c, t) /\ UNCHANGED <<client, checker>>
      /\ room' = [room EXCEPT ![r].game = g]
  BY DEF RemoveFromGame, InStep
<1>2. RoomsInv' /\ r \in RoomIds
  BY <1>1, RemoveFromGameSound DEF PointInv, RoomsInv, ThreadSound, Holders
<1>3. t.pc = "removed"
  BY DEF At
<1> HIDE DEF t, r, g
<1> QED
  BY <1>1, <1>2, <1>3, GameOnly

LEMMA LoseToGamePoints == ASSUME PointInv, NEW c \in Clients, LoseToGame(c) PROVE PointInv'
<1> DEFINE t == At("removing", client[c].room, "idle")
<1>1. /\ thread[c].pc = "idle" /\ Goto(c, t) /\ UNCHANGED <<client, room, checker>>
  BY DEF LoseToGame, Ready
<1>2. t.pc = "removing"
  BY DEF At
<1> HIDE DEF t
<1>3. RoomsInv /\ RoomsInv'
  BY LoseToGameSound DEF PointInv
<1> QED
  BY <1>1, <1>2, <1>3, RoomsKept, HandlerOnly

LEMMA FindSessionPoints ==
    ASSUME PointInv, NEW c \in Clients, NEW old \in Clients, FindSession(c, old)
    PROVE  PointInv'
<1> DEFINE t == [Pc("reconnecting") EXCEPT !.old = old]
<1>1. /\ thread[c].pc = "idle" /\ Goto(c, t) /\ UNCHANGED <<client, room, checker>>
  BY DEF FindSession, Listening, Ready
<1>2. t.pc = "reconnecting"
  BY DEF Pc, At
<1> HIDE DEF t
<1>3. RoomsInv /\ RoomsInv'
  BY FindSessionSound DEF PointInv
<1> QED
  BY <1>1, <1>2, <1>3, RoomsKept, HandlerOnly

LEMMA StartPlayPoints == ASSUME PointInv, NEW c \in Clients, StartPlay(c) PROVE PointInv'
<1> DEFINE g == Start(room[thread[c].room].game)
<1>1. RoomsInv /\ RoomsInv'
  BY StartPlaySound DEF PointInv
<1>2. thread[c].pc = "marked"
  BY DEF StartPlay, InStep
<1>3. PICK r \in RoomIds : r = thread[c].room
  BY <1>1, <1>2 DEF RoomsInv, ThreadSound, Holders
<1>4. /\ Goto(c, Idle) /\ checker' = checker
      /\ \/ UNCHANGED <<client, room>>
         \/ /\ room' = [room EXCEPT ![r].game = g, ![r].state = "PLAYING"]
            /\ client' = [d \in Clients |->
                             IF d \in FirstPlaces(r)
                             THEN [client[d] EXCEPT !.state = "IN_GAME"]
                             ELSE client[d]]
  BY <1>3 DEF StartPlay
<1> HIDE DEF g
<1>5. \A s \in RoomIds : Kept(s)
  BY <1>1, <1>4 DEF Kept, RoomsInv, Typed, Shape
<1>6. ASSUME NEW d \in Clients PROVE KeepsRoom(d)
  <2>1. CASE client'[d] = client[d]
    BY <2>1 DEF KeepsRoom
  <2>2. CASE client'[d] = [client[d] EXCEPT !.state = "IN_GAME"]
    <3>1. client[d] \in ClientType
      BY <1>1 DEF RoomsInv, Typed
    <3>2. client'[d].life = client[d].life /\ client'[d].room = client[d].room
      BY <2>2, <3>1 DEF ClientType
    <3> QED
      BY <3>2 DEF KeepsRoom
  <2> QED
    BY <1>4, <2>1, <2>2
<1> QED
  BY <1>1, <1>2, <1>4, <1>5, <1>6, IdleTyped, QuietHandler

LEMMA LoseAndKeepPoints == ASSUME PointInv, NEW c \in Clients, LoseAndKeep(c) PROVE PointInv'
<1>1. /\ thread[c].pc = "idle" /\ Goto(c, Pc("ended")) /\ UNCHANGED <<room, checker>>
      /\ client' = [client EXCEPT ![c].down = TRUE, ![c].open = FALSE]
  BY DEF LoseAndKeep, Ready
<1>2. RoomsInv /\ RoomsInv'
  BY LoseAndKeepSound DEF PointInv
<1>3. \A d \in Clients : KeepsRoom(d)
  BY <1>1, <1>2 DEF KeepsRoom, RoomsInv, Typed, ClientType
<1>4. Pc("ended").pc # "joining"
  BY PcTyped
<1> QED
  BY <1>1, <1>2, <1>3, <1>4, RoomsKept, QuietHandler

LEMMA FreeClientPoints == ASSUME PointInv, NEW c \in Clients, FreeClient(c) PROVE PointInv'
<1>1. /\ thread[c].pc = "freeing" /\ Goto(c, Pc("ended")) /\ UNCHANGED <<room, checker>>
      /\ client' = [client EXCEPT ![c].life = "freed", ![c].open = FALSE]
  BY DEF FreeClient, InStep
<1>2. RoomsInv /\ RoomsInv'
  BY FreeClientSound DEF PointInv
<1>3. \A d \in Clients : KeepsRoom(d)
  BY <1>1, <1>2 DEF KeepsRoom, RoomsInv, Typed, ClientType
<1>4. Pc("ended").pc # "joining"
  BY PcTyped
<1> QED
  BY <1>1, <1>2, <1>3, <1>4, RoomsKept, QuietHandler

LEMMA ShutDownPoints ==
    ASSUME PointInv, NEW c \in Clients, NEW mark \in BOOLEAN, ShutDown(c, mark)
    PROVE  PointInv'
<1> DEFINE x == [client[c] EXCEPT !.down = client[c].down \/ mark, !.open = FALSE]
<1>1. RoomsInv /\ RoomsInv'
  BY ShutDownSound DEF PointInv
<1>2. client' = [client EXCEPT ![c] = x] /\ UNCHANGED <<room, thread, checker>>
  BY <1>1 DEF ShutDown, RoomsInv, Typed
<1>3. x.life = client[c].life /\ x.room = client[c].room
  BY <1>1 DEF RoomsInv, Typed, ClientType
<1> HIDE DEF x
<1>4. \A d \in Clients : KeepsRoom(d)
  BY <1>1, <1>2, <1>3 DEF KeepsRoom, RoomsInv, Typed
<1>5. \A r \in Doomed : r \in Doomed'
  BY <1>2 DEF Doomed
<1> QED
  BY <1>1, <1>2, <1>4, <1>5, RoomsKept, QuietStep

LEMMA ExpireClientPoints == ASSUME PointInv, ExpireClient PROVE PointInv'
<1>1. RoomsInv /\ RoomsInv'
  BY ExpireClientSound DEF PointInv
<1>2. PICK c \in Clients : c = checker.client
  BY <1>1 DEF ExpireClient, RoomsInv, CheckerSound
<1>3. /\ checker.pc = "freeing" /\ UNCHANGED <<room, thread>>
      /\ client' = [client EXCEPT ![c].life = "freed"]
  BY <1>2 DEF ExpireClient
<1>4. \A d \in Clients : KeepsRoom(d)
  BY <1>1, <1>3 DEF KeepsRoom, RoomsInv, Typed, ClientType
<1>5. \A r \in Doomed : r \in Doomed'
  BY <1>3 DEF Doomed
<1> QED
  BY <1>1, <1>3, <1>4, <1>5, RoomsKept, QuietStep

\* A client that enters a room sits in no other live one.
LEMMA OthersEntered ==
    ASSUME PointInv, SeatedOnce', NEW c \in Clients, NEW r \in RoomIds,
           client'[c].room = r, \A d \in Clients \ {c} : client'[d] = client[d],
           room'[r].life = "live", c \in SeatedIn(r)',
           NEW s \in RoomIds, s # r, Kept(s), s \in Doomed => s \in Doomed'
    PROVE  Points(s)'
<1>1. Points(s) /\ SeatedIn(s)' = SeatedIn(s) /\ room'[s].life = room[s].life
  BY DEF PointInv, Kept, SeatedIn
<1>2. room'[s].life = "live" => c \notin SeatedIn(s)'
  BY DEF SeatedOnce, Alive
<1> QED
  BY <1>1, <1>2 DEF Points

LEMMA CreateRoomPoints ==
    ASSUME PointInv, SeatedOnce', NEW c \in Clients, NEW r \in RoomIds, CreateRoom(c, r)
    PROVE  PointInv'
<1> DEFINE ps == [EmptySeats EXCEPT ![0] = c]
<1>1. RoomsInv /\ RoomsInv'
  BY CreateRoomSound DEF PointInv
<1>2. /\ client' = [client EXCEPT ![c].room = r, ![c].state = "IN_ROOM"]
      /\ UNCHANGED <<thread, checker>>
  BY DEF CreateRoom
<1>3. Becomes(r, "live", ps, 1, c)
  BY <1>1, CreatedRoom DEF CreateRoom, RoomsInv
<1>4. client'[c].room = r /\ \A d \in Clients \ {c} : client'[d] = client[d]
  BY <1>1, <1>2 DEF RoomsInv, Typed, ClientType
<1>5. SeatedIn(r)' = {c}
  <2>1. \A i \in Slots : ps[i] = IF i = 0 THEN c ELSE NULL
    BY DEF EmptySeats
  <2>2. 0 \in Slots /\ c # NULL
    BY ClientsAssumption DEF Slots, MAX_PLAYERS_PER_ROOM
  <2> HIDE DEF ps
  <2>3. SeatedIn(r)' = {ps[i] : i \in Slots} \ {NULL}
    BY <1>3 DEF Becomes, SeatedIn
  <2> QED
    BY <2>1, <2>2, <2>3
<1> HIDE DEF ps
<1>6. Points(r)'
  BY <1>3, <1>4, <1>5 DEF Points, Becomes
<1>7. Doomed' = Doomed
  BY <1>2 DEF Doomed
<1>8. ASSUME NEW s \in RoomIds, s # r PROVE Points(s)' /\ Kept(s)
  BY <1>3, <1>4, <1>5, <1>7, <1>8, OthersEntered DEF Becomes
<1>9. \A s \in RoomIds : room'[s].life = "unborn" => room[s].life = "unborn"
  BY <1>3, <1>8 DEF Becomes, Kept
<1> QED
  BY <1>1, <1>2, <1>6, <1>8, <1>9, PointStep

LEMMA AddPlayerPoints ==
    ASSUME PointInv, SeatedOnce', NEW c \in Clients, AddPlayer(c), ~Stale(c)
    PROVE  PointInv'
<1>1. RoomsInv /\ RoomsInv'
  BY AddPlayerSound DEF PointInv
<1>2. PICK r \in RoomIds : r = thread[c].room
  BY <1>1 DEF AddPlayer, InStep, RoomsInv, ThreadSound, Holders
<1> DEFINE free == {j \in Slots : room[r].players[j] = NULL}
           i == FirstOf(free)
           ps == [room[r].players EXCEPT ![i] = c]
           n == room[r].count + 1
<1>3. /\ thread[c].pc = "joining" /\ Goto(c, Idle) /\ checker' = checker
      /\ \/ UNCHANGED <<client, room>>
         \/ /\ free # {}
            /\ room' = [room EXCEPT ![r].players[i] = c, ![r].count = @ + 1]
            /\ client' = [client EXCEPT ![c].room = r, ![c].state = "IN_ROOM"]
  BY <1>2 DEF AddPlayer, InStep
<1>4. CASE UNCHANGED <<client, room>>
  BY <1>1, <1>3, <1>4, RoomsKept, IdleTyped, HandlerOnly
<1>5. CASE /\ free # {}
           /\ room' = [room EXCEPT ![r].players[i] = c, ![r].count = @ + 1]
           /\ client' = [client EXCEPT ![c].room = r, ![c].state = "IN_ROOM"]
  <2>1. i \in Slots
    <3>1. free \subseteq Slots
      OBVIOUS
    <3> QED
      BY <1>5, <3>1, FirstSeat
  <2> HIDE DEF i, free
  <2>2. Becomes(r, room[r].life, ps, n, room[r].owner)
    BY <1>1, <1>5, <2>1, JoinedRoom DEF RoomsInv
  <2>3. client'[c].room = r /\ \A d \in Clients \ {c} : client'[d] = client[d]
    BY <1>1, <1>5 DEF RoomsInv, Typed, ClientType
  <2>4. SeatedIn(r)' \subseteq SeatedIn(r) \cup {c} /\ c \in SeatedIn(r)'
    <3>1. /\ \A j \in Slots : ps[j] = IF j = i THEN c ELSE room[r].players[j]
          /\ c # NULL
      BY <1>1, Counted, ClientsAssumption DEF Filled
    <3> HIDE DEF ps
    <3>2. SeatedIn(r)' = {ps[j] : j \in Slots} \ {NULL}
      BY <2>2 DEF Becomes, SeatedIn
    <3> QED
      BY <2>1, <3>1, <3>2 DEF SeatedIn
  <2> HIDE DEF ps, n
  <2>5. room[r].life = "live"
    <3>1. room[r].life \in Lives
      BY <1>1 DEF RoomsInv, Typed, Shape
    <3>2. room[r].life # "unborn"
      BY <1>2, <1>3 DEF PointInv, Joinable
    <3>3. room[r].life # "freed"
      BY <1>2, <1>3, RoomsAssumption DEF Stale, InUse, StaleRoom
    <3> QED
      BY <3>1, <3>2, <3>3 DEF Lives
  <2>6. \A s \in Doomed : s \in Doomed'
    BY <1>1, <1>3, StillDoomed
  <2>7. Points(r)'
    <3>1. Points(r)
      BY DEF PointInv
    <3> QED
      BY <2>2, <2>3, <2>4, <2>5, <2>6, <3>1 DEF Points, Becomes
  <2>8. ASSUME NEW s \in RoomIds, s # r PROVE Points(s)' /\ Kept(s)
    BY <2>2, <2>3, <2>4, <2>5, <2>6, <2>8, OthersEntered DEF Becomes
  <2>9. \A s \in RoomIds : room'[s].life = "unborn" => room[s].life = "unborn"
    BY <2>2, <2>8 DEF Becomes, Kept
  <2>10. \A d \in Clients : thread'[d] = thread[d] \/ Joinable(d)'
    BY <1>1, <1>3, IdleTyped, ThreadMoved
  <2> QED
    BY <1>1, <2>7, <2>8, <2>9, <2>10, PointStep
<1> QED
  BY <1>3, <1>4, <1>5

\* A step that sends clients of room r to the lobby.
LEMMA LobbyStep ==
    ASSUME PointInv, RoomsInv', SeatedOnce, NEW r \in RoomIds, room[r].life # "freed",
           NEW S, S \subseteq SeatedIn(r), client' = ToLobby(S),
           Points(r)', room'[r].life \in {room[r].life, "freed"},
           \A s \in RoomIds \ {r} : Kept(s),
           \A s \in Doomed : s \in Doomed' \/ s = r,
           \A d \in Clients : thread'[d] = thread[d] \/ Joinable(d)'
    PROVE  PointInv'
<1>1. ASSUME NEW s \in RoomIds PROVE Points(s)'
  BY OthersPointed
<1>2. \A s \in RoomIds : room'[s].life = "unborn" => room[s].life = "unborn"
  BY DEF Kept
<1> QED
  BY <1>1, <1>2, PointStep

LEMMA SettleTurnPoints ==
    ASSUME PointInv, SeatedOnce, NEW c \in Clients, SettleTurn(c), ~Stale(c)
    PROVE  PointInv'
<1>1. RoomsInv /\ RoomsInv'
  BY SettleTurnSound DEF PointInv
<1>2. PICK r \in RoomIds : r = thread[c].room
  BY <1>1 DEF SettleTurn, InStep, RoomsInv, ThreadSound, Holders
<1> DEFINE g == CheckMatch(room[r].game)
           t == At("destroying", r, "idle")
<1>3. /\ thread[c].pc = "flipped" /\ checker' = checker
      /\ \/ room' = [room EXCEPT ![r].game = g] /\ Goto(c, Idle) /\ client' = client
         \/ /\ room' = [room EXCEPT ![r].game = NULL, ![r].state = "FINISHED"]
            /\ client' = ToLobby(FirstPlaces(r))
            /\ Goto(c, t)
  BY <1>2 DEF SettleTurn, InStep
<1>4. t.pc = "destroying" /\ t.room = r
  BY DEF At
<1> HIDE DEF g, t
<1>5. CASE room' = [room EXCEPT ![r].game = g] /\ Goto(c, Idle) /\ client' = client
  BY <1>1, <1>3, <1>5, IdleTyped, GameOnly
<1>6. CASE /\ room' = [room EXCEPT ![r].game = NULL, ![r].state = "FINISHED"]
           /\ client' = ToLobby(FirstPlaces(r))
           /\ Goto(c, t)
  <2>1. room[r].life # "freed"
    BY <1>2, <1>3, RoomsAssumption DEF Stale, InUse, StaleRoom
  <2>2. FirstPlaces(r) \subseteq SeatedIn(r)
    BY <1>1, FirstPlacesSeated
  <2>3. \A s \in RoomIds : Kept(s)
    BY <1>1, <1>6 DEF Kept, RoomsInv, Typed, Shape
  <2>4. r \in Doomed' /\ \A s \in Doomed : s \in Doomed'
    BY <1>1, <1>3, <1>4, <1>6, StillDoomed
  <2>5. Points(r)'
    <3>1. Points(r) /\ SeatedIn(r)' = SeatedIn(r) /\ room'[r].life = room[r].life
      BY <2>3 DEF PointInv, Kept, SeatedIn
    <3> QED
      BY <2>1, <2>4, <3>1 DEF Points
  <2>6. \A d \in Clients : thread'[d] = thread[d] \/ Joinable(d)'
    BY <1>1, <1>4, <1>6, ThreadMoved
  <2>7. room'[r].life \in {room[r].life, "freed"}
    BY <2>3 DEF Kept
  <2> QED
    BY <1>1, <1>6, <2>1, <2>2, <2>3, <2>4, <2>5, <2>6, <2>7, LobbyStep
<1> QED
  BY <1>3, <1>5, <1>6

\* An emptied room has nobody to point to it.
LEMMA EmptiedPoints ==
    ASSUME RoomsInv, NEW r \in RoomIds, room' = Emptied(r)
    PROVE  Points(r)' /\ room'[r].life = room[r].life /\ \A s \in RoomIds \ {r} : Kept(s)
<1>1. Becomes(r, room[r].life, EmptySeats, 0, room[r].owner)
  BY EmptiedRoom DEF RoomsInv
<1>2. SeatedIn(r)' = {}
  BY <1>1 DEF Becomes, SeatedIn, EmptySeats
<1> QED
  BY <1>1, <1>2 DEF Becomes, Points

\* Those who stay in a room that one client has left.
LEMMA LeftPoints ==
    ASSUME PointInv, NEW r \in RoomIds, NEW c \in Clients, ~NotFound(r, c),
           room[r].life # "freed",
           room' = [room EXCEPT ![r].players = Without(r, c), ![r].count = @ - 1,
                                ![r].owner = OwnerWithout(r, c)],
           Orphans(r, c) \/ client' = ToLobby({c}),
           Orphans(r, c) => r \in Doomed',
           r \in Doomed => r \in Doomed'
    PROVE  Points(r)' /\ room'[r].life = room[r].life /\ \A s \in RoomIds \ {r} : Kept(s)
<1> DEFINE ps == Without(r, c)
           n == room[r].count - 1
           o == OwnerWithout(r, c)
<1>1. RoomsInv /\ Points(r)
  BY DEF PointInv
<1>2. ps \in Filled /\ room[r].count > 0
  BY <1>1, WithoutSeats DEF Thinned
<1>3. o \in Clients \cup {NULL}
  BY <1>1, NewOwner
<1>4. c # NULL /\ \A i \in Slots : ps[i] \in {NULL, room[r].players[i]} /\ ps[i] # c
  BY ClientsAssumption DEF Without
<1> HIDE DEF ps, o
<1>5. room' = [room EXCEPT ![r].players = ps, ![r].count = @ - 1, ![r].owner = o]
  BY DEF ps, o
<1>6. Becomes(r, room[r].life, ps, n, o)
  BY <1>1, <1>2, <1>3, <1>5, LeftRoom DEF RoomsInv
<1> HIDE DEF n
<1>7. SeatedIn(r)' \subseteq SeatedIn(r) \ {c}
  <2>1. SeatedIn(r)' = {ps[i] : i \in Slots} \ {NULL}
    BY <1>6 DEF Becomes, SeatedIn
  <2> QED
    BY <1>4, <2>1 DEF SeatedIn
<1>8. Points(r)'
  <2>1. CASE Orphans(r, c)
    BY <1>1, <1>6, <1>7, <2>1 DEF Points, Becomes
  <2>2. CASE client' = ToLobby({c})
    <3>1. PICK S : S = {c}
      OBVIOUS
    <3>2. client' = ToLobby(S) /\ \A d \in Clients : d # c => d \notin S
      BY <2>2, <3>1
    <3>3. \A d \in Clients : d # c =>
              client'[d].life = client[d].life /\ client'[d].room = client[d].room
      BY <1>1, <3>2, LobbyRooms
    <3> QED
      BY <1>1, <1>6, <1>7, <3>3 DEF Points, Becomes
  <2> QED
    BY <2>1, <2>2
<1> QED
  BY <1>6, <1>8 DEF Becomes

LEMMA RemoveFromPoints ==
    ASSUME PointInv, RoomsInv', SeatedOnce, NEW r \in RoomIds, NEW c \in Clients,
           NEW next \in {"idle", "freeing", "ended"}, RemoveFrom(r, c, next),
           room[r].life # "freed", checker' = checker, thread[c].pc # "destroying"
    PROVE  PointInv'
<1> DEFINE out == At("destroying", r, next)
<1>1. RoomsInv
  BY DEF PointInv
<1>2. Pc(next).pc # "joining" /\ out.pc = "destroying" /\ out.room = r
  BY PcTyped DEF At
<1> HIDE DEF out
<1>3. CASE NotFound(r, c) /\ Goto(c, Pc(next)) /\ UNCHANGED <<client, room>>
  BY <1>1, <1>2, <1>3, RoomsKept, HandlerOnly
<1>4. CASE /\ room' = Emptied(r) /\ client' = ToLobby(SeatedIn(r)) /\ Goto(c, out)
  <2>1. Points(r)' /\ room'[r].life = room[r].life /\ \A s \in RoomIds \ {r} : Kept(s)
    BY <1>1, <1>4, EmptiedPoints
  <2>2. \A s \in Doomed : s \in Doomed'
    BY <1>1, <1>4, StillDoomed
  <2>3. \A d \in Clients : thread'[d] = thread[d] \/ Joinable(d)'
    BY <1>1, <1>2, <1>4, ThreadMoved
  <2>4. SeatedIn(r) \subseteq SeatedIn(r)
    OBVIOUS
  <2> QED
    BY <1>4, <2>1, <2>2, <2>3, <2>4, LobbyStep
<1>5. CASE /\ ~NotFound(r, c)
           /\ room' = [room EXCEPT ![r].players = Without(r, c), ![r].count = @ - 1,
                                   ![r].owner = OwnerWithout(r, c)]
           /\ client' = ToLobby(IF Orphans(r, c) THEN SeatedIn(r) ELSE {c})
           /\ Goto(c, IF Closes(r, c) THEN out ELSE Pc(next))
  <2>1. PICK t : Goto(c, t) /\ t = IF Closes(r, c) THEN out ELSE Pc(next)
    BY <1>5
  <2>2. PICK S : S = IF Orphans(r, c) THEN SeatedIn(r) ELSE {c}
    OBVIOUS
  <2>3. client' = ToLobby(S) /\ S \subseteq SeatedIn(r)
    BY <1>5, <2>2 DEF NotFound
  <2>4. \A s \in Doomed : s \in Doomed'
    BY <1>1, <2>1, StillDoomed
  <2>5. Orphans(r, c) => r \in Doomed'
    BY <1>1, <1>2, <2>1, StillDoomed DEF Closes
  <2>6. Orphans(r, c) \/ client' = ToLobby({c})
    BY <2>2, <2>3
  <2>7. Points(r)' /\ room'[r].life = room[r].life /\ \A s \in RoomIds \ {r} : Kept(s)
    BY <1>5, <2>4, <2>5, <2>6, LeftPoints
  <2>8. \A d \in Clients : thread'[d] = thread[d] \/ Joinable(d)'
    BY <1>1, <1>2, <2>1, ThreadMoved
  <2> QED
    BY <2>3, <2>4, <2>7, <2>8, LobbyStep
<1> QED
  BY <1>3, <1>4, <1>5 DEF RemoveFrom, out

LEMMA LeaveRoomPoints ==
    ASSUME PointInv, SeatedOnce, NEW c \in Clients, LeaveRoom(c), ~Stale(c)
    PROVE  PointInv'
<1>1. /\ thread[c].pc = "idle" /\ client[c].room # NULL
      /\ RemoveFrom(client[c].room, c, "idle") /\ checker' = checker
  BY DEF LeaveRoom, Listening, Ready
<1>2. RoomsInv /\ RoomsInv'
  BY LeaveRoomSound DEF PointInv
<1>3. PICK r \in RoomIds : r = client[c].room
  BY <1>1, <1>2 DEF RoomsInv, Typed, ClientType
<1>4. RemoveFrom(r, c, "idle")
  BY <1>1, <1>3
<1>5. room[r].life # "freed"
  BY <1>1, <1>3 DEF Stale, InUse, StaleRoom
<1> QED
  BY <1>1, <1>2, <1>4, <1>5, RemoveFromPoints

LEMMA RemoveFromRoomPoints ==
    ASSUME PointInv, SeatedOnce, NEW c \in Clients, RemoveFromRoom(c), ~Stale(c)
    PROVE  PointInv'
<1>1. /\ thread[c].pc = "removed" /\ checker' = checker
      /\ RemoveFrom(thread[c].room, c, "freeing")
  BY DEF RemoveFromRoom, InStep
<1>2. RoomsInv /\ RoomsInv'
  BY RemoveFromRoomSound DEF PointInv
<1>3. PICK r \in RoomIds : r = thread[c].room
  BY <1>1, <1>2 DEF RoomsInv, ThreadSound, Holders
<1>4. RemoveFrom(r, c, "freeing")
  BY <1>1, <1>3
<1>5. room[r].life # "freed"
  BY <1>1, <1>3, RoomsAssumption DEF Stale, InUse, StaleRoom
<1> QED
  BY <1>1, <1>2, <1>4, <1>5, RemoveFromPoints

LEMMA LoseOutsidePoints ==
    ASSUME PointInv, SeatedOnce, NEW c \in Clients, LoseOutside(c), ~Stale(c)
    PROVE  PointInv'
<1>1. /\ thread[c].pc = "idle" /\ checker' = checker
      /\ \/ /\ client[c].room # NULL
            /\ RemoveFrom(client[c].room, c, AfterLoss(c))
         \/ Goto(c, Pc(AfterLoss(c))) /\ UNCHANGED <<client, room>>
  BY DEF LoseOutside, Ready
<1>2. RoomsInv /\ RoomsInv'
  BY LoseOutsideSound DEF PointInv
<1>3. PICK next \in {"idle", "freeing", "ended"} : next = AfterLoss(c)
  BY DEF AfterLoss
<1>4. CASE client[c].room # NULL /\ RemoveFrom(client[c].room, c, AfterLoss(c))
  <2>1. PICK r \in RoomIds : r = client[c].room
    BY <1>2, <1>4 DEF RoomsInv, Typed, ClientType
  <2>2. RemoveFrom(r, c, next)
    BY <1>3, <1>4, <2>1
  <2>3. room[r].life # "freed"
    BY <1>1, <1>4, <2>1 DEF Stale, InUse, StaleRoom
  <2> QED
    BY <1>1, <1>2, <2>2, <2>3, RemoveFromPoints
<1>5. CASE Goto(c, Pc(AfterLoss(c))) /\ UNCHANGED <<client, room>>
  <2>1. Goto(c, Pc(next)) /\ Pc(next).pc # "joining"
    BY <1>3, <1>5, PcTyped
  <2> QED
    BY <1>1, <1>2, <1>5, <2>1, RoomsKept, HandlerOnly
<1> QED
  BY <1>1, <1>4, <1>5

\* A destroyed room has cleared the pointers of those it seats.
LEMMA FreedPoints ==
    ASSUME RoomsInv, NEW r \in RoomIds, Destroyed(r)
    PROVE  /\ Points(r)' /\ room'[r].life = "freed" /\ \A s \in RoomIds \ {r} : Kept(s)
           /\ client' = ToLobby(SeatedIn(r))
<1>1. Becomes(r, "freed", room[r].players, room[r].count, room[r].owner)
  BY FreedRoom DEF Destroyed, RoomsInv
<1>2. SeatedIn(r)' = SeatedIn(r)
  BY <1>1 DEF Becomes, SeatedIn
<1>3. client' = ToLobby(SeatedIn(r))
  BY DEF Destroyed
<1>4. \A d \in Clients : d \in SeatedIn(r) => client'[d].room # r
  BY <1>3, LobbyRooms, RoomsAssumption
<1> QED
  BY <1>1, <1>2, <1>3, <1>4 DEF Becomes, Points

LEMMA DestroyRoomPoints ==
    ASSUME PointInv, SeatedOnce, NEW c \in Clients, DestroyRoom(c), ~Stale(c)
    PROVE  PointInv'
<1>1. RoomsInv /\ RoomsInv'
  BY DestroyRoomSound DEF PointInv
<1>2. PICK r \in RoomIds : r = thread[c].room
  BY <1>1 DEF DestroyRoom, InStep, RoomsInv, ThreadSound, Holders
<1> DEFINE t == Pc(thread[c].next)
<1>3. thread[c].pc = "destroying" /\ Destroyed(r) /\ Goto(c, t) /\ checker' = checker
  BY <1>2 DEF DestroyRoom, InStep
<1>4. t.pc # "joining"
  <2>1. thread[c].next \in {"idle", "freeing", "ended"}
    BY <1>1 DEF RoomsInv, Typed, ThreadType
  <2> QED
    BY <2>1, PcTyped
<1> HIDE DEF t
<1>5. room[r].life # "freed"
  BY <1>2, <1>3, RoomsAssumption DEF Stale, InUse, StaleRoom
<1>6. /\ Points(r)' /\ room'[r].life = "freed" /\ \A s \in RoomIds \ {r} : Kept(s)
      /\ client' = ToLobby(SeatedIn(r))
  BY <1>1, <1>3, FreedPoints
<1>7. \A s \in Doomed : s \in Doomed' \/ s = r
  BY <1>1, <1>2, <1>3, DoomedAfter DEF Goto, RoomsInv, Typed
<1>8. \A d \in Clients : thread'[d] = thread[d] \/ Joinable(d)'
  BY <1>1, <1>3, <1>4, ThreadMoved
<1>9. SeatedIn(r) \subseteq SeatedIn(r)
  OBVIOUS
<1> QED
  BY <1>1, <1>5, <1>6, <1>7, <1>8, <1>9, LobbyStep

LEMMA ExpireRoomPoints ==
    ASSUME PointInv, SeatedOnce, ExpireRoom, ~StaleRoom(checker.room) PROVE PointInv'
<1>1. RoomsInv /\ RoomsInv'
  BY ExpireRoomSound DEF PointInv
<1>2. PICK r \in RoomIds : r = checker.room
  BY <1>1 DEF ExpireRoom, RoomsInv, CheckerSound
<1>3. /\ checker.pc = "destroying" /\ Destroyed(r) /\ thread' = thread
      /\ room[r].life # "freed"
  BY <1>2 DEF ExpireRoom, StaleRoom
<1>4. /\ Points(r)' /\ room'[r].life = "freed" /\ \A s \in RoomIds \ {r} : Kept(s)
      /\ client' = ToLobby(SeatedIn(r))
  BY <1>1, <1>3, FreedPoints
<1>5. \A s \in Doomed : s \in Doomed' \/ s = r
  BY <1>2, <1>3 DEF Doomed
<1>6. SeatedIn(r) \subseteq SeatedIn(r)
  OBVIOUS
<1> QED
  BY <1>1, <1>3, <1>4, <1>5, <1>6, LobbyStep

LEMMA ExpirePoints ==
    ASSUME PointInv, SeatedOnce, NEW c \in Clients, Expire(c), ~ExpiryStale(c)
    PROVE  PointInv'
<1>1. RoomsInv /\ RoomsInv'
  BY ExpireSound DEF PointInv
<1>2. /\ checker.pc = "idle" /\ thread' = thread
      /\ \/ /\ client[c].room # NULL
            /\ client' = ToLobby(SeatedIn(client[c].room))
            /\ room' = Emptied(client[c].room)
         \/ UNCHANGED <<client, room>>
  BY DEF Expire, Expired
<1>3. \A s \in Doomed : s \in Doomed'
  BY <1>2 DEF Doomed
<1>4. CASE UNCHANGED <<client, room>>
  <2>1. \A d \in Clients : KeepsRoom(d)
    BY <1>4 DEF KeepsRoom
  <2> QED
    BY <1>1, <1>2, <1>3, <1>4, <2>1, RoomsKept, QuietStep
<1>5. CASE /\ client[c].room # NULL
           /\ client' = ToLobby(SeatedIn(client[c].room))
           /\ room' = Emptied(client[c].room)
  <2>1. PICK r \in RoomIds : r = client[c].room
    BY <1>1, <1>5 DEF RoomsInv, Typed, ClientType
  <2>2. /\ client' = ToLobby(SeatedIn(r)) /\ room' = Emptied(r)
        /\ room[r].life # "freed"
    BY <1>5, <2>1 DEF ExpiryStale
  <2>3. Points(r)' /\ room'[r].life = room[r].life /\ \A s \in RoomIds \ {r} : Kept(s)
    BY <1>1, <2>2, EmptiedPoints
  <2>4. SeatedIn(r) \subseteq SeatedIn(r)
    OBVIOUS
  <2> QED
    BY <1>1, <1>2, <1>3, <2>2, <2>3, <2>4, LobbyStep
<1> QED
  BY <1>2, <1>4, <1>5

\* The client that reconnects points to the room it has got its place in.
LEMMA TakeOverPoints ==
    ASSUME PointInv, NEW c \in Clients, TakeOver(c), ~Stale(c) PROVE PointInv'
<1>1. RoomsInv /\ RoomsInv'
  BY TakeOverSound DEF PointInv
<1>2. thread[c].pc = "reconnecting" /\ Goto(c, Idle) /\ checker' = checker
  BY Zenon DEF TakeOver, InStep
<1>3. PICK old \in Clients : old = thread[c].old
  BY <1>1, <1>2 DEF RoomsInv, ThreadSound
<1>4. /\ client[c].state = "CONNECTED" /\ client[old].state # "CONNECTED" /\ c # old
      /\ client[old].life = "live"
  <2>1. client[c].state = "CONNECTED" /\ client[old].state # "CONNECTED"
    BY <1>1, <1>2, <1>3 DEF RoomsInv, ThreadSound
  <2>2. client[old].life # "unborn" /\ client[old].life \in Lives
    BY <1>1, <2>1 DEF RoomsInv, ThreadSound, Typed, ClientType
  <2>3. client[old].life # "freed"
    BY <1>2, <1>3, ClientsAssumption DEF Stale
  <2> QED
    BY <2>1, <2>2, <2>3 DEF Lives
<1>5. PICK r, st : r = client[old].room /\ st = client[old].state
  OBVIOUS
<1>6. /\ client' = [client EXCEPT ![c].state = st, ![c].room = r,
                                  ![old].life = "freed", ![old].open = FALSE]
      /\ \/ r = NULL /\ room' = room
         \/ /\ r # NULL
            /\ room' = [room EXCEPT
                   ![r].players = Swap(@, room[r].count, old, c),
                   ![r].game = SwapInGame(@, old, c)]
  BY <1>3, <1>5, ZenonT(60) DEF TakeOver
<1>7. /\ client'[c].room = r /\ client'[old].life = "freed"
      /\ \A d \in Clients \ {c, old} : client'[d] = client[d]
  BY <1>1, <1>4, <1>6 DEF RoomsInv, Typed, ClientType
<1>8. \A d \in Clients : KeepsRoom(d)
  BY <1>4, <1>7 DEF KeepsRoom
<1>9. CASE room' = room
  BY <1>1, <1>2, <1>8, <1>9, IdleTyped, RoomsKept, QuietHandler
<1>10. CASE /\ r # NULL
            /\ room' = [room EXCEPT
                   ![r].players = Swap(@, room[r].count, old, c),
                   ![r].game = SwapInGame(@, old, c)]
  <2>1. r \in RoomIds
    BY <1>1, <1>5, <1>10 DEF RoomsInv, Typed, ClientType
  <2> DEFINE ps == Swap(room[r].players, room[r].count, old, c)
             g == SwapInGame(room[r].game, old, c)
  <2>2. room' = [room EXCEPT ![r].players = ps, ![r].game = g]
    BY <1>1, <1>10, <2>1 DEF RoomsInv, Typed, Shape
  <2>3. \A d \in SeatedIn(r) : d # c
    BY <1>1, <1>4, <2>1, SeatedClients
  <2>4. \A i \in Slots : room[r].players[i] # c
    BY <2>3, ClientsAssumption DEF SeatedIn
  <2>5. Swapped(ps, r, c, old)
    BY <1>1, <2>1, <2>4, SwapSeats
  <2>6. /\ ps \in Filled
        /\ \A i \in Slots : ps[i] \in {c, room[r].players[i]}
        /\ \A i \in Slots : room[r].players[i] # old => ps[i] = room[r].players[i]
    BY <2>5 DEF Swapped
  <2> HIDE DEF ps, g
  <2>7. Becomes(r, room[r].life, ps, room[r].count, room[r].owner)
    BY <1>1, <2>1, <2>2, <2>6, SwappedRoom DEF RoomsInv
  <2>8. SeatedIn(r)' = {ps[i] : i \in Slots} \ {NULL}
    BY <2>7 DEF Becomes, SeatedIn
  <2>9. /\ SeatedIn(r)' \subseteq SeatedIn(r) \cup {c}
        /\ old \notin SeatedIn(r) => SeatedIn(r)' = SeatedIn(r)
    <3>1. SeatedIn(r)' \subseteq SeatedIn(r) \cup {c}
      BY <2>6, <2>8 DEF SeatedIn
    <3>2. ASSUME old \notin SeatedIn(r) PROVE SeatedIn(r)' = SeatedIn(r)
      <4>1. \A i \in Slots : room[r].players[i] # old
        BY <3>2, ClientsAssumption DEF SeatedIn
      <4>2. \A i \in Slots : ps[i] = room[r].players[i]
        BY <2>6, <4>1
      <4> QED
        BY <2>8, <4>2 DEF SeatedIn
    <3> QED
      BY <3>1, <3>2
  <2>10. \A s \in Doomed : s \in Doomed'
    BY <1>1, <1>2, StillDoomed
  <2>11. Points(r)'
    <3>1. Points(r) /\ room'[r].life = room[r].life
      BY <2>1, <2>7 DEF PointInv, Becomes
    <3>2. room[r].life # "live" => old \notin SeatedIn(r)
      <4>1. room[r].life \in Lives
        BY <1>1, <2>1 DEF RoomsInv, Typed, Shape
      <4> QED
        BY <1>4, <1>5, <3>1, <4>1 DEF Points, Lives
    <3>3. \A d \in Clients : d \in SeatedIn(r) /\ client'[d].life = "live" =>
              client[d].life = "live" /\ client'[d].room = client[d].room
      BY <1>7, <2>3
    <3> QED
      BY <1>7, <2>9, <2>10, <3>1, <3>2, <3>3 DEF Points
  <2>12. ASSUME NEW s \in RoomIds, s # r PROVE Points(s)' /\ Kept(s)
    <3>1. Points(s) /\ Kept(s)
      BY <2>7, <2>12 DEF PointInv, Becomes
    <3>2. \A d \in Clients : d \in SeatedIn(s) => client[d].state # "CONNECTED"
      BY <1>1, SeatedClients
    <3> QED
      BY <1>8, <2>10, <3>1, <3>2, StillPointed DEF KeepsRoom
  <2>13. \A s \in RoomIds : room'[s].life = "unborn" => room[s].life = "unborn"
    BY <2>7, <2>12 DEF Becomes, Kept
  <2>14. \A d \in Clients : thread'[d] = thread[d] \/ Joinable(d)'
    BY <1>1, <1>2, IdleTyped, ThreadMoved
  <2> QED
    BY <1>1, <2>11, <2>12, <2>13, <2>14, PointStep
<1> QED
  BY <1>6, <1>9, <1>10

LEMMA InitPoints == Init => PointInv
<1> SUFFICES ASSUME Init PROVE PointInv
  OBVIOUS
<1>1. RoomsInv
  BY InitSound
<1>2. ASSUME NEW r \in RoomIds PROVE Points(r)
  <2>1. room[r].life = "unborn" /\ SeatedIn(r) = {}
    BY DEF Init, EmptySeats, SeatedIn
  <2> QED
    BY <2>1 DEF Points
<1>3. \A c \in Clients : Joinable(c)
  BY PcTyped DEF Init, Joinable
<1> QED
  BY <1>1, <1>2, <1>3 DEF PointInv

LEMMA RequestPoints ==
    ASSUME PointInv, SeatedOnce, SeatedOnce', NEW c \in Clients, Request(c)
    PROVE  PointInv'
<1>1. ~Stale(c)
  BY DEF Request
<1>2. CASE Connect(c)
  BY <1>2, ConnectPoints
<1>3. CASE Enter(c)
  <2>1. CASE Hello(c)
    BY <2>1, HelloPoints
  <2>2. CASE \E r \in RoomIds : CreateRoom(c, r)
    BY <2>2, CreateRoomPoints
  <2>3. CASE \E r \in RoomIds : FindRoom(c, r)
    BY <2>3, FindRoomPoints
  <2> QED
    BY <1>3, <2>1, <2>2, <2>3 DEF Enter
<1>4. CASE Play(c)
  <2>1. CASE LeaveRoom(c)
    BY <1>1, <2>1, LeaveRoomPoints
  <2>2. CASE CheckStart(c)
    BY <2>2, CheckStartPoints
  <2>3. CASE MarkReady(c)
    BY <2>3, MarkReadyPoints
  <2>4. CASE FlipOne(c)
    BY <2>4, FlipOnePoints
  <2> QED
    BY <1>4, <2>1, <2>2, <2>3, <2>4 DEF Play
<1>5. CASE Lose(c)
  BY <1>1, <1>5, LoseToGamePoints, LoseAndKeepPoints, LoseOutsidePoints DEF Lose
<1>6. CASE Return(c)
  BY <1>6, FindSessionPoints DEF Return
<1> QED
  BY <1>2, <1>3, <1>4, <1>5, <1>6 DEF Request

LEMMA ContinuePoints ==
    ASSUME PointInv, SeatedOnce, SeatedOnce', NEW c \in Clients, Continue(c)
    PROVE  PointInv'
<1>1. ~Stale(c)
  BY DEF Continue
<1>2. CASE AddPlayer(c)
  BY <1>1, <1>2, AddPlayerPoints
<1>3. CASE CreateGame(c)
  BY <1>3, CreateGamePoints
<1>4. CASE StartPlay(c)
  BY <1>4, StartPlayPoints
<1>5. CASE SettleTurn(c)
  BY <1>1, <1>5, SettleTurnPoints
<1>6. CASE RemoveFromGame(c)
  BY <1>6, RemoveFromGamePoints
<1>7. CASE RemoveFromRoom(c)
  BY <1>1, <1>7, RemoveFromRoomPoints
<1>8. CASE DestroyRoom(c)
  BY <1>1, <1>8, DestroyRoomPoints
<1>9. CASE FreeClient(c)
  BY <1>9, FreeClientPoints
<1>10. CASE TakeOver(c)
  BY <1>1, <1>10, TakeOverPoints
<1> QED
  BY <1>2, <1>3, <1>4, <1>5, <1>6, <1>7, <1>8, <1>9, <1>10 DEF Continue

LEMMA CheckPoints == ASSUME PointInv, SeatedOnce, Check PROVE PointInv'
<1>1. ASSUME NEW c \in Clients, PongTimeout(c) PROVE PointInv'
  BY <1>1, ShutDownPoints DEF PongTimeout
<1>2. ASSUME NEW c \in Clients, InactivityTimeout(c) PROVE PointInv'
  BY <1>2, ShutDownPoints DEF InactivityTimeout
<1>3. ASSUME NEW c \in Clients, ~ExpiryStale(c), Expire(c) PROVE PointInv'
  BY <1>3, ExpirePoints
<1>4. ASSUME ExpireRoom, ~StaleRoom(checker.room) PROVE PointInv'
  BY <1>4, ExpireRoomPoints
<1> QED
  BY <1>1, <1>2, <1>3, <1>4, ExpireClientPoints DEF Check, Expiring

LEMMA UnchangedPoints ==
    ASSUME PointInv, UNCHANGED <<client, room, thread, checker>> PROVE PointInv'
<1>1. RoomsInv /\ RoomsInv'
  BY UnchangedSound DEF PointInv
<1>2. Doomed' = Doomed
  BY DEF Doomed
<1>3. \A d \in Clients : KeepsRoom(d)
  BY DEF KeepsRoom
<1> QED
  BY <1>1, <1>2, <1>3, RoomsKept, QuietStep

LEMMA NextPoints == PointInv /\ SeatedOnce /\ SeatedOnce' /\ [Next]_vars => PointInv'
<1> SUFFICES ASSUME PointInv, SeatedOnce, SeatedOnce', [Next]_vars PROVE PointInv'
  OBVIOUS
<1>1. CASE \E c \in Clients : Request(c)
  BY <1>1, RequestPoints
<1>2. CASE \E c \in Clients : Continue(c)
  BY <1>2, ContinuePoints
<1>3. CASE \E c \in Clients : Touch(c)
  BY <1>3, UnchangedPoints DEF Touch
<1>4. CASE Check
  BY <1>4, CheckPoints
<1>5. CASE TouchInCheck
  BY <1>5, UnchangedPoints DEF TouchInCheck
<1>6. CASE UNCHANGED vars
  BY <1>6, UnchangedPoints DEF vars
<1> QED
  BY <1>1, <1>2, <1>3, <1>4, <1>5, <1>6 DEF Next

LEMMA InvPoints == PointInv => PointersAgree
<1> SUFFICES ASSUME PointInv PROVE PointersAgree
  OBVIOUS
<1>1. ASSUME NEW r \in Alive \ Doomed, NEW c \in SeatedIn(r), client[c].life = "live"
      PROVE  client[c].room = r
  <2>1. r \in RoomIds /\ room[r].life = "live" /\ r \notin Doomed /\ Points(r)
    BY DEF Alive, PointInv
  <2>2. c \in Clients
    BY <2>1, SeatedClients DEF PointInv
  <2> QED
    BY <1>1, <2>1, <2>2 DEF Points
<1>2. ASSUME NEW c \in Listed, client[c].room # NULL
      PROVE  client[c].room \in Alive \/ c \notin SeatedIn(client[c].room)
  <2>1. c \in Clients /\ client[c].life = "live"
    BY DEF Listed
  <2>2. PICK r \in RoomIds : r = client[c].room
    BY <1>2, <2>1 DEF PointInv, RoomsInv, Typed, ClientType
  <2>3. room[r].life \in Lives /\ Points(r)
    BY DEF PointInv, RoomsInv, Typed, Shape
  <2>4. room[r].life = "live" \/ c \notin SeatedIn(r)
    BY <2>1, <2>2, <2>3 DEF Points, Lives
  <2> QED
    BY <2>2, <2>4 DEF Alive
<1> QED
  BY <1>1, <1>2 DEF PointersAgree

\* While nobody sits in two live rooms, a client that a room seats points back
\* to it, and nobody points to a destroyed room that had seated it: joins,
\* departures, forfeits, expiries and reconnects keep client_t.room and
\* room_t.players[] in step.  With one room this is all of PointersAgree.
THEOREM PointersAlwaysAgree == Spec /\ []SeatedOnce => []PointersAgree
<1>1. PointInv /\ SeatedOnce /\ SeatedOnce' /\ [Next]_vars => PointInv'
  BY NextPoints
<1> QED
  BY <1>1, InitPoints, InvPoints, PTL DEF Spec

\* In a server that has only ever had one room, the pointers agree, however many
\* clients there are.
COROLLARY PointersOfOneRoomAgree ==
    ASSUME \A r, s \in RoomIds : r = s PROVE Spec => []PointersAgree
<1>1. SeatedOnce
  BY DEF SeatedOnce, Alive
<1> QED
  BY <1>1, PointersAlwaysAgree, PTL

-----------------------------------------------------------------------------
(* The games of the rooms, and with them TypeOK.  A game stays within its  *)
(* type if a player is left in it whenever its turn is settled: the thread *)
(* that settles it belongs to a player, or the game it has in hand is gone.*)

GamePcs == {"marked", "flipped", "removing"}

\* A thread that has a game in hand still finds that game in its room.
Held(d) ==
    thread[d].pc \in GamePcs /\ d \notin dangling =>
        LET g == room[thread[d].room].game
        IN  /\ thread[d].next = "idle"
            /\ g # NULL
            /\ thread[d].pc = "flipped" /\ client[d].life = "live" => PlaysIn(g, d)

\* Nobody else gives a room its game.
Founding(d) ==
    thread[d].pc = "creating" =>
        room[thread[d].room].owner = d /\ room[thread[d].room].game = NULL

GameSound(r) ==
    /\ room[r].game = NULL \/ InBounds(room[r].game)
    /\ room[r].life = "unborn" => room[r].owner = NULL

GamesInv ==
    /\ RoomsInv
    /\ dangling \subseteq Clients
    /\ \A r \in RoomIds : GameSound(r)
    /\ \A d \in Clients : Held(d) /\ Founding(d)

\* What a step of the threads S may do to the game of a room, to its owner, and
\* to a client.
GameGoes(r, S) ==
    \/ room'[r].game = room[r].game
    \/ room'[r].game = NULL /\ Holding(r) \ S \subseteq dangling'
    \/ room[r].game = NULL /\ room[r].owner \in S
    \/ /\ room[r].game # NULL /\ room'[r].game # NULL
       /\ \A d \in Clients \ S : client'[d].life = "live" /\ PlaysIn(room[r].game, d) =>
              PlaysIn(room'[r].game, d)

OwnerGoes(r, S) == room'[r].owner = room[r].owner \/ room[r].owner \in S \cup {NULL}

Survives(d) == client[d].life = "freed" => client'[d].life # "live"

LEMMA GamesStep ==
    ASSUME GamesInv, RoomsInv', NEW S, S \subseteq Clients,
           \A d \in Clients \ S : thread'[d] = thread[d],
           \A d \in Clients : Survives(d),
           dangling \subseteq dangling', dangling' \subseteq Clients,
           \A r \in RoomIds : GameSound(r)' /\ GameGoes(r, S) /\ OwnerGoes(r, S),
           \A d \in S : Held(d)' /\ Founding(d)'
    PROVE  GamesInv'
<1>1. ASSUME NEW d \in Clients, d \notin S PROVE Held(d)'
  <2> SUFFICES ASSUME thread'[d].pc \in GamePcs, d \notin dangling'
               PROVE  Held(d)'
    BY DEF Held
  <2>1. thread'[d] = thread[d] /\ d \notin dangling
    BY <1>1
  <2>2. PICK r \in RoomIds : r = thread[d].room
    BY <2>1 DEF GamesInv, RoomsInv, ThreadSound, Holders, GamePcs
  <2>3. /\ thread[d].next = "idle" /\ room[r].game # NULL
        /\ thread[d].pc = "flipped" /\ client[d].life = "live" => PlaysIn(room[r].game, d)
    BY <2>1, <2>2 DEF GamesInv, Held
  <2>4. d \in Holding(r) \ S
    BY <1>1, <2>1, <2>2 DEF Holding, GamePcs
  <2>5. client'[d].life = "live" => client[d].life = "live"
    <3>1. client[d].life \in Lives /\ client[d].life # "unborn"
      BY <2>1 DEF GamesInv, RoomsInv, ThreadSound, Typed, ClientType, GamePcs
    <3> QED
      BY <3>1 DEF Survives, Lives
  <2>6. /\ room'[r].game # NULL
        /\ client'[d].life = "live" /\ PlaysIn(room[r].game, d) => PlaysIn(room'[r].game, d)
    BY <1>1, <2>3, <2>4 DEF GameGoes
  <2> QED
    BY <2>1, <2>2, <2>3, <2>5, <2>6 DEF Held
<1>2. ASSUME NEW d \in Clients, d \notin S PROVE Founding(d)'
  <2> SUFFICES ASSUME thread'[d].pc = "creating" PROVE Founding(d)'
    BY DEF Founding
  <2>1. thread'[d] = thread[d]
    BY <1>2
  <2>2. PICK r \in RoomIds : r = thread[d].room
    BY <2>1 DEF GamesInv, RoomsInv, ThreadSound, Holders
  <2>3. room[r].owner = d /\ room[r].game = NULL /\ d # NULL
    BY <2>1, <2>2, ClientsAssumption DEF GamesInv, Founding
  <2>4. room'[r].owner = d
    BY <1>2, <2>3 DEF OwnerGoes
  <2>5. room'[r].game = NULL
    BY <1>2, <2>3 DEF GameGoes
  <2> QED
    BY <2>1, <2>2, <2>4, <2>5 DEF Founding
<1> QED
  BY <1>1, <1>2 DEF GamesInv

\* A thread without a game in hand and without one to create.
LEMMA Unengaged ==
    ASSUME NEW d, thread'[d].pc \notin GamePcs \cup {"creating"}
    PROVE  Held(d)' /\ Founding(d)'
BY DEF Held, Founding

\* A step of a handler that leaves games and owners alone.
LEMMA GamesQuiet ==
    ASSUME GamesInv, RoomsInv', NEW c \in Clients, NEW t, Goto(c, t),
           t.pc \notin GamePcs \cup {"creating"}, dangling' = dangling,
           \A d \in Clients : Survives(d),
           \A r \in RoomIds : /\ room'[r].game = room[r].game
                              /\ room'[r].owner = room[r].owner
                              /\ room'[r].life = "unborn" => room[r].life = "unborn"
    PROVE  GamesInv'
<1>1. thread'[c] = t /\ \A d \in Clients \ {c} : thread'[d] = thread[d]
  BY DEF Goto, GamesInv, RoomsInv, Typed
<1>2. Held(c)' /\ Founding(c)'
  BY <1>1, Unengaged
<1>3. \A r \in RoomIds : GameSound(r)' /\ GameGoes(r, {c}) /\ OwnerGoes(r, {c})
  BY DEF GamesInv, GameSound, GameGoes, OwnerGoes
<1>4. dangling \subseteq dangling' /\ dangling' \subseteq Clients
  BY DEF GamesInv
<1> QED
  BY <1>1, <1>2, <1>3, <1>4, GamesStep

\* A step of the checker that does so.
LEMMA GamesQuietCheck ==
    ASSUME GamesInv, RoomsInv', UNCHANGED <<thread, dangling>>,
           \A d \in Clients : Survives(d),
           \A r \in RoomIds : /\ room'[r].game = room[r].game
                              /\ room'[r].owner = room[r].owner
                              /\ room'[r].life = "unborn" => room[r].life = "unborn"
    PROVE  GamesInv'
<1>1. \A r \in RoomIds : GameSound(r)' /\ GameGoes(r, {}) /\ OwnerGoes(r, {})
  BY DEF GamesInv, GameSound, GameGoes, OwnerGoes
<1>2. dangling \subseteq dangling' /\ dangling' \subseteq Clients
  BY DEF GamesInv
<1>3. \A d \in Clients \ {} : thread'[d] = thread[d]
  OBVIOUS
<1>4. \A d \in {} : Held(d)' /\ Founding(d)'
  OBVIOUS
<1> QED
  BY <1>1, <1>2, <1>3, <1>4, GamesStep

LEMMA RoomsLeft ==
    ASSUME room' = room
    PROVE  \A r \in RoomIds : /\ room'[r].game = room[r].game
                              /\ room'[r].owner = room[r].owner
                              /\ room'[r].life = "unborn" => room[r].life = "unborn"
OBVIOUS

LEMMA ClientsLeft ==
    ASSUME RoomsInv, client' = client PROVE \A d \in Clients : Survives(d)
BY DEF Survives

-----------------------------------------------------------------------------
(* The actions that leave games and owners alone.                          *)

LEMMA ConnectGames == ASSUME GamesInv, NEW c \in Clients, Connect(c) PROVE GamesInv'
<1>1. RoomsInv /\ RoomsInv'
  BY ConnectSound DEF GamesInv
<1>2. PICK evicted :
        client' = [d \in Clients |->
                      IF d = c THEN [client[d] EXCEPT !.life = "live", !.open = TRUE]
                      ELSE IF d \in evicted THEN [client[d] EXCEPT !.life = "freed"]
                      ELSE client[d]]
  BY DEF Connect
<1>3. /\ client[c].life = "unborn" /\ Goto(c, Idle)
      /\ UNCHANGED <<room, dangling>>
  BY DEF Connect
<1>4. ASSUME NEW d \in Clients PROVE Survives(d)
  <2>1. CASE d = c
    BY <1>3, <2>1 DEF Survives
  <2>2. CASE d # c /\ d \in evicted
    <3>1. client'[d] = [client[d] EXCEPT !.life = "freed"] /\ client[d] \in ClientType
      BY <1>1, <1>2, <2>2 DEF RoomsInv, Typed
    <3> QED
      BY <3>1, LifeSet DEF Survives, Lives
  <2>3. CASE d # c /\ d \notin evicted
    <3>1. client'[d] = client[d]
      BY <1>2, <2>3
    <3> QED
      BY <3>1 DEF Survives
  <2> QED
    BY <2>1, <2>2, <2>3
<1> QED
  BY <1>1, <1>3, <1>4, IdleTyped, RoomsLeft, GamesQuiet DEF GamePcs

LEMMA HelloGames == ASSUME GamesInv, NEW c \in Clients, Hello(c) PROVE GamesInv'
<1>1. RoomsInv /\ RoomsInv'
  BY HelloSound DEF GamesInv
<1>2. /\ client' = [client EXCEPT ![c].state = "IN_LOBBY"]
      /\ UNCHANGED <<room, thread, dangling>>
  BY DEF Hello
<1>3. \A d \in Clients : Survives(d)
  BY <1>1, <1>2 DEF Survives, RoomsInv, Typed, ClientType
<1> QED
  BY <1>1, <1>2, <1>3, RoomsLeft, GamesQuietCheck

LEMMA FindRoomGames ==
    ASSUME GamesInv, NEW c \in Clients, NEW r \in RoomIds, FindRoom(c, r)
    PROVE  GamesInv'
<1>1. RoomsInv /\ RoomsInv'
  BY FindRoomSound DEF GamesInv
<1>2. PICK t : t = At("joining", r, "idle")
  OBVIOUS
<1>3. Goto(c, t) /\ UNCHANGED <<client, room, dangling>> /\ t.pc = "joining"
  BY <1>2 DEF FindRoom, At
<1> QED
  BY <1>1, <1>3, RoomsLeft, ClientsLeft, GamesQuiet DEF GamePcs

\* A client enters a room, and nobody's client_t is freed.
LEMMA EnteredSurvive ==
    ASSUME RoomsInv, NEW c \in Clients, NEW r,
           client' = [client EXCEPT ![c].room = r, ![c].state = "IN_ROOM"]
    PROVE  \A d \in Clients : Survives(d)
BY DEF Survives, RoomsInv, Typed, ClientType

LEMMA CreateRoomGames ==
    ASSUME GamesInv, NEW c \in Clients, NEW r \in RoomIds, CreateRoom(c, r)
    PROVE  GamesInv'
<1>1. RoomsInv /\ RoomsInv'
  BY CreateRoomSound DEF GamesInv
<1>2. /\ room[r].life = "unborn" /\ UNCHANGED <<thread, dangling>>
      /\ client' = [client EXCEPT ![c].room = r, ![c].state = "IN_ROOM"]
      /\ room' = [room EXCEPT
                    ![r].life = "live", ![r].owner = c, ![r].count = 1,
                    ![r].players = [EmptySeats EXCEPT ![0] = c]]
  BY DEF CreateRoom
<1>3. \A s \in RoomIds :
         /\ room'[s].game = room[s].game
         /\ s # r => room'[s].owner = room[s].owner /\ room'[s].life = room[s].life
         /\ s = r => room'[s].life = "live" /\ room[s].owner = NULL
  BY <1>1, <1>2 DEF GamesInv, GameSound, RoomsInv, Typed, Shape
<1>4. \A s \in RoomIds : GameSound(s)' /\ GameGoes(s, {}) /\ OwnerGoes(s, {})
  BY <1>3 DEF GamesInv, GameSound, GameGoes, OwnerGoes
<1>5. \A d \in Clients : Survives(d)
  BY <1>1, <1>2, EnteredSurvive
<1>6. dangling \subseteq dangling' /\ dangling' \subseteq Clients
  BY <1>2 DEF GamesInv
<1>7. /\ \A d \in Clients \ {} : thread'[d] = thread[d]
      /\ \A d \in {} : Held(d)' /\ Founding(d)'
  BY <1>2
<1> QED
  BY <1>1, <1>4, <1>5, <1>6, <1>7, GamesStep

LEMMA AddPlayerGames == ASSUME GamesInv, NEW c \in Clients, AddPlayer(c) PROVE GamesInv'
<1>1. RoomsInv /\ RoomsInv'
  BY AddPlayerSound DEF GamesInv
<1>2. PICK r \in RoomIds : r = thread[c].room
  BY <1>1 DEF AddPlayer, InStep, RoomsInv, ThreadSound, Holders
<1>3. /\ Goto(c, Idle) /\ dangling' = dangling
      /\ \/ UNCHANGED <<client, room>>
         \/ /\ \E i : room' = [room EXCEPT ![r].players[i] = c, ![r].count = @ + 1]
            /\ client' = [client EXCEPT ![c].room = r, ![c].state = "IN_ROOM"]
  BY <1>2 DEF AddPlayer
<1>4. \A s \in RoomIds : /\ room'[s].game = room[s].game
                         /\ room'[s].owner = room[s].owner
                         /\ room'[s].life = "unborn" => room[s].life = "unborn"
  <2>1. CASE room' = room
    BY <2>1
  <2>2. CASE \E i : room' = [room EXCEPT ![r].players[i] = c, ![r].count = @ + 1]
    <3>1. PICK i : room' = [room EXCEPT ![r].players[i] = c, ![r].count = @ + 1]
      BY <2>2
    <3>2. PICK ps, n : ps = [room[r].players EXCEPT ![i] = c] /\ n = room[r].count + 1
      OBVIOUS
    <3>3. room' = [room EXCEPT ![r].players = ps, ![r].count = n]
      BY <1>1, <3>1, <3>2 DEF RoomsInv, Typed, Shape
    <3> QED
      BY <1>1, <3>3 DEF RoomsInv, Typed, Shape
  <2> QED
    BY <1>3, <2>1, <2>2
<1>5. \A d \in Clients : Survives(d)
  BY <1>1, <1>3, EnteredSurvive, ClientsLeft
<1> QED
  BY <1>1, <1>3, <1>4, <1>5, IdleTyped, GamesQuiet DEF GamePcs

LEMMA LoseAndKeepGames ==
    ASSUME GamesInv, NEW c \in Clients, LoseAndKeep(c) PROVE GamesInv'
<1>1. RoomsInv /\ RoomsInv'
  BY LoseAndKeepSound DEF GamesInv
<1>2. /\ client' = [client EXCEPT ![c].down = TRUE, ![c].open = FALSE]
      /\ Goto(c, Pc("ended")) /\ UNCHANGED <<room, dangling>>
  BY DEF LoseAndKeep
<1>3. \A d \in Clients : Survives(d)
  BY <1>1, <1>2 DEF Survives, RoomsInv, Typed, ClientType
<1>4. Pc("ended").pc = "ended"
  BY PcTyped
<1> QED
  BY <1>1, <1>2, <1>3, <1>4, RoomsLeft, GamesQuiet DEF GamePcs

LEMMA FreeClientGames ==
    ASSUME GamesInv, NEW c \in Clients, FreeClient(c) PROVE GamesInv'
<1>1. RoomsInv /\ RoomsInv'
  BY FreeClientSound DEF GamesInv
<1>2. /\ client' = [client EXCEPT ![c].life = "freed", ![c].open = FALSE]
      /\ Goto(c, Pc("ended")) /\ UNCHANGED <<room, dangling>>
  BY DEF FreeClient
<1>3. \A d \in Clients : Survives(d)
  BY <1>1, <1>2 DEF Survives, RoomsInv, Typed, ClientType
<1>4. Pc("ended").pc = "ended"
  BY PcTyped
<1> QED
  BY <1>1, <1>2, <1>3, <1>4, RoomsLeft, GamesQuiet DEF GamePcs

LEMMA FindSessionGames ==
    ASSUME GamesInv, NEW c \in Clients, NEW old \in Clients, FindSession(c, old)
    PROVE  GamesInv'
<1>1. RoomsInv /\ RoomsInv'
  BY FindSessionSound DEF GamesInv
<1>2. PICK t : t = [Pc("reconnecting") EXCEPT !.old = old]
  OBVIOUS
<1>3. Goto(c, t) /\ UNCHANGED <<client, room, dangling>> /\ t.pc = "reconnecting"
  BY <1>2 DEF FindSession, Pc, At
<1> QED
  BY <1>1, <1>3, RoomsLeft, ClientsLeft, GamesQuiet DEF GamePcs

LEMMA ShutDownGames ==
    ASSUME GamesInv, NEW c \in Clients, NEW mark \in BOOLEAN, ShutDown(c, mark)
    PROVE  GamesInv'
<1>1. RoomsInv /\ RoomsInv'
  BY ShutDownSound DEF GamesInv
<1>2. /\ client' = [client EXCEPT ![c].down = @ \/ mark, ![c].open = FALSE]
      /\ UNCHANGED <<room, thread, dangling>>
  BY DEF ShutDown
<1>3. \A d \in Clients : Survives(d)
  BY <1>1, <1>2 DEF Survives, RoomsInv, Typed, ClientType
<1> QED
  BY <1>1, <1>2, <1>3, RoomsLeft, GamesQuietCheck

LEMMA ExpireClientGames == ASSUME GamesInv, ExpireClient PROVE GamesInv'
<1>1. RoomsInv /\ RoomsInv'
  BY ExpireClientSound DEF GamesInv
<1>2. /\ client' = [client EXCEPT ![checker.client].life = "freed"]
      /\ UNCHANGED <<room, thread, dangling>>
  BY DEF ExpireClient
<1>3. \A d \in Clients : Survives(d)
  BY <1>1, <1>2 DEF Survives, RoomsInv, Typed, ClientType
<1> QED
  BY <1>1, <1>2, <1>3, RoomsLeft, GamesQuietCheck

\* room_destroy frees a room with whatever game it has.
LEMMA FreedGames ==
    ASSUME RoomsInv, NEW r \in RoomIds, Destroyed(r)
    PROVE  /\ \A d \in Clients : Survives(d)
           /\ \A s \in RoomIds : /\ room'[s].game = room[s].game
                                 /\ room'[s].owner = room[s].owner
                                 /\ room'[s].life = "unborn" => room[s].life = "unborn"
<1>1. /\ client' = ToLobby(SeatedIn(r))
      /\ room' = [room EXCEPT ![r].life = "freed"]
  BY DEF Destroyed
<1>2. \A d \in Clients : Survives(d)
  BY <1>1, FirstPlacesSeated, ToLobbySteady DEF RoomsInv, Survives
<1>3. \A s \in RoomIds : /\ room'[s].game = room[s].game
                         /\ room'[s].owner = room[s].owner
                         /\ room'[s].life = "unborn" => room[s].life = "unborn"
  BY <1>1 DEF RoomsInv, Typed, Shape
<1> QED
  BY <1>2, <1>3

LEMMA DestroyRoomGames ==
    ASSUME GamesInv, NEW c \in Clients, DestroyRoom(c) PROVE GamesInv'
<1>1. RoomsInv /\ RoomsInv'
  BY DestroyRoomSound DEF GamesInv
<1>2. PICK r \in RoomIds : r = thread[c].room
  BY <1>1 DEF DestroyRoom, InStep, RoomsInv, ThreadSound, Holders
<1>3. PICK next \in {"idle", "freeing", "ended"} : next = thread[c].next
  BY <1>1 DEF RoomsInv, Typed, ThreadType
<1>4. Destroyed(r) /\ Goto(c, Pc(next)) /\ dangling' = dangling
  BY <1>2, <1>3 DEF DestroyRoom
<1>5. Pc(next).pc = next
  BY PcTyped
<1> QED
  BY <1>1, <1>4, <1>5, FreedGames, GamesQuiet DEF GamePcs

LEMMA ExpireRoomGames == ASSUME GamesInv, ExpireRoom PROVE GamesInv'
<1>1. RoomsInv /\ RoomsInv'
  BY ExpireRoomSound DEF GamesInv
<1>2. PICK r \in RoomIds : r = checker.room
  BY <1>1 DEF ExpireRoom, RoomsInv, CheckerSound
<1>3. Destroyed(r) /\ UNCHANGED <<thread, dangling>>
  BY <1>2 DEF ExpireRoom
<1> QED
  BY <1>1, <1>3, FreedGames, GamesQuietCheck

-----------------------------------------------------------------------------
(* The actions that change the games.                                      *)

LEMMA NotNull == ASSUME NEW g, InBounds(g) PROVE g # NULL
BY RoomsAssumption DEF InBounds

\* The handler c puts a game g in the place of the one in room r, of which the
\* others stay players.
LEMMA GameMoved ==
    ASSUME GamesInv, RoomsInv', NEW c \in Clients, NEW r \in RoomIds, NEW t, NEW g,
           NEW st, Goto(c, t), dangling' = dangling,
           \A d \in Clients : Survives(d),
           \/ room' = [room EXCEPT ![r].game = g]
           \/ room' = [room EXCEPT ![r].game = g, ![r].state = st],
           room[r].game # NULL, InBounds(g),
           \A d \in Clients \ {c} : PlaysIn(room[r].game, d) => PlaysIn(g, d),
           \/ t.pc \notin GamePcs \cup {"creating"}
           \/ /\ t.pc \in {"marked", "flipped"} /\ t.room = r /\ t.next = "idle"
              /\ PlaysIn(g, c)
    PROVE  GamesInv'
<1>1. thread'[c] = t /\ \A d \in Clients \ {c} : thread'[d] = thread[d]
  BY DEF Goto, GamesInv, RoomsInv, Typed
<1>2. \A s \in RoomIds : /\ room'[s].owner = room[s].owner /\ room'[s].life = room[s].life
                         /\ s # r => room'[s].game = room[s].game
                         /\ s = r => room'[s].game = g
  BY DEF GamesInv, RoomsInv, Typed, Shape
<1>3. g # NULL
  BY NotNull
<1>4. Held(c)' /\ Founding(c)'
  <2>1. CASE t.pc \notin GamePcs \cup {"creating"}
    BY <1>1, <2>1, Unengaged
  <2>2. CASE /\ t.pc \in {"marked", "flipped"} /\ t.room = r /\ t.next = "idle"
             /\ PlaysIn(g, c)
    BY <1>1, <1>2, <1>3, <2>2 DEF Held, Founding
  <2> QED
    BY <2>1, <2>2
<1>5. ASSUME NEW s \in RoomIds
      PROVE  GameSound(s)' /\ GameGoes(s, {c}) /\ OwnerGoes(s, {c})
  <2>1. CASE s # r
    BY <1>2, <2>1 DEF GamesInv, GameSound, GameGoes, OwnerGoes
  <2>2. CASE s = r
    BY <1>2, <1>3, <2>2 DEF GamesInv, GameSound, GameGoes, OwnerGoes
  <2> QED
    BY <2>1, <2>2
<1>6. dangling \subseteq dangling' /\ dangling' \subseteq Clients
  BY DEF GamesInv
<1> QED
  BY <1>1, <1>4, <1>5, <1>6, GamesStep

LEMMA CheckStartGames ==
    ASSUME GamesInv, NEW c \in Clients, CheckStart(c) PROVE GamesInv'
<1>1. RoomsInv /\ RoomsInv'
  BY CheckStartSound DEF GamesInv
<1>2. PICK r, t : r = client[c].room /\ t = At("creating", r, "idle")
  OBVIOUS
<1>3. /\ Goto(c, t) /\ UNCHANGED <<client, room, dangling>>
      /\ room[r].owner = c /\ room[r].game = NULL
      /\ t.pc = "creating" /\ t.room = r
  BY <1>2 DEF CheckStart, At
<1>4. thread'[c] = t /\ \A d \in Clients \ {c} : thread'[d] = thread[d]
  BY <1>1, <1>3 DEF Goto, RoomsInv, Typed
<1>5. Held(c)' /\ Founding(c)'
  BY <1>3, <1>4 DEF Held, Founding, GamePcs
<1>6. \A s \in RoomIds : GameSound(s)' /\ GameGoes(s, {c}) /\ OwnerGoes(s, {c})
  BY <1>3 DEF GamesInv, GameSound, GameGoes, OwnerGoes
<1>7. dangling \subseteq dangling' /\ dangling' \subseteq Clients
  BY <1>3 DEF GamesInv
<1> QED
  BY <1>1, <1>3, <1>4, <1>5, <1>6, <1>7, ClientsLeft, GamesStep

LEMMA CreateGameGames ==
    ASSUME GamesInv, NEW c \in Clients, CreateGame(c) PROVE GamesInv'
<1>1. RoomsInv /\ RoomsInv'
  BY CreateGameSound DEF GamesInv
<1>2. thread[c].pc = "creating"
  BY DEF CreateGame, InStep
<1>3. PICK r \in RoomIds : r = thread[c].room
  BY <1>1, <1>2 DEF RoomsInv, ThreadSound, Holders
<1>4. PICK deal, g :
         /\ deal \in Deals
         /\ g = IF CanCreate(room[r].count)
                THEN Create(room[r].players, room[r].count, deal) ELSE NULL
         /\ room' = [room EXCEPT ![r].game = g]
  BY <1>3 DEF CreateGame
<1>5. Goto(c, Idle) /\ UNCHANGED <<client, dangling>>
  BY DEF CreateGame
<1>6. room[r].owner = c /\ room[r].game = NULL
  BY <1>2, <1>3 DEF GamesInv, Founding
<1>7. g = NULL \/ InBounds(g)
  <2>1. room[r].count \in Nat /\ room[r].players \in [Slots -> Clients \cup {NULL}]
    BY <1>1, Counted DEF Filled
  <2> QED
    BY <1>4, <2>1, CreateInBounds
<1>8. \A s \in RoomIds : /\ room'[s].owner = room[s].owner /\ room'[s].life = room[s].life
                         /\ s # r => room'[s].game = room[s].game
                         /\ s = r => room'[s].game = g
  BY <1>1, <1>4 DEF RoomsInv, Typed, Shape
<1>9. \A s \in RoomIds : GameSound(s)' /\ GameGoes(s, {c}) /\ OwnerGoes(s, {c})
  BY <1>6, <1>7, <1>8 DEF GamesInv, GameSound, GameGoes, OwnerGoes
<1>10. thread'[c] = Idle /\ \A d \in Clients \ {c} : thread'[d] = thread[d]
  BY <1>1, <1>5 DEF Goto, RoomsInv, Typed
<1>11. Held(c)' /\ Founding(c)'
  BY <1>10, IdleTyped, Unengaged DEF GamePcs
<1>12. dangling \subseteq dangling' /\ dangling' \subseteq Clients
  BY <1>5 DEF GamesInv
<1> QED
  BY <1>1, <1>5, <1>9, <1>10, <1>11, <1>12, ClientsLeft, GamesStep

LEMMA MarkReadyGames ==
    ASSUME GamesInv, NEW c \in Clients, MarkReady(c) PROVE GamesInv'
<1>1. RoomsInv /\ RoomsInv'
  BY MarkReadySound DEF GamesInv
<1>2. PICK r \in RoomIds : r = client[c].room
  BY <1>1 DEF MarkReady, RoomsInv, Typed, ClientType
<1>3. PICK t, g : t = At("marked", r, "idle") /\ g = PlayerReady(room[r].game, c)
  OBVIOUS
<1>4. /\ Goto(c, t) /\ UNCHANGED <<client, dangling>> /\ room[r].game # NULL
      /\ room' = [room EXCEPT ![r].game = g] /\ PlaysIn(room[r].game, c)
  BY <1>2, <1>3 DEF MarkReady, CanReady
<1>5. t.pc = "marked" /\ t.room = r /\ t.next = "idle"
  BY <1>3 DEF At
<1>6. InBounds(room[r].game)
  BY <1>4 DEF GamesInv, GameSound
<1>7. InBounds(g) /\ \A d : PlaysIn(room[r].game, d) => PlaysIn(g, d)
  BY <1>3, <1>6, ReadySeats, SameInBounds
<1> QED
  BY <1>1, <1>4, <1>5, <1>7, ClientsLeft, GameMoved

\* What a thread that goes on with the game it has in hand may rely on.
LEMMA HeldInStep ==
    ASSUME GamesInv, NEW c \in Clients, thread[c].pc \in GamePcs, ~Stale(c)
    PROVE  \E r \in RoomIds : /\ thread[c].room = r /\ room[r].game # NULL
                              /\ InBounds(room[r].game)
                              /\ thread[c].pc = "flipped" => PlaysIn(room[r].game, c)
<1>1. PICK r \in RoomIds : r = thread[c].room
  BY DEF GamesInv, RoomsInv, ThreadSound, Holders, GamePcs
<1>2. c \notin dangling /\ thread[c].pc # "ended"
  BY DEF Stale, GamePcs
<1>3. /\ thread[c].next = "idle" /\ room[r].game # NULL
      /\ thread[c].pc = "flipped" /\ client[c].life = "live" => PlaysIn(room[r].game, c)
  BY <1>1, <1>2 DEF GamesInv, Held
<1>4. client[c].life # "freed"
  BY <1>2, <1>3 DEF Stale
<1>5. client[c].life = "live"
  <2>1. client[c].life \in Lives /\ client[c].life # "unborn"
    BY <1>2 DEF GamesInv, RoomsInv, ThreadSound, Typed, ClientType
  <2> QED
    BY <1>4, <2>1 DEF Lives
<1> QED
  BY <1>1, <1>3, <1>5 DEF GamesInv, GameSound

LEMMA StartPlayGames ==
    ASSUME GamesInv, NEW c \in Clients, StartPlay(c), ~Stale(c) PROVE GamesInv'
<1>1. RoomsInv /\ RoomsInv'
  BY StartPlaySound DEF GamesInv
<1>2. thread[c].pc = "marked"
  BY DEF StartPlay, InStep
<1>3. PICK r \in RoomIds : /\ r = thread[c].room /\ room[r].game # NULL
                           /\ InBounds(room[r].game)
  BY <1>2, HeldInStep DEF GamePcs
<1>4. PICK g : g = Start(room[r].game)
  OBVIOUS
<1>5. /\ Goto(c, Idle) /\ dangling' = dangling
      /\ \/ UNCHANGED <<client, room>>
         \/ /\ room' = [room EXCEPT ![r].game = g, ![r].state = "PLAYING"]
            /\ client' = [d \in Clients |->
                             IF d \in FirstPlaces(r)
                             THEN [client[d] EXCEPT !.state = "IN_GAME"]
                             ELSE client[d]]
  BY <1>3, <1>4 DEF StartPlay
<1>6. CASE UNCHANGED <<client, room>>
  BY <1>1, <1>5, <1>6, IdleTyped, RoomsLeft, ClientsLeft, GamesQuiet DEF GamePcs
<1>7. CASE /\ room' = [room EXCEPT ![r].game = g, ![r].state = "PLAYING"]
           /\ client' = [d \in Clients |->
                            IF d \in FirstPlaces(r)
                            THEN [client[d] EXCEPT !.state = "IN_GAME"]
                            ELSE client[d]]
  <2>1. InBounds(g) /\ \A d : PlaysIn(room[r].game, d) => PlaysIn(g, d)
    BY <1>3, <1>4, StartSeats, SameInBounds
  <2>2. ASSUME NEW d \in Clients PROVE Survives(d)
    <3>1. CASE client'[d] = client[d]
      BY <3>1 DEF Survives
    <3>2. CASE client'[d] = [client[d] EXCEPT !.state = "IN_GAME"]
      BY <1>1, <3>2 DEF Survives, RoomsInv, Typed, ClientType
    <3> QED
      BY <1>7, <3>1, <3>2
  <2> QED
    BY <1>1, <1>3, <1>5, <1>7, <2>1, <2>2, IdleTyped, GameMoved DEF GamePcs
<1> QED
  BY <1>5, <1>6, <1>7

LEMMA FlipOneGames ==
    ASSUME GamesInv, NEW c \in Clients, FlipOne(c) PROVE GamesInv'
<1>1. RoomsInv /\ RoomsInv'
  BY FlipOneSound DEF GamesInv
<1>2. PICK r \in RoomIds : r = client[c].room
  BY <1>1 DEF FlipOne, RoomsInv, Typed, ClientType
<1>3. PICK i \in Cards : /\ CanFlip(room[r].game, c, i)
                         /\ room' = [room EXCEPT ![r].game = FlipCard(room[r].game, i)]
  BY <1>2 DEF FlipOne
<1>4. PICK t, g : t = At("flipped", r, "idle") /\ g = FlipCard(room[r].game, i)
  OBVIOUS
<1>5. /\ Goto(c, t) /\ UNCHANGED <<client, dangling>> /\ room[r].game # NULL
      /\ room' = [room EXCEPT ![r].game = g]
  BY <1>2, <1>3, <1>4 DEF FlipOne
<1>6. t.pc = "flipped" /\ t.room = r /\ t.next = "idle"
  BY <1>4 DEF At
<1>7. InBounds(room[r].game)
  BY <1>5 DEF GamesInv, GameSound
<1>8. InBounds(g) /\ PlaysIn(g, c) /\ \A d : PlaysIn(room[r].game, d) => PlaysIn(g, d)
  BY <1>3, <1>4, <1>7, FlipSeats, SameInBounds, FlipperInGame
<1> QED
  BY <1>1, <1>5, <1>6, <1>8, ClientsLeft, GameMoved

LEMMA LoseToGameGames ==
    ASSUME GamesInv, NEW c \in Clients, LoseToGame(c) PROVE GamesInv'
<1>1. RoomsInv /\ RoomsInv'
  BY LoseToGameSound DEF GamesInv
<1>2. PICK r, t : r = client[c].room /\ t = At("removing", r, "idle")
  OBVIOUS
<1>3. /\ Goto(c, t) /\ UNCHANGED <<client, room, dangling>>
      /\ room[r].game # NULL
      /\ t.pc = "removing" /\ t.room = r /\ t.next = "idle"
  BY <1>2 DEF LoseToGame, InLiveGame, At
<1>4. thread'[c] = t /\ \A d \in Clients \ {c} : thread'[d] = thread[d]
  BY <1>1, <1>3 DEF Goto, RoomsInv, Typed
<1>5. Held(c)' /\ Founding(c)'
  BY <1>3, <1>4 DEF Held, Founding
<1>6. \A s \in RoomIds : GameSound(s)' /\ GameGoes(s, {c}) /\ OwnerGoes(s, {c})
  BY <1>3 DEF GamesInv, GameSound, GameGoes, OwnerGoes
<1>7. dangling \subseteq dangling' /\ dangling' \subseteq Clients
  BY <1>3 DEF GamesInv
<1> QED
  BY <1>1, <1>3, <1>4, <1>5, <1>6, <1>7, ClientsLeft, GamesStep

LEMMA RemoveFromGameGames ==
    ASSUME GamesInv, NEW c \in Clients, RemoveFromGame(c), ~Stale(c) PROVE GamesInv'
<1>1. RoomsInv /\ RoomsInv'
  BY RemoveFromGameSound DEF GamesInv
<1>2. thread[c].pc = "removing"
  BY DEF RemoveFromGame, InStep
<1>3. PICK r \in RoomIds : /\ r = thread[c].room /\ room[r].game # NULL
                           /\ InBounds(room[r].game)
  BY <1>2, HeldInStep DEF GamePcs
<1>4. PICK t, g : t = At("removed", r, "idle") /\ g = RemovePlayer(room[r].game, c)
  OBVIOUS
<1>5. /\ Goto(c, t) /\ UNCHANGED <<client, dangling>>
      /\ room' = [room EXCEPT ![r].game = g]
  BY <1>3, <1>4 DEF RemoveFromGame
<1>6. t.pc = "removed"
  BY <1>4 DEF At
<1>7. InBounds(g)
  BY <1>3, <1>4, RemoveInBounds
<1>8. \A d \in Clients \ {c} : PlaysIn(room[r].game, d) => PlaysIn(g, d)
  BY <1>3, <1>4, OthersStayIn DEF InBounds
<1> QED
  BY <1>1, <1>3, <1>5, <1>6, <1>7, <1>8, ClientsLeft, GameMoved DEF GamePcs

\* A handler that is done with the game changes one room.
LEMMA GamesInRoom ==
    ASSUME GamesInv, RoomsInv', NEW c \in Clients, NEW r \in RoomIds, NEW t, Goto(c, t),
           t.pc \notin GamePcs \cup {"creating"},
           dangling \subseteq dangling', dangling' \subseteq Clients,
           \A d \in Clients : Survives(d),
           \A s \in RoomIds \ {r} : /\ room'[s].game = room[s].game
                                    /\ room'[s].owner = room[s].owner
                                    /\ room'[s].life = room[s].life,
           GameSound(r)', GameGoes(r, {c}), OwnerGoes(r, {c})
    PROVE  GamesInv'
<1>1. thread'[c] = t /\ \A d \in Clients \ {c} : thread'[d] = thread[d]
  BY DEF Goto, GamesInv, RoomsInv, Typed
<1>2. Held(c)' /\ Founding(c)'
  BY <1>1, Unengaged
<1>3. ASSUME NEW s \in RoomIds PROVE GameSound(s)' /\ GameGoes(s, {c}) /\ OwnerGoes(s, {c})
  <2>1. CASE s = r
    BY <2>1
  <2>2. CASE s # r
    BY <2>2 DEF GamesInv, GameSound, GameGoes, OwnerGoes
  <2> QED
    BY <2>1, <2>2
<1> QED
  BY <1>1, <1>2, <1>3, GamesStep

LEMMA SettleTurnGames ==
    ASSUME GamesInv, NEW c \in Clients, SettleTurn(c), ~Stale(c) PROVE GamesInv'
<1>1. RoomsInv /\ RoomsInv'
  BY SettleTurnSound DEF GamesInv
<1>2. thread[c].pc = "flipped"
  BY DEF SettleTurn, InStep
<1>3. PICK r \in RoomIds : /\ r = thread[c].room /\ room[r].game # NULL
                           /\ InBounds(room[r].game) /\ PlaysIn(room[r].game, c)
  BY <1>2, HeldInStep DEF GamePcs
<1>4. PICK g, t : g = CheckMatch(room[r].game) /\ t = At("destroying", r, "idle")
  OBVIOUS
<1>5. \/ /\ Goto(c, Idle) /\ UNCHANGED <<client, dangling>>
         /\ room' = [room EXCEPT ![r].game = g]
      \/ /\ Goto(c, t) /\ client' = ToLobby(FirstPlaces(r))
         /\ room' = [room EXCEPT ![r].game = NULL, ![r].state = "FINISHED"]
         /\ dangling' = dangling \cup (Holding(r) \ {c})
  BY <1>3, <1>4 DEF SettleTurn
<1>6. CASE /\ Goto(c, Idle) /\ UNCHANGED <<client, dangling>>
           /\ room' = [room EXCEPT ![r].game = g]
  <2>1. room[r].game.count > 0
    BY <1>3 DEF PlaysIn, Seats, InBounds, GameType, MAX_PLAYERS_PER_ROOM
  <2>2. InBounds(g) /\ \A d : PlaysIn(room[r].game, d) => PlaysIn(g, d)
    BY <1>3, <1>4, <2>1, CheckSeats, SameInBounds
  <2> QED
    BY <1>1, <1>3, <1>6, <2>2, IdleTyped, ClientsLeft, GameMoved DEF GamePcs
<1>7. CASE /\ Goto(c, t) /\ client' = ToLobby(FirstPlaces(r))
           /\ room' = [room EXCEPT ![r].game = NULL, ![r].state = "FINISHED"]
           /\ dangling' = dangling \cup (Holding(r) \ {c})
  <2>1. t.pc = "destroying"
    BY <1>4 DEF At
  <2>2. \A d \in Clients : Survives(d)
    BY <1>1, <1>7, FirstPlacesSeated, ToLobbySteady DEF RoomsInv, Survives
  <2>3. \A s \in RoomIds : /\ room'[s].owner = room[s].owner
                           /\ room'[s].life = room[s].life
                           /\ room'[s].game = IF s = r THEN NULL ELSE room[s].game
    BY <1>1, <1>7 DEF RoomsInv, Typed, Shape
  <2>4. GameSound(r)' /\ OwnerGoes(r, {c})
    BY <2>3 DEF GamesInv, GameSound, OwnerGoes
  <2>5. GameGoes(r, {c})
    BY <1>7, <2>3 DEF GameGoes
  <2>6. dangling \subseteq dangling' /\ dangling' \subseteq Clients
    BY <1>7 DEF GamesInv, Holding
  <2> QED
    BY <1>1, <1>7, <2>1, <2>2, <2>3, <2>4, <2>5, <2>6, GamesInRoom DEF GamePcs
<1> QED
  BY <1>5, <1>6, <1>7

\* A forfeited game is gone, and every thread that had it in hand is noted.
LEMMA EmptiedGames ==
    ASSUME RoomsInv, NEW r \in RoomIds, room' = Emptied(r)
    PROVE  \A s \in RoomIds : /\ room'[s].owner = room[s].owner
                              /\ room'[s].life = room[s].life
                              /\ room'[s].game = IF s = r THEN NULL ELSE room[s].game
BY DEF Emptied, RoomsInv, Typed, Shape

LEMMA RemoveFromGames ==
    ASSUME GamesInv, RoomsInv', NEW r \in RoomIds, NEW c \in Clients,
           NEW next \in {"idle", "freeing", "ended"}, RemoveFrom(r, c, next)
    PROVE  GamesInv'
<1>1. RoomsInv
  BY DEF GamesInv
<1>2. PICK out : out = At("destroying", r, next)
  OBVIOUS
<1>3. out.pc = "destroying"
  BY <1>2 DEF At
<1>4. Pc(next).pc = next
  BY PcTyped
<1>5. CASE Goto(c, Pc(next)) /\ UNCHANGED <<client, room, dangling>>
  BY <1>1, <1>4, <1>5, RoomsLeft, ClientsLeft, GamesQuiet DEF GamePcs
<1>6. CASE /\ room' = Emptied(r) /\ client' = ToLobby(SeatedIn(r))
           /\ dangling' = dangling \cup Holding(r) /\ Goto(c, out)
  <2>1. \A d \in Clients : Survives(d)
    BY <1>1, <1>6, FirstPlacesSeated, ToLobbySteady DEF RoomsInv, Survives
  <2>2. \A s \in RoomIds : /\ room'[s].owner = room[s].owner
                           /\ room'[s].life = room[s].life
                           /\ room'[s].game = IF s = r THEN NULL ELSE room[s].game
    BY <1>1, <1>6, EmptiedGames
  <2>3. GameSound(r)' /\ OwnerGoes(r, {c})
    BY <2>2 DEF GamesInv, GameSound, OwnerGoes
  <2>4. GameGoes(r, {c})
    BY <1>6, <2>2 DEF GameGoes
  <2>5. dangling \subseteq dangling' /\ dangling' \subseteq Clients
    BY <1>6 DEF GamesInv, Holding
  <2> QED
    BY <1>3, <1>6, <2>1, <2>2, <2>3, <2>4, <2>5, GamesInRoom DEF GamePcs
<1>7. CASE /\ ~NotFound(r, c)
           /\ room' = [room EXCEPT ![r].players = Without(r, c), ![r].count = @ - 1,
                                   ![r].owner = OwnerWithout(r, c)]
           /\ client' = ToLobby(IF Orphans(r, c) THEN SeatedIn(r) ELSE {c})
           /\ Goto(c, IF Closes(r, c) THEN out ELSE Pc(next))
           /\ UNCHANGED dangling
  <2>1. PICK t : Goto(c, t) /\ t = IF Closes(r, c) THEN out ELSE Pc(next)
    BY <1>7
  <2>2. t.pc \notin GamePcs \cup {"creating"}
    BY <1>3, <1>4, <2>1 DEF GamePcs
  <2>3. \A d \in Clients : d \in (IF Orphans(r, c) THEN SeatedIn(r) ELSE {c}) =>
            client[d].state # "CONNECTED"
    BY <1>1, <1>7, FirstPlacesSeated DEF NotFound
  <2>4. \A d \in Clients : Survives(d)
    BY <1>1, <1>7, <2>3, ToLobbySteady DEF RoomsInv, Survives
  <2>5. PICK ps, n, o : ps = Without(r, c) /\ n = room[r].count - 1 /\ o = OwnerWithout(r, c)
    OBVIOUS
  <2>6. room' = [room EXCEPT ![r].players = ps, ![r].count = n, ![r].owner = o]
    BY <1>1, <1>7, <2>5 DEF RoomsInv, Typed, Shape
  <2>7. \A s \in RoomIds : /\ room'[s].life = room[s].life
                           /\ room'[s].game = room[s].game
                           /\ room'[s].owner = IF s = r THEN o ELSE room[s].owner
    BY <1>1, <2>6 DEF RoomsInv, Typed, Shape
  <2>8. o = room[r].owner \/ room[r].owner = c
    BY <1>1, <1>7, <2>5, NewOwner
  <2>9. GameSound(r)' /\ OwnerGoes(r, {c}) /\ GameGoes(r, {c})
    BY <2>7, <2>8, ClientsAssumption DEF GamesInv, GameSound, OwnerGoes, GameGoes
  <2>10. dangling \subseteq dangling' /\ dangling' \subseteq Clients
    BY <1>7 DEF GamesInv
  <2> QED
    BY <2>1, <2>2, <2>4, <2>7, <2>9, <2>10, GamesInRoom
<1> QED
  BY <1>2, <1>5, <1>6, <1>7 DEF RemoveFrom

LEMMA LeaveRoomGames ==
    ASSUME GamesInv, NEW c \in Clients, LeaveRoom(c) PROVE GamesInv'
<1>1. RoomsInv /\ RoomsInv'
  BY LeaveRoomSound DEF GamesInv
<1>2. PICK r \in RoomIds : r = client[c].room
  BY <1>1 DEF LeaveRoom, RoomsInv, Typed, ClientType
<1>3. RemoveFrom(r, c, "idle")
  BY <1>2 DEF LeaveRoom
<1> QED
  BY <1>1, <1>3, RemoveFromGames

LEMMA RemoveFromRoomGames ==
    ASSUME GamesInv, NEW c \in Clients, RemoveFromRoom(c) PROVE GamesInv'
<1>1. RoomsInv /\ RoomsInv'
  BY RemoveFromRoomSound DEF GamesInv
<1>2. PICK r \in RoomIds : r = thread[c].room
  BY <1>1 DEF RemoveFromRoom, InStep, RoomsInv, ThreadSound, Holders
<1>3. RemoveFrom(r, c, "freeing")
  BY <1>2 DEF RemoveFromRoom
<1> QED
  BY <1>1, <1>3, RemoveFromGames

LEMMA LoseOutsideGames ==
    ASSUME GamesInv, NEW c \in Clients, LoseOutside(c) PROVE GamesInv'
<1>1. RoomsInv /\ RoomsInv'
  BY LoseOutsideSound DEF GamesInv
<1>2. PICK next \in {"idle", "freeing", "ended"} : next = AfterLoss(c)
  BY DEF AfterLoss
<1>3. \/ client[c].room # NULL /\ RemoveFrom(client[c].room, c, next)
      \/ Goto(c, Pc(next)) /\ UNCHANGED <<client, room, dangling>>
  BY <1>2 DEF LoseOutside
<1>4. CASE client[c].room # NULL /\ RemoveFrom(client[c].room, c, next)
  <2>1. PICK r \in RoomIds : r = client[c].room
    BY <1>1, <1>4 DEF RoomsInv, Typed, ClientType
  <2>2. RemoveFrom(r, c, next)
    BY <1>4, <2>1
  <2> QED
    BY <1>1, <2>2, RemoveFromGames
<1>5. CASE Goto(c, Pc(next)) /\ UNCHANGED <<client, room, dangling>>
  <2>1. Pc(next).pc = next
    BY PcTyped
  <2> QED
    BY <1>1, <1>5, <2>1, RoomsLeft, ClientsLeft, GamesQuiet DEF GamePcs
<1> QED
  BY <1>3, <1>4, <1>5

LEMMA ExpireGames ==
    ASSUME GamesInv, NEW c \in Clients, Expire(c) PROVE GamesInv'
<1>1. RoomsInv /\ RoomsInv'
  BY ExpireSound DEF GamesInv
<1>2. PICK r : r = client[c].room
  OBVIOUS
<1>3. \/ /\ r # NULL /\ client' = ToLobby(SeatedIn(r)) /\ room' = Emptied(r)
         /\ dangling' = dangling \cup Holding(r)
      \/ UNCHANGED <<client, room, dangling>>
  BY <1>2 DEF Expire
<1>4. thread' = thread
  BY DEF Expire
<1>5. CASE UNCHANGED <<client, room, dangling>>
  BY <1>1, <1>4, <1>5, RoomsLeft, ClientsLeft, GamesQuietCheck
<1>6. CASE /\ r # NULL /\ client' = ToLobby(SeatedIn(r)) /\ room' = Emptied(r)
           /\ dangling' = dangling \cup Holding(r)
  <2>1. r \in RoomIds
    BY <1>1, <1>2, <1>6 DEF RoomsInv, Typed, ClientType
  <2>2. \A d \in Clients : Survives(d)
    BY <1>1, <1>6, <2>1, FirstPlacesSeated, ToLobbySteady DEF RoomsInv, Survives
  <2>3. \A s \in RoomIds : /\ room'[s].owner = room[s].owner
                           /\ room'[s].life = room[s].life
                           /\ room'[s].game = IF s = r THEN NULL ELSE room[s].game
    BY <1>1, <1>6, <2>1, EmptiedGames
  <2>4. \A s \in RoomIds : GameSound(s)' /\ OwnerGoes(s, {})
    BY <2>3 DEF GamesInv, GameSound, OwnerGoes
  <2>5. \A s \in RoomIds : GameGoes(s, {})
    BY <1>6, <2>3 DEF GameGoes
  <2>6. dangling \subseteq dangling' /\ dangling' \subseteq Clients
    BY <1>6 DEF GamesInv, Holding
  <2>7. /\ \A d \in Clients \ {} : thread'[d] = thread[d]
        /\ \A d \in {} : Held(d)' /\ Founding(d)'
    BY <1>4
  <2> QED
    BY <1>1, <2>2, <2>4, <2>5, <2>6, <2>7, GamesStep
<1> QED
  BY <1>3, <1>5, <1>6

\* game_update_player_pointer: nobody but the replaced client loses its place.
LEMMA SwapInBounds ==
    ASSUME NEW g, InBounds(g), NEW c \in Clients, NEW old \in Clients
    PROVE  /\ InBounds(SwapInGame(g, old, c))
           /\ \A d \in Clients \ {old} : PlaysIn(g, d) => PlaysIn(SwapInGame(g, old, c), d)
<1>1. g # NULL /\ g \in GameType
  BY NotNull DEF InBounds
<1>2. PICK ps : ps = Swap(g.players, g.count, old, c)
  OBVIOUS
<1>3. PICK h : h = [g EXCEPT !.players = ps]
  OBVIOUS
<1>4. h = SwapInGame(g, old, c)
  BY <1>1, <1>2, <1>3 DEF SwapInGame
<1>5. /\ ps \in [Slots -> Clients \cup {NULL}]
      /\ \A i \in Slots : \/ ps[i] = g.players[i]
                          \/ i < g.count /\ ps[i] = c /\ g.players[i] = old
  BY <1>1, <1>2 DEF Swap, GameType
<1>6. h \in GameType /\ h.players = ps /\ h.count = g.count
  BY <1>1, <1>3, <1>5 DEF GameType
<1>7. InBounds(h)
  BY <1>5, <1>6 DEF InBounds
<1>8. ASSUME NEW d \in Clients \ {old}, PlaysIn(g, d) PROVE PlaysIn(h, d)
  <2>1. PICK i \in Seats(g) : g.players[i] = d
    BY <1>8 DEF PlaysIn
  <2>2. i \in Slots
    BY <1>1 DEF Seats, Slots, GameType, MAX_PLAYERS_PER_ROOM
  <2>3. ps[i] = d
    BY <1>5, <1>8, <2>1, <2>2
  <2> QED
    BY <1>6, <2>1, <2>3 DEF PlaysIn, Seats
<1> QED
  BY <1>4, <1>7, <1>8

LEMMA TakeOverGames ==
    ASSUME GamesInv, NEW c \in Clients, TakeOver(c) PROVE GamesInv'
<1>1. RoomsInv /\ RoomsInv'
  BY TakeOverSound DEF GamesInv
<1>2. thread[c].pc = "reconnecting"
  BY Zenon DEF TakeOver, InStep
<1>3. PICK old \in Clients : old = thread[c].old
  BY <1>1, <1>2 DEF RoomsInv, ThreadSound
<1>4. client[c] \in ClientType /\ client[old] \in ClientType
  BY <1>1 DEF RoomsInv, Typed
<1>5. PICK r \in RoomIds \cup {NULL}, st \in States :
          r = client[old].room /\ st = client[old].state
  BY <1>4 DEF ClientType, States
<1>6. /\ Goto(c, Idle) /\ dangling' = dangling
      /\ client' = [client EXCEPT ![c].state = st, ![c].room = r,
                                  ![old].life = "freed", ![old].open = FALSE]
      /\ \/ r = NULL /\ room' = room
         \/ /\ r # NULL
            /\ room' = [room EXCEPT
                   ![r].players = Swap(@, room[r].count, old, c),
                   ![r].game = SwapInGame(@, old, c)]
  BY <1>3, <1>5, ZenonT(60) DEF TakeOver
<1>7. /\ \A d \in Clients : Survives(d)
      /\ client'[old].life = "freed"
  <2>1. c # old
    BY <1>1, <1>2, <1>3 DEF RoomsInv, ThreadSound
  <2>2. /\ client'[old].life = "freed" /\ client'[c].life = client[c].life
        /\ \A d \in Clients \ {c, old} : client'[d] = client[d]
    BY <1>1, <1>4, <1>6, <2>1 DEF RoomsInv, Typed, ClientType
  <2> QED
    BY <2>2 DEF Survives
<1>8. CASE room' = room
  BY <1>1, <1>6, <1>7, <1>8, IdleTyped, RoomsLeft, GamesQuiet DEF GamePcs
<1>9. CASE /\ r \in RoomIds
           /\ room' = [room EXCEPT
                   ![r].players = Swap(@, room[r].count, old, c),
                   ![r].game = SwapInGame(@, old, c)]
  <2>1. PICK ps, g : /\ ps = Swap(room[r].players, room[r].count, old, c)
                     /\ g = SwapInGame(room[r].game, old, c)
    OBVIOUS
  <2>2. room' = [room EXCEPT ![r].players = ps, ![r].game = g]
    BY <1>1, <1>9, <2>1 DEF RoomsInv, Typed, Shape
  <2>3. \A s \in RoomIds : /\ room'[s].owner = room[s].owner
                           /\ room'[s].life = room[s].life
                           /\ room'[s].game = IF s = r THEN g ELSE room[s].game
    BY <1>1, <1>9, <2>2 DEF RoomsInv, Typed, Shape
  <2>4. GameSound(r)
    BY <1>9 DEF GamesInv
  <2>5. CASE room[r].game = NULL
    <3>1. g = NULL
      BY <2>1, <2>5 DEF SwapInGame
    <3>2. \A s \in RoomIds : /\ room'[s].game = room[s].game
                             /\ room'[s].owner = room[s].owner
                             /\ room'[s].life = "unborn" => room[s].life = "unborn"
      BY <2>3, <2>5, <3>1
    <3> QED
      BY <1>1, <1>6, <1>7, <3>2, IdleTyped, GamesQuiet DEF GamePcs
  <2>6. CASE room[r].game # NULL
    <3>1. /\ InBounds(g) /\ g # NULL
          /\ \A d \in Clients \ {old} : PlaysIn(room[r].game, d) => PlaysIn(g, d)
      BY <2>1, <2>4, <2>6, SwapInBounds, NotNull DEF GameSound
    <3>2. GameSound(r)' /\ OwnerGoes(r, {c})
      BY <1>9, <2>3, <2>4, <3>1 DEF GameSound, OwnerGoes
    <3>3. GameGoes(r, {c})
      BY <1>7, <1>9, <2>3, <2>6, <3>1 DEF GameGoes
    <3>4. dangling \subseteq dangling' /\ dangling' \subseteq Clients
      BY <1>6 DEF GamesInv
    <3>5. Goto(c, Idle) /\ Idle.pc \notin GamePcs \cup {"creating"}
      BY <1>6, IdleTyped DEF GamePcs
    <3>6. \A s \in RoomIds \ {r} : /\ room'[s].game = room[s].game
                                   /\ room'[s].owner = room[s].owner
                                   /\ room'[s].life = room[s].life
      BY <2>3
    <3> QED
      BY <1>1, <1>7, <1>9, <3>2, <3>3, <3>4, <3>5, <3>6, GamesInRoom
  <2> QED
    BY <2>5, <2>6
<1> QED
  BY <1>6, <1>8, <1>9

-----------------------------------------------------------------------------
(* Every step, and the type invariant.                                     *)

LEMMA InitGames == Init => GamesInv
<1> SUFFICES ASSUME Init PROVE GamesInv
  OBVIOUS
<1>1. RoomsInv
  BY InitSound
<1>2. \A r \in RoomIds : GameSound(r)
  BY DEF Init, GameSound
<1>3. \A d \in Clients : thread[d].pc = "ended"
  BY PcTyped DEF Init
<1>4. \A d \in Clients : Held(d) /\ Founding(d)
  BY <1>3 DEF Held, Founding, GamePcs
<1> QED
  BY <1>1, <1>2, <1>4 DEF Init, GamesInv

LEMMA RequestGames ==
    ASSUME GamesInv, NEW c \in Clients, Request(c) PROVE GamesInv'
<1>1. CASE Connect(c)
  BY <1>1, ConnectGames
<1>2. CASE Enter(c)
  <2>1. CASE Hello(c)
    BY <2>1, HelloGames
  <2>2. CASE \E r \in RoomIds : CreateRoom(c, r)
    BY <2>2, CreateRoomGames
  <2>3. CASE \E r \in RoomIds : FindRoom(c, r)
    BY <2>3, FindRoomGames
  <2> QED
    BY <1>2, <2>1, <2>2, <2>3 DEF Enter
<1>3. CASE Play(c)
  <2>1. CASE LeaveRoom(c)
    BY <2>1, LeaveRoomGames
  <2>2. CASE CheckStart(c)
    BY <2>2, CheckStartGames
  <2>3. CASE MarkReady(c)
    BY <2>3, MarkReadyGames
  <2>4. CASE FlipOne(c)
    BY <2>4, FlipOneGames
  <2> QED
    BY <1>3, <2>1, <2>2, <2>3, <2>4 DEF Play
<1>4. CASE Lose(c)
  BY <1>4, LoseToGameGames, LoseAndKeepGames, LoseOutsideGames DEF Lose
<1>5. CASE Return(c)
  BY <1>5, FindSessionGames DEF Return
<1> QED
  BY <1>1, <1>2, <1>3, <1>4, <1>5 DEF Request

LEMMA ContinueGames ==
    ASSUME GamesInv, NEW c \in Clients, Continue(c) PROVE GamesInv'
<1>1. ~Stale(c)
  BY DEF Continue
<1>2. CASE AddPlayer(c)
  BY <1>2, AddPlayerGames
<1>3. CASE CreateGame(c)
  BY <1>3, CreateGameGames
<1>4. CASE StartPlay(c)
  BY <1>1, <1>4, StartPlayGames
<1>5. CASE SettleTurn(c)
  BY <1>1, <1>5, SettleTurnGames
<1>6. CASE RemoveFromGame(c)
  BY <1>1, <1>6, RemoveFromGameGames
<1>7. CASE RemoveFromRoom(c)
  BY <1>7, RemoveFromRoomGames
<1>8. CASE DestroyRoom(c)
  BY <1>8, DestroyRoomGames
<1>9. CASE FreeClient(c)
  BY <1>9, FreeClientGames
<1>10. CASE TakeOver(c)
  BY <1>10, TakeOverGames
<1> QED
  BY <1>2, <1>3, <1>4, <1>5, <1>6, <1>7, <1>8, <1>9, <1>10 DEF Continue

LEMMA CheckGames == ASSUME GamesInv, Check PROVE GamesInv'
<1>1. ASSUME NEW c \in Clients, PongTimeout(c) PROVE GamesInv'
  BY <1>1, ShutDownGames DEF PongTimeout
<1>2. ASSUME NEW c \in Clients, InactivityTimeout(c) PROVE GamesInv'
  BY <1>2, ShutDownGames DEF InactivityTimeout
<1>3. ASSUME NEW c \in Clients, Expire(c) PROVE GamesInv'
  BY <1>3, ExpireGames
<1> QED
  BY <1>1, <1>2, <1>3, ExpireRoomGames, ExpireClientGames DEF Check, Expiring

LEMMA UnchangedGames ==
    ASSUME GamesInv, UNCHANGED <<client, room, thread, checker, dangling>>
    PROVE  GamesInv'
<1>1. RoomsInv /\ RoomsInv'
  BY UnchangedSound DEF GamesInv
<1> QED
  BY <1>1, RoomsLeft, ClientsLeft, GamesQuietCheck

LEMMA NextGames == GamesInv /\ [Next]_vars => GamesInv'
<1> SUFFICES ASSUME GamesInv, [Next]_vars PROVE GamesInv'
  OBVIOUS
<1>1. CASE \E c \in Clients : Request(c)
  BY <1>1, RequestGames
<1>2. CASE \E c \in Clients : Continue(c)
  BY <1>2, ContinueGames
<1>3. CASE \E c \in Clients : Touch(c)
  BY <1>3, UnchangedGames DEF Touch
<1>4. CASE Check
  BY <1>4, CheckGames
<1>5. CASE TouchInCheck
  BY <1>5, UnchangedGames DEF TouchInCheck
<1>6. CASE UNCHANGED vars
  BY <1>6, UnchangedGames DEF vars
<1> QED
  BY <1>1, <1>2, <1>3, <1>4, <1>5, <1>6 DEF Next

\* The games, the threads that have one in hand and the owners who create them
\* stay within the inductive invariant.
THEOREM GamesInvariant == Spec => []GamesInv
<1> QED
  BY InitGames, NextGames, PTL DEF Spec

MemoryTyped == memory \in {"sound", "touched"}

LEMMA InitMemory == Init => MemoryTyped
BY DEF Init, MemoryTyped

LEMMA NextMemory == MemoryTyped /\ [Next]_vars => MemoryTyped'
<1> SUFFICES ASSUME MemoryTyped, [Next]_vars PROVE MemoryTyped'
  OBVIOUS
<1>1. CASE memory' = memory
  BY <1>1 DEF MemoryTyped
<1>2. CASE memory' = "touched"
  BY <1>2 DEF MemoryTyped
<1>3. ASSUME NEW c \in Clients, Request(c) PROVE memory' = memory
  <2>1. CASE Connect(c) \/ Enter(c)
    BY <2>1 DEF Connect, Enter, Hello, CreateRoom, FindRoom
  <2>2. CASE Play(c)
    BY <2>2 DEF Play, LeaveRoom, CheckStart, MarkReady, FlipOne
  <2>3. CASE Lose(c) \/ Return(c)
    BY <2>3 DEF Lose, LoseToGame, LoseAndKeep, LoseOutside, Return, FindSession
  <2> QED
    BY <1>3, <2>1, <2>2, <2>3 DEF Request
<1>4. ASSUME NEW c \in Clients, Continue(c) PROVE memory' = memory
  <2>1. CASE AddPlayer(c) \/ CreateGame(c) \/ StartPlay(c) \/ SettleTurn(c)
    BY <2>1, Zenon DEF AddPlayer, CreateGame, StartPlay, SettleTurn
  <2>2. CASE RemoveFromGame(c) \/ RemoveFromRoom(c) \/ DestroyRoom(c)
    BY <2>2, Zenon DEF RemoveFromGame, RemoveFromRoom, DestroyRoom
  <2>3. CASE FreeClient(c) \/ TakeOver(c)
    BY <2>3, Zenon DEF FreeClient, TakeOver
  <2> QED
    BY <1>4, <2>1, <2>2, <2>3 DEF Continue
<1>5. CASE Check
  BY <1>5, <1>1 DEF Check, Expiring, Expire, ExpireRoom, ExpireClient, PongTimeout,
                    InactivityTimeout, ShutDown
<1> QED
  BY <1>1, <1>2, <1>3, <1>4, <1>5 DEF Next, Touch, TouchInCheck, vars

LEMMA InvType == GamesInv /\ MemoryTyped => TypeOK
<1> SUFFICES ASSUME GamesInv, MemoryTyped PROVE TypeOK
  OBVIOUS
<1>1. RoomsInv /\ Typed
  BY DEF GamesInv, RoomsInv
<1>2. ASSUME NEW r \in RoomIds PROVE room[r] \in RoomType
  <2>1. PICK G : room \in [RoomIds -> Shape(G)]
    BY <1>1 DEF Typed
  <2>2. room[r] \in Shape(G)
    BY <2>1
  <2>3. room[r].count \in 0 .. MAX_PLAYERS_PER_ROOM
    <3>1. room[r].count \in Nat /\ room[r].count <= MaxPlayers
      BY <1>1, Counted
    <3> QED
      BY <3>1, RoomsAssumption DEF MAX_PLAYERS_PER_ROOM
  <2>4. room[r].game \in GameType \cup {NULL}
    BY DEF GamesInv, GameSound, InBounds
  <2> QED
    BY <2>2, <2>3, <2>4 DEF Shape, Filled, RoomType
<1>3. room \in [RoomIds -> RoomType]
  BY <1>1, <1>2 DEF Typed
<1> QED
  BY <1>1, <1>3 DEF TypeOK, Typed, GamesInv, MemoryTyped

\* Every object, thread and game keeps to its type, whichever handler threads
\* play, leave, lose or take over the clients of a room at the same time: no
\* index leaves its array (players[] of a room and of a game, the board), no
\* count exceeds MAX_PLAYERS_PER_ROOM, and check_match never divides by the
\* player_count of a game without players.
THEOREM RoomsTypeCorrect == Spec => []TypeOK
<1> QED
  BY GamesInvariant, InitMemory, NextMemory, InvType, PTL DEF Spec

-----------------------------------------------------------------------------
(* state and room of the clients.  In a room that lives on a client plays  *)
(* only while the room has a game, if nobody sits in two live rooms: the   *)
(* start of one game reaches the players of another otherwise.             *)

\* A client in STATE_IN_ROOM is in a room.
Placed(d) == client[d].state = "IN_ROOM" => client[d].room # NULL

Fits(r) ==
    room[r].life = "live" /\ r \notin Doomed =>
        \A d \in Clients :
            d \in SeatedIn(r) /\ client[d].state = "IN_GAME" => room[r].game # NULL

FitInv ==
    /\ PointInv
    /\ GamesInv
    /\ \A d \in Clients : Placed(d)
    /\ \A r \in RoomIds : Fits(r)

\* What a step may do to a client, and to a room: nobody begins to play, and a
\* room keeps its seats and, if it has one, a game.
Rests(d) == (client'[d].state = "IN_GAME" => client[d].state = "IN_GAME") /\ Placed(d)'

KeepsGame(r) == Kept(r) /\ (room[r].game # NULL => room'[r].game # NULL)

LEMMA StillFits ==
    ASSUME NEW r \in RoomIds, Fits(r), KeepsGame(r), r \in Doomed => r \in Doomed',
           \A d \in Clients :
               d \in SeatedIn(r) /\ client'[d].state = "IN_GAME" =>
                   client[d].state = "IN_GAME"
    PROVE  Fits(r)'
<1>1. SeatedIn(r)' = SeatedIn(r) /\ room'[r].life = room[r].life
  BY DEF KeepsGame, Kept, SeatedIn
<1> QED
  BY <1>1 DEF Fits, KeepsGame

LEMMA FitStep ==
    ASSUME FitInv, PointInv', GamesInv', \A d \in Clients : Rests(d),
           \A r \in RoomIds : \/ KeepsGame(r) /\ (r \in Doomed => r \in Doomed')
                              \/ Fits(r)'
    PROVE  FitInv'
<1>1. \A r \in RoomIds : Fits(r)'
  BY StillFits DEF FitInv, Rests
<1> QED
  BY <1>1 DEF FitInv, Rests

\* A handler goes on, in rooms that keep their games.
LEMMA FitHandler ==
    ASSUME FitInv, PointInv', GamesInv', NEW c \in Clients, NEW t, Goto(c, t),
           checker' = checker, thread[c].pc # "destroying",
           \A d \in Clients : Rests(d),
           \A r \in RoomIds : KeepsGame(r)
    PROVE  FitInv'
<1>1. \A r \in Doomed : r \in Doomed'
  BY StillDoomed DEF FitInv, PointInv
<1> QED
  BY <1>1, FitStep

LEMMA ClientsRest == ASSUME FitInv, client' = client PROVE \A d \in Clients : Rests(d)
BY DEF FitInv, Rests, Placed

LEMMA GamesKept == ASSUME room' = room PROVE \A r \in RoomIds : KeepsGame(r)
BY DEF KeepsGame, Kept

\* A client whose state and room are left alone.
LEMMA SameRests ==
    ASSUME FitInv, NEW d \in Clients,
           client'[d].state = client[d].state /\ client'[d].room = client[d].room
    PROVE  Rests(d)
BY DEF FitInv, Rests, Placed

-----------------------------------------------------------------------------
(* The actions that leave rooms and games alone.                           *)

LEMMA ConnectFits ==
    ASSUME FitInv, PointInv', GamesInv', NEW c \in Clients, Connect(c) PROVE FitInv'
<1>1. RoomsInv
  BY DEF FitInv, PointInv
<1>2. PICK evicted :
        client' = [d \in Clients |->
                      IF d = c THEN [client[d] EXCEPT !.life = "live", !.open = TRUE]
                      ELSE IF d \in evicted THEN [client[d] EXCEPT !.life = "freed"]
                      ELSE client[d]]
  BY DEF Connect
<1>3. /\ Goto(c, Idle) /\ UNCHANGED <<room, checker>> /\ thread[c].pc = "ended"
  BY <1>1 DEF Connect, RoomsInv, ThreadSound
<1>4. ASSUME NEW d \in Clients PROVE Rests(d)
  <2>1. client[d] \in ClientType
    BY <1>1 DEF RoomsInv, Typed
  <2>2. CASE client'[d] = [client[d] EXCEPT !.life = "live", !.open = TRUE]
    BY <2>1, <2>2, SameRests DEF ClientType
  <2>3. CASE client'[d] = [client[d] EXCEPT !.life = "freed"]
    BY <2>1, <2>3, SameRests DEF ClientType
  <2>4. CASE client'[d] = client[d]
    BY <2>4, SameRests
  <2> QED
    BY <1>2, <2>2, <2>3, <2>4
<1> QED
  BY <1>3, <1>4, GamesKept, FitHandler

LEMMA HelloFits ==
    ASSUME FitInv, PointInv', GamesInv', NEW c \in Clients, Hello(c) PROVE FitInv'
<1>1. RoomsInv
  BY DEF FitInv, PointInv
<1>2. /\ client' = [client EXCEPT ![c].state = "IN_LOBBY"]
      /\ UNCHANGED <<room, thread, checker>>
  BY DEF Hello
<1>3. ASSUME NEW d \in Clients PROVE Rests(d)
  <2>1. CASE d = c
    <3>1. client'[d].state = "IN_LOBBY"
      BY <1>1, <1>2, <2>1 DEF RoomsInv, Typed, ClientType
    <3> QED
      BY <3>1 DEF Rests, Placed
  <2>2. CASE d # c
    <3>1. client'[d] = client[d]
      BY <1>1, <1>2, <2>2 DEF RoomsInv, Typed
    <3> QED
      BY <3>1, SameRests
  <2> QED
    BY <2>1, <2>2
<1>4. \A r \in Doomed : r \in Doomed'
  BY <1>2 DEF Doomed
<1> QED
  BY <1>2, <1>3, <1>4, GamesKept, FitStep

\* The first critical sections of a request.
LEMMA AskedFits ==
    ASSUME FitInv, PointInv', GamesInv', NEW c \in Clients,
           \/ \E r \in RoomIds : FindRoom(c, r)
           \/ CheckStart(c)
           \/ LoseToGame(c)
           \/ \E old \in Clients : FindSession(c, old)
    PROVE  FitInv'
<1>1. PICK t : Goto(c, t) /\ UNCHANGED <<client, room, checker>> /\ thread[c].pc = "idle"
  <2>1. CASE \E r \in RoomIds : FindRoom(c, r)
    BY <2>1 DEF FindRoom, MayEnter, Listening, Ready
  <2>2. CASE CheckStart(c)
    BY <2>2 DEF CheckStart, Listening, Ready
  <2>3. CASE LoseToGame(c)
    BY <2>3 DEF LoseToGame, Ready
  <2>4. CASE \E old \in Clients : FindSession(c, old)
    BY <2>4 DEF FindSession, Listening, Ready
  <2> QED
    BY <2>1, <2>2, <2>3, <2>4
<1> QED
  BY <1>1, ClientsRest, GamesKept, FitHandler

LEMMA LoseAndKeepFits ==
    ASSUME FitInv, PointInv', GamesInv', NEW c \in Clients, LoseAndKeep(c) PROVE FitInv'
<1>1. RoomsInv
  BY DEF FitInv, PointInv
<1>2. /\ client' = [client EXCEPT ![c].down = TRUE, ![c].open = FALSE]
      /\ Goto(c, Pc("ended")) /\ UNCHANGED <<room, checker>> /\ thread[c].pc = "idle"
  BY DEF LoseAndKeep, Ready
<1>3. \A d \in Clients :
         client'[d].state = client[d].state /\ client'[d].room = client[d].room
  BY <1>1, <1>2 DEF RoomsInv, Typed, ClientType
<1> QED
  BY <1>2, <1>3, SameRests, GamesKept, FitHandler

LEMMA FreeClientFits ==
    ASSUME FitInv, PointInv', GamesInv', NEW c \in Clients, FreeClient(c) PROVE FitInv'
<1>1. RoomsInv
  BY DEF FitInv, PointInv
<1>2. /\ client' = [client EXCEPT ![c].life = "freed", ![c].open = FALSE]
      /\ Goto(c, Pc("ended")) /\ UNCHANGED <<room, checker>> /\ thread[c].pc = "freeing"
  BY DEF FreeClient, InStep
<1>3. \A d \in Clients :
         client'[d].state = client[d].state /\ client'[d].room = client[d].room
  BY <1>1, <1>2 DEF RoomsInv, Typed, ClientType
<1> QED
  BY <1>2, <1>3, SameRests, GamesKept, FitHandler

LEMMA ShutDownFits ==
    ASSUME FitInv, PointInv', GamesInv', NEW c \in Clients, NEW mark \in BOOLEAN,
           ShutDown(c, mark)
    PROVE  FitInv'
<1>1. RoomsInv
  BY DEF FitInv, PointInv
<1>2. /\ client' = [client EXCEPT ![c].down = @ \/ mark, ![c].open = FALSE]
      /\ UNCHANGED <<room, thread, checker>>
  BY DEF ShutDown
<1>3. \A d \in Clients :
         client'[d].state = client[d].state /\ client'[d].room = client[d].room
  BY <1>1, <1>2 DEF RoomsInv, Typed, ClientType
<1>4. \A r \in Doomed : r \in Doomed'
  BY <1>2 DEF Doomed
<1> QED
  BY <1>2, <1>3, <1>4, SameRests, GamesKept, FitStep

LEMMA ExpireClientFits ==
    ASSUME FitInv, PointInv', GamesInv', ExpireClient PROVE FitInv'
<1>1. RoomsInv
  BY DEF FitInv, PointInv
<1>2. /\ client' = [client EXCEPT ![checker.client].life = "freed"]
      /\ UNCHANGED <<room, thread>> /\ checker.pc = "freeing"
  BY DEF ExpireClient
<1>3. \A d \in Clients :
         client'[d].state = client[d].state /\ client'[d].room = client[d].room
  BY <1>1, <1>2 DEF RoomsInv, Typed, ClientType
<1>4. \A r \in Doomed : r \in Doomed'
  BY <1>2 DEF Doomed
<1> QED
  BY <1>2, <1>3, <1>4, SameRests, GamesKept, FitStep

-----------------------------------------------------------------------------
(* The actions that change the games.                                      *)

LEMMA GamePut ==
    ASSUME FitInv, NEW r \in RoomIds, NEW g, NEW st,
           \/ room' = [room EXCEPT ![r].game = g]
           \/ room' = [room EXCEPT ![r].game = g, ![r].state = st],
           room[r].game = NULL \/ InBounds(g)
    PROVE  \A s \in RoomIds : KeepsGame(s)
<1>1. RoomsInv
  BY DEF FitInv, PointInv
<1>2. \A s \in RoomIds : Kept(s) /\ room'[s].game = IF s = r THEN g ELSE room[s].game
  BY <1>1 DEF RoomsInv, Typed, Shape, Kept
<1>3. g = NULL => room[r].game = NULL
  BY NotNull
<1> QED
  BY <1>2, <1>3 DEF KeepsGame

LEMMA CreateGameFits ==
    ASSUME FitInv, PointInv', GamesInv', NEW c \in Clients, CreateGame(c) PROVE FitInv'
<1>1. thread[c].pc = "creating" /\ Goto(c, Idle) /\ UNCHANGED <<client, checker>>
  BY DEF CreateGame, InStep
<1>2. PICK r \in RoomIds : r = thread[c].room
  BY <1>1 DEF FitInv, PointInv, RoomsInv, ThreadSound, Holders
<1>3. PICK g : room' = [room EXCEPT ![r].game = g]
  BY <1>2 DEF CreateGame
<1>4. room[r].game = NULL
  BY <1>1, <1>2 DEF FitInv, GamesInv, Founding
<1>5. \A s \in RoomIds : KeepsGame(s)
  BY <1>3, <1>4, GamePut
<1> QED
  BY <1>1, <1>5, ClientsRest, FitHandler

LEMMA MarkReadyFits ==
    ASSUME FitInv, PointInv', GamesInv', NEW c \in Clients, MarkReady(c) PROVE FitInv'
<1>1. PICK r \in RoomIds : r = client[c].room
  BY DEF MarkReady, FitInv, PointInv, RoomsInv, Typed, ClientType
<1>2. PICK g, t : g = PlayerReady(room[r].game, c) /\ t = At("marked", r, "idle")
  OBVIOUS
<1>3. /\ Goto(c, t) /\ UNCHANGED <<client, checker>> /\ thread[c].pc = "idle"
      /\ room[r].game # NULL /\ room' = [room EXCEPT ![r].game = g]
  BY <1>1, <1>2 DEF MarkReady, Listening, Ready
<1>4. InBounds(g)
  BY <1>2, <1>3, ReadySeats, SameInBounds DEF FitInv, GamesInv, GameSound
<1>5. \A s \in RoomIds : KeepsGame(s)
  BY <1>3, <1>4, GamePut
<1> QED
  BY <1>3, <1>5, ClientsRest, FitHandler

LEMMA FlipOneFits ==
    ASSUME FitInv, PointInv', GamesInv', NEW c \in Clients, FlipOne(c) PROVE FitInv'
<1>1. PICK r \in RoomIds : r = client[c].room
  BY DEF FlipOne, FitInv, PointInv, RoomsInv, Typed, ClientType
<1>2. PICK i \in Cards : /\ CanFlip(room[r].game, c, i)
                         /\ room' = [room EXCEPT ![r].game = FlipCard(room[r].game, i)]
  BY <1>1 DEF FlipOne
<1>3. PICK g, t : g = FlipCard(room[r].game, i) /\ t = At("flipped", r, "idle")
  OBVIOUS
<1>4. /\ Goto(c, t) /\ UNCHANGED <<client, checker>> /\ thread[c].pc = "idle"
      /\ room[r].game # NULL /\ room' = [room EXCEPT ![r].game = g]
  BY <1>1, <1>2, <1>3 DEF FlipOne, Listening, Ready
<1>5. InBounds(g)
  BY <1>2, <1>3, <1>4, FlipSeats, SameInBounds DEF FitInv, GamesInv, GameSound
<1>6. \A s \in RoomIds : KeepsGame(s)
  BY <1>4, <1>5, GamePut
<1> QED
  BY <1>4, <1>6, ClientsRest, FitHandler

LEMMA RemoveFromGameFits ==
    ASSUME FitInv, PointInv', GamesInv', NEW c \in Clients, RemoveFromGame(c), ~Stale(c)
    PROVE  FitInv'
<1>1. thread[c].pc = "removing" /\ UNCHANGED <<client, checker>>
  BY DEF RemoveFromGame, InStep
<1>2. PICK r \in RoomIds : r = thread[c].room /\ InBounds(room[r].game)
  BY <1>1, HeldInStep DEF FitInv, GamePcs
<1>3. PICK g, t : g = RemovePlayer(room[r].game, c) /\ t = At("removed", r, "idle")
  OBVIOUS
<1>4. Goto(c, t) /\ room' = [room EXCEPT ![r].game = g]
  BY <1>2, <1>3 DEF RemoveFromGame
<1>5. InBounds(g)
  BY <1>2, <1>3, RemoveInBounds
<1>6. \A s \in RoomIds : KeepsGame(s)
  BY <1>4, <1>5, GamePut
<1> QED
  BY <1>1, <1>4, <1>6, ClientsRest, FitHandler

\* The start of a game makes those players of it who sit in no other room.
LEMMA StartPlayFits ==
    ASSUME FitInv, PointInv', GamesInv', SeatedOnce, NEW c \in Clients, StartPlay(c),
           ~Stale(c)
    PROVE  FitInv'
<1>1. RoomsInv /\ PointInv /\ GamesInv
  BY DEF FitInv, PointInv
<1>2. thread[c].pc = "marked" /\ Goto(c, Idle) /\ checker' = checker
  BY DEF StartPlay, InStep
<1>3. PICK r \in RoomIds : r = thread[c].room /\ InBounds(room[r].game)
  BY <1>1, <1>2, HeldInStep DEF GamePcs
<1>4. PICK g : g = Start(room[r].game)
  OBVIOUS
<1>5. \/ UNCHANGED <<client, room>>
      \/ /\ room' = [room EXCEPT ![r].game = g, ![r].state = "PLAYING"]
         /\ client' = [d \in Clients |->
                          IF d \in FirstPlaces(r)
                          THEN [client[d] EXCEPT !.state = "IN_GAME"]
                          ELSE client[d]]
  BY <1>3, <1>4 DEF StartPlay
<1>6. CASE UNCHANGED <<client, room>>
  BY <1>2, <1>6, ClientsRest, GamesKept, FitHandler
<1>7. CASE /\ room' = [room EXCEPT ![r].game = g, ![r].state = "PLAYING"]
           /\ client' = [d \in Clients |->
                            IF d \in FirstPlaces(r)
                            THEN [client[d] EXCEPT !.state = "IN_GAME"]
                            ELSE client[d]]
  <2>1. InBounds(g) /\ g # NULL
    BY <1>3, <1>4, StartSeats, SameInBounds, NotNull
  <2>2. \A s \in RoomIds : Kept(s) /\ room'[s].game = IF s = r THEN g ELSE room[s].game
    BY <1>1, <1>7 DEF RoomsInv, Typed, Shape, Kept
  <2>3. \A s \in RoomIds : KeepsGame(s)
    BY <2>1, <2>2 DEF KeepsGame
  <2>4. \A s \in Doomed : s \in Doomed'
    BY <1>1, <1>2, StillDoomed
  <2>5. FirstPlaces(r) \subseteq SeatedIn(r)
    BY <1>1, FirstPlacesSeated
  <2>6. ASSUME NEW d \in Clients
        PROVE  \/ client'[d] = client[d]
               \/ /\ d \in SeatedIn(r) /\ client'[d].state = "IN_GAME"
    <3>1. client[d] \in ClientType
      BY <1>1 DEF RoomsInv, Typed
    <3>2. CASE d \in FirstPlaces(r)
      <4>1. client'[d] = [client[d] EXCEPT !.state = "IN_GAME"]
        BY <1>7, <3>2
      <4> QED
        BY <2>5, <3>1, <3>2, <4>1 DEF ClientType
    <3>3. CASE d \notin FirstPlaces(r)
      BY <1>7, <3>3
    <3> QED
      BY <3>2, <3>3
  <2>7. \A d \in Clients : Placed(d)'
    BY <2>6 DEF FitInv, Placed
  <2>8. room[r].life # "freed"
    BY <1>2, <1>3, RoomsAssumption DEF Stale, InUse, StaleRoom
  <2>9. ASSUME NEW s \in RoomIds PROVE Fits(s)'
    <3>1. CASE s = r
      BY <2>1, <2>2, <3>1 DEF Fits
    <3>2. CASE s # r /\ room[s].life = "live"
      <4>1. ASSUME NEW d \in Clients, d \in SeatedIn(s) PROVE d \notin SeatedIn(r)
        <5>1. CASE room[r].life = "live"
          BY <3>2, <4>1, <5>1 DEF SeatedOnce, Alive
        <5>2. CASE room[r].life = "unborn"
          BY <1>1, <5>2 DEF PointInv, Points
        <5>3. room[r].life \in Lives
          BY <1>1 DEF RoomsInv, Typed, Shape
        <5> QED
          BY <2>8, <5>1, <5>2, <5>3 DEF Lives
      <4>2. \A d \in Clients :
               d \in SeatedIn(s) /\ client'[d].state = "IN_GAME" =>
                   client[d].state = "IN_GAME"
        BY <2>6, <4>1
      <4> QED
        BY <2>3, <2>4, <4>2, StillFits DEF FitInv
    <3>3. CASE room[s].life # "live"
      BY <2>2, <3>3 DEF Fits, Kept
    <3> QED
      BY <3>1, <3>2, <3>3
  <2> QED
    BY <2>7, <2>9 DEF FitInv
<1> QED
  BY <1>5, <1>6, <1>7

-----------------------------------------------------------------------------
(* The actions that send clients to the lobby.                             *)

LEMMA LobbyRests ==
    ASSUME FitInv, NEW S, client' = ToLobby(S), NEW d \in Clients
    PROVE  Rests(d)
<1>1. client[d] \in ClientType
  BY DEF FitInv, PointInv, RoomsInv, Typed
<1>2. CASE d \in S
  <2>1. client'[d] = [client[d] EXCEPT !.room = NULL, !.state = "IN_LOBBY"]
    BY <1>2 DEF ToLobby
  <2>2. client'[d].state = "IN_LOBBY"
    BY <1>1, <2>1, LobbySet
  <2> QED
    BY <2>2 DEF Rests, Placed
<1>3. CASE d \notin S
  <2>1. client'[d] = client[d]
    BY <1>3 DEF ToLobby
  <2> QED
    BY <2>1, SameRests
<1> QED
  BY <1>2, <1>3

\* One room changes, and it fits, or it is given up, or freed.
LEMMA FitLobby ==
    ASSUME FitInv, PointInv', GamesInv', NEW r \in RoomIds, NEW S, client' = ToLobby(S),
           \A s \in Doomed : s \in Doomed' \/ s = r,
           \A s \in RoomIds \ {r} : Kept(s) /\ room'[s].game = room[s].game,
           Fits(r)'
    PROVE  FitInv'
<1>1. \A d \in Clients : Rests(d)
  BY LobbyRests
<1>2. \A s \in RoomIds : (KeepsGame(s) /\ (s \in Doomed => s \in Doomed')) \/ Fits(s)'
  BY DEF KeepsGame
<1> QED
  BY <1>1, <1>2, FitStep

LEMMA SettleTurnFits ==
    ASSUME FitInv, PointInv', GamesInv', NEW c \in Clients, SettleTurn(c), ~Stale(c)
    PROVE  FitInv'
<1>1. RoomsInv
  BY DEF FitInv, PointInv
<1>2. thread[c].pc = "flipped" /\ checker' = checker
  BY DEF SettleTurn, InStep
<1>3. PICK r \in RoomIds : /\ r = thread[c].room
                           /\ InBounds(room[r].game) /\ PlaysIn(room[r].game, c)
  BY <1>2, HeldInStep DEF GamePcs, FitInv
<1>4. PICK g, t : g = CheckMatch(room[r].game) /\ t = At("destroying", r, "idle")
  OBVIOUS
<1>5. \/ /\ Goto(c, Idle) /\ client' = client
         /\ room' = [room EXCEPT ![r].game = g]
      \/ /\ Goto(c, t) /\ client' = ToLobby(FirstPlaces(r))
         /\ room' = [room EXCEPT ![r].game = NULL, ![r].state = "FINISHED"]
  BY <1>3, <1>4 DEF SettleTurn
<1>6. CASE Goto(c, Idle) /\ client' = client /\ room' = [room EXCEPT ![r].game = g]
  <2>1. room[r].game.count > 0
    BY <1>3 DEF PlaysIn, Seats, InBounds, GameType, MAX_PLAYERS_PER_ROOM
  <2>2. InBounds(g)
    BY <1>3, <1>4, <2>1, CheckSeats, SameInBounds
  <2>3. \A s \in RoomIds : KeepsGame(s)
    BY <1>6, <2>2, GamePut
  <2> QED
    BY <1>2, <1>6, <2>3, ClientsRest, FitHandler
<1>7. CASE /\ Goto(c, t) /\ client' = ToLobby(FirstPlaces(r))
           /\ room' = [room EXCEPT ![r].game = NULL, ![r].state = "FINISHED"]
  <2>1. t.pc = "destroying" /\ t.room = r
    BY <1>4 DEF At
  <2>2. r \in Doomed' /\ \A s \in Doomed : s \in Doomed'
    BY <1>1, <1>2, <1>7, <2>1, StillDoomed
  <2>3. \A s \in RoomIds \ {r} : Kept(s) /\ room'[s].game = room[s].game
    BY <1>1, <1>7 DEF RoomsInv, Typed, Shape, Kept
  <2>4. Fits(r)'
    BY <2>2 DEF Fits
  <2> QED
    BY <1>7, <2>2, <2>3, <2>4, FitLobby
<1> QED
  BY <1>5, <1>6, <1>7

\* Nobody is left in an emptied room.
LEMMA EmptiedFits ==
    ASSUME RoomsInv, NEW r \in RoomIds, room' = Emptied(r)
    PROVE  /\ Fits(r)'
           /\ \A s \in RoomIds \ {r} : Kept(s) /\ room'[s].game = room[s].game
<1>1. Becomes(r, room[r].life, EmptySeats, 0, room[r].owner)
  BY EmptiedRoom DEF RoomsInv
<1>2. SeatedIn(r)' = {}
  BY <1>1 DEF Becomes, SeatedIn, EmptySeats
<1>3. \A s \in RoomIds \ {r} : Kept(s)
  BY <1>1 DEF Becomes
<1> QED
  BY <1>2, <1>3, EmptiedGames DEF Fits

LEMMA RemoveFromFits ==
    ASSUME FitInv, PointInv', GamesInv', NEW r \in RoomIds, NEW c \in Clients, NEW next,
           RemoveFrom(r, c, next), checker' = checker, thread[c].pc # "destroying"
    PROVE  FitInv'
<1>1. RoomsInv
  BY DEF FitInv, PointInv
<1>2. PICK out : out = At("destroying", r, next)
  OBVIOUS
<1>3. CASE Goto(c, Pc(next)) /\ UNCHANGED <<client, room>>
  BY <1>3, ClientsRest, GamesKept, FitHandler
<1>4. CASE room' = Emptied(r) /\ client' = ToLobby(SeatedIn(r)) /\ Goto(c, out)
  <2>1. \A s \in Doomed : s \in Doomed'
    BY <1>1, <1>4, StillDoomed
  <2>2. /\ Fits(r)'
        /\ \A s \in RoomIds \ {r} : Kept(s) /\ room'[s].game = room[s].game
    BY <1>1, <1>4, EmptiedFits
  <2> QED
    BY <1>4, <2>1, <2>2, FitLobby
<1>5. CASE /\ ~NotFound(r, c)
           /\ room' = [room EXCEPT ![r].players = Without(r, c), ![r].count = @ - 1,
                                   ![r].owner = OwnerWithout(r, c)]
           /\ client' = ToLobby(IF Orphans(r, c) THEN SeatedIn(r) ELSE {c})
           /\ Goto(c, IF Closes(r, c) THEN out ELSE Pc(next))
  <2>1. PICK t : Goto(c, t)
    BY <1>5
  <2>2. PICK S : client' = ToLobby(S)
    BY <1>5
  <2>3. PICK ps, n, o : ps = Without(r, c) /\ n = room[r].count - 1 /\ o = OwnerWithout(r, c)
    OBVIOUS
  <2>4. room' = [room EXCEPT ![r].players = ps, ![r].count = n, ![r].owner = o]
    BY <1>1, <1>5, <2>3 DEF RoomsInv, Typed, Shape
  <2>5. /\ \A s \in RoomIds \ {r} : Kept(s) /\ room'[s].game = room[s].game
        /\ room'[r].life = room[r].life /\ room'[r].game = room[r].game
        /\ room'[r].players = ps
    BY <1>1, <2>4 DEF RoomsInv, Typed, Shape, Kept
  <2>6. \A s \in Doomed : s \in Doomed'
    BY <1>1, <2>1, StillDoomed
  <2>7. SeatedIn(r)' \subseteq SeatedIn(r)
    BY <2>3, <2>5 DEF SeatedIn, Without
  <2>8. Fits(r)'
    <3>1. \A d \in Clients : client'[d].state = "IN_GAME" => client[d].state = "IN_GAME"
      BY <2>2, LobbyRests DEF Rests
    <3> QED
      BY <2>5, <2>6, <2>7, <3>1 DEF FitInv, Fits
  <2> QED
    BY <2>2, <2>5, <2>6, <2>8, FitLobby
<1> QED
  BY <1>2, <1>3, <1>4, <1>5 DEF RemoveFrom

LEMMA LeaveRoomFits ==
    ASSUME FitInv, PointInv', GamesInv', NEW c \in Clients, LeaveRoom(c) PROVE FitInv'
<1>1. PICK r \in RoomIds : r = client[c].room
  BY DEF LeaveRoom, FitInv, PointInv, RoomsInv, Typed, ClientType
<1>2. RemoveFrom(r, c, "idle") /\ checker' = checker /\ thread[c].pc = "idle"
  BY <1>1 DEF LeaveRoom, Listening, Ready
<1> QED
  BY <1>2, RemoveFromFits

LEMMA RemoveFromRoomFits ==
    ASSUME FitInv, PointInv', GamesInv', NEW c \in Clients, RemoveFromRoom(c)
    PROVE  FitInv'
<1>1. PICK r \in RoomIds : r = thread[c].room
  BY DEF RemoveFromRoom, InStep, FitInv, PointInv, RoomsInv, ThreadSound, Holders
<1>2. RemoveFrom(r, c, "freeing") /\ checker' = checker /\ thread[c].pc = "removed"
  BY <1>1 DEF RemoveFromRoom, InStep
<1> QED
  BY <1>2, RemoveFromFits

LEMMA LoseOutsideFits ==
    ASSUME FitInv, PointInv', GamesInv', NEW c \in Clients, LoseOutside(c) PROVE FitInv'
<1>1. /\ thread[c].pc = "idle" /\ checker' = checker
      /\ \/ client[c].room # NULL /\ RemoveFrom(client[c].room, c, AfterLoss(c))
         \/ Goto(c, Pc(AfterLoss(c))) /\ UNCHANGED <<client, room>>
  BY DEF LoseOutside, Ready
<1>2. CASE client[c].room # NULL /\ RemoveFrom(client[c].room, c, AfterLoss(c))
  <2>1. PICK r \in RoomIds : r = client[c].room
    BY <1>2 DEF FitInv, PointInv, RoomsInv, Typed, ClientType
  <2>2. RemoveFrom(r, c, AfterLoss(c))
    BY <1>2, <2>1
  <2> QED
    BY <1>1, <2>2, RemoveFromFits
<1>3. CASE Goto(c, Pc(AfterLoss(c))) /\ UNCHANGED <<client, room>>
  BY <1>1, <1>3, ClientsRest, GamesKept, FitHandler
<1> QED
  BY <1>1, <1>2, <1>3

LEMMA ExpireFits ==
    ASSUME FitInv, PointInv', GamesInv', NEW c \in Clients, Expire(c) PROVE FitInv'
<1>1. RoomsInv
  BY DEF FitInv, PointInv
<1>2. PICK r : r = client[c].room
  OBVIOUS
<1>3. /\ checker.pc = "idle" /\ thread' = thread
      /\ \/ /\ r # NULL /\ client' = ToLobby(SeatedIn(r)) /\ room' = Emptied(r)
         \/ UNCHANGED <<client, room>>
  BY <1>2 DEF Expire, Expired
<1>4. \A s \in Doomed : s \in Doomed'
  BY <1>3 DEF Doomed
<1>5. CASE UNCHANGED <<client, room>>
  BY <1>4, <1>5, ClientsRest, GamesKept, FitStep
<1>6. CASE r # NULL /\ client' = ToLobby(SeatedIn(r)) /\ room' = Emptied(r)
  <2>1. r \in RoomIds
    BY <1>1, <1>2, <1>6 DEF RoomsInv, Typed, ClientType
  <2>2. /\ Fits(r)'
        /\ \A s \in RoomIds \ {r} : Kept(s) /\ room'[s].game = room[s].game
    BY <1>1, <1>6, <2>1, EmptiedFits
  <2> QED
    BY <1>4, <1>6, <2>1, <2>2, FitLobby
<1> QED
  BY <1>3, <1>5, <1>6

LEMMA FreedFits ==
    ASSUME RoomsInv, NEW r \in RoomIds, Destroyed(r)
    PROVE  /\ Fits(r)' /\ client' = ToLobby(SeatedIn(r))
           /\ \A s \in RoomIds \ {r} : Kept(s) /\ room'[s].game = room[s].game
<1>1. /\ room'[r].life = "freed" /\ client' = ToLobby(SeatedIn(r))
      /\ \A s \in RoomIds \ {r} : Kept(s)
  BY FreedPoints
<1> QED
  BY <1>1, FreedGames DEF Fits

LEMMA DestroyRoomFits ==
    ASSUME FitInv, PointInv', GamesInv', NEW c \in Clients, DestroyRoom(c) PROVE FitInv'
<1>1. RoomsInv
  BY DEF FitInv, PointInv
<1>2. PICK r \in RoomIds : r = thread[c].room
  BY <1>1 DEF DestroyRoom, InStep, RoomsInv, ThreadSound, Holders
<1>3. PICK t : thread[c].pc = "destroying" /\ Destroyed(r) /\ Goto(c, t) /\ checker' = checker
  BY <1>2 DEF DestroyRoom, InStep
<1>4. \A s \in Doomed : s \in Doomed' \/ s = r
  BY <1>1, <1>2, <1>3, DoomedAfter DEF Goto, RoomsInv, Typed
<1> QED
  BY <1>1, <1>3, <1>4, FreedFits, FitLobby

LEMMA ExpireRoomFits ==
    ASSUME FitInv, PointInv', GamesInv', ExpireRoom PROVE FitInv'
<1>1. RoomsInv
  BY DEF FitInv, PointInv
<1>2. PICK r \in RoomIds : r = checker.room
  BY <1>1 DEF ExpireRoom, RoomsInv, CheckerSound
<1>3. checker.pc = "destroying" /\ Destroyed(r) /\ thread' = thread
  BY <1>2 DEF ExpireRoom
<1>4. \A s \in Doomed : s \in Doomed' \/ s = r
  BY <1>2, <1>3 DEF Doomed
<1> QED
  BY <1>1, <1>3, <1>4, FreedFits, FitLobby

-----------------------------------------------------------------------------
(* The actions that take a place in a room.                                *)

LEMMA EnteredRests ==
    ASSUME FitInv, NEW c \in Clients, NEW r \in RoomIds,
           client' = [client EXCEPT ![c].room = r, ![c].state = "IN_ROOM"]
    PROVE  /\ \A d \in Clients : Rests(d)
           /\ client'[c].state = "IN_ROOM"
<1>1. RoomsInv
  BY DEF FitInv, PointInv
<1>2. /\ client'[c].state = "IN_ROOM" /\ client'[c].room = r
      /\ \A d \in Clients \ {c} : client'[d] = client[d]
  BY <1>1 DEF RoomsInv, Typed, ClientType
<1>3. ASSUME NEW d \in Clients PROVE Rests(d)
  <2>1. CASE d = c
    BY <1>2, <2>1, RoomsAssumption DEF Rests, Placed
  <2>2. CASE d # c
    BY <1>2, <2>2, SameRests
  <2> QED
    BY <2>1, <2>2
<1> QED
  BY <1>2, <1>3

LEMMA CreateRoomFits ==
    ASSUME FitInv, PointInv', GamesInv', NEW c \in Clients, NEW r \in RoomIds,
           CreateRoom(c, r)
    PROVE  FitInv'
<1>1. RoomsInv
  BY DEF FitInv, PointInv
<1>2. PICK ps : ps = [EmptySeats EXCEPT ![0] = c]
  OBVIOUS
<1>3. /\ client' = [client EXCEPT ![c].room = r, ![c].state = "IN_ROOM"]
      /\ room' = [room EXCEPT ![r].life = "live", ![r].owner = c, ![r].count = 1,
                              ![r].players = ps]
      /\ UNCHANGED <<thread, checker>>
  BY <1>2 DEF CreateRoom
<1>4. /\ \A s \in RoomIds \ {r} : Kept(s) /\ room'[s].game = room[s].game
      /\ room'[r].players = ps
  BY <1>1, <1>3 DEF RoomsInv, Typed, Shape, Kept
<1>5. (\A d \in Clients : Rests(d)) /\ client'[c].state = "IN_ROOM"
  BY <1>3, EnteredRests
<1>6. SeatedIn(r)' \subseteq {c}
  BY <1>2, <1>4 DEF SeatedIn, EmptySeats
<1>7. Fits(r)'
  BY <1>5, <1>6 DEF Fits
<1>8. Doomed' = Doomed
  BY <1>3 DEF Doomed
<1>9. \A s \in RoomIds : (KeepsGame(s) /\ (s \in Doomed => s \in Doomed')) \/ Fits(s)'
  BY <1>4, <1>7, <1>8 DEF KeepsGame
<1> QED
  BY <1>5, <1>9, FitStep

LEMMA AddPlayerFits ==
    ASSUME FitInv, PointInv', GamesInv', NEW c \in Clients, AddPlayer(c) PROVE FitInv'
<1>1. RoomsInv
  BY DEF FitInv, PointInv
<1>2. PICK r \in RoomIds : r = thread[c].room
  BY <1>1 DEF AddPlayer, InStep, RoomsInv, ThreadSound, Holders
<1>3. /\ thread[c].pc = "joining" /\ Goto(c, Idle) /\ checker' = checker
      /\ \/ UNCHANGED <<client, room>>
         \/ /\ \E i : room' = [room EXCEPT ![r].players[i] = c, ![r].count = @ + 1]
            /\ client' = [client EXCEPT ![c].room = r, ![c].state = "IN_ROOM"]
  BY <1>2 DEF AddPlayer, InStep
<1>4. CASE UNCHANGED <<client, room>>
  BY <1>3, <1>4, ClientsRest, GamesKept, FitHandler
<1>5. CASE /\ \E i : room' = [room EXCEPT ![r].players[i] = c, ![r].count = @ + 1]
           /\ client' = [client EXCEPT ![c].room = r, ![c].state = "IN_ROOM"]
  <2>1. PICK i : room' = [room EXCEPT ![r].players[i] = c, ![r].count = @ + 1]
    BY <1>5
  <2>2. PICK ps, n : ps = [room[r].players EXCEPT ![i] = c] /\ n = room[r].count + 1
    OBVIOUS
  <2>3. room' = [room EXCEPT ![r].players = ps, ![r].count = n]
    BY <1>1, <2>1, <2>2 DEF RoomsInv, Typed, Shape
  <2>4. /\ \A s \in RoomIds \ {r} : Kept(s) /\ room'[s].game = room[s].game
        /\ room'[r].life = room[r].life /\ room'[r].game = room[r].game
        /\ room'[r].players = ps
    BY <1>1, <2>3 DEF RoomsInv, Typed, Shape, Kept
  <2>5. (\A d \in Clients : Rests(d)) /\ client'[c].state = "IN_ROOM"
    BY <1>5, EnteredRests
  <2>6. SeatedIn(r)' \subseteq SeatedIn(r) \cup {c}
    <3>1. room[r].players \in Filled
      BY <1>1, Counted
    <3>2. \A j \in Slots : ps[j] \in {room[r].players[j], c}
      BY <2>2, <3>1 DEF Filled
    <3> QED
      BY <2>4, <3>2 DEF SeatedIn
  <2>7. \A s \in Doomed : s \in Doomed'
    BY <1>1, <1>3, StillDoomed
  <2>8. Fits(r)'
    BY <2>4, <2>5, <2>6, <2>7 DEF FitInv, Fits, Rests
  <2>9. \A s \in RoomIds : (KeepsGame(s) /\ (s \in Doomed => s \in Doomed')) \/ Fits(s)'
    BY <2>4, <2>7, <2>8 DEF KeepsGame
  <2> QED
    BY <2>5, <2>9, FitStep
<1> QED
  BY <1>3, <1>4, <1>5

\* The client that reconnects plays on if the old one had played.
LEMMA TakeOverFits ==
    ASSUME FitInv, PointInv', GamesInv', NEW c \in Clients, TakeOver(c) PROVE FitInv'
<1>1. RoomsInv
  BY DEF FitInv, PointInv
<1>2. thread[c].pc = "reconnecting" /\ Goto(c, Idle) /\ checker' = checker
  BY Zenon DEF TakeOver, InStep
<1>3. PICK old \in Clients : old = thread[c].old
  BY <1>1, <1>2 DEF RoomsInv, ThreadSound
<1>4. client[c].state = "CONNECTED" /\ c # old
  BY <1>1, <1>2, <1>3 DEF RoomsInv, ThreadSound
<1>5. PICK r, st : r = client[old].room /\ st = client[old].state
  OBVIOUS
<1>6. /\ client' = [client EXCEPT ![c].state = st, ![c].room = r,
                                  ![old].life = "freed", ![old].open = FALSE]
      /\ \/ r = NULL /\ room' = room
         \/ /\ r # NULL
            /\ room' = [room EXCEPT
                   ![r].players = Swap(@, room[r].count, old, c),
                   ![r].game = SwapInGame(@, old, c)]
  BY <1>3, <1>5, ZenonT(60) DEF TakeOver
<1>7. /\ client'[c].state = st /\ client'[c].room = r
      /\ client'[old].state = st /\ client'[old].room = r
      /\ \A d \in Clients \ {c, old} : client'[d] = client[d]
  BY <1>1, <1>4, <1>5, <1>6 DEF RoomsInv, Typed, ClientType
<1>8. \A d \in Clients : Placed(d)'
  BY <1>5, <1>7 DEF FitInv, Placed
<1>9. ASSUME NEW s \in RoomIds PROVE c \notin SeatedIn(s)
  BY <1>1, <1>4, SeatedClients
<1>10. \A s \in Doomed : s \in Doomed'
  BY <1>1, <1>2, StillDoomed
<1>11. \A d \in Clients \ {c} : client'[d].state = client[d].state
  BY <1>5, <1>7
<1>12. ASSUME NEW s \in RoomIds, KeepsGame(s) PROVE Fits(s)'
  BY <1>9, <1>10, <1>11, <1>12, StillFits DEF FitInv
<1>13. CASE room' = room
  BY <1>8, <1>12, <1>13, GamesKept DEF FitInv
<1>14. CASE /\ r # NULL
            /\ room' = [room EXCEPT
                   ![r].players = Swap(@, room[r].count, old, c),
                   ![r].game = SwapInGame(@, old, c)]
  <2>1. r \in RoomIds
    BY <1>1, <1>5, <1>14 DEF RoomsInv, Typed, ClientType
  <2>2. PICK ps, g : /\ ps = Swap(room[r].players, room[r].count, old, c)
                     /\ g = SwapInGame(room[r].game, old, c)
    OBVIOUS
  <2>3. room' = [room EXCEPT ![r].players = ps, ![r].game = g]
    BY <1>1, <1>14, <2>1, <2>2 DEF RoomsInv, Typed, Shape
  <2>4. /\ \A s \in RoomIds \ {r} : Kept(s) /\ room'[s].game = room[s].game
        /\ room'[r].life = room[r].life /\ room'[r].game = g /\ room'[r].players = ps
    BY <1>1, <2>1, <2>3 DEF RoomsInv, Typed, Shape, Kept
  <2>5. \A s \in RoomIds \ {r} : Fits(s)'
    BY <1>12, <2>4 DEF KeepsGame
  <2>6. g = NULL => room[r].game = NULL
    <3>1. CASE room[r].game # NULL
      BY <2>1, <2>2, <3>1, SwapInBounds, NotNull DEF FitInv, GamesInv, GameSound
    <3> QED
      BY <3>1
  <2>7. \A i \in Slots : \/ ps[i] = room[r].players[i]
                         \/ ps[i] = c /\ room[r].players[i] = old
    BY <2>2 DEF Swap
  <2>8. ASSUME NEW d \in Clients, d \in SeatedIn(r)', client'[d].state = "IN_GAME"
        PROVE  \E e \in Clients : e \in SeatedIn(r) /\ client[e].state = "IN_GAME"
    <3>1. PICK i \in Slots : ps[i] = d
      BY <2>4, <2>8 DEF SeatedIn
    <3>2. CASE room[r].players[i] = d
      <4>1. d \in SeatedIn(r) /\ d # c
        BY <1>9, <2>1, <3>2, ClientsAssumption DEF SeatedIn
      <4> QED
        BY <1>11, <2>8, <4>1
    <3>3. CASE d = c /\ room[r].players[i] = old
      <4>1. old \in SeatedIn(r)
        BY <3>3, ClientsAssumption DEF SeatedIn
      <4> QED
        BY <1>5, <1>7, <2>8, <3>3, <4>1
    <3> QED
      BY <2>7, <3>1, <3>2, <3>3
  <2>9. Fits(r)'
    BY <1>10, <2>1, <2>4, <2>6, <2>8 DEF FitInv, Fits
  <2> QED
    BY <1>8, <2>5, <2>9 DEF FitInv
<1> QED
  BY <1>6, <1>13, <1>14

-----------------------------------------------------------------------------
(* Every step.                                                             *)

LEMMA InitFits == Init => FitInv
<1> SUFFICES ASSUME Init PROVE FitInv
  OBVIOUS
<1>1. PointInv /\ GamesInv
  BY InitPoints, InitGames
<1>2. \A d \in Clients : Placed(d)
  BY DEF Init, Placed
<1>3. \A r \in RoomIds : Fits(r)
  BY DEF Init, Fits
<1> QED
  BY <1>1, <1>2, <1>3 DEF FitInv

LEMMA RequestFits ==
    ASSUME FitInv, PointInv', GamesInv', NEW c \in Clients, Request(c) PROVE FitInv'
<1>1. CASE Connect(c)
  BY <1>1, ConnectFits
<1>2. CASE Enter(c)
  <2>1. CASE Hello(c)
    BY <2>1, HelloFits
  <2>2. CASE \E r \in RoomIds : CreateRoom(c, r)
    BY <2>2, CreateRoomFits
  <2>3. CASE \E r \in RoomIds : FindRoom(c, r)
    BY <2>3, AskedFits
  <2> QED
    BY <1>2, <2>1, <2>2, <2>3 DEF Enter
<1>3. CASE Play(c)
  <2>1. CASE LeaveRoom(c)
    BY <2>1, LeaveRoomFits
  <2>2. CASE CheckStart(c)
    BY <2>2, AskedFits
  <2>3. CASE MarkReady(c)
    BY <2>3, MarkReadyFits
  <2>4. CASE FlipOne(c)
    BY <2>4, FlipOneFits
  <2> QED
    BY <1>3, <2>1, <2>2, <2>3, <2>4 DEF Play
<1>4. CASE Lose(c)
  BY <1>4, AskedFits, LoseAndKeepFits, LoseOutsideFits DEF Lose
<1>5. CASE Return(c)
  BY <1>5, AskedFits DEF Return
<1> QED
  BY <1>1, <1>2, <1>3, <1>4, <1>5 DEF Request

LEMMA ContinueFits ==
    ASSUME FitInv, PointInv', GamesInv', SeatedOnce, NEW c \in Clients, Continue(c)
    PROVE  FitInv'
<1>1. ~Stale(c)
  BY DEF Continue
<1>2. CASE AddPlayer(c)
  BY <1>2, AddPlayerFits
<1>3. CASE CreateGame(c)
  BY <1>3, CreateGameFits
<1>4. CASE StartPlay(c)
  BY <1>1, <1>4, StartPlayFits
<1>5. CASE SettleTurn(c)
  BY <1>1, <1>5, SettleTurnFits
<1>6. CASE RemoveFromGame(c)
  BY <1>1, <1>6, RemoveFromGameFits
<1>7. CASE RemoveFromRoom(c)
  BY <1>7, RemoveFromRoomFits
<1>8. CASE DestroyRoom(c)
  BY <1>8, DestroyRoomFits
<1>9. CASE FreeClient(c)
  BY <1>9, FreeClientFits
<1>10. CASE TakeOver(c)
  BY <1>10, TakeOverFits
<1> QED
  BY <1>2, <1>3, <1>4, <1>5, <1>6, <1>7, <1>8, <1>9, <1>10 DEF Continue

LEMMA CheckFits == ASSUME FitInv, PointInv', GamesInv', Check PROVE FitInv'
<1>1. ASSUME NEW c \in Clients, PongTimeout(c) PROVE FitInv'
  BY <1>1, ShutDownFits DEF PongTimeout
<1>2. ASSUME NEW c \in Clients, InactivityTimeout(c) PROVE FitInv'
  BY <1>2, ShutDownFits DEF InactivityTimeout
<1>3. ASSUME NEW c \in Clients, Expire(c) PROVE FitInv'
  BY <1>3, ExpireFits
<1> QED
  BY <1>1, <1>2, <1>3, ExpireRoomFits, ExpireClientFits DEF Check, Expiring

LEMMA UnchangedFits ==
    ASSUME FitInv, PointInv', GamesInv', UNCHANGED <<client, room, thread, checker>>
    PROVE  FitInv'
<1>1. Doomed' = Doomed
  BY DEF Doomed
<1> QED
  BY <1>1, ClientsRest, GamesKept, FitStep

LEMMA NextFits == FitInv /\ SeatedOnce /\ SeatedOnce' /\ [Next]_vars => FitInv'
<1> SUFFICES ASSUME FitInv, SeatedOnce, SeatedOnce', [Next]_vars PROVE FitInv'
  OBVIOUS
<1>1. PointInv' /\ GamesInv'
  BY NextPoints, NextGames DEF FitInv
<1>2. CASE \E c \in Clients : Request(c)
  BY <1>1, <1>2, RequestFits
<1>3. CASE \E c \in Clients : Continue(c)
  BY <1>1, <1>3, ContinueFits
<1>4. CASE \E c \in Clients : Touch(c)
  BY <1>1, <1>4, UnchangedFits DEF Touch
<1>5. CASE Check
  BY <1>1, <1>5, CheckFits
<1>6. CASE TouchInCheck
  BY <1>1, <1>6, UnchangedFits DEF TouchInCheck
<1>7. CASE UNCHANGED vars
  BY <1>1, <1>7, UnchangedFits DEF vars
<1> QED
  BY <1>2, <1>3, <1>4, <1>5, <1>6, <1>7 DEF Next

LEMMA InvFits == FitInv => StateFitsRoom
<1> SUFFICES ASSUME FitInv PROVE StateFitsRoom
  OBVIOUS
<1>1. \A c \in Listed : client[c].state = "IN_ROOM" => client[c].room # NULL
  BY DEF FitInv, Placed, Listed
<1>2. ASSUME NEW r \in Alive \ Doomed, NEW c \in SeatedIn(r), client[c].state = "IN_GAME"
      PROVE  room[r].game # NULL
  <2>1. r \in RoomIds /\ room[r].life = "live" /\ Fits(r)
    BY DEF Alive, FitInv
  <2>2. c \in Clients
    BY <2>1, SeatedClients DEF FitInv, PointInv
  <2> QED
    BY <1>2, <2>1, <2>2 DEF Fits
<1> QED
  BY <1>1, <1>2 DEF StateFitsRoom

\* While nobody sits in two live rooms, a client in STATE_IN_ROOM has a room, and
\* a room that lives on and has lost its game seats nobody in STATE_IN_GAME: a
\* start, a departure, a forfeit, an expiry or a reconnect never leaves a player
\* behind in a game that is gone.
THEOREM StateAlwaysFitsRoom == Spec /\ []SeatedOnce => []StateFitsRoom
<1>1. FitInv /\ SeatedOnce /\ SeatedOnce' /\ [Next]_vars => FitInv'
  BY NextFits
<1> QED
  BY <1>1, InitFits, InvFits, PTL DEF Spec

\* In a server that has only ever had one room they fit.
COROLLARY StatesOfOneRoomFit ==
    ASSUME \A r, s \in RoomIds : r = s PROVE Spec => []StateFitsRoom
<1>1. SeatedOnce
  BY DEF SeatedOnce, Alive
<1> QED
  BY <1>1, StateAlwaysFitsRoom, PTL
=============================================================================

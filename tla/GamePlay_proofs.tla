-------------------------- MODULE GamePlay_proofs --------------------------
(***************************************************************************)
(* The safety invariants of GamePlay, for every set of clients and every   *)
(* number of pairs.  The type invariant is not inductive by itself: that   *)
(* the turn stays within the players' array after (current + 1) %          *)
(* player_count needs a player left in the game, which is SettlerInGame,   *)
(* which in turn needs the players to be packed in the first places        *)
(* (PlayersInPlace, a part of GameInv).                                    *)
(***************************************************************************)
EXTENDS GamePlay, Game_proofs

IInv == TypeOK /\ GameInv(game) /\ SettlerInGame

\* A player of a game that is well formed has somebody to pass the turn to.
LEMMA PlayerThere ==
    ASSUME NEW g, GameInv(g), NEW c, PlaysIn(g, c)
    PROVE  g.count # 0 /\ g.players[g.current] # NULL
<1>1. g.count \in 0 .. 4 /\ g.current \in Slots
  BY DEF GameInv, GameType, MAX_PLAYERS_PER_ROOM
<1>2. g.count # 0
  BY <1>1 DEF PlaysIn, Seats
<1>3. g.current < g.count
  BY <1>2 DEF GameInv, PlayersInPlace
<1> QED
  BY <1>1, <1>2, <1>3 DEF GameInv, PlayersInPlace

\* The player whose flip is accepted is in the game.
LEMMA FlipperPlays ==
    ASSUME NEW g, GameInv(g), NEW c \in Clients, NEW i, CanFlip(g, c, i)
    PROVE  PlaysIn(FlipCard(g, i), c)
<1>1. g \in GameType /\ g.current \in Slots /\ g.count \in 0 .. 4
  BY DEF GameInv, GameType, MAX_PLAYERS_PER_ROOM
<1>2. g.players[g.current] = c /\ c # NULL
  BY ClientsAssumption DEF CanFlip
<1>3. g.current \in Seats(g)
  BY <1>1, <1>2 DEF GameInv, PlayersInPlace, Seats, Slots, MAX_PLAYERS_PER_ROOM
<1>4. FlipCard(g, i).players = g.players /\ FlipCard(g, i).count = g.count
  BY <1>1 DEF FlipCard, GameType
<1> QED
  BY <1>2, <1>3, <1>4 DEF PlaysIn, Seats

LEMMA InitInv == Init => IInv
<1> SUFFICES ASSUME Init PROVE IInv
  OBVIOUS
<1>1. PICK n \in Slots \cup {MAX_PLAYERS_PER_ROOM}, deal \in Deals :
        /\ CanCreate(n)
        /\ seats \in [Slots -> Clients \cup {NULL}]
        /\ \A i \in Slots : (seats[i] # NULL) <=> (i < n)
        /\ game = Create(seats, n, deal)
  BY DEF Init
<1>2. GameInv(game)
  BY <1>1, CreateInv DEF CanCreate, MAX_PLAYERS_PER_ROOM
<1>3. TypeOK
  BY <1>1, <1>2 DEF Init, TypeOK, GameInv, ThreadStates
<1>4. SettlerInGame
  BY DEF Init, SettlerInGame, At
<1> QED
  BY <1>2, <1>3, <1>4 DEF IInv

\* No handler takes another player out of the game: while a thread is about
\* to settle a turn, a step that keeps that thread where it is keeps its
\* player in the game.
LEMMA SettlerKept ==
    ASSUME IInv, GameInv(game'),
           \A d \in Clients : At(d, "flipped")' =>
               (At(d, "flipped") /\ (PlaysIn(game, d) => PlaysIn(game', d)))
                 \/ PlaysIn(game', d)
    PROVE  SettlerInGame'
<1>1. ASSUME NEW d \in Clients, At(d, "flipped")'
      PROVE  PlaysIn(game', d)
  BY <1>1 DEF IInv, SettlerInGame
<1> QED
  BY <1>1, PlayerThere DEF SettlerInGame

LEMMA NextInv == IInv /\ [Next]_vars => IInv'
<1> SUFFICES ASSUME IInv, [Next]_vars
             PROVE  IInv'
  OBVIOUS
<1> USE DEF IInv
<1>1. ASSUME NEW c \in Clients, MarkReady(c) PROVE IInv'
  <2>1. GameInv(game')
    BY <1>1, ReadyInv DEF MarkReady
  <2>2. TypeOK'
    BY <1>1, <2>1 DEF MarkReady, TypeOK, GameInv, Goto, ThreadStates
  <2>3. game'.players = game.players /\ game'.count = game.count
    BY <1>1 DEF MarkReady, PlayerReady, GameInv, GameType
  <2>4. SettlerInGame'
    BY <1>1, <2>1, <2>3, SettlerKept
       DEF MarkReady, Goto, At, TypeOK, PlaysIn, Seats
  <2> QED
    BY <2>1, <2>2, <2>4
<1>2. ASSUME NEW c \in Clients, StartGame(c) PROVE IInv'
  <2>1. GameInv(game')
    BY <1>2, StartInv DEF StartGame
  <2>2. told' \in Clients \cup {NULL}
    BY <1>2, <2>1 DEF StartGame, CurrentPlayer, GameInv, GameType, TypeOK
  <2>3. TypeOK'
    BY <1>2, <2>1, <2>2 DEF StartGame, TypeOK, GameInv, Goto, ThreadStates
  <2>4. game'.players = game.players /\ game'.count = game.count
    BY <1>2 DEF StartGame, Start, GameInv, GameType
  <2>5. SettlerInGame'
    BY <1>2, <2>1, <2>4, SettlerKept
       DEF StartGame, Goto, At, TypeOK, PlaysIn, Seats
  <2> QED
    BY <2>1, <2>3, <2>5
<1>3. ASSUME NEW c \in Clients, NEW i \in Cards, Flip(c, i) PROVE IInv'
  <2>1. GameInv(game')
    BY <1>3, FlipInv DEF Flip
  <2>2. TypeOK'
    BY <1>3, <2>1 DEF Flip, TypeOK, GameInv, Goto, ThreadStates
  <2>3. game'.players = game.players /\ game'.count = game.count
    BY <1>3 DEF Flip, FlipCard, GameInv, GameType
  <2>4. PlaysIn(game', c)
    BY <1>3, FlipperPlays DEF Flip
  <2>5. SettlerInGame'
    BY <1>3, <2>1, <2>3, <2>4, SettlerKept
       DEF Flip, Goto, At, TypeOK, PlaysIn, Seats
  <2> QED
    BY <2>1, <2>2, <2>5
<1>4. ASSUME NEW c \in Clients, Settle(c) PROVE IInv'
  <2>1. PlaysIn(game, c)
    BY <1>4 DEF Settle, SettlerInGame
  <2>2. game.count # 0
    BY <2>1, PlayerThere
  <2>3. GameInv(game')
    BY <1>4, <2>2, CheckMatchInv DEF Settle
  <2>4. told' \in Clients \cup {NULL}
    BY <1>4, <2>3 DEF Settle, CurrentPlayer, GameInv, GameType, TypeOK
  <2>5. TypeOK'
    BY <1>4, <2>3, <2>4 DEF Settle, TypeOK, GameInv, Goto, ThreadStates
  <2>6. game'.players = game.players /\ game'.count = game.count
    BY <1>4 DEF Settle, CheckMatch, Match, Mismatch, TurnOver, GameInv, GameType
  <2>7. SettlerInGame'
    BY <1>4, <2>3, <2>6, SettlerKept
       DEF Settle, Goto, At, TypeOK, PlaysIn, Seats
  <2> QED
    BY <2>3, <2>5, <2>7
<1>5. ASSUME NEW c \in Clients, Unseat(c)
      PROVE  /\ GameInv(game')
             /\ seats' \in [Slots -> Clients \cup {NULL}]
             /\ over' \in BOOLEAN
             /\ game'.players = game.players /\ game'.count = game.count
  <2>1. GameInv(game')
    BY <1>5, ForfeitInv DEF Unseat
  <2>2. game'.players = game.players /\ game'.count = game.count
    BY <1>5 DEF Unseat, GameInv, GameType
  <2> QED
    BY <1>5, <2>1, <2>2 DEF Unseat, TypeOK
<1>6. ASSUME NEW c \in Clients, Leave(c) PROVE IInv'
  <2>1. TypeOK'
    BY <1>5, <1>6 DEF Leave, TypeOK, GameInv, Goto, ThreadStates
  <2>2. SettlerInGame'
    BY <1>5, <1>6, SettlerKept
       DEF Leave, Idle, Goto, At, TypeOK, PlaysIn, Seats
  <2> QED
    BY <1>5, <1>6, <2>1, <2>2 DEF Leave
<1>7. ASSUME NEW c \in Clients, Drop(c) PROVE IInv'
  <2>1. TypeOK'
    BY <1>7 DEF Drop, TypeOK, Goto, ThreadStates
  <2>2. SettlerInGame'
    BY <1>7, SettlerKept DEF Drop, Goto, At, TypeOK
  <2> QED
    BY <1>7, <2>1, <2>2 DEF Drop
<1>8. ASSUME NEW c \in Clients, RemoveFromGame(c) PROVE IInv'
  <2>1. GameInv(game')
    BY <1>8, RemovePlayerInv DEF RemoveFromGame
  <2>2. TypeOK'
    BY <1>8, <2>1 DEF RemoveFromGame, TypeOK, GameInv, Goto, ThreadStates
  <2>3. ASSUME NEW d \in Clients, At(d, "flipped")'
        PROVE  At(d, "flipped") /\ (PlaysIn(game, d) => PlaysIn(game', d))
    BY <1>8, <2>3, RemovePlayerKeepsOthers
       DEF RemoveFromGame, Goto, At, TypeOK
  <2>4. SettlerInGame'
    BY <2>1, <2>3, SettlerKept
  <2> QED
    BY <2>1, <2>2, <2>4
<1>9. ASSUME NEW c \in Clients, RemoveFromRoom(c) PROVE IInv'
  <2>1. Unseat(c)
    BY <1>9 DEF RemoveFromRoom
  <2>2. CurrentPlayer(game) \in Clients \cup {NULL}
    BY DEF CurrentPlayer, GameInv, GameType
  <2>3. TypeOK'
    BY <1>5, <1>9, <2>1, <2>2
       DEF RemoveFromRoom, TypeOK, GameInv, Goto, ThreadStates
  <2>4. SettlerInGame'
    BY <1>5, <1>9, <2>1, SettlerKept
       DEF RemoveFromRoom, Goto, At, TypeOK, PlaysIn, Seats
  <2> QED
    BY <1>5, <2>1, <2>3, <2>4
<1>10. ASSUME NEW c \in Clients, Wait(c) PROVE IInv'
  <2>1. TypeOK'
    BY <1>10 DEF Wait, TypeOK, Goto, ThreadStates
  <2>2. SettlerInGame'
    BY <1>10, SettlerKept DEF Wait, Goto, At, TypeOK
  <2> QED
    BY <1>10, <2>1, <2>2 DEF Wait
<1>11. ASSUME NEW c \in Clients, Return(c) PROVE IInv'
  <2>1. TypeOK'
    BY <1>11 DEF Return, TypeOK, Goto, ThreadStates
  <2>2. SettlerInGame'
    BY <1>11, SettlerKept DEF Return, Goto, At, TypeOK
  <2> QED
    BY <1>11, <2>1, <2>2 DEF Return
<1>12. ASSUME NEW c \in Clients, Expire(c) PROVE IInv'
  <2>1. GameInv(game')
    BY <1>12, ForfeitInv DEF Expire
  <2>2. TypeOK'
    BY <1>12, <2>1 DEF Expire, TypeOK, GameInv, Goto, ThreadStates
  <2>3. SettlerInGame'
    BY <1>12 DEF Expire, SettlerInGame, At
  <2> QED
    BY <2>1, <2>2, <2>3
<1>13. CASE UNCHANGED vars
  BY <1>13 DEF vars, TypeOK, SettlerInGame, At
<1> QED
  BY <1>1, <1>2, <1>3, <1>4, <1>6, <1>7, <1>8, <1>9, <1>10, <1>11, <1>12, <1>13
     DEF Next, Request, Continue, Ended

LEMMA Inductive == Spec => []IInv
BY InitInv, NextInv, PTL DEF Spec

-----------------------------------------------------------------------------

\* Every field keeps to its range, the index of the turn among them.
THEOREM TypeCorrect == Spec => []TypeOK
<1>1. IInv => TypeOK
  BY DEF IInv
<1> QED
  BY <1>1, Inductive, PTL

\* The cards face up are those of the unfinished turn.
THEOREM BoardAlwaysConsistent == Spec => []BoardConsistent
<1>1. IInv => BoardConsistent
  BY DEF IInv, GameInv, BoardConsistent
<1> QED
  BY <1>1, Inductive, PTL

\* Pairs leave the board together and are counted.
THEOREM PairsAlwaysLeaveTogether == Spec => []PairsLeaveTogether
<1>1. IInv => PairsLeaveTogether
  BY DEF IInv, GameInv, PairsLeaveTogether
<1> QED
  BY <1>1, Inductive, PTL

\* A game that is played can always be played on.
THEOREM MoveAlwaysLeft == Spec => []MoveLeft
<1>1. IInv => MoveLeft
  BY MoveExists DEF IInv, MoveLeft
<1> QED
  BY <1>1, Inductive, PTL

\* A thread that settles a turn settles it for a game that has players.
THEOREM SettlerAlwaysInGame == Spec => []SettlerInGame
<1>1. IInv => SettlerInGame
  BY DEF IInv
<1> QED
  BY <1>1, Inductive, PTL
\* Every pair left is given away, and equal players stay within one point.
THEOREM ForfeitAlwaysSharesTheRest == Spec => []ForfeitSharesTheRest
<1>1. IInv => ForfeitSharesTheRest
  BY ForfeitShares DEF IInv, ForfeitSharesTheRest, Total
<1> QED
  BY <1>1, Inductive, PTL

-----------------------------------------------------------------------------
(* Games of two players.  The properties of the turn are false of larger   *)
(* games: there the departure of a player moves the turn in ways of its    *)
(* own.  Of two players none is ever removed from a running game, whoever  *)
(* leaves ends it, and one who is lost is waited for.                      *)

PairSeated ==
    /\ game.count = 2 /\ game.players[0] # game.players[1]
    /\ \A c \in Clients : thread[c] \notin {"removing", "removed"}
    /\ ~over => seats = game.players

\* The inductive invariant behind the properties of the turn: who settles a
\* turn has it, and YOUR_TURN went to the player whose turn it is, in the
\* middle of the handlers too.
PairInv ==
    /\ PairSeated
    /\ ~over /\ game.state = "PLAYING" => told = CurrentPlayer(game)
    /\ \A c \in Clients : At(c, "flipped") => CurrentPlayer(game) = c

\* What the arrays look like.
LEMMA PairSeats ==
    ASSUME IInv, PairSeated, ~over
    PROVE  /\ seats[0] \in Clients /\ seats[1] \in Clients
           /\ seats[2] = NULL /\ seats[3] = NULL /\ seats[0] # seats[1]
           /\ PlayerCount = 2
           /\ Seated = {seats[0], seats[1]}
<1>1. \A i \in 0 .. 3 : (seats[i] # NULL) <=> (i < 2)
  BY DEF IInv, GameInv, PlayersInPlace, PairSeated, Slots, MAX_PLAYERS_PER_ROOM
<1>2. /\ seats[0] # NULL /\ seats[1] # NULL
      /\ seats[2] = NULL /\ seats[3] = NULL /\ seats[0] # seats[1]
  BY <1>1 DEF PairSeated
<1>3. seats[0] \in Clients /\ seats[1] \in Clients
  BY <1>2 DEF IInv, TypeOK, Slots, MAX_PLAYERS_PER_ROOM
<1>4. {i \in Slots : seats[i] # NULL} = 0 .. 1
  BY <1>1 DEF Slots, MAX_PLAYERS_PER_ROOM
<1>5. Cardinality(0 .. 1) = 2
  <2>1. 0 \in Int /\ 1 \in Int
    OBVIOUS
  <2>2. Cardinality(0 .. 1) = IF 0 > 1 THEN 0 ELSE 1 - 0 + 1
    BY <2>1, FS_Interval
  <2> QED
    BY <2>2
<1>6. Seated = {seats[0], seats[1]}
  <2>1. Slots = {0, 1, 2, 3}
    BY DEF Slots, MAX_PLAYERS_PER_ROOM
  <2> QED
    BY <1>2, <2>1 DEF Seated
<1> QED
  BY <1>2, <1>3, <1>4, <1>5, <1>6 DEF PlayerCount

\* No player is dropped: the other one is not enough to play on.
LEMMA PairNeverDrops ==
    ASSUME IInv, PairSeated, NEW c \in Clients
    PROVE  ~Drop(c)
<1> SUFFICES ASSUME Idle(c), Remaining(c) >= 2
             PROVE  FALSE
  BY DEF Drop
<1> DEFINE others == {i \in 0 .. PlayerCount - 1 : seats[i] \notin {NULL, c}}
<1>1. ~over /\ c \in Seated
  BY DEF Idle
<1>2. PICK k \in 0 .. 1 : seats[k] = c
  BY <1>1, PairSeats
<1>3. PlayerCount - 1 = 1
  BY <1>1, PairSeats
<1>4. others \subseteq {1 - k}
  BY <1>2, <1>3
<1>5. IsFiniteSet({1 - k}) /\ Cardinality({1 - k}) = 1
  BY FS_Singleton
<1>6. Cardinality(others) <= 1 /\ Cardinality(others) \in Nat
  BY <1>4, <1>5, FS_Subset, FS_CardinalityType
<1> QED
  BY <1>6 DEF Remaining

\* Whoever leaves ends the game.
LEMMA PairUnseatEnds ==
    ASSUME IInv, PairSeated, NEW c \in Clients, Idle(c), Unseat(c)
    PROVE  over'
<1>1. ~over /\ c \in Seated
  BY DEF Idle
<1>2. PICK k \in 0 .. 1 : seats[k] = c
  BY <1>1, PairSeats
<1>3. \A i \in Slots : seats'[i] = IF seats[i] = c THEN NULL ELSE seats[i]
  BY DEF Unseat
<1>4. {i \in Slots : seats'[i] # NULL} \subseteq {1 - k}
  BY <1>1, <1>2, <1>3, PairSeats DEF Slots, MAX_PLAYERS_PER_ROOM
<1>5. IsFiniteSet({1 - k}) /\ Cardinality({1 - k}) = 1
  BY FS_Singleton
<1>6. /\ Cardinality({i \in Slots : seats'[i] # NULL}) <= 1
      /\ Cardinality({i \in Slots : seats'[i] # NULL}) \in Nat
  BY <1>4, <1>5, FS_Subset, FS_CardinalityType
<1>7. PlayerCount' < 2
  BY <1>6 DEF PlayerCount
<1> QED
  BY <1>7 DEF Unseat

LEMMA PairInit == Init /\ game.count = 2 => PairInv
<1> SUFFICES ASSUME Init, game.count = 2 PROVE PairInv
  OBVIOUS
<1>1. PICK n \in Slots \cup {MAX_PLAYERS_PER_ROOM}, deal \in Deals :
        /\ CanCreate(n)
        /\ seats \in [Slots -> Clients \cup {NULL}]
        /\ \A i \in Slots : (seats[i] # NULL) <=> (i < n)
        /\ \A i, j \in 0 .. n - 1 : i # j => seats[i] # seats[j]
        /\ game = Create(seats, n, deal)
  BY DEF Init
<1>2. n = 2 /\ game.state = "WAITING"
      /\ game.players = [i \in Slots |-> IF i < n THEN seats[i] ELSE NULL]
  BY <1>1 DEF Create
<1>3. \A i \in Slots : game.players[i] = seats[i]
  BY <1>1, <1>2
<1>4. seats = game.players
  BY <1>1, <1>2, <1>3
<1>5. game.players[0] # game.players[1]
  BY <1>1, <1>2, <1>4
<1> QED
  BY <1>2, <1>4, <1>5 DEF Init, PairInv, PairSeated, At

\* What no step of such a game changes, and what the running ones do to the
\* turn.
PairStep ==
    /\ game'.players = game.players /\ game'.count = game.count
    /\ Moving => /\ CurrentPlayer(game')
                       = game.players[(game.current + 1) % game.count]
                 /\ game.flips = 2 /\ ~IsMatch(game)

LEMMA PairNext ==
    ASSUME IInv, PairInv, [Next]_vars
    PROVE  PairInv' /\ PairStep
<1>1. game \in GameType /\ game.current \in Slots /\ game.count \in 0 .. 4
      /\ thread \in [Clients -> ThreadStates]
  BY DEF IInv, TypeOK, GameType, MAX_PLAYERS_PER_ROOM
<1> USE DEF PairInv, PairSeated, PairStep
<1>2. ASSUME NEW c \in Clients, MarkReady(c) PROVE PairInv' /\ PairStep
  <2>1. /\ game'.players = game.players /\ game'.count = game.count
        /\ CurrentPlayer(game') = CurrentPlayer(game)
        /\ game'.state = game.state
    BY <1>1, <1>2 DEF MarkReady, PlayerReady, CurrentPlayer, GameType
  <2> QED
    BY <1>1, <1>2, <2>1 DEF MarkReady, Goto, At, Moving
<1>3. ASSUME NEW c \in Clients, StartGame(c) PROVE PairInv' /\ PairStep
  <2>1. CASE AllPlayersReady(game) /\ CanStart(game)
    <3>1. /\ game'.players = game.players /\ game'.count = game.count
          /\ CurrentPlayer(game) = NULL /\ told' = CurrentPlayer(game')
      BY <1>1, <1>3, <2>1
         DEF StartGame, Start, CanStart, CurrentPlayer, GameType
    <3>2. \A d \in Clients : ~At(d, "flipped")
      BY <3>1, ClientsAssumption
    <3> QED
      BY <1>1, <1>3, <3>1, <3>2 DEF StartGame, Goto, At, Moving
  <2>2. CASE ~(AllPlayersReady(game) /\ CanStart(game))
    BY <1>1, <1>3, <2>2 DEF StartGame, Goto, At, Moving
  <2> QED
    BY <2>1, <2>2
<1>4. ASSUME NEW c \in Clients, NEW i \in Cards, Flip(c, i)
      PROVE  PairInv' /\ PairStep
  <2>1. /\ game'.players = game.players /\ game'.count = game.count
        /\ game'.state = game.state
        /\ CurrentPlayer(game') = CurrentPlayer(game)
        /\ CurrentPlayer(game) = c
    BY <1>1, <1>4 DEF Flip, FlipCard, CanFlip, CurrentPlayer, GameType
  <2> QED
    BY <1>1, <1>4, <2>1 DEF Flip, Goto, At, Moving
<1>5. ASSUME NEW c \in Clients, Settle(c) PROVE PairInv' /\ PairStep
  <2>1. /\ CurrentPlayer(game) = c /\ ~over /\ told = c
        /\ game.state = "PLAYING"
    BY <1>5, ClientsAssumption DEF Settle, At, CurrentPlayer
  <2>2. \A d \in Clients : ~At(d, "flipped")'
    BY <1>1, <1>5, <2>1 DEF Settle, Goto, At
  <2>3. game'.players = game.players /\ game'.count = game.count
    BY <1>1, <1>5
       DEF Settle, CheckMatch, Match, Mismatch, TurnOver, GameType
  <2>4. CASE game.flips # 2
    BY <1>1, <1>5, <2>1, <2>2, <2>3, <2>4
       DEF Settle, CheckMatch, Moving, Goto
  <2>5. CASE game.flips = 2 /\ IsMatch(game)
    <3>1. game'.current = game.current /\ game'.state \in {"PLAYING", "FINISHED"}
      BY <1>1, <1>5, <2>1, <2>5
         DEF Settle, CheckMatch, Match, TurnOver, GameType
    <3>2. ~over' => game'.state = "PLAYING" /\ told' = c
      BY <1>5, <2>5, <3>1 DEF Settle
    <3>3. ~over' => CurrentPlayer(game') = c
      BY <2>1, <2>3, <3>1, <3>2 DEF CurrentPlayer
    <3> QED
      BY <1>1, <1>5, <2>1, <2>2, <2>3, <3>2, <3>3 DEF Settle, Moving, Goto
  <2>6. CASE game.flips = 2 /\ ~IsMatch(game)
    <3>1. /\ game'.current = (game.current + 1) % game.count
          /\ game'.state = "PLAYING"
      BY <1>1, <1>5, <2>1, <2>6
         DEF Settle, CheckMatch, Mismatch, TurnOver, GameType
    <3>2. CurrentPlayer(game') = game.players[(game.current + 1) % game.count]
      BY <2>3, <3>1 DEF CurrentPlayer
    <3>3. told' = CurrentPlayer(game')
      BY <1>5, <2>6 DEF Settle
    <3> QED
      BY <1>1, <1>5, <2>1, <2>2, <2>3, <2>6, <3>1, <3>2, <3>3
         DEF Settle, Goto
  <2> QED
    BY <2>4, <2>5, <2>6
<1>6. ASSUME NEW c \in Clients, Leave(c) PROVE PairInv' /\ PairStep
  <2>1. over'
    BY <1>6, PairUnseatEnds DEF Leave
  <2>2. game'.players = game.players /\ game'.count = game.count
    BY <1>1, <1>6 DEF Leave, Unseat, GameType
  <2> QED
    BY <1>1, <1>6, <2>1, <2>2 DEF Leave, Goto, At, Moving
<1>7. ASSUME NEW c \in Clients, Wait(c) PROVE PairInv' /\ PairStep
  BY <1>1, <1>7 DEF Wait, Goto, At, Moving
<1>8. ASSUME NEW c \in Clients, Return(c) PROVE PairInv' /\ PairStep
  BY <1>1, <1>8 DEF Return, Goto, At, Moving
<1>9. ASSUME NEW c \in Clients, Expire(c) PROVE PairInv' /\ PairStep
  <2>1. game'.players = game.players /\ game'.count = game.count
    BY <1>1, <1>9 DEF Expire, GameType
  <2> QED
    BY <1>1, <1>9, <2>1 DEF Expire, Goto, At, Moving
<1>10. CASE UNCHANGED vars
  BY <1>10 DEF vars, At, Moving
<1>11. \A c \in Clients : ~Drop(c)
  BY PairNeverDrops
<1>12. \A c \in Clients : ~RemoveFromGame(c) /\ ~RemoveFromRoom(c)
  BY DEF RemoveFromGame, RemoveFromRoom, At
<1> QED
  BY <1>2, <1>3, <1>4, <1>5, <1>6, <1>7, <1>8, <1>9, <1>10, <1>11, <1>12
     DEF Next, Request, Continue, Ended

LEMMA PairInductive == Spec /\ game.count = 2 => []PairInv
<1>1. IInv /\ IInv' /\ PairInv /\ [Next]_vars => PairInv'
  BY PairNext
<1> QED
  BY <1>1, PairInit, Inductive, PTL DEF Spec

\* Of two players, the one whose turn it is always got the last YOUR_TURN.
THEOREM TurnHolderAlwaysKnows == Spec /\ game.count = 2 => []TurnHolderKnows
<1>1. PairInv => TurnHolderKnows
  BY DEF PairInv, TurnHolderKnows
<1> QED
  BY <1>1, PairInductive, PTL

\* Of two players, the turn goes to the other one, and only after a mismatch.
THEOREM TurnAlwaysFollowsOrder == Spec /\ game.count = 2 => TurnFollowsOrder
<1>1. IInv /\ PairInv /\ [Next]_vars
        => [Moving =>
              /\ CurrentPlayer(game') = game.players[(game.current + 1) % game.count]
              /\ \/ game.flips = 2 /\ ~IsMatch(game)
                 \/ ~PlaysIn(game', CurrentPlayer(game))]_vars
  BY PairNext DEF PairStep
<1> QED
  BY <1>1, PairInductive, Inductive, PTL DEF Spec, TurnFollowsOrder

-----------------------------------------------------------------------------
(* GamePlay implements MemoryGame.  Beyond the invariant above the proof   *)
(* needs that no player sits on two places, so that the points of a player *)
(* are found again when the arrays are shifted; that a finished game is    *)
(* destroyed in the same step; and that only a running game has players in *)
(* the middle of a turn, or about to be removed.                           *)

Distinct(g) ==
    \A i, j \in Slots : g.players[i] = g.players[j] /\ g.players[i] # NULL => i = j

Underway ==
    /\ game.state = "FINISHED" => over
    /\ \A c \in Clients :
          At(c, "flipped") \/ At(c, "removing") => game.state = "PLAYING"

RInv == IInv /\ Distinct(game) /\ Underway

-----------------------------------------------------------------------------
(* The places of the players.                                              *)

\* The places in use are among the first four.
LEMMA SeatsInSlots ==
    ASSUME NEW g, GameInv(g)
    PROVE  Seats(g) \subseteq Slots /\ g.count \in 0 .. 4
BY DEF GameInv, GameType, Seats, Slots, MAX_PLAYERS_PER_ROOM

\* Whoever sits on a place is a player, and is found on it.
LEMMA FoundOnSeat ==
    ASSUME NEW g, GameInv(g), Distinct(g), NEW i \in Seats(g)
    PROVE  /\ g.players[i] \in Clients
           /\ PlaysIn(g, g.players[i])
           /\ IndexOf(g, g.players[i]) = i
<1>1. i \in Slots /\ i < g.count
  BY SeatsInSlots DEF Seats
<1>2. g.players[i] \in Clients /\ g.players[i] # NULL
  BY <1>1, ClientsAssumption DEF GameInv, GameType, PlayersInPlace
<1>3. PlaysIn(g, g.players[i])
  BY DEF PlaysIn
<1>4. /\ IndexOf(g, g.players[i]) \in Seats(g)
      /\ g.players[IndexOf(g, g.players[i])] = g.players[i]
  BY <1>3, IndexOfSeat
<1> QED
  BY <1>1, <1>2, <1>3, <1>4, SeatsInSlots DEF Distinct

\* A player is on the place where he is found.
LEMMA MemberSeat ==
    ASSUME NEW g, GameInv(g), NEW p \in Members(g)
    PROVE  /\ IndexOf(g, p) \in Seats(g)
           /\ g.players[IndexOf(g, p)] = p
           /\ Points(g)[p] = g.scores[IndexOf(g, p)]
BY IndexOfSeat DEF Members, Points

\* The points of whoever sits on a place are the scores of that place.
LEMMA PointsOnSeat ==
    ASSUME NEW g, GameInv(g), Distinct(g), NEW i \in Seats(g)
    PROVE  Points(g)[g.players[i]] = g.scores[i]
BY FoundOnSeat DEF Points

\* A step that leaves players and scores alone leaves the points alone.
LEMMA SamePoints ==
    ASSUME NEW g, GameInv(g), Distinct(g), NEW h, GameInv(h),
           h.players = g.players, h.count = g.count
    PROVE  /\ Members(h) = Members(g)
           /\ Distinct(h)
           /\ \A p \in Members(g) : IndexOf(h, p) = IndexOf(g, p)
           /\ h.scores = g.scores => Points(h) = Points(g)
<1>1. Seats(h) = Seats(g)
  BY DEF Seats
<1>2. Members(h) = Members(g) /\ Distinct(h)
  BY <1>1 DEF Members, PlaysIn, Distinct
<1>3. ASSUME NEW p \in Members(g) PROVE IndexOf(h, p) = IndexOf(g, p)
  <2>1. IndexOf(g, p) \in Seats(h) /\ h.players[IndexOf(g, p)] = p
    BY <1>1, MemberSeat
  <2> QED
    BY <2>1, <1>2, FoundOnSeat
<1>4. ASSUME h.scores = g.scores PROVE Points(h) = Points(g)
  BY <1>2, <1>3, <1>4 DEF Points, Members
<1> QED
  BY <1>2, <1>3, <1>4

-----------------------------------------------------------------------------
(* The invariant that the refinement rests on.                             *)

LEMMA InitRInv == Init => RInv
<1> SUFFICES ASSUME Init PROVE RInv
  OBVIOUS
<1>1. IInv
  BY InitInv
<1>2. PICK n \in Slots \cup {MAX_PLAYERS_PER_ROOM}, deal \in Deals :
        /\ CanCreate(n)
        /\ \A i \in Slots : (seats[i] # NULL) <=> (i < n)
        /\ \A i, j \in 0 .. n - 1 : i # j => seats[i] # seats[j]
        /\ game = Create(seats, n, deal)
  BY DEF Init
<1>3. game.state = "WAITING"
  BY <1>2 DEF Create
<1>4. Distinct(game)
  <2>1. game.players = [i \in Slots |-> IF i < n THEN seats[i] ELSE NULL]
    BY <1>2 DEF Create
  <2> QED
    BY <1>2, <2>1 DEF Distinct, Slots, MAX_PLAYERS_PER_ROOM, CanCreate
<1>5. Underway
  BY <1>3 DEF Underway, Init, At
<1> QED
  BY <1>1, <1>4, <1>5 DEF RInv

\* Nobody comes to sit on two places when the others move down.
LEMMA RemovalKeepsDistinct ==
    ASSUME NEW g, GameInv(g), Distinct(g), NEW c \in Clients
    PROVE  Distinct(RemovePlayer(g, c))
<1>1. CASE ~PlaysIn(g, c)
  BY <1>1 DEF RemovePlayer
<1>2. CASE PlaysIn(g, c)
  <2> DEFINE k == IndexOf(g, c)
             h == RemoveAt(g, k)
  <2>1. k \in Seats(g)
    BY <1>2, IndexOfSeat
  <2>2. g \in GameType /\ g.count \in 0 .. 4
    BY SeatsInSlots DEF GameInv
  <2>3. h.players = ShiftDown(g.players, k, g.count, NULL)
    BY <2>2 DEF RemoveAt, GameType
  <2>4. \A i \in Slots : g.players[i] # NULL <=> i < g.count
    BY DEF GameInv, PlayersInPlace
  <2> HIDE DEF k, h
  <2>5. \A i \in Slots :
           h.players[i] = IF i \in k .. g.count - 2 THEN g.players[i + 1]
                          ELSE IF i = g.count - 1 THEN NULL ELSE g.players[i]
    BY <2>3 DEF ShiftDown
  <2>6. \A i \in Slots : i \in k .. g.count - 2 => i + 1 \in Slots
    BY <2>1, <2>2 DEF Slots, MAX_PLAYERS_PER_ROOM
  <2>7. Distinct(h)
    BY <2>1, <2>2, <2>4, <2>5, <2>6 DEF Distinct, Slots, Seats, MAX_PLAYERS_PER_ROOM
  <2> QED
    BY <1>2, <2>7 DEF RemovePlayer, h, k
<1> QED
  BY <1>1, <1>2

\* What each action does to the players, to the state of the game and to its
\* end: all that the rest of the invariant speaks of.
LEMMA NextRInv == RInv /\ [Next]_vars => RInv'
<1> SUFFICES ASSUME RInv, [Next]_vars PROVE RInv'
  OBVIOUS
<1>1. IInv' /\ IInv
  BY NextInv DEF RInv
<1>2. GameInv(game) /\ game \in GameType /\ TypeOK
  BY <1>1 DEF IInv, GameInv
<1> USE DEF At, Idle, Goto
<1>3. ASSUME NEW c \in Clients, MarkReady(c) PROVE RInv'
  <2>1. game'.players = game.players /\ game'.state = game.state
    BY <1>2, <1>3 DEF MarkReady, PlayerReady, GameType
  <2>2. Underway'
    BY <1>2, <1>3, <2>1 DEF RInv, Underway, MarkReady, TypeOK
  <2> QED
    BY <1>1, <2>1, <2>2 DEF RInv, Distinct
<1>4. ASSUME NEW c \in Clients, StartGame(c) PROVE RInv'
  <2>1. /\ game'.players = game.players
        /\ \/ game'.state = game.state
           \/ game.state = "WAITING" /\ game'.state = "PLAYING"
    BY <1>2, <1>4 DEF StartGame, Start, CanStart, GameType
  <2>2. Underway'
    BY <1>2, <1>4, <2>1 DEF RInv, Underway, StartGame, TypeOK
  <2> QED
    BY <1>1, <2>1, <2>2 DEF RInv, Distinct
<1>5. ASSUME NEW c \in Clients, NEW i \in Cards, Flip(c, i) PROVE RInv'
  <2>1. /\ game'.players = game.players
        /\ game'.state = game.state /\ game.state = "PLAYING"
    BY <1>2, <1>5 DEF Flip, CanFlip, FlipCard, GameType
  <2>2. Underway'
    BY <1>2, <1>5, <2>1 DEF RInv, Underway, Flip, TypeOK
  <2> QED
    BY <1>1, <2>1, <2>2 DEF RInv, Distinct
<1>6. ASSUME NEW c \in Clients, Settle(c) PROVE RInv'
  <2>1. /\ game'.players = game.players
        /\ game'.state = game.state \/ game'.state = "FINISHED"
        /\ over' = (game'.state = "FINISHED")
    BY <1>2, <1>6 DEF Settle, CheckMatch, Match, Mismatch, TurnOver, GameType
  <2>2. Underway'
    BY <1>2, <1>6, <2>1 DEF RInv, Underway, Settle, TypeOK
  <2> QED
    BY <1>1, <2>1, <2>2 DEF RInv, Distinct
<1>7. ASSUME NEW c \in Clients, Unseat(c)
      PROVE  game'.players = game.players /\ game'.state = game.state
  BY <1>2, <1>7 DEF Unseat, GameType
<1>8. ASSUME NEW c \in Clients, Leave(c) \/ RemoveFromRoom(c) PROVE RInv'
  <2>1. game'.players = game.players /\ game'.state = game.state
    BY <1>7, <1>8 DEF Leave, RemoveFromRoom
  <2>2. ~over /\ Goto(c, "gone")
    BY <1>8 DEF Leave, RemoveFromRoom
  <2>3. Underway'
    BY <1>2, <2>1, <2>2 DEF RInv, Underway, TypeOK
  <2> QED
    BY <1>1, <2>1, <2>3 DEF RInv, Distinct
<1>9. ASSUME NEW c \in Clients, Drop(c) \/ Wait(c) \/ Return(c) PROVE RInv'
  <2>1. Underway'
    BY <1>2, <1>9 DEF RInv, Underway, Drop, Wait, Return, TypeOK
  <2> QED
    BY <1>1, <1>9, <2>1 DEF RInv, Distinct, Drop, Wait, Return
<1>10. ASSUME NEW c \in Clients, RemoveFromGame(c) PROVE RInv'
  <2>1. Distinct(game')
    BY <1>2, <1>10, RemovalKeepsDistinct DEF RInv, RemoveFromGame
  <2>2. game'.state = game.state
    BY <1>2, <1>10 DEF RemoveFromGame, RemovePlayer, RemoveAt, GameType
  <2>3. Underway'
    BY <1>2, <1>10, <2>2 DEF RInv, Underway, RemoveFromGame, TypeOK
  <2> QED
    BY <1>1, <2>1, <2>3 DEF RInv
<1>11. ASSUME NEW c \in Clients, Expire(c) PROVE RInv'
  <2>1. game'.players = game.players /\ over'
    BY <1>2, <1>11 DEF Expire, GameType
  <2>2. Underway'
    BY <2>1 DEF Underway
  <2> QED
    BY <1>1, <2>1, <2>2 DEF RInv, Distinct
<1>12. CASE UNCHANGED vars
  BY <1>1, <1>12 DEF vars, RInv, Distinct, Underway
<1> QED
  BY <1>3, <1>4, <1>5, <1>6, <1>8, <1>9, <1>10, <1>11, <1>12
     DEF Next, Request, Continue, Ended

-----------------------------------------------------------------------------
(* The steps: each is one of MemoryGame or leaves its variables alone.     *)

LEMMA InitMaps == Init => Memory!Init
<1> SUFFICES ASSUME Init PROVE Memory!Init
  OBVIOUS
<1>1. RInv /\ GameInv(game) /\ game \in GameType
  BY InitRInv DEF RInv, IInv, GameInv
<1>2. PICK n \in Slots \cup {MAX_PLAYERS_PER_ROOM}, deal \in Deals :
        game = Create(seats, n, deal)
  BY DEF Init
<1>3. /\ game.state = "WAITING" /\ game.value \in Deals
      /\ game.card = [i \in Cards |-> "HIDDEN"]
      /\ game.scores = [i \in Slots |-> 0]
  BY <1>2 DEF Create
<1>4. ~over
  BY DEF Init
<1>5. Phase(game, over) = "waiting" /\ TurnOf(game, over) = NULL
  BY <1>3, <1>4 DEF Phase, TurnOf, CurrentPlayer
<1>6. Table(game) = Cards /\ CardsIn(game, "REVEALED") = {}
  BY <1>3 DEF Table, CardsIn
<1>7. Points(game) = [p \in Clients |-> 0]
  <2>1. ASSUME NEW p \in Clients
        PROVE  (IF PlaysIn(game, p) THEN game.scores[IndexOf(game, p)] ELSE 0) = 0
    BY <1>1, <1>3, IndexOfSeat, SeatsInSlots
  <2> QED
    BY <2>1 DEF Points
<1>8. \A i \in Cards : \E j \in Cards :
         {k \in Cards : game.value[k] = game.value[i]} = {i, j} /\ i # j
  <2> SUFFICES ASSUME NEW i \in Cards
               PROVE  \E j \in Cards :
                        {k \in Cards : game.value[k] = game.value[i]} = {i, j} /\ i # j
    OBVIOUS
  <2>1. PICK j \in Cards : j # i /\ game.value[j] = game.value[i]
    BY <1>3, DealPartner
  <2>2. \A k \in Cards : game.value[k] = game.value[i] => k \in {i, j}
    BY <1>3, <2>1, DealPairs
  <2>3. {k \in Cards : game.value[k] = game.value[i]} = {i, j}
    BY <2>1, <2>2
  <2> QED
    BY <2>1, <2>3
<1>9. Members(game) \subseteq Clients
  BY DEF Members
<1> QED
  BY <1>5, <1>6, <1>7, <1>8, <1>9 DEF Memory!Init

\* READY changes nothing that the players see.
LEMMA ReadyMaps ==
    ASSUME RInv, RInv', NEW c \in Clients, MarkReady(c)
    PROVE  UNCHANGED Memory!vars
<1>1. GameInv(game) /\ GameInv(game') /\ Distinct(game) /\ game \in GameType
  BY DEF RInv, IInv, GameInv
<1>2. /\ game'.players = game.players /\ game'.count = game.count
      /\ game'.scores = game.scores /\ game'.state = game.state
      /\ game'.card = game.card /\ game'.value = game.value
      /\ game'.current = game.current /\ over' = over
  BY <1>1 DEF MarkReady, PlayerReady, GameType
<1>3. Members(game') = Members(game) /\ Points(game') = Points(game)
  BY <1>1, <1>2, SamePoints
<1> QED
  BY <1>2, <1>3 DEF Memory!vars, Phase, Table, CardsIn, TurnOf, CurrentPlayer

\* The start gives the turn to the player on the first place.
LEMMA StartMaps ==
    ASSUME RInv, RInv', NEW c \in Clients, StartGame(c)
    PROVE  Memory!Begin \/ UNCHANGED Memory!vars
<1>1. GameInv(game) /\ GameInv(game') /\ Distinct(game) /\ game \in GameType
  BY DEF RInv, IInv, GameInv
<1>2. CASE UNCHANGED game
  BY <1>2 DEF StartGame, Memory!vars
<1>3. CASE CanStart(game) /\ game' = Start(game)
  <2>1. /\ game'.players = game.players /\ game'.count = game.count
        /\ game'.scores = game.scores /\ game'.card = game.card
        /\ game'.value = game.value /\ game'.current = 0
        /\ game.state = "WAITING" /\ game'.state = "PLAYING"
        /\ ~over /\ ~over'
    BY <1>1, <1>3 DEF StartGame, Start, CanStart, GameType, At
  <2>2. Members(game') = Members(game) /\ Points(game') = Points(game)
    BY <1>1, <2>1, SamePoints
  <2>3. Phase(game, over) = "waiting" /\ Phase(game', over') = "playing"
    BY <2>1 DEF Phase
  <2>4. TurnOf(game', over') = game'.players[0]
    BY <2>1 DEF TurnOf, CurrentPlayer
  <2>5. IF Members(game) = {} THEN game'.players[0] = NULL
        ELSE game'.players[0] \in Members(game)
    <3>1. 0 \in Slots /\ (game'.players[0] # NULL <=> 0 < game'.count)
      BY <1>1 DEF GameInv, PlayersInPlace, Slots, MAX_PLAYERS_PER_ROOM
    <3>2. CASE game'.count = 0
      BY <2>2, <3>1, <3>2 DEF Members, PlaysIn, Seats
    <3>3. CASE game'.count # 0
      <4>1. 0 \in Seats(game')
        BY <1>1, <3>3, SeatsInSlots DEF Seats
      <4>2. game'.players[0] \in Members(game')
        BY <1>1, <2>2, <4>1, FoundOnSeat, SamePoints, <2>1 DEF Members
      <4> QED
        BY <2>2, <4>2
    <3> QED
      BY <3>2, <3>3
  <2>6. Table(game') = Table(game) /\ CardsIn(game', "REVEALED") = CardsIn(game, "REVEALED")
    BY <2>1 DEF Table, CardsIn
  <2> QED
    BY <2>1, <2>2, <2>3, <2>4, <2>5, <2>6 DEF Memory!Begin, Memory!Given
<1> QED
  BY <1>2, <1>3 DEF StartGame

\* A FLIP that is accepted turns one card up.
LEMMA FlipMaps ==
    ASSUME RInv, RInv', NEW c \in Clients, NEW i \in Cards, Flip(c, i)
    PROVE  Memory!TurnUp(i)
<1>1. GameInv(game) /\ GameInv(game') /\ Distinct(game) /\ game \in GameType
  BY DEF RInv, IInv, GameInv
<1>2. /\ game'.players = game.players /\ game'.count = game.count
      /\ game'.scores = game.scores /\ game'.value = game.value
      /\ game'.current = game.current
      /\ game.state = "PLAYING" /\ game'.state = "PLAYING"
      /\ ~over /\ ~over'
      /\ game.card[i] = "HIDDEN" /\ game.flips < 2
      /\ game'.card = [game.card EXCEPT ![i] = "REVEALED"]
  BY <1>1 DEF Flip, CanFlip, FlipCard, GameType, Idle
<1>3. Members(game') = Members(game) /\ Points(game') = Points(game)
  BY <1>1, <1>2, SamePoints
<1>4. Phase(game, over) = "playing" /\ Phase(game', over') = "playing"
  BY <1>2 DEF Phase
<1>5. TurnOf(game', over') = TurnOf(game, over)
  BY <1>2 DEF TurnOf, CurrentPlayer
<1>6. game.card \in [Cards -> {"HIDDEN", "REVEALED", "MATCHED"}]
  BY <1>1 DEF GameType
<1>7. /\ Table(game') = Table(game)
      /\ CardsIn(game', "REVEALED") = CardsIn(game, "REVEALED") \cup {i}
      /\ i \in Table(game) \ CardsIn(game, "REVEALED")
  BY <1>2, <1>6 DEF Table, CardsIn
<1>8. \A j, k \in CardsIn(game, "REVEALED") : j = k
  <2>1. game.second = NoCard
    BY <1>1, <1>2 DEF GameInv, FaceUpIsTurn, GameType
  <2> QED
    BY <1>1, <2>1 DEF GameInv, FaceUpIsTurn
<1> QED
  BY <1>2, <1>3, <1>4, <1>5, <1>7, <1>8 DEF Memory!TurnUp

-----------------------------------------------------------------------------
(* The end of a turn.                                                      *)

\* What Settle knows: two cards lie face up, they are those recorded, and the
\* player who has the turn is one of the game.
LEMMA SettleState ==
    ASSUME RInv, NEW c \in Clients, Settle(c), game.flips = 2
    PROVE  /\ GameInv(game) /\ Distinct(game) /\ game \in GameType
           /\ game.state = "PLAYING" /\ ~over
           /\ game.first \in Cards /\ game.second \in Cards
           /\ game.first # game.second
           /\ CardsIn(game, "REVEALED") = {game.first, game.second}
           /\ game.current \in Seats(game)
           /\ game.players[game.current] \in Members(game)
           /\ TurnOf(game, over) = game.players[game.current]
<1>1. GameInv(game) /\ Distinct(game) /\ game \in GameType
  BY DEF RInv, IInv, GameInv
<1>2. game.state = "PLAYING" /\ ~over
  BY DEF Settle, RInv, Underway, At
<1>3. /\ game.first \in Cards /\ game.second \in Cards /\ game.first # game.second
      /\ CardsIn(game, "REVEALED") = {game.first, game.second}
  BY <1>1 DEF GameInv, FaceUpIsTurn, GameType
<1>4. PlaysIn(game, c) /\ game.players[game.current] # NULL
  BY DEF RInv, IInv, SettlerInGame, Settle
<1>5. game.current \in Seats(game)
  BY <1>1, <1>4, SeatsInSlots DEF GameInv, PlayersInPlace, Seats, GameType, PlaysIn,
     Slots, MAX_PLAYERS_PER_ROOM
<1>6. game.players[game.current] \in Members(game)
  BY <1>1, <1>5, FoundOnSeat DEF Members
<1>7. TurnOf(game, over) = game.players[game.current]
  BY <1>2 DEF TurnOf, CurrentPlayer
<1> QED
  BY <1>1, <1>2, <1>3, <1>5, <1>6, <1>7

\* A mismatch turns both cards down, and the turn goes on.
LEMMA MismatchMaps ==
    ASSUME RInv, RInv', NEW c \in Clients, Settle(c), game.flips = 2, ~IsMatch(game)
    PROVE  Memory!TurnDown(game.first, game.second)
<1> DEFINE g == game
           next == (g.current + 1) % g.count
<1>1. /\ GameInv(game) /\ Distinct(game) /\ game \in GameType
      /\ game.state = "PLAYING" /\ ~over
      /\ game.first \in Cards /\ game.second \in Cards /\ game.first # game.second
      /\ CardsIn(game, "REVEALED") = {game.first, game.second}
      /\ game.current \in Seats(game)
      /\ game.players[game.current] \in Members(game)
      /\ TurnOf(game, over) = game.players[game.current]
  BY SettleState
<1>2. GameInv(game')
  BY DEF RInv, IInv
<1>3. /\ game'.players = game.players /\ game'.count = game.count
      /\ game'.scores = game.scores /\ game'.value = game.value
      /\ game'.state = "PLAYING" /\ ~over'
      /\ game'.current = next
      /\ game'.card = [i \in Cards |-> IF i \in {game.first, game.second}
                                       THEN "HIDDEN" ELSE game.card[i]]
  BY <1>1 DEF Settle, CheckMatch, Mismatch, TurnOver, GameType
<1>4. Members(game') = Members(game) /\ Points(game') = Points(game)
  BY <1>1, <1>2, <1>3, SamePoints
<1>5. next \in Seats(game) /\ (next = game.current => game.count = 1)
  <2>1. game.count \in 1 .. 4 /\ game.current \in 0 .. game.count - 1
    BY <1>1, SeatsInSlots DEF Seats
  <2> QED
    BY <2>1 DEF Seats
<1>6. game.players[next] \in Members(game)
  BY <1>1, <1>5, FoundOnSeat DEF Members
<1>7. TurnOf(game', over') = game.players[next]
  BY <1>3 DEF TurnOf, CurrentPlayer
<1>8. game.players[next] = game.players[game.current]
        => Members(game) = {game.players[game.current]}
  <2> SUFFICES ASSUME game.players[next] = game.players[game.current]
               PROVE  Members(game) = {game.players[game.current]}
    OBVIOUS
  <2>1. next = game.current
    BY <1>1, <1>5, FoundOnSeat
  <2>2. Seats(game) = {game.current}
    BY <1>1, <1>5, <2>1 DEF Seats
  <2> QED
    BY <1>1, <2>2, MemberSeat
<1>9. Phase(game, over) = "playing" /\ Phase(game', over') = "playing"
  BY <1>1, <1>3 DEF Phase
<1>10. game.card \in [Cards -> {"HIDDEN", "REVEALED", "MATCHED"}]
  BY <1>1 DEF GameType
<1>11. Table(game') = Table(game) /\ CardsIn(game', "REVEALED") = {}
  BY <1>1, <1>3, <1>10 DEF Table, CardsIn
<1> QED
  BY <1>1, <1>3, <1>4, <1>6, <1>7, <1>8, <1>9, <1>11 DEF Memory!TurnDown, IsMatch

\* The table is empty exactly when every pair has been counted.
LEMMA EmptyTable ==
    ASSUME NEW g, GameInv(g)
    PROVE  Table(g) = {} <=> g.matched = TotalPairs
<1>1. g \in GameType /\ g.value \in Deals /\ PairsTogether(g)
  BY DEF GameInv
<1>2. g.matched = TotalPairs <=> MatchedValues(g) = Values
  BY <1>1, MatchedFinite DEF PairsTogether
<1>3. ASSUME Table(g) = {} PROVE MatchedValues(g) = Values
  BY <1>1, <1>3, DealCovers DEF Table, MatchedValues
<1>4. ASSUME MatchedValues(g) = Values, NEW i \in Cards PROVE g.card[i] = "MATCHED"
  <2>1. g.value[i] \in Values
    BY <1>1 DEF GameType
  <2>2. PICK j \in Cards : g.value[j] = g.value[i] /\ g.card[j] = "MATCHED"
    BY <1>4, <2>1 DEF MatchedValues
  <2> QED
    BY <1>1, <2>2 DEF PairsTogether
<1> QED
  BY <1>2, <1>3, <1>4 DEF Table

\* A match takes both cards off the table and is a point of the player who has
\* the turn.
LEMMA MatchMaps ==
    ASSUME RInv, RInv', NEW c \in Clients, Settle(c), game.flips = 2, IsMatch(game)
    PROVE  Memory!Win(game.first, game.second)
<1> DEFINE t == game.players[game.current]
<1>1. /\ GameInv(game) /\ Distinct(game) /\ game \in GameType
      /\ game.state = "PLAYING" /\ ~over
      /\ game.first \in Cards /\ game.second \in Cards /\ game.first # game.second
      /\ CardsIn(game, "REVEALED") = {game.first, game.second}
      /\ game.current \in Seats(game)
      /\ t \in Members(game)
      /\ TurnOf(game, over) = t
  BY SettleState
<1>2. GameInv(game')
  BY DEF RInv, IInv
<1>3. /\ game'.players = game.players /\ game'.count = game.count
      /\ game'.value = game.value /\ game'.current = game.current
      /\ game'.scores = [game.scores EXCEPT ![game.current] = @ + 1]
      /\ game'.matched = game.matched + 1
      /\ game'.state = IF game'.matched = TotalPairs THEN "FINISHED" ELSE "PLAYING"
      /\ over' = (game'.state = "FINISHED")
      /\ game'.card = [i \in Cards |-> IF i \in {game.first, game.second}
                                       THEN "MATCHED" ELSE game.card[i]]
  BY <1>1 DEF Settle, CheckMatch, Match, TurnOver, GameType
<1>4. Table(game') = {} <=> game'.state = "FINISHED"
  BY <1>2, <1>3, EmptyTable
<1>5. /\ Phase(game, over) = "playing"
      /\ Phase(game', over') = IF Table(game') = {} THEN "over" ELSE "playing"
  BY <1>1, <1>3, <1>4 DEF Phase
<1>6. TurnOf(game', over') = IF Table(game') = {} THEN NULL ELSE t
  BY <1>3, <1>4 DEF TurnOf, CurrentPlayer
<1>7. game.card \in [Cards -> {"HIDDEN", "REVEALED", "MATCHED"}]
  BY <1>1 DEF GameType
<1>8. /\ Table(game') = Table(game) \ CardsIn(game, "REVEALED")
      /\ CardsIn(game', "REVEALED") = {}
  BY <1>1, <1>3, <1>7 DEF Table, CardsIn
<1>9. /\ Members(game') = Members(game)
      /\ \A p \in Members(game) : IndexOf(game', p) = IndexOf(game, p)
  BY <1>1, <1>2, <1>3, SamePoints
<1>10. Points(game') = [Points(game) EXCEPT ![t] = @ + 1]
  <2>1. game.scores \in [Slots -> Nat] /\ game.current \in Slots
    BY <1>1, SeatsInSlots DEF GameType
  <2>2. ASSUME NEW p \in Clients
        PROVE  Points(game')[p] = IF p = t THEN Points(game)[p] + 1 ELSE Points(game)[p]
    <3>1. CASE p \notin Members(game)
      BY <1>1, <1>9, <3>1 DEF Points, Members
    <3>2. CASE p \in Members(game)
      <4>1. /\ IndexOf(game, p) \in Slots
            /\ Points(game)[p] = game.scores[IndexOf(game, p)]
            /\ game.players[IndexOf(game, p)] = p
        BY <1>1, <3>2, MemberSeat, SeatsInSlots
      <4>2. Points(game')[p] = game'.scores[IndexOf(game, p)]
        BY <1>2, <1>9, <3>2, MemberSeat
      <4>3. IndexOf(game, p) = game.current <=> p = t
        BY <1>1, <4>1, FoundOnSeat
      <4> QED
        BY <1>3, <2>1, <4>1, <4>2, <4>3
    <3> QED
      BY <3>1, <3>2
  <2>3. t \in Clients
    BY <1>1 DEF Members
  <2> QED
    BY <2>2, <2>3 DEF Points
<1> QED
  BY <1>1, <1>3, <1>5, <1>6, <1>8, <1>9, <1>10 DEF Memory!Win, IsMatch

LEMMA SettleMaps ==
    ASSUME RInv, RInv', NEW c \in Clients, Settle(c)
    PROVE  Memory!Next \/ UNCHANGED Memory!vars
<1>1. CASE game.flips # 2
  <2>1. game' = game /\ over' = (game.state = "FINISHED")
    BY <1>1 DEF Settle, CheckMatch
  <2>2. over' = over
    BY <2>1 DEF Settle, RInv, IInv, TypeOK, Underway, At
  <2> QED
    BY <2>1, <2>2 DEF Memory!vars
<1>2. CASE game.flips = 2
  <2>1. game.first \in Cards /\ game.second \in Cards
    BY <1>2, SettleState
  <2> QED
    BY <1>2, <2>1, MatchMaps, MismatchMaps DEF Memory!Next
<1> QED
  BY <1>1, <1>2

-----------------------------------------------------------------------------
(* The loss of players.                                                    *)

\* The places that lead are those of the players who lead.
LEMMA LeadersLead ==
    ASSUME NEW g, GameInv(g), Distinct(g), NEW c \in Clients,
           NEW q \in Members(g) \ {c}
    PROVE  IndexOf(g, q) \in Leaders(g, c) <=>
             \A r \in Members(g) \ {c} : Points(g)[r] <= Points(g)[q]
<1>1. ASSUME NEW r \in Members(g) \ {c}
      PROVE  /\ IndexOf(g, r) \in Rivals(g, c)
             /\ Points(g)[r] = g.scores[IndexOf(g, r)]
  <2>1. r \in Clients /\ r # NULL
    BY ClientsAssumption DEF Members
  <2> QED
    BY <2>1, MemberSeat DEF Rivals
<1>2. ASSUME NEW j \in Rivals(g, c)
      PROVE  /\ g.players[j] \in Members(g) \ {c}
             /\ Points(g)[g.players[j]] = g.scores[j]
  BY FoundOnSeat, PointsOnSeat DEF Rivals, Members
<1>3. ASSUME IndexOf(g, q) \in Leaders(g, c), NEW r \in Members(g) \ {c}
      PROVE  Points(g)[r] <= Points(g)[q]
  BY <1>1, <1>3 DEF Leaders
<1>4. ASSUME \A r \in Members(g) \ {c} : Points(g)[r] <= Points(g)[q],
             NEW j \in Rivals(g, c)
      PROVE  g.scores[j] <= g.scores[IndexOf(g, q)]
  BY <1>1, <1>2, <1>4
<1> QED
  BY <1>1, <1>3, <1>4 DEF Leaders

Forfeited(g, h, c) == h = [g EXCEPT !.scores = Forfeit(g, c)]

\* A forfeit gives points to those who lead, and to nobody else.
LEMMA ForfeitMaps ==
    ASSUME RInv, RInv', NEW c \in Clients, ~over, over',
           Forfeited(game, game', c)
    PROVE  Memory!GiveUp(c)
<1> DEFINE S == Forfeit(game, c)
<1>1. GameInv(game) /\ GameInv(game') /\ Distinct(game) /\ game \in GameType
  BY DEF RInv, IInv, GameInv
<1>2. game.state # "FINISHED"
  BY DEF RInv, Underway
<1>3. /\ S \in [Slots -> Nat]
      /\ \A i \in Slots : S[i] >= game.scores[i]
  BY <1>1, ForfeitType
<1>4. \A i \in Slots : i \notin Leaders(game, c) => S[i] = game.scores[i]
  BY DEF Forfeit
<1> HIDE DEF S
<1>5. /\ game'.players = game.players /\ game'.count = game.count
      /\ game'.value = game.value /\ game'.card = game.card
      /\ game'.scores = S
  BY <1>1 DEF GameType, Forfeited, S
<1>6. /\ Members(game') = Members(game)
      /\ \A p \in Members(game) : IndexOf(game', p) = IndexOf(game, p)
  BY <1>1, <1>5, SamePoints
<1>7. /\ Phase(game, over) # "over" /\ Phase(game', over') = "over"
      /\ TurnOf(game', over') = NULL
  BY <1>2 DEF Phase, TurnOf
<1>8. Table(game') = Table(game) /\ CardsIn(game', "REVEALED") = CardsIn(game, "REVEALED")
  BY <1>5 DEF Table, CardsIn
<1>9. ASSUME NEW q \in Members(game)
      PROVE  /\ IndexOf(game, q) \in Slots /\ game.players[IndexOf(game, q)] = q
             /\ Points(game)[q] = game.scores[IndexOf(game, q)]
             /\ Points(game')[q] = S[IndexOf(game, q)]
  <2>1. /\ IndexOf(game, q) \in Seats(game) /\ game.players[IndexOf(game, q)] = q
        /\ Points(game)[q] = game.scores[IndexOf(game, q)]
    BY <1>1, MemberSeat
  <2>2. Points(game')[q] = game'.scores[IndexOf(game', q)]
    <3>1. q \in Members(game')
      BY <1>6
    <3> QED
      BY <1>1, <3>1, MemberSeat
  <2> QED
    BY <1>1, <1>5, <1>6, <2>1, <2>2, SeatsInSlots
<1>10. ASSUME NEW q \in Clients, q \notin Members(game)
       PROVE  Points(game)[q] = 0 /\ Points(game')[q] = 0
  BY <1>6, <1>10 DEF Points, Members
<1>11. Points(game') \in [Clients -> Nat]
  <2>1. \A q \in Clients : Points(game')[q] \in Nat
    BY <1>3, <1>9, <1>10
  <2>2. Points(game') = [q \in Clients |-> Points(game')[q]]
    BY DEF Points
  <2> QED
    BY <2>1, <2>2
<1>12. ASSUME NEW q \in Clients
       PROVE  IF q \in Members(game) \ {c} /\ Memory!Leading(q, c)
              THEN Points(game')[q] >= Points(game)[q]
              ELSE Points(game')[q] = Points(game)[q]
  <2>1. CASE q \notin Members(game)
    BY <1>10, <2>1
  <2>2. CASE q \in Members(game) /\ q = c
    <3>1. IndexOf(game, q) \notin Leaders(game, c)
      BY <1>9, <2>2 DEF Leaders, Rivals
    <3> QED
      BY <1>4, <1>9, <2>2, <3>1
  <2>3. CASE q \in Members(game) \ {c}
    <3>1. IndexOf(game, q) \in Leaders(game, c) <=> Memory!Leading(q, c)
      BY <1>1, <2>3, LeadersLead DEF Memory!Leading
    <3> QED
      BY <1>3, <1>4, <1>9, <2>3, <3>1
  <2> QED
    BY <2>1, <2>2, <2>3
<1> QED
  BY <1>5, <1>6, <1>7, <1>8, <1>11, <1>12 DEF Memory!GiveUp

\* Who leaves the room either ends the game or changes nothing of it.
LEMMA UnseatMaps ==
    ASSUME RInv, RInv', NEW c \in Clients, ~over, Unseat(c)
    PROVE  Memory!GiveUp(c) \/ UNCHANGED Memory!vars
<1>1. CASE over'
  BY <1>1, ForfeitMaps DEF Unseat, Forfeited
<1>2. CASE ~over'
  BY <1>2 DEF Unseat, Memory!vars, Phase, TurnOf
<1> QED
  BY <1>1, <1>2

\* When the places above a player's move down, every other player keeps the
\* points, and the turn is at a place that is in use.
LEMMA RemoveMaps ==
    ASSUME RInv, RInv', NEW c \in Clients, RemoveFromGame(c), PlaysIn(game, c)
    PROVE  Memory!Lose(c)
<1> DEFINE k == IndexOf(game, c)
<1>1. GameInv(game) /\ GameInv(game') /\ Distinct(game) /\ Distinct(game')
      /\ game \in GameType
  BY DEF RInv, IInv, GameInv
<1>2. /\ game.state = "PLAYING" /\ ~over /\ ~over'
  BY DEF RInv, Underway, RemoveFromGame, At
<1>3. c \in Members(game) /\ k \in Seats(game) /\ game.players[k] = c
  BY IndexOfSeat, <1>1 DEF Members
<1>4. game' = RemoveAt(game, k)
  BY DEF RemoveFromGame, RemovePlayer
<1> HIDE DEF k
<1>5. /\ game'.players = ShiftDown(game.players, k, game.count, NULL)
      /\ game'.scores = ShiftDown(game.scores, k, game.count, 0)
      /\ game'.count = game.count - 1
      /\ game'.card = game.card /\ game'.value = game.value
      /\ game'.state = "PLAYING"
  BY <1>1, <1>2, <1>4 DEF RemoveAt, GameType
<1>6. game.count \in 1 .. 4 /\ k \in 0 .. game.count - 1
  BY <1>1, <1>3, SeatsInSlots DEF Seats
<1>7. ASSUME NEW j \in Seats(game), j # k
      PROVE  LET i == IF j < k THEN j ELSE j - 1
             IN  /\ i \in Seats(game')
                 /\ game'.players[i] = game.players[j]
                 /\ game'.scores[i] = game.scores[j]
  BY <1>5, <1>6, <1>7 DEF ShiftDown, Seats, Slots, MAX_PLAYERS_PER_ROOM
<1>8. ASSUME NEW i \in Seats(game')
      PROVE  LET j == IF i < k THEN i ELSE i + 1
             IN  j \in Seats(game) /\ j # k /\ game'.players[i] = game.players[j]
  BY <1>5, <1>6, <1>8 DEF ShiftDown, Seats, Slots, MAX_PLAYERS_PER_ROOM
<1>9. Members(game') = Members(game) \ {c}
  <2>1. ASSUME NEW p \in Members(game) \ {c} PROVE p \in Members(game')
    <3>1. IndexOf(game, p) \in Seats(game) /\ game.players[IndexOf(game, p)] = p
      BY <1>1, MemberSeat
    <3>2. IndexOf(game, p) # k
      BY <1>3, <3>1
    <3>3. PICK i \in Seats(game') : game'.players[i] = p
      BY <1>7, <3>1, <3>2
    <3> QED
      BY <3>3 DEF Members, PlaysIn
  <2>2. ASSUME NEW p \in Members(game') PROVE p \in Members(game) \ {c}
    <3>1. PICK j \in Seats(game) : j # k /\ game.players[j] = p
      BY <1>1, <1>8, MemberSeat
    <3>2. p # c
      BY <1>1, <1>3, <3>1, FoundOnSeat
    <3> QED
      BY <3>1, <3>2 DEF Members, PlaysIn
  <2> QED
    BY <2>1, <2>2
<1>10. Points(game') = [Points(game) EXCEPT ![c] = 0]
  <2>1. ASSUME NEW p \in Clients
        PROVE  Points(game')[p] = IF p = c THEN 0 ELSE Points(game)[p]
    <3>1. CASE p \notin Members(game')
      BY <1>9, <3>1 DEF Points, Members
    <3>2. CASE p \in Members(game')
      <4>1. p \in Members(game) /\ p # c
        BY <1>9, <3>2
      <4>2. /\ IndexOf(game, p) \in Seats(game) /\ game.players[IndexOf(game, p)] = p
            /\ Points(game)[p] = game.scores[IndexOf(game, p)]
        BY <1>1, <4>1, MemberSeat
      <4>3. IndexOf(game, p) # k
        BY <1>3, <4>1, <4>2
      <4>4. PICK i \in Seats(game') :
              game'.players[i] = p /\ game'.scores[i] = game.scores[IndexOf(game, p)]
        BY <1>7, <4>2, <4>3
      <4>5. Points(game')[p] = game'.scores[i]
        BY <1>1, <4>4, PointsOnSeat
      <4> QED
        BY <4>1, <4>2, <4>4, <4>5
    <3> QED
      BY <3>1, <3>2
  <2> QED
    BY <2>1 DEF Points
<1>11. IF Members(game') = {} THEN TurnOf(game', over') = NULL
       ELSE TurnOf(game', over') \in Members(game')
  <2>1. TurnOf(game', over') = game'.players[game'.current]
    BY <1>2, <1>5 DEF TurnOf, CurrentPlayer
  <2>2. CASE game'.count = 0
    <3>1. game'.players[game'.current] = NULL
      BY <1>1, <2>2 DEF GameInv, PlayersInPlace, GameType, Slots,
         MAX_PLAYERS_PER_ROOM
    <3>2. Members(game') = {}
      BY <2>2 DEF Members, PlaysIn, Seats
    <3> QED
      BY <2>1, <3>1, <3>2
  <2>3. CASE game'.count # 0
    <3>1. game'.current \in Seats(game')
      BY <1>1, <2>3, SeatsInSlots DEF GameInv, PlayersInPlace, GameType, Seats,
         Slots, MAX_PLAYERS_PER_ROOM
    <3> QED
      BY <1>1, <2>1, <3>1, FoundOnSeat DEF Members
  <2> QED
    BY <2>2, <2>3
<1>12. Phase(game, over) = "playing" /\ Phase(game', over') = "playing"
  BY <1>2, <1>5 DEF Phase
<1>13. Table(game') = Table(game) /\ CardsIn(game', "REVEALED") = CardsIn(game, "REVEALED")
  BY <1>5 DEF Table, CardsIn
<1> QED
  BY <1>3, <1>5, <1>9, <1>10, <1>11, <1>12, <1>13 DEF Memory!Lose, Memory!Given

-----------------------------------------------------------------------------

\* Every step of a handler or of the timeout checker is a step of the abstract
\* game or does not change it.
LEMMA NextMaps == RInv /\ RInv' /\ [Next]_vars => [Memory!Next]_(Memory!vars)
<1> SUFFICES ASSUME RInv, RInv', [Next]_vars
             PROVE  Memory!Next \/ UNCHANGED Memory!vars
  OBVIOUS
<1>1. ASSUME NEW c \in Clients, MarkReady(c) PROVE UNCHANGED Memory!vars
  BY <1>1, ReadyMaps
<1>2. ASSUME NEW c \in Clients, StartGame(c)
      PROVE  Memory!Begin \/ UNCHANGED Memory!vars
  BY <1>2, StartMaps
<1>3. ASSUME NEW c \in Clients, NEW i \in Cards, Flip(c, i) PROVE Memory!TurnUp(i)
  BY <1>3, FlipMaps
<1>4. ASSUME NEW c \in Clients, Settle(c)
      PROVE  Memory!Next \/ UNCHANGED Memory!vars
  BY <1>4, SettleMaps
<1>5. ASSUME NEW c \in Clients, Leave(c) \/ RemoveFromRoom(c)
      PROVE  Memory!GiveUp(c) \/ UNCHANGED Memory!vars
  BY <1>5, UnseatMaps DEF Leave, RemoveFromRoom, Idle, At
<1>6. ASSUME NEW c \in Clients, Drop(c) \/ Wait(c) \/ Return(c)
      PROVE  UNCHANGED Memory!vars
  BY <1>6 DEF Drop, Wait, Return, Memory!vars, Phase, TurnOf
<1>7. ASSUME NEW c \in Clients, RemoveFromGame(c)
      PROVE  Memory!Lose(c) \/ UNCHANGED Memory!vars
  <2>1. CASE PlaysIn(game, c)
    BY <1>7, <2>1, RemoveMaps
  <2>2. CASE ~PlaysIn(game, c)
    BY <1>7, <2>2 DEF RemoveFromGame, RemovePlayer, Memory!vars, Phase, TurnOf
  <2> QED
    BY <2>1, <2>2
<1>8. ASSUME NEW c \in Clients, Expire(c) PROVE Memory!GiveUp(c)
  BY <1>8, ForfeitMaps DEF Expire, At, Forfeited
<1>9. CASE UNCHANGED vars
  BY <1>9 DEF vars, Memory!vars, Phase, TurnOf
<1> QED
  BY <1>1, <1>2, <1>3, <1>4, <1>5, <1>6, <1>7, <1>8, <1>9
     DEF Next, Request, Continue, Ended, Memory!Next

\* The game that handlers, losses and the timeout checker play in the arrays of
\* a game_t is the game that the players know.
THEOREM GameImplementsMemory == Spec => PlaysMemory
<1>1. Spec => []RInv
  BY InitRInv, NextRInv, PTL DEF Spec
<1> QED
  BY <1>1, InitMaps, NextMaps, PTL DEF Spec, PlaysMemory, Memory!Spec
=============================================================================

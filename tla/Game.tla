-------------------------------- MODULE Game --------------------------------
(***************************************************************************)
(* The game_t object of server_src/game.c as a record, and every function  *)
(* of that file as an operator from a game to a game.  The operators hold  *)
(* no state: GamePlay and Rooms apply them to the games they keep.         *)
(*                                                                         *)
(* The C arrays of MAX_PLAYERS_PER_ROOM entries are functions on Slots, so *)
(* that the shifting of players is visible.  Cards are their indices.      *)
(***************************************************************************)
EXTENDS Integers, FiniteSets

CONSTANTS Clients,      \* the client_t objects a game may point to
          NULL,         \* the null pointer
          TotalPairs    \* total_pairs, half of board_size * board_size

ASSUME ClientsAssumption == NULL \notin Clients
ASSUME PairsAssumption == TotalPairs \in Nat \ {0}

MAX_PLAYERS_PER_ROOM == 4
Slots == 0 .. MAX_PLAYERS_PER_ROOM - 1
Cards == 0 .. 2 * TotalPairs - 1
Values == 1 .. TotalPairs
NoCard == -1

-----------------------------------------------------------------------------
(* The state of a game.                                                    *)

GameType ==
    [players : [Slots -> Clients \cup {NULL}],
     count   : 0 .. MAX_PLAYERS_PER_ROOM,
     scores  : [Slots -> Nat],
     ready   : [Slots -> BOOLEAN],
     current : Slots,
     first   : Cards \cup {NoCard},
     second  : Cards \cup {NoCard},
     flips   : 0 .. 2,
     matched : Nat,
     state   : {"WAITING", "PLAYING", "FINISHED"},
     card    : [Cards -> {"HIDDEN", "REVEALED", "MATCHED"}],
     value   : [Cards -> Values]]

\* What shuffle_array can leave in the array 1,1,2,2,3,3,...: every value on
\* exactly two cards.
Deals ==
    {v \in [Cards -> Values] :
        \A p \in Values : \E i, j \in Cards :
            i # j /\ {k \in Cards : v[k] = p} = {i, j}}

\* The places of a game that are in use.
Seats(g) == 0 .. g.count - 1
PlaysIn(g, c) == \E i \in Seats(g) : g.players[i] = c
IndexOf(g, c) ==
    CHOOSE i \in Seats(g) :
        g.players[i] = c /\ \A j \in Seats(g) : g.players[j] = c => i <= j

CardsIn(g, s) == {i \in Cards : g.card[i] = s}

-----------------------------------------------------------------------------
(* game_create: the first n pointers of the room's array are copied.       *)

CanCreate(n) == n \in 2 .. MAX_PLAYERS_PER_ROOM

Create(ps, n, deal) ==
    [players |-> [i \in Slots |-> IF i < n THEN ps[i] ELSE NULL],
     count   |-> n,
     scores  |-> [i \in Slots |-> 0],
     ready   |-> [i \in Slots |-> FALSE],
     current |-> 0,
     first   |-> NoCard,
     second  |-> NoCard,
     flips   |-> 0,
     matched |-> 0,
     state   |-> "WAITING",
     card    |-> [i \in Cards |-> "HIDDEN"],
     value   |-> deal]

(* game_remove_player: the places above the leaver's move down by one.     *)

\* Mutant: the loop starts one place too late.
ShiftDownLate(a, k, n, empty) ==
    [i \in Slots |-> IF i \in k + 1 .. n - 2 THEN a[i + 1]
                     ELSE IF i = n - 1 THEN empty ELSE a[i]]

ShiftDown(a, k, n, empty) ==
    [i \in Slots |-> IF i \in k .. n - 2 THEN a[i + 1]
                     ELSE IF i = n - 1 THEN empty ELSE a[i]]

TurnAfterRemoval(g, k) ==
    IF g.current >= g.count - 1 THEN 0
    ELSE IF g.current > k THEN g.current - 1 ELSE g.current

\* Mutant: the points are not moved with their players.
RemoveAtKeepingScores(g, k) ==
    [g EXCEPT !.players = ShiftDown(@, k, g.count, NULL),
              !.ready   = ShiftDown(@, k, g.count, FALSE),
              !.count   = @ - 1,
              !.current = TurnAfterRemoval(g, k)]

RemoveAt(g, k) ==
    [g EXCEPT !.players = ShiftDown(@, k, g.count, NULL),
              !.scores  = ShiftDown(@, k, g.count, 0),
              !.ready   = ShiftDown(@, k, g.count, FALSE),
              !.count   = @ - 1,
              !.current = TurnAfterRemoval(g, k)]

RemovePlayer(g, c) == IF PlaysIn(g, c) THEN RemoveAt(g, IndexOf(g, c)) ELSE g

-----------------------------------------------------------------------------
(* game_player_ready, game_all_players_ready, game_start.                  *)

CanReady(g, c) == g.state = "WAITING" /\ PlaysIn(g, c)
PlayerReady(g, c) == [g EXCEPT !.ready[IndexOf(g, c)] = TRUE]
AllPlayersReady(g) == \A i \in Seats(g) : g.ready[i]

CanStart(g) == g.state = "WAITING"
Start(g) == [g EXCEPT !.state = "PLAYING", !.current = 0]

(* game_get_current_player.                                                *)
CurrentPlayer(g) == IF g.state = "PLAYING" THEN g.players[g.current] ELSE NULL

(* game_flip_card.                                                         *)

\* Mutant: flips_this_turn is not checked.
CanFlipThird(g, c, i) ==
    /\ g.state = "PLAYING"
    /\ g.players[g.current] = c
    /\ i \in Cards
    /\ g.card[i] = "HIDDEN"

CanFlip(g, c, i) ==
    /\ g.state = "PLAYING"
    /\ g.players[g.current] = c
    /\ g.flips < 2
    /\ i \in Cards
    /\ g.card[i] = "HIDDEN"

FlipCard(g, i) ==
    [g EXCEPT !.card[i] = "REVEALED",
              !.flips   = @ + 1,
              !.first   = IF g.flips = 0 THEN i ELSE @,
              !.second  = IF g.flips = 0 THEN @ ELSE i]

(* game_check_match, called with two cards turned.                         *)

IsMatch(g) == g.value[g.first] = g.value[g.second]

\* Mutant: second_card_index is not reset.
TurnOverKeepingSecond(g, face) ==
    [g EXCEPT !.card  = [i \in Cards |-> IF i \in {g.first, g.second}
                                         THEN face ELSE @[i]],
              !.first = NoCard,
              !.flips = 0]

TurnOver(g, face) ==
    [g EXCEPT !.card   = [i \in Cards |-> IF i \in {g.first, g.second}
                                          THEN face ELSE @[i]],
              !.first  = NoCard,
              !.second = NoCard,
              !.flips  = 0]

\* Mutant: matched_pairs is not incremented.
MatchUncounted(g) ==
    [TurnOver(g, "MATCHED") EXCEPT
        !.scores[g.current] = @ + 1,
        !.state = IF g.matched + 1 = TotalPairs THEN "FINISHED" ELSE @]

\* Mutant: the end of the game is tested before the pair is counted.
MatchTestedEarly(g) ==
    [TurnOver(g, "MATCHED") EXCEPT
        !.scores[g.current] = @ + 1,
        !.matched = @ + 1,
        !.state   = IF g.matched = TotalPairs THEN "FINISHED" ELSE @]

\* Mutant: the turn passes after a match too.
MatchPassingTurn(g) ==
    [TurnOver(g, "MATCHED") EXCEPT
        !.scores[g.current] = @ + 1,
        !.matched = @ + 1,
        !.current = (@ + 1) % g.count,
        !.state   = IF g.matched + 1 = TotalPairs THEN "FINISHED" ELSE @]

Match(g) ==
    [TurnOver(g, "MATCHED") EXCEPT
        !.scores[g.current] = @ + 1,
        !.matched = @ + 1,
        !.state   = IF g.matched + 1 = TotalPairs THEN "FINISHED" ELSE @]

Mismatch(g) ==
    [TurnOver(g, "HIDDEN") EXCEPT !.current = (@ + 1) % g.count]

CheckMatch(g) ==
    IF g.flips # 2 THEN g
    ELSE IF IsMatch(g) THEN Match(g) ELSE Mismatch(g)

-----------------------------------------------------------------------------
(* The forfeit, written out twice in the server: in room_remove_player and *)
(* in the timeout checker.  The remaining pairs go to the players with the *)
(* highest score other than the leaver, the odd ones to the first of them. *)

Rivals(g, c) == {i \in Seats(g) : g.players[i] \notin {c, NULL}}

Leaders(g, c) ==
    {i \in Rivals(g, c) : \A j \in Rivals(g, c) : g.scores[j] <= g.scores[i]}

\* Mutant: the odd pairs are not given out.
ForfeitLosingOdd(g, c) ==
    LET winners == Leaders(g, c)
    IN  [i \in Slots |->
            IF i \in winners
            THEN g.scores[i] + (TotalPairs - g.matched) \div Cardinality(winners)
            ELSE g.scores[i]]

Forfeit(g, c) ==
    LET rest    == TotalPairs - g.matched
        winners == Leaders(g, c)
        n       == Cardinality(winners)
        bonus(i) == rest \div n
                    + (IF Cardinality({j \in winners : j < i}) < rest % n
                       THEN 1 ELSE 0)
    IN  [i \in Slots |-> IF i \in winners THEN g.scores[i] + bonus(i)
                         ELSE g.scores[i]]

-----------------------------------------------------------------------------
(* What is true of every game between two calls of these functions.        *)

\* The cards lying face up are exactly those the unfinished turn recorded.
FaceUpIsTurn(g) ==
    /\ CardsIn(g, "REVEALED") = {g.first, g.second} \ {NoCard}
    /\ (g.first # NoCard) <=> (g.flips >= 1)
    /\ (g.second # NoCard) <=> (g.flips = 2)
    /\ g.flips = 2 => g.first # g.second

MatchedValues(g) ==
    {v \in Values : \E i \in Cards : g.value[i] = v /\ g.card[i] = "MATCHED"}

\* The two cards of a value leave together, and matched_pairs counts them.
PairsTogether(g) ==
    /\ \A i, j \in Cards :
          g.value[i] = g.value[j]
            => (g.card[i] = "MATCHED" <=> g.card[j] = "MATCHED")
    /\ g.matched = Cardinality(MatchedValues(g))

\* Some card can be turned as long as the turn is not full.
HasMove(g) ==
    g.state = "PLAYING" /\ g.flips < 2 => CardsIn(g, "HIDDEN") # {}

\* The players fill the first places, and the turn is at one of them.
PlayersInPlace(g) ==
    /\ \A i \in Slots : g.players[i] # NULL <=> i < g.count
    /\ g.current < g.count \/ (g.count = 0 /\ g.current = 0)
=============================================================================

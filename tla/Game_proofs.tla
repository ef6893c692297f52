---------------------------- MODULE Game_proofs ----------------------------
(***************************************************************************)
(* What the operators of Game preserve, for every number of pairs and every *)
(* set of clients.  GameInv is the strengthening that makes it inductive:   *)
(* the deal never changes, and a game is finished exactly when all its      *)
(* pairs are matched.                                                       *)
(***************************************************************************)
EXTENDS Game, FiniteSetTheorems, TLAPS

GameInv(g) ==
    /\ g \in GameType
    /\ g.value \in Deals
    /\ PlayersInPlace(g)
    /\ FaceUpIsTurn(g)
    /\ PairsTogether(g)
    /\ g.state = "FINISHED" <=> g.matched = TotalPairs

-----------------------------------------------------------------------------

\* Two cards of one value are the only cards of that value.
LEMMA DealPairs ==
    ASSUME NEW v \in Deals, NEW i \in Cards, NEW j \in Cards, NEW k \in Cards,
           i # j, v[i] = v[j], v[k] = v[i]
    PROVE  k \in {i, j}
<1>1. v[i] \in Values
  BY DEF Deals
<1>2. PICK x, y \in Cards : x # y /\ {m \in Cards : v[m] = v[i]} = {x, y}
  BY <1>1 DEF Deals
<1>3. i \in {x, y} /\ j \in {x, y} /\ k \in {x, y}
  BY <1>2
<1> QED
  BY <1>2, <1>3

\* Every card has a partner, and every value a card.
LEMMA DealPartner ==
    ASSUME NEW v \in Deals, NEW i \in Cards
    PROVE  \E j \in Cards : j # i /\ v[j] = v[i]
<1>1. v[i] \in Values
  BY DEF Deals
<1>2. PICK x, y \in Cards : x # y /\ {m \in Cards : v[m] = v[i]} = {x, y}
  BY <1>1 DEF Deals
<1>3. i \in {x, y}
  BY <1>2
<1>4. v[x] = v[i] /\ v[y] = v[i]
  BY <1>2
<1> QED
  BY <1>2, <1>3, <1>4

LEMMA DealCovers ==
    ASSUME NEW v \in Deals, NEW p \in Values
    PROVE  \E i \in Cards : v[i] = p
BY DEF Deals

\* The values that have left the board are finitely many: at most all.
LEMMA MatchedFinite ==
    ASSUME NEW g
    PROVE  /\ IsFiniteSet(MatchedValues(g))
           /\ IsFiniteSet(Values)
           /\ Cardinality(Values) = TotalPairs
           /\ Cardinality(MatchedValues(g)) <= TotalPairs
           /\ Cardinality(MatchedValues(g)) = TotalPairs
                => MatchedValues(g) = Values
<1>1. IsFiniteSet(Values) /\ Cardinality(Values) = TotalPairs
  BY PairsAssumption, FS_Interval DEF Values
<1>2. MatchedValues(g) \in SUBSET Values
  BY DEF MatchedValues
<1> QED
  BY <1>1, <1>2, FS_Subset

-----------------------------------------------------------------------------

\* game_create returns a game that satisfies the invariant, if the first n
\* places of the room's array are taken and no others.
LEMMA CreateInv ==
    ASSUME NEW n \in Nat, CanCreate(n),
           NEW ps \in [Slots -> Clients \cup {NULL}],
           \A i \in Slots : ps[i] # NULL <=> i < n,
           NEW deal \in Deals
    PROVE  GameInv(Create(ps, n, deal))
<1> DEFINE g == Create(ps, n, deal)
<1>1. g \in GameType
  BY DEF Create, GameType, Deals, CanCreate, Slots, MAX_PLAYERS_PER_ROOM, NoCard
<1>2. g.value \in Deals
  BY DEF Create
<1>3. PlayersInPlace(g)
  BY DEF Create, PlayersInPlace, CanCreate, Slots, MAX_PLAYERS_PER_ROOM
<1>4. FaceUpIsTurn(g)
  BY DEF Create, FaceUpIsTurn, CardsIn
<1>5. MatchedValues(g) = {} /\ g.matched = 0
  BY DEF Create, MatchedValues
<1>6. PairsTogether(g)
  BY <1>5, FS_EmptySet DEF Create, PairsTogether
<1>7. g.state = "FINISHED" <=> g.matched = TotalPairs
  BY PairsAssumption DEF Create
<1> QED
  BY <1>1, <1>2, <1>3, <1>4, <1>6, <1>7 DEF GameInv

\* game_player_ready and game_start leave the board alone.
LEMMA ReadyInv ==
    ASSUME NEW g, GameInv(g), NEW c \in Clients
    PROVE  GameInv(PlayerReady(g, c))
<1> DEFINE h == PlayerReady(g, c)
<1>1. h \in GameType
  BY DEF GameInv, GameType, PlayerReady
<1>2. /\ h.players = g.players /\ h.count = g.count /\ h.current = g.current
      /\ h.first = g.first /\ h.second = g.second /\ h.flips = g.flips
      /\ h.matched = g.matched /\ h.state = g.state
      /\ h.card = g.card /\ h.value = g.value
  BY DEF GameInv, GameType, PlayerReady
<1> QED
  BY <1>1, <1>2 DEF GameInv, PlayersInPlace, FaceUpIsTurn, CardsIn,
     PairsTogether, MatchedValues

LEMMA StartInv ==
    ASSUME NEW g, GameInv(g), CanStart(g)
    PROVE  GameInv(Start(g))
<1>1. Start(g) \in GameType
  <2>1. 0 \in Slots
    BY DEF Slots, MAX_PLAYERS_PER_ROOM
  <2> QED
    BY <2>1 DEF GameInv, GameType, Start
<1>2. PlayersInPlace(Start(g))
  BY DEF GameInv, GameType, Start, PlayersInPlace, Slots
<1> QED
  BY <1>1, <1>2 DEF GameInv, GameType, Start, CanStart, FaceUpIsTurn,
     CardsIn, PairsTogether, MatchedValues

\* game_flip_card turns a hidden card and records it.
LEMMA FlipType ==
    ASSUME NEW g \in GameType, NEW c, NEW i \in Cards, CanFlip(g, c, i)
    PROVE  FlipCard(g, i) \in GameType
<1> DEFINE h == FlipCard(g, i)
<1>1. g.flips + 1 \in 0 .. 2
  BY DEF GameType, CanFlip
<1>2. [g.card EXCEPT ![i] = "REVEALED"]
        \in [Cards -> {"HIDDEN", "REVEALED", "MATCHED"}]
  BY DEF GameType
<1>3. /\ (IF g.flips = 0 THEN i ELSE g.first) \in Cards \cup {NoCard}
      /\ (IF g.flips = 0 THEN g.second ELSE i) \in Cards \cup {NoCard}
  BY DEF GameType
<1> HIDE DEF h
<1>4. h = [g EXCEPT !.card   = [g.card EXCEPT ![i] = "REVEALED"],
                    !.flips  = g.flips + 1,
                    !.first  = IF g.flips = 0 THEN i ELSE g.first,
                    !.second = IF g.flips = 0 THEN g.second ELSE i]
  BY DEF h, FlipCard, GameType
<1>5. h \in GameType
  BY <1>1, <1>2, <1>3, <1>4 DEF GameType
<1> QED
  BY <1>5 DEF h

LEMMA FlipInv ==
    ASSUME NEW g, GameInv(g), NEW c, NEW i \in Cards, CanFlip(g, c, i)
    PROVE  GameInv(FlipCard(g, i))
<1> DEFINE h == FlipCard(g, i)
<1>1. h \in GameType
  BY FlipType DEF GameInv
<1>2. FaceUpIsTurn(h)
  <2>1. CardsIn(h, "REVEALED") = CardsIn(g, "REVEALED") \cup {i}
    BY DEF GameInv, GameType, FlipCard, CanFlip, CardsIn
  <2>2. i \notin CardsIn(g, "REVEALED")
    BY DEF CanFlip, CardsIn
  <2>3. i # NoCard
    BY DEF Cards, NoCard
  <2>4. CASE g.flips = 0
    BY <2>1, <2>2, <2>3, <2>4 DEF GameInv, GameType, FaceUpIsTurn, FlipCard
  <2>5. CASE g.flips = 1
    BY <2>1, <2>2, <2>3, <2>5 DEF GameInv, GameType, FaceUpIsTurn, FlipCard
  <2> QED
    BY <2>4, <2>5 DEF CanFlip, GameInv, GameType
<1>3. \A k \in Cards : h.card[k] = "MATCHED" <=> g.card[k] = "MATCHED"
  BY DEF GameInv, GameType, FlipCard, CanFlip
<1>4. h.value = g.value /\ h.matched = g.matched /\ h.state = g.state
  BY DEF GameInv, GameType, FlipCard
<1>5. MatchedValues(h) = MatchedValues(g)
  BY <1>3, <1>4 DEF MatchedValues
<1>6. PairsTogether(h)
  BY <1>3, <1>4, <1>5 DEF GameInv, PairsTogether
<1>7. PlayersInPlace(h)
  BY DEF GameInv, GameType, PlayersInPlace, FlipCard
<1> QED
  BY <1>1, <1>2, <1>4, <1>6, <1>7 DEF GameInv

\* Both branches of game_check_match begin by turning over the two cards.
LEMMA TurnOverType ==
    ASSUME NEW g \in GameType, NEW face \in {"HIDDEN", "MATCHED"}
    PROVE  /\ TurnOver(g, face) \in GameType
           /\ TurnOver(g, face).current = g.current
           /\ TurnOver(g, face).scores = g.scores
           /\ TurnOver(g, face).matched = g.matched
           /\ TurnOver(g, face).state = g.state
<1> DEFINE cards == [i \in Cards |-> IF i \in {g.first, g.second} THEN face
                                      ELSE g.card[i]]
<1>1. cards \in [Cards -> {"HIDDEN", "REVEALED", "MATCHED"}]
  BY DEF GameType
<1>2. NoCard \in Cards \cup {NoCard} /\ 0 \in 0 .. 2
  OBVIOUS
<1> HIDE DEF cards
<1>3. TurnOver(g, face) = [g EXCEPT !.card = cards, !.first = NoCard,
                                    !.second = NoCard, !.flips = 0]
  BY DEF TurnOver, GameType, cards
<1> QED
  BY <1>1, <1>2, <1>3 DEF GameType

\* game_check_match on two cards that differ: both are hidden again and the
\* turn goes to a player of the game.
LEMMA MismatchInv ==
    ASSUME NEW g, GameInv(g), g.flips = 2, g.count # 0
    PROVE  GameInv(Mismatch(g))
<1> DEFINE h == Mismatch(g)
<1>1. (g.current + 1) % g.count \in 0 .. g.count - 1
  BY DEF GameInv, GameType, Slots, MAX_PLAYERS_PER_ROOM
<1>2. h \in GameType
  <2>1. (g.current + 1) % g.count \in Slots
    BY <1>1 DEF GameInv, GameType, Slots, MAX_PLAYERS_PER_ROOM
  <2> QED
    BY <2>1, TurnOverType DEF GameInv, GameType, Mismatch
<1>3. PlayersInPlace(h)
  BY <1>1 DEF GameInv, GameType, PlayersInPlace, Mismatch, TurnOver
<1>4. \A k \in Cards : h.card[k] = IF k \in {g.first, g.second} THEN "HIDDEN"
                                    ELSE g.card[k]
  BY DEF GameInv, GameType, Mismatch, TurnOver
<1>5. FaceUpIsTurn(h)
  <2>1. CardsIn(h, "REVEALED") = {}
    BY <1>4 DEF GameInv, FaceUpIsTurn, CardsIn
  <2>2. h.first = NoCard /\ h.second = NoCard /\ h.flips = 0
    BY DEF GameInv, GameType, Mismatch, TurnOver
  <2> QED
    BY <2>1, <2>2 DEF FaceUpIsTurn
<1>6. h.value = g.value /\ h.matched = g.matched /\ h.state = g.state
  BY DEF GameInv, GameType, Mismatch, TurnOver
<1>7. \A k \in Cards : h.card[k] = "MATCHED" <=> g.card[k] = "MATCHED"
  BY <1>4 DEF GameInv, FaceUpIsTurn, CardsIn
<1>8. MatchedValues(h) = MatchedValues(g)
  BY <1>6, <1>7 DEF MatchedValues
<1>9. PairsTogether(h)
  BY <1>6, <1>7, <1>8 DEF GameInv, PairsTogether
<1> QED
  BY <1>2, <1>3, <1>5, <1>6, <1>9 DEF GameInv

\* game_check_match on two equal cards: their value leaves the board, and
\* was still on it.
LEMMA MatchInv ==
    ASSUME NEW g, GameInv(g), g.flips = 2, IsMatch(g)
    PROVE  GameInv(Match(g))
<1> DEFINE h == Match(g)
           p == g.value[g.first]
<1>1. /\ g.first \in Cards /\ g.second \in Cards /\ g.first # g.second
      /\ g.value[g.second] = p /\ p \in Values
      /\ CardsIn(g, "REVEALED") = {g.first, g.second}
  BY DEF GameInv, GameType, FaceUpIsTurn, IsMatch
<1>2. h \in GameType
  <2> DEFINE t == TurnOver(g, "MATCHED")
  <2>1. t \in GameType /\ g \in GameType
    BY TurnOverType DEF GameInv
  <2>2. [t.scores EXCEPT ![g.current] = @ + 1] \in [Slots -> Nat]
    BY <2>1 DEF GameType
  <2>3. t.matched + 1 \in Nat
    BY <2>1 DEF GameType
  <2>4. (IF g.matched + 1 = TotalPairs THEN "FINISHED" ELSE t.state)
          \in {"WAITING", "PLAYING", "FINISHED"}
    BY <2>1 DEF GameType
  <2>5. h = [t EXCEPT !.scores = [t.scores EXCEPT ![g.current] = @ + 1],
                      !.matched = t.matched + 1,
                      !.state = IF g.matched + 1 = TotalPairs
                                THEN "FINISHED" ELSE t.state]
    BY DEF Match
  <2> HIDE DEF t, h
  <2> QED
    BY <2>1, <2>2, <2>3, <2>4, <2>5 DEF GameType
<1>3. PlayersInPlace(h)
  BY DEF GameInv, GameType, PlayersInPlace, Match, TurnOver
<1>4. \A k \in Cards : h.card[k] = IF k \in {g.first, g.second} THEN "MATCHED"
                                    ELSE g.card[k]
  BY DEF GameInv, GameType, Match, TurnOver
<1>5. FaceUpIsTurn(h)
  <2>1. CardsIn(h, "REVEALED") = {}
    BY <1>1, <1>4 DEF CardsIn
  <2>2. h.first = NoCard /\ h.second = NoCard /\ h.flips = 0
    BY DEF GameInv, GameType, Match, TurnOver
  <2> QED
    BY <2>1, <2>2 DEF FaceUpIsTurn
<1>6. h.value = g.value /\ h.matched = g.matched + 1
  BY DEF GameInv, GameType, Match, TurnOver
<1>7. \A k \in Cards : g.value[k] = p <=> k \in {g.first, g.second}
  BY <1>1, DealPairs DEF GameInv
<1>8. MatchedValues(h) = MatchedValues(g) \cup {p}
  BY <1>1, <1>4, <1>6, <1>7 DEF MatchedValues
<1>9. p \notin MatchedValues(g)
  BY <1>1, <1>7 DEF MatchedValues, CardsIn
<1>10. Cardinality(MatchedValues(h)) = Cardinality(MatchedValues(g)) + 1
  BY <1>8, <1>9, MatchedFinite, FS_AddElement
<1>11. PairsTogether(h)
  <2>1. h.matched = Cardinality(MatchedValues(h))
    BY <1>6, <1>10 DEF GameInv, PairsTogether
  <2>2. ASSUME NEW i \in Cards, NEW j \in Cards, h.value[i] = h.value[j]
        PROVE  h.card[i] = "MATCHED" <=> h.card[j] = "MATCHED"
    BY <2>2, <1>4, <1>6, <1>7 DEF GameInv, PairsTogether
  <2> QED
    BY <2>1, <2>2 DEF PairsTogether
<1>12. h.state = "FINISHED" <=> h.matched = TotalPairs
  <2>1. g.matched # TotalPairs
    BY <1>9, <1>1, MatchedFinite DEF GameInv, PairsTogether
  <2>2. g.state # "FINISHED"
    BY <2>1 DEF GameInv
  <2>3. h.state = IF g.matched + 1 = TotalPairs THEN "FINISHED" ELSE g.state
    BY DEF GameInv, GameType, Match, TurnOver
  <2> QED
    BY <1>6, <2>2, <2>3
<1> QED
  BY <1>2, <1>3, <1>5, <1>6, <1>11, <1>12 DEF GameInv, GameType

LEMMA CheckMatchInv ==
    ASSUME NEW g, GameInv(g), g.count # 0
    PROVE  GameInv(CheckMatch(g))
BY MatchInv, MismatchInv DEF CheckMatch

-----------------------------------------------------------------------------

\* game_remove_player moves each array down within its bounds.
LEMMA ShiftDownType ==
    ASSUME NEW S, NEW a \in [Slots -> S], NEW empty \in S,
           NEW n \in 1 .. MAX_PLAYERS_PER_ROOM, NEW k \in 0 .. n - 1
    PROVE  ShiftDown(a, k, n, empty) \in [Slots -> S]
<1>1. ASSUME NEW i \in Slots, i \in k .. n - 2
      PROVE  i + 1 \in Slots
  BY <1>1 DEF Slots, MAX_PLAYERS_PER_ROOM
<1> QED
  BY <1>1 DEF ShiftDown

LEMMA IndexOfPlayer ==
    ASSUME NEW g \in GameType, NEW c, PlaysIn(g, c)
    PROVE  IndexOf(g, c) \in Seats(g) /\ g.players[IndexOf(g, c)] = c
<1> DEFINE First(i) ==
        g.players[i] = c /\ \A j \in Seats(g) : g.players[j] = c => i <= j
<1>1. g.count \in 0 .. 4
  BY DEF GameType, MAX_PLAYERS_PER_ROOM
<1>2. \E i \in Seats(g) : First(i)
  BY <1>1 DEF PlaysIn, Seats
<1> HIDE DEF First
<1>3. IndexOf(g, c) = CHOOSE i \in Seats(g) : First(i)
  BY DEF IndexOf, First
<1>4. IndexOf(g, c) \in Seats(g) /\ First(IndexOf(g, c))
  BY <1>2, <1>3
<1> QED
  BY <1>4 DEF First

LEMMA IndexOfSeat ==
    ASSUME NEW g, GameInv(g), NEW c, PlaysIn(g, c)
    PROVE  IndexOf(g, c) \in Seats(g) /\ g.players[IndexOf(g, c)] = c
BY IndexOfPlayer DEF GameInv

\* The players stay in the first places and the turn at one of them; the
\* board is left as it is, in the middle of a turn too.
LEMMA RemoveAtInv ==
    ASSUME NEW g, GameInv(g), NEW k \in Seats(g)
    PROVE  GameInv(RemoveAt(g, k))
<1> DEFINE h == RemoveAt(g, k)
           P == ShiftDown(g.players, k, g.count, NULL)
           S == ShiftDown(g.scores, k, g.count, 0)
           R == ShiftDown(g.ready, k, g.count, FALSE)
           T == TurnAfterRemoval(g, k)
<1>1. g \in GameType /\ g.count \in 1 .. 4 /\ k \in 0 .. g.count - 1
  BY DEF GameInv, GameType, Seats, MAX_PLAYERS_PER_ROOM
<1>2. P \in [Slots -> Clients \cup {NULL}]
  BY <1>1, ShiftDownType DEF GameType, MAX_PLAYERS_PER_ROOM
<1>3. S \in [Slots -> Nat]
  BY <1>1, ShiftDownType DEF GameType, MAX_PLAYERS_PER_ROOM
<1>4. R \in [Slots -> BOOLEAN]
  BY <1>1, ShiftDownType DEF GameType, MAX_PLAYERS_PER_ROOM
<1>5. /\ T \in Slots
      /\ T < g.count - 1 \/ (g.count = 1 /\ T = 0)
  BY <1>1 DEF GameType, TurnAfterRemoval, Slots, MAX_PLAYERS_PER_ROOM
<1>6. \A i \in Slots : P[i] # NULL <=> i < g.count - 1
  <2> SUFFICES ASSUME NEW i \in Slots
               PROVE  P[i] # NULL <=> i < g.count - 1
    OBVIOUS
  <2>1. P[i] = IF i \in k .. g.count - 2 THEN g.players[i + 1]
               ELSE IF i = g.count - 1 THEN NULL ELSE g.players[i]
    BY DEF ShiftDown
  <2>2. \A j \in 0 .. 3 : g.players[j] # NULL <=> j < g.count
    BY DEF GameInv, PlayersInPlace, Slots, MAX_PLAYERS_PER_ROOM
  <2>3. i \in 0 .. 3
    BY DEF Slots, MAX_PLAYERS_PER_ROOM
  <2> HIDE DEF P
  <2>4. CASE i \in k .. g.count - 2
    BY <1>1, <2>1, <2>2, <2>3, <2>4
  <2>5. CASE i \notin k .. g.count - 2 /\ i = g.count - 1
    BY <1>1, <2>1, <2>3, <2>5
  <2>6. CASE i \notin k .. g.count - 2 /\ i # g.count - 1
    BY <1>1, <2>1, <2>2, <2>3, <2>6
  <2> QED
    BY <2>4, <2>5, <2>6
<1>7. g.count - 1 \in 0 .. MAX_PLAYERS_PER_ROOM
  BY <1>1 DEF MAX_PLAYERS_PER_ROOM
<1>8. h = [g EXCEPT !.players = P, !.scores = S, !.ready = R,
                    !.count = g.count - 1, !.current = T]
  BY DEF RemoveAt
<1> HIDE DEF h, P, S, R, T
<1>9. h \in GameType
  BY <1>1, <1>2, <1>3, <1>4, <1>5, <1>7, <1>8 DEF GameType
<1>10. /\ h.players = P /\ h.count = g.count - 1 /\ h.current = T
       /\ h.first = g.first /\ h.second = g.second /\ h.flips = g.flips
       /\ h.matched = g.matched /\ h.state = g.state
       /\ h.card = g.card /\ h.value = g.value
  BY <1>1, <1>8 DEF GameType
<1>11. PlayersInPlace(h)
  BY <1>1, <1>5, <1>6, <1>10 DEF PlayersInPlace
<1> QED
  BY <1>9, <1>10, <1>11 DEF GameInv, FaceUpIsTurn, CardsIn, PairsTogether,
     MatchedValues, h

LEMMA RemovePlayerInv ==
    ASSUME NEW g, GameInv(g), NEW c
    PROVE  GameInv(RemovePlayer(g, c))
BY RemoveAtInv, IndexOfSeat DEF RemovePlayer

\* Nobody but the leaver loses the place in the game.
LEMMA OthersStayIn ==
    ASSUME NEW g \in GameType, NEW c, NEW d \in Clients, d # c, PlaysIn(g, d)
    PROVE  PlaysIn(RemovePlayer(g, c), d)
<1>1. CASE ~PlaysIn(g, c)
  BY <1>1 DEF RemovePlayer
<1>2. CASE PlaysIn(g, c)
  <2> DEFINE k == IndexOf(g, c)
             h == RemoveAt(g, k)
  <2>1. k \in Seats(g) /\ g.players[k] = c
    BY <1>2, IndexOfPlayer
  <2>2. PICK j \in Seats(g) : g.players[j] = d
    BY DEF PlaysIn
  <2>3. g \in GameType /\ g.count \in 0 .. 4
    BY DEF GameType, MAX_PLAYERS_PER_ROOM
  <2>4. h.count = g.count - 1 /\ h.players = ShiftDown(g.players, k, g.count, NULL)
    BY <2>3 DEF RemoveAt, GameType
  <2> HIDE DEF k, h
  <2>5. CASE j < k
    <3>1. j \in Seats(h) /\ h.players[j] = d
      BY <2>1, <2>2, <2>3, <2>4, <2>5 DEF Seats, ShiftDown, Slots,
         MAX_PLAYERS_PER_ROOM
    <3> QED
      BY <3>1 DEF PlaysIn, RemovePlayer, h, k, Seats
  <2>6. CASE j > k
    <3>1. j - 1 \in Seats(h) /\ h.players[j - 1] = d
      BY <2>1, <2>2, <2>3, <2>4, <2>6 DEF Seats, ShiftDown, Slots,
         MAX_PLAYERS_PER_ROOM
    <3>2. PlaysIn(h, d)
      BY <3>1 DEF PlaysIn
    <3> QED
      BY <3>2, <1>2 DEF RemovePlayer, h, k
  <2>7. j # k
    BY <2>1, <2>2
  <2> QED
    BY <2>1, <2>2, <2>3, <2>5, <2>6, <2>7 DEF Seats
<1> QED
  BY <1>1, <1>2

LEMMA RemovePlayerKeepsOthers ==
    ASSUME NEW g, GameInv(g), NEW c, NEW d \in Clients, d # c, PlaysIn(g, d)
    PROVE  PlaysIn(RemovePlayer(g, c), d)
BY OthersStayIn DEF GameInv

-----------------------------------------------------------------------------

LEMMA DivType ==
    ASSUME NEW m \in Nat, NEW n \in Nat \ {0}
    PROVE  m \div n \in Nat
OBVIOUS

\* A forfeit changes nothing but the scores, and only adds to them.
LEMMA ForfeitType ==
    ASSUME NEW g, GameInv(g), NEW c
    PROVE  /\ Forfeit(g, c) \in [Slots -> Nat]
           /\ \A i \in Slots : Forfeit(g, c)[i] >= g.scores[i]
<1> DEFINE rest == TotalPairs - g.matched
           winners == Leaders(g, c)
           n == Cardinality(winners)
           odd(i) == IF Cardinality({j \in winners : j < i}) < rest % n
                     THEN 1 ELSE 0
<1>1. rest \in Nat
  BY MatchedFinite, PairsAssumption DEF GameInv, GameType, PairsTogether
<1>2. g.scores \in [Slots -> Nat]
  BY DEF GameInv, GameType
<1>3. IsFiniteSet(winners)
  <2>1. IsFiniteSet(0 .. 3)
    BY 0 \in Int, 3 \in Int, FS_Interval, Zenon
  <2>2. winners \in SUBSET (0 .. 3)
    BY DEF Leaders, Rivals, Seats, GameInv, GameType, MAX_PLAYERS_PER_ROOM
  <2> QED
    BY <2>1, <2>2, FS_Subset
<1>4. ASSUME NEW i \in winners
      PROVE  rest \div n + odd(i) \in Nat
  <2>1. n \in Nat \ {0}
    BY <1>3, <1>4, FS_CardinalityType, FS_EmptySet
  <2>2. odd(i) \in Nat
    OBVIOUS
  <2> HIDE DEF rest, n, odd
  <2>3. rest \div n \in Nat
    BY <1>1, <2>1, DivType
  <2> QED
    BY <2>2, <2>3
<1>5. Forfeit(g, c) = [i \in Slots |-> IF i \in winners
                                      THEN g.scores[i] + (rest \div n + odd(i))
                                      ELSE g.scores[i]]
  BY DEF Forfeit
<1> HIDE DEF rest, winners, n, odd
<1> QED
  BY <1>2, <1>4, <1>5

LEMMA ForfeitInv ==
    ASSUME NEW g, GameInv(g), NEW c
    PROVE  GameInv([g EXCEPT !.scores = Forfeit(g, c)])
<1> DEFINE S == Forfeit(g, c)
           h == [g EXCEPT !.scores = S]
<1>1. S \in [Slots -> Nat]
  BY ForfeitType
<1> HIDE DEF S
<1>2. h \in GameType
  BY <1>1 DEF GameInv, GameType
<1>3. /\ h.players = g.players /\ h.count = g.count /\ h.current = g.current
      /\ h.first = g.first /\ h.second = g.second /\ h.flips = g.flips
      /\ h.matched = g.matched /\ h.state = g.state
      /\ h.card = g.card /\ h.value = g.value
  BY DEF GameInv, GameType
<1> HIDE DEF h
<1>4. GameInv(h)
  BY <1>2, <1>3 DEF GameInv, PlayersInPlace, FaceUpIsTurn, CardsIn,
     PairsTogether, MatchedValues
<1> QED
  BY <1>4 DEF h, S

-----------------------------------------------------------------------------

\* A game that is played always offers a card.  With no card turned, some
\* value is still on the board; with one turned, its partner is hidden: it
\* cannot have left alone, and no other card lies face up.
LEMMA MoveExists ==
    ASSUME NEW g, GameInv(g)
    PROVE  HasMove(g)
<1> SUFFICES ASSUME g.state = "PLAYING", g.flips < 2, CardsIn(g, "HIDDEN") = {}
             PROVE  FALSE
  BY DEF HasMove
<1>1. g \in GameType
  BY DEF GameInv
<1>2. \A i \in Cards : g.card[i] \in {"REVEALED", "MATCHED"}
  BY <1>1 DEF CardsIn, GameType
<1>3. CASE g.flips = 0
  <2>1. g.first = NoCard /\ g.second = NoCard
    BY <1>1, <1>3 DEF GameInv, FaceUpIsTurn
  <2>2. \A i \in Cards : g.card[i] = "MATCHED"
    BY <1>2, <2>1 DEF GameInv, FaceUpIsTurn, CardsIn
  <2>3. MatchedValues(g) = Values
    BY <2>2, DealCovers DEF GameInv, MatchedValues
  <2>4. g.matched = TotalPairs
    BY <2>3, MatchedFinite DEF GameInv, PairsTogether
  <2> QED
    BY <2>4 DEF GameInv
<1>4. CASE g.flips = 1
  <2>1. g.first \in Cards /\ CardsIn(g, "REVEALED") = {g.first}
    BY <1>1, <1>4 DEF GameInv, GameType, FaceUpIsTurn, NoCard
  <2>2. PICK j \in Cards : j # g.first /\ g.value[j] = g.value[g.first]
    BY <2>1, DealPartner DEF GameInv
  <2>3. g.card[j] = "MATCHED"
    BY <1>2, <2>1, <2>2 DEF CardsIn
  <2>4. g.card[g.first] = "MATCHED"
    BY <2>1, <2>2, <2>3 DEF GameInv, PairsTogether
  <2>5. g.card[g.first] = "REVEALED"
    BY <2>1 DEF CardsIn
  <2> QED
    BY <2>4, <2>5
<1> QED
  BY <1>1, <1>3, <1>4 DEF GameType
-----------------------------------------------------------------------------
(* What a forfeit gives away.  A set of places is counted place by place.  *)

Bit(S, i) == IF i \in S THEN 1 ELSE 0

\* A set of places has as many elements as places are in it.
LEMMA CountPlaces ==
    ASSUME NEW S \in SUBSET (0 .. 3)
    PROVE  Cardinality(S) = Bit(S, 0) + Bit(S, 1) + Bit(S, 2) + Bit(S, 3)
<1> DEFINE Below(k) == {i \in S : i < k}
<1>0. \A i \in S : i \in 0 .. 3
  OBVIOUS
<1>1. ASSUME NEW k \in 0 .. 3, IsFiniteSet(Below(k))
      PROVE  /\ IsFiniteSet(Below(k + 1))
             /\ Cardinality(Below(k + 1)) = Cardinality(Below(k)) + Bit(S, k)
  <2>1. CASE k \in S
    <3>1. ASSUME NEW i \in S
          PROVE  i < k + 1 <=> (i < k \/ i = k)
      BY <1>0
    <3>2. \A i : i \in Below(k + 1) <=> i \in Below(k) \/ i = k
      <4>1. k < k + 1
        OBVIOUS
      <4> QED
        BY <2>1, <3>1, <4>1
    <3>3. k \notin Below(k)
      OBVIOUS
    <3> HIDE DEF Below
    <3>4. Below(k + 1) = Below(k) \cup {k}
      BY <3>2
    <3> QED
      BY <1>1, <2>1, <3>3, <3>4, FS_AddElement DEF Bit
  <2>2. CASE k \notin S
    <3>1. ASSUME NEW i \in S
          PROVE  i < k + 1 <=> i < k
      BY <1>0, <2>2
    <3>2. Below(k + 1) = Below(k)
      BY <3>1
    <3>3. Cardinality(Below(k)) \in Nat
      BY <1>1, FS_CardinalityType
    <3> QED
      <4> HIDE DEF Below
      <4> QED
        BY <1>1, <2>2, <3>2, <3>3 DEF Bit
  <2> QED
    BY <2>1, <2>2
<1>2. Below(0) = {} /\ Below(4) = S
  <2>1. \A i \in S : ~(i < 0) /\ i < 4
    BY <1>0
  <2> QED
    BY <2>1
<1>3. IsFiniteSet(Below(0)) /\ Cardinality(Below(0)) = 0
  BY <1>2, FS_EmptySet
<1> HIDE DEF Below
<1>4. IsFiniteSet(Below(1)) /\ Cardinality(Below(1)) = Bit(S, 0)
  <2>1. /\ IsFiniteSet(Below(0 + 1))
        /\ Cardinality(Below(0 + 1)) = Cardinality(Below(0)) + Bit(S, 0)
    BY <1>1, <1>3
  <2> QED
    BY <1>3, <2>1 DEF Bit
<1>5. /\ IsFiniteSet(Below(2))
      /\ Cardinality(Below(2)) = Bit(S, 0) + Bit(S, 1)
  <2>1. /\ IsFiniteSet(Below(1 + 1))
        /\ Cardinality(Below(1 + 1)) = Cardinality(Below(1)) + Bit(S, 1)
    BY <1>1, <1>4
  <2> QED
    BY <1>4, <2>1
<1>6. /\ IsFiniteSet(Below(3))
      /\ Cardinality(Below(3)) = Bit(S, 0) + Bit(S, 1) + Bit(S, 2)
  <2>1. /\ IsFiniteSet(Below(2 + 1))
        /\ Cardinality(Below(2 + 1)) = Cardinality(Below(2)) + Bit(S, 2)
    BY <1>1, <1>5
  <2> QED
    BY <1>5, <2>1
<1>7. Cardinality(Below(3 + 1)) = Cardinality(Below(3)) + Bit(S, 3)
  BY <1>1, <1>6
<1> QED
  BY <1>2, <1>6, <1>7

\* What is shared among at most four, and what is left over.
LEMMA DivMod ==
    ASSUME NEW m \in Nat, NEW n \in 1 .. 4
    PROVE  /\ m \div n \in Nat /\ m % n \in 0 .. n - 1
           /\ m = n * (m \div n) + (m % n)
<1>1. CASE n = 1
  BY <1>1
<1>2. CASE n = 2
  BY <1>2
<1>3. CASE n = 3
  BY <1>3
<1>4. CASE n = 4
  BY <1>4
<1> QED
  BY <1>1, <1>2, <1>3, <1>4

\* Of the players who stay, somebody has the highest score.
LEMMA LeadersExist ==
    ASSUME NEW R \in SUBSET (0 .. 3), R # {}, NEW s \in [0 .. 3 -> Nat]
    PROVE  \E i \in R : \A j \in R : s[j] <= s[i]
<1> SUFFICES ASSUME \A i \in R : \E j \in R : s[j] > s[i]
             PROVE  FALSE
  OBVIOUS
<1>1. s[0] \in Nat /\ s[1] \in Nat /\ s[2] \in Nat /\ s[3] \in Nat
  OBVIOUS
<1>2. ASSUME NEW i \in R
      PROVE  \/ 0 \in R /\ s[0] > s[i]
             \/ 1 \in R /\ s[1] > s[i]
             \/ 2 \in R /\ s[2] > s[i]
             \/ 3 \in R /\ s[3] > s[i]
  OBVIOUS
<1>3. 0 \in R \/ 1 \in R \/ 2 \in R \/ 3 \in R
  <2>1. PICK i : i \in R
    OBVIOUS
  <2>2. i \in 0 .. 3
    BY <2>1
  <2> QED
    BY <2>1, <2>2
<1> QED
  BY <1>1, <1>2, <1>3

\* The remaining pairs are given out to the last one, and nobody gets two more
\* than another.
LEMMA ForfeitShares ==
    ASSUME NEW g, GameInv(g), NEW c, Rivals(g, c) # {}
    PROVE  LET final == Forfeit(g, c)
           IN  /\ final[0] + final[1] + final[2] + final[3]
                    = g.scores[0] + g.scores[1] + g.scores[2] + g.scores[3]
                      + TotalPairs - g.matched
               /\ \A i, j \in Leaders(g, c) : final[i] <= final[j] + 1
<1> DEFINE rest == TotalPairs - g.matched
           W == Leaders(g, c)
           n == Cardinality(W)
           Rank(i) == Cardinality({j \in W : j < i})
           odd(i) == IF Rank(i) < rest % n THEN 1 ELSE 0
           q == rest \div n
           m == rest % n
           gain(i) == IF i \in W THEN q + (IF Rank(i) < m THEN 1 ELSE 0) ELSE 0
<1>1. rest \in Nat
  BY MatchedFinite, PairsAssumption DEF GameInv, GameType, PairsTogether
<1>2. g.scores \in [0 .. 3 -> Nat]
  BY DEF GameInv, GameType, Slots, MAX_PLAYERS_PER_ROOM
<1>3. Rivals(g, c) \in SUBSET (0 .. 3)
  BY DEF Rivals, Seats, GameInv, GameType, MAX_PLAYERS_PER_ROOM
<1>4. W \in SUBSET (0 .. 3) /\ W # {}
  BY <1>2, <1>3, LeadersExist DEF Leaders
<1>5. \A i, j \in W : g.scores[i] = g.scores[j]
  BY <1>2, <1>3 DEF Leaders
<1>6. \A i \in 0 .. 3 : Forfeit(g, c)[i] = g.scores[i] + gain(i)
  <2>1. Forfeit(g, c) = [i \in Slots |-> IF i \in W
           THEN g.scores[i] + (q + (IF Rank(i) < m THEN 1 ELSE 0))
           ELSE g.scores[i]]
    BY DEF Forfeit
  <2> HIDE DEF q, m, W, Rank
  <2> QED
    BY <1>2, <2>1 DEF Slots, MAX_PLAYERS_PER_ROOM
<1> HIDE DEF W
<1>7. n = Bit(W, 0) + Bit(W, 1) + Bit(W, 2) + Bit(W, 3)
  BY <1>4, CountPlaces
<1>8. n \in 1 .. 4
  <2>1. PICK i : i \in W
    BY <1>4
  <2>2. i \in 0 .. 3
    BY <1>4, <2>1
  <2>3. 0 \in W \/ 1 \in W \/ 2 \in W \/ 3 \in W
    BY <2>1, <2>2
  <2> HIDE DEF n
  <2> QED
    BY <1>7, <2>3 DEF Bit
<1>9. q \in Nat /\ m \in 0 .. n - 1 /\ rest = n * q + m
  <2> HIDE DEF n, rest
  <2> QED
    BY <1>1, <1>8, DivMod
<1>10. ASSUME NEW i \in 0 .. 3
       PROVE  Rank(i) = (IF 0 < i THEN Bit(W, 0) ELSE 0)
                        + (IF 1 < i THEN Bit(W, 1) ELSE 0)
                        + (IF 2 < i THEN Bit(W, 2) ELSE 0)
  <2> DEFINE S == {j \in W : j < i}
  <2>1. S \in SUBSET (0 .. 3)
    BY <1>4
  <2>2. Cardinality(S) = Bit(S, 0) + Bit(S, 1) + Bit(S, 2) + Bit(S, 3)
    BY <2>1, CountPlaces
  <2>3. /\ Bit(S, 0) = IF 0 < i THEN Bit(W, 0) ELSE 0
        /\ Bit(S, 1) = IF 1 < i THEN Bit(W, 1) ELSE 0
        /\ Bit(S, 2) = IF 2 < i THEN Bit(W, 2) ELSE 0
        /\ Bit(S, 3) = 0
    BY DEF Bit
  <2>4. \A k \in 0 .. 3 : Bit(W, k) \in Nat
    BY DEF Bit
  <2> HIDE DEF S
  <2>5. Cardinality(S) = (IF 0 < i THEN Bit(W, 0) ELSE 0)
                        + (IF 1 < i THEN Bit(W, 1) ELSE 0)
                        + (IF 2 < i THEN Bit(W, 2) ELSE 0)
    BY <2>2, <2>3, <2>4
  <2> QED
    BY <2>5 DEF S
<1> HIDE DEF q, m, n, rest, Rank
<1>11. /\ Rank(0) = 0 /\ Rank(1) = Bit(W, 0)
       /\ Rank(2) = Bit(W, 0) + Bit(W, 1)
       /\ Rank(3) = Bit(W, 0) + Bit(W, 1) + Bit(W, 2)
  BY <1>10 DEF Bit
<1>12. gain(0) + gain(1) + gain(2) + gain(3) = rest
  <2>1. CASE n = 1
    BY <1>7, <1>9, <1>11, <2>1 DEF Bit
  <2>2. CASE n = 2
    BY <1>7, <1>9, <1>11, <2>2 DEF Bit
  <2>3. CASE n = 3
    BY <1>7, <1>9, <1>11, <2>3 DEF Bit
  <2>4. CASE n = 4
    BY <1>7, <1>9, <1>11, <2>4 DEF Bit
  <2> QED
    BY <1>8, <2>1, <2>2, <2>3, <2>4
<1>13. \A i \in 0 .. 3 : gain(i) \in Nat
  BY <1>9
<1>14. ASSUME NEW i \in W, NEW j \in W
       PROVE  Forfeit(g, c)[i] <= Forfeit(g, c)[j] + 1
  <2>1. gain(i) <= gain(j) + 1
    BY <1>9
  <2>2. /\ Forfeit(g, c)[i] = g.scores[i] + gain(i)
        /\ Forfeit(g, c)[j] = g.scores[j] + gain(j)
        /\ g.scores[i] = g.scores[j] /\ g.scores[i] \in Nat
        /\ gain(i) \in Nat /\ gain(j) \in Nat
    BY <1>2, <1>4, <1>5, <1>6, <1>13
  <2> HIDE DEF gain
  <2> QED
    BY <2>1, <2>2
<1>15. Forfeit(g, c)[0] + Forfeit(g, c)[1] + Forfeit(g, c)[2] + Forfeit(g, c)[3]
         = g.scores[0] + g.scores[1] + g.scores[2] + g.scores[3] + rest
  <2>1. /\ Forfeit(g, c)[0] = g.scores[0] + gain(0)
        /\ Forfeit(g, c)[1] = g.scores[1] + gain(1)
        /\ Forfeit(g, c)[2] = g.scores[2] + gain(2)
        /\ Forfeit(g, c)[3] = g.scores[3] + gain(3)
    BY <1>6
  <2>2. /\ gain(0) \in Nat /\ gain(1) \in Nat
        /\ gain(2) \in Nat /\ gain(3) \in Nat
    BY <1>13
  <2>3. /\ g.scores[0] \in Nat /\ g.scores[1] \in Nat
        /\ g.scores[2] \in Nat /\ g.scores[3] \in Nat
    BY <1>2
  <2> HIDE DEF gain
  <2> QED
    BY <1>12, <2>1, <2>2, <2>3
<1>16. g.matched \in Nat /\ TotalPairs \in Nat
  BY PairsAssumption DEF GameInv, GameType
<1>17. \A i \in 0 .. 3 : g.scores[i] \in Nat
  BY <1>2
<1> HIDE DEF gain
<1> QED
  BY <1>14, <1>15, <1>16, <1>17 DEF W, rest

-----------------------------------------------------------------------------
(* A game that was made from an array with holes, as Rooms has them, need  *)
(* not satisfy GameInv.  It keeps to its type, and nobody stands behind    *)
(* its last place.                                                         *)

InBounds(g) ==
    /\ g \in GameType
    /\ \A i \in Slots : g.players[i] # NULL => i < g.count

LEMMA CreateInBounds ==
    ASSUME NEW n \in Nat, CanCreate(n), NEW ps \in [Slots -> Clients \cup {NULL}],
           NEW deal \in Deals
    PROVE  InBounds(Create(ps, n, deal))
<1> DEFINE g == Create(ps, n, deal)
<1>1. g \in GameType
  BY DEF Create, GameType, Deals, CanCreate, Slots, MAX_PLAYERS_PER_ROOM, NoCard
<1>2. g.count = n /\ \A i \in Slots : g.players[i] = IF i < n THEN ps[i] ELSE NULL
  BY DEF Create
<1> QED
  BY <1>1, <1>2 DEF InBounds

\* What becomes of a game in which nobody comes or goes.
SameSeats(g, h) == h \in GameType /\ h.players = g.players /\ h.count = g.count

LEMMA SameInBounds ==
    ASSUME NEW g, NEW h, InBounds(g), SameSeats(g, h)
    PROVE  InBounds(h) /\ \A c : PlaysIn(h, c) <=> PlaysIn(g, c)
BY DEF InBounds, SameSeats, PlaysIn, Seats

LEMMA ReadySeats ==
    ASSUME NEW g, InBounds(g), NEW c PROVE SameSeats(g, PlayerReady(g, c))
BY DEF InBounds, GameType, PlayerReady, SameSeats

LEMMA StartSeats ==
    ASSUME NEW g, InBounds(g) PROVE SameSeats(g, Start(g))
<1>1. 0 \in Slots
  BY DEF Slots, MAX_PLAYERS_PER_ROOM
<1> QED
  BY <1>1 DEF InBounds, GameType, Start, SameSeats

LEMMA FlipSeats ==
    ASSUME NEW g, InBounds(g), NEW c, NEW i \in Cards, CanFlip(g, c, i)
    PROVE  SameSeats(g, FlipCard(g, i))
<1>1. g \in GameType
  BY DEF InBounds
<1>2. FlipCard(g, i) \in GameType
  BY <1>1, FlipType
<1>3. FlipCard(g, i).players = g.players /\ FlipCard(g, i).count = g.count
  BY <1>1 DEF FlipCard, GameType
<1> QED
  BY <1>2, <1>3 DEF SameSeats

\* The remainder of current_player_index is one of a game that has a player.
LEMMA CheckSeats ==
    ASSUME NEW g, InBounds(g), g.count > 0 PROVE SameSeats(g, CheckMatch(g))
<1>1. /\ g \in GameType /\ g.current \in 0 .. 3 /\ g.count \in 1 .. 4
      /\ g.scores \in [Slots -> Nat] /\ g.current \in Slots /\ g.matched \in Nat
  BY DEF InBounds, GameType, Slots, MAX_PLAYERS_PER_ROOM
<1>2. SameSeats(g, Mismatch(g))
  <2> DEFINE h == TurnOver(g, "HIDDEN")
             k == (g.current + 1) % g.count
  <2>1. k \in Slots
    BY <1>1 DEF Slots, MAX_PLAYERS_PER_ROOM
  <2>2. h \in GameType /\ h.current = g.current /\ h.players = g.players
        /\ h.count = g.count
    BY <1>1, TurnOverType DEF TurnOver, GameType
  <2>3. Mismatch(g) = [h EXCEPT !.current = k]
    BY <2>2 DEF Mismatch, GameType
  <2> HIDE DEF h, k
  <2> QED
    BY <2>1, <2>2, <2>3 DEF SameSeats, GameType
<1>3. SameSeats(g, Match(g))
  <2> DEFINE h == TurnOver(g, "MATCHED")
             s == [g.scores EXCEPT ![g.current] = @ + 1]
             st == IF g.matched + 1 = TotalPairs THEN "FINISHED" ELSE g.state
  <2>1. s \in [Slots -> Nat] /\ st \in {"WAITING", "PLAYING", "FINISHED"}
    BY <1>1 DEF GameType
  <2>2. h \in GameType /\ h.scores = g.scores /\ h.matched = g.matched
        /\ h.state = g.state /\ h.players = g.players /\ h.count = g.count
    BY <1>1, TurnOverType DEF TurnOver, GameType
  <2>3. Match(g) = [h EXCEPT !.scores = s, !.matched = g.matched + 1, !.state = st]
    BY <2>2 DEF Match, GameType
  <2>4. g.matched + 1 \in Nat
    BY <1>1
  <2> HIDE DEF h, s, st
  <2> QED
    BY <2>1, <2>2, <2>3, <2>4 DEF SameSeats, GameType
<1>4. SameSeats(g, g)
  BY <1>1 DEF SameSeats
<1> QED
  BY <1>2, <1>3, <1>4 DEF CheckMatch

LEMMA RemoveAtInBounds ==
    ASSUME NEW g, InBounds(g), NEW k \in Seats(g)
    PROVE  InBounds(RemoveAt(g, k))
<1> DEFINE P == ShiftDown(g.players, k, g.count, NULL)
           S == ShiftDown(g.scores, k, g.count, 0)
           R == ShiftDown(g.ready, k, g.count, FALSE)
           T == TurnAfterRemoval(g, k)
           n == g.count - 1
<1>1. g \in GameType /\ g.count \in 1 .. 4 /\ k \in 0 .. g.count - 1
  BY DEF InBounds, GameType, Seats, MAX_PLAYERS_PER_ROOM
<1>2. P \in [Slots -> Clients \cup {NULL}]
  BY <1>1, ShiftDownType DEF GameType, MAX_PLAYERS_PER_ROOM
<1>3. S \in [Slots -> Nat]
  BY <1>1, ShiftDownType DEF GameType, MAX_PLAYERS_PER_ROOM
<1>4. R \in [Slots -> BOOLEAN]
  BY <1>1, ShiftDownType DEF GameType, MAX_PLAYERS_PER_ROOM
<1>5. T \in Slots /\ n \in 0 .. MAX_PLAYERS_PER_ROOM
  BY <1>1 DEF GameType, TurnAfterRemoval, Slots, MAX_PLAYERS_PER_ROOM
<1>6. ASSUME NEW i \in Slots, i >= n PROVE P[i] = NULL
  <2>1. P[i] = IF i \in k .. g.count - 2 THEN g.players[i + 1]
               ELSE IF i = g.count - 1 THEN NULL ELSE g.players[i]
    BY DEF ShiftDown
  <2>2. i \in 0 .. 3 /\ i \notin k .. g.count - 2
    BY <1>1, <1>6 DEF Slots, MAX_PLAYERS_PER_ROOM
  <2>3. i # g.count - 1 => g.players[i] = NULL
    BY <1>1, <1>6, <2>2 DEF InBounds
  <2> QED
    BY <2>1, <2>2, <2>3
<1>7. RemoveAt(g, k) = [g EXCEPT !.players = P, !.scores = S, !.ready = R,
                                 !.count = n, !.current = T]
  BY DEF RemoveAt
<1> HIDE DEF P, S, R, T, n
<1>8. RemoveAt(g, k) \in GameType
  BY <1>1, <1>2, <1>3, <1>4, <1>5, <1>7 DEF GameType
<1>9. RemoveAt(g, k).players = P /\ RemoveAt(g, k).count = n
  BY <1>1, <1>7 DEF GameType
<1>10. \A i \in Slots : P[i] # NULL => i < n
  BY <1>5, <1>6 DEF Slots
<1> QED
  BY <1>8, <1>9, <1>10 DEF InBounds

LEMMA RemoveInBounds ==
    ASSUME NEW g, InBounds(g), NEW c PROVE InBounds(RemovePlayer(g, c))
BY RemoveAtInBounds, IndexOfPlayer DEF RemovePlayer, InBounds

\* The player whose flip is accepted stands on a place of the game.
LEMMA FlipperInGame ==
    ASSUME NEW g, InBounds(g), NEW c \in Clients, NEW i, CanFlip(g, c, i)
    PROVE  PlaysIn(g, c)
<1>1. g \in GameType /\ g.current \in Slots /\ g.count \in 0 .. 4
  BY DEF InBounds, GameType, MAX_PLAYERS_PER_ROOM
<1>2. g.players[g.current] = c /\ c # NULL
  BY ClientsAssumption DEF CanFlip
<1>3. g.current \in Seats(g)
  BY <1>1, <1>2 DEF InBounds, Seats, Slots, MAX_PLAYERS_PER_ROOM
<1> QED
  BY <1>2, <1>3 DEF PlaysIn
=============================================================================

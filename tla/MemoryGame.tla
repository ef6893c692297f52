----------------------------- MODULE MemoryGame -----------------------------
(***************************************************************************)
(* Pexeso as its players know it, without arrays, indices and threads:     *)
(* what a game on the server promises them.  GamePlay implements it.       *)
(*                                                                         *)
(* A card lies on the table until it is won; two are turned face up, and   *)
(* are won if they have the same value or turned down again.  What the     *)
(* loss of a player may do is here too: the turn goes to some player that  *)
(* is left, and whoever has it finishes the cards that lie face up.        *)
(***************************************************************************)
EXTENDS Naturals

CONSTANTS Players, Cards, Nobody

VARIABLES
    phase,     \* "waiting", "playing" or "over"
    players,   \* those who are in the game
    value,     \* what is on the cards
    table,     \* the cards that are left
    up,        \* those of them that lie face up
    turn,      \* whose turn it is, or Nobody
    points     \* the pairs of each player

vars == <<phase, players, value, table, up, turn, points>>

Init ==
    /\ phase = "waiting"
    /\ players \subseteq Players
    /\ \A i \in Cards : \E j \in Cards :
          {k \in Cards : value[k] = value[i]} = {i, j} /\ i # j
    /\ table = Cards /\ up = {}
    /\ turn = Nobody
    /\ points = [p \in Players |-> 0]

\* The turn is given to somebody who plays, if there is anybody.
Given(t, ps) == IF ps = {} THEN t = Nobody ELSE t \in ps

Begin ==
    /\ phase = "waiting"
    /\ phase' = "playing"
    /\ Given(turn', players)
    /\ UNCHANGED <<players, value, table, up, points>>

TurnUp(i) ==
    /\ phase = "playing"
    /\ i \in table \ up
    /\ \A j, k \in up : j = k
    /\ up' = up \cup {i}
    /\ UNCHANGED <<phase, players, value, table, turn, points>>

\* Two cards with the same value are a point, and another turn.
Win(i, j) ==
    /\ phase = "playing"
    /\ up = {i, j} /\ i # j
    /\ value[i] = value[j]
    /\ turn \in players
    /\ table' = table \ up
    /\ up' = {}
    /\ points' = [points EXCEPT ![turn] = @ + 1]
    /\ phase' = IF table' = {} THEN "over" ELSE phase
    /\ turn' = IF table' = {} THEN Nobody ELSE turn
    /\ UNCHANGED <<players, value>>

\* Two others are turned down, and it is another's turn.
TurnDown(i, j) ==
    /\ phase = "playing"
    /\ up = {i, j}
    /\ value[i] # value[j]
    /\ up' = {}
    /\ turn' \in players
    /\ turn' = turn => players = {turn}
    /\ UNCHANGED <<phase, players, value, table, points>>

\* A player is lost, with the points; the cards stay as they lie.
Lose(p) ==
    /\ phase = "playing"
    /\ p \in players
    /\ players' = players \ {p}
    /\ points' = [points EXCEPT ![p] = 0]
    /\ Given(turn', players')
    /\ UNCHANGED <<phase, value, table, up>>

\* A player gives up: those of the others who lead share what is left.
Leading(q, p) == \A r \in players \ {p} : points[r] <= points[q]

GiveUp(p) ==
    /\ phase # "over"
    /\ phase' = "over"
    /\ turn' = Nobody
    /\ points' \in [Players -> Nat]
    /\ \A q \in Players :
          IF q \in players \ {p} /\ Leading(q, p)
          THEN points'[q] >= points[q] ELSE points'[q] = points[q]
    /\ UNCHANGED <<players, value, table, up>>

Next ==
    \/ Begin
    \/ \E i \in Cards : TurnUp(i)
    \/ \E i, j \in Cards : Win(i, j) \/ TurnDown(i, j)
    \/ \E p \in Players : Lose(p) \/ GiveUp(p)

Spec == Init /\ [][Next]_vars
=============================================================================

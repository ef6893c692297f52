----------------------------- MODULE MCGamePlay -----------------------------
(* TLC instances of GamePlay.                                              *)
EXTENDS GamePlay

CONSTANTS a, b, c, d

Two == {a, b}
Three == {a, b, c}
Four == {a, b, c, d}

(* Players differ only by their place in the game, and every order of      *)
(* places is an initial state: the runs that pass keep one order, which is *)
(* sound for liveness too.                                                 *)

OrderedInit ==
    /\ Init
    /\ seats[0] = a /\ seats[1] = b /\ seats[2] \in {c, NULL}

OrderedSpec == OrderedInit /\ [][Next]_vars /\ Fairness
=============================================================================

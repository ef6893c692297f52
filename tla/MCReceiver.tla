----------------------------- MODULE MCReceiver -----------------------------
(* TLC instances of Receiver.                                              *)
EXTENDS Receiver, TLC

CONSTANTS a, b

Two == {a, b}
Good == {<<"p">>}
Symmetry == Permutations(Two)
=============================================================================

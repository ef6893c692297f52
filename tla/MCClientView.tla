---------------------------- MODULE MCClientView ----------------------------
(* TLC instances of ClientView.                                            *)
EXTENDS ClientView

CONSTANTS me, rival

Both == {me, rival}

\* The cards are told apart by nothing but their values: one deal will do.
OneDeal == [i \in Cards |-> 1 + i \div 2]

OneDealInit == Init /\ game.value = OneDeal

OneDealSpec == OneDealInit /\ [][Next]_vars
=============================================================================

---------------------------- MODULE MCServerLife ----------------------------
(* TLC instances of ServerLife.                                            *)
EXTENDS ServerLife

CONSTANTS a, b, c

Two == {a, b}
Three == {a, b, c}

\* Two or three clients play, those who do not are yet to connect.
PlayingInit ==
    \E P \in {Two, Three}, n \in Sizes :
        /\ n >= Cardinality(P)
        /\ client = [x \in Clients |->
                        [life |-> IF x \in P THEN "live" ELSE "unborn",
                         auth |-> x \in P, down |-> FALSE, id |-> x,
                         fd   |-> IF x \in P THEN "open" ELSE "none"]]
        /\ list = [i \in 1 .. n |-> IF i = 1 THEN a ELSE IF i = 2 THEN b
                                    ELSE IF c \in P THEN c ELSE NULL]
        /\ players = P
        /\ running = TRUE
        /\ main = [pc |-> "accepting", client |-> NULL, todo |-> <<>>]
        /\ pinger = "running"
        /\ checker = CheckerAsleep
        /\ handler = [x \in Clients |->
                         [pc |-> IF x \in P THEN "reading" ELSE "ended",
                          old |-> NULL]]
        /\ told = {}
        /\ process = "up"

PlayingSpec == PlayingInit /\ [][Next]_vars
FairPlayingSpec == PlayingSpec /\ Fairness
=============================================================================

------------------------------ MODULE MCRooms ------------------------------
(* TLC instances of Rooms.                                                 *)
EXTENDS Rooms, TLC

CONSTANTS a, b, c, r1, r2

Two == {a, b}
Three == {a, b, c}
OneRoom == {r1}
TwoRooms == {r1, r2}

\* No two clients are told apart before they connect.
Symmetry3 == Permutations(Three)

(* The liveness run starts in the middle: a and b play in room r1, and c can *)
(* connect.                                                                *)

PlayingInit ==
    LET seats == [EmptySeats EXCEPT ![0] = a, ![1] = b]
    IN  /\ client = [x \in Clients |->
              IF x \in {a, b}
              THEN [life |-> "live", state |-> "IN_GAME", room |-> r1,
                    down |-> FALSE, open |-> TRUE]
              ELSE [life |-> "unborn", state |-> "CONNECTED", room |-> NULL,
                    down |-> FALSE, open |-> FALSE]]
        /\ \E deal \in Deals :
              room = [x \in RoomIds |->
                  [life |-> "live", players |-> seats, count |-> 2, owner |-> a,
                   state |-> "PLAYING",
                   game |-> Start([Create(seats, 2, deal) EXCEPT
                                      !.ready[0] = TRUE, !.ready[1] = TRUE])]]
        /\ thread = [x \in Clients |-> IF x \in {a, b} THEN Idle ELSE Pc("ended")]
        /\ checker = [pc |-> "idle", room |-> NULL, client |-> NULL]
        /\ dangling = {}
        /\ memory = "sound"

PlayingSpec == PlayingInit /\ [][Next]_vars /\ Fairness
=============================================================================

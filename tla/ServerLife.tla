----------------------------- MODULE ServerLife -----------------------------
(***************************************************************************)
(* The server process from its start to its end: the main thread, which    *)
(* accepts connections and shuts the server down (server.c, main.c), the   *)
(* PING thread and the timeout checker, which work on copies of the client *)
(* list, the handler threads, which remove and free clients, and the list  *)
(* itself (client_list.c).                                                 *)
(*                                                                         *)
(* Of rooms and games only one game is kept, as the set of its players:    *)
(* what a handler does at the end of a connection depends on it, and it is *)
(* to them that messages are sent.                                         *)
(*                                                                         *)
(* Two things end the model early: a thread that follows a pointer to a    *)
(* freed client ("touched", whatever comes then is undefined), and         *)
(* SIGPIPE, which the server does not handle and which send() raises on a  *)
(* socket that has been shut down ("killed").  On a socket whose peer has  *)
(* gone it raises it too; that death, at any time, is left out.            *)
(***************************************************************************)
EXTENDS Naturals, FiniteSets, Sequences

CONSTANTS Clients,      \* the client_t objects, one per connection
          NULL,         \* the null pointer
          Sizes         \* the values max_clients may have

ASSUME ClientsAssumption == NULL \notin Clients
ASSUME SizesAssumption == Sizes # {} /\ Sizes \subseteq Nat \ {0}

VARIABLES
    client,    \* the client_t objects
    list,      \* client_array, of max_clients entries
    players,   \* the players of the running game
    running,   \* server_config.running
    main,      \* the main thread: where it is, its client or its copy of the list
    pinger,    \* the PING thread
    checker,   \* the timeout checker, the client it looks at and its verdict
    handler,   \* the handler threads, with the client a reconnect replaces
    told,      \* history: the clients that SERVER_SHUTDOWN was sent to
    process    \* "up", or how the process has ended

vars == <<client, list, players, running, main, pinger, checker, handler, told,
          process>>

-----------------------------------------------------------------------------

\* state >= STATE_AUTHENTICATED, is_disconnected, client_id (named by the
\* connection it was given to first), and socket_fd: "none" is -1, "shut" a
\* descriptor that shutdown() was called on.
ClientType ==
    [life : {"unborn", "live", "freed"},
     auth : BOOLEAN,
     down : BOOLEAN,
     id   : Clients,
     fd   : {"open", "shut", "none"}]

MainType ==
    [pc     : {"accepting", "spawning", "notifying", "cutting", "waiting", "over"},
     client : Clients \cup {NULL},
     todo   : Seq(Clients)]

CheckerType ==
    [pc      : {"sleeping", "looking", "acting", "ended"},
     at      : Clients \cup {NULL},
     verdict : {"none", "silent", "inactive", "expired"}]

HandlerType ==
    [pc  : {"reading", "telling", "delisting", "taking", "replacing", "ended"},
     old : Clients \cup {NULL}]

\* Every object and every thread within its type.
TypeOK ==
    /\ client \in [Clients -> ClientType]
    /\ list \in Seq(Clients \cup {NULL}) /\ Len(list) \in Sizes
    /\ players \subseteq Clients
    /\ running \in BOOLEAN
    /\ main \in MainType
    /\ pinger \in {"running", "ended"}
    /\ checker \in CheckerType
    /\ handler \in [Clients -> HandlerType]
    /\ told \subseteq Clients
    /\ process \in {"up", "touched", "killed", "over"}

\* server_init.
Init ==
    /\ client = [c \in Clients |-> [life |-> "unborn", auth |-> FALSE,
                                    down |-> FALSE, id |-> c, fd |-> "none"]]
    /\ \E n \in Sizes : list = [i \in 1 .. n |-> NULL]
    /\ players = {}
    /\ running = TRUE
    /\ main = [pc |-> "accepting", client |-> NULL, todo |-> <<>>]
    /\ pinger = "running"
    /\ checker = [pc |-> "sleeping", at |-> NULL, verdict |-> "none"]
    /\ handler = [c \in Clients |-> [pc |-> "ended", old |-> NULL]]
    /\ told = {}
    /\ process = "up"

-----------------------------------------------------------------------------
(* The list: client_list_get_all, client_list_remove, client_list_replace. *)

\* The first i entries are copied, the empty ones are passed over.
Snapshot ==
    LET copied[i \in 0 .. Len(list)] ==
            IF i = 0 THEN <<>>
            ELSE IF list[i] = NULL THEN copied[i - 1]
            ELSE Append(copied[i - 1], list[i])
    IN  copied[Len(list)]
Listed == {list[i] : i \in DOMAIN list} \ {NULL}

\* Mutant: the later entries move up.
RemovedShift(c) == SelectSeq(list, LAMBDA d : d # c)

Removed(c) == [i \in DOMAIN list |-> IF list[i] = c THEN NULL ELSE list[i]]

\* Mutant: the new client's own entry is not cleared.
ReplacedTwice(old, new) ==
    [i \in DOMAIN list |-> IF list[i] = old THEN new ELSE list[i]]

\* An old client that is not in the list leaves it as it is.
Replaced(old, new) ==
    IF old \notin Listed THEN list
    ELSE [i \in DOMAIN list |-> IF list[i] = old THEN new
                                ELSE IF list[i] = new THEN NULL ELSE list[i]]

FirstOf(S) == CHOOSE i \in S : \A j \in S : i <= j

-----------------------------------------------------------------------------
(* client_send_message to each client of S, and what becomes of the        *)
(* process: nothing is sent to a client marked disconnected.               *)

Live(c) == client[c].life = "live"
Freed(c) == client[c].life = "freed"
Reached(S) == {c \in S : Live(c) /\ ~client[c].down /\ client[c].fd # "none"}

Outcomes(S) ==
    LET dangling == \E c \in S : Freed(c)
        broken   == \E c \in Reached(S) : client[c].fd = "shut"
    IN  (IF dangling THEN {"touched"} ELSE {})
        \cup (IF broken THEN {"killed"} ELSE {})
        \cup (IF dangling \/ broken THEN {} ELSE {"up"})

Send(S) == process' \in Outcomes(S)

\* free().
Free(c) == client' = [client EXCEPT ![c].life = "freed", ![c].fd = "none"]

-----------------------------------------------------------------------------
(* The main thread accepts connections (server_run): client_list_add takes *)
(* the first free entry, or frees the first client that waits for its      *)
(* reconnect and takes its entry, or fails.                                *)

Holes == {i \in DOMAIN list : list[i] = NULL}
Zombies ==
    {i \in DOMAIN list : list[i] # NULL /\ client[list[i]].down
                         /\ client[list[i]].fd = "none"}

Fresh(c) == [client[c] EXCEPT !.life = "live", !.fd = "open"]

Accept(c) ==
    /\ main.pc = "accepting"
    /\ running
    /\ client[c].life = "unborn"
    /\ \/ /\ Holes # {}
          /\ list' = [list EXCEPT ![FirstOf(Holes)] = c]
          /\ client' = [client EXCEPT ![c] = Fresh(c)]
          /\ main' = [main EXCEPT !.pc = "spawning", !.client = c]
       \/ /\ Holes = {} /\ Zombies # {}
          /\ list' = [list EXCEPT ![FirstOf(Zombies)] = c]
          /\ client' = [client EXCEPT ![list[FirstOf(Zombies)]].life = "freed",
                                      ![c] = Fresh(c)]
          /\ main' = [main EXCEPT !.pc = "spawning", !.client = c]
       \/ /\ Holes = {} /\ Zombies = {}
          /\ client' = [client EXCEPT ![c].life = "freed"]
          /\ UNCHANGED <<list, main>>
    /\ UNCHANGED <<players, running, pinger, checker, handler, told, process>>

\* pthread_create, which may fail.
Spawn ==
    /\ main.pc = "spawning"
    /\ handler' = [handler EXCEPT ![main.client].pc = "reading"]
    /\ main' = [main EXCEPT !.pc = "accepting", !.client = NULL]
    /\ UNCHANGED <<client, list, players, running, pinger, checker, told, process>>

\* Mutant: the client is taken off the list and not freed.
SpawnFailedKept ==
    /\ main.pc = "spawning"
    /\ list' = Removed(main.client)
    /\ main' = [main EXCEPT !.pc = "accepting", !.client = NULL]
    /\ UNCHANGED <<client, players, running, pinger, checker, handler, told, process>>

SpawnFailed ==
    /\ main.pc = "spawning"
    /\ list' = Removed(main.client)
    /\ Free(main.client)
    /\ main' = [main EXCEPT !.pc = "accepting", !.client = NULL]
    /\ UNCHANGED <<players, running, pinger, checker, handler, told, process>>
-----------------------------------------------------------------------------
(* The signal handler, in any thread at any time, and server_shutdown.     *)

Signal ==
    /\ running
    /\ running' = FALSE
    /\ UNCHANGED <<client, list, players, main, pinger, checker, handler, told, process>>

\* accept() fails on the listening socket that the signal handler shut down;
\* client_list_get_all.
BeginShutdown ==
    /\ main.pc = "accepting"
    /\ ~running
    /\ main' = [main EXCEPT !.pc = "notifying", !.todo = Snapshot]
    /\ UNCHANGED <<client, list, players, running, pinger, checker, handler, told, process>>

\* Mutant: only clients that have logged in are told.
NotifiesAuthenticated(c) == ~client[c].down /\ client[c].auth

Notifies(c) == ~client[c].down

Notify ==
    /\ main.pc = "notifying"
    /\ main.todo # <<>>
    /\ Send(IF Notifies(Head(main.todo)) THEN {Head(main.todo)} ELSE {})
    /\ told' = IF Notifies(Head(main.todo)) THEN told \cup {Head(main.todo)} ELSE told
    /\ main' = [main EXCEPT !.todo = Tail(@)]
    /\ UNCHANGED <<client, list, players, running, pinger, checker, handler>>

\* One second later: client_list_get_all again.
BeginCutting ==
    /\ main.pc = "notifying"
    /\ main.todo = <<>>
    /\ main' = [main EXCEPT !.pc = "cutting", !.todo = Snapshot]
    /\ UNCHANGED <<client, list, players, running, pinger, checker, handler, told, process>>

\* Mutant: a client that has not logged in is passed over.
CutFdAuthenticated(c) ==
    IF client[c].fd = "open" /\ client[c].auth THEN "shut" ELSE client[c].fd

CutFd(c) == IF client[c].fd = "open" THEN "shut" ELSE client[c].fd

Cut ==
    /\ main.pc = "cutting"
    /\ main.todo # <<>>
    /\ client' = [client EXCEPT ![Head(main.todo)].fd = CutFd(Head(main.todo))]
    /\ main' = [main EXCEPT !.todo = Tail(@)]
    /\ UNCHANGED <<list, players, running, pinger, checker, handler, told, process>>

\* The PING thread and the timeout checker have been joined.
Join ==
    /\ main.pc = "cutting"
    /\ main.todo = <<>>
    /\ pinger = "ended"
    /\ checker.pc = "ended"
    /\ main' = [main EXCEPT !.pc = "waiting"]
    /\ UNCHANGED <<client, list, players, running, pinger, checker, handler, told, process>>

\* sleep(3), taken to be long enough for the handlers to end; after it
\* room_system_shutdown, client_list_shutdown and exit().
Finish ==
    /\ main.pc = "waiting"
    /\ \A c \in Clients : handler[c].pc = "ended"
    /\ players' = {}
    /\ client' = [c \in Clients |->
                     IF c \in Listed
                     THEN [client[c] EXCEPT !.life = "freed", !.fd = "none"]
                     ELSE client[c]]
    /\ list' = [i \in DOMAIN list |-> NULL]
    /\ main' = [main EXCEPT !.pc = "over"]
    /\ process' = "over"
    /\ UNCHANGED <<running, pinger, checker, handler, told>>

-----------------------------------------------------------------------------
(* The PING thread.  Whether it is time to send one is the subject of      *)
(* module Keepalive, and of the copies of the list only the checker's is   *)
(* followed, which does more with it.                                      *)

Ping ==
    /\ pinger = "running"
    /\ running
    /\ \E c \in Listed : client[c].auth /\ Send({c})
    /\ UNCHANGED <<client, list, players, running, main, pinger, checker, handler, told>>

PingerEnds ==
    /\ pinger = "running"
    /\ ~running
    /\ pinger' = "ended"
    /\ UNCHANGED <<client, list, players, running, main, checker, handler, told, process>>

-----------------------------------------------------------------------------
(* The timeout checker, with a copy of the list too.  It copies the fields *)
(* of a client first, and acts on that copy.                               *)

CheckRound ==
    /\ checker.pc = "sleeping"
    /\ IF running
       THEN \E c \in Listed : checker' = [checker EXCEPT !.pc = "looking", !.at = c]
       ELSE checker' = [checker EXCEPT !.pc = "ended"]
    /\ UNCHANGED <<client, list, players, running, main, pinger, handler, told, process>>

CheckerAsleep == [pc |-> "sleeping", at |-> NULL, verdict |-> "none"]

HasExpired(c) == client[c].down /\ client[c].fd = "none"

Returning(c) == handler[c].pc \in {"taking", "replacing"}

\* What the copied fields and the clock can say.  A client that is about to
\* take over a session has just been heard of, and ninety seconds after the
\* loss of a client its handler has ended.
Verdicts(c) ==
    {"none"}
    \cup (IF client[c].auth /\ client[c].fd # "none" /\ ~Returning(c)
          THEN {"silent", "inactive"} ELSE {})
    \cup (IF HasExpired(c) /\ handler[c].pc = "ended" THEN {"expired"} ELSE {})

Examine ==
    /\ checker.pc = "looking"
    /\ \E v \in Verdicts(checker.at) :
          checker' = IF v = "none" THEN CheckerAsleep
                     ELSE [checker EXCEPT !.pc = "acting", !.verdict = v]
    /\ UNCHANGED <<client, list, players, running, main, pinger, handler, told, process>>

CutOff ==
    /\ checker.pc = "acting"
    /\ checker.verdict \in {"silent", "inactive"}
    /\ client' = [client EXCEPT ![checker.at].fd = "none",
                                ![checker.at].down = @ \/ checker.verdict = "silent"]
    /\ checker' = CheckerAsleep
    /\ UNCHANGED <<list, players, running, main, pinger, handler, told, process>>

\* The forfeit of its game, client_list_remove and free().
Expire ==
    /\ checker.pc = "acting"
    /\ checker.verdict = "expired"
    /\ IF checker.at \in players
       THEN players' = {} /\ Send(players \ {checker.at})
       ELSE UNCHANGED <<players, process>>
    /\ list' = Removed(checker.at)
    /\ Free(checker.at)
    /\ checker' = CheckerAsleep
    /\ UNCHANGED <<running, main, pinger, handler, told>>

-----------------------------------------------------------------------------
(* The handler threads: messages.  Every answer is sent to the client and, *)
(* while it plays, to the others of its game.                              *)

Hears(c) == handler[c].pc = "reading" /\ client[c].fd # "none"

Goto(c, pc) == handler' = [handler EXCEPT ![c] = [pc |-> pc, old |-> NULL]]

Circle(c) == IF c \in players THEN players ELSE {c}

Hello(c) ==
    /\ Hears(c)
    /\ ~client[c].auth
    /\ client' = [client EXCEPT ![c].auth = TRUE]
    /\ Send({c})
    /\ UNCHANGED <<list, players, running, main, pinger, checker, handler, told>>

\* The READY that starts a game, with the clients that are in its room.
StartGame(c) ==
    /\ Hears(c)
    /\ players = {}
    /\ \E S \in SUBSET {d \in Clients : Live(d) /\ client[d].auth
                                        /\ handler[d].pc = "reading"} :
          /\ c \in S
          /\ Cardinality(S) >= 2
          /\ players' = S
          /\ Send(S)
    /\ UNCHANGED <<client, list, running, main, pinger, checker, handler, told>>

\* LEAVE_ROOM; a game that one player is left of is forfeited.
Without(c) == IF Cardinality(players \ {c}) < 2 THEN {} ELSE players \ {c}

LeaveGame(c) ==
    /\ Hears(c)
    /\ c \in players
    /\ players' = Without(c)
    /\ Send(players)
    /\ UNCHANGED <<client, list, running, main, pinger, checker, handler, told>>

\* The FLIP that ends the game.
EndGame(c) ==
    /\ Hears(c)
    /\ c \in players
    /\ players' = {}
    /\ Send(players)
    /\ UNCHANGED <<client, list, running, main, pinger, checker, handler, told>>

\* Any other message.
Speak(c) ==
    /\ Hears(c)
    /\ Send(Circle(c))
    /\ UNCHANGED <<client, list, players, running, main, pinger, checker,
                   handler, told>>

(* handle_reconnect, which the client sends first on a new connection: the *)
(* search, the take-over, client_list_replace, and the end of the old one. *)

Accepts(old) == client[old].down \/ client[old].fd = "none"

\* The time of a session that the checker has found expired is over here too.
Expiring(c) == checker.verdict = "expired" /\ c = checker.at

Find(c, session) ==
    /\ Hears(c)
    /\ ~client[c].auth
    /\ LET found == {i \in DOMAIN list : list[i] # NULL
                                         /\ client[list[i]].id = session}
       IN  /\ found # {}
           /\ Accepts(list[FirstOf(found)])
           /\ ~Expiring(list[FirstOf(found)])
           /\ handler' = [handler EXCEPT
                            ![c] = [pc |-> "taking", old |-> list[FirstOf(found)]]]
    /\ UNCHANGED <<client, list, players, running, main, pinger, checker, told, process>>

TakeOver(c) ==
    LET old == handler[c].old
    IN  /\ handler[c].pc = "taking"
        /\ client' = [client EXCEPT ![c].auth = client[old].auth,
                                    ![c].id   = client[old].id,
                                    ![c].down = FALSE]
        /\ players' = IF old \in players THEN (players \ {old}) \cup {c}
                      ELSE players
        /\ handler' = [handler EXCEPT ![c].pc = "replacing"]
        /\ UNCHANGED <<list, running, main, pinger, checker, told, process>>

\* client_list_replace, free(), the WELCOME and the news for the others.
Replace(c) ==
    LET old == handler[c].old
    IN  /\ handler[c].pc = "replacing"
        /\ list' = Replaced(old, c)
        /\ Free(old)
        /\ Send(Circle(c))
        /\ Goto(c, "reading")
        /\ UNCHANGED <<players, running, main, pinger, checker, told>>

-----------------------------------------------------------------------------
(* The handler threads: the cleanup, when recv() fails because the peer    *)
(* has gone or the socket has been shut down.                              *)

\* Two or more others play on.
LoseToGame(c) ==
    /\ handler[c].pc = "reading"
    /\ c \in players
    /\ Cardinality(players \ {c}) >= 2
    /\ players' = players \ {c}
    /\ Send(players \ {c})
    /\ Goto(c, "delisting")
    /\ UNCHANGED <<client, list, running, main, pinger, checker, told>>

\* Fewer: the client is kept for a reconnect, and the others are told.
LoseAndKeep(c) ==
    /\ handler[c].pc = "reading"
    /\ c \in players
    /\ Cardinality(players \ {c}) < 2
    /\ client' = [client EXCEPT ![c].down = TRUE, ![c].fd = "none"]
    /\ Goto(c, "telling")
    /\ UNCHANGED <<list, players, running, main, pinger, checker, told, process>>

Tell(c) ==
    /\ handler[c].pc = "telling"
    /\ Send(players \ {c})
    /\ Goto(c, "ended")
    /\ UNCHANGED <<client, list, players, running, main, pinger, checker, told>>

\* Not in a game.  A client that the checker has marked is kept, and during
\* the shutdown every client is left to client_list_shutdown.
LoseOutside(c) ==
    /\ handler[c].pc = "reading"
    /\ c \notin players
    /\ IF client[c].down THEN Goto(c, "ended") /\ UNCHANGED client
       ELSE IF running THEN Goto(c, "delisting") /\ UNCHANGED client
       ELSE Goto(c, "ended") /\ client' = [client EXCEPT ![c].fd = "none"]
    /\ UNCHANGED <<list, players, running, main, pinger, checker, told, process>>

\* client_list_remove and free().  In between nobody can come by the client.
Delist(c) ==
    /\ handler[c].pc = "delisting"
    /\ list' = Removed(c)
    /\ Free(c)
    /\ Goto(c, "ended")
    /\ UNCHANGED <<players, running, main, pinger, checker, told, process>>

-----------------------------------------------------------------------------
(* A thread is about to follow a pointer to a freed client, or to free it  *)
(* once more.                                                              *)

MainStale == main.todo # <<>> /\ Freed(Head(main.todo))
CheckerStale == checker.at # NULL /\ Freed(checker.at)
HandlerStale(c) ==
    \/ handler[c].pc \notin {"ended", "telling"} /\ Freed(c)
    \/ handler[c].old # NULL /\ Freed(handler[c].old)

Touch ==
    /\ \/ MainStale \/ CheckerStale
       \/ \E c \in Clients : HandlerStale(c)
    /\ process' = "touched"
    /\ UNCHANGED <<client, list, players, running, main, pinger, checker, handler, told>>

-----------------------------------------------------------------------------

Accepting == \E c \in Clients : Accept(c)

Main ==
    /\ process = "up" /\ ~MainStale
    /\ \/ Spawn \/ SpawnFailed \/ BeginShutdown
       \/ Notify \/ BeginCutting \/ Cut \/ Join \/ Finish

Pinger == process = "up" /\ (Ping \/ PingerEnds)

Checker ==
    /\ process = "up" /\ ~CheckerStale
    /\ CheckRound \/ Examine \/ CutOff \/ Expire

\* What a message of the client starts.
Request(c) ==
    /\ process = "up" /\ ~HandlerStale(c)
    /\ \/ Hello(c) \/ StartGame(c) \/ LeaveGame(c) \/ EndGame(c) \/ Speak(c)
       \/ \E session \in Clients : Find(c, session)

\* What follows it, and the cleanup.
Continue(c) ==
    /\ process = "up" /\ ~HandlerStale(c)
    /\ TakeOver(c) \/ Replace(c) \/ Tell(c) \/ Delist(c)

Lose(c) ==
    /\ process = "up" /\ ~HandlerStale(c)
    /\ LoseToGame(c) \/ LoseAndKeep(c) \/ LoseOutside(c)

Next ==
    \/ process = "up" /\ (Accepting \/ Signal \/ Touch)
    \/ Main \/ Pinger \/ Checker
    \/ \E c \in Clients : Request(c) \/ Continue(c) \/ Lose(c)

Spec == Init /\ [][Next]_vars

\* The threads that are not waiting for somebody go on, and recv() returns on
\* a socket that has been shut down.  Nobody is bound to connect, to send or to
\* stop the server.  One of them at a time is enough: once the server is to
\* stop, each of them comes to its end or waits for another.
Progress ==
    \/ Main \/ Pinger \/ Checker
    \/ process = "up" /\ Touch
    \/ \E c \in Clients : Continue(c) \/ (client[c].fd # "open" /\ Lose(c))

Fairness == WF_vars(Progress)

FairSpec == Spec /\ Fairness

-----------------------------------------------------------------------------
(* Properties.  They hold up to the first use of freed memory.             *)

\* The list is sound: the clients in it exist, and none is in it twice, though
\* clients are taken off, evicted and replaced by four kinds of threads.
ListSound ==
    process = "up" =>
        /\ \A c \in Listed : Live(c)
        /\ \A i, j \in DOMAIN list : list[i] = list[j] /\ list[i] # NULL => i = j

\* No client is lost: one that exists is in the list, where the checker and
\* the shutdown find it, though main, handlers and the checker take clients off
\* it, give their entries to others and replace them.
NothingLost ==
    process = "up" => \A c \in Clients : Live(c) => c \in Listed

\* A socket that the shutdown cuts belongs to a client that was sent
\* SERVER_SHUTDOWN: the two copies of the list are a second apart, and clients
\* are lost, freed and replaced in between.
ToldBeforeCut ==
    process = "up" => \A c \in Clients : Live(c) /\ client[c].fd = "shut" => c \in told

\* The server ends once it has been told to: every thread leaves its loop,
\* every handler is woken, and no client_t is left.
ShutdownEnds ==
    ~running ~> \/ process = "over" /\ \A c \in Clients : ~Live(c)
                \/ process \in {"killed", "touched"}

-----------------------------------------------------------------------------
(* Properties that the code does not have.                                 *)

\* The server is not killed by a message to a client it has cut off itself.
StopsByItself == process # "killed"

\* The copies of the list that the checker and the shutdown work on point to
\* clients that exist.
SnapshotsLive ==
    process = "up" => ~MainStale /\ ~CheckerStale

\* A session is taken over once: no two reconnects, one of them the retry of the
\* other, are about to replace the same client, which both have found.
TakenOverOnce ==
    process = "up" =>
        \A c, d \in Clients :
            handler[c].old = handler[d].old /\ handler[c].old # NULL => c = d
=============================================================================

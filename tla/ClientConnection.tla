-------------------------- MODULE ClientConnection --------------------------
(***************************************************************************)
(* The client's connection to the server (network/ClientConnection.java)   *)
(* with the callbacks of the screen it reports to (LoginController, then   *)
(* LobbyController or GameController).  Two threads share its fields       *)
(* without a lock: the reader thread, which also runs the automatic        *)
(* reconnect in its `finally' block, and the JavaFX thread, which runs the *)
(* user's clicks and, one by one, what the callbacks queued with           *)
(* Platform.runLater.                                                      *)
(*                                                                         *)
(* One ClientConnection object is followed from connect() on.  Every       *)
(* return to the login screen after a login loads a new LoginController    *)
(* with a connection of its own, so the object followed here is then an    *)
(* orphan: "again" is that new login screen, "second" the session the user *)
(* has opened from it.  The server and the network answer as they like.    *)
(***************************************************************************)
EXTENDS Naturals, Sequences

CONSTANTS MaxAttempts,  \* MAX_RECONNECT_ATTEMPTS, 7 in ProtocolConstants
          MaxInvalid,   \* MAX_INVALID_MESSAGES, 3
          MaxTasks      \* bound: queued tasks at which a new attempt still starts

ASSUME ConnectionAssumption ==
    MaxAttempts \in Nat \ {0} /\ MaxInvalid \in Nat \ {0} /\ MaxTasks \in Nat

VARIABLES
    conn,       \* the volatile flags and counters of the object
    sock,       \* the current socket: "dead" once nothing more will come over it
    reader,     \* where the reader thread is, and its reconnect attempt
    returning,  \* the previous reader is still inside a successful reconnect()
    tasks,      \* what callbacks queued with Platform.runLater, oldest first
    screen,     \* the view on the stage
    connected,  \* LoginController.connected
    quit        \* disconnect() has been called, by the user or on his behalf

vars == <<conn, sock, reader, returning, tasks, screen, connected, quit>>

Counts == 0 .. MaxInvalid

Conns == [running : BOOLEAN, auto : BOOLEAN, id : BOOLEAN,
          reconnecting : BOOLEAN, userDisconnect : BOOLEAN,
          serverShutdown : BOOLEAN, invalidData : BOOLEAN,
          invalidCount : Counts]

Places == {"none", "reading", "ending", "loop", "asking", "welcomed", "done"}

Tasks == {"loginConnected", "loginDisconnected", "loginError", "toLobby", "backToLogin"}

\* Every flag and counter within its type.
TypeOK ==
    /\ conn \in Conns
    /\ sock \in {"none", "open", "dead", "closed"}
    /\ reader \in [at : Places, attempt : 0 .. MaxAttempts]
    /\ returning \in BOOLEAN
    /\ tasks \in Seq(Tasks)
    /\ screen \in {"login", "lobby", "again", "second"}
    /\ connected \in BOOLEAN
    /\ quit \in BOOLEAN

Init ==
    /\ conn = [running |-> FALSE, auto |-> FALSE, id |-> FALSE,
               reconnecting |-> FALSE, userDisconnect |-> FALSE,
               serverShutdown |-> FALSE, invalidData |-> FALSE, invalidCount |-> 0]
    /\ sock = "none"
    /\ reader = [at |-> "none", attempt |-> 0]
    /\ returning = FALSE
    /\ tasks = <<>>
    /\ screen = "login"
    /\ connected = FALSE
    /\ quit = FALSE

-----------------------------------------------------------------------------
(* The listener.  Which controller listens follows from the screen that was *)
(* shown last; every callback only queues work for the JavaFX thread.  What *)
(* a lobby or game screen does on an error is a line of text.               *)

OnConnected == IF screen = "login" THEN <<"loginConnected">> ELSE <<>>

OnDisconnected == IF screen = "login" THEN <<"loginDisconnected">> ELSE <<"backToLogin">>

OnError == IF screen = "login" THEN <<"loginError">> ELSE <<>>

\* The reader at a place, its attempt unchanged.
At(place) == [reader EXCEPT !.at = place]

\* A reader step that touches neither the screen nor another thread.
ReaderOnly == UNCHANGED <<returning, screen, connected, quit>>

-----------------------------------------------------------------------------
(* connect(), on the connection thread of the login screen.                 *)

\* The socket is open: the reader starts and the login screen learns of it.
Connect ==
    /\ reader.at = "none"
    /\ conn' = [conn EXCEPT !.running = TRUE]
    /\ sock' = "open"
    /\ reader' = At("reading")
    /\ tasks' = tasks \o OnConnected
    /\ ReaderOnly

\* The socket cannot be opened: the screen lets the user try again.
ConnectFails ==
    /\ reader.at = "none"
    /\ sock' = "closed"
    /\ UNCHANGED <<conn, reader, tasks>>
    /\ ReaderOnly

-----------------------------------------------------------------------------
(* readerLoop(): one line read.                                             *)

\* The reader has a line of the server in its hands.
Reads == reader.at = "reading" /\ conn.running /\ sock = "open"

\* A valid line.  The counter of invalid ones starts again.
ReadValid ==
    /\ Reads
    /\ conn' = [conn EXCEPT !.invalidCount = 0]
    /\ UNCHANGED <<sock, reader, tasks>>
    /\ ReaderOnly

\* The WELCOME of a login: setClientId, which turns automatic reconnect on.
ReadWelcome ==
    /\ Reads
    /\ screen = "login" /\ ~conn.id
    /\ conn' = [conn EXCEPT !.invalidCount = 0, !.id = TRUE, !.auto = TRUE]
    /\ tasks' = Append(tasks, "toLobby")
    /\ UNCHANGED <<sock, reader>>
    /\ ReaderOnly

\* Mutant: one invalid line more than the limit.
ReadInvalidLate ==
    /\ Reads
    /\ conn' = [conn EXCEPT !.invalidCount = @ + 1,
                            !.invalidData = conn.invalidCount >= MaxInvalid]
    /\ UNCHANGED <<sock, reader, tasks>>
    /\ ReaderOnly

\* Binary data or an unknown command; the last one allowed ends the loop.
ReadInvalid ==
    /\ Reads
    /\ LET count == conn.invalidCount + 1
       IN  IF count < MaxInvalid
           THEN /\ conn' = [conn EXCEPT !.invalidCount = count]
                /\ UNCHANGED <<reader, tasks>>
           ELSE /\ conn' = [conn EXCEPT !.invalidCount = count,
                                        !.invalidData = TRUE, !.running = FALSE]
                /\ reader' = At("ending")
                /\ tasks' = tasks \o OnDisconnected
    /\ UNCHANGED sock
    /\ ReaderOnly

\* Mutant: the loop is left by `break' alone.
ReadShutdownRunning ==
    /\ Reads
    /\ conn' = [conn EXCEPT !.invalidCount = 0, !.serverShutdown = TRUE]
    /\ reader' = At("ending")
    /\ tasks' = tasks \o OnDisconnected
    /\ UNCHANGED sock
    /\ ReaderOnly

\* SERVER_SHUTDOWN, recognised before the listener sees it.
ReadShutdown ==
    /\ Reads
    /\ conn' = [conn EXCEPT !.invalidCount = 0, !.serverShutdown = TRUE, !.running = FALSE]
    /\ reader' = At("ending")
    /\ tasks' = tasks \o OnDisconnected
    /\ UNCHANGED sock
    /\ ReaderOnly

-----------------------------------------------------------------------------
(* readerLoop(): the ways out of the loop.                                  *)

\* Another thread has cleared `running'.
LoopStops ==
    /\ reader.at = "reading" /\ ~conn.running
    /\ reader' = At("ending")
    /\ UNCHANGED <<conn, sock, tasks>>
    /\ ReaderOnly

\* Mutant: a shut down server is retried.
RetriesShutdown(c) == c.auto /\ c.id /\ ~c.userDisconnect /\ ~c.invalidData

\* Automatic reconnect will take over.
Retries(c) ==
    c.auto /\ c.id /\ ~c.userDisconnect /\ ~c.serverShutdown /\ ~c.invalidData

\* readLine returns null.  The listener hears of it only when nothing will
\* be retried.
EndOfStream ==
    /\ reader.at = "reading" /\ conn.running /\ sock = "dead"
    /\ conn' = [conn EXCEPT !.running = FALSE]
    /\ reader' = At("ending")
    /\ tasks' = IF Retries(conn) THEN tasks ELSE tasks \o OnDisconnected
    /\ UNCHANGED sock
    /\ ReaderOnly

\* SocketTimeoutException: READ_TIMEOUT_MS without a line.
ReadTimeout ==
    /\ reader.at = "reading" /\ sock = "dead"
    /\ conn' = [conn EXCEPT !.running = FALSE]
    /\ reader' = At("ending")
    /\ tasks' = tasks \o OnError
    /\ UNCHANGED sock
    /\ ReaderOnly

\* IOException: the peer reset the connection, or cleanup() closed it.
ReadFails ==
    /\ reader.at = "reading" /\ sock \in {"dead", "closed"}
    /\ conn' = [conn EXCEPT !.running = FALSE]
    /\ reader' = At("ending")
    /\ tasks' = IF conn.running THEN tasks \o OnError ELSE tasks
    /\ UNCHANGED sock
    /\ ReaderOnly

\* The `finally' block: clean up, then reconnect or end the thread.
Finally ==
    /\ reader.at = "ending"
    /\ conn' = [conn EXCEPT !.running = FALSE]
    /\ sock' = "closed"
    /\ IF Retries(conn) /\ ~conn.reconnecting
       THEN /\ reader' = [at |-> "loop", attempt |-> 1]
            /\ tasks' = tasks \o OnError
       ELSE /\ reader' = At("done")
            /\ UNCHANGED tasks
    /\ ReaderOnly

-----------------------------------------------------------------------------
(* The reconnect loop and reconnect().                                      *)

\* Mutant: the last attempt fails without a word.
NextAttemptSilent(said) ==
    /\ reader' = IF reader.attempt < MaxAttempts
                 THEN [at |-> "loop", attempt |-> reader.attempt + 1]
                 ELSE At("done")
    /\ tasks' = tasks \o said

\* reconnect() has returned false: the next attempt after a sleep, or the end.
NextAttempt(said) ==
    IF reader.attempt < MaxAttempts
    THEN /\ reader' = [at |-> "loop", attempt |-> reader.attempt + 1]
         /\ tasks' = tasks \o said
    ELSE /\ reader' = At("done")
         /\ tasks' = tasks \o said \o OnDisconnected

\* reconnect() goes ahead: it has a client id, and nobody else is inside it.
MayAsk == conn.id /\ ~conn.reconnecting

\* The next attempt begins.  Bound: the queue of the JavaFX thread, which
\* grows with every attempt while that thread is busy, is not too long.
Attempts == reader.at = "loop" /\ Len(tasks) <= MaxTasks

\* RECONNECT is sent on a new socket.
Ask ==
    /\ Attempts /\ MayAsk
    /\ conn' = [conn EXCEPT !.reconnecting = TRUE]
    /\ sock' = "open"
    /\ reader' = At("asking")
    /\ tasks' = tasks \o OnError
    /\ ReaderOnly

\* No id (the session has expired), or the new socket cannot be opened.
CannotAsk ==
    /\ Attempts
    /\ sock' = IF MayAsk THEN "closed" ELSE sock
    /\ NextAttempt(OnError)
    /\ UNCHANGED conn
    /\ ReaderOnly

\* Mutant: a refused attempt keeps `reconnecting'.
RefusedHeld == conn

\* What a refused attempt leaves of the flags.
Refused == [conn EXCEPT !.reconnecting = FALSE]

\* No answer, an exception, or an answer reconnect() has no case for.
AskFails ==
    /\ reader.at = "asking"
    /\ conn' = Refused
    /\ sock' = "closed"
    /\ NextAttempt(<<>>)
    /\ ReaderOnly

\* "already connected": automatic reconnect is turned off, the loop goes on.
AlreadyConnected ==
    /\ reader.at = "asking" /\ sock = "open"
    /\ conn' = [Refused EXCEPT !.auto = FALSE]
    /\ sock' = "closed"
    /\ NextAttempt(OnDisconnected)
    /\ ReaderOnly

\* "Client not found or session expired": the id is forgotten as well.
SessionExpired ==
    /\ reader.at = "asking" /\ sock = "open"
    /\ conn' = [Refused EXCEPT !.auto = FALSE, !.id = FALSE]
    /\ sock' = "closed"
    /\ NextAttempt(OnDisconnected)
    /\ ReaderOnly

\* WELCOME has been read; the flags are not yet set.
Welcomed ==
    /\ reader.at = "asking" /\ sock = "open"
    /\ reader' = At("welcomed")
    /\ UNCHANGED <<conn, sock, tasks>>
    /\ ReaderOnly

\* The flags are set and a new reader thread starts on the new socket ...
Resume ==
    /\ reader.at = "welcomed"
    /\ conn' = [conn EXCEPT !.running = TRUE, !.userDisconnect = FALSE]
    /\ reader' = [at |-> "reading", attempt |-> 0]
    /\ returning' = TRUE
    /\ UNCHANGED <<sock, tasks, screen, connected, quit>>

\* ... while the old one still has to leave reconnect().
Return ==
    /\ returning
    /\ conn' = [conn EXCEPT !.reconnecting = FALSE]
    /\ returning' = FALSE
    /\ tasks' = tasks \o OnConnected
    /\ UNCHANGED <<sock, reader, screen, connected, quit>>

-----------------------------------------------------------------------------
(* The JavaFX thread.                                                       *)

\* disconnect(), with `rest' still queued before it.
Disconnect(rest) ==
    /\ conn' = [conn EXCEPT !.userDisconnect = TRUE, !.running = FALSE]
    /\ sock' = "closed"
    /\ quit' = TRUE
    /\ tasks' = rest \o OnDisconnected
    /\ UNCHANGED <<reader, returning, connected>>

\* The oldest task that callbacks queued.
RunTask ==
    /\ tasks # <<>>
    /\ \/ /\ Head(tasks) \in {"loginConnected", "loginDisconnected"}
          /\ connected' = (Head(tasks) = "loginConnected")
          /\ tasks' = Tail(tasks)
          /\ UNCHANGED <<conn, sock, reader, returning, screen, quit>>
       \/ /\ Head(tasks) = "loginError" /\ connected
          /\ Disconnect(Tail(tasks))
          /\ UNCHANGED screen
       \/ /\ Head(tasks) = "loginError" /\ ~connected
          /\ tasks' = Tail(tasks)
          /\ UNCHANGED <<conn, sock, reader, returning, screen, connected, quit>>
       \/ /\ Head(tasks) \in {"toLobby", "backToLogin"}
          /\ screen' = IF Head(tasks) = "toLobby" THEN "lobby" ELSE "again"
          /\ tasks' = Tail(tasks)
          /\ UNCHANGED <<conn, sock, reader, returning, connected, quit>>

\* A click is handled after the tasks that were queued before it.
Clicks == tasks = <<>>

\* DISCONNECT on the login screen.
LoginDisconnects ==
    /\ Clicks /\ screen = "login" /\ connected
    /\ Disconnect(tasks)
    /\ UNCHANGED screen

\* Disconnect, confirmed, in the lobby: disconnect() and returnToLogin().
UserDisconnects ==
    /\ Clicks /\ screen = "lobby"
    /\ Disconnect(tasks)
    /\ screen' = "again"

\* The user logs in from the new login screen, over a connection of its own.
LogInAgain ==
    /\ Clicks /\ screen = "again"
    /\ screen' = "second"
    /\ UNCHANGED <<conn, sock, reader, returning, tasks, connected, quit>>

\* The network or the server goes away; the client does not know yet.
LinkDies ==
    /\ sock = "open"
    /\ sock' = "dead"
    /\ UNCHANGED <<conn, reader, returning, tasks, screen, connected, quit>>

-----------------------------------------------------------------------------
\* What the reader thread does without a line from the server.
ReaderGoesOn ==
    \/ LoopStops \/ EndOfStream \/ ReadTimeout \/ ReadFails \/ Finally
    \/ Ask \/ CannotAsk \/ AskFails \/ AlreadyConnected \/ SessionExpired
    \/ Welcomed \/ Resume

Next ==
    \/ Connect \/ ConnectFails
    \/ ReadValid \/ ReadWelcome \/ ReadInvalid \/ ReadShutdown
    \/ ReaderGoesOn
    \/ Return
    \/ RunTask \/ LoginDisconnects \/ UserDisconnects \/ LogInAgain
    \/ LinkDies

Spec == Init /\ [][Next]_vars

\* Both threads are scheduled: a reader that can go on does, and the JavaFX
\* thread works its queue off.
Fairness ==
    /\ WF_vars(ReaderGoesOn)
    /\ WF_vars(Return)
    /\ WF_vars(RunTask)

FairSpec == Spec /\ Fairness

-----------------------------------------------------------------------------
(* Properties.                                                              *)

\* `reconnecting' is held exactly while a thread is inside reconnect(): an
\* answer, an exception or a success that forgot to give it back would make
\* every later attempt return false at once.
ReconnectingHeld ==
    conn.reconnecting <=> (reader.at \in {"asking", "welcomed"} \/ returning)

\* What isConnected() tells the screens is true of the reader: the flag is
\* set only while a reader thread reads, so no command goes out whose answer
\* nobody would read.
RunningIsRead == conn.running => reader.at = "reading"

\* A server that has shut down, or that sent too much rubbish, is never
\* contacted again, however many reconnects came before.
ServerEndsIt ==
    conn.serverShutdown \/ conn.invalidData => reader.at \in {"ending", "done"}

\* RECONNECT is sent only by a client that still has an id, though the loop
\* goes on after the server has said that the session is gone.
AsksWithId == reader.at \in {"asking", "welcomed"} => conn.id

\* An outage that the client works on ends: it reads from the server again,
\* or the user is taken away from the lobby.
OutageEnds == reader.at = "loop" ~> (reader.at = "reading" \/ screen # "lobby")

\* What the comment before the loop says of disconnect(): the client does not
\* come back by itself after it.  It is tested before the loop only, and a
\* successful reconnect() clears it.
QuitStaysQuit == quit => ~(conn.running /\ sock = "open")

\* What the comment in reconnect() says: a session that is gone ends the
\* loop.  The return value it stands at only ends the attempt.
ExpiryEndsLoop == [][conn.id /\ ~conn'.id => reader'.at = "done"]_vars

\* The manual login that the same comment requires stands: once the session
\* is gone, the old connection does not take the user back to the login
\* screen from the session he has opened since.
ManualLoginStands ==
    [](screen = "second" /\ ~conn.id /\ tasks = <<>> => [](screen = "second"))

\* An unreachable server is shown to the user: no lobby is left standing on a
\* connection that nobody reads or repairs.  It is when the last callback goes
\* to the login screen while the lobby is already queued, and when a new
\* reader fails while its predecessor is still inside reconnect() and so finds
\* `reconnecting' set.
LossIsShown == reader.at = "done" /\ ~returning /\ tasks = <<>> => screen # "lobby"
=============================================================================

----------------------- MODULE ClientConnection_proofs -----------------------
(***************************************************************************)
(* The reader thread and the JavaFX thread agree about the connection, for *)
(* any limits of attempts, invalid lines and queued tasks.                 *)
(***************************************************************************)
EXTENDS ClientConnection, TLAPS

\* A reader that starts while the previous one is still inside reconnect()
\* cannot get inside it as well: it ends first.
OneInside == returning => reader.at \in {"reading", "ending", "done"}

\* Only the line that turns reconnect off brings the counter to its limit.
BelowLimit == ~conn.invalidData => conn.invalidCount < MaxInvalid

\* The invariant that is inductive: the four properties lean on each other,
\* on OneInside and on BelowLimit.
IInv ==
    /\ TypeOK
    /\ OneInside
    /\ ReconnectingHeld
    /\ RunningIsRead
    /\ ServerEndsIt
    /\ AsksWithId
    /\ BelowLimit

-----------------------------------------------------------------------------
\* Whatever a callback queues is a list of tasks.
LEMMA CallbackTasks ==
    /\ <<>> \in Seq(Tasks)
    /\ OnConnected \in Seq(Tasks)
    /\ OnDisconnected \in Seq(Tasks)
    /\ OnError \in Seq(Tasks)
<1>1. \A t \in Tasks : <<t>> \in Seq(Tasks)
  OBVIOUS
<1>2. <<>> \in Seq(Tasks)
  OBVIOUS
<1>3. {"loginConnected", "loginDisconnected", "loginError", "backToLogin"} \subseteq Tasks
  BY DEF Tasks
<1> QED BY <1>1, <1>2, <1>3 DEF OnConnected, OnDisconnected, OnError

\* The counter may start again, and may count one more below the limit.
LEMMA CountTyped ==
    /\ 0 \in Counts /\ 0 < MaxInvalid
    /\ \A n \in Counts : n < MaxInvalid => n + 1 \in Counts
BY ConnectionAssumption DEF Counts

\* Queueing after the tasks there keeps the queue a queue.
LEMMA QueueGrows ==
    ASSUME NEW s \in Seq(Tasks), NEW t \in Seq(Tasks)
    PROVE  s \o t \in Seq(Tasks)
OBVIOUS

\* Moving the reader keeps its record one.
LEMMA ReaderMoves ==
    ASSUME reader \in [at : Places, attempt : 0 .. MaxAttempts], NEW place \in Places
    PROVE  /\ At(place) \in [at : Places, attempt : 0 .. MaxAttempts]
           /\ At(place).at = place
           /\ At(place).attempt = reader.attempt
BY DEF At

\* A failed attempt leaves the reader in the loop or at its end.
LEMMA AttemptMovesOn ==
    ASSUME TypeOK, NEW said \in Seq(Tasks), NextAttempt(said)
    PROVE  /\ reader' \in [at : Places, attempt : 0 .. MaxAttempts]
           /\ reader'.at \in {"loop", "done"}
           /\ tasks' \in Seq(Tasks)
<1>1. CASE reader.attempt < MaxAttempts
  <2>1. /\ reader' = [at |-> "loop", attempt |-> reader.attempt + 1]
        /\ tasks' = tasks \o said
    BY <1>1 DEF NextAttempt
  <2>2. reader.attempt + 1 \in 0 .. MaxAttempts
    BY <1>1, ConnectionAssumption DEF TypeOK
  <2> QED BY <2>1, <2>2, QueueGrows DEF TypeOK, Places
<1>2. CASE ~(reader.attempt < MaxAttempts)
  <2>1. reader' = At("done") /\ tasks' = tasks \o said \o OnDisconnected
    BY <1>2 DEF NextAttempt
  <2>2. "done" \in Places
    BY DEF Places
  <2>3. tasks \o said \in Seq(Tasks)
    BY QueueGrows DEF TypeOK
  <2> QED BY <2>1, <2>2, <2>3, ReaderMoves, QueueGrows, CallbackTasks DEF TypeOK
<1> QED BY <1>1, <1>2

-----------------------------------------------------------------------------
\* The invariant holds before anything is connected.
LEMMA InitIInv == Init => IInv
<1> SUFFICES ASSUME Init PROVE IInv
  OBVIOUS
<1>1. conn \in Conns
  BY CountTyped DEF Init, Conns
<1>2. reader \in [at : Places, attempt : 0 .. MaxAttempts]
  BY ConnectionAssumption DEF Init, Places
<1>3. tasks \in Seq(Tasks)
  BY CallbackTasks DEF Init
<1>4. TypeOK
  BY <1>1, <1>2, <1>3 DEF Init, TypeOK
<1>5. /\ ~conn.running /\ ~conn.reconnecting /\ ~conn.serverShutdown /\ ~conn.invalidData
      /\ reader.at = "none" /\ ~returning
  BY DEF Init
<1>6. conn.invalidCount < MaxInvalid
  BY ConnectionAssumption DEF Init
<1> QED BY <1>4, <1>5, <1>6 DEF IInv, OneInside, ReconnectingHeld, RunningIsRead,
                               ServerEndsIt, AsksWithId, BelowLimit

\* The steps of the reader loop keep it.
LEMMA ReadingKeepsIInv ==
    ASSUME IInv,
           \/ Connect \/ ConnectFails \/ ReadValid \/ ReadWelcome \/ ReadInvalid
           \/ ReadShutdown \/ LoopStops \/ EndOfStream \/ ReadTimeout \/ ReadFails
    PROVE  IInv'
<1> USE CallbackTasks, QueueGrows, CountTyped
    DEF IInv, TypeOK, Conns, Places, OneInside, ReconnectingHeld, RunningIsRead,
        ServerEndsIt, AsksWithId, BelowLimit, ReaderOnly, At, Reads
<1>1. CASE Connect
  BY <1>1 DEF Connect
<1>2. CASE ConnectFails
  BY <1>2 DEF ConnectFails
<1>3. CASE ReadValid
  <2>1. conn' \in Conns /\ conn' = [conn EXCEPT !.invalidCount = 0]
    BY <1>3 DEF ReadValid
  <2> HIDE DEF Conns
  <2> QED BY <1>3, <2>1 DEF ReadValid
<1>4. CASE ReadWelcome
  <2>1. conn' \in Conns
    BY <1>4 DEF ReadWelcome
  <2>2. tasks' \in Seq(Tasks)
    BY <1>4 DEF ReadWelcome, Tasks
  <2> HIDE DEF Conns
  <2> QED BY <1>4, <2>1, <2>2 DEF ReadWelcome
<1>5. CASE ReadInvalid
  <2>1. conn.invalidCount \in Counts /\ conn.invalidCount < MaxInvalid
    BY <1>5 DEF ReadInvalid
  <2>2. conn.invalidCount + 1 \in Counts
    BY <2>1, CountTyped
  <2>3. CASE conn.invalidCount + 1 < MaxInvalid
    BY <1>5, <2>2, <2>3 DEF ReadInvalid
  <2>4. CASE ~(conn.invalidCount + 1 < MaxInvalid)
    <3>1. conn' = [conn EXCEPT !.invalidCount = conn.invalidCount + 1,
                               !.invalidData = TRUE, !.running = FALSE]
      BY <1>5, <2>4 DEF ReadInvalid
    <3>2. reader' = At("ending") /\ tasks' = tasks \o OnDisconnected
      BY <1>5, <2>4 DEF ReadInvalid
    <3> QED BY <1>5, <2>2, <3>1, <3>2 DEF ReadInvalid
  <2> QED BY <2>3, <2>4
<1>6. CASE ReadShutdown
  <2>1. /\ conn' \in Conns
        /\ ~conn'.running
        /\ conn'.reconnecting = conn.reconnecting
        /\ conn'.invalidCount = 0
    BY <1>6 DEF ReadShutdown
  <2>2. reader' = At("ending") /\ tasks' \in Seq(Tasks)
    BY <1>6 DEF ReadShutdown
  <2> HIDE DEF Conns
  <2> QED BY <1>6, <2>1, <2>2 DEF ReadShutdown
<1>7. CASE LoopStops
  BY <1>7 DEF LoopStops
<1>8. CASE EndOfStream
  BY <1>8 DEF EndOfStream
<1>9. CASE ReadTimeout
  BY <1>9 DEF ReadTimeout
<1>10. CASE ReadFails
  BY <1>10 DEF ReadFails
<1> QED BY <1>1, <1>2, <1>3, <1>4, <1>5, <1>6, <1>7, <1>8, <1>9, <1>10

\* The steps of the reconnect loop keep it.
LEMMA ReconnectKeepsIInv ==
    ASSUME IInv,
           \/ Finally \/ Ask \/ CannotAsk \/ AskFails \/ AlreadyConnected
           \/ SessionExpired \/ Welcomed \/ Resume \/ Return
    PROVE  IInv'
<1> USE CallbackTasks, QueueGrows, CountTyped
    DEF IInv, OneInside, ReconnectingHeld, RunningIsRead, ServerEndsIt, AsksWithId,
        BelowLimit, ReaderOnly
<1>1. CASE Finally
  <2>1. /\ conn' \in Conns
        /\ ~conn'.running
        /\ conn'.id = conn.id
        /\ conn'.reconnecting = conn.reconnecting
        /\ conn'.serverShutdown = conn.serverShutdown
        /\ conn'.invalidData = conn.invalidData
        /\ conn'.invalidCount = conn.invalidCount
    BY <1>1 DEF Finally, TypeOK, Conns
  <2>2. CASE Retries(conn) /\ ~conn.reconnecting
    <3>1. reader' = [at |-> "loop", attempt |-> 1] /\ tasks' = tasks \o OnError
      BY <1>1, <2>2 DEF Finally
    <3>2. reader' \in [at : Places, attempt : 0 .. MaxAttempts]
      BY <3>1, ConnectionAssumption DEF Places
    <3>3. ~returning /\ ~conn'.serverShutdown /\ ~conn'.invalidData
      BY <1>1, <2>1, <2>2 DEF Finally, Retries
    <3>4. tasks' \in Seq(Tasks)
      BY <3>1 DEF TypeOK
    <3> QED BY <1>1, <2>1, <2>2, <3>1, <3>2, <3>3, <3>4 DEF Finally, TypeOK
  <2>3. CASE ~(Retries(conn) /\ ~conn.reconnecting)
    BY <1>1, <2>1, <2>3 DEF Finally, At, TypeOK, Places
  <2> QED BY <2>2, <2>3
<1>2. CASE Ask
  BY <1>2 DEF Ask, Attempts, MayAsk, At, TypeOK, Conns, Places
<1>3. CASE CannotAsk
  BY <1>3, AttemptMovesOn DEF CannotAsk, Attempts, TypeOK, Conns
<1>4. CASE AskFails
  BY <1>4, AttemptMovesOn DEF AskFails, Refused, TypeOK, Conns
<1>5. CASE AlreadyConnected
  BY <1>5, AttemptMovesOn DEF AlreadyConnected, Refused, TypeOK, Conns
<1>6. CASE SessionExpired
  BY <1>6, AttemptMovesOn DEF SessionExpired, Refused, TypeOK, Conns
<1>7. CASE Welcomed
  BY <1>7 DEF Welcomed, At, TypeOK, Conns, Places
<1>8. CASE Resume
  <2>1. /\ conn' \in Conns
        /\ conn'.reconnecting = conn.reconnecting
        /\ conn'.serverShutdown = conn.serverShutdown
        /\ conn'.invalidData = conn.invalidData
        /\ conn'.invalidCount = conn.invalidCount
    BY <1>8 DEF Resume, TypeOK, Conns
  <2>2. reader'.at = "reading" /\ reader' \in [at : Places, attempt : 0 .. MaxAttempts]
    <3>1. 0 \in 0 .. MaxAttempts
      BY ConnectionAssumption
    <3> QED BY <1>8, <3>1 DEF Resume, Places
  <2>3. returning'
    BY <1>8 DEF Resume
  <2> QED BY <1>8, <2>1, <2>2, <2>3 DEF Resume, TypeOK
<1>9. CASE Return
  BY <1>9 DEF Return, TypeOK, Conns
<1> QED BY <1>1, <1>2, <1>3, <1>4, <1>5, <1>6, <1>7, <1>8, <1>9

\* The steps of the JavaFX thread, and of the network, keep it.
LEMMA ScreenKeepsIInv ==
    ASSUME IInv,
           RunTask \/ LoginDisconnects \/ UserDisconnects \/ LogInAgain \/ LinkDies
    PROVE  IInv'
<1> USE CallbackTasks, QueueGrows
    DEF IInv, TypeOK, OneInside, ReconnectingHeld, RunningIsRead,
        ServerEndsIt, AsksWithId, BelowLimit
<1>1. ASSUME NEW rest \in Seq(Tasks), Disconnect(rest),
             screen' \in {"login", "lobby", "again", "second"}
      PROVE  IInv'
  BY <1>1 DEF Disconnect, Conns
<1>2. CASE RunTask
  <2>1. Tail(tasks) \in Seq(Tasks)
    BY <1>2 DEF RunTask
  <2>2. CASE Head(tasks) = "loginError" /\ connected
    BY <1>1, <1>2, <2>1, <2>2 DEF RunTask
  <2>3. CASE ~(Head(tasks) = "loginError" /\ connected)
    <3>1. UNCHANGED <<conn, sock, reader, returning, quit>> /\ tasks' = Tail(tasks)
      BY <1>2, <2>3 DEF RunTask
    <3>2. connected' \in BOOLEAN /\ screen' \in {"login", "lobby", "again", "second"}
      BY <1>2, <2>3 DEF RunTask
    <3> QED BY <2>1, <3>1, <3>2
  <2> QED BY <2>2, <2>3
<1>3. CASE LoginDisconnects
  BY <1>1, <1>3 DEF LoginDisconnects
<1>4. CASE UserDisconnects
  BY <1>1, <1>4 DEF UserDisconnects
<1>5. CASE LogInAgain
  BY <1>5 DEF LogInAgain
<1>6. CASE LinkDies
  BY <1>6 DEF LinkDies
<1> QED BY <1>2, <1>3, <1>4, <1>5, <1>6

\* Every step keeps it.
LEMMA StepIInv == IInv /\ [Next]_vars => IInv'
<1> SUFFICES ASSUME IInv, [Next]_vars PROVE IInv'
  OBVIOUS
<1>1. CASE Next
  BY <1>1, ReadingKeepsIInv, ReconnectKeepsIInv, ScreenKeepsIInv DEF Next, ReaderGoesOn
<1>2. CASE UNCHANGED vars
  BY <1>2 DEF vars, IInv, TypeOK, OneInside, ReconnectingHeld, RunningIsRead,
             ServerEndsIt, AsksWithId, BelowLimit
<1> QED BY <1>1, <1>2

LEMMA AlwaysIInv == Spec => []IInv
BY InitIInv, StepIInv, PTL DEF Spec

-----------------------------------------------------------------------------
\* Flags and counters keep their types: the invalid lines counted never pass
\* the limit, nor the attempts theirs.
THEOREM ConnectionTypeCorrect == Spec => []TypeOK
<1>1. IInv => TypeOK
  BY DEF IInv
<1> QED BY <1>1, AlwaysIInv, PTL

\* `reconnecting' is held exactly while a thread is inside reconnect().
THEOREM ReconnectingAlwaysHeld == Spec => []ReconnectingHeld
<1>1. IInv => ReconnectingHeld
  BY DEF IInv
<1> QED BY <1>1, AlwaysIInv, PTL

\* The running flag is set only while a reader thread reads.
THEOREM RunningAlwaysRead == Spec => []RunningIsRead
<1>1. IInv => RunningIsRead
  BY DEF IInv
<1> QED BY <1>1, AlwaysIInv, PTL

\* A server that shut down or sent rubbish is never contacted again.
THEOREM ServerAlwaysEndsIt == Spec => []ServerEndsIt
<1>1. IInv => ServerEndsIt
  BY DEF IInv
<1> QED BY <1>1, AlwaysIInv, PTL

\* RECONNECT is sent only by a client that has an id.
THEOREM AlwaysAsksWithId == Spec => []AsksWithId
<1>1. IInv => AsksWithId
  BY DEF IInv
<1> QED BY <1>1, AlwaysIInv, PTL
=============================================================================

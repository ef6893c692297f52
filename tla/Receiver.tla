------------------------------ MODULE Receiver ------------------------------
(***************************************************************************)
(* How the handler threads receive (client_handler.c): lines are put       *)
(* together from whatever recv() returns, errors are counted, the third    *)
(* one closes the socket, and so does the cleanup.  The descriptors are    *)
(* those of the process: accept() takes the lowest free one.               *)
(*                                                                         *)
(* A message is a sequence of characters, and it is good or counted as an  *)
(* error.  A peer sends anything; what it sends is chosen when it is       *)
(* received.                                                               *)
(***************************************************************************)
EXTENDS Naturals, Sequences, FiniteSetsExt, Functions

CONSTANTS Clients,              \* the connections, each with its handler
          NULL,                 \* no connection
          Descriptors,          \* the descriptors accept() may return
          Letters, LF, CR,      \* the characters
          Commands,             \* the messages that are no error
          MAX_MESSAGE_LENGTH,
          MAX_ERROR_COUNT,
          MaxChunk,             \* bound: characters that one recv() returns
          MaxBytes              \* bound: characters received in all

ASSUME ReceiverAssumption ==
    /\ NULL \notin Clients
    /\ Descriptors # {} /\ Descriptors \subseteq Nat
    /\ LF # CR /\ {LF, CR} \cap Letters = {}
    /\ Commands \subseteq Seq(Letters)
    /\ MAX_MESSAGE_LENGTH \in Nat \ {0, 1} /\ MAX_ERROR_COUNT \in Nat \ {0}
    /\ MaxChunk \in Nat /\ MaxBytes \in Nat

VARIABLES
    thread,   \* where the handler of a client is
    fd,       \* client->socket_fd
    files,    \* the connection behind each open descriptor
    gone,     \* connections whose peer has closed, or that are shut down
    reader,   \* line_buffer, invalid_message_count, and the messages handled
    got       \* history: the characters a handler has received

vars == <<thread, fd, files, gone, reader, got>>

Characters == Letters \cup {LF, CR}

ReaderType == [line : Seq(Letters), count : Nat, handled : Seq(Seq(Letters))]

\* Every variable within its type, and room in line_buffer for the final 0.
TypeOK ==
    /\ thread \in [Clients -> {"none", "reading", "closing", "ended"}]
    /\ fd \in [Clients -> Descriptors]
    /\ files \in [Descriptors -> Clients \cup {NULL}]
    /\ gone \subseteq Clients
    /\ reader \in [Clients -> ReaderType]
    /\ \A c \in Clients : Len(reader[c].line) <= MAX_MESSAGE_LENGTH - 1
    /\ got \in [Clients -> Seq(Characters)]

Init ==
    /\ thread = [c \in Clients |-> "none"]
    /\ fd \in [Clients -> {Min(Descriptors)}]
    /\ files = [f \in Descriptors |-> NULL]
    /\ gone = {}
    /\ reader = [c \in Clients |-> [line |-> <<>>, count |-> 0, handled |-> <<>>]]
    /\ got = [c \in Clients |-> <<>>]

-----------------------------------------------------------------------------
(* The assembly of lines.  In `cut' it is noted that close() was called.   *)

SendErrorAndCount(r) ==
    [r EXCEPT !.count = @ + 1,
              !.cut   = @ \/ r.count + 1 >= MAX_ERROR_COUNT]

HandleMessage(r) ==
    LET done == [r EXCEPT !.handled = Append(@, r.line)]
    IN  IF r.line \in Commands THEN done ELSE SendErrorAndCount(done)

\* Mutant: one letter more is taken in.
TakeLetterLate(r, char) ==
    IF Len(r.line) <= MAX_MESSAGE_LENGTH - 1
    THEN [r EXCEPT !.line = Append(@, char)]
    ELSE [r EXCEPT !.line = <<>>, !.count = @ + 1]

\* Mutant: a line that is too long is not counted.
TakeLetterUncounted(r, char) ==
    [r EXCEPT !.line = IF Len(r.line) < MAX_MESSAGE_LENGTH - 1
                       THEN Append(@, char) ELSE <<>>]

TakeLetter(r, char) ==
    IF Len(r.line) < MAX_MESSAGE_LENGTH - 1
    THEN [r EXCEPT !.line = Append(@, char)]
    ELSE [r EXCEPT !.line = <<>>, !.count = @ + 1]

EndLine(r) ==
    [(IF r.line = <<>> THEN r ELSE HandleMessage(r)) EXCEPT !.line = <<>>]

TakeChar(r, char) ==
    CASE char = LF         -> EndLine(r)
      [] char = CR         -> r
      [] char \in Letters -> TakeLetter(r, char)

Open(r) == [line |-> r.line, count |-> r.count, handled |-> r.handled, cut |-> FALSE]

\* Mutant: every chunk begins a new line.
AssembleAfresh(r, chunk) ==
    LET after[i \in 0 .. Len(chunk)] ==
            IF i = 0 THEN [Open(r) EXCEPT !.line = <<>>]
            ELSE TakeChar(after[i - 1], chunk[i])
    IN  after[Len(chunk)]

Assemble(r, chunk) ==
    LET after[i \in 0 .. Len(chunk)] ==
            IF i = 0 THEN Open(r) ELSE TakeChar(after[i - 1], chunk[i])
    IN  after[Len(chunk)]

-----------------------------------------------------------------------------
(* The handler threads and the descriptors.                                *)

Free == {f \in Descriptors : files[f] = NULL}
Closed(f) == [files EXCEPT ![f] = NULL]
Received == SumFunction([c \in Clients |-> Len(got[c])])

\* accept() and the start of the handler.
Accept(c) ==
    /\ thread[c] = "none"
    /\ Free # {}
    /\ thread' = [thread EXCEPT ![c] = "reading"]
    /\ fd' = [fd EXCEPT ![c] = Min(Free)]
    /\ files' = [files EXCEPT ![Min(Free)] = c]
    /\ UNCHANGED <<gone, reader, got>>

\* recv() returns characters, and all of them are dealt with.
Recv(c) ==
    /\ thread[c] = "reading"
    /\ files[fd[c]] \notin gone \cup {NULL}
    /\ \E n \in 1 .. MaxChunk :
          /\ Received + n <= MaxBytes
          /\ \E chunk \in [1 .. n -> Characters] :
                LET r == Assemble(reader[c], chunk)
                IN  /\ reader' = [reader EXCEPT ![c] =
                                     [line |-> r.line, count |-> r.count,
                                      handled |-> r.handled]]
                    /\ got' = [got EXCEPT ![c] = @ \o chunk]
                    /\ files' = IF r.cut THEN Closed(fd[c]) ELSE files
    /\ UNCHANGED <<thread, fd, gone>>

\* The peer closes its connection.
Leave(c) ==
    /\ c \in {files[f] : f \in Descriptors} \ gone
    /\ gone' = gone \cup {c}
    /\ UNCHANGED <<thread, fd, files, reader, got>>

\* Mutant: the descriptor is closed here already.
RecvFailsClosing(c) ==
    /\ thread[c] = "reading"
    /\ files[fd[c]] \in gone \cup {NULL}
    /\ thread' = [thread EXCEPT ![c] = "closing"]
    /\ files' = Closed(fd[c])
    /\ UNCHANGED <<fd, gone, reader, got>>

\* recv() returns 0 or an error.
RecvFails(c) ==
    /\ thread[c] = "reading"
    /\ files[fd[c]] \in gone \cup {NULL}
    /\ thread' = [thread EXCEPT ![c] = "closing"]
    /\ UNCHANGED <<fd, files, gone, reader, got>>

\* The end of the cleanup of a client that is freed.
Close(c) ==
    /\ thread[c] = "closing"
    /\ thread' = [thread EXCEPT ![c] = "ended"]
    /\ files' = Closed(fd[c])
    /\ UNCHANGED <<fd, gone, reader, got>>

\* The cleanup of a client that is kept: its descriptor is shut down only.
Keep(c) ==
    /\ thread[c] = "closing"
    /\ thread' = [thread EXCEPT ![c] = "ended"]
    /\ gone' = gone \cup ({files[fd[c]]} \ {NULL})
    /\ UNCHANGED <<fd, files, reader, got>>

-----------------------------------------------------------------------------

Next ==
    \E c \in Clients : Accept(c) \/ Recv(c) \/ Leave(c) \/ RecvFails(c)
                       \/ Close(c) \/ Keep(c)

Spec == Init /\ [][Next]_vars

-----------------------------------------------------------------------------
(* What the messages in a sequence of characters are, without a reader: in *)
(* a line every MAX_MESSAGE_LENGTH letters are an overflow, and what is    *)
(* left of it is the message.                                              *)

Text(s) ==
    LET text[i \in 0 .. Len(s)] ==
            IF i = 0 THEN <<>>
            ELSE IF s[i] = CR THEN text[i - 1]
            ELSE Append(text[i - 1], s[i])
    IN  text[Len(s)]

Ends(t) == {i \in DOMAIN t : t[i] = LF}

\* The number of letters that precede place i in its line, and those of them
\* that are no part of an overflow.
Before(t, i) == i - 1 - Max({0} \cup {j \in Ends(t) : j < i})
Message(t, i) == SubSeq(t, i - (Before(t, i) % MAX_MESSAGE_LENGTH), i - 1)

\* The places where a message ends, and those where a line overflows.
Messages(t) == {i \in Ends(t) : Message(t, i) # <<>>}
Overflows(t) ==
    {i \in DOMAIN t \ Ends(t) :
        Before(t, i) % MAX_MESSAGE_LENGTH = MAX_MESSAGE_LENGTH - 1}

Upto(S, i) == {j \in S : j <= i}

-----------------------------------------------------------------------------
(* Properties.                                                             *)

\* The messages handled and the letters kept are those of the characters
\* received, however TCP has cut them into chunks.
HandledAsReceived ==
    \A c \in Clients :
        LET t == Text(got[c])
            r == reader[c]
        IN  /\ Len(r.handled) = Cardinality(Messages(t))
            /\ \A i \in Messages(t) :
                  r.handled[Cardinality(Upto(Messages(t), i))] = Message(t, i)
            /\ r.line = Message(t, Len(t) + 1)

\* Every message that is an error is counted, and every overflow of a line.
CountedAsReceived ==
    \A c \in Clients :
        LET t == Text(got[c])
        IN  reader[c].count =
                Cardinality({i \in Messages(t) : Message(t, i) \notin Commands})
                + Cardinality(Overflows(t))

\* As long as nobody has made MAX_ERROR_COUNT errors, a handler that has not
\* ended reads its own connection: the cleanup gives each descriptor back once,
\* though others are accepted meanwhile and take what is free.
DescriptorsApart ==
    (\A c \in Clients : reader[c].count < MAX_ERROR_COUNT) =>
        \A c \in Clients :
            thread[c] \in {"reading", "closing"} => files[fd[c]] = c

-----------------------------------------------------------------------------
(* Properties that the code does not have.                                 *)

\* A handler reads its own connection: a descriptor closed at the third error
\* is read once more, and closed once more, when it may be another's.
ReadsItsOwn ==
    \A c \in Clients :
        thread[c] \in {"reading", "closing"} => files[fd[c]] \in {c, NULL}

\* A client with MAX_ERROR_COUNT errors is cut off: overflows are counted
\* without a look at the limit.
ThreeErrorsCut ==
    \A c \in Clients :
        reader[c].count >= MAX_ERROR_COUNT /\ thread[c] = "reading" => files[fd[c]] # c

\* No descriptor is lost: that of a client that is kept is never closed.
DescriptorsReturned ==
    \A f \in Descriptors : files[f] # NULL => thread[files[f]] # "ended"
=============================================================================

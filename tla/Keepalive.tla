------------------------------ MODULE Keepalive ------------------------------
(***************************************************************************)
(* The clocks of one connection, second by second: the PING thread and the *)
(* timeout checker of the server (server.c), the read timeout and the      *)
(* reconnect attempts of the client (ClientConnection.java), and a network *)
(* that delays messages and may fail once for a while.  The client plays a *)
(* game against one rival, so the server keeps it for a reconnect.  What   *)
(* else either side does is the subject of Rooms and of ClientConnection.  *)
(*                                                                         *)
(* Time passes by Tick only, and no thread lets its second pass unused.    *)
(* TCP keeps what is sent during an outage and delivers it afterwards.     *)
(***************************************************************************)
EXTENDS Integers

CONSTANTS
    MinDelay, MaxDelay,  \* seconds a message takes, one way
    MaxOutage,           \* bound: seconds the network can be gone, 0 for never
    ConnectFailures      \* seconds until connect() fails, up to CONNECTION_TIMEOUT_MS

ASSUME KeepaliveAssumption ==
    /\ MinDelay \in Nat /\ MaxDelay \in Nat /\ MinDelay <= MaxDelay
    /\ MaxOutage \in Nat
    /\ ConnectFailures \subseteq 0 .. 5 /\ ConnectFailures # {}

\* protocol.h and the sleeps of server.c.
PONG_TIMEOUT == 5
PONG_WAIT_INTERVAL == 5
RECONNECT_TIMEOUT == 90
CheckPeriod == 5

\* ProtocolConstants.java.
READ_TIMEOUT == 15
RECONNECT_INTERVAL == 10
MAX_RECONNECT_ATTEMPTS == 7

None == -1

VARIABLES
    session,    \* the server's client_t: connected, waiting for a reconnect, freed
    pinger,     \* the PING thread: due this second; PING sent, flag not yet set
    phase,      \* seconds to the next round of the checker; None once it is done
    client,     \* the ClientConnection, and its clocks
    wire,       \* age of what is under way: PING, PONG, a close from either side
    network     \* up or down, and for how many seconds it has been down in all

vars == <<session, pinger, phase, client, wire, network>>

Ages(n) == 0 .. n

\* Every clock stays within the deadline that stops or resets it.
TypeOK ==
    /\ session \in [state : {"connected", "waiting", "freed"}, awaiting : BOOLEAN,
                    pongAge : Ages(PONG_WAIT_INTERVAL), pingAge : Ages(PONG_TIMEOUT + 1),
                    downAge : Ages(RECONNECT_TIMEOUT + CheckPeriod)]
    /\ pinger \in {"due", "sent", "done"}
    /\ phase \in {None} \cup 0 .. CheckPeriod - 1
    /\ client \in [state : {"online", "trying", "refused", "expired", "gaveUp"},
                   silent : Ages(READ_TIMEOUT), wait : 0 .. RECONNECT_INTERVAL + 5,
                   attempt : 0 .. MAX_RECONNECT_ATTEMPTS, tried : Nat]
    /\ wire \in [{"ping", "pong", "fin", "eof"} -> {None} \cup Ages(MaxDelay)]
    /\ network \in [up : BOOLEAN, outage : Ages(MaxOutage)]

Connected == [state |-> "connected", awaiting |-> FALSE,
              pongAge |-> 0, pingAge |-> 0, downAge |-> 0]

Online == [state |-> "online", silent |-> 0, wait |-> 0, attempt |-> 0, tried |-> 0]

Quiet == [m \in {"ping", "pong", "fin", "eof"} |-> None]

Init ==
    /\ session = Connected
    /\ pinger = "due"
    /\ phase \in 0 .. CheckPeriod - 1
    /\ client = Online
    /\ wire = Quiet
    /\ network = [up |-> TRUE, outage |-> 0]

-----------------------------------------------------------------------------
(* The network.                                                             *)

Arrives(m) == network.up /\ wire[m] >= MinDelay

LinkFails ==
    /\ network.up /\ network.outage = 0 /\ MaxOutage > 0
    /\ network' = [network EXCEPT !.up = FALSE]
    /\ UNCHANGED <<session, pinger, phase, client, wire>>

LinkReturns ==
    /\ ~network.up /\ network.outage > 0
    /\ network' = [network EXCEPT !.up = TRUE]
    /\ UNCHANGED <<session, pinger, phase, client, wire>>

-----------------------------------------------------------------------------
(* The PING thread, once a second.  The flag is set after the PING is out.  *)

\* Mutant: the PING thread does not wait for the answer.
MayPingAgain ==
    session.state = "connected" /\ session.pongAge >= PONG_WAIT_INTERVAL

MayPing ==
    session.state = "connected" /\ ~session.awaiting
    /\ session.pongAge >= PONG_WAIT_INTERVAL

SendPing ==
    /\ pinger = "due"
    /\ IF MayPing
       THEN /\ wire' = [wire EXCEPT !["ping"] = 0]
            /\ pinger' = "sent"
       ELSE /\ pinger' = "done"
            /\ UNCHANGED wire
    /\ UNCHANGED <<session, phase, client, network>>

MarkPing ==
    /\ pinger = "sent"
    /\ session' = [session EXCEPT !.awaiting = TRUE, !.pingAge = 0]
    /\ pinger' = "done"
    /\ UNCHANGED <<phase, client, wire, network>>

-----------------------------------------------------------------------------
(* The handler thread: handle_pong, and the cleanup at the client's close.  *)

\* Mutant: waiting_for_pong is not reset.
AfterPongAwaiting == [session EXCEPT !.pongAge = 0]

AfterPong == [session EXCEPT !.pongAge = 0, !.awaiting = FALSE]

ReceivePong ==
    /\ Arrives("pong")
    /\ wire' = [wire EXCEPT !["pong"] = None]
    /\ session' = IF session.state = "connected" THEN AfterPong ELSE session
    /\ UNCHANGED <<pinger, phase, client, network>>

\* The client is kept, and its time starts.
Kept == [session EXCEPT !.state = "waiting", !.downAge = 0]

ReceiveFin ==
    /\ Arrives("fin")
    /\ wire' = [wire EXCEPT !["fin"] = None]
    /\ session' = IF session.state = "connected" THEN Kept ELSE session
    /\ UNCHANGED <<pinger, phase, client, network>>

-----------------------------------------------------------------------------
(* The timeout checker, every CheckPeriod seconds.                          *)

PongTimedOut ==
    session.state = "connected" /\ session.awaiting /\ session.pingAge > PONG_TIMEOUT

\* Mutant: RECONNECT_TIMEOUT is compared with the wrong clock.
ReconnectTimedOutEarly ==
    session.state = "waiting" /\ session.downAge > RECONNECT_INTERVAL

ReconnectTimedOut ==
    session.state = "waiting" /\ session.downAge > RECONNECT_TIMEOUT

CutOff == [wire EXCEPT !["eof"] = 0]

Check ==
    /\ phase = 0
    /\ phase' = None
    /\ session' = IF PongTimedOut THEN Kept
                  ELSE IF ReconnectTimedOut THEN [session EXCEPT !.state = "freed"]
                  ELSE session
    /\ wire' = IF PongTimedOut THEN CutOff ELSE wire
    /\ UNCHANGED <<pinger, client, network>>

-----------------------------------------------------------------------------
(* The client: readerLoop and its reconnect loop.                           *)

ReceivePing ==
    /\ client.state = "online" /\ Arrives("ping")
    /\ client' = [client EXCEPT !.silent = 0]
    /\ wire' = [wire EXCEPT !["ping"] = None, !["pong"] = 0]
    /\ UNCHANGED <<session, pinger, phase, network>>

Trying == [client EXCEPT !.state = "trying", !.attempt = 1, !.wait = 0, !.silent = 0]

\* The server's close, read after what it had sent before.
ReceiveEof ==
    /\ client.state = "online" /\ Arrives("eof") /\ wire["ping"] = None
    /\ client' = Trying
    /\ wire' = [wire EXCEPT !["eof"] = None]
    /\ UNCHANGED <<session, pinger, phase, network>>

\* Mutant: the old socket is not closed.
ClosedSilently == [wire EXCEPT !["ping"] = None, !["eof"] = None]

\* cleanup(): what the server still sends is lost, and it sees the close.
Closed == [wire EXCEPT !["ping"] = None, !["eof"] = None, !["fin"] = 0]

ReadTimeout ==
    /\ client.state = "online" /\ client.silent = READ_TIMEOUT
    /\ client' = Trying
    /\ wire' = Closed
    /\ UNCHANGED <<session, pinger, phase, network>>

\* Mutant: one attempt more than allowed.
FailedOnceMore(d) ==
    IF client.attempt <= MAX_RECONNECT_ATTEMPTS
    THEN [client EXCEPT !.attempt = @ + 1, !.wait = d + RECONNECT_INTERVAL]
    ELSE [client EXCEPT !.state = "gaveUp"]

\* reconnect() has failed after d seconds.
Failed(d) ==
    IF client.attempt < MAX_RECONNECT_ATTEMPTS
    THEN [client EXCEPT !.attempt = @ + 1, !.wait = d + RECONNECT_INTERVAL]
    ELSE [client EXCEPT !.state = "gaveUp"]

Attempts == client.state = "trying" /\ client.wait = 0

CannotConnect ==
    /\ Attempts /\ ~network.up
    /\ \E d \in ConnectFailures : client' = Failed(d)
    /\ UNCHANGED <<session, pinger, phase, wire, network>>

\* handle_reconnect answers, in the same second.
Reconnect ==
    /\ Attempts /\ network.up
    /\ \/ /\ session.state = "connected"
          /\ client' = [client EXCEPT !.state = "refused"]
          /\ UNCHANGED <<session, wire>>
       \/ /\ session.state = "waiting" /\ session.downAge <= RECONNECT_TIMEOUT
          /\ session' = Connected
          /\ client' = Online
          /\ wire' = Quiet
       \/ /\ session.state = "waiting" /\ session.downAge > RECONNECT_TIMEOUT
          /\ client' = Failed(0)
          /\ UNCHANGED <<session, wire>>
       \/ /\ session.state = "freed"
          /\ client' = [client EXCEPT !.state = "expired"]
          /\ UNCHANGED <<session, wire>>
    /\ UNCHANGED <<pinger, phase, network>>

-----------------------------------------------------------------------------
(* Time.                                                                    *)

Over == client.state \in {"refused", "expired", "gaveUp"}

\* What has to happen before the second is over.  Once the client has told
\* the user that it is over, time stops.
Urgent ==
    \/ pinger # "done" \/ phase = 0
    \/ network.up /\ \E m \in DOMAIN wire : wire[m] = MaxDelay
    \/ client.state = "online" /\ client.silent = READ_TIMEOUT
    \/ Attempts
    \/ ~network.up /\ network.outage = MaxOutage

Older(age, limit) == IF age < limit THEN age + 1 ELSE limit

Tick ==
    /\ ~Over /\ ~Urgent
    /\ session' = [session EXCEPT
                       !.pongAge = Older(@, PONG_WAIT_INTERVAL),
                       !.pingAge = Older(@, PONG_TIMEOUT + 1),
                       !.downAge = IF session.state = "waiting" THEN @ + 1 ELSE @]
    /\ pinger' = "due"
    /\ phase' = IF phase = None THEN CheckPeriod - 1 ELSE phase - 1
    /\ client' = [client EXCEPT
                      !.silent = IF client.state = "online" THEN @ + 1 ELSE @,
                      !.wait = IF @ > 0 THEN @ - 1 ELSE 0,
                      !.tried = IF client.state = "trying" THEN @ + 1 ELSE @]
    /\ wire' = [m \in DOMAIN wire |->
                   IF wire[m] = None \/ ~network.up THEN wire[m] ELSE wire[m] + 1]
    /\ network' = [network EXCEPT !.outage = IF network.up THEN @ ELSE @ + 1]

Next ==
    \/ SendPing \/ MarkPing
    \/ ReceivePong \/ ReceiveFin
    \/ Check
    \/ ReceivePing \/ ReceiveEof \/ ReadTimeout \/ CannotConnect \/ Reconnect
    \/ LinkFails \/ LinkReturns
    \/ Tick

Spec == Init /\ [][Next]_vars

-----------------------------------------------------------------------------
(* Properties.                                                              *)

\* As long as the network never fails, neither side takes the other for
\* lost: a PONG is back before PONG_TIMEOUT and a PING before the read
\* timeout, whenever the three clocks start.
HealthyStays ==
    network.up /\ network.outage = 0
        => session.state = "connected" /\ client.state = "online"

\* A dead network is noticed: by the server after one PING interval, one PONG
\* timeout and one round of its checker, by the client after READ_TIMEOUT.
LossNoticed ==
    ~network.up =>
        /\ network.outage > PONG_WAIT_INTERVAL + PONG_TIMEOUT + CheckPeriod
              => session.state # "connected"
        /\ network.outage > READ_TIMEOUT => client.state # "online"

\* A lost client is kept for RECONNECT_TIMEOUT seconds, and for no more than
\* a round of the checker longer.
KeptNinetySeconds ==
    /\ session.state = "freed" => session.downAge > RECONNECT_TIMEOUT
    /\ session.downAge <= RECONNECT_TIMEOUT + CheckPeriod

\* Neither side goes on alone for long: where one has closed the connection,
\* the other is about to read of it or the network is down.
NoHalfOpen ==
    /\ client.state = "online" /\ session.state # "connected"
          => ~network.up \/ wire["eof"] # None
    /\ client.state = "trying" /\ session.state = "connected"
          => ~network.up \/ wire["fin"] # None

\* The timeout checker looks for "clients that haven't responded to PING":
\* a client that answers each one is not marked.  A PONG that is handled
\* before waiting_for_pong = 1 is forgotten, though.
AnsweringClientKept ==
    network.up /\ network.outage = 0 => session.state = "connected"

\* An outage of less than 90 seconds is bridged by automatic reconnect: the
\* server never answers "already connected" to a client that has lost it.
ShortOutageBridged == client.state = "refused" => network.outage >= RECONNECT_TIMEOUT

\* Seven attempts every ten seconds make seventy seconds.
SeventySecondsTried == client.state = "gaveUp" => client.tried >= 70
=============================================================================

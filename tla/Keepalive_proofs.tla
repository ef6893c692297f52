-------------------------- MODULE Keepalive_proofs --------------------------
(***************************************************************************)
(* The clocks of module Keepalive, for messages of any delay and an outage *)
(* of any length: how soon either side notices a dead network, how long a  *)
(* session is kept, and that neither side goes on alone.                   *)
(***************************************************************************)
EXTENDS Keepalive, TLAPS

\* Seconds to the next round of the checker.
ToCheck == IF phase = None THEN CheckPeriod ELSE phase

\* The time of a lost client ends in the first round after RECONNECT_TIMEOUT.
Kept90 ==
    /\ session.state = "connected" => session.downAge = 0
    /\ session.state = "waiting" =>
          session.downAge + ToCheck <= RECONNECT_TIMEOUT + CheckPeriod
    /\ session.state = "freed" => session.downAge > RECONNECT_TIMEOUT

\* Whoever closes the connection first, its close is under way until the other
\* side has read it or given up too.
Closes ==
    /\ client.state = "online" => wire["fin"] = None
    /\ wire["eof"] # None => session.state # "connected"
    /\ client.state = "online" /\ session.state # "connected" => wire["eof"] # None
    /\ client.state = "trying" /\ session.state = "connected" => wire["fin"] # None

\* Once the PING thread has been awake, a PING is under way or not yet due; and
\* it sends none while another is.
PingsInTime ==
    /\ session.state = "connected" /\ ~session.awaiting /\ pinger = "done"
          => session.pongAge < PONG_WAIT_INTERVAL
    /\ pinger = "sent" => ~session.awaiting

\* Seconds of the outage that the server's clocks have not counted: a PING
\* interval at most before the PING, and the rest since; and when the checker
\* will look at them.
ServerNotices ==
    ~network.up /\ session.state = "connected" =>
        /\ ~session.awaiting =>
              /\ network.outage <= PONG_WAIT_INTERVAL
              /\ session.pongAge >= network.outage
        /\ session.awaiting =>
              \/ session.pingAge = PONG_TIMEOUT + 1
              \/ session.pingAge + PONG_WAIT_INTERVAL >= network.outage
        /\ network.outage + ToCheck <= PONG_WAIT_INTERVAL + PONG_TIMEOUT + CheckPeriod

\* Nothing arrives during the outage.
ClientNotices ==
    ~network.up /\ client.state = "online" => client.silent >= network.outage

\* The inductive invariant.
ClockInv ==
    TypeOK /\ Kept90 /\ Closes /\ PingsInTime /\ ServerNotices /\ ClientNotices

-----------------------------------------------------------------------------
(* Types.                                                                  *)

States == {"connected", "waiting", "freed"}
SessionType ==
    [state : States, awaiting : BOOLEAN,
     pongAge : Ages(PONG_WAIT_INTERVAL), pingAge : Ages(PONG_TIMEOUT + 1),
     downAge : Ages(RECONNECT_TIMEOUT + CheckPeriod)]

ClientStates == {"online", "trying", "refused", "expired", "gaveUp"}
Waits == 0 .. RECONNECT_INTERVAL + 5
Tries == 0 .. MAX_RECONNECT_ATTEMPTS
ClientType ==
    [state : ClientStates, silent : Ages(READ_TIMEOUT), wait : Waits,
     attempt : Tries, tried : Nat]

WireType == [{"ping", "pong", "fin", "eof"} -> {None} \cup Ages(MaxDelay)]

LEMMA Typed ==
    TypeOK <=> /\ session \in SessionType
               /\ pinger \in {"due", "sent", "done"}
               /\ phase \in {None} \cup 0 .. CheckPeriod - 1
               /\ client \in ClientType
               /\ wire \in WireType
               /\ network \in [up : BOOLEAN, outage : Ages(MaxOutage)]
BY DEF TypeOK, SessionType, States, ClientType, ClientStates, Waits, Tries, WireType

USE DEF PONG_TIMEOUT, PONG_WAIT_INTERVAL, RECONNECT_TIMEOUT, CheckPeriod,
        READ_TIMEOUT, RECONNECT_INTERVAL, MAX_RECONNECT_ATTEMPTS, None

\* The fields of a session that the actions set, and what they set them to.
LEMMA SessionSet ==
    ASSUME NEW s \in SessionType
    PROVE  /\ \A st \in States : [s EXCEPT !.state = st] \in SessionType
           /\ \A st \in States, down \in Ages(RECONNECT_TIMEOUT + CheckPeriod) :
                 [s EXCEPT !.state = st, !.downAge = down] \in SessionType
           /\ \A b \in BOOLEAN, ping \in Ages(PONG_TIMEOUT + 1) :
                 [s EXCEPT !.awaiting = b, !.pingAge = ping] \in SessionType
           /\ \A b \in BOOLEAN, pong \in Ages(PONG_WAIT_INTERVAL) :
                 [s EXCEPT !.pongAge = pong, !.awaiting = b] \in SessionType
           /\ \A pong \in Ages(PONG_WAIT_INTERVAL), ping \in Ages(PONG_TIMEOUT + 1),
                 down \in Ages(RECONNECT_TIMEOUT + CheckPeriod) :
                 [s EXCEPT !.pongAge = pong, !.pingAge = ping, !.downAge = down]
                    \in SessionType
BY DEF SessionType, Ages, States

LEMMA ClientSet ==
    ASSUME NEW k \in ClientType
    PROVE  /\ \A st \in ClientStates : [k EXCEPT !.state = st] \in ClientType
           /\ \A s \in Ages(READ_TIMEOUT) : [k EXCEPT !.silent = s] \in ClientType
           /\ \A n \in Tries, w \in Waits :
                 [k EXCEPT !.attempt = n, !.wait = w] \in ClientType
           /\ \A s \in Ages(READ_TIMEOUT), w \in Waits, t \in Nat :
                 [k EXCEPT !.silent = s, !.wait = w, !.tried = t] \in ClientType
           /\ \A st \in ClientStates, n \in Tries, w \in Waits, s \in Ages(READ_TIMEOUT) :
                 [k EXCEPT !.state = st, !.attempt = n, !.wait = w, !.silent = s]
                    \in ClientType
BY DEF ClientType, Ages, ClientStates, Waits, Tries

LEMMA Constants ==
    /\ States = {"connected", "waiting", "freed"}
    /\ ClientStates = {"online", "trying", "refused", "expired", "gaveUp"}
    /\ 0 \in Ages(PONG_WAIT_INTERVAL) /\ 0 \in Ages(PONG_TIMEOUT + 1)
    /\ 0 \in Ages(RECONNECT_TIMEOUT + CheckPeriod) /\ 0 \in Ages(READ_TIMEOUT)
    /\ 0 \in Waits /\ 1 \in Tries
BY DEF Ages, States, ClientStates, Waits, Tries

LEMMA Values ==
    ASSUME session \in SessionType, client \in ClientType
    PROVE  /\ Kept \in SessionType
           /\ AfterPong \in SessionType
           /\ Connected \in SessionType
           /\ Trying \in ClientType
           /\ Online \in ClientType
           /\ \A d \in 0 .. 5 : Failed(d) \in ClientType
<1>1. Kept \in SessionType
  BY SessionSet, Constants DEF Kept
<1>2. AfterPong \in SessionType
  BY SessionSet, Constants DEF AfterPong
<1>3. Connected \in SessionType /\ Online \in ClientType
  BY DEF SessionType, States, Ages, Connected, ClientType, ClientStates, Waits, Tries, Online
<1>4. Trying \in ClientType
  BY ClientSet, Constants DEF Trying
<1>5. ASSUME NEW d \in 0 .. 5 PROVE Failed(d) \in ClientType
  <2>1. CASE client.attempt < MAX_RECONNECT_ATTEMPTS
    <3> DEFINE n == client.attempt + 1
               w == d + RECONNECT_INTERVAL
    <3>1. n \in Tries /\ w \in Waits
      BY <2>1 DEF ClientType, Tries, Waits
    <3>2. Failed(d) = [client EXCEPT !.attempt = n, !.wait = w]
      BY <2>1 DEF Failed
    <3>3. [client EXCEPT !.attempt = n, !.wait = w] \in ClientType
      BY <3>1, ClientSet
    <3> QED
      BY <3>2, <3>3
  <2>2. CASE ~(client.attempt < MAX_RECONNECT_ATTEMPTS)
    BY <2>2, ClientSet, Constants DEF Failed
  <2> QED
    BY <2>1, <2>2
<1> QED
  BY <1>1, <1>2, <1>3, <1>4, <1>5

-----------------------------------------------------------------------------
(* Every action preserves the invariant.                                   *)

LEMMA LinkFailsInv == ClockInv /\ LinkFails => ClockInv'
<1> SUFFICES ASSUME ClockInv, LinkFails PROVE ClockInv'
  OBVIOUS
<1>1. TypeOK'
  <2> USE Typed DEF ClockInv
  <2>1. session' \in SessionType
    BY DEF LinkFails
  <2>2. /\ pinger' \in {"due", "sent", "done"}
        /\ phase' \in {None} \cup 0 .. CheckPeriod - 1
    BY DEF LinkFails
  <2>3. client' \in ClientType
    BY DEF LinkFails
  <2>4. wire' \in WireType
    BY KeepaliveAssumption DEF LinkFails, WireType, Ages
  <2>5. network' \in [up : BOOLEAN, outage : Ages(MaxOutage)]
    BY KeepaliveAssumption DEF LinkFails, Ages
  <2> QED
    BY <2>1, <2>2, <2>3, <2>4, <2>5
    DEF TypeOK, SessionType, States, ClientType, ClientStates, Waits, Tries, WireType
<1> USE KeepaliveAssumption DEF ClockInv, LinkFails
<1>2. Kept90'
  BY DEF Kept90, ToCheck, TypeOK, Ages
<1>3. Closes'
  BY DEF Closes, TypeOK, Ages
<1>4. PingsInTime'
  BY DEF PingsInTime, TypeOK, Ages
<1>5. ServerNotices'
  BY DEF ServerNotices, PingsInTime, ToCheck, TypeOK, Ages
<1>6. ClientNotices'
  BY DEF ClientNotices, TypeOK, Ages
<1> QED
  BY <1>1, <1>2, <1>3, <1>4, <1>5, <1>6

LEMMA LinkReturnsInv == ClockInv /\ LinkReturns => ClockInv'
<1> SUFFICES ASSUME ClockInv, LinkReturns PROVE ClockInv'
  OBVIOUS
<1>1. TypeOK'
  <2> USE Typed DEF ClockInv
  <2>1. session' \in SessionType
    BY DEF LinkReturns
  <2>2. /\ pinger' \in {"due", "sent", "done"}
        /\ phase' \in {None} \cup 0 .. CheckPeriod - 1
    BY DEF LinkReturns
  <2>3. client' \in ClientType
    BY DEF LinkReturns
  <2>4. wire' \in WireType
    BY KeepaliveAssumption DEF LinkReturns, WireType, Ages
  <2>5. network' \in [up : BOOLEAN, outage : Ages(MaxOutage)]
    BY KeepaliveAssumption DEF LinkReturns, Ages
  <2> QED
    BY <2>1, <2>2, <2>3, <2>4, <2>5
    DEF TypeOK, SessionType, States, ClientType, ClientStates, Waits, Tries, WireType
<1> USE KeepaliveAssumption DEF ClockInv, LinkReturns
<1>2. Kept90'
  BY DEF Kept90, ToCheck, TypeOK, Ages
<1>3. Closes'
  BY DEF Closes, TypeOK, Ages
<1>4. PingsInTime'
  BY DEF PingsInTime, TypeOK, Ages
<1>5. ServerNotices'
  BY DEF ServerNotices, PingsInTime, ToCheck, TypeOK, Ages
<1>6. ClientNotices'
  BY DEF ClientNotices, TypeOK, Ages
<1> QED
  BY <1>1, <1>2, <1>3, <1>4, <1>5, <1>6

LEMMA SendPingInv == ClockInv /\ SendPing => ClockInv'
<1> SUFFICES ASSUME ClockInv, SendPing PROVE ClockInv'
  OBVIOUS
<1>1. TypeOK'
  <2> USE Typed DEF ClockInv
  <2>1. session' \in SessionType
    BY DEF SendPing
  <2>2. /\ pinger' \in {"due", "sent", "done"}
        /\ phase' \in {None} \cup 0 .. CheckPeriod - 1
    BY DEF SendPing
  <2>3. client' \in ClientType
    BY DEF SendPing
  <2>4. wire' \in WireType
    BY KeepaliveAssumption DEF SendPing, MayPing, WireType, Ages
  <2>5. network' \in [up : BOOLEAN, outage : Ages(MaxOutage)]
    BY KeepaliveAssumption DEF SendPing, Ages
  <2> QED
    BY <2>1, <2>2, <2>3, <2>4, <2>5
    DEF TypeOK, SessionType, States, ClientType, ClientStates, Waits, Tries, WireType
<1> USE KeepaliveAssumption DEF ClockInv, SendPing, MayPing
<1>2. Kept90'
  BY DEF Kept90, ToCheck, TypeOK, Ages
<1>3. Closes'
  BY DEF Closes, TypeOK, Ages
<1>4. PingsInTime'
  BY DEF PingsInTime, TypeOK, Ages
<1>5. ServerNotices'
  BY DEF ServerNotices, PingsInTime, ToCheck, TypeOK, Ages
<1>6. ClientNotices'
  BY DEF ClientNotices, TypeOK, Ages
<1> QED
  BY <1>1, <1>2, <1>3, <1>4, <1>5, <1>6

LEMMA MarkPingInv == ClockInv /\ MarkPing => ClockInv'
<1> SUFFICES ASSUME ClockInv, MarkPing PROVE ClockInv'
  OBVIOUS
<1>1. TypeOK'
  <2> USE Typed DEF ClockInv
  <2>1. session' \in SessionType
    BY SessionSet, Constants DEF MarkPing
  <2>2. /\ pinger' \in {"due", "sent", "done"}
        /\ phase' \in {None} \cup 0 .. CheckPeriod - 1
    BY DEF MarkPing
  <2>3. client' \in ClientType
    BY DEF MarkPing
  <2>4. wire' \in WireType
    BY KeepaliveAssumption DEF MarkPing, WireType, Ages
  <2>5. network' \in [up : BOOLEAN, outage : Ages(MaxOutage)]
    BY KeepaliveAssumption DEF MarkPing, Ages
  <2> QED
    BY <2>1, <2>2, <2>3, <2>4, <2>5
    DEF TypeOK, SessionType, States, ClientType, ClientStates, Waits, Tries, WireType
<1> USE KeepaliveAssumption DEF ClockInv, MarkPing
<1>2. Kept90'
  BY DEF Kept90, ToCheck, TypeOK, Ages
<1>3. Closes'
  BY DEF Closes, TypeOK, Ages
<1>4. PingsInTime'
  BY DEF PingsInTime, TypeOK, Ages
<1>5. ServerNotices'
  <2>1. /\ session'.state = session.state /\ session'.awaiting
        /\ session'.pingAge = 0
        /\ UNCHANGED <<network, phase>>
    BY DEF TypeOK
  <2>2. ~session.awaiting
    BY DEF PingsInTime
  <2> QED
    BY <2>1, <2>2 DEF ServerNotices, ToCheck, TypeOK, Ages
<1>6. ClientNotices'
  BY DEF ClientNotices, TypeOK, Ages
<1> QED
  BY <1>1, <1>2, <1>3, <1>4, <1>5, <1>6

LEMMA ReceivePongInv == ClockInv /\ ReceivePong => ClockInv'
<1> SUFFICES ASSUME ClockInv, ReceivePong PROVE ClockInv'
  OBVIOUS
<1>1. TypeOK'
  <2> USE Typed DEF ClockInv
  <2>1. session' \in SessionType
    BY Values DEF ReceivePong
  <2>2. /\ pinger' \in {"due", "sent", "done"}
        /\ phase' \in {None} \cup 0 .. CheckPeriod - 1
    BY DEF ReceivePong
  <2>3. client' \in ClientType
    BY DEF ReceivePong
  <2>4. wire' \in WireType
    BY KeepaliveAssumption DEF ReceivePong, AfterPong, Arrives, WireType, Ages
  <2>5. network' \in [up : BOOLEAN, outage : Ages(MaxOutage)]
    BY KeepaliveAssumption DEF ReceivePong, Ages
  <2> QED
    BY <2>1, <2>2, <2>3, <2>4, <2>5
    DEF TypeOK, SessionType, States, ClientType, ClientStates, Waits, Tries, WireType
<1> USE KeepaliveAssumption DEF ClockInv, ReceivePong, AfterPong, Arrives
<1>2. Kept90'
  BY DEF Kept90, ToCheck, TypeOK, Ages
<1>3. Closes'
  BY DEF Closes, TypeOK, Ages
<1>4. PingsInTime'
  BY DEF PingsInTime, TypeOK, Ages
<1>5. ServerNotices'
  BY DEF ServerNotices, PingsInTime, ToCheck, TypeOK, Ages
<1>6. ClientNotices'
  BY DEF ClientNotices, TypeOK, Ages
<1> QED
  BY <1>1, <1>2, <1>3, <1>4, <1>5, <1>6

LEMMA ReceiveFinInv == ClockInv /\ ReceiveFin => ClockInv'
<1> SUFFICES ASSUME ClockInv, ReceiveFin PROVE ClockInv'
  OBVIOUS
<1>1. TypeOK'
  <2> USE Typed DEF ClockInv
  <2>1. session' \in SessionType
    BY Values DEF ReceiveFin
  <2>2. /\ pinger' \in {"due", "sent", "done"}
        /\ phase' \in {None} \cup 0 .. CheckPeriod - 1
    BY DEF ReceiveFin
  <2>3. client' \in ClientType
    BY DEF ReceiveFin
  <2>4. wire' \in WireType
    BY KeepaliveAssumption DEF ReceiveFin, Kept, Arrives, WireType, Ages
  <2>5. network' \in [up : BOOLEAN, outage : Ages(MaxOutage)]
    BY KeepaliveAssumption DEF ReceiveFin, Ages
  <2> QED
    BY <2>1, <2>2, <2>3, <2>4, <2>5
    DEF TypeOK, SessionType, States, ClientType, ClientStates, Waits, Tries, WireType
<1> USE KeepaliveAssumption DEF ClockInv, ReceiveFin, Kept, Arrives
<1>2. Kept90'
  BY DEF Kept90, ToCheck, TypeOK, Ages
<1>3. Closes'
  BY DEF Closes, TypeOK, Ages
<1>4. PingsInTime'
  BY DEF PingsInTime, TypeOK, Ages
<1>5. ServerNotices'
  BY DEF ServerNotices, PingsInTime, ToCheck, TypeOK, Ages
<1>6. ClientNotices'
  BY DEF ClientNotices, TypeOK, Ages
<1> QED
  BY <1>1, <1>2, <1>3, <1>4, <1>5, <1>6

LEMMA CheckInv == ClockInv /\ Check => ClockInv'
<1> SUFFICES ASSUME ClockInv, Check PROVE ClockInv'
  OBVIOUS
<1>1. TypeOK'
  <2> USE Typed DEF ClockInv
  <2>1. session' \in SessionType
    BY SessionSet, Constants, Values DEF Check
  <2>2. /\ pinger' \in {"due", "sent", "done"}
        /\ phase' \in {None} \cup 0 .. CheckPeriod - 1
    BY DEF Check
  <2>3. client' \in ClientType
    BY DEF Check
  <2>4. wire' \in WireType
    BY KeepaliveAssumption DEF Check, PongTimedOut, ReconnectTimedOut, CutOff, Kept, WireType, Ages
  <2>5. network' \in [up : BOOLEAN, outage : Ages(MaxOutage)]
    BY KeepaliveAssumption DEF Check, Ages
  <2> QED
    BY <2>1, <2>2, <2>3, <2>4, <2>5
    DEF TypeOK, SessionType, States, ClientType, ClientStates, Waits, Tries, WireType
<1> USE KeepaliveAssumption DEF ClockInv, Check, PongTimedOut, ReconnectTimedOut, CutOff, Kept
<1>2. Kept90'
  BY DEF Kept90, ToCheck, TypeOK, Ages
<1>3. Closes'
  BY DEF Closes, TypeOK, Ages
<1>4. PingsInTime'
  BY DEF PingsInTime, TypeOK, Ages
<1>5. ServerNotices'
  BY DEF ServerNotices, PingsInTime, ToCheck, TypeOK, Ages
<1>6. ClientNotices'
  BY DEF ClientNotices, TypeOK, Ages
<1> QED
  BY <1>1, <1>2, <1>3, <1>4, <1>5, <1>6

LEMMA ReceivePingInv == ClockInv /\ ReceivePing => ClockInv'
<1> SUFFICES ASSUME ClockInv, ReceivePing PROVE ClockInv'
  OBVIOUS
<1>1. TypeOK'
  <2> USE Typed DEF ClockInv
  <2>1. session' \in SessionType
    BY DEF ReceivePing
  <2>2. /\ pinger' \in {"due", "sent", "done"}
        /\ phase' \in {None} \cup 0 .. CheckPeriod - 1
    BY DEF ReceivePing
  <2>3. client' \in ClientType
    BY ClientSet, Constants DEF ReceivePing
  <2>4. wire' \in WireType
    BY KeepaliveAssumption DEF ReceivePing, Arrives, WireType, Ages
  <2>5. network' \in [up : BOOLEAN, outage : Ages(MaxOutage)]
    BY KeepaliveAssumption DEF ReceivePing, Ages
  <2> QED
    BY <2>1, <2>2, <2>3, <2>4, <2>5
    DEF TypeOK, SessionType, States, ClientType, ClientStates, Waits, Tries, WireType
<1> USE KeepaliveAssumption DEF ClockInv, ReceivePing, Arrives
<1>2. Kept90'
  BY DEF Kept90, ToCheck, TypeOK, Ages
<1>3. Closes'
  BY DEF Closes, TypeOK, Ages
<1>4. PingsInTime'
  BY DEF PingsInTime, TypeOK, Ages
<1>5. ServerNotices'
  BY DEF ServerNotices, PingsInTime, ToCheck, TypeOK, Ages
<1>6. ClientNotices'
  BY DEF ClientNotices, TypeOK, Ages
<1> QED
  BY <1>1, <1>2, <1>3, <1>4, <1>5, <1>6

LEMMA ReceiveEofInv == ClockInv /\ ReceiveEof => ClockInv'
<1> SUFFICES ASSUME ClockInv, ReceiveEof PROVE ClockInv'
  OBVIOUS
<1>1. TypeOK'
  <2> USE Typed DEF ClockInv
  <2>1. session' \in SessionType
    BY DEF ReceiveEof
  <2>2. /\ pinger' \in {"due", "sent", "done"}
        /\ phase' \in {None} \cup 0 .. CheckPeriod - 1
    BY DEF ReceiveEof
  <2>3. client' \in ClientType
    BY Values DEF ReceiveEof
  <2>4. wire' \in WireType
    BY KeepaliveAssumption DEF ReceiveEof, Trying, Arrives, WireType, Ages
  <2>5. network' \in [up : BOOLEAN, outage : Ages(MaxOutage)]
    BY KeepaliveAssumption DEF ReceiveEof, Ages
  <2> QED
    BY <2>1, <2>2, <2>3, <2>4, <2>5
    DEF TypeOK, SessionType, States, ClientType, ClientStates, Waits, Tries, WireType
<1> USE KeepaliveAssumption DEF ClockInv, ReceiveEof, Trying, Arrives
<1>2. Kept90'
  BY DEF Kept90, ToCheck, TypeOK, Ages
<1>3. Closes'
  BY DEF Closes, TypeOK, Ages
<1>4. PingsInTime'
  BY DEF PingsInTime, TypeOK, Ages
<1>5. ServerNotices'
  BY DEF ServerNotices, PingsInTime, ToCheck, TypeOK, Ages
<1>6. ClientNotices'
  BY DEF ClientNotices, TypeOK, Ages
<1> QED
  BY <1>1, <1>2, <1>3, <1>4, <1>5, <1>6

LEMMA ReadTimeoutInv == ClockInv /\ ReadTimeout => ClockInv'
<1> SUFFICES ASSUME ClockInv, ReadTimeout PROVE ClockInv'
  OBVIOUS
<1>1. TypeOK'
  <2> USE Typed DEF ClockInv
  <2>1. session' \in SessionType
    BY DEF ReadTimeout
  <2>2. /\ pinger' \in {"due", "sent", "done"}
        /\ phase' \in {None} \cup 0 .. CheckPeriod - 1
    BY DEF ReadTimeout
  <2>3. client' \in ClientType
    BY Values DEF ReadTimeout
  <2>4. wire' \in WireType
    BY KeepaliveAssumption DEF ReadTimeout, Trying, Closed, WireType, Ages
  <2>5. network' \in [up : BOOLEAN, outage : Ages(MaxOutage)]
    BY KeepaliveAssumption DEF ReadTimeout, Ages
  <2> QED
    BY <2>1, <2>2, <2>3, <2>4, <2>5
    DEF TypeOK, SessionType, States, ClientType, ClientStates, Waits, Tries, WireType
<1> USE KeepaliveAssumption DEF ClockInv, ReadTimeout, Trying, Closed
<1>2. Kept90'
  BY DEF Kept90, ToCheck, TypeOK, Ages
<1>3. Closes'
  BY DEF Closes, TypeOK, Ages
<1>4. PingsInTime'
  BY DEF PingsInTime, TypeOK, Ages
<1>5. ServerNotices'
  BY DEF ServerNotices, PingsInTime, ToCheck, TypeOK, Ages
<1>6. ClientNotices'
  BY DEF ClientNotices, TypeOK, Ages
<1> QED
  BY <1>1, <1>2, <1>3, <1>4, <1>5, <1>6

LEMMA CannotConnectInv == ClockInv /\ CannotConnect => ClockInv'
<1> SUFFICES ASSUME ClockInv, CannotConnect PROVE ClockInv'
  OBVIOUS
<1>1. TypeOK'
  <2> USE Typed DEF ClockInv
  <2>1. session' \in SessionType
    BY DEF CannotConnect
  <2>2. /\ pinger' \in {"due", "sent", "done"}
        /\ phase' \in {None} \cup 0 .. CheckPeriod - 1
    BY DEF CannotConnect
  <2>3. client' \in ClientType
    BY Values, KeepaliveAssumption DEF CannotConnect
  <2>4. wire' \in WireType
    BY KeepaliveAssumption DEF CannotConnect, Failed, Attempts, WireType, Ages
  <2>5. network' \in [up : BOOLEAN, outage : Ages(MaxOutage)]
    BY KeepaliveAssumption DEF CannotConnect, Ages
  <2> QED
    BY <2>1, <2>2, <2>3, <2>4, <2>5
    DEF TypeOK, SessionType, States, ClientType, ClientStates, Waits, Tries, WireType
<1> USE KeepaliveAssumption DEF ClockInv, CannotConnect, Failed, Attempts
<1>2. Kept90'
  BY DEF Kept90, ToCheck, TypeOK, Ages
<1>3. Closes'
  BY DEF Closes, TypeOK, Ages
<1>4. PingsInTime'
  BY DEF PingsInTime, TypeOK, Ages
<1>5. ServerNotices'
  BY DEF ServerNotices, PingsInTime, ToCheck, TypeOK, Ages
<1>6. ClientNotices'
  BY DEF ClientNotices, TypeOK, Ages
<1> QED
  BY <1>1, <1>2, <1>3, <1>4, <1>5, <1>6

LEMMA ReconnectInv == ClockInv /\ Reconnect => ClockInv'
<1> SUFFICES ASSUME ClockInv, Reconnect PROVE ClockInv'
  OBVIOUS
<1>1. TypeOK'
  <2> USE Typed DEF ClockInv
  <2>1. session' \in SessionType
    BY Values DEF Reconnect
  <2>2. /\ pinger' \in {"due", "sent", "done"}
        /\ phase' \in {None} \cup 0 .. CheckPeriod - 1
    BY DEF Reconnect
  <2>3. client' \in ClientType
    <3>1. \/ client' = Online \/ client' = Failed(0)
          \/ \E st \in ClientStates : client' = [client EXCEPT !.state = st]
      BY Constants DEF Reconnect
    <3>2. Online \in ClientType /\ Failed(0) \in ClientType
      BY Values
    <3>3. \A st \in ClientStates : [client EXCEPT !.state = st] \in ClientType
      BY ClientSet
    <3> QED
      BY <3>1, <3>2, <3>3
  <2>4. wire' \in WireType
    BY KeepaliveAssumption DEF Reconnect, Attempts, Connected, Online, Quiet, Failed, WireType, Ages
  <2>5. network' \in [up : BOOLEAN, outage : Ages(MaxOutage)]
    BY KeepaliveAssumption DEF Reconnect, Ages
  <2> QED
    BY <2>1, <2>2, <2>3, <2>4, <2>5
    DEF TypeOK, SessionType, States, ClientType, ClientStates, Waits, Tries, WireType
<1> USE KeepaliveAssumption DEF ClockInv, Reconnect, Attempts, Connected, Online, Quiet, Failed
<1>2. Kept90'
  BY DEF Kept90, ToCheck, TypeOK, Ages
<1>3. Closes'
  <2>1. CASE session' = Connected /\ client' = Online /\ wire' = Quiet
    BY <2>1 DEF Closes
  <2>2. CASE client' = Failed(0) /\ session.state = "waiting" /\ UNCHANGED <<session, wire>>
    <3>1. client'.state \in {"trying", "gaveUp"}
      BY <2>2 DEF TypeOK
    <3> QED
      BY <2>2, <3>1 DEF Closes
  <2>3. CASE client'.state \in {"refused", "expired"} /\ UNCHANGED <<session, wire>>
    BY <2>3 DEF Closes
  <2> QED
    BY <2>1, <2>2, <2>3 DEF TypeOK
<1>4. PingsInTime'
  BY DEF PingsInTime, TypeOK, Ages
<1>5. ServerNotices'
  BY DEF ServerNotices, PingsInTime, ToCheck, TypeOK, Ages
<1>6. ClientNotices'
  BY DEF ClientNotices, TypeOK, Ages
<1> QED
  BY <1>1, <1>2, <1>3, <1>4, <1>5, <1>6

LEMMA TickInv == ClockInv /\ Tick => ClockInv'
<1> SUFFICES ASSUME ClockInv, Tick PROVE ClockInv'
  OBVIOUS
<1>1. TypeOK'
  <2> USE Typed DEF ClockInv
  <2>1. session' \in SessionType
    <3> DEFINE pong == Older(session.pongAge, PONG_WAIT_INTERVAL)
               ping == Older(session.pingAge, PONG_TIMEOUT + 1)
               down == IF session.state = "waiting" THEN session.downAge + 1 ELSE session.downAge
    <3>1. pong \in Ages(PONG_WAIT_INTERVAL) /\ ping \in Ages(PONG_TIMEOUT + 1)
      BY DEF Older, SessionType, Ages
    <3>2. down \in Ages(RECONNECT_TIMEOUT + CheckPeriod)
      BY DEF Kept90, ToCheck, SessionType, Ages, Tick, Urgent, TypeOK, ClockInv
    <3>3. session' = [session EXCEPT !.pongAge = pong, !.pingAge = ping, !.downAge = down]
      BY DEF Tick
    <3> HIDE DEF pong, ping, down
    <3> QED
      BY <3>1, <3>2, <3>3, SessionSet
  <2>2. /\ pinger' \in {"due", "sent", "done"}
        /\ phase' \in {None} \cup 0 .. CheckPeriod - 1
    BY DEF Tick, Urgent
  <2>3. client' \in ClientType
    <3> DEFINE s == IF client.state = "online" THEN client.silent + 1 ELSE client.silent
               w == IF client.wait > 0 THEN client.wait - 1 ELSE 0
               t == IF client.state = "trying" THEN client.tried + 1 ELSE client.tried
    <3>1. s \in Ages(READ_TIMEOUT) /\ w \in Waits /\ t \in Nat
      BY DEF Tick, Urgent, ClientType, Ages, Waits
    <3>2. client' = [client EXCEPT !.silent = s, !.wait = w, !.tried = t]
      BY DEF Tick
    <3> HIDE DEF s, w, t
    <3> QED
      BY <3>1, <3>2, ClientSet
  <2>4. wire' \in WireType
    BY KeepaliveAssumption DEF Tick, Over, Urgent, Older, Attempts, WireType, Ages
  <2>5. network' \in [up : BOOLEAN, outage : Ages(MaxOutage)]
    BY KeepaliveAssumption DEF Tick, Ages, Urgent
  <2> QED
    BY <2>1, <2>2, <2>3, <2>4, <2>5
    DEF TypeOK, SessionType, States, ClientType, ClientStates, Waits, Tries, WireType
<1> USE KeepaliveAssumption DEF ClockInv, Tick, Over, Urgent, Older, Attempts
<1>2. Kept90'
  BY DEF Kept90, ToCheck, TypeOK, Ages
<1>3. Closes'
  BY DEF Closes, TypeOK, Ages
<1>4. PingsInTime'
  BY DEF PingsInTime, TypeOK, Ages
<1>5. ServerNotices'
  BY DEF ServerNotices, PingsInTime, ToCheck, TypeOK, Ages
<1>6. ClientNotices'
  BY DEF ClientNotices, TypeOK, Ages
<1> QED
  BY <1>1, <1>2, <1>3, <1>4, <1>5, <1>6

-----------------------------------------------------------------------------
(* The theorems.                                                           *)

LEMMA InitInv == Init => ClockInv
<1> SUFFICES ASSUME Init PROVE ClockInv
  OBVIOUS
<1> USE KeepaliveAssumption DEF Init, Connected, Online, Quiet
<1>1. TypeOK
  BY DEF TypeOK, Ages
<1>2. Kept90 /\ Closes /\ PingsInTime
  BY DEF Kept90, ToCheck, Closes, PingsInTime
<1>3. ServerNotices /\ ClientNotices
  BY DEF ServerNotices, ClientNotices
<1> QED
  BY <1>1, <1>2, <1>3 DEF ClockInv

LEMMA NextInv == ClockInv /\ [Next]_vars => ClockInv'
<1>1. ClockInv /\ UNCHANGED vars => ClockInv'
  BY DEF vars, ClockInv, TypeOK, Kept90, ToCheck, Closes, PingsInTime,
         ServerNotices, ClientNotices
<1> QED
  BY <1>1, LinkFailsInv, LinkReturnsInv, SendPingInv, MarkPingInv, ReceivePongInv,
     ReceiveFinInv, CheckInv, ReceivePingInv, ReceiveEofInv, ReadTimeoutInv,
     CannotConnectInv, ReconnectInv, TickInv
  DEF Next

THEOREM ClockInvariant == Spec => []ClockInv
  BY InitInv, NextInv, PTL DEF Spec

\* Every clock of both sides stops within its deadline, however slow the
\* network is and however long it is gone.
THEOREM ClocksTypeCorrect == Spec => []TypeOK
<1>1. ClockInv => TypeOK
  BY DEF ClockInv
<1> QED
  BY <1>1, ClockInvariant, PTL

\* The server has marked a client fifteen seconds into an outage, and the
\* client has given up its connection after READ_TIMEOUT.
THEOREM LossAlwaysNoticed == Spec => []LossNoticed
<1>1. ClockInv => LossNoticed
  BY DEF ClockInv, LossNoticed, ServerNotices, ClientNotices, ToCheck, TypeOK, Ages
<1> QED
  BY <1>1, ClockInvariant, PTL

\* A lost client is freed in the first round of the checker after
\* RECONNECT_TIMEOUT, neither earlier nor later.
THEOREM AlwaysKeptNinetySeconds == Spec => []KeptNinetySeconds
<1>1. ClockInv => KeptNinetySeconds
  BY DEF ClockInv, KeptNinetySeconds, Kept90, ToCheck, TypeOK, Ages
<1> QED
  BY <1>1, ClockInvariant, PTL

\* Where one side has closed the connection, the other will read of it.
THEOREM NeverHalfOpen == Spec => []NoHalfOpen
<1>1. ClockInv => NoHalfOpen
  BY DEF ClockInv, NoHalfOpen, Closes
<1> QED
  BY <1>1, ClockInvariant, PTL
-----------------------------------------------------------------------------
(* A network that never fails.                                             *)

\* A message takes a second or more, and a PING and its PONG are back before
\* PONG_TIMEOUT is over.
GoodNetwork == MinDelay >= 1 /\ 2 * MaxDelay <= PONG_TIMEOUT

Healthy == network.up /\ network.outage = 0

\* Where the PING is: not due yet; out, with the flag still to be set; on its
\* way, or its PONG is, as old as the server's clock says.
PingUnderWay ==
    /\ ~session.awaiting /\ pinger # "sent" =>
          /\ wire["ping"] = None /\ wire["pong"] = None
          /\ client.silent <= MaxDelay + session.pongAge
    /\ pinger = "sent" =>
          /\ ~session.awaiting /\ wire["ping"] = 0 /\ wire["pong"] = None
          /\ client.silent <= MaxDelay + PONG_WAIT_INTERVAL
    /\ session.awaiting =>
          \/ /\ wire["pong"] = None /\ session.pingAge = wire["ping"]
             /\ client.silent <= MaxDelay + PONG_WAIT_INTERVAL + wire["ping"]
          \/ /\ wire["ping"] = None /\ wire["pong"] # None
             /\ session.pingAge <= MaxDelay + wire["pong"]
             /\ client.silent <= wire["pong"]

\* The inductive invariant behind HealthyStays.
HealthInv == Healthy =>
    /\ session.state = "connected" /\ client.state = "online"
    /\ wire["fin"] = None /\ wire["eof"] = None
    /\ PingUnderWay

\* The delays, as numbers.
LEMMA Delays ==
    ASSUME GoodNetwork
    PROVE  MinDelay \in {1, 2} /\ MaxDelay \in {1, 2} /\ MinDelay <= MaxDelay
BY KeepaliveAssumption DEF GoodNetwork

LEMMA HealthNext ==
    ASSUME GoodNetwork, ClockInv, HealthInv, [Next]_vars
    PROVE  HealthInv'
<1> SUFFICES ASSUME Healthy'
             PROVE  /\ session'.state = "connected" /\ client'.state = "online"
                    /\ wire'["fin"] = None /\ wire'["eof"] = None
                    /\ PingUnderWay'
  BY DEF HealthInv
<1>1. /\ session \in SessionType /\ client \in ClientType /\ wire \in WireType
      /\ network \in [up : BOOLEAN, outage : Ages(MaxOutage)]
      /\ pinger \in {"due", "sent", "done"}
  BY Typed DEF ClockInv
<1>2. ~LinkFails /\ ~LinkReturns /\ Healthy
  BY <1>1 DEF Healthy, Ages, Next, vars, LinkFails, LinkReturns, SendPing, MarkPing,
     ReceivePong, ReceiveFin, Check, ReceivePing, ReceiveEof, ReadTimeout,
     CannotConnect, Reconnect, Tick
<1>3. /\ session.state = "connected" /\ client.state = "online"
      /\ wire["fin"] = None /\ wire["eof"] = None
      /\ PingUnderWay
  BY <1>2 DEF HealthInv
<1>4. /\ session.pongAge \in 0 .. 5 /\ session.pingAge \in 0 .. 6
      /\ session.awaiting \in BOOLEAN /\ client.silent \in 0 .. 15
      /\ \A m \in {"ping", "pong"} : wire[m] \in {None} \cup 0 .. MaxDelay
  BY <1>1 DEF SessionType, ClientType, WireType, Ages
<1>5. CASE SendPing
  BY <1>1, <1>3, <1>4, <1>5, Delays DEF SendPing, MayPing, PingUnderWay, WireType
<1>6. CASE MarkPing
  BY <1>1, <1>3, <1>4, <1>6, Delays DEF MarkPing, PingUnderWay, SessionType
<1>7. CASE ReceivePong
  BY <1>1, <1>3, <1>4, <1>7, Delays DEF ReceivePong, Arrives, AfterPong, PingUnderWay,
     SessionType, WireType
<1>8. CASE ReceiveFin \/ ReceiveEof
  BY <1>3, <1>8, Delays DEF ReceiveFin, ReceiveEof, Arrives
<1>9. CASE Check
  <2>1. ~PongTimedOut /\ ~ReconnectTimedOut
    BY <1>3, <1>4, Delays DEF PongTimedOut, ReconnectTimedOut, PingUnderWay
  <2> QED
    BY <1>3, <1>9, <2>1 DEF Check, PingUnderWay
<1>10. CASE ReceivePing
  BY <1>1, <1>3, <1>4, <1>10, Delays DEF ReceivePing, Arrives, PingUnderWay,
     ClientType, WireType
<1>11. ~ReadTimeout /\ ~CannotConnect /\ ~Reconnect
  BY <1>3, <1>4, Delays DEF ReadTimeout, CannotConnect, Reconnect, Attempts, PingUnderWay
<1>12. CASE Tick
  <2>1. /\ pinger = "done" /\ pinger' = "due"
        /\ \A m \in DOMAIN wire : wire[m] # MaxDelay
    BY <1>2, <1>12 DEF Tick, Urgent, Healthy
  <2>2. /\ session'.state = session.state /\ session'.awaiting = session.awaiting
        /\ session'.pongAge = Older(session.pongAge, 5)
        /\ session'.pingAge = Older(session.pingAge, 6)
    BY <1>1, <1>12 DEF Tick, SessionType
  <2>3. client'.state = client.state /\ client'.silent = client.silent + 1
    BY <1>1, <1>3, <1>12 DEF Tick, ClientType
  <2>4. \A m \in {"ping", "pong", "fin", "eof"} :
            wire'[m] = IF wire[m] = None THEN None ELSE wire[m] + 1
    BY <1>1, <1>2, <1>12 DEF Tick, WireType, Healthy
  <2>5. session.pongAge < 5 \/ session.awaiting
    BY <1>3, <1>4, <2>1 DEF ClockInv, PingsInTime
  <2>6. PingUnderWay'
    BY <1>3, <1>4, <2>1, <2>2, <2>3, <2>4, <2>5, Delays DEF PingUnderWay, Older
  <2> QED
    BY <1>3, <2>2, <2>3, <2>4, <2>6
<1>13. CASE UNCHANGED vars
  BY <1>3, <1>13 DEF vars, PingUnderWay
<1> QED
  BY <1>2, <1>5, <1>6, <1>7, <1>8, <1>9, <1>10, <1>11, <1>12, <1>13 DEF Next

\* On a network that never fails, with a round trip within PONG_TIMEOUT and a
\* PONG that cannot overtake waiting_for_pong = 1, the clocks of the PING thread,
\* of the checker and of the read timeout never take the other side for lost,
\* whenever they start.
THEOREM HealthyAlwaysStays ==
    ASSUME GoodNetwork
    PROVE  Spec => []HealthyStays
<1>1. Init => HealthInv
  BY Delays DEF Init, HealthInv, PingUnderWay, Connected, Online, Quiet
<1>2. HealthInv /\ [Next]_vars /\ ClockInv => HealthInv'
  BY HealthNext
<1>3. HealthInv => HealthyStays
  BY DEF HealthInv, Healthy, HealthyStays
<1> QED
  BY <1>1, <1>2, <1>3, ClockInvariant, PTL DEF Spec
=============================================================================

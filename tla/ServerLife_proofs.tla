------------------------- MODULE ServerLife_proofs -------------------------
(***************************************************************************)
(* The client list of module ServerLife: it holds every client that        *)
(* exists, once, and no other, for every set of clients and every length.  *)
(***************************************************************************)
EXTENDS ServerLife, SequenceTheorems, WellFoundedInduction, TLAPS

(* The part of the type invariant that the proof needs.  The list is a     *)
(* function here; that it is a sequence does not matter.                   *)
Types ==
    /\ client \in [Clients -> ClientType]
    /\ list \in [DOMAIN list -> Clients \cup {NULL}]
    /\ DOMAIN list \subseteq Nat
    /\ main.pc = "spawning" => main.client \in Clients
    /\ checker \in CheckerType
    /\ handler \in [Clients -> HandlerType]

\* The list holds exactly the clients that exist, each once.
Exact ==
    /\ \A c \in Clients : c \in Listed <=> Live(c)
    /\ \A i, j \in DOMAIN list : list[i] = list[j] /\ list[i] # NULL => i = j

\* A client that is marked disconnected has no socket, so that a handler that
\* hears from its client never finds that client itself in Find.
Marked ==
    \A c \in Clients : client[c].down => client[c].fd = "none" /\ client[c].life # "unborn"

\* Whom a thread works on has been accepted; a reconnect replaces another.
Born ==
    /\ main.pc = "spawning" => client[main.client].life # "unborn"
    /\ checker.pc \in {"looking", "acting"} =>
          checker.at \in Clients /\ client[checker.at].life # "unborn"
    /\ \A c \in Clients : handler[c].pc # "ended" => client[c].life # "unborn"
    /\ \A c \in Clients : handler[c].pc \in {"taking", "replacing"} =>
          /\ handler[c].old \in Clients \ {c}
          /\ client[handler[c].old].life # "unborn"

Sound == Types /\ Exact /\ Marked /\ Born

\* The inductive invariant: it holds until the process has ended.
ListInv == process = "up" => Sound

-----------------------------------------------------------------------------
(* The operations of the list.                                             *)

\* FirstOf returns a place of the set.
LEMMA FirstOfIn ==
    ASSUME NEW S, S \subseteq Nat, S # {}
    PROVE  FirstOf(S) \in S
<1> DEFINE Less == {p \in Nat \X Nat : p[1] < p[2]}
<1>1. IsWellFoundedOn(Less, Nat)
  BY NatLessThanWellFounded, Zenon DEF OpToRel
<1>2. PICK x \in S : \A y \in S : ~ (<<y, x>> \in Less)
  BY <1>1, WFMin, Zenon
<1>3. \A y \in S : x <= y
  <2>1. TAKE y \in S
  <2>2. x \in Nat /\ y \in Nat
    OBVIOUS
  <2>3. <<y, x>> \in Less <=> y < x
    BY <2>2
  <2> QED
    BY <1>2, <2>2, <2>3
<1> QED
  BY <1>3 DEF FirstOf

\* Taking a client off the list.
LEMMA RemovedExact ==
    ASSUME Types, Exact, NEW c
    PROVE  /\ Removed(c) \in [DOMAIN Removed(c) -> Clients \cup {NULL}]
           /\ DOMAIN Removed(c) = DOMAIN list
           /\ {Removed(c)[i] : i \in DOMAIN Removed(c)} \ {NULL} = Listed \ {c}
           /\ \A i, j \in DOMAIN list :
                 Removed(c)[i] = Removed(c)[j] /\ Removed(c)[i] # NULL => i = j
<1> DEFINE R == Removed(c)
<1>1. /\ DOMAIN R = DOMAIN list
      /\ \A i \in DOMAIN list : R[i] = IF list[i] = c THEN NULL ELSE list[i]
  BY DEF Removed
<1>2. \A i \in DOMAIN list : list[i] \in Clients \cup {NULL}
  BY DEF Types
<1>3. R \in [DOMAIN R -> Clients \cup {NULL}]
  BY <1>2 DEF Removed
<1>4. {R[i] : i \in DOMAIN R} \ {NULL} = Listed \ {c}
  BY <1>1 DEF Listed
<1>5. \A i, j \in DOMAIN list : R[i] = R[j] /\ R[i] # NULL => i = j
  BY <1>1 DEF Exact
<1> QED
  BY <1>1, <1>3, <1>4, <1>5

\* Putting the new client of a reconnect into the place of the old one.
LEMMA ReplacedExact ==
    ASSUME Types, Exact,
           NEW old \in Clients, NEW new \in Clients, old # new, Live(old), Live(new)
    PROVE  /\ Replaced(old, new) \in [DOMAIN Replaced(old, new) -> Clients \cup {NULL}]
           /\ DOMAIN Replaced(old, new) = DOMAIN list
           /\ {Replaced(old, new)[i] : i \in DOMAIN Replaced(old, new)} \ {NULL}
                 = Listed \ {old}
           /\ \A i, j \in DOMAIN list :
                 /\ Replaced(old, new)[i] = Replaced(old, new)[j]
                 /\ Replaced(old, new)[i] # NULL
                 => i = j
<1> DEFINE R == Replaced(old, new)
<1>1. old \in Listed /\ new \in Listed
  BY DEF Exact
<1>2. /\ DOMAIN R = DOMAIN list
      /\ \A i \in DOMAIN list :
            R[i] = IF list[i] = old THEN new ELSE IF list[i] = new THEN NULL ELSE list[i]
  BY <1>1 DEF Replaced
<1>3. \A i \in DOMAIN list : list[i] \in Clients \cup {NULL}
  BY DEF Types
<1>4. R \in [DOMAIN R -> Clients \cup {NULL}]
  BY <1>1, <1>3 DEF Replaced
<1>5. PICK k \in DOMAIN list : list[k] = old
  BY <1>1 DEF Listed
<1>6. NULL \notin Clients
  BY ClientsAssumption
<1>7. ASSUME NEW x PROVE x \in {R[i] : i \in DOMAIN R} \ {NULL} <=> x \in Listed \ {old}
  <2>1. ASSUME NEW i \in DOMAIN list, R[i] = x, x # NULL PROVE x \in Listed \ {old}
    BY <1>1, <1>2, <2>1 DEF Listed
  <2>2. ASSUME x \in Listed \ {old}, x # new PROVE x \in {R[i] : i \in DOMAIN R} \ {NULL}
    BY <1>2, <2>2 DEF Listed
  <2>3. new \in {R[i] : i \in DOMAIN R} \ {NULL}
    BY <1>2, <1>5, <1>6
  <2> QED
    BY <1>2, <2>1, <2>2, <2>3
<1>8. \A i, j \in DOMAIN list : R[i] = R[j] /\ R[i] # NULL => i = j
  <2>1. \A i, j \in DOMAIN list : list[i] = list[j] /\ list[i] # NULL => i = j
    BY DEF Exact
  <2>2. TAKE i \in DOMAIN list, j \in DOMAIN list
  <2>3. HAVE R[i] = R[j] /\ R[i] # NULL
  <2> HIDE DEF R
  <2>4. list[i] = list[j] /\ list[i] # NULL
    BY <1>2, <1>6, <2>3
  <2> QED
    BY <2>1, <2>4
<1>9. {R[i] : i \in DOMAIN R} \ {NULL} = Listed \ {old}
  BY <1>7
<1> QED
  BY <1>2, <1>4, <1>8, <1>9

-----------------------------------------------------------------------------
(* The initial states, and the steps that leave the list alone.            *)

LEMMA InitSound == Init => Sound
<1> SUFFICES ASSUME Init PROVE Sound
  OBVIOUS
<1>1. PICK n \in Sizes : list = [i \in 1 .. n |-> NULL]
  BY DEF Init
<1>2. n \in Nat
  BY SizesAssumption
<1>3. Types
  BY <1>1, <1>2 DEF Init, Types, ClientType, CheckerType, HandlerType
<1>4. Exact
  BY <1>1, <1>2, ClientsAssumption DEF Init, Exact, Listed, Live
<1>5. Marked /\ Born
  BY DEF Init, Marked, Born
<1> QED
  BY <1>3, <1>4, <1>5 DEF Sound

\* Exact speaks about the list and about which clients live.
LEMMA ExactKept ==
    ASSUME Exact, list' = list,
           \A c \in Clients : client'[c].life = client[c].life
    PROVE  Exact'
BY DEF Exact, Listed, Live

\* A step that changes nothing the invariant speaks about.
LEMMA SoundUnchanged ==
    ASSUME Sound, UNCHANGED <<client, list, checker, handler>>,
           main'.pc = "spawning" => UNCHANGED main
    PROVE  Sound'
<1>1. Types'
  BY DEF Sound, Types
<1>2. Exact'
  BY ExactKept DEF Sound
<1>3. Marked' /\ Born'
  BY DEF Sound, Marked, Born
<1> QED
  BY <1>1, <1>2, <1>3 DEF Sound

\* A client is taken off the list and freed.
LEMMA RemovedAndFreed ==
    ASSUME Sound, NEW c \in Clients, list' = Removed(c), Free(c),
           \/ UNCHANGED <<main, checker, handler>>
           \/ UNCHANGED <<checker, handler>> /\ main'.pc # "spawning"
           \/ UNCHANGED <<main, handler>> /\ checker' = CheckerAsleep
           \/ UNCHANGED <<main, checker>> /\ Goto(c, "ended")
    PROVE  Sound'
<1> USE DEF Sound
<1>1. /\ client' \in [Clients -> ClientType]
      /\ \A d \in Clients \ {c} : client'[d] = client[d]
      /\ client'[c].life = "freed" /\ client'[c].fd = "none"
  BY DEF Free, Types, ClientType
<1>2. /\ handler' \in [Clients -> HandlerType]
      /\ \A d \in Clients : handler'[d] = handler[d] \/ handler'[d].pc = "ended"
  BY DEF Types, HandlerType, Goto
<1>3. /\ checker' \in CheckerType
      /\ checker' = checker \/ checker'.pc = "sleeping"
  BY DEF Types, CheckerType, CheckerAsleep
<1>4. /\ list' \in [DOMAIN list' -> Clients \cup {NULL}]
      /\ DOMAIN list' = DOMAIN list
      /\ Listed' = Listed \ {c}
      /\ \A i, j \in DOMAIN list' : list'[i] = list'[j] /\ list'[i] # NULL => i = j
  <2> DEFINE R == Removed(c)
  <2>1. /\ R \in [DOMAIN R -> Clients \cup {NULL}]
        /\ DOMAIN R = DOMAIN list
        /\ {R[i] : i \in DOMAIN R} \ {NULL} = Listed \ {c}
        /\ \A i, j \in DOMAIN list : R[i] = R[j] /\ R[i] # NULL => i = j
    BY RemovedExact
  <2>2. list' = R
    OBVIOUS
  <2>3. Listed' = {list'[i] : i \in DOMAIN list'} \ {NULL}
    BY DEF Listed
  <2> HIDE DEF R
  <2> QED
    BY <2>1, <2>2, <2>3
<1>5. Types'
  BY <1>1, <1>2, <1>3, <1>4 DEF Types
<1>6. Exact'
  BY <1>1, <1>4 DEF Exact, Live
<1>7. Marked'
  BY <1>1 DEF Marked
<1>8. Born'
  BY <1>1, <1>2, <1>3 DEF Born, Types
<1> QED
  BY <1>5, <1>6, <1>7, <1>8

-----------------------------------------------------------------------------
(* The main thread.                                                        *)

LEMMA AcceptSound ==
    ASSUME Sound, NEW c \in Clients, Accept(c)
    PROVE  Sound'
<1> USE DEF Sound
<1>1. /\ client[c].life = "unborn" /\ ~client[c].down
      /\ \A i \in DOMAIN list : list[i] # c
  BY ClientsAssumption DEF Accept, Exact, Live, Listed, Marked
<1>2. UNCHANGED <<checker, handler>>
  BY DEF Accept
<1>3. ASSUME NEW k \in DOMAIN list, list' = [list EXCEPT ![k] = c],
             main' = [main EXCEPT !.pc = "spawning", !.client = c],
             \A d \in Clients \ {c, list[k]} : client'[d] = client[d],
             client'[c] = Fresh(c),
             list[k] # NULL => client'[list[k]] = [client[list[k]] EXCEPT !.life = "freed"],
             list[k] # NULL => client[list[k]].fd = "none",
             client' \in [Clients -> ClientType]
      PROVE  Sound'
  <2>1. c # NULL
    BY ClientsAssumption
  <2>2. list[k] # NULL => list[k] \in Clients \ {c}
    BY <1>1 DEF Types
  <2>3. /\ client'[c].life = "live" /\ ~client'[c].down
        /\ list[k] # NULL => client'[list[k]].life = "freed"
    BY <1>1, <1>3, <2>2 DEF Fresh, Types, ClientType
  <2>4. Types'
    BY <1>2, <1>3 DEF Types
  <2>5. /\ DOMAIN list' = DOMAIN list
        /\ \A i \in DOMAIN list : list'[i] = IF i = k THEN c ELSE list[i]
    BY <1>3 DEF Types
  <2>6. \A i, j \in DOMAIN list' : list'[i] = list'[j] /\ list'[i] # NULL => i = j
    BY <1>1, <2>5 DEF Exact
  <2>7. Listed' = (Listed \ {list[k]}) \cup {c}
    <3>1. ASSUME NEW i \in DOMAIN list, list[i] # NULL, list[i] # list[k]
          PROVE  list[i] \in Listed'
      BY <2>5, <3>1 DEF Listed
    <3>2. ASSUME NEW i \in DOMAIN list, list'[i] # NULL
          PROVE  list'[i] \in (Listed \ {list[k]}) \cup {c}
      BY <2>5, <3>2 DEF Listed, Exact
    <3>3. c \in Listed'
      BY <2>1, <2>5 DEF Listed
    <3> QED
      BY <2>5, <3>1, <3>2, <3>3 DEF Listed
  <2>8. Exact'
    <3>1. \A d \in Clients : d \in Listed' <=> Live(d)'
      BY <1>1, <1>3, <2>2, <2>3, <2>7, ClientsAssumption DEF Exact, Live
    <3> QED
      BY <2>6, <3>1 DEF Exact
  <2>9. Marked'
    <3> SUFFICES ASSUME NEW d \in Clients
                 PROVE  client'[d].down => client'[d].fd = "none" /\ client'[d].life # "unborn"
      BY DEF Marked
    <3>2. CASE d = c
      BY <2>3, <3>2
    <3>3. CASE d = list[k] /\ d # c
      <4>1. list[k] # NULL
        BY <3>3, ClientsAssumption
      <4>2. /\ client'[d].fd = "none"
            /\ client'[d].life = "freed"
        BY <1>3, <2>3, <3>3, <4>1 DEF Types, ClientType
      <4> QED
        BY <4>2
    <3>4. CASE d # c /\ d # list[k]
      BY <1>3, <3>4 DEF Marked
    <3> QED
      BY <3>2, <3>3, <3>4
  <2>10. Born'
    <3>1. \A d \in Clients : client[d].life # "unborn" => client'[d].life # "unborn"
      <4>1. TAKE d \in Clients
      <4>2. CASE d = list[k]
        BY <2>3, <4>2, ClientsAssumption
      <4>3. CASE d # list[k]
        BY <1>3, <2>3, <4>3
      <4> QED
        BY <4>2, <4>3
    <3>2. main'.client \in Clients => client'[main'.client].life # "unborn"
      BY <1>3, <2>3, <3>1 DEF Types, Born
    <3> QED
      BY <1>2, <2>4, <3>1, <3>2 DEF Born, Types
  <2> QED
    BY <2>4, <2>8, <2>9, <2>10
<1>4. CASE Holes # {}
  <2> DEFINE k == FirstOf(Holes)
  <2>1. k \in DOMAIN list /\ list[k] = NULL
    BY <1>4, FirstOfIn DEF Holes, Types
  <2>2. /\ list' = [list EXCEPT ![k] = c]
        /\ main' = [main EXCEPT !.pc = "spawning", !.client = c]
        /\ client' = [client EXCEPT ![c] = Fresh(c)]
    BY <1>4 DEF Accept
  <2>3. /\ client' \in [Clients -> ClientType]
        /\ client'[c] = Fresh(c)
        /\ \A d \in Clients \ {c} : client'[d] = client[d]
    BY <2>2 DEF Fresh, Types, ClientType
  <2> HIDE DEF k
  <2> QED
    BY <1>3, <2>1, <2>2, <2>3
<1>5. CASE Holes = {} /\ Zombies # {}
  <2> DEFINE k == FirstOf(Zombies)
  <2>1. k \in DOMAIN list /\ list[k] # NULL /\ client[list[k]].fd = "none"
    <3>1. Zombies \subseteq DOMAIN list /\ Zombies \subseteq Nat
      BY DEF Zombies, Types
    <3>2. k \in Zombies
      BY <1>5, <3>1, FirstOfIn
    <3> QED
      BY <3>2 DEF Zombies
  <2>2. /\ list' = [list EXCEPT ![k] = c]
        /\ main' = [main EXCEPT !.pc = "spawning", !.client = c]
        /\ client' = [client EXCEPT ![list[k]].life = "freed", ![c] = Fresh(c)]
    BY <1>5 DEF Accept
  <2>3. list[k] \in Clients \ {c}
    BY <1>1, <2>1 DEF Types
  <2>4. /\ client' \in [Clients -> ClientType]
        /\ client'[c] = Fresh(c)
        /\ client'[list[k]] = [client[list[k]] EXCEPT !.life = "freed"]
        /\ \A d \in Clients \ {c, list[k]} : client'[d] = client[d]
    <3> DEFINE mid == [client EXCEPT ![list[k]].life = "freed"]
    <3>1. /\ mid \in [Clients -> ClientType]
          /\ mid[list[k]] = [client[list[k]] EXCEPT !.life = "freed"]
          /\ \A d \in Clients \ {list[k]} : mid[d] = client[d]
      BY <2>3 DEF Types, ClientType
    <3>2. client' = [mid EXCEPT ![c] = Fresh(c)]
      BY <2>2
    <3> HIDE DEF mid
    <3>3. Fresh(c) \in ClientType
      <4>1. client[c] \in ClientType
        BY DEF Types
      <4> QED
        BY <4>1 DEF Fresh, ClientType
    <3> QED
      BY <2>3, <3>1, <3>2, <3>3
  <2> HIDE DEF k
  <2> QED
    BY <1>3, <2>1, <2>2, <2>4
<1>6. CASE Holes = {} /\ Zombies = {}
  <2>1. /\ client' = [client EXCEPT ![c].life = "freed"]
        /\ UNCHANGED <<list, main>>
    BY <1>6 DEF Accept
  <2>2. /\ client' \in [Clients -> ClientType]
        /\ client'[c].life = "freed" /\ client'[c].down = client[c].down
        /\ \A d \in Clients \ {c} : client'[d] = client[d]
    BY <2>1 DEF Types, ClientType
  <2>3. Types'
    BY <1>2, <2>1, <2>2 DEF Types
  <2>4. Exact'
    BY <1>1, <2>1, <2>2 DEF Exact, Listed, Live
  <2>5. Marked' /\ Born'
    BY <1>1, <1>2, <2>1, <2>2 DEF Marked, Born, Types
  <2> QED
    BY <2>3, <2>4, <2>5
<1> QED
  BY <1>4, <1>5, <1>6

LEMMA SpawnSound == Sound /\ Spawn => Sound'
<1> SUFFICES ASSUME Sound, Spawn PROVE Sound'
  OBVIOUS
<1> USE DEF Sound
<1>1. /\ UNCHANGED <<client, list, checker>>
      /\ main'.pc = "accepting"
      /\ handler' = [handler EXCEPT ![main.client].pc = "reading"]
      /\ main.client \in Clients /\ client[main.client].life # "unborn"
  BY DEF Spawn, Types, Born
<1>2. /\ handler' \in [Clients -> HandlerType]
      /\ \A d \in Clients :
            handler'[d] = handler[d] \/ d = main.client
  BY <1>1 DEF Types, HandlerType
<1>3. Types'
  BY <1>1, <1>2 DEF Types
<1>4. Exact'
  BY <1>1, ExactKept
<1>5. Marked' /\ Born'
  BY <1>1, <1>2 DEF Marked, Born
<1> QED
  BY <1>3, <1>4, <1>5

LEMMA SpawnFailedSound == Sound /\ SpawnFailed => Sound'
<1> SUFFICES ASSUME Sound, SpawnFailed PROVE Sound'
  OBVIOUS
<1>1. /\ main.client \in Clients
      /\ list' = Removed(main.client) /\ Free(main.client)
      /\ UNCHANGED <<checker, handler>>
      /\ main'.pc # "spawning"
  BY DEF SpawnFailed, Sound, Types
<1> QED
  BY <1>1, RemovedAndFreed

LEMMA CutSound == Sound /\ Cut => Sound'
<1> SUFFICES ASSUME Sound, Cut PROVE Sound'
  OBVIOUS
<1> USE DEF Sound
<1> DEFINE h == Head(main.todo)
<1>1. /\ UNCHANGED <<list, checker, handler>>
      /\ main'.pc # "spawning"
      /\ client' = [client EXCEPT ![h].fd = CutFd(h)]
  BY DEF Cut
<1> HIDE DEF h
<1>2. /\ client' \in [Clients -> ClientType]
      /\ \A d \in Clients : /\ client'[d].life = client[d].life
                            /\ client'[d].down = client[d].down
                            /\ client[d].fd = "none" => client'[d].fd = "none"
  <2>1. CASE h \in Clients
    <3>1. /\ CutFd(h) \in {"open", "shut", "none"}
          /\ client[h].fd = "none" => CutFd(h) = "none"
      BY <2>1 DEF Types, ClientType, CutFd
    <3> QED
      BY <1>1, <2>1, <3>1 DEF Types, ClientType
  <2>2. CASE h \notin Clients
    BY <1>1, <2>2 DEF Types
  <2> QED
    BY <2>1, <2>2
<1>3. Types'
  BY <1>1, <1>2 DEF Types
<1>4. Exact'
  BY <1>1, <1>2, ExactKept
<1>5. Marked' /\ Born'
  BY <1>1, <1>2 DEF Marked, Born, Types
<1> QED
  BY <1>3, <1>4, <1>5

\* Its steps up to the one that ends the process.
LEMMA MainSound ==
    ASSUME Sound, Main, ~Finish
    PROVE  Sound'
<1>1. CASE Spawn
  BY <1>1, SpawnSound
<1>2. CASE SpawnFailed
  BY <1>2, SpawnFailedSound
<1>3. CASE BeginShutdown
  BY <1>3, SoundUnchanged DEF BeginShutdown
<1>4. CASE Notify
  BY <1>4, SoundUnchanged DEF Notify
<1>5. CASE BeginCutting
  BY <1>5, SoundUnchanged DEF BeginCutting
<1>6. CASE Cut
  BY <1>6, CutSound
<1>7. CASE Join
  BY <1>7, SoundUnchanged DEF Join
<1> QED
  BY <1>1, <1>2, <1>3, <1>4, <1>5, <1>6, <1>7 DEF Main

-----------------------------------------------------------------------------
(* The PING thread and the timeout checker.                                *)

LEMMA PingerSound == Sound /\ Pinger => Sound'
<1>1. Pinger => UNCHANGED <<client, list, main, checker, handler>>
  BY DEF Pinger, Ping, PingerEnds
<1> QED
  BY <1>1, SoundUnchanged

LEMMA CheckRoundSound == Sound /\ CheckRound => Sound'
<1> SUFFICES ASSUME Sound, CheckRound PROVE Sound'
  OBVIOUS
<1> USE DEF Sound
<1>1. UNCHANGED <<client, list, main, handler>>
  BY DEF CheckRound
<1>2. /\ checker' \in CheckerType
      /\ checker'.pc \in {"looking", "acting"} =>
            checker'.at \in Clients /\ Live(checker'.at)
  <2>1. CASE running
    <3>1. PICK c \in Listed : checker' = [checker EXCEPT !.pc = "looking", !.at = c]
      BY <2>1 DEF CheckRound
    <3>2. c \in Clients /\ Live(c)
      BY DEF Exact, Listed, Types
    <3> QED
      BY <3>1, <3>2 DEF Types, CheckerType
  <2>2. CASE ~running
    BY <2>2 DEF CheckRound, Types, CheckerType
  <2> QED
    BY <2>1, <2>2
<1>3. Types'
  BY <1>1, <1>2 DEF Types
<1>4. Exact'
  BY <1>1, ExactKept
<1>5. Marked' /\ Born'
  BY <1>1, <1>2 DEF Marked, Born, Live
<1> QED
  BY <1>3, <1>4, <1>5

LEMMA ExamineSound == Sound /\ Examine => Sound'
<1> SUFFICES ASSUME Sound, Examine PROVE Sound'
  OBVIOUS
<1> USE DEF Sound
<1>1. UNCHANGED <<client, list, main, handler>> /\ checker.pc = "looking"
  BY DEF Examine
<1>2. PICK v \in Verdicts(checker.at) :
          checker' = IF v = "none" THEN CheckerAsleep
                     ELSE [checker EXCEPT !.pc = "acting", !.verdict = v]
  BY DEF Examine
<1>3. v \in {"none", "silent", "inactive", "expired"}
  BY DEF Verdicts
<1>4. /\ checker' \in CheckerType
      /\ checker'.pc = "sleeping" \/ checker'.at = checker.at
  BY <1>2, <1>3 DEF Types, CheckerType, CheckerAsleep
<1>5. Types'
  BY <1>1, <1>4 DEF Types
<1>6. Exact'
  BY <1>1, ExactKept
<1>7. Marked' /\ Born'
  BY <1>1, <1>4 DEF Marked, Born
<1> QED
  BY <1>5, <1>6, <1>7

\* The two Boolean fields can be given any truth value.
LEMMA FlagSet ==
    ASSUME NEW x \in ClientType, NEW b \in BOOLEAN
    PROVE  /\ [x EXCEPT !.down = b] \in ClientType
           /\ [x EXCEPT !.down = b].life = x.life
           /\ [x EXCEPT !.down = b].fd = x.fd
           /\ [x EXCEPT !.auth = b] \in ClientType
           /\ [x EXCEPT !.auth = b].life = x.life
BY DEF ClientType

LEMMA CutOffSound == Sound /\ CutOff => Sound'
<1> SUFFICES ASSUME Sound, CutOff PROVE Sound'
  OBVIOUS
<1> USE DEF Sound
<1> DEFINE at == checker.at
<1>1. /\ UNCHANGED <<list, main, handler>>
      /\ checker' = CheckerAsleep
      /\ at \in Clients /\ client[at].life # "unborn"
      /\ client' = [client EXCEPT ![at].fd = "none",
                                  ![at].down = @ \/ checker.verdict = "silent"]
  BY DEF CutOff, Born
<1> HIDE DEF at
<1>2. /\ client' \in [Clients -> ClientType]
      /\ \A d \in Clients : client'[d].life = client[d].life
      /\ client'[at].fd = "none"
      /\ \A d \in Clients \ {at} : client'[d] = client[d]
  <2> DEFINE down == client[at].down \/ checker.verdict = "silent"
             mid == [client EXCEPT ![at].fd = "none"]
  <2>1. /\ mid \in [Clients -> ClientType]
        /\ mid[at].life = client[at].life /\ mid[at].fd = "none"
        /\ mid[at].down = client[at].down
        /\ \A d \in Clients \ {at} : mid[d] = client[d]
    BY <1>1 DEF Types, ClientType
  <2>2. client' = [mid EXCEPT ![at].down = down]
    BY <1>1, <2>1
  <2>3. down \in BOOLEAN
    OBVIOUS
  <2>4. /\ [mid[at] EXCEPT !.down = down] \in ClientType
        /\ [mid[at] EXCEPT !.down = down].life = mid[at].life
        /\ [mid[at] EXCEPT !.down = down].fd = mid[at].fd
    BY <1>1, <2>1, <2>3, FlagSet
  <2> HIDE DEF down, mid
  <2>5. client'[at] = [mid[at] EXCEPT !.down = down]
    BY <1>1, <2>1, <2>2
  <2>6. \A d \in Clients \ {at} : client'[d] = mid[d]
    BY <2>1, <2>2
  <2>7. client' \in [Clients -> ClientType]
    BY <1>1, <2>1, <2>2, <2>4
  <2> QED
    BY <1>1, <2>1, <2>4, <2>5, <2>6, <2>7
<1>3. checker' \in CheckerType /\ checker'.pc = "sleeping"
  BY <1>1 DEF CheckerType, CheckerAsleep
<1>4. Types'
  BY <1>1, <1>2, <1>3 DEF Types
<1>5. Exact'
  BY <1>1, <1>2, ExactKept
<1>6. Marked'
  BY <1>1, <1>2 DEF Marked
<1>7. Born'
  BY <1>1, <1>2, <1>3 DEF Born, Types
<1> QED
  BY <1>4, <1>5, <1>6, <1>7

LEMMA CheckerSound == Sound /\ Checker => Sound'
<1>1. Sound /\ Expire => Sound'
  <2>1. Sound /\ Expire => /\ checker.at \in Clients
                           /\ list' = Removed(checker.at) /\ Free(checker.at)
                           /\ checker' = CheckerAsleep
                           /\ UNCHANGED <<main, handler>>
    BY DEF Sound, Born, Expire
  <2> QED
    BY <2>1, RemovedAndFreed
<1> QED
  BY <1>1, CheckRoundSound, ExamineSound, CutOffSound DEF Checker

-----------------------------------------------------------------------------
(* The handler threads.                                                    *)

\* A handler goes on or ends, and its client is not taken off the list.
LEMMA HandlerMoved ==
    ASSUME Sound, UNCHANGED <<list, main, checker>>, NEW c \in Clients,
           handler' \in [Clients -> HandlerType],
           \A d \in Clients \ {c} : handler'[d] = handler[d],
           handler[c].pc # "ended",
           handler'[c].pc \in {"taking", "replacing"} =>
              handler'[c].old \in Clients \ {c} /\ client[handler'[c].old].life # "unborn",
           client' \in [Clients -> ClientType],
           \A d \in Clients \ {c} : client'[d] = client[d],
           client'[c].life = client[c].life,
           client'[c].down => client'[c].fd = "none"
    PROVE  Sound'
<1> USE DEF Sound
<1>1. \A d \in Clients : client'[d].life = client[d].life
  OBVIOUS
<1>2. Types'
  BY DEF Types
<1>3. Exact'
  BY <1>1, ExactKept
<1>4. Marked'
  BY <1>1 DEF Marked, Born
<1>5. Born'
  BY <1>1 DEF Born, Types
<1> QED
  BY <1>2, <1>3, <1>4, <1>5

LEMMA FindSound ==
    ASSUME Sound, NEW c \in Clients, NEW session \in Clients, Find(c, session)
    PROVE  Sound'
<1> USE DEF Sound
<1> DEFINE found == {i \in DOMAIN list : list[i] # NULL /\ client[list[i]].id = session}
           k == FirstOf(found)
<1>1. /\ found # {} /\ Accepts(list[k])
      /\ handler[c].pc = "reading" /\ client[c].fd # "none"
      /\ handler' = [handler EXCEPT ![c] = [pc |-> "taking", old |-> list[k]]]
      /\ UNCHANGED <<client, list, main, checker>>
  BY DEF Find, Hears
<1>2. found \subseteq DOMAIN list /\ found \subseteq Nat
  BY DEF Types
<1>3. k \in found
  BY <1>1, <1>2, FirstOfIn
<1>4. k \in DOMAIN list /\ list[k] \in Clients
  BY <1>3 DEF Types
<1>5. list[k] # c
  BY <1>1, <1>4 DEF Accepts, Marked
<1>6. client[list[k]].life = "live"
  BY <1>3, <1>4 DEF Exact, Listed, Live
<1> HIDE DEF k, found
<1>7. /\ handler' \in [Clients -> HandlerType]
      /\ \A d \in Clients \ {c} : handler'[d] = handler[d]
      /\ handler'[c].old = list[k]
  BY <1>1, <1>4 DEF Types, HandlerType
<1>8. /\ client' \in [Clients -> ClientType]
      /\ client'[c].down => client'[c].fd = "none"
  BY <1>1 DEF Types, Marked
<1> QED
  BY <1>1, <1>4, <1>5, <1>6, <1>7, <1>8, HandlerMoved

LEMMA HelloSound == ASSUME Sound, NEW c \in Clients, Hello(c) PROVE Sound'
<1>1. /\ UNCHANGED <<list, main, checker, handler>>
      /\ client' = [client EXCEPT ![c].auth = TRUE]
      /\ handler[c].pc = "reading" /\ client[c].fd # "none"
  BY DEF Hello, Hears
<1>2. /\ client' \in [Clients -> ClientType]
      /\ \A d \in Clients \ {c} : client'[d] = client[d]
      /\ client'[c].life = client[c].life
      /\ client'[c].down => client'[c].fd = "none"
  <2>1. ~client[c].down
    BY <1>1 DEF Sound, Marked
  <2>2. /\ client' \in [Clients -> ClientType]
        /\ \A d \in Clients \ {c} : client'[d] = client[d]
        /\ client'[c].life = client[c].life
    <3>1. /\ [client[c] EXCEPT !.auth = TRUE] \in ClientType
          /\ [client[c] EXCEPT !.auth = TRUE].life = client[c].life
      BY FlagSet DEF Sound, Types
    <3> QED
      BY <1>1, <3>1 DEF Sound, Types
  <2>3. client'[c].down = client[c].down
    BY <1>1 DEF Sound, Types
  <2> QED
    BY <2>1, <2>2, <2>3
<1>3. handler' \in [Clients -> HandlerType]
  BY <1>1 DEF Sound, Types
<1> QED
  BY <1>1, <1>2, <1>3, HandlerMoved

LEMMA RequestSound == ASSUME Sound, NEW c \in Clients, Request(c) PROVE Sound'
<1>1. CASE Hello(c)
  BY <1>1, HelloSound
<1>2. CASE StartGame(c) \/ LeaveGame(c) \/ EndGame(c) \/ Speak(c)
  BY <1>2, SoundUnchanged DEF StartGame, LeaveGame, EndGame, Speak
<1>3. CASE \E session \in Clients : Find(c, session)
  BY <1>3, FindSound
<1> QED
  BY <1>1, <1>2, <1>3 DEF Request

LEMMA TakeOverSound == ASSUME Sound, NEW c \in Clients, TakeOver(c) PROVE Sound'
<1> USE DEF Sound
<1> DEFINE old == handler[c].old
<1>1. /\ UNCHANGED <<list, main, checker>>
      /\ handler[c].pc = "taking"
      /\ old \in Clients \ {c} /\ client[old].life # "unborn"
      /\ client' = [client EXCEPT ![c].auth = client[old].auth,
                                  ![c].id   = client[old].id,
                                  ![c].down = FALSE]
      /\ handler' = [handler EXCEPT ![c].pc = "replacing"]
  BY DEF TakeOver, Born
<1>2. client[c] \in ClientType /\ client[old] \in ClientType
  BY <1>1 DEF Types
<1> HIDE DEF old
<1>3. /\ client' \in [Clients -> ClientType]
      /\ \A d \in Clients \ {c} : client'[d] = client[d]
      /\ client'[c].life = client[c].life
      /\ ~client'[c].down
  BY <1>1, <1>2 DEF Types, ClientType
<1>4. /\ handler' \in [Clients -> HandlerType]
      /\ \A d \in Clients \ {c} : handler'[d] = handler[d]
      /\ handler'[c].old = old
  BY <1>1 DEF Types, HandlerType, old
<1> QED
  BY <1>1, <1>3, <1>4, HandlerMoved

LEMMA ReplaceSound ==
    ASSUME Sound, NEW c \in Clients, Replace(c), ~HandlerStale(c)
    PROVE  Sound'
<1> USE DEF Sound
<1> DEFINE old == handler[c].old
<1>1. /\ UNCHANGED <<main, checker>>
      /\ handler[c].pc = "replacing"
      /\ list' = Replaced(old, c)
      /\ Free(old)
      /\ Goto(c, "reading")
  BY DEF Replace
<1>2. /\ old \in Clients \ {c}
      /\ Live(old) /\ Live(c)
  <2>1. old \in Clients \ {c} /\ client[old].life # "unborn"
    BY <1>1 DEF Born
  <2>2. client[c].life # "unborn"
    BY <1>1 DEF Born
  <2>3. ~Freed(old) /\ ~Freed(c)
    BY <1>1, <2>1, ClientsAssumption DEF HandlerStale
  <2> QED
    BY <2>1, <2>2, <2>3 DEF Types, ClientType, Freed, Live
<1> HIDE DEF old
<1>3. /\ client' \in [Clients -> ClientType]
      /\ \A d \in Clients \ {old} : client'[d] = client[d]
      /\ client'[old].life = "freed" /\ client'[old].fd = "none"
  BY <1>1, <1>2 DEF Free, Types, ClientType
<1>4. /\ handler' \in [Clients -> HandlerType]
      /\ \A d \in Clients \ {c} : handler'[d] = handler[d]
      /\ handler'[c].pc = "reading"
  BY <1>1 DEF Types, HandlerType, Goto
<1>5. /\ list' \in [DOMAIN list' -> Clients \cup {NULL}]
      /\ DOMAIN list' = DOMAIN list
      /\ Listed' = Listed \ {old}
      /\ \A i, j \in DOMAIN list' : list'[i] = list'[j] /\ list'[i] # NULL => i = j
  <2> DEFINE R == Replaced(old, c)
  <2>1. /\ R \in [DOMAIN R -> Clients \cup {NULL}]
        /\ DOMAIN R = DOMAIN list
        /\ {R[i] : i \in DOMAIN R} \ {NULL} = Listed \ {old}
        /\ \A i, j \in DOMAIN list : R[i] = R[j] /\ R[i] # NULL => i = j
    BY <1>2, ReplacedExact
  <2>2. list' = R
    BY <1>1
  <2>3. Listed' = {list'[i] : i \in DOMAIN list'} \ {NULL}
    BY DEF Listed
  <2> HIDE DEF R
  <2> QED
    BY <2>1, <2>2, <2>3
<1>6. Types'
  BY <1>1, <1>3, <1>4, <1>5 DEF Types
<1>7. Exact'
  BY <1>2, <1>3, <1>5 DEF Exact, Live
<1>8. Marked'
  BY <1>3 DEF Marked
<1>9. Born'
  BY <1>1, <1>2, <1>3, <1>4 DEF Born, Types, Live
<1> QED
  BY <1>6, <1>7, <1>8, <1>9

LEMMA GotoSound ==
    ASSUME Sound, NEW c \in Clients, NEW pc, Goto(c, pc), handler[c].pc # "ended",
           pc \in {"delisting", "telling", "ended"},
           UNCHANGED <<list, main, checker>>,
           \/ UNCHANGED client
           \/ client' = [client EXCEPT ![c].down = TRUE, ![c].fd = "none"]
           \/ client' = [client EXCEPT ![c].fd = "none"]
    PROVE  Sound'
<1> USE DEF Sound
<1>1. /\ handler' \in [Clients -> HandlerType]
      /\ \A d \in Clients \ {c} : handler'[d] = handler[d]
      /\ handler'[c].pc = pc
  BY DEF Goto, Types, HandlerType
<1>2. /\ client' \in [Clients -> ClientType]
      /\ \A d \in Clients \ {c} : client'[d] = client[d]
      /\ client'[c].life = client[c].life
      /\ client'[c].down => client'[c].fd = "none"
  <2>1. CASE UNCHANGED client
    BY <2>1 DEF Types, Marked
  <2>2. CASE client' = [client EXCEPT ![c].down = TRUE, ![c].fd = "none"]
    <3> DEFINE mid == [client EXCEPT ![c].down = TRUE]
    <3>1. /\ [client[c] EXCEPT !.down = TRUE] \in ClientType
          /\ [client[c] EXCEPT !.down = TRUE].life = client[c].life
      BY FlagSet DEF Types
    <3>2. /\ mid \in [Clients -> ClientType]
          /\ mid[c].life = client[c].life
          /\ \A d \in Clients \ {c} : mid[d] = client[d]
      BY <3>1 DEF Types
    <3>3. client' = [mid EXCEPT ![c].fd = "none"]
      BY <2>2
    <3> HIDE DEF mid
    <3> QED
      BY <3>2, <3>3 DEF ClientType
  <2>3. CASE client' = [client EXCEPT ![c].fd = "none"]
    BY <2>3 DEF Types, ClientType
  <2> QED
    BY <2>1, <2>2, <2>3
<1> QED
  BY <1>1, <1>2, HandlerMoved

LEMMA ContinueSound == ASSUME Sound, NEW c \in Clients, Continue(c) PROVE Sound'
<1>1. CASE TakeOver(c)
  BY <1>1, TakeOverSound
<1>2. CASE Replace(c)
  BY <1>2, ReplaceSound DEF Continue
<1>3. CASE Tell(c)
  BY <1>3, GotoSound DEF Tell
<1>4. CASE Delist(c)
  BY <1>4, RemovedAndFreed DEF Delist
<1> QED
  BY <1>1, <1>2, <1>3, <1>4 DEF Continue

LEMMA LoseSound == ASSUME Sound, NEW c \in Clients, Lose(c) PROVE Sound'
<1>1. CASE LoseToGame(c)
  BY <1>1, GotoSound DEF LoseToGame
<1>2. CASE LoseAndKeep(c)
  BY <1>2, GotoSound DEF LoseAndKeep
<1>3. CASE LoseOutside(c)
  BY <1>3, GotoSound DEF LoseOutside
<1> QED
  BY <1>1, <1>2, <1>3 DEF Lose

-----------------------------------------------------------------------------
(* The theorems.                                                           *)

\* Every step but those that end the process for sure keeps the list sound.
LEMMA StepSound ==
    ASSUME Sound, Next, ~Touch, ~Finish
    PROVE  Sound'
<1>1. CASE Accepting
  BY <1>1, AcceptSound DEF Accepting
<1>2. CASE Signal
  BY <1>2, SoundUnchanged DEF Signal
<1>3. CASE Main
  BY <1>3, MainSound
<1>4. CASE Pinger
  BY <1>4, PingerSound
<1>5. CASE Checker
  BY <1>5, CheckerSound
<1>6. CASE \E c \in Clients : Request(c) \/ Continue(c) \/ Lose(c)
  BY <1>6, RequestSound, ContinueSound, LoseSound
<1> QED
  BY <1>1, <1>2, <1>3, <1>4, <1>5, <1>6 DEF Next

LEMMA NextSound == ListInv /\ [Next]_vars => ListInv'
<1> SUFFICES ASSUME ListInv, [Next]_vars, process' = "up" PROVE Sound'
  BY DEF ListInv
<1>1. CASE UNCHANGED vars
  <2>1. Sound
    BY <1>1 DEF ListInv, vars
  <2> QED
    BY <1>1, <2>1, SoundUnchanged DEF vars
<1>2. CASE Next
  <2>1. process = "up"
    BY <1>2 DEF Next, Main, Pinger, Checker, Request, Continue, Lose
  <2>2. Sound /\ ~Touch /\ ~Finish
    BY <2>1 DEF ListInv, Touch, Finish
  <2> QED
    BY <1>2, <2>2, StepSound
<1> QED
  BY <1>1, <1>2

\* The invariant holds whenever the process has not ended.
THEOREM ListInvariant == Spec => []ListInv
<1>1. Init => ListInv
  BY InitSound DEF ListInv
<1> QED
  BY <1>1, NextSound, PTL DEF Spec

\* Whatever the main thread, the checker and the handlers take off the list,
\* evict and replace, it holds only clients that exist, and none twice.
THEOREM ListAlwaysSound == Spec => []ListSound
<1>1. ListInv => ListSound
  BY ClientsAssumption DEF ListInv, Sound, Exact, ListSound, Types, Listed
<1> QED
  BY <1>1, ListInvariant, PTL

\* No client that exists is missing from the list.
THEOREM NothingEverLost == Spec => []NothingLost
<1>1. ListInv => NothingLost
  BY DEF ListInv, Sound, Exact, NothingLost
<1> QED
  BY <1>1, ListInvariant, PTL

-----------------------------------------------------------------------------
(* The copy that client_list_get_all makes.  Its loop is a recursive       *)
(* function on the places of the list; that there is such a function, and  *)
(* what it returns, is shown for one place after the other.                *)

\* g filters the first m entries of s, one by one.
Filters(g, s, m) ==
    g = [i \in 0 .. m |-> IF i = 0 THEN << >>
                          ELSE IF s[i] = NULL THEN g[i - 1]
                          ELSE Append(g[i - 1], s[i])]

\* A set of numbers that holds of 0 and of each number after one it holds of, up to n.
LEMMA UpTo ==
    ASSUME NEW n \in Nat, NEW S, 0 \in S,
           \A m \in 0 .. n - 1 : m \in S => m + 1 \in S
    PROVE  \A m \in 0 .. n : m \in S
<1> DEFINE Less == {p \in Nat \X Nat : p[1] < p[2]}
           bad == {m \in 0 .. n : m \notin S}
<1> SUFFICES ASSUME bad # {} PROVE FALSE
  OBVIOUS
<1>1. IsWellFoundedOn(Less, Nat)
  BY NatLessThanWellFounded, Zenon DEF OpToRel
<1>2. bad \subseteq Nat
  OBVIOUS
<1> HIDE DEF bad
<1>3. PICK x \in bad : \A y \in bad : ~ (<<y, x>> \in Less)
  BY <1>1, <1>2, WFMin, Zenon
<1> USE DEF bad
<1>4. x \in Nat \ {0} /\ x \in 0 .. n /\ x \notin S
  OBVIOUS
<1>5. x - 1 \in 0 .. n - 1 /\ <<x - 1, x>> \in Less
  BY <1>4
<1>6. x - 1 \notin bad
  BY <1>3, <1>5
<1>7. x - 1 \in S
  BY <1>5, <1>6
<1>8. x - 1 + 1 \in S
  BY <1>5, <1>7
<1> QED
  BY <1>4, <1>8

LEMMA SnapshotUnfold ==
    Snapshot = (CHOOSE g : Filters(g, list, Len(list)))[Len(list)]
BY DEF Snapshot, Filters

LEMMA FiltersExist ==
    ASSUME NEW s, NEW n \in Nat
    PROVE  \E g : Filters(g, s, n)
<1> DEFINE S == {m \in 0 .. n : \E g : Filters(g, s, m)}
<1>1. 0 \in S
  <2> DEFINE g == [i \in 0 .. 0 |-> << >>]
  <2>1. Filters(g, s, 0)
    BY DEF Filters
  <2> QED
    BY <2>1
<1>2. ASSUME NEW m \in 0 .. n - 1, m \in S PROVE m + 1 \in S
  <2>1. PICK g : Filters(g, s, m)
    BY <1>2
  <2> DEFINE x == IF s[m + 1] = NULL THEN g[m] ELSE Append(g[m], s[m + 1])
             h == [i \in 0 .. m + 1 |-> IF i = m + 1 THEN x ELSE g[i]]
  <2>2. ASSUME NEW i \in 0 .. m + 1
        PROVE  h[i] = IF i = 0 THEN << >> ELSE IF s[i] = NULL THEN h[i - 1]
                      ELSE Append(h[i - 1], s[i])
    <3>1. CASE i = m + 1
      BY <3>1
    <3>2. CASE i # m + 1
      <4>1. i \in 0 .. m /\ (i # 0 => i - 1 \in 0 .. m)
        BY <3>2
      <4>2. g[i] = IF i = 0 THEN << >> ELSE IF s[i] = NULL THEN g[i - 1]
                   ELSE Append(g[i - 1], s[i])
        BY <2>1, <4>1 DEF Filters
      <4>3. h[i] = g[i] /\ (i # 0 => h[i - 1] = g[i - 1])
        BY <4>1
      <4> QED
        BY <4>2, <4>3
    <3> QED
      BY <3>1, <3>2
  <2>3. Filters(h, s, m + 1)
    <3>1. h = [i \in 0 .. m + 1 |-> h[i]]
      OBVIOUS
    <3> HIDE DEF h
    <3> QED
      BY <2>2, <3>1 DEF Filters
  <2> QED
    BY <2>3
<1>3. \A m \in 0 .. n : m \in S
  <2> HIDE DEF S
  <2> QED
    BY <1>1, <1>2, UpTo
<1> QED
  BY <1>3

LEMMA SnapshotIs ==
    ASSUME list \in Seq(Clients \cup {NULL})
    PROVE  /\ Snapshot \in Seq(Clients)
           /\ \A c \in Listed : \E i \in DOMAIN Snapshot : Snapshot[i] = c
<1> DEFINE n == Len(list)
           g == CHOOSE f : Filters(f, list, n)
           Held(q) == {q[j] : j \in 1 .. Len(q)}
           S == {m \in 0 .. n : /\ g[m] \in Seq(Clients)
                                /\ \A i \in 1 .. m : list[i] # NULL => list[i] \in Held(g[m])}
<1>1. n \in Nat /\ DOMAIN list = 1 .. n
  OBVIOUS
<1>2. Filters(g, list, n)
  <2> HIDE DEF n
  <2> QED
    BY <1>1, FiltersExist
<1> HIDE DEF g, n
<1>3. ASSUME NEW m \in 0 .. n
      PROVE  g[m] = IF m = 0 THEN << >> ELSE IF list[m] = NULL THEN g[m - 1]
                    ELSE Append(g[m - 1], list[m])
  BY <1>2 DEF Filters
<1>4. 0 \in S
  <2>1. g[0] = << >>
    BY <1>1, <1>3
  <2>2. g[0] \in Seq(Clients)
    BY <2>1, EmptySeq, Zenon
  <2>3. \A i \in 1 .. 0 : list[i] # NULL => list[i] \in Held(g[0])
    OBVIOUS
  <2> HIDE DEF Held
  <2> QED
    BY <1>1, <2>2, <2>3
<1>5. ASSUME NEW m \in 0 .. n - 1, m \in S PROVE m + 1 \in S
  <2>1. /\ m \in Nat /\ m + 1 \in 1 .. n /\ m + 1 \in 0 .. n
        /\ list[m + 1] \in Clients \cup {NULL}
    BY <1>1
  <2>2. /\ g[m] \in Seq(Clients)
        /\ \A i \in 1 .. m : list[i] # NULL => list[i] \in Held(g[m])
    BY <1>5
  <2>3. CASE list[m + 1] = NULL
    <3>1. g[m + 1] = g[m]
      BY <1>3, <2>1, <2>3
    <3>2. \A i \in 1 .. m + 1 : i \in 1 .. m \/ i = m + 1
      BY <2>1
    <3> HIDE DEF Held
    <3> QED
      BY <2>1, <2>2, <2>3, <3>1, <3>2
  <2>4. CASE list[m + 1] # NULL
    <3> DEFINE q == Append(g[m], list[m + 1])
    <3>1. g[m + 1] = q
      <4>1. m + 1 \in 0 .. n /\ m + 1 # 0 /\ m + 1 - 1 = m
        BY <2>1
      <4>2. g[m + 1] = IF m + 1 = 0 THEN << >> ELSE IF list[m + 1] = NULL THEN g[m + 1 - 1]
                       ELSE Append(g[m + 1 - 1], list[m + 1])
        BY <1>3, <4>1
      <4> QED
        BY <2>4, <4>1, <4>2
    <3>2. /\ q \in Seq(Clients) /\ Len(q) = Len(g[m]) + 1
          /\ \A j \in 1 .. Len(g[m]) : q[j] = g[m][j]
          /\ q[Len(q)] = list[m + 1]
      BY <2>1, <2>2, <2>4
    <3>3. Len(g[m]) \in Nat
      BY <2>2
    <3> HIDE DEF q
    <3>4. Held(g[m]) \subseteq Held(q) /\ list[m + 1] \in Held(q)
      BY <3>2, <3>3
    <3>5. \A i \in 1 .. m + 1 : i \in 1 .. m \/ i = m + 1
      BY <2>1
    <3> HIDE DEF Held
    <3> QED
      BY <2>1, <2>2, <3>1, <3>2, <3>4, <3>5
  <2> QED
    BY <2>3, <2>4
<1>6. n \in S
  <2>1. \A m \in 0 .. n : m \in S
    <3> HIDE DEF S
    <3> QED
      BY <1>1, <1>4, <1>5, UpTo
  <2> QED
    BY <1>1, <2>1
<1>7. Snapshot = g[n]
  BY SnapshotUnfold DEF g, n
<1>8. \A c \in Listed : \E i \in 1 .. n : list[i] = c /\ list[i] # NULL
  BY <1>1 DEF Listed
<1>9. Snapshot \in Seq(Clients) /\ \A c \in Listed : c \in Held(Snapshot)
  <2> HIDE DEF Held
  <2> QED
    BY <1>6, <1>7, <1>8
<1> QED
  BY <1>9

-----------------------------------------------------------------------------
(* The types.                                                              *)

\* What TypeOK says beyond the part that the list needs.
Others(pl, ru, ma, pi, to) ==
    /\ pl \subseteq Clients
    /\ ru \in BOOLEAN
    /\ ma \in MainType
    /\ pi \in {"running", "ended"}
    /\ to \subseteq Clients

Process(pr) == pr \in {"up", "touched", "killed", "over"}

\* What becomes of the process by sending.
LEMMA SendTyped ==
    ASSUME NEW S
    PROVE  Outcomes(S) \subseteq {"up", "touched", "killed", "over"}
BY DEF Outcomes

LEMMA ProcessNext ==
    ASSUME TypeOK, Next
    PROVE  Process(process')
<1>1. ASSUME NEW S, Send(S) PROVE Process(process')
  BY <1>1, SendTyped DEF Send, Process
<1>2. ASSUME process' = process PROVE Process(process')
  BY <1>2 DEF Process, TypeOK
<1>3. ASSUME NEW c \in Clients, Accept(c) PROVE Process(process')
  BY <1>2, <1>3 DEF Accept
<1>4. CASE Signal \/ Touch
  BY <1>2, <1>4 DEF Signal, Touch, Process
<1>5. CASE Main
  <2>1. CASE Notify
    BY <1>1, <2>1 DEF Notify
  <2>2. CASE Finish
    BY <2>2 DEF Finish, Process
  <2> QED
    BY <1>2, <1>5, <2>1, <2>2
       DEF Main, Spawn, SpawnFailed, BeginShutdown, BeginCutting, Cut, Join
<1>6. CASE Pinger
  <2>1. CASE Ping
    BY <1>1, <2>1 DEF Ping
  <2> QED
    BY <1>2, <1>6, <2>1 DEF Pinger, PingerEnds
<1>7. CASE Checker
  <2>1. CASE Expire
    BY <1>1, <1>2, <2>1 DEF Expire
  <2> QED
    BY <1>2, <1>7, <2>1 DEF Checker, CheckRound, Examine, CutOff
<1>8. ASSUME NEW c \in Clients, Request(c) PROVE Process(process')
  <2>1. CASE \E session \in Clients : Find(c, session)
    BY <1>2, <2>1 DEF Find
  <2>2. CASE StartGame(c)
    BY <1>1, <2>2 DEF StartGame
  <2> QED
    BY <1>1, <1>8, <2>1, <2>2 DEF Request, Hello, LeaveGame, EndGame, Speak
<1>9. ASSUME NEW c \in Clients, Continue(c) PROVE Process(process')
  <2>1. CASE Replace(c) \/ Tell(c)
    BY <1>1, <2>1 DEF Replace, Tell
  <2> QED
    BY <1>2, <1>9, <2>1 DEF Continue, TakeOver, Delist
<1>10. ASSUME NEW c \in Clients, Lose(c) PROVE Process(process')
  <2>1. CASE LoseToGame(c)
    BY <1>1, <2>1 DEF LoseToGame
  <2> QED
    BY <1>2, <1>10, <2>1 DEF Lose, LoseAndKeep, LoseOutside
<1> QED
  BY <1>3, <1>4, <1>5, <1>6, <1>7, <1>8, <1>9, <1>10 DEF Next, Accepting

\* The list keeps its length.
LEMMA ListTyped ==
    ASSUME list \in Seq(Clients \cup {NULL}), Len(list) \in Sizes,
           list' \in [DOMAIN list' -> Clients \cup {NULL}],
           DOMAIN list' = DOMAIN list
    PROVE  list' \in Seq(Clients \cup {NULL}) /\ Len(list') \in Sizes
<1>1. DOMAIN list = 1 .. Len(list) /\ Len(list) \in Nat
  OBVIOUS
<1>2. list' \in [1 .. Len(list) -> Clients \cup {NULL}]
  BY <1>1
<1>3. list' \in Seq(Clients \cup {NULL})
  BY <1>1, <1>2, SeqDef
<1>4. Len(list') = Len(list)
  BY <1>1, <1>2, <1>3, LenProperties
<1> QED
  BY <1>3, <1>4

LEMMA DomainKept ==
    ASSUME Next
    PROVE  DOMAIN list' = DOMAIN list
<1>1. ASSUME NEW c PROVE DOMAIN Removed(c) = DOMAIN list
  BY DEF Removed
<1>2. ASSUME NEW c, NEW d PROVE DOMAIN Replaced(c, d) = DOMAIN list
  BY DEF Replaced
<1>3. ASSUME NEW c \in Clients, Accept(c) PROVE DOMAIN list' = DOMAIN list
  BY <1>3 DEF Accept
<1>4. ASSUME Main PROVE DOMAIN list' = DOMAIN list
  BY <1>1, <1>4 DEF Main, Spawn, SpawnFailed, BeginShutdown, Notify,
                    BeginCutting, Cut, Join, Finish
<1>5. ASSUME Checker PROVE DOMAIN list' = DOMAIN list
  BY <1>1, <1>5 DEF Checker, CheckRound, Examine, CutOff, Expire
<1>6. ASSUME NEW c \in Clients, Request(c) PROVE list' = list
  BY <1>6 DEF Request, Hello, StartGame, LeaveGame, EndGame, Speak, Find
<1>7. ASSUME NEW c \in Clients, Continue(c) PROVE DOMAIN list' = DOMAIN list
  BY <1>1, <1>2, <1>7 DEF Continue, TakeOver, Replace, Tell, Delist
<1>8. ASSUME NEW c \in Clients, Lose(c) PROVE list' = list
  BY <1>8 DEF Lose, LoseToGame, LoseAndKeep, LoseOutside
<1>9. ASSUME Pinger \/ Signal \/ Touch PROVE list' = list
  BY <1>9 DEF Pinger, Ping, PingerEnds, Signal, Touch
<1> QED
  BY <1>3, <1>4, <1>5, <1>6, <1>7, <1>8, <1>9 DEF Next, Accepting

\* A sequence without its first entry, and the place of the main thread.
LEMMA MainSet ==
    ASSUME main \in MainType
    PROVE  /\ \A pc \in {"accepting", "spawning"} : \A c \in Clients \cup {NULL} :
                 [main EXCEPT !.pc = pc, !.client = c] \in MainType
           /\ \A pc \in {"notifying", "cutting"} : \A q \in Seq(Clients) :
                 [main EXCEPT !.pc = pc, !.todo = q] \in MainType
           /\ \A pc \in {"waiting", "over"} : [main EXCEPT !.pc = pc] \in MainType
           /\ main.todo # <<>> => [main EXCEPT !.todo = Tail(@)] \in MainType
<1>1. main.todo \in Seq(Clients)
  BY DEF MainType
<1>2. main.todo # <<>> => Tail(main.todo) \in Seq(Clients)
  BY <1>1, HeadTailProperties
<1> QED
  BY <1>2 DEF MainType

LEMMA OthersNext ==
    ASSUME TypeOK, Next
    PROVE  Others(players', running', main', pinger', told')
<1> DEFINE P == Others(players', running', main', pinger', told')
<1>1. /\ players \subseteq Clients /\ running \in BOOLEAN /\ main \in MainType
      /\ pinger \in {"running", "ended"} /\ told \subseteq Clients
  BY DEF TypeOK
<1>a. ASSUME main' \in MainType, UNCHANGED <<players, running, pinger, told>>
      PROVE  P
  BY <1>1, <1>a DEF Others
<1>b. ASSUME players' \subseteq Clients, UNCHANGED <<running, main, pinger, told>>
      PROVE  P
  BY <1>1, <1>b DEF Others
<1>2. ASSUME NEW c \in Clients, Accept(c) PROVE P
  <2>1. main' = main \/ main' = [main EXCEPT !.pc = "spawning", !.client = c]
    BY <1>2 DEF Accept
  <2>2. main' \in MainType
    BY <2>1, <1>1, MainSet
  <2> QED
    BY <1>2, <1>a, <2>2 DEF Accept
<1>3. ASSUME Signal PROVE P
  BY <1>1, <1>3 DEF Signal, Others
<1>4. ASSUME Touch PROVE P
  BY <1>1, <1>a, <1>4 DEF Touch
<1>5. ASSUME Spawn \/ SpawnFailed PROVE P
  <2>1. main' = [main EXCEPT !.pc = "accepting", !.client = NULL]
    BY <1>5 DEF Spawn, SpawnFailed
  <2>2. main' \in MainType
    BY <2>1, <1>1, MainSet
  <2> QED
    BY <1>5, <1>a, <2>2 DEF Spawn, SpawnFailed
<1>6. ASSUME BeginShutdown \/ BeginCutting PROVE P
  <2>1. Snapshot \in Seq(Clients)
    BY SnapshotIs DEF TypeOK
  <2>2. \E pc \in {"notifying", "cutting"} :
           main' = [main EXCEPT !.pc = pc, !.todo = Snapshot]
    BY <1>6 DEF BeginShutdown, BeginCutting
  <2>3. main' \in MainType
    <3> HIDE DEF Snapshot
    <3> QED
      BY <1>1, <2>1, <2>2, MainSet
  <2> QED
    BY <1>6, <1>a, <2>3 DEF BeginShutdown, BeginCutting
<1>7. ASSUME Notify PROVE P
  <2>1. main' = [main EXCEPT !.todo = Tail(@)] /\ main.todo # <<>>
    BY <1>7 DEF Notify
  <2>2. main' \in MainType
    BY <2>1, <1>1, MainSet
  <2>3. Head(main.todo) \in Clients
    <3>1. main.todo \in Seq(Clients)
      BY DEF TypeOK, MainType
    <3> QED
      BY <2>1, <3>1, HeadTailProperties
  <2>4. told' \subseteq Clients
    BY <1>1, <1>7, <2>3 DEF Notify
  <2> QED
    BY <1>1, <1>7, <2>2, <2>4 DEF Notify, Others
<1>8. ASSUME Cut PROVE P
  <2>1. main' = [main EXCEPT !.todo = Tail(@)] /\ main.todo # <<>>
    BY <1>8 DEF Cut
  <2>2. main' \in MainType
    BY <2>1, <1>1, MainSet
  <2> QED
    BY <1>8, <1>a, <2>2 DEF Cut
<1>9. ASSUME Join \/ Finish PROVE P
  <2>1. \E pc \in {"waiting", "over"} : main' = [main EXCEPT !.pc = pc]
    BY <1>9 DEF Join, Finish
  <2>2. main' \in MainType
    BY <2>1, <1>1, MainSet
  <2>3. players' \subseteq Clients /\ UNCHANGED <<running, pinger, told>>
    BY <1>1, <1>9 DEF Join, Finish
  <2> QED
    BY <1>1, <2>2, <2>3 DEF Others
<1>10. ASSUME Pinger PROVE P
  BY <1>1, <1>10 DEF Pinger, Ping, PingerEnds, Others
<1>11. ASSUME Checker PROVE P
  <2>1. players' \subseteq Clients /\ UNCHANGED <<running, main, pinger, told>>
    BY <1>1, <1>11 DEF Checker, CheckRound, Examine, CutOff, Expire
  <2> QED
    BY <1>b, <2>1
<1>12. ASSUME NEW c \in Clients, Request(c) PROVE P
  <2>1. players' \subseteq Clients /\ UNCHANGED <<running, main, pinger, told>>
    BY <1>1, <1>12
       DEF Request, Hello, StartGame, LeaveGame, EndGame, Speak, Find, Without
  <2> QED
    BY <1>b, <2>1
<1>13. ASSUME NEW c \in Clients, Continue(c) PROVE P
  <2>1. players' \subseteq Clients /\ UNCHANGED <<running, main, pinger, told>>
    BY <1>1, <1>13 DEF Continue, TakeOver, Replace, Tell, Delist
  <2> QED
    BY <1>b, <2>1
<1>14. ASSUME NEW c \in Clients, Lose(c) PROVE P
  <2>1. players' \subseteq Clients /\ UNCHANGED <<running, main, pinger, told>>
    BY <1>1, <1>14 DEF Lose, LoseToGame, LoseAndKeep, LoseOutside
  <2> QED
    BY <1>b, <2>1
<1>15. P
  <2> HIDE DEF P
  <2>1. Main => P
    BY <1>5, <1>6, <1>7, <1>8, <1>9 DEF Main
  <2> QED
    BY <1>2, <1>3, <1>4, <1>10, <1>11, <1>12, <1>13, <1>14, <2>1
       DEF Next, Accepting
<1> QED
  BY <1>15

LEMMA TypeNext == TypeOK /\ ListInv /\ [Next]_vars => TypeOK'
<1> SUFFICES ASSUME TypeOK, ListInv, [Next]_vars PROVE TypeOK'
  OBVIOUS
<1>1. CASE UNCHANGED vars
  BY <1>1 DEF TypeOK, vars
<1>2. CASE Next
  <2>1. Sound
    BY <1>2 DEF ListInv, Next, Main, Pinger, Checker, Request, Continue, Lose
  <2>2. /\ client' \in [Clients -> ClientType] /\ checker' \in CheckerType
        /\ handler' \in [Clients -> HandlerType]
        /\ list' \in [DOMAIN list' -> Clients \cup {NULL}]
    <3>1. CASE Touch
      BY <2>1, <3>1 DEF Touch, TypeOK, Sound, Types
    <3>2. CASE Finish
      <4>1. list' \in [DOMAIN list' -> Clients \cup {NULL}]
        BY <3>2 DEF Finish
      <4>2. ASSUME NEW c \in Clients
            PROVE  [client[c] EXCEPT !.life = "freed", !.fd = "none"] \in ClientType
        <5>1. client[c] \in ClientType
          BY DEF TypeOK
        <5> QED
          BY <5>1 DEF ClientType
      <4>3. client' \in [Clients -> ClientType]
        BY <3>2, <4>2 DEF Finish, TypeOK
      <4> QED
        BY <3>2, <4>1, <4>3 DEF Finish, TypeOK
    <3>3. CASE ~Touch /\ ~Finish
      BY <1>2, <2>1, <3>3, StepSound DEF Sound, Types
    <3> QED
      BY <3>1, <3>2, <3>3
  <2>3. list' \in Seq(Clients \cup {NULL}) /\ Len(list') \in Sizes
    BY <1>2, <2>2, DomainKept, ListTyped DEF TypeOK
  <2>4. Others(players', running', main', pinger', told') /\ Process(process')
    BY <1>2, OthersNext, ProcessNext
  <2> QED
    BY <2>2, <2>3, <2>4 DEF TypeOK, Others, Process
<1> QED
  BY <1>1, <1>2

LEMMA InitTyped == Init => TypeOK
<1> SUFFICES ASSUME Init PROVE TypeOK
  OBVIOUS
<1>1. PICK n \in Sizes : list = [i \in 1 .. n |-> NULL]
  BY DEF Init
<1>2. n \in Nat
  BY SizesAssumption
<1>3. list \in [1 .. n -> Clients \cup {NULL}]
  BY <1>1
<1>4. list \in Seq(Clients \cup {NULL})
  BY <1>2, <1>3, SeqDef
<1>5. Len(list) = n
  BY <1>1, <1>2, <1>4, LenProperties
<1>6. main \in MainType
  <2>1. main = [pc |-> "accepting", client |-> NULL, todo |-> <<>>]
    BY DEF Init
  <2>2. PICK q \in Seq(Clients) : q = <<>>
    BY EmptySeq, Zenon
  <2>3. main = [pc |-> "accepting", client |-> NULL, todo |-> q]
    BY <2>1, <2>2, Zenon
  <2> QED
    BY <2>3 DEF MainType
<1> QED
  BY <1>4, <1>5, <1>6, InitSound DEF Init, TypeOK, Sound, Types

\* Every object and thread keeps to its type, whatever ends the process.
THEOREM LifeTypeCorrect == Spec => []TypeOK
BY InitTyped, TypeNext, ListInvariant, PTL DEF Spec

-----------------------------------------------------------------------------
(* Whom the shutdown tells and whom it cuts off.                           *)

InTodo(q) == {q[i] : i \in DOMAIN q}

\* The client objects cl, the main thread ma and the clients to that were told:
\* only clients that exist have a socket, none is cut before the second copy,
\* and whoever has one has been told by then or is still to be told.
Told(cl, ma, to) ==
    /\ \A x \in Clients : cl[x].fd # "none" => cl[x].life = "live"
    /\ ma.pc \in {"accepting", "spawning", "notifying"} =>
          \A x \in Clients : cl[x].fd # "shut"
    /\ ma.pc = "notifying" =>
          \A x \in Clients : cl[x].fd = "open" => x \in to \cup InTodo(ma.todo)
    /\ ma.pc \in {"cutting", "waiting", "over"} =>
          \A x \in Clients : cl[x].fd # "none" => x \in to

ToldInv == process = "up" => Told(client, main, told)

\* What the threads other than the main thread do to sockets: they close them.
Closing(cl) ==
    \A x \in Clients : cl[x].fd # "none" =>
        cl[x].fd = client[x].fd /\ cl[x].life = client[x].life

LEMMA ToldClosing ==
    ASSUME Told(client, main, told), Closing(client'), main' = main, told' = told
    PROVE  Told(client', main', told')
BY DEF Told, Closing

LEMMA ToldSame ==
    ASSUME Told(client, main, told), client' = client, main' = main, told' = told
    PROVE  Told(client', main', told')
BY DEF Told

LEMMA FreeCloses ==
    ASSUME client \in [Clients -> ClientType], NEW c \in Clients, Free(c)
    PROVE  Closing(client')
BY DEF Free, Closing, ClientType

\* The first entry of a copy and the others.
LEMMA InHeadTail ==
    ASSUME NEW q \in Seq(Clients), q # <<>>
    PROVE  /\ Head(q) \in Clients
           /\ InTodo(q) \subseteq {Head(q)} \cup InTodo(Tail(q))
<1>1. /\ Head(q) \in Clients /\ Tail(q) \in Seq(Clients)
      /\ Len(q) \in Nat /\ Len(q) > 0 /\ Len(Tail(q)) = Len(q) - 1
      /\ DOMAIN q = 1 .. Len(q) /\ DOMAIN Tail(q) = 1 .. Len(Tail(q))
      /\ Head(q) = q[1]
      /\ \A i \in 1 .. Len(Tail(q)) : Tail(q)[i] = q[i + 1]
  BY HeadTailProperties, LenProperties, EmptySeq
<1>2. ASSUME NEW i \in DOMAIN q, i # 1
      PROVE  i - 1 \in DOMAIN Tail(q) /\ Tail(q)[i - 1] = q[i]
  BY <1>1, <1>2
<1>3. ASSUME NEW i \in DOMAIN q PROVE q[i] \in {Head(q)} \cup InTodo(Tail(q))
  <2>1. CASE i = 1
    BY <1>1, <2>1
  <2>2. CASE i # 1
    BY <1>2, <2>2 DEF InTodo
  <2> QED
    BY <2>1, <2>2
<1> QED
  BY <1>1, <1>3 DEF InTodo

LEMMA AcceptTold ==
    ASSUME client \in [Clients -> ClientType], Told(client, main, told),
           list \in Seq(Clients \cup {NULL}), main \in MainType,
           NEW c \in Clients, Accept(c)
    PROVE  Told(client', main', told')
<1>1. /\ main.pc = "accepting" /\ main'.pc \in {"accepting", "spawning"} /\ told' = told
  BY DEF Accept, MainType
<1>2. \A x \in Clients : /\ client[x].fd # "none" => client[x].life = "live"
                         /\ client[x].fd # "shut"
  BY <1>1 DEF Told
<1>3. client[c].fd = "none"
  BY <1>2 DEF Accept
<1>4. client[c] \in ClientType /\ Fresh(c).fd = "open" /\ Fresh(c).life = "live"
  BY DEF Fresh, ClientType
<1>5. \A x \in Clients : /\ client'[x].fd # "none" => client'[x].life = "live"
                         /\ client'[x].fd # "shut"
  <2>1. CASE client' = [client EXCEPT ![c] = Fresh(c)]
    BY <1>2, <1>4, <2>1
  <2>2. CASE client' = [client EXCEPT ![c].life = "freed"]
    BY <1>2, <1>3, <2>2 DEF ClientType
  <2>3. CASE /\ Zombies # {}
             /\ client' = [client EXCEPT ![list[FirstOf(Zombies)]].life = "freed",
                                         ![c] = Fresh(c)]
    <3> DEFINE z == list[FirstOf(Zombies)]
    <3>1. Zombies \subseteq Nat
      BY DEF Zombies
    <3>2. FirstOf(Zombies) \in Zombies
      BY <2>3, <3>1, FirstOfIn
    <3>3. z \in Clients /\ client[z].fd = "none"
      BY <3>2 DEF Zombies
    <3> HIDE DEF z
    <3> QED
      BY <1>2, <1>4, <2>3, <3>3 DEF z, ClientType
  <2> QED
    BY <2>1, <2>2, <2>3 DEF Accept
<1> QED
  BY <1>1, <1>5 DEF Told

LEMMA MainTold ==
    ASSUME TypeOK, Sound, Told(client, main, told), Main, ~Finish
    PROVE  Told(client', main', told')
<1>1. /\ client \in [Clients -> ClientType] /\ main \in MainType
      /\ main.todo \in Seq(Clients)
  BY DEF TypeOK, MainType
<1>2. ASSUME Spawn PROVE Told(client', main', told')
  <2>1. main.pc = "spawning" /\ main'.pc = "accepting" /\ told' = told /\ client' = client
    BY <1>1, <1>2 DEF Spawn, MainType
  <2> QED
    BY <2>1 DEF Told
<1>3. ASSUME SpawnFailed PROVE Told(client', main', told')
  <2>1. main.pc = "spawning" /\ main'.pc = "accepting" /\ told' = told
    BY <1>1, <1>3 DEF SpawnFailed, MainType
  <2>2. Closing(client')
    BY <1>1, <1>3, <2>1, FreeCloses DEF SpawnFailed, Sound, Types
  <2> QED
    BY <2>1, <2>2 DEF Told, Closing
<1>4. ASSUME BeginShutdown PROVE Told(client', main', told')
  <2>1. /\ main.pc = "accepting" /\ main'.pc = "notifying" /\ main'.todo = Snapshot
        /\ told' = told /\ client' = client
    BY <1>1, <1>4 DEF BeginShutdown, MainType
  <2>2. \A x \in Listed : x \in InTodo(Snapshot)
    BY SnapshotIs DEF TypeOK, InTodo
  <2>3. \A x \in Clients : client[x].fd # "none" => x \in InTodo(Snapshot)
    BY <2>2 DEF Told, Sound, Exact, Live
  <2> QED
    BY <2>1, <2>3 DEF Told
<1>5. ASSUME Notify PROVE Told(client', main', told')
  <2> DEFINE h == Head(main.todo)
  <2>1. /\ main.pc = "notifying" /\ main'.pc = "notifying" /\ main'.todo = Tail(main.todo)
        /\ client' = client /\ main.todo # <<>>
        /\ told' = IF Notifies(h) THEN told \cup {h} ELSE told
    BY <1>1, <1>5 DEF Notify, MainType
  <2>2. h \in Clients /\ InTodo(main.todo) \subseteq {h} \cup InTodo(Tail(main.todo))
    BY <1>1, <2>1, InHeadTail
  <2>3. client[h].fd = "open" => Notifies(h)
    BY <2>2 DEF Notifies, Sound, Marked
  <2> HIDE DEF h
  <2>4. \A x \in Clients : client[x].fd = "open" =>
            x \in told' \cup InTodo(Tail(main.todo))
    BY <2>1, <2>2, <2>3 DEF Told
  <2> QED
    BY <2>1, <2>4 DEF Told
<1>6. ASSUME BeginCutting PROVE Told(client', main', told')
  <2>1. /\ main.pc = "notifying" /\ main'.pc = "cutting" /\ main.todo = <<>>
        /\ told' = told /\ client' = client
    BY <1>1, <1>6 DEF BeginCutting, MainType
  <2>2. InTodo(main.todo) = {}
    BY <2>1 DEF InTodo
  <2>3. \A x \in Clients : client[x].fd \in {"open", "shut", "none"}
    BY <1>1 DEF ClientType
  <2> QED
    BY <2>1, <2>2, <2>3 DEF Told
<1>7. ASSUME Cut PROVE Told(client', main', told')
  <2> DEFINE h == Head(main.todo)
  <2>1. /\ main.pc = "cutting" /\ main'.pc = "cutting" /\ main.todo # <<>>
        /\ told' = told /\ client' = [client EXCEPT ![h].fd = CutFd(h)]
    BY <1>1, <1>7 DEF Cut, MainType
  <2>2. h \in Clients
    BY <1>1, <2>1, InHeadTail
  <2>3. CutFd(h) # "none" => client[h].fd # "none"
    BY DEF CutFd
  <2> HIDE DEF h
  <2>4. \A x \in Clients : /\ client'[x].life = client[x].life
                           /\ client'[x].fd # "none" => client[x].fd # "none"
    BY <1>1, <2>1, <2>2, <2>3 DEF ClientType
  <2> QED
    BY <2>1, <2>4 DEF Told
<1>8. ASSUME Join PROVE Told(client', main', told')
  <2>1. /\ main.pc = "cutting" /\ main'.pc = "waiting"
        /\ told' = told /\ client' = client
    BY <1>1, <1>8 DEF Join, MainType
  <2> QED
    BY <2>1 DEF Told
<1> QED
  BY <1>2, <1>3, <1>4, <1>5, <1>6, <1>7, <1>8 DEF Main

LEMMA ThreadTold ==
    ASSUME Sound, Told(client, main, told),
           Pinger \/ Checker \/ Signal
             \/ (\E c \in Clients : Request(c) \/ Continue(c) \/ Lose(c))
    PROVE  Told(client', main', told')
<1>1. client \in [Clients -> ClientType]
  BY DEF Sound, Types
<1>2. main' = main /\ told' = told
  BY DEF Pinger, Ping, PingerEnds, Signal, Checker, CheckRound, Examine, CutOff,
         Expire, Request, Hello, StartGame, LeaveGame, EndGame, Speak, Find,
         Continue, TakeOver, Replace, Tell, Delist, Lose, LoseToGame, LoseAndKeep,
         LoseOutside
<1>3. ASSUME client' = client PROVE Closing(client')
  BY <1>3 DEF Closing
<1>4. ASSUME Pinger \/ Signal PROVE Closing(client')
  BY <1>3, <1>4 DEF Pinger, Ping, PingerEnds, Signal
<1>5. ASSUME Checker PROVE Closing(client')
  <2>1. checker.pc \in {"looking", "acting"} => checker.at \in Clients
    BY DEF Sound, Born
  <2>2. CASE CutOff
    BY <1>1, <2>1, <2>2 DEF CutOff, Closing, ClientType
  <2>3. CASE Expire
    BY <1>1, <2>1, <2>3, FreeCloses DEF Expire
  <2> QED
    BY <1>3, <1>5, <2>2, <2>3 DEF Checker, CheckRound, Examine
<1>6. ASSUME NEW c \in Clients, Request(c) PROVE Closing(client')
  <2>1. CASE Hello(c)
    BY <1>1, <2>1 DEF Hello, Closing, ClientType
  <2> QED
    BY <1>3, <1>6, <2>1 DEF Request, StartGame, LeaveGame, EndGame, Speak, Find
<1>7. ASSUME NEW c \in Clients, Continue(c) PROVE Closing(client')
  <2>1. CASE TakeOver(c)
    BY <1>1, <2>1 DEF TakeOver, Closing, ClientType
  <2>2. CASE Replace(c)
    <3>1. handler[c].old \in Clients
      BY <2>2 DEF Replace, Sound, Born
    <3> QED
      BY <1>1, <2>2, <3>1, FreeCloses DEF Replace
  <2>3. CASE Delist(c)
    BY <1>1, <2>3, FreeCloses DEF Delist
  <2> QED
    BY <1>3, <1>7, <2>1, <2>2, <2>3 DEF Continue, Tell
<1>8. ASSUME NEW c \in Clients, Lose(c) PROVE Closing(client')
  <2>1. CASE LoseAndKeep(c)
    BY <1>1, <2>1 DEF LoseAndKeep, Closing, ClientType
  <2>2. CASE LoseOutside(c)
    BY <1>1, <1>3, <2>2 DEF LoseOutside, Closing, ClientType
  <2> QED
    BY <1>3, <1>8, <2>1, <2>2 DEF Lose, LoseToGame
<1>9. Closing(client')
  BY <1>4, <1>5, <1>6, <1>7, <1>8
<1> QED
  BY <1>2, <1>9, ToldClosing

LEMMA ToldNext == TypeOK /\ ListInv /\ ToldInv /\ [Next]_vars => ToldInv'
<1> SUFFICES ASSUME TypeOK, ListInv, ToldInv, [Next]_vars, process' = "up"
             PROVE  Told(client', main', told')
  BY DEF ToldInv
<1>1. CASE UNCHANGED vars
  BY <1>1, ToldSame DEF ToldInv, vars
<1>2. CASE Next
  <2>1. process = "up"
    BY <1>2 DEF Next, Main, Pinger, Checker, Request, Continue, Lose
  <2>2. Sound /\ Told(client, main, told) /\ ~Touch /\ ~Finish
    BY <2>1 DEF ListInv, ToldInv, Touch, Finish
  <2>3. CASE Accepting
    BY <2>2, <2>3, AcceptTold DEF Accepting, TypeOK
  <2>4. CASE Main
    BY <2>2, <2>4, MainTold
  <2> QED
    BY <1>2, <2>2, <2>3, <2>4, ThreadTold DEF Next
<1> QED
  BY <1>1, <1>2

\* A socket that the shutdown cuts belongs to a client that it has told: who
\* has a socket when the second copy of the list is made was in the first.
THEOREM AlwaysToldBeforeCut == Spec => []ToldBeforeCut
<1>1. Init => ToldInv
  BY DEF Init, ToldInv, Told
<1>2. TypeOK /\ ToldInv => ToldBeforeCut
  BY DEF ToldInv, Told, ToldBeforeCut, Live, TypeOK, MainType
<1> QED
  BY <1>1, <1>2, ToldNext, LifeTypeCorrect, ListInvariant, PTL DEF Spec
=============================================================================

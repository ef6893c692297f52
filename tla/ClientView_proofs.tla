------------------------- MODULE ClientView_proofs -------------------------
(***************************************************************************)
(* What the client shows and what the server has, for every number of      *)
(* pairs, every deal and every length of the queues.                       *)
(*                                                                         *)
(* The properties speak of the moments when nothing is on its way.  The    *)
(* invariant behind them speaks of every moment: the messages on their way *)
(* LEAD from the view the client has to the one that agrees with the       *)
(* server.  The server keeps it by sending what turns its old view into    *)
(* the new one, the reader by doing what the first message says, and the   *)
(* screen because its tasks make of myTurn what is DUE and leave no hidden *)
(* card that is not COVERED.  A loss of the connection breaks it, and      *)
(* GAME_STATE restores it, unless a FLIP of the rival has overtaken it.    *)
(***************************************************************************)
EXTENDS ClientView, Game_proofs, SequenceTheorems

-----------------------------------------------------------------------------
(* The messages, and what each does to the view a player has of the board. *)

\* The messages a client receives, and the tasks of Platform.runLater.
GameStates == [kind : {"GAME_STATE"}, current : Clients \cup {NULL},
               up : SUBSET Cards, matched : SUBSET Cards]
Messages ==
    [kind : {"YOUR_TURN", "MATCH", "ERROR", "GAME_END"}]
    \cup [kind : {"CARD_REVEAL"}, card : Cards]
    \cup [kind : {"MISMATCH"}, next : Clients \cup {NULL}]
    \cup [kind : {"GAME_START"}, first : Clients \cup {NULL}]
    \cup GameStates
Tasks ==
    [do : {"build"}]
    \cup [do : {"show", "hide"}, cards : SUBSET Cards]
    \cup [do : {"turn"}, mine : BOOLEAN]
    \cup [do : {"mismatch"}, cards : SUBSET Cards, mine : BOOLEAN]

\* A view of the board: cardMatched, flippedIndices, whose turn it is, and the
\* cards that may show a value without being covered by a task.
Boards(g) == [matched : SUBSET CardsIn(g, "MATCHED"), flipped : Seq(Cards),
              turn : BOOLEAN, owed : SUBSET Cards]

\* flippedIndices when it has been cleared.
Nothing == <<>>

\* What a message does to a view of the board.
Apply(m, v) ==
    CASE m.kind = "GAME_START"  -> [v EXCEPT !.matched = {}, !.turn = (m.first = Me)]
      [] m.kind = "CARD_REVEAL" -> [v EXCEPT !.flipped = Append(v.flipped, m.card),
                                             !.owed = v.owed \cup {m.card}]
      [] m.kind = "MATCH"       -> [v EXCEPT !.matched = v.matched \cup Lists!ToSet(v.flipped),
                                             !.flipped = Nothing]
      [] m.kind = "MISMATCH"    -> [v EXCEPT !.flipped = Nothing,
                                             !.turn = (m.next = Me),
                                             !.owed = v.owed \ Lists!ToSet(v.flipped)]
      [] m.kind = "GAME_STATE"  -> [v EXCEPT !.matched = v.matched \cup m.matched,
                                             !.flipped = Lists!SetToSeq(m.up),
                                             !.turn = (m.current = Me)]
      [] OTHER -> v

\* YOUR_TURN is only ever sent to a player whose turn it is already.
Fits(m, v) == m.kind = "YOUR_TURN" => v.turn

\* Reading the messages s, one after the other, leads from the view v to the
\* view w, and every view on the way holds only cards that have left the board.
Leads(v, s, w, g) ==
    \E path \in [0 .. Len(s) -> Boards(g)] :
        /\ path[0] = v /\ path[Len(s)] = w
        /\ \A k \in 1 .. Len(s) :
              Fits(s[k], path[k - 1]) /\ path[k] = Apply(s[k], path[k - 1])

\* No message, no change.
LEMMA LeadsEmpty ==
    ASSUME NEW g, NEW v, NEW w
    PROVE  Leads(v, <<>>, w, g) <=> v = w /\ v \in Boards(g)
<1>1. ASSUME v = w, v \in Boards(g)
      PROVE  Leads(v, <<>>, w, g)
  <2> DEFINE path == [k \in 0 .. 0 |-> v]
  <2>1. path \in [0 .. Len(<<>>) -> Boards(g)] /\ path[0] = v /\ path[Len(<<>>)] = w
    BY <1>1
  <2>2. 1 .. Len(<<>>) = {}
    OBVIOUS
  <2> HIDE DEF path
  <2> QED
    BY <2>1, <2>2 DEF Leads
<1>2. ASSUME Leads(v, <<>>, w, g)
      PROVE  v = w /\ v \in Boards(g)
  BY <1>2 DEF Leads
<1> QED
  BY <1>1, <1>2

\* One message more, at the end: the server sends.
LEMMA LeadsAppend ==
    ASSUME NEW g, NEW s \in Seq(Messages), NEW m \in Messages, NEW v, NEW w,
           Leads(v, s, w, g), Fits(m, w), Apply(m, w) \in Boards(g)
    PROVE  Leads(v, Append(s, m), Apply(m, w), g)
<1>1. PICK path \in [0 .. Len(s) -> Boards(g)] :
          /\ path[0] = v /\ path[Len(s)] = w
          /\ \A k \in 1 .. Len(s) :
                Fits(s[k], path[k - 1]) /\ path[k] = Apply(s[k], path[k - 1])
  BY DEF Leads
<1> DEFINE n == Len(s)
           x == Apply(m, w)
           t == Append(s, m)
           longer == [k \in 0 .. n + 1 |-> IF k = n + 1 THEN x ELSE path[k]]
<1> HIDE DEF x
<1>2. n \in Nat /\ Len(t) = n + 1 /\ t[n + 1] = m /\ \A k \in 1 .. n : t[k] = s[k]
  OBVIOUS
<1> HIDE DEF n, t
<1>3. longer \in [0 .. n + 1 -> Boards(g)]
  BY <1>1, <1>2 DEF x, n
<1>4. longer[0] = v /\ longer[n + 1] = x /\ longer[n] = w
  BY <1>1, <1>2 DEF n
<1>5. ASSUME NEW k \in 1 .. n
      PROVE  Fits(t[k], longer[k - 1]) /\ longer[k] = Apply(t[k], longer[k - 1])
  <2>1. longer[k] = path[k] /\ longer[k - 1] = path[k - 1] /\ t[k] = s[k]
    BY <1>2
  <2> HIDE DEF longer
  <2> QED
    BY <1>1, <2>1 DEF n
<1> HIDE DEF longer
<1>6. Fits(t[n + 1], longer[(n + 1) - 1]) /\ longer[n + 1] = Apply(t[n + 1], longer[(n + 1) - 1])
  BY <1>2, <1>4 DEF x
<1>7. \A k \in 1 .. n + 1 : Fits(t[k], longer[k - 1]) /\ longer[k] = Apply(t[k], longer[k - 1])
  <2> SUFFICES ASSUME NEW k \in 1 .. n + 1
               PROVE  Fits(t[k], longer[k - 1]) /\ longer[k] = Apply(t[k], longer[k - 1])
    OBVIOUS
  <2>1. k \in 1 .. n \/ k = n + 1
    BY <1>2
  <2> QED
    BY <1>5, <1>6, <2>1
<1>8. Leads(v, t, x, g)
  BY <1>2, <1>3, <1>4, <1>7 DEF Leads
<1> QED
  BY <1>8 DEF t, x

\* One message less, at the front: the reader reads.
LEMMA LeadsTail ==
    ASSUME NEW g, NEW s \in Seq(Messages), s # <<>>, NEW v, NEW w, Leads(v, s, w, g)
    PROVE  /\ v \in Boards(g) /\ w \in Boards(g)
           /\ Fits(Head(s), v)
           /\ Apply(Head(s), v) \in Boards(g)
           /\ Leads(Apply(Head(s), v), Tail(s), w, g)
<1>1. PICK path \in [0 .. Len(s) -> Boards(g)] :
          /\ path[0] = v /\ path[Len(s)] = w
          /\ \A k \in 1 .. Len(s) :
                Fits(s[k], path[k - 1]) /\ path[k] = Apply(s[k], path[k - 1])
  BY DEF Leads
<1> DEFINE n == Len(s)
           t == Tail(s)
           shorter == [k \in 0 .. n - 1 |-> path[k + 1]]
<1>2. n \in Nat \ {0} /\ Len(t) = n - 1 /\ s[1] = Head(s) /\ \A k \in 1 .. n - 1 : t[k] = s[k + 1]
  OBVIOUS
<1> HIDE DEF n, t
<1>3. Fits(s[1], path[1 - 1]) /\ path[1] = Apply(s[1], path[1 - 1])
  BY <1>1, <1>2 DEF n
<1>4. Fits(Head(s), v) /\ path[1] = Apply(Head(s), v)
  BY <1>1, <1>2, <1>3
<1>5. shorter \in [0 .. n - 1 -> Boards(g)] /\ shorter[0] = path[1] /\ shorter[n - 1] = w
  BY <1>1, <1>2 DEF n
<1>6. ASSUME NEW k \in 1 .. n - 1
      PROVE  Fits(t[k], shorter[k - 1]) /\ shorter[k] = Apply(t[k], shorter[k - 1])
  <2>1. shorter[k] = path[k + 1] /\ shorter[k - 1] = path[k] /\ t[k] = s[k + 1]
        /\ k + 1 \in 1 .. n /\ (k + 1) - 1 = k
    BY <1>2
  <2> HIDE DEF shorter
  <2>2. Fits(s[k + 1], path[(k + 1) - 1]) /\ path[k + 1] = Apply(s[k + 1], path[(k + 1) - 1])
    BY <1>1, <2>1 DEF n
  <2> QED
    BY <2>1, <2>2
<1>7. path[0] \in Boards(g) /\ path[1] \in Boards(g) /\ path[Len(s)] \in Boards(g)
  BY <1>2 DEF n
<1> HIDE DEF shorter
<1>8. Leads(path[1], t, w, g)
  BY <1>2, <1>5, <1>6 DEF Leads
<1> QED
  BY <1>1, <1>4, <1>7, <1>8 DEF t

\* The cards that have left the board only grow in number.
LEMMA LeadsMore ==
    ASSUME NEW g, NEW h, CardsIn(g, "MATCHED") \subseteq CardsIn(h, "MATCHED"),
           NEW s, NEW v, NEW w, Leads(v, s, w, g)
    PROVE  Leads(v, s, w, h)
<1>1. Boards(g) \subseteq Boards(h)
  BY DEF Boards
<1>2. PICK path \in [0 .. Len(s) -> Boards(g)] :
          /\ path[0] = v /\ path[Len(s)] = w
          /\ \A k \in 1 .. Len(s) :
                Fits(s[k], path[k - 1]) /\ path[k] = Apply(s[k], path[k - 1])
  BY DEF Leads
<1>3. path \in [0 .. Len(s) -> Boards(h)]
  BY <1>1
<1> QED
  BY <1>2, <1>3 DEF Leads

\* Both ends are views of the board.
LEMMA LeadsEnds ==
    ASSUME NEW g, NEW s \in Seq(Messages), NEW v, NEW w, Leads(v, s, w, g)
    PROVE  v \in Boards(g) /\ w \in Boards(g)
<1>1. PICK path \in [0 .. Len(s) -> Boards(g)] : path[0] = v /\ path[Len(s)] = w
  BY DEF Leads
<1>2. 0 \in 0 .. Len(s) /\ Len(s) \in 0 .. Len(s)
  OBVIOUS
<1> QED
  BY <1>1, <1>2

-----------------------------------------------------------------------------
(* The turn: what the tasks that wait will make of myTurn.                 *)

\* What myTurn will be when the tasks have been run: what the last mismatch
\* says, whose task is handed over when it is run, or else the last turn.
Due(ts, mine, t) ==
    \/ \E k \in DOMAIN ts : /\ ts[k].do = "mismatch" /\ ts[k].mine = t
                            /\ \A j \in k + 1 .. Len(ts) : ts[j].do # "mismatch"
    \/ /\ \A j \in DOMAIN ts : ts[j].do # "mismatch"
       /\ \E k \in DOMAIN ts : /\ ts[k].do = "turn" /\ ts[k].mine = t
                               /\ \A j \in k + 1 .. Len(ts) : ts[j].do # "turn"
    \/ /\ \A j \in DOMAIN ts : ts[j].do \notin {"mismatch", "turn"}
       /\ mine = t

\* A sequence and what follows its head.
LEMMA TailFacts ==
    ASSUME NEW ts \in Seq(Tasks), ts # <<>>
    PROVE  /\ Tail(ts) \in Seq(Tasks) /\ Head(ts) \in Tasks /\ Head(ts) = ts[1]
           /\ Len(ts) \in Nat \ {0} /\ Len(Tail(ts)) = Len(ts) - 1
           /\ DOMAIN ts = 1 .. Len(ts) /\ DOMAIN Tail(ts) = 1 .. Len(ts) - 1
           /\ \A k \in 1 .. Len(ts) - 1 : Tail(ts)[k] = ts[k + 1]
           /\ \A k \in 2 .. Len(ts) : ts[k] = Tail(ts)[k - 1] /\ k - 1 \in DOMAIN Tail(ts)
OBVIOUS

\* A sequence and what is appended to it.
LEMMA AppendFacts ==
    ASSUME NEW ts \in Seq(Tasks), NEW x \in Tasks
    PROVE  /\ Append(ts, x) \in Seq(Tasks)
           /\ Len(ts) \in Nat /\ Len(Append(ts, x)) = Len(ts) + 1
           /\ DOMAIN ts = 1 .. Len(ts) /\ DOMAIN Append(ts, x) = 1 .. Len(ts) + 1
           /\ \A k \in 1 .. Len(ts) : Append(ts, x)[k] = ts[k]
           /\ Append(ts, x)[Len(ts) + 1] = x
OBVIOUS

\* setMyTurn does what was due.
LEMMA DueTurnRun ==
    ASSUME NEW ts \in Seq(Tasks), ts # <<>>, NEW mine, NEW t, Due(ts, mine, t),
           Head(ts).do = "turn"
    PROVE  Due(Tail(ts), Head(ts).mine, t)
<1> DEFINE n == Len(ts)
           r == Tail(ts)
<1>1. /\ n \in Nat \ {0} /\ Len(r) = n - 1
      /\ DOMAIN ts = 1 .. n /\ DOMAIN r = 1 .. n - 1
      /\ \A k \in 1 .. n - 1 : r[k] = ts[k + 1]
      /\ ts[1].do = "turn" /\ Head(ts) = ts[1]
  BY TailFacts
<1> HIDE DEF n, r
<1>2. CASE \E k \in DOMAIN ts : /\ ts[k].do = "mismatch" /\ ts[k].mine = t
                                /\ \A j \in k + 1 .. n : ts[j].do # "mismatch"
  <2>1. PICK k \in DOMAIN ts : /\ ts[k].do = "mismatch" /\ ts[k].mine = t
                               /\ \A j \in k + 1 .. n : ts[j].do # "mismatch"
    BY <1>2
  <2>2. k # 1 /\ k - 1 \in DOMAIN r /\ r[k - 1] = ts[k]
    BY <1>1, <2>1
  <2>3. \A j \in (k - 1) + 1 .. Len(r) : r[j].do # "mismatch"
    BY <1>1, <2>1
  <2> QED
    BY <2>1, <2>2, <2>3 DEF Due, r
<1>3. CASE /\ \A j \in DOMAIN ts : ts[j].do # "mismatch"
           /\ \E k \in DOMAIN ts : /\ ts[k].do = "turn" /\ ts[k].mine = t
                                   /\ \A j \in k + 1 .. n : ts[j].do # "turn"
  <2>1. PICK k \in DOMAIN ts : /\ ts[k].do = "turn" /\ ts[k].mine = t
                               /\ \A j \in k + 1 .. n : ts[j].do # "turn"
    BY <1>3
  <2>2. ASSUME NEW j \in DOMAIN r
        PROVE  r[j].do # "mismatch"
    <3>1. r[j] = ts[j + 1] /\ j + 1 \in DOMAIN ts
      BY <1>1
    <3> QED
      BY <1>3, <3>1
  <2>3. CASE k = 1
    <3>1. \A j \in DOMAIN r : r[j].do # "turn"
      BY <1>1, <2>1, <2>3
    <3> QED
      BY <1>1, <2>1, <2>2, <2>3, <3>1 DEF Due, r
  <2>4. CASE k # 1
    <3>1. k - 1 \in DOMAIN r /\ r[k - 1] = ts[k]
      BY <1>1, <2>1, <2>4
    <3>2. \A j \in (k - 1) + 1 .. Len(r) : r[j].do # "turn"
      BY <1>1, <2>1
    <3> QED
      BY <2>1, <2>2, <3>1, <3>2 DEF Due, r
  <2> QED
    BY <2>3, <2>4
<1> QED
  BY <1>1, <1>2, <1>3 DEF Due, n

\* A task that has nothing to do with the turn leaves what is due.
LEMMA DueOtherRun ==
    ASSUME NEW ts \in Seq(Tasks), ts # <<>>, NEW mine, NEW t, Due(ts, mine, t),
           Head(ts).do \notin {"turn", "mismatch"}
    PROVE  Due(Tail(ts), mine, t)
<1> DEFINE n == Len(ts)
           r == Tail(ts)
<1>1. /\ n \in Nat \ {0} /\ Len(r) = n - 1
      /\ DOMAIN ts = 1 .. n /\ DOMAIN r = 1 .. n - 1
      /\ \A k \in 1 .. n - 1 : r[k] = ts[k + 1]
      /\ ts[1].do \notin {"turn", "mismatch"}
  BY TailFacts
<1> HIDE DEF n, r
<1>2. ASSUME NEW what \in {"turn", "mismatch"}, NEW k \in DOMAIN ts,
             ts[k].do = what, \A j \in k + 1 .. n : ts[j].do # what
      PROVE  /\ k - 1 \in DOMAIN r /\ r[k - 1] = ts[k]
             /\ \A j \in (k - 1) + 1 .. Len(r) : r[j].do # what
  <2>1. k # 1
    BY <1>1, <1>2
  <2>2. k - 1 \in DOMAIN r /\ r[k - 1] = ts[k]
    BY <1>1, <2>1
  <2>3. \A j \in (k - 1) + 1 .. Len(r) : r[j].do # what
    BY <1>1, <1>2
  <2> QED
    BY <2>2, <2>3
<1>3. ASSUME NEW what \in {"turn", "mismatch"}, \A j \in DOMAIN ts : ts[j].do # what
      PROVE  \A j \in DOMAIN r : r[j].do # what
  BY <1>1, <1>3
<1> QED
  BY <1>2, <1>3 DEF Due, n, r

\* The task of a mismatch hands over one that sets the turn, behind everything
\* that waits: it has the last word unless another mismatch follows.
LEMMA DueMismatchRun ==
    ASSUME NEW ts \in Seq(Tasks), ts # <<>>, NEW mine, NEW t, Due(ts, mine, t),
           Head(ts).do = "mismatch"
    PROVE  Due(Append(Tail(ts), SetTurn(Head(ts).mine)), mine, t)
<1> DEFINE n == Len(ts)
           r == Tail(ts)
           x == SetTurn(Head(ts).mine)
           u == Append(r, x)
<1>0. x \in Tasks /\ x.do = "turn" /\ x.mine = Head(ts).mine
  BY TailFacts DEF Tasks, SetTurn
<1>1. /\ n \in Nat \ {0} /\ Len(u) = n
      /\ DOMAIN ts = 1 .. n /\ DOMAIN u = 1 .. n
      /\ \A k \in 1 .. n - 1 : u[k] = ts[k + 1]
      /\ ts[1].do = "mismatch" /\ Head(ts) = ts[1]
      /\ u[n].do = "turn" /\ u[n].mine = ts[1].mine
  BY <1>0, TailFacts, AppendFacts
<1> HIDE DEF n, u
<1>2. PICK k \in DOMAIN ts : /\ ts[k].do = "mismatch" /\ ts[k].mine = t
                             /\ \A j \in k + 1 .. n : ts[j].do # "mismatch"
  BY <1>1 DEF Due, n
<1>3. CASE k = 1
  <2>1. ASSUME NEW j \in DOMAIN u
        PROVE  u[j].do # "mismatch"
    <3>1. CASE j = n
      BY <1>1, <3>1
    <3>2. CASE j # n
      BY <1>1, <1>2, <1>3, <3>2
    <3> QED
      BY <3>1, <3>2
  <2>2. n \in DOMAIN u /\ u[n].do = "turn" /\ u[n].mine = t /\ \A j \in n + 1 .. Len(u) : FALSE
    BY <1>1, <1>2, <1>3
  <2> QED
    BY <2>1, <2>2 DEF Due, u
<1>4. CASE k # 1
  <2>1. k - 1 \in DOMAIN u /\ u[k - 1] = ts[k]
    BY <1>1, <1>2, <1>4
  <2>2. ASSUME NEW j \in (k - 1) + 1 .. Len(u)
        PROVE  u[j].do # "mismatch"
    <3>1. CASE j = n
      BY <1>1, <3>1
    <3>2. CASE j # n
      BY <1>1, <1>2, <3>2
    <3> QED
      BY <3>1, <3>2
  <2> QED
    BY <1>2, <2>1, <2>2 DEF Due, u
<1> QED
  BY <1>3, <1>4

\* Showing or hiding cards does not change what is due.
LEMMA DueOtherAdded ==
    ASSUME NEW ts \in Seq(Tasks), NEW x \in Tasks, x.do \notin {"turn", "mismatch"},
           NEW mine, NEW t, Due(ts, mine, t)
    PROVE  Due(Append(ts, x), mine, t)
<1> DEFINE n == Len(ts)
           u == Append(ts, x)
<1>1. /\ n \in Nat /\ Len(u) = n + 1
      /\ DOMAIN ts = 1 .. n /\ DOMAIN u = 1 .. n + 1
      /\ \A k \in 1 .. n : u[k] = ts[k]
      /\ u[n + 1].do \notin {"turn", "mismatch"}
  BY AppendFacts
<1> HIDE DEF n, u
<1>2. ASSUME NEW what \in {"turn", "mismatch"}, NEW k \in DOMAIN ts,
             ts[k].do = what, \A j \in k + 1 .. n : ts[j].do # what
      PROVE  k \in DOMAIN u /\ u[k] = ts[k] /\ \A j \in k + 1 .. Len(u) : u[j].do # what
  BY <1>1, <1>2
<1>3. ASSUME NEW what \in {"turn", "mismatch"}, \A j \in DOMAIN ts : ts[j].do # what
      PROVE  \A j \in DOMAIN u : u[j].do # what
  BY <1>1, <1>3
<1> QED
  BY <1>2, <1>3 DEF Due, n, u

\* YOUR_TURN repeats what was due already.
LEMMA DueTurnAdded ==
    ASSUME NEW ts \in Seq(Tasks), NEW mine, Due(ts, mine, TRUE)
    PROVE  Due(Append(ts, SetTurn(TRUE)), mine, TRUE)
<1> DEFINE n == Len(ts)
           u == Append(ts, SetTurn(TRUE))
<1>1. /\ n \in Nat /\ Len(u) = n + 1
      /\ DOMAIN ts = 1 .. n /\ DOMAIN u = 1 .. n + 1
      /\ \A k \in 1 .. n : u[k] = ts[k]
      /\ u[n + 1].do = "turn" /\ u[n + 1].mine = TRUE
  <2>1. SetTurn(TRUE) \in Tasks
    BY DEF Tasks, SetTurn
  <2> QED
    BY <2>1, AppendFacts DEF SetTurn
<1> HIDE DEF n, u
<1>2. CASE \E k \in DOMAIN ts : /\ ts[k].do = "mismatch" /\ ts[k].mine = TRUE
                                /\ \A j \in k + 1 .. n : ts[j].do # "mismatch"
  <2>1. PICK k \in DOMAIN ts : /\ ts[k].do = "mismatch" /\ ts[k].mine = TRUE
                               /\ \A j \in k + 1 .. n : ts[j].do # "mismatch"
    BY <1>2
  <2>2. k \in DOMAIN u /\ u[k] = ts[k] /\ \A j \in k + 1 .. Len(u) : u[j].do # "mismatch"
    BY <1>1, <2>1
  <2> QED
    BY <2>1, <2>2 DEF Due, u
<1>3. CASE \A j \in DOMAIN ts : ts[j].do # "mismatch"
  <2>1. \A j \in DOMAIN u : u[j].do # "mismatch"
    BY <1>1, <1>3
  <2>2. n + 1 \in DOMAIN u /\ \A j \in (n + 1) + 1 .. Len(u) : FALSE
    BY <1>1
  <2> QED
    BY <1>1, <2>1, <2>2 DEF Due, u
<1> QED
  BY <1>2, <1>3 DEF Due, n

\* A mismatch decides the turn anew.
LEMMA DueMismatchAdded ==
    ASSUME NEW ts \in Seq(Tasks), NEW S \in SUBSET Cards, NEW t \in BOOLEAN, NEW mine
    PROVE  Due(Append(ts, ShowMismatch(S, t)), mine, t)
<1> DEFINE n == Len(ts)
           u == Append(ts, ShowMismatch(S, t))
<1>1. /\ n \in Nat /\ Len(u) = n + 1 /\ DOMAIN u = 1 .. n + 1
      /\ u[n + 1].do = "mismatch" /\ u[n + 1].mine = t
  <2>1. ShowMismatch(S, t) \in Tasks
    BY DEF Tasks, ShowMismatch
  <2> QED
    BY <2>1, AppendFacts DEF ShowMismatch
<1> HIDE DEF n, u
<1>2. n + 1 \in DOMAIN u /\ \A j \in (n + 1) + 1 .. Len(u) : FALSE
  BY <1>1
<1> QED
  BY <1>1, <1>2 DEF Due, u

\* GAME_START and GAME_STATE are read when no task waits.
LEMMA DueAfresh ==
    ASSUME NEW x \in Tasks, x.do \in {"build", "show"}, NEW mine, NEW t \in BOOLEAN
    PROVE  Due(<<>> \o <<x, SetTurn(t)>>, mine, t)
<1> DEFINE u == <<x, SetTurn(t)>>
<1>1. /\ <<>> \o u = u /\ Len(u) = 2 /\ DOMAIN u = 1 .. 2
      /\ u[1].do # "mismatch" /\ u[2].do = "turn" /\ u[2].mine = t
  BY DEF SetTurn
<1> HIDE DEF u
<1>2. \A j \in DOMAIN u : u[j].do # "mismatch"
  BY <1>1
<1>3. 2 \in DOMAIN u /\ \A j \in 2 + 1 .. Len(u) : FALSE
  BY <1>1
<1> QED
  BY <1>1, <1>2, <1>3 DEF Due, u

\* When no task waits, myTurn is what is due.
LEMMA DueNow == ASSUME NEW mine, NEW t PROVE Due(<<>>, mine, t) <=> mine = t
BY DEF Due

-----------------------------------------------------------------------------
(* The buttons: a card that shows a value and must not is covered by a task or *)
(* by a thread that will hide it.                                          *)

\* The tasks that hide or show a card, and the threads that will have it hidden.
Hides(x, i) == x.do \in {"mismatch", "hide"} /\ i \in x.cards
Shows(x, i) == x.do = "show" /\ i \in x.cards
Slept(sl, i) == \E k \in DOMAIN sl : i \in sl[k]

\* Card i will be hidden, or has left the board, when the tasks have been run.
Covered(i, shown, ts, sl, gone) ==
    /\ shown => i \in gone \/ Slept(sl, i) \/ \E k \in DOMAIN ts : Hides(ts[k], i)
    /\ \A k \in DOMAIN ts : Shows(ts[k], i) =>
          Slept(sl, i) \/ \E j \in k + 1 .. Len(ts) : Hides(ts[j], i)

\* A task after the first hides the card.
Rest(ts, i) == \E k \in DOMAIN Tail(ts) : Hides(Tail(ts)[k], i)

\* What is promised for a card by the tasks after the first.
LEMMA CoveredTail ==
    ASSUME NEW ts \in Seq(Tasks), ts # <<>>, NEW i, NEW sl, NEW gone, NEW shown,
           Covered(i, shown, ts, sl, gone)
    PROVE  /\ \A k \in DOMAIN Tail(ts) : Shows(Tail(ts)[k], i) =>
                 Slept(sl, i) \/ \E j \in k + 1 .. Len(Tail(ts)) : Hides(Tail(ts)[j], i)
           /\ Shows(Head(ts), i) => Slept(sl, i) \/ Rest(ts, i)
           /\ shown => i \in gone \/ Slept(sl, i) \/ Hides(Head(ts), i) \/ Rest(ts, i)
<1> DEFINE n == Len(ts)
           r == Tail(ts)
<1>1. /\ n \in Nat \ {0} /\ Len(r) = n - 1
      /\ DOMAIN ts = 1 .. n /\ DOMAIN r = 1 .. n - 1
      /\ \A k \in 1 .. n - 1 : r[k] = ts[k + 1]
      /\ Head(ts) = ts[1]
  BY TailFacts
<1> HIDE DEF n, r
<1>2. ASSUME NEW k \in DOMAIN ts, k # 1
      PROVE  k - 1 \in DOMAIN r /\ r[k - 1] = ts[k]
  BY <1>1, <1>2
<1>3. ASSUME NEW k \in DOMAIN r, Shows(r[k], i), ~Slept(sl, i)
      PROVE  \E j \in k + 1 .. Len(r) : Hides(r[j], i)
  <2>1. k + 1 \in DOMAIN ts /\ r[k] = ts[k + 1]
    BY <1>1
  <2>2. PICK j \in (k + 1) + 1 .. n : Hides(ts[j], i)
    BY <1>3, <2>1 DEF Covered, n
  <2>3. j - 1 \in k + 1 .. Len(r) /\ r[j - 1] = ts[j]
    BY <1>1, <2>2
  <2> QED
    BY <2>2, <2>3
<1>4. ASSUME Shows(ts[1], i), ~Slept(sl, i)
      PROVE  Rest(ts, i)
  <2>1. 1 \in DOMAIN ts
    BY <1>1
  <2>2. PICK j \in 1 + 1 .. n : Hides(ts[j], i)
    BY <1>4, <2>1 DEF Covered, n
  <2>3. j \in DOMAIN ts /\ j # 1
    BY <1>1, <2>2
  <2> QED
    BY <1>2, <2>2, <2>3 DEF Rest, r
<1>5. ASSUME shown, i \notin gone, ~Slept(sl, i), ~Hides(ts[1], i)
      PROVE  Rest(ts, i)
  <2>1. PICK k \in DOMAIN ts : Hides(ts[k], i)
    BY <1>5 DEF Covered
  <2>2. k # 1
    BY <1>5, <2>1
  <2> QED
    BY <1>2, <2>1, <2>2 DEF Rest, r
<1> QED
  BY <1>1, <1>3, <1>4, <1>5 DEF r

\* A task has been run: what it showed is covered by those that remain.
LEMMA CoveredRun ==
    ASSUME NEW ts \in Seq(Tasks), ts # <<>>, NEW i, NEW sl, NEW gone, NEW shown, NEW now,
           Covered(i, shown, ts, sl, gone), Head(ts).do # "mismatch",
           now => \/ shown /\ ~Hides(Head(ts), i)
                  \/ Shows(Head(ts), i)
                  \/ i \in gone
    PROVE  Covered(i, now, Tail(ts), sl, gone)
BY CoveredTail DEF Covered, Rest

\* A task that does not show the card takes nothing away.
LEMMA CoveredAppend ==
    ASSUME NEW ts \in Seq(Tasks), NEW i, NEW sl, NEW gone, NEW shown,
           Covered(i, shown, ts, sl, gone), NEW x \in Tasks, ~Shows(x, i)
    PROVE  Covered(i, shown, Append(ts, x), sl, gone)
<1> DEFINE n == Len(ts)
           u == Append(ts, x)
<1>1. /\ n \in Nat /\ Len(u) = n + 1
      /\ DOMAIN ts = 1 .. n /\ DOMAIN u = 1 .. n + 1
      /\ \A k \in 1 .. n : u[k] = ts[k]
      /\ u[n + 1] = x
  BY AppendFacts
<1> HIDE DEF n, u
<1>2. ASSUME NEW k \in DOMAIN ts
      PROVE  k \in DOMAIN u /\ u[k] = ts[k]
  BY <1>1
<1>3. ASSUME shown, i \notin gone, ~Slept(sl, i)
      PROVE  \E k \in DOMAIN u : Hides(u[k], i)
  <2>1. PICK k \in DOMAIN ts : Hides(ts[k], i)
    BY <1>3 DEF Covered
  <2> QED
    BY <1>2, <2>1
<1>4. ASSUME NEW k \in DOMAIN u, Shows(u[k], i), ~Slept(sl, i)
      PROVE  \E j \in k + 1 .. Len(u) : Hides(u[j], i)
  <2>1. k \in DOMAIN ts /\ u[k] = ts[k]
    BY <1>1, <1>4
  <2>2. PICK j \in k + 1 .. n : Hides(ts[j], i)
    BY <1>4, <2>1 DEF Covered, n
  <2>3. j \in k + 1 .. Len(u) /\ u[j] = ts[j]
    BY <1>1, <2>1, <2>2
  <2> QED
    BY <2>2, <2>3
<1> QED
  BY <1>3, <1>4 DEF Covered, u

\* A last task that hides the card covers it whatever was there before.
LEMMA CoveredByLast ==
    ASSUME NEW ts \in Seq(Tasks), NEW i, NEW sl, NEW gone, NEW shown,
           NEW x \in Tasks, Hides(x, i)
    PROVE  Covered(i, shown, Append(ts, x), sl, gone)
<1> DEFINE n == Len(ts)
           u == Append(ts, x)
<1>1. /\ n \in Nat /\ Len(u) = n + 1 /\ DOMAIN u = 1 .. n + 1 /\ u[n + 1] = x
  BY AppendFacts
<1> HIDE DEF n, u
<1>2. \E k \in DOMAIN u : Hides(u[k], i)
  BY <1>1
<1>3. ASSUME NEW k \in DOMAIN u, Shows(u[k], i)
      PROVE  \E j \in k + 1 .. Len(u) : Hides(u[j], i)
  <2>1. k # n + 1
    BY <1>1, <1>3 DEF Hides, Shows
  <2>2. n + 1 \in k + 1 .. Len(u)
    BY <1>1, <2>1
  <2> QED
    BY <1>1, <2>2
<1> QED
  BY <1>2, <1>3 DEF Covered, u

\* The task of a mismatch becomes a thread that waits.
LEMMA CoveredMismatch ==
    ASSUME NEW ts \in Seq(Tasks), ts # <<>>, NEW i, NEW sl \in Seq(SUBSET Cards),
           NEW gone, NEW shown, Covered(i, shown, ts, sl, gone),
           Head(ts).do = "mismatch"
    PROVE  Covered(i, shown, Append(Tail(ts), SetTurn(Head(ts).mine)),
                   Append(sl, Head(ts).cards), gone)
<1> DEFINE more == Append(sl, Head(ts).cards)
<1>1. Head(ts) \in Tasks /\ Tail(ts) \in Seq(Tasks)
  BY TailFacts
<1>2. SetTurn(Head(ts).mine) \in Tasks /\ ~Shows(SetTurn(Head(ts).mine), i)
  BY <1>1 DEF Tasks, SetTurn, Shows
<1>3. Slept(sl, i) => Slept(more, i)
  BY DEF Slept
<1>4. Hides(Head(ts), i) => Slept(more, i)
  <2>1. Len(sl) + 1 \in DOMAIN more /\ more[Len(sl) + 1] = Head(ts).cards
    OBVIOUS
  <2> QED
    BY <2>1 DEF Slept, Hides
<1> HIDE DEF more
<1>5. Covered(i, shown, Tail(ts), more, gone)
  BY <1>3, <1>4, CoveredTail DEF Covered, Rest
<1> QED
  BY <1>1, <1>2, <1>5, CoveredAppend DEF more

\* A sequence without one of its members.
LEMMA RemoveAtFacts ==
    ASSUME NEW S, NEW s \in Seq(S), NEW k \in DOMAIN s
    PROVE  /\ Lists!RemoveAt(s, k) \in Seq(S)
           /\ Len(Lists!RemoveAt(s, k)) = Len(s) - 1
           /\ \A j \in 1 .. k - 1 : Lists!RemoveAt(s, k)[j] = s[j]
           /\ \A j \in k + 1 .. Len(s) : Lists!RemoveAt(s, k)[j - 1] = s[j]
<1> DEFINE a == SubSeq(s, 1, k - 1)
           b == SubSeq(s, k + 1, Len(s))
<1>1. Len(s) \in Nat /\ k \in 1 .. Len(s)
  OBVIOUS
<1>2. a \in Seq(S) /\ Len(a) = k - 1 /\ \A j \in 1 .. k - 1 : a[j] = s[j]
  BY <1>1
<1>3. b \in Seq(S) /\ Len(b) = Len(s) - k /\ \A j \in 1 .. Len(s) - k : b[j] = s[k + j]
  BY <1>1
<1>4. Lists!RemoveAt(s, k) = a \o b
  BY DEF Lists!RemoveAt
<1> HIDE DEF a, b
<1>5. /\ a \o b \in Seq(S) /\ Len(a \o b) = Len(a) + Len(b)
      /\ \A j \in 1 .. Len(a) + Len(b) :
            (a \o b)[j] = IF j <= Len(a) THEN a[j] ELSE b[j - Len(a)]
  BY <1>2, <1>3, ConcatProperties
<1>6. \A j \in 1 .. k - 1 : (a \o b)[j] = s[j]
  BY <1>1, <1>2, <1>3, <1>5
<1>7. ASSUME NEW j \in k + 1 .. Len(s)
      PROVE  (a \o b)[j - 1] = s[j]
  <2>1. j - 1 \in 1 .. Len(a) + Len(b) /\ ~(j - 1 <= Len(a)) /\ (j - 1) - Len(a) = j - k
    BY <1>1, <1>2, <1>3
  <2>2. j - k \in 1 .. Len(s) - k /\ k + (j - k) = j
    BY <1>1
  <2> QED
    BY <1>3, <1>5, <2>1, <2>2
<1>8. Len(a \o b) = Len(s) - 1
  BY <1>1, <1>2, <1>3, <1>5
<1> QED
  BY Zenon, <1>4, <1>5, <1>6, <1>7, <1>8

\* A thread that has waited becomes a task.
LEMMA CoveredWake ==
    ASSUME NEW ts \in Seq(Tasks), NEW i, NEW sl \in Seq(SUBSET Cards), NEW k \in DOMAIN sl,
           NEW gone, NEW shown, Covered(i, shown, ts, sl, gone)
    PROVE  Covered(i, shown, Append(ts, HideCards(sl[k])), Lists!RemoveAt(sl, k), gone)
<1> DEFINE less == Lists!RemoveAt(sl, k)
           x == HideCards(sl[k])
<1>1. x \in Tasks /\ ~Shows(x, i) /\ (i \in sl[k] => Hides(x, i))
  BY DEF Tasks, HideCards, Shows, Hides
<1>2. CASE i \in sl[k]
  BY <1>1, <1>2, CoveredByLast
<1>3. CASE i \notin sl[k]
  <2>1. ASSUME Slept(sl, i)
        PROVE  Slept(less, i)
    <3>1. PICK j \in DOMAIN sl : i \in sl[j]
      BY <2>1 DEF Slept
    <3>2. less \in Seq(SUBSET Cards) /\ Len(less) = Len(sl) - 1
          /\ (\A l \in 1 .. k - 1 : less[l] = sl[l])
          /\ (\A l \in k + 1 .. Len(sl) : less[l - 1] = sl[l])
      BY RemoveAtFacts
    <3> HIDE DEF less
    <3>3. CASE j < k
      <4>1. j \in DOMAIN less /\ less[j] = sl[j]
        BY <3>2, <3>3
      <4> QED
        BY <3>1, <4>1 DEF Slept
    <3>4. CASE j > k
      <4>1. j - 1 \in DOMAIN less /\ less[j - 1] = sl[j]
        BY <3>2, <3>4
      <4> QED
        BY <3>1, <4>1 DEF Slept
    <3>5. j # k /\ j \in Nat /\ k \in Nat
      BY <1>3, <3>1
    <3> QED
      BY <3>3, <3>4, <3>5
  <2>2. Covered(i, shown, ts, less, gone)
    BY <2>1 DEF Covered
  <2> QED
    BY <1>1, <2>2, CoveredAppend
<1> QED
  BY <1>2, <1>3

-----------------------------------------------------------------------------
(* The server.                                                             *)

\* What game_flip_card does to the cards and the turn.
LEMMA FlipEffect ==
    ASSUME NEW g, GameInv(g), NEW c, NEW i, CanFlip(g, c, i)
    PROVE  LET h == FlipCard(g, i) IN
           /\ GameInv(h)
           /\ h.players = g.players /\ h.count = g.count /\ h.current = g.current
           /\ h.state = g.state
           /\ g.flips \in {0, 1} /\ h.flips = g.flips + 1
           /\ h.first = IF g.flips = 0 THEN i ELSE g.first
           /\ CardsIn(h, "MATCHED") = CardsIn(g, "MATCHED")
           /\ CardsIn(h, "HIDDEN") \subseteq CardsIn(g, "HIDDEN")
<1> DEFINE h == FlipCard(g, i)
<1>0. i \in Cards
  BY DEF CanFlip
<1>1. GameInv(h)
  BY <1>0, FlipInv
<1>2. g \in GameType /\ g.flips \in {0, 1}
  BY DEF GameInv, GameType, CanFlip
<1>3. /\ h.players = g.players /\ h.count = g.count /\ h.current = g.current
      /\ h.state = g.state /\ h.flips = g.flips + 1
      /\ h.first = IF g.flips = 0 THEN i ELSE g.first
      /\ h.card = [g.card EXCEPT ![i] = "REVEALED"]
  BY <1>2 DEF GameType, FlipCard
<1>4. g.card \in [Cards -> {"HIDDEN", "REVEALED", "MATCHED"}] /\ g.card[i] = "HIDDEN"
  BY <1>2 DEF GameType, CanFlip
<1> HIDE DEF h
<1>5. CardsIn(h, "MATCHED") = CardsIn(g, "MATCHED")
  BY <1>0, <1>3, <1>4 DEF CardsIn
<1>6. CardsIn(h, "HIDDEN") \subseteq CardsIn(g, "HIDDEN")
  BY <1>0, <1>3, <1>4 DEF CardsIn
<1> QED
  BY <1>1, <1>2, <1>3, <1>5, <1>6 DEF h

\* What game_check_match does with a pair.
LEMMA MatchEffect ==
    ASSUME NEW g, GameInv(g), g.flips = 2, IsMatch(g)
    PROVE  LET h == CheckMatch(g) IN
           /\ GameInv(h)
           /\ h.players = g.players /\ h.count = g.count /\ h.current = g.current
           /\ h.state \in {g.state, "FINISHED"} /\ h.flips = 0
           /\ CardsIn(h, "MATCHED") = CardsIn(g, "MATCHED") \cup {g.first, g.second}
           /\ CardsIn(h, "HIDDEN") = CardsIn(g, "HIDDEN")
<1> DEFINE h == Match(g)
<1>0. CheckMatch(g) = h
  BY DEF CheckMatch
<1>1. GameInv(h)
  BY MatchInv
<1>2. g \in GameType /\ CardsIn(g, "REVEALED") = {g.first, g.second}
      /\ g.first \in Cards /\ g.second \in Cards
  BY DEF GameInv, GameType, FaceUpIsTurn
<1>3. /\ h.players = g.players /\ h.count = g.count /\ h.current = g.current
      /\ h.state \in {g.state, "FINISHED"} /\ h.flips = 0
      /\ h.card = [i \in Cards |-> IF i \in {g.first, g.second} THEN "MATCHED" ELSE g.card[i]]
  BY <1>2 DEF GameType, Match, TurnOver
<1> HIDE DEF h
<1>5. CardsIn(h, "MATCHED") = CardsIn(g, "MATCHED") \cup {g.first, g.second}
  BY <1>2, <1>3 DEF CardsIn
<1>6. CardsIn(h, "HIDDEN") = CardsIn(g, "HIDDEN")
  BY <1>2, <1>3 DEF CardsIn
<1> QED
  BY <1>0, <1>1, <1>3, <1>5, <1>6

\* What game_check_match does with two cards that do not match.
LEMMA MismatchEffect ==
    ASSUME NEW g, GameInv(g), g.flips = 2, ~IsMatch(g), g.count = 2
    PROVE  LET h == CheckMatch(g) IN
           /\ GameInv(h)
           /\ h.players = g.players /\ h.count = g.count
           /\ h.state = g.state /\ h.flips = 0
           /\ CardsIn(h, "MATCHED") = CardsIn(g, "MATCHED")
           /\ CardsIn(h, "HIDDEN") = CardsIn(g, "HIDDEN") \cup {g.first, g.second}
<1> DEFINE h == Mismatch(g)
<1>0. CheckMatch(g) = h
  BY DEF CheckMatch
<1>1. GameInv(h)
  BY MismatchInv
<1>2. g \in GameType /\ CardsIn(g, "REVEALED") = {g.first, g.second}
      /\ g.first \in Cards /\ g.second \in Cards
  BY DEF GameInv, GameType, FaceUpIsTurn
<1>3. /\ h.players = g.players /\ h.count = g.count
      /\ h.state = g.state /\ h.flips = 0
      /\ h.card = [i \in Cards |-> IF i \in {g.first, g.second} THEN "HIDDEN" ELSE g.card[i]]
  BY <1>2 DEF GameType, Mismatch, TurnOver
<1> HIDE DEF h
<1>5. CardsIn(h, "MATCHED") = CardsIn(g, "MATCHED")
  BY <1>2, <1>3 DEF CardsIn
<1>6. CardsIn(h, "HIDDEN") = CardsIn(g, "HIDDEN") \cup {g.first, g.second}
  BY <1>2, <1>3 DEF CardsIn
<1> QED
  BY <1>0, <1>1, <1>3, <1>5, <1>6

Mover == game.players[game.current]

\* The game and the handler threads: only the player who has the turn is within
\* a FLIP, and two cards lie face up only until his thread has judged them.
ServerInv ==
    /\ GameInv(game)
    /\ game.count = 2 /\ game.state \in {"PLAYING", "FINISHED"}
    /\ game.players[0] \in Clients /\ game.players[1] \in Clients
    /\ game.players[0] # game.players[1]
    /\ thread \in [Clients -> {"idle", "flipped", "revealed"}]
    /\ \A c \in Clients :
          thread[c] # "idle" => Playing /\ Mover = c /\ game.flips \in {1, 2}
    /\ \A c \in Clients : thread[c] = "revealed" => game.flips = 2
    /\ (\A c \in Clients : thread[c] = "idle") => game.flips < 2
    /\ game.state = "FINISHED" => game.flips = 0

\* The steps of the server.
Flips(c, i) ==
    /\ thread[c] = "idle" /\ CanFlip(game, c, i)
    /\ game' = FlipCard(game, i)
    /\ thread' = [thread EXCEPT ![c] = "flipped"]
Reveals(c) ==
    /\ thread[c] = "flipped"
    /\ game' = game
    /\ thread' = [thread EXCEPT ![c] = IF game.flips = 2 THEN "revealed" ELSE "idle"]
Settles(c) ==
    /\ thread[c] = "revealed"
    /\ game' = CheckMatch(game)
    /\ thread' = [thread EXCEPT ![c] = "idle"]

\* Every step of the program is one of these for the server, or none.
LEMMA ServerNext ==
    ASSUME [Next]_vars
    PROVE  \/ UNCHANGED server
           \/ \E c \in Clients : \/ \E i : Flips(c, i)
                                 \/ Reveals(c) \/ Settles(c)
<1>0. Rival \in Clients /\ Me \in Clients
  BY ViewAssumption
<1>1. ASSUME FlipByRival
      PROVE  \E i : Flips(Rival, i)
  BY <1>1 DEF FlipByRival, Flips
<1>2. ASSUME FlipByMe
      PROVE  UNCHANGED server \/ \E i : Flips(Me, i)
  BY <1>2 DEF FlipByMe, Flips
<1>3. ASSUME NEW c \in Clients, Handler(c)
      PROVE  Reveals(c) \/ Settles(c)
  BY <1>3 DEF Handler, Reveal, Reveals, Settle, Settles
<1>4. ASSUME LoseLink \/ Return
      PROVE  UNCHANGED server
  BY <1>4 DEF LoseLink, Return, Join, FormatState, SendState, Prompt
<1>5. ASSUME Reader
      PROVE  UNCHANGED server
  BY <1>5 DEF Reader, HandleGameStart, RevealCard, HandleMatch, HandleMismatch,
     HandleYourTurn, HandleGameState, HandleOther
<1>6. ASSUME JavaFX \/ Wake
      PROVE  UNCHANGED server
  BY <1>6 DEF JavaFX, RunBuild, RunShow, RunTurn, RunMismatch, RunHide, Wake
<1>7. ASSUME NEW i \in Cards, Click(i)
      PROVE  UNCHANGED server
  BY <1>7 DEF Click
<1>8. ASSUME UNCHANGED vars
      PROVE  UNCHANGED server
  BY <1>8 DEF vars
<1> QED
  BY <1>0, <1>1, <1>2, <1>3, <1>4, <1>5, <1>6, <1>7, <1>8 DEF Next

\* A FLIP that is accepted.
LEMMA ServerFlips ==
    ASSUME ServerInv, NEW c \in Clients, NEW i, Flips(c, i)
    PROVE  ServerInv' /\ Mover' = Mover
<1>1. /\ GameInv(game')
      /\ game'.players = game.players /\ game'.count = game.count
      /\ game'.current = game.current /\ game'.state = game.state
      /\ game.flips \in {0, 1} /\ game'.flips = game.flips + 1
  BY FlipEffect DEF ServerInv, Flips
<1>2. game.state = "PLAYING" /\ Mover = c
  BY DEF Flips, CanFlip, Mover
<1>3. \A d \in Clients \ {c} : thread[d] = "idle"
  BY <1>2 DEF ServerInv
<1>4. thread'[c] = "flipped" /\ \A d \in Clients \ {c} : thread'[d] = "idle"
  BY <1>3 DEF ServerInv, Flips
<1>5. thread' \in [Clients -> {"idle", "flipped", "revealed"}]
  BY DEF ServerInv, Flips
<1>6. Mover' = Mover
  BY <1>1 DEF Mover
<1> QED
  BY <1>1, <1>2, <1>4, <1>5, <1>6 DEF ServerInv, Playing

\* CARD_REVEAL has been sent.
LEMMA ServerReveals ==
    ASSUME ServerInv, NEW c \in Clients, Reveals(c)
    PROVE  ServerInv'
<1>1. thread' \in [Clients -> {"idle", "flipped", "revealed"}]
  BY DEF ServerInv, Reveals
<1>2. Playing /\ Mover = c /\ game.flips \in {1, 2}
  BY DEF ServerInv, Reveals
<1>3. thread'[c] = IF game.flips = 2 THEN "revealed" ELSE "idle"
  BY DEF ServerInv, Reveals
<1>4. \A d \in Clients \ {c} : thread[d] = "idle" /\ thread'[d] = "idle"
  BY <1>2 DEF ServerInv, Reveals
<1>5. game' = game /\ Mover' = Mover /\ Playing' = Playing
  BY DEF Reveals, Mover, Playing
<1> QED
  BY <1>1, <1>2, <1>3, <1>4, <1>5 DEF ServerInv, Playing

\* game_check_match: the turn passes only when it finds no pair.
LEMMA ServerSettles ==
    ASSUME ServerInv, NEW c \in Clients, Settles(c)
    PROVE  ServerInv'
<1>1. Playing /\ Mover = c /\ game.flips = 2
  BY DEF ServerInv, Settles
<1>2. /\ GameInv(game') /\ game'.players = game.players /\ game'.count = game.count
      /\ game'.state \in {"PLAYING", "FINISHED"} /\ game'.flips = 0
  <2>1. CASE IsMatch(game)
    BY <1>1, <2>1, MatchEffect DEF ServerInv, Settles
  <2>2. CASE ~IsMatch(game)
    BY <1>1, <2>2, MismatchEffect DEF ServerInv, Settles
  <2> QED
    BY <2>1, <2>2
<1>3. \A d \in Clients : thread'[d] = "idle"
  BY <1>1 DEF ServerInv, Settles
<1>4. thread' \in [Clients -> {"idle", "flipped", "revealed"}]
  BY DEF ServerInv, Settles
<1> QED
  BY <1>2, <1>3, <1>4 DEF ServerInv

\* No step of the server.
LEMMA ServerKept ==
    ASSUME ServerInv, UNCHANGED server
    PROVE  ServerInv'
BY DEF ServerInv, server, Mover, Playing

\* The game starts with two players and every card hidden.
LEMMA ServerInit == Init => ServerInv
<1> SUFFICES ASSUME Init
             PROVE  ServerInv
  OBVIOUS
<1>1. PICK n \in {0, 1}, deal \in Deals :
          game = Start(Create([i \in Slots |-> IF i = n THEN Me
                                               ELSE IF i = 1 - n THEN Rival
                                               ELSE NULL], 2, deal))
  BY DEF Init
<1> DEFINE ps == [i \in Slots |-> IF i = n THEN Me ELSE IF i = 1 - n THEN Rival ELSE NULL]
           g == Create(ps, 2, deal)
<1>2. Me # Rival /\ Me \in Clients /\ Rival \in Clients /\ NULL \notin Clients
  BY ViewAssumption, ClientsAssumption
<1>3. /\ ps \in [Slots -> Clients \cup {NULL}]
      /\ \A i \in Slots : ps[i] # NULL <=> i < 2
      /\ {ps[0], ps[1]} = {Me, Rival}
  BY <1>2 DEF Slots, MAX_PLAYERS_PER_ROOM
<1>4. CanCreate(2)
  BY DEF CanCreate, MAX_PLAYERS_PER_ROOM
<1> HIDE DEF ps
<1>5. GameInv(g)
  BY <1>3, <1>4, CreateInv
<1>6. CanStart(g) /\ g.count = 2 /\ g.flips = 0 /\ g.players[0] = ps[0] /\ g.players[1] = ps[1]
  BY DEF CanStart, Create, Slots, MAX_PLAYERS_PER_ROOM
<1> HIDE DEF g
<1>7. GameInv(Start(g))
  BY <1>5, <1>6, StartInv
<1>8. /\ Start(g).count = 2 /\ Start(g).state = "PLAYING" /\ Start(g).flips = 0
      /\ Start(g).players = g.players
  BY <1>5, <1>6 DEF Start, GameInv, GameType
<1>9. game = Start(g)
  BY <1>1 DEF g, ps
<1>10. thread = [c \in Clients |-> "idle"]
  BY DEF Init
<1> QED
  BY <1>2, <1>3, <1>6, <1>7, <1>8, <1>9, <1>10 DEF ServerInv

\* The server keeps to it, whatever the client does.
LEMMA ServerInvariant == Spec => []ServerInv
<1>1. ServerInv /\ [Next]_vars => ServerInv'
  BY ServerNext, ServerFlips, ServerReveals, ServerSettles, ServerKept
<1> QED
  BY <1>1, ServerInit, PTL DEF Spec

-----------------------------------------------------------------------------
(* Types.                                                                  *)

\* What TypeOK leaves out, the messages and the tasks included.
Typed ==
    /\ link \in {"up", "down", "joined", "formatted", "sent"}
    /\ state \in GameStates \cup {NoState}
    /\ link = "formatted" => state \in GameStates
    /\ inbox \in Seq(Messages)
    /\ outbox \in Seq(Cards) /\ Len(outbox) <= MaxClicks
    /\ matched \subseteq Cards /\ flipped \in Seq(Cards)
    /\ myTurn \in BOOLEAN
    /\ face \in [Cards -> {"?", "value"}]
    /\ tasks \in Seq(Tasks) /\ sleepers \in Seq(SUBSET Cards)
    /\ lost \in BOOLEAN /\ overtaken \in BOOLEAN

\* SequencesExt has a Cardinality of its own instance.
LEMMA CardinalitySame == ASSUME NEW S PROVE Lists!Cardinality(S) = Cardinality(S)
BY DEF Lists!Cardinality, Cardinality

\* A set of cards has an order.
LEMMA SetToSeqType ==
    ASSUME NEW S \in SUBSET Cards
    PROVE  Lists!SetToSeq(S) \in Seq(Cards)
<1>1. IsFiniteSet(S)
  <2>1. IsFiniteSet(Cards)
    <3>1. 0 \in Int /\ 2 * TotalPairs - 1 \in Int
      BY PairsAssumption
    <3> QED
      BY <3>1, FS_Interval DEF Cards
  <2> QED
    BY <2>1, FS_Subset
<1>2. Cardinality(S) \in Nat /\ \E f : f \in Bijection(1 .. Cardinality(S), S)
  BY <1>1, FS_CardinalityType DEF ExistsBijection
<1>3. PICK f : f \in Bijection(1 .. Cardinality(S), S)
  BY <1>2
<1>4. f \in [1 .. Cardinality(S) -> S] /\ Lists!IsInjective(f)
  BY <1>3 DEF Bijection, Injection, IsInjective, Lists!IsInjective
<1> DEFINE n == Cardinality(S)
           s == CHOOSE h \in [1 .. n -> S] : Lists!IsInjective(h)
<1>5. s \in [1 .. n -> S]
  BY <1>4
<1>6. Lists!SetToSeq(S) = s
  BY CardinalitySame DEF Lists!SetToSeq
<1> HIDE DEF s, n
<1>7. n \in Nat
  BY <1>2 DEF n
<1> QED
  BY <1>5, <1>6, <1>7

\* The order of no card, and of one card, is no choice.
LEMMA SetToSeqEmpty == Lists!SetToSeq({}) = <<>>
<1>1. Lists!Cardinality({}) = 0
  BY CardinalitySame, FS_EmptySet
<1> QED
  BY <1>1 DEF Lists!SetToSeq, Lists!IsInjective

\* The order of one card.
LEMMA SetToSeqOne == ASSUME NEW x PROVE Lists!SetToSeq({x}) = <<x>>
<1>1. Lists!Cardinality({x}) = 1
  BY CardinalitySame, FS_Singleton
<1> DEFINE s == CHOOSE h \in [1 .. 1 -> {x}] : Lists!IsInjective(h)
<1>2. <<x>> \in [1 .. 1 -> {x}] /\ Lists!IsInjective(<<x>>)
  BY DEF Lists!IsInjective
<1>3. s \in [1 .. 1 -> {x}]
  BY <1>2
<1>4. Lists!SetToSeq({x}) = s
  BY <1>1 DEF Lists!SetToSeq
<1> HIDE DEF s
<1>5. s = <<x>>
  BY <1>3
<1> QED
  BY <1>4, <1>5

\* The first messages are messages.
LEMMA TypedInit == Init => Typed
<1> SUFFICES ASSUME Init
             PROVE  Typed
  OBVIOUS
<1>1. \A f \in {CurrentPlayer(game)} : f \in Clients \cup {NULL} =>
          /\ <<Started(f)>> \in Seq(Messages)
          /\ <<Plain("YOUR_TURN")>> \in Seq(Messages)
  BY DEF Messages, Started, Plain
<1>2. CurrentPlayer(game) \in Clients \cup {NULL}
  BY ServerInit DEF ServerInv, GameInv, GameType, CurrentPlayer
<1>3. inbox \in Seq(Messages)
  BY <1>1, <1>2 DEF Init
<1>4. outbox \in Seq(Cards) /\ Len(outbox) <= MaxClicks
  BY ViewAssumption DEF Init
<1>5. flipped \in Seq(Cards) /\ tasks \in Seq(Tasks) /\ sleepers \in Seq(SUBSET Cards)
  BY DEF Init
<1>6. face \in [Cards -> {"?", "value"}]
  BY DEF Init
<1> QED
  BY <1>3, <1>4, <1>5, <1>6 DEF Init, Typed

\* What the server sends.
LEMMA SentTyped ==
    ASSUME Typed, NEW ms \in Seq(Messages), Send(ms)
    PROVE  inbox' \in Seq(Messages)
BY DEF Typed, Send

\* A flip and its announcement.
LEMMA TypedServer ==
    ASSUME ServerInv, ServerInv', Typed,
           FlipByRival \/ FlipByMe \/ \E c \in Clients : Reveal(c)
    PROVE  Typed'
<1>1. CASE FlipByRival
  BY <1>1 DEF FlipByRival, Typed, reader, screen
<1>2. CASE FlipByMe
  <2>1. <<Plain("ERROR")>> \in Seq(Messages)
    BY DEF Messages, Plain
  <2>2. inbox' \in Seq(Messages)
    BY <1>2, <2>1, SentTyped DEF FlipByMe, Typed
  <2>3. outbox' \in Seq(Cards) /\ Len(outbox') <= MaxClicks
    BY <1>2, ViewAssumption DEF FlipByMe, Typed
  <2> QED
    BY <1>2, <2>2, <2>3 DEF FlipByMe, Typed, reader, screen
<1>3. ASSUME NEW c \in Clients, Reveal(c)
      PROVE  Typed'
  <2>1. LastFlipped \in Cards
    BY <1>3 DEF Reveal, ServerInv, GameInv, GameType, FaceUpIsTurn, LastFlipped, Playing
  <2>2. <<CardReveal(LastFlipped)>> \in Seq(Messages)
    BY <2>1 DEF Messages, CardReveal
  <2>3. inbox' \in Seq(Messages)
    BY <1>3, <2>2, SentTyped DEF Reveal
  <2> QED
    BY <1>3, <2>3 DEF Reveal, Typed, reader, screen, history
<1> QED
  BY <1>1, <1>2, <1>3

\* What Settle sends.
Verdict(g, h) ==
    LET turn == IF CurrentPlayer(h) = Me THEN <<Plain("YOUR_TURN")>> ELSE <<>>
    IN  IF ~IsMatch(g) THEN <<Mismatched(CurrentPlayer(h))>> \o turn
        ELSE IF h.state = "FINISHED" THEN <<Plain("MATCH"), Plain("GAME_END")>>
        ELSE <<Plain("MATCH")>> \o turn

\* What is sent after a pair of flips.
LEMMA TypedSettle ==
    ASSUME ServerInv', Typed, NEW c \in Clients, Settle(c)
    PROVE  Typed'
<1>1. CurrentPlayer(game') \in Clients \cup {NULL}
  BY DEF ServerInv, GameInv, GameType, CurrentPlayer
<1>2. /\ Plain("YOUR_TURN") \in Messages /\ Plain("MATCH") \in Messages
      /\ Plain("GAME_END") \in Messages /\ Mismatched(CurrentPlayer(game')) \in Messages
  BY <1>1 DEF Messages, Plain, Mismatched
<1>3. Verdict(game, game') \in Seq(Messages)
  BY <1>2 DEF Verdict
<1>4. Send(Verdict(game, game'))
  BY DEF Settle, Verdict
<1>5. inbox' \in Seq(Messages)
  BY <1>3, <1>4, SentTyped
<1> QED
  BY <1>5 DEF Settle, Typed, reader, screen, history

\* The loss of the connection, and the return with its GAME_STATE.
LEMMA TypedLink ==
    ASSUME ServerInv, Typed, LoseLink \/ Return
    PROVE  Typed'
<1>1. CASE LoseLink
  BY <1>1, ViewAssumption DEF LoseLink, Typed, reader, screen
<1>2. CASE Join
  BY <1>2 DEF Join, Typed, reader, screen
<1>3. CASE FormatState
  <2>1. GameState(game) \in GameStates
    BY DEF GameState, GameStates, ServerInv, GameInv, GameType, CurrentPlayer, CardsIn
  <2> QED
    BY <1>3, <2>1 DEF FormatState, Typed, reader, screen, history
<1>4. CASE SendState
  <2>1. <<state>> \in Seq(Messages)
    BY <1>4 DEF SendState, Typed, Messages
  <2>2. inbox' \in Seq(Messages)
    BY <1>4, <2>1, SentTyped DEF SendState
  <2> QED
    BY <1>4, <2>2 DEF SendState, Typed, reader, screen, history
<1>5. CASE Prompt
  <2>1. <<Plain("YOUR_TURN")>> \in Seq(Messages) /\ <<>> \in Seq(Messages)
    BY DEF Messages, Plain
  <2>2. inbox' \in Seq(Messages)
    BY <1>5, <2>1, SentTyped DEF Prompt
  <2> QED
    BY <1>5, <2>2 DEF Prompt, Typed, reader, screen, history
<1> QED
  BY <1>1, <1>2, <1>3, <1>4, <1>5 DEF Return

\* A message that is read.
LEMMA ReadTyped ==
    ASSUME Typed, inbox # <<>>
    PROVE  /\ Tail(inbox) \in Seq(Messages) /\ Head(inbox) \in Messages
           /\ Len(inbox) \in Nat \ {0}
BY DEF Typed

\* The handlers of the reader thread hand over tasks.
LEMMA TypedReader ==
    ASSUME Typed, Reader
    PROVE  Typed'
<1>1. inbox # <<>> /\ inbox' = Tail(inbox)
  BY DEF Reader, Is, Read, HandleGameStart, RevealCard, HandleMatch,
     HandleMismatch, HandleYourTurn, HandleGameState, HandleOther
<1>2. inbox' \in Seq(Messages) /\ Head(inbox) \in Messages
  BY <1>1, ReadTyped
<1>3. Lists!ToSet(flipped) \in SUBSET Cards
  BY DEF Typed, Lists!ToSet
<1>4. ASSUME NEW x \in Tasks, RunLater(<<x>>)
      PROVE  tasks' \in Seq(Tasks)
  BY <1>4 DEF RunLater, Typed
<1>5. ASSUME NEW x \in Tasks, NEW y \in Tasks, RunLater(<<x, y>>)
      PROVE  tasks' \in Seq(Tasks)
  BY <1>5 DEF RunLater, Typed
<1>6. \A b \in BOOLEAN, S \in SUBSET Cards :
          /\ BuildBoard \in Tasks /\ SetTurn(b) \in Tasks /\ ShowCards(S) \in Tasks
          /\ ShowMismatch(S, b) \in Tasks
  BY DEF Tasks, BuildBoard, SetTurn, ShowCards, ShowMismatch
<1>7. CASE HandleGameStart
  <2>1. tasks' \in Seq(Tasks)
    BY <1>5, <1>6, <1>7 DEF HandleGameStart
  <2> QED
    BY <1>2, <1>7, <2>1 DEF HandleGameStart, Typed, screen, history
<1>8. CASE RevealCard
  <2>1. Head(inbox).card \in Cards
    BY <1>2, <1>8 DEF RevealCard, Is, Messages, GameStates
  <2>2. tasks' \in Seq(Tasks)
    BY <1>4, <1>6, <1>8, <2>1 DEF RevealCard
  <2>3. flipped' \in Seq(Cards)
    BY <1>8, <2>1 DEF RevealCard, Typed
  <2> QED
    BY <1>2, <1>8, <2>2, <2>3 DEF RevealCard, Typed, screen, history
<1>9. CASE HandleMatch
  BY <1>2, <1>3, <1>9 DEF HandleMatch, Typed, screen, history
<1>10. CASE HandleMismatch
  <2>1. tasks' \in Seq(Tasks)
    BY <1>3, <1>4, <1>6, <1>10 DEF HandleMismatch
  <2> QED
    BY <1>2, <1>10, <2>1 DEF HandleMismatch, Typed, screen, history
<1>11. CASE HandleYourTurn
  <2>1. tasks' \in Seq(Tasks)
    BY <1>4, <1>6, <1>11 DEF HandleYourTurn
  <2> QED
    BY <1>2, <1>11, <2>1 DEF HandleYourTurn, Typed, reader, screen, history
<1>12. CASE HandleGameState
  <2>1. Head(inbox).up \in SUBSET Cards /\ Head(inbox).matched \in SUBSET Cards
    BY <1>2, <1>12 DEF HandleGameState, Is, Messages, GameStates
  <2>2. tasks' \in Seq(Tasks)
    <3>1. Head(inbox).up \cup Head(inbox).matched \in SUBSET Cards
      BY <2>1
    <3>2. RunLater(<<ShowCards(Head(inbox).up \cup Head(inbox).matched),
                     SetTurn(Head(inbox).current = Me)>>)
      BY <1>12 DEF HandleGameState
    <3> QED
      BY <1>5, <1>6, <3>1, <3>2
  <2>3. flipped' \in Seq(Cards)
    BY <1>12, <2>1, SetToSeqType DEF HandleGameState
  <2>4. matched' \subseteq Cards
    BY <1>12, <2>1 DEF HandleGameState, Typed
  <2> QED
    BY <1>2, <1>12, <2>2, <2>3, <2>4 DEF HandleGameState, Typed, screen, history
<1>13. CASE HandleOther
  BY <1>2, <1>13 DEF HandleOther, Typed, reader, screen, history
<1> QED
  BY <1>7, <1>8, <1>9, <1>10, <1>11, <1>12, <1>13 DEF Reader

\* The tasks, when they are run.
LEMMA TypedJavaFX ==
    ASSUME Typed, JavaFX
    PROVE  Typed'
<1>1. tasks # <<>>
  BY DEF JavaFX, Doing, RunBuild, RunShow, RunTurn, RunMismatch, RunHide
<1>2. Tail(tasks) \in Seq(Tasks) /\ Head(tasks) \in Tasks
  BY <1>1, TailFacts DEF Typed
<1>3. CASE RunBuild
  BY <1>2, <1>3 DEF RunBuild, Done, Typed, reader, history
<1>4. CASE RunShow
  BY <1>2, <1>4 DEF RunShow, Done, Painted, Typed, reader, history
<1>5. CASE RunTurn
  <2>1. Head(tasks).mine \in BOOLEAN
    BY <1>2, <1>5 DEF RunTurn, Doing, Tasks
  <2> QED
    BY <1>2, <1>5, <2>1 DEF RunTurn, Done, Typed, reader, history
<1>6. CASE RunMismatch
  <2>1. Head(tasks).mine \in BOOLEAN /\ Head(tasks).cards \in SUBSET Cards
    BY <1>2, <1>6 DEF RunMismatch, Doing, Tasks
  <2>2. SetTurn(Head(tasks).mine) \in Tasks
    BY <2>1 DEF SetTurn, Tasks
  <2>3. tasks' \in Seq(Tasks)
    BY <1>2, <1>6, <2>2 DEF RunMismatch
  <2>4. sleepers' \in Seq(SUBSET Cards)
    BY <1>6, <2>1 DEF RunMismatch, Typed
  <2> QED
    BY <1>6, <2>3, <2>4 DEF RunMismatch, Typed, reader, history
<1>7. CASE RunHide
  BY <1>2, <1>7 DEF RunHide, Done, Painted, Typed, reader, history
<1> QED
  BY <1>3, <1>4, <1>5, <1>6, <1>7 DEF JavaFX

\* A thread that has waited.
LEMMA TypedWake ==
    ASSUME Typed, Wake
    PROVE  Typed'
<1>1. PICK k \in DOMAIN sleepers :
          /\ tasks' = tasks \o <<HideCards(sleepers[k])>>
          /\ sleepers' = Lists!RemoveAt(sleepers, k)
  BY DEF Wake, RunLater
<1>2. HideCards(sleepers[k]) \in Tasks
  BY DEF Typed, HideCards, Tasks
<1>3. tasks' \in Seq(Tasks)
  BY <1>1, <1>2 DEF Typed
<1>4. sleepers' \in Seq(SUBSET Cards)
  BY <1>1, RemoveAtFacts DEF Typed
<1> QED
  BY <1>3, <1>4 DEF Wake, Typed, reader, history

\* A click sends a FLIP while there is room for it.
LEMMA TypedClick ==
    ASSUME Typed, NEW i \in Cards, Click(i)
    PROVE  Typed'
<1>1. outbox' \in Seq(Cards) /\ Len(outbox') <= MaxClicks
  BY ViewAssumption DEF Click, Typed
<1> QED
  BY <1>1 DEF Click, Typed, reader, screen, history

\* Every step keeps the types.
LEMMA TypedNext == ServerInv /\ ServerInv' /\ Typed /\ [Next]_vars => Typed'
<1> SUFFICES ASSUME ServerInv, ServerInv', Typed, [Next]_vars
             PROVE  Typed'
  OBVIOUS
<1>1. CASE UNCHANGED vars
  BY <1>1 DEF vars, reader, screen, history, Typed
<1> QED
  BY <1>1, TypedServer, TypedSettle, TypedLink, TypedReader, TypedJavaFX,
     TypedWake, TypedClick DEF Next, Handler

\* The messages, the tasks and the screen stay within their types.
LEMMA TypedInvariant == Spec => []Typed
BY TypedInit, TypedNext, ServerInvariant, PTL DEF Spec

-----------------------------------------------------------------------------
(* The connection and its return.                                          *)

\* Nobody is within a FLIP; the messages that say where the game stands.
AllIdle == \A c \in Clients : thread[c] = "idle"
Openings == {"GAME_START", "GAME_STATE"}
Quiet(ms) == \A k \in DOMAIN ms : ms[k].kind \notin Openings

\* GAME_START and GAME_STATE come first, and find nothing under way.
OpeningInv ==
    \A k \in DOMAIN inbox : inbox[k].kind \in Openings =>
        /\ k = 1 /\ tasks = <<>> /\ sleepers = <<>>
        /\ inbox[k].kind = "GAME_START" => matched = {}
        /\ inbox[k].kind = "GAME_STATE" => lost

\* The connection and its return: as long as no FLIP of the rival was handled
\* during the return, nobody is within a FLIP while it goes on, GAME_STATE still
\* says what the game is when it is sent, and it finds an empty queue.
LinkInv ==
    /\ overtaken => lost
    /\ ~lost => link = "up"
    /\ link = "down" => inbox = <<>>
    /\ ~overtaken =>
          /\ Returning => Playing /\ AllIdle
          /\ link = "formatted" => state = GameState(game)
          /\ link \in {"joined", "formatted"} =>
                inbox = <<>> /\ tasks = <<>> /\ sleepers = <<>>
          /\ OpeningInv

\* Nothing was sent and nothing was read.
LEMMA OpeningKept ==
    ASSUME OpeningInv, UNCHANGED <<inbox, matched, tasks, sleepers>>, lost => lost'
    PROVE  OpeningInv'
BY DEF OpeningInv

\* Messages that do not say where the game stands may follow.
LEMMA OpeningSend ==
    ASSUME OpeningInv, NEW ms \in Seq(Messages), Quiet(ms), Typed,
           inbox' \in {inbox, inbox \o ms},
           UNCHANGED <<matched, tasks, sleepers>>, lost => lost'
    PROVE  OpeningInv'
<1>1. CASE inbox' = inbox
  BY <1>1, OpeningKept
<1>2. CASE inbox' = inbox \o ms
  <2> SUFFICES ASSUME NEW k \in DOMAIN inbox', inbox'[k].kind \in Openings
               PROVE  k \in DOMAIN inbox /\ inbox'[k] = inbox[k]
    BY DEF OpeningInv
  <2>1. inbox \in Seq(Messages)
    BY DEF Typed
  <2>2. CASE k <= Len(inbox)
    BY <1>2, <2>1, <2>2
  <2>3. CASE ~(k <= Len(inbox))
    <3>1. k - Len(inbox) \in DOMAIN ms /\ inbox'[k] = ms[k - Len(inbox)]
      BY <1>2, <2>1, <2>3
    <3> QED
      BY <3>1 DEF Quiet
  <2> QED
    BY <2>2, <2>3
<1> QED
  BY <1>1, <1>2

\* Once it is read, no other message says where the game stands.
LEMMA OpeningRead ==
    ASSUME OpeningInv, Typed, inbox # <<>>, inbox' = Tail(inbox)
    PROVE  OpeningInv'
<1> SUFFICES ASSUME NEW k \in DOMAIN inbox', inbox'[k].kind \in Openings
             PROVE  FALSE
  BY DEF OpeningInv
<1>1. k \in Nat \ {0} /\ k + 1 \in DOMAIN inbox /\ inbox'[k] = inbox[k + 1]
  BY DEF Typed
<1>2. k + 1 = 1
  BY <1>1 DEF OpeningInv
<1> QED
  BY <1>1, <1>2

\* At the start GAME_START is the first message.
LEMMA LinkInit == Init => LinkInv
<1> SUFFICES ASSUME Init
             PROVE  LinkInv
  OBVIOUS
<1>1. ASSUME NEW k \in DOMAIN inbox
      PROVE  (inbox[k].kind \in Openings => k = 1) /\ inbox[k].kind # "GAME_STATE"
  BY DEF Init, Started, Plain, Openings
<1>2. OpeningInv
  BY <1>1 DEF Init, OpeningInv
<1> QED
  BY <1>2 DEF Init, LinkInv, Returning

\* A verdict opens nothing.
LEMMA VerdictQuiet ==
    ASSUME ServerInv'
    PROVE  Verdict(game, game') \in Seq(Messages) /\ Quiet(Verdict(game, game'))
<1>1. CurrentPlayer(game') \in Clients \cup {NULL}
  BY DEF ServerInv, GameInv, GameType, CurrentPlayer
<1>2. /\ Plain("YOUR_TURN") \in Messages /\ Plain("MATCH") \in Messages
      /\ Plain("GAME_END") \in Messages /\ Mismatched(CurrentPlayer(game')) \in Messages
  BY <1>1 DEF Messages, Plain, Mismatched
<1>3. /\ Plain("YOUR_TURN").kind \notin Openings /\ Plain("MATCH").kind \notin Openings
      /\ Plain("GAME_END").kind \notin Openings
      /\ Mismatched(CurrentPlayer(game')).kind \notin Openings
  BY DEF Openings, Plain, Mismatched
<1> QED
  BY <1>2, <1>3 DEF Verdict, Quiet

\* A FLIP while the player returns is noted as having overtaken him.
LEMMA LinkServer ==
    ASSUME ServerInv, ServerInv', Typed, LinkInv,
           FlipByRival \/ FlipByMe \/ \E c \in Clients : Handler(c)
    PROVE  LinkInv'
<1>0. \A c \in Clients : thread[c] # "idle" => overtaken \/ ~Returning
  BY DEF LinkInv, AllIdle
<1>1. CASE FlipByRival
  <2>1. ~overtaken' => ~overtaken /\ ~Returning
    BY <1>1 DEF FlipByRival, Typed
  <2>2. OpeningInv => OpeningInv'
    BY <1>1, OpeningKept DEF FlipByRival, reader, screen
  <2> QED
    BY <1>1, <2>1, <2>2 DEF FlipByRival, LinkInv, Returning, Typed
<1>2. CASE FlipByMe
  <2>1. <<Plain("ERROR")>> \in Seq(Messages) /\ Quiet(<<Plain("ERROR")>>)
    BY DEF Messages, Plain, Quiet, Openings
  <2>2. inbox' \in {inbox, inbox \o <<Plain("ERROR")>>}
    BY <1>2 DEF FlipByMe, Send
  <2>3. OpeningInv => OpeningInv'
    BY <1>2, <2>1, <2>2, OpeningSend DEF FlipByMe, reader, screen
  <2> QED
    BY <1>2, <2>3 DEF FlipByMe, LinkInv, Returning
<1>3. ASSUME NEW c \in Clients, Reveal(c)
      PROVE  LinkInv'
  <2>1. LastFlipped \in Cards
    BY <1>3 DEF Reveal, ServerInv, GameInv, GameType, FaceUpIsTurn, LastFlipped, Playing
  <2>2. <<CardReveal(LastFlipped)>> \in Seq(Messages) /\ Quiet(<<CardReveal(LastFlipped)>>)
    BY <2>1 DEF Messages, CardReveal, Quiet, Openings
  <2>3. inbox' = IF Reachable THEN inbox \o <<CardReveal(LastFlipped)>> ELSE inbox
    BY <1>3 DEF Reveal, Send
  <2>4. OpeningInv => OpeningInv'
    BY <1>3, <2>2, <2>3, OpeningSend DEF Reveal, reader, screen, history
  <2>5. overtaken \/ ~Returning
    BY <1>0, <1>3 DEF Reveal
  <2> QED
    BY <1>3, <2>3, <2>4, <2>5 DEF Reveal, LinkInv, Returning, Reachable, history
<1>4. ASSUME NEW c \in Clients, Settle(c)
      PROVE  LinkInv'
  <2>1. inbox' = IF Reachable THEN inbox \o Verdict(game, game') ELSE inbox
    BY <1>4 DEF Settle, Send, Verdict
  <2>2. OpeningInv => OpeningInv'
    BY <1>4, <2>1, VerdictQuiet, OpeningSend DEF Settle, reader, screen, history
  <2>3. overtaken \/ ~Returning
    BY <1>0, <1>4 DEF Settle
  <2> QED
    BY <1>4, <2>1, <2>2, <2>3 DEF Settle, LinkInv, Returning, Reachable, history
<1> QED
  BY <1>1, <1>2, <1>3, <1>4 DEF Handler

\* The loss of the connection, and each step of the return.
LEMMA LinkLink ==
    ASSUME ServerInv, Typed, LinkInv, LoseLink \/ Return
    PROVE  LinkInv'
<1>1. CASE LoseLink
  <2>1. OpeningInv'
    BY <1>1 DEF LoseLink, OpeningInv
  <2> QED
    BY <1>1, <2>1 DEF LoseLink, LinkInv, Returning
<1>2. CASE Join
  <2>1. OpeningInv => OpeningInv'
    BY <1>2, OpeningKept DEF Join, reader, screen
  <2>2. ~overtaken' => ~overtaken /\ thread[Rival] = "idle" /\ thread[Me] = "idle"
    BY <1>2 DEF Join, Typed
  <2>3. ~overtaken' => AllIdle'
    BY <1>2, <2>2, ViewAssumption DEF Join, AllIdle, server
  <2>4. Playing' /\ inbox' = <<>> /\ tasks' = <<>> /\ sleepers' = <<>> /\ lost'
        /\ link' = "joined"
    BY <1>2 DEF Join, LinkInv, Playing, server, screen
  <2> QED
    BY <2>1, <2>2, <2>3, <2>4 DEF LinkInv
<1>3. CASE FormatState
  <2>1. OpeningInv => OpeningInv'
    BY <1>3, OpeningKept DEF FormatState, reader, screen, history
  <2>2. state' = GameState(game') /\ Playing' = Playing /\ AllIdle' = AllIdle
    BY <1>3 DEF FormatState, server, Playing, AllIdle
  <2>3. link = "joined" /\ link' = "formatted" /\ Returning
        /\ UNCHANGED <<inbox, tasks, sleepers, lost, overtaken>>
    BY <1>3 DEF FormatState, screen, history, Returning
  <2> QED
    BY <2>1, <2>2, <2>3 DEF LinkInv
<1>4. CASE SendState
  <2>1. ASSUME ~overtaken
        PROVE  OpeningInv'
    <3>1. state = GameState(game) /\ inbox = <<>> /\ tasks = <<>> /\ sleepers = <<>> /\ lost
      BY <1>4, <2>1 DEF SendState, LinkInv
    <3>2. inbox' = <<GameState(game)>>
      BY <1>4, <3>1 DEF SendState, Send, Reachable
    <3>3. tasks' = <<>> /\ sleepers' = <<>> /\ lost'
      BY <1>4, <3>1 DEF SendState, screen, history
    <3> QED
      BY <3>2, <3>3 DEF OpeningInv, GameState
  <2>2. Playing' = Playing /\ AllIdle' = AllIdle
    BY <1>4 DEF SendState, server, Playing, AllIdle
  <2>3. link = "formatted" /\ link' = "sent" /\ Returning /\ UNCHANGED history
    BY <1>4 DEF SendState, Returning
  <2> QED
    BY <2>1, <2>2, <2>3 DEF LinkInv, history
<1>5. CASE Prompt
  <2>1. <<Plain("YOUR_TURN")>> \in Seq(Messages) /\ Quiet(<<Plain("YOUR_TURN")>>)
        /\ <<>> \in Seq(Messages) /\ Quiet(<<>>)
    BY DEF Messages, Plain, Quiet, Openings
  <2>2. \/ inbox' \in {inbox, inbox \o <<Plain("YOUR_TURN")>>}
        \/ inbox' \in {inbox, inbox \o <<>>}
    BY <1>5 DEF Prompt, Send
  <2>3. UNCHANGED <<matched, tasks, sleepers, lost, overtaken>> /\ link' = "up"
    BY <1>5 DEF Prompt, reader, screen, history
  <2>4. OpeningInv => OpeningInv'
    BY <2>1, <2>2, <2>3, OpeningSend
  <2> QED
    BY <2>3, <2>4 DEF LinkInv, Returning
<1> QED
  BY <1>1, <1>2, <1>3, <1>4, <1>5 DEF Return

\* The reader takes the first message.
LEMMA LinkReader ==
    ASSUME Typed, LinkInv, Reader
    PROVE  LinkInv'
<1>1. /\ inbox # <<>> /\ inbox' = Tail(inbox)
      /\ UNCHANGED <<server, link, state, history>>
  BY DEF Reader, Is, Read, HandleGameStart, RevealCard, HandleMatch,
     HandleMismatch, HandleYourTurn, HandleGameState, HandleOther
<1>2. OpeningInv => OpeningInv'
  BY <1>1, OpeningRead
<1>3. link # "down" /\ (~overtaken => link \notin {"joined", "formatted"})
  BY <1>1 DEF LinkInv
<1>4. AllIdle' = AllIdle /\ Playing' = Playing /\ Returning' = Returning
  BY <1>1 DEF AllIdle, Playing, Returning, server
<1> QED
  BY <1>1, <1>2, <1>3, <1>4 DEF LinkInv, history

\* A task is handed over only by somebody who is not at the start.
LEMMA LinkScreen ==
    ASSUME Typed, LinkInv, JavaFX \/ Wake
    PROVE  LinkInv'
<1>1. UNCHANGED <<server, link, state, inbox, reader, history>>
  BY DEF JavaFX, RunBuild, RunShow, RunTurn, RunMismatch, RunHide, Wake
<1>2. tasks # <<>> \/ sleepers # <<>>
  <2>1. JavaFX => tasks # <<>>
    BY DEF JavaFX, Doing, RunBuild, RunShow, RunTurn, RunMismatch, RunHide
  <2>2. Wake => DOMAIN sleepers # {}
    BY DEF Wake
  <2>3. sleepers = <<>> => DOMAIN sleepers = {}
    OBVIOUS
  <2> QED
    BY <2>1, <2>2, <2>3
<1>3. OpeningInv => OpeningInv'
  <2> SUFFICES ASSUME OpeningInv, NEW k \in DOMAIN inbox', inbox'[k].kind \in Openings
               PROVE  FALSE
    BY DEF OpeningInv
  <2> QED
    BY <1>1, <1>2 DEF OpeningInv
<1>4. ~overtaken => link \notin {"joined", "formatted"}
  BY <1>2 DEF LinkInv
<1>5. AllIdle' = AllIdle /\ Playing' = Playing /\ Returning' = Returning
  BY <1>1 DEF AllIdle, Playing, Returning, server
<1> QED
  BY <1>1, <1>3, <1>4, <1>5 DEF LinkInv, history

\* Clicks do not matter here.
LEMMA LinkKept ==
    ASSUME LinkInv, (\E i \in Cards : Click(i)) \/ UNCHANGED vars
    PROVE  LinkInv'
<1>1. UNCHANGED <<server, link, state, inbox, reader, screen, tasks, history>>
  BY DEF Click, vars
<1>2. OpeningInv => OpeningInv'
  BY <1>1, OpeningKept DEF reader, screen, history
<1>3. AllIdle' = AllIdle /\ Playing' = Playing /\ Returning' = Returning
      /\ GameState(game)' = GameState(game)
  BY <1>1 DEF AllIdle, Playing, Returning, server
<1> QED
  BY <1>1, <1>2, <1>3 DEF LinkInv, history, screen

\* Every step keeps the order of messages across a return.
LEMMA LinkNext ==
    ServerInv /\ ServerInv' /\ Typed /\ LinkInv /\ [Next]_vars => LinkInv'
<1> SUFFICES ASSUME ServerInv, ServerInv', Typed, LinkInv, [Next]_vars
             PROVE  LinkInv'
  OBVIOUS
<1>1. CASE FlipByRival \/ FlipByMe \/ \E c \in Clients : Handler(c)
  BY <1>1, LinkServer
<1>2. CASE LoseLink \/ Return
  BY <1>2, LinkLink
<1>3. CASE Reader
  BY <1>3, LinkReader
<1>4. CASE JavaFX \/ Wake
  BY <1>4, LinkScreen
<1>5. CASE (\E i \in Cards : Click(i)) \/ UNCHANGED vars
  BY <1>5, LinkKept
<1> QED
  BY <1>1, <1>2, <1>3, <1>4, <1>5 DEF Next

\* GAME_START and GAME_STATE come first and find nothing under way.
LEMMA LinkInvariant == Spec => []LinkInv
BY LinkInit, LinkNext, ServerInvariant, TypedInvariant, PTL DEF Spec

-----------------------------------------------------------------------------
(* The invariant of the view.                                              *)

\* The first n cards turned.
FaceUp(g, n) == IF n = 0 THEN <<>> ELSE IF n = 1 THEN <<g.first>>
                ELSE <<g.first, g.second>>

\* The cards that lie face up and have been announced.
Announced ==
    FaceUp(game, IF \E c \in Clients : thread[c] = "flipped"
                 THEN game.flips - 1 ELSE game.flips)

\* The view the reader and the screen have now, t being the turn that is due.
View(t, U) == [matched |-> matched, flipped |-> flipped, turn |-> t, owed |-> U]

\* The view that agrees with the server: it has the cards that have left, those
\* that have been announced in their order, and the turn; and no hidden card is
\* shown without being covered.
FinalView(w) ==
    /\ w.matched = CardsIn(game, "MATCHED") /\ w.flipped = Announced
    /\ w.turn = (Mover = Me)
    /\ w.owed \cap CardsIn(game, "HIDDEN") = {}

\* Every card outside U is covered, if it shows a value.
Owed(U) == \A i \in Cards \ U : Covered(i, face[i] = "value", tasks, sleepers, matched)

\* The screen, while the connection has not been lost: t is due, U is owed.
Screen(t, U) == Due(tasks, myTurn, t) /\ (~lost => Owed(U))

\* The messages on their way lead to a view that agrees with the server.
Awaited(t, U, w) == Leads(View(t, U), inbox, w, game) /\ FinalView(w)

\* The inductive invariant: the messages on their way lead from what the client
\* has to what the server has.
ViewInv ==
    ~overtaken =>
        /\ matched \subseteq CardsIn(game, "MATCHED")
        /\ link \in {"up", "sent"} =>
              \E t \in BOOLEAN, U \in SUBSET Cards :
                  Screen(t, U) /\ \E w : Awaited(t, U, w)

\* A card that has been flipped is not announced yet.
LEMMA AnnouncedFlips ==
    ASSUME ServerInv, NEW c \in Clients, NEW i, Flips(c, i)
    PROVE  Announced' = Announced
<1>1. /\ game.flips \in {0, 1} /\ game'.flips = game.flips + 1
      /\ game'.first = IF game.flips = 0 THEN i ELSE game.first
  BY FlipEffect DEF ServerInv, Flips
<1>2. \A d \in Clients : thread[d] = "idle"
  BY DEF ServerInv, Flips, CanFlip, Mover
<1>3. thread'[c] = "flipped"
  BY DEF ServerInv, Flips
<1>4. Announced = FaceUp(game, game.flips)
  BY <1>2 DEF Announced
<1>5. Announced' = FaceUp(game', game'.flips - 1)
  BY <1>3 DEF Announced
<1> QED
  BY <1>1, <1>4, <1>5 DEF FaceUp

\* CARD_REVEAL announces the card that was flipped last.
LEMMA AnnouncedReveals ==
    ASSUME ServerInv, NEW c \in Clients, Reveals(c)
    PROVE  Announced' = Append(Announced, LastFlipped)
<1>1. game.flips \in {1, 2} /\ \A d \in Clients \ {c} : thread[d] = "idle"
  BY DEF ServerInv, Reveals
<1>2. \A d \in Clients : thread'[d] # "flipped"
  BY <1>1 DEF ServerInv, Reveals
<1>3. Announced = FaceUp(game, game.flips - 1)
  BY DEF Announced, Reveals
<1>4. Announced' = FaceUp(game, game.flips)
  BY <1>2 DEF Announced, Reveals
<1>5. CASE game.flips = 1
  <2>1. Announced = <<>> /\ Announced' = <<game.first>> /\ LastFlipped = game.first
    BY <1>3, <1>4, <1>5 DEF FaceUp, LastFlipped
  <2> QED
    BY <2>1
<1>6. CASE game.flips = 2
  <2>1. /\ Announced = <<game.first>> /\ LastFlipped = game.second
        /\ Announced' = <<game.first, game.second>>
    BY <1>3, <1>4, <1>6 DEF FaceUp, LastFlipped
  <2> QED
    BY <2>1
<1> QED
  BY <1>1, <1>5, <1>6

\* After game_check_match no card lies face up.
LEMMA AnnouncedSettles ==
    ASSUME ServerInv, NEW c \in Clients, Settles(c)
    PROVE  /\ Announced = <<game.first, game.second>>
           /\ game'.flips = 0 => Announced' = <<>>
<1>1. game.flips = 2 /\ \A d \in Clients : thread[d] # "flipped" /\ thread'[d] = "idle"
  BY DEF ServerInv, Settles
<1>2. Announced = FaceUp(game, game.flips)
  BY <1>1 DEF Announced
<1>3. Announced' = FaceUp(game', game'.flips)
  BY <1>1 DEF Announced
<1> QED
  BY <1>1, <1>2, <1>3 DEF FaceUp

\* Between the turns of two threads: none or one card lies face up.
LEMMA AnnouncedIdle ==
    ASSUME ServerInv, AllIdle
    PROVE  /\ Lists!SetToSeq(CardsIn(game, "REVEALED")) = Announced
           /\ Lists!ToSet(Announced) = CardsIn(game, "REVEALED")
           /\ Len(Announced) = game.flips /\ game.flips \in {0, 1}
<1>1. game.flips \in {0, 1}
  BY DEF ServerInv, AllIdle, GameInv, GameType
<1>2. Announced = FaceUp(game, game.flips)
  BY DEF Announced, AllIdle
<1>3. CardsIn(game, "REVEALED") = {game.first, game.second} \ {NoCard} /\ game.second = NoCard
      /\ (game.first # NoCard <=> game.flips = 1)
  BY <1>1 DEF ServerInv, GameInv, FaceUpIsTurn
<1>4. CASE game.flips = 0
  <2>1. Announced = <<>> /\ CardsIn(game, "REVEALED") = {}
    BY <1>2, <1>3, <1>4 DEF FaceUp
  <2>2. Lists!ToSet(<<>>) = {} /\ Len(<<>>) = 0
    BY DEF Lists!ToSet
  <2> QED
    BY <1>4, <2>1, <2>2, SetToSeqEmpty
<1>5. CASE game.flips = 1
  <2>1. Announced = <<game.first>> /\ CardsIn(game, "REVEALED") = {game.first}
    BY <1>2, <1>3, <1>5 DEF FaceUp
  <2>2. Lists!ToSet(<<game.first>>) = {game.first}
    BY DEF Lists!ToSet
  <2> QED
    BY <1>5, <2>1, <2>2, SetToSeqOne
<1> QED
  BY <1>1, <1>4, <1>5

\* What a message that is sent does to the final view.
LEMMA ApplyTyped ==
    ASSUME NEW g, NEW h, CardsIn(g, "MATCHED") \subseteq CardsIn(h, "MATCHED"),
           NEW w \in Boards(g)
    PROVE  /\ \A m \in {Plain("YOUR_TURN"), Plain("ERROR"), Plain("GAME_END")} :
                 Apply(m, w) = w /\ w \in Boards(h)
           /\ \A i \in Cards :
                 LET x == Apply(CardReveal(i), w) IN
                 /\ x \in Boards(h) /\ x.matched = w.matched /\ x.turn = w.turn
                 /\ x.flipped = Append(w.flipped, i) /\ x.owed = w.owed \cup {i}
           /\ Lists!ToSet(w.flipped) \subseteq CardsIn(h, "MATCHED") =>
                 LET x == Apply(Plain("MATCH"), w) IN
                 /\ x \in Boards(h) /\ x.matched = w.matched \cup Lists!ToSet(w.flipped)
                 /\ x.turn = w.turn /\ x.flipped = <<>> /\ x.owed = w.owed
           /\ \A c : LET x == Apply(Mismatched(c), w) IN
                 /\ x \in Boards(h) /\ x.matched = w.matched
                 /\ x.turn = (c = Me) /\ x.flipped = <<>>
                 /\ x.owed = w.owed \ Lists!ToSet(w.flipped)
<1>1. /\ w.matched \in SUBSET CardsIn(h, "MATCHED") /\ w.flipped \in Seq(Cards)
      /\ w.turn \in BOOLEAN /\ w.owed \in SUBSET Cards /\ w \in Boards(h)
  BY DEF Boards
<1>2. ASSUME NEW i \in Cards
      PROVE  LET x == Apply(CardReveal(i), w) IN
             /\ x \in Boards(h) /\ x.matched = w.matched /\ x.turn = w.turn
             /\ x.flipped = Append(w.flipped, i) /\ x.owed = w.owed \cup {i}
  <2> DEFINE x == [w EXCEPT !.flipped = Append(w.flipped, i), !.owed = w.owed \cup {i}]
  <2>1. Apply(CardReveal(i), w) = x
    BY DEF Apply, CardReveal
  <2>2. Append(w.flipped, i) \in Seq(Cards) /\ w.owed \cup {i} \in SUBSET Cards
    BY <1>1
  <2>3. x \in Boards(h) /\ x.matched = w.matched /\ x.turn = w.turn
        /\ x.flipped = Append(w.flipped, i) /\ x.owed = w.owed \cup {i}
    BY <1>1, <2>2 DEF Boards
  <2> QED
    BY <2>1, <2>3
<1>3. ASSUME Lists!ToSet(w.flipped) \subseteq CardsIn(h, "MATCHED")
      PROVE  LET x == Apply(Plain("MATCH"), w) IN
             /\ x \in Boards(h) /\ x.matched = w.matched \cup Lists!ToSet(w.flipped)
             /\ x.turn = w.turn /\ x.flipped = <<>> /\ x.owed = w.owed
  <2> DEFINE x == [w EXCEPT !.matched = w.matched \cup Lists!ToSet(w.flipped), !.flipped = Nothing]
  <2>1. Apply(Plain("MATCH"), w) = x
    BY DEF Apply, Plain
  <2>2. w.matched \cup Lists!ToSet(w.flipped) \in SUBSET CardsIn(h, "MATCHED")
    BY <1>1, <1>3
  <2>3. Nothing \in Seq(Cards) /\ Nothing = <<>>
    BY DEF Nothing
  <2>4. x \in Boards(h) /\ x.matched = w.matched \cup Lists!ToSet(w.flipped)
        /\ x.turn = w.turn /\ x.flipped = <<>> /\ x.owed = w.owed
    BY <1>1, <2>2, <2>3 DEF Boards
  <2> QED
    BY <2>1, <2>4
<1>4. ASSUME NEW c
      PROVE  LET x == Apply(Mismatched(c), w) IN
             /\ x \in Boards(h) /\ x.matched = w.matched
             /\ x.turn = (c = Me) /\ x.flipped = <<>>
             /\ x.owed = w.owed \ Lists!ToSet(w.flipped)
  <2> DEFINE x == [w EXCEPT !.flipped = Nothing, !.turn = (c = Me),
                            !.owed = w.owed \ Lists!ToSet(w.flipped)]
  <2>1. Apply(Mismatched(c), w) = x
    BY DEF Apply, Mismatched
  <2>2. w.owed \ Lists!ToSet(w.flipped) \in SUBSET Cards /\ (c = Me) \in BOOLEAN
    BY <1>1
  <2>3. Nothing \in Seq(Cards) /\ Nothing = <<>>
    BY DEF Nothing
  <2>4. x \in Boards(h) /\ x.matched = w.matched
        /\ x.turn = (c = Me) /\ x.flipped = <<>> /\ x.owed = w.owed \ Lists!ToSet(w.flipped)
    BY <1>1, <2>2, <2>3 DEF Boards
  <2> QED
    BY <2>1, <2>4
<1>5. \A m \in {Plain("YOUR_TURN"), Plain("ERROR"), Plain("GAME_END")} : Apply(m, w) = w
  BY DEF Apply, Plain
<1> QED
  BY <1>1, <1>2, <1>3, <1>4, <1>5

\* A message that is sent leads to the view after it.
LEMMA LeadsSent ==
    ASSUME NEW g, NEW h, CardsIn(g, "MATCHED") \subseteq CardsIn(h, "MATCHED"),
           NEW s \in Seq(Messages), NEW m \in Messages, NEW v, NEW w,
           Leads(v, s, w, g), Fits(m, w), Apply(m, w) \in Boards(h)
    PROVE  Leads(v, s \o <<m>>, Apply(m, w), h)
<1>1. Leads(v, s, w, h)
  BY LeadsMore
<1>2. s \o <<m>> = Append(s, m)
  BY AppendIsConcat
<1> QED
  BY <1>1, <1>2, LeadsAppend

-----------------------------------------------------------------------------
(* The steps of the server and of the connection.                          *)

\* Messages reach the client, and he has been sent where the game stands.
Live == link \in {"up", "sent"}
Inside == matched \subseteq CardsIn(game, "MATCHED")

\* What the server says leaves the screen as it is.
LEMMA ScreenKept ==
    ASSUME UNCHANGED <<reader, screen, tasks>>, lost' = lost, NEW t, NEW U
    PROVE  Screen(t, U)' = Screen(t, U) /\ View(t, U)' = View(t, U)
BY DEF Screen, Owed, View, reader, screen

\* One step of the server, as far as the view is concerned.
LEMMA ViewStep ==
    ASSUME ViewInv, ~overtaken, UNCHANGED <<reader, screen, tasks>>, lost' = lost,
           CardsIn(game, "MATCHED") \subseteq CardsIn(game', "MATCHED"),
           Live' => Live,
           \A v, w : Live /\ Leads(v, inbox, w, game) /\ FinalView(w)
                        => \E x : Leads(v, inbox', x, game') /\ FinalView(x)'
    PROVE  ViewInv'
<1>1. Inside'
  BY DEF ViewInv, Inside, reader
<1>2. ASSUME Live'
      PROVE  \E t \in BOOLEAN, U \in SUBSET Cards : Screen(t, U)' /\ \E w : Awaited(t, U, w)'
  <2>1. PICK t \in BOOLEAN, U \in SUBSET Cards : Screen(t, U) /\ \E w : Awaited(t, U, w)
    BY <1>2 DEF ViewInv, Live
  <2>2. PICK w : Leads(View(t, U), inbox, w, game) /\ FinalView(w)
    BY <2>1 DEF Awaited
  <2>3. PICK x : Leads(View(t, U), inbox', x, game') /\ FinalView(x)'
    BY <1>2, <2>2
  <2>4. Screen(t, U)' /\ View(t, U)' = View(t, U)
    BY <2>1, ScreenKept
  <2>5. Awaited(t, U, x)'
    BY <2>3, <2>4 DEF Awaited
  <2> QED
    BY <2>4, <2>5
<1> QED
  BY <1>1, <1>2 DEF ViewInv, Inside, Live

\* A flip says nothing before its CARD_REVEAL.
LEMMA ViewFlips ==
    ASSUME ServerInv, ViewInv, ~overtaken, NEW c \in Clients, NEW i, Flips(c, i),
           UNCHANGED <<inbox, reader, screen, tasks, link>>, lost' = lost
    PROVE  ViewInv'
<1>1. /\ CardsIn(game', "MATCHED") = CardsIn(game, "MATCHED")
      /\ CardsIn(game', "HIDDEN") \subseteq CardsIn(game, "HIDDEN")
  BY FlipEffect DEF ServerInv, Flips
<1>2. Announced' = Announced /\ Mover' = Mover
  BY AnnouncedFlips, ServerFlips
<1>3. ASSUME NEW v, NEW w, Leads(v, inbox, w, game), FinalView(w)
      PROVE  Leads(v, inbox', w, game') /\ FinalView(w)'
  <2>1. Leads(v, inbox, w, game')
    BY <1>1, <1>3, LeadsMore
  <2> QED
    BY <1>1, <1>2, <1>3, <2>1 DEF FinalView
<1> QED
  BY <1>1, <1>3, ViewStep DEF Live

\* ERROR changes no view.
LEMMA ViewRefused ==
    ASSUME Typed, ViewInv, ~overtaken, UNCHANGED <<server, reader, screen, tasks, link>>,
           lost' = lost, inbox' \in {inbox, inbox \o <<Plain("ERROR")>>}
    PROVE  ViewInv'
<1>1. Plain("ERROR") \in Messages /\ \A w : Fits(Plain("ERROR"), w)
  BY DEF Messages, Plain, Fits
<1>2. inbox \in Seq(Messages) /\ game' = game /\ Announced' = Announced /\ Mover' = Mover
  BY DEF Typed, server, Announced, Mover
<1>3. ASSUME NEW v, NEW w, Leads(v, inbox, w, game), FinalView(w)
      PROVE  Leads(v, inbox', w, game') /\ FinalView(w)'
  <2>1. w \in Boards(game)
    BY <1>2, <1>3, LeadsEnds
  <2>2. Apply(Plain("ERROR"), w) = w
    BY <2>1, ApplyTyped
  <2>3. Leads(v, inbox \o <<Plain("ERROR")>>, w, game)
    BY <1>1, <1>2, <1>3, <2>1, <2>2, LeadsSent
  <2> QED
    BY <1>2, <1>3, <2>3 DEF FinalView
<1> QED
  BY <1>2, <1>3, ViewStep DEF Live

\* CARD_REVEAL adds the card to flippedIndices, as the game has it.
LEMMA ViewReveal ==
    ASSUME ServerInv, Typed, LinkInv, ViewInv, ~overtaken, NEW c \in Clients, Reveal(c)
    PROVE  ViewInv'
<1>1. /\ game' = game /\ Reveals(c) /\ UNCHANGED <<reader, screen, tasks, link>>
      /\ lost' = lost /\ inbox' = IF Reachable THEN inbox \o <<CardReveal(LastFlipped)>> ELSE inbox
  BY DEF Reveal, Reveals, Send, history
<1>2. LastFlipped \in Cards /\ game.card[LastFlipped] = "REVEALED"
  <2>1. game.flips \in {1, 2}
    BY <1>1 DEF ServerInv, Reveals
  <2>2. LastFlipped \in CardsIn(game, "REVEALED")
    BY <2>1 DEF ServerInv, GameInv, GameType, FaceUpIsTurn, LastFlipped
  <2> QED
    BY <2>2 DEF CardsIn
<1>3. Announced' = Append(Announced, LastFlipped) /\ Mover' = Mover
  BY <1>1, AnnouncedReveals DEF Mover
<1>4. PICK i \in Cards : i = LastFlipped
  BY <1>2
<1> DEFINE m == CardReveal(i)
<1>7. m \in Messages /\ \A w : Fits(m, w)
  BY DEF Messages, CardReveal, Fits
<1>5. inbox \in Seq(Messages)
  BY DEF Typed
<1> HIDE DEF m
<1>6. ASSUME Live, NEW v, NEW w, Leads(v, inbox, w, game), FinalView(w)
      PROVE  Leads(v, inbox', Apply(m, w), game') /\ FinalView(Apply(m, w))'
  <2>1. w \in Boards(game)
    BY <1>5, <1>6, LeadsEnds
  <2>2. /\ Apply(m, w) \in Boards(game) /\ Apply(m, w).matched = w.matched
        /\ Apply(m, w).turn = w.turn
        /\ Apply(m, w).flipped = Append(w.flipped, i)
        /\ Apply(m, w).owed = w.owed \cup {i}
    BY <2>1, ApplyTyped DEF m
  <2>3. Leads(v, inbox \o <<m>>, Apply(m, w), game)
    BY <1>7, <1>5, <1>6, <2>2, LeadsSent
  <2>4. inbox' = inbox \o <<m>>
    BY <1>1, <1>4, <1>6 DEF Live, Reachable, m
  <2>5. Apply(m, w).owed \cap CardsIn(game, "HIDDEN") = {}
    BY <1>2, <1>4, <1>6, <2>2 DEF FinalView, CardsIn
  <2>6. FinalView(Apply(m, w))'
    BY <1>1, <1>3, <1>4, <1>6, <2>2, <2>5 DEF FinalView
  <2> QED
    BY <1>1, <2>3, <2>4, <2>6
<1> QED
  BY <1>1, <1>6, ViewStep DEF Live

\* Two messages, one after the other.
LEMMA TwoInTurn ==
    ASSUME NEW S, NEW a \in S, NEW b \in S
    PROVE  Append(<<a>>, b) = <<a, b>>
<1>1. <<a>> \in Seq(S) /\ <<a, b>> \in Seq(S)
  OBVIOUS
<1>2. /\ Append(<<a>>, b) \in Seq(S)
      /\ Len(Append(<<a>>, b)) = 2 /\ Len(<<a, b>>) = 2
  BY <1>1
<1>3. Append(<<a>>, b)[1] = a /\ Append(<<a>>, b)[2] = b
  BY <1>1
<1>4. <<a, b>>[1] = a /\ <<a, b>>[2] = b
  OBVIOUS
<1>5. \A i \in 1 .. Len(<<a, b>>) : i = 1 \/ i = 2
  BY <1>2
<1>6. \A i \in 1 .. Len(<<a, b>>) : Append(<<a>>, b)[i] = <<a, b>>[i]
  BY <1>3, <1>4, <1>5
<1> QED
  BY <1>1, <1>2, <1>6, SeqEqual

\* Two messages are sent.
LEMMA SentInTurn ==
    ASSUME NEW s \in Seq(Messages), NEW a \in Messages, NEW b \in Messages
    PROVE  /\ (s \o <<a>>) \o <<b>> = s \o (<<a>> \o <<b>>)
           /\ <<a>> \o <<b>> = <<a, b>>
<1>1. <<a>> \in Seq(Messages) /\ <<b>> \in Seq(Messages)
  OBVIOUS
<1>2. (s \o <<a>>) \o <<b>> = s \o (<<a>> \o <<b>>)
  BY <1>1, ConcatAssociative
<1>3. <<a>> \o <<b>> = <<a, b>>
  <2>1. Append(<<a>>, b) = <<a, b>>
    BY TwoInTurn
  <2> QED
    BY <1>1, <2>1, AppendIsConcat
<1> QED
  BY <1>2, <1>3

\* YOUR_TURN says nothing new.
LEMMA TurnSent ==
    ASSUME NEW g, NEW s \in Seq(Messages), NEW v, NEW w, Leads(v, s, w, g), w.turn
    PROVE  Leads(v, s \o <<Plain("YOUR_TURN")>>, w, g)
<1>1. Plain("YOUR_TURN") \in Messages /\ Fits(Plain("YOUR_TURN"), w)
  BY DEF Messages, Plain, Fits
<1>2. w \in Boards(g)
  BY LeadsEnds
<1>3. Apply(Plain("YOUR_TURN"), w) = w
  BY <1>2, ApplyTyped
<1> QED
  BY <1>1, <1>2, <1>3, LeadsSent

\* GAME_END changes no view.
LEMMA EndSent ==
    ASSUME NEW g, NEW s \in Seq(Messages), NEW v, NEW w, Leads(v, s, w, g)
    PROVE  Leads(v, s \o <<Plain("GAME_END")>>, w, g)
<1>1. Plain("GAME_END") \in Messages /\ Fits(Plain("GAME_END"), w)
  BY DEF Messages, Plain, Fits
<1>2. w \in Boards(g)
  BY LeadsEnds
<1>3. Apply(Plain("GAME_END"), w) = w
  BY <1>2, ApplyTyped
<1> QED
  BY <1>1, <1>2, <1>3, LeadsSent

\* MATCH moves the two cards from flippedIndices to cardMatched.
LEMMA ViewMatch ==
    ASSUME ServerInv, Typed, ViewInv, ~overtaken, NEW c \in Clients, Settles(c),
           IsMatch(game), UNCHANGED <<reader, screen, tasks, link>>, lost' = lost,
           Live => inbox' = inbox \o Verdict(game, game')
    PROVE  ViewInv'
<1>1. game.flips = 2 /\ Playing
  BY DEF ServerInv, Settles
<1>2. /\ game'.players = game.players /\ game'.current = game.current
      /\ game'.state \in {game.state, "FINISHED"} /\ game'.flips = 0
      /\ CardsIn(game', "MATCHED") = CardsIn(game, "MATCHED") \cup {game.first, game.second}
      /\ CardsIn(game', "HIDDEN") = CardsIn(game, "HIDDEN")
  BY <1>1, MatchEffect DEF ServerInv, Settles
<1>3. Announced = <<game.first, game.second>> /\ Announced' = <<>> /\ Mover' = Mover
  BY <1>2, AnnouncedSettles DEF Mover
<1>4. Lists!ToSet(<<game.first, game.second>>) = {game.first, game.second}
  BY DEF Lists!ToSet
<1> DEFINE m == Plain("MATCH")
<1>5. m \in Messages /\ \A w : Fits(m, w)
  BY DEF Messages, Plain, Fits
<1>6. inbox \in Seq(Messages)
  BY DEF Typed
<1>7. ASSUME Live, NEW v, NEW w, Leads(v, inbox, w, game), FinalView(w)
      PROVE  Leads(v, inbox', Apply(m, w), game') /\ FinalView(Apply(m, w))'
  <2> DEFINE x == Apply(m, w)
  <2>1. w \in Boards(game)
    BY <1>6, <1>7, LeadsEnds
  <2>2. Lists!ToSet(w.flipped) = {game.first, game.second}
    BY <1>3, <1>4, <1>7 DEF FinalView
  <2>3. /\ x \in Boards(game')
        /\ x.matched = w.matched \cup {game.first, game.second}
        /\ x.turn = w.turn /\ x.flipped = <<>> /\ x.owed = w.owed
    <3>1. /\ CardsIn(game, "MATCHED") \subseteq CardsIn(game', "MATCHED")
          /\ Lists!ToSet(w.flipped) \subseteq CardsIn(game', "MATCHED")
      BY <1>2, <2>2
    <3>2. /\ x \in Boards(game') /\ x.matched = w.matched \cup Lists!ToSet(w.flipped)
          /\ x.turn = w.turn /\ x.flipped = <<>> /\ x.owed = w.owed
      BY <2>1, <3>1, ApplyTyped
    <3> QED
      BY <2>2, <3>2
  <2> HIDE DEF x, m
  <2>4. Leads(v, inbox \o <<m>>, x, game')
    BY <1>2, <1>5, <1>6, <1>7, <2>3, LeadsSent DEF x
  <2>5. inbox \o <<m>> \in Seq(Messages)
    BY <1>5, <1>6
  <2>6. FinalView(x)'
    BY <1>2, <1>3, <1>7, <2>3 DEF FinalView
  <2>7. Leads(v, inbox \o Verdict(game, game'), x, game')
    <3>1. CASE game'.state = "FINISHED"
      <4>1. Leads(v, (inbox \o <<m>>) \o <<Plain("GAME_END")>>, x, game')
        BY <2>4, <2>5, EndSent
      <4>2. Verdict(game, game') = <<m, Plain("GAME_END")>>
        BY <3>1 DEF Verdict, m
      <4>3. PICK e \in Messages : e = Plain("GAME_END")
        <5>1. Plain("GAME_END") \in Messages
          BY DEF Messages, Plain
        <5> QED
          BY <5>1, Zenon
      <4>4. inbox \o Verdict(game, game') = (inbox \o <<m>>) \o <<e>>
        <5>1. m \in Messages
          BY <1>5
        <5>2. /\ (inbox \o <<m>>) \o <<e>> = inbox \o (<<m>> \o <<e>>)
              /\ <<m>> \o <<e>> = <<m, e>>
          BY <1>6, <5>1, SentInTurn
        <5> QED
          BY <4>2, <4>3, <5>2, Zenon
      <4> QED
        BY <4>1, <4>3, <4>4, Zenon
    <3>2. CASE game'.state # "FINISHED" /\ CurrentPlayer(game') = Me
      <4>1. Mover' = Me
        BY <1>2, <3>2, <1>1 DEF Mover, CurrentPlayer, Playing
      <4>2. x.turn
        BY <1>3, <1>7, <2>3, <4>1 DEF FinalView
      <4>3. Leads(v, (inbox \o <<m>>) \o <<Plain("YOUR_TURN")>>, x, game')
        BY <2>4, <2>5, <4>2, TurnSent
      <4>4. Verdict(game, game') = <<m>> \o <<Plain("YOUR_TURN")>>
        BY <3>2 DEF Verdict, m
      <4>5. Plain("YOUR_TURN") \in Messages
        BY DEF Messages, Plain
      <4> QED
        BY <1>5, <1>6, <4>3, <4>4, <4>5, SentInTurn
    <3>3. CASE game'.state # "FINISHED" /\ CurrentPlayer(game') # Me
      <4>1. Verdict(game, game') = <<m>>
        BY <3>3 DEF Verdict, m
      <4> QED
        BY <2>4, <4>1
    <3> QED
      BY <3>1, <3>2, <3>3
  <2> QED
    BY <1>7, <2>6, <2>7 DEF x
<1> QED
  BY <1>2, <1>7, ViewStep DEF Live

\* MISMATCH clears flippedIndices, names the next player and has cards hidden.
LEMMA ViewMismatch ==
    ASSUME ServerInv, ServerInv', Typed, ViewInv, ~overtaken, NEW c \in Clients, Settles(c),
           ~IsMatch(game), UNCHANGED <<reader, screen, tasks, link>>, lost' = lost,
           Live => inbox' = inbox \o Verdict(game, game')
    PROVE  ViewInv'
<1>1. game.flips = 2 /\ Playing
  BY DEF ServerInv, Settles
<1>2. /\ game'.state = "PLAYING" /\ game'.flips = 0
      /\ CardsIn(game', "MATCHED") = CardsIn(game, "MATCHED")
      /\ CardsIn(game', "HIDDEN") = CardsIn(game, "HIDDEN") \cup {game.first, game.second}
  BY <1>1, MismatchEffect DEF ServerInv, Settles, Playing
<1>3. Announced = <<game.first, game.second>> /\ Announced' = <<>>
      /\ CurrentPlayer(game') = Mover'
  BY <1>2, AnnouncedSettles DEF Mover, CurrentPlayer
<1>4. Lists!ToSet(<<game.first, game.second>>) = {game.first, game.second}
  BY DEF Lists!ToSet
<1>8. PICK next \in Clients \cup {NULL} : next = CurrentPlayer(game')
  BY DEF ServerInv, GameInv, GameType, CurrentPlayer
<1> DEFINE m == Mismatched(next)
<1>5. m \in Messages /\ \A w : Fits(m, w)
  BY DEF Messages, Mismatched, Fits
<1>6. inbox \in Seq(Messages)
  BY DEF Typed
<1>7. ASSUME Live, NEW v, NEW w, Leads(v, inbox, w, game), FinalView(w)
      PROVE  Leads(v, inbox', Apply(m, w), game') /\ FinalView(Apply(m, w))'
  <2> DEFINE x == Apply(m, w)
  <2>1. w \in Boards(game)
    BY <1>6, <1>7, LeadsEnds
  <2>2. Lists!ToSet(w.flipped) = {game.first, game.second}
    BY <1>3, <1>4, <1>7 DEF FinalView
  <2>3. /\ x \in Boards(game') /\ x.matched = w.matched
        /\ x.turn = (Mover' = Me) /\ x.flipped = <<>>
        /\ x.owed = w.owed \ {game.first, game.second}
    BY <1>2, <1>3, <1>8, <2>1, <2>2, ApplyTyped
  <2> HIDE DEF x, m
  <2>4. Leads(v, inbox \o <<m>>, x, game')
    BY <1>2, <1>5, <1>6, <1>7, <2>3, LeadsSent DEF x
  <2>5. inbox \o <<m>> \in Seq(Messages)
    BY <1>5, <1>6
  <2>6. FinalView(x)'
    BY <1>2, <1>3, <1>7, <2>3 DEF FinalView
  <2>7. Leads(v, inbox \o Verdict(game, game'), x, game')
    <3>1. CASE CurrentPlayer(game') = Me
      <4>1. x.turn
        BY <1>3, <2>3, <3>1
      <4>2. Leads(v, (inbox \o <<m>>) \o <<Plain("YOUR_TURN")>>, x, game')
        BY <2>4, <2>5, <4>1, TurnSent
      <4>3. Verdict(game, game') = <<m>> \o <<Plain("YOUR_TURN")>>
        BY <1>8, <3>1 DEF Verdict, m
      <4>4. Plain("YOUR_TURN") \in Messages
        BY DEF Messages, Plain
      <4> QED
        BY <1>5, <1>6, <4>2, <4>3, <4>4, SentInTurn
    <3>2. CASE CurrentPlayer(game') # Me
      <4>1. Verdict(game, game') = <<m>>
        BY <1>8, <3>2 DEF Verdict, m
      <4> QED
        BY <2>4, <4>1
    <3> QED
      BY <3>1, <3>2
  <2> QED
    BY <1>7, <2>6, <2>7 DEF x
<1> QED
  BY <1>2, <1>7, ViewStep DEF Live

\* Whatever the server does, its messages lead to what it then has.
LEMMA ViewServer ==
    ASSUME ServerInv, ServerInv', Typed, LinkInv, ViewInv,
           FlipByRival \/ FlipByMe \/ \E c \in Clients : Handler(c)
    PROVE  ViewInv'
<1> SUFFICES ASSUME ~overtaken'
             PROVE  ViewInv'
  BY DEF ViewInv
<1>0. Me \in Clients /\ Rival \in Clients
  BY ViewAssumption
<1>1. CASE FlipByRival
  <2>1. PICK i : Flips(Rival, i)
    BY <1>1 DEF FlipByRival, Flips
  <2>2. ~overtaken /\ lost' = lost /\ UNCHANGED <<inbox, reader, screen, tasks, link>>
    BY <1>1 DEF FlipByRival, Typed
  <2> QED
    BY <1>0, <2>1, <2>2, ViewFlips
<1>2. CASE FlipByMe
  <2>1. ~overtaken /\ lost' = lost /\ UNCHANGED <<reader, screen, tasks, link>>
    BY <1>2 DEF FlipByMe
  <2>2. CASE CanFlip(game, Me, Head(outbox))
    <3>1. Flips(Me, Head(outbox)) /\ UNCHANGED inbox
      BY <1>2, <2>2 DEF FlipByMe, Flips
    <3> QED
      BY <1>0, <2>1, <3>1, ViewFlips
  <2>3. CASE ~CanFlip(game, Me, Head(outbox))
    <3>1. UNCHANGED server /\ inbox' \in {inbox, inbox \o <<Plain("ERROR")>>}
      BY <1>2, <2>3 DEF FlipByMe, Send
    <3> QED
      BY <2>1, <3>1, ViewRefused
  <2> QED
    BY <2>2, <2>3
<1>3. ASSUME NEW c \in Clients, Reveal(c)
      PROVE  ViewInv'
  <2>1. ~overtaken
    BY <1>3 DEF Reveal, history
  <2> QED
    BY <1>3, <2>1, ViewReveal
<1>4. ASSUME NEW c \in Clients, Settle(c)
      PROVE  ViewInv'
  <2>1. ~overtaken /\ lost' = lost /\ UNCHANGED <<reader, screen, tasks, link>> /\ Settles(c)
    BY <1>4 DEF Settle, Settles, history
  <2>2. Live => inbox' = inbox \o Verdict(game, game')
    BY <1>4 DEF Settle, Send, Verdict, Live, Reachable
  <2> QED
    BY <2>1, <2>2, ViewMatch, ViewMismatch
<1> QED
  BY <1>1, <1>2, <1>3, <1>4 DEF Handler

\* The return starts afresh: GAME_STATE, sent when nobody was within a FLIP,
\* leads from whatever the client kept to what the server has.
LEMMA ViewLink ==
    ASSUME ServerInv, Typed, LinkInv, ViewInv, LoseLink \/ Return
    PROVE  ViewInv'
<1> SUFFICES ASSUME ~overtaken'
             PROVE  ViewInv'
  BY DEF ViewInv
<1>1. ~overtaken /\ game' = game /\ matched' = matched
  BY DEF LoseLink, Return, Join, FormatState, SendState, Prompt, server, reader, history, Typed
<1>2. Inside'
  BY <1>1 DEF ViewInv, Inside
<1>3. CASE LoseLink \/ Join \/ FormatState
  <2>1. link' \notin {"up", "sent"}
    BY <1>3 DEF LoseLink, Join, FormatState
  <2> QED
    BY <1>2, <2>1 DEF ViewInv, Inside
<1>4. CASE SendState
  <2>1. /\ Playing /\ AllIdle /\ state = GameState(game)
        /\ inbox = <<>> /\ tasks = <<>> /\ sleepers = <<>> /\ lost
    BY <1>1, <1>4 DEF SendState, LinkInv, Returning
  <2>2. UNCHANGED <<thread, flipped, myTurn, tasks, lost>> /\ inbox' = <<GameState(game)>>
    BY <1>4, <2>1 DEF SendState, Send, Reachable, server, reader, screen, history
  <2> DEFINE m == GameState(game)
             v == View(myTurn, {})
             w == [matched |-> CardsIn(game, "MATCHED"), flipped |-> Announced,
                   turn |-> Mover = Me, owed |-> {}]
  <2>3. /\ m.kind = "GAME_STATE" /\ m.matched = CardsIn(game, "MATCHED")
        /\ m.up = CardsIn(game, "REVEALED") /\ m.current = Mover /\ m \in Messages
    <3>1. CurrentPlayer(game) = Mover
      BY <2>1 DEF CurrentPlayer, Mover, Playing
    <3>2. m \in GameStates
      BY DEF GameState, GameStates, ServerInv, GameInv, GameType, CurrentPlayer, CardsIn
    <3> QED
      BY <3>1, <3>2 DEF GameState, Messages
  <2> HIDE DEF m
  <2>4. Apply(m, v) = w
    <3>1. Lists!SetToSeq(m.up) = Announced
      BY <2>1, <2>3, AnnouncedIdle
    <3>2. matched \cup m.matched = CardsIn(game, "MATCHED")
      BY <1>1, <2>3 DEF ViewInv
    <3>3. Apply(m, v) = [v EXCEPT !.matched = v.matched \cup m.matched,
                                  !.flipped = Lists!SetToSeq(m.up),
                                  !.turn = (m.current = Me)]
      BY <2>3 DEF Apply
    <3> QED
      BY <2>3, <3>1, <3>2, <3>3 DEF View
  <2>5. Announced \in Seq(Cards)
    <3>1. CardsIn(game, "REVEALED") \in SUBSET Cards
      BY DEF CardsIn
    <3> QED
      BY <2>1, <3>1, AnnouncedIdle, SetToSeqType
  <2>6. v \in Boards(game) /\ w \in Boards(game)
    <3>1. matched \in SUBSET CardsIn(game, "MATCHED") /\ flipped \in Seq(Cards) /\ myTurn \in BOOLEAN
      BY <1>1 DEF ViewInv, Typed
    <3> QED
      BY <2>5, <3>1 DEF Boards, View
  <2>7. Fits(m, v)
    BY <2>3 DEF Fits
  <2> HIDE DEF v, w
  <2>8. Leads(v, Append(<<>>, m), w, game)
    <3>1. Leads(v, <<>>, v, game)
      BY <2>6, LeadsEmpty
    <3>2. <<>> \in Seq(Messages)
      OBVIOUS
    <3> QED
      BY <2>3, <2>4, <2>6, <2>7, <3>1, <3>2, LeadsAppend
  <2>9. inbox' = Append(<<>>, m)
    BY <2>2 DEF m
  <2>12. Due(tasks', myTurn', myTurn) /\ lost' = TRUE
    BY <2>1, <2>2, DueNow DEF Typed
  <2>13. myTurn \in BOOLEAN /\ {} \in SUBSET Cards
    BY DEF Typed
  <2>14. PICK t \in BOOLEAN : t = myTurn
    BY <2>13
  <2>15. Screen(t, {})'
    BY <2>12, <2>14 DEF Screen
  <2>16. PICK x : x = w
    OBVIOUS
  <2>17. View(t, {})' = v
    BY <1>1, <2>2, <2>14 DEF View, v
  <2>18. FinalView(x)'
    <3>1. Announced' = Announced /\ Mover' = Mover
      BY <1>1, <2>2 DEF Announced, Mover
    <3> QED
      BY <1>1, <2>16, <3>1 DEF FinalView, w
  <2>19. Awaited(t, {}, x)'
    BY <1>1, <2>8, <2>9, <2>16, <2>17, <2>18 DEF Awaited
  <2> QED
    BY <1>2, <2>13, <2>15, <2>19 DEF ViewInv, Inside
<1>5. CASE Prompt
  <2>1. /\ UNCHANGED <<server, reader, screen, tasks>> /\ lost' = lost /\ link = "sent"
        /\ inbox' = inbox \o (IF CurrentPlayer(game) = Me THEN <<Plain("YOUR_TURN")>> ELSE <<>>)
    BY <1>5 DEF Prompt, Send, Reachable, history
  <2>2. Playing /\ CurrentPlayer(game) = Mover
    BY <1>1, <2>1 DEF LinkInv, Returning, Playing, CurrentPlayer, Mover
  <2>3. inbox \in Seq(Messages) /\ Announced' = Announced /\ Mover' = Mover
    BY <2>1 DEF Typed, Announced, Mover, server
  <2>4. ASSUME NEW v, NEW w, Leads(v, inbox, w, game), FinalView(w)
        PROVE  Leads(v, inbox', w, game') /\ FinalView(w)'
    <3>1. FinalView(w)'
      BY <1>1, <2>3, <2>4 DEF FinalView
    <3>2. CASE CurrentPlayer(game) = Me
      <4>1. w.turn
        BY <2>2, <2>4, <3>2 DEF FinalView
      <4> QED
        BY <1>1, <2>1, <2>3, <2>4, <3>1, <3>2, <4>1, TurnSent
    <3>3. CASE CurrentPlayer(game) # Me
      <4>1. inbox' = inbox
        BY <2>1, <2>3, <3>3
      <4> QED
        BY <1>1, <2>4, <3>1, <4>1
    <3> QED
      BY <3>2, <3>3
  <2> QED
    BY <1>1, <2>1, <2>4, ViewStep DEF Live
<1> QED
  BY <1>3, <1>4, <1>5 DEF Return

-----------------------------------------------------------------------------
(* The steps of the reader thread.                                         *)

\* The reader reads a message: the rest leads on from the view after it.
LEMMA ViewRead ==
    ASSUME Typed, LinkInv, ViewInv, ~overtaken, inbox # <<>>, inbox' = Tail(inbox),
           UNCHANGED <<server, link>>,
           \A t \in BOOLEAN, U \in SUBSET Cards :
               /\ Screen(t, U) /\ Fits(Head(inbox), View(t, U))
               /\ Apply(Head(inbox), View(t, U)) \in Boards(game)
               => \E s \in BOOLEAN, V \in SUBSET Cards :
                     Screen(s, V)' /\ View(s, V)' = Apply(Head(inbox), View(t, U))
    PROVE  ViewInv'
<1>1. inbox \in Seq(Messages) /\ game' = game /\ Announced' = Announced /\ Mover' = Mover
  BY DEF Typed, server, Announced, Mover
<1>2. link \in {"up", "sent"}
  BY DEF LinkInv, Typed
<1>3. PICK t \in BOOLEAN, U \in SUBSET Cards : Screen(t, U) /\ \E w : Awaited(t, U, w)
  BY <1>2 DEF ViewInv
<1>4. PICK w : Leads(View(t, U), inbox, w, game) /\ FinalView(w)
  BY <1>3 DEF Awaited
<1>5. /\ Fits(Head(inbox), View(t, U)) /\ Apply(Head(inbox), View(t, U)) \in Boards(game)
      /\ Leads(Apply(Head(inbox), View(t, U)), Tail(inbox), w, game)
  BY <1>1, <1>4, LeadsTail
<1>6. PICK s \in BOOLEAN, V \in SUBSET Cards :
          Screen(s, V)' /\ View(s, V)' = Apply(Head(inbox), View(t, U))
  BY <1>3, <1>5
<1>7. Awaited(s, V, w)'
  <2>1. FinalView(w)'
    BY <1>1, <1>4 DEF FinalView
  <2> QED
    BY <1>1, <1>5, <1>6, <2>1 DEF Awaited
<1>8. Inside'
  <2>1. View(s, V)' \in Boards(game)
    BY <1>5, <1>6
  <2> QED
    BY <1>1, <2>1 DEF View, Boards, Inside
<1> QED
  BY <1>6, <1>7, <1>8 DEF ViewInv, Inside

\* A task has been handed over that shows no card outside the set.
LEMMA OwedAppend ==
    ASSUME Typed, NEW U, Owed(U), NEW V, NEW x \in Tasks, tasks' = Append(tasks, x),
           \A i \in Cards \ V : Hides(x, i) \/ (i \notin U /\ ~Shows(x, i)),
           UNCHANGED <<face, sleepers, matched>>
    PROVE  Owed(V)'
<1> SUFFICES ASSUME NEW i \in Cards \ V
             PROVE  Covered(i, face[i] = "value", tasks', sleepers, matched)
  BY DEF Owed
<1>1. tasks \in Seq(Tasks)
  BY DEF Typed
<1>2. CASE Hides(x, i)
  BY <1>1, <1>2, CoveredByLast
<1>3. CASE i \notin U /\ ~Shows(x, i)
  <2>1. Covered(i, face[i] = "value", tasks, sleepers, matched)
    BY <1>3 DEF Owed
  <2> QED
    BY <1>1, <1>3, <2>1, CoveredAppend
<1> QED
  BY <1>2, <1>3

\* Handing over one task more.
LEMMA TaskAdded ==
    ASSUME Typed, NEW x \in Tasks, RunLater(<<x>>)
    PROVE  tasks' = Append(tasks, x)
BY DEF RunLater, Typed

\* handleGameStart.
LEMMA ReadStart ==
    ASSUME Typed, LinkInv, ~overtaken, HandleGameStart, NEW t \in BOOLEAN,
           NEW U \in SUBSET Cards, Screen(t, U)
    PROVE  \E s \in BOOLEAN, V \in SUBSET Cards :
               Screen(s, V)' /\ View(s, V)' = Apply(Head(inbox), View(t, U))
<1>1. inbox # <<>> /\ Head(inbox).kind = "GAME_START" /\ matched' = {}
      /\ UNCHANGED <<flipped, myTurn, face, sleepers, lost>>
      /\ RunLater(<<BuildBoard, SetTurn(Head(inbox).first = Me)>>)
  BY DEF HandleGameStart, Is, screen, history
<1>2. tasks = <<>> /\ sleepers = <<>> /\ matched = {}
  <2>1. 1 \in DOMAIN inbox /\ inbox[1] = Head(inbox)
    BY <1>1 DEF Typed
  <2> QED
    BY <1>1, <2>1 DEF LinkInv, OpeningInv, Openings
<1>3. PICK s \in BOOLEAN : s = (Head(inbox).first = Me)
  OBVIOUS
<1>4. BuildBoard \in Tasks /\ SetTurn(s) \in Tasks /\ BuildBoard.do = "build"
      /\ SetTurn(s).do = "turn"
  BY DEF BuildBoard, SetTurn, Tasks
<1>5. tasks' = <<>> \o <<BuildBoard, SetTurn(s)>>
  BY <1>1, <1>2, <1>3 DEF RunLater
<1>6. Due(tasks', myTurn', s)
  BY <1>4, <1>5, DueAfresh
<1>7. tasks' = Append(Append(tasks, BuildBoard), SetTurn(s))
  BY <1>2, <1>4, <1>5
<1>8. ASSUME Owed(U)
      PROVE  Owed(U)'
  <2> SUFFICES ASSUME NEW i \in Cards \ U
               PROVE  Covered(i, face[i] = "value", tasks', sleepers, matched)
    BY <1>1, <1>2 DEF Owed
  <2>1. ~Shows(BuildBoard, i) /\ ~Shows(SetTurn(s), i)
    BY <1>4 DEF Shows
  <2>2. Covered(i, face[i] = "value", tasks, sleepers, matched)
    BY <1>8 DEF Owed
  <2>3. tasks \in Seq(Tasks) /\ Append(tasks, BuildBoard) \in Seq(Tasks)
    BY <1>4 DEF Typed
  <2>4. Covered(i, face[i] = "value", Append(tasks, BuildBoard), sleepers, matched)
    BY <1>4, <2>1, <2>2, <2>3, CoveredAppend
  <2> QED
    BY <1>4, <1>7, <2>1, <2>3, <2>4, CoveredAppend
<1>9. Screen(s, U)'
  BY <1>1, <1>6, <1>8 DEF Screen
<1>10. View(s, U)' = Apply(Head(inbox), View(t, U))
  BY <1>1, <1>3 DEF View, Apply
<1> QED
  BY <1>9, <1>10

\* revealCard.
LEMMA ReadReveal ==
    ASSUME Typed, RevealCard, NEW t \in BOOLEAN, NEW U \in SUBSET Cards, Screen(t, U)
    PROVE  \E s \in BOOLEAN, V \in SUBSET Cards :
               Screen(s, V)' /\ View(s, V)' = Apply(Head(inbox), View(t, U))
<1>1. inbox # <<>> /\ Head(inbox).kind = "CARD_REVEAL"
      /\ flipped' = Append(flipped, Head(inbox).card)
      /\ UNCHANGED <<matched, myTurn, face, sleepers, lost>>
      /\ RunLater(<<ShowCards({Head(inbox).card})>>)
  BY DEF RevealCard, Is, screen, history
<1>2. Head(inbox).card \in Cards
  BY <1>1, ReadTyped DEF Messages, GameStates
<1>3. PICK i \in Cards : i = Head(inbox).card
  BY <1>2
<1>4. ShowCards({i}) \in Tasks /\ ShowCards({i}).do = "show"
      /\ \A j : Shows(ShowCards({i}), j) => j = i
  BY DEF ShowCards, Tasks, Shows
<1>5. tasks' = Append(tasks, ShowCards({i}))
  BY <1>1, <1>3, <1>4, TaskAdded
<1>6. Due(tasks', myTurn', t)
  BY <1>1, <1>4, <1>5, DueOtherAdded DEF Screen, Typed
<1>7. Owed(U) => Owed(U \cup {i})'
  BY <1>1, <1>4, <1>5, OwedAppend
<1>8. Screen(t, U \cup {i})'
  BY <1>1, <1>6, <1>7 DEF Screen
<1>9. View(t, U \cup {i})' = Apply(Head(inbox), View(t, U))
  BY <1>1, <1>3 DEF View, Apply
<1>10. U \cup {i} \in SUBSET Cards
  OBVIOUS
<1> QED
  BY <1>8, <1>9, <1>10

\* handleMatch.
LEMMA ReadMatch ==
    ASSUME Typed, HandleMatch, NEW t \in BOOLEAN, NEW U \in SUBSET Cards, Screen(t, U)
    PROVE  \E s \in BOOLEAN, V \in SUBSET Cards :
               Screen(s, V)' /\ View(s, V)' = Apply(Head(inbox), View(t, U))
<1>1. Head(inbox).kind = "MATCH" /\ matched' = matched \cup Lists!ToSet(flipped)
      /\ flipped' = <<>> /\ UNCHANGED <<myTurn, face, sleepers, lost, tasks>>
  BY DEF HandleMatch, Is, screen, history
<1>2. Owed(U) => Owed(U)'
  BY <1>1 DEF Owed, Covered
<1>3. Screen(t, U)'
  BY <1>1, <1>2 DEF Screen
<1>4. View(t, U)' = Apply(Head(inbox), View(t, U))
  BY <1>1 DEF View, Apply, Nothing
<1> QED
  BY <1>3, <1>4

\* handleMismatch.
LEMMA ReadMismatch ==
    ASSUME Typed, HandleMismatch, NEW t \in BOOLEAN, NEW U \in SUBSET Cards, Screen(t, U)
    PROVE  \E s \in BOOLEAN, V \in SUBSET Cards :
               Screen(s, V)' /\ View(s, V)' = Apply(Head(inbox), View(t, U))
<1>1. /\ Head(inbox).kind = "MISMATCH" /\ flipped' = <<>>
      /\ UNCHANGED <<matched, myTurn, face, sleepers, lost>>
      /\ RunLater(<<ShowMismatch(Lists!ToSet(flipped), Head(inbox).next = Me)>>)
  BY DEF HandleMismatch, Is, screen, history
<1>2. Lists!ToSet(flipped) \in SUBSET Cards
  BY DEF Typed, Lists!ToSet
<1>3. PICK S \in SUBSET Cards : S = Lists!ToSet(flipped)
  BY <1>2
<1>4. PICK s \in BOOLEAN : s = (Head(inbox).next = Me)
  OBVIOUS
<1>5. ShowMismatch(S, s) \in Tasks /\ \A j \in S : Hides(ShowMismatch(S, s), j)
  BY DEF ShowMismatch, Tasks, Hides
<1>6. \A j : ~Shows(ShowMismatch(S, s), j)
  BY DEF ShowMismatch, Shows
<1>7. tasks' = Append(tasks, ShowMismatch(S, s))
  BY <1>1, <1>3, <1>4, <1>5, TaskAdded
<1>8. Due(tasks', myTurn', s)
  BY <1>7, DueMismatchAdded DEF Typed
<1>9. Owed(U) => Owed(U \ S)'
  BY <1>1, <1>5, <1>6, <1>7, OwedAppend
<1>10. Screen(s, U \ S)'
  BY <1>1, <1>8, <1>9 DEF Screen
<1>11. View(s, U \ S)' = Apply(Head(inbox), View(t, U))
  BY <1>1, <1>3, <1>4 DEF View, Apply, Nothing
<1>12. U \ S \in SUBSET Cards
  OBVIOUS
<1> QED
  BY <1>10, <1>11, <1>12

\* handleYourTurn.
LEMMA ReadYourTurn ==
    ASSUME Typed, HandleYourTurn, NEW t \in BOOLEAN, NEW U \in SUBSET Cards, Screen(t, U),
           Fits(Head(inbox), View(t, U))
    PROVE  \E s \in BOOLEAN, V \in SUBSET Cards :
               Screen(s, V)' /\ View(s, V)' = Apply(Head(inbox), View(t, U))
<1>1. Head(inbox).kind = "YOUR_TURN" /\ RunLater(<<SetTurn(TRUE)>>)
      /\ UNCHANGED <<matched, flipped, myTurn, face, sleepers, lost>>
  BY DEF HandleYourTurn, Is, reader, screen, history
<1>2. t = TRUE
  BY <1>1 DEF Fits, View
<1>3. SetTurn(TRUE) \in Tasks /\ \A j : ~Shows(SetTurn(TRUE), j)
  BY DEF SetTurn, Tasks, Shows
<1>4. tasks' = Append(tasks, SetTurn(TRUE))
  BY <1>1, <1>3, TaskAdded
<1>5. Due(tasks', myTurn', TRUE)
  BY <1>1, <1>2, <1>4, DueTurnAdded DEF Screen, Typed
<1>6. Owed(U) => Owed(U)'
  BY <1>1, <1>3, <1>4, OwedAppend
<1>7. Screen(t, U)'
  BY <1>1, <1>2, <1>5, <1>6 DEF Screen
<1>8. View(t, U)' = Apply(Head(inbox), View(t, U))
  BY <1>1 DEF View, Apply
<1> QED
  BY <1>7, <1>8

\* handleGameState.
LEMMA ReadState ==
    ASSUME Typed, LinkInv, ~overtaken, HandleGameState, NEW t \in BOOLEAN,
           NEW U \in SUBSET Cards, Screen(t, U)
    PROVE  \E s \in BOOLEAN, V \in SUBSET Cards :
               Screen(s, V)' /\ View(s, V)' = Apply(Head(inbox), View(t, U))
<1> DEFINE m == Head(inbox)
<1>1. /\ inbox # <<>> /\ m.kind = "GAME_STATE" /\ matched' = matched \cup m.matched
      /\ flipped' = Lists!SetToSeq(m.up)
      /\ UNCHANGED <<myTurn, face, sleepers, lost>>
      /\ RunLater(<<ShowCards(m.up \cup m.matched), SetTurn(m.current = Me)>>)
  BY DEF HandleGameState, Is, screen, history
<1>2. tasks = <<>> /\ lost
  <2>1. 1 \in DOMAIN inbox /\ inbox[1] = m
    BY <1>1 DEF Typed
  <2> QED
    BY <1>1, <2>1 DEF LinkInv, OpeningInv, Openings
<1>3. m.up \in SUBSET Cards /\ m.matched \in SUBSET Cards
  BY <1>1, ReadTyped DEF Messages, GameStates
<1> HIDE DEF m
<1>4. PICK s \in BOOLEAN : s = (m.current = Me)
  OBVIOUS
<1>5. PICK S \in SUBSET Cards : S = m.up \cup m.matched
  BY <1>3
<1>6. ShowCards(S) \in Tasks /\ ShowCards(S).do = "show"
  BY DEF ShowCards, Tasks
<1>7. tasks' = <<>> \o <<ShowCards(S), SetTurn(s)>>
  BY <1>1, <1>2, <1>4, <1>5 DEF RunLater
<1>8. Due(tasks', myTurn', s)
  BY <1>6, <1>7, DueAfresh
<1>9. Screen(s, U)'
  BY <1>1, <1>2, <1>8 DEF Screen
<1>10. View(s, U)' = Apply(m, View(t, U))
  BY <1>1, <1>4 DEF View, Apply
<1> QED
  BY <1>9, <1>10 DEF m

\* ERROR and GAME_END.
LEMMA ReadOther ==
    ASSUME Typed, HandleOther, NEW t \in BOOLEAN, NEW U \in SUBSET Cards, Screen(t, U)
    PROVE  \E s \in BOOLEAN, V \in SUBSET Cards :
               Screen(s, V)' /\ View(s, V)' = Apply(Head(inbox), View(t, U))
<1>1. Head(inbox).kind \in {"ERROR", "GAME_END"}
      /\ UNCHANGED <<reader, screen, tasks>> /\ lost' = lost
  BY DEF HandleOther, Is, history
<1>2. Screen(t, U)' /\ View(t, U)' = View(t, U)
  BY <1>1, ScreenKept
<1>3. Apply(Head(inbox), View(t, U)) = View(t, U)
  BY <1>1 DEF Apply
<1> QED
  BY <1>2, <1>3

\* The reader thread.
LEMMA ViewReader ==
    ASSUME Typed, LinkInv, ViewInv, Reader
    PROVE  ViewInv'
<1>1. /\ inbox # <<>> /\ inbox' = Tail(inbox)
      /\ UNCHANGED <<server, link, overtaken>>
  BY DEF Reader, Is, Read, HandleGameStart, RevealCard, HandleMatch,
     HandleMismatch, HandleYourTurn, HandleGameState, HandleOther, history
<1>2. CASE overtaken
  BY <1>1, <1>2 DEF ViewInv
<1>3. CASE ~overtaken
  <2>1. ASSUME NEW t \in BOOLEAN, NEW U \in SUBSET Cards, Screen(t, U),
               Fits(Head(inbox), View(t, U))
        PROVE  \E s \in BOOLEAN, V \in SUBSET Cards :
                   Screen(s, V)' /\ View(s, V)' = Apply(Head(inbox), View(t, U))
    BY <1>3, <2>1, ReadStart, ReadReveal, ReadMatch, ReadMismatch, ReadYourTurn,
       ReadState, ReadOther DEF Reader
  <2> QED
    BY <1>1, <1>3, <2>1, ViewRead
<1> QED
  BY <1>2, <1>3

-----------------------------------------------------------------------------
(* The JavaFX thread, the threads that wait, and the beginning.            *)

\* The JavaFX thread and the threads that wait leave the view alone.
LEMMA ViewRun ==
    ASSUME ViewInv, UNCHANGED <<server, link, inbox, reader, history>>,
           \A t \in BOOLEAN, U \in SUBSET Cards : Screen(t, U) => Screen(t, U)'
    PROVE  ViewInv'
<1>1. game' = game /\ Announced' = Announced /\ Mover' = Mover
  BY DEF server, Announced, Mover
<1>2. ASSUME NEW t, NEW U, NEW w, Awaited(t, U, w)
      PROVE  Awaited(t, U, w)'
  <2>1. View(t, U)' = View(t, U)
    BY DEF View, reader
  <2>2. FinalView(w)'
    BY <1>1, <1>2 DEF Awaited, FinalView
  <2> QED
    BY <1>1, <1>2, <2>1, <2>2 DEF Awaited
<1>3. Inside' = Inside
  BY <1>1 DEF Inside, reader
<1>4. overtaken' = overtaken
  BY DEF history
<1> QED
  BY <1>2, <1>3, <1>4 DEF ViewInv, Inside

\* A task that has been run leaves what it showed covered.
LEMMA OwedRun ==
    ASSUME Typed, tasks # <<>>, Head(tasks).do # "mismatch", tasks' = Tail(tasks),
           UNCHANGED <<sleepers, matched>>, NEW U, Owed(U),
           \A i \in Cards : face'[i] = "value" =>
               \/ face[i] = "value" /\ ~Hides(Head(tasks), i)
               \/ Shows(Head(tasks), i)
               \/ i \in matched
    PROVE  Owed(U)'
<1> SUFFICES ASSUME NEW i \in Cards \ U
             PROVE  Covered(i, face'[i] = "value", tasks', sleepers, matched)
  BY DEF Owed
<1>1. tasks \in Seq(Tasks)
  BY DEF Typed
<1>2. Covered(i, face[i] = "value", tasks, sleepers, matched)
  BY DEF Owed
<1> QED
  BY <1>1, <1>2, CoveredRun

\* The JavaFX thread runs a task.
LEMMA ViewJavaFX ==
    ASSUME Typed, ViewInv, JavaFX
    PROVE  ViewInv'
<1>0. tasks \in Seq(Tasks)
  BY DEF Typed
<1>1. tasks # <<>> /\ UNCHANGED <<server, link, inbox, reader, history>>
      /\ matched' = matched /\ lost' = lost
  BY DEF JavaFX, Doing, RunBuild, RunShow, RunTurn, RunMismatch, RunHide, reader, history
<1> SUFFICES ASSUME NEW t \in BOOLEAN, NEW U \in SUBSET Cards, Screen(t, U)
             PROVE  Screen(t, U)'
  BY <1>1, ViewRun
<1>2. Head(tasks) \in Tasks
  BY <1>0, <1>1, TailFacts
<1>3. CASE RunBuild
  <2>1. Head(tasks).do = "build" /\ tasks' = Tail(tasks)
        /\ face' = [i \in Cards |-> "?"] /\ UNCHANGED <<myTurn, sleepers>>
    BY <1>3 DEF RunBuild, Doing, Done
  <2>2. Due(tasks', myTurn', t)
    BY <1>0, <1>1, <2>1, DueOtherRun DEF Screen
  <2>3. Owed(U) => Owed(U)'
    BY <1>1, <2>1, OwedRun
  <2> QED
    BY <1>1, <2>2, <2>3 DEF Screen
<1>4. CASE RunShow
  <2>1. Head(tasks).do = "show" /\ tasks' = Tail(tasks) /\ UNCHANGED <<myTurn, sleepers>>
        /\ face' = [i \in Cards |-> IF i \in Head(tasks).cards THEN "value" ELSE face[i]]
    BY <1>4 DEF RunShow, Doing, Done, Painted
  <2>2. Due(tasks', myTurn', t)
    BY <1>0, <1>1, <2>1, DueOtherRun DEF Screen
  <2>3. \A i \in Cards : face'[i] = "value" =>
            (face[i] = "value" /\ ~Hides(Head(tasks), i)) \/ Shows(Head(tasks), i)
    BY <2>1 DEF Hides, Shows
  <2>4. Owed(U) => Owed(U)'
    BY <1>1, <2>1, <2>3, OwedRun
  <2> QED
    BY <1>1, <2>2, <2>4 DEF Screen
<1>5. CASE RunTurn
  <2>1. Head(tasks).do = "turn" /\ tasks' = Tail(tasks)
        /\ myTurn' = Head(tasks).mine /\ UNCHANGED <<face, sleepers>>
    BY <1>5 DEF RunTurn, Doing, Done
  <2>2. Due(tasks', myTurn', t)
    BY <1>0, <1>1, <2>1, DueTurnRun DEF Screen
  <2>3. \A i : ~Hides(Head(tasks), i)
    BY <2>1 DEF Hides
  <2>4. Owed(U) => Owed(U)'
    BY <1>1, <2>1, <2>3, OwedRun
  <2> QED
    BY <1>1, <2>2, <2>4 DEF Screen
<1>6. CASE RunMismatch
  <2>1. Head(tasks).do = "mismatch" /\ UNCHANGED <<myTurn, face>>
        /\ tasks' = Append(Tail(tasks), SetTurn(Head(tasks).mine))
        /\ sleepers' = Append(sleepers, Head(tasks).cards)
    BY <1>6 DEF RunMismatch, Doing
  <2>2. Due(tasks', myTurn', t)
    BY <1>0, <1>1, <2>1, DueMismatchRun DEF Screen
  <2>3. ASSUME Owed(U), NEW i \in Cards \ U
        PROVE  Covered(i, face[i] = "value", tasks', sleepers', matched)
    <3>1. Covered(i, face[i] = "value", tasks, sleepers, matched)
      BY <2>3 DEF Owed
    <3>2. sleepers \in Seq(SUBSET Cards)
      BY DEF Typed
    <3> QED
      BY <1>0, <1>1, <2>1, <3>1, <3>2, CoveredMismatch
  <2>4. Owed(U) => Owed(U)'
    BY <1>1, <2>1, <2>3 DEF Owed
  <2> QED
    BY <1>1, <2>2, <2>4 DEF Screen
<1>7. CASE RunHide
  <2>1. Head(tasks).do = "hide" /\ tasks' = Tail(tasks) /\ UNCHANGED <<myTurn, sleepers>>
        /\ face' = [i \in Cards |-> IF i \in Head(tasks).cards \ matched THEN "?" ELSE face[i]]
    BY <1>7 DEF RunHide, Doing, Done, Painted
  <2>2. Due(tasks', myTurn', t)
    BY <1>0, <1>1, <2>1, DueOtherRun DEF Screen
  <2>3. \A i \in Cards : face'[i] = "value" =>
            (face[i] = "value" /\ ~Hides(Head(tasks), i)) \/ i \in matched
    BY <2>1 DEF Hides
  <2>4. Owed(U) => Owed(U)'
    BY <1>1, <2>1, <2>3, OwedRun
  <2> QED
    BY <1>1, <2>2, <2>4 DEF Screen
<1> QED
  BY <1>3, <1>4, <1>5, <1>6, <1>7 DEF JavaFX

\* A thread has waited for a second and hands over the hiding of its cards.
LEMMA ViewWake ==
    ASSUME Typed, ViewInv, Wake
    PROVE  ViewInv'
<1>1. PICK k \in DOMAIN sleepers :
          /\ RunLater(<<HideCards(sleepers[k])>>)
          /\ sleepers' = Lists!RemoveAt(sleepers, k)
  BY DEF Wake
<1>2. UNCHANGED <<server, link, inbox, reader, history, myTurn, face>>
      /\ matched' = matched /\ lost' = lost
  BY DEF Wake, reader, history
<1> SUFFICES ASSUME NEW t \in BOOLEAN, NEW U \in SUBSET Cards, Screen(t, U)
             PROVE  Screen(t, U)'
  BY <1>2, ViewRun
<1>3. HideCards(sleepers[k]) \in Tasks /\ HideCards(sleepers[k]).do = "hide"
  BY DEF Typed, HideCards, Tasks
<1>4. tasks' = Append(tasks, HideCards(sleepers[k]))
  BY <1>1, <1>3, TaskAdded
<1>5. Due(tasks', myTurn', t)
  BY <1>2, <1>3, <1>4, DueOtherAdded DEF Screen, Typed
<1>6. ASSUME Owed(U), NEW i \in Cards \ U
      PROVE  Covered(i, face[i] = "value", tasks', sleepers', matched)
  <2>1. Covered(i, face[i] = "value", tasks, sleepers, matched)
    BY <1>6 DEF Owed
  <2> QED
    BY <1>1, <1>4, <2>1, CoveredWake DEF Typed
<1>7. Owed(U) => Owed(U)'
  BY <1>2, <1>6 DEF Owed
<1> QED
  BY <1>2, <1>5, <1>7 DEF Screen

\* A click changes nothing before the server has answered.
LEMMA ViewKept ==
    ASSUME ViewInv, (\E i \in Cards : Click(i)) \/ UNCHANGED vars
    PROVE  ViewInv'
<1>1. UNCHANGED <<server, link, state, inbox, reader, screen, tasks, history>>
  BY DEF Click, vars
<1>2. lost' = lost
  BY <1>1 DEF history
<1> QED
  BY <1>1, <1>2, ScreenKept, ViewRun

\* Every step keeps the invariant.
LEMMA ViewNext ==
    ServerInv /\ ServerInv' /\ Typed /\ LinkInv /\ ViewInv /\ [Next]_vars => ViewInv'
<1> SUFFICES ASSUME ServerInv, ServerInv', Typed, LinkInv, ViewInv, [Next]_vars
             PROVE  ViewInv'
  OBVIOUS
<1>1. CASE FlipByRival \/ FlipByMe \/ \E c \in Clients : Handler(c)
  BY <1>1, ViewServer
<1>2. CASE LoseLink \/ Return
  BY <1>2, ViewLink
<1>3. CASE Reader
  BY <1>3, ViewReader
<1>4. CASE JavaFX
  BY <1>4, ViewJavaFX
<1>5. CASE Wake
  BY <1>5, ViewWake
<1>6. CASE (\E i \in Cards : Click(i)) \/ UNCHANGED vars
  BY <1>6, ViewKept
<1> QED
  BY <1>1, <1>2, <1>3, <1>4, <1>5, <1>6 DEF Next

\* GAME_START, and YOUR_TURN for the player who begins, lead from the empty
\* screen to the game that has been started.
LEMMA ViewInit == Init => ViewInv
<1> SUFFICES ASSUME Init
             PROVE  ViewInv
  OBVIOUS
<1>1. PICK n \in {0, 1}, deal \in Deals :
          game = Start(Create([i \in Slots |-> IF i = n THEN Me
                                               ELSE IF i = 1 - n THEN Rival
                                               ELSE NULL], 2, deal))
  BY DEF Init
<1>2. /\ game.state = "PLAYING" /\ game.flips = 0
      /\ game.card = [i \in Cards |-> "HIDDEN"]
  BY <1>1 DEF Start, Create
<1>3. CurrentPlayer(game) = Mover /\ CardsIn(game, "MATCHED") = {}
  BY <1>2 DEF CurrentPlayer, Mover, CardsIn
<1>4. Mover \in Clients \cup {NULL}
  BY ServerInit DEF ServerInv, GameInv, GameType, Mover
<1>5. PICK first \in Clients \cup {NULL} : first = Mover
  BY <1>4
<1>5a. PICK none \in SUBSET Cards : none = {} /\ none \in SUBSET CardsIn(game, "MATCHED")
  <2>1. {} \in SUBSET Cards /\ {} \in SUBSET CardsIn(game, "MATCHED")
    OBVIOUS
  <2> QED
    BY <2>1, Zenon
<1>5b. PICK blank \in Seq(Cards) : blank = <<>>
  <2>1. <<>> \in Seq(Cards)
    OBVIOUS
  <2> QED
    BY <2>1, Zenon
<1>5c. PICK mine \in BOOLEAN : mine = (first = Me)
  BY Zenon
<1>5d. PICK off \in BOOLEAN : off = FALSE
  BY Zenon
<1> DEFINE v == [matched |-> none, flipped |-> blank, turn |-> off, owed |-> none]
           w == [matched |-> none, flipped |-> blank, turn |-> mine, owed |-> none]
           m == Started(first)
<1>6. v = View(FALSE, {})
  BY <1>5a, <1>5b, <1>5d DEF Init, View
<1>7. v \in Boards(game) /\ w \in Boards(game)
  BY <1>5a, <1>5b, <1>5c, <1>5d DEF Boards
<1>8. m \in Messages /\ Fits(m, v) /\ Apply(m, v) = w
  <2>1. m \in Messages /\ m.kind = "GAME_START" /\ m.first = first
    BY DEF Messages, Started
  <2> HIDE DEF m
  <2>2. Apply(m, v) = [v EXCEPT !.matched = {}, !.turn = (m.first = Me)]
    BY <2>1 DEF Apply
  <2>3. Apply(m, v) = [v EXCEPT !.matched = none, !.turn = mine]
    BY <1>5a, <1>5c, <2>1, <2>2
  <2>4. Apply(m, v) = w
    BY <2>3
  <2> QED
    BY <2>1, <2>4 DEF Fits
<1>9. w.turn = (first = Me) /\ w.matched = {} /\ w.flipped = <<>> /\ w.owed = {}
  BY <1>5a, <1>5b, <1>5c
<1> HIDE DEF v, w, m
<1>10. Leads(v, <<m>>, w, game)
  <2>1. Leads(v, <<>>, v, game)
    BY <1>7, LeadsEmpty
  <2>2. <<>> \in Seq(Messages) /\ Append(<<>>, m) = <<m>>
    BY <1>8
  <2> QED
    BY <1>7, <1>8, <2>1, <2>2, LeadsAppend
<1>11. Leads(v, inbox, w, game)
  <2>1. <<m>> \in Seq(Messages)
    BY <1>8
  <2>2. CASE first = Me
    <3>1. inbox = <<m>> \o <<Plain("YOUR_TURN")>>
      BY <1>3, <1>5, <2>2 DEF Init, m
    <3> QED
      BY <1>9, <1>10, <2>1, <2>2, <3>1, TurnSent
  <2>3. CASE first # Me
    <3>1. inbox = <<m>>
      BY <1>3, <1>5, <2>1, <2>3, ConcatEmptySeq DEF Init, m
    <3> QED
      BY <1>10, <3>1
  <2> QED
    BY <2>2, <2>3
<1>12. FinalView(w)
  <2>1. Announced = <<>>
    BY <1>2 DEF Init, Announced, FaceUp
  <2> QED
    BY <1>3, <1>5, <1>9, <2>1 DEF FinalView
<1>13. Screen(FALSE, {})
  <2>1. Due(tasks, myTurn, FALSE)
    BY DueNow DEF Init
  <2>2. Owed({})
    BY DEF Init, Owed, Covered, Slept
  <2> QED
    BY <2>1, <2>2 DEF Screen
<1>14. matched = {} /\ {} \in SUBSET Cards
  BY DEF Init
<1> QED
  BY <1>6, <1>11, <1>12, <1>13, <1>14 DEF ViewInv, Awaited

\* What is on its way always leads to what the server has.
LEMMA ViewInvariant == Spec => []ViewInv
BY ViewInit, ViewNext, ServerInvariant, TypedInvariant, LinkInvariant, PTL DEF Spec

\* When nothing is on its way, the client has what the server has.
LEMMA SettledView ==
    ASSUME ServerInv, Typed, LinkInv, ViewInv, Settled, ~overtaken
    PROVE  /\ matched = CardsIn(game, "MATCHED") /\ flipped = Announced
           /\ myTurn = (Mover = Me) /\ AllIdle
           /\ ~lost => \E U \in SUBSET Cards : Owed(U) /\ U \cap CardsIn(game, "HIDDEN") = {}
<1>1. link = "up" /\ inbox = <<>> /\ tasks = <<>> /\ AllIdle
  BY DEF Settled, AllIdle
<1>2. PICK t \in BOOLEAN, U \in SUBSET Cards : Screen(t, U) /\ \E w : Awaited(t, U, w)
  BY <1>1 DEF ViewInv
<1>3. PICK w : Leads(View(t, U), <<>>, w, game) /\ FinalView(w)
  BY <1>1, <1>2 DEF Awaited
<1>4. w = View(t, U)
  BY <1>3, LeadsEmpty
<1>5. t = myTurn
  BY <1>1, <1>2, DueNow DEF Screen
<1>6. w.matched = matched /\ w.flipped = flipped /\ w.turn = t /\ w.owed = U
  BY <1>4 DEF View
<1> QED
  BY <1>1, <1>2, <1>3, <1>5, <1>6 DEF FinalView, Screen

\* The board of the reader, from the invariant.
LEMMA MirrorsNow == ServerInv /\ Typed /\ LinkInv /\ ViewInv => ReaderMirrors
<1> SUFFICES ASSUME ServerInv, Typed, LinkInv, ViewInv, Settled, ~overtaken
             PROVE  /\ matched = CardsIn(game, "MATCHED")
                    /\ Lists!ToSet(flipped) = CardsIn(game, "REVEALED")
                    /\ Len(flipped) = game.flips
  BY DEF ReaderMirrors
<1> QED
  BY SettledView, AnnouncedIdle

\* The checks of a click, from the invariant.
LEMMA ClicksNow == ServerInv /\ Typed /\ LinkInv /\ ViewInv => ClicksFitServer
<1> SUFFICES ASSUME ServerInv, Typed, LinkInv, ViewInv, Settled, ~overtaken,
                    NEW i \in Cards
             PROVE  MayClick(i) <=> CanFlip(game, Me, i)
  BY DEF ClicksFitServer
<1>1. /\ matched = CardsIn(game, "MATCHED") /\ myTurn = (game.players[game.current] = Me)
      /\ Lists!ToSet(flipped) = CardsIn(game, "REVEALED") /\ Len(flipped) = game.flips
  BY SettledView, AnnouncedIdle DEF Mover
<1>2. game.card[i] \in {"HIDDEN", "REVEALED", "MATCHED"} /\ game.state = "PLAYING"
  BY DEF ServerInv, GameInv, GameType, Settled, Playing
<1> QED
  BY <1>1, <1>2 DEF MayClick, CanFlip, CardsIn

\* The buttons, from the invariant.
LEMMA PeekedNow == ServerInv /\ Typed /\ LinkInv /\ ViewInv => NothingPeeked
<1> SUFFICES ASSUME ServerInv, Typed, LinkInv, ViewInv, Settled, ~lost, sleepers = <<>>,
                    NEW i \in CardsIn(game, "HIDDEN")
             PROVE  face[i] = "?"
  BY DEF NothingPeeked
<1>1. ~overtaken
  BY DEF LinkInv
<1>2. PICK U \in SUBSET Cards : Owed(U) /\ U \cap CardsIn(game, "HIDDEN") = {}
  BY <1>1, SettledView
<1>3. i \in Cards \ U /\ i \notin matched /\ tasks = <<>>
  BY <1>1, <1>2, SettledView DEF CardsIn, Settled
<1>4. Covered(i, face[i] = "value", <<>>, <<>>, matched)
  BY <1>2, <1>3 DEF Owed
<1>5. face[i] # "value"
  BY <1>3, <1>4 DEF Covered, Slept
<1> QED
  BY <1>3, <1>5 DEF Typed

\* When nothing is on its way and no FLIP has overtaken a return, cardMatched
\* and flippedIndices are what game_t has, after any sequence of flips, matches,
\* mismatches, a loss of the connection and GAME_STATE.
THEOREM ReaderAlwaysMirrors == Spec => []ReaderMirrors
BY MirrorsNow, ServerInvariant, TypedInvariant, LinkInvariant, ViewInvariant, PTL

\* When nothing is on its way and no FLIP has overtaken a return, the checks of
\* handleCardClick let through exactly the cards that game_flip_card accepts.
THEOREM ClicksAlwaysFitServer == Spec => []ClicksFitServer
BY ClicksNow, ServerInvariant, TypedInvariant, LinkInvariant, ViewInvariant, PTL

\* While the connection holds, no card that is hidden in game_t is left showing
\* its value once the screen has done what it was handed.
THEOREM NothingEverPeeked == Spec => []NothingPeeked
BY PeekedNow, ServerInvariant, TypedInvariant, LinkInvariant, ViewInvariant, PTL

-----------------------------------------------------------------------------
(* The mismatches whose cards are still to be hidden.                      *)

\* How many members of a sequence are in A.
Places(s, A) == Cardinality({k \in DOMAIN s : s[k] \in A})

\* A number.
LEMMA PlacesType ==
    ASSUME NEW S, NEW s \in Seq(S), NEW A
    PROVE  /\ IsFiniteSet({k \in DOMAIN s : s[k] \in A})
           /\ Places(s, A) \in Nat
<1> DEFINE P == {k \in DOMAIN s : s[k] \in A}
<1>1. Len(s) \in Nat /\ DOMAIN s = 1 .. Len(s)
  OBVIOUS
<1>2. IsFiniteSet(1 .. Len(s)) /\ P \in SUBSET (1 .. Len(s))
  BY <1>1, FS_Interval
<1>3. IsFiniteSet(P)
  BY <1>2, FS_Subset
<1> HIDE DEF P
<1>4. Cardinality(P) \in Nat
  BY <1>3, FS_CardinalityType
<1> QED
  BY <1>3, <1>4 DEF P, Places

\* No member is in A.
LEMMA PlacesNone ==
    ASSUME NEW s, NEW A, \A k \in DOMAIN s : s[k] \notin A
    PROVE  Places(s, A) = 0
<1>1. {k \in DOMAIN s : s[k] \in A} = {}
  OBVIOUS
<1> QED
  BY <1>1, FS_EmptySet DEF Places

\* A sequence of one.
LEMMA PlacesOne ==
    ASSUME NEW x, NEW A
    PROVE  Places(<<x>>, A) = IF x \in A THEN 1 ELSE 0
<1>1. CASE x \in A
  <2>1. {k \in DOMAIN <<x>> : <<x>>[k] \in A} = {1}
    BY <1>1
  <2> QED
    BY <1>1, <2>1, FS_Singleton DEF Places
<1>2. CASE x \notin A
  <2>1. \A k \in DOMAIN <<x>> : <<x>>[k] \notin A
    BY <1>2
  <2> QED
    BY <1>2, <2>1, PlacesNone
<1> QED
  BY <1>1, <1>2

\* Two sequences, one after the other.
LEMMA PlacesConcat ==
    ASSUME NEW S, NEW s \in Seq(S), NEW t \in Seq(S), NEW A
    PROVE  Places(s \o t, A) = Places(s, A) + Places(t, A)
<1> DEFINE P == {k \in DOMAIN s : s[k] \in A}
           Q == {k \in DOMAIN t : t[k] \in A}
           R == {k + Len(s) : k \in Q}
           f == [k \in Q |-> k + Len(s)]
<1>1. /\ Len(s) \in Nat /\ DOMAIN s = 1 .. Len(s)
      /\ Len(t) \in Nat /\ DOMAIN t = 1 .. Len(t)
      /\ s \o t \in Seq(S) /\ DOMAIN (s \o t) = 1 .. Len(s) + Len(t)
      /\ \A i \in 1 .. Len(s) + Len(t) :
            (s \o t)[i] = IF i <= Len(s) THEN s[i] ELSE t[i - Len(s)]
  BY ConcatProperties
<1>2. {k \in DOMAIN (s \o t) : (s \o t)[k] \in A} = P \cup R
  <2>1. ASSUME NEW k \in DOMAIN (s \o t), (s \o t)[k] \in A
        PROVE  k \in P \cup R
    <3>1. CASE k <= Len(s)
      BY <1>1, <2>1, <3>1
    <3>2. CASE ~(k <= Len(s))
      <4>1. k - Len(s) \in Q /\ k = (k - Len(s)) + Len(s)
        BY <1>1, <2>1, <3>2
      <4> QED
        BY <4>1
    <3> QED
      BY <3>1, <3>2
  <2>2. ASSUME NEW k \in P
        PROVE  k \in DOMAIN (s \o t) /\ (s \o t)[k] \in A
    BY <1>1
  <2>3. ASSUME NEW k \in Q
        PROVE  k + Len(s) \in DOMAIN (s \o t) /\ (s \o t)[k + Len(s)] \in A
    BY <1>1
  <2> QED
    BY <2>1, <2>2, <2>3
<1>3. IsFiniteSet(P) /\ IsFiniteSet(Q)
  BY PlacesType
<1>4. f \in Bijection(Q, R)
  BY <1>1 DEF Bijection, Injection, Surjection, IsInjective
<1>5. P \cap R = {}
  BY <1>1
<1> HIDE DEF P, Q, R, f
<1>6. IsFiniteSet(R) /\ Cardinality(R) = Cardinality(Q)
  BY <1>3, <1>4, FS_Bijection DEF ExistsBijection
<1>7. Cardinality(P \cup R) = Cardinality(P) + Cardinality(R) - Cardinality({})
  BY <1>3, <1>5, <1>6, FS_Union
<1>8. Cardinality(P) \in Nat /\ Cardinality(Q) \in Nat /\ Cardinality({}) = 0
  BY <1>3, FS_CardinalityType, FS_EmptySet
<1>9. Cardinality(P \cup R) = Cardinality(P) + Cardinality(Q)
  BY <1>6, <1>7, <1>8
<1> QED
  BY <1>2, <1>9 DEF Places, P, Q

\* The first member and the rest.
LEMMA PlacesTail ==
    ASSUME NEW S, NEW s \in Seq(S), s # <<>>, NEW A
    PROVE  Places(s, A) = (IF Head(s) \in A THEN 1 ELSE 0) + Places(Tail(s), A)
<1>1. Head(s) \in S /\ Tail(s) \in Seq(S) /\ s = <<Head(s)>> \o Tail(s)
  OBVIOUS
<1>2. <<Head(s)>> \in Seq(S)
  BY <1>1
<1>3. Places(<<Head(s)>> \o Tail(s), A) = Places(<<Head(s)>>, A) + Places(Tail(s), A)
  BY <1>1, <1>2, PlacesConcat
<1>4. Places(<<Head(s)>>, A) = IF Head(s) \in A THEN 1 ELSE 0
  BY PlacesOne
<1> QED
  BY <1>1, <1>3, <1>4

\* One member more.
LEMMA PlacesAppend ==
    ASSUME NEW S, NEW s \in Seq(S), NEW x \in S, NEW A
    PROVE  Places(Append(s, x), A) = Places(s, A) + (IF x \in A THEN 1 ELSE 0)
<1>1. <<x>> \in Seq(S) /\ Append(s, x) = s \o <<x>>
  OBVIOUS
<1>2. Places(s \o <<x>>, A) = Places(s, A) + Places(<<x>>, A)
  BY <1>1, PlacesConcat
<1>3. Places(<<x>>, A) = IF x \in A THEN 1 ELSE 0
  BY PlacesOne
<1> QED
  BY <1>1, <1>2, <1>3

\* A mismatch is counted once on its way from the server to the thread that
\* hides its cards: as a message, as a task, and as the thread.
MismatchTasks == {x \in Tasks : x.do = "mismatch"}
MismatchMessages == {m \in Messages : m.kind = "MISMATCH"}

HidingInv == Hiding <= MaxSleepers

Toll(s, ts, ms) == Len(s) + Places(ts, MismatchTasks) + Places(ms, MismatchMessages)

\* Hiding counts the same places.
LEMMA HidingIsToll ==
    ASSUME Typed, Typed'
    PROVE  /\ Hiding = Toll(sleepers, tasks, inbox)
           /\ Hiding' = Toll(sleepers', tasks', inbox')
<1>1. ASSUME NEW ts \in Seq(Tasks)
      PROVE  Cardinality({k \in DOMAIN ts : ts[k].do = "mismatch"})
             = Places(ts, MismatchTasks)
  <2>1. {k \in DOMAIN ts : ts[k].do = "mismatch"}
        = {k \in DOMAIN ts : ts[k] \in MismatchTasks}
    BY DEF MismatchTasks
  <2> QED
    BY <2>1 DEF Places
<1>2. ASSUME NEW ms \in Seq(Messages)
      PROVE  Cardinality({k \in DOMAIN ms : ms[k].kind = "MISMATCH"})
             = Places(ms, MismatchMessages)
  <2>1. {k \in DOMAIN ms : ms[k].kind = "MISMATCH"}
        = {k \in DOMAIN ms : ms[k] \in MismatchMessages}
    BY DEF MismatchMessages
  <2> QED
    BY <2>1 DEF Places
<1>3. /\ tasks \in Seq(Tasks) /\ inbox \in Seq(Messages)
      /\ tasks' \in Seq(Tasks) /\ inbox' \in Seq(Messages)
  BY DEF Typed
<1> QED
  BY <1>1, <1>2, <1>3 DEF Hiding, Toll

\* The three counts are numbers.
LEMMA TollTyped ==
    ASSUME Typed
    PROVE  /\ Len(sleepers) \in Nat
           /\ Places(tasks, MismatchTasks) \in Nat
           /\ Places(inbox, MismatchMessages) \in Nat
<1>1. tasks \in Seq(Tasks) /\ inbox \in Seq(Messages) /\ sleepers \in Seq(SUBSET Cards)
  BY DEF Typed
<1>2. Len(sleepers) \in Nat
  BY <1>1
<1> QED
  BY <1>1, <1>2, PlacesType

\* Other messages do not count.
LEMMA TollSent ==
    ASSUME Typed, NEW ms \in Seq(Messages), \A k \in DOMAIN ms : ms[k].kind # "MISMATCH",
           inbox' \in {inbox, inbox \o ms}, UNCHANGED <<tasks, sleepers>>
    PROVE  Toll(sleepers', tasks', inbox') = Toll(sleepers, tasks, inbox)
<1>1. Places(ms, MismatchMessages) = 0
  BY PlacesNone DEF MismatchMessages
<1>2. Places(inbox \o ms, MismatchMessages) = Places(inbox, MismatchMessages) + 0
  BY <1>1, PlacesConcat DEF Typed
<1>3. Places(inbox, MismatchMessages) \in Nat
  BY TollTyped
<1>4. Places(inbox \o ms, MismatchMessages) = Places(inbox, MismatchMessages)
  BY <1>2, <1>3
<1>5. Places(inbox', MismatchMessages) = Places(inbox, MismatchMessages)
  BY <1>4, Zenon
<1> QED
  BY <1>5 DEF Toll

\* The server announces no mismatch, and a loss of the connection drops some.
LEMMA HidingServer ==
    ASSUME ServerInv, Typed, Typed', HidingInv,
           FlipByRival \/ FlipByMe \/ LoseLink \/ Return \/ \E c \in Clients : Reveal(c)
    PROVE  Toll(sleepers', tasks', inbox') <= Toll(sleepers, tasks, inbox)
<1>0. Toll(sleepers, tasks, inbox) \in Nat
  BY TollTyped DEF Toll
<1>1. CASE FlipByRival
  BY <1>0, <1>1 DEF FlipByRival, reader, screen, Toll
<1>2. ASSUME NEW ms \in Seq(Messages), \A k \in DOMAIN ms : ms[k].kind # "MISMATCH",
             inbox' \in {inbox, inbox \o ms}, UNCHANGED <<tasks, sleepers>>
      PROVE  Toll(sleepers', tasks', inbox') <= Toll(sleepers, tasks, inbox)
  <2>1. Toll(sleepers', tasks', inbox') = Toll(sleepers, tasks, inbox)
    BY <1>2, TollSent
  <2> QED
    BY <1>0, <2>1
<1>3. CASE FlipByMe
  <2>1. <<Plain("ERROR")>> \in Seq(Messages)
        /\ \A k \in DOMAIN <<Plain("ERROR")>> : <<Plain("ERROR")>>[k].kind # "MISMATCH"
    BY DEF Messages, Plain
  <2>2. inbox' \in {inbox, inbox \o <<Plain("ERROR")>>} /\ UNCHANGED <<tasks, sleepers>>
    BY <1>3 DEF FlipByMe, Send, reader, screen
  <2> QED
    BY <1>2, <2>1, <2>2
<1>4. CASE LoseLink
  <2>1. inbox' = <<>> /\ UNCHANGED <<tasks, sleepers>>
    BY <1>4 DEF LoseLink, reader, screen
  <2>2. Places(inbox', MismatchMessages) = 0
    BY <2>1, PlacesNone
  <2> QED
    BY <2>1, <2>2, TollTyped DEF Toll
<1>5. CASE Join \/ FormatState
  BY <1>0, <1>5 DEF Join, FormatState, reader, screen, Toll
<1>6. CASE SendState
  <2>1. state \in GameStates /\ <<state>> \in Seq(Messages)
    BY <1>6 DEF SendState, Typed, Messages
  <2>2. \A k \in DOMAIN <<state>> : <<state>>[k].kind # "MISMATCH"
    BY <2>1 DEF GameStates
  <2>3. inbox' \in {inbox, inbox \o <<state>>} /\ UNCHANGED <<tasks, sleepers>>
    BY <1>6 DEF SendState, Send, reader, screen
  <2> QED
    BY <1>2, <2>1, <2>2, <2>3
<1>7. CASE Prompt
  <2>1. <<Plain("YOUR_TURN")>> \in Seq(Messages)
        /\ \A k \in DOMAIN <<Plain("YOUR_TURN")>> :
              <<Plain("YOUR_TURN")>>[k].kind # "MISMATCH"
    BY DEF Messages, Plain
  <2>2. inbox \o <<>> = inbox
    BY DEF Typed
  <2>3. inbox' \in {inbox, inbox \o <<Plain("YOUR_TURN")>>} /\ UNCHANGED <<tasks, sleepers>>
    BY <1>7, <2>2 DEF Prompt, Send, reader, screen
  <2> QED
    BY <1>2, <2>1, <2>3
<1>8. ASSUME NEW c \in Clients, Reveal(c)
      PROVE  Toll(sleepers', tasks', inbox') <= Toll(sleepers, tasks, inbox)
  <2>1. LastFlipped \in Cards
    BY <1>8 DEF Reveal, ServerInv, GameInv, GameType, FaceUpIsTurn, LastFlipped, Playing
  <2>2. <<CardReveal(LastFlipped)>> \in Seq(Messages)
        /\ \A k \in DOMAIN <<CardReveal(LastFlipped)>> :
              <<CardReveal(LastFlipped)>>[k].kind # "MISMATCH"
    BY <2>1 DEF Messages, CardReveal
  <2>3. inbox' \in {inbox, inbox \o <<CardReveal(LastFlipped)>>}
        /\ UNCHANGED <<tasks, sleepers>>
    BY <1>8 DEF Reveal, Send, reader, screen
  <2> QED
    BY <1>2, <2>2, <2>3
<1> QED
  BY <1>1, <1>3, <1>4, <1>5, <1>6, <1>7, <1>8 DEF Return

\* A mismatch is announced only while there is room for one more.
LEMMA HidingSettle ==
    ASSUME ServerInv', Typed, NEW c \in Clients, Settle(c)
    PROVE  Toll(sleepers', tasks', inbox')
           <= Toll(sleepers, tasks, inbox) + (IF IsMatch(game) THEN 0 ELSE 1)
<1>1. /\ Verdict(game, game') \in Seq(Messages)
      /\ Places(Verdict(game, game'), MismatchMessages) = IF IsMatch(game) THEN 0 ELSE 1
  <2>1. Verdict(game, game') \in Seq(Messages)
    BY VerdictQuiet
  <2>2. CASE IsMatch(game)
    <3>1. \A k \in DOMAIN Verdict(game, game') : Verdict(game, game')[k].kind # "MISMATCH"
      BY <2>2 DEF Verdict, Plain
    <3> QED
      BY <2>1, <2>2, <3>1, PlacesNone DEF MismatchMessages
  <2>3. CASE ~IsMatch(game)
    <3> DEFINE m == Mismatched(CurrentPlayer(game'))
               turn == IF CurrentPlayer(game') = Me THEN <<Plain("YOUR_TURN")>> ELSE <<>>
    <3>1. m \in MismatchMessages /\ m \in Messages
      BY DEF ServerInv, GameInv, GameType, CurrentPlayer, Messages, MismatchMessages, Mismatched
    <3>2. /\ turn \in Seq(Messages) /\ \A k \in DOMAIN turn : turn[k].kind # "MISMATCH"
          /\ Verdict(game, game') = <<m>> \o turn
      <4>1. Plain("YOUR_TURN") \in Messages /\ Plain("YOUR_TURN").kind # "MISMATCH"
        BY DEF Messages, Plain
      <4>2. Verdict(game, game') = <<m>> \o turn
        BY <2>3 DEF Verdict
      <4>3. turn \in {<<>>, <<Plain("YOUR_TURN")>>}
        OBVIOUS
      <4> HIDE DEF turn
      <4>4. turn \in Seq(Messages) /\ \A k \in DOMAIN turn : turn[k].kind # "MISMATCH"
        <5>1. PICK y \in Messages : y = Plain("YOUR_TURN") /\ y.kind # "MISMATCH"
          BY <4>1, Zenon
        <5>2. turn \in {<<>>, <<y>>}
          BY <4>3, <5>1, Zenon
        <5>3. CASE turn = <<>>
          BY <5>3
        <5>4. CASE turn = <<y>>
          BY <5>1, <5>4
        <5> QED
          BY <5>2, <5>3, <5>4
      <4> QED
        BY <4>2, <4>4
    <3> HIDE DEF m, turn
    <3>3. Places(turn, MismatchMessages) = 0
      BY <3>2, PlacesNone DEF MismatchMessages
    <3>4. Places(<<m>>, MismatchMessages) = 1 /\ <<m>> \in Seq(Messages)
      BY <3>1, PlacesOne
    <3>5. Places(<<m>> \o turn, MismatchMessages)
          = Places(<<m>>, MismatchMessages) + Places(turn, MismatchMessages)
      BY <3>2, <3>4, PlacesConcat
    <3> QED
      BY <2>1, <2>3, <3>2, <3>3, <3>4, <3>5
  <2> QED
    BY <2>2, <2>3
<1>2. inbox' = IF Reachable THEN inbox \o Verdict(game, game') ELSE inbox
  BY DEF Settle, Send, Verdict
<1>3. Places(inbox \o Verdict(game, game'), MismatchMessages)
      = Places(inbox, MismatchMessages) + Places(Verdict(game, game'), MismatchMessages)
  BY <1>1, PlacesConcat DEF Typed
<1>4. Places(inbox', MismatchMessages)
      <= Places(inbox, MismatchMessages) + (IF IsMatch(game) THEN 0 ELSE 1)
  BY <1>1, <1>2, <1>3, TollTyped
<1>5. UNCHANGED <<tasks, sleepers>>
  BY DEF Settle, screen
<1>6. Places(inbox', MismatchMessages) \in Nat
  <2>1. inbox' \in Seq(Messages)
    BY <1>1, <1>2 DEF Typed
  <2> QED
    BY <2>1, PlacesType
<1> QED
  BY <1>4, <1>5, <1>6, TollTyped DEF Toll

\* handleMismatch turns the message into a task; no other handler adds one.
LEMMA HidingReader ==
    ASSUME Typed, Reader
    PROVE  Toll(sleepers', tasks', inbox') <= Toll(sleepers, tasks, inbox)
<1> DEFINE read == IF Head(inbox) \in MismatchMessages THEN 1 ELSE 0
<1>1. inbox # <<>> /\ inbox' = Tail(inbox)
  BY DEF Reader, Is, Read, HandleGameStart, RevealCard, HandleMatch,
     HandleMismatch, HandleYourTurn, HandleGameState, HandleOther
<1>2. Head(inbox) \in Messages /\ inbox' \in Seq(Messages)
  BY <1>1, ReadTyped
<1>3. Places(inbox, MismatchMessages) = read + Places(inbox', MismatchMessages)
  BY <1>1, PlacesTail DEF Typed
<1>4. Places(inbox', MismatchMessages) \in Nat
  BY <1>2, PlacesType
<1>5. sleepers' = sleepers
  BY DEF Reader, screen, HandleGameStart, RevealCard, HandleMatch,
     HandleMismatch, HandleYourTurn, HandleGameState, HandleOther
<1>6. ASSUME NEW new \in Seq(Tasks), tasks' = tasks \o new,
             Places(new, MismatchTasks) <= read
      PROVE  Toll(sleepers', tasks', inbox') <= Toll(sleepers, tasks, inbox)
  <2>1. Places(tasks \o new, MismatchTasks)
        = Places(tasks, MismatchTasks) + Places(new, MismatchTasks)
    BY PlacesConcat DEF Typed
  <2>2. Places(new, MismatchTasks) \in Nat
    BY PlacesType
  <2> HIDE DEF read
  <2>3. read \in Nat
    BY DEF read
  <2> QED
    BY <1>3, <1>4, <1>5, <1>6, <2>1, <2>2, <2>3, TollTyped DEF Toll
<1>7. ASSUME NEW new \in Seq(Tasks), tasks' = tasks \o new,
             \A k \in DOMAIN new : new[k].do # "mismatch"
      PROVE  Toll(sleepers', tasks', inbox') <= Toll(sleepers, tasks, inbox)
  <2>1. Places(new, MismatchTasks) = 0
    BY <1>7, PlacesNone DEF MismatchTasks
  <2> QED
    BY <1>6, <1>7, <2>1
<1>17. ASSUME NEW x \in Tasks, x.do # "mismatch", tasks' = tasks \o <<x>>
      PROVE  Toll(sleepers', tasks', inbox') <= Toll(sleepers, tasks, inbox)
  <2>1. <<x>> \in Seq(Tasks) /\ \A k \in DOMAIN <<x>> : <<x>>[k].do # "mismatch"
    BY <1>17
  <2> QED
    BY <1>7, <1>17, <2>1
<1>18. ASSUME NEW x \in Tasks, x.do # "mismatch", NEW y \in Tasks, y.do # "mismatch",
             tasks' = tasks \o <<x, y>>
      PROVE  Toll(sleepers', tasks', inbox') <= Toll(sleepers, tasks, inbox)
  <2>1. <<x, y>> \in Seq(Tasks) /\ \A k \in DOMAIN <<x, y>> : <<x, y>>[k].do # "mismatch"
    BY <1>18
  <2> QED
    BY <1>7, <1>18, <2>1
<1>8. CASE UNCHANGED tasks
  <2> HIDE DEF read
  <2>1. read \in Nat
    BY DEF read
  <2> QED
    BY <1>3, <1>4, <1>5, <1>8, <2>1, TollTyped DEF Toll
<1>9. Lists!ToSet(flipped) \in SUBSET Cards
  BY DEF Typed, Lists!ToSet
<1>10. \A b \in BOOLEAN, S \in SUBSET Cards :
          /\ BuildBoard \in Tasks /\ SetTurn(b) \in Tasks /\ ShowCards(S) \in Tasks
          /\ ShowMismatch(S, b) \in Tasks
          /\ BuildBoard.do # "mismatch" /\ SetTurn(b).do # "mismatch"
          /\ ShowCards(S).do # "mismatch"
  BY DEF Tasks, BuildBoard, SetTurn, ShowCards, ShowMismatch
<1>11. CASE HandleGameStart
  <2>1. PICK b \in BOOLEAN : tasks' = tasks \o <<BuildBoard, SetTurn(b)>>
    BY <1>11 DEF HandleGameStart, RunLater
  <2> QED
    BY <1>18, <1>10, <2>1
<1>12. CASE RevealCard
  <2>1. Head(inbox).card \in Cards
    BY <1>2, <1>12 DEF RevealCard, Is, Messages, GameStates
  <2>2. PICK S \in SUBSET Cards : tasks' = tasks \o <<ShowCards(S)>>
    BY <1>12, <2>1 DEF RevealCard, RunLater
  <2> QED
    BY <1>17, <1>10, <2>2
<1>13. CASE HandleMatch \/ HandleOther
  BY <1>8, <1>13 DEF HandleMatch, HandleOther
<1>14. CASE HandleMismatch
  <2>1. PICK S \in SUBSET Cards, b \in BOOLEAN : tasks' = tasks \o <<ShowMismatch(S, b)>>
    BY <1>9, <1>14 DEF HandleMismatch, RunLater
  <2>2. read = 1
    BY <1>2, <1>14 DEF HandleMismatch, Is, MismatchMessages
  <2>3. Places(<<ShowMismatch(S, b)>>, MismatchTasks) <= 1
    BY PlacesOne
  <2>4. <<ShowMismatch(S, b)>> \in Seq(Tasks)
    BY <1>10
  <2> QED
    BY <1>6, <2>1, <2>2, <2>3, <2>4
<1>15. CASE HandleYourTurn
  <2>1. PICK b \in BOOLEAN : tasks' = tasks \o <<SetTurn(b)>>
    BY <1>15 DEF HandleYourTurn, RunLater
  <2> QED
    BY <1>17, <1>10, <2>1
<1>16. CASE HandleGameState
  <2>1. Head(inbox).up \in SUBSET Cards /\ Head(inbox).matched \in SUBSET Cards
    BY <1>2, <1>16 DEF HandleGameState, Is, Messages, GameStates
  <2>2. PICK S \in SUBSET Cards, b \in BOOLEAN :
            tasks' = tasks \o <<ShowCards(S), SetTurn(b)>>
    BY <1>16, <2>1 DEF HandleGameState, RunLater
  <2> QED
    BY <1>18, <1>10, <2>2
<1> QED
  BY <1>11, <1>12, <1>13, <1>14, <1>15, <1>16 DEF Reader

\* The task becomes a thread, and the thread ends.
LEMMA HidingScreen ==
    ASSUME Typed, JavaFX \/ Wake
    PROVE  Toll(sleepers', tasks', inbox') <= Toll(sleepers, tasks, inbox)
<1>1. tasks \in Seq(Tasks) /\ sleepers \in Seq(SUBSET Cards)
  BY DEF Typed
<1>2. inbox' = inbox
  BY DEF JavaFX, Wake, RunBuild, RunShow, RunTurn, RunMismatch, RunHide
<1>3. CASE RunBuild \/ RunShow \/ RunTurn \/ RunHide
  <2>1. tasks # <<>> /\ tasks' = Tail(tasks) /\ sleepers' = sleepers
    BY <1>3 DEF RunBuild, RunShow, RunTurn, RunHide, Doing, Done
  <2>2. Places(tasks, MismatchTasks)
        = (IF Head(tasks) \in MismatchTasks THEN 1 ELSE 0) + Places(tasks', MismatchTasks)
    BY <1>1, <2>1, PlacesTail
  <2>3. Places(tasks', MismatchTasks) \in Nat
    <3>1. tasks' \in Seq(Tasks)
      BY <1>1, <2>1
    <3> QED
      BY <3>1, PlacesType
  <2> QED
    BY <1>2, <2>1, <2>2, <2>3, TollTyped DEF Toll
<1>4. CASE RunMismatch
  <2>1. tasks # <<>> /\ Head(tasks) \in MismatchTasks
    BY <1>1, <1>4 DEF RunMismatch, Doing, MismatchTasks
  <2>2. Head(tasks).mine \in BOOLEAN /\ Head(tasks).cards \in SUBSET Cards
    BY <2>1 DEF MismatchTasks, Tasks
  <2>3. SetTurn(Head(tasks).mine) \in Tasks /\ SetTurn(Head(tasks).mine) \notin MismatchTasks
    BY <2>2 DEF SetTurn, Tasks, MismatchTasks
  <2>4. PICK x \in Tasks : x = SetTurn(Head(tasks).mine)
    BY <2>3
  <2>5. tasks' = Append(Tail(tasks), x) /\ Tail(tasks) \in Seq(Tasks)
    BY <1>1, <1>4, <2>1, <2>4 DEF RunMismatch
  <2>6. Places(tasks, MismatchTasks) = 1 + Places(Tail(tasks), MismatchTasks)
    BY <1>1, <2>1, PlacesTail
  <2>7. Places(tasks', MismatchTasks) = Places(Tail(tasks), MismatchTasks) + 0
    BY <2>3, <2>4, <2>5, PlacesAppend
  <2>8. Len(sleepers') = Len(sleepers) + 1
    BY <1>1, <1>4, <2>2 DEF RunMismatch
  <2>9. Places(Tail(tasks), MismatchTasks) \in Nat
    BY <2>5, PlacesType
  <2> QED
    BY <1>2, <2>6, <2>7, <2>8, <2>9, TollTyped DEF Toll
<1>5. CASE Wake
  <2>1. PICK k \in DOMAIN sleepers :
            /\ tasks' = tasks \o <<HideCards(sleepers[k])>>
            /\ sleepers' = Lists!RemoveAt(sleepers, k)
    BY <1>5 DEF Wake, RunLater
  <2>2. Len(sleepers') = Len(sleepers) - 1
    BY <1>1, <2>1, RemoveAtFacts
  <2>3. PICK x \in Tasks : x = HideCards(sleepers[k]) /\ x \notin MismatchTasks
    <3>1. sleepers[k] \in SUBSET Cards
      BY <1>1
    <3>2. HideCards(sleepers[k]) \in Tasks /\ HideCards(sleepers[k]).do = "hide"
      BY <3>1 DEF HideCards, Tasks
    <3>3. HideCards(sleepers[k]) \notin MismatchTasks
      BY <3>2 DEF MismatchTasks
    <3> QED
      BY <3>2, <3>3, Zenon
  <2>4. tasks' = Append(tasks, x)
    BY <1>1, <2>1, <2>3
  <2>5. Places(tasks', MismatchTasks) = Places(tasks, MismatchTasks) + 0
    BY <1>1, <2>3, <2>4, PlacesAppend
  <2> QED
    BY <1>2, <2>2, <2>5, TollTyped DEF Toll
<1> QED
  BY <1>3, <1>4, <1>5 DEF JavaFX

\* No step exceeds the bound.
LEMMA HidingNext ==
    ServerInv /\ ServerInv' /\ Typed /\ Typed' /\ HidingInv /\ [Next]_vars => HidingInv'
<1> SUFFICES ASSUME ServerInv, ServerInv', Typed, Typed', HidingInv, [Next]_vars
             PROVE  HidingInv'
  OBVIOUS
<1>1. /\ Hiding = Toll(sleepers, tasks, inbox)
      /\ Hiding' = Toll(sleepers', tasks', inbox')
  BY HidingIsToll
<1>2. Toll(sleepers, tasks, inbox) \in Nat
  BY TollTyped DEF Toll
<1>3. Toll(sleepers', tasks', inbox') \in Nat
  <2>1. tasks' \in Seq(Tasks) /\ inbox' \in Seq(Messages) /\ sleepers' \in Seq(SUBSET Cards)
    BY DEF Typed
  <2>2. Len(sleepers') \in Nat
    BY <2>1
  <2>3. Places(tasks', MismatchTasks) \in Nat /\ Places(inbox', MismatchMessages) \in Nat
    BY <2>1, PlacesType
  <2> QED
    BY <2>2, <2>3 DEF Toll
<1>4. MaxSleepers \in Nat
  BY ViewAssumption
<1>5. CASE Toll(sleepers', tasks', inbox') <= Toll(sleepers, tasks, inbox)
  BY <1>1, <1>2, <1>3, <1>4, <1>5 DEF HidingInv
<1>6. ASSUME NEW c \in Clients, Settle(c)
      PROVE  HidingInv'
  <2>1. IsMatch(game) \/ Hiding < MaxSleepers
    BY <1>6 DEF Settle
  <2> QED
    BY <1>1, <1>2, <1>3, <1>4, <1>6, <2>1, HidingSettle DEF HidingInv
<1>7. CASE FlipByRival \/ FlipByMe \/ LoseLink \/ Return \/ \E c \in Clients : Reveal(c)
  BY <1>5, <1>7, HidingServer
<1>8. CASE Reader
  BY <1>5, <1>8, HidingReader
<1>9. CASE JavaFX \/ Wake
  BY <1>5, <1>9, HidingScreen
<1>10. CASE UNCHANGED vars \/ \E i \in Cards : Click(i)
  <2>1. UNCHANGED <<sleepers, tasks, inbox>>
    BY <1>10 DEF vars, screen, Click
  <2> QED
    BY <1>2, <1>5, <2>1
<1> QED
  BY <1>6, <1>7, <1>8, <1>9, <1>10 DEF Next, Handler

\* Nothing waits at the start.
LEMMA HidingInit == Init => HidingInv
<1> SUFFICES ASSUME Init
             PROVE  HidingInv
  OBVIOUS
<1>1. {k \in DOMAIN tasks : tasks[k].do = "mismatch"} = {}
  BY DEF Init
<1>2. {k \in DOMAIN inbox : inbox[k].kind = "MISMATCH"} = {}
  BY DEF Init, Started, Plain
<1>3. Hiding = 0
  <2>1. Len(sleepers) = 0 /\ Cardinality({}) = 0
    BY FS_EmptySet DEF Init
  <2>2. Hiding = Len(sleepers) + Cardinality({}) + Cardinality({})
    BY <1>1, <1>2, Zenon DEF Hiding
  <2> QED
    BY <2>1, <2>2
<1> QED
  BY <1>3, ViewAssumption DEF HidingInv

\* The types, from the invariants.
LEMMA TypeNow == ServerInv /\ Typed /\ HidingInv => TypeOK
<1> SUFFICES ASSUME ServerInv, Typed, HidingInv
             PROVE  TypeOK
  OBVIOUS
<1>1. Len(sleepers) <= MaxSleepers
  <2>1. {k \in DOMAIN tasks : tasks[k].do = "mismatch"}
        = {k \in DOMAIN tasks : tasks[k] \in MismatchTasks}
    BY DEF Typed, MismatchTasks
  <2>2. {k \in DOMAIN inbox : inbox[k].kind = "MISMATCH"}
        = {k \in DOMAIN inbox : inbox[k] \in MismatchMessages}
    BY DEF Typed, MismatchMessages
  <2>3. Hiding = Toll(sleepers, tasks, inbox)
    BY <2>1, <2>2 DEF Hiding, Toll, Places
  <2> QED
    BY <2>3, TollTyped, ViewAssumption DEF Toll, HidingInv
<1> QED
  BY <1>1 DEF TypeOK, Typed, ServerInv, GameInv

\* Every variable keeps to its type, flippedIndices holds cards, and no more
\* pairs of cards wait to be hidden than mismatches were let through.
THEOREM ViewTypeCorrect == Spec => []TypeOK
<1>1. Spec => []HidingInv
  BY HidingInit, HidingNext, ServerInvariant, TypedInvariant, PTL DEF Spec
<1> QED
  BY <1>1, TypeNow, ServerInvariant, TypedInvariant, PTL
=============================================================================

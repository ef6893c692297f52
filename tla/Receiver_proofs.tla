-------------------------- MODULE Receiver_proofs --------------------------
(***************************************************************************)
(* What the handler threads of module Receiver make of the characters they *)
(* receive, and whose descriptors they read, for every alphabet, every set *)
(* of commands, and every length of a message and of what recv() returns.  *)
(***************************************************************************)
EXTENDS Receiver, SequenceTheorems, FiniteSetTheorems, WellFoundedInduction, TLAPS

-----------------------------------------------------------------------------
(* Numbers.                                                                *)

\* A set that 0 is in, and each number after one that is in it, up to n.
LEMMA UpTo ==
    ASSUME NEW n \in Nat, NEW S, 0 \in S,
           \A m \in 0 .. n - 1 : m \in S => m + 1 \in S
    PROVE  \A m \in 0 .. n : m \in S
<1> DEFINE Less == {p \in Nat \X Nat : p[1] < p[2]}
           bad == {m \in 0 .. n : m \notin S}
<1> SUFFICES ASSUME bad # {} PROVE FALSE
  OBVIOUS
<1>1. IsWellFoundedOn(Less, Nat)
  BY NatLessThanWellFounded, Zenon DEF OpToRel
<1>2. bad \subseteq Nat
  OBVIOUS
<1> HIDE DEF bad
<1>3. PICK x \in bad : \A y \in bad : ~ (<<y, x>> \in Less)
  BY <1>1, <1>2, WFMin, Zenon
<1> USE DEF bad
<1>4. x \in Nat \ {0} /\ x \in 0 .. n /\ x \notin S
  OBVIOUS
<1>5. x - 1 \in 0 .. n - 1 /\ <<x - 1, x>> \in Less
  BY <1>4
<1>6. x - 1 \in S
  BY <1>3, <1>5
<1>7. x - 1 + 1 \in S
  BY <1>5, <1>6
<1> QED
  BY <1>4, <1>7

\* The lowest of the descriptors that are free is one of them.
LEMMA LowestExists ==
    ASSUME NEW S, S \subseteq Nat, S # {}
    PROVE  \E x \in S : \A y \in S : x <= y
<1> DEFINE Less == {p \in Nat \X Nat : p[1] < p[2]}
<1>1. IsWellFoundedOn(Less, Nat)
  BY NatLessThanWellFounded, Zenon DEF OpToRel
<1>2. PICK x \in S : \A y \in S : ~ (<<y, x>> \in Less)
  BY <1>1, WFMin, Zenon
<1>3. \A y \in S : x <= y
  <2>1. TAKE y \in S
  <2>2. x \in Nat /\ y \in Nat
    OBVIOUS
  <2>3. <<y, x>> \in Less <=> y < x
    BY <2>2
  <2> QED
    BY <1>2, <2>2, <2>3
<1> QED
  BY <1>3

LEMMA MinIn ==
    ASSUME NEW S, S \subseteq Nat, S # {}
    PROVE  Min(S) \in S
BY LowestExists DEF Min

\* The remainder of the next number.
LEMMA NextRemainder ==
    ASSUME NEW b \in Nat, NEW m \in Nat \ {0}
    PROVE  /\ b % m \in 0 .. m - 1
           /\ b % m <= b
           /\ (b + 1) % m = IF b % m = m - 1 THEN 0 ELSE (b % m) + 1
<1>1. /\ b % m \in 0 .. m - 1 /\ b \div m \in Nat
      /\ b = (m * (b \div m)) + (b % m)
  OBVIOUS
<1>2. ASSUME NEW q \in Nat, NEW r \in 0 .. m - 1 PROVE ((m * q) + r) % m = r
  OBVIOUS
<1>3. PICK q \in Nat, r \in 0 .. m - 1 : r = b % m /\ b = (m * q) + r
  BY <1>1
<1>4. m * q \in Nat /\ m * (q + 1) = (m * q) + m
  OBVIOUS
<1>5. CASE r = m - 1
  <2>1. b + 1 = (m * (q + 1)) + 0
    BY <1>3, <1>4, <1>5
  <2>2. ((m * (q + 1)) + 0) % m = 0
    BY <1>2
  <2> QED
    BY <1>1, <1>3, <1>4, <1>5, <2>1, <2>2
<1>6. CASE r # m - 1
  <2>1. b + 1 = (m * q) + (r + 1) /\ r + 1 \in 0 .. m - 1
    BY <1>3, <1>4, <1>6
  <2>2. ((m * q) + (r + 1)) % m = r + 1
    BY <1>2, <2>1
  <2> QED
    BY <1>1, <1>3, <1>4, <1>6, <2>1, <2>2
<1> QED
  BY <1>5, <1>6

-----------------------------------------------------------------------------
(* The text of what is received.                                           *)

\* g is the text of the first m characters of s, for each m up to n.
Texts(g, s, n) ==
    g = [i \in 0 .. n |-> IF i = 0 THEN << >>
                          ELSE IF s[i] = CR THEN g[i - 1]
                          ELSE Append(g[i - 1], s[i])]

LEMMA TextUnfold == \A s : Text(s) = (CHOOSE g : Texts(g, s, Len(s)))[Len(s)]
BY DEF Text, Texts

LEMMA TextsExist ==
    ASSUME NEW s, NEW n \in Nat
    PROVE  \E g : Texts(g, s, n)
<1> DEFINE S == {m \in 0 .. n : \E g : Texts(g, s, m)}
<1>1. 0 \in S
  <2> DEFINE g == [i \in 0 .. 0 |-> << >>]
  <2>1. Texts(g, s, 0)
    BY DEF Texts
  <2> QED
    BY <2>1
<1>2. ASSUME NEW m \in 0 .. n - 1, m \in S PROVE m + 1 \in S
  <2>1. PICK g : Texts(g, s, m)
    BY <1>2
  <2> DEFINE x == IF s[m + 1] = CR THEN g[m] ELSE Append(g[m], s[m + 1])
             h == [i \in 0 .. m + 1 |-> IF i = m + 1 THEN x ELSE g[i]]
  <2>2. ASSUME NEW i \in 0 .. m + 1
        PROVE  h[i] = IF i = 0 THEN << >> ELSE IF s[i] = CR THEN h[i - 1]
                      ELSE Append(h[i - 1], s[i])
    <3>1. CASE i = m + 1
      BY <3>1
    <3>2. CASE i # m + 1
      <4>1. i \in 0 .. m /\ (i # 0 => i - 1 \in 0 .. m)
        BY <3>2
      <4>2. g[i] = IF i = 0 THEN << >> ELSE IF s[i] = CR THEN g[i - 1]
                   ELSE Append(g[i - 1], s[i])
        BY <2>1, <4>1 DEF Texts
      <4>3. h[i] = g[i] /\ (i # 0 => h[i - 1] = g[i - 1])
        BY <4>1
      <4> QED
        BY <4>2, <4>3
    <3> QED
      BY <3>1, <3>2
  <2>3. Texts(h, s, m + 1)
    <3>1. h = [i \in 0 .. m + 1 |-> h[i]]
      OBVIOUS
    <3> HIDE DEF h
    <3> QED
      BY <2>2, <3>1 DEF Texts
  <2> QED
    BY <2>3
<1>3. \A m \in 0 .. n : m \in S
  <2> HIDE DEF S
  <2> QED
    BY <1>1, <1>2, UpTo
<1> QED
  BY <1>3

\* The text of no characters, and of the characters one by one.
LEMMA TextEmpty == ASSUME NEW s \in Seq(Characters), Len(s) = 0 PROVE Text(s) = << >>
<1>1. PICK g : g = (CHOOSE f : Texts(f, s, 0))
  OBVIOUS
<1>2. Texts(g, s, 0)
  BY <1>1, TextsExist
<1>3. g[0] = << >>
  BY <1>2 DEF Texts
<1> QED
  BY <1>1, <1>3, TextUnfold

LEMMA TextOfPrefix ==
    ASSUME NEW s \in Seq(Characters), NEW u \in Seq(Characters), NEW g,
           Texts(g, u, Len(u)), Len(s) <= Len(u),
           \A i \in 1 .. Len(s) : s[i] = u[i]
    PROVE  Text(s) = g[Len(s)]
<1> DEFINE n == Len(s)
<1>0. n \in Nat /\ Len(u) \in Nat
  OBVIOUS
<1> HIDE DEF n
<1>1. PICK f : f = (CHOOSE h : Texts(h, s, n))
  OBVIOUS
<1>2. Texts(f, s, n)
  BY <1>0, <1>1, TextsExist
<1> DEFINE S == {m \in 0 .. n : f[m] = g[m]}
<1>3. ASSUME NEW m \in 0 .. n
      PROVE  /\ f[m] = IF m = 0 THEN << >> ELSE IF s[m] = CR THEN f[m - 1]
                       ELSE Append(f[m - 1], s[m])
             /\ g[m] = IF m = 0 THEN << >> ELSE IF u[m] = CR THEN g[m - 1]
                       ELSE Append(g[m - 1], u[m])
  <2>1. m \in 0 .. Len(u)
    BY <1>0 DEF n
  <2> QED
    BY <1>2, <2>1 DEF Texts
<1>4. 0 \in S
  BY <1>0, <1>3
<1>5. ASSUME NEW m \in 0 .. n - 1, m \in S PROVE m + 1 \in S
  <2>1. m + 1 \in 1 .. n /\ m + 1 \in 0 .. n /\ m + 1 # 0 /\ m + 1 - 1 = m
    BY <1>0
  <2>2. f[m] = g[m] /\ s[m + 1] = u[m + 1]
    BY <1>5, <2>1 DEF n
  <2>3. /\ f[m + 1] = IF m + 1 = 0 THEN << >> ELSE IF s[m + 1] = CR THEN f[m + 1 - 1]
                      ELSE Append(f[m + 1 - 1], s[m + 1])
        /\ g[m + 1] = IF m + 1 = 0 THEN << >> ELSE IF u[m + 1] = CR THEN g[m + 1 - 1]
                      ELSE Append(g[m + 1 - 1], u[m + 1])
    BY <1>3, <2>1
  <2> QED
    BY <2>1, <2>2, <2>3
<1>6. \A m \in 0 .. n : m \in S
  <2> HIDE DEF S
  <2> QED
    BY <1>0, <1>4, <1>5, UpTo
<1>7. f[n] = g[n]
  BY <1>0, <1>6
<1> QED
  BY <1>1, <1>7, TextUnfold DEF n

-----------------------------------------------------------------------------
(* The places of a text when one more character comes.                     *)

Marks == Letters \cup {LF}

\* The letters before a place are in its line.
Lined(t) == \A i \in 1 .. Len(t) + 1 : Before(t, i) \in 0 .. i - 1

BadMessages(t) == {i \in Messages(t) : Message(t, i) \notin Commands}

LEMMA Longer ==
    ASSUME NEW t \in Seq(Marks), NEW x \in Marks
    PROVE  /\ Append(t, x) \in Seq(Marks) /\ Len(Append(t, x)) = Len(t) + 1
           /\ Len(t) \in Nat /\ DOMAIN t = 1 .. Len(t)
           /\ DOMAIN Append(t, x) = 1 .. Len(t) + 1
           /\ \A i \in 1 .. Len(t) : Append(t, x)[i] = t[i]
           /\ Append(t, x)[Len(t) + 1] = x
OBVIOUS

\* The highest number of a set up to n.
LEMMA MaxIn ==
    ASSUME NEW n \in Nat, NEW S, S \subseteq 0 .. n, S # {}
    PROVE  Max(S) \in S
<1> DEFINE T == {n - k : k \in S}
<1>1. T \subseteq Nat /\ T # {}
  <2>1. \A k \in S : k \in 0 .. n
    OBVIOUS
  <2>2. \A k \in S : n - k \in Nat
    BY <2>1
  <2> QED
    BY <2>2
<1>2. Min(T) \in T /\ \A y \in T : Min(T) <= y
  <2>1. Min(T) \in T
    BY <1>1, MinIn
  <2> HIDE DEF T
  <2>2. \E x \in T : \A y \in T : x <= y
    BY <1>1, LowestExists
  <2> QED
    BY <2>1, <2>2 DEF Min
<1>3. PICK k \in S : Min(T) = n - k
  BY <1>2
<1>4. ASSUME NEW y \in S PROVE k >= y
  <2>1. k \in 0 .. n /\ y \in 0 .. n
    OBVIOUS
  <2>2. n - y \in T
    OBVIOUS
  <2>3. n - k <= n - y
    BY <1>2, <1>3, <2>2
  <2> QED
    BY <2>1, <2>3
<1> QED
  BY <1>4 DEF Max

LEMMA MaxOfAll ==
    ASSUME NEW S, NEW n \in S, S \subseteq Int, \A j \in S : j <= n
    PROVE  Max(S) = n
<1>1. \A m \in S : (\A y \in S : m >= y) => m = n
  OBVIOUS
<1>2. \A y \in S : n >= y
  OBVIOUS
<1> QED
  BY <1>1, <1>2 DEF Max

\* Where the lines before place i begin.
Starts(t, i) == {0} \cup {j \in Ends(t) : j < i}

LEMMA BeforeIs ==
    ASSUME NEW t, NEW i \in Int
    PROVE  Before(t, i) = i - 1 - Max(Starts(t, i))
BY DEF Before, Starts

LEMMA SubSeqSame ==
    ASSUME NEW S, NEW s, NEW u, NEW p \in Int, NEW q \in Int,
           \A k \in p .. q : s[k] \in S /\ s[k] = u[k]
    PROVE  SubSeq(s, p, q) = SubSeq(u, p, q)
<1>1. \A k \in p .. q : s[k] \in S /\ u[k] \in S
  OBVIOUS
<1> DEFINE v == SubSeq(s, p, q)
           w == SubSeq(u, p, q)
<1>2. /\ v \in Seq(S) /\ Len(v) = IF p <= q THEN q - p + 1 ELSE 0
      /\ \A i \in 1 .. q - p + 1 : v[i] = s[p + i - 1]
  BY <1>1, SubSeqProperties
<1>3. /\ w \in Seq(S) /\ Len(w) = IF p <= q THEN q - p + 1 ELSE 0
      /\ \A i \in 1 .. q - p + 1 : w[i] = u[p + i - 1]
  BY <1>1, SubSeqProperties
<1> HIDE DEF v, w
<1>4. \A i \in 1 .. Len(v) : v[i] = w[i]
  <2>1. TAKE i \in 1 .. Len(v)
  <2>2. i \in 1 .. q - p + 1 /\ p + i - 1 \in p .. q
    BY <1>2
  <2> QED
    BY <1>2, <1>3, <2>2
<1>5. v = w
  BY <1>2, <1>3, <1>4, SeqEqual
<1> QED
  BY <1>5 DEF v, w

\* What the earlier places keep.
LEMMA BeforeKept ==
    ASSUME NEW t \in Seq(Marks), NEW x \in Marks, NEW i \in 1 .. Len(t) + 1
    PROVE  Before(Append(t, x), i) = Before(t, i)
<1> DEFINE u == Append(t, x)
<1>1. Starts(u, i) = Starts(t, i)
  BY Longer DEF Ends, Starts
<1> QED
  BY <1>1, BeforeIs

LEMMA MessageKept ==
    ASSUME NEW t \in Seq(Marks), NEW x \in Marks, Lined(t),
           MAX_MESSAGE_LENGTH \in Nat \ {0}, NEW i \in 1 .. Len(t) + 1
    PROVE  Message(Append(t, x), i) = Message(t, i)
<1> DEFINE u == Append(t, x)
           b == Before(t, i) % MAX_MESSAGE_LENGTH
<1>1. Before(u, i) = Before(t, i) /\ Before(t, i) \in 0 .. i - 1
  BY BeforeKept DEF Lined
<1>2. b \in Nat /\ b <= i - 1 /\ i \in Nat /\ i - 1 <= Len(t) /\ Len(t) \in Nat
  <2>1. Len(t) \in Nat
    BY Longer
  <2>2. Before(t, i) \in Nat
    BY <1>1, <2>1
  <2>3. b \in Nat /\ b <= Before(t, i)
    <3>1. PICK m \in Nat : m = Before(t, i)
      BY <2>2
    <3>2. PICK k \in Nat \ {0} : k = MAX_MESSAGE_LENGTH
      OBVIOUS
    <3>3. m % k \in 0 .. k - 1 /\ m % k <= m
      BY NextRemainder
    <3>4. m % k \in Nat
      BY <3>3
    <3> QED
      BY <3>1, <3>2, <3>3, <3>4, Zenon
  <2> HIDE DEF b
  <2> QED
    BY <1>1, <2>1, <2>3
<1> HIDE DEF b
<1>3. \A k \in i - b .. i - 1 : t[k] \in Marks /\ t[k] = u[k]
  BY <1>2, Longer
<1>4. SubSeq(u, i - b, i - 1) = SubSeq(t, i - b, i - 1)
  <2>1. i - b \in Int /\ i - 1 \in Int
    BY <1>2
  <2> HIDE DEF u
  <2> QED
    BY <1>3, <2>1, SubSeqSame
<1>5. Message(u, i) = SubSeq(u, i - b, i - 1) /\ Message(t, i) = SubSeq(t, i - b, i - 1)
  BY <1>1 DEF Message, b
<1> QED
  BY <1>4, <1>5

\* The last place: a new line begins, or the line has one letter more.
LEMMA BeforeNext ==
    ASSUME NEW t \in Seq(Marks), NEW x \in Marks
    PROVE  Before(Append(t, x), Len(t) + 2) =
               IF x = LF THEN 0 ELSE Before(t, Len(t) + 1) + 1
<1> DEFINE u == Append(t, x)
           n == Len(t)
           S == Starts(u, n + 2)
<1>1. n \in Nat
  BY Longer
<1>2. Before(u, n + 2) = (n + 2) - 1 - Max(S)
  <2>1. n + 2 \in Int
    BY <1>1
  <2> QED
    BY <2>1, BeforeIs, Zenon
<1>3. CASE x = LF
  <2>1. S \subseteq Int /\ n + 1 \in S /\ \A j \in S : j <= n + 1
    BY <1>1, <1>3, Longer DEF Ends, Starts
  <2>2. Max(S) = n + 1
    <3> HIDE DEF S, n, u
    <3> QED
      BY <2>1, MaxOfAll
  <2> QED
    BY <1>1, <1>2, <1>3, <2>2
<1>4. CASE x # LF
  <2>1. S = Starts(t, n + 1)
    BY <1>1, <1>4, Longer DEF Ends, Starts
  <2>2. Before(t, n + 1) = (n + 1) - 1 - Max(S)
    <3>1. n + 1 \in Int
      BY <1>1
    <3> QED
      BY <2>1, <3>1, BeforeIs, Zenon
  <2>3. S \subseteq 0 .. n /\ Max(S) \in Int
    <3>1. S \subseteq 0 .. n /\ S # {}
      BY <1>1, <2>1, Longer DEF Ends, Starts
    <3> QED
      BY <1>1, <3>1, MaxIn
  <2> HIDE DEF S, n, u
  <2> QED
    BY <1>1, <1>2, <1>4, <2>2, <2>3 DEF n, u
<1> QED
  BY <1>3, <1>4

LEMMA LinedNext ==
    ASSUME NEW t \in Seq(Marks), NEW x \in Marks, Lined(t)
    PROVE  Lined(Append(t, x))
<1> DEFINE u == Append(t, x)
<1>1. Len(t) \in Nat /\ Len(u) = Len(t) + 1
  BY Longer
<1>2. ASSUME NEW i \in 1 .. Len(t) + 2 PROVE Before(u, i) \in 0 .. i - 1
  <2>1. CASE i \in 1 .. Len(t) + 1
    BY <2>1, BeforeKept DEF Lined
  <2>2. CASE i = Len(t) + 2
    <3>1. Before(t, Len(t) + 1) \in 0 .. Len(t)
      BY <1>1 DEF Lined
    <3> QED
      BY <1>1, <2>2, <3>1, BeforeNext
  <2> QED
    BY <1>1, <2>1, <2>2
<1> HIDE DEF u
<1> QED
  BY <1>1, <1>2 DEF Lined, u

LEMMA MessageLength ==
    ASSUME NEW t \in Seq(Marks), Lined(t), MAX_MESSAGE_LENGTH \in Nat \ {0},
           NEW i \in 1 .. Len(t) + 1
    PROVE  /\ Message(t, i) \in Seq(Marks)
           /\ Len(Message(t, i)) = Before(t, i) % MAX_MESSAGE_LENGTH
           /\ Before(t, i) % MAX_MESSAGE_LENGTH \in 0 .. i - 1
           /\ \A k \in 1 .. Before(t, i) % MAX_MESSAGE_LENGTH :
                 Message(t, i)[k] = t[i - (Before(t, i) % MAX_MESSAGE_LENGTH) + k - 1]
<1> DEFINE b == Before(t, i) % MAX_MESSAGE_LENGTH
<1>1. /\ Len(t) \in Nat /\ i \in Nat /\ i - 1 <= Len(t)
      /\ \A k \in 1 .. Len(t) : t[k] \in Marks
  OBVIOUS
<1>2. b \in 0 .. i - 1
  <2>1. PICK m \in Nat : m = Before(t, i) /\ m <= i - 1
    BY <1>1 DEF Lined
  <2>2. PICK k \in Nat \ {0} : k = MAX_MESSAGE_LENGTH
    OBVIOUS
  <2>3. m % k \in 0 .. k - 1 /\ m % k <= m
    BY NextRemainder
  <2>4. m % k \in 0 .. i - 1
    BY <1>1, <2>1, <2>3
  <2> QED
    BY <2>1, <2>2, <2>4, Zenon
<1>3. Message(t, i) = SubSeq(t, i - b, i - 1)
  BY DEF Message
<1> HIDE DEF b
<1>4. PICK p \in Int, q \in Int : p = i - b /\ q = i - 1
  BY <1>1, <1>2
<1>5. \A k \in p .. q : t[k] \in Marks
  BY <1>1, <1>2, <1>4
<1>6. /\ SubSeq(t, p, q) \in Seq(Marks)
      /\ Len(SubSeq(t, p, q)) = IF p <= q THEN q - p + 1 ELSE 0
      /\ \A k \in 1 .. q - p + 1 : SubSeq(t, p, q)[k] = t[p + k - 1]
  BY <1>5, SubSeqProperties
<1>7. /\ (IF p <= q THEN q - p + 1 ELSE 0) = b
      /\ q - p + 1 = b
  BY <1>1, <1>2, <1>4
<1>8. \A k \in 1 .. b : p + k - 1 = i - b + k - 1
  BY <1>1, <1>2, <1>4
<1>9. /\ Message(t, i) \in Seq(Marks) /\ Len(Message(t, i)) = b /\ b \in 0 .. i - 1
      /\ \A k \in 1 .. b : Message(t, i)[k] = t[i - b + k - 1]
  BY <1>2, <1>3, <1>4, <1>6, <1>7, <1>8
<1> QED
  BY <1>9 DEF b

\* What is left of the line after one more character.
LEMMA MessageNext ==
    ASSUME NEW t \in Seq(Marks), NEW x \in Marks, Lined(t),
           MAX_MESSAGE_LENGTH \in Nat \ {0}
    PROVE  Message(Append(t, x), Len(t) + 2) =
               IF \/ x = LF
                  \/ Before(t, Len(t) + 1) % MAX_MESSAGE_LENGTH = MAX_MESSAGE_LENGTH - 1
               THEN << >>
               ELSE Append(Message(t, Len(t) + 1), x)
<1> DEFINE u == Append(t, x)
           n == Len(t)
           b == Before(t, n + 1) % MAX_MESSAGE_LENGTH
           d == Before(u, n + 2) % MAX_MESSAGE_LENGTH
<1>1. n \in Nat /\ u \in Seq(Marks) /\ Len(u) = n + 1 /\ Lined(u)
  BY Longer, LinedNext
<1>2. /\ b \in 0 .. MAX_MESSAGE_LENGTH - 1
      /\ d = IF x = LF \/ b = MAX_MESSAGE_LENGTH - 1 THEN 0 ELSE b + 1
  <2>1. PICK m \in Nat : m = Before(t, n + 1)
    BY <1>1 DEF Lined
  <2>2. PICK k \in Nat \ {0} : k = MAX_MESSAGE_LENGTH
    OBVIOUS
  <2>3. /\ m % k \in 0 .. k - 1
        /\ (m + 1) % k = IF m % k = k - 1 THEN 0 ELSE (m % k) + 1
    BY NextRemainder
  <2>4. 0 % k = 0
    OBVIOUS
  <2>5. Before(u, n + 2) = IF x = LF THEN 0 ELSE m + 1
    BY <2>1, BeforeNext
  <2>6. CASE x = LF
    BY <2>1, <2>2, <2>3, <2>4, <2>5, <2>6, Zenon
  <2>7. CASE x # LF
    BY <2>1, <2>2, <2>3, <2>5, <2>7, Zenon
  <2> QED
    BY <2>6, <2>7
<1>3. /\ Message(t, n + 1) \in Seq(Marks) /\ Len(Message(t, n + 1)) = b
      /\ b \in 0 .. n
      /\ \A k \in 1 .. b : Message(t, n + 1)[k] = t[(n + 1) - b + k - 1]
  <2>1. n + 1 \in 1 .. Len(t) + 1 /\ (n + 1) - 1 = n
    BY <1>1
  <2> HIDE DEF n
  <2> QED
    BY <2>1, MessageLength
<1>4. /\ Message(u, n + 2) \in Seq(Marks) /\ Len(Message(u, n + 2)) = d
      /\ \A k \in 1 .. d : Message(u, n + 2)[k] = u[(n + 2) - d + k - 1]
  <2>1. n + 2 \in 1 .. Len(u) + 1
    BY <1>1
  <2> HIDE DEF n, u
  <2> QED
    BY <1>1, <2>1, MessageLength
<1>5. /\ \A k \in 1 .. n : u[k] = t[k]
      /\ u[n + 1] = x
  BY Longer
<1> DEFINE v == Message(t, n + 1)
           w == Message(u, n + 2)
<1> HIDE DEF b, d, u, n, v, w
<1>6. CASE x = LF \/ b = MAX_MESSAGE_LENGTH - 1
  <2>1. w = << >>
    BY <1>2, <1>4, <1>6, EmptySeq DEF w
  <2> QED
    BY <1>6, <2>1 DEF b, u, n, w
<1>7. CASE x # LF /\ b # MAX_MESSAGE_LENGTH - 1
  <2>1. d = b + 1
    BY <1>2, <1>7
  <2>2. /\ Append(v, x) \in Seq(Marks) /\ Len(Append(v, x)) = b + 1
        /\ \A k \in 1 .. b : Append(v, x)[k] = v[k]
        /\ Append(v, x)[b + 1] = x
    BY <1>3, AppendProperties DEF v
  <2>3. ASSUME NEW k \in 1 .. b + 1 PROVE w[k] = Append(v, x)[k]
    <3>1. b \in Nat /\ n \in Nat /\ b <= n
      BY <1>1, <1>3
    <3>2. w[k] = u[n - b + k]
      <4>1. (n + 2) - (b + 1) + k - 1 = n - b + k
        BY <3>1
      <4> QED
        BY <1>4, <2>1, <4>1 DEF w
    <3>3. CASE k = b + 1
      <4>1. n - b + k = n + 1
        BY <3>1, <3>3
      <4> QED
        BY <1>5, <2>2, <3>2, <3>3, <4>1
    <3>4. CASE k # b + 1
      <4>1. k \in 1 .. b /\ n - b + k \in 1 .. n /\ (n + 1) - b + k - 1 = n - b + k
        BY <3>1, <3>4
      <4>2. v[k] = t[n - b + k]
        BY <1>3, <4>1 DEF v
      <4> QED
        BY <1>5, <2>2, <3>2, <4>1, <4>2
    <3> QED
      BY <3>3, <3>4
  <2>4. w = Append(v, x)
    BY <1>4, <2>1, <2>2, <2>3, SeqEqual DEF w
  <2> QED
    BY <1>7, <2>4 DEF b, u, n, v, w
<1> QED
  BY <1>6, <1>7

\* The sets of places.
LEMMA PlacesNext ==
    ASSUME NEW t \in Seq(Marks), NEW x \in Marks, Lined(t),
           MAX_MESSAGE_LENGTH \in Nat \ {0}
    PROVE  LET n == Len(t)
               u == Append(t, x)
               m == Message(t, n + 1)
               b == Before(t, n + 1) % MAX_MESSAGE_LENGTH
           IN  /\ Messages(t) \subseteq 1 .. n /\ Overflows(t) \subseteq 1 .. n
               /\ Messages(u) =
                     Messages(t) \cup IF x = LF /\ m # << >> THEN {n + 1} ELSE {}
               /\ BadMessages(u) =
                     BadMessages(t) \cup IF x = LF /\ m # << >> /\ m \notin Commands
                                         THEN {n + 1} ELSE {}
               /\ Overflows(u) =
                     Overflows(t) \cup IF x # LF /\ b = MAX_MESSAGE_LENGTH - 1
                                       THEN {n + 1} ELSE {}
<1> DEFINE n == Len(t)
           u == Append(t, x)
           m == Message(t, n + 1)
<1>1. /\ n \in Nat /\ DOMAIN t = 1 .. n /\ DOMAIN u = 1 .. n + 1
      /\ \A i \in 1 .. n : u[i] = t[i]
      /\ u[n + 1] = x
  BY Longer
<1>2. \A i \in 1 .. n + 1 : Message(u, i) = Message(t, i) /\ Before(u, i) = Before(t, i)
  BY MessageKept, BeforeKept
<1> HIDE DEF n, u
<1>3. \A i : i \in 1 .. n + 1 <=> i \in 1 .. n \/ i = n + 1
  BY <1>1
<1>4. \A i : i \in Ends(u) <=> i \in Ends(t) \/ (i = n + 1 /\ x = LF)
  BY <1>1, <1>3 DEF Ends
<1>5. Ends(t) \subseteq 1 .. n /\ n + 1 \notin 1 .. n
  BY <1>1 DEF Ends
<1>6. Messages(t) \subseteq 1 .. n /\ Overflows(t) \subseteq 1 .. n
  BY <1>1, <1>5 DEF Messages, Overflows
<1>7. Messages(u) = Messages(t) \cup IF x = LF /\ m # << >> THEN {n + 1} ELSE {}
  BY <1>2, <1>3, <1>4, <1>5 DEF Messages
<1>8. BadMessages(u) = BadMessages(t) \cup IF x = LF /\ m # << >> /\ m \notin Commands
                                           THEN {n + 1} ELSE {}
  <2> HIDE DEF m
  <2> QED
    BY <1>2, <1>3, <1>6, <1>7 DEF BadMessages, m
<1>9. Overflows(u) = Overflows(t) \cup
          IF x # LF /\ Before(t, n + 1) % MAX_MESSAGE_LENGTH = MAX_MESSAGE_LENGTH - 1
          THEN {n + 1} ELSE {}
  BY <1>1, <1>2, <1>3, <1>4, <1>5 DEF Overflows
<1> QED
  BY <1>6, <1>7, <1>8, <1>9 DEF n, u

LEMMA CountNext ==
    ASSUME NEW n \in Nat, NEW S, S \subseteq 1 .. n
    PROVE  /\ IsFiniteSet(S) /\ Cardinality(S) \in Nat
           /\ Cardinality(S \cup {n + 1}) = Cardinality(S) + 1
<1>1. IsFiniteSet(1 .. n)
  BY FS_Interval
<1>2. IsFiniteSet(S)
  <2>1. S \in SUBSET (1 .. n)
    OBVIOUS
  <2> QED
    BY <1>1, <2>1, FS_Subset
<1>3. n + 1 \notin S
  OBVIOUS
<1> QED
  BY <1>2, <1>3, FS_AddElement, FS_CardinalityType

-----------------------------------------------------------------------------
(* A reader and what it takes in.                                          *)

\* A reader by its fields.
TakenType ==
    [line : Seq(Letters), count : Nat, handled : Seq(Seq(Letters)), cut : BOOLEAN]

Taken(l, c, h, d) == [line |-> l, count |-> c, handled |-> h, cut |-> d]

LEMMA Fields ==
    ASSUME NEW r \in TakenType
    PROVE  /\ r = Taken(r.line, r.count, r.handled, r.cut)
           /\ r.line \in Seq(Letters) /\ r.count \in Nat
           /\ r.handled \in Seq(Seq(Letters)) /\ r.cut \in BOOLEAN
BY DEF TakenType, Taken

LEMMA TakenFields ==
    ASSUME NEW l, NEW c, NEW h, NEW d
    PROVE  LET r == Taken(l, c, h, d)
           IN  r.line = l /\ r.count = c /\ r.handled = h /\ r.cut = d
BY DEF Taken

LEMMA TakenTyped ==
    ASSUME NEW l \in Seq(Letters), NEW c \in Nat, NEW h \in Seq(Seq(Letters)),
           NEW d \in BOOLEAN
    PROVE  Taken(l, c, h, d) \in TakenType
BY DEF TakenType, Taken

\* What the functions of a reader return, field by field.
LEMMA Counted ==
    ASSUME NEW l, NEW c \in Nat, NEW h, NEW d \in BOOLEAN
    PROVE  SendErrorAndCount(Taken(l, c, h, d)) =
               Taken(l, c + 1, h, d \/ c + 1 >= MAX_ERROR_COUNT)
<1>0. PICK r : r = Taken(l, c, h, d)
  OBVIOUS
<1>1. r.count = c /\ r.cut = d
  BY <1>0 DEF Taken
<1>2. PICK f \in BOOLEAN : f = (d \/ c + 1 >= MAX_ERROR_COUNT)
  OBVIOUS
<1>3. [r EXCEPT !.count = c + 1, !.cut = f] = Taken(l, c + 1, h, f)
  <2>1. PICK k : k = c + 1
    OBVIOUS
  <2>2. [r EXCEPT !.count = k] = Taken(l, k, h, d)
    BY <1>0 DEF Taken
  <2>3. PICK q : q = Taken(l, k, h, d)
    OBVIOUS
  <2>4. [q EXCEPT !.cut = f] = Taken(l, k, h, f)
    BY <2>3 DEF Taken
  <2>5. [r EXCEPT !.count = k, !.cut = f] = [[r EXCEPT !.count = k] EXCEPT !.cut = f]
    BY <1>0 DEF Taken
  <2> QED
    BY <2>1, <2>2, <2>3, <2>4, <2>5, Zenon
<1>4. SendErrorAndCount(r) =
          [r EXCEPT !.count = c + 1, !.cut = d \/ c + 1 >= MAX_ERROR_COUNT]
  BY <1>1, Zenon DEF SendErrorAndCount
<1> QED
  BY <1>0, <1>2, <1>3, <1>4, Zenon

LEMMA Handled ==
    ASSUME NEW l, NEW c \in Nat, NEW h, NEW d \in BOOLEAN
    PROVE  HandleMessage(Taken(l, c, h, d)) =
               IF l \in Commands THEN Taken(l, c, Append(h, l), d)
               ELSE Taken(l, c + 1, Append(h, l), d \/ c + 1 >= MAX_ERROR_COUNT)
<1> DEFINE r == Taken(l, c, h, d)
<1>1. [r EXCEPT !.handled = Append(@, r.line)] = Taken(l, c, Append(h, l), d)
  BY DEF Taken
<1>2. r.line = l
  BY DEF Taken
<1> QED
  BY <1>1, <1>2, Counted DEF HandleMessage

LEMMA Ended ==
    ASSUME NEW l, NEW c \in Nat, NEW h, NEW d \in BOOLEAN
    PROVE  EndLine(Taken(l, c, h, d)) =
               IF l = << >> THEN Taken(<< >>, c, h, d)
               ELSE IF l \in Commands THEN Taken(<< >>, c, Append(h, l), d)
               ELSE Taken(<< >>, c + 1, Append(h, l), d \/ c + 1 >= MAX_ERROR_COUNT)
<1> DEFINE r == Taken(l, c, h, d)
<1>1. r.line = l
  BY DEF Taken
<1>2. ASSUME NEW k, NEW b, NEW g, NEW f
      PROVE  [Taken(k, b, g, f) EXCEPT !.line = << >>] = Taken(<< >>, b, g, f)
  BY DEF Taken
<1> QED
  BY <1>1, <1>2, Handled DEF EndLine

LEMMA Lettered ==
    ASSUME NEW l, NEW c \in Nat, NEW h, NEW d \in BOOLEAN, NEW x
    PROVE  TakeLetter(Taken(l, c, h, d), x) =
               IF Len(l) < MAX_MESSAGE_LENGTH - 1 THEN Taken(Append(l, x), c, h, d)
               ELSE Taken(<< >>, c + 1, h, d)
<1>0. PICK r : r = Taken(l, c, h, d)
  OBVIOUS
<1>1. r.line = l /\ r.count = c
  BY <1>0 DEF Taken
<1>2. [r EXCEPT !.line = << >>, !.count = c + 1] = Taken(<< >>, c + 1, h, d)
  <2>1. PICK k, e : k = c + 1 /\ e = << >>
    OBVIOUS
  <2>2. [r EXCEPT !.line = e] = Taken(e, c, h, d)
    BY <1>0 DEF Taken
  <2>3. PICK q : q = Taken(e, c, h, d)
    OBVIOUS
  <2>4. [q EXCEPT !.count = k] = Taken(e, k, h, d)
    BY <2>3 DEF Taken
  <2>5. [r EXCEPT !.line = e, !.count = k] = [[r EXCEPT !.line = e] EXCEPT !.count = k]
    BY <1>0 DEF Taken
  <2> QED
    BY <2>1, <2>2, <2>3, <2>4, <2>5, Zenon
<1>3. [r EXCEPT !.line = Append(l, x)] = Taken(Append(l, x), c, h, d)
  BY <1>0 DEF Taken
<1>4. TakeLetter(r, x) = IF Len(l) < MAX_MESSAGE_LENGTH - 1
                         THEN [r EXCEPT !.line = Append(l, x)]
                         ELSE [r EXCEPT !.line = << >>, !.count = c + 1]
  BY <1>1, Zenon DEF TakeLetter
<1> QED
  BY <1>0, <1>2, <1>3, <1>4, Zenon

-----------------------------------------------------------------------------
(* The reader after a text.                                                *)

Handles(handled, t) ==
    /\ Len(handled) = Cardinality(Messages(t))
    /\ \A i \in Messages(t) :
          handled[Cardinality(Upto(Messages(t), i))] = Message(t, i)

Matches(r, t) ==
    /\ t \in Seq(Marks) /\ Lined(t)
    /\ r \in TakenType
    /\ r.line = Message(t, Len(t) + 1)
    /\ Handles(r.handled, t)
    /\ r.count = Cardinality(BadMessages(t)) + Cardinality(Overflows(t))
    /\ r.cut => r.count >= MAX_ERROR_COUNT

\* A message more, or none.
LEMMA HandlesNext ==
    ASSUME NEW t \in Seq(Marks), NEW x \in Marks, Lined(t),
           MAX_MESSAGE_LENGTH \in Nat \ {0},
           NEW S, NEW h \in Seq(S), Handles(h, t),
           NEW m \in S, m = Message(t, Len(t) + 1)
    PROVE  Handles(IF x = LF /\ m # << >> THEN Append(h, m) ELSE h, Append(t, x))
<1> DEFINE n == Len(t)
           u == Append(t, x)
           A == Messages(t)
           B == Messages(u)
<1>1. /\ n \in Nat /\ A \subseteq 1 .. n
      /\ B = A \cup IF x = LF /\ m # << >> THEN {n + 1} ELSE {}
  BY Longer, PlacesNext
<1>2. \A i \in 1 .. n + 1 : Message(u, i) = Message(t, i)
  BY MessageKept
<1>3. /\ Len(h) = Cardinality(A)
      /\ \A i \in A : h[Cardinality(Upto(A, i))] = Message(t, i)
  BY DEF Handles
<1> HIDE DEF n, u, A, B
<1>4. CASE ~(x = LF /\ m # << >>)
  <2>1. B = A
    BY <1>1, <1>4
  <2>2. \A i \in A : h[Cardinality(Upto(A, i))] = Message(u, i)
    BY <1>1, <1>2, <1>3
  <2>3. Handles(h, u)
    BY <1>3, <2>1, <2>2 DEF Handles, A, B
  <2> QED
    BY <1>4, <2>3 DEF u
<1>5. CASE x = LF /\ m # << >>
  <2>1. B = A \cup {n + 1}
    BY <1>1, <1>5
  <2>2. /\ IsFiniteSet(A) /\ Cardinality(A) \in Nat
        /\ Cardinality(B) = Cardinality(A) + 1
    BY <1>1, <2>1, CountNext
  <2> DEFINE g == Append(h, m)
  <2>3. /\ Len(g) = Len(h) + 1 /\ \A k \in 1 .. Len(h) : g[k] = h[k]
        /\ g[Len(h) + 1] = m
    BY AppendProperties
  <2> HIDE DEF g
  <2>4. ASSUME NEW i \in A
        PROVE  g[Cardinality(Upto(B, i))] = Message(u, i)
    <3>1. i \in 1 .. n
      BY <1>1
    <3>2. Upto(B, i) = Upto(A, i)
      BY <1>1, <2>1, <3>1 DEF Upto
    <3>3. Cardinality(Upto(A, i)) \in 1 .. Cardinality(A)
      <4>1. Upto(A, i) \in SUBSET A /\ i \in Upto(A, i)
        BY <3>1 DEF Upto
      <4>2. /\ IsFiniteSet(Upto(A, i))
            /\ Cardinality(Upto(A, i)) <= Cardinality(A)
        BY <2>2, <4>1, FS_Subset
      <4>3. Cardinality(Upto(A, i)) \in Nat /\ Cardinality(Upto(A, i)) # 0
        BY <4>1, <4>2, FS_EmptySet, FS_CardinalityType
      <4> QED
        BY <2>2, <4>2, <4>3
    <3> QED
      BY <1>1, <1>2, <1>3, <2>3, <3>1, <3>2, <3>3
  <2>5. g[Cardinality(Upto(B, n + 1))] = Message(u, n + 1)
    <3>1. Upto(B, n + 1) = B
      <4>1. \A j \in B : j <= n + 1
        BY <1>1, <2>1
      <4> QED
        BY <4>1 DEF Upto
    <3>2. Message(u, n + 1) = m
      BY <1>1, <1>2 DEF n
    <3> QED
      BY <1>3, <2>2, <2>3, <3>1, <3>2
  <2>6. \A i \in B : g[Cardinality(Upto(B, i))] = Message(u, i)
    BY <2>1, <2>4, <2>5
  <2>7. Len(g) = Cardinality(B)
    BY <1>3, <2>2, <2>3
  <2>8. Handles(g, u)
    BY <2>6, <2>7 DEF Handles, B
  <2> QED
    BY <1>5, <2>8 DEF u, g
<1> QED
  BY <1>4, <1>5

\* How many errors more.
LEMMA ErrorsNext ==
    ASSUME NEW t \in Seq(Marks), NEW x \in Marks, Lined(t),
           MAX_MESSAGE_LENGTH \in Nat \ {0}
    PROVE  LET u == Append(t, x)
               m == Message(t, Len(t) + 1)
               b == Before(t, Len(t) + 1) % MAX_MESSAGE_LENGTH
           IN  Cardinality(BadMessages(u)) + Cardinality(Overflows(u)) =
                  Cardinality(BadMessages(t)) + Cardinality(Overflows(t))
                  + IF \/ x = LF /\ m # << >> /\ m \notin Commands
                       \/ x # LF /\ b = MAX_MESSAGE_LENGTH - 1 THEN 1 ELSE 0
<1> DEFINE n == Len(t)
           u == Append(t, x)
           m == Message(t, n + 1)
           b == Before(t, n + 1) % MAX_MESSAGE_LENGTH
           bad == x = LF /\ m # << >> /\ m \notin Commands
           over == x # LF /\ b = MAX_MESSAGE_LENGTH - 1
<1>1. /\ n \in Nat /\ BadMessages(t) \subseteq 1 .. n /\ Overflows(t) \subseteq 1 .. n
      /\ BadMessages(u) = BadMessages(t) \cup IF bad THEN {n + 1} ELSE {}
      /\ Overflows(u) = Overflows(t) \cup IF over THEN {n + 1} ELSE {}
      /\ ~(bad /\ over)
  <2>1. BadMessages(t) \subseteq Messages(t)
    BY DEF BadMessages
  <2> QED
    BY <2>1, Longer, PlacesNext
<1> HIDE DEF n, u, m, b, bad, over
<1>2. /\ Cardinality(BadMessages(t)) \in Nat /\ Cardinality(Overflows(t)) \in Nat
      /\ Cardinality(BadMessages(t) \cup {n + 1}) = Cardinality(BadMessages(t)) + 1
      /\ Cardinality(Overflows(t) \cup {n + 1}) = Cardinality(Overflows(t)) + 1
  BY <1>1, CountNext
<1>3. Cardinality(BadMessages(u)) + Cardinality(Overflows(u)) =
         Cardinality(BadMessages(t)) + Cardinality(Overflows(t))
         + IF bad \/ over THEN 1 ELSE 0
  <2>1. CASE bad /\ ~over
    BY <1>1, <1>2, <2>1
  <2>2. CASE ~bad /\ over
    BY <1>1, <1>2, <2>2
  <2>3. CASE ~bad /\ ~over
    <3>1. BadMessages(u) = BadMessages(t) /\ Overflows(u) = Overflows(t)
      BY <1>1, <2>3
    <3> QED
      BY <1>2, <2>3, <3>1
  <2> QED
    BY <1>1, <2>1, <2>2, <2>3
<1> QED
  BY <1>3 DEF n, u, m, b, bad, over

\* The reader takes one more character.
LEMMA TakeMatches ==
    ASSUME NEW t, NEW r, Matches(r, t), NEW x \in Characters
    PROVE  /\ Matches(TakeChar(r, x), IF x = CR THEN t ELSE Append(t, x))
           /\ r.count \in Nat /\ TakeChar(r, x).count >= r.count
<1> DEFINE n == Len(t)
           u == Append(t, x)
           m == Message(t, n + 1)
           b == Before(t, n + 1) % MAX_MESSAGE_LENGTH
<1>1. /\ t \in Seq(Marks) /\ Lined(t) /\ r \in TakenType /\ r.line = m
      /\ Handles(r.handled, t) /\ n \in Nat
      /\ r.count = Cardinality(BadMessages(t)) + Cardinality(Overflows(t))
      /\ r.cut => r.count >= MAX_ERROR_COUNT
  BY DEF Matches
<1>2. /\ LF # CR /\ LF \notin Letters /\ CR \notin Letters
      /\ MAX_MESSAGE_LENGTH \in Nat \ {0, 1} /\ MAX_ERROR_COUNT \in Nat
  BY ReceiverAssumption
<1>3. /\ r.line \in Seq(Letters) /\ r.count \in Nat /\ r.cut \in BOOLEAN
      /\ r.handled \in Seq(Seq(Letters))
  BY <1>1 DEF TakenType
<1>4. CASE x = CR
  <2>1. TakeChar(r, x) = r
    BY <1>2, <1>4 DEF TakeChar
  <2> QED
    BY <1>3, <1>4, <2>1
<1>5. ASSUME x # CR
      PROVE  /\ x \in Marks /\ u \in Seq(Marks) /\ Lined(u) /\ Len(u) + 1 = n + 2
             /\ Message(u, n + 2) =
                   IF x = LF \/ b = MAX_MESSAGE_LENGTH - 1 THEN << >> ELSE Append(m, x)
             /\ Handles(IF x = LF /\ m # << >> THEN Append(r.handled, m) ELSE r.handled, u)
             /\ Cardinality(BadMessages(u)) + Cardinality(Overflows(u)) =
                   r.count + IF \/ x = LF /\ m # << >> /\ m \notin Commands
                                \/ x # LF /\ b = MAX_MESSAGE_LENGTH - 1 THEN 1 ELSE 0
  <2>1. x \in Marks
    BY <1>5 DEF Marks, Characters
  <2>2. u \in Seq(Marks) /\ Lined(u) /\ Len(u) = n + 1
    BY <1>1, <2>1, Longer, LinedNext
  <2>3. Message(u, n + 2) =
           IF x = LF \/ b = MAX_MESSAGE_LENGTH - 1 THEN << >> ELSE Append(m, x)
    BY <1>1, <1>2, <2>1, MessageNext
  <2>4. Handles(IF x = LF /\ m # << >> THEN Append(r.handled, m) ELSE r.handled, u)
    BY <1>1, <1>2, <1>3, <2>1, HandlesNext
  <2>5. Cardinality(BadMessages(u)) + Cardinality(Overflows(u)) =
           r.count + IF \/ x = LF /\ m # << >> /\ m \notin Commands
                        \/ x # LF /\ b = MAX_MESSAGE_LENGTH - 1 THEN 1 ELSE 0
    BY <1>1, <1>2, <2>1, ErrorsNext
  <2> QED
    BY <1>1, <2>1, <2>2, <2>3, <2>4, <2>5
<1>6. Len(r.line) = b /\ Before(t, n + 1) \in Nat
  <2>1. n + 1 \in 1 .. n + 1
    BY <1>1
  <2> QED
    BY <1>1, <1>2, <2>1, MessageLength DEF Lined
<1> HIDE DEF n, u, m, b
<1>7. CASE x = LF
  <2>1. PICK q : q = TakeChar(r, x)
    OBVIOUS
  <2>2. q = EndLine(r) /\ x # CR
    BY <1>2, <1>7, <2>1 DEF TakeChar
  <2>3. PICK e \in Seq(Letters) : e = << >>
    BY EmptySeq, Zenon
  <2>4. PICK l \in Seq(Letters), c \in Nat, h \in Seq(Seq(Letters)), d \in BOOLEAN :
           /\ r = Taken(l, c, h, d) /\ l = m
           /\ c = r.count /\ h = r.handled /\ d = r.cut
           /\ d => c >= MAX_ERROR_COUNT
    BY <1>1, Fields
  <2>5. l = m /\ c = r.count /\ h = r.handled
    BY <2>4, Zenon
  <2>6. d => c >= MAX_ERROR_COUNT
    BY <2>4, Zenon
  <2>7. PICK g \in Seq(Seq(Letters)) : g = IF m # << >> THEN Append(h, m) ELSE h
    BY <2>4, AppendProperties
  <2>8. /\ q \in TakenType /\ q.line = e
        /\ q.handled = IF m # << >> THEN Append(r.handled, m) ELSE r.handled
        /\ q.count = r.count + IF m # << >> /\ m \notin Commands THEN 1 ELSE 0
        /\ q.cut => q.count >= MAX_ERROR_COUNT
    <3>1. CASE m = << >> \/ m \in Commands
      <4>1. q = Taken(e, c, g, d)
        BY <2>2, <2>3, <2>4, <2>7, <3>1, Ended
      <4>2. q \in TakenType
        BY <4>1, TakenTyped
      <4>3. q.line = e /\ q.count = c /\ q.handled = g /\ q.cut = d
        BY <4>1, TakenFields
      <4>4. q.handled = IF m # << >> THEN Append(r.handled, m) ELSE r.handled
        BY <2>5, <2>7, <4>3
      <4>5. q.count = r.count + IF m # << >> /\ m \notin Commands THEN 1 ELSE 0
        BY <1>3, <2>5, <3>1, <4>3
      <4>6. q.cut => q.count >= MAX_ERROR_COUNT
        BY <2>6, <4>3, Zenon
      <4> QED
        BY <4>2, <4>3, <4>4, <4>5, <4>6, Zenon
    <3>2. CASE m # << >> /\ m \notin Commands
      <4>1. PICK f \in BOOLEAN : f = (d \/ c + 1 >= MAX_ERROR_COUNT)
        OBVIOUS
      <4>2. q = Taken(e, c + 1, g, f)
        BY <2>2, <2>3, <2>4, <2>7, <3>2, <4>1, Ended
      <4>3. q \in TakenType
        BY <4>2, TakenTyped
      <4>4. q.line = e /\ q.count = c + 1 /\ q.handled = g /\ q.cut = f
        BY <4>2, TakenFields
      <4>5. q.handled = IF m # << >> THEN Append(r.handled, m) ELSE r.handled
        BY <2>5, <2>7, <4>4
      <4>6. q.count = r.count + IF m # << >> /\ m \notin Commands THEN 1 ELSE 0
        BY <1>3, <2>5, <3>2, <4>4
      <4>7. q.cut => q.count >= MAX_ERROR_COUNT
        <5>1. d => c + 1 >= MAX_ERROR_COUNT
          BY <1>2, <2>6
        <5> QED
          BY <4>1, <4>4, <5>1, Zenon
      <4> QED
        BY <4>3, <4>4, <4>5, <4>6, <4>7, Zenon
    <3> QED
      BY <3>1, <3>2
  <2>9. Matches(q, u)
    BY <1>5, <1>7, <2>2, <2>3, <2>8 DEF Matches
  <2> QED
    BY <1>3, <2>1, <2>2, <2>8, <2>9 DEF u
<1>8. CASE x # LF /\ x # CR
  <2>1. PICK q : q = TakeChar(r, x)
    OBVIOUS
  <2>2. x \in Letters /\ q = TakeLetter(r, x)
    BY <1>2, <1>8, <2>1 DEF TakeChar, Characters
  <2>3. PICK e \in Seq(Letters) : e = << >>
    BY EmptySeq, Zenon
  <2>4. PICK l \in Seq(Letters), c \in Nat, h \in Seq(Seq(Letters)), d \in BOOLEAN :
           /\ r = Taken(l, c, h, d) /\ l = m /\ Len(l) = b
           /\ c = r.count /\ h = r.handled /\ d = r.cut
           /\ d => c >= MAX_ERROR_COUNT
    BY <1>1, <1>6, Fields
  <2>5. l = m /\ c = r.count /\ h = r.handled
    BY <2>4, Zenon
  <2>6. d => c >= MAX_ERROR_COUNT
    BY <2>4, Zenon
  <2>7. b \in Nat /\ b <= MAX_MESSAGE_LENGTH - 1
    <3>1. PICK k \in Nat : k = Before(t, n + 1)
      BY <1>6
    <3>2. PICK j \in Nat \ {0} : j = MAX_MESSAGE_LENGTH
      BY <1>2
    <3>3. k % j \in Nat /\ k % j <= j - 1
      BY NextRemainder
    <3> QED
      BY <3>1, <3>2, <3>3, Zenon DEF b
  <2>8. /\ q \in TakenType
        /\ q.line = IF b = MAX_MESSAGE_LENGTH - 1 THEN e ELSE Append(m, x)
        /\ q.handled = r.handled
        /\ q.count = r.count + IF b = MAX_MESSAGE_LENGTH - 1 THEN 1 ELSE 0
        /\ q.cut => q.count >= MAX_ERROR_COUNT
    <3>1. CASE b = MAX_MESSAGE_LENGTH - 1
      <4>1. q = Taken(e, c + 1, h, d)
        BY <1>2, <2>2, <2>3, <2>4, <3>1, Lettered
      <4>2. q \in TakenType
        BY <4>1, TakenTyped
      <4>3. q.line = e /\ q.count = c + 1 /\ q.handled = h /\ q.cut = d
        BY <4>1, TakenFields
      <4>4. q.line = IF b = MAX_MESSAGE_LENGTH - 1 THEN e ELSE Append(m, x)
        BY <3>1, <4>3
      <4>5. q.count = r.count + IF b = MAX_MESSAGE_LENGTH - 1 THEN 1 ELSE 0
        BY <1>3, <2>5, <3>1, <4>3
      <4>6. q.cut => q.count >= MAX_ERROR_COUNT
        <5>1. d => c + 1 >= MAX_ERROR_COUNT
          BY <1>2, <2>6
        <5> QED
          BY <4>3, <5>1, Zenon
      <4> QED
        BY <2>5, <4>2, <4>3, <4>4, <4>5, <4>6, Zenon
    <3>2. CASE b # MAX_MESSAGE_LENGTH - 1
      <4>1. PICK k \in Seq(Letters) : k = Append(l, x)
        BY <2>2, AppendProperties
      <4>2. q = Taken(k, c, h, d)
        BY <1>2, <2>2, <2>4, <2>7, <3>2, <4>1, Lettered
      <4>3. q \in TakenType
        BY <4>2, TakenTyped
      <4>4. q.line = k /\ q.count = c /\ q.handled = h /\ q.cut = d
        BY <4>2, TakenFields
      <4>5. q.line = IF b = MAX_MESSAGE_LENGTH - 1 THEN e ELSE Append(m, x)
        BY <2>5, <3>2, <4>1, <4>4
      <4>6. q.count = r.count + IF b = MAX_MESSAGE_LENGTH - 1 THEN 1 ELSE 0
        BY <1>3, <2>5, <3>2, <4>4
      <4>7. q.cut => q.count >= MAX_ERROR_COUNT
        BY <2>6, <4>4, Zenon
      <4> QED
        BY <2>5, <4>3, <4>4, <4>5, <4>6, <4>7, Zenon
    <3> QED
      BY <3>1, <3>2
  <2>9. Matches(q, u)
    BY <1>5, <1>8, <2>3, <2>8 DEF Matches
  <2> QED
    BY <1>2, <1>3, <1>8, <2>1, <2>8, <2>9 DEF u
<1> QED
  BY <1>4, <1>7, <1>8

-----------------------------------------------------------------------------
(* What one recv() returns.                                                *)

\* f is the reader after each number of characters of a chunk, up to n.
Pieces(f, r, chunk, n) ==
    f = [i \in 0 .. n |-> IF i = 0 THEN Open(r) ELSE TakeChar(f[i - 1], chunk[i])]

LEMMA AssembleUnfold ==
    \A r, chunk : Assemble(r, chunk) =
        (CHOOSE f : Pieces(f, r, chunk, Len(chunk)))[Len(chunk)]
BY DEF Assemble, Pieces

LEMMA PiecesExist ==
    ASSUME NEW r, NEW chunk, NEW n \in Nat
    PROVE  \E f : Pieces(f, r, chunk, n)
<1> DEFINE S == {m \in 0 .. n : \E f : Pieces(f, r, chunk, m)}
<1>1. 0 \in S
  <2> DEFINE f == [i \in 0 .. 0 |-> Open(r)]
  <2>1. Pieces(f, r, chunk, 0)
    BY DEF Pieces
  <2> QED
    BY <2>1
<1>2. ASSUME NEW m \in 0 .. n - 1, m \in S PROVE m + 1 \in S
  <2>1. PICK f : Pieces(f, r, chunk, m)
    BY <1>2
  <2> DEFINE h == [i \in 0 .. m + 1 |-> IF i = m + 1 THEN TakeChar(f[m], chunk[m + 1])
                                        ELSE f[i]]
  <2>2. ASSUME NEW i \in 0 .. m + 1
        PROVE  h[i] = IF i = 0 THEN Open(r) ELSE TakeChar(h[i - 1], chunk[i])
    <3>1. CASE i = m + 1
      BY <3>1
    <3>2. CASE i # m + 1
      <4>1. i \in 0 .. m /\ (i # 0 => i - 1 \in 0 .. m)
        BY <3>2
      <4>2. f[i] = IF i = 0 THEN Open(r) ELSE TakeChar(f[i - 1], chunk[i])
        BY <2>1, <4>1 DEF Pieces
      <4>3. h[i] = f[i] /\ (i # 0 => h[i - 1] = f[i - 1])
        BY <4>1
      <4> QED
        BY <4>2, <4>3
    <3> QED
      BY <3>1, <3>2
  <2>3. Pieces(h, r, chunk, m + 1)
    <3>1. h = [i \in 0 .. m + 1 |-> h[i]]
      OBVIOUS
    <3> HIDE DEF h
    <3> QED
      BY <2>2, <3>1 DEF Pieces
  <2> QED
    BY <2>3
<1>3. \A m \in 0 .. n : m \in S
  <2> HIDE DEF S
  <2> QED
    BY <1>1, <1>2, UpTo
<1> QED
  BY <1>3

\* Wherever a chunk is cut, the reader is that of all characters so far.
LEMMA AssembleMatches ==
    ASSUME NEW r, NEW s \in Seq(Characters), NEW chunk \in Seq(Characters),
           Matches(Open(r), Text(s))
    PROVE  /\ Matches(Assemble(r, chunk), Text(s \o chunk))
           /\ Open(r).count \in Nat
           /\ Assemble(r, chunk).count >= Open(r).count
<1>1. PICK u \in Seq(Characters) : u = s \o chunk
  BY ConcatProperties
<1>2. PICK k \in Nat, n \in Nat : k = Len(s) /\ n = Len(chunk)
  OBVIOUS
<1>3. /\ Len(u) = k + n
      /\ \A i \in 1 .. k : s[i] = u[i]
      /\ \A i \in 1 .. n : chunk[i] = u[k + i] /\ chunk[i] \in Characters
  BY <1>1, <1>2
<1>4. PICK g : Texts(g, u, k + n)
  <2>1. k + n \in Nat
    OBVIOUS
  <2> QED
    BY <2>1, TextsExist
<1>5. Text(s) = g[k]
  <2>1. k <= k + n
    OBVIOUS
  <2> QED
    BY <1>2, <1>3, <1>4, <2>1, TextOfPrefix
<1>6. Text(u) = g[k + n]
  <2>1. k + n <= k + n
    OBVIOUS
  <2> QED
    BY <1>3, <1>4, <2>1, TextOfPrefix
<1>7. PICK f : f = (CHOOSE h : Pieces(h, r, chunk, n))
  OBVIOUS
<1>8. Pieces(f, r, chunk, n)
  BY <1>7, PiecesExist
<1>9. Assemble(r, chunk) = f[n]
  BY <1>2, <1>7, AssembleUnfold
<1>10. Open(r).count \in Nat
  BY DEF Matches, TakenType
<1> DEFINE S == {m \in 0 .. n : /\ Matches(f[m], g[k + m])
                                /\ f[m].count \in Nat /\ f[m].count >= Open(r).count}
<1>11. 0 \in S
  <2>1. f[0] = Open(r)
    BY <1>8 DEF Pieces
  <2>2. k + 0 = k
    OBVIOUS
  <2> QED
    BY <1>5, <1>10, <2>1, <2>2
<1>12. ASSUME NEW m \in 0 .. n - 1, m \in S PROVE m + 1 \in S
  <2>1. PICK a \in 0 .. n : a = m + 1
    OBVIOUS
  <2>2. a # 0 /\ a - 1 = m /\ a \in 1 .. n
    BY <2>1
  <2>3. PICK b \in 0 .. k + n : b = k + a
    OBVIOUS
  <2>4. b # 0 /\ b - 1 = k + m
    BY <2>1, <2>2, <2>3
  <2>5. f[a] = TakeChar(f[m], chunk[a])
    BY <1>8, <2>2 DEF Pieces
  <2>6. g[b] = IF u[b] = CR THEN g[k + m] ELSE Append(g[k + m], u[b])
    BY <1>4, <2>4 DEF Texts
  <2>7. u[b] = chunk[a] /\ chunk[a] \in Characters
    BY <1>3, <2>2, <2>3
  <2>8. Matches(f[m], g[k + m]) /\ f[m].count \in Nat /\ f[m].count >= Open(r).count
    BY <1>12
  <2>9. Matches(f[a], g[b]) /\ f[a].count >= f[m].count
    BY <2>5, <2>6, <2>7, <2>8, TakeMatches
  <2>10. f[a].count \in Nat
    BY <2>9 DEF Matches, TakenType
  <2>11. f[a].count >= Open(r).count
    BY <1>10, <2>8, <2>9, <2>10
  <2> QED
    BY <2>1, <2>3, <2>9, <2>10, <2>11
<1>13. \A m \in 0 .. n : m \in S
  <2> HIDE DEF S
  <2> QED
    BY <1>11, <1>12, UpTo
<1>14. n \in S
  BY <1>13
<1> QED
  BY <1>1, <1>6, <1>9, <1>10, <1>14

-----------------------------------------------------------------------------
(* The readers of all handlers.                                            *)

LEMMA LineFits ==
    ASSUME NEW r, NEW t, Matches(r, t)
    PROVE  Len(r.line) <= MAX_MESSAGE_LENGTH - 1
<1>1. /\ t \in Seq(Marks) /\ Lined(t) /\ r.line = Message(t, Len(t) + 1)
      /\ MAX_MESSAGE_LENGTH \in Nat \ {0}
  BY ReceiverAssumption DEF Matches
<1>2. Len(t) \in Nat /\ Len(t) + 1 \in 1 .. Len(t) + 1
  BY <1>1
<1>3. PICK b : b = Before(t, Len(t) + 1)
  OBVIOUS
<1>4. Len(r.line) = b % MAX_MESSAGE_LENGTH
  BY <1>1, <1>2, <1>3, MessageLength
<1>5. b \in Nat
  BY <1>1, <1>2, <1>3 DEF Lined
<1>6. b % MAX_MESSAGE_LENGTH \in 0 .. MAX_MESSAGE_LENGTH - 1
  BY <1>1, <1>5, NextRemainder
<1> QED
  BY <1>1, <1>4, <1>6

\* The reader a handler keeps of one that took characters in.
Kept(r) == [line |-> r.line, count |-> r.count, handled |-> r.handled]

LEMMA KeptMatches ==
    ASSUME NEW r, NEW t, Matches(r, t)
    PROVE  /\ Matches(Open(Kept(r)), t)
           /\ Kept(r) \in ReaderType
           /\ Kept(r).count = r.count
           /\ Len(Kept(r).line) <= MAX_MESSAGE_LENGTH - 1
<1>1. PICK l \in Seq(Letters), c \in Nat, h \in Seq(Seq(Letters)) :
         l = r.line /\ c = r.count /\ h = r.handled
  BY Fields DEF Matches
<1>2. Kept(r) = [line |-> l, count |-> c, handled |-> h]
  BY <1>1 DEF Kept
<1>3. /\ Kept(r) \in ReaderType /\ Kept(r).line = l /\ Kept(r).count = c
      /\ Kept(r).handled = h
  BY <1>2 DEF ReaderType
<1>4. PICK d \in BOOLEAN : d = FALSE
  OBVIOUS
<1>4a. PICK q : q = Taken(l, c, h, d)
  OBVIOUS
<1>5. Open(Kept(r)) = q
  BY <1>3, <1>4, <1>4a DEF Open, Taken
<1>6. q \in TakenType
  BY <1>4a, TakenTyped
<1>7. q.line = r.line /\ q.count = r.count /\ q.handled = r.handled /\ ~q.cut
  BY <1>1, <1>4, <1>4a, TakenFields
<1>8. Matches(q, t)
  BY <1>6, <1>7 DEF Matches
<1> QED
  BY <1>1, <1>3, <1>5, <1>8, LineFits

\* Every reader is that of the characters its handler has received.
Assembled == \A c \in Clients : Matches(Open(reader[c]), Text(got[c]))

RecvInv == TypeOK /\ Assembled

LEMMA OpenCount == \A r : Open(r).count = r.count
BY DEF Open

LEMMA ReaderAfter ==
    ASSUME NEW r, NEW s \in Seq(Characters), NEW chunk \in Seq(Characters),
           Matches(Open(r), Text(s)), NEW q, q = Assemble(r, chunk)
    PROVE  /\ Matches(Open(Kept(q)), Text(s \o chunk))
           /\ Kept(q) \in ReaderType /\ Len(Kept(q).line) <= MAX_MESSAGE_LENGTH - 1
           /\ r.count \in Nat /\ Kept(q).count \in Nat /\ Kept(q).count >= r.count
           /\ q.cut => Kept(q).count >= MAX_ERROR_COUNT
           /\ s \o chunk \in Seq(Characters)
<1>1. Matches(q, Text(s \o chunk)) /\ r.count \in Nat /\ q.count >= r.count
  BY AssembleMatches, OpenCount
<1>2. /\ Matches(Open(Kept(q)), Text(s \o chunk)) /\ Kept(q) \in ReaderType
      /\ Kept(q).count = q.count /\ Len(Kept(q).line) <= MAX_MESSAGE_LENGTH - 1
  BY <1>1, KeptMatches
<1>3. q.count \in Nat /\ (q.cut => q.count >= MAX_ERROR_COUNT)
  BY <1>1 DEF Matches, TakenType
<1>4. s \o chunk \in Seq(Characters)
  BY ConcatProperties
<1> QED
  BY <1>1, <1>2, <1>3, <1>4

LEMMA InitMatches ==
    ASSUME NEW r, r = [line |-> << >>, count |-> 0, handled |-> << >>],
           NEW s \in Seq(Characters), Len(s) = 0
    PROVE  /\ Matches(Open(r), Text(s))
           /\ r \in ReaderType /\ Len(r.line) <= MAX_MESSAGE_LENGTH - 1
<1>1. PICK t \in Seq(Marks) : t = << >>
  BY EmptySeq, Zenon
<1>2. Text(s) = t /\ Len(t) = 0 /\ DOMAIN t = {}
  <2>1. Text(s) = t
    BY <1>1, TextEmpty
  <2>2. Len(t) = 0
    BY <1>1
  <2>3. DOMAIN t = 1 .. 0
    BY <2>2, LenProperties
  <2> QED
    BY <2>1, <2>2, <2>3
<1>3. Starts(t, 1) = {0} /\ Ends(t) = {}
  BY <1>2 DEF Starts, Ends
<1>4. Before(t, 1) = 0
  <2>1. PICK S, z : S = {0} /\ z \in S /\ z = 0 /\ S \subseteq Int
    OBVIOUS
  <2>2. Max(S) = z
    <3>1. \A j \in S : j <= z
      BY <2>1
    <3> QED
      BY <2>1, <3>1, MaxOfAll
  <2>3. PICK i \in Int : i = 1
    OBVIOUS
  <2>4. Before(t, i) = i - 1 - Max(Starts(t, i))
    BY BeforeIs
  <2>5. Starts(t, i) = S
    BY <1>3, <2>1, <2>3, Zenon
  <2>6. Before(t, i) = i - 1 - z
    BY <2>2, <2>4, <2>5, Zenon
  <2> QED
    BY <2>1, <2>3, <2>6
<1>5. Lined(t)
  BY <1>2, <1>4 DEF Lined
<1>6. Messages(t) = {} /\ Overflows(t) = {} /\ BadMessages(t) = {}
  BY <1>2, <1>3 DEF Messages, Overflows, BadMessages
<1>7. Cardinality(Messages(t)) = 0 /\ Cardinality(Overflows(t)) = 0
      /\ Cardinality(BadMessages(t)) = 0
  BY <1>6, FS_EmptySet
<1>8. Message(t, 1) = << >>
  <2>1. /\ Message(t, 1) \in Seq(Marks)
        /\ Len(Message(t, 1)) = Before(t, 1) % MAX_MESSAGE_LENGTH
    <3>1. PICK i \in 1 .. Len(t) + 1 : i = 1
      BY <1>2
    <3>2. MAX_MESSAGE_LENGTH \in Nat \ {0}
      BY ReceiverAssumption
    <3> QED
      BY <1>5, <3>1, <3>2, MessageLength
  <2>2. 0 % MAX_MESSAGE_LENGTH = 0
    BY ReceiverAssumption
  <2> QED
    BY <1>4, <2>1, <2>2, EmptySeq
<1>9. PICK l \in Seq(Letters), h \in Seq(Seq(Letters)) : l = << >> /\ h = << >>
  BY EmptySeq, Zenon
<1>10. PICK z \in Nat : z = 0
  OBVIOUS
<1>11. PICK d \in BOOLEAN : d = FALSE
  OBVIOUS
<1>12. r = [line |-> l, count |-> z, handled |-> h]
  BY <1>9, <1>10, Zenon
<1>13. PICK q : q = Taken(l, z, h, d)
  OBVIOUS
<1>14. q \in TakenType
  BY <1>13, TakenTyped
<1>15. q.line = l /\ q.count = z /\ q.handled = h /\ q.cut = d
  BY <1>13, TakenFields
<1>16. r.line = l /\ r.count = z /\ r.handled = h /\ r \in ReaderType
  BY <1>12 DEF ReaderType
<1>17. Open(r) = q
  BY <1>13, <1>16, <1>11 DEF Open, Taken
<1>18. Handles(h, t)
  BY <1>6, <1>7, <1>9 DEF Handles
<1>19. Matches(q, t)
  <2>1. q.line = Message(t, Len(t) + 1)
    BY <1>2, <1>8, <1>9, <1>15
  <2>2. q.count = Cardinality(BadMessages(t)) + Cardinality(Overflows(t))
    BY <1>7, <1>10, <1>15
  <2>3. ~q.cut
    BY <1>15, <1>11
  <2> QED
    BY <1>5, <1>14, <1>15, <1>18, <2>1, <2>2, <2>3 DEF Matches
<1>20. Len(r.line) <= MAX_MESSAGE_LENGTH - 1
  <2>1. Len(l) = 0
    BY <1>9
  <2> QED
    BY <1>16, <2>1, ReceiverAssumption
<1> QED
  BY <1>2, <1>19, <1>16, <1>17, <1>20

-----------------------------------------------------------------------------
(* The invariant.                                                          *)

LEMMA InitInv == Init => RecvInv
<1> SUFFICES ASSUME Init PROVE RecvInv
  OBVIOUS
<1>1. Min(Descriptors) \in Descriptors
  BY ReceiverAssumption, MinIn
<1>2. PICK r : r = [line |-> << >>, count |-> 0, handled |-> << >>]
  OBVIOUS
<1>3. PICK s \in Seq(Characters) : s = << >>
  BY EmptySeq, Zenon
<1>4. /\ reader = [c \in Clients |-> r] /\ got = [c \in Clients |-> s]
      /\ thread = [c \in Clients |-> "none"] /\ gone = {}
      /\ files = [f \in Descriptors |-> NULL] /\ fd \in [Clients -> {Min(Descriptors)}]
  BY <1>2, <1>3, Zenon DEF Init
<1>5. /\ Matches(Open(r), Text(s)) /\ r \in ReaderType
      /\ Len(r.line) <= MAX_MESSAGE_LENGTH - 1
  <2>1. Len(s) = 0
    BY <1>3
  <2> QED
    BY <1>2, <2>1, InitMatches
<1>6. TypeOK
  BY <1>1, <1>4, <1>5 DEF TypeOK
<1>7. Assembled
  BY <1>4, <1>5 DEF Assembled
<1> QED
  BY <1>6, <1>7 DEF RecvInv

\* The characters of one recv(), and the reader and the files after them.
LEMMA RecvStep ==
    ASSUME RecvInv, NEW c \in Clients, Recv(c)
    PROVE  \E q, s, z :
              /\ reader' = [reader EXCEPT ![c] = z] /\ got' = [got EXCEPT ![c] = s]
              /\ files' = IF q.cut THEN Closed(fd[c]) ELSE files
              /\ thread' = thread /\ fd' = fd /\ gone' = gone
              /\ Matches(Open(z), Text(s)) /\ s \in Seq(Characters)
              /\ z \in ReaderType /\ Len(z.line) <= MAX_MESSAGE_LENGTH - 1
              /\ reader[c].count \in Nat /\ z.count \in Nat /\ z.count >= reader[c].count
              /\ q.cut => z.count >= MAX_ERROR_COUNT
<1>1. PICK n \in 1 .. MaxChunk : \E chunk \in [1 .. n -> Characters] :
         /\ reader' = [reader EXCEPT ![c] = Kept(Assemble(reader[c], chunk))]
         /\ got' = [got EXCEPT ![c] = got[c] \o chunk]
         /\ files' = IF Assemble(reader[c], chunk).cut THEN Closed(fd[c]) ELSE files
         /\ thread' = thread /\ fd' = fd /\ gone' = gone
  BY DEF Recv, Kept
<1>2. PICK chunk \in [1 .. n -> Characters] :
         /\ reader' = [reader EXCEPT ![c] = Kept(Assemble(reader[c], chunk))]
         /\ got' = [got EXCEPT ![c] = got[c] \o chunk]
         /\ files' = IF Assemble(reader[c], chunk).cut THEN Closed(fd[c]) ELSE files
         /\ thread' = thread /\ fd' = fd /\ gone' = gone
  BY <1>1
<1>3. chunk \in Seq(Characters)
  <2>1. n \in Nat
    BY ReceiverAssumption
  <2> QED
    BY <2>1, SeqDef
<1>4. PICK q : q = Assemble(reader[c], chunk)
  OBVIOUS
<1>5. got[c] \in Seq(Characters) /\ Matches(Open(reader[c]), Text(got[c]))
  BY DEF RecvInv, TypeOK, Assembled
<1>6. /\ Matches(Open(Kept(q)), Text(got[c] \o chunk))
      /\ Kept(q) \in ReaderType /\ Len(Kept(q).line) <= MAX_MESSAGE_LENGTH - 1
      /\ reader[c].count \in Nat /\ Kept(q).count \in Nat
      /\ Kept(q).count >= reader[c].count
      /\ q.cut => Kept(q).count >= MAX_ERROR_COUNT
      /\ got[c] \o chunk \in Seq(Characters)
  BY <1>3, <1>4, <1>5, ReaderAfter
<1>7. PICK z, s : z = Kept(q) /\ s = got[c] \o chunk
  OBVIOUS
<1> QED
  BY <1>2, <1>4, <1>6, <1>7, Zenon

\* A descriptor that is free is taken, one that is open is closed.
LEMMA FilesTyped ==
    ASSUME TypeOK
    PROVE  /\ Free # {} => Min(Free) \in Free /\ Min(Free) \in Descriptors
           /\ \A f : Closed(f) \in [Descriptors -> Clients \cup {NULL}]
<1>1. Free \subseteq Nat /\ Free \subseteq Descriptors
  BY ReceiverAssumption DEF Free
<1> QED
  BY <1>1, MinIn DEF TypeOK, Closed

LEMMA NextInv == RecvInv /\ [Next]_vars => RecvInv'
<1> SUFFICES ASSUME RecvInv, [Next]_vars PROVE RecvInv'
  OBVIOUS
<1>1. TypeOK /\ Assembled
  BY DEF RecvInv
<1>2. CASE UNCHANGED vars
  BY <1>1, <1>2 DEF vars, RecvInv, TypeOK, Assembled
<1>3. ASSUME NEW c \in Clients, Accept(c) PROVE RecvInv'
  BY <1>1, <1>3, FilesTyped DEF Accept, RecvInv, TypeOK, Assembled
<1>4. ASSUME NEW c \in Clients, Recv(c) PROVE RecvInv'
  <2>1. PICK q, s, z :
              /\ reader' = [reader EXCEPT ![c] = z] /\ got' = [got EXCEPT ![c] = s]
              /\ files' = IF q.cut THEN Closed(fd[c]) ELSE files
              /\ thread' = thread /\ fd' = fd /\ gone' = gone
              /\ Matches(Open(z), Text(s)) /\ s \in Seq(Characters)
              /\ z \in ReaderType /\ Len(z.line) <= MAX_MESSAGE_LENGTH - 1
    BY <1>4, RecvStep
  <2>2. files' \in [Descriptors -> Clients \cup {NULL}]
    BY <1>1, <2>1, FilesTyped DEF TypeOK
  <2>3. TypeOK'
    BY <1>1, <2>1, <2>2 DEF TypeOK
  <2>4. Assembled'
    BY <1>1, <2>1 DEF TypeOK, Assembled
  <2> QED
    BY <2>3, <2>4 DEF RecvInv
<1>5. ASSUME NEW c \in Clients, Leave(c) PROVE RecvInv'
  BY <1>1, <1>5 DEF Leave, RecvInv, TypeOK, Assembled
<1>6. ASSUME NEW c \in Clients, RecvFails(c) PROVE RecvInv'
  BY <1>1, <1>6 DEF RecvFails, RecvInv, TypeOK, Assembled
<1>7. ASSUME NEW c \in Clients, Close(c) PROVE RecvInv'
  BY <1>1, <1>7, FilesTyped DEF Close, RecvInv, TypeOK, Assembled
<1>8. ASSUME NEW c \in Clients, Keep(c) PROVE RecvInv'
  BY <1>1, <1>8 DEF Keep, RecvInv, TypeOK, Assembled
<1> QED
  BY <1>2, <1>3, <1>4, <1>5, <1>6, <1>7, <1>8 DEF Next

THEOREM RecvInvariant == Spec => []RecvInv
  BY InitInv, NextInv, PTL DEF Spec

LEMMA DescriptorsNext ==
    RecvInv /\ DescriptorsApart /\ [Next]_vars => DescriptorsApart'
<1> SUFFICES ASSUME RecvInv, DescriptorsApart, [Next]_vars,
                    \A c \in Clients : reader'[c].count < MAX_ERROR_COUNT,
                    NEW d \in Clients, thread'[d] \in {"reading", "closing"}
             PROVE  files'[fd'[d]] = d
  BY Zenon DEF DescriptorsApart
<1>1. TypeOK
  BY DEF RecvInv
<1>2. ASSUME reader' = reader
      PROVE  \A c \in Clients : thread[c] \in {"reading", "closing"} => files[fd[c]] = c
  BY <1>2, Zenon DEF DescriptorsApart
<1>3. CASE UNCHANGED vars
  BY <1>3, <1>2 DEF vars
<1>4. ASSUME NEW c \in Clients, Accept(c) PROVE files'[fd'[d]] = d
  <2>1. /\ Min(Free) \in Descriptors /\ files[Min(Free)] = NULL
        /\ thread' = [thread EXCEPT ![c] = "reading"]
        /\ fd' = [fd EXCEPT ![c] = Min(Free)] /\ files' = [files EXCEPT ![Min(Free)] = c]
    BY <1>1, <1>4, FilesTyped DEF Accept, Free
  <2>2. CASE d = c
    BY <1>1, <2>1, <2>2 DEF TypeOK
  <2>3. CASE d # c
    <3>1. files[fd[d]] = d
      BY <1>1, <1>4, <1>2, <2>1, <2>3 DEF Accept, TypeOK
    <3>2. fd[d] # Min(Free)
      BY <2>1, <3>1, ReceiverAssumption
    <3> QED
      BY <1>1, <2>1, <2>3, <3>1, <3>2 DEF TypeOK
  <2> QED
    BY <2>2, <2>3
<1>5. ASSUME NEW c \in Clients, Recv(c) PROVE files'[fd'[d]] = d
  <2>1. PICK q, s, z :
              /\ reader' = [reader EXCEPT ![c] = z]
              /\ files' = IF q.cut THEN Closed(fd[c]) ELSE files
              /\ thread' = thread /\ fd' = fd
              /\ reader[c].count \in Nat /\ z.count \in Nat /\ z.count >= reader[c].count
              /\ q.cut => z.count >= MAX_ERROR_COUNT
    BY <1>5, RecvStep
  <2>2. reader'[c] = z /\ \A e \in Clients \ {c} : reader'[e] = reader[e]
    BY <1>1, <2>1 DEF TypeOK
  <2>3. z.count < MAX_ERROR_COUNT
    BY <2>2
  <2>4. reader[c].count < MAX_ERROR_COUNT
    BY <2>1, <2>3, ReceiverAssumption
  <2>5. \A e \in Clients : reader[e].count < MAX_ERROR_COUNT
    BY <2>2, <2>4
  <2>6. ~(z.count >= MAX_ERROR_COUNT)
    BY <2>1, <2>3, ReceiverAssumption
  <2>7. files' = files
    BY <2>1, <2>6, Zenon
  <2> QED
    BY <2>1, <2>5, <2>7 DEF DescriptorsApart
<1>6. ASSUME NEW c \in Clients, Leave(c) PROVE files'[fd'[d]] = d
  BY <1>6, <1>2 DEF Leave
<1>7. ASSUME NEW c \in Clients, RecvFails(c) PROVE files'[fd'[d]] = d
  BY <1>1, <1>7, <1>2 DEF RecvFails, TypeOK
<1>8. ASSUME NEW c \in Clients, Close(c) PROVE files'[fd'[d]] = d
  <2>1. d # c /\ thread[d] \in {"reading", "closing"} /\ thread[c] = "closing"
    BY <1>1, <1>8 DEF Close, TypeOK
  <2>2. files[fd[d]] = d /\ files[fd[c]] = c
    BY <1>8, <1>2, <2>1 DEF Close
  <2> QED
    BY <1>1, <1>8, <2>1, <2>2 DEF Close, Closed, TypeOK
<1>9. ASSUME NEW c \in Clients, Keep(c) PROVE files'[fd'[d]] = d
  BY <1>1, <1>9, <1>2 DEF Keep, TypeOK
<1> QED
  BY <1>3, <1>4, <1>5, <1>6, <1>7, <1>8, <1>9 DEF Next

-----------------------------------------------------------------------------
(* The theorems.                                                           *)

\* Whatever peers send and however it is cut, no line outgrows line_buffer.
THEOREM ReceiverTypeCorrect == Spec => []TypeOK
<1>1. RecvInv => TypeOK
  BY DEF RecvInv
<1> QED
  BY <1>1, RecvInvariant, PTL

\* What a handler has handled are the messages of all it has received: where
\* recv() cuts the characters makes no difference, and none is lost, repeated
\* or put out of its order.
THEOREM AlwaysHandledAsReceived == Spec => []HandledAsReceived
<1>1. RecvInv => HandledAsReceived
  <2> SUFFICES ASSUME RecvInv, NEW c \in Clients
               PROVE  /\ Handles(reader[c].handled, Text(got[c]))
                      /\ reader[c].line = Message(Text(got[c]), Len(Text(got[c])) + 1)
    BY Zenon DEF HandledAsReceived, Handles
  <2>1. Matches(Open(reader[c]), Text(got[c]))
    BY DEF RecvInv, Assembled
  <2>2. /\ Open(reader[c]).handled = reader[c].handled
        /\ Open(reader[c]).line = reader[c].line
    BY DEF Open
  <2> QED
    BY <2>1, <2>2, Zenon DEF Matches
<1> QED
  BY <1>1, RecvInvariant, PTL

\* Each message that is an error has counted once, and each overflow.
THEOREM AlwaysCountedAsReceived == Spec => []CountedAsReceived
<1>1. RecvInv => CountedAsReceived
  <2> SUFFICES ASSUME RecvInv, NEW c \in Clients
               PROVE  reader[c].count = Cardinality(BadMessages(Text(got[c])))
                                        + Cardinality(Overflows(Text(got[c])))
    BY Zenon DEF CountedAsReceived, BadMessages
  <2>1. Matches(Open(reader[c]), Text(got[c]))
    BY DEF RecvInv, Assembled
  <2> QED
    BY <2>1, OpenCount, Zenon DEF Matches
<1> QED
  BY <1>1, RecvInvariant, PTL

\* While errors stay below the limit, no handler reads the descriptor of
\* another connection, whoever is accepted between a loss and the cleanup.
THEOREM DescriptorsAlwaysApart == Spec => []DescriptorsApart
<1>1. Init => DescriptorsApart
  BY DEF Init, DescriptorsApart
<1> QED
  BY <1>1, DescriptorsNext, RecvInvariant, PTL DEF Spec
=============================================================================

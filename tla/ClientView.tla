----------------------------- MODULE ClientView -----------------------------
(***************************************************************************)
(* The game as one player sees it (GameController.java) while the server   *)
(* plays it: two players, the game_t with the handler threads that change  *)
(* it, the connection to one of them, and his screen.                      *)
(*                                                                         *)
(* The client has three kinds of threads: the reader, which handles a      *)
(* message at a time and changes cardMatched and flippedIndices itself;    *)
(* the JavaFX thread, which runs what others hand to it in their order;    *)
(* and the threads that wait a second before cards are hidden.             *)
(***************************************************************************)
EXTENDS Game, Sequences

Lists == INSTANCE SequencesExt

CONSTANTS Me, Rival,     \* the player at the screen, and the other
          MaxClicks,     \* bound: FLIPs under way
          MaxUnread,     \* bound: messages not read when a FLIP is handled
          MaxUnrun,      \* bound: tasks not run when a message is read
          MaxSleepers    \* bound: pairs of cards waiting to be hidden

ASSUME ViewAssumption ==
    /\ Clients = {Me, Rival} /\ Me # Rival
    /\ MaxClicks \in Nat \ {0} /\ MaxSleepers \in Nat \ {0}
    /\ MaxUnread \in Nat /\ MaxUnrun \in Nat

VARIABLES
    game,       \* the game_t
    thread,     \* the handler threads: where handle_flip is
    link,       \* the connection, and how far its return has got
    state,      \* GAME_STATE as it was formatted for the return
    inbox,      \* messages on their way to the client
    outbox,     \* FLIPs on their way to the server
    matched,    \* cardMatched
    flipped,    \* flippedIndices; flippedThisTurn is its length
    myTurn,
    face,       \* what the buttons show
    tasks,      \* Platform.runLater
    sleepers,   \* the threads that wait before they hide cards
    lost,       \* history: the connection has been lost
    overtaken   \* history: a FLIP of the rival was handled during a return

server == <<game, thread>>
reader == <<matched, flipped>>
screen == <<myTurn, face, sleepers>>
history == <<lost, overtaken>>
vars == <<server, link, state, inbox, outbox, reader, screen, tasks, history>>

-----------------------------------------------------------------------------
(* Messages and tasks.  Of GAME_STATE the current player and the cards are *)
(* kept.                                                                   *)

Plain(kind) == [kind |-> kind]
CardReveal(i) == [kind |-> "CARD_REVEAL", card |-> i]
Mismatched(next) == [kind |-> "MISMATCH", next |-> next]
Started(first) == [kind |-> "GAME_START", first |-> first]
GameState(g) ==
    [kind |-> "GAME_STATE", current |-> CurrentPlayer(g),
     up |-> CardsIn(g, "REVEALED"), matched |-> CardsIn(g, "MATCHED")]
NoState == Plain("none")

ShowCards(S) == [do |-> "show", cards |-> S]
SetTurn(mine) == [do |-> "turn", mine |-> mine]
ShowMismatch(S, mine) == [do |-> "mismatch", cards |-> S, mine |-> mine]
HideCards(S) == [do |-> "hide", cards |-> S]
BuildBoard == [do |-> "build"]

\* Every variable within its type; flippedIndices holds cards.
TypeOK ==
    /\ game \in GameType
    /\ thread \in [Clients -> {"idle", "flipped", "revealed"}]
    /\ link \in {"up", "down", "joined", "formatted", "sent"}
    /\ matched \subseteq Cards
    /\ flipped \in Seq(Cards)
    /\ myTurn \in BOOLEAN
    /\ face \in [Cards -> {"?", "value"}]
    /\ sleepers \in Seq(SUBSET Cards) /\ Len(sleepers) <= MaxSleepers
    /\ outbox \in Seq(Cards) /\ Len(outbox) <= MaxClicks
    /\ lost \in BOOLEAN /\ overtaken \in BOOLEAN

\* Both are ready: the game has been started and GAME_START sent.
Init ==
    /\ \E n \in {0, 1}, deal \in Deals :
          game = Start(Create([i \in Slots |-> IF i = n THEN Me
                                               ELSE IF i = 1 - n THEN Rival
                                               ELSE NULL], 2, deal))
    /\ thread = [c \in Clients |-> "idle"]
    /\ link = "up" /\ state = NoState
    /\ inbox = <<Started(CurrentPlayer(game))>>
               \o (IF CurrentPlayer(game) = Me THEN <<Plain("YOUR_TURN")>> ELSE <<>>)
    /\ outbox = <<>>
    /\ matched = {} /\ flipped = <<>> /\ myTurn = FALSE
    /\ face = [i \in Cards |-> "?"]
    /\ tasks = <<>> /\ sleepers = <<>>
    /\ lost = FALSE /\ overtaken = FALSE

-----------------------------------------------------------------------------
(* The server.  Nothing reaches a client that is marked disconnected.      *)

Reachable == link # "down"
Send(messages) == inbox' = IF Reachable THEN inbox \o messages ELSE inbox
Playing == game.state = "PLAYING"
Returning == link \in {"joined", "formatted", "sent"}

\* handle_flip up to game_flip_card, for a legal FLIP of the rival.
FlipByRival ==
    /\ thread[Rival] = "idle"
    /\ Len(inbox) <= MaxUnread
    /\ \E i \in Cards : CanFlip(game, Rival, i) /\ game' = FlipCard(game, i)
    /\ thread' = [thread EXCEPT ![Rival] = "flipped"]
    /\ overtaken' = (overtaken \/ Returning)
    /\ UNCHANGED <<link, state, inbox, outbox, reader, screen, tasks, lost>>

\* The same for a FLIP from the screen, which may be refused.
FlipByMe ==
    /\ thread[Me] = "idle"
    /\ link = "up"
    /\ outbox # <<>>
    /\ Len(inbox) <= MaxUnread
    /\ IF CanFlip(game, Me, Head(outbox))
       THEN /\ game' = FlipCard(game, Head(outbox))
            /\ thread' = [thread EXCEPT ![Me] = "flipped"]
            /\ UNCHANGED inbox
       ELSE /\ Send(<<Plain("ERROR")>>)
            /\ UNCHANGED server
    /\ outbox' = Tail(outbox)
    /\ UNCHANGED <<link, state, reader, screen, tasks, lost, overtaken>>

\* Mutant: the card of the second flip is announced.
LastFlippedSecond == game.second

LastFlipped == IF game.flips = 2 THEN game.second ELSE game.first

\* CARD_REVEAL.
Reveal(c) ==
    /\ thread[c] = "flipped"
    /\ Send(<<CardReveal(LastFlipped)>>)
    /\ thread' = [thread EXCEPT ![c] = IF game.flips = 2 THEN "revealed" ELSE "idle"]
    /\ UNCHANGED <<game, link, state, outbox, reader, screen, tasks, history>>

\* The mismatches whose cards are still to be hidden.
Hiding ==
    Len(sleepers)
    + Cardinality({k \in DOMAIN tasks : tasks[k].do = "mismatch"})
    + Cardinality({k \in DOMAIN inbox : inbox[k].kind = "MISMATCH"})

\* game_check_match, its announcement and YOUR_TURN.
Settle(c) ==
    /\ thread[c] = "revealed"
    /\ IsMatch(game) \/ Hiding < MaxSleepers
    /\ game' = CheckMatch(game)
    /\ LET turn == IF CurrentPlayer(game') = Me THEN <<Plain("YOUR_TURN")>> ELSE <<>>
       IN  Send(IF ~IsMatch(game) THEN <<Mismatched(CurrentPlayer(game'))>> \o turn
                ELSE IF game'.state = "FINISHED"
                     THEN <<Plain("MATCH"), Plain("GAME_END")>>
                     ELSE <<Plain("MATCH")>> \o turn)
    /\ thread' = [thread EXCEPT ![c] = "idle"]
    /\ UNCHANGED <<link, state, outbox, reader, screen, tasks, history>>

-----------------------------------------------------------------------------
(* The loss of the connection, once (a bound), and the return.  It takes   *)
(* seconds, more than the screen needs to do what it has been handed.      *)

LoseLink ==
    /\ link = "up" /\ Playing
    /\ ~lost
    /\ link' = "down"
    /\ inbox' = <<>> /\ outbox' = <<>>
    /\ lost' = TRUE
    /\ UNCHANGED <<server, state, reader, screen, tasks, overtaken>>

\* handle_reconnect: the new client_t has taken the place of the old one, and
\* WELCOME has been sent.
Join ==
    /\ link = "down" /\ Playing
    /\ thread[Me] = "idle"
    /\ tasks = <<>> /\ sleepers = <<>>
    /\ link' = "joined"
    /\ overtaken' = (overtaken \/ thread[Rival] # "idle")
    /\ UNCHANGED <<server, state, inbox, outbox, reader, screen, tasks, lost>>

\* game_format_state_message, and the sending of what it wrote.
FormatState ==
    /\ link = "joined" /\ Playing
    /\ link' = "formatted"
    /\ state' = GameState(game)
    /\ UNCHANGED <<server, inbox, outbox, reader, screen, tasks, history>>

SendState ==
    /\ link = "formatted"
    /\ link' = "sent"
    /\ Send(<<state>>)
    /\ state' = NoState
    /\ UNCHANGED <<server, outbox, reader, screen, tasks, history>>

Prompt ==
    /\ link = "sent"
    /\ link' = "up"
    /\ Send(IF CurrentPlayer(game) = Me THEN <<Plain("YOUR_TURN")>> ELSE <<>>)
    /\ UNCHANGED <<server, state, outbox, reader, screen, tasks, history>>

-----------------------------------------------------------------------------
(* The reader thread: onMessageReceived.                                   *)

Is(kind) == inbox # <<>> /\ Head(inbox).kind = kind
Read == inbox' = Tail(inbox) /\ Len(tasks) <= MaxUnrun
RunLater(new) == tasks' = tasks \o new

HandleGameStart ==
    /\ Is("GAME_START")
    /\ Read
    /\ matched' = {}
    /\ RunLater(<<BuildBoard, SetTurn(Head(inbox).first = Me)>>)
    /\ UNCHANGED <<server, link, state, outbox, flipped, screen, history>>

RevealCard ==
    /\ Is("CARD_REVEAL")
    /\ Read
    /\ flipped' = Append(flipped, Head(inbox).card)
    /\ RunLater(<<ShowCards({Head(inbox).card})>>)
    /\ UNCHANGED <<server, link, state, outbox, matched, screen, history>>

\* The task that colours the cards is left out: it leaves their text alone.
\* Mutant: flippedIndices is not cleared.
HandleMatchKeeping ==
    /\ Is("MATCH")
    /\ Read
    /\ matched' = matched \cup Lists!ToSet(flipped)
    /\ UNCHANGED <<server, link, state, outbox, flipped, tasks, screen, history>>

HandleMatch ==
    /\ Is("MATCH")
    /\ Read
    /\ matched' = matched \cup Lists!ToSet(flipped)
    /\ flipped' = <<>>
    /\ UNCHANGED <<server, link, state, outbox, tasks, screen, history>>

HandleMismatch ==
    /\ Is("MISMATCH")
    /\ Read
    /\ flipped' = <<>>
    /\ RunLater(<<ShowMismatch(Lists!ToSet(flipped), Head(inbox).next = Me)>>)
    /\ UNCHANGED <<server, link, state, outbox, matched, screen, history>>

HandleYourTurn ==
    /\ Is("YOUR_TURN")
    /\ Read
    /\ RunLater(<<SetTurn(TRUE)>>)
    /\ UNCHANGED <<server, link, state, outbox, reader, screen, history>>

\* Mutant: flippedIndices is not cleared first.
HandleGameStateAdding ==
    /\ Is("GAME_STATE")
    /\ Read
    /\ LET m == Head(inbox)
       IN  /\ matched' = matched \cup m.matched
           /\ flipped' = flipped \o Lists!SetToSeq(m.up)
           /\ RunLater(<<ShowCards(m.up \cup m.matched), SetTurn(m.current = Me)>>)
    /\ UNCHANGED <<server, link, state, outbox, screen, history>>

\* The size of the board has not changed, and a card that is hidden stays as
\* it is.
HandleGameState ==
    /\ Is("GAME_STATE")
    /\ Read
    /\ LET m == Head(inbox)
       IN  /\ matched' = matched \cup m.matched
           /\ flipped' = Lists!SetToSeq(m.up)
           /\ RunLater(<<ShowCards(m.up \cup m.matched), SetTurn(m.current = Me)>>)
    /\ UNCHANGED <<server, link, state, outbox, screen, history>>

\* ERROR shows an alert; after GAME_END the lobby takes the place of the game.
HandleOther ==
    /\ Is("ERROR") \/ Is("GAME_END")
    /\ Read
    /\ UNCHANGED <<server, link, state, outbox, reader, tasks, screen, history>>

-----------------------------------------------------------------------------
(* The JavaFX thread: its tasks, in order, and the clicks of the user; and *)
(* the threads that wait.                                                  *)

Doing(what) == tasks # <<>> /\ Head(tasks).do = what
Painted(S, what) == face' = [i \in Cards |-> IF i \in S THEN what ELSE face[i]]
Done == tasks' = Tail(tasks)

RunBuild ==
    /\ Doing("build")
    /\ Done
    /\ face' = [i \in Cards |-> "?"]
    /\ UNCHANGED <<server, link, state, inbox, outbox, reader, myTurn, sleepers, history>>

RunShow ==
    /\ Doing("show")
    /\ Done
    /\ Painted(Head(tasks).cards, "value")
    /\ UNCHANGED <<server, link, state, inbox, outbox, reader, myTurn, sleepers, history>>

RunTurn ==
    /\ Doing("turn")
    /\ Done
    /\ myTurn' = Head(tasks).mine
    /\ UNCHANGED <<server, link, state, inbox, outbox, reader, face, sleepers, history>>

\* updateTurnLabel hands over a task of its own, and a thread is started.
RunMismatch ==
    /\ Doing("mismatch")
    /\ tasks' = Append(Tail(tasks), SetTurn(Head(tasks).mine))
    /\ sleepers' = Append(sleepers, Head(tasks).cards)
    /\ UNCHANGED <<server, link, state, inbox, outbox, reader, myTurn, face, history>>

Wake ==
    /\ \E k \in DOMAIN sleepers :
          /\ RunLater(<<HideCards(sleepers[k])>>)
          /\ sleepers' = Lists!RemoveAt(sleepers, k)
    /\ UNCHANGED <<server, link, state, inbox, outbox, reader, myTurn, face, history>>

\* Mutant: the first card of the two only.
RunHideOne ==
    /\ Doing("hide")
    /\ Done
    /\ Painted({i \in Head(tasks).cards : \A j \in Head(tasks).cards : i <= j} \ matched, "?")
    /\ UNCHANGED <<server, link, state, inbox, outbox, reader, myTurn, sleepers, history>>

RunHide ==
    /\ Doing("hide")
    /\ Done
    /\ Painted(Head(tasks).cards \ matched, "?")
    /\ UNCHANGED <<server, link, state, inbox, outbox, reader, myTurn, sleepers, history>>

\* The checks of handleCardClick.
MayClick(i) == myTurn /\ i \notin matched \cup Lists!ToSet(flipped) /\ Len(flipped) < 2

\* The server, the connection and the screen have nothing more to do.
Settled ==
    /\ link = "up" /\ Playing
    /\ \A c \in Clients : thread[c] = "idle"
    /\ inbox = <<>> /\ outbox = <<>> /\ tasks = <<>>

Click(i) ==
    /\ link # "down"
    /\ MayClick(i)
    /\ Len(outbox) < MaxClicks
    /\ outbox' = Append(outbox, i)
    /\ UNCHANGED <<server, link, state, inbox, reader, screen, tasks, history>>

-----------------------------------------------------------------------------

Handler(c) == Reveal(c) \/ Settle(c)
Return == Join \/ FormatState \/ SendState \/ Prompt
Reader ==
    \/ HandleGameStart \/ RevealCard \/ HandleMatch \/ HandleMismatch
    \/ HandleYourTurn \/ HandleGameState \/ HandleOther
JavaFX == RunBuild \/ RunShow \/ RunTurn \/ RunMismatch \/ RunHide

Next ==
    \/ FlipByRival \/ FlipByMe \/ LoseLink \/ Return
    \/ Reader \/ JavaFX \/ Wake
    \/ \E c \in Clients : Handler(c)
    \/ \E i \in Cards : Click(i)

Spec == Init /\ [][Next]_vars

-----------------------------------------------------------------------------
(* Properties.                                                             *)

\* When nothing is on its way, what the reader keeps of the board is what the
\* server has: the cards that have left, and the cards that lie face up.
ReaderMirrors ==
    Settled /\ ~overtaken =>
        /\ matched = CardsIn(game, "MATCHED")
        /\ Lists!ToSet(flipped) = CardsIn(game, "REVEALED")
        /\ Len(flipped) = game.flips

\* When nothing is on its way, the screen lets the user turn exactly the cards
\* that the server lets him turn: the checks of handleCardClick and those of
\* game_flip_card agree, and so do myTurn, which is set by nested tasks, and
\* the server's current player.
ClicksFitServer ==
    Settled /\ ~overtaken => \A i \in Cards : MayClick(i) <=> CanFlip(game, Me, i)

\* As long as the connection holds, a card that is hidden on the server is
\* hidden on the screen, once nothing waits to be hidden.
NothingPeeked ==
    Settled /\ ~lost /\ sleepers = <<>> =>
        \A i \in CardsIn(game, "HIDDEN") : face[i] = "?"

-----------------------------------------------------------------------------
(* Properties that the code does not have.                                 *)

\* The same without the exception: GAME_STATE is sent after what it says has
\* been overtaken by the rival's next messages, and the player who has the turn
\* cannot click any card.
ClicksAlwaysFit ==
    Settled => \A i \in Cards : MayClick(i) <=> CanFlip(game, Me, i)

\* A card that lies face up is shown: the second of a mismatch ends when one of
\* its cards has been turned again.
FaceUpIsShown ==
    Settled /\ sleepers = <<>> =>
        \A i \in CardsIn(game, "REVEALED") \cup CardsIn(game, "MATCHED") :
            face[i] = "value"

\* No card that is hidden on the server is shown: GAME_STATE leaves the cards
\* that were shown when the connection was lost as they are.
NeverPeeked ==
    Settled /\ sleepers = <<>> =>
        \A i \in CardsIn(game, "HIDDEN") : face[i] = "?"

\* No click is answered by an error, which is counted: a FLIP is not noted
\* before its CARD_REVEAL comes back, and a second click sends it again.
ClicksAccepted == ~Is("ERROR")
=============================================================================

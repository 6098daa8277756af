------------------------------- MODULE WebDeck -------------------------------
(***************************************************************************)
(* The console's deck (src/web/src/features/deck): the verdicts of one tab, *)
(* from the key that was pressed to the row on the server.                  *)
(*                                                                         *)
(* useDeck keeps a queue, a set of judged cards and a chain of submissions  *)
(* in the component, and the queue a second time in a module, which         *)
(* outlives the page.  A page that is left lives on in the submission it    *)
(* was awaiting.  Requests fail on the way out or on the way back.          *)
(***************************************************************************)
EXTENDS Naturals, FiniteSets

CONSTANTS
    Cards,     \* cards the server has for the signed-in user, one title each
    Pages,     \* times the deck page may be opened
    MaxVotes   \* bound: verdicts cast; a verdict's number is its id and its date

WebDeckAssumption == MaxVotes \in Nat

Verdicts == 1 .. MaxVotes

VARIABLES
    cast,      \* [the verdicts cast so far -> the card]
    kept,      \* vote-queue.ts: the module's queue
    attempted, \* vote-queue.ts: those a submit has carried
    pages,     \* [Pages -> what useDeck holds]
    votes,     \* the server's: [Cards -> the verdict that stands, 0 for none]
    receipts,  \* the server's: verdicts it has seen
    withdrawn, \* verdicts whose card is back on the deck at the user's wish
    back,      \* those of them the server has confirmed, or was never sent
    overruled, \* verdicts a request to undo the title's vote has removed
    hasty      \* a page was left with a submission in flight

vars == <<cast, kept, attempted, pages, votes, receipts, withdrawn, back,
          overruled, hasty>>
server == <<votes, receipts>>
history == <<withdrawn, back, overruled, hasty>>

\* queue, judged, last, refill: useDeck's refs and lastVote; answer and deck: what
\* the server said last; trouble: a request failed, or the wait ran out; asked: a
\* deck request is in flight, or is to be repeated; chain and batch: the submission
\* in flight; due: another is chained to it; undoing: the verdict whose DELETE is
\* in flight.
Page == [state : {"unopened", "open", "left"},
         queue : SUBSET Verdicts, judged : SUBSET Cards,
         answer : {"none", "waiting", "deck"}, deck : SUBSET Cards,
         trouble : {"none", "error", "late"}, last : 0 .. MaxVotes, refill : BOOLEAN, asked : BOOLEAN,
         chain : {"idle", "sent", "stored"}, batch : SUBSET Verdicts, due : BOOLEAN,
         undoing : 0 .. MaxVotes]
Unopened == [state |-> "unopened", queue |-> {}, judged |-> {}, answer |-> "none", deck |-> {},
             trouble |-> "none", last |-> 0, refill |-> FALSE, asked |-> FALSE, chain |-> "idle", batch |-> {},
             due |-> FALSE, undoing |-> 0]

Open(p) == pages[p].state = "open"
\* remainingCards.
Remaining(p) == pages[p].deck \ pages[p].judged
\* A page that was left and awaits nothing is gone.
Becomes(p, page) ==
    pages' = [pages EXCEPT ![p] =
        IF page.state = "left" /\ page.chain = "idle" /\ page.undoing = 0
        THEN [Unopened EXCEPT !.state = "left"] ELSE page]

Init ==
    /\ cast = <<>>
    /\ kept = {}
    /\ attempted = {}
    /\ pages = [p \in Pages |-> Unopened]
    /\ votes = [c \in Cards |-> 0]
    /\ receipts = {}
    /\ withdrawn = {}
    /\ back = {}
    /\ overruled = {}
    /\ hasty = FALSE

-----------------------------------------------------------------------------
\* What the page shows where the card goes.  Undo and, while a card remains, the
\* verdicts stay within reach whatever it is.
Stalled(page) ==
    /\ page.deck # {} /\ ~page.asked /\ page.chain = "idle" /\ page.queue = {} /\ ~page.refill
Screen(p) ==
    IF ~Open(p) THEN "nothing"
    ELSE IF pages[p].trouble # "none" THEN pages[p].trouble
    ELSE IF pages[p].answer # "deck" THEN "building"
    ELSE IF Remaining(p) # {} THEN "card"
    ELSE IF Stalled(pages[p]) THEN "stalled"
    ELSE "empty"

-----------------------------------------------------------------------------
(* The page.                                                                *)

\* A new component: its queue is the module's, all else starts over, and the
\* query asks (gcTime is 0).
OpenPage(p) ==
    /\ pages[p].state = "unopened"
    /\ \A q \in Pages : ~Open(q)
    /\ Becomes(p, [Unopened EXCEPT !.state = "open", !.queue = kept, !.asked = TRUE])
    /\ UNCHANGED <<cast, kept, attempted, server, history>>

LeavePage(p) ==
    /\ Open(p)
    /\ Becomes(p, [pages[p] EXCEPT !.state = "left", !.asked = FALSE])
    /\ hasty' = (hasty \/ pages[p].chain # "idle")
    /\ UNCHANGED <<cast, kept, attempted, server, withdrawn, back, overruled>>

\* GET /swipe/deck: the cards the server holds no vote for; or 202, and the query
\* asks again; or an error, which leaves what was answered before.
DeckAnswer(p) ==
    /\ Open(p) /\ pages[p].asked
    /\ \/ Becomes(p, [pages[p] EXCEPT !.asked = FALSE, !.answer = "deck", !.trouble = "none",
                                     !.deck = {c \in Cards : votes[c] = 0}])
       \/ Becomes(p, [pages[p] EXCEPT !.answer = "waiting", !.deck = {},
                                     !.trouble = IF @ = "late" THEN "late" ELSE "none"])
       \/ Becomes(p, [pages[p] EXCEPT !.asked = FALSE, !.trouble = "error"])
    /\ UNCHANGED <<cast, kept, attempted, server, history>>

\* The deadline on one wait; the poll in the air may still be answered.
GiveUp(p) ==
    /\ Open(p) /\ pages[p].asked /\ pages[p].answer # "deck" /\ pages[p].trouble = "none"
    /\ \E asked \in BOOLEAN : Becomes(p, [pages[p] EXCEPT !.trouble = "late", !.asked = asked])
    /\ UNCHANGED <<cast, kept, attempted, server, history>>

\* "Ask for more", where the page offers it; or other settings, which are another
\* query, with nothing answered yet.
Retry(p) ==
    /\ Open(p)
    /\ \/ /\ Screen(p) \in {"error", "late", "stalled", "empty"}
          /\ Becomes(p, [pages[p] EXCEPT !.asked = TRUE, !.refill = FALSE, !.trouble =
                       IF @ = "error" /\ pages[p].answer # "none" THEN @ ELSE "none"])
       \/ Becomes(p, [pages[p] EXCEPT !.asked = TRUE, !.trouble = "none", !.answer = "none",
                                     !.deck = {}])
    /\ UNCHANGED <<cast, kept, attempted, server, history>>

-----------------------------------------------------------------------------
(* Verdicts.                                                                *)

\* flush: the next link of the chain takes the whole queue; an empty one is over
\* at once.  While a submission is in flight the link waits for it.
Flushed(page) ==
    IF page.chain # "idle" THEN [page EXCEPT !.due = TRUE]
    ELSE IF page.queue = {} THEN [page EXCEPT !.due = FALSE]
    ELSE [page EXCEPT !.chain = "sent", !.batch = page.queue, !.due = FALSE]
\* markAttempted.
Carried(page) == attempted' = attempted \cup page.batch

Vote(p, c) ==
    /\ Open(p)
    /\ c \in Remaining(p)
    /\ Cardinality(DOMAIN cast) < MaxVotes
    /\ LET n    == Cardinality(DOMAIN cast) + 1
           page == Flushed([pages[p] EXCEPT
                       !.queue = @ \cup {n}, !.judged = @ \cup {c}, !.last = n,
                       !.refill = @ \/ Remaining(p) = {c}])
       IN  /\ cast' = [v \in 1 .. n |-> IF v = n THEN c ELSE cast[v]]
           /\ Becomes(p, page)
           /\ kept' = page.queue
           /\ Carried(page)
    /\ UNCHANGED <<server, history>>

\* "Send them again".
RetryUnsent(p) ==
    /\ Open(p) /\ pages[p].chain = "idle" /\ pages[p].queue # {}
    /\ Becomes(p, Flushed(pages[p]))
    /\ Carried(Flushed(pages[p]))
    /\ UNCHANGED <<cast, kept, server, history>>

\* The server takes the batch: an id it has seen acts no more, and of two
\* verdicts on a title the later one stands.
Deliver(p) ==
    /\ pages[p].chain = "sent"
    /\ LET fresh == pages[p].batch \ receipts
           Newest(c) == {v \in fresh : cast[v] = c /\ v >= votes[c]
                                       /\ \A w \in fresh : cast[w] = c => w <= v}
       IN  votes' = [c \in Cards |-> IF Newest(c) = {} THEN votes[c]
                                     ELSE CHOOSE v \in Newest(c) : TRUE]
    /\ receipts' = receipts \cup pages[p].batch
    /\ Becomes(p, [pages[p] EXCEPT !.chain = "stored"])
    /\ UNCHANGED <<cast, kept, attempted, history>>

SettledEmptying(page) ==  \* mutant: what was cast meanwhile goes with the batch
    [page EXCEPT !.queue = {}, !.batch = {}, !.chain = "idle", !.refill = FALSE,
                 !.asked = page.asked \/ (page.refill /\ page.state = "open")]
\* The answer arrives: what was sent leaves the queue, and the refill the last
\* verdict wanted is asked for.
Settled(page) ==
    [page EXCEPT !.queue = @ \ page.batch, !.batch = {}, !.chain = "idle", !.refill = FALSE,
                 !.asked = @ \/ (page.refill /\ page.state = "open")]
\* It does not: the queue keeps them, and nothing is refilled.
Failed(page) == [page EXCEPT !.batch = {}, !.chain = "idle", !.refill = FALSE]

ThenNext(page) == IF page.due THEN Flushed(page) ELSE page

\* Both write the module's queue from the component's, the page's or not.
Answered(p) ==
    /\ pages[p].chain = "stored"
    /\ LET page == ThenNext(Settled(pages[p]))
       IN  Becomes(p, page) /\ kept' = page.queue /\ Carried(page)
    /\ UNCHANGED <<cast, server, history>>
Unanswered(p) ==
    /\ pages[p].chain # "idle"
    /\ LET page == ThenNext(Failed(pages[p]))
       IN  Becomes(p, page) /\ Carried(page)
    /\ UNCHANGED <<cast, kept, server, history>>

-----------------------------------------------------------------------------
(* Taking one back.                                                         *)

UndoTrusting(p) ==  \* mutant: one still queued cannot have reached the server
    LET v == pages[p].last IN
    /\ Open(p) /\ v # 0 /\ pages[p].chain = "idle" /\ pages[p].undoing = 0
    /\ IF v \in pages[p].queue
       THEN /\ Becomes(p, [pages[p] EXCEPT !.queue = @ \ {v}, !.judged = @ \ {cast[v]}, !.last = 0])
            /\ kept' = pages[p].queue \ {v}
            /\ withdrawn' = withdrawn \cup {v}
            /\ back' = back \cup {v}
       ELSE /\ Becomes(p, [pages[p] EXCEPT !.undoing = v])
            /\ UNCHANGED <<kept, withdrawn, back>>
    /\ UNCHANGED <<cast, attempted, server, overruled, hasty>>
\* A verdict still queued leaves the queue and its card is back; one a submit has
\* carried, or that is stored, is the server's to delete as well.
Undo(p) ==
    LET v == pages[p].last IN
    /\ Open(p) /\ v # 0 /\ pages[p].chain = "idle" /\ pages[p].undoing = 0
    /\ IF v \in pages[p].queue
       THEN /\ Becomes(p, [pages[p] EXCEPT
                    !.queue = @ \ {v}, !.judged = @ \ {cast[v]}, !.last = 0,
                    !.undoing = IF v \in attempted THEN v ELSE 0])
            /\ kept' = pages[p].queue \ {v}
            /\ withdrawn' = withdrawn \cup {v}
            /\ back' = IF v \in attempted THEN back ELSE back \cup {v}
       ELSE /\ Becomes(p, [pages[p] EXCEPT !.undoing = v])
            /\ UNCHANGED <<kept, withdrawn, back>>
    /\ UNCHANGED <<cast, attempted, server, overruled, hasty>>

\* DELETE names the title.  It is done, or had nothing to do (404), and the
\* answer comes back; or the request fails, on the way out or on the way back.
UndoAnswered(p) ==
    LET v == pages[p].undoing IN
    /\ v # 0
    /\ \E arrived, answered \in BOOLEAN :
         /\ answered => arrived
         /\ IF arrived
            THEN /\ votes' = [votes EXCEPT ![cast[v]] = 0]
                 /\ overruled' = overruled \cup ({votes[cast[v]]} \ {0})
            ELSE UNCHANGED <<votes, overruled>>
         /\ IF answered
            THEN /\ Becomes(p, [pages[p] EXCEPT
                         !.undoing = 0, !.judged = @ \ {cast[v]}, !.last = 0])
                 /\ withdrawn' = withdrawn \cup {v}
                 /\ back' = back \cup {v}
            ELSE /\ Becomes(p, [pages[p] EXCEPT !.undoing = 0])
                 /\ UNCHANGED <<withdrawn, back>>
    /\ UNCHANGED <<cast, kept, attempted, receipts, hasty>>

-----------------------------------------------------------------------------
Next ==
    \E p \in Pages :
        \/ OpenPage(p) \/ LeavePage(p) \/ DeckAnswer(p) \/ GiveUp(p) \/ Retry(p)
        \/ \E c \in Cards : Vote(p, c)
        \/ RetryUnsent(p) \/ Deliver(p) \/ Answered(p) \/ Unanswered(p)
        \/ Undo(p) \/ UndoAnswered(p)

Spec == Init /\ [][Next]_vars

-----------------------------------------------------------------------------
TypeOK ==
    /\ DOMAIN cast \subseteq Verdicts
    /\ \A v \in DOMAIN cast : cast[v] \in Cards
    /\ kept \cup attempted \cup receipts \cup withdrawn \cup back \cup overruled \subseteq DOMAIN cast
    /\ pages \in [Pages -> Page]
    /\ votes \in [Cards -> 0 .. MaxVotes]
    /\ hasty \in BOOLEAN

Newest(v) == \A w \in DOMAIN cast : cast[w] = cast[v] => w <= v
\* What the user has said and not taken back.
Standing == {v \in DOMAIN cast : Newest(v) /\ v \notin withdrawn \cup overruled}

\* "A vote is never lost": it stays queued until the server stores it, whatever
\* fails and whatever is cast or undone meanwhile, as long as the page is not left
\* with a submission in flight.
VerdictsAreKept == ~hasty => \A v \in Standing : v \in kept \/ votes[cast[v]] = v

\* The same without that condition, and counting the queue of the open page.
VotesAreNeverLost ==
    \A v \in Standing :
        v \in kept \/ votes[cast[v]] = v \/ \E p \in Pages : Open(p) /\ v \in pages[p].queue

\* A verdict taken back is neither stored nor waiting to be sent again, although
\* its submission may have reached the server and only the answer been lost.
TakenBackStaysBack ==
    \A v \in back : \A p \in Pages : v \notin kept /\ votes[cast[v]] # v
                                      /\ v \notin pages[p].batch

\* "Nothing is refilled while a verdict is unsent."
RefillsKnowEveryVerdict ==
    [][\A p \in Pages :
         /\ ~pages[p].asked /\ pages'[p].asked
         /\ pages[p].chain = "stored" /\ pages'[p].chain # "stored"
         => pages'[p].queue = {}]_vars

\* A card this session has judged is not offered again.
JudgedStaysJudged ==
    \A p \in Pages : Open(p) /\ ~hasty /\ pages[p].chain = "idle" =>
        \A v \in kept \cap Standing : cast[v] \notin Remaining(p)

\* A request to undo a verdict removes that verdict, not a newer one of its card.
UndoTakesBackItsOwn ==
    [][overruled' \ overruled \subseteq {pages[p].undoing : p \in Pages}]_vars

\* What is judged is on the screen.
JudgesWhatIsShown ==
    [][cast' # cast => \A p \in Pages : pages'[p].last # pages[p].last => Screen(p) = "card"]_vars

\* "No card this time: the last batch came back empty" is said of an empty batch.
EmptyMeansEmpty == \A p \in Pages : Screen(p) = "empty" => pages[p].deck = {}
=============================================================================

-------------------------------- MODULE Votes --------------------------------
(***************************************************************************)
(* One user's answers, from the swipe on a device to the row: voting.submit,*)
(* undo and reset, the votes and vote_receipts tables, the purge of cards    *)
(* and receipts, and the requests a like or the user files.                 *)
(*                                                                         *)
(* A device queues what was swiped and sends it whenever it can, as often as *)
(* it likes and in any order: an item is never taken off the network here,   *)
(* only too old to be sent.  A submission of several items is several        *)
(* submissions, since the items of one are independent.  The votes of a      *)
(* SuggestArr fork come from its database, by the command line.             *)
(***************************************************************************)
EXTENDS Naturals, FiniteSets, Tables

CONSTANTS
    Titles,
    Cards,             \* ids of cards the deck may serve
    TitleOf,           \* [Cards -> Titles]: two cards may be of one title
    Items,             \* the client_vote_ids the devices give their swipes
    CardLifetime,      \* CARD_LIFETIME: after it the deck no longer shows a card
    CardRetention,     \* CARD_RETENTION: an unvoted card is kept this long
    ReceiptRetention,  \* RECEIPT_RETENTION
    QueueLife,         \* how long a device may hold an item
    Drift,             \* how far a device's clock may be off, either way
    MaxTime            \* bound: the clock stops here

\* "Longer than any queue a phone could plausibly hold" (RECEIPT_RETENTION).
ASSUME VotesAssumption ==
    /\ TitleOf \in [Cards -> Titles]
    /\ {CardLifetime, CardRetention, ReceiptRetention, QueueLife, Drift, MaxTime} \subseteq Nat
    /\ QueueLife <= ReceiptRetention

VARIABLES
    now,        \* the server's clock
    shown,      \* when each card was served: what the devices have been given
    cards,      \* the served cards whose row is still there
    queue,      \* every item swiped so far, by client_vote_id
    votes,      \* the votes table, by title
    receipts,   \* the vote_receipts table: when each item was first stored
    filing,     \* titles being requested: between the check and the backend's answer
    standing,   \* items stored and not undone since, each with its date
    applied,    \* [Items -> Nat]: how often each was stored
    emptied,    \* when the votes of a title were last reset
    forked      \* the fork's rows imported, by title: the receipts no purge takes

vars == <<now, shown, cards, queue, votes, receipts, filing, standing, applied, emptied, forked>>

Time == 0 .. MaxTime
\* A dislike stands for every answer that asks for nothing.
Values == {"like", "dislike"}
Item == [card : Cards, value : Values, at : Nat, made : Time]
NoCard == "no card"
Vote == [value : Values, card : Cards \cup {NoCard}, at : Time, requested : BOOLEAN]
\* The date the fork's row was stored with, and whether it stands.
ForkRow == [at : Time, stands : BOOLEAN]

\* What a device's clock may say.
Readings(t) == {r \in 0 .. t + Drift : r + Drift >= t}
\* get_card: any of the user's cards that has a row, however old.
HasCard(i) == queue[i].card \in cards
\* _when: clamped between the card being served and now.
When(at, served, t) ==
    LET floored == IF at < served THEN served ELSE at
    IN  IF floored > t THEN t ELSE floored

TitleOfItem(i) == TitleOf[queue[i].card]
StandingOn(t) == {i \in DOMAIN standing : TitleOfItem(i) = t}
VotedCards == {votes[t].card : t \in DOMAIN votes}

-----------------------------------------------------------------------------
Init ==
    /\ now = 0
    /\ shown = Empty
    /\ cards = {}
    /\ queue = Empty
    /\ votes = Empty
    /\ receipts = Empty
    /\ filing = {}
    /\ standing = Empty
    /\ applied = [i \in Items |-> 0]
    /\ emptied = Empty
    /\ forked = Empty

Tick ==
    /\ now < MaxTime
    /\ now' = now + 1
    /\ UNCHANGED <<shown, cards, queue, votes, receipts, filing, standing, applied, emptied, forked>>

\* serve_batch, one card of it.
Serve(c) ==
    /\ c \notin DOMAIN shown
    /\ shown' = Put(shown, c, now)
    /\ cards' = cards \cup {c}
    /\ UNCHANGED <<now, queue, votes, receipts, filing, standing, applied, emptied, forked>>

\* A device answers a card it was given, and gives the answer an id of its own.
Swipe(i, c, value, at) ==
    /\ i \notin DOMAIN queue
    /\ c \in DOMAIN shown
    /\ queue' = Put(queue, i, [card |-> c, value |-> value, at |-> at, made |-> now])
    /\ UNCHANGED <<now, shown, cards, votes, receipts, filing, standing, applied, emptied, forked>>

-----------------------------------------------------------------------------
(* Storing answers.                                                         *)

\* record: an insert, or an update that only a swipe as new wins; an earlier
\* request stays filed.
RecordLatest(t, card, value, date) ==  \* mutant: the newest packet wins
    Put(votes, t, [value |-> value, card |-> card, at |-> date,
                   requested |-> t \in DOMAIN votes /\ votes[t].requested])
Record(t, card, value, date) ==
    IF t \in DOMAIN votes /\ votes[t].at > date THEN votes
    ELSE Put(votes, t, [value |-> value, card |-> card, at |-> date,
                        requested |-> t \in DOMAIN votes /\ votes[t].requested])

\* _store, one item: no card, no receipt; a receipt already there, nothing else.
Submit(i) ==
    /\ i \in DOMAIN queue
    /\ queue[i].made + QueueLife >= now
    /\ HasCard(i)
    /\ i \notin DOMAIN receipts
    /\ LET item == queue[i]
           date == When(item.at, shown[item.card], now)
       IN  /\ votes' = Record(TitleOf[item.card], item.card, item.value, date)
           /\ standing' = Put(standing, i, date)
           \* _auto_request, for a user who asked for it: the like as it was sent.
           /\ \/ filing' = filing
              \/ /\ item.value = "like"
                 /\ filing' = filing \cup {TitleOf[item.card]}
    /\ receipts' = Put(receipts, i, now)
    /\ applied' = [applied EXCEPT ![i] = @ + 1]
    /\ UNCHANGED <<now, shown, cards, queue, emptied, forked>>

\* store_votes, one row of the fork: once, whatever was answered since.
Import(t, at) ==
    /\ t \notin DOMAIN forked
    /\ votes' = Record(t, NoCard, "like", at)
    /\ forked' = Put(forked, t, [at |-> at, stands |-> TRUE])
    /\ UNCHANGED <<now, shown, cards, queue, receipts, filing, standing, applied, emptied>>
\* A row the fork never dated.
ImportUndated(t) == Import(t, now)

\* The rows of these titles are deleted: what the fork said of them stands no more.
Unforked(T) ==
    [t \in DOMAIN forked |-> IF t \in T THEN [forked[t] EXCEPT !.stands = FALSE] ELSE forked[t]]
\* undo: this title's row; the receipts stay.
Undo(t) ==
    /\ t \in DOMAIN votes
    /\ votes' = Drop(votes, {t})
    /\ standing' = Drop(standing, StandingOn(t))
    /\ forked' = Unforked({t})
    /\ UNCHANGED <<now, shown, cards, queue, receipts, filing, applied, emptied>>

ResetReceipts ==  \* mutant: the receipts go with the votes
    /\ DOMAIN votes # {}
    /\ votes' = Empty
    /\ receipts' = Empty
    /\ standing' = Empty
    /\ emptied' = [t \in DOMAIN emptied \cup DOMAIN votes |->
                      IF t \in DOMAIN votes THEN now ELSE emptied[t]]
    /\ forked' = Unforked(DOMAIN forked)
    /\ UNCHANGED <<now, shown, cards, queue, filing, applied>>
\* reset: every row; the receipts stay.
Reset ==
    /\ DOMAIN votes # {}
    /\ votes' = Empty
    /\ standing' = Empty
    /\ emptied' = [t \in DOMAIN emptied \cup DOMAIN votes |->
                      IF t \in DOMAIN votes THEN now ELSE emptied[t]]
    /\ forked' = Unforked(DOMAIN forked)
    /\ UNCHANGED <<now, shown, cards, queue, receipts, filing, applied>>

-----------------------------------------------------------------------------
(* The daily swipe purge: both deletes, in one transaction.                 *)

StaleExpired ==  \* mutant: a card goes when the deck stops showing it
    {c \in cards : shown[c] + CardLifetime < now /\ c \notin VotedCards}
\* batches.purge.
Stale == {c \in cards : shown[c] + CardRetention < now /\ c \notin VotedCards}

Spent == {i \in DOMAIN receipts : receipts[i] + ReceiptRetention < now}
\* batches.purge, then purge_receipts.
Purge ==
    /\ Stale # {} \/ Spent # {}
    /\ cards' = cards \ Stale
    /\ receipts' = Drop(receipts, Spent)
    /\ UNCHANGED <<now, shown, queue, votes, filing, standing, applied, emptied, forked>>

-----------------------------------------------------------------------------
(* Requests.                                                                *)

\* was_offered: a vote, or a served card whose row is still there.
Offered(t) == t \in DOMAIN votes \/ \E c \in cards : TitleOf[c] = t
\* file: checked, then the backend is asked.
Ask(t) ==
    /\ Offered(t)
    /\ t \notin filing
    /\ filing' = filing \cup {t}
    /\ UNCHANGED <<now, shown, cards, queue, votes, receipts, standing, applied, emptied, forked>>

\* The backend took it: mark_requested updates the row, if there is one.
Answer(t) ==
    /\ t \in filing
    /\ filing' = filing \ {t}
    /\ votes' = IF t \in DOMAIN votes THEN [votes EXCEPT ![t].requested = TRUE] ELSE votes
    /\ UNCHANGED <<now, shown, cards, queue, receipts, standing, applied, emptied, forked>>

\* It refused, or did not answer; or the server stopped in the middle.
Refuse(t) ==
    /\ t \in filing
    /\ filing' = filing \ {t}
    /\ UNCHANGED <<now, shown, cards, queue, votes, receipts, standing, applied, emptied, forked>>

Next ==
    \/ Tick
    \/ \E c \in Cards : Serve(c)
    \/ \E i \in Items, c \in Cards, value \in Values, at \in Readings(now) :
          Swipe(i, c, value, at)
    \/ \E i \in Items : Submit(i)
    \/ \E t \in Titles, at \in 0 .. now : Import(t, at)
    \/ \E t \in Titles : ImportUndated(t) \/ Undo(t) \/ Ask(t) \/ Answer(t) \/ Refuse(t)
    \/ Reset
    \/ Purge

Spec == Init /\ [][Next]_vars

-----------------------------------------------------------------------------
(* What must hold.                                                          *)

\* The rows are rows.
TypeOK ==
    /\ now \in Time
    /\ IsTable(shown, Cards, Time)
    /\ cards \subseteq DOMAIN shown
    /\ IsTable(queue, Items, Item)
    /\ IsTable(votes, Titles, Vote)
    /\ IsTable(receipts, Items, Time)
    /\ filing \subseteq Titles
    /\ IsTable(standing, Items, Time)
    /\ DOMAIN standing \subseteq DOMAIN queue
    /\ applied \in [Items -> Nat]
    /\ IsTable(emptied, Titles, Time)
    /\ IsTable(forked, Titles, ForkRow)

ForkStands(t) == t \in DOMAIN forked /\ forked[t].stands

\* Whatever order the packets came in, and however often, a title's answer is
\* the newest of the swipes and the fork's rows that were stored and not undone
\* since (votes.record, suggestarr.store_votes).
NewestSwipeWins ==
    \A t \in Titles :
        IF t \in DOMAIN votes
        THEN /\ \A i \in StandingOn(t) : standing[i] <= votes[t].at
             /\ ForkStands(t) => forked[t].at <= votes[t].at
             /\ \/ \E i \in StandingOn(t) :
                      /\ standing[i] = votes[t].at
                      /\ queue[i].value = votes[t].value
                      /\ queue[i].card = votes[t].card
                \/ ForkStands(t) /\ forked[t].at = votes[t].at /\ votes[t].card = NoCard
        ELSE StandingOn(t) = {} /\ ~ForkStands(t)

\* A resent item and a row imported again are never stored again, so what was
\* undone or reset does not come back by itself (votes.remember_receipt,
\* purge_receipts, IMPORT_RECEIPT_PREFIX).
AppliedOnce ==
    [][/\ \A i \in Items : applied'[i] <= 1
       /\ \A t \in DOMAIN forked :
             t \in DOMAIN forked' /\ (forked'[t].stands => forked[t].stands)]_vars

\* A queue delivered within the retention finds its cards, expired or not: no
\* answer of it is turned away as card_not_found (batches.get_card, purge).
NoVoteIsTurnedAway ==
    \A i \in DOMAIN queue : now <= shown[queue[i].card] + CardRetention => HasCard(i)

\* A request filed stays filed until its title's answer is undone, whatever is
\* swiped later (votes.record).
RequestsStayFiled ==
    [][\A t \in DOMAIN votes \cap DOMAIN votes' :
          votes[t].requested => votes'[t].requested]_vars

\* "A queue still in the air cannot re-create what was reset" (votes.delete_all):
\* a title reset has an answer again only from a swipe made after that.
ResetStands ==
    \A t \in DOMAIN votes \cap DOMAIN emptied :
        \E i \in StandingOn(t) : queue[i].made >= emptied[t]

\* A row the fork never dated "cannot beat anything already in the account"
\* (suggestarr.store_votes).
UndatedNeverWins ==
    [][\A t \in DOMAIN votes : ImportUndated(t) => votes'[t] = votes[t]]_vars
=============================================================================

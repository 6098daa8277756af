------------------------------ MODULE Offering ------------------------------
(***************************************************************************)
(* Which titles one user is offered again: what a generation reads of the     *)
(* answers, the cards shown and the watch history before it chooses           *)
(* (swipe/engine.py), and what of it still holds by the time its cards are     *)
(* shown.  A batch has one card of a title at most, and the card's key is its  *)
(* batch and its title.  Deck says when a generation is paid for; here one     *)
(* starts whenever no batch waits for the filter asked for.                    *)
(***************************************************************************)
EXTENDS Naturals, FiniteSets, Tables

CONSTANTS
    Titles,
    BatchIds,         \* 1 .. n
    Filters,          \* the media filters asked for
    None,
    CoolDown,         \* SKIP_COOL_DOWN
    CardLifetime,     \* CARD_LIFETIME
    CardRetention,    \* CARD_RETENTION
    MaxTime           \* bound: the clock stops here

OfferingAssumption == {CoolDown, CardLifetime, CardRetention, MaxTime} \subseteq Nat

VARIABLES
    now,
    batches,   \* the batches table
    cards,     \* the cards table: when each was served, None until then
    votes,     \* the votes table
    watched,   \* watch_history's seen titles, with when each was learned
    job        \* the generation under way, with what it read

vars == <<now, batches, cards, votes, watched, job>>

Time == 0 .. MaxTime
Keys == BatchIds \X Titles
Answers == {"opinion", "skip"}
Batch == [filter : Filters, read : Time, created : Time, served : BOOLEAN]
\* heard is when the answer was stored, which may be long after it was given.
Vote == [value : Answers, at : Time, heard : Time, card : Keys]
Idle == [step |-> "idle"]
Job == {Idle} \cup [step : {"chosen"}, filter : Filters, read : Time, excluded : SUBSET Titles]

-----------------------------------------------------------------------------
(* What the queries select.                                                 *)

\* served_refs.
ServedRefs == {t \in Titles : \E c \in DOMAIN cards : c[2] = t /\ cards[c] # None}
\* skipped_refs, without a time and with one.
Skipped == {t \in DOMAIN votes : votes[t].value = "skip"}
Cooling == {t \in Skipped : votes[t].at + CoolDown > now}
\* mutant: a skip is let back at once.
ServedAtOnce == ServedRefs \ Skipped
\* _served.
Served == (ServedRefs \ (Skipped \ Cooling)) \cup Cooling
\* _as_votes: a skip is no opinion.
Opinions == DOMAIN votes \ Skipped
\* StrategyContext.excluded.
Excluded == Opinions \cup Served \cup DOMAIN watched

Voted == {votes[t].card : t \in DOMAIN votes}
\* list_pending.
Pending == {c \in DOMAIN cards : /\ cards[c] # None
                                 /\ cards[c] + CardLifetime > now
                                 /\ c \notin Voted}
Ready(filter) == {b \in DOMAIN batches : ~batches[b].served
                                         /\ batches[b].filter \in {filter, "both"}}

-----------------------------------------------------------------------------
Init ==
    /\ now = 0
    /\ batches = Empty
    /\ cards = Empty
    /\ votes = Empty
    /\ watched = Empty
    /\ job = Idle

Tick ==
    /\ now < MaxTime
    /\ now' = now + 1
    /\ UNCHANGED <<batches, cards, votes, watched, job>>

\* build_context, read once when the generation starts.
Read(filter) ==
    /\ job = Idle
    /\ Ready(filter) = {}
    /\ job' = [step |-> "chosen", filter |-> filter, read |-> now, excluded |-> Excluded]
    /\ UNCHANGED <<now, batches, cards, votes, watched>>

\* The end of _generate: any titles the context did not exclude. What was answered in
\* the meantime is not looked at again.
Store(chosen) ==
    /\ job # Idle
    /\ chosen \cap job.excluded = {}
    /\ \E b \in BatchIds \ DOMAIN batches :
        /\ \A x \in BatchIds \ DOMAIN batches : b <= x
        /\ batches' = Put(batches, b, [filter |-> job.filter, read |-> job.read,
                                       created |-> now, served |-> FALSE])
        /\ cards' = [c \in DOMAIN cards \cup ({b} \X chosen) |->
                        IF c[1] = b THEN None ELSE cards[c]]
    /\ job' = Idle
    /\ UNCHANGED <<now, votes, watched>>

\* A generation that failed, or died with the process.
Lose == job # Idle /\ job' = Idle /\ UNCHANGED <<now, batches, cards, votes, watched>>

\* serve_batch on the oldest ready batch, when no card of that filter is pending.
Serve(filter) ==
    /\ Pending = {}
    /\ \E b \in Ready(filter) :
        /\ \A x \in Ready(filter) : b <= x
        /\ batches' = [batches EXCEPT ![b].served = TRUE]
        /\ cards' = [c \in DOMAIN cards |-> IF c[1] = b THEN now ELSE cards[c]]
    /\ UNCHANGED <<now, votes, watched, job>>

\* record, through the card that was answered: the newest swipe wins.
Answer(c, value, at) ==
    /\ c \in DOMAIN cards /\ cards[c] # None
    /\ cards[c] <= at /\ at <= now
    /\ c[2] \in DOMAIN votes => votes[c[2]].at <= at
    /\ votes' = Put(votes, c[2], [value |-> value, at |-> at, heard |-> now, card |-> c])
    /\ UNCHANGED <<now, batches, cards, watched, job>>

Undo(t) ==
    /\ t \in DOMAIN votes
    /\ votes' = Drop(votes, {t})
    /\ UNCHANGED <<now, batches, cards, watched, job>>

\* An import or a tick on the calibration grid, and the upload deleted again.
Learn(t) ==
    /\ t \notin DOMAIN watched
    /\ watched' = Put(watched, t, now)
    /\ UNCHANGED <<now, batches, cards, votes, job>>
Forget(t) ==
    /\ t \in DOMAIN watched
    /\ watched' = Drop(watched, {t})
    /\ UNCHANGED <<now, batches, cards, votes, job>>

\* batches.purge.
Purge ==
    LET shown == {c \in DOMAIN cards : /\ cards[c] # None
                                       /\ cards[c] + CardRetention < now
                                       /\ c \notin Voted}
        old == {b \in DOMAIN batches : ~batches[b].served
                                       /\ batches[b].created + CardRetention < now}
    IN /\ shown # {} \/ old # {}
       /\ cards' = Drop(cards, shown \cup (old \X Titles))
       /\ batches' = Drop(batches, old)
       /\ UNCHANGED <<now, votes, watched, job>>

Next ==
    \/ Tick \/ Lose \/ Purge
    \/ \E f \in Filters : Read(f) \/ Serve(f)
    \/ \E chosen \in SUBSET Titles : Store(chosen)
    \/ \E c \in Keys, value \in Answers, at \in Time : Answer(c, value, at)
    \/ \E t \in Titles : Undo(t) \/ Learn(t) \/ Forget(t)

Spec == Init /\ [][Next]_vars

-----------------------------------------------------------------------------
TypeOK ==
    /\ now \in Time
    /\ IsTable(batches, BatchIds, Batch)
    /\ IsTable(cards, Keys, Time \cup {None})
    /\ IsTable(votes, Titles, Vote)
    /\ IsTable(watched, Titles, Time)
    /\ job \in Job

\* Nobody is offered what they already answered for: no batch holds a title that, when
\* its context was read, had an opinion, had been said "not now" to within the
\* cool-down, or was known to have been watched (build_context, _served, _as_votes) -
\* whatever became since of the card that was answered.
AnswersAreRespected ==
    \A c \in DOMAIN cards :
        LET read == batches[c[1]].read IN
        /\ c[2] \in DOMAIN votes /\ votes[c[2]].heard < read =>
                votes[c[2]].value = "skip" /\ votes[c[2]].at + CoolDown <= read
        /\ c[2] \in DOMAIN watched => watched[c[2]] >= read

\* An answered card does not come back to the deck, nor become one the purge deletes,
\* until its answer is undone: what a poll shows first are "cards this user has already
\* been served and not answered" (swipe/deck.py), and "A card that *was* voted on is
\* never deleted" (docs/adr/0007-server-side-cards.md).
AnsweredStaysAnswered ==
    [][\A c \in Voted : c \in Voted' \/ c[2] \notin DOMAIN votes']_vars
=============================================================================

-------------------------------- MODULE Deck --------------------------------
(***************************************************************************)
(* One user's deck: what swipe/deck.py answers a poll with, the batches and  *)
(* cards it serves (storage/batches.py), and when it pays for another batch.  *)
(* Every query is scoped to its user, so users do not meet here.              *)
(*                                                                         *)
(* A poll is several transactions with an await between any two: `poll`      *)
(* holds how far each has come, and what it read or took from the clock by    *)
(* then.  The warm-up is one more payer, with fewer questions.                *)
(* A batch has one card of each of its kinds at most, and the card's key is   *)
(* its batch and its kind.                                                   *)
(***************************************************************************)
EXTENDS Naturals, FiniteSets, Tables

CONSTANTS
    Devices,          \* the user's devices that poll the deck
    Sweeps,           \* the runs of the warm-up that may be under way
    BatchIds,         \* 1 .. n
    Filters,          \* the media filters asked for
    None,
    LowWater,         \* DECK_LOW_WATER
    CardLifetime,     \* CARD_LIFETIME
    CardRetention,    \* CARD_RETENTION
    FailureCoolOff,   \* FAILURE_COOL_OFF
    ExhaustedCoolOff, \* EXHAUSTED_COOL_OFF
    MaxPaid,          \* bound: the generations the user's budget allows
    Deals,            \* bound: the kinds a batch may be found cards of
    MaxOverran,       \* bound: the generations that outlive their job
    MaxVotes,         \* bound: the votes there are at a time
    MaxTime           \* bound: the clock stops here

Payers == Devices \cup Sweeps
Kinds == {"movie", "tv"}
KindsOf(filter) == IF filter = "both" THEN Kinds ELSE {filter}

ASSUME DeckAssumption ==
    /\ Devices \cap Sweeps = {}
    /\ IsFiniteSet(Payers)
    /\ BatchIds \subseteq Nat
    /\ Filters \subseteq {"both", "movie", "tv"}
    /\ None \notin Filters \cup Nat
    /\ Deals \subseteq SUBSET Kinds
    /\ {LowWater, CardLifetime, CardRetention, FailureCoolOff, ExhaustedCoolOff, MaxPaid,
        MaxOverran, MaxVotes, MaxTime} \subseteq Nat

VARIABLES
    now,
    batches,   \* the batches table
    cards,     \* the cards table: when each was served, None until then
    votes,     \* voted_at of each card's vote
    active,    \* the filter of the generation under way, or None
    late,      \* [Filters -> the generations that outlived their job]
    last,      \* the last finished generation job
    paid,      \* generations charged so far
    poll,      \* [Payers -> the request or the sweep in progress]
    held,      \* the cards a device was handed, with its poll's time
    overran    \* how many generations ever outlived their job

vars == <<now, batches, cards, votes, active, late, last, paid, poll, held, overran>>
stored == <<batches, cards, votes>>
work == <<active, late, last, paid, overran>>

Time == 0 .. MaxTime
Keys == BatchIds \X Kinds
Batch == [filter : Filters, created : Time, size : 0 .. 2, served : BOOLEAN]
Job == [status : {"none", "done", "failed"}, silent : BOOLEAN, ended : Time, told : BOOLEAN]
Idle == [step |-> "idle"]
Poll == {Idle} \cup [step : {"look", "serve", "report", "exhausted", "cool", "claim"},
                     filter : Filters, at : Time, cards : SUBSET Keys]

-----------------------------------------------------------------------------
(* What the queries select (storage/batches.py).                            *)

\* list_pending and count_pending: served, still in its day, and not answered.
Pending(filter, at) ==
    {c \in DOMAIN cards :
        /\ cards[c] # None /\ cards[c] + CardLifetime > at
        /\ c \notin DOMAIN votes
        /\ c[2] \in KindsOf(filter)}

Matching(filter) ==
    {b \in DOMAIN batches : batches[b].filter \in {filter, "both"}}
Oldest(B) == {b \in B : \A x \in B : batches[b].created <= batches[x].created}
Newest(B) == {b \in B : \A x \in B : batches[b].created >= batches[x].created}
\* ready_batch's candidates: generated with cards and never served.
Ready(filter) == {b \in Matching(filter) : ~batches[b].served /\ batches[b].size > 0}

\* _cooling_off.
Cooling == last.status = "failed" /\ now < last.ended + FailureCoolOff

-----------------------------------------------------------------------------
Init ==
    /\ now = 0
    /\ batches = Empty
    /\ cards = Empty
    /\ votes = Empty
    /\ active = None
    /\ late = [f \in Filters |-> 0]
    /\ overran = 0
    /\ last = [status |-> "none", silent |-> FALSE, ended |-> 0, told |-> FALSE]
    /\ paid = 0
    /\ poll = [p \in Payers |-> Idle]
    /\ held = Empty

Tick ==
    /\ now < MaxTime
    /\ now' = now + 1
    /\ UNCHANGED <<stored, work, poll, held>>

-----------------------------------------------------------------------------
(* A poll: DeckService.deck.                                                *)

Goes(p, step) == poll' = [poll EXCEPT ![p].step = step]
Ends(p) == poll' = [poll EXCEPT ![p] = Idle]
\* The cards go to the device, as of the poll's own time.
Hands(d, C, at) ==
    /\ Ends(d)
    /\ held' = [c \in DOMAIN held \cup C |-> IF c \in C THEN at ELSE held[c]]
\* What a poll that could not start a generation is answered, or one that has: the
\* cards it had, and otherwise a delay or an error.
Parts(p) ==
    IF p \in Devices /\ poll[p].cards # {} THEN Hands(p, poll[p].cards, poll[p].at)
    ELSE Ends(p) /\ UNCHANGED held

\* The pending cards are read first; a deck running low looks further.
Ask(d, filter) ==
    /\ poll[d] = Idle
    /\ LET C == Pending(filter, now) IN
       IF Cardinality(C) >= LowWater
       THEN Hands(d, C, now)
       ELSE /\ poll' = [poll EXCEPT ![d] =
                           [step |-> IF C = {} THEN "serve" ELSE "look",
                            filter |-> filter, at |-> now, cards |-> C]]
            /\ UNCHANGED held
    /\ UNCHANGED <<now, stored, work>>

\* _top_up: a batch that waits already is enough.
LookReady(d) ==
    /\ poll[d].step = "look"
    /\ IF Ready(poll[d].filter) # {}
       THEN Hands(d, poll[d].cards, poll[d].at)
       ELSE Goes(d, "cool") /\ UNCHANGED held
    /\ UNCHANGED <<now, stored, work>>

\* _next_batch: the oldest ready batch is served, all its cards with it, in one
\* transaction with the look; both are stamped with the poll's time.
Serve(d) ==
    /\ poll[d].step = "serve"
    /\ \/ \E b \in Oldest(Ready(poll[d].filter)) :
            LET dealt == {c \in DOMAIN cards : c[1] = b} IN
            /\ batches' = [batches EXCEPT ![b].served = TRUE]
            /\ cards' = [c \in DOMAIN cards |-> IF c \in dealt THEN poll[d].at ELSE cards[c]]
            /\ Hands(d, dealt, poll[d].at)
       \/ /\ Ready(poll[d].filter) = {}
          /\ Goes(d, "report")
          /\ UNCHANGED <<batches, cards, held>>
    /\ UNCHANGED <<now, votes, work>>

\* _report_failure: wait for the generation under way; tell the last one's
\* failure once, if it is one to tell.
Report(d) ==
    /\ poll[d].step = "report"
    /\ \/ /\ active # None
          /\ Ends(d)
          /\ UNCHANGED last
       \/ /\ active = None /\ last.status = "failed"
          /\ last' = [last EXCEPT !.told = TRUE]
          /\ IF ~last.told /\ ~last.silent THEN Ends(d)
             ELSE Goes(d, "exhausted")
       \/ /\ active = None /\ last.status # "failed"
          /\ Goes(d, "exhausted")
          /\ UNCHANGED last
    /\ UNCHANGED <<now, stored, active, late, paid, held, overran>>

\* _exhausted: the newest batch came back empty, lately, and no vote is newer.
LookExhausted(d) ==
    /\ poll[d].step = "exhausted"
    /\ \E b \in Newest(Matching(poll[d].filter)) \cup {None} :
        /\ b = None => Matching(poll[d].filter) = {}
        /\ IF /\ b # None
              /\ batches[b].size = 0
              /\ poll[d].at < batches[b].created + ExhaustedCoolOff
              /\ \A c \in DOMAIN votes : votes[c] <= batches[b].created
           THEN Ends(d)
           ELSE Goes(d, "cool")
    /\ UNCHANGED <<now, stored, work, held>>

\* _start, up to its claim: no generation soon after one that failed; none
\* either if TMDb or the provider is not configured.
Cool(d) ==
    /\ poll[d].step = "cool"
    /\ IF Cooling THEN Parts(d)
       ELSE \/ Goes(d, "claim") /\ UNCHANGED held
            \/ Parts(d)
    /\ UNCHANGED <<now, stored, work>>

\* BatchGenerator.claim, the slot and the charge, and the task it is given.
Claim(p) ==
    /\ poll[p].step = "claim"
    /\ \/ /\ active # None
          /\ Parts(p)
          /\ UNCHANGED <<active, paid>>
       \/ /\ active = None /\ paid = MaxPaid
          /\ Parts(p)
          /\ UNCHANGED <<active, paid>>
       \/ /\ active = None /\ paid < MaxPaid
          /\ active' = poll[p].filter
          /\ paid' = paid + 1
          /\ Parts(p)
    /\ UNCHANGED <<now, stored, late, last, overran>>

\* mutant: the sweep does not ask whether a batch waits.
SweepAnew(s, filter) ==
    /\ poll[s] = Idle
    /\ active = None
    /\ Cardinality(Pending(filter, now)) < LowWater
    /\ poll' = [poll EXCEPT ![s] =
                   [step |-> "claim", filter |-> filter, at |-> 0, cards |-> {}]]
    /\ UNCHANGED <<now, stored, work, held>>
\* The warm-up's _warmed: nothing under way, nothing ready, and few cards left;
\* it asks neither of a failure nor of an empty pool. Its time is not read again.
Sweep(s, filter) ==
    /\ poll[s] = Idle
    /\ active = None
    /\ Ready(filter) = {}
    /\ Cardinality(Pending(filter, now)) < LowWater
    /\ poll' = [poll EXCEPT ![s] =
                   [step |-> "claim", filter |-> filter, at |-> 0, cards |-> {}]]
    /\ UNCHANGED <<now, stored, work, held>>

-----------------------------------------------------------------------------
(* The generation, the votes, the purge, and the end of the process.        *)

Ended(status, silent, told) ==
    last' = [status |-> status, silent |-> silent, ended |-> now, told |-> told]

\* A generation is over: the one under way, or one whose job the purge closed while
\* its task went on, and which has its last word on the row all the same.
Over(filter) ==
    \/ active = filter /\ active' = None /\ UNCHANGED late
    \/ late[filter] > 0 /\ late' = [late EXCEPT ![filter] = @ - 1] /\ UNCHANGED active

\* The batch, its cards and the end of the job are one transaction.
Finish(filter, deal) ==
    /\ Over(filter)
    /\ \E b \in BatchIds \ DOMAIN batches, kinds \in {deal \cap KindsOf(filter)} :
        /\ \A x \in BatchIds \ DOMAIN batches : b <= x
        /\ batches' = Put(batches, b, [filter |-> filter, created |-> now,
                                       size |-> Cardinality(kinds), served |-> FALSE])
        /\ cards' = [c \in DOMAIN cards \cup ({b} \X kinds) |->
                        IF c[1] = b THEN None ELSE cards[c]]
    /\ Ended("done", FALSE, FALSE)
    /\ UNCHANGED <<now, votes, paid, poll, held, overran>>

\* A failure to be told (_REPORTED_FAILURES) or not (_SILENT_FAILURES); that of a
\* closed job may have been told as the closing's.
Fail(filter, silent) ==
    /\ Over(filter)
    /\ \E told \in BOOLEAN : (told => active' = active) /\ Ended("failed", silent, told)
    /\ UNCHANGED <<now, stored, paid, poll, held, overran>>

\* A vote on a card in hand, its date clamped by _when; the row must be there.
Vote(c) ==
    /\ c \in DOMAIN held \cap DOMAIN cards
    /\ c \notin DOMAIN votes
    /\ Cardinality(DOMAIN votes) < MaxVotes
    /\ \E at \in cards[c] .. now : votes' = Put(votes, c, at)
    /\ UNCHANGED <<now, batches, cards, work, poll, held>>

Undo(c) ==
    /\ c \in DOMAIN votes
    /\ votes' = Drop(votes, {c})
    /\ UNCHANGED <<now, batches, cards, work, poll, held>>

Shown == {c \in DOMAIN cards : /\ cards[c] # None
                               /\ cards[c] + CardRetention < now
                               /\ c \notin DOMAIN votes}
Unasked == {b \in DOMAIN batches : /\ ~batches[b].served
                                   /\ batches[b].created + CardRetention < now}
\* The daily purge: a job that claims to run for too long (for how long is left to
\* Generations), cards shown long ago and
\* not answered, and batches nobody asked for, with their cards.
Purge ==
    /\ \/ /\ active # None
          /\ overran < MaxOverran
          /\ active' = None
          /\ late' = [late EXCEPT ![active] = @ + 1]
          /\ overran' = overran + 1
          /\ Ended("failed", TRUE, FALSE)
       \/ /\ Shown # {} \/ Unasked # {}
          /\ UNCHANGED <<active, late, last, overran>>
    /\ cards' = Drop(cards, Shown \cup (Unasked \X Kinds))
    /\ batches' = Drop(batches, Unasked)
    /\ UNCHANGED <<now, votes, paid, poll, held>>

\* The requests, the sweep and the tasks die; close_abandoned ends the job's row.
Restart ==
    /\ poll' = [p \in Payers |-> Idle]
    /\ active' = None
    /\ late' = [f \in Filters |-> 0]
    /\ IF active # None THEN Ended("failed", TRUE, FALSE) ELSE UNCHANGED last
    /\ UNCHANGED <<now, stored, paid, held, overran>>

-----------------------------------------------------------------------------
Step(d) == LookReady(d) \/ Serve(d) \/ Report(d) \/ LookExhausted(d) \/ Cool(d)

Next ==
    \/ Tick \/ Purge \/ Restart
    \/ \E f \in Filters : (\E deal \in Deals : Finish(f, deal)) \/ \E s \in BOOLEAN : Fail(f, s)
    \/ \E d \in Devices : (\E f \in Filters : Ask(d, f)) \/ Step(d)
    \/ \E s \in Sweeps, f \in Filters : Sweep(s, f)
    \/ \E p \in Payers : Claim(p)
    \/ \E c \in Keys : Vote(c) \/ Undo(c)

Spec == Init /\ [][Next]_vars

-----------------------------------------------------------------------------
TypeOK ==
    /\ now \in Time
    /\ IsTable(batches, BatchIds, Batch)
    /\ IsTable(cards, Keys, Time \cup {None})
    /\ IsTable(votes, Keys, Time)
    /\ active \in Filters \cup {None}
    /\ late \in [Filters -> Nat]
    /\ overran \in 0 .. MaxOverran
    /\ last \in Job
    /\ paid \in 0 .. MaxPaid
    /\ poll \in [Payers -> Poll]
    /\ IsTable(held, Keys, Time)

\* What is paid for and unseen stays bounded: of batches for one filter, those that
\* are ready, those being made, and those about to be claimed by a poll or a sweep
\* that found none ready, are one more than there are polls and sweeps at most
\* (_top_up, _next_batch, _warmed), and one for each generation that was given up
\* and finished after all.
Resolved(p, f) ==
    poll[p].step \in {"report", "exhausted", "cool", "claim"} /\ poll[p].filter = f
Stock(f) ==
    Cardinality({b \in Ready(f) : batches[b].filter = f})
    + Cardinality({p \in Payers : Resolved(p, f)})
    + (IF active = f THEN 1 ELSE 0) + late[f]
StockIsBounded == \A f \in Filters : Stock(f) <= Cardinality(Payers) + 1 + overran

\* No generation is paid for while the newest batch is one that came back empty:
\* "After a batch that came back empty it waits an hour, or until a vote changes
\* the pool" (docs/architecture.md).
EmptyPoolIsBelieved ==
    [][paid' > paid =>
         \/ Matching(active') = {}
         \/ \E b \in Newest(Matching(active')) :
               \/ batches[b].size > 0
               \/ now >= batches[b].created + ExhaustedCoolOff
               \/ \E c \in DOMAIN votes : votes[c] > batches[b].created]_vars
=============================================================================

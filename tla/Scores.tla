------------------------------- MODULE Scores -------------------------------
(***************************************************************************)
(* How a strategy's numbers are earned, and what they are held to.           *)
(*                                                                         *)
(* Replay walks one person's recorded votes past a strategy that may propose  *)
(* anything (swipe/evaluation/replay.py), and counts what became of the cards *)
(* (swipe/evaluation/metrics.py).  A prefix of the votes is the history a     *)
(* strategy is shown, what is withheld scores what it proposes.  The users of *)
(* a vote set share nothing but the meter, which is Asking's.                 *)
(*                                                                         *)
(* Gate is the gate a change passes: one strategy's numbers against the ones  *)
(* committed for it, those of the reference floors and the cost it declared   *)
(* (swipe/evaluation/gate.py, and compare_to_baseline of main/evaluation).     *)
(* Changes go by, one after the other: each is measured and merged if the     *)
(* gate passes, or is committed with its own numbers as the new baseline. The *)
(* vote set and the options are the same throughout, and the floors' numbers  *)
(* are committed and stay.  What a run may measure is any report here: the two *)
(* share no variable.                                                         *)
(***************************************************************************)
EXTENDS Integers, Sequences, FiniteSets, Functions, SequencesExt

CONSTANTS
    Titles, Values,     \* what may be voted on, and the verdicts
    Pool,               \* what may be proposed
    Library,            \* what the household owns
    MostVotes,          \* the longest history walked
    BatchSize, WarmUp, MaxBatches,
    TopRanks,           \* the ranks that count as a top pick
    Metrics,    \* the graded ones: [name -> [better, basis, spent]]
    Reports,    \* what a run may measure: its metrics, some None, and its counts
    Floors,     \* reports the reference strategies may have
    Tolerance,  \* how far a number may slide
    Meaningful, \* how many cards a rate needs behind it
    Allowed,    \* model calls a batch, with their tolerance
    None

ScoresAssumption ==
    /\ Tolerance \in Nat /\ Allowed \in Int /\ None \notin Int
    /\ "calls" \in DOMAIN Metrics
    /\ \A report \in Reports : report.metrics \in [DOMAIN Metrics -> Int \cup {None}]

VARIABLES
    votes, served, outcomes, stage,  \* a walk
    floors,     \* the reference strategies' committed numbers
    committed,  \* this strategy's own
    current     \* what the merged code measures

replayed == <<votes, served, outcomes, stage>>
gated == <<floors, committed, current>>

-----------------------------------------------------------------------------
(* The replay.                                                              *)

Vote == [title : Titles, value : Values]
Wasted == {"duplicate", "repeat", "served_again", "owned"}

index == Len(outcomes)
revealed == WarmUp + index * BatchSize
history == {votes[i].title : i \in DOMAIN votes \cap 1 .. revealed}
withheld == DOMAIN votes \ 1 .. revealed

\* The votes a card about t can be scored with; the earliest of them counts.
Future(t) == {i \in withheld : votes[i].title = t}

\* mutant: an object the strategy holds says what was served, and it was emptied.
StatusForgetful(t, before) ==
    IF t \in Range(before) THEN "duplicate"
    ELSE IF t \in history THEN "repeat"
    ELSE IF t \in Library THEN "owned"
    ELSE IF Future(t) = {} THEN "unknown"
    ELSE votes[CHOOSE i \in Future(t) : \A k \in Future(t) : i <= k].value

\* What a card about t became, after the cards before it in its batch.
Status(t, before) ==
    IF t \in Range(before) THEN "duplicate"
    ELSE IF t \in history THEN "repeat"
    ELSE IF t \in served THEN "served_again"
    ELSE IF t \in Library THEN "owned"
    ELSE IF Future(t) = {} THEN "unknown"
    ELSE votes[CHOOSE i \in Future(t) : \A k \in Future(t) : i <= k].value

Score(proposed) ==
    [k \in DOMAIN proposed |->
        [title |-> proposed[k], rank |-> k - 1,
         status |-> Status(proposed[k], SubSeq(proposed, 1, k - 1))]]

Usable(card) == card.status \notin Wasted

-----------------------------------------------------------------------------
\* The counts of a report; how many likes were withheld is the vote set's own number.
Cards == {c \in (DOMAIN outcomes) \X (1 .. BatchSize) : c[2] \in DOMAIN outcomes[c[1]]}
Counted(statuses) == {c \in Cards : outcomes[c[1]][c[2]].status \in statuses}
LikedAvailable == Cardinality({i \in DOMAIN votes : i > WarmUp /\ votes[i].value = "like"})
Likes == Cardinality(Counted({"like"}))
LikesInTop == Cardinality({c \in Counted({"like"}) : outcomes[c[1]][c[2]].rank < TopRanks})
Scored == Cardinality(Counted(Values \ {"skip"}))
Skipped == Cardinality(Counted({"skip"}))
Unknown == Cardinality(Counted({"unknown"}))
UsableCards == Cardinality({c \in Cards : Usable(outcomes[c[1]][c[2]])})
LikedByBatch(b) == Cardinality({k \in DOMAIN outcomes[b] : outcomes[b][k].status = "like"})

-----------------------------------------------------------------------------
ReplayInit ==
    /\ votes \in SeqOf(Vote, MostVotes)
    /\ served = {} /\ outcomes = <<>>
    /\ stage = IF Len(votes) > WarmUp THEN "walking" ELSE "done"

\* One batch: whatever the strategy proposes, in its order.
Propose(proposed) ==
    /\ stage = "walking"
    /\ revealed < Len(votes) /\ index < MaxBatches
    /\ Len(proposed) <= BatchSize
    /\ outcomes' = Append(outcomes, Score(proposed))
    /\ served' = served \cup Range(proposed)
    /\ UNCHANGED <<votes, stage>>

\* A strategy that returns too many cards ends the run without a report.
Overflow(proposed) ==
    /\ stage = "walking"
    /\ revealed < Len(votes) /\ index < MaxBatches
    /\ Len(proposed) > BatchSize
    /\ stage' = "refused"
    /\ UNCHANGED <<votes, served, outcomes>>

Finish ==
    /\ stage = "walking"
    /\ revealed >= Len(votes) \/ index >= MaxBatches
    /\ stage' = "done"
    /\ UNCHANGED <<votes, served, outcomes>>

Replay ==
    \/ Finish
    \/ \E proposed \in SeqOf(Pool, BatchSize + 1) : Propose(proposed) \/ Overflow(proposed)

-----------------------------------------------------------------------------
(* The gate.                                                                *)

Names == DOMAIN Metrics

\* A cost that was zero gets no allowance at all.
ToleranceOf(m, was) == IF was = 0 /\ Metrics[m].better = "lower" THEN 0 ELSE Tolerance

\* mutant: a number that is not there cannot be worse.
SlidIfThere(m, was, now) ==
    /\ was # None /\ now # None
    /\ IF Metrics[m].better = "higher" THEN now < was - ToleranceOf(m, was)
                                      ELSE now > was + ToleranceOf(m, was)

\* A number that appears is an improvement, one that disappears a regression.
Slid(m, was, now) ==
    /\ was # None
    /\ \/ now = None
       \/ IF Metrics[m].better = "higher" THEN now < was - ToleranceOf(m, was)
                                         ELSE now > was + ToleranceOf(m, was)

Comparable(m, counts) == Metrics[m].basis = "pool-free" \/ counts.scored >= Meaningful

\* A floor's number this report is held to.
Supports(floor, m) == Comparable(m, floor.counts) /\ floor.metrics[m] # None

Against(floor, report) ==
    {m \in Names :
        /\ ~Metrics[m].spent
        /\ Comparable(m, report.counts) /\ Supports(floor, m)
        /\ Slid(m, floor.metrics[m], report.metrics[m])}

\* check_floor: one floor whole, not the best of both.
Clears(report) == \E floor \in floors : Against(floor, report) = {}

\* uncomparable: the comparisons with the floors that are said not to have been made.
Named(report) ==
    {m \in Names :
        \/ Metrics[m].spent
        \/ ~Comparable(m, report.counts)
        \/ ~\E floor \in floors : Supports(floor, m)}

\* check: every graded number of its own, and the counts under them.
Own(baseline, report) ==
    {m \in Names : Slid(m, baseline.metrics[m], report.metrics[m])}
    \cup {c \in DOMAIN report.counts : report.counts[c] < baseline.counts[c]}

OverBudget(report) == report.metrics.calls # None /\ report.metrics.calls > Allowed

Passes(baseline, report) ==
    Own(baseline, report) = {} /\ Clears(report) /\ ~OverBudget(report)

-----------------------------------------------------------------------------
\* The first baseline of a strategy clears the floors like any other.
GateInit ==
    /\ floors \in {{a, b} : a \in Floors, b \in Floors}
    /\ committed \in Reports
    /\ Passes(committed, committed)
    /\ current = committed

Change(report) ==
    /\ Passes(committed, report)
    /\ current' = report
    /\ UNCHANGED <<floors, committed>>

\* --update-baseline writes the numbers first and checks afterwards.
Rebaseline(report) ==
    /\ Passes(report, report)
    /\ committed' = report /\ current' = report
    /\ UNCHANGED floors

Gate == \E report \in Reports : Change(report) \/ Rebaseline(report)

-----------------------------------------------------------------------------
Init == ReplayInit /\ GateInit
Next == (Replay /\ UNCHANGED gated) \/ (Gate /\ UNCHANGED replayed)
Spec == Init /\ [][Next]_<<replayed, gated>>

\* No strategy earns a number twice or out of the fixture: over a whole walk a title is
\* usable in one card at most, recall never passes one however likes are revealed,
\* repeated or changed on the way, and every usable card is scored, skipped or unknown.
ScoresAreEarnedOnce ==
    /\ \A c, d \in Cards :
        LET one == outcomes[c[1]][c[2]]
            other == outcomes[d[1]][d[2]]
        IN c # d /\ one.title = other.title => ~Usable(one) \/ ~Usable(other)
    /\ LikesInTop <= Likes /\ Likes <= LikedAvailable
    /\ UsableCards = Scored + Skipped + Unknown

\* However many changes pass the gate one after the other, and however often a slide is
\* accepted into the baseline: no number is further from the committed one than one
\* tolerance, none of them has disappeared, one that every floor has and that needs no
\* votes is there, one that was not named as skipped stands against some floor, and a
\* model is not called more often than was declared.
SlidesDoNotAddUp ==
    /\ \A m \in Names : committed.metrics[m] # None =>
        /\ current.metrics[m] # None
        /\ IF Metrics[m].better = "higher"
           THEN current.metrics[m] >= committed.metrics[m] - Tolerance
           ELSE current.metrics[m] <= committed.metrics[m] + Tolerance
    /\ \A m \in Names :
        (~Metrics[m].spent /\ Metrics[m].basis = "pool-free"
            /\ \A floor \in floors : floor.metrics[m] # None) => current.metrics[m] # None
    /\ \A m \in Names \ Named(current) : \E floor \in floors :
        floor.metrics[m] # None /\ Comparable(m, floor.counts) /\ Comparable(m, current.counts)
    /\ current.metrics.calls # None => current.metrics.calls <= Allowed
=============================================================================

-------------------------------- MODULE Taste --------------------------------
(***************************************************************************)
(* The debounce of the taste profile's rewrite: one user's opinions,        *)
(* taste_profiles.votes_at_update, and the rewrites a vote starts           *)
(* (voting._maybe_refresh, swipe/profile, ProfileRunner.request_rewrite).    *)
(*                                                                         *)
(* The job row is only the slot here (Generations has the rest), the votes   *)
(* only the set of titles there is an opinion about (Votes has the rest),    *)
(* and the profile's text is left out.                                      *)
(***************************************************************************)
EXTENDS Integers, FiniteSets, Tables

CONSTANTS
    Titles,
    RewriteIds,   \* job ids of rewrites
    Callers,      \* submissions and refreshes of the user in flight at once
    Refresh,      \* PROFILE_REFRESH_VOTES
    MinVotes,     \* MIN_VOTES
    None,         \* no job
    MaxEarned,    \* bound: opinions given
    MaxCut        \* bound: rewrites cut short

TasteAssumption ==
    /\ IsFiniteSet(Callers)
    /\ {Refresh, MinVotes, MaxEarned, MaxCut} \subseteq Nat
    /\ None \notin RewriteIds /\ \A read \in SUBSET Titles : read # None

VARIABLES
    opinions,  \* titles with a vote other than skip
    base,      \* votes_at_update
    slot,      \* the user's active profile job, or None
    tasks,     \* rewrites alive, by job: what each was started by, and what it read
    callers,   \* [Callers -> Steps]
    earned,    \* how many opinions were given so far
    calls,     \* how many model calls rewrites started by votes have made
    cut        \* how many rewrites ended without saying so

vars == <<opinions, base, slot, tasks, callers, earned, calls, cut>>

Steps == {"idle", "check", "vote", "ask"}
Task == [by : {"vote", "ask"}, read : {None} \cup SUBSET Titles]
Count == Cardinality(opinions)

-----------------------------------------------------------------------------
Init ==
    /\ opinions = {}
    /\ base = 0
    /\ slot = None
    /\ tasks = Empty
    /\ callers = [c \in Callers |-> "idle"]
    /\ earned = 0
    /\ calls = 0
    /\ cut = 0

Step(c, from, to) ==
    /\ callers[c] = from
    /\ callers' = [callers EXCEPT ![c] = to]

\* votes_at_update is set to the count of these opinions.
SetBase(read) == base' = Cardinality(read)

-----------------------------------------------------------------------------
(* Votes.                                                                   *)

\* _store: an opinion about a title, or a skip, replacing what was said of it.
Answer(c, t) ==
    /\ Step(c, "idle", "check")
    /\ \/ /\ earned < MaxEarned
          /\ opinions' = opinions \cup {t}
          /\ earned' = IF t \in opinions THEN earned ELSE earned + 1
       \/ /\ opinions' = opinions \ {t}
          /\ earned' = earned
    /\ UNCHANGED <<base, slot, tasks, calls, cut>>

\* undo, and reset for T = Titles.
Remove(T) ==
    /\ T \cap opinions # {}
    /\ opinions' = opinions \ T
    /\ UNCHANGED <<base, slot, tasks, callers, earned, calls, cut>>

DueEarly == Count + 1 - base >= Refresh  \* mutant: the opinion just stored is counted twice
Due == Count - base >= Refresh
\* _maybe_refresh, and request_rewrite's look at the runner, which other users'
\* rewrites may fill.
Check(c) ==
    /\ \/ Step(c, "check", "vote") /\ Due /\ tasks = Empty
       \/ Step(c, "check", "idle")
    /\ UNCHANGED <<opinions, base, slot, tasks, earned, calls, cut>>

\* refreshProfile.
Ask(c) ==
    /\ Step(c, "idle", "ask")
    /\ tasks = Empty
    /\ UNCHANGED <<opinions, base, slot, tasks, earned, calls, cut>>

-----------------------------------------------------------------------------
(* The rewrite.                                                             *)

\* claim, then the task: or nothing, when the slot is taken, the day is spent or
\* the household could not be read.
Claim(c) ==
    /\ callers[c] \in {"vote", "ask"}
    /\ \/ /\ slot = None
          /\ \E r \in RewriteIds \ DOMAIN tasks :
                /\ slot' = r
                /\ tasks' = Put(tasks, r, [by |-> callers[c], read |-> None])
       \/ UNCHANGED <<slot, tasks>>
    /\ callers' = [callers EXCEPT ![c] = "idle"]
    /\ UNCHANGED <<opinions, base, earned, calls, cut>>

\* jobs.finish and jobs.fail: the row is active no more.
Close(r) ==
    /\ slot' = IF slot = r THEN None ELSE slot
    /\ tasks' = Drop(tasks, {r})

\* _rewrite reads the votes: too few, and it ends there; the model is called
\* otherwise.
Read(r) ==
    /\ r \in DOMAIN tasks
    /\ tasks[r].read = None
    /\ IF Count < MinVotes
       THEN Close(r) /\ calls' = calls
       ELSE /\ tasks' = [tasks EXCEPT ![r].read = opinions]
            /\ slot' = slot
            /\ calls' = IF tasks[r].by = "vote" THEN calls + 1 ELSE calls
    /\ UNCHANGED <<opinions, base, callers, earned, cut>>

\* _finish: the base is what was read before the call.
Finish(r) ==
    /\ r \in DOMAIN tasks
    /\ tasks[r].read # None
    /\ SetBase(tasks[r].read)
    /\ Close(r)
    /\ UNCHANGED <<opinions, callers, earned, calls, cut>>

\* _fail: the base moves although nothing was written.
Fail(r) ==
    /\ r \in DOMAIN tasks
    /\ SetBase(opinions)
    /\ Close(r)
    /\ UNCHANGED <<opinions, callers, earned, calls, cut>>

\* save: the user's own text counts as a rewrite.
Save ==
    /\ SetBase(opinions)
    /\ UNCHANGED <<opinions, slot, tasks, callers, earned, calls, cut>>

\* The task dies and cannot say so (on_failure raised), or the process does.
Lose(r) ==
    /\ r \in DOMAIN tasks
    /\ cut < MaxCut
    /\ tasks' = Drop(tasks, {r})
    /\ cut' = cut + 1
    /\ UNCHANGED <<opinions, base, slot, callers, earned, calls>>
Restart ==
    /\ cut + Cardinality(DOMAIN tasks) <= MaxCut
    /\ cut' = cut + Cardinality(DOMAIN tasks)
    /\ slot' = None
    /\ tasks' = Empty
    /\ callers' = [c \in Callers |-> "idle"]
    /\ UNCHANGED <<opinions, base, earned, calls>>
\* close_stuck: the row of a rewrite that hangs, or that was lost.
Sweep ==
    /\ slot # None
    /\ cut < MaxCut
    /\ slot' = None
    /\ cut' = IF slot \in DOMAIN tasks THEN cut + 1 ELSE cut
    /\ UNCHANGED <<opinions, base, tasks, callers, earned, calls>>

Next ==
    \/ \E c \in Callers, t \in Titles : Answer(c, t)
    \/ \E c \in Callers : Check(c) \/ Ask(c) \/ Claim(c)
    \/ \E t \in Titles : Remove({t})
    \/ Remove(Titles)
    \/ \E r \in RewriteIds : Read(r) \/ Finish(r) \/ Fail(r) \/ Lose(r)
    \/ Save \/ Restart \/ Sweep

Spec == Init /\ [][Next]_vars

-----------------------------------------------------------------------------
(* What must hold.                                                          *)

\* The rows are rows.
TypeOK ==
    /\ opinions \subseteq Titles
    /\ base \in Nat
    /\ slot \in RewriteIds \cup {None}
    /\ IsTable(tasks, RewriteIds, Task)
    /\ callers \in [Callers -> Steps]
    /\ earned \in 0 .. MaxEarned + 1
    /\ calls \in Nat
    /\ cut \in 0 .. MaxCut

\* PROFILE_REFRESH_VOTES new opinions start at most one model call for each
\* submission in flight that counted them (one, when there is one), whether the
\* rewrites before worked, failed or raced with an undo, a reset or an edit;
\* only one that was cut short may be paid for again (_fail: "a failed attempt
\* is still an attempt").
RewritesAreEarned == (calls - cut) * Refresh <= earned * Cardinality(Callers)
=============================================================================

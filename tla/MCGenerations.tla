---------------------------- MODULE MCGenerations ----------------------------
(***************************************************************************)
(* Small instances of what is paid for: the jobs (Generations), one model    *)
(* call (Asking), and the harness that measures what comes of them: the       *)
(* replay of recorded votes and the gate (Scores), recorded answers           *)
(* (Recording) and a live session (LiveSession); and the console (Console).   *)
(* They share no state here, so a behaviour is one's alone.                   *)
(***************************************************************************)
EXTENDS Generations, TLC

CONSTANTS
    u1, j1, j2, j3, c1, c2, Halves, None,
    t1, t2, t3, Seeds,
    Rungs, MaxAttempts, PromptTokens, Answers, MaxBatches,     \* of Asking
    Values, Library, MostVotes, BatchSize, WarmUp, TopRanks,   \* of Scores
    Metrics, Reports, Floors, Tolerance, Meaningful, Allowed,  \* of its gate
    hybrid, popular, page, host, portable, MaxRuns,            \* of Recording
    MaxSessions,                                               \* of LiveSession
    Tabs, Calls, Uses, People, Admins, MaxSignIns              \* of Console

VARIABLES
    part,
    step, attempt, rung, burnt, reports, metered, usage, meter, billed, made, unanswered,
    forgotten,                                                                             \* of Asking
    votes, served, outcomes, walk,                                                         \* of Scores
    disk, run, runs, recorded, missed,                                                     \* of Recording
    file, said, session, begun,                                                            \* of LiveSession
    floors, committed, current,                                                            \* of Scores
    cookied, setupDone, jar, csrf, seen, asking, waiting, request                          \* of Console

MCCapacity == [batch |-> 1, profile |-> 1]
\* Room for both callers.
MCWide == [batch |-> 2, profile |-> 1]
MCLimit == [u \in Users |-> 1]

\* Two changes of one tab can wait for one dialog, while the other tab signs in.
MCUses ==
    (1 :> {<<"left", "step_up">>}) @@
    (2 :> {<<"left", "step_up">>, <<"right", "sign_in">>}) @@
    (3 :> {<<"left", what>> : what \in {"read", "sign_out", "reauth"}})

MCMetrics ==
    [recall |-> [better |-> "higher", basis |-> "pool-free", spent |-> FALSE],
     liked |-> [better |-> "higher", basis |-> "votes", spent |-> FALSE],
     calls |-> [better |-> "lower", basis |-> "pool-free", spent |-> TRUE]]
MCReports ==
    [metrics : [recall : {None, 0, 1, 2}, liked : {None, 0, 2}, calls : {0, 1, 2}],
     counts : [scored : {0, 1}, usable : {1, 2}]]
MCFloors ==
    {[metrics |-> [recall |-> 2, liked |-> 0, calls |-> 0], counts |-> [scored |-> 1, usable |-> 1]],
     [metrics |-> [recall |-> 1, liked |-> 2, calls |-> 0], counts |-> [scored |-> 1, usable |-> 1]],
     [metrics |-> [recall |-> 1, liked |-> None, calls |-> 0], counts |-> [scored |-> 0, usable |-> 1]]}

-----------------------------------------------------------------------------
A == INSTANCE Asking WITH stage <- step, spent <- burnt, batches <- made, missed <- unanswered
P == INSTANCE Scores WITH
        Titles <- {t1, t2}, Pool <- {t1, t2, t3}, stage <- walk
K == INSTANCE Recording WITH
        Strategies <- {hybrid, popular}, PageOf <- [s \in {hybrid, popular} |-> page],
        Callers <- {hybrid}, Hosts <- {host}, Portable <- portable
L == INSTANCE LiveSession WITH Titles <- {t1, t2, t3}, Batches <- MaxBatches
C == INSTANCE Console WITH
        Users <- People, MaxSessions <- MaxSignIns,
        session <- cookied, token <- csrf, call <- request

ASSUME AskingAssumption == A!AskingAssumption
ASSUME ScoresAssumption == P!ScoresAssumption
ASSUME ConsoleAssumption == C!ConsoleAssumption

ofAsking == <<step, attempt, rung, burnt, reports, metered, usage, meter, billed, made, unanswered,
              forgotten>>
ofReplay == <<votes, served, outcomes, walk>>
ofRecording == <<disk, run, runs, recorded, missed>>
ofSession == <<file, said, session, begun>>
ofGate == <<floors, committed, current>>
ofConsole == <<cookied, setupDone, jar, csrf, seen, asking, waiting, request>>
MCVars == <<part, vars, ofAsking, ofReplay, ofRecording, ofSession, ofGate, ofConsole>>

MCInit ==
    /\ part \in Halves
    /\ Init /\ A!Init /\ K!Init /\ L!Init
    /\ part # "asking" => reports
    /\ \/ part = "replay" /\ P!ReplayInit
       \/ part # "replay" /\ votes = <<>> /\ served = {} /\ outcomes = <<>> /\ walk = "done"
    /\ \/ part = "gate" /\ P!GateInit
       \/ part # "gate" /\ floors = {} /\ committed = None /\ current = None
    /\ C!Init /\ (part = "console" \/ setupDone)

Jobs(action) ==
    /\ part = "jobs"
    /\ UNCHANGED <<part, ofAsking, ofReplay, ofRecording, ofSession, ofGate, ofConsole>>
    /\ action

MCNext ==
    \/ Jobs(Next)
    \/ /\ part = "asking"
       /\ UNCHANGED <<part, vars, ofReplay, ofRecording, ofSession, ofGate, ofConsole>>
       /\ A!Next
    \/ /\ part = "replay"
       /\ UNCHANGED <<part, vars, ofAsking, ofRecording, ofSession, ofGate, ofConsole>>
       /\ P!Replay
    \/ /\ part = "recording"
       /\ UNCHANGED <<part, vars, ofAsking, ofReplay, ofSession, ofGate, ofConsole>>
       /\ K!Next
    \/ /\ part = "session"
       /\ UNCHANGED <<part, vars, ofAsking, ofReplay, ofRecording, ofGate, ofConsole>>
       /\ L!Next
    \/ /\ part = "gate"
       /\ UNCHANGED <<part, vars, ofAsking, ofReplay, ofRecording, ofSession, ofConsole>>
       /\ P!Gate
    \/ /\ part = "console"
       /\ UNCHANGED <<part, vars, ofAsking, ofReplay, ofRecording, ofSession, ofGate>>
       /\ C!Next

\* Generations!FairSpec for the jobs; the rest is safety.
MCSpec == MCInit /\ [][MCNext]_MCVars /\ WF_MCVars(Jobs(Tick)) /\ WF_MCVars(Jobs(Sweep))

\* Asking!UsageIsNeverOverstated and UsageShowsWhatWasCharged, Scores!ScoresAreEarnedOnce
\* and SlidesDoNotAddUp.
UsageIsNeverOverstated == A!UsageIsNeverOverstated
UsageShowsWhatWasCharged == A!UsageShowsWhatWasCharged
ScoresAreEarnedOnce == P!ScoresAreEarnedOnce
\* What the harness writes down can be used again: Recording!RecordedRunsReplay and
\* LiveSession!AnswersAreKeptAndCountedOnce.
RecordsAreWhole == K!RecordedRunsReplay /\ L!AnswersAreKeptAndCountedOnce
\* Every call of the console is made once and answered: Console's CallsRunOnce and
\* NobodyWaitsOnAClosedDialog.
CallsAreSettled == C!CallsRunOnce /\ C!NobodyWaitsOnAClosedDialog
\* Console!StepUpsAreOffered.
StepUpsAreOffered == C!StepUpsAreOffered
SlidesDoNotAddUp == part = "gate" => P!SlidesDoNotAddUp
=============================================================================

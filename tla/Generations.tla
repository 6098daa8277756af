----------------------------- MODULE Generations -----------------------------
(***************************************************************************)
(* Paid background work: a generation of cards or the rewrite of a taste    *)
(* profile, from the decision to pay to the job's last word.  storage/jobs  *)
(* and storage/usage under swipe/generation, swipe/profile, the starting    *)
(* half of swipe/deck, and the runners of jobs/swipe.                       *)
(*                                                                         *)
(* A job is a row, which survives a restart, and a task, which does not.    *)
(* Who starts one (a poll of the deck, the warm-up, a vote asking for a     *)
(* rewrite) is a caller: it looks, then claims, then submits, and awaits in *)
(* between.  What a task computes is not modelled, only how it ends.        *)
(***************************************************************************)
EXTENDS Naturals, FiniteSets, Tables

CONSTANTS
    Users,       \* whoever work is paid for
    JobIds,      \* ids a job row may get
    Callers,     \* polls, votes and sweeps that may be in flight at once
    Capacity,    \* [Kinds -> Nat]: MAX_CONCURRENT_GENERATIONS and _REWRITES
    Limit,       \* [Users -> Nat]: each user's daily_generation_limit
    DayLength,   \* ticks of the clock in a day
    CoolOff,     \* FAILURE_COOL_OFF
    MaxRuntime,  \* JOB_MAX_RUNTIME
    Retention,   \* JOB_RETENTION
    MaxTime,     \* bound: the clock stops here
    LastClaim    \* bound: nothing is claimed after this

Kinds == {"batch", "profile"}

ASSUME GenerationsAssumption ==
    /\ Capacity \in [Kinds -> Nat]
    /\ Limit \in [Users -> Nat]
    /\ DayLength \in Nat \ {0}
    /\ CoolOff \in Nat
    /\ MaxRuntime \in Nat
    /\ Retention \in Nat
    /\ MaxTime \in Nat
    /\ LastClaim \in Nat

VARIABLES
    now,      \* the clock
    jobs,     \* the jobs table
    spent,    \* llm_usage.generations, by user and day
    tasks,    \* the jobs whose task is alive, and how far it is
    callers,  \* [Callers -> Caller]: what each caller is about to do
    told,     \* [JobIds -> Nat]: how often a job's failure was latched as told
    lost      \* jobs whose task died without being able to say so

vars == <<now, jobs, spent, tasks, callers, told, lost>>

Time == 0 .. MaxTime
Day(t) == t \div DayLength
Days == 0 .. Day(MaxTime)
ActiveStatuses == {"pending", "running"}
Statuses == ActiveStatuses \cup {"done", "failed"}
\* finished matters once the job has ended; "quiet" stands for the error codes
\* the deck latches without telling anybody, "limit" for daily_limit_reached.
Job == [kind : Kinds, user : Users, status : Statuses, created : Nat, finished : Nat,
        error : {"none", "loud", "quiet", "limit"}]
Idle == [step |-> "idle"]
Origins == {"deck", "warm_up", "vote"}
Claiming == [step : {"claim"}, by : Origins, user : Users]
Submitting == [step : {"submit"}, job : JobIds]
Caller == {Idle} \cup Claiming \cup Submitting
KindOf(origin) == IF origin = "vote" THEN "profile" ELSE "batch"

IsActive(j) == j \in DOMAIN jobs /\ jobs[j].status \in ActiveStatuses
JobsOf(u, kind) == {j \in DOMAIN jobs : jobs[j].user = u /\ jobs[j].kind = kind}
\* active: this user's job of that kind that somebody is waiting for.
Active(u, kind) == {j \in JobsOf(u, kind) : IsActive(j)}
\* last_finished: the order of jobs that ended at the same time is left open.
LastFinished(u) ==
    LET ended == JobsOf(u, "batch") \ Active(u, "batch")
    IN  {j \in ended : \A i \in ended : jobs[i].finished <= jobs[j].finished}
\* _cooling_off.
Cooling(u, at) ==
    \E j \in LastFinished(u) : jobs[j].status = "failed" /\ jobs[j].finished + CoolOff > at
\* has_capacity: every task of the runner counts until it is done.
HasCapacity(kind) ==
    Cardinality({j \in DOMAIN tasks : tasks[j].kind = kind}) < Capacity[kind]
\* Who still refers to a job.
Named == DOMAIN tasks \cup {callers[c].job : c \in {x \in Callers : callers[x].step = "submit"}}

-----------------------------------------------------------------------------
Init ==
    /\ now = 0
    /\ jobs = Empty
    /\ spent = [u \in Users |-> [d \in Days |-> 0]]
    /\ tasks = Empty
    /\ callers = [c \in Callers |-> Idle]
    /\ told = [j \in JobIds |-> 0]
    /\ lost = {}

Tick ==
    /\ now < MaxTime
    /\ now' = now + 1
    /\ UNCHANGED <<jobs, spent, tasks, callers, told, lost>>

-----------------------------------------------------------------------------
(* Deciding to pay.                                                         *)

\* What each caller has seen when it goes on to claim.  The deck looked for a
\* cool-off (_start), the warm-up for work under way (_warmed); a rewrite only
\* looks at the runner (request_rewrite).
Look(c, u, origin) ==
    /\ callers[c] = Idle
    /\ HasCapacity(KindOf(origin))
    /\ origin = "deck" => ~Cooling(u, now)
    /\ origin = "warm_up" => Active(u, "batch") = {}
    /\ callers' = [callers EXCEPT ![c] = [step |-> "claim", by |-> origin, user |-> u]]
    /\ UNCHANGED <<now, jobs, spent, tasks, told, lost>>

NewJob(u, kind) ==
    [kind |-> kind, user |-> u, status |-> "pending", created |-> now, finished |-> 0,
     error |-> "none"]
Charged(u) == [spent EXCEPT ![u][Day(now)] = @ + 1]
\* A rewrite that finds the day spent leaves a failed row behind; a generation
\* rolls its row back.
OverLimit(j, u, kind) ==
    IF kind = "profile"
    THEN Put(jobs, j, [NewJob(u, kind) EXCEPT !.status = "failed", !.error = "limit",
                                              !.finished = now])
    ELSE jobs

ClaimUnlocked(c) ==  \* mutant: the running job is looked for before, not in, the transaction
    /\ callers[c].step = "claim"
    /\ now <= LastClaim
    /\ LET u == callers[c].user
           kind == KindOf(callers[c].by)
       IN  \E j \in JobIds \ (DOMAIN jobs \cup Named) :
              /\ spent[u][Day(now)] < Limit[u]
              /\ jobs' = Put(jobs, j, NewJob(u, kind))
              /\ spent' = Charged(u)
              /\ callers' = [callers EXCEPT ![c] = [step |-> "submit", job |-> j]]
              /\ told' = [told EXCEPT ![j] = 0]
              /\ lost' = lost \ {j}
    /\ UNCHANGED <<now, tasks>>
ClaimUncharged(c) ==  \* mutant: today's count is the one read with the household
    /\ callers[c].step = "claim"
    /\ now <= LastClaim
    /\ LET u == callers[c].user
           kind == KindOf(callers[c].by)
       IN  /\ Active(u, kind) = {}
           /\ \E j \in JobIds \ (DOMAIN jobs \cup Named) :
                 /\ spent[u][Day(now)] <= Limit[u]
                 /\ jobs' = Put(jobs, j, NewJob(u, kind))
                 /\ spent' = Charged(u)
                 /\ callers' = [callers EXCEPT ![c] = [step |-> "submit", job |-> j]]
                 /\ told' = [told EXCEPT ![j] = 0]
                 /\ lost' = lost \ {j}
    /\ UNCHANGED <<now, tasks>>
\* claim and reserve: the slot and the charge, or neither, in one transaction.
Claim(c) ==
    /\ callers[c].step = "claim"
    /\ now <= LastClaim
    /\ LET u == callers[c].user
           kind == KindOf(callers[c].by)
       IN  \/ /\ Active(u, kind) # {}
              /\ callers' = [callers EXCEPT ![c] = Idle]
              /\ UNCHANGED <<jobs, spent, told, lost>>
           \/ /\ Active(u, kind) = {}
              /\ \E j \in JobIds \ (DOMAIN jobs \cup Named) :
                   /\ told' = [told EXCEPT ![j] = 0]
                   /\ lost' = lost \ {j}
                   /\ IF spent[u][Day(now)] < Limit[u]
                      THEN /\ jobs' = Put(jobs, j, NewJob(u, kind))
                           /\ spent' = Charged(u)
                           /\ callers' = [callers EXCEPT ![c] = [step |-> "submit", job |-> j]]
                      ELSE /\ jobs' = OverLimit(j, u, kind)
                           /\ spent' = spent
                           /\ callers' = [callers EXCEPT ![c] = Idle]
    /\ UNCHANGED <<now, tasks>>

\* submit: a task is created whatever the runner is already running.
Submit(c) ==
    /\ callers[c].step = "submit"
    /\ LET j == callers[c].job IN
         tasks' = Put(tasks, j, [kind |-> IF j \in DOMAIN jobs THEN jobs[j].kind ELSE "batch",
                                 stage |-> "new"])
    /\ callers' = [callers EXCEPT ![c] = Idle]
    /\ UNCHANGED <<now, jobs, spent, told, lost>>

-----------------------------------------------------------------------------
(* The task.                                                                *)

\* jobs.finish and jobs.fail write whatever the row says now.
Ended(j, status, error) ==
    IF j \in DOMAIN jobs
    THEN [jobs EXCEPT ![j].status = status, ![j].error = error, ![j].finished = now]
    ELSE jobs

\* run and rewrite mark the row running if it is still pending.
Start(j) ==
    /\ j \in DOMAIN tasks
    /\ tasks[j].stage = "new"
    /\ tasks' = [tasks EXCEPT ![j].stage = "working"]
    /\ jobs' = IF j \in DOMAIN jobs /\ jobs[j].status = "pending"
               THEN [jobs EXCEPT ![j].status = "running"] ELSE jobs
    /\ UNCHANGED <<now, spent, callers, told, lost>>

\* The batch or the profile and the job's end are one transaction.
Finish(j) ==
    /\ j \in DOMAIN tasks
    /\ tasks[j].stage = "working"
    /\ jobs' = Ended(j, "done", "none")
    /\ tasks' = Drop(tasks, {j})
    /\ UNCHANGED <<now, spent, callers, told, lost>>

\* A provider refused, or something unexpected was raised (_guarded), at any
\* stage; the charge stays.
Fail(j, error) ==
    /\ j \in DOMAIN tasks
    /\ jobs' = Ended(j, "failed", error)
    /\ tasks' = Drop(tasks, {j})
    /\ UNCHANGED <<now, spent, callers, told, lost>>

\* on_failure raised too, and is suppressed: the row is left as it was.
LoseTask(j) ==
    /\ j \in DOMAIN tasks
    /\ tasks' = Drop(tasks, {j})
    /\ lost' = lost \cup {j}
    /\ UNCHANGED <<now, jobs, spent, callers, told>>

-----------------------------------------------------------------------------
(* Closing what nobody will finish, and telling it.                         *)

Interrupted(J) ==
    [j \in DOMAIN jobs |->
        IF j \in J THEN [jobs[j] EXCEPT !.status = "failed", !.error = "quiet", !.finished = now]
        ELSE jobs[j]]

\* The process stops or dies, and comes back: whatever was in memory is gone,
\* and every active row is closed before anything is served.
Restart ==
    /\ DOMAIN tasks # {} \/ \E c \in Callers : callers[c] # Idle
    /\ jobs' = Interrupted({j \in DOMAIN jobs : IsActive(j)})
    /\ tasks' = Empty
    /\ callers' = [c \in Callers |-> Idle]
    /\ UNCHANGED <<now, spent, told, lost>>

Stuck == {j \in DOMAIN jobs : IsActive(j) /\ jobs[j].created + MaxRuntime < now}
Old == {j \in DOMAIN jobs : ~IsActive(j) /\ jobs[j].finished + Retention < now}
SweepNothingStuck ==  \* mutant: the sweep only deletes
    /\ Old # {}
    /\ jobs' = Drop(jobs, Old)
    /\ UNCHANGED <<now, spent, tasks, callers, told, lost>>
\* The daily swipe purge: close_stuck, then purge, in one transaction.
Sweep ==
    /\ Stuck \cup Old # {}
    /\ jobs' = Drop(Interrupted(Stuck), Old)
    /\ UNCHANGED <<now, spent, tasks, callers, told, lost>>

\* _report_failure: the last generation's failure is latched by one poll.
Report(u) ==
    /\ Active(u, "batch") = {}
    /\ \E j \in LastFinished(u) :
         /\ jobs[j].status = "failed"
         /\ told[j] = 0
         /\ told' = [told EXCEPT ![j] = 1]
    /\ UNCHANGED <<now, jobs, spent, tasks, callers, lost>>

Next ==
    \/ Tick
    \/ \E c \in Callers, u \in Users, origin \in Origins : Look(c, u, origin)
    \/ \E c \in Callers : Claim(c) \/ Submit(c)
    \/ \E j \in JobIds : Start(j) \/ Finish(j) \/ LoseTask(j)
    \/ \E j \in JobIds, error \in {"loud", "quiet"} : Fail(j, error)
    \/ Restart
    \/ Sweep
    \/ \E u \in Users : Report(u)

Spec == Init /\ [][Next]_vars

\* The clock runs and the daily sweep comes round.  Nothing is asked of the
\* tasks: a provider may keep one waiting for ever.
FairSpec == Spec /\ WF_vars(Tick) /\ WF_vars(Sweep)

-----------------------------------------------------------------------------
(* What must hold.                                                          *)

\* The rows are rows.
TypeOK ==
    /\ now \in Time
    /\ IsTable(jobs, JobIds, Job)
    /\ spent \in [Users -> [Days -> Nat]]
    /\ IsTable(tasks, JobIds, [kind : Kinds, stage : {"new", "working"}])
    /\ callers \in [Callers -> Caller]
    /\ told \in [JobIds -> Nat]
    /\ lost \subseteq JobIds

\* The job row is the lock: a user never has two of a kind to wait for, however
\* many phones poll and whatever is closed or restarted meanwhile (jobs.claim).
OneActiveJobEach ==
    \A u \in Users, kind \in Kinds : Cardinality(Active(u, kind)) <= 1

\* The cap is a cap on what was paid, across both kinds of work (usage.reserve).
LimitHolds == \A u \in Users, d \in Days : spent[u][d] <= Limit[u]

\* Nothing runs unpaid: a day was charged once for every job of it, the ones
\* refused for the day's limit excepted (claim: one transaction, rolled back).
EveryJobIsCharged ==
    \A u \in Users, d \in Days :
        Cardinality({j \in DOMAIN jobs :
            /\ jobs[j].user = u
            /\ Day(jobs[j].created) = d
            /\ jobs[j].error # "limit"}) <= spent[u][d]

\* A row that holds a user's slot is somebody's: a task's, a caller's about to
\* submit it, or one whose task could not even record its own failure.
ActiveJobsHaveAnOwner ==
    \A j \in DOMAIN jobs : IsActive(j) => j \in Named \cup lost

\* A job's end is its end, unless the sweep took it for stuck while its task
\* was alive (jobs.finish and jobs.fail compare nothing).
EndedJobsStayEnded ==
    [][\A j \in DOMAIN jobs \cap DOMAIN jobs' :
          ~IsActive(j) /\ jobs[j].created + MaxRuntime >= now
            => jobs'[j] = jobs[j]]_vars

\* Nobody waits for ever: whatever becomes of its task, a claimed job ends.
\* (Claims stop at LastClaim, so that the bounded clock reaches its age.)
JobsEnd == \A j \in JobIds : IsActive(j) ~> ~IsActive(j)
=============================================================================

-------------------------- MODULE Generations_proofs --------------------------
(***************************************************************************)
(* Proofs about Generations, and about Asking, the gate of Scores and Console *)
(* in the instance MCGenerations.                                            *)
(*                                                                         *)
(* Generations: one job of a kind at a time, the day's cap, a charge behind    *)
(* every job, and ends that stay ends.  Asking: what is shown was charged.     *)
(* Scores: no run of merged reports slides by more than one tolerance.         *)
(* Console: a call is made once and answered, and no dialog keeps one.         *)
(***************************************************************************)
EXTENDS MCGenerations, FiniteSetTheorems, TLAPS

Task == [kind : Kinds, stage : {"new", "working"}]

-----------------------------------------------------------------------------
(* What the operators keep.                                                 *)

\* A job's end is written into its row, if there is one, and nowhere else.
LEMMA EndedTable ==
    ASSUME IsTable(jobs, JobIds, Job), now \in Nat, NEW j,
           NEW status, status \in {"done", "failed"},
           NEW error, error \in {"none", "loud", "quiet"}
    PROVE  /\ IsTable(Ended(j, status, error), JobIds, Job)
           /\ DOMAIN Ended(j, status, error) = DOMAIN jobs
           /\ \A x \in DOMAIN jobs \ {j} : Ended(j, status, error)[x] = jobs[x]
           /\ j \in DOMAIN jobs =>
                /\ Ended(j, status, error)[j].kind = jobs[j].kind
                /\ Ended(j, status, error)[j].user = jobs[j].user
                /\ Ended(j, status, error)[j].created = jobs[j].created
                /\ Ended(j, status, error)[j].status = status
                /\ Ended(j, status, error)[j].error = error
<1>1. CASE j \notin DOMAIN jobs
  BY <1>1 DEF Ended
<1>2. CASE j \in DOMAIN jobs
  <2> DEFINE old == jobs[j]
             new == [old EXCEPT !.status = status, !.error = error, !.finished = now]
  <2>1. Ended(j, status, error) = [jobs EXCEPT ![j] = new]
    BY <1>2 DEF Ended
  <2>2. old \in Job
    BY <1>2 DEF IsTable
  <2>3. /\ new \in Job
        /\ new.kind = old.kind /\ new.user = old.user /\ new.created = old.created
        /\ new.status = status /\ new.error = error
    BY <2>2 DEF Job, Statuses, ActiveStatuses
  <2> HIDE DEF new
  <2>4. [jobs EXCEPT ![j] = new] \in [DOMAIN jobs -> Job]
    BY <2>3 DEF IsTable
  <2> QED
    BY <1>2, <2>1, <2>3, <2>4 DEF IsTable
<1> QED
  BY <1>1, <1>2

\* A job that starts changes its status alone.
LEMMA StartedTable ==
    ASSUME IsTable(jobs, JobIds, Job), NEW j, j \in DOMAIN jobs
    PROVE  LET started == [jobs EXCEPT ![j].status = "running"] IN
           /\ IsTable(started, JobIds, Job)
           /\ DOMAIN started = DOMAIN jobs
           /\ \A x \in DOMAIN jobs \ {j} : started[x] = jobs[x]
           /\ started[j] = [jobs[j] EXCEPT !.status = "running"]
           /\ started[j] \in Job
<1>1. [jobs[j] EXCEPT !.status = "running"] \in Job
  BY DEF IsTable, Job, Statuses, ActiveStatuses
<1> QED
  BY <1>1 DEF IsTable

\* What is closed for its task is gone or stuck keeps its owner and its day.
LEMMA InterruptedTable ==
    ASSUME IsTable(jobs, JobIds, Job), now \in Nat, NEW J
    PROVE  /\ IsTable(Interrupted(J), JobIds, Job)
           /\ DOMAIN Interrupted(J) = DOMAIN jobs
           /\ \A x \in DOMAIN jobs \ J : Interrupted(J)[x] = jobs[x]
           /\ \A x \in DOMAIN jobs \cap J :
                /\ Interrupted(J)[x].kind = jobs[x].kind
                /\ Interrupted(J)[x].user = jobs[x].user
                /\ Interrupted(J)[x].created = jobs[x].created
                /\ Interrupted(J)[x].status = "failed"
                /\ Interrupted(J)[x].error = "quiet"
<1>1. /\ DOMAIN Interrupted(J) = DOMAIN jobs
      /\ \A x \in DOMAIN jobs \ J : Interrupted(J)[x] = jobs[x]
  BY DEF Interrupted
<1>2. ASSUME NEW x \in DOMAIN jobs \cap J
      PROVE  /\ Interrupted(J)[x] \in Job
             /\ Interrupted(J)[x].kind = jobs[x].kind
             /\ Interrupted(J)[x].user = jobs[x].user
             /\ Interrupted(J)[x].created = jobs[x].created
             /\ Interrupted(J)[x].status = "failed"
             /\ Interrupted(J)[x].error = "quiet"
  <2>1. jobs[x] \in Job
    BY <1>2 DEF IsTable
  <2>2. Interrupted(J)[x] = [jobs[x] EXCEPT !.status = "failed", !.error = "quiet", !.finished = now]
    BY <1>2 DEF Interrupted
  <2> QED
    BY <2>1, <2>2 DEF Job, Statuses, ActiveStatuses
<1>3. \A x \in DOMAIN jobs : Interrupted(J)[x] \in Job
  BY <1>1, <1>2 DEF IsTable
<1>4. Interrupted(J) = [x \in DOMAIN jobs |-> Interrupted(J)[x]]
  BY DEF Interrupted
<1>5. IsTable(Interrupted(J), JobIds, Job)
  BY <1>1, <1>3, <1>4 DEF IsTable
<1> QED
  BY <1>1, <1>2, <1>5

\* A claim writes a row of the caller's kind and user (claim, and the row a
\* rewrite over the limit leaves behind).
LEMMA NewJobTyped ==
    ASSUME now \in Nat, NEW u \in Users, NEW kind \in Kinds
    PROVE  /\ NewJob(u, kind) \in Job
           /\ [NewJob(u, kind) EXCEPT !.status = "failed", !.error = "limit",
                                      !.finished = now] \in Job
  BY DEF NewJob, Job, Statuses, ActiveStatuses

\* Adding one at a key, if the function has it.
LEMMA AddOne ==
    ASSUME NEW S, NEW f \in [S -> Nat], NEW k
    PROVE  /\ [f EXCEPT ![k] = f[k] + 1] \in [S -> Nat]
           /\ \A d \in S : [f EXCEPT ![k] = f[k] + 1][d] = IF d = k THEN f[d] + 1 ELSE f[d]
<1>1. CASE k \in S
  BY <1>1
<1>2. CASE k \notin S
  BY <1>2
<1> QED
  BY <1>1, <1>2

\* A charge adds one to one day of one user (usage.reserve).
LEMMA ChargedTyped ==
    ASSUME spent \in [Users -> [Days -> Nat]], NEW u \in Users
    PROVE  /\ Charged(u) \in [Users -> [Days -> Nat]]
           /\ \A v \in Users, d \in Days :
                Charged(u)[v][d] = IF v = u /\ d = Day(now) THEN spent[v][d] + 1 ELSE spent[v][d]
<1> DEFINE days == [spent[u] EXCEPT ![Day(now)] = @ + 1]
<1>1. Charged(u) = [spent EXCEPT ![u] = days]
  BY DEF Charged
<1>2. spent[u] \in [Days -> Nat]
  OBVIOUS
<1>3. /\ days \in [Days -> Nat]
      /\ \A d \in Days : days[d] = IF d = Day(now) THEN spent[u][d] + 1 ELSE spent[u][d]
  BY <1>2, AddOne
<1> HIDE DEF days
<1> QED
  BY <1>1, <1>3

-----------------------------------------------------------------------------
(* The type invariant.                                                      *)

\* Everybody idle, and no row.
LEMMA InitTypeOK == Init => TypeOK
  BY GenerationsAssumption DEF Init, TypeOK, Time, IsTable, Empty, Caller, Idle

\* Every step writes values of the columns' types.
LEMMA NextTypeOK == TypeOK /\ [Next]_vars => TypeOK'
<1> SUFFICES ASSUME TypeOK, [Next]_vars PROVE TypeOK'
  OBVIOUS
<1> USE DEF TypeOK
<1> now \in Nat
  BY GenerationsAssumption DEF Time
<1>1. CASE Tick
  BY <1>1, GenerationsAssumption DEF Tick, Time
<1>2. ASSUME NEW c \in Callers, NEW u \in Users, NEW origin \in Origins, Look(c, u, origin)
      PROVE  TypeOK'
  BY <1>2 DEF Look, Caller, Claiming
<1>3. ASSUME NEW c \in Callers, Claim(c) PROVE TypeOK'
  <2> DEFINE u == callers[c].user
             kind == KindOf(callers[c].by)
  <2>1. u \in Users /\ kind \in Kinds
    BY <1>3 DEF Claim, Caller, Claiming, Submitting, Idle, KindOf, Kinds
  <2>2. CASE Active(u, kind) # {}
    BY <1>3, <2>2 DEF Claim, Caller
  <2>3. ASSUME NEW j \in JobIds,
               told' = [told EXCEPT ![j] = 0], lost' = lost \ {j},
               \/ /\ jobs' = Put(jobs, j, NewJob(u, kind))
                  /\ spent' = Charged(u)
                  /\ callers' = [callers EXCEPT ![c] = [step |-> "submit", job |-> j]]
               \/ /\ jobs' = OverLimit(j, u, kind)
                  /\ spent' = spent
                  /\ callers' = [callers EXCEPT ![c] = Idle]
        PROVE  TypeOK'
    <3> DEFINE row == NewJob(u, kind)
               refused == [row EXCEPT !.status = "failed", !.error = "limit", !.finished = now]
    <3>a. row \in Job /\ refused \in Job
      BY <2>1, NewJobTyped
    <3>b. jobs' \in {jobs, Put(jobs, j, row), Put(jobs, j, refused)}
      BY <2>3 DEF OverLimit
    <3> HIDE DEF row, refused
    <3>c. IsTable(Put(jobs, j, row), JobIds, Job)
      BY <3>a, PutTable
    <3>d. IsTable(Put(jobs, j, refused), JobIds, Job)
      BY <3>a, PutTable
    <3>1. IsTable(jobs', JobIds, Job)
      BY <3>b, <3>c, <3>d
    <3>2. spent' \in [Users -> [Days -> Nat]]
      BY <2>1, <2>3, ChargedTyped
    <3>3. callers' \in [Callers -> Caller]
      BY <2>3 DEF Caller, Submitting
    <3> QED
      BY <1>3, <2>3, <3>1, <3>2, <3>3 DEF Claim
  <2> QED
    BY <1>3, <2>2, <2>3 DEF Claim
<1>4. ASSUME NEW c \in Callers, Submit(c) PROVE TypeOK'
  <2> DEFINE j == callers[c].job
             task == [kind |-> IF j \in DOMAIN jobs THEN jobs[j].kind ELSE "batch", stage |-> "new"]
  <2>1. j \in JobIds
    BY <1>4 DEF Submit, Caller, Claiming, Submitting, Idle
  <2>2. task \in [kind : Kinds, stage : {"new", "working"}]
    BY DEF IsTable, Job, Kinds
  <2>a. tasks' = Put(tasks, j, task)
    BY <1>4 DEF Submit
  <2> HIDE DEF j, task
  <2>3. IsTable(tasks', JobIds, [kind : Kinds, stage : {"new", "working"}])
    BY <2>a, <2>1, <2>2, PutTable
  <2>4. callers' = [callers EXCEPT ![c] = Idle] /\ Idle \in Caller
    BY <1>4 DEF Submit, Caller
  <2>5. callers' \in [Callers -> Caller]
    BY <2>4
  <2> QED
    BY <1>4, <2>3, <2>5 DEF Submit
<1>5. ASSUME NEW j \in JobIds, Start(j) PROVE TypeOK'
  <2>1. IsTable(jobs', JobIds, Job)
    BY <1>5, StartedTable DEF Start
  <2>2. IsTable(tasks', JobIds, Task)
    BY <1>5 DEF Start, IsTable, Task
  <2> QED
    BY <1>5, <2>1, <2>2 DEF Start, Task
<1>6. ASSUME NEW j \in JobIds, Finish(j) PROVE TypeOK'
  BY <1>6, EndedTable, DropTable DEF Finish
<1>7. ASSUME NEW j \in JobIds, LoseTask(j) PROVE TypeOK'
  BY <1>7, DropTable DEF LoseTask
<1>8. ASSUME NEW j \in JobIds, NEW error \in {"loud", "quiet"}, Fail(j, error) PROVE TypeOK'
  BY <1>8, EndedTable, DropTable DEF Fail
<1>9. CASE Restart
  <2>1. IsTable(jobs', JobIds, Job)
    BY <1>9, InterruptedTable DEF Restart
  <2> QED
    BY <1>9, <2>1 DEF Restart, IsTable, Empty, Caller
<1>10. CASE Sweep
  <2>1. IsTable(Interrupted(Stuck), JobIds, Job)
    BY InterruptedTable
  <2>2. IsTable(Drop(Interrupted(Stuck), Old), JobIds, Job)
    BY <2>1, DropTable
  <2> QED
    BY <1>10, <2>2 DEF Sweep
<1>11. ASSUME NEW u \in Users, Report(u) PROVE TypeOK'
  <2>1. PICK j \in LastFinished(u) : told' = [told EXCEPT ![j] = 1]
    BY <1>11 DEF Report
  <2>2. told' \in [JobIds -> Nat]
    BY <2>1
  <2> QED
    BY <1>11, <2>2 DEF Report
<1>12. CASE UNCHANGED vars
  BY <1>12 DEF vars
<1> QED
  BY <1>1, <1>2, <1>3, <1>4, <1>5, <1>6, <1>7, <1>8, <1>9, <1>10, <1>11, <1>12 DEF Next

\* Every reachable state has its types, for any number of users, jobs and callers.
THEOREM GenerationsTyped == Spec => []TypeOK
  BY InitTypeOK, NextTypeOK, PTL DEF Spec

-----------------------------------------------------------------------------
(* What a step does to the rows.                                            *)

\* No step but a claim adds a row or a charge, and none moves a row to another
\* user, kind or time of claim, or makes an ended job active again.
RowsKept ==
    /\ spent' = spent
    /\ DOMAIN jobs' \subseteq DOMAIN jobs
    /\ \A x \in DOMAIN jobs' :
         /\ jobs'[x].user = jobs[x].user
         /\ jobs'[x].kind = jobs[x].kind
         /\ jobs'[x].created = jobs[x].created
         /\ jobs'[x].status \in ActiveStatuses => jobs[x].status \in ActiveStatuses
         /\ jobs'[x].error = "limit" => jobs[x].error = "limit"

\* Rows that are not touched at all are kept.
LEMMA SameRowsKept == jobs' = jobs /\ spent' = spent => RowsKept
  BY DEF RowsKept

\* Everything but a claim (finish, fail, set_running, close_stuck, purge and the
\* close at start) only ends or deletes rows.
LEMMA StepKeepsRows ==
    ASSUME TypeOK, [Next]_vars, \A c \in Callers : ~Claim(c)
    PROVE  RowsKept
<1> USE DEF TypeOK
<1> now \in Nat
  BY GenerationsAssumption DEF Time
<1>1. CASE Tick
  BY <1>1, SameRowsKept DEF Tick
<1>2. ASSUME NEW c \in Callers, NEW u \in Users, NEW origin \in Origins, Look(c, u, origin)
      PROVE  RowsKept
  BY <1>2, SameRowsKept DEF Look
<1>4. ASSUME NEW c \in Callers, Submit(c) PROVE RowsKept
  BY <1>4, SameRowsKept DEF Submit
<1>5. ASSUME NEW j \in JobIds, Start(j) PROVE RowsKept
  <2>1. CASE j \in DOMAIN jobs /\ jobs[j].status = "pending"
    <3>1. jobs' = [jobs EXCEPT ![j].status = "running"] /\ spent' = spent
      BY <1>5, <2>1 DEF Start
    <3>2. jobs[j] \in Job
      BY <2>1 DEF IsTable
    <3>3. /\ DOMAIN jobs' = DOMAIN jobs
          /\ \A x \in DOMAIN jobs \ {j} : jobs'[x] = jobs[x]
          /\ jobs'[j] = [jobs[j] EXCEPT !.status = "running"]
      BY <2>1, <3>1, StartedTable
    <3> QED
      BY <2>1, <3>1, <3>2, <3>3 DEF RowsKept, Job, ActiveStatuses
  <2>2. CASE ~(j \in DOMAIN jobs /\ jobs[j].status = "pending")
    BY <1>5, <2>2, SameRowsKept DEF Start
  <2> QED
    BY <2>1, <2>2
<1>6. ASSUME NEW j \in JobIds, Finish(j) PROVE RowsKept
  <2>1. jobs' = Ended(j, "done", "none") /\ spent' = spent
    BY <1>6 DEF Finish
  <2> QED
    BY <2>1, EndedTable DEF RowsKept, ActiveStatuses
<1>7. ASSUME NEW j \in JobIds, LoseTask(j) PROVE RowsKept
  BY <1>7, SameRowsKept DEF LoseTask
<1>8. ASSUME NEW j \in JobIds, NEW error \in {"loud", "quiet"}, Fail(j, error) PROVE RowsKept
  <2>1. jobs' = Ended(j, "failed", error) /\ spent' = spent
    BY <1>8 DEF Fail
  <2> QED
    BY <2>1, EndedTable DEF RowsKept, ActiveStatuses
<1>9. CASE Restart
  <2> DEFINE J == {j \in DOMAIN jobs : IsActive(j)}
  <2>1. jobs' = Interrupted(J) /\ spent' = spent
    BY <1>9 DEF Restart
  <2> HIDE DEF J
  <2> QED
    BY <2>1, InterruptedTable DEF RowsKept, ActiveStatuses
<1>10. CASE Sweep
  <2>1. jobs' = Drop(Interrupted(Stuck), Old) /\ spent' = spent
    BY <1>10 DEF Sweep
  <2>2. /\ IsTable(Interrupted(Stuck), JobIds, Job)
        /\ DOMAIN Interrupted(Stuck) = DOMAIN jobs
        /\ \A x \in DOMAIN jobs \ Stuck : Interrupted(Stuck)[x] = jobs[x]
        /\ \A x \in DOMAIN jobs \cap Stuck :
                /\ Interrupted(Stuck)[x].kind = jobs[x].kind
                /\ Interrupted(Stuck)[x].user = jobs[x].user
                /\ Interrupted(Stuck)[x].created = jobs[x].created
                /\ Interrupted(Stuck)[x].status = "failed"
                /\ Interrupted(Stuck)[x].error = "quiet"
    BY InterruptedTable
  <2> DEFINE closed == Interrupted(Stuck)
  <2>a. DOMAIN Drop(closed, Old) = DOMAIN closed \ Old
    BY DEF Drop
  <2>b. \A x \in DOMAIN closed \ Old : Drop(closed, Old)[x] = closed[x]
    BY DEF Drop
  <2>3. /\ DOMAIN jobs' = DOMAIN jobs \ Old
        /\ \A x \in DOMAIN jobs \ Old : jobs'[x] = Interrupted(Stuck)[x]
    BY <2>1, <2>2, <2>a, <2>b
  <2> SUFFICES ASSUME NEW x \in DOMAIN jobs'
               PROVE  /\ jobs'[x].user = jobs[x].user
                      /\ jobs'[x].kind = jobs[x].kind
                      /\ jobs'[x].created = jobs[x].created
                      /\ jobs'[x].status \in ActiveStatuses => jobs[x].status \in ActiveStatuses
                      /\ jobs'[x].error = "limit" => jobs[x].error = "limit"
    BY <2>1, <2>3 DEF RowsKept
  <2>4. CASE x \in Stuck
    <3>1. x \in DOMAIN jobs \cap Stuck /\ jobs'[x] = Interrupted(Stuck)[x]
      BY <2>3, <2>4
    <3>2. jobs'[x].status = "failed" /\ jobs'[x].error = "quiet"
      BY <2>2, <3>1
    <3> QED
      BY <2>2, <3>1, <3>2 DEF ActiveStatuses
  <2>5. CASE x \notin Stuck
    BY <2>2, <2>3, <2>5
  <2> QED
    BY <2>4, <2>5
<1>11. ASSUME NEW u \in Users, Report(u) PROVE RowsKept
  BY <1>11, SameRowsKept DEF Report
<1>12. CASE UNCHANGED vars
  BY <1>12, SameRowsKept DEF vars
<1> QED
  BY <1>1, <1>2, <1>4, <1>5, <1>6, <1>7, <1>8, <1>9, <1>10, <1>11, <1>12 DEF Next

\* What a claim that gets past the lock leaves: a new row under an id nobody
\* refers to, active and charged, or ended and refused for the day's limit.
Granted(c, j) ==
    /\ jobs' = Put(jobs, j, NewJob(callers[c].user, KindOf(callers[c].by)))
    /\ spent[callers[c].user][Day(now)] < Limit[callers[c].user]
    /\ spent' = Charged(callers[c].user)
    /\ callers' = [callers EXCEPT ![c] = [step |-> "submit", job |-> j]]
Refused(c, j) ==
    /\ jobs' = OverLimit(j, callers[c].user, KindOf(callers[c].by))
    /\ spent' = spent
    /\ callers' = [callers EXCEPT ![c] = Idle]

\* A claim finds the slot taken, is granted it, or is refused (claim, reserve).
LEMMA ClaimCases ==
    ASSUME NEW c \in Callers, Claim(c)
    PROVE  \/ /\ jobs' = jobs /\ spent' = spent
              /\ callers' = [callers EXCEPT ![c] = Idle]
           \/ /\ Active(callers[c].user, KindOf(callers[c].by)) = {}
              /\ \E j \in JobIds \ (DOMAIN jobs \cup Named) :
                   Granted(c, j) \/ Refused(c, j)
  BY DEF Claim, Granted, Refused

-----------------------------------------------------------------------------
(* One job of a kind at a time.                                             *)

\* The lock as an invariant of rows: two active rows of one user and one kind
\* are the same row.
OneActive ==
    \A i, j \in DOMAIN jobs :
        IsActive(i) /\ IsActive(j) /\ jobs[i].user = jobs[j].user /\ jobs[i].kind = jobs[j].kind
            => i = j

\* A claim looks for an active row in the transaction that adds one, and nothing
\* else makes a row active.
LEMMA NextOneActive == TypeOK /\ OneActive /\ [Next]_vars => OneActive'
<1> SUFFICES ASSUME TypeOK, OneActive, [Next]_vars PROVE OneActive'
  OBVIOUS
<1>1. ASSUME RowsKept PROVE OneActive'
  BY <1>1 DEF RowsKept, OneActive, IsActive
<1>2. ASSUME NEW c \in Callers, Claim(c) PROVE OneActive'
  <2> DEFINE u == callers[c].user
             kind == KindOf(callers[c].by)
  <2>1. CASE jobs' = jobs /\ spent' = spent
    BY <1>1, <2>1, SameRowsKept
  <2>2. ASSUME Active(u, kind) = {}, NEW j \in JobIds \ (DOMAIN jobs \cup Named),
               Granted(c, j) \/ Refused(c, j)
        PROVE  OneActive'
    <3>1. \A i \in DOMAIN jobs : ~(IsActive(i) /\ jobs[i].user = u /\ jobs[i].kind = kind)
      BY <2>2 DEF Active, JobsOf
    <3>2. CASE jobs' = jobs
      BY <3>2 DEF OneActive, IsActive
    <3>3. ASSUME NEW row, row.user = u, row.kind = kind, jobs' = Put(jobs, j, row)
          PROVE  OneActive'
      <4>1. /\ DOMAIN jobs' = DOMAIN jobs \cup {j}
            /\ jobs'[j] = row
            /\ \A x \in DOMAIN jobs : jobs'[x] = jobs[x]
        BY <2>2, <3>3 DEF Put
      <4> QED
        BY <3>1, <3>3, <4>1 DEF OneActive, IsActive
    <3>4. /\ NewJob(u, kind).user = u
          /\ NewJob(u, kind).kind = kind
      BY DEF NewJob
    <3> DEFINE refused == [NewJob(u, kind) EXCEPT !.status = "failed", !.error = "limit",
                                                  !.finished = now]
    <3>5. refused.user = u /\ refused.kind = kind
      BY DEF NewJob
    <3>6. jobs' \in {jobs, Put(jobs, j, NewJob(u, kind)), Put(jobs, j, refused)}
      BY <2>2 DEF Granted, Refused, OverLimit
    <3> HIDE DEF refused
    <3> QED
      BY <3>2, <3>3, <3>4, <3>5, <3>6
  <2> QED
    BY <1>2, <2>1, <2>2, ClaimCases
<1> QED
  BY <1>1, <1>2, StepKeepsRows

\* A user never has two generations, or two rewrites, to wait for: for any number
\* of phones polling, restarts and sweeps (jobs.claim).
THEOREM OneJobOfAKind == Spec => []OneActiveJobEach
<1>1. Init => OneActive
  BY DEF Init, OneActive, Empty
<1>2. OneActive => OneActiveJobEach
  <2> SUFFICES ASSUME OneActive, NEW u \in Users, NEW kind \in Kinds
               PROVE  Cardinality(Active(u, kind)) <= 1
    BY DEF OneActiveJobEach
  <2>1. CASE Active(u, kind) = {}
    BY <2>1, FS_EmptySet
  <2>2. CASE Active(u, kind) # {}
    <3>1. PICK j \in Active(u, kind) : TRUE
      BY <2>2
    <3>2. Active(u, kind) = {j}
      BY <3>1 DEF OneActive, Active, JobsOf
    <3>3. Cardinality({j}) = 1
      BY FS_Singleton
    <3> QED
      BY <3>2, <3>3
  <2> QED
    BY <2>1, <2>2
<1> QED
  BY <1>1, <1>2, InitTypeOK, NextTypeOK, NextOneActive, PTL DEF Spec

-----------------------------------------------------------------------------
(* The day's cap.                                                           *)

\* Only a granted claim charges, and it read the count it adds to.
LEMMA NextLimitHolds == TypeOK /\ LimitHolds /\ [Next]_vars => LimitHolds'
<1> SUFFICES ASSUME TypeOK, LimitHolds, [Next]_vars PROVE LimitHolds'
  OBVIOUS
<1>1. CASE spent' = spent
  BY <1>1 DEF LimitHolds
<1>2. ASSUME NEW c \in Callers, Claim(c) PROVE LimitHolds'
  <2> DEFINE u == callers[c].user
  <2>1. u \in Users
    BY <1>2 DEF Claim, TypeOK, Caller, Claiming, Submitting, Idle
  <2>2. ASSUME spent[u][Day(now)] < Limit[u], spent' = Charged(u) PROVE LimitHolds'
    <3>1. \A v \in Users, d \in Days :
             spent'[v][d] = IF v = u /\ d = Day(now) THEN spent[v][d] + 1 ELSE spent[v][d]
      BY <2>1, <2>2, ChargedTyped DEF TypeOK
    <3>2. \A v \in Users, d \in Days : spent[v][d] \in Nat /\ Limit[v] \in Nat
      BY GenerationsAssumption DEF TypeOK
    <3> SUFFICES ASSUME NEW v \in Users, NEW d \in Days PROVE spent'[v][d] <= Limit[v]
      BY DEF LimitHolds
    <3>3. spent[v][d] <= Limit[v]
      BY DEF LimitHolds
    <3>4. CASE v = u /\ d = Day(now)
      BY <2>2, <3>1, <3>2, <3>4
    <3>5. CASE ~(v = u /\ d = Day(now))
      BY <3>1, <3>3, <3>5
    <3> QED
      BY <3>4, <3>5
  <2> QED
    BY <1>1, <1>2, <2>2, ClaimCases DEF Granted, Refused
<1> QED
  BY <1>1, <1>2, StepKeepsRows DEF RowsKept

\* A household's day never costs more than the limit says, whatever the
\* interleaving of claims, for every limit and length of day (usage.reserve).
THEOREM CapOnWhatIsPaid == Spec => []LimitHolds
<1>1. Init => LimitHolds
  BY GenerationsAssumption DEF Init, LimitHolds
<1> QED
  BY <1>1, InitTypeOK, NextTypeOK, NextLimitHolds, PTL DEF Spec

-----------------------------------------------------------------------------
(* Who still refers to a row.                                               *)

\* A job has at most one task or one caller about to make it one.
OneOwner ==
    /\ \A c \in Callers : callers[c].step = "submit" => callers[c].job \notin DOMAIN tasks
    /\ \A c, d \in Callers :
         callers[c].step = "submit" /\ callers[d].step = "submit"
           /\ callers[c].job = callers[d].job => c = d

\* A row somebody refers to is active, or was taken for stuck; it is never one
\* that was refused for the day's limit.
NamedAreLive ==
    \A j \in DOMAIN jobs \cap Named :
        /\ jobs[j].error # "limit"
        /\ IsActive(j) \/ jobs[j].created + MaxRuntime < now

\* No error is written on a row that is still active.
ActiveAreClean == \A j \in DOMAIN jobs : IsActive(j) => jobs[j].error = "none"

\* The inductive invariant under all that follows.
Owned == TypeOK /\ OneOwner /\ NamedAreLive /\ ActiveAreClean /\ ActiveJobsHaveAnOwner

\* Nobody refers to a row, and none is active, before the first claim.
LEMMA InitOwned == Init => Owned
<1> SUFFICES ASSUME Init PROVE Owned
  OBVIOUS
<1>1. DOMAIN tasks = {} /\ DOMAIN jobs = {} /\ \A c \in Callers : callers[c].step = "idle"
  BY DEF Init, Empty, Idle
<1> QED
  BY <1>1, InitTypeOK DEF Owned, OneOwner, NamedAreLive, ActiveAreClean, ActiveJobsHaveAnOwner

\* Steps that leave the rows, the tasks and the submitting callers as they are.
LEMMA NobodyMoves ==
    ASSUME Owned, jobs' = jobs, DOMAIN tasks' = DOMAIN tasks, lost' = lost,
           now' \in Nat, now \in Nat, now' >= now,
           \A x \in Callers : /\ callers'[x].step = "submit" <=> callers[x].step = "submit"
                              /\ callers[x].step = "submit" => callers'[x] = callers[x]
    PROVE  (OneOwner /\ NamedAreLive /\ ActiveAreClean /\ ActiveJobsHaveAnOwner)'
<1>1. OneOwner'
  BY DEF Owned, OneOwner
<1>2. Named' = Named
  BY DEF Named
<1>3. \A j \in DOMAIN jobs : jobs[j].created \in Nat
  BY DEF Owned, TypeOK, IsTable, Job
<1>4. NamedAreLive'
  BY <1>2, <1>3, GenerationsAssumption DEF Owned, NamedAreLive, IsActive
<1> QED
  BY <1>1, <1>2, <1>4 DEF Owned, ActiveAreClean, ActiveJobsHaveAnOwner, IsActive

\* A task that ends leaves nobody that refers to its row.
LEMMA TaskGone ==
    ASSUME Owned, NEW j, j \in DOMAIN tasks, tasks' = Drop(tasks, {j}), callers' = callers
    PROVE  Named' = Named \ {j} /\ OneOwner'
<1>1. DOMAIN tasks' = DOMAIN tasks \ {j}
  BY DEF Drop
<1>2. \A c \in Callers : callers[c].step = "submit" => callers[c].job # j
  BY DEF Owned, OneOwner
<1>3. OneOwner'
  BY <1>1 DEF Owned, OneOwner
<1>4. Named' = Named \ {j}
  BY <1>1, <1>2 DEF Named
<1> QED
  BY <1>3, <1>4

\* The end a task writes is on the only row it refers to (finish and fail).
LEMMA TaskEnds ==
    ASSUME Owned, NEW j, j \in DOMAIN tasks, tasks' = Drop(tasks, {j}), callers' = callers,
           now' = now, lost' = lost,
           NEW status, status \in {"done", "failed"},
           NEW error, error \in {"none", "loud", "quiet"},
           jobs' = Ended(j, status, error)
    PROVE  (OneOwner /\ NamedAreLive /\ ActiveAreClean /\ ActiveJobsHaveAnOwner)'
<1> now \in Nat
  BY GenerationsAssumption DEF Owned, TypeOK, Time
<1> IsTable(jobs, JobIds, Job)
  BY DEF Owned, TypeOK
<1>1. Named' = Named \ {j} /\ OneOwner'
  BY TaskGone
<1>2. /\ DOMAIN jobs' = DOMAIN jobs
      /\ \A x \in DOMAIN jobs \ {j} : jobs'[x] = jobs[x]
      /\ j \in DOMAIN jobs => jobs'[j].status = status
  BY EndedTable
<1>3. NamedAreLive'
  BY <1>1, <1>2 DEF Owned, NamedAreLive, IsActive
<1>4. j \in DOMAIN jobs => ~IsActive(j)'
  BY <1>2 DEF IsActive, ActiveStatuses
<1>5. ActiveAreClean' /\ ActiveJobsHaveAnOwner'
  BY <1>1, <1>2, <1>4 DEF Owned, ActiveAreClean, ActiveJobsHaveAnOwner, IsActive
<1> QED
  BY <1>1, <1>3, <1>5

\* A claim takes an id nobody refers to, and is the only one to refer to it.
LEMMA ClaimOwned ==
    ASSUME Owned, NEW c \in Callers, Claim(c)
    PROVE  (OneOwner /\ NamedAreLive /\ ActiveAreClean /\ ActiveJobsHaveAnOwner)'
<1> DEFINE u == callers[c].user
           kind == KindOf(callers[c].by)
<1> now \in Nat
  BY GenerationsAssumption DEF Owned, TypeOK, Time
<1>1. /\ callers[c].step = "claim" /\ tasks' = tasks /\ now' = now
      /\ callers \in [Callers -> Caller]
  BY DEF Claim, Owned, TypeOK
<1>2. CASE Active(u, kind) # {}
  <2>1. jobs' = jobs /\ callers' = [callers EXCEPT ![c] = Idle] /\ lost' = lost
    BY <1>2 DEF Claim
  <2>2. \A x \in Callers : /\ callers'[x].step = "submit" <=> callers[x].step = "submit"
                           /\ callers[x].step = "submit" => callers'[x] = callers[x]
    BY <1>1, <2>1 DEF Idle
  <2> QED
    BY <1>1, <2>1, <2>2, NobodyMoves
<1>3. ASSUME NEW j \in JobIds \ (DOMAIN jobs \cup Named), lost' = lost \ {j}, Granted(c, j)
      PROVE  (OneOwner /\ NamedAreLive /\ ActiveAreClean /\ ActiveJobsHaveAnOwner)'
  <2>1. /\ callers'[c] = [step |-> "submit", job |-> j]
        /\ \A x \in Callers \ {c} : callers'[x] = callers[x]
    BY <1>1, <1>3 DEF Granted
  <2>2. /\ DOMAIN jobs' = DOMAIN jobs \cup {j}
        /\ jobs'[j] = NewJob(u, kind)
        /\ \A x \in DOMAIN jobs : jobs'[x] = jobs[x]
    BY <1>3 DEF Granted, Put
  <2>3. Named' = Named \cup {j}
    BY <1>1, <2>1 DEF Named
  <2>4. j \notin DOMAIN tasks /\ \A x \in Callers : callers[x].step = "submit" => callers[x].job # j
    BY <1>3 DEF Named
  <2>5. OneOwner'
    BY <1>1, <2>1, <2>4 DEF Owned, OneOwner
  <2>6. IsActive(j)' /\ jobs'[j].error = "none"
    BY <2>2 DEF IsActive, NewJob, ActiveStatuses
  <2>7. NamedAreLive'
    BY <1>1, <2>2, <2>3, <2>6 DEF Owned, NamedAreLive, IsActive
  <2>8. ActiveAreClean' /\ ActiveJobsHaveAnOwner'
    BY <1>3, <2>2, <2>3, <2>6 DEF Owned, ActiveAreClean, ActiveJobsHaveAnOwner, IsActive
  <2> QED
    BY <2>5, <2>7, <2>8
<1>4. ASSUME NEW j \in JobIds \ (DOMAIN jobs \cup Named), lost' = lost \ {j}, Refused(c, j)
      PROVE  (OneOwner /\ NamedAreLive /\ ActiveAreClean /\ ActiveJobsHaveAnOwner)'
  <2>1. /\ callers'[c].step = "idle"
        /\ \A x \in Callers \ {c} : callers'[x] = callers[x]
    BY <1>1, <1>4 DEF Refused, Idle
  <2>2. /\ DOMAIN jobs' \subseteq DOMAIN jobs \cup {j}
        /\ \A x \in DOMAIN jobs : x \in DOMAIN jobs' /\ jobs'[x] = jobs[x]
        /\ j \in DOMAIN jobs' => jobs'[j].status = "failed"
    BY <1>4 DEF Refused, OverLimit, Put, NewJob
  <2>3. Named' = Named
    BY <1>1, <2>1 DEF Named
  <2>4. OneOwner'
    BY <1>1, <2>1 DEF Owned, OneOwner
  <2>5. j \in DOMAIN jobs' => ~IsActive(j)'
    BY <2>2 DEF IsActive, ActiveStatuses
  <2>6. NamedAreLive'
    BY <1>1, <1>4, <2>2, <2>3 DEF Owned, NamedAreLive, IsActive
  <2>7. ActiveAreClean' /\ ActiveJobsHaveAnOwner'
    BY <1>4, <2>2, <2>3, <2>5 DEF Owned, ActiveAreClean, ActiveJobsHaveAnOwner, IsActive
  <2> QED
    BY <2>4, <2>6, <2>7
<1> QED
  <2>1. CASE Active(u, kind) = {}
    <3>1. \E j \in JobIds \ (DOMAIN jobs \cup Named) :
             lost' = lost \ {j} /\ (Granted(c, j) \/ Refused(c, j))
      BY <2>1 DEF Claim, Granted, Refused
    <3> QED
      BY <3>1, <1>3, <1>4
  <2> QED
    BY <1>2, <2>1

\* Every step keeps what is known of who refers to which row.
LEMMA NextOwned == Owned /\ [Next]_vars => Owned'
<1> SUFFICES ASSUME Owned, [Next]_vars
             PROVE  (OneOwner /\ NamedAreLive /\ ActiveAreClean /\ ActiveJobsHaveAnOwner)'
  BY NextTypeOK DEF Owned
<1> now \in Nat
  BY GenerationsAssumption DEF Owned, TypeOK, Time
<1> \A c \in Callers : callers[c].step = "submit" => callers[c].job \in JobIds
  BY DEF Owned, TypeOK, Caller, Submitting, Claiming, Idle
<1>1. CASE Tick
  <2>1. now' = now + 1 /\ jobs' = jobs /\ tasks' = tasks /\ lost' = lost /\ callers' = callers
    BY <1>1 DEF Tick
  <2> QED
    BY <2>1, NobodyMoves
<1>2. ASSUME NEW c \in Callers, NEW u \in Users, NEW origin \in Origins, Look(c, u, origin)
      PROVE  (OneOwner /\ NamedAreLive /\ ActiveAreClean /\ ActiveJobsHaveAnOwner)'
  <2>1. /\ callers[c] = Idle
        /\ callers' = [callers EXCEPT ![c] = [step |-> "claim", by |-> origin, user |-> u]]
        /\ now' = now /\ jobs' = jobs /\ tasks' = tasks /\ lost' = lost
    BY <1>2 DEF Look
  <2>2. \A x \in Callers : /\ callers'[x].step = "submit" <=> callers[x].step = "submit"
                           /\ callers[x].step = "submit" => callers'[x] = callers[x]
    BY <2>1 DEF Idle, Owned, TypeOK
  <2> QED
    BY <2>1, <2>2, NobodyMoves
<1>3. ASSUME NEW c \in Callers, Claim(c)
      PROVE  (OneOwner /\ NamedAreLive /\ ActiveAreClean /\ ActiveJobsHaveAnOwner)'
  BY <1>3, ClaimOwned
<1>4. ASSUME NEW c \in Callers, Submit(c)
      PROVE  (OneOwner /\ NamedAreLive /\ ActiveAreClean /\ ActiveJobsHaveAnOwner)'
  <2>1. /\ callers[c].step = "submit"
        /\ DOMAIN tasks' = DOMAIN tasks \cup {callers[c].job}
        /\ callers'[c].step = "idle"
        /\ \A x \in Callers \ {c} : callers'[x] = callers[x]
        /\ now' = now /\ jobs' = jobs /\ lost' = lost
    BY <1>4 DEF Submit, Put, Idle, Owned, TypeOK
  <2>2. OneOwner'
    BY <2>1 DEF Owned, OneOwner
  <2>3. Named' = Named
    BY <2>1 DEF Named
  <2> QED
    BY <2>1, <2>2, <2>3 DEF Owned, NamedAreLive, ActiveAreClean, ActiveJobsHaveAnOwner, IsActive
<1>5. ASSUME NEW j \in JobIds, Start(j)
      PROVE  (OneOwner /\ NamedAreLive /\ ActiveAreClean /\ ActiveJobsHaveAnOwner)'
  <2>1. DOMAIN tasks' = DOMAIN tasks /\ now' = now /\ callers' = callers /\ lost' = lost
    BY <1>5 DEF Start
  <2>2. Named' = Named /\ OneOwner'
    BY <2>1 DEF Named, Owned, OneOwner
  <2>3. CASE j \in DOMAIN jobs /\ jobs[j].status = "pending"
    <3>1. /\ jobs' = [jobs EXCEPT ![j].status = "running"]
          /\ IsTable(jobs, JobIds, Job)
      BY <1>5, <2>3 DEF Start, Owned, TypeOK
    <3>2. /\ DOMAIN jobs' = DOMAIN jobs
          /\ \A x \in DOMAIN jobs \ {j} : jobs'[x] = jobs[x]
          /\ jobs'[j] = [jobs[j] EXCEPT !.status = "running"]
      BY <2>3, <3>1, StartedTable
    <3>3. /\ jobs'[j].error = jobs[j].error /\ jobs'[j].created = jobs[j].created
          /\ IsActive(j) /\ IsActive(j)'
      BY <2>3, <3>1, <3>2 DEF IsActive, ActiveStatuses, IsTable, Job
    <3> QED
      BY <2>1, <2>2, <3>2, <3>3 DEF Owned, NamedAreLive, ActiveAreClean, ActiveJobsHaveAnOwner,
                                    IsActive
  <2>4. CASE jobs' = jobs
    BY <2>1, <2>2, <2>4 DEF Owned, NamedAreLive, ActiveAreClean, ActiveJobsHaveAnOwner, IsActive
  <2> QED
    BY <1>5, <2>3, <2>4 DEF Start
<1>6. ASSUME NEW j \in JobIds, Finish(j)
      PROVE  (OneOwner /\ NamedAreLive /\ ActiveAreClean /\ ActiveJobsHaveAnOwner)'
  BY <1>6, TaskEnds DEF Finish
<1>7. ASSUME NEW j \in JobIds, LoseTask(j)
      PROVE  (OneOwner /\ NamedAreLive /\ ActiveAreClean /\ ActiveJobsHaveAnOwner)'
  <2>1. /\ j \in DOMAIN tasks /\ tasks' = Drop(tasks, {j}) /\ callers' = callers
        /\ now' = now /\ jobs' = jobs /\ lost' = lost \cup {j}
    BY <1>7 DEF LoseTask
  <2>2. Named' = Named \ {j} /\ OneOwner'
    BY <2>1, TaskGone
  <2> QED
    BY <2>1, <2>2 DEF Owned, NamedAreLive, ActiveAreClean, ActiveJobsHaveAnOwner, IsActive
<1>8. ASSUME NEW j \in JobIds, NEW error \in {"loud", "quiet"}, Fail(j, error)
      PROVE  (OneOwner /\ NamedAreLive /\ ActiveAreClean /\ ActiveJobsHaveAnOwner)'
  BY <1>8, TaskEnds DEF Fail
<1>9. CASE Restart
  <2> DEFINE J == {j \in DOMAIN jobs : IsActive(j)}
  <2>1. /\ jobs' = Interrupted(J) /\ DOMAIN tasks' = {}
        /\ \A c \in Callers : callers'[c].step = "idle"
    BY <1>9 DEF Restart, Empty, Idle
  <2>2. Named' = {} /\ OneOwner'
    BY <2>1 DEF Named, OneOwner
  <2>3. /\ DOMAIN jobs' = DOMAIN jobs
        /\ \A x \in DOMAIN jobs \ J : jobs'[x] = jobs[x]
        /\ \A x \in J : jobs'[x].status = "failed"
    BY <2>1, InterruptedTable DEF Owned, TypeOK
  <2>4. \A x \in DOMAIN jobs' : ~IsActive(x)'
    BY <2>3 DEF IsActive, ActiveStatuses
  <2> QED
    BY <2>2, <2>4 DEF NamedAreLive, ActiveAreClean, ActiveJobsHaveAnOwner
<1>10. CASE Sweep
  <2> DEFINE closed == Interrupted(Stuck)
  <2>1. /\ jobs' = Drop(closed, Old) /\ tasks' = tasks /\ callers' = callers
        /\ lost' = lost /\ now' = now
    BY <1>10 DEF Sweep
  <2>2. /\ DOMAIN closed = DOMAIN jobs
        /\ \A x \in DOMAIN jobs \ Stuck : closed[x] = jobs[x]
        /\ \A x \in DOMAIN jobs \cap Stuck :
             /\ closed[x].created = jobs[x].created
             /\ closed[x].status = "failed"
             /\ closed[x].error = "quiet"
    BY InterruptedTable DEF Owned, TypeOK
  <2>3. DOMAIN jobs' = DOMAIN closed \ Old /\ \A x \in DOMAIN closed \ Old : jobs'[x] = closed[x]
    BY <2>1 DEF Drop
  <2>4. Named' = Named /\ OneOwner'
    BY <2>1 DEF Named, Owned, OneOwner
  <2>5. \A x \in Stuck : x \in DOMAIN jobs /\ IsActive(x) /\ jobs[x].created + MaxRuntime < now
    BY DEF Stuck
  <2> HIDE DEF closed
  <2>6. \A x \in DOMAIN jobs' :
           \/ jobs'[x] = jobs[x] /\ x \in DOMAIN jobs
           \/ /\ ~IsActive(x)' /\ jobs'[x].error = "quiet"
              /\ jobs'[x].created + MaxRuntime < now
    BY <2>2, <2>3, <2>5 DEF IsActive, ActiveStatuses
  <2> QED
    BY <2>1, <2>4, <2>6 DEF Owned, NamedAreLive, ActiveAreClean, ActiveJobsHaveAnOwner, IsActive
<1>11. ASSUME NEW u \in Users, Report(u)
       PROVE  (OneOwner /\ NamedAreLive /\ ActiveAreClean /\ ActiveJobsHaveAnOwner)'
  <2>1. now' = now /\ jobs' = jobs /\ tasks' = tasks /\ lost' = lost /\ callers' = callers
    BY <1>11 DEF Report
  <2> QED
    BY <2>1, NobodyMoves
<1>12. CASE UNCHANGED vars
  <2>1. now' = now /\ jobs' = jobs /\ tasks' = tasks /\ lost' = lost /\ callers' = callers
    BY <1>12 DEF vars
  <2> QED
    BY <2>1, NobodyMoves
<1> QED
  BY <1>1, <1>2, <1>3, <1>4, <1>5, <1>6, <1>7, <1>8, <1>9, <1>10, <1>11, <1>12 DEF Next

\* A slot is never held by nobody: an active row always has a task, or a caller
\* about to submit one, or had a task that could not record its own failure.
THEOREM SlotsAreSomebodys == Spec => []ActiveJobsHaveAnOwner
<1>1. Owned => ActiveJobsHaveAnOwner
  BY DEF Owned
<1> QED
  BY <1>1, InitOwned, NextOwned, PTL DEF Spec

-----------------------------------------------------------------------------
(* Ends stay ends, and nothing runs unpaid.                                 *)

\* A step writes into a row that is active or whose task is alive, and into no
\* other (finish, fail, set_running, close_stuck and the close at start).
LEMMA StepTouches ==
    ASSUME TypeOK, [Next]_vars, NEW x, x \in DOMAIN jobs, x \in DOMAIN jobs'
    PROVE  jobs'[x] = jobs[x] \/ IsActive(x) \/ x \in DOMAIN tasks
<1> USE DEF TypeOK
<1> now \in Nat
  BY GenerationsAssumption DEF Time
<1>1. CASE jobs' = jobs
  BY <1>1
<1>2. ASSUME NEW c \in Callers, Claim(c) PROVE jobs'[x] = jobs[x]
  BY <1>2, ClaimCases DEF Granted, Refused, OverLimit, Put
<1>3. ASSUME NEW j \in JobIds, Start(j) PROVE jobs'[x] = jobs[x] \/ x \in DOMAIN tasks
  <2>1. j \in DOMAIN tasks /\ (x # j => jobs'[x] = jobs[x])
    BY <1>3 DEF Start
  <2> QED
    BY <2>1
<1>4. ASSUME NEW j \in DOMAIN tasks, NEW status \in {"done", "failed"},
             NEW error \in {"none", "loud", "quiet"}, jobs' = Ended(j, status, error)
      PROVE  jobs'[x] = jobs[x] \/ x \in DOMAIN tasks
  BY <1>4, EndedTable
<1>5. CASE Restart
  <2>1. jobs' = Interrupted({j \in DOMAIN jobs : IsActive(j)})
    BY <1>5 DEF Restart
  <2> QED
    BY <2>1 DEF Interrupted
<1>6. CASE Sweep
  <2>1. jobs' = Drop(Interrupted(Stuck), Old)
    BY <1>6 DEF Sweep
  <2>2. jobs'[x] = Interrupted(Stuck)[x]
    BY <2>1 DEF Drop
  <2> QED
    BY <2>2 DEF Interrupted, Stuck
<1>7. CASE Tick
  BY <1>7, <1>1 DEF Tick
<1>8. ASSUME NEW c \in Callers, NEW u \in Users, NEW origin \in Origins, Look(c, u, origin)
      PROVE  jobs' = jobs
  BY <1>8 DEF Look
<1>9. ASSUME NEW c \in Callers, Submit(c) PROVE jobs' = jobs
  BY <1>9 DEF Submit
<1>10. ASSUME NEW j \in JobIds, Finish(j) PROVE jobs'[x] = jobs[x] \/ x \in DOMAIN tasks
  BY <1>10, <1>4 DEF Finish
<1>11. ASSUME NEW j \in JobIds, LoseTask(j) PROVE jobs' = jobs
  BY <1>11 DEF LoseTask
<1>12. ASSUME NEW j \in JobIds, NEW error \in {"loud", "quiet"}, Fail(j, error)
       PROVE  jobs'[x] = jobs[x] \/ x \in DOMAIN tasks
  BY <1>12, <1>4 DEF Fail
<1>13. ASSUME NEW u \in Users, Report(u) PROVE jobs' = jobs
  BY <1>13 DEF Report
<1>14. CASE UNCHANGED vars
  BY <1>14 DEF vars
<1> QED
  BY <1>1, <1>2, <1>3, <1>5, <1>6, <1>7, <1>8, <1>9, <1>10, <1>11, <1>12, <1>13, <1>14 DEF Next

\* A job that ended is never written again, as long as it was not taken for stuck:
\* whatever tasks, callers and restarts do (finish and fail compare nothing).
THEOREM EndsAreFinal == Spec => EndedJobsStayEnded
<1>1. ASSUME Owned, [Next]_vars
      PROVE  \A j \in DOMAIN jobs \cap DOMAIN jobs' :
                ~IsActive(j) /\ jobs[j].created + MaxRuntime >= now => jobs'[j] = jobs[j]
  <2> SUFFICES ASSUME NEW j \in DOMAIN jobs \cap DOMAIN jobs',
                      ~IsActive(j), jobs[j].created + MaxRuntime >= now
               PROVE  jobs'[j] = jobs[j]
    OBVIOUS
  <2>1. now \in Nat /\ jobs[j].created \in Nat /\ MaxRuntime \in Nat
    BY <1>1, GenerationsAssumption DEF Owned, TypeOK, Time, IsTable, Job
  <2>2. j \notin Named
    BY <1>1, <2>1 DEF Owned, NamedAreLive
  <2>3. j \notin DOMAIN tasks
    BY <2>2 DEF Named
  <2> QED
    BY <1>1, <2>3, StepTouches DEF Owned
<1> QED
  BY <1>1, InitOwned, NextOwned, PTL DEF Spec, EndedJobsStayEnded

\* The rows a day was charged for, one user's.
Charges(u, d) ==
    {j \in DOMAIN jobs :
        jobs[j].user = u /\ Day(jobs[j].created) = d /\ jobs[j].error # "limit"}

\* The inductive invariant: the rows are finitely many, and their number is what
\* the day's counter bounds.
Paid == Owned /\ IsFiniteSet(DOMAIN jobs) /\ EveryJobIsCharged

\* A granted claim adds one row and one charge; every other step only takes rows
\* away, since a row refused for the limit never becomes another.
LEMMA NextPaid == Paid /\ [Next]_vars => Paid'
<1> SUFFICES ASSUME Paid, [Next]_vars PROVE IsFiniteSet(DOMAIN jobs') /\ EveryJobIsCharged'
  BY NextOwned DEF Paid
<1> TypeOK /\ Owned /\ IsFiniteSet(DOMAIN jobs)
  BY DEF Paid, Owned
<1>a. \A u \in Users, d \in Days : Cardinality(Charges(u, d)) <= spent[u][d]
  BY DEF Paid, EveryJobIsCharged, Charges
<1>b. \A u, d : IsFiniteSet(Charges(u, d)) /\ Cardinality(Charges(u, d)) \in Nat
  <2> SUFFICES ASSUME NEW u, NEW d
               PROVE  IsFiniteSet(Charges(u, d)) /\ Cardinality(Charges(u, d)) \in Nat
    OBVIOUS
  <2>1. Charges(u, d) \subseteq DOMAIN jobs
    BY DEF Charges
  <2>2. IsFiniteSet(Charges(u, d))
    BY <2>1, FS_Subset
  <2> QED
    BY <2>2, FS_CardinalityType
<1>c. \A u \in Users, d \in Days : spent[u][d] \in Nat
  BY DEF TypeOK
<1>1. ASSUME DOMAIN jobs' \subseteq DOMAIN jobs, spent' = spent,
             \A u, d : Charges(u, d)' \subseteq Charges(u, d)
      PROVE  IsFiniteSet(DOMAIN jobs') /\ EveryJobIsCharged'
  <2>1. IsFiniteSet(DOMAIN jobs')
    BY <1>1, FS_Subset
  <2> SUFFICES ASSUME NEW u \in Users, NEW d \in Days
               PROVE  Cardinality(Charges(u, d)') <= spent'[u][d]
    BY <2>1 DEF EveryJobIsCharged, Charges
  <2>2. /\ IsFiniteSet(Charges(u, d)')
        /\ Cardinality(Charges(u, d)') <= Cardinality(Charges(u, d))
    BY <1>1, <1>b, FS_Subset
  <2>3. Cardinality(Charges(u, d)') \in Nat
    BY <2>2, FS_CardinalityType
  <2> QED
    BY <1>1, <1>a, <1>b, <1>c, <2>2, <2>3
<1>2. ASSUME NEW c \in Callers, Claim(c) PROVE IsFiniteSet(DOMAIN jobs') /\ EveryJobIsCharged'
  <2> DEFINE u == callers[c].user
             kind == KindOf(callers[c].by)
  <2>1. CASE jobs' = jobs /\ spent' = spent
    BY <1>1, <2>1 DEF Charges
  <2>2. ASSUME NEW j \in JobIds \ (DOMAIN jobs \cup Named), Refused(c, j)
        PROVE  IsFiniteSet(DOMAIN jobs') /\ EveryJobIsCharged'
    <3>1. CASE jobs' = jobs
      BY <2>1, <2>2, <3>1 DEF Refused
    <3>2. CASE jobs' # jobs
      <4>1. /\ DOMAIN jobs' = DOMAIN jobs \cup {j}
            /\ jobs'[j].error = "limit"
            /\ \A x \in DOMAIN jobs : jobs'[x] = jobs[x]
            /\ spent' = spent
        BY <2>2, <3>2 DEF Refused, OverLimit, Put, NewJob
      <4>2. \A v, d : Charges(v, d)' = Charges(v, d)
        BY <2>2, <4>1 DEF Charges
      <4>3. IsFiniteSet(DOMAIN jobs')
        BY <4>1, FS_AddElement
      <4> QED
        BY <1>a, <4>1, <4>2, <4>3 DEF EveryJobIsCharged, Charges
    <3> QED
      BY <3>1, <3>2
  <2>3. ASSUME NEW j \in JobIds \ (DOMAIN jobs \cup Named), Granted(c, j)
        PROVE  IsFiniteSet(DOMAIN jobs') /\ EveryJobIsCharged'
    <3>0. u \in Users
      BY <1>2 DEF Claim, TypeOK, Caller, Claiming, Submitting, Idle
    <3>1. /\ DOMAIN jobs' = DOMAIN jobs \cup {j}
          /\ jobs'[j] = NewJob(u, kind)
          /\ \A x \in DOMAIN jobs : jobs'[x] = jobs[x]
      BY <2>3 DEF Granted, Put
    <3>2. \A v \in Users, d \in Days :
             spent'[v][d] = IF v = u /\ d = Day(now) THEN spent[v][d] + 1 ELSE spent[v][d]
      BY <2>3, <3>0, ChargedTyped DEF Granted, TypeOK
    <3>3. IsFiniteSet(DOMAIN jobs')
      BY <3>1, FS_AddElement
    <3>4. jobs'[j].user = u /\ jobs'[j].created = now /\ jobs'[j].error = "none"
      BY <3>1 DEF NewJob
    <3> SUFFICES ASSUME NEW v \in Users, NEW d \in Days
                 PROVE  Cardinality(Charges(v, d)') <= spent'[v][d]
      BY <3>3 DEF EveryJobIsCharged, Charges
    <3> HIDE DEF u, kind
    <3>5. CASE v = u /\ d = Day(now)
      <4>1. Charges(v, d)' = Charges(v, d) \cup {j} /\ j \notin Charges(v, d)
        BY <2>3, <3>1, <3>4, <3>5 DEF Charges
      <4>2. Cardinality(Charges(v, d) \cup {j}) = Cardinality(Charges(v, d)) + 1
        BY <1>b, <4>1, FS_AddElement
      <4>3. Cardinality(Charges(v, d)') = Cardinality(Charges(v, d)) + 1
        BY <4>1, <4>2
      <4> QED
        BY <1>a, <1>b, <1>c, <3>2, <3>5, <4>3
    <3>6. CASE ~(v = u /\ d = Day(now))
      <4>1. Charges(v, d)' = Charges(v, d)
        BY <2>3, <3>1, <3>4, <3>6 DEF Charges
      <4> QED
        BY <1>a, <3>2, <3>6, <4>1
    <3> QED
      BY <3>5, <3>6
  <2> QED
    BY <1>2, <2>1, <2>2, <2>3, ClaimCases
<1>3. CASE \A c \in Callers : ~Claim(c)
  <2>1. RowsKept
    BY <1>3, StepKeepsRows
  <2>2. ASSUME NEW x \in DOMAIN jobs', jobs'[x].error # "limit" PROVE jobs[x].error # "limit"
    <3>1. x \in DOMAIN jobs
      BY <2>1 DEF RowsKept
    <3>2. jobs'[x] = jobs[x] \/ IsActive(x) \/ x \in DOMAIN tasks
      BY <3>1, StepTouches
    <3>3. x \in DOMAIN tasks => x \in Named
      BY DEF Named
    <3> QED
      BY <2>2, <3>1, <3>2, <3>3 DEF Owned, NamedAreLive, ActiveAreClean
  <2>3. \A u, d : Charges(u, d)' \subseteq Charges(u, d)
    BY <2>1, <2>2 DEF RowsKept, Charges
  <2> QED
    BY <1>1, <2>1, <2>3 DEF RowsKept
<1> QED
  BY <1>2, <1>3

\* No job of any user ever runs unpaid: a day's counter is at least the number of
\* rows it paid for, for any interleaving of claims, ends and purges (reserve).
THEOREM NothingRunsUnpaid == Spec => []EveryJobIsCharged
<1>1. Init => Paid
  <2> SUFFICES ASSUME Init PROVE IsFiniteSet(DOMAIN jobs) /\ EveryJobIsCharged
    BY InitOwned DEF Paid
  <2>1. DOMAIN jobs = {}
    BY DEF Init, Empty
  <2>2. \A u, d : Charges(u, d) = {}
    BY <2>1 DEF Charges
  <2>3. \A u \in Users, d \in Days : spent[u][d] = 0
    BY DEF Init
  <2>4. Cardinality({}) = 0 /\ IsFiniteSet({})
    BY FS_EmptySet
  <2>5. \A u \in Users, d \in Days : Cardinality(Charges(u, d)) <= spent[u][d]
    BY <2>2, <2>3, <2>4
  <2> QED
    BY <2>1, <2>4, <2>5 DEF EveryJobIsCharged, Charges
<1>2. Paid => EveryJobIsCharged
  BY DEF Paid
<1> QED
  BY <1>1, <1>2, NextPaid, PTL DEF Spec

-----------------------------------------------------------------------------
(* What a model call costs, and what is shown of it (Asking).              *)

\* A step of the instance is a step of Asking, or leaves it alone.
LEMMA AskingAlone ==
    /\ MCInit => A!Init
    /\ [MCNext]_MCVars => [A!Next]_A!vars
<1>1. ASSUME MCInit PROVE A!Init
  BY <1>1 DEF MCInit
<1>2. ASSUME [MCNext]_MCVars PROVE [A!Next]_A!vars
  BY <1>2 DEF MCNext, MCVars, Jobs, ofAsking, A!vars
<1> QED
  BY <1>1, <1>2

\* What was charged so far covers what is shown, what the batch's wrapper holds and what
\* the attempts of the call under way were reported to cost; a batch that came to
\* nothing is counted when it is stored, or with those nobody was left to count, once.
MeterInv ==
    /\ burnt \in Nat /\ billed \in Nat /\ unanswered \in Nat /\ forgotten \in Nat
    /\ usage.tokens \in Nat /\ usage.failures \in Nat
    /\ metered = [tokens |-> metered.tokens, failure |-> metered.failure]
    /\ usage = [tokens |-> usage.tokens, failures |-> usage.failures]
    /\ metered.tokens \in Nat /\ metered.failure \in BOOLEAN
    /\ step \in {"idle", "asking", "answered", "unanswered"}
    /\ step = "asking" => /\ metered.tokens = 0 /\ ~metered.failure
                          /\ usage.tokens + burnt <= billed
    /\ usage.tokens <= billed
    /\ step \in {"answered", "unanswered"} => usage.tokens + metered.tokens <= billed
    /\ step = "answered" => ~metered.failure
    /\ step = "unanswered" => metered.failure
    /\ step = "unanswered" => unanswered = usage.failures + forgotten + 1
    /\ step # "unanswered" => unanswered = usage.failures + forgotten

\* Nothing is charged at first.
LEMMA MeterInit == A!Init => MeterInv
  BY DEF A!Init, MeterInv

\* A call that raised is a failure of its batch.
LEMMA RaisedFails ==
    ASSUME MeterInv, A!Raised
    PROVE  /\ step' = "unanswered" /\ unanswered' = unanswered + 1
           /\ metered'.tokens = metered.tokens /\ metered'.failure
           /\ metered' = [tokens |-> metered'.tokens, failure |-> metered'.failure]
           /\ metered'.failure \in BOOLEAN
<1>1. step' = "unanswered" /\ unanswered' = unanswered + 1
  BY DEF A!Raised
<1>2. metered' = [tokens |-> metered.tokens, failure |-> TRUE]
  <2>1. metered' = [metered EXCEPT !.failure = TRUE]
    BY DEF A!Raised
  <2>2. metered = [tokens |-> metered.tokens, failure |-> metered.failure]
    BY DEF MeterInv
  <2> QED
    BY <2>1, <2>2
<1>3. metered'.failure = TRUE /\ metered'.tokens = metered.tokens
  BY <1>2
<1> QED
  BY <1>1, <1>2, <1>3

\* Every step keeps the charges covered.
LEMMA MeterNext == MeterInv /\ [A!Next]_A!vars => MeterInv'
<1> SUFFICES ASSUME MeterInv, [A!Next]_A!vars PROVE MeterInv'
  OBVIOUS
<1>0. PromptTokens \in Nat /\ Answers \subseteq Nat
  BY AskingAssumption DEF A!AskingAssumption
<1>1. CASE A!Start
  BY <1>1 DEF MeterInv, A!Start
<1>2. CASE A!Simplify
  BY <1>2 DEF MeterInv, A!Simplify
<1>3. CASE A!Refuse
  <2>1. /\ step = "asking" /\ A!Raised
        /\ UNCHANGED <<attempt, rung, burnt, reports, usage, billed, made, forgotten>>
    BY <1>3 DEF A!Refuse
  <2> QED
    BY <2>1, RaisedFails DEF MeterInv
<1>4. ASSUME NEW answer \in Answers, A!Misfit(answer) PROVE MeterInv'
  <2>1. answer \in Nat /\ PromptTokens \in Nat
    BY <1>0
  <2>2. /\ step = "asking" /\ billed' = billed + PromptTokens + answer
        /\ burnt' = burnt + PromptTokens + answer \/ burnt' = burnt
        /\ usage' = usage /\ forgotten' = forgotten
    BY <1>4, <2>1 DEF MeterInv, A!Misfit
  <2>3. CASE UNCHANGED <<step, metered, meter, unanswered>>
    BY <2>1, <2>2, <2>3 DEF MeterInv
  <2>4. CASE A!Raised
    BY <2>1, <2>2, <2>4, RaisedFails DEF MeterInv
  <2> QED
    BY <1>4, <2>3, <2>4 DEF A!Misfit
<1>5. ASSUME NEW answer \in Answers, A!Fit(answer) PROVE MeterInv'
  <2>1. answer \in Nat /\ PromptTokens \in Nat
    BY <1>0
  <2>2. /\ step = "asking" /\ step' = "answered" /\ billed' = billed + PromptTokens + answer
        /\ burnt' = burnt + PromptTokens + answer \/ burnt' = burnt
        /\ metered' = [metered EXCEPT !.tokens = @ + burnt'] /\ UNCHANGED <<usage, unanswered, forgotten>>
    BY <1>5, <2>1 DEF MeterInv, A!Fit
  <2> QED
    BY <2>1, <2>2 DEF MeterInv
<1>6. CASE A!Store
  BY <1>6 DEF MeterInv, A!Store
<1>7. CASE A!Stop
  BY <1>7 DEF MeterInv, A!Stop
<1>8. CASE A!Die
  BY <1>8 DEF MeterInv, A!Die
<1>9. CASE UNCHANGED A!vars
  BY <1>9 DEF MeterInv, A!vars
<1> QED
  BY <1>1, <1>2, <1>3, <1>4, <1>5, <1>6, <1>7, <1>8, <1>9 DEF A!Next

\* The usage page never shows tokens the provider did not charge, and has every batch
\* the model drew nothing for as one failure (_MeteredProvider, fail), whatever was
\* retried, refused or raised on the way, but for those whose process or task died
\* under them, which it does not have.
THEOREM UsageIsEarned == MCSpec => []UsageIsNeverOverstated
<1>1. MeterInv => UsageIsNeverOverstated
  BY DEF MeterInv, UsageIsNeverOverstated, A!UsageIsNeverOverstated
<1>2. MCInit => MeterInv
  BY AskingAlone, MeterInit
<1>3. MeterInv /\ [MCNext]_MCVars => MeterInv'
  BY AskingAlone, MeterNext
<1> QED
  BY <1>1, <1>2, <1>3, PTL DEF MCSpec

-----------------------------------------------------------------------------
(* Reports that are merged one after the other (Scores).                   *)

\* What is merged was measured, and passed against the numbers that are committed now.
GateInv ==
    part = "gate" =>
        committed \in Reports /\ current \in Reports /\ P!Passes(committed, current)

\* A number that did not slide is there and within one tolerance.
LEMMA Within ==
    ASSUME NEW m \in P!Names, NEW was \in Reports, NEW now1 \in Reports,
           was.metrics[m] # None, ~P!Slid(m, was.metrics[m], now1.metrics[m])
    PROVE  /\ now1.metrics[m] # None
           /\ IF Metrics[m].better = "higher"
              THEN now1.metrics[m] >= was.metrics[m] - Tolerance
              ELSE now1.metrics[m] <= was.metrics[m] + Tolerance
<1>0. Tolerance \in Nat
  BY ScoresAssumption DEF P!ScoresAssumption
<1>1. was.metrics[m] \in Int \cup {None} /\ now1.metrics[m] \in Int \cup {None}
  BY ScoresAssumption DEF P!ScoresAssumption, P!Names
<1>2. now1.metrics[m] # None
  BY DEF P!Slid
<1>3. ASSUME NEW x \in Int, NEW y \in Int, NEW k \in {0, Tolerance}
      PROVE  (~(y < x - k) => y >= x - Tolerance) /\ (~(y > x + k) => y <= x + Tolerance)
  BY <1>0
<1>4. P!ToleranceOf(m, was.metrics[m]) \in {0, Tolerance}
  BY DEF P!ToleranceOf
<1> QED
  BY <1>1, <1>2, <1>3, <1>4 DEF P!Slid

\* What passes the gate keeps what the gate is there for.
LEMMA PassingKeeps == GateInv => SlidesDoNotAddUp
<1> SUFFICES ASSUME GateInv, part = "gate" PROVE P!SlidesDoNotAddUp
  BY DEF SlidesDoNotAddUp
<1>1. /\ committed \in Reports /\ current \in Reports
      /\ P!Own(committed, current) = {} /\ P!Clears(current) /\ ~P!OverBudget(current)
  BY DEF GateInv, P!Passes
<1>2. \A m \in P!Names : committed.metrics[m] # None =>
        /\ current.metrics[m] # None
        /\ IF Metrics[m].better = "higher"
           THEN current.metrics[m] >= committed.metrics[m] - Tolerance
           ELSE current.metrics[m] <= committed.metrics[m] + Tolerance
  BY <1>1, Within DEF P!Own
<1>3. ASSUME NEW m \in P!Names, ~Metrics[m].spent, Metrics[m].basis = "pool-free",
             \A floor \in floors : floor.metrics[m] # None
      PROVE  current.metrics[m] # None
  <2>1. PICK floor \in floors : P!Against(floor, current) = {}
    BY <1>1 DEF P!Clears
  <2>2. P!Comparable(m, current.counts) /\ P!Supports(floor, m)
    BY <1>3 DEF P!Comparable, P!Supports
  <2>3. ~P!Slid(m, floor.metrics[m], current.metrics[m])
    BY <1>3, <2>1, <2>2 DEF P!Against
  <2> QED
    BY <1>3, <2>3 DEF P!Slid
<1>4. ASSUME NEW m \in P!Names \ P!Named(current)
      PROVE  \E floor \in floors : floor.metrics[m] # None /\ P!Comparable(m, floor.counts)
                                    /\ P!Comparable(m, current.counts)
  BY DEF P!Named, P!Supports
<1>5. current.metrics.calls # None => current.metrics.calls <= Allowed
  <2>1. current.metrics["calls"] \in Int \cup {None}
    BY <1>1, ScoresAssumption DEF P!ScoresAssumption
  <2>2. current.metrics.calls = None \/ ~(current.metrics.calls > Allowed)
    BY <1>1 DEF P!OverBudget
  <2> QED
    BY <2>1, <2>2, ScoresAssumption DEF P!ScoresAssumption
<1> QED
  BY <1>2, <1>3, <1>4, <1>5 DEF P!SlidesDoNotAddUp

\* However many changes pass the gate and however often a slide is accepted into the
\* baseline, nothing slides further than one tolerance, nothing goes missing and no model
\* is called more often than was declared (gate.py, compare_to_baseline).
THEOREM SlidesStop == MCSpec => []SlidesDoNotAddUp
<1>1. MCInit => GateInv
  BY DEF MCInit, P!GateInit, GateInv
<1>2. GateInv /\ [MCNext]_MCVars => GateInv'
  <2> SUFFICES ASSUME GateInv, [MCNext]_MCVars PROVE GateInv'
    OBVIOUS
  <2>1. CASE part = "gate" /\ P!Gate /\ part' = part
    <3>1. PICK report \in Reports : P!Change(report) \/ P!Rebaseline(report)
      BY <2>1 DEF P!Gate
    <3>2. CASE P!Change(report)
      BY <2>1, <3>1, <3>2 DEF P!Change, GateInv, P!Passes, P!Clears
    <3>3. CASE P!Rebaseline(report)
      BY <2>1, <3>1, <3>3 DEF P!Rebaseline, GateInv, P!Passes, P!Clears
    <3> QED
      BY <3>1, <3>2, <3>3
  <2>2. CASE UNCHANGED <<part, ofGate>>
    BY <2>2 DEF ofGate, GateInv, P!Passes, P!Clears
  <2> QED
    BY <2>1, <2>2 DEF MCNext, MCVars, Jobs
<1> QED
  BY <1>1, <1>2, PassingKeeps, PTL DEF MCSpec

-----------------------------------------------------------------------------
(* The calls of a tab and its dialogs (Console).                           *)

\* A step of the instance is a step of Console, or leaves it alone.
LEMMA ConsoleAlone ==
    /\ MCInit => C!Init
    /\ [MCNext]_MCVars => [C!Next]_C!vars
<1>1. ASSUME MCInit PROVE C!Init
  BY <1>1 DEF MCInit
<1>2. ASSUME [MCNext]_MCVars PROVE [C!Next]_C!vars
  BY <1>2 DEF MCNext, MCVars, Jobs, ofConsole, C!vars
<1> QED
  BY <1>1, <1>2

\* What was done of a call is what its caller was told, or may be told: nothing but an
\* answer that has not arrived yet was done.
Done == {"ok", "completed"}
WasTold(r) ==
    /\ r.step = "settled"
    /\ \/ r.told = "done" /\ r.ran = 1
       \/ r.told = "lost" /\ r.ran \in {0, 1}
       \/ r.told \in {"refused", "not offered"} /\ r.ran = 0
UnderWay(r) ==
    /\ {"step", "tab", "what", "code", "via", "ran"} \subseteq DOMAIN r
    /\ r.tab \in Tabs
    /\ r.step \in {"sent", "answered", "reloading", "reloaded", "waiting"}
    /\ r.ran = IF r.step = "answered" /\ r.code \in Done THEN 1 ELSE 0
Fine(r) == WasTold(r) \/ UnderWay(r)

\* The calls that wait for a dialog are those it holds, and it is open.
DialogsHold ==
    /\ DOMAIN waiting = Tabs /\ DOMAIN asking = Tabs
    /\ \A t \in Tabs :
         /\ waiting[t] = {c \in Calls : request[c].step = "waiting" /\ request[c].tab = t}
         /\ waiting[t] # {} => asking[t]

CallsInv ==
    /\ DOMAIN request = Calls /\ \A c \in Calls : Fine(request[c])
    /\ DialogsHold

\* No call was made at first.
LEMMA CallsInit == C!Init => CallsInv
<1> SUFFICES ASSUME C!Init PROVE CallsInv
  OBVIOUS
<1>1. /\ asking = [t \in Tabs |-> FALSE] /\ waiting = [t \in Tabs |-> {}]
      /\ request = [c \in Calls |-> [step |-> "settled", told |-> "lost", ran |-> 0]]
  BY DEF C!Init
<1>2. DOMAIN request = Calls /\ \A c \in Calls : WasTold(request[c]) /\ request[c].step = "settled"
  BY <1>1 DEF WasTold
<1>3. DialogsHold
  BY <1>1, <1>2 DEF DialogsHold
<1> QED
  BY <1>2, <1>3 DEF CallsInv, Fine

\* What a caller is told is what was done.
LEMMA Telling ==
    ASSUME NEW r, NEW code,
           \/ code \in Done /\ r.ran = 1
           \/ code = "lost" /\ r.ran \in {0, 1}
           \/ code \notin Done \cup {"lost"} /\ r.ran = 0
    PROVE  WasTold(C!Outcome(r, code)) /\ C!Outcome(r, code).step = "settled"
<1>1. C!Outcome(r, code).step = "settled" /\ C!Outcome(r, code).ran = r.ran
  BY DEF C!Outcome
<1>2. CASE code \in Done
  <2>1. C!Outcome(r, code).told = "done"
    BY <1>2 DEF C!Outcome, Done
  <2> QED
    BY <1>1, <1>2, <2>1 DEF WasTold, Done
<1>3. CASE code = "lost"
  <2>1. C!Outcome(r, code).told = "lost"
    BY <1>3 DEF C!Outcome
  <2> QED
    BY <1>1, <1>3, <2>1 DEF WasTold, Done
<1>4. CASE code \notin Done \cup {"lost"}
  <2>1. C!Outcome(r, code).told \in {"refused", "not offered"}
    BY <1>4 DEF C!Outcome, Done
  <2> QED
    BY <1>1, <1>4, <2>1 DEF WasTold, Done
<1> QED
  BY <1>2, <1>3, <1>4

\* A step that leaves the dialogs and who waits for them alone.
LEMMA DialogsStay ==
    ASSUME CallsInv, UNCHANGED <<waiting, asking>>, DOMAIN request' = Calls,
           \A c \in Calls :
             /\ Fine(request'[c])
             /\ \/ request'[c].step = request[c].step /\ request'[c].tab = request[c].tab
                \/ request'[c].step # "waiting" /\ request[c].step # "waiting"
    PROVE  CallsInv'
<1>2. \A t \in Tabs : {c \in Calls : request'[c].step = "waiting" /\ request'[c].tab = t}
                        = {c \in Calls : request[c].step = "waiting" /\ request[c].tab = t}
  OBVIOUS
<1>3. DialogsHold'
  BY <1>2 DEF CallsInv, DialogsHold
<1> QED
  BY <1>3 DEF CallsInv, Fine, WasTold, UnderWay

\* The answer of the server, which did what was asked or did not.
LEMMA AnswerStep ==
    ASSUME CallsInv, NEW c \in Calls, NEW code, NEW s, C!Answer(c, code, s),
           request[c].step = "sent" \/ request[c].step = "reloading",
           UNCHANGED <<waiting, asking>>
    PROVE  CallsInv'
<1> DEFINE r == request[c]
           new == [r EXCEPT !.step = IF r.step = "sent" THEN "answered" ELSE "reloaded",
                            !.code = code, !.session = s, !.cookies = C!NoCookies, !.token = C!NoId,
                            !.user = C!Nobody,
                            !.ran = IF r.step = "sent" /\ code \in Done THEN r.ran + 1 ELSE r.ran]
<1>1. request' = [request EXCEPT ![c] = new]
  BY DEF C!Answer, Done
<1>2. UnderWay(r) /\ r.ran = 0
  BY DEF CallsInv, Fine, WasTold, UnderWay
<1>3. /\ DOMAIN new = DOMAIN r /\ new.tab = r.tab /\ new.code = code
      /\ new.step = (IF r.step = "sent" THEN "answered" ELSE "reloaded")
      /\ new.ran = (IF r.step = "sent" /\ code \in Done THEN 1 ELSE 0)
  <2>1. {"step", "tab", "code", "ran"} \subseteq DOMAIN r
    BY <1>2 DEF UnderWay
  <2>2. DOMAIN new = DOMAIN r /\ new.tab = r.tab
    BY <2>1
  <2>3. new.code = code /\ new.step = (IF r.step = "sent" THEN "answered" ELSE "reloaded")
    BY <2>1
  <2>4. new.ran = (IF r.step = "sent" /\ code \in Done THEN r.ran + 1 ELSE r.ran)
    BY <2>1
  <2> HIDE DEF new
  <2> QED
    BY <1>2, <2>2, <2>3, <2>4
<1> HIDE DEF new
<1>4. UnderWay(new) /\ new.step # "waiting" /\ r.step # "waiting"
  BY <1>2, <1>3 DEF UnderWay
<1>5. DOMAIN request' = Calls /\ request'[c] = new /\ \A d \in Calls \ {c} : request'[d] = request[d]
  BY <1>1 DEF CallsInv
<1> QED
  BY <1>4, <1>5, DialogsStay DEF Fine, CallsInv

\* A call is over for its caller.
LEMMA OverStep ==
    ASSUME CallsInv, NEW c \in Calls, NEW code, C!Over(c, code),
           UnderWay(request[c]), request[c].step # "waiting",
           \/ code \in Done /\ request[c].ran = 1
           \/ code = "lost"
           \/ code \notin Done \cup {"lost"} /\ request[c].ran = 0,
           UNCHANGED <<waiting, asking>>
    PROVE  CallsInv'
<1>1. request[c].ran \in {0, 1}
  BY DEF UnderWay
<1>2. WasTold(C!Outcome(request[c], code)) /\ C!Outcome(request[c], code).step = "settled"
  BY <1>1, Telling
<1>3. /\ DOMAIN request' = Calls /\ request'[c] = C!Outcome(request[c], code)
      /\ \A d \in Calls \ {c} : \/ request'[d] = request[d]
                              \/ /\ request[d].step # "settled"
                                 /\ request'[d] = [request[d] EXCEPT !.what = "dropped"]
  BY DEF C!Over, C!InFlight
<1>4. ASSUME NEW d \in Calls \ {c}
      PROVE  Fine(request'[d]) /\ request'[d].step = request[d].step /\ request'[d].tab = request[d].tab
  <2>1. CASE request'[d] = request[d]
    BY <2>1 DEF CallsInv
  <2>2. CASE request[d].step # "settled" /\ request'[d] = [request[d] EXCEPT !.what = "dropped"]
    <3>1. UnderWay(request[d])
      BY <2>2 DEF CallsInv, Fine, WasTold
    <3>2. /\ DOMAIN request'[d] = DOMAIN request[d] /\ request'[d].step = request[d].step
          /\ request'[d].tab = request[d].tab /\ request'[d].code = request[d].code
          /\ request'[d].ran = request[d].ran
      BY <2>2, <3>1 DEF UnderWay
    <3> QED
      BY <3>1, <3>2 DEF UnderWay, Fine
  <2> QED
    BY <1>3, <2>1, <2>2
<1> QED
  BY <1>2, <1>3, <1>4, DialogsStay DEF Fine

\* The dialog of a tab closes, and whoever waited for it is told or sent again.
LEMMA FinishStep ==
    ASSUME CallsInv, NEW t \in Tabs, DOMAIN request' = Calls,
           asking' = [asking EXCEPT ![t] = FALSE], waiting' = [waiting EXCEPT ![t] = {}],
           \A d \in Calls :
             /\ Fine(request'[d])
             /\ \/ request'[d] = request[d] /\ d \notin waiting[t]
                \/ request'[d].step # "waiting" /\ request[d].step # "waiting"
                \/ request'[d].step # "waiting" /\ d \in waiting[t]
    PROVE  CallsInv'
<1>1. /\ DOMAIN waiting' = Tabs /\ DOMAIN asking' = Tabs /\ waiting'[t] = {}
      /\ \A u \in Tabs \ {t} : waiting'[u] = waiting[u] /\ asking'[u] = asking[u]
  BY DEF CallsInv, DialogsHold
<1>2. {c \in Calls : request'[c].step = "waiting" /\ request'[c].tab = t} = {}
  BY DEF CallsInv, DialogsHold
<1>3. ASSUME NEW u \in Tabs \ {t}
      PROVE  {c \in Calls : request'[c].step = "waiting" /\ request'[c].tab = u}
               = {c \in Calls : request[c].step = "waiting" /\ request[c].tab = u}
  BY DEF CallsInv, DialogsHold
<1>4. DialogsHold'
  BY <1>1, <1>2, <1>3 DEF CallsInv, DialogsHold
<1> QED
  BY <1>4 DEF CallsInv, Fine, WasTold, UnderWay

\* One call changes, and waits neither before nor after.
LEMMA OneCall ==
    ASSUME CallsInv, NEW c \in Calls, NEW new, request' = [request EXCEPT ![c] = new],
           Fine(new), new.step # "waiting", request[c].step # "waiting", UNCHANGED <<waiting, asking>>
    PROVE  CallsInv'
  BY DialogsStay DEF CallsInv

\* A call that is sent, once more or for the first time after a dialog, was not done yet.
LEMMA SendingAgain ==
    ASSUME NEW r, UnderWay(r), r.ran = 0, NEW cookies, NEW pair
    PROVE  UnderWay(C!Sent(r, cookies, pair)) /\ C!Sent(r, cookies, pair).step = "sent"
<1> DEFINE new == C!Sent(r, cookies, pair)
<1>1. {"step", "tab", "what", "code", "via", "ran"} \subseteq DOMAIN r
  BY DEF UnderWay
<1>2. /\ DOMAIN new = DOMAIN r /\ new.step = "sent" /\ new.tab = r.tab /\ new.ran = r.ran
  BY <1>1 DEF C!Sent
<1>3. UnderWay(new)
  <2> HIDE DEF new
  <2> QED
    BY <1>1, <1>2 DEF UnderWay
<1> QED
  BY <1>2, <1>3

\* A call whose answer is there.
LEMMA DeliverStep ==
    ASSUME CallsInv, NEW c \in Calls, C!Deliver(c)
    PROVE  CallsInv'
<1> DEFINE r == request[c]
<1>1. /\ r.step = "answered" /\ UnderWay(r)
      /\ r.ran = IF r.code \in Done THEN 1 ELSE 0
  BY DEF C!Deliver, CallsInv, Fine, WasTold, UnderWay
<1>2. CASE C!ReadDone(c) \/ C!SignInDone(c)
  <2>1. /\ request' = [request EXCEPT ![c] = C!Outcome(r, r.code)] /\ r.code \in Done
        /\ UNCHANGED <<waiting, asking>>
    BY <1>2 DEF C!ReadDone, C!SignInDone, Done
  <2>2. WasTold(C!Outcome(r, r.code)) /\ C!Outcome(r, r.code).step = "settled"
    BY <1>1, <2>1, Telling
  <2> QED
    BY <1>1, <2>1, <2>2, OneCall DEF Fine
<1>3. CASE C!SignOutDone(c)
  <2>1. C!Over(c, "ok") /\ r.code = "ok" /\ UNCHANGED <<waiting, asking>>
    BY <1>3 DEF C!SignOutDone, C!Settle
  <2> QED
    BY <1>1, <2>1, OverStep DEF Done
<1>4. CASE C!Told(c)
  <2>1. C!Over(c, r.code) /\ UNCHANGED <<waiting, asking>>
    BY <1>4 DEF C!Told, C!Settle
  <2>2. r.code \in {"unauthorized", "refused", "csrf_failed", "reauth_required", "ok"}
    BY <1>4 DEF C!Told
  <2> QED
    BY <1>1, <2>1, <2>2, OverStep DEF Done
<1>5. CASE C!Reload(c)
  <2> DEFINE new == [r EXCEPT !.step = "reloading", !.via = "csrf", !.cookies = jar]
  <2>1. /\ request' = [request EXCEPT ![c] = new] /\ r.code = "csrf_failed"
        /\ UNCHANGED <<waiting, asking>>
    BY <1>5 DEF C!Reload
  <2>2. {"step", "tab", "what", "code", "via", "ran"} \subseteq DOMAIN r
    BY <1>1 DEF UnderWay
  <2>3. /\ DOMAIN new = DOMAIN r /\ new.step = "reloading" /\ new.tab = r.tab /\ new.ran = r.ran
    BY <2>2
  <2> HIDE DEF new
  <2>4. UnderWay(new)
    BY <1>1, <2>1, <2>2, <2>3 DEF UnderWay, Done
  <2> QED
    BY <1>1, <2>1, <2>3, <2>4, OneCall DEF Fine
<1>6. CASE C!ReauthDone(c)
  <2>1. /\ r.code = "ok" /\ r.tab \in Tabs
        /\ asking' = [asking EXCEPT ![r.tab] = FALSE] /\ waiting' = [waiting EXCEPT ![r.tab] = {}]
    BY <1>1, <1>6 DEF C!ReauthDone, C!Finish, UnderWay
  <2>2. /\ DOMAIN request' = Calls /\ request'[c] = C!Outcome(r, "ok")
        /\ \A d \in waiting[r.tab] \ {c} : request'[d] = C!Sent(request[d], jar, csrf[r.tab])
        /\ \A d \in Calls \ (waiting[r.tab] \cup {c}) : request'[d] = request[d]
    <3>1. request' = [d \in Calls |->
                        CASE d = c -> C!Outcome(r, "ok")
                          [] d \in waiting[r.tab] -> C!Sent(request[d], jar, csrf[r.tab])
                          [] OTHER -> request[d]]
      BY <1>6 DEF C!ReauthDone, C!Finish
    <3>2. waiting[r.tab] \subseteq Calls /\ c \notin waiting[r.tab]
      BY <1>1, <2>1 DEF CallsInv, DialogsHold
    <3>3. DOMAIN request' = Calls /\ request'[c] = C!Outcome(r, "ok")
      BY <3>1, <3>2
    <3>4. ASSUME NEW d \in Calls \ {c}
          PROVE  request'[d] = IF d \in waiting[r.tab] THEN C!Sent(request[d], jar, csrf[r.tab])
                               ELSE request[d]
      <4>1. request'[d] = CASE d = c -> C!Outcome(r, "ok")
                            [] d \in waiting[r.tab] -> C!Sent(request[d], jar, csrf[r.tab])
                            [] OTHER -> request[d]
        BY <3>1
      <4> QED
        BY <4>1
    <3> QED
      BY <3>2, <3>3, <3>4
  <2>3. WasTold(request'[c]) /\ request'[c].step = "settled"
    BY <1>1, <2>1, <2>2, Telling DEF Done
  <2>4. ASSUME NEW d \in waiting[r.tab] \ {c} PROVE UnderWay(request'[d]) /\ request'[d].step = "sent"
    <3>1. d \in Calls /\ request[d].step = "waiting"
      BY <2>1 DEF CallsInv, DialogsHold
    <3>2. UnderWay(request[d]) /\ request[d].ran = 0
      BY <3>1 DEF CallsInv, Fine, WasTold, UnderWay
    <3> QED
      BY <2>2, <3>2, SendingAgain
  <2>5. \A d \in Calls :
          /\ Fine(request'[d])
          /\ \/ request'[d] = request[d] /\ d \notin waiting[r.tab]
             \/ request'[d].step # "waiting" /\ request[d].step # "waiting"
             \/ request'[d].step # "waiting" /\ d \in waiting[r.tab]
    BY <1>1, <2>2, <2>3, <2>4 DEF Fine, CallsInv
  <2> QED
    BY <2>1, <2>2, <2>5, FinishStep
<1>7. CASE C!OpenDialog(c)
  <2> DEFINE new == [r EXCEPT !.step = "waiting", !.via = "dialog"]
             t == r.tab
  <2>1. /\ r.code = "reauth_required" /\ request' = [request EXCEPT ![c] = new]
        /\ waiting' = [waiting EXCEPT ![t] = waiting[t] \cup {c}]
        /\ asking' = [asking EXCEPT ![t] = TRUE]
    BY <1>7 DEF C!OpenDialog, C!Joins
  <2>2. {"step", "tab", "what", "code", "via", "ran"} \subseteq DOMAIN r /\ t \in Tabs
    BY <1>1 DEF UnderWay
  <2>3. /\ DOMAIN new = DOMAIN r /\ new.step = "waiting" /\ new.tab = t /\ new.ran = r.ran
    BY <2>2
  <2> HIDE DEF new, t
  <2>4. UnderWay(new)
    BY <1>1, <2>1, <2>2, <2>3 DEF UnderWay, Done, t
  <2>5. /\ DOMAIN request' = Calls /\ request'[c] = new /\ \A d \in Calls \ {c} : request'[d] = request[d]
        /\ DOMAIN waiting' = Tabs /\ DOMAIN asking' = Tabs
        /\ waiting'[t] = waiting[t] \cup {c} /\ asking'[t]
        /\ \A u \in Tabs \ {t} : waiting'[u] = waiting[u] /\ asking'[u] = asking[u]
    BY <2>1, <2>2 DEF CallsInv, DialogsHold
  <2>6. ASSUME NEW u \in Tabs
        PROVE  waiting'[u] = {d \in Calls : request'[d].step = "waiting" /\ request'[d].tab = u}
    <3>1. waiting[u] = {d \in Calls : request[d].step = "waiting" /\ request[d].tab = u}
      BY DEF CallsInv, DialogsHold
    <3>2. CASE u = t
      BY <1>1, <2>3, <2>5, <3>1, <3>2
    <3>3. CASE u # t
      BY <1>1, <2>3, <2>5, <3>1, <3>3
    <3> QED
      BY <3>2, <3>3
  <2>7. \A d \in Calls : Fine(request'[d])
    BY <2>4, <2>5 DEF CallsInv, Fine
  <2>8. \A u \in Tabs : waiting'[u] # {} => asking'[u]
    BY <2>5 DEF CallsInv, DialogsHold
  <2>9. DialogsHold'
    BY <2>5, <2>6, <2>8 DEF DialogsHold
  <2> QED
    BY <2>5, <2>7, <2>9 DEF CallsInv, Fine, WasTold, UnderWay
<1> QED
  BY <1>2, <1>3, <1>4, <1>5, <1>6, <1>7 DEF C!Deliver

\* Every step settles its calls as it tells.
LEMMA CallsNext == CallsInv /\ [C!Next]_C!vars => CallsInv'
<1> SUFFICES ASSUME CallsInv, [C!Next]_C!vars PROVE CallsInv'
  OBVIOUS
<1>1. ASSUME NEW c \in Calls, NEW use \in Uses[c], NEW u, C!Ask(c, use[1], use[2], u) PROVE CallsInv'
  <2> DEFINE new == [step |-> "sent", tab |-> use[1], what |-> use[2], user |-> u, cookies |-> jar,
                     token |-> csrf[use[1]], code |-> "lost", session |-> C!NoId, via |-> "none", ran |-> 0]
  <2>1. /\ request' = [request EXCEPT ![c] = new] /\ request[c].step = "settled"
        /\ UNCHANGED <<waiting, asking>>
    BY <1>1 DEF C!Ask, C!Untouched
  <2>2. use[1] \in Tabs
    BY ConsoleAssumption DEF C!ConsoleAssumption
  <2>3. UnderWay(new) /\ new.step = "sent"
    BY <2>2 DEF UnderWay
  <2> HIDE DEF new
  <2> QED
    BY <2>1, <2>3, OneCall DEF Fine
<1>2. ASSUME NEW c \in Calls,
             C!ServeRead(c) \/ C!ServeChange(c) \/ C!ServeSignOut(c) \/ C!ServeSignIn(c)
             \/ C!ServeNoProof(c) \/ \E proved : C!ServeReauth(c, proved)
      PROVE  CallsInv'
  <2>1. UNCHANGED <<waiting, asking>>
    BY <1>2 DEF C!ServeRead, C!ServeChange, C!ServeSignOut, C!ServeSignIn, C!ServeNoProof,
                C!ServeReauth, C!Untouched
  <2>2. request[c].step = "sent" \/ request[c].step = "reloading"
    BY <1>2 DEF C!ServeRead, C!ServeChange, C!ServeSignOut, C!ServeSignIn, C!ServeNoProof, C!ServeReauth
  <2>3. \E code, s : C!Answer(c, code, s)
    <3>1. CASE C!ServeRead(c)
      BY <3>1 DEF C!ServeRead
    <3>2. CASE C!ServeChange(c)
      BY <3>2 DEF C!ServeChange
    <3>3. CASE C!ServeSignOut(c)
      BY <3>3 DEF C!ServeSignOut
    <3>4. CASE C!ServeSignIn(c)
      BY <3>4 DEF C!ServeSignIn
    <3>5. CASE C!ServeNoProof(c)
      BY <3>5 DEF C!ServeNoProof
    <3>6. CASE \E proved : C!ServeReauth(c, proved)
      BY <3>6 DEF C!ServeReauth
    <3> QED
      BY <1>2, <3>1, <3>2, <3>3, <3>4, <3>5, <3>6
  <2> QED
    BY <2>1, <2>2, <2>3, AnswerStep
<1>3. ASSUME NEW c \in C!InFlight, request[c].step # "waiting", C!Lose(c) PROVE CallsInv'
  <2>1. c \in Calls /\ UnderWay(request[c])
    BY DEF C!InFlight, CallsInv, Fine, WasTold
  <2>2. C!Over(c, "lost") /\ UNCHANGED <<waiting, asking>>
    BY <1>3 DEF C!Lose, C!Settle
  <2> QED
    BY <1>3, <2>1, <2>2, OverStep
<1>4. ASSUME NEW c \in Calls, C!Deliver(c) PROVE CallsInv'
  BY <1>4, DeliverStep
<1>5. ASSUME NEW c \in Calls, C!Replay(c) PROVE CallsInv'
  <2> DEFINE r == request[c]
  <2>1. UnderWay(r) /\ r.ran = 0 /\ r.step = "reloaded" /\ UNCHANGED <<waiting, asking>>
    BY <1>5 DEF C!Replay, CallsInv, Fine, WasTold, UnderWay
  <2>2. CASE request' = [request EXCEPT ![c] = C!Sent(r, jar, r.session)]
    BY <2>1, <2>2, SendingAgain, OneCall DEF Fine
  <2>3. CASE C!Over(c, "csrf_failed")
    BY <2>1, <2>3, OverStep DEF Done
  <2> QED
    BY <1>5, <2>2, <2>3 DEF C!Replay
<1>6. ASSUME NEW t \in Tabs, C!Dismiss(t) PROVE CallsInv'
  <2>1. /\ asking' = [asking EXCEPT ![t] = FALSE] /\ waiting' = [waiting EXCEPT ![t] = {}]
        /\ request' = [d \in Calls |-> IF d \in waiting[t] THEN C!Outcome(request[d], "reauth_required")
                                        ELSE request[d]]
    BY <1>6 DEF C!Dismiss, C!Finish
  <2>2. ASSUME NEW d \in waiting[t]
        PROVE  d \in Calls /\ WasTold(request'[d]) /\ request'[d].step = "settled"
    <3>1. d \in Calls /\ request[d].step = "waiting"
      BY DEF CallsInv, DialogsHold
    <3>2. request[d].ran = 0
      BY <3>1 DEF CallsInv, Fine, WasTold, UnderWay
    <3> QED
      BY <2>1, <3>1, <3>2, Telling DEF Done
  <2>3. \A d \in Calls :
          /\ Fine(request'[d])
          /\ \/ request'[d] = request[d] /\ d \notin waiting[t]
             \/ request'[d].step # "waiting" /\ d \in waiting[t]
    BY <2>1, <2>2 DEF Fine, CallsInv
  <2> QED
    BY <2>1, <2>3, FinishStep
<1>7. ASSUME UNCHANGED <<request, waiting, asking>> PROVE CallsInv'
  BY <1>7 DEF CallsInv, DialogsHold, Fine, WasTold, UnderWay
<1>8. ASSUME NEW s, C!End(s) \/ C!Lapse(s) PROVE CallsInv'
  BY <1>7, <1>8 DEF C!End, C!Lapse, C!Untouched
<1>9. CASE C!Next
  BY <1>1, <1>2, <1>3, <1>4, <1>5, <1>6, <1>8, <1>9 DEF C!Next, C!InFlight
<1> QED
  BY <1>7, <1>9 DEF C!vars

\* Every call of the console is made once and answered: what its caller is told is what
\* was done, however often it was replayed, and none is left waiting for a dialog that was
\* closed (consoleFetch, ReauthDialog).
THEOREM CallsSettled == MCSpec => []CallsAreSettled
<1>1. CallsInv => CallsAreSettled
  <2> SUFFICES ASSUME CallsInv PROVE CallsAreSettled
    OBVIOUS
  <2>1. C!CallsRunOnce
    <3> SUFFICES ASSUME NEW c \in Calls, request[c].step = "settled"
                 PROVE  \/ request[c].told = "done" /\ request[c].ran = 1
                        \/ request[c].told = "lost" /\ request[c].ran <= 1
                        \/ request[c].told \in {"refused", "not offered"} /\ request[c].ran = 0
      BY DEF C!CallsRunOnce, C!InFlight
    <3>1. WasTold(request[c])
      BY DEF CallsInv, Fine, UnderWay
    <3>2. \A n \in {0, 1} : n <= 1
      OBVIOUS
    <3> QED
      BY <3>1, <3>2 DEF WasTold
  <2>2. C!NobodyWaitsOnAClosedDialog
    BY DEF CallsInv, DialogsHold, Fine, WasTold, UnderWay, C!InFlight, C!NobodyWaitsOnAClosedDialog
  <2> QED
    BY <2>1, <2>2 DEF CallsAreSettled
<1>2. MCInit => CallsInv
  BY ConsoleAlone, CallsInit
<1>3. CallsInv /\ [MCNext]_MCVars => CallsInv'
  BY ConsoleAlone, CallsNext
<1> QED
  BY <1>1, <1>2, <1>3, PTL DEF MCSpec
=============================================================================

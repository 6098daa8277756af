------------------------------- MODULE Imports -------------------------------
(***************************************************************************)
(* The uploads of viewing histories: ImportService and GridService           *)
(* (swipe/watched.py), the runner that identifies an upload after its        *)
(* request was answered (jobs/imports.py), and the imports, import_reviews   *)
(* and watch_history tables.                                                 *)
(*                                                                         *)
(* What a file says and what TMDb makes of it is Resolving; here           *)
(* an import ends with any set of titles and with or without a question.     *)
(* One question stands for the review queue of an import.                    *)
(***************************************************************************)
EXTENDS Naturals, FiniteSets, Tables

CONSTANTS
    Users,
    Films,          \* what a history row can be about
    Uploads,        \* ids of rows of the imports table
    MaxConcurrent   \* MAX_CONCURRENT_IMPORTS

ImportsAssumption == MaxConcurrent \in Nat

VARIABLES
    imports,   \* the imports table
    reviews,   \* the import_reviews table: the state of an import's question
    history,   \* the watch_history table: the import that owns each row
    starting,  \* uploads between the commit of their row and runner.submit
    parsing,   \* the user of each upload being parsed
    tasks,     \* the imports being identified, with the user of each
    answers    \* acceptances between their reads and their transaction

vars == <<imports, reviews, history, starting, parsing, tasks, answers>>

NoImport == "grid"  \* import_id is null: a tick on the calibration wall
Import == [user : Users, status : {"running", "complete", "failed"}]
Keys == Users \X {"file", "wall"} \X Films
Task == [import : Uploads, user : Users]

Of(i) == imports[i].user
Running == {i \in DOMAIN imports : imports[i].status = "running"}
RunningFor(u) == {i \in Running : Of(i) = u}
HasCapacity == Cardinality(tasks) < MaxConcurrent
Unused == Uploads \ (DOMAIN imports \cup {t.import : t \in starting \cup tasks \cup answers})

-----------------------------------------------------------------------------
Init ==
    /\ imports = Empty /\ reviews = Empty /\ history = Empty
    /\ starting = {} /\ parsing = {} /\ tasks = {} /\ answers = {}

\* start_import: the file is read in a worker thread, before any row is made.
Upload(u) ==
    /\ u \notin parsing
    /\ parsing' = parsing \cup {u}
    /\ UNCHANGED <<imports, reviews, history, starting, tasks, answers>>

\* start: the transaction that asks both limits and makes the row.
Open(u) ==
    /\ u \in parsing
    /\ parsing' = parsing \ {u}
    /\ \/ /\ RunningFor(u) # {} \/ ~HasCapacity
          /\ UNCHANGED <<imports, starting>>
       \/ /\ RunningFor(u) = {} /\ HasCapacity
          /\ \E i \in Unused :
                /\ imports' = Put(imports, i, [user |-> u, status |-> "running"])
                /\ starting' = starting \cup {[import |-> i, user |-> u]}
    /\ UNCHANGED <<reviews, history, tasks, answers>>

\* ImportRunner.submit: a task, or a refusal that leaves the row as it is.
Submit(t) ==
    /\ t \in starting
    /\ starting' = starting \ {t}
    /\ tasks' = IF HasCapacity THEN tasks \cup {t} ELSE tasks
    /\ UNCHANGED <<imports, reviews, history, parsing, answers>>

-----------------------------------------------------------------------------
(* Running one import.                                                      *)

Status(i, status) ==
    IF i \in DOMAIN imports THEN [imports EXCEPT ![i].status = status] ELSE imports

\* run, run_failed: closed with a code; a row that is gone is no row to close.
Fails(t) ==
    /\ t \in tasks
    /\ tasks' = tasks \ {t}
    /\ imports' = Status(t.import, "failed")
    /\ UNCHANGED <<reviews, history, starting, parsing, answers>>

\* history.record: every title's row of this source is the import's now.
Recorded(u, W, i) == [k \in DOMAIN history \cup ({u} \X {"file"} \X W) |->
                        IF k[1] = u /\ k[2] = "file" /\ k[3] \in W THEN i ELSE history[k]]

\* _store: titles, question and outcome in one transaction, which the foreign
\* keys refuse once the import is gone; run_failed then has nothing to close.
Store(t, W, asks) ==
    /\ t \in tasks
    /\ tasks' = tasks \ {t}
    /\ IF t.import \in DOMAIN imports
       THEN /\ history' = Recorded(t.user, W, t.import)
            /\ reviews' = IF asks THEN Put(reviews, t.import, "pending") ELSE reviews
            /\ imports' = Status(t.import, "complete")
       ELSE UNCHANGED <<history, reviews, imports>>
    /\ UNCHANGED <<starting, parsing, answers>>

-----------------------------------------------------------------------------
(* The review queue, the wall, and forgetting.                              *)

\* accept, up to its transaction: the entry is read, then its import and TMDb.
Accept(i, f) ==
    /\ i \in DOMAIN reviews /\ reviews[i] = "pending"
    /\ answers' = answers \cup {[import |-> i, user |-> Of(i), film |-> f]}
    /\ UNCHANGED <<imports, reviews, history, starting, parsing, tasks>>

DecideAgain(a) ==  \* mutant: the entry is updated whether it is pending or not
    /\ a \in answers
    /\ answers' = answers \ {a}
    /\ IF a.import \in DOMAIN reviews
       THEN /\ reviews' = [reviews EXCEPT ![a.import] = "accepted"]
            /\ history' = Recorded(a.user, {a.film}, a.import)
       ELSE UNCHANGED <<reviews, history>>
    /\ UNCHANGED <<imports, starting, parsing, tasks>>
\* accept's transaction: decide, a compare-and-set, then the history row.
Decide(a) ==
    /\ a \in answers
    /\ answers' = answers \ {a}
    /\ IF a.import \in DOMAIN reviews /\ reviews[a.import] = "pending"
       THEN /\ reviews' = [reviews EXCEPT ![a.import] = "accepted"]
            /\ history' = Recorded(a.user, {a.film}, a.import)
       ELSE UNCHANGED <<reviews, history>>
    /\ UNCHANGED <<imports, starting, parsing, tasks>>

Reject(i) ==
    /\ i \in DOMAIN reviews /\ reviews[i] = "pending"
    /\ reviews' = [reviews EXCEPT ![i] = "rejected"]
    /\ UNCHANGED <<imports, history, starting, parsing, tasks, answers>>

OwnedBy(i) == {k \in DOMAIN history : history[k] = i}
\* forget: the rows it owns, itself, and by the foreign key its questions.
Forget(i) ==
    /\ i \in DOMAIN imports
    /\ imports' = Drop(imports, {i})
    /\ reviews' = Drop(reviews, {i})
    /\ history' = Drop(history, OwnedBy(i))
    /\ UNCHANGED <<starting, parsing, tasks, answers>>

\* GridService.submit, one answer of the wall.
Tick(u, f) ==
    /\ history' = Put(history, <<u, "wall", f>>, NoImport)
    /\ UNCHANGED <<imports, reviews, starting, parsing, tasks, answers>>

\* ImportRunner.stop or a crash, and close_abandoned_imports before anything is
\* served: the requests and the tasks die with the process.
Restart ==
    /\ imports' = [i \in DOMAIN imports |->
                     IF i \in Running THEN [imports[i] EXCEPT !.status = "failed"] ELSE imports[i]]
    /\ starting' = {} /\ parsing' = {} /\ tasks' = {} /\ answers' = {}
    /\ UNCHANGED <<reviews, history>>

Next ==
    \/ \E u \in Users : Upload(u) \/ Open(u)
    \/ \E t \in starting : Submit(t)
    \/ \E t \in tasks : Fails(t) \/ \E W \in SUBSET Films, asks \in BOOLEAN : Store(t, W, asks)
    \/ \E i \in Uploads : Reject(i) \/ Forget(i)
    \/ \E i \in Uploads, f \in Films : Accept(i, f)
    \/ \E a \in answers : Decide(a)
    \/ \E u \in Users, f \in Films : Tick(u, f)
    \/ Restart

Spec == Init /\ [][Next]_vars

-----------------------------------------------------------------------------
(* What must hold.                                                          *)

\* One import of a user is running, and the server identifies no more than it
\* said it would, though both limits are asked for in one step and the task is
\* made in another (running_for_user, has_capacity, submit).
ImportsAreCapped ==
    /\ \A i, j \in Running : Of(i) = Of(j) => i = j
    /\ Cardinality(tasks) <= MaxConcurrent

\* "Forgetting one export leaves a second one standing" and nothing of its own:
\* every row that came from a file belongs to an import that is still there, of
\* the same user, whatever was still being identified or answered when an import
\* was forgotten (forget, the foreign keys).
FileRowsHaveAnImport ==
    \A k \in DOMAIN history :
        k[2] = "file" => history[k] \in DOMAIN imports /\ Of(history[k]) = k[1]

\* A row from a file is written only as its import completes or as its question
\* is answered, and a question is answered once: two tabs, a rejection, a
\* restart or forgetting in between write no second one (decide).
AnsweredOnce ==
    [][\A k \in DOMAIN history' :
          \/ k[2] = "wall"
          \/ k \in DOMAIN history /\ history[k] = history'[k]
          \/ LET i == history'[k]
             IN  \/ i \in Running /\ imports'[i].status = "complete"
                 \/ i \in DOMAIN reviews /\ reviews[i] = "pending" /\ reviews'[i] = "accepted"]_vars

\* "A row opened for work nobody will run stays running until the next restart
\* and refuses every later upload by that user" (has_capacity): a running import
\* is being identified, or its request is about to have it so.
RunningIsRun ==
    Running \subseteq {t.import : t \in tasks \cup starting}

\* "One import at a time per user" (jobs/imports.py): of the work, not of the rows.
OneTaskEach == \A t, s \in tasks : t.user = s.user => t = s
=============================================================================

------------------------------- MODULE Startup -------------------------------
(***************************************************************************)
(* From a process that is started to one that serves (main/app.py start):   *)
(* the master key (core/keys.py), the lock, the backup and the migration     *)
(* (storage/migrate.py), and the work a restart left behind.                *)
(*                                                                         *)
(* Two processes may be started on one data directory, of one release or of *)
(* two, and a command line does all of it beside a server that is running.  *)
(* Any of them may be killed between two steps.                             *)
(***************************************************************************)
EXTENDS Naturals, FiniteSets

CONSTANTS
    Processes,
    Releases,   \* the head revision of each release, numbers from 1
    Keep,       \* TINDARR_DB_BACKUPS_KEEP
    MaxBoots,   \* bound: processes started
    MaxWrites,  \* bound: transactions the backups are told apart by
    MaxStamp,   \* bound: the wall clock
    None

StartupAssumption ==
    /\ Releases \subseteq Nat \ {0}
    /\ Keep \in Nat \ {0}
    /\ {MaxBoots, MaxWrites} \subseteq Nat /\ MaxStamp \in Nat \ {0}
    /\ None \notin Nat \cup Processes

\* 0 is the key of TINDARR_SECRET_KEY; n the one the n-th process drew.
Keys == 0 .. MaxBoots
Unusable == MaxBoots + 1
Revisions == {0} \cup Releases
KeyFile == Keys \cup {None, Unusable}
\* What a secret in the database was encrypted with: the key derived from one of those.
Sealed == Keys \cup {None}
Database == [revision : Revisions, writes : 0 .. MaxWrites]

VARIABLES
    given,       \* the master key the environment gives, if any
    keyFile,     \* secret.key: absent (None), Unusable, or a key
    boots,       \* processes started so far
    database,    \* [revision : 0 for an empty file, writes : transactions in it]
    sealed,      \* the key a stored secret is encrypted with, or None
    backups,     \* the files in backups/
    lock,        \* who holds .migrate.lock
    processes,   \* [Processes -> what each is at]
    work,        \* who runs the job whose row says it runs, None without one
    clock,       \* the wall clock backups are named after
    steppedBack  \* it has been set back

vars == <<given, keyFile, boots, database, sealed, backups, lock, processes, work,
          clock, steppedBack>>
time == <<clock, steppedBack>>

\* TINDARR_SECRET_KEY_FILE, a Docker secret's, wins over TINDARR_SECRET_KEY; an
\* empty value is none.
Given(variable, file) == IF file # "unset" THEN file ELSE variable

Down == [step |-> "down"]
\* key: the master key, and before it is known the one it would draw; saved: the
\* stamp of its backup; known: the transactions in the database when it looked.
Process ==
    {Down} \cup
    [step : {"key", "link", "lock", "look", "copy", "verify", "prune", "upgrade"},
     serves : BOOLEAN, release : Releases, key : Keys, saved : 0 .. MaxStamp, known : 0 .. MaxWrites]
    \cup [step : {"start", "up"}, serves : BOOLEAN, key : Keys]
\* whole: the copy was completed and is sound.
Backup == [stamp : 1 .. MaxStamp, revision : Releases, writes : 0 .. MaxWrites, whole : BOOLEAN]

At(p, step) == processes[p].step = step
Becomes(p, process) == processes' = [processes EXCEPT ![p] = process]
Goes(p, step) == Becomes(p, [processes[p] EXCEPT !.step = step])
Starts(p) ==
    Becomes(p, [step |-> "start", serves |-> processes[p].serves, key |-> processes[p].key])
\* The process ends, for whatever reason: what it held is free.
Ends(p) == Becomes(p, Down) /\ lock' = (IF lock = p THEN None ELSE lock)

Init ==
    /\ \E variable \in {"unset", "key"}, file \in {"unset", "key", "unreadable"} :
          given = Given(variable, file)
    /\ keyFile \in {None, Unusable}
    /\ boots = 0
    /\ database = [revision |-> 0, writes |-> 0]
    /\ sealed = None
    /\ backups = {}
    /\ lock = None
    /\ processes = [p \in Processes |-> Down]
    /\ work = None
    /\ clock = 1
    /\ steppedBack = FALSE

-----------------------------------------------------------------------------
(* The master key.                                                          *)

\* The server, or `tindarr media-server reset` and `tindarr import`, which start
\* the same way.  A file that cannot be read stops it.
Boot(p, release, serves) ==
    /\ At(p, "down") /\ boots < MaxBoots
    /\ given # "unreadable"
    /\ boots' = boots + 1
    /\ Becomes(p, [step |-> IF given = "key" THEN "lock" ELSE "key", serves |-> serves,
                   release |-> release, key |-> IF given = "key" THEN 0 ELSE boots',
                   saved |-> 0, known |-> 0])
    /\ UNCHANGED <<given, keyFile, database, sealed, backups, lock, work, time>>

\* _read_key_file: one that is empty, a link or open to others is refused.
Read(p) ==
    IF keyFile = Unusable THEN Ends(p)
    ELSE /\ Becomes(p, [processes[p] EXCEPT !.step = "lock", !.key = keyFile])
         /\ UNCHANGED lock
ReadKey(p) ==
    /\ At(p, "key")
    /\ IF keyFile = None THEN Goes(p, "link") /\ UNCHANGED lock ELSE Read(p)
    /\ UNCHANGED <<given, keyFile, boots, database, sealed, backups, work, time>>

LinkKeyOver(p) ==  \* mutant: the file is renamed into place
    /\ At(p, "link")
    /\ keyFile' = processes[p].key
    /\ Goes(p, "lock")
    /\ UNCHANGED <<given, boots, database, sealed, backups, lock, work, time>>
\* Written elsewhere, then linked: whoever comes second reads the first one's.
LinkKey(p) ==
    /\ At(p, "link")
    /\ IF keyFile = None
       THEN keyFile' = processes[p].key /\ Goes(p, "lock") /\ UNCHANGED lock
       ELSE Read(p) /\ UNCHANGED keyFile
    /\ UNCHANGED <<given, boots, database, sealed, backups, work, time>>

-----------------------------------------------------------------------------
(* The migration.                                                           *)

TakeLock(p) ==
    /\ At(p, "lock") /\ lock = None
    /\ lock' = p
    /\ Goes(p, "look")
    /\ UNCHANGED <<given, keyFile, boots, database, sealed, backups, work, time>>

\* A schema of this release is left as it is, one of a newer release is refused,
\* an empty file is migrated at once, and an older one is backed up first: the
\* file is created, then filled.
Look(p) ==
    /\ At(p, "look")
    /\ LET r == database.revision IN
       \/ r = processes[p].release /\ Starts(p) /\ lock' = None /\ UNCHANGED backups
       \/ r > processes[p].release /\ Ends(p) /\ UNCHANGED backups
       \/ r = 0 /\ Goes(p, "upgrade") /\ UNCHANGED <<backups, lock>>
       \/ /\ 0 < r /\ r < processes[p].release
          /\ \A b \in backups : b.stamp # clock
          /\ backups' = backups \cup
                {[stamp |-> clock, revision |-> r, writes |-> 0, whole |-> FALSE]}
          /\ Becomes(p, [processes[p] EXCEPT !.step = "copy", !.saved = clock,
                                            !.known = database.writes])
          /\ UNCHANGED lock
    /\ UNCHANGED <<given, keyFile, boots, database, sealed, work, time>>

Own(p) == {b \in backups : b.stamp = processes[p].saved}
\* SQLite's online backup: what is committed when it ends; or a copy that is not
\* sound.
Copy(p) ==
    /\ At(p, "copy")
    /\ \E whole \in BOOLEAN :
         backups' = (backups \ Own(p)) \cup
                    {[b EXCEPT !.writes = database.writes, !.whole = whole] : b \in Own(p)}
    /\ Goes(p, "verify")
    /\ UNCHANGED <<given, keyFile, boots, database, sealed, lock, work, time>>

VerifyHalf(p) ==  \* mutant: a file that opens is taken for a backup
    /\ At(p, "verify")
    /\ Goes(p, "prune") /\ UNCHANGED <<lock, backups>>
    /\ UNCHANGED <<given, keyFile, boots, database, sealed, work, time>>
\* One that fails its check is removed, and the process with it.
Verify(p) ==
    /\ At(p, "verify")
    /\ IF \A b \in Own(p) : b.whole
       THEN Goes(p, "prune") /\ UNCHANGED <<lock, backups>>
       ELSE Ends(p) /\ backups' = backups \ Own(p)
    /\ UNCHANGED <<given, keyFile, boots, database, sealed, work, time>>

\* The names are in the order of their stamps.
Recent(files) == {b \in files : Cardinality({c \in files : c.stamp > b.stamp}) < Keep}
Prune(p) ==
    /\ At(p, "prune")
    /\ backups' = Recent(backups)
    /\ Goes(p, "upgrade")
    /\ UNCHANGED <<given, keyFile, boots, database, sealed, lock, work, time>>

\* Every pending revision in one transaction, or none and the process ends.
Upgrade(p) ==
    /\ At(p, "upgrade")
    /\ \/ /\ database' = [database EXCEPT !.revision = processes[p].release]
          /\ Starts(p) /\ lock' = None
       \/ Ends(p) /\ UNCHANGED database
    /\ UNCHANGED <<given, keyFile, boots, sealed, backups, work, time>>

-----------------------------------------------------------------------------
(* Serving.                                                                 *)

\* close_abandoned_imports and close_abandoned_jobs: every row that claims to run.
Start(p) ==
    /\ At(p, "start")
    /\ work' = None
    /\ Goes(p, "up")
    /\ UNCHANGED <<given, keyFile, boots, database, sealed, backups, lock, time>>

\* A transaction, one that stores a secret or not; a command makes one and ends.
Write(p) ==
    /\ At(p, "up") /\ database.writes < MaxWrites
    /\ database' = [database EXCEPT !.writes = @ + 1]
    /\ sealed' \in {sealed, processes[p].key}
    /\ IF processes[p].serves THEN UNCHANGED <<processes, lock>> ELSE Ends(p)
    /\ UNCHANGED <<given, keyFile, boots, backups, work, time>>

\* A generation or an import: its row, and the task that is to end it.
Work(p) ==
    /\ At(p, "up") /\ processes[p].serves
    /\ work = None
    /\ work' = p
    /\ UNCHANGED <<given, keyFile, boots, database, sealed, backups, lock, processes, time>>
Finish(p) ==
    /\ At(p, "up") /\ work = p
    /\ work' = None
    /\ UNCHANGED <<given, keyFile, boots, database, sealed, backups, lock, processes, time>>

\* It is stopped, or killed wherever it is.
Stop(p) ==
    /\ ~At(p, "down")
    /\ Ends(p)
    /\ UNCHANGED <<given, keyFile, boots, database, sealed, backups, work, time>>

\* Time passes; once, the clock is set back.
Tick ==
    /\ \/ clock < MaxStamp /\ clock' = clock + 1 /\ UNCHANGED steppedBack
       \/ ~steppedBack /\ clock' \in 1 .. clock - 1 /\ steppedBack' = TRUE
    /\ UNCHANGED <<given, keyFile, boots, database, sealed, backups, lock, processes, work>>

Next ==
    \/ Tick
    \/ \E p \in Processes :
         \/ \E release \in Releases, serves \in BOOLEAN : Boot(p, release, serves)
         \/ ReadKey(p) \/ LinkKey(p)
         \/ TakeLock(p) \/ Look(p) \/ Copy(p) \/ Verify(p) \/ Prune(p) \/ Upgrade(p)
         \/ Start(p) \/ Write(p) \/ Work(p) \/ Finish(p) \/ Stop(p)

Spec == Init /\ [][Next]_vars

-----------------------------------------------------------------------------
TypeOK ==
    /\ given \in {"unset", "key", "unreadable"}
    /\ keyFile \in KeyFile
    /\ boots \in 0 .. MaxBoots
    /\ database \in Database
    /\ sealed \in Sealed
    /\ backups \subseteq Backup
    /\ lock \in Processes \cup {None}
    /\ processes \in [Processes -> Process]
    /\ work \in Processes \cup {None}
    /\ clock \in 1 .. MaxStamp
    /\ steppedBack \in BOOLEAN

Holding == {p \in Processes : processes[p].step \notin {"down", "key", "link"}}

\* Processes started at once on a fresh data directory agree on one key, and what
\* one of them has encrypted every other can read, whoever was killed when.
KeysAgree ==
    \A p \in Holding :
        /\ \A q \in Holding : processes[p].key = processes[q].key
        /\ sealed \in {None, processes[p].key}

\* No schema is upgraded without a sound backup of it that still exists and holds
\* all there was when the upgrade was found to be due, as long as the clock the
\* backups are named after goes forward.
Backed(p) ==
    \E b \in backups :
        /\ b.whole /\ b.revision = database.revision /\ b.writes >= processes[p].known
UpgradesKeepABackup ==
    [][\A p \in Processes :
         At(p, "upgrade") /\ database'.revision # database.revision
         /\ database.revision # 0 /\ ~steppedBack => Backed(p)]_vars

\* The same whatever the clock does: "names start with a UTC timestamp, so lexical
\* order is chronological order".
UpgradesAlwaysKeepABackup ==
    [][\A p \in Processes :
         At(p, "upgrade") /\ database'.revision # database.revision
         /\ database.revision # 0 => Backed(p)]_vars

\* A schema only goes forward, and only under the lock.
SchemasGoForward ==
    [][database'.revision # database.revision =>
         database'.revision > database.revision /\ lock # None]_vars

\* "Called once at startup, before anything is served": the row of a task that is
\* alive is closed by nobody else.
LiveWorkIsLeftAlone ==
    [][\A p, q \in Processes :
         At(p, "up") /\ work = p /\ work' # p /\ q # p => processes'[q] = processes[q]]_vars
=============================================================================

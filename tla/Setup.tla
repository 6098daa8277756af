-------------------------------- MODULE Setup --------------------------------
(***************************************************************************)
(* First-run setup: auth/setup.py, auth/setupcode.py, the media server      *)
(* connector it fills in (auth/mediaserver.py) and the sign-ins that        *)
(* complete it or follow it (auth/signin.py).                               *)
(*                                                                         *)
(* Two processes work on the same data directory: the server, and the       *)
(* command line's `media-server reset`, which starts like the server does.  *)
(* The code's file and the database are written one after the other, and    *)
(* either process may die between any two steps.  In the server, a request  *)
(* is interrupted wherever the code awaits: its entry in `flight` holds     *)
(* what it had read or been told by then.                                   *)
(***************************************************************************)
EXTENDS Naturals, FiniteSets, Tables

CONSTANTS
    Codes,         \* setup codes that may be drawn; a code stands for its hash too
    Tabs,          \* ids a setup session may get
    Accounts,      \* accounts of the media servers there are
    Admins,        \* those that administer their media server
    Home,          \* [Accounts -> media server]
    Clients,       \* requests that may be in flight at once
    None,          \* NULL, or no file
    SetupLifetime, \* ABSOLUTE_LIFETIMES["setup"]
    MaxTime        \* bound: the clock stops here

Processes == {"server", "cli"}
Servers == {Home[a] : a \in Accounts}

ASSUME SetupAssumption ==
    /\ Admins \subseteq Accounts
    /\ None \notin Codes \cup Tabs \cup Servers
    /\ SetupLifetime \in Nat
    /\ MaxTime \in Nat

VARIABLES
    now,
    completed,  \* setup_completed_at IS NOT NULL
    hash,       \* server_state.setup_code_hash
    file,       \* what <data>/setup-code holds
    connected,  \* the media server in the settings, and its stored identity
    tabs,       \* the setup sessions
    linked,     \* the accounts some user row is linked to
    seated,     \* those with a live web or mobile session
    stage,      \* [Processes -> how far each has started, and what it read]
    flight,     \* [Clients -> the request in flight]
    latest,     \* the setup session of the last claim, None after a reset
    undisturbed \* nothing but this run of the server has touched the file or setup

vars == <<now, completed, hash, file, connected, tabs, linked, seated, stage,
          flight, latest, undisturbed>>
household == <<connected, linked, seated>>
wizard == <<tabs, latest>>

Reasons == {"live", "superseded", "setup_completed", "server_changed"}
Tab == [ends : Nat, reason : Reasons]
\* read: ensure_setup_code has read the row, into done and code; wrote: a new
\* code is in the file and not yet in the row; cleared: the reset's is.
Stage == [at : {"down", "read", "wrote", "up", "cleared"}, done : BOOLEAN,
          code : Codes \cup {None}]
At(where) == [at |-> where, done |-> FALSE, code |-> None]
Idle == [step |-> "idle"]
Request ==
    {Idle} \cup [step : {"proved", "completing"}, tab : Tabs \cup {None}, who : Accounts]
           \cup [step : {"linking"}, who : Accounts]
           \cup [step : {"removing"}]
           \cup [step : {"saving"}, to : Servers, relink : BOOLEAN]

Live(t) == t \in DOMAIN tabs /\ tabs[t].reason = "live" /\ now < tabs[t].ends
\* revoke_of_kind and revoke_all, over the setup sessions.
Closed(why) ==
    [t \in DOMAIN tabs |-> IF tabs[t].reason = "live" THEN [tabs[t] EXCEPT !.reason = why]
                                                     ELSE tabs[t]]
\* secrets.choice: a code just drawn is known nowhere.
FreshCodes == Codes \ ({file, hash} \cup {stage[p].code : p \in Processes})

-----------------------------------------------------------------------------
Init ==
    /\ now = 0
    /\ completed = FALSE
    /\ hash = None
    /\ file = None
    /\ connected = None
    /\ tabs = Empty
    /\ linked = {}
    /\ seated = {}
    /\ stage = [p \in Processes |-> At("down")]
    /\ flight = [c \in Clients |-> Idle]
    /\ latest = None
    /\ undisturbed = FALSE

Tick ==
    /\ now < MaxTime
    /\ now' = now + 1
    /\ UNCHANGED <<completed, hash, file, household, wizard, stage, flight, undisturbed>>

-----------------------------------------------------------------------------
(* Starting: ensure_setup_code, in either process.                          *)

\* The row is read in a transaction of its own.
Start(p) ==
    /\ stage[p].at = "down"
    /\ stage' = [stage EXCEPT ![p] = [at |-> "read", done |-> completed, code |-> hash]]
    /\ undisturbed' = (p = "server" /\ stage["cli"].at = "down")
    /\ UNCHANGED <<now, completed, hash, file, household, wizard, flight>>

Ready(p) == stage' = [stage EXCEPT ![p] = At("up")]

EnsureFileKeepingAny(p) ==  \* mutant: any code in the file will do
    /\ stage[p].at = "read"
    /\ \/ /\ stage[p].done
          /\ file' = None
          /\ Ready(p)
       \/ /\ ~stage[p].done /\ stage[p].code # None /\ file # None
          /\ file' = file
          /\ Ready(p)
       \/ /\ ~stage[p].done /\ (stage[p].code = None \/ file = None)
          /\ \E code \in FreshCodes :
               /\ file' = code
               /\ stage' = [stage EXCEPT ![p] = [At("wrote") EXCEPT !.code = code]]
    /\ UNCHANGED <<now, completed, hash, household, wizard, flight, undisturbed>>
\* Setup is done: no file.  The file holds the code whose hash is stored: keep
\* it.  Anything else is replaced, the file first.
EnsureFile(p) ==
    /\ stage[p].at = "read"
    /\ \/ /\ stage[p].done
          /\ file' = None
          /\ Ready(p)
       \/ /\ ~stage[p].done /\ stage[p].code # None /\ file = stage[p].code
          /\ file' = file
          /\ Ready(p)
       \/ /\ ~stage[p].done /\ (stage[p].code = None \/ file # stage[p].code)
          /\ \E code \in FreshCodes :
               /\ file' = code
               /\ stage' = [stage EXCEPT ![p] = [At("wrote") EXCEPT !.code = code]]
    /\ UNCHANGED <<now, completed, hash, household, wizard, flight, undisturbed>>

EnsureHash(p) ==
    /\ stage[p].at = "wrote"
    /\ hash' = stage[p].code
    /\ Ready(p)
    /\ UNCHANGED <<now, completed, file, household, wizard, flight, undisturbed>>

\* Either process stops, or is killed, at any point; the requests in flight die
\* with the server.
Stop(p) ==
    /\ stage[p].at # "down"
    /\ stage' = [stage EXCEPT ![p] = At("down")]
    /\ flight' = IF p = "server" THEN [c \in Clients |-> Idle] ELSE flight
    /\ UNCHANGED <<now, completed, hash, file, household, wizard, undisturbed>>

\* Somebody deletes the file to get a new code at the next start.
DeleteFile ==
    /\ file # None
    /\ file' = None
    /\ undisturbed' = FALSE
    /\ UNCHANGED <<now, completed, hash, household, wizard, stage, flight>>

-----------------------------------------------------------------------------
(* `tindarr media-server reset`.                                            *)

ResetFile ==
    /\ stage["cli"].at = "up"
    /\ \E code \in FreshCodes :
         /\ file' = code
         /\ stage' = [stage EXCEPT !["cli"] = [At("cleared") EXCEPT !.code = code]]
    /\ UNCHANGED <<now, completed, hash, household, wizard, flight, undisturbed>>

\* One transaction: the settings, the identity, every session, every link, the
\* completion and the hash.
ResetRow ==
    /\ stage["cli"].at = "cleared"
    /\ completed' = FALSE
    /\ hash' = stage["cli"].code
    /\ connected' = None
    /\ linked' = {}
    /\ seated' = {}
    /\ tabs' = Closed("server_changed")
    /\ latest' = None
    /\ stage' = [stage EXCEPT !["cli"] = At("down")]
    /\ UNCHANGED <<now, file, flight, undisturbed>>

-----------------------------------------------------------------------------
(* Requests.                                                                *)

Serving(c) == stage["server"].at = "up" /\ flight[c] = Idle
Becomes(c, request) == flight' = [flight EXCEPT ![c] = request]

\* claim: the check of the code, the end of the last claim's session and the
\* new one are one transaction.
Claim ==
    /\ stage["server"].at = "up"
    /\ ~completed
    /\ hash # None
    /\ \E t \in Tabs \ DOMAIN tabs :
         /\ tabs' = Put(Closed("superseded"), t,
                        [ends |-> now + SetupLifetime, reason |-> "live"])
         /\ latest' = t
    /\ UNCHANGED <<now, completed, hash, file, household, stage, flight, undisturbed>>

\* A console sign-in: the wizard's session, if it carries one, is live when the
\* request comes in; the media server then accepts the account.
SignIn(c, t, a) ==
    /\ Serving(c)
    /\ connected = Home[a]
    /\ t = None \/ Live(t)
    /\ Becomes(c, [step |-> "proved", tab |-> t, who |-> a])
    /\ UNCHANGED <<now, completed, hash, file, household, wizard, stage, undisturbed>>

\* An app's sign-in: require_open comes before the media server is asked.
SignInApp(c, a) ==
    /\ Serving(c)
    /\ completed
    /\ connected = Home[a]
    /\ Becomes(c, [step |-> "linking", who |-> a])
    /\ UNCHANGED <<now, completed, hash, file, household, wizard, stage, undisturbed>>

\* open_console_session reads the state, outside any transaction that writes;
\* complete_setup refuses before its own when it can.
Decide(c) ==
    /\ flight[c].step = "proved"
    /\ \/ completed /\ Becomes(c, [step |-> "linking", who |-> flight[c].who])
       \/ /\ ~completed
          /\ flight[c].tab # None /\ connected # None /\ flight[c].who \in Admins
          /\ Becomes(c, [flight[c] EXCEPT !.step = "completing"])
       \/ /\ ~completed
          /\ flight[c].tab = None \/ connected = None \/ flight[c].who \notin Admins
          /\ Becomes(c, Idle)
    /\ UNCHANGED <<now, completed, hash, file, household, wizard, stage, undisturbed>>

\* link_user and the session it opens.
Link(c) ==
    /\ flight[c].step = "linking"
    /\ linked' = linked \cup {flight[c].who}
    /\ seated' = seated \cup {flight[c].who}
    /\ Becomes(c, Idle)
    /\ UNCHANGED <<now, completed, hash, file, connected, wizard, stage, undisturbed>>

CompleteUnchecked(c) ==  \* mutant: the session is not read again
    /\ flight[c].step = "completing"
    /\ ~completed
    /\ completed' = TRUE
    /\ hash' = None
    /\ linked' = linked \cup {flight[c].who}
    /\ seated' = seated \cup {flight[c].who}
    /\ tabs' = Closed("setup_completed")
    /\ Becomes(c, [step |-> "removing"])
    /\ UNCHANGED <<now, file, connected, latest, stage, undisturbed>>
\* complete_setup's transaction: the session is read again, the account is
\* linked, and a compare-and-set on the completion decides.
Complete(c) ==
    /\ flight[c].step = "completing"
    /\ Live(flight[c].tab)
    /\ ~completed
    /\ completed' = TRUE
    /\ hash' = None
    /\ linked' = linked \cup {flight[c].who}
    /\ seated' = seated \cup {flight[c].who}
    /\ tabs' = Closed("setup_completed")
    /\ Becomes(c, [step |-> "removing"])
    /\ UNCHANGED <<now, file, connected, latest, stage, undisturbed>>

\* The code's file goes after the commit.
RemoveFile(c) ==
    /\ flight[c].step = "removing"
    /\ file' = None
    /\ Becomes(c, Idle)
    /\ UNCHANGED <<now, completed, hash, household, wizard, stage, undisturbed>>

\* PUT /setup/media-server with a live setup session, and the administrator's
\* PUT /admin/connectors/media_server: the connection is tested before it is stored.
SaveFromTheWizard(c, t, s) ==
    /\ Serving(c)
    /\ Live(t)
    /\ Becomes(c, [step |-> "saving", to |-> s, relink |-> FALSE])
    /\ UNCHANGED <<now, completed, hash, file, household, wizard, stage, undisturbed>>
SaveFromTheConsole(c, a, s) ==
    /\ Serving(c)
    /\ a \in seated \cap Admins
    /\ Becomes(c, [step |-> "saving", to |-> s, relink |-> TRUE])
    /\ UNCHANGED <<now, completed, hash, file, household, wizard, stage, undisturbed>>

\* _store: another identity than the stored one signs everybody out, if the
\* caller asked for it.
Store(c) ==
    /\ flight[c].step = "saving"
    /\ connected' = flight[c].to
    /\ IF flight[c].relink /\ connected \notin {None, flight[c].to}
       THEN linked' = {} /\ seated' = {} /\ tabs' = Closed("server_changed")
       ELSE UNCHANGED <<linked, seated, tabs>>
    /\ Becomes(c, Idle)
    /\ UNCHANGED <<now, completed, hash, file, latest, stage, undisturbed>>

\* A refusal: the media server's, the remote access rule's, a session that is
\* no longer live, or setup completed by somebody else.
Refuse(c) ==
    /\ flight[c].step \in {"proved", "linking", "completing", "saving"}
    /\ Becomes(c, Idle)
    /\ UNCHANGED <<now, completed, hash, file, household, wizard, stage, undisturbed>>

SignOut(a) ==
    /\ stage["server"].at = "up"
    /\ a \in seated
    /\ seated' = seated \ {a}
    /\ UNCHANGED <<now, completed, hash, file, connected, linked, wizard, stage, flight,
                   undisturbed>>

-----------------------------------------------------------------------------
Next ==
    \/ Tick \/ DeleteFile \/ ResetFile \/ ResetRow \/ Claim
    \/ \E p \in Processes : Start(p) \/ EnsureFile(p) \/ EnsureHash(p) \/ Stop(p)
    \/ \E c \in Clients :
         \/ \E t \in Tabs \cup {None}, a \in Accounts : SignIn(c, t, a)
         \/ \E a \in Accounts : SignInApp(c, a)
         \/ \E t \in Tabs, s \in Servers : SaveFromTheWizard(c, t, s)
         \/ \E a \in Accounts, s \in Servers : SaveFromTheConsole(c, a, s)
         \/ Decide(c) \/ Link(c) \/ Complete(c) \/ RemoveFile(c) \/ Store(c) \/ Refuse(c)
    \/ \E a \in Accounts : SignOut(a)

Spec == Init /\ [][Next]_vars

-----------------------------------------------------------------------------
TypeOK ==
    /\ now \in 0 .. MaxTime
    /\ completed \in BOOLEAN
    /\ {hash, file} \subseteq Codes \cup {None}
    /\ connected \in Servers \cup {None}
    /\ IsTable(tabs, Tabs, Tab)
    /\ seated \subseteq linked /\ linked \subseteq Accounts
    /\ stage \in [Processes -> Stage]
    /\ flight \in [Clients -> Request]
    /\ latest \in Tabs \cup {None}
    /\ undisturbed \in BOOLEAN

\* At most one wizard is open, the newest, and none on a server that is set up,
\* whatever claims, sign-ins and resets cross each other.
OneWizard ==
    \A t \in DOMAIN tabs : tabs[t].reason = "live" => ~completed /\ t = latest

\* While one run of the server is alone with its data directory, the file holds
\* the code it would accept, and is gone once setup is complete: whatever a crash,
\* or a reset cut short, had left behind is repaired before it serves.
CodeFileTellsTheTruth ==
    undisturbed /\ stage["server"].at = "up" =>
        IF completed
        THEN file = None \/ \E c \in Clients : flight[c].step = "removing"
        ELSE file # None /\ file = hash

\* Setup is completed by the browser that claimed last, however long its
\* sign-in took: not by one a newer claim or a reset has shut out since.
OnlyTheNewestClaimCompletes ==
    [][~completed /\ completed' =>
         \E c \in Clients : flight[c].step = "completing" /\ flight[c].tab = latest
                            /\ flight'[c].step = "removing" /\ Live(latest)]_vars
=============================================================================

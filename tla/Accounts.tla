------------------------------ MODULE Accounts ------------------------------
(***************************************************************************)
(* Users and administrators: auth/users.py, the hourly reconciliation with  *)
(* the media server (auth/sync.py), the replacement of the media server     *)
(* (auth/mediaserver.py) and the sign-ins that link accounts to rows.       *)
(*                                                                         *)
(* What the media server says of an account changes while nobody looks.  A  *)
(* sign-in, an administrator's request and the reconciliation each act on   *)
(* what they were told, or read, before they were interrupted: `flight` and *)
(* `sync` hold it.  A write transaction is one step.                        *)
(***************************************************************************)
EXTENDS Naturals, FiniteSets, Tables

CONSTANTS
    Servers,    \* the media servers there are, each the set of its accounts
    Founder,    \* whose sign-in completed setup
    Rows,       \* ids a user row may get
    Clients,    \* requests that may be in flight at once
    None,       \* NULL
    MaxChanges  \* bound: how often a media server changes its mind

\* An account is of one server.
People == UNION Servers
Home == [a \in People |-> CHOOSE s \in Servers : a \in s]

Standings == {"absent", "disabled", "member", "admin"}
Reasons == {"none", "admin", "media_server", "unlinked"}

ASSUME AccountsAssumption ==
    /\ \A s \in Servers, t \in Servers : s # t => s \cap t = {}
    /\ Founder \in People
    /\ None \notin People \cup Servers
    /\ Rows # {}
    /\ MaxChanges \in Nat

VARIABLES
    there,      \* [People -> Standings]: what their media server says of them
    changes,    \* how often one of them changed its mind
    connected,  \* the media server in the settings
    users,      \* the users table
    seated,     \* the rows with a live session
    flight,     \* [Clients -> the request in flight]
    saving,     \* the server a connector save in flight tests, one save at a time
    sync,       \* the reconciliation in flight
    told        \* the rows whose last order from an administrator was to disable them

vars == <<there, changes, connected, users, seated, flight, saving, sync, told>>
outside == <<there, changes>>

User == [account : People \cup {None}, msadmin : BOOLEAN, promoted : BOOLEAN,
         enabled : BOOLEAN, reason : Reasons]
\* UserUpdate: "kept" is a field the request does not give.
Update == [enabled : {"kept", "yes", "no"}, role : {"kept", "admin", "user"}]

Idle == [step |-> "idle"]
Request ==
    {Idle} \cup [step : {"proved"}, who : People, admin : BOOLEAN]
           \cup [step : {"asked"}, msadmin : BOOLEAN]
           \cup [step : {"leaving"}, row : Rows]
\* The accounts listed are those in the domain.
Quiet == [step |-> "idle"]
Listed(list) == [step |-> "listed", list |-> list]

IsAdmin(user) == user.msadmin \/ user.promoted
CanSignIn(user) == user.enabled /\ user.account # None
RowsOf(a) == {r \in DOMAIN users : users[r].account = a}
\* An id nothing refers to.  It makes no difference which one is drawn.
Unused(table) ==
    LET free == {r \in Rows \ DOMAIN table :
                   \A c \in Clients : flight[c].step = "leaving" => flight[c].row # r}
    IN IF free = {} THEN {} ELSE {CHOOSE r \in free : TRUE}
\* count_enabled_admins counts these.
EnabledAdmins == {r \in DOMAIN users : users[r].enabled /\ IsAdmin(users[r])}
\* What list_users answers now: every account, disabled ones included.
Roll == [a \in {b \in People : Home[b] = connected /\ there[b] # "absent"} |-> there[a]]

\* What one writes on a new row.
NewUser(a, admin) ==
    [account |-> a, msadmin |-> admin, promoted |-> FALSE, enabled |-> TRUE, reason |-> "none"]

-----------------------------------------------------------------------------
\* The sign-in that completed setup created the first user.
Init ==
    /\ there = [a \in People |->
                  IF a = Founder \/ Home[a] # Home[Founder] THEN "admin" ELSE "member"]
    /\ changes = 0
    /\ connected = Home[Founder]
    /\ LET r == CHOOSE q \in Rows : TRUE
       IN users = Put(Empty, r, NewUser(Founder, TRUE)) /\ seated = {r}
    /\ flight = [c \in Clients |-> Idle]
    /\ saving = None
    /\ sync = Quiet
    /\ told = {}

\* The household changes something on a media server.
Change(a, standing) ==
    /\ changes < MaxChanges
    /\ there[a] # standing
    /\ there' = [there EXCEPT ![a] = standing]
    /\ changes' = changes + 1
    /\ UNCHANGED <<connected, users, seated, flight, saving, sync, told>>

Becomes(c, request) == flight' = [flight EXCEPT ![c] = request]

-----------------------------------------------------------------------------
(* Signing in.                                                              *)

\* The media server accepts an account.  (A re-authentication is the same
\* without the session, as if its user signed in and that session then ended.)
Prove(c, a) ==
    /\ flight[c] = Idle
    /\ Home[a] = connected
    /\ there[a] \in {"member", "admin"}
    /\ Becomes(c, [step |-> "proved", who |-> a, admin |-> there[a] = "admin"])
    /\ UNCHANGED <<outside, connected, users, seated, saving, sync, told>>

\* What a sign-in writes over a row.
Refreshed(user, admin) ==
    [user EXCEPT !.msadmin = admin, !.enabled = TRUE, !.reason = "none"]

\* link_user takes an account back unless an administrator disabled it here.
Welcome(user) == user.enabled \/ user.reason = "media_server"

\* link_user and the session it opens are one transaction.
Link(c) ==
    /\ flight[c].step = "proved"
    /\ LET a == flight[c].who
       IN \/ /\ RowsOf(a) = {}
             /\ \E r \in Unused(users) :
                  /\ users' = Put(users, r, NewUser(a, flight[c].admin))
                  /\ seated' = seated \cup {r}
          \/ \E r \in RowsOf(a) :
                  /\ Welcome(users[r])
                  /\ users' = [users EXCEPT ![r] = Refreshed(users[r], flight[c].admin)]
                  /\ seated' = seated \cup {r}
    /\ Becomes(c, Idle)
    /\ UNCHANGED <<outside, connected, saving, sync, told>>

SignOut(r) ==
    /\ r \in seated
    /\ seated' = seated \ {r}
    /\ UNCHANGED <<outside, connected, users, flight, saving, sync, told>>

\* A refusal, or an answer that never came.
Refuse(c) ==
    /\ flight[c] # Idle
    /\ Becomes(c, Idle)
    /\ UNCHANGED <<outside, connected, users, seated, saving, sync, told>>

-----------------------------------------------------------------------------
(* Administrators.                                                          *)

\* The session's user is read when the request comes in, and kept.
Ask(c, r) ==
    /\ flight[c] = Idle
    /\ r \in seated /\ CanSignIn(users[r]) /\ IsAdmin(users[r])
    /\ Becomes(c, [step |-> "asked", msadmin |-> users[r].msadmin])
    /\ UNCHANGED <<outside, connected, users, seated, saving, sync, told>>

Demotes(update) == update.role = "user"
Disables(update) == update.enabled = "no"
\* _changed_values, over the row.
Changed(user, update) ==
    LET toggled == /\ update.enabled # "kept"
                   /\ user.enabled # (update.enabled = "yes")
    IN [user EXCEPT
          !.enabled = IF toggled THEN ~@ ELSE @,
          !.reason = IF ~toggled THEN @ ELSE IF user.enabled THEN "admin" ELSE "none",
          !.promoted = IF update.role = "kept" THEN @ ELSE update.role = "admin",
          !.msadmin = @ /\ update.role # "user"]

MayActOn(user, msadmin) == user.msadmin => msadmin
AllowedCounting(user, update, msadmin) ==  \* mutant: the last administrator is not spared
    (Demotes(update) /\ IsAdmin(user)) \/ (Disables(update) /\ user.enabled) =>
        MayActOn(user, msadmin)
\* _check_rules.
Allowed(user, update, msadmin) ==
    (Demotes(update) /\ IsAdmin(user)) \/ (Disables(update) /\ user.enabled) =>
        /\ MayActOn(user, msadmin)
        /\ IsAdmin(user) /\ user.enabled => Cardinality(EnabledAdmins) > 1

\* update_user: the rules, the change and the revocation are one transaction.
UpdateUser(c, r, update) ==
    /\ flight[c].step = "asked"
    /\ r \in DOMAIN users
    /\ Allowed(users[r], update, flight[c].msadmin)
    /\ users' = [users EXCEPT ![r] = Changed(users[r], update)]
    /\ seated' = IF Disables(update) /\ users[r].enabled THEN seated \ {r} ELSE seated
    /\ told' = CASE update.enabled = "no" -> told \cup {r}
                 [] update.enabled = "yes" -> told \ {r}
                 [] OTHER -> told
    /\ Becomes(c, Idle)
    /\ UNCHANGED <<outside, connected, saving, sync>>

\* revoke_user_sessions.
SignOutUser(c, r) ==
    /\ flight[c].step = "asked"
    /\ r \in DOMAIN users
    /\ MayActOn(users[r], flight[c].msadmin)
    /\ seated' = seated \ {r}
    /\ Becomes(c, Idle)
    /\ UNCHANGED <<outside, connected, users, saving, sync, told>>

\* DELETE /me: the rule is checked on the row as it stands in the transaction.
AskToLeave(c, r) ==
    /\ flight[c] = Idle
    /\ r \in seated /\ CanSignIn(users[r])
    /\ Becomes(c, [step |-> "leaving", row |-> r])
    /\ UNCHANGED <<outside, connected, users, seated, saving, sync, told>>
DeleteUser(c) ==
    /\ flight[c].step = "leaving"
    /\ LET r == flight[c].row
       IN /\ r \in EnabledAdmins => Cardinality(EnabledAdmins) > 1
          /\ users' = Drop(users, {r})
          /\ seated' = seated \ {r}
          /\ told' = told \ {r}
    /\ Becomes(c, Idle)
    /\ UNCHANGED <<outside, connected, saving, sync>>

\* PUT /admin/connectors/media_server: the new server is tested, and then stored.
AskToSave(r, s) ==
    /\ saving = None
    /\ r \in seated /\ CanSignIn(users[r]) /\ users[r].msadmin
    /\ saving' = s
    /\ UNCHANGED <<outside, connected, users, seated, flight, sync, told>>

Unlinked(user) == [user EXCEPT !.account = None, !.enabled = FALSE, !.reason = "unlinked"]
\* _store: another server's identity signs everybody out and unlinks every row.
Store ==
    /\ saving # None
    /\ connected' = saving
    /\ IF connected' = connected
       THEN UNCHANGED <<users, seated>>
       ELSE /\ users' = [r \in DOMAIN users |-> Unlinked(users[r])]
            /\ seated' = {}
    /\ saving' = None
    /\ UNCHANGED <<outside, flight, sync, told>>
SaveFails ==
    /\ saving # None
    /\ saving' = None
    /\ UNCHANGED <<outside, connected, users, seated, flight, sync, told>>

-----------------------------------------------------------------------------
(* The hourly reconciliation.                                               *)

ListSeveral ==  \* mutant: a list of one account counts as none
    /\ sync = Quiet
    /\ Cardinality(DOMAIN Roll) > 1
    /\ sync' = Listed(Roll)
    /\ UNCHANGED <<outside, connected, users, seated, flight, saving, told>>
\* The media server is reached, is the one that was set up, and lists somebody.
List ==
    /\ sync = Quiet
    /\ DOMAIN Roll # {}
    /\ sync' = Listed(Roll)
    /\ UNCHANGED <<outside, connected, users, seated, flight, saving, told>>

Gone(user, list) ==
    user.account # None /\ (user.account \notin DOMAIN list \/ list[user.account] = "disabled")

ReconciledOverTheReason(user, list) ==  \* mutant: rows already disabled are written too
    IF user.account = None THEN user
    ELSE IF Gone(user, list)
         THEN [user EXCEPT !.enabled = FALSE, !.reason = "media_server", !.msadmin = FALSE]
         ELSE [user EXCEPT !.msadmin = @ /\ list[user.account] = "admin"]
ReconciledByTheList(user, list) ==  \* mutant: the flag is left to the sign-ins
    IF Gone(user, list) /\ user.enabled
    THEN [user EXCEPT !.enabled = FALSE, !.reason = "media_server", !.msadmin = FALSE]
    ELSE user
\* _disable, _refresh, or nothing but a date.
Reconciled(user, list) ==
    IF user.account = None \/ (Gone(user, list) /\ ~user.enabled) THEN user
    ELSE IF Gone(user, list)
         THEN [user EXCEPT !.enabled = FALSE, !.reason = "media_server", !.msadmin = FALSE]
         ELSE [user EXCEPT !.msadmin = @ /\ list[user.account] = "admin"]

\* Whose sessions _disable revokes.
Ousted(list) == {r \in DOMAIN users : users[r].enabled /\ Gone(users[r], list)}

\* _reconcile is one transaction over every row, with the list it was given.
Reconcile ==
    /\ sync # Quiet
    /\ users' = [r \in DOMAIN users |-> Reconciled(users[r], sync.list)]
    /\ seated' = seated \ Ousted(sync.list)
    /\ sync' = Quiet
    /\ UNCHANGED <<outside, connected, flight, saving, told>>

\* The server restarts: what was in flight is lost.
Restart ==
    /\ flight' = [c \in Clients |-> Idle]
    /\ saving' = None
    /\ sync' = Quiet
    /\ UNCHANGED <<outside, connected, users, seated, told>>

-----------------------------------------------------------------------------
Next ==
    \/ \E a \in People, standing \in Standings : Change(a, standing)
    \/ \E c \in Clients :
         \/ \E a \in People : Prove(c, a)
         \/ \E r \in DOMAIN users :
              \/ Ask(c, r) \/ AskToLeave(c, r) \/ SignOutUser(c, r)
              \/ \E update \in Update : UpdateUser(c, r, update)
         \/ Link(c) \/ Refuse(c) \/ DeleteUser(c)
    \/ \E r \in DOMAIN users : SignOut(r) \/ \E s \in Servers : AskToSave(r, s)
    \/ Store \/ SaveFails \/ List \/ Reconcile \/ Restart

Spec == Init /\ [][Next]_vars

\* The job runs every hour, whatever else happens; a restart is not for ever.
FairSpec == Spec /\ WF_vars(List) /\ SF_vars(Reconcile)

-----------------------------------------------------------------------------
TypeOK ==
    /\ there \in [People -> Standings]
    /\ changes \in 0 .. MaxChanges
    /\ connected \in Servers
    /\ IsTable(users, Rows, User)
    /\ seated \subseteq DOMAIN users
    /\ flight \in [Clients -> Request]
    /\ saving \in Servers \cup {None}
    /\ sync = Quiet \/ (sync.step = "listed" /\ DOMAIN sync.list \subseteq People)
    /\ told \subseteq DOMAIN users

\* Every session is of a user who may use it: whatever disables or unlinks a
\* row ends its sessions in the same step, and nothing in flight reopens one.
SeatedAreUsable == \A r \in seated : CanSignIn(users[r])

\* Only an administrator lets in whom an administrator disabled, or whose media
\* server was replaced: the media server's opinion, in whatever order it comes
\* with sign-ins, does not even change the reason into one a sign-in undoes.
Final(r) == ~users[r].enabled /\ users[r].reason \in {"admin", "unlinked"}
BarredStayOut ==
    [][\A r \in DOMAIN users \cap DOMAIN users' :
         Final(r) => Final(r)' \/ \E c \in Clients : flight[c].step = "asked" /\ flight'[c] = Idle]_vars

\* "Disabling sets disabled_reason = admin": whoever an administrator's last
\* order disables stays out, whether or not they were disabled already.
DisabledMeansDisabled == \A r \in told : ~users[r].enabled

\* Two administrators acting at once, or leaving, never take the last enabled
\* one away between them.
LastAdminStays ==
    [][(\E c \in Clients : flight[c].step \in {"asked", "leaving"} /\ flight'[c] = Idle)
        /\ EnabledAdmins # {} => EnabledAdmins' # {}]_vars

\* A reconciliation whose list still holds leaves nobody signed in, and no
\* administrator of the media server, that it does not know as such.
SyncSettlesAccounts ==
    [][sync # Quiet /\ sync.list = Roll /\ sync' = Quiet /\ users' # users =>
         \A r \in DOMAIN users' :
           /\ r \in seated' => users'[r].account \in DOMAIN Roll
           /\ users'[r].msadmin /\ CanSignIn(users'[r]) => Roll[users'[r].account] = "admin"]_vars

\* Whoever the media server removed or disabled, or whose media server was
\* replaced while they were signing in, is signed out in the end, if it goes
\* on listing somebody else.
Stray(r) ==
    /\ r \in seated
    /\ DOMAIN Roll # {}
    /\ users[r].account \notin DOMAIN Roll \/ Roll[users[r].account] = "disabled"
StraysAreSignedOut == \A r \in Rows : Stray(r) ~> ~Stray(r)
=============================================================================

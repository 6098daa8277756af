------------------------------- MODULE Console -------------------------------
(***************************************************************************)
(* The web console's requests: the fetch wrapper of web/src/api/client.ts,  *)
(* the session kept by auth/AuthProvider.tsx, the step-up dialog of         *)
(* auth/ReauthDialog.tsx, and what answers them in api/security.py and      *)
(* api/v1/auth.py.                                                          *)
(*                                                                         *)
(* The tabs of one browser share its cookies, and nothing else: each has    *)
(* its own CSRF token and its own idea of who is signed in.  A request      *)
(* leaves with the cookies of that moment, is answered by a server whose    *)
(* sessions other tabs open and end, and its answer arrives whenever it     *)
(* does, or never.                                                          *)
(***************************************************************************)
EXTENDS Naturals, FiniteSets

CONSTANTS
    Tabs,        \* the tabs of the browser
    Calls,       \* bound: the requests in flight at the same time
    Uses,        \* [Calls -> SUBSET (Tabs \X Whats)]: bound: what each is used for
    Users,       \* the accounts of the media server
    Admins,      \* those who administer it
    MaxSessions  \* bound: how many sessions are opened

VARIABLES
    session,    \* [Ids -> Row]: the rows of the console's sessions
    setupDone,  \* setup_completed
    jar,        \* [web, setup]: the browser's cookies
    token,      \* [Tabs -> Ids or NoId]: csrf.ts, by the session it is of
    seen,       \* [Tabs -> Ids or NoId]: the data under SESSION_KEY
    asking,     \* [Tabs -> BOOLEAN]: the dialog is open (pending > 0)
    waiting,    \* [Tabs -> SUBSET Calls]: waitingRef
    call        \* [Calls -> Call]

vars == <<session, setupDone, jar, token, seen, asking, waiting, call>>

Ids == 1 .. MaxSessions
NoId == 0
Nobody == "nobody"  \* the user of a setup session
\* What a tab asks for: its session; an admin's change that needs a recent
\* re-authentication; that re-authentication; sign-in; sign-out.  A session query
\* is "dropped" once its data has nowhere to go.
Whats == {"read", "dropped", "step_up", "reauth", "sign_in", "sign_out"}
Codes ==
    {"ok", "completed", "unauthorized", "csrf_failed", "reauth_required", "refused", "lost"}

ConsoleAssumption == Uses \in [Calls -> SUBSET (Tabs \X Whats)]

Row == [kind : {"free", "web", "setup"}, user : Users \cup {Nobody}, live : BOOLEAN, fresh : BOOLEAN]
Free == [kind |-> "free", user |-> Nobody, live |-> FALSE, fresh |-> FALSE]
Cookies == [web : Ids \cup {NoId}, setup : Ids \cup {NoId}]
NoCookies == [web |-> NoId, setup |-> NoId]

\* A request: what it carries, its answer, the replay it was given, and how often
\* the server did what it asks.
Request ==
    [step : {"sent", "answered", "reloading", "reloaded", "waiting"}, tab : Tabs, what : Whats,
     user : Users \cup {Nobody}, cookies : Cookies, token : Ids \cup {NoId},
     code : Codes, session : Ids \cup {NoId}, via : {"none", "csrf", "dialog"}, ran : 0 .. 2]
\* One that is over: what its caller was told, and how often it was done.
Settled == [step : {"settled"}, told : {"done", "refused", "not offered", "lost"}, ran : 0 .. 2]

InFlight == {c \in Calls : call[c].step # "settled"}
\* Who the tab shows as signed in: AuthState's session and user.
Shown(t) == IF seen[t] \in Ids THEN session[seen[t]] ELSE Free
Asks(t, what) == \E c \in InFlight : call[c].tab = t /\ call[c].what = what

-----------------------------------------------------------------------------
(* The server.                                                              *)

\* authenticate_cookie: the session a cookie still opens.
Opens(s, kind) == s # NoId /\ session[s].live /\ session[s].kind = kind

\* _from_cookie, for the kinds an endpoint accepts.
SessionOf(cookies, kinds) ==
    IF "web" \in kinds /\ Opens(cookies.web, "web") THEN cookies.web
    ELSE IF "setup" \in kinds /\ Opens(cookies.setup, "setup") THEN cookies.setup
    ELSE NoId

\* require_csrf_token; the console's Origin is always the server's own.
CsrfHolds(r, s) == r.token = s

\* Authenticator.__call__ of an unsafe request: the problem, or "ok".
Authenticated(r, admin) ==
    LET s == SessionOf(r.cookies, {"web"})
    IN  IF s = NoId THEN "unauthorized"
        ELSE IF ~CsrfHolds(r, s) THEN "csrf_failed"
        ELSE IF admin /\ session[s].user \notin Admins THEN "refused"
        ELSE "ok"

\* The answer of a request, which keeps nothing of what it carried.
Answer(c, code, s) ==
    call' = [call EXCEPT
        ![c].step = IF @ = "sent" THEN "answered" ELSE "reloaded",
        ![c].code = code, ![c].session = s, ![c].cookies = NoCookies, ![c].token = NoId,
        ![c].user = Nobody,
        ![c].ran = IF call[c].step = "sent" /\ code \in {"ok", "completed"} THEN @ + 1 ELSE @]

Untouched == UNCHANGED <<jar, token, seen, asking, waiting>>

\* get_web_session: the session query's, or the one reload of a refused call.
ServeRead(c) ==
    LET s == SessionOf(call[c].cookies, {"web", "setup"})
    IN  /\ \/ call[c].step = "reloading"
           \/ call[c].step = "sent" /\ call[c].what \in {"read", "dropped"}
        /\ Answer(c, IF s = NoId THEN "unauthorized" ELSE "ok", s)
        /\ UNCHANGED <<session, setupDone>> /\ Untouched

\* The media server's connector and public_url: under require_recent_reauth.
ServeChange(c) ==
    LET problem == Authenticated(call[c], TRUE)
    IN  /\ call[c].step = "sent" /\ call[c].what = "step_up"
        /\ Answer(c, IF problem = "ok" /\ ~session[call[c].cookies.web].fresh
                     THEN "reauth_required" ELSE problem, NoId)
        /\ UNCHANGED <<session, setupDone>> /\ Untouched

\* complete_reauth: another account of the media server is somebody else.
ProvedBy(s, account) == account = session[s].user

\* web_reauth, once the media server answered with an account: another one than the
\* session's is invalid_credentials, a 401.
ServeReauth(c, proved) ==
    LET problem == Authenticated(call[c], FALSE)
        s == call[c].cookies.web
    IN  /\ call[c].step = "sent" /\ call[c].what = "reauth"
        /\ IF problem # "ok" THEN Answer(c, problem, NoId) /\ UNCHANGED session
           ELSE IF ~ProvedBy(s, proved) THEN Answer(c, "unauthorized", NoId) /\ UNCHANGED session
           ELSE Answer(c, "ok", NoId) /\ session' = [session EXCEPT ![s].fresh = TRUE]
        /\ UNCHANGED setupDone /\ Untouched

\* logout: a web session's, even when the browser holds a setup cookie.
ServeSignOut(c) ==
    LET problem == Authenticated(call[c], FALSE)
    IN  /\ call[c].step = "sent" /\ call[c].what = "sign_out"
        /\ Answer(c, problem, NoId)
        /\ session' = IF problem = "ok"
                      THEN [session EXCEPT ![call[c].cookies.web] = [@ EXCEPT !.live = FALSE, !.fresh = FALSE]]
                      ELSE session
        /\ UNCHANGED setupDone /\ Untouched

\* setup_session_of: the live setup session the browser held.
SetupOf(r) == SessionOf(r.cookies, {"setup"})

\* web_login and its two brokered forms, once the account is proved: open a web
\* session, or complete the setup with the setup session.
ServeSignIn(c) ==
    LET r == call[c]
        new == CHOOSE s \in Ids : session[s].kind = "free"
        setup == SetupOf(r)
        opened == [kind |-> "web", user |-> r.user, live |-> TRUE, fresh |-> TRUE]
    IN  /\ r.step = "sent" /\ r.what = "sign_in"
        /\ \E s \in Ids : session[s].kind = "free"
        /\ \/ /\ setupDone
              /\ session' = [session EXCEPT ![new] = opened]
              /\ Answer(c, "ok", new)
              /\ UNCHANGED setupDone
           \/ /\ ~setupDone /\ setup # NoId /\ r.user \in Admins
              /\ session' = [session EXCEPT ![new] = opened, ![setup].live = FALSE]
              /\ Answer(c, "completed", new)
              /\ setupDone' = TRUE
           \/ /\ ~setupDone /\ (setup = NoId \/ r.user \notin Admins)
              /\ Answer(c, "refused", NoId)
              /\ UNCHANGED <<session, setupDone>>
        /\ Untouched

\* No account is proved, at a sign-in or a re-authentication.  Wrong credentials are a
\* 401, as a session that ended is; a PIN not approved yet or expired, a limit, a
\* disabled account or a server out of reach are not.
ServeNoProof(c) ==
    /\ call[c].step = "sent"
    /\ \/ call[c].what = "sign_in"
       \/ call[c].what = "reauth" /\ Authenticated(call[c], FALSE) = "ok"
    /\ \E code \in {"unauthorized", "refused"} : Answer(c, code, NoId)
    /\ UNCHANGED <<session, setupDone>> /\ Untouched

\* A session ends elsewhere: it expires, or is revoked.
End(s) ==
    /\ session[s].live
    /\ session' = [session EXCEPT ![s].live = FALSE, ![s].fresh = FALSE]
    /\ UNCHANGED <<setupDone, call>> /\ Untouched

\* reauth_expires_at: five minutes go by.
Lapse(s) ==
    /\ session[s].fresh
    /\ session' = [session EXCEPT ![s].fresh = FALSE]
    /\ UNCHANGED <<setupDone, call>> /\ Untouched

-----------------------------------------------------------------------------
(* The browser.                                                             *)

\* What the pages offer: the guards of guards.tsx, the sign-in pages, the dialog.
MayAsk(t, what) ==
    CASE what = "read" -> ~Asks(t, "read")
      [] what = "step_up" -> Shown(t).kind = "web" /\ Shown(t).user \in Admins
      [] what = "reauth" -> asking[t] /\ ~Asks(t, "reauth")
      [] what = "sign_in" -> seen[t] = NoId \/ Shown(t).kind = "setup"
      [] what = "sign_out" -> seen[t] \in Ids
      [] OTHER -> FALSE

\* send: the cookies are the browser's of now, the token the tab's.
Sent(r, cookies, csrf) == [r EXCEPT !.step = "sent", !.cookies = cookies, !.token = csrf]

Ask(c, t, what, user) ==
    /\ call[c].step = "settled" /\ <<t, what>> \in Uses[c] /\ MayAsk(t, what)
    /\ call' = [call EXCEPT ![c] =
            [step |-> "sent", tab |-> t, what |-> what, user |-> user, cookies |-> jar,
             token |-> token[t], code |-> "lost", session |-> NoId, via |-> "none", ran |-> 0]]
    /\ UNCHANGED <<session, setupDone>> /\ Untouched

\* Not offered: refused for want of a re-authentication the dialog never asked for.
Outcome(r, code) ==
    [step |-> "settled", ran |-> r.ran,
     told |-> CASE code \in {"ok", "completed"} -> "done"
                [] code = "lost" -> "lost"
                [] code = "reauth_required" /\ r.via # "dialog" -> "not offered"
                [] OTHER -> "refused"]

Shows(t, s) == token' = [token EXCEPT ![t] = s] /\ seen' = [seen EXCEPT ![t] = s]

\* The call is over for its caller; signOut's clear() drops the session query in
\* flight.
Over(c, code) ==
    LET r == call[c]
        left == {d \in InFlight : call[d].tab = r.tab /\ call[d].what = "read"}
    IN  call' = [d \in Calls |->
            CASE d = c -> Outcome(r, code)
              [] d \in left /\ d # c /\ r.what = "sign_out" -> [call[d] EXCEPT !.what = "dropped"]
              [] OTHER -> call[d]]

\* onUnauthorized, on any 401, and signOut whatever the answer was, forget the session.
Settle(c, code) ==
    LET t == call[c].tab
    IN  /\ Over(c, code)
        /\ IF code = "unauthorized" \/ call[c].what = "sign_out" THEN Shows(t, NoId)
           ELSE UNCHANGED <<token, seen>>

SendsAgain(c) ==  \* mutant: a call the network lost is sent again
    /\ call' = [call EXCEPT ![c] = Sent(@, jar, token[@.tab])]
    /\ UNCHANGED <<session, setupDone, jar, token, seen, asking, waiting>>
\* The network loses the request, or its answer.
Lose(c) ==
    /\ Settle(c, "lost")
    /\ UNCHANGED <<session, setupDone, jar, asking, waiting>>

\* The session query's queryFn: the token is set even when the data is dropped.
ReadDone(c) ==
    LET r == call[c]
    IN  /\ r.what \in {"read", "dropped"} /\ r.code = "ok"
        /\ call' = [call EXCEPT ![c] = Outcome(r, "ok")]
        /\ token' = [token EXCEPT ![r.tab] = r.session]
        /\ seen' = IF r.what = "read" THEN [seen EXCEPT ![r.tab] = r.session] ELSE seen
        /\ UNCHANGED <<jar, asking, waiting>>

\* finish_console_sign_in's cookies, and adoptSession.
SignInDone(c) ==
    LET r == call[c]
    IN  /\ r.what = "sign_in" /\ r.code \in {"ok", "completed"}
        /\ jar' = [web |-> r.session, setup |-> IF r.code = "completed" THEN NoId ELSE jar.setup]
        /\ call' = [call EXCEPT ![c] = Outcome(r, r.code)]
        /\ Shows(r.tab, r.session)
        /\ UNCHANGED <<asking, waiting>>

\* logout's cookies, and signOut.
SignOutDone(c) ==
    /\ call[c].what = "sign_out" /\ call[c].code = "ok"
    /\ jar' = NoCookies
    /\ Settle(c, "ok")
    /\ UNCHANGED <<asking, waiting>>

\* finish: everyone waiting for the dialog is answered, and it closes.
Finish(t, answered) ==
    /\ asking' = [asking EXCEPT ![t] = FALSE]
    /\ waiting' = [waiting EXCEPT ![t] = {}]
    /\ call' = answered

ReauthDone(c) ==
    LET r == call[c]
    IN  /\ r.what = "reauth" /\ r.code = "ok"
        /\ Finish(r.tab, [d \in Calls |->
                CASE d = c -> Outcome(r, "ok")
                  [] d \in waiting[r.tab] -> Sent(call[d], jar, token[r.tab])
                  [] OTHER -> call[d]])
        /\ UNCHANGED <<jar, token, seen>>

\* The dialog is closed, or the page left.
Dismiss(t) ==
    /\ asking[t]
    /\ Finish(t, [d \in Calls |->
            IF d \in waiting[t] THEN Outcome(call[d], "reauth_required") ELSE call[d]])
    /\ UNCHANGED <<session, setupDone, jar, token, seen>>

JoinsAlone(c) == {c}  \* mutant: the dialog keeps one resolver
\* Who waits for the dialog once c does.
Joins(c) == waiting[call[c].tab] \cup {c}

\* 403 reauth_required, the first time: the call waits for the dialog.
OpenDialog(c) ==
    LET t == call[c].tab
    IN  /\ call[c].code = "reauth_required" /\ call[c].via = "none"
        /\ waiting' = [waiting EXCEPT ![t] = Joins(c)]
        /\ asking' = [asking EXCEPT ![t] = TRUE]
        /\ call' = [call EXCEPT ![c].step = "waiting", ![c].via = "dialog"]
        /\ UNCHANGED <<jar, token, seen>>

\* 403 csrf_failed, the first time: the session is reloaded.
Reload(c) ==
    /\ call[c].code = "csrf_failed" /\ call[c].via = "none"
    /\ call' = [call EXCEPT ![c].step = "reloading", ![c].via = "csrf", ![c].cookies = jar]
    /\ UNCHANGED <<jar, token, seen, asking, waiting>>

\* refreshCsrfToken: replayed with the fresh token, or given up without one.
Replay(c) ==
    LET r == call[c]
    IN  /\ r.step = "reloaded"
        /\ \/ /\ r.code = "ok"
              /\ Shows(r.tab, r.session)
              /\ call' = [call EXCEPT ![c] = Sent(@, jar, r.session)]
           \/ /\ r.code # "ok"
              /\ Over(c, "csrf_failed") /\ Shows(r.tab, NoId)
        /\ UNCHANGED <<session, setupDone, jar, asking, waiting>>

\* Every other answer goes to the caller as it is.
Told(c) ==
    LET r == call[c]
    IN  /\ \/ r.code \in {"unauthorized", "refused"}
           \/ r.code \in {"csrf_failed", "reauth_required"} /\ r.via # "none"
           \/ r.code = "ok" /\ r.what = "step_up"
        /\ Settle(c, r.code)
        /\ UNCHANGED <<jar, asking, waiting>>

\* consoleFetch, once the answer is there.
Deliver(c) ==
    /\ call[c].step = "answered"
    /\ \/ ReadDone(c) \/ SignInDone(c) \/ SignOutDone(c) \/ ReauthDone(c)
       \/ OpenDialog(c) \/ Reload(c) \/ Told(c)
    /\ UNCHANGED <<session, setupDone>>

-----------------------------------------------------------------------------
\* A server in use, or one whose setup this browser has claimed; the tabs have
\* read their first session.
Init ==
    /\ setupDone \in BOOLEAN
    /\ session = [s \in Ids |-> IF s = 1 /\ ~setupDone THEN [Free EXCEPT !.kind = "setup", !.live = TRUE]
                                ELSE Free]
    /\ jar = [web |-> NoId, setup |-> IF setupDone THEN NoId ELSE 1]
    /\ token = [t \in Tabs |-> jar.setup] /\ seen = token
    /\ asking = [t \in Tabs |-> FALSE] /\ waiting = [t \in Tabs |-> {}]
    /\ call = [c \in Calls |->
                  [step |-> "settled", told |-> "lost", ran |-> 0]]

Next ==
    \/ \E c \in Calls :
        \/ \E use \in Uses[c] :
            IF use[2] = "sign_in" THEN \E u \in Users : Ask(c, use[1], use[2], u)
            ELSE Ask(c, use[1], use[2], Nobody)
        \/ /\ c \in InFlight
           /\ \/ ServeRead(c) \/ ServeChange(c) \/ ServeSignOut(c) \/ ServeSignIn(c) \/ ServeNoProof(c)
              \/ \E proved \in Users : ServeReauth(c, proved)
              \/ call[c].step # "waiting" /\ Lose(c)
              \/ Deliver(c) \/ Replay(c)
    \/ \E t \in Tabs : Dismiss(t)
    \/ \E s \in Ids : End(s) \/ Lapse(s)

Spec == Init /\ [][Next]_vars

-----------------------------------------------------------------------------
TypeOK ==
    /\ session \in [Ids -> Row] /\ setupDone \in BOOLEAN /\ jar \in Cookies
    /\ token \in [Tabs -> Ids \cup {NoId}] /\ seen \in [Tabs -> Ids \cup {NoId}]
    /\ asking \in [Tabs -> BOOLEAN] /\ waiting \in [Tabs -> SUBSET Calls]
    /\ call \in [Calls -> Request \cup Settled]

\* What a call is told is what happened: refused, it changed nothing; done, it
\* was done once, however often it was replayed; lost, at most once.
CallsRunOnce ==
    \A c \in Calls \ InFlight :
        \/ call[c].told = "done" /\ call[c].ran = 1
        \/ call[c].told = "lost" /\ call[c].ran <= 1
        \/ call[c].told \in {"refused", "not offered"} /\ call[c].ran = 0

\* A call that waits for the step-up dialog waits for one that is open: none is
\* left behind by the answer, or the closing, of the dialog it was opened for.
NobodyWaitsOnAClosedDialog ==
    \A c \in InFlight : call[c].step = "waiting" => asking[call[c].tab]

\* A change refused for want of a re-authentication was offered the dialog (as
\* consoleFetch's comment says).  Refuted: the code opens it for the first answer
\* only, and the replay of a csrf_failed call is the second.
StepUpsAreOffered ==
    \A c \in Calls \ InFlight : call[c].told # "not offered"

\* A tab forgets a session it shows only when that ended, or when its own user signed
\* out ("a session that ended ... must send the user back to sign-in").  Refuted: a
\* wrong password in the step-up dialog, or in the wizard, is a 401 too, and takes
\* the tab to sign-in.
OnlyEndedSessionsAreForgotten ==
    [][\A t \in Tabs :
          seen[t] \in Ids /\ session[seen[t]].live /\ seen'[t] = NoId =>
              \E c \in InFlight \ InFlight' : call[c].tab = t /\ call[c].what = "sign_out"]_vars
=============================================================================

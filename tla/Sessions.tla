------------------------------ MODULE Sessions ------------------------------
(***************************************************************************)
(* Sessions and refresh tokens: auth/sessions.py over storage/sessions.py.  *)
(*                                                                         *)
(* The program is one asyncio process over one SQLite file.  A write        *)
(* transaction (BEGIN IMMEDIATE) is one atomic step here, and so is a read  *)
(* snapshot; a request is interrupted between the two, wherever the code    *)
(* awaits.  A request in flight is a client's entry in `flight`, with what  *)
(* it captured before it was interrupted: the time, and the row it read.    *)
(***************************************************************************)
EXTENDS Naturals, FiniteSets, Tables, TLC

CONSTANTS
    Users,           \* the accounts of the media server
    SessionIds,      \* ids a session row may get
    TokenIds,        \* refresh tokens that may be drawn
    Clients,         \* requests that may be in flight at once
    MobileLifetime, WebLifetime,  \* ABSOLUTE_LIFETIMES
    MobileIdle, WebIdle,          \* IDLE_TIMEOUTS
    RefreshLifetime, \* REFRESH_TOKEN_LIFETIME
    SeenInterval,    \* LAST_SEEN_INTERVAL
    PurgeAge,        \* PURGE_SESSION_AGE
    MaxTime          \* bound: the clock stops here

Kinds == {"mobile", "web"}
Lifetime == [mobile |-> MobileLifetime, web |-> WebLifetime]
IdleTimeout == [mobile |-> MobileIdle, web |-> WebIdle]
\* Why a session was revoked; "asked" stands for the three reasons of somebody
\* asking for it: logout, user and admin.
Reasons == {"asked", "disabled", "reuse", "server_changed"}
\* What decides User.can_sign_in: "none" is no row at all, "usable" is enabled
\* and linked, the others are disabled with that reason.
Accounts == {"none", "usable", "admin", "media_server", "unlinked"}

ASSUME TimesAssumption ==
    /\ {MobileLifetime, WebLifetime, MobileIdle, WebIdle} \subseteq Nat
    /\ RefreshLifetime \in Nat
    /\ SeenInterval \in Nat
    /\ PurgeAge \in Nat
    /\ MaxTime \in Nat

VARIABLES
    now,       \* the clock every lifetime is decided with
    account,   \* [Users -> Accounts]
    remote,    \* [Users -> BOOLEAN]: users.remote_access
    sessions,  \* the sessions table
    tokens,    \* the refresh_tokens table
    flight,    \* [Clients -> Request]: what each request captured so far
    answered,  \* the refresh tokens an app was given the successor of
    careless   \* the sessions whose app presented a token again, or twice at once

vars == <<now, account, remote, sessions, tokens, flight, answered, careless>>

Time == 0 .. MaxTime
\* reason = "live" is revoked_at IS NULL (and revoked_reason with it).
Session == [kind : Kinds, user : Users, seen : Nat, ends : Nat,
            reason : Reasons \cup {"live"}, gone : Nat]
Token == [of : SessionIds, ends : Nat, used : BOOLEAN]

Idle == [step |-> "idle"]
Rotating == [step : {"rotate"}, at : Nat, token : TokenIds]
Touching == [step : {"touch"}, at : Nat, session : SessionIds, user : Users]
Serving == [step : {"serve"}, session : SessionIds, user : Users]
Request == {Idle} \cup Rotating \cup Touching \cup Serving

SmallerOf(a, b) == IF a <= b THEN a ELSE b
\* What a request in flight still names.
Names(c) ==
    CASE flight[c].step = "idle" -> {}
      [] flight[c].step = "rotate" -> {flight[c].token}
      [] OTHER -> {flight[c].session}
\* Ids are random: one just drawn is neither stored nor named by anybody.
Fresh(Ids, table) == {i \in Ids \ DOMAIN table : \A c \in Clients : i \notin Names(c)}

TokensOf(S) == {t \in DOMAIN tokens : tokens[t].of \in S}
SessionsOf(u) == {s \in DOMAIN sessions : sessions[s].user = u}

-----------------------------------------------------------------------------
(* The statements of storage/sessions.py.                                   *)

RevokedAgain(S, why, at) ==  \* mutant: no compare on revoked_at
    [s \in DOMAIN sessions |->
        IF s \in S THEN [sessions[s] EXCEPT !.reason = why, !.gone = at] ELSE sessions[s]]
\* Which rows a compare-and-set on revoked_at touches, and what it leaves.
Revoked(S, why, at) ==
    [s \in DOMAIN sessions |->
        IF s \in S /\ sessions[s].reason = "live"
        THEN [sessions[s] EXCEPT !.reason = why, !.gone = at]
        ELSE sessions[s]]

NewSession(k, u) ==
    [kind |-> k, user |-> u, seen |-> now, ends |-> now + Lifetime[k],
     reason |-> "live", gone |-> 0]

NewToken(s, ends, at) ==
    [of |-> s, ends |-> SmallerOf(at + RefreshLifetime, ends), used |-> FALSE]

\* _require_live, decided with the clock and not with the request's own time.
Live(s) ==
    /\ s \in DOMAIN sessions
    /\ sessions[s].reason = "live"
    /\ now < sessions[s].ends
    /\ now - sessions[s].seen < IdleTimeout[sessions[s].kind]

ClaimableTwice(t, at) ==  \* mutant: no compare on used_at
    t \in DOMAIN tokens /\ tokens[t].ends > at
\* claim_refresh_token's compare-and-set would match.
Claimable(t, at) ==
    /\ t \in DOMAIN tokens
    /\ ~tokens[t].used
    /\ tokens[t].ends > at

\* The row was there, and already rotated.
Reused(t) == t \in DOMAIN tokens /\ tokens[t].used

Touched(s, at) == [sessions EXCEPT ![s].seen = at]

-----------------------------------------------------------------------------
Init ==
    /\ now = 0
    /\ account = [u \in Users |-> "none"]
    /\ remote = [u \in Users |-> TRUE]
    /\ sessions = Empty
    /\ tokens = Empty
    /\ answered = {}
    /\ careless = {}
    /\ flight = [c \in Clients |-> Idle]

\* Time passes; a deadline is a value of the same clock.
Tick ==
    /\ now < MaxTime
    /\ now' = now + 1
    /\ UNCHANGED <<account, remote, sessions, tokens, flight, answered, careless>>

\* open_app_session and open_console_session: link_user and the session it
\* opens are one transaction.  An account an administrator disabled, or one
\* whose server was replaced, is refused; one the media server had lost is
\* taken back.
SignIn(u, k, allowed, private) ==
    /\ account[u] \in {"none", "usable", "media_server"}
    /\ allowed \/ private
    /\ \E s \in Fresh(SessionIds, sessions) :
         /\ sessions' = Put(sessions, s, NewSession(k, u))
         /\ IF k = "mobile"
            THEN \E t \in Fresh(TokenIds, tokens) :
                    tokens' = Put(tokens, t, NewToken(s, now + Lifetime[k], now))
            ELSE tokens' = tokens
    /\ account' = [account EXCEPT ![u] = "usable"]
    /\ remote' = [remote EXCEPT ![u] = allowed]
    /\ UNCHANGED <<now, flight, answered, careless>>

\* update_user disabling an account, or the hourly sync finding it gone: the
\* flag and the revocation of the sessions are one transaction.
Disable(u, why) ==
    /\ account[u] = "usable"
    /\ account' = [account EXCEPT ![u] = why]
    /\ sessions' = Revoked(SessionsOf(u), "disabled", now)
    /\ UNCHANGED <<now, remote, tokens, flight, answered, careless>>

\* update_user enabling an account again: its sessions stay revoked.
Enable(u) ==
    /\ account[u] \in {"admin", "media_server"}
    /\ account' = [account EXCEPT ![u] = "usable"]
    /\ UNCHANGED <<now, remote, sessions, tokens, flight, answered, careless>>

\* The sync following the media server's remote-access flag.
SetRemote(u) ==
    /\ account[u] = "usable"
    /\ remote' = [remote EXCEPT ![u] = ~remote[u]]
    /\ UNCHANGED <<now, account, sessions, tokens, flight, answered, careless>>

\* The connector saved with another server behind it: everybody is unlinked
\* and every session revoked, in the transaction that stores the connector.
ServerChanged ==
    /\ \E u \in Users : account[u] = "usable"
    /\ account' = [u \in Users |-> IF account[u] = "none" THEN "none" ELSE "unlinked"]
    /\ sessions' = Revoked(DOMAIN sessions, "server_changed", now)
    /\ UNCHANGED <<now, remote, tokens, flight, answered, careless>>

\* delete_user: the row goes, and by foreign key its sessions and their tokens.
DeleteUser(u) ==
    /\ account[u] # "none"
    /\ account' = [account EXCEPT ![u] = "none"]
    /\ sessions' = Drop(sessions, SessionsOf(u))
    /\ tokens' = Drop(tokens, TokensOf(SessionsOf(u)))
    /\ answered' = answered \cap DOMAIN tokens'
    /\ careless' = careless \ SessionsOf(u)
    /\ UNCHANGED <<now, remote, flight>>

\* The daily purge: sessions finished for long enough, and their tokens.
Purge ==
    LET finished == {s \in DOMAIN sessions :
                        \/ sessions[s].reason # "live" /\ sessions[s].gone + PurgeAge < now
                        \/ sessions[s].ends + PurgeAge < now}
    IN  /\ finished # {}
        /\ sessions' = Drop(sessions, finished)
        /\ tokens' = Drop(tokens, TokensOf(finished))
        /\ answered' = answered \cap DOMAIN tokens'
        /\ careless' = careless \ finished
        /\ UNCHANGED <<now, account, remote, flight>>

-----------------------------------------------------------------------------
(* rotate: the time is read before the write lock is waited for.            *)

\* An app presents a refresh token it was given once, spent or not.
RotateStart(c, t) ==
    /\ flight[c].step = "idle"
    /\ t \in DOMAIN tokens
    /\ flight' = [flight EXCEPT ![c] = [step |-> "rotate", at |-> now, token |-> t]]
    /\ careless' =
          IF t \in answered \/ \E d \in Clients : flight[d].step = "rotate" /\ flight[d].token = t
          THEN careless \cup {tokens[t].of}
          ELSE careless
    /\ UNCHANGED <<now, account, remote, sessions, tokens, answered>>

\* _rotate_claimed lets the request through: the session is a live app session
\* of a user who may still be served from where the request comes.
Admits(s, private) ==
    /\ Live(s)
    /\ sessions[s].kind = "mobile"
    /\ account[sessions[s].user] = "usable"
    /\ remote[sessions[s].user] \/ private

\* The claim and the new token, or neither: a refusal rolls the claim back.
Exchange(t, at, private) ==
    LET s == tokens[t].of IN
    /\ Claimable(t, at)
    /\ Admits(s, private)
    /\ \E fresh \in Fresh(TokenIds, tokens) :
         tokens' = Put([tokens EXCEPT ![t].used = TRUE], fresh,
                       NewToken(s, sessions[s].ends, at))
    /\ sessions' = Touched(s, at)
    /\ answered' = answered \cup {t}

RefuseSpending(t, at, private) ==  \* mutant: a refusal commits the claim
    /\ ~Reused(t)
    /\ ~(Claimable(t, at) /\ Admits(tokens[t].of, private))
    /\ tokens' = IF Claimable(t, at) THEN [tokens EXCEPT ![t].used = TRUE] ELSE tokens
    /\ UNCHANGED <<sessions, answered>>
\* The token is unknown or expired, or claimed but not admitted.
Refuse(t, at, private) ==
    /\ ~Reused(t)
    /\ ~(Claimable(t, at) /\ Admits(tokens[t].of, private))
    /\ UNCHANGED <<sessions, tokens, answered>>

\* A spent token came back: its session goes, and this transaction commits.
Reuse(t, at) ==
    /\ Reused(t)
    /\ sessions' = Revoked({tokens[t].of}, "reuse", at)
    /\ UNCHANGED <<tokens, answered>>

\* private: whether the request comes from the local network.
RotateCommit(c, private) ==
    /\ flight[c].step = "rotate"
    /\ \/ Exchange(flight[c].token, flight[c].at, private)
       \/ Refuse(flight[c].token, flight[c].at, private)
       \/ Reuse(flight[c].token, flight[c].at)
    /\ flight' = [flight EXCEPT ![c] = Idle]
    /\ UNCHANGED <<now, account, remote, careless>>

-----------------------------------------------------------------------------
(* An authenticated request: a read snapshot, the touch, then the handler.  *)

\* _check and the decision of _touch.
Authenticate(c, s) ==
    /\ flight[c].step = "idle"
    /\ Live(s)
    /\ account[sessions[s].user] = "usable"
    /\ LET u == sessions[s].user IN
         flight' = [flight EXCEPT ![c] =
            IF now - sessions[s].seen < SeenInterval
            THEN [step |-> "serve", session |-> s, user |-> u]
            ELSE [step |-> "touch", at |-> now, session |-> s, user |-> u]]
    /\ UNCHANGED <<now, account, remote, sessions, tokens, answered, careless>>

\* The touch is a blind write of a transaction of its own: it may find the row
\* revoked, purged or touched later since, and the request goes on all the same.
Touch(c) ==
    /\ flight[c].step = "touch"
    /\ sessions' = IF flight[c].session \in DOMAIN sessions
                   THEN Touched(flight[c].session, flight[c].at)
                   ELSE sessions
    /\ flight' = [flight EXCEPT ![c] =
          [step |-> "serve", session |-> flight[c].session, user |-> flight[c].user]]
    /\ UNCHANGED <<now, account, remote, tokens, answered, careless>>

\* logout, revoke_my_session and revoke_user_sessions, acting on what the
\* request was authenticated with; or a handler that changes no session.
Serve(c, S) ==
    /\ flight[c].step = "serve"
    /\ flight' = [flight EXCEPT ![c] = Idle]
    /\ \/ S = {flight[c].session}
       \/ \E s \in SessionsOf(flight[c].user) : S = {s}
       \/ \E u \in Users : S = SessionsOf(u)
    /\ sessions' = Revoked(S, "asked", now)
    /\ UNCHANGED <<now, account, remote, tokens, answered, careless>>

ServeNothing(c) ==
    /\ flight[c].step = "serve"
    /\ flight' = [flight EXCEPT ![c] = Idle]
    /\ UNCHANGED <<now, account, remote, sessions, tokens, answered, careless>>

Next ==
    \/ Tick
    \/ \E u \in Users, k \in Kinds, allowed, private \in BOOLEAN :
          SignIn(u, k, allowed, private)
    \/ \E u \in Users, why \in {"admin", "media_server"} : Disable(u, why)
    \/ \E u \in Users : Enable(u)
    \/ \E u \in Users : SetRemote(u)
    \/ ServerChanged
    \/ \E u \in Users : DeleteUser(u)
    \/ Purge
    \/ \E c \in Clients, t \in TokenIds : RotateStart(c, t)
    \/ \E c \in Clients, private \in BOOLEAN : RotateCommit(c, private)
    \/ \E c \in Clients, s \in SessionIds : Authenticate(c, s)
    \/ \E c \in Clients : Touch(c)
    \/ \E c \in Clients, S \in SUBSET SessionIds : Serve(c, S)
    \/ \E c \in Clients : ServeNothing(c)

Spec == Init /\ [][Next]_vars

-----------------------------------------------------------------------------
(* What must hold.                                                          *)

\* The rows are rows: every value a column takes is one its type allows.
TypeOK ==
    /\ now \in Time
    /\ account \in [Users -> Accounts]
    /\ remote \in [Users -> BOOLEAN]
    /\ IsTable(sessions, SessionIds, Session)
    /\ IsTable(tokens, TokenIds, Token)
    /\ flight \in [Clients -> Request]
    /\ answered \subseteq TokenIds
    /\ careless \subseteq SessionIds

\* No session outlives its owner's right to be here: whoever disables, unlinks
\* or deletes a user closes their sessions in the same breath, and nothing in
\* flight at that moment opens one afterwards (auth/users.py update_user,
\* auth/sync.py, auth/mediaserver.py _store, signin.open_app_session).
LiveSessionsAreUsable ==
    \A s \in DOMAIN sessions :
        sessions[s].reason = "live" => account[sessions[s].user] = "usable"

\* A refresh token works once: however rotations of one session interleave,
\* one unspent token is all the session ever has (claim_refresh_token).
OneUnspentToken ==
    \A t1, t2 \in DOMAIN tokens :
        /\ tokens[t1].of = tokens[t2].of
        /\ ~tokens[t1].used
        /\ ~tokens[t2].used
        => t1 = t2

\* A token is always some session's, an app's, and dies with it at the latest
\* (_issue_pair's min, and the cascade of users and purge); what the proofs need.
TokensStayWithinTheirSession ==
    \A t \in DOMAIN tokens :
        /\ tokens[t].of \in DOMAIN sessions
        /\ sessions[tokens[t].of].kind = "mobile"
        /\ tokens[t].ends <= sessions[tokens[t].of].ends

\* Revocation is final: a revoked row keeps its reason and its date whatever is
\* still in flight (a second revocation, a touch, a rotation), and its session
\* is given no further token (repository.revoke, _rotate_claimed).
KeepsRevoked ==
    \A s \in DOMAIN sessions :
        sessions[s].reason # "live" =>
          /\ s \in DOMAIN sessions' =>
               /\ sessions'[s].reason = sessions[s].reason
               /\ sessions'[s].gone = sessions[s].gone
          /\ {t \in DOMAIN tokens' : tokens'[t].of = s} \subseteq DOMAIN tokens
RevocationIsFinal == [][KeepsRevoked]_vars

\* A session is revoked for reuse only if its own app presented a token again
\* after its successor was handed out, or twice at once; whatever its refreshes
\* were refused for, a refusal leaves the token unspent (rotate raising inside
\* its transaction; docs/adr/0010, "never a race the server has to guess about").
NoFalseReuse == \A s \in DOMAIN sessions : sessions[s].reason = "reuse" => s \in careless

\* Users, sessions, tokens and requests are alike.
Symmetry ==
    Permutations(Users) \cup Permutations(SessionIds) \cup
    Permutations(TokenIds) \cup Permutations(Clients)
=============================================================================

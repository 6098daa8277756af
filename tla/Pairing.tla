------------------------------- MODULE Pairing -------------------------------
(***************************************************************************)
(* Connecting a phone with a code shown in the console: auth/pairing.py     *)
(* over storage/pairings.py.                                                *)
(*                                                                         *)
(* Every write transaction is one step.  The handlers read the clock before *)
(* they wait for the write lock, so a step decides with a time `at` that    *)
(* may be in the past.  The console's two verbs act on something read       *)
(* earlier, so they are two steps each, with what was read in `flight`.     *)
(* Reads that change nothing (preview, the poll that is told to wait, every *)
(* refusal) are stutters and have no action.                                *)
(***************************************************************************)
EXTENDS Naturals, FiniteSets, Tables, TLC

CONSTANTS
    Users,        \* who invites phones in the console
    PairingIds,   \* ids (and so codes) a pairing may get
    Phones,       \* phones, each with the PKCE verifier only it knows
    SessionIds,   \* ids a session may get
    Clients,      \* console requests that may be in flight at once
    Lifetime,     \* PAIRING_LIFETIME
    MaxOpen,      \* MAX_OPEN_PAIRINGS
    PurgeAge,     \* PURGE_PAIRING_AGE
    Nothing,      \* NULL
    MaxTime       \* bound: the clock stops here

ASSUME PairingAssumption ==
    /\ Lifetime \in Nat
    /\ MaxOpen \in Nat
    /\ PurgeAge \in Nat
    /\ MaxTime \in Nat
    /\ Nothing \notin Phones \cup SessionIds

VARIABLES
    now,        \* the clock
    account,    \* [Users -> Accounts]
    pairings,   \* the pairings table
    sessions,   \* the mobile sessions, with the pairing each came from
    flight,     \* [Clients -> Request]: what each console request read
    consented,  \* <<user, pairing, phone>>: approvals, by the phone they were shown
    dismissed   \* pairings whose revocation was answered

vars == <<now, account, pairings, sessions, flight, consented, dismissed>>

Time == 0 .. MaxTime
Accounts == {"usable", "disabled", "deleted"}
OpenStatuses == {"pending", "awaiting_approval", "approved"}
Statuses == OpenStatuses \cup {"completed", "revoked"}

Row == [user : Users, status : Statuses, phone : Phones \cup {Nothing},
        created : Nat, ends : Nat, session : SessionIds \cup {Nothing}]
SessionRow == [user : Users, phone : Phones, from : PairingIds, live : BOOLEAN]

Idle == [step |-> "idle"]
Approving == [step : {"approve"}, user : Users, pairing : PairingIds, phone : Phones]
Revoking == [step : {"revoke"}, pairing : PairingIds, status : Statuses,
             session : SessionIds \cup {Nothing}]
Request == {Idle} \cup Approving \cup Revoking

Owned(u) == {p \in DOMAIN pairings : pairings[p].user = u}
\* list_open_for_user.
Open(u, at) == {p \in Owned(u) : pairings[p].status \in OpenStatuses /\ pairings[p].ends > at}
SessionsOf(u) == {s \in DOMAIN sessions : sessions[s].user = u}

\* transition's compare-and-set would match.
Movable(p, expected, at) ==
    /\ p \in DOMAIN pairings
    /\ pairings[p].status \in expected
    /\ pairings[p].ends > at

\* Random ids: never one that is still stored or named anywhere.
FreshPairings ==
    {p \in PairingIds \ DOMAIN pairings :
        /\ \A s \in DOMAIN sessions : sessions[s].from # p
        /\ \A c \in Clients : flight[c] # Idle => flight[c].pairing # p
        /\ \A x \in consented : x[2] # p
        /\ p \notin dismissed}
FreshSessions ==
    {s \in SessionIds \ DOMAIN sessions :
        \A c \in Clients : flight[c].step = "revoke" => flight[c].session # s}

-----------------------------------------------------------------------------
Init ==
    /\ now = 0
    /\ account = [u \in Users |-> "usable"]
    /\ pairings = Empty
    /\ sessions = Empty
    /\ flight = [c \in Clients |-> Idle]
    /\ consented = {}
    /\ dismissed = {}

Tick ==
    /\ now < MaxTime
    /\ now' = now + 1
    /\ UNCHANGED <<account, pairings, sessions, flight, consented, dismissed>>

\* create: counting the open pairings and inserting are one transaction.  The
\* request was authenticated earlier: its user may have been disabled since.
Create(u) ==
    /\ account[u] # "deleted"
    /\ \E at \in 0 .. now, p \in FreshPairings :
         /\ Cardinality(Open(u, at)) < MaxOpen
         /\ pairings' = Put(pairings, p,
              [user |-> u, status |-> "pending", phone |-> Nothing,
               created |-> at, ends |-> at + Lifetime, session |-> Nothing])
    /\ UNCHANGED <<now, account, sessions, flight, consented, dismissed>>

RequestAgain(p, q) ==  \* mutant: a second phone may take the code over
    /\ \E at \in 0 .. now : Movable(p, {"pending", "awaiting_approval"}, at)
    /\ pairings' = [pairings EXCEPT ![p].status = "awaiting_approval", ![p].phone = q]
    /\ UNCHANGED <<now, account, sessions, flight, consented, dismissed>>
\* request: phone q read the code and asks; the code stops working for others.
AskToPair(p, q) ==
    /\ \E at \in 0 .. now : Movable(p, {"pending"}, at)
    /\ pairings' = [pairings EXCEPT ![p].status = "awaiting_approval", ![p].phone = q]
    /\ UNCHANGED <<now, account, sessions, flight, consented, dismissed>>

\* The user looks at one of their pairings in the console, sees which phone
\* waits, with its four digits, and says yes: owned, and approve's early checks.
SayYes(c, u, p) ==
    /\ flight[c] = Idle
    /\ p \in Owned(u)
    /\ Movable(p, {"awaiting_approval"}, now)
    /\ flight' = [flight EXCEPT ![c] =
          [step |-> "approve", user |-> u, pairing |-> p, phone |-> pairings[p].phone]]
    /\ UNCHANGED <<now, account, pairings, sessions, consented, dismissed>>

\* approve's transition, refused when the pairing moved in the meantime.
Approve(c) ==
    /\ flight[c].step = "approve"
    /\ flight' = [flight EXCEPT ![c] = Idle]
    /\ LET p == flight[c].pairing IN
         \/ \E at \in 0 .. now :
              /\ Movable(p, {"awaiting_approval"}, at)
              /\ pairings' = [pairings EXCEPT ![p].status = "approved"]
              /\ consented' = consented \cup {<<flight[c].user, p, flight[c].phone>>}
         \/ /\ \E at \in 0 .. now : ~Movable(p, {"awaiting_approval"}, at)
            /\ UNCHANGED <<pairings, consented>>
    /\ UNCHANGED <<now, account, sessions, dismissed>>

\* revoke reads which of cancelling, rejecting and signing out it is.
SayNo(c, u, p) ==
    /\ flight[c] = Idle
    /\ p \in Owned(u)
    /\ flight' = [flight EXCEPT ![c] =
          [step |-> "revoke", pairing |-> p, status |-> pairings[p].status,
           session |-> pairings[p].session]]
    /\ UNCHANGED <<now, account, pairings, sessions, consented, dismissed>>

SignedOut(S) == [s \in DOMAIN sessions |->
                    IF s \in S THEN [sessions[s] EXCEPT !.live = FALSE] ELSE sessions[s]]
Cancelled(p, from) ==
    IF p \in DOMAIN pairings /\ pairings[p].status \in from
    THEN [pairings EXCEPT ![p].status = "revoked"]
    ELSE pairings
\* ... and does it: the session the row named when it was read, or else the
\* row if it is still open, run out of time or not.  It is answered either way.
Revoke(c) ==
    /\ flight[c].step = "revoke"
    /\ flight' = [flight EXCEPT ![c] = Idle]
    /\ IF flight[c].status = "completed"
       THEN /\ sessions' = SignedOut({flight[c].session})
            /\ pairings' = pairings
       ELSE /\ sessions' = sessions
            /\ pairings' = Cancelled(flight[c].pairing, OpenStatuses)
    /\ dismissed' = dismissed \cup ({flight[c].pairing} \cap DOMAIN pairings)
    /\ UNCHANGED <<now, account, consented>>

OpenSession(p, q) ==
    \E s \in FreshSessions :
      /\ sessions' = Put(sessions, s,
           [user |-> pairings[p].user, phone |-> q, from |-> p, live |-> TRUE])
      /\ pairings' = [pairings EXCEPT ![p].status = "completed", ![p].session = s]
\* complete: the poll's read only refuses earlier what its transaction checks
\* again; the session and the row's last move are that one transaction.  (The
\* remote-access check can only refuse, which is a stutter.)
Complete(p, q) ==
    /\ \E at \in 0 .. now : Movable(p, {"approved"}, at)
    /\ pairings[p].phone = q
    /\ account[pairings[p].user] = "usable"
    /\ OpenSession(p, q)
    /\ UNCHANGED <<now, account, flight, consented, dismissed>>

-----------------------------------------------------------------------------
(* What the rest of the server does meanwhile.                              *)

\* A session is signed out, or runs out.
EndSession(s) ==
    /\ s \in DOMAIN sessions
    /\ sessions[s].live
    /\ sessions' = SignedOut({s})
    /\ UNCHANGED <<now, account, pairings, flight, consented, dismissed>>

Disable(u) ==
    /\ account[u] = "usable"
    /\ account' = [account EXCEPT ![u] = "disabled"]
    /\ sessions' = SignedOut(SessionsOf(u))
    /\ UNCHANGED <<now, pairings, flight, consented, dismissed>>

Enable(u) ==
    /\ account[u] = "disabled"
    /\ account' = [account EXCEPT ![u] = "usable"]
    /\ UNCHANGED <<now, pairings, sessions, flight, consented, dismissed>>

\* Rows P of pairings and S of sessions go: the cascades of the foreign keys,
\* sessions.user_id, pairings.user_id and pairings.session_id (SET NULL).
Delete(P, S) ==
    /\ pairings' = [p \in DOMAIN pairings \ P |->
                       IF pairings[p].session \in S
                       THEN [pairings[p] EXCEPT !.session = Nothing]
                       ELSE pairings[p]]
    /\ sessions' = Drop(sessions, S)
    /\ LET forgotten == P \ {sessions[s].from : s \in DOMAIN sessions'} IN
         /\ consented' = {x \in consented : x[2] \notin forgotten}
         /\ dismissed' = dismissed \ forgotten

DeleteUser(u) ==
    /\ account[u] # "deleted"
    /\ account' = [account EXCEPT ![u] = "deleted"]
    /\ Delete(Owned(u), SessionsOf(u))
    /\ UNCHANGED <<now, flight>>

\* The daily purge: old pairings whatever their state, and some of the sessions
\* that are over.
Purge ==
    LET old == {p \in DOMAIN pairings : pairings[p].created + PurgeAge < now}
        over == {s \in DOMAIN sessions : ~sessions[s].live}
    IN  /\ \E S \in SUBSET over : old \cup S # {} /\ Delete(old, S)
        /\ UNCHANGED <<now, account, flight>>

Next ==
    \/ Tick
    \/ \E u \in Users : Create(u) \/ Disable(u) \/ Enable(u) \/ DeleteUser(u)
    \/ \E p \in PairingIds, q \in Phones : AskToPair(p, q) \/ Complete(p, q)
    \/ \E c \in Clients, u \in Users, p \in PairingIds : SayYes(c, u, p) \/ SayNo(c, u, p)
    \/ \E c \in Clients : Approve(c) \/ Revoke(c)
    \/ \E s \in SessionIds : EndSession(s)
    \/ Purge

Spec == Init /\ [][Next]_vars

-----------------------------------------------------------------------------
(* What must hold.                                                          *)

\* The rows are rows.
TypeOK ==
    /\ now \in Time
    /\ account \in [Users -> Accounts]
    /\ IsTable(pairings, PairingIds, Row)
    /\ IsTable(sessions, SessionIds, SessionRow)
    /\ flight \in [Clients -> Request]
    /\ consented \subseteq Users \X PairingIds \X Phones
    /\ dismissed \subseteq PairingIds

\* A code connects one phone, once: polls that race for an approved pairing
\* open one session between them (complete's re-check and transition).
OneSessionPerPairing ==
    \A s1, s2 \in DOMAIN sessions : sessions[s1].from = sessions[s2].from => s1 = s2

\* Rejecting and completing exclude each other: a row that ended revoked never
\* opened a session, and a completed one that kept its session never ended
\* revoked (transition's expected statuses).
RevokedOpenedNothing ==
    \A p \in DOMAIN pairings : pairings[p].status = "revoked" =>
        \A s \in DOMAIN sessions : sessions[s].from # p

\* The phone let in is the phone its owner saw and said yes to, whatever other
\* phones read the code, and every pairing walks its path forwards only:
\* Pairing implements Consent.
Owner == [p \in DOMAIN pairings |-> pairings[p].user]
Phase ==
    [p \in DOMAIN pairings |->
        CASE pairings[p].status = "pending" -> "open"
          [] pairings[p].status = "awaiting_approval" -> "taken"
          [] pairings[p].status = "approved" -> "allowed"
          [] OTHER -> "over"]
TakenUp == {p \in DOMAIN pairings : pairings[p].phone # Nothing}
Holder == [p \in TakenUp |-> pairings[p].phone]
Seated ==
    {<<sessions[s].user, sessions[s].from, sessions[s].phone, s>> :
        s \in {x \in DOMAIN sessions : sessions[x].live}}
Promise == INSTANCE Consent WITH
    Invitations <- PairingIds, Seats <- SessionIds,
    owner <- Owner, phase <- Phase, holder <- Holder, allowed <- consented, seated <- Seated
KeepsItsPromise == Promise!Spec

\* Whoever rejects or signs out a phone is rid of it: once the answer is given,
\* no session opened from that pairing is live (storage/pairings.py: "a phone
\* completing exactly as the user rejects").
DismissedForGood ==
    \A s \in DOMAIN sessions : sessions[s].live => sessions[s].from \notin dismissed

\* Users, phones, codes, sessions and requests are alike.
Symmetry ==
    Permutations(Users) \cup Permutations(PairingIds) \cup Permutations(Phones) \cup
    Permutations(SessionIds) \cup Permutations(Clients)
=============================================================================

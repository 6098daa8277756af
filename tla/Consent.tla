------------------------------- MODULE Consent -------------------------------
(***************************************************************************)
(* What pairing a phone promises, with no database, clock or request in it: *)
(* an invitation is taken up by one phone, only its owner lets that phone   *)
(* in, and it opens one session.  Pairing is shown to implement this.       *)
(***************************************************************************)
CONSTANTS Users, Invitations, Phones, Seats

VARIABLES
    owner,    \* the function from the invitations that exist to their owners
    phase,    \* how far each of them has gone
    holder,   \* the phone that took it up, for those some phone took up
    allowed,  \* <<user, invitation, phone>>: whom users said yes to
    seated    \* <<user, invitation, phone, seat>>: the sessions open

vars == <<owner, phase, holder, allowed, seated>>

Nobody == [i \in {} |-> {}]

Init ==
    /\ owner = Nobody
    /\ phase = Nobody
    /\ holder = Nobody
    /\ allowed = {}
    /\ seated = {}

\* Invitations whose phase is one of P.
In(P) == {i \in DOMAIN phase : phase[i] \in P}

Invite(i, u) ==
    /\ i \notin DOMAIN phase
    /\ \A seat \in seated : seat[2] # i
    /\ \A a \in allowed : a[2] # i
    /\ owner' = [x \in DOMAIN owner \cup {i} |-> IF x = i THEN u ELSE owner[x]]
    /\ phase' = [x \in DOMAIN phase \cup {i} |-> IF x = i THEN "open" ELSE phase[x]]
    /\ UNCHANGED <<holder, allowed, seated>>

\* Taking an invitation up shuts the other phones out.
TakeUp(i, q) ==
    /\ i \in In({"open"})
    /\ phase' = [phase EXCEPT ![i] = "taken"]
    /\ holder' = [x \in DOMAIN holder \cup {i} |-> IF x = i THEN q ELSE holder[x]]
    /\ UNCHANGED <<owner, allowed, seated>>

Allow(i, u) ==
    /\ i \in In({"taken"})
    /\ owner[i] = u
    /\ phase' = [phase EXCEPT ![i] = "allowed"]
    /\ allowed' = allowed \cup {<<u, i, holder[i]>>}
    /\ UNCHANGED <<owner, holder, seated>>

\* The phone that was let in, and no other, sits down, once.
Sit(i, seat) ==
    /\ i \in In({"allowed"})
    /\ \A other \in seated : other[4] # seat
    /\ phase' = [phase EXCEPT ![i] = "over"]
    /\ seated' = seated \cup {<<owner[i], i, holder[i], seat>>}
    /\ UNCHANGED <<owner, holder, allowed>>

CallOff(i) ==
    /\ i \in In({"open", "taken", "allowed"})
    /\ phase' = [phase EXCEPT ![i] = "over"]
    /\ UNCHANGED <<owner, holder, allowed, seated>>

\* Sessions end and invitations are forgotten, which undoes nothing else: who
\* was let in by whom is known for as long as they stay.
Leave ==
    /\ seated' \in SUBSET seated
    /\ \E I \in SUBSET DOMAIN phase :
          /\ owner' = [i \in DOMAIN owner \ I |-> owner[i]]
          /\ phase' = [i \in DOMAIN phase \ I |-> phase[i]]
          /\ holder' = [i \in DOMAIN holder \ I |-> holder[i]]
          /\ \A a \in allowed \ allowed' :
                a[2] \notin DOMAIN phase' /\ \A seat \in seated' : seat[2] # a[2]
    /\ allowed' \in SUBSET allowed

Next ==
    \/ \E i \in Invitations, u \in Users : Invite(i, u) \/ Allow(i, u)
    \/ \E i \in Invitations, q \in Phones : TakeUp(i, q)
    \/ \E i \in Invitations, seat \in Seats : Sit(i, seat)
    \/ \E i \in Invitations : CallOff(i)
    \/ Leave

Spec == Init /\ [][Next]_vars
=============================================================================

------------------------------- MODULE Handles -------------------------------
(***************************************************************************)
(* Sign-in handles: auth/handles.py, and the two flows that use it,         *)
(* auth/brokered.py, as api/v1/auth.py calls them.                          *)
(*                                                                         *)
(* The registry lives in memory and every method of it runs to its end      *)
(* without an await; a flow is interrupted where it calls plex.tv or        *)
(* Jellyfin.  A handle is an object: one that left the table lives on as    *)
(* long as a flow, or the sweep, holds it.  Approvals, and the Jellyfin     *)
(* sessions they open, happen outside the program.                          *)
(***************************************************************************)
EXTENDS Naturals, Sequences, FiniteSets, FiniteSetsExt, SequencesExt

CONSTANTS
    MaxHandles,    \* bound: how many handles are made
    Clients,       \* client addresses
    Private,       \* those on the local network
    Flows,         \* bound: the requests being answered at the same time
    Offered,       \* the <<kind, purpose>> pairs this server can be asked for
    Lifetime,      \* [Kinds -> Nat]: MAX_LIFETIME
    MaxPerClient,  \* MAX_PER_CLIENT
    MaxTotal,      \* MAX_TOTAL
    MaxTime        \* bound: the clock stops here

Kinds == {"plex_pin", "quick_connect"}
Purposes == {"sign_in", "reauth", "owner_token"}

HandlesAssumption ==
    /\ Private \subseteq Clients
    /\ Offered \subseteq Kinds \X Purposes
    /\ Lifetime \in [Kinds -> Nat \ {0}]
    /\ MaxPerClient \in Nat \ {0} /\ MaxTotal \in Nat \ {0}
    /\ MaxTime \in Nat /\ MaxHandles \in Nat

VARIABLES
    now,       \* the clock
    handle,    \* the objects, in the order they were made: their index is their id
    registered,\* _handles: an OrderedDict, in the order they were made, that of the ids
    toSweep,   \* _to_sweep
    sweeping,  \* what the running sweep took and has not polled yet
    flight,    \* [Flows -> Flow]: where each request is suspended, and on which handle
    session    \* [Ids -> Sessions]: what became of each handle's session on Jellyfin

vars == <<now, handle, registered, toSweep, sweeping, flight, session>>

Ids == 1 .. MaxHandles

\* What is known of a handle, and of the request it stands for: approved by its
\* user.  polled: within the last second.
Handle ==
    [kind : Kinds, purpose : Purposes, client : Clients, ends : Nat, polled : BOOLEAN,
     filled : BOOLEAN, token : BOOLEAN, collected : BOOLEAN,
     approved : BOOLEAN]
Freed == [kind |-> "freed"]
\* Left: polled once in vain, with no adapter, cut from the list or forgotten by a restart.
Sessions == {"none", "open", "ended", "left"}
Idle == [step |-> "idle"]
Flow == {Idle} \cup [step : {"creating", "collecting", "checking", "saving"}, handle : Ids]

Held == registered \cup Range(toSweep) \cup Range(sweeping)
            \cup {flight[f].handle : f \in {g \in Flows : flight[g] # Idle}}
Live == {h \in DOMAIN handle : handle[h].kind # "freed"}
At(f, step) == flight[f].step = step
Resume(f) == flight' = [flight EXCEPT ![f] = Idle]
Suspend(f, step, h) == flight' = [flight EXCEPT ![f] = [step |-> step, handle |-> h]]

-----------------------------------------------------------------------------
(* Leaving the table.                                                       *)

Expired(h) == now >= handle[h].ends

DiscardedForGood(hs) == <<>>  \* mutant: what leaves unused is dropped
\* _discard: of these handles, the ones that may still hold a session, the oldest first.
Discarded(hs) ==
    SelectSeq([h \in DOMAIN handle |-> h], LAMBDA h :
        h \in hs /\ handle[h].kind = "quick_connect" /\ ~handle[h].collected)

\* The table and the list of the sweep after _forget_expired; the list keeps
\* its last MaxTotal entries.
LastOnes(s) == IF Len(s) > MaxTotal THEN SubSeq(s, Len(s) - MaxTotal + 1, Len(s)) ELSE s
Remaining == {h \in registered : ~Expired(h)}
Abandoned == toSweep \o Discarded(registered \ Remaining)
PutAside == LastOnes(Abandoned)

\* The sessions of these handles that did not end are left to Jellyfin.
Leave(hs) ==
    session' = [h \in Ids |-> IF h \in hs /\ session[h] # "ended" THEN "left" ELSE session[h]]
Ends(h) == session' = [session EXCEPT ![h] = "ended"]
\* One cut from the list of the sweep is never polled.
Cut == Range(Abandoned) \ Range(PutAside)

\* An object nobody holds any more is gone.
Become(hs) == LET held == Held' IN handle' = [h \in DOMAIN hs |-> IF h \in held THEN hs[h] ELSE Freed]

\* Any call that changes nothing else: a creation refused by a cap or by the
\* creation limit, a use answered 410, a poll that came within the second.
Forget ==
    /\ Remaining # registered
    /\ registered' = Remaining
    /\ toSweep' = PutAside
    /\ Leave(Cut)
    /\ UNCHANGED <<now, sweeping, flight>>
    /\ Become(handle)

-----------------------------------------------------------------------------
(* Creating.                                                                *)

HeldBy(c, hs) == {h \in hs : handle[h].client = c}

\* Who may be made to give a slot up to c.
Candidates(c, hs) ==
    {k \in {handle[h].client : h \in hs} \ {c} : c \in Private \/ k \notin Private}

\* How many handles a client holds, which _evict_for counts.
Count(c, hs) == Cardinality(HeldBy(c, hs))

\* _evict_for: the oldest handle of whoever holds the most, the first of them
\* in the table when several do.
Greediest(c, hs) ==
    {k \in Candidates(c, hs) : \A other \in Candidates(c, hs) : Count(other, hs) <= Count(k, hs)}
Victim(c, hs) == Min({h \in hs : handle[h].client \in Greediest(c, hs)})

\* _check_caps would not raise.
CapsAllow(c, hs) ==
    /\ Count(c, hs) < MaxPerClient
    /\ Cardinality(hs) < MaxTotal \/ Candidates(c, hs) # {}

NewHandle(c, kind, purpose) ==
    [kind |-> kind, purpose |-> purpose, client |-> c, ends |-> now + Lifetime[kind],
     polled |-> FALSE, filled |-> FALSE, token |-> FALSE, collected |-> FALSE,
     approved |-> FALSE]

EvictedLate(c, hs) ==  \* mutant: one too many is let in
    IF Cardinality(hs) > MaxTotal THEN {Victim(c, hs)} ELSE {}
Evicted(c, hs) == IF Cardinality(hs) >= MaxTotal THEN {Victim(c, hs)} ELSE {}

\* reserving: the slot is taken before plex.tv or Jellyfin is called.
\* Bound: only handles that end before the clock stops are made.
Reserve(f, c, kind, purpose) ==
    LET h == Len(handle) + 1
        evicted == Evicted(c, Remaining)
    IN  /\ At(f, "idle")
        /\ h \in Ids
        /\ <<kind, purpose>> \in Offered
        /\ now + Lifetime[kind] <= MaxTime
        /\ CapsAllow(c, Remaining)
        /\ registered' = (Remaining \ evicted) \cup {h}
        /\ toSweep' = PutAside \o Discarded(evicted)
        /\ Suspend(f, "creating", h)
        /\ Leave(Cut)
        /\ UNCHANGED <<now, sweeping>>
        /\ Become(Append(handle, NewHandle(c, kind, purpose)))

\* attach: plex.tv may give a PIN less time than the cap, never more.
Created(f) ==
    LET h == flight[f].handle
    IN  /\ At(f, "creating")
        /\ Resume(f)
        /\ UNCHANGED <<now, registered, toSweep, sweeping, session>>
        /\ \E shorter \in (IF handle[h].kind = "plex_pin" THEN {0, 1} ELSE {0}) :
               Become([handle EXCEPT ![h].filled = TRUE, ![h].ends = @ - shorter])

\* The upstream call failed: the slot is given back.
CreateFails(f) ==
    /\ At(f, "creating")
    /\ registered' = registered \ {flight[f].handle}
    /\ Resume(f)
    /\ UNCHANGED <<now, toSweep, sweeping, session>>
    /\ Become(handle)

-----------------------------------------------------------------------------
(* Using.                                                                   *)

\* use would not raise; the caller proves the binding the handle was made with.
Usable(h, purposes) ==
    /\ h \in registered
    /\ ~Expired(h)
    /\ handle[h].purpose \in purposes

\* throttle: one upstream call a second for each handle.
MayPoll(h) == ~handle[h].polled

\* The first half of collect, and of status for an owner's token: the handle is
\* checked and throttled, then the upstream call is awaited.
Poll(f, h, step, purposes) ==
    /\ At(f, "idle")
    /\ Usable(h, purposes)
    /\ MayPoll(h)
    /\ handle[h].filled
    /\ registered' = Remaining
    /\ toSweep' = PutAside
    /\ Suspend(f, step, h)
    /\ Leave(Cut)
    /\ UNCHANGED <<now, sweeping>>
    /\ Become([handle EXCEPT ![h].polled = TRUE])

Collect(f, h) == Poll(f, h, "collecting", {"sign_in", "reauth"})
Status(f, h) == h \in Live /\ ~handle[h].token /\ Poll(f, h, "checking", {"owner_token"})

\* Not approved yet, or the call failed: the handle stays as it is.
StillPending(f) ==
    /\ At(f, "collecting") \/ At(f, "checking")
    /\ Resume(f)
    /\ UNCHANGED <<now, registered, toSweep, sweeping, session>>
    /\ Become(handle)

\* PlexPinFlow.collect got the token: the handle is spent, whatever the account
\* then turns out to be allowed.
CollectPin(f) ==
    LET h == flight[f].handle
    IN  /\ At(f, "collecting")
        /\ handle[h].kind = "plex_pin" /\ handle[h].approved
        /\ registered' = registered \ {h}
        /\ Resume(f)
        /\ UNCHANGED <<now, toSweep, sweeping, session>>
        /\ Become(handle)

\* QuickConnectFlow.collect: the poll itself ended the session.
CollectCode(f) ==
    LET h == flight[f].handle
    IN  /\ At(f, "collecting")
        /\ handle[h].kind = "quick_connect" /\ handle[h].approved
        /\ registered' = registered \ {h}
        /\ Resume(f)
        /\ Ends(h)
        /\ UNCHANGED <<now, toSweep, sweeping>>
        /\ Become([handle EXCEPT ![h].collected = TRUE])

\* _collect_owner_token: the token stays on the handle for the connector.
Authorized(f) ==
    LET h == flight[f].handle
    IN  /\ At(f, "checking")
        /\ handle[h].approved
        /\ Resume(f)
        /\ UNCHANGED <<now, registered, toSweep, sweeping, session>>
        /\ Become([handle EXCEPT ![h].token = TRUE])

\* peek, for a connector that is then tested and stored, and consume after it.
Peek(f, h) ==
    /\ At(f, "idle")
    /\ Usable(h, {"owner_token"})
    /\ handle[h].token
    /\ registered' = Remaining
    /\ toSweep' = PutAside
    /\ Suspend(f, "saving", h)
    /\ Leave(Cut)
    /\ UNCHANGED <<now, sweeping>>
    /\ Become(handle)

Consume(f) ==
    LET h == flight[f].handle
        mine == Usable(h, {"owner_token"})
    IN  /\ At(f, "saving")
        /\ registered' = Remaining \ IF mine THEN {h} ELSE {}
        /\ toSweep' = PutAside
        /\ Resume(f)
        /\ Leave(Cut)
        /\ UNCHANGED <<now, sweeping>>
        /\ Become(handle)

-----------------------------------------------------------------------------
(* The sweep: a job that runs by itself, one round after the other.         *)

\* It forgets what expired and takes what was put aside, which may be nothing.
Sweep ==
    /\ sweeping = <<>>
    /\ registered' = Remaining
    /\ toSweep' = <<>>
    /\ sweeping' = PutAside
    /\ Leave(Cut)
    /\ UNCHANGED <<now, flight>>
    /\ Become(handle)

\* No adapter: everything this round took is given up.
SweepGivesUp ==
    /\ sweeping # <<>>
    /\ sweeping' = <<>>
    /\ Leave(Range(sweeping))
    /\ UNCHANGED <<now, registered, toSweep, flight>>
    /\ Become(handle)

\* One handle is polled once.  The poll ends the session of an approved request
\* it has the secret of; one that fails is not tried again, and an approval
\* that comes later finds nobody.
SweepOne(answered) ==
    LET h == Head(sweeping)
    IN  /\ sweeping # <<>>
        /\ sweeping' = Tail(sweeping)
        /\ IF answered /\ handle[h].filled /\ handle[h].approved THEN Ends(h) ELSE Leave({h})
        /\ UNCHANGED <<now, registered, toSweep, flight>>
        /\ Become(handle)

-----------------------------------------------------------------------------
(* Outside: the user, the clock, the operator.                              *)

\* Approving a Quick Connect code opens a Jellyfin session there and then; the
\* code lives longer upstream than the handle does here.
Approve(h) ==
    /\ h \in Live
    /\ handle[h].filled /\ ~handle[h].approved
    /\ handle' = [handle EXCEPT ![h].approved = TRUE]
    /\ session' = IF handle[h].kind = "quick_connect" /\ session[h] = "none"
                  THEN [session EXCEPT ![h] = "open"] ELSE session
    /\ UNCHANGED <<now, registered, toSweep, sweeping, flight>>

Tick ==
    /\ now < MaxTime
    /\ now' = now + 1
    /\ handle' = [h \in DOMAIN handle |->
                     IF h \in Live THEN [handle[h] EXCEPT !.polled = FALSE] ELSE Freed]
    /\ UNCHANGED <<registered, toSweep, sweeping, flight, session>>

\* Handles live in memory only.
Restart ==
    /\ registered' = {}
    /\ toSweep' = <<>>
    /\ sweeping' = <<>>
    /\ flight' = [f \in Flows |-> Idle]
    /\ Leave({h \in Ids : session[h] = "open"})
    /\ UNCHANGED now
    /\ Become(handle)

-----------------------------------------------------------------------------
Init ==
    /\ now = 0
    /\ handle = <<>>
    /\ registered = {} /\ toSweep = <<>> /\ sweeping = <<>>
    /\ flight = [f \in Flows |-> Idle]
    /\ session = [h \in Ids |-> "none"]

Serve(f) ==
    \/ \E c \in Clients, kind \in Kinds, purpose \in Purposes : Reserve(f, c, kind, purpose)
    \/ Created(f) \/ CreateFails(f)
    \/ \E h \in Live : Collect(f, h) \/ Status(f, h) \/ Peek(f, h)
    \/ StillPending(f) \/ CollectPin(f) \/ CollectCode(f) \/ Authorized(f) \/ Consume(f)

SweepStep == Sweep \/ SweepGivesUp \/ \E answered \in BOOLEAN : SweepOne(answered)

Next ==
    \/ \E f \in Flows : Serve(f)
    \/ \E h \in Live : Approve(h)
    \/ Forget \/ SweepStep \/ Tick \/ Restart

\* The clock runs, and the sweep runs every thirty seconds.
Fairness == WF_vars(Tick) /\ WF_vars(SweepStep)
Spec == Init /\ [][Next]_vars /\ Fairness

-----------------------------------------------------------------------------
TypeOK ==
    /\ now \in Nat
    /\ handle \in Seq(Handle \cup {Freed}) /\ Len(handle) <= MaxHandles
    /\ Held \subseteq Live
    /\ flight \in [Flows -> Flow]
    /\ session \in [Ids -> Sessions]

\* "Two caps bound that memory": neither is exceeded, also while the upstream
\* calls of several creations are in flight.
CapsHold ==
    /\ Cardinality(registered) <= MaxTotal
    /\ \A c \in Clients : Count(c, registered) <= MaxPerClient

\* A household's sign-in is never dropped to make room for one from outside, and
\* nobody's creation evicts a handle of their own.
EvictionIsFair ==
    [][\A h \in Remaining \ registered' :
          Len(handle') > Len(handle) =>
              LET c == handle'[Len(handle')].client
              IN  /\ handle[h].client # c
                  /\ handle[h].client \in Private => c \in Private]_vars

=============================================================================

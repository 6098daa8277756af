------------------------------ MODULE Passwords ------------------------------
(***************************************************************************)
(* Signing in with a password: SignInService.password of auth/signin.py,    *)
(* under the two limits that guard it, and the tables behind every rate     *)
(* limit, auth/ratelimit.py.                                                *)
(*                                                                         *)
(* A table holds the times of each key's events, oldest first, and the      *)
(* order of its keys, the least recently touched first.  A limiter that     *)
(* refuses also remembers until when its table stays full.  Every method    *)
(* runs to its end without an await: each is an operator that gives the     *)
(* table it leaves behind.                                                  *)
(*                                                                         *)
(* The cap of a name is looked at before the caller's pause and before the  *)
(* media server is called; a failure is counted when its answer arrives.    *)
(* Several attempts are in flight at the same time.                         *)
(***************************************************************************)
EXTENDS Naturals, Sequences, FiniteSets, SequencesExt, Tables

CONSTANTS
    Window,     \* how long an event counts
    MaxKeys,    \* max_keys
    Names,      \* user names, as username_key folds them
    Clients,    \* client addresses
    Attempts,   \* bound: the requests being answered at the same time
    PerName,    \* the count of password_per_username
    Threshold,  \* the count of password_failures
    MaxPause,   \* the longest pause
    MaxWaiting, \* max_waiting
    MaxTime     \* bound: the clock stops here

PasswordsAssumption ==
    /\ IsFiniteSet(Attempts) /\ PerName \in Nat \ {0} /\ MaxKeys \in Nat \ {0}
    /\ Window \in Nat

-----------------------------------------------------------------------------
(* The tables.                                                              *)

Never == 0   \* _full_until is None: every real value of it is later than this
NoTable == [events |-> Empty, order |-> <<>>, fullUntil |-> Never]

Knows(t, key) == key \in DOMAIN t.events
HasRoom(t) == Cardinality(DOMAIN t.events) < MaxKeys

\* _prune: what is still inside the window.
Live(times, at) ==
    LET gone == {i \in DOMAIN times : times[i] + Window <= at}
    IN  SubSeq(times, Cardinality(gone) + 1, Len(times))

\* Full, and known to stay so: no scan is made before an event can expire.
KnownFull(t, at) == t.fullUntil # Never /\ at < t.fullUntil

\* The scan of _make_room under "refuse": what expired goes, and when every
\* bucket is live the first moment one of them can lose an event is kept.
Scanned(t, at) ==
    LET left == [k \in DOMAIN t.events |-> Live(t.events[k], at)]
        live == {k \in DOMAIN t.events : left[k] # <<>>}
    IN  [events |-> Drop(left, DOMAIN t.events \ live),
         order |-> SelectSeq(t.order, LAMBDA k : k \in live),
         fullUntil |-> IF Cardinality(live) < MaxKeys THEN Never
                       ELSE Min({Head(left[k]) : k \in live}) + Window]

\* popitem(last=False): the bucket nobody touched for longest goes.
OldestEvicted(t) ==
    [events |-> Drop(t.events, {Head(t.order)}), order |-> Tail(t.order),
     fullUntil |-> t.fullUntil]

\* _make_room.
RoomMade(t, at, whenFull) ==
    CASE HasRoom(t) -> t
      [] ~HasRoom(t) /\ whenFull = "evict_oldest" -> OldestEvicted(t)
      [] OTHER -> IF KnownFull(t, at) THEN t ELSE Scanned(t, at)

\* t with these times for the key, the last one touched.
With(t, key, times) ==
    [events |-> Put(t.events, key, times), order |-> Append(Remove(t.order, key), key),
     fullUntil |-> t.fullUntil]

\* times: the bucket is touched, made if need be; the key of a table that has no
\* room for it is left out.
Touched(t, key, at, whenFull) ==
    LET room == RoomMade(t, at, whenFull)
    IN  CASE Knows(t, key) -> With(t, key, Live(t.events[key], at))
          [] ~Knows(t, key) /\ HasRoom(room) -> With(room, key, <<>>)
          [] OTHER -> room

\* How many events of a key a touched table holds.
CountOf(t, key) == IF Knows(t, key) THEN Len(t.events[key]) ELSE 0

\* record: an event whose key has no room is dropped.
Recorded(t, key, at, whenFull) ==
    LET touched == Touched(t, key, at, whenFull)
    IN  IF Knows(touched, key) THEN With(touched, key, Append(touched.events[key], at)) ELSE touched

\* forget: a slot just came free.
Forgotten(t, key) ==
    IF Knows(t, key)
    THEN [events |-> Drop(t.events, {key}), order |-> Remove(t.order, key), fullUntil |-> Never]
    ELSE t

RefusesLate(touched, key, count) ==  \* mutant: one more than the count
    ~Knows(touched, key) \/ CountOf(touched, key) > count
\* SlidingWindow.check, of the touched table: the key has no bucket, or used it up.
Refuses(touched, key, count) == ~Knows(touched, key) \/ CountOf(touched, key) >= count

-----------------------------------------------------------------------------
(* The attempts.                                                            *)

VARIABLES
    now,      \* the monotonic clock
    names,    \* password_per_username: the table that refuses
    pauses,   \* password_failures: the table that evicts
    attempt,  \* [Attempts -> Attempt]
    tried     \* [Names -> Seq(Nat)]: the failures that reached the media server
              \* since the name's last success

vars == <<now, names, pauses, attempt, tried>>

Idle == [step |-> "idle"]
Attempt ==
    {Idle} \cup [step : {"asleep", "checking"}, name : Names, client : Clients, until : Nat]

Asleep == {p \in Attempts : attempt[p].step = "asleep"}

\* pause_for, of the touched table: doubled by every failure past the threshold.
PauseOf(touched, client) ==
    LET failures == CountOf(touched, client)
    IN  IF failures < Threshold THEN 0 ELSE Min({2 ^ (failures - Threshold), MaxPause})

\* password, up to its first await.
Ask(p, name, client) ==
    LET checked == Touched(names, name, now, "refuse")
        waited == Touched(pauses, client, now, "evict_oldest")
        pause == PauseOf(waited, client)
    IN  /\ attempt[p] = Idle
        /\ names' = checked
        /\ IF Refuses(checked, name, PerName)
           THEN UNCHANGED <<pauses, attempt>>
           ELSE /\ pauses' = waited
                /\ IF pause > 0 /\ Cardinality(Asleep) >= MaxWaiting
                   THEN UNCHANGED attempt
                   ELSE attempt' = [attempt EXCEPT ![p] =
                            [step |-> IF pause > 0 THEN "asleep" ELSE "checking",
                             name |-> name, client |-> client, until |-> now + pause]]
        /\ UNCHANGED <<now, tried>>

Wake(p) ==
    /\ attempt[p].step = "asleep"
    /\ now >= attempt[p].until
    /\ attempt' = [attempt EXCEPT ![p].step = "checking"]
    /\ UNCHANGED <<now, names, pauses, tried>>

Answered(p) ==
    /\ attempt[p].step = "checking"
    /\ attempt' = [attempt EXCEPT ![p] = Idle]
    /\ UNCHANGED now

Right(p) ==
    LET a == attempt[p]
    IN  /\ Answered(p)
        /\ names' = Forgotten(names, a.name)
        /\ pauses' = Forgotten(pauses, a.client)
        /\ tried' = [tried EXCEPT ![a.name] = <<>>]

\* _record_failure, of invalid_credentials.
Wrong(p) ==
    LET a == attempt[p]
    IN  /\ Answered(p)
        /\ names' = Recorded(names, a.name, now, "refuse")
        /\ pauses' = Recorded(pauses, a.client, now, "evict_oldest")
        /\ tried' = [tried EXCEPT ![a.name] = Append(Live(@, now), now)]

\* A disabled account or an unreachable server counts for nothing.
Neither(p) == Answered(p) /\ UNCHANGED <<names, pauses, tried>>

Tick ==
    /\ now < MaxTime
    /\ now' = now + 1
    /\ tried' = [n \in Names |-> Live(tried[n], now')]
    /\ UNCHANGED <<names, pauses, attempt>>

Init ==
    /\ now = 0
    /\ names = NoTable
    /\ pauses = NoTable
    /\ attempt = [p \in Attempts |-> Idle]
    /\ tried = [n \in Names |-> <<>>]

Next ==
    \/ \E p \in Attempts :
          \/ \E name \in Names, client \in Clients : Ask(p, name, client)
          \/ Wake(p) \/ Right(p) \/ Wrong(p) \/ Neither(p)
    \/ Tick

Spec == Init /\ [][Next]_vars

-----------------------------------------------------------------------------
TableOK(t, keys) ==
    /\ IsTable(t.events, keys, Seq(Nat)) /\ t.fullUntil \in Nat
    /\ t.order \in Seq(keys) /\ Range(t.order) = DOMAIN t.events
TypeOK ==
    /\ now \in Nat
    /\ TableOK(names, Names) /\ TableOK(pauses, Clients)
    /\ attempt \in [Attempts -> Attempt]
    /\ tried \in [Names -> Seq(Nat)]

\* "At most two failures per case-folded user name reach the media server per
\* quarter of an hour".
CapHolds == \A n \in Names : Len(tried[n]) <= PerName

\* What the cap is worth with several attempts in flight: of the failures it
\* remembers, those past the check before the last of them was counted are the
\* only ones in excess.
LeakIsBounded ==
    \A n \in Names : CountOf(names, n) < PerName + Cardinality(Attempts)

\* "it never drops a bucket that still holds failures inside its window".
LiveBucketsStay ==
    [][\A n \in Names :
          Knows(names, n) /\ Live(names.events[n], now') # <<>>
          => Knows(names', n) \/ tried'[n] = <<>>]_vars

\* "the answer cannot change": while a scan's verdict stands, the table is full
\* and every bucket of it is live.
VerdictStands ==
    KnownFull(names, now) =>
        ~HasRoom(names) /\ \A k \in DOMAIN names.events : Live(names.events[k], now) # <<>>

\* A failure that is not remembered costs nothing: its name is refused.
ForgottenFailuresAreRefused ==
    \A n \in Names :
        Len(tried[n]) > CountOf(names, n) =>
            Refuses(Touched(names, n, now, "refuse"), n, PerName)
=============================================================================

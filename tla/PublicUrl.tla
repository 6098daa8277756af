------------------------------ MODULE PublicUrl ------------------------------
(***************************************************************************)
(* The public address: PATCH /admin/settings of api/v1/admin/settings.py,   *)
(* the proof of auth/publicurl.py, its probe in adapters/publicurl.py, and  *)
(* the hosts the server answers to, HostPolicy of api/context.py.           *)
(*                                                                         *)
(* A change waits for the address it names to answer as this server, then   *)
(* for the database, and only then tells the policy: other changes, and a   *)
(* restart, come in between.                                                *)
(***************************************************************************)
EXTENDS Naturals, Sequences, FiniteSets, SequencesExt

CONSTANTS
    None,        \* None
    Urls,        \* the addresses an administrator types
    HostOf,      \* [Urls -> Hosts]: host_of
    Hosts,       \* host names
    Literals,    \* those that are always allowed: IP addresses and localhost
    Configured,  \* the sets TINDARR_ALLOWED_HOSTS may hold, one per start
    Via,         \* [Urls -> how a request for it arrives]: see Arrivals
    Changes,     \* bound: the changes being answered at the same time
    MaxPending,  \* MAX_PENDING_NONCES
    Lifetime,    \* NONCE_LIFETIME
    MaxNonces,   \* bound: how many checks are begun
    MaxTime      \* bound: the clock stops here

\* Under its own name, under another one this server has (a relay), at another
\* server, or answered by a redirect.
Arrivals == {"own name", "other name", "other server", "redirect"}

PublicUrlAssumption ==
    /\ HostOf \in [Urls -> Hosts] /\ Literals \subseteq Hosts
    /\ Via \in [Urls -> Arrivals] /\ None \notin Urls \cup Hosts /\ MaxNonces \in Nat

VARIABLES
    now,      \* the monotonic clock
    names,    \* HostPolicy._names
    host,     \* HostPolicy._public_url_host
    stored,   \* the public_url setting
    forced,   \* TINDARR_PUBLIC_URL of this start: the operator's, in place of the setting
    pending,  \* _pending, oldest first: [nonce, at]
    drawn,    \* how many nonces were drawn
    flight    \* [Changes -> Change]

vars == <<now, names, host, stored, forced, pending, drawn, flight>>

Idle == [step |-> "idle"]
\* The proof of a nonce at a host, or a failure of the probe (no host).
Proof == [nonce : 1 .. MaxNonces, host : Hosts \cup {None}]
Change ==
    {Idle} \cup [step : {"probing"}, url : Urls, nonce : 1 .. MaxNonces]
        \cup [step : {"judging"}, url : Urls, nonce : 1 .. MaxNonces, answer : Proof]
        \cup [step : {"storing", "applying"}, url : Urls \cup {None}]

At(c, step) == flight[c].step = step
Becomes(c, change) == flight' = [flight EXCEPT ![c] = change]

-----------------------------------------------------------------------------
(* The hosts.                                                               *)

\* HostPolicy.allows.
Allows(h) == h \in Literals \cup names \/ h = host

Fresh(nonces) == SelectSeq(nonces, LAMBDA n : n.at + Lifetime > now)
Waits(nonce) == \E i \in DOMAIN pending : pending[i].nonce = nonce
Without(nonces, nonce) == SelectSeq(nonces, LAMBDA n : n.nonce # nonce)

-----------------------------------------------------------------------------
(* A change of the address.                                                 *)

\* update_settings up to the probe: an unknown host is refused before anything is
\* called, one check too many before it begins; clearing needs no check.  What the
\* environment forces cannot be changed.
Clear(c) ==
    /\ At(c, "idle") /\ forced = None
    /\ Becomes(c, [step |-> "storing", url |-> None])
    /\ UNCHANGED <<now, names, host, stored, forced, pending, drawn>>

Issue(c, url) ==
    LET left == Fresh(pending)
    IN  /\ At(c, "idle") /\ forced = None /\ Allows(HostOf[url])
        /\ IF Len(left) >= MaxPending
           THEN pending' = left /\ UNCHANGED <<drawn, flight>>
           ELSE /\ drawn < MaxNonces
                /\ drawn' = drawn + 1
                /\ pending' = Append(left, [nonce |-> drawn + 1, at |-> now])
                /\ Becomes(c, [step |-> "probing", url |-> url, nonce |-> drawn + 1])
        /\ UNCHANGED <<now, names, host, stored, forced>>

Answered(c, h) ==
    Becomes(c, [step |-> "judging", url |-> flight[c].url, nonce |-> flight[c].nonce,
                answer |-> [nonce |-> flight[c].nonce, host |-> h]])

\* The probe's request arrives here: refused before routing under a host that is
\* not allowed, answered with the proof once, and with none afterwards.
ServeInfo(c, h) ==
    LET left == Fresh(pending)
        nonce == flight[c].nonce
        known == \E i \in DOMAIN left : left[i].nonce = nonce
    IN  /\ At(c, "probing") /\ Allows(h)
        /\ \/ Via[flight[c].url] = "own name" /\ h = HostOf[flight[c].url]
           \/ Via[flight[c].url] = "other name" /\ h # HostOf[flight[c].url]
        /\ pending' = Without(left, nonce)
        /\ Answered(c, IF known THEN h ELSE None)
        /\ UNCHANGED <<now, names, host, stored, forced, drawn>>

\* fetch_proof fails: nothing in time, a redirect, no 200, no proof.
NoProof(c) ==
    /\ At(c, "probing")
    /\ Answered(c, None)
    /\ UNCHANGED <<now, names, host, stored, forced, pending, drawn>>

ProvesAnyName(answer, url) == answer.host # None  \* mutant: the proof is not bound to the host
\* verify's comparison with the proof this server gives under the url's own host.
Proves(answer, url) == answer.host = HostOf[url]

Judge(c) ==
    LET change == flight[c]
    IN  /\ At(c, "judging")
        /\ pending' = Without(pending, change.nonce)
        /\ Becomes(c, IF Proves(change.answer, change.url)
                      THEN [step |-> "storing", url |-> change.url] ELSE Idle)
        /\ UNCHANGED <<now, names, host, stored, forced, drawn>>

\* set_many commits; then, without another await, the policy hears of it.
Store(c) ==
    /\ At(c, "storing")
    /\ stored' = flight[c].url
    /\ Becomes(c, [step |-> "applying", url |-> flight[c].url])
    /\ UNCHANGED <<now, names, host, forced, pending, drawn>>

\* set_many fails: nothing is stored, and the policy is not told.
StoreFails(c) ==
    /\ At(c, "storing")
    /\ Becomes(c, Idle)
    /\ UNCHANGED <<now, names, host, stored, forced, pending, drawn>>

HostFor(url) == IF url = None THEN None ELSE HostOf[url]

Apply(c) ==
    /\ At(c, "applying")
    /\ host' = HostFor(flight[c].url)
    /\ Becomes(c, Idle)
    /\ UNCHANGED <<now, names, stored, forced, pending, drawn>>

-----------------------------------------------------------------------------
Tick ==
    /\ now < MaxTime /\ now' = now + 1
    /\ UNCHANGED <<names, host, stored, forced, pending, drawn, flight>>

Effective == IF forced = None THEN stored ELSE forced

\* The nonces and the changes in flight are lost; the operator may have changed
\* the environment, and the policy starts from the address in force.
Restart ==
    /\ names' \in Configured /\ forced' \in Urls \cup {None}
    /\ UNCHANGED <<now, stored, drawn>>
    /\ host' = HostFor(Effective)'
    /\ pending' = <<>>
    /\ flight' = [c \in Changes |-> Idle]

Init ==
    /\ now = 0 /\ names \in Configured /\ forced = None /\ host = None /\ stored = None
    /\ pending = <<>> /\ drawn = 0 /\ flight = [c \in Changes |-> Idle]

Next ==
    \/ \E c \in Changes :
        \/ Clear(c) \/ NoProof(c) \/ Judge(c) \/ Store(c) \/ StoreFails(c) \/ Apply(c)
        \/ \E url \in Urls : Issue(c, url)
        \/ \E h \in Hosts : ServeInfo(c, h)
    \/ Tick \/ Restart

Spec == Init /\ [][Next]_vars

-----------------------------------------------------------------------------
TypeOK ==
    /\ now \in 0 .. MaxTime /\ names \in SUBSET Hosts /\ host \in Hosts \cup {None}
    /\ stored \in Urls \cup {None} /\ forced \in Urls \cup {None} /\ drawn \in 0 .. MaxNonces
    /\ pending \in Seq([nonce : 1 .. MaxNonces, at : 0 .. MaxTime])
    /\ flight \in [Changes -> Change]

\* The address phones are sent to is this server's: whatever answers at the
\* address typed, it is stored only if a request for it arrives here under its
\* own name (publicurl.py: why the proof is bound to the host).
StoredAddressesAreOurs == stored # None => Via[stored] = "own name"

\* The server answers to the address in force (docs/auth.md, section 1).  Refuted:
\* of two changes at once, the one stored last need not be the one applied last.
AnswersToItsOwnAddress ==
    (\A c \in Changes : At(c, "idle")) => host = HostFor(Effective)
=============================================================================

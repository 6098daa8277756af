------------------------------- MODULE Context -------------------------------
(***************************************************************************)
(* Whom a request comes from: RequestContextMiddleware and                  *)
(* AllowedHostMiddleware of api/context.py, with the rules of core/net.py   *)
(* they use.                                                                *)
(*                                                                         *)
(* A request crosses machines.  The ones this server trusts each append the *)
(* address they were called from to X-Forwarded-For, and the scheme they    *)
(* were called with to X-Forwarded-Proto; what the first machine outside    *)
(* them sends along under those names is its own invention.                 *)
(***************************************************************************)
EXTENDS Naturals, Sequences, FiniteSets, SequencesExt

CONSTANTS
    None,          \* None
    Machines,      \* addresses, as parse_ip gives them
    Trusted,       \* those in TINDARR_TRUSTED_PROXIES
    Private,       \* those in PRIVATE_NETWORKS
    Loopback,      \* those of this machine
    BucketOf,      \* [Machines -> buckets]: itself, or its /64
    Names,         \* host names, parsed, with or without a dot, port or case
    Ours,          \* those HostPolicy allows: see PublicUrl
    MaxHops,       \* bound: machines crossed
    MaxClaims,     \* bound: entries the first machine writes
    MaxWarned,     \* _MAX_WARNED_PEERS
    Interval,      \* WARNING_INTERVAL_S
    MaxTime        \* bound: the clock stops here

Nothing == [request |-> None]
\* An entry of X-Forwarded-For that is not an IP address.
Garbled == "garbled"
Localhost == "localhost"
Schemes == {"http", "https"}

ContextAssumption ==
    /\ Trusted \cup Private \cup Loopback \subseteq Machines
    /\ DOMAIN BucketOf = Machines /\ Ours \subseteq Names
    /\ {None, Garbled} \cap (Machines \cup Names) = {}

VARIABLES
    time,    \* the monotonic clock
    warned,  \* _warned: the peers warned about, and when
    seen     \* the request being handled, with the context resolved for it, or Nothing

vars == <<time, warned, seen>>

-----------------------------------------------------------------------------
(* What arrives.                                                            *)

\* The machines crossed, the last of them the peer; all but the first are trusted.
Routes == {r \in SeqOf(Machines, MaxHops) : r # <<>> /\ \A i \in 2 .. Len(r) : r[i] \in Trusted}
Claims == SeqOf(Machines \cup {Garbled}, MaxClaims)
\* The first machine's headers and Host (or none that can be parsed), the scheme of the
\* connection to the server, and of the one to the nearest trusted proxy.
Request == [route : Routes, claims : Claims, proto : SeqOf(Schemes \cup {Garbled}, 1), scheme : Schemes,
            said : Schemes, host : Names \cup {None}, healthz : BOOLEAN]

Peer(request) == Last(request.route)
Forwarded(request) == request.claims \o Front(request.route)
Proto(request) ==
    IF Len(request.route) > 1 THEN Append(request.proto, request.said) ELSE request.proto

-----------------------------------------------------------------------------
(* What is made of it.                                                      *)

FurthestHop(peer, entries) == IF entries = <<>> THEN peer ELSE Head(entries)  \* mutant: the leftmost hop
\* forwarded_client: the rightmost hop that is not trusted, or the leftmost, unless an
\* entry read before it is no address.
NearestHop(peer, entries) ==
    LET stops == {i \in DOMAIN entries : entries[i] \notin Trusted}
        last == CHOOSE i \in stops : \A j \in stops : j <= i
    IN  CASE entries = <<>> -> peer
          [] entries # <<>> /\ stops = {} -> Head(entries)
          [] OTHER -> entries[last]

\* _forwarded_address: the proxy's own address where the chain is garbled.
ClientOf(peer, entries) ==
    LET hop == NearestHop(peer, entries) IN IF hop = Garbled THEN peer ELSE hop

\* _forwarded_scheme: the last value is the nearest proxy's.
SchemeOf(connection, values) ==
    IF values # <<>> /\ Last(values) \in Schemes THEN Last(values) ELSE connection

\* RequestContextMiddleware's RequestContext.
Resolved(request) ==
    LET peer == Peer(request)
        trusted == peer \in Trusted
    IN  [peer |-> peer,
         client |-> IF trusted THEN ClientOf(peer, Forwarded(request)) ELSE peer,
         scheme |-> IF trusted THEN SchemeOf(request.scheme, Proto(request))
                    ELSE request.scheme,
         host |-> request.host,
         host_allowed |-> request.host \in Ours,
         trusted_peer |-> trusted]

RateLimitKey(context) == BucketOf[context.client]
ClientIsPrivate(context) == context.client \in Private
\* origin: none without a host that is allowed.
Origin(context) ==
    IF context.host_allowed THEN <<context.scheme, context.host>> ELSE None
IsLoopbackToLocalhost(context) ==
    context.host = Localhost /\ context.client \in Loopback

\* Whom _warn is called about: a trusted proxy with a garbled chain, a private
\* machine that is not trusted and sends headers only a proxy may set.
WarnsAbout(request) ==
    LET peer == Peer(request)
    IN  IF peer \in Trusted
        THEN NearestHop(peer, Forwarded(request)) = Garbled
        ELSE peer \in Private /\ (request.claims # <<>> \/ request.proto # <<>>)

Silenced(peer) == peer \in DOMAIN warned /\ time - warned[peer] < Interval

-----------------------------------------------------------------------------
\* RequestContextMiddleware.__call__ and _warn: past the limit the throttle starts over.
Receive ==
    /\ seen = Nothing
    /\ \E request \in Request :
        LET peer == Peer(request)
            known == [p \in DOMAIN warned \cup {peer} |-> IF p = peer THEN time ELSE warned[p]]
        IN  /\ seen' = [request |-> request, context |-> Resolved(request)]
            /\ warned' = CASE ~WarnsAbout(request) \/ Silenced(peer) -> warned
                           [] Cardinality(DOMAIN known) > MaxWarned -> <<>>
                           [] OTHER -> known
    /\ UNCHANGED time

\* AllowedHostMiddleware: a host that is not ours is refused before routing, except
\* for the container's probe; nothing of the request is kept either way.
Refuse ==
    /\ seen # Nothing /\ ~seen.context.host_allowed /\ ~seen.request.healthz
    /\ seen' = Nothing /\ UNCHANGED <<time, warned>>
Route ==
    /\ seen # Nothing /\ (seen.context.host_allowed \/ seen.request.healthz)
    /\ seen' = Nothing /\ UNCHANGED <<time, warned>>

Tick ==
    /\ time < MaxTime /\ seen = Nothing /\ time' = time + 1
    /\ UNCHANGED <<warned, seen>>

Init == time = 0 /\ warned = <<>> /\ seen = Nothing
Next == Receive \/ Refuse \/ Route \/ Tick
Spec == Init /\ [][Next]_vars

-----------------------------------------------------------------------------
TypeOK ==
    /\ time \in 0 .. MaxTime
    /\ DOMAIN warned \subseteq Machines /\ \A p \in DOMAIN warned : warned[p] \in 0 .. MaxTime
    /\ seen # Nothing => seen.request \in Request

\* Rate limits, the local-network rule and the cookies stand on this: however many
\* trusted proxies a request crosses, and whatever the first machine outside them
\* wrote into the headers, the client is that machine; and its word about the
\* scheme counts for nothing.
OnlyTrustedHopsAreBelieved ==
    seen # Nothing =>
        LET first == Head(seen.request.route)
        IN  first \notin Trusted =>
                /\ seen.context.client = first
                /\ seen.context.scheme =
                     IF Len(seen.request.route) > 1 THEN seen.request.said
                     ELSE seen.request.scheme
=============================================================================

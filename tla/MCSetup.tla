------------------------------- MODULE MCSetup -------------------------------
(***************************************************************************)
(* Small instances of how a server comes up, gets its settings and knows    *)
(* who calls: the start of a process (Startup), first-run setup (Setup),    *)
(* the optional connectors (Connectors), the public address (PublicUrl) and *)
(* the context of a request (Context).  They share no state here, so a      *)
(* behaviour is one's alone.                                                *)
(***************************************************************************)
EXTENDS Setup, TLC

CONSTANTS
    k1, k2, k3, b1, b2, c1, c2, ann, cleo, home, away,
    p1, p2, s1, s2,
    Addresses, ApiKeys, MeantFor, Keyless,                    \* of Connectors
    ServerRuns, Releases, Kept, MaxBoots, MaxWrites, MaxStamp,    \* of Startup
    \* Of PublicUrl.
    Urls, Hosts, HostOf, Via, Literals, NameSets, Changes, MaxPending, NonceLifetime, MaxNonces, LastTick,
    \* Of Context.
    Machines, Trusted, Local, Loopback, BucketOf, Asked, Ours, MaxHops, MaxClaims, MaxWarned, Interval

VARIABLES
    half,
    kind, pinned, stored, calls, first, muddled,           \* of Connectors
    given, keyFile, boots, database, sealed, backups, lock, processes, work,
    clock, steppedBack,                                    \* of Startup
    time, listed, host, address, forced, nonces, drawn, change,  \* of PublicUrl
    minute, warned, seen                                   \* of Context

\* The administrator of one media server, and an ordinary account of another.
MCHome == (ann :> home) @@ (cleo :> away)

\* One key for each address.
MCMeantFor == (p1 :> home) @@ (p2 :> away)

\* An address this server answers at under its own name, and a relay it answers behind.
MCHostOf == [u \in Urls |-> IF u = "https://box" THEN "box" ELSE "relay"]
MCVia == [u \in Urls |-> IF u = "https://box" THEN "own name" ELSE "other name"]
MCNameSets == {{"box", "relay"}, {}}

\* A proxy has a bucket of its own; the others share theirs.
MCBucketOf == [m \in Machines |-> IF m \in Trusted THEN m ELSE "outside"]

C == INSTANCE Connectors WITH Keys <- ApiKeys, Calls <- Clients

S == INSTANCE Startup WITH Processes <- ServerRuns, Keep <- Kept

A == INSTANCE PublicUrl WITH
    Configured <- NameSets, Lifetime <- NonceLifetime, MaxTime <- LastTick,
    now <- time, names <- listed, stored <- address,
    pending <- nonces, flight <- change

N == INSTANCE Context WITH Private <- Local, Names <- Asked, MaxTime <- LastTick, time <- minute

ASSUME ConnectorsAssumption == C!ConnectorsAssumption
ASSUME StartupAssumption == S!StartupAssumption
ASSUME PublicUrlAssumption == A!PublicUrlAssumption
ASSUME ContextAssumption == N!ContextAssumption

ofConnectors == <<kind, pinned, stored, calls, first, muddled>>
ofStartup == <<given, keyFile, boots, database, sealed, backups, lock, processes, work,
               clock, steppedBack>>
ofAddress == <<time, listed, host, address, forced, nonces, drawn, change>>
ofContext == <<minute, warned, seen>>

MCInit ==
    /\ half \in {"setup", "connectors", "startup", "address", "context"}
    /\ Init /\ A!Init /\ N!Init
    /\ half = "address" \/ listed = {}
    /\ \/ half = "connectors" /\ C!Init
       \/ /\ half # "connectors"
          /\ kind = "llm" /\ pinned = C!Nothing /\ stored = C!Nothing
          /\ calls = [c \in Clients |-> C!Idle] /\ first = None /\ muddled = FALSE
    /\ \/ half = "startup" /\ S!Init
       \/ /\ half # "startup"
          /\ given = "unset" /\ keyFile = None
          /\ boots = 0 /\ database = [revision |-> 0, writes |-> 0] /\ sealed = None
          /\ backups = {} /\ lock = None /\ processes = [p \in ServerRuns |-> S!Down]
          /\ work = None /\ clock = 1 /\ steppedBack = FALSE

\* bound: a household asks for nothing more once every setup session was closed, and
\* a connector once a save that another had crossed was stored: what is claimed of
\* them is over.
InSetup == half = "setup" /\ {t \in DOMAIN tabs : tabs[t].reason # "live"} # Tabs
InConnectors == half = "connectors" /\ ~muddled

MCNext ==
    \/ InSetup /\ UNCHANGED <<half, ofConnectors, ofStartup, ofAddress, ofContext>> /\ Next
    \/ InConnectors /\ UNCHANGED <<half, vars, ofStartup, ofAddress, ofContext>> /\ C!Next
    \/ half = "startup" /\ UNCHANGED <<half, vars, ofConnectors, ofAddress, ofContext>> /\ S!Next
    \/ half = "address" /\ UNCHANGED <<half, vars, ofConnectors, ofStartup, ofContext>> /\ A!Next
    \/ half = "context" /\ UNCHANGED <<half, vars, ofConnectors, ofStartup, ofAddress>> /\ N!Next
MCVars == <<half, vars, ofConnectors, ofStartup, ofAddress, ofContext>>
MCSpec == MCInit /\ [][MCNext]_MCVars

\* Connectors!SecretsStayAtTheirAddress.
SecretsStayAtTheirAddress == C!SecretsStayAtTheirAddress
\* A start that stops anywhere costs no data: Startup's KeysAgree and
\* UpgradesKeepABackup.
StartsAreSafe == []S!KeysAgree /\ S!UpgradesKeepABackup
\* PublicUrl!StoredAddressesAreOurs and AnswersToItsOwnAddress.
StoredAddressesAreOurs == A!StoredAddressesAreOurs
AnswersToItsOwnAddress == A!AnswersToItsOwnAddress
\* Context!OnlyTrustedHopsAreBelieved.
OnlyTrustedHopsAreBelieved == N!OnlyTrustedHopsAreBelieved

Symmetry == Permutations(Codes) \cup Permutations(Tabs) \cup Permutations(Clients)
=============================================================================

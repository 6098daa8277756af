----------------------------- MODULE Connectors -----------------------------
(***************************************************************************)
(* A connector over the settings store (storage/settings.py): reading it,   *)
(* testing it, saving it, removing it, using it.  The optional ones are     *)
(* connectors/service.py's, the media server's is auth/mediaserver.py's.    *)
(*                                                                         *)
(* A connector is an address and a secret.  The address of a request        *)
(* backend or a media server is its URL and whether the certificate is      *)
(* checked; a model's is the provider and its base URL.  What rides along   *)
(* (seasons, model, effort) follows the address's rules without the         *)
(* secret's and is left out.  Every setting is read in a snapshot of its    *)
(* own, while a save or a removal writes all of them at once: two           *)
(* administrators and the swipe engine interleave between any two reads.    *)
(***************************************************************************)
EXTENDS FiniteSets

CONSTANTS
    Addresses,
    Keys,
    MeantFor,  \* [Keys -> the address whoever types the key has it for]
    Keyless,   \* addresses that need no key (_KEYLESS_PROVIDERS)
    Calls,     \* requests that may be in flight at once
    None       \* NULL, an omitted field, or an empty secret

ConnectorsAssumption ==
    /\ MeantFor \in [Keys -> Addresses]
    /\ Keyless \subseteq Addresses
    /\ None \notin Addresses \cup Keys

Connector == [url : Addresses \cup {None}, key : Keys \cup {None}]
Nothing == [url |-> None, key |-> None]

Kinds == {"media_server", "requests", "llm"}

VARIABLES
    kind,     \* which connector this is
    pinned,   \* what TINDARR_<NAME> variables set
    stored,   \* the rows of the settings table
    calls,    \* [Calls -> the request in flight]
    first,    \* the address a pinned key was first stored or pinned with
    muddled   \* a save that another write had crossed has been stored

vars == <<kind, pinned, stored, calls, first, muddled>>
environment == <<kind, pinned>>

Idle == [step |-> "idle"]
\* purpose: what for; asked: the fields the request carried; url: the address read
\* so far; found: what the last reading resolved to; crossed: another write landed.
Call ==
    {Idle} \cup
    [step : {"url", "key", "sent", "writing"}, purpose : {"use", "check", "save", "store"},
     asked : Connector, url : Addresses \cup {None}, found : Connector, crossed : BOOLEAN]

\* SettingsStore.get: the environment, then the row.
Value(field) == IF pinned[field] # None THEN pinned[field] ELSE stored[field]
\* llm() is None without a provider, the others without either.
Configured(read) == read.url # None /\ (kind # "llm" => read.key # None)

-----------------------------------------------------------------------------
(* What a request resolves to, given what it read: at most one connector.   *)

\* _check_locks.
Unlocked(asked) ==
    \A field \in DOMAIN asked :
        asked[field] # None /\ pinned[field] # None => asked[field] = pinned[field]

\* _effective.
Address(asked, read) ==
    IF pinned.url # None THEN pinned.url
    ELSE IF asked.url # None THEN asked.url
    ELSE IF Configured(read) THEN read.url ELSE None

SecretsAnywhere(asked, read) ==  \* mutant: the address is not compared
    IF pinned.key # None THEN {pinned.key}
    ELSE IF asked.key # None THEN {asked.key}
    ELSE IF Configured(read) /\ read.key # None THEN {read.key}
    ELSE IF kind = "llm" /\ Address(asked, read) \in Keyless THEN {None} ELSE {}
\* _secret_for and _llm_key: the secrets that may go to the address, none when it
\* is pinned to another or has to be sent again.
Secrets(asked, read) ==
    LET known == Configured(read)
        same  == known /\ read.url = Address(asked, read)
        held  == IF known THEN read.key ELSE None
    IN  IF pinned.key # None THEN {k \in {pinned.key} : known => same}
        ELSE IF asked.key # None THEN {asked.key}
        ELSE IF held # None THEN {k \in {held} : same}
        ELSE {k \in {None} : kind = "llm" /\ Address(asked, read) \in Keyless}

Resolved(asked, read) ==
    {[url |-> Address(asked, read), key |-> k] : k \in Secrets(asked, read)}
        \cap [url : Addresses, key : Keys \cup {None}]

-----------------------------------------------------------------------------
Init ==
    /\ kind \in Kinds
    /\ pinned \in Connector
    /\ pinned.url # None /\ pinned.key # None => MeantFor[pinned.key] = pinned.url
    /\ stored = Nothing
    /\ calls = [c \in Calls |-> Idle]
    /\ first = IF pinned.key # None THEN pinned.url ELSE None
    /\ muddled = FALSE

Becomes(c, call) == calls' = [calls EXCEPT ![c] = call]
Rest(c) == Becomes(c, Idle)

Start(c, purpose, asked) ==
    /\ calls[c] = Idle
    /\ Becomes(c, [step |-> "url", purpose |-> purpose, asked |-> asked, url |-> None,
                   found |-> Nothing, crossed |-> FALSE])
    /\ UNCHANGED <<environment, stored, first, muddled>>

\* An administrator's PUT or POST .../test.  A key is typed for the address it
\* comes with or, when it comes alone, for the one the console shows.
Ask(c, purpose, asked) ==
    /\ purpose \in {"check", "save"}
    /\ Unlocked(asked)
    /\ kind = "media_server" => asked.url # None
    /\ asked.key # None =>
         asked.key = pinned.key
         \/ MeantFor[asked.key] = IF asked.url # None THEN asked.url ELSE Value("url")
    /\ Start(c, purpose, asked)

\* request_backend, llm_provider: the engine builds the adapter for one use.
Use(c) == Start(c, "use", Nothing)

ReadUrl(c) ==
    /\ calls[c].step = "url"
    /\ Becomes(c, [calls[c] EXCEPT !.step = "key", !.url = Value("url")])
    /\ UNCHANGED <<environment, stored, first, muddled>>

\* The key is read, and with no further wait what to do with both is decided: a
\* use takes them as they are, a test or a save resolves them.
ReadKey(c) ==
    /\ calls[c].step = "key"
    /\ LET read  == [url |-> calls[c].url, key |-> Value("key")]
           found == IF calls[c].purpose = "use" THEN {r \in {read} : Configured(r)}
                                                ELSE Resolved(calls[c].asked, read)
       IN  \/ /\ found = {}
              /\ Rest(c)
           \/ \E f \in found :
                Becomes(c, [calls[c] EXCEPT
                    !.step = IF calls[c].purpose = "store" THEN "writing" ELSE "sent",
                    !.found = f])
    /\ UNCHANGED <<environment, stored, first, muddled>>

\* The service at the address answers the use or the test, badly or well; only
\* a save whose test passed goes on.  The media server's stores what was tested;
\* ConnectorService._store resolves the request again.
Answer(c) ==
    /\ calls[c].step = "sent"
    /\ \/ Rest(c)
       \/ /\ calls[c].purpose = "save"
          /\ Becomes(c, IF kind = "media_server"
                        THEN [calls[c] EXCEPT !.step = "writing"]
                        ELSE [calls[c] EXCEPT !.step = "url", !.purpose = "store", !.url = None])
    /\ UNCHANGED <<environment, stored, first, muddled>>

\* Whatever another call has read may now be out of date.
Crossing(c) ==
    [d \in Calls |-> IF d = c \/ calls[d] = Idle THEN Idle ELSE [calls[d] EXCEPT !.crossed = TRUE]]

\* What the environment does not set.
Writable(connector) ==
    [field \in DOMAIN connector |-> IF pinned[field] # None THEN None ELSE connector[field]]

\* set_many, in one transaction.
Write(c) ==
    /\ calls[c].step = "writing"
    /\ stored' = Writable(calls[c].found)
    /\ first' = IF pinned.key # None /\ first = None THEN calls[c].found.url ELSE first
    /\ muddled' = (muddled \/ calls[c].crossed)
    /\ calls' = Crossing(c)
    /\ UNCHANGED environment

\* delete_many, in one transaction; a connector whose key is pinned stays, and
\* the media server always does.
Remove ==
    /\ kind # "media_server"
    /\ pinned.key = None
    /\ stored' = Nothing
    /\ calls' = [c \in Calls |-> IF calls[c] = Idle THEN Idle ELSE [calls[c] EXCEPT !.crossed = TRUE]]
    /\ UNCHANGED <<environment, first, muddled>>

Next ==
    \/ Remove
    \/ \E c \in Calls :
         \/ \E purpose \in {"check", "save"}, asked \in Connector : Ask(c, purpose, asked)
         \/ Use(c) \/ ReadUrl(c) \/ ReadKey(c) \/ Answer(c) \/ Write(c)

Spec == Init /\ [][Next]_vars

-----------------------------------------------------------------------------
TypeOK ==
    /\ kind \in Kinds
    /\ {pinned, stored} \subseteq Connector
    /\ calls \in [Calls -> Call]
    /\ first \in Addresses \cup {None}
    /\ muddled \in BOOLEAN

Strays(connector) ==
    /\ connector.key # None
    /\ IF connector.key = pinned.key THEN first \notin {None, connector.url}
                                     ELSE MeantFor[connector.key] # connector.url

\* Through any sequence of partial saves, tests, removals and uses, a secret is
\* sent to, and stored beside, no address but the one it was given for; one the
\* environment pins stays with the first address.  This is for requests that no
\* other administrator's write has crossed.
SecretsStayAtTheirAddress ==
    ~muddled =>
        \A c \in Calls :
            calls[c] # Idle /\ calls[c].step \in {"sent", "writing"} /\ ~calls[c].crossed
                => ~Strays(calls[c].found)

\* The same with nothing supposed about other requests: "the stored key is never
\* sent anywhere it was not stored for".
SecretsNeverStray ==
    [][\A c \in Calls :
         calls[c] # Idle /\ calls'[c] # Idle /\ calls[c].step = "key" /\ calls'[c].step = "sent"
             => ~Strays(calls'[c].found)]_vars

\* "Nothing is stored before its connection test passes."
NothingUntestedIsStored ==
    [][\A c \in Calls :
         calls[c] # Idle /\ calls[c].purpose = "store" /\ calls'[c] # Idle
         /\ calls[c].step = "key" /\ calls'[c].step = "writing"
             => calls'[c].found = calls[c].found]_vars
=============================================================================

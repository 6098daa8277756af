------------------------------ MODULE Library ------------------------------
(***************************************************************************)
(* What the household owns: a listing read page by page from a media server   *)
(* that changes meanwhile (adapters/mediabrowser_library.py, adapters/plex.py),*)
(* kept for a quarter of an hour (swipe/engine.py) and behind the check that   *)
(* the same server still answers (auth/mediaserver.py usable).                *)
(*                                                                           *)
(* A batch reads it to leave out what is owned, the list of likes to link to   *)
(* it; any number of both at once.  The shelf is numbered in its sort order.   *)
(***************************************************************************)
EXTENDS Naturals, FiniteSets

CONSTANTS
    Items,        \* 1 .. n, in the order the server lists them
    Servers,
    Readers,
    Products,     \* [Servers -> "mediabrowser" or "plex"], those looked at
    Forms,        \* [Items -> "title", "other" (no film nor series), "odd" (no object)]
    PageSize, MaxPages,
    CheckedFor,   \* IDENTITY_CACHE
    KeptFor,      \* LIBRARY_CACHE
    MaxTime, MaxChanges,  \* bounds: the clock, and what may happen outside
    None

VARIABLES
    product,    \* what each server is
    form,       \* what each item is listed as
    shelf,      \* the items each server holds
    connector,  \* the server configured
    answers,    \* who answers at each one's address: "itself", "another", "nobody"
    checked,    \* when its identity was last read
    library,    \* the index kept: [server, titles], or None
    listed,     \* when it was read
    now,
    changes,
    readers

kept == <<product, form, shelf, connector, answers, checked, library, listed, now, changes, readers>>
outside == <<product, form, shelf, connector, answers, now, changes>>

Idle == [step |-> "idle"]
\* What the one at a server's address says it is.
Identities == {"itself", "another", "nobody"}
\* An adapter: the server it talks to, and whether it has read its identifier, which
\* a link to Plex is built with.
Adapter == [server : Servers, knows : BOOLEAN]
\* A title only the other server holds.
Stranger == 0
\* spoilt: a page was another server's, or was no list at all and taken for the end.
Index == [server : Servers, titles : SUBSET (Items \cup {Stranger}), spoilt : BOOLEAN]
\* The connector is read, then the identity if it is time, once for the links and
\* once for the listing.  at: when the listing was asked for.  stood and thinned say
\* what the shelf did since, spoilt what the answers were.
Reader ==
    {Idle}
    \cup [step : {"connect", "listing"}, why : {"batch", "links"}, linker : Adapter \cup {None}]
    \cup [step : {"identify"}, why : {"batch", "links"}, linker : Adapter \cup {None},
          server : Servers]
    \cup [step : {"page"}, why : {"batch", "links"}, linker : Adapter \cup {None},
          server : Servers, at : 0 .. MaxTime, page : 0 .. MaxPages,
          rows : SUBSET (Items \cup {Stranger}), spoilt : BOOLEAN,
          stood : SUBSET Items, thinned : BOOLEAN]
    \cup [step : {"done"}, why : {"batch", "links"}, linker : Adapter \cup {None},
          found : Index \cup {None}]

Fresh(since, age) == since # None /\ now - since < age
Becomes(r, reader) == readers' = [readers EXCEPT ![r] = reader]

-----------------------------------------------------------------------------
(* The listing.                                                             *)

Place(s, i) == Cardinality({j \in shelf[s] : j < i})
PageOf(s, n) == {i \in shelf[s] : n * PageSize <= Place(s, i) /\ Place(s, i) < (n + 1) * PageSize}
\* rows_of: what is not an object is no row.
IsRow(i) == form[i] # "odd"
\* media_kind_of, tmdb_id_of: a film or a series TMDb knows.
IsTitle(i) == i = Stranger \/ form[i] = "title"
\* What is no row is gone before the page is measured.
Read(s, n) == {i \in PageOf(s, n) : IsRow(i)}
Titles(rows) == {i \in rows : IsTitle(i)}

\* all_rows and _paged.
LastPage(s, n) == Cardinality(Read(s, n)) < PageSize \/ n + 1 = MaxPages

-----------------------------------------------------------------------------
Init ==
    /\ product \in Products
    /\ form \in Forms
    /\ connector \in Servers
    /\ \E items \in SUBSET Items :
         shelf = [s \in Servers |-> IF s = connector THEN items ELSE Items]
    /\ answers = [s \in Servers |-> "itself"]
    /\ checked = None
    /\ library = None /\ listed = None
    /\ now = 0 /\ changes = 0
    /\ readers = [r \in Readers |-> Idle]

\* SwipeEngine.watch_links asks for an adapter, then for the library; build_context
\* for the library alone.
Ask(r) ==
    /\ readers[r] = Idle
    /\ \/ Becomes(r, [step |-> "listing", why |-> "batch", linker |-> None])
       \/ Becomes(r, [step |-> "connect", why |-> "links", linker |-> None])
    /\ UNCHANGED <<outside, checked, library, listed>>

\* MediaServerConnector.connect.
Has(r, server, knows) ==
    LET q == readers[r] IN
    IF q.why = "links" /\ q.linker = None
    THEN Becomes(r, [step |-> "listing", why |-> "links",
                     linker |-> [server |-> server, knows |-> knows]])
    ELSE Becomes(r, [step |-> "page", why |-> q.why, linker |-> q.linker, server |-> server,
                     at |-> now, page |-> 0, rows |-> {}, spoilt |-> FALSE,
                     stood |-> shelf[server], thinned |-> FALSE])
Done(r, found) ==
    Becomes(r, [step |-> "done", why |-> readers[r].why, linker |-> readers[r].linker,
                found |-> found])
Connect(r) ==
    /\ readers[r].step = "connect"
    /\ IF Fresh(checked, CheckedFor) THEN Has(r, connector, FALSE)
       ELSE Becomes(r, [step |-> "identify", why |-> readers[r].why, linker |-> readers[r].linker,
                        server |-> connector])
    /\ UNCHANGED <<outside, checked, library, listed>>

\* usable: the identity stored is the connector's; anything else is no adapter.
Identify(r) ==
    /\ readers[r].step = "identify"
    /\ IF answers[readers[r].server] = "itself" /\ readers[r].server = connector
       THEN checked' = now /\ Has(r, connector, TRUE)
       ELSE UNCHANGED checked /\ Done(r, None)
    /\ UNCHANGED <<outside, library, listed>>

\* SwipeEngine.library.
List(r) ==
    /\ readers[r].step = "listing"
    /\ IF library # None /\ Fresh(listed, KeptFor) THEN Done(r, library)
       ELSE Becomes(r, [readers[r] EXCEPT !.step = "connect"])
    /\ UNCHANGED <<outside, checked, library, listed>>

Collect(r, rows, spoilt) ==
    /\ library' = [server |-> readers[r].server, titles |-> Titles(rows), spoilt |-> spoilt]
    /\ listed' = readers[r].at
    /\ Done(r, library')
\* One page more: the listing is over, or goes on.
Takes(r, rows, last, spoilt) ==
    LET q == readers[r] all == q.rows \cup rows IN
    IF last THEN Collect(r, all, spoilt)
    ELSE /\ Becomes(r, [q EXCEPT !.page = @ + 1, !.rows = all, !.spoilt = spoilt])
         /\ UNCHANGED <<library, listed>>
\* The server's own page.
OwnPage(r) ==
    LET q == readers[r] IN
    /\ answers[q.server] = "itself"
    /\ Takes(r, Read(q.server, q.page), LastPage(q.server, q.page), q.spoilt)
\* A call that fails: then what was kept is used, whatever its age.  A Media Browser
\* page without its list is one, and so is another server, which the key does not open.
PageFails(r) == Done(r, library) /\ UNCHANGED <<library, listed>>
\* mutant: a page that does not come ends the listing.
PageOrEnd(r) ==
    /\ readers[r].step = "page"
    /\ OwnPage(r) \/ Collect(r, readers[r].rows, readers[r].spoilt)
    /\ UNCHANGED <<outside, checked>>
\* The owner's token may open another Plex server too, and the listing does not ask
\* which one it reads; and a Plex answer without a list ends it.
Page(r) ==
    /\ readers[r].step = "page"
    /\ LET q == readers[r] IN
       \/ OwnPage(r)
       \/ /\ product[q.server] = "plex" /\ answers[q.server] # "nobody"
          /\ Collect(r, q.rows, TRUE)
       \/ /\ product[q.server] = "plex" /\ answers[q.server] = "another"
          /\ \E theirs \in SUBSET {Stranger}, last \in BOOLEAN :
                (q.page + 1 = MaxPages => last) /\ Takes(r, theirs, last, TRUE)
       \/ PageFails(r)
    /\ UNCHANGED <<outside, checked>>

Answer(r) ==
    /\ readers[r].step = "done"
    /\ Becomes(r, Idle)
    /\ UNCHANGED <<outside, checked, library, listed>>

-----------------------------------------------------------------------------
(* Outside.                                                                 *)

\* What a reading that is under way can no longer find.
Losing(s, gone) ==
    [r \in Readers |->
        IF readers[r].step = "page" /\ readers[r].server = s
        THEN [readers[r] EXCEPT !.stood = @ \ gone, !.thinned = TRUE] ELSE readers[r]]

Put(s, i) ==
    /\ changes < MaxChanges /\ changes' = changes + 1
    /\ i \notin shelf[s]
    /\ shelf' = [shelf EXCEPT ![s] = @ \cup {i}]
    /\ UNCHANGED <<product, form, connector, answers, checked, library, listed, now, readers>>
Remove(s, i) ==
    /\ changes < MaxChanges /\ changes' = changes + 1
    /\ i \in shelf[s]
    /\ shelf' = [shelf EXCEPT ![s] = @ \ {i}]
    /\ readers' = Losing(s, {i})
    /\ UNCHANGED <<product, form, connector, answers, checked, library, listed, now>>

\* It goes down, is replaced by another, or comes back.
Turn(s) ==
    /\ changes < MaxChanges /\ changes' = changes + 1
    /\ \E who \in Identities \ {answers[s]} :
          answers' = [answers EXCEPT ![s] = who]
    /\ UNCHANGED <<product, form, shelf, connector, checked, library, listed, now, readers>>

\* MediaServerConnector.save, once its test has passed.
Save(s) ==
    /\ changes < MaxChanges /\ changes' = changes + 1
    /\ s # connector /\ answers[s] = "itself"
    /\ connector' = s
    /\ checked' = None
    /\ UNCHANGED <<product, form, shelf, answers, library, listed, now, readers>>

Tick ==
    /\ now < MaxTime
    /\ now' = now + 1
    /\ UNCHANGED <<product, form, shelf, connector, answers, checked, library, listed, changes,
                   readers>>

Next ==
    \/ \E r \in Readers :
         Ask(r) \/ Connect(r) \/ Identify(r) \/ List(r) \/ Page(r) \/ Answer(r)
    \/ Tick
    \/ \E s \in Servers :
         \/ \E i \in Items : Put(s, i) \/ Remove(s, i)
         \/ Turn(s) \/ Save(s)

Spec == Init /\ [][Next]_kept

-----------------------------------------------------------------------------
TypeOK ==
    /\ product \in Products
    /\ form \in Forms
    /\ shelf \in [Servers -> SUBSET Items]
    /\ connector \in Servers
    /\ answers \in [Servers -> Identities]
    /\ checked \in 0 .. MaxTime \cup {None}
    /\ library \in Index \cup {None}
    /\ listed \in 0 .. MaxTime \cup {None}
    /\ now \in 0 .. MaxTime
    /\ changes \in 0 .. MaxChanges
    /\ \A r \in Readers : readers[r] \in Reader

\* A listing that is kept is whole, and that server's own: no title that stood on the
\* shelf all the while is missing, unless another was removed under it, the pages ran
\* out or a row could not be read, and no title of another server is among them.  One
\* that failed half-way never replaces what is known.  Whatever happens at the address
\* of a Media Browser server; for Plex, but for the answers PlexListingsAreWhole is about.
Missing(r) == Titles(readers[r].stood) \ library'.titles
Lists(r) ==
    /\ readers[r].step = "page" /\ readers'[r].step = "done"
    /\ <<library, listed>>' # <<library, listed>>
IsWhole(r) ==
    (\A i \in shelf[readers[r].server] : form[i] # "odd")
        => Missing(r) = {} /\ Stranger \notin library'.titles
Measured(r) ==
    Lists(r) /\ ~readers[r].thinned
    /\ Cardinality(shelf[readers[r].server]) <= PageSize * MaxPages
ListingsAreWhole ==
    [][\A r \in Readers :
         Measured(r) /\ (product[readers[r].server] = "plex" => ~library'.spoilt) => IsWhole(r)]_kept

\* "List every film and series in every library".  Refuted: a Plex answer that holds no
\* list is the end of it, and another Plex server at the address is listed in its stead.
PlexListingsAreWhole == [][\A r \in Readers : Measured(r) => IsWhole(r)]_kept

\* "Loses that entry instead of the call": what cannot be read costs nothing else.
OddRowsCostThemselves ==
    [][\A r \in Readers : Measured(r) /\ ~library'.spoilt => Missing(r) = {}]_kept

\* deep_link: the item it opens, on the server of the adapter.
Linkable(r) == product[readers[r].linker.server] = "mediabrowser" \/ readers[r].linker.knows
Linking(r) == readers[r].step = "done" /\ readers[r].linker # None /\ readers[r].found # None

\* "How every item this could be asked about was obtained": an adapter that is asked
\* for a link can build it.
OwnedTitlesHaveALink == \A r \in Readers : Linking(r) => Linkable(r)

\* "Only for titles the library holds": a link leads to an item of its own server.
LinksOpenWhatTheyName ==
    \A r \in Readers : Linking(r) => readers[r].found.server = readers[r].linker.server
=============================================================================

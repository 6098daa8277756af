------------------------------- MODULE Cards -------------------------------
(***************************************************************************)
(* What a card says: the details and the three enrichments read once for the  *)
(* batch, each of them best effort (swipe/generation.py enrich), out of what   *)
(* TMDb and OMDb answer (adapters/tmdb.py, adapters/omdb.py); the row they are *)
(* stored in (storage/batches.py); and the two things that depend on who       *)
(* looks, and when (swipe/deck.py _view).                                      *)
(***************************************************************************)
EXTENDS Naturals, FiniteSets, Sequences, SequencesExt

CONSTANTS
    Titles,       \* proposed, in this order
    Facts,        \* what TMDb, OMDb and the request backend may know of a title
    Services,     \* the providers a user may pay for
    Kept,         \* MAX_STORED_PROVIDERS
    MaxPatches,   \* bound: how often the preferences change
    None

VARIABLES
    facts,      \* [title -> Facts]
    details,    \* [title -> whether TMDb described it, and with which overview]
    reached,       \* the title being enriched
    card,       \* its card so far
    built,
    batch,      \* the rows stored, None before
    failed,     \* the <<title, call>> that were not answered
    services,   \* the user's streaming services
    menu,       \* the region's list of them: None, "fresh" or "stale"
    patches,
    shown       \* what the deck last answered

cards == <<facts, details, reached, card, built, batch, failed, services, menu, patches, shown>>
told == <<services, menu, patches, shown>>

Proposed == ToSet(Titles)
\* OFFER_BUCKETS: subscription, free, ads, rent, buy.
Buckets == 1 .. 5
INCLUDED_OFFERS == 1 .. 3
\* odd: its name is longer than a row allows.
Offer == [bucket : Buckets, provider : Services, priority : Nat, odd : BOOLEAN]
\* type: 1 for a trailer, 2 for a teaser.  usable: on YouTube, with a key.  odd: as above.
Video == [type : 1 .. 2, official : BOOLEAN, language : {"own", "en", "other"}, usable : BOOLEAN,
          odd : BOOLEAN]
Card == [ref : Proposed, overview : {"own", "en", None}, rated : BOOLEAN,
         offers : SUBSET Offer, trailer : Video \cup {None}]
Availability == {"none", "available"}
\* What TMDb has said of a title: _details_of, or nothing.
Described == {"unread", "read", "lost"}
\* The calls a card is made of, any of which may fail.
Requests == {"details", "ratings", "providers", "trailer"}
\* create_batch and its cards, in one transaction.
IsBatch(rows) == \A i \in DOMAIN rows : rows[i] \in Card
Subscriptions == SUBSET Services
\* The region's services are kept for a while.
Menu == {None, "fresh", "stale"}

-----------------------------------------------------------------------------
(* What is made of an answer.                                               *)

\* The user's language, else English: a second call.
Overview(t) == IF facts[t].overview = "none" THEN None ELSE facts[t].overview

Before(o, p) == o.bucket < p.bucket \/ (o.bucket = p.bucket /\ o.priority < p.priority)
\* A provider is listed once, with its best offer.
Listed(rows) == {o \in rows : \A p \in rows : p.provider = o.provider => ~Before(p, o)}
First(offers) == {o \in offers : Cardinality({p \in offers : Before(p, o)}) < Kept}
\* mutant: the rows are cut before the offers of a provider are told apart.
OffersCutFirst(rows) == {o \in Listed(First(rows)) : ~o.odd}
Offers(rows) == First({o \in Listed(rows) : ~o.odd})

LanguageRank(v) == CASE v.language = "own" -> 0 [] v.language = "en" -> 1 [] OTHER -> 2
Better(v, w) ==
    \/ v.type < w.type
    \/ v.type = w.type /\ v.official /\ ~w.official
    \/ v.type = w.type /\ v.official = w.official /\ LanguageRank(v) < LanguageRank(w)
BestTrailer(videos) ==
    LET usable == {v \in videos : v.usable} IN
    IF usable = {} THEN None
    ELSE CHOOSE v \in usable : \A w \in usable : ~Better(w, v)
\* StoredTrailer: a card with no trailer is a card.
Storable(v) == IF v # None /\ v.odd THEN None ELSE v

-----------------------------------------------------------------------------
Init ==
    /\ facts \in [Proposed -> Facts]
    /\ details = [t \in Proposed |-> "unread"]
    /\ reached = 0 /\ card = None /\ built = <<>> /\ batch = None
    /\ failed = {}
    /\ services \in Subscriptions
    /\ menu = None /\ patches = 0
    /\ shown = None

\* card_details: a title TMDb does not describe is left out.  All are asked at once.
Describe(t) ==
    /\ details[t] = "unread"
    /\ \/ details' = [details EXCEPT ![t] = "read"] /\ UNCHANGED failed
       \/ details' = [details EXCEPT ![t] = "lost"] /\ failed' = failed \cup {<<t, "details">>}
    /\ UNCHANGED <<facts, reached, card, built, batch, told>>

Asking(call) == card # None /\ card.step = call
Answered(call, fields, then) ==
    /\ card' = [fields EXCEPT !.step = then]
    /\ UNCHANGED <<facts, details, reached, built, batch, failed, told>>
Unanswered(call, then) ==
    /\ card' = [card EXCEPT !.step = then]
    /\ failed' = failed \cup {<<card.ref, call>>}
    /\ UNCHANGED <<facts, details, reached, built, batch, told>>

\* enrich, once per title that was described.
More == \E i \in reached + 1 .. Len(Titles) : details[Titles[i]] = "read"
Enrich ==
    /\ card = None /\ batch = None
    /\ \A t \in Proposed : details[t] # "unread"
    /\ More
    /\ LET i == CHOOSE i \in reached + 1 .. Len(Titles) :
                  /\ details[Titles[i]] = "read"
                  /\ \A j \in reached + 1 .. i - 1 : details[Titles[j]] # "read" IN
       /\ reached' = i
       /\ card' = [step |-> "ratings", ref |-> Titles[i], overview |-> Overview(Titles[i]),
                   rated |-> FALSE, offers |-> {}, trailer |-> None]
    /\ UNCHANGED <<facts, details, built, batch, failed, told>>

\* _ratings: with an IMDb id only.
Rate ==
    /\ Asking("ratings")
    /\ \/ Answered("ratings", [card EXCEPT !.rated = facts[card.ref].rated], "providers")
       \/ facts[card.ref].rated /\ Unanswered("ratings", "providers")
\* mutant: what fails takes what comes after it along.
ProvidersOrNothing ==
    /\ Asking("providers")
    /\ \/ Answered("providers", [card EXCEPT !.offers = Offers(facts[card.ref].offers)], "trailer")
       \/ Unanswered("providers", "done")
Providers ==
    /\ Asking("providers")
    /\ \/ Answered("providers", [card EXCEPT !.offers = Offers(facts[card.ref].offers)], "trailer")
       \/ Unanswered("providers", "trailer")
Trailer ==
    /\ Asking("trailer")
    /\ \/ Answered("trailer", [card EXCEPT !.trailer = Storable(BestTrailer(facts[card.ref].videos))], "done")
       \/ Unanswered("trailer", "done")
Done ==
    /\ Asking("done")
    /\ built' = Append(built, card)
    /\ card' = None
    /\ UNCHANGED <<facts, details, reached, batch, failed, told>>

\* create_batch and store_cards, in one transaction.
Row(c) == [f \in (DOMAIN c) \ {"step"} |-> c[f]]
Store ==
    /\ batch = None /\ card = None
    /\ \A t \in Proposed : details[t] # "unread"
    /\ ~More
    /\ batch' = [i \in DOMAIN built |-> Row(built[i])]
    /\ built' = <<>>
    /\ UNCHANGED <<facts, details, reached, card, failed, told>>

-----------------------------------------------------------------------------
(* Looking at them.                                                         *)

\* _subscribed: what can be rented is not on anyone's services.
Subscribed(c) ==
    {p \in services : \E o \in c.offers : o.provider = p /\ o.bucket \in INCLUDED_OFFERS}
\* The backend is asked about each title; one it fails on shows as none.
View ==
    /\ batch # None /\ shown = None
    /\ \E answered \in SUBSET Proposed :
         shown' = [i \in DOMAIN batch |->
                     [card |-> batch[i], subscribed |-> Subscribed(batch[i]),
                      availability |-> IF batch[i].ref \in answered
                                       THEN facts[batch[i].ref].status ELSE "none"]]
    /\ UNCHANGED <<facts, details, reached, card, built, batch, failed, services, menu, patches>>

\* region_providers: TMDb is asked when the list is old; stale beats absent.
OpenMenu ==
    /\ \/ menu # "fresh" /\ menu' = "fresh"
       \/ menu = "stale" /\ UNCHANGED menu
    /\ UNCHANGED <<facts, details, reached, card, built, batch, failed, services, patches, shown>>
MenuAges ==
    /\ menu = "fresh" /\ menu' = "stale"
    /\ UNCHANGED <<facts, details, reached, card, built, batch, failed, services, patches, shown>>
\* update_preferences.
Subscribe(given) ==
    /\ patches < MaxPatches /\ menu # None
    /\ services' = given
    /\ patches' = patches + 1
    /\ shown' = None
    /\ UNCHANGED <<facts, details, reached, card, built, batch, failed, menu>>

Next ==
    \/ \E t \in Proposed : Describe(t)
    \/ Enrich \/ Rate \/ Providers \/ Trailer \/ Done \/ Store
    \/ View \/ OpenMenu \/ MenuAges
    \/ \E given \in SUBSET Services : Subscribe(given)

Spec == Init /\ [][Next]_cards

-----------------------------------------------------------------------------
\* Until it has been through all of them a card is none.
IsUnderWay(c) == c.step \in {"ratings", "providers", "trailer", "done"} /\ Row(c) \in Card

TypeOK ==
    /\ facts \in [Proposed -> Facts]
    /\ details \in [Proposed -> Described]
    /\ reached \in 0 .. Len(Titles)
    /\ card = None \/ IsUnderWay(card)
    /\ \A i \in DOMAIN built : Row(built[i]) \in Card
    /\ batch = None \/ IsBatch(batch)
    /\ failed \subseteq Proposed \X Requests
    /\ services \in Subscriptions
    /\ menu \in Menu
    /\ patches \in 0 .. MaxPatches

\* The offers a card lists are the best there are: none twice, none worse than what its
\* provider has, none in the place of a better one.
BestListed(c) ==
    LET rows == {o \in facts[c.ref].offers : ~o.odd} IN
    /\ c.offers \subseteq rows
    /\ \A o \in c.offers : \A p \in rows : p.provider = o.provider => p = o \/ o.bucket < p.bucket
    /\ \A p \in rows :
         (\A o \in c.offers : o.provider # p.provider) =>
            Cardinality(c.offers) = Kept /\ \A o \in c.offers : o.bucket <= p.bucket

\* The trailer is the best there is, or none, when there is none or the row does not
\* take the best.
BestShown(c) ==
    LET usable == {v \in facts[c.ref].videos : v.usable} IN
    IF c.trailer = None
    THEN \A v \in usable : \E w \in usable : w.odd /\ ~Better(v, w)
    ELSE /\ c.trailer \in usable /\ ~c.trailer.odd
         /\ \A v \in usable : ~Better(v, c.trailer)

\* A call that fails costs its own field of its own card: every title TMDb described is
\* in the batch, in the order proposed, with all that was answered for.
CardsLoseOnlyWhatFailed ==
    batch # None =>
        /\ [i \in DOMAIN batch |-> batch[i].ref]
             = SelectSeq(Titles, LAMBDA t : <<t, "details">> \notin failed)
        /\ \A i \in DOMAIN batch :
             LET c == batch[i] t == c.ref IN
             /\ c.overview # None \/ facts[t].overview = "none"
             /\ <<t, "ratings">> \notin failed => c.rated = facts[t].rated
             /\ <<t, "providers">> \notin failed => BestListed(c)
             /\ <<t, "trailer">> \notin failed => BestShown(c)

\* "On your services" is lit for those services alone, the user's at that moment, where
\* the title is included, and for all of them unless more are included than are kept.
IncludedOn(t) ==
    {p \in Services : \E o \in facts[t].offers :
        o.provider = p /\ o.bucket \in INCLUDED_OFFERS /\ ~o.odd}
BadgesAreTrue ==
    shown # None =>
        \A i \in DOMAIN shown :
            LET t == shown[i].card.ref IN
            /\ shown[i].subscribed \subseteq services \cap IncludedOn(t)
            /\ <<t, "providers">> \notin failed /\ Cardinality(IncludedOn(t)) <= Kept =>
                 shown[i].subscribed = services \cap IncludedOn(t)
=============================================================================

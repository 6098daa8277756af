------------------------------ MODULE MCReading ------------------------------
(***************************************************************************)
(* Small instances of what is read from others: what the household owns      *)
(* (Library), what a user did with it (Watching) or says of it (Grid), and   *)
(* what a card says (Cards); and of what is read back: the list of likes     *)
(* (Likes) and the taste profile (Words).  They share no state here: a       *)
(* behaviour is one's alone.                                                 *)
(***************************************************************************)
EXTENDS Naturals, FiniteSets, TLC

CONSTANTS
    Halves, None,
    sa, sb, r1, Copies, PageSize, MaxPages, CheckedFor, KeptFor, MaxTime, MaxChanges,  \* of Library
    film, show, Recent, AbandonedAfter, FewEpisodes, MaxDays, Plays, MaxFiles,        \* of Watching
    netflix, shop, Kept, MaxPatches,                                               \* of Cards
    Numbers, asker, MaxSwipes,                                                     \* of Likes
    tab, Rewrites, Limit, Longest, MaxVerdicts, MaxSaves,                          \* of Words
    Posters, WallSize, Deepest, MaxWalls                                           \* of Grid

VARIABLES
    half,
    product, form, shelf, connector, answers, checked, library, listed, now, changes, readers,
    source, title, day, data, plays, imports, imported, filed, asked, history, rows, tally, resume, told,
    facts, details, reached, card, built, batch, failed, services, menu, patches, shown,
    moment, votes, held, filing, walk, swipes,
    verdicts, user_text, generated, edited, refresh_error, rewrite, done, tabs, typed, saves,
    telling, grid, page, fetch, wall, ticked, sending, sent

Products == {[s \in {sa, sb} |-> IF s = sa THEN "plex" ELSE "mediabrowser"]}
\* Titles, but for the second item.
Forms == {[i \in Copies |-> IF i = 2 THEN f ELSE "title"] : f \in {"title", "other", "odd"}}
Episodes == [t \in {film, show} |-> IF t = film THEN {"film"} ELSE {"e1", "e2", "e3"}]

\* What the server tells and what files tell do not meet but in the answer.
MCPlays == [s \in {"mediabrowser", "plex owner", "plex guest", "none"} |-> IF s = "none" THEN 0 ELSE Plays]
MCFiles == [s \in {"mediabrowser", "plex owner", "plex guest", "none"} |-> IF s = "none" THEN MaxFiles ELSE 0]

\* Titles with a better offer after a worse one of the same provider, with more offers
\* than are kept, with one that no row can hold, and with nothing.
Offer(bucket, provider, priority, odd) ==
    [bucket |-> bucket, provider |-> provider, priority |-> priority, odd |-> odd]
Offers ==
    {{}, {Offer(4, netflix, 1, FALSE), Offer(1, shop, 2, FALSE)},
     {Offer(4, netflix, 1, FALSE), Offer(2, netflix, 2, FALSE), Offer(5, shop, 1, FALSE)},
     {Offer(1, netflix, 1, TRUE), Offer(3, shop, 1, FALSE)}}
Videos(odd) ==
    {[type |-> 1, official |-> FALSE, language |-> "en", usable |-> TRUE, odd |-> odd],
     [type |-> 1, official |-> TRUE, language |-> "own", usable |-> FALSE, odd |-> FALSE],
     [type |-> 2, official |-> TRUE, language |-> "own", usable |-> TRUE, odd |-> FALSE]}
Facts == {[overview |-> IF offers = {} THEN "none" ELSE "own", rated |-> TRUE, offers |-> offers,
           videos |-> IF mute THEN {} ELSE Videos(\E o \in offers : o.odd),
           status |-> "available"] : offers \in Offers, mute \in BOOLEAN}

L == INSTANCE Library WITH Items <- Copies, Servers <- {sa, sb}, Readers <- {r1}
W == INSTANCE Watching WITH
        Films <- {film}, Series <- {show}, Parts <- Episodes,
        Formats <- {"netflix", "imdb"},
        Sources <- {"mediabrowser", "plex owner", "plex guest", "none"}, MaxTime <- MaxDays,
        MaxPlays <- MCPlays, MaxImports <- MCFiles, now <- day
C == INSTANCE Cards WITH Titles <- <<"one", "two">>, Services <- {netflix, shop}
K == INSTANCE Likes WITH
        Titles <- Numbers, Askers <- {asker}, Filters <- {"to_request", "requested"},
        now <- moment, rows <- votes
T == INSTANCE Words WITH Tabs <- {tab}
\* Two decades, everywhere and here: the same title may be famous in both, and a
\* decade may have little to ask about.
MCFamous ==
    [p \in 1 .. Deepest |->
        (<<FALSE, 1>> :> (IF p = 1 THEN <<"a", "b", "c">> ELSE <<"d">>))
        @@ (<<FALSE, 2>> :> (IF p = 1 THEN <<"d", "e">> ELSE <<"c", "b">>))
        @@ (<<TRUE, 1>> :> <<"b", "e">>) @@ (<<TRUE, 2>> :> (IF p = 1 THEN <<>> ELSE <<"e">>))]
MCGenreOf == [t \in Posters |-> IF t \in {"a", "b"} THEN "action" ELSE IF t = "c" THEN "none" ELSE "drama"]
G == INSTANCE Grid WITH
        Titles <- Posters, GenreOf <- MCGenreOf, Owned <- {"d"}, Refused <- {"e"},
        Eras <- {1, 2}, Famous <- MCFamous, Size <- WallSize, MaxPage <- Deepest,
        MaxSaves <- MaxWalls, history <- grid, saves <- sent
ASSUME G!GridAssumption

ofLibrary == <<product, form, shelf, connector, answers, checked, library, listed, now, changes, readers>>
ofWatching == <<source, title, day, data, plays, imports, imported, filed, asked, history, rows, tally, resume, told>>
ofCards == <<facts, details, reached, card, built, batch, failed, services, menu, patches, shown>>
ofLikes == <<moment, votes, held, filing, walk, swipes>>
ofWords == <<verdicts, user_text, generated, edited, refresh_error, rewrite, done, tabs, typed, saves>>
ofGrid == <<telling, grid, page, fetch, wall, ticked, sending, sent>>
MCVars == <<half, ofLibrary, ofWatching, ofCards, ofLikes, ofWords, ofGrid>>

MCInit ==
    /\ half \in Halves
    /\ \/ half = "library" /\ L!Init
       \/ /\ half # "library"
          /\ product = 0 /\ form = 0 /\ shelf = 0 /\ connector = 0 /\ answers = 0 /\ checked = 0
          /\ library = 0 /\ listed = 0 /\ now = 0 /\ changes = 0
          /\ readers = [r \in {r1} |-> L!Idle]
    /\ \/ half = "watching" /\ W!Init
       \/ /\ half # "watching"
          /\ source = 0 /\ title = 0 /\ day = 0 /\ data = 0 /\ plays = 0 /\ imports = 0 /\ imported = 0
          /\ filed = 0 /\ asked = 0 /\ history = 0 /\ rows = 0 /\ tally = 0 /\ resume = 0 /\ told = 0
    /\ \/ half = "cards" /\ C!Init
       \/ /\ half # "cards"
          /\ facts = 0 /\ details = 0 /\ reached = 0 /\ card = 0 /\ built = 0 /\ batch = None
          /\ failed = 0 /\ services = 0 /\ menu = 0 /\ patches = 0 /\ shown = None
    /\ \/ half = "likes" /\ K!Init
       \/ /\ half # "likes"
          /\ moment = 0 /\ votes = K!Empty /\ held = 0 /\ filing = 0 /\ walk = None /\ swipes = 0
    /\ \/ half = "words" /\ T!Init
       \/ /\ half # "words"
          /\ verdicts = 0 /\ user_text = 0 /\ generated = 0 /\ edited = FALSE /\ refresh_error = 0
          /\ rewrite = 0 /\ done = 0 /\ tabs = 0 /\ typed = 0 /\ saves = 0
    /\ \/ half = "grid" /\ G!Init
       \/ /\ half # "grid"
          /\ telling = FALSE /\ grid = 0 /\ page = 1 /\ fetch = G!Idle
          /\ wall = G!NoWall /\ ticked = {} /\ sending = G!Idle /\ sent = 0
MCNext ==
    \/ half = "library" /\ UNCHANGED <<half, ofWatching, ofCards, ofLikes, ofWords, ofGrid>> /\ L!Next
    \/ half = "watching" /\ UNCHANGED <<half, ofLibrary, ofCards, ofLikes, ofWords, ofGrid>> /\ W!Next
    \/ half = "cards" /\ UNCHANGED <<half, ofLibrary, ofWatching, ofLikes, ofWords, ofGrid>> /\ C!Next
    \/ half = "likes" /\ UNCHANGED <<half, ofLibrary, ofWatching, ofCards, ofWords, ofGrid>> /\ K!Next
    \/ half = "words" /\ UNCHANGED <<half, ofLibrary, ofWatching, ofCards, ofLikes, ofGrid>> /\ T!Next
    \/ half = "grid" /\ UNCHANGED <<half, ofLibrary, ofWatching, ofCards, ofLikes, ofWords>> /\ G!Next
MCSpec == MCInit /\ [][MCNext]_MCVars

\* Library!ListingsAreWhole, Watching!WhatIsWatchedIsNotGivenUp, Grid!WallsAskWidely.
ListingsAreWhole == L!ListingsAreWhole
WhatIsWatchedIsNotGivenUp == half = "watching" => W!WhatIsWatchedIsNotGivenUp
WallsAskWidely == G!WallsAskWidely
\* A card says what was learned of its title, and no more: Cards' CardsLoseOnlyWhatFailed
\* and BadgesAreTrue.
CardsAreTrue == C!CardsLoseOnlyWhatFailed /\ C!BadgesAreTrue
\* What is read back is what was said and done: Likes' WalksMissNothing and
\* RequestedIsHeld, Words!OwnWordsStay.
ReadBackAsItIs == K!WalksMissNothing /\ K!RequestedIsHeld /\ T!OwnWordsStay
=============================================================================

------------------------------- MODULE MCDeck -------------------------------
(***************************************************************************)
(* Small instances of the deck: when a batch is paid for and shown (Deck),   *)
(* which titles may be in it (Offering), the pool they come from (Retrieval), *)
(* how they are chosen (Choosing), and what becomes of a verdict cast in the  *)
(* console (WebDeck).  They share no state here, so a behaviour is one's      *)
(* alone.                                                                     *)
(***************************************************************************)
EXTENDS Deck, TLC

CONSTANTS
    phone, sweep, Halves,
    Offers, CoolDown, Days, Deals2,                            \* of Offering
    PoolSize, MaxSeeds, SeedDepth,                             \* of Retrieval
    Recent, Sizes, MaxAnswer,                                  \* of Choosing
    Visits, TabCards, MaxVerdicts                              \* of WebDeck

VARIABLES
    part,
    day, dealt, shown, answers, watched, job,                             \* of Offering
    context, stage, genres, seeds, queries, seeded, found, ranked, safe,  \* of Retrieval
    pool, size, budget, turn, picks, batch, fallback,                     \* of Choosing
    cast, kept, attempted, pages, standing, receipts, withdrawn, back, overruled, hasty

MCBatchIds == 1 .. MaxPaid
MCDeals == {{}, Kinds}

-----------------------------------------------------------------------------
(* A catalogue with a title for each way of being left out, and of being famous. *)

Plain == [kind |-> "movie", adult |-> FALSE, year |-> 2, language |-> "en", genres |-> {},
          popularity |-> 1, votes |-> 1, series |-> "none"]
MCFacts ==
    ("plain" :> Plain)
    @@ ("undated" :> [Plain EXCEPT !.year = 0])
    @@ ("horror" :> [Plain EXCEPT !.genres = {"horror"}, !.votes = 2])
    @@ ("series" :> [Plain EXCEPT !.kind = "tv", !.popularity = 0])
    @@ ("adult" :> [Plain EXCEPT !.adult = TRUE])

NoFilter == [adult |-> FALSE, year |-> 0, languages |-> {}, genres |-> {}]
Basic == [kinds |-> {"movie", "tv"}, liked |-> <<"plain", "series">>, calibrating |-> FALSE,
          novelty |-> "bold", excluded |-> {"plain", "series"}, filters |-> NoFilter]
MCContexts ==
    {Basic,
     [Basic EXCEPT !.kinds = {"movie"}, !.liked = <<"plain", "undated", "adult">>,
                   !.excluded = {"plain", "undated", "adult"}, !.filters.genres = {"horror"}],
     [Basic EXCEPT !.kinds = {"movie"}, !.liked = <<"plain">>, !.excluded = {"plain"},
                   !.calibrating = TRUE],
     [Basic EXCEPT !.kinds = {"movie"}, !.liked = <<>>, !.excluded = {},
                   !.novelty = "familiar", !.filters.year = 2, !.filters.adult = TRUE],
     [Basic EXCEPT !.kinds = {"movie"}, !.liked = <<"series", "horror">>,
                   !.excluded = {"horror", "series"}]}
MCBands ==
    [bold |-> [floor |-> 0, least |-> 0, most |-> 1, pages |-> <<2>>, wanted |-> 1],
     familiar |-> [floor |-> 1, least |-> 1, most |-> 0, pages |-> <<1, 2>>, wanted |-> 2]]
MCPages ==
    {<<>>} \cup {<<x>> : x \in DOMAIN MCFacts}
    \cup {<<x, y>> : x, y \in DOMAIN MCFacts}

MCFame ==
    ("classic" :> [votes |-> 3, popularity |-> 0, year |-> 1, series |-> "saga"])
    @@ ("sequel" :> [votes |-> 0, popularity |-> 3, year |-> 3, series |-> "saga"])
    @@ ("small" :> [votes |-> 0, popularity |-> 0, year |-> 2, series |-> "none"])
    @@ ("recent" :> [votes |-> 2, popularity |-> 0, year |-> 3, series |-> "none"])

-----------------------------------------------------------------------------
O == INSTANCE Offering WITH
        now <- day, batches <- dealt, cards <- shown, votes <- answers,
        Titles <- Offers, BatchIds <- 1 .. Deals2, MaxTime <- Days
R == INSTANCE Retrieval WITH
        Titles <- DOMAIN MCFacts, Facts <- MCFacts, Contexts <- MCContexts, Bands <- MCBands,
        Nothing <- 0, Size <- PoolSize, Pages <- MCPages
C == INSTANCE Choosing WITH
        stage <- turn, Titles <- DOMAIN MCFame, Facts <- MCFame, NoSeries <- "none",
        Unknown <- "unknown"
W == INSTANCE WebDeck WITH
        votes <- standing, Cards <- TabCards, Pages <- Visits, MaxVotes <- MaxVerdicts

ASSUME OfferingAssumption == O!OfferingAssumption
ASSUME WebDeckAssumption == W!WebDeckAssumption

ofOffering == <<day, dealt, shown, answers, watched, job>>
ofRetrieval == <<context, stage, genres, seeds, queries, seeded, found, ranked, safe>>
ofChoosing == <<pool, size, budget, turn, picks, batch, fallback>>
ofWebDeck == <<cast, kept, attempted, pages, standing, receipts, withdrawn, back, overruled, hasty>>
MCVars == <<part, vars, ofOffering, ofRetrieval, ofChoosing, ofWebDeck>>

MCInit ==
    /\ part \in Halves
    /\ Init /\ O!Init /\ W!Init
    /\ \/ part = "pool" /\ R!Init
       \/ /\ part # "pool"
          /\ context = Basic /\ stage = "built" /\ genres = {} /\ seeds = <<>>
          /\ queries = <<>> /\ seeded = <<>> /\ found = <<>> /\ ranked = <<>> /\ safe = 0
    /\ \/ part = "choice" /\ C!Init
       \/ /\ part # "choice"
          /\ pool = <<>> /\ size = 1 /\ budget = 0 /\ turn = "stored" /\ picks = <<>>
          /\ batch = <<>> /\ fallback = FALSE

MCNext ==
    \/ part = "deck" /\ UNCHANGED <<part, ofOffering, ofRetrieval, ofChoosing, ofWebDeck>> /\ Next
    \/ part = "titles" /\ UNCHANGED <<part, vars, ofRetrieval, ofChoosing, ofWebDeck>> /\ O!Next
    \/ part = "pool" /\ UNCHANGED <<part, vars, ofOffering, ofChoosing, ofWebDeck>> /\ R!Next
    \/ part = "choice" /\ UNCHANGED <<part, vars, ofOffering, ofRetrieval, ofWebDeck>> /\ C!Next
    \/ part = "console" /\ UNCHANGED <<part, vars, ofOffering, ofRetrieval, ofChoosing>> /\ W!Next

MCSpec == MCInit /\ [][MCNext]_MCVars

\* Offering!AnswersAreRespected and AnsweredStaysAnswered, Retrieval!PoolIsSound and
\* PrefixesKeepTheMix, Choosing!BatchIsSoundAndFull.
AnswersAreRespected == O!AnswersAreRespected
AnsweredStaysAnswered == O!AnsweredStaysAnswered
PoolIsSound == R!PoolIsSound
PrefixesKeepTheMix == R!PrefixesKeepTheMix
BatchIsSoundAndFull == C!BatchIsSoundAndFull
\* What the user decided on is what the server ends up with, undone or not: WebDeck's
\* VerdictsAreKept and TakenBackStaysBack.
VerdictsFollowTheUser == W!VerdictsAreKept /\ W!TakenBackStaysBack
\* WebDeck!VotesAreNeverLost.
VotesAreNeverLost == W!VotesAreNeverLost

Symmetry == Permutations(TabCards)
=============================================================================

------------------------------ MODULE Retrieval ------------------------------
(***************************************************************************)
(* How a candidate pool is built (swipe/retrieval.py): the household's         *)
(* excluded genres are resolved, the recommendations of what was liked and the *)
(* discovery pages are read, every exclusion is applied, and the two sources   *)
(* are merged title by title in the proportion the novelty asks for.           *)
(*                                                                         *)
(* TMDb is not trusted to have filtered anything: a page is any titles, and a  *)
(* page it refuses is an empty one.  What was cached is asked for once here,    *)
(* as it is in one generation.                                                 *)
(***************************************************************************)
EXTENDS Naturals, FiniteSets, SequencesExt

CONSTANTS
    Titles,
    Facts,        \* [Titles -> kind, adult, year, language, genres, popularity, votes]
    Contexts,     \* what a pool may be asked for
    Bands,        \* NOVELTY_BANDS, with how many of a pool's titles are to be seeded
    Nothing,      \* a year nobody filled in, a filter that is not set, no ceiling
    Size,         \* POOL_SIZE
    MaxSeeds,     \* MAX_SEEDS
    SeedDepth,    \* SEED_DEPTH
    Pages         \* bound: the pages TMDb answers with

VARIABLES
    context,   \* the StrategyContext
    stage,
    genres,    \* the excluded genres' ids, once they are known
    seeds,     \* the liked titles still to be asked about
    queries,   \* the discovery pages still to be read, for each kind
    seeded,    \* what the seeds answered, then what is left of it to merge
    found,     \* the same of discovery
    ranked,    \* the pool so far
    safe       \* how many of it came from seeds

vars == <<context, stage, genres, seeds, queries, seeded, found, ranked, safe>>
asked == <<context, genres>>

-----------------------------------------------------------------------------
(* What survives.                                                           *)

\* A calibration batch wants the familiar titles, whatever was asked for.
Band == Bands[IF context.calibrating THEN "familiar" ELSE context.novelty]

PassesFilters(t) ==
    LET filters == context.filters IN
    /\ filters.adult => ~Facts[t].adult
    /\ Nothing \in {filters.year, Facts[t].year} \/ Facts[t].year >= filters.year
    /\ Facts[t].language \notin filters.languages
    /\ genres \cap Facts[t].genres = {}
InBand(t) ==
    /\ Facts[t].popularity >= Band.floor
    /\ Facts[t].votes >= Band.least
    /\ Band.most = Nothing \/ Facts[t].votes <= Band.most
\* _Keeper._keeps.
Keeps(t) ==
    /\ t \notin context.excluded
    /\ Facts[t].kind \in context.kinds
    /\ PassesFilters(t)
    /\ InBand(t)

\* _Keeper: what survives, in the order it came, once each.
Keep(seq) ==
    FoldLeft(LAMBDA kept, t : IF t \in ToSet(kept) \/ ~Keeps(t) THEN kept ELSE Append(kept, t),
             <<>>, seq)

\* The seeds, the last liked first: reversed(context.liked), of the wanted kinds.
LastLiked ==
    LET wanted == SelectSeq(context.liked, LAMBDA t : Facts[t].kind \in context.kinds)
        most == IF Len(wanted) < MaxSeeds THEN Len(wanted) ELSE MaxSeeds
    IN  [i \in 1 .. most |-> wanted[Len(wanted) + 1 - i]]

-----------------------------------------------------------------------------
Init ==
    /\ context \in Contexts
    /\ stage = "genres"
    /\ genres = {}
    /\ seeds = LastLiked
    /\ queries = [k \in context.kinds |-> Len(Band.pages)]
    /\ seeded = <<>>
    /\ found = <<>>
    /\ ranked = <<>>
    /\ safe = 0

\* _genre_ids: no filter, no question; a refusal builds no pool (RefuseGenres).
ReadGenres ==
    /\ stage = "genres"
    /\ genres' = context.filters.genres
    /\ stage' = "reading"
    /\ UNCHANGED <<context, seeds, queries, seeded, found, ranked, safe>>
RefuseGenres ==
    /\ stage = "genres" /\ context.filters.genres # {}
    /\ stage' = "failed"
    /\ UNCHANGED <<asked, seeds, queries, seeded, found, ranked, safe>>

\* _seeded, one liked title of it.
ReadSeed(page) ==
    /\ stage = "reading" /\ seeds # <<>>
    /\ seeds' = Tail(seeds)
    /\ seeded' = seeded \o SubSeq(page, 1, IF Len(page) < SeedDepth THEN Len(page) ELSE SeedDepth)
    /\ UNCHANGED <<asked, stage, queries, found, ranked, safe>>

\* _discovery, one page of one kind.
ReadPage(kind, page) ==
    /\ stage = "reading" /\ seeds = <<>>
    /\ kind \in DOMAIN queries /\ queries[kind] > 0
    /\ kind = "tv" /\ "movie" \in DOMAIN queries => queries["movie"] = 0
    /\ queries' = [queries EXCEPT ![kind] = @ - 1]
    /\ found' = found \o page
    /\ UNCHANGED <<asked, stage, seeds, seeded, ranked, safe>>

\* The keeper drops what does not survive, before anything is merged.
Filter ==
    /\ stage = "reading" /\ seeds = <<>> /\ \A k \in DOMAIN queries : queries[k] = 0
    /\ seeded' = Keep(seeded)
    /\ found' = Keep(found)
    /\ stage' = "merging"
    /\ UNCHANGED <<asked, seeds, queries, ranked, safe>>

\* mutant: the quota is that of the cards there are, not of the next one.
SeedsAreBehindLate == safe * Size < Band.wanted * Len(ranked)
\* Seeds are behind what they are owed of the pool with one title more.
SeedsAreBehind == safe * Size < Band.wanted * (Len(ranked) + 1)

\* _interleave, one turn of its loop: a title from the source that is behind, or from
\* the one that is left.
TakeSeeded ==
    /\ stage = "merging" /\ Len(ranked) < Size
    /\ seeded # <<>> /\ (SeedsAreBehind \/ found = <<>>)
    /\ seeded' = Tail(seeded)
    /\ IF Head(seeded) \in ToSet(ranked)
       THEN UNCHANGED <<ranked, safe>>
       ELSE ranked' = Append(ranked, Head(seeded)) /\ safe' = safe + 1
    /\ UNCHANGED <<asked, stage, seeds, queries, found>>
TakeFound ==
    /\ stage = "merging" /\ Len(ranked) < Size
    /\ found # <<>> /\ (seeded = <<>> \/ ~SeedsAreBehind)
    /\ found' = Tail(found)
    /\ ranked' = IF Head(found) \in ToSet(ranked) THEN ranked ELSE Append(ranked, Head(found))
    /\ UNCHANGED <<asked, stage, seeds, queries, seeded, safe>>
Finish ==
    /\ stage = "merging" /\ (Len(ranked) = Size \/ (seeded = <<>> /\ found = <<>>))
    /\ stage' = "built"
    /\ UNCHANGED <<asked, seeds, queries, seeded, found, ranked, safe>>

Next ==
    \/ ReadGenres \/ RefuseGenres \/ Filter \/ TakeSeeded \/ TakeFound \/ Finish
    \/ \E page \in Pages : ReadSeed(page) \/ (\E k \in {"movie", "tv"} : ReadPage(k, page))

Spec == Init /\ [][Next]_vars

-----------------------------------------------------------------------------
\* Every exclusion is applied to the pool, whichever source a title came from and
\* whatever TMDb filtered: nothing voted on, shown, owned or watched, of another kind,
\* outside the filters or the band, and nothing twice (_Keeper, _interleave).
PoolIsSound ==
    /\ Len(ranked) <= Size
    /\ \A i \in DOMAIN ranked :
        /\ Keeps(ranked[i])
        /\ Facts[ranked[i]].genres \cap context.filters.genres = {}
        /\ \A j \in DOMAIN ranked : i # j => ranked[i] # ranked[j]

\* "The proportion holds at every prefix and not only at the end" (_interleave): as long
\* as a source has titles left, the pool's share of it is the one asked for, to within
\* one title.
PrefixesKeepTheMix ==
    stage = "merging" =>
        /\ seeded # <<>> => Band.wanted * Len(ranked) <= safe * Size
        /\ found # <<>> => safe * Size < Band.wanted * Len(ranked) + Size
=============================================================================

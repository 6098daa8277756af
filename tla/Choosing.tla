------------------------------ MODULE Choosing ------------------------------
(***************************************************************************)
(* One batch chosen from a pool (swipe/hybrid.py): the model picks, its       *)
(* answer is held to the pool, to one title per series and to the batch's      *)
(* fame budget, the head of the pool fills the rest, and every card is         *)
(* described before it is stored (swipe/generation.py).                        *)
(*                                                                         *)
(* The pool holds nothing the context excludes (Retrieval), so the second      *)
(* look at the exclusions has nothing to drop here.                            *)
(***************************************************************************)
EXTENDS Naturals, FiniteSets, SequencesExt

CONSTANTS
    Titles,
    Facts,        \* [Titles -> what a listing says: votes, popularity, year, series]
    NoSeries,     \* the series of a title without a colon
    Recent,       \* RECENT_YEARS
    Sizes,        \* the batch sizes asked for
    Unknown,      \* an id that was never offered
    MaxAnswer     \* bound: the cards a model answers with

VARIABLES
    pool,      \* CandidatePool.titles, best first
    size,
    budget,    \* CandidatePool.famous(size)
    stage,
    picks,     \* what was chosen, best first
    batch,     \* the picks that were described
    fallback   \* whether the model did not answer

vars == <<pool, size, budget, stage, picks, batch, fallback>>

-----------------------------------------------------------------------------
(* Fame, as the pool defines it.                                            *)

Pooled == ToSet(pool)

\* _upper_quartile: nearest rank, rounding half up.
UpperQuartile(f) ==
    LET rank == (3 * (Cardinality(Pooled) - 1) + 2) \div 4 IN
    CHOOSE v \in {f[t] : t \in Pooled} :
        /\ Cardinality({t \in Pooled : f[t] < v}) <= rank
        /\ Cardinality({t \in Pooled : f[t] <= v}) > rank
Votes(t) == Facts[t].votes
Popularity(t) == Facts[t].popularity
IsRecent(t) == \A x \in Pooled : Facts[x].year <= Facts[t].year + Recent
IsFamous(t) ==
    \/ Votes(t) > UpperQuartile([x \in Pooled |-> Votes(x)])
    \/ IsRecent(t) /\ Popularity(t) > UpperQuartile([x \in Pooled |-> Popularity(x)])

-----------------------------------------------------------------------------
(* The choice.                                                              *)

\* The titles of seq, in order, that what was taken before them admits.
Taking(Admits(_, _), seq, start) ==
    FoldLeft(LAMBDA got, t : IF Admits(got, t) THEN Append(got, t) ELSE got, start, seq)

New(got, t) == t \notin ToSet(got)
\* series_of: no other title of its series.
Apart(got, t) ==
    Facts[t].series = NoSeries \/ \A x \in ToSet(got) : Facts[x].series # Facts[t].series
\* _FameBudget.spend.
Affords(got, t) ==
    IsFamous(t) => Cardinality({x \in ToSet(got) : IsFamous(x)}) < budget

Kept(answer) == Taking(LAMBDA got, t : t \in Pooled /\ New(got, t), answer, <<>>)
OnePerSeries(chosen) == Taking(Apart, chosen, <<>>)
WithinBudget(chosen) == Taking(Affords, chosen, <<>>)

Fits(got, t) == Len(got) < size /\ New(got, t) /\ Apart(got, t)
\* _from_pool's first pass, which spends the budget.
Afforded(chosen) ==
    Taking(LAMBDA got, t : Fits(got, t) /\ Affords(got, t), pool, chosen)
\* mutant: the budget may leave the deck short.
FilledUnlessFamous(chosen) == SubSeq(Afforded(chosen), 1, IF Len(Afforded(chosen)) < size
                                                   THEN Len(Afforded(chosen)) ELSE size)
\* _from_pool: both passes, and no more than was asked for.
Filled(chosen) ==
    LET full == Taking(Fits, pool, Afforded(chosen))
    IN  SubSeq(full, 1, IF Len(full) < size THEN Len(full) ELSE size)

-----------------------------------------------------------------------------
\* famous: a share of the size; all of it on a calibration or a familiar batch.
Init ==
    /\ pool \in UNION {{s \in [1 .. n -> Titles] : IsInjective(s)} : n \in 0 .. Cardinality(Titles)}
    /\ size \in Sizes
    /\ budget \in 0 .. size
    /\ stage = "asking"
    /\ picks = <<>>
    /\ batch = <<>>
    /\ fallback = FALSE

\* propose: nothing to choose from, and nobody is asked.
Nothing ==
    /\ stage = "asking" /\ pool = <<>>
    /\ stage' = "stored"
    /\ UNCHANGED <<pool, size, budget, picks, batch, fallback>>

\* The model answers with any ids, in any order, as often as it likes.
Choose(answer) ==
    /\ stage = "asking" /\ pool # <<>>
    /\ picks' = Filled(WithinBudget(OnePerSeries(Kept(answer))))
    /\ stage' = "describing"
    /\ UNCHANGED <<pool, size, budget, batch, fallback>>

\* It did not answer: the pool as it stands, and a fallback is written on the batch.
FallBack ==
    /\ stage = "asking" /\ pool # <<>>
    /\ picks' = Filled(<<>>)
    /\ stage' = "describing"
    /\ fallback' = TRUE
    /\ UNCHANGED <<pool, size, budget, batch>>

\* card_details: a card TMDb will not describe costs that card. Its providers, its
\* trailer and its ratings may be missing and cost nothing.
Describe(cards) ==
    /\ stage = "describing"
    /\ batch' = SelectSeq(picks, LAMBDA t : t \in cards)
    /\ stage' = "stored"
    /\ UNCHANGED <<pool, size, budget, picks, fallback>>

Next ==
    \/ Nothing \/ FallBack
    \/ \E n \in 0 .. MaxAnswer : \E answer \in [1 .. n -> Titles \cup {Unknown}] : Choose(answer)
    \/ \E cards \in SUBSET ToSet(picks) : Describe(cards)

Spec == Init /\ [][Next]_vars

-----------------------------------------------------------------------------
Chosen == ToSet(picks)
\* No room for t beside what was picked.
Crowded(t) == t \in Chosen \/ ~Apart(picks, t)

\* A batch goes over its fame budget only when everything less famous is in it or
\* crowded out: what the model overspends is dropped, and the fill spends what is left
\* before it goes over (_within_budget, _from_pool).
FameIsRationed ==
    Cardinality({t \in Chosen : IsFamous(t)}) > budget =>
        \A t \in Pooled : ~IsFamous(t) => Crowded(t)

\* Whatever the model answers, or when it does not, a batch has no more cards than were
\* asked for, all of them of the pool, none twice and no two of one series (_kept,
\* _one_per_series, _from_pool); and it is short only once the pool has nothing left
\* for it: a rule of the batch's own never empties the deck.
BatchIsSoundAndFull ==
    stage # "asking" /\ pool # <<>> =>
        /\ Chosen \subseteq Pooled
        /\ Len(picks) <= size
        /\ IsInjective(picks)
        /\ \A i, j \in DOMAIN picks : i < j => Apart(<<picks[i]>>, picks[j])
        /\ Len(picks) < size => \A t \in Pooled : Crowded(t)
        /\ FameIsRationed

=============================================================================

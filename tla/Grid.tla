-------------------------------- MODULE Grid --------------------------------
(***************************************************************************)
(* The calibration grid: a wall of posters that asks what the user has       *)
(* already seen.  swipe/calibration.py builds it, GridService of             *)
(* swipe/watched.py reads what is known and stores the answers, and          *)
(* CalibrationPage.tsx shows, ticks and sends them.                          *)
(*                                                                         *)
(* TMDb answers one slice per decade, for what is famous everywhere and then *)
(* for what is famous here.  The wall may be fetched again while it is       *)
(* ticked and sent.                                                          *)
(***************************************************************************)
EXTENDS Naturals, Sequences, FiniteSets, SequencesExt

CONSTANTS
    Titles,
    GenreOf,   \* [Titles -> genres \cup {NoGenre}]: _first_genre
    Owned,     \* those in the household's library, or voted on in the deck
    Refused,   \* those the household's filters refuse, or with too few votes
    Eras,      \* 1 .. their number: ERAS, the newest first
    Famous,    \* [pages -> [BOOLEAN \X Eras -> Seq(Titles)]]: a slice, local or not
    Size,      \* GRID_SIZE
    MaxPage,   \* MAX_GRID_PAGE, and MAX_PAGE of the console
    MaxSaves   \* bound: walls sent

NoGenre == "none"
GridAssumption ==
    /\ DOMAIN GenreOf = Titles /\ Owned \cup Refused \subseteq Titles
    /\ Eras = 1 .. Cardinality(Eras) /\ Size \in Nat \ {0}
    /\ Famous \in [1 .. MaxPage -> [BOOLEAN \X Eras -> SeqOf(Titles, Cardinality(Titles))]]

VARIABLES
    telling,   \* whether the household's language or country says anything
    history,   \* watch_history of the grid: [Titles -> {"none", "seen", "no"}]
    page,      \* the page shown
    fetch,     \* the request for the wall: idle, asked, or discovering what is not known
    wall,      \* wall.data: the titles, and the slices they were taken from
    ticked,    \* the titles ticked
    sending,   \* the submission in flight: the titles sent, and those sent as seen
    saves      \* how many submissions were sent

vars == <<telling, history, page, fetch, wall, ticked, sending, saves>>

Idle == [step |-> "idle"]
Asked == [step |-> "asked"]
NoWall == [titles |-> <<>>, slices |-> <<>>]

-----------------------------------------------------------------------------
(* A wall.                                                                  *)

\* The slices in the order they are asked for: every decade everywhere, then here.
Slices == [i \in 1 .. 2 * Cardinality(Eras) |->
             <<i > Cardinality(Eras), ((i - 1) % Cardinality(Eras)) + 1>>]

\* A local slice that says nothing of the household asks what was already answered.
Query(slice) == IF telling THEN slice ELSE <<FALSE, slice[2]>>

\* What TMDb answers a slice with: nothing where it fails.
Answer(shown, failed, slice) ==
    IF Query(slice) \in failed THEN <<>> ELSE Famous[shown][Query(slice)]

\* _Keeper: neither known, nor on an earlier slice, nor refused.
Askable(found, known) ==
    FoldLeft(LAMBDA kept, titles :
                 Append(kept, SelectSeq(titles, LAMBDA t :
                     t \notin known \cup Refused /\ \A i \in DOMAIN kept : ~Contains(kept[i], t))),
             <<>>, found)

CountOf(titles, genre) == Cardinality({i \in DOMAIN titles : GenreOf[titles[i]] = genre})
\* _MAX_GENRE_SHARE of the wall.
Cap == IF Size \div 3 > 1 THEN Size \div 3 ELSE 1

\* _take: the first of the queue whose genre is not yet at its share, or the first.
Taken(queue, titles) ==
    LET welcome == {i \in DOMAIN queue : \/ GenreOf[queue[i]] = NoGenre
                                         \/ CountOf(titles, GenreOf[queue[i]]) < Cap}
    IN  IF welcome = {} THEN 1 ELSE CHOOSE i \in welcome : \A j \in welcome : i <= j

Concatenated(queues) == SubSeq(FlattenSeq(queues), 1, Size)  \* mutant: one slice after another
\* _interleave: a poster from each slice in turn, until the wall is full or all are empty.
Interleaved(queues) ==
    LET turns == [k \in 1 .. Len(queues) * Cardinality(Titles) |-> ((k - 1) % Len(queues)) + 1]
        Turn(made, i) ==
            LET queue == made.queues[i]
                at == Taken(queue, made.titles)
            IN  IF Len(made.titles) >= Size \/ queue = <<>> THEN made
                ELSE [titles |-> Append(made.titles, queue[at]),
                      queues |-> [made.queues EXCEPT ![i] = RemoveAt(queue, at)]]
        wanted == FoldLeft(Turn, [titles |-> <<>>, queues |-> queues], turns).titles
    IN  SubSeq(wanted, 1, IF Len(wanted) < Size THEN Len(wanted) ELSE Size)

\* CalibrationGrid.build.
Wall(shown, known, failed) ==
    LET kept == Askable([i \in DOMAIN Slices |-> Answer(shown, failed, Slices[i])], known)
    IN  [titles |-> Interleaved(kept), slices |-> kept]

-----------------------------------------------------------------------------
(* The server.                                                              *)

\* answered_refs: every title answered about, either way.
Answered == {t \in Titles : history[t] # "none"}

\* GridService.build: what is known is read before TMDb is called.
Read ==
    /\ fetch = Asked
    /\ fetch' = [step |-> "discovering", known |-> Answered]
    /\ UNCHANGED <<telling, history, page, wall, ticked, sending, saves>>

\* TMDb answers, refuses some slices, and the console shows the wall.
Show ==
    /\ fetch.step = "discovering"
    /\ \E failed \in {{}} \cup {{<<local, era>>} : local \in BOOLEAN, era \in Eras} :
        wall' = Wall(page, fetch.known, failed)
    /\ fetch' = Idle
    /\ UNCHANGED <<telling, history, page, ticked, sending, saves>>

FetchFails ==
    /\ fetch # Idle
    /\ fetch' = Idle
    /\ UNCHANGED <<telling, history, page, wall, ticked, sending, saves>>

\* grid_history and record: the answers replace the grid's earlier ones.
Recorded(sent) ==
    [t \in Titles |-> IF t \notin sent.titles THEN history[t]
                      ELSE IF t \in sent.seen THEN "seen" ELSE "no"]

-----------------------------------------------------------------------------
(* The page.                                                                *)

PageAfter(shown) == IF shown < MaxPage THEN shown + 1 ELSE MaxPage

\* The connection returns, or the page is opened again.
Refetch ==
    /\ fetch = Idle /\ fetch' = Asked
    /\ UNCHANGED <<telling, history, page, wall, ticked, sending, saves>>

Toggle(t) ==
    /\ Contains(wall.titles, t)
    /\ ticked' = IF t \in ticked THEN ticked \ {t} ELSE ticked \cup {t}
    /\ UNCHANGED <<telling, history, page, fetch, wall, sending, saves>>

Submit ==
    /\ sending = Idle /\ wall.titles # <<>> /\ saves < MaxSaves
    /\ sending' = [step |-> "sent", titles |-> ToSet(wall.titles),
                   seen |-> ticked \cap ToSet(wall.titles)]
    /\ saves' = saves + 1
    /\ UNCHANGED <<telling, history, page, fetch, wall, ticked>>

\* Shows another page: nothing of the last one is kept, unless it is the same.
Turns ==
    /\ page' = PageAfter(page) /\ fetch' = Asked /\ ticked' = {}
    /\ wall' = IF page' = page THEN wall ELSE NoWall

\* Recorded, and the answer reaches the console.
Saved ==
    /\ sending # Idle
    /\ history' = Recorded(sending) /\ sending' = Idle
    /\ Turns
    /\ UNCHANGED <<telling, saves>>

\* The request, or its answer, is lost.
SaveFails ==
    /\ sending # Idle
    /\ history' \in {history, Recorded(sending)} /\ sending' = Idle
    /\ UNCHANGED <<telling, page, fetch, wall, ticked, saves>>

More ==
    /\ sending = Idle /\ page < MaxPage /\ wall.titles # <<>>
    /\ Turns
    /\ UNCHANGED <<telling, history, sending, saves>>

Init ==
    /\ telling \in BOOLEAN
    /\ history = [t \in Titles |-> "none"]
    /\ page = 1 /\ fetch = Asked /\ wall = NoWall /\ ticked = {}
    /\ sending = Idle /\ saves = 0

Next ==
    \/ Read \/ Show \/ FetchFails \/ Refetch \/ Submit \/ Saved \/ SaveFails \/ More
    \/ \E t \in Titles : Toggle(t)

Spec == Init /\ [][Next]_vars

-----------------------------------------------------------------------------
TypeOK ==
    /\ telling \in BOOLEAN /\ history \in [Titles -> {"none", "seen", "no"}]
    /\ ticked \subseteq Titles
    /\ page \in 1 .. MaxPage /\ saves \in 0 .. MaxSaves

TakenFrom(slice) == Cardinality(ToSet(slice) \cap ToSet(wall.titles))

\* A wall answered a few posters deep has asked about every decade it could: whatever
\* TMDb answered or refused, and whatever is known, no slice gives two posters more
\* than another that has one left; and no poster is on it twice.
WallsAskWidely ==
    /\ IsInjective(wall.titles)
    /\ \A i, j \in DOMAIN wall.slices :
        \/ TakenFrom(wall.slices[i]) <= TakenFrom(wall.slices[j]) + 1
        \/ TakenFrom(wall.slices[j]) = Len(wall.slices[j])

\* A wall never asks about a title that is owned or voted on, as calibration.py says.
\* Refuted: only what is in watch_history is known, where neither
\* the library nor a vote on a card writes anything.
KnownIsNotAsked == ToSet(wall.titles) \cap Owned = {}
=============================================================================

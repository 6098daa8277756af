------------------------------- MODULE MCVotes -------------------------------
(***************************************************************************)
(* Small instances of what a user tells the server, and what the server      *)
(* makes of it: swipes (Votes), the debounce over them (Taste), uploads of   *)
(* viewing histories (Imports) and telling which titles they name            *)
(* (Resolving).  The four share no state here, so a behaviour is one's alone.*)
(***************************************************************************)
EXTENDS Votes, TLC

CONSTANTS
    t1, k1, k2, i1, i2,
    Seen, RewriteIds, Callers, Refresh, MinVotes, None, MaxEarned, MaxCut,  \* of Taste
    Users, Films, Uploads, MaxConcurrent,                                   \* of Imports
    MaxRows, MaxItems, Inflated, MaxMembers, MaxFailed,
    Confident, PerTitle, MaxFailures                                        \* of Resolving

VARIABLES
    part,
    opinions, base, slot, tasks, callers, earned, calls, cut,               \* of Taste
    imports, reviews, history, starting, parsing, running, decisions,       \* of Imports
    upload, file, dropped, row, step, found, searches, budget, failures, missed, settled, phase  \* of Resolving

\* Two cards of one title.
MCTitleOf == [c \in Cards |-> t1]

-----------------------------------------------------------------------------
(* The instance of Resolving.  TMDb has two films of one name, told apart by  *)
(* their year, and a series that its own search knows without its subtitle.  *)

MCSpellings ==
    ("dune" :> <<"dune">>) @@ ("Dune" :> <<"Dune">>) @@ ("villains" :> <<"villains">>)
    @@ ("witcher : sirens" :> <<"witcher : sirens", "witcher">>)
MCNormal == [n \in DOMAIN MCSpellings |-> IF n = "Dune" THEN "dune" ELSE n]
Line(name, year, id, type, rated, tail, mark, extra) ==
    [name |-> name, year |-> year, id |-> id, type |-> type, rated |-> rated,
     part |-> tail, mark |-> mark, extra |-> extra]
Film(name, year, rated) == Line(name, year, "no id", "blank", rated, "blank", "none", FALSE)
Played(name, tail, mark, extra) == Line(name, 0, "no id", "blank", FALSE, tail, mark, extra)
Rated(id, type) == Line("dune", 0, id, type, TRUE, "blank", "none", FALSE)
Csv(columns, lines) == [columns |-> columns, lines |-> lines]
UpTo(lines, n) == UNION {[1 .. k -> lines] : k \in 1 .. n}

Diary(lines) == Csv({"letterboxd uri", "name", "year", "date"}, lines)
Netflix(lines) == Csv({"title", "date"}, lines)
Imdb(lines) == Csv({"const", "your rating", "title", "title type", "year"}, lines)
Watched == {Film("dune", 1984, FALSE), Film("dune", 2021, FALSE), Film("dune", 2021, TRUE),
            Film("Dune", 1984, TRUE), Film("blank", 0, FALSE)}
MCTables ==
    {Diary(lines) : lines \in UpTo(Watched, 3)}
    \cup {Netflix(lines) : lines \in UpTo(
            {Played("witcher : sirens", "blank", "none", FALSE), Played("dune", "blank", "none", FALSE),
             Played("dune", "one", "none", FALSE), Played("dune", "two", "trailer", FALSE),
             Played("witcher : sirens", "one", "season", FALSE)}, 3)}
    \cup {Imdb(lines) : lines \in UpTo(
            {Rated("tt1", "movie"), Rated("tt2", "tvseries"), Rated("tt1", "game"), Rated("no id", "movie")}, 2)}
    \cup {Csv({"title"}, <<>>), Diary(<<>>),
          Netflix([n \in 1 .. 4 |->
              Played(IF n = 4 THEN "villains" ELSE "dune", "blank", "none", FALSE)])}
Member(name, size, csv) ==
    [name |-> name, table |-> name # "notes.txt", declared |-> IF size = 0 THEN 9 ELSE 1,
     size |-> size, csv |-> csv]
Lone(csv) == [zip |-> FALSE, members |-> <<Member("other.csv", 1, csv)>>]
Zip(members) == [zip |-> TRUE, members |-> members]
Notes == Member("notes.txt", 1, Csv({}, <<>>))
MCUploads ==
    {Lone(csv) : csv \in MCTables}
    \cup {Zip(<<Notes, Member("ratings.csv", size, Diary(rated)), Member("watched.csv", 1, Diary(watched))>>) :
            size \in {1, 3}, rated \in UpTo(Watched, 2), watched \in UpTo(Watched, 1)}
    \cup {Zip(<<Member("other.csv", size, Csv({}, <<>>)), Member("diary.csv", 1, csv),
                Member("ratings.csv", 1, Diary(<<Film("villains", 0, TRUE)>>))>>) :
            size \in {0, 1, 3}, csv \in {Diary(<<>>), Diary(<<Film("dune", 1984, FALSE), Film("dune", 2021, FALSE)>>)}}
    \cup {Zip(<<Member("other.csv", size, Csv({}, <<>>)), Member("more.csv", 1, csv)>>) :
            size \in {1, 2, 3}, csv \in {Imdb(<<Rated("tt1", "movie")>>), Csv({}, <<>>)}}
    \cup {Zip(<<Notes, Notes, Notes, Notes>>)}

MCOffered ==
    (<<"movie", "dune", 1984>> :> {"lynch", "dunes"})
    @@ (<<"movie", "dune", 2021>> :> {"villeneuve", "lynch"})
    @@ (<<"tv", "dune", 1984>> :> {"series"})
    @@ (<<"movie", "dune", 0>> :> {"dunes"}) @@ (<<"tv", "dune", 0>> :> {"series"})
    @@ (<<"tv", "witcher", 0>> :> {"witcher"})
    @@ (<<"movie", "witcher : sirens", 0>> :> {"nightmare"})
MCCatalogue ==
    [k \in {"movie", "tv"} \X ((DOMAIN MCSpellings) \cup {"witcher"}) \X {0, 1984, 2021} |->
        LET asked == <<k[1], IF k[2] = "Dune" THEN "dune" ELSE k[2], k[3]>>
        IN  IF asked \in DOMAIN MCOffered THEN MCOffered[asked] ELSE {}]
MCTitles == {"lynch", "villeneuve", "dunes", "series", "witcher", "nightmare"}
MCAlike ==
    [k \in (DOMAIN MCSpellings) \X MCTitles |->
        CASE MCNormal[k[1]] = "dune" /\ k[2] \in {"lynch", "villeneuve"} -> 100
          [] MCNormal[k[1]] = "dune" /\ k[2] = "dunes" -> 88
          [] k = <<"witcher : sirens", "witcher">> -> 60
          [] k = <<"witcher : sirens", "nightmare">> -> 50
          [] OTHER -> 10]
MCFame == [t \in MCTitles |-> CASE t = "villeneuve" -> 9 [] t = "lynch" -> 5 [] OTHER -> 3]
MCById == ("tt1" :> "lynch") @@ ("tt2" :> "none")

-----------------------------------------------------------------------------
T == INSTANCE Taste WITH Titles <- Seen
I == INSTANCE Imports WITH tasks <- running, answers <- decisions
R == INSTANCE Resolving WITH
        at <- row, cut <- missed, Uploads <- MCUploads, Normal <- MCNormal,
        Spellings <- MCSpellings, Catalogue <- MCCatalogue, Alike <- MCAlike, Fame <- MCFame, ById <- MCById

ASSUME TasteAssumption == T!TasteAssumption
ASSUME ImportsAssumption == I!ImportsAssumption

ofTaste == <<opinions, base, slot, tasks, callers, earned, calls, cut>>
ofImports == <<imports, reviews, history, starting, parsing, running, decisions>>
ofResolving == <<upload, file, dropped, row, step, found, searches, budget, failures, missed, settled, phase>>
MCVars == <<part, vars, ofTaste, ofImports, ofResolving>>

MCInit ==
    /\ part \in {"votes", "taste", "imports", "names"}
    /\ Init /\ T!Init /\ I!Init
    /\ \/ part = "names" /\ R!Init
       \/ /\ part # "names"
          /\ upload = {} /\ file = <<>> /\ dropped = R!Nothing /\ row = 1 /\ step = 1 /\ found = {}
          /\ searches = Empty /\ budget = 0 /\ failures = 0 /\ missed = FALSE /\ settled = <<>>
          /\ phase = "reading"

MCNext ==
    \/ part = "votes" /\ UNCHANGED <<part, ofTaste, ofImports, ofResolving>> /\ Next
    \/ part = "taste" /\ UNCHANGED <<part, vars, ofImports, ofResolving>> /\ T!Next
    \/ part = "imports" /\ UNCHANGED <<part, vars, ofTaste, ofResolving>> /\ I!Next
    \/ part = "names" /\ UNCHANGED <<part, vars, ofTaste, ofImports>> /\ R!Next

MCSpec == MCInit /\ [][MCNext]_MCVars

Symmetry == Permutations(Cards) \cup Permutations(Items)

\* Taste!RewritesAreEarned, Imports!ImportsAreCapped, FileRowsHaveAnImport,
\* of Resolving ReadingsAreWhole and RowsStandAlone.
RewritesAreEarned == T!RewritesAreEarned
ImportsAreCapped == I!ImportsAreCapped
FileRowsHaveAnImport == I!FileRowsHaveAnImport
UploadsAreUnderstood == part = "names" => R!ReadingsAreWhole /\ R!RowsStandAlone
\* What arrives twice is stored once: Votes' AppliedOnce and Imports!AnsweredOnce.
StoredOnce == AppliedOnce /\ I!AnsweredOnce
=============================================================================

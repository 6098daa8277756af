------------------------------ MODULE Resolving ------------------------------
(***************************************************************************)
(* From an upload to the titles it names.  What a file holds is read in     *)
(* one go (swipe/imports/files.py and netflix.py): the format its header     *)
(* tells, an item for each title, what was dropped by reason, and an         *)
(* archive's members merged.  Then each item is told which title it is       *)
(* (swipe/imports/resolve.py and the loop of run.py): an exact id is looked  *)
(* up, a name is searched for under each media type and spelling until an    *)
(* answer is close enough, with a cache, a budget of searches and a count    *)
(* of TMDb's refusals in a row.  TMDb may refuse any request.                *)
(***************************************************************************)
EXTENDS Naturals, Sequences, SequencesExt, FiniteSets, FiniteSetsExt, Tables

CONSTANTS
    Uploads,      \* [zip, members]: an archive, or a file that is its one member
    MaxRows,      \* MAX_ROWS
    MaxItems,     \* MAX_TITLES
    Inflated,     \* MAX_UNPACKED_BYTES
    MaxMembers,   \* _MAX_ZIP_MEMBERS
    MaxFailed,    \* _MAX_FAILED_MEMBERS
    Normal,       \* [names -> names]: normalized, what two spellings have in common
    Spellings,    \* [queries -> sequences of spellings]: _spellings
    Catalogue,    \* [<<kind, spelling, year>> -> sets of titles]: what TMDb offers
    ById,         \* [ids -> titles or NoTitle]
    Alike,        \* [<<query, title>> -> Nat]: similarity, in hundredths
    Fame,         \* [titles -> Nat]: popularity, which no two share
    Confident,    \* CONFIDENT_SIMILARITY, in hundredths
    PerTitle,     \* SEARCHES_PER_TITLE
    MaxFailures   \* _MAX_CONSECUTIVE_FAILURES

VARIABLES
    upload,    \* the file
    file,      \* the items being identified
    dropped,   \* what was not kept of it, by reason
    at,        \* the row being identified
    step,      \* its next search
    found,     \* what its searches brought back
    searches,  \* the resolver's cache
    budget,    \* searches left
    failures,  \* TMDb's refusals in a row
    cut,       \* a search of this row was refused, or out of budget
    settled,   \* what became of the rows before: a title, or the ones offered
    phase

vars == <<upload, file, dropped, at, step, found, searches, budget, failures, cut, settled, phase>>

NoTitle == "none"
NoId == "no id"
Blank == "blank"  \* a cell that is empty

-----------------------------------------------------------------------------
(* Reading one CSV: [columns, lines], a line being a                         *)
(* [name, year, id, type, rated, part, mark, extra].                         *)

\* An item: what one title's lines say of it.
Item(query, hint, year, id, episodes, rated) ==
    [query |-> query, hint |-> hint, year |-> year, id |-> id, episodes |-> episodes, rated |-> rated]
Reasons == {"empty", "supplemental", "no_id", "not_a_title", "rows_over_limit", "over_limit"}
Nothing == [r \in Reasons |-> 0]
Unreadable == [format |-> "none", items |-> <<>>, skipped |-> Nothing]

\* _reader_for.
Format(columns) ==
    IF {"const", "your rating"} \subseteq columns THEN "imdb"
    ELSE IF {"letterboxd uri", "name"} \subseteq columns THEN "letterboxd"
    ELSE IF "title" \in columns
            /\ columns \cap {"date", "start time", "profile name", "supplemental video type"} # {}
    THEN "netflix" ELSE "none"

\* _capped: the first MaxItems, and how many there were beyond.
Capped(format, items, skipped) ==
    IF items = <<>> THEN Unreadable
    ELSE [format |-> format, items |-> SubSeq(items, 1, Min({Len(items), MaxItems})),
          skipped |-> IF Len(items) > MaxItems
                      THEN [skipped EXCEPT !["over_limit"] = Len(items) - MaxItems] ELSE skipped]

HowMany(lines, Test(_)) == Len(SelectSeq(lines, Test))
ItemsOf(lines, Make(_)) == [n \in DOMAIN lines |-> Make(lines[n])]

\* _read_imdb: an exact id on every row, of a title or of something else.
ImdbItem(l) ==
    Item(l.name, IF l.type = "movie" THEN "movie" ELSE "tv", l.year, l.id,
         IF l.type = "tvepisode" THEN 1 ELSE 0, l.rated)
ReadImdb(lines) ==
    LET Nameless(l) == l.id = NoId
        Other(l) == l.id # NoId /\ l.type \notin {"movie", "tvseries", "tvepisode"}
        Kept(l) == ~Nameless(l) /\ ~Other(l)
    IN  Capped("imdb", ItemsOf(SelectSeq(lines, Kept), ImdbItem),
               [Nothing EXCEPT !["no_id"] = HowMany(lines, Nameless),
                               !["not_a_title"] = HowMany(lines, Other)])

\* _read_letterboxd: films only.
LetterboxdItem(l) == Item(l.name, "movie", l.year, NoId, 0, l.rated)
ReadLetterboxd(lines) ==
    LET Bare(l) == l.name = Blank
        Kept(l) == l.name # Blank
    IN  Capped("letterboxd", ItemsOf(SelectSeq(lines, Kept), LetterboxdItem),
               [Nothing EXCEPT !["empty"] = HowMany(lines, Bare)])

\* _parse: what follows the title marks a season or an episode, goes deep, or may
\* be part of a film's name.  is_supplemental: the column, or the words of the part.
Certain(l) == l.part # Blank /\ l.mark \in {"season", "episode", "deep"}
Supplemental(l) == l.extra \/ (l.part # Blank /\ l.mark = "trailer")

\* netflix_items: one for each title in the order they come up, a series if a row
\* says so or if two parts of it were seen.
NetflixItem(lines, name) ==
    LET of == {l \in ToSet(lines) : l.name = name}
        parts == {l.part : l \in of} \ {Blank}
        series == (\E l \in of : Certain(l)) \/ Cardinality(parts) >= 2
    IN  Item(name, IF series THEN "tv" ELSE "none", 0, NoId,
             IF series THEN Cardinality(parts) ELSE 0, FALSE)
AppendNew(names, name) == IF name \in ToSet(names) THEN names ELSE Append(names, name)
ReadNetflix(lines) ==
    LET Bare(l) == l.name = Blank
        Extra(l) == l.name # Blank /\ Supplemental(l)
        Kept(l) == l.name # Blank /\ ~Supplemental(l)
        seen == SelectSeq(lines, Kept)
        Its(name) == NetflixItem(seen, name)
    IN  Capped("netflix",
               ItemsOf(FoldLeft(AppendNew, <<>>, [n \in DOMAIN seen |-> seen[n].name]), Its),
               [Nothing EXCEPT !["empty"] = HowMany(lines, Bare),
                               !["supplemental"] = HowMany(lines, Extra)])

\* _rows and _with_truncation: the first MaxRows, and how many there were beyond.
Rows(csv) == SubSeq(csv.lines, 1, Min({Len(csv.lines), MaxRows}))
Truncated(parsed, csv) ==
    IF parsed = Unreadable \/ Len(csv.lines) <= MaxRows THEN parsed
    ELSE [parsed EXCEPT !.skipped["rows_over_limit"] = Len(csv.lines) - MaxRows]
\* _parse_csv_bytes.
ReadCsv(csv) ==
    LET format == Format(csv.columns)
    IN  Truncated(CASE format = "imdb" -> ReadImdb(Rows(csv))
                    [] format = "letterboxd" -> ReadLetterboxd(Rows(csv))
                    [] format = "netflix" -> ReadNetflix(Rows(csv))
                    [] OTHER -> Unreadable, csv)

-----------------------------------------------------------------------------
(* Reading an archive: its members are [name, table, declared, size, csv], and *)
(* what was inflated of them, not what they declare, counts against one budget. *)

\* LETTERBOXD_MEMBERS, the one that carries an opinion last.
LetterboxdMembers == <<"watched.csv", "diary.csv", "ratings.csv">>

SameTitle(a, b) == Normal[a.query] = Normal[b.query] /\ a.year = b.year
MergeFirst(items, item) ==  \* mutant: the first source of a title is kept
    IF \E n \in DOMAIN items : SameTitle(items[n], item) THEN items ELSE Append(items, item)
\* A later source of a title takes the place of an earlier one.
MergeItem(items, item) ==
    IF \E n \in DOMAIN items : SameTitle(items[n], item)
    THEN [n \in DOMAIN items |-> IF SameTitle(items[n], item) THEN item ELSE items[n]]
    ELSE Append(items, item)

\* A reading has room for that many bytes less one, or burst when it has none left;
\* and what the members read so far hold.
MergeMember(read, member) ==
    LET parsed == ReadCsv(member.csv) IN
    IF member.size >= read.room THEN [read EXCEPT !.room = 0]
    ELSE IF parsed.format # "letterboxd" THEN [read EXCEPT !.room = @ - member.size]
    ELSE [read EXCEPT !.room = @ - member.size, !.any = TRUE,
                      !.items = FoldLeft(MergeItem, @, parsed.items),
                      !.skipped = [r \in Reasons |-> @[r] + parsed.skipped[r]]]
Named(members, name) ==
    LET Test(m) == m.name = name
        those == SelectSeq(members, Test)
    IN  SubSeq(those, 1, Min({Len(those), 1}))
Sources(members) ==
    Named(members, LetterboxdMembers[1]) \o Named(members, LetterboxdMembers[2])
    \o Named(members, LetterboxdMembers[3])
\* _letterboxd: a member that cannot be read does not cost the archive.
Letterboxd(members) ==
    FoldLeft(MergeMember, [room |-> Inflated + 1, any |-> FALSE, items |-> <<>>, skipped |-> Nothing],
             Sources(members))

\* _first_readable: until one can be read, the budget is spent or enough could not.
TryMember(read, member) ==
    IF ~member.table \/ read.found # Unreadable \/ read.failed = MaxFailed THEN read
    ELSE IF member.size >= read.room THEN [read EXCEPT !.room = 0, !.failed = @ + 1]
    ELSE LET parsed == ReadCsv(member.csv) IN
         [read EXCEPT !.room = @ - member.size, !.found = parsed,
                      !.failed = IF parsed = Unreadable THEN @ + 1 ELSE @]
FirstReadable(members, room) ==
    FoldLeft(TryMember, [room |-> room, failed |-> 0, found |-> Unreadable], members).found

\* _parse_zip.
Declared(members) == FoldLeft(LAMBDA sum, m : sum + m.declared, 0, members)
ReadArchive(members) ==
    LET read == Letterboxd(members) IN
    IF Len(members) > MaxMembers \/ Declared(members) > Inflated \/ read.room = 0 THEN Unreadable
    ELSE IF read.any THEN Capped("letterboxd", read.items, read.skipped)
    ELSE FirstReadable(members, read.room)
\* detect_and_parse.
Read(u) == IF u.zip THEN ReadArchive(u.members) ELSE ReadCsv(u.members[1].csv)

-----------------------------------------------------------------------------
(* Telling which title an item is.                                           *)

Kinds(hint) == IF hint = "tv" THEN <<"tv", "movie">> ELSE <<"movie", "tv">>

\* The searches of a row, in order: each media type, each spelling.
Plan(row) ==
    LET forms == Spellings[row.query]
    IN  [n \in 1 .. 2 * Len(forms) |->
            <<Kinds(row.hint)[((n - 1) \div Len(forms)) + 1], forms[((n - 1) % Len(forms)) + 1]>>]

Sure(row, t) == Alike[<<row.query, t>>] >= Confident
IsSettled(row, titles) == \E t \in titles : Sure(row, t)

\* rank: confident first, then similarity, then fame.
Better(row, t, s) ==
    \/ Alike[<<row.query, t>>] > Alike[<<row.query, s>>]
    \/ Alike[<<row.query, t>>] = Alike[<<row.query, s>>] /\ Fame[t] > Fame[s]
Best(row, titles) == CHOOSE t \in titles : \A s \in titles \ {t} : Better(row, t, s)

\* What a resolution says: a title that is written down, or a question.
Written(t) == [title |-> t, offered |-> {}]
Asked(titles) == [title |-> NoTitle, offered |-> titles]
Resolution(row, titles) ==
    IF IsSettled(row, titles) THEN Written(Best(row, titles)) ELSE Asked(titles)

-----------------------------------------------------------------------------
Init ==
    /\ upload \in Uploads
    /\ file = <<>> /\ dropped = Nothing
    /\ at = 1 /\ step = 1
    /\ found = {} /\ searches = Empty
    /\ budget = 0
    /\ failures = 0 /\ cut = FALSE
    /\ settled = <<>> /\ phase = "reading"

\* ImportService.start's reading: a refusal, or what is then told apart.
Open ==
    /\ phase = "reading"
    /\ LET parsed == Read(upload) IN
       /\ file' = parsed.items /\ dropped' = parsed.skipped
       /\ budget' = PerTitle * Len(parsed.items)
       /\ phase' = IF parsed = Unreadable THEN "refused" ELSE "resolving"
    /\ UNCHANGED <<upload, at, step, found, searches, failures, cut, settled>>

Row == file[at]
Resolves == phase = "resolving" /\ at <= Len(file)

\* The row is what its searches say, and the next one begins.
Settles(outcome) ==
    /\ settled' = Append(settled, [outcome |-> outcome, cut |-> cut])
    /\ at' = at + 1 /\ step' = 1 /\ found' = {} /\ cut' = FALSE
    /\ UNCHANGED <<upload, file, dropped, searches, budget, phase>>

\* _fail: one refusal more, and the run is given up at the last.
Refused ==
    /\ failures' = failures + 1
    /\ phase' = IF failures + 1 >= MaxFailures THEN "down" ELSE phase

\* _by_id.
Identify ==
    /\ Resolves /\ Row.id # NoId
    /\ failures' = 0
    /\ Settles(IF ById[Row.id] = NoTitle THEN Asked({}) ELSE Written(ById[Row.id]))
IdRefused ==
    /\ Resolves /\ Row.id # NoId
    /\ Refused
    /\ IF phase' = "down"
       THEN UNCHANGED <<settled, at>>
       ELSE /\ settled' = Append(settled, [outcome |-> Asked({}), cut |-> TRUE])
            /\ at' = at + 1
    /\ UNCHANGED <<upload, file, dropped, step, found, searches, budget, cut>>

Searches == Resolves /\ Row.id = NoId /\ step <= Len(Plan(Row)) /\ ~IsSettled(Row, found)
Key == Plan(Row)[step]

\* _search: from the cache; or past the budget, nothing.
Recall ==
    /\ Searches /\ Key \in DOMAIN searches
    /\ found' = found \cup searches[Key]
    /\ step' = step + 1
    /\ UNCHANGED <<upload, file, dropped, at, searches, budget, failures, cut, settled, phase>>
Skip ==
    /\ Searches /\ Key \notin DOMAIN searches /\ budget = 0
    /\ step' = step + 1 /\ cut' = TRUE
    /\ UNCHANGED <<upload, file, dropped, at, found, searches, budget, failures, settled, phase>>
Search ==
    /\ Searches /\ Key \notin DOMAIN searches /\ budget > 0
    /\ LET titles == Catalogue[<<Key[1], Key[2], Row.year>>]
       IN  found' = found \cup titles /\ searches' = Put(searches, Key, titles)
    /\ budget' = budget - 1 /\ failures' = 0 /\ step' = step + 1
    /\ UNCHANGED <<upload, file, dropped, at, cut, settled, phase>>
RememberRefusal ==  \* mutant: a refused search is cached as an empty one
    /\ Searches /\ Key \notin DOMAIN searches /\ budget > 0
    /\ Refused
    /\ searches' = Put(searches, Key, {})
    /\ budget' = budget - 1 /\ step' = step + 1 /\ cut' = TRUE
    /\ UNCHANGED <<upload, file, dropped, at, found, settled>>
SearchRefused ==
    /\ Searches /\ Key \notin DOMAIN searches /\ budget > 0
    /\ Refused
    /\ budget' = budget - 1 /\ step' = step + 1 /\ cut' = TRUE
    /\ UNCHANGED <<upload, file, dropped, at, found, searches, settled>>

\* _by_search's end: an answer close enough, or nothing left to ask.
Settle ==
    /\ Resolves /\ Row.id = NoId /\ ~Searches
    /\ Settles(Resolution(Row, found))
    /\ UNCHANGED failures

Finish ==
    /\ phase = "resolving" /\ at > Len(file)
    /\ phase' = "done"
    /\ UNCHANGED <<upload, file, dropped, at, step, found, searches, budget, failures, cut, settled>>

Next ==
    \/ Open
    \/ Identify \/ IdRefused
    \/ Recall \/ Skip \/ Search \/ SearchRefused
    \/ Settle \/ Finish

Spec == Init /\ [][Next]_vars

-----------------------------------------------------------------------------
(* What must hold.                                                          *)

\* What a row by itself is, with TMDb answering: the titles of its searches up
\* to the first that settles it.
Offers(row, n) ==
    UNION {Catalogue[<<Plan(row)[m][1], Plan(row)[m][2], row.year>>] : m \in 1 .. n}
Alone(row) ==
    IF row.id # NoId
    THEN IF ById[row.id] = NoTitle THEN Asked({}) ELSE Written(ById[row.id])
    ELSE LET all == Len(Plan(row))
             enough == {n \in 1 .. all : IsSettled(row, Offers(row, n))}
         IN  Resolution(row, Offers(row, IF enough = {} THEN all ELSE Min(enough)))

\* The lines that make an item, the tables they are in, and an archive's ratings.
Is(l, format) ==
    CASE format = "imdb" -> l.id # NoId /\ l.type \in {"movie", "tvseries", "tvepisode"}
      [] format = "netflix" -> l.name # Blank /\ ~Supplemental(l)
      [] OTHER -> l.name # Blank
Used(u) ==
    LET FromLetterboxd(m) == ReadCsv(m.csv).format = "letterboxd"
        sources == SelectSeq(Sources(u.members), FromLetterboxd)
    IN  IF u.zip /\ sources # <<>> THEN [n \in DOMAIN sources |-> sources[n].csv]
        ELSE IF u.zip THEN <<>> ELSE <<u.members[1].csv>>
Opinions(u) ==
    {m.csv : m \in {x \in ToSet(Sources(u.members)) :
                       x.name = "ratings.csv" /\ ReadCsv(x.csv).format = "letterboxd"}}
NamedIn(csv, item) ==
    {n \in DOMAIN Rows(csv) :
        csv.lines[n].name # Blank /\ SameTitle(LetterboxdItem(csv.lines[n]), item)}

\* A file that does not say it was cut has an item for every title in it, and what
\* an archive says of a film somebody rated is what the ratings say last; archives
\* and Netflix name a title once ("a cut file never looks like a whole one", "merged,
\* best source last so it wins": swipe/imports/files.py).
ReadingsAreWhole ==
    LET parsed == Read(upload)
        used == Used(upload)
        items == ToSet(file)
    IN  phase \notin {"reading", "refused"} =>
        /\ dropped["rows_over_limit"] + dropped["over_limit"] = 0 =>
             /\ \A n \in DOMAIN used : \A l \in ToSet(used[n].lines) :
                  Is(l, parsed.format) =>
                    \E i \in items : IF parsed.format = "netflix" THEN i.query = l.name
                                    ELSE SameTitle(i, LetterboxdItem(l))
             /\ upload.zip =>
                  \A i \in items, csv \in Opinions(upload) :
                    NamedIn(csv, i) # {} => i = LetterboxdItem(csv.lines[Max(NamedIn(csv, i))])
        /\ \A m, n \in DOMAIN file :
             m # n => /\ upload.zip /\ used # <<>> => ~SameTitle(file[m], file[n])
                      /\ parsed.format = "netflix" => file[m].query # file[n].query

SpellingsOf(row) == {Spellings[row.query][n] : n \in DOMAIN Spellings[row.query]}
NamesOneYear ==
    \A m, n \in DOMAIN file :
        SpellingsOf(file[m]) \cap SpellingsOf(file[n]) # {} => file[m].year = file[n].year

\* The rows beside it, the cache they filled and the refusals they met do not
\* change what a row is taken for, in a file that names each title with one
\* year: only a refusal or the end of the budget does (TitleResolver).
RowsStandAlone ==
    NamesOneYear =>
        \A n \in DOMAIN settled : settled[n].cut \/ settled[n].outcome = Alone(file[n])

\* "Caching what it already asked" (TitleResolver): what it did not ask, the
\* same name in another year, is not answered from the cache.
CacheAnswersWhatWasAsked ==
    \A n \in DOMAIN settled : settled[n].cut \/ settled[n].outcome = Alone(file[n])
=============================================================================

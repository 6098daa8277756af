------------------------------ MODULE Watching ------------------------------
(***************************************************************************)
(* What one user did with the titles they own: what the media server keeps    *)
(* while they watch, the listings it is read from, in whatever order their     *)
(* rows come (adapters/mediabrowser_library.py, adapters/plex_library.py), the *)
(* state it is told as (ports/media_server.py) and what the imports add        *)
(* (swipe/engine.py engagement): rows of files that turned out to be this      *)
(* title (swipe/imports/run.py), by themselves or because a question was       *)
(* answered (swipe/watched.py accept), one row kept for each format            *)
(* (storage/history.py).                                                      *)
(*                                                                           *)
(* A film is a title whose one part is itself, a series one of its episodes.   *)
(* Days are counted in periods.                                               *)
(***************************************************************************)
EXTENDS Integers, Sequences, FiniteSets, SequencesExt

CONSTANTS
    Films, Series,
    Parts,          \* [Films \cup Series -> what is played of it]
    Recent,         \* RECENT_DAYS
    AbandonedAfter, \* ABANDONED_AFTER_DAYS
    FewEpisodes,    \* ABANDONED_MAX_EPISODES
    Formats,        \* of the files that may be imported
    Sources,        \* of "mediabrowser", "plex owner", "plex guest" and "none", those looked at
    MaxTime,        \* bounds: the clock,
    MaxPlays, MaxImports,  \* [Sources -> Nat]: how often something is played or imported
    None

VARIABLES
    source,    \* what answers: a Jellyfin or Emby, Plex for its owner or for a guest, nothing
    title,     \* the title looked at: they do not touch each other
    now,
    data,      \* [part -> what the server keeps of it]
    plays,
    imports,   \* how many files were imported
    imported,  \* [format -> the row an import left, if any]
    filed,     \* the dates in the lines each row was made of
    asked,     \* a line the last import would not settle, and its format
    history,   \* Plex's log of completed viewings: [part, at]
    rows,      \* the rows of the reading under way not read yet, None without one
    tally,     \* the episodes played and when last
    resume,    \* how far and when last, if it is half-watched
    told       \* the engagement last told of it, if any

watching == <<source, title, now, data, plays, imports, imported, filed, asked, history, rows, tally, resume, told>>
outside == <<source, title, now, data, plays, imports, imported, filed, asked, history>>

Titles == Films \cup Series
AllParts == Parts[title]
IsFilm == title \in Films
Times == 0 .. MaxTime
Dates == Times \cup {None}
States == {"watched", "mostly_watched", "in_progress", "paused", "abandoned"}

\* part: 0, 1 for half of it, 2 for the last tenth.  at: its LastPlayedDate.
Data == [played : BOOLEAN, part : 0 .. 2, opened : BOOLEAN, at : Dates]
Untouched == [played |-> FALSE, part |-> 0, opened |-> FALSE, at |-> None]
\* A row of the listings: of the played episodes, of "continue watching", or of Plex's log.
Row == [list : {"played", "resume", "history"}, part : AllParts, at : Dates]
Tally == [played : SUBSET AllParts, at : Dates]
Resume == [part : 0 .. 2, at : Dates]
\* A line of a file that is this title, and how many episodes of it.
Items == [episodes : 0 .. 1, at : Dates]
Questions == [format : Formats, item : Items]
\* A row of the history; no state says that some of it was seen, and not how much.
Entries == [state : States \cup {None}, episodes : Nat, at : Dates]
\* Of a title only imports know of, the row that says the most.
Told == [from : {"server", "import"}, state : States]

Latest(a, b) == IF a = None THEN b ELSE IF b = None THEN a ELSE IF a < b THEN b ELSE a
DaysSince(at) == IF at = None THEN None ELSE now - at

-----------------------------------------------------------------------------
(* The five states.                                                         *)

FilmEngagement(played, part, days) ==
    IF played \/ part = 2 THEN "watched"
    ELSE IF days = None THEN "paused"
    ELSE IF days <= Recent THEN "in_progress" ELSE "abandoned"

\* An unknown total never reaches a ratio.
SeriesEngagement(played, total, days) ==
    LET barely == played <= FewEpisodes /\ (total = None \/ 2 * played < total) IN
    IF total # None /\ total > 0 /\ 10 * played >= 6 * total
    THEN IF 10 * played >= 9 * total THEN "watched" ELSE "mostly_watched"
    ELSE IF days # None /\ days <= Recent THEN "in_progress"
    ELSE IF days # None /\ days > AbandonedAfter /\ barely THEN "abandoned" ELSE "paused"

-----------------------------------------------------------------------------
\* What an import made before has left, if any.
Earlier ==
    {[f \in Formats |-> None]}
    \cup {[f \in Formats |-> IF f = g THEN [state |-> "watched", episodes |-> 0, at |-> None] ELSE None] :
            g \in Formats}

Init ==
    /\ source \in Sources
    /\ title \in Titles
    /\ now = 0
    /\ data = [p \in AllParts |-> Untouched]
    /\ plays = 0
    /\ imports = 0
    /\ imported \in Earlier
    /\ filed = [f \in Formats |-> {}]
    /\ asked = None
    /\ history = {}
    /\ rows = None
    /\ tally = [played |-> {}, at |-> None]
    /\ resume = [part |-> 0, at |-> None]
    /\ told = None

Tick ==
    /\ now < MaxTime /\ rows = None
    /\ now' = now + 1
    /\ told' = None
    /\ UNCHANGED <<source, title, data, plays, imports, imported, filed, asked, history, rows, tally, resume>>

\* Something is played: to its end, or to a position; or opened by a client that tells
\* no position.  Some tell no date.
Play(p, part) ==
    /\ rows = None /\ plays < MaxPlays[source]
    /\ plays' = plays + 1
    /\ \E at \in {now, data[p].at} :
         data' = [data EXCEPT ![p] =
                    [played |-> @.played \/ part = "end",
                     part |-> CASE part = "end" -> 0 [] part = "half" -> 1 [] part = "credits" -> 2
                                [] OTHER -> @.part,
                     opened |-> TRUE, at |-> at]]
    /\ history' = IF part = "end" THEN history \cup {[part |-> p, at |-> now]} ELSE history
    /\ told' = None
    /\ UNCHANGED <<source, title, now, imports, imported, filed, asked, rows, tally, resume>>

-----------------------------------------------------------------------------
(* An import.                                                               *)

NoLines == [episodes |-> 0, at |-> None]
AbsorbFirst(entry, item) ==  \* mutant: the first line that is dated gives the date
    [episodes |-> entry.episodes + item.episodes,
     at |-> IF entry.at = None THEN item.at ELSE entry.at]
\* _Merged.absorb.
Absorb(entry, item) ==
    [episodes |-> entry.episodes + item.episodes,
     at |-> Latest(entry.at, item.at)]
\* watched_title: a line is evidence enough of a film, not of how much of a series.
Written(lines, total) ==
    [state |-> IF IsFilm THEN FilmEngagement(TRUE, 2, DaysSince(lines.at))
               ELSE IF lines.episodes > 0 THEN SeriesEngagement(lines.episodes, total, DaysSince(lines.at))
               ELSE None,
     episodes |-> IF IsFilm THEN 0 ELSE lines.episodes, at |-> lines.at]
\* record: the row of a format is what was written of it last.  TMDb may not say how
\* many episodes there are.
Records(format, items) ==
    /\ \E total \in {None, Cardinality(AllParts)} :
         imported' = [imported EXCEPT ![format] = Written(FoldLeft(Absorb, NoLines, items), total)]
    /\ filed' = [filed EXCEPT ![format] = {items[n].at : n \in DOMAIN items}]

\* resolve_import: the lines that are told apart make a row; one that is not, a question.
Import(format, items, question) ==
    /\ rows = None /\ imports < MaxImports[source]
    /\ imports' = imports + 1
    /\ IF items = <<>> THEN UNCHANGED <<imported, filed>> ELSE Records(format, items)
    /\ asked' = IF question = None THEN asked ELSE [format |-> format, item |-> question]
    /\ told' = None
    /\ UNCHANGED <<source, title, now, data, plays, history, rows, tally, resume>>

\* ImportService.accept and reject.
Accept ==
    /\ rows = None /\ asked # None
    /\ Records(asked.format, <<asked.item>>)
    /\ asked' = None /\ told' = None
    /\ UNCHANGED <<source, title, now, data, plays, imports, history, rows, tally, resume>>
Reject ==
    /\ rows = None /\ asked # None
    /\ asked' = None
    /\ UNCHANGED <<source, title, now, data, plays, imports, imported, filed, history, rows, tally, resume, told>>

\* delete_import, or delete_source.
Forget(format) ==
    /\ rows = None /\ imported[format] # None
    /\ imported' = [imported EXCEPT ![format] = None]
    /\ filed' = [filed EXCEPT ![format] = {}]
    /\ asked' = IF asked # None /\ asked.format = format THEN None ELSE asked
    /\ told' = None
    /\ UNCHANGED <<source, title, now, data, plays, imports, history, rows, tally, resume>>

\* engagements: of the rows of all formats the one that says the most, if it says how much.
Ranked == <<"paused", "abandoned", "in_progress", "mostly_watched", "watched">>
Rank(entry) == IF entry.state = None THEN 0 ELSE CHOOSE n \in 1 .. 5 : Ranked[n] = entry.state
Says(entry, other) ==
    \/ Rank(entry) > Rank(other)
    \/ Rank(entry) = Rank(other) /\ entry.episodes >= other.episodes
Imported ==
    LET entries == {imported[f] : f \in Formats} \ {None}
    IN  {e \in entries : e.state # None /\ \A other \in entries : Says(e, other)}

-----------------------------------------------------------------------------
(* A reading.                                                               *)

\* The played episodes and the "continue watching" list, which holds an episode for
\* its series; for a Plex guest the log, for its owner the listing itself.
Listed ==
    IF source = "mediabrowser"
    THEN {[list |-> "played", part |-> p, at |-> data[p].at] :
             p \in {q \in AllParts : data[q].played /\ ~IsFilm}}
         \cup {[list |-> "resume", part |-> p, at |-> data[p].at] :
             p \in {q \in AllParts : data[q].part > 0}}
    ELSE IF source = "plex guest"
    THEN {[list |-> "history", part |-> h.part, at |-> h.at] : h \in history}
    ELSE {}

Ask ==
    /\ rows = None /\ told = None
    /\ rows' = Listed
    /\ UNCHANGED <<outside, tally, resume, told>>

\* EpisodeTally.
Counted(row) ==
    tally' = [played |-> tally.played \cup {row.part}, at |-> Latest(tally.at, row.at)]
Further(part) == IF part > resume.part THEN part ELSE resume.part
\* mutant: the first row of a title gives its date.
ResumedFirst(row) ==
    resume' = [part |-> Further(data[row.part].part),
               at |-> IF resume.part = 0 THEN row.at ELSE resume.at]
\* ResumeList.
Resumed(row) ==
    resume' = [part |-> Further(data[row.part].part), at |-> Latest(resume.at, row.at)]
\* WatchHistory: a film by itself, an episode by its series, each once.
Logged(row) ==
    IF IsFilm
    THEN resume' = [part |-> 2, at |-> Latest(resume.at, row.at)] /\ UNCHANGED tally
    ELSE Counted(row) /\ UNCHANGED resume

ReadRow(row) ==
    /\ rows # None /\ row \in rows
    /\ rows' = rows \ {row}
    /\ CASE row.list = "played" -> Counted(row) /\ UNCHANGED resume
         [] row.list = "resume" -> Resumed(row) /\ UNCHANGED tally
         [] row.list = "history" -> Logged(row)
    /\ UNCHANGED <<outside, told>>

\* The listing of the titles has a film's own data, and of a series, if the server says
\* so, when it was last played and what is left of it.
Film ==
    LET own == data[CHOOSE p \in AllParts : TRUE] IN
    CASE source = "mediabrowser" /\ (own.played \/ Further(own.part) > 0 \/ own.opened) ->
           {FilmEngagement(own.played, Further(own.part), DaysSince(Latest(own.at, resume.at)))}
      [] source = "plex owner" /\ (own.played \/ own.part > 0) ->
           {FilmEngagement(own.played, own.part, DaysSince(own.at))}
      [] source = "plex guest" /\ resume.part = 2 ->
           {FilmEngagement(TRUE, 2, DaysSince(resume.at))}
      [] OTHER -> {}

Viewed == {p \in AllParts : data[p].played}
LastViewed == LET dates == {data[p].at : p \in AllParts} \ {None} IN
        IF dates = {} THEN None ELSE CHOOSE d \in dates : \A e \in dates : e <= d
Show ==
    LET n == Cardinality(tally.played)
        all == Cardinality(AllParts) IN
    CASE source = "mediabrowser"
         /\ (n > 0 \/ resume.part > 0 \/ \E p \in AllParts : data[p].opened) ->
           {SeriesEngagement(n, total, DaysSince(Latest(at, Latest(tally.at, resume.at)))) :
               total \in {None, all}, at \in {None, LastViewed}}
      [] source = "plex owner" /\ Viewed # {} ->
           {SeriesEngagement(Cardinality(Viewed), total, DaysSince(LastViewed)) : total \in {None, all}}
      [] source = "plex guest" /\ n > 0 ->
           {SeriesEngagement(n, total, DaysSince(tally.at)) : total \in {None, all}}
      [] OTHER -> {}

Engagements == IF IsFilm THEN Film ELSE Show

\* build_engagements, then SwipeEngine.engagement: the server first, an import only for
\* what the server says nothing about, or when it does not answer.
Answer ==
    /\ rows = {}
    /\ rows' = None
    /\ \/ \E state \in Engagements : told' = [from |-> "server", state |-> state]
       \/ Imported = {} /\ told' = None
       \/ \E entry \in Imported : told' = [from |-> "import", state |-> entry.state]
    /\ tally' = [played |-> {}, at |-> None]
    /\ resume' = [part |-> 0, at |-> None]
    /\ UNCHANGED outside

\* The lines of a file uploaded now: up to two of them are this title.
Lines == {i \in Items : i.at = None \/ i.at <= now}
Files(n) == IF imports = MaxImports[source] THEN {} ELSE UNION {[1 .. k -> Lines] : k \in 0 .. n}

Next ==
    \/ Tick \/ Ask \/ Answer
    \/ \E p \in AllParts, part \in {"end", "half", "credits", "nothing"} : Play(p, part)
    \/ rows # None /\ \E row \in rows : ReadRow(row)
    \/ \E f \in Formats, items \in Files(2) : Import(f, items, None)
    \/ \E f \in Formats, items \in Files(1), question \in Lines : Import(f, items, question)
    \/ Accept \/ Reject \/ \E f \in Formats : Forget(f)

Spec == Init /\ [][Next]_watching

-----------------------------------------------------------------------------
TypeOK ==
    /\ source \in Sources
    /\ title \in Titles
    /\ now \in Times
    /\ data \in [AllParts -> Data]
    /\ plays \in 0 .. MaxPlays[source] /\ imports \in 0 .. MaxImports[source]
    /\ imported \in [Formats -> Entries \cup {None}]
    /\ filed \in [Formats -> SUBSET Dates]
    /\ asked \in Questions \cup {None}
    /\ history \subseteq [part : AllParts, at : Times]
    /\ rows = None \/ rows \subseteq Row
    /\ tally \in Tally
    /\ resume \in Resume
    /\ told \in Told \cup {None}

\* Nobody is told to have given up on what they are watching, or on a film they
\* finished: whichever of the listings has the date, in whatever order they are read.
\* Of a Plex guest only what was watched to its end is known.  Nor on what a file
\* says they watched of late, when only imports speak of the title.
Known(p) == source # "plex guest" /\ (IsFilm \/ data[p].played \/ data[p].part > 0)
IsRecent(at) == at # None /\ now - at <= Recent
BeingWatched ==
    \/ \E p \in AllParts : Known(p) /\ IsRecent(data[p].at)
    \/ source = "plex guest" /\ \E h \in history : IsRecent(h.at)
Finished == IsFilm /\ \A p \in AllParts : data[p].played
Extents == {f \in Formats : imported[f] # None /\ imported[f].state # None}
WhatIsWatchedIsNotGivenUp ==
    told # None /\ told.state = "abandoned" =>
        IF told.from = "server" THEN ~BeingWatched /\ ~Finished
        ELSE ~IsFilm /\ \A f \in Extents : \A at \in filed[f] : ~IsRecent(at)

\* "A title somebody had to confirm by hand gets exactly the verdict it would have got
\* automatically" (swipe/imports/run.py:228): what it answers takes the place of the
\* row its own file left, with what the other lines said.
AnswersAddUp ==
    [][Accept /\ imported[asked.format] # None /\ imported'[asked.format] # None =>
          /\ imported'[asked.format].episodes >= imported[asked.format].episodes
          /\ filed[asked.format] \subseteq filed'[asked.format]]_watching
=============================================================================

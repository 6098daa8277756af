------------------------------- MODULE Likes -------------------------------
(***************************************************************************)
(* The list of what a user liked, read by pages while it changes              *)
(* (storage/votes.py list_likes, api/v1/swipe.py), and the requests filed for  *)
(* it: of one's own accord, or with the vote (swipe/requesting.py,             *)
(* swipe/voting.py, adapters/seerr.py).                                       *)
(*                                                                         *)
(* One user.  A title's number is its media type and id, which break ties.    *)
(* Votes has the receipts and what may be voted on and requested.             *)
(***************************************************************************)
EXTENDS Naturals, Sequences, FiniteSets, SequencesExt, Tables

CONSTANTS
    Titles,      \* numbers
    Askers,      \* submissions and requests of the user in flight at once
    PageSize,    \* limit
    Filters,     \* of "all", "to_request" and "requested"
    MaxTime,     \* bound: the last moment
    MaxSwipes,   \* bound: submissions
    None

VARIABLES
    now,
    rows,        \* the user's votes: title -> Vote
    held,        \* the titles a request of the user came to the backend for
    filing,      \* [Askers -> what is being requested]
    walk,        \* a reading of the list, or None
    swipes

likes == <<now, rows, held, filing, walk, swipes>>

Vote == [value : {"like", "other"}, at : 0 .. MaxTime, requested : BOOLEAN]
Filing == [todo : SUBSET Titles, ref : Titles \cup {None}, step : {"idle", "send", "mark"}]
Idle == [todo |-> {}, ref |-> None, step |-> "idle"]
Key == [at : 0 .. MaxTime, ref : Titles]

-----------------------------------------------------------------------------
(* The list.                                                                *)

Listed(vote, filter) ==
    /\ vote.value = "like"
    /\ filter = "to_request" => ~vote.requested
    /\ filter = "requested" => vote.requested

KeyOf(t) == [at |-> rows[t].at, ref |-> t]
Newer(k, l) == k.at > l.at \/ (k.at = l.at /\ k.ref > l.ref)
\* mutant: the cursor is the time alone.
BeforeByTime(k, cursor) == cursor = None \/ k.at < cursor.at
Before(k, cursor) == cursor = None \/ Newer(cursor, k)

\* list_likes: most recent first.
Page(filter, cursor) ==
    LET found == {KeyOf(t) : t \in {t \in DOMAIN rows : Listed(rows[t], filter)}}
        sorted == SetToSortSeq({k \in found : Before(k, cursor)}, Newer) IN
    SubSeq(sorted, 1, IF Len(sorted) < PageSize THEN Len(sorted) ELSE PageSize)

\* The console asks for the first page, and for no other.
Console(filter) == Page(filter, None)

\* steady: what was listed when the reading began, and has been since, at its place.
\* A reading that is over is done with when the list changes.
Votes(new) ==
    /\ rows' = new
    /\ walk' = IF walk = None \/ walk.over THEN None ELSE
               [walk EXCEPT !.steady = {t \in @ : t \in DOMAIN new /\ new[t].at = rows[t].at
                                                  /\ Listed(new[t], walk.filter)}]

Open(filter) ==
    /\ walk = None
    /\ walk' = [filter |-> filter, cursor |-> None, shown |-> <<>>, over |-> FALSE,
                steady |-> {t \in DOMAIN rows : Listed(rows[t], filter)}]
    /\ UNCHANGED <<now, rows, held, filing, swipes>>
\* listLikes: the cursor is the last like's, and there is none after a short page.
Read ==
    /\ walk # None /\ ~walk.over
    /\ LET page == Page(walk.filter, walk.cursor) IN
       walk' = [walk EXCEPT !.shown = @ \o [i \in DOMAIN page |-> page[i].ref],
                            !.over = Len(page) < PageSize,
                            !.cursor = IF Len(page) < PageSize THEN None ELSE page[Len(page)]]
    /\ UNCHANGED <<now, rows, held, filing, swipes>>
Close ==
    /\ walk # None
    /\ walk' = None
    /\ UNCHANGED <<now, rows, held, filing, swipes>>

-----------------------------------------------------------------------------
(* The votes.                                                               *)

\* record: the newest swipe wins, and a request stays filed.
Recorded(t, value, at) ==
    IF t \notin DOMAIN rows THEN [value |-> value, at |-> at, requested |-> FALSE]
    ELSE IF rows[t].at <= at THEN [rows[t] EXCEPT !.value = value, !.at = at]
    ELSE rows[t]

\* submit: a queue of answers about some titles, all swiped at once; what was liked in
\* it is requested then, if the user's preferences, read then, say so.
Submit(a, T, value, at) ==
    /\ filing[a] = Idle /\ swipes < MaxSwipes
    /\ at <= now
    /\ Votes([t \in (DOMAIN rows) \cup T |-> IF t \in T THEN Recorded(t, value, at) ELSE rows[t]])
    /\ \/ value = "like" /\ filing' = [filing EXCEPT ![a].todo = T]
       \/ UNCHANGED filing
    /\ swipes' = swipes + 1
    /\ UNCHANGED <<now, held>>
\* undo, and reset for T = Titles.
Undo(T) ==
    /\ T \cap DOMAIN rows # {}
    /\ Votes([t \in (DOMAIN rows) \ T |-> rows[t]])
    /\ UNCHANGED <<now, held, filing, swipes>>
Tick ==
    /\ now < MaxTime
    /\ now' = now + 1
    /\ UNCHANGED <<rows, held, filing, walk, swipes>>

-----------------------------------------------------------------------------
(* Requests.                                                                *)

Others == <<now, rows, held, walk, swipes>>
Begin(a, t) == filing' = [filing EXCEPT ![a] = [todo |-> @.todo \ {t}, ref |-> t, step |-> "send"]]
\* What cannot be filed is left: the next of the submission's likes is taken.
End(a) == filing' = [filing EXCEPT ![a].ref = None, ![a].step = "idle"]

\* requestTitle, of a title on the list.
Ask(a, t) ==
    /\ filing[a] = Idle
    /\ t \in DOMAIN rows
    /\ Begin(a, t)
    /\ UNCHANGED Others
\* _auto_request, one after the other.
AutoRequest(a) ==
    /\ filing[a].step = "idle"
    /\ \E t \in filing[a].todo : Begin(a, t)
    /\ UNCHANGED Others
\* mutant: what was not filed is marked too.
SendAndMark(a) ==
    LET files == held' = held \cup {filing[a].ref} IN
    /\ filing[a].step = "send"
    /\ \/ files /\ filing' = [filing EXCEPT ![a].step = "mark"]
       \/ filing[a].ref \notin held /\ filing' = [filing EXCEPT ![a].step = "mark"] /\ UNCHANGED held
    /\ UNCHANGED <<now, rows, walk, swipes>>
\* find_user, which may find nobody, then request: the backend files it, holds it already
\* (409), or refuses it (403: not allowed, or the quota is spent); and its answer may be
\* lost.
Send(a) ==
    LET files == held' = held \cup {filing[a].ref} IN
    /\ filing[a].step = "send"
    /\ \/ files /\ filing' = [filing EXCEPT ![a].step = "mark"]
       \/ files /\ End(a)
       \/ filing[a].ref \notin held /\ End(a) /\ UNCHANGED held
    /\ UNCHANGED <<now, rows, walk, swipes>>
\* mark_requested: the row there is by then, if there is one.
Mark(a) ==
    LET t == filing[a].ref IN
    /\ filing[a].step = "mark"
    /\ Votes(IF t \in DOMAIN rows THEN [rows EXCEPT ![t].requested = TRUE] ELSE rows)
    /\ End(a)
    /\ UNCHANGED <<now, held, swipes>>
\* Nothing of a request in flight outlives the process.
Restart ==
    /\ filing' = [a \in Askers |-> Idle]
    /\ UNCHANGED Others

Init ==
    /\ now = 0
    /\ rows = Empty
    /\ held = {}
    /\ filing = [a \in Askers |-> Idle]
    /\ walk = None
    /\ swipes = 0

Next ==
    \/ \E a \in Askers, T \in (SUBSET Titles) \ {{}}, value \in {"like", "other"}, at \in 0 .. MaxTime :
          Submit(a, T, value, at)
    \/ \E t \in Titles : Undo({t})
    \/ Undo(Titles)
    \/ \E f \in Filters : Open(f)
    \/ Read \/ Close \/ Tick \/ Restart
    \/ \E a \in Askers, t \in Titles : Ask(a, t)
    \/ \E a \in Askers : AutoRequest(a) \/ Send(a) \/ Mark(a)

Spec == Init /\ [][Next]_likes

-----------------------------------------------------------------------------
TypeOK ==
    /\ now \in 0 .. MaxTime
    /\ IsTable(rows, Titles, Vote)
    /\ held \subseteq Titles
    /\ filing \in [Askers -> Filing]
    /\ walk = None \/ walk.steady \subseteq Titles
    /\ swipes \in 0 .. MaxSwipes

\* A reading of the list shows every like that stayed in it, where it was, once and no
\* more, whatever was liked, undone and requested between its pages, and however many
\* likes of one queue carry the same time.
WalksMissNothing ==
    walk # None =>
        \A t \in walk.steady :
            LET times == Cardinality({i \in DOMAIN walk.shown : walk.shown[i] = t}) IN
            times <= 1 /\ (walk.over => times = 1)

\* What the list calls requested is held by the backend: a refusal, an answer that did
\* not come, an undo while the backend was asked and a restart never mark a title.
RequestedIsHeld == \A t \in DOMAIN rows : rows[t].requested => t \in held

\* The console's list holds what was liked ("like a card and it lands here").
ConsoleListsTheLikes ==
    \A filter \in Filters, t \in DOMAIN rows :
        Listed(rows[t], filter) => KeyOf(t) \in ToSet(Console(filter))

\* What is requested with a vote is liked ("what was liked": the vote that won).
OnlyLikesAreRequested ==
    \A a \in Askers : \A t \in filing[a].todo : t \in DOMAIN rows => rows[t].value = "like"
=============================================================================

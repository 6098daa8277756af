------------------------------- MODULE Words -------------------------------
(***************************************************************************)
(* The text of a taste profile: what the user wrote and what the model wrote,  *)
(* each in its column (storage/profiles.py), the rewrites of the one           *)
(* (swipe/profile.py) and the editor of the other (AroundTheDeck.tsx, Taste).  *)
(*                                                                         *)
(* A text is a sequence of paragraphs, each with its author.  Taste has when   *)
(* a rewrite is due, Generations its job and what it is charged.               *)
(***************************************************************************)
EXTENDS Naturals, Sequences, FiniteSets, SequencesExt

CONSTANTS
    Tabs,         \* pages of the console, open at once
    Rewrites,     \* rewrites, one after the other
    Limit,        \* MAX_PROFILE_CHARS, in paragraphs
    Longest,      \* what a rewrite says at most
    MaxVerdicts,  \* bound: votes
    MaxSaves,     \* bound: saves
    None

VARIABLES
    verdicts,   \* how many votes there are
    user_text,
    generated,  \* the column text
    edited,     \* user_edited
    refresh_error,
    rewrite,    \* the rewrite under way, and what it read
    done,       \* how many rewrites there were
    tabs,       \* what each tab shows, and the text being edited in it
    typed,      \* what the user typed last, in the tab that saved it
    saves

words == <<verdicts, user_text, generated, edited, refresh_error, rewrite, done, tabs, typed, saves>>

\* by: "user" or "model"; n: after how many saves, or from how many votes.
Cut(text) == SubSeq(text, 1, IF Len(text) < Limit THEN Len(text) ELSE Limit)

\* A page before its first answer, with nothing being edited in it.
Editor == [seen |-> <<>>, draft |-> None]

\* TasteProfile.text: the person's own words first.
Whole == user_text \o generated

-----------------------------------------------------------------------------
Init ==
    /\ verdicts = 0
    /\ user_text = <<>> /\ generated = <<>>
    /\ edited = FALSE
    /\ refresh_error = FALSE
    /\ rewrite = None /\ done = 0
    /\ tabs = [t \in Tabs |-> Editor]
    /\ typed = <<>>
    /\ saves = 0

Vote ==
    /\ verdicts < MaxVerdicts
    /\ verdicts' = verdicts + 1
    /\ UNCHANGED <<user_text, generated, edited, refresh_error, rewrite, done, tabs, typed, saves>>

\* profile_prompt: the votes and the user's words, as they are when it is built.
Prompt == [votes |-> verdicts, written |-> user_text]
\* _rewrite: what it says is about what it read.
Start ==
    /\ rewrite = None /\ done < Rewrites
    /\ rewrite' = Prompt
    /\ UNCHANGED <<verdicts, user_text, generated, edited, refresh_error, done, tabs, typed, saves>>
\* render: as many paragraphs as the model found something to say in.
Rendered(votes) == {Cut([i \in 1 .. k |-> [by |-> "model", n |-> votes]]) : k \in 0 .. Longest}
\* mutant: the whole row is written, as it was read before the model was called.
FinishTheRow ==
    /\ rewrite # None
    /\ generated' \in Rendered(rewrite.votes)
    /\ user_text' = rewrite.written
    /\ refresh_error' = FALSE
    /\ rewrite' = None /\ done' = done + 1
    /\ UNCHANGED <<verdicts, edited, tabs, typed, saves>>
\* save_generated; too few votes, and the error alone is cleared.
Finish ==
    /\ rewrite # None
    /\ \/ generated' \in Rendered(rewrite.votes)
       \/ rewrite.votes = 0 /\ UNCHANGED generated
    /\ refresh_error' = FALSE
    /\ rewrite' = None /\ done' = done + 1
    /\ UNCHANGED <<verdicts, user_text, edited, tabs, typed, saves>>
\* _fail: the text is not touched.
Fail ==
    /\ rewrite # None
    /\ refresh_error' = TRUE
    /\ rewrite' = None /\ done' = done + 1
    /\ UNCHANGED <<verdicts, user_text, generated, edited, tabs, typed, saves>>

\* getProfile, polled while a rewrite runs.
Show(t) ==
    /\ tabs' = [tabs EXCEPT ![t].seen = Whole]
    /\ UNCHANGED <<verdicts, user_text, generated, edited, refresh_error, rewrite, done, typed, saves>>
\* The draft starts from the text shown.
Edit(t) ==
    /\ tabs[t].draft = None
    /\ tabs' = [tabs EXCEPT ![t].draft = tabs[t].seen]
    /\ UNCHANGED <<verdicts, user_text, generated, edited, refresh_error, rewrite, done, typed, saves>>
Cancel(t) ==
    /\ tabs[t].draft # None
    /\ tabs' = [tabs EXCEPT ![t].draft = None]
    /\ UNCHANGED <<verdicts, user_text, generated, edited, refresh_error, rewrite, done, typed, saves>>
\* The user types a paragraph at the end, or deletes one: the field takes no more than
\* the limit.
Edits(draft) ==
    (IF Len(draft) < Limit THEN {Append(draft, [by |-> "user", n |-> saves])} ELSE {})
        \cup {RemoveAt(draft, i) : i \in DOMAIN draft}
Type(t) ==
    /\ tabs[t].draft # None
    /\ \E text \in Edits(tabs[t].draft) : tabs' = [tabs EXCEPT ![t].draft = text]
    /\ UNCHANGED <<verdicts, user_text, generated, edited, refresh_error, rewrite, done, typed, saves>>
\* save_user_text: the user's own words, and that there are some.
Keep(text) == user_text' = Cut(text) /\ edited' = TRUE
\* saveProfile: a text over the limit is refused.
Save(t) ==
    /\ tabs[t].draft # None /\ saves < MaxSaves
    /\ Len(tabs[t].draft) <= Limit
    /\ Keep(tabs[t].draft)
    /\ refresh_error' = FALSE
    /\ typed' = tabs[t].draft
    /\ tabs' = [tabs EXCEPT ![t] = [seen |-> tabs[t].draft \o generated, draft |-> None]]
    /\ saves' = saves + 1
    /\ UNCHANGED <<verdicts, generated, rewrite, done>>

Next ==
    \/ Vote \/ Start \/ Finish \/ Fail
    \/ \E t \in Tabs : Show(t) \/ Edit(t) \/ Cancel(t) \/ Type(t) \/ Save(t)

Spec == Init /\ [][Next]_words

-----------------------------------------------------------------------------
TypeOK ==
    /\ verdicts \in 0 .. MaxVerdicts
    /\ Len(user_text) <= Limit /\ Len(generated) <= Limit
    /\ edited \in BOOLEAN /\ refresh_error \in BOOLEAN
    /\ done \in 0 .. Rewrites /\ saves \in 0 .. MaxSaves

\* What the user saved last is there, word for word and first, whatever rewrites began
\* before it and ended after it, failed, or had nothing to say.
OwnWordsStay == user_text = typed /\ edited = (saves > 0)

\* "user_text is what the person typed and nothing but a user edit writes it".
UserTextIsTyped == \A i \in DOMAIN user_text : user_text[i].by = "user"

\* What one rewrite said is not said twice, nor after the next one.
NothingIsSaidTwice ==
    \A i, j \in DOMAIN Whole : Whole[i].by = "model" /\ Whole[j].by = "model" => Whole[i].n = Whole[j].n
=============================================================================

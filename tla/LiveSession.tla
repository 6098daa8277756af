---------------------------- MODULE LiveSession ----------------------------
(***************************************************************************)
(* A person answering real cards at a terminal (main/session.py and          *)
(* swipe/evaluation/session.py): batches are drawn, each answer is on the     *)
(* disk before the next card, and a session that stopped, by a key, by a       *)
(* failure or by the terminal, is the history of the next.                    *)
(*                                                                           *)
(* What is answered does not matter here, only that it was.  Rewriting the    *)
(* file is taken as one step.                                                 *)
(***************************************************************************)
EXTENDS Naturals, Sequences, Functions, SequencesExt

CONSTANTS
    Titles,
    Seeds,          \* the titles of the vote sets a session may be seeded from
    Batches, BatchSize,
    MaxSessions     \* bound: how many sessions are begun

VARIABLES
    file,       \* the vote set on disk: the titles answered, oldest first
    said,       \* every title somebody answered, oldest first
    session,    \* the session under way
    begun       \* how many have been begun

answering == <<file, said, session, begun>>

NoSession == [step |-> "none", outcomes |-> <<>>, votes |-> <<>>, found |-> 0]

Init ==
    /\ file = <<>> /\ said = <<>>
    /\ session = NoSession /\ begun = 0

\* The file is read, never reset. Its votes and the seed's come before the first batch.
Begin(seed) ==
    /\ session.step \in {"none", "reported"} /\ begun < MaxSessions
    /\ session' = [step |-> "draw", seed |-> seed, votes |-> file, found |-> Len(file),
                   cards |-> <<>>, answers |-> 0, outcomes |-> <<>>]
    /\ begun' = begun + 1
    /\ UNCHANGED <<file, said>>

\* What was voted on, here, earlier or in the seed, is not drawn.
Excluded == Range(session.votes) \cup session.seed

\* The strategy's batch: as few cards as it likes, none twice.
Draw(cards) ==
    /\ session.step = "draw"
    /\ Len(session.outcomes) < Batches
    /\ cards # <<>> /\ Len(cards) <= BatchSize
    /\ IsInjective(cards) /\ Range(cards) \cap Excluded = {}
    /\ session' = [session EXCEPT !.cards = cards, !.answers = 0, !.step = "show"]
    /\ UNCHANGED <<file, said, begun>>

\* mutant: the store is written when the batch is over.
RecordLate ==
    /\ session.step = "show" /\ session.answers < Len(session.cards)
    /\ LET card == session.cards[session.answers + 1]
       IN  /\ session' = [session EXCEPT !.votes = Append(@, card), !.answers = @ + 1]
           /\ file' = IF session.answers + 1 = Len(session.cards) THEN session'.votes ELSE file
           /\ said' = Append(said, card)
    /\ UNCHANGED begun

\* A key that is a verdict: the answer is written before the next card is shown.
Record ==
    /\ session.step = "show" /\ session.answers < Len(session.cards)
    /\ LET card == session.cards[session.answers + 1]
       IN  /\ session' = [session EXCEPT !.votes = Append(@, card), !.answers = @ + 1]
           /\ file' = session'.votes
           /\ said' = Append(said, card)
    /\ UNCHANGED begun

Outcome(requested) == [requested |-> requested, answered |-> session.answers]

\* Every card was answered: the batch is scored on what was asked of the strategy.
Score ==
    /\ session.step = "show" /\ session.answers = Len(session.cards)
    /\ session' = [session EXCEPT !.step = "draw",
                                  !.outcomes = Append(@, Outcome(BatchSize))]
    /\ UNCHANGED <<file, said, begun>>

\* The key that ends it: the batch is scored on the cards that were shown, and one of
\* which none was answered is not scored.
Quit ==
    /\ session.step = "show" /\ session.answers < Len(session.cards)
    /\ session' = [session EXCEPT
          !.step = "reported",
          !.outcomes = IF session.answers = 0 THEN @
                       ELSE Append(@, Outcome(session.answers))]
    /\ UNCHANGED <<file, said, begun>>

\* All batches are drawn, or the pool is empty.
Report ==
    /\ session.step = "draw"
    /\ session' = [session EXCEPT !.step = "reported"]
    /\ UNCHANGED <<file, said, begun>>

\* The batch could not be built, or the terminal went away: there is no report.
Stop ==
    /\ session.step \in {"draw", "show"}
    /\ session' = NoSession
    /\ UNCHANGED <<file, said, begun>>

Next ==
    \/ \E seed \in Seeds : Begin(seed)
    \/ \E cards \in SeqOf(Titles, BatchSize) : Draw(cards)
    \/ Record \/ Score \/ Quit \/ Report \/ Stop

Spec == Init /\ [][Next]_answering

-----------------------------------------------------------------------------
Answered(outcomes) == FoldSeq(LAMBDA o, sum : o.answered + sum, 0, outcomes)

\* Whatever ended the sessions, the file holds every answer anybody gave, in order, and
\* nobody was asked about a title twice; and the table a session ends with counts the
\* answers given in it, no card that was resumed or seeded and none it lost.
AnswersAreKeptAndCountedOnce ==
    /\ file = said
    /\ IsInjective(file)
    /\ session.step = "reported" =>
        Answered(session.outcomes) = Len(session.votes) - session.found
    /\ \A k \in DOMAIN session.outcomes :
        /\ session.outcomes[k].answered <= session.outcomes[k].requested
        /\ k < Len(session.outcomes) => session.outcomes[k].requested = BatchSize
=============================================================================

------------------------------- MODULE Asking -------------------------------
(***************************************************************************)
(* What one model call costs, and who is told (adapters/llm/base.py and     *)
(* openai_provider.py, swipe/generation.py, storage/usage.py, and the        *)
(* harness's own meter, swipe/evaluation/costs.py).                          *)
(*                                                                           *)
(* A batch asks the model once.  The provider is sent the prompt down a      *)
(* ladder of ever simpler requests and, when the answer does not fit the     *)
(* schema, once more from the top.  Two wrappers listen at the port: the     *)
(* household's, whose tokens are stored with the batch, and the harness's    *)
(* meter.  What a request was really charged is known to the provider only.  *)
(***************************************************************************)
EXTENDS Naturals

CONSTANTS
    Rungs,          \* the requests of the ladder, strictest first
    MaxAttempts,    \* how often one prompt is sent
    PromptTokens,   \* what sending it costs
    Answers,        \* what an answer may cost
    MaxBatches      \* how many batches are made

AskingAssumption == PromptTokens \in Nat /\ Answers \subseteq Nat

VARIABLES
    stage,          \* "idle", "asking", "answered", "unanswered"
    attempt, rung, spent,
    reports,        \* does this provider say what a call used
    metered,        \* the batch's wrapper: tokens, and did the model refuse
    usage,          \* the user's row: tokens and failures
    meter,          \* the harness's: calls, tokens, and the calls it estimated
    billed,         \* what the provider charged for, all in all
    batches, missed,\* batches made, and those the model drew nothing for
    forgotten       \* of the missed, those whose end nobody was left to write down

vars == <<stage, attempt, rung, spent, reports, metered, usage, meter, billed, batches, missed,
          forgotten>>

Init ==
    /\ stage = "idle" /\ attempt = 1 /\ rung = 1 /\ spent = 0
    /\ reports \in BOOLEAN
    /\ metered = [tokens |-> 0, failure |-> FALSE]
    /\ usage = [tokens |-> 0, failures |-> 0]
    /\ meter = [calls |-> 0, tokens |-> 0, estimated |-> 0]
    /\ billed = 0 /\ batches = 0 /\ missed = 0 /\ forgotten = 0

-----------------------------------------------------------------------------
\* A wrapper of its own for every batch.
Start ==
    /\ stage = "idle" /\ batches < MaxBatches
    /\ stage' = "asking" /\ attempt' = 1 /\ rung' = 1 /\ spent' = 0
    /\ metered' = [tokens |-> 0, failure |-> FALSE]
    /\ batches' = batches + 1
    /\ UNCHANGED <<reports, usage, meter, billed, missed, forgotten>>

\* The endpoint refuses a parameter, and says so: the next rung leaves it out.
Simplify ==
    /\ stage = "asking" /\ rung < Rungs
    /\ rung' = rung + 1
    /\ UNCHANGED <<stage, attempt, spent, reports, metered, usage, meter, billed, batches, missed, forgotten>>

\* What both wrappers make of a call that raised.
Raised ==
    /\ stage' = "unanswered"
    /\ metered' = [metered EXCEPT !.failure = TRUE]
    /\ meter' = [calls |-> meter.calls + 1, tokens |-> meter.tokens + PromptTokens,
                 estimated |-> meter.estimated + 1]
    /\ missed' = missed + 1

\* The provider refuses, does not answer, or answers without content: taken as free,
\* since nothing in the code says otherwise.
Refuse ==
    /\ stage = "asking"
    /\ Raised
    /\ UNCHANGED <<attempt, rung, spent, reports, usage, billed, batches, forgotten>>

\* What a refused answer cost is added up before it is thrown away, and goes with the
\* problem that is raised in the end.
Misfit(answer) ==
    /\ stage = "asking"
    /\ billed' = billed + PromptTokens + answer
    /\ spent' = spent + (IF reports THEN PromptTokens + answer ELSE 0)
    /\ \/ /\ attempt < MaxAttempts
          /\ attempt' = attempt + 1 /\ rung' = 1
          /\ UNCHANGED <<stage, metered, meter, missed>>
       \/ /\ attempt = MaxAttempts
          /\ Raised
          /\ UNCHANGED <<attempt, rung>>
    /\ UNCHANGED <<reports, usage, batches, forgotten>>

\* mutant: the household's wrapper charges the attempts of every call so far again.
FitTwice(answer) ==
    /\ stage = "asking"
    /\ billed' = billed + PromptTokens + answer
    /\ spent' = spent + (IF reports THEN PromptTokens + answer ELSE 0)
    /\ metered' = [metered EXCEPT !.tokens = @ + spent + spent']
    /\ meter' = [meter EXCEPT !.calls = @ + 1, !.tokens = @ + spent']
    /\ stage' = "answered"
    /\ UNCHANGED <<attempt, rung, reports, usage, batches, missed, forgotten>>

\* The answer fits. A provider that reports nothing is estimated by the harness and
\* free for the household.
Fit(answer) ==
    /\ stage = "asking"
    /\ billed' = billed + PromptTokens + answer
    /\ spent' = spent + (IF reports THEN PromptTokens + answer ELSE 0)
    /\ metered' = [metered EXCEPT !.tokens = @ + spent']
    /\ meter' = [calls |-> meter.calls + 1,
                 tokens |-> meter.tokens + (IF spent' # 0 THEN spent' ELSE PromptTokens + answer),
                 estimated |-> meter.estimated + (IF spent' # 0 THEN 0 ELSE 1)]
    /\ stage' = "answered"
    /\ UNCHANGED <<attempt, rung, reports, usage, batches, missed, forgotten>>

\* mutant: a batch that was filled from the pool is no failure.
StoreAsDone ==
    /\ stage \in {"answered", "unanswered"}
    /\ usage' = [usage EXCEPT !.tokens = @ + metered.tokens]
    /\ stage' = "idle"
    /\ UNCHANGED <<attempt, rung, spent, reports, metered, meter, billed, batches, missed, forgotten>>

\* The batch, drawn by the model or filled from the pool without it, its tokens and its
\* failure go into one transaction.
Store ==
    /\ stage \in {"answered", "unanswered"}
    /\ usage' = [tokens |-> usage.tokens + metered.tokens,
                 failures |-> usage.failures + (IF metered.failure THEN 1 ELSE 0)]
    /\ stage' = "idle"
    /\ UNCHANGED <<attempt, rung, spent, reports, metered, meter, billed, batches, missed, forgotten>>

\* The provider cannot be built, or something else raises, before the model answered or
\* after: fail counts the failure whatever the wrapper heard.
Stop ==
    /\ stage # "idle"
    /\ usage' = [usage EXCEPT !.failures = @ + 1]
    /\ missed' = missed + (IF metered.failure THEN 0 ELSE 1)
    /\ stage' = "idle"
    /\ UNCHANGED <<attempt, rung, spent, reports, metered, meter, billed, batches, forgotten>>

\* The task is cancelled by a shutdown, its process dies, or writing its end fails: the
\* job is closed by the restart or the sweep, and llm_usage never hears of it.
Die ==
    /\ stage # "idle"
    /\ missed' = missed + (IF metered.failure THEN 0 ELSE 1)
    /\ forgotten' = forgotten + 1
    /\ stage' = "idle"
    /\ UNCHANGED <<attempt, rung, spent, reports, metered, usage, meter, billed, batches>>

Next ==
    \/ Start \/ Simplify \/ Refuse \/ Store \/ Stop \/ Die
    \/ \E answer \in Answers : Misfit(answer) \/ Fit(answer)

Spec == Init /\ [][Next]_vars

-----------------------------------------------------------------------------
\* Between batches the usage page has every batch that came to nothing, or was filled
\* without the model, as one failure, but for those a shutdown or a crash took before
\* their end was written down; and it never shows tokens the provider did not charge,
\* whatever was retried on the way (_MeteredProvider, fail).
UsageIsNeverOverstated ==
    stage = "idle" => usage.failures + forgotten = missed /\ usage.tokens <= billed

\* What the household was charged is what the page shows, when the provider says what
\* that was: "the usage page has to show what the household was charged, not what it
\* got" (adapters/llm/base.py).
UsageShowsWhatWasCharged ==
    stage = "idle" /\ reports => usage.tokens >= billed

\* "Letting the exception carry the cost away with it would make a strategy whose model
\* is broken read as cheaper than one whose model works" (evaluation/costs.py): the
\* meter never stands below what was charged.
BrokenIsNotCheaper ==
    stage = "idle" /\ reports => meter.tokens >= billed
=============================================================================

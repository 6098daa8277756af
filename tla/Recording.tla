----------------------------- MODULE Recording -----------------------------
(***************************************************************************)
(* Answers recorded on a live run and replayed by every run after it         *)
(* (adapters/cassette.py, and the runs of main/evaluation.py).               *)
(*                                                                           *)
(* A strategy reads a page of TMDb's and, if it calls a model, sends it a     *)
(* prompt made of what the page said.  A run is live towards either service,  *)
(* towards both or neither, and what it does not ask live it looks up in the  *)
(* recorded answers; it is written down if the operator said so.  The vote    *)
(* set has one user, as the committed ones have: a second would read the page *)
(* anew.                                                                      *)
(***************************************************************************)
EXTENDS Naturals, FiniteSets, Functions

CONSTANTS
    Strategies,     \* what can be run
    PageOf,         \* [Strategies -> Pages]: the page each reads
    Callers,        \* those of them that call a model
    Answers,        \* what a page may say, and what a model may answer
    Hosts,          \* addresses operators have their model at
    Portable,       \* the address recorded answers of a model are filed under, nobody's own
    MaxRuns         \* bound: how many runs are started

VARIABLES
    disk,       \* the two cassettes: [Request -> Answer], partial
    run,        \* the run under way
    runs,       \* how many have been started
    recorded,   \* strategies with a run that was recorded whole since the last rerecording
    missed      \* of those, the ones whose replay found no answer

recordings == <<disk, run, runs, recorded, missed>>

Page(s) == [to |-> "tmdb", key |-> PageOf[s]]
\* A prompt is known by its digest: what it was made of, and by whom.
Prompt(s, page, host) == [to |-> host, key |-> <<s, page>>]
Requests ==
    {Page(s) : s \in Strategies}
    \cup {Prompt(s, a, h) : s \in Callers, a \in Answers, h \in Hosts \cup {Portable}}

NoRun == [step |-> "none"]
Started(s, live, host, record) ==
    [step |-> "page", strategy |-> s, live |-> live, host |-> host, record |-> record,
     stored |-> [r \in {} |-> 0], kept |-> [r \in {} |-> 0], page |-> 0]

With(f, r, a) == [x \in DOMAIN f \cup {r} |-> IF x = r THEN a ELSE f[x]]
Overriding(new, old) ==
    [x \in DOMAIN new \cup DOMAIN old |-> IF x \in DOMAIN new THEN new[x] ELSE old[x]]

\* rehost: the same answers, filed under another address.
Moved(f, was, now) ==
    [x \in {IF r.to = was THEN [r EXCEPT !.to = now] ELSE r : r \in DOMAIN f} |->
        f[IF x.to = now THEN [x EXCEPT !.to = was] ELSE x]]

Init ==
    /\ disk = [r \in {} |-> 0]
    /\ run = NoRun /\ runs = 0 /\ recorded = {} /\ missed = {}

-----------------------------------------------------------------------------
\* The plan is confirmed, the credentials are read and the cassettes opened. `live`
\* holds the services that are asked for real; a model is live at an operator's address.
Start(s, live, host, record) ==
    /\ run = NoRun /\ runs < MaxRuns
    /\ "llm" \in live => s \in Callers
    /\ host \in IF "llm" \in live THEN Hosts ELSE {Portable}
    /\ run' = [Started(s, live, host, record) EXCEPT !.stored = Moved(disk, Portable, host)]
    /\ runs' = runs + 1
    /\ UNCHANGED <<disk, recorded, missed>>

\* mutant: a live run asks the service for everything it needs.
HeardAnew(r, service, answer) ==
    IF service \in run.live THEN answer ELSE run.stored[r]

\* TopUpTransport: what is recorded already is not asked for again.
Heard(r, service, answer) ==
    IF r \in DOMAIN run.stored THEN run.stored[r] ELSE answer

\* A cassette never dials out: without an answer the run stops.
Misses(r, service) == r \notin DOMAIN run.stored /\ service \notin run.live

\* RecordingTransport: whatever came back from behind it, the stored answers too.
Kept(r, service, answer) ==
    IF service \in run.live THEN With(run.kept, r, answer) ELSE run.kept

ReadPage(answer) ==
    LET request == Page(run.strategy)
        heard == Heard(request, "tmdb", answer)
    IN  /\ run.step = "page"
        /\ ~Misses(request, "tmdb")
        /\ run' = [run EXCEPT
              !.page = heard, !.kept = Kept(request, "tmdb", heard),
              !.step = IF run.strategy \in Callers THEN "model" ELSE "finish"]
        /\ UNCHANGED <<disk, runs, recorded, missed>>

AskModel(answer) ==
    LET request == Prompt(run.strategy, run.page, run.host)
        heard == Heard(request, "llm", answer)
    IN  /\ run.step = "model"
        /\ ~Misses(request, "llm")
        /\ run' = [run EXCEPT !.kept = Kept(request, "llm", heard), !.step = "finish"]
        /\ UNCHANGED <<disk, runs, recorded, missed>>

\* The run is given up for want of a recorded answer. What it recorded is written down
\* on the way out, like that of a run that was interrupted.
Miss ==
    /\ \/ run.step = "page" /\ Misses(Page(run.strategy), "tmdb")
       \/ run.step = "model" /\ Misses(Prompt(run.strategy, run.page, run.host), "llm")
    /\ missed' = missed \cup ({run.strategy} \cap recorded)
    /\ run' = [run EXCEPT !.step = "stopped"]
    /\ UNCHANGED <<disk, runs, recorded>>

Interrupt ==
    /\ run.step \in {"page", "model"}
    /\ run' = [run EXCEPT !.step = "stopped"]
    /\ UNCHANGED <<disk, runs, recorded, missed>>

\* _finish: merged into what is there now, a model's answers under the portable address.
Finish ==
    /\ run.step \in {"finish", "stopped"}
    /\ disk' = IF run.record THEN Overriding(Moved(run.kept, run.host, Portable), disk)
               ELSE disk
    /\ recorded' = IF run.step = "finish" /\ run.record THEN recorded \cup {run.strategy}
                   ELSE recorded
    /\ run' = NoRun
    /\ UNCHANGED <<runs, missed>>

\* eval record reads TMDb's pages again, without looking at what it has: every answer of
\* a model is then about a page that may have gone.
Rerecord(pages) ==
    /\ run = NoRun
    /\ disk' = Overriding([r \in {Page(s) : s \in Strategies} |-> pages[r.key]], disk)
    /\ recorded' = {}
    /\ UNCHANGED <<run, runs, missed>>

Next ==
    \/ \E s \in Strategies, live \in SUBSET {"tmdb", "llm"}, host \in Hosts \cup {Portable},
          record \in BOOLEAN : Start(s, live, host, record)
    \/ \E answer \in Answers : ReadPage(answer) \/ AskModel(answer)
    \/ Miss \/ Interrupt \/ Finish
    \/ \E pages \in [Range(PageOf) -> Answers] : Rerecord(pages)

Spec == Init /\ [][Next]_recordings

-----------------------------------------------------------------------------
\* A strategy whose run was recorded can be replayed from the files for as long as nobody
\* records TMDb's pages anew, whatever is recorded after it, live towards either service,
\* from whichever address, whole or interrupted: recording one strategy never moves the
\* ground under another's prompts. And no operator's address reaches the files.
RecordedRunsReplay ==
    /\ missed = {}
    /\ \A s \in recorded :
        /\ Page(s) \in DOMAIN disk
        /\ s \in Callers => Prompt(s, disk[Page(s)], Portable) \in DOMAIN disk
    /\ \A r \in DOMAIN disk : r.to \in {"tmdb", Portable}
=============================================================================

---------------------------- MODULE Deck_proofs ----------------------------
(***************************************************************************)
(* Proofs about Deck, and about Offering and WebDeck in the instance MCDeck.   *)
(*                                                                         *)
(* Deck: its types, and that what is paid for and unseen stays bounded.  The   *)
(* two counts of one thing, the batches that wait and the polls on their way   *)
(* to a claim, are never exact: other polls act between a look and a claim.    *)
(* What holds is that parts of the stock move into one another, and that a     *)
(* poll which saw no batch waiting joins when there is none.                   *)
(* Offering: a batch respects what its context read.  WebDeck: a verdict that  *)
(* stands is stored or still queued.                                           *)
(***************************************************************************)
EXTENDS MCDeck, FiniteSetTheorems, TLAPS

\* A card is its batch's, and has a date exactly when its batch was served.
CardsOfServed ==
    \A c \in DOMAIN cards :
        /\ c[1] \in DOMAIN batches
        /\ cards[c] # None <=> batches[c[1]].served

\* What a device was handed, or a poll in progress has for it, is of a batch that
\* was served, which no purge takes.
IsServed(b) == b \in DOMAIN batches /\ batches[b].served
HandedAreServed ==
    /\ \A c \in DOMAIN held : IsServed(c[1])
    /\ \A p \in Payers : poll[p].step # "idle" => \A c \in poll[p].cards : IsServed(c[1])

\* The inductive invariant of the types.
Sound == TypeOK /\ CardsOfServed /\ HandedAreServed

-----------------------------------------------------------------------------
(* What the operators keep.                                                 *)

\* The bounds are numbers, and NULL is none of them.
LEMMA Numbers ==
    /\ MaxTime \in Nat /\ MaxPaid \in Nat /\ MaxOverran \in Nat /\ CardLifetime \in Nat
    /\ None \notin Filters /\ None \notin Time
    /\ \A t \in Time : t \in Nat /\ t <= MaxTime
    /\ \A t \in Nat : t <= MaxTime => t \in Time
    /\ IsFiniteSet(Payers)
  BY DeckAssumption DEF Time

\* A request in progress has its filter, its time and its cards.
LEMMA InProgress ==
    ASSUME TypeOK, NEW p \in Payers, poll[p].step # "idle"
    PROVE  /\ poll[p] \in [step : {"look", "serve", "report", "exhausted", "cool", "claim"},
                           filter : Filters, at : Time, cards : SUBSET Keys]
           /\ poll[p].filter \in Filters /\ poll[p].at \in Time /\ poll[p].cards \subseteq Keys
<1>1. poll[p] \in Poll
  BY DEF TypeOK
<1> QED
  BY <1>1 DEF Poll, Idle

\* This payer's request is what it was, or over, or a step further; the others'
\* are as they were.
Advances(p) ==
    /\ poll' \in [Payers -> Poll]
    /\ \A q \in Payers \ {p} : poll'[q] = poll[q]
    /\ \/ poll'[p] = Idle
       \/ /\ poll[p].step # "idle"
          /\ poll'[p].filter = poll[p].filter
          /\ poll'[p].cards = poll[p].cards

\* A request that ends or goes on advances (_next_batch, _start).
LEMMA EndsAdvances ==
    ASSUME TypeOK, NEW p \in Payers, Ends(p)
    PROVE  Advances(p) /\ poll'[p] = Idle
  BY DEF Ends, Advances, TypeOK, Poll

\* So it does on its way to the next look.
LEMMA GoesAdvances ==
    ASSUME TypeOK, NEW p \in Payers, poll[p].step # "idle",
           NEW step \in {"look", "serve", "report", "exhausted", "cool", "claim"}, Goes(p, step)
    PROVE  Advances(p) /\ poll'[p].step = step
<1> DEFINE Request == [step : {"look", "serve", "report", "exhausted", "cool", "claim"},
                       filter : Filters, at : Time, cards : SUBSET Keys]
<1>1. poll[p] \in Request /\ poll \in [Payers -> Poll]
  BY InProgress DEF TypeOK
<1>2. poll' = [poll EXCEPT ![p] = [poll[p] EXCEPT !.step = step]]
  BY DEF Goes
<1> DEFINE moved == [poll[p] EXCEPT !.step = step]
<1>3. /\ moved \in Request /\ moved.step = step
      /\ moved.filter = poll[p].filter /\ moved.cards = poll[p].cards
  BY <1>1
<1> HIDE DEF moved
<1>4. moved \in Poll
  BY <1>3 DEF Poll
<1>5. poll' \in [Payers -> Poll] /\ poll'[p] = moved /\ \A q \in Payers \ {p} : poll'[q] = poll[q]
  BY <1>1, <1>2, <1>4 DEF moved
<1> QED
  BY <1>3, <1>5 DEF Advances

\* Handing cards over adds them, with a date, to those the device holds.
LEMMA HandsHolds ==
    ASSUME TypeOK, NEW p \in Payers, NEW K \in SUBSET Keys, NEW at \in Time, Hands(p, K, at)
    PROVE  /\ Advances(p) /\ poll'[p] = Idle
           /\ IsTable(held', Keys, Time)
           /\ DOMAIN held' = DOMAIN held \cup K
<1>1. held' = [c \in DOMAIN held \cup K |-> IF c \in K THEN at ELSE held[c]]
  BY DEF Hands
<1>2. IsTable(held', Keys, Time) /\ DOMAIN held' = DOMAIN held \cup K
  BY <1>1 DEF TypeOK, IsTable
<1> QED
  BY <1>2, EndsAdvances DEF Hands

\* Nothing but what the poll had for the device is handed over.
Keeps(p) ==
    /\ IsTable(held', Keys, Time)
    /\ DOMAIN held' \subseteq DOMAIN held \cup poll[p].cards

\* A poll that parts without a generation ends, whatever it had.
LEMMA PartsAdvances ==
    ASSUME TypeOK, NEW p \in Payers, poll[p].step # "idle", Parts(p)
    PROVE  Advances(p) /\ poll'[p] = Idle /\ Keeps(p)
<1>1. CASE Hands(p, poll[p].cards, poll[p].at)
  BY <1>1, HandsHolds, InProgress DEF Keeps
<1>2. CASE Ends(p) /\ UNCHANGED held
  BY <1>2, EndsAdvances DEF Keeps, TypeOK
<1> QED
  BY <1>1, <1>2 DEF Parts

\* The looks of a poll, and its claim.
Looks(p) == LookReady(p) \/ Report(p) \/ LookExhausted(p) \/ Cool(p) \/ Claim(p)

\* They leave what is stored alone, and hand over what the poll had at most
\* (_top_up, _next_batch, _start).
LEMMA LooksAdvance ==
    ASSUME TypeOK, NEW p \in Payers, Looks(p)
    PROVE  /\ Advances(p) /\ Keeps(p)
           /\ poll[p].step # "idle"
           /\ UNCHANGED <<now, stored, late, overran>>
<1>1. poll[p].step # "idle" /\ UNCHANGED <<now, stored, late, overran>>
  BY DEF Looks, LookReady, Report, LookExhausted, Cool, Claim, work
<1>2. UNCHANGED held => Keeps(p)
  BY DEF Keeps, TypeOK
<1>3. CASE LookReady(p)
  <2>1. CASE Hands(p, poll[p].cards, poll[p].at)
    BY <1>1, <2>1, HandsHolds, InProgress DEF Keeps
  <2>2. CASE Goes(p, "cool") /\ UNCHANGED held
    BY <1>1, <1>2, <2>2, GoesAdvances
  <2> QED
    BY <1>1, <1>3, <2>1, <2>2 DEF LookReady
<1>4. CASE Report(p)
  <2>1. UNCHANGED held /\ (Ends(p) \/ Goes(p, "exhausted"))
    BY <1>4 DEF Report
  <2> QED
    BY <1>1, <1>2, <2>1, EndsAdvances, GoesAdvances
<1>5. CASE LookExhausted(p)
  <2>1. UNCHANGED held /\ (Ends(p) \/ Goes(p, "cool"))
    BY <1>5 DEF LookExhausted
  <2> QED
    BY <1>1, <1>2, <2>1, EndsAdvances, GoesAdvances
<1>6. CASE Cool(p)
  <2>1. Parts(p) \/ (Goes(p, "claim") /\ UNCHANGED held)
    BY <1>6 DEF Cool
  <2> QED
    BY <1>1, <1>2, <2>1, PartsAdvances, GoesAdvances
<1>7. CASE Claim(p)
  <2>1. Parts(p)
    BY <1>7 DEF Claim
  <2> QED
    BY <1>1, <2>1, PartsAdvances
<1> QED
  BY <1>1, <1>3, <1>4, <1>5, <1>6, <1>7 DEF Looks

\* A request sets out with what it read.
SetsOut(p, step, filter, at, K) ==
    poll' = [poll EXCEPT ![p] = [step |-> step, filter |-> filter, at |-> at, cards |-> K]]

\* A sweep, and a poll that finds too few cards, set out; nobody else moves.
LEMMA SetsOutTyped ==
    ASSUME TypeOK, NEW p \in Payers, NEW filter \in Filters, NEW at \in Time,
           NEW K \in SUBSET Keys,
           NEW step \in {"look", "serve", "report", "exhausted", "cool", "claim"},
           SetsOut(p, step, filter, at, K)
    PROVE  /\ poll' \in [Payers -> Poll]
           /\ \A q \in Payers \ {p} : poll'[q] = poll[q]
           /\ poll'[p].step = step /\ poll'[p].filter = filter /\ poll'[p].cards = K
<1> DEFINE request == [step |-> step, filter |-> filter, at |-> at, cards |-> K]
<1>1. request \in Poll
  BY DEF Poll
<1>2. request.step = step /\ request.filter = filter /\ request.cards = K
  OBVIOUS
<1>3. poll' = [poll EXCEPT ![p] = request]
  BY DEF SetsOut
<1> HIDE DEF request
<1> QED
  BY <1>1, <1>2, <1>3 DEF TypeOK

\* Pending cards are cards, of batches that were served.
LEMMA PendingAreServed ==
    ASSUME TypeOK, NEW filter, NEW at
    PROVE  /\ Pending(filter, at) \subseteq Keys
           /\ CardsOfServed => \A c \in Pending(filter, at) : IsServed(c[1])
  BY DEF Pending, TypeOK, IsTable, CardsOfServed, IsServed

\* The step of a device that asks: it is handed the pending cards, or sets out.
LEMMA AskMoves ==
    ASSUME TypeOK, NEW d \in Devices, NEW filter \in Filters, Ask(d, filter),
           NEW K, K = Pending(filter, now)
    PROVE  \/ /\ Advances(d) /\ poll'[d] = Idle
              /\ IsTable(held', Keys, Time) /\ DOMAIN held' = DOMAIN held \cup K
           \/ /\ SetsOut(d, "serve", filter, now, K) \/ SetsOut(d, "look", filter, now, K)
              /\ UNCHANGED held
<1>1. K \in SUBSET Keys /\ now \in Time /\ d \in Payers
  BY PendingAreServed DEF TypeOK, Payers
<1>2. \/ Hands(d, K, now)
      \/ (SetsOut(d, "serve", filter, now, K) \/ SetsOut(d, "look", filter, now, K)) /\ UNCHANGED held
  BY DEF Ask, SetsOut
<1>3. CASE Hands(d, K, now)
  BY <1>1, <1>3, HandsHolds
<1> QED
  BY <1>2, <1>3

\* Serving marks one batch, dates its cards and hands them over, or finds none.
Dealt(b) == {c \in DOMAIN cards : c[1] = b}
DealsOut(d, b) ==
    /\ b \in Ready(poll[d].filter)
    /\ batches' = [batches EXCEPT ![b].served = TRUE]
    /\ cards' = [c \in DOMAIN cards |-> IF c \in Dealt(b) THEN poll[d].at ELSE cards[c]]
    /\ Hands(d, Dealt(b), poll[d].at)
    /\ UNCHANGED <<now, votes, work>>
Misses(d) ==
    /\ Ready(poll[d].filter) = {}
    /\ Goes(d, "report")
    /\ UNCHANGED <<now, stored, work, held>>

\* Serve is one or the other.
LEMMA ServeDeals ==
    ASSUME NEW d, Serve(d)
    PROVE  poll[d].step = "serve" /\ (Misses(d) \/ \E b : DealsOut(d, b))
  BY DEF Serve, DealsOut, Misses, Oldest, Dealt, stored

\* A deal writes the row of the batch and those of its cards, each once.
LEMMA DealsServes ==
    ASSUME TypeOK, NEW d \in Payers, poll[d].step = "serve", NEW b, DealsOut(d, b)
    PROVE  /\ b \in DOMAIN batches /\ ~batches[b].served
           /\ IsTable(batches', BatchIds, Batch) /\ DOMAIN batches' = DOMAIN batches
           /\ batches'[b].served /\ batches'[b].filter = batches[b].filter
           /\ \A x \in DOMAIN batches \ {b} : batches'[x] = batches[x]
           /\ IsTable(cards', Keys, Time \cup {None}) /\ DOMAIN cards' = DOMAIN cards
           /\ \A c \in DOMAIN cards : (c[1] = b /\ cards'[c] \in Time) \/ (c[1] # b /\ cards'[c] = cards[c])
           /\ Advances(d) /\ poll'[d] = Idle
           /\ IsTable(held', Keys, Time) /\ DOMAIN held' = DOMAIN held \cup Dealt(b)
<1>1. b \in DOMAIN batches /\ ~batches[b].served /\ batches[b] \in Batch /\ poll[d].at \in Time
  BY InProgress DEF DealsOut, Ready, Matching, TypeOK, IsTable
<1>2. [batches[b] EXCEPT !.served = TRUE] \in Batch
  BY <1>1 DEF Batch
<1>3. batches' = [batches EXCEPT ![b] = [batches[b] EXCEPT !.served = TRUE]]
  BY DEF DealsOut
<1>4. /\ IsTable(batches', BatchIds, Batch) /\ DOMAIN batches' = DOMAIN batches
      /\ batches'[b] = [batches[b] EXCEPT !.served = TRUE]
      /\ \A x \in DOMAIN batches \ {b} : batches'[x] = batches[x]
  BY <1>1, <1>2, <1>3 DEF TypeOK, IsTable
<1>7. batches'[b].served /\ batches'[b].filter = batches[b].filter
  BY <1>1, <1>4 DEF Batch
<1>5. /\ IsTable(cards', Keys, Time \cup {None}) /\ DOMAIN cards' = DOMAIN cards
      /\ \A c \in DOMAIN cards : (c[1] = b /\ cards'[c] \in Time) \/ (c[1] # b /\ cards'[c] = cards[c])
  BY <1>1 DEF DealsOut, Dealt, TypeOK, IsTable
<1>6. Dealt(b) \in SUBSET Keys
  BY DEF Dealt, TypeOK, IsTable
<1> QED
  BY <1>1, <1>4, <1>5, <1>6, <1>7, HandsHolds DEF DealsOut

-----------------------------------------------------------------------------
(* The type invariant.                                                      *)

\* Nothing is stored, paid for or asked.
LEMMA InitSound == Init => Sound
<1> SUFFICES ASSUME Init PROVE Sound
  OBVIOUS
<1>1. TypeOK
  BY Numbers DEF Init, TypeOK, Time, IsTable, Empty, Job, Poll
<1> QED
  BY <1>1 DEF Init, Sound, CardsOfServed, HandedAreServed, Empty, Idle

\* The kinds dealt are two at most.
LEMMA DealsAreSmall ==
    ASSUME NEW kinds \in SUBSET Kinds
    PROVE  Cardinality(kinds) \in 0 .. 2
<1>1. Kinds = {"movie"} \cup {"tv"}
  BY DEF Kinds
<1>2. IsFiniteSet({"movie"}) /\ Cardinality({"movie"}) = 1
  BY FS_Singleton
<1>3. IsFiniteSet(Kinds) /\ Cardinality(Kinds) <= 2 /\ Cardinality(Kinds) \in Nat
  BY <1>1, <1>2, FS_AddElement
<1> QED
  BY <1>3, FS_Subset, FS_CardinalityType

\* The batch a generation stores (BatchGenerator._store).
Stored(b, filter, kinds) ==
    /\ b \in BatchIds \ DOMAIN batches
    /\ batches' = Put(batches, b, [filter |-> filter, created |-> now,
                                   size |-> Cardinality(kinds), served |-> FALSE])
    /\ cards' = [c \in DOMAIN cards \cup ({b} \X kinds) |-> IF c[1] = b THEN None ELSE cards[c]]

\* A batch that is added, and its cards without a date.
Adds(b, row, filter) ==
    /\ row.filter = filter
    /\ ~row.served
    /\ batches' = Put(batches, b, row)
AddsCards(b) ==
    /\ IsTable(cards', Keys, Time \cup {None})
    /\ \A c \in DOMAIN cards' :
         \/ c[1] = b /\ cards'[c] = None
         \/ c[1] # b /\ c \in DOMAIN cards /\ cards'[c] = cards[c]

\* A finished generation stores one batch.
LEMMA FinishStores ==
    ASSUME TypeOK, NEW filter \in Filters, NEW deal, Finish(filter, deal)
    PROVE  \E b \in BatchIds \ DOMAIN batches, row \in Batch : Adds(b, row, filter) /\ AddsCards(b)
<1> DEFINE kinds == deal \cap KindsOf(filter)
<1>1. kinds \in SUBSET Kinds
  BY DeckAssumption DEF KindsOf, Kinds
<1>2. PICK b \in BatchIds \ DOMAIN batches : Stored(b, filter, kinds)
  BY DEF Finish, Stored
<1> DEFINE row == [filter |-> filter, created |-> now, size |-> Cardinality(kinds), served |-> FALSE]
<1>3. row \in Batch
  BY <1>1, DealsAreSmall DEF Batch, TypeOK
<1>4. {b} \X kinds \in SUBSET Keys
  BY <1>1 DEF Keys
<1>5. IsTable(cards', Keys, Time \cup {None})
  BY <1>2, <1>4 DEF Stored, TypeOK, IsTable
<1>6. \A c \in DOMAIN cards' :
         \/ c[1] = b /\ cards'[c] = None
         \/ c[1] # b /\ c \in DOMAIN cards /\ cards'[c] = cards[c]
  <2>1. \A c \in {b} \X kinds : c[1] = b
    OBVIOUS
  <2> QED
    BY <1>2, <2>1 DEF Stored
<1>7. Adds(b, row, filter)
  BY <1>2 DEF Stored, Adds
<1> QED
  BY <1>3, <1>5, <1>6, <1>7 DEF AddsCards

\* The end of a generation leaves its slot, and what outlived its job, typed.
LEMMA OverTyped ==
    ASSUME TypeOK, NEW filter \in Filters, Over(filter)
    PROVE  /\ active' \in Filters \cup {None} /\ late' \in [Filters -> Nat]
           /\ \/ active = filter /\ active' = None /\ late' = late
              \/ /\ active' = active
                 /\ late[filter] > 0 /\ late' = [late EXCEPT ![filter] = @ - 1]
  BY DEF Over, TypeOK

\* What the purge leaves.
LEMMA PurgeKeeps ==
    ASSUME TypeOK, Purge
    PROVE  /\ batches' = Drop(batches, Unasked)
           /\ IsTable(batches', BatchIds, Batch)
           /\ IsTable(cards', Keys, Time \cup {None})
           /\ \A c \in DOMAIN cards' : c \in DOMAIN cards /\ cards'[c] = cards[c] /\ c[1] \notin Unasked
           /\ active' \in Filters \cup {None} /\ late' \in [Filters -> Nat]
           /\ overran' \in 0 .. MaxOverran /\ last' \in Job
<1>1. batches' = Drop(batches, Unasked) /\ cards' = Drop(cards, Shown \cup (Unasked \X Kinds))
  BY DEF Purge
<1>2. IsTable(batches', BatchIds, Batch) /\ IsTable(cards', Keys, Time \cup {None})
  BY <1>1, DropTable DEF TypeOK
<1>3. \A c \in DOMAIN cards' : c \in DOMAIN cards /\ cards'[c] = cards[c] /\ c[1] \notin Unasked
  BY <1>1 DEF Drop, TypeOK, IsTable, Keys
<1>4. /\ active' \in Filters \cup {None} /\ late' \in [Filters -> Nat]
      /\ overran' \in 0 .. MaxOverran /\ last' \in Job
  <2>1. CASE /\ active # None /\ overran < MaxOverran /\ active' = None
             /\ late' = [late EXCEPT ![active] = @ + 1] /\ overran' = overran + 1
             /\ Ended("failed", TRUE, FALSE)
    BY <2>1, Numbers DEF TypeOK, Ended, Job
  <2>2. CASE UNCHANGED <<active, late, last, overran>>
    BY <2>2 DEF TypeOK
  <2> QED
    BY <2>1, <2>2 DEF Purge
<1> QED
  BY <1>1, <1>2, <1>3, <1>4

\* A vote is dated, since what is in hand was served.
LEMMA VoteTyped ==
    ASSUME Sound, NEW c \in Keys, Vote(c)
    PROVE  IsTable(votes', Keys, Time)
<1>1. c \in DOMAIN held /\ c \in DOMAIN cards /\ now \in Time
  BY DEF Vote, Sound, TypeOK
<1>2. cards[c] \in Time
  BY <1>1 DEF Sound, TypeOK, IsTable, CardsOfServed, HandedAreServed, IsServed
<1>3. PICK at \in cards[c] .. now : votes' = Put(votes, c, at)
  BY DEF Vote
<1>4. at \in Time
  BY <1>1, <1>2, <1>3, Numbers DEF Time
<1> QED
  BY <1>3, <1>4, PutTable DEF Sound, TypeOK

\* Every step writes values of their types.
LEMMA NextTypeOK == Sound /\ [Next]_vars => TypeOK'
<1> SUFFICES ASSUME Sound, [Next]_vars PROVE TypeOK'
  OBVIOUS
<1> USE DEF stored, work
<1>0. TypeOK
  BY DEF Sound
<1>1. CASE Tick
  BY <1>0, <1>1, Numbers DEF Tick, TypeOK
<1>2. CASE Purge
  BY <1>0, <1>2, PurgeKeeps DEF Purge, TypeOK
<1>3. CASE Restart
  <2>1. poll' \in [Payers -> Poll] /\ active' \in Filters \cup {None} /\ late' \in [Filters -> Nat]
    BY <1>3 DEF Restart, Poll
  <2>2. last' \in Job
    <3>1. CASE Ended("failed", TRUE, FALSE)
      BY <1>0, <3>1 DEF TypeOK, Ended, Job
    <3>2. CASE UNCHANGED last
      BY <1>0, <3>2 DEF TypeOK
    <3> QED
      BY <1>3, <3>1, <3>2 DEF Restart
  <2> QED
    BY <1>0, <1>3, <2>1, <2>2 DEF Restart, TypeOK
<1>4. ASSUME NEW filter \in Filters, NEW deal \in Deals, Finish(filter, deal) PROVE TypeOK'
  <2>1. IsTable(batches', BatchIds, Batch) /\ IsTable(cards', Keys, Time \cup {None})
    <3>1. PICK b \in BatchIds \ DOMAIN batches, row \in Batch : Adds(b, row, filter) /\ AddsCards(b)
      BY <1>0, <1>4, FinishStores
    <3>2. IsTable(batches', BatchIds, Batch)
      BY <1>0, <3>1, PutTable DEF TypeOK, Adds
    <3> QED
      BY <3>1, <3>2 DEF AddsCards
  <2>2. active' \in Filters \cup {None} /\ late' \in [Filters -> Nat]
    BY <1>0, <1>4, OverTyped DEF Finish
  <2>3. last' \in Job
    BY <1>0, <1>4 DEF Finish, Ended, Job, TypeOK
  <2> QED
    BY <1>0, <1>4, <2>1, <2>2, <2>3 DEF Finish, TypeOK
<1>5. ASSUME NEW filter \in Filters, NEW silent \in BOOLEAN, Fail(filter, silent) PROVE TypeOK'
  <2>1. active' \in Filters \cup {None} /\ late' \in [Filters -> Nat]
    BY <1>0, <1>5, OverTyped DEF Fail
  <2>2. last' \in Job
    BY <1>0, <1>5 DEF Fail, Ended, Job, TypeOK
  <2> QED
    BY <1>0, <1>5, <2>1, <2>2 DEF Fail, TypeOK
<1>6. ASSUME NEW d \in Devices, NEW filter \in Filters, Ask(d, filter) PROVE TypeOK'
  <2>1. d \in Payers /\ now \in Time /\ Pending(filter, now) \in SUBSET Keys
    BY <1>0, PendingAreServed DEF Payers, TypeOK
  <2>2. poll' \in [Payers -> Poll] /\ IsTable(held', Keys, Time)
    <3>1. CASE Advances(d) /\ IsTable(held', Keys, Time)
      BY <3>1 DEF Advances
    <3>2. CASE SetsOut(d, "serve", filter, now, Pending(filter, now)) /\ UNCHANGED held
      BY <1>0, <2>1, <3>2, SetsOutTyped DEF TypeOK
    <3>3. CASE SetsOut(d, "look", filter, now, Pending(filter, now)) /\ UNCHANGED held
      BY <1>0, <2>1, <3>3, SetsOutTyped DEF TypeOK
    <3> QED
      BY <1>0, <1>6, <3>1, <3>2, <3>3, AskMoves
  <2> QED
    BY <1>0, <1>6, <2>2 DEF Ask, TypeOK
<1>7. ASSUME NEW p \in Payers, Looks(p) PROVE TypeOK'
  <2>1. poll' \in [Payers -> Poll] /\ IsTable(held', Keys, Time)
    BY <1>0, <1>7, LooksAdvance DEF Advances, Keeps
  <2>2. UNCHANGED <<now, batches, cards, votes, late, overran>>
    BY <1>0, <1>7, LooksAdvance
  <2>3. last' \in Job
    BY <1>0, <1>7 DEF Looks, LookReady, Report, LookExhausted, Cool, Claim, TypeOK, Job
  <2>4. active' \in Filters \cup {None} /\ paid' \in 0 .. MaxPaid
    <3>1. CASE UNCHANGED <<active, paid>>
      BY <1>0, <3>1 DEF TypeOK
    <3>2. CASE poll[p].step = "claim" /\ active' = poll[p].filter /\ paid' = paid + 1 /\ paid < MaxPaid
      BY <1>0, <3>2, InProgress, Numbers DEF TypeOK
    <3> QED
      BY <1>7, <3>1, <3>2 DEF Looks, LookReady, Report, LookExhausted, Cool, Claim
  <2> QED
    BY <1>0, <2>1, <2>2, <2>3, <2>4 DEF TypeOK
<1>8. ASSUME NEW d \in Devices, Serve(d) PROVE TypeOK'
  <2>1. d \in Payers /\ poll[d].step = "serve"
    BY <1>8, ServeDeals DEF Payers
  <2>2. CASE Misses(d)
    <3>1. poll' \in [Payers -> Poll]
      BY <1>0, <2>1, <2>2, GoesAdvances DEF Misses, Advances
    <3> QED
      BY <1>0, <2>2, <3>1 DEF Misses, TypeOK
  <2>3. ASSUME NEW b, DealsOut(d, b) PROVE TypeOK'
    <3>1. /\ poll' \in [Payers -> Poll] /\ IsTable(held', Keys, Time)
          /\ IsTable(batches', BatchIds, Batch) /\ IsTable(cards', Keys, Time \cup {None})
      BY <1>0, <2>1, <2>3, DealsServes DEF Advances
    <3> QED
      BY <1>0, <2>3, <3>1 DEF DealsOut, TypeOK
  <2> QED
    BY <1>8, <2>2, <2>3, ServeDeals
<1>9. ASSUME NEW s \in Sweeps, NEW filter \in Filters, Sweep(s, filter) PROVE TypeOK'
  <2>1. s \in Payers /\ 0 \in Time /\ SetsOut(s, "claim", filter, 0, {})
    BY <1>9, Numbers DEF Sweep, SetsOut, Payers, Time
  <2>2. poll' \in [Payers -> Poll]
    BY <1>0, <2>1, SetsOutTyped
  <2> QED
    BY <1>0, <1>9, <2>2 DEF Sweep, TypeOK
<1>10. ASSUME NEW c \in Keys, Vote(c) PROVE TypeOK'
  BY <1>0, <1>10, VoteTyped DEF Vote, TypeOK
<1>11. ASSUME NEW c \in Keys, Undo(c) PROVE TypeOK'
  BY <1>0, <1>11, DropTable DEF Undo, TypeOK
<1>12. CASE UNCHANGED vars
  BY <1>0, <1>12 DEF vars, TypeOK
<1> QED
  BY <1>1, <1>2, <1>3, <1>4, <1>5, <1>6, <1>7, <1>8, <1>9, <1>10, <1>11, <1>12
     DEF Next, Step, Looks, Payers

-----------------------------------------------------------------------------
(* What was handed over was served.                                         *)

\* The rows a step takes away or adds: those served stay, and cards keep to their
\* batches.
LEMMA NextCardsOfServed ==
    Sound /\ [Next]_vars =>
        /\ CardsOfServed'
        /\ \A b : IsServed(b) => IsServed(b)'
<1> SUFFICES ASSUME Sound, [Next]_vars
             PROVE  CardsOfServed' /\ \A b : IsServed(b) => IsServed(b)'
  OBVIOUS
<1>0. TypeOK /\ CardsOfServed
  BY DEF Sound
<1>1. CASE UNCHANGED <<batches, cards>>
  BY <1>0, <1>1 DEF CardsOfServed, IsServed
<1>2. CASE Purge
  <2>1. batches' = Drop(batches, Unasked)
    BY <1>0, <1>2, PurgeKeeps
  <2>2. \A b \in DOMAIN batches \ Unasked : b \in DOMAIN batches' /\ batches'[b] = batches[b]
    BY <2>1 DEF Drop
  <2>3. \A b : IsServed(b) => b \notin Unasked
    BY DEF Unasked, IsServed
  <2>4. \A c \in DOMAIN cards' : c \in DOMAIN cards /\ cards'[c] = cards[c] /\ c[1] \notin Unasked
    BY <1>0, <1>2, PurgeKeeps
  <2> QED
    BY <1>0, <2>2, <2>3, <2>4 DEF CardsOfServed, IsServed
<1>3. ASSUME NEW filter \in Filters, NEW deal \in Deals, Finish(filter, deal)
      PROVE  CardsOfServed' /\ \A b : IsServed(b) => IsServed(b)'
  <2>1. PICK b \in BatchIds \ DOMAIN batches, row \in Batch : Adds(b, row, filter) /\ AddsCards(b)
    BY <1>0, <1>3, FinishStores
  <2>2. /\ b \in DOMAIN batches' /\ ~batches'[b].served
        /\ \A x \in DOMAIN batches : x \in DOMAIN batches' /\ batches'[x] = batches[x]
    BY <2>1 DEF Put, Adds
  <2>3. \A c \in DOMAIN cards' :
           \/ c[1] = b /\ cards'[c] = None
           \/ c[1] # b /\ c \in DOMAIN cards /\ cards'[c] = cards[c]
    BY <2>1 DEF AddsCards
  <2> QED
    BY <1>0, <2>2, <2>3 DEF CardsOfServed, IsServed
<1>4. ASSUME NEW d \in Devices, NEW b, poll[d].step = "serve", DealsOut(d, b)
      PROVE  CardsOfServed' /\ \A x : IsServed(x) => IsServed(x)'
  <2>1. /\ b \in DOMAIN batches /\ ~batches[b].served
        /\ DOMAIN batches' = DOMAIN batches
        /\ batches'[b].served
        /\ \A x \in DOMAIN batches \ {b} : batches'[x] = batches[x]
        /\ DOMAIN cards' = DOMAIN cards
        /\ \A c \in DOMAIN cards : (c[1] = b /\ cards'[c] \in Time) \/ (c[1] # b /\ cards'[c] = cards[c])
    <3>1. d \in Payers
      BY DEF Payers
    <3>2. TypeOK /\ poll[d].step = "serve" /\ DealsOut(d, b)
      BY <1>0, <1>4
    <3> QED
      BY <3>1, <3>2, DealsServes
  <2> QED
    BY <1>0, <2>1, Numbers DEF CardsOfServed, IsServed
<1>5. CASE \E d \in Devices : Serve(d)
  BY <1>1, <1>4, <1>5, ServeDeals DEF Misses, stored
<1>6. CASE \E p \in Payers : Looks(p)
  BY <1>0, <1>1, <1>6, LooksAdvance DEF stored
<1> QED
  BY <1>1, <1>2, <1>3, <1>5, <1>6
     DEF Next, Step, Looks, Payers, vars, stored, Tick, Restart, Fail, Ask, Sweep, Vote, Undo

\* What a device is handed, or a poll sets out with, was served by then.
LEMMA NextHandedAreServed == Sound /\ [Next]_vars => HandedAreServed'
<1> SUFFICES ASSUME Sound, [Next]_vars PROVE HandedAreServed'
  OBVIOUS
<1>0. TypeOK /\ CardsOfServed /\ HandedAreServed /\ \A b : IsServed(b) => IsServed(b)'
  BY NextCardsOfServed DEF Sound
<1> DEFINE New == {c \in Keys : IsServed(c[1])'}
<1>a. ASSUME NEW p \in Payers, Advances(p), DOMAIN held' \subseteq DOMAIN held \cup poll[p].cards \cup New,
             DOMAIN held' \subseteq DOMAIN held \cup New \/ poll[p].step # "idle"
      PROVE  HandedAreServed'
  <2>1. \A c \in DOMAIN held' : IsServed(c[1])'
    BY <1>0, <1>a DEF HandedAreServed
  <2>2. \A q \in Payers : poll'[q].step # "idle" => poll[q].step # "idle" /\ poll'[q].cards = poll[q].cards
    BY <1>a DEF Advances, Idle
  <2> QED
    BY <1>0, <2>1, <2>2 DEF HandedAreServed
<1>1. CASE UNCHANGED <<poll, held>>
  BY <1>0, <1>1 DEF HandedAreServed
<1>2. CASE Restart
  <2>1. \A p \in Payers : poll'[p].step = "idle"
    BY <1>2 DEF Restart, Idle
  <2>2. held' = held
    BY <1>2 DEF Restart
  <2> QED
    BY <1>0, <2>1, <2>2 DEF HandedAreServed
<1>3. ASSUME NEW p \in Payers, NEW filter \in Filters, NEW at \in Time, NEW K \in SUBSET Keys,
             NEW step \in {"look", "serve", "claim"}, SetsOut(p, step, filter, at, K),
             \A c \in K : IsServed(c[1]), UNCHANGED held
      PROVE  HandedAreServed'
  <2>1. poll'[p].cards = K /\ \A q \in Payers \ {p} : poll'[q] = poll[q]
    BY <1>0, <1>3, SetsOutTyped
  <2> QED
    BY <1>0, <1>3, <2>1 DEF HandedAreServed
<1>4. ASSUME NEW d \in Devices, NEW filter \in Filters, Ask(d, filter) PROVE HandedAreServed'
  <2> DEFINE K == Pending(filter, now)
  <2>1. K \in SUBSET Keys /\ (\A c \in K : IsServed(c[1])) /\ now \in Time /\ d \in Payers
    BY <1>0, PendingAreServed DEF TypeOK, Payers
  <2>2. K \subseteq New
    BY <1>0, <2>1
  <2>3. \/ Advances(d) /\ DOMAIN held' = DOMAIN held \cup K
        \/ /\ SetsOut(d, "serve", filter, now, K) \/ SetsOut(d, "look", filter, now, K)
           /\ UNCHANGED held
    BY <1>0, <1>4, AskMoves
  <2> HIDE DEF K, New
  <2> QED
    BY <1>3, <1>a, <2>1, <2>2, <2>3
<1>5. ASSUME NEW p \in Payers, Looks(p) PROVE HandedAreServed'
  BY <1>0, <1>5, <1>a, LooksAdvance DEF Keeps
<1>6. ASSUME NEW d \in Devices, Serve(d) PROVE HandedAreServed'
  <2>1. d \in Payers /\ poll[d].step = "serve"
    BY <1>6, ServeDeals DEF Payers
  <2>2. CASE Misses(d)
    BY <1>0, <1>a, <2>1, <2>2, GoesAdvances DEF Misses
  <2>3. ASSUME NEW b, DealsOut(d, b) PROVE HandedAreServed'
    <3>1. /\ Advances(d) /\ DOMAIN held' = DOMAIN held \cup Dealt(b)
          /\ b \in DOMAIN batches' /\ batches'[b].served
      BY <1>0, <2>1, <2>3, DealsServes
    <3>2. IsServed(b)'
      BY <3>1 DEF IsServed
    <3>3. Dealt(b) \subseteq New
      BY <1>0, <3>2 DEF Dealt, TypeOK, IsTable
    <3> QED
      BY <1>a, <2>1, <3>1, <3>3
  <2> QED
    BY <1>6, <2>2, <2>3, ServeDeals
<1>7. ASSUME NEW s \in Sweeps, NEW filter \in Filters, Sweep(s, filter) PROVE HandedAreServed'
  <2>1. s \in Payers /\ 0 \in Time /\ SetsOut(s, "claim", filter, 0, {}) /\ UNCHANGED held
    BY <1>7, Numbers DEF Sweep, SetsOut, Payers, Time
  <2> QED
    BY <1>3, <2>1
<1> QED
  BY <1>1, <1>2, <1>4, <1>5, <1>6, <1>7
     DEF Next, Step, Looks, Payers, vars, Tick, Purge, Finish, Fail, Vote, Undo

\* Sound is inductive.
LEMMA NextSound == Sound /\ [Next]_vars => Sound'
  BY NextTypeOK, NextCardsOfServed, NextHandedAreServed DEF Sound

\* Every reachable state of the deck has its types, for any devices, sweeps,
\* filters, batches and lengths of time.
THEOREM DeckTyped == Spec => []TypeOK
<1>1. Sound => TypeOK
  BY DEF Sound
<1> QED
  BY <1>1, InitSound, NextSound, PTL DEF Spec

-----------------------------------------------------------------------------
(* What is paid for and unseen stays bounded.                               *)

\* The parts of Stock: the batches that are ready, and the payers past their look.
Waiting(f) == {b \in DOMAIN batches : batches[b].filter = f /\ ~batches[b].served /\ batches[b].size > 0}
Past(f) == {p \in Payers : Resolved(p, f)}
Making(f) == IF active = f THEN 1 ELSE 0

\* What outlived its job for one filter is among all that ever did; rows are
\* finitely many.
Counted ==
    /\ Sound
    /\ IsFiniteSet(DOMAIN batches)
    /\ \A f \in Filters : late[f] <= overran
    /\ StockIsBounded

\* The parts are numbers, and Stock is their sum.
Counts(f) ==
    /\ Stock(f) = Cardinality(Waiting(f)) + Cardinality(Past(f)) + Making(f) + late[f]
    /\ IsFiniteSet(Waiting(f)) /\ Cardinality(Waiting(f)) \in Nat
    /\ IsFiniteSet(Past(f)) /\ Cardinality(Past(f)) \in Nat
    /\ Cardinality(Past(f)) <= Cardinality(Payers) /\ Cardinality(Payers) \in Nat
    /\ Making(f) \in {0, 1} /\ late[f] \in Nat /\ overran \in Nat

\* They are, while rows are finitely many.
LEMMA StockIs == TypeOK /\ IsFiniteSet(DOMAIN batches) => \A f \in Filters : Counts(f)
<1> SUFFICES ASSUME TypeOK, IsFiniteSet(DOMAIN batches), NEW f \in Filters PROVE Counts(f)
  OBVIOUS
<1>1. {b \in Ready(f) : batches[b].filter = f} = Waiting(f)
  BY DEF Ready, Matching, Waiting
<1>2. Past(f) = {p \in Payers : Resolved(p, f)} /\ Making(f) = IF active = f THEN 1 ELSE 0
  BY DEF Past, Making
<1>3. Stock(f) = Cardinality(Waiting(f)) + Cardinality(Past(f)) + Making(f) + late[f]
  BY <1>1, <1>2 DEF Stock
<1>4. Waiting(f) \in SUBSET (DOMAIN batches) /\ Past(f) \in SUBSET Payers
  BY DEF Waiting, Past
<1>5. IsFiniteSet(Waiting(f)) /\ IsFiniteSet(Past(f)) /\ Cardinality(Past(f)) <= Cardinality(Payers)
  BY <1>4, FS_Subset, Numbers
<1>6. Cardinality(Waiting(f)) \in Nat /\ Cardinality(Past(f)) \in Nat /\ Cardinality(Payers) \in Nat
  BY <1>5, FS_CardinalityType, Numbers
<1>7. Making(f) \in {0, 1} /\ late[f] \in Nat /\ overran \in Nat
  BY DEF Making, TypeOK
<1> QED
  BY <1>3, <1>5, <1>6, <1>7 DEF Counts

\* Where no batch waits, the stock is within its bound whatever else there is: a
\* payer is past its look for one filter, and one generation is under way.
LEMMA NoneWaiting ==
    ASSUME NEW f \in Filters, Counts(f), Waiting(f) = {}, late[f] <= overran
    PROVE  Stock(f) <= Cardinality(Payers) + 1 + overran
<1>1. Cardinality(Waiting(f)) = 0
  BY FS_EmptySet
<1> QED
  BY <1>1 DEF Counts

\* The same of the next state.
LEMMA StockIsNext == (TypeOK /\ IsFiniteSet(DOMAIN batches) => \A f \in Filters : Counts(f))'
  BY StockIs, PTL

\* A part that loses elements, or stays, counts no more.
LEMMA FewerCount ==
    ASSUME NEW S, IsFiniteSet(S), NEW T, T \subseteq S
    PROVE  Cardinality(T) <= Cardinality(S) /\ Cardinality(T) \in Nat /\ Cardinality(S) \in Nat
  BY FS_Subset, FS_CardinalityType

\* One element more counts one more at most.
LEMMA OneMore ==
    ASSUME NEW S, IsFiniteSet(S), NEW x, NEW T, T \subseteq S \cup {x}
    PROVE  Cardinality(T) <= Cardinality(S) + 1 /\ Cardinality(T) \in Nat /\ Cardinality(S) \in Nat
<1>1. Cardinality(S) \in Nat
  BY FS_CardinalityType
<1>2. IsFiniteSet(S \cup {x}) /\ Cardinality(S \cup {x}) <= Cardinality(S) + 1
  BY <1>1, FS_AddElement
<1>3. Cardinality(T) <= Cardinality(S \cup {x}) /\ Cardinality(T) \in Nat
      /\ Cardinality(S \cup {x}) \in Nat
  BY <1>2, FewerCount
<1> QED
  BY <1>1, <1>2, <1>3

\* One element less counts one less.
LEMMA OneLess ==
    ASSUME NEW S, IsFiniteSet(S), NEW x \in S, NEW T, T \subseteq S \ {x}
    PROVE  Cardinality(T) + 1 <= Cardinality(S) /\ Cardinality(T) \in Nat /\ Cardinality(S) \in Nat
<1>1. Cardinality(S) \in Nat
  BY FS_CardinalityType
<1>2. IsFiniteSet(S \ {x}) /\ Cardinality(S \ {x}) = Cardinality(S) - 1
  BY FS_RemoveElement
<1>3. Cardinality(T) <= Cardinality(S \ {x}) /\ Cardinality(T) \in Nat
  BY <1>2, FewerCount
<1> QED
  BY <1>1, <1>2, <1>3

\* The rows stay finitely many, and what outlived its job is counted.
LEMMA NextFinite ==
    Counted /\ [Next]_vars =>
        /\ IsFiniteSet(DOMAIN batches')
        /\ \A f \in Filters : late'[f] <= overran'
<1> SUFFICES ASSUME Counted, [Next]_vars
             PROVE  IsFiniteSet(DOMAIN batches') /\ \A f \in Filters : late'[f] <= overran'
  OBVIOUS
<1>0. /\ TypeOK /\ IsFiniteSet(DOMAIN batches) /\ \A f \in Filters : late[f] <= overran
      /\ overran \in Nat /\ late \in [Filters -> Nat]
  BY DEF Counted, Sound, TypeOK
<1>1. CASE UNCHANGED <<batches, late, overran>>
  BY <1>0, <1>1
<1>2. CASE Purge
  <2>1. IsFiniteSet(DOMAIN batches')
    <3>1. DOMAIN batches' \in SUBSET (DOMAIN batches)
      BY <1>2 DEF Purge, Drop
    <3> QED
      BY <1>0, <3>1, FS_Subset
  <2>2. \A f \in Filters : late'[f] <= overran'
    <3>1. CASE UNCHANGED <<late, overran>>
      BY <1>0, <3>1
    <3>2. CASE late' = [late EXCEPT ![active] = @ + 1] /\ overran' = overran + 1
      BY <1>0, <3>2
    <3> QED
      BY <1>2, <3>1, <3>2 DEF Purge
  <2> QED
    BY <2>1, <2>2
<1>3. CASE Restart
  BY <1>0, <1>3 DEF Restart, stored
<1>4. ASSUME NEW filter \in Filters, NEW deal \in Deals, Finish(filter, deal)
      PROVE  IsFiniteSet(DOMAIN batches') /\ \A f \in Filters : late'[f] <= overran'
  <2>1. PICK b \in BatchIds \ DOMAIN batches, row \in Batch : Adds(b, row, filter)
    BY <1>0, <1>4, FinishStores
  <2>2. IsFiniteSet(DOMAIN batches')
    <3>1. DOMAIN batches' = DOMAIN batches \cup {b}
      BY <2>1 DEF Put, Adds
    <3> QED
      BY <1>0, <3>1, FS_AddElement
  <2>3. \A f \in Filters : late'[f] <= overran'
    BY <1>0, <1>4, OverTyped DEF Finish
  <2> QED
    BY <2>2, <2>3
<1>5. ASSUME NEW filter \in Filters, NEW silent \in BOOLEAN, Fail(filter, silent)
      PROVE  IsFiniteSet(DOMAIN batches') /\ \A f \in Filters : late'[f] <= overran'
  BY <1>0, <1>5, OverTyped DEF Fail, stored
<1>6. ASSUME NEW d \in Devices, Serve(d)
      PROVE  IsFiniteSet(DOMAIN batches') /\ \A f \in Filters : late'[f] <= overran'
  <2>1. CASE Misses(d)
    BY <1>0, <2>1 DEF Misses, stored, work
  <2>2. ASSUME NEW b, DealsOut(d, b)
        PROVE  IsFiniteSet(DOMAIN batches') /\ \A f \in Filters : late'[f] <= overran'
    BY <1>0, <2>2 DEF DealsOut, work
  <2> QED
    BY <1>6, <2>1, <2>2, ServeDeals
<1>7. CASE \E p \in Payers : Looks(p)
  BY <1>0, <1>1, <1>7, LooksAdvance DEF stored
<1> QED
  BY <1>1, <1>2, <1>3, <1>4, <1>5, <1>6, <1>7
     DEF Next, Step, Looks, Payers, vars, stored, work, Tick, Ask, Sweep, Vote, Undo

\* Whoever looked while no batch of its filter was ready knows that none waits.
LEMMA NoneReady ==
    ASSUME NEW f, Ready(f) = {}
    PROVE  Waiting(f) = {}
  BY DEF Ready, Matching, Waiting

\* Who is past a look for a filter, after one payer's step.
LEMMA PastMoves ==
    ASSUME NEW p \in Payers, \A q \in Payers \ {p} : poll'[q] = poll[q], NEW f
    PROVE  /\ Past(f)' \subseteq Past(f) \cup {p}
           /\ ~Resolved(p, f)' => Past(f)' \subseteq Past(f) \ {p}
  BY DEF Past, Resolved

\* A payer that advances is past its look for the filter it was asked for.
LEMMA AdvancePast ==
    ASSUME NEW p \in Payers, Advances(p), NEW f,
           Resolved(p, f) \/ poll'[p] = Idle \/ poll[p].filter # f
    PROVE  Past(f)' \subseteq Past(f) /\ (poll'[p] = Idle => Past(f)' \subseteq Past(f) \ {p})
<1>1. poll'[p] = Idle \/ poll[p].filter # f => ~Resolved(p, f)'
  BY DEF Advances, Resolved, Idle
<1>2. Past(f)' \subseteq Past(f) \cup {p} /\ (~Resolved(p, f)' => Past(f)' \subseteq Past(f) \ {p})
  BY PastMoves DEF Advances
<1>3. Resolved(p, f) => p \in Past(f)
  BY DEF Past
<1> QED
  BY <1>1, <1>2, <1>3

Bounded(f) == Stock(f) <= Cardinality(Payers) + 1 + overran

\* What is paid for stays within the bound: parts move into one another, and a
\* payer joins only when none waits.
LEMMA NextStock == Counted /\ [Next]_vars => StockIsBounded'
<1> SUFFICES ASSUME Counted, [Next]_vars, NEW f \in Filters
             PROVE  Bounded(f)'
  BY DEF StockIsBounded, Bounded
<1>0. /\ Counts(f) /\ Counts(f)' /\ TypeOK
      /\ Stock(f) <= Cardinality(Payers) + 1 + overran
      /\ late'[f] <= overran'
  BY NextSound, NextFinite, StockIs, StockIsNext DEF Counted, Sound, StockIsBounded
<1>a. ASSUME Waiting(f)' \subseteq Waiting(f), Past(f)' \subseteq Past(f), overran <= overran',
             Making(f)' + late'[f] <= Making(f) + late[f]
      PROVE  Bounded(f)'
  <2>1. Cardinality(Waiting(f)') <= Cardinality(Waiting(f))
    BY <1>0, <1>a, FewerCount DEF Counts
  <2>2. Cardinality(Past(f)') <= Cardinality(Past(f))
    BY <1>0, <1>a, FewerCount DEF Counts
  <2> QED
    BY <1>0, <1>a, <2>1, <2>2 DEF Counts, Bounded
<1>b. ASSUME Waiting(f)' = {} PROVE Bounded(f)'
  <2>1. Cardinality(Waiting(f)') = 0
    BY <1>b, FS_EmptySet
  <2> QED
    BY <1>0, <2>1 DEF Counts, Bounded
<1>c. ASSUME NEW b, Waiting(f)' \subseteq Waiting(f) \cup {b}, Past(f)' \subseteq Past(f),
             overran' = overran, Making(f)' + late'[f] + 1 <= Making(f) + late[f]
      PROVE  Bounded(f)'
  <2>1. Cardinality(Waiting(f)') <= Cardinality(Waiting(f)) + 1
    BY <1>0, <1>c, OneMore DEF Counts
  <2>2. Cardinality(Past(f)') <= Cardinality(Past(f))
    BY <1>0, <1>c, FewerCount DEF Counts
  <2> QED
    BY <1>0, <1>c, <2>1, <2>2 DEF Counts, Bounded
<1>d. ASSUME NEW p \in Past(f), Past(f)' \subseteq Past(f) \ {p}, Waiting(f)' = Waiting(f),
             overran' = overran, late' = late
      PROVE  Bounded(f)'
  <2>1. Cardinality(Past(f)') + 1 <= Cardinality(Past(f))
    BY <1>0, <1>d, OneLess DEF Counts
  <2>2. Making(f)' <= Making(f) + 1
    BY <1>0 DEF Counts
  <2> QED
    BY <1>0, <1>d, <2>1, <2>2 DEF Counts, Bounded
<1>e. ASSUME UNCHANGED batches PROVE Waiting(f)' = Waiting(f)
  BY <1>e DEF Waiting
<1>f. ASSUME UNCHANGED poll PROVE Past(f)' = Past(f)
  BY <1>f DEF Past, Resolved
<1>g. ASSUME UNCHANGED <<active, late>> PROVE Making(f)' + late'[f] <= Making(f) + late[f]
  BY <1>0, <1>g DEF Making, Counts
<1>h. overran <= overran /\ overran \in Nat
  BY <1>0 DEF Counts
<1>1. CASE UNCHANGED <<batches, poll, active, late, overran>>
  BY <1>1, <1>a, <1>e, <1>f, <1>g, <1>h
<1>2. CASE Purge
  <2>1. Waiting(f)' \subseteq Waiting(f)
    BY <1>2 DEF Purge, Drop, Waiting
  <2>2. Past(f)' = Past(f)
    BY <1>2, <1>f DEF Purge
  <2>3. Making(f)' + late'[f] <= Making(f) + late[f] /\ overran <= overran'
    <3>1. CASE UNCHANGED <<active, late, overran>>
      BY <1>g, <1>h, <3>1
    <3>2. CASE /\ active # None /\ active' = None
               /\ late' = [late EXCEPT ![active] = @ + 1] /\ overran' = overran + 1
      <4>1. Making(f)' = 0
        BY <3>2, Numbers DEF Making
      <4>2. late'[f] = IF active = f THEN late[f] + 1 ELSE late[f]
        BY <1>0, <3>2 DEF TypeOK
      <4>3. Making(f) = IF active = f THEN 1 ELSE 0
        BY DEF Making
      <4> QED
        BY <1>0, <1>h, <3>2, <4>1, <4>2, <4>3 DEF Counts
    <3> QED
      BY <1>2, <3>1, <3>2 DEF Purge
  <2> QED
    BY <1>a, <2>1, <2>2, <2>3
<1>3. CASE Restart
  <2>1. Past(f)' = {}
    BY <1>3 DEF Restart, Past, Resolved, Idle
  <2>2. Making(f)' = 0 /\ late'[f] = 0
    BY <1>3, Numbers DEF Restart, Making
  <2>3. Waiting(f)' = Waiting(f) /\ overran' = overran
    BY <1>3, <1>e DEF Restart, stored
  <2>4. Making(f)' + late'[f] <= Making(f) + late[f]
    BY <1>0, <2>2 DEF Counts
  <2> QED
    BY <1>a, <1>h, <2>1, <2>3, <2>4
<1>4. ASSUME NEW g \in Filters, Over(g)
      PROVE  /\ Making(f)' + late'[f] <= Making(f) + late[f]
             /\ g = f => Making(f)' + late'[f] + 1 <= Making(f) + late[f]
  <2>1. CASE active = g /\ active' = None /\ late' = late
    <3>1. Making(f)' = 0 /\ Making(f) = IF g = f THEN 1 ELSE 0
      BY <2>1, Numbers DEF Making
    <3> QED
      BY <1>0, <2>1, <3>1 DEF Counts
  <2>2. CASE active' = active /\ late[g] > 0 /\ late' = [late EXCEPT ![g] = @ - 1]
    <3>1. Making(f)' = Making(f)
      BY <2>2 DEF Making
    <3>2. late'[f] = IF g = f THEN late[f] - 1 ELSE late[f]
      BY <1>0, <2>2 DEF TypeOK
    <3> QED
      BY <1>0, <3>1, <3>2 DEF Counts
  <2> QED
    BY <1>0, <1>4, <2>1, <2>2, OverTyped
<1>5. ASSUME NEW g \in Filters, NEW deal \in Deals, Finish(g, deal) PROVE Bounded(f)'
  <2>1. PICK b \in BatchIds \ DOMAIN batches, row \in Batch : Adds(b, row, g)
    BY <1>0, <1>5, FinishStores
  <2>2. /\ Waiting(f)' \subseteq Waiting(f) \cup {b}
        /\ g # f => Waiting(f)' \subseteq Waiting(f)
    BY <2>1 DEF Waiting, Put, Adds
  <2>3. Past(f)' = Past(f) /\ overran' = overran /\ Over(g)
    BY <1>5, <1>f DEF Finish
  <2>4. CASE g = f
    BY <1>4, <1>c, <2>2, <2>3, <2>4
  <2>5. CASE g # f
    BY <1>4, <1>a, <1>h, <2>2, <2>3, <2>5
  <2> QED
    BY <2>4, <2>5
<1>6. ASSUME NEW g \in Filters, NEW silent \in BOOLEAN, Fail(g, silent) PROVE Bounded(f)'
  <2>1. Over(g) /\ UNCHANGED <<batches, poll, overran>>
    BY <1>6 DEF Fail, stored
  <2> QED
    BY <1>4, <1>a, <1>e, <1>f, <1>h, <2>1
<1>7. ASSUME NEW p \in Payers, Past(f)' \subseteq Past(f), UNCHANGED <<batches, active, late, overran>>
      PROVE  Bounded(f)'
  BY <1>7, <1>a, <1>e, <1>g, <1>h
<1>8. ASSUME NEW p \in Payers, Advances(p), Ready(poll[p].filter) = {} \/ Resolved(p, poll[p].filter),
             UNCHANGED <<batches, active, late, overran>>
      PROVE  Bounded(f)'
  <2>1. CASE poll[p].filter # f \/ Resolved(p, f)
    BY <1>7, <1>8, <2>1, AdvancePast
  <2>2. CASE poll[p].filter = f /\ ~Resolved(p, f)
    <3>1. Waiting(f)' = {}
      BY <1>8, <1>e, <2>2, NoneReady
    <3> QED
      BY <1>b, <3>1
  <2> QED
    BY <2>1, <2>2
<1>9. ASSUME NEW d \in Devices, NEW g \in Filters, Ask(d, g) PROVE Bounded(f)'
  <2> DEFINE K == Pending(g, now)
  <2>1. d \in Payers /\ now \in Time /\ K \in SUBSET Keys
    BY <1>0, PendingAreServed DEF Payers, TypeOK
  <2>2. UNCHANGED <<batches, active, late, overran>>
    BY <1>9 DEF Ask, stored, work
  <2>3. \/ Advances(d) /\ poll'[d] = Idle
        \/ SetsOut(d, "serve", g, now, K) \/ SetsOut(d, "look", g, now, K)
    BY <1>0, <1>9, AskMoves
  <2> HIDE DEF K
  <2>4. CASE Advances(d) /\ poll'[d] = Idle
    BY <1>7, <2>1, <2>2, <2>4, AdvancePast
  <2>5. CASE SetsOut(d, "serve", g, now, K) \/ SetsOut(d, "look", g, now, K)
    <3>1. /\ \A q \in Payers \ {d} : poll'[q] = poll[q]
          /\ poll'[d].step \in {"serve", "look"}
      BY <1>0, <2>1, <2>5, SetsOutTyped
    <3>2. Past(f)' \subseteq Past(f) \ {d}
      BY <2>1, <3>1, PastMoves DEF Resolved
    <3> QED
      BY <1>7, <2>1, <2>2, <3>2
  <2> QED
    BY <2>3, <2>4, <2>5
<1>10. ASSUME NEW p \in Payers, LookReady(p) \/ Report(p) \/ LookExhausted(p) \/ Cool(p) PROVE Bounded(f)'
  <2>1. Advances(p) /\ UNCHANGED <<batches, active, late, overran>>
    BY <1>0, <1>10, LooksAdvance DEF Looks, LookReady, Report, LookExhausted, Cool, work, stored
  <2>2. CASE LookReady(p) /\ Ready(poll[p].filter) # {}
    <3>1. poll'[p] = Idle
      BY <1>0, <2>2 DEF LookReady, Hands, Ends, TypeOK
    <3> QED
      BY <1>7, <2>1, <3>1, AdvancePast
  <2>3. CASE LookReady(p) /\ Ready(poll[p].filter) = {}
    BY <1>8, <2>1, <2>3
  <2>4. CASE Report(p) \/ LookExhausted(p) \/ Cool(p)
    <3>1. Resolved(p, poll[p].filter)
      BY <2>4 DEF Report, LookExhausted, Cool, Resolved
    <3> QED
      BY <1>8, <2>1, <3>1
  <2> QED
    BY <1>10, <2>2, <2>3, <2>4
<1>11. ASSUME NEW p \in Payers, Claim(p) PROVE Bounded(f)'
  <2>1. Advances(p) /\ poll'[p] = Idle
    <3>1. Parts(p)
      BY <1>11 DEF Claim
    <3>2. poll[p].step # "idle"
      BY <1>11 DEF Claim
    <3> QED
      BY <1>0, <3>1, <3>2, PartsAdvances
  <2>2. Resolved(p, poll[p].filter) /\ UNCHANGED <<batches, late, overran>>
    BY <1>11 DEF Claim, Resolved, stored
  <2>3. CASE UNCHANGED active
    BY <1>8, <2>1, <2>2, <2>3
  <2>4. CASE active = None /\ active' = poll[p].filter
    <3>1. CASE poll[p].filter = f
      <4>1. p \in Past(f) /\ Past(f)' \subseteq Past(f) \ {p}
        BY <2>1, <2>2, <3>1, AdvancePast DEF Past
      <4> QED
        BY <1>d, <1>e, <2>2, <4>1
    <3>2. CASE poll[p].filter # f
      <4>1. Making(f)' = 0
        BY <2>4, <3>2 DEF Making
      <4>2. Past(f)' \subseteq Past(f)
        BY <2>1, <3>2, AdvancePast
      <4>3. Making(f)' + late'[f] <= Making(f) + late[f]
        BY <1>0, <2>2, <4>1 DEF Counts
      <4> QED
        BY <1>a, <1>e, <1>h, <2>2, <4>2, <4>3
    <3> QED
      BY <3>1, <3>2
  <2> QED
    BY <1>11, <2>3, <2>4 DEF Claim
<1>12. ASSUME NEW d \in Devices, Serve(d) PROVE Bounded(f)'
  <2>1. d \in Payers /\ poll[d].step = "serve"
    BY <1>12, ServeDeals DEF Payers
  <2>2. CASE Misses(d)
    <3>1. Advances(d)
      BY <1>0, <2>1, <2>2, GoesAdvances DEF Misses
    <3>2. Ready(poll[d].filter) = {} /\ UNCHANGED <<batches, active, late, overran>>
      BY <2>2 DEF Misses, stored, work
    <3> QED
      BY <1>8, <2>1, <3>1, <3>2
  <2>3. ASSUME NEW b, DealsOut(d, b) PROVE Bounded(f)'
    <3>1. /\ Advances(d) /\ poll'[d] = Idle
          /\ DOMAIN batches' = DOMAIN batches
          /\ batches'[b].served
          /\ \A x \in DOMAIN batches \ {b} : batches'[x] = batches[x]
      BY <1>0, <2>1, <2>3, DealsServes
    <3>2. Waiting(f)' \subseteq Waiting(f)
      BY <3>1 DEF Waiting
    <3>3. Past(f)' \subseteq Past(f)
      BY <2>1, <3>1, AdvancePast
    <3>4. UNCHANGED <<active, late, overran>>
      BY <2>3 DEF DealsOut, work
    <3> QED
      BY <1>a, <1>g, <1>h, <3>2, <3>3, <3>4
  <2> QED
    BY <1>12, <2>2, <2>3, ServeDeals
<1>13. ASSUME NEW s \in Sweeps, NEW g \in Filters, Sweep(s, g) PROVE Bounded(f)'
  <2>1. s \in Payers /\ 0 \in Time /\ SetsOut(s, "claim", g, 0, {}) /\ Ready(g) = {}
    BY <1>13, Numbers DEF Sweep, SetsOut, Payers, Time
  <2>2. UNCHANGED <<batches, active, late, overran>>
    BY <1>13 DEF Sweep, stored, work
  <2>3. CASE g = f
    BY <1>b, <1>e, <2>1, <2>2, <2>3, NoneReady
  <2>4. CASE g # f
    <3>1. poll'[s].filter = g /\ \A q \in Payers \ {s} : poll'[q] = poll[q]
      BY <1>0, <2>1, SetsOutTyped
    <3>2. Past(f)' \subseteq Past(f) \ {s}
      BY <2>1, <2>4, <3>1, PastMoves DEF Resolved
    <3> QED
      BY <1>7, <2>1, <2>2, <3>2
  <2> QED
    BY <2>3, <2>4
<1>14. CASE Tick \/ (\E c \in Keys : Vote(c) \/ Undo(c)) \/ UNCHANGED vars
  BY <1>1, <1>14 DEF Tick, Vote, Undo, vars, stored, work
<1>15. CASE \E d \in Devices : (\E g \in Filters : Ask(d, g)) \/ Step(d)
  BY <1>9, <1>10, <1>12, <1>15 DEF Step, Payers
<1>16. CASE \E g \in Filters : (\E deal \in Deals : Finish(g, deal)) \/ \E s \in BOOLEAN : Fail(g, s)
  BY <1>5, <1>6, <1>16
<1> QED
  BY <1>2, <1>3, <1>11, <1>13, <1>14, <1>15, <1>16 DEF Next

\* Whatever polls and sweeps of any number of devices overlap, what is paid for and
\* unseen stays within one more than there are of them, and what was given up.
THEOREM PaysAheadOnce == Spec => []StockIsBounded
<1>1. Init => Counted
  <2> SUFFICES ASSUME Init PROVE Counted
    OBVIOUS
  <2>1. Sound
    BY InitSound
  <2>2. DOMAIN batches = {} /\ IsFiniteSet(DOMAIN batches)
    BY FS_EmptySet DEF Init, Empty
  <2>3. overran = 0 /\ \A f \in Filters : late[f] = 0
    BY DEF Init
  <2>4. \A f \in Filters : Counts(f) /\ Waiting(f) = {}
    BY <2>1, <2>2, StockIs DEF Sound, Waiting
  <2>5. StockIsBounded
    BY <2>3, <2>4, NoneWaiting DEF StockIsBounded
  <2> QED
    BY <2>1, <2>2, <2>3, <2>5 DEF Counted
<1>2. Counted /\ [Next]_vars => Counted'
  BY NextSound, NextFinite, NextStock DEF Counted
<1>3. Counted => StockIsBounded
  BY DEF Counted
<1> QED
  BY <1>1, <1>2, <1>3, PTL DEF Spec

-----------------------------------------------------------------------------
(* What is offered (Offering).                                             *)

\* A step of the instance is a step of Offering, or leaves it alone.
LEMMA OfferingAlone ==
    /\ MCInit => O!Init
    /\ [MCNext]_MCVars => [O!Next]_O!vars
<1>1. ASSUME MCInit PROVE O!Init
  BY <1>1 DEF MCInit
<1>2. ASSUME [MCNext]_MCVars PROVE [O!Next]_O!vars
  BY <1>2 DEF MCNext, MCVars, ofOffering, O!vars
<1> QED
  BY <1>1, <1>2

\* What a title's answer, and its being watched, say of a context read at a time.
AnswerRespected(t, read) ==
    t \in DOMAIN answers /\ answers[t].heard < read =>
        answers[t].value = "skip" /\ answers[t].at + CoolDown <= read
WatchRespected(t, read) == t \in DOMAIN watched => watched[t] >= read
Respected(t, read) == AnswerRespected(t, read) /\ WatchRespected(t, read)

\* The generation under way respects what it read, in every title it may still choose;
\* a card is of a batch that is there, and nothing is read before its time.
OfferInv ==
    /\ day \in Nat
    /\ DOMAIN shown \subseteq O!Keys
    /\ \A c \in DOMAIN shown : c[1] \in DOMAIN dealt
    /\ \A t \in DOMAIN answers : answers[t].at \in Nat
    /\ \A b \in DOMAIN dealt : dealt[b].read \in Nat /\ dealt[b].read <= day
    /\ job # O!Idle => /\ job.read \in Nat /\ job.read <= day
                       /\ \A t \in Offers \ job.excluded : Respected(t, job.read)
    /\ \A c \in DOMAIN shown : Respected(c[2], dealt[c[1]].read)

\* Answers and what was watched stay respected while none is added before its time.
LEMMA RespectedStays ==
    ASSUME NEW t, NEW read, Respected(t, read),
           t \in DOMAIN answers' => \/ t \in DOMAIN answers /\ answers'[t] = answers[t]
                                    \/ ~(answers'[t].heard < read),
           t \in DOMAIN watched' => \/ t \in DOMAIN watched /\ watched'[t] = watched[t]
                                    \/ watched'[t] >= read
    PROVE  Respected(t, read)'
  BY DEF Respected, AnswerRespected, WatchRespected

\* A step that adds no card and forgets no batch with cards, and moves no reading.
LEMMA OfferKeeps ==
    ASSUME OfferInv, day' \in Nat, day <= day',
           DOMAIN shown' \subseteq DOMAIN shown, \A c \in DOMAIN shown' : c[1] \in DOMAIN dealt',
           \A b \in DOMAIN dealt' : b \in DOMAIN dealt /\ dealt'[b].read = dealt[b].read,
           job' = job \/ job' = O!Idle,
           \A t \in DOMAIN answers' :
             \/ t \in DOMAIN answers /\ answers'[t] = answers[t]
             \/ answers'[t].heard = day /\ answers'[t].at \in Nat,
           \A t \in DOMAIN watched' : (t \in DOMAIN watched /\ watched'[t] = watched[t]) \/ watched'[t] = day
    PROVE  OfferInv'
<1>1. ASSUME NEW t, NEW read \in Nat, read <= day, Respected(t, read) PROVE Respected(t, read)'
  <2>1. ~(day < read) /\ day >= read
    BY <1>1 DEF OfferInv
  <2> QED
    BY <1>1, <2>1, RespectedStays
<1>2. O!Idle' = O!Idle
  BY DEF O!Idle
<1>3. job' # O!Idle => job' = job /\ job # O!Idle
  OBVIOUS
<1>5. job' # O!Idle => /\ job'.read \in Nat /\ job'.read <= day'
                       /\ (\A t \in Offers \ job.excluded : Respected(t, job.read))'
  <2> HAVE job' # O!Idle
  <2>1. /\ job' = job /\ job.read \in Nat /\ job.read <= day /\ day \in Nat
        /\ \A t \in Offers \ job.excluded : Respected(t, job.read)
    BY <1>3 DEF OfferInv
  <2>2. ASSUME NEW t \in Offers \ job.excluded, NEW read, read = job.read PROVE Respected(t, read)'
    BY <1>1, <2>1, <2>2
  <2> QED
    BY <2>1, <2>2 DEF Respected, AnswerRespected, WatchRespected
<1>6. ASSUME NEW c \in DOMAIN shown', NEW read, read = dealt'[c[1]].read PROVE Respected(c[2], read)'
  BY <1>1, <1>6 DEF OfferInv
<1>7. \A b \in DOMAIN dealt' : dealt'[b].read \in Nat /\ dealt'[b].read <= day'
  BY DEF OfferInv
<1>8. \A c \in DOMAIN shown' : Respected(c[2], dealt[c[1]].read)'
  BY <1>6 DEF Respected, AnswerRespected, WatchRespected
<1>9. /\ DOMAIN shown' \subseteq O!Keys' /\ \A c \in DOMAIN shown' : c[1] \in DOMAIN dealt'
      /\ \A t \in DOMAIN answers' : answers'[t].at \in Nat
  BY DEF OfferInv, O!Keys
<1> QED
  BY <1>2, <1>5, <1>7, <1>8, <1>9 DEF OfferInv, Respected, AnswerRespected, WatchRespected

\* Nothing is offered at first.
LEMMA OfferInit == O!Init => OfferInv
  BY DEF O!Init, O!Empty, OfferInv

\* What is read respects every answer there is: a title left in has no opinion, was
\* not said "not now" to within the cool-down, and is not known to be watched.
LEMMA ReadStep ==
    ASSUME OfferInv, NEW filter \in Filters, O!Read(filter)
    PROVE  OfferInv'
<1>1. /\ job' = [step |-> "chosen", filter |-> filter, read |-> day, excluded |-> O!Excluded]
      /\ UNCHANGED <<day, dealt, shown, answers, watched>>
  BY DEF O!Read
<1>2. \A t \in Offers \ O!Excluded : Respected(t, day)
  <2> SUFFICES ASSUME NEW t \in Offers \ O!Excluded PROVE Respected(t, day)
    OBVIOUS
  <2>1. t \notin O!Opinions /\ t \notin O!Served /\ t \notin DOMAIN watched
    BY DEF O!Excluded
  <2>2. CASE t \in DOMAIN answers
    <3>3. answers[t].at \in Nat /\ CoolDown \in Nat /\ day \in Nat
      BY <2>2, OfferingAssumption DEF OfferInv, O!OfferingAssumption
    <3>4. \A x, y, z \in Nat : ~(x + y > z) => x + y <= z
      OBVIOUS
    <3>1. t \in O!Skipped /\ t \notin O!Cooling
      BY <2>1, <2>2 DEF O!Opinions, O!Served, O!Skipped
    <3>2. answers[t].value = "skip" /\ ~(answers[t].at + CoolDown > day)
      BY <3>1 DEF O!Skipped, O!Cooling
    <3> QED
      BY <2>1, <3>2, <3>3, <3>4 DEF Respected, AnswerRespected, WatchRespected
  <2>3. CASE t \notin DOMAIN answers
    BY <2>1, <2>3 DEF Respected, AnswerRespected, WatchRespected
  <2> QED
    BY <2>2, <2>3
<1>3. job' # O!Idle /\ job'.read = day /\ job'.excluded = O!Excluded
  BY <1>1 DEF O!Idle
<1>4. /\ day' \in Nat /\ DOMAIN shown' \subseteq O!Keys'
      /\ \A c \in DOMAIN shown' : c[1] \in DOMAIN dealt'
      /\ \A t \in DOMAIN answers' : answers'[t].at \in Nat
      /\ \A b \in DOMAIN dealt' : dealt'[b].read \in Nat /\ dealt'[b].read <= day'
  BY <1>1 DEF OfferInv, O!Keys
<1>5. /\ job'.read \in Nat /\ job'.read <= day'
      /\ (\A t \in Offers \ job.excluded : Respected(t, job.read))'
  BY <1>1, <1>2, <1>3, <1>4 DEF Respected, AnswerRespected, WatchRespected
<1>6. (\A c \in DOMAIN shown : Respected(c[2], dealt[c[1]].read))'
  BY <1>1 DEF OfferInv, Respected, AnswerRespected, WatchRespected
<1>7. O!Idle' = O!Idle
  BY DEF O!Idle
<1> QED
  BY <1>3, <1>4, <1>5, <1>6, <1>7 DEF OfferInv

\* The cards stored are of titles the context left in, and of a new batch.
LEMMA StoreStep ==
    ASSUME OfferInv, NEW chosen \in SUBSET Offers, O!Store(chosen)
    PROVE  OfferInv'
<1>1. /\ job # O!Idle /\ chosen \cap job.excluded = {} /\ job' = O!Idle
      /\ UNCHANGED <<day, answers, watched>>
  BY DEF O!Store
<1>2. PICK b \in (1 .. Deals2) \ DOMAIN dealt :
        /\ dealt' = O!Put(dealt, b, [filter |-> job.filter, read |-> job.read,
                                     created |-> day, served |-> FALSE])
        /\ shown' = [c \in DOMAIN shown \cup ({b} \X chosen) |-> IF c[1] = b THEN None ELSE shown[c]]
  BY DEF O!Store
<1>3. /\ DOMAIN dealt' = DOMAIN dealt \cup {b} /\ dealt'[b].read = job.read
      /\ \A x \in DOMAIN dealt : dealt'[x] = dealt[x]
  BY <1>2 DEF O!Put
<1>4. DOMAIN shown' = DOMAIN shown \cup ({b} \X chosen)
  BY <1>2
<1>5. \A c \in {b} \X chosen : c \in O!Keys /\ c[1] = b /\ c[2] \in Offers \ job.excluded
  BY <1>1, <1>2 DEF O!Keys
<1>6. ASSUME NEW c \in DOMAIN shown' PROVE Respected(c[2], dealt'[c[1]].read)
  BY <1>1, <1>3, <1>4, <1>5 DEF OfferInv
<1>7. (\A c \in DOMAIN shown : Respected(c[2], dealt[c[1]].read))'
  BY <1>1, <1>6 DEF Respected, AnswerRespected, WatchRespected
<1>8. /\ DOMAIN shown' \subseteq O!Keys /\ \A c \in DOMAIN shown' : c[1] \in DOMAIN dealt'
  BY <1>3, <1>4, <1>5 DEF OfferInv
<1>9. \A x \in DOMAIN dealt' : dealt'[x].read \in Nat /\ dealt'[x].read <= day'
  BY <1>1, <1>3 DEF OfferInv
<1>10. O!Idle' = O!Idle /\ O!Keys' = O!Keys
  BY DEF O!Idle, O!Keys
<1> QED
  BY <1>1, <1>7, <1>8, <1>9, <1>10 DEF OfferInv
-----------------------------------------------------------------------------
\* Every step respects the answers.
LEMMA OfferNext == OfferInv /\ [O!Next]_O!vars => OfferInv'
<1> SUFFICES ASSUME OfferInv, [O!Next]_O!vars PROVE OfferInv'
  OBVIOUS
<1>1. CASE O!Tick
  BY <1>1, OfferKeeps DEF O!Tick, OfferInv
<1>2. CASE O!Lose
  BY <1>2, OfferKeeps DEF O!Lose, OfferInv
<1>3. CASE O!Purge
  <2>1. /\ UNCHANGED <<day, answers, watched, job>>
        /\ \E cs, bs : /\ shown' = O!Drop(shown, cs \cup (bs \X Offers)) /\ dealt' = O!Drop(dealt, bs)
    BY <1>3 DEF O!Purge
  <2>2. PICK cs, bs : shown' = O!Drop(shown, cs \cup (bs \X Offers)) /\ dealt' = O!Drop(dealt, bs)
    BY <2>1
  <2>3. /\ DOMAIN shown' = DOMAIN shown \ (cs \cup (bs \X Offers)) /\ DOMAIN dealt' = DOMAIN dealt \ bs
        /\ \A b \in DOMAIN dealt' : dealt'[b] = dealt[b]
    BY <2>2 DEF O!Drop
  <2>4. \A c \in DOMAIN shown' : c[1] \in DOMAIN dealt'
    BY <2>3 DEF OfferInv, O!Keys
  <2>5. DOMAIN shown' \subseteq DOMAIN shown /\ DOMAIN dealt' \subseteq DOMAIN dealt
    BY <2>3
  <2>6. day \in Nat /\ day <= day
    BY DEF OfferInv
  <2>7. UNCHANGED <<day, answers, watched, job>>
    BY <2>1
  <2>8. \A b \in DOMAIN dealt' : dealt'[b].read = dealt[b].read
    BY <2>3
  <2> QED
    BY <2>4, <2>5, <2>6, <2>7, <2>8, OfferKeeps
<1>4. ASSUME NEW f \in Filters, O!Read(f) PROVE OfferInv'
  BY <1>4, ReadStep
<1>5. ASSUME NEW f \in Filters, O!Serve(f) PROVE OfferInv'
  <2>1. PICK b \in DOMAIN dealt :
          /\ dealt' = [dealt EXCEPT ![b].served = TRUE]
          /\ shown' = [c \in DOMAIN shown |-> IF c[1] = b THEN day ELSE shown[c]]
    BY <1>5 DEF O!Serve, O!Ready
  <2>2. UNCHANGED <<day, answers, watched, job>>
    BY <1>5 DEF O!Serve
  <2>3. DOMAIN shown' = DOMAIN shown /\ DOMAIN dealt' = DOMAIN dealt
    BY <2>1
  <2>4. \A x \in DOMAIN dealt : dealt'[x].read = dealt[x].read
    BY <2>1
  <2> QED
    BY <2>2, <2>3, <2>4, OfferKeeps DEF OfferInv
<1>6. ASSUME NEW chosen \in SUBSET Offers, O!Store(chosen) PROVE OfferInv'
  BY <1>6, StoreStep
<1>7. ASSUME NEW c \in O!Keys, NEW value \in O!Answers, NEW at \in O!Time, O!Answer(c, value, at)
      PROVE  OfferInv'
  <2>1. /\ answers' = O!Put(answers, c[2], [value |-> value, at |-> at, heard |-> day, card |-> c])
        /\ UNCHANGED <<day, dealt, shown, watched, job>>
    BY <1>7 DEF O!Answer
  <2>2. at \in Nat
    BY OfferingAssumption DEF O!Time, O!OfferingAssumption
  <2>3. \A t \in DOMAIN answers' :
          \/ t \in DOMAIN answers /\ answers'[t] = answers[t]
          \/ answers'[t].heard = day /\ answers'[t].at \in Nat
    BY <2>1, <2>2 DEF O!Put
  <2> QED
    BY <2>1, <2>3, OfferKeeps DEF OfferInv
<1>8. ASSUME NEW t \in Offers, O!Undo(t) \/ O!Learn(t) \/ O!Forget(t) PROVE OfferInv'
  <2>1. UNCHANGED <<day, dealt, shown, job>>
    BY <1>8 DEF O!Undo, O!Learn, O!Forget
  <2>2. \A x \in DOMAIN answers' : x \in DOMAIN answers /\ answers'[x] = answers[x]
    BY <1>8 DEF O!Undo, O!Learn, O!Forget, O!Drop
  <2>3. \A x \in DOMAIN watched' : (x \in DOMAIN watched /\ watched'[x] = watched[x]) \/ watched'[x] = day
    BY <1>8 DEF O!Undo, O!Learn, O!Forget, O!Drop, O!Put
  <2> QED
    BY <2>1, <2>2, <2>3, OfferKeeps DEF OfferInv
<1>9. CASE UNCHANGED O!vars
  BY <1>9, OfferKeeps DEF O!vars, OfferInv
<1> QED
  BY <1>1, <1>2, <1>3, <1>4, <1>5, <1>6, <1>7, <1>8, <1>9 DEF O!Next

\* Nobody is offered what they already answered for (build_context, _served, _as_votes):
\* whatever was answered, undone, watched, served or deleted while the batch was made.
THEOREM AnswersRespected == MCSpec => []AnswersAreRespected
<1>1. OfferInv => AnswersAreRespected
  BY DEF OfferInv, Respected, AnswerRespected, WatchRespected, AnswersAreRespected, O!AnswersAreRespected
<1>2. MCInit => OfferInv
  BY OfferingAlone, OfferInit
<1>3. OfferInv /\ [MCNext]_MCVars => OfferInv'
  BY OfferingAlone, OfferNext
<1> QED
  BY <1>1, <1>2, <1>3, PTL DEF MCSpec

-----------------------------------------------------------------------------
(* What becomes of a verdict (WebDeck).                                     *)

\* A step of the instance is a step of WebDeck, or leaves it alone.
LEMMA ConsoleAlone ==
    /\ MCInit => W!Init
    /\ [MCNext]_MCVars => [W!Next]_W!vars
<1>1. ASSUME MCInit PROVE W!Init
  BY <1>1 DEF MCInit
<1>2. ASSUME [MCNext]_MCVars PROVE [W!Next]_W!vars
  BY <1>2 DEF MCNext, MCVars, ofWebDeck, W!vars, W!server, W!history
<1> QED
  BY <1>1, <1>2

\* Counting in WebDeck is counting.
LEMMA ConsoleCount == \A S : W!Cardinality(S) = Cardinality(S)
  BY DEF W!Cardinality, Cardinality

\* Verdicts are numbered from one, and those that were carried, stored or taken back
\* were cast; what stands for a card is a verdict on it that the server has seen.
Casts ==
    /\ DOMAIN cast = 1 .. Cardinality(DOMAIN cast)
    /\ Cardinality(DOMAIN cast) \in 0 .. MaxVerdicts
    /\ \A v \in DOMAIN cast : cast[v] \in TabCards
    /\ kept \cup attempted \cup withdrawn \cup back \cup overruled \subseteq DOMAIN cast
    /\ receipts \subseteq attempted
    /\ DOMAIN standing = TabCards
    /\ \A c \in TabCards : standing[c] # 0 => standing[c] \in receipts /\ cast[standing[c]] = c

\* One page is open at most; what a page submits was carried, and what is stored has
\* its receipt.
PagesAreSound ==
    /\ pages \in [Visits -> W!Page]
    /\ \A p, q \in Visits : pages[p].state = "open" /\ pages[q].state = "open" => p = q
    /\ \A p \in Visits :
         /\ pages[p].queue \subseteq DOMAIN cast
         /\ pages[p].batch \subseteq attempted
         /\ pages[p].chain = "idle" => pages[p].batch = {}
         /\ pages[p].chain = "stored" => pages[p].batch \subseteq receipts
         /\ pages[p].last = 0 \/ pages[p].last \in DOMAIN cast
         /\ pages[p].undoing = 0 \/ pages[p].undoing \in DOMAIN cast

\* As long as no page was left in haste, the open page's queue is the module's, and no
\* other page submits.
QueuesAgree ==
    ~hasty => \A p \in Visits :
        IF pages[p].state = "open" THEN pages[p].queue = kept ELSE pages[p].chain = "idle"

\* A verdict that stands and has its receipt is the one stored.
Receipted == \A v \in receipts \cap W!Standing : standing[cast[v]] = v

\* No page but the one that would undo it has the last verdict, whichever pages were
\* left.
LastIsOwn ==
    \A p \in Visits : pages[p].state = "open" /\ pages[p].last # 0 =>
        /\ pages[p].last \in kept => pages[p].last \in pages[p].queue
        /\ \A q \in Visits \ {p} : pages[p].last \notin pages[q].queue \cup pages[q].batch

\* A verdict being undone or taken back is in no queue and no submission.
Gone(v) == v \notin kept /\ \A p \in Visits : v \notin pages[p].queue \cup pages[p].batch
UndoneIsGone ==
    /\ \A p \in Visits : pages[p].undoing # 0 => Gone(pages[p].undoing)
    /\ \A v \in back : Gone(v) /\ standing[cast[v]] # v

ConsoleInv ==
    /\ Casts /\ PagesAreSound /\ QueuesAgree /\ Receipted /\ LastIsOwn /\ UndoneIsGone
    /\ W!VerdictsAreKept
-----------------------------------------------------------------------------
\* A console nobody opened is in order.
LEMMA ConsoleInit == W!Init => ConsoleInv
<1> SUFFICES ASSUME W!Init PROVE ConsoleInv
  OBVIOUS
<1>1. /\ DOMAIN cast = {} /\ kept = {} /\ attempted = {} /\ receipts = {} /\ withdrawn = {}
      /\ back = {} /\ overruled = {} /\ standing = [c \in TabCards |-> 0]
      /\ pages = [p \in Visits |-> W!Unopened]
  BY DEF W!Init
<1>2. Cardinality({}) = 0 /\ MaxVerdicts \in Nat
  BY FS_EmptySet, WebDeckAssumption DEF W!WebDeckAssumption
<1>3. /\ W!Unopened \in W!Page /\ W!Unopened.state = "unopened" /\ W!Unopened.queue = {}
      /\ W!Unopened.batch = {} /\ W!Unopened.chain = "idle" /\ W!Unopened.last = 0
      /\ W!Unopened.undoing = 0
  BY <1>2 DEF W!Unopened, W!Page
<1>4. Casts
  <2>1. 1 .. 0 = {} /\ 0 \in 0 .. MaxVerdicts
    BY <1>2
  <2>2. Cardinality(DOMAIN cast) = 0
    BY <1>1, <1>2
  <2>3. DOMAIN cast = 1 .. Cardinality(DOMAIN cast) /\ Cardinality(DOMAIN cast) \in 0 .. MaxVerdicts
    BY <1>1, <2>1, <2>2
  <2> QED
    BY <1>1, <2>3 DEF Casts
<1>5. PagesAreSound
  BY <1>1, <1>3 DEF PagesAreSound
<1>6. W!Standing = {}
  BY <1>1 DEF W!Standing
<1> QED
  BY <1>1, <1>3, <1>4, <1>5, <1>6 DEF ConsoleInv, QueuesAgree, Receipted, LastIsOwn,
        UndoneIsGone, W!VerdictsAreKept

\* A page that is left is the page it was.
LEMMA Leaving ==
    ASSUME NEW page \in W!Page
    PROVE  LET left == [page EXCEPT !.state = "left"]
           IN  /\ left \in W!Page /\ left.state = "left" /\ left.queue = page.queue
               /\ left.batch = page.batch /\ left.chain = page.chain /\ left.last = page.last
               /\ left.undoing = page.undoing
  BY DEF W!Page

\* What a page becomes, which is nothing when it was left and awaits nothing.
IsOrIsGone(new, page) ==
    /\ new.state = page.state /\ new.chain = page.chain /\ new.undoing = page.undoing
    /\ new.queue \subseteq page.queue /\ new.batch \subseteq page.batch
    /\ new.last = page.last \/ new.last = 0
    /\ page.state = "open" => new = page
\* It becomes the page it is to be, or that nothing, and the others stay.
LEMMA Becoming ==
    ASSUME PagesAreSound, NEW p \in Visits, NEW page \in W!Page, W!Becomes(p, page)
    PROVE  /\ pages' \in [Visits -> W!Page]
           /\ \A q \in Visits \ {p} : pages'[q] = pages[q]
           /\ IsOrIsGone(pages'[p], page)
<1>1. MaxVerdicts \in Nat
  BY WebDeckAssumption DEF W!WebDeckAssumption
<1> DEFINE blank == [W!Unopened EXCEPT !.state = "left"]
<1>2. /\ blank \in W!Page /\ blank.state = "left" /\ blank.queue = {} /\ blank.batch = {}
      /\ blank.chain = "idle" /\ blank.last = 0 /\ blank.undoing = 0
  <2>1. /\ W!Unopened \in W!Page /\ W!Unopened.queue = {} /\ W!Unopened.batch = {}
        /\ W!Unopened.chain = "idle" /\ W!Unopened.last = 0 /\ W!Unopened.undoing = 0
    BY <1>1 DEF W!Unopened, W!Page
  <2> QED
    BY <2>1, Leaving
<1>3. pages \in [Visits -> W!Page]
  BY DEF PagesAreSound
<1>4. CASE page.state = "left" /\ page.chain = "idle" /\ page.undoing = 0
  <2>1. pages' = [pages EXCEPT ![p] = blank]
    BY <1>4 DEF W!Becomes
  <2> HIDE DEF blank
  <2> QED
    BY <1>2, <1>3, <1>4, <2>1 DEF IsOrIsGone
<1>5. CASE ~(page.state = "left" /\ page.chain = "idle" /\ page.undoing = 0)
  <2>1. pages' = [pages EXCEPT ![p] = page]
    BY <1>5 DEF W!Becomes
  <2> QED
    BY <1>3, <2>1 DEF IsOrIsGone
<1> QED
  BY <1>4, <1>5

\* The next link of the chain takes the whole queue, or waits.
LEMMA Flushing ==
    ASSUME NEW page \in W!Page
    PROVE  /\ W!Flushed(page) \in W!Page
           /\ W!Flushed(page).state = page.state /\ W!Flushed(page).queue = page.queue
           /\ W!Flushed(page).last = page.last /\ W!Flushed(page).undoing = page.undoing
           /\ \/ W!Flushed(page).chain = page.chain /\ W!Flushed(page).batch = page.batch
              \/ W!Flushed(page).chain = "sent" /\ W!Flushed(page).batch = page.queue
  BY DEF W!Flushed, W!Page
-----------------------------------------------------------------------------
\* A page that is left, or asks, or hears that its request failed, changes nothing else.
LEMMA QuietStep ==
    ASSUME ConsoleInv, NEW p \in Visits, pages' \in [Visits -> W!Page],
           UNCHANGED <<cast, kept, attempted, standing, receipts, withdrawn, back, overruled>>,
           \A q \in Visits \ {p} : pages'[q] = pages[q],
           pages'[p].queue \subseteq pages[p].queue, pages'[p].batch \subseteq pages[p].batch,
           pages'[p].chain = pages[p].chain,
           pages'[p].last = pages[p].last \/ pages'[p].last = 0,
           pages'[p].undoing = pages[p].undoing \/ pages'[p].undoing = 0,
           pages'[p].state = "open" => pages[p].state = "open" /\ pages'[p].queue = pages[p].queue,
           hasty => hasty', ~hasty' /\ pages'[p].state # "open" => pages[p].chain = "idle"
    PROVE  ConsoleInv'
<1>1. Casts'
  BY DEF ConsoleInv, Casts
<1>2. PagesAreSound'
  BY DEF ConsoleInv, PagesAreSound
<1>3. QueuesAgree'
  BY DEF ConsoleInv, QueuesAgree
<1>4. W!Standing' = W!Standing
  BY DEF W!Standing, W!Newest
<1>5. Receipted' /\ W!VerdictsAreKept'
  BY <1>4 DEF ConsoleInv, Receipted, W!VerdictsAreKept
<1>6. LastIsOwn'
  BY DEF ConsoleInv, LastIsOwn
<1>7. ASSUME NEW v, Gone(v) PROVE Gone(v)'
  BY <1>7 DEF Gone
<1>8. UndoneIsGone'
  BY <1>7 DEF ConsoleInv, UndoneIsGone
<1> QED
  BY <1>1, <1>2, <1>3, <1>5, <1>6, <1>8 DEF ConsoleInv

\* A page that submits, again or not, and what the answer leaves of its queue; what
\* left the queue with the answer is stored.
LEMMA SubmitStep ==
    ASSUME ConsoleInv, NEW p \in Visits, NEW page \in W!Page, W!Becomes(p, page),
           UNCHANGED <<cast, standing, receipts, withdrawn, back, overruled, hasty>>,
           attempted' = attempted \cup page.batch,
           page.state = pages[p].state, page.last = pages[p].last,
           page.undoing = pages[p].undoing, page.queue \subseteq pages[p].queue,
           page.batch \subseteq pages[p].queue, page.chain # "stored",
           page.chain = "idle" => page.batch = {},
           pages[p].state = "open" \/ pages[p].chain # "idle",
           \/ kept' = page.queue /\ pages[p].queue \ page.queue \subseteq receipts
           \/ kept' = kept /\ page.queue = pages[p].queue
    PROVE  ConsoleInv'
<1>1. /\ pages' \in [Visits -> W!Page] /\ \A q \in Visits \ {p} : pages'[q] = pages[q]
      /\ IsOrIsGone(pages'[p], page)
  BY Becoming DEF ConsoleInv
<1>2. /\ pages'[p].state = pages[p].state /\ pages'[p].chain = page.chain
      /\ pages'[p].undoing = pages[p].undoing /\ pages'[p].queue \subseteq pages[p].queue
      /\ pages'[p].batch \subseteq page.batch /\ pages'[p].batch \subseteq pages[p].queue
      /\ pages'[p].last = pages[p].last \/ pages'[p].last = 0
      /\ pages[p].state = "open" => pages'[p] = page
  BY <1>1 DEF IsOrIsGone
<1>3. kept' \subseteq kept \cup pages[p].queue /\ pages[p].queue \subseteq DOMAIN cast
  BY DEF ConsoleInv, PagesAreSound
<1>4. Casts'
  BY <1>3 DEF ConsoleInv, Casts
<1>5. PagesAreSound'
  BY <1>1, <1>2 DEF ConsoleInv, PagesAreSound
<1>6. ~hasty => pages[p].state = "open" /\ pages[p].queue = kept
  BY DEF ConsoleInv, QueuesAgree
<1>7. QueuesAgree'
  BY <1>1, <1>2, <1>6 DEF ConsoleInv, QueuesAgree, PagesAreSound
<1>8. W!Standing' = W!Standing
  BY DEF W!Standing, W!Newest
<1>9. Receipted'
  BY <1>8 DEF ConsoleInv, Receipted
<1>10. W!VerdictsAreKept'
  BY <1>6, <1>8 DEF ConsoleInv, W!VerdictsAreKept, Receipted
<1>11. LastIsOwn'
  <2> SUFFICES ASSUME NEW o \in Visits, pages'[o].state = "open", pages'[o].last # 0
               PROVE  /\ pages'[o].last \in kept' => pages'[o].last \in pages'[o].queue
                      /\ \A q \in Visits \ {o} : pages'[o].last \notin pages'[q].queue \cup pages'[q].batch
    BY DEF LastIsOwn
  <2>1. /\ pages[o].state = "open" /\ pages'[o].last = pages[o].last
    BY <1>1, <1>2
  <2>2. /\ pages[o].last \in kept => pages[o].last \in pages[o].queue
        /\ \A q \in Visits \ {o} : pages[o].last \notin pages[q].queue \cup pages[q].batch
    BY <2>1 DEF ConsoleInv, LastIsOwn
  <2>3. CASE o = p
    BY <1>1, <1>2, <2>1, <2>2, <2>3
  <2>4. CASE o # p
    BY <1>1, <1>2, <1>3, <2>1, <2>2, <2>4
  <2> QED
    BY <2>3, <2>4
<1>12. ASSUME NEW v, Gone(v) PROVE Gone(v)'
  BY <1>1, <1>2, <1>3, <1>12 DEF Gone
<1>13. UndoneIsGone'
  BY <1>1, <1>2, <1>12 DEF ConsoleInv, UndoneIsGone
<1> QED
  BY <1>4, <1>5, <1>7, <1>9, <1>10, <1>11, <1>13 DEF ConsoleInv

\* A page that opens takes the module's queue over.
LEMMA OpenStep ==
    ASSUME ConsoleInv, NEW p \in Visits, W!OpenPage(p)
    PROVE  ConsoleInv'
<1> DEFINE page == [W!Unopened EXCEPT !.state = "open", !.queue = kept, !.asked = TRUE]
<1>0. MaxVerdicts \in Nat
  BY WebDeckAssumption DEF W!WebDeckAssumption
<1>1. kept \subseteq DOMAIN cast /\ DOMAIN cast \subseteq W!Verdicts
  <2>1. kept \subseteq DOMAIN cast /\ DOMAIN cast = 1 .. Cardinality(DOMAIN cast)
        /\ Cardinality(DOMAIN cast) \in 0 .. MaxVerdicts
    BY DEF ConsoleInv, Casts
  <2> QED
    BY <1>0, <2>1 DEF W!Verdicts
<1>2. /\ page \in W!Page /\ page.state = "open" /\ page.queue = kept /\ page.batch = {}
      /\ page.chain = "idle" /\ page.last = 0 /\ page.undoing = 0
  <2>1. /\ W!Unopened \in W!Page /\ W!Unopened.batch = {}
        /\ W!Unopened.chain = "idle" /\ W!Unopened.last = 0 /\ W!Unopened.undoing = 0
    BY <1>0 DEF W!Unopened, W!Page
  <2> QED
    BY <1>1, <2>1 DEF W!Page
<1>3. /\ \A q \in Visits : pages[q].state # "open" /\ W!Becomes(p, page)
      /\ UNCHANGED <<cast, kept, attempted, standing, receipts, withdrawn, back, overruled, hasty>>
  BY DEF W!OpenPage, W!Open, W!server, W!history
<1> HIDE DEF page
<1>4. /\ pages' \in [Visits -> W!Page] /\ \A q \in Visits \ {p} : pages'[q] = pages[q]
      /\ pages'[p] = page
  BY <1>2, <1>3, Becoming DEF ConsoleInv, IsOrIsGone
<1>5. Casts'
  BY <1>3 DEF ConsoleInv, Casts
<1>6. PagesAreSound'
  BY <1>1, <1>2, <1>3, <1>4 DEF ConsoleInv, PagesAreSound
<1>7. QueuesAgree'
  BY <1>2, <1>3, <1>4 DEF ConsoleInv, QueuesAgree
<1>8. W!Standing' = W!Standing
  BY <1>3 DEF W!Standing, W!Newest
<1>9. Receipted' /\ W!VerdictsAreKept'
  BY <1>3, <1>8 DEF ConsoleInv, Receipted, W!VerdictsAreKept
<1>10. LastIsOwn'
  BY <1>2, <1>3, <1>4 DEF LastIsOwn
<1>11. ASSUME NEW v, Gone(v) PROVE Gone(v)'
  BY <1>2, <1>3, <1>4, <1>11 DEF Gone
<1>12. UndoneIsGone'
  BY <1>2, <1>3, <1>4, <1>11 DEF ConsoleInv, UndoneIsGone
<1> QED
  BY <1>5, <1>6, <1>7, <1>9, <1>10, <1>12 DEF ConsoleInv

\* There are k verdicts up to the kth.
LEMMA CountTo == \A k \in Nat : Cardinality(1 .. k) = k
<1> SUFFICES ASSUME NEW k \in Nat PROVE Cardinality(1 .. k) = k
  OBVIOUS
<1>1. Cardinality(1 .. k) = IF 1 > k THEN 0 ELSE k - 1 + 1
  BY FS_Interval
<1> QED
  BY <1>1

\* A verdict joins the page's queue and the module's.
LEMMA VoteStep ==
    ASSUME ConsoleInv, NEW p \in Visits, NEW c \in TabCards, W!Vote(p, c)
    PROVE  ConsoleInv'
<1> DEFINE n == Cardinality(DOMAIN cast) + 1
           voted == [pages[p] EXCEPT !.queue = @ \cup {n}, !.judged = @ \cup {c}, !.last = n,
                                     !.refill = @ \/ W!Remaining(p) = {c}]
           page == W!Flushed(voted)
<1>0. MaxVerdicts \in Nat /\ pages[p] \in W!Page
  BY WebDeckAssumption DEF W!WebDeckAssumption, ConsoleInv, PagesAreSound
<1>1. /\ DOMAIN cast = 1 .. Cardinality(DOMAIN cast) /\ Cardinality(DOMAIN cast) \in Nat
      /\ Cardinality(DOMAIN cast) < MaxVerdicts
  BY <1>0, ConsoleCount DEF ConsoleInv, Casts, W!Vote
<1>2. /\ n \in Nat /\ n >= 1 /\ n <= MaxVerdicts /\ n \notin DOMAIN cast
      /\ 1 .. n = DOMAIN cast \cup {n} /\ \A v \in DOMAIN cast : v <= n
  <2> DEFINE k == Cardinality(DOMAIN cast)
  <2>1. k \in Nat /\ k < MaxVerdicts /\ DOMAIN cast = 1 .. k /\ n = k + 1
    BY <1>1
  <2> HIDE DEF k, n
  <2>2. n \in Nat /\ n >= 1 /\ n <= MaxVerdicts /\ n \notin 1 .. k /\ 1 .. n = (1 .. k) \cup {n}
        /\ \A v \in 1 .. k : v <= n
    BY <1>0, <2>1
  <2> QED
    BY <2>1, <2>2
<1>3. /\ pages[p].state = "open" /\ W!Becomes(p, page) /\ kept' = page.queue
      /\ attempted' = attempted \cup page.batch
      /\ cast' = [v \in 1 .. n |-> IF v = n THEN c ELSE cast[v]]
      /\ UNCHANGED <<standing, receipts, withdrawn, back, overruled, hasty>>
  BY ConsoleCount DEF W!Vote, W!Open, W!Carried, W!server, W!history
<1>4. DOMAIN cast' = DOMAIN cast \cup {n} /\ cast'[n] = c /\ \A v \in DOMAIN cast : cast'[v] = cast[v]
  <2>1. DOMAIN cast' = 1 .. n
    BY <1>3
  <2> HIDE DEF n
  <2> QED
    BY <1>2, <1>3, <2>1
<1>5. Cardinality(DOMAIN cast') = n
  <2>1. DOMAIN cast' = 1 .. n
    BY <1>3
  <2> QED
    BY <1>2, <2>1, CountTo
<1>6. DOMAIN cast' = 1 .. Cardinality(DOMAIN cast')
  BY <1>3, <1>5
<1> HIDE DEF n
<1>7. /\ voted \in W!Page /\ voted.state = "open" /\ voted.queue = pages[p].queue \cup {n}
      /\ voted.batch = pages[p].batch /\ voted.chain = pages[p].chain /\ voted.last = n
      /\ voted.undoing = pages[p].undoing
  <2> DEFINE refill == pages[p].refill \/ W!Remaining(p) = {c}
  <2>1. refill \in BOOLEAN
    OBVIOUS
  <2>2. /\ pages[p].queue \cup {n} \in SUBSET W!Verdicts /\ pages[p].judged \cup {c} \in SUBSET TabCards
        /\ n \in 0 .. MaxVerdicts
    BY <1>0, <1>2 DEF W!Page, W!Verdicts
  <2>3. voted = [pages[p] EXCEPT !.queue = pages[p].queue \cup {n}, !.judged = pages[p].judged \cup {c},
                                 !.last = n, !.refill = refill]
    BY DEF voted
  <2> HIDE DEF voted, refill
  <2> QED
    BY <1>0, <1>3, <2>1, <2>2, <2>3 DEF W!Page
<1> HIDE DEF voted
<1>8. /\ page \in W!Page /\ page.state = "open" /\ page.queue = pages[p].queue \cup {n}
      /\ page.last = n /\ page.undoing = pages[p].undoing
      /\ \/ page.chain = pages[p].chain /\ page.batch = pages[p].batch
         \/ page.chain = "sent" /\ page.batch = pages[p].queue \cup {n}
  BY <1>7, Flushing
<1> HIDE DEF page
<1>9. /\ pages' \in [Visits -> W!Page] /\ \A q \in Visits \ {p} : pages'[q] = pages[q]
      /\ pages'[p] = page
  BY <1>3, <1>8, Becoming DEF ConsoleInv, IsOrIsGone
<1>10. pages[p].queue \subseteq DOMAIN cast /\ pages[p].batch \subseteq DOMAIN cast
  BY DEF ConsoleInv, PagesAreSound, Casts
<1>11. Casts'
  <2>1. Cardinality(DOMAIN cast') \in 0 .. MaxVerdicts
    BY <1>0, <1>2, <1>5
  <2>2. \A v \in DOMAIN cast' : cast'[v] \in TabCards
    BY <1>4 DEF ConsoleInv, Casts
  <2>3. kept' \cup attempted' \cup withdrawn \cup back \cup overruled \subseteq DOMAIN cast'
    BY <1>3, <1>4, <1>8, <1>10 DEF ConsoleInv, Casts
  <2>4. \A d \in TabCards : standing[d] # 0 => standing[d] \in receipts /\ cast'[standing[d]] = d
    BY <1>4 DEF ConsoleInv, Casts
  <2>5. receipts \subseteq attempted' /\ DOMAIN standing = TabCards
    BY <1>3 DEF ConsoleInv, Casts
  <2> QED
    BY <1>3, <1>6, <2>1, <2>2, <2>3, <2>4, <2>5 DEF Casts
<1>12. PagesAreSound'
  BY <1>3, <1>4, <1>8, <1>9, <1>10 DEF ConsoleInv, PagesAreSound
<1>13. QueuesAgree'
  BY <1>3, <1>8, <1>9 DEF ConsoleInv, QueuesAgree, PagesAreSound
<1>14. ASSUME NEW v \in W!Standing', v # n PROVE v \in W!Standing /\ cast'[v] = cast[v]
  BY <1>3, <1>4, <1>14 DEF W!Standing, W!Newest
<1>15. n \notin receipts /\ n \notin kept /\ n \notin back
       /\ \A q \in Visits : n \notin pages[q].queue \cup pages[q].batch /\ pages[q].undoing # n
  BY <1>2 DEF ConsoleInv, Casts, PagesAreSound
<1>16. Receipted'
  BY <1>3, <1>14, <1>15 DEF ConsoleInv, Receipted
<1>17. W!VerdictsAreKept'
  BY <1>3, <1>8, <1>14 DEF ConsoleInv, W!VerdictsAreKept, QueuesAgree
<1>18. LastIsOwn'
  BY <1>3, <1>8, <1>9, <1>15 DEF ConsoleInv, LastIsOwn, PagesAreSound
<1>19. ASSUME NEW v, Gone(v), v # n PROVE Gone(v)'
  BY <1>3, <1>8, <1>9, <1>19 DEF Gone
<1>20. UndoneIsGone'
  <2>1. \A q \in Visits : pages'[q].undoing = pages[q].undoing /\ pages[q].undoing # n
    BY <1>8, <1>9, <1>15
  <2>2. \A q \in Visits : \A v : v = pages[q].undoing /\ v # 0 => Gone(v)'
    BY <1>15, <1>19 DEF ConsoleInv, UndoneIsGone
  <2>3. \A v \in back' : Gone(v)' /\ standing'[cast'[v]] # v
    BY <1>3, <1>4, <1>15, <1>19 DEF ConsoleInv, UndoneIsGone, Casts
  <2> QED
    BY <2>1, <2>2, <2>3 DEF UndoneIsGone, Gone
<1> QED
  BY <1>11, <1>12, <1>13, <1>16, <1>17, <1>18, <1>20 DEF ConsoleInv

\* The server takes a batch: what stands for a card is a verdict of the batch, or what
\* stood before, and never an older one.
LEMMA DeliverStep ==
    ASSUME ConsoleInv, NEW p \in Visits, W!Deliver(p)
    PROVE  ConsoleInv'
<1> DEFINE page == [pages[p] EXCEPT !.chain = "stored"]
           fresh == pages[p].batch \ receipts
           newest(c) == {v \in fresh : cast[v] = c /\ v >= standing[c]
                                       /\ \A w \in fresh : cast[w] = c => w <= v}
<1>0. /\ pages[p] \in W!Page /\ pages[p].batch \subseteq attempted
      /\ DOMAIN cast \subseteq Nat /\ attempted \subseteq DOMAIN cast
      /\ \A c \in TabCards : standing[c] = 0 \/ standing[c] \in Nat
  <2>1. Cardinality(DOMAIN cast) \in Nat /\ DOMAIN cast = 1 .. Cardinality(DOMAIN cast)
    BY WebDeckAssumption DEF ConsoleInv, Casts, W!WebDeckAssumption
  <2>2. DOMAIN cast \subseteq Nat
    BY <2>1
  <2> QED
    BY <2>2 DEF ConsoleInv, PagesAreSound, Casts
<1>1. /\ standing' = [c \in TabCards |-> IF newest(c) = {} THEN standing[c]
                                         ELSE CHOOSE v \in newest(c) : TRUE]
      /\ receipts' = receipts \cup pages[p].batch /\ W!Becomes(p, page) /\ pages[p].chain = "sent"
      /\ UNCHANGED <<cast, kept, attempted, withdrawn, back, overruled, hasty>>
  BY DEF W!Deliver, W!history
<1>2. /\ page \in W!Page /\ page.state = pages[p].state /\ page.queue = pages[p].queue
      /\ page.batch = pages[p].batch /\ page.chain = "stored" /\ page.last = pages[p].last
      /\ page.undoing = pages[p].undoing
  BY <1>0 DEF W!Page
<1> HIDE DEF page
<1>3. /\ pages' \in [Visits -> W!Page] /\ \A q \in Visits \ {p} : pages'[q] = pages[q]
      /\ IsOrIsGone(pages'[p], page)
  BY <1>1, <1>2, Becoming DEF ConsoleInv
<1>4. /\ pages'[p].state = pages[p].state /\ pages'[p].chain = "stored"
      /\ pages'[p].undoing = pages[p].undoing /\ pages'[p].queue \subseteq pages[p].queue
      /\ pages'[p].batch \subseteq pages[p].batch
      /\ pages'[p].last = pages[p].last \/ pages'[p].last = 0
      /\ pages[p].state = "open" => pages'[p].queue = pages[p].queue
  BY <1>2, <1>3 DEF IsOrIsGone
<1>5. ASSUME NEW c \in TabCards
      PROVE  \/ standing'[c] = standing[c] /\ newest(c) = {}
             \/ standing'[c] \in newest(c)
  <2>1. CASE newest(c) = {}
    BY <1>1, <2>1
  <2>2. CASE newest(c) # {}
    <3>1. (CHOOSE v \in newest(c) : TRUE) \in newest(c)
      BY <2>2
    <3>2. standing'[c] = CHOOSE v \in newest(c) : TRUE
      BY <1>1, <2>2
    <3> QED
      BY <3>1, <3>2
  <2> QED
    BY <2>1, <2>2
<1>6. ASSUME NEW c \in TabCards
      PROVE  \/ standing'[c] = standing[c] /\ \A v \in fresh : cast[v] = c => ~(v >= standing[c] /\ \A w \in fresh : cast[w] = c => w <= v)
             \/ /\ standing'[c] \in pages[p].batch /\ cast[standing'[c]] = c /\ standing'[c] >= standing[c]
                /\ \A w \in fresh : cast[w] = c => w <= standing'[c]
  BY <1>5
<1> HIDE DEF newest
<1>7. Casts'
  <2>1. DOMAIN standing' = TabCards
    BY <1>1
  <2>2. \A c \in TabCards : standing'[c] # 0 => standing'[c] \in receipts' /\ cast[standing'[c]] = c
    <3> SUFFICES ASSUME NEW c \in TabCards, standing'[c] # 0
                 PROVE  standing'[c] \in receipts' /\ cast[standing'[c]] = c
      OBVIOUS
    <3>1. CASE standing'[c] = standing[c]
      BY <1>1, <3>1 DEF ConsoleInv, Casts
    <3>2. CASE standing'[c] \in pages[p].batch /\ cast[standing'[c]] = c
      BY <1>1, <3>2
    <3> QED
      BY <1>6, <3>1, <3>2
  <2> QED
    BY <1>0, <1>1, <2>1, <2>2 DEF ConsoleInv, Casts
<1>8. PagesAreSound'
  BY <1>1, <1>3, <1>4 DEF ConsoleInv, PagesAreSound
<1>9. QueuesAgree'
  BY <1>1, <1>3, <1>4 DEF ConsoleInv, QueuesAgree
<1>10. W!Standing' = W!Standing
  BY <1>1 DEF W!Standing, W!Newest
<1>11. ASSUME NEW v \in W!Standing PROVE v \in DOMAIN cast /\ \A w \in DOMAIN cast : cast[w] = cast[v] => w <= v
  BY <1>11 DEF W!Standing, W!Newest
<1>12. ASSUME NEW v \in W!Standing, standing[cast[v]] = v PROVE standing'[cast[v]] = v
  <2>1. cast[v] \in TabCards /\ v \in Nat
    BY <1>0, <1>11, <1>12 DEF ConsoleInv, Casts
  <2>2. CASE standing'[cast[v]] = standing[cast[v]]
    BY <1>12, <2>2
  <2>3. CASE standing'[cast[v]] \in pages[p].batch /\ cast[standing'[cast[v]]] = cast[v]
             /\ standing'[cast[v]] >= standing[cast[v]]
    <3>1. standing'[cast[v]] \in DOMAIN cast /\ standing'[cast[v]] \in Nat
      BY <1>0, <2>3
    <3>2. standing'[cast[v]] <= v
      BY <1>11, <1>12, <2>3, <3>1
    <3> QED
      BY <1>12, <2>1, <2>3, <3>1, <3>2
  <2> QED
    BY <1>6, <2>1, <2>2, <2>3
<1>13. ASSUME NEW v \in W!Standing, v \in fresh PROVE standing'[cast[v]] = v
  <2>1. cast[v] \in TabCards /\ v \in Nat /\ v \in DOMAIN cast
    BY <1>0, <1>11, <1>13 DEF ConsoleInv, Casts
  <2>2. \A w \in fresh : w \in DOMAIN cast
    BY <1>0
  <2>3. v >= standing[cast[v]]
    BY <1>0, <1>11, <1>13, <2>1 DEF ConsoleInv, Casts
  <2>4. \A w \in fresh : cast[w] = cast[v] => w <= v
    BY <1>11, <1>13, <2>2
  <2>5. /\ standing'[cast[v]] \in pages[p].batch /\ cast[standing'[cast[v]]] = cast[v]
        /\ v <= standing'[cast[v]]
    BY <1>6, <1>13, <2>1, <2>3, <2>4
  <2>6. standing'[cast[v]] \in DOMAIN cast /\ standing'[cast[v]] \in Nat
    BY <1>0, <2>5
  <2>7. standing'[cast[v]] <= v
    BY <1>11, <1>13, <2>5, <2>6
  <2> QED
    BY <2>1, <2>5, <2>6, <2>7
<1>14. Receipted'
  BY <1>1, <1>10, <1>12, <1>13 DEF ConsoleInv, Receipted
<1>15. W!VerdictsAreKept'
  BY <1>1, <1>10, <1>12 DEF ConsoleInv, W!VerdictsAreKept
<1>16. LastIsOwn'
  BY <1>1, <1>3, <1>4 DEF ConsoleInv, LastIsOwn
<1>17. ASSUME NEW v, Gone(v) PROVE Gone(v)'
  BY <1>1, <1>3, <1>4, <1>17 DEF Gone
<1>18. UndoneIsGone'
  <2>1. \A v \in back : standing'[cast[v]] # v
    <3> SUFFICES ASSUME NEW v \in back PROVE standing'[cast[v]] # v
      OBVIOUS
    <3>1. cast[v] \in TabCards
      BY DEF ConsoleInv, Casts
    <3>2. standing[cast[v]] # v /\ v \notin pages[p].batch
      BY DEF ConsoleInv, UndoneIsGone, Gone
    <3> QED
      BY <1>6, <3>1, <3>2
  <2>2. \A q \in Visits : pages'[q].undoing = pages[q].undoing
    BY <1>3, <1>4
  <2> QED
    BY <1>1, <1>17, <2>1, <2>2 DEF ConsoleInv, UndoneIsGone
<1> QED
  BY <1>7, <1>8, <1>9, <1>14, <1>15, <1>16, <1>18 DEF ConsoleInv

\* Undo takes the last verdict back: no other page has it, and a submission that
\* carried it is over.
LEMMA UndoStep ==
    ASSUME ConsoleInv, NEW p \in Visits, W!Undo(p)
    PROVE  ConsoleInv'
<1> SUFFICES ASSUME NEW v, v = pages[p].last PROVE ConsoleInv'
  OBVIOUS
<1>1. /\ pages[p].state = "open" /\ v # 0 /\ pages[p].chain = "idle" /\ pages[p].undoing = 0
      /\ UNCHANGED <<cast, attempted, standing, receipts, overruled, hasty>>
  BY DEF W!Undo, W!Open, W!server
<1>2. pages[p] \in W!Page /\ v \in DOMAIN cast /\ pages[p].batch = {} /\ v \in 0 .. MaxVerdicts
  BY <1>1 DEF ConsoleInv, PagesAreSound, W!Page
<1>3. /\ v \in kept => v \in pages[p].queue
      /\ \A q \in Visits \ {p} : v \notin pages[q].queue \cup pages[q].batch
  BY <1>1 DEF ConsoleInv, LastIsOwn
<1>4. CASE v \notin pages[p].queue
  <2> DEFINE page == [pages[p] EXCEPT !.undoing = v]
  <2>1. W!Becomes(p, page) /\ UNCHANGED <<kept, withdrawn, back>>
    BY <1>4 DEF W!Undo
  <2>2. /\ page \in W!Page /\ page.state = "open" /\ page.queue = pages[p].queue /\ page.batch = {}
        /\ page.chain = "idle" /\ page.last = v /\ page.undoing = v
    BY <1>1, <1>2 DEF W!Page
  <2> HIDE DEF page
  <2>3. /\ pages' \in [Visits -> W!Page] /\ \A q \in Visits \ {p} : pages'[q] = pages[q]
        /\ pages'[p] = page
    BY <2>1, <2>2, Becoming DEF ConsoleInv, IsOrIsGone
  <2>4. Casts'
    BY <1>1, <2>1 DEF ConsoleInv, Casts
  <2>5. PagesAreSound'
    BY <1>1, <1>2, <2>1, <2>2, <2>3 DEF ConsoleInv, PagesAreSound
  <2>6. QueuesAgree'
    BY <1>1, <2>1, <2>2, <2>3 DEF ConsoleInv, QueuesAgree
  <2>7. W!Standing' = W!Standing
    BY <1>1, <2>1 DEF W!Standing, W!Newest
  <2>8. Receipted' /\ W!VerdictsAreKept'
    BY <1>1, <2>1, <2>7 DEF ConsoleInv, Receipted, W!VerdictsAreKept
  <2>9. LastIsOwn'
    BY <1>1, <1>2, <2>1, <2>2, <2>3 DEF ConsoleInv, LastIsOwn
  <2>10. ASSUME NEW w, Gone(w) PROVE Gone(w)'
    BY <1>2, <2>1, <2>2, <2>3, <2>10 DEF Gone
  <2>11. Gone(v)
    BY <1>2, <1>3, <1>4 DEF Gone
  <2>12. UndoneIsGone'
    <3>1. \A w : Gone(w) => Gone(w)'
      BY <2>10
    <3>2. \A q \in Visits : \A w : w = pages'[q].undoing /\ w # 0 => Gone(w)
      BY <2>2, <2>3, <2>11 DEF ConsoleInv, UndoneIsGone
    <3> QED
      BY <1>1, <2>1, <3>1, <3>2 DEF ConsoleInv, UndoneIsGone
  <2> QED
    BY <2>4, <2>5, <2>6, <2>8, <2>9, <2>12 DEF ConsoleInv
<1>5. CASE v \in pages[p].queue
  <2> DEFINE undoing == IF v \in attempted THEN v ELSE 0
             page == [pages[p] EXCEPT !.queue = @ \ {v}, !.judged = @ \ {cast[v]}, !.last = 0,
                                      !.undoing = undoing]
  <2>1. /\ W!Becomes(p, page) /\ kept' = pages[p].queue \ {v} /\ withdrawn' = withdrawn \cup {v}
        /\ back' = IF v \in attempted THEN back ELSE back \cup {v}
    BY <1>5 DEF W!Undo
  <2>2. /\ page \in W!Page /\ page.state = "open" /\ page.queue = pages[p].queue \ {v} /\ page.batch = {}
        /\ page.chain = "idle" /\ page.last = 0 /\ page.undoing = undoing
    <3>1. undoing \in 0 .. MaxVerdicts /\ 0 \in 0 .. MaxVerdicts
      BY <1>2, WebDeckAssumption DEF W!WebDeckAssumption
    <3> HIDE DEF undoing
    <3> QED
      BY <1>1, <1>2, <3>1 DEF W!Page
  <2> HIDE DEF page
  <2>3. /\ pages' \in [Visits -> W!Page] /\ \A q \in Visits \ {p} : pages'[q] = pages[q]
        /\ pages'[p] = page
    BY <2>1, <2>2, Becoming DEF ConsoleInv, IsOrIsGone
  <2>4. Casts'
    BY <1>1, <1>2, <2>1 DEF ConsoleInv, Casts, PagesAreSound
  <2>5. PagesAreSound'
    BY <1>1, <1>2, <2>1, <2>2, <2>3 DEF ConsoleInv, PagesAreSound
  <2>6. QueuesAgree'
    BY <1>1, <2>1, <2>2, <2>3 DEF ConsoleInv, QueuesAgree, PagesAreSound
  <2>7. W!Standing' = W!Standing \ {v}
    BY <1>1, <2>1 DEF W!Standing, W!Newest
  <2>8. Receipted'
    BY <1>1, <2>7 DEF ConsoleInv, Receipted
  <2>9. W!VerdictsAreKept'
    BY <1>1, <2>1, <2>7 DEF ConsoleInv, W!VerdictsAreKept, QueuesAgree
  <2>10. LastIsOwn'
    BY <1>1, <2>2, <2>3 DEF ConsoleInv, LastIsOwn, PagesAreSound
  <2>11. ASSUME NEW w, Gone(w) PROVE Gone(w)'
    BY <1>2, <2>1, <2>2, <2>3, <2>11 DEF Gone
  <2>12. Gone(v)'
    BY <1>3, <2>1, <2>2, <2>3 DEF Gone
  <2>13. v \notin attempted => standing[cast[v]] # v
    BY <1>1, <1>2 DEF ConsoleInv, Casts
  <2>14. UndoneIsGone'
    <3>1. \A w : Gone(w) \/ w = v => Gone(w)'
      BY <2>11, <2>12
    <3>2. \A q \in Visits : \A w : w = pages'[q].undoing /\ w # 0 => Gone(w) \/ w = v
      BY <2>2, <2>3 DEF ConsoleInv, UndoneIsGone
    <3>3. \A w \in back' : (Gone(w) \/ w = v) /\ standing[cast[w]] # w
      BY <2>1, <2>13 DEF ConsoleInv, UndoneIsGone
    <3> QED
      BY <1>1, <3>1, <3>2, <3>3 DEF UndoneIsGone
  <2> QED
    BY <2>4, <2>5, <2>6, <2>8, <2>9, <2>10, <2>14 DEF ConsoleInv
<1> QED
  BY <1>4, <1>5

\* The DELETE is done, and its answer comes back or not: what stood for the card is
\* overruled, and the verdict, once the page knows, is back.
LEMMA UndoneStep ==
    ASSUME ConsoleInv, NEW p \in Visits, W!UndoAnswered(p)
    PROVE  ConsoleInv'
<1> SUFFICES ASSUME NEW v, v = pages[p].undoing PROVE ConsoleInv'
  OBVIOUS
<1>1. v # 0 /\ UNCHANGED <<cast, kept, attempted, receipts, hasty>>
  BY DEF W!UndoAnswered
<1>2. /\ pages[p] \in W!Page /\ v \in DOMAIN cast /\ v \in 0 .. MaxVerdicts /\ 0 \in 0 .. MaxVerdicts
      /\ cast[v] \in TabCards /\ Gone(v)
  BY <1>1, WebDeckAssumption DEF ConsoleInv, PagesAreSound, Casts, UndoneIsGone, W!Page, W!WebDeckAssumption
<1> DEFINE told == [pages[p] EXCEPT !.undoing = 0, !.judged = @ \ {cast[v]}, !.last = 0]
           untold == [pages[p] EXCEPT !.undoing = 0]
<1>3. /\ told \in W!Page /\ told.state = pages[p].state /\ told.queue = pages[p].queue
      /\ told.batch = pages[p].batch /\ told.chain = pages[p].chain /\ told.last = 0 /\ told.undoing = 0
  BY <1>2 DEF W!Page
<1>4. /\ untold \in W!Page /\ untold.state = pages[p].state /\ untold.queue = pages[p].queue
      /\ untold.batch = pages[p].batch /\ untold.chain = pages[p].chain
      /\ untold.last = pages[p].last /\ untold.undoing = 0
  BY <1>2 DEF W!Page
<1>5. \/ /\ UNCHANGED <<standing, overruled, withdrawn, back>> /\ W!Becomes(p, untold)
      \/ /\ standing' = [standing EXCEPT ![cast[v]] = 0]
         /\ overruled' = overruled \cup ({standing[cast[v]]} \ {0})
         /\ \/ W!Becomes(p, told) /\ withdrawn' = withdrawn \cup {v} /\ back' = back \cup {v}
            \/ W!Becomes(p, untold) /\ UNCHANGED <<withdrawn, back>>
  BY DEF W!UndoAnswered
<1> HIDE DEF told, untold
<1>6. /\ pages' \in [Visits -> W!Page] /\ \A q \in Visits \ {p} : pages'[q] = pages[q]
      /\ IsOrIsGone(pages'[p], told) \/ IsOrIsGone(pages'[p], untold)
  BY <1>3, <1>4, <1>5, Becoming DEF ConsoleInv
<1>7. /\ pages'[p].state = pages[p].state /\ pages'[p].chain = pages[p].chain
      /\ pages'[p].undoing = 0 /\ pages'[p].queue \subseteq pages[p].queue
      /\ pages'[p].batch \subseteq pages[p].batch
      /\ pages'[p].last = pages[p].last \/ pages'[p].last = 0
      /\ pages[p].state = "open" => pages'[p].queue = pages[p].queue
  BY <1>3, <1>4, <1>6 DEF IsOrIsGone
<1>8. CASE UNCHANGED <<standing, overruled, withdrawn, back>>
  <2>1. ~hasty' /\ pages'[p].state # "open" => pages[p].chain = "idle"
    BY <1>1, <1>7 DEF ConsoleInv, QueuesAgree
  <2> QED
    BY <1>1, <1>6, <1>7, <1>8, <2>1, QuietStep
<1>9. CASE /\ standing' = [standing EXCEPT ![cast[v]] = 0]
           /\ overruled' = overruled \cup ({standing[cast[v]]} \ {0})
           /\ \/ withdrawn' = withdrawn \cup {v} /\ back' = back \cup {v}
              \/ UNCHANGED <<withdrawn, back>>
  <2>1. /\ DOMAIN standing' = TabCards /\ standing'[cast[v]] = 0
        /\ \A c \in TabCards : standing'[c] = standing[c] \/ standing'[c] = 0
        /\ \A c \in TabCards : c # cast[v] => standing'[c] = standing[c]
    BY <1>2, <1>9 DEF ConsoleInv, Casts
  <2>2. standing[cast[v]] # 0 => standing[cast[v]] \in DOMAIN cast
    BY <1>2 DEF ConsoleInv, Casts
  <2>3. Casts'
    BY <1>1, <1>2, <1>9, <2>1, <2>2 DEF ConsoleInv, Casts
  <2>4. PagesAreSound'
    BY <1>1, <1>6, <1>7 DEF ConsoleInv, PagesAreSound
  <2>5. QueuesAgree'
    BY <1>1, <1>6, <1>7 DEF ConsoleInv, QueuesAgree
  <2>6. ASSUME NEW w \in W!Standing'
        PROVE  /\ w \in W!Standing /\ w # 0 /\ cast[w] \in TabCards
               /\ standing[cast[w]] = w => cast[w] # cast[v]
    <3>1. w \in W!Standing /\ w \in DOMAIN cast /\ w \notin overruled'
      BY <1>1, <1>9, <2>6 DEF W!Standing, W!Newest
    <3>2. w # 0
      <4>1. Cardinality(DOMAIN cast) \in Nat /\ DOMAIN cast = 1 .. Cardinality(DOMAIN cast)
        BY WebDeckAssumption DEF ConsoleInv, Casts, W!WebDeckAssumption
      <4> QED
        BY <3>1, <4>1
    <3> QED
      BY <1>9, <3>1, <3>2 DEF ConsoleInv, Casts
  <2>7. Receipted'
    BY <1>1, <2>1, <2>6 DEF ConsoleInv, Receipted
  <2>8. W!VerdictsAreKept'
    BY <1>1, <2>1, <2>6 DEF ConsoleInv, W!VerdictsAreKept
  <2>9. LastIsOwn'
    BY <1>1, <1>6, <1>7 DEF ConsoleInv, LastIsOwn
  <2>10. ASSUME NEW w, Gone(w) PROVE Gone(w)'
    BY <1>1, <1>6, <1>7, <2>10 DEF Gone
  <2>11. UndoneIsGone'
    <3>1. \A w \in back' : Gone(w) /\ w # 0 /\ cast[w] \in TabCards
      <4>1. DOMAIN cast \subseteq Nat \ {0}
        <5>1. Cardinality(DOMAIN cast) \in Nat /\ DOMAIN cast = 1 .. Cardinality(DOMAIN cast)
          BY WebDeckAssumption DEF ConsoleInv, Casts, W!WebDeckAssumption
        <5> QED
          BY <5>1
      <4> QED
        BY <1>1, <1>2, <1>9, <4>1 DEF ConsoleInv, Casts, UndoneIsGone
    <3>2. \A w \in back' : standing'[cast[w]] # w
      BY <1>9, <2>1, <3>1 DEF ConsoleInv, UndoneIsGone
    <3> QED
      BY <1>1, <1>6, <1>7, <2>10, <3>1, <3>2 DEF ConsoleInv, UndoneIsGone
  <2> QED
    BY <2>3, <2>4, <2>5, <2>7, <2>8, <2>9, <2>11 DEF ConsoleInv
<1> QED
  BY <1>5, <1>8, <1>9

\* With none in flight and some to send, it takes it.
LEMMA Taking ==
    ASSUME NEW page \in W!Page, page.chain = "idle", page.queue # {}
    PROVE  W!Flushed(page).chain = "sent" /\ W!Flushed(page).batch = page.queue
  BY DEF W!Flushed, W!Page

\* What the answer of a submission leaves, and what its loss leaves.
LEMMA Settling ==
    ASSUME NEW page \in W!Page
    PROVE  /\ W!Settled(page) \in W!Page /\ W!Failed(page) \in W!Page
           /\ W!Settled(page).queue = page.queue \ page.batch /\ W!Failed(page).queue = page.queue
           /\ \A new \in {W!Settled(page), W!Failed(page)} :
                /\ new.state = page.state /\ new.last = page.last /\ new.undoing = page.undoing
                /\ new.chain = "idle" /\ new.batch = {}
<1> DEFINE asked == page.asked \/ (page.refill /\ page.state = "open")
           queue == page.queue \ page.batch
<1>1. asked \in BOOLEAN /\ queue \in SUBSET W!Verdicts /\ {} \in SUBSET W!Verdicts
  BY DEF W!Page
<1>2. W!Settled(page) = [page EXCEPT !.queue = queue, !.batch = {}, !.chain = "idle",
                                     !.refill = FALSE, !.asked = asked]
  BY DEF W!Settled
<1>3. /\ W!Settled(page) \in W!Page /\ W!Settled(page).queue = queue
      /\ W!Settled(page).state = page.state /\ W!Settled(page).last = page.last
      /\ W!Settled(page).undoing = page.undoing /\ W!Settled(page).chain = "idle"
      /\ W!Settled(page).batch = {}
  <2> HIDE DEF asked, queue
  <2>1. /\ W!Settled(page).queue = queue
        /\ W!Settled(page).state = page.state /\ W!Settled(page).last = page.last
        /\ W!Settled(page).undoing = page.undoing /\ W!Settled(page).chain = "idle"
        /\ W!Settled(page).batch = {}
    BY <1>2 DEF W!Page
  <2>2. W!Settled(page) \in W!Page
    BY <1>1, <1>2 DEF W!Page
  <2> QED
    BY <2>1, <2>2
<1>4. /\ W!Failed(page) \in W!Page /\ W!Failed(page).queue = page.queue
      /\ W!Failed(page).state = page.state /\ W!Failed(page).last = page.last
      /\ W!Failed(page).undoing = page.undoing /\ W!Failed(page).chain = "idle"
      /\ W!Failed(page).batch = {}
  BY DEF W!Failed, W!Page
<1> QED
  BY <1>3, <1>4

\* The next link, if one waits, takes what is left.
LEMMA Linking ==
    ASSUME NEW page \in W!Page, page.chain = "idle", page.batch = {}
    PROVE  /\ W!ThenNext(page) \in W!Page
           /\ W!ThenNext(page).state = page.state /\ W!ThenNext(page).queue = page.queue
           /\ W!ThenNext(page).last = page.last /\ W!ThenNext(page).undoing = page.undoing
           /\ \/ W!ThenNext(page).chain = "idle" /\ W!ThenNext(page).batch = {}
              \/ W!ThenNext(page).chain = "sent" /\ W!ThenNext(page).batch = page.queue
  BY Flushing DEF W!ThenNext

\* The verdicts a page holds.
SameVerdicts(new, page) ==
    /\ new.state = page.state /\ new.queue = page.queue /\ new.batch = page.batch
    /\ new.chain = page.chain /\ new.last = page.last /\ new.undoing = page.undoing

\* What a page asks and hears: the cards the server has, that they are still built,
\* that the request failed, or nothing; and it asks again, or for something else.
Heard(page, deck) ==
    [page EXCEPT !.asked = FALSE, !.answer = "deck", !.trouble = "none", !.deck = deck]
Building(page) ==
    [page EXCEPT !.answer = "waiting", !.deck = {},
                            !.trouble = IF @ = "late" THEN "late" ELSE "none"]
Erred(page) ==
    [page EXCEPT !.asked = FALSE, !.trouble = "error"]
Late(page, asked) ==
    [page EXCEPT !.trouble = "late", !.asked = asked]
Again(page) ==
    [page EXCEPT !.asked = TRUE, !.refill = FALSE, !.trouble =
                            IF @ = "error" /\ page.answer # "none" THEN @ ELSE "none"]
Other(page) ==
    [page EXCEPT !.asked = TRUE, !.trouble = "none", !.answer = "none", !.deck = {}]

\* None of it is about the verdicts the page holds.
LEMMA Hearing ==
    ASSUME NEW page \in W!Page
    PROVE  /\ \A deck \in SUBSET TabCards : Heard(page, deck) \in W!Page /\ SameVerdicts(Heard(page, deck), page)
           /\ Building(page) \in W!Page /\ SameVerdicts(Building(page), page)
           /\ Erred(page) \in W!Page /\ SameVerdicts(Erred(page), page)
           /\ \A asked \in BOOLEAN : Late(page, asked) \in W!Page /\ SameVerdicts(Late(page, asked), page)
           /\ Again(page) \in W!Page /\ SameVerdicts(Again(page), page)
           /\ Other(page) \in W!Page /\ SameVerdicts(Other(page), page)
<1>1. ASSUME NEW deck \in SUBSET TabCards PROVE Heard(page, deck) \in W!Page /\ SameVerdicts(Heard(page, deck), page)
  <2>1. Heard(page, deck) \in W!Page
    BY DEF Heard, W!Page
  <2>2. SameVerdicts(Heard(page, deck), page)
    BY DEF Heard, W!Page, SameVerdicts
  <2> QED
    BY <2>1, <2>2
<1>2. Building(page) \in W!Page /\ SameVerdicts(Building(page), page)
  <2>1. Building(page) \in W!Page
    BY DEF Building, W!Page
  <2>2. SameVerdicts(Building(page), page)
    BY DEF Building, W!Page, SameVerdicts
  <2> QED
    BY <2>1, <2>2
<1>3. Erred(page) \in W!Page /\ SameVerdicts(Erred(page), page)
  <2>1. Erred(page) \in W!Page
    BY DEF Erred, W!Page
  <2>2. SameVerdicts(Erred(page), page)
    BY DEF Erred, W!Page, SameVerdicts
  <2> QED
    BY <2>1, <2>2
<1>4. ASSUME NEW asked \in BOOLEAN PROVE Late(page, asked) \in W!Page /\ SameVerdicts(Late(page, asked), page)
  <2>1. Late(page, asked) \in W!Page
    BY DEF Late, W!Page
  <2>2. SameVerdicts(Late(page, asked), page)
    BY DEF Late, W!Page, SameVerdicts
  <2> QED
    BY <2>1, <2>2
<1>5. Again(page) \in W!Page /\ SameVerdicts(Again(page), page)
  <2>1. Again(page) \in W!Page
    BY DEF Again, W!Page
  <2>2. SameVerdicts(Again(page), page)
    BY DEF Again, W!Page, SameVerdicts
  <2> QED
    BY <2>1, <2>2
<1>6. Other(page) \in W!Page /\ SameVerdicts(Other(page), page)
  <2>1. Other(page) \in W!Page
    BY DEF Other, W!Page
  <2>2. SameVerdicts(Other(page), page)
    BY DEF Other, W!Page, SameVerdicts
  <2> QED
    BY <2>1, <2>2
<1> QED
  BY <1>1, <1>2, <1>3, <1>4, <1>5, <1>6

\* Every step of the console keeps its verdicts in order.
LEMMA ConsoleNext == ConsoleInv /\ [W!Next]_W!vars => ConsoleInv'
<1> SUFFICES ASSUME ConsoleInv, [W!Next]_W!vars PROVE ConsoleInv'
  OBVIOUS
<1>0. \A p \in Visits : pages[p] \in W!Page
  BY DEF ConsoleInv, PagesAreSound
<1>1. ASSUME NEW p \in Visits, NEW page \in W!Page, W!Becomes(p, page),
             UNCHANGED <<cast, kept, attempted, standing, receipts, withdrawn, back, overruled>>,
             hasty => hasty', ~hasty' /\ page.state # "open" => pages[p].chain = "idle",
             page.state = "open" \/ page.state = "left", pages[p].state = "open",
             page.queue = pages[p].queue, page.batch = pages[p].batch, page.chain = pages[p].chain,
             page.last = pages[p].last, page.undoing = pages[p].undoing
      PROVE  ConsoleInv'
  <2>1. /\ pages' \in [Visits -> W!Page] /\ \A q \in Visits \ {p} : pages'[q] = pages[q]
        /\ IsOrIsGone(pages'[p], page)
    BY <1>1, Becoming DEF ConsoleInv
  <2>2. /\ pages'[p].queue \subseteq pages[p].queue /\ pages'[p].batch \subseteq pages[p].batch
        /\ pages'[p].chain = pages[p].chain /\ pages'[p].state = page.state
        /\ pages'[p].last = pages[p].last \/ pages'[p].last = 0
        /\ pages'[p].undoing = pages[p].undoing
        /\ page.state = "open" => pages'[p].queue = pages[p].queue
    BY <1>1, <2>1 DEF IsOrIsGone
  <2> QED
    BY <1>1, <2>1, <2>2, QuietStep
<1>2. ASSUME NEW p \in Visits, W!OpenPage(p) PROVE ConsoleInv'
  BY <1>2, OpenStep
<1>3. ASSUME NEW p \in Visits, W!LeavePage(p) PROVE ConsoleInv'
  <2> DEFINE page == [pages[p] EXCEPT !.state = "left", !.asked = FALSE]
  <2>1. /\ page \in W!Page /\ page.state = "left" /\ page.queue = pages[p].queue
        /\ page.batch = pages[p].batch /\ page.chain = pages[p].chain
        /\ page.last = pages[p].last /\ page.undoing = pages[p].undoing
    BY <1>0 DEF W!Page
  <2>2. /\ pages[p].state = "open" /\ W!Becomes(p, page) /\ hasty' = (hasty \/ pages[p].chain # "idle")
        /\ UNCHANGED <<cast, kept, attempted, standing, receipts, withdrawn, back, overruled>>
    BY <1>3 DEF W!LeavePage, W!Open, W!server
  <2> HIDE DEF page
  <2>3. (hasty => hasty') /\ (~hasty' => pages[p].chain = "idle")
    BY <2>2
  <2> QED
    BY <1>1, <2>1, <2>2, <2>3
<1>4. ASSUME NEW p \in Visits, W!DeckAnswer(p) \/ W!GiveUp(p) \/ W!Retry(p) PROVE ConsoleInv'
  <2>1. pages[p] \in W!Page /\ {c \in TabCards : standing[c] = 0} \in SUBSET TabCards /\ {} \in SUBSET TabCards
    BY <1>0
  <2>2. \E page \in W!Page :
          W!Becomes(p, page) /\ SameVerdicts(page, pages[p])
    <3>1. CASE W!DeckAnswer(p)
      <4>1. \/ W!Becomes(p, Heard(pages[p], {c \in TabCards : standing[c] = 0}))
            \/ W!Becomes(p, Building(pages[p])) \/ W!Becomes(p, Erred(pages[p]))
        BY <3>1 DEF W!DeckAnswer, Heard, Building, Erred
      <4> QED
        BY <2>1, <4>1, Hearing
    <3>2. CASE W!GiveUp(p)
      <4>1. PICK asked \in BOOLEAN : W!Becomes(p, [pages[p] EXCEPT !.trouble = "late", !.asked = asked])
        BY <3>2, Zenon DEF W!GiveUp
      <4>2. W!Becomes(p, Late(pages[p], asked))
        BY <4>1, Zenon DEF Late
      <4>3. Late(pages[p], asked) \in W!Page /\ SameVerdicts(Late(pages[p], asked), pages[p])
        BY <2>1, Hearing
      <4> QED
        BY <4>2, <4>3
    <3>3. CASE W!Retry(p)
      <4>1. W!Becomes(p, Again(pages[p])) \/ W!Becomes(p, Other(pages[p]))
        BY <3>3 DEF W!Retry, Again, Other
      <4> QED
        BY <2>1, <4>1, Hearing
    <3> QED
      BY <1>4, <3>1, <3>2, <3>3
  <2>3. /\ pages[p].state = "open"
        /\ UNCHANGED <<cast, kept, attempted, standing, receipts, withdrawn, back, overruled, hasty>>
    <3>1. CASE W!DeckAnswer(p)
      BY <3>1 DEF W!DeckAnswer, W!Open, W!server, W!history
    <3>2. CASE W!GiveUp(p)
      BY <3>2 DEF W!GiveUp, W!Open, W!server, W!history
    <3>3. CASE W!Retry(p)
      BY <3>3 DEF W!Retry, W!Open, W!server, W!history
    <3> QED
      BY <1>4, <3>1, <3>2, <3>3
  <2> QED
    BY <1>1, <2>2, <2>3 DEF SameVerdicts
<1>5. ASSUME NEW p \in Visits, NEW c \in TabCards, W!Vote(p, c) PROVE ConsoleInv'
  BY <1>5, VoteStep
<1>6. ASSUME NEW p \in Visits, W!RetryUnsent(p) PROVE ConsoleInv'
  <2> DEFINE page == W!Flushed(pages[p])
  <2>1. /\ page \in W!Page /\ page.state = pages[p].state /\ page.queue = pages[p].queue
        /\ page.last = pages[p].last /\ page.undoing = pages[p].undoing
        /\ page.chain = "sent" /\ page.batch = pages[p].queue
    <3>1. pages[p] \in W!Page /\ pages[p].chain = "idle" /\ pages[p].queue # {}
      BY <1>0, <1>6 DEF W!RetryUnsent
    <3> QED
      BY <3>1, Flushing, Taking
  <2>2. /\ pages[p].state = "open" /\ W!Becomes(p, page) /\ attempted' = attempted \cup page.batch
        /\ UNCHANGED <<cast, kept, standing, receipts, withdrawn, back, overruled, hasty>>
    BY <1>6 DEF W!RetryUnsent, W!Open, W!Carried, W!server, W!history
  <2> HIDE DEF page
  <2> QED
    BY <2>1, <2>2, SubmitStep
<1>7. ASSUME NEW p \in Visits, W!Deliver(p) PROVE ConsoleInv'
  BY <1>7, DeliverStep
<1>8. ASSUME NEW p \in Visits, W!Answered(p) PROVE ConsoleInv'
  <2> DEFINE page == W!ThenNext(W!Settled(pages[p]))
  <2>1. /\ page \in W!Page /\ page.state = pages[p].state /\ page.last = pages[p].last
        /\ page.queue = pages[p].queue \ pages[p].batch /\ page.undoing = pages[p].undoing
        /\ \/ page.chain = "idle" /\ page.batch = {}
           \/ page.chain = "sent" /\ page.batch = page.queue
    BY <1>0, Settling, Linking
  <2>2. /\ pages[p].chain = "stored" /\ W!Becomes(p, page) /\ attempted' = attempted \cup page.batch
        /\ kept' = page.queue
        /\ UNCHANGED <<cast, standing, receipts, withdrawn, back, overruled, hasty>>
    BY <1>8 DEF W!Answered, W!Carried, W!server, W!history
  <2> HIDE DEF page
  <2>3. pages[p].batch \subseteq receipts
    BY <2>2 DEF ConsoleInv, PagesAreSound
  <2> QED
    BY <2>1, <2>2, <2>3, SubmitStep
<1>9. ASSUME NEW p \in Visits, W!Unanswered(p) PROVE ConsoleInv'
  <2> DEFINE page == W!ThenNext(W!Failed(pages[p]))
  <2>1. /\ page \in W!Page /\ page.state = pages[p].state /\ page.last = pages[p].last
        /\ page.queue = pages[p].queue /\ page.undoing = pages[p].undoing
        /\ \/ page.chain = "idle" /\ page.batch = {}
           \/ page.chain = "sent" /\ page.batch = page.queue
    BY <1>0, Settling, Linking
  <2>2. /\ pages[p].chain # "idle" /\ W!Becomes(p, page) /\ attempted' = attempted \cup page.batch
        /\ UNCHANGED <<cast, kept, standing, receipts, withdrawn, back, overruled, hasty>>
    BY <1>9 DEF W!Unanswered, W!Carried, W!server, W!history
  <2> HIDE DEF page
  <2> QED
    BY <2>1, <2>2, SubmitStep
<1>10. ASSUME NEW p \in Visits, W!Undo(p) PROVE ConsoleInv'
  BY <1>10, UndoStep
<1>11. ASSUME NEW p \in Visits, W!UndoAnswered(p) PROVE ConsoleInv'
  BY <1>11, UndoneStep
<1>12. CASE UNCHANGED W!vars
  <2>1. UNCHANGED <<cast, kept, attempted, pages, standing, receipts, withdrawn, back, overruled, hasty>>
    BY <1>12 DEF W!vars, W!server, W!history
  <2> QED
    BY <2>1 DEF ConsoleInv, Casts, PagesAreSound, QueuesAgree, Receipted, LastIsOwn, UndoneIsGone, Gone,
          W!VerdictsAreKept, W!Standing, W!Newest
<1> QED
  BY <1>2, <1>3, <1>4, <1>5, <1>6, <1>7, <1>8, <1>9, <1>10, <1>11, <1>12 DEF W!Next

\* What the user decided on is what the server ends up with: a verdict stays queued
\* until it is stored, whatever fails, unless a page is left in haste; and one taken
\* back is neither stored nor sent again (useDeck, vote-queue.ts).
THEOREM VerdictsFollow == MCSpec => []VerdictsFollowTheUser
<1>1. ConsoleInv => VerdictsFollowTheUser
  BY DEF ConsoleInv, UndoneIsGone, Gone, VerdictsFollowTheUser, W!TakenBackStaysBack
<1>2. MCInit => ConsoleInv
  BY ConsoleAlone, ConsoleInit
<1>3. ConsoleInv /\ [MCNext]_MCVars => ConsoleInv'
  BY ConsoleAlone, ConsoleNext
<1> QED
  BY <1>1, <1>2, <1>3, PTL DEF MCSpec
=============================================================================

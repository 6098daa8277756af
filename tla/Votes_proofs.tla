---------------------------- MODULE Votes_proofs ----------------------------
(***************************************************************************)
(* Proofs about what a user tells the server.  Of Votes: the types, that the *)
(* newest swipe wins in whatever order answers arrive, that none is turned   *)
(* away within the retention, and that each is stored once.  Of Taste: that  *)
(* rewrites are earned.  Of Imports: that imports are capped, own what they   *)
(* brought, and are answered once.                                          *)
(***************************************************************************)
EXTENDS MCVotes, FiniteSetTheorems, TLAPS

\* An item that was stored has its receipt, or is too old for a device to send
\* it again.
Settled(i) ==
    \/ i \in DOMAIN receipts
    \/ i \in DOMAIN queue /\ queue[i].made + QueueLife < now

\* What is in the queue was swiped on a card that was served, and no later than
\* now; a receipt is no older than the swipe it is for.
QueueIsSound ==
    /\ \A i \in DOMAIN queue : queue[i].card \in DOMAIN shown /\ queue[i].made <= now
    /\ \A i \in DOMAIN receipts : i \in DOMAIN queue /\ receipts[i] >= queue[i].made

\* An item was stored once at most, and if it was, or its answer stands, it is
\* settled.
StoredAreSettled ==
    \A i \in Items :
        /\ applied[i] <= 1
        /\ applied[i] = 1 \/ i \in DOMAIN standing => Settled(i)

\* No card that was served goes within the retention.
CardsAreKept == \A c \in DOMAIN shown : now <= shown[c] + CardRetention => c \in cards

\* The inductive invariant.
Sound == TypeOK /\ QueueIsSound /\ StoredAreSettled /\ CardsAreKept /\ NewestSwipeWins

-----------------------------------------------------------------------------
(* What the operators keep.                                                 *)

\* The date an answer is stored with is between its card's and now (_when).
LEMMA WhenIsClamped ==
    ASSUME NEW at \in Nat, NEW served \in Nat, NEW t \in Nat
    PROVE  When(at, served, t) \in Nat /\ When(at, served, t) <= t
  BY DEF When

\* These rows are the votes with this answer recorded: it is the title's row now,
\* or the one there was is as new.
Recorded(rows, t, card, value, date) ==
    /\ DOMAIN rows = DOMAIN votes \cup {t}
    /\ \A x \in DOMAIN votes \ {t} : rows[x] = votes[x]
    /\ t \in DOMAIN votes => rows[t].at >= votes[t].at
    /\ rows[t].at >= date
    /\ \/ rows[t].at = date /\ rows[t].value = value /\ rows[t].card = card
       \/ t \in DOMAIN votes /\ rows = votes

\* What record does to the rows, whatever their order (votes.record).
LEMMA RecordRow ==
    ASSUME NEW t, NEW card, NEW value, NEW date \in Nat,
           \A x \in DOMAIN votes : votes[x].at \in Nat,
           NEW rows, rows = Record(t, card, value, date)
    PROVE  Recorded(rows, t, card, value, date)
<1>1. DOMAIN rows = DOMAIN votes \cup {t}
  BY DEF Record, Put
<1>2. \A x \in DOMAIN votes \ {t} : rows[x] = votes[x]
  BY DEF Record, Put
<1>3. t \in DOMAIN votes => rows[t].at >= votes[t].at
  BY DEF Record, Put
<1>4. rows[t].at >= date
  BY DEF Record, Put
<1>5. \/ rows[t].at = date /\ rows[t].value = value /\ rows[t].card = card
      \/ t \in DOMAIN votes /\ rows = votes
  <2>1. CASE t \in DOMAIN votes /\ votes[t].at > date
    BY <2>1 DEF Record
  <2>2. CASE ~(t \in DOMAIN votes /\ votes[t].at > date)
    <3> DEFINE stored == [value |-> value, card |-> card, at |-> date,
                       requested |-> t \in DOMAIN votes /\ votes[t].requested]
    <3>1. rows = Put(votes, t, stored)
      BY <2>2 DEF Record
    <3>2. rows[t] = stored
      BY <3>1 DEF Put
    <3> QED
      BY <3>2
  <2> QED
    BY <2>1, <2>2
<1> QED
  BY <1>1, <1>2, <1>3, <1>4, <1>5 DEF Recorded

\* The row an answer leaves behind is a row (record).
LEMMA RecordTable ==
    ASSUME IsTable(votes, Titles, Vote), NEW t \in Titles, NEW card \in Cards \cup {NoCard},
           NEW value \in Values, NEW date \in Time
    PROVE  IsTable(Record(t, card, value, date), Titles, Vote)
<1> DEFINE stored == [value |-> value, card |-> card, at |-> date,
                   requested |-> t \in DOMAIN votes /\ votes[t].requested]
<1>1. stored \in Vote
  BY DEF IsTable, Vote
<1>2. Record(t, card, value, date) = votes \/ Record(t, card, value, date) = Put(votes, t, stored)
  BY DEF Record
<1> HIDE DEF stored
<1>3. IsTable(Put(votes, t, stored), Titles, Vote)
  BY <1>1, PutTable
<1> QED
  BY <1>2, <1>3

-----------------------------------------------------------------------------
(* The type invariant.                                                      *)

\* The bounds of the clock and of what is kept are numbers.
LEMMA Numbers ==
    /\ CardLifetime \in Nat /\ CardRetention \in Nat /\ ReceiptRetention \in Nat
    /\ QueueLife \in Nat /\ Drift \in Nat /\ MaxTime \in Nat
    /\ QueueLife <= ReceiptRetention
    /\ \A t \in Time : t \in Nat /\ t <= MaxTime
  BY VotesAssumption DEF Time

\* Nothing is served, swiped or stored.
LEMMA InitTypeOK == Init => TypeOK
  BY Numbers DEF Init, TypeOK, Time, IsTable, Empty

\* What a submission stores: the date is between the card's and now, and the
\* title is its card's (_store).
LEMMA SubmitStores ==
    ASSUME TypeOK, NEW i \in Items, Submit(i)
    PROVE  \E date \in Time, card \in Cards, value \in Values :
             /\ i \in DOMAIN queue /\ i \notin DOMAIN receipts
             /\ queue[i].made + QueueLife >= now
             /\ card = queue[i].card /\ value = queue[i].value
             /\ TitleOf[card] \in Titles
             /\ votes' = Record(TitleOf[card], card, value, date)
             /\ standing' = Put(standing, i, date)
<1> DEFINE card == queue[i].card
           date == When(queue[i].at, shown[card], now)
<1>1. i \in DOMAIN queue /\ card \in cards /\ queue[i] \in Item
  BY DEF Submit, HasCard, TypeOK, IsTable
<1>2. card \in Cards /\ queue[i].value \in Values /\ queue[i].at \in Nat
  BY <1>1 DEF Item
<1>3. shown[card] \in Nat /\ now \in Nat /\ now <= MaxTime
  BY <1>1, Numbers DEF TypeOK, IsTable
<1>4. date \in Nat /\ date <= now
  BY <1>2, <1>3, WhenIsClamped
<1>5. date \in Time
  BY <1>3, <1>4, Numbers DEF Time
<1>6. TitleOf[card] \in Titles
  BY <1>2, VotesAssumption
<1>7. /\ votes' = Record(TitleOf[card], card, queue[i].value, date)
      /\ standing' = Put(standing, i, date)
      /\ i \notin DOMAIN receipts /\ queue[i].made + QueueLife >= now
  BY DEF Submit
<1> QED
  BY <1>1, <1>2, <1>5, <1>6, <1>7

\* Every step writes values of the columns' types.
LEMMA NextTypeOK == TypeOK /\ [Next]_vars => TypeOK'
<1> SUFFICES ASSUME TypeOK, [Next]_vars PROVE TypeOK'
  OBVIOUS
<1> now \in Time /\ now \in Nat
  BY Numbers DEF TypeOK
<1>1. CASE Tick
  <2>1. now' \in Time
    BY <1>1, Numbers DEF Tick, Time
  <2> QED
    BY <1>1, <2>1 DEF Tick, TypeOK
<1>2. ASSUME NEW c \in Cards, Serve(c) PROVE TypeOK'
  <2>a. shown' = Put(shown, c, now) /\ IsTable(shown, Cards, Time)
    BY <1>2 DEF Serve, TypeOK
  <2>1. IsTable(shown', Cards, Time)
    BY <2>a, PutTable
  <2>2. DOMAIN shown' = DOMAIN shown \cup {c}
    BY <2>a DEF Put
  <2> QED
    BY <1>2, <2>1, <2>2 DEF Serve, TypeOK
<1>3. ASSUME NEW i \in Items, NEW c \in Cards, NEW value \in Values,
             NEW at \in Readings(now), Swipe(i, c, value, at)
      PROVE  TypeOK'
  <2> DEFINE item == [card |-> c, value |-> value, at |-> at, made |-> now]
  <2>1. item \in Item
    BY Numbers DEF Item, Readings
  <2>2. queue' = Put(queue, i, item)
    BY <1>3 DEF Swipe
  <2> HIDE DEF item
  <2>a. IsTable(queue, Items, Item)
    BY DEF TypeOK
  <2>3. IsTable(queue', Items, Item)
    BY <2>1, <2>2, <2>a, PutTable
  <2>4. DOMAIN queue' = DOMAIN queue \cup {i}
    BY <2>2 DEF Put
  <2> QED
    BY <1>3, <2>3, <2>4 DEF Swipe, TypeOK
<1>4. ASSUME NEW i \in Items, Submit(i) PROVE TypeOK'
  <2>1. PICK date \in Time, card \in Cards, value \in Values :
             /\ i \in DOMAIN queue
             /\ TitleOf[card] \in Titles
             /\ votes' = Record(TitleOf[card], card, value, date)
             /\ standing' = Put(standing, i, date)
    BY <1>4, SubmitStores
  <2>a. /\ IsTable(votes, Titles, Vote)
        /\ IsTable(standing, Items, Time)
        /\ IsTable(receipts, Items, Time)
    BY DEF TypeOK
  <2>2. IsTable(votes', Titles, Vote)
    BY <2>1, <2>a, RecordTable
  <2>3. IsTable(standing', Items, Time)
    BY <2>1, <2>a, PutTable
  <2>c. DOMAIN standing' = DOMAIN standing \cup {i}
    BY <2>1 DEF Put
  <2>b. receipts' = Put(receipts, i, now)
    BY <1>4 DEF Submit
  <2>4. IsTable(receipts', Items, Time)
    BY <2>a, <2>b, PutTable
  <2>5. applied' \in [Items -> Nat]
    BY <1>4 DEF Submit, TypeOK
  <2>6. filing' \subseteq Titles
    <3>1. TitleOf[queue[i].card] \in Titles
      BY <2>1, VotesAssumption DEF TypeOK, IsTable, Item
    <3> QED
      BY <1>4, <3>1 DEF Submit, TypeOK
  <2> QED
    BY <1>4, <2>1, <2>2, <2>3, <2>4, <2>5, <2>6, <2>c DEF Submit, TypeOK
<1>5. ASSUME NEW t \in Titles, NEW at \in 0 .. now, Import(t, at) PROVE TypeOK'
  <2>1. at \in Time /\ [at |-> at, stands |-> TRUE] \in ForkRow
    BY Numbers DEF Time, ForkRow
  <2>a. IsTable(votes, Titles, Vote) /\ IsTable(forked, Titles, ForkRow)
    BY DEF TypeOK
  <2>b. /\ votes' = Record(t, NoCard, "like", at)
        /\ forked' = Put(forked, t, [at |-> at, stands |-> TRUE])
    BY <1>5 DEF Import
  <2>2. IsTable(votes', Titles, Vote)
    BY <2>1, <2>a, <2>b, RecordTable DEF Values
  <2>3. IsTable(forked', Titles, ForkRow)
    BY <2>1, <2>a, <2>b, PutTable
  <2> QED
    BY <1>5, <2>2, <2>3 DEF Import, TypeOK
<1>6. \A S : IsTable(Unforked(S), Titles, ForkRow)
  BY DEF TypeOK, IsTable, Unforked, ForkRow
<1>7. ASSUME NEW t \in Titles, Undo(t) PROVE TypeOK'
  <2>a. IsTable(votes, Titles, Vote) /\ IsTable(standing, Items, Time)
    BY DEF TypeOK
  <2>b. votes' = Drop(votes, {t}) /\ standing' = Drop(standing, StandingOn(t))
    BY <1>7 DEF Undo
  <2>1. IsTable(votes', Titles, Vote)
    BY <2>a, <2>b, DropTable
  <2>2. IsTable(standing', Items, Time)
    BY <2>a, <2>b, DropTable
  <2>3. DOMAIN standing' \subseteq DOMAIN standing
    BY <2>b DEF Drop
  <2> QED
    BY <1>6, <1>7, <2>1, <2>2, <2>3 DEF Undo, TypeOK
<1>8. CASE Reset
  <2>1. IsTable(votes', Titles, Vote) /\ IsTable(standing', Items, Time)
    BY <1>8 DEF Reset, IsTable, Empty
  <2>2. DOMAIN standing' = {}
    BY <1>8 DEF Reset, Empty
  <2>3. IsTable(emptied', Titles, Time)
    BY <1>8 DEF Reset, IsTable, TypeOK
  <2> QED
    BY <1>6, <1>8, <2>1, <2>2, <2>3 DEF Reset, TypeOK
<1>9. CASE Purge
  <2>a. IsTable(receipts, Items, Time) /\ receipts' = Drop(receipts, Spent)
    BY <1>9 DEF Purge, TypeOK
  <2>1. IsTable(receipts', Items, Time)
    BY <2>a, DropTable
  <2> QED
    BY <1>9, <2>1 DEF Purge, TypeOK, Stale
<1>10. ASSUME NEW t \in Titles, Ask(t) \/ Refuse(t) PROVE TypeOK'
  BY <1>10 DEF Ask, Refuse, TypeOK
<1>11. ASSUME NEW t \in Titles, Answer(t) PROVE TypeOK'
  <2>a. IsTable(votes, Titles, Vote)
    BY DEF TypeOK
  <2>1. IsTable(votes', Titles, Vote)
    <3>1. CASE votes' = votes
      BY <2>a, <3>1
    <3>2. CASE t \in DOMAIN votes /\ votes' = [votes EXCEPT ![t].requested = TRUE]
      <4>1. [votes[t] EXCEPT !.requested = TRUE] \in Vote
        BY <2>a, <3>2 DEF IsTable, Vote
      <4> QED
        BY <2>a, <3>2, <4>1 DEF IsTable
    <3> QED
      BY <1>11, <3>1, <3>2 DEF Answer
  <2> QED
    BY <1>11, <2>1 DEF Answer, TypeOK
<1>12. CASE UNCHANGED vars
  BY <1>12 DEF vars, TypeOK
<1> QED
  BY <1>1, <1>2, <1>3, <1>4, <1>5, <1>7, <1>8, <1>9, <1>10, <1>11, <1>12
     DEF Next, ImportUndated

\* Every reachable state has its types, for any titles, cards, swipes and delays.
THEOREM VotesTyped == Spec => []TypeOK
  BY InitTypeOK, NextTypeOK, PTL DEF Spec

-----------------------------------------------------------------------------
(* The queue, its receipts and the cards.                                   *)

\* Only a swipe and a card being served write what a device knows.
LEMMA DevicesKeep ==
    ASSUME TypeOK, Next
    PROVE  /\ now' >= now
           /\ \A i \in DOMAIN queue : i \in DOMAIN queue' /\ queue'[i] = queue[i]
           /\ \A c \in DOMAIN shown : c \in DOMAIN shown' /\ shown'[c] = shown[c]
<1> now \in Nat
  BY Numbers DEF TypeOK
<1>1. CASE Tick
  BY <1>1 DEF Tick
<1>2. ASSUME NEW c \in Cards, Serve(c)
      PROVE  /\ now' = now /\ queue' = queue
             /\ \A x \in DOMAIN shown : x \in DOMAIN shown' /\ shown'[x] = shown[x]
  BY <1>2 DEF Serve, Put
<1>3. ASSUME NEW i \in Items, NEW c \in Cards, NEW value \in Values,
             NEW at \in Readings(now), Swipe(i, c, value, at)
      PROVE  /\ now' = now /\ shown' = shown
             /\ \A x \in DOMAIN queue : x \in DOMAIN queue' /\ queue'[x] = queue[x]
  BY <1>3 DEF Swipe, Put
<1>4. CASE UNCHANGED <<now, shown, queue>>
  BY <1>4
<1>5. ASSUME \/ \E i \in Items : Submit(i)
             \/ \E t \in Titles, at \in 0 .. now : Import(t, at)
             \/ \E t \in Titles : ImportUndated(t) \/ Undo(t) \/ Ask(t) \/ Answer(t) \/ Refuse(t)
             \/ Reset
             \/ Purge
      PROVE  UNCHANGED <<now, shown, queue>>
  BY <1>5 DEF Submit, Import, ImportUndated, Undo, Ask, Answer, Refuse, Reset, Purge
<1> QED
  BY <1>1, <1>2, <1>3, <1>4, <1>5 DEF Next

\* The receipts only the purge takes, and a submission adds its own, dated now.
LEMMA ReceiptsStep ==
    ASSUME TypeOK, Next
    PROVE  \/ receipts' = receipts
           \/ /\ receipts' = Drop(receipts, Spent)
              /\ now' = now
           \/ /\ \E i \in Items : Submit(i)
              /\ now' = now
              /\ queue' = queue
<1>1. CASE \E i \in Items : Submit(i)
  BY <1>1 DEF Submit
<1>2. CASE Purge
  BY <1>2 DEF Purge
<1>3. ASSUME \/ Tick
             \/ \E c \in Cards : Serve(c)
             \/ \E i \in Items, c \in Cards, value \in Values, at \in Readings(now) :
                   Swipe(i, c, value, at)
             \/ \E t \in Titles, at \in 0 .. now : Import(t, at)
             \/ \E t \in Titles : ImportUndated(t) \/ Undo(t) \/ Ask(t) \/ Answer(t) \/ Refuse(t)
             \/ Reset
      PROVE  receipts' = receipts
  BY <1>3 DEF Tick, Serve, Swipe, Import, ImportUndated, Undo, Ask, Answer, Refuse, Reset
<1> QED
  BY <1>1, <1>2, <1>3 DEF Next

\* Every step leaves the queue on cards that were served, and the receipts on
\* items that were swiped before.
LEMMA NextQueueIsSound == TypeOK /\ QueueIsSound /\ [Next]_vars => QueueIsSound'
<1> SUFFICES ASSUME TypeOK, QueueIsSound, Next PROVE QueueIsSound'
  BY DEF vars, QueueIsSound
<1> now \in Nat /\ now' \in Nat
  BY NextTypeOK, Numbers DEF TypeOK
<1>0. /\ now' >= now
      /\ \A i \in DOMAIN queue : i \in DOMAIN queue' /\ queue'[i] = queue[i]
      /\ \A c \in DOMAIN shown : c \in DOMAIN shown' /\ shown'[c] = shown[c]
  BY DevicesKeep
<1>1. \A i \in DOMAIN queue : queue[i].made \in Nat /\ queue[i].made <= now
  BY Numbers DEF TypeOK, IsTable, Item, QueueIsSound
<1>2. \A i \in DOMAIN queue' : queue'[i].card \in DOMAIN shown' /\ queue'[i].made <= now'
  <2>1. CASE queue' = queue
    BY <1>0, <1>1, <2>1 DEF QueueIsSound
  <2>2. ASSUME NEW i \in Items, NEW c \in Cards, NEW value \in Values,
               NEW at \in Readings(now), Swipe(i, c, value, at)
        PROVE  \A x \in DOMAIN queue' : queue'[x].card \in DOMAIN shown' /\ queue'[x].made <= now'
    <3>1. /\ c \in DOMAIN shown /\ shown' = shown /\ now' = now
          /\ queue' = Put(queue, i, [card |-> c, value |-> value, at |-> at, made |-> now])
      BY <2>2 DEF Swipe
    <3>2. /\ queue'[i].card = c /\ queue'[i].made = now
          /\ \A x \in DOMAIN queue' \ {i} : x \in DOMAIN queue /\ queue'[x] = queue[x]
      BY <3>1 DEF Put
    <3> QED
      BY <1>1, <3>1, <3>2 DEF QueueIsSound
  <2>3. \/ queue' = queue
        \/ \E i \in Items, c \in Cards, value \in Values, at \in Readings(now) :
              Swipe(i, c, value, at)
    BY DEF Next, Tick, Serve, Submit, Import, ImportUndated, Undo, Ask, Answer, Refuse, Reset,
           Purge
  <2> QED
    BY <2>1, <2>2, <2>3
<1>3. \A i \in DOMAIN receipts' : i \in DOMAIN queue' /\ receipts'[i] >= queue'[i].made
  <2>1. CASE receipts' = receipts
    BY <1>0, <2>1 DEF QueueIsSound
  <2>2. CASE receipts' = Drop(receipts, Spent)
    <3>1. \A i \in DOMAIN receipts' : i \in DOMAIN receipts /\ receipts'[i] = receipts[i]
      BY <2>2 DEF Drop
    <3> QED
      BY <1>0, <3>1 DEF QueueIsSound
  <2>3. ASSUME NEW i \in Items, Submit(i)
        PROVE  \A x \in DOMAIN receipts' : x \in DOMAIN queue' /\ receipts'[x] >= queue'[x].made
    <3>1. i \in DOMAIN queue /\ receipts' = Put(receipts, i, now)
      BY <2>3 DEF Submit
    <3>2. /\ receipts'[i] = now
          /\ \A x \in DOMAIN receipts' \ {i} : x \in DOMAIN receipts /\ receipts'[x] = receipts[x]
      BY <3>1 DEF Put
    <3> QED
      BY <1>0, <1>1, <3>1, <3>2 DEF QueueIsSound
  <2> QED
    BY <2>1, <2>2, <2>3, ReceiptsStep
<1> QED
  BY <1>2, <1>3 DEF QueueIsSound

\* The purge is the only step that takes cards, and it takes none within the
\* retention (batches.purge).
LEMMA NextCardsAreKept == TypeOK /\ CardsAreKept /\ [Next]_vars => CardsAreKept'
<1> SUFFICES ASSUME TypeOK, CardsAreKept, Next PROVE CardsAreKept'
  BY DEF vars, CardsAreKept
<1>0. /\ now \in Nat /\ now' \in Nat /\ CardRetention \in Nat
      /\ \A c \in DOMAIN shown : shown[c] \in Nat
  BY NextTypeOK, Numbers DEF TypeOK, IsTable
<1>1. ASSUME NEW c \in Cards, Serve(c) PROVE CardsAreKept'
  <2>1. /\ shown' = Put(shown, c, now) /\ cards' = cards \cup {c} /\ now' = now
    BY <1>1 DEF Serve
  <2>2. \A x \in DOMAIN shown' \ {c} : x \in DOMAIN shown /\ shown'[x] = shown[x]
    BY <2>1 DEF Put
  <2> QED
    BY <2>1, <2>2 DEF CardsAreKept
<1>2. CASE Purge
  <2>1. cards' = cards \ Stale /\ shown' = shown /\ now' = now
    BY <1>2 DEF Purge
  <2> QED
    BY <1>0, <2>1 DEF CardsAreKept, Stale
<1>3. CASE shown' = shown /\ cards' = cards
  BY <1>0, <1>3, DevicesKeep DEF CardsAreKept
<1>4. \/ \E c \in Cards : Serve(c)
      \/ Purge
      \/ shown' = shown /\ cards' = cards
  BY DEF Next, Tick, Swipe, Submit, Import, ImportUndated, Undo, Ask, Answer, Refuse, Reset
<1> QED
  BY <1>1, <1>2, <1>3, <1>4

-----------------------------------------------------------------------------
(* What was stored.                                                         *)

\* What is settled stays settled: only the purge takes a receipt, and only one
\* whose item is too old to be sent, since QueueLife <= ReceiptRetention.
LEMMA SettledForGood ==
    ASSUME TypeOK, QueueIsSound, Next, NEW i, Settled(i)
    PROVE  Settled(i)'
<1>0. /\ now \in Nat /\ now' \in Nat /\ QueueLife \in Nat /\ ReceiptRetention \in Nat
      /\ QueueLife <= ReceiptRetention
      /\ \A x \in DOMAIN queue : queue[x].made \in Nat
      /\ \A x \in DOMAIN receipts : receipts[x] \in Nat
  BY NextTypeOK, Numbers DEF TypeOK, IsTable, Item
<1>1. /\ now' >= now
      /\ \A x \in DOMAIN queue : x \in DOMAIN queue' /\ queue'[x] = queue[x]
  BY DevicesKeep
<1>2. CASE i \in DOMAIN queue /\ queue[i].made + QueueLife < now
  BY <1>0, <1>1, <1>2 DEF Settled
<1>3. CASE i \in DOMAIN receipts /\ receipts' = receipts
  BY <1>3 DEF Settled
<1>4. CASE i \in DOMAIN receipts /\ receipts' = Drop(receipts, Spent) /\ now' = now
  <2>1. CASE i \in Spent
    <3>1. receipts[i] + ReceiptRetention < now
      BY <2>1 DEF Spent
    <3>2. i \in DOMAIN queue /\ receipts[i] >= queue[i].made
      BY <1>4 DEF QueueIsSound
    <3>3. queue[i].made + QueueLife < now
      BY <1>0, <1>4, <3>1, <3>2
    <3> QED
      BY <1>1, <1>4, <3>2, <3>3 DEF Settled
  <2>2. CASE i \notin Spent
    BY <1>4, <2>2 DEF Drop, Settled
  <2> QED
    BY <2>1, <2>2
<1>5. ASSUME i \in DOMAIN receipts, NEW j \in Items, Submit(j) PROVE Settled(i)'
  <2>1. receipts' = Put(receipts, j, now)
    BY <1>5 DEF Submit
  <2> QED
    BY <1>5, <2>1 DEF Put, Settled
<1> QED
  BY <1>2, <1>3, <1>4, <1>5, ReceiptsStep DEF Settled

\* An item is stored with its receipt, and only while it has none.
LEMMA NextStoredAreSettled ==
    TypeOK /\ QueueIsSound /\ StoredAreSettled /\ [Next]_vars => StoredAreSettled'
<1> SUFFICES ASSUME TypeOK, QueueIsSound, StoredAreSettled, Next PROVE StoredAreSettled'
  BY DEF vars, StoredAreSettled, Settled
<1>0. applied \in [Items -> Nat]
  BY DEF TypeOK
<1>1. ASSUME NEW j \in Items, Submit(j) PROVE StoredAreSettled'
  <2>1. /\ applied' = [applied EXCEPT ![j] = @ + 1]
        /\ receipts' = Put(receipts, j, now)
        /\ j \notin DOMAIN receipts /\ ~(queue[j].made + QueueLife < now)
    <3>1. /\ applied' = [applied EXCEPT ![j] = @ + 1]
          /\ receipts' = Put(receipts, j, now)
          /\ j \in DOMAIN queue /\ j \notin DOMAIN receipts
          /\ queue[j].made + QueueLife >= now
      BY <1>1 DEF Submit
    <3>2. queue[j].made \in Nat /\ QueueLife \in Nat /\ now \in Nat
      BY <3>1, Numbers DEF TypeOK, IsTable, Item
    <3> QED
      BY <3>1, <3>2
  <2>2. PICK date \in Time : standing' = Put(standing, j, date)
    BY <1>1, SubmitStores
  <2>3. applied[j] = 0
    BY <1>0, <2>1 DEF StoredAreSettled, Settled
  <2>4. j \in DOMAIN receipts'
    BY <2>1 DEF Put
  <2>5. DOMAIN standing' = DOMAIN standing \cup {j}
    BY <2>2 DEF Put
  <2> SUFFICES ASSUME NEW i \in Items
               PROVE  /\ applied'[i] <= 1
                      /\ applied'[i] = 1 \/ i \in DOMAIN standing' => Settled(i)'
    BY DEF StoredAreSettled
  <2>6. CASE i = j
    BY <1>0, <2>1, <2>3, <2>4, <2>6 DEF Settled
  <2>7. CASE i # j
    <3>1. applied'[i] = applied[i] /\ (i \in DOMAIN standing' => i \in DOMAIN standing)
      BY <1>0, <2>1, <2>5, <2>7
    <3> QED
      BY <3>1, SettledForGood DEF StoredAreSettled
  <2> QED
    BY <2>6, <2>7
<1>2. CASE applied' = applied /\ DOMAIN standing' \subseteq DOMAIN standing
  BY <1>2, SettledForGood DEF StoredAreSettled
<1>3. ASSUME NEW t \in Titles, Undo(t) PROVE DOMAIN standing' \subseteq DOMAIN standing
  BY <1>3 DEF Undo, Drop
<1>4. ASSUME Reset PROVE DOMAIN standing' \subseteq DOMAIN standing
  BY <1>4 DEF Reset, Empty
<1>5. \/ \E i \in Items : Submit(i)
      \/ applied' = applied /\ DOMAIN standing' \subseteq DOMAIN standing
  <2>1. CASE \E t \in Titles : Undo(t)
    BY <1>3, <2>1 DEF Undo
  <2>2. CASE Reset
    BY <1>4, <2>2 DEF Reset
  <2>3. ASSUME \/ Tick
               \/ \E c \in Cards : Serve(c)
               \/ \E i \in Items, c \in Cards, value \in Values, at \in Readings(now) :
                     Swipe(i, c, value, at)
               \/ \E t \in Titles, at \in 0 .. now : Import(t, at)
               \/ \E t \in Titles : ImportUndated(t) \/ Ask(t) \/ Answer(t) \/ Refuse(t)
               \/ Purge
        PROVE  applied' = applied /\ standing' = standing
    BY <2>3 DEF Tick, Serve, Swipe, Import, ImportUndated, Ask, Answer, Refuse, Purge
  <2> QED
    BY <2>1, <2>2, <2>3 DEF Next
<1> QED
  BY <1>1, <1>2, <1>5

-----------------------------------------------------------------------------
(* The newest swipe wins.                                                   *)

\* The newest answer of a title wins.
NewestWinsOn(t) ==
    IF t \in DOMAIN votes
    THEN /\ \A i \in StandingOn(t) : standing[i] <= votes[t].at
         /\ ForkStands(t) => forked[t].at <= votes[t].at
         /\ \/ \E i \in StandingOn(t) :
                  /\ standing[i] = votes[t].at
                  /\ queue[i].value = votes[t].value
                  /\ queue[i].card = votes[t].card
            \/ ForkStands(t) /\ forked[t].at = votes[t].at /\ votes[t].card = NoCard
    ELSE StandingOn(t) = {} /\ ~ForkStands(t)

\* A title whose row, standing answers and fork row are left alone keeps its
\* newest answer.
LEMMA LeftAlone ==
    ASSUME TypeOK, NEW t, NewestWinsOn(t),
           t \in DOMAIN votes' <=> t \in DOMAIN votes,
           t \in DOMAIN votes =>
               /\ votes'[t].at = votes[t].at
               /\ votes'[t].value = votes[t].value
               /\ votes'[t].card = votes[t].card,
           StandingOn(t)' = StandingOn(t),
           \A i \in StandingOn(t) : standing'[i] = standing[i] /\ queue'[i] = queue[i],
           ForkStands(t)' <=> ForkStands(t),
           ForkStands(t) => forked'[t].at = forked[t].at
    PROVE  NewestWinsOn(t)'
<1>1. CASE t \in DOMAIN votes
  <2>1. /\ \A i \in StandingOn(t)' : standing'[i] <= votes'[t].at
        /\ ForkStands(t)' => forked'[t].at <= votes'[t].at
    BY <1>1 DEF NewestWinsOn
  <2>2. CASE \E i \in StandingOn(t) :
                /\ standing[i] = votes[t].at
                /\ queue[i].value = votes[t].value
                /\ queue[i].card = votes[t].card
    <3>1. PICK i \in StandingOn(t)' :
                /\ standing'[i] = votes'[t].at
                /\ queue'[i].value = votes'[t].value
                /\ queue'[i].card = votes'[t].card
      BY <1>1, <2>2
    <3> QED
      BY <1>1, <2>1, <3>1 DEF NewestWinsOn
  <2>3. CASE ForkStands(t) /\ forked[t].at = votes[t].at /\ votes[t].card = NoCard
    <3>1. ForkStands(t)' /\ forked'[t].at = votes'[t].at /\ votes'[t].card = NoCard
      BY <1>1, <2>3
    <3> QED
      BY <1>1, <2>1, <3>1 DEF NewestWinsOn
  <2> QED
    BY <1>1, <2>2, <2>3 DEF NewestWinsOn
<1>2. CASE t \notin DOMAIN votes
  BY <1>2 DEF NewestWinsOn
<1> QED
  BY <1>1, <1>2

\* Submitting an item leaves its title with the newest answer, whether it is
\* this one or the one there was (_store, record).
LEMMA SubmitNewest ==
    ASSUME Sound, NEW i \in Items, Submit(i), NEW t \in Titles
    PROVE  NewestWinsOn(t)'
<1>1. PICK date \in Time, card \in Cards, value \in Values :
         /\ i \in DOMAIN queue /\ i \notin DOMAIN receipts
         /\ queue[i].made + QueueLife >= now
         /\ card = queue[i].card /\ value = queue[i].value
         /\ TitleOf[card] \in Titles
         /\ votes' = Record(TitleOf[card], card, value, date)
         /\ standing' = Put(standing, i, date)
  BY SubmitStores DEF Sound
<1>2. queue' = queue /\ forked' = forked
  BY DEF Submit
<1>3. i \notin DOMAIN standing
  <2>1. queue[i].made \in Nat /\ QueueLife \in Nat /\ now \in Nat
    BY <1>1, Numbers DEF Sound, TypeOK, IsTable, Item
  <2> QED
    BY <1>1, <2>1 DEF Sound, StoredAreSettled, Settled
<1>4. /\ DOMAIN standing' = DOMAIN standing \cup {i}
      /\ standing'[i] = date
      /\ \A x \in DOMAIN standing : standing'[x] = standing[x]
  BY <1>1, <1>3 DEF Put
<1>5. ForkStands(t)' <=> ForkStands(t)
  BY <1>2 DEF ForkStands
<1>6. NewestWinsOn(t)
  BY DEF Sound, NewestSwipeWins, NewestWinsOn
<1>7. Recorded(votes', TitleOf[card], card, value, date)
  <2>1. date \in Nat /\ \A x \in DOMAIN votes : votes[x].at \in Nat
    BY Numbers DEF Sound, TypeOK, IsTable, Vote
  <2> QED
    BY <1>1, <2>1, RecordRow
<1>8. CASE t # TitleOf[card]
  <2>1. StandingOn(t)' = StandingOn(t)
    BY <1>1, <1>2, <1>4, <1>8 DEF StandingOn, TitleOfItem
  <2>2. \A x \in StandingOn(t) : standing'[x] = standing[x] /\ queue'[x] = queue[x]
    BY <1>2, <1>4 DEF StandingOn
  <2>3. /\ t \in DOMAIN votes' <=> t \in DOMAIN votes
        /\ t \in DOMAIN votes => votes'[t] = votes[t]
    BY <1>7, <1>8 DEF Recorded
  <2> QED
    BY <1>2, <1>5, <1>6, <2>1, <2>2, <2>3, LeftAlone DEF Sound
<1>9. CASE t = TitleOf[card]
  <2>1. t \in DOMAIN votes'
    BY <1>7, <1>9 DEF Recorded
  <2>2. StandingOn(t)' = StandingOn(t) \cup {i}
    BY <1>1, <1>2, <1>4, <1>9 DEF StandingOn, TitleOfItem
  <2>3. /\ IsTable(votes, Titles, Vote) /\ IsTable(votes', Titles, Vote)
        /\ IsTable(standing, Items, Time) /\ IsTable(forked, Titles, ForkRow)
    BY NextTypeOK DEF Sound, TypeOK, Next
  <2>4. /\ date \in Nat /\ votes'[t].at \in Nat
        /\ t \in DOMAIN votes => votes[t].at \in Nat
        /\ \A x \in DOMAIN standing : standing[x] \in Nat
        /\ t \in DOMAIN forked => forked[t].at \in Nat
    BY <2>1, <2>3, Numbers DEF IsTable, Vote, ForkRow
  <2>5. \A x \in StandingOn(t)' : standing'[x] <= votes'[t].at
    <3>1. \A x \in StandingOn(t) : t \in DOMAIN votes /\ standing[x] <= votes[t].at
      BY <1>6 DEF NewestWinsOn
    <3>2. \A x \in StandingOn(t) : x \in DOMAIN standing
      BY DEF StandingOn
    <3> QED
      BY <1>4, <1>7, <1>9, <2>2, <2>4, <3>1, <3>2 DEF Recorded
  <2>6. ForkStands(t)' => forked'[t].at <= votes'[t].at
    <3>1. ForkStands(t) => t \in DOMAIN votes /\ forked[t].at <= votes[t].at /\ t \in DOMAIN forked
      BY <1>6 DEF NewestWinsOn, ForkStands
    <3> QED
      BY <1>2, <1>5, <1>7, <1>9, <2>4, <3>1 DEF Recorded
  <2>7. CASE /\ votes'[t].at = date
             /\ votes'[t].value = value
             /\ votes'[t].card = card
    <3>1. /\ i \in StandingOn(t)'
          /\ standing'[i] = votes'[t].at
          /\ queue'[i].value = votes'[t].value
          /\ queue'[i].card = votes'[t].card
      BY <1>1, <1>2, <1>4, <2>2, <2>7
    <3> QED
      BY <2>1, <2>5, <2>6, <3>1 DEF NewestWinsOn
  <2>8. CASE t \in DOMAIN votes /\ votes' = votes
    <3>1. CASE \E x \in StandingOn(t) :
                  /\ standing[x] = votes[t].at
                  /\ queue[x].value = votes[t].value
                  /\ queue[x].card = votes[t].card
      <4>1. PICK x \in StandingOn(t) :
                  /\ standing[x] = votes[t].at
                  /\ queue[x].value = votes[t].value
                  /\ queue[x].card = votes[t].card
        BY <3>1
      <4>2. /\ x \in StandingOn(t)'
            /\ standing'[x] = votes'[t].at
            /\ queue'[x].value = votes'[t].value
            /\ queue'[x].card = votes'[t].card
        BY <1>2, <1>4, <2>2, <2>8, <4>1 DEF StandingOn
      <4> QED
        BY <2>1, <2>5, <2>6, <4>2 DEF NewestWinsOn
    <3>2. CASE ForkStands(t) /\ forked[t].at = votes[t].at /\ votes[t].card = NoCard
      <4>1. ForkStands(t)' /\ forked'[t].at = votes'[t].at /\ votes'[t].card = NoCard
        BY <1>2, <1>5, <2>8, <3>2
      <4> QED
        BY <2>1, <2>5, <2>6, <4>1 DEF NewestWinsOn
    <3> QED
      BY <1>6, <2>8, <3>1, <3>2 DEF NewestWinsOn
  <2> QED
    BY <1>7, <1>9, <2>7, <2>8 DEF Recorded
<1> QED
  BY <1>8, <1>9

\* Importing a row of the fork leaves its title with the newest answer
\* (store_votes).
LEMMA ImportNewest ==
    ASSUME Sound, NEW u \in Titles, NEW at \in Time, Import(u, at), NEW t \in Titles
    PROVE  NewestWinsOn(t)'
<1>1. /\ u \notin DOMAIN forked
      /\ votes' = Record(u, NoCard, "like", at)
      /\ forked' = Put(forked, u, [at |-> at, stands |-> TRUE])
      /\ queue' = queue /\ standing' = standing
  BY DEF Import
<1>2. StandingOn(t)' = StandingOn(t)
  BY <1>1 DEF StandingOn, TitleOfItem
<1>3. NewestWinsOn(t)
  BY DEF Sound, NewestSwipeWins, NewestWinsOn
<1>4. /\ IsTable(votes, Titles, Vote)
      /\ IsTable(standing, Items, Time)
  BY DEF Sound, TypeOK
<1>5. Recorded(votes', u, NoCard, "like", at)
  <2>1. at \in Nat /\ \A x \in DOMAIN votes : votes[x].at \in Nat
    BY Numbers DEF Sound, TypeOK, IsTable, Vote
  <2> QED
    BY <1>1, <2>1, RecordRow
<1>6. /\ u \in DOMAIN forked' /\ forked'[u].at = at /\ forked'[u].stands
      /\ \A x \in DOMAIN forked' \ {u} : x \in DOMAIN forked /\ forked'[x] = forked[x]
      /\ \A x \in DOMAIN forked : x \in DOMAIN forked'
  BY <1>1 DEF Put
<1>7. CASE t # u
  <2>1. /\ t \in DOMAIN votes' <=> t \in DOMAIN votes
        /\ t \in DOMAIN votes => votes'[t] = votes[t]
    BY <1>5, <1>7 DEF Recorded
  <2>2. /\ ForkStands(t)' <=> ForkStands(t)
        /\ ForkStands(t) => forked'[t].at = forked[t].at
    BY <1>6, <1>7 DEF ForkStands
  <2> QED
    BY <1>1, <1>2, <1>3, <2>1, <2>2, LeftAlone DEF Sound
<1>8. CASE t = u
  <2>1. t \in DOMAIN votes' /\ ForkStands(t)' /\ forked'[t].at = at
    BY <1>5, <1>6, <1>8 DEF ForkStands, Recorded
  <2>2. /\ at \in Nat /\ votes'[t].at \in Nat
        /\ t \in DOMAIN votes => votes[t].at \in Nat
        /\ \A x \in DOMAIN standing : standing[x] \in Nat
    BY <1>4, <1>5, <2>1, Numbers DEF IsTable, Vote, Recorded
  <2>3. \A x \in StandingOn(t)' : standing'[x] <= votes'[t].at
    <3>1. \A x \in StandingOn(t) : t \in DOMAIN votes /\ standing[x] <= votes[t].at
      BY <1>3 DEF NewestWinsOn
    <3>2. \A x \in StandingOn(t) : x \in DOMAIN standing
      BY DEF StandingOn
    <3> QED
      BY <1>1, <1>2, <1>5, <1>8, <2>2, <3>1, <3>2 DEF Recorded
  <2>4. forked'[t].at <= votes'[t].at
    BY <1>5, <1>8, <2>1, <2>2 DEF Recorded
  <2>5. CASE votes'[t].at = at /\ votes'[t].card = NoCard
    BY <2>1, <2>3, <2>4, <2>5 DEF NewestWinsOn
  <2>6. CASE t \in DOMAIN votes /\ votes' = votes
    <3>1. ~ForkStands(t)
      BY <1>1, <1>8 DEF ForkStands
    <3>2. PICK x \in StandingOn(t) :
                  /\ standing[x] = votes[t].at
                  /\ queue[x].value = votes[t].value
                  /\ queue[x].card = votes[t].card
      BY <1>3, <2>6, <3>1 DEF NewestWinsOn
    <3>3. /\ x \in StandingOn(t)'
          /\ standing'[x] = votes'[t].at
          /\ queue'[x].value = votes'[t].value
          /\ queue'[x].card = votes'[t].card
      BY <1>1, <1>2, <2>6, <3>2
    <3> QED
      BY <2>1, <2>3, <2>4, <3>3 DEF NewestWinsOn
  <2> QED
    BY <1>5, <1>8, <2>5, <2>6 DEF Recorded
<1> QED
  BY <1>7, <1>8

\* A step that writes no row, no answer and no row of the fork leaves every
\* title's newest answer.
LEMMA OthersNewest ==
    ASSUME Sound, NEW t \in Titles,
           \/ UNCHANGED <<votes, standing, queue, forked>>
           \/ \E i \in Items, c \in Cards, value \in Values, at \in Readings(now) :
                 Swipe(i, c, value, at)
           \/ \E u \in Titles : Answer(u)
    PROVE  NewestWinsOn(t)'
<1>1. /\ standing' = standing /\ forked' = forked
      /\ \A x \in DOMAIN queue : queue'[x] = queue[x]
      /\ t \in DOMAIN votes' <=> t \in DOMAIN votes
      /\ t \in DOMAIN votes =>
               /\ votes'[t].at = votes[t].at
               /\ votes'[t].value = votes[t].value
               /\ votes'[t].card = votes[t].card
  <2>1. CASE UNCHANGED <<votes, standing, queue, forked>>
    BY <2>1
  <2>2. CASE \E i \in Items, c \in Cards, value \in Values, at \in Readings(now) :
                 Swipe(i, c, value, at)
    BY <2>2 DEF Swipe, Put
  <2>3. ASSUME NEW u \in Titles, Answer(u)
        PROVE  /\ standing' = standing /\ forked' = forked /\ queue' = queue
               /\ t \in DOMAIN votes' <=> t \in DOMAIN votes
               /\ t \in DOMAIN votes =>
                        /\ votes'[t].at = votes[t].at
                        /\ votes'[t].value = votes[t].value
                        /\ votes'[t].card = votes[t].card
    <3>1. IsTable(votes, Titles, Vote)
      BY DEF Sound, TypeOK
    <3> QED
      BY <2>3, <3>1 DEF Answer, IsTable, Vote
  <2> QED
    BY <2>1, <2>2, <2>3
<1>2. \A x \in DOMAIN standing : x \in DOMAIN queue
  BY DEF Sound, TypeOK
<1>3. StandingOn(t)' = StandingOn(t)
  BY <1>1, <1>2 DEF StandingOn, TitleOfItem
<1>4. \A x \in StandingOn(t) : standing'[x] = standing[x] /\ queue'[x] = queue[x]
  BY <1>1, <1>2 DEF StandingOn
<1>5. ForkStands(t)' <=> ForkStands(t)
  BY <1>1 DEF ForkStands
<1>6. NewestWinsOn(t)
  BY DEF Sound, NewestSwipeWins, NewestWinsOn
<1> QED
  BY <1>1, <1>3, <1>4, <1>5, <1>6, LeftAlone DEF Sound

\* Taking an answer back leaves nothing of its title, and all of the others.
LEMMA UndoNewest ==
    ASSUME Sound, NEW u \in Titles, Undo(u), NEW t \in Titles
    PROVE  NewestWinsOn(t)'
<1>1. /\ votes' = Drop(votes, {u})
      /\ standing' = Drop(standing, StandingOn(u))
      /\ forked' = Unforked({u})
      /\ queue' = queue
  BY DEF Undo
<1>2. /\ DOMAIN votes' = DOMAIN votes \ {u}
      /\ \A x \in DOMAIN votes \ {u} : votes'[x] = votes[x]
  BY <1>1 DEF Drop
<1>3. /\ DOMAIN standing' = DOMAIN standing \ StandingOn(u)
      /\ \A x \in DOMAIN standing \ StandingOn(u) : standing'[x] = standing[x]
  BY <1>1 DEF Drop
<1>4. CASE t = u
  <2>1. StandingOn(t)' = {}
    BY <1>1, <1>3, <1>4 DEF StandingOn, TitleOfItem
  <2>2. ~ForkStands(t)'
    <3>1. IsTable(forked, Titles, ForkRow)
      BY DEF Sound, TypeOK
    <3> QED
      BY <1>1, <1>4, <3>1 DEF ForkStands, Unforked, IsTable, ForkRow
  <2> QED
    BY <1>2, <1>4, <2>1, <2>2 DEF NewestWinsOn
<1>5. CASE t # u
  <2>1. StandingOn(t)' = StandingOn(t)
    BY <1>1, <1>3, <1>5 DEF StandingOn, TitleOfItem
  <2>2. \A x \in StandingOn(t) : standing'[x] = standing[x] /\ queue'[x] = queue[x]
    BY <1>1, <1>3, <1>5 DEF StandingOn, TitleOfItem
  <2>3. DOMAIN forked' = DOMAIN forked /\ (t \in DOMAIN forked => forked'[t] = forked[t])
    BY <1>1, <1>5 DEF Unforked
  <2>4. /\ ForkStands(t)' <=> ForkStands(t)
        /\ ForkStands(t) => forked'[t].at = forked[t].at
    BY <2>3 DEF ForkStands
  <2>5. /\ t \in DOMAIN votes' <=> t \in DOMAIN votes
        /\ t \in DOMAIN votes => votes'[t] = votes[t]
    BY <1>2, <1>5
  <2>6. NewestWinsOn(t)
    BY DEF Sound, NewestSwipeWins, NewestWinsOn
  <2> QED
    BY <2>1, <2>2, <2>4, <2>5, <2>6, LeftAlone DEF Sound
<1> QED
  BY <1>4, <1>5

\* Emptying the votes leaves nothing of any title.
LEMMA ResetNewest ==
    ASSUME Sound, Reset, NEW t \in Titles
    PROVE  NewestWinsOn(t)'
<1>1. votes' = Empty /\ standing' = Empty /\ forked' = Unforked(DOMAIN forked)
  BY DEF Reset
<1>2. t \notin DOMAIN votes' /\ StandingOn(t)' = {}
  BY <1>1 DEF Empty, StandingOn
<1>3. IsTable(forked, Titles, ForkRow)
  BY DEF Sound, TypeOK
<1>4. ~ForkStands(t)'
  BY <1>1, <1>3 DEF ForkStands, Unforked, IsTable, ForkRow
<1> QED
  BY <1>2, <1>4 DEF NewestWinsOn

\* Every step leaves every title with the newest of its answers.
LEMMA NextNewestSwipeWins == Sound /\ [Next]_vars => NewestSwipeWins'
<1> SUFFICES ASSUME Sound, [Next]_vars, NEW t \in Titles PROVE NewestWinsOn(t)'
  BY DEF NewestSwipeWins, NewestWinsOn
<1>1. CASE \E i \in Items : Submit(i)
  BY <1>1, SubmitNewest
<1>2. ASSUME NEW u \in Titles, NEW at \in 0 .. now, Import(u, at) PROVE NewestWinsOn(t)'
  <2>1. at \in Time
    BY Numbers DEF Sound, TypeOK, Time
  <2> QED
    BY <1>2, <2>1, ImportNewest
<1>3. ASSUME NEW u \in Titles, ImportUndated(u) PROVE NewestWinsOn(t)'
  <2>1. now \in Time /\ Import(u, now)
    BY <1>3 DEF Sound, TypeOK, ImportUndated
  <2> QED
    BY <2>1, ImportNewest
<1>4. CASE \E u \in Titles : Undo(u)
  BY <1>4, UndoNewest
<1>5. CASE Reset
  BY <1>5, ResetNewest
<1>6. ASSUME \/ Tick
             \/ \E c \in Cards : Serve(c)
             \/ \E u \in Titles : Ask(u) \/ Refuse(u)
             \/ Purge
             \/ UNCHANGED vars
      PROVE  UNCHANGED <<votes, standing, queue, forked>>
  BY <1>6 DEF Tick, Serve, Ask, Refuse, Purge, vars
<1>7. CASE \/ UNCHANGED <<votes, standing, queue, forked>>
           \/ \E i \in Items, c \in Cards, value \in Values, at \in Readings(now) :
                 Swipe(i, c, value, at)
           \/ \E u \in Titles : Answer(u)
  BY <1>7, OthersNewest
<1> QED
  BY <1>1, <1>2, <1>3, <1>4, <1>5, <1>6, <1>7 DEF Next

-----------------------------------------------------------------------------
(* The theorems.                                                            *)

\* The invariant holds at first.
LEMMA InitSound == Init => Sound
<1> SUFFICES ASSUME Init PROVE Sound
  OBVIOUS
<1>1. QueueIsSound /\ CardsAreKept /\ StoredAreSettled
  BY DEF Init, QueueIsSound, CardsAreKept, StoredAreSettled, Empty
<1>2. NewestSwipeWins
  BY DEF Init, NewestSwipeWins, StandingOn, ForkStands, Empty
<1> QED
  BY <1>1, <1>2, InitTypeOK DEF Sound

\* And after every step.
LEMMA NextSound == Sound /\ [Next]_vars => Sound'
  BY NextTypeOK, NextQueueIsSound, NextStoredAreSettled, NextCardsAreKept, NextNewestSwipeWins
     DEF Sound

\* Whatever order the packets come in, and however often, the row is the newest
\* answer stored and not taken back (votes.record, store_votes).
THEOREM NewestWins == Spec => []NewestSwipeWins
<1>1. Sound => NewestSwipeWins
  BY DEF Sound
<1> QED
  BY <1>1, InitSound, NextSound, PTL DEF Spec

\* A queue delivered within the retention finds its cards (get_card, purge).
THEOREM NoneTurnedAway == Spec => []NoVoteIsTurnedAway
<1>1. Sound => NoVoteIsTurnedAway
  BY DEF Sound, QueueIsSound, CardsAreKept, NoVoteIsTurnedAway, HasCard
<1> QED
  BY <1>1, InitSound, NextSound, PTL DEF Spec

\* An item resent, or a row of the fork imported again, is never stored again,
\* though the purge takes receipts (remember_receipt, purge_receipts).
THEOREM StoredOnlyOnce == Spec => AppliedOnce
<1>1. Sound /\ Sound' /\ [Next]_vars =>
         [/\ \A i \in Items : applied'[i] <= 1
          /\ \A t \in DOMAIN forked :
                t \in DOMAIN forked' /\ (forked'[t].stands => forked[t].stands)]_vars
  <2> SUFFICES ASSUME Sound, Sound', Next
               PROVE  /\ \A i \in Items : applied'[i] <= 1
                      /\ \A t \in DOMAIN forked :
                            t \in DOMAIN forked' /\ (forked'[t].stands => forked[t].stands)
    BY DEF vars
  <2>1. \A i \in Items : applied'[i] <= 1
    BY DEF Sound, StoredAreSettled
  <2> SUFFICES ASSUME NEW t \in DOMAIN forked
               PROVE  t \in DOMAIN forked' /\ (forked'[t].stands => forked[t].stands)
    BY <2>1
  <2>2. CASE forked' = forked
    BY <2>2
  <2>3. ASSUME NEW u \in Titles, NEW at, Import(u, at)
        PROVE  t \in DOMAIN forked' /\ forked'[t] = forked[t]
    BY <2>3 DEF Import, Put
  <2>4. ASSUME NEW S, forked' = Unforked(S)
        PROVE  t \in DOMAIN forked' /\ (forked'[t].stands => forked[t].stands)
    <3>1. IsTable(forked, Titles, ForkRow)
      BY DEF Sound, TypeOK
    <3> QED
      BY <2>4, <3>1 DEF Unforked, IsTable, ForkRow
  <2>5. \/ forked' = forked
        \/ \E u \in Titles, at \in Nat : Import(u, at)
        \/ \E S \in SUBSET Titles : forked' = Unforked(S)
    <3> now \in Nat /\ \A n \in 0 .. now : n \in Nat
      BY Numbers DEF Sound, TypeOK
    <3>1. ASSUME NEW u \in Titles, Undo(u) PROVE {u} \in SUBSET Titles /\ forked' = Unforked({u})
      BY <3>1 DEF Undo
    <3>2. CASE Reset
      <4>1. DOMAIN forked \in SUBSET Titles
        BY DEF Sound, TypeOK, IsTable
      <4> QED
        BY <3>2, <4>1 DEF Reset
    <3>3. CASE \/ \E u \in Titles, at \in 0 .. now : Import(u, at)
               \/ \E u \in Titles : ImportUndated(u)
      BY <3>3 DEF ImportUndated
    <3>4. CASE \/ Tick
               \/ \E c \in Cards : Serve(c)
               \/ \E i \in Items, c \in Cards, value \in Values, at \in Readings(now) :
                     Swipe(i, c, value, at)
               \/ \E i \in Items : Submit(i)
               \/ \E u \in Titles : Ask(u) \/ Answer(u) \/ Refuse(u)
               \/ Purge
      BY <3>4 DEF Tick, Serve, Swipe, Submit, Ask, Answer, Refuse, Purge
    <3> QED
      BY <3>1, <3>2, <3>3, <3>4 DEF Next
  <2> QED
    BY <2>2, <2>3, <2>4, <2>5
<1> QED
  BY <1>1, InitSound, NextSound, PTL DEF Spec, AppliedOnce

-----------------------------------------------------------------------------
(* The debounce of the taste profile (Taste).                               *)

\* A step of the instance is a step of Taste, or leaves it alone.
LEMMA TasteAlone ==
    /\ MCInit => T!Init
    /\ [MCNext]_MCVars => [T!Next]_T!vars
<1>1. ASSUME MCInit PROVE T!Init
  BY <1>1 DEF MCInit
<1>2. ASSUME [MCNext]_MCVars PROVE [T!Next]_T!vars
  BY <1>2 DEF MCNext, MCVars, ofTaste, T!vars
<1> QED
  BY <1>1, <1>2

\* Counting in Taste is counting.
LEMMA SameCount ==
    /\ \A S : T!Cardinality(S) = Cardinality(S)
    /\ \A S : T!IsFiniteSet(S) <=> IsFiniteSet(S)
  BY DEF T!Cardinality, Cardinality, T!IsFiniteSet, IsFiniteSet

\* A multiple grows with what is multiplied.
LEMMA MultiplesGrow ==
    ASSUME NEW k \in Nat, NEW a \in Int, NEW b \in Int, a <= b
    PROVE  k * a <= k * b
  OBVIOUS

\* A multiple of a sum is the sum of the multiples.
LEMMA MultiplesAdd ==
    ASSUME NEW k \in Int, NEW a \in Int, NEW b \in Int
    PROVE  /\ k * a \in Int /\ k * b \in Int /\ k * (a + b) \in Int
           /\ k * (a + b) = k * a + k * b
  OBVIOUS

\* Submissions that were told a rewrite is due, rewrites started by a vote that have
\* not read the votes yet, and those that have, and called the model.
Promised == {c \in Callers : callers[c] = "vote"}
Unread == {r \in DOMAIN tasks : tasks[r].by = "vote" /\ tasks[r].read = None}
Paid == {r \in DOMAIN tasks : tasks[r].by = "vote" /\ tasks[r].read # None}

\* Each opinion given is worth one unit for each caller, each call costs Refresh of
\* them, and one that was cut short is given back.
Share == Cardinality(Callers)
Worth(n) == Share * n
Cost(n) == Refresh * n
Income == Worth(earned) + Cost(cut)
Owed == Cost(Cardinality(Promised) + Cardinality(Unread))
Lent == Cost(Cardinality(Paid))

\* Sets the counts are of are finite.
Countable ==
    /\ IsFiniteSet(opinions)
    /\ IsFiniteSet(DOMAIN tasks)
    /\ \A r \in DOMAIN tasks : tasks[r].read # None => IsFiniteSet(tasks[r].read)

\* What the opinions that count towards the next rewrite are worth was not spent, or
\* was lent to a call not settled yet.
DueIsCovered ==
    Worth(Cardinality(opinions)) + Cost(calls) <= Worth(base) + Income + Lent
\* Nor was what is owed to calls still to be made; and, beside it, what a base set by
\* a rewrite under way will make of the opinions newer than it.
OwedIsLeft ==
    /\ Owed + Cost(calls) <= Income
    /\ \A r \in DOMAIN tasks :
         tasks[r].read # None =>
            Owed + Worth(Cardinality(opinions \ tasks[r].read)) + Cost(calls) <= Income

CreditInv == T!TypeOK /\ Countable /\ DueIsCovered /\ OwedIsLeft
-----------------------------------------------------------------------------
\* The books balance before anything is said.
LEMMA TasteInit == T!Init => CreditInv
<1> SUFFICES ASSUME T!Init PROVE CreditInv
  OBVIOUS
<1>0. /\ IsFiniteSet(Callers) /\ Refresh \in Nat /\ MaxEarned \in Nat /\ MaxCut \in Nat
  BY TasteAssumption, SameCount DEF T!TasteAssumption
<1>1. Share \in Nat
  BY <1>0, FS_CardinalityType DEF Share
<1>2. DOMAIN tasks = {} /\ Promised = {} /\ Unread = {} /\ Paid = {} /\ opinions = {}
  BY DEF T!Init, T!Empty, Promised, Unread, Paid
<1>3. Cardinality({}) = 0 /\ IsFiniteSet({})
  BY FS_EmptySet
<1>4. T!TypeOK
  BY <1>0, <1>2 DEF T!Init, T!TypeOK, T!IsTable, T!Empty, T!Steps
<1>5. Countable
  BY <1>2, <1>3 DEF Countable
<1>6. earned = 0 /\ calls = 0 /\ cut = 0 /\ base = 0
  BY DEF T!Init
<1>7. Income = 0 /\ Owed = 0 /\ Lent = 0 /\ Worth(0) = 0 /\ Cost(0) = 0
  BY <1>0, <1>1, <1>2, <1>3, <1>6 DEF Income, Owed, Lent, Worth, Cost
<1> QED
  BY <1>2, <1>3, <1>4, <1>5, <1>6, <1>7 DEF CreditInv, DueIsCovered, OwedIsLeft

\* The types and the finiteness of what is counted, one step per action.
LEMMA TasteTyped == T!TypeOK /\ Countable /\ [T!Next]_T!vars => T!TypeOK' /\ Countable'
<1> SUFFICES ASSUME T!TypeOK, Countable, [T!Next]_T!vars PROVE T!TypeOK' /\ Countable'
  OBVIOUS
<1>0. /\ MaxEarned \in Nat /\ MaxCut \in Nat /\ None \notin RewriteIds /\ None \notin SUBSET Seen
      /\ IsFiniteSet(Callers)
  BY TasteAssumption, SameCount DEF T!TasteAssumption
<1>1. ASSUME NEW S, IsFiniteSet(S) PROVE T!Cardinality(S) \in Nat
  BY <1>1, SameCount, FS_CardinalityType
<1>2. ASSUME NEW S, IsFiniteSet(S), NEW D, D \subseteq S PROVE IsFiniteSet(D)
  BY <1>2, FS_Subset
<1>3. ASSUME NEW r, tasks' = T!Drop(tasks, {r}),
             T!IsTable(tasks, RewriteIds, T!Task), IsFiniteSet(DOMAIN tasks)
      PROVE  /\ T!IsTable(tasks', RewriteIds, T!Task)
             /\ IsFiniteSet(DOMAIN tasks') /\ DOMAIN tasks' = DOMAIN tasks \ {r}
             /\ \A x \in DOMAIN tasks' : tasks'[x] = tasks[x]
  <2>1. DOMAIN tasks' = DOMAIN tasks \ {r} /\ \A x \in DOMAIN tasks' : tasks'[x] = tasks[x]
    BY <1>3 DEF T!Drop
  <2>2. IsFiniteSet(DOMAIN tasks')
    BY <1>2, <1>3, <2>1
  <2> QED
    BY <1>3, <2>1, <2>2 DEF T!IsTable, T!Drop
<1>4. ASSUME NEW r, r \in DOMAIN tasks, T!Close(r),
             UNCHANGED <<opinions, callers, earned, cut>>, base' \in Nat, calls' \in Nat
      PROVE  T!TypeOK' /\ Countable'
  <2>1. slot' \in RewriteIds \cup {None} /\ tasks' = T!Drop(tasks, {r})
    BY <1>4 DEF T!Close, T!TypeOK
  <2>2. T!TypeOK'
    BY <1>3, <1>4, <2>1 DEF T!TypeOK, Countable
  <2> QED
    BY <1>3, <1>4, <2>1, <2>2 DEF Countable, T!TypeOK
<1>5. ASSUME NEW c \in Callers, NEW t \in Seen, T!Answer(c, t) PROVE T!TypeOK' /\ Countable'
  <2>1. opinions' = opinions \cup {t} \/ opinions' = opinions \ {t}
    BY <1>5 DEF T!Answer
  <2>2. IsFiniteSet(opinions') /\ opinions' \subseteq Seen
    BY <2>1, FS_AddElement, FS_RemoveElement DEF Countable, T!TypeOK
  <2>3. earned' \in 0 .. MaxEarned + 1
    BY <1>0, <1>5 DEF T!Answer, T!TypeOK
  <2> QED
    BY <1>5, <2>2, <2>3 DEF T!Answer, T!Step, T!TypeOK, T!Steps, Countable
<1>6. ASSUME NEW c \in Callers, T!Check(c) \/ T!Ask(c) PROVE T!TypeOK' /\ Countable'
  BY <1>6 DEF T!Check, T!Ask, T!Step, T!TypeOK, T!Steps, Countable
<1>7. ASSUME NEW c \in Callers, T!Claim(c) PROVE T!TypeOK' /\ Countable'
  <2>1. callers' \in [Callers -> T!Steps]
    BY <1>7 DEF T!Claim, T!TypeOK, T!Steps
  <2>2. CASE UNCHANGED <<slot, tasks>>
    BY <1>7, <2>1, <2>2 DEF T!Claim, T!TypeOK, Countable
  <2>3. ASSUME NEW r \in RewriteIds \ DOMAIN tasks, slot' = r,
               tasks' = T!Put(tasks, r, [by |-> callers[c], read |-> None])
        PROVE  T!TypeOK' /\ Countable'
    <3>1. [by |-> callers[c], read |-> None] \in T!Task
      <4>1. callers[c] \in {"vote", "ask"}
        BY <1>7 DEF T!Claim
      <4> QED
        BY <4>1 DEF T!Task
    <3>2. DOMAIN tasks' = DOMAIN tasks \cup {r} /\ T!IsTable(tasks', RewriteIds, T!Task)
      BY <2>3, <3>1 DEF T!Put, T!TypeOK, T!IsTable
    <3>3. \A x \in DOMAIN tasks' : IF x = r THEN tasks'[x].read = None ELSE tasks'[x] = tasks[x]
      BY <2>3 DEF T!Put
    <3>4. IsFiniteSet(DOMAIN tasks')
      BY <3>2, FS_AddElement DEF Countable
    <3>5. T!TypeOK'
      BY <1>7, <2>1, <2>3, <3>2 DEF T!Claim, T!TypeOK
    <3>6. Countable'
      BY <1>7, <3>2, <3>3, <3>4 DEF T!Claim, Countable
    <3> QED
      BY <3>5, <3>6
  <2> QED
    BY <1>7, <2>2, <2>3 DEF T!Claim
<1>8. ASSUME NEW S \in SUBSET Seen, T!Remove(S) PROVE T!TypeOK' /\ Countable'
  <2>1. opinions' \subseteq opinions
    BY <1>8 DEF T!Remove
  <2>2. IsFiniteSet(opinions')
    BY <1>2, <2>1 DEF Countable
  <2> QED
    BY <1>8, <2>1, <2>2 DEF T!Remove, T!TypeOK, Countable
<1>9. ASSUME NEW r \in RewriteIds, T!Read(r) PROVE T!TypeOK' /\ Countable'
  <2>1. CASE T!Count < MinVotes
    BY <1>4, <1>9, <2>1 DEF T!Read, T!TypeOK
  <2>2. CASE ~(T!Count < MinVotes)
    <3>1. /\ tasks' = [tasks EXCEPT ![r].read = opinions] /\ slot' = slot
          /\ UNCHANGED <<opinions, base, callers, earned, cut>> /\ r \in DOMAIN tasks
          /\ calls' \in Nat
      BY <1>9, <2>2 DEF T!Read, T!TypeOK
    <3>2. /\ DOMAIN tasks' = DOMAIN tasks /\ tasks'[r].read = opinions
          /\ \A x \in DOMAIN tasks \ {r} : tasks'[x] = tasks[x]
          /\ tasks' \in [DOMAIN tasks -> T!Task]
      BY <3>1 DEF T!TypeOK, T!IsTable, T!Task
    <3> QED
      BY <3>1, <3>2 DEF T!TypeOK, T!IsTable, Countable
  <2> QED
    BY <2>1, <2>2
<1>10. ASSUME NEW r \in RewriteIds, T!Finish(r) PROVE T!TypeOK' /\ Countable'
  <2>1. base' \in Nat
    BY <1>1, <1>10 DEF T!Finish, T!SetBase, Countable
  <2> QED
    BY <1>4, <1>10, <2>1 DEF T!Finish, T!TypeOK
<1>11. ASSUME NEW r \in RewriteIds, T!Fail(r) PROVE T!TypeOK' /\ Countable'
  <2>1. base' \in Nat
    BY <1>1, <1>11 DEF T!Fail, T!SetBase, Countable
  <2> QED
    BY <1>4, <1>11, <2>1 DEF T!Fail, T!TypeOK
<1>12. ASSUME NEW r \in RewriteIds, T!Lose(r) PROVE T!TypeOK' /\ Countable'
  <2>1. cut' \in 0 .. MaxCut
    BY <1>0, <1>12 DEF T!Lose, T!TypeOK
  <2>2. T!IsTable(tasks, RewriteIds, T!Task) /\ IsFiniteSet(DOMAIN tasks)
    BY DEF T!TypeOK, Countable
  <2>3. tasks' = T!Drop(tasks, {r})
    BY <1>12 DEF T!Lose
  <2>4. T!TypeOK'
    BY <1>3, <1>12, <2>1, <2>2, <2>3 DEF T!Lose, T!TypeOK
  <2> QED
    BY <1>3, <1>12, <2>2, <2>3, <2>4 DEF T!Lose, Countable
<1>13. ASSUME T!Save PROVE T!TypeOK' /\ Countable'
  <2>1. base' \in Nat
    BY <1>1, <1>13 DEF T!Save, T!SetBase, Countable
  <2> QED
    BY <1>13, <2>1 DEF T!Save, T!TypeOK, Countable
<1>14. ASSUME T!Restart PROVE T!TypeOK' /\ Countable'
  <2>1. cut' \in 0 .. MaxCut
    BY <1>0, <1>1, <1>14 DEF T!Restart, T!TypeOK, Countable
  <2>2. DOMAIN tasks' = {} /\ IsFiniteSet({})
    BY <1>14, FS_EmptySet DEF T!Restart, T!Empty
  <2> QED
    BY <1>14, <2>1, <2>2 DEF T!Restart, T!TypeOK, T!IsTable, T!Empty, T!Steps, Countable
<1>15. ASSUME T!Sweep PROVE T!TypeOK' /\ Countable'
  BY <1>0, <1>15 DEF T!Sweep, T!TypeOK, Countable
<1>16. CASE UNCHANGED T!vars
  BY <1>16 DEF T!vars, T!TypeOK, Countable
<1> QED
  BY <1>5, <1>6, <1>7, <1>8, <1>9, <1>10, <1>11, <1>12, <1>13, <1>14, <1>15, <1>16 DEF T!Next

\* What is counted, as numbers.
LEMMA TasteNumbers ==
    ASSUME T!TypeOK, Countable
    PROVE  /\ Share \in Nat /\ Refresh \in Nat /\ earned \in Nat /\ calls \in Nat /\ cut \in Nat
           /\ base \in Nat /\ Cardinality(opinions) \in Nat
           /\ Income \in Nat /\ Owed \in Nat /\ Lent \in Nat /\ Cost(calls) \in Nat /\ Worth(base) \in Nat
           /\ IsFiniteSet(Promised) /\ IsFiniteSet(Unread) /\ IsFiniteSet(Paid)
           /\ Cardinality(Promised) \in Nat /\ Cardinality(Unread) \in Nat /\ Cardinality(Paid) \in Nat
           /\ Cardinality(Promised) <= Share
<1>1. IsFiniteSet(Callers) /\ Refresh \in Nat /\ MaxCut \in Nat /\ MaxEarned \in Nat
  BY TasteAssumption, SameCount DEF T!TasteAssumption
<1>2. Promised \in SUBSET Callers /\ Unread \in SUBSET DOMAIN tasks /\ Paid \in SUBSET DOMAIN tasks
  BY DEF Promised, Unread, Paid
<1>3. IsFiniteSet(Promised) /\ IsFiniteSet(Unread) /\ IsFiniteSet(Paid) /\ Cardinality(Promised) <= Share
  BY <1>1, <1>2, FS_Subset DEF Countable, Share
<1>4. /\ Cardinality(Promised) \in Nat /\ Cardinality(Unread) \in Nat /\ Cardinality(Paid) \in Nat
      /\ Cardinality(opinions) \in Nat /\ Share \in Nat
  BY <1>1, <1>3, FS_CardinalityType DEF Countable, Share
<1>5. earned \in Nat /\ calls \in Nat /\ cut \in Nat /\ base \in Nat
  BY <1>1 DEF T!TypeOK
<1> QED
  BY <1>1, <1>3, <1>4, <1>5 DEF Income, Owed, Lent, Worth, Cost

\* More is worth more, and costs more.
LEMMA WorthGrows ==
    ASSUME NEW a \in Nat, NEW b \in Nat, Share \in Nat, Refresh \in Nat
    PROVE  /\ Worth(a) \in Nat /\ Cost(a) \in Nat
           /\ a <= b => Worth(a) <= Worth(b) /\ Cost(a) <= Cost(b)
           /\ Worth(a + b) = Worth(a) + Worth(b) /\ Cost(a + b) = Cost(a) + Cost(b)
<1>1. Worth(a) \in Nat /\ Cost(a) \in Nat
  BY DEF Worth, Cost
<1>2. ASSUME a <= b PROVE Worth(a) <= Worth(b) /\ Cost(a) <= Cost(b)
  BY <1>2, MultiplesGrow DEF Worth, Cost
<1>3. Worth(a + b) = Worth(a) + Worth(b) /\ Cost(a + b) = Cost(a) + Cost(b)
  BY MultiplesAdd DEF Worth, Cost
<1> QED
  BY <1>1, <1>2, <1>3

\* The books balance however the opinions fall and promises are given up, and when the
\* base is set to what there is.
LEMMA CreditKept ==
    ASSUME CreditInv, T!TypeOK', Countable',
           opinions' \subseteq opinions, tasks' = tasks, earned' = earned,
           Promised' \subseteq Promised, calls' = calls, cut' >= cut,
           base' = base \/ base' = Cardinality(opinions')
    PROVE  CreditInv'
<1>0. T!TypeOK /\ Countable
  BY DEF CreditInv
<1>1. /\ Share \in Nat /\ Refresh \in Nat /\ earned \in Nat /\ calls \in Nat /\ cut \in Nat
      /\ base \in Nat /\ Cardinality(opinions) \in Nat
      /\ Income \in Nat /\ Owed \in Nat /\ Lent \in Nat /\ Cost(calls) \in Nat /\ Worth(base) \in Nat
      /\ Cardinality(Promised) \in Nat /\ Cardinality(Unread) \in Nat /\ IsFiniteSet(Promised)
  BY <1>0, TasteNumbers
<1>2. Unread' = Unread /\ Paid' = Paid /\ cut' \in Nat /\ base' \in Nat
  BY TasteAssumption DEF Unread, Paid, T!TypeOK, T!TasteAssumption
<1>3. Cardinality(Promised') \in Nat /\ Cardinality(Promised') <= Cardinality(Promised)
  BY <1>1, FS_Subset, FS_CardinalityType
<1>4. Owed' \in Nat /\ Owed' <= Owed /\ Lent' = Lent
  <2>1. /\ Cardinality(Promised') + Cardinality(Unread) \in Nat
        /\ Cardinality(Promised) + Cardinality(Unread) \in Nat
        /\ Cardinality(Promised') + Cardinality(Unread) <= Cardinality(Promised) + Cardinality(Unread)
    BY <1>1, <1>3
  <2>2. Owed' = Cost(Cardinality(Promised') + Cardinality(Unread)) /\ Lent' = Lent
    BY <1>2 DEF Owed, Lent, Cost
  <2> QED
    BY <1>1, <2>1, <2>2, WorthGrows DEF Owed
<1>5. Income' \in Nat /\ Income' >= Income
  <2>1. Income' = Worth(earned) + Cost(cut')
    BY DEF Income, Worth, Cost, Share
  <2>2. Cost(cut) <= Cost(cut') /\ Cost(cut) \in Nat /\ Cost(cut') \in Nat /\ Worth(earned) \in Nat
    BY <1>1, <1>2, WorthGrows
  <2> QED
    BY <2>1, <2>2 DEF Income
<1>6. OwedIsLeft'
  <2>1. ASSUME NEW r \in DOMAIN tasks, tasks[r].read # None
        PROVE  Owed' + Worth(Cardinality(opinions' \ tasks[r].read)) + Cost(calls) <= Income'
    <3>1. IsFiniteSet(opinions \ tasks[r].read)
      BY <1>0, FS_Difference DEF Countable
    <3>2. opinions' \ tasks[r].read \in SUBSET (opinions \ tasks[r].read)
      OBVIOUS
    <3>3. /\ Cardinality(opinions' \ tasks[r].read) \in Nat /\ Cardinality(opinions \ tasks[r].read) \in Nat
          /\ Cardinality(opinions' \ tasks[r].read) <= Cardinality(opinions \ tasks[r].read)
      BY <3>1, <3>2, FS_Subset, FS_CardinalityType
    <3>4. /\ Worth(Cardinality(opinions' \ tasks[r].read)) <= Worth(Cardinality(opinions \ tasks[r].read))
          /\ Worth(Cardinality(opinions' \ tasks[r].read)) \in Nat
          /\ Worth(Cardinality(opinions \ tasks[r].read)) \in Nat
      BY <1>1, <3>3, WorthGrows
    <3>5. Owed + Worth(Cardinality(opinions \ tasks[r].read)) + Cost(calls) <= Income
      BY <2>1 DEF CreditInv, OwedIsLeft
    <3> QED
      BY <1>1, <1>4, <1>5, <3>4, <3>5
  <2>2. Owed' + Cost(calls) <= Income'
    BY <1>1, <1>4, <1>5 DEF CreditInv, OwedIsLeft
  <2> QED
    BY <2>1, <2>2 DEF OwedIsLeft, Worth, Share, Cost
<1>7. DueIsCovered'
  <2>0. /\ Cardinality(opinions') \in Nat /\ Cardinality(opinions') <= Cardinality(opinions)
        /\ Worth(Cardinality(opinions')) \in Nat /\ Worth(Cardinality(opinions)) \in Nat
        /\ Worth(Cardinality(opinions')) <= Worth(Cardinality(opinions))
    BY <1>0, <1>1, FS_Subset, FS_CardinalityType, WorthGrows DEF Countable
  <2>1. Worth(Cardinality(opinions')) + Cost(calls) <= Worth(base') + Income' + Lent'
    <3>1. CASE base' = base
      <4>1. Worth(Cardinality(opinions)) + Cost(calls) <= Worth(base) + Income + Lent
        BY DEF CreditInv, DueIsCovered
      <4> QED
        BY <1>1, <1>4, <1>5, <2>0, <3>1, <4>1
    <3>2. CASE base' = Cardinality(opinions')
      <4>1. Owed + Cost(calls) <= Income
        BY DEF CreditInv, OwedIsLeft
      <4>2. Worth(base') = Worth(Cardinality(opinions'))
        BY <3>2
      <4> QED
        BY <1>1, <1>4, <1>5, <2>0, <4>1, <4>2
    <3> QED
      BY <3>1, <3>2
  <2> QED
    BY <2>1 DEF DueIsCovered, Worth, Share, Cost
<1> QED
  BY <1>6, <1>7 DEF CreditInv

\* A new opinion is worth a unit for each caller.
LEMMA CreditEarned ==
    ASSUME CreditInv, T!TypeOK', Countable', NEW c \in Callers, NEW t \in Seen, t \notin opinions,
           T!Answer(c, t), opinions' = opinions \cup {t}, earned' = earned + 1
    PROVE  CreditInv'
<1>0. T!TypeOK /\ Countable
  BY DEF CreditInv
<1>1. /\ Share \in Nat /\ Refresh \in Nat /\ earned \in Nat /\ calls \in Nat /\ cut \in Nat
      /\ base \in Nat /\ Cardinality(opinions) \in Nat
      /\ Income \in Nat /\ Owed \in Nat /\ Lent \in Nat /\ Cost(calls) \in Nat /\ Worth(base) \in Nat
  BY <1>0, TasteNumbers
<1>2. /\ UNCHANGED <<base, tasks, calls, cut>> /\ callers[c] = "idle"
      /\ callers' = [callers EXCEPT ![c] = "check"]
  BY DEF T!Answer, T!Step
<1>3. Promised' = Promised /\ Unread' = Unread /\ Paid' = Paid
  BY <1>0, <1>2 DEF Promised, Unread, Paid, T!TypeOK
<1>4. Owed' = Owed /\ Lent' = Lent
  BY <1>3 DEF Owed, Lent, Cost
<1>5. Worth(1) = Share /\ Cost(cut) \in Nat /\ Worth(earned) \in Nat
  BY <1>1 DEF Worth, Cost
<1>6. Income' = Income + Share
  <2>1. Income' = Worth(earned + 1) + Cost(cut)
    BY <1>2 DEF Income, Worth, Cost, Share
  <2>2. Worth(earned + 1) = Worth(earned) + Worth(1)
    BY <1>1, WorthGrows
  <2> QED
    BY <1>1, <1>5, <2>1, <2>2 DEF Income
<1>7. Worth(Cardinality(opinions')) = Worth(Cardinality(opinions)) + Share
      /\ Worth(Cardinality(opinions)) \in Nat
  <2>1. Cardinality(opinions') = Cardinality(opinions) + 1
    BY <1>0, FS_AddElement DEF Countable
  <2> QED
    BY <1>1, <1>5, <2>1, WorthGrows
<1>8. ASSUME NEW r \in DOMAIN tasks, tasks[r].read # None
      PROVE  Owed' + Worth(Cardinality(opinions' \ tasks[r].read)) + Cost(calls) <= Income'
  <2>1. IsFiniteSet(opinions \ tasks[r].read)
    BY <1>0, FS_Difference DEF Countable
  <2>2. opinions' \ tasks[r].read \in SUBSET ((opinions \ tasks[r].read) \cup {t})
    OBVIOUS
  <2>3. /\ IsFiniteSet((opinions \ tasks[r].read) \cup {t})
        /\ Cardinality((opinions \ tasks[r].read) \cup {t}) <= Cardinality(opinions \ tasks[r].read) + 1
        /\ Cardinality(opinions \ tasks[r].read) \in Nat
    <3> DEFINE D == opinions \ tasks[r].read
    <3> HIDE DEF D
    <3>1. IsFiniteSet(D) /\ Cardinality(D) \in Nat
      BY <2>1, FS_CardinalityType DEF D
    <3>2. IsFiniteSet(D \cup {t}) /\ Cardinality(D \cup {t}) = Cardinality(D) + 1
      <4>1. t \notin D
        BY DEF D
      <4> QED
        BY <3>1, <4>1, FS_AddElement
    <3> QED
      BY <3>1, <3>2 DEF D
  <2>4. /\ Cardinality(opinions' \ tasks[r].read) \in Nat
        /\ Cardinality((opinions \ tasks[r].read) \cup {t}) \in Nat
        /\ Cardinality(opinions' \ tasks[r].read) <= Cardinality((opinions \ tasks[r].read) \cup {t})
    BY <2>2, <2>3, FS_Subset, FS_CardinalityType
  <2>5. Cardinality(opinions' \ tasks[r].read) <= Cardinality(opinions \ tasks[r].read) + 1
        /\ Cardinality(opinions \ tasks[r].read) + 1 \in Nat
    BY <2>3, <2>4
  <2>6. /\ Worth(Cardinality(opinions' \ tasks[r].read)) <= Worth(Cardinality(opinions \ tasks[r].read)) + Share
        /\ Worth(Cardinality(opinions' \ tasks[r].read)) \in Nat
        /\ Worth(Cardinality(opinions \ tasks[r].read)) \in Nat
    <3>1. Worth(Cardinality(opinions' \ tasks[r].read)) <= Worth(Cardinality(opinions \ tasks[r].read) + 1)
      BY <1>1, <2>4, <2>5, WorthGrows
    <3>2. Worth(Cardinality(opinions \ tasks[r].read) + 1) = Worth(Cardinality(opinions \ tasks[r].read)) + Worth(1)
      BY <1>1, <2>3, WorthGrows
    <3> QED
      BY <1>1, <1>5, <2>3, <2>4, <3>1, <3>2, WorthGrows
  <2>7. Owed + Worth(Cardinality(opinions \ tasks[r].read)) + Cost(calls) <= Income
    BY <1>8 DEF CreditInv, OwedIsLeft
  <2> QED
    BY <1>1, <1>4, <1>6, <2>6, <2>7
<1>9. Owed' + Cost(calls) <= Income'
  BY <1>1, <1>4, <1>6 DEF CreditInv, OwedIsLeft
<1>10. Worth(Cardinality(opinions')) + Cost(calls) <= Worth(base) + Income' + Lent'
  BY <1>1, <1>4, <1>6, <1>7 DEF CreditInv, DueIsCovered
<1>11. OwedIsLeft'
  BY <1>2, <1>8, <1>9 DEF OwedIsLeft, Worth, Share, Cost
<1>12. DueIsCovered'
  BY <1>2, <1>10 DEF DueIsCovered, Worth, Share, Cost
<1> QED
  BY <1>11, <1>12 DEF CreditInv

\* What is due is ahead of the base by that much.
LEMMA AheadBy == ASSUME NEW a \in Nat, NEW b \in Nat, NEW k \in Nat, a - b >= k PROVE b + k <= a
  OBVIOUS

\* A submission told that a rewrite is due has it covered: all may be told of the same
\* opinions, and there is a share for each.
LEMMA CreditPromised ==
    ASSUME CreditInv, T!TypeOK', Countable', NEW c \in Callers,
           T!Step(c, "check", "vote"), T!Due, tasks = T!Empty,
           UNCHANGED <<opinions, base, slot, tasks, earned, calls, cut>>
    PROVE  CreditInv'
<1>0. T!TypeOK /\ Countable
  BY DEF CreditInv
<1>1. /\ Share \in Nat /\ Refresh \in Nat /\ earned \in Nat /\ calls \in Nat /\ cut \in Nat
      /\ base \in Nat /\ Cardinality(opinions) \in Nat
      /\ Income \in Nat /\ Owed \in Nat /\ Lent \in Nat /\ Cost(calls) \in Nat /\ Worth(base) \in Nat
  BY <1>0, TasteNumbers
<1>2. DOMAIN tasks = {} /\ Unread = {} /\ Paid = {} /\ Unread' = {} /\ Paid' = {}
  BY DEF T!Empty, Unread, Paid
<1>3. Cardinality({}) = 0
  BY FS_EmptySet
<1>4. Cardinality(Promised') \in Nat /\ Cardinality(Promised') <= Share
  <2>1. Promised' \in SUBSET Callers /\ IsFiniteSet(Callers)
    BY TasteAssumption, SameCount DEF Promised, T!TasteAssumption
  <2> QED
    BY <2>1, FS_Subset, FS_CardinalityType DEF Share
<1>5. base + Refresh <= Cardinality(opinions)
  <2>1. Cardinality(opinions) - base >= Refresh
    BY SameCount DEF T!Due, T!Count
  <2> QED
    BY <1>1, <2>1, AheadBy
<1>6. Worth(base) + Worth(Refresh) <= Worth(Cardinality(opinions)) /\ Worth(Refresh) \in Nat
      /\ Worth(Cardinality(opinions)) \in Nat
  <2>0. base + Refresh \in Nat
    BY <1>1
  <2>1. Worth(base + Refresh) <= Worth(Cardinality(opinions))
    BY <1>1, <1>5, <2>0, WorthGrows
  <2>2. Worth(base + Refresh) = Worth(base) + Worth(Refresh)
    BY <1>1, WorthGrows
  <2> QED
    BY <1>1, <2>1, <2>2, WorthGrows
<1>7. Lent = 0 /\ Lent' = 0
  BY <1>1, <1>2, <1>3 DEF Lent, Cost
<1>8. Worth(Cardinality(opinions)) + Cost(calls) <= Worth(base) + Income + Lent
  BY DEF CreditInv, DueIsCovered
<1>9. Owed' <= Worth(Refresh) /\ Owed' \in Nat
  <2>1. Owed' = Cost(Cardinality(Promised'))
    BY <1>2, <1>3, <1>4 DEF Owed, Cost
  <2>2. Cost(Cardinality(Promised')) <= Cost(Share) /\ Cost(Cardinality(Promised')) \in Nat
    BY <1>1, <1>4, WorthGrows
  <2>3. Cost(Share) = Worth(Refresh)
    BY <1>1 DEF Cost, Worth
  <2> QED
    BY <2>1, <2>2, <2>3
<1>10. Owed' + Cost(calls) <= Income
  BY <1>1, <1>6, <1>7, <1>8, <1>9
<1>11. OwedIsLeft'
  BY <1>2, <1>10 DEF OwedIsLeft, Income, Worth, Share, Cost
<1>12. DueIsCovered'
  BY <1>7, <1>8 DEF DueIsCovered, Income, Worth, Share, Cost
<1> QED
  BY <1>11, <1>12 DEF CreditInv

\* A promise that is kept becomes a rewrite that will read the votes.
LEMMA CreditClaimed ==
    ASSUME CreditInv, T!TypeOK', Countable', NEW c \in Callers, callers[c] \in {"vote", "ask"},
           callers' = [callers EXCEPT ![c] = "idle"],
           NEW r \in RewriteIds \ DOMAIN tasks,
           tasks' = T!Put(tasks, r, [by |-> callers[c], read |-> None]),
           UNCHANGED <<opinions, base, earned, calls, cut>>
    PROVE  CreditInv'
<1>0. T!TypeOK /\ Countable
  BY DEF CreditInv
<1>1. /\ IsFiniteSet(Promised) /\ IsFiniteSet(Unread)
      /\ Cardinality(Promised) \in Nat /\ Cardinality(Unread) \in Nat
  BY <1>0, TasteNumbers
<1>2. /\ DOMAIN tasks' = DOMAIN tasks \cup {r}
      /\ tasks'[r].by = callers[c] /\ tasks'[r].read = None
      /\ \A x \in DOMAIN tasks : tasks'[x] = tasks[x]
  BY DEF T!Put
<1>3. Paid' = Paid
  BY <1>2 DEF Paid
<1>4. Cardinality(Promised') + Cardinality(Unread') = Cardinality(Promised) + Cardinality(Unread)
  <2>1. CASE callers[c] = "vote"
    <3>1. Promised' = Promised \ {c} /\ c \in Promised
      BY <1>0, <2>1 DEF Promised, T!TypeOK
    <3>2. Unread' = Unread \cup {r} /\ r \notin Unread
      BY <1>2, <2>1 DEF Unread
    <3>3. Cardinality(Promised') = Cardinality(Promised) - 1
      BY <1>1, <3>1, FS_RemoveElement
    <3>4. Cardinality(Unread') = Cardinality(Unread) + 1
      BY <1>1, <3>2, FS_AddElement
    <3> QED
      BY <1>1, <3>3, <3>4
  <2>2. CASE callers[c] = "ask"
    <3>1. Promised' = Promised
      BY <1>0, <2>2 DEF Promised, T!TypeOK
    <3>2. Unread' = Unread
      BY <1>2, <2>2 DEF Unread
    <3> QED
      BY <3>1, <3>2
  <2> QED
    BY <2>1, <2>2
<1>5. Owed' = Owed /\ Lent' = Lent /\ Income' = Income
  BY <1>3, <1>4 DEF Owed, Lent, Income, Cost, Worth, Share
<1>6. ASSUME NEW x \in DOMAIN tasks', tasks'[x].read # None
      PROVE  Owed + Worth(Cardinality(opinions \ tasks'[x].read)) + Cost(calls) <= Income
  BY <1>2, <1>6 DEF CreditInv, OwedIsLeft
<1>7. OwedIsLeft'
  BY <1>5, <1>6 DEF CreditInv, OwedIsLeft, Worth, Share, Cost
<1>8. DueIsCovered'
  BY <1>5 DEF CreditInv, DueIsCovered, Worth, Share, Cost
<1> QED
  BY <1>7, <1>8 DEF CreditInv

\* One more is counted one more.
LEMMA OneMore ==
    ASSUME NEW S, NEW D, NEW x, IsFiniteSet(S), x \notin S, D = S \cup {x}
    PROVE  Cardinality(S) \in Nat /\ Cardinality(D) = Cardinality(S) + 1
<1>1. Cardinality(S) \in Nat
  BY FS_CardinalityType
<1>2. Cardinality(S \cup {x}) = Cardinality(S) + 1
  BY FS_AddElement
<1> QED
  BY <1>1, <1>2

\* What is no longer lent is given back.
LEMMA Repaid ==
    ASSUME NEW a \in Nat, NEW b \in Nat, NEW i \in Nat, NEW l \in Nat, NEW m \in Nat, NEW k \in Nat,
           NEW c \in Nat, a + c <= b + i + l, l <= m + k
    PROVE  a + c <= (b + (i + k)) + m
  OBVIOUS

\* A rewrite that ends leaves less owed and less lent; what a base it sets makes of the
\* opinions newer than it was kept aside.
LEMMA CreditSettled ==
    ASSUME CreditInv, T!TypeOK', Countable', NEW r \in DOMAIN tasks,
           tasks' = T!Drop(tasks, {r}), UNCHANGED <<opinions, callers, earned, calls>>,
           \/ base' = base /\ cut' = cut /\ r \notin Paid
           \/ base' = base /\ cut' = cut + 1
           \/ base' = Cardinality(opinions) /\ cut' = cut
           \/ tasks[r].read # None /\ base' = Cardinality(tasks[r].read) /\ cut' = cut
    PROVE  CreditInv'
<1>0. T!TypeOK /\ Countable
  BY DEF CreditInv
<1>1. /\ Share \in Nat /\ Refresh \in Nat /\ earned \in Nat /\ calls \in Nat /\ cut \in Nat
      /\ base \in Nat /\ Cardinality(opinions) \in Nat
      /\ Income \in Nat /\ Owed \in Nat /\ Lent \in Nat /\ Cost(calls) \in Nat /\ Worth(base) \in Nat
      /\ IsFiniteSet(Unread) /\ IsFiniteSet(Paid) /\ Cardinality(Promised) \in Nat
      /\ Cardinality(Unread) \in Nat /\ Cardinality(Paid) \in Nat
      /\ Worth(earned) \in Nat /\ Cost(cut) \in Nat /\ Worth(Cardinality(opinions)) \in Nat
  BY <1>0, TasteNumbers, WorthGrows
<1>2. DOMAIN tasks' = DOMAIN tasks \ {r} /\ \A x \in DOMAIN tasks' : tasks'[x] = tasks[x]
  BY DEF T!Drop
<1>3. Promised' = Promised /\ Unread' = Unread \ {r} /\ Paid' = Paid \ {r}
  BY <1>2 DEF Promised, Unread, Paid
<1>4. Owed' \in Nat /\ Owed' <= Owed
  <2>1. Cardinality(Unread') \in Nat /\ Cardinality(Unread') <= Cardinality(Unread)
    BY <1>1, <1>3, FS_Subset, FS_CardinalityType
  <2>2. /\ Cardinality(Promised) + Cardinality(Unread') \in Nat
        /\ Cardinality(Promised) + Cardinality(Unread) \in Nat
        /\ Cardinality(Promised) + Cardinality(Unread') <= Cardinality(Promised) + Cardinality(Unread)
    BY <1>1, <2>1
  <2>3. Owed' = Cost(Cardinality(Promised) + Cardinality(Unread'))
    BY <1>3 DEF Owed, Cost
  <2> QED
    BY <1>1, <2>2, <2>3, WorthGrows DEF Owed
<1>5. Cost(1) = Refresh /\ Cost(cut + 1) = Cost(cut) + Refresh
  <2>1. Cost(1) = Refresh
    BY <1>1 DEF Cost
  <2> QED
    BY <1>1, <2>1, WorthGrows
<1>6. /\ Income' \in Nat /\ Income' >= Income
      /\ cut' = cut + 1 => Income' = Income + Refresh
  <2>1. Income' = Worth(earned) + Cost(cut')
    BY DEF Income, Worth, Cost, Share
  <2> QED
    BY <1>1, <1>5, <2>1 DEF Income
<1>7. /\ Lent' \in Nat /\ Lent <= Lent' + Refresh
      /\ r \notin Paid => Lent' = Lent
  <2>0. Lent' = Cost(Cardinality(Paid'))
    BY DEF Lent, Cost
  <2>1. CASE r \notin Paid
    <3>1. Paid' = Paid
      BY <1>3, <2>1
    <3> QED
      BY <1>1, <2>0, <3>1 DEF Lent
  <2>2. CASE r \in Paid
    <3>1. Cardinality(Paid') \in Nat /\ Cardinality(Paid) = Cardinality(Paid') + 1
      <4>1. IsFiniteSet(Paid') /\ Paid = Paid' \cup {r} /\ r \notin Paid'
        BY <1>1, <1>3, <2>2, FS_RemoveElement
      <4> QED
        BY <4>1, OneMore
    <3>2. Lent = Lent' + Refresh /\ Lent' \in Nat
      <4>1. Lent = Cost(Cardinality(Paid') + 1)
        BY <3>1 DEF Lent
      <4> QED
        BY <1>1, <1>5, <2>0, <3>1, <4>1, WorthGrows
    <3>3. Lent <= Lent' + Refresh
      <4>1. Lent' + Refresh \in Nat
        BY <1>1, <3>2
      <4> QED
        BY <3>2, <4>1
    <3> QED
      BY <2>2, <3>2, <3>3
  <2> QED
    BY <2>1, <2>2
<1>8. ASSUME NEW x \in DOMAIN tasks, tasks[x].read # None
      PROVE  /\ Owed' + Worth(Cardinality(opinions \ tasks[x].read)) + Cost(calls) <= Income'
             /\ Worth(Cardinality(opinions \ tasks[x].read)) \in Nat
             /\ Cardinality(opinions \ tasks[x].read) \in Nat
  <2>1. IsFiniteSet(opinions \ tasks[x].read)
    BY <1>0, FS_Difference DEF Countable
  <2>2. Cardinality(opinions \ tasks[x].read) \in Nat
    BY <2>1, FS_CardinalityType
  <2>3. Worth(Cardinality(opinions \ tasks[x].read)) \in Nat
    BY <1>1, <2>2, WorthGrows
  <2>4. Owed + Worth(Cardinality(opinions \ tasks[x].read)) + Cost(calls) <= Income
    BY <1>8 DEF CreditInv, OwedIsLeft
  <2> QED
    BY <1>1, <1>4, <1>6, <2>2, <2>3, <2>4
<1>9. Owed' + Cost(calls) <= Income'
  BY <1>1, <1>4, <1>6 DEF CreditInv, OwedIsLeft
<1>10. OwedIsLeft'
  <2>1. \A x \in DOMAIN tasks' : tasks'[x].read # None =>
           Owed' + Worth(Cardinality(opinions \ tasks'[x].read)) + Cost(calls) <= Income'
    BY <1>2, <1>8
  <2> QED
    BY <1>9, <2>1 DEF OwedIsLeft, Worth, Share, Cost
<1>11. Worth(Cardinality(opinions)) + Cost(calls) <= Worth(base') + Income' + Lent'
  <2>0. Worth(Cardinality(opinions)) + Cost(calls) <= Worth(base) + Income + Lent
    BY DEF CreditInv, DueIsCovered
  <2>1. CASE base' = base /\ cut' = cut /\ r \notin Paid
    BY <1>1, <1>6, <1>7, <2>0, <2>1
  <2>2. CASE base' = base /\ cut' = cut + 1
    <3>1. Worth(base') = Worth(base) /\ Income' = Income + Refresh /\ Lent <= Lent' + Refresh
      BY <1>6, <1>7, <2>2
    <3>2. Worth(Cardinality(opinions)) + Cost(calls) <= (Worth(base) + (Income + Refresh)) + Lent'
      BY <1>1, <1>7, <2>0, <3>1, Repaid
    <3> QED
      BY <3>1, <3>2
  <2>3. CASE base' = Cardinality(opinions)
    <3>1. Worth(base') = Worth(Cardinality(opinions))
      BY <2>3
    <3> QED
      BY <1>1, <1>4, <1>6, <1>7, <1>9, <3>1
  <2>4. CASE tasks[r].read # None /\ base' = Cardinality(tasks[r].read)
    <3> DEFINE read == tasks[r].read
    <3>1. IsFiniteSet(read) /\ IsFiniteSet(opinions)
      BY <1>0, <2>4 DEF Countable
    <3>2. Cardinality(opinions \ read) = Cardinality(opinions) - Cardinality(opinions \cap read)
      BY <3>1, FS_Difference
    <3>3. /\ Cardinality(opinions \cap read) \in Nat /\ Cardinality(read) \in Nat
          /\ Cardinality(opinions \cap read) <= Cardinality(read)
      BY <3>1, FS_Subset, FS_CardinalityType
    <3>4. Cardinality(opinions \ read) \in Nat
      BY <1>8, <2>4
    <3>5. Cardinality(opinions) <= Cardinality(opinions \ read) + Cardinality(read)
      BY <1>1, <3>2, <3>3, <3>4
    <3>6. Worth(Cardinality(opinions)) <= Worth(Cardinality(opinions \ read)) + Worth(Cardinality(read))
      <4>1. Cardinality(opinions \ read) + Cardinality(read) \in Nat
        BY <3>3, <3>4
      <4>2. Worth(Cardinality(opinions)) <= Worth(Cardinality(opinions \ read) + Cardinality(read))
        BY <1>1, <3>5, <4>1, WorthGrows
      <4>3. Worth(Cardinality(opinions \ read) + Cardinality(read))
              = Worth(Cardinality(opinions \ read)) + Worth(Cardinality(read))
        BY <1>1, <3>3, <3>4, WorthGrows
      <4> QED
        BY <4>2, <4>3
    <3>7. Worth(base') = Worth(Cardinality(read)) /\ Worth(Cardinality(read)) \in Nat
      BY <1>1, <2>4, <3>3, WorthGrows
    <3>8. /\ Owed' + Worth(Cardinality(opinions \ read)) + Cost(calls) <= Income'
          /\ Worth(Cardinality(opinions \ read)) \in Nat
      BY <1>8, <2>4
    <3> HIDE DEF read
    <3> QED
      BY <1>1, <1>4, <1>6, <1>7, <3>6, <3>7, <3>8
  <2> QED
    BY <2>1, <2>2, <2>3, <2>4
<1>12. DueIsCovered'
  BY <1>11 DEF DueIsCovered, Worth, Share, Cost
<1> QED
  BY <1>10, <1>12 DEF CreditInv

\* A call that was owed is made, and lent until the rewrite ends.
LEMMA CreditCalled ==
    ASSUME CreditInv, T!TypeOK', Countable', NEW r \in DOMAIN tasks, tasks[r].read = None,
           tasks' = [tasks EXCEPT ![r].read = opinions],
           calls' = IF tasks[r].by = "vote" THEN calls + 1 ELSE calls,
           UNCHANGED <<opinions, base, callers, earned, cut>>
    PROVE  CreditInv'
<1>0. T!TypeOK /\ Countable
  BY DEF CreditInv
<1>1. /\ Share \in Nat /\ Refresh \in Nat /\ calls \in Nat
      /\ Income \in Nat /\ Owed \in Nat /\ Lent \in Nat /\ Cost(calls) \in Nat /\ Worth(base) \in Nat
      /\ IsFiniteSet(Unread) /\ IsFiniteSet(Paid) /\ Cardinality(Promised) \in Nat
      /\ Cardinality(Unread) \in Nat /\ Cardinality(Paid) \in Nat
      /\ Worth(Cardinality(opinions)) \in Nat
  BY <1>0, TasteNumbers, WorthGrows
<1>2. None \notin SUBSET Seen /\ opinions \in SUBSET Seen
  BY <1>0, TasteAssumption DEF T!TasteAssumption, T!TypeOK
<1>3. /\ DOMAIN tasks' = DOMAIN tasks /\ tasks'[r].read = opinions /\ tasks'[r].by = tasks[r].by
      /\ \A x \in DOMAIN tasks \ {r} : tasks'[x] = tasks[x]
  BY <1>0 DEF T!TypeOK, T!IsTable, T!Task
<1>4. Promised' = Promised /\ Income' = Income
  BY DEF Promised, Income, Worth, Cost, Share
<1>5. /\ Owed' \in Nat /\ Lent' \in Nat /\ Cost(calls') \in Nat
      /\ Owed' + Cost(calls') = Owed + Cost(calls)
      /\ Lent' + Cost(calls) = Lent + Cost(calls')
      /\ Owed' <= Owed
  <2>0. /\ Owed' = Cost(Cardinality(Promised) + Cardinality(Unread'))
        /\ Lent' = Cost(Cardinality(Paid'))
    BY <1>4 DEF Owed, Lent, Cost
  <2>1. CASE tasks[r].by = "vote"
    <3>1. Unread = Unread' \cup {r} /\ r \notin Unread' /\ Paid' = Paid \cup {r} /\ r \notin Paid
      BY <1>2, <1>3, <2>1 DEF Unread, Paid
    <3>2. IsFiniteSet(Unread')
      BY <1>1, <3>1, FS_Subset
    <3>3. Cardinality(Unread') \in Nat /\ Cardinality(Unread) = Cardinality(Unread') + 1
      BY <3>1, <3>2, OneMore
    <3>5. Cardinality(Paid') = Cardinality(Paid) + 1
      BY <1>1, <3>1, OneMore
    <3>6. Cost(1) = Refresh /\ 1 \in Nat
      BY <1>1 DEF Cost
    <3>7. Lent' = Lent + Refresh
      <4>1. Lent' = Cost(Cardinality(Paid) + 1)
        BY <2>0, <3>5
      <4> QED
        BY <1>1, <3>6, <4>1, WorthGrows DEF Lent
    <3>8. Cost(calls') = Cost(calls) + Refresh
      BY <1>1, <2>1, <3>6, WorthGrows
    <3>9. Owed = Owed' + Refresh /\ Owed' \in Nat
      <4> DEFINE n == Cardinality(Promised) + Cardinality(Unread')
      <4>1. n \in Nat
        BY <1>1, <3>3
      <4>2. Cardinality(Promised) + Cardinality(Unread) = n + 1
        BY <1>1, <3>3
      <4>3. Owed = Cost(n + 1) /\ Owed' = Cost(n)
        BY <2>0, <4>2 DEF Owed
      <4> HIDE DEF n
      <4> QED
        BY <1>1, <3>6, <4>1, <4>3, WorthGrows
    <3> QED
      BY <1>1, <3>7, <3>8, <3>9
  <2>2. CASE tasks[r].by # "vote"
    <3>1. Unread' = Unread /\ Paid' = Paid
      BY <1>3, <2>2 DEF Unread, Paid
    <3>2. calls' = calls
      BY <2>2
    <3> QED
      BY <1>1, <2>0, <3>1, <3>2 DEF Owed, Lent
  <2> QED
    BY <2>1, <2>2
<1>6. Owed' + Cost(calls') <= Income
  BY <1>1, <1>5 DEF CreditInv, OwedIsLeft
<1>7. ASSUME NEW x \in DOMAIN tasks', tasks'[x].read # None
      PROVE  Owed' + Worth(Cardinality(opinions \ tasks'[x].read)) + Cost(calls') <= Income
  <2>1. CASE x = r
    <3>1. opinions \ tasks'[x].read = {}
      BY <1>3, <2>1
    <3>2. Worth(Cardinality(opinions \ tasks'[x].read)) = 0
      <4>1. Cardinality({}) = 0 /\ Worth(0) = 0
        BY <1>1, FS_EmptySet DEF Worth
      <4> QED
        BY <3>1, <4>1
    <3> QED
      BY <1>1, <1>5, <1>6, <3>2
  <2>2. CASE x # r
    <3>1. tasks'[x] = tasks[x] /\ x \in DOMAIN tasks
      BY <1>3, <2>2
    <3>2. IsFiniteSet(opinions \ tasks[x].read)
      BY <1>0, FS_Difference DEF Countable
    <3>3. Worth(Cardinality(opinions \ tasks[x].read)) \in Nat
      BY <1>1, <3>2, FS_CardinalityType, WorthGrows
    <3>4. Owed + Worth(Cardinality(opinions \ tasks[x].read)) + Cost(calls) <= Income
      BY <1>7, <3>1 DEF CreditInv, OwedIsLeft
    <3>5. Owed' + Worth(Cardinality(opinions \ tasks[x].read)) + Cost(calls') <= Income
      BY <1>1, <1>5, <3>3, <3>4
    <3> QED
      BY <3>1, <3>5
  <2> QED
    BY <2>1, <2>2
<1>8. OwedIsLeft'
  BY <1>4, <1>6, <1>7 DEF OwedIsLeft, Worth, Share, Cost
<1>9. Worth(Cardinality(opinions)) + Cost(calls') <= Worth(base) + Income + Lent'
  <2>1. Worth(Cardinality(opinions)) + Cost(calls) <= Worth(base) + Income + Lent
    BY DEF CreditInv, DueIsCovered
  <2> QED
    BY <1>1, <1>5, <2>1
<1>10. DueIsCovered'
  BY <1>4, <1>9 DEF DueIsCovered, Worth, Share, Cost
<1> QED
  BY <1>8, <1>10 DEF CreditInv

\* A restart gives back what was lent: each call it cuts short is one.
LEMMA CreditRestarted ==
    ASSUME CreditInv, T!TypeOK', Countable', T!Restart
    PROVE  CreditInv'
<1>0. T!TypeOK /\ Countable
  BY DEF CreditInv
<1>1. /\ Share \in Nat /\ Refresh \in Nat /\ earned \in Nat /\ calls \in Nat /\ cut \in Nat
      /\ Income \in Nat /\ Owed \in Nat /\ Lent \in Nat /\ Cost(calls) \in Nat /\ Worth(base) \in Nat
      /\ Cardinality(Paid) \in Nat /\ Worth(earned) \in Nat /\ Cost(cut) \in Nat
      /\ Worth(Cardinality(opinions)) \in Nat
  BY <1>0, TasteNumbers, WorthGrows
<1>2. /\ tasks' = T!Empty /\ callers' = [c \in Callers |-> "idle"]
      /\ cut' = cut + Cardinality(DOMAIN tasks)
      /\ UNCHANGED <<opinions, base, earned, calls>>
  BY SameCount DEF T!Restart
<1>3. Promised' = {} /\ Unread' = {} /\ Paid' = {} /\ DOMAIN tasks' = {} /\ Cardinality({}) = 0
  BY <1>2, FS_EmptySet DEF Promised, Unread, Paid, T!Empty
<1>4. Owed' = 0 /\ Lent' = 0
  BY <1>1, <1>3 DEF Owed, Lent, Cost
<1>5. /\ Cardinality(DOMAIN tasks) \in Nat /\ Cardinality(Paid) <= Cardinality(DOMAIN tasks)
  <2>1. Paid \in SUBSET DOMAIN tasks /\ IsFiniteSet(DOMAIN tasks)
    BY <1>0 DEF Paid, Countable
  <2> QED
    BY <2>1, FS_Subset, FS_CardinalityType
<1>6. Lent <= Cost(Cardinality(DOMAIN tasks)) /\ Cost(Cardinality(DOMAIN tasks)) \in Nat
  BY <1>1, <1>5, WorthGrows DEF Lent
<1>7. Income' = Income + Cost(Cardinality(DOMAIN tasks))
  <2>1. Income' = Worth(earned) + Cost(cut + Cardinality(DOMAIN tasks))
    BY <1>2 DEF Income, Worth, Cost, Share
  <2>2. Cost(cut + Cardinality(DOMAIN tasks)) = Cost(cut) + Cost(Cardinality(DOMAIN tasks))
    BY <1>1, <1>5, WorthGrows
  <2> QED
    BY <1>1, <1>6, <2>1, <2>2 DEF Income
<1>8. OwedIsLeft'
  <2>1. Owed + Cost(calls) <= Income
    BY DEF CreditInv, OwedIsLeft
  <2>2. Owed' + Cost(calls) <= Income'
    BY <1>1, <1>4, <1>6, <1>7, <2>1
  <2> QED
    BY <1>2, <1>3, <2>2 DEF OwedIsLeft, Worth, Share, Cost
<1>9. DueIsCovered'
  <2>1. Worth(Cardinality(opinions)) + Cost(calls) <= Worth(base) + Income + Lent
    BY DEF CreditInv, DueIsCovered
  <2>2. Worth(Cardinality(opinions)) + Cost(calls) <= Worth(base) + Income' + Lent'
    BY <1>1, <1>4, <1>6, <1>7, <2>1
  <2> QED
    BY <1>2, <2>2 DEF DueIsCovered, Worth, Share, Cost
<1> QED
  BY <1>8, <1>9 DEF CreditInv
-----------------------------------------------------------------------------
\* Every step of the debounce keeps the books balanced.
LEMMA CreditNext == CreditInv /\ [T!Next]_T!vars => CreditInv'
<1> SUFFICES ASSUME CreditInv, [T!Next]_T!vars PROVE CreditInv'
  OBVIOUS
<1>0. T!TypeOK /\ Countable /\ T!TypeOK' /\ Countable'
  BY TasteTyped DEF CreditInv
<1>1. calls \in Nat /\ cut \in Nat /\ cut + 1 >= cut /\ cut >= cut
  BY <1>0, TasteNumbers
<1>2. ASSUME NEW c \in Callers, callers' = [callers EXCEPT ![c] = "idle"]
               \/ callers' = [callers EXCEPT ![c] = "check"] \/ callers' = [callers EXCEPT ![c] = "ask"]
      PROVE  Promised' \subseteq Promised
  BY <1>0, <1>2 DEF Promised, T!TypeOK
<1>3. ASSUME NEW c \in Callers, NEW t \in Seen, T!Answer(c, t) PROVE CreditInv'
  <2>1. callers' = [callers EXCEPT ![c] = "check"] /\ UNCHANGED <<base, tasks, calls, cut>>
    BY <1>3 DEF T!Answer, T!Step
  <2>2. CASE opinions' \subseteq opinions /\ earned' = earned
    BY <1>0, <1>1, <1>2, <2>1, <2>2, CreditKept
  <2>3. CASE t \notin opinions /\ opinions' = opinions \cup {t} /\ earned' = earned + 1
    BY <1>0, <1>3, <2>3, CreditEarned
  <2> QED
    BY <1>3, <2>2, <2>3 DEF T!Answer
<1>4. ASSUME NEW c \in Callers, T!Check(c) PROVE CreditInv'
  <2>1. UNCHANGED <<opinions, base, slot, tasks, earned, calls, cut>>
    BY <1>4 DEF T!Check
  <2>2. CASE T!Step(c, "check", "vote") /\ T!Due /\ tasks = T!Empty
    BY <1>0, <2>1, <2>2, CreditPromised
  <2>3. CASE T!Step(c, "check", "idle")
    BY <1>0, <1>1, <1>2, <2>1, <2>3, CreditKept DEF T!Step
  <2> QED
    BY <1>4, <2>2, <2>3 DEF T!Check
<1>5. ASSUME NEW c \in Callers, T!Ask(c) PROVE CreditInv'
  BY <1>0, <1>1, <1>2, <1>5, CreditKept DEF T!Ask, T!Step
<1>6. ASSUME NEW c \in Callers, T!Claim(c) PROVE CreditInv'
  <2>1. /\ callers[c] \in {"vote", "ask"} /\ callers' = [callers EXCEPT ![c] = "idle"]
        /\ UNCHANGED <<opinions, base, earned, calls, cut>>
    BY <1>6 DEF T!Claim
  <2>2. CASE UNCHANGED tasks
    BY <1>0, <1>1, <1>2, <2>1, <2>2, CreditKept
  <2>3. ASSUME NEW r \in RewriteIds \ DOMAIN tasks,
               tasks' = T!Put(tasks, r, [by |-> callers[c], read |-> None])
        PROVE  CreditInv'
    BY <1>0, <2>1, <2>3, CreditClaimed
  <2> QED
    BY <1>6, <2>2, <2>3 DEF T!Claim
<1>7. ASSUME NEW S, T!Remove(S) PROVE CreditInv'
  <2>1. opinions' \subseteq opinions /\ UNCHANGED <<base, tasks, callers, earned, calls, cut>>
    BY <1>7 DEF T!Remove
  <2>2. Promised' \subseteq Promised
    BY <2>1 DEF Promised
  <2> QED
    BY <1>0, <1>1, <2>1, <2>2, CreditKept
<1>8. ASSUME NEW r \in RewriteIds, T!Read(r) PROVE CreditInv'
  <2>1. r \in DOMAIN tasks /\ tasks[r].read = None /\ UNCHANGED <<opinions, base, callers, earned, cut>>
    BY <1>8 DEF T!Read
  <2>2. CASE T!Close(r) /\ calls' = calls
    <3>1. r \notin Paid /\ tasks' = T!Drop(tasks, {r})
      BY <2>1, <2>2 DEF Paid, T!Close
    <3> QED
      BY <1>0, <2>1, <2>2, <3>1, CreditSettled
  <2>3. CASE /\ tasks' = [tasks EXCEPT ![r].read = opinions]
             /\ calls' = IF tasks[r].by = "vote" THEN calls + 1 ELSE calls
    BY <1>0, <2>1, <2>3, CreditCalled
  <2> QED
    BY <1>8, <2>2, <2>3 DEF T!Read
<1>9. ASSUME NEW r \in RewriteIds, T!Finish(r) PROVE CreditInv'
  BY <1>0, <1>9, SameCount, CreditSettled DEF T!Finish, T!SetBase, T!Close
<1>10. ASSUME NEW r \in RewriteIds, T!Fail(r) PROVE CreditInv'
  BY <1>0, <1>10, SameCount, CreditSettled DEF T!Fail, T!SetBase, T!Close
<1>11. ASSUME NEW r \in RewriteIds, T!Lose(r) PROVE CreditInv'
  BY <1>0, <1>11, CreditSettled DEF T!Lose
<1>12. ASSUME T!Save PROVE CreditInv'
  <2>1. base' = Cardinality(opinions') /\ UNCHANGED <<opinions, tasks, callers, earned, calls, cut>>
    BY <1>12, SameCount DEF T!Save, T!SetBase
  <2>2. Promised' \subseteq Promised
    BY <2>1 DEF Promised
  <2> QED
    BY <1>0, <1>1, <2>1, <2>2, CreditKept
<1>13. ASSUME T!Restart PROVE CreditInv'
  BY <1>0, <1>13, CreditRestarted
<1>14. ASSUME T!Sweep PROVE CreditInv'
  <2>1. UNCHANGED <<opinions, base, tasks, callers, earned, calls>> /\ cut' >= cut
    BY <1>1, <1>14 DEF T!Sweep
  <2>2. Promised' \subseteq Promised
    BY <2>1 DEF Promised
  <2> QED
    BY <1>0, <2>1, <2>2, CreditKept
<1>15. CASE UNCHANGED T!vars
  <2>1. UNCHANGED <<opinions, base, tasks, callers, earned, calls, cut>>
    BY <1>15 DEF T!vars
  <2>2. Promised' \subseteq Promised
    BY <2>1 DEF Promised
  <2> QED
    BY <1>0, <1>1, <2>1, <2>2, CreditKept
<1> QED
  BY <1>3, <1>4, <1>5, <1>6, <1>7, <1>8, <1>9, <1>10, <1>11, <1>12, <1>13, <1>14, <1>15 DEF T!Next

\* What is not owed any more was earned.
LEMMA CreditSpent ==
    ASSUME NEW c \in Nat, NEW k \in Nat, NEW s \in Nat, NEW e \in Nat, NEW u \in Nat, NEW o \in Nat,
           o + k * c <= s * e + k * u
    PROVE  (c - u) * k <= e * s
<1>1. (c - u) * k = k * c - k * u /\ e * s = s * e /\ k * c \in Nat /\ k * u \in Nat /\ s * e \in Nat
  OBVIOUS
<1> QED
  BY <1>1

\* PROFILE_REFRESH_VOTES new opinions start at most one model call for each submission
\* in flight that counted them, whatever became of the rewrites before
\* (voting._maybe_refresh, ProfileRunner).
THEOREM RewritesEarned == MCSpec => []RewritesAreEarned
<1>1. MCInit => CreditInv
  BY TasteAlone, TasteInit
<1>2. CreditInv /\ [MCNext]_MCVars => CreditInv'
  BY TasteAlone, CreditNext
<1>3. CreditInv => RewritesAreEarned
  <2> SUFFICES ASSUME CreditInv PROVE RewritesAreEarned
    OBVIOUS
  <2>1. /\ Share \in Nat /\ Refresh \in Nat /\ earned \in Nat /\ calls \in Nat /\ cut \in Nat
        /\ Owed \in Nat
    BY TasteNumbers DEF CreditInv
  <2>2. Owed + Refresh * calls <= Share * earned + Refresh * cut
    BY DEF CreditInv, OwedIsLeft, Income, Worth, Cost
  <2>3. (calls - cut) * Refresh <= earned * Share
    BY <2>1, <2>2, CreditSpent
  <2> QED
    BY <2>3, SameCount DEF RewritesAreEarned, T!RewritesAreEarned, Share
<1> QED
  BY <1>1, <1>2, <1>3, PTL DEF MCSpec

-----------------------------------------------------------------------------
(* Uploads of viewing histories (Imports).                                  *)

\* A step of the instance is a step of Imports, or leaves it alone.
LEMMA ImportsAlone ==
    /\ MCInit => I!Init
    /\ [MCNext]_MCVars => [I!Next]_I!vars
<1>1. ASSUME MCInit PROVE I!Init
  BY <1>1 DEF MCInit
<1>2. ASSUME [MCNext]_MCVars PROVE [I!Next]_I!vars
  BY <1>2 DEF MCNext, MCVars, ofImports, I!vars
<1> QED
  BY <1>1, <1>2

\* Counting in Imports is counting.
LEMMA ImportsCount ==
    /\ \A S : I!Cardinality(S) = Cardinality(S)
    /\ \A S : I!IsFiniteSet(S) <=> IsFiniteSet(S)
  BY DEF I!Cardinality, Cardinality, I!IsFiniteSet, IsFiniteSet

\* What is being identified, or about to be, is running as far as the tables say,
\* unless it was forgotten; and it is not both.
RunningIsItsOwn ==
    /\ running \subseteq I!Task /\ starting \subseteq I!Task /\ running \cap starting = {}
    /\ \A t \in running \cup starting :
         t.import \in DOMAIN imports => imports[t.import] = [user |-> t.user, status |-> "running"]

\* A question is of an import that is there, and so is whoever answers it.
QuestionsAreOwned ==
    /\ DOMAIN reviews \subseteq DOMAIN imports
    /\ \A a \in decisions : a.import \in DOMAIN imports => imports[a.import].user = a.user

ImportInv ==
    /\ I!IsTable(imports, Uploads, I!Import)
    /\ IsFiniteSet(running)
    /\ RunningIsItsOwn /\ QuestionsAreOwned
    /\ ImportsAreCapped /\ FileRowsHaveAnImport
-----------------------------------------------------------------------------
\* With no import, all are in order.
LEMMA ImportInit == I!Init => ImportInv
<1> SUFFICES ASSUME I!Init PROVE ImportInv
  OBVIOUS
<1>1. /\ DOMAIN imports = {} /\ DOMAIN reviews = {} /\ DOMAIN history = {}
      /\ running = {} /\ starting = {} /\ decisions = {}
  BY DEF I!Init, I!Empty
<1>2. I!IsTable(imports, Uploads, I!Import)
  BY <1>1 DEF I!IsTable, I!Init, I!Empty
<1>3. IsFiniteSet(running) /\ Cardinality(running) <= MaxConcurrent
  BY <1>1, FS_EmptySet, ImportsAssumption DEF I!ImportsAssumption
<1>4. ImportsAreCapped
  BY <1>1, <1>3, ImportsCount DEF ImportsAreCapped, I!ImportsAreCapped, I!Running
<1> QED
  BY <1>1, <1>2, <1>3, <1>4 DEF ImportInv, RunningIsItsOwn, QuestionsAreOwned,
        FileRowsHaveAnImport, I!FileRowsHaveAnImport

\* The limits stay kept as work ends, with its row or without.
LEMMA ImportsStayCapped ==
    ASSUME ImportInv, starting' \in SUBSET starting, running' \in SUBSET running,
           DOMAIN imports' = DOMAIN imports,
           \A i \in DOMAIN imports :
             \/ imports'[i] = imports[i]
             \/ /\ imports'[i].user = imports[i].user /\ imports'[i].status # "running"
                /\ \A t \in running' \cup starting' : t.import # i
    PROVE  RunningIsItsOwn' /\ IsFiniteSet(running') /\ ImportsAreCapped'
<1>1. RunningIsItsOwn'
  BY DEF ImportInv, RunningIsItsOwn, I!Task
<1>2. IsFiniteSet(running') /\ Cardinality(running') <= MaxConcurrent
  <2>1. IsFiniteSet(running) /\ Cardinality(running) <= MaxConcurrent
    BY ImportsCount DEF ImportInv, ImportsAreCapped, I!ImportsAreCapped
  <2>2. /\ Cardinality(running') \in Nat /\ Cardinality(running) \in Nat
        /\ Cardinality(running') <= Cardinality(running) /\ IsFiniteSet(running')
    BY <2>1, FS_Subset, FS_CardinalityType
  <2> QED
    BY <2>1, <2>2, ImportsAssumption DEF I!ImportsAssumption
<1>3. ImportsAreCapped'
  <2>1. \A i, j \in I!Running' : I!Of(i)' = I!Of(j)' => i = j
    BY DEF ImportInv, ImportsAreCapped, I!ImportsAreCapped, I!Running, I!Of
  <2> QED
    BY <1>2, <2>1, ImportsCount DEF ImportsAreCapped, I!ImportsAreCapped
<1> QED
  BY <1>1, <1>2, <1>3

\* What is closed with its work is closed for all who look.
LEMMA ImportEnds ==
    ASSUME ImportInv, NEW t \in running, NEW status \in {"failed", "complete"},
           running' = running \ {t}, imports' = I!Status(t.import, status), UNCHANGED starting
    PROVE  /\ DOMAIN imports' = DOMAIN imports /\ I!IsTable(imports', Uploads, I!Import)
           /\ \A i \in DOMAIN imports : imports'[i].user = imports[i].user
           /\ t.import \in DOMAIN imports =>
                t.import \in I!Running /\ imports'[t.import].status = status
           /\ RunningIsItsOwn' /\ IsFiniteSet(running') /\ ImportsAreCapped'
<1>1. DOMAIN imports' = DOMAIN imports /\ I!IsTable(imports', Uploads, I!Import)
  BY DEF ImportInv, I!Status, I!IsTable, I!Import
<1>2. ASSUME NEW i \in DOMAIN imports, i # t.import PROVE imports'[i] = imports[i]
  BY <1>2 DEF I!Status
<1>3. ASSUME t.import \in DOMAIN imports
      PROVE  /\ imports'[t.import].user = imports[t.import].user
             /\ imports'[t.import].status = status /\ t.import \in I!Running
             /\ \A s \in running' \cup starting : s.import # t.import
  <2>1. imports[t.import] = [user |-> t.user, status |-> "running"]
    BY <1>3 DEF ImportInv, RunningIsItsOwn
  <2>2. imports'[t.import].user = imports[t.import].user /\ imports'[t.import].status = status
    BY <1>3, <2>1 DEF ImportInv, I!Status, I!IsTable, I!Import
  <2>3. ASSUME NEW s \in running' \cup starting, s.import = t.import PROVE FALSE
    <3>1. imports[s.import] = [user |-> s.user, status |-> "running"]
      BY <1>3, <2>3 DEF ImportInv, RunningIsItsOwn
    <3>2. s.user = t.user
      BY <2>1, <2>3, <3>1
    <3>3. s = t
      BY <2>3, <3>2 DEF ImportInv, RunningIsItsOwn, I!Task
    <3> QED
      BY <2>3, <3>3 DEF ImportInv, RunningIsItsOwn
  <2> QED
    BY <1>3, <2>1, <2>2, <2>3 DEF I!Running
<1>4. RunningIsItsOwn' /\ IsFiniteSet(running') /\ ImportsAreCapped'
  BY <1>1, <1>2, <1>3, ImportsStayCapped
<1> QED
  BY <1>1, <1>2, <1>3, <1>4

\* Rows written for an import that is there, and of the user it is of.
LEMMA ImportRecorded ==
    ASSUME ImportInv, DOMAIN imports' = DOMAIN imports,
           \A i \in DOMAIN imports : imports'[i].user = imports[i].user,
           NEW u, NEW W, NEW i \in DOMAIN imports, imports[i].user = u,
           history' = I!Recorded(u, W, i)
    PROVE  /\ FileRowsHaveAnImport'
           /\ \A k \in DOMAIN history' :
                \/ k \in DOMAIN history /\ history[k] = history'[k]
                \/ history'[k] = i
<1>1. ASSUME NEW k \in DOMAIN history'
      PROVE  \/ k \in DOMAIN history /\ history[k] = history'[k]
             \/ k[1] = u /\ history'[k] = i
  BY DEF I!Recorded
<1> QED
  BY <1>1 DEF ImportInv, FileRowsHaveAnImport, I!FileRowsHaveAnImport, I!Of

\* The step of an import, and what it writes.
ImportStep ==
    /\ ImportInv'
    /\ \A k \in DOMAIN history' :
          \/ k[2] = "wall"
          \/ k \in DOMAIN history /\ history[k] = history'[k]
          \/ LET i == history'[k]
             IN  \/ i \in I!Running /\ imports'[i].status = "complete"
                 \/ i \in DOMAIN reviews /\ reviews[i] = "pending" /\ reviews'[i] = "accepted"

\* start: the row is the user's only running one, under an id nobody holds.
LEMMA ImportOpened ==
    ASSUME ImportInv, NEW u \in Users, I!RunningFor(u) = {}, NEW i \in I!Unused,
           imports' = I!Put(imports, i, [user |-> u, status |-> "running"]),
           starting' = starting \cup {[import |-> i, user |-> u]},
           UNCHANGED <<reviews, history, running, decisions>>
    PROVE  ImportInv'
<1> DEFINE t == [import |-> i, user |-> u]
<1>1. /\ i \in Uploads /\ i \notin DOMAIN imports
      /\ \A s \in starting \cup running \cup decisions : s.import # i
  BY DEF I!Unused
<1>2. /\ DOMAIN imports' = DOMAIN imports \cup {i}
      /\ imports'[i] = [user |-> u, status |-> "running"]
      /\ \A x \in DOMAIN imports : imports'[x] = imports[x]
  BY <1>1 DEF I!Put
<1>3. I!IsTable(imports', Uploads, I!Import)
  BY <1>1, <1>2 DEF ImportInv, I!IsTable, I!Put, I!Import
<1>4. t \in I!Task /\ t \notin running
  BY <1>1 DEF I!Task
<1>5. RunningIsItsOwn'
  BY <1>1, <1>2, <1>4 DEF ImportInv, RunningIsItsOwn
<1>6. QuestionsAreOwned'
  BY <1>1, <1>2 DEF ImportInv, QuestionsAreOwned
<1>7. FileRowsHaveAnImport'
  BY <1>1, <1>2 DEF ImportInv, FileRowsHaveAnImport, I!FileRowsHaveAnImport, I!Of
<1>8. ImportsAreCapped'
  <2>1. \A a, b \in I!Running' : I!Of(a)' = I!Of(b)' => a = b
    BY <1>1, <1>2 DEF ImportInv, ImportsAreCapped, I!ImportsAreCapped, I!RunningFor, I!Running, I!Of
  <2> QED
    BY <2>1, ImportsCount DEF ImportInv, ImportsAreCapped, I!ImportsAreCapped
<1> QED
  BY <1>3, <1>5, <1>6, <1>7, <1>8 DEF ImportInv

\* submit: the place asked for is there, or no task is made.
LEMMA ImportSubmitted ==
    ASSUME ImportInv, NEW t \in starting, I!Submit(t)
    PROVE  ImportInv'
<1>1. /\ starting' = starting \ {t} /\ UNCHANGED <<imports, reviews, history, decisions>>
      /\ running' = IF I!HasCapacity THEN running \cup {t} ELSE running
  BY DEF I!Submit
<1>2. RunningIsItsOwn'
  BY <1>1 DEF ImportInv, RunningIsItsOwn
<1>3. QuestionsAreOwned' /\ FileRowsHaveAnImport'
  BY <1>1 DEF ImportInv, QuestionsAreOwned, FileRowsHaveAnImport, I!FileRowsHaveAnImport, I!Of
<1>4. IsFiniteSet(running') /\ Cardinality(running') <= MaxConcurrent
  <2>1. IsFiniteSet(running) /\ Cardinality(running) <= MaxConcurrent /\ MaxConcurrent \in Nat
    BY ImportsCount, ImportsAssumption
       DEF ImportInv, ImportsAreCapped, I!ImportsAreCapped, I!ImportsAssumption
  <2>2. CASE running' = running
    BY <2>1, <2>2
  <2>3. CASE I!HasCapacity /\ running' = running \cup {t}
    <3>1. Cardinality(running) < MaxConcurrent
      BY <2>3, ImportsCount DEF I!HasCapacity
    <3>2. t \notin running
      BY DEF ImportInv, RunningIsItsOwn
    <3>3. IsFiniteSet(running \cup {t}) /\ Cardinality(running \cup {t}) = Cardinality(running) + 1
      BY <2>1, <3>2, FS_AddElement
    <3>4. Cardinality(running) \in Nat
      BY <2>1, FS_CardinalityType
    <3>5. Cardinality(running) + 1 <= MaxConcurrent
      BY <2>1, <3>1, <3>4
    <3> QED
      BY <2>3, <3>3, <3>5
  <2> QED
    BY <1>1, <2>2, <2>3
<1>5. ImportsAreCapped'
  <2>1. \A a, b \in I!Running' : I!Of(a)' = I!Of(b)' => a = b
    BY <1>1 DEF ImportInv, ImportsAreCapped, I!ImportsAreCapped, I!Running, I!Of
  <2> QED
    BY <1>4, <2>1, ImportsCount DEF ImportsAreCapped, I!ImportsAreCapped
<1> QED
  BY <1>1, <1>2, <1>3, <1>4, <1>5 DEF ImportInv

\* _store, and run_failed: the import whose task this is is running, or gone.
LEMMA ImportStored ==
    ASSUME ImportInv, NEW t \in running, NEW W, NEW asks, I!Store(t, W, asks)
    PROVE  ImportStep
<1>1. running' = running \ {t} /\ UNCHANGED <<starting, decisions>>
  BY DEF I!Store
<1>2. CASE t.import \in DOMAIN imports
  <2>1. /\ history' = I!Recorded(t.user, W, t.import)
        /\ reviews' = IF asks THEN I!Put(reviews, t.import, "pending") ELSE reviews
        /\ imports' = I!Status(t.import, "complete")
    BY <1>2 DEF I!Store
  <2>2. /\ DOMAIN imports' = DOMAIN imports /\ I!IsTable(imports', Uploads, I!Import)
        /\ \A i \in DOMAIN imports : imports'[i].user = imports[i].user
        /\ t.import \in I!Running /\ imports'[t.import].status = "complete"
        /\ RunningIsItsOwn' /\ IsFiniteSet(running') /\ ImportsAreCapped'
    BY <1>1, <1>2, <2>1, ImportEnds
  <2>3. imports[t.import].user = t.user
    <3>1. imports[t.import] = [user |-> t.user, status |-> "running"]
      BY <1>2 DEF ImportInv, RunningIsItsOwn
    <3> QED
      BY <3>1
  <2>4. /\ FileRowsHaveAnImport'
        /\ \A k \in DOMAIN history' :
             (k \in DOMAIN history /\ history[k] = history'[k]) \/ history'[k] = t.import
    BY <1>2, <2>1, <2>2, <2>3, ImportRecorded
  <2>5. QuestionsAreOwned'
    BY <1>1, <1>2, <2>1, <2>2 DEF ImportInv, QuestionsAreOwned, I!Put
  <2> QED
    BY <2>2, <2>4, <2>5 DEF ImportInv, ImportStep
<1>3. CASE t.import \notin DOMAIN imports
  <2>1. UNCHANGED <<history, reviews, imports>>
    BY <1>3 DEF I!Store
  <2>2. RunningIsItsOwn' /\ IsFiniteSet(running') /\ ImportsAreCapped'
    BY <1>1, <2>1, ImportsStayCapped
  <2>3. QuestionsAreOwned' /\ FileRowsHaveAnImport'
    BY <1>1, <2>1 DEF ImportInv, QuestionsAreOwned, FileRowsHaveAnImport, I!FileRowsHaveAnImport, I!Of
  <2> QED
    BY <2>1, <2>2, <2>3 DEF ImportInv, ImportStep
<1> QED
  BY <1>2, <1>3

\* run, run_failed: the row is closed with its work.
LEMMA ImportFailed ==
    ASSUME ImportInv, NEW t \in running, I!Fails(t)
    PROVE  ImportStep
<1>1. /\ running' = running \ {t} /\ imports' = I!Status(t.import, "failed")
      /\ UNCHANGED <<reviews, history, starting, decisions>>
  BY DEF I!Fails
<1>2. /\ DOMAIN imports' = DOMAIN imports /\ I!IsTable(imports', Uploads, I!Import)
      /\ \A i \in DOMAIN imports : imports'[i].user = imports[i].user
      /\ RunningIsItsOwn' /\ IsFiniteSet(running') /\ ImportsAreCapped'
  BY <1>1, ImportEnds
<1>3. QuestionsAreOwned' /\ FileRowsHaveAnImport'
  BY <1>1, <1>2 DEF ImportInv, QuestionsAreOwned, FileRowsHaveAnImport, I!FileRowsHaveAnImport, I!Of
<1> QED
  BY <1>1, <1>2, <1>3 DEF ImportInv, ImportStep

\* decide: a compare-and-set of a question whose import is the user's.
LEMMA ImportDecided ==
    ASSUME ImportInv, NEW a \in decisions, I!Decide(a)
    PROVE  ImportStep
<1>1. decisions' = decisions \ {a} /\ UNCHANGED <<imports, starting, running>>
  BY DEF I!Decide
<1>2. RunningIsItsOwn' /\ IsFiniteSet(running') /\ ImportsAreCapped'
  BY <1>1, ImportsStayCapped DEF ImportInv
<1>3. CASE a.import \in DOMAIN reviews /\ reviews[a.import] = "pending"
  <2>1. /\ reviews' = [reviews EXCEPT ![a.import] = "accepted"]
        /\ history' = I!Recorded(a.user, {a.film}, a.import)
    BY <1>3 DEF I!Decide
  <2>2. a.import \in DOMAIN imports /\ imports[a.import].user = a.user
    BY <1>3 DEF ImportInv, QuestionsAreOwned
  <2>3. /\ FileRowsHaveAnImport'
        /\ \A k \in DOMAIN history' :
             (k \in DOMAIN history /\ history[k] = history'[k]) \/ history'[k] = a.import
    BY <1>1, <2>1, <2>2, ImportRecorded
  <2>4. QuestionsAreOwned'
    BY <1>1, <2>1 DEF ImportInv, QuestionsAreOwned
  <2>5. reviews'[a.import] = "accepted"
    BY <1>3, <2>1
  <2> QED
    BY <1>1, <1>2, <1>3, <2>3, <2>4, <2>5 DEF ImportInv, ImportStep
<1>4. CASE UNCHANGED <<reviews, history>>
  BY <1>1, <1>2, <1>4 DEF ImportInv, ImportStep, QuestionsAreOwned, FileRowsHaveAnImport,
        I!FileRowsHaveAnImport, I!Of
<1> QED
  BY <1>3, <1>4 DEF I!Decide

\* forget: what the import owned goes with it.
LEMMA ImportForgotten ==
    ASSUME ImportInv, NEW i \in Uploads, I!Forget(i)
    PROVE  ImportStep
<1>1. /\ imports' = I!Drop(imports, {i}) /\ reviews' = I!Drop(reviews, {i})
      /\ history' = I!Drop(history, I!OwnedBy(i)) /\ UNCHANGED <<starting, running, decisions>>
  BY DEF I!Forget
<1>2. /\ DOMAIN imports' = DOMAIN imports \ {i} /\ \A x \in DOMAIN imports' : imports'[x] = imports[x]
      /\ I!IsTable(imports', Uploads, I!Import)
  BY <1>1 DEF ImportInv, I!Drop, I!IsTable
<1>3. RunningIsItsOwn' /\ IsFiniteSet(running')
  BY <1>1, <1>2 DEF ImportInv, RunningIsItsOwn
<1>4. QuestionsAreOwned'
  BY <1>1, <1>2 DEF ImportInv, QuestionsAreOwned, I!Drop
<1>5. /\ DOMAIN history' = DOMAIN history \ {k \in DOMAIN history : history[k] = i}
      /\ \A k \in DOMAIN history' : history'[k] = history[k]
  BY <1>1 DEF I!Drop, I!OwnedBy
<1>6. FileRowsHaveAnImport'
  BY <1>2, <1>5 DEF ImportInv, FileRowsHaveAnImport, I!FileRowsHaveAnImport, I!Of
<1>7. ImportsAreCapped'
  <2>1. \A a, b \in I!Running' : I!Of(a)' = I!Of(b)' => a = b
    BY <1>2 DEF ImportInv, ImportsAreCapped, I!ImportsAreCapped, I!Running, I!Of
  <2> QED
    BY <1>1, <2>1 DEF ImportInv, ImportsAreCapped, I!ImportsAreCapped
<1> QED
  BY <1>2, <1>3, <1>4, <1>5, <1>6, <1>7 DEF ImportInv, ImportStep

\* stop, a crash, and close_abandoned_imports.
LEMMA ImportsRestarted ==
    ASSUME ImportInv, I!Restart
    PROVE  ImportStep
<1>1. /\ imports' = [i \in DOMAIN imports |->
                       IF i \in I!Running THEN [imports[i] EXCEPT !.status = "failed"] ELSE imports[i]]
      /\ starting' = {} /\ running' = {} /\ decisions' = {}
      /\ UNCHANGED <<reviews, history>>
  BY DEF I!Restart
<1>2. /\ DOMAIN imports' = DOMAIN imports /\ I!IsTable(imports', Uploads, I!Import)
      /\ \A i \in DOMAIN imports : imports'[i].user = imports[i].user /\ imports'[i].status # "running"
  BY <1>1 DEF ImportInv, I!IsTable, I!Import, I!Running
<1>3. RunningIsItsOwn' /\ IsFiniteSet(running') /\ ImportsAreCapped'
  BY <1>1, <1>2, ImportsStayCapped
<1>4. QuestionsAreOwned' /\ FileRowsHaveAnImport'
  BY <1>1, <1>2 DEF ImportInv, QuestionsAreOwned, FileRowsHaveAnImport, I!FileRowsHaveAnImport, I!Of
<1> QED
  BY <1>1, <1>2, <1>3, <1>4 DEF ImportInv, ImportStep

\* The steps that touch no import: reading a file, asking and rejecting a question, and
\* the wall, whose rows are not an import's.
LEMMA ImportsUntouched ==
    ASSUME ImportInv, UNCHANGED <<imports, starting, running>>,
           DOMAIN reviews' = DOMAIN reviews,
           \A a \in decisions' : a \in decisions \/ (a.import \in DOMAIN imports => imports[a.import].user = a.user),
           \A k \in DOMAIN history' :
             k[2] = "wall" \/ (k \in DOMAIN history /\ history[k] = history'[k])
    PROVE  ImportStep
<1>1. RunningIsItsOwn' /\ IsFiniteSet(running') /\ ImportsAreCapped'
  BY ImportsStayCapped DEF ImportInv
<1>2. QuestionsAreOwned' /\ FileRowsHaveAnImport'
  BY DEF ImportInv, QuestionsAreOwned, FileRowsHaveAnImport, I!FileRowsHaveAnImport, I!Of
<1> QED
  BY <1>1, <1>2 DEF ImportInv, ImportStep

\* Every step of Imports keeps them in order, and writes what it may.
LEMMA ImportNext == ImportInv /\ [I!Next]_I!vars => ImportStep
<1> SUFFICES ASSUME ImportInv, [I!Next]_I!vars PROVE ImportStep
  OBVIOUS
<1>1. ASSUME NEW u \in Users, I!Upload(u) PROVE ImportStep
  BY <1>1, ImportsUntouched DEF I!Upload
<1>2. ASSUME NEW u \in Users, I!Open(u) PROVE ImportStep
  <2>1. CASE UNCHANGED <<imports, starting>>
    BY <1>2, <2>1, ImportsUntouched DEF I!Open
  <2>2. CASE /\ I!RunningFor(u) = {}
             /\ \E i \in I!Unused :
                   /\ imports' = I!Put(imports, i, [user |-> u, status |-> "running"])
                   /\ starting' = starting \cup {[import |-> i, user |-> u]}
    <3>1. ImportInv'
      BY <1>2, <2>2, ImportOpened DEF I!Open
    <3> QED
      BY <1>2, <3>1 DEF I!Open, ImportStep
  <2> QED
    BY <1>2, <2>1, <2>2 DEF I!Open
<1>3. ASSUME NEW t \in starting, I!Submit(t) PROVE ImportStep
  BY <1>3, ImportSubmitted DEF I!Submit, ImportStep
<1>4. ASSUME NEW i \in Uploads, I!Reject(i) PROVE ImportStep
  BY <1>4, ImportsUntouched DEF I!Reject
<1>5. ASSUME NEW i \in Uploads, NEW f \in Films, I!Accept(i, f) PROVE ImportStep
  BY <1>5, ImportsUntouched DEF I!Accept, I!Of
<1>6. ASSUME NEW u \in Users, NEW f \in Films, I!Tick(u, f) PROVE ImportStep
  BY <1>6, ImportsUntouched DEF I!Tick, I!Put
<1>7. CASE UNCHANGED I!vars
  BY <1>7, ImportsUntouched DEF I!vars
<1> QED
  BY <1>1, <1>2, <1>3, <1>4, <1>5, <1>6, <1>7, ImportFailed, ImportStored, ImportDecided,
     ImportForgotten, ImportsRestarted DEF I!Next

\* One import of a user is identified at a time, and no more of them than the server
\* said (running_for_user, has_capacity, submit), whatever MAX_CONCURRENT_IMPORTS is.
THEOREM ImportsCapped == MCSpec => []ImportsAreCapped
<1>1. ImportInv => ImportsAreCapped
  BY DEF ImportInv
<1>2. ImportInv /\ [MCNext]_MCVars => ImportInv'
  BY ImportsAlone, ImportNext DEF ImportStep
<1> QED
  BY <1>1, <1>2, ImportsAlone, ImportInit, PTL DEF MCSpec

\* Forgetting an import leaves nothing of it: each row that came from a file belongs to
\* an import of the same user that is there (forget, the foreign keys).
THEOREM FileRowsAreOwned == MCSpec => []FileRowsHaveAnImport
<1>1. ImportInv => FileRowsHaveAnImport
  BY DEF ImportInv
<1>2. ImportInv /\ [MCNext]_MCVars => ImportInv'
  BY ImportsAlone, ImportNext DEF ImportStep
<1> QED
  BY <1>1, <1>2, ImportsAlone, ImportInit, PTL DEF MCSpec

-----------------------------------------------------------------------------
\* A step of the instance is a step of Votes, or leaves it alone.
LEMMA VotesAlone ==
    /\ MCInit => Init
    /\ [MCNext]_MCVars => [Next]_vars
<1>1. ASSUME MCInit PROVE Init
  BY <1>1 DEF MCInit
<1>2. ASSUME [MCNext]_MCVars PROVE [Next]_vars
  BY <1>2 DEF MCNext, MCVars
<1> QED
  BY <1>1, <1>2

\* What arrives twice is stored once: a swipe resent (remember_receipt), a row of the
\* fork imported again, and the answer to an import's question, whatever two tabs, a
\* restart or forgetting did in between (decide).
THEOREM EachIsStoredOnce == MCSpec => StoredOnce
<1>1. Spec => AppliedOnce
  BY StoredOnlyOnce
<1>2. MCSpec => Spec
  BY VotesAlone, PTL DEF MCSpec, Spec
<1>3. ImportInv /\ [MCNext]_MCVars =>
        [\A k \in DOMAIN history' :
          \/ k[2] = "wall"
          \/ k \in DOMAIN history /\ history[k] = history'[k]
          \/ LET i == history'[k]
             IN  \/ i \in I!Running /\ imports'[i].status = "complete"
                 \/ i \in DOMAIN reviews /\ reviews[i] = "pending" /\ reviews'[i] = "accepted"]_I!vars
  BY ImportsAlone, ImportNext DEF ImportStep
<1>4. ImportInv /\ [MCNext]_MCVars => ImportInv'
  BY ImportsAlone, ImportNext DEF ImportStep
<1>5. MCSpec => I!AnsweredOnce
  BY <1>3, <1>4, ImportsAlone, ImportInit, PTL DEF MCSpec, I!AnsweredOnce
<1> QED
  BY <1>1, <1>2, <1>5, PTL DEF StoredOnce
=============================================================================

---------------------------- MODULE Pairing_proofs ----------------------------
(***************************************************************************)
(* Proofs about Pairing: types, one session for each code, and that it      *)
(* implements Consent, step by step.                                        *)
(***************************************************************************)
EXTENDS Pairing, TLAPS

\* What an approval in flight is about is still the row it was read from: the
\* same owner and the same phone, which no later request can replace.
ApprovalsKnow ==
    \A c \in Clients :
        /\ flight[c].step = "approve"
        /\ flight[c].pairing \in DOMAIN pairings
        => /\ pairings[flight[c].pairing].user = flight[c].user
           /\ pairings[flight[c].pairing].phone = flight[c].phone
           /\ pairings[flight[c].pairing].status # "pending"

\* The row a session came from is completed, for as long as it is stored.
SessionsAreCompleted ==
    \A s \in DOMAIN sessions :
        sessions[s].from \in DOMAIN pairings => pairings[sessions[s].from].status = "completed"

\* A row that waits for its owner's yes, or has it, has the phone it is about.
AskedByAPhone ==
    \A p \in DOMAIN pairings :
        pairings[p].status \in {"awaiting_approval", "approved"} => pairings[p].phone \in Phones

\* The inductive invariant.
Sound == TypeOK /\ ApprovalsKnow /\ AskedByAPhone /\ SessionsAreCompleted /\ OneSessionPerPairing

-----------------------------------------------------------------------------
(* What the operators keep.                                                 *)

\* A session that is signed out is otherwise what it was (revoke_session).
LEMMA SignedOutTable ==
    ASSUME IsTable(sessions, SessionIds, SessionRow), NEW S
    PROVE  /\ IsTable(SignedOut(S), SessionIds, SessionRow)
           /\ DOMAIN SignedOut(S) = DOMAIN sessions
           /\ \A s \in DOMAIN sessions :
                /\ SignedOut(S)[s].user = sessions[s].user
                /\ SignedOut(S)[s].from = sessions[s].from
                /\ SignedOut(S)[s].phone = sessions[s].phone
                /\ SignedOut(S)[s].live => sessions[s].live
  BY DEF IsTable, SignedOut, SessionRow

-----------------------------------------------------------------------------
(* What a step does to the rows.                                            *)

\* A row that stays keeps its owner, leaves "pending" for good, keeps the phone it
\* then has, and stays completed once it is.
RowsPersist ==
    \A p \in DOMAIN pairings \cap DOMAIN pairings' :
        /\ pairings'[p].user = pairings[p].user
        /\ pairings[p].status # "pending" =>
             pairings'[p].phone = pairings[p].phone /\ pairings'[p].status # "pending"
        /\ pairings[p].status = "completed" => pairings'[p].status = "completed"
        /\ pairings'[p].status \in {"awaiting_approval", "approved"} =>
             \/ pairings'[p].phone \in Phones
             \/ /\ pairings'[p].phone = pairings[p].phone
                /\ pairings[p].status \in {"awaiting_approval", "approved"}

\* A session that stays came from the pairing it came from, and only a signed-out
\* one changes.
SessionsPersist ==
    /\ DOMAIN sessions' \subseteq DOMAIN sessions
    /\ \A s \in DOMAIN sessions' :
         /\ sessions'[s].user = sessions[s].user
         /\ sessions'[s].from = sessions[s].from
         /\ sessions'[s].phone = sessions[s].phone
         /\ sessions'[s].live => sessions[s].live

\* A phone that asks writes its name into a pending row (request).
LEMMA AskMoves ==
    ASSUME TypeOK, NEW p, NEW q \in Phones, AskToPair(p, q)
    PROVE  /\ IsTable(pairings', PairingIds, Row) /\ DOMAIN pairings' = DOMAIN pairings
           /\ p \in DOMAIN pairings /\ pairings[p].status = "pending"
           /\ \A x \in DOMAIN pairings \ {p} : pairings'[x] = pairings[x]
           /\ pairings'[p].user = pairings[p].user /\ pairings'[p].phone = q
           /\ pairings'[p].status = "awaiting_approval"
<1> DEFINE row == [pairings[p] EXCEPT !.status = "awaiting_approval", !.phone = q]
<1>1. /\ p \in DOMAIN pairings /\ pairings[p].status = "pending"
      /\ pairings' = [pairings EXCEPT ![p] = row]
  BY DEF AskToPair, Movable
<1>2. pairings[p] \in Row
  BY <1>1 DEF TypeOK, IsTable
<1>3. /\ row \in Row /\ row.user = pairings[p].user /\ row.phone = q
      /\ row.status = "awaiting_approval"
  BY <1>2 DEF Row, Statuses, OpenStatuses
<1> HIDE DEF row
<1>4. IsTable(pairings, PairingIds, Row)
  BY DEF TypeOK
<1>5. /\ IsTable(pairings', PairingIds, Row) /\ DOMAIN pairings' = DOMAIN pairings
      /\ \A x \in DOMAIN pairings \ {p} : pairings'[x] = pairings[x]
      /\ pairings'[p] = row
  BY <1>1, <1>3, <1>4 DEF IsTable
<1> QED
  BY <1>1, <1>3, <1>5

\* A row whose status alone is written (approve, reject, cancel).
LEMMA StatusMoves ==
    ASSUME TypeOK, NEW p, p \in DOMAIN pairings, NEW status, status \in Statuses,
           pairings' = [pairings EXCEPT ![p].status = status]
    PROVE  /\ IsTable(pairings', PairingIds, Row) /\ DOMAIN pairings' = DOMAIN pairings
           /\ \A x \in DOMAIN pairings \ {p} : pairings'[x] = pairings[x]
           /\ pairings'[p].user = pairings[p].user /\ pairings'[p].phone = pairings[p].phone
           /\ pairings'[p].status = status
<1> DEFINE row == [pairings[p] EXCEPT !.status = status]
<1>1. pairings' = [pairings EXCEPT ![p] = row]
  OBVIOUS
<1>2. pairings[p] \in Row
  BY DEF TypeOK, IsTable
<1>3. /\ row \in Row /\ row.user = pairings[p].user /\ row.phone = pairings[p].phone
      /\ row.status = status
  BY <1>2 DEF Row
<1> HIDE DEF row
<1>4. IsTable(pairings, PairingIds, Row)
  BY DEF TypeOK
<1>5. /\ IsTable(pairings', PairingIds, Row) /\ DOMAIN pairings' = DOMAIN pairings
      /\ \A x \in DOMAIN pairings \ {p} : pairings'[x] = pairings[x]
      /\ pairings'[p] = row
  BY <1>1, <1>3, <1>4 DEF IsTable
<1> QED
  BY <1>1, <1>3, <1>5

\* A session that was not there is: it came from pairing p, for phone q.
Opened(s, p, q) ==
    /\ DOMAIN sessions' = DOMAIN sessions \cup {s}
    /\ \A x \in DOMAIN sessions : sessions'[x] = sessions[x]
    /\ sessions'[s].user = pairings[p].user
    /\ sessions'[s].from = p
    /\ sessions'[s].phone = q
    /\ sessions'[s].live = TRUE

\* Completing opens one session under an id nobody uses and names it in the row.
LEMMA CompleteMoves ==
    ASSUME TypeOK, NEW p, NEW q \in Phones, Complete(p, q)
    PROVE  /\ IsTable(pairings', PairingIds, Row) /\ DOMAIN pairings' = DOMAIN pairings
           /\ p \in DOMAIN pairings /\ pairings[p].status = "approved" /\ pairings[p].phone = q
           /\ \A x \in DOMAIN pairings \ {p} : pairings'[x] = pairings[x]
           /\ pairings'[p].user = pairings[p].user /\ pairings'[p].phone = q
           /\ pairings'[p].status = "completed"
           /\ IsTable(sessions', SessionIds, SessionRow)
           /\ \E s \in SessionIds \ DOMAIN sessions : Opened(s, p, q)
<1>1. PICK s \in FreshSessions :
         /\ sessions' = Put(sessions, s,
               [user |-> pairings[p].user, phone |-> q, from |-> p, live |-> TRUE])
         /\ pairings' = [pairings EXCEPT ![p].status = "completed", ![p].session = s]
  BY DEF Complete, OpenSession
<1>2. /\ p \in DOMAIN pairings /\ pairings[p].status = "approved" /\ pairings[p].phone = q
      /\ s \in SessionIds \ DOMAIN sessions
  BY DEF Complete, Movable, FreshSessions
<1> DEFINE row == [pairings[p] EXCEPT !.status = "completed", !.session = s]
           seat == [user |-> pairings[p].user, phone |-> q, from |-> p, live |-> TRUE]
<1>3. pairings[p] \in Row /\ p \in PairingIds
  BY <1>2 DEF TypeOK, IsTable
<1>4. /\ row \in Row /\ row.user = pairings[p].user /\ row.phone = q
      /\ row.status = "completed"
      /\ seat \in SessionRow /\ seat.user = pairings[p].user /\ seat.from = p
      /\ seat.phone = q /\ seat.live
  BY <1>2, <1>3 DEF Row, SessionRow, Statuses
<1>5. pairings' = [pairings EXCEPT ![p] = row] /\ sessions' = Put(sessions, s, seat)
  BY <1>1
<1> HIDE DEF row, seat
<1>6. /\ IsTable(pairings', PairingIds, Row) /\ DOMAIN pairings' = DOMAIN pairings
      /\ \A x \in DOMAIN pairings \ {p} : pairings'[x] = pairings[x]
      /\ pairings'[p] = row
  BY <1>2, <1>4, <1>5 DEF TypeOK, IsTable
<1>7. /\ IsTable(sessions', SessionIds, SessionRow)
      /\ DOMAIN sessions' = DOMAIN sessions \cup {s}
      /\ sessions'[s] = seat
      /\ \A x \in DOMAIN sessions \ {s} : sessions'[x] = sessions[x]
  BY <1>2, <1>4, <1>5 DEF TypeOK, IsTable, Put
<1>8. Opened(s, p, q)
  BY <1>2, <1>4, <1>7 DEF Opened
<1> QED
  BY <1>2, <1>4, <1>6, <1>7, <1>8

\* Deletions and their cascades keep what is left as it was.
LEMMA DeleteMoves ==
    ASSUME TypeOK, NEW P, NEW S, Delete(P, S)
    PROVE  /\ IsTable(pairings', PairingIds, Row) /\ DOMAIN pairings' = DOMAIN pairings \ P
           /\ \A x \in DOMAIN pairings' :
                /\ pairings'[x].user = pairings[x].user
                /\ pairings'[x].phone = pairings[x].phone
                /\ pairings'[x].status = pairings[x].status
           /\ IsTable(sessions', SessionIds, SessionRow)
           /\ DOMAIN sessions' = DOMAIN sessions \ S
           /\ \A s \in DOMAIN sessions' : sessions'[s] = sessions[s]
           /\ consented' \subseteq consented /\ dismissed' \subseteq dismissed
           /\ \A x \in consented \ consented' :
                x[2] \in P /\ \A s \in DOMAIN sessions' : sessions'[s].from # x[2]
<1>1. \A x \in DOMAIN pairings : pairings[x] \in Row
  BY DEF TypeOK, IsTable
<1>2. /\ DOMAIN pairings' = DOMAIN pairings \ P
      /\ \A x \in DOMAIN pairings' :
           /\ pairings'[x] \in Row
           /\ pairings'[x].user = pairings[x].user
           /\ pairings'[x].phone = pairings[x].phone
           /\ pairings'[x].status = pairings[x].status
  BY <1>1 DEF Delete, Row
<1>3. IsTable(pairings', PairingIds, Row)
  BY <1>2 DEF Delete, TypeOK, IsTable
<1>4. /\ IsTable(sessions', SessionIds, SessionRow)
      /\ DOMAIN sessions' = DOMAIN sessions \ S
      /\ \A s \in DOMAIN sessions' : sessions'[s] = sessions[s]
  BY DEF Delete, Drop, TypeOK, IsTable
<1>5. /\ consented' \subseteq consented /\ dismissed' \subseteq dismissed
      /\ \A x \in consented \ consented' :
           x[2] \in P /\ \A s \in DOMAIN sessions' : sessions'[s].from # x[2]
  <2> DEFINE forgotten == P \ {sessions[s].from : s \in DOMAIN sessions'}
  <2>1. /\ consented' = {x \in consented : x[2] \notin forgotten}
        /\ dismissed' = dismissed \ forgotten
    BY DEF Delete
  <2>2. \A i \in forgotten : i \in P /\ \A s \in DOMAIN sessions' : sessions[s].from # i
    OBVIOUS
  <2> HIDE DEF forgotten
  <2>3. consented' \subseteq consented /\ dismissed' \subseteq dismissed
    BY <2>1
  <2>4. \A x \in consented \ consented' : x[2] \in forgotten
    BY <2>1
  <2> QED
    BY <1>4, <2>2, <2>3, <2>4
<1> QED
  BY <1>2, <1>3, <1>4, <1>5

-----------------------------------------------------------------------------
(* The inductive invariant.                                                 *)

\* A pairing is stored under an id nothing names any more (create).
LEMMA CreateMoves ==
    ASSUME TypeOK, NEW u \in Users, Create(u)
    PROVE  \E p \in FreshPairings :
             /\ IsTable(pairings', PairingIds, Row)
             /\ DOMAIN pairings' = DOMAIN pairings \cup {p}
             /\ \A x \in DOMAIN pairings : pairings'[x] = pairings[x]
             /\ pairings'[p].user = u /\ pairings'[p].phone = Nothing
             /\ pairings'[p].status = "pending"
<1>1. PICK at \in 0 .. now, p \in FreshPairings :
         pairings' = Put(pairings, p,
              [user |-> u, status |-> "pending", phone |-> Nothing,
               created |-> at, ends |-> at + Lifetime, session |-> Nothing])
  BY DEF Create
<1> DEFINE row == [user |-> u, status |-> "pending", phone |-> Nothing,
                   created |-> at, ends |-> at + Lifetime, session |-> Nothing]
<1>2. at \in Nat /\ Lifetime \in Nat
  BY PairingAssumption DEF TypeOK, Time
<1>3. /\ row \in Row /\ row.user = u /\ row.phone = Nothing /\ row.status = "pending"
  BY <1>2 DEF Row, Statuses, OpenStatuses
<1>4. pairings' = Put(pairings, p, row)
  BY <1>1
<1>5. p \in PairingIds \ DOMAIN pairings
  BY DEF FreshPairings
<1> HIDE DEF row
<1>6. /\ IsTable(pairings', PairingIds, Row)
      /\ DOMAIN pairings' = DOMAIN pairings \cup {p}
      /\ \A x \in DOMAIN pairings : pairings'[x] = pairings[x]
      /\ pairings'[p] = row
  BY <1>3, <1>4, <1>5 DEF TypeOK, IsTable, Put
<1> QED
  BY <1>3, <1>6

\* Cancelling moves an open row and no other (revoke's second half).
LEMMA RevokeMoves ==
    ASSUME TypeOK, NEW c \in Clients, Revoke(c)
    PROVE  \/ pairings' = pairings /\ sessions' = SignedOut({flight[c].session})
           \/ /\ sessions' = sessions
              /\ \/ pairings' = pairings
                 \/ \E p \in DOMAIN pairings :
                      /\ pairings[p].status \in OpenStatuses
                      /\ pairings' = [pairings EXCEPT ![p].status = "revoked"]
  BY DEF Revoke, Cancelled

\* Steps after which every row and every session is one of before persist them.
LEMMA SoundKept ==
    ASSUME Sound, TypeOK', RowsPersist, SessionsPersist, DOMAIN pairings' \subseteq DOMAIN pairings,
           \A c \in Clients : flight'[c] = flight[c] \/ flight'[c].step # "approve"
    PROVE  Sound'
<1>1. ApprovalsKnow'
  <2> SUFFICES ASSUME NEW c \in Clients, flight'[c].step = "approve",
                      flight'[c].pairing \in DOMAIN pairings'
               PROVE  /\ pairings'[flight'[c].pairing].user = flight'[c].user
                      /\ pairings'[flight'[c].pairing].phone = flight'[c].phone
                      /\ pairings'[flight'[c].pairing].status # "pending"
    BY DEF ApprovalsKnow
  <2>1. flight'[c] = flight[c] /\ flight[c].pairing \in DOMAIN pairings
    OBVIOUS
  <2> QED
    BY <2>1 DEF Sound, ApprovalsKnow, RowsPersist
<1>2. SessionsAreCompleted' /\ OneSessionPerPairing'
  BY DEF Sound, SessionsAreCompleted, OneSessionPerPairing, SessionsPersist, RowsPersist
<1>3. AskedByAPhone'
  BY DEF Sound, AskedByAPhone, RowsPersist
<1> QED
  BY <1>1, <1>2, <1>3 DEF Sound

\* Rows and sessions that are not touched persist.
LEMMA SamePersist ==
    /\ pairings' = pairings => RowsPersist /\ DOMAIN pairings' \subseteq DOMAIN pairings
    /\ sessions' = sessions => SessionsPersist
  BY DEF RowsPersist, SessionsPersist

\* Every step keeps the invariant.
LEMMA NextSound == Sound /\ [Next]_vars => Sound'
<1> SUFFICES ASSUME Sound, [Next]_vars PROVE Sound'
  OBVIOUS
<1> TypeOK
  BY DEF Sound
<1>1. CASE Tick
  <2>1. TypeOK'
    BY <1>1, PairingAssumption DEF Tick, TypeOK, Time
  <2> QED
    BY <1>1, <2>1, SamePersist, SoundKept DEF Tick
<1>2. ASSUME NEW u \in Users, Create(u) PROVE Sound'
  <2>1. PICK p \in FreshPairings :
             /\ IsTable(pairings', PairingIds, Row)
             /\ DOMAIN pairings' = DOMAIN pairings \cup {p}
             /\ \A x \in DOMAIN pairings : pairings'[x] = pairings[x]
             /\ pairings'[p].status = "pending"
    BY <1>2, CreateMoves
  <2>2. /\ now' = now /\ account' = account /\ sessions' = sessions /\ flight' = flight
        /\ consented' = consented /\ dismissed' = dismissed
    BY <1>2 DEF Create
  <2>3. TypeOK'
    BY <2>1, <2>2 DEF TypeOK
  <2>4. /\ \A s \in DOMAIN sessions : sessions[s].from # p
        /\ \A c \in Clients : flight[c].step = "approve" => flight[c].pairing # p
    BY DEF FreshPairings, Idle
  <2>5. ApprovalsKnow' /\ AskedByAPhone' /\ SessionsAreCompleted' /\ OneSessionPerPairing'
    BY <2>1, <2>2, <2>4 DEF Sound, ApprovalsKnow, AskedByAPhone, SessionsAreCompleted,
                            OneSessionPerPairing
  <2> QED
    BY <2>3, <2>5 DEF Sound
<1>3. ASSUME NEW p \in PairingIds, NEW q \in Phones, AskToPair(p, q) PROVE Sound'
  <2>1. /\ IsTable(pairings', PairingIds, Row) /\ DOMAIN pairings' = DOMAIN pairings
        /\ p \in DOMAIN pairings /\ pairings[p].status = "pending"
        /\ \A x \in DOMAIN pairings \ {p} : pairings'[x] = pairings[x]
        /\ pairings'[p].user = pairings[p].user /\ pairings'[p].phone = q
    BY <1>3, AskMoves
  <2>2. /\ now' = now /\ account' = account /\ sessions' = sessions /\ flight' = flight
        /\ consented' = consented /\ dismissed' = dismissed
    BY <1>3 DEF AskToPair
  <2>3. TypeOK' /\ RowsPersist
    BY <2>1, <2>2 DEF TypeOK, RowsPersist
  <2> QED
    BY <2>1, <2>2, <2>3, SamePersist, SoundKept
<1>4. ASSUME NEW p \in PairingIds, NEW q \in Phones, Complete(p, q) PROVE Sound'
  <2>1. /\ IsTable(pairings', PairingIds, Row) /\ DOMAIN pairings' = DOMAIN pairings
        /\ p \in DOMAIN pairings /\ pairings[p].status = "approved"
        /\ \A x \in DOMAIN pairings \ {p} : pairings'[x] = pairings[x]
        /\ pairings'[p].user = pairings[p].user /\ pairings'[p].phone = pairings[p].phone
        /\ pairings'[p].status = "completed"
        /\ IsTable(sessions', SessionIds, SessionRow)
    BY <1>4, CompleteMoves
  <2>2. PICK s \in SessionIds \ DOMAIN sessions : Opened(s, p, q)
    BY <1>4, CompleteMoves
  <2>a. /\ DOMAIN sessions' = DOMAIN sessions \cup {s}
        /\ \A x \in DOMAIN sessions : sessions'[x] = sessions[x]
        /\ sessions'[s].from = p
    BY <2>2 DEF Opened
  <2>3. /\ now' = now /\ account' = account /\ flight' = flight
        /\ consented' = consented /\ dismissed' = dismissed
    BY <1>4 DEF Complete
  <2>4. TypeOK'
    BY <2>1, <2>3 DEF TypeOK
  <2>5. \A x \in DOMAIN sessions : sessions[x].from # p
    BY <2>1 DEF Sound, SessionsAreCompleted
  <2>6. ApprovalsKnow' /\ AskedByAPhone'
    BY <2>1, <2>3 DEF Sound, ApprovalsKnow, AskedByAPhone
  <2>7. SessionsAreCompleted'
    BY <2>1, <2>2, <2>a, <2>5 DEF Sound, SessionsAreCompleted
  <2>8. OneSessionPerPairing'
    BY <2>2, <2>a, <2>5 DEF Sound, OneSessionPerPairing
  <2> QED
    BY <2>4, <2>6, <2>7, <2>8 DEF Sound
<1>5. ASSUME NEW c \in Clients, NEW u \in Users, NEW p \in PairingIds, SayYes(c, u, p) PROVE Sound'
  <2>1. /\ p \in DOMAIN pairings /\ pairings[p].user = u
        /\ pairings[p].status = "awaiting_approval"
        /\ flight' = [flight EXCEPT ![c] =
              [step |-> "approve", user |-> u, pairing |-> p, phone |-> pairings[p].phone]]
        /\ now' = now /\ account' = account /\ pairings' = pairings /\ sessions' = sessions
        /\ consented' = consented /\ dismissed' = dismissed
    BY <1>5 DEF SayYes, Owned, Movable
  <2>2. ApprovalsKnow'
    BY <2>1 DEF Sound, TypeOK, ApprovalsKnow
  <2>3. TypeOK'
    BY <1>5, <2>1 DEF Sound, AskedByAPhone, TypeOK, Request, Approving
  <2>4. SessionsAreCompleted' /\ OneSessionPerPairing' /\ AskedByAPhone'
    BY <2>1 DEF Sound, AskedByAPhone, SessionsAreCompleted, OneSessionPerPairing
  <2> QED
    BY <2>2, <2>3, <2>4 DEF Sound
<1>6. ASSUME NEW c \in Clients, NEW u \in Users, NEW p \in PairingIds, SayNo(c, u, p) PROVE Sound'
  <2>1. /\ p \in DOMAIN pairings
        /\ flight' = [flight EXCEPT ![c] =
             [step |-> "revoke", pairing |-> p, status |-> pairings[p].status,
              session |-> pairings[p].session]]
        /\ now' = now /\ account' = account /\ pairings' = pairings /\ sessions' = sessions
        /\ consented' = consented /\ dismissed' = dismissed
    BY <1>6 DEF SayNo, Owned
  <2>2. pairings[p] \in Row
    BY <2>1 DEF TypeOK, IsTable
  <2>3. TypeOK'
    BY <1>6, <2>1, <2>2 DEF TypeOK, Request, Revoking, Row
  <2>4. \A x \in Clients : flight'[x] = flight[x] \/ flight'[x].step # "approve"
    BY <2>1 DEF TypeOK
  <2> QED
    BY <2>1, <2>3, <2>4, SamePersist, SoundKept
<1>7. ASSUME NEW c \in Clients, Approve(c) PROVE Sound'
  <2> DEFINE p == flight[c].pairing
  <2>1. /\ flight[c].step = "approve"
        /\ flight' = [flight EXCEPT ![c] = Idle]
        /\ now' = now /\ account' = account /\ sessions' = sessions /\ dismissed' = dismissed
    BY <1>7 DEF Approve
  <2>2. \A x \in Clients : flight'[x] = flight[x] \/ flight'[x].step # "approve"
    BY <2>1 DEF TypeOK, Idle
  <2>3. flight' \in [Clients -> Request]
    BY <2>1 DEF TypeOK, Request
  <2>4. CASE pairings' = pairings /\ consented' = consented
    <3>1. TypeOK'
      BY <2>1, <2>3, <2>4 DEF TypeOK
    <3> QED
      BY <2>1, <2>2, <2>4, <3>1, SamePersist, SoundKept
  <2>5. CASE /\ p \in DOMAIN pairings /\ pairings[p].status = "awaiting_approval"
             /\ pairings' = [pairings EXCEPT ![p].status = "approved"]
             /\ consented' = consented \cup {<<flight[c].user, p, flight[c].phone>>}
    <3>1. /\ IsTable(pairings', PairingIds, Row) /\ DOMAIN pairings' = DOMAIN pairings
          /\ \A x \in DOMAIN pairings \ {p} : pairings'[x] = pairings[x]
          /\ pairings'[p].user = pairings[p].user /\ pairings'[p].phone = pairings[p].phone
          /\ pairings'[p].status = "approved"
      BY <2>5, StatusMoves DEF Statuses, OpenStatuses
    <3>2. flight[c] \in Approving
      BY <2>1 DEF TypeOK, Request, Idle, Revoking
    <3>3. <<flight[c].user, p, flight[c].phone>> \in Users \X PairingIds \X Phones
      BY <3>2 DEF Approving
    <3>4. TypeOK' /\ RowsPersist
      BY <2>1, <2>3, <2>5, <3>1, <3>3 DEF TypeOK, RowsPersist
    <3> QED
      BY <2>1, <2>2, <3>1, <3>4, SamePersist, SoundKept
  <2> QED
    BY <1>7, <2>4, <2>5 DEF Approve, Movable
<1>8. ASSUME NEW c \in Clients, Revoke(c) PROVE Sound'
  <2>1. /\ flight' = [flight EXCEPT ![c] = Idle]
        /\ now' = now /\ account' = account /\ consented' = consented
        /\ dismissed' = dismissed \cup ({flight[c].pairing} \cap DOMAIN pairings)
    BY <1>8 DEF Revoke
  <2>2. /\ \A x \in Clients : flight'[x] = flight[x] \/ flight'[x].step # "approve"
        /\ flight' \in [Clients -> Request]
    BY <2>1 DEF TypeOK, Idle, Request
  <2>3. dismissed' \subseteq PairingIds
    BY <2>1 DEF TypeOK, IsTable
  <2>4. CASE pairings' = pairings /\ sessions' = SignedOut({flight[c].session})
    <3>1. TypeOK' /\ SessionsPersist
      BY <2>1, <2>2, <2>3, <2>4, SignedOutTable DEF TypeOK, SessionsPersist
    <3> QED
      BY <2>2, <2>4, <3>1, SamePersist, SoundKept
  <2>5. CASE pairings' = pairings /\ sessions' = sessions
    <3>1. TypeOK'
      BY <2>1, <2>2, <2>3, <2>5 DEF TypeOK
    <3> QED
      BY <2>2, <2>5, <3>1, SamePersist, SoundKept
  <2>6. ASSUME NEW p \in DOMAIN pairings, pairings[p].status \in OpenStatuses,
               pairings' = [pairings EXCEPT ![p].status = "revoked"], sessions' = sessions
        PROVE  Sound'
    <3>1. /\ IsTable(pairings', PairingIds, Row) /\ DOMAIN pairings' = DOMAIN pairings
          /\ \A x \in DOMAIN pairings \ {p} : pairings'[x] = pairings[x]
          /\ pairings'[p].user = pairings[p].user /\ pairings'[p].phone = pairings[p].phone
          /\ pairings'[p].status = "revoked"
      BY <2>6, StatusMoves DEF Statuses
    <3>2. TypeOK' /\ RowsPersist
      BY <2>1, <2>2, <2>3, <2>6, <3>1 DEF TypeOK, RowsPersist, OpenStatuses
    <3> QED
      BY <2>2, <2>6, <3>1, <3>2, SamePersist, SoundKept
  <2> QED
    BY <1>8, <2>4, <2>5, <2>6, RevokeMoves
<1>9. ASSUME NEW s \in SessionIds, EndSession(s) PROVE Sound'
  <2>1. TypeOK' /\ SessionsPersist
    BY <1>9, SignedOutTable DEF EndSession, TypeOK, SessionsPersist
  <2> QED
    BY <1>9, <2>1, SamePersist, SoundKept DEF EndSession
<1>10. ASSUME NEW u \in Users, Disable(u) PROVE Sound'
  <2>1. TypeOK' /\ SessionsPersist
    BY <1>10, SignedOutTable DEF Disable, TypeOK, SessionsPersist, Accounts
  <2> QED
    BY <1>10, <2>1, SamePersist, SoundKept DEF Disable
<1>11. ASSUME NEW u \in Users, Enable(u) PROVE Sound'
  <2>1. TypeOK'
    BY <1>11 DEF Enable, TypeOK, Accounts
  <2> QED
    BY <1>11, <2>1, SamePersist, SoundKept DEF Enable
<1>12. ASSUME NEW P, NEW S, Delete(P, S), account' \in [Users -> Accounts],
              now' = now, flight' = flight
       PROVE  Sound'
  <2>1. /\ IsTable(pairings', PairingIds, Row) /\ DOMAIN pairings' = DOMAIN pairings \ P
        /\ \A x \in DOMAIN pairings' :
             /\ pairings'[x].user = pairings[x].user
             /\ pairings'[x].phone = pairings[x].phone
             /\ pairings'[x].status = pairings[x].status
        /\ IsTable(sessions', SessionIds, SessionRow)
        /\ DOMAIN sessions' = DOMAIN sessions \ S
        /\ \A s \in DOMAIN sessions' : sessions'[s] = sessions[s]
        /\ consented' \subseteq consented /\ dismissed' \subseteq dismissed
    BY <1>12, DeleteMoves
  <2>2. TypeOK'
    BY <1>12, <2>1 DEF TypeOK
  <2>3. RowsPersist /\ SessionsPersist
    BY <2>1 DEF RowsPersist, SessionsPersist
  <2> QED
    BY <1>12, <2>1, <2>2, <2>3, SoundKept
<1>13. ASSUME NEW u \in Users, DeleteUser(u) PROVE Sound'
  <2>1. account' \in [Users -> Accounts]
    BY <1>13 DEF DeleteUser, TypeOK, Accounts
  <2> QED
    BY <1>12, <1>13, <2>1 DEF DeleteUser
<1>14. CASE Purge
  BY <1>12, <1>14 DEF Purge, TypeOK
<1>15. CASE UNCHANGED vars
  <2>1. TypeOK'
    BY <1>15 DEF vars, TypeOK
  <2> QED
    BY <1>15, <2>1, SamePersist, SoundKept DEF vars
<1> QED
  BY <1>1, <1>2, <1>3, <1>4, <1>5, <1>6, <1>7, <1>8, <1>9, <1>10, <1>11, <1>13, <1>14, <1>15 DEF Next

\* No pairing, no session and no request at first.
LEMMA InitSound == Init => Sound
<1> SUFFICES ASSUME Init PROVE Sound
  OBVIOUS
<1>1. /\ DOMAIN pairings = {} /\ DOMAIN sessions = {}
      /\ \A c \in Clients : flight[c].step = "idle"
  BY DEF Init, Empty, Idle
<1>2. TypeOK
  BY PairingAssumption DEF Init, TypeOK, Time, Accounts, IsTable, Empty, Request
<1> QED
  BY <1>1, <1>2 DEF Sound, ApprovalsKnow, AskedByAPhone, SessionsAreCompleted, OneSessionPerPairing

\* Every reachable state has its types, for any number of users, codes and phones.
THEOREM PairingTyped == Spec => []TypeOK
<1>1. Sound => TypeOK
  BY DEF Sound
<1> QED
  BY <1>1, InitSound, NextSound, PTL DEF Spec

\* A code connects one phone, once, however many polls race for it (complete).
THEOREM OneSessionEach == Spec => []OneSessionPerPairing
<1>1. Sound => OneSessionPerPairing
  BY DEF Sound
<1> QED
  BY <1>1, InitSound, NextSound, PTL DEF Spec

\* A row that ended revoked never opened a session (transition's expected statuses).
THEOREM RejectedMeansRejected == Spec => []RevokedOpenedNothing
<1>1. Sound => RevokedOpenedNothing
  BY DEF Sound, SessionsAreCompleted, RevokedOpenedNothing
<1> QED
  BY <1>1, InitSound, NextSound, PTL DEF Spec

-----------------------------------------------------------------------------
(* Pairing implements Consent.                                              *)

\* A row's phase follows its status.
LEMMA Phases ==
    /\ DOMAIN Phase = DOMAIN pairings
    /\ \A p \in DOMAIN pairings :
         /\ pairings[p].status = "pending" => Phase[p] = "open"
         /\ pairings[p].status = "awaiting_approval" => Phase[p] = "taken"
         /\ pairings[p].status = "approved" => Phase[p] = "allowed"
         /\ pairings[p].status \in {"completed", "revoked"} => Phase[p] = "over"
  BY DEF Phase

\* Where the rows stay, what Consent sees of them stays.
LEMMA SameRows ==
    pairings' = pairings => Owner' = Owner /\ Phase' = Phase /\ Holder' = Holder
  BY DEF Owner, Phase, Holder, TakenUp

\* Where the sessions stay, the seats stay.
LEMMA SameSeats == sessions' = sessions => Seated' = Seated
  BY DEF Seated

\* Signing sessions out and deleting them only empties seats.
LEMMA SeatsEmpty == SessionsPersist => Seated' \subseteq Seated
<1> SUFFICES ASSUME SessionsPersist, NEW seat \in Seated' PROVE seat \in Seated
  OBVIOUS
<1>1. PICK s \in DOMAIN sessions' :
         sessions'[s].live
           /\ seat = <<sessions'[s].user, sessions'[s].from, sessions'[s].phone, s>>
  BY DEF Seated
<1>2. /\ s \in DOMAIN sessions /\ sessions[s].live
      /\ seat = <<sessions[s].user, sessions[s].from, sessions[s].phone, s>>
  BY <1>1 DEF SessionsPersist
<1> QED
  BY <1>2 DEF Seated

\* Steps that forget nothing but end sessions are a Leave.
LEMMA SessionsLeave ==
    ASSUME pairings' = pairings, consented' = consented, SessionsPersist
    PROVE  Promise!Next
<1>1. Owner' = Owner /\ Phase' = Phase /\ Holder' = Holder /\ Seated' \in SUBSET Seated
  BY SameRows, SeatsEmpty
<1> DEFINE I == {}
<1>2. /\ Owner' = [i \in DOMAIN Owner \ I |-> Owner[i]]
      /\ Phase' = [i \in DOMAIN Phase \ I |-> Phase[i]]
      /\ Holder' = [i \in DOMAIN Holder \ I |-> Holder[i]]
  BY <1>1 DEF Owner, Phase, Holder
<1>3. /\ I \in SUBSET DOMAIN Phase
      /\ consented' \in SUBSET consented
      /\ \A a \in consented \ consented' :
            a[2] \notin DOMAIN Phase' /\ \A seat \in Seated' : seat[2] # a[2]
  OBVIOUS
<1> HIDE DEF I
<1>4. Promise!Leave
  BY <1>1, <1>2, <1>3 DEF Promise!Leave
<1> QED
  BY <1>4 DEF Promise!Next

\* A row of which only the status moves changes its own phase and nothing else.
LEMMA StatusPhase ==
    ASSUME TypeOK, NEW p, p \in DOMAIN pairings, DOMAIN pairings' = DOMAIN pairings,
           \A x \in DOMAIN pairings \ {p} : pairings'[x] = pairings[x],
           pairings'[p].user = pairings[p].user, pairings'[p].phone = pairings[p].phone
    PROVE  /\ Owner' = Owner /\ Holder' = Holder
           /\ Phase' = [Phase EXCEPT ![p] = Phase'[p]]
<1>1. \A x \in DOMAIN pairings :
         pairings'[x].user = pairings[x].user /\ pairings'[x].phone = pairings[x].phone
  OBVIOUS
<1>2. Owner' = Owner
  BY <1>1 DEF Owner
<1>3. TakenUp' = TakenUp
  BY <1>1 DEF TakenUp
<1>4. Holder' = Holder
  BY <1>1, <1>3 DEF Holder, TakenUp
<1>5. Phase' = [Phase EXCEPT ![p] = Phase'[p]]
  BY DEF Phase
<1> QED
  BY <1>2, <1>4, <1>5

\* create is Invite.
LEMMA CreateInvites ==
    ASSUME TypeOK, NEW u \in Users, Create(u)
    PROVE  Promise!Next
<1>1. PICK p \in FreshPairings :
         /\ DOMAIN pairings' = DOMAIN pairings \cup {p}
         /\ \A x \in DOMAIN pairings : pairings'[x] = pairings[x]
         /\ pairings'[p].user = u /\ pairings'[p].phone = Nothing
         /\ pairings'[p].status = "pending"
  BY CreateMoves
<1>2. sessions' = sessions /\ consented' = consented
  BY DEF Create
<1>3. /\ p \in PairingIds \ DOMAIN pairings
      /\ \A s \in DOMAIN sessions : sessions[s].from # p
      /\ \A x \in consented : x[2] # p
  BY DEF FreshPairings
<1>4. Owner' = [x \in DOMAIN Owner \cup {p} |-> IF x = p THEN u ELSE Owner[x]]
  BY <1>1, <1>3 DEF Owner
<1>5. Phase' = [x \in DOMAIN Phase \cup {p} |-> IF x = p THEN "open" ELSE Phase[x]]
  BY <1>1, <1>3 DEF Phase
<1>6. Holder' = Holder
  <2>1. TakenUp' = TakenUp
    BY <1>1, <1>3 DEF TakenUp
  <2> QED
    BY <1>1, <2>1 DEF Holder, TakenUp
<1>7. p \notin DOMAIN Phase /\ \A seat \in Seated : seat[2] # p
  BY <1>3 DEF Phase, Seated
<1>8. Seated' = Seated
  BY <1>2, SameSeats
<1>9. Promise!Invite(p, u)
  BY <1>2, <1>3, <1>4, <1>5, <1>6, <1>7, <1>8 DEF Promise!Invite
<1> QED
  BY <1>3, <1>9 DEF Promise!Next

\* request is TakeUp.
LEMMA AskTakesUp ==
    ASSUME TypeOK, NEW p \in PairingIds, NEW q \in Phones, AskToPair(p, q)
    PROVE  Promise!Next
<1>1. /\ DOMAIN pairings' = DOMAIN pairings
      /\ p \in DOMAIN pairings /\ pairings[p].status = "pending"
      /\ \A x \in DOMAIN pairings \ {p} : pairings'[x] = pairings[x]
      /\ pairings'[p].user = pairings[p].user /\ pairings'[p].phone = q
      /\ pairings'[p].status = "awaiting_approval"
  BY AskMoves
<1>2. sessions' = sessions /\ consented' = consented
  BY DEF AskToPair
<1>3. q # Nothing
  BY PairingAssumption
<1>4. Owner' = Owner
  BY <1>1 DEF Owner
<1>5. Phase' = [Phase EXCEPT ![p] = "taken"]
  BY <1>1 DEF Phase
<1>6. Holder' = [x \in DOMAIN Holder \cup {p} |-> IF x = p THEN q ELSE Holder[x]]
  <2>1. TakenUp' = TakenUp \cup {p}
    BY <1>1, <1>3 DEF TakenUp
  <2> QED
    BY <1>1, <2>1 DEF Holder, TakenUp
<1>7. p \in DOMAIN Phase /\ Phase[p] = "open"
  BY <1>1, Phases
<1>8. Seated' = Seated
  BY <1>2, SameSeats
<1>9. Promise!TakeUp(p, q)
  BY <1>2, <1>4, <1>5, <1>6, <1>7, <1>8 DEF Promise!TakeUp, Promise!In
<1> QED
  BY <1>9 DEF Promise!Next

\* approve is Allow, by the owner and of the phone that is still the row's.
LEMMA ApproveAllows ==
    ASSUME Sound, NEW c \in Clients, Approve(c)
    PROVE  Promise!Next \/ UNCHANGED Promise!vars
<1> DEFINE p == flight[c].pairing
           u == flight[c].user
<1> TypeOK
  BY DEF Sound
<1>1. flight[c].step = "approve" /\ sessions' = sessions
  BY DEF Approve
<1>2. CASE pairings' = pairings /\ consented' = consented
  BY <1>1, <1>2, SameRows, SameSeats DEF Promise!vars
<1>3. CASE /\ p \in DOMAIN pairings /\ pairings[p].status = "awaiting_approval"
           /\ pairings' = [pairings EXCEPT ![p].status = "approved"]
           /\ consented' = consented \cup {<<u, p, flight[c].phone>>}
  <2>1. /\ DOMAIN pairings' = DOMAIN pairings
        /\ \A x \in DOMAIN pairings \ {p} : pairings'[x] = pairings[x]
        /\ pairings'[p].user = pairings[p].user /\ pairings'[p].phone = pairings[p].phone
        /\ pairings'[p].status = "approved"
    BY <1>3, StatusMoves DEF Statuses, OpenStatuses
  <2>2. flight[c] \in Approving
    BY <1>1 DEF TypeOK, Request, Idle, Revoking
  <2>3. u \in Users /\ p \in PairingIds
    BY <2>2 DEF Approving
  <2>4. pairings[p].user = u /\ pairings[p].phone = flight[c].phone /\ pairings[p].phone \in Phones
    BY <1>1, <1>3 DEF Sound, ApprovalsKnow, AskedByAPhone
  <2>5. Owner[p] = u /\ Holder[p] = flight[c].phone
    BY <1>3, <2>4, PairingAssumption DEF Owner, Holder, TakenUp
  <2>6. p \in DOMAIN Phase /\ Phase[p] = "taken"
    BY <1>3, Phases
  <2>7. Owner' = Owner /\ Holder' = Holder /\ Phase' = [Phase EXCEPT ![p] = Phase'[p]]
    BY <1>3, <2>1, StatusPhase
  <2>8. Phase'[p] = "allowed"
    BY <1>3, <2>1 DEF Phase
  <2>9. Seated' = Seated
    BY <1>1, SameSeats
  <2> HIDE DEF p, u
  <2>10. Promise!Allow(p, u)
    BY <1>3, <2>5, <2>6, <2>7, <2>8, <2>9 DEF Promise!Allow, Promise!In, p, u
  <2> QED
    BY <2>3, <2>10 DEF Promise!Next
<1> QED
  BY <1>2, <1>3 DEF Approve, Movable

\* complete is Sit: by the phone that was let in, in a seat nobody has.
LEMMA CompleteSits ==
    ASSUME Sound, NEW p \in PairingIds, NEW q \in Phones, Complete(p, q)
    PROVE  Promise!Next
<1> TypeOK
  BY DEF Sound
<1>1. /\ DOMAIN pairings' = DOMAIN pairings
      /\ p \in DOMAIN pairings /\ pairings[p].status = "approved" /\ pairings[p].phone = q
      /\ \A x \in DOMAIN pairings \ {p} : pairings'[x] = pairings[x]
      /\ pairings'[p].user = pairings[p].user /\ pairings'[p].phone = pairings[p].phone
      /\ pairings'[p].status = "completed"
  BY CompleteMoves
<1>2. PICK s \in SessionIds \ DOMAIN sessions : Opened(s, p, q)
  BY CompleteMoves
<1>a. /\ DOMAIN sessions' = DOMAIN sessions \cup {s}
      /\ \A x \in DOMAIN sessions : sessions'[x] = sessions[x]
      /\ sessions'[s].user = pairings[p].user /\ sessions'[s].from = p
      /\ sessions'[s].phone = q /\ sessions'[s].live
  BY <1>2 DEF Opened
<1>3. consented' = consented
  BY DEF Complete
<1>4. Owner' = Owner /\ Holder' = Holder /\ Phase' = [Phase EXCEPT ![p] = Phase'[p]]
  BY <1>1, StatusPhase
<1>5. Phase'[p] = "over"
  BY <1>1 DEF Phase
<1>6. p \in DOMAIN Phase /\ Phase[p] = "allowed"
  BY <1>1, Phases
<1>7. Owner[p] = pairings[p].user /\ Holder[p] = q
  BY <1>1, PairingAssumption DEF Owner, Holder, TakenUp
<1>8. Seated' = Seated \cup {<<Owner[p], p, Holder[p], s>>}
  <2>1. \A seat : seat \in Seated' <=>
           \E x \in DOMAIN sessions \cup {s} :
              /\ sessions'[x].live
              /\ seat = <<sessions'[x].user, sessions'[x].from, sessions'[x].phone, x>>
    BY <1>a DEF Seated
  <2>2. \A seat : seat \in Seated <=>
           \E x \in DOMAIN sessions :
              /\ sessions[x].live
              /\ seat = <<sessions[x].user, sessions[x].from, sessions[x].phone, x>>
    BY DEF Seated
  <2> QED
    BY <1>2, <1>a, <1>7, <2>1, <2>2
<1>9. \A other \in Seated : other[4] # s
  BY <1>2 DEF Seated
<1>10. Promise!Sit(p, s)
  BY <1>3, <1>4, <1>5, <1>6, <1>8, <1>9 DEF Promise!Sit, Promise!In
<1> QED
  BY <1>2, <1>10 DEF Promise!Next

\* revoke is CallOff, a Leave, or comes too late to change anything.
LEMMA RevokeCallsOff ==
    ASSUME Sound, NEW c \in Clients, Revoke(c)
    PROVE  Promise!Next \/ UNCHANGED Promise!vars
<1> TypeOK
  BY DEF Sound
<1>1. consented' = consented
  BY DEF Revoke
<1>2. CASE pairings' = pairings /\ sessions' = SignedOut({flight[c].session})
  <2>1. SessionsPersist
    BY <1>2, SignedOutTable DEF TypeOK, SessionsPersist
  <2> QED
    BY <1>1, <1>2, <2>1, SessionsLeave
<1>3. CASE pairings' = pairings /\ sessions' = sessions
  BY <1>1, <1>3, SameRows, SameSeats DEF Promise!vars
<1>4. ASSUME NEW p \in DOMAIN pairings, pairings[p].status \in OpenStatuses,
             pairings' = [pairings EXCEPT ![p].status = "revoked"], sessions' = sessions
      PROVE  Promise!Next
  <2>1. /\ DOMAIN pairings' = DOMAIN pairings
        /\ \A x \in DOMAIN pairings \ {p} : pairings'[x] = pairings[x]
        /\ pairings'[p].user = pairings[p].user /\ pairings'[p].phone = pairings[p].phone
        /\ pairings'[p].status = "revoked"
    BY <1>4, StatusMoves DEF Statuses
  <2>2. Owner' = Owner /\ Holder' = Holder /\ Phase' = [Phase EXCEPT ![p] = Phase'[p]]
    BY <2>1, StatusPhase
  <2>3. Phase'[p] = "over"
    BY <2>1 DEF Phase
  <2>4. p \in DOMAIN Phase /\ Phase[p] \in {"open", "taken", "allowed"}
    BY <1>4, Phases DEF OpenStatuses
  <2>5. Seated' = Seated
    BY <1>4, SameSeats
  <2>6. Promise!CallOff(p)
    BY <1>1, <2>2, <2>3, <2>4, <2>5 DEF Promise!CallOff, Promise!In
  <2>7. p \in PairingIds
    BY DEF TypeOK, IsTable
  <2> QED
    BY <2>6, <2>7 DEF Promise!Next
<1> QED
  BY <1>2, <1>3, <1>4, RevokeMoves

\* Deleting users, old pairings and ended sessions is a Leave.
LEMMA DeleteLeaves ==
    ASSUME TypeOK, NEW P, NEW S, Delete(P, S)
    PROVE  Promise!Next
<1>1. /\ DOMAIN pairings' = DOMAIN pairings \ P
      /\ \A x \in DOMAIN pairings' :
           /\ pairings'[x].user = pairings[x].user
           /\ pairings'[x].phone = pairings[x].phone
           /\ pairings'[x].status = pairings[x].status
      /\ DOMAIN sessions' = DOMAIN sessions \ S
      /\ \A s \in DOMAIN sessions' : sessions'[s] = sessions[s]
      /\ consented' \subseteq consented
      /\ \A x \in consented \ consented' :
           x[2] \in P /\ \A s \in DOMAIN sessions' : sessions'[s].from # x[2]
  BY DeleteMoves
<1>2. SessionsPersist
  BY <1>1 DEF SessionsPersist
<1>3. Seated' \in SUBSET Seated
  BY <1>2, SeatsEmpty
<1> DEFINE I == P \cap DOMAIN pairings
<1>4. I \in SUBSET DOMAIN Phase
  BY DEF Phase
<1>5. Owner' = [i \in DOMAIN Owner \ I |-> Owner[i]]
  BY <1>1 DEF Owner
<1>6. Phase' = [i \in DOMAIN Phase \ I |-> Phase[i]]
  BY <1>1 DEF Phase
<1>7. Holder' = [i \in DOMAIN Holder \ I |-> Holder[i]]
  <2>1. TakenUp' = TakenUp \ I
    BY <1>1 DEF TakenUp
  <2> QED
    BY <1>1, <2>1 DEF Holder, TakenUp
<1>8. \A a \in consented \ consented' :
         a[2] \notin DOMAIN Phase' /\ \A seat \in Seated' : seat[2] # a[2]
  <2>1. DOMAIN Phase' = DOMAIN pairings \ P
    BY <1>1 DEF Phase
  <2>2. \A seat \in Seated' : \E s \in DOMAIN sessions' : seat[2] = sessions'[s].from
    BY DEF Seated
  <2> QED
    BY <1>1, <2>1, <2>2
<1>9. consented' \in SUBSET consented
  BY <1>1
<1> HIDE DEF I
<1>10. Promise!Leave
  BY <1>3, <1>4, <1>5, <1>6, <1>7, <1>8, <1>9 DEF Promise!Leave
<1> QED
  BY <1>10 DEF Promise!Next

\* Every step of Pairing is one of Consent, or none that Consent sees.
LEMMA NextKeepsItsPromise == Sound /\ [Next]_vars => [Promise!Next]_(Promise!vars)
<1> SUFFICES ASSUME Sound, [Next]_vars PROVE Promise!Next \/ UNCHANGED Promise!vars
  OBVIOUS
<1> TypeOK
  BY DEF Sound
<1>1. ASSUME pairings' = pairings, sessions' = sessions, consented' = consented
      PROVE  UNCHANGED Promise!vars
  BY <1>1, SameRows, SameSeats DEF Promise!vars
<1>2. CASE Tick
  BY <1>1, <1>2 DEF Tick
<1>3. ASSUME NEW u \in Users, Create(u) PROVE Promise!Next
  BY <1>3, CreateInvites
<1>4. ASSUME NEW u \in Users, Disable(u) PROVE Promise!Next
  <2>1. SessionsPersist
    BY <1>4, SignedOutTable DEF Disable, TypeOK, SessionsPersist
  <2> QED
    BY <1>4, <2>1, SessionsLeave DEF Disable
<1>5. ASSUME NEW u \in Users, Enable(u) PROVE UNCHANGED Promise!vars
  BY <1>1, <1>5 DEF Enable
<1>6. ASSUME NEW u \in Users, DeleteUser(u) PROVE Promise!Next
  BY <1>6, DeleteLeaves DEF DeleteUser
<1>7. ASSUME NEW p \in PairingIds, NEW q \in Phones, AskToPair(p, q) PROVE Promise!Next
  BY <1>7, AskTakesUp
<1>8. ASSUME NEW p \in PairingIds, NEW q \in Phones, Complete(p, q) PROVE Promise!Next
  BY <1>8, CompleteSits
<1>9. ASSUME NEW c \in Clients, NEW u \in Users, NEW p \in PairingIds,
             SayYes(c, u, p) \/ SayNo(c, u, p)
      PROVE  UNCHANGED Promise!vars
  BY <1>1, <1>9 DEF SayYes, SayNo
<1>10. ASSUME NEW c \in Clients, Approve(c) PROVE Promise!Next \/ UNCHANGED Promise!vars
  BY <1>10, ApproveAllows
<1>11. ASSUME NEW c \in Clients, Revoke(c) PROVE Promise!Next \/ UNCHANGED Promise!vars
  BY <1>11, RevokeCallsOff
<1>12. ASSUME NEW s \in SessionIds, EndSession(s) PROVE Promise!Next
  <2>1. SessionsPersist
    BY <1>12, SignedOutTable DEF EndSession, TypeOK, SessionsPersist
  <2> QED
    BY <1>12, <2>1, SessionsLeave DEF EndSession
<1>13. CASE Purge
  BY <1>13, DeleteLeaves DEF Purge
<1>14. CASE UNCHANGED vars
  BY <1>1, <1>14 DEF vars
<1> QED
  BY <1>2, <1>3, <1>4, <1>5, <1>6, <1>7, <1>8, <1>9, <1>10, <1>11, <1>12, <1>13, <1>14 DEF Next

\* Whoever is connected is the phone its owner saw and said yes to, in that order:
\* for any number of users, phones, codes and requests, Pairing implements Consent.
THEOREM PairingConsents == Spec => KeepsItsPromise
<1>1. Init => Promise!Init
  BY DEF Init, Empty, Promise!Init, Promise!Nobody, Owner, Phase, Holder, TakenUp, Seated
<1> QED
  BY <1>1, InitSound, NextSound, NextKeepsItsPromise, PTL DEF Spec, KeepsItsPromise, Promise!Spec
=============================================================================

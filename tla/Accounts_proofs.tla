--------------------------- MODULE Accounts_proofs ---------------------------
(***************************************************************************)
(* Proofs about Accounts: the types, that a session is of a user who may    *)
(* use it, that whom an administrator disabled stays out, that the last     *)
(* administrator stays, and that a reconciliation settles what it was told; *)
(* and about the two ways in: that the caps of the handles hold, and that   *)
(* what the cap on passwords leaks is bounded, both stated of MCSignIn for  *)
(* every value of its constants.                                            *)
(***************************************************************************)
EXTENDS Accounts, MCSignIn, FiniteSetTheorems, WellFoundedInduction, TLAPS

\* The inductive invariant: the types, and a session for nobody who is disabled
\* or unlinked.
Sound == TypeOK /\ SeatedAreUsable

-----------------------------------------------------------------------------
(* What the operators keep.                                                 *)

\* Every account is of a server, and NULL is none of them.
LEMMA Accounts ==
    /\ \A a \in People : Home[a] \in Servers
    /\ None \notin People /\ None \notin Servers
    /\ Founder \in People
  BY AccountsAssumption DEF People, Home

\* A row of a new user, of a sign-in, of an administrator's request, of a
\* replaced server and of the reconciliation is a row.
LEMMA RowsAreRows ==
    /\ \A a \in People, admin \in BOOLEAN : NewUser(a, admin) \in User
    /\ \A user \in User, admin \in BOOLEAN : Refreshed(user, admin) \in User
    /\ \A user \in User, update \in Update : Changed(user, update) \in User
    /\ \A user \in User : Unlinked(user) \in User
    /\ \A user \in User : \A list : Reconciled(user, list) \in User
<1>1. \A a \in People, admin \in BOOLEAN : NewUser(a, admin) \in User
  BY DEF NewUser, User, Reasons
<1>2. \A user \in User, admin \in BOOLEAN : Refreshed(user, admin) \in User
  BY DEF Refreshed, User, Reasons
<1>3. ASSUME NEW user \in User, NEW update \in Update PROVE Changed(user, update) \in User
  <2> DEFINE toggled == /\ update.enabled # "kept"
                        /\ user.enabled # (update.enabled = "yes")
             enabled == IF toggled THEN ~user.enabled ELSE user.enabled
             reason == IF ~toggled THEN user.reason ELSE IF user.enabled THEN "admin" ELSE "none"
             promoted == IF update.role = "kept" THEN user.promoted ELSE update.role = "admin"
             msadmin == user.msadmin /\ update.role # "user"
  <2>1. Changed(user, update) =
          [user EXCEPT !.enabled = enabled, !.reason = reason, !.promoted = promoted,
                       !.msadmin = msadmin]
    BY DEF Changed
  <2>2. enabled \in BOOLEAN /\ promoted \in BOOLEAN /\ msadmin \in BOOLEAN
    BY DEF User
  <2>3. reason \in Reasons
    BY DEF User, Reasons
  <2> HIDE DEF enabled, reason, promoted, msadmin
  <2> QED
    BY <2>1, <2>2, <2>3 DEF User
<1>4. \A user \in User : Unlinked(user) \in User
  BY DEF Unlinked, User, Reasons
<1>5. \A user \in User : \A list : Reconciled(user, list) \in User
  BY DEF Reconciled, User, Reasons
<1> QED
  BY <1>1, <1>2, <1>3, <1>4, <1>5

\* An id that is free is one nobody has.
LEMMA UnusedIsFree ==
    ASSUME NEW r \in Unused(users)
    PROVE  r \in Rows /\ r \notin DOMAIN users
  BY DEF Unused

-----------------------------------------------------------------------------
(* The type invariant.                                                      *)

\* The founder is the first user, and signed in.
LEMMA InitTypeOK == Init => TypeOK
<1> SUFFICES ASSUME Init PROVE TypeOK
  OBVIOUS
<1> DEFINE r == CHOOSE q \in Rows : TRUE
<1>1. r \in Rows
  BY AccountsAssumption
<1> HIDE DEF r
<1>2. NewUser(Founder, TRUE) \in User
  BY Accounts, RowsAreRows
<1>3. IsTable(Empty, Rows, User)
  BY DEF IsTable, Empty
<1>4. users = Put(Empty, r, NewUser(Founder, TRUE)) /\ seated = {r}
  BY DEF Init, r
<1>5. IsTable(users, Rows, User)
  BY <1>1, <1>2, <1>3, <1>4, PutTable
<1>6. seated \subseteq DOMAIN users
  BY <1>4 DEF Put
<1>7. there \in [People -> Standings] /\ changes \in 0 .. MaxChanges
  BY AccountsAssumption DEF Init, Standings
<1>8. flight \in [Clients -> Request]
  BY DEF Init, Request, Idle
<1> QED
  BY <1>5, <1>6, <1>7, <1>8, Accounts DEF Init, TypeOK, Quiet

\* Every step writes values of the columns' types.
LEMMA NextTypeOK == TypeOK /\ [Next]_vars => TypeOK'
<1> SUFFICES ASSUME TypeOK, [Next]_vars PROVE TypeOK'
  OBVIOUS
<1>0. /\ IsTable(users, Rows, User) /\ \A r \in DOMAIN users : r \in Rows /\ users[r] \in User
      /\ flight \in [Clients -> Request]
      /\ seated \subseteq DOMAIN users /\ told \subseteq DOMAIN users
  BY DEF TypeOK, IsTable
<1>a. ASSUME NEW c \in Clients, NEW asked \in Request, Becomes(c, asked)
      PROVE  flight' \in [Clients -> Request]
  BY <1>0, <1>a DEF Becomes
<1>b. Idle \in Request
  BY DEF Request
<1>1. ASSUME NEW a \in People, NEW standing \in Standings, Change(a, standing) PROVE TypeOK'
  BY <1>1, AccountsAssumption DEF Change, TypeOK
<1>2. ASSUME NEW c \in Clients, NEW a \in People, Prove(c, a) PROVE TypeOK'
  <2>1. [step |-> "proved", who |-> a, admin |-> there[a] = "admin"] \in Request
    BY DEF Request
  <2>2. flight' \in [Clients -> Request]
    BY <1>2, <1>a, <2>1 DEF Prove
  <2> QED
    BY <1>2, <2>2 DEF Prove, TypeOK, outside
<1>3. ASSUME NEW c \in Clients, NEW r \in DOMAIN users, Ask(c, r) PROVE TypeOK'
  <2>1. users[r].msadmin \in BOOLEAN
    BY <1>0 DEF User
  <2>2. [step |-> "asked", msadmin |-> users[r].msadmin] \in Request
    BY <2>1 DEF Request
  <2>3. flight' \in [Clients -> Request]
    BY <1>3, <1>a, <2>2 DEF Ask
  <2> QED
    BY <1>3, <2>3 DEF Ask, TypeOK, outside
<1>4. ASSUME NEW c \in Clients, NEW r \in DOMAIN users, AskToLeave(c, r) PROVE TypeOK'
  <2>1. [step |-> "leaving", row |-> r] \in Request
    BY <1>0 DEF Request
  <2>2. flight' \in [Clients -> Request]
    BY <1>4, <1>a, <2>1 DEF AskToLeave
  <2> QED
    BY <1>4, <2>2 DEF AskToLeave, TypeOK, outside
<1>5. ASSUME NEW c \in Clients, NEW r \in DOMAIN users, SignOutUser(c, r) PROVE TypeOK'
  <2>1. flight' \in [Clients -> Request]
    BY <1>5, <1>a, <1>b DEF SignOutUser
  <2> QED
    BY <1>5, <2>1 DEF SignOutUser, TypeOK, outside
<1>6. ASSUME NEW c \in Clients, NEW r \in DOMAIN users, NEW update \in Update,
             UpdateUser(c, r, update)
      PROVE  TypeOK'
  <2>1. flight' \in [Clients -> Request]
    BY <1>6, <1>a, <1>b DEF UpdateUser
  <2>2. Changed(users[r], update) \in User
    BY <1>0, RowsAreRows
  <2>3. users' = [users EXCEPT ![r] = Changed(users[r], update)]
    BY <1>6 DEF UpdateUser
  <2>4. IsTable(users', Rows, User) /\ DOMAIN users' = DOMAIN users
    BY <1>0, <2>2, <2>3 DEF IsTable
  <2>5. seated' \subseteq seated /\ told' \subseteq told \cup {r}
    BY <1>6 DEF UpdateUser
  <2> QED
    BY <1>0, <1>6, <2>1, <2>4, <2>5 DEF UpdateUser, TypeOK, outside
<1>7. ASSUME NEW c \in Clients, Link(c) PROVE TypeOK'
  <2>1. flight' \in [Clients -> Request]
    BY <1>7, <1>a, <1>b DEF Link
  <2>2. flight[c].who \in People /\ flight[c].admin \in BOOLEAN
    BY <1>0, <1>7 DEF Link, Request, Idle
  <2> DEFINE new == NewUser(flight[c].who, flight[c].admin)
  <2>3. CASE \E r \in Unused(users) : users' = Put(users, r, new) /\ seated' = seated \cup {r}
    <3>1. PICK r \in Unused(users) : users' = Put(users, r, new) /\ seated' = seated \cup {r}
      BY <2>3
    <3>2. r \in Rows /\ new \in User
      BY <2>2, RowsAreRows, UnusedIsFree
    <3> HIDE DEF new
    <3>3. IsTable(users', Rows, User)
      BY <1>0, <3>1, <3>2, PutTable
    <3>4. DOMAIN users' = DOMAIN users \cup {r}
      BY <3>1 DEF Put
    <3>5. seated' \subseteq DOMAIN users' /\ told \subseteq DOMAIN users'
      BY <1>0, <3>1, <3>4
    <3> QED
      BY <1>7, <2>1, <3>3, <3>5 DEF Link, TypeOK, outside
  <2>4. CASE \E r \in RowsOf(flight[c].who) :
               /\ users' = [users EXCEPT ![r] = Refreshed(users[r], flight[c].admin)]
               /\ seated' = seated \cup {r}
    <3>1. PICK r \in DOMAIN users :
               /\ users' = [users EXCEPT ![r] = Refreshed(users[r], flight[c].admin)]
               /\ seated' = seated \cup {r}
      BY <2>4 DEF RowsOf
    <3>2. Refreshed(users[r], flight[c].admin) \in User
      BY <1>0, <2>2, RowsAreRows
    <3>3. IsTable(users', Rows, User) /\ DOMAIN users' = DOMAIN users
      BY <1>0, <3>1, <3>2 DEF IsTable
    <3>4. seated' \subseteq DOMAIN users' /\ told \subseteq DOMAIN users'
      BY <1>0, <3>1, <3>3
    <3> QED
      BY <1>7, <2>1, <3>3, <3>4 DEF Link, TypeOK, outside
  <2> QED
    BY <1>7, <2>3, <2>4 DEF Link
<1>8. ASSUME NEW c \in Clients, Refuse(c) PROVE TypeOK'
  <2>1. flight' \in [Clients -> Request]
    BY <1>8, <1>a, <1>b DEF Refuse
  <2> QED
    BY <1>8, <2>1 DEF Refuse, TypeOK, outside
<1>9. ASSUME NEW c \in Clients, DeleteUser(c) PROVE TypeOK'
  <2>1. flight' \in [Clients -> Request]
    BY <1>9, <1>a, <1>b DEF DeleteUser
  <2>2. /\ users' = Drop(users, {flight[c].row})
        /\ seated' = seated \ {flight[c].row}
        /\ told' = told \ {flight[c].row}
    BY <1>9 DEF DeleteUser
  <2>3. IsTable(users', Rows, User) /\ DOMAIN users' = DOMAIN users \ {flight[c].row}
    BY <1>0, <2>2 DEF IsTable, Drop
  <2>4. seated' \subseteq DOMAIN users' /\ told' \subseteq DOMAIN users'
    BY <1>0, <2>2, <2>3
  <2> QED
    BY <1>9, <2>1, <2>3, <2>4 DEF DeleteUser, TypeOK, outside
<1>10. ASSUME NEW r \in DOMAIN users, SignOut(r) PROVE TypeOK'
  BY <1>10 DEF SignOut, TypeOK, outside
<1>11. ASSUME NEW r \in DOMAIN users, NEW s \in Servers, AskToSave(r, s) PROVE TypeOK'
  BY <1>11 DEF AskToSave, TypeOK, outside
<1>12. CASE Store
  <2>1. connected' \in Servers /\ saving' = None
    BY <1>12 DEF Store, TypeOK
  <2>2. /\ IsTable(users', Rows, User) /\ DOMAIN users' = DOMAIN users
        /\ seated' \subseteq seated
    <3>1. CASE UNCHANGED <<users, seated>>
      BY <1>0, <3>1
    <3>2. CASE users' = [r \in DOMAIN users |-> Unlinked(users[r])] /\ seated' = {}
      BY <1>0, <3>2, RowsAreRows DEF IsTable
    <3> QED
      BY <1>12, <3>1, <3>2 DEF Store
  <2> QED
    BY <1>0, <1>12, <2>1, <2>2 DEF Store, TypeOK, outside
<1>13. CASE SaveFails
  BY <1>13 DEF SaveFails, TypeOK, outside
<1>14. CASE List
  <2>1. sync'.step = "listed" /\ DOMAIN sync'.list \subseteq People
    BY <1>14 DEF List, Listed, Roll
  <2> QED
    BY <1>14, <2>1 DEF List, TypeOK, outside
<1>15. CASE Reconcile
  <2>1. users' = [r \in DOMAIN users |-> Reconciled(users[r], sync.list)]
    BY <1>15 DEF Reconcile
  <2>2. \A r \in DOMAIN users : Reconciled(users[r], sync.list) \in User
    BY <1>0, RowsAreRows
  <2>3. IsTable(users', Rows, User) /\ DOMAIN users' = DOMAIN users
    BY <1>0, <2>1, <2>2 DEF IsTable
  <2> QED
    BY <1>0, <1>15, <2>3 DEF Reconcile, TypeOK, outside
<1>16. CASE Restart
  BY <1>16, <1>b DEF Restart, TypeOK, outside
<1>17. CASE UNCHANGED vars
  BY <1>17 DEF vars, TypeOK
<1> QED
  BY <1>1, <1>2, <1>3, <1>4, <1>5, <1>6, <1>7, <1>8, <1>9, <1>10, <1>11, <1>12, <1>13, <1>14,
     <1>15, <1>16, <1>17 DEF Next

\* Every reachable state has its types, for any servers, accounts and requests.
THEOREM AccountsTyped == Spec => []TypeOK
  BY InitTypeOK, NextTypeOK, PTL DEF Spec

-----------------------------------------------------------------------------
(* A session is of a user who may use it.                                   *)

\* What each writer leaves of a user who could sign in, or makes of one who
\* could not.
LEMMA WhoMaySignIn ==
    /\ \A a \in People : \A admin : CanSignIn(NewUser(a, admin))
    /\ \A user \in User : \A admin : user.account # None => CanSignIn(Refreshed(user, admin))
    /\ \A user \in User, update \in Update :
          CanSignIn(user) /\ ~Disables(update) => CanSignIn(Changed(user, update))
    /\ \A user \in User : \A list :
          CanSignIn(user) /\ ~Gone(user, list) => CanSignIn(Reconciled(user, list))
<1>1. \A a \in People : \A admin : CanSignIn(NewUser(a, admin))
  BY Accounts DEF CanSignIn, NewUser
<1>2. \A user \in User : \A admin : user.account # None => CanSignIn(Refreshed(user, admin))
  BY DEF CanSignIn, Refreshed, User
<1>3. ASSUME NEW user \in User, NEW update \in Update, CanSignIn(user), ~Disables(update)
      PROVE  CanSignIn(Changed(user, update))
  BY <1>3 DEF CanSignIn, Disables, Changed, User, Update
<1>4. \A user \in User : \A list :
          CanSignIn(user) /\ ~Gone(user, list) => CanSignIn(Reconciled(user, list))
  BY DEF CanSignIn, Gone, Reconciled, User
<1> QED
  BY <1>1, <1>2, <1>3, <1>4

\* Whatever disables or unlinks a row ends its sessions in the same step.
LEMMA NextSeatedAreUsable == Sound /\ [Next]_vars => SeatedAreUsable'
<1> SUFFICES ASSUME Sound, [Next]_vars PROVE SeatedAreUsable'
  OBVIOUS
<1>0. /\ \A r \in DOMAIN users : r \in Rows /\ users[r] \in User
      /\ flight \in [Clients -> Request]
      /\ seated \subseteq DOMAIN users
      /\ \A r \in seated : CanSignIn(users[r])
  BY DEF Sound, TypeOK, IsTable, SeatedAreUsable
<1>1. ASSUME users' = users, seated' \subseteq seated PROVE SeatedAreUsable'
  <2>1. \A r \in seated' : CanSignIn(users'[r])
    BY <1>0, <1>1
  <2> QED
    BY <2>1 DEF SeatedAreUsable, CanSignIn
<1>2. ASSUME NEW c \in Clients, Link(c) PROVE SeatedAreUsable'
  <2>1. flight[c].who \in People
    BY <1>0, <1>2 DEF Link, Request, Idle
  <2> DEFINE new == NewUser(flight[c].who, flight[c].admin)
  <2>2. CASE \E r \in Unused(users) : users' = Put(users, r, new) /\ seated' = seated \cup {r}
    <3>1. PICK r \in Unused(users) : users' = Put(users, r, new) /\ seated' = seated \cup {r}
      BY <2>2
    <3>2. CanSignIn(new)
      BY <2>1, WhoMaySignIn
    <3> HIDE DEF new
    <3>3. users'[r] = new /\ \A x \in DOMAIN users \ {r} : users'[x] = users[x]
      BY <3>1 DEF Put
    <3>4. \A x \in seated' : CanSignIn(users'[x])
      BY <1>0, <3>1, <3>2, <3>3
    <3> QED
      BY <3>4 DEF SeatedAreUsable, CanSignIn
  <2>3. CASE \E r \in RowsOf(flight[c].who) :
               /\ users' = [users EXCEPT ![r] = Refreshed(users[r], flight[c].admin)]
               /\ seated' = seated \cup {r}
    <3>1. PICK r \in DOMAIN users :
               /\ users[r].account = flight[c].who
               /\ users' = [users EXCEPT ![r] = Refreshed(users[r], flight[c].admin)]
               /\ seated' = seated \cup {r}
      BY <2>3 DEF RowsOf
    <3>2. CanSignIn(Refreshed(users[r], flight[c].admin))
      BY <1>0, <2>1, <3>1, Accounts, WhoMaySignIn
    <3>3. /\ users'[r] = Refreshed(users[r], flight[c].admin)
          /\ \A x \in DOMAIN users \ {r} : users'[x] = users[x]
      BY <3>1
    <3>4. \A x \in seated' : CanSignIn(users'[x])
      BY <1>0, <3>1, <3>2, <3>3
    <3> QED
      BY <3>4 DEF SeatedAreUsable, CanSignIn
  <2> QED
    BY <1>2, <2>2, <2>3 DEF Link
<1>3. ASSUME NEW c \in Clients, NEW r \in DOMAIN users, NEW update \in Update,
             UpdateUser(c, r, update)
      PROVE  SeatedAreUsable'
  <2>1. /\ users'[r] = Changed(users[r], update)
        /\ \A x \in DOMAIN users \ {r} : users'[x] = users[x]
    BY <1>3 DEF UpdateUser
  <2>2. seated' = IF Disables(update) /\ users[r].enabled THEN seated \ {r} ELSE seated
    BY <1>3 DEF UpdateUser
  <2>3. ASSUME r \in seated' PROVE CanSignIn(users'[r])
    <3>1. r \in seated /\ ~Disables(update)
      BY <1>0, <2>2, <2>3 DEF CanSignIn
    <3> QED
      BY <1>0, <2>1, <3>1, WhoMaySignIn
  <2>4. \A x \in seated' : CanSignIn(users'[x])
    BY <1>0, <2>1, <2>2, <2>3
  <2> QED
    BY <2>4 DEF SeatedAreUsable, CanSignIn
<1>4. ASSUME NEW c \in Clients, DeleteUser(c) PROVE SeatedAreUsable'
  <2>1. \A x \in seated' : x \in seated /\ users'[x] = users[x]
    BY <1>0, <1>4 DEF DeleteUser, Drop
  <2>2. \A x \in seated' : CanSignIn(users'[x])
    BY <1>0, <2>1
  <2> QED
    BY <2>2 DEF SeatedAreUsable, CanSignIn
<1>5. CASE Store
  <2>1. CASE users' = users /\ seated' = seated
    BY <1>1, <2>1
  <2>2. CASE seated' = {}
    BY <2>2 DEF SeatedAreUsable
  <2> QED
    BY <1>5, <2>1, <2>2 DEF Store
<1>6. CASE Reconcile
  <2>1. /\ \A x \in DOMAIN users : users'[x] = Reconciled(users[x], sync.list)
        /\ seated' = seated \ Ousted(sync.list)
    BY <1>6 DEF Reconcile
  <2>2. \A x \in seated' : x \in seated /\ ~Gone(users[x], sync.list)
    BY <1>0, <2>1 DEF Ousted, CanSignIn
  <2>3. \A x \in seated' : CanSignIn(users'[x])
    BY <1>0, <2>1, <2>2, WhoMaySignIn
  <2> QED
    BY <2>3 DEF SeatedAreUsable, CanSignIn
<1>7. ASSUME \/ \E a \in People, standing \in Standings : Change(a, standing)
             \/ \E c \in Clients, a \in People : Prove(c, a)
             \/ \E c \in Clients, r \in DOMAIN users :
                   Ask(c, r) \/ AskToLeave(c, r) \/ SignOutUser(c, r)
             \/ \E c \in Clients : Refuse(c)
             \/ \E r \in DOMAIN users : SignOut(r) \/ \E s \in Servers : AskToSave(r, s)
             \/ SaveFails \/ List \/ Restart \/ UNCHANGED vars
      PROVE  users' = users /\ seated' \subseteq seated
  BY <1>7 DEF Change, Prove, Ask, AskToLeave, SignOutUser, Refuse, SignOut, AskToSave, SaveFails,
              List, Restart, vars
<1> QED
  BY <1>1, <1>2, <1>3, <1>4, <1>5, <1>6, <1>7 DEF Next

\* The invariant holds at first.
LEMMA InitSound == Init => Sound
<1> SUFFICES ASSUME Init PROVE SeatedAreUsable
  BY InitTypeOK DEF Sound
<1> DEFINE r == CHOOSE q \in Rows : TRUE
<1>1. users = Put(Empty, r, NewUser(Founder, TRUE)) /\ seated = {r}
  BY DEF Init
<1> HIDE DEF r
<1>2. users[r] = NewUser(Founder, TRUE)
  BY <1>1 DEF Put
<1> QED
  BY <1>1, <1>2, Accounts, WhoMaySignIn DEF SeatedAreUsable

\* And after every step.
LEMMA NextSound == Sound /\ [Next]_vars => Sound'
  BY NextTypeOK, NextSeatedAreUsable DEF Sound

\* Whatever order sign-ins, administrators, replaced servers and the
\* reconciliation come in, a session is of a user who may use it.
THEOREM SessionsAreOfUsers == Spec => []SeatedAreUsable
<1>1. Sound => SeatedAreUsable
  BY DEF Sound
<1> QED
  BY <1>1, InitSound, NextSound, PTL DEF Spec

-----------------------------------------------------------------------------
(* Whom an administrator disabled stays out.                                *)

\* Only the row's own administrator, or its deletion, undoes what is final.
LEMMA FinalStays ==
    ASSUME TypeOK, Next, NEW r \in DOMAIN users, r \in DOMAIN users', Final(r)
    PROVE  Final(r)' \/ \E c \in Clients : flight[c].step = "asked" /\ flight'[c] = Idle
<1>0. /\ users[r] \in User
      /\ flight \in [Clients -> Request]
      /\ ~users[r].enabled /\ users[r].reason \in {"admin", "unlinked"}
  BY DEF TypeOK, IsTable, Final
<1>1. CASE users'[r] = users[r]
  BY <1>0, <1>1 DEF Final
<1>2. ASSUME NEW c \in Clients, Link(c) PROVE users'[r] = users[r]
  <2>1. ~Welcome(users[r])
    BY <1>0 DEF Welcome
  <2>2. CASE \E x \in Unused(users) : users' = Put(users, x, NewUser(flight[c].who, flight[c].admin))
    BY <2>2, UnusedIsFree DEF Put
  <2>3. CASE \E x \in RowsOf(flight[c].who) :
               /\ Welcome(users[x])
               /\ users' = [users EXCEPT ![x] = Refreshed(users[x], flight[c].admin)]
    BY <2>1, <2>3
  <2> QED
    BY <1>2, <2>2, <2>3 DEF Link
<1>3. ASSUME NEW c \in Clients, NEW x \in DOMAIN users, NEW update \in Update,
             UpdateUser(c, x, update)
      PROVE  flight[c].step = "asked" /\ flight'[c] = Idle
  BY <1>0, <1>3 DEF UpdateUser, Becomes
<1>4. ASSUME NEW c \in Clients, DeleteUser(c) PROVE users'[r] = users[r]
  BY <1>4 DEF DeleteUser, Drop
<1>5. CASE Store
  <2>1. CASE users' = [x \in DOMAIN users |-> Unlinked(users[x])]
    BY <1>0, <2>1 DEF Final, Unlinked, User
  <2>2. CASE users' = users
    BY <1>1, <2>2
  <2> QED
    BY <1>5, <2>1, <2>2 DEF Store
<1>6. CASE Reconcile
  <2>1. users'[r] = Reconciled(users[r], sync.list)
    BY <1>6 DEF Reconcile
  <2>2. ~users'[r].enabled /\ users'[r].reason = users[r].reason
    BY <1>0, <2>1 DEF Reconciled, User
  <2> QED
    BY <1>0, <2>2 DEF Final
<1>7. ASSUME \/ \E a \in People, standing \in Standings : Change(a, standing)
             \/ \E c \in Clients, a \in People : Prove(c, a)
             \/ \E c \in Clients, x \in DOMAIN users :
                   Ask(c, x) \/ AskToLeave(c, x) \/ SignOutUser(c, x)
             \/ \E c \in Clients : Refuse(c)
             \/ \E x \in DOMAIN users : SignOut(x) \/ \E s \in Servers : AskToSave(x, s)
             \/ SaveFails \/ List \/ Restart
      PROVE  users'[r] = users[r]
  BY <1>7 DEF Change, Prove, Ask, AskToLeave, SignOutUser, Refuse, SignOut, AskToSave, SaveFails,
              List, Restart
<1> QED
  BY <1>1, <1>2, <1>3, <1>4, <1>5, <1>6, <1>7 DEF Next

\* Only an administrator lets in whom an administrator disabled, or whose media
\* server was replaced (link_user, _disable, unlink_all).
THEOREM Barred == Spec => BarredStayOut
<1>1. TypeOK /\ [Next]_vars =>
        [\A r \in DOMAIN users \cap DOMAIN users' :
            Final(r) => Final(r)' \/ \E c \in Clients : flight[c].step = "asked" /\ flight'[c] = Idle]_vars
  BY FinalStays
<1> QED
  BY <1>1, InitTypeOK, NextTypeOK, PTL DEF Spec, BarredStayOut

-----------------------------------------------------------------------------
(* The last administrator stays.                                            *)

\* If there is more than one of them, there is one besides this one.
LEMMA AnotherOne ==
    ASSUME NEW S, NEW r, Cardinality(S) > 1
    PROVE  \E x \in S : x # r
<1> SUFFICES ASSUME S \subseteq {r} PROVE FALSE
  OBVIOUS
<1>1. IsFiniteSet({r}) /\ Cardinality({r}) = 1
  BY FS_Singleton
<1>2. Cardinality(S) \in Nat /\ Cardinality(S) <= 1
  BY <1>1, FS_Subset, FS_CardinalityType
<1> QED
  BY <1>2

\* An administrator stays one whatever is asked, unless it is demoted or
\* disabled (_changed_values).
LEMMA SparedStays ==
    ASSUME NEW user \in User, NEW update \in Update, user.enabled, IsAdmin(user),
           ~Demotes(update), ~Disables(update)
    PROVE  Changed(user, update).enabled /\ IsAdmin(Changed(user, update))
  BY DEF Demotes, Disables, Changed, IsAdmin, User, Update

\* What an administrator's request, or an account that leaves, does to the
\* enabled administrators.
LEMMA OneIsLeft ==
    ASSUME TypeOK, Next, EnabledAdmins # {},
           NEW c \in Clients, flight[c].step \in {"asked", "leaving"}, flight'[c] = Idle
    PROVE  EnabledAdmins' # {}
<1>0. /\ \A r \in DOMAIN users : users[r] \in User
      /\ flight \in [Clients -> Request]
  BY DEF TypeOK, IsTable
<1>a. flight'[c] # flight[c]
  BY DEF Idle
<1>1. CASE users' = users
  BY <1>1 DEF EnabledAdmins
<1>2. ASSUME NEW x \in DOMAIN users, x \in DOMAIN users',
             users'[x].enabled, IsAdmin(users'[x])
      PROVE  EnabledAdmins' # {}
  BY <1>2 DEF EnabledAdmins, IsAdmin
<1>3. ASSUME NEW d \in Clients, NEW r \in DOMAIN users, NEW update \in Update,
             UpdateUser(d, r, update)
      PROVE  EnabledAdmins' # {}
  <2>1. /\ DOMAIN users' = DOMAIN users
        /\ users'[r] = Changed(users[r], update)
        /\ \A x \in DOMAIN users \ {r} : users'[x] = users[x]
        /\ Allowed(users[r], update, flight[d].msadmin)
    BY <1>3 DEF UpdateUser
  <2>2. CASE \E x \in EnabledAdmins : x # r
    <3>1. PICK x \in EnabledAdmins : x # r
      BY <2>2
    <3>2. x \in DOMAIN users /\ users[x].enabled /\ IsAdmin(users[x])
      BY DEF EnabledAdmins
    <3>3. users'[x] = users[x]
      BY <2>1, <3>1, <3>2
    <3> QED
      BY <1>2, <2>1, <3>2, <3>3
  <2>3. CASE ~\E x \in EnabledAdmins : x # r
    <3>1. r \in EnabledAdmins /\ ~(Cardinality(EnabledAdmins) > 1)
      BY <2>3, AnotherOne
    <3>2. users[r].enabled /\ IsAdmin(users[r])
      BY <3>1 DEF EnabledAdmins
    <3>3. ~Demotes(update) /\ ~Disables(update)
      BY <2>1, <3>1, <3>2 DEF Allowed
    <3>4. users'[r].enabled /\ IsAdmin(users'[r])
      BY <1>0, <2>1, <3>2, <3>3, SparedStays
    <3> QED
      BY <1>2, <2>1, <3>4
  <2> QED
    BY <2>2, <2>3
<1>4. ASSUME NEW d \in Clients, DeleteUser(d) PROVE EnabledAdmins' # {}
  <2> DEFINE r == flight[d].row
  <2>1. /\ r \in EnabledAdmins => Cardinality(EnabledAdmins) > 1
        /\ users' = Drop(users, {r})
    BY <1>4 DEF DeleteUser
  <2> HIDE DEF r
  <2>2. \E x \in EnabledAdmins : x # r
    BY <2>1, AnotherOne
  <2>3. PICK x \in DOMAIN users : x # r /\ users[x].enabled /\ IsAdmin(users[x])
    BY <2>2 DEF EnabledAdmins
  <2>4. x \in DOMAIN users' /\ users'[x] = users[x]
    BY <2>1, <2>3 DEF Drop
  <2> QED
    BY <1>2, <2>3, <2>4
<1>5. ASSUME NEW d \in Clients, Link(d) PROVE FALSE
  <2>1. flight[d].step = "proved" /\ flight' = [flight EXCEPT ![d] = Idle]
    BY <1>5 DEF Link, Becomes
  <2>2. d # c
    BY <2>1
  <2> QED
    BY <1>0, <1>a, <2>1, <2>2
<1>6. ASSUME Store \/ Reconcile PROVE FALSE
  BY <1>a, <1>6 DEF Store, Reconcile
<1>7. ASSUME \/ \E a \in People, standing \in Standings : Change(a, standing)
             \/ \E d \in Clients, a \in People : Prove(d, a)
             \/ \E d \in Clients, x \in DOMAIN users :
                   Ask(d, x) \/ AskToLeave(d, x) \/ SignOutUser(d, x)
             \/ \E d \in Clients : Refuse(d)
             \/ \E x \in DOMAIN users : SignOut(x) \/ \E s \in Servers : AskToSave(x, s)
             \/ SaveFails \/ List \/ Restart
      PROVE  users' = users
  BY <1>7 DEF Change, Prove, Ask, AskToLeave, SignOutUser, Refuse, SignOut, AskToSave, SaveFails,
              List, Restart
<1> QED
  BY <1>1, <1>3, <1>4, <1>5, <1>6, <1>7 DEF Next

\* However many administrators act at once, or leave, they do not take the last
\* enabled one away between them (_check_rules, delete_user).
THEOREM LastOneStays == Spec => LastAdminStays
<1>1. TypeOK /\ [Next]_vars =>
        [(\E c \in Clients : flight[c].step \in {"asked", "leaving"} /\ flight'[c] = Idle)
          /\ EnabledAdmins # {} => EnabledAdmins' # {}]_vars
  BY OneIsLeft
<1> QED
  BY <1>1, InitTypeOK, NextTypeOK, PTL DEF Spec, LastAdminStays

-----------------------------------------------------------------------------
(* A reconciliation settles what it was told.                               *)

\* If the list still holds, nobody it does not know is left signed in, nor an
\* administrator of the media server.
LEMMA ReconciledSettles ==
    ASSUME Sound, Reconcile, sync.list = Roll, NEW r \in DOMAIN users'
    PROVE  /\ r \in seated' => users'[r].account \in DOMAIN Roll
           /\ users'[r].msadmin /\ CanSignIn(users'[r]) => Roll[users'[r].account] = "admin"
<1> DEFINE user == users[r]
<1>1. /\ r \in DOMAIN users /\ users'[r] = Reconciled(user, Roll)
      /\ seated' = seated \ Ousted(Roll)
  BY DEF Reconcile
<1>2. user \in User
  BY <1>1 DEF Sound, TypeOK, IsTable
<1>3. r \in seated => CanSignIn(user)
  BY DEF Sound, SeatedAreUsable
<1>4. users'[r].account = user.account
  BY <1>1, <1>2 DEF Reconciled, User
<1>5. ASSUME r \in seated' PROVE user.account \in DOMAIN Roll
  <2>1. r \in seated /\ ~(user.enabled /\ Gone(user, Roll))
    BY <1>1, <1>5 DEF Ousted
  <2> QED
    BY <1>3, <2>1 DEF CanSignIn, Gone
<1>6. ASSUME users'[r].msadmin, CanSignIn(users'[r]) PROVE Roll[user.account] = "admin"
  <2>1. user.account # None /\ users'[r].enabled
    BY <1>4, <1>6 DEF CanSignIn
  <2>2. CASE Gone(user, Roll)
    BY <1>1, <1>2, <2>1, <2>2 DEF Reconciled, User
  <2>3. CASE ~Gone(user, Roll)
    <3>1. users'[r] = [user EXCEPT !.msadmin = @ /\ Roll[user.account] = "admin"]
      BY <1>1, <2>1, <2>3 DEF Reconciled
    <3> QED
      BY <1>2, <1>6, <3>1 DEF User
  <2> QED
    BY <2>2, <2>3
<1> QED
  BY <1>4, <1>5, <1>6

\* A reconciliation whose list still holds leaves nobody signed in, and no
\* administrator, that the media server does not know as such (UserSync).
THEOREM SyncSettles == Spec => SyncSettlesAccounts
<1>1. Sound /\ [Next]_vars =>
        [sync # Quiet /\ sync.list = Roll /\ sync' = Quiet /\ users' # users =>
           \A r \in DOMAIN users' :
             /\ r \in seated' => users'[r].account \in DOMAIN Roll
             /\ users'[r].msadmin /\ CanSignIn(users'[r]) => Roll[users'[r].account] = "admin"]_vars
  <2> SUFFICES ASSUME Sound, Next, sync # Quiet, sync.list = Roll, sync' = Quiet, users' # users,
                      NEW r \in DOMAIN users'
               PROVE  /\ r \in seated' => users'[r].account \in DOMAIN Roll
                      /\ users'[r].msadmin /\ CanSignIn(users'[r]) => Roll[users'[r].account] = "admin"
    OBVIOUS
  <2>1. ASSUME NEW c \in Clients,
               \/ \E a \in People : Prove(c, a)
               \/ \E x \in DOMAIN users :
                    \/ Ask(c, x) \/ AskToLeave(c, x) \/ SignOutUser(c, x)
                    \/ \E update \in Update : UpdateUser(c, x, update)
        PROVE  sync' = sync
    BY <2>1 DEF Prove, Ask, AskToLeave, SignOutUser, UpdateUser
  <2>a. ASSUME NEW c \in Clients, Link(c) \/ Refuse(c) \/ DeleteUser(c) PROVE sync' = sync
    BY <2>a DEF Link, Refuse, DeleteUser
  <2>b. ASSUME \/ \E a \in People, standing \in Standings : Change(a, standing)
               \/ \E x \in DOMAIN users : SignOut(x) \/ \E s \in Servers : AskToSave(x, s)
               \/ Store \/ SaveFails
        PROVE  sync' = sync
    BY <2>b DEF Change, SignOut, AskToSave, Store, SaveFails
  <2>2. ASSUME List \/ Restart PROVE users' = users
    BY <2>2 DEF List, Restart
  <2>3. Reconcile
    BY <2>1, <2>a, <2>b, <2>2 DEF Next
  <2> QED
    BY <2>3, ReconciledSettles
<1> QED
  BY <1>1, InitSound, NextSound, PTL DEF Spec, SyncSettlesAccounts

-----------------------------------------------------------------------------
(* Handles: the two caps on the registry.                                   *)

\* An object that is in the table: it is known whose it is, and it was not freed.
Owned(o) == {"client", "kind"} \subseteq DOMAIN o /\ o.client \in Callers /\ o.kind # "freed"
\* Nothing of what the caps are about changed.
Same(o, p) == DOMAIN o = DOMAIN p /\ o.client = p.client /\ o.kind = p.kind

\* What a client holds of some handles.
HeldOf(k, hs) == {h \in hs : handle[h].client = k}

\* The inductive invariant: the caps, and what is in the table stands for an object of a client.
CapsInv ==
    /\ Len(handle) \in Nat /\ handle = [h \in 1 .. Len(handle) |-> handle[h]]
    /\ registered \subseteq 1 .. Len(handle)
    /\ \A h \in registered : Owned(handle[h])
    /\ Cardinality(registered) <= MaxTotal
    /\ \A k \in Callers : Cardinality(HeldOf(k, registered)) <= MaxPerClient

\* The modules of this instance count as every module does.
LEMMA SameSizes ==
    ASSUME NEW S
    PROVE  H!Cardinality(S) = Cardinality(S)
  BY DEF H!Cardinality, Cardinality

\* Both caps leave room for one at least.
LEMMA Caps == MaxTotal \in Nat \ {0} /\ MaxPerClient \in Nat \ {0}
  BY HandlesAssumption DEF H!HandlesAssumption

\* A function from 1 to n is as long as n.
LEMMA LengthOf ==
    ASSUME NEW n \in Nat, NEW s, s = [i \in 1 .. n |-> s[i]]
    PROVE  Len(s) = n
<1> DEFINE entries == {s[i] : i \in 1 .. n}
<1>1. s \in [1 .. n -> entries]
  OBVIOUS
<1> HIDE DEF entries
<1>2. s \in Seq(entries)
  BY <1>1
<1> QED
  BY <1>1, <1>2

\* One more in a set.
LEMMA AddsOne ==
    ASSUME NEW those, NEW another, IsFiniteSet(those)
    PROVE  /\ IsFiniteSet(those \cup {another}) /\ Cardinality(those \cup {another}) \in Nat
           /\ Cardinality(those \cup {another}) <= Cardinality(those) + 1
<1>1. /\ IsFiniteSet(those \cup {another})
      /\ Cardinality(those \cup {another}) =
            IF another \in those THEN Cardinality(those) ELSE Cardinality(those) + 1
  BY FS_AddElement
<1>2. Cardinality(those) \in Nat /\ Cardinality(those \cup {another}) \in Nat
  BY <1>1, FS_CardinalityType
<1> QED
  BY <1>1, <1>2

\* Some natural number of a set of them is the least.
LEMMA Least ==
    ASSUME NEW T, T \subseteq Nat, T # {}
    PROVE  \E x \in T : \A y \in T : x <= y
<1> DEFINE R == OpToRel(<, Nat)
<1>1. R = {ss \in Nat \X Nat : ss[1] < ss[2]}
  BY DEF OpToRel
<1>2. IsWellFoundedOn(R, Nat)
  BY NatLessThanWellFounded
<1> HIDE DEF R
<1>3. PICK x \in T : \A y \in T : ~ (<<y, x>> \in R)
  BY <1>2, WFMin
<1>4. ASSUME NEW y \in T PROVE x <= y
  <2>1. x \in Nat /\ y \in Nat
    OBVIOUS
  <2>2. ~ (<<y, x>> \in R)
    BY <1>3
  <2>3. ~ (<<y, x>>[1] < <<y, x>>[2])
    BY <1>1, <2>1, <2>2, Zenon
  <2> QED
    BY <2>1, <2>3
<1> QED
  BY <1>4

\* The registry starts empty.
LEMMA CapsInit == H!Init => CapsInv
<1> SUFFICES ASSUME H!Init PROVE CapsInv
  OBVIOUS
<1>1. handle = <<>> /\ registered = {}
  BY DEF H!Init
<1>2. Len(handle) = 0 /\ handle = [h \in 1 .. 0 |-> handle[h]]
  BY <1>1
<1>3. \A k : HeldOf(k, registered) = {}
  BY <1>1 DEF HeldOf
<1> QED
  BY <1>1, <1>2, <1>3, FS_EmptySet, Caps DEF CapsInv

\* The table is finite, and what is left of it holds no more, of any client.
LEMMA HeldIsFinite ==
    ASSUME CapsInv, NEW hs \in SUBSET registered
    PROVE  /\ IsFiniteSet(registered) /\ Cardinality(registered) \in Nat
           /\ IsFiniteSet(hs) /\ Cardinality(hs) \in Nat /\ Cardinality(hs) <= Cardinality(registered)
           /\ \A k : /\ IsFiniteSet(HeldOf(k, hs)) /\ Cardinality(HeldOf(k, hs)) \in Nat
                     /\ IsFiniteSet(HeldOf(k, registered)) /\ Cardinality(HeldOf(k, registered)) \in Nat
                     /\ Cardinality(HeldOf(k, hs)) <= Cardinality(HeldOf(k, registered))
<1>1. IsFiniteSet(1 .. Len(handle))
  BY FS_Interval DEF CapsInv
<1>2. IsFiniteSet(registered)
  BY <1>1, FS_Subset DEF CapsInv
<1>3. IsFiniteSet(hs) /\ Cardinality(hs) <= Cardinality(registered)
  BY <1>2, FS_Subset
<1>4. ASSUME NEW k
      PROVE  /\ IsFiniteSet(HeldOf(k, hs)) /\ Cardinality(HeldOf(k, hs)) \in Nat
             /\ IsFiniteSet(HeldOf(k, registered)) /\ Cardinality(HeldOf(k, registered)) \in Nat
             /\ Cardinality(HeldOf(k, hs)) <= Cardinality(HeldOf(k, registered))
  <2>1. HeldOf(k, registered) \in SUBSET registered /\ HeldOf(k, hs) \in SUBSET HeldOf(k, registered)
    BY DEF HeldOf
  <2>2. IsFiniteSet(HeldOf(k, registered))
    BY <1>2, <2>1, FS_Subset
  <2>3. IsFiniteSet(HeldOf(k, hs)) /\ Cardinality(HeldOf(k, hs)) <= Cardinality(HeldOf(k, registered))
    BY <2>1, <2>2, FS_Subset
  <2> QED
    BY <2>2, <2>3, FS_CardinalityType
<1> QED
  BY <1>2, <1>3, <1>4, FS_CardinalityType

\* A step that only takes out of the table, and leaves what stays in it with its client.
LEMMA CapsShrink ==
    ASSUME CapsInv, registered' \subseteq registered,
           handle' = [h \in DOMAIN handle |-> handle'[h]],
           \A h \in registered' : Same(handle'[h], handle[h])
    PROVE  CapsInv'
<1>1. DOMAIN handle = 1 .. Len(handle) /\ Len(handle) \in Nat
  BY DEF CapsInv
<1>2. Len(handle') = Len(handle)
  BY <1>1, LengthOf
<1>3. \A h \in registered' : Owned(handle'[h])
  BY DEF CapsInv, Same, Owned
<1>4. Cardinality(registered') <= MaxTotal
  BY HeldIsFinite, Caps DEF CapsInv
<1>5. ASSUME NEW k \in Callers PROVE Cardinality(HeldOf(k, registered)') <= MaxPerClient
  <2>1. HeldOf(k, registered)' = HeldOf(k, registered')
    BY DEF HeldOf, Same
  <2>2. Cardinality(HeldOf(k, registered')) \in Nat
        /\ Cardinality(HeldOf(k, registered)) \in Nat
        /\ Cardinality(HeldOf(k, registered')) <= Cardinality(HeldOf(k, registered))
    BY HeldIsFinite
  <2> QED
    BY <2>1, <2>2, Caps DEF CapsInv
<1> QED
  BY <1>1, <1>2, <1>3, <1>4, <1>5 DEF CapsInv

\* Whoever may be evicted, one of them holds the most; and the handle that goes is in the table.
LEMMA VictimIsHeld ==
    ASSUME CapsInv, NEW c \in Callers, NEW hs \in SUBSET registered, H!Candidates(c, hs) # {}
    PROVE  H!Victim(c, hs) \in hs
<1>1. hs \subseteq Nat /\ MaxPerClient \in Nat
  BY Caps DEF CapsInv
<1>2. ASSUME NEW k \in H!Candidates(c, hs)
      PROVE  /\ k \in Callers /\ \E h \in hs : handle[h].client = k
             /\ H!Count(k, hs) \in Nat /\ H!Count(k, hs) <= MaxPerClient
  <2>1. \E h \in hs : handle[h].client = k
    BY DEF H!Candidates
  <2>2. k \in Callers
    BY <2>1 DEF CapsInv, Owned
  <2>3. H!Count(k, hs) = Cardinality(HeldOf(k, hs))
    BY SameSizes DEF H!Count, H!HeldBy, HeldOf
  <2>4. /\ Cardinality(HeldOf(k, hs)) \in Nat /\ Cardinality(HeldOf(k, registered)) \in Nat
        /\ Cardinality(HeldOf(k, hs)) <= Cardinality(HeldOf(k, registered))
    BY HeldIsFinite
  <2>5. Cardinality(HeldOf(k, registered)) <= MaxPerClient
    BY <2>2 DEF CapsInv
  <2> QED
    BY <1>1, <2>1, <2>2, <2>3, <2>4, <2>5
<1> DEFINE spare == {MaxPerClient - H!Count(k, hs) : k \in H!Candidates(c, hs)}
<1>3. spare \subseteq Nat /\ spare # {}
  BY <1>1, <1>2
<1>4. PICK least \in spare : \A other \in spare : least <= other
  BY <1>3, Least
<1>5. PICK k \in H!Candidates(c, hs) : least = MaxPerClient - H!Count(k, hs)
  OBVIOUS
<1>6. k \in H!Greediest(c, hs)
  <2> SUFFICES ASSUME NEW other \in H!Candidates(c, hs)
               PROVE  H!Count(other, hs) <= H!Count(k, hs)
    BY DEF H!Greediest
  <2>1. MaxPerClient - H!Count(other, hs) \in spare
    OBVIOUS
  <2>2. least <= MaxPerClient - H!Count(other, hs)
    BY <1>4, <2>1
  <2>3. H!Count(other, hs) \in Nat /\ H!Count(k, hs) \in Nat
    BY <1>2
  <2> QED
    BY <1>1, <1>5, <2>2, <2>3
<1> HIDE DEF spare
<1> DEFINE theirs == {h \in hs : handle[h].client \in H!Greediest(c, hs)}
<1>7. theirs \subseteq Nat /\ theirs # {}
  BY <1>1, <1>2, <1>6
<1>8. \E h \in theirs : \A other \in theirs : h <= other
  BY <1>7, Least
<1>9. H!Victim(c, hs) \in theirs
  BY <1>8 DEF H!Victim, H!Min
<1> QED
  BY <1>9

\* A creation takes its slot only where the client's cap allows it, and where the table's cap
\* does not, somebody else's handle goes first.
LEMMA ReserveKeepsCaps ==
    ASSUME CapsInv, NEW f \in Flows, NEW c \in Callers, NEW kind \in H!Kinds, NEW purpose \in H!Purposes,
           H!Reserve(f, c, kind, purpose)
    PROVE  CapsInv'
<1> DEFINE new == Len(handle) + 1
           remaining == H!Remaining
           evicted == H!Evicted(c, remaining)
           made == H!NewHandle(c, kind, purpose)
           hs == Append(handle, made)
<1>1. /\ registered' = (remaining \ evicted) \cup {new}
      /\ H!CapsAllow(c, remaining)
      /\ handle' = [h \in DOMAIN hs |-> IF h \in H!Held' THEN hs[h] ELSE H!Freed]
  BY DEF H!Reserve, H!Become
<1>2. registered' \subseteq H!Held'
  BY DEF H!Held
<1>3. Owned(made) /\ made.client = c
  BY DEF H!NewHandle, Owned, H!Kinds
<1> HIDE DEF made
<1>4. /\ Len(handle) \in Nat /\ DOMAIN handle = 1 .. Len(handle) /\ new \notin registered
      /\ remaining \in SUBSET registered /\ registered \subseteq 1 .. Len(handle)
  BY DEF CapsInv, H!Remaining
<1>5. /\ DOMAIN hs = 1 .. new /\ hs[new] = made
      /\ \A h \in 1 .. Len(handle) : hs[h] = handle[h]
  <2> DEFINE entries == {handle[h] : h \in 1 .. Len(handle)} \cup {made}
  <2>1. handle \in [1 .. Len(handle) -> entries]
    BY DEF CapsInv
  <2> HIDE DEF entries
  <2>2. handle \in Seq(entries)
    BY <1>4, <2>1
  <2>3. made \in entries
    BY DEF entries
  <2> QED
    BY <1>4, <2>2, <2>3
<1> HIDE DEF hs, remaining
<1>6. Len(handle') = new /\ handle' = [h \in 1 .. new |-> handle'[h]]
  <2>1. handle' = [h \in 1 .. new |-> handle'[h]] /\ new \in Nat
    BY <1>1, <1>4, <1>5
  <2> QED
    BY <2>1, LengthOf
<1>7. \A h \in registered' : Same(handle'[h], IF h = new THEN made ELSE handle[h])
  <2> SUFFICES ASSUME NEW h \in registered' PROVE Same(handle'[h], IF h = new THEN made ELSE handle[h])
    OBVIOUS
  <2>1. h \in 1 .. new /\ hs[h] = (IF h = new THEN made ELSE handle[h]) /\ Owned(hs[h])
    BY <1>1, <1>3, <1>4, <1>5 DEF CapsInv
  <2>2. handle'[h] = hs[h]
    BY <1>1, <1>2, <1>5, <2>1
  <2> QED
    BY <2>1, <2>2 DEF Same, Owned
<1>8. /\ registered' \subseteq 1 .. new
      /\ \A h \in registered' : Owned(handle'[h])
  BY <1>1, <1>3, <1>4, <1>7 DEF CapsInv, Same, Owned
<1>9. Cardinality(registered') <= MaxTotal
  <2>1. /\ IsFiniteSet(remaining) /\ Cardinality(remaining) \in Nat
        /\ Cardinality(remaining) <= MaxTotal
    BY <1>4, HeldIsFinite, Caps DEF CapsInv
  <2>2. CASE Cardinality(remaining) < MaxTotal
    <3>1. registered' = remaining \cup {new}
      BY <1>1, <2>1, <2>2, SameSizes, Caps DEF H!Evicted
    <3>2. /\ Cardinality(remaining \cup {new}) \in Nat
          /\ Cardinality(remaining \cup {new}) <= Cardinality(remaining) + 1
      BY <2>1, AddsOne
    <3> QED
      BY <2>1, <2>2, <3>1, <3>2, Caps
  <2>3. CASE ~(Cardinality(remaining) < MaxTotal)
    <3>1. evicted = {H!Victim(c, remaining)}
      BY <2>1, <2>3, SameSizes, Caps DEF H!Evicted
    <3>2. H!Victim(c, remaining) \in remaining
      BY <1>1, <1>4, <2>3, SameSizes, VictimIsHeld DEF H!CapsAllow
    <3>3. /\ IsFiniteSet(remaining \ evicted)
          /\ Cardinality(remaining \ evicted) = Cardinality(remaining) - 1
      BY <2>1, <3>1, <3>2, FS_RemoveElement
    <3>4. /\ Cardinality((remaining \ evicted) \cup {new}) \in Nat
          /\ Cardinality((remaining \ evicted) \cup {new}) <= Cardinality(remaining \ evicted) + 1
      BY <3>3, AddsOne
    <3> HIDE DEF evicted
    <3> QED
      BY <1>1, <2>1, <3>3, <3>4, Caps
  <2> QED
    BY <2>2, <2>3
<1>10. ASSUME NEW k \in Callers PROVE Cardinality(HeldOf(k, registered)') <= MaxPerClient
  <2>1. /\ IsFiniteSet(HeldOf(k, remaining)) /\ Cardinality(HeldOf(k, remaining)) \in Nat
        /\ Cardinality(HeldOf(k, registered)) \in Nat
        /\ Cardinality(HeldOf(k, remaining)) <= Cardinality(HeldOf(k, registered))
        /\ Cardinality(HeldOf(k, registered)) <= MaxPerClient
    BY <1>4, HeldIsFinite DEF CapsInv
  <2>2. CASE k # c
    <3>1. HeldOf(k, registered)' \in SUBSET HeldOf(k, remaining)
      BY <1>1, <1>3, <1>7, <2>2 DEF HeldOf, Same
    <3>2. /\ Cardinality(HeldOf(k, registered)') <= Cardinality(HeldOf(k, remaining))
          /\ Cardinality(HeldOf(k, registered)') \in Nat
      BY <2>1, <3>1, FS_Subset, FS_CardinalityType
    <3> QED
      BY <2>1, <3>2, Caps
  <2>3. CASE k = c
    <3>1. HeldOf(k, registered)' \in SUBSET (HeldOf(k, remaining) \cup {new})
      BY <1>1, <1>3, <1>7, <2>3 DEF HeldOf, Same
    <3>2. /\ IsFiniteSet(HeldOf(k, remaining) \cup {new})
          /\ Cardinality(HeldOf(k, remaining) \cup {new}) <= Cardinality(HeldOf(k, remaining)) + 1
          /\ Cardinality(HeldOf(k, remaining) \cup {new}) \in Nat
      BY <2>1, AddsOne
    <3>3. /\ Cardinality(HeldOf(k, registered)') <= Cardinality(HeldOf(k, remaining) \cup {new})
          /\ Cardinality(HeldOf(k, registered)') \in Nat
      BY <3>1, <3>2, FS_Subset, FS_CardinalityType
    <3>4. Cardinality(HeldOf(k, remaining)) < MaxPerClient
      <4>1. H!Count(k, remaining) = Cardinality(HeldOf(k, remaining))
        BY SameSizes DEF H!Count, H!HeldBy, HeldOf
      <4> QED
        BY <1>1, <2>3, <4>1 DEF H!CapsAllow
    <3> QED
      BY <2>1, <3>2, <3>3, <3>4, Caps
  <2> QED
    BY <2>2, <2>3
<1> QED
  BY <1>4, <1>6, <1>8, <1>9, <1>10 DEF CapsInv

\* What becomes of the objects hs: those still in the table keep what they are.
LEMMA Becoming ==
    ASSUME CapsInv, registered' \subseteq registered,
           NEW hs, DOMAIN hs = DOMAIN handle,
           \A h \in registered : Same(hs[h], handle[h]),
           handle' = [h \in DOMAIN hs |-> IF h \in H!Held' THEN hs[h] ELSE H!Freed]
    PROVE  CapsInv'
<1>1. registered' \subseteq H!Held'
  BY DEF H!Held
<1>2. handle' = [h \in DOMAIN handle |-> handle'[h]]
  OBVIOUS
<1>3. ASSUME NEW h \in registered' PROVE Same(handle'[h], handle[h])
  <2>1. handle'[h] = hs[h]
    BY <1>1 DEF CapsInv
  <2>2. Owned(handle[h]) /\ Same(hs[h], handle[h])
    BY DEF CapsInv
  <2> QED
    BY <2>1, <2>2 DEF Same, Owned
<1> QED
  BY <1>2, <1>3, CapsShrink

\* Only a creation adds to the table.
LEMMA CapsNext == CapsInv /\ H!Next => CapsInv'
<1> SUFFICES ASSUME CapsInv, H!Next PROVE CapsInv'
  OBVIOUS
<1> DEFINE Left(hs) == [h \in DOMAIN hs |-> IF h \in H!Held' THEN hs[h] ELSE H!Freed]
           Kept(hs) == DOMAIN hs = DOMAIN handle /\ \A h \in registered : Same(hs[h], handle[h])
<1>1. /\ H!Remaining \subseteq registered
      /\ \A h \in registered : Owned(handle[h]) /\ h \in DOMAIN handle
      /\ handle = [h \in DOMAIN handle |-> handle[h]]
  BY DEF H!Remaining, CapsInv
<1>2. ASSUME NEW hs, registered' \subseteq registered, handle' = Left(hs), Kept(hs) PROVE CapsInv'
  BY <1>2, Becoming
<1>3. Kept(handle)
  BY DEF Same
<1>4. ASSUME H!Become(handle), registered' \subseteq registered PROVE CapsInv'
  <2>1. handle' = Left(handle)
    BY <1>4 DEF H!Become
  <2> HIDE DEF Left, Kept
  <2> QED
    BY <1>2, <1>3, <1>4, <2>1
<1>5. ASSUME NEW f \in Flows, NEW c \in Callers, NEW kind \in H!Kinds, NEW purpose \in H!Purposes,
             H!Reserve(f, c, kind, purpose)
      PROVE  CapsInv'
  BY <1>5, ReserveKeepsCaps
<1>6. ASSUME NEW f \in Flows, H!Created(f) PROVE CapsInv'
  <2> DEFINE mine == request[f].handle
  <2>1. PICK shorter \in {0, 1} :
            H!Become([handle EXCEPT ![mine].filled = TRUE, ![mine].ends = @ - shorter])
    BY <1>6 DEF H!Created
  <2> DEFINE hs == [handle EXCEPT ![mine].filled = TRUE, ![mine].ends = @ - shorter]
  <2>2. handle' = Left(hs)
    BY <2>1 DEF H!Become
  <2>3. Kept(hs)
    BY <1>1 DEF Owned, Same
  <2>4. registered' \subseteq registered
    BY <1>6 DEF H!Created
  <2> HIDE DEF hs, Left, Kept
  <2> QED
    BY <1>2, <2>2, <2>3, <2>4
<1>7. ASSUME NEW f \in Flows, NEW h, NEW step, NEW purposes, H!Poll(f, h, step, purposes) PROVE CapsInv'
  <2> DEFINE hs == [handle EXCEPT ![h].polled = TRUE]
  <2>1. H!Become(hs) /\ registered' = H!Remaining
    BY <1>7 DEF H!Poll
  <2>2. handle' = Left(hs)
    BY <2>1 DEF H!Become
  <2>3. Kept(hs)
    BY <1>1 DEF Owned, Same
  <2> HIDE DEF hs, Left, Kept
  <2> QED
    BY <1>1, <1>2, <2>1, <2>2, <2>3
<1>8. ASSUME NEW f \in Flows, H!CollectCode(f) PROVE CapsInv'
  <2> DEFINE mine == request[f].handle
             hs == [handle EXCEPT ![mine].collected = TRUE]
  <2>1. H!Become(hs) /\ registered' = registered \ {mine}
    BY <1>8 DEF H!CollectCode
  <2>2. handle' = Left(hs)
    BY <2>1 DEF H!Become
  <2>3. Kept(hs)
    BY <1>1 DEF Owned, Same
  <2> HIDE DEF hs, Left, Kept
  <2> QED
    BY <1>2, <2>1, <2>2, <2>3
<1>9. ASSUME NEW f \in Flows, H!Authorized(f) PROVE CapsInv'
  <2> DEFINE mine == request[f].handle
             hs == [handle EXCEPT ![mine].token = TRUE]
  <2>1. H!Become(hs) /\ registered' = registered
    BY <1>9 DEF H!Authorized
  <2>2. handle' = Left(hs)
    BY <2>1 DEF H!Become
  <2>3. Kept(hs)
    BY <1>1 DEF Owned, Same
  <2> HIDE DEF hs, Left, Kept
  <2> QED
    BY <1>2, <2>1, <2>2, <2>3
<1>10. ASSUME NEW f \in Flows,
              \/ H!CreateFails(f) \/ H!StillPending(f) \/ H!CollectPin(f) \/ H!Consume(f)
              \/ \E h \in H!Live : H!Peek(f, h)
       PROVE  CapsInv'
  <2>1. H!Become(handle) /\ registered' \subseteq registered
    BY <1>1, <1>10 DEF H!CreateFails, H!StillPending, H!CollectPin, H!Consume, H!Peek
  <2> QED
    BY <1>4, <2>1
<1>11. ASSUME NEW f \in Flows, H!Serve(f) PROVE CapsInv'
  BY <1>5, <1>6, <1>7, <1>8, <1>9, <1>10, <1>11 DEF H!Serve, H!Collect, H!Status
<1>12. ASSUME NEW h \in H!Live, H!Approve(h) PROVE CapsInv'
  <2>1. /\ registered' = registered
        /\ handle' = [handle EXCEPT ![h].approved = TRUE]
    BY <1>12 DEF H!Approve
  <2>2. /\ handle' = [g \in DOMAIN handle |-> handle'[g]]
        /\ \A g \in registered : Same(handle'[g], handle[g])
    BY <1>1, <2>1 DEF Owned, Same
  <2> QED
    BY <2>1, <2>2, CapsShrink
<1>13. ASSUME H!Forget \/ H!SweepStep \/ H!Restart PROVE CapsInv'
  <2>1. H!Become(handle) /\ registered' \subseteq registered
    BY <1>1, <1>13 DEF H!Forget, H!SweepStep, H!Sweep, H!SweepGivesUp, H!SweepOne, H!Restart
  <2> QED
    BY <1>4, <2>1
<1>14. CASE H!Tick
  <2>1. /\ registered' = registered
        /\ handle' = [h \in DOMAIN handle |->
                         IF h \in H!Live THEN [handle[h] EXCEPT !.polled = FALSE] ELSE H!Freed]
    BY <1>14 DEF H!Tick
  <2>2. \A h \in registered : h \in H!Live
    BY <1>1 DEF H!Live, Owned
  <2>3. /\ handle' = [h \in DOMAIN handle |-> handle'[h]]
        /\ \A h \in registered : Same(handle'[h], handle[h])
    BY <1>1, <2>1, <2>2 DEF Owned, Same
  <2> QED
    BY <2>1, <2>3, CapsShrink
<1> QED
  BY <1>11, <1>12, <1>13, <1>14 DEF H!Next

\* A run that is about passwords leaves the registry be.
LEMMA HandlesAlone == ASSUME CapsInv, [MCNext]_MCVars PROVE CapsInv'
<1>1. CASE UNCHANGED ofHandles
  BY <1>1 DEF ofHandles, CapsInv, HeldOf
<1>2. CASE H!Next
  BY <1>2, CapsNext
<1> QED
  BY <1>1, <1>2 DEF MCNext, MCVars, OfHandles

\* However creations, polls, collections, sweeps and restarts interleave, no client holds more
\* handles than its cap and the table no more than its own, while the upstream calls of several
\* creations are in flight (auth/handles.py _check_caps, _evict_for).
THEOREM CapsAreKept == MCSpec => []CapsHold
<1>1. MCInit => CapsInv
  BY CapsInit DEF MCInit
<1>2. CapsInv /\ [MCNext]_MCVars => CapsInv'
  BY HandlesAlone
<1>3. CapsInv => CapsHold
  BY SameSizes DEF CapsInv, CapsHold, H!CapsHold, H!Count, H!HeldBy, HeldOf
<1> QED
  BY <1>1, <1>2, <1>3, PTL DEF MCSpec

-----------------------------------------------------------------------------
(* Passwords: what a cap leaks is bounded.                                  *)

IsEvents(t) == P!IsTable(t.events, UserNames, Seq(Nat))
\* The attempts for a name that passed its check and have no answer yet.
Asking(n) == {p \in Attempts : attempt[p] # P!Idle /\ attempt[p].name = n}
\* An attempt, whatever it waits until.
Asks(a) ==
    \/ a = P!Idle
    \/ \E u : a \in [step : {"asleep", "checking"}, name : UserNames, client : Addresses,
                     until : {u}]

\* What is counted against a name and what is still asked about it stay within the cap and
\* as many attempts as there may be: each passed the check while the count was below the cap.
LeakInv ==
    /\ IsEvents(names) /\ clock \in Nat
    /\ attempt = [p \in Attempts |-> attempt[p]] /\ \A p \in Attempts : Asks(attempt[p])
    /\ \A n \in UserNames :
          P!CountOf(names, n) + Cardinality(Asking(n)) < PerName + Cardinality(Attempts)

\* The modules of this instance count as every module does.
LEMMA SameCounts ==
    ASSUME NEW S
    PROVE  P!Cardinality(S) = Cardinality(S) /\ (P!IsFiniteSet(S) <=> IsFiniteSet(S))
  BY DEF P!Cardinality, Cardinality, P!IsFiniteSet, IsFiniteSet

\* What the instance assumes, in this module's words.
LEMMA SomeAttempts ==
    /\ IsFiniteSet(Attempts) /\ Cardinality(Attempts) \in Nat
    /\ PerName \in Nat \ {0} /\ Window \in Nat
  BY PasswordsAssumption, SameCounts, FS_CardinalityType DEF P!PasswordsAssumption

\* From 1 to n there are n.
LEMMA FirstOnes == ASSUME NEW n \in Nat PROVE IsFiniteSet(1 .. n) /\ Cardinality(1 .. n) = n
<1>1. /\ IsFiniteSet(1 .. n)
      /\ Cardinality(1 .. n) = IF 1 > n THEN 0 ELSE n - 1 + 1
  BY FS_Interval
<1> QED
  BY <1>1

\* Pruning only shortens.
LEMMA LiveShortens ==
    ASSUME NEW times \in Seq(Nat), NEW at \in Nat
    PROVE  /\ P!Live(times, at) \in Seq(Nat)
           /\ Len(P!Live(times, at)) <= Len(times)
<1> DEFINE gone == {i \in DOMAIN times : times[i] + Window <= at}
<1>1. Len(times) \in Nat /\ DOMAIN times = 1 .. Len(times)
  OBVIOUS
<1>2. IsFiniteSet(1 .. Len(times)) /\ Cardinality(1 .. Len(times)) = Len(times)
  BY <1>1, FirstOnes
<1>3. Cardinality(gone) \in Nat /\ Cardinality(gone) <= Len(times)
  BY <1>1, <1>2, FS_Subset, FS_CardinalityType
<1>4. P!Live(times, at) = SubSeq(times, Cardinality(gone) + 1, Len(times))
  BY SameCounts DEF P!Live
<1> HIDE DEF gone
<1>5. SubSeq(times, Cardinality(gone) + 1, Len(times)) \in Seq(Nat)
  BY <1>1, <1>3
<1>6. Len(SubSeq(times, Cardinality(gone) + 1, Len(times))) <= Len(times)
  BY <1>1, <1>3
<1> QED
  BY <1>4, <1>5, <1>6

\* A count is a number.
LEMMA CountIsNat ==
    ASSUME NEW t, IsEvents(t), NEW n \in UserNames
    PROVE  P!CountOf(t, n) \in Nat
  BY DEF IsEvents, P!IsTable, P!CountOf, P!Knows

\* Storing times under a key changes that count and no other.
LEMMA WithCounts ==
    ASSUME NEW t, IsEvents(t), NEW key \in UserNames, NEW times \in Seq(Nat)
    PROVE  /\ IsEvents(P!With(t, key, times))
           /\ \A n \in UserNames :
                P!CountOf(P!With(t, key, times), n) = IF n = key THEN Len(times) ELSE P!CountOf(t, n)
           /\ P!Knows(P!With(t, key, times), key)
           /\ P!With(t, key, times).events[key] = times
<1>1. P!With(t, key, times).events = P!Put(t.events, key, times)
  BY DEF P!With
<1>2. /\ IsEvents(P!With(t, key, times))
      /\ DOMAIN P!Put(t.events, key, times) = DOMAIN t.events \cup {key}
      /\ P!Put(t.events, key, times)[key] = times
      /\ \A n \in DOMAIN t.events \ {key} : P!Put(t.events, key, times)[n] = t.events[n]
  BY <1>1 DEF IsEvents, P!IsTable, P!Put
<1> QED
  BY <1>1, <1>2 DEF P!CountOf, P!Knows

\* A table some of whose keys went, or were pruned, counts no more than before.
LEMMA ScannedCounts ==
    ASSUME NEW t, IsEvents(t), NEW at \in Nat
    PROVE  /\ IsEvents(P!Scanned(t, at))
           /\ \A n \in UserNames : P!CountOf(P!Scanned(t, at), n) <= P!CountOf(t, n)
<1> DEFINE left == [k \in DOMAIN t.events |-> P!Live(t.events[k], at)]
           live == {k \in DOMAIN t.events : left[k] # <<>>}
<1>1. P!Scanned(t, at).events = P!Drop(left, DOMAIN t.events \ live)
  BY DEF P!Scanned
<1>2. DOMAIN t.events \subseteq UserNames /\ \A k \in DOMAIN t.events : t.events[k] \in Seq(Nat)
  BY DEF IsEvents, P!IsTable
<1>3. \A k \in DOMAIN t.events : left[k] \in Seq(Nat) /\ Len(left[k]) <= Len(t.events[k])
  BY <1>2, LiveShortens
<1> HIDE DEF left
<1>4. DOMAIN left = DOMAIN t.events
  BY DEF left
<1>5. P!Scanned(t, at).events = [k \in live |-> left[k]]
  BY <1>1, <1>4 DEF P!Drop
<1>6. IsEvents(P!Scanned(t, at))
  BY <1>2, <1>3, <1>5 DEF IsEvents, P!IsTable
<1>7. ASSUME NEW n \in UserNames PROVE P!CountOf(P!Scanned(t, at), n) <= P!CountOf(t, n)
  <2>1. CASE n \in live
    BY <1>2, <1>3, <1>5, <2>1 DEF P!CountOf, P!Knows
  <2>2. CASE n \notin live
    <3>1. P!CountOf(P!Scanned(t, at), n) = 0
      BY <1>5, <2>2 DEF P!CountOf, P!Knows
    <3> QED
      BY <3>1, CountIsNat
  <2> QED
    BY <2>1, <2>2
<1> QED
  BY <1>6, <1>7

\* Touching a key of the table that refuses: nobody is counted for more.
LEMMA TouchedCounts ==
    ASSUME NEW t, IsEvents(t), NEW key \in UserNames, NEW at \in Nat
    PROVE  LET touched == P!Touched(t, key, at, "refuse")
           IN  /\ IsEvents(touched)
               /\ \A n \in UserNames : P!CountOf(touched, n) <= P!CountOf(t, n)
<1> DEFINE room == P!RoomMade(t, at, "refuse")
           touched == P!Touched(t, key, at, "refuse")
<1>1. IsEvents(room) /\ \A n \in UserNames : P!CountOf(room, n) <= P!CountOf(t, n)
  <2>1. room = t \/ room = P!Scanned(t, at)
    BY DEF P!RoomMade
  <2> QED
    BY <2>1, ScannedCounts, CountIsNat
<1>2. CASE P!Knows(t, key)
  <2>1. touched = P!With(t, key, P!Live(t.events[key], at))
    BY <1>2 DEF P!Touched
  <2>2. t.events[key] \in Seq(Nat) /\ P!CountOf(t, key) = Len(t.events[key])
    BY <1>2 DEF IsEvents, P!IsTable, P!CountOf, P!Knows
  <2>3. P!Live(t.events[key], at) \in Seq(Nat) /\ Len(P!Live(t.events[key], at)) <= P!CountOf(t, key)
    BY <2>2, LiveShortens
  <2> DEFINE times == P!Live(t.events[key], at)
  <2> HIDE DEF touched, times
  <2>4. /\ IsEvents(P!With(t, key, times))
        /\ \A n \in UserNames :
             P!CountOf(P!With(t, key, times), n) = IF n = key THEN Len(times) ELSE P!CountOf(t, n)
    BY <2>3, WithCounts DEF times
  <2>5. \A n \in UserNames : P!CountOf(t, n) \in Nat
    BY CountIsNat
  <2> QED
    BY <2>1, <2>3, <2>4, <2>5 DEF touched, times
<1>3. CASE ~P!Knows(t, key) /\ P!HasRoom(room)
  <2>1. touched = P!With(room, key, <<>>)
    BY <1>3 DEF P!Touched
  <2>2. <<>> \in Seq(Nat) /\ Len(<<>>) = 0
    OBVIOUS
  <2>3. \A n \in UserNames : P!CountOf(t, n) \in Nat /\ P!CountOf(room, n) \in Nat
    BY <1>1, CountIsNat
  <2> HIDE DEF room, touched
  <2>4. /\ IsEvents(P!With(room, key, <<>>))
        /\ \A n \in UserNames :
             P!CountOf(P!With(room, key, <<>>), n) = IF n = key THEN Len(<<>>) ELSE P!CountOf(room, n)
    BY <1>1, <2>2, WithCounts
  <2> QED
    BY <1>1, <2>1, <2>2, <2>3, <2>4 DEF touched
<1>4. CASE ~P!Knows(t, key) /\ ~P!HasRoom(room)
  BY <1>1, <1>4 DEF P!Touched
<1> QED
  BY <1>2, <1>3, <1>4

\* Recording a failure adds one to that name's count at most, and to no other.
LEMMA RecordedCounts ==
    ASSUME NEW t, IsEvents(t), NEW key \in UserNames, NEW at \in Nat
    PROVE  LET recorded == P!Recorded(t, key, at, "refuse")
           IN  /\ IsEvents(recorded)
               /\ \A n \in UserNames :
                    P!CountOf(recorded, n) <= P!CountOf(t, n) + IF n = key THEN 1 ELSE 0
<1> DEFINE touched == P!Touched(t, key, at, "refuse")
           recorded == P!Recorded(t, key, at, "refuse")
<1>1. IsEvents(touched) /\ \A n \in UserNames : P!CountOf(touched, n) <= P!CountOf(t, n)
  BY TouchedCounts
<1> HIDE DEF touched
<1>2. \A n \in UserNames : P!CountOf(t, n) \in Nat /\ P!CountOf(touched, n) \in Nat
  BY <1>1, CountIsNat
<1>3. CASE P!Knows(touched, key)
  <2>1. recorded = P!With(touched, key, Append(touched.events[key], at))
    BY <1>3 DEF P!Recorded, touched
  <2>2. touched.events[key] \in Seq(Nat) /\ P!CountOf(touched, key) = Len(touched.events[key])
    BY <1>1, <1>3 DEF IsEvents, P!IsTable, P!CountOf, P!Knows
  <2>3. /\ Append(touched.events[key], at) \in Seq(Nat)
        /\ Len(Append(touched.events[key], at)) = P!CountOf(touched, key) + 1
    BY <2>2
  <2> DEFINE times == Append(touched.events[key], at)
  <2> HIDE DEF recorded, times
  <2>4. /\ IsEvents(P!With(touched, key, times))
        /\ \A n \in UserNames :
             P!CountOf(P!With(touched, key, times), n) = IF n = key THEN Len(times) ELSE P!CountOf(touched, n)
    BY <1>1, <2>3, WithCounts DEF times
  <2> QED
    BY <1>1, <1>2, <2>1, <2>3, <2>4 DEF recorded, times
<1>4. CASE ~P!Knows(touched, key)
  <2>1. recorded = touched
    BY <1>4 DEF P!Recorded, touched
  <2> HIDE DEF recorded
  <2> QED
    BY <1>1, <1>2, <2>1 DEF recorded
<1> QED
  BY <1>3, <1>4

\* Forgetting a name leaves the others' counts.
LEMMA ForgottenCounts ==
    ASSUME NEW t, IsEvents(t), NEW key \in UserNames
    PROVE  /\ IsEvents(P!Forgotten(t, key))
           /\ \A n \in UserNames : P!CountOf(P!Forgotten(t, key), n) <= P!CountOf(t, n)
<1> DEFINE forgotten == P!Forgotten(t, key)
<1>1. CASE P!Knows(t, key)
  <2>1. forgotten.events = [k \in DOMAIN t.events \ {key} |-> t.events[k]]
    BY <1>1 DEF P!Forgotten, P!Drop
  <2> HIDE DEF forgotten
  <2>2. IsEvents(forgotten)
    BY <2>1 DEF IsEvents, P!IsTable
  <2>3. \A n \in UserNames : P!CountOf(forgotten, n) = IF n = key THEN 0 ELSE P!CountOf(t, n)
    BY <2>1 DEF P!CountOf, P!Knows
  <2>4. \A n \in UserNames : P!CountOf(t, n) \in Nat
    BY CountIsNat
  <2> QED
    BY <2>2, <2>3, <2>4 DEF forgotten
<1>2. CASE ~P!Knows(t, key)
  BY <1>2, CountIsNat DEF P!Forgotten
<1> QED
  BY <1>1, <1>2

\* No more attempts ask about a name than there are.
LEMMA AskingIsFinite ==
    ASSUME NEW n
    PROVE  /\ IsFiniteSet(Asking(n)) /\ Cardinality(Asking(n)) \in Nat
           /\ Cardinality(Asking(n)) <= Cardinality(Attempts)
<1>1. Asking(n) \in SUBSET Attempts
  BY DEF Asking
<1> QED
  BY <1>1, SomeAttempts, FS_Subset, FS_CardinalityType

\* Nothing is counted, and nobody asks.
LEMMA LeakInit == P!Init => LeakInv
<1> SUFFICES ASSUME P!Init PROVE LeakInv
  OBVIOUS
<1>1. \A n \in UserNames : Asking(n) = {} /\ P!CountOf(names, n) = 0
  BY DEF P!Init, Asking, P!NoTable, P!Empty, P!CountOf, P!Knows
<1>2. IsEvents(names)
  BY DEF P!Init, P!NoTable, P!Empty, IsEvents, P!IsTable
<1>3. /\ attempt = [p \in Attempts |-> attempt[p]]
      /\ \A p \in Attempts : Asks(attempt[p])
      /\ clock \in Nat
  BY DEF P!Init, Asks
<1> QED
  BY <1>1, <1>2, <1>3, FS_EmptySet, SomeAttempts DEF LeakInv

\* Counts that did not grow, and nobody else who asks.
LEMMA LeakShrinks ==
    ASSUME LeakInv, IsEvents(names'), clock' \in Nat,
           attempt' = [p \in Attempts |-> attempt'[p]], \A p \in Attempts : Asks(attempt'[p]),
           \A n \in UserNames : P!CountOf(names', n) <= P!CountOf(names, n),
           \A n \in UserNames : Asking(n)' \subseteq Asking(n)
    PROVE  LeakInv'
<1>1. ASSUME NEW n \in UserNames
      PROVE  P!CountOf(names', n) + Cardinality(Asking(n)') < PerName + Cardinality(Attempts)
  <2>1. /\ Cardinality(Asking(n)') \in Nat /\ Cardinality(Asking(n)') <= Cardinality(Asking(n))
        /\ Cardinality(Asking(n)) \in Nat
    BY AskingIsFinite, FS_Subset, FS_CardinalityType
  <2>2. P!CountOf(names, n) \in Nat /\ P!CountOf(names', n) \in Nat
    BY CountIsNat DEF LeakInv
  <2> QED
    BY <2>1, <2>2, SomeAttempts DEF LeakInv
<1> QED
  BY <1>1 DEF LeakInv

\* A check passes below the cap, an answer trades an attempt for one failure at most.
LEMMA LeakNext == LeakInv /\ P!Next => LeakInv'
<1> SUFFICES ASSUME LeakInv, P!Next PROVE LeakInv'
  OBVIOUS
<1> USE DEF LeakInv
<1>1. ASSUME NEW p \in Attempts, NEW name \in UserNames, NEW client \in Addresses,
             P!Ask(p, name, client)
      PROVE  LeakInv'
  <2> DEFINE checked == P!Touched(names, name, clock, "refuse")
             pause == P!PauseOf(P!Touched(pauses, client, clock, "evict_oldest"), client)
             a == [step |-> IF pause > 0 THEN "asleep" ELSE "checking",
                   name |-> name, client |-> client, until |-> clock + pause]
  <2>1. IsEvents(checked) /\ \A n \in UserNames : P!CountOf(checked, n) <= P!CountOf(names, n)
    BY TouchedCounts
  <2>2. /\ names' = checked /\ clock' = clock /\ attempt[p] = P!Idle
        /\ \/ attempt' = attempt
           \/ /\ ~P!Refuses(checked, name, PerName)
              /\ attempt' = [attempt EXCEPT ![p] = a]
    BY <1>1 DEF P!Ask
  <2>3. Asks(a)
    <3> HIDE DEF pause
    <3> QED
      BY DEF Asks
  <2>4. a # P!Idle /\ a.name = name
    BY DEF P!Idle
  <2> HIDE DEF checked, a
  <2>5. CASE attempt' = attempt
    BY <2>1, <2>2, <2>5, LeakShrinks DEF Asking
  <2>6. CASE ~P!Refuses(checked, name, PerName) /\ attempt' = [attempt EXCEPT ![p] = a]
    <3>1. ASSUME NEW n \in UserNames
          PROVE  P!CountOf(checked, n) + Cardinality(Asking(n)') < PerName + Cardinality(Attempts)
      <4>1. P!CountOf(checked, n) \in Nat /\ P!CountOf(names, n) \in Nat
        BY <2>1, CountIsNat
      <4>2. CASE n = name
        <5>1. P!CountOf(checked, name) < PerName
          BY <2>6, <4>1, <4>2, SomeAttempts DEF P!Refuses
        <5>2. Asking(n)' \in SUBSET Attempts
          BY DEF Asking
        <5>3. /\ Cardinality(Asking(n)') \in Nat
              /\ Cardinality(Asking(n)') <= Cardinality(Attempts)
          BY <5>2, SomeAttempts, FS_Subset, FS_CardinalityType
        <5> QED
          BY <4>1, <4>2, <5>1, <5>3, SomeAttempts
      <4>3. CASE n # name
        <5>1. Asking(n)' \in SUBSET Asking(n)
          BY <2>2, <2>4, <2>6, <4>3 DEF Asking
        <5>2. /\ Cardinality(Asking(n)') \in Nat
              /\ Cardinality(Asking(n)') <= Cardinality(Asking(n))
              /\ Cardinality(Asking(n)) \in Nat
          BY <5>1, AskingIsFinite, FS_Subset, FS_CardinalityType
        <5> QED
          BY <2>1, <4>1, <5>2, SomeAttempts
      <4> QED
        BY <4>2, <4>3
    <3>2. /\ attempt' = [q \in Attempts |-> attempt'[q]]
          /\ \A q \in Attempts : Asks(attempt'[q])
      BY <2>3, <2>6
    <3> QED
      BY <2>1, <2>2, <3>1, <3>2
  <2> QED
    BY <2>2, <2>5, <2>6
<1>2. ASSUME NEW p \in Attempts, P!Wake(p) PROVE LeakInv'
  <2>1. names' = names /\ clock' = clock /\ attempt' = [attempt EXCEPT ![p].step = "checking"]
    BY <1>2 DEF P!Wake
  <2>2. attempt[p] # P!Idle
    BY <1>2 DEF P!Wake, P!Idle
  <2>3. PICK u : attempt[p] \in [step : {"asleep", "checking"}, name : UserNames,
                                 client : Addresses, until : {u}]
    BY <2>2 DEF Asks
  <2>4. /\ attempt'[p] \in [step : {"asleep", "checking"}, name : UserNames,
                             client : Addresses, until : {u}]
        /\ attempt'[p].name = attempt[p].name
        /\ \A q \in Attempts \ {p} : attempt'[q] = attempt[q]
        /\ attempt' = [q \in Attempts |-> attempt'[q]]
    BY <2>1, <2>3
  <2>5. \A q \in Attempts : Asks(attempt'[q])
    BY <2>4 DEF Asks
  <2>6. \A n \in UserNames : Asking(n)' \subseteq Asking(n)
    BY <2>2, <2>4 DEF Asking
  <2> QED
    BY <2>1, <2>4, <2>5, <2>6, LeakShrinks, CountIsNat
<1>3. ASSUME NEW p \in Attempts, P!Answered(p)
      PROVE  /\ clock' = clock /\ attempt[p].name \in UserNames
             /\ attempt' = [q \in Attempts |-> attempt'[q]]
             /\ \A q \in Attempts : Asks(attempt'[q])
             /\ \A n \in UserNames : Asking(n)' \subseteq Asking(n)
             /\ \A n : n = attempt[p].name => Asking(n)' = Asking(n) \ {p} /\ p \in Asking(n)
  <2>1. clock' = clock /\ attempt' = [attempt EXCEPT ![p] = P!Idle] /\ attempt[p] # P!Idle
    BY <1>3 DEF P!Answered, P!Idle
  <2>2. attempt[p].name \in UserNames
    BY <2>1 DEF Asks
  <2>3. /\ attempt' = [q \in Attempts |-> attempt'[q]]
        /\ \A q \in Attempts : Asks(attempt'[q])
    BY <2>1 DEF Asks
  <2>4. \A n : /\ n = attempt[p].name => p \in Asking(n)
               /\ Asking(n)' = Asking(n) \ {p}
    <3>1. \A q \in Attempts : attempt'[q] = IF q = p THEN P!Idle ELSE attempt[q]
      BY <2>1
    <3> QED
      BY <2>1, <3>1 DEF Asking
  <2> QED
    BY <2>1, <2>2, <2>3, <2>4
<1>4. ASSUME NEW p \in Attempts, P!Right(p) PROVE LeakInv'
  <2>1. P!Answered(p) /\ names' = P!Forgotten(names, attempt[p].name)
    BY <1>4 DEF P!Right
  <2>2. /\ IsEvents(names')
        /\ \A n \in UserNames : P!CountOf(names', n) <= P!CountOf(names, n)
    BY <1>3, <2>1, ForgottenCounts
  <2> QED
    BY <1>3, <2>1, <2>2, LeakShrinks
<1>5. ASSUME NEW p \in Attempts, P!Wrong(p) PROVE LeakInv'
  <2>0. PICK name \in UserNames : name = attempt[p].name
    BY <1>3, <1>5 DEF P!Wrong
  <2>1. P!Answered(p) /\ names' = P!Recorded(names, name, clock, "refuse")
    BY <1>5, <2>0 DEF P!Wrong
  <2>2. /\ clock' = clock /\ name \in UserNames
        /\ attempt' = [q \in Attempts |-> attempt'[q]]
        /\ \A q \in Attempts : Asks(attempt'[q])
        /\ \A n \in UserNames : Asking(n)' \subseteq Asking(n)
        /\ Asking(name)' = Asking(name) \ {p}
        /\ p \in Asking(name)
    BY <1>3, <2>0, <2>1
  <2>3. /\ IsEvents(names')
        /\ \A n \in UserNames :
             P!CountOf(names', n) <= P!CountOf(names, n) + IF n = name THEN 1 ELSE 0
    BY <2>1, <2>2, RecordedCounts
  <2>4. ASSUME NEW n \in UserNames
        PROVE  P!CountOf(names', n) + Cardinality(Asking(n)') < PerName + Cardinality(Attempts)
    <3>1. P!CountOf(names, n) \in Nat /\ P!CountOf(names', n) \in Nat
      BY <2>3, CountIsNat
    <3>2. /\ Cardinality(Asking(n)) \in Nat
          /\ Cardinality(Asking(n)') \in Nat
          /\ Cardinality(Asking(n)') <= Cardinality(Asking(n)) - IF n = name THEN 1 ELSE 0
      <4>1. CASE n = name
        <5>1. Asking(n)' = Asking(n) \ {p} /\ p \in Asking(n)
          BY <2>2, <4>1
        <5>2. IsFiniteSet(Asking(n) \ {p}) /\ Cardinality(Asking(n) \ {p}) = Cardinality(Asking(n)) - 1
          BY <5>1, AskingIsFinite, FS_RemoveElement
        <5>3. Cardinality(Asking(n) \ {p}) \in Nat /\ Cardinality(Asking(n)) \in Nat
          BY <5>2, AskingIsFinite, FS_CardinalityType
        <5> QED
          BY <4>1, <5>1, <5>2, <5>3
      <4>2. CASE n # name
        BY <2>2, <4>2, AskingIsFinite, FS_Subset, FS_CardinalityType
      <4> QED
        BY <4>1, <4>2
    <3> QED
      BY <2>3, <3>1, <3>2, SomeAttempts
  <2> QED
    BY <2>2, <2>3, <2>4
<1>6. ASSUME NEW p \in Attempts, P!Neither(p) PROVE LeakInv'
  <2>1. P!Answered(p) /\ names' = names
    BY <1>6 DEF P!Neither
  <2> QED
    BY <1>3, <2>1, LeakShrinks, CountIsNat
<1>7. CASE P!Tick
  <2>1. clock' \in Nat /\ names' = names /\ attempt' = attempt
    BY <1>7 DEF P!Tick
  <2> QED
    BY <2>1 DEF Asking
<1> QED
  BY <1>1, <1>2, <1>4, <1>5, <1>6, <1>7 DEF P!Next

\* A run that is about handles leaves the limits be.
LEMMA PasswordsAlone == ASSUME LeakInv, [MCNext]_MCVars PROVE LeakInv'
<1>1. CASE UNCHANGED ofPasswords
  BY <1>1 DEF ofPasswords, LeakInv, Asking
<1>2. CASE P!Next
  BY <1>2, LeakNext
<1> QED
  BY <1>1, <1>2 DEF MCNext, MCVars, OfHandles

\* The cap of a name is checked before the media server is called and counted when its answer
\* arrives: whatever is in flight, and whatever the tables prune or refuse, it leaks fewer
\* failures than there may be attempts at the same time (auth/signin.py SignInService.password,
\* auth/ratelimit.py SlidingWindow).
THEOREM LeakBounded == MCSpec => []LeakIsBounded
<1>1. MCInit => LeakInv
  BY LeakInit DEF MCInit
<1>2. LeakInv /\ [MCNext]_MCVars => LeakInv'
  BY PasswordsAlone
<1>3. LeakInv => LeakIsBounded
  <2> SUFFICES ASSUME LeakInv, NEW n \in UserNames
               PROVE  P!CountOf(names, n) < PerName + Cardinality(Attempts)
    BY SameCounts DEF LeakIsBounded, P!LeakIsBounded
  <2>1. Cardinality(Asking(n)) \in Nat /\ P!CountOf(names, n) \in Nat
    BY AskingIsFinite, CountIsNat DEF LeakInv
  <2> QED
    BY <2>1, SomeAttempts DEF LeakInv
<1> QED
  BY <1>1, <1>2, <1>3, PTL DEF MCSpec
=============================================================================

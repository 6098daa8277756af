---------------------------- MODULE Setup_proofs ----------------------------
(***************************************************************************)
(* Proofs about Setup: the type invariant, that one wizard is open at most, *)
(* that the code's file tells the truth, and who can complete setup; about  *)
(* Connectors: that a secret stays at its address; about Startup: the one   *)
(* master key and the backup an upgrade leans on; about PublicUrl: that the *)
(* address stored is this server's; about Context: that only hops of ours   *)
(* are believed.  All but the first are stated of the composition in        *)
(* MCSetup, for every value of its constants.                               *)
(***************************************************************************)
EXTENDS MCSetup, Sequences, FiniteSetTheorems, TLAPS

\* Why the code's file can be trusted once the server is up: what
\* ensure_setup_code read is still so when it acts on it, and no request is
\* served, nor left behind, outside "up".
FileInv ==
    /\ stage["cli"].at # "down" => ~undisturbed
    /\ stage["server"].at # "up" => \A c \in Clients : flight[c] = Idle
    /\ undisturbed /\ stage["server"].at = "read" =>
         stage["server"].done = completed /\ stage["server"].code = hash
    /\ undisturbed /\ stage["server"].at = "wrote" =>
         ~completed /\ file = stage["server"].code /\ file # None
    /\ undisturbed /\ stage["server"].at = "up" =>
         \A c \in Clients : flight[c].step = "removing" => completed
    /\ CodeFileTellsTheTruth

IInv == TypeOK /\ OneWizard /\ FileInv

-----------------------------------------------------------------------------
(* Typing.                                                                  *)

\* What a request in flight holds, by how far it has come.
LEMMA RequestShape ==
    ASSUME NEW r \in Request
    PROVE  /\ r.step \in {"idle", "proved", "completing", "linking", "removing", "saving"}
           /\ r.step \in {"proved", "completing", "linking"} => r.who \in Accounts
           /\ r.step \in {"proved", "completing"} =>
                r \in [step : {"proved", "completing"}, tab : Tabs \cup {None}, who : Accounts]
           /\ r.step = "saving" => r.to \in Servers
  BY DEF Request, Idle

\* Every request a handler may leave in flight is one.
LEMMA RequestMade ==
    /\ Idle \in Request
    /\ [step |-> "removing"] \in Request
    /\ \A a \in Accounts : [step |-> "linking", who |-> a] \in Request
    /\ \A t \in Tabs \cup {None}, a \in Accounts :
         [step |-> "proved", tab |-> t, who |-> a] \in Request
    /\ \A s \in Servers, b \in BOOLEAN : [step |-> "saving", to |-> s, relink |-> b] \in Request
    /\ \A r \in [step : {"proved", "completing"}, tab : Tabs \cup {None}, who : Accounts] :
         [r EXCEPT !.step = "completing"] \in Request
  BY DEF Request, Idle

\* Closing the setup sessions keeps every row and leaves none live.
LEMMA ClosedTabs ==
    ASSUME IsTable(tabs, Tabs, Tab), NEW why \in Reasons \ {"live"}
    PROVE  /\ IsTable(Closed(why), Tabs, Tab)
           /\ DOMAIN Closed(why) = DOMAIN tabs
           /\ \A t \in DOMAIN tabs : Closed(why)[t].reason # "live"
  BY DEF IsTable, Closed, Tab, Reasons

\* A claim: the old sessions are closed, and the new one alone is live.
LEMMA ClaimedTabs ==
    ASSUME IsTable(tabs, Tabs, Tab), NEW t \in Tabs, NEW row \in Tab,
           tabs' = Put(Closed("superseded"), t, row)
    PROVE  /\ IsTable(tabs', Tabs, Tab)
           /\ \A x \in DOMAIN tabs' : tabs'[x].reason = "live" => x = t
<1>1. "superseded" \in Reasons \ {"live"}
  BY DEF Reasons
<1>2. /\ IsTable(Closed("superseded"), Tabs, Tab)
      /\ \A x \in DOMAIN Closed("superseded") : Closed("superseded")[x].reason # "live"
  BY <1>1, ClosedTabs
<1> QED
  BY <1>2 DEF Put, IsTable

\* Where ensure_setup_code and the reset leave a process is a stage.
LEMMA StageMade ==
    /\ \A w \in {"down", "up"} : At(w) \in Stage /\ At(w).at = w
    /\ \A w \in {"wrote", "cleared"}, k \in Codes :
         LET s == [At(w) EXCEPT !.code = k]
         IN  s \in Stage /\ s.at = w /\ s.code = k
    /\ \A d \in BOOLEAN, k \in Codes \cup {None} :
         [at |-> "read", done |-> d, code |-> k] \in Stage
  BY DEF Stage, At

-----------------------------------------------------------------------------
(* The initial state.                                                       *)

\* An empty database and no file: nothing is open and nothing runs.
LEMMA InitInv == Init => IInv
<1> SUFFICES ASSUME Init PROVE IInv
  OBVIOUS
<1>1. At("down") \in Stage /\ At("down").at = "down"
  BY StageMade
<1>2. IsTable(Empty, Tabs, Tab) /\ DOMAIN Empty = {}
  BY DEF IsTable, Empty
<1>3. TypeOK
  <2>1. now \in 0 .. MaxTime
    BY SetupAssumption DEF Init
  <2>2. IsTable(tabs, Tabs, Tab)
    BY <1>2 DEF Init
  <2>3. stage \in [Processes -> Stage] /\ flight \in [Clients -> Request]
    BY <1>1, RequestMade DEF Init
  <2> QED
    BY <2>1, <2>2, <2>3 DEF Init, TypeOK
<1>4. OneWizard
  BY <1>2 DEF Init, OneWizard
<1>5. FileInv
  BY <1>1 DEF Init, FileInv, CodeFileTellsTheTruth, Processes
<1> QED
  BY <1>3, <1>4, <1>5 DEF IInv

-----------------------------------------------------------------------------
(* Every step keeps the types.                                              *)

\* Every transaction, file write and await leaves every variable its type.
LEMMA StepTyped == TypeOK /\ [Next]_vars => TypeOK'
<1> SUFFICES ASSUME TypeOK, [Next]_vars PROVE TypeOK'
  OBVIOUS
<1>1. CASE Tick
  BY <1>1, SetupAssumption DEF Tick, household, wizard, TypeOK
<1>2. CASE DeleteFile
  BY <1>2 DEF DeleteFile, household, wizard, TypeOK
<1>3. CASE ResetFile
  <2>1. PICK k \in FreshCodes :
            /\ file' = k
            /\ stage' = [stage EXCEPT !["cli"] = [At("cleared") EXCEPT !.code = k]]
    BY <1>3 DEF ResetFile
  <2>2. k \in Codes /\ [At("cleared") EXCEPT !.code = k] \in Stage
    BY StageMade DEF FreshCodes
  <2>3. stage' \in [Processes -> Stage]
    BY <2>1, <2>2 DEF TypeOK
  <2> QED
    BY <1>3, <2>1, <2>2, <2>3 DEF ResetFile, household, wizard, TypeOK
<1>4. CASE ResetRow
  <2>1. stage["cli"].code \in Codes \cup {None}
    BY DEF TypeOK, Processes, Stage
  <2>2. IsTable(tabs', Tabs, Tab)
    BY <1>4, ClosedTabs DEF ResetRow, TypeOK, Reasons
  <2>3. stage' \in [Processes -> Stage]
    BY <1>4, StageMade DEF ResetRow, TypeOK
  <2> QED
    BY <1>4, <2>1, <2>2, <2>3 DEF ResetRow, TypeOK
<1>5. CASE Claim
  <2>1. PICK t \in Tabs \ DOMAIN tabs :
            /\ tabs' = Put(Closed("superseded"), t,
                           [ends |-> now + SetupLifetime, reason |-> "live"])
            /\ latest' = t
    BY <1>5 DEF Claim
  <2>2. [ends |-> now + SetupLifetime, reason |-> "live"] \in Tab
    BY SetupAssumption DEF TypeOK, Tab, Reasons
  <2>3. IsTable(tabs', Tabs, Tab)
    BY <2>1, <2>2, ClaimedTabs DEF TypeOK
  <2> QED
    BY <1>5, <2>1, <2>3 DEF Claim, household, TypeOK
<1>6. ASSUME NEW p \in Processes, Start(p) PROVE TypeOK'
  <2>1. [at |-> "read", done |-> completed, code |-> hash] \in Stage
    BY StageMade DEF TypeOK
  <2>2. stage' \in [Processes -> Stage]
    BY <1>6, <2>1 DEF Start, TypeOK
  <2> QED
    BY <1>6, <2>2 DEF Start, household, wizard, TypeOK
<1>7. ASSUME NEW p \in Processes, EnsureFile(p) PROVE TypeOK'
  <2>1. file' \in Codes \cup {None} /\ stage' \in [Processes -> Stage]
    <3>1. CASE stage[p].done
      BY <1>7, <3>1, StageMade DEF EnsureFile, Ready, TypeOK
    <3>2. CASE ~stage[p].done /\ stage[p].code # None /\ file = stage[p].code
      BY <1>7, <3>2, StageMade DEF EnsureFile, Ready, TypeOK
    <3>3. ASSUME NEW k \in FreshCodes, file' = k,
                 stage' = [stage EXCEPT ![p] = [At("wrote") EXCEPT !.code = k]]
          PROVE  file' \in Codes \cup {None} /\ stage' \in [Processes -> Stage]
      <4>1. k \in Codes /\ [At("wrote") EXCEPT !.code = k] \in Stage
        BY StageMade DEF FreshCodes
      <4> QED
        BY <3>3, <4>1 DEF TypeOK
    <3> QED
      BY <1>7, <3>1, <3>2, <3>3 DEF EnsureFile
  <2> QED
    BY <1>7, <2>1 DEF EnsureFile, household, wizard, TypeOK
<1>8. ASSUME NEW p \in Processes, EnsureHash(p) PROVE TypeOK'
  <2>1. stage[p].code \in Codes \cup {None}
    BY DEF TypeOK, Stage
  <2> QED
    BY <1>8, <2>1, StageMade DEF EnsureHash, Ready, household, wizard, TypeOK
<1>9. ASSUME NEW p \in Processes, Stop(p) PROVE TypeOK'
  <2>1. flight' \in [Clients -> Request]
    BY <1>9, RequestMade DEF Stop, TypeOK
  <2> QED
    BY <1>9, <2>1, StageMade DEF Stop, household, wizard, TypeOK
<1>10. ASSUME NEW c \in Clients, NEW t \in Tabs \cup {None}, NEW a \in Accounts,
             SignIn(c, t, a)
      PROVE  TypeOK'
  <2>1. [step |-> "proved", tab |-> t, who |-> a] \in Request
    BY RequestMade
  <2> QED
    BY <1>10, <2>1 DEF SignIn, Becomes, household, wizard, TypeOK
<1>11. ASSUME NEW c \in Clients, NEW a \in Accounts, SignInApp(c, a) PROVE TypeOK'
  <2>1. [step |-> "linking", who |-> a] \in Request
    BY RequestMade
  <2> QED
    BY <1>11, <2>1 DEF SignInApp, Becomes, household, wizard, TypeOK
<1>12. ASSUME NEW c \in Clients, NEW t \in Tabs, NEW s \in Servers,
             SaveFromTheWizard(c, t, s)
      PROVE  TypeOK'
  <2>1. [step |-> "saving", to |-> s, relink |-> FALSE] \in Request
    BY RequestMade
  <2> QED
    BY <1>12, <2>1 DEF SaveFromTheWizard, Becomes, household, wizard, TypeOK
<1>13. ASSUME NEW c \in Clients, NEW a \in Accounts, NEW s \in Servers,
             SaveFromTheConsole(c, a, s)
      PROVE  TypeOK'
  <2>1. [step |-> "saving", to |-> s, relink |-> TRUE] \in Request
    BY RequestMade
  <2> QED
    BY <1>13, <2>1 DEF SaveFromTheConsole, Becomes, household, wizard, TypeOK
<1>14. ASSUME NEW c \in Clients, Decide(c) PROVE TypeOK'
  <2>1. flight[c] \in Request /\ flight[c].step = "proved"
    BY <1>14 DEF Decide, TypeOK
  <2>2. flight[c].who \in Accounts /\ [flight[c] EXCEPT !.step = "completing"] \in Request
    BY <2>1, RequestShape, RequestMade
  <2>3. flight' \in [Clients -> Request]
    BY <1>14, <2>2, RequestMade DEF Decide, Becomes, TypeOK
  <2> QED
    BY <1>14, <2>3 DEF Decide, household, wizard, TypeOK
<1>15. ASSUME NEW c \in Clients, Link(c) PROVE TypeOK'
  <2>1. flight[c].who \in Accounts
    BY <1>15, RequestShape DEF Link, TypeOK
  <2>2. flight' \in [Clients -> Request]
    BY <1>15, RequestMade DEF Link, Becomes, TypeOK
  <2> QED
    BY <1>15, <2>1, <2>2 DEF Link, wizard, TypeOK
<1>16. ASSUME NEW c \in Clients, Complete(c) PROVE TypeOK'
  <2>1. flight[c].who \in Accounts
    BY <1>16, RequestShape DEF Complete, TypeOK
  <2>2. flight' \in [Clients -> Request]
    BY <1>16, RequestMade DEF Complete, Becomes, TypeOK
  <2>3. IsTable(tabs', Tabs, Tab)
    BY <1>16, ClosedTabs DEF Complete, TypeOK, Reasons
  <2> QED
    BY <1>16, <2>1, <2>2, <2>3 DEF Complete, TypeOK
<1>17. ASSUME NEW c \in Clients, RemoveFile(c) PROVE TypeOK'
  <2>1. flight' \in [Clients -> Request]
    BY <1>17, RequestMade DEF RemoveFile, Becomes, TypeOK
  <2> QED
    BY <1>17, <2>1 DEF RemoveFile, household, wizard, TypeOK
<1>18. ASSUME NEW c \in Clients, Store(c) PROVE TypeOK'
  <2>1. flight[c].to \in Servers
    BY <1>18, RequestShape DEF Store, TypeOK
  <2>2. flight' \in [Clients -> Request]
    BY <1>18, RequestMade DEF Store, Becomes, TypeOK
  <2>3. IsTable(tabs', Tabs, Tab)
    BY <1>18, ClosedTabs DEF Store, TypeOK, Reasons
  <2> QED
    BY <1>18, <2>1, <2>2, <2>3 DEF Store, TypeOK
<1>19. ASSUME NEW c \in Clients, Refuse(c) PROVE TypeOK'
  <2>1. flight' \in [Clients -> Request]
    BY <1>19, RequestMade DEF Refuse, Becomes, TypeOK
  <2> QED
    BY <1>19, <2>1 DEF Refuse, household, wizard, TypeOK
<1>20. ASSUME NEW a \in Accounts, SignOut(a) PROVE TypeOK'
  BY <1>20 DEF SignOut, wizard, TypeOK
<1>21. CASE UNCHANGED vars
  BY <1>21 DEF vars, household, wizard, TypeOK
<1> QED
  BY <1>1, <1>2, <1>3, <1>4, <1>5, <1>6, <1>7, <1>8, <1>9, <1>10,
     <1>11, <1>12, <1>13, <1>14, <1>15, <1>16, <1>17, <1>18, <1>19, <1>20,
     <1>21 DEF Next

-----------------------------------------------------------------------------
(* One wizard at most: a claim closes the others, and completing and         *)
(* resetting close them all.                                                *)

\* No handler opens a second wizard, or one on a server that is set up.
LEMMA StepWizard == TypeOK /\ OneWizard /\ [Next]_vars => OneWizard'
<1> SUFFICES ASSUME TypeOK, OneWizard, [Next]_vars PROVE OneWizard'
  OBVIOUS
<1>1. CASE Tick
  BY <1>1 DEF Tick, household, wizard, OneWizard
<1>2. CASE DeleteFile
  BY <1>2 DEF DeleteFile, household, wizard, OneWizard
<1>3. CASE ResetFile
  BY <1>3 DEF ResetFile, household, wizard, OneWizard
<1>4. CASE ResetRow
  BY <1>4, ClosedTabs DEF ResetRow, TypeOK, OneWizard, Reasons
<1>5. CASE Claim
  <2>1. PICK t \in Tabs \ DOMAIN tabs :
            /\ tabs' = Put(Closed("superseded"), t,
                           [ends |-> now + SetupLifetime, reason |-> "live"])
            /\ latest' = t
    BY <1>5 DEF Claim
  <2>2. [ends |-> now + SetupLifetime, reason |-> "live"] \in Tab
    BY SetupAssumption DEF TypeOK, Tab, Reasons
  <2>3. \A x \in DOMAIN tabs' : tabs'[x].reason = "live" => x = t
    BY <2>1, <2>2, ClaimedTabs DEF TypeOK
  <2> QED
    BY <1>5, <2>1, <2>3 DEF Claim, OneWizard
<1>6. ASSUME NEW p \in Processes, Start(p) PROVE OneWizard'
  BY <1>6 DEF Start, household, wizard, OneWizard
<1>7. ASSUME NEW p \in Processes, EnsureFile(p) PROVE OneWizard'
  BY <1>7 DEF EnsureFile, household, wizard, OneWizard
<1>8. ASSUME NEW p \in Processes, EnsureHash(p) PROVE OneWizard'
  BY <1>8 DEF EnsureHash, household, wizard, OneWizard
<1>9. ASSUME NEW p \in Processes, Stop(p) PROVE OneWizard'
  BY <1>9 DEF Stop, household, wizard, OneWizard
<1>10. ASSUME NEW c \in Clients, NEW t \in Tabs \cup {None}, NEW a \in Accounts,
             SignIn(c, t, a)
      PROVE  OneWizard'
  BY <1>10 DEF SignIn, household, wizard, OneWizard
<1>11. ASSUME NEW c \in Clients, NEW a \in Accounts, SignInApp(c, a) PROVE OneWizard'
  BY <1>11 DEF SignInApp, household, wizard, OneWizard
<1>12. ASSUME NEW c \in Clients, NEW t \in Tabs, NEW s \in Servers,
             SaveFromTheWizard(c, t, s)
      PROVE  OneWizard'
  BY <1>12 DEF SaveFromTheWizard, household, wizard, OneWizard
<1>13. ASSUME NEW c \in Clients, NEW a \in Accounts, NEW s \in Servers,
             SaveFromTheConsole(c, a, s)
      PROVE  OneWizard'
  BY <1>13 DEF SaveFromTheConsole, household, wizard, OneWizard
<1>14. ASSUME NEW c \in Clients, Decide(c) PROVE OneWizard'
  BY <1>14 DEF Decide, household, wizard, OneWizard
<1>15. ASSUME NEW c \in Clients, Link(c) PROVE OneWizard'
  BY <1>15 DEF Link, household, wizard, OneWizard
<1>16. ASSUME NEW c \in Clients, Complete(c) PROVE OneWizard'
  BY <1>16, ClosedTabs DEF Complete, TypeOK, OneWizard, Reasons
<1>17. ASSUME NEW c \in Clients, RemoveFile(c) PROVE OneWizard'
  BY <1>17 DEF RemoveFile, household, wizard, OneWizard
<1>18. ASSUME NEW c \in Clients, Store(c) PROVE OneWizard'
  <2>1. CASE tabs' = Closed("server_changed")
    BY <1>18, <2>1, ClosedTabs DEF Store, TypeOK, OneWizard, Reasons
  <2>2. CASE tabs' = tabs
    BY <1>18, <2>2 DEF Store, OneWizard
  <2> QED
    BY <1>18, <2>1, <2>2 DEF Store
<1>19. ASSUME NEW c \in Clients, Refuse(c) PROVE OneWizard'
  BY <1>19 DEF Refuse, household, wizard, OneWizard
<1>20. ASSUME NEW a \in Accounts, SignOut(a) PROVE OneWizard'
  BY <1>20 DEF SignOut, household, wizard, OneWizard
<1>21. CASE UNCHANGED vars
  BY <1>21 DEF vars, household, wizard, OneWizard
<1> QED
  BY <1>1, <1>2, <1>3, <1>4, <1>5, <1>6, <1>7, <1>8, <1>9, <1>10,
     <1>11, <1>12, <1>13, <1>14, <1>15, <1>16, <1>17, <1>18, <1>19, <1>20,
     <1>21 DEF Next

-----------------------------------------------------------------------------
(* The code's file.                                                         *)

\* A request that is not about the file moves on: the file is as true as before.
LEMMA RequestMoved ==
    ASSUME FileInv, stage["server"].at = "up", NEW c \in Clients,
           flight[c].step # "removing", flight'[c].step # "removing",
           \A d \in Clients \ {c} : flight'[d] = flight[d],
           UNCHANGED <<completed, hash, file, stage, undisturbed>>
    PROVE  FileInv'
  BY DEF FileInv, CodeFileTellsTheTruth

\* ensure_setup_code, the reset, a completion, a crash: each leaves the file true or
\* the run of the server disturbed.
LEMMA StepFile == TypeOK /\ FileInv /\ [Next]_vars => FileInv'
<1> SUFFICES ASSUME TypeOK, FileInv, [Next]_vars PROVE FileInv'
  OBVIOUS
<1>1. CASE Tick
  BY <1>1 DEF Tick, household, wizard, FileInv, CodeFileTellsTheTruth
<1>2. CASE DeleteFile
  BY <1>2 DEF DeleteFile, household, wizard, FileInv, CodeFileTellsTheTruth
<1>3. CASE ResetFile
  <2>1. stage["server"] = stage'["server"] /\ ~undisturbed /\ ~undisturbed'
    BY <1>3 DEF ResetFile, TypeOK, FileInv, Processes
  <2> QED
    BY <1>3, <2>1 DEF ResetFile, FileInv, CodeFileTellsTheTruth
<1>4. CASE ResetRow
  <2>1. stage'["server"] = stage["server"] /\ ~undisturbed /\ ~undisturbed'
    BY <1>4 DEF ResetRow, TypeOK, FileInv, Processes
  <2> QED
    BY <1>4, <2>1 DEF ResetRow, FileInv, CodeFileTellsTheTruth
<1>5. CASE Claim
  BY <1>5 DEF Claim, household, wizard, FileInv, CodeFileTellsTheTruth
<1>6. ASSUME NEW p \in Processes, Start(p) PROVE FileInv'
  <2>1. CASE p = "server"
    <3>1. /\ stage'["server"].at = "read" /\ stage'["server"].done = completed
          /\ stage'["server"].code = hash /\ stage'["cli"] = stage["cli"]
      BY <1>6, <2>1 DEF Start, TypeOK, Processes
    <3> QED
      BY <1>6, <2>1, <3>1 DEF Start, household, wizard, FileInv, CodeFileTellsTheTruth
  <2>2. CASE p = "cli"
    <3>1. ~undisturbed' /\ stage'["server"] = stage["server"]
      BY <1>6, <2>2 DEF Start, TypeOK, Processes
    <3> QED
      BY <1>6, <3>1 DEF Start, household, wizard, FileInv, CodeFileTellsTheTruth
  <2> QED
    BY <2>1, <2>2 DEF Processes
<1>7. ASSUME NEW p \in Processes, EnsureFile(p) PROVE FileInv'
  <2> USE DEF EnsureFile, household, wizard, FileInv, CodeFileTellsTheTruth
  <2>1. CASE p = "cli"
    <3>1. ~undisturbed' /\ stage'["server"] = stage["server"]
      BY <1>7, <2>1 DEF TypeOK, Processes, Ready
    <3> QED
      BY <1>7, <3>1
  <2>2. CASE p = "server" /\ stage["server"].done
    <3>1. stage'["cli"] = stage["cli"] /\ stage'["server"].at = "up" /\ file' = None
      BY <1>7, <2>2, StageMade DEF TypeOK, Processes, Ready
    <3> QED
      BY <1>7, <2>2, <3>1 DEF Idle
  <2>3. CASE p = "server" /\ ~stage["server"].done /\ stage["server"].code # None
             /\ file = stage["server"].code
    <3>1. stage'["cli"] = stage["cli"] /\ stage'["server"].at = "up" /\ file' = file
      BY <1>7, <2>3, StageMade DEF TypeOK, Processes, Ready
    <3> QED
      BY <1>7, <2>3, <3>1 DEF Idle
  <2>4. ASSUME p = "server", ~stage["server"].done, NEW k \in FreshCodes, file' = k,
               stage' = [stage EXCEPT ![p] = [At("wrote") EXCEPT !.code = k]]
        PROVE  FileInv'
    <3>1. /\ stage'["cli"] = stage["cli"]
          /\ stage'["server"].at = "wrote" /\ stage'["server"].code = k
      BY <2>4, StageMade DEF TypeOK, Processes, FreshCodes
    <3>2. k # None
      BY SetupAssumption DEF FreshCodes
    <3> QED
      BY <1>7, <2>4, <3>1, <3>2
  <2> QED
    BY <1>7, <2>1, <2>2, <2>3, <2>4 DEF Processes
<1>8. ASSUME NEW p \in Processes, EnsureHash(p) PROVE FileInv'
  <2>1. CASE p = "cli"
    <3>1. ~undisturbed' /\ stage'["server"] = stage["server"]
      BY <1>8, <2>1 DEF EnsureHash, TypeOK, Processes, Ready, FileInv
    <3> QED
      BY <1>8, <3>1 DEF EnsureHash, household, wizard, FileInv, CodeFileTellsTheTruth
  <2>2. CASE p = "server"
    <3>1. stage'["cli"] = stage["cli"] /\ stage'["server"].at = "up"
      BY <1>8, <2>2, StageMade DEF EnsureHash, TypeOK, Processes, Ready
    <3> QED
      BY <1>8, <2>2, <3>1 DEF EnsureHash, household, wizard, Idle, FileInv, CodeFileTellsTheTruth
  <2> QED
    BY <2>1, <2>2 DEF Processes
<1>9. ASSUME NEW p \in Processes, Stop(p) PROVE FileInv'
  <2>1. CASE p = "cli"
    <3>1. ~undisturbed' /\ stage'["server"] = stage["server"]
      BY <1>9, <2>1 DEF Stop, TypeOK, Processes, FileInv
    <3> QED
      BY <1>9, <2>1, <3>1 DEF Stop, household, wizard, FileInv, CodeFileTellsTheTruth
  <2>2. CASE p = "server"
    <3>1. stage'["cli"] = stage["cli"] /\ stage'["server"].at = "down"
      BY <1>9, <2>2, StageMade DEF Stop, TypeOK, Processes
    <3> QED
      BY <1>9, <2>2, <3>1 DEF Stop, household, wizard, FileInv, CodeFileTellsTheTruth
  <2> QED
    BY <2>1, <2>2 DEF Processes
<1>10. ASSUME NEW c \in Clients, NEW t \in Tabs \cup {None}, NEW a \in Accounts,
             SignIn(c, t, a)
      PROVE  FileInv'
  <2>1. flight'[c].step # "removing" /\ \A d \in Clients \ {c} : flight'[d] = flight[d]
    BY <1>10 DEF SignIn, Becomes, TypeOK
  <2> QED
    BY <1>10, <2>1, RequestMoved DEF SignIn, Serving, Idle, household
<1>11. ASSUME NEW c \in Clients, NEW a \in Accounts, SignInApp(c, a) PROVE FileInv'
  <2>1. flight'[c].step # "removing" /\ \A d \in Clients \ {c} : flight'[d] = flight[d]
    BY <1>11 DEF SignInApp, Becomes, TypeOK
  <2> QED
    BY <1>11, <2>1, RequestMoved DEF SignInApp, Serving, Idle, household
<1>12. ASSUME NEW c \in Clients, NEW t \in Tabs, NEW s \in Servers,
             SaveFromTheWizard(c, t, s)
      PROVE  FileInv'
  <2>1. flight'[c].step # "removing" /\ \A d \in Clients \ {c} : flight'[d] = flight[d]
    BY <1>12 DEF SaveFromTheWizard, Becomes, TypeOK
  <2> QED
    BY <1>12, <2>1, RequestMoved DEF SaveFromTheWizard, Serving, Idle, household
<1>13. ASSUME NEW c \in Clients, NEW a \in Accounts, NEW s \in Servers,
             SaveFromTheConsole(c, a, s)
      PROVE  FileInv'
  <2>1. flight'[c].step # "removing" /\ \A d \in Clients \ {c} : flight'[d] = flight[d]
    BY <1>13 DEF SaveFromTheConsole, Becomes, TypeOK
  <2> QED
    BY <1>13, <2>1, RequestMoved DEF SaveFromTheConsole, Serving, Idle, household
<1>14. ASSUME NEW c \in Clients, Decide(c) PROVE FileInv'
  <2>1. flight[c] \in Request /\ flight[c].step = "proved"
    BY <1>14 DEF Decide, TypeOK
  <2>2. [flight[c] EXCEPT !.step = "completing"].step = "completing"
    BY <2>1, RequestShape
  <2>3. flight'[c].step # "removing" /\ \A d \in Clients \ {c} : flight'[d] = flight[d]
    <3>1. PICK r : r.step # "removing" /\ Becomes(c, r)
      BY <1>14, <2>2 DEF Decide, Idle
    <3> QED
      BY <3>1 DEF Becomes, TypeOK
  <2>4. stage["server"].at = "up"
    BY <1>14 DEF Decide, FileInv, Idle
  <2> QED
    BY <1>14, <2>3, <2>4, RequestMoved DEF Decide, household
<1>15. ASSUME NEW c \in Clients, Link(c) PROVE FileInv'
  <2>1. flight'[c].step # "removing" /\ \A d \in Clients \ {c} : flight'[d] = flight[d]
    BY <1>15 DEF Link, Becomes, Idle, TypeOK
  <2>2. stage["server"].at = "up" /\ flight[c].step # "removing"
    BY <1>15 DEF Link, FileInv, Idle
  <2> QED
    BY <1>15, <2>1, <2>2, RequestMoved DEF Link, household
<1>16. ASSUME NEW c \in Clients, Complete(c) PROVE FileInv'
  <2>1. flight'[c].step = "removing" /\ completed'
    BY <1>16 DEF Complete, Becomes, TypeOK
  <2>2. stage["server"].at = "up"
    BY <1>16 DEF Complete, FileInv, Idle
  <2> QED
    BY <1>16, <2>1, <2>2 DEF Complete, FileInv, CodeFileTellsTheTruth
<1>17. ASSUME NEW c \in Clients, RemoveFile(c) PROVE FileInv'
  <2>1. flight'[c].step # "removing" /\ \A d \in Clients \ {c} : flight'[d] = flight[d]
    BY <1>17 DEF RemoveFile, Becomes, Idle, TypeOK
  <2>2. stage["server"].at = "up" /\ file' = None /\ (undisturbed => completed)
    BY <1>17 DEF RemoveFile, FileInv, Idle
  <2> QED
    BY <1>17, <2>1, <2>2 DEF RemoveFile, household, wizard, FileInv, CodeFileTellsTheTruth
<1>18. ASSUME NEW c \in Clients, Store(c) PROVE FileInv'
  <2>1. flight'[c].step # "removing" /\ \A d \in Clients \ {c} : flight'[d] = flight[d]
    BY <1>18 DEF Store, Becomes, Idle, TypeOK
  <2>2. stage["server"].at = "up" /\ flight[c].step # "removing"
    BY <1>18 DEF Store, FileInv, Idle
  <2> QED
    BY <1>18, <2>1, <2>2, RequestMoved DEF Store, household
<1>19. ASSUME NEW c \in Clients, Refuse(c) PROVE FileInv'
  <2>1. flight'[c].step # "removing" /\ \A d \in Clients \ {c} : flight'[d] = flight[d]
    BY <1>19 DEF Refuse, Becomes, Idle, TypeOK
  <2>2. stage["server"].at = "up" /\ flight[c].step # "removing"
    BY <1>19 DEF Refuse, FileInv, Idle
  <2> QED
    BY <1>19, <2>1, <2>2, RequestMoved DEF Refuse, household
<1>20. ASSUME NEW a \in Accounts, SignOut(a) PROVE FileInv'
  BY <1>20 DEF SignOut, household, wizard, FileInv, CodeFileTellsTheTruth
<1>21. CASE UNCHANGED vars
  BY <1>21 DEF vars, household, wizard, FileInv, CodeFileTellsTheTruth
<1> QED
  BY <1>1, <1>2, <1>3, <1>4, <1>5, <1>6, <1>7, <1>8, <1>9, <1>10,
     <1>11, <1>12, <1>13, <1>14, <1>15, <1>16, <1>17, <1>18, <1>19, <1>20,
     <1>21 DEF Next

-----------------------------------------------------------------------------
(* The theorems.                                                            *)

\* The inductive invariant holds of every behaviour of setup.
LEMMA SetupInductive == Spec => []IInv
<1>1. IInv /\ [Next]_vars => IInv'
  BY StepTyped, StepWizard, StepFile DEF IInv
<1> QED
  BY InitInv, <1>1, PTL DEF Spec

\* Every variable keeps its type, for any number of codes, browsers, accounts and
\* requests in flight (the whole of setup).
THEOREM SetupTyped == Spec => []TypeOK
<1>1. IInv => TypeOK
  BY DEF IInv
<1> QED
  BY SetupInductive, <1>1, PTL

\* At most one wizard is open, the newest, and the code's file holds the code the
\* server accepts: claims, completions and resets in any order, and either
\* process killed anywhere (claim, complete_setup, ensure_setup_code).
THEOREM SetupSafe == Spec => [](OneWizard /\ CodeFileTellsTheTruth)
<1>1. IInv => OneWizard /\ CodeFileTellsTheTruth
  BY DEF IInv, FileInv
<1> QED
  BY SetupInductive, <1>1, PTL

\* Setup is completed by the browser whose claim is the newest, while its session
\* is live (complete_setup reads the session again inside its transaction).
THEOREM NewestClaimCompletes == Spec => OnlyTheNewestClaimCompletes
<1>1. ASSUME TypeOK, OneWizard, [Next]_vars, ~completed, completed'
      PROVE  \E c \in Clients : flight[c].step = "completing" /\ flight[c].tab = latest
                               /\ flight'[c].step = "removing" /\ Live(latest)
  <2>1. \E c \in Clients : Complete(c)
    BY <1>1 DEF Next, vars, household, wizard, Tick, DeleteFile, ResetFile, ResetRow, Claim,
       Start, EnsureFile, EnsureHash, Stop, SignIn, SignInApp, SaveFromTheWizard,
       SaveFromTheConsole, Decide, Link, RemoveFile, Store, Refuse, SignOut
  <2>2. PICK c \in Clients : Complete(c)
    BY <2>1
  <2>3. flight[c].tab = latest /\ Live(latest)
    BY <1>1, <2>2 DEF Complete, Live, OneWizard
  <2>4. flight'[c].step = "removing"
    BY <1>1, <2>2 DEF Complete, Becomes, TypeOK
  <2> QED
    BY <2>2, <2>3, <2>4 DEF Complete
<1>2. TypeOK /\ OneWizard /\ [Next]_vars =>
        [~completed /\ completed' =>
           \E c \in Clients : flight[c].step = "completing" /\ flight[c].tab = latest
                              /\ flight'[c].step = "removing" /\ Live(latest)]_vars
  BY <1>1
<1>3. IInv => TypeOK /\ OneWizard
  BY DEF IInv
<1> QED
  BY SetupInductive, <1>2, <1>3, PTL DEF Spec, OnlyTheNewestClaimCompletes

-----------------------------------------------------------------------------
(* Connectors: where secrets go.                                            *)

\* The connector that a request reads now.
Present == [url |-> C!Value("url"), key |-> C!Value("key")]

\* What a request knows that no write has crossed: the address it read is still
\* the connector's, a key it carries is for the address it will be resolved to, and
\* what it resolved to keeps its secret where it belongs.
Knows(call) ==
    call # C!Idle /\ ~call.crossed =>
        /\ call.step = "key" => call.url = C!Value("url")
        /\ C!Unlocked(call.asked)
        /\ call.asked.key # None /\ call.asked.key # pinned.key =>
             MeantFor[call.asked.key] = IF call.asked.url # None THEN call.asked.url
                                                                 ELSE C!Value("url")
        /\ call.step \in {"sent", "writing"} =>
             /\ ~C!Strays(call.found)
             /\ pinned.url # None => call.found.url = pinned.url
             /\ pinned.key # None => call.found.key = pinned.key

SecretsInv ==
    /\ C!TypeOK
    /\ ~muddled => ~C!Strays(Present) /\ \A c \in Clients : Knows(calls[c])

\* A connector is its two fields.
LEMMA Fields ==
    ASSUME NEW connector \in C!Connector
    PROVE  /\ connector.url \in Addresses \cup {None} /\ connector.key \in ApiKeys \cup {None}
           /\ DOMAIN connector = {"url", "key"}
           /\ connector = [url |-> connector.url, key |-> connector.key]
  BY DEF C!Connector

\* So is what a request reads.
LEMMA PresentTyped ==
    ASSUME C!TypeOK
    PROVE  /\ Present \in C!Connector
           /\ Present.url = C!Value("url") /\ Present.key = C!Value("key")
<1>1. pinned \in C!Connector /\ stored \in C!Connector
  BY DEF C!TypeOK
<1> QED
  BY <1>1, Fields DEF Present, C!Value, C!Connector

\* A request in flight is of its type.
LEMMA InFlight ==
    ASSUME C!TypeOK, NEW c \in Clients, calls[c] # C!Idle
    PROVE  /\ calls[c].asked \in C!Connector /\ calls[c].found \in C!Connector
           /\ calls[c].url \in Addresses \cup {None} /\ calls[c].crossed \in BOOLEAN
           /\ calls[c].purpose \in {"use", "check", "save", "store"}
           /\ calls[c].step \in {"url", "key", "sent", "writing"}
           /\ calls[c] \in [step : {"url", "key", "sent", "writing"},
                            purpose : {"use", "check", "save", "store"},
                            asked : C!Connector, url : Addresses \cup {None},
                            found : C!Connector, crossed : BOOLEAN]
  BY DEF C!TypeOK, C!Call

\* A request that has a step is in flight.
LEMMA HasStep ==
    ASSUME NEW call, call.step \in {"url", "key", "sent", "writing"}
    PROVE  call # C!Idle
  BY DEF C!Idle

\* A step that writes nothing keeps what is known, if the request that takes it does.
LEMMA Moves ==
    ASSUME SecretsInv, NEW c \in Clients, NEW call \in C!Call, C!Becomes(c, call),
           UNCHANGED <<kind, pinned, stored, first, muddled>>,
           ~muddled => Knows(call)
    PROVE  SecretsInv'
<1>1. calls' = [calls EXCEPT ![c] = call] /\ calls \in [Clients -> C!Call]
  BY DEF C!Becomes, SecretsInv, C!TypeOK
<1>2. C!TypeOK'
  BY <1>1 DEF SecretsInv, C!TypeOK
<1>3. \A d \in Clients : calls'[d] = calls[d] \/ calls'[d] = call
  BY <1>1
<1>4. ASSUME ~muddled' PROVE (~C!Strays(Present))' /\ \A d \in Clients : Knows(calls[d])'
  <2>1. ~C!Strays(Present) /\ \A d \in Clients : Knows(calls'[d])
    BY <1>3, <1>4 DEF SecretsInv
  <2> QED
    BY <2>1 DEF Knows, Present, C!Strays, C!Value, C!Unlocked
<1> QED
  BY <1>2, <1>4 DEF SecretsInv

\* A request that ends knows nothing.
LEMMA Rests ==
    ASSUME SecretsInv, NEW c \in Clients, C!Rest(c),
           UNCHANGED <<kind, pinned, stored, first, muddled>>
    PROVE  SecretsInv'
<1>1. C!Idle \in C!Call /\ Knows(C!Idle)
  BY DEF C!Call, Knows
<1> QED
  BY <1>1, Moves DEF C!Rest

\* What a request resolves to, from what it read of a connector that keeps its
\* secret, keeps it as well (_secret_for, _llm_key).
LEMMA ResolvedStays ==
    ASSUME C!TypeOK, ~C!Strays(Present), NEW asked \in C!Connector, C!Unlocked(asked),
           asked.key # None /\ asked.key # pinned.key =>
             MeantFor[asked.key] = IF asked.url # None THEN asked.url ELSE C!Value("url"),
           NEW found \in C!Resolved(asked, Present)
    PROVE  /\ found \in C!Connector /\ ~C!Strays(found)
           /\ pinned.url # None => found.url = pinned.url
           /\ pinned.key # None => found.key = pinned.key
<1> DEFINE url == C!Address(asked, Present)
<1>0. pinned \in C!Connector /\ stored \in C!Connector /\ None \notin Addresses \cup ApiKeys
  BY ConnectorsAssumption DEF C!TypeOK, C!ConnectorsAssumption
<1>1. PICK key \in C!Secrets(asked, Present) : found = [url |-> url, key |-> key]
  BY DEF C!Resolved
<1>2. url \in Addresses /\ key \in ApiKeys \cup {None} /\ found.url = url /\ found.key = key
      /\ found \in C!Connector
  BY <1>1, Fields DEF C!Resolved, C!Connector
<1>3. pinned.url # None => url = pinned.url
  BY DEF C!Address
<1>4. pinned.key # None => key = pinned.key
  BY <1>1 DEF C!Secrets
<1>5. ~C!Strays(found)
  <2>1. SUFFICES ASSUME key # None PROVE ~C!Strays(found)
    BY <1>2 DEF C!Strays
  <2>2. CASE pinned.key # None
    <3>1. C!Configured(Present) => Present.url = url
      BY <1>1, <2>2 DEF C!Secrets
    <3>2. Present.key = pinned.key /\ key = pinned.key
      BY <1>4, <2>2, PresentTyped DEF C!Value
    <3>3. C!Configured(Present) <=> Present.url # None
      BY <2>2, <3>2 DEF C!Configured
    <3> QED
      BY <1>2, <2>2, <3>1, <3>2, <3>3 DEF C!Strays
  <2>3. CASE pinned.key = None /\ asked.key # None
    <3>1. key = asked.key /\ asked.key # pinned.key
      BY <1>1, <2>3 DEF C!Secrets
    <3>2. asked.url # None => url = asked.url
      BY <1>0, Fields DEF C!Address, C!Unlocked
    <3>3. asked.url = None => url = C!Value("url")
      BY <1>2, <1>0, PresentTyped DEF C!Address, C!Value
    <3> QED
      BY <1>2, <2>3, <3>1, <3>2, <3>3 DEF C!Strays
  <2>4. CASE pinned.key = None /\ asked.key = None
    <3>1. C!Configured(Present) /\ key = Present.key /\ Present.url = url
      BY <1>1, <2>1, <2>4 DEF C!Secrets
    <3> QED
      BY <1>2, <2>1, <2>4, <3>1 DEF C!Strays
  <2> QED
    BY <2>2, <2>3, <2>4
<1> QED
  BY <1>2, <1>3, <1>4, <1>5

\* Whoever a write has crossed knows nothing.
LEMMA AllCrossed ==
    ASSUME C!TypeOK, calls' = [d \in Clients |-> calls'[d]],
           \A d \in Clients :
               \/ calls'[d] = C!Idle
               \/ calls[d] # C!Idle /\ calls'[d] = [calls[d] EXCEPT !.crossed = TRUE]
    PROVE  calls' \in [Clients -> C!Call] /\ \A d \in Clients : Knows(calls[d])'
<1>1. ASSUME NEW d \in Clients
      PROVE  calls'[d] \in C!Call /\ (calls'[d] = C!Idle \/ calls'[d].crossed)
  <2>1. CASE calls'[d] = C!Idle
    BY <2>1 DEF C!Call
  <2>2. CASE calls[d] # C!Idle /\ calls'[d] = [calls[d] EXCEPT !.crossed = TRUE]
    BY <2>2, InFlight DEF C!Call
  <2> QED
    BY <2>1, <2>2
<1>2. \A d \in Clients : Knows(calls[d])'
  BY <1>1 DEF Knows
<1> QED
  BY <1>1, <1>2

\* An unconfigured connector has no secret to lose.
LEMMA ConnectorsInit == C!Init => SecretsInv
<1> SUFFICES ASSUME C!Init PROVE SecretsInv
  OBVIOUS
<1>1. pinned \in C!Connector /\ stored = C!Nothing /\ C!Nothing \in C!Connector
  BY DEF C!Init, C!Nothing, C!Connector
<1>2. C!TypeOK
  BY <1>1, Fields DEF C!Init, C!TypeOK, C!Call
<1>3. Present = pinned
  BY <1>1, Fields DEF Present, C!Value, C!Nothing
<1>4. ~C!Strays(Present)
  BY <1>1, <1>3, Fields, ConnectorsAssumption DEF C!Init, C!Strays, C!ConnectorsAssumption
<1>5. \A c \in Clients : calls[c] = C!Idle
  BY DEF C!Init
<1> QED
  BY <1>2, <1>4, <1>5 DEF SecretsInv, Knows

\* Every step of a connector keeps SecretsInv.
LEMMA ConnectorsNext == SecretsInv /\ [C!Next]_C!vars => SecretsInv'
<1> SUFFICES ASSUME SecretsInv, [C!Next]_C!vars PROVE SecretsInv'
  OBVIOUS
<1>0. C!TypeOK /\ pinned \in C!Connector /\ stored \in C!Connector
  BY DEF SecretsInv, C!TypeOK
<1>1. ASSUME NEW c \in Clients, NEW purpose \in {"check", "save"}, NEW asked \in C!Connector,
             C!Ask(c, purpose, asked)
      PROVE  SecretsInv'
  <2> DEFINE call == [step |-> "url", purpose |-> purpose, asked |-> asked, url |-> None,
                      found |-> C!Nothing, crossed |-> FALSE]
  <2>1. call \in C!Call
    BY DEF C!Call, C!Nothing, C!Connector
  <2>2. Knows(call)
    BY <1>1 DEF C!Ask, Knows
  <2> QED
    BY <1>1, <2>1, <2>2, Moves DEF C!Ask, C!Start, C!environment
<1>2. ASSUME NEW c \in Clients, C!Use(c) PROVE SecretsInv'
  <2> DEFINE call == [step |-> "url", purpose |-> "use", asked |-> C!Nothing, url |-> None,
                      found |-> C!Nothing, crossed |-> FALSE]
  <2>1. call \in C!Call
    BY DEF C!Call, C!Nothing, C!Connector
  <2>2. Knows(call)
    BY DEF Knows, C!Nothing, C!Unlocked
  <2> QED
    BY <1>2, <2>1, <2>2, Moves DEF C!Use, C!Start, C!environment
<1>3. ASSUME NEW c \in Clients, C!ReadUrl(c) PROVE SecretsInv'
  <2> DEFINE call == [calls[c] EXCEPT !.step = "key", !.url = C!Value("url")]
  <2>1. calls[c] # C!Idle
    BY <1>3, HasStep DEF C!ReadUrl
  <2>2. C!Value("url") \in Addresses \cup {None}
    BY <1>0, PresentTyped, Fields
  <2>3. call \in C!Call /\ call.step = "key" /\ call.url = C!Value("url")
        /\ call.asked = calls[c].asked /\ call.crossed = calls[c].crossed
    BY <1>0, <2>1, <2>2, InFlight DEF C!Call
  <2>4. ~muddled => Knows(call)
    BY <2>1, <2>3 DEF Knows, SecretsInv
  <2> QED
    BY <1>3, <2>3, <2>4, Moves DEF C!ReadUrl, C!environment
<1>4. ASSUME NEW c \in Clients, C!ReadKey(c) PROVE SecretsInv'
  <2> DEFINE read == [url |-> calls[c].url, key |-> C!Value("key")]
             found == IF calls[c].purpose = "use" THEN {r \in {read} : C!Configured(r)}
                                                  ELSE C!Resolved(calls[c].asked, read)
             Sent(f) == [calls[c] EXCEPT
                            !.step = IF calls[c].purpose = "store" THEN "writing" ELSE "sent",
                            !.found = f]
  <2>0. calls[c].step = "key"
    BY <1>4 DEF C!ReadKey
  <2>1. calls[c] # C!Idle /\ calls[c].step = "key"
    BY <2>0, HasStep
  <2>2. CASE C!Rest(c)
    BY <1>4, <2>2, Rests DEF C!ReadKey, C!environment
  <2>3. ASSUME NEW f \in found, C!Becomes(c, Sent(f)) PROVE SecretsInv'
    <3>1. C!Value("key") \in ApiKeys \cup {None}
      BY <1>0, PresentTyped, Fields
    <3>2. f \in C!Connector
      BY <1>0, <2>1, <2>3, <3>1, InFlight DEF C!Resolved, C!Connector
    <3>3. /\ Sent(f) \in C!Call /\ Sent(f).step \in {"sent", "writing"} /\ Sent(f).found = f
          /\ Sent(f).asked = calls[c].asked /\ Sent(f).crossed = calls[c].crossed
          /\ calls[c].purpose # "store" => Sent(f).step = "sent"
      BY <1>0, <2>1, <3>2, InFlight DEF C!Call
    <3>4. ASSUME ~muddled, ~calls[c].crossed PROVE Knows(Sent(f))
      <4>1. Knows(calls[c]) /\ ~C!Strays(Present)
        BY <3>4 DEF SecretsInv
      <4>2. read = Present
        BY <2>1, <3>4, <4>1 DEF Knows, Present
      <4>3. CASE calls[c].purpose = "use"
        <5>1. f = Present
          BY <2>3, <4>2, <4>3
        <5>2. pinned.url # None => f.url = pinned.url
          BY <1>0, <5>1, PresentTyped DEF C!Value
        <5>3. pinned.key # None => f.key = pinned.key
          BY <1>0, <5>1, PresentTyped DEF C!Value
        <5> QED
          BY <2>1, <3>3, <3>4, <4>1, <5>1, <5>2, <5>3 DEF Knows
      <4>4. CASE calls[c].purpose # "use"
        <5>1. f \in C!Resolved(calls[c].asked, Present)
          BY <2>3, <4>2, <4>4
        <5>2. ~C!Strays(f) /\ (pinned.url # None => f.url = pinned.url)
              /\ (pinned.key # None => f.key = pinned.key)
          BY <1>0, <2>1, <3>4, <4>1, <5>1, InFlight, ResolvedStays DEF Knows
        <5> QED
          BY <2>1, <3>3, <3>4, <4>1, <5>2 DEF Knows
      <4> QED
        BY <4>3, <4>4
    <3>5. ~muddled => Knows(Sent(f))
      BY <3>3, <3>4 DEF Knows
    <3> QED
      BY <1>4, <2>3, <3>3, <3>5, Moves DEF C!ReadKey, C!environment
  <2> QED
    BY <1>4, <2>2, <2>3 DEF C!ReadKey
<1>5. ASSUME NEW c \in Clients, C!Answer(c) PROVE SecretsInv'
  <2>1. calls[c] # C!Idle /\ calls[c].step = "sent"
    BY <1>5, HasStep DEF C!Answer
  <2>2. CASE C!Rest(c)
    BY <1>5, <2>2, Rests DEF C!Answer, C!environment
  <2>3. ASSUME NEW call, C!Becomes(c, call),
               \/ call = [calls[c] EXCEPT !.step = "writing"]
               \/ call = [calls[c] EXCEPT !.step = "url", !.purpose = "store", !.url = None]
        PROVE  SecretsInv'
    <3>1. /\ call \in C!Call /\ call.asked = calls[c].asked /\ call.found = calls[c].found
          /\ call.crossed = calls[c].crossed /\ call.step \in {"writing", "url"}
      BY <1>0, <2>1, <2>3, InFlight DEF C!Call
    <3>2. ~muddled => Knows(call)
      BY <2>1, <3>1 DEF Knows, SecretsInv
    <3> QED
      BY <1>5, <2>3, <3>1, <3>2, Moves DEF C!Answer, C!environment
  <2> QED
    BY <1>5, <2>2, <2>3 DEF C!Answer
<1>6. ASSUME NEW c \in Clients, C!Write(c) PROVE SecretsInv'
  <2>1. calls[c] # C!Idle /\ calls[c].step = "writing"
    BY <1>6, HasStep DEF C!Write
  <2> DEFINE found == calls[c].found
  <2>2. found \in C!Connector /\ calls[c].crossed \in BOOLEAN
    BY <1>0, <2>1, InFlight
  <2>3. /\ stored' = C!Writable(found) /\ UNCHANGED <<kind, pinned>>
        /\ first' = IF pinned.key # None /\ first = None THEN found.url ELSE first
        /\ muddled' = (muddled \/ calls[c].crossed)
        /\ calls' = C!Crossing(c)
    BY <1>6 DEF C!Write, C!environment
  <2>4. /\ stored' \in C!Connector
        /\ stored'.url = IF pinned.url # None THEN None ELSE found.url
        /\ stored'.key = IF pinned.key # None THEN None ELSE found.key
    BY <2>2, <2>3, Fields DEF C!Writable, C!Connector
  <2>5. calls' \in [Clients -> C!Call] /\ \A d \in Clients : Knows(calls[d])'
    BY <1>0, <2>3, AllCrossed DEF C!Crossing
  <2>6. C!TypeOK'
    BY <1>0, <2>2, <2>3, <2>4, <2>5, Fields DEF C!TypeOK
  <2>7. ASSUME ~muddled' PROVE ~C!Strays(Present)'
    <3>1. /\ ~C!Strays(found) /\ ~C!Strays(Present)
          /\ pinned.url # None => found.url = pinned.url
          /\ pinned.key # None => found.key = pinned.key
      BY <2>1, <2>2, <2>3, <2>7 DEF SecretsInv, Knows
    <3>2. Present' = found
      BY <2>2, <2>3, <2>4, <3>1, Fields DEF Present, C!Value
    <3> QED
      BY <2>3, <3>1, <3>2 DEF C!Strays
  <2> QED
    BY <2>5, <2>6, <2>7 DEF SecretsInv
<1>7. CASE C!Remove
  <2>1. /\ stored' = C!Nothing /\ UNCHANGED <<kind, pinned, first, muddled>> /\ pinned.key = None
        /\ calls' = [c \in Clients |-> IF calls[c] = C!Idle THEN C!Idle
                                      ELSE [calls[c] EXCEPT !.crossed = TRUE]]
    BY <1>7 DEF C!Remove, C!environment
  <2>2. calls' \in [Clients -> C!Call] /\ \A d \in Clients : Knows(calls[d])'
    BY <1>0, <2>1, AllCrossed
  <2>3. C!Nothing \in C!Connector /\ C!Nothing.key = None
    BY DEF C!Nothing, C!Connector
  <2>4. C!TypeOK'
    BY <1>0, <2>1, <2>2, <2>3 DEF C!TypeOK
  <2>5. Present'.key = None
    BY <2>1, <2>3 DEF Present, C!Value
  <2> QED
    BY <2>2, <2>4, <2>5 DEF SecretsInv, C!Strays
<1>8. CASE UNCHANGED C!vars
  BY <1>8 DEF C!vars, SecretsInv, C!TypeOK, Knows, Present, C!Strays, C!Value, C!Unlocked
<1> QED
  BY <1>1, <1>2, <1>3, <1>4, <1>5, <1>6, <1>7, <1>8 DEF C!Next

\* A run that is about connectors is one of Connectors, and any other leaves them be.
LEMMA ConnectorsAlone ==
    /\ MCInit => C!Init
    /\ [MCNext]_MCVars => [C!Next]_C!vars
<1>1. MCInit => C!Init
  BY DEF MCInit, C!Init, C!Kinds, C!Connector, C!Nothing, C!Idle
<1> QED
  BY <1>1 DEF MCNext, MCVars, C!vars, ofConnectors

\* A key never goes to another address than the one it is meant for, with any number
\* of addresses, keys and requests, as long as no save that another write had crossed
\* was stored and the request itself was not crossed (connectors/service.py resolve,
\* save and _store).
THEOREM SecretsStay == MCSpec => []SecretsStayAtTheirAddress
<1>1. SecretsInv => SecretsStayAtTheirAddress
  BY DEF SecretsInv, Knows, SecretsStayAtTheirAddress, C!SecretsStayAtTheirAddress
<1> QED
  BY <1>1, ConnectorsAlone, ConnectorsInit, ConnectorsNext, PTL DEF MCSpec

-----------------------------------------------------------------------------
(* Startup: the key and the backup.                                          *)

\* The steps of whoever holds the lock.
Migrating == {"look", "copy", "verify", "prune", "upgrade"}

\* The key a process goes on with is the environment's or the file's, and so is the
\* one a secret is encrypted with.
KeyInv ==
    /\ given = "key" =>
         /\ \A p \in ServerRuns : ~S!At(p, "key") /\ ~S!At(p, "link")
         /\ \A p \in S!Holding : processes[p].key = 0
         /\ sealed \in {None, 0}
    /\ given # "key" =>
         /\ \A p \in S!Holding : processes[p].key = keyFile
         /\ sealed \in {None, keyFile}
    /\ \A p \in S!Holding : processes[p].key \in Nat

\* From the time it looked until it upgrades.
BackingUp == {"copy", "verify", "prune"}

\* The backup of p is the newest there is, and of the schema p is to upgrade; once
\* it is copied, it holds all p saw unless it is broken, and once it is verified it
\* is not.
NewestIsOwn(p) ==
    \E b \in backups :
        /\ b.stamp = processes[p].saved /\ b.revision = database.revision
        /\ \A c \in backups : c.stamp <= b.stamp /\ (c.stamp = b.stamp => c = b)
        /\ S!At(p, "copy") \/ (b.whole => b.writes >= processes[p].known)
        /\ S!At(p, "prune") => b.whole

\* Whoever migrates holds the lock, what it looked at is still so, and its own
\* backup is the newest there is, as long as the clock was not set back.
Exclusive == \A p \in ServerRuns : processes[p].step \in Migrating => lock = p
StampsPass == ~steppedBack => \A b \in backups : b.stamp <= clock
OwnKept == \A p \in ServerRuns : processes[p].step \in BackingUp =>
              /\ processes[p].known <= database.writes
              /\ ~steppedBack => NewestIsOwn(p)
DueIsBacked == \A p \in ServerRuns :
    S!At(p, "upgrade") /\ database.revision # 0 /\ ~steppedBack => S!Backed(p)
BackupInv == Exclusive /\ StampsPass /\ OwnKept /\ DueIsBacked

StartupInv == S!TypeOK /\ KeyInv /\ BackupInv

\* A process that is migrating has a release, a key and what it saw.
LEMMA MigratingTyped ==
    ASSUME S!TypeOK, NEW p \in ServerRuns,
           processes[p].step \in {"key", "link", "lock"} \cup Migrating
    PROVE  /\ processes[p] \in [step : {"key", "link", "lock"} \cup Migrating, serves : BOOLEAN,
                                release : Releases, key : S!Keys, saved : 0 .. MaxStamp,
                                known : 0 .. MaxWrites]
           /\ processes[p].step \notin {"down", "start", "up"}
  BY DEF S!TypeOK, S!Process, S!Down, Migrating

\* On a fresh directory nobody holds a key, the lock or a backup.
LEMMA StartupInit == S!Init => StartupInv
<1> SUFFICES ASSUME S!Init PROVE StartupInv
  OBVIOUS
<1>1. \A p \in ServerRuns : processes[p] = S!Down /\ processes[p].step = "down"
  BY DEF S!Init, S!Down
<1>2. S!TypeOK
  <2>1. MaxBoots \in Nat /\ MaxWrites \in Nat /\ MaxStamp \in Nat \ {0}
    BY StartupAssumption DEF S!StartupAssumption
  <2>2. given \in {"unset", "key", "unreadable"} /\ keyFile \in S!KeyFile
    BY DEF S!Init, S!Given, S!KeyFile
  <2>3. database \in S!Database /\ boots \in 0 .. MaxBoots /\ clock \in 1 .. MaxStamp
    BY <2>1 DEF S!Init, S!Database, S!Revisions
  <2>4. processes \in [ServerRuns -> S!Process]
    BY DEF S!Init, S!Process
  <2> QED
    BY <2>2, <2>3, <2>4 DEF S!Init, S!TypeOK, S!Sealed
<1>3. S!Holding = {}
  BY <1>1 DEF S!Holding
<1> QED
  BY <1>1, <1>2, <1>3 DEF StartupInv, KeyInv, BackupInv, Exclusive, StampsPass, OwnKept, DueIsBacked,
       S!Init, S!At, Migrating, BackingUp

\* What a process that starts, ends or goes on becomes.
LEMMA Becoming ==
    ASSUME S!TypeOK, NEW p \in ServerRuns, NEW process \in S!Process, S!Becomes(p, process)
    PROVE  /\ processes' \in [ServerRuns -> S!Process] /\ processes'[p] = process
           /\ \A q \in ServerRuns \ {p} : processes'[q] = processes[q]
  BY DEF S!TypeOK, S!Becomes

\* One that goes on keeps what it drew, saw and saved.
LEMMA Going ==
    ASSUME S!TypeOK, NEW p \in ServerRuns, processes[p].step \in {"key", "link", "lock"} \cup Migrating,
           NEW step \in {"key", "link", "lock"} \cup Migrating, S!Goes(p, step)
    PROVE  /\ processes' \in [ServerRuns -> S!Process] /\ processes'[p].step = step
           /\ processes'[p].key = processes[p].key /\ processes'[p].known = processes[p].known
           /\ processes'[p].saved = processes[p].saved /\ processes'[p].release = processes[p].release
           /\ \A q \in ServerRuns \ {p} : processes'[q] = processes[q]
<1> DEFINE process == [processes[p] EXCEPT !.step = step]
<1>1. process \in S!Process
  BY MigratingTyped DEF S!Process, Migrating
<1> QED
  BY <1>1, MigratingTyped, Becoming DEF S!Goes

\* One whose schema is there goes on with its key.
LEMMA Starting ==
    ASSUME S!TypeOK, NEW p \in ServerRuns, processes[p].step \in {"lock"} \cup Migrating, S!Starts(p)
    PROVE  /\ processes' \in [ServerRuns -> S!Process]
           /\ processes'[p].step = "start" /\ processes'[p].key = processes[p].key
           /\ \A q \in ServerRuns \ {p} : processes'[q] = processes[q]
<1> DEFINE process == [step |-> "start", serves |-> processes[p].serves, key |-> processes[p].key]
<1>1. process \in S!Process
  BY MigratingTyped DEF S!Process
<1> QED
  BY <1>1, Becoming DEF S!Starts

\* One that ends frees the lock it held, and nobody else's.
LEMMA Ending ==
    ASSUME S!TypeOK, NEW p \in ServerRuns, S!Ends(p)
    PROVE  /\ processes' \in [ServerRuns -> S!Process] /\ processes'[p].step = "down"
           /\ lock' \in ServerRuns \cup {None} /\ (lock' = lock \/ lock = p)
           /\ \A q \in ServerRuns \ {p} : processes'[q] = processes[q]
<1>1. S!Down \in S!Process /\ S!Down.step = "down"
  BY DEF S!Process, S!Down
<1>2. lock' \in ServerRuns \cup {None} /\ (lock' = lock \/ lock = p)
  BY DEF S!Ends, S!TypeOK
<1> QED
  BY <1>1, <1>2, Becoming DEF S!Ends

\* One that serves has a key.
LEMMA ServingTyped ==
    ASSUME S!TypeOK, NEW p \in ServerRuns, processes[p].step \in {"start", "up"}
    PROVE  processes[p] \in [step : {"start", "up"}, serves : BOOLEAN, key : S!Keys]
  BY DEF S!TypeOK, S!Process, S!Down

\* An older schema is backed up first: a file is created, to be filled.
Found == [stamp |-> clock, revision |-> database.revision, writes |-> 0, whole |-> FALSE]
Copying(p) ==
    [processes[p] EXCEPT !.step = "copy", !.saved = clock, !.known = database.writes]
LooksBehind(p) ==
    /\ 0 < database.revision /\ database.revision < processes[p].release
    /\ \A b \in backups : b.stamp # clock
    /\ backups' = backups \cup {Found}
    /\ S!Becomes(p, Copying(p))
    /\ UNCHANGED lock

\* Every step of a start keeps its types.
LEMMA StartupNextTyped == S!TypeOK /\ [S!Next]_S!vars => S!TypeOK'
<1> SUFFICES ASSUME S!TypeOK, [S!Next]_S!vars PROVE S!TypeOK'
  OBVIOUS
<1>0. MaxBoots \in Nat /\ MaxWrites \in Nat /\ MaxStamp \in Nat \ {0} /\ Releases \subseteq Nat \ {0}
  BY StartupAssumption DEF S!StartupAssumption
<1>1. ASSUME NEW p \in ServerRuns, NEW release \in Releases, NEW serves \in BOOLEAN,
             S!Boot(p, release, serves)
      PROVE  S!TypeOK'
  <2> DEFINE process == [step |-> IF given = "key" THEN "lock" ELSE "key", serves |-> serves,
                         release |-> release, key |-> IF given = "key" THEN 0 ELSE boots',
                         saved |-> 0, known |-> 0]
  <2>1. boots' \in 0 .. MaxBoots /\ process \in S!Process
    BY <1>0, <1>1 DEF S!Boot, S!Process, S!TypeOK, S!Keys
  <2> QED
    BY <1>1, <2>1, Becoming DEF S!Boot, S!TypeOK, S!time
<1>2. ASSUME NEW p \in ServerRuns, S!ReadKey(p) \/ S!LinkKey(p) PROVE S!TypeOK'
  <2>1. processes[p].step \in {"key", "link"}
    BY <1>2 DEF S!ReadKey, S!LinkKey, S!At
  <2>2. CASE keyFile # None /\ S!Read(p) /\ UNCHANGED keyFile
    <3>1. CASE S!Ends(p)
      BY <1>2, <2>2, <3>1, Ending DEF S!ReadKey, S!LinkKey, S!TypeOK, S!time
    <3>2. CASE keyFile \in S!Keys /\ S!Becomes(p, [processes[p] EXCEPT !.step = "lock", !.key = keyFile])
               /\ UNCHANGED lock
      <4>1. [processes[p] EXCEPT !.step = "lock", !.key = keyFile] \in S!Process
        BY <2>1, <3>2, MigratingTyped DEF S!Process, Migrating
      <4> QED
        BY <1>2, <2>2, <3>2, <4>1, Becoming DEF S!ReadKey, S!LinkKey, S!TypeOK, S!time
    <3> QED
      BY <2>2, <3>1, <3>2 DEF S!Read, S!TypeOK, S!KeyFile
  <2>3. CASE S!Goes(p, "link") /\ UNCHANGED <<lock, keyFile>>
    BY <1>2, <2>1, <2>3, Going DEF S!ReadKey, S!LinkKey, S!TypeOK, S!time
  <2>4. CASE S!Goes(p, "lock") /\ UNCHANGED lock /\ keyFile' = processes[p].key
    BY <1>2, <2>1, <2>4, Going, MigratingTyped DEF S!ReadKey, S!LinkKey, S!TypeOK, S!time, S!KeyFile
  <2> QED
    BY <1>2, <2>2, <2>3, <2>4 DEF S!ReadKey, S!LinkKey
<1>3. ASSUME NEW p \in ServerRuns, S!TakeLock(p) PROVE S!TypeOK'
  BY <1>3, Going DEF S!TakeLock, S!At, S!TypeOK, S!time, Migrating
<1>4. ASSUME NEW p \in ServerRuns, S!Look(p) PROVE S!TypeOK'
  <2>1. processes[p].step = "look"
    BY <1>4 DEF S!Look, S!At
  <2>2. CASE S!Starts(p) /\ lock' = None /\ UNCHANGED backups
    BY <1>4, <2>1, <2>2, Starting DEF S!Look, S!TypeOK, S!time, Migrating
  <2>3. CASE S!Ends(p) /\ UNCHANGED backups
    BY <1>4, <2>3, Ending DEF S!Look, S!TypeOK, S!time
  <2>4. CASE S!Goes(p, "upgrade") /\ UNCHANGED <<backups, lock>>
    BY <1>4, <2>1, <2>4, Going DEF S!Look, S!TypeOK, S!time, Migrating
  <2>5. CASE LooksBehind(p)
    <3>1. Found \in S!Backup
      BY <1>0, <2>5 DEF LooksBehind, Found, S!Backup, S!TypeOK, S!Database, S!Revisions
    <3>2. Copying(p) \in S!Process
      <4>1. clock \in 0 .. MaxStamp /\ database.writes \in 0 .. MaxWrites
        BY <1>0 DEF S!TypeOK, S!Database
      <4>2. "copy" \in {"key", "link", "lock"} \cup Migrating /\ "look" \in {"key", "link", "lock"} \cup Migrating
        BY DEF Migrating
      <4>3. Copying(p) \in [step : {"key", "link", "lock"} \cup Migrating, serves : BOOLEAN,
                            release : Releases, key : S!Keys, saved : 0 .. MaxStamp,
                            known : 0 .. MaxWrites]
        BY <2>1, <4>1, <4>2, MigratingTyped DEF Copying
      <4> QED
        BY <4>3 DEF S!Process, Migrating
    <3> QED
      BY <1>4, <2>5, <3>1, <3>2, Becoming DEF LooksBehind, S!Look, S!TypeOK, S!time
  <2> QED
    BY <1>4, <2>2, <2>3, <2>4, <2>5 DEF S!Look, LooksBehind, Found, Copying
<1>5. ASSUME NEW p \in ServerRuns, S!Copy(p) PROVE S!TypeOK'
  <2>1. backups' \subseteq S!Backup
    <3>1. PICK whole \in BOOLEAN :
            backups' = (backups \ S!Own(p)) \cup
                       {[b EXCEPT !.writes = database.writes, !.whole = whole] : b \in S!Own(p)}
      BY <1>5 DEF S!Copy
    <3>2. \A b \in S!Backup : [b EXCEPT !.writes = database.writes, !.whole = whole] \in S!Backup
      BY DEF S!Backup, S!TypeOK, S!Database
    <3> QED
      BY <3>1, <3>2 DEF S!Own, S!TypeOK
  <2> QED
    BY <1>5, <2>1, Going DEF S!Copy, S!At, S!TypeOK, S!time, Migrating
<1>6. ASSUME NEW p \in ServerRuns, S!Verify(p) \/ S!Prune(p) PROVE S!TypeOK'
  <2>1. processes[p].step \in {"verify", "prune"} /\ backups' \subseteq S!Backup
    BY <1>6 DEF S!Verify, S!Prune, S!At, S!Recent, S!Own, S!TypeOK
  <2>2. CASE (S!Goes(p, "prune") \/ S!Goes(p, "upgrade")) /\ UNCHANGED lock
    BY <1>6, <2>1, <2>2, Going DEF S!Verify, S!Prune, S!TypeOK, S!time, Migrating
  <2>3. CASE S!Ends(p)
    BY <1>6, <2>1, <2>3, Ending DEF S!Verify, S!Prune, S!TypeOK, S!time
  <2> QED
    BY <1>6, <2>2, <2>3 DEF S!Verify, S!Prune
<1>7. ASSUME NEW p \in ServerRuns, S!Upgrade(p) PROVE S!TypeOK'
  <2>1. processes[p].step = "upgrade"
    BY <1>7 DEF S!Upgrade, S!At
  <2>2. CASE database' = [database EXCEPT !.revision = processes[p].release]
             /\ S!Starts(p) /\ lock' = None
    <3>1. database' \in S!Database
      BY <2>1, <2>2, MigratingTyped DEF S!TypeOK, S!Database, S!Revisions, Migrating
    <3> QED
      BY <1>7, <2>1, <2>2, <3>1, Starting DEF S!Upgrade, S!TypeOK, S!time, Migrating
  <2>3. CASE S!Ends(p) /\ UNCHANGED database
    BY <1>7, <2>3, Ending DEF S!Upgrade, S!TypeOK, S!time
  <2> QED
    BY <1>7, <2>2, <2>3 DEF S!Upgrade
<1>8. ASSUME NEW p \in ServerRuns, S!Start(p) PROVE S!TypeOK'
  <2>1. [processes[p] EXCEPT !.step = "up"] \in S!Process
    BY <1>8, ServingTyped DEF S!Start, S!At, S!Process
  <2> QED
    BY <1>8, <2>1, Becoming DEF S!Start, S!Goes, S!TypeOK, S!time
<1>9. ASSUME NEW p \in ServerRuns, S!Write(p) PROVE S!TypeOK'
  <2>1. processes[p].key \in S!Keys
    BY <1>9, ServingTyped DEF S!Write, S!At
  <2>2. database' \in S!Database
    BY <1>0, <1>9 DEF S!Write, S!TypeOK, S!Database
  <2>3. CASE UNCHANGED <<processes, lock>>
    BY <1>9, <2>1, <2>2, <2>3 DEF S!Write, S!TypeOK, S!time, S!Sealed
  <2>4. CASE S!Ends(p)
    BY <1>9, <2>1, <2>2, <2>4, Ending DEF S!Write, S!TypeOK, S!time, S!Sealed
  <2> QED
    BY <1>9, <2>3, <2>4 DEF S!Write
<1>10. ASSUME NEW p \in ServerRuns, S!Work(p) \/ S!Finish(p) PROVE S!TypeOK'
  BY <1>10 DEF S!Work, S!Finish, S!TypeOK, S!time
<1>11. ASSUME NEW p \in ServerRuns, S!Stop(p) PROVE S!TypeOK'
  BY <1>11, Ending DEF S!Stop, S!TypeOK, S!time
<1>12. CASE S!Tick
  <2>1. clock' \in 1 .. MaxStamp /\ steppedBack' \in BOOLEAN
    <3>1. CASE clock < MaxStamp /\ clock' = clock + 1 /\ UNCHANGED steppedBack
      BY <1>0, <3>1 DEF S!TypeOK
    <3>2. CASE clock' \in 1 .. clock - 1 /\ steppedBack' = TRUE
      BY <1>0, <3>2 DEF S!TypeOK
    <3> QED
      BY <1>12, <3>1, <3>2 DEF S!Tick
  <2> QED
    BY <1>12, <2>1 DEF S!Tick, S!TypeOK
<1>13. CASE UNCHANGED S!vars
  BY <1>13 DEF S!vars, S!TypeOK
<1> QED
  BY <1>1, <1>2, <1>3, <1>4, <1>5, <1>6, <1>7, <1>8, <1>9, <1>10, <1>11, <1>12, <1>13 DEF S!Next

\* A step that changes no key but ends a process, or moves it on with its own.
LEMMA KeysRest ==
    ASSUME KeyInv, UNCHANGED <<given, keyFile, sealed>>,
           \A q \in ServerRuns : \/ processes'[q] = processes[q]
                             \/ processes'[q].step = "down"
                             \/ /\ q \in S!Holding /\ processes'[q].key = processes[q].key
                                /\ processes'[q].step \notin {"down", "key", "link"}
    PROVE  KeyInv'
  BY DEF KeyInv, S!Holding, S!At

\* A secret is encrypted with, and a process goes on with, the one key there is.
LEMMA KeyNext == StartupInv /\ [S!Next]_S!vars => KeyInv'
<1> SUFFICES ASSUME StartupInv, [S!Next]_S!vars PROVE KeyInv'
  OBVIOUS
<1>0. S!TypeOK /\ KeyInv /\ None \notin Nat /\ MaxBoots \in Nat
  BY StartupAssumption DEF StartupInv, S!StartupAssumption
<1>1. ASSUME NEW p \in ServerRuns, NEW release \in Releases, NEW serves \in BOOLEAN,
             S!Boot(p, release, serves)
      PROVE  KeyInv'
  <2> DEFINE process == [step |-> IF given = "key" THEN "lock" ELSE "key", serves |-> serves,
                         release |-> release, key |-> IF given = "key" THEN 0 ELSE boots',
                         saved |-> 0, known |-> 0]
  <2>1. processes'[p] = process /\ \A q \in ServerRuns \ {p} : processes'[q] = processes[q]
    BY <1>0, <1>1 DEF S!Boot, S!Becomes, S!TypeOK
  <2>2. UNCHANGED <<given, keyFile, sealed>>
    BY <1>1 DEF S!Boot
  <2> QED
    BY <1>0, <2>1, <2>2 DEF KeyInv, S!Holding, S!At
<1>2. ASSUME NEW p \in ServerRuns, S!ReadKey(p) \/ S!LinkKey(p) PROVE KeyInv'
  <2>1. /\ processes[p].step \in {"key", "link"} /\ given # "key"
        /\ UNCHANGED <<given, sealed>>
    BY <1>0, <1>2 DEF S!ReadKey, S!LinkKey, S!At, KeyInv
  <2>2. CASE keyFile # None /\ S!Read(p) /\ UNCHANGED keyFile
    <3>1. CASE S!Ends(p)
      BY <1>0, <2>1, <2>2, <3>1, Ending, KeysRest
    <3>2. CASE keyFile \in S!Keys /\ S!Becomes(p, [processes[p] EXCEPT !.step = "lock", !.key = keyFile])
      <4>1. /\ processes'[p].step = "lock" /\ processes'[p].key = keyFile
            /\ \A q \in ServerRuns \ {p} : processes'[q] = processes[q]
        BY <1>0, <2>1, <3>2, MigratingTyped DEF S!Becomes, S!TypeOK
      <4> QED
        BY <1>0, <2>1, <2>2, <3>2, <4>1 DEF KeyInv, S!Holding, S!At, S!Keys
    <3> QED
      BY <1>0, <2>2, <3>1, <3>2 DEF S!Read, S!TypeOK, S!KeyFile
  <2>3. CASE S!Goes(p, "link") /\ UNCHANGED <<lock, keyFile>>
    <3>1. processes'[p].step = "link" /\ \A q \in ServerRuns \ {p} : processes'[q] = processes[q]
      BY <1>0, <2>1, <2>3, Going
    <3> QED
      BY <1>0, <2>1, <2>3, <3>1 DEF KeyInv, S!Holding, S!At
  <2>4. CASE keyFile = None /\ S!Goes(p, "lock") /\ keyFile' = processes[p].key
    <3>1. /\ processes'[p].step = "lock" /\ processes'[p].key = processes[p].key
          /\ \A q \in ServerRuns \ {p} : processes'[q] = processes[q]
      BY <1>0, <2>1, <2>4, Going
    <3>2. processes[p].key \in Nat
      BY <1>0, <2>1, MigratingTyped DEF S!Keys
    <3>3. S!Holding = {} /\ sealed = None
      BY <1>0, <2>1, <2>4 DEF KeyInv
    <3> QED
      BY <1>0, <2>1, <2>4, <3>1, <3>2, <3>3 DEF KeyInv, S!Holding, S!At
  <2> QED
    BY <1>2, <2>2, <2>3, <2>4 DEF S!ReadKey, S!LinkKey
<1>3. ASSUME NEW p \in ServerRuns,
             S!TakeLock(p) \/ S!Look(p) \/ S!Copy(p) \/ S!Verify(p) \/ S!Prune(p) \/ S!Upgrade(p)
      PROVE  KeyInv'
  <2>1. UNCHANGED <<given, keyFile, sealed>> /\ processes[p].step \in {"lock"} \cup Migrating
    BY <1>3 DEF S!TakeLock, S!Look, S!Copy, S!Verify, S!Prune, S!Upgrade, S!At, Migrating
  <2>2. p \in S!Holding
    BY <2>1 DEF S!Holding, Migrating
  <2>3. CASE S!Ends(p)
    BY <1>0, <2>1, <2>3, Ending, KeysRest
  <2>4. CASE S!Starts(p)
    <3>1. /\ processes'[p].step = "start" /\ processes'[p].key = processes[p].key
          /\ \A q \in ServerRuns \ {p} : processes'[q] = processes[q]
      BY <1>0, <2>1, <2>4, Starting
    <3> QED
      BY <1>0, <2>1, <2>2, <3>1, KeysRest
  <2>5. ASSUME NEW step \in Migrating, S!Goes(p, step) PROVE KeyInv'
    <3>1. /\ processes'[p].step = step /\ processes'[p].key = processes[p].key
          /\ \A q \in ServerRuns \ {p} : processes'[q] = processes[q]
      BY <1>0, <2>1, <2>5, Going
    <3> QED
      BY <1>0, <2>1, <2>2, <3>1, KeysRest DEF Migrating
  <2>6. CASE LooksBehind(p)
    <3>1. /\ processes'[p].step = "copy" /\ processes'[p].key = processes[p].key
          /\ \A q \in ServerRuns \ {p} : processes'[q] = processes[q]
      BY <1>0, <2>1, <2>6, MigratingTyped DEF LooksBehind, Copying, S!Becomes, S!TypeOK
    <3> QED
      BY <1>0, <2>1, <2>2, <3>1, KeysRest
  <2>7. CASE S!Look(p)
    BY <2>3, <2>4, <2>5, <2>6, <2>7 DEF S!Look, LooksBehind, Found, Copying, Migrating
  <2> QED
    BY <1>3, <2>3, <2>4, <2>5, <2>7 DEF S!TakeLock, S!Copy, S!Verify, S!Prune, S!Upgrade, Migrating
<1>4. ASSUME NEW p \in ServerRuns, S!Start(p) PROVE KeyInv'
  <2>1. /\ processes'[p].step = "up" /\ processes'[p].key = processes[p].key /\ p \in S!Holding
        /\ \A q \in ServerRuns \ {p} : processes'[q] = processes[q]
    BY <1>0, <1>4, ServingTyped DEF S!Start, S!At, S!Goes, S!Becomes, S!TypeOK, S!Holding
  <2> QED
    BY <1>0, <1>4, <2>1, KeysRest DEF S!Start
<1>5. ASSUME NEW p \in ServerRuns, S!Write(p) PROVE KeyInv'
  <2>1. p \in S!Holding /\ sealed' \in {sealed, processes[p].key} /\ UNCHANGED <<given, keyFile>>
    BY <1>5 DEF S!Write, S!At, S!Holding
  <2>2. CASE UNCHANGED processes
    BY <1>0, <2>1, <2>2 DEF KeyInv, S!Holding, S!At
  <2>3. CASE S!Ends(p)
    <3>1. processes'[p].step = "down" /\ \A q \in ServerRuns \ {p} : processes'[q] = processes[q]
      BY <1>0, <2>3, Ending
    <3> QED
      BY <1>0, <2>1, <3>1 DEF KeyInv, S!Holding, S!At
  <2> QED
    BY <1>5, <2>2, <2>3 DEF S!Write
<1>6. ASSUME NEW p \in ServerRuns, S!Work(p) \/ S!Finish(p) PROVE KeyInv'
  BY <1>0, <1>6, KeysRest DEF S!Work, S!Finish
<1>7. ASSUME NEW p \in ServerRuns, S!Stop(p) PROVE KeyInv'
  BY <1>0, <1>7, Ending, KeysRest DEF S!Stop
<1>8. CASE S!Tick
  BY <1>0, <1>8, KeysRest DEF S!Tick
<1>9. CASE UNCHANGED S!vars
  BY <1>0, <1>9, KeysRest DEF S!vars
<1> QED
  BY <1>1, <1>2, <1>3, <1>4, <1>5, <1>6, <1>7, <1>8, <1>9 DEF S!Next

\* Nobody is backing up or about to upgrade after the step.
LEMMA NobodyMigrates ==
    ASSUME StampsPass',
           \A q \in ServerRuns : processes'[q].step \notin BackingUp \cup {"upgrade"},
           \A q \in ServerRuns : processes'[q].step = "look" => lock' = q
    PROVE  BackupInv'
  BY DEF BackupInv, Exclusive, OwnKept, DueIsBacked, S!At, Migrating, BackingUp

\* A step of a process that does not migrate, or no longer, or does not yet.
LEMMA BackupsRest ==
    ASSUME S!TypeOK, BackupInv, UNCHANGED <<backups, clock, steppedBack>>,
           database'.revision = database.revision,
           database'.writes \in Nat, database'.writes >= database.writes,
           NEW p \in ServerRuns, processes'[p].step \notin BackingUp \cup {"upgrade"},
           processes'[p].step = "look" => lock' = p,
           \A q \in ServerRuns \ {p} : processes'[q] = processes[q],
           \A q \in ServerRuns \ {p} : lock = q => lock' = q
    PROVE  BackupInv'
<1>1. ASSUME NEW q \in ServerRuns \ {p} PROVE NewestIsOwn(q)' <=> NewestIsOwn(q)
  BY <1>1 DEF NewestIsOwn, S!At
<1>2. ASSUME NEW q \in ServerRuns \ {p} PROVE S!Backed(q)' <=> S!Backed(q)
  BY <1>2 DEF S!Backed
<1>3. database.writes \in Nat /\ \A q \in ServerRuns : processes[q].step \in BackingUp => processes[q].known \in Nat
  BY MigratingTyped DEF S!TypeOK, S!Database, BackingUp, Migrating
<1>4. Exclusive' /\ StampsPass'
  BY DEF BackupInv, Exclusive, StampsPass, BackingUp, Migrating
<1>5. OwnKept'
  BY <1>1, <1>3 DEF BackupInv, OwnKept
<1>6. DueIsBacked'
  BY <1>2 DEF BackupInv, DueIsBacked, S!At
<1> QED
  BY <1>4, <1>5, <1>6 DEF BackupInv

\* Whoever is at work under the lock is the only one.
LEMMA Alone ==
    ASSUME BackupInv, NEW p \in ServerRuns, processes[p].step \in Migrating
    PROVE  lock = p /\ \A q \in ServerRuns \ {p} : processes[q].step \notin Migrating
  BY DEF BackupInv, Exclusive

\* What the oldest files are pruned down to holds the newest.
LEMMA NewestIsRecent ==
    ASSUME NEW files \in SUBSET S!Backup, NEW b \in files, \A c \in files : c.stamp <= b.stamp
    PROVE  b \in S!Recent(files)
<1>1. Kept \in Nat \ {0} /\ MaxStamp \in Nat
  BY StartupAssumption DEF S!StartupAssumption
<1>2. \A c \in files : c.stamp \in Nat
  BY <1>1 DEF S!Backup
<1>3. {c \in files : c.stamp > b.stamp} = {}
  BY <1>2
<1>4. S!Cardinality({}) = 0
  <2>1. S!Cardinality({}) = Cardinality({})
    BY DEF S!Cardinality, Cardinality
  <2> QED
    BY <2>1, FS_EmptySet
<1>5. S!Cardinality({c \in files : c.stamp > b.stamp}) < Kept
  BY <1>1, <1>3, <1>4
<1> QED
  BY <1>5, Zenon DEF S!Recent

\* What the numbers in it are.
LEMMA StartupNumbers ==
    ASSUME S!TypeOK
    PROVE  /\ database.writes \in Nat /\ database.revision \in Nat /\ clock \in Nat
           /\ \A b \in backups : b.stamp \in Nat /\ b.writes \in Nat
           /\ \A p \in ServerRuns : processes[p].step \in {"key", "link", "lock"} \cup Migrating =>
                processes[p].known \in Nat /\ processes[p].saved \in Nat
<1>0. MaxStamp \in Nat /\ MaxWrites \in Nat /\ Releases \subseteq Nat
  BY StartupAssumption DEF S!StartupAssumption
<1>1. database.writes \in Nat /\ database.revision \in Nat
  <2>1. /\ database.writes \in 0 .. MaxWrites
        /\ database.revision \in {0} \cup Releases
    BY DEF S!TypeOK, S!Database, S!Revisions
  <2>2. database.revision \in Nat
    <3>1. \A r \in {0} \cup Releases : r \in Nat
      BY <1>0
    <3> QED
      BY <2>1, <3>1
  <2> QED
    BY <1>0, <2>1, <2>2
<1>2. clock \in Nat
  BY <1>0 DEF S!TypeOK
<1>3. \A b \in backups : b \in S!Backup
  BY DEF S!TypeOK
<1>4. \A b \in backups : b.stamp \in Nat /\ b.writes \in Nat
  BY <1>0, <1>3 DEF S!Backup
<1>5. ASSUME NEW p \in ServerRuns, processes[p].step \in {"key", "link", "lock"} \cup Migrating
      PROVE  processes[p].known \in Nat /\ processes[p].saved \in Nat
  <2>1. processes[p].known \in 0 .. MaxWrites /\ processes[p].saved \in 0 .. MaxStamp
    BY <1>5, MigratingTyped
  <2> QED
    BY <1>0, <2>1
<1> QED
  BY <1>1, <1>2, <1>4, <1>5

\* The backup that an upgrade may lean on is there from before it to the end of it.
LEMMA BackupNext == StartupInv /\ [S!Next]_S!vars => BackupInv'
<1> SUFFICES ASSUME StartupInv, [S!Next]_S!vars PROVE BackupInv'
  OBVIOUS
<1>0. S!TypeOK /\ BackupInv /\ None \notin ServerRuns
  BY StartupAssumption DEF StartupInv, S!StartupAssumption
<1>1. ASSUME NEW p \in ServerRuns, NEW release \in Releases, NEW serves \in BOOLEAN,
             S!Boot(p, release, serves)
      PROVE  BackupInv'
  <2> DEFINE process == [step |-> IF given = "key" THEN "lock" ELSE "key", serves |-> serves,
                         release |-> release, key |-> IF given = "key" THEN 0 ELSE boots',
                         saved |-> 0, known |-> 0]
  <2>1. processes'[p] = process /\ \A q \in ServerRuns \ {p} : processes'[q] = processes[q]
    BY <1>0, <1>1 DEF S!Boot, S!Becomes, S!TypeOK
  <2>2. processes'[p].step \in {"lock", "key"}
    BY <2>1
  <2> QED
    BY <1>0, <1>1, <2>1, <2>2, BackupsRest, StartupNumbers DEF S!Boot, S!time, BackingUp
<1>2. ASSUME NEW p \in ServerRuns, S!ReadKey(p) \/ S!LinkKey(p) PROVE BackupInv'
  <2>1. processes[p].step \in {"key", "link"} /\ UNCHANGED <<database, backups, clock, steppedBack>>
    BY <1>2 DEF S!ReadKey, S!LinkKey, S!At, S!time
  <2>2. CASE S!Ends(p)
    BY <1>0, <2>1, <2>2, Ending, BackupsRest, StartupNumbers DEF BackingUp
  <2>3. CASE S!Becomes(p, [processes[p] EXCEPT !.step = "lock", !.key = keyFile]) /\ UNCHANGED lock
    <3>1. processes'[p].step = "lock" /\ \A q \in ServerRuns \ {p} : processes'[q] = processes[q]
      BY <1>0, <2>1, <2>3, MigratingTyped DEF S!Becomes, S!TypeOK
    <3> QED
      BY <1>0, <2>1, <2>3, <3>1, BackupsRest, StartupNumbers DEF BackingUp
  <2>4. ASSUME NEW step \in {"link", "lock"}, S!Goes(p, step), UNCHANGED lock PROVE BackupInv'
    <3>1. processes'[p].step = step /\ \A q \in ServerRuns \ {p} : processes'[q] = processes[q]
      BY <1>0, <2>1, <2>4, Going
    <3> QED
      BY <1>0, <2>1, <2>4, <3>1, BackupsRest, StartupNumbers DEF BackingUp
  <2> QED
    BY <1>2, <2>2, <2>3, <2>4 DEF S!ReadKey, S!LinkKey, S!Read
<1>3. ASSUME NEW p \in ServerRuns, S!TakeLock(p) PROVE BackupInv'
  <2>1. processes[p].step = "lock" /\ UNCHANGED <<database, backups, clock, steppedBack>>
        /\ lock' = p /\ lock = None
    BY <1>3 DEF S!TakeLock, S!At, S!time
  <2>2. processes'[p].step = "look" /\ \A q \in ServerRuns \ {p} : processes'[q] = processes[q]
    BY <1>0, <1>3, <2>1, Going DEF S!TakeLock, Migrating
  <2> QED
    BY <1>0, <2>1, <2>2, BackupsRest, StartupNumbers DEF BackingUp
<1>4. ASSUME NEW p \in ServerRuns, S!Start(p) PROVE BackupInv'
  <2>1. processes'[p].step = "up" /\ \A q \in ServerRuns \ {p} : processes'[q] = processes[q]
    BY <1>0, <1>4, ServingTyped DEF S!Start, S!At, S!Goes, S!Becomes, S!TypeOK
  <2> QED
    BY <1>0, <1>4, <2>1, BackupsRest, StartupNumbers DEF S!Start, S!time, BackingUp
<1>5. ASSUME NEW p \in ServerRuns, S!Write(p) PROVE BackupInv'
  <2>1. /\ database'.revision = database.revision /\ database'.writes = database.writes + 1
        /\ processes[p].step = "up" /\ UNCHANGED <<backups, clock, steppedBack>>
    BY <1>0, <1>5 DEF S!Write, S!TypeOK, S!Database, S!At, S!time
  <2>2. CASE UNCHANGED <<processes, lock>>
    BY <1>0, <2>1, <2>2, BackupsRest, StartupNumbers DEF BackingUp
  <2>3. CASE S!Ends(p)
    BY <1>0, <2>1, <2>3, Ending, BackupsRest, StartupNumbers DEF BackingUp
  <2> QED
    BY <1>5, <2>2, <2>3 DEF S!Write
<1>6. ASSUME NEW p \in ServerRuns, S!Work(p) \/ S!Finish(p) PROVE BackupInv'
  <2>1. /\ processes[p].step = "up"
        /\ UNCHANGED <<database, backups, clock, steppedBack, processes, lock>>
    BY <1>6 DEF S!Work, S!Finish, S!At, S!time
  <2> QED
    BY <1>0, <2>1, BackupsRest, StartupNumbers DEF BackingUp
<1>7. ASSUME NEW p \in ServerRuns, S!Stop(p) PROVE BackupInv'
  <2>1. UNCHANGED <<database, backups, clock, steppedBack>> /\ S!Ends(p)
    BY <1>7 DEF S!Stop, S!time
  <2> QED
    BY <1>0, <2>1, Ending, BackupsRest, StartupNumbers DEF BackingUp
<1>8. ASSUME NEW p \in ServerRuns, S!Look(p) PROVE BackupInv'
  <2>1. /\ processes[p].step = "look" /\ lock = p
        /\ UNCHANGED <<database, clock, steppedBack>>
        /\ \A q \in ServerRuns \ {p} : processes[q].step \notin Migrating
    BY <1>0, <1>8, Alone DEF S!Look, S!At, S!time, Migrating
  <2>2. CASE S!Starts(p) /\ UNCHANGED backups
    <3>1. processes'[p].step = "start" /\ \A q \in ServerRuns \ {p} : processes'[q] = processes[q]
      BY <1>0, <2>1, <2>2, Starting DEF Migrating
    <3> QED
      BY <1>0, <2>1, <2>2, <3>1, NobodyMigrates DEF BackupInv, StampsPass, Migrating, BackingUp
  <2>3. CASE S!Ends(p) /\ UNCHANGED backups
    BY <1>0, <2>1, <2>3, Ending, BackupsRest, StartupNumbers DEF BackingUp
  <2>4. CASE database.revision = 0 /\ S!Goes(p, "upgrade") /\ UNCHANGED <<backups, lock>>
    <3>1. processes'[p].step = "upgrade" /\ \A q \in ServerRuns \ {p} : processes'[q] = processes[q]
      BY <1>0, <2>1, <2>4, Going DEF Migrating
    <3> QED
      BY <1>0, <2>1, <2>4, <3>1 DEF BackupInv, Exclusive, StampsPass, OwnKept, DueIsBacked, Migrating, BackingUp, S!At
  <2>5. CASE LooksBehind(p)
    <3>1. /\ processes'[p].step = "copy" /\ processes'[p].saved = clock
          /\ processes'[p].known = database.writes
          /\ \A q \in ServerRuns \ {p} : processes'[q] = processes[q]
      BY <1>0, <2>1, <2>5, MigratingTyped DEF LooksBehind, Copying, S!Becomes, S!TypeOK, Migrating
    <3>2. /\ backups' = backups \cup {Found} /\ Found.stamp = clock
          /\ Found.revision = database.revision /\ \A b \in backups : b.stamp # clock
          /\ UNCHANGED lock
      BY <2>5 DEF LooksBehind, Found
    <3>3. Exclusive' /\ DueIsBacked'
      BY <1>0, <2>1, <3>1, <3>2 DEF BackupInv, Exclusive, DueIsBacked, Migrating, S!At
    <3>4. StampsPass'
      BY <1>0, <2>1, <3>2, StartupNumbers DEF BackupInv, StampsPass
    <3>5. ~steppedBack' => NewestIsOwn(p)'
      BY <1>0, <2>1, <3>1, <3>2, <3>4 DEF StampsPass, NewestIsOwn, S!At
    <3>6. OwnKept'
      BY <1>0, <2>1, <3>1, <3>5, StartupNumbers DEF OwnKept, Migrating, BackingUp
    <3> QED
      BY <3>3, <3>4, <3>6 DEF BackupInv
  <2> QED
    BY <1>8, <2>2, <2>3, <2>4, <2>5 DEF S!Look, LooksBehind, Found, Copying
<1>9. ASSUME NEW p \in ServerRuns, S!Copy(p) PROVE BackupInv'
  <2>1. /\ processes[p].step = "copy" /\ lock = p
        /\ UNCHANGED <<database, clock, steppedBack, lock>>
        /\ \A q \in ServerRuns \ {p} : processes[q].step \notin Migrating
    BY <1>0, <1>9, Alone DEF S!Copy, S!At, S!time, Migrating
  <2>2. /\ processes'[p].step = "verify" /\ processes'[p].saved = processes[p].saved
        /\ processes'[p].known = processes[p].known
        /\ \A q \in ServerRuns \ {p} : processes'[q] = processes[q]
    BY <1>0, <1>9, <2>1, Going DEF S!Copy, Migrating
  <2>3. PICK whole \in BOOLEAN :
          backups' = (backups \ S!Own(p)) \cup
                     {[b EXCEPT !.writes = database.writes, !.whole = whole] : b \in S!Own(p)}
    BY <1>9 DEF S!Copy
  <2>4. \A b \in backups : LET d == [b EXCEPT !.writes = database.writes, !.whole = whole] IN
          d.stamp = b.stamp /\ d.revision = b.revision /\ d.writes = database.writes
    BY <1>0 DEF S!TypeOK, S!Backup
  <2>5. \A c \in backups' : \E b \in backups : c.stamp = b.stamp
    BY <2>3, <2>4 DEF S!Own
  <2>6. Exclusive' /\ DueIsBacked'
    BY <1>0, <2>1, <2>2 DEF BackupInv, Exclusive, DueIsBacked, Migrating, S!At
  <2>7. StampsPass'
    BY <1>0, <2>1, <2>5 DEF BackupInv, StampsPass
  <2>8. ASSUME ~steppedBack PROVE NewestIsOwn(p)'
    <3>1. PICK b \in backups :
            /\ b.stamp = processes[p].saved /\ b.revision = database.revision
            /\ \A c \in backups : c.stamp <= b.stamp /\ (c.stamp = b.stamp => c = b)
      BY <1>0, <2>1, <2>8 DEF BackupInv, OwnKept, NewestIsOwn, BackingUp
    <3> DEFINE d == [b EXCEPT !.writes = database.writes, !.whole = whole]
    <3>2. S!Own(p) = {b}
      BY <3>1 DEF S!Own
    <3>3. backups' = (backups \ {b}) \cup {d}
      BY <2>3, <3>2
    <3>4. d.stamp = b.stamp /\ d.revision = b.revision /\ d.writes = database.writes
      BY <2>4
    <3>5. \A c \in backups' : c.stamp <= d.stamp /\ (c.stamp = d.stamp => c = d)
      BY <1>0, <3>1, <3>3, <3>4, StartupNumbers
    <3>6. database.writes >= processes[p].known
      BY <1>0, <2>1 DEF BackupInv, OwnKept, BackingUp
    <3> HIDE DEF d
    <3> QED
      BY <2>1, <2>2, <3>1, <3>3, <3>4, <3>5, <3>6 DEF NewestIsOwn, S!At
  <2>9. OwnKept'
    BY <1>0, <2>1, <2>2, <2>8 DEF BackupInv, OwnKept, Migrating, BackingUp
  <2> QED
    BY <2>6, <2>7, <2>9 DEF BackupInv
<1>10. ASSUME NEW p \in ServerRuns, S!Verify(p) PROVE BackupInv'
  <2>1. /\ processes[p].step = "verify" /\ lock = p
        /\ UNCHANGED <<database, clock, steppedBack>>
        /\ \A q \in ServerRuns \ {p} : processes[q].step \notin Migrating
    BY <1>0, <1>10, Alone DEF S!Verify, S!At, S!time, Migrating
  <2>2. CASE (\A b \in S!Own(p) : b.whole) /\ S!Goes(p, "prune") /\ UNCHANGED <<lock, backups>>
    <3>1. /\ processes'[p].step = "prune" /\ processes'[p].saved = processes[p].saved
          /\ processes'[p].known = processes[p].known
          /\ \A q \in ServerRuns \ {p} : processes'[q] = processes[q]
      BY <1>0, <2>1, <2>2, Going DEF Migrating
    <3>2. ~steppedBack => NewestIsOwn(p)'
      BY <1>0, <2>1, <2>2, <3>1 DEF BackupInv, OwnKept, NewestIsOwn, BackingUp, S!Own, S!At
    <3> QED
      BY <1>0, <2>1, <2>2, <3>1, <3>2
      DEF BackupInv, Exclusive, StampsPass, OwnKept, DueIsBacked, Migrating, BackingUp, S!At
  <2>3. CASE S!Ends(p) /\ backups' = backups \ S!Own(p)
    <3>1. processes'[p].step = "down" /\ \A q \in ServerRuns \ {p} : processes'[q] = processes[q]
      BY <1>0, <2>3, Ending
    <3>2. StampsPass'
      BY <1>0, <2>1, <2>3 DEF BackupInv, StampsPass
    <3> QED
      BY <2>1, <3>1, <3>2, NobodyMigrates DEF Migrating, BackingUp
  <2> QED
    BY <1>10, <2>2, <2>3 DEF S!Verify
<1>11. ASSUME NEW p \in ServerRuns, S!Prune(p) PROVE BackupInv'
  <2>1. /\ processes[p].step = "prune" /\ lock = p
        /\ UNCHANGED <<database, clock, steppedBack, lock>> /\ backups' = S!Recent(backups)
        /\ \A q \in ServerRuns \ {p} : processes[q].step \notin Migrating
    BY <1>0, <1>11, Alone DEF S!Prune, S!At, S!time, Migrating
  <2>2. /\ processes'[p].step = "upgrade" /\ processes'[p].known = processes[p].known
        /\ \A q \in ServerRuns \ {p} : processes'[q] = processes[q]
    BY <1>0, <1>11, <2>1, Going DEF S!Prune, Migrating
  <2>3. backups' \subseteq backups
    BY <2>1 DEF S!Recent
  <2>4. Exclusive' /\ StampsPass' /\ OwnKept'
    BY <1>0, <2>1, <2>2, <2>3 DEF BackupInv, Exclusive, StampsPass, OwnKept, Migrating, BackingUp
  <2>5. ASSUME ~steppedBack PROVE S!Backed(p)'
    <3>1. PICK b \in backups :
            /\ b.revision = database.revision /\ b.whole /\ b.writes >= processes[p].known
            /\ \A c \in backups : c.stamp <= b.stamp
      BY <1>0, <2>1, <2>5 DEF BackupInv, OwnKept, NewestIsOwn, BackingUp, S!At
    <3>2. b \in backups'
      BY <1>0, <2>1, <3>1, NewestIsRecent DEF S!TypeOK
    <3> QED
      BY <2>1, <2>2, <3>1, <3>2 DEF S!Backed
  <2>6. DueIsBacked'
    BY <1>0, <2>1, <2>2, <2>5 DEF BackupInv, DueIsBacked, Migrating, S!At
  <2> QED
    BY <2>4, <2>6 DEF BackupInv
<1>12. ASSUME NEW p \in ServerRuns, S!Upgrade(p) PROVE BackupInv'
  <2>1. /\ processes[p].step = "upgrade" /\ lock = p
        /\ UNCHANGED <<backups, clock, steppedBack>>
        /\ \A q \in ServerRuns \ {p} : processes[q].step \notin Migrating
    BY <1>0, <1>12, Alone DEF S!Upgrade, S!At, S!time, Migrating
  <2>2. processes'[p].step \in {"start", "down"} /\ \A q \in ServerRuns \ {p} : processes'[q] = processes[q]
    BY <1>0, <1>12, <2>1, Starting, Ending DEF S!Upgrade, Migrating
  <2> QED
    BY <1>0, <2>1, <2>2, NobodyMigrates DEF BackupInv, StampsPass, Migrating, BackingUp
<1>13. CASE S!Tick
  <2>1. UNCHANGED <<database, backups, processes, lock>>
    BY <1>13 DEF S!Tick
  <2>2. StampsPass' /\ (~steppedBack' => ~steppedBack)
    <3>1. CASE clock' = clock + 1 /\ UNCHANGED steppedBack
      BY <1>0, <2>1, <3>1, StartupNumbers DEF BackupInv, StampsPass
    <3>2. CASE steppedBack' = TRUE
      BY <3>2 DEF StampsPass
    <3> QED
      BY <1>13, <3>1, <3>2 DEF S!Tick
  <2>3. \A p \in ServerRuns : (NewestIsOwn(p)' <=> NewestIsOwn(p)) /\ (S!Backed(p)' <=> S!Backed(p))
    BY <2>1 DEF NewestIsOwn, S!Backed, S!At
  <2> QED
    BY <1>0, <2>1, <2>2, <2>3 DEF BackupInv, Exclusive, OwnKept, DueIsBacked, S!At
<1>14. CASE UNCHANGED S!vars
  <2>1. UNCHANGED <<database, backups, processes, lock, clock, steppedBack>>
    BY <1>14 DEF S!vars
  <2>2. \A p \in ServerRuns : (NewestIsOwn(p)' <=> NewestIsOwn(p)) /\ (S!Backed(p)' <=> S!Backed(p))
    BY <2>1 DEF NewestIsOwn, S!Backed, S!At
  <2> QED
    BY <1>0, <2>1, <2>2 DEF BackupInv, Exclusive, StampsPass, OwnKept, DueIsBacked, S!At
<1> QED
  BY <1>1, <1>2, <1>3, <1>4, <1>5, <1>6, <1>7, <1>8, <1>9, <1>10, <1>11, <1>12, <1>13, <1>14
  DEF S!Next

\* The start is one half of the composition: its initial states and its steps are
\* Startup's, or leave it alone.
LEMMA StartupAlone ==
    /\ MCInit => S!Init
    /\ [MCNext]_MCVars => [S!Next]_S!vars
<1>1. ASSUME MCInit PROVE S!Init
  BY <1>1 DEF MCInit, S!Init, S!Given
<1>2. ASSUME [MCNext]_MCVars PROVE [S!Next]_S!vars
  BY <1>2 DEF MCNext, MCVars, ofStartup, S!vars
<1> QED
  BY <1>1, <1>2

\* Whatever processes are started on one data directory, and whichever of them is
\* killed when: they agree on one master key, which every stored secret can be read
\* with, and no schema is upgraded without a sound backup of all it held, as long as
\* the clock is not set back (core/keys.py, storage/migrate.py).
THEOREM StartsKeepKeyAndBackup == MCSpec => StartsAreSafe
<1>1. MCInit => StartupInv
  BY StartupAlone, StartupInit
<1>2. StartupInv /\ [MCNext]_MCVars => StartupInv'
  BY StartupAlone, StartupNextTyped, KeyNext, BackupNext DEF StartupInv
<1>3. StartupInv => S!KeysAgree
  BY DEF StartupInv, KeyInv, S!KeysAgree, S!Holding
<1>4. StartupInv /\ [MCNext]_MCVars =>
        [\A p \in ServerRuns :
           S!At(p, "upgrade") /\ database'.revision # database.revision
           /\ database.revision # 0 /\ ~steppedBack => S!Backed(p)]_S!vars
  BY DEF StartupInv, BackupInv, DueIsBacked
<1> QED
  BY <1>1, <1>2, <1>3, <1>4, PTL DEF MCSpec, StartsAreSafe, S!UpgradesKeepABackup

-----------------------------------------------------------------------------
(* PublicUrl: the address stored is ours.                                   *)

\* What the changes in flight know: a proof under the host of the address typed came
\* back from this server itself, and only an address so proved is on its way into the
\* settings.
ChangesKnow ==
    \A c \in Changes :
        /\ A!At(c, "judging") /\ A!Proves(change[c].answer, change[c].url)
           => Via[change[c].url] = "own name"
        /\ change[c].step \in {"storing", "applying"} /\ change[c].url # None
           => Via[change[c].url] = "own name"

\* The inductive invariant.
AddressInv ==
    /\ change \in [Changes -> A!Change] /\ drawn \in 0 .. MaxNonces
    /\ address \in Urls \cup {None}
    /\ ChangesKnow /\ A!StoredAddressesAreOurs

\* Where a change is suspended says what is known of it.
LEMMA ChangeAt ==
    ASSUME NEW x \in A!Change
    PROVE  /\ x.step = "probing" => x.url \in Urls /\ x.nonce \in 1 .. MaxNonces
           /\ x.step = "judging" => x.url \in Urls
           /\ x.step \in {"storing", "applying"} => x.url \in Urls \cup {None}
<1>1. CASE x = A!Idle
  BY <1>1 DEF A!Idle
<1>2. CASE x \in [step : {"probing"}, url : Urls, nonce : 1 .. MaxNonces]
  BY <1>2
<1>3. CASE x \in [step : {"judging"}, url : Urls, nonce : 1 .. MaxNonces, answer : A!Proof]
  BY <1>3
<1>4. CASE x \in [step : {"storing", "applying"}, url : Urls \cup {None}]
  BY <1>4
<1> QED
  BY <1>1, <1>2, <1>3, <1>4 DEF A!Change

\* A change that goes on to a step it has earned leaves the others what they were.
LEMMA ChangeEarned ==
    ASSUME AddressInv, NEW c \in Changes, NEW next \in A!Change, A!Becomes(c, next),
           next.step = "judging" /\ A!Proves(next.answer, next.url) => Via[next.url] = "own name",
           next.step \in {"storing", "applying"} /\ next.url # None => Via[next.url] = "own name"
    PROVE  change' \in [Changes -> A!Change] /\ ChangesKnow'
<1>1. change' \in [Changes -> A!Change]
  BY DEF AddressInv, A!Becomes
<1>2. ASSUME NEW d \in Changes PROVE change'[d] = IF d = c THEN next ELSE change[d]
  BY DEF AddressInv, A!Becomes
<1> QED
  BY <1>1, <1>2 DEF AddressInv, ChangesKnow, A!At, A!Proves

LEMMA AddressInit == ASSUME A!Init PROVE AddressInv
<1>1. A!Idle \in A!Change /\ A!Idle.step = "idle"
  BY DEF A!Idle, A!Change
<1>2. change \in [Changes -> A!Change] /\ \A c \in Changes : change[c].step = "idle"
  BY <1>1 DEF A!Init
<1>3. drawn \in 0 .. MaxNonces /\ address = None
  BY PublicUrlAssumption DEF A!PublicUrlAssumption, A!Init
<1> QED
  BY <1>2, <1>3 DEF AddressInv, ChangesKnow, A!At, A!StoredAddressesAreOurs

LEMMA AddressNext == ASSUME AddressInv, [A!Next]_A!vars PROVE AddressInv'
<1> USE PublicUrlAssumption DEF A!PublicUrlAssumption
<1>a. /\ A!Idle \in A!Change
      /\ A!Idle.step = "idle"
  BY DEF A!Idle, A!Change
<1>1. ASSUME NEW c \in Changes, A!Clear(c) PROVE AddressInv'
  <2> DEFINE next == [step |-> "storing", url |-> None]
  <2>1. next \in A!Change /\ A!Becomes(c, next) /\ next.step = "storing" /\ next.url = None
    BY <1>1 DEF A!Clear, A!Change
  <2> HIDE DEF next
  <2>2. change' \in [Changes -> A!Change] /\ ChangesKnow'
    BY <2>1, ChangeEarned
  <2> QED
    BY <1>1, <2>2 DEF A!Clear, AddressInv, A!StoredAddressesAreOurs
<1>2. ASSUME NEW c \in Changes, NEW url \in Urls, A!Issue(c, url) PROVE AddressInv'
  <2> DEFINE next == [step |-> "probing", url |-> url, nonce |-> drawn + 1]
  <2>1. CASE UNCHANGED <<drawn, change>>
    BY <1>2, <2>1 DEF A!Issue, AddressInv, ChangesKnow, A!At, A!Proves, A!StoredAddressesAreOurs
  <2>2. CASE drawn < MaxNonces /\ drawn' = drawn + 1 /\ A!Becomes(c, next)
    <3>1. next \in A!Change /\ next.step = "probing"
      BY <2>2 DEF A!Change, AddressInv
    <3> HIDE DEF next
    <3>2. change' \in [Changes -> A!Change] /\ ChangesKnow'
      BY <2>2, <3>1, ChangeEarned
    <3>3. drawn' \in 0 .. MaxNonces
      BY <2>2 DEF AddressInv
    <3>4. UNCHANGED address
      BY <1>2 DEF A!Issue
    <3> QED
      BY <3>2, <3>3, <3>4 DEF AddressInv, A!StoredAddressesAreOurs
  <2> QED
    BY <1>2, <2>1, <2>2 DEF A!Issue
<1>3. ASSUME NEW c \in Changes, A!At(c, "probing"), NEW h \in Hosts \cup {None}, A!Answered(c, h),
             h = HostOf[change[c].url] => Via[change[c].url] = "own name",
             UNCHANGED <<address, drawn>>
      PROVE AddressInv'
  <2> DEFINE next == [step |-> "judging", url |-> change[c].url, nonce |-> change[c].nonce,
                      answer |-> [nonce |-> change[c].nonce, host |-> h]]
  <2>1. change[c].url \in Urls /\ change[c].nonce \in 1 .. MaxNonces
    BY <1>3, ChangeAt DEF AddressInv, A!At
  <2>2. next \in A!Change /\ A!Becomes(c, next)
    BY <1>3, <2>1 DEF A!Change, A!Proof, A!Answered
  <2>3. next.step = "judging" /\ next.url = change[c].url /\ next.answer.host = h
    OBVIOUS
  <2> HIDE DEF next
  <2>4. change' \in [Changes -> A!Change] /\ ChangesKnow'
    BY <1>3, <2>2, <2>3, ChangeEarned DEF A!Proves
  <2> QED
    BY <1>3, <2>4 DEF AddressInv, A!StoredAddressesAreOurs
<1>4. ASSUME NEW c \in Changes, NEW h \in Hosts, A!ServeInfo(c, h) PROVE AddressInv'
  <2>1. change[c].url \in Urls
    BY <1>4, ChangeAt DEF A!ServeInfo, AddressInv, A!At
  <2>2. A!At(c, "probing") /\ UNCHANGED <<address, drawn>>
    BY <1>4 DEF A!ServeInfo
  <2>3. PICK g \in {h, None} : A!Answered(c, g)
    BY <1>4 DEF A!ServeInfo
  <2>4. g = HostOf[change[c].url] => Via[change[c].url] = "own name"
    BY <1>4, <2>1, <2>3 DEF A!ServeInfo
  <2> QED
    BY <1>3, <2>2, <2>3, <2>4
<1>5. ASSUME NEW c \in Changes, A!NoProof(c) PROVE AddressInv'
  <2>1. A!At(c, "probing") /\ A!Answered(c, None) /\ UNCHANGED <<address, drawn>>
    BY <1>5 DEF A!NoProof
  <2>2. change[c].url \in Urls
    BY <2>1, ChangeAt DEF AddressInv, A!At
  <2>3. None # HostOf[change[c].url]
    BY <2>2
  <2> QED
    BY <1>3, <2>1, <2>3
<1>6. ASSUME NEW c \in Changes, A!Judge(c) PROVE AddressInv'
  <2> DEFINE proved == A!Proves(change[c].answer, change[c].url)
             next == IF proved THEN [step |-> "storing", url |-> change[c].url] ELSE A!Idle
  <2>1. change[c].url \in Urls /\ A!At(c, "judging") /\ UNCHANGED <<address, drawn>>
    BY <1>6, ChangeAt DEF A!Judge, AddressInv, A!At
  <2>2. next \in A!Change /\ A!Becomes(c, next)
    BY <1>6, <1>a, <2>1 DEF A!Judge, A!Change
  <2>3. next.step \in {"storing", "idle"}
    BY <1>a
  <2>4. next.step = "storing" => next.url = change[c].url /\ proved
    BY <1>a
  <2>5. proved => Via[change[c].url] = "own name"
    BY <2>1 DEF AddressInv, ChangesKnow
  <2> HIDE DEF next, proved
  <2>6. change' \in [Changes -> A!Change] /\ ChangesKnow'
    BY <2>2, <2>3, <2>4, <2>5, ChangeEarned
  <2> QED
    BY <2>1, <2>6 DEF AddressInv, A!StoredAddressesAreOurs
<1>7. ASSUME NEW c \in Changes, A!Store(c) PROVE AddressInv'
  <2> DEFINE next == [step |-> "applying", url |-> change[c].url]
  <2>1. change[c].url \in Urls \cup {None} /\ A!At(c, "storing")
    BY <1>7, ChangeAt DEF A!Store, AddressInv, A!At
  <2>2. change[c].url # None => Via[change[c].url] = "own name"
    BY <2>1 DEF AddressInv, ChangesKnow, A!At
  <2>3. next \in A!Change /\ A!Becomes(c, next) /\ next.step = "applying" /\ next.url = change[c].url
    BY <1>7, <2>1 DEF A!Store, A!Change
  <2> HIDE DEF next
  <2>4. change' \in [Changes -> A!Change] /\ ChangesKnow'
    BY <2>2, <2>3, ChangeEarned
  <2> QED
    BY <1>7, <2>1, <2>2, <2>4 DEF A!Store, AddressInv, A!StoredAddressesAreOurs
<1>8. ASSUME NEW c \in Changes, A!Becomes(c, A!Idle), UNCHANGED <<address, drawn>> PROVE AddressInv'
  <2>1. change' \in [Changes -> A!Change] /\ ChangesKnow'
    BY <1>8, <1>a, ChangeEarned
  <2> QED
    BY <1>8, <2>1 DEF AddressInv, A!StoredAddressesAreOurs
<1>9. ASSUME NEW c \in Changes, A!StoreFails(c) \/ A!Apply(c) PROVE AddressInv'
  BY <1>8, <1>9 DEF A!StoreFails, A!Apply
<1>10. CASE A!Restart
  <2>1. \A c \in Changes : change'[c] = A!Idle
    BY <1>10 DEF A!Restart
  <2>2. change' \in [Changes -> A!Change] /\ UNCHANGED <<address, drawn>>
    BY <1>10, <1>a DEF A!Restart
  <2> QED
    BY <2>1, <2>2, <1>a DEF AddressInv, ChangesKnow, A!At, A!StoredAddressesAreOurs
<1>11. CASE UNCHANGED <<address, drawn, change>>
  BY <1>11 DEF AddressInv, ChangesKnow, A!At, A!Proves, A!StoredAddressesAreOurs
<1>12. A!Tick \/ UNCHANGED A!vars => UNCHANGED <<address, drawn, change>>
  BY DEF A!Tick, A!vars
<1> QED
  BY <1>1, <1>2, <1>4, <1>5, <1>6, <1>7, <1>9, <1>10, <1>11, <1>12 DEF A!Next

\* A run that is about the public address is one of PublicUrl, any other leaves it be.
LEMMA AddressAlone ==
    /\ MCInit => A!Init
    /\ [MCNext]_MCVars => [A!Next]_A!vars
<1>1. MCInit => A!Init
  BY DEF MCInit
<1> QED
  BY <1>1 DEF MCNext, MCVars, A!vars, ofAddress

\* Whatever answers at the addresses typed, and however changes, failed saves and restarts
\* interleave, the address stored is one under which requests arrive at this server
\* (auth/publicurl.py: why the proof is bound to the host).
THEOREM StoredIsOurs == MCSpec => []StoredAddressesAreOurs
<1>1. AddressInv => StoredAddressesAreOurs
  BY DEF AddressInv, StoredAddressesAreOurs
<1> QED
  BY <1>1, AddressAlone, AddressInit, AddressNext, PTL DEF MCSpec

-----------------------------------------------------------------------------
(* Context: only hops of ours are believed.                                 *)

\* What a request is made of.
LEMMA RequestParts ==
    ASSUME NEW r \in N!Request
    PROVE  /\ r.route \in Seq(Machines) /\ Len(r.route) \in Nat \ {0}
           /\ \A i \in 2 .. Len(r.route) : r.route[i] \in Trusted
           /\ r.claims \in Seq(Machines \cup {N!Garbled})
           /\ r.proto \in Seq(N!Schemes \cup {N!Garbled})
           /\ r.said \in N!Schemes
<1>1. r.route \in N!Routes /\ r.claims \in N!Claims /\ r.said \in N!Schemes
  BY DEF N!Request
<1>2. r.proto \in N!SeqOf(N!Schemes \cup {N!Garbled}, 1)
  BY DEF N!Request
<1>3. ASSUME NEW values, NEW most, NEW entries \in N!SeqOf(values, most)
      PROVE  entries \in Seq(values)
  <2>1. PICK m \in 0 .. most : entries \in [1 .. m -> values]
    BY <1>3 DEF N!SeqOf
  <2> QED
    BY <2>1
<1>4. r.route \in Seq(Machines) /\ r.route # <<>> /\ \A i \in 2 .. Len(r.route) : r.route[i] \in Trusted
  BY <1>1, <1>3 DEF N!Routes
<1> QED
  BY <1>1, <1>2, <1>3, <1>4 DEF N!Claims

\* Behind a chain of trusted machines, the last stop is the one that called the first.
LEMMA NearestIsFirst ==
    ASSUME NEW r \in N!Request, Len(r.route) > 1, Head(r.route) \notin Trusted
    PROVE  N!NearestHop(N!Peer(r), N!Forwarded(r)) = Head(r.route)
<1> DEFINE entries == N!Forwarded(r)
           k == Len(r.claims) + 1
           stops == {i \in DOMAIN entries : entries[i] \notin Trusted}
           last == CHOOSE i \in stops : \A j \in stops : j <= i
<1>1. /\ r.route \in Seq(Machines) /\ \A i \in 2 .. Len(r.route) : r.route[i] \in Trusted
      /\ r.claims \in Seq(Machines \cup {N!Garbled})
  BY RequestParts
<1> DEFINE front == N!Front(r.route)
<1>2. /\ front \in Seq(Machines) /\ Len(front) = Len(r.route) - 1
      /\ \A i \in 1 .. Len(front) : front[i] = r.route[i]
  BY <1>1 DEF N!Front
<1>3. /\ entries = r.claims \o front
  BY DEF N!Forwarded
<1> HIDE DEF entries, front
<1> DEFINE claims == r.claims
<1>a. claims \in Seq(Machines \cup {N!Garbled}) /\ Len(claims) \in Nat /\ k = Len(claims) + 1
  BY <1>1
<1>b. Len(front) \in Nat \ {0} /\ Len(r.route) \in Nat
  BY <1>1, <1>2
<1>c. front \in Seq(Machines \cup {N!Garbled})
  BY <1>2
<1> HIDE DEF claims, k
<1>d. entries \in Seq(Machines \cup {N!Garbled}) /\ Len(entries) = Len(claims) + Len(front)
  BY <1>a, <1>c, <1>3 DEF claims
<1>4. /\ Len(entries) = Len(claims) + Len(front) /\ DOMAIN entries = 1 .. Len(entries)
      /\ Len(entries) \in Nat
      /\ entries # <<>>
  BY <1>a, <1>b, <1>d
<1>5. \A i \in 1 .. Len(front) : entries[Len(claims) + i] = front[i]
  BY <1>a, <1>b, <1>c, <1>3 DEF claims
<1>6. entries[k] = Head(r.route)
  <2>1. 1 \in 1 .. Len(front)
    BY <1>b
  <2>2. entries[k] = front[1] /\ front[1] = r.route[1]
    BY <1>2, <1>a, <1>5, <2>1
  <2>3. Head(r.route) = r.route[1]
    BY <1>1
  <2> QED
    BY <2>2, <2>3
<1>7. k \in stops
  BY <1>4, <1>6, <1>a, <1>b
<1>8. ASSUME NEW j \in stops PROVE j <= k
  <2>1. j \in 1 .. Len(entries) /\ entries[j] \notin Trusted
    BY <1>4
  <2>2. CASE j > k
    <3>1. PICK i \in 2 .. Len(front) : j = Len(claims) + i
      <4>1. j - Len(claims) \in 2 .. Len(front) /\ j = Len(claims) + (j - Len(claims))
        BY <1>a, <1>b, <1>4, <2>1, <2>2
      <4> QED
        BY <4>1
    <3>2. entries[j] = front[i] /\ i \in 1 .. Len(front)
      BY <1>b, <1>5, <3>1
    <3>3. front[i] = r.route[i] /\ i \in 2 .. Len(r.route)
      BY <1>2, <1>b, <3>1, <3>2
    <3> QED
      BY <1>1, <2>1, <3>2, <3>3
  <2> QED
    BY <1>a, <1>4, <2>1, <2>2
<1>9. last = k
  <2>1. \A i \in stops : i \in Nat
    BY <1>4
  <2>2. k \in Nat
    BY <1>a
  <2> HIDE DEF stops
  <2>3. \A i \in stops : (\A j \in stops : j <= i) => i = k
    <3>1. ASSUME NEW i \in stops, \A j \in stops : j <= i PROVE i = k
      <4>1. k <= i /\ i <= k
        BY <1>7, <1>8, <3>1
      <4> QED
        BY <2>1, <2>2, <4>1
    <3> QED
      BY <3>1
  <2>4. k \in stops /\ \A j \in stops : j <= k
    BY <1>7, <1>8
  <2> HIDE DEF last
  <2> QED
    BY <2>3, <2>4 DEF last
<1>10. N!NearestHop(N!Peer(r), entries) = entries[last]
  BY <1>4, <1>7 DEF N!NearestHop
<1> QED
  BY <1>6, <1>9, <1>10 DEF entries

\* The client of a request that an untrusted machine sent is that machine, and the scheme
\* is the one the nearest machine of ours was called with.
LEMMA OutsideIsTheClient ==
    ASSUME NEW r \in N!Request, Head(r.route) \notin Trusted
    PROVE  /\ N!Resolved(r).client = Head(r.route)
           /\ N!Resolved(r).scheme = IF Len(r.route) > 1 THEN r.said ELSE r.scheme
<1>1. /\ r.route \in Seq(Machines) /\ Len(r.route) \in Nat \ {0}
      /\ \A i \in 2 .. Len(r.route) : r.route[i] \in Trusted
      /\ r.proto \in Seq(N!Schemes \cup {N!Garbled}) /\ r.said \in N!Schemes
  BY RequestParts
<1>2. Head(r.route) \in Machines /\ Head(r.route) = r.route[1]
  BY <1>1
<1>3. CASE Len(r.route) > 1
  <2>1. N!Peer(r) \in Trusted
    BY <1>1, <1>3 DEF N!Peer, N!Last
  <2>2. N!ClientOf(N!Peer(r), N!Forwarded(r)) = Head(r.route)
    BY <1>2, <1>3, NearestIsFirst, ContextAssumption DEF N!ClientOf, N!ContextAssumption
  <2> DEFINE proto == r.proto
             values == Append(proto, r.said)
  <2>a. proto \in Seq(N!Schemes \cup {N!Garbled}) /\ r.said \in N!Schemes \cup {N!Garbled}
    BY <1>1
  <2>b. N!Proto(r) = values
    BY <1>3 DEF N!Proto
  <2> HIDE DEF proto
  <2>c. /\ values # <<>> /\ Len(values) = Len(proto) + 1 /\ values[Len(proto) + 1] = r.said
    BY <2>a
  <2>3. N!Proto(r) # <<>> /\ N!Last(N!Proto(r)) = r.said
    BY <2>b, <2>c DEF N!Last
  <2>4. N!SchemeOf(r.scheme, N!Proto(r)) = r.said
    BY <1>1, <2>3 DEF N!SchemeOf
  <2> QED
    BY <1>3, <2>1, <2>2, <2>4 DEF N!Resolved
<1>4. CASE Len(r.route) = 1
  <2>1. N!Peer(r) = Head(r.route)
    BY <1>2, <1>4 DEF N!Peer, N!Last
  <2> QED
    BY <1>4, <2>1 DEF N!Resolved
<1>5. Len(r.route) > 1 \/ Len(r.route) = 1
  <2>1. \A n \in Nat \ {0} : n > 1 \/ n = 1
    OBVIOUS
  <2> QED
    BY <1>1, <2>1
<1> QED
  BY <1>3, <1>4, <1>5

LEMMA HopsNext ==
    ASSUME N!OnlyTrustedHopsAreBelieved, [N!Next]_N!vars
    PROVE  N!OnlyTrustedHopsAreBelieved'
<1>1. CASE N!Receive
  <2>1. PICK request \in N!Request : seen' = [request |-> request, context |-> N!Resolved(request)]
    BY <1>1 DEF N!Receive
  <2>2. seen'.request = request /\ seen'.context = N!Resolved(request)
    BY <2>1
  <2> QED
    BY <2>2, OutsideIsTheClient DEF N!OnlyTrustedHopsAreBelieved
<1>2. CASE seen' = N!Nothing
  BY <1>2 DEF N!OnlyTrustedHopsAreBelieved
<1>3. CASE UNCHANGED seen
  BY <1>3 DEF N!OnlyTrustedHopsAreBelieved
<1> QED
  BY <1>1, <1>2, <1>3 DEF N!Next, N!Refuse, N!Route, N!Tick, N!vars

\* A run that is about the callers is one of Context, any other leaves it be.
LEMMA ContextAlone ==
    /\ MCInit => N!Init
    /\ [MCNext]_MCVars => [N!Next]_N!vars
<1>1. MCInit => N!Init
  BY DEF MCInit
<1> QED
  BY <1>1 DEF MCNext, MCVars, N!vars, ofContext

\* However many machines of ours a request crosses, and whatever the first machine outside
\* them wrote into the headers, that machine is the client the limits and the local-network
\* rule see (api/context.py RequestContextMiddleware, core/net.py forwarded_client).
THEOREM OnlyHopsOfOursCount == MCSpec => []OnlyTrustedHopsAreBelieved
<1>1. N!Init => N!OnlyTrustedHopsAreBelieved
  BY DEF N!Init, N!OnlyTrustedHopsAreBelieved
<1>2. OnlyTrustedHopsAreBelieved <=> N!OnlyTrustedHopsAreBelieved
  BY DEF OnlyTrustedHopsAreBelieved
<1> QED
  BY <1>1, <1>2, ContextAlone, HopsNext, PTL DEF MCSpec
=============================================================================

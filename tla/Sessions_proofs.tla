--------------------------- MODULE Sessions_proofs ---------------------------
(***************************************************************************)
(* Proofs about Sessions: the type invariant, and the inductive invariant   *)
(* that carries the safety of refresh tokens.                               *)
(***************************************************************************)
EXTENDS Sessions, TLAPS

-----------------------------------------------------------------------------
\* Every kind of session has a lifetime and an idle timeout (ABSOLUTE_LIFETIMES,
\* IDLE_TIMEOUTS).
LEMMA Lifetimes == Lifetime \in [Kinds -> Nat] /\ IdleTimeout \in [Kinds -> Nat]
<1>1. {MobileLifetime, WebLifetime, MobileIdle, WebIdle} \subseteq Nat
  BY TimesAssumption
<1> QED
  BY <1>1 DEF Lifetime, IdleTimeout, Kinds

(* What the operators of Tables keep.                                       *)

\* A revocation keeps every row, its owner and its end, and closes the rows it
\* names (repository.revoke and its variants).
LEMMA RevokedTable ==
    ASSUME IsTable(sessions, SessionIds, Session), NEW S, NEW why, why \in Reasons,
           NEW at, at \in Nat
    PROVE  /\ IsTable(Revoked(S, why, at), SessionIds, Session)
           /\ DOMAIN Revoked(S, why, at) = DOMAIN sessions
           /\ \A s \in DOMAIN sessions :
                /\ Revoked(S, why, at)[s].kind = sessions[s].kind
                /\ Revoked(S, why, at)[s].user = sessions[s].user
                /\ Revoked(S, why, at)[s].ends = sessions[s].ends
                /\ Revoked(S, why, at)[s].reason = "live" =>
                      s \notin S /\ sessions[s].reason = "live"
                /\ sessions[s].reason # "live" =>
                      Revoked(S, why, at)[s] = sessions[s]
<1> DEFINE T == Revoked(S, why, at)
<1>1. DOMAIN T = DOMAIN sessions
  BY DEF Revoked
<1>2. ASSUME NEW s \in DOMAIN sessions
      PROVE  /\ T[s] \in Session
             /\ T[s].kind = sessions[s].kind /\ T[s].user = sessions[s].user
             /\ T[s].ends = sessions[s].ends
             /\ T[s].reason = "live" => s \notin S /\ sessions[s].reason = "live"
             /\ sessions[s].reason # "live" => T[s] = sessions[s]
  BY <1>2 DEF IsTable, Revoked, Session, Reasons
<1>3. T = [s \in DOMAIN sessions |-> T[s]]
  BY DEF Revoked
<1>4. IsTable(T, SessionIds, Session)
  BY <1>1, <1>2, <1>3 DEF IsTable
<1> QED
  BY <1>1, <1>2, <1>4

\* A touch changes one column of one row (repository.touch).
LEMMA TouchedTable ==
    ASSUME IsTable(sessions, SessionIds, Session), NEW s \in DOMAIN sessions,
           NEW at \in Nat
    PROVE  /\ IsTable(Touched(s, at), SessionIds, Session)
           /\ DOMAIN Touched(s, at) = DOMAIN sessions
           /\ \A x \in DOMAIN sessions :
                /\ Touched(s, at)[x].kind = sessions[x].kind
                /\ Touched(s, at)[x].user = sessions[x].user
                /\ Touched(s, at)[x].ends = sessions[x].ends
                /\ Touched(s, at)[x].reason = sessions[x].reason
                /\ Touched(s, at)[x].gone = sessions[x].gone
  BY DEF IsTable, Touched, Session

-----------------------------------------------------------------------------
(* The type invariant.                                                      *)

\* The empty tables are well typed.
LEMMA InitTypeOK == Init => TypeOK
  BY TimesAssumption DEF Init, TypeOK, Time, Accounts, IsTable, Empty, Request

\* Every step writes values of the columns' types.
LEMMA NextTypeOK == TypeOK /\ [Next]_vars => TypeOK'
<1> SUFFICES ASSUME TypeOK, [Next]_vars PROVE TypeOK'
  OBVIOUS
<1> USE DEF TypeOK
<1> now \in Nat
  BY TimesAssumption DEF Time
<1>1. CASE Tick
  BY <1>1, TimesAssumption DEF Tick, Time
<1>2. ASSUME NEW u \in Users, NEW k \in Kinds, NEW allowed \in BOOLEAN,
             NEW private \in BOOLEAN, SignIn(u, k, allowed, private)
      PROVE  TypeOK'
  <2>1. PICK s \in Fresh(SessionIds, sessions) :
          /\ sessions' = Put(sessions, s, NewSession(k, u))
          /\ IF k = "mobile"
             THEN \E t \in Fresh(TokenIds, tokens) :
                     tokens' = Put(tokens, t, NewToken(s, now + Lifetime[k], now))
             ELSE tokens' = tokens
    BY <1>2 DEF SignIn
  <2>2. s \in SessionIds
    BY DEF Fresh
  <2>3. NewSession(k, u) \in Session
    BY TimesAssumption, Lifetimes DEF NewSession, Session
  <2>4. IsTable(sessions', SessionIds, Session)
    BY <2>1, <2>2, <2>3, PutTable
  <2>5. NewToken(s, now + Lifetime[k], now) \in Token
    BY <2>2, TimesAssumption, Lifetimes DEF NewToken, Token, SmallerOf
  <2>6. IsTable(tokens', TokenIds, Token)
    <3>1. CASE k = "mobile"
      <4>1. PICK t \in TokenIds :
              tokens' = Put(tokens, t, NewToken(s, now + Lifetime[k], now))
        BY <2>1, <3>1 DEF Fresh
      <4> QED
        BY <2>5, <4>1, PutTable
    <3>2. CASE k # "mobile"
      BY <2>1, <3>2
    <3> QED
      BY <3>1, <3>2
  <2>7. account' \in [Users -> Accounts] /\ remote' \in [Users -> BOOLEAN]
    BY <1>2 DEF SignIn, Accounts
  <2> QED
    BY <1>2, <2>4, <2>6, <2>7 DEF SignIn
<1>3. ASSUME NEW u \in Users, NEW why \in {"admin", "media_server"}, Disable(u, why)
      PROVE  TypeOK'
  <2>1. IsTable(sessions', SessionIds, Session)
    BY <1>3, RevokedTable DEF Disable, Reasons
  <2> QED
    BY <1>3, <2>1 DEF Disable, Accounts
<1>4. ASSUME NEW u \in Users, Enable(u) PROVE TypeOK'
  BY <1>4 DEF Enable, Accounts
<1>5. ASSUME NEW u \in Users, SetRemote(u) PROVE TypeOK'
  BY <1>5 DEF SetRemote
<1>6. CASE ServerChanged
  <2>1. IsTable(sessions', SessionIds, Session)
    BY <1>6, RevokedTable DEF ServerChanged, Reasons
  <2> QED
    BY <1>6, <2>1 DEF ServerChanged, Accounts
<1>7. ASSUME NEW u \in Users, DeleteUser(u) PROVE TypeOK'
  <2>1. IsTable(sessions', SessionIds, Session) /\ IsTable(tokens', TokenIds, Token)
    BY <1>7, DropTable DEF DeleteUser
  <2> QED
    BY <1>7, <2>1 DEF DeleteUser, Accounts
<1>8. CASE Purge
  <2>1. IsTable(sessions', SessionIds, Session) /\ IsTable(tokens', TokenIds, Token)
    BY <1>8, DropTable DEF Purge
  <2> QED
    BY <1>8, <2>1 DEF Purge
<1>9. ASSUME NEW c \in Clients, NEW t \in TokenIds, RotateStart(c, t)
      PROVE  TypeOK'
  <2>1. [step |-> "rotate", at |-> now, token |-> t] \in Request
    BY DEF Request, Rotating
  <2>2. flight' \in [Clients -> Request] /\ UNCHANGED <<now, account, remote, sessions, tokens, answered>>
    BY <1>9, <2>1 DEF RotateStart
  <2>3. t \in DOMAIN tokens => tokens[t].of \in SessionIds
    BY DEF IsTable, Token
  <2>4. careless' \subseteq SessionIds
    BY <1>9, <2>3 DEF RotateStart
  <2> QED
    BY <2>2, <2>4
<1>10. ASSUME NEW c \in Clients, NEW private \in BOOLEAN, RotateCommit(c, private)
       PROVE  TypeOK'
  <2> DEFINE t == flight[c].token
             at == flight[c].at
  <2>1. t \in TokenIds /\ at \in Nat
    BY <1>10 DEF RotateCommit, Request, Rotating, Idle, Touching, Serving
  <2>2. flight' \in [Clients -> Request] /\ UNCHANGED <<now, account, remote, careless>>
    BY <1>10 DEF RotateCommit, Request
  <2>3. CASE Exchange(t, at, private)
    <3> DEFINE s == tokens[t].of
    <3>1. t \in DOMAIN tokens /\ s \in DOMAIN sessions /\ s \in SessionIds
      BY <2>3 DEF Exchange, Claimable, Admits, Live, IsTable
    <3>2. IsTable(sessions', SessionIds, Session)
      BY <2>1, <2>3, <3>1, TouchedTable DEF Exchange
    <3>3. IsTable([tokens EXCEPT ![t].used = TRUE], TokenIds, Token)
      BY <3>1 DEF IsTable, Token
    <3>4. sessions[s].ends \in Nat
      BY <3>1 DEF IsTable, Session
    <3>5. NewToken(s, sessions[s].ends, at) \in Token
      BY <2>1, <3>1, <3>4, TimesAssumption DEF NewToken, Token, SmallerOf
    <3>6. PICK fresh \in TokenIds :
            tokens' = Put([tokens EXCEPT ![t].used = TRUE], fresh,
                          NewToken(s, sessions[s].ends, at))
      BY <2>3 DEF Exchange, Fresh
    <3>7. IsTable(tokens', TokenIds, Token)
      BY <3>3, <3>5, <3>6, PutTable
    <3> QED
      BY <2>1, <2>2, <2>3, <3>2, <3>7 DEF Exchange
  <2>4. CASE Refuse(t, at, private)
    BY <2>2, <2>4 DEF Refuse
  <2>5. CASE Reuse(t, at)
    <3>1. PICK S, n : sessions' = Revoked(S, "reuse", n) /\ n \in Nat
      BY <2>1, <2>5 DEF Reuse
    <3>2. IsTable(sessions', SessionIds, Session)
      BY <3>1, RevokedTable DEF Reasons
    <3> QED
      BY <2>2, <2>5, <3>2 DEF Reuse
  <2> QED
    BY <1>10, <2>3, <2>4, <2>5 DEF RotateCommit
<1>11. ASSUME NEW c \in Clients, NEW s \in SessionIds, Authenticate(c, s)
       PROVE  TypeOK'
  <2>1. sessions[s].user \in Users
    BY <1>11 DEF Authenticate, Live, IsTable, Session
  <2>2. /\ [step |-> "serve", session |-> s, user |-> sessions[s].user] \in Request
        /\ [step |-> "touch", at |-> now, session |-> s, user |-> sessions[s].user]
              \in Request
    BY <2>1 DEF Request, Serving, Touching
  <2> QED
    BY <1>11, <2>2 DEF Authenticate
<1>12. ASSUME NEW c \in Clients, Touch(c) PROVE TypeOK'
  <2>1. flight[c] \in Touching
    BY <1>12 DEF Touch, Request, Rotating, Idle, Serving
  <2>2. [step |-> "serve", session |-> flight[c].session, user |-> flight[c].user]
          \in Request
    BY <2>1 DEF Request, Serving, Touching
  <2>3. flight[c].at \in Nat
    BY <2>1 DEF Touching
  <2>4. IsTable(sessions', SessionIds, Session)
    <3>1. CASE flight[c].session \in DOMAIN sessions
      <4>1. sessions' = Touched(flight[c].session, flight[c].at)
        BY <1>12, <3>1 DEF Touch
      <4> QED
        BY <2>3, <3>1, <4>1, TouchedTable
    <3>2. CASE flight[c].session \notin DOMAIN sessions
      BY <1>12, <3>2 DEF Touch
    <3> QED
      BY <3>1, <3>2
  <2> QED
    BY <1>12, <2>2, <2>4 DEF Touch
<1>13. ASSUME NEW c \in Clients, NEW S \in SUBSET SessionIds, Serve(c, S)
       PROVE  TypeOK'
  <2>1. IsTable(sessions', SessionIds, Session)
    BY <1>13, RevokedTable DEF Serve, Reasons
  <2> QED
    BY <1>13, <2>1 DEF Serve, Request
<1>14. ASSUME NEW c \in Clients, ServeNothing(c) PROVE TypeOK'
  BY <1>14 DEF ServeNothing, Request
<1>15. CASE UNCHANGED vars
  BY <1>15 DEF vars
<1> QED
  BY <1>1, <1>2, <1>3, <1>4, <1>5, <1>6, <1>7, <1>8, <1>9, <1>10, <1>11, <1>12,
     <1>13, <1>14, <1>15 DEF Next

\* Every reachable state has rows of the columns' types.
THEOREM SessionsTyped == Spec => []TypeOK
  BY InitTypeOK, NextTypeOK, PTL DEF Spec

-----------------------------------------------------------------------------
(* The safety of the rows.                                                  *)

Rows ==
    /\ LiveSessionsAreUsable
    /\ OneUnspentToken
    /\ TokensStayWithinTheirSession

\* Nothing is stored at first.
LEMMA InitRows == Init => Rows
  BY DEF Init, Rows, LiveSessionsAreUsable, OneUnspentToken,
         TokensStayWithinTheirSession, Empty

\* Sessions that stay rows with the same owner, kind and end, and that come to
\* life for nobody, keep the invariants while tokens and accounts are left alone.
LEMMA SessionsKept ==
    ASSUME Rows, UNCHANGED <<account, tokens>>,
           DOMAIN sessions' = DOMAIN sessions,
           \A s \in DOMAIN sessions :
              /\ sessions'[s].kind = sessions[s].kind
              /\ sessions'[s].user = sessions[s].user
              /\ sessions'[s].ends = sessions[s].ends
              /\ sessions'[s].reason = "live" => sessions[s].reason = "live"
    PROVE  Rows'
  BY DEF Rows, LiveSessionsAreUsable, OneUnspentToken, TokensStayWithinTheirSession

\* A revocation by itself endangers none of the three.
LEMMA RevocationKeepsRows ==
    ASSUME Rows, IsTable(sessions, SessionIds, Session), NEW S, NEW why, why \in Reasons,
           NEW at, at \in Nat, sessions' = Revoked(S, why, at), UNCHANGED <<account, tokens>>
    PROVE  Rows'
<1>1. /\ DOMAIN sessions' = DOMAIN sessions
      /\ \A s \in DOMAIN sessions :
           /\ sessions'[s].kind = sessions[s].kind
           /\ sessions'[s].user = sessions[s].user
           /\ sessions'[s].ends = sessions[s].ends
           /\ sessions'[s].reason = "live" => sessions[s].reason = "live"
  BY RevokedTable
<1> QED
  BY <1>1, SessionsKept

\* The exchange spends the one unspent token and draws its only successor.
LEMMA ExchangeKeepsRows ==
    ASSUME Rows, IsTable(sessions, SessionIds, Session),
           IsTable(tokens, TokenIds, Token), NEW t \in TokenIds, NEW at \in Nat,
           NEW private \in BOOLEAN, Exchange(t, at, private), UNCHANGED account
    PROVE  Rows'
<1> DEFINE s == tokens[t].of
           spent == [tokens EXCEPT ![t].used = TRUE]
           row == NewToken(s, sessions[s].ends, at)
<1>1. /\ t \in DOMAIN tokens /\ ~tokens[t].used
      /\ s \in DOMAIN sessions /\ s \in SessionIds
      /\ sessions[s].kind = "mobile" /\ sessions[s].ends \in Nat
  BY DEF Exchange, Claimable, Admits, Live, IsTable, Session
<1>2. PICK fresh \in TokenIds \ DOMAIN tokens : tokens' = Put(spent, fresh, row)
  BY DEF Exchange, Fresh
<1>3. /\ IsTable(spent, TokenIds, Token)
      /\ DOMAIN spent = DOMAIN tokens
      /\ spent[t].used /\ spent[t].of = s /\ spent[t].ends = tokens[t].ends
      /\ \A x \in DOMAIN tokens \ {t} : spent[x] = tokens[x]
  BY <1>1 DEF IsTable, Token
<1>4. row \in Token /\ row.of = s /\ row.ends <= sessions[s].ends
  BY <1>1, TimesAssumption DEF NewToken, Token, SmallerOf
<1>5. /\ DOMAIN tokens' = DOMAIN tokens \cup {fresh}
      /\ tokens'[fresh] = row
      /\ \A x \in DOMAIN tokens : tokens'[x] = spent[x]
  <2>1. IsTable(spent, TokenIds, Token) /\ DOMAIN spent = DOMAIN tokens
    BY <1>3
  <2>2. row \in Token
    BY <1>4
  <2> HIDE DEF row, spent
  <2> QED
    BY <1>2, <2>1, <2>2, PutTable
<1>6. /\ DOMAIN sessions' = DOMAIN sessions
      /\ \A x \in DOMAIN sessions :
           /\ sessions'[x].kind = sessions[x].kind
           /\ sessions'[x].user = sessions[x].user
           /\ sessions'[x].ends = sessions[x].ends
           /\ sessions'[x].reason = sessions[x].reason
  BY <1>1, TouchedTable DEF Exchange
<1>7. LiveSessionsAreUsable'
  BY <1>6 DEF Rows, LiveSessionsAreUsable
<1>8. \A x \in DOMAIN tokens : tokens[x].of = s /\ ~tokens[x].used => x = t
  BY <1>1 DEF Rows, OneUnspentToken
<1> HIDE DEF row, spent
<1>9. OneUnspentToken'
  BY <1>3, <1>4, <1>5, <1>8 DEF Rows, OneUnspentToken
<1>10. TokensStayWithinTheirSession'
  <2> SUFFICES ASSUME NEW x \in DOMAIN tokens'
               PROVE  /\ tokens'[x].of \in DOMAIN sessions'
                      /\ sessions'[tokens'[x].of].kind = "mobile"
                      /\ tokens'[x].ends <= sessions'[tokens'[x].of].ends
    BY DEF TokensStayWithinTheirSession
  <2>1. CASE x = fresh
    BY <1>1, <1>4, <1>5, <1>6, <2>1
  <2>2. CASE x # fresh
    <3>1. tokens'[x].of = tokens[x].of /\ tokens'[x].ends = tokens[x].ends
      BY <1>3, <1>5, <2>2
    <3> QED
      BY <1>5, <1>6, <2>2, <3>1 DEF Rows, TokensStayWithinTheirSession
  <2> QED
    BY <2>1, <2>2
<1> QED
  BY <1>7, <1>9, <1>10 DEF Rows

\* Every step preserves the three invariants together.
LEMMA NextRows == TypeOK /\ Rows /\ [Next]_vars => Rows'
<1> SUFFICES ASSUME TypeOK, Rows, [Next]_vars PROVE Rows'
  OBVIOUS
<1> now \in Nat
  BY TimesAssumption DEF TypeOK, Time
<1>t. IsTable(sessions, SessionIds, Session) /\ IsTable(tokens, TokenIds, Token)
  BY DEF TypeOK
<1>1. CASE Tick
  BY <1>1, SessionsKept DEF Tick
<1>2. ASSUME NEW u \in Users, NEW k \in Kinds, NEW allowed \in BOOLEAN,
             NEW private \in BOOLEAN, SignIn(u, k, allowed, private)
      PROVE  Rows'
  <2>1. PICK s \in Fresh(SessionIds, sessions) :
          /\ sessions' = Put(sessions, s, NewSession(k, u))
          /\ IF k = "mobile"
             THEN \E t \in Fresh(TokenIds, tokens) :
                     tokens' = Put(tokens, t, NewToken(s, now + Lifetime[k], now))
             ELSE tokens' = tokens
    BY <1>2 DEF SignIn
  <2>2. /\ s \in SessionIds
        /\ s \notin DOMAIN sessions
    BY DEF Fresh
  <2>3. NewSession(k, u) \in Session
    BY TimesAssumption, Lifetimes DEF NewSession, Session
  <2>4. /\ DOMAIN sessions' = DOMAIN sessions \cup {s}
        /\ sessions'[s] = NewSession(k, u)
        /\ \A x \in DOMAIN sessions : sessions'[x] = sessions[x]
    BY <2>1, <2>2 DEF Put
  <2>5. account' = [account EXCEPT ![u] = "usable"] /\ account \in [Users -> Accounts]
    BY <1>2 DEF SignIn, TypeOK
  <2>6. LiveSessionsAreUsable'
    <3> SUFFICES ASSUME NEW x \in DOMAIN sessions', sessions'[x].reason = "live"
                 PROVE  account'[sessions'[x].user] = "usable"
      BY DEF LiveSessionsAreUsable
    <3>1. CASE x = s
      BY <2>4, <2>5, <3>1 DEF NewSession
    <3>2. CASE x # s
      BY <1>t, <2>4, <2>5, <3>2 DEF Rows, LiveSessionsAreUsable, IsTable, Session
    <3> QED
      BY <3>1, <3>2
  <2>7. CASE k = "mobile"
    <3> DEFINE row == NewToken(s, now + Lifetime[k], now)
    <3>1. PICK t : tokens' = Put(tokens, t, row) /\ t \in Fresh(TokenIds, tokens)
      BY <2>1, <2>7
    <3>2. t \in TokenIds /\ t \notin DOMAIN tokens
      BY <3>1 DEF Fresh
    <3>3. row \in Token /\ row.of = s /\ row.ends <= now + Lifetime[k]
      BY <2>2, TimesAssumption, Lifetimes DEF NewToken, Token, SmallerOf
    <3>4. /\ DOMAIN tokens' = DOMAIN tokens \cup {t}
          /\ tokens'[t] = row
          /\ \A x \in DOMAIN tokens : tokens'[x] = tokens[x]
      <4>1. PICK new : new = row /\ new \in Token /\ tokens' = Put(tokens, t, new)
        BY <3>1, <3>3
      <4>2. /\ DOMAIN tokens' = DOMAIN tokens \cup {t}
            /\ tokens'[t] = new
            /\ \A x \in DOMAIN tokens : tokens'[x] = tokens[x]
        BY <1>t, <3>2, <4>1, PutTable
      <4> QED
        BY <4>1, <4>2
    <3>5. \A x \in DOMAIN tokens : tokens[x].of # s
      BY <2>2 DEF Rows, TokensStayWithinTheirSession
    <3>6. OneUnspentToken'
      BY <3>3, <3>4, <3>5 DEF Rows, OneUnspentToken
    <3>7. TokensStayWithinTheirSession'
      BY <2>4, <2>7, <3>3, <3>4 DEF Rows, TokensStayWithinTheirSession, NewSession
    <3> QED
      BY <2>6, <3>6, <3>7 DEF Rows
  <2>8. CASE k # "mobile"
    <3>1. OneUnspentToken' /\ TokensStayWithinTheirSession'
      BY <2>1, <2>2, <2>4, <2>8 DEF Rows, OneUnspentToken, TokensStayWithinTheirSession
    <3> QED
      BY <2>6, <3>1 DEF Rows
  <2> QED
    BY <2>7, <2>8
<1>3. ASSUME NEW u \in Users, NEW why \in {"admin", "media_server"}, Disable(u, why)
      PROVE  Rows'
  <2>1. /\ DOMAIN sessions' = DOMAIN sessions
        /\ \A s \in DOMAIN sessions :
             /\ sessions'[s].kind = sessions[s].kind
             /\ sessions'[s].user = sessions[s].user
             /\ sessions'[s].ends = sessions[s].ends
             /\ sessions'[s].reason = "live" =>
                  s \notin SessionsOf(u) /\ sessions[s].reason = "live"
    BY <1>3, <1>t, RevokedTable DEF Disable, Reasons
  <2>2. LiveSessionsAreUsable'
    BY <1>3, <1>t, <2>1 DEF Disable, Rows, LiveSessionsAreUsable, SessionsOf, TypeOK,
                            IsTable, Session
  <2>3. OneUnspentToken' /\ TokensStayWithinTheirSession'
    BY <1>3, <2>1 DEF Disable, Rows, OneUnspentToken, TokensStayWithinTheirSession
  <2> QED
    BY <2>2, <2>3 DEF Rows
<1>4. ASSUME NEW u \in Users, Enable(u) PROVE Rows'
  BY <1>4, <1>t DEF Enable, Rows, LiveSessionsAreUsable, OneUnspentToken,
                    TokensStayWithinTheirSession, TypeOK, IsTable, Session
<1>5. ASSUME NEW u \in Users, SetRemote(u) PROVE Rows'
  BY <1>5, SessionsKept DEF SetRemote
<1>6. CASE ServerChanged
  <2>1. /\ DOMAIN sessions' = DOMAIN sessions
        /\ \A s \in DOMAIN sessions :
             /\ sessions'[s].kind = sessions[s].kind
             /\ sessions'[s].user = sessions[s].user
             /\ sessions'[s].ends = sessions[s].ends
             /\ sessions'[s].reason # "live"
    <3>1. sessions' = Revoked(DOMAIN sessions, "server_changed", now)
      BY <1>6 DEF ServerChanged
    <3>2. "server_changed" \in Reasons
      BY DEF Reasons
    <3> QED
      BY <1>t, <3>1, <3>2, RevokedTable
  <2> QED
    BY <1>6, <2>1 DEF ServerChanged, Rows, LiveSessionsAreUsable, OneUnspentToken,
                      TokensStayWithinTheirSession
<1>7. ASSUME NEW u \in Users, DeleteUser(u) PROVE Rows'
  <2>a. PICK gone, lost :
          /\ gone = SessionsOf(u)
          /\ lost = TokensOf(SessionsOf(u))
          /\ sessions' = Drop(sessions, gone)
          /\ tokens' = Drop(tokens, lost)
    BY <1>7 DEF DeleteUser
  <2>1. /\ DOMAIN sessions' = DOMAIN sessions \ SessionsOf(u)
        /\ \A s \in DOMAIN sessions' : sessions'[s] = sessions[s]
        /\ DOMAIN tokens' = DOMAIN tokens \ TokensOf(SessionsOf(u))
        /\ \A t \in DOMAIN tokens' : tokens'[t] = tokens[t]
    <3>1. /\ DOMAIN sessions' = DOMAIN sessions \ gone
          /\ \A s \in DOMAIN sessions' : sessions'[s] = sessions[s]
      BY <1>t, <2>a, DropTable
    <3>2. /\ DOMAIN tokens' = DOMAIN tokens \ lost
          /\ \A t \in DOMAIN tokens' : tokens'[t] = tokens[t]
      BY <1>t, <2>a, DropTable
    <3> QED
      BY <2>a, <3>1, <3>2
  <2>2. LiveSessionsAreUsable'
    BY <1>7, <1>t, <2>1 DEF DeleteUser, Rows, LiveSessionsAreUsable, SessionsOf,
                            TypeOK, IsTable, Session
  <2>3. OneUnspentToken' /\ TokensStayWithinTheirSession'
    BY <2>1 DEF Rows, OneUnspentToken, TokensStayWithinTheirSession, TokensOf
  <2> QED
    BY <2>2, <2>3 DEF Rows
<1>8. CASE Purge
  <2>1. PICK gone :
          /\ sessions' = Drop(sessions, gone)
          /\ tokens' = Drop(tokens, TokensOf(gone))
    BY <1>8 DEF Purge
  <2>2. /\ DOMAIN sessions' = DOMAIN sessions \ gone
        /\ \A s \in DOMAIN sessions' : sessions'[s] = sessions[s]
        /\ DOMAIN tokens' = DOMAIN tokens \ TokensOf(gone)
        /\ \A t \in DOMAIN tokens' : tokens'[t] = tokens[t]
    BY <1>t, <2>1, DropTable
  <2>3. OneUnspentToken' /\ TokensStayWithinTheirSession'
    BY <2>2 DEF Rows, OneUnspentToken, TokensStayWithinTheirSession, TokensOf
  <2>4. LiveSessionsAreUsable'
    BY <1>8, <2>2 DEF Purge, Rows, LiveSessionsAreUsable
  <2> QED
    BY <2>3, <2>4 DEF Rows
<1>9. ASSUME NEW c \in Clients, NEW t \in TokenIds, RotateStart(c, t)
      PROVE  Rows'
  BY <1>9, SessionsKept DEF RotateStart
<1>10. ASSUME NEW c \in Clients, NEW private \in BOOLEAN, RotateCommit(c, private)
       PROVE  Rows'
  <2> DEFINE t == flight[c].token
             at == flight[c].at
  <2>1. t \in TokenIds /\ at \in Nat
    BY <1>10 DEF RotateCommit, TypeOK, Request, Rotating, Idle, Touching, Serving
  <2>2. UNCHANGED account
    BY <1>10 DEF RotateCommit
  <2>3. CASE Exchange(t, at, private)
    BY <1>t, <2>1, <2>2, <2>3, ExchangeKeepsRows
  <2>4. CASE Refuse(t, at, private)
    BY <2>2, <2>4, SessionsKept DEF Refuse
  <2>5. CASE Reuse(t, at)
    <3>1. sessions' = Revoked({tokens[t].of}, "reuse", at) /\ UNCHANGED tokens
      BY <2>5 DEF Reuse
    <3>2. "reuse" \in Reasons
      BY DEF Reasons
    <3> QED
      BY <1>t, <2>1, <2>2, <3>1, <3>2, RevocationKeepsRows
  <2> QED
    BY <1>10, <2>3, <2>4, <2>5 DEF RotateCommit
<1>11. ASSUME NEW c \in Clients, NEW s \in SessionIds, Authenticate(c, s)
       PROVE  Rows'
  BY <1>11, SessionsKept DEF Authenticate
<1>12. ASSUME NEW c \in Clients, Touch(c) PROVE Rows'
  <2>1. flight[c].at \in Nat /\ UNCHANGED <<account, tokens>>
    BY <1>12 DEF Touch, TypeOK, Request, Rotating, Idle, Serving, Touching
  <2>2. CASE flight[c].session \in DOMAIN sessions
    <3>1. sessions' = Touched(flight[c].session, flight[c].at)
      BY <1>12, <2>2 DEF Touch
    <3> QED
      BY <1>t, <2>1, <2>2, <3>1, TouchedTable, SessionsKept
  <2>3. CASE flight[c].session \notin DOMAIN sessions
    <3>1. sessions' = sessions
      BY <1>12, <2>3 DEF Touch
    <3> QED
      BY <2>1, <3>1, SessionsKept
  <2> QED
    BY <2>2, <2>3
<1>13. ASSUME NEW c \in Clients, NEW S \in SUBSET SessionIds, Serve(c, S)
       PROVE  Rows'
  <2>1. sessions' = Revoked(S, "asked", now) /\ UNCHANGED <<account, tokens>>
    BY <1>13 DEF Serve
  <2>2. "asked" \in Reasons
    BY DEF Reasons
  <2> QED
    BY <1>t, <2>1, <2>2, RevocationKeepsRows
<1>14. ASSUME NEW c \in Clients, ServeNothing(c) PROVE Rows'
  BY <1>14, SessionsKept DEF ServeNothing
<1>15. CASE UNCHANGED vars
  BY <1>15, SessionsKept DEF vars
<1> QED
  BY <1>1, <1>2, <1>3, <1>4, <1>5, <1>6, <1>7, <1>8, <1>9, <1>10, <1>11, <1>12,
     <1>13, <1>14, <1>15 DEF Next

\* A refresh token works once, no session outlives its owner's right to be
\* here, and no token outlives its session: for any number of accounts,
\* sessions, tokens and requests in flight.
THEOREM SessionsSafe ==
    Spec => [](LiveSessionsAreUsable /\ OneUnspentToken /\ TokensStayWithinTheirSession)
  BY InitTypeOK, NextTypeOK, InitRows, NextRows, PTL DEF Spec, Rows

-----------------------------------------------------------------------------
(* Revocation is final.                                                     *)

\* No step rewrites a revoked row or draws a token for it.
LEMMA NextKeepsRevoked == TypeOK /\ [Next]_vars => KeepsRevoked \/ UNCHANGED vars
<1> SUFFICES ASSUME TypeOK, Next, NEW s \in DOMAIN sessions,
                    sessions[s].reason # "live"
             PROVE  /\ s \in DOMAIN sessions' =>
                         /\ sessions'[s].reason = sessions[s].reason
                         /\ sessions'[s].gone = sessions[s].gone
                    /\ \A t \in DOMAIN tokens' :
                         tokens'[t].of = s => t \in DOMAIN tokens
  BY DEF KeepsRevoked
<1>n. now \in Nat
  BY TimesAssumption DEF TypeOK, Time
<1>t. IsTable(sessions, SessionIds, Session) /\ IsTable(tokens, TokenIds, Token)
  BY DEF TypeOK
<1>r. \A S, why, at : why \in Reasons /\ at \in Nat /\ sessions' = Revoked(S, why, at)
                       => sessions'[s] = sessions[s]
  BY DEF Revoked
<1>1. CASE Tick
  BY <1>1 DEF Tick
<1>2. ASSUME NEW u \in Users, NEW k \in Kinds, NEW allowed \in BOOLEAN,
             NEW private \in BOOLEAN, SignIn(u, k, allowed, private)
      PROVE  /\ sessions'[s] = sessions[s]
             /\ \A t \in DOMAIN tokens' : tokens'[t].of = s => t \in DOMAIN tokens
  <2>1. PICK new : /\ new \in Fresh(SessionIds, sessions)
                   /\ sessions' = Put(sessions, new, NewSession(k, u))
                   /\ \/ \E t : tokens' = Put(tokens, t, NewToken(new, now + Lifetime[k], now))
                      \/ tokens' = tokens
    BY <1>2 DEF SignIn
  <2>2. new # s
    BY <2>1 DEF Fresh
  <2>3. sessions'[s] = sessions[s]
    BY <2>1, <2>2 DEF Put
  <2>4. ASSUME NEW t, tokens' = Put(tokens, t, NewToken(new, now + Lifetime[k], now))
        PROVE  \A x \in DOMAIN tokens' : tokens'[x].of = s => x \in DOMAIN tokens
    <3>1. PICK row : row.of = new /\ tokens' = Put(tokens, t, row)
      BY <2>4 DEF NewToken
    <3> QED
      BY <2>2, <3>1 DEF Put
  <2> QED
    BY <2>1, <2>3, <2>4
<1>3. ASSUME NEW u \in Users, NEW why \in {"admin", "media_server"}, Disable(u, why)
      PROVE  sessions'[s] = sessions[s] /\ tokens' = tokens
  BY <1>3, <1>r, <1>n DEF Disable, Reasons
<1>4. CASE ServerChanged
  BY <1>4, <1>r, <1>n DEF ServerChanged, Reasons
<1>5. ASSUME NEW u \in Users, DeleteUser(u)
      PROVE  /\ s \in DOMAIN sessions' => sessions'[s] = sessions[s]
             /\ DOMAIN tokens' \subseteq DOMAIN tokens
  BY <1>5 DEF DeleteUser, Drop
<1>6. CASE Purge
  BY <1>6 DEF Purge, Drop
<1>7. ASSUME NEW c \in Clients, NEW private \in BOOLEAN, RotateCommit(c, private)
      PROVE  /\ sessions'[s].reason = sessions[s].reason
             /\ sessions'[s].gone = sessions[s].gone
             /\ \A t \in DOMAIN tokens' : tokens'[t].of = s => t \in DOMAIN tokens
  <2> DEFINE t == flight[c].token
             at == flight[c].at
  <2>1. at \in Nat
    BY <1>7 DEF RotateCommit, TypeOK, Request, Rotating, Idle, Touching, Serving
  <2>2. CASE Exchange(t, at, private)
    <3>1. PICK live, ends, fresh :
            /\ live = tokens[t].of
            /\ live \in DOMAIN sessions
            /\ sessions[live].reason = "live"
            /\ sessions' = Touched(live, at)
            /\ tokens' = Put([tokens EXCEPT ![t].used = TRUE], fresh,
                             NewToken(live, ends, at))
      BY <2>2 DEF Exchange, Admits, Live
    <3>2. live # s
      BY <3>1
    <3>3. sessions'[s] = sessions[s]
      BY <1>t, <3>1, <3>2 DEF Touched, IsTable
    <3>4. \A x \in DOMAIN tokens' : tokens'[x].of = s => x \in DOMAIN tokens
      BY <1>t, <3>1, <3>2 DEF Put, NewToken, IsTable
    <3> QED
      BY <3>3, <3>4
  <2>3. CASE Refuse(t, at, private)
    BY <2>3 DEF Refuse
  <2>4. CASE Reuse(t, at)
    BY <1>r, <2>1, <2>4 DEF Reuse, Reasons
  <2> QED
    BY <1>7, <2>2, <2>3, <2>4 DEF RotateCommit
<1>8. ASSUME NEW c \in Clients, Touch(c)
      PROVE  /\ sessions'[s].reason = sessions[s].reason
             /\ sessions'[s].gone = sessions[s].gone
             /\ tokens' = tokens
  <2>1. s \in SessionIds /\ sessions[s] \in Session /\ tokens' = tokens
    BY <1>8, <1>t DEF IsTable, Touch
  <2>2. CASE flight[c].session \in DOMAIN sessions
    <3>1. PICK x, n : x \in DOMAIN sessions /\ sessions' = Touched(x, n)
      BY <1>8, <2>2 DEF Touch
    <3> QED
      BY <1>t, <2>1, <3>1 DEF Touched, IsTable, Session
  <2> QED
    BY <1>8, <2>1, <2>2 DEF Touch
<1>9. ASSUME NEW c \in Clients, NEW S \in SUBSET SessionIds, Serve(c, S)
      PROVE  sessions'[s] = sessions[s] /\ tokens' = tokens
  BY <1>9, <1>r, <1>n DEF Serve, Reasons
<1>10. CASE \/ \E u \in Users : Enable(u) \/ SetRemote(u)
            \/ \E c \in Clients, t \in TokenIds : RotateStart(c, t)
            \/ \E c \in Clients, x \in SessionIds : Authenticate(c, x)
            \/ \E c \in Clients : ServeNothing(c)
  BY <1>10 DEF Enable, SetRemote, RotateStart, Authenticate, ServeNothing
<1> QED
  BY <1>1, <1>2, <1>3, <1>4, <1>5, <1>6, <1>7, <1>8, <1>9, <1>10 DEF Next

\* A revoked session stays revoked, for its first reason, and gets no token,
\* whatever was in flight when it was revoked.
THEOREM RevokedForGood == Spec => RevocationIsFinal
<1>1. TypeOK /\ [Next]_vars => [KeepsRevoked]_vars
  BY NextKeepsRevoked
<1> QED
  BY <1>1, InitTypeOK, NextTypeOK, PTL DEF Spec, RevocationIsFinal
-----------------------------------------------------------------------------
(* Only an app that presents a token again is taken for a thief.             *)

\* What keeps a spent token out of a careful app's hands: a token is spent
\* exactly when its successor was handed out, and a careful session's refreshes
\* in flight are for tokens not answered, no two for the same one.
Careful(t) == t \in DOMAIN tokens /\ tokens[t].of \notin careless
InTurn(c) == flight[c].step = "rotate" /\ Careful(flight[c].token) => flight[c].token \notin answered
NeverTogether(c, d) ==
    /\ flight[c].step = "rotate" /\ flight[d].step = "rotate"
    /\ flight[c].token = flight[d].token
    /\ Careful(flight[c].token)
    => c = d
SpentIsAnswered ==
    /\ answered \subseteq DOMAIN tokens
    /\ \A t \in DOMAIN tokens : tokens[t].used <=> t \in answered
OneAtATime ==
    /\ SpentIsAnswered
    /\ \A c \in Clients : InTurn(c)
    /\ \A c, d \in Clients : NeverTogether(c, d)
    /\ NoFalseReuse

\* Nothing is spent or in flight at first.
LEMMA InitOneAtATime == Init => OneAtATime
  BY DEF Init, OneAtATime, SpentIsAnswered, InTurn, NeverTogether, NoFalseReuse, Idle, Empty

\* What a step that neither spends nor starts a refresh leaves as it was.
LEMMA QuietStep ==
  ASSUME OneAtATime, SpentIsAnswered', answered' \subseteq answered, NoFalseReuse',
         \A c \in Clients : flight'[c].step = "rotate" =>
            /\ flight'[c] = flight[c]
            /\ Careful(flight[c].token)' => Careful(flight[c].token)
  PROVE  OneAtATime'
<1>1. \A c \in Clients : InTurn(c)'
  BY DEF OneAtATime, InTurn
<1>2. \A c, d \in Clients : NeverTogether(c, d)'
  BY DEF OneAtATime, NeverTogether
<1> QED
  BY <1>1, <1>2 DEF OneAtATime

\* Every step keeps refreshes of one token apart.
LEMMA NextOneAtATime == TypeOK /\ OneAtATime /\ [Next]_vars => OneAtATime'
<1> SUFFICES ASSUME TypeOK, OneAtATime, [Next]_vars
             PROVE  OneAtATime'
  OBVIOUS
<1>t. IsTable(sessions, SessionIds, Session) /\ IsTable(tokens, TokenIds, Token)
  BY DEF TypeOK
<1>s. SpentIsAnswered /\ NoFalseReuse
  BY DEF OneAtATime
<1>r. ASSUME NEW S, NEW why, NEW at, sessions' = Revoked(S, why, at), why # "reuse",
             UNCHANGED careless
      PROVE  NoFalseReuse'
  BY <1>r, <1>t, <1>s DEF Revoked, NoFalseReuse, IsTable, Session
<1>q. ASSUME UNCHANGED <<tokens, answered, careless>>, NoFalseReuse',
             \A c \in Clients : flight'[c].step = "rotate" => flight'[c] = flight[c]
      PROVE  OneAtATime'
  <2>1. SpentIsAnswered'
    BY <1>q, <1>s DEF SpentIsAnswered
  <2>2. \A t : Careful(t)' => Careful(t)
    BY <1>q DEF Careful
  <2> QED
    BY <1>q, <2>1, <2>2, QuietStep
<1>1. CASE UNCHANGED <<sessions, tokens, answered, flight, careless>>
  BY <1>1, <1>s, <1>q DEF NoFalseReuse
<1>2. ASSUME NEW u \in Users, NEW k \in Kinds, NEW allowed \in BOOLEAN,
             NEW private \in BOOLEAN, SignIn(u, k, allowed, private)
      PROVE  OneAtATime'
  <2>1. PICK new : /\ sessions' = Put(sessions, new, NewSession(k, u))
                   /\ \/ \E t \in Fresh(TokenIds, tokens) :
                            tokens' = Put(tokens, t, NewToken(new, now + Lifetime[k], now))
                      \/ tokens' = tokens
    BY <1>2 DEF SignIn
  <2>2. UNCHANGED <<answered, flight, careless>>
    BY <1>2 DEF SignIn
  <2>3. NoFalseReuse'
    <3>1. PICK row : row.reason = "live" /\ sessions' = Put(sessions, new, row)
      BY <2>1 DEF NewSession
    <3> QED
      BY <1>s, <2>2, <3>1 DEF NoFalseReuse, Put
  <2>4. CASE tokens' = tokens
    BY <2>2, <2>3, <2>4, <1>q
  <2>5. CASE \E t \in Fresh(TokenIds, tokens) :
                tokens' = Put(tokens, t, NewToken(new, now + Lifetime[k], now))
    <3>1. PICK t, row : /\ t \in Fresh(TokenIds, tokens) /\ row.used = FALSE
                        /\ tokens' = Put(tokens, t, row)
      BY <2>5 DEF NewToken
    <3>2. SpentIsAnswered'
      BY <1>s, <2>2, <3>1 DEF SpentIsAnswered, Put, Fresh
    <3>3. \A c \in Clients : flight[c].step = "rotate" => flight[c].token # t
      BY <3>1 DEF Fresh, Names
    <3>4. \A x : x # t /\ Careful(x)' => Careful(x)
      BY <2>2, <3>1 DEF Careful, Put
    <3> QED
      BY <2>2, <2>3, <3>2, <3>3, <3>4, QuietStep
  <2> QED
    BY <2>1, <2>4, <2>5
<1>3. ASSUME NEW S, NEW why, NEW at, why # "reuse", sessions' = Revoked(S, why, at),
             UNCHANGED <<tokens, answered, careless>>,
             \A c \in Clients : flight'[c].step = "rotate" => flight'[c] = flight[c]
      PROVE  OneAtATime'
  BY <1>3, <1>r, <1>q
<1>4. ASSUME NEW S, sessions' = Drop(sessions, S), tokens' = Drop(tokens, TokensOf(S)),
             answered' = answered \cap DOMAIN tokens', careless' = careless \ S,
             UNCHANGED flight
      PROVE  OneAtATime'
  <2>1. SpentIsAnswered'
    BY <1>4, <1>s DEF SpentIsAnswered, Drop
  <2>2. NoFalseReuse'
    BY <1>4, <1>s DEF NoFalseReuse, Drop
  <2>3. \A t : Careful(t)' => Careful(t)
    BY <1>4 DEF Careful, Drop, TokensOf
  <2> QED
    BY <1>4, <2>1, <2>2, <2>3, QuietStep
<1>5. ASSUME NEW c \in Clients, NEW t \in TokenIds, RotateStart(c, t)
      PROVE  OneAtATime'
  <2>1. /\ UNCHANGED <<sessions, tokens, answered>>
        /\ flight' = [flight EXCEPT ![c] = [step |-> "rotate", at |-> now, token |-> t]]
        /\ careless \subseteq careless'
    BY <1>5 DEF RotateStart
  <2>2. SpentIsAnswered' /\ NoFalseReuse'
    BY <1>s, <2>1 DEF SpentIsAnswered, NoFalseReuse
  <2>3. Careful(t)' => /\ t \notin answered
                       /\ \A d \in Clients : flight[d].step = "rotate" => flight[d].token # t
    BY <1>5 DEF RotateStart, Careful
  <2>4. /\ flight'[c].step = "rotate" /\ flight'[c].token = t
        /\ \A d \in Clients \ {c} : flight'[d] = flight[d]
    BY <2>1 DEF TypeOK
  <2>5. \A x : Careful(x)' => Careful(x)
    BY <2>1 DEF Careful
  <2>6. \A d \in Clients : InTurn(d)'
    BY <2>1, <2>3, <2>4, <2>5 DEF InTurn, OneAtATime
  <2>7. \A d, e \in Clients : NeverTogether(d, e)'
    BY <2>1, <2>3, <2>4, <2>5 DEF NeverTogether, OneAtATime
  <2> QED
    BY <2>2, <2>6, <2>7 DEF OneAtATime
<1>6. ASSUME NEW c \in Clients, NEW private \in BOOLEAN, RotateCommit(c, private)
      PROVE  OneAtATime'
  <2> DEFINE t == flight[c].token
             at == flight[c].at
  <2>1. /\ flight[c].step = "rotate"
        /\ flight' = [flight EXCEPT ![c] = Idle]
        /\ UNCHANGED careless
    BY <1>6 DEF RotateCommit
  <2>2. /\ flight'[c].step # "rotate"
        /\ \A d \in Clients \ {c} : flight'[d] = flight[d]
    BY <2>1 DEF TypeOK, Idle
  <2>3. CASE Exchange(t, at, private)
    <3>1. PICK s, n, fresh, row :
            /\ t \in DOMAIN tokens
            /\ s \in DOMAIN sessions
            /\ sessions' = Touched(s, n)
            /\ fresh \in Fresh(TokenIds, tokens)
            /\ row.used = FALSE
            /\ tokens' = Put([tokens EXCEPT ![t].used = TRUE], fresh, row)
            /\ answered' = answered \cup {t}
      BY <2>3, SMTT(30) DEF Exchange, Admits, Live, Claimable, NewToken
    <3>2. fresh \notin DOMAIN tokens
      BY <3>1 DEF Fresh
    <3>3. SpentIsAnswered'
      BY <1>s, <1>t, <3>1, <3>2 DEF SpentIsAnswered, Put, IsTable, Token
    <3>4. NoFalseReuse'
      BY <1>s, <1>t, <2>1, <3>1 DEF NoFalseReuse, Touched, IsTable, Session
    <3>5. \A d \in Clients : flight[d].step = "rotate" => flight[d].token # fresh
      BY <3>1 DEF Fresh, Names
    <3>6. \A x : x # fresh /\ Careful(x)' => Careful(x)
      BY <1>t, <2>1, <3>1 DEF Careful, Put, IsTable, Token
    <3>7. \A d \in Clients : InTurn(d)'
      BY <2>1, <2>2, <3>1, <3>5, <3>6 DEF OneAtATime, InTurn, NeverTogether
    <3>8. \A d, e \in Clients : NeverTogether(d, e)'
      BY <2>2, <3>5, <3>6 DEF OneAtATime, NeverTogether
    <3> QED
      BY <3>3, <3>4, <3>7, <3>8 DEF OneAtATime
  <2>4. CASE Refuse(t, at, private)
    <3>1. UNCHANGED <<sessions, tokens, answered>>
      BY <2>4 DEF Refuse
    <3>2. NoFalseReuse'
      BY <1>s, <2>1, <3>1 DEF NoFalseReuse
    <3> QED
      BY <2>1, <2>2, <3>1, <3>2, <1>q
  <2>5. CASE Reuse(t, at)
    <3>1. t \in answered /\ t \in DOMAIN tokens
      BY <1>s, <2>5 DEF Reuse, Reused, SpentIsAnswered
    <3>2. tokens[t].of \in careless
      BY <2>1, <3>1 DEF OneAtATime, InTurn, Careful
    <3>3. UNCHANGED <<tokens, answered>> /\ sessions' = Revoked({tokens[t].of}, "reuse", at)
      BY <2>5 DEF Reuse
    <3>4. NoFalseReuse'
      BY <1>s, <1>t, <2>1, <3>2, <3>3 DEF NoFalseReuse, Revoked, IsTable, Session
    <3> QED
      BY <2>1, <2>2, <3>3, <3>4, <1>q
  <2> QED
    BY <1>6, <2>3, <2>4, <2>5 DEF RotateCommit
<1>7. ASSUME NEW c \in Clients, NEW s \in SessionIds, Authenticate(c, s)
      PROVE  OneAtATime'
  <2>1. UNCHANGED <<sessions, tokens, answered, careless>>
    BY <1>7 DEF Authenticate
  <2>2. \A d \in Clients : flight'[d].step = "rotate" => flight'[d] = flight[d]
    BY <1>7 DEF Authenticate, TypeOK
  <2> QED
    BY <1>s, <2>1, <2>2, <1>q DEF NoFalseReuse
<1>8. ASSUME NEW c \in Clients, Touch(c) PROVE OneAtATime'
  <2>1. UNCHANGED <<tokens, answered, careless>>
    BY <1>8 DEF Touch
  <2>2. \A d \in Clients : flight'[d].step = "rotate" => flight'[d] = flight[d]
    BY <1>8 DEF Touch, TypeOK
  <2>3. NoFalseReuse'
    <3>1. CASE sessions' = sessions
      BY <1>s, <2>1, <3>1 DEF NoFalseReuse
    <3>2. CASE \E s \in DOMAIN sessions : \E n : sessions' = Touched(s, n)
      BY <1>s, <1>t, <2>1, <3>2 DEF NoFalseReuse, Touched, IsTable, Session
    <3> QED
      BY <1>8, <3>1, <3>2 DEF Touch
  <2> QED
    BY <2>1, <2>2, <2>3, <1>q
<1>9. ASSUME NEW c \in Clients, NEW S \in SUBSET SessionIds, Serve(c, S)
      PROVE  OneAtATime'
  <2>1. \A d \in Clients : flight'[d].step = "rotate" => flight'[d] = flight[d]
    BY <1>9 DEF Serve, TypeOK, Idle
  <2> QED
    BY <1>3, <1>9, <2>1 DEF Serve
<1>10. ASSUME NEW c \in Clients, ServeNothing(c) PROVE OneAtATime'
  <2>1. UNCHANGED <<sessions, tokens, answered, careless>>
    BY <1>10 DEF ServeNothing
  <2>2. \A d \in Clients : flight'[d].step = "rotate" => flight'[d] = flight[d]
    BY <1>10 DEF ServeNothing, TypeOK, Idle
  <2> QED
    BY <1>s, <2>1, <2>2, <1>q DEF NoFalseReuse
<1>11. ASSUME NEW u \in Users, NEW why \in {"admin", "media_server"}, Disable(u, why)
       PROVE  OneAtATime'
  BY <1>3, <1>11 DEF Disable
<1>12. CASE ServerChanged
  BY <1>3, <1>12 DEF ServerChanged
<1>13. ASSUME NEW u \in Users, DeleteUser(u) PROVE OneAtATime'
  BY <1>4, <1>13 DEF DeleteUser
<1>14. CASE Purge
  BY <1>4, <1>14 DEF Purge
<1>15. CASE Tick \/ (\E u \in Users : Enable(u) \/ SetRemote(u)) \/ UNCHANGED vars
  BY <1>1, <1>15 DEF Tick, Enable, SetRemote, vars
<1> QED
  BY <1>2, <1>5, <1>6, <1>7, <1>8, <1>9, <1>10, <1>11, <1>12, <1>13, <1>14, <1>15 DEF Next

\* A session is revoked for reuse only if its own app presented a token twice,
\* however requests, refusals, purges and sign-ins interleave.
THEOREM CarefulAppsAreSafe == Spec => []NoFalseReuse
<1>1. OneAtATime => NoFalseReuse
  BY DEF OneAtATime
<1> QED
  BY <1>1, InitTypeOK, NextTypeOK, InitOneAtATime, NextOneAtATime, PTL DEF Spec
=============================================================================

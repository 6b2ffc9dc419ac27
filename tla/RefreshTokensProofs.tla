------------------------ MODULE RefreshTokensProofs ------------------------
(***************************************************************************)
(* The safety of RefreshTokens for any number of requests and tokens, and  *)
(* the proof that its tables implement SessionRotation.                    *)
(*                                                                         *)
(* The inductive invariant comes in layers, each proved from the ones      *)
(* before it: the types; what a request's program counter says of its      *)
(* cookie, its new token and its transaction (ControlOK); how requests and *)
(* rows agree (RowsOK); and on top of these the properties themselves.     *)
(***************************************************************************)
EXTENDS RefreshTokens, TLAPS

\* What the program counter of request r says of its other variables.
ControlOK ==
  \A r \in Requests :
    /\ op[r] = "none" <=> pc[r] = "idle"
    /\ op[r] \in {"refresh", "logout"} <=> tok[r] # None
    /\ pc[r] = "store" => op[r] = "login"
    /\ pc[r] = "find" => op[r] \in {"refresh", "logout"}
    /\ pc[r] \in {"revoke", "create", "commit"} => op[r] = "refresh"
    /\ pc[r] = "update" => op[r] = "logout"
    /\ pc[r] \in {"idle", "find", "revoke", "create", "update", "store"}
         => new[r] = None
    /\ tx[r] # "none" => op[r] = "refresh"
    /\ op[r] = "refresh"
         => (tx[r] # "none" <=> pc[r] \in {"create", "audit", "commit"})
    /\ tx[r] = "aborted" => new[r] = None
    /\ tx[r] = "open" /\ pc[r] # "create" => new[r] # None
    /\ op[r] = "logout" => new[r] = None
    /\ op[r] = "login" /\ pc[r] \in {"audit", "ok"} => new[r] # None
    /\ op[r] = "refresh" /\ pc[r] = "ok" => new[r] # None
    /\ pc[r] \in {"unauthorized", "error"} => new[r] = None

\* A row belongs to the session of the login that started its chain.
SessionsOK ==
  /\ \A t \in Tokens : row[t] = "unissued" <=> session[t] = None
  /\ \A t \in Tokens : session[t] # None =>
       op[session[t]] = "login" /\ new[session[t]] # None

\* The new token of a request is in the table exactly when its transaction is
\* no longer open; the token of its cookie has been issued, is active while
\* the request holds its lock, and is dead once it has been exchanged.
TokensOK ==
  \A r \in Requests :
    /\ new[r] # None => (row[new[r]] = "unissued" <=> tx[r] = "open")
    /\ tok[r] # None => row[tok[r]] # "unissued"
    /\ tx[r] = "open" => row[tok[r]] = "active"
    /\ Rotated(r) => row[tok[r]] \in {"revoked", "deleted"}

NewUnique ==
  \A q, r \in Requests : new[q] # None /\ new[q] = new[r] => q = r

LockUnique ==
  \A q, r \in Requests :
    tx[q] = "open" /\ tx[r] = "open" /\ tok[q] = tok[r] => q = r

\* How the requests and the committed rows agree.
RowsOK == SessionsOK /\ TokensOK /\ NewUnique /\ LockUnique

\* A refresh that arrived with a dead token never gets past its lookup.
StaleOK ==
  \A r \in Requests : op[r] = "refresh" /\ stale[r] =>
    /\ row[tok[r]] # "active" \/ tok[r] \in expired
    /\ pc[r] \in {"find", "unauthorized", "error", "lost"}
    /\ new[r] = None

\* From its update on, a logout has left its token dead.
LogoutOK ==
  \A r \in Requests :
    op[r] = "logout" /\ pc[r] \in {"audit", "ok"}
      => row[tok[r]] \in {"revoked", "deleted"}

-----------------------------------------------------------------------------
(* Types and control.                                                      *)

\* TypeOK alone is not inductive: Commit copies the session of the cookie's
\* token, so it needs to know that there is one.
TypeInv == TypeOK /\ ControlOK

\* The tables start empty.
LEMMA TypeInvInit == Init => TypeInv
  BY NoneAssumption DEF Init, TypeInv, TypeOK, ControlOK

\* Every step keeps the types.
LEMMA TypeStep == TypeInv /\ [Next]_vars => TypeOK'
  <1> SUFFICES ASSUME TypeInv, [Next]_vars PROVE TypeOK'
    OBVIOUS
  <1> USE NoneAssumption
          DEF TypeInv, TypeOK, InFlight, Final, Goto, Answer, Arrive, Held,
              db, request
  <1>1. ASSUME NEW r \in Requests, Login(r) PROVE TypeOK'
    BY <1>1 DEF Login
  <1>2. ASSUME NEW r \in Requests, storeRefreshToken(r) PROVE TypeOK'
    BY <1>2 DEF storeRefreshToken
  <1>3. ASSUME NEW r \in Requests, Refresh(r) PROVE TypeOK'
    BY <1>3 DEF Refresh
  <1>4. ASSUME NEW r \in Requests, RefreshFind(r) PROVE TypeOK'
    BY <1>4 DEF RefreshFind
  <1>5. ASSUME NEW r \in Requests, RevokeWon(r) PROVE TypeOK'
    BY <1>5 DEF RevokeWon
  <1>6. ASSUME NEW r \in Requests, RevokeLost(r) PROVE TypeOK'
    BY <1>6 DEF RevokeLost
  <1>7. ASSUME NEW r \in Requests, CreateInTx(r) PROVE TypeOK'
    BY <1>7 DEF CreateInTx
  <1>8. ASSUME NEW r \in Requests, Commit(r) PROVE TypeOK'
    <2>1. tok[r] \in Tokens /\ new[r] \in Tokens
      BY <1>8 DEF Commit, ControlOK
    <2> QED
      BY <1>8, <2>1 DEF Commit
  <1>9. ASSUME NEW r \in Requests, CommitRefused(r) PROVE TypeOK'
    BY <1>9 DEF CommitRefused
  <1>10. ASSUME NEW r \in Requests, TxAbort(r) PROVE TypeOK'
    BY <1>10 DEF TxAbort
  <1>11. ASSUME NEW r \in Requests, Logout(r) PROVE TypeOK'
    BY <1>11 DEF Logout
  <1>12. ASSUME NEW r \in Requests, LogoutFind(r) PROVE TypeOK'
    BY <1>12 DEF LogoutFind
  <1>13. ASSUME NEW r \in Requests, LogoutUpdate(r) PROVE TypeOK'
    BY <1>13 DEF LogoutUpdate
  <1>14. ASSUME NEW r \in Requests, AuditLog(r) PROVE TypeOK'
    BY <1>14 DEF AuditLog
  <1>15. ASSUME NEW r \in Requests, DbError(r) PROVE TypeOK'
    BY <1>15 DEF DbError
  <1>16. ASSUME NEW t \in Tokens, Expire(t) PROVE TypeOK'
    BY <1>16 DEF Expire
  <1>17. ASSUME cleanupOldTokens PROVE TypeOK'
    BY <1>17 DEF cleanupOldTokens
  <1>18. ASSUME Crash PROVE TypeOK'
    BY <1>18 DEF Crash
  <1>19. ASSUME UNCHANGED vars PROVE TypeOK'
    BY <1>19 DEF vars
  <1> QED
    BY <1>1, <1>2, <1>3, <1>4, <1>5, <1>6, <1>7, <1>8, <1>9, <1>10, <1>11,
       <1>12, <1>13, <1>14, <1>15, <1>16, <1>17, <1>18, <1>19
       DEF Next, Step

\* Every step keeps what the program counters imply.
LEMMA ControlStep == TypeInv /\ [Next]_vars => ControlOK'
  <1> SUFFICES ASSUME TypeInv, [Next]_vars PROVE ControlOK'
    OBVIOUS
  <1> USE NoneAssumption
          DEF TypeInv, TypeOK, ControlOK, Goto, Answer, Arrive, Held, db,
              request
  <1>1. ASSUME NEW r \in Requests, Login(r) PROVE ControlOK'
    BY <1>1 DEF Login
  <1>2. ASSUME NEW r \in Requests, storeRefreshToken(r) PROVE ControlOK'
    BY <1>2 DEF storeRefreshToken
  <1>3. ASSUME NEW r \in Requests, Refresh(r) PROVE ControlOK'
    BY <1>3 DEF Refresh
  <1>4. ASSUME NEW r \in Requests, RefreshFind(r) PROVE ControlOK'
    BY <1>4 DEF RefreshFind
  <1>5. ASSUME NEW r \in Requests, RevokeWon(r) PROVE ControlOK'
    BY <1>5 DEF RevokeWon
  <1>6. ASSUME NEW r \in Requests, RevokeLost(r) PROVE ControlOK'
    BY <1>6 DEF RevokeLost
  <1>7. ASSUME NEW r \in Requests, CreateInTx(r) PROVE ControlOK'
    BY <1>7 DEF CreateInTx
  <1>8. ASSUME NEW r \in Requests, Commit(r) PROVE ControlOK'
    BY <1>8 DEF Commit
  <1>9. ASSUME NEW r \in Requests, CommitRefused(r) PROVE ControlOK'
    BY <1>9 DEF CommitRefused
  <1>10. ASSUME NEW r \in Requests, TxAbort(r) PROVE ControlOK'
    BY <1>10 DEF TxAbort
  <1>11. ASSUME NEW r \in Requests, Logout(r) PROVE ControlOK'
    BY <1>11 DEF Logout
  <1>12. ASSUME NEW r \in Requests, LogoutFind(r) PROVE ControlOK'
    <2>1. /\ pc[r] = "find" /\ op[r] = "logout"
          /\ UNCHANGED <<op, tok, new, tx>>
      BY <1>12 DEF LogoutFind
    <2>2. PICK l \in {"update", "ok", "lost"} : pc' = [pc EXCEPT ![r] = l]
      BY <1>12 DEF LogoutFind
    <2> QED
      BY <2>1, <2>2
  <1>13. ASSUME NEW r \in Requests, LogoutUpdate(r) PROVE ControlOK'
    BY <1>13 DEF LogoutUpdate
  <1>14. ASSUME NEW r \in Requests, AuditLog(r) PROVE ControlOK'
    BY <1>14 DEF AuditLog
  <1>15. ASSUME NEW r \in Requests, DbError(r) PROVE ControlOK'
    BY <1>15 DEF DbError
  <1>16. ASSUME NEW t \in Tokens, Expire(t) PROVE ControlOK'
    BY <1>16 DEF Expire
  <1>17. ASSUME cleanupOldTokens PROVE ControlOK'
    BY <1>17 DEF cleanupOldTokens
  <1>18. ASSUME Crash PROVE ControlOK'
    BY <1>18 DEF Crash, InFlight, Final
  <1>19. ASSUME UNCHANGED vars PROVE ControlOK'
    BY <1>19 DEF vars
  <1> QED
    BY <1>1, <1>2, <1>3, <1>4, <1>5, <1>6, <1>7, <1>8, <1>9, <1>10, <1>11,
       <1>12, <1>13, <1>14, <1>15, <1>16, <1>17, <1>18, <1>19
       DEF Next, Step

\* Types and control hold together.
LEMMA TypeInvariance == Spec => []TypeInv
  <1>1. TypeInv /\ [Next]_vars => TypeInv'
    BY TypeStep, ControlStep DEF TypeInv
  <1> QED
    BY <1>1, TypeInvInit, PTL DEF Spec

\* Every variable keeps its type: each row state, outcome and program counter
\* of the handlers is one of those the model names.
THEOREM TypeCorrect == Spec => []TypeOK
  <1>1. TypeInv => TypeOK
    BY DEF TypeInv
  <1> QED
    BY <1>1, TypeInvariance, PTL

\* Whatever the interleaving, the answer to a refresh tells whether the
\* exchange was committed.
THEOREM Truthful == Spec => []AnswerTruthful
  <1>1. TypeInv => AnswerTruthful
    BY DEF TypeInv, TypeOK, ControlOK, AnswerTruthful, Rotated
  <1> QED
    BY <1>1, TypeInvariance, PTL

-----------------------------------------------------------------------------
(* Requests and rows.                                                      *)

RowInv == TypeInv /\ RowsOK

\* Requests and rows agree at the start.
LEMMA RowInvInit == Init => RowInv
  <1>1. Init => RowsOK
    BY NoneAssumption
       DEF Init, RowsOK, SessionsOK, TokensOK, NewUnique, LockUnique, Rotated
  <1> QED
    BY <1>1, TypeInvInit DEF RowInv

\* Every step keeps requests and rows in agreement.
LEMMA RowStep == RowInv /\ [Next]_vars => RowsOK'
  <1> SUFFICES ASSUME RowInv, [Next]_vars PROVE RowsOK'
    OBVIOUS
  <1> USE NoneAssumption
          DEF RowInv, TypeInv, TypeOK, ControlOK, RowsOK, SessionsOK, TokensOK,
              NewUnique, LockUnique, Rotated, Fresh, Locked, Goto,
              Answer, Arrive, Held, db, request
  <1>1. ASSUME NEW r \in Requests, Login(r) PROVE RowsOK'
    BY <1>1 DEF Login
  <1>2. ASSUME NEW r \in Requests, storeRefreshToken(r) PROVE RowsOK'
    <2>1. SessionsOK'
      BY <1>2 DEF storeRefreshToken
    <2>2. TokensOK'
      BY <1>2 DEF storeRefreshToken
    <2>3. NewUnique'
      BY <1>2 DEF storeRefreshToken
    <2>4. LockUnique'
      BY <1>2 DEF storeRefreshToken
    <2> QED
      BY <2>1, <2>2, <2>3, <2>4 DEF RowsOK
  <1>3. ASSUME NEW r \in Requests, Refresh(r) PROVE RowsOK'
    BY <1>3 DEF Refresh
  <1>4. ASSUME NEW r \in Requests, RefreshFind(r) PROVE RowsOK'
    BY <1>4 DEF RefreshFind
  <1>5. ASSUME NEW r \in Requests, RevokeWon(r) PROVE RowsOK'
    <2>1. SessionsOK'
      BY <1>5 DEF RevokeWon
    <2>2. TokensOK'
      BY <1>5 DEF RevokeWon
    <2>3. NewUnique'
      BY <1>5 DEF RevokeWon
    <2>4. LockUnique'
      BY <1>5 DEF RevokeWon
    <2> QED
      BY <2>1, <2>2, <2>3, <2>4 DEF RowsOK
  <1>6. ASSUME NEW r \in Requests, RevokeLost(r) PROVE RowsOK'
    BY <1>6 DEF RevokeLost
  <1>7. ASSUME NEW r \in Requests, CreateInTx(r) PROVE RowsOK'
    <2>1. SessionsOK'
      BY <1>7 DEF CreateInTx
    <2>2. TokensOK'
      BY <1>7 DEF CreateInTx
    <2>3. NewUnique'
      BY <1>7 DEF CreateInTx
    <2>4. LockUnique'
      BY <1>7 DEF CreateInTx
    <2> QED
      BY <2>1, <2>2, <2>3, <2>4 DEF RowsOK
  <1>8. ASSUME NEW r \in Requests, Commit(r) PROVE RowsOK'
    <2>1. SessionsOK'
      BY <1>8 DEF Commit
    <2>2. TokensOK'
      BY <1>8 DEF Commit
    <2>3. NewUnique'
      BY <1>8 DEF Commit
    <2>4. LockUnique'
      BY <1>8 DEF Commit
    <2> QED
      BY <2>1, <2>2, <2>3, <2>4 DEF RowsOK
  <1>9. ASSUME NEW r \in Requests, CommitRefused(r) PROVE RowsOK'
    BY <1>9 DEF CommitRefused
  <1>10. ASSUME NEW r \in Requests, TxAbort(r) PROVE RowsOK'
    BY <1>10 DEF TxAbort
  <1>11. ASSUME NEW r \in Requests, Logout(r) PROVE RowsOK'
    BY <1>11 DEF Logout
  <1>12. ASSUME NEW r \in Requests, LogoutFind(r) PROVE RowsOK'
    BY <1>12 DEF LogoutFind
  <1>13. ASSUME NEW r \in Requests, LogoutUpdate(r) PROVE RowsOK'
    <2>1. SessionsOK'
      BY <1>13 DEF LogoutUpdate
    <2>2. TokensOK'
      BY <1>13 DEF LogoutUpdate
    <2>3. NewUnique'
      BY <1>13 DEF LogoutUpdate
    <2>4. LockUnique'
      BY <1>13 DEF LogoutUpdate
    <2> QED
      BY <2>1, <2>2, <2>3, <2>4 DEF RowsOK
  <1>14. ASSUME NEW r \in Requests, AuditLog(r) PROVE RowsOK'
    BY <1>14 DEF AuditLog
  <1>15. ASSUME NEW r \in Requests, DbError(r) PROVE RowsOK'
    BY <1>15 DEF DbError
  <1>16. ASSUME NEW t \in Tokens, Expire(t) PROVE RowsOK'
    BY <1>16 DEF Expire
  <1>17. ASSUME cleanupOldTokens PROVE RowsOK'
    <2>1. SessionsOK'
      BY <1>17 DEF cleanupOldTokens
    <2>2. TokensOK'
      BY <1>17 DEF cleanupOldTokens
    <2>3. NewUnique'
      BY <1>17 DEF cleanupOldTokens
    <2>4. LockUnique'
      BY <1>17 DEF cleanupOldTokens
    <2> QED
      BY <2>1, <2>2, <2>3, <2>4 DEF RowsOK
  <1>18. ASSUME Crash PROVE RowsOK'
    BY <1>18 DEF Crash
  <1>19. ASSUME UNCHANGED vars PROVE RowsOK'
    BY <1>19 DEF vars
  <1> QED
    BY <1>1, <1>2, <1>3, <1>4, <1>5, <1>6, <1>7, <1>8, <1>9, <1>10, <1>11,
       <1>12, <1>13, <1>14, <1>15, <1>16, <1>17, <1>18, <1>19
       DEF Next, Step

\* They agree in every reachable state.
LEMMA RowInvariance == Spec => []RowInv
  <1>1. RowInv /\ [Next]_vars => RowInv'
    BY TypeStep, ControlStep, RowStep DEF RowInv, TypeInv
  <1> QED
    BY <1>1, RowInvInit, PTL DEF Spec

-----------------------------------------------------------------------------
(* Rotation.                                                               *)

\* No step exchanges a token again.
LEMMA SingleUseStep == RowInv /\ SingleUse /\ [Next]_vars => SingleUse'
  <1> SUFFICES ASSUME RowInv /\ SingleUse, [Next]_vars PROVE SingleUse'
    OBVIOUS
  <1> USE NoneAssumption
          DEF RowInv, TypeInv, TypeOK, ControlOK, RowsOK, SessionsOK, TokensOK,
              Rotated, Fresh, Locked, Goto, Answer, Arrive, Held, db, request,
              SingleUse
  <1>1. ASSUME NEW r \in Requests, Login(r) PROVE SingleUse'
    BY <1>1 DEF Login
  <1>2. ASSUME NEW r \in Requests, storeRefreshToken(r) PROVE SingleUse'
    BY <1>2 DEF storeRefreshToken
  <1>3. ASSUME NEW r \in Requests, Refresh(r) PROVE SingleUse'
    BY <1>3 DEF Refresh
  <1>4. ASSUME NEW r \in Requests, RefreshFind(r) PROVE SingleUse'
    BY <1>4 DEF RefreshFind
  <1>5. ASSUME NEW r \in Requests, RevokeWon(r) PROVE SingleUse'
    BY <1>5 DEF RevokeWon
  <1>6. ASSUME NEW r \in Requests, RevokeLost(r) PROVE SingleUse'
    BY <1>6 DEF RevokeLost
  <1>7. ASSUME NEW r \in Requests, CreateInTx(r) PROVE SingleUse'
    BY <1>7 DEF CreateInTx
  <1>8. ASSUME NEW r \in Requests, Commit(r) PROVE SingleUse'
    BY <1>8 DEF Commit
  <1>9. ASSUME NEW r \in Requests, CommitRefused(r) PROVE SingleUse'
    BY <1>9 DEF CommitRefused
  <1>10. ASSUME NEW r \in Requests, TxAbort(r) PROVE SingleUse'
    BY <1>10 DEF TxAbort
  <1>11. ASSUME NEW r \in Requests, Logout(r) PROVE SingleUse'
    BY <1>11 DEF Logout
  <1>12. ASSUME NEW r \in Requests, LogoutFind(r) PROVE SingleUse'
    BY <1>12 DEF LogoutFind
  <1>13. ASSUME NEW r \in Requests, LogoutUpdate(r) PROVE SingleUse'
    BY <1>13 DEF LogoutUpdate
  <1>14. ASSUME NEW r \in Requests, AuditLog(r) PROVE SingleUse'
    BY <1>14 DEF AuditLog
  <1>15. ASSUME NEW r \in Requests, DbError(r) PROVE SingleUse'
    BY <1>15 DEF DbError
  <1>16. ASSUME NEW t \in Tokens, Expire(t) PROVE SingleUse'
    BY <1>16 DEF Expire
  <1>17. ASSUME cleanupOldTokens PROVE SingleUse'
    BY <1>17 DEF cleanupOldTokens
  <1>18. ASSUME Crash PROVE SingleUse'
    BY <1>18 DEF Crash
  <1>19. ASSUME UNCHANGED vars PROVE SingleUse'
    BY <1>19 DEF vars
  <1> QED
    BY <1>1, <1>2, <1>3, <1>4, <1>5, <1>6, <1>7, <1>8, <1>9, <1>10, <1>11,
       <1>12, <1>13, <1>14, <1>15, <1>16, <1>17, <1>18, <1>19
       DEF Next, Step

\* However many requests present a refresh token at once, and wherever their
\* transactions abort or the server restarts, one of them at most exchanges
\* it (refresh's conditional updateMany).
THEOREM SingleUseHolds == Spec => []SingleUse
  <1>1. Init => SingleUse
    BY DEF Init, SingleUse, Rotated
  <1> QED
    BY <1>1, SingleUseStep, RowInvariance, PTL DEF Spec

\* No step gives a session a second live token.
LEMMA OneLiveStep ==
  RowInv /\ OneLivePerSession /\ [Next]_vars
    => OneLivePerSession'
  <1> SUFFICES ASSUME RowInv /\ OneLivePerSession, [Next]_vars
               PROVE  OneLivePerSession'
    OBVIOUS
  <1> USE NoneAssumption
          DEF RowInv, TypeInv, TypeOK, ControlOK, RowsOK, SessionsOK, TokensOK,
              Rotated, Fresh, Locked, Goto, Answer, Arrive, Held, db, request,
              OneLivePerSession
  <1>1. ASSUME NEW r \in Requests, Login(r) PROVE OneLivePerSession'
    BY <1>1 DEF Login
  <1>2. ASSUME NEW r \in Requests, storeRefreshToken(r) PROVE OneLivePerSession'
    BY <1>2 DEF storeRefreshToken
  <1>3. ASSUME NEW r \in Requests, Refresh(r) PROVE OneLivePerSession'
    BY <1>3 DEF Refresh
  <1>4. ASSUME NEW r \in Requests, RefreshFind(r) PROVE OneLivePerSession'
    BY <1>4 DEF RefreshFind
  <1>5. ASSUME NEW r \in Requests, RevokeWon(r) PROVE OneLivePerSession'
    BY <1>5 DEF RevokeWon
  <1>6. ASSUME NEW r \in Requests, RevokeLost(r) PROVE OneLivePerSession'
    BY <1>6 DEF RevokeLost
  <1>7. ASSUME NEW r \in Requests, CreateInTx(r) PROVE OneLivePerSession'
    BY <1>7 DEF CreateInTx
  <1>8. ASSUME NEW r \in Requests, Commit(r) PROVE OneLivePerSession'
    BY <1>8 DEF Commit
  <1>9. ASSUME NEW r \in Requests, CommitRefused(r) PROVE OneLivePerSession'
    BY <1>9 DEF CommitRefused
  <1>10. ASSUME NEW r \in Requests, TxAbort(r) PROVE OneLivePerSession'
    BY <1>10 DEF TxAbort
  <1>11. ASSUME NEW r \in Requests, Logout(r) PROVE OneLivePerSession'
    BY <1>11 DEF Logout
  <1>12. ASSUME NEW r \in Requests, LogoutFind(r) PROVE OneLivePerSession'
    BY <1>12 DEF LogoutFind
  <1>13. ASSUME NEW r \in Requests, LogoutUpdate(r) PROVE OneLivePerSession'
    BY <1>13 DEF LogoutUpdate
  <1>14. ASSUME NEW r \in Requests, AuditLog(r) PROVE OneLivePerSession'
    BY <1>14 DEF AuditLog
  <1>15. ASSUME NEW r \in Requests, DbError(r) PROVE OneLivePerSession'
    BY <1>15 DEF DbError
  <1>16. ASSUME NEW t \in Tokens, Expire(t) PROVE OneLivePerSession'
    BY <1>16 DEF Expire
  <1>17. ASSUME cleanupOldTokens PROVE OneLivePerSession'
    BY <1>17 DEF cleanupOldTokens
  <1>18. ASSUME Crash PROVE OneLivePerSession'
    BY <1>18 DEF Crash
  <1>19. ASSUME UNCHANGED vars PROVE OneLivePerSession'
    BY <1>19 DEF vars
  <1> QED
    BY <1>1, <1>2, <1>3, <1>4, <1>5, <1>6, <1>7, <1>8, <1>9, <1>10, <1>11,
       <1>12, <1>13, <1>14, <1>15, <1>16, <1>17, <1>18, <1>19
       DEF Next, Step

\* The tokens descended from one login never include two that are unrevoked.
THEOREM OneLive == Spec => []OneLivePerSession
  <1>1. Init => OneLivePerSession
    BY DEF Init, OneLivePerSession
  <1> QED
    BY <1>1, OneLiveStep, RowInvariance, PTL DEF Spec

\* No step leaves a session alive whose token died unexchanged.
LEMMA SessionEndsStep ==
  RowInv /\ OneLivePerSession /\ SessionEndsWithToken /\ [Next]_vars
    => SessionEndsWithToken'
  <1> SUFFICES ASSUME RowInv /\ OneLivePerSession /\ SessionEndsWithToken, [Next]_vars
               PROVE  SessionEndsWithToken'
    OBVIOUS
  <1> USE NoneAssumption
          DEF RowInv, TypeInv, TypeOK, ControlOK, RowsOK, SessionsOK, TokensOK,
              Rotated, Fresh, Locked, Goto, Answer, Arrive, Held, db, request,
              OneLivePerSession, SessionEndsWithToken
  <1>1. ASSUME NEW r \in Requests, Login(r) PROVE SessionEndsWithToken'
    BY <1>1 DEF Login
  <1>2. ASSUME NEW r \in Requests, storeRefreshToken(r) PROVE SessionEndsWithToken'
    BY <1>2 DEF storeRefreshToken
  <1>3. ASSUME NEW r \in Requests, Refresh(r) PROVE SessionEndsWithToken'
    BY <1>3 DEF Refresh
  <1>4. ASSUME NEW r \in Requests, RefreshFind(r) PROVE SessionEndsWithToken'
    BY <1>4 DEF RefreshFind
  <1>5. ASSUME NEW r \in Requests, RevokeWon(r) PROVE SessionEndsWithToken'
    BY <1>5 DEF RevokeWon
  <1>6. ASSUME NEW r \in Requests, RevokeLost(r) PROVE SessionEndsWithToken'
    BY <1>6 DEF RevokeLost
  <1>7. ASSUME NEW r \in Requests, CreateInTx(r) PROVE SessionEndsWithToken'
    BY <1>7 DEF CreateInTx
  <1>8. ASSUME NEW r \in Requests, Commit(r) PROVE SessionEndsWithToken'
    BY <1>8 DEF Commit
  <1>9. ASSUME NEW r \in Requests, CommitRefused(r) PROVE SessionEndsWithToken'
    BY <1>9 DEF CommitRefused
  <1>10. ASSUME NEW r \in Requests, TxAbort(r) PROVE SessionEndsWithToken'
    BY <1>10 DEF TxAbort
  <1>11. ASSUME NEW r \in Requests, Logout(r) PROVE SessionEndsWithToken'
    BY <1>11 DEF Logout
  <1>12. ASSUME NEW r \in Requests, LogoutFind(r) PROVE SessionEndsWithToken'
    BY <1>12 DEF LogoutFind
  <1>13. ASSUME NEW r \in Requests, LogoutUpdate(r) PROVE SessionEndsWithToken'
    BY <1>13 DEF LogoutUpdate
  <1>14. ASSUME NEW r \in Requests, AuditLog(r) PROVE SessionEndsWithToken'
    BY <1>14 DEF AuditLog
  <1>15. ASSUME NEW r \in Requests, DbError(r) PROVE SessionEndsWithToken'
    BY <1>15 DEF DbError
  <1>16. ASSUME NEW t \in Tokens, Expire(t) PROVE SessionEndsWithToken'
    BY <1>16 DEF Expire
  <1>17. ASSUME cleanupOldTokens PROVE SessionEndsWithToken'
    BY <1>17 DEF cleanupOldTokens
  <1>18. ASSUME Crash PROVE SessionEndsWithToken'
    BY <1>18 DEF Crash
  <1>19. ASSUME UNCHANGED vars PROVE SessionEndsWithToken'
    BY <1>19 DEF vars
  <1> QED
    BY <1>1, <1>2, <1>3, <1>4, <1>5, <1>6, <1>7, <1>8, <1>9, <1>10, <1>11,
       <1>12, <1>13, <1>14, <1>15, <1>16, <1>17, <1>18, <1>19
       DEF Next, Step

\* A token that died without being exchanged leaves its session no usable
\* token.
THEOREM SessionEnds == Spec => []SessionEndsWithToken
  <1>1. Init => SessionEndsWithToken
    BY DEF Init, SessionEndsWithToken
  <1> QED
    BY <1>1, SessionEndsStep, OneLive, RowInvariance, PTL DEF Spec

-----------------------------------------------------------------------------
(* Stale tokens and logout.                                                *)

\* A refresh that starts stale carries a token that was revoked or expired.
LEMMA ArriveStale ==
  ASSUME TypeOK, NEW r \in Requests, NEW t \in Tokens, NEW o,
         Arrive(r, o, t, "find")
  PROVE  stale'[r] => row[t] # "active" \/ t \in expired
  BY NoneAssumption DEF TypeOK, Arrive

\* No step gives a stale refresh a new token.
LEMMA StaleStep == RowInv /\ StaleOK /\ [Next]_vars => StaleOK'
  <1> SUFFICES ASSUME RowInv /\ StaleOK, [Next]_vars PROVE StaleOK'
    OBVIOUS
  <1> USE NoneAssumption
          DEF RowInv, TypeInv, TypeOK, ControlOK, RowsOK, SessionsOK, TokensOK,
              Rotated, Fresh, Locked, Goto, Answer, Arrive, Held, db, request, StaleOK,
              findMatchingRefreshToken, InFlight, Final
  <1>1. ASSUME NEW r \in Requests, Login(r) PROVE StaleOK'
    BY <1>1 DEF Login
  <1>2. ASSUME NEW r \in Requests, storeRefreshToken(r) PROVE StaleOK'
    BY <1>2 DEF storeRefreshToken
  <1>3. ASSUME NEW r \in Requests, Refresh(r) PROVE StaleOK'
    <2>1. PICK t \in Held : Arrive(r, "refresh", t, "find")
      BY <1>3 DEF Refresh
    <2>2. t \in Tokens
      BY DEF Held
    <2>3. stale'[r] => row[t] # "active" \/ t \in expired
      BY <2>1, <2>2, ArriveStale
    <2>4. tok'[r] = t
      BY <2>1
    <2>5. pc'[r] = "find" /\ new'[r] = None
      BY <2>1
    <2>6. \A q \in Requests \ {r} :
            /\ op'[q] = op[q] /\ stale'[q] = stale[q] /\ tok'[q] = tok[q]
            /\ pc'[q] = pc[q] /\ new'[q] = new[q]
      BY <2>1
    <2>7. row' = row /\ expired' = expired
      BY <2>1
    <2> QED
      BY <2>3, <2>4, <2>5, <2>6, <2>7
  <1>4. ASSUME NEW r \in Requests, RefreshFind(r) PROVE StaleOK'
    BY <1>4 DEF RefreshFind
  <1>5. ASSUME NEW r \in Requests, RevokeWon(r) PROVE StaleOK'
    BY <1>5 DEF RevokeWon
  <1>6. ASSUME NEW r \in Requests, RevokeLost(r) PROVE StaleOK'
    BY <1>6 DEF RevokeLost
  <1>7. ASSUME NEW r \in Requests, CreateInTx(r) PROVE StaleOK'
    BY <1>7 DEF CreateInTx
  <1>8. ASSUME NEW r \in Requests, Commit(r) PROVE StaleOK'
    BY <1>8 DEF Commit
  <1>9. ASSUME NEW r \in Requests, CommitRefused(r) PROVE StaleOK'
    BY <1>9 DEF CommitRefused
  <1>10. ASSUME NEW r \in Requests, TxAbort(r) PROVE StaleOK'
    BY <1>10 DEF TxAbort
  <1>11. ASSUME NEW r \in Requests, Logout(r) PROVE StaleOK'
    BY <1>11 DEF Logout
  <1>12. ASSUME NEW r \in Requests, LogoutFind(r) PROVE StaleOK'
    BY <1>12 DEF LogoutFind
  <1>13. ASSUME NEW r \in Requests, LogoutUpdate(r) PROVE StaleOK'
    BY <1>13 DEF LogoutUpdate
  <1>14. ASSUME NEW r \in Requests, AuditLog(r) PROVE StaleOK'
    BY <1>14 DEF AuditLog
  <1>15. ASSUME NEW r \in Requests, DbError(r) PROVE StaleOK'
    BY <1>15 DEF DbError
  <1>16. ASSUME NEW t \in Tokens, Expire(t) PROVE StaleOK'
    BY <1>16 DEF Expire
  <1>17. ASSUME cleanupOldTokens PROVE StaleOK'
    BY <1>17 DEF cleanupOldTokens
  <1>18. ASSUME Crash PROVE StaleOK'
    BY <1>18 DEF Crash
  <1>19. ASSUME UNCHANGED vars PROVE StaleOK'
    BY <1>19 DEF vars
  <1> QED
    BY <1>1, <1>2, <1>3, <1>4, <1>5, <1>6, <1>7, <1>8, <1>9, <1>10, <1>11,
       <1>12, <1>13, <1>14, <1>15, <1>16, <1>17, <1>18, <1>19
       DEF Next, Step

\* A refresh that arrived with a revoked, deleted or expired token never
\* obtains a new one (the lookup's activeOnly checks).
THEOREM StaleNever == Spec => []StaleNeverRotates
  <1>1. Init => StaleOK
    BY DEF Init, StaleOK
  <1>2. StaleOK => StaleNeverRotates
    BY DEF StaleOK, StaleNeverRotates
  <1> QED
    BY <1>1, <1>2, StaleStep, RowInvariance, PTL DEF Spec

\* No step revives the token of a logout that has answered.
LEMMA LogoutStep == RowInv /\ LogoutOK /\ [Next]_vars => LogoutOK'
  <1> SUFFICES ASSUME RowInv /\ LogoutOK, [Next]_vars PROVE LogoutOK'
    OBVIOUS
  <1> USE NoneAssumption
          DEF RowInv, TypeInv, TypeOK, ControlOK, RowsOK, SessionsOK, TokensOK,
              Rotated, Fresh, Locked, Goto, Answer, Arrive, Held, db, request, LogoutOK,
              findMatchingRefreshToken
  <1>1. ASSUME NEW r \in Requests, Login(r) PROVE LogoutOK'
    BY <1>1 DEF Login
  <1>2. ASSUME NEW r \in Requests, storeRefreshToken(r) PROVE LogoutOK'
    BY <1>2 DEF storeRefreshToken
  <1>3. ASSUME NEW r \in Requests, Refresh(r) PROVE LogoutOK'
    BY <1>3 DEF Refresh
  <1>4. ASSUME NEW r \in Requests, RefreshFind(r) PROVE LogoutOK'
    BY <1>4 DEF RefreshFind
  <1>5. ASSUME NEW r \in Requests, RevokeWon(r) PROVE LogoutOK'
    BY <1>5 DEF RevokeWon
  <1>6. ASSUME NEW r \in Requests, RevokeLost(r) PROVE LogoutOK'
    BY <1>6 DEF RevokeLost
  <1>7. ASSUME NEW r \in Requests, CreateInTx(r) PROVE LogoutOK'
    BY <1>7 DEF CreateInTx
  <1>8. ASSUME NEW r \in Requests, Commit(r) PROVE LogoutOK'
    BY <1>8 DEF Commit
  <1>9. ASSUME NEW r \in Requests, CommitRefused(r) PROVE LogoutOK'
    BY <1>9 DEF CommitRefused
  <1>10. ASSUME NEW r \in Requests, TxAbort(r) PROVE LogoutOK'
    BY <1>10 DEF TxAbort
  <1>11. ASSUME NEW r \in Requests, Logout(r) PROVE LogoutOK'
    BY <1>11 DEF Logout
  <1>12. ASSUME NEW r \in Requests, LogoutFind(r) PROVE LogoutOK'
    BY <1>12 DEF LogoutFind
  <1>13. ASSUME NEW r \in Requests, LogoutUpdate(r) PROVE LogoutOK'
    BY <1>13 DEF LogoutUpdate
  <1>14. ASSUME NEW r \in Requests, AuditLog(r) PROVE LogoutOK'
    BY <1>14 DEF AuditLog
  <1>15. ASSUME NEW r \in Requests, DbError(r) PROVE LogoutOK'
    BY <1>15 DEF DbError
  <1>16. ASSUME NEW t \in Tokens, Expire(t) PROVE LogoutOK'
    BY <1>16 DEF Expire
  <1>17. ASSUME cleanupOldTokens PROVE LogoutOK'
    BY <1>17 DEF cleanupOldTokens
  <1>18. ASSUME Crash PROVE LogoutOK'
    BY <1>18 DEF Crash
  <1>19. ASSUME UNCHANGED vars PROVE LogoutOK'
    BY <1>19 DEF vars
  <1> QED
    BY <1>1, <1>2, <1>3, <1>4, <1>5, <1>6, <1>7, <1>8, <1>9, <1>10, <1>11,
       <1>12, <1>13, <1>14, <1>15, <1>16, <1>17, <1>18, <1>19
       DEF Next, Step

\* Once logout has answered 200, the token it was given is dead, and stays so.
THEOREM LogoutHolds == Spec => []LogoutSticks
  <1>1. Init => LogoutOK
    BY DEF Init, LogoutOK
  <1>2. LogoutOK => LogoutSticks
    BY DEF LogoutOK, LogoutSticks
  <1> QED
    BY <1>1, <1>2, LogoutStep, RowInvariance, PTL DEF Spec

-----------------------------------------------------------------------------
(* The tables implement SessionRotation.                                   *)

Live   == [s \in Requests |-> LiveTokens(s)]
Opened == {s \in Requests : \E t \in Tokens : session[t] = s}
Used   == {t \in Tokens : row[t] # "unissued"}

\* A step that leaves the rows alone is a stutter of SessionRotation.
LEMMA RowsSame ==
  ASSUME UNCHANGED <<row, session>>
  PROVE  [SR!Next]_(SR!vars)
  BY DEF SR!vars, LiveTokens

\* storeRefreshToken at a login is Open of the abstract specification.
LEMMA OpensSession ==
  ASSUME RowInv, NEW r \in Requests, storeRefreshToken(r)
  PROVE  SR!Next
  <1>1. PICK t \in Tokens :
          /\ Fresh(t)
          /\ row' = [row EXCEPT ![t] = "active"]
          /\ session' = [session EXCEPT ![t] = r]
    BY DEF storeRefreshToken
  <1> USE NoneAssumption DEF RowInv, TypeInv, TypeOK, RowsOK, SessionsOK
  <1>2. \A u \in Tokens : session[u] # r
    BY DEF ControlOK, storeRefreshToken
  <1>3. row[t] = "unissued" /\ session[t] = None
    BY <1>1 DEF Fresh
  <1>4. SR!Open(r, t)
    <2>1. r \notin Opened /\ t \notin Used
      BY <1>2, <1>3 DEF Opened, Used
    <2>2. Opened' = Opened \cup {r} /\ Used' = Used \cup {t}
      BY <1>1, <1>3 DEF Opened, Used
    <2>3. LiveTokens(r)' = {t}
      BY <1>1, <1>2 DEF LiveTokens
    <2>4. \A s \in Requests \ {r} : LiveTokens(s)' = LiveTokens(s)
      BY <1>1, <1>3 DEF LiveTokens
    <2>5. Live' = [Live EXCEPT ![r] = {t}]
      BY <2>3, <2>4 DEF Live
    <2> QED
      BY <2>1, <2>2, <2>5 DEF SR!Open, Live, Opened, Used
  <1> QED
    BY <1>4 DEF SR!Next

\* Commit kills the old token and brings the new one to life in one step.
LEMMA Rotates ==
  ASSUME RowInv, OneLivePerSession, NEW r \in Requests, Commit(r)
  PROVE  SR!Next
  <1>0. PICK s, t : s = session[tok[r]] /\ t = new[r]
    OBVIOUS
  <1> USE NoneAssumption DEF RowInv, TypeInv, TypeOK, RowsOK, SessionsOK
  <1>1. /\ tok[r] \in Tokens /\ t \in Tokens
        /\ row[tok[r]] = "active" /\ row[t] = "unissued" /\ session[t] = None
    BY <1>0 DEF ControlOK, TokensOK, Commit
  <1>2. s \in Requests
    BY <1>0, <1>1
  <1>3. /\ row' = [row EXCEPT ![tok[r]] = "revoked", ![t] = "active"]
        /\ session' = [session EXCEPT ![t] = s]
        /\ session[tok[r]] = s
    BY <1>0 DEF Commit
  <1>4. SR!Rotate(s, t)
    <2>1. Live[s] # {} /\ t \notin Used
      BY <1>1, <1>2, <1>3 DEF Live, LiveTokens, Used
    <2>2. Opened' = Opened /\ Used' = Used \cup {t}
      BY <1>1, <1>2, <1>3 DEF Opened, Used
    <2>3. LiveTokens(s)' = {t}
      <3>1. row'[t] = "active" /\ session'[t] = s /\ row'[tok[r]] = "revoked"
        BY <1>1, <1>3
      <3>2. ASSUME NEW u \in Tokens \ {t}, row'[u] = "active", session'[u] = s
            PROVE  FALSE
        BY <1>1, <1>3, <3>1, <3>2 DEF OneLivePerSession
      <3> QED
        BY <1>1, <3>1, <3>2 DEF LiveTokens
    <2>4. \A q \in Requests \ {s} : LiveTokens(q)' = LiveTokens(q)
      BY <1>1, <1>2, <1>3 DEF LiveTokens
    <2>5. Live' = [Live EXCEPT ![s] = {t}]
      BY <1>2, <2>3, <2>4 DEF Live
    <2> QED
      BY <2>1, <2>2, <2>5 DEF SR!Rotate, Live, Opened, Used
  <1> QED
    BY <1>1, <1>2, <1>4 DEF SR!Next

\* The sessions that lose an active token when the rows of D die.
Ending(D) == {s \in Requests : \E t \in D : row[t] = "active" /\ session[t] = s}

\* Rows that die without a successor close their sessions.
LEMMA DyingCloses ==
  ASSUME RowInv, OneLivePerSession, NEW D \in SUBSET Tokens,
         \A t \in D : row[t] # "unissued",
         \A t \in D : row'[t] \in {"revoked", "deleted"},
         \A t \in Tokens \ D : row'[t] = row[t],
         UNCHANGED session
  PROVE  SR!Next
  <1> USE NoneAssumption DEF RowInv, TypeInv, TypeOK, RowsOK, SessionsOK
  <1>1. \A s \in Ending(D) : LiveTokens(s)' = {}
    BY DEF Ending, LiveTokens, OneLivePerSession
  <1>2. \A s \in Requests \ Ending(D) : LiveTokens(s)' = LiveTokens(s)
    BY DEF Ending, LiveTokens
  <1>3. Live' = [s \in Requests |-> IF s \in Ending(D) THEN {} ELSE Live[s]]
    BY <1>1, <1>2 DEF Live
  <1>4. Opened' = Opened /\ Used' = Used
    BY DEF Opened, Used
  <1>5. SR!Close(Ending(D))
    BY <1>3, <1>4 DEF SR!Close, Live, Opened, Used
  <1>6. Ending(D) \in SUBSET Requests
    BY DEF Ending
  <1> QED
    BY <1>5, <1>6 DEF SR!Next

\* A logout's revocation is Close, or a stutter.
LEMMA LogoutCloses ==
  ASSUME RowInv, OneLivePerSession, NEW r \in Requests, LogoutUpdate(r)
  PROVE  [SR!Next]_(SR!vars)
  <1>1. CASE row' = [row EXCEPT ![tok[r]] = "revoked"]
    <2>1. tok[r] \in Tokens /\ row[tok[r]] # "unissued"
      BY NoneAssumption
         DEF LogoutUpdate, RowInv, TypeInv, TypeOK, ControlOK, RowsOK, TokensOK
    <2>2. /\ row'[tok[r]] = "revoked" /\ UNCHANGED session
          /\ \A t \in Tokens \ {tok[r]} : row'[t] = row[t]
      BY <1>1, <2>1 DEF LogoutUpdate, RowInv, TypeInv, TypeOK
    <2> DEFINE D == {tok[r]}
    <2>3. /\ D \in SUBSET Tokens /\ UNCHANGED session
          /\ \A t \in D : row[t] # "unissued"
          /\ \A t \in D : row'[t] \in {"revoked", "deleted"}
          /\ \A t \in Tokens \ D : row'[t] = row[t]
      BY <2>1, <2>2
    <2> HIDE DEF D
    <2> QED
      BY <2>3, DyingCloses
  <1>2. CASE row' = row
    BY <1>2, RowsSame DEF LogoutUpdate
  <1> QED
    BY <1>1, <1>2 DEF LogoutUpdate

\* The cleanup's deletion is Close, or a stutter.
LEMMA CleanupCloses ==
  ASSUME RowInv, OneLivePerSession, cleanupOldTokens
  PROVE  [SR!Next]_(SR!vars)
  <1> DEFINE old == {t \in Tokens : \/ row[t] = "revoked"
                                    \/ row[t] = "active" /\ t \in expired}
  <1>1. /\ row' = [t \in Tokens |-> IF t \in old THEN "deleted" ELSE row[t]]
        /\ UNCHANGED session
    BY DEF cleanupOldTokens
  <1>2. \A t \in old : row[t] # "unissued"
    OBVIOUS
  <1>3. old \in SUBSET Tokens
    OBVIOUS
  <1> HIDE DEF old
  <1> QED
    BY <1>1, <1>2, <1>3, DyingCloses

\* Every step is a step of SessionRotation or a stutter.
LEMMA RotationStep ==
  RowInv /\ OneLivePerSession /\ [Next]_vars => [SR!Next]_(SR!vars)
  <1> SUFFICES ASSUME RowInv, OneLivePerSession, [Next]_vars
               PROVE  [SR!Next]_(SR!vars)
    OBVIOUS
  <1>1. ASSUME NEW r \in Requests, Login(r) PROVE [SR!Next]_(SR!vars)
    BY <1>1, RowsSame DEF Login, Arrive, db
  <1>2. ASSUME NEW r \in Requests, storeRefreshToken(r) PROVE [SR!Next]_(SR!vars)
    BY <1>2, OpensSession
  <1>3. ASSUME NEW r \in Requests, Refresh(r) PROVE [SR!Next]_(SR!vars)
    BY <1>3, RowsSame DEF Refresh, Arrive, db
  <1>4. ASSUME NEW r \in Requests, RefreshFind(r) PROVE [SR!Next]_(SR!vars)
    BY <1>4, RowsSame DEF RefreshFind, Arrive, db
  <1>5. ASSUME NEW r \in Requests, RevokeWon(r) PROVE [SR!Next]_(SR!vars)
    BY <1>5, RowsSame DEF RevokeWon, Arrive, db
  <1>6. ASSUME NEW r \in Requests, RevokeLost(r) PROVE [SR!Next]_(SR!vars)
    BY <1>6, RowsSame DEF RevokeLost, Arrive, db
  <1>7. ASSUME NEW r \in Requests, CreateInTx(r) PROVE [SR!Next]_(SR!vars)
    BY <1>7, RowsSame DEF CreateInTx, Arrive, db
  <1>8. ASSUME NEW r \in Requests, Commit(r) PROVE [SR!Next]_(SR!vars)
    BY <1>8, Rotates
  <1>9. ASSUME NEW r \in Requests, CommitRefused(r) PROVE [SR!Next]_(SR!vars)
    BY <1>9, RowsSame DEF CommitRefused, Arrive, db
  <1>10. ASSUME NEW r \in Requests, TxAbort(r) PROVE [SR!Next]_(SR!vars)
    BY <1>10, RowsSame DEF TxAbort, Arrive, db
  <1>11. ASSUME NEW r \in Requests, Logout(r) PROVE [SR!Next]_(SR!vars)
    BY <1>11, RowsSame DEF Logout, Arrive, db
  <1>12. ASSUME NEW r \in Requests, LogoutFind(r) PROVE [SR!Next]_(SR!vars)
    BY <1>12, RowsSame DEF LogoutFind, Arrive, db
  <1>13. ASSUME NEW r \in Requests, LogoutUpdate(r) PROVE [SR!Next]_(SR!vars)
    BY <1>13, LogoutCloses
  <1>14. ASSUME NEW r \in Requests, AuditLog(r) PROVE [SR!Next]_(SR!vars)
    BY <1>14, RowsSame DEF AuditLog, Arrive, db
  <1>15. ASSUME NEW r \in Requests, DbError(r) PROVE [SR!Next]_(SR!vars)
    BY <1>15, RowsSame DEF DbError, Arrive, db
  <1>16. ASSUME NEW t \in Tokens, Expire(t) PROVE [SR!Next]_(SR!vars)
    BY <1>16, RowsSame DEF Expire, Arrive, db
  <1>17. ASSUME cleanupOldTokens PROVE [SR!Next]_(SR!vars)
    BY <1>17, CleanupCloses
  <1>18. ASSUME Crash PROVE [SR!Next]_(SR!vars)
    BY <1>18, RowsSame DEF Crash, Arrive, db
  <1>19. ASSUME UNCHANGED vars PROVE [SR!Next]_(SR!vars)
    BY <1>19, RowsSame DEF vars, db
  <1> QED
    BY <1>1, <1>2, <1>3, <1>4, <1>5, <1>6, <1>7, <1>8, <1>9, <1>10, <1>11,
       <1>12, <1>13, <1>14, <1>15, <1>16, <1>17, <1>18, <1>19
       DEF Next, Step

\* The refresh-token tables implement SessionRotation: a session is opened
\* once, keeps one live token, exchanges it atomically, and once closed never
\* comes back.
THEOREM Refinement == Spec => Rotation
  <1>1. Init => SR!Init
    BY NoneAssumption DEF Init, SR!Init, LiveTokens
  <1> QED
    BY <1>1, RotationStep, RowInvariance, OneLive, PTL
       DEF Spec, Rotation, SR!Spec
=============================================================================

--------------------------- MODULE LockoutProofs ---------------------------
(***************************************************************************)
(* An account is never locked without three strikes, for any number of     *)
(* attempts and any window and lock time (with Window < LockTime).         *)
(*                                                                         *)
(* The argument is about every copy of the row in circulation, not about   *)
(* the row: a login may write back a copy computed long ago.  Each copy    *)
(* carries its own evidence, the wrong passwords its counters stand for.   *)
(*                                                                         *)
(* The login form, at the end, is one way to make such attempts.           *)
(***************************************************************************)
EXTENDS LoginForm, TLAPS

Wrong == {q \in Requests : verdict[q] = "wrong"}

\* The wrong passwords, given at the times A, that the counters of row stand for.
Evidence(row, W, A) ==
  /\ row.attempts = 1 => \E q \in W : A[q] = row.last
  /\ row.attempts = 2 =>
       \E q1, q2 \in W :
         /\ q1 # q2
         /\ A[q1] <= A[q2] /\ A[q2] <= A[q1] + Window
         /\ A[q2] = row.last
  /\ row.attempts = 3 => row.until = row.last + LockTime
  /\ row.until > 0 =>
       \E q1, q2, q3 \in W :
         /\ q1 # q2 /\ q2 # q3 /\ q1 # q3
         /\ A[q1] <= A[q2] /\ A[q2] <= A[q1] + Window
         /\ A[q2] <= A[q3] /\ A[q3] <= A[q2] + Window
         /\ row.until = A[q3] + LockTime

RowOK(row) == Evidence(row, Wrong, at) /\ row.last <= now

\* Each copy is evident, and the one a password is compared for was unlocked.
CopiesOK ==
  \A r \in Requests :
    /\ RowOK(copy[r])
    /\ at[r] <= now
    /\ pc[r] = "password" => copy[r].until <= now
    /\ pc[r] \in {"idle", "password"} => verdict[r] = "none"

Inv == TypeOK /\ CopiesOK /\ RowOK(user)

-----------------------------------------------------------------------------
\* The cleared row is a row, and needs no evidence.
LEMMA ClearRow ==
  /\ Clear \in Row
  /\ \A W, A : Evidence(Clear, W, A)
  BY TimeAssumption DEF Clear, Row, Time, Evidence

\* The account starts unlocked, with no attempt under way.
LEMMA InitInv == Init => Inv
  <1> SUFFICES ASSUME Init PROVE Inv
    OBVIOUS
  <1>1. TypeOK
    <2>1. 1 \in 1 .. Horizon /\ 0 \in Time
      BY TimeAssumption DEF Time
    <2>2. Clear \in Row
      BY ClearRow
    <2> QED
      BY <2>1, <2>2 DEF Init, TypeOK
  <1>2. RowOK(Clear)
    BY ClearRow DEF Init, RowOK, Clear
  <1> QED
    BY <1>1, <1>2 DEF Init, Inv, CopiesOK, Clear

\* Evidence is not lost when time passes and other verdicts fall.
LEMMA EvidenceStays ==
  ASSUME NEW row, NEW W, NEW A, NEW X, NEW B, Evidence(row, W, A),
         W \subseteq X, \A q \in W : B[q] = A[q]
  PROVE  Evidence(row, X, B)
  BY DEF Evidence

\* A failure counted from an evident, unlocked row is evident again.
LEMMA CountEvident ==
  ASSUME TypeOK, NEW row \in Row, NEW r \in Requests, RowOK(row),
         row.until <= now, verdict[r] = "none",
         NEW A \in [Requests -> Time], A[r] = now,
         \A q \in Wrong : A[q] = at[q]
  PROVE  /\ CountFailure(row) \in Row
         /\ CountFailure(row).last = now
         /\ Evidence(CountFailure(row), Wrong \cup {r}, A)
  <1> DEFINE next == CountFailure(row)
             isNewWindow == row.last = 0 \/ row.last + Window < now
  <1> USE TimeAssumption DEF TypeOK, Row, Time
  <1>1. r \notin Wrong
    BY DEF Wrong
  <1>2. ~isNewWindow => row.attempts # 3
    BY DEF RowOK, Evidence
  <1>3. /\ next.attempts = IF isNewWindow THEN 1 ELSE row.attempts + 1
        /\ next.last = now
        /\ next.until = IF next.attempts >= 3 THEN now + LockTime ELSE row.until
    BY DEF CountFailure
  <1>4. next \in Row
    BY <1>2 DEF CountFailure
  <1>5. next.attempts = 1 => \E q \in Wrong \cup {r} : A[q] = next.last
    BY <1>3
  <1>6. next.attempts = 2 =>
          \E q1, q2 \in Wrong \cup {r} :
            /\ q1 # q2
            /\ A[q1] <= A[q2] /\ A[q2] <= A[q1] + Window
            /\ A[q2] = next.last
    <2> SUFFICES ASSUME next.attempts = 2 PROVE
          \E q1, q2 \in Wrong \cup {r} :
            /\ q1 # q2
            /\ A[q1] <= A[q2] /\ A[q2] <= A[q1] + Window
            /\ A[q2] = next.last
      OBVIOUS
    <2>1. row.attempts = 1 /\ now <= row.last + Window
      BY <1>3
    <2>2. PICK q \in Wrong : at[q] = row.last
      BY <2>1 DEF RowOK, Evidence
    <2>3. /\ q # r /\ A[q] <= A[r] /\ A[r] <= A[q] + Window
          /\ A[r] = next.last
      BY <1>1, <1>3, <2>1, <2>2 DEF RowOK
    <2> QED
      BY <2>2, <2>3
  <1>7. next.attempts = 3 => next.until = next.last + LockTime
    BY <1>3
  <1>8. next.until > 0 =>
          \E q1, q2, q3 \in Wrong \cup {r} :
            /\ q1 # q2 /\ q2 # q3 /\ q1 # q3
            /\ A[q1] <= A[q2] /\ A[q2] <= A[q1] + Window
            /\ A[q2] <= A[q3] /\ A[q3] <= A[q2] + Window
            /\ next.until = A[q3] + LockTime
    <2> DEFINE Three(u) ==
          \E q1, q2, q3 \in Wrong \cup {r} :
            /\ q1 # q2 /\ q2 # q3 /\ q1 # q3
            /\ A[q1] <= A[q2] /\ A[q2] <= A[q1] + Window
            /\ A[q2] <= A[q3] /\ A[q3] <= A[q2] + Window
            /\ u = A[q3] + LockTime
    <2>1. CASE next.attempts = 3
      <3>1. row.attempts = 2 /\ now <= row.last + Window
        BY <1>3, <2>1
      <3>2. PICK q1, q2 \in Wrong :
              /\ q1 # q2
              /\ at[q1] <= at[q2] /\ at[q2] <= at[q1] + Window
              /\ at[q2] = row.last
        BY <3>1 DEF RowOK, Evidence
      <3>3. /\ q1 # r /\ q2 # r
            /\ A[q1] <= A[q2] /\ A[q2] <= A[q1] + Window
            /\ A[q2] <= A[r] /\ A[r] <= A[q2] + Window
            /\ next.until = A[r] + LockTime
        BY <1>1, <1>3, <2>1, <3>1, <3>2 DEF RowOK
      <3>4. Three(next.until)
        BY <3>2, <3>3
      <3> QED
        BY <3>4
    <2>2. CASE next.attempts # 3 /\ row.until > 0
      <3>1. next.until = row.until
        BY <1>2, <1>3, <2>2
      <3>2. Three(row.until)
        BY <2>2 DEF RowOK, Evidence
      <3> QED
        BY <3>1, <3>2
    <2> QED
      BY <1>2, <1>3, <2>1, <2>2
  <1> QED
    BY <1>3, <1>4, <1>5, <1>6, <1>7, <1>8 DEF Evidence

\* The rows in circulation before a step.
Known == {row \in Row : RowOK(row)}

\* The row, its cleared form and every copy of it are known to the invariant.
LEMMA AllKnown ==
  ASSUME Inv
  PROVE  user \in Known /\ Clear \in Known /\ \A q \in Requests : copy[q] \in Known
  <1>1. RowOK(Clear)
    BY ClearRow, TimeAssumption DEF RowOK, Clear, Inv, TypeOK
  <1> QED
    BY <1>1, ClearRow DEF Known, Inv, CopiesOK, TypeOK

\* A step that only hands on known rows leaves every row evident.
LEMMA KnownStay ==
  ASSUME Inv, now' \in Nat, now <= now',
         \A q \in Wrong : q \in Wrong' /\ at'[q] = at[q],
         NEW row \in Known
  PROVE  Evidence(row, Wrong', at') /\ row.last <= now'
  <1>1. Evidence(row, Wrong', at')
    BY EvidenceStays DEF Known, RowOK
  <1>2. row.last <= now'
    BY TimeAssumption DEF Known, RowOK, Row, Time, Inv, TypeOK
  <1> QED
    BY <1>1, <1>2

\* A step that writes only rows known before keeps every copy sound.
LEMMA HandOn ==
  ASSUME Inv, now' \in Nat, now <= now',
         \A q \in Wrong : q \in Wrong' /\ at'[q] = at[q],
         user' \in Known, \A q \in Requests : copy'[q] \in Known
  PROVE  RowOK(user)' /\ \A q \in Requests : RowOK(copy[q])'
  BY KnownStay DEF RowOK

\* Every step keeps the types.
LEMMA TypeStep == Inv /\ [Next]_vars => TypeOK'
  <1> SUFFICES ASSUME Inv, [Next]_vars PROVE TypeOK'
    OBVIOUS
  <1> USE TimeAssumption DEF Inv, TypeOK, Time, Working, Outcomes, history, Goto
  <1>1. ASSUME NEW r \in Requests, NEW next \in {"password", "issue"},
               Read(r, next)
        PROVE  TypeOK'
    BY <1>1 DEF Read
  <1>2. ASSUME NEW r \in Requests, WrongPassword(r) PROVE TypeOK'
    <2>1. /\ copy[r] \in Row /\ RowOK(copy[r]) /\ copy[r].until <= now
          /\ verdict[r] = "none" /\ now \in Time
      BY <1>2 DEF WrongPassword, CopiesOK
    <2>2. /\ at' \in [Requests -> Time] /\ at'[r] = now
          /\ \A q \in Wrong : at'[q] = at[q]
      BY <1>2, <2>1 DEF WrongPassword, Wrong
    <2>3. CountFailure(copy[r]) \in Row
      BY <2>1, <2>2, CountEvident
    <2> QED
      BY <1>2, <2>1, <2>3 DEF WrongPassword
  <1>3. ASSUME NEW r \in Requests, RightPassword(r) PROVE TypeOK'
    BY <1>3, ClearRow DEF RightPassword
  <1>4. ASSUME NEW r \in Requests, UpdateUser(r) PROVE TypeOK'
    BY <1>4 DEF UpdateUser
  <1>5. ASSUME NEW r \in Requests, Refuse(r) \/ IssueTokens(r) \/ DbError(r)
        PROVE  TypeOK'
    BY <1>5 DEF Refuse, IssueTokens, DbError
  <1>6. ASSUME Crash PROVE TypeOK'
    BY <1>6 DEF Crash
  <1>7. ASSUME Tick PROVE TypeOK'
    BY <1>7 DEF Tick
  <1>8. ASSUME UNCHANGED vars PROVE TypeOK'
    BY <1>8 DEF vars
  <1> QED
    BY <1>1, <1>2, <1>3, <1>4, <1>5, <1>6, <1>7, <1>8
       DEF Next, Login, OAuthLogin

\* Every step keeps the evidence.
LEMMA InvStep == Inv /\ [Next]_vars => Inv'
  <1> SUFFICES ASSUME Inv, [Next]_vars PROVE Inv'
    OBVIOUS
  <1>1. TypeOK'
    BY TypeStep
  <1>2. ASSUME NEW r \in Requests, NEW next \in {"password", "issue"},
               Read(r, next)
        PROVE  Inv'
    <2>1. \A q \in Wrong : q \in Wrong' /\ at'[q] = at[q]
      BY <1>2 DEF Read, Wrong, Inv, CopiesOK, TypeOK
    <2>2. RowOK(user)' /\ \A q \in Requests : RowOK(copy[q])'
      BY <1>2, <2>1, HandOn, AllKnown, TimeAssumption
         DEF Read, Inv, TypeOK
    <2> QED
      BY <1>1, <1>2, <2>2, TimeAssumption
         DEF Read, Goto, Locked, Inv, CopiesOK, TypeOK, Row
  <1>3. ASSUME NEW r \in Requests, WrongPassword(r) PROVE Inv'
    <2>1. /\ verdict[r] = "none" /\ copy[r] \in Row /\ RowOK(copy[r])
          /\ copy[r].until <= now /\ user' = user /\ now' = now
      BY <1>3 DEF WrongPassword, Inv, CopiesOK, TypeOK
    <2>2. /\ Wrong' = Wrong \cup {r} /\ at'[r] = now
          /\ \A q \in Requests \ {r} : at'[q] = at[q] /\ copy'[q] = copy[q]
          /\ \A q \in Wrong : q \in Wrong' /\ at'[q] = at[q]
          /\ copy'[r] = CountFailure(copy[r])
      BY <1>3, <2>1 DEF WrongPassword, Inv, TypeOK, Wrong
    <2>3. at' \in [Requests -> Time]
      BY <1>1 DEF TypeOK
    <2>4. RowOK(copy[r])'
      BY <2>1, <2>2, <2>3, CountEvident, TimeAssumption
         DEF RowOK, Inv, TypeOK
    <2>5. RowOK(user)' /\ \A q \in Requests \ {r} : RowOK(copy[q])'
      <3>1. now' \in Nat /\ now <= now'
        BY <2>1, TimeAssumption DEF Inv, TypeOK
      <3>2. \A row \in Known : Evidence(row, Wrong', at') /\ row.last <= now'
        BY <2>2, <3>1, KnownStay
      <3> QED
        BY <2>1, <2>2, <3>2, AllKnown DEF RowOK
    <2> QED
      BY <1>1, <1>3, <2>1, <2>2, <2>4, <2>5, TimeAssumption
         DEF WrongPassword, Goto, Inv, CopiesOK, TypeOK
  <1>4. ASSUME NEW r \in Requests, RightPassword(r) PROVE Inv'
    <2>1. \A q \in Wrong : q \in Wrong' /\ at'[q] = at[q]
      BY <1>4 DEF RightPassword, Wrong, Inv, CopiesOK, TypeOK
    <2>2. RowOK(user)' /\ \A q \in Requests : RowOK(copy[q])'
      BY <1>4, <2>1, HandOn, AllKnown DEF RightPassword, Inv, TypeOK
    <2> QED
      BY <1>1, <1>4, <2>2 DEF RightPassword, Goto, Inv, CopiesOK, TypeOK
  <1>5. ASSUME UNCHANGED <<verdict, at, copy>>, now' \in Nat, now <= now',
               user' \in Known,
               \A q \in Requests : pc'[q] \in {"idle", "password"} => pc'[q] = pc[q]
        PROVE  Inv'
    <2>1. RowOK(user)' /\ \A q \in Requests : RowOK(copy[q])'
      BY <1>5, HandOn, AllKnown DEF Wrong
    <2> QED
      BY <1>1, <1>5, <2>1, TimeAssumption DEF Inv, CopiesOK, TypeOK, Row, Time
  <1>6. ASSUME NEW r \in Requests,
               UpdateUser(r) \/ Refuse(r) \/ IssueTokens(r) \/ DbError(r)
        PROVE  Inv'
    BY <1>5, <1>6, AllKnown
       DEF UpdateUser, Refuse, IssueTokens, DbError, Goto, history, Inv, TypeOK
  <1>7. ASSUME Crash PROVE Inv'
    BY <1>5, <1>7, AllKnown DEF Crash, history, Inv, TypeOK
  <1>8. ASSUME Tick PROVE Inv'
    BY <1>5, <1>8, AllKnown DEF Tick, history, Inv, TypeOK
  <1>9. ASSUME UNCHANGED vars PROVE Inv'
    BY <1>5, <1>9, AllKnown DEF vars, history, Inv, TypeOK
  <1> QED
    BY <1>2, <1>3, <1>4, <1>6, <1>7, <1>8, <1>9 DEF Next, Login, OAuthLogin

\* The invariant holds for any attempts, window and lock time.
LEMMA Invariance == Spec => []Inv
  BY InitInv, InvStep, PTL DEF Spec

\* The counter of failed attempts never exceeds three, so getLoginDelay and
\* the lock always see a fresh window after a lock has expired.
THEOREM TypeCorrect == Spec => []TypeOK
  <1>1. Inv => TypeOK
    BY DEF Inv
  <1> QED
    BY <1>1, Invariance, PTL

\* An account is locked only for three wrong passwords, each within Window of
\* the one before, and only until LockTime after the last of them, however
\* stale the copies are that logins write back.
THEOREM LockedForCause == Spec => []NoFalseLock
  <1>1. Inv => NoFalseLock
    BY DEF Inv, RowOK, Evidence, NoFalseLock, Strikes, Wrong
  <1> QED
    BY <1>1, Invariance, PTL

-----------------------------------------------------------------------------
(* Three strikes lock the account as long as attempts do not overlap.  The *)
(* argument follows the row: it knows of the refused attempts, Done, since *)
(* the last right password; and whoever got past the lock check came       *)
(* before the third strike, or when the lock was over.                     *)

Done == {q \in Requests : pc[q] \in {"delay", "wrong"}}

NoRightSince(t) == \A p \in Requests : verdict[p] = "right" => at[p] < t

\* The counters of row account for the failures D.
Knows(row, D) ==
  \A q1 \in D : NoRightSince(at[q1]) =>
    /\ row.attempts >= 1 /\ row.last >= at[q1]
    /\ \A q2 \in D :
         q1 # q2 /\ at[q1] <= at[q2] /\ at[q2] <= at[q1] + Window =>
           /\ row.attempts >= 2 \/ row.last > at[q2] + Window
           /\ \A q3 \in D : Strikes(q1, q2, q3) => row.until >= at[q3] + LockTime

\* Three strikes with no right password in between.
Out(q1, q2, q3) ==
  /\ Strikes(q1, q2, q3)
  /\ \A p \in Requests : verdict[p] = "right" => at[p] \notin at[q1] .. at[q3]

TurnsOK ==
  /\ \A q, r \in Requests : pc[q] \in Working /\ pc[r] \in Working => q = r
  /\ \A q \in Requests :
       /\ pc[q] \in {"fail", "delay", "wrong"} => verdict[q] = "wrong" /\ at[q] >= 1
       /\ pc[q] = "locked" => verdict[q] = "none"
       /\ pc[q] = "reset" => verdict[q] = "right"
       /\ pc[q] \in {"fail", "reset"} => \A p \in Requests : at[p] <= at[q]

RowsKnow ==
  /\ Knows(user, Done)
  /\ \A q \in Requests :
       /\ pc[q] = "password" => copy[q] = user
       /\ pc[q] = "fail"  => Knows(copy[q], Done \cup {q})
       /\ pc[q] = "reset" => Knows(copy[q], Done)

LockKept ==
  \A q1, q2, q3 \in Done : Out(q1, q2, q3) =>
    \A p \in Requests :
      /\ pc[p] \notin {"idle", "locked"} /\ at[p] > at[q3] => at[p] >= at[q3] + LockTime
      /\ pc[p] = "password" => at[p] >= at[q3] + LockTime

SerialInv == Inv /\ (~overlap => TurnsOK /\ RowsKnow /\ LockKept)

\* Nothing has happened yet.
LEMMA SerialInit == Init => SerialInv
  BY InitInv DEF Init, SerialInv, TurnsOK, RowsKnow, LockKept, Done, Knows, Working

\* A failure counted from a row that knows D is known too, if it is the latest.
LEMMA CountKnows ==
  ASSUME Inv, TurnsOK, Knows(user, Done),
         NEW r \in Requests, WrongPassword(r), copy[r] = user
  PROVE  Knows(copy[r], Done \cup {r})'
  <1> DEFINE next == CountFailure(user)
             isNewWindow == user.last = 0 \/ user.last + Window < now
             B == Done \cup {r}
             NoneNow(t) == \A p \in Requests : verdict'[p] = "right" => at'[p] < t
  <1> USE TimeAssumption DEF Inv, TypeOK, Row, Time
  <1>1. /\ copy'[r] = next /\ now' = now /\ at'[r] = now /\ verdict'[r] = "wrong"
        /\ user.until <= now /\ verdict[r] = "none" /\ r \notin Done
        /\ \A q \in Requests \ {r} : at'[q] = at[q] /\ verdict'[q] = verdict[q]
        /\ \A q \in Requests : pc'[q] = IF q = r THEN "fail" ELSE pc[q]
    BY DEF WrongPassword, Goto, CopiesOK, Done
  <1>2. /\ next.attempts = IF isNewWindow THEN 1 ELSE user.attempts + 1
        /\ next.last = now
        /\ next.until = IF next.attempts >= 3 THEN now + LockTime ELSE user.until
        /\ next.attempts \in Nat /\ user.attempts \in Nat
    BY DEF CountFailure
  <1>3. user.last <= now /\ \A q \in Done : at[q] \in 1 .. now
    BY DEF RowOK, CopiesOK, TurnsOK, Done
  <1>4. \A t : NoneNow(t) => NoRightSince(t)
    BY <1>1 DEF NoRightSince
  <1>5. \A q \in B : at'[q] \in 1 .. now
    BY <1>1, <1>3 DEF Done
  <1>6. \A q \in Done : at'[q] = at[q] /\ q \in Requests /\ q # r
    BY <1>1 DEF Done
  <1>7. \A s, t \in 1 .. now : s <= t /\ NoRightSince(s) => NoRightSince(t)
    BY DEF NoRightSince
  <1>8. \A q \in Done : NoRightSince(at[q]) =>
          user.attempts >= 1 /\ user.last >= at[q]
    BY DEF Knows
  \* One known failure within Window makes this the second, or more.
  <1>9. ASSUME NEW a \in Done, NoRightSince(at[a]), now <= at[a] + Window
        PROVE  ~isNewWindow /\ next.attempts >= 2
    <2>1. user.last >= at[a] /\ at[a] \in 1 .. now /\ user.attempts >= 1
      BY <1>3, <1>8, <1>9
    <2>2. user.last # 0 /\ user.last + Window >= now
      BY <1>9, <2>1
    <2> QED
      BY <1>2, <2>1, <2>2
  \* Two known failures within Window make this the third.
  <1>10. ASSUME NEW a \in Done, NEW b \in Done, a # b, NoRightSince(at[a]),
                at[a] <= at[b], at[b] <= at[a] + Window, now <= at[b] + Window
         PROVE  next.until = now + LockTime
    <2>1. user.attempts >= 2 \/ user.last > at[b] + Window
      BY <1>10 DEF Knows
    <2>2. user.attempts >= 2
      BY <1>3, <1>10, <2>1
    <2>3. NoRightSince(at[b])
      BY <1>3, <1>7, <1>10
    <2>4. ~isNewWindow
      BY <1>9, <1>10, <2>3
    <2> QED
      BY <1>2, <2>2, <2>4
  <1>11. ASSUME NEW q1 \in B, NoneNow(at'[q1]), NEW q2 \in B,
                q1 # q2, at'[q1] <= at'[q2], at'[q2] <= at'[q1] + Window
         PROVE  next.attempts >= 2 \/ next.last > at'[q2] + Window
    <2>1. NoRightSince(at'[q1]) /\ NoRightSince(at'[q2])
      BY <1>4, <1>5, <1>7, <1>11
    <2>2. CASE q1 \in Done /\ q2 \in Done
      <3>1. CASE isNewWindow
        <4>1. user.last >= at[q2] /\ at[q2] >= 1
          BY <1>3, <1>6, <1>8, <2>1, <2>2
        <4> QED
          BY <1>2, <1>3, <1>6, <2>2, <3>1, <4>1
      <3>2. CASE ~isNewWindow
        <4>1. user.attempts >= 1
          BY <1>6, <1>8, <2>1, <2>2
        <4> QED
          BY <1>2, <3>2, <4>1
      <3> QED  BY <3>1, <3>2
    <2>3. CASE q2 = r
      BY <1>1, <1>6, <1>9, <1>11, <2>1, <2>3
    <2>4. CASE q1 = r
      <3>1. q2 \in Done /\ at[q2] = now
        BY <1>1, <1>5, <1>6, <1>11, <2>4
      <3> QED
        BY <1>6, <1>9, <2>1, <3>1
    <2> QED  BY <2>2, <2>3, <2>4
  <1>12. ASSUME NEW q1 \in B, NoneNow(at'[q1]), NEW q2 \in B, NEW q3 \in B,
                Strikes(q1, q2, q3)'
         PROVE  next.until >= at'[q3] + LockTime
    <2> USE <1>1, <1>5, <1>6
    <2>1. NoRightSince(at'[q1]) /\ NoRightSince(at'[q2])
      BY <1>4, <1>7, <1>12 DEF Strikes
    <2>2. /\ q1 # q2 /\ q2 # q3 /\ q1 # q3
          /\ at'[q1] <= at'[q2] /\ at'[q2] <= at'[q1] + Window
          /\ at'[q2] <= at'[q3] /\ at'[q3] <= at'[q2] + Window
      BY <1>12 DEF Strikes
    <2>3. CASE q1 \in Done /\ q2 \in Done /\ q3 \in Done
      <3>1. Strikes(q1, q2, q3)
        BY <2>2, <2>3 DEF Strikes, Done, TurnsOK
      <3>2. user.until >= at[q3] + LockTime
        BY <2>1, <2>2, <2>3, <3>1 DEF Knows
      <3> QED
        BY <1>2, <2>3, <3>2
    <2>4. CASE q3 = r
      BY <1>2, <1>10, <2>1, <2>2, <2>4
    <2>5. CASE q2 = r
      <3>1. q1 \in Done /\ q3 \in Done /\ at[q3] = now
        BY <2>2, <2>5
      <3> QED
        BY <1>10, <2>1, <2>2, <2>5, <3>1
    <2>6. CASE q1 = r
      <3>1. q2 \in Done /\ q3 \in Done /\ at[q2] = now /\ at[q3] = now
        BY <2>2, <2>6
      <3> QED
        BY <1>10, <2>1, <2>2, <3>1
    <2> QED  BY <2>3, <2>4, <2>5, <2>6
  <1>13. next.attempts >= 1 /\ \A q \in B : next.last >= at'[q]
    BY <1>2, <1>5
  <1>14. (Done \cup {r})' = B
    BY <1>1 DEF Done
  <1>15. \A q \in B : NoRightSince(at[q])' <=> NoneNow(at'[q])
    BY DEF NoRightSince
  <1> HIDE DEF next, B, NoneNow
  <1> QED
    BY <1>1, <1>11, <1>12, <1>13, <1>14, <1>15 DEF Knows

\* Every step of attempts that do not overlap keeps the invariant.
LEMMA SerialStep == SerialInv /\ [Next]_vars => SerialInv'
  <1> SUFFICES ASSUME SerialInv, [Next]_vars, ~overlap'
               PROVE  TurnsOK' /\ RowsKnow' /\ LockKept'
    BY InvStep DEF SerialInv
  <1>0. Inv /\ ~overlap /\ TurnsOK /\ RowsKnow /\ LockKept
    BY DEF SerialInv, Next, vars, history, Login, OAuthLogin, Read, WrongPassword,
           RightPassword, UpdateUser, Refuse, IssueTokens, DbError, Crash, Tick,
           Inv, TypeOK
  <1>t. TypeOK /\ TypeOK'
    BY <1>0, TypeStep DEF Inv
  <1> USE TimeAssumption
  <1>1. ASSUME NEW r \in Requests, NEW next \in {"password", "issue"}, Read(r, next)
        PROVE  TurnsOK' /\ RowsKnow' /\ LockKept'
    <2>1. /\ \A q \in Requests : pc[q] \notin Working
          /\ pc[r] = "idle" /\ verdict[r] = "none" /\ at'[r] = now
          /\ UNCHANGED <<now, user, verdict>>
          /\ \A q \in Requests \ {r} :
               pc'[q] = pc[q] /\ at'[q] = at[q] /\ copy'[q] = copy[q]
          /\ pc'[r] = IF Locked(user) THEN "locked" ELSE next
          /\ copy'[r] = user
      BY <1>0, <1>1, <1>t DEF Read, Goto, Inv, CopiesOK, TypeOK
    <2>2. Done' = Done /\ r \notin Done
      BY <2>1 DEF Done
    <2>3. TurnsOK'
      BY <1>0, <2>1 DEF TurnsOK, Working
    <2>4. \A t : NoRightSince(t)' <=> NoRightSince(t)
      BY <2>1 DEF NoRightSince
    <2>5. Knows(user, Done)'
      BY <1>0, <2>1, <2>2, <2>4 DEF RowsKnow, Knows, Strikes, Done
    <2>6. RowsKnow'
      BY <2>1, <2>5 DEF RowsKnow, Working
    <2>7. LockKept'
      <3> SUFFICES ASSUME NEW q1 \in Done, NEW q2 \in Done, NEW q3 \in Done,
                          Out(q1, q2, q3)', NEW p \in Requests,
                          pc'[p] \notin {"idle", "locked"}
                   PROVE  at'[p] > at'[q3] \/ pc'[p] = "password" => at'[p] >= at'[q3] + LockTime
        BY <2>2 DEF LockKept
      <3>1. Out(q1, q2, q3) /\ at'[q3] = at[q3]
        BY <2>1, <2>2 DEF Out, Strikes, Done
      <3>2. CASE p # r
        BY <1>0, <2>1, <3>1, <3>2 DEF LockKept
      <3>3. CASE p = r
        <4>1. user.until <= now
          BY <2>1, <3>3, <1>t DEF Locked, TypeOK, Row
        <4>2. CASE \E o \in Requests : verdict[o] = "right" /\ at[o] > at[q3]
          <5>1. PICK o \in Requests : verdict[o] = "right" /\ at[o] > at[q3]
            BY <4>2
          <5>2. pc[o] \notin {"idle", "locked"} /\ at[o] <= now
            BY <1>0, <5>1 DEF TurnsOK, Inv, CopiesOK
          <5>3. at[o] >= at[q3] + LockTime
            BY <1>0, <3>1, <5>1, <5>2 DEF LockKept
          <5> QED
            BY <2>1, <3>1, <3>3, <5>2, <5>3, <1>t DEF TypeOK, Time, Done
        <4>3. CASE ~\E o \in Requests : verdict[o] = "right" /\ at[o] > at[q3]
          <5>1. NoRightSince(at[q1])
            BY <3>1, <4>3, <1>t DEF Out, NoRightSince, TypeOK, Time, Done
          <5>2. user.until >= at[q3] + LockTime
            BY <1>0, <3>1, <5>1 DEF Out, Strikes, RowsKnow, Knows
          <5> QED
            BY <2>1, <3>1, <3>3, <4>1, <5>2, <1>t DEF TypeOK, Time, Row, Done
        <4> QED  BY <4>2, <4>3
      <3> QED  BY <3>2, <3>3
    <2> QED  BY <2>3, <2>6, <2>7
  <1>2. ASSUME NEW r \in Requests, WrongPassword(r) \/ RightPassword(r)
        PROVE  TurnsOK' /\ RowsKnow' /\ LockKept'
    <2>1. /\ pc[r] = "password" /\ pc'[r] \in {"fail", "reset"}
          /\ at'[r] = now /\ verdict[r] = "none" /\ copy[r] = user
          /\ pc'[r] = "fail" => verdict'[r] = "wrong"
          /\ pc'[r] = "reset" => verdict'[r] = "right"
          /\ UNCHANGED <<now, user>>
          /\ \A q \in Requests \ {r} :
               /\ pc'[q] = pc[q] /\ at'[q] = at[q] /\ copy'[q] = copy[q]
               /\ verdict'[q] = verdict[q]
      BY <1>0, <1>2, <1>t
         DEF WrongPassword, RightPassword, Goto, Inv, CopiesOK, TypeOK, RowsKnow
    <2>2. \A q \in Requests \ {r} : pc[q] \notin Working
      BY <1>0, <2>1 DEF TurnsOK, Working
    <2>3. Done' = Done /\ r \notin Done
      BY <2>1 DEF Done
    <2>4. \A q \in Requests : at[q] \in Nat /\ at[q] <= now /\ at'[q] \in Nat /\ at'[q] <= now
      BY <1>0, <1>t, <2>1 DEF Inv, CopiesOK, TypeOK, Time
    <2>5. TurnsOK'
      BY <1>0, <1>t, <2>1, <2>2, <2>4 DEF TurnsOK, Working, TypeOK
    <2>6. RowsKnow'
      <3>1. CASE WrongPassword(r)
        <4>1. pc'[r] = "fail"
          BY <1>t, <3>1 DEF WrongPassword, Goto, TypeOK
        <4>2. \A t : NoRightSince(t)' <=> NoRightSince(t)
          BY <2>1, <4>1 DEF NoRightSince
        <4>3. Knows(user, Done)'
          BY <1>0, <2>1, <2>3, <4>2 DEF RowsKnow, Knows, Strikes, Done
        <4>4. Knows(copy[r], Done \cup {r})'
          BY <1>0, <2>1, <3>1, CountKnows DEF RowsKnow
        <4> QED
          BY <2>1, <2>2, <4>1, <4>3, <4>4 DEF RowsKnow, Working
      <3>2. CASE RightPassword(r)
        <4>1. pc'[r] = "reset"
          BY <1>t, <3>2 DEF RightPassword, Goto, TypeOK
        <4>2. \A q \in Requests : ~NoRightSince(at[q])'
          BY <2>1, <2>4, <4>1 DEF NoRightSince
        <4>3. \A row : Knows(row, Done)'
          BY <4>2 DEF Knows, Done
        <4> QED
          BY <2>1, <2>2, <4>1, <4>3 DEF RowsKnow, Working
      <3> QED  BY <1>2, <3>1, <3>2
    <2>7. LockKept'
      <3> SUFFICES ASSUME NEW q1 \in Done, NEW q2 \in Done, NEW q3 \in Done,
                          Out(q1, q2, q3)', NEW p \in Requests,
                          pc'[p] \notin {"idle", "locked"}
                   PROVE  at'[p] > at'[q3] \/ pc'[p] = "password" => at'[p] >= at'[q3] + LockTime
        BY <2>3 DEF LockKept
      <3>1. Out(q1, q2, q3) /\ at'[q3] = at[q3]
        BY <2>1, <2>3 DEF Out, Strikes, Done
      <3>2. CASE p # r
        BY <1>0, <2>1, <3>1, <3>2 DEF LockKept
      <3>3. CASE p = r
        <4>1. at[r] >= at[q3] + LockTime
          BY <1>0, <2>1, <3>1 DEF LockKept
        <4> QED
          BY <2>1, <2>4, <3>1, <3>3, <4>1, <1>t DEF TypeOK, Time, Done
      <3> QED  BY <3>2, <3>3
    <2> QED  BY <2>5, <2>6, <2>7
  <1>3. ASSUME NEW r \in Requests, UpdateUser(r) PROVE TurnsOK' /\ RowsKnow' /\ LockKept'
    <2>1. /\ pc[r] \in {"fail", "reset"} /\ user' = copy[r]
          /\ pc'[r] = IF pc[r] = "fail" THEN "delay" ELSE "issue"
          /\ UNCHANGED <<now, copy, verdict, at>>
          /\ \A q \in Requests \ {r} : pc'[q] = pc[q]
      BY <1>3, <1>t DEF UpdateUser, Goto, TypeOK, history
    <2>2. \A q \in Requests \ {r} : pc[q] \notin Working
      BY <1>0, <2>1 DEF TurnsOK, Working
    <2>3. Done' = IF pc[r] = "fail" THEN Done \cup {r} ELSE Done
      BY <2>1 DEF Done
    <2>4. TurnsOK'
      BY <1>0, <2>1, <2>2 DEF TurnsOK, Working
    <2>5. Knows(user, Done)'
      <3>1. Knows(copy[r], Done')
        BY <1>0, <2>1, <2>3 DEF RowsKnow
      <3>2. Knows(user', Done')
        BY <2>1, <3>1
      <3>3. Knows(user, Done)' <=> Knows(user', Done')
        BY <2>1 DEF Knows, NoRightSince, Strikes
      <3> QED  BY <3>2, <3>3
    <2>6. RowsKnow'
      BY <2>1, <2>2, <2>5 DEF RowsKnow, Working
    <2>7. LockKept'
      <3> SUFFICES ASSUME NEW q1 \in Done', NEW q2 \in Done', NEW q3 \in Done',
                          Out(q1, q2, q3), NEW p \in Requests,
                          pc[p] \notin {"idle", "locked"}, at[p] > at[q3]
                   PROVE  at[p] >= at[q3] + LockTime
        BY <2>1, <2>2 DEF LockKept, Out, Strikes, Working
      <3>1. r \notin {q1, q2, q3} \/ pc[r] # "fail"
        BY <1>0, <1>t, <2>1 DEF TurnsOK, Out, Strikes, TypeOK, Time, Done
      <3> QED
        BY <1>0, <2>3, <3>1 DEF LockKept
    <2> QED  BY <2>4, <2>6, <2>7
  <1>4. ASSUME UNCHANGED <<user, verdict, at, copy>>, Done' \subseteq Done,
               \A q \in Requests :
                 /\ pc'[q] \in Working \cup {"idle", "locked"} => pc'[q] = pc[q]
                 /\ pc[q] \in {"idle", "locked"} => pc'[q] = pc[q]
                 /\ pc'[q] = "wrong" => pc[q] \in {"delay", "wrong"}
        PROVE  TurnsOK' /\ RowsKnow' /\ LockKept'
    <2>1. TurnsOK'
      BY <1>0, <1>4 DEF TurnsOK, Working
    <2>2. \A row, D, E : Knows(row, D) /\ E \subseteq D => Knows(row, E)'
      BY <1>4 DEF Knows, NoRightSince, Strikes
    <2>3. Knows(user, Done)'
      BY <1>0, <1>4, <2>2 DEF RowsKnow
    <2>4. ASSUME NEW q \in Requests
          PROVE  /\ pc'[q] = "password" => copy'[q] = user'
                 /\ pc'[q] = "fail"  => Knows(copy[q], Done \cup {q})'
                 /\ pc'[q] = "reset" => Knows(copy[q], Done)'
      <3>1. Done' \cup {q} \subseteq Done \cup {q}
        BY <1>4
      <3>2. pc'[q] \in {"password", "fail", "reset"} => pc'[q] = pc[q]
        BY <1>4 DEF Working
      <3> QED
        BY <1>0, <1>4, <2>2, <3>1, <3>2 DEF RowsKnow
    <2>5. RowsKnow'
      BY <2>3, <2>4 DEF RowsKnow
    <2>6. LockKept'
      BY <1>0, <1>4 DEF LockKept, Out, Strikes, Working
    <2> QED  BY <2>1, <2>5, <2>6
  <1>5. ASSUME NEW r \in Requests, Refuse(r) \/ IssueTokens(r) \/ DbError(r)
        PROVE  TurnsOK' /\ RowsKnow' /\ LockKept'
    BY <1>4, <1>5, <1>t
       DEF Refuse, IssueTokens, DbError, Goto, history, TypeOK, Done, Working
  <1>6. ASSUME Crash PROVE TurnsOK' /\ RowsKnow' /\ LockKept'
    BY <1>4, <1>6, <1>t DEF Crash, history, TypeOK, Done, Working
  <1>7. ASSUME Tick \/ UNCHANGED vars PROVE TurnsOK' /\ RowsKnow' /\ LockKept'
    BY <1>4, <1>7 DEF Tick, vars, history, Done
  <1> QED
    BY <1>1, <1>2, <1>3, <1>5, <1>6, <1>7 DEF Next, Login, OAuthLogin

\* Three strikes lock the account for LockTime, for any number of attempts and
\* any window and lock time, as long as no two attempts are in flight at once.
THEOREM SerialLocks == Spec => []SerialThreeStrikes
  <1>1. SerialInv => SerialThreeStrikes
    <2> SUFFICES ASSUME SerialInv, ~overlap,
                        NEW q1 \in Requests, NEW q2 \in Requests, NEW q3 \in Requests,
                        Strikes(q1, q2, q3),
                        \A q \in {q1, q2, q3} : pc[q] = "wrong",
                        \A q \in Requests :
                          verdict[q] = "right" => at[q] \notin at[q1] .. at[q3],
                        NEW q \in Requests, pc[q] \in {"in", "wrong"}
                 PROVE  ~(at[q3] < at[q] /\ at[q] < at[q3] + LockTime)
      BY DEF SerialThreeStrikes, ThreeStrikes
    <2>1. {q1, q2, q3} \subseteq Done /\ Out(q1, q2, q3) /\ LockKept
      BY DEF Done, Out, SerialInv
    <2>2. at[q] > at[q3] => at[q] >= at[q3] + LockTime
      BY <2>1 DEF LockKept
    <2> QED
      BY <2>2, TimeAssumption DEF SerialInv, Inv, TypeOK, Time
  <1> QED
    BY <1>1, SerialInit, SerialStep, PTL DEF Spec

-----------------------------------------------------------------------------
(* The login form.  Its steps are steps of Lockout, so a lock has three    *)
(* wrong passwords behind it; and one submission posts its password twice  *)
(* at most, so that they are not all of one submission.                    *)

Posts == {r \in Requests : pc[r] # "idle"}

WrongPosts == {r \in Posts : typed[r] = "wrong"}

\* The wrong posts are those of the wrong submissions, one or two of each.
PostsOK ==
  /\ \A r \in Requests : verdict[r] = "wrong" => r \in WrongPosts
  /\ tries > 0 /\ typed[post] = "wrong" => wrongs # 0
  /\ wrongs = 0 => WrongPosts = {}
  /\ wrongs = 1 => \E a, b \in Requests : WrongPosts \subseteq {a, b}
  /\ wrongs = 1 /\ tries = 1 /\ typed[post] = "wrong" => WrongPosts \subseteq {post}

FormInv == Inv /\ FormTypeOK /\ PostsOK

\* Nothing has been submitted at the start.
LEMMA FormInitInv == FormInit => FormInv
  <1> SUFFICES ASSUME FormInit PROVE FormInv
    OBVIOUS
  <1>1. Inv
    BY InitInv DEF FormInit
  <1>2. FormTypeOK
    BY <1>1 DEF FormInit, FormTypeOK, Inv, Passwords
  <1>3. PostsOK
    BY DEF FormInit, Init, PostsOK, WrongPosts, Posts
  <1> QED
    BY <1>1, <1>2, <1>3 DEF FormInv

\* A login is one post more.
LEMMA LoginPosts ==
  ASSUME TypeOK, NEW r \in Requests, Login(r)
  PROVE  r \notin Posts /\ Posts' = Posts \cup {r} /\ UNCHANGED verdict
  <1>1. /\ pc[r] = "idle" /\ pc'[r] # "idle" /\ UNCHANGED verdict
        /\ \A q \in Requests \ {r} : pc'[q] = pc[q]
    BY DEF Login, Read, Goto, TypeOK
  <1> QED
    BY <1>1 DEF Posts

\* Every step of the form is a step of the server, or none.
LEMMA FormStepsServer == FormNext => [Next]_vars
  BY DEF FormNext, Submit, Repost, Serve, Show, Next

\* A submission that posts p keeps the invariant.
LEMMA SubmitKeeps ==
  ASSUME FormInv, TypeOK', NEW r \in Requests, NEW p \in Passwords, Submit(r, p)
  PROVE  FormTypeOK' /\ PostsOK'
  <1>1. /\ tries = 0 /\ tries' = 1 /\ post' = r
        /\ typed' = [typed EXCEPT ![r] = p]
        /\ wrongs' = IF p = "wrong" THEN wrongs + 1 ELSE wrongs
    BY DEF Submit
  <1>2. r \notin Posts /\ Posts' = Posts \cup {r} /\ UNCHANGED verdict
    BY LoginPosts DEF Submit, FormInv, Inv
  <1>3. wrongs \in Nat /\ typed \in [Requests -> Passwords]
    BY DEF FormInv, FormTypeOK
  <1>4. FormTypeOK'
    BY <1>1, <1>3 DEF FormTypeOK
  <1>5. WrongPosts' = IF p = "wrong" THEN WrongPosts \cup {r} ELSE WrongPosts
    BY <1>1, <1>2, <1>3 DEF WrongPosts, Posts, Passwords
  <1>6. PostsOK'
    BY <1>1, <1>2, <1>3, <1>5 DEF FormInv, PostsOK, Passwords
  <1> QED  BY <1>4, <1>6

\* The second post of a submission keeps the invariant.
LEMMA RepostKeeps ==
  ASSUME FormInv, TypeOK', NEW r \in Requests, Repost(r)
  PROVE  FormTypeOK' /\ PostsOK'
  <1>1. /\ tries = 1 /\ tries' = 2 /\ post' = r /\ post \in Requests
        /\ typed' = [typed EXCEPT ![r] = typed[post]]
        /\ wrongs' = wrongs
    BY DEF Repost, FormInv, FormTypeOK
  <1>2. r \notin Posts /\ Posts' = Posts \cup {r} /\ UNCHANGED verdict
    BY LoginPosts DEF Repost, FormInv, Inv
  <1>3. wrongs \in Nat /\ typed \in [Requests -> Passwords]
    BY DEF FormInv, FormTypeOK
  <1>4. FormTypeOK'
    BY <1>1, <1>3 DEF FormInv, FormTypeOK
  <1>5. WrongPosts' = IF typed[post] = "wrong" THEN WrongPosts \cup {r} ELSE WrongPosts
    BY <1>1, <1>2, <1>3 DEF WrongPosts, Posts
  <1>6. PostsOK'
    BY <1>1, <1>2, <1>3, <1>5 DEF FormInv, PostsOK
  <1> QED  BY <1>4, <1>6

\* What the server and the clock do does not post anything.
LEMMA ServeKeeps ==
  ASSUME FormInv, TypeOK',
         \/ \E r \in Requests : Serve(r)
         \/ Show
         \/ (Crash \/ Tick) /\ UNCHANGED form
         \/ UNCHANGED <<vars, form>>
  PROVE  FormTypeOK' /\ PostsOK'
  <1> USE DEF FormInv, FormTypeOK, Inv, TypeOK, form, vars, history
  <1> DEFINE NothingPosted ==
        /\ UNCHANGED <<post, typed, wrongs>>
        /\ tries' \in {tries, 0}
        /\ \A r \in Requests : pc'[r] = "idle" <=> pc[r] = "idle"
        /\ \A r \in Requests :
             verdict'[r] = "wrong" => verdict[r] = "wrong" \/ r \in WrongPosts
  <1>1. NothingPosted
    <2>1. ASSUME NEW r \in Requests, Serve(r) PROVE NothingPosted
      BY <2>1 DEF Serve, WrongPassword, RightPassword, UpdateUser, Refuse,
                  IssueTokens, DbError, Goto, WrongPosts, Posts
    <2>2. CASE Show \/ UNCHANGED <<vars, form>>
      BY <2>2 DEF Show
    <2>3. CASE (Crash \/ Tick) /\ UNCHANGED form
      BY <2>3 DEF Crash, Tick, Working
    <2> QED  BY <2>1, <2>2, <2>3
  <1>2. Posts' = Posts /\ WrongPosts' = WrongPosts
    BY <1>1 DEF Posts, WrongPosts
  <1>3. FormTypeOK'
    BY <1>1
  <1>4. PostsOK'
    BY <1>1, <1>2 DEF PostsOK
  <1> QED  BY <1>3, <1>4

\* Every step of the form keeps the invariant.
LEMMA FormInvStep == FormInv /\ [FormNext]_<<vars, form>> => FormInv'
  <1> SUFFICES ASSUME FormInv, [FormNext]_<<vars, form>> PROVE FormInv'
    OBVIOUS
  <1>1. [Next]_vars
    BY FormStepsServer DEF vars
  <1>2. Inv' /\ TypeOK'
    BY <1>1, InvStep DEF FormInv, Inv
  <1>3. FormTypeOK' /\ PostsOK'
    BY <1>2, SubmitKeeps, RepostKeeps, ServeKeeps DEF FormNext
  <1> QED  BY <1>2, <1>3 DEF FormInv

\* The form's invariant, for any number of submissions.
THEOREM FormInvariant == FormSpec => []FormInv
  BY FormInitInv, FormInvStep, PTL DEF FormSpec

\* A submission of the form is posted twice at most.
THEOREM FormTypeCorrect == FormSpec => []FormTypeOK
  <1>1. FormInv => FormTypeOK
    BY DEF FormInv
  <1> QED
    BY <1>1, FormInvariant, PTL

\* Through the form, one wrong password alone never locks the account, although
\* it is posted twice: a lock takes two submissions, for any window, lock time
\* and number of requests, whatever fails, times out or crashes.
THEOREM FormLockTakesTwo == FormSpec => []LockTakesTwo
  <1>1. FormInv => LockTakesTwo
    <2> SUFFICES ASSUME FormInv, user.until > 0, ~(wrongs >= 2) PROVE FALSE
      BY DEF LockTakesTwo
    <2>1. PICK q1, q2, q3 \in Wrong : q1 # q2 /\ q2 # q3 /\ q1 # q3
      BY DEF FormInv, Inv, RowOK, Evidence
    <2>2. q1 \in WrongPosts /\ q2 \in WrongPosts /\ q3 \in WrongPosts
      BY <2>1 DEF FormInv, PostsOK, Wrong
    <2>3. wrongs \in Nat
      BY DEF FormInv, FormTypeOK
    <2>4. wrongs # 0
      BY <2>2 DEF FormInv, PostsOK
    <2>5. PICK a, b \in Requests : WrongPosts \subseteq {a, b}
      BY <2>3, <2>4 DEF FormInv, PostsOK
    <2> QED
      BY <2>1, <2>2, <2>5
  <1> QED
    BY <1>1, FormInvariant, PTL
=============================================================================

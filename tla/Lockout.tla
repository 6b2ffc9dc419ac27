------------------------------ MODULE Lockout ------------------------------
(***************************************************************************)
(* The lockout of one verified local account: AuthService.login with       *)
(* handleFailedLogin, and the lock check of the OAuth sign-in.             *)
(*                                                                         *)
(* A login reads the User row, compares the password (bcrypt, some 250 ms) *)
(* and then writes the row back, computing the new counters from the copy  *)
(* it read at the start.  Requests interleave at every await, time passes, *)
(* and the database or the process may fail in between.                    *)
(***************************************************************************)
EXTENDS Naturals

CONSTANTS Requests,   \* sign-in attempts on this account
          Window,     \* how long a failed attempt counts: 60 s in the code
          LockTime,   \* how long a lock lasts: 15 min in the code
          Horizon     \* bound on the clock

ASSUME TimeAssumption ==
  /\ Window \in Nat \ {0}
  /\ LockTime \in Nat
  /\ LockTime > Window
  /\ Horizon \in Nat \ {0}

VARIABLES
  now,       \* the clock
  user,      \* the User row: failedLoginAttempts, lastFailedLoginAt, lockedUntil
  pc,        \* pc[r]: the await request r has reached, or its outcome
  copy,      \* copy[r]: the row as r read it, then the row r will write
  verdict,   \* verdict[r]: what the password comparison said (history)
  at,        \* at[r]: when r read the row, then when it had its verdict (history)
  overlap    \* two requests have been in flight at once (history)

history == <<verdict, at, overlap>>
vars    == <<now, user, pc, copy, history>>

\* Timestamps start at 1; 0 stands for null.
Time == 0 .. Horizon
Row  == [attempts : 0 .. 3, last : Time, until : 0 .. Horizon + LockTime]

Clear == [attempts |-> 0, last |-> 0, until |-> 0]

Working  == {"password", "fail", "reset", "delay", "issue"}
Outcomes == {"wrong", "locked", "in", "error", "lost"}

TypeOK ==
  /\ now \in 1 .. Horizon
  /\ user \in Row
  /\ pc \in [Requests -> {"idle"} \cup Working \cup Outcomes]
  /\ copy \in [Requests -> Row]
  /\ verdict \in [Requests -> {"none", "wrong", "right"}]
  /\ at \in [Requests -> Time]
  /\ overlap \in BOOLEAN

Init ==
  /\ now = 1
  /\ user = Clear
  /\ pc = [r \in Requests |-> "idle"]
  /\ copy = [r \in Requests |-> Clear]
  /\ verdict = [r \in Requests |-> "none"]
  /\ at = [r \in Requests |-> 0]
  /\ overlap = FALSE

-----------------------------------------------------------------------------
Locked(row) == row.until > now

Goto(r, l) == pc' = [pc EXCEPT ![r] = l]

\* The handler reads the User row; a locked account is refused at once,
\* otherwise the handler goes on to next.
Read(r, next) ==
  /\ pc[r] = "idle"
  /\ Goto(r, IF Locked(user) THEN "locked" ELSE next)
  /\ copy' = [copy EXCEPT ![r] = user]
  /\ at' = [at EXCEPT ![r] = now]
  /\ overlap' = (overlap \/ \E q \in Requests : pc[q] \in Working)
  /\ UNCHANGED <<now, user, verdict>>

Login(r) == Read(r, "password")

\* handleOAuthLogin checks the lock and leaves the counters alone.
OAuthLogin(r) == Read(r, "issue")

\* Mutant: a pause in the attempts never restarts the count.
CountForever(row) ==
  LET attempts == row.attempts + 1
  IN  [attempts |-> attempts,
       last     |-> now,
       until    |-> IF attempts >= 3 THEN now + LockTime ELSE row.until]

\* Mutant: a failure exactly Window after the last one restarts the count.
CountShortWindow(row) ==
  LET isNewWindow == row.last = 0 \/ row.last + Window <= now
      attempts    == IF isNewWindow THEN 1 ELSE row.attempts + 1
  IN  [attempts |-> attempts,
       last     |-> now,
       until    |-> IF attempts >= 3 THEN now + LockTime ELSE row.until]

\* The counters handleFailedLogin computes from the row that login read.
CountFailure(row) ==
  LET isNewWindow == row.last = 0 \/ row.last + Window < now
      attempts    == IF isNewWindow THEN 1 ELSE row.attempts + 1
  IN  [attempts |-> attempts,
       last     |-> now,
       until    |-> IF attempts >= 3 THEN now + LockTime ELSE row.until]

\* bcrypt.compare says no: handleFailedLogin computes the row to write.
WrongPassword(r) ==
  /\ pc[r] = "password"
  /\ copy' = [copy EXCEPT ![r] = CountFailure(copy[r])]
  /\ verdict' = [verdict EXCEPT ![r] = "wrong"]
  /\ at' = [at EXCEPT ![r] = now]
  /\ Goto(r, "fail")
  /\ UNCHANGED <<now, user, overlap>>

\* bcrypt.compare says yes: the counters will be cleared.
RightPassword(r) ==
  /\ pc[r] = "password"
  /\ copy' = [copy EXCEPT ![r] = Clear]
  /\ verdict' = [verdict EXCEPT ![r] = "right"]
  /\ at' = [at EXCEPT ![r] = now]
  /\ Goto(r, "reset")
  /\ UNCHANGED <<now, user, overlap>>

\* user.update writes all three columns.
UpdateUser(r) ==
  /\ pc[r] \in {"fail", "reset"}
  /\ user' = copy[r]
  /\ Goto(r, IF pc[r] = "fail" THEN "delay" ELSE "issue")
  /\ UNCHANGED <<now, copy, history>>

\* After the audit record and getLoginDelay's pause, the attempt is refused.
Refuse(r) ==
  /\ pc[r] = "delay"
  /\ Goto(r, "wrong")
  /\ UNCHANGED <<now, user, copy, history>>

\* issueTokenPair and the audit record: the user is in.
IssueTokens(r) ==
  /\ pc[r] = "issue"
  /\ Goto(r, "in")
  /\ UNCHANGED <<now, user, copy, history>>

-----------------------------------------------------------------------------
\* The statement a request is waiting for fails, and its handler throws.
DbError(r) ==
  /\ pc[r] \in {"fail", "reset", "issue"}
  /\ Goto(r, "error")
  /\ UNCHANGED <<now, user, copy, history>>

Crash ==
  /\ \E r \in Requests : pc[r] \in Working
  /\ pc' = [r \in Requests |-> IF pc[r] \in Working THEN "lost" ELSE pc[r]]
  /\ UNCHANGED <<now, user, copy, history>>

Tick ==
  /\ now < Horizon
  /\ now' = now + 1
  /\ UNCHANGED <<user, pc, copy, history>>

Next ==
  \/ \E r \in Requests : Login(r) \/ OAuthLogin(r)
  \/ \E r \in Requests : WrongPassword(r) \/ RightPassword(r)
  \/ \E r \in Requests : UpdateUser(r) \/ Refuse(r) \/ IssueTokens(r)
  \/ \E r \in Requests : DbError(r)
  \/ Crash
  \/ Tick

Spec == Init /\ [][Next]_vars

-----------------------------------------------------------------------------
(* Properties.                                                             *)

\* q1, q2 and q3 presented wrong passwords in this order, each within Window
\* of the one before.
Strikes(q1, q2, q3) ==
  /\ \A q \in {q1, q2, q3} : verdict[q] = "wrong"
  /\ q1 # q2 /\ q2 # q3 /\ q1 # q3
  /\ at[q1] <= at[q2] /\ at[q2] <= at[q1] + Window
  /\ at[q2] <= at[q3] /\ at[q3] <= at[q2] + Window

\* README.md: three failed logins lock the account for LockTime.  When three
\* attempts have been refused for a wrong password, and no right password came
\* in between, no later attempt gets past the lock check until LockTime is over.
ThreeStrikes ==
  \A q1, q2, q3 \in Requests :
    /\ Strikes(q1, q2, q3)
    /\ \A q \in {q1, q2, q3} : pc[q] = "wrong"
    /\ \A q \in Requests :
         verdict[q] = "right" => at[q] \notin at[q1] .. at[q3]
    => \A q \in Requests :
         pc[q] \in {"in", "wrong"} =>
           ~(at[q3] < at[q] /\ at[q] < at[q3] + LockTime)

\* The promise is kept as long as the attempts on the account come one after
\* the other, whatever fails or crashes in between.
SerialThreeStrikes == ~overlap => ThreeStrikes

\* However stale the copies that logins write back, an account is locked only
\* if three wrong passwords came within Window of each other, and never
\* for longer than LockTime after the last of them.
NoFalseLock ==
  user.until > 0 =>
    \E q1, q2, q3 \in Requests :
      Strikes(q1, q2, q3) /\ user.until = at[q3] + LockTime
=============================================================================

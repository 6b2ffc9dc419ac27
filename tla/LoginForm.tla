------------------------------ MODULE LoginForm ------------------------------
(***************************************************************************)
(* The login form of the front end on top of Lockout.  LoginPage posts the *)
(* password with fetchWithAuth, which takes every 401 for an expired       *)
(* access token: it asks for a refresh and, whatever comes of that, posts  *)
(* the same password a second time.  One user types into one form, whose   *)
(* button is disabled until the last submission is answered.               *)
(***************************************************************************)
EXTENDS Lockout

VARIABLES
  tries,   \* how often the current submission was posted; 0: none is pending
  post,    \* the login request of the current submission
  typed,   \* typed[r]: the password that request r carries
  wrongs   \* how many submissions had a wrong password (history)

form == <<tries, post, typed, wrongs>>

Passwords == {"right", "wrong"}

FormTypeOK ==
  /\ TypeOK
  /\ tries \in 0 .. 2
  /\ post \in Requests
  /\ typed \in [Requests -> Passwords]
  /\ wrongs \in Nat

FormInit ==
  /\ Init
  /\ tries = 0
  /\ post \in Requests
  /\ typed = [r \in Requests |-> "right"]
  /\ wrongs = 0

-----------------------------------------------------------------------------
\* handleSubmit: the login is posted and reaches the server.
Submit(r, p) ==
  /\ tries = 0
  /\ Login(r)
  /\ tries' = 1
  /\ post' = r
  /\ typed' = [typed EXCEPT ![r] = p]
  /\ wrongs' = IF p = "wrong" THEN wrongs + 1 ELSE wrongs

\* The answers login gives with status 401: the wrong password and the lock.
Unauthorized == pc[post] \in {"wrong", "locked"}

\* fetchWithAuth: a first 401 is followed by a refresh, not shown here, and by
\* the same request again.
Repost(r) ==
  /\ tries = 1
  /\ Unauthorized
  /\ Login(r)
  /\ tries' = 2
  /\ post' = r
  /\ typed' = [typed EXCEPT ![r] = typed[post]]
  /\ UNCHANGED wrongs

\* The call returns; or fetchWithTimeout gives up, and the server may still be
\* at work on the request.  The form is enabled again.
Show ==
  /\ tries > 0
  /\ tries = 2 \/ ~Unauthorized
  /\ tries' = 0
  /\ UNCHANGED <<vars, post, typed, wrongs>>

\* The server goes on; bcrypt's verdict depends on the password.
Serve(r) ==
  /\ \/ RightPassword(r) /\ typed[r] = "right"
     \/ WrongPassword(r) /\ typed[r] = "wrong"
     \/ UpdateUser(r) \/ Refuse(r) \/ IssueTokens(r) \/ DbError(r)
  /\ UNCHANGED form

FormNext ==
  \/ \E r \in Requests, p \in Passwords : Submit(r, p)
  \/ \E r \in Requests : Repost(r) \/ Serve(r)
  \/ Show
  \/ (Crash \/ Tick) /\ UNCHANGED form

FormSpec == FormInit /\ [][FormNext]_<<vars, form>>

-----------------------------------------------------------------------------
(* Properties.                                                             *)

\* README.md: three failed logins lock the account, so it takes its user three
\* submissions of a wrong password.
LockTakesThree == user.until > 0 => wrongs >= 3

\* What holds instead: a submission is posted twice at most, so one wrong
\* password alone never locks the account, whatever fails, times out or crashes.
LockTakesTwo == user.until > 0 => wrongs >= 2
=============================================================================

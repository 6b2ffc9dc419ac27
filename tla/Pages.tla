------------------------------- MODULE Pages -------------------------------
(***************************************************************************)
(* The pages of the frontend on FetchWithAuth: RootPage, which calls       *)
(* fetchMe when it is mounted and shows ProfilePage or HomePage, the forms *)
(* of LoginPage and SignupPage, and ProfilePage's logout.  React Router    *)
(* changes the page without unloading the document, so that a call         *)
(* outlives the page that made it; a reload, or the assignment to          *)
(* window.location in logout, aborts everything.                           *)
(***************************************************************************)
EXTENDS FetchWithAuth

CONSTANT MaxActs  \* bound: what the user does

ASSUME PagesAssumption == None \notin Calls /\ MaxActs \in Nat

VARIABLES
  view,    \* view[t]: what tab t shows
  busy,    \* busy[t]: its form has been submitted, and waits (loading)
  made,    \* made[c]: call c was made by the page that is mounted now
  smooth,  \* no call has timed out, and no form or logout been left (history)
  acts     \* how much the user has done (bound)

ui        == <<view, busy, made, smooth, acts>>
pagesVars == <<vars, ui>>

RootViews == {"loading", "profile", "home"}
Forms     == {"login", "signup"}   \* named as the calls they make

PagesTypeOK ==
  /\ TypeOK
  /\ view \in [Tabs -> RootViews \cup Forms \cup {"sent"}]
  /\ busy \in [Tabs -> BOOLEAN]
  /\ made \in [Calls -> BOOLEAN]
  /\ smooth \in BOOLEAN
  /\ acts \in 0..MaxActs

\* Every tab shows the profile of the user who has signed in.
PagesInit ==
  /\ Init
  /\ view = [t \in Tabs |-> "profile"]
  /\ busy = [t \in Tabs |-> FALSE]
  /\ made = [c \in Calls |-> FALSE]
  /\ smooth = TRUE
  /\ acts = 0

CallsOf(t) == {c \in Calls : tab[c] = t}

Act == acts < MaxActs /\ acts' = acts + 1

-----------------------------------------------------------------------------
(* Calls.  A call that has ended, or was aborted, can be made again.       *)

\* The calls in D are done with, and c, if it is one, is made.
Update(D, c, k) ==
  LET renewed == D \cup ({c} \cap Calls)
  IN  /\ pc' = [d \in Calls |-> IF d = c THEN "call" ELSE IF d \in renewed THEN "idle" ELSE pc[d]]
      /\ kind' = [d \in Calls |-> IF d = c THEN k ELSE IF d \in renewed THEN "me" ELSE kind[d]]
      /\ isRetry' = [d \in Calls |-> d \notin renewed /\ isRetry[d]]
      /\ cookie' = [d \in Calls |-> IF d = c THEN jar ELSE IF d \in renewed THEN None ELSE cookie[d]]
      /\ reply' = [d \in Calls |-> IF d \in renewed THEN "none" ELSE reply[d]]
      /\ sends' = [d \in Calls |-> IF d = c THEN 1 ELSE IF d \in renewed THEN 0 ELSE sends[d]]
      /\ UNCHANGED <<tables, jar, tab>>

Free(t, c) == tab[c] = t /\ pc[c] = "idle"

Show(t, v) == view' = [view EXCEPT ![t] = v]

\* Tab t mounts another page, which makes call c if it is one: the calls there
\* are belong to no page any more.
Mount(t, v, c) ==
  /\ Show(t, v)
  /\ made' = [d \in Calls |-> d = c \/ (tab[d] # t /\ made[d])]
  /\ busy' = [busy EXCEPT ![t] = FALSE]

-----------------------------------------------------------------------------
(* The document is loaded: by the user, or by logout.                      *)

Abort(t, D, c, k) ==
  LET running == {d \in CallsOf(t) : pc[d] \in {"call", "refresh", "waiting", "done"}} \ D
  IN  /\ Lose(running)
      /\ smooth' = (smooth /\ \A d \in running : kind[d] = "me")
      /\ Update(running \cup D, c, k)
      /\ isRefreshing' = [isRefreshing EXCEPT ![t] = FALSE]
      /\ subscribers' = [subscribers EXCEPT ![t] = {}]

\* "/": RootPage is mounted, and calls fetchMe.
LoadRoot(t, D) ==
  \E c \in Calls :
    /\ Free(t, c) \/ c \in D
    /\ Abort(t, D, c, "me")
    /\ Mount(t, "loading", c)

Reload(t) ==
  /\ Act
  /\ LoadRoot(t, {})

\* "/login" or "/signup".
OpenForm(t, f) ==
  /\ Act
  /\ Abort(t, {}, None, "me")
  /\ Mount(t, f, None)

-----------------------------------------------------------------------------
(* Inside the document.                                                    *)

Quietly == UNCHANGED <<tabs, events>>

\* RootPage is mounted by the router.
MountRoot(t, D) ==
  \E c \in Calls :
    /\ Free(t, c) \/ c \in D
    /\ Update(D, c, "me")
    /\ Mount(t, "loading", c)
    /\ Quietly

\* What waits in a form is left there.
Leave(t) == smooth' = (smooth /\ ~busy[t])

\* A button, a link, or the browser's history.
GoForm(t, f) ==
  /\ Act
  /\ view[t] # f
  /\ Mount(t, f, None)
  /\ Leave(t)
  /\ UNCHANGED vars

GoRoot(t) ==
  /\ Act
  /\ view[t] \notin RootViews
  /\ MountRoot(t, {})
  /\ Leave(t)

\* handleSubmit; the button is disabled while it waits.
Submit(t) ==
  /\ Act
  /\ view[t] \in Forms /\ ~busy[t]
  /\ \E c \in Calls :
       /\ Free(t, c)
       /\ Update({}, c, view[t])
       /\ made' = [made EXCEPT ![c] = TRUE]
  /\ busy' = [busy EXCEPT ![t] = TRUE]
  /\ Quietly /\ UNCHANGED <<view, smooth>>

\* handleLogout of ProfilePage.
Logout(t) ==
  /\ Act
  /\ view[t] = "profile"
  /\ \E c \in Calls : Free(t, c) /\ Update({}, c, "logout")
  /\ Quietly /\ UNCHANGED <<view, busy, made, smooth>>

-----------------------------------------------------------------------------
(* A call has come to its end: what its caller does.                       *)

Ended(c, k) == pc[c] = "done" /\ kind[c] = k

\* Mutant: only a user ends the check.
FetchMeDoneIfUser(c) ==
  /\ Ended(c, "me")
  /\ IF made[c] /\ reply[c] = "ok" THEN Show(tab[c], "profile") ELSE UNCHANGED view
  /\ Update({c}, None, "me")
  /\ made' = [made EXCEPT ![c] = FALSE]
  /\ Quietly /\ UNCHANGED <<busy, smooth, acts>>

\* Mutant: the answer is taken for a user whatever it is.
FetchMeDoneUnchecked(c) ==
  /\ Ended(c, "me")
  /\ IF made[c] THEN Show(tab[c], reply[c]) ELSE UNCHANGED view
  /\ Update({c}, None, "me")
  /\ made' = [made EXCEPT ![c] = FALSE]
  /\ Quietly /\ UNCHANGED <<busy, smooth, acts>>

\* RootPage shows what fetchMe says, if it is still mounted.
FetchMeDone(c) ==
  /\ Ended(c, "me")
  /\ IF made[c] THEN Show(tab[c], IF reply[c] = "ok" THEN "profile" ELSE "home")
                ELSE UNCHANGED view
  /\ Update({c}, None, "me")
  /\ made' = [made EXCEPT ![c] = FALSE]
  /\ Quietly /\ UNCHANGED <<busy, smooth, acts>>

\* The form waits no longer, if it is still there.
Done(c) ==
  /\ Update({c}, None, "me")
  /\ busy' = [busy EXCEPT ![tab[c]] = @ /\ ~made[c]]
  /\ made' = [made EXCEPT ![c] = FALSE]
  /\ Quietly

\* The login has succeeded: navigate("/"), from whatever page.  It mounts
\* RootPage, unless that is mounted already.
LoginSucceeded(c) ==
  /\ Ended(c, "login") /\ reply[c] = "ok"
  /\ IF view[tab[c]] \in RootViews
     THEN Done(c) /\ UNCHANGED view
     ELSE MountRoot(tab[c], {c})
  /\ UNCHANGED <<smooth, acts>>

\* The sign-up has: "Check your email".
SignUpSucceeded(c) ==
  /\ Ended(c, "signup") /\ reply[c] = "ok"
  /\ Done(c)
  /\ IF made[c] THEN Show(tab[c], "sent") ELSE UNCHANGED view
  /\ UNCHANGED <<smooth, acts>>

\* Mutant: the button stays disabled.
SubmitFailedStaying(c) ==
  /\ Ended(c, "login") \/ Ended(c, "signup")
  /\ reply[c] # "ok"
  /\ Update({c}, None, "me")
  /\ Quietly /\ UNCHANGED <<view, busy, made, smooth, acts>>

\* The error is shown, and the form can be submitted again.
SubmitFailed(c) ==
  /\ Ended(c, "login") \/ Ended(c, "signup")
  /\ reply[c] # "ok"
  /\ Done(c)
  /\ UNCHANGED <<view, smooth, acts>>

\* Mutant: the page stays as it is.
LogoutDoneStaying(c) ==
  /\ Ended(c, "logout")
  /\ Update({c}, None, "me")
  /\ Quietly /\ UNCHANGED ui

\* logout is over, with or without success: the page is loaded anew.
LogoutDone(c) ==
  /\ Ended(c, "logout")
  /\ LoadRoot(tab[c], {c})
  /\ UNCHANGED acts

\* An answer that has begun is read to its end.
Continue(c) ==
  \/ FetchMeDone(c) \/ LoginSucceeded(c) \/ SignUpSucceeded(c) \/ SubmitFailed(c)
  \/ LogoutDone(c)

-----------------------------------------------------------------------------
User(t) ==
  \/ Reload(t) \/ GoRoot(t) \/ Submit(t) \/ Logout(t)
  \/ \E f \in Forms : OpenForm(t, f) \/ GoForm(t, f)

PagesNext ==
  \/ \E t \in Tabs : User(t)
  \/ \E c \in Calls :
       \/ (Serve(c) \/ Proceed(c)) /\ UNCHANGED ui
       \/ Timeout(c) /\ smooth' = FALSE /\ UNCHANGED <<view, busy, made, acts>>
       \/ Continue(c)
  \/ Age /\ UNCHANGED ui

PagesSpec == PagesInit /\ [][PagesNext]_pagesVars

\* The browser's timers fire, and what waits for a promise runs when it is
\* settled.  Nothing is assumed of the server or of the user.
PagesFairness ==
  \A c \in Calls :
    /\ WF_pagesVars(Timeout(c) /\ smooth' = FALSE /\ UNCHANGED <<view, busy, made, acts>>)
    /\ WF_pagesVars(Continue(c))

LivePagesSpec == PagesSpec /\ PagesFairness

-----------------------------------------------------------------------------
(* Properties.                                                             *)

\* RootPage does not say "Loading…" for ever, though the server may never
\* answer, and though its fetchMe may have to wait for the refresh that a page
\* which is no longer there has begun.
LoadingEnds == \A t \in Tabs : view[t] = "loading" ~> view[t] # "loading"

\* The form can be submitted again in the end, or is left.
SubmitEnds == \A t \in Tabs : busy[t] ~> ~busy[t]

\* Every call comes to its end, also one that waits for the refresh of another,
\* or that no page waits for any more.
CallsEnd == \A c \in Calls : pc[c] = "call" ~> pc[c] \in {"done", "idle"}

\* When everything has come to rest, RootPage sends nobody away whose cookies
\* hold a live session, and shows the profile of nobody whose cookies do not;
\* except that a profile stays on the screen when the session expires under it,
\* since nothing makes a call then.  An error or a lost answer may have misled
\* it, and so may a login whose form was left: navigate("/") does not mount a
\* RootPage that is mounted already.
\* (In one tab: a page is not told that another tab has logged out.)
ShowsSession ==
  smooth /\ {"lost", "error"} \cap events = {} =>
    \A t \in Tabs :
      view[t] \in {"profile", "home"} /\ (\A c \in CallsOf(t) : pc[c] = "idle")
        => /\ view[t] = "home" => jar \notin Live
           /\ view[t] = "profile" => jar \in Live \/ "expired" \in events
=============================================================================

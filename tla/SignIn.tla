-------------------------------- MODULE SignIn --------------------------------
(***************************************************************************)
(* One browser with tabs on the dashboard and on the staff portal.  Both   *)
(* talk to one backend, so they share its session cookie, which scripts    *)
(* cannot read; each keeps a marker of its own in localStorage, shared by  *)
(* its tabs, and takes it for being signed in.                             *)
(*                                                                         *)
(* Requests are answered in any order.  A page loaded anew forgets its     *)
(* requests, though the backend still handles them.  Messages, the several *)
(* requests a page loads with (one stands for them) and the roles within a *)
(* tenant are left out.                                                    *)
(*                                                                         *)
(* The cookie of an answer is stored when its headers arrive; the script   *)
(* that asked runs later, when it has read the body, and only then sets or *)
(* removes the marker.  The other tabs go on in between.                   *)
(***************************************************************************)
EXTENDS Naturals, FiniteSets

CONSTANTS
  DashboardTabs, StaffTabs,
  Customers, Staff,    \* accounts of tenants, and super_admin accounts
  Nobody,
  MaxAsks,             \* bound: what the reader does
  MaxFaults            \* bound: lost requests and answers, ended sessions, suspensions

Tabs == DashboardTabs \cup StaffTabs
Accounts == Customers \cup Staff
Apps == {"dashboard", "staff"}
App(t) == IF t \in DashboardTabs THEN "dashboard" ELSE "staff"

ASSUME SignInAssumption ==
  /\ DashboardTabs \cap StaffTabs = {} /\ Customers \cap Staff = {}
  /\ Nobody \notin Accounts
  /\ {MaxAsks, MaxFaults} \subseteq Nat

\* Tokens the backend may issue, at most one per sign-in; 0 is no cookie.
Tokens == 1 .. MaxAsks

VARIABLES
  place,       \* the page each tab is on: "gate" is a protected page and
               \* "arriving" the login page, before their effects have run
  busy,        \* whether the form on it waits for an answer
  timer,       \* whether the sign-up page is about to move on
  marker,      \* what each front end has in localStorage
  cookie,
  sessions,    \* the backend's sessions
  suspended,   \* of each customer: never, now or lifted, by the staff
  issued,
  registered,  \* accounts there are
  calls,       \* requests in flight
  asks, faults,
  setBy,       \* the front end whose sign-in the cookie came from, "crossed" when
               \* another of its sign-ins or sign-outs had not run to its end
  cleared      \* why each front end's marker was last removed

vars == <<place, busy, timer, marker, cookie, sessions, suspended, issued, registered,
          calls, asks, faults, setBy, cleared>>
backend == <<sessions, suspended, issued, registered>>
browser == <<place, busy, timer, marker, cookie, setBy, cleared>>

\* isLoggedIn; the staff portal only ever stores super_admin sessions.
IsLoggedIn(app) == marker[app] # Nobody

\* A request carries the cookie of the moment; sets is the cookie its answer
\* leaves, if any ({0} deletes it), and heard is whether it has.
Request(t, kind, a, right) ==
  [tab |-> t, kind |-> kind, token |-> cookie, account |-> a, right |-> right,
   form |-> kind \notin {"load", "logout"}, here |-> TRUE,
   done |-> FALSE, status |-> 0, sets |-> {}, heard |-> FALSE]

Init ==
  /\ place = [t \in Tabs |-> "login"]
  /\ busy = [t \in Tabs |-> FALSE] /\ timer = [t \in Tabs |-> FALSE]
  /\ marker = [app \in Apps |-> Nobody]
  /\ cookie = 0 /\ issued = 0
  /\ sessions = [n \in Tokens |-> Nobody] /\ suspended = [a \in Customers |-> "never"]
  /\ registered \in {Staff, Accounts}
  /\ calls = {}
  /\ asks = 0 /\ faults = 0
  /\ setBy = "nobody" /\ cleared = [app \in Apps |-> "never"]

-----------------------------------------------------------------------------
(* Moving between pages.                                                   *)

\* router.replace and links: the old page's form is gone, its requests are not.
Go(t, p) ==
  /\ place' = [place EXCEPT ![t] = p]
  /\ busy' = [busy EXCEPT ![t] = FALSE]
  /\ calls' = {[c EXCEPT !.form = @ /\ c.tab # t] : c \in calls}

\* useRequireAuth, and the first request of the page it lets in.
GateEffect(t) ==
  /\ place[t] = "gate"
  /\ place' = [place EXCEPT ![t] = IF IsLoggedIn(App(t)) THEN "inside" ELSE "arriving"]
  /\ calls' = calls \cup
       {c \in {Request(t, "load", Nobody, TRUE)} : IsLoggedIn(App(t))}
  /\ UNCHANGED <<busy, timer, marker, cookie, setBy, cleared, backend, asks, faults>>

\* The login page sends whoever seems signed in back.
LoginEffect(t) ==
  /\ place[t] = "arriving"
  /\ place' = [place EXCEPT ![t] = IF IsLoggedIn(App(t)) THEN "gate" ELSE "login"]
  /\ UNCHANGED <<busy, timer, marker, cookie, setBy, cleared, backend, calls, asks, faults>>

\* setTimeout(..., 2500), wherever the tab is by then.
SignupTimer(t) ==
  /\ timer[t]
  /\ timer' = [timer EXCEPT ![t] = FALSE]
  /\ Go(t, "arriving")
  /\ UNCHANGED <<marker, cookie, setBy, cleared, backend, asks, faults>>

-----------------------------------------------------------------------------
(* The reader.                                                             *)

Ask == asks < MaxAsks /\ asks' = asks + 1

Follow(t, p) ==
  /\ Ask /\ Go(t, p)
  /\ UNCHANGED <<timer, marker, cookie, setBy, cleared, backend, faults>>

Visit(t) == place[t] = "inside" /\ Follow(t, "gate")
OpenSignup(t) ==
  /\ place[t] = "login" /\ t \in DashboardTabs
  /\ Follow(t, IF IsLoggedIn("dashboard") THEN "gate" ELSE "signup")
BackToLogin(t) == place[t] \in {"signup", "signedUp"} /\ Follow(t, "arriving")

Send(c) ==
  /\ Ask
  /\ calls' = calls \cup {c}
  /\ busy' = [busy EXCEPT ![c.tab] = @ \/ c.form]
  /\ UNCHANGED <<place, timer, marker, cookie, setBy, cleared, backend, faults>>

\* With the password of an account, or with a wrong one.
SubmitLogin(t, a) ==
  /\ place[t] = "login" /\ ~busy[t]
  /\ Send(Request(t, "login", a, a # Nobody))

\* The passwords match: the page checks it first.
SubmitSignup(t, a) == place[t] = "signup" /\ ~busy[t] /\ Send(Request(t, "signup", a, TRUE))

SubmitPassword(t, right) ==
  /\ place[t] = "inside" /\ t \in DashboardTabs /\ ~busy[t]
  /\ Send(Request(t, "password", Nobody, right))

\* A decision on a tenant's deletion takes the staff member's password again.
SubmitDecision(t, right) ==
  /\ place[t] = "inside" /\ t \in StaffTabs /\ ~busy[t]
  /\ Send(Request(t, "decision", Nobody, right))

SignOut(t) == place[t] = "inside" /\ Send(Request(t, "logout", Nobody, TRUE))

-----------------------------------------------------------------------------
(* The backend.                                                            *)

\* Whose session a token names, and as whom the backend answers.
Holder(n) == IF n = 0 THEN Nobody ELSE sessions[n]
Inactive(a) == a \in Customers /\ suspended[a] = "now"
UserOf(n) == IF Inactive(Holder(n)) THEN Nobody ELSE Holder(n)
User(c) == UserOf(c.token)

\* What a page loads changes nothing here, unless it is refused.
Answered(c, status, sets) ==
  (calls \ {c}) \cup
  {d \in {[c EXCEPT !.done = TRUE, !.status = status, !.sets = sets]} :
     d.kind # "load" \/ d.status = 401}

Refuse(c, status) == calls' = Answered(c, status, {}) /\ UNCHANGED backend

ServeLogin(c) ==
  /\ c.kind = "login"
  /\ IF c.account \in registered /\ ~Inactive(c.account)
     THEN /\ issued' = issued + 1
          /\ sessions' = [sessions EXCEPT ![issued + 1] = c.account]
          /\ calls' = Answered(c, 200, {issued + 1})
          /\ UNCHANGED <<suspended, registered>>
     ELSE Refuse(c, 401)

\* Whatever the cookie was, the answer deletes the browser's.
ServeLogout(c) ==
  /\ c.kind = "logout"
  /\ sessions' = [n \in Tokens |-> IF n = c.token THEN Nobody ELSE sessions[n]]
  /\ calls' = Answered(c, 200, {0})
  /\ UNCHANGED <<suspended, issued, registered>>

ServeSignup(c) ==
  /\ c.kind = "signup"
  /\ IF c.account \in registered
     THEN Refuse(c, 409)
     ELSE /\ registered' = registered \cup {c.account}
          /\ calls' = Answered(c, 201, {})
          /\ UNCHANGED <<sessions, suspended, issued>>

\* A new password ends all the user's sessions, this one included.
ServePassword(c) ==
  /\ c.kind = "password"
  /\ CASE User(c) = Nobody -> Refuse(c, 401)
       [] User(c) # Nobody /\ ~c.right -> Refuse(c, 400)
       [] OTHER ->
            /\ sessions' = [n \in Tokens |-> IF sessions[n] = User(c) THEN Nobody ELSE sessions[n]]
            /\ calls' = Answered(c, 200, {})
            /\ UNCHANGED <<suspended, issued, registered>>

\* A wrong password here is 401, as a missing session is.
ServeDecision(c) ==
  /\ c.kind = "decision"
  /\ Refuse(c, CASE User(c) = Nobody -> 401
                 [] User(c) \in Customers -> 403
                 [] OTHER -> IF c.right THEN 200 ELSE 401)

\* Fault: a role that may not read a page is answered 401.
ServeLoadRefusesRole(c) ==
  c.kind = "load" /\ Refuse(c, IF User(c) \in Customers THEN 200 ELSE 401)

ServeLoad(c) == c.kind = "load" /\ Refuse(c, IF User(c) = Nobody THEN 401 ELSE 200)

Serve(c) ==
  /\ ~c.done
  /\ \/ ServeLogin(c) \/ ServeLogout(c) \/ ServeSignup(c)
     \/ ServePassword(c) \/ ServeDecision(c) \/ ServeLoad(c)
  /\ UNCHANGED <<browser, asks, faults>>

Fault == faults < MaxFaults /\ faults' = faults + 1

\* A session's time is up, or someone ends it: a user deactivated by the
\* tenant's administrator loses the sessions for good.
SessionEnds(n) ==
  /\ Fault /\ sessions[n] # Nobody
  /\ sessions' = [sessions EXCEPT ![n] = Nobody]
  /\ UNCHANGED <<browser, suspended, issued, registered, calls, asks>>

\* The staff suspends a tenant's user, whose sessions stay and are answered
\* again once the user is active.
Suspend(a) ==
  /\ Fault /\ a \in registered
  /\ suspended' = [suspended EXCEPT ![a] = "now"]
  /\ UNCHANGED <<browser, sessions, issued, registered, calls, asks>>

Activate(a) ==
  /\ Inactive(a)
  /\ suspended' = [suspended EXCEPT ![a] = "lifted"]
  /\ UNCHANGED <<browser, sessions, issued, registered, calls, asks, faults>>

-----------------------------------------------------------------------------
(* The answers.                                                            *)

\* The staff portal turns away whoever is not of the staff, after the sign-in.
Denied(c) == c.tab \in StaffTabs /\ c.account \notin Staff

\* The script of a sign-in or sign-out whose cookie has been stored has yet to
\* run.
Settling(c) == c.heard /\ c.here /\ c.status = 200
Unsettled(app) == \E c \in calls : Settling(c) /\ App(c.tab) = app

\* The headers arrive.  The cookie is stored even if the page is gone.
Hear(c) ==
  /\ c.done /\ ~c.heard /\ c.sets # {}
  /\ cookie' \in c.sets
  /\ setBy' = CASE ~c.here \/ c.kind = "logout" \/ Denied(c) -> "nobody"
                [] OTHER -> IF Unsettled(App(c.tab)) THEN "crossed" ELSE App(c.tab)
  /\ calls' = (calls \ {c}) \cup {[c EXCEPT !.heard = TRUE]}
  /\ UNCHANGED <<place, busy, timer, marker, cleared, backend, asks, faults>>

\* The request or its answer is lost: fetch throws; or, its headers heard, the
\* reading of the body does.  A sign-out's answer (204) has none.
Lose(c) ==
  /\ Fault /\ (c.done => c.status # 0) /\ (c.heard => c.kind # "logout")
  /\ calls' = Answered(c, 0, {})
  /\ setBy' = IF Settling(c) THEN "nobody" ELSE setBy
  /\ UNCHANGED <<place, busy, timer, marker, cookie, cleared, backend, asks>>

Cleared(app, why) ==
  /\ marker' = [marker EXCEPT ![app] = Nobody]
  /\ cleared' = [cleared EXCEPT ![app] = why]

\* window.location.replace: the tab starts afresh.
LoadAnew(c) ==
  /\ place' = [place EXCEPT ![c.tab] = "arriving"]
  /\ busy' = [busy EXCEPT ![c.tab] = FALSE]
  /\ timer' = [timer EXCEPT ![c.tab] = FALSE]
  /\ calls' = {[d EXCEPT !.here = @ /\ d.tab # c.tab] : d \in calls \ {c}}

\* The handler's finally, if its form is still there.
Finish(c) ==
  /\ busy' = [busy EXCEPT ![c.tab] = @ /\ ~c.form]
  /\ calls' = calls \ {c}

WasSuspended == {a \in Customers : suspended[a] # "never"}
WhyRefused(c) ==
  CASE ~c.right -> "wrong"
    [] c.kind = "login" -> "wrong"
    [] c.token # cookie -> "late"
    [] OTHER -> IF Holder(c.token) \in WasSuspended THEN "suspended" ELSE "ended"

\* Fault: the marker outlives the refusal.
AnswerRefusedKeepsMarker(c) ==
  /\ c.status = 401
  /\ IF c.tab \in DashboardTabs THEN LoadAnew(c) ELSE Finish(c) /\ UNCHANGED <<place, timer>>
  /\ UNCHANGED <<marker, cleared, cookie, setBy>>

\* 401, whatever the request was: the dashboard also goes to the login page.
AnswerRefused(c) ==
  /\ c.status = 401
  /\ Cleared(App(c.tab), WhyRefused(c))
  /\ IF c.tab \in DashboardTabs THEN LoadAnew(c) ELSE Finish(c) /\ UNCHANGED <<place, timer>>
  /\ UNCHANGED <<cookie, setBy>>

\* Faults: the role is not looked at; a marker already there is kept.
AnswerLoginAnyRole(c) ==
  /\ c.kind = "login" /\ c.status = 200
  /\ marker' = [marker EXCEPT ![App(c.tab)] = c.account]
  /\ place' = [place EXCEPT ![c.tab] = "gate"]
  /\ Finish(c)
  /\ UNCHANGED <<timer, cookie, setBy, cleared>>
AnswerLoginKeepsMarker(c) ==
  /\ c.kind = "login" /\ c.status = 200
  /\ marker' = IF Denied(c) \/ IsLoggedIn(App(c.tab)) THEN marker
               ELSE [marker EXCEPT ![App(c.tab)] = c.account]
  /\ place' = IF Denied(c) THEN place ELSE [place EXCEPT ![c.tab] = "gate"]
  /\ Finish(c)
  /\ UNCHANGED <<timer, cookie, setBy, cleared>>

\* The cookie is the browser's before the staff portal looks at the role.
AnswerLogin(c) ==
  /\ c.kind = "login" /\ c.status = 200
  /\ marker' = IF Denied(c) THEN marker ELSE [marker EXCEPT ![App(c.tab)] = c.account]
  /\ place' = IF Denied(c) THEN place ELSE [place EXCEPT ![c.tab] = "gate"]
  /\ Finish(c)
  /\ UNCHANGED <<timer, cookie, setBy, cleared>>

\* An error of the logout request is ignored.
AnswerLogout(c) ==
  /\ c.kind = "logout"
  /\ Cleared(App(c.tab), IF c.status = 200 THEN "signed out" ELSE "lost")
  /\ LoadAnew(c)
  /\ UNCHANGED <<cookie, setBy>>

AnswerSignup(c) ==
  /\ c.kind = "signup" /\ c.status = 201
  /\ place' = [place EXCEPT ![c.tab] = IF c.form THEN "signedUp" ELSE @]
  /\ timer' = [timer EXCEPT ![c.tab] = TRUE]
  /\ Finish(c)
  /\ UNCHANGED <<marker, cookie, setBy, cleared>>

AnswerOther(c) ==
  /\ c.status # 401 /\ c.kind # "logout"
  /\ ~(c.kind = "login" /\ c.status = 200) /\ ~(c.kind = "signup" /\ c.status = 201)
  /\ Finish(c)
  /\ UNCHANGED <<place, timer, marker, cookie, setBy, cleared>>

Answer(c) ==
  /\ c.done /\ c.here /\ (c.sets # {} => c.heard)
  /\ AnswerRefused(c) \/ AnswerLogin(c) \/ AnswerLogout(c) \/ AnswerSignup(c) \/ AnswerOther(c)
  /\ UNCHANGED <<backend, asks, faults>>

\* The page that asked is gone; the browser may not even have heard.
AnswerNobody(c) ==
  /\ c.done /\ ~c.here
  /\ calls' = calls \ {c}
  /\ UNCHANGED <<browser, backend, asks, faults>>

-----------------------------------------------------------------------------
Reader(t) ==
  \/ Visit(t) \/ OpenSignup(t) \/ BackToLogin(t) \/ SignOut(t)
  \/ \E a \in Accounts \cup {Nobody} : SubmitLogin(t, a)
  \/ \E a \in Customers : SubmitSignup(t, a)
  \/ \E right \in BOOLEAN : SubmitPassword(t, right) \/ SubmitDecision(t, right)

Effects(t) == GateEffect(t) \/ LoginEffect(t) \/ SignupTimer(t)
ServeSome(t) == \E c \in calls : c.tab = t /\ Serve(c)
AnswerSome(t) == \E c \in calls : c.tab = t /\ (Hear(c) \/ Answer(c) \/ AnswerNobody(c))

Next ==
  \/ \E t \in Tabs : Reader(t) \/ Effects(t) \/ ServeSome(t) \/ AnswerSome(t)
  \/ \E n \in Tokens : SessionEnds(n)
  \/ \E a \in Customers : Suspend(a) \/ Activate(a)
  \/ \E c \in calls : Lose(c)

Spec == Init /\ [][Next]_vars

\* As long as an effect, a timer, the backend or an answer can go on, one of them
\* does; the reader need not do anything.
FairSpec == Spec /\ WF_vars(\E t \in Tabs : Effects(t) \/ ServeSome(t) \/ AnswerSome(t))

-----------------------------------------------------------------------------
(* Properties.                                                             *)

Places == {"arriving", "login", "signup", "signedUp", "gate", "inside"}
Reasons == {"never", "wrong", "late", "ended", "suspended", "signed out", "lost"}

\* Every variable keeps its type.
TypeOK ==
  /\ place \in [Tabs -> Places] /\ busy \in [Tabs -> BOOLEAN] /\ timer \in [Tabs -> BOOLEAN]
  /\ marker \in [Apps -> Accounts \cup {Nobody}] /\ marker["staff"] \in Staff \cup {Nobody}
  /\ cookie \in 0 .. issued /\ issued \in 0 .. MaxAsks
  /\ sessions \in [Tokens -> Accounts \cup {Nobody}] /\ registered \subseteq Accounts
  /\ \A c \in calls : c.tab \in Tabs /\ c.status \in {0, 200, 201, 400, 401, 403, 409}
  /\ suspended \in [Customers -> {"never", "now", "lifted"}]
  /\ setBy \in Apps \cup {"nobody", "crossed"} /\ cleared \in [Apps -> Reasons]

\* As whom the backend answers the browser.
SessionOf == UserOf(cookie)

\* A front end shows one account while the backend answers as another only
\* after the cookie was replaced behind its back: by a sign-in on the other
\* front end, one denied on the staff portal, or one whose page was gone or
\* could not read its answer; or by a sign-in that crossed, in another of its
\* tabs, a sign-in or sign-out between its cookie and its marker.  While no
\* script is still to run, it agrees in every other case.
ShownAccountIsAnswered ==
  \A app \in Apps :
    /\ IsLoggedIn(app) /\ SessionOf \notin {Nobody, marker[app]}
    /\ ~Unsettled(app)
    => setBy # app

\* The front end that signed in shows nobody signed in while its session is
\* alive only after a sign-out that did not reach the backend, a wrong password
\* typed in one of its tabs, the late refusal of a request sent before the
\* session began, or a suspension that was lifted.
SignedOutMeansNoSession ==
  \A app \in Apps :
    /\ setBy = app /\ SessionOf # Nobody /\ ~IsLoggedIn(app)
    /\ ~Unsettled(app)
    => cleared[app] \in {"lost", "wrong", "late", "suspended"}

\* The login page and the pages behind it do not send a tab back and forth for
\* ever: in the end every tab stays on one side, and nothing takes it to the other.
TabsSettle == <>[](\A t \in Tabs : place[t] \notin {"arriving", "gate"})
=============================================================================

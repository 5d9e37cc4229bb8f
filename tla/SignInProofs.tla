----------------------------- MODULE SignInProofs -----------------------------
(***************************************************************************)
(* What the markers of the two front ends say about the cookie they share. *)
(* The two safety properties are about the browser; they hold because of   *)
(* what is under way to it: the answer to a sign-in carries a cookie that  *)
(* names that account's session or a dead one, and a refusal of a right    *)
(* request names a session that is dead and stays so, or one of an account *)
(* that has been suspended (AnswerFits).  A sign-in whose script has yet   *)
(* to run, on the front end the cookie came from, is the one that brought  *)
(* the cookie (SettlingFits), so the marker it will set is that of the     *)
(* cookie's session (MarkersAgree).  That the backend does not run out of  *)
(* tokens is a count of sign-ins (LoginsCounted).                          *)
(***************************************************************************)
EXTENDS SignIn, FiniteSetTheorems, TLAPS

Kinds == {"load", "login", "logout", "signup", "password", "decision"}
Statuses == {0, 200, 201, 400, 401, 403, 409}
Calls ==
  [tab : Tabs, kind : Kinds, token : Nat, account : Accounts \cup {Nobody},
   right : BOOLEAN, form : BOOLEAN, here : BOOLEAN, done : BOOLEAN,
   status : Statuses, sets : SUBSET Nat, heard : BOOLEAN]

\* The cookie an answer carries names a session of the account that signed in,
\* as long as it is alive.
LoginFits(c) ==
  c.status = 200 =>
    c.account \in Accounts
    /\ \E n \in 1 .. issued : c.sets = {n} /\ sessions[n] \in {Nobody, c.account}

\* The other answers that say something about a session, or delete the cookie.
RefusalFits(c) ==
  /\ c.kind = "logout" /\ c.status # 0 => c.status = 200 /\ c.sets = {0}
  /\ c.kind = "signup" => c.status # 401
  /\ c.kind # "login" /\ c.right /\ c.status = 401 => Holder(c.token) \in WasSuspended \cup {Nobody}

AnswerFits(c) ==
  /\ c.token <= issued
  /\ c.kind = "signup" => c.account \in Customers
  /\ ~c.done => c.status = 0
  /\ c.status = 0 => c.sets = {}
  /\ c.sets # {} =>
       c.status = 200 /\ c.kind \in {"login", "logout"} /\ \A n \in c.sets : n <= issued
  /\ c.heard => c.done /\ c.kind \in {"login", "logout"}
  /\ c.kind = "login" => LoginFits(c)
  /\ RefusalFits(c)

CallsOK == \A c \in calls : c \in Calls /\ AnswerFits(c)

PendingLogins == {c \in calls : c.kind = "login" /\ ~c.done}
LoginsCounted ==
  /\ IsFiniteSet(PendingLogins)
  /\ asks \in Nat /\ asks <= MaxAsks
  /\ issued + Cardinality(PendingLogins) <= asks

\* On the front end the cookie came from, only the sign-in that brought it has
\* yet to run its script, and the portal has not turned it away.
SettlingFits ==
  \A c \in calls :
    Settling(c) /\ setBy = App(c.tab) =>
      c.kind = "login" /\ ~Denied(c) /\ c.sets = {cookie}

\* Once no script is still to run there, the marker is that of the cookie's
\* session, or was removed for one of four reasons.
Agrees(app) ==
  setBy = app /\ ~Unsettled(app) /\ Holder(cookie) # Nobody =>
    IF IsLoggedIn(app) THEN marker[app] = Holder(cookie)
    ELSE cleared[app] \in {"lost", "wrong", "late", "suspended"}
MarkersAgree == \A app \in Apps : Agrees(app)

IndInv == TypeOK /\ CallsOK /\ LoginsCounted /\ SettlingFits /\ MarkersAgree

-----------------------------------------------------------------------------
(* A session that is dead stays dead, and one alive keeps its account: the   *)
(* backend only fills the next token.  A suspension is not forgotten.        *)
SessionsOnlyEnd ==
  /\ issued \in Nat /\ issued' \in Nat /\ issued <= issued'
  /\ \A n \in 1 .. issued : sessions'[n] \in {sessions[n], Nobody}
  /\ WasSuspended \subseteq WasSuspended'

(* The backend issues sessions and ends them; it gives none to another account. *)
LEMMA StepSessions == IndInv /\ [Next]_vars => SessionsOnlyEnd
<1> SUFFICES ASSUME IndInv, [Next]_vars PROVE SessionsOnlyEnd
  OBVIOUS
<1>1. /\ issued \in Nat /\ sessions \in [Tokens -> Accounts \cup {Nobody}]
      /\ \A n \in 1 .. issued : n \in Tokens
  BY SignInAssumption DEF IndInv, TypeOK, Tokens
<1>0. suspended' = suspended => WasSuspended \subseteq WasSuspended'
  BY DEF WasSuspended
<1>2. ASSUME UNCHANGED <<sessions, suspended, issued>> PROVE SessionsOnlyEnd
  BY <1>0, <1>1, <1>2 DEF SessionsOnlyEnd
<1>3. ASSUME NEW c \in calls, ServeLogin(c) PROVE SessionsOnlyEnd
  BY <1>0, <1>1, <1>2, <1>3 DEF SessionsOnlyEnd, ServeLogin, Refuse, backend
<1>4. ASSUME NEW c \in calls, ServeLogout(c) \/ ServePassword(c) PROVE SessionsOnlyEnd
  BY <1>0, <1>1, <1>2, <1>4 DEF SessionsOnlyEnd, ServeLogout, ServePassword, Refuse, backend
<1>5. ASSUME NEW c \in calls, ServeSignup(c) \/ ServeDecision(c) \/ ServeLoad(c)
      PROVE  UNCHANGED <<sessions, suspended, issued>>
  BY <1>5 DEF ServeSignup, ServeDecision, ServeLoad, Refuse, backend
<1>6. ASSUME NEW n \in Tokens, SessionEnds(n) PROVE SessionsOnlyEnd
  BY <1>0, <1>1, <1>6 DEF SessionsOnlyEnd, SessionEnds
<1>11. ASSUME NEW a \in Customers, Suspend(a) \/ Activate(a) PROVE SessionsOnlyEnd
  <2>1. \A b \in Customers : suspended[b] # "never" => suspended'[b] # "never"
    BY <1>11 DEF Suspend, Activate, IndInv, TypeOK
  <2>2. WasSuspended \subseteq WasSuspended'
    BY <2>1 DEF WasSuspended
  <2> QED BY <1>1, <1>11, <2>2 DEF Suspend, Activate, SessionsOnlyEnd
<1>7. ASSUME NEW t \in Tabs, Reader(t) \/ Effects(t) \/ AnswerSome(t)
      PROVE  UNCHANGED <<sessions, suspended, issued>>
  <2>1. CASE Reader(t)
    BY <2>1 DEF Reader, Visit, OpenSignup, BackToLogin, SignOut, SubmitLogin, SubmitSignup,
                SubmitPassword, SubmitDecision, Follow, Send, backend
  <2>2. CASE Effects(t)
    BY <2>2 DEF Effects, GateEffect, LoginEffect, SignupTimer, backend
  <2>3. CASE AnswerSome(t)
    BY <2>3 DEF AnswerSome, Hear, Answer, AnswerNobody, backend
  <2> QED BY <1>7, <2>1, <2>2, <2>3
<1>8. ASSUME NEW t \in Tabs, ServeSome(t) PROVE SessionsOnlyEnd
  BY <1>2, <1>3, <1>4, <1>5, <1>8 DEF ServeSome, Serve
<1>9. ASSUME NEW c \in calls, Lose(c) PROVE UNCHANGED <<sessions, suspended, issued>>
  BY <1>9 DEF Lose, backend
<1>10. CASE UNCHANGED vars
  BY <1>2, <1>10 DEF vars
<1> QED BY <1>2, <1>6, <1>7, <1>8, <1>9, <1>10, <1>11 DEF Next

-----------------------------------------------------------------------------
(* The requests in flight.                                                   *)

(* What an answer says of a session remains true while it travels.           *)
LEMMA FitsKept ==
  ASSUME SessionsOnlyEnd, NEW c \in Calls, AnswerFits(c)
  PROVE  AnswerFits(c)'
<1>1. Holder(c.token) \in WasSuspended \cup {Nobody} => (Holder(c.token) \in WasSuspended \cup {Nobody})'
  BY DEF SessionsOnlyEnd, AnswerFits, Holder, Calls
<1>2. LoginFits(c) => LoginFits(c)'
  BY DEF SessionsOnlyEnd, LoginFits
<1> QED BY <1>1, <1>2 DEF AnswerFits, RefusalFits, SessionsOnlyEnd, Calls

(* Leaving the page, or loading it anew, changes nothing else of a request.  *)
LEMMA FlagsDoNotMatter ==
  ASSUME NEW c \in Calls, AnswerFits(c), NEW b \in BOOLEAN
  PROVE  /\ [c EXCEPT !.form = b] \in Calls /\ AnswerFits([c EXCEPT !.form = b])
         /\ [c EXCEPT !.here = b] \in Calls /\ AnswerFits([c EXCEPT !.here = b])
<1>1. ASSUME NEW d \in {[c EXCEPT !.form = b], [c EXCEPT !.here = b]}
      PROVE  /\ d \in Calls
             /\ d.token = c.token /\ d.status = c.status /\ d.sets = c.sets /\ d.right = c.right
             /\ d.kind = c.kind /\ d.account = c.account /\ d.done = c.done /\ d.heard = c.heard
  BY <1>1 DEF Calls
<1> QED BY <1>1 DEF AnswerFits, LoginFits, RefusalFits

\* A request that is not the one served or answered by a step.
Kept(d) ==
  \E c \in calls : \E b \in BOOLEAN :
    d = c \/ d = [c EXCEPT !.form = b] \/ ((b => c.here) /\ d = [c EXCEPT !.here = b])

\* The same request, as far as the browser's cookie and markers go.
Same(d, c) == d.tab = c.tab /\ d.kind = c.kind /\ d.account = c.account /\ d.sets = c.sets

\* A script has yet to run because it had, or because its answer is heard now.
Comes(d) == Settling(d) => \E c \in calls : (Settling(c) \/ Hear(c)) /\ Same(d, c)

\* What holds of every request after a step.
CallFits(d) == d \in Calls /\ AnswerFits(d)' /\ Comes(d)

(* Its answer stays one the handler can have given.                           *)
LEMMA KeptFits ==
  ASSUME CallsOK, SessionsOnlyEnd, NEW d, Kept(d)
  PROVE  CallFits(d)
<1>1. PICK c \in calls : \E b \in BOOLEAN :
        d = c \/ d = [c EXCEPT !.form = b] \/ ((b => c.here) /\ d = [c EXCEPT !.here = b])
  BY DEF Kept
<1>2. d \in Calls /\ AnswerFits(d)
  BY <1>1, FlagsDoNotMatter DEF CallsOK
<1>3. c \in Calls
  BY DEF CallsOK
<1>4. Same(d, c) /\ (d.heard => c.heard) /\ d.status = c.status /\ (d.here => c.here)
  BY <1>1, <1>3 DEF Same, Calls
<1>5. Settling(d) => Settling(c)
  BY <1>4 DEF Settling
<1>6. Comes(d)
  BY <1>4, <1>5, Zenon DEF Comes
<1> QED BY <1>2, <1>6, FitsKept DEF CallFits

(* A new request carries the cookie there is and no answer.                  *)
LEMMA RequestFits ==
  ASSUME TypeOK, SessionsOnlyEnd, NEW t \in Tabs, NEW kind \in Kinds,
         NEW a \in Accounts \cup {Nobody}, NEW right \in BOOLEAN,
         kind = "signup" => a \in Customers, NEW c, c = Request(t, kind, a, right)
  PROVE  CallFits(c)
<1>1. PICK form \in BOOLEAN : form = (kind \notin {"load", "logout"})
  <2>1. CASE kind \in {"load", "logout"}
    BY <2>1
  <2>2. CASE kind \notin {"load", "logout"}
    BY <2>2
  <2> QED BY <2>1, <2>2
<1>2. cookie \in Nat /\ cookie <= issued'
  BY DEF TypeOK, SessionsOnlyEnd
<1>3. /\ c \in Calls /\ c.token = cookie /\ c.status = 0 /\ c.sets = {} /\ c.done = FALSE
      /\ c.heard = FALSE /\ c.kind = kind /\ c.account = a
  BY <1>1, <1>2 DEF Request, Calls, Statuses
<1>4. AnswerFits(c)'
  BY <1>2, <1>3 DEF AnswerFits, LoginFits, RefusalFits
<1>5. Comes(c)
  BY <1>3 DEF Comes, Settling
<1> QED BY <1>3, <1>4, <1>5 DEF CallFits

\* The request d is c answered by the backend.
IsAnswer(d, c, status, sets) ==
  /\ d \in Calls /\ d.done = TRUE /\ d.status = status /\ d.sets = sets
  /\ d.kind = c.kind /\ d.token = c.token /\ d.account = c.account /\ d.right = c.right
  /\ d.heard = c.heard

(* A sign-in that waits for its answer has a token left for it.              *)
LEMMA TokensLeft ==
  ASSUME LoginsCounted, issued \in Nat, NEW c \in PendingLogins
  PROVE  issued + 1 \in Tokens
<1>1. Cardinality(PendingLogins) \in Nat /\ Cardinality(PendingLogins) # 0
  BY FS_CardinalityType, FS_EmptySet DEF LoginsCounted
<1> QED BY <1>1, SignInAssumption DEF LoginsCounted, Tokens

(* An answer that carries no cookie and is no success of a sign-in or        *)
(* sign-out; a refusal of a right request means its session is dead.         *)
LEMMA PlainAnswerFits ==
  ASSUME TypeOK, SessionsOnlyEnd, NEW c \in Calls, AnswerFits(c), NEW status \in Statuses,
         c.kind = "login" => status # 200,
         c.kind = "logout" => status = 0,
         c.kind = "signup" => status # 401,
         c.kind # "login" /\ c.right /\ status = 401 => User(c) = Nobody,
         c.heard => status = 0,
         NEW d, IsAnswer(d, c, status, {})
  PROVE  CallFits(d)
<1>1. User(c) = Nobody => Holder(c.token) \in WasSuspended \cup {Nobody}
  BY DEF User, UserOf, Inactive, WasSuspended
<1>2. AnswerFits(d)
  BY <1>1 DEF IsAnswer, AnswerFits, LoginFits, RefusalFits
<1>3. Comes(d)
  BY DEF IsAnswer, Comes, Settling
<1> QED BY <1>2, <1>3, FitsKept DEF IsAnswer, CallFits

(* What the backend answers fits what it did to the sessions.                *)
LEMMA ServeFits ==
  ASSUME IndInv, SessionsOnlyEnd, NEW c \in calls, Serve(c), NEW d \in calls'
  PROVE  CallFits(d)
<1>1. /\ c \in Calls /\ AnswerFits(c) /\ c.token \in Nat /\ c.sets = {} /\ c.right \in BOOLEAN
      /\ c.heard = FALSE
  BY DEF IndInv, CallsOK, Serve, AnswerFits, Calls
<1>2. TypeOK
  BY DEF IndInv
<1>3. ASSUME d \in calls PROVE CallFits(d)
  BY <1>3, KeptFits DEF Kept, IndInv
<1>4. ASSUME NEW status, Refuse(c, status), status \in Statuses,
             c.kind = "login" => status # 200,
             c.kind = "logout" => status = 0,
             c.kind = "signup" => status # 401,
             c.kind # "login" /\ c.right /\ status = 401 => User(c) = Nobody
      PROVE  CallFits(d)
  <2>1. CASE d = [c EXCEPT !.done = TRUE, !.status = status, !.sets = {}]
    <3>1. IsAnswer(d, c, status, {})
      BY <1>1, <1>4, <2>1 DEF IsAnswer, Calls
    <3> QED BY <1>1, <1>2, <1>4, <3>1, PlainAnswerFits
  <2> QED BY <1>3, <1>4, <2>1 DEF Refuse, Answered
<1>5. CASE ServeLogin(c)
  <2>1. CASE c.account \in registered /\ ~Inactive(c.account)
    <3>1. CASE d = [c EXCEPT !.done = TRUE, !.status = 200, !.sets = {issued + 1}]
      <4>1. issued \in Nat /\ issued' = issued + 1 /\ c.account \in Accounts
        BY <1>2, <1>5, <2>1 DEF TypeOK, ServeLogin
      <4>0. {issued + 1} \in SUBSET Nat /\ 200 \in Statuses
        BY <4>1 DEF Statuses
      <4>2. IsAnswer(d, c, 200, {issued + 1})
        BY <1>1, <3>1, <4>0 DEF IsAnswer, Calls
      <4>3. issued + 1 \in Tokens => sessions'[issued + 1] = c.account
        BY <1>2, <1>5, <2>1 DEF ServeLogin, TypeOK
      <4>4. issued + 1 \in Tokens
        BY <1>5, <4>1, TokensLeft DEF IndInv, PendingLogins, ServeLogin, Serve
      <4>5. LoginFits(d)'
        BY <4>1, <4>2, <4>3, <4>4 DEF IsAnswer, LoginFits
      <4> QED BY <1>1, <1>5, <4>1, <4>2, <4>5 DEF ServeLogin, IsAnswer, CallFits, AnswerFits, RefusalFits, Comes, Settling
    <3> QED BY <1>3, <1>5, <2>1, <3>1 DEF ServeLogin, Answered
  <2>2. CASE ~(c.account \in registered /\ ~Inactive(c.account))
    BY <1>4, <1>5, <2>2 DEF ServeLogin, Statuses
  <2> QED BY <2>1, <2>2
<1>6. CASE ServeLogout(c)
  <2>1. CASE d = [c EXCEPT !.done = TRUE, !.status = 200, !.sets = {0}]
    <3>0. {0} \in SUBSET Nat /\ 200 \in Statuses
      BY DEF Statuses
    <3>1. IsAnswer(d, c, 200, {0})
      BY <1>1, <2>1, <3>0 DEF IsAnswer, Calls
    <3> QED BY <1>1, <1>6, <3>1 DEF IsAnswer, ServeLogout, CallFits, AnswerFits, RefusalFits, SessionsOnlyEnd, Comes, Settling
  <2> QED BY <1>3, <1>6, <2>1 DEF ServeLogout, Answered
<1>7. CASE ServeSignup(c)
  <2>1. CASE d = [c EXCEPT !.done = TRUE, !.status = 201, !.sets = {}]
    <3>1. 201 \in Statuses /\ c.kind = "signup"
      BY <1>7 DEF ServeSignup, Statuses
    <3>2. IsAnswer(d, c, 201, {})
      BY <1>1, <2>1, <3>1 DEF IsAnswer, Calls
    <3> QED BY <1>1, <1>2, <3>1, <3>2, PlainAnswerFits
  <2>2. CASE c.account \in registered
    BY <1>4, <1>7, <2>2 DEF ServeSignup, Statuses
  <2> QED BY <1>3, <1>7, <2>1, <2>2 DEF ServeSignup, Answered
<1>8. CASE ServePassword(c)
  <2>1. CASE User(c) = Nobody
    BY <1>4, <1>8, <2>1 DEF ServePassword, Statuses
  <2>2. CASE User(c) # Nobody /\ ~c.right
    BY <1>4, <1>8, <2>2 DEF ServePassword, Statuses
  <2>3. CASE User(c) # Nobody /\ c.right
    <3>1. CASE d = [c EXCEPT !.done = TRUE, !.status = 200, !.sets = {}]
      <4>1. 200 \in Statuses /\ c.kind = "password"
        BY <1>8 DEF ServePassword, Statuses
      <4>2. IsAnswer(d, c, 200, {})
        BY <1>1, <3>1, <4>1 DEF IsAnswer, Calls
      <4> QED BY <1>1, <1>2, <4>1, <4>2, PlainAnswerFits
    <3> QED BY <1>3, <1>8, <2>3, <3>1 DEF ServePassword, Answered
  <2> QED BY <1>1, <2>1, <2>2, <2>3
<1>9. CASE ServeDecision(c)
  <2>1. CASE User(c) = Nobody
    BY <1>4, <1>9, <2>1 DEF ServeDecision, Statuses
  <2>2. CASE User(c) # Nobody /\ User(c) \in Customers
    BY <1>4, <1>9, <2>2 DEF ServeDecision, Statuses
  <2>3. CASE User(c) # Nobody /\ User(c) \notin Customers /\ c.right
    BY <1>4, <1>9, <2>3 DEF ServeDecision, Statuses
  <2>4. CASE User(c) # Nobody /\ User(c) \notin Customers /\ ~c.right
    BY <1>4, <1>9, <2>4 DEF ServeDecision, Statuses
  <2> QED BY <1>1, <2>1, <2>2, <2>3, <2>4
<1>10. CASE ServeLoad(c)
  <2>1. CASE User(c) = Nobody
    BY <1>4, <1>10, <2>1 DEF ServeLoad, Statuses
  <2>2. CASE User(c) # Nobody
    BY <1>4, <1>10, <2>2 DEF ServeLoad, Statuses
  <2> QED BY <2>1, <2>2
<1> QED BY <1>5, <1>6, <1>7, <1>8, <1>9, <1>10 DEF Serve

(* The forms of the old page, the requests of the old document.              *)
LEMMA MapsKeep ==
  ASSUME CallsOK, NEW t, NEW d
  PROVE  /\ d \in {[c EXCEPT !.form = @ /\ c.tab # t] : c \in calls} => Kept(d)
         /\ d \in {[c EXCEPT !.here = @ /\ c.tab # t] : c \in calls} => Kept(d)
<1>1. ASSUME NEW c \in calls, NEW x \in BOOLEAN
      PROVE  \E b \in BOOLEAN : b = (x /\ c.tab # t) /\ (b => x)
  <2>1. CASE x /\ c.tab # t
    BY <2>1
  <2>2. CASE ~(x /\ c.tab # t)
    BY <2>2
  <2> QED BY <2>1, <2>2
<1>2. \A c \in calls : c.form \in BOOLEAN /\ c.here \in BOOLEAN
  BY DEF CallsOK, Calls
<1>3. ASSUME d \in {[c EXCEPT !.form = @ /\ c.tab # t] : c \in calls} PROVE Kept(d)
  <2>1. PICK c \in calls : d = [c EXCEPT !.form = c.form /\ c.tab # t]
    BY <1>3
  <2>2. PICK b \in BOOLEAN : b = (c.form /\ c.tab # t)
    BY <1>1, <1>2
  <2> QED BY <2>1, <2>2 DEF Kept
<1>4. ASSUME d \in {[c EXCEPT !.here = @ /\ c.tab # t] : c \in calls} PROVE Kept(d)
  <2>1. PICK c \in calls : d = [c EXCEPT !.here = c.here /\ c.tab # t]
    BY <1>4
  <2>2. PICK b \in BOOLEAN : b = (c.here /\ c.tab # t) /\ (b => c.here)
    BY <1>1, <1>2
  <2> QED BY <2>1, <2>2 DEF Kept
<1> QED BY <1>3, <1>4

(* What is under way to the browser keeps fitting the sessions, whichever    *)
(* page, handler or answer takes the step.                                   *)
LEMMA StepCalls == IndInv /\ [Next]_vars => CallsOK' /\ \A d \in calls' : Comes(d)
<1> SUFFICES ASSUME IndInv, [Next]_vars, NEW d \in calls' PROVE CallFits(d)
  BY DEF CallsOK, CallFits
<1>1. SessionsOnlyEnd
  BY StepSessions
<1>2. TypeOK /\ CallsOK
  BY DEF IndInv
<1>3. ASSUME Kept(d) PROVE CallFits(d)
  BY <1>1, <1>2, <1>3, KeptFits
<1>4. ASSUME calls' \subseteq calls PROVE CallFits(d)
  BY <1>3, <1>4 DEF Kept
<1>5. ASSUME NEW t, \/ d \in {[c EXCEPT !.form = @ /\ c.tab # t] : c \in calls}
                    \/ d \in {[c EXCEPT !.here = @ /\ c.tab # t] : c \in calls}
      PROVE  CallFits(d)
  BY <1>2, <1>3, <1>5, MapsKeep
<1>6. ASSUME NEW t \in Tabs, NEW kind \in Kinds, NEW a \in Accounts \cup {Nobody},
             NEW right \in BOOLEAN, kind = "signup" => a \in Customers,
             calls' = calls \cup {Request(t, kind, a, right)}
      PROVE  CallFits(d)
  <2>1. CASE d = Request(t, kind, a, right)
    BY <1>1, <1>2, <1>6, <2>1, RequestFits
  <2> QED BY <1>3, <1>6, <2>1 DEF Kept
<1>7. ASSUME NEW t \in Tabs, Reader(t) PROVE CallFits(d)
  <2>1. CASE Visit(t) \/ OpenSignup(t) \/ BackToLogin(t)
    <3>1. calls' = {[c EXCEPT !.form = @ /\ c.tab # t] : c \in calls}
      BY <2>1 DEF Visit, OpenSignup, BackToLogin, Follow, Go
    <3> QED BY <1>5, <3>1
  <2>2. CASE SignOut(t)
    BY <1>6, <2>2 DEF SignOut, Send, Kinds
  <2>3. ASSUME NEW a \in Accounts \cup {Nobody}, SubmitLogin(t, a) PROVE CallFits(d)
    <3>1. PICK right \in BOOLEAN : right = (a # Nobody)
      <4>1. CASE a = Nobody
        BY <4>1
      <4>2. CASE a # Nobody
        BY <4>2
      <4> QED BY <4>1, <4>2
    <3>2. calls' = calls \cup {Request(t, "login", a, a # Nobody)}
      BY <2>3 DEF SubmitLogin, Send
    <3>3. calls' = calls \cup {Request(t, "login", a, right)}
      BY <3>1, <3>2, Zenon
    <3> QED BY <1>6, <3>3 DEF Kinds
  <2>4. ASSUME NEW a \in Customers, SubmitSignup(t, a) PROVE CallFits(d)
    BY <1>6, <2>4 DEF SubmitSignup, Send, Kinds, Accounts
  <2>5. ASSUME NEW right \in BOOLEAN, SubmitPassword(t, right) \/ SubmitDecision(t, right)
        PROVE  CallFits(d)
    BY <1>6, <2>5 DEF SubmitPassword, SubmitDecision, Send, Kinds
  <2> QED BY <1>7, <2>1, <2>2, <2>3, <2>4, <2>5 DEF Reader
<1>8. ASSUME NEW t \in Tabs, Effects(t) PROVE CallFits(d)
  <2>1. CASE GateEffect(t)
    <3>1. \/ calls' = calls \cup {Request(t, "load", Nobody, TRUE)}
          \/ calls' \subseteq calls
      <4>1. calls' = calls \cup {c \in {Request(t, "load", Nobody, TRUE)} : IsLoggedIn(App(t))}
        BY <2>1 DEF GateEffect
      <4>2. CASE IsLoggedIn(App(t))
        BY <4>1, <4>2
      <4>3. CASE ~IsLoggedIn(App(t))
        BY <4>1, <4>3
      <4> QED BY <4>2, <4>3
    <3> QED BY <1>4, <1>6, <3>1 DEF Kinds
  <2>2. CASE LoginEffect(t)
    BY <1>4, <2>2 DEF LoginEffect
  <2>3. CASE SignupTimer(t)
    <3>1. calls' = {[c EXCEPT !.form = @ /\ c.tab # t] : c \in calls}
      BY <2>3 DEF SignupTimer, Go
    <3> QED BY <1>5, <3>1
  <2> QED BY <1>8, <2>1, <2>2, <2>3 DEF Effects
<1>9. ASSUME NEW t \in Tabs, ServeSome(t) PROVE CallFits(d)
  BY <1>1, <1>9, ServeFits DEF ServeSome
<1>10. ASSUME NEW t \in Tabs, AnswerSome(t) PROVE CallFits(d)
  <2>1. PICK c \in calls : Hear(c) \/ Answer(c) \/ AnswerNobody(c)
    BY <1>10 DEF AnswerSome
  <2>2. ASSUME LoadAnew(c) PROVE CallFits(d)
    <3>1. calls' = {[e EXCEPT !.here = @ /\ e.tab # c.tab] : e \in calls \ {c}}
      BY <2>2 DEF LoadAnew
    <3>2. PICK e \in calls : d = [e EXCEPT !.here = @ /\ e.tab # c.tab]
      BY <3>1
    <3>3. d \in {[f EXCEPT !.here = @ /\ f.tab # c.tab] : f \in calls}
      BY <3>2
    <3> QED BY <1>5, <3>3
  <2>3. ASSUME Finish(c) \/ AnswerNobody(c) PROVE CallFits(d)
    BY <1>4, <2>3 DEF Finish, AnswerNobody
  <2>4. CASE Hear(c)
    <3>1. CASE d = [c EXCEPT !.heard = TRUE]
      <4>1. c \in Calls /\ AnswerFits(c) /\ c.done /\ c.sets # {}
        BY <1>2, <2>4 DEF CallsOK, Hear
      <4>2. /\ d \in Calls /\ Same(d, c)
            /\ d.token = c.token /\ d.status = c.status /\ d.right = c.right /\ d.done = c.done
        BY <3>1, <4>1 DEF Calls, Same
      <4>3. AnswerFits(d)
        BY <4>1, <4>2 DEF AnswerFits, LoginFits, RefusalFits, Same
      <4>4. Comes(d)
        BY <2>4, <4>2 DEF Comes
      <4> QED BY <1>1, <4>2, <4>3, <4>4, FitsKept DEF CallFits
    <3> QED BY <1>3, <2>4, <3>1 DEF Hear, Kept
  <2> QED BY <2>1, <2>2, <2>3, <2>4
       DEF Answer, AnswerRefused, AnswerLogin, AnswerLogout, AnswerSignup, AnswerOther
<1>11. ASSUME NEW c \in calls, Lose(c) PROVE CallFits(d)
  <2>1. CASE d = [c EXCEPT !.done = TRUE, !.status = 0, !.sets = {}]
    <3>1. c \in Calls /\ AnswerFits(c) /\ 0 \in Statuses
      BY <1>2 DEF CallsOK, Statuses
    <3>2. IsAnswer(d, c, 0, {})
      BY <2>1, <3>1 DEF IsAnswer, Calls
    <3> QED BY <1>1, <1>2, <3>1, <3>2, PlainAnswerFits
  <2> QED BY <1>3, <1>11, <2>1 DEF Lose, Answered, Kept
<1>12. CASE UNCHANGED vars \/ \E n \in Tokens : SessionEnds(n)
  BY <1>4, <1>12 DEF vars, SessionEnds
<1>13. ASSUME NEW a \in Customers, Suspend(a) \/ Activate(a) PROVE CallFits(d)
  BY <1>4, <1>13 DEF Suspend, Activate
<1> QED BY <1>7, <1>8, <1>9, <1>10, <1>11, <1>12, <1>13 DEF Next

-----------------------------------------------------------------------------
(* Every token issued was asked for.                                         *)

(* A set no larger than its image: what is left of the sign-ins that wait.   *)
LEMMA NoMorePending ==
  ASSUME LoginsCounted, NEW f, NEW T,
         \A d \in T : \E c \in PendingLogins : d = f[c]
  PROVE  IsFiniteSet(T) /\ Cardinality(T) <= Cardinality(PendingLogins)
<1> DEFINE U == {c \in PendingLogins : f[c] \in T}
           g == [c \in U |-> f[c]]
<1>1. IsFiniteSet(U) /\ Cardinality(U) <= Cardinality(PendingLogins)
  <2>1. U \in SUBSET PendingLogins
    OBVIOUS
  <2> HIDE DEF U
  <2> QED BY <2>1, FS_Subset DEF LoginsCounted
<1>2. g \in Surjection(U, T)
  BY DEF Surjection
<1> HIDE DEF g, U
<1>3. IsFiniteSet(T) /\ Cardinality(T) <= Cardinality(U)
  BY <1>1, <1>2, FS_Surjection
<1>4. Cardinality(T) \in Nat /\ Cardinality(U) \in Nat /\ Cardinality(PendingLogins) \in Nat
  BY <1>1, <1>3, FS_CardinalityType DEF LoginsCounted
<1> QED BY <1>1, <1>3, <1>4

(* A step asks for one sign-in more, or for none, and the backend issues a   *)
(* token for one that waits.                                                 *)
LEMMA StepCounted == IndInv /\ [Next]_vars => LoginsCounted'
<1> SUFFICES ASSUME IndInv, [Next]_vars PROVE LoginsCounted'
  OBVIOUS
<1>1. LoginsCounted /\ CallsOK /\ issued \in Nat
  BY DEF IndInv, TypeOK
<1>2. /\ IsFiniteSet(PendingLogins) /\ Cardinality(PendingLogins) \in Nat
      /\ asks \in Nat /\ MaxAsks \in Nat /\ asks <= MaxAsks
      /\ issued + Cardinality(PendingLogins) <= asks
  BY <1>1, FS_CardinalityType, SignInAssumption DEF LoginsCounted
<1>3. ASSUME IsFiniteSet(PendingLogins'), Cardinality(PendingLogins') <= Cardinality(PendingLogins),
             issued' = issued, asks' = asks \/ Ask
      PROVE  LoginsCounted'
  <2>1. Cardinality(PendingLogins') \in Nat
    BY <1>3, FS_CardinalityType
  <2> QED BY <1>1, <1>2, <1>3, <2>1 DEF LoginsCounted, Ask
<1>4. ASSUME PendingLogins' \subseteq PendingLogins, issued' = issued, asks' = asks \/ Ask
      PROVE  LoginsCounted'
  <2>1. PendingLogins' \in SUBSET PendingLogins
    BY <1>4
  <2> QED BY <1>2, <1>3, <1>4, <2>1, FS_Subset
<1>6. ASSUME NEW t, NEW S, S \subseteq calls, issued' = issued, asks' = asks \/ Ask,
             \/ calls' = {[c EXCEPT !.form = @ /\ c.tab # t] : c \in S}
             \/ calls' = {[c EXCEPT !.here = @ /\ c.tab # t] : c \in S}
      PROVE  LoginsCounted'
  <2>1. CASE calls' = {[c EXCEPT !.form = @ /\ c.tab # t] : c \in S}
    <3> DEFINE f == [c \in calls |-> [c EXCEPT !.form = @ /\ c.tab # t]]
    <3>1. ASSUME NEW d \in PendingLogins' PROVE \E c \in PendingLogins : d = f[c]
      <4>1. PICK c \in S : d = [c EXCEPT !.form = @ /\ c.tab # t]
        BY <2>1, <3>1 DEF PendingLogins
      <4>2. c \in calls /\ d.kind = c.kind /\ d.done = c.done
        BY <1>1, <1>6, <4>1 DEF CallsOK, Calls
      <4> QED BY <4>1, <4>2 DEF PendingLogins
    <3> HIDE DEF f
    <3> QED BY <1>1, <1>3, <1>6, <3>1, NoMorePending
  <2>2. CASE calls' = {[c EXCEPT !.here = @ /\ c.tab # t] : c \in S}
    <3> DEFINE f == [c \in calls |-> [c EXCEPT !.here = @ /\ c.tab # t]]
    <3>1. ASSUME NEW d \in PendingLogins' PROVE \E c \in PendingLogins : d = f[c]
      <4>1. PICK c \in S : d = [c EXCEPT !.here = @ /\ c.tab # t]
        BY <2>2, <3>1 DEF PendingLogins
      <4>2. c \in calls /\ d.kind = c.kind /\ d.done = c.done
        BY <1>1, <1>6, <4>1 DEF CallsOK, Calls
      <4> QED BY <4>1, <4>2 DEF PendingLogins
    <3> HIDE DEF f
    <3> QED BY <1>1, <1>3, <1>6, <3>1, NoMorePending
  <2> QED BY <1>6, <2>1, <2>2
<1>7. ASSUME NEW c, Send(c) PROVE LoginsCounted'
  <2>1. PendingLogins' \subseteq PendingLogins \cup {c}
    BY <1>7 DEF Send, PendingLogins
  <2>2. /\ IsFiniteSet(PendingLogins \cup {c})
        /\ Cardinality(PendingLogins \cup {c}) <= Cardinality(PendingLogins) + 1
    BY <1>2, FS_AddElement
  <2>3. PendingLogins' \in SUBSET (PendingLogins \cup {c})
    BY <2>1
  <2>4. /\ IsFiniteSet(PendingLogins')
        /\ Cardinality(PendingLogins') <= Cardinality(PendingLogins \cup {c})
    BY <2>2, <2>3, FS_Subset
  <2>5. Cardinality(PendingLogins') \in Nat /\ Cardinality(PendingLogins \cup {c}) \in Nat
    BY <2>2, <2>4, FS_CardinalityType
  <2>6. issued' = issued /\ asks < MaxAsks /\ asks' = asks + 1
    BY <1>7 DEF Send, Ask, backend
  <2> QED BY <1>1, <1>2, <2>2, <2>4, <2>5, <2>6 DEF LoginsCounted
<1>8. ASSUME NEW t \in Tabs, Reader(t) PROVE LoginsCounted'
  <2>1. CASE Visit(t) \/ OpenSignup(t) \/ BackToLogin(t)
    <3>1. calls' = {[c EXCEPT !.form = @ /\ c.tab # t] : c \in calls} /\ issued' = issued /\ Ask
      BY <2>1 DEF Visit, OpenSignup, BackToLogin, Follow, Go, backend
    <3> QED BY <1>6, <3>1
  <2> QED BY <1>7, <1>8, <2>1 DEF Reader, SignOut, SubmitLogin, SubmitSignup, SubmitPassword,
                                  SubmitDecision
<1>9. ASSUME NEW t \in Tabs, Effects(t) PROVE LoginsCounted'
  <2>1. CASE GateEffect(t) \/ LoginEffect(t)
    <3>1. calls' \subseteq calls \cup {Request(t, "load", Nobody, TRUE)} /\ issued' = issued /\ asks' = asks
      BY <2>1 DEF GateEffect, LoginEffect, backend
    <3>2. PendingLogins' \subseteq PendingLogins
      BY <3>1 DEF PendingLogins, Request
    <3> QED BY <1>4, <3>1, <3>2
  <2>2. CASE SignupTimer(t)
    <3>1. calls' = {[c EXCEPT !.form = @ /\ c.tab # t] : c \in calls} /\ issued' = issued /\ asks' = asks
      BY <2>2 DEF SignupTimer, Go, backend
    <3> QED BY <1>6, <3>1
  <2> QED BY <1>9, <2>1, <2>2 DEF Effects
<1>10. ASSUME NEW c \in calls, NEW status, NEW sets, calls' = Answered(c, status, sets)
       PROVE  PendingLogins' \subseteq PendingLogins \ {c}
  <2>1. ([c EXCEPT !.done = TRUE, !.status = status, !.sets = sets]).done = TRUE
    BY <1>1 DEF CallsOK, Calls
  <2> QED BY <1>10, <2>1 DEF Answered, PendingLogins
<1>11. ASSUME NEW t \in Tabs, ServeSome(t) PROVE LoginsCounted'
  <2>1. PICK c \in calls : Serve(c)
    BY <1>11 DEF ServeSome
  <2>2. asks' = asks /\ ~c.done
    BY <2>1 DEF Serve
  <2>3. PendingLogins' \subseteq PendingLogins \ {c}
    <3>1. \E status, sets : calls' = Answered(c, status, sets)
      BY <2>1 DEF Serve, ServeLogin, ServeLogout, ServeSignup, ServePassword, ServeDecision,
                  ServeLoad, Refuse
    <3> QED BY <1>10, <3>1
  <2>4. CASE issued' = issued
    BY <1>4, <2>2, <2>3, <2>4
  <2>5. CASE c.kind = "login" /\ issued' = issued + 1
    <3>1. c \in PendingLogins
      BY <2>2, <2>5 DEF PendingLogins
    <3>2. IsFiniteSet(PendingLogins \ {c}) /\ Cardinality(PendingLogins \ {c}) = Cardinality(PendingLogins) - 1
      BY <1>2, <3>1, FS_RemoveElement
    <3>3. PendingLogins' \in SUBSET (PendingLogins \ {c})
      BY <2>3
    <3>4. IsFiniteSet(PendingLogins') /\ Cardinality(PendingLogins') <= Cardinality(PendingLogins \ {c})
      BY <3>2, <3>3, FS_Subset
    <3>5. Cardinality(PendingLogins') \in Nat
      BY <3>4, FS_CardinalityType
    <3> QED BY <1>1, <1>2, <2>2, <2>5, <3>2, <3>4, <3>5 DEF LoginsCounted
  <2> QED BY <2>1, <2>4, <2>5 DEF Serve, ServeLogin, ServeLogout, ServeSignup, ServePassword,
                                  ServeDecision, ServeLoad, Refuse, backend
<1>12. ASSUME NEW t \in Tabs, AnswerSome(t) PROVE LoginsCounted'
  <2>1. PICK c \in calls : Hear(c) \/ Answer(c) \/ AnswerNobody(c)
    BY <1>12 DEF AnswerSome
  <2>2. issued' = issued /\ asks' = asks
    BY <2>1 DEF Hear, Answer, AnswerNobody, backend
  <2>3. ASSUME LoadAnew(c) PROVE LoginsCounted'
    <3>1. calls \ {c} \subseteq calls /\ calls' = {[e EXCEPT !.here = @ /\ e.tab # c.tab] : e \in calls \ {c}}
      BY <2>3 DEF LoadAnew
    <3> QED BY <1>6, <2>2, <3>1
  <2>4. ASSUME Finish(c) \/ AnswerNobody(c) PROVE LoginsCounted'
    BY <1>4, <2>2, <2>4 DEF Finish, AnswerNobody, PendingLogins
  <2>5. CASE Hear(c)
    <3>1. ([c EXCEPT !.heard = TRUE]).done = TRUE
      BY <1>1, <2>5 DEF Hear, CallsOK, Calls
    <3>2. PendingLogins' \subseteq PendingLogins
      BY <2>5, <3>1 DEF Hear, PendingLogins
    <3> QED BY <1>4, <2>2, <3>2
  <2> QED BY <2>1, <2>3, <2>4, <2>5
       DEF Answer, AnswerRefused, AnswerLogin, AnswerLogout, AnswerSignup, AnswerOther
<1>13. ASSUME NEW c \in calls, Lose(c) PROVE LoginsCounted'
  BY <1>4, <1>10, <1>13 DEF Lose, backend
<1>14. CASE UNCHANGED vars \/ \E n \in Tokens : SessionEnds(n)
  BY <1>4, <1>14 DEF vars, SessionEnds, PendingLogins
<1>15. ASSUME NEW a \in Customers, Suspend(a) \/ Activate(a) PROVE LoginsCounted'
  BY <1>4, <1>15 DEF Suspend, Activate, PendingLogins
<1> QED BY <1>8, <1>9, <1>11, <1>12, <1>13, <1>14, <1>15 DEF Next

-----------------------------------------------------------------------------
(* The markers and the cookie.                                               *)

\* Two parts of TypeOK: what the tabs show, and what the browser stores.
Pages ==
  place \in [Tabs -> Places] /\ busy \in [Tabs -> BOOLEAN] /\ timer \in [Tabs -> BOOLEAN]
Markers ==
  /\ marker \in [Apps -> Accounts \cup {Nobody}] /\ marker["staff"] \in Staff \cup {Nobody}
  /\ cookie \in 0 .. issued
  /\ setBy \in Apps \cup {"nobody", "crossed"} /\ cleared \in [Apps -> Reasons]

(* Every variable keeps its type.                                            *)
LEMMA StepTypes == IndInv /\ [Next]_vars => TypeOK'
<1> SUFFICES ASSUME IndInv, [Next]_vars PROVE TypeOK'
  OBVIOUS
<1>1. TypeOK /\ CallsOK /\ LoginsCounted
  BY DEF IndInv
<1>2. SessionsOnlyEnd /\ CallsOK' /\ LoginsCounted'
  BY StepSessions, StepCalls, StepCounted
<1>3. \A c \in calls' : c.tab \in Tabs /\ c.status \in {0, 200, 201, 400, 401, 403, 409}
  BY <1>2 DEF CallsOK, Calls, Statuses
<1>4. issued' \in 0 .. MaxAsks
  <2>1. Cardinality(PendingLogins)' \in Nat
    BY <1>2, FS_CardinalityType DEF LoginsCounted
  <2>2. issued' \in Nat /\ MaxAsks \in Nat
    BY <1>2, SignInAssumption DEF SessionsOnlyEnd
  <2> QED BY <1>2, <2>1, <2>2 DEF LoginsCounted
<1>5. /\ cookie \in 0 .. issued' /\ \A t \in Tabs : App(t) \in Apps
  BY <1>1, <1>2 DEF TypeOK, SessionsOnlyEnd, App, Apps
<1>6. /\ sessions' \in [Tokens -> Accounts \cup {Nobody}] /\ registered' \subseteq Accounts
      /\ suspended' \in [Customers -> {"never", "now", "lifted"}]
  <2> DEFINE Good == /\ sessions' \in [Tokens -> Accounts \cup {Nobody}] /\ registered' \subseteq Accounts
                     /\ suspended' \in [Customers -> {"never", "now", "lifted"}]
  <2>1. ASSUME UNCHANGED <<sessions, suspended, registered>> PROVE Good
    BY <1>1, <2>1 DEF TypeOK
  <2>2. ASSUME NEW c \in calls, Serve(c)
        PROVE  Good
    <3>1. c.account \in Accounts \cup {Nobody}
      BY <1>1 DEF CallsOK, Calls
    <3>2. CASE ServeLogin(c)
      BY <1>1, <2>1, <3>1, <3>2 DEF TypeOK, ServeLogin, Refuse, backend
    <3>3. CASE ServeLogout(c) \/ ServePassword(c)
      BY <1>1, <2>1, <3>3 DEF TypeOK, ServeLogout, ServePassword, Refuse, backend
    <3>4. CASE ServeSignup(c)
      <4>1. c.account \in Accounts
        BY <1>1, <3>4 DEF CallsOK, AnswerFits, ServeSignup, Accounts
      <4> QED BY <1>1, <2>1, <3>4, <4>1 DEF TypeOK, ServeSignup, Refuse, backend
    <3>5. CASE ServeDecision(c) \/ ServeLoad(c)
      BY <2>1, <3>5 DEF ServeDecision, ServeLoad, Refuse, backend
    <3> QED BY <2>2, <3>2, <3>3, <3>4, <3>5 DEF Serve
  <2>3. ASSUME NEW n \in Tokens, SessionEnds(n)
        PROVE  Good
    BY <1>1, <2>3 DEF SessionEnds, TypeOK
  <2>4. ASSUME NEW t \in Tabs, Reader(t) \/ Effects(t) \/ AnswerSome(t)
        PROVE  UNCHANGED <<sessions, suspended, registered>>
    <3>1. CASE Reader(t)
      BY <3>1 DEF Reader, Visit, OpenSignup, BackToLogin, SignOut, SubmitLogin, SubmitSignup,
                  SubmitPassword, SubmitDecision, Follow, Send, backend
    <3>2. CASE Effects(t)
      BY <3>2 DEF Effects, GateEffect, LoginEffect, SignupTimer, backend
    <3>3. CASE AnswerSome(t)
      BY <3>3 DEF AnswerSome, Hear, Answer, AnswerNobody, backend
    <3> QED BY <2>4, <3>1, <3>2, <3>3
  <2>5. ASSUME NEW a \in Customers, Suspend(a) \/ Activate(a) PROVE Good
    BY <1>1, <2>5 DEF Suspend, Activate, TypeOK
  <2> QED BY <2>1, <2>2, <2>3, <2>4, <2>5 DEF Next, vars, ServeSome, Lose, backend
<1>7. ASSUME UNCHANGED <<marker, cookie, setBy, cleared>> PROVE Markers'
  BY <1>1, <1>5, <1>7 DEF TypeOK, Markers
<1>9. ASSUME NEW t \in Tabs, Reader(t) PROVE Pages' /\ Markers'
  <2>1. CASE Visit(t) \/ OpenSignup(t) \/ BackToLogin(t)
    <3>1. PICK p \in Places : Go(t, p)
      BY <2>1 DEF Visit, OpenSignup, BackToLogin, Follow, Places
    <3>2. UNCHANGED <<timer, marker, cookie, setBy, cleared>>
      BY <2>1 DEF Visit, OpenSignup, BackToLogin, Follow
    <3> QED BY <1>1, <1>7, <3>1, <3>2 DEF Go, TypeOK, Pages
  <2>2. ASSUME NEW c, c.tab \in Tabs, Send(c) PROVE Pages' /\ Markers'
    <3>1. UNCHANGED <<place, timer, marker, cookie, setBy, cleared>>
      BY <2>2 DEF Send
    <3>2. busy' \in [Tabs -> BOOLEAN]
      BY <1>1, <2>2 DEF Send, TypeOK
    <3> QED BY <1>1, <1>7, <3>1, <3>2 DEF TypeOK, Pages
  <2>3. \A kind, a, right : Request(t, kind, a, right).tab \in Tabs
    BY DEF Request
  <2> QED BY <1>9, <2>1, <2>2, <2>3 DEF Reader, SignOut, SubmitLogin, SubmitSignup,
                                  SubmitPassword, SubmitDecision
<1>10. ASSUME NEW t \in Tabs, Effects(t) PROVE Pages' /\ Markers'
  <2>1. UNCHANGED <<marker, cookie, setBy, cleared>>
    BY <1>10 DEF Effects, GateEffect, LoginEffect, SignupTimer
  <2>2. Pages'
    <3>1. CASE GateEffect(t)
      BY <1>1, <3>1 DEF GateEffect, TypeOK, Pages, Places
    <3>2. CASE LoginEffect(t)
      BY <1>1, <3>2 DEF LoginEffect, TypeOK, Pages, Places
    <3>3. CASE SignupTimer(t)
      BY <1>1, <3>3 DEF SignupTimer, Go, TypeOK, Pages, Places
    <3> QED BY <1>10, <3>1, <3>2, <3>3 DEF Effects
  <2> QED BY <1>7, <2>1, <2>2
<1>11. ASSUME NEW t \in Tabs, AnswerSome(t) PROVE Pages' /\ Markers'
  <2>1. PICK c \in calls : c.tab = t /\ (Hear(c) \/ Answer(c) \/ AnswerNobody(c))
    BY <1>11 DEF AnswerSome
  <2>2. /\ c.tab \in Tabs /\ App(c.tab) \in Apps /\ c.account \in Accounts \cup {Nobody}
        /\ c.form \in BOOLEAN /\ AnswerFits(c)
    BY <1>1, <1>5 DEF CallsOK, Calls
  <2>4. ASSUME UNCHANGED <<cookie, setBy>>
        PROVE  cookie' \in 0 .. issued' /\ setBy' \in Apps \cup {"nobody", "crossed"}
    BY <1>1, <1>5, <2>4 DEF TypeOK
  <2>5. ASSUME Finish(c) PROVE busy' \in [Tabs -> BOOLEAN]
    BY <1>1, <2>5 DEF Finish, TypeOK
  <2>6. ASSUME LoadAnew(c) PROVE Pages'
    BY <1>1, <2>6 DEF LoadAnew, TypeOK, Pages, Places
  <2>7. ASSUME NEW why \in Reasons, Cleared(App(c.tab), why)
        PROVE  /\ marker' \in [Apps -> Accounts \cup {Nobody}] /\ marker'["staff"] \in Staff \cup {Nobody}
               /\ cleared' \in [Apps -> Reasons]
    BY <1>1, <2>2, <2>7 DEF Cleared, TypeOK, Apps
  <2>8. CASE AnswerRefused(c) /\ Answer(c)
    <3>1. WhyRefused(c) \in Reasons
      BY DEF WhyRefused, Reasons
    <3>2. Markers'
      BY <2>4, <2>7, <2>8, <3>1 DEF AnswerRefused, Markers
    <3>3. Pages'
      BY <1>1, <2>5, <2>6, <2>8 DEF AnswerRefused, TypeOK, Pages
    <3> QED BY <3>2, <3>3
  <2>9. CASE AnswerLogin(c) /\ Answer(c)
    <3>1. c.account \in Accounts
      BY <2>2, <2>9 DEF AnswerLogin, AnswerFits, LoginFits
    <3>2. c.tab \notin StaffTabs => App(c.tab) = "dashboard"
      BY <2>2 DEF App, Tabs
    <3>3. /\ marker' \in [Apps -> Accounts \cup {Nobody}] /\ marker'["staff"] \in Staff \cup {Nobody}
      BY <1>1, <2>2, <2>9, <3>1, <3>2 DEF AnswerLogin, Denied, TypeOK, Apps
    <3>4. Markers'
      BY <1>1, <2>4, <2>9, <3>3 DEF AnswerLogin, TypeOK, Markers
    <3>5. Pages'
      BY <1>1, <2>2, <2>5, <2>9 DEF AnswerLogin, TypeOK, Pages, Places
    <3> QED BY <3>4, <3>5
  <2>10. CASE AnswerLogout(c) /\ Answer(c)
    <3>1. {"signed out", "lost"} \subseteq Reasons
      BY DEF Reasons
    <3>2. /\ marker' \in [Apps -> Accounts \cup {Nobody}] /\ marker'["staff"] \in Staff \cup {Nobody}
          /\ cleared' \in [Apps -> Reasons]
      BY <2>7, <2>10, <3>1 DEF AnswerLogout
    <3>3. Markers'
      BY <2>4, <2>10, <3>2 DEF AnswerLogout, Markers
    <3> QED BY <2>6, <2>10, <3>3 DEF AnswerLogout
  <2>11. CASE AnswerSignup(c) /\ Answer(c)
    BY <1>1, <1>7, <2>2, <2>5, <2>11 DEF AnswerSignup, TypeOK, Pages, Places
  <2>12. CASE AnswerOther(c) /\ Answer(c)
    BY <1>1, <1>7, <2>5, <2>12 DEF AnswerOther, TypeOK, Pages
  <2>13. CASE AnswerNobody(c)
    BY <1>1, <1>7, <2>13 DEF AnswerNobody, browser, TypeOK, Pages
  <2>14. CASE Hear(c)
    <3>1. Pages'
      BY <1>1, <2>14 DEF Hear, TypeOK, Pages
    <3>2. issued' = issued /\ issued \in Nat
      BY <1>1, <2>14 DEF Hear, backend, TypeOK
    <3>3. \A n \in c.sets : n \in Nat /\ n <= issued
      BY <1>1, <2>2, <2>14 DEF Hear, AnswerFits, CallsOK, Calls
    <3>4. cookie' \in 0 .. issued'
      BY <2>14, <3>2, <3>3 DEF Hear
    <3>5. setBy' \in Apps \cup {"nobody", "crossed"}
      BY <2>2, <2>14 DEF Hear
    <3>6. Markers'
      BY <1>1, <2>14, <3>4, <3>5 DEF Hear, TypeOK, Markers
    <3> QED BY <3>1, <3>6
  <2> QED BY <2>1, <2>8, <2>9, <2>10, <2>11, <2>12, <2>13, <2>14 DEF Answer
<1>12. ASSUME UNCHANGED browser PROVE Pages' /\ Markers'
  BY <1>1, <1>7, <1>12 DEF browser, TypeOK, Pages
<1>14. ASSUME NEW c \in calls, Lose(c) PROVE Pages' /\ Markers'
  <2>1. setBy' \in Apps \cup {"nobody", "crossed"}
    BY <1>1, <1>14 DEF Lose, TypeOK
  <2> QED BY <1>1, <1>5, <1>14, <2>1 DEF Lose, TypeOK, Pages, Markers
<1>13. Pages' /\ Markers'
  BY <1>9, <1>10, <1>11, <1>12, <1>14
     DEF Next, vars, browser, ServeSome, Serve, SessionEnds, Suspend, Activate
<1> QED BY <1>3, <1>4, <1>6, <1>13 DEF TypeOK, Pages, Markers

\* A step that leaves the markers and the cookie alone, and ends sessions only.
Undisturbed == UNCHANGED <<marker, cookie, setBy, cleared>>

(* Only the browser's side of an answer touches the markers and the cookie.  *)
LEMMA OnlyAnswersDisturb ==
  ASSUME [Next]_vars
  PROVE  \/ Undisturbed
         \/ \E c \in calls :
              \/ Hear(c)
              \/ Lose(c) /\ Settling(c) /\ setBy' = "nobody"
              \/ Answer(c) /\ (AnswerRefused(c) \/ AnswerLogin(c) \/ AnswerLogout(c))
<1>1. ASSUME NEW t \in Tabs, Reader(t) \/ Effects(t) \/ ServeSome(t) PROVE Undisturbed
  <2>1. CASE Reader(t)
    BY <2>1 DEF Reader, Visit, OpenSignup, BackToLogin, SignOut, SubmitLogin, SubmitSignup,
                SubmitPassword, SubmitDecision, Follow, Send, Undisturbed
  <2>2. CASE Effects(t)
    BY <2>2 DEF Effects, GateEffect, LoginEffect, SignupTimer, Undisturbed
  <2>3. CASE ServeSome(t)
    BY <2>3 DEF ServeSome, Serve, browser, Undisturbed
  <2> QED BY <1>1, <2>1, <2>2, <2>3
<1>2. CASE \/ \E n \in Tokens : SessionEnds(n)
           \/ \E a \in Customers : Suspend(a) \/ Activate(a)
           \/ UNCHANGED vars
  BY <1>2 DEF SessionEnds, Suspend, Activate, vars, browser, Undisturbed
<1>3. ASSUME NEW c \in calls, Lose(c)
      PROVE  Undisturbed \/ (Settling(c) /\ setBy' = "nobody")
  BY <1>3 DEF Lose, Undisturbed
<1>4. ASSUME NEW t \in Tabs, AnswerSome(t)
      PROVE  \/ Undisturbed
             \/ \E c \in calls :
                  \/ Hear(c)
                  \/ Answer(c) /\ (AnswerRefused(c) \/ AnswerLogin(c) \/ AnswerLogout(c))
  <2>1. PICK c \in calls : Hear(c) \/ Answer(c) \/ AnswerNobody(c)
    BY <1>4 DEF AnswerSome
  <2>2. CASE Answer(c) /\ (AnswerSignup(c) \/ AnswerOther(c))
    BY <2>2 DEF AnswerSignup, AnswerOther, Undisturbed
  <2>3. CASE AnswerNobody(c)
    BY <2>3 DEF AnswerNobody, browser, Undisturbed
  <2> QED BY <2>1, <2>2, <2>3 DEF Answer
<1> QED BY <1>1, <1>2, <1>3, <1>4 DEF Next

(* The cookie's session stays its account's, or ends.                        *)
LEMMA SameSession ==
  ASSUME TypeOK, SessionsOnlyEnd, cookie' = cookie
  PROVE  Holder(cookie)' \in {Holder(cookie), Nobody}
<1>1. cookie \in 0 .. issued /\ issued \in Nat
  BY DEF TypeOK
<1> QED BY <1>1 DEF Holder, SessionsOnlyEnd

(* The cookie a sign-in brings is one, and names its account's session.      *)
LEMMA LoginCookie ==
  ASSUME CallsOK, NEW c \in calls, c.kind = "login", c.sets # {}
  PROVE  /\ c.status = 200 /\ c.account \in Accounts
         /\ \E n \in 1 .. issued :
              c.sets = {n} /\ sessions[n] \in {Nobody, c.account}
BY DEF CallsOK, AnswerFits, LoginFits

(* A script that has yet to run is that of the sign-in that brought the      *)
(* cookie, on the front end the cookie came from.                            *)
LEMMA StepSettling == IndInv /\ [Next]_vars => SettlingFits'
<1> SUFFICES ASSUME IndInv, [Next]_vars,
                    NEW d \in calls', Settling(d), setBy' = App(d.tab)
             PROVE  d.kind = "login" /\ ~Denied(d) /\ d.sets = {cookie'}
  BY DEF SettlingFits, Settling, Denied, App
<1>1. TypeOK /\ CallsOK /\ SettlingFits
  BY DEF IndInv
<1>2. PICK c \in calls : (Settling(c) \/ Hear(c)) /\ Same(d, c)
  BY StepCalls DEF Comes
<1>3. App(c.tab) = App(d.tab) /\ (Denied(d) <=> Denied(c)) /\ App(d.tab) \in Apps
  BY <1>2 DEF Same, App, Denied, Apps
<1>4. CASE Hear(c)
  <2>1. c.kind \in {"login", "logout"} /\ c.sets # {} /\ cookie' \in c.sets
    BY <1>1, <1>4 DEF Hear, CallsOK, AnswerFits
  <2>2. ~Denied(c) /\ c.kind # "logout"
    BY <1>3, <1>4 DEF Hear, Apps
  <2>3. c.sets = {cookie'}
    BY <1>1, <2>1, <2>2, LoginCookie
  <2> QED BY <1>2, <1>3, <2>1, <2>2, <2>3 DEF Same
<1>5. CASE Settling(c) /\ UNCHANGED <<cookie, setBy>>
  BY <1>1, <1>2, <1>3, <1>5 DEF SettlingFits, Same
<1>6. ASSUME NEW e \in calls, Hear(e), Settling(c) PROVE FALSE
  <2>1. setBy' = App(c.tab) /\ setBy' \in Apps
    BY <1>3
  <2>2. setBy' = App(e.tab) /\ ~Unsettled(App(e.tab))
    BY <1>6, <2>1 DEF Hear, Apps
  <2> QED BY <1>6, <2>1, <2>2 DEF Unsettled
<1>7. ASSUME setBy' = "nobody" PROVE FALSE
  BY <1>3, <1>7 DEF Apps
<1>8. ASSUME NEW e, AnswerRefused(e) \/ AnswerLogin(e) \/ AnswerLogout(e)
      PROVE  UNCHANGED <<cookie, setBy>>
  BY <1>8 DEF AnswerRefused, AnswerLogin, AnswerLogout
<1> QED BY <1>2, <1>4, <1>5, <1>6, <1>7, <1>8, OnlyAnswersDisturb DEF Undisturbed

(* A script that has yet to run still has to after a step, unless an answer   *)
(* to its front end is handled in the step or its own is lost.               *)
LEMMA StaysUnsettled ==
  ASSUME IndInv, [Next]_vars, NEW app, Unsettled(app), ~Unsettled(app)'
  PROVE  \/ setBy' = "nobody"
         \/ \E c \in calls :
              /\ App(c.tab) = app /\ Answer(c)
              /\ AnswerRefused(c) \/ AnswerLogin(c) \/ AnswerLogout(c)
<1> DEFINE Handled == \E c \in calls :
                        /\ App(c.tab) = app /\ Answer(c)
                        /\ AnswerRefused(c) \/ AnswerLogin(c) \/ AnswerLogout(c)
<1>1. PICK e \in calls : Settling(e) /\ App(e.tab) = app
  BY DEF Unsettled
<1>2. /\ e \in Calls /\ e.done /\ e.heard /\ e.here /\ e.status = 200
      /\ e.kind \in {"login", "logout"}
  BY <1>1 DEF IndInv, CallsOK, AnswerFits, Settling
<1>3. ASSUME NEW d \in calls', d.tab = e.tab, d.heard, d.here, d.status = 200
      PROVE  FALSE
  BY <1>1, <1>3 DEF Unsettled, Settling
<1>4. e \notin calls'
  BY <1>2, <1>3
<1>5. ASSUME NEW t, calls' = {[c EXCEPT !.form = @ /\ c.tab # t] : c \in calls} PROVE FALSE
  <2> DEFINE d == [e EXCEPT !.form = @ /\ e.tab # t]
  <2>1. d \in calls'
    BY <1>5
  <2>2. d.tab = e.tab /\ d.heard /\ d.here /\ d.status = 200
    BY <1>2 DEF Calls
  <2> HIDE DEF d
  <2> QED BY <1>3, <2>1, <2>2
<1>6. ASSUME NEW t \in Tabs, Reader(t) \/ Effects(t) PROVE FALSE
  <2>1. CASE Visit(t) \/ OpenSignup(t) \/ BackToLogin(t) \/ SignupTimer(t)
    BY <1>5, <2>1 DEF Visit, OpenSignup, BackToLogin, SignupTimer, Follow, Go
  <2>2. ASSUME NEW c, Send(c) PROVE FALSE
    BY <1>4, <2>2 DEF Send
  <2>3. CASE GateEffect(t) \/ LoginEffect(t)
    BY <1>4, <2>3 DEF GateEffect, LoginEffect
  <2> QED BY <1>6, <2>1, <2>2, <2>3 DEF Reader, Effects, SignOut, SubmitLogin, SubmitSignup,
                                        SubmitPassword, SubmitDecision
<1>7. ASSUME NEW t \in Tabs, ServeSome(t) PROVE FALSE
  <2>1. PICK c \in calls : Serve(c)
    BY <1>7 DEF ServeSome
  <2>2. c # e
    BY <1>2, <2>1 DEF Serve
  <2> QED BY <1>4, <2>1, <2>2 DEF Serve, ServeLogin, ServeLogout, ServeSignup, ServePassword,
                                  ServeDecision, ServeLoad, Refuse, Answered
<1>8. ASSUME NEW c \in calls, Lose(c) PROVE setBy' = "nobody"
  BY <1>1, <1>4, <1>8 DEF Lose, Answered
<1>9. ASSUME NEW c \in calls, LoadAnew(c), c.tab # e.tab PROVE FALSE
  <2> DEFINE d == [e EXCEPT !.here = @ /\ e.tab # c.tab]
  <2>1. d \in calls'
    BY <1>9 DEF LoadAnew
  <2>2. d.tab = e.tab /\ d.heard /\ d.here /\ d.status = 200
    BY <1>2, <1>9 DEF Calls
  <2> HIDE DEF d
  <2> QED BY <1>3, <2>1, <2>2
<1>10. ASSUME NEW c \in calls, Hear(c) \/ AnswerNobody(c) PROVE FALSE
  BY <1>2, <1>4, <1>10 DEF Hear, AnswerNobody
<1>11. ASSUME NEW c \in calls, Finish(c) PROVE c = e
  BY <1>4, <1>11 DEF Finish
<1>12. ASSUME NEW c \in calls, Answer(c) PROVE Handled
  <2>1. CASE AnswerSignup(c) \/ AnswerOther(c)
    <3>1. c = e
      BY <1>11, <2>1 DEF AnswerSignup, AnswerOther
    <3> QED BY <1>2, <2>1, <3>1 DEF AnswerSignup, AnswerOther
  <2>2. CASE AnswerRefused(c) \/ AnswerLogin(c) \/ AnswerLogout(c)
    <3>1. c.tab = e.tab
      BY <1>9, <1>11, <2>2 DEF AnswerRefused, AnswerLogin, AnswerLogout
    <3> QED BY <1>1, <1>12, <2>2, <3>1
  <2> QED BY <1>12, <2>1, <2>2 DEF Answer
<1>13. ASSUME NEW t \in Tabs, AnswerSome(t) PROVE Handled
  <2> HIDE DEF Handled
  <2> QED BY <1>10, <1>12, <1>13 DEF AnswerSome
<1>14. CASE \/ UNCHANGED vars \/ \E n \in Tokens : SessionEnds(n)
            \/ \E a \in Customers : Suspend(a) \/ Activate(a)
  BY <1>4, <1>14 DEF vars, SessionEnds, Suspend, Activate
<1> QED BY <1>6, <1>7, <1>8, <1>13, <1>14 DEF Next

(* The marker of the front end the cookie came from is that of its session;  *)
(* it is removed beside a live session for the four reasons only.            *)
LEMMA StepAgrees == IndInv /\ [Next]_vars => MarkersAgree'
<1> SUFFICES ASSUME IndInv, [Next]_vars, NEW app \in Apps,
                    setBy' = app, ~Unsettled(app)', Holder(cookie)' # Nobody
             PROVE  IF IsLoggedIn(app)' THEN marker'[app] = Holder(cookie)'
                    ELSE cleared'[app] \in {"lost", "wrong", "late", "suspended"}
  BY DEF MarkersAgree, Agrees
<1>1. /\ TypeOK /\ CallsOK /\ SettlingFits /\ MarkersAgree /\ SessionsOnlyEnd
      /\ Nobody \notin Accounts
  BY SignInAssumption, StepSessions DEF IndInv
<1>2. ASSUME NEW c \in calls, App(c.tab) = app, Answer(c),
             AnswerRefused(c) \/ AnswerLogin(c) \/ AnswerLogout(c)
      PROVE  IF IsLoggedIn(app)' THEN marker'[app] = Holder(cookie)'
             ELSE cleared'[app] \in {"lost", "wrong", "late", "suspended"}
  <2>1. /\ cookie' = cookie /\ setBy = app /\ sessions' = sessions
        /\ c \in Calls /\ AnswerFits(c)
    BY <1>1, <1>2 DEF AnswerRefused, AnswerLogin, AnswerLogout, Answer, backend, CallsOK
  <2>2. Holder(cookie)' = Holder(cookie)
    BY <2>1 DEF Holder
  <2>3. c.sets # {} /\ c.status = 200 => Settling(c)
    BY <1>2 DEF Answer, Settling
  <2>4. ASSUME NEW why, Cleared(app, why)
        PROVE  ~IsLoggedIn(app)' /\ cleared'[app] = why
    BY <1>1, <2>4 DEF Cleared, IsLoggedIn, TypeOK
  <2>5. CASE AnswerRefused(c)
    <3>1. WhyRefused(c) \in {"wrong", "late", "suspended"}
      <4>1. CASE c.right /\ c.kind # "login" /\ c.token = cookie
        <5>1. Holder(c.token) \in WasSuspended \cup {Nobody}
          BY <2>1, <2>5, <4>1 DEF AnswerRefused, AnswerFits, RefusalFits
        <5>2. Holder(c.token) \in WasSuspended
          BY <2>2, <4>1, <5>1
        <5> QED BY <4>1, <5>2 DEF WhyRefused
      <4>2. CASE ~(c.right /\ c.kind # "login" /\ c.token = cookie)
        BY <4>2 DEF WhyRefused
      <4> QED BY <4>1, <4>2
    <3>2. Cleared(app, WhyRefused(c))
      BY <1>2, <2>5 DEF AnswerRefused
    <3> QED BY <2>4, <3>1, <3>2
  <2>6. CASE AnswerLogin(c)
    <3>1. c.kind = "login" /\ c.status = 200 /\ LoginFits(c)
      BY <2>1, <2>6 DEF AnswerLogin, AnswerFits
    <3>2. PICK n \in 1 .. issued : c.sets = {n} /\ sessions[n] \in {Nobody, c.account}
      BY <3>1 DEF LoginFits
    <3>3. ~Denied(c) /\ c.sets = {cookie}
      BY <1>1, <1>2, <2>1, <2>3, <3>1, <3>2 DEF SettlingFits
    <3>4. cookie = n /\ n # 0
      <4>1. issued \in Nat
        BY <1>1 DEF TypeOK
      <4> QED BY <3>2, <3>3, <4>1
    <3>5. Holder(cookie) = c.account
      BY <2>2, <3>2, <3>4 DEF Holder
    <3>6. marker'[app] = c.account
      BY <1>1, <1>2, <2>6, <3>3 DEF AnswerLogin, TypeOK
    <3> QED BY <2>2, <3>5, <3>6 DEF IsLoggedIn
  <2>7. CASE AnswerLogout(c)
    <3>1. c.kind = "logout" /\ RefusalFits(c)
      BY <2>1, <2>7 DEF AnswerLogout, AnswerFits
    <3>2. c.status # 200
      BY <1>1, <1>2, <2>1, <2>3, <3>1 DEF RefusalFits, SettlingFits
    <3>3. Cleared(app, "lost")
      BY <1>2, <2>7, <3>2 DEF AnswerLogout
    <3> QED BY <2>4, <3>3
  <2> QED BY <1>2, <2>5, <2>6, <2>7
<1>3. ASSUME NEW c \in calls, Hear(c) PROVE FALSE
  <2>1. c \in Calls /\ c.here /\ c.status = 200 /\ App(c.tab) = app
    BY <1>1, <1>3 DEF Hear, CallsOK, AnswerFits, Apps
  <2> DEFINE d == [c EXCEPT !.heard = TRUE]
  <2>2. d \in calls'
    BY <1>3 DEF Hear
  <2>3. d.heard /\ d.here = c.here /\ d.status = c.status /\ d.tab = c.tab
    BY <2>1 DEF Calls
  <2> HIDE DEF d
  <2> QED BY <2>1, <2>2, <2>3 DEF Unsettled, Settling
<1>4. ASSUME ~\E c \in calls :
                /\ App(c.tab) = app /\ Answer(c)
                /\ AnswerRefused(c) \/ AnswerLogin(c) \/ AnswerLogout(c),
             UNCHANGED <<cookie, setBy>>, marker'[app] = marker[app], cleared'[app] = cleared[app]
      PROVE  IF IsLoggedIn(app)' THEN marker'[app] = Holder(cookie)'
             ELSE cleared'[app] \in {"lost", "wrong", "late", "suspended"}
  <2>1. ~Unsettled(app)
    BY <1>4, StaysUnsettled DEF Apps
  <2>2. Holder(cookie) # Nobody /\ Holder(cookie)' = Holder(cookie)
    BY <1>1, <1>4, SameSession
  <2>3. Agrees(app)
    BY <1>1 DEF MarkersAgree
  <2> QED BY <1>4, <2>1, <2>2, <2>3 DEF Agrees, IsLoggedIn
<1>5. ASSUME NEW c \in calls, App(c.tab) # app,
             AnswerRefused(c) \/ AnswerLogin(c) \/ AnswerLogout(c)
      PROVE  UNCHANGED <<cookie, setBy>> /\ marker'[app] = marker[app] /\ cleared'[app] = cleared[app]
  <2>1. \A why : Cleared(App(c.tab), why) => marker'[app] = marker[app] /\ cleared'[app] = cleared[app]
    BY <1>1, <1>5 DEF Cleared, TypeOK
  <2>2. CASE AnswerRefused(c) \/ AnswerLogout(c)
    <3>1. PICK why : Cleared(App(c.tab), why) /\ UNCHANGED <<cookie, setBy>>
      BY <2>2, Zenon DEF AnswerRefused, AnswerLogout
    <3> QED BY <2>1, <3>1
  <2>3. CASE AnswerLogin(c)
    BY <1>1, <1>5, <2>3 DEF AnswerLogin, TypeOK
  <2> QED BY <1>5, <2>2, <2>3
<1>6. setBy' # "nobody"
  BY DEF Apps
<1> QED BY <1>2, <1>3, <1>4, <1>5, <1>6, OnlyAnswersDisturb DEF Undisturbed

-----------------------------------------------------------------------------
(* The inductive invariant holds in every state: requests, sessions, markers *)
(* and the cookie of the sign-in pages together (auth.tsx, api-client.ts and *)
(* the backend's auth.py).                                                   *)
THEOREM Invariance == Spec => []IndInv
<1>1. Init => IndInv
  <2> SUFFICES ASSUME Init PROVE IndInv
    OBVIOUS
  <2>1. /\ Nobody \notin Accounts /\ MaxAsks \in Nat /\ Staff \subseteq Accounts
    BY SignInAssumption DEF Accounts
  <2>2. TypeOK
    BY <2>1 DEF Init, TypeOK, Places, Reasons, Apps, Tokens
  <2>3. CallsOK
    BY DEF Init, CallsOK
  <2>4. LoginsCounted
    <3>1. PendingLogins = {} /\ issued = 0 /\ asks = 0
      BY DEF Init, PendingLogins
    <3> QED BY <2>1, <3>1, FS_EmptySet DEF LoginsCounted
  <2>5. SettlingFits /\ MarkersAgree
    BY DEF Init, SettlingFits, MarkersAgree, Agrees, Apps
  <2> QED BY <2>2, <2>3, <2>4, <2>5 DEF IndInv
<1>2. IndInv /\ [Next]_vars => IndInv'
  BY StepTypes, StepCalls, StepCounted, StepSettling, StepAgrees DEF IndInv
<1> QED BY <1>1, <1>2, PTL DEF Spec

(* Every variable keeps its type; the backend does not issue more sessions   *)
(* than sign-ins were asked for.                                             *)
THEOREM TypeCorrect == Spec => []TypeOK
<1>1. IndInv => TypeOK
  BY DEF IndInv
<1> QED BY <1>1, Invariance, PTL

(* The backend answers the browser as the holder of its session, or nobody.  *)
LEMMA AnsweredAsHolder == SessionOf \in {Holder(cookie), Nobody}
BY DEF SessionOf, UserOf

(* A front end that shows an account, and whose sign-in brought the          *)
(* browser's cookie without another of its own under way, is answered as     *)
(* that account or as nobody, suspensions and their end included.            *)
THEOREM ShownAccountsAnswered == Spec => []ShownAccountIsAnswered
<1>1. IndInv => ShownAccountIsAnswered
  BY AnsweredAsHolder DEF IndInv, MarkersAgree, Agrees, ShownAccountIsAnswered
<1> QED BY <1>1, Invariance, PTL

(* A front end that forgot such a sign-in beside a live session did so after *)
(* a lost sign-out, a wrong password, a late refusal or a suspension, and    *)
(* never otherwise.                                                          *)
THEOREM SignedOutExplained == Spec => []SignedOutMeansNoSession
<1>1. IndInv => SignedOutMeansNoSession
  BY AnsweredAsHolder DEF IndInv, MarkersAgree, Agrees, SignedOutMeansNoSession
<1> QED BY <1>1, Invariance, PTL
=============================================================================

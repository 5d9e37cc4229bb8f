---------------------------- MODULE TenantLifecycle ----------------------------
(***************************************************************************)
(* One tenant between its admin, who may ask for its deletion and take it  *)
(* back, the staff, who decide, suspend and activate, and Paddle, whose    *)
(* webhooks tell what became of its subscription.  All of them write the   *)
(* tenant's row, without a lock: a handler reads the row, decides, and     *)
(* commits the columns in which its object differs from what it read.      *)
(*                                                                         *)
(* The admin's page is the danger zone of the settings.  Passwords of the  *)
(* staff (SignIn), plans, profile texts and the dates are left out: a      *)
(* request for deletion is its number, a schedule that of its request.     *)
(***************************************************************************)
EXTENDS Naturals, FiniteSets, Sequences

CONSTANTS
  MaxAsks,      \* bound: requests of the admin and the staff, and webhooks
  MaxJobs,      \* bound: handlers at work at a time
  MaxMishaps    \* bound: lost answers, redelivered webhooks, ended sessions

ASSUME LifecycleAssumption == {MaxAsks, MaxJobs, MaxMishaps} \subseteq Nat /\ MaxJobs >= 1

Decisions == {"schedule", "approve", "execute", "reject"}
Toggles == {"suspend", "activate"}
Webhooks == {"subscribed", "canceled"}
AdminOps == {"profile", "request", "cancel"}

VARIABLES
  tenant,      \* the row: request is the pending deletion, or 0; scheduled the
               \* request scheduled_deletion_at was set for, or 0
  session,     \* the admin's row in sessions, which an expired one stays in
  kept,        \* whether acknowledgements or votes refer to the tenant's users
  billing,     \* whether paddle_webhook_secret is configured
  requests,    \* deletions asked for so far
  announced,   \* the webhooks Paddle has sent, in its order
  jobs,        \* handlers at work
  zone,        \* what the danger zone shows
  busy,
  asks, mishaps,
  activeBy,    \* the operation that last wrote is_active, or "overlap" if
               \* a handler's value was lost to another's
  carried,     \* why a schedule has outlived its request
  disorder,    \* whether webhooks were handled together or out of order
  excuse       \* why the danger zone may be wrong

vars == <<tenant, session, kept, billing, requests, announced, jobs, zone, busy,
          asks, mishaps, activeBy, carried, disorder, excuse>>
page == <<zone, busy>>
fixed == <<kept, billing>>

Handled(ops) == {j \in jobs : j.op \in ops}
NoTenant == [there |-> FALSE, active |-> FALSE, request |-> 0, scheduled |-> 0]

\* overtaken: a request for deletion was withdrawn since the job read the row;
\* stale: the row was changed since.
\* The id tells apart jobs of one operation.
NewJob(id, op, n) ==
  [id |-> id, op |-> op, n |-> n, right |-> TRUE, mine |-> op \in AdminOps,
   phase |-> "sent", snap |-> NoTenant, ok |-> FALSE, overtaken |-> FALSE, stale |-> FALSE]

Job(op, n) ==
  NewJob(CHOOSE i \in 1 .. MaxJobs : \A j \in Handled({op}) : j.id # i, op, n)
Start(j) == Cardinality(jobs) < MaxJobs /\ jobs' = jobs \cup {j}
Ask == asks < MaxAsks /\ asks' = asks + 1
Mishap == mishaps < MaxMishaps /\ mishaps' = mishaps + 1

Init ==
  /\ tenant = [NoTenant EXCEPT !.there = TRUE, !.active = TRUE]
  /\ session = "live" /\ kept \in BOOLEAN /\ billing \in BOOLEAN
  /\ requests = 0 /\ announced = <<>>
  /\ jobs = {NewJob(1, "profile", 0)}
  /\ zone = "idle" /\ busy = FALSE
  /\ asks = 0 /\ mishaps = 0
  /\ activeBy = "signup" /\ carried = {} /\ disorder = FALSE /\ excuse = {}

-----------------------------------------------------------------------------
(* The admin's page.                                                       *)

\* The zone starts idle and learns from the profile whether a request pends.
OpenSettings ==
  /\ Ask
  /\ zone' = "idle" /\ busy' = FALSE
  /\ Cardinality(jobs) < MaxJobs
  /\ jobs' = {[j EXCEPT !.mine = FALSE] : j \in jobs} \cup {Job("profile", 0)}
  /\ excuse' = {x \in {"other"} : Handled({"request", "cancel"} \cup Decisions) # {}}
  /\ UNCHANGED <<tenant, session, fixed, requests, announced, mishaps, activeBy, carried, disorder>>

\* "Delete...", the password, the word DELETE and the button; or the banner's
\* button.  The steps between are the page's alone.
Submit(op, right) ==
  /\ Ask /\ ~busy /\ zone = (IF op = "request" THEN "idle" ELSE "pending")
  /\ busy' = TRUE
  /\ Start([Job(op, 0) EXCEPT !.right = right])
  /\ excuse' = excuse \cup {x \in {"overlap"} : \E j \in jobs : j.mine}
  /\ UNCHANGED <<tenant, session, fixed, requests, announced, zone, mishaps, activeBy, carried, disorder>>

SignOut ==
  /\ Ask /\ session = "live"
  /\ session' = "none"
  /\ UNCHANGED <<tenant, fixed, requests, announced, jobs, page, mishaps, activeBy, carried, disorder, excuse>>

SessionExpires ==
  /\ Mishap /\ session = "live"
  /\ session' = "expired"
  /\ UNCHANGED <<tenant, fixed, requests, announced, jobs, page, asks, activeBy, carried, disorder, excuse>>

\* Faults: after a request the form is shown again; after a cancellation the
\* banner stays.
ShowFormAgain(j) ==
  CASE j.ok /\ j.op = "request" -> "form"
    [] OTHER -> zone
ShowBannerStays(j) ==
  CASE j.ok /\ j.op = "profile" -> IF j.snap.request # 0 THEN "pending" ELSE zone
    [] j.ok /\ j.op \in {"request", "cancel"} -> "pending"
    [] OTHER -> zone

Show(j) ==
  CASE j.ok /\ j.op = "profile" -> IF j.snap.request # 0 THEN "pending" ELSE zone
    [] j.ok /\ j.op = "request" -> "pending"
    [] j.ok /\ j.op = "cancel" -> "idle"
    [] OTHER -> zone

\* An error is a message under the buttons; a failed profile is ignored.
Answer(j) ==
  /\ j.phase = "done"
  /\ zone' = IF j.mine THEN Show(j) ELSE zone
  /\ busy' = (busy /\ (j.op = "profile" \/ ~j.mine))
  /\ jobs' = jobs \ {j}
  /\ UNCHANGED <<tenant, session, fixed, requests, announced, asks, mishaps,
                 activeBy, carried, disorder, excuse>>

\* fetch fails, whatever the backend did or will do.
LoseAnswer(j) ==
  /\ Mishap /\ j.phase = "done" /\ j.ok
  /\ jobs' = (jobs \ {j}) \cup {[j EXCEPT !.ok = FALSE]}
  /\ excuse' = excuse \cup {"lost"}
  /\ UNCHANGED <<tenant, session, fixed, requests, announced, page, asks,
                 activeBy, carried, disorder>>

-----------------------------------------------------------------------------
(* The staff and Paddle.                                                   *)

Decide(op) ==
  /\ Ask
  /\ Start(Job(op, 0))
  /\ UNCHANGED <<tenant, session, fixed, requests, announced, page, mishaps,
                 activeBy, carried, disorder, excuse>>

Announce(kind) ==
  /\ Ask
  /\ announced' = Append(announced, kind)
  /\ Start(Job(kind, Len(announced) + 1))
  /\ UNCHANGED <<tenant, session, fixed, requests, page, mishaps, activeBy, carried, disorder, excuse>>

\* Paddle saw no answer and sends the webhook again.
Redeliver(i) ==
  /\ Mishap
  /\ Start(Job(announced[i], i))
  /\ disorder' = TRUE
  /\ UNCHANGED <<tenant, session, fixed, requests, announced, page, asks, activeBy, carried, excuse>>

-----------------------------------------------------------------------------
(* The handlers.                                                           *)

\* get_current_user lets the admin in: a session, and, once billing is
\* configured, an active tenant (402).
Admitted(j) ==
  /\ session = "live"
  /\ billing => tenant.active

\* Fault: a scheduled deletion is executed whatever became of the request.
AcceptsExecution(j) ==
  /\ tenant.there
  /\ CASE j.op \in AdminOps -> Admitted(j)
       [] OTHER -> TRUE
  /\ CASE j.op = "request" -> j.right /\ tenant.request = 0
       [] j.op \in {"cancel", "schedule", "approve", "reject"} -> tenant.request # 0
       [] OTHER -> TRUE

\* What each endpoint asks of the row before it does anything.
Accepts(j) ==
  /\ tenant.there
  /\ CASE j.op \in AdminOps -> Admitted(j)
       [] OTHER -> TRUE
  /\ CASE j.op = "request" -> j.right /\ tenant.request = 0
       [] j.op \in {"cancel"} \cup Decisions -> tenant.request # 0
       [] OTHER -> TRUE

Read(j) ==
  /\ j.phase = "sent"
  /\ jobs' = (jobs \ {j}) \cup
       {[j EXCEPT !.phase = IF Accepts(j) /\ j.op # "profile" THEN "read" ELSE "done",
                  !.ok = Accepts(j), !.snap = tenant]}
  /\ disorder' = (disorder \/
       (j.op \in Webhooks /\ \E k \in Handled(Webhooks) \ {j} : k.phase = "read" \/ k.n < j.n))
  /\ excuse' = excuse \cup {x \in {"refused"} : j.op = "profile" /\ ~Accepts(j)}
  /\ UNCHANGED <<tenant, session, fixed, requests, announced, page, asks, mishaps, activeBy, carried>>

\* Faults: a rejection keeps the schedule; a request does not suspend.
AssignedKeepsSchedule(j) ==
  CASE j.op = "request" -> [request |-> requests + 1, active |-> FALSE]
    [] j.op \in {"cancel", "reject"} -> [request |-> 0, active |-> TRUE]
    [] j.op = "schedule" -> [scheduled |-> j.snap.request]
    [] j.op \in {"suspend", "canceled"} -> [active |-> FALSE]
    [] j.op \in {"activate", "subscribed"} -> [active |-> TRUE]
AssignedWithoutSuspension(j) ==
  CASE j.op = "request" -> [request |-> requests + 1]
    [] j.op = "cancel" -> [request |-> 0, active |-> TRUE]
    [] j.op = "schedule" -> [scheduled |-> j.snap.request]
    [] j.op = "reject" -> [request |-> 0, scheduled |-> 0, active |-> TRUE]
    [] j.op \in {"suspend", "canceled"} -> [active |-> FALSE]
    [] j.op \in {"activate", "subscribed"} -> [active |-> TRUE]

\* What each handler assigns.  Cancelling leaves scheduled_deletion_at.
Assigned(j) ==
  CASE j.op = "request" -> [request |-> requests + 1, active |-> FALSE]
    [] j.op = "cancel" -> [request |-> 0, active |-> TRUE]
    [] j.op = "schedule" -> [scheduled |-> j.snap.request]
    [] j.op = "reject" -> [request |-> 0, scheduled |-> 0, active |-> TRUE]
    [] j.op \in {"suspend", "canceled"} -> [active |-> FALSE]
    [] j.op \in {"activate", "subscribed"} -> [active |-> TRUE]

\* UPDATE names the columns whose value differs from the one read, and a new
\* date always does.
Written(j) ==
  {a \in DOMAIN Assigned(j) : j.op = "schedule" \/ Assigned(j)[a] # j.snap[a]}

Withdrawals == {"cancel", "reject"}

\* The rest of the jobs, after j has changed the row.
Overtaken(j) ==
  {[k EXCEPT !.overtaken = @ \/ (k.phase = "read" /\ j.op \in Withdrawals),
             !.stale = @ \/ k.phase = "read"] : k \in jobs \ {j}}

\* The page waits for the answer; nobody in the model waits for the others'.
Answered(j, ok) == {k \in {[j EXCEPT !.phase = "done", !.ok = ok, !.snap = NoTenant]} : j.mine}

Carried(j) ==
  CASE tenant'.scheduled = 0 -> {}
    [] j.op = "schedule" /\ ~j.stale -> {}
    [] OTHER -> carried \cup {x \in {"cancel"} : j.op = "cancel"} \cup {x \in {"overlap"} : j.stale}

\* A column left out of UPDATE keeps what another handler wrote meanwhile.
LastActive(j) ==
  CASE "active" \in Written(j) -> j.op
    [] "active" \in DOMAIN Assigned(j) \ Written(j) ->
         IF tenant.active # Assigned(j).active THEN "overlap" ELSE activeBy
    [] OTHER -> activeBy

Commit(j) ==
  /\ j.phase = "read" /\ j.op \notin {"approve", "execute"}
  /\ tenant.there
  /\ tenant' = [a \in DOMAIN tenant |-> IF a \in Written(j) THEN Assigned(j)[a] ELSE tenant[a]]
  /\ requests' = IF j.op = "request" THEN requests + 1 ELSE requests
  /\ jobs' = Overtaken(j) \cup Answered(j, TRUE)
  /\ activeBy' = LastActive(j)
  /\ carried' = Carried(j)
  /\ excuse' = excuse \cup {x \in {"other"} : ~j.mine /\ "request" \in Written(j)}
  /\ UNCHANGED <<session, fixed, announced, page, asks, mishaps, disorder>>

\* _hard_delete_tenant: rows in other tables that refer to the tenant's users,
\* sessions among them, make the commit fail.
Erase(j) ==
  /\ j.phase = "read" /\ j.op \in {"approve", "execute"}
  /\ tenant.there /\ session = "none" /\ ~kept
  /\ tenant' = NoTenant
  /\ jobs' = Overtaken(j)
  /\ carried' = {}
  /\ excuse' = excuse \cup {"other"}
  /\ UNCHANGED <<session, fixed, requests, announced, page, asks, mishaps, activeBy, disorder>>

\* The commit fails: on a foreign key, on a row deleted meanwhile, or with the
\* database.
Fail(j) ==
  /\ j.phase = "read"
  /\ \/ ~tenant.there
     \/ j.op \in {"approve", "execute"} /\ (session # "none" \/ kept)
  /\ jobs' = (jobs \ {j}) \cup Answered(j, FALSE)
  /\ UNCHANGED <<tenant, session, fixed, requests, announced, page, asks, mishaps,
                 activeBy, carried, disorder, excuse>>

-----------------------------------------------------------------------------
Admin ==
  \/ OpenSettings \/ SignOut
  \/ \E op \in {"request", "cancel"}, right \in BOOLEAN : Submit(op, right)

Handlers ==
  \E j \in jobs : Read(j) \/ Commit(j) \/ Erase(j) \/ Fail(j) \/ Answer(j) \/ LoseAnswer(j)

Next ==
  \/ Admin \/ SessionExpires
  \/ \E op \in Decisions \cup Toggles : Decide(op)
  \/ \E kind \in Webhooks : Announce(kind)
  \/ \E i \in DOMAIN announced : Redeliver(i)
  \/ Handlers

Spec == Init /\ [][Next]_vars

-----------------------------------------------------------------------------
(* Properties.                                                             *)

Operations == Decisions \cup Toggles \cup Webhooks \cup AdminOps

\* Every variable keeps its type.
TypeOK ==
  /\ tenant \in [there : BOOLEAN, active : BOOLEAN, request : 0 .. requests, scheduled : 0 .. requests]
  /\ session \in {"none", "live", "expired"} /\ {kept, billing, busy, disorder} \subseteq BOOLEAN
  /\ requests \in 0 .. MaxAsks /\ announced \in Seq(Webhooks)
  /\ Cardinality(jobs) <= MaxJobs
  /\ \A j \in jobs : j.op \in Operations /\ j.phase \in {"sent", "read", "done"} /\ j.id \in 1 .. MaxJobs
  /\ zone \in {"idle", "pending"}
  /\ activeBy \in Operations \cup {"signup", "overlap"} /\ carried \subseteq {"cancel", "overlap"}
  /\ excuse \subseteq {"other", "overlap", "lost", "refused"}

\* A tenant is erased only while a request for it pends; or after one that was
\* withdrawn between the read and the commit of the staff member's handler.
\* Nothing that refers to its users is left.
ErasureIsJustified ==
  [][ tenant.there /\ ~tenant'.there =>
        /\ session = "none" /\ ~kept
        /\ tenant.request # 0 \/ \E j \in jobs \ jobs' : j.overtaken ]_vars

\* The date the staff see beside a request was set for that request, unless the
\* admin cancelled the one before (which keeps its date), or handlers overlapped.
SchedulesBelongToRequests ==
  tenant.request # 0 /\ tenant.scheduled # 0 => tenant.scheduled = tenant.request \/ carried # {}

\* A tenant that waits for its deletion is suspended unless staff or billing
\* activated it, or handlers overlapped; and what billing wrote last is what Paddle announced last,
\* unless webhooks arrived late, twice or together.
ActiveIsAccountedFor ==
  /\ tenant.request # 0 /\ tenant.active => activeBy \in {"activate", "subscribed", "overlap"}
  /\ tenant.there /\ activeBy \in Webhooks /\ Handled(Webhooks) = {} /\ ~disorder =>
       activeBy = announced[Len(announced)]

\* With no request of the page under way, the danger zone shows a request
\* exactly if one pends, unless someone else decided or asked, an answer was
\* lost or overtaken, or the profile was refused: then it offers to delete a
\* tenant that is waiting for it.
DangerZoneAgrees ==
  excuse = {} /\ (\A j \in jobs : ~j.mine) => (zone = "pending" <=> tenant.request # 0)
=============================================================================

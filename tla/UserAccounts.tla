---------------------------- MODULE UserAccounts ----------------------------
(***************************************************************************)
(* Dashboard accounts and their sessions: services/user_service.py under   *)
(* api/v1/auth.py (login, logout, change-password), api/v1/users.py (the   *)
(* admin's changes) and api/deps.py (who a session cookie stands for).     *)
(*                                                                         *)
(* A handler is one HTTP request with a READ COMMITTED session of its own, *)
(* split at the statements between which another handler may commit.  Its  *)
(* UPDATE of a users row holds that row until it commits; its DELETE of    *)
(* the user's sessions removes those that were committed when the          *)
(* statement ran, and a login may insert another before the commit (the    *)
(* foreign key only takes a KEY SHARE lock on the user).                   *)
(***************************************************************************)
EXTENDS Naturals, FiniteSets

CONSTANTS
    Users,         \* the accounts of one tenant
    Admins,        \* those that are admins at first
    Handlers,      \* requests that can be under way at once
    NoJob,         \* the job of a handler that is not running
    MaxLogins,     \* bound: logins, whatever becomes of them
    MaxPassword    \* bound: password changes of one user

ASSUME AccountsAssumption == Admins \subseteq Users /\ Admins # {} /\ IsFiniteSet(Users)
ASSUME BoundsAssumption == MaxLogins \in Nat /\ MaxPassword \in Nat

VARIABLES
    role,          \* users.role: "admin" or "investigator"
    is_active,     \* users.is_active
    password,      \* the number of the user's current password
    sessions,      \* the committed rows of sessions
    expired,       \* those whose expires_at has passed
    phase,         \* where each handler is
    job,           \* what it was asked, and what it has read
    doomed,        \* sessions its uncommitted DELETE has removed
    audit,         \* auth.dashboard_login events of the ledger
    logins,        \* logins so far; each has its number
    raced,         \* history: sessions created by a login that overlapped a
                   \* change of its user
    clashed        \* history: a change was committed while another one that
                   \* takes an admin away had passed its check

vars == <<role, is_active, password, sessions, expired, phase, job, doomed, audit, logins,
          raced, clashed>>
userVars == <<role, is_active, password>>
sessionVars == <<sessions, expired, raced, clashed>>

Operations == {"demote", "promote", "deactivate", "reactivate", "password"}
Sessions == [login : 1..MaxLogins, user : Users, password : 0..MaxPassword]

(* Another handler's UPDATE of the row of u is not committed yet. *)
RowLocked(u) == \E h \in Handlers : phase[h] = "revoked" /\ job[h].target = u

Init ==
    /\ role = [u \in Users |-> IF u \in Admins THEN "admin" ELSE "investigator"]
    /\ is_active = [u \in Users |-> TRUE]
    /\ password = [u \in Users |-> 0]
    /\ sessions = {}
    /\ expired = {}
    /\ phase = [h \in Handlers |-> "idle"]
    /\ job = [h \in Handlers |-> NoJob]
    /\ doomed = [h \in Handlers |-> {}]
    /\ audit = {}
    /\ logins = 0
    /\ raced = {}
    /\ clashed = FALSE

(* Fault: the handler's state outlives the request. *)
FinishKeepsJob(h) ==
    /\ phase' = [phase EXCEPT ![h] = "idle"]
    /\ doomed' = [doomed EXCEPT ![h] = {}]
    /\ UNCHANGED job

Finish(h) ==
    /\ phase' = [phase EXCEPT ![h] = "idle"]
    /\ job' = [job EXCEPT ![h] = NoJob]
    /\ doomed' = [doomed EXCEPT ![h] = {}]

----------------------------------------------------------------------------
(* POST /v1/auth/login.  authenticate_user reads the user once; the        *)
(* password is checked against that row.                                   *)
authenticate_user(h, u) ==
    /\ phase[h] = "idle"
    /\ logins < MaxLogins
    /\ is_active[u]
    /\ logins' = logins + 1
    /\ phase' = [phase EXCEPT ![h] = "authenticated"]
    /\ job' = [job EXCEPT ![h] = [login |-> logins + 1, target |-> u,
                                  password |-> password[u], overlap |-> RowLocked(u)]]
    /\ UNCHANGED <<userVars, sessionVars, doomed, audit>>

(* A wrong password, or an inactive account: the failure is logged, 401. *)
LoginFails(u) ==
    /\ logins < MaxLogins
    /\ logins' = logins + 1
    /\ audit' = audit \cup {[login |-> logins + 1, user |-> u, outcome |-> "failure"]}
    /\ UNCHANGED <<userVars, sessionVars, phase, job, doomed>>

(* _log_dashboard_login commits the event in a transaction of its own,     *)
(* before there is a session.                                              *)
_log_dashboard_login(h) ==
    /\ phase[h] = "authenticated"
    /\ audit' = audit \cup {[login |-> job[h].login, user |-> job[h].target,
                          outcome |-> "success"]}
    /\ phase' = [phase EXCEPT ![h] = "logged"]
    /\ UNCHANGED <<userVars, sessionVars, logins, job, doomed>>

(* create_session: the row is committed for the user as authenticated; the *)
(* user is not read again.                                                 *)
create_session(h) ==
    LET s == [login |-> job[h].login, user |-> job[h].target, password |-> job[h].password] IN
    /\ phase[h] = "logged"
    /\ sessions' = sessions \cup {s}
    /\ raced' = IF job[h].overlap \/ RowLocked(s.user) THEN raced \cup {s.login} ELSE raced
    /\ Finish(h)
    /\ UNCHANGED <<userVars, expired, logins, audit, clashed>>

(* POST /v1/auth/logout: delete_session_by_token. *)
delete_session_by_token(s) ==
    /\ sessions' = sessions \ {s}
    /\ expired' = expired \ {s}
    /\ UNCHANGED <<userVars, logins, raced, clashed, phase, job, doomed, audit>>

(* session_token_ttl_hours pass; the row stays. *)
Expire(s) ==
    /\ expired' = expired \cup {s}
    /\ UNCHANGED <<userVars, sessions, logins, raced, clashed, phase, job, doomed, audit>>

----------------------------------------------------------------------------
(* get_current_user: the cookie's session row exists and has not expired,  *)
(* its last_seen_at UPDATE finds it (a row under another's DELETE makes it *)
(* wait and then fail), and the user is active.                            *)
get_user_by_session_token(s) ==
    /\ s \notin expired
    /\ \A h \in Handlers : s \notin doomed[h]
    /\ is_active[s.user]

(* An admin's request against another account, or anyone's change of their *)
(* own password.                                                           *)
Authorize(h, s, op, u) ==
    /\ phase[h] = "idle"
    /\ get_user_by_session_token(s)
    /\ \/ op = "password" /\ u = s.user
       \/ role[s.user] = "admin" /\ (op = "password" \/ u # s.user)
    /\ phase' = [phase EXCEPT ![h] = "authorized"]
    /\ job' = [job EXCEPT ![h] = [target |-> u, op |-> op]]
    /\ UNCHANGED <<userVars, sessionVars, logins, doomed, audit>>

count_active_admins == Cardinality({u \in Users : role[u] = "admin" /\ is_active[u]})

(* Fault: one admin too few is asked for. *)
LastAdminOffByOne(u, op) ==
    /\ role[u] = "admin"
    /\ op = "demote" \/ (op = "deactivate" /\ is_active[u])
    /\ count_active_admins < 1

(* The target is loaded, and a change that would take the last active      *)
(* admin away is refused with 409.                                         *)
LastAdmin(u, op) ==
    /\ role[u] = "admin"
    /\ op = "demote" \/ (op = "deactivate" /\ is_active[u])
    /\ count_active_admins <= 1

CheckTarget(h) ==
    LET u == job[h].target IN
    /\ phase[h] = "authorized"
    /\ IF LastAdmin(u, job[h].op)
       THEN Finish(h)
       ELSE /\ phase' = [phase EXCEPT ![h] = "checked"]
            /\ job' = [job EXCEPT ![h] = [target |-> u, op |-> job[h].op,
                                          role |-> role[u], is_active |-> is_active[u]]]
            /\ UNCHANGED doomed
    /\ UNCHANGED <<userVars, sessionVars, logins, audit>>

(* Fault: the change is committed without a DELETE of the sessions. *)
RevokesNothing(h) ==
    LET u == job[h].target IN
    /\ phase[h] = "checked"
    /\ ~RowLocked(u)
    /\ job[h].op = "password" => password[u] < MaxPassword
    /\ phase' = [phase EXCEPT ![h] = "revoked"]
    /\ job' = [g \in Handlers |->
                 IF phase[g] \in {"authenticated", "logged"} /\ job[g].target = u
                 THEN [job[g] EXCEPT !.overlap = TRUE] ELSE job[g]]
    /\ UNCHANGED <<userVars, sessionVars, logins, doomed, audit>>

(* The flush of the changed column and _revoke_all_sessions.               *)
(* reactivate_user writes and commits without revoking.  A login that is   *)
(* under way, or starts before the commit, overlaps this change.           *)
_revoke_all_sessions(h) ==
    LET u == job[h].target IN
    /\ phase[h] = "checked"
    /\ ~RowLocked(u)
    /\ job[h].op = "password" => password[u] < MaxPassword
    /\ phase' = [phase EXCEPT ![h] = "revoked"]
    /\ doomed' = [doomed EXCEPT ![h] = IF job[h].op = "reactivate" THEN {}
                                       ELSE {s \in sessions : s.user = u}]
    /\ job' = [g \in Handlers |->
                 IF phase[g] \in {"authenticated", "logged"} /\ job[g].target = u
                 THEN [job[g] EXCEPT !.overlap = TRUE] ELSE job[g]]
    /\ UNCHANGED <<userVars, sessionVars, logins, audit>>

(* The commit.  A column the handler set to the value it had loaded is not *)
(* written.                                                                *)
CommitChange(h) ==
    LET j == job[h]
        u == j.target
        newRole == IF j.op = "demote" THEN "investigator" ELSE "admin"
        nowActive == j.op = "reactivate"
    IN
    /\ phase[h] = "revoked"
    /\ role' = IF j.op \in {"demote", "promote"} /\ j.role # newRole
               THEN [role EXCEPT ![u] = newRole] ELSE role
    /\ is_active' = IF j.op \in {"deactivate", "reactivate"} /\ j.is_active # nowActive
                    THEN [is_active EXCEPT ![u] = nowActive] ELSE is_active
    /\ password' = IF j.op = "password" THEN [password EXCEPT ![u] = @ + 1] ELSE password
    /\ sessions' = sessions \ doomed[h]
    /\ expired' = expired \ doomed[h]
    /\ clashed' = (clashed \/ \E g \in Handlers \ {h} :
                      phase[g] \in {"checked", "revoked"} /\ job[g].op \in {"demote", "deactivate"})
    /\ Finish(h)
    /\ UNCHANGED <<logins, raced, audit>>

(* A handler is cut off; its transaction is rolled back. *)
Crash(h) ==
    /\ phase[h] # "idle"
    /\ Finish(h)
    /\ UNCHANGED <<userVars, sessionVars, logins, audit>>

LoginStep(h) ==
    \/ \E u \in Users : authenticate_user(h, u)
    \/ _log_dashboard_login(h)
    \/ create_session(h)

ChangeStep(h) ==
    \/ \E s \in sessions, op \in Operations, u \in Users : Authorize(h, s, op, u)
    \/ CheckTarget(h)
    \/ _revoke_all_sessions(h)
    \/ CommitChange(h)

(* The bound is reached and nobody is left to do anything: the model, not  *)
(* the program, rests.                                                     *)
AtBound ==
    /\ logins = MaxLogins /\ sessions = {}
    /\ \A h \in Handlers : phase[h] = "idle"
    /\ UNCHANGED vars

Next ==
    \/ \E h \in Handlers : LoginStep(h) \/ ChangeStep(h) \/ Crash(h)
    \/ \E u \in Users : LoginFails(u)
    \/ \E s \in sessions : delete_session_by_token(s) \/ Expire(s)
    \/ AtBound

Spec == Init /\ [][Next]_vars

----------------------------------------------------------------------------
ChangeJobs == [target : Users, op : Operations]
CheckedJobs == [target : Users, op : Operations, role : {"admin", "investigator"}, is_active : BOOLEAN]
LoginJobs == [login : 1..MaxLogins, target : Users, password : 0..MaxPassword, overlap : BOOLEAN]

(* Types of the tables and of the handlers' local state. *)
TypeOK ==
    /\ role \in [Users -> {"admin", "investigator"}]
    /\ is_active \in [Users -> BOOLEAN]
    /\ password \in [Users -> 0..MaxPassword]
    /\ sessions \subseteq Sessions
    /\ expired \subseteq sessions
    /\ logins \in 0..MaxLogins
    /\ raced \subseteq 1..logins
    /\ clashed \in BOOLEAN
    /\ \A h \in Handlers :
          job[h] \in CASE phase[h] = "idle" -> {NoJob}
                       [] phase[h] = "authorized" -> ChangeJobs
                       [] phase[h] \in {"checked", "revoked"} -> CheckedJobs
                       [] phase[h] \in {"authenticated", "logged"} -> LoginJobs
    /\ \A h \in Handlers : doomed[h] \subseteq Sessions
    /\ audit \subseteq [login : 1..MaxLogins, user : Users, outcome : {"success", "failure"}]

(* Every session is accounted for.  The ledger has the event of the login  *)
(* that created it, which names its user: that event is committed first.   *)
(* And changing a password evicts every session of the old one,            *)
(* deactivating a user every session of theirs, unless the session comes   *)
(* from a login that overlapped the change.                                *)
SessionsAccountedFor ==
    \A s \in sessions :
        /\ [login |-> s.login, user |-> s.user, outcome |-> "success"] \in audit
        /\ s.password # password[s.user] \/ ~is_active[s.user] => s.login \in raced

(* Another active admin remains after every change ("make sure another     *)
(* active admin remains", users.py:62), unless two changes that each       *)
(* passed the check overlapped: the count is read without a lock.          *)
LastAdminsClash == count_active_admins = 0 => clashed
=============================================================================

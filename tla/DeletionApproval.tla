-------------------------- MODULE DeletionApproval --------------------------
(***************************************************************************)
(* The four-signature deletion workflow of the backend:                    *)
(* api/v1/deletion_requests.py over services/deletion_request_service.py.  *)
(* An admin files a request against a user or an ingestion source; one     *)
(* holder of each approver role decides it; the fourth approval            *)
(* deactivates the target.                                                 *)
(*                                                                         *)
(* Every approver is a request handler with a database session of its own  *)
(* (READ COMMITTED): a handler is split at every statement whose answer    *)
(* another handler can change, its uncommitted vote is visible to itself   *)
(* alone, and the UNIQUE (request_id, approver_role) constraint of         *)
(* migration 0011 makes a second vote of a role wait for the first and     *)
(* then fail.  A handler can be cut off at any point.                      *)
(***************************************************************************)
EXTENDS Naturals, FiniteSets

CONSTANTS
    APPROVER_ROLES,\* the roles whose signatures a request needs (four in the code)
    Requests,      \* deletion_requests rows that may be filed
    Approvers,     \* dashboard users that hold an approver role
    Role,          \* the approver role of each
    Targets,       \* users and ingestion sources a request may name
    NoTarget,      \* a target_id that names no row of the tenant
    Admin,         \* the admin who files requests
    NoJob,         \* the job of a handler that is not running
    MaxCrashes     \* bound: how many handlers are cut off

ASSUME RoleAssumption == Role \in [Approvers -> APPROVER_ROLES] /\ "admin" \notin APPROVER_ROLES
ASSUME TargetAssumption == NoTarget \notin Targets /\ Admin \notin Approvers
ASSUME BoundAssumption == MaxCrashes \in Nat

VARIABLES
    status,        \* deletion_requests.status, or "absent"
    target,        \* deletion_requests.target_id
    approvals,     \* the committed rows of deletion_approvals
    is_active,     \* the accounts and sources that are active
    phase,         \* where each user's handler is
    job,           \* what it was asked to decide, then the event it is to log
    ledger,        \* the deletion_request.* events of the ledger
    performed,     \* history: how often each request's target was deactivated
    interrupted,   \* history: requests whose handler was cut off between the
                   \* deactivation and the status update
    crashes        \* handlers cut off so far

vars == <<status, target, approvals, is_active, phase, job, ledger, performed, interrupted, crashes>>

Handlers == Approvers \cup {Admin}
Accounts == Approvers \cup Targets
Decisions == {"approve", "reject"}
Jobs == [request : Requests, decision : Decisions]
Votes == [request : Requests, role : APPROVER_ROLES, decision : Decisions]
Entries == [request : Requests, role : APPROVER_ROLES \cup {"admin"},
            event_type : {"created", "approved", "rejected", "executed"}]

Vote(a) == [request |-> job[a].request, role |-> Role[a], decision |-> job[a].decision]
Entry(a, type) == [request |-> job[a].request, role |-> Role[a], event_type |-> type]

(* The votes of role a has for the request it is deciding: committed by    *)
(* anyone, or flushed by another handler and not yet committed.            *)
RoleVoted(a) == \E v \in approvals : v.request = job[a].request /\ v.role = Role[a]
RoleFlushed(a) == \E b \in Approvers \ {a} :
    /\ phase[b] \in {"flushed", "short", "executing"}
    /\ job[b].request = job[a].request
    /\ Role[b] = Role[a]

Init ==
    /\ status = [r \in Requests |-> "absent"]
    /\ target = [r \in Requests |-> NoTarget]
    /\ approvals = {}
    /\ is_active = Accounts
    /\ phase = [h \in Handlers |-> "idle"]
    /\ job = [h \in Handlers |-> NoJob]
    /\ ledger = {}
    /\ performed = [r \in Requests |-> 0]
    /\ interrupted = {}
    /\ crashes = 0

(* Fault: the handler's state outlives the request. *)
FinishKeepsJob(h) ==
    /\ phase' = [phase EXCEPT ![h] = "idle"]
    /\ UNCHANGED job

(* The handler is done; or its business is committed and it goes on to log *)
(* an event about it.                                                      *)
Finish(h) ==
    /\ phase' = [phase EXCEPT ![h] = "idle"]
    /\ job' = [job EXCEPT ![h] = NoJob]

Answer(h, entry) ==
    /\ phase' = [phase EXCEPT ![h] = "logging"]
    /\ job' = [job EXCEPT ![h] = entry]

(* POST /v1/deletion-requests: the row is committed, its event comes after. *)
(* The target is not looked up: it may name nothing.                        *)
create_deletion_request(r, t) ==
    /\ phase[Admin] = "idle"
    /\ status[r] = "absent"
    /\ status' = [status EXCEPT ![r] = "pending"]
    /\ target' = [target EXCEPT ![r] = t]
    /\ Answer(Admin, [request |-> r, role |-> "admin", event_type |-> "created"])
    /\ UNCHANGED <<approvals, is_active, ledger, performed, interrupted, crashes>>

(* POST /{id}/decide: authenticate, load the request, refuse with 409 unless *)
(* it is pending.  The status read here is the one the handler believes.     *)
LoadRequest(a, r, d) ==
    /\ phase[a] = "idle"
    /\ a \in is_active
    /\ status[r] = "pending"
    /\ phase' = [phase EXCEPT ![a] = "loaded"]
    /\ job' = [job EXCEPT ![a] = [request |-> r, decision |-> d]]
    /\ UNCHANGED <<status, target, approvals, is_active, ledger, performed, interrupted, crashes>>

(* The SELECT of the role's vote: 409 when there is a committed one. *)
CheckRoleVote(a) ==
    /\ phase[a] = "loaded"
    /\ IF RoleVoted(a) THEN Finish(a)
                       ELSE phase' = [phase EXCEPT ![a] = "unvoted"] /\ UNCHANGED job
    /\ UNCHANGED <<status, target, approvals, is_active, ledger, performed, interrupted, crashes>>

(* Fault: the IntegrityError is swallowed and the vote logged. *)
ConflictStillLogs(a) ==
    /\ phase[a] = "unvoted"
    /\ RoleVoted(a)
    /\ Answer(a, Entry(a, "approved"))
    /\ UNCHANGED <<status, target, approvals, is_active, ledger, performed, interrupted, crashes>>

(* The INSERT meets a vote of the role committed since: IntegrityError, the *)
(* handler fails and its session rolls back.                                *)
VoteConflicts(a) ==
    /\ phase[a] = "unvoted"
    /\ RoleVoted(a)
    /\ Finish(a)
    /\ UNCHANGED <<status, target, approvals, is_active, ledger, performed, interrupted, crashes>>

(* decision == "reject": vote and status go out in one commit. *)
Reject(a) ==
    /\ phase[a] = "unvoted"
    /\ job[a].decision = "reject"
    /\ ~RoleVoted(a)
    /\ ~RoleFlushed(a)
    /\ approvals' = approvals \cup {Vote(a)}
    /\ status' = [status EXCEPT ![job[a].request] = "rejected"]
    /\ Answer(a, Entry(a, "rejected"))
    /\ UNCHANGED <<target, is_active, ledger, performed, interrupted, crashes>>

(* decision == "approve": db.flush() sends the INSERT, uncommitted. *)
FlushApproval(a) ==
    /\ phase[a] = "unvoted"
    /\ job[a].decision = "approve"
    /\ ~RoleVoted(a)
    /\ ~RoleFlushed(a)
    /\ phase' = [phase EXCEPT ![a] = "flushed"]
    /\ UNCHANGED <<status, target, approvals, is_active, job, ledger, performed, interrupted, crashes>>

(* Fault: votes seen before they are committed. *)
RolesSeenUncommitted(a) ==
    {v.role : v \in {w \in approvals : w.request = job[a].request /\ w.decision = "approve"}}
    \cup {Role[b] : b \in {c \in Approvers : /\ phase[c] \in {"flushed", "short", "executing"}
                                             /\ job[c].request = job[a].request}}

(* get_approvals: the committed votes and the handler's own. *)
approved_roles(a) ==
    {v.role : v \in {w \in approvals \cup {Vote(a)} :
                       w.request = job[a].request /\ w.decision = "approve"}}

CountApprovals(a) ==
    /\ phase[a] = "flushed"
    /\ phase' = [phase EXCEPT ![a] = IF APPROVER_ROLES \subseteq approved_roles(a)
                                     THEN "executing" ELSE "short"]
    /\ UNCHANGED <<status, target, approvals, is_active, job, ledger, performed, interrupted, crashes>>

(* Fault: status = "pending" is written back. *)
CommitWritesPending(a) ==
    /\ phase[a] = "short"
    /\ approvals' = approvals \cup {Vote(a)}
    /\ status' = [status EXCEPT ![job[a].request] = "pending"]
    /\ Answer(a, Entry(a, "approved"))
    /\ UNCHANGED <<target, is_active, ledger, performed, interrupted, crashes>>

(* Not all four: status is assigned the value it was loaded with, which    *)
(* writes no column, so only the vote is committed.                        *)
CommitApproval(a) ==
    /\ phase[a] = "short"
    /\ approvals' = approvals \cup {Vote(a)}
    /\ Answer(a, Entry(a, "approved"))
    /\ UNCHANGED <<status, target, is_active, ledger, performed, interrupted, crashes>>

(* _execute: deactivate_user / deactivate_source commit the session        *)
(* themselves, which also commits the vote; status is still "pending".     *)
_execute(a) ==
    LET r == job[a].request IN
    /\ phase[a] = "executing"
    /\ target[r] # NoTarget
    /\ approvals' = approvals \cup {Vote(a)}
    /\ is_active' = is_active \ {target[r]}
    /\ performed' = [performed EXCEPT ![r] = @ + 1]
    /\ phase' = [phase EXCEPT ![a] = "performed"]
    /\ UNCHANGED <<status, target, job, ledger, interrupted, crashes>>

(* Fault: nothing is written after _execute's own commit. *)
CommitExecutedWithoutStatus(a) ==
    /\ phase[a] = "performed" \/ (phase[a] = "executing" /\ target[job[a].request] = NoTarget)
    /\ approvals' = approvals \cup {Vote(a)}
    /\ Answer(a, Entry(a, "executed"))
    /\ UNCHANGED <<status, target, is_active, ledger, performed, interrupted, crashes>>

(* status = "executed" and the last commit.  With no such target _execute  *)
(* returned without a commit and the vote goes out here.                   *)
CommitExecuted(a) ==
    LET r == job[a].request IN
    /\ phase[a] = "performed" \/ (phase[a] = "executing" /\ target[r] = NoTarget)
    /\ approvals' = approvals \cup {Vote(a)}
    /\ status' = [status EXCEPT ![r] = "executed"]
    /\ Answer(a, Entry(a, "executed"))
    /\ UNCHANGED <<target, is_active, ledger, performed, interrupted, crashes>>

(* _log: the event is appended by a transaction of its own. *)
_log(h) ==
    /\ phase[h] = "logging"
    /\ ledger' = ledger \cup {job[h]}
    /\ Finish(h)
    /\ UNCHANGED <<status, target, approvals, is_active, performed, interrupted, crashes>>

(* A handler is cut off (worker killed, connection lost): what it had not *)
(* committed is rolled back.                                              *)
Crash(h) ==
    /\ crashes < MaxCrashes
    /\ crashes' = crashes + 1
    /\ phase[h] # "idle"
    /\ Finish(h)
    /\ interrupted' = IF phase[h] = "performed" THEN interrupted \cup {job[h].request} ELSE interrupted
    /\ UNCHANGED <<status, target, approvals, is_active, ledger, performed>>

(* An admin's direct POST /v1/users/{id}/deactivate (or the one of a       *)
(* source), and POST /v1/users/{id}/reactivate; nothing reactivates a      *)
(* source.                                                                 *)
AdminDeactivates(u) ==
    /\ is_active' = is_active \ {u}
    /\ UNCHANGED <<status, target, approvals, phase, job, ledger, performed, interrupted, crashes>>

AdminReactivates(u) ==
    /\ is_active' = is_active \cup {u}
    /\ UNCHANGED <<status, target, approvals, phase, job, ledger, performed, interrupted, crashes>>

HandlerStep(a) ==
    \/ CheckRoleVote(a)
    \/ VoteConflicts(a)
    \/ Reject(a)
    \/ FlushApproval(a)
    \/ CountApprovals(a)
    \/ CommitApproval(a)
    \/ _execute(a)
    \/ CommitExecuted(a)

Next ==
    \/ \E r \in Requests, t \in Targets \cup {NoTarget} : create_deletion_request(r, t)
    \/ \E a \in Approvers, r \in Requests, d \in Decisions : LoadRequest(a, r, d)
    \/ \E a \in Approvers : HandlerStep(a)
    \/ \E h \in Handlers : _log(h) \/ Crash(h)
    \/ \E u \in Targets : AdminDeactivates(u)
    \/ \E u \in Targets \cap Approvers : AdminReactivates(u)

Spec == Init /\ [][Next]_vars

----------------------------------------------------------------------------
Phases == {"idle", "loaded", "unvoted", "flushed", "short", "executing", "performed", "logging"}

(* Types of the tables and of the handlers' local state. *)
TypeOK ==
    /\ status \in [Requests -> {"absent", "pending", "rejected", "executed"}]
    /\ target \in [Requests -> Targets \cup {NoTarget}]
    /\ approvals \subseteq Votes
    /\ is_active \subseteq Accounts
    /\ phase \in [Handlers -> Phases]
    /\ phase[Admin] \in {"idle", "logging"}
    /\ \A h \in Handlers : job[h] \in CASE phase[h] = "idle" -> {NoJob}
                                       [] phase[h] = "logging" -> Entries
                                       [] OTHER -> Jobs
    /\ DOMAIN job = Handlers
    /\ ledger \subseteq Entries
    /\ performed \in [Requests -> Nat]
    /\ interrupted \subseteq Requests
    /\ crashes \in 0..MaxCrashes

Approved(r, role) == [request |-> r, role |-> role, decision |-> "approve"] \in approvals
Rejected(r, role) == [request |-> r, role |-> role, decision |-> "reject"] \in approvals
Quorum(r) == \A role \in APPROVER_ROLES : Approved(r, role)

(* The gated action: a target is deactivated, and a request called         *)
(* executed, only with the committed approval of every role (decide counts *)
(* votes it has only flushed itself); and however approvers overlap, no    *)
(* request deactivates its target twice: of two handlers that each count   *)
(* the other's committed vote, one would have had to commit before it      *)
(* counted.                                                                *)
ExecutesOnceWithQuorum ==
    \A r \in Requests :
        /\ performed[r] > 0 \/ status[r] = "executed" => Quorum(r)
        /\ performed[r] <= 1

(* A target deactivated under a request that does not say "executed", with *)
(* no handler about to say so, means a handler was cut off between         *)
(* _execute's own commit and decide's.                                     *)
HalfDoneNeedsCrash ==
    \A r \in Requests :
        /\ performed[r] > 0
        /\ status[r] # "executed"
        /\ \A a \in Approvers : ~(phase[a] = "performed" /\ job[a].request = r)
        => r \in interrupted

(* The ledger never tells of a decision that was not committed, nor of an  *)
(* execution of a request that is not executed.                            *)
LedgerTellsTheTruth ==
    \A e \in ledger :
        /\ status[e.request] # "absent"
        /\ e.event_type \in {"approved", "executed"} => Approved(e.request, e.role)
        /\ e.event_type = "rejected" => Rejected(e.request, e.role)
        /\ e.event_type = "executed" => status[e.request] = "executed"

(* A decided request stays decided: no handler that loaded it as pending   *)
(* overwrites the outcome of another.                                      *)
DecisionsStand ==
    [][\A r \in Requests : status[r] \in {"rejected", "executed"} => status'[r] = status[r]]_vars

(* The last signature executes the request: once all the approvals are  *)
(* committed and no handler is still at work on it, it is executed.        *)
QuorumExecutes ==
    \A r \in Requests :
        /\ Quorum(r)
        /\ \A h \in Handlers : phase[h] # "idle" => job[h].request # r
        => status[r] = "executed"

(* Overlapping handlers that read, flush, count and commit, and may be cut *)
(* off between any two of these, decide like a register in which every     *)
(* decision is one step: no role decides twice, no request is carried out  *)
(* without every role's approval or twice, and no outcome changes.         *)
Register == INSTANCE SignatureRegister WITH
    Roles <- APPROVER_ROLES,
    outcome <- status,
    signed <- approvals,
    carriedOut <- {r \in Requests : performed[r] > 0}

ImplementsRegister == Register!Spec
=============================================================================

------------------------ MODULE DeletionApprovalProofs ------------------------
(***************************************************************************)
(* The four-signature deletion workflow keeps its promises for any         *)
(* approvers, roles, requests and any number of handlers cut off: an       *)
(* execution needs every signature and happens once, decisions stand, and  *)
(* the ledger tells only of what was committed.                            *)
(*                                                                         *)
(* None of these is inductive.  What they rest on is the unique index of   *)
(* migration 0011: while a handler holds a role's vote, flushed and not    *)
(* committed, nobody else's vote of that role exists (VotesExclusive).     *)
(* So of a request whose votes are complete (SignaturesComplete), no       *)
(* handler can still be holding one.  From the same invariant the workflow *)
(* implements SignatureRegister, where every decision is one step.         *)
(***************************************************************************)
EXTENDS DeletionApproval, TLAPS

Deciding(a) == phase[a] \notin {"idle", "logging"}
Flushed(a) == phase[a] \in {"flushed", "short", "executing"}

\* The vote a handler has flushed is its role's only one, in the table and
\* among the handlers; the table holds one vote of a role for a request.
VotesExclusive ==
  /\ \A v, w \in approvals : v.request = w.request /\ v.role = w.role => v = w
  /\ \A a \in Approvers : Flushed(a) => ~RoleVoted(a) /\ ~RoleFlushed(a)

\* A handler that executes has counted every other role's committed approval;
\* one that has executed has committed its own as well.
SignaturesComplete ==
  \A a \in Approvers :
    /\ Flushed(a) \/ phase[a] = "performed" => job[a].decision = "approve"
    /\ phase[a] = "executing" =>
         \A role \in APPROVER_ROLES \ {Role[a]} : Approved(job[a].request, role)
    /\ phase[a] = "performed" => Quorum(job[a].request)

\* A rejected request has the vote that rejected it, and only requests that
\* were filed are decided.
DecisionsGrounded ==
  /\ \A r \in Requests :
       status[r] = "rejected" => \E role \in APPROVER_ROLES : Rejected(r, role)
  /\ \A a \in Approvers : Deciding(a) => status[job[a].request] # "absent"

IndInv ==
  /\ TypeOK
  /\ VotesExclusive
  /\ SignaturesComplete
  /\ DecisionsGrounded
  /\ ExecutesOnceWithQuorum

\* What the ledger's entry e may say in the present state.
Truthful(e) ==
  /\ status[e.request] # "absent"
  /\ e.event_type \in {"approved", "executed"} => Approved(e.request, e.role)
  /\ e.event_type = "rejected" => Rejected(e.request, e.role)
  /\ e.event_type = "executed" => status[e.request] = "executed"

\* The event a handler is about to log is as truthful as those it has logged.
EntriesTruthful == \A h \in Handlers : phase[h] = "logging" => Truthful(job[h])

----------------------------------------------------------------------------
(* A handler that decides has a job of the right shape, about a request.    *)
LEMMA DecidingJob ==
  ASSUME TypeOK, NEW a \in Approvers, Deciding(a)
  PROVE  /\ job[a] \in Jobs
         /\ job[a].request \in Requests
         /\ job[a].decision \in Decisions
         /\ Role[a] \in APPROVER_ROLES
         /\ Vote(a) \in Votes
<1>1. job[a] \in Jobs
  BY DEF TypeOK, Deciding, Handlers, Phases
<1> QED BY <1>1, RoleAssumption DEF Jobs, Vote, Votes

(* While the vote of one of its roles is missing from the table, a request  *)
(* has no quorum: it was not executed and its target not deactivated.       *)
LEMMA NoVoteNoExecution ==
  ASSUME IndInv, NEW a \in Approvers, Deciding(a), ~RoleVoted(a)
  PROVE  LET r == job[a].request IN
         ~Quorum(r) /\ performed[r] = 0 /\ status[r] # "executed"
<1>1. job[a].request \in Requests /\ Role[a] \in APPROVER_ROLES
  BY DecidingJob DEF IndInv
<1>2. ~Quorum(job[a].request)
  BY <1>1 DEF RoleVoted, Quorum, Approved
<1>3. performed[job[a].request] \in Nat
  BY <1>1 DEF IndInv, TypeOK
<1> QED BY <1>1, <1>2, <1>3 DEF IndInv, ExecutesOnceWithQuorum

(* No role has both approved and rejected a request.                        *)
LEMMA OneVotePerRole ==
  ASSUME VotesExclusive, NEW r, NEW role, Approved(r, role), Rejected(r, role)
  PROVE  FALSE
<1> DEFINE yes == [request |-> r, role |-> role, decision |-> "approve"]
           no == [request |-> r, role |-> role, decision |-> "reject"]
<1>1. yes \in approvals /\ no \in approvals
  BY DEF Approved, Rejected
<1>2. yes.request = no.request /\ yes.role = no.role /\ yes.decision # no.decision
  OBVIOUS
<1> HIDE DEF yes, no
<1> QED BY <1>1, <1>2 DEF VotesExclusive

(* A request that every role approved was rejected by none.                 *)
LEMMA QuorumNotRejected ==
  ASSUME IndInv, NEW r \in Requests, Quorum(r)
  PROVE  status[r] # "rejected"
<1> SUFFICES ASSUME status[r] = "rejected" PROVE FALSE
  OBVIOUS
<1>1. PICK role \in APPROVER_ROLES : Rejected(r, role)
  BY DEF IndInv, DecisionsGrounded
<1>2. Approved(r, role)
  BY DEF Quorum
<1> QED BY <1>1, <1>2, OneVotePerRole DEF IndInv

(* When a handler reaches _execute with its own vote the last one, nobody   *)
(* has rejected the request, and its commit completes the quorum.           *)
LEMMA LastVoteCompletes ==
  ASSUME IndInv, NEW a \in Approvers, phase[a] = "executing"
  PROVE  /\ status[job[a].request] # "rejected"
         /\ \A role \in APPROVER_ROLES :
              [request |-> job[a].request, role |-> role, decision |-> "approve"]
                \in approvals \cup {Vote(a)}
<1> DEFINE r == job[a].request
<1>1. Deciding(a) /\ Flushed(a)
  BY DEF Deciding, Flushed
<1>2. r \in Requests /\ job[a].decision = "approve" /\ ~RoleVoted(a)
  BY <1>1, DecidingJob DEF IndInv, SignaturesComplete, VotesExclusive
<1>3. \A role \in APPROVER_ROLES \ {Role[a]} : Approved(r, role)
  BY DEF IndInv, SignaturesComplete
<1>4. status[r] # "rejected"
  <2> SUFFICES ASSUME status[r] = "rejected" PROVE FALSE
    OBVIOUS
  <2>1. PICK role \in APPROVER_ROLES : Rejected(r, role)
    BY <1>2 DEF IndInv, DecisionsGrounded
  <2>2. role # Role[a]
    BY <2>1, <1>2 DEF RoleVoted, Rejected
  <2> QED BY <1>3, <2>1, <2>2, OneVotePerRole DEF IndInv
<1>5. [request |-> r, role |-> Role[a], decision |-> "approve"] = Vote(a)
  BY <1>2 DEF Vote
<1> QED BY <1>3, <1>4, <1>5 DEF Approved

(* Init establishes the inductive invariant: nothing is filed, nobody votes. *)
LEMMA InitIndInv == Init => IndInv
<1> SUFFICES ASSUME Init PROVE IndInv
  OBVIOUS
<1> USE DEF Init
<1>1. TypeOK
  BY BoundAssumption DEF TypeOK, Phases, Handlers
<1>2. VotesExclusive /\ SignaturesComplete
  BY DEF VotesExclusive, SignaturesComplete, Flushed, Handlers
<1>3. DecisionsGrounded /\ ExecutesOnceWithQuorum
  BY DEF DecisionsGrounded, ExecutesOnceWithQuorum, Deciding, Handlers
<1> QED BY <1>1, <1>2, <1>3 DEF IndInv

(* Every step keeps the types: a handler's job is of the shape its phase     *)
(* asks for, whichever handler moves.                                        *)
LEMMA TypeStep == IndInv /\ [Next]_vars => TypeOK'
<1> SUFFICES ASSUME IndInv, [Next]_vars PROVE TypeOK'
  OBVIOUS
<1>0. TypeOK
  BY DEF IndInv
<1> USE <1>0 DEF TypeOK, Handlers, Phases
<1>1. ASSUME NEW r \in Requests, NEW t \in Targets \cup {NoTarget},
             create_deletion_request(r, t)
      PROVE  TypeOK'
  BY <1>1, TargetAssumption DEF create_deletion_request, Answer, Entries
<1>2. ASSUME NEW a \in Approvers, NEW r \in Requests, NEW d \in Decisions,
             LoadRequest(a, r, d)
      PROVE  TypeOK'
  BY <1>2, TargetAssumption DEF LoadRequest, Jobs
<1>3. ASSUME NEW a \in Approvers, HandlerStep(a)
      PROVE  TypeOK'
  <2> USE TargetAssumption
  <2>1. ASSUME Deciding(a)
        PROVE  /\ Vote(a) \in Votes
               /\ job[a].request \in Requests
               /\ \A type \in {"approved", "rejected", "executed"} : Entry(a, type) \in Entries
    BY <2>1, DecidingJob DEF Entry, Entries
  <2>2. CASE CheckRoleVote(a)
    BY <2>2 DEF CheckRoleVote, Finish
  <2>3. CASE VoteConflicts(a)
    BY <2>3 DEF VoteConflicts, Finish
  <2>4. CASE Reject(a)
    BY <2>1, <2>4 DEF Reject, Answer, Deciding
  <2>5. CASE FlushApproval(a)
    BY <2>5 DEF FlushApproval
  <2>6. CASE CountApprovals(a)
    BY <2>6 DEF CountApprovals
  <2>7. CASE CommitApproval(a)
    BY <2>1, <2>7 DEF CommitApproval, Answer, Deciding
  <2>8. CASE _execute(a)
    BY <2>1, <2>8 DEF _execute, Deciding
  <2>9. CASE CommitExecuted(a)
    BY <2>1, <2>9 DEF CommitExecuted, Answer, Deciding
  <2> QED BY <1>3, <2>2, <2>3, <2>4, <2>5, <2>6, <2>7, <2>8, <2>9 DEF HandlerStep
<1>4. ASSUME NEW h \in Handlers, _log(h)
      PROVE  TypeOK'
  BY <1>4 DEF _log, Finish
<1>5. ASSUME NEW h \in Handlers, Crash(h)
      PROVE  TypeOK'
  <2>1. phase[h] = "performed" => job[h].request \in Requests
    BY DecidingJob DEF Deciding
  <2> QED BY <1>5, <2>1, BoundAssumption DEF Crash, Finish
<1>6. ASSUME NEW u \in Targets, AdminDeactivates(u) \/ (u \in Approvers /\ AdminReactivates(u))
      PROVE  TypeOK'
  BY <1>6 DEF AdminDeactivates, AdminReactivates, Accounts
<1>7. CASE UNCHANGED vars
  BY <1>7 DEF vars
<1> QED BY <1>1, <1>2, <1>3, <1>4, <1>5, <1>6, <1>7 DEF Next

(* A handler that holds no vote afterwards and writes neither votes nor      *)
(* outcomes disturbs nothing: it may have filed or loaded a request, been    *)
(* refused, logged its event or been cut off.                                *)
LEMMA NoVoteHeld ==
  ASSUME IndInv, NEW h \in Handlers,
         NEW p \in {"idle", "logging", "loaded", "unvoted"},
         phase' = [phase EXCEPT ![h] = p],
         \A g \in Handlers \ {h} : job'[g] = job[g],
         p \in {"loaded", "unvoted"} => status'[job'[h].request] # "absent",
         \A r \in Requests : status'[r] = status[r] \/ (status[r] = "absent" /\ status'[r] = "pending"),
         UNCHANGED <<approvals, performed>>
  PROVE  VotesExclusive' /\ SignaturesComplete' /\ DecisionsGrounded' /\ ExecutesOnceWithQuorum'
<1> USE DEF IndInv, TypeOK, Handlers
<1>1. ASSUME NEW a \in Approvers, Flushed(a)' \/ phase'[a] = "performed"
      PROVE  a # h /\ phase'[a] = phase[a] /\ job'[a] = job[a]
  BY <1>1 DEF Flushed
<1>2. VotesExclusive'
  BY <1>1 DEF VotesExclusive, Flushed, RoleVoted, RoleFlushed
<1>3. SignaturesComplete'
  BY <1>1 DEF SignaturesComplete, Flushed, Approved, Quorum
<1>4. DecisionsGrounded'
  <2>1. ASSUME NEW a \in Approvers, Deciding(a)'
        PROVE  status'[job'[a].request] # "absent"
    <3>1. CASE a = h
      BY <2>1, <3>1 DEF Deciding
    <3>2. CASE a # h
      <4>1. Deciding(a) /\ job'[a] = job[a]
        BY <2>1, <3>2 DEF Deciding
      <4>2. job[a].request \in Requests
        BY <4>1, DecidingJob
      <4> QED BY <4>1, <4>2 DEF DecisionsGrounded
    <3> QED BY <3>1, <3>2
  <2> QED BY <2>1 DEF DecisionsGrounded, Rejected
<1>5. ExecutesOnceWithQuorum'
  BY DEF ExecutesOnceWithQuorum, Quorum, Approved
<1> QED BY <1>2, <1>3, <1>4, <1>5

(* The commit of a handler's vote keeps the unique index's promise: nobody   *)
(* else had a vote of that role for that request, committed or flushed.      *)
LEMMA CommitVote ==
  ASSUME IndInv, NEW a \in Approvers, Deciding(a), ~RoleVoted(a), ~RoleFlushed(a),
         NEW p \in {"logging", "performed"},
         phase' = [phase EXCEPT ![a] = p],
         \A g \in Handlers \ {a} : job'[g] = job[g],
         approvals' = approvals \cup {Vote(a)}
  PROVE  VotesExclusive'
<1> USE DEF IndInv, TypeOK, Handlers
<1>1. Vote(a).request = job[a].request /\ Vote(a).role = Role[a]
  BY DEF Vote
<1>2. \A v, w \in approvals' : v.request = w.request /\ v.role = w.role => v = w
  BY <1>1 DEF VotesExclusive, RoleVoted
<1>3. ASSUME NEW b \in Approvers, Flushed(b)'
      PROVE  ~RoleVoted(b)' /\ ~RoleFlushed(b)'
  <2>1. b # a /\ phase'[b] = phase[b] /\ job'[b] = job[b] /\ Flushed(b)
    BY <1>3 DEF Flushed
  <2>2. ~RoleVoted(b) /\ ~RoleFlushed(b)
    BY <2>1 DEF VotesExclusive
  <2>3. ~(job[b].request = job[a].request /\ Role[b] = Role[a])
    BY <2>1 DEF Flushed, RoleFlushed
  <2>4. ~RoleVoted(b)'
    BY <1>1, <2>1, <2>2, <2>3 DEF RoleVoted
  <2>5. ~RoleFlushed(b)'
    BY <2>1, <2>2 DEF RoleFlushed
  <2> QED BY <2>4, <2>5
<1> QED BY <1>2, <1>3 DEF VotesExclusive

(* A decision that is committed leaves the other handlers' counts standing:  *)
(* approvals only ever gains rows.                                           *)
LEMMA CountsStand ==
  ASSUME IndInv, NEW a \in Approvers, Deciding(a),
         NEW p \in {"logging", "performed"},
         phase' = [phase EXCEPT ![a] = p],
         \A g \in Handlers \ {a} : job'[g] = job[g],
         approvals \subseteq approvals',
         p = "performed" => Quorum(job[a].request)' /\ job[a].decision = "approve" /\ job' = job
  PROVE  SignaturesComplete'
<1> USE DEF IndInv, TypeOK, Handlers
<1>1. ASSUME NEW b \in Approvers, b # a
      PROVE  /\ phase'[b] = phase[b] /\ job'[b] = job[b]
             /\ \A role \in APPROVER_ROLES :
                  Approved(job[b].request, role) => Approved(job[b].request, role)'
  BY <1>1 DEF Approved
<1> QED BY <1>1 DEF SignaturesComplete, Flushed, Quorum

(* A decided request still counts as decided, and a filed one as filed, once *)
(* a handler writes its request's outcome.                                   *)
LEMMA OutcomeGrounded ==
  ASSUME IndInv, NEW a \in Approvers, Deciding(a),
         NEW p \in {"logging", "performed"},
         phase' = [phase EXCEPT ![a] = p],
         \A g \in Handlers \ {a} : job'[g] = job[g],
         p = "performed" => job' = job,
         approvals \subseteq approvals',
         NEW outcome \in {status[job[a].request], "rejected", "executed"},
         status' = [status EXCEPT ![job[a].request] = outcome],
         outcome = "rejected" =>
           status[job[a].request] = "rejected"
             \/ (job[a].decision = "reject" /\ Vote(a) \in approvals')
  PROVE  DecisionsGrounded'
<1> USE DEF IndInv, TypeOK, Handlers
<1>1. job[a].request \in Requests /\ Role[a] \in APPROVER_ROLES
  BY DecidingJob
<1>2. ASSUME NEW r \in Requests, status'[r] = "rejected"
      PROVE  \E role \in APPROVER_ROLES : Rejected(r, role)'
  <2>1. CASE status[r] = "rejected"
    BY <2>1 DEF DecisionsGrounded, Rejected
  <2>2. CASE status[r] # "rejected"
    <3>1. r = job[a].request /\ job[a].decision = "reject" /\ Vote(a) \in approvals'
      BY <1>1, <1>2, <2>2
    <3>2. Vote(a) = [request |-> r, role |-> Role[a], decision |-> "reject"]
      BY <3>1 DEF Vote
    <3> QED BY <1>1, <3>1, <3>2 DEF Rejected
  <2> QED BY <2>1, <2>2
<1>3. ASSUME NEW b \in Approvers, Deciding(b)'
      PROVE  status'[job'[b].request] # "absent"
  <2>1. Deciding(b) /\ job'[b] = job[b]
    BY <1>3 DEF Deciding
  <2>2. job[b].request \in Requests /\ status[job[b].request] # "absent"
    BY <2>1, DecidingJob DEF DecisionsGrounded
  <2>3. status[job[a].request] # "absent"
    BY DEF DecisionsGrounded
  <2> QED BY <1>1, <2>1, <2>2, <2>3
<1> QED BY <1>2, <1>3 DEF DecisionsGrounded

(* Reject: the rejecting vote was missing, so the request is not executed;   *)
(* a handler that counted approvals counted none of this role.               *)
LEMMA RejectStep ==
  ASSUME IndInv, NEW a \in Approvers, Reject(a)
  PROVE  /\ VotesExclusive' /\ SignaturesComplete' /\ DecisionsGrounded' /\ ExecutesOnceWithQuorum'
         /\ status[job[a].request] # "executed"
<1> USE DEF Reject, Answer
<1>1. Deciding(a)
  BY DEF Deciding
<1>2. job[a].request \in Requests /\ performed[job[a].request] = 0 /\ status[job[a].request] # "executed"
  BY <1>1, DecidingJob, NoVoteNoExecution DEF IndInv
<1>3. phase' = [phase EXCEPT ![a] = "logging"] /\ \A g \in Handlers \ {a} : job'[g] = job[g]
  BY DEF IndInv, TypeOK, Handlers
<1>4. VotesExclusive'
  BY <1>1, <1>3, CommitVote
<1>5. SignaturesComplete'
  BY <1>1, <1>3, CountsStand
<1>6. job[a].decision = "reject" /\ Vote(a) \in approvals'
  OBVIOUS
<1>7. DecisionsGrounded'
  BY <1>1, <1>3, <1>6, OutcomeGrounded
<1>8. ExecutesOnceWithQuorum'
  BY <1>2 DEF ExecutesOnceWithQuorum, IndInv, TypeOK, Quorum, Approved
<1> QED BY <1>2, <1>4, <1>5, <1>7, <1>8

(* FlushApproval and CountApprovals: the handler takes hold of its role's    *)
(* vote, then counts the committed approvals and its own.                    *)
LEMMA HoldVoteStep ==
  ASSUME IndInv, NEW a \in Approvers, FlushApproval(a) \/ CountApprovals(a)
  PROVE  VotesExclusive' /\ SignaturesComplete' /\ DecisionsGrounded' /\ ExecutesOnceWithQuorum'
<1> USE DEF FlushApproval, CountApprovals, IndInv, TypeOK, Handlers
<1>1. Deciding(a) /\ Flushed(a)' /\ job[a].decision = "approve"
  BY DEF Deciding, Flushed, SignaturesComplete
<1>2. ~RoleVoted(a) /\ ~RoleFlushed(a)
  BY DEF VotesExclusive, Flushed
<1>3. \A b \in Approvers \ {a} : phase'[b] = phase[b]
  OBVIOUS
<1>4. VotesExclusive'
  <2>1. ~RoleFlushed(a)' /\ ~RoleVoted(a)'
    BY <1>2, <1>3 DEF RoleFlushed, RoleVoted
  <2>2. ASSUME NEW b \in Approvers, b # a, Flushed(b)'
        PROVE  ~RoleFlushed(b)' /\ ~RoleVoted(b)'
    <3>1. Flushed(b) /\ ~RoleFlushed(b) /\ ~RoleVoted(b)
      BY <1>3, <2>2 DEF Flushed, VotesExclusive
    <3>2. ~(job[b].request = job[a].request /\ Role[b] = Role[a])
      BY <1>2, <2>2, <3>1 DEF Flushed, RoleFlushed
    <3> QED BY <1>3, <3>1, <3>2 DEF RoleFlushed, RoleVoted
  <2> QED BY <2>1, <2>2 DEF VotesExclusive
<1>5. SignaturesComplete'
  <2>1. ASSUME phase'[a] = "executing", NEW role \in APPROVER_ROLES \ {Role[a]}
        PROVE  Approved(job[a].request, role)
    <3>1. role \in approved_roles(a)
      BY <2>1
    <3>2. PICK v \in approvals \cup {Vote(a)} :
            v.role = role /\ v.request = job[a].request /\ v.decision = "approve"
      BY <3>1 DEF approved_roles
    <3>3. v \in approvals
      BY <2>1, <3>2 DEF Vote
    <3>4. v = [request |-> job[a].request, role |-> role, decision |-> "approve"]
      BY <3>2, <3>3 DEF Votes
    <3> QED BY <3>3, <3>4 DEF Approved
  <2> QED BY <1>1, <1>3, <2>1 DEF SignaturesComplete, Flushed, Approved, Quorum
<1>6. DecisionsGrounded'
  BY <1>1, <1>3 DEF DecisionsGrounded, Deciding, Rejected
<1>7. ExecutesOnceWithQuorum'
  BY DEF ExecutesOnceWithQuorum, Quorum, Approved
<1> QED BY <1>4, <1>5, <1>6, <1>7

(* CommitApproval: one more committed approval, no outcome.                  *)
LEMMA CommitApprovalStep ==
  ASSUME IndInv, NEW a \in Approvers, CommitApproval(a)
  PROVE  VotesExclusive' /\ SignaturesComplete' /\ DecisionsGrounded' /\ ExecutesOnceWithQuorum'
<1> USE DEF CommitApproval, Answer
<1>1. Deciding(a) /\ ~RoleVoted(a) /\ ~RoleFlushed(a)
  BY DEF Deciding, Flushed, IndInv, VotesExclusive
<1>2. /\ phase' = [phase EXCEPT ![a] = "logging"]
      /\ \A g \in Handlers \ {a} : job'[g] = job[g]
      /\ approvals \subseteq approvals'
      /\ status' = [status EXCEPT ![job[a].request] = status[job[a].request]]
  BY DEF IndInv, TypeOK, Handlers
<1>3. VotesExclusive'
  BY <1>1, <1>2, CommitVote
<1>4. SignaturesComplete'
  BY <1>1, <1>2, CountsStand
<1>5. DecisionsGrounded'
  <2>1. \A r \in Requests : status'[r] = "rejected" => \E role \in APPROVER_ROLES : Rejected(r, role)'
    BY <1>2 DEF IndInv, DecisionsGrounded, Rejected
  <2>2. ASSUME NEW b \in Approvers, Deciding(b)'
        PROVE  status'[job'[b].request] # "absent"
    BY <2>2 DEF Deciding, IndInv, DecisionsGrounded, TypeOK, Handlers
  <2> QED BY <2>1, <2>2 DEF DecisionsGrounded
<1>6. ExecutesOnceWithQuorum'
  BY <1>2 DEF IndInv, ExecutesOnceWithQuorum, Quorum, Approved
<1> QED BY <1>3, <1>4, <1>5, <1>6

(* _execute: the commit inside deactivate_user brings the last vote with it, *)
(* and the target is deactivated for the first time.                         *)
LEMMA ExecuteStep ==
  ASSUME IndInv, NEW a \in Approvers, _execute(a)
  PROVE  VotesExclusive' /\ SignaturesComplete' /\ DecisionsGrounded' /\ ExecutesOnceWithQuorum'
<1> USE DEF _execute
<1>1. Deciding(a) /\ Flushed(a) /\ ~RoleVoted(a) /\ ~RoleFlushed(a)
  BY DEF Deciding, Flushed, IndInv, VotesExclusive
<1>2. /\ job[a].request \in Requests /\ job[a].decision = "approve"
      /\ performed[job[a].request] = 0
  BY <1>1, DecidingJob, NoVoteNoExecution DEF IndInv, SignaturesComplete
<1>3. Quorum(job[a].request)'
  BY LastVoteCompletes DEF Quorum, Approved
<1>4. /\ phase' = [phase EXCEPT ![a] = "performed"]
      /\ job' = job /\ \A g \in Handlers \ {a} : job'[g] = job[g]
      /\ approvals \subseteq approvals' /\ approvals' = approvals \cup {Vote(a)}
  OBVIOUS
<1>5. VotesExclusive'
  BY <1>1, <1>4, CommitVote
<1>6. SignaturesComplete'
  BY <1>1, <1>2, <1>3, <1>4, CountsStand
<1>7. DecisionsGrounded'
  BY <1>4 DEF IndInv, TypeOK, Handlers, DecisionsGrounded, Deciding, Rejected
<1>8. ExecutesOnceWithQuorum'
  <2> SUFFICES ASSUME NEW r \in Requests
               PROVE  /\ performed'[r] > 0 \/ status'[r] = "executed" => Quorum(r)'
                      /\ performed'[r] <= 1
    BY DEF ExecutesOnceWithQuorum
  <2>1. CASE r = job[a].request
    BY <1>2, <1>3, <1>4, <2>1 DEF IndInv, TypeOK
  <2>2. CASE r # job[a].request
    BY <1>4, <2>2 DEF IndInv, TypeOK, ExecutesOnceWithQuorum, Quorum, Approved
  <2> QED BY <2>1, <2>2
<1> QED BY <1>5, <1>6, <1>7, <1>8

(* CommitExecuted: the request is called executed with its quorum complete,  *)
(* and had not been rejected.                                                *)
LEMMA CommitExecutedStep ==
  ASSUME IndInv, NEW a \in Approvers, CommitExecuted(a)
  PROVE  /\ VotesExclusive' /\ SignaturesComplete' /\ DecisionsGrounded' /\ ExecutesOnceWithQuorum'
         /\ status[job[a].request] # "rejected"
<1> DEFINE r == job[a].request
<1> USE DEF CommitExecuted, Answer
<1>1. Deciding(a) /\ r \in Requests /\ Role[a] \in APPROVER_ROLES
  BY DecidingJob DEF Deciding, IndInv
<1>2. /\ phase' = [phase EXCEPT ![a] = "logging"]
      /\ \A g \in Handlers \ {a} : job'[g] = job[g]
      /\ approvals \subseteq approvals' /\ approvals' = approvals \cup {Vote(a)}
      /\ status' = [status EXCEPT ![r] = "executed"]
  BY DEF IndInv, TypeOK, Handlers
<1>3. /\ status[r] # "rejected"
      /\ \A role \in APPROVER_ROLES :
           [request |-> r, role |-> role, decision |-> "approve"] \in approvals'
      /\ VotesExclusive'
  <2>1. CASE phase[a] = "performed"
    <3>1. Quorum(r) /\ job[a].decision = "approve"
      BY <2>1 DEF IndInv, SignaturesComplete
    <3>2. Vote(a) \in approvals
      BY <1>1, <3>1 DEF Quorum, Approved, Vote
    <3>3. approvals' = approvals
      BY <1>2, <3>2
    <3>4. ASSUME NEW b \in Approvers, Flushed(b)'
          PROVE  ~RoleVoted(b)' /\ ~RoleFlushed(b)'
      <4>1. b # a /\ Flushed(b) /\ phase'[b] = phase[b] /\ job'[b] = job[b]
        BY <1>2, <3>4 DEF IndInv, TypeOK, Handlers, Flushed
      <4>2. ~RoleVoted(b) /\ ~RoleFlushed(b)
        BY <4>1 DEF IndInv, VotesExclusive
      <4>3. ~RoleFlushed(b)'
        BY <1>2, <4>1, <4>2 DEF IndInv, TypeOK, Handlers, RoleFlushed
      <4> QED BY <3>3, <4>1, <4>2, <4>3 DEF RoleVoted
    <3>5. VotesExclusive'
      BY <3>3, <3>4 DEF IndInv, VotesExclusive
    <3> QED BY <1>1, <3>1, <3>3, <3>5, QuorumNotRejected DEF Quorum, Approved
  <2>2. CASE phase[a] = "executing"
    <3>1. ~RoleVoted(a) /\ ~RoleFlushed(a)
      BY <2>2 DEF IndInv, VotesExclusive, Flushed
    <3> QED BY <1>1, <1>2, <2>2, <3>1, CommitVote, LastVoteCompletes
  <2> QED BY <2>1, <2>2
<1>4. SignaturesComplete'
  BY <1>1, <1>2, CountsStand
<1>5. DecisionsGrounded'
  BY <1>1, <1>2, OutcomeGrounded
<1>6. ExecutesOnceWithQuorum'
  BY <1>1, <1>2, <1>3 DEF IndInv, TypeOK, ExecutesOnceWithQuorum, Quorum, Approved
<1> QED BY <1>3, <1>4, <1>5, <1>6

(* Every step preserves the inductive invariant.                             *)
LEMMA StepIndInv == IndInv /\ [Next]_vars => IndInv'
<1> SUFFICES ASSUME IndInv, [Next]_vars PROVE IndInv'
  OBVIOUS
<1> DEFINE Rest == VotesExclusive /\ SignaturesComplete /\ DecisionsGrounded /\ ExecutesOnceWithQuorum
<1>0. TypeOK'
  BY TypeStep
<1>1. ASSUME NEW r \in Requests, NEW t \in Targets \cup {NoTarget},
             create_deletion_request(r, t)
      PROVE  Rest'
  <2>1. \A g \in Handlers \ {Admin} : job'[g] = job[g]
    BY <1>1 DEF create_deletion_request, Answer, IndInv, TypeOK, Handlers
  <2>2. \A q \in Requests : status'[q] = status[q] \/ (status[q] = "absent" /\ status'[q] = "pending")
    BY <1>1 DEF create_deletion_request, IndInv, TypeOK
  <2> QED BY <1>1, <2>1, <2>2, NoVoteHeld DEF create_deletion_request, Answer, Handlers
<1>2. ASSUME NEW a \in Approvers, NEW r \in Requests, NEW d \in Decisions,
             LoadRequest(a, r, d)
      PROVE  Rest'
  <2>1. /\ \A g \in Handlers \ {a} : job'[g] = job[g]
        /\ status'[job'[a].request] # "absent"
    BY <1>2 DEF LoadRequest, IndInv, TypeOK, Handlers
  <2> QED BY <1>2, <2>1, NoVoteHeld DEF LoadRequest, Handlers
<1>3. ASSUME NEW a \in Approvers, HandlerStep(a)
      PROVE  Rest'
  <2>1. CASE CheckRoleVote(a) \/ VoteConflicts(a)
    <3>1. \A g \in Handlers \ {a} : job'[g] = job[g]
      BY <2>1 DEF CheckRoleVote, VoteConflicts, Finish, IndInv, TypeOK, Handlers
    <3>2. CASE RoleVoted(a)
      BY <2>1, <3>1, <3>2, NoVoteHeld DEF CheckRoleVote, VoteConflicts, Finish, Handlers
    <3>3. CASE ~RoleVoted(a)
      <4>1. /\ phase' = [phase EXCEPT ![a] = "unvoted"] /\ job' = job
            /\ status'[job'[a].request] # "absent"
            /\ UNCHANGED <<status, approvals, performed>>
        BY <2>1, <3>3 DEF CheckRoleVote, VoteConflicts, IndInv, DecisionsGrounded, Deciding
      <4> QED BY <3>1, <4>1, NoVoteHeld DEF Handlers
    <3> QED BY <3>2, <3>3
  <2>2. CASE Reject(a)
    BY <2>2, RejectStep
  <2>3. CASE FlushApproval(a) \/ CountApprovals(a)
    BY <2>3, HoldVoteStep
  <2>4. CASE CommitApproval(a)
    BY <2>4, CommitApprovalStep
  <2>5. CASE _execute(a)
    BY <2>5, ExecuteStep
  <2>6. CASE CommitExecuted(a)
    BY <2>6, CommitExecutedStep
  <2> QED BY <1>3, <2>1, <2>2, <2>3, <2>4, <2>5, <2>6 DEF HandlerStep
<1>4. ASSUME NEW h \in Handlers, _log(h) \/ Crash(h)
      PROVE  Rest'
  <2>1. \A g \in Handlers \ {h} : job'[g] = job[g]
    BY <1>4 DEF _log, Crash, Finish, IndInv, TypeOK
  <2> QED BY <1>4, <2>1, NoVoteHeld DEF _log, Crash, Finish
<1>5. ASSUME UNCHANGED <<status, approvals, phase, job, performed>>
      PROVE  Rest'
  BY <1>5 DEF IndInv, VotesExclusive, SignaturesComplete, DecisionsGrounded, ExecutesOnceWithQuorum,
              Flushed, RoleVoted, RoleFlushed, Deciding, Approved, Rejected, Quorum
<1>6. ASSUME NEW u, AdminDeactivates(u) \/ AdminReactivates(u)
      PROVE  Rest'
  BY <1>5, <1>6 DEF AdminDeactivates, AdminReactivates
<1>7. ASSUME UNCHANGED vars
      PROVE  Rest'
  BY <1>5, <1>7 DEF vars
<1>8. Rest'
  BY <1>1, <1>2, <1>3, <1>4, <1>6, <1>7 DEF Next
<1> QED BY <1>0, <1>8 DEF IndInv

(* The inductive invariant holds in every reachable state.                   *)
THEOREM Invariance == Spec => []IndInv
BY InitIndInv, StepIndInv, PTL DEF Spec

(* The tables and the handlers' local state have their types, in every       *)
(* interleaving of the handlers.                                             *)
THEOREM TypeCorrect == Spec => []TypeOK
<1>1. IndInv => TypeOK
  BY DEF IndInv
<1> QED BY <1>1, Invariance, PTL

(* A target is deactivated, and a request called executed, only with the     *)
(* committed approval of every role, and a target at most once per request,  *)
(* however the approvers' handlers overlap or are cut off.                   *)
THEOREM ExecutionNeedsQuorumOnce == Spec => []ExecutesOnceWithQuorum
<1>1. IndInv => ExecutesOnceWithQuorum
  BY DEF IndInv
<1> QED BY <1>1, Invariance, PTL

(* A step overwrites no decided outcome: a handler that loaded the request   *)
(* as pending and decides it after another has decided it writes only what   *)
(* is already there.                                                         *)
LEMMA StatusStep ==
  ASSUME IndInv, [Next]_vars, NEW r \in Requests
  PROVE  /\ status[r] \in {"rejected", "executed"} => status'[r] = status[r]
         /\ status[r] # "absent" => status'[r] # "absent"
<1> USE DEF IndInv, TypeOK
<1>1. ASSUME NEW q \in Requests, NEW t \in Targets \cup {NoTarget},
             create_deletion_request(q, t)
      PROVE  status[r] # "absent" => status'[r] = status[r]
  BY <1>1 DEF create_deletion_request
<1>2. ASSUME NEW a \in Approvers, Reject(a)
      PROVE  status'[r] = status[r] \/ (status[r] # "executed" /\ status'[r] = "rejected")
  BY <1>2, RejectStep DEF Reject
<1>3. ASSUME NEW a \in Approvers, CommitExecuted(a)
      PROVE  status'[r] = status[r] \/ (status[r] # "rejected" /\ status'[r] = "executed")
  BY <1>3, CommitExecutedStep DEF CommitExecuted
<1>4. ASSUME UNCHANGED status
      PROVE  status'[r] = status[r]
  BY <1>4
<1> QED
  BY <1>1, <1>2, <1>3, <1>4
  DEF Next, HandlerStep, LoadRequest, CheckRoleVote, VoteConflicts, FlushApproval, CountApprovals,
      CommitApproval, _execute, _log, Crash, AdminDeactivates, AdminReactivates, vars

(* A decided request stays decided.                                          *)
THEOREM DecisionsAlwaysStand == Spec => DecisionsStand
<1>1. IndInv /\ [Next]_vars =>
        [\A r \in Requests : status[r] \in {"rejected", "executed"} => status'[r] = status[r]]_vars
  BY StatusStep
<1> QED BY <1>1, Invariance, PTL DEF Spec, DecisionsStand

(* HalfDoneNeedsCrash is kept by every step: only _execute starts a half-done *)
(* request, and then its handler is about to say "executed"; only a crash or  *)
(* CommitExecuted takes that handler away.                                    *)
LEMMA HalfDoneStep == IndInv /\ HalfDoneNeedsCrash /\ [Next]_vars => HalfDoneNeedsCrash'
<1> SUFFICES ASSUME IndInv, HalfDoneNeedsCrash, [Next]_vars, NEW r \in Requests,
                    performed'[r] > 0, status'[r] # "executed",
                    \A a \in Approvers : ~(phase'[a] = "performed" /\ job'[a].request = r)
             PROVE  r \in interrupted'
  BY DEF HalfDoneNeedsCrash
<1> DEFINE Performing(a) == phase[a] = "performed" /\ job[a].request = r
<1> USE DEF IndInv, TypeOK, Handlers
<1>1. status[r] # "executed"
  BY StatusStep
<1>2. ASSUME NEW a \in Approvers, _execute(a)
      PROVE  performed'[r] = performed[r]
  BY <1>2 DEF _execute
<1>3. performed[r] > 0
  BY <1>2
  DEF Next, HandlerStep, create_deletion_request, LoadRequest, CheckRoleVote, VoteConflicts, Reject,
      FlushApproval, CountApprovals, CommitApproval, CommitExecuted, _log, Crash,
      AdminDeactivates, AdminReactivates, vars
<1>4. interrupted \subseteq interrupted'
  BY DEF Next, HandlerStep, create_deletion_request, LoadRequest, CheckRoleVote, VoteConflicts, Reject,
         FlushApproval, CountApprovals, CommitApproval, _execute, CommitExecuted, _log, Crash,
         AdminDeactivates, AdminReactivates, vars
<1>5. CASE \A a \in Approvers : ~Performing(a)
  BY <1>1, <1>3, <1>4, <1>5 DEF HalfDoneNeedsCrash
<1>6. ASSUME NEW a \in Approvers, Performing(a)
      PROVE  r \in interrupted'
  <2>1. CASE CommitExecuted(a)
    BY <1>6, <2>1 DEF CommitExecuted
  <2>2. CASE Crash(a)
    BY <1>6, <2>2 DEF Crash
  <2>3. CASE ~CommitExecuted(a) /\ ~Crash(a)
    <3>1. a # Admin
      BY TargetAssumption
    <3>2. \A h \in Handlers \ {a} :
            [phase EXCEPT ![h] = "idle"][a] = phase[a] /\ [job EXCEPT ![h] = NoJob][a] = job[a]
      OBVIOUS
    <3>3. ASSUME NEW b \in Approvers, HandlerStep(b)
          PROVE  phase'[a] = phase[a] /\ job'[a] = job[a]
      BY <1>6, <2>3, <3>3
      DEF HandlerStep, CheckRoleVote, VoteConflicts, Reject, FlushApproval, CountApprovals,
          CommitApproval, _execute, CommitExecuted, Finish, Answer
    <3>4. phase'[a] = phase[a] /\ job'[a] = job[a]
      BY <1>6, <2>3, <3>1, <3>3
      DEF Next, create_deletion_request, LoadRequest, _log, Crash, Finish, Answer,
          AdminDeactivates, AdminReactivates, vars
    <3> QED BY <1>6, <3>4
  <2> QED BY <2>1, <2>2, <2>3
<1> QED BY <1>5, <1>6

(* A target deactivated under a request that does not say "executed", with   *)
(* no handler about to say so, means a handler was cut off between           *)
(* _execute's own commit and decide's.                                       *)
THEOREM HalfDoneOnlyByCrash == Spec => []HalfDoneNeedsCrash
<1>1. Init => HalfDoneNeedsCrash
  BY DEF Init, HalfDoneNeedsCrash
<1> QED BY <1>1, HalfDoneStep, Invariance, PTL DEF Spec

(* What an event says stays true: requests stay filed, votes stay in the     *)
(* table, an executed request stays executed.                                *)
LEMMA TruthStands ==
  ASSUME IndInv, [Next]_vars, NEW e \in Entries, Truthful(e)
  PROVE  Truthful(e)'
<1>1. e.request \in Requests
  BY DEF Entries
<1>2. approvals \subseteq approvals'
  BY DEF Next, HandlerStep, create_deletion_request, LoadRequest, CheckRoleVote, VoteConflicts, Reject,
         FlushApproval, CountApprovals, CommitApproval, _execute, CommitExecuted, _log, Crash,
         AdminDeactivates, AdminReactivates, vars
<1> QED BY <1>1, <1>2, StatusStep DEF Truthful, Approved, Rejected

(* The event a handler goes on to log is about what its commit wrote.        *)
LEMMA AnswerTruthful ==
  ASSUME IndInv, NEW a \in Approvers, Reject(a) \/ CommitApproval(a) \/ CommitExecuted(a)
  PROVE  Truthful(job[a])'
<1> USE DEF Answer, Entry
<1>1. /\ Deciding(a) /\ job[a].request \in Requests /\ status[job[a].request] # "absent"
      /\ status \in [Requests -> {"absent", "pending", "rejected", "executed"}]
  BY DecidingJob DEF IndInv, TypeOK, DecisionsGrounded, Deciding, Reject, CommitApproval, CommitExecuted
<1>2. DOMAIN job = Handlers
  BY DEF IndInv, TypeOK
<1>3. CASE Reject(a)
  <2>1. Vote(a) = [request |-> job[a].request, role |-> Role[a], decision |-> "reject"]
    BY <1>3 DEF Reject, Vote
  <2>2. job'[a] = [request |-> job[a].request, role |-> Role[a], event_type |-> "rejected"]
    BY <1>2, <1>3 DEF Reject, Handlers
  <2> QED BY <1>1, <1>3, <2>1, <2>2 DEF Reject, Truthful, Rejected
<1>4. CASE CommitApproval(a)
  <2>1. Vote(a) = [request |-> job[a].request, role |-> Role[a], decision |-> "approve"]
    BY <1>4 DEF CommitApproval, Vote, Flushed, IndInv, SignaturesComplete
  <2>2. job'[a] = [request |-> job[a].request, role |-> Role[a], event_type |-> "approved"]
    BY <1>2, <1>4 DEF CommitApproval, Handlers
  <2> QED BY <1>1, <1>4, <2>1, <2>2 DEF CommitApproval, Truthful, Approved
<1>5. CASE CommitExecuted(a)
  <2>1. Vote(a) = [request |-> job[a].request, role |-> Role[a], decision |-> "approve"]
    BY <1>5 DEF CommitExecuted, Vote, Flushed, IndInv, SignaturesComplete
  <2>2. job'[a] = [request |-> job[a].request, role |-> Role[a], event_type |-> "executed"]
    BY <1>2, <1>5 DEF CommitExecuted, Handlers
  <2> QED BY <1>1, <1>5, <2>1, <2>2 DEF CommitExecuted, Truthful, Approved
<1> QED BY <1>3, <1>4, <1>5

(* Every step keeps the ledger, and what is about to be logged, truthful.    *)
LEMMA TruthStep ==
  IndInv /\ LedgerTellsTheTruth /\ EntriesTruthful /\ [Next]_vars
    => LedgerTellsTheTruth' /\ EntriesTruthful'
<1> SUFFICES ASSUME IndInv, LedgerTellsTheTruth, EntriesTruthful, [Next]_vars
             PROVE  LedgerTellsTheTruth' /\ EntriesTruthful'
  OBVIOUS
<1>1. \A h \in Handlers : phase[h] = "logging" => job[h] \in Entries /\ Truthful(job[h])
  BY DEF IndInv, TypeOK, EntriesTruthful
<1>2. LedgerTellsTheTruth'
  <2>1. \A e \in ledger : e \in Entries /\ Truthful(e)
    BY DEF IndInv, TypeOK, LedgerTellsTheTruth, Truthful
  <2>2. \A e \in ledger' : e \in ledger \/ \E h \in Handlers : phase[h] = "logging" /\ e = job[h]
    BY DEF Next, HandlerStep, create_deletion_request, LoadRequest, CheckRoleVote, VoteConflicts, Reject,
           FlushApproval, CountApprovals, CommitApproval, _execute, CommitExecuted, _log, Crash,
           AdminDeactivates, AdminReactivates, vars
  <2>3. \A e \in ledger' : Truthful(e)'
    BY <1>1, <2>1, <2>2, TruthStands
  <2> QED BY <2>3 DEF LedgerTellsTheTruth, Truthful
<1>3. ASSUME NEW h \in Handlers, phase'[h] = "logging"
      PROVE  Truthful(job[h])'
  <2> USE DEF IndInv, TypeOK
  <2>1. CASE phase[h] = "logging" /\ job'[h] = job[h]
    BY <1>1, <2>1, TruthStands DEF Truthful, Approved, Rejected
  <2>2. ASSUME NEW r \in Requests, NEW t \in Targets \cup {NoTarget},
               create_deletion_request(r, t), h = Admin
        PROVE  Truthful(job[h])'
    BY <2>2 DEF create_deletion_request, Answer, Truthful
  <2>3. ASSUME h \in Approvers, Reject(h) \/ CommitApproval(h) \/ CommitExecuted(h)
        PROVE  Truthful(job[h])'
    BY <2>3, AnswerTruthful
  <2>4. \/ phase[h] = "logging" /\ job'[h] = job[h]
        \/ h = Admin /\ \E r \in Requests, t \in Targets \cup {NoTarget} : create_deletion_request(r, t)
        \/ h \in Approvers /\ (Reject(h) \/ CommitApproval(h) \/ CommitExecuted(h))
    BY <1>3
    DEF Next, HandlerStep, create_deletion_request, LoadRequest, CheckRoleVote, VoteConflicts, Reject,
        FlushApproval, CountApprovals, CommitApproval, _execute, CommitExecuted, _log, Crash,
        AdminDeactivates, AdminReactivates, vars, Finish, Answer, Handlers
  <2> QED BY <2>1, <2>2, <2>3, <2>4
<1>4. EntriesTruthful'
  BY <1>3 DEF EntriesTruthful, Truthful, Approved, Rejected
<1> QED BY <1>2, <1>4

(* The ledger never tells of a decision that was not committed, nor of an    *)
(* execution of a request that is not executed, although every event is      *)
(* appended by a transaction of its own after the business commit.           *)
THEOREM LedgerAlwaysTruthful == Spec => []LedgerTellsTheTruth
<1>1. Init => LedgerTellsTheTruth /\ EntriesTruthful
  BY DEF Init, LedgerTellsTheTruth, EntriesTruthful
<1> QED BY <1>1, TruthStep, Invariance, PTL DEF Spec

----------------------------------------------------------------------------
(* The register.                                                             *)

\* Who has deactivated the target is about to say so.
PerformedCounted ==
  \A a \in Approvers : phase[a] = "performed" => performed[job[a].request] > 0

CarriedOut == {r \in Requests : performed[r] > 0}

(* Once _execute has counted a deactivation, nothing takes the count back.   *)
LEMMA CountStep == IndInv /\ PerformedCounted /\ [Next]_vars => PerformedCounted'
<1> SUFFICES ASSUME IndInv, PerformedCounted, [Next]_vars,
                    NEW a \in Approvers, phase'[a] = "performed"
             PROVE  performed'[job'[a].request] > 0
  BY DEF PerformedCounted
<1> USE DEF IndInv, TypeOK, Handlers
<1>1. ASSUME _execute(a)
      PROVE  performed'[job'[a].request] > 0
  <2>1. job'[a] = job[a] /\ job[a].request \in Requests
    BY <1>1, DecidingJob DEF _execute, Deciding
  <2>2. performed'[job[a].request] = performed[job[a].request] + 1
    BY <1>1, <2>1 DEF _execute
  <2>3. performed[job[a].request] \in Nat
    BY <2>1
  <2> DEFINE before == performed[job[a].request]
             after == performed'[job[a].request]
  <2>4. before \in Nat /\ after = before + 1
    BY <2>2, <2>3
  <2> HIDE DEF before, after
  <2>5. after > 0
    BY <2>4
  <2> QED BY <2>1, <2>5 DEF after
<1>2. ASSUME phase[a] = "performed", job'[a] = job[a]
      PROVE  performed'[job'[a].request] > 0
  <2>1. job[a].request \in Requests /\ performed[job[a].request] > 0
    BY <1>2, DecidingJob DEF Deciding, PerformedCounted
  <2>2. ASSUME NEW b \in Approvers, _execute(b), job[b].request = job[a].request
        PROVE  FALSE
    <3>1. Deciding(b) /\ Flushed(b) /\ ~RoleVoted(b)
      BY <2>2 DEF _execute, Deciding, Flushed, VotesExclusive
    <3>2. performed[job[b].request] = 0
      BY <3>1, NoVoteNoExecution
    <3> QED BY <2>1, <2>2, <3>2
  <2>3. ASSUME NEW b \in Approvers, _execute(b)
        PROVE  performed'[job[a].request] = performed[job[a].request]
    BY <2>1, <2>2, <2>3 DEF _execute
  <2>4. performed'[job[a].request] = performed[job[a].request]
    BY <2>3
    DEF Next, HandlerStep, create_deletion_request, LoadRequest, CheckRoleVote, VoteConflicts, Reject,
        FlushApproval, CountApprovals, CommitApproval, CommitExecuted, _log, Crash,
        AdminDeactivates, AdminReactivates, vars
  <2> QED BY <1>2, <2>1, <2>4
<1>3. ~_execute(a) => phase[a] = "performed" /\ job'[a] = job[a]
  <2>1. a # Admin
    BY TargetAssumption
  <2>2. \A h \in Handlers \ {a} : [job EXCEPT ![h] = NoJob][a] = job[a]
    OBVIOUS
  <2>3. ASSUME NEW b \in Approvers, HandlerStep(b), ~_execute(a)
        PROVE  phase[a] = "performed" /\ job'[a] = job[a]
    BY <2>3
    DEF HandlerStep, CheckRoleVote, VoteConflicts, Reject, FlushApproval, CountApprovals,
        CommitApproval, _execute, CommitExecuted, Finish, Answer
  <2> QED
    BY <2>1, <2>2, <2>3
    DEF Next, create_deletion_request, LoadRequest, _log, Crash, Finish, Answer,
        AdminDeactivates, AdminReactivates, vars
<1> QED BY <1>1, <1>2, <1>3

(* The commit of the vote a handler holds is its role's signature: its role  *)
(* has not signed, and the request was filed.                                *)
LEMMA VoteSigns ==
  ASSUME IndInv, NEW a \in Approvers, Deciding(a), ~RoleVoted(a),
         approvals' = approvals \cup {Vote(a)}, NEW r, r = job[a].request
  PROVE  /\ r \in Requests /\ Role[a] \in APPROVER_ROLES
         /\ Register!Sign(r, Role[a], job[a].decision)
         /\ status[r] \in {"pending", "rejected"}
         /\ r \notin CarriedOut
<1>1. r \in Requests /\ Role[a] \in APPROVER_ROLES
  BY DecidingJob DEF IndInv
<1>2. ~Register!HasSigned(r, Role[a])
  BY DEF Register!HasSigned, Register!Signature, RoleVoted
<1>3. performed[r] = 0 /\ status[r] # "executed"
  BY NoVoteNoExecution
<1>4. status[r] \in {"pending", "rejected"}
  BY <1>1, <1>3 DEF IndInv, TypeOK, DecisionsGrounded
<1>5. Vote(a) = Register!Signature(r, Role[a], job[a].decision)
  BY DEF Vote, Register!Signature
<1> QED BY <1>1, <1>2, <1>3, <1>4, <1>5 DEF Register!Sign, CarriedOut

(* A handler that executes completes the approvals of a pending request.     *)
LEMMA LastVoteSigns ==
  ASSUME IndInv, NEW a \in Approvers, phase[a] = "executing",
         approvals' = approvals \cup {Vote(a)}, NEW r, r = job[a].request
  PROVE  /\ r \in Requests /\ Role[a] \in APPROVER_ROLES
         /\ Register!Sign(r, Role[a], "approve")
         /\ Register!Unanimous(r, approvals')
         /\ status[r] = "pending"
         /\ r \notin CarriedOut
<1>1. Deciding(a) /\ Flushed(a)
  BY DEF Deciding, Flushed
<1>2. job[a].decision = "approve" /\ ~RoleVoted(a)
  BY <1>1 DEF IndInv, SignaturesComplete, VotesExclusive
<1>3. Register!Unanimous(r, approvals')
  BY LastVoteCompletes DEF Register!Unanimous, Register!Signature
<1>4. status[r] # "rejected"
  BY LastVoteCompletes
<1> QED BY <1>1, <1>2, <1>3, <1>4, VoteSigns

(* _execute carries the request out.                                         *)
LEMMA ExecuteCarriesOut ==
  ASSUME IndInv, NEW a \in Approvers, _execute(a), NEW r, r = job[a].request
  PROVE  Register!CarryOut(r, Role[a])
<1>1. /\ phase[a] = "executing" /\ approvals' = approvals \cup {Vote(a)}
      /\ performed' = [performed EXCEPT ![r] = @ + 1] /\ status' = status
  BY DEF _execute
<1>2. /\ r \in Requests
      /\ Register!Sign(r, Role[a], "approve") /\ Register!Unanimous(r, approvals')
      /\ status[r] = "pending" /\ r \notin CarriedOut
  BY <1>1, LastVoteSigns
<1>3. \A q \in Requests : performed[q] \in Nat
  BY DEF IndInv, TypeOK
<1>4. \A q \in Requests : performed'[q] = IF q = r THEN performed[q] + 1 ELSE performed[q]
  BY <1>1 DEF IndInv, TypeOK
<1>5. \A q \in Requests : performed'[q] > 0 <=> q = r \/ performed[q] > 0
  BY <1>3, <1>4
<1>6. CarriedOut' = CarriedOut \cup {r}
  BY <1>2, <1>5 DEF CarriedOut
<1> QED BY <1>1, <1>2, <1>6 DEF Register!CarryOut, CarriedOut

(* CommitExecuted concludes what _execute carried out, or a request that     *)
(* names nothing; or repeats what the register already says.                 *)
LEMMA CommitConcludes ==
  ASSUME IndInv, PerformedCounted, NEW a \in Approvers, CommitExecuted(a),
         NEW r, r = job[a].request
  PROVE  \/ Register!Conclude(r) \/ Register!ConcludeIdly(r, Role[a])
         \/ UNCHANGED <<status, approvals, performed>>
<1>1. /\ approvals' = approvals \cup {Vote(a)} /\ performed' = performed
      /\ status' = [status EXCEPT ![r] = "executed"]
      /\ phase[a] \in {"performed", "executing"}
  BY DEF CommitExecuted
<1>2. CarriedOut' = CarriedOut
  BY <1>1 DEF CarriedOut
<1>3. CASE phase[a] = "executing"
  <2>1. /\ Register!Sign(r, Role[a], "approve") /\ Register!Unanimous(r, approvals')
        /\ status[r] = "pending" /\ r \notin CarriedOut
    BY <1>1, <1>3, LastVoteSigns
  <2> QED BY <1>1, <1>2, <2>1 DEF Register!ConcludeIdly, CarriedOut
<1>4. CASE phase[a] = "performed"
  <2>1. Deciding(a) /\ Quorum(r) /\ job[a].decision = "approve"
    BY <1>4 DEF Deciding, IndInv, SignaturesComplete
  <2>2. r \in Requests /\ Role[a] \in APPROVER_ROLES
    BY <2>1, DecidingJob DEF IndInv
  <2>3. Vote(a) \in approvals
    BY <2>1, <2>2 DEF Quorum, Approved, Vote
  <2>4. approvals' = approvals
    BY <1>1, <2>3
  <2>5. status[r] # "rejected" /\ status[r] # "absent"
    BY <2>1, <2>2, QuorumNotRejected DEF IndInv, DecisionsGrounded
  <2>6. r \in CarriedOut
    BY <1>4, <2>2 DEF PerformedCounted, CarriedOut
  <2>7. status[r] = "pending" \/ status' = status
    BY <1>1, <2>2, <2>5 DEF IndInv, TypeOK
  <2> QED BY <1>1, <1>2, <2>4, <2>6, <2>7 DEF Register!Conclude, CarriedOut
<1> QED BY <1>1, <1>3, <1>4

(* Every step of the handlers is one of the register's, or none.             *)
LEMMA RegisterStep == IndInv /\ PerformedCounted /\ [Next]_vars => [Register!Next]_(Register!vars)
<1> SUFFICES ASSUME IndInv, PerformedCounted, [Next]_vars
             PROVE  [Register!Next]_(Register!vars)
  OBVIOUS
<1>1. ASSUME UNCHANGED <<status, approvals, performed>>
      PROVE  UNCHANGED Register!vars
  BY <1>1 DEF Register!vars
<1>2. ASSUME NEW r \in Requests, NEW t \in Targets \cup {NoTarget}, create_deletion_request(r, t)
      PROVE  Register!Next
  BY <1>2 DEF create_deletion_request, Register!Next, Register!File
<1>3. ASSUME NEW a \in Approvers, Reject(a)
      PROVE  Register!Next
  <2>1. PICK r : r = job[a].request
    OBVIOUS
  <2>2. /\ Deciding(a) /\ ~RoleVoted(a) /\ job[a].decision = "reject"
        /\ approvals' = approvals \cup {Vote(a)}
        /\ status' = [status EXCEPT ![r] = "rejected"] /\ performed' = performed
    BY <1>3, <2>1 DEF Reject, Deciding
  <2>3. /\ r \in Requests /\ Role[a] \in APPROVER_ROLES
        /\ Register!Sign(r, Role[a], "reject")
        /\ status[r] \in {"pending", "rejected"} /\ r \notin CarriedOut
    BY <2>1, <2>2, VoteSigns
  <2>4. Register!Reject(r, Role[a])
    BY <2>2, <2>3 DEF Register!Reject, CarriedOut
  <2> QED BY <2>3, <2>4 DEF Register!Next
<1>4. ASSUME NEW a \in Approvers, CommitApproval(a)
      PROVE  Register!Next
  <2>1. PICK r : r = job[a].request
    OBVIOUS
  <2>2. Deciding(a) /\ Flushed(a)
    BY <1>4 DEF CommitApproval, Deciding, Flushed
  <2>3. /\ ~RoleVoted(a) /\ job[a].decision = "approve"
        /\ approvals' = approvals \cup {Vote(a)} /\ UNCHANGED <<status, performed>>
    BY <1>4, <2>2 DEF CommitApproval, IndInv, VotesExclusive, SignaturesComplete
  <2>4. /\ r \in Requests /\ Role[a] \in APPROVER_ROLES
        /\ Register!Sign(r, Role[a], "approve") /\ status[r] \in {"pending", "rejected"}
    BY <2>1, <2>2, <2>3, VoteSigns
  <2>5. Register!Approve(r, Role[a])
    BY <2>3, <2>4 DEF Register!Approve
  <2> QED BY <2>4, <2>5 DEF Register!Next
<1>5. ASSUME NEW a \in Approvers, _execute(a)
      PROVE  Register!Next
  <2>1. PICK r : r = job[a].request
    OBVIOUS
  <2>2. Register!CarryOut(r, Role[a])
    BY <1>5, <2>1, ExecuteCarriesOut
  <2>3. r \in Requests /\ Role[a] \in APPROVER_ROLES
    BY <1>5, <2>1, DecidingJob DEF _execute, Deciding, IndInv
  <2> QED BY <2>2, <2>3 DEF Register!Next
<1>6. ASSUME NEW a \in Approvers, CommitExecuted(a)
      PROVE  Register!Next \/ UNCHANGED Register!vars
  <2>1. PICK r : r = job[a].request
    OBVIOUS
  <2>2. \/ Register!Conclude(r) \/ Register!ConcludeIdly(r, Role[a])
        \/ UNCHANGED <<status, approvals, performed>>
    BY <1>6, <2>1, CommitConcludes
  <2>3. r \in Requests /\ Role[a] \in APPROVER_ROLES
    BY <1>6, <2>1, DecidingJob DEF CommitExecuted, Deciding, IndInv
  <2> QED BY <1>1, <2>2, <2>3 DEF Register!Next
<1> QED
  BY <1>1, <1>2, <1>3, <1>4, <1>5, <1>6
  DEF Next, HandlerStep, LoadRequest, CheckRoleVote, VoteConflicts, FlushApproval, CountApprovals,
      _log, Crash, AdminDeactivates, AdminReactivates, vars

(* The workflow implements the register: handlers that read, flush, count    *)
(* and commit in any interleaving, and are cut off between any two of these, *)
(* decide as if every decision were one step.                                *)
THEOREM RefinesRegister == Spec => ImplementsRegister
<1>1. Init => PerformedCounted
  BY DEF Init, PerformedCounted, Handlers
<1>2. Init => Register!Init
  BY DEF Init, Register!Init
<1>3. IndInv /\ PerformedCounted /\ [Next]_vars => [Register!Next]_(Register!vars)
  BY RegisterStep
<1> QED BY <1>1, <1>2, <1>3, CountStep, Invariance, PTL DEF Spec, ImplementsRegister, Register!Spec
=============================================================================

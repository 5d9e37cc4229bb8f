-------------------------- MODULE SignatureRegister --------------------------
(***************************************************************************)
(* What the deletion workflow promises to whoever signs: a register of     *)
(* requests in which every role decides once, one rejection ends a         *)
(* request, and the last of the approvals, and nothing else, carries it    *)
(* out.  Each decision is one step: there are no handlers, nothing is read *)
(* before it is used, and nothing is cut off.  DeletionApproval.tla is     *)
(* shown to implement this specification.                                  *)
(***************************************************************************)
CONSTANTS Requests, Roles

VARIABLES
  outcome,       \* what has become of each request, or "absent"
  signed,        \* the decisions taken
  carriedOut     \* the requests whose target has been deactivated

vars == <<outcome, signed, carriedOut>>

Signature(r, role, d) == [request |-> r, role |-> role, decision |-> d]
HasSigned(r, role) == \E d \in {"approve", "reject"} : Signature(r, role, d) \in signed
Sign(r, role, d) == ~HasSigned(r, role) /\ signed' = signed \cup {Signature(r, role, d)}
Unanimous(r, votes) == \A role \in Roles : Signature(r, role, "approve") \in votes

Init ==
  /\ outcome = [r \in Requests |-> "absent"]
  /\ signed = {} /\ carriedOut = {}

File(r) ==
  /\ outcome[r] = "absent"
  /\ outcome' = [outcome EXCEPT ![r] = "pending"]
  /\ UNCHANGED <<signed, carriedOut>>

\* An approval counts for nothing once the request is rejected.
Approve(r, role) ==
  /\ outcome[r] # "absent"
  /\ Sign(r, role, "approve")
  /\ UNCHANGED <<outcome, carriedOut>>

Reject(r, role) ==
  /\ outcome[r] \in {"pending", "rejected"} /\ r \notin carriedOut
  /\ Sign(r, role, "reject")
  /\ outcome' = [outcome EXCEPT ![r] = "rejected"]
  /\ UNCHANGED carriedOut

\* The last approval deactivates the target; that the request says so comes after.
CarryOut(r, role) ==
  /\ outcome[r] = "pending" /\ r \notin carriedOut
  /\ Sign(r, role, "approve") /\ Unanimous(r, signed')
  /\ carriedOut' = carriedOut \cup {r}
  /\ UNCHANGED outcome

Conclude(r) ==
  /\ outcome[r] = "pending" /\ r \in carriedOut
  /\ outcome' = [outcome EXCEPT ![r] = "executed"]
  /\ UNCHANGED <<signed, carriedOut>>

\* The last approval of a request that names nothing.
ConcludeIdly(r, role) ==
  /\ outcome[r] = "pending" /\ r \notin carriedOut
  /\ Sign(r, role, "approve") /\ Unanimous(r, signed')
  /\ outcome' = [outcome EXCEPT ![r] = "executed"]
  /\ UNCHANGED carriedOut

Next ==
  \E r \in Requests :
    \/ File(r) \/ Conclude(r)
    \/ \E role \in Roles : Approve(r, role) \/ Reject(r, role)
                           \/ CarryOut(r, role) \/ ConcludeIdly(r, role)

Spec == Init /\ [][Next]_vars
=============================================================================

-------------------------- MODULE MCDeletionApproval -------------------------
(* Instances of DeletionApproval: one holder of each approver role, and a  *)
(* second chief auditor.                                                   *)
EXTENDS DeletionApproval, TLC

CONSTANTS a1, a2, b, c, d

(* models/deletion_request.py, APPROVER_ROLES; and three of the four, which *)
(* with a second holder of one role is as large as the full search allows.  *)
MCRoles == {"chief_auditor", "compliance_officer", "security_officer", "executive_authority"}
MCThreeRoles == MCRoles \ {"executive_authority"}

MCRole == (a1 :> "chief_auditor") @@ (b :> "compliance_officer")
          @@ (c :> "security_officer") @@ (d :> "executive_authority")
MCThreeRole == (a1 :> "chief_auditor") @@ (a2 :> "chief_auditor")
               @@ (b :> "compliance_officer") @@ (c :> "security_officer")
=============================================================================

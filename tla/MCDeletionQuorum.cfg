SPECIFICATION Spec
CONSTANTS
    a1 = a1  a2 = a2  b = b  c = c  d = d
    Requests = {r1}
    Approvers = {a1, b, c, d}
    Role <- MCRole
    APPROVER_ROLES <- MCRoles
    Targets = {b}
    NoTarget = NoTarget
    Admin = Admin
    NoJob = NoJob
    MaxCrashes = 0
INVARIANT QuorumExecutes

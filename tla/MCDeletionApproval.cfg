SPECIFICATION Spec
CONSTANTS
    a1 = a1  a2 = a2  b = b  c = c  d = d
    Requests = {r1}
    Approvers = {a1, a2, b, c}
    Role <- MCThreeRole
    APPROVER_ROLES <- MCThreeRoles
    Targets = {b}
    NoTarget = NoTarget
    Admin = Admin
    NoJob = NoJob
    MaxCrashes = 2
INVARIANTS
    TypeOK
    ExecutesOnceWithQuorum
    HalfDoneNeedsCrash
    LedgerTellsTheTruth
PROPERTY ImplementsRegister

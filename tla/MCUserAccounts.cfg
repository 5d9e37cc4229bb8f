SPECIFICATION Spec
CONSTANTS
    Users = {u1, u2}
    Admins = {u1, u2}
    Handlers = {h1, h2}
    NoJob = NoJob
    MaxLogins = 2
    MaxPassword = 1
INVARIANTS
    TypeOK
    SessionsAccountedFor
    LastAdminsClash
SYMMETRY MCSymmetry

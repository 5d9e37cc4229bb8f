SPECIFICATION Spec
CONSTANTS
  Rows = {r1, r2}
  NoRow = NoRow
  MaxEvents = 3
  MaxOpen = 1
  MaxMishaps = 1
SYMMETRY Symmetry
CHECK_DEADLOCK FALSE
INVARIANTS
  TypeOK
  SettledScreenIsCurrent
  NoDoubleSend
PROPERTY
  SecretsStayUntilRead

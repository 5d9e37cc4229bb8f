SPECIFICATION Spec
CONSTANTS
  MaxAsks = 4
  MaxJobs = 2
  MaxMishaps = 1
CHECK_DEADLOCK FALSE
INVARIANTS
  TypeOK
  SchedulesBelongToRequests
  ActiveIsAccountedFor
  DangerZoneAgrees
PROPERTY
  ErasureIsJustified

SPECIFICATION FairSpec
CONSTANTS
  DashboardTabs = {d1, d2}
  StaffTabs = {s1}
  Customers = {ann}
  Staff = {root}
  Nobody = Nobody
  MaxAsks = 3
  MaxFaults = 1
CHECK_DEADLOCK FALSE
INVARIANTS
  TypeOK
  ShownAccountIsAnswered
  SignedOutMeansNoSession
PROPERTY
  TabsSettle

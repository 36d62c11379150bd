SPECIFICATION Spec
CONSTANTS
  Users = {ada, bob}
  Plans = {"small", "large"}
  ManagedPlan = managed
  SeatLimit <- MCSeatLimit
  TrialDays = 1
  MaxTime = 4
  Nobody = nobody
  Checkouts = {1, 2}
  Invoices = {1}
  Period = 2
  Grace = 1
  MaxAttempts = 1
  MaxSequence = 2
  TicketLife = 1
  MailAttempts = 1
  MaxRequests = 2
  MaxEdits = 1
  Workloads <- MCWorkloads
SYMMETRY AnyUser
CHECK_DEADLOCK FALSE
INVARIANTS EntitlementIsSettled AccessIsBounded
PROPERTIES AdminRetained SeatsWithinLimit

SPECIFICATION Spec
CONSTANTS
  p1 = p1
  p2 = p2
  c1 = c1
  Producers = {p1, p2}
  Consumers = {c1}
  Setups <- MCSetups
  Second = 2
  Parts = 2
  ScheduledUpTo = 1
  Lateness = 1
  Prompt = TRUE
INVARIANT TypeOK
INVARIANT RateHonoured
INVARIANT PermitInTime
INVARIANT OnSchedule
INVARIANT StopsAtZero
INVARIANT ReportsAddUp
INVARIANT PlausibleReports
INVARIANT PlausibleSummary
CHECK_DEADLOCK FALSE

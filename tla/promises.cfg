SPECIFICATION PromisesSpec
CONSTANTS
  None = None
  c1 = c1  b1 = b1  p1 = p1  p2 = p2
  t1 = t1  d1 = d1
  r1 = r1  r2 = r2
  Tests = {t1}  Requests = {r1, r2}  Results = {"as graded", "as appealed"}
  Faults = TRUE  Breaks = TRUE
PROPERTIES
  AttemptIsOpenedOrFailed
  AcceptedResultCompletes
  RequestAnswered
  ReportStays
CHECK_DEADLOCK FALSE

SPECIFICATION Spec
CONSTANTS
  c1 = c1
  Bookings = {b1}
  Slots = {}
  Payments = {p1, p2}
  Tests = {}
  Requests = {r1}
  MaxPaymentAttempts = 2
  Faults = FALSE
  Capacities = {1}
  None = None
  Candidates <- MCCandidates
  CandidateOf <- MCCandidateOf
PROPERTIES PaidNeverFails
CHECK_DEADLOCK FALSE

SPECIFICATION Spec
CONSTANTS
  c1 = c1
  Bookings = {b1}
  Slots = {}
  Payments = {p1, p2}
  Tests = {}
  Requests = {r1, r2}
  MaxPaymentAttempts = 2
  Faults = TRUE
  Capacities = {1}
  None = None
  Candidates <- MCCandidates
  CandidateOf <- MCCandidateOf
SYMMETRY Symmetry
INVARIANTS PaidIsSettled
CHECK_DEADLOCK FALSE

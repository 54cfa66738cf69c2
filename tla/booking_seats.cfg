SPECIFICATION Spec
CONSTANTS
  c1 = c1
  Bookings = {b1, b2}
  Slots = {s1, s2}
  Payments = {}
  Tests = {}
  Requests = {r1, r2}
  MaxPaymentAttempts = 2
  Faults = TRUE
  Capacities = {1}
  None = None
  Candidates <- MCCandidates
  CandidateOf <- MCCandidateOf
SYMMETRY Symmetry
INVARIANTS TypeOK OverbookingBounded
CHECK_DEADLOCK FALSE

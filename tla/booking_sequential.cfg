SPECIFICATION Spec
CONSTANTS
  c1 = c1
  Bookings = {b1, b2}
  Slots = {s1, s2}
  Payments = {p1, p2}
  Tests = {t1, t2}
  Requests = {r1}
  MaxPaymentAttempts = 2
  Faults = FALSE
  Capacities = {1}
  None = None
  Candidates <- MCCandidates
  CandidateOf <- MCCandidateOf
SYMMETRY Symmetry
INVARIANTS NoSeatLost AttemptRowsBounded TestOnlyIfSettled
PROPERTIES RejectedIsFinal ImplementsPendingTests
CHECK_DEADLOCK FALSE

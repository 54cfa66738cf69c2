SPECIFICATION Spec
CONSTANTS
  c1 = c1
  Tests = {t1, t2}
  Devices = {d1, d2}
  Requests = {r1}
  MaxBatches = 1
  Faults = FALSE
  None = None
  Candidates <- MCCandidates
  CandidateOf <- MCCandidateOf
SYMMETRY Symmetry
INVARIANTS HeldTestKnowsDevice AbortFreesDevice
PROPERTIES ImplementsPendingTests

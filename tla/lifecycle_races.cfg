SPECIFICATION Spec
CONSTANTS
  c1 = c1
  Tests = {t1}
  Devices = {d1, d2}
  Requests = {r1, r2}
  MaxBatches = 1
  Faults = TRUE
  None = None
  Candidates <- MCCandidates
  CandidateOf <- MCCandidateOf
SYMMETRY Symmetry
INVARIANTS TypeOK RunOnlyIfCheckedIn
PROPERTIES DeviceBindingIsFinal

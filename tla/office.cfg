SPECIFICATION OfficeSpec
CONSTANTS
  None = None
  c1 = c1
  x1 = x1  x2 = x2  x3 = x3
  e1 = e1  i1 = i1  a1 = a1  ad1 = ad1  root = root  sa = sa
  p1 = p1  p2 = p2  p3 = p3
  r0 = r0  r1 = r1  r2 = r2
  t1 = t1  t2 = t2
  s1 = s1
  k1 = r1  k2 = r2
  w1 = p1  w2 = p2  w3 = p3
  Tests = {t1, t2}  Sessions = {s1}  BookingOf <- SessionBooking
  Candidates = {c1}  Experts = {x2, x3}  Admins = {ad1}
  Appeals = {r1, r2}  Requests = {r0}
INVARIANTS
  TypesOK
  RowNamesFile NoOrphan
  WalkIsBounded
  PlanIsKept
  PassIsEarned AppealRefers
  WholeReport
  VerdictExplained
PROPERTIES
  UploadKeepsOthersFiles PassStays
SYMMETRY Symmetry
CHECK_DEADLOCK FALSE

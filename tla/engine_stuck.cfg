SPECIFICATION Spec
CONSTANTS
  Tests = {t1, t2}
  Runs = {l1, l2}
  Threads = {h1}
  NumManeuvers = 2
  None = None
SYMMETRY Symmetry
INVARIANTS InProgressIsTrue

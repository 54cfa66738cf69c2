SPECIFICATION FairSpec
CONSTANTS
  Tests = {t1}
  Runs = {l1, l2}
  Threads = {h1}
  NumManeuvers = 2
  None = None
INVARIANTS TypeOK FlagHasLoop ScoresBounded
PROPERTIES PushFreesEngine StoppedLoopsEnd

SPECIFICATION Spec
CONSTANTS
  t1 = t1
  t2 = t2
  Task = {t1, t2}
  Class <- PairClass
  Duration <- PairDuration
  Priority <- LadderPriority
  Participant <- LeadAndPart
  Alone = {t1}
  RunStartMargin = 1
  Starts = {2, 3}
  MaxTime = 6
  MaxRuns = 2
  MaxPosters = 2
  Horizons = {2, 9}
  RunStraggle = 1
  KeepRuns = 2
  KeepActive = 1
  Refresh = 3
  Thread = {w1}
  NoRun = NoRun
  NoTask = NoTask
  Extras = {"result", "delete", "pause"}
  Crashes = 0
  DbFailures = 0
SYMMETRY Workers

  
PROPERTIES
  PreemptedByHigher
  PurgeOnlyFinished

SPECIFICATION LoopSpec
CONSTANTS
  t1 = t1
  t2 = t2
  Task = {t1}
  Class <- MultiClass
  Duration <- MultiDuration
  Priority <- MultiPriority
  Participant <- MultiLead
  Alone = {}
  RunStartMargin = 1
  Starts = {1}
  MaxTime = 6
  MaxRuns = 2
  MaxPosters = 1
  Horizons = {9}
  RunStraggle = 1
  KeepRuns = 2
  KeepActive = 1
  Refresh = 3
  Thread = {w1}
  NoRun = NoRun
  NoTask = NoTask
  Extras = {"disable"}
  Crashes = 1
  DbFailures = 0
PROPERTIES
  RunningMultiIsRestarted

SPECIFICATION WorkSpec
CONSTANTS
  t1 = t1
  t2 = t2
  a = a
  b = b
  c = c
  Task = {t1, t2}
  Node = {a, b, c}
  Participants <- CrossParticipants
  Repeat <- Repeats
  Slip <- Slips
  Limit <- Limits
  Prioritized = {t1}
  Old = {c}
  Strict = {c}
  Offset = 1
  Refresh = 0
  Horizon = 5
  Retries = 2
  MaxTime = 1
  MaxSessions = 3
  MaxFaults = 1
INVARIANTS
  TypeOK
  AllOrNothing
  LimitKept
PROPERTIES
  FullOnlyWhenAllHold
  WorkersEnd
CHECK_DEADLOCK FALSE

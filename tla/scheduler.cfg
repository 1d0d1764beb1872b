SPECIFICATION FairSpec
CONSTANTS
  s1 = s1
  s2 = s2
  s3 = s3
  daily = daily
  never = never
  g1 = g1
  g2 = g2
  Schedules = {s1, s2, s3}
  Crons = {daily, never}
  NoDate = {never}
  Slots = {g1, g2}
  BatchLimit = 2
  Users <- AnyUsers
  MaxCrashes = 1
INVARIANTS NoOverlap OncePerDueTime
PROPERTIES DueIsFired
CHECK_DEADLOCK FALSE

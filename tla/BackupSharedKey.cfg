\* Two schedules of one database whose runs one sweep starts within a second.
CONSTANTS
  Schedules = {s1, s2}
  VolumeSchedules = {}
  RetentionCount = 1
  SameSecond = TRUE
  MaxRecord = 3
  MaxRestore = 1
  MaxBackupFault = 0
SPECIFICATION BackupsSpec
INVARIANT NewestSurvive
CHECK_DEADLOCK FALSE

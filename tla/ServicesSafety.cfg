\* Two backup schedules with a failing call; a status page through restarts of the plane, failing calls
\* and the death of its host; one scheduled task through edits and restarts; two webhook
\* deliveries; the work loop of an agent that dies once; an alert rule over seven minutes
\* with one failing call; two upgrades of the panel, to a release that may fall over and
\* whose schema the old one cannot read, with one mishap.
CONSTANTS
  Schedules = {s1, v1}
  VolumeSchedules = {v1}
  RetentionCount = 1
  SameSecond = FALSE
  MaxRecord = 3
  MaxRestore = 1
  MaxBackupFault = 1
  HeartbeatStale = 1
  Dwell = 1
  MaxTime = 5
  MaxReport = 1
  MaxPlaneStop = 2
  Tasks = {"t1"}
  Periods = {1, 2}
  MaxClock = 4
  MaxTaskEdit = 5
  MaxAgentStart = 3
  maxAttempts = 2
  deliveryRetention = 1
  MaxDelivery = 2
  MaxTrouble = 2
  Resources = {"app", "db", "route"}
  Cutoff = 2
  MaxDesired = 2
  MaxConverge = 1
  MaxMishap = 2
  MaxAgentDeath = 1
  Window = 2
  FlapEpisodes = 3
  FlapWindow = 5
  FlapHold = 2
  RearmDelay = 2
  NoDataQuiet = 2
  MaxTick = 7
  MaxMiss = 1
  Releases = {1, 2}
  Broken = {}
  Flaky = {2}
  Breaking = {2}
  MaxRow = 2
  MaxEdit = 1
  MaxStumble = 1
SPECIFICATION SafetySpec
INVARIANTS SafetyInv NewestSurvive SilentIsUnknown OutageIsGrey NeverStacked FiredOnce NothingLost FlapGuardHolds NothingLostByRollback PanelTellsTheTruth
PROPERTIES SucceededIsFinal ClosedRestoreStays BlipsAreNotNews
CHECK_DEADLOCK FALSE

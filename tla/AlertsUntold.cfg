\* The window of two buckets slides through one that is half above and half below the
\* threshold; nothing fails.
CONSTANTS
  Window = 2
  FlapEpisodes = 3
  FlapWindow = 5
  FlapHold = 2
  RearmDelay = 2
  NoDataQuiet = 2
  MaxTick = 5
  MaxMiss = 0
SPECIFICATION AlertsSpec
INVARIANT RecoveryIsTold
CHECK_DEADLOCK FALSE

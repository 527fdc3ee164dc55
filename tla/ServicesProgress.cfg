\* An agent that updates itself, with releases that hang or die; the relay of one
\* image, with lost calls; the deliveries of one webhook, with store errors; a log
\* drain that is edited; and the work loop of an agent with failing calls and a death.
CONSTANTS
  MaxVersion = 4
  Hangs = {2}
  Dies = {3}
  IdentityDies = {}
  MaxSet = 2
  MaxOutage = 1
  MaxKill = 1
  MaxIOError = 1
  maxDeliveries = 2
  Size = 2
  MaxLoss = 2
  maxAttempts = 2
  deliveryRetention = 1
  MaxDelivery = 2
  MaxTrouble = 1
  Lines = {1, 2}
  InScope = {1, 2}
  QueueCap = 1
  MaxRevision = 2
  MaxShipper = 3
  MaxLookupFail = 0
  MaxPlaneCrash = 1
  Resources = {"app", "db", "stack", "route"}
  Cutoff = 2
  MaxDesired = 2
  MaxConverge = 1
  MaxMishap = 1
  MaxAgentDeath = 1
SPECIFICATION ProgressSpec
INVARIANTS ProgressInv SessionsInStep CleanEndIsWhole AckedIsShipped
PROPERTIES RollsBackToConfirmed NeverOffTheBus  CallsReturn DeliveriesEnd EveryLineShips EventuallySettles
CHECK_DEADLOCK FALSE

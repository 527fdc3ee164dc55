\* Two deployments of an application; the agent dies once.
CONSTANTS
  Resources = {"app"}
  Cutoff = 3
  MaxDesired = 2
  MaxConverge = 0
  MaxMishap = 0
  MaxAgentDeath = 1
SPECIFICATION WorkerSpec
INVARIANT SettledOnDesired
CHECK_DEADLOCK FALSE

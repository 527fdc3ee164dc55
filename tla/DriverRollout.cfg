\* Two replicas, two versions, a domain that comes and goes; a call fails, the agent
\* crashes and a container dies at any point.
CONSTANTS
  Version = {"v1", "v2"}
  Index = {1, 2}
  Address = {a1, a2, a3, a4, a5}
  Specs <- Scaling
  MaxChange = 2
  MaxFault = 1
  MaxCrash = 1
  MaxDeath = 1
  Reuse = FALSE
SPECIFICATION Spec
INVARIANTS DriverInv HealthGated
PROPERTY ServingUntouched
SYMMETRY Addresses

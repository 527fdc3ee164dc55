\* Two versions, in and out of maintenance, with a failed call, a crash and a death; or
\* three changes between deployed and deleted, with two crashes.
CONSTANTS
  Version = {"v1", "v2"}
  Index = {1}
  Address = {a1, a2, a3}
  Specs <- AnySpec
  MaxChange = 3
  MaxFault = 1
  MaxCrash = 2
  MaxDeath = 1
  Reuse = FALSE
SPECIFICATION ModeSpec
PROPERTY Convergence

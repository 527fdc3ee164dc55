\* Two deployments: gated ones with failing calls and one crash, or deploys, rollbacks and
\* promotions with a remote builder and failing calls.
CONSTANTS
  MaxDeploy = 2
  Servers = {"target", "builder"}
  Target = "target"
  Triggers = {"deploy", "rollback", "promotion"}
  Gates = {TRUE, FALSE}
  MayFail = TRUE
  MaxCrash = 1
SPECIFICATION ModeSpec
INVARIANTS GateRespected QueueOrder NoStrandedQueue CancelIsHonest DesiredIsBuilt AnnouncedOnce OverrideTakenBack

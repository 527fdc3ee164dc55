\* Three queued deployments of an ungated application, or two of which some are gated, with
\* one crash.
CONSTANTS
  MaxDeploy = 3
  Servers = {"target"}
  Target = "target"
  Triggers = {"deploy"}
  Gates = {TRUE, FALSE}
  MayFail = FALSE
  MaxCrash = 1
SPECIFICATION QueueSpec
INVARIANTS IInv OnePipelineUngated RollingOutIsDesired
PROPERTIES NeverRegresses KeepsPromise

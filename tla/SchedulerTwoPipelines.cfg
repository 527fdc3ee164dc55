\* One gated and one ungated deployment; nothing fails.
CONSTANTS
  MaxDeploy = 2
  Servers = {"target"}
  Target = "target"
  Triggers = {"deploy"}
  Gates = {TRUE, FALSE}
  MayFail = FALSE
  MaxCrash = 0
SPECIFICATION Spec
INVARIANT OneActivePipeline

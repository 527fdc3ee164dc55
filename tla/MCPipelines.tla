----------------------------- MODULE MCPipelines -----------------------------
(***************************************************************************)
(* The deploy pipeline under two restrictions of the same small instance.  *)
(* A behaviour picks one and stays with it: deploys behind the approval    *)
(* gate with a crash of the plane, or deploys, rollbacks and promotions of *)
(* an ungated application with a remote builder.                           *)
(***************************************************************************)
EXTENDS Scheduler

VARIABLE mode

Within ==
  \/ /\ mode = "gated"
     /\ \A d \in Dep : ~promoted[d] /\ rev[d] = d /\ builder[d] \in {NoServer, Target}
  \/ /\ mode = "promotions"
     /\ crashes = 0 /\ \A d \in Dep : ~gated[d]

ModeInit == mode \in {"gated", "promotions"} /\ Init

ModeNext == UNCHANGED mode /\ Next /\ Within'

ModeSpec == ModeInit /\ [][ModeNext]_<<mode, vars>>
=============================================================================

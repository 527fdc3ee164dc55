------------------------- MODULE MCServicesProgress -------------------------
(***************************************************************************)
(* The services that must get on with their work, on small instances: the  *)
(* agent's updater and its work loop, the image relay, webhook delivery    *)
(* and a log drain.  They share no state here.  A behaviour picks one of   *)
(* them and stays with it, the others keep their initial state, so that    *)
(* the states of the run are the sum of the states of the parts.           *)
(***************************************************************************)
EXTENDS AgentUpdater, ImageRelay, WebhookDelivery, LogDrain, AgentWorker

VARIABLE part

progressVars == <<part, updaterVars, relayVars, webhookVars, drainVars, workerVars>>

Parts == {"updater", "relay", "webhooks", "drain", "worker"}

ProgressInit ==
  /\ part \in Parts
  /\ UpdaterInit /\ RelayInit /\ WebhookInit /\ DrainInit /\ WorkerInit
  /\ part # "drain" => drain.row = "disabled"

\* Only part p moves.
Only(p) ==
  /\ part = p /\ UNCHANGED part
  /\ p # "updater" => UNCHANGED updaterVars
  /\ p # "relay" => UNCHANGED relayVars
  /\ p # "webhooks" => UNCHANGED webhookVars
  /\ p # "drain" => UNCHANGED drainVars
  /\ p # "worker" => UNCHANGED workerVars

ProgressNext ==
  \/ Only("updater") /\ UpdaterNext
  \/ Only("relay") /\ RelayNext
  \/ Only("webhooks") /\ WebhookNext
  \/ Only("drain") /\ DrainNext
  \/ Only("worker") /\ WorkerNext

\* The fairness of each part, while it is the one that runs.
ProgressFairness ==
  /\ WF_progressVars(\/ Only("updater") /\ UpdaterStep
                     \/ Only("relay") /\ RelayStep
                     \/ Only("webhooks") /\ WebhookStep
                     \/ Only("drain") /\ SweepStep
                     \/ Only("worker") /\ WorkerStep)
  /\ WF_progressVars(\/ Only("updater") /\ ProbationEnds
                     \/ Only("drain") /\ DeliverStep
                     \/ Only("worker") /\ Drift)
  /\ WF_progressVars(\/ Only("updater") /\ Heal
                     \/ Only("drain") /\ ShipStep)

ProgressSpec == ProgressInit /\ [][ProgressNext]_progressVars /\ ProgressFairness

\* The inductive invariant of the part that moves; the others are as they began.
ProgressInv ==
  /\ part = "updater" => UpdaterInv
  /\ part = "relay" => RelayInv
  /\ part = "webhooks" => WebhookInv
  /\ part = "drain" => DrainInv
  /\ part = "worker" => WorkerTypeOK /\ WorkerInv
=============================================================================

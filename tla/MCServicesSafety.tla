-------------------------- MODULE MCServicesSafety --------------------------
(***************************************************************************)
(* Components checked for safety, on small instances: backup schedules,    *)
(* server status with the status page, the agent's scheduled tasks, alert  *)
(* rules, the panel's own upgrade, and webhook delivery and the agent's    *)
(* work loop with more faults than MCServicesProgress gives them.  They    *)
(* share no state here; a behaviour stays with one of them.                *)
(***************************************************************************)
EXTENDS Backups, StatusPage, CronRunner, WebhookDelivery, AgentWorker, Alerts, PanelUpgrade

VARIABLE part

safetyVars == <<part, backupVars, pageVars, cronVars, webhookVars, workerVars, alertVars,
                upgradeVars>>

SafetyInit ==
  /\ part \in {"backups", "page", "cron", "webhooks", "worker", "alerts", "upgrade"}
  /\ BackupsInit /\ PageInit /\ CronInit /\ WebhookInit /\ WorkerInit /\ AlertsInit
  /\ UpgradeInit

\* Only part p moves.
Only(p) ==
  /\ part = p /\ UNCHANGED part
  /\ p # "backups" => UNCHANGED backupVars
  /\ p # "page" => UNCHANGED pageVars
  /\ p # "cron" => UNCHANGED cronVars
  /\ p # "webhooks" => UNCHANGED webhookVars
  /\ p # "worker" => UNCHANGED workerVars
  /\ p # "alerts" => UNCHANGED alertVars
  /\ p # "upgrade" => UNCHANGED upgradeVars

SafetyNext ==
  \/ Only("backups") /\ BackupsNext
  \/ Only("page") /\ PageNext
  \/ Only("cron") /\ CronNext
  \/ Only("webhooks") /\ WebhookNext
  \/ Only("worker") /\ WorkerNext
  \/ Only("alerts") /\ AlertsNext
  \/ Only("upgrade") /\ UpgradeNext

SafetySpec == SafetyInit /\ [][SafetyNext]_safetyVars

\* The types of the part that moves, with its inductive invariant; the others are as they
\* began.
SafetyInv ==
  /\ part = "backups" => BackupsInv
  /\ part = "page" => PageInv
  /\ part = "cron" => CronInv
  /\ part = "webhooks" => WebhookInv
  /\ part = "worker" => WorkerTypeOK /\ WorkerInv
  /\ part = "alerts" => AlertInv
  /\ part = "upgrade" => UpgradeInv
=============================================================================

---------------------------- MODULE SafetyProofs ----------------------------
(***************************************************************************)
(* The composition that MCServicesSafety checks: each part keeps its       *)
(* inductive invariant while it moves, and a behaviour stays with one.     *)
(***************************************************************************)
EXTENDS MCServicesSafety, PlaneProofs, DeliveryProofs

\* Every step keeps the invariant of the part that moves.
LEMMA SafetyStep == SafetyInv /\ [SafetyNext]_safetyVars => SafetyInv'
<1> SUFFICES ASSUME SafetyInv, [SafetyNext]_safetyVars
             PROVE  SafetyInv'
  OBVIOUS
<1>1. part' = part
  BY DEF SafetyNext, Only, safetyVars
<1>2. part = "backups" => BackupsInv'
  <2>1. part = "backups" => BackupsInv /\ [BackupsNext]_backupVars
    BY DEF SafetyInv, SafetyNext, Only, safetyVars
  <2> QED
    BY <2>1, BackupsStepHolds
<1>3. part = "page" => PageInv'
  <2>1. part = "page" => PageInv /\ [PageNext]_pageVars
    BY DEF SafetyInv, SafetyNext, Only, safetyVars
  <2> QED
    BY <2>1, PageNextHolds
<1>4. part = "cron" => CronInv'
  <2>1. part = "cron" => CronInv /\ [CronNext]_cronVars
    BY DEF SafetyInv, SafetyNext, Only, safetyVars
  <2> QED
    BY <2>1, CronStepHolds
<1>5. part = "webhooks" => WebhookInv'
  <2>1. part = "webhooks" => WebhookInv /\ [WebhookNext]_webhookVars
    BY DEF SafetyInv, SafetyNext, Only, safetyVars
  <2> QED
    BY <2>1, WebhookStepHolds
<1>6. part = "worker" => WorkerInv' /\ WorkerTypeOK'
  <2>1. part = "worker" => WorkerInv /\ [WorkerNext]_workerVars
    BY DEF SafetyInv, SafetyNext, Only, safetyVars
  <2>2. part = "worker" => WorkerInv'
    BY <2>1, WorkerNextHolds
  <2>3. WorkerInv' => WorkerTypeOK'
    BY WorkerTypesFromInv, PTL
  <2> QED
    BY <2>2, <2>3
<1>7. part = "alerts" => AlertInv'
  <2>1. part = "alerts" => AlertInv /\ [AlertsNext]_alertVars
    BY DEF SafetyInv, SafetyNext, Only, safetyVars
  <2> QED
    BY <2>1, AlertsStepHolds
<1>8. part = "upgrade" => UpgradeInv'
  <2>1. part = "upgrade" => UpgradeInv /\ [UpgradeNext]_upgradeVars
    BY DEF SafetyInv, SafetyNext, Only, safetyVars
  <2> QED
    BY <2>1, UpgradeStepHolds
<1> QED
  BY <1>1, <1>2, <1>3, <1>4, <1>5, <1>6, <1>7, <1>8 DEF SafetyInv

\* Whichever service moves keeps its types and its inductive invariant, for all values of the
\* constants at once.
THEOREM SafetyInvHolds == SafetySpec => []SafetyInv
<1>1. SafetyInit => SafetyInv
  BY BackupsStart, PageStart, CronStart, WebhookStart, WorkerStart, WorkerTypesFromInv,
     AlertsAssumption, AlertsStart, UpgradeAssumption, UpgradeStart
     DEF SafetyInit, SafetyInv
<1> QED
  BY <1>1, SafetyStep, PTL DEF SafetySpec
=============================================================================

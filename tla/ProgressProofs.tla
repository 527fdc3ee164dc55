--------------------------- MODULE ProgressProofs ---------------------------
(***************************************************************************)
(* The composition that MCServicesProgress checks: each part keeps its     *)
(* inductive invariant while it moves, and a behaviour stays with one.     *)
(***************************************************************************)
EXTENDS MCServicesProgress, HostProofs, DeliveryProofs

\* Every step keeps the invariant of the part that moves.
LEMMA ProgressStep == ProgressInv /\ [ProgressNext]_progressVars => ProgressInv'
<1> SUFFICES ASSUME ProgressInv, [ProgressNext]_progressVars
             PROVE  ProgressInv'
  OBVIOUS
<1>1. part' = part
  BY DEF ProgressNext, Only, progressVars
<1>2. part = "updater" => UpdaterInv'
  <2>1. part = "updater" => UpdaterInv /\ [UpdaterNext]_updaterVars
    BY DEF ProgressInv, ProgressNext, Only, progressVars
  <2> QED
    BY <2>1, UpdaterStepHolds
<1>3. part = "relay" => RelayInv'
  <2>1. part = "relay" => RelayInv /\ [RelayNext]_relayVars
    BY DEF ProgressInv, ProgressNext, Only, progressVars
  <2> QED
    BY <2>1, RelayStepHolds
<1>4. part = "webhooks" => WebhookInv'
  <2>1. part = "webhooks" => WebhookInv /\ [WebhookNext]_webhookVars
    BY DEF ProgressInv, ProgressNext, Only, progressVars
  <2> QED
    BY <2>1, WebhookStepHolds
<1>5. part = "drain" => DrainInv'
  <2>1. part = "drain" => DrainInv /\ [DrainNext]_drainVars
    BY DEF ProgressInv, ProgressNext, Only, progressVars
  <2> QED
    BY <2>1, DrainStepHolds
<1>6. part = "worker" => WorkerInv' /\ WorkerTypeOK'
  <2>1. part = "worker" => WorkerInv /\ [WorkerNext]_workerVars
    BY DEF ProgressInv, ProgressNext, Only, progressVars
  <2>2. part = "worker" => WorkerInv'
    BY <2>1, WorkerNextHolds
  <2>3. WorkerInv' => WorkerTypeOK'
    BY WorkerTypesFromInv, PTL
  <2> QED
    BY <2>2, <2>3
<1> QED
  BY <1>1, <1>2, <1>3, <1>4, <1>5, <1>6 DEF ProgressInv

\* Whichever service moves keeps its types and its inductive invariant, for all values of the
\* constants at once.
THEOREM ProgressInvHolds == ProgressSpec => []ProgressInv
<1>1. ProgressInit => ProgressInv
  BY UpdaterStart, RelayStart, WebhookStart, DrainStart, WorkerStart, WorkerTypesFromInv
     DEF ProgressInit, ProgressInv
<1> QED
  BY <1>1, ProgressStep, PTL DEF ProgressSpec
=============================================================================

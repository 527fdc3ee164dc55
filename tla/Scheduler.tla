------------------------------ MODULE Scheduler ------------------------------
(***************************************************************************)
(* The deploy pipeline of the control plane (core/scheduler) for one       *)
(* application, with the deploy-protection gate (core/protection) that     *)
(* admits deployments into it.                                             *)
(*                                                                         *)
(* Every pipeline handler holds Scheduler.mu, so at most one of them runs  *)
(* at a time; but a handler is a SERIES of Postgres writes and JetStream   *)
(* publishes, the process can die between any two of them, and any one of  *)
(* them can fail.  A handler is therefore a chain of steps: the variable   *)
(* job names the next write of the handler that holds the lock, each step  *)
(* performs that write and says what the handler does next, and "idle"     *)
(* means that the lock is free.  Reads are part of the step they precede:  *)
(* the rows they read are written under the same lock.                     *)
(*                                                                         *)
(* Agents are an open environment here: any deploy event and any           *)
(* application status may arrive at any time, in any order, any number of  *)
(* times.  What is proved of this module therefore holds whatever the      *)
(* agents and the message streams do.                                      *)
(***************************************************************************)
EXTENDS Naturals

CONSTANTS
  MaxDeploy,    \* bound: deployments ever created for the application
  Servers,      \* the fleet
  Target,       \* the server the application runs on (app.Runtime.ServerID)
  Triggers,     \* what creates deployments: "deploy", "rollback", "promotion"
  Gates,        \* the answers of the protection gate: TRUE = needs approval
  MayFail,      \* calls of the store and of the bus may fail
  MaxCrash      \* bound: crashes of the plane

ASSUME ConstantsAssumption ==
  /\ MaxDeploy \in Nat
  /\ Target \in Servers
  /\ Triggers \subseteq {"deploy", "rollback", "promotion"}
  /\ Gates \subseteq BOOLEAN
  /\ MayFail \in BOOLEAN
  /\ MaxCrash \in Nat

\* Deployments are numbered in created_at order, the order of the queue
\* queries.  A revision has the number of the deployment it was created for;
\* a rollback creates no revision.
Dep == 1..MaxDeploy
NoRev == 0
NoServer == "none"

InFlight == {"building", "distributing", "rolling_out"}
Active == InFlight \cup {"queued"}          \* what the queue queries list
Terminal == {"succeeded", "failed"}
Status == Active \cup Terminal \cup {"awaiting_approval"}

\* A deployment ends withdrawn (rejected, or cancelled before it started),
\* cancelled (while it was building or distributing), failed or succeeded.
Endings == {"withdrawn", "cancelled", "failed", "succeeded"}

\* "error" stands for every observation other than running.
AppStatuses == {"created", "deploying", "running", "error"}

Ops == {"setArtifact", "park", "gatePark", "failParked", "tryStart",
        "setDeploying", "setBuilding", "selectBuilder", "pubBuild",
        "setImage", "setDistributing", "pubPush", "pubDistribute",
        "setRollingOut", "setDesired", "pubRollout",
        "endActive", "endCancelled", "clearFailed", "clearCancelled", "announce", "promoteNext", "complete"}

\* The stages of a deployment's message ids, "<id>.build" and so on.
WorkKinds == {"build", "push", "distribute", "rollout"}

VARIABLES
  \* ---- Postgres ----
  status,     \* deployments.status, "none" before the row exists
  rev,        \* deployments.revision_id
  builder,    \* deployments.builder_server_id
  approval,   \* deploy_approvals.state, "none" when there is no row
  image,      \* revisions.image is set
  promoted,   \* revisions.promoted_from is set
  appStatus,  \* applications.status
  desired,    \* applications.desired_revision_id
  observed,   \* applications.observed_revision_id
  \* ---- the process ----
  up,         \* cypherd is running
  pc,         \* the next step of the handler that holds Scheduler.mu, or "idle"
  cur,        \* the deployment that handler works on
  snap,       \* the rows Recover listed and has not re-driven yet
  deciding,   \* approvals decided whose pipeline call has not happened yet
  \* ---- JetStream ----
  work,       \* the work items published to the WORK stream for each deployment
  \* ---- outputs and history ----
  emitted,    \* announcements handed to the notifier and webhook sinks
  gated,      \* the gate asked for approval when the deployment was created
  ended,      \* how a deployment ended, "none" while it has not
  desiredBy,  \* the deployment that last re-pointed desired_revision_id
  fault,      \* a store or bus call failed since the plane booted
  crashes

rows == <<status, rev, builder, approval, image, promoted>>
appRow == <<appStatus, desired, observed, desiredBy>>
history == <<gated, ended>>
process == <<up, deciding, crashes>>
job == <<pc, cur>>

vars == <<rows, appRow, work, history, process, job, snap, emitted, fault>>

RowTypes ==
  /\ status    \in [Dep -> Status \cup {"none"}]
  /\ rev       \in [Dep -> Dep]
  /\ builder   \in [Dep -> Servers \cup {NoServer}]
  /\ approval  \in [Dep -> {"none", "pending", "approved", "rejected"}]
  /\ image     \in [Dep -> BOOLEAN]
  /\ promoted  \in [Dep -> BOOLEAN]
  /\ gated     \in [Dep -> BOOLEAN]
  /\ ended     \in [Dep -> Endings \cup {"none"}]
  /\ emitted   \in [Dep -> Nat]

AppTypes ==
  /\ appStatus \in AppStatuses
  /\ desired   \in 0..MaxDeploy
  /\ observed  \in 0..MaxDeploy
  /\ desiredBy \in 0..MaxDeploy
  /\ cur       \in 0..MaxDeploy
  /\ pc # "idle" => cur \in Dep
  /\ work      \in [Dep -> SUBSET WorkKinds]
  /\ crashes   \in Nat

ProcessTypes ==
  /\ up        \in BOOLEAN
  /\ fault     \in BOOLEAN
  /\ pc        \in Ops \cup {"idle"}
  /\ snap      \in [Dep -> Active \cup {"none"}]
  /\ deciding  \in [Dep -> {"none", "approve", "reject"}]

TypeOK == RowTypes /\ AppTypes /\ ProcessTypes

Init ==
  /\ status = [d \in Dep |-> "none"]
  /\ rev = [d \in Dep |-> d]
  /\ builder = [d \in Dep |-> NoServer]
  /\ approval = [d \in Dep |-> "none"]
  /\ image = [d \in Dep |-> FALSE]
  /\ promoted = [d \in Dep |-> FALSE]
  /\ appStatus = "created" /\ desired = NoRev /\ observed = NoRev
  /\ up = TRUE
  /\ pc = "idle" /\ cur = 0
  /\ snap = [d \in Dep |-> "none"]
  /\ deciding = [d \in Dep |-> "none"]
  /\ work = [d \in Dep |-> {}]
  /\ emitted = [d \in Dep |-> 0]
  /\ gated = [d \in Dep |-> FALSE]
  /\ ended = [d \in Dep |-> "none"]
  /\ desiredBy = 0
  /\ fault = FALSE
  /\ crashes = 0

-----------------------------------------------------------------------------
(* Reading the queue, and moving along a handler.                          *)

\* active[0] of ListActiveDeploymentsByApplication.
IsHead(d) ==
  /\ status[d] \in Active
  /\ \A e \in Dep : status[e] \in Active => d <= e

\* The builder a deployment's build was routed to.
builderFor(d) == IF builder[d] = NoServer THEN Target ELSE builder[d]

Recovering == \E d \in Dep : snap[d] # "none"
LockFree == up /\ pc = "idle" /\ ~Recovering

Goto(op, d) == pc' = op /\ cur' = d
Return == Goto("idle", 0)

\* The handler that holds the lock is about to perform op.
At(op) == up /\ pc = op

\* UpdateDeploymentStatus.
SetStatus(d, s) == status' = [status EXCEPT ![d] = s]

\* PublishWork: the deployment and the stage are the message id, under which
\* JetStream drops a re-publish inside the dedup window.
PublishWork(kind, d) == work' = [work EXCEPT ![d] = @ \cup {kind}]

-----------------------------------------------------------------------------
(* Creating deployments.                                                   *)

\* CreateDeployment: d is the next row of the application.
NewRow(d) ==
  /\ status[d] = "none"
  /\ \A e \in Dep : e < d => status[e] # "none"
  /\ SetStatus(d, "queued")

\* What the handler does once the row exists: hold it at the gate, or start.
Admitted(d, need) == Goto(IF need THEN "park" ELSE "tryStart", d)

\* DeployAs.  A freeze or a full quota refuses before anything is written and
\* changes nothing.  An image-source application has its image up front.
Deploy(d, need, imageSource) ==
  /\ LockFree /\ "deploy" \in Triggers
  /\ NewRow(d)
  /\ image' = [image EXCEPT ![d] = imageSource]
  /\ gated' = [gated EXCEPT ![d] = need]
  /\ Admitted(d, need)
  /\ UNCHANGED <<rev, builder, approval, promoted, appRow, work, ended,
                 process, snap, emitted, fault>>

\* RollbackAs: a new deployment of the revision deployment s shipped.
Rollback(d, s, need) ==
  /\ LockFree /\ "rollback" \in Triggers
  /\ status[s] # "none" /\ image[rev[s]]
  /\ NewRow(d)
  /\ rev' = [rev EXCEPT ![d] = rev[s]]
  /\ gated' = [gated EXCEPT ![d] = need]
  /\ Admitted(d, need)
  /\ UNCHANGED <<builder, approval, image, promoted, appRow, work, ended,
                 process, snap, emitted, fault>>

\* Promote: the revision carries its image from birth, but the image is on
\* the source application's server, recorded by the next write.
Promote(d, need) ==
  /\ LockFree /\ "promotion" \in Triggers
  /\ NewRow(d)
  /\ image' = [image EXCEPT ![d] = TRUE]
  /\ promoted' = [promoted EXCEPT ![d] = TRUE]
  /\ gated' = [gated EXCEPT ![d] = need]
  /\ Goto("setArtifact", d)
  /\ UNCHANGED <<rev, builder, approval, appRow, work, ended, process, snap,
                 emitted, fault>>

SetArtifactServer(srv) ==
  /\ At("setArtifact")
  /\ builder' = [builder EXCEPT ![cur] = srv]
  /\ Admitted(cur, gated[cur])
  /\ UNCHANGED <<status, rev, approval, image, promoted, appRow, work, history,
                 process, snap, emitted, fault>>

-----------------------------------------------------------------------------
(* Deploy protection: parking, deciding, cancelling.                       *)

\* Mutant: the approval row is written but the deployment stays queued.
Park_KeepsQueued ==
  /\ At("park")
  /\ Goto("gatePark", cur)
  /\ UNCHANGED <<rows, appRow, work, history, process, snap, emitted, fault>>

\* park, first write: the row leaves the queue.
Park ==
  /\ At("park")
  /\ SetStatus(cur, "awaiting_approval")
  /\ Goto("gatePark", cur)
  /\ UNCHANGED <<rev, builder, approval, image, promoted, appRow, work, history,
                 process, snap, emitted, fault>>

\* park, second write: the gate's pending approval row; when it cannot be
\* written the deployment is ended, for nobody could ever decide it.
GatePark ==
  /\ At("gatePark")
  /\ \/ approval' = [approval EXCEPT ![cur] = "pending"] /\ Return
     \/ UNCHANGED approval /\ Goto("failParked", cur)
  /\ UNCHANGED <<status, rev, builder, image, promoted, appRow, work, history,
                 process, snap, emitted, fault>>

\* failParked: no successor is promoted and nothing is announced.
FailParked ==
  /\ At("failParked")
  /\ SetStatus(cur, "failed")
  /\ Return
  /\ ended' = [ended EXCEPT ![cur] = "withdrawn"]
  /\ UNCHANGED <<rev, builder, approval, image, promoted, appRow, work, gated,
                 process, snap, emitted, fault>>

\* protection.Approve and protection.Reject decide the approval row once,
\* outside the pipeline's lock, before they call the pipeline.
DecideApproval(d, verdict) ==
  /\ up /\ ~Recovering
  /\ approval[d] = "pending"
  /\ approval' = [approval EXCEPT ![d] = IF verdict = "approve" THEN "approved"
                                                               ELSE "rejected"]
  /\ deciding' = [deciding EXCEPT ![d] = verdict]
  /\ UNCHANGED <<status, rev, builder, image, promoted, appRow, work, history, up,
                 crashes, job, snap, emitted, fault>>

\* Mutant: approves whatever the deployment's status is by now.
ApproveDeployment_Unchecked(d) ==
  /\ LockFree /\ deciding[d] = "approve"
  /\ deciding' = [deciding EXCEPT ![d] = "none"]
  /\ SetStatus(d, "queued")
  /\ Goto("tryStart", d)
  /\ UNCHANGED <<rev, builder, approval, image, promoted, appRow, work, history, up,
                 crashes, snap, emitted, fault>>

\* ApproveDeployment: back into the ordinary queue; a deployment that is no
\* longer parked (cancelled meanwhile) is left alone.
ApproveDeployment(d) ==
  /\ LockFree /\ deciding[d] = "approve"
  /\ deciding' = [deciding EXCEPT ![d] = "none"]
  /\ \/ /\ status[d] = "awaiting_approval"
        /\ SetStatus(d, "queued")
        /\ Goto("tryStart", d)
     \/ status[d] # "awaiting_approval" /\ UNCHANGED <<status, job>>
  /\ UNCHANGED <<rev, builder, approval, image, promoted, appRow, work, history, up,
                 crashes, snap, emitted, fault>>

\* RejectDeployment.
RejectDeployment(d) ==
  /\ LockFree /\ deciding[d] = "reject"
  /\ deciding' = [deciding EXCEPT ![d] = "none"]
  /\ \/ status[d] = "awaiting_approval" /\ Goto("failParked", d)
     \/ status[d] # "awaiting_approval" /\ UNCHANGED job
  /\ UNCHANGED <<rows, appRow, work, history, up, crashes, snap,
                 emitted, fault>>

\* Mutant: cancels a deployment that is rolling out, too.
Cancel_RollingOut(d) ==
  /\ LockFree
  /\ \/ status[d] \in {"queued", "awaiting_approval"} /\ Goto("failParked", d)
     \/ status[d] \in InFlight /\ Goto("endCancelled", d)
  /\ UNCHANGED <<rows, appRow, work, history, process, snap, emitted, fault>>

\* Cancel: refused once the deployment is rolling out.
Cancel(d) ==
  /\ LockFree
  /\ \/ status[d] \in {"queued", "awaiting_approval"} /\ Goto("failParked", d)
     \/ status[d] \in {"building", "distributing"} /\ Goto("endCancelled", d)
  /\ UNCHANGED <<rows, appRow, work, history, process, snap, emitted, fault>>

-----------------------------------------------------------------------------
(* start() and the stages it leads to.                                     *)

\* Mutant: starts a deployment wherever it is in the queue.
TryStart_AnyPosition ==
  /\ At("tryStart")
  /\ IF status[cur] \in Active THEN Goto("setDeploying", cur) ELSE Return
  /\ UNCHANGED <<rows, appRow, work, history, process, snap, emitted, fault>>

TryStart ==
  /\ At("tryStart")
  /\ IF IsHead(cur) THEN Goto("setDeploying", cur) ELSE Return
  /\ UNCHANGED <<rows, appRow, work, history, process, snap, emitted, fault>>

\* start(): override the application's status, fail fast on an environment
\* that does not resolve, then distribute, roll out or build.
StartDeploying ==
  /\ At("setDeploying")
  /\ appStatus' = "deploying"
  /\ \/ Goto("endActive", cur)
     \/ Goto(IF promoted[rev[cur]] THEN "setDistributing"
             ELSE IF image[rev[cur]] THEN "setRollingOut"
             ELSE "setBuilding", cur)
  /\ UNCHANGED <<rows, desired, observed, desiredBy, work, history, process, snap,
                 emitted, fault>>

SetBuilding ==
  /\ At("setBuilding")
  /\ SetStatus(cur, "building")
  /\ Goto("selectBuilder", cur)
  /\ UNCHANGED <<rev, builder, approval, image, promoted, appRow, work, history,
                 process, snap, emitted, fault>>

\* selectBuilder: the fleet's roles and states change under the scheduler, so
\* any server may be chosen, or none; only a remote builder is recorded.
SelectBuilder ==
  /\ At("selectBuilder")
  /\ \/ Goto("endActive", cur) /\ UNCHANGED builder
     \/ \E srv \in Servers :
          /\ builder' = IF srv = Target THEN builder
                                        ELSE [builder EXCEPT ![cur] = srv]
          /\ Goto("pubBuild", cur)
  /\ UNCHANGED <<status, rev, approval, image, promoted, appRow, work, history,
                 process, snap, emitted, fault>>

\* buildWork can fail (deploy key, registry, clone token): a configuration
\* error that ends the deployment.
PublishBuild ==
  /\ At("pubBuild")
  /\ \/ Goto("endActive", cur) /\ UNCHANGED work
     \/ PublishWork("build", cur) /\ Return
  /\ UNCHANGED <<rows, appRow, history, process, snap, emitted, fault>>

\* The build succeeded: SetRevisionImage, then relay the image if the builder
\* is not the target.
SetImage ==
  /\ At("setImage")
  /\ image' = [image EXCEPT ![rev[cur]] = TRUE]
  /\ Goto(IF builderFor(cur) = Target THEN "setRollingOut" ELSE "setDistributing",
          cur)
  /\ UNCHANGED <<status, rev, builder, approval, promoted, appRow, work, history,
                 process, snap, emitted, fault>>

SetDistributing ==
  /\ At("setDistributing")
  /\ SetStatus(cur, "distributing")
  /\ Goto("pubPush", cur)
  /\ UNCHANGED <<rev, builder, approval, image, promoted, appRow, work, history,
                 process, snap, emitted, fault>>

PublishPush ==
  /\ At("pubPush")
  /\ PublishWork("push", cur)
  /\ Goto("pubDistribute", cur)
  /\ UNCHANGED <<rows, appRow, history, process, snap, emitted, fault>>

PublishDistribute ==
  /\ At("pubDistribute")
  /\ PublishWork("distribute", cur)
  /\ Return
  /\ UNCHANGED <<rows, appRow, history, process, snap, emitted, fault>>

SetRollingOut ==
  /\ At("setRollingOut")
  /\ SetStatus(cur, "rolling_out")
  /\ Goto("setDesired", cur)
  /\ UNCHANGED <<rev, builder, approval, image, promoted, appRow, work, history,
                 process, snap, emitted, fault>>

SetDesired ==
  /\ At("setDesired")
  /\ desired' = rev[cur]
  /\ desiredBy' = cur
  /\ Goto("pubRollout", cur)
  /\ UNCHANGED <<rows, appStatus, observed, work, history, process, snap, emitted,
                 fault>>

PublishRollout ==
  /\ At("pubRollout")
  /\ PublishWork("rollout", cur)
  /\ Return
  /\ UNCHANGED <<rows, appRow, history, process, snap, emitted, fault>>

-----------------------------------------------------------------------------
(* Ending a deployment and promoting the next.                             *)

EndActive ==
  /\ At("endActive") \/ At("endCancelled")
  /\ SetStatus(cur, "failed")
  /\ Goto(IF pc = "endActive" THEN "clearFailed" ELSE "clearCancelled", cur)
  /\ ended' = [ended EXCEPT ![cur] = IF pc = "endActive" THEN "failed" ELSE "cancelled"]
  /\ UNCHANGED <<rev, builder, approval, image, promoted, appRow, work, gated,
                 process, snap, emitted, fault>>

\* Mutant: only a failure, not a cancellation, promotes the next deployment.
ClearDeploying_CancelStops ==
  /\ At("clearFailed") \/ At("clearCancelled")
  /\ appStatus' = IF appStatus # "deploying" THEN appStatus
                  ELSE IF observed # NoRev THEN "running" ELSE "error"
  /\ IF pc = "clearFailed" THEN Goto("announce", cur) ELSE Return
  /\ UNCHANGED <<rows, desired, observed, desiredBy, work, history, process, snap,
                 emitted, fault>>

\* Mutant: an application that was never observed keeps the override.
ClearDeploying_ObservedOnly ==
  /\ At("clearFailed") \/ At("clearCancelled")
  /\ appStatus' = IF appStatus = "deploying" /\ observed # NoRev THEN "running"
                                                                 ELSE appStatus
  /\ Goto(IF pc = "clearFailed" THEN "announce" ELSE "promoteNext", cur)
  /\ UNCHANGED <<rows, desired, observed, desiredBy, work, history, process, snap,
                 emitted, fault>>

\* clearDeployingStatus: take back the override unless an observation already
\* did; a cancellation is not announced.
ClearDeploying ==
  /\ At("clearFailed") \/ At("clearCancelled")
  /\ appStatus' = IF appStatus # "deploying" THEN appStatus
                  ELSE IF observed # NoRev THEN "running" ELSE "error"
  /\ Goto(IF pc = "clearFailed" THEN "announce" ELSE "promoteNext", cur)
  /\ UNCHANGED <<rows, desired, observed, desiredBy, work, history, process, snap,
                 emitted, fault>>

\* emitDeploy.
Announce ==
  /\ At("announce")
  /\ emitted' = [emitted EXCEPT ![cur] = @ + 1]
  /\ Goto("promoteNext", cur)
  /\ UNCHANGED <<rows, appRow, work, history, process, snap, fault>>

PromoteNext ==
  /\ At("promoteNext")
  /\ \/ \E d \in Dep : IsHead(d) /\ status[d] = "queued" /\ Goto("setDeploying", d)
     \/ /\ ~ \E d \in Dep : IsHead(d) /\ status[d] = "queued"
        /\ Return
  /\ UNCHANGED <<rows, appRow, work, history, process, snap, emitted, fault>>

-----------------------------------------------------------------------------
(* What the agents report.                                                 *)

\* Mutant: a late build event moves a deployment that has already ended.
HandleDeployEvent_LateBuild(srv, d, stage, failed) ==
  /\ LockFree
  /\ stage = "build" /\ status[d] \in Terminal \cup {"building"} /\ srv = builderFor(d)
  /\ IF failed THEN Goto("endActive", d) ELSE Goto("setImage", d)
  /\ UNCHANGED <<rows, appRow, work, history, process, snap, emitted, fault>>

\* Mutant: a successful build rolls out without recording its image.
HandleDeployEvent_NoImage(srv, d, stage, failed) ==
  /\ LockFree
  /\ stage = "build" /\ status[d] = "building" /\ srv = builderFor(d)
  /\ IF failed THEN Goto("endActive", d) ELSE Goto("setRollingOut", d)
  /\ UNCHANGED <<rows, appRow, work, history, process, snap, emitted, fault>>

\* HandleDeployEvent: a stage's terminal outcome.  An event for a stage the
\* deployment is not in, or from a server with no part in it, is dropped.
HandleDeployEvent(srv, d, stage, failed) ==
  /\ LockFree
  /\ \/ /\ stage = "build" /\ status[d] = "building" /\ srv = builderFor(d)
        /\ IF failed THEN Goto("endActive", d) ELSE Goto("setImage", d)
     \/ /\ stage = "distribute" /\ status[d] = "distributing"
        /\ \/ failed /\ srv \in {Target, builderFor(d)} /\ Goto("endActive", d)
           \/ ~failed /\ srv = Target /\ Goto("setRollingOut", d)
     \/ /\ stage = "rollout" /\ status[d] = "rolling_out" /\ srv = Target
        /\ failed /\ Goto("endActive", d)
  /\ UNCHANGED <<rows, appRow, work, history, process, snap, emitted, fault>>

\* HandleAppStatus: record the observation; a running revision completes the
\* oldest rollout of it.  (pinRevisionImage replaces the name of an image the
\* revision already has.)
HandleAppStatus(state, r) ==
  /\ LockFree
  /\ appStatus' = state /\ observed' = r
  /\ \/ /\ state = "running"
        /\ \E d \in Dep : /\ status[d] = "rolling_out" /\ rev[d] = r
                          /\ \A e \in Dep : status[e] = "rolling_out" /\ rev[e] = r
                                              => d <= e
                          /\ Goto("complete", d)
     \/ /\ ~(state = "running" /\ \E d \in Dep : status[d] = "rolling_out" /\ rev[d] = r)
        /\ UNCHANGED job
  /\ UNCHANGED <<rows, desired, desiredBy, work, history, process, snap, emitted, fault>>

\* Mutant: announces the success even when it could not be recorded.
Complete_AnnouncesFirst ==
  /\ At("complete")
  /\ Goto("announce", cur)
  /\ \/ SetStatus(cur, "succeeded") /\ ended' = [ended EXCEPT ![cur] = "succeeded"]
     \/ MayFail /\ UNCHANGED <<status, ended>>
  /\ UNCHANGED <<rev, builder, approval, image, promoted, appRow, work, gated,
                 process, snap, emitted, fault>>

Complete ==
  /\ At("complete")
  /\ SetStatus(cur, "succeeded")
  /\ Goto("announce", cur)
  /\ ended' = [ended EXCEPT ![cur] = "succeeded"]
  /\ UNCHANGED <<rev, builder, approval, image, promoted, appRow, work, gated,
                 process, snap, emitted, fault>>

-----------------------------------------------------------------------------
(* Failures.                                                               *)

\* A store or bus call fails: the handler logs it and returns, except that
\* endActive goes on to announce and to promote when it cannot read the
\* application or clear its status.
CallFails ==
  /\ MayFail /\ up /\ pc # "idle"
  /\ pc \notin {"gatePark", "announce"}
  /\ IF pc \in {"clearFailed", "clearCancelled"}
     THEN \/ Goto("promoteNext", cur)
          \/ pc = "clearFailed" /\ Goto("announce", cur)
     ELSE Return
  /\ fault' = TRUE
  /\ UNCHANGED <<rows, appRow, work, history, process, snap, emitted>>

\* The pipeline call of a decided approval fails on its first read or write.
DecisionFails(d) ==
  /\ MayFail /\ LockFree /\ deciding[d] # "none"
  /\ deciding' = [deciding EXCEPT ![d] = "none"]
  /\ fault' = TRUE
  /\ UNCHANGED <<rows, appRow, work, history, up, crashes, job, snap,
                 emitted>>

\* cypherd dies: what is not in Postgres or in the WORK stream is lost.
Crash ==
  /\ up /\ crashes < MaxCrash
  /\ up' = FALSE
  /\ crashes' = crashes + 1
  /\ Return
  /\ snap' = [d \in Dep |-> "none"]
  /\ deciding' = [d \in Dep |-> "none"]
  /\ UNCHANGED <<rows, appRow, work, history, emitted, fault>>

\* The plane boots and runs Recover before it serves anything: it lists the
\* active deployments once ...
Boot ==
  /\ ~up
  /\ up' = TRUE
  /\ snap' = [d \in Dep |-> IF status[d] \in Active THEN status[d] ELSE "none"]
  /\ fault' = FALSE
  /\ UNCHANGED <<rows, appRow, work, history, deciding, crashes, job,
                 emitted>>

\* Mutant: a queued deployment is started without looking at the queue.
RecoverNext_StartsQueued(d) ==
  /\ up /\ pc = "idle"
  /\ snap[d] # "none" /\ \A e \in Dep : snap[e] # "none" => d <= e
  /\ snap' = [snap EXCEPT ![d] = "none"]
  /\ Goto(CASE snap[d] = "queued" -> "setDeploying"
            [] snap[d] = "building" -> "pubBuild"
            [] snap[d] = "distributing" -> "setDistributing"
            [] snap[d] = "rolling_out" -> "setRollingOut", d)
  /\ UNCHANGED <<rows, appRow, work, history, process, emitted, fault>>

\* Mutant: a rollout is re-published without re-pointing desired state.
RecoverNext_PublishOnly(d) ==
  /\ up /\ pc = "idle"
  /\ snap[d] # "none" /\ \A e \in Dep : snap[e] # "none" => d <= e
  /\ snap' = [snap EXCEPT ![d] = "none"]
  /\ Goto(CASE snap[d] = "queued" -> "tryStart"
            [] snap[d] = "building" -> "pubBuild"
            [] snap[d] = "distributing" -> "setDistributing"
            [] snap[d] = "rolling_out" -> "pubRollout", d)
  /\ UNCHANGED <<rows, appRow, work, history, process, emitted, fault>>

\* ... and re-drives them in created_at order, each from the status it had in
\* that list; one that cannot be loaded is skipped.
RecoverNext(d) ==
  /\ up /\ pc = "idle"
  /\ snap[d] # "none" /\ \A e \in Dep : snap[e] # "none" => d <= e
  /\ snap' = [snap EXCEPT ![d] = "none"]
  /\ \/ /\ Goto(CASE snap[d] = "queued" -> "tryStart"
                  [] snap[d] = "building" -> "pubBuild"
                  [] snap[d] = "distributing" -> "setDistributing"
                  [] snap[d] = "rolling_out" -> "setRollingOut", d)
        /\ UNCHANGED fault
     \/ MayFail /\ UNCHANGED job /\ fault' = TRUE
  /\ UNCHANGED <<rows, appRow, work, history, process, emitted>>

-----------------------------------------------------------------------------
\* One step of the handler that holds the lock.
Step ==
  \/ \E srv \in Servers : SetArtifactServer(srv)
  \/ Park \/ GatePark \/ FailParked
  \/ TryStart \/ StartDeploying \/ SetBuilding \/ SelectBuilder \/ PublishBuild
  \/ SetImage \/ SetDistributing \/ PublishPush \/ PublishDistribute
  \/ SetRollingOut \/ SetDesired \/ PublishRollout
  \/ EndActive \/ ClearDeploying \/ Announce \/ PromoteNext \/ Complete

\* Requests of users and of the machine triggers.
Request ==
  \E d \in Dep :
    \/ \E need \in Gates :
         \/ \E imageSource \in BOOLEAN : Deploy(d, need, imageSource)
         \/ \E s \in Dep : Rollback(d, s, need)
         \/ Promote(d, need)
    \/ \E verdict \in {"approve", "reject"} : DecideApproval(d, verdict)
    \/ ApproveDeployment(d) \/ RejectDeployment(d) \/ Cancel(d)

Report ==
  \/ \E srv \in Servers, d \in Dep, failed \in BOOLEAN,
        stage \in {"build", "distribute", "rollout"} :
       HandleDeployEvent(srv, d, stage, failed)
  \/ \E state \in {"running", "error"}, r \in {NoRev} \cup {i \in Dep : image[i]} :
       HandleAppStatus(state, r)

Failure ==
  \/ CallFails \/ Crash
  \/ \E d \in Dep : DecisionFails(d)

Next ==
  \/ Step \/ Request \/ Report \/ Failure
  \/ Boot \/ \E d \in Dep : RecoverNext(d)

Spec == Init /\ [][Next]_vars

-----------------------------------------------------------------------------
(* Properties.                                                             *)

\* Deploy protection: a deployment whose approval row is not approved has no
\* work item in the stream, never became the application's desired state, and
\* is parked or failed.  Approving, rejecting, cancelling, the pipeline's
\* handlers and Recover all interleave (scheduler.park, ApproveDeployment,
\* Recover; protection.Approve).
GateRespected ==
  \A d \in Dep : approval[d] \in {"pending", "rejected"} =>
    /\ status[d] \in {"awaiting_approval", "failed"}
    /\ work[d] = {} /\ desiredBy # d

\* Queue order: a deployment runs while an older one is still active only when
\* an approver released the older one after the newer had started
\* (tryStart, promoteNext, Recover).
QueueOrder ==
  \A d, e \in Dep :
    status[d] \in InFlight /\ status[e] \in Active /\ e < d => approval[e] = "approved"

\* Without the approval gate an application has one pipeline at a time.
OnePipelineUngated ==
  (\A d \in Dep : ~gated[d]) =>
    \A d, e \in Dep : status[d] \in InFlight /\ status[e] \in InFlight => d = e

\* No lost wake-up: when the lock is free and no call has failed since boot,
\* the head of the queue is running, never waiting: whoever ended the previous
\* pipeline, or the boot that followed a crash, has started it.
NoStrandedQueue ==
  LockFree /\ ~fault => \A d \in Dep : IsHead(d) => status[d] # "queued"

\* The deploying override never outlives the pipeline that applied it, unless
\* a call failed or the plane died (clearDeployingStatus).
OverrideTakenBack ==
  LockFree /\ ~fault /\ crashes = 0 /\ appStatus = "deploying" =>
    \E d \in Dep : status[d] \in InFlight

\* Desired state names only revisions that have an image, so DesiredStateFor
\* never omits (and thereby removes) an application that was rolled out.
DesiredIsBuilt == desired # NoRev => image[desired]

\* Desired state names the revision of the deployment that is rolling out.
RollingOutIsDesired ==
  LockFree /\ ~fault /\ (\A e \in Dep : ~gated[e]) =>
    \A d \in Dep : status[d] = "rolling_out" => desired = rev[d]

\* A deployment that was rejected or cancelled never became desired state,
\* never had a rollout published, and is not announced as a failure (Cancel:
\* "leave desired state pointing at a revision the panel claims it abandoned").
CancelIsHonest ==
  \A d \in Dep : ended[d] \in {"withdrawn", "cancelled"} =>
    /\ desiredBy # d /\ emitted[d] = 0
    /\ "rollout" \notin work[d]

\* The sinks hear of an outcome at most once, and only of the outcome the row
\* records (emitDeploy).
AnnouncedOnce ==
  \A d \in Dep : /\ emitted[d] <= 1
                 /\ emitted[d] = 1 => ended[d] = status[d] /\ status[d] \in Terminal

Rank == [s \in Status \cup {"none"} |->
           CASE s = "none" -> 0
             [] s \in {"queued", "awaiting_approval"} -> 1
             [] s = "building" -> 2
             [] s = "distributing" -> 3
             [] s = "rolling_out" -> 4
             [] OTHER -> 5]

\* A deployment only moves forward through its stages, and how it ended is
\* final, whatever is redelivered or re-driven (HandleDeployEvent, Recover).
NeverRegresses ==
  [][\A d \in Dep : /\ Rank[status[d]] <= Rank[status'[d]]
                    /\ status[d] \in Terminal => status'[d] = status[d]]_vars

-----------------------------------------------------------------------------
(* The inductive invariant behind the properties above: what is known of   *)
(* the rows, and of the row the handler holding the lock works on.         *)

NotStarted == {"none", "queued", "awaiting_approval"}
NotShipped == NotStarted \cup {"building", "distributing"}

\* Rows are created in order; what a row refers to exists.
RowsInOrder ==
  /\ \A d, e \in Dep : e < d /\ status[d] # "none" => status[e] # "none"
  /\ \A d \in Dep : status[d] = "none" =>
       /\ rev[d] = d /\ ~image[d] /\ ~promoted[d] /\ approval[d] = "none" /\ ~gated[d]
       /\ desired # d /\ deciding[d] = "none"
  /\ \A d \in Dep : status[d] # "none" => status[rev[d]] # "none"

\* A deployment leaves traces only once it runs.
TracesFollowStages ==
  /\ \A d \in Dep : status[d] \in NotStarted => work[d] = {}
  /\ \A d \in Dep : status[d] \in NotShipped => desiredBy # d /\ "rollout" \notin work[d]

\* What the gate's rows say of the deployment's.
GateRows ==
  /\ GateRespected
  /\ \A d \in Dep : deciding[d] = "approve" => approval[d] = "approved"
  /\ \A d \in Dep : approval[d] # "none" => gated[d]

\* The stages after the build work on a built revision.
ImageRows ==
  /\ \A d \in Dep : status[d] \in {"distributing", "rolling_out"} => image[rev[d]]
  /\ \A r \in Dep : promoted[r] => image[r]
  /\ DesiredIsBuilt

\* How a deployment ended is recorded with its terminal status.
EndingRows ==
  /\ \A d \in Dep : ended[d] = "none" <=> status[d] \notin Terminal
  /\ \A d \in Dep : status[d] = "succeeded" <=> ended[d] = "succeeded"
  /\ \A d \in Dep : ended[d] = "none" => emitted[d] = 0
  /\ CancelIsHonest /\ AnnouncedOnce

\* The stage start() takes a deployment to.
FirstStage(d) == IF promoted[rev[d]] THEN "distributing"
                 ELSE IF image[rev[d]] THEN "rolling_out" ELSE "building"

\* The rows Recover still has to re-drive have not moved since it listed them,
\* save that a queued one may have been promoted, and ended, meanwhile.
SnapStatus ==
  \A d \in Dep :
    /\ snap[d] \in InFlight => status[d] = snap[d]
    /\ snap[d] = "queued" => status[d] \in Terminal \cup {"queued", FirstStage(d)}

\* What the handler may be doing while Recover still has rows to re-drive.
SnapJob ==
  /\ ~up => pc = "idle"
  /\ Recovering /\ pc # "idle" =>
       /\ pc \notin {"setArtifact", "park", "gatePark", "failParked", "setImage",
                     "complete"}
       /\ snap[cur] \in {"none", "queued"}
       /\ snap[cur] = "queued" =>
            /\ pc = "setBuilding" => FirstStage(cur) = "building"
            /\ pc = "setDistributing" => FirstStage(cur) = "distributing"
            /\ pc = "setRollingOut" => FirstStage(cur) = "rolling_out"

StageOps == {"setDeploying", "setBuilding", "selectBuilder", "pubBuild", "setImage",
             "setDistributing", "pubPush", "pubDistribute", "setRollingOut",
             "setDesired", "pubRollout", "endActive", "endCancelled", "complete"}

\* The row of the handler that holds the lock is where the handler left it.
JobStage ==
  /\ pc \in {"setArtifact", "park"} => status[cur] = "queued" /\ approval[cur] = "none"
  /\ pc = "park" => gated[cur]
  /\ pc = "gatePark" => status[cur] = "awaiting_approval" /\ approval[cur] = "none" /\ gated[cur]
  /\ pc = "failParked" => status[cur] \in {"queued", "awaiting_approval"}
  /\ pc = "tryStart" => status[cur] \in Terminal \cup {"queued", FirstStage(cur)}
  /\ pc = "setDeploying" => status[cur] \in {"queued", FirstStage(cur)}
  /\ pc \in StageOps => status[cur] \in Active
  /\ pc = "setBuilding" => status[cur] \in {"queued", "building"}
  /\ pc \in {"selectBuilder", "pubBuild", "setImage"} => status[cur] = "building"
  /\ pc = "setDistributing" => status[cur] \in {"queued", "building", "distributing"}
  /\ pc \in {"pubPush", "pubDistribute"} => status[cur] = "distributing"
  /\ pc \in {"setDesired", "pubRollout", "complete"} => status[cur] = "rolling_out"
  /\ pc \in {"setDistributing", "setRollingOut"} => image[rev[cur]]
  /\ pc = "endCancelled" => status[cur] \in {"building", "distributing"}
  /\ pc = "clearFailed" => ended[cur] = "failed" /\ emitted[cur] = 0
  /\ pc = "clearCancelled" => ended[cur] = "cancelled"
  /\ pc = "announce" => ended[cur] \in {"failed", "succeeded"} /\ emitted[cur] = 0
  /\ pc \in {"clearFailed", "clearCancelled", "announce"} => status[cur] \in Terminal

\* A handler that drives a stage has passed the queue: the active deployments
\* older than its own were all released by an approver.
JobFirst ==
  pc \in StageOps =>
    \A e \in Dep : e < cur /\ status[e] \in Active => approval[e] = "approved"

\* A handler that starts a waiting deployment found nothing older in the queue,
\* and a deployment that is on its way to the gate is the newest of all.
JobHead ==
  /\ pc \in {"setDeploying", "setBuilding", "setDistributing", "setRollingOut"}
       /\ status[cur] = "queued" => \A e \in Dep : e < cur => status[e] \notin Active
  /\ pc \in {"setArtifact", "park"} => \A e \in Dep : e > cur => status[e] = "none"

\* Somebody will look at the waiting deployment d: Recover has it on its list,
\* the handler holding the lock is at it, or is going to promote the next.
WakeUpOwed(d) ==
  \/ snap[d] = "queued"
  \/ /\ cur = d
     /\ pc \in {"setArtifact", "park", "tryStart", "setDeploying", "setBuilding",
                "setDistributing", "setRollingOut"}
  \/ pc \in {"endActive", "endCancelled", "clearFailed", "clearCancelled", "announce",
             "promoteNext", "complete"}

QueueOwed ==
  up /\ ~fault => \A d \in Dep : IsHead(d) /\ status[d] = "queued" => WakeUpOwed(d)

\* The deployment that rolls out is desired, or the handler that is at it, or
\* Recover, will make it so.
RolloutOwed ==
  up /\ ~fault /\ (\A e \in Dep : ~gated[e]) =>
    \A d \in Dep : status[d] = "rolling_out" =>
      \/ desired = rev[d]
      \/ cur = d /\ pc \in {"setRollingOut", "setDesired"}
      \/ snap[d] = "rolling_out"

\* The deploying override stands for a pipeline, or the handler that holds the
\* lock is about to start one or to take the override back.
OverrideOwed ==
  /\ ~up => crashes # 0
  /\ pc = "complete" => appStatus = "running"
  /\ ~fault /\ crashes = 0 /\ appStatus = "deploying" =>
       \/ \E d \in Dep : status[d] \in InFlight
       \/ pc \in {"setBuilding", "setDistributing", "setRollingOut", "endActive",
                  "clearFailed", "clearCancelled"}

IInv ==
  /\ TypeOK /\ RowsInOrder /\ TracesFollowStages /\ GateRows /\ QueueOrder
  /\ ImageRows /\ EndingRows /\ SnapStatus /\ SnapJob /\ JobStage /\ JobFirst
  /\ JobHead /\ QueueOwed /\ RolloutOwed /\ OverrideOwed

-----------------------------------------------------------------------------
(* The promise the pipeline keeps.                                         *)

PhaseOf(s) == CASE s = "none" -> "none"
                [] s = "queued" -> "waiting"
                [] s = "awaiting_approval" -> "held"
                [] s \in {"building", "distributing"} -> "preparing"
                [] s = "rolling_out" -> "shipping"
                [] OTHER -> "ended"

Promise == INSTANCE DeployPromise WITH
             Deployments <- Dep,
             phase <- [d \in Dep |-> PhaseOf(status[d])],
             outcome <- ended, announced <- emitted, live <- desiredBy

\* The handlers, Recover and the approvers, with every crash, failed call and
\* redelivered report in between, implement the life DeployPromise describes:
\* each write is one of its steps or none.
KeepsPromise == Promise!PromiseSpec

-----------------------------------------------------------------------------
(* What the repository says, and the code does not do.                     *)

\* "one active pipeline per app; later deploys queue".
OneActivePipeline ==
  \A d, e \in Dep : status[d] \in InFlight /\ status[e] \in InFlight => d = e
=============================================================================

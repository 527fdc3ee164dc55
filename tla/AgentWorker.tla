---------------------------- MODULE AgentWorker ----------------------------
(***************************************************************************)
(* The work loop of one agent (agent/worker) between the durable stream of *)
(* its work items and the host it converges, with what the plane does that *)
(* reaches it: rollouts, converges, removals, database and stack work, and *)
(* the nudges that make it read its whole desired state again.             *)
(*                                                                         *)
(* Every change of what should exist on the node is a new version; a       *)
(* version in gone says that the resource should not exist.  Reconciling   *)
(* one resource is one step here (module DockerDriver has the steps inside *)
(* it) that can fail for the node, or for the one resource.                *)
(***************************************************************************)
EXTENDS Naturals, FiniteSets

CONSTANTS
  Resources,     \* of "app", "db", "stack", "route": what the node runs
  Cutoff,        \* maxDeliveries, the poison cutoff
  MaxDesired,    \* bound: changes of desired state, and nudges
  MaxConverge,   \* bound: converges without a deployment
  MaxMishap,     \* bound: failed calls, unanswered requests, containers that die
  MaxAgentDeath  \* bound: deaths of the agent

ASSUME WorkerAssumption ==
  /\ Resources \subseteq {"app", "db", "stack", "route"}
  /\ Cutoff \in Nat \ {0} /\ MaxDesired \in Nat /\ MaxConverge \in Nat
  /\ MaxMishap \in Nat /\ MaxAgentDeath \in Nat

VARIABLES
  \* ---- the plane ----
  want,      \* the version of each resource Postgres asks for
  gone,      \* the versions that ask for its absence
  newest,    \* the last version given out
  rollingOut, \* the application's version in rolling_out, 0 when there is none
  reading,   \* what ConvergeApp or ConvergeStack has read and not yet published
  converges,
  \* ---- the WORK stream and the reports ----
  items,     \* the unacknowledged work items of this server
  serial,    \* items published so far
  appReports, \* statuses and deploy events published for the application
  \* ---- the agent and its host ----
  agent,     \* "down", "booted", "synced", "idle", "busy", or "hung" in a request
  hand,      \* the item being handled
  held,      \* the desired state the agent keeps in memory
  host,      \* the version of each resource that exists on the host, 0 for none
  \* ---- history ----
  reached,   \* the newest version of each resource the agent ever held
  lostNudge, \* a nudge was given up after Cutoff deliveries
  mishaps, agentDeaths

planeVars == <<want, gone, newest, rollingOut, reading, converges>>
streamVars == <<items, serial>>
workerVars == <<planeVars, streamVars, appReports, agent, hand, held, host, reached,
                lostNudge, mishaps, agentDeaths>>

Versions == 1..(MaxDesired + 1)
NoItem == 0

Kinds == {"rollout", "converge", "remove", "resync", "db.provision", "db.remove",
          "compose.converge", "compose.remove"}

\* The kinds whose failures count towards the poison cutoff.
Limited == {"rollout", "remove", "resync", "db.provision"}

WorkerTypeOK ==
  /\ want \in [Resources -> Versions] /\ gone \subseteq Versions /\ newest \in Versions
  /\ rollingOut \in {0} \cup Versions
  /\ reading \in [Resources -> {0} \cup Versions]
  /\ \A i \in items :
       /\ i.id \in 1..serial /\ i.kind \in Kinds
       /\ i.sent \in Nat /\ (i.kind \in Limited => i.sent <= Cutoff + agentDeaths)
       /\ i.state \in {"new", "flying", "waiting", "due"}
  /\ Cardinality({i \in items : i.state = "flying"}) <= 1
  /\ agent \in {"down", "booted", "synced", "idle", "busy", "hung"}
  /\ hand # NoItem <=> \E i \in items : i.id = hand /\ i.state = "flying"
  /\ held \in [Resources -> {0} \cup Versions]
  /\ host \in [Resources -> {0} \cup Versions]

\* Everything was deployed once, and the agent is idle.
WorkerInit ==
  /\ want = [r \in Resources |-> 1] /\ gone = {} /\ newest = 1
  /\ rollingOut = 0 /\ reading = [r \in Resources |-> 0] /\ converges = 0
  /\ items = {} /\ serial = 0 /\ appReports = {}
  /\ agent = "idle" /\ hand = NoItem
  /\ held = [r \in Resources |-> 1] /\ host = [r \in Resources |-> 1]
  /\ reached = [r \in Resources |-> 1] /\ lostNudge = FALSE
  /\ mishaps = 0 /\ agentDeaths = 0

-----------------------------------------------------------------------------
(* The plane.                                                              *)

agentSide == <<appReports, agent, hand, held, host, reached, lostNudge, mishaps, agentDeaths>>

\* PublishWork: every item here has a message id of its own.
Publish(kind, r, v) ==
  /\ items' = items \cup {[id |-> serial + 1, kind |-> kind, res |-> r, spec |-> v,
                           sent |-> 0, state |-> "new"]}
  /\ serial' = serial + 1

\* The row of r changes: to the next version, or to absence.
ChangeOf(r, absent) ==
  /\ r \in Resources
  /\ newest < MaxDesired + 1
  /\ newest' = newest + 1
  /\ want' = [want EXCEPT ![r] = newest + 1]
  /\ gone' = IF absent THEN gone \cup {newest + 1} ELSE gone

Exists(r) == r \in Resources /\ want[r] \notin gone

\* startRollout: one deployment of the application rolls out at a time.
StartRollout ==
  /\ Exists("app") /\ rollingOut = 0
  /\ ChangeOf("app", FALSE)
  /\ rollingOut' = newest + 1
  /\ Publish("rollout", "app", newest + 1)
  /\ UNCHANGED <<reading, converges, agentSide>>

\* The rollout ends with the report of the agent (HandleDeployEvent,
\* HandleAppStatus).
RolloutEnds ==
  /\ rollingOut # 0
  /\ <<"running", rollingOut>> \in appReports \/ <<"failed", rollingOut>> \in appReports
  /\ rollingOut' = 0
  /\ UNCHANGED <<want, gone, newest, reading, converges, streamVars, agentSide>>

\* A task was edited or a restart asked for, or a stack was deployed: the row
\* changes, and ConvergeApp or ConvergeStack reads it without the lock ...
ReadToConverge(r) ==
  /\ r \in {"app", "stack"} /\ Exists(r) /\ reading[r] = 0
  /\ converges < MaxConverge /\ converges' = converges + 1
  /\ ChangeOf(r, FALSE)
  /\ reading' = [reading EXCEPT ![r] = newest + 1]
  /\ UNCHANGED <<rollingOut, streamVars, agentSide>>

\* ... and publishes what it read.
PublishConverge(r) ==
  /\ r \in Resources /\ reading[r] # 0
  /\ Publish(IF r = "app" THEN "converge" ELSE "compose.converge", r, reading[r])
  /\ reading' = [reading EXCEPT ![r] = 0]
  /\ UNCHANGED <<want, gone, newest, rollingOut, converges, agentSide>>

\* RemoveApp, RemoveStack: the row is gone for good.
Remove(r) ==
  /\ r \in {"app", "stack"} /\ Exists(r)
  /\ ChangeOf(r, TRUE)
  /\ rollingOut' = IF r = "app" THEN 0 ELSE rollingOut
  /\ Publish(IF r = "app" THEN "remove" ELSE "compose.remove", r, newest + 1)
  /\ UNCHANGED <<reading, converges, agentSide>>

\* ReconcileDatabase: provisioned, reconfigured, stopped or started again.
ReconcileDatabase(stop) ==
  /\ ChangeOf("db", stop)
  /\ Publish(IF stop THEN "db.remove" ELSE "db.provision", "db", newest + 1)
  /\ UNCHANGED <<rollingOut, reading, converges, agentSide>>

\* A node-wide setting changes: here the static route of a status page, which
\* reaches the agent by a nudge to read everything again.
SetProxyRoute(absent) ==
  /\ ChangeOf("route", absent)
  /\ Publish("resync", "route", 0)
  /\ UNCHANGED <<rollingOut, reading, converges, agentSide>>

\* RequestResync for any other reason: nothing the node runs changes (the nudge
\* takes the place of one of the MaxDesired changes).
RequestResync ==
  /\ newest < MaxDesired + 1 /\ newest' = newest + 1
  /\ Publish("resync", "route", 0)
  /\ UNCHANGED <<want, gone, rollingOut, reading, converges, agentSide>>

-----------------------------------------------------------------------------
(* The stream: the consumer's redeliveries.                                *)

\* Items due again are delivered before new ones, new ones in stream order.
Deliverable(i) ==
  \/ i.state = "due"
  \/ /\ i.state = "new" /\ \A j \in items : j.state # "due"
     /\ \A j \in items : j.state = "new" => i.id <= j.id

\* The delay of a NAK, or AckWait, is over.
RedeliverItem(i) ==
  /\ i.state = "waiting"
  /\ items' = (items \ {i}) \cup {[i EXCEPT !.state = "due"]}
  /\ UNCHANGED <<serial, planeVars, agentSide>>

\* FetchWork.
Fetch(i) ==
  /\ agent = "idle" /\ Deliverable(i)
  /\ agent' = "busy" /\ hand' = i.id
  /\ items' = (items \ {i}) \cup {[i EXCEPT !.state = "flying", !.sent = @ + 1]}
  /\ UNCHANGED <<serial, planeVars, appReports, held, host, reached, lostNudge, mishaps,
                 agentDeaths>>

-----------------------------------------------------------------------------
(* The agent.                                                              *)

\* What reconciling towards version v of a resource leaves on the host.
Made(v) == IF v \in gone \cup {0} THEN 0 ELSE v

NewerOf(v, w) == IF v < w THEN w ELSE v
Hold(h) == held' = h /\ reached' = [r \in Resources |-> NewerOf(reached[r], h[r])]

\* What the host has after everything but the resources in missed converged on
\* h; a database is taken down before it is made anew.  A route is written
\* while it is desired; nothing here removes one.
HostConverged(h, missed, left) ==
  [r \in Resources |-> IF r = "db" /\ r \in missed THEN left
                       ELSE IF r \in missed \/ (r = "route" /\ Made(h[r]) = 0) THEN host[r]
                       ELSE Made(h[r])]

Leftovers(r) == IF r \in Resources THEN {host[r], 0} ELSE {0}

\* One resource that does not converge is logged or reported, not an error.
Misses(scope) == {missed \in SUBSET scope : Cardinality(missed) <= 1}

Mishap(n) == mishaps + n <= MaxMishap /\ mishaps' = mishaps + n

\* The status of the application reconcile publishes when the driver answered.
AppStatus(h, missed) ==
  IF "app" \in Resources /\ Made(h["app"]) # 0
  THEN {<<IF "app" \in missed THEN "error" ELSE "running", h["app"]>>} ELSE {}

\* reconcile(): fails as a whole when the driver does.
ReconcileOK(h, missed) ==
  /\ missed \in Misses(Resources) /\ Mishap(Cardinality(missed))
  /\ \E left \in Leftovers("db") : host' = HostConverged(h, missed, left)

ReconcileFails == Mishap(1) /\ UNCHANGED host

InHand == CHOOSE i \in items : i.id = hand

PutDown == agent' = "idle" /\ hand' = NoItem

\* Ack and Term both end the item; NakWithDelay has it again later.
AckItem == PutDown /\ items' = items \ {InHand}
NakItem == PutDown /\ items' = (items \ {InHand}) \cup {[InHand EXCEPT !.state = "waiting"]}

\* Mutant: the cutoff is noticed one delivery late.
NakOrTerm_OneMore == IF InHand.kind \in Limited /\ InHand.sent > Cutoff THEN AckItem ELSE NakItem

\* A failed item: given up at the cutoff, where its kind has one.
NakOrTerm == IF InHand.kind \in Limited /\ InHand.sent >= Cutoff THEN AckItem ELSE NakItem

\* Mutant: the spec is stored once the host converged on it.
HandleApp_StoresLate ==
  /\ agent = "busy" /\ InHand.kind \in {"rollout", "converge", "remove"}
  /\ LET h == [held EXCEPT !["app"] = InHand.spec]
         event == IF InHand.kind = "rollout" THEN {<<"failed", InHand.spec>>} ELSE {}
     IN \/ \E missed \in Misses(Resources) :
             /\ Hold(h) /\ ReconcileOK(h, missed) /\ AckItem
             /\ appReports' = appReports \cup AppStatus(h, missed)
                                   \cup IF "app" \in missed THEN event ELSE {}
        \/ ReconcileFails /\ NakOrTerm /\ appReports' = appReports \cup event
             /\ UNCHANGED <<held, reached>>
  /\ UNCHANGED <<serial, planeVars, lostNudge, agentDeaths>>

\* rollout, converge and remove of the application: the spec is stored, then
\* everything is reconciled; a rollout that fails is reported before it is
\* tried again.
HandleApp ==
  /\ agent = "busy" /\ InHand.kind \in {"rollout", "converge", "remove"}
  /\ LET h == [held EXCEPT !["app"] = InHand.spec]
         event == IF InHand.kind = "rollout" THEN {<<"failed", InHand.spec>>} ELSE {}
     IN /\ Hold(h)
        /\ \/ \E missed \in Misses(Resources) :
                /\ ReconcileOK(h, missed) /\ AckItem
                /\ appReports' = appReports \cup AppStatus(h, missed)
                                      \cup IF "app" \in missed THEN event ELSE {}
           \/ ReconcileFails /\ NakOrTerm /\ appReports' = appReports \cup event
  /\ UNCHANGED <<serial, planeVars, lostNudge, agentDeaths>>

\* Database and stack items converge their own kind only.
HandleOther ==
  /\ agent = "busy"
  /\ InHand.kind \in {"db.provision", "db.remove", "compose.converge", "compose.remove"}
  /\ LET r == InHand.res
         h == [held EXCEPT ![r] = InHand.spec]
         removal == InHand.kind \in {"db.remove", "compose.remove"}
     IN /\ Hold(h)
        /\ \/ host' = [host EXCEPT ![r] = Made(h[r])] /\ AckItem /\ UNCHANGED mishaps
           \/ /\ ~removal /\ Mishap(1) /\ AckItem
              /\ \E left \in Leftovers(r) : host' = [host EXCEPT ![r] = left]
           \/ ReconcileFails /\ NakOrTerm
  /\ UNCHANGED <<serial, planeVars, appReports, lostNudge, agentDeaths>>

\* syncState: the reply is the complete desired set and replaces what is held;
\* the routes that were held and are not in it are removed here, once, and a
\* removal that fails is only logged.
SyncState ==
  LET dropped == /\ "route" \in Resources
                 /\ Made(held["route"]) # 0 /\ Made(want["route"]) = 0
  IN /\ Hold(want)
     /\ \/ ~dropped /\ UNCHANGED <<host, mishaps>>
        \/ dropped /\ host' = [host EXCEPT !["route"] = 0] /\ UNCHANGED mishaps
        \/ dropped /\ Mishap(1) /\ UNCHANGED host

\* The plane cannot resolve the desired state and sends no reply; the request has no
\* deadline, so the work loop waits in it for as long as the process lives.
NoReply == Mishap(1) /\ agent' = "hung" /\ UNCHANGED <<held, reached, host>>

\* A nudge: syncState; the request fails (nobody serves it, no connection); or it hangs.
HandleResync ==
  /\ agent = "busy" /\ InHand.kind = "resync"
  /\ \/ SyncState /\ agent' = "synced" /\ UNCHANGED <<hand, items, lostNudge>>
     \/ /\ Mishap(1) /\ NakOrTerm
        /\ lostNudge' = (lostNudge \/ InHand.sent >= Cutoff)
        /\ UNCHANGED <<held, reached, host>>
     \/ NoReply /\ UNCHANGED <<hand, items, lostNudge>>
  /\ UNCHANGED <<serial, planeVars, appReports, agentDeaths>>

\* The boot path: the process remembers nothing and asks for everything.
Boot ==
  /\ agent = "down" /\ agent' = "booted"
  /\ UNCHANGED <<planeVars, streamVars, appReports, hand, held, host, reached, lostNudge,
                 mishaps, agentDeaths>>

\* A request that fails ends the process, and systemd starts it again.
BootSync ==
  /\ agent = "booted"
  /\ \/ SyncState /\ agent' = "synced"
     \/ Mishap(1) /\ agent' = "down" /\ UNCHANGED <<held, reached, host>>
     \/ NoReply
  /\ UNCHANGED <<planeVars, streamVars, appReports, hand, lostNudge, agentDeaths>>

\* The reconcile that follows a sync: a boot tries again until it works, a
\* nudge is handed back to the stream.
ReconcileSynced ==
  /\ agent = "synced"
  /\ \/ \E missed \in Misses(Resources) :
          /\ ReconcileOK(held, missed)
          /\ appReports' = appReports \cup AppStatus(held, missed)
          /\ IF hand = NoItem THEN PutDown /\ UNCHANGED items ELSE AckItem
     \/ /\ ReconcileFails /\ UNCHANGED appReports
        /\ IF hand = NoItem THEN UNCHANGED <<agent, hand, items>> ELSE NakOrTerm
  /\ UNCHANGED <<serial, planeVars, held, reached, lostNudge, agentDeaths>>

\* Mutant: the idle loop reconciles applications only.
Drift_AppsOnly ==
  /\ agent = "idle" /\ \A i \in items : ~Deliverable(i)
  /\ \E missed \in Misses(Resources) :
       /\ ReconcileOK(held, missed \cup (Resources \ {"app"}))
       /\ appReports' = appReports \cup AppStatus(held, missed)
  /\ UNCHANGED <<planeVars, streamVars, agent, hand, held, reached, lostNudge, agentDeaths>>

\* No work for a while: reconcile what is held; an error is only logged.
Drift ==
  /\ agent = "idle" /\ \A i \in items : ~Deliverable(i)
  /\ \/ \E missed \in Misses(Resources) :
          /\ ReconcileOK(held, missed)
          /\ appReports' = appReports \cup AppStatus(held, missed)
     \/ ReconcileFails /\ UNCHANGED appReports
  /\ UNCHANGED <<planeVars, streamVars, agent, hand, held, reached, lostNudge, agentDeaths>>

-----------------------------------------------------------------------------
(* What goes wrong around the agent.                                       *)

\* A container dies, or somebody removes it.
ContainerDies(r) ==
  /\ r # "route" /\ host[r] # 0 /\ Mishap(1)
  /\ host' = [host EXCEPT ![r] = 0]
  /\ UNCHANGED <<planeVars, streamVars, appReports, agent, hand, held, reached, lostNudge,
                 agentDeaths>>

\* The agent dies; its item is delivered again after AckWait.
AgentDies ==
  /\ agent # "down" /\ agentDeaths < MaxAgentDeath
  /\ agentDeaths' = agentDeaths + 1
  /\ agent' = "down" /\ hand' = NoItem
  /\ held' = [r \in Resources |-> 0]
  /\ items' = {IF i.state = "flying" THEN [i EXCEPT !.state = "waiting"] ELSE i : i \in items}
  /\ UNCHANGED <<serial, planeVars, appReports, host, reached, lostNudge, mishaps>>

-----------------------------------------------------------------------------
PlaneStep ==
  \/ StartRollout \/ RolloutEnds \/ RequestResync
  \/ \E r \in Resources : ReadToConverge(r) \/ Remove(r)
  \/ \E absent \in BOOLEAN : ReconcileDatabase(absent) \/ SetProxyRoute(absent)

\* What goes on by itself: the agent's loop, systemd's restart of it, the
\* stream's redelivery and the publish a request is about to make.
WorkerStep ==
  \/ \E i \in items : Fetch(i) \/ RedeliverItem(i)
  \/ HandleApp \/ HandleOther \/ HandleResync \/ ReconcileSynced
  \/ Boot \/ BootSync
  \/ \E r \in Resources : PublishConverge(r)

WorkerNext ==
  \/ PlaneStep \/ WorkerStep \/ Drift \/ AgentDies
  \/ \E r \in Resources : ContainerDies(r)

WorkerSpec == WorkerInit /\ [][WorkerNext]_workerVars
                         /\ WF_workerVars(WorkerStep) /\ WF_workerVars(Drift)

-----------------------------------------------------------------------------
(* Properties.                                                             *)

Settled == items = {} /\ agent = "idle" /\ \A r \in Resources : reading[r] = 0

\* Every change reaches the agent: once its stream is drained it has held the
\* version Postgres asks for, although items are given up after Cutoff
\* failures, the agent dies with an item in hand and boots from a sync that
\* raced the publish.  The exception is a nudge the plane never answered.
NothingLost ==
  Settled => \A r \in Resources : reached[r] = want[r] \/ (r = "route" /\ lostNudge)

\* Once mishaps and changes are over the stream drains and the host has what
\* the agent holds, and stays so: NAKs end, the drift loop repairs what died
\* or failed, for databases and stacks as for applications.  The exception is an
\* agent whose request for its desired state was never answered (RespondDesiredState).
EventuallySettles ==
  <>[](\/ agent = "hung"
       \/ /\ Settled
          /\ \A r \in Resources \ {"route"} : host[r] = Made(held[r]))

-----------------------------------------------------------------------------
(* What the repository says, and the code does not do.                     *)

\* "Kill the agent mid-deploy, restart, reconciler converges to the desired
\* revision with no manual step": an agent that settled holds the revision the
\* application should run.
SettledOnDesired ==
  Settled /\ Exists("app") => held["app"] = want["app"]

\* It does while no call failed, nothing died, and no request published what it had read
\* beside another: each of the three can bring an item behind a newer one, or again after it.
Undisturbed == mishaps = 0 /\ agentDeaths = 0 /\ converges = 0

\* Then a settled agent holds, and its host runs, what Postgres asks for.
RunsWhatIsWanted ==
  Settled => \A r \in Resources \ {"route"} : held[r] = want[r] /\ host[r] = Made(want[r])

-----------------------------------------------------------------------------
(* The inductive invariant behind NothingLost.                             *)

WorkItems == [id : Nat \ {0}, kind : Kinds, res : Resources \cup {"route"},
              spec : {0} \cup Versions, sent : Nat, state : {"new", "flying", "waiting", "due"}]

\* An item names a version of its resource that was asked for, is in flight exactly while
\* it is in hand, and is delivered at most Cutoff times, and once more for each death.
ItemOK(i) ==
  /\ i \in WorkItems /\ i.id <= serial
  /\ i.kind \in {"rollout", "converge", "remove"} => i.res = "app"
  /\ i.kind # "resync" => i.res \in Resources /\ i.spec <= want[i.res]
  /\ i.state = "flying" <=> i.id = hand
  /\ i.kind \in Limited => i.sent <= Cutoff + agentDeaths
  /\ i.kind \in Limited /\ i.state # "flying" => i.sent < Cutoff + agentDeaths

StreamOK ==
  /\ serial \in Nat /\ agentDeaths \in Nat
  /\ \A i \in items : ItemOK(i)
  /\ \A i, j \in items : i.id = j.id => i = j

\* The item in hand, by what the agent is at.
HandOK ==
  /\ agent \in {"down", "booted", "synced", "idle", "busy", "hung"}
  /\ hand # NoItem => \E i \in items : i.id = hand
  /\ agent \in {"down", "booted", "idle"} => hand = NoItem
  /\ agent = "busy" => hand # NoItem
  /\ agent \in {"synced", "hung"} => \A i \in items : i.id = hand => i.kind = "resync"

\* What is held, was held or is about to be published was asked for before.
VersionsOK ==
  /\ newest \in Versions /\ gone \subseteq Versions /\ rollingOut \in {0} \cup Versions
  /\ want \in [Resources -> Versions] /\ host \in [Resources -> {0} \cup Versions]
  /\ reading \in [Resources -> {0} \cup Versions]
  /\ held \in [Resources -> {0} \cup Versions] /\ reached \in [Resources -> {0} \cup Versions]
  /\ \A r \in Resources : /\ want[r] <= newest /\ reading[r] <= want[r]
                            /\ held[r] <= want[r] /\ reached[r] <= want[r]

\* A version that has not reached the agent is on its way: about to be published, in an
\* item, or behind a nudge that has still to be answered.
OnItsWay(r) ==
  \/ reading[r] = want[r]
  \/ \E i \in items : i.kind # "resync" /\ i.res = r /\ i.spec = want[r]
  \/ r = "route" /\ lostNudge
  \/ r = "route" /\ \E i \in items : i.kind = "resync" /\ ~(agent = "synced" /\ i.id = hand)

WorkerInv ==
  /\ StreamOK /\ HandOK /\ VersionsOK
  /\ \A r \in Resources : reached[r] = want[r] \/ OnItsWay(r)

-----------------------------------------------------------------------------
(* The inductive invariant behind RunsWhatIsWanted.                        *)

Carries(i, r) == i.kind # "resync" /\ i.res = r

\* Nothing is delivered out of order: the item in hand is the oldest, the items of a resource
\* are in the order of their versions, and the newest version is the last of them, or is held.
InOrder ==
  /\ agent \in {"idle", "busy", "synced"} /\ (agent = "synced" => hand # NoItem)
  /\ \A r \in Resources : reading[r] = 0
  /\ \A i \in items : i.state \in {"new", "flying"} /\ (hand # NoItem => hand <= i.id)
  /\ \A i, j \in items, r \in Resources :
       Carries(i, r) /\ Carries(j, r) /\ i.id < j.id => i.spec < j.spec
  /\ \A r \in Resources \ {"route"} :
       /\ \/ held[r] = want[r] /\ \A i \in items : ~Carries(i, r)
          \/ \E i \in items : Carries(i, r) /\ i.spec = want[r]
       /\ agent # "synced" => host[r] = Made(held[r])

CalmInv == mishaps \in Nat /\ converges \in Nat /\ (Undisturbed => InOrder)
=============================================================================

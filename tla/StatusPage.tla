---------------------------- MODULE StatusPage ----------------------------
(***************************************************************************)
(* From a server's heartbeat to the public page: the recorder and the      *)
(* stale sweep (core/status), the evaluator that writes a component's      *)
(* intervals (core/statuspage) and the plane's own absence.  One server,   *)
(* one application on it, one component of one page.                       *)
(*                                                                         *)
(* The unit of time is the evaluator's tick, which is also the sweep's     *)
(* interval; both run once in a unit, in either order, while the plane is  *)
(* up.  Heartbeats and reports arrive at any time; those sent while the    *)
(* plane was down arrive when it is back, and count as seen then.          *)
(***************************************************************************)
EXTENDS Naturals

CONSTANTS
  HeartbeatStale,  \* ticks without a heartbeat after which a server is unknown
  Dwell,           \* ticks a state must be observed before the page changes
  MaxTime,         \* bound: ticks
  MaxReport,       \* bound: changes of the application's reported status
  MaxPlaneStop     \* bound: crashes of the plane, and runs of a loop with failing calls

ASSUME PageAssumption ==
  /\ HeartbeatStale \in Nat /\ Dwell \in Nat \ {0} /\ MaxTime \in Nat \ {0}
  /\ MaxReport \in Nat /\ MaxPlaneStop \in Nat

Never == 0               \* status_evaluations has no row
StillOpen == MaxTime + 1     \* ended_at of an open interval

VARIABLES
  now,
  plane,        \* "up" or "down"
  hostAlive,    \* does the server still send
  server,       \* servers: status, and last_seen_at
  app,          \* the application's stored status; "new" before any observation
  due,          \* the loops that have not run in this unit
  lastEval,     \* status_evaluations
  intervals,    \* status_intervals of the component
  dwelling,     \* the evaluator's pending state of the component, in memory
  reported, planeStops,
  bootedAt, stoppedAt, \* history: when the plane came up, and when it stopped if it is down
  diedAt,       \* history: when the host fell silent
  failedAt,     \* history: when a call of the sweep or of the evaluator failed last
  outages,      \* history: the absences, [from, to), after which no interval was left open
  streak        \* history: the state observed last since the boot, and since when no other

pageHistory == <<bootedAt, stoppedAt, diedAt, failedAt, outages, streak>>
pageVars == <<now, plane, hostAlive, server, app, due, lastEval, intervals, dwelling,
              reported, planeStops, pageHistory>>

Public == {"operational", "down", "unknown"}
NoDwell == [state |-> "none", since |-> 0]

PageTypeOK ==
  /\ now \in 1..MaxTime /\ plane \in {"up", "down"} /\ hostAlive \in BOOLEAN
  /\ server \in [status : {"running", "unknown"}, seen : 0..MaxTime]
  /\ app \in {"new", "running", "stopped", "deploying"}
  /\ due \subseteq {"tick", "sweep"} /\ lastEval \in 0..MaxTime
  /\ intervals \subseteq [state : Public, from : 1..MaxTime, to : 1..StillOpen]
  /\ dwelling \in [state : Public \cup {"none"}, since : 0..MaxTime]

PageInit ==
  /\ now = 1 /\ plane = "up" /\ hostAlive = TRUE
  /\ server = [status |-> "unknown", seen |-> 0] /\ app = "new"
  /\ due = {} /\ lastEval = Never /\ intervals = {} /\ dwelling = NoDwell
  /\ reported = 0 /\ planeStops = 0 /\ bootedAt = 1 /\ stoppedAt = 0 /\ diedAt = StillOpen
  /\ failedAt = 0 /\ outages = {} /\ streak = NoDwell

Failing == planeStops < MaxPlaneStop /\ planeStops' = planeStops + 1

-----------------------------------------------------------------------------
(* The agent, and what the plane records of it.                            *)

\* Recorder.Record: last_seen_at is the time of the write.
RecordHeartbeat ==
  /\ plane = "up" /\ (hostAlive \/ bootedAt = now)
  /\ server' = [status |-> "running", seen |-> now]
  /\ UNCHANGED <<now, plane, hostAlive, app, due, lastEval, intervals, dwelling, reported,
                 planeStops, pageHistory>>

\* The application's status, as the scheduler stores the agent's report.
HandleReport(status) ==
  /\ plane = "up" /\ hostAlive /\ status # app
  /\ reported < MaxReport /\ reported' = reported + 1
  /\ app' = status
  /\ UNCHANGED <<now, plane, hostAlive, server, due, lastEval, intervals, dwelling, planeStops,
                 pageHistory>>

HostDies ==
  /\ hostAlive /\ hostAlive' = FALSE /\ diedAt' = now
  /\ UNCHANGED <<now, plane, server, app, due, lastEval, intervals, dwelling, reported,
                 planeStops, bootedAt, stoppedAt, failedAt, outages, streak>>

\* MarkStaleServersUnknown: last_seen_at < now - stale.
MarkStaleServersUnknown ==
  server' = IF server.seen + HeartbeatStale < now
            THEN [server EXCEPT !.status = "unknown"] ELSE server

\* A sweep that fails is logged.
StatusSweep ==
  /\ plane = "up" /\ "sweep" \in due /\ due' = due \ {"sweep"}
  /\ \/ MarkStaleServersUnknown /\ UNCHANGED <<planeStops, failedAt>>
     \/ Failing /\ failedAt' = now /\ UNCHANGED server
  /\ UNCHANGED <<now, plane, hostAlive, app, lastEval, intervals, dwelling, reported,
                 bootedAt, stoppedAt, diedAt, outages, streak>>

-----------------------------------------------------------------------------
(* The evaluator.                                                          *)

PublicStateFor_StoredStatus ==
  CASE app = "running" -> "operational" [] app = "stopped" -> "down"
    [] app = "deploying" -> "none" [] app = "new" -> "unknown"

\* PublicStateFor: the server first, then the application; "none" (the empty state) while it
\* deploys.
PublicStateFor ==
  IF server.status = "unknown" THEN "unknown"
  ELSE CASE app = "running" -> "operational"
         [] app = "stopped" -> "down"
         [] app = "deploying" -> "none"
         [] app = "new" -> "unknown"

OpenInterval == {i \in intervals : i.to = StillOpen}

Closed(i, at) == [i EXCEPT !.to = at]
Opened(state, at) == [state |-> state, from |-> at, to |-> StillOpen]

\* A change: both writes carry the time of the tick.
StatusChange(i, observed) == <<Closed(i, now), Opened(observed, now)>>

Forgotten_Kept == dwelling

\* A pending change that was not confirmed is forgotten.
Forgotten == NoDwell

\* The calls of a tick that may fail, any number of them: the list of components, the reads of
\* the resource (observe), of its server and of the open interval, the close and the open of
\* a change, and the stamp.
Calls == {"list", "observe", "server", "read", "close", "open", "stamp"}

\* A server that cannot be read is one that does not report.
Observed(failing) == IF "server" \in failing THEN "unknown" ELSE PublicStateFor

\* Does the tick get as far as an observation?
Sees(failing) == "list" \notin failing /\ "observe" \notin failing

\* evaluate: the intervals and the pending state it leaves.  A component that cannot be
\* observed keeps both.  When the open interval cannot be read, opening another one fails on
\* the index that allows one.  A change is a close and an open: a failing close leaves the old
\* interval open, a failing open leaves none.
evaluate(failing) ==
  LET observed == Observed(failing)
      i        == CHOOSE j \in OpenInterval : TRUE
      change   == StatusChange(i, observed)
      leave(written, p) == [intervals |-> written, pending |-> p]
  IN  IF ~Sees(failing) THEN leave(intervals, dwelling)
      ELSE IF observed = "none" THEN leave(intervals, Forgotten)
      ELSE IF OpenInterval = {} \/ "read" \in failing
      THEN leave(IF OpenInterval # {} \/ "open" \in failing THEN intervals
                 ELSE intervals \cup {Opened(observed, now)}, Forgotten)
      ELSE IF i.state = observed THEN leave(intervals, Forgotten)
      ELSE IF dwelling.state # observed THEN leave(intervals, [state |-> observed, since |-> now])
      ELSE IF now - dwelling.since < Dwell \/ "close" \in failing THEN leave(intervals, dwelling)
      ELSE leave((intervals \ {i}) \cup {change[1]}
                   \cup (IF "open" \in failing THEN {} ELSE {change[2]}), dwelling)

\* The history of what the evaluations observed.
Observes(failing) ==
  streak' = IF Sees(failing) /\ streak.state # Observed(failing)
            THEN [state |-> Observed(failing), since |-> now] ELSE streak

\* Tick: evaluate, then stamp; without the list of components neither.
Tick(failing) ==
  /\ plane = "up" /\ "tick" \in due /\ due' = due \ {"tick"}
  /\ IF failing = {} THEN UNCHANGED <<planeStops, failedAt>> ELSE Failing /\ failedAt' = now
  /\ intervals' = evaluate(failing).intervals /\ dwelling' = evaluate(failing).pending
  /\ lastEval' = IF "list" \in failing \/ "stamp" \in failing THEN lastEval ELSE now
  /\ Observes(failing)
  /\ UNCHANGED <<now, plane, hostAlive, server, app, reported, bootedAt, stoppedAt, diedAt,
                 outages>>

\* The plane stops, at any point: also between the writes of a tick.
PlaneStops ==
  /\ plane = "up" /\ plane' = "down" /\ Failing /\ stoppedAt' = now
  /\ \/ UNCHANGED <<intervals, streak>>
     \/ \E failing \in SUBSET Calls : /\ "tick" \in due /\ Observes(failing)
                                      /\ intervals' = evaluate(failing).intervals
  /\ dwelling' = NoDwell /\ due' = {}
  /\ UNCHANGED <<now, hostAlive, server, app, lastEval, reported, bootedAt, diedAt, failedAt, outages>>

ClosedGap_AtBoot(failing) ==
  {IF i.to = StillOpen THEN Closed(i, now) ELSE i : i \in intervals}

\* CloseGap, on boot, for an absence longer than two ticks.  The ticker's first
\* tick comes one unit later.
GapIsWide == lastEval # Never /\ now - lastEval > 2

\* Its calls: the last evaluation with the list of components, the read of the open interval,
\* its close, and the open and the close of the gap.
GapCalls == {"list", "read", "close", "open", "gap"}

\* What CloseGap leaves: the open interval closed at the last evaluation, and the absence since
\* then as unknown.  A call that fails ends it, but for the read: then the gap is opened at
\* once, which an interval that is still open forbids.
ClosedGap(failing) ==
  LET ended == {IF i.to = StillOpen THEN Closed(i, lastEval) ELSE i : i \in intervals}
      gap   == Opened("unknown", lastEval)
  IN  IF "list" \in failing \/ (OpenInterval # {} /\ {"read", "close"} \cap failing # {}) THEN intervals
      ELSE IF "open" \in failing THEN ended
      ELSE ended \cup {IF "gap" \in failing THEN gap ELSE Closed(gap, now)}

\* A failing call stops nothing: the panel serves, and its loops begin.
PlaneBoots(failing) ==
  /\ plane = "down" /\ plane' = "up" /\ bootedAt' = now /\ due' = {}
  /\ IF failing = {} THEN UNCHANGED planeStops ELSE Failing /\ GapIsWide
  /\ intervals' = IF GapIsWide THEN ClosedGap(failing) ELSE intervals
  /\ outages' = IF GapIsWide /\ OpenInterval \cap ClosedGap(failing) = {}
                THEN outages \cup {[from |-> stoppedAt, to |-> now]} ELSE outages
  /\ stoppedAt' = 0 /\ streak' = NoDwell
  /\ UNCHANGED <<now, hostAlive, server, app, lastEval, dwelling, reported, diedAt, failedAt>>

\* The plane dies between the writes of CloseGap.
BootFails(failing) ==
  /\ plane = "down" /\ GapIsWide /\ Failing /\ intervals' = ClosedGap(failing)
  /\ UNCHANGED <<now, plane, hostAlive, server, app, due, lastEval, dwelling, reported,
                 pageHistory>>

\* Time passes once the loops of a running plane have run.
TimePasses ==
  /\ due = {} /\ now < MaxTime /\ now' = now + 1
  /\ due' = IF plane = "up" THEN {"tick", "sweep"} ELSE {}
  /\ UNCHANGED <<plane, hostAlive, server, app, lastEval, intervals, dwelling, reported, planeStops,
                 pageHistory>>

PageNext ==
  \/ RecordHeartbeat \/ HostDies \/ StatusSweep \/ PlaneStops \/ TimePasses
  \/ \E failing \in SUBSET Calls : Tick(failing)
  \/ \E failing \in SUBSET GapCalls : PlaneBoots(failing) \/ BootFails(failing)
  \/ \E status \in {"running", "stopped", "deploying"} : HandleReport(status)

PageSpec == PageInit /\ [][PageNext]_pageVars

-----------------------------------------------------------------------------
(* Properties.                                                             *)

\* The latest of the host's last sign of life, the plane's boot and the last failing call.
SilentSince ==
  LET later == IF diedAt > bootedAt THEN diedAt ELSE bootedAt
  IN  IF failedAt > later THEN failedAt ELSE later

\* The page does not vouch for a host that fell silent: some ticks after the latest of its last
\* sign of life, the plane's boot and the last failing call of the sweep or of the evaluator,
\* the open interval is "unknown", whatever those calls left behind.  The bound adds the
\* stale limit, the dwell, and a tick for each loop that may have run just before the other.
SilentIsUnknown ==
  \A i \in OpenInterval :
    /\ plane = "up" /\ due = {} /\ ~hostAlive
    /\ now > SilentSince + HeartbeatStale + Dwell + 1
    => i.state = "unknown"

\* No interval of an observed state covers any of an absence of the plane that was wide enough
\* to be closed, whenever the plane crashed and whichever writes it came to, unless the old
\* interval could not be closed at the boot.
OutageIsGrey ==
  \A o \in outages, i \in intervals :
    i.state # "unknown" => i.to <= o.from \/ i.from >= o.to \/ i.to <= i.from

\* A blip is not news: an interval is followed by one of another state only when that state is
\* all that was observed, and was first observed a dwell ago, since this boot.  Evaluations
\* that could not observe the component say nothing either way.
BlipsAreNotNews ==
  [][\A i \in OpenInterval, j \in intervals' :
       plane = "up" /\ i \notin intervals' /\ j \notin intervals /\ j.to = StillOpen =>
         streak'.state = j.state /\ now >= streak'.since + Dwell]_pageVars

-----------------------------------------------------------------------------
(* The inductive invariant behind them.                                    *)

HistoryOK ==
  /\ bootedAt \in 1..MaxTime /\ stoppedAt \in 0..MaxTime /\ diedAt \in 1..StillOpen
  /\ failedAt \in 0..MaxTime /\ outages \subseteq [from : 1..MaxTime, to : 1..MaxTime]
  /\ streak \in [state : Public \cup {"none"}, since : 0..MaxTime]

\* Nothing on record lies ahead of the clock.
NothingAhead ==
  /\ bootedAt <= now /\ failedAt <= now /\ server.seen <= now /\ lastEval <= now
  /\ dwelling.since <= now /\ streak.since <= now
  /\ hostAlive \/ diedAt <= now
  /\ \A i \in intervals : i.from <= now /\ (i.to = StillOpen \/ i.to <= now)
  /\ \A o \in outages : o.to <= now

\* While the plane is down its records end where it stopped.
EndsAtStop ==
  plane = "down" =>
    /\ stoppedAt \in 1..now /\ lastEval <= stoppedAt /\ due = {} /\ dwelling = NoDwell
    /\ \A i \in intervals : i.state # "unknown" => i.to = StillOpen \/ i.to <= stoppedAt

OneOpen == \A i, j \in OpenInterval : i = j

\* The unit of the last evaluation, once there was one after the boot.
LastTick == IF "tick" \in due THEN now - 1 ELSE now

\* Since a pending change became one, nothing else was observed.
DwellIsObserved ==
  dwelling.state # "none" => streak.state = dwelling.state /\ streak.since <= dwelling.since

\* A silent host is unknown to the plane after the sweep of the first unit past the stale
\* limit, and to the page after the dwell that begins, at the latest, one tick later.
SilenceIsNoticed ==
  plane = "up" /\ ~hostAlive =>
    /\ server.seen <= SilentSince
    /\ now > SilentSince + HeartbeatStale + (IF "sweep" \in due THEN 1 ELSE 0) =>
         server.status = "unknown"
    /\ LastTick > SilentSince + HeartbeatStale + 1 =>
         \A i \in OpenInterval : i.state # "unknown" =>
           /\ dwelling.state = "unknown" /\ dwelling.since <= SilentSince + HeartbeatStale + 2
           /\ LastTick < dwelling.since + Dwell

PageInv ==
  /\ PageTypeOK /\ HistoryOK /\ NothingAhead /\ EndsAtStop /\ OneOpen
  /\ OutageIsGrey /\ DwellIsObserved /\ SilenceIsNoticed
=============================================================================

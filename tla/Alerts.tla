------------------------------- MODULE Alerts -------------------------------
(***************************************************************************)
(* Threshold alerts (core/alerts): the life of one rule, from its window   *)
(* of metric buckets to the messages its notifier gets.  The unit of time  *)
(* is the evaluator's tick; in a minute the window may move by a bucket.   *)
(* An evaluation is several writes and a message: the plane can stop, and  *)
(* a call can fail, between any two.                                       *)
(***************************************************************************)
EXTENDS Naturals, Sequences, FiniteSets

CONSTANTS
  Window,        \* buckets in window_seconds
  FlapEpisodes,  \* the episode that makes a rule flap
  FlapWindow,    \* ticks in which episodes are counted
  FlapHold,      \* ticks a flapping rule holds one state
  RearmDelay,    \* ticks after a resolve in which nothing is delivered
  NoDataQuiet,   \* ticks without data after which that is news
  MaxTick,       \* bound: ticks
  MaxMiss        \* bound: failing calls and stops of the plane

ASSUME AlertsAssumption ==
  /\ Window \in Nat /\ FlapEpisodes \in Nat /\ FlapWindow \in Nat /\ FlapHold \in Nat
  /\ RearmDelay \in Nat /\ NoDataQuiet \in Nat /\ MaxTick \in Nat /\ MaxMiss \in Nat

\* A bucket's mean against the threshold; "thin" covers under half of its length, and
\* "none" is a bucket without a row.
Bucket == {"high", "low", "at", "thin", "none"}
Unset == MaxTick + RearmDelay + 1   \* a NULL timestamp

VARIABLES
  ticks, buckets, evaluated,  \* evaluated: this minute's tick is over
  rule,       \* alert_rules: enabled, state, since, rearm, quiet
  events,     \* alert_events of the rule, in the order they were opened
  evaluation, \* the writes an evaluation still has to make
  missed,
  alarms,     \* history: when alert.firing was delivered
  told,       \* history: the last message delivered
  blind       \* history: counting the episodes has failed

alertHistory == <<alarms, told, blind>>
alertVars == <<ticks, buckets, evaluated, rule, events, evaluation, missed, alertHistory>>

NoEvaluation == [step |-> "none", was |-> "ok", flapping |-> FALSE, deliver |-> FALSE]

AlertsTypeOK ==
  /\ ticks \in 0..MaxTick /\ buckets \in [1..Window -> Bucket] /\ evaluated \in BOOLEAN
  /\ rule \in [enabled : BOOLEAN, state : {"ok", "firing", "no_data", "flapping"},
               since : 0..MaxTick, rearm : 0..Unset, quiet : 0..Unset]
  /\ events \in Seq([at : 0..MaxTick, open : BOOLEAN, delivered : BOOLEAN])
  /\ evaluation.step \in {"none", "opened", "fired", "closed", "resolved"}

\* A rule starts as no_data.
AlertsInit ==
  /\ ticks = 0 /\ buckets = [i \in 1..Window |-> "none"] /\ evaluated = TRUE
  /\ rule = [enabled |-> TRUE, state |-> "no_data", since |-> 0, rearm |-> Unset, quiet |-> Unset]
  /\ events = <<>> /\ evaluation = NoEvaluation /\ missed = 0
  /\ alarms = {} /\ told = "nothing" /\ blind = FALSE

\* A call that fails, when bad.
Miss(bad) == missed' = missed + (IF bad THEN 1 ELSE 0) /\ missed' <= MaxMiss

-----------------------------------------------------------------------------
(* The window.                                                             *)

\* Time passes; a bucket may complete, and the oldest one then leaves the window.  The
\* tick of the minute before may not have happened: the plane was down, or listing failed.
Minute(b) ==
  /\ evaluation = NoEvaluation /\ ticks < MaxTick /\ ticks' = ticks + 1
  /\ evaluated' = FALSE
  /\ buckets' = IF b = "same" THEN buckets
                ELSE [i \in 1..Window |-> IF i = Window THEN b ELSE buckets[i + 1]]
  /\ UNCHANGED <<rule, events, evaluation, missed, alertHistory>>

\* series: the rows of the window; a bucket without a row is simply not among them.
Values == {buckets[i] : i \in 1..Window} \ {"none"}
Known == Values # {} /\ "thin" \notin Values

\* Evaluate: every value above the threshold, or every value below it.
Breached == Known /\ Values \subseteq {"high"}
Clear == Known /\ Values \subseteq {"low"}

-----------------------------------------------------------------------------
(* One evaluation.                                                         *)

Begin == evaluation = NoEvaluation /\ ~evaluated /\ evaluated' = TRUE /\ rule.enabled

\* SetAlertRuleState: when it fails the row stays, and the caller goes on.
SetAlertRuleState(bad, state, since, rearm, quiet) ==
  rule' = IF bad THEN rule
          ELSE [rule EXCEPT !.state = state, !.since = since, !.rearm = rearm, !.quiet = quiet]

\* enterNoData.  A rule that has seen nothing for a long time is news in the inbox, and
\* the time of the news is noted.
NoData(bad) ==
  IF rule.state # "no_data"
  THEN SetAlertRuleState(bad, "no_data", ticks, rule.rearm, Unset)
  ELSE IF /\ ticks >= rule.since + NoDataQuiet
          /\ rule.quiet = Unset \/ ticks >= rule.quiet + NoDataQuiet
       THEN SetAlertRuleState(bad, "no_data", rule.since, rule.rearm, ticks)
       ELSE UNCHANGED rule

\* A window that is neither breached nor clear, or that could not be read.
EnterNoData(bad) ==
  /\ Begin /\ ~Breached /\ ~Clear
  /\ Miss(bad) /\ NoData(bad)
  /\ UNCHANGED <<ticks, buckets, events, evaluation, alertHistory>>

Unreadable ==
  /\ Begin /\ (Breached \/ Clear)
  /\ Miss(TRUE) /\ NoData(FALSE)
  /\ UNCHANGED <<ticks, buckets, events, evaluation, alertHistory>>

CountAlertEpisodesSince(from) == Cardinality({i \in DOMAIN events : events[i].at + FlapWindow >= from})

Flapping_OneMore(counted) == counted >= FlapEpisodes

\* The flap guard, on the episodes before this one.
Flapping(counted) == counted + 1 >= FlapEpisodes

\* fire, for a rule that is not firing yet: the episode is opened first; counting the
\* episodes may fail, which counts none.
OpenEpisode(uncounted) ==
  LET counted == IF uncounted THEN 0 ELSE CountAlertEpisodesSince(ticks)
      held == rule.rearm # Unset /\ ticks < rule.rearm
      deliver == ~Flapping(counted) /\ ~held
  IN /\ Begin /\ Breached /\ rule.state # "firing"
     /\ Miss(uncounted) /\ blind' = (blind \/ uncounted)
     /\ events' = Append(events, [at |-> ticks, open |-> TRUE, delivered |-> deliver])
     /\ evaluation' = [step |-> "opened", was |-> rule.state,
                       flapping |-> Flapping(counted), deliver |-> deliver]
     /\ UNCHANGED <<ticks, buckets, rule, alarms, told>>

\* The episode could not be opened, or the rule is firing already (its peak is updated).
NoEpisode ==
  /\ Begin /\ Breached
  /\ Miss(rule.state # "firing")
  /\ UNCHANGED <<ticks, buckets, rule, events, evaluation, alertHistory>>

RecordFire(bad) ==
  /\ evaluation.step = "opened" /\ evaluation' = [evaluation EXCEPT !.step = "fired"]
  /\ Miss(bad)
  /\ SetAlertRuleState(bad, IF evaluation.flapping THEN "flapping" ELSE "firing", ticks,
                       rule.rearm, rule.quiet)
  /\ UNCHANGED <<ticks, buckets, evaluated, events, alertHistory>>

\* The message, unless the rule is held; on entering flapping the inbox is told instead.
AnnounceFire(bad) ==
  /\ evaluation.step = "fired" /\ evaluation' = NoEvaluation
  /\ Miss(bad)
  /\ IF evaluation.deliver /\ ~bad
     THEN alarms' = alarms \cup {ticks} /\ told' = "firing" /\ UNCHANGED blind
     ELSE UNCHANGED alertHistory
  /\ UNCHANGED <<ticks, buckets, evaluated, rule, events>>

\* GetOpenAlertEvent: the newest one that is not resolved.
OpenEvents == {i \in DOMAIN events : events[i].open}
Newest(S) == CHOOSE i \in S : \A j \in S : j <= i

\* resolve: a rule that is ok stays so, and a flapping one holds its state for a while.
ResolveEpisode(bad) ==
  /\ Begin /\ Clear
  /\ Miss(bad)
  /\ IF rule.state = "ok" \/ (rule.state = "flapping" /\ ticks < rule.since + FlapHold)
     THEN ~bad /\ UNCHANGED <<events, evaluation>>
     ELSE /\ evaluation' = [NoEvaluation EXCEPT !.step = "closed", !.was = rule.state]
          /\ events' = IF bad \/ OpenEvents = {} THEN events
                       ELSE [events EXCEPT ![Newest(OpenEvents)].open = FALSE]
  /\ UNCHANGED <<ticks, buckets, rule, alertHistory>>

RecordResolve(bad) ==
  /\ evaluation.step = "closed" /\ evaluation' = [evaluation EXCEPT !.step = "resolved"]
  /\ Miss(bad) /\ SetAlertRuleState(bad, "ok", ticks, ticks + RearmDelay, Unset)
  /\ UNCHANGED <<ticks, buckets, evaluated, events, alertHistory>>

\* A recovery is announced from firing only.
AnnounceResolve(bad) ==
  /\ evaluation.step = "resolved" /\ evaluation' = NoEvaluation
  /\ Miss(bad)
  /\ told' = IF evaluation.was = "firing" /\ ~bad THEN "resolved" ELSE told
  /\ UNCHANGED <<ticks, buckets, evaluated, rule, events, alarms, blind>>

-----------------------------------------------------------------------------
(* The owner, and the plane.                                               *)

\* SetAlertRuleEnabled leaves the state as it is.
SetAlertRuleEnabled ==
  /\ rule' = [rule EXCEPT !.enabled = ~@]
  /\ UNCHANGED <<ticks, buckets, evaluated, events, evaluation, missed, alertHistory>>

EvaluatorStops ==
  /\ evaluation # NoEvaluation /\ evaluation' = NoEvaluation
  /\ Miss(TRUE)
  /\ UNCHANGED <<ticks, buckets, evaluated, rule, events, alertHistory>>

AlertsNext ==
  \/ \E b \in Bucket \cup {"same"} : Minute(b)
  \/ \E bad \in BOOLEAN : \/ EnterNoData(bad) \/ OpenEpisode(bad) \/ RecordFire(bad)
                          \/ AnnounceFire(bad) \/ ResolveEpisode(bad) \/ RecordResolve(bad)
                          \/ AnnounceResolve(bad)
  \/ Unreadable \/ NoEpisode \/ SetAlertRuleEnabled \/ EvaluatorStops

AlertsSpec == AlertsInit /\ [][AlertsNext]_alertVars

-----------------------------------------------------------------------------
(* What the rule's owner may rely on.                                      *)

\* However the value moves, the readings come and go and the evaluations are cut short,
\* fewer than FlapEpisodes alarms are sent in any FlapWindow: an episode is on record before
\* its alarm goes out (alerts.go, fire).  A failure to count them counts none.
FlapGuardHolds ==
  blind \/ \A t \in alarms : Cardinality({u \in alarms : t <= u /\ u <= t + FlapWindow}) < FlapEpisodes

\* A rule that is ok again has said so: after an alarm, the window that is below the
\* threshold sends exactly one alert.resolved (docs/features/threshold-alerts.md, §13.7).
RecoveryIsTold == ~(rule.state = "ok" /\ evaluation = NoEvaluation /\ told = "firing")

\* A step that neither misses a call nor takes a firing rule for one without data: what
\* RecoveryIsTold needs.
Unbroken == missed' = missed /\ ~(rule.state = "firing" /\ rule'.state = "no_data")

\* Behind it, while every step is Unbroken: an alarm that nothing was said of since is the
\* alarm of the episode the rule is in, or of the one its evaluation is closing.
AlarmIsOfEpisode ==
  /\ told = "firing" => IF evaluation.step \in {"closed", "resolved"} THEN evaluation.was = "firing"
                        ELSE rule.state = "firing"
  /\ evaluation.step \in {"opened", "fired"} => told # "firing" /\ ~(evaluation.deliver /\ evaluation.flapping)
  /\ evaluation.step = "fired" /\ evaluation.deliver => rule.state = "firing"

-----------------------------------------------------------------------------
(* The inductive invariant behind FlapGuardHolds.                          *)

EvaluationOK ==
  /\ evaluation \in [step : {"none", "opened", "fired", "closed", "resolved"},
                     was : {"ok", "firing", "no_data", "flapping"},
                     flapping : BOOLEAN, deliver : BOOLEAN]
  /\ missed \in Nat

\* Episodes are on record in the order of time, the one that is being announced last.
EpisodesInOrder ==
  /\ \A i \in DOMAIN events : events[i].at <= ticks
  /\ \A i, j \in DOMAIN events : i <= j => events[i].at <= events[j].at
  /\ evaluation.step \in {"opened", "fired"} =>
       /\ events # <<>> /\ events[Len(events)].at = ticks
       /\ events[Len(events)].delivered = evaluation.deliver

\* The episodes before episode i that its evaluation counted.
Before(i) == {j \in 1..(i - 1) : events[j].at + FlapWindow >= events[i].at}

\* An episode is announced only when few were counted before it, and an alarm has its episode.
DeliveredIsCounted == blind \/ \A i \in DOMAIN events : events[i].delivered => ~Flapping(Cardinality(Before(i)))
AlarmsOnRecord == \A t \in alarms : \E i \in DOMAIN events : events[i].at = t /\ events[i].delivered

AlertInv ==
  AlertsTypeOK /\ EvaluationOK /\ EpisodesInOrder /\ DeliveredIsCounted /\ AlarmsOnRecord
=============================================================================

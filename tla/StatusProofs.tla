---------------------------- MODULE StatusProofs ----------------------------
(***************************************************************************)
(* What the plane says about the things it watches: proofs about the       *)
(* public status page (StatusPage) and threshold alerts (Alerts), for      *)
(* every stale limit, dwell, window and bound. And what goes by a clock on *)
(* a host: the agent's scheduled tasks (CronRunner), for every set of      *)
(* tasks and schedules.                                                    *)
(***************************************************************************)
EXTENDS StatusPage, Alerts, CronRunner, FiniteSetTheorems, WellFoundedInduction, TLAPS

-----------------------------------------------------------------------------
(* The status page.                                                        *)

\* What an observation can be.
LEMMA ObservedState ==
  ASSUME PageTypeOK, NEW failing
  PROVE  Observed(failing) \in Public \cup {"none"}
  BY DEF PageTypeOK, Observed, PublicStateFor, Public

\* What closing and opening an interval write.
LEMMA WrittenIntervals ==
  ASSUME PageAssumption, PageTypeOK
  PROVE  /\ \A i \in intervals, t \in 1..MaxTime :
              /\ Closed(i, t) \in [state : Public, from : 1..MaxTime, to : 1..StillOpen]
              /\ Closed(i, t).state = i.state /\ Closed(i, t).from = i.from /\ Closed(i, t).to = t
         /\ \A st \in Public, t \in 1..MaxTime :
              /\ Opened(st, t) \in [state : Public, from : 1..MaxTime, to : 1..StillOpen]
              /\ Opened(st, t).state = st /\ Opened(st, t).from = t /\ Opened(st, t).to = StillOpen
<1>1. ASSUME NEW i \in intervals, NEW t \in 1..MaxTime
      PROVE  /\ Closed(i, t) \in [state : Public, from : 1..MaxTime, to : 1..StillOpen]
             /\ Closed(i, t).state = i.state /\ Closed(i, t).from = i.from /\ Closed(i, t).to = t
  <2>1. i \in [state : Public, from : 1..MaxTime, to : 1..StillOpen] /\ t \in 1..StillOpen
    BY DEF PageTypeOK, StillOpen, PageAssumption
  <2> QED
    BY <2>1 DEF Closed
<1>2. ASSUME NEW st \in Public, NEW t \in 1..MaxTime
      PROVE  /\ Opened(st, t) \in [state : Public, from : 1..MaxTime, to : 1..StillOpen]
             /\ Opened(st, t).state = st /\ Opened(st, t).from = t /\ Opened(st, t).to = StillOpen
  <2>1. StillOpen \in 1..StillOpen
    BY DEF StillOpen, PageAssumption
  <2> QED
    BY <2>1 DEF Opened
<1> QED
  BY <1>1, <1>2

\* An evaluation, by cases: what it writes to the page, and the change it leaves pending.
\* Without an observation, nothing changes.
LEMMA EvaluateBlind ==
  ASSUME NEW failing, ~Sees(failing)
  PROVE  evaluate(failing).intervals = intervals /\ evaluate(failing).pending = dwelling
  BY DEF evaluate

\* What the page says already, a deploy, or an open interval that cannot be read leaves nothing.
LEMMA EvaluateQuiet ==
  ASSUME NEW failing, Sees(failing), NEW k, k = CHOOSE j \in OpenInterval : TRUE,
         \/ Observed(failing) = "none"
         \/ OpenInterval # {} /\ ("read" \in failing \/ k.state = Observed(failing))
  PROVE  evaluate(failing).intervals = intervals /\ evaluate(failing).pending = NoDwell
  BY DEF evaluate, Forgotten

\* The first observation of a component opens its interval.
LEMMA EvaluateFirst ==
  ASSUME NEW failing, Sees(failing), Observed(failing) # "none", OpenInterval = {}
  PROVE  /\ evaluate(failing).intervals = IF "open" \in failing THEN intervals
                                          ELSE intervals \cup {Opened(Observed(failing), now)}
         /\ evaluate(failing).pending = NoDwell
  BY DEF evaluate, Forgotten

\* An observation that differs from the page is pending at first.
LEMMA EvaluateBegins ==
  ASSUME NEW failing, Sees(failing), Observed(failing) # "none", OpenInterval # {},
         "read" \notin failing, NEW k, k = CHOOSE j \in OpenInterval : TRUE,
         k.state # Observed(failing), dwelling.state # Observed(failing)
  PROVE  /\ evaluate(failing).intervals = intervals
         /\ evaluate(failing).pending = [state |-> Observed(failing), since |-> now]
  BY DEF evaluate

\* It stays pending during the dwell, and when the open interval cannot be closed.
LEMMA EvaluateWaits ==
  ASSUME NEW failing, Sees(failing), Observed(failing) # "none", OpenInterval # {},
         "read" \notin failing, NEW k, k = CHOOSE j \in OpenInterval : TRUE,
         k.state # Observed(failing), dwelling.state = Observed(failing),
         now - dwelling.since < Dwell \/ "close" \in failing
  PROVE  evaluate(failing).intervals = intervals /\ evaluate(failing).pending = dwelling
  BY DEF evaluate

\* After the dwell the open interval is closed and, unless that fails, the next one opened.
LEMMA EvaluateChanges ==
  ASSUME NEW failing, Sees(failing), Observed(failing) # "none", OpenInterval # {},
         "read" \notin failing, NEW k, k = CHOOSE j \in OpenInterval : TRUE,
         k.state # Observed(failing), dwelling.state = Observed(failing),
         ~(now - dwelling.since < Dwell \/ "close" \in failing)
  PROVE  /\ \/ evaluate(failing).intervals = (intervals \ {k}) \cup {Closed(k, now)}
            \/ evaluate(failing).intervals =
                 (intervals \ {k}) \cup {Closed(k, now), Opened(Observed(failing), now)}
         /\ evaluate(failing).pending = dwelling
<1>1. evaluate(failing) =
        [intervals |-> (intervals \ {k}) \cup {Closed(k, now)}
                         \cup (IF "open" \in failing THEN {} ELSE {Opened(Observed(failing), now)}),
         pending |-> dwelling]
  BY DEF evaluate, StatusChange
<1>2. PICK written : written = (intervals \ {k}) \cup {Closed(k, now)}
                                 \cup (IF "open" \in failing THEN {} ELSE {Opened(Observed(failing), now)})
  OBVIOUS
<1>3. evaluate(failing).intervals = written /\ evaluate(failing).pending = dwelling
  BY <1>1, <1>2
<1>4. "open" \in failing => written = (intervals \ {k}) \cup {Closed(k, now)}
  BY <1>2
<1>5. "open" \notin failing =>
        written = (intervals \ {k}) \cup {Closed(k, now), Opened(Observed(failing), now)}
  BY <1>2
<1> QED
  BY <1>3, <1>4, <1>5

\* All of it: the page and the pending change after an evaluation, whichever calls failed.
LEMMA EvaluatedPage ==
  ASSUME NEW failing
  PROVE  \/ /\ ~Sees(failing)
            /\ evaluate(failing).pending = dwelling /\ evaluate(failing).intervals = intervals
         \/ /\ Sees(failing)
            /\ \/ Observed(failing) = "none" \/ "read" \in failing
               \/ \E k \in OpenInterval : k.state = Observed(failing)
            /\ evaluate(failing).pending = NoDwell /\ evaluate(failing).intervals = intervals
         \/ /\ Sees(failing) /\ Observed(failing) # "none" /\ OpenInterval = {}
            /\ evaluate(failing).pending = NoDwell
            /\ \/ evaluate(failing).intervals = intervals
               \/ evaluate(failing).intervals = intervals \cup {Opened(Observed(failing), now)}
         \/ /\ Sees(failing) /\ Observed(failing) # "none" /\ dwelling.state # Observed(failing)
            /\ evaluate(failing).pending = [state |-> Observed(failing), since |-> now]
            /\ evaluate(failing).intervals = intervals
         \/ /\ Sees(failing) /\ Observed(failing) # "none" /\ dwelling.state = Observed(failing)
            /\ now - dwelling.since < Dwell \/ "close" \in failing
            /\ evaluate(failing).pending = dwelling /\ evaluate(failing).intervals = intervals
         \/ /\ Sees(failing) /\ Observed(failing) # "none" /\ dwelling.state = Observed(failing)
            /\ ~(now - dwelling.since < Dwell) /\ evaluate(failing).pending = dwelling
            /\ \E k \in OpenInterval :
                 \/ evaluate(failing).intervals = (intervals \ {k}) \cup {Closed(k, now)}
                 \/ evaluate(failing).intervals =
                      (intervals \ {k}) \cup {Closed(k, now), Opened(Observed(failing), now)}
<1>1. PICK k : k = CHOOSE j \in OpenInterval : TRUE
  OBVIOUS
<1>2. OpenInterval # {} => k \in OpenInterval
  BY <1>1, Zenon
<1>3. CASE ~Sees(failing)
  BY <1>3, EvaluateBlind
<1>4. CASE Sees(failing) /\ (\/ Observed(failing) = "none"
                             \/ OpenInterval # {} /\ ("read" \in failing \/ k.state = Observed(failing)))
  BY <1>1, <1>2, <1>4, EvaluateQuiet
<1>5. CASE Sees(failing) /\ Observed(failing) # "none" /\ OpenInterval = {}
  <2>1. /\ evaluate(failing).intervals = IF "open" \in failing THEN intervals
                                         ELSE intervals \cup {Opened(Observed(failing), now)}
        /\ evaluate(failing).pending = NoDwell
    BY <1>5, EvaluateFirst
  <2> QED
    BY <1>5, <2>1
<1>6. CASE Sees(failing) /\ Observed(failing) # "none" /\ OpenInterval # {} /\ "read" \notin failing
           /\ k.state # Observed(failing)
  <2>1. CASE dwelling.state # Observed(failing)
    BY <1>1, <1>6, <2>1, EvaluateBegins
  <2>2. CASE dwelling.state = Observed(failing) /\ (now - dwelling.since < Dwell \/ "close" \in failing)
    BY <1>1, <1>6, <2>2, EvaluateWaits
  <2>3. CASE dwelling.state = Observed(failing) /\ ~(now - dwelling.since < Dwell \/ "close" \in failing)
    BY <1>1, <1>2, <1>6, <2>3, EvaluateChanges
  <2> QED
    BY <2>1, <2>2, <2>3
<1> QED
  BY <1>3, <1>4, <1>5, <1>6

\* The intervals an evaluation leaves: well formed, none ahead of the clock, one open, and
\* none over a recorded absence of the plane.
LEMMA EvaluatedIntervals ==
  ASSUME PageInv, NEW failing, NEW w, w = evaluate(failing).intervals
  PROVE  /\ w \subseteq [state : Public, from : 1..MaxTime, to : 1..StillOpen]
         /\ \A i \in w : i.from <= now /\ (i.to = StillOpen \/ i.to <= now)
         /\ \A i, j \in w : i.to = StillOpen /\ j.to = StillOpen => i = j
         /\ \A o \in outages, i \in w :
              i.state # "unknown" => i.to <= o.from \/ i.from >= o.to \/ i.to <= i.from
<1> USE PageAssumption
<1>1. now \in 1..MaxTime /\ StillOpen = MaxTime + 1 /\ PageTypeOK
      /\ intervals \subseteq [state : Public, from : 1..MaxTime, to : 1..StillOpen]
  BY DEF PageInv, PageTypeOK, StillOpen
<1>2. \A i \in intervals : i.from <= now /\ (i.to = StillOpen \/ i.to <= now)
  BY DEF PageInv, NothingAhead
<1>3. \A i, j \in intervals : i.to = StillOpen /\ j.to = StillOpen => i = j
  BY DEF PageInv, OneOpen, OpenInterval
<1>4. \A o \in outages, i \in intervals :
        i.state # "unknown" => i.to <= o.from \/ i.from >= o.to \/ i.to <= i.from
  BY DEF PageInv, OutageIsGrey
<1>5. \A o \in outages : o.from \in 1..MaxTime /\ o.to \in 1..MaxTime /\ o.to <= now
  BY DEF PageInv, HistoryOK, NothingAhead
<1>6. /\ \A i \in intervals :
           /\ Closed(i, now) \in [state : Public, from : 1..MaxTime, to : 1..StillOpen]
           /\ Closed(i, now).state = i.state /\ Closed(i, now).from = i.from /\ Closed(i, now).to = now
      /\ \A st \in Public :
           /\ Opened(st, now) \in [state : Public, from : 1..MaxTime, to : 1..StillOpen]
           /\ Opened(st, now).state = st /\ Opened(st, now).from = now /\ Opened(st, now).to = StillOpen
  BY <1>1, WrittenIntervals
<1>7. ASSUME NEW k \in OpenInterval, NEW o \in outages, k.state # "unknown"
      PROVE  k.from >= o.to
  <2>1. k \in intervals /\ k.to = StillOpen /\ k.from \in 1..MaxTime
    BY <1>1 DEF OpenInterval
  <2> QED
    BY <1>1, <1>4, <1>5, <1>7, <2>1
<1>8. CASE w = intervals
  BY <1>1, <1>2, <1>3, <1>4, <1>8
<1>9. CASE /\ OpenInterval = {} /\ Observed(failing) \in Public
           /\ w = intervals \cup {Opened(Observed(failing), now)}
  <2>1. PICK x : x = Opened(Observed(failing), now)
    OBVIOUS
  <2>2. /\ x \in [state : Public, from : 1..MaxTime, to : 1..StillOpen]
        /\ x.from = now /\ x.to = StillOpen /\ w = intervals \cup {x}
    BY <1>6, <1>9, <2>1
  <2>3. \A i \in intervals : i.to # StillOpen
    BY <1>9 DEF OpenInterval
  <2>4. \A o \in outages : x.from >= o.to
    BY <1>1, <1>5, <2>2
  <2> QED
    BY <1>1, <1>2, <1>4, <2>2, <2>3, <2>4
<1>10. ASSUME NEW k \in OpenInterval,
              \/ w = (intervals \ {k}) \cup {Closed(k, now)}
              \/ /\ Observed(failing) \in Public
                 /\ w = (intervals \ {k}) \cup {Closed(k, now), Opened(Observed(failing), now)}
       PROVE  /\ w \subseteq [state : Public, from : 1..MaxTime, to : 1..StillOpen]
              /\ \A i \in w : i.from <= now /\ (i.to = StillOpen \/ i.to <= now)
              /\ \A i, j \in w : i.to = StillOpen /\ j.to = StillOpen => i = j
              /\ \A o \in outages, i \in w :
                   i.state # "unknown" => i.to <= o.from \/ i.from >= o.to \/ i.to <= i.from
  <2>1. PICK x, y : x = Opened(Observed(failing), now) /\ y = Closed(k, now)
    OBVIOUS
  <2>2. k \in intervals /\ k.to = StillOpen
    BY DEF OpenInterval
  <2>3. /\ y \in [state : Public, from : 1..MaxTime, to : 1..StillOpen]
        /\ y.state = k.state /\ y.from = k.from /\ y.to = now
    BY <1>6, <2>1, <2>2
  <2>4. Observed(failing) \in Public =>
          /\ x \in [state : Public, from : 1..MaxTime, to : 1..StillOpen]
          /\ x.from = now /\ x.to = StillOpen
    BY <1>6, <2>1
  <2>5. \A i \in intervals : i # k => i.to # StillOpen
    BY <1>3, <2>2
  <2>6. \A o \in outages : /\ k.state # "unknown" => k.from >= o.to
                           /\ now >= o.to
    BY <1>1, <1>5, <1>7
  <2>7. w = (intervals \ {k}) \cup {y} \/ (Observed(failing) \in Public /\ w = (intervals \ {k}) \cup {y, x})
    BY <1>10, <2>1
  <2>8. now # StillOpen
    BY <1>1
  <2> QED
    BY <1>1, <1>2, <1>4, <2>2, <2>3, <2>4, <2>5, <2>6, <2>7, <2>8
<1> QED
  <2>1. Observed(failing) \in Public \cup {"none"}
    BY <1>1, ObservedState
  <2>2. \/ w = intervals
        \/ /\ OpenInterval = {} /\ Observed(failing) \in Public
           /\ w = intervals \cup {Opened(Observed(failing), now)}
        \/ \E k \in OpenInterval :
             \/ w = (intervals \ {k}) \cup {Closed(k, now)}
             \/ /\ Observed(failing) \in Public
                /\ w = (intervals \ {k}) \cup {Closed(k, now), Opened(Observed(failing), now)}
    BY <2>1, EvaluatedPage
  <2> QED
    BY <1>8, <1>9, <1>10, <2>2

\* What the evaluations since the boot observed last.
LEMMA StreakGrows ==
  ASSUME PageInv, NEW failing, Observes(failing)
  PROVE  /\ streak' \in [state : Public \cup {"none"}, since : 0..MaxTime] /\ streak'.since <= now
         /\ ~Sees(failing) => streak' = streak
         /\ Sees(failing) => streak'.state = Observed(failing)
         /\ Sees(failing) /\ streak.state = Observed(failing) => streak' = streak
<1> USE PageAssumption
<1>1. /\ Observed(failing) \in Public \cup {"none"} /\ now \in 1..MaxTime
      /\ streak \in [state : Public \cup {"none"}, since : 0..MaxTime] /\ streak.since <= now
  BY ObservedState DEF PageInv, HistoryOK, PageTypeOK, NothingAhead
<1>2. PICK news : news = [state |-> Observed(failing), since |-> now]
  OBVIOUS
<1>3. news \in [state : Public \cup {"none"}, since : 0..MaxTime] /\ news.since = now
      /\ news.state = Observed(failing)
  BY <1>1, <1>2
<1>4. streak' = IF Sees(failing) /\ streak.state # Observed(failing) THEN news ELSE streak
  BY <1>2 DEF Observes
<1> QED
  BY <1>1, <1>3, <1>4

\* A tick keeps the page's invariant.
LEMMA TickHolds ==
  ASSUME PageInv, NEW failing \in SUBSET Calls, Tick(failing)
  PROVE  PageInv'
<1> USE PageAssumption
<1>u. /\ UNCHANGED <<now, plane, hostAlive, server, app, bootedAt, stoppedAt, diedAt, outages>>
      /\ plane = "up" /\ "tick" \in due /\ due' = due \ {"tick"} /\ lastEval' \in {lastEval, now}
      /\ Observes(failing)
      /\ intervals' = evaluate(failing).intervals /\ dwelling' = evaluate(failing).pending
      /\ failing = {} => failedAt' = failedAt
      /\ failing # {} => failedAt' = now
  BY DEF Tick
<1>t. /\ PageTypeOK /\ HistoryOK /\ NothingAhead /\ now \in 1..MaxTime /\ StillOpen = MaxTime + 1
      /\ dwelling.state \in Public \cup {"none"} /\ dwelling.since \in 0..MaxTime /\ dwelling.since <= now
      /\ failedAt \in 0..MaxTime /\ failedAt <= now
  BY DEF PageInv, PageTypeOK, HistoryOK, NothingAhead, StillOpen
<1>f. failedAt' \in {failedAt, now}
  BY <1>u
<1>o. Observed(failing) \in Public \cup {"none"}
  BY <1>t, ObservedState
<1>i. /\ intervals' \subseteq [state : Public, from : 1..MaxTime, to : 1..StillOpen]
      /\ \A i \in intervals' : i.from <= now /\ (i.to = StillOpen \/ i.to <= now)
      /\ \A i, j \in intervals' : i.to = StillOpen /\ j.to = StillOpen => i = j
      /\ \A o \in outages, i \in intervals' :
           i.state # "unknown" => i.to <= o.from \/ i.from >= o.to \/ i.to <= i.from
  BY <1>u, EvaluatedIntervals
<1>s. /\ streak' \in [state : Public \cup {"none"}, since : 0..MaxTime] /\ streak'.since <= now
      /\ ~Sees(failing) => streak' = streak
      /\ Sees(failing) => streak'.state = Observed(failing)
      /\ Sees(failing) /\ streak.state = Observed(failing) => streak' = streak
  BY <1>u, StreakGrows
<1>l. LastTick = now - 1 /\ LastTick' = now
  BY <1>u DEF LastTick
<1>c. \/ dwelling' = NoDwell
      \/ Sees(failing) /\ dwelling' = [state |-> Observed(failing), since |-> now]
      \/ dwelling' = dwelling /\ (Sees(failing) => dwelling.state = Observed(failing))
  BY <1>u, EvaluatedPage
<1>1. dwelling' \in [state : Public \cup {"none"}, since : 0..MaxTime]
  <2>1. NoDwell \in [state : Public \cup {"none"}, since : 0..MaxTime]
    BY DEF NoDwell
  <2>2. [state |-> Observed(failing), since |-> now] \in [state : Public \cup {"none"}, since : 0..MaxTime]
    BY <1>t, <1>o
  <2>3. dwelling \in [state : Public \cup {"none"}, since : 0..MaxTime]
    BY <1>t DEF PageTypeOK
  <2> QED
    BY <1>c, <2>1, <2>2, <2>3
<1>d. dwelling'.since <= now
  BY <1>c, <1>t DEF NoDwell
<1>2. PageTypeOK'
  <2>1. now' \in 1..MaxTime /\ server' \in [status : {"running", "unknown"}, seen : 0..MaxTime]
        /\ app' \in {"new", "running", "stopped", "deploying"} /\ due' \subseteq {"tick", "sweep"}
        /\ lastEval' \in 0..MaxTime /\ plane' \in {"up", "down"}
    BY <1>u, <1>t DEF PageTypeOK
  <2>2. hostAlive' \in BOOLEAN
    BY <1>u, <1>t, Zenon DEF PageTypeOK
  <2> QED
    BY <1>1, <1>i, <2>1, <2>2 DEF PageTypeOK
<1>3. HistoryOK'
  BY <1>u, <1>f, <1>t, <1>s DEF HistoryOK
<1>4. NothingAhead'
  <2>1. hostAlive' \/ diedAt' <= now'
    BY <1>u, <1>t DEF NothingAhead
  <2> QED
    BY <1>u, <1>f, <1>t, <1>i, <1>d, <1>s, <2>1 DEF NothingAhead
<1>5. EndsAtStop' /\ OneOpen' /\ OutageIsGrey'
  BY <1>u, <1>i DEF EndsAtStop, OneOpen, OpenInterval, OutageIsGrey
<1>6. DwellIsObserved'
  <2>1. CASE dwelling' = NoDwell
    BY <2>1 DEF DwellIsObserved, NoDwell
  <2>2. CASE Sees(failing) /\ dwelling' = [state |-> Observed(failing), since |-> now]
    BY <1>s, <2>2 DEF DwellIsObserved
  <2>3. CASE dwelling' = dwelling /\ (Sees(failing) => dwelling.state = Observed(failing))
    <3>1. dwelling.state # "none" =>
            streak.state = dwelling.state /\ streak.since <= dwelling.since /\ streak' = streak
      BY <1>s, <2>3 DEF PageInv, DwellIsObserved
    <3> QED
      BY <2>3, <3>1 DEF DwellIsObserved
  <2> QED
    BY <1>c, <2>1, <2>2, <2>3
<1>7. SilenceIsNoticed'
  <2> SUFFICES ASSUME ~hostAlive
               PROVE  SilenceIsNoticed'
    BY <1>u DEF SilenceIsNoticed
  <2>f. CASE failing # {}
    <3>1. SilentSince' = now
      BY <1>u, <1>t, <2>f DEF SilentSince, HistoryOK, NothingAhead
    <3>2. server'.seen <= now
      BY <1>u, <1>t DEF NothingAhead
    <3> QED
      BY <1>u, <1>l, <1>t, <3>1, <3>2 DEF SilenceIsNoticed
  <2> SUFFICES ASSUME failing = {}
               PROVE  SilenceIsNoticed'
    BY <2>f
  <2>1. /\ SilentSince' = SilentSince /\ SilentSince \in Nat
        /\ SilentSince + HeartbeatStale \in Nat
    BY <1>u, <1>t DEF SilentSince, HistoryOK, StillOpen
  <2>c. \/ (Observed(failing) = "none" \/ \E k \in OpenInterval : k.state = Observed(failing))
           /\ intervals' = intervals
        \/ /\ OpenInterval = {}
           /\ intervals' = intervals \/ intervals' = intervals \cup {Opened(Observed(failing), now)}
        \/ /\ dwelling.state # Observed(failing) /\ intervals' = intervals
           /\ dwelling' = [state |-> Observed(failing), since |-> now]
        \/ /\ dwelling.state = Observed(failing) /\ now - dwelling.since < Dwell
           /\ dwelling' = dwelling /\ intervals' = intervals
        \/ \E k \in OpenInterval :
             \/ intervals' = (intervals \ {k}) \cup {Closed(k, now)}
             \/ intervals' = (intervals \ {k}) \cup {Closed(k, now), Opened(Observed(failing), now)}
    BY <1>u, EvaluatedPage DEF Sees
  <2>2. /\ server.seen <= SilentSince
        /\ now > SilentSince + HeartbeatStale + (IF "sweep" \in due THEN 1 ELSE 0) =>
             server.status = "unknown"
        /\ now - 1 > SilentSince + HeartbeatStale + 1 =>
             \A i \in OpenInterval : i.state # "unknown" =>
               /\ dwelling.state = "unknown" /\ dwelling.since <= SilentSince + HeartbeatStale + 2
               /\ now - 1 < dwelling.since + Dwell
    BY <1>u, <1>l DEF PageInv, SilenceIsNoticed
  <2>3. ASSUME now > SilentSince + HeartbeatStale + 1, NEW i \in OpenInterval', i.state # "unknown"
        PROVE  /\ dwelling'.state = "unknown" /\ dwelling'.since <= SilentSince + HeartbeatStale + 2
               /\ now < dwelling'.since + Dwell
    <3>1. Observed(failing) = "unknown"
      <4>1. server.status = "unknown"
        BY <1>t, <2>1, <2>2, <2>3
      <4> QED
        BY <4>1 DEF Observed, PublicStateFor
    <3>2. OneOpen
      BY DEF PageInv
    <3>3. i \in intervals' /\ i.to = StillOpen
      BY <2>3 DEF OpenInterval, StillOpen
    <3>4. \A k \in OpenInterval : Closed(k, now).to = now
      BY <1>t, WrittenIntervals DEF OpenInterval
    <3>5. Opened("unknown", now).state = "unknown"
      BY DEF Opened
    <3>6. CASE (\E k \in OpenInterval : k.state = Observed(failing)) /\ intervals' = intervals
      BY <3>1, <3>2, <3>3, <3>6, <2>3 DEF OneOpen, OpenInterval
    <3>7. CASE OpenInterval = {} /\ (intervals' = intervals
                                      \/ intervals' = intervals \cup {Opened(Observed(failing), now)})
      BY <3>1, <3>3, <3>5, <3>7, <2>3 DEF OpenInterval
    <3>8. CASE /\ dwelling.state # Observed(failing) /\ intervals' = intervals
               /\ dwelling' = [state |-> Observed(failing), since |-> now]
      <4>1. i \in OpenInterval
        BY <3>3, <3>8 DEF OpenInterval
      <4>2. ~(now - 1 > SilentSince + HeartbeatStale + 1)
        BY <2>2, <2>3, <3>1, <3>8, <4>1
      <4> QED
        BY <1>t, <2>1, <3>1, <3>8, <4>2
    <3>9. CASE /\ dwelling.state = Observed(failing) /\ now - dwelling.since < Dwell
               /\ dwelling' = dwelling /\ intervals' = intervals
      <4>1. i \in OpenInterval
        BY <3>3, <3>9 DEF OpenInterval
      <4>3. dwelling.since <= SilentSince + HeartbeatStale + 2
        <5>1. CASE now - 1 > SilentSince + HeartbeatStale + 1
          BY <2>2, <2>3, <4>1, <5>1
        <5>2. CASE ~(now - 1 > SilentSince + HeartbeatStale + 1)
          BY <1>t, <2>1, <2>3, <5>2
        <5> QED
          BY <5>1, <5>2
      <4> QED
        BY <1>t, <2>1, <3>1, <3>9, <4>3
    <3>10. ASSUME NEW k \in OpenInterval,
                  \/ intervals' = (intervals \ {k}) \cup {Closed(k, now)}
                  \/ intervals' = (intervals \ {k}) \cup {Closed(k, now), Opened(Observed(failing), now)}
           PROVE  FALSE
      <4>1. i # Closed(k, now)
        BY <1>t, <3>3, <3>4
      <4>2. i # Opened(Observed(failing), now)
        BY <2>3, <3>1, <3>5
      <4>3. i \in intervals /\ i # k
        BY <3>3, <3>10, <4>1, <4>2
      <4> QED
        BY <3>2, <3>3, <4>3 DEF OneOpen, OpenInterval
    <3> QED
      BY <3>1, <3>6, <3>7, <3>8, <3>9, <3>10, <2>c
  <2>4. now > SilentSince + HeartbeatStale + (IF "sweep" \in due' THEN 1 ELSE 0) =>
          server'.status = "unknown"
    BY <1>u, <2>2
  <2> QED
    BY <1>u, <1>l, <2>1, <2>2, <2>3, <2>4 DEF SilenceIsNoticed
<1> QED
  BY <1>2, <1>3, <1>4, <1>5, <1>6, <1>7 DEF PageInv

\* What CloseGap leaves, whichever of its calls failed: well formed, none ahead of the clock, one
\* open, none over an absence recorded before, and nothing that was observed after the stop
\* unless it was left open.
LEMMA GapIntervals ==
  ASSUME PageInv, plane = "down", GapIsWide, NEW failing, NEW w, w = ClosedGap(failing)
  PROVE  /\ w \subseteq [state : Public, from : 1..MaxTime, to : 1..StillOpen]
         /\ \A i \in w : i.from <= now /\ (i.to = StillOpen \/ i.to <= now)
         /\ \A i, j \in w : i.to = StillOpen /\ j.to = StillOpen => i = j
         /\ \A o \in outages, i \in w :
              i.state # "unknown" => i.to <= o.from \/ i.from >= o.to \/ i.to <= i.from
         /\ \A i \in w : i.state # "unknown" =>
              (i \in OpenInterval /\ i.to = StillOpen) \/ i.to <= stoppedAt
<1> USE PageAssumption
<1>t. PageTypeOK /\ now \in 1..MaxTime /\ StillOpen = MaxTime + 1 /\ stoppedAt \in 1..now
      /\ lastEval <= stoppedAt
  BY DEF PageInv, PageTypeOK, StillOpen, EndsAtStop
<1>0. /\ intervals \subseteq [state : Public, from : 1..MaxTime, to : 1..StillOpen]
      /\ \A i \in intervals : i.from <= now /\ (i.to = StillOpen \/ i.to <= now)
      /\ \A i, j \in intervals : i.to = StillOpen /\ j.to = StillOpen => i = j
      /\ outages \subseteq [from : 1..MaxTime, to : 1..MaxTime] /\ \A o \in outages : o.to <= now
      /\ \A o \in outages, i \in intervals :
           i.state # "unknown" => i.to <= o.from \/ i.from >= o.to \/ i.to <= i.from
      /\ \A i \in intervals : i.state # "unknown" => i.to = StillOpen \/ i.to <= stoppedAt
  BY DEF PageInv, PageTypeOK, HistoryOK, NothingAhead, OneOpen, OpenInterval, OutageIsGrey, EndsAtStop
<1>1. CASE w = intervals
  BY <1>0, <1>1 DEF OpenInterval
<1>2. ASSUME w # intervals
      PROVE  /\ w \subseteq [state : Public, from : 1..MaxTime, to : 1..StillOpen]
             /\ \A i \in w : i.from <= now /\ (i.to = StillOpen \/ i.to <= now)
             /\ \A i, j \in w : i.to = StillOpen /\ j.to = StillOpen => i = j
             /\ \A o \in outages, i \in w :
                  i.state # "unknown" => i.to <= o.from \/ i.from >= o.to \/ i.to <= i.from
             /\ \A i \in w : i.state # "unknown" =>
                  (i \in OpenInterval /\ i.to = StillOpen) \/ i.to <= stoppedAt
  <2>1. lastEval \in 1..MaxTime /\ lastEval <= now /\ lastEval # StillOpen
    BY <1>t DEF GapIsWide, Never, PageTypeOK
  <2>2. PICK grey, shut : grey = Opened("unknown", lastEval) /\ shut = Closed(grey, now)
    OBVIOUS
  <2>3. /\ grey \in [state : Public, from : 1..MaxTime, to : 1..StillOpen]
        /\ grey.state = "unknown" /\ grey.from = lastEval /\ grey.to = StillOpen
    <3>1. "unknown" \in Public
      BY DEF Public
    <3> QED
      BY <2>1, <2>2, <3>1, <1>t, WrittenIntervals
  <2>4. /\ shut \in [state : Public, from : 1..MaxTime, to : 1..StillOpen]
        /\ shut.state = "unknown" /\ shut.from = lastEval /\ shut.to = now
    BY <2>2, <2>3, <1>t DEF Closed
  <2>5. /\ \A i \in intervals :
             /\ Closed(i, lastEval) \in [state : Public, from : 1..MaxTime, to : 1..StillOpen]
             /\ Closed(i, lastEval).state = i.state /\ Closed(i, lastEval).from = i.from
             /\ Closed(i, lastEval).to = lastEval
    BY <2>1, <1>t, WrittenIntervals
  <2>6. ASSUME NEW j \in w
        PROVE  \/ j = grey
               \/ j = shut
               \/ j \in intervals /\ j.to # StillOpen
               \/ \E i \in intervals : i.to = StillOpen /\ j = Closed(i, lastEval)
    BY <1>2, <2>2, <2>6 DEF ClosedGap
  <2>7. ASSUME NEW j \in w
        PROVE  /\ j \in [state : Public, from : 1..MaxTime, to : 1..StillOpen]
               /\ j.from <= now /\ (j.to = StillOpen \/ j.to <= now)
               /\ j.to = StillOpen => j = grey
               /\ j.state # "unknown" => j.to <= stoppedAt
    <3>1. CASE j = grey \/ j = shut
      BY <2>1, <2>3, <2>4, <3>1, <1>t
    <3>2. CASE j \in intervals /\ j.to # StillOpen
      BY <1>0, <3>2
    <3>3. ASSUME NEW i \in intervals, i.to = StillOpen, j = Closed(i, lastEval)
          PROVE  /\ j \in [state : Public, from : 1..MaxTime, to : 1..StillOpen]
                 /\ j.from <= now /\ j.to <= now /\ j.to # StillOpen
                 /\ j.state # "unknown" => j.to <= stoppedAt
      BY <1>0, <1>t, <2>1, <2>5, <3>3
    <3> QED
      BY <2>6, <3>1, <3>2, <3>3
  <2>8. ASSUME NEW o \in outages, NEW j \in w, j.state # "unknown"
        PROVE  j.to <= o.from \/ j.from >= o.to \/ j.to <= j.from
    <3>0. o.from \in 1..MaxTime /\ o.to \in 1..MaxTime
      BY <1>0
    <3>1. CASE j \in intervals
      BY <1>0, <2>8, <3>1
    <3>2. ASSUME NEW i \in intervals, i.to = StillOpen, j = Closed(i, lastEval)
          PROVE  j.from >= o.to
      <4>1. i.state # "unknown" /\ j.from = i.from /\ i.from \in 1..MaxTime
        BY <1>0, <2>5, <2>8, <3>2
      <4> QED
        BY <1>0, <3>0, <3>2, <4>1, <1>t
    <3>3. j # grey /\ j # shut
      BY <2>3, <2>4, <2>8
    <3> QED
      BY <2>6, <3>1, <3>2, <3>3
  <2> QED
    BY <2>7, <2>8
<1> QED
  BY <1>1, <1>2

\* Every step keeps the page's invariant.
LEMMA PageNextHolds == PageInv /\ [PageNext]_pageVars => PageInv'
<1> SUFFICES ASSUME PageInv, [PageNext]_pageVars
             PROVE  PageInv'
  OBVIOUS
<1> USE PageAssumption
<1>t. /\ PageTypeOK /\ HistoryOK /\ NothingAhead /\ now \in 1..MaxTime /\ StillOpen = MaxTime + 1
      /\ dwelling.state \in Public \cup {"none"} /\ dwelling.since \in 0..MaxTime
      /\ hostAlive \in BOOLEAN
  BY DEF PageInv, PageTypeOK, StillOpen
<1>p. EndsAtStop /\ OneOpen /\ OutageIsGrey /\ DwellIsObserved /\ SilenceIsNoticed
  BY DEF PageInv
<1>s. SilentSince \in 1..StillOpen /\ SilentSince + HeartbeatStale \in Nat
      /\ diedAt <= SilentSince /\ bootedAt <= SilentSince /\ SilentSince \in Nat
  BY <1>t DEF SilentSince, HistoryOK
<1>1. CASE RecordHeartbeat
  <2>u. /\ UNCHANGED <<now, plane, hostAlive, app, due, lastEval, intervals, dwelling, pageHistory>>
        /\ plane = "up" /\ (hostAlive \/ bootedAt = now)
        /\ server' = [status |-> "running", seen |-> now]
    BY <1>1 DEF RecordHeartbeat
  <2>h. UNCHANGED <<bootedAt, stoppedAt, diedAt, failedAt, outages, streak>>
    BY <2>u DEF pageHistory
  <2>1. PageTypeOK' /\ HistoryOK' /\ NothingAhead'
    BY <2>u, <2>h, <1>t DEF PageTypeOK, HistoryOK, NothingAhead
  <2>2. EndsAtStop' /\ OneOpen' /\ OutageIsGrey' /\ DwellIsObserved'
    BY <2>u, <2>h, <1>p DEF EndsAtStop, OneOpen, OpenInterval, OutageIsGrey, DwellIsObserved, LastTick
  <2>3. SilenceIsNoticed'
    <3> SUFFICES ASSUME ~hostAlive
                 PROVE  SilenceIsNoticed'
      BY <2>u DEF SilenceIsNoticed
    <3>1. SilentSince' = SilentSince /\ now <= SilentSince /\ server'.seen = now
      BY <2>u, <2>h, <1>s DEF SilentSince
    <3>2. LastTick' <= now
      BY <2>u, <1>t DEF LastTick
    <3>3. LastTick' \in Nat
      BY <2>u, <1>t DEF LastTick
    <3> QED
      BY <2>u, <1>t, <1>s, <3>1, <3>2, <3>3 DEF SilenceIsNoticed
  <2> QED
    BY <2>1, <2>2, <2>3 DEF PageInv
<1>2. CASE HostDies
  <2>u. /\ UNCHANGED <<now, plane, server, app, due, lastEval, intervals, dwelling, bootedAt,
                       stoppedAt, failedAt, outages, streak>>
        /\ hostAlive' = FALSE /\ diedAt' = now
    BY <1>2 DEF HostDies
  <2>0. hostAlive' \in BOOLEAN
    BY <2>u, Zenon
  <2>1. PageTypeOK' /\ HistoryOK' /\ NothingAhead'
    BY <2>u, <2>0, <1>t DEF PageTypeOK, HistoryOK, NothingAhead
  <2>2. EndsAtStop' /\ OneOpen' /\ OutageIsGrey' /\ DwellIsObserved'
    BY <2>u, <1>p DEF EndsAtStop, OneOpen, OpenInterval, OutageIsGrey, DwellIsObserved, LastTick
  <2>3. SilenceIsNoticed'
    <3>1. SilentSince' = now
      BY <2>u, <1>t DEF SilentSince, HistoryOK, NothingAhead
    <3>2. LastTick' <= now /\ LastTick' \in Nat
      BY <2>u, <1>t DEF LastTick
    <3>3. server'.seen <= now
      BY <2>u, <1>t DEF NothingAhead
    <3> QED
      BY <2>u, <1>t, <3>1, <3>2, <3>3 DEF SilenceIsNoticed
  <2> QED
    BY <2>1, <2>2, <2>3 DEF PageInv
<1>3. CASE StatusSweep
  <2>u. /\ UNCHANGED <<now, plane, hostAlive, app, lastEval, intervals, dwelling,
                       bootedAt, stoppedAt, diedAt, outages, streak>>
        /\ plane = "up" /\ "sweep" \in due /\ due' = due \ {"sweep"}
    BY <1>3 DEF StatusSweep
  <2>m. \/ /\ server' = IF server.seen + HeartbeatStale < now
                         THEN [server EXCEPT !.status = "unknown"] ELSE server
           /\ failedAt' = failedAt
        \/ server' = server /\ failedAt' = now
    BY <1>3 DEF StatusSweep, MarkStaleServersUnknown
  <2>0. /\ server' \in [status : {"running", "unknown"}, seen : 0..MaxTime] /\ server'.seen = server.seen
        /\ failedAt' \in {failedAt, now} /\ failedAt \in 0..MaxTime /\ failedAt <= now
    BY <2>m, <1>t DEF PageTypeOK, HistoryOK, NothingAhead
  <2>1. PageTypeOK' /\ HistoryOK' /\ NothingAhead'
    BY <2>u, <2>0, <1>t DEF PageTypeOK, HistoryOK, NothingAhead
  <2>2. LastTick' = LastTick
    BY <2>u DEF LastTick
  <2>3. EndsAtStop' /\ OneOpen' /\ OutageIsGrey' /\ DwellIsObserved'
    BY <2>u, <2>2, <1>p DEF EndsAtStop, OneOpen, OpenInterval, OutageIsGrey, DwellIsObserved
  <2>4. SilenceIsNoticed'
    <3> SUFFICES ASSUME ~hostAlive
                 PROVE  SilenceIsNoticed'
      BY <2>u DEF SilenceIsNoticed
    <3>0. CASE server' = server /\ failedAt' = now
      <4>1. SilentSince' = now
        BY <2>u, <3>0, <1>t DEF SilentSince, HistoryOK, NothingAhead
      <4>2. server'.seen <= now /\ LastTick <= now /\ LastTick \in Nat
        BY <2>0, <1>t DEF NothingAhead, LastTick
      <4> QED
        BY <2>u, <2>2, <1>t, <4>1, <4>2 DEF SilenceIsNoticed
    <3>1. CASE failedAt' = failedAt /\ server' = IF server.seen + HeartbeatStale < now
                            THEN [server EXCEPT !.status = "unknown"] ELSE server
      <4>0. /\ server.seen + HeartbeatStale < now => server'.status = "unknown"
            /\ server.status = "unknown" => server'.status = "unknown"
        BY <3>1, <1>t DEF PageTypeOK
      <4>1. SilentSince' = SilentSince /\ "sweep" \notin due'
        BY <2>u, <3>1 DEF SilentSince
      <4>2. /\ server.seen <= SilentSince /\ server.seen \in Nat
            /\ LastTick > SilentSince + HeartbeatStale + 1 =>
                 \A i \in OpenInterval : i.state # "unknown" =>
                   /\ dwelling.state = "unknown" /\ dwelling.since <= SilentSince + HeartbeatStale + 2
                   /\ LastTick < dwelling.since + Dwell
        BY <2>u, <1>p, <1>t DEF SilenceIsNoticed, PageTypeOK
      <4>3. now > SilentSince + HeartbeatStale => server'.status = "unknown"
        BY <4>0, <1>t, <1>s, <4>2
      <4>4. OpenInterval' = OpenInterval
        BY <2>u DEF OpenInterval
      <4>5. now > SilentSince + HeartbeatStale + 0 => server'.status = "unknown"
        BY <1>s, <4>3
      <4> QED
        BY <2>u, <2>0, <2>2, <4>1, <4>2, <4>4, <4>5 DEF SilenceIsNoticed
    <3> QED
      BY <2>m, <3>0, <3>1
  <2> QED
    BY <2>1, <2>3, <2>4 DEF PageInv
<1>4. ASSUME NEW failing \in SUBSET Calls, Tick(failing)
      PROVE  PageInv'
  BY <1>4, TickHolds
<1>5. CASE PlaneStops
  <2>u. /\ UNCHANGED <<now, hostAlive, server, app, lastEval, bootedAt, diedAt, failedAt, outages>>
        /\ plane = "up" /\ plane' = "down" /\ stoppedAt' = now /\ dwelling' = NoDwell /\ due' = {}
    BY <1>5 DEF PlaneStops
  <2>i. /\ intervals' \subseteq [state : Public, from : 1..MaxTime, to : 1..StillOpen]
        /\ \A i \in intervals' : i.from <= now /\ (i.to = StillOpen \/ i.to <= now)
        /\ \A i, j \in intervals' : i.to = StillOpen /\ j.to = StillOpen => i = j
        /\ \A o \in outages, i \in intervals' :
             i.state # "unknown" => i.to <= o.from \/ i.from >= o.to \/ i.to <= i.from
    <3>1. CASE intervals' = intervals
      BY <3>1, <1>t, <1>p DEF PageTypeOK, NothingAhead, OneOpen, OpenInterval, OutageIsGrey
    <3>2. CASE \E failing \in SUBSET Calls : intervals' = evaluate(failing).intervals
      BY <3>2, EvaluatedIntervals
    <3> QED
      BY <1>5, <3>1, <3>2 DEF PlaneStops
  <2>s. streak' \in [state : Public \cup {"none"}, since : 0..MaxTime] /\ streak'.since <= now
    <3>1. CASE streak' = streak
      BY <3>1, <1>t DEF HistoryOK, NothingAhead
    <3>2. CASE \E failing \in SUBSET Calls : Observes(failing)
      BY <3>2, StreakGrows
    <3> QED
      BY <1>5, <3>1, <3>2 DEF PlaneStops
  <2>1. hostAlive' \in BOOLEAN
    BY <2>u, <1>t, Zenon
  <2>2. PageTypeOK'
    <3>1. NoDwell \in [state : Public \cup {"none"}, since : 0..MaxTime]
      BY DEF NoDwell
    <3> QED
      BY <2>u, <2>i, <2>1, <3>1, <1>t DEF PageTypeOK
  <2>3. HistoryOK'
    BY <2>u, <2>s, <1>t DEF HistoryOK
  <2>4. NothingAhead'
    <3>1. hostAlive' \/ diedAt' <= now'
      BY <2>u, <1>t DEF NothingAhead
    <3> QED
      BY <2>u, <2>i, <2>s, <3>1, <1>t DEF NothingAhead, NoDwell
  <2>5. EndsAtStop'
    BY <2>u, <2>i, <1>t DEF EndsAtStop, NothingAhead, NoDwell
  <2>6. OneOpen' /\ OutageIsGrey'
    BY <2>u, <2>i DEF OneOpen, OpenInterval, OutageIsGrey
  <2>7. DwellIsObserved' /\ SilenceIsNoticed'
    BY <2>u DEF DwellIsObserved, NoDwell, SilenceIsNoticed
  <2> QED
    BY <2>2, <2>3, <2>4, <2>5, <2>6, <2>7 DEF PageInv
<1>6. ASSUME NEW failing \in SUBSET GapCalls, PlaneBoots(failing)
      PROVE  PageInv'
  <2>u. /\ UNCHANGED <<now, hostAlive, server, app, lastEval, dwelling, diedAt, failedAt>>
        /\ plane = "down" /\ plane' = "up" /\ bootedAt' = now /\ due' = {} /\ stoppedAt' = 0
        /\ streak' = NoDwell
    BY <1>6 DEF PlaneBoots
  <2>e. /\ stoppedAt \in 1..now /\ lastEval <= stoppedAt /\ due = {} /\ dwelling = NoDwell
        /\ \A i \in intervals : i.state # "unknown" => i.to = StillOpen \/ i.to <= stoppedAt
    BY <2>u, <1>p DEF EndsAtStop
  <2>1. /\ intervals' \subseteq [state : Public, from : 1..MaxTime, to : 1..StillOpen]
        /\ \A i \in intervals' : i.from <= now /\ (i.to = StillOpen \/ i.to <= now)
        /\ \A i, j \in intervals' : i.to = StillOpen /\ j.to = StillOpen => i = j
        /\ outages' \subseteq [from : 1..MaxTime, to : 1..MaxTime] /\ \A o \in outages' : o.to <= now
        /\ \A o \in outages', i \in intervals' :
             i.state # "unknown" => i.to <= o.from \/ i.from >= o.to \/ i.to <= i.from
    <3>0. /\ intervals \subseteq [state : Public, from : 1..MaxTime, to : 1..StillOpen]
          /\ \A i \in intervals : i.from <= now /\ (i.to = StillOpen \/ i.to <= now)
          /\ \A i, j \in intervals : i.to = StillOpen /\ j.to = StillOpen => i = j
          /\ outages \subseteq [from : 1..MaxTime, to : 1..MaxTime] /\ \A o \in outages : o.to <= now
          /\ \A o \in outages, i \in intervals :
               i.state # "unknown" => i.to <= o.from \/ i.from >= o.to \/ i.to <= i.from
      BY <1>t, <1>p DEF PageTypeOK, HistoryOK, NothingAhead, OneOpen, OpenInterval, OutageIsGrey
    <3>1. CASE ~GapIsWide
      BY <1>6, <3>0, <3>1 DEF PlaneBoots
    <3>2. CASE GapIsWide
      <4>1. PICK absence : absence = [from |-> stoppedAt, to |-> now]
        OBVIOUS
      <4>2. /\ intervals' = ClosedGap(failing)
            /\ outages' = outages \/ outages' = outages \cup {absence}
            /\ outages' # outages => OpenInterval \cap intervals' = {}
        BY <1>6, <3>2, <4>1 DEF PlaneBoots
      <4>3. absence \in [from : 1..MaxTime, to : 1..MaxTime] /\ absence.from = stoppedAt /\ absence.to = now
        BY <4>1, <2>e, <1>t
      <4>4. /\ intervals' \subseteq [state : Public, from : 1..MaxTime, to : 1..StillOpen]
            /\ \A i \in intervals' : i.from <= now /\ (i.to = StillOpen \/ i.to <= now)
            /\ \A i, j \in intervals' : i.to = StillOpen /\ j.to = StillOpen => i = j
            /\ \A o \in outages, i \in intervals' :
                 i.state # "unknown" => i.to <= o.from \/ i.from >= o.to \/ i.to <= i.from
            /\ \A i \in intervals' : i.state # "unknown" =>
                 (i \in OpenInterval /\ i.to = StillOpen) \/ i.to <= stoppedAt
        BY <2>u, <3>2, <4>2, GapIntervals
      <4>5. ASSUME NEW o \in outages', NEW j \in intervals', j.state # "unknown"
            PROVE  j.to <= o.from \/ j.from >= o.to \/ j.to <= j.from
        <5>1. CASE o \in outages
          BY <4>4, <4>5, <5>1
        <5>2. CASE o \notin outages
          BY <4>2, <4>3, <4>4, <4>5, <5>2
        <5> QED
          BY <5>1, <5>2
      <4>6. outages' \subseteq [from : 1..MaxTime, to : 1..MaxTime] /\ \A o \in outages' : o.to <= now
        BY <3>0, <4>2, <4>3, <1>t
      <4> QED
        BY <4>4, <4>5, <4>6
    <3> QED
      BY <3>1, <3>2
  <2>2. hostAlive' \in BOOLEAN
    BY <2>u, <1>t, Zenon
  <2>3. PageTypeOK'
    BY <2>u, <2>1, <2>2, <1>t DEF PageTypeOK
  <2>4. HistoryOK'
    <3>1. NoDwell \in [state : Public \cup {"none"}, since : 0..MaxTime]
      BY DEF NoDwell
    <3> QED
      BY <2>u, <2>1, <3>1, <1>t DEF HistoryOK
  <2>5. NothingAhead'
    <3>1. hostAlive' \/ diedAt' <= now'
      BY <2>u, <1>t DEF NothingAhead
    <3> QED
      BY <2>u, <2>1, <3>1, <1>t DEF NothingAhead, NoDwell
  <2>6. EndsAtStop' /\ OneOpen' /\ OutageIsGrey' /\ DwellIsObserved'
    BY <2>u, <2>e, <2>1 DEF EndsAtStop, OneOpen, OpenInterval, OutageIsGrey, DwellIsObserved, NoDwell
  <2>7. SilenceIsNoticed'
    <3> SUFFICES ASSUME ~hostAlive
                 PROVE  SilenceIsNoticed'
      BY <2>u DEF SilenceIsNoticed
    <3>1. SilentSince' = now
      BY <2>u, <1>t DEF SilentSince, HistoryOK, NothingAhead
    <3>2. LastTick' = now
      BY <2>u DEF LastTick
    <3>3. server'.seen <= now
      BY <2>u, <1>t DEF NothingAhead
    <3> QED
      BY <2>u, <1>t, <3>1, <3>2, <3>3 DEF SilenceIsNoticed
  <2> QED
    BY <2>3, <2>4, <2>5, <2>6, <2>7 DEF PageInv
<1>7. ASSUME NEW failing \in SUBSET GapCalls, BootFails(failing)
      PROVE  PageInv'
  <2>u. /\ UNCHANGED <<now, plane, hostAlive, server, app, due, lastEval, dwelling, pageHistory>>
        /\ plane = "down" /\ GapIsWide
    BY <1>7 DEF BootFails
  <2>h. UNCHANGED <<bootedAt, stoppedAt, diedAt, failedAt, outages, streak>>
    BY <2>u DEF pageHistory
  <2>e. /\ stoppedAt \in 1..now /\ lastEval <= stoppedAt /\ due = {} /\ dwelling = NoDwell
    BY <2>u, <1>p DEF EndsAtStop
  <2>1. /\ intervals' \subseteq [state : Public, from : 1..MaxTime, to : 1..StillOpen]
        /\ \A i \in intervals' : i.from <= now /\ (i.to = StillOpen \/ i.to <= now)
        /\ \A i, j \in intervals' : i.to = StillOpen /\ j.to = StillOpen => i = j
        /\ \A o \in outages, i \in intervals' :
             i.state # "unknown" => i.to <= o.from \/ i.from >= o.to \/ i.to <= i.from
        /\ \A i \in intervals' : i.state # "unknown" => i.to = StillOpen \/ i.to <= stoppedAt
    <3>1. intervals' = ClosedGap(failing)
      BY <1>7 DEF BootFails
    <3> QED
      BY <2>u, <3>1, GapIntervals
  <2>2. hostAlive' \in BOOLEAN
    BY <2>u, <1>t, Zenon
  <2>3. PageTypeOK'
    BY <2>u, <2>1, <2>2, <1>t DEF PageTypeOK
  <2>4. HistoryOK' /\ NothingAhead'
    <3>1. hostAlive' \/ diedAt' <= now'
      BY <2>u, <2>h, <1>t DEF NothingAhead
    <3> QED
      BY <2>u, <2>h, <2>1, <3>1, <1>t DEF HistoryOK, NothingAhead
  <2>5. EndsAtStop' /\ OneOpen'
    BY <2>u, <2>h, <2>e, <2>1 DEF EndsAtStop, OneOpen, OpenInterval, NoDwell
  <2>6. OutageIsGrey'
    BY <2>h, <2>1 DEF OutageIsGrey
  <2>7. DwellIsObserved' /\ SilenceIsNoticed'
    BY <2>u, <2>e DEF DwellIsObserved, NoDwell, SilenceIsNoticed
  <2> QED
    BY <2>3, <2>4, <2>5, <2>6, <2>7 DEF PageInv
<1>8. CASE TimePasses
  <2>u. /\ UNCHANGED <<plane, hostAlive, server, app, lastEval, intervals, dwelling, pageHistory>>
        /\ due = {} /\ now < MaxTime /\ now' = now + 1
        /\ due' = IF plane = "up" THEN {"tick", "sweep"} ELSE {}
    BY <1>8 DEF TimePasses
  <2>h. UNCHANGED <<bootedAt, stoppedAt, diedAt, failedAt, outages, streak>>
    BY <2>u DEF pageHistory
  <2>0. hostAlive' \in BOOLEAN
    BY <2>u, <1>t, Zenon
  <2>1. PageTypeOK'
    BY <2>u, <2>0, <1>t DEF PageTypeOK
  <2>2. HistoryOK'
    BY <2>h, <1>t DEF HistoryOK
  <2>3. NothingAhead'
    <3>1. hostAlive' \/ diedAt' <= now'
      BY <2>u, <2>h, <1>t DEF NothingAhead, HistoryOK
    <3>2. /\ bootedAt' <= now' /\ failedAt' <= now' /\ server'.seen <= now' /\ lastEval' <= now'
          /\ dwelling'.since <= now' /\ streak'.since <= now'
      BY <2>u, <2>h, <1>t DEF NothingAhead, HistoryOK, PageTypeOK
    <3>3. \A i \in intervals' : i.from <= now' /\ (i.to = StillOpen \/ i.to <= now')
      BY <2>u, <1>t DEF NothingAhead, PageTypeOK
    <3>4. \A o \in outages' : o.to <= now'
      BY <2>u, <2>h, <1>t DEF NothingAhead, HistoryOK
    <3> QED
      BY <3>1, <3>2, <3>3, <3>4 DEF NothingAhead, StillOpen
  <2>4. EndsAtStop'
    BY <2>u, <2>h, <1>t, <1>p DEF EndsAtStop, HistoryOK, NoDwell
  <2>5. OneOpen' /\ OutageIsGrey'
    BY <2>u, <2>h, <1>p DEF OneOpen, OpenInterval, OutageIsGrey
  <2>6. LastTick = now /\ (plane = "up" => LastTick' = now)
    BY <2>u, <1>t DEF LastTick
  <2>7. DwellIsObserved'
    BY <2>u, <2>h, <1>p DEF DwellIsObserved
  <2>8. SilenceIsNoticed'
    <3> SUFFICES ASSUME ~hostAlive, plane = "up"
                 PROVE  SilenceIsNoticed'
      BY <2>u DEF SilenceIsNoticed
    <3>1. SilentSince' = SilentSince /\ "sweep" \in due' /\ OpenInterval' = OpenInterval
      BY <2>u, <2>h DEF SilentSince, OpenInterval
    <3>2. /\ server.seen <= SilentSince
          /\ now > SilentSince + HeartbeatStale + 0 => server.status = "unknown"
          /\ LastTick > SilentSince + HeartbeatStale + 1 =>
               \A i \in OpenInterval : i.state # "unknown" =>
                 /\ dwelling.state = "unknown" /\ dwelling.since <= SilentSince + HeartbeatStale + 2
                 /\ LastTick < dwelling.since + Dwell
      BY <2>u, <1>p DEF SilenceIsNoticed
    <3>3. now' > SilentSince + HeartbeatStale + 1 => server'.status = "unknown"
      BY <2>u, <1>t, <1>s, <3>2
    <3> QED
      BY <2>u, <2>6, <3>1, <3>2, <3>3 DEF SilenceIsNoticed
  <2> QED
    BY <2>1, <2>2, <2>3, <2>4, <2>5, <2>7, <2>8 DEF PageInv
<1>9. ASSUME NEW status \in {"running", "stopped", "deploying"}, HandleReport(status)
      PROVE  PageInv'
  <2>u. /\ UNCHANGED <<now, plane, hostAlive, server, due, lastEval, intervals, dwelling, pageHistory>>
        /\ app' = status
    BY <1>9 DEF HandleReport
  <2>h. UNCHANGED <<bootedAt, stoppedAt, diedAt, failedAt, outages, streak>>
    BY <2>u DEF pageHistory
  <2>1. PageTypeOK' /\ HistoryOK' /\ NothingAhead'
    BY <2>u, <2>h, <1>t DEF PageTypeOK, HistoryOK, NothingAhead
  <2>2. EndsAtStop' /\ OneOpen' /\ OutageIsGrey' /\ DwellIsObserved' /\ SilenceIsNoticed'
    BY <2>u, <2>h, <1>p
       DEF EndsAtStop, OneOpen, OpenInterval, OutageIsGrey, DwellIsObserved, LastTick,
           SilenceIsNoticed, SilentSince
  <2> QED
    BY <2>1, <2>2 DEF PageInv
<1>10. CASE UNCHANGED pageVars
  <2>u. UNCHANGED <<now, plane, hostAlive, server, app, due, lastEval, intervals, dwelling, bootedAt,
                    stoppedAt, diedAt, failedAt, outages, streak>>
    BY <1>10 DEF pageVars, pageHistory
  <2>1. PageTypeOK' /\ HistoryOK' /\ NothingAhead'
    BY <2>u, <1>t DEF PageTypeOK, HistoryOK, NothingAhead
  <2>2. EndsAtStop' /\ OneOpen' /\ OutageIsGrey' /\ DwellIsObserved' /\ SilenceIsNoticed'
    BY <2>u, <1>p
       DEF EndsAtStop, OneOpen, OpenInterval, OutageIsGrey, DwellIsObserved, LastTick,
           SilenceIsNoticed, SilentSince
  <2> QED
    BY <2>1, <2>2 DEF PageInv
<1> QED
  BY <1>1, <1>2, <1>3, <1>4, <1>5, <1>6, <1>7, <1>8, <1>9, <1>10 DEF PageNext

\* No interval yet.
LEMMA PageStart == PageInit => PageInv
<1> SUFFICES ASSUME PageInit
             PROVE  PageInv
  OBVIOUS
<1> USE PageAssumption
<1>1. hostAlive \in BOOLEAN
  BY Zenon DEF PageInit
<1>2. PageTypeOK
  BY <1>1 DEF PageInit, PageTypeOK, NoDwell, Never
<1>3. HistoryOK /\ NothingAhead /\ EndsAtStop
  BY DEF PageInit, HistoryOK, NothingAhead, EndsAtStop, StillOpen, Never, NoDwell
<1>4. OneOpen /\ OutageIsGrey /\ DwellIsObserved /\ SilenceIsNoticed
  BY DEF PageInit, OneOpen, OpenInterval, OutageIsGrey, DwellIsObserved, NoDwell, SilenceIsNoticed
<1> QED
  BY <1>2, <1>3, <1>4 DEF PageInv

\* The invariant of the status page holds in every reachable state.
THEOREM PageInvariance == PageSpec => []PageInv
<1> QED
  BY PageStart, PageNextHolds, PTL DEF PageSpec

\* No observed state covers any of an absence of the plane that was closed at the boot, however
\* long it was, between whichever writes the plane stopped and whichever of them failed (CloseGap).
THEOREM OutageIsGreyHolds == PageSpec => []OutageIsGrey
<1>1. PageInv => OutageIsGrey
  BY DEF PageInv
<1> QED
  BY <1>1, PageInvariance, PTL

\* The page does not vouch for a silent host, for every stale limit and dwell: the sweep
\* marks it, the dwell begins at the next tick and ends in a change, from whatever the calls that
\* failed before have left: an interval that could not be closed, a change that was half written,
\* a pending state whose evaluations went missing (MarkStaleServersUnknown, evaluate).
THEOREM SilentIsUnknownHolds == PageSpec => []SilentIsUnknown
<1>1. PageInv => SilentIsUnknown
  <2> SUFFICES ASSUME PageInv, NEW i \in OpenInterval, plane = "up", due = {}, ~hostAlive,
                      now > SilentSince + HeartbeatStale + Dwell + 1, i.state # "unknown"
               PROVE  FALSE
    BY DEF SilentIsUnknown
  <2> USE PageAssumption
  <2>1. now \in Nat /\ SilentSince \in Nat /\ dwelling.since \in Nat
    BY DEF PageInv, PageTypeOK, HistoryOK, SilentSince, StillOpen
  <2>2. LastTick = now
    BY DEF LastTick
  <2>3. LastTick > SilentSince + HeartbeatStale + 1
    BY <2>1, <2>2
  <2>4. dwelling.since <= SilentSince + HeartbeatStale + 2 /\ LastTick < dwelling.since + Dwell
    BY <2>3 DEF PageInv, SilenceIsNoticed
  <2> QED
    BY <2>1, <2>2, <2>4
<1> QED
  BY <1>1, PageInvariance, PTL

\* A blip is not news, for every dwell: a change of the page follows a dwell in which nothing but
\* the new state was observed, also when evaluations in it failed to observe the component or to
\* write (evaluate, pending).
THEOREM BlipsAreNotNewsHolds == PageSpec => BlipsAreNotNews
<1>1. PageInv /\ [PageNext]_pageVars =>
        [\A i \in OpenInterval, j \in intervals' :
           plane = "up" /\ i \notin intervals' /\ j \notin intervals /\ j.to = StillOpen =>
             streak'.state = j.state /\ now >= streak'.since + Dwell]_pageVars
  <2> SUFFICES ASSUME PageInv, PageNext, NEW i \in OpenInterval, NEW j \in intervals',
                      plane = "up", i \notin intervals', j \notin intervals, j.to = StillOpen
               PROVE  streak'.state = j.state /\ now >= streak'.since + Dwell
    OBVIOUS
  <2> USE PageAssumption
  <2>i. i \in intervals
    BY DEF OpenInterval
  <2>t. /\ PageTypeOK /\ now \in 1..MaxTime /\ StillOpen = MaxTime + 1 /\ dwelling.since \in 0..MaxTime
        /\ streak.since \in 0..MaxTime
    BY DEF PageInv, PageTypeOK, HistoryOK, StillOpen
  <2>1. ASSUME NEW failing \in SUBSET Calls, intervals' = evaluate(failing).intervals, Observes(failing)
        PROVE  streak'.state = j.state /\ now >= streak'.since + Dwell
    <3>2. \A k \in OpenInterval : Closed(k, now).to = now
      BY <2>t, WrittenIntervals DEF OpenInterval
    <3>1. PICK x : x = Opened(Observed(failing), now)
      OBVIOUS
    <3>0. \/ intervals' = intervals
          \/ OpenInterval = {}
          \/ /\ Sees(failing) /\ Observed(failing) # "none" /\ dwelling.state = Observed(failing)
             /\ ~(now - dwelling.since < Dwell)
             /\ \E k \in OpenInterval : \/ intervals' = (intervals \ {k}) \cup {Closed(k, now)}
                                        \/ intervals' = (intervals \ {k}) \cup {Closed(k, now), x}
      BY <2>1, <3>1, EvaluatedPage
    <3>7. j # x => \A k \in OpenInterval : j \notin (intervals \ {k}) \cup {Closed(k, now), x}
      BY <2>t, <3>2
    <3>3. /\ Sees(failing) /\ Observed(failing) # "none" /\ dwelling.state = Observed(failing)
          /\ ~(now - dwelling.since < Dwell) /\ j = x
      BY <2>i, <2>t, <3>0, <3>2, <3>7
    <3>4. j.state = Observed(failing)
      BY <3>1, <3>3 DEF Opened
    <3>5. streak.state = Observed(failing) /\ streak.since <= dwelling.since
      BY <3>3 DEF PageInv, DwellIsObserved
    <3>6. streak' = streak
      BY <2>1, <3>3, <3>5, StreakGrows
    <3> QED
      BY <2>t, <3>3, <3>4, <3>5, <3>6
  <2>2. CASE intervals' = intervals
    BY <2>2, <2>i
  <2> QED
    BY <2>1, <2>2
       DEF PageNext, RecordHeartbeat, HostDies, StatusSweep, Tick, PlaneStops, PlaneBoots, BootFails,
           TimePasses, HandleReport
<1> QED
  BY <1>1, PageInvariance, PTL DEF PageSpec, BlipsAreNotNews

-----------------------------------------------------------------------------
(* Threshold alerts.                                                       *)

\* A nonempty set of naturals has a least element.
LEMMA LeastOf ==
  ASSUME NEW S \in SUBSET Nat, S # {}
  PROVE  \E m \in S : \A n \in S : m <= n
<1>1. \E m \in S : \A n \in S : ~(<<n, m>> \in OpToRel(<, Nat))
  BY NatLessThanWellFounded, WFMin, Zenon
<1>2. ASSUME NEW n \in Nat, NEW m \in Nat, n < m
      PROVE  <<n, m>> \in OpToRel(<, Nat)
  <2>1. <<n, m>> \in Nat \X Nat /\ <<n, m>>[1] < <<n, m>>[2]
    BY <1>2
  <2> QED
    BY <2>1, Zenon DEF OpToRel
<1>3. PICK m \in S : \A n \in S : ~(<<n, m>> \in OpToRel(<, Nat))
  BY <1>1, Zenon
<1>4. \A n \in S : ~(n < m)
  BY <1>2, <1>3, Zenon
<1> QED
  BY <1>4

\* A nonempty bounded set of naturals has a greatest element.
LEMMA GreatestOf ==
  ASSUME NEW S \in SUBSET Nat, S # {}, NEW b \in Nat, \A n \in S : n <= b
  PROVE  \E m \in S : \A n \in S : n <= m
<1>1. PICK B : B = {c \in Nat : \A n \in S : n <= c}
  OBVIOUS
<1>2. B \in SUBSET Nat /\ b \in B
  BY <1>1
<1>3. PICK m \in B : \A c \in B : m <= c
  BY <1>2, LeastOf
<1>4. m \in Nat /\ \A n \in S : n <= m
  BY <1>1, <1>3
<1>5. m \in S
  <2> SUFFICES ASSUME m \notin S
               PROVE  FALSE
    OBVIOUS
  <2>1. \A n \in S : n < m
    BY <1>4
  <2>2. PICK n \in S : TRUE
    OBVIOUS
  <2>3. n \in Nat /\ n < m
    BY <2>1, <2>2
  <2>4. m - 1 \in Nat /\ m - 1 < m
    BY <1>4, <2>3
  <2>5. ASSUME NEW k \in S
        PROVE  k <= m - 1
    <3>1. k \in Nat /\ k < m
      BY <2>1
    <3> QED
      BY <1>4, <3>1
  <2>6. m - 1 \in B
    BY <1>1, <2>4, <2>5
  <2>7. m <= m - 1
    BY <1>3, <2>6
  <2> QED
    BY <1>4, <2>7
<1> QED
  BY <1>4, <1>5

\* The rows of alert_events.
EpisodeRows == [at : 0..MaxTick, open : BOOLEAN, delivered : BOOLEAN]

\* What is on record about an episode.
LEMMA EpisodeRow ==
  ASSUME NEW es \in Seq(EpisodeRows), NEW i \in DOMAIN es
  PROVE  es[i].at \in 0..MaxTick /\ es[i].open \in BOOLEAN /\ es[i].delivered \in BOOLEAN
<1>1. es[i] \in EpisodeRows
  OBVIOUS
<1> QED
  BY <1>1 DEF EpisodeRows

\* The alarms of a window besides its last one have episodes of their own, all of which
\* the evaluation that sent the last one counted.
LEMMA FewAlarms ==
  ASSUME AlertsAssumption, events \in Seq(EpisodeRows), AlarmsOnRecord,
         \A i, j \in DOMAIN events : i <= j => events[i].at <= events[j].at,
         \A i \in DOMAIN events : events[i].delivered => ~Flapping(Cardinality(Before(i))),
         NEW t \in alarms
  PROVE  Cardinality({u \in alarms : t <= u /\ u <= t + FlapWindow}) < FlapEpisodes
<1>1. PICK S : S = {u \in alarms : t <= u /\ u <= t + FlapWindow}
  OBVIOUS
<1>2. /\ MaxTick \in Nat /\ FlapWindow \in Nat /\ FlapEpisodes \in Nat
  BY DEF AlertsAssumption
<1>3. \A i \in DOMAIN events : events[i].at \in 0..MaxTick
  BY EpisodeRow
<1>4. alarms \in SUBSET (0..MaxTick)
  BY <1>3 DEF AlarmsOnRecord
<1>5. t \in Nat /\ t \in S /\ S \in SUBSET Nat /\ \A u \in S : u <= MaxTick
  <2>1. alarms \in SUBSET Nat /\ \A u \in alarms : u <= MaxTick
    BY <1>2, <1>4
  <2>2. t \in Nat /\ t <= t /\ t <= t + FlapWindow
    BY <1>2, <2>1
  <2> QED
    BY <1>1, <2>1, <2>2
<1>6. PICK m \in S : \A u \in S : u <= m
  <2>1. S # {}
    BY <1>5
  <2> QED
    BY <1>2, <1>5, <2>1, GreatestOf
<1>7. IsFiniteSet(S)
  BY <1>2, <1>5, FS_BoundedSetOfNaturals
<1>8. PICK k \in DOMAIN events : events[k].at = m /\ events[k].delivered
  BY <1>1, <1>6 DEF AlarmsOnRecord
<1>9. /\ k \in Nat /\ k <= Len(events) /\ Len(events) \in Nat
      /\ DOMAIN events = 1..Len(events)
  BY <1>8
<1>10. PICK f : f = [u \in S \ {m} |-> CHOOSE i \in DOMAIN events : events[i].at = u]
  OBVIOUS
<1>11. ASSUME NEW u \in S \ {m}
       PROVE  f[u] \in DOMAIN events /\ events[f[u]].at = u
  <2>1. \E i \in DOMAIN events : events[i].at = u
    BY <1>1 DEF AlarmsOnRecord
  <2> QED
    BY <1>10, <2>1
<1>12. ASSUME NEW u \in S \ {m}
       PROVE  f[u] \in Before(k)
  <2>1. f[u] \in DOMAIN events /\ events[f[u]].at = u
    BY <1>11
  <2>2. u \in Nat /\ u < m /\ t <= u /\ m <= t + FlapWindow /\ m \in Nat
    BY <1>1, <1>5, <1>6
  <2>3. ~(k <= f[u])
    <3> SUFFICES ASSUME k <= f[u]
                 PROVE  FALSE
      OBVIOUS
    <3>1. events[k].at <= events[f[u]].at
      BY <1>8, <2>1
    <3> QED
      BY <1>8, <2>1, <2>2, <3>1
  <2>4. f[u] \in 1..(k - 1)
    BY <1>9, <2>1, <2>3
  <2>5. u + FlapWindow >= m
    BY <1>2, <1>5, <2>2
  <2> QED
    BY <1>8, <2>1, <2>4, <2>5 DEF Before
<1>13. f \in Injection(S \ {m}, Before(k))
  <2>1. f \in [S \ {m} -> Before(k)]
    BY <1>10, <1>12
  <2>2. \A u, v \in S \ {m} : f[u] = f[v] => u = v
    BY <1>11
  <2> QED
    BY <2>1, <2>2, Zenon DEF Injection, IsInjective
<1>14. IsFiniteSet(Before(k)) /\ Cardinality(Before(k)) \in Nat
  <2>1. IsFiniteSet(1..(k - 1))
    BY <1>9, FS_Interval
  <2>2. Before(k) \in SUBSET (1..(k - 1))
    BY DEF Before
  <2> QED
    BY <2>1, <2>2, FS_Subset, FS_CardinalityType
<1>15. Cardinality(S \ {m}) <= Cardinality(Before(k))
  BY <1>13, <1>14, FS_Injection
<1>16. Cardinality(S \ {m}) = Cardinality(S) - 1 /\ Cardinality(S) \in Nat
  BY <1>6, <1>7, FS_RemoveElement, FS_CardinalityType
<1>17. ~(Cardinality(Before(k)) + 1 >= FlapEpisodes)
  BY <1>8 DEF Flapping
<1> QED
  BY <1>1, <1>2, <1>14, <1>15, <1>16, <1>17

\* The invariant says that the flap guard holds.
LEMMA GuardFromInv ==
  ASSUME AlertsAssumption, AlertInv
  PROVE  FlapGuardHolds
<1>1. CASE blind
  BY <1>1, Zenon DEF FlapGuardHolds
<1>2. CASE ~blind
  <2>1. events \in Seq(EpisodeRows)
    BY DEF AlertInv, AlertsTypeOK, EpisodeRows
  <2>2. AlarmsOnRecord /\ \A i, j \in DOMAIN events : i <= j => events[i].at <= events[j].at
    BY DEF AlertInv, EpisodesInOrder
  <2>3. \A i \in DOMAIN events : events[i].delivered => ~Flapping(Cardinality(Before(i)))
    BY <1>2, Zenon DEF AlertInv, DeliveredIsCounted
  <2>4. \A t \in alarms : Cardinality({u \in alarms : t <= u /\ u <= t + FlapWindow}) < FlapEpisodes
    BY <2>1, <2>2, <2>3, FewAlarms
  <2> QED
    BY <2>4, Zenon DEF FlapGuardHolds
<1> QED
  BY <1>1, <1>2, Zenon

\* The columns of alert_rules, and a running evaluation.
RuleRows == [enabled : BOOLEAN, state : {"ok", "firing", "no_data", "flapping"},
             since : 0..MaxTick, rearm : 0..Unset, quiet : 0..Unset]
Evaluations == [step : {"none", "opened", "fired", "closed", "resolved"},
                was : {"ok", "firing", "no_data", "flapping"},
                flapping : BOOLEAN, deliver : BOOLEAN]

\* The types, one variable at a time.
LEMMA AlertTypes ==
  ASSUME AlertInv
  PROVE  /\ ticks \in 0..MaxTick /\ buckets \in [1..Window -> Bucket] /\ evaluated \in BOOLEAN
         /\ rule \in RuleRows /\ events \in Seq(EpisodeRows)
         /\ evaluation \in Evaluations /\ missed \in Nat
  BY DEF AlertInv, AlertsTypeOK, EvaluationOK, RuleRows, EpisodeRows, Evaluations

\* A failing call is counted.
LEMMA MissCounts ==
  ASSUME missed \in Nat, NEW bad \in BOOLEAN, Miss(bad)
  PROVE  missed' \in Nat
  BY DEF Miss

\* What SetAlertRuleState writes is a row.
LEMMA StateWritten ==
  ASSUME rule \in RuleRows, NEW bad \in BOOLEAN,
         NEW state \in {"ok", "firing", "no_data", "flapping"}, NEW since \in 0..MaxTick,
         NEW rearm \in 0..Unset, NEW quiet \in 0..Unset,
         SetAlertRuleState(bad, state, since, rearm, quiet)
  PROVE  rule' \in RuleRows
  BY DEF SetAlertRuleState, RuleRows

\* enterNoData writes a row, or none.
LEMMA NoDataWritten ==
  ASSUME AlertsAssumption, rule \in RuleRows, ticks \in 0..MaxTick, NEW bad \in BOOLEAN, NoData(bad)
  PROVE  rule' \in RuleRows
<1>1. rule.since \in 0..MaxTick /\ rule.rearm \in 0..Unset
  BY DEF RuleRows
<1>2. Unset \in 0..Unset /\ ticks \in 0..Unset
  BY DEF Unset, AlertsAssumption
<1>3. CASE rule.state # "no_data"
  <2>1. SetAlertRuleState(bad, "no_data", ticks, rule.rearm, Unset)
    BY <1>3 DEF NoData
  <2> QED
    BY <1>1, <1>2, <2>1, StateWritten
<1>4. CASE SetAlertRuleState(bad, "no_data", rule.since, rule.rearm, ticks)
  BY <1>1, <1>2, <1>4, StateWritten
<1>5. CASE UNCHANGED rule
  BY <1>5
<1> QED
  BY <1>3, <1>4, <1>5 DEF NoData

\* A step that opens no episode and sends no alarm leaves the record in order: it may close
\* an episode, let time pass, or go on with the evaluation of the last episode.
LEMMA RecordKept ==
  ASSUME AlertsAssumption, AlertInv, ticks' \in 0..MaxTick, ticks <= ticks',
         DOMAIN events' = DOMAIN events,
         \A i \in DOMAIN events : events'[i].at = events[i].at /\ events'[i].delivered = events[i].delivered,
         alarms' = alarms, blind' = blind,
         evaluation'.step \in {"opened", "fired"} =>
           /\ evaluation.step \in {"opened", "fired"} /\ evaluation'.deliver = evaluation.deliver
           /\ events' = events /\ ticks' = ticks
  PROVE  EpisodesInOrder' /\ DeliveredIsCounted' /\ AlarmsOnRecord'
<1>1. events \in Seq(EpisodeRows) /\ ticks \in 0..MaxTick /\ FlapWindow \in Nat /\ MaxTick \in Nat
  BY AlertTypes DEF AlertsAssumption
<1>2. \A i \in DOMAIN events : events[i].at \in 0..MaxTick
  BY <1>1, EpisodeRow
<1>3. /\ \A i \in DOMAIN events : events[i].at <= ticks
      /\ \A i, j \in DOMAIN events : i <= j => events[i].at <= events[j].at
      /\ evaluation.step \in {"opened", "fired"} =>
           /\ events # <<>> /\ events[Len(events)].at = ticks
           /\ events[Len(events)].delivered = evaluation.deliver
  BY DEF AlertInv, EpisodesInOrder
<1>4. EpisodesInOrder'
  <2>1. \A i \in DOMAIN events' : events'[i].at <= ticks'
    <3> SUFFICES ASSUME NEW i \in DOMAIN events'
                 PROVE  events'[i].at <= ticks'
      OBVIOUS
    <3>1. events[i].at \in 0..MaxTick /\ events[i].at <= ticks /\ events'[i].at = events[i].at
      BY <1>2, <1>3
    <3> QED
      BY <1>1, <3>1
  <2>2. \A i, j \in DOMAIN events' : i <= j => events'[i].at <= events'[j].at
    BY <1>3
  <2>3. evaluation'.step \in {"opened", "fired"} =>
          /\ events' # <<>> /\ events'[Len(events')].at = ticks'
          /\ events'[Len(events')].delivered = evaluation'.deliver
    BY <1>3
  <2> QED
    BY <2>1, <2>2, <2>3 DEF EpisodesInOrder
<1>5. ASSUME NEW i \in DOMAIN events
      PROVE  Before(i)' = Before(i)
  <2>1. i \in Nat /\ i <= Len(events) /\ Len(events) \in Nat /\ DOMAIN events = 1..Len(events)
    BY <1>1
  <2>2. \A j \in 1..(i - 1) : j \in DOMAIN events
    BY <2>1
  <2>3. \A j \in 1..(i - 1) : events'[j].at = events[j].at
    BY <2>2
  <2>4. events'[i].at = events[i].at
    OBVIOUS
  <2> QED
    BY <2>3, <2>4 DEF Before
<1>6. DeliveredIsCounted'
  <2>1. CASE blind
    BY <2>1, Zenon DEF DeliveredIsCounted
  <2>2. CASE ~blind
    <3>1. \A i \in DOMAIN events : events[i].delivered => ~Flapping(Cardinality(Before(i)))
      BY <2>2, Zenon DEF AlertInv, DeliveredIsCounted
    <3>2. \A i \in DOMAIN events' : events'[i].delivered => ~Flapping(Cardinality(Before(i)'))
      BY <1>5, <3>1, Zenon
    <3>3. \A i \in DOMAIN events' : events'[i].delivered => ~Flapping(Cardinality(Before(i)))'
      BY <3>2, Zenon DEF Flapping
    <3> QED
      BY <3>3, Zenon DEF DeliveredIsCounted
  <2> QED
    BY <2>1, <2>2, Zenon
<1>7. AlarmsOnRecord'
  <2>1. \A t \in alarms : \E i \in DOMAIN events : events[i].at = t /\ events[i].delivered
    BY DEF AlertInv, AlarmsOnRecord
  <2>2. \A t \in alarms' : \E i \in DOMAIN events' : events'[i].at = t /\ events'[i].delivered
    BY <2>1, Zenon
  <2> QED
    BY <2>2, Zenon DEF AlarmsOnRecord
<1> QED
  BY <1>4, <1>6, <1>7, Zenon

\* A minute.
LEMMA MinuteKeeps ==
  ASSUME AlertsAssumption, AlertInv, NEW b \in Bucket \cup {"same"}, Minute(b)
  PROVE  AlertInv'
<1>1. /\ evaluation = NoEvaluation /\ ticks < MaxTick /\ ticks' = ticks + 1 /\ evaluated' = FALSE
      /\ rule' = rule /\ events' = events /\ evaluation' = evaluation /\ missed' = missed
      /\ alarms' = alarms /\ blind' = blind
  BY DEF Minute, alertHistory
<1>2. /\ ticks \in 0..MaxTick /\ buckets \in [1..Window -> Bucket] /\ Window \in Nat /\ MaxTick \in Nat
  BY AlertTypes DEF AlertsAssumption
<1>3. ticks' \in 0..MaxTick /\ ticks <= ticks'
  BY <1>1, <1>2
<1>4. buckets' \in [1..Window -> Bucket]
  <2>1. CASE b = "same"
    BY <1>2, <2>1 DEF Minute
  <2>2. CASE b # "same"
    <3>1. b \in Bucket
      BY <2>2
    <3>2. buckets' = [i \in 1..Window |-> IF i = Window THEN b ELSE buckets[i + 1]]
      BY <2>2 DEF Minute
    <3>3. \A i \in 1..Window : i # Window => i + 1 \in 1..Window
      BY <1>2
    <3> QED
      BY <1>2, <3>1, <3>2, <3>3
  <2> QED
    BY <2>1, <2>2
<1>5. EpisodesInOrder' /\ DeliveredIsCounted' /\ AlarmsOnRecord'
  <2>1. evaluation'.step \notin {"opened", "fired"}
    BY <1>1 DEF NoEvaluation
  <2> QED
    BY <1>1, <1>3, <2>1, RecordKept
<1>6. AlertsTypeOK' /\ EvaluationOK'
  BY <1>1, <1>3, <1>4, AlertTypes DEF AlertsTypeOK, EvaluationOK, RuleRows, EpisodeRows, Evaluations
<1> QED
  BY <1>5, <1>6 DEF AlertInv

\* A step of an evaluation that leaves the record as it is, and sends no alarm.
LEMMA SameRecord ==
  ASSUME AlertsAssumption, AlertInv,
         ticks' = ticks, buckets' = buckets, evaluated' \in BOOLEAN, rule' \in RuleRows,
         events' = events, evaluation' \in Evaluations, missed' \in Nat,
         alarms' = alarms, blind' = blind,
         evaluation'.step \in {"opened", "fired"} =>
           evaluation.step \in {"opened", "fired"} /\ evaluation'.deliver = evaluation.deliver
  PROVE  AlertInv'
<1>1. ticks \in 0..MaxTick /\ ticks' \in 0..MaxTick /\ ticks <= ticks'
  BY AlertTypes DEF AlertsAssumption
<1>2. EpisodesInOrder' /\ DeliveredIsCounted' /\ AlarmsOnRecord'
  BY <1>1, RecordKept
<1>3. AlertsTypeOK' /\ EvaluationOK'
  BY AlertTypes DEF AlertsTypeOK, EvaluationOK, RuleRows, EpisodeRows, Evaluations
<1> QED
  BY <1>2, <1>3 DEF AlertInv

\* The steps that leave the record alone: a window without a verdict, a failed or a
\* repeated episode, the rule's row, the end of a resolve, the owner, a stop of the plane.
LEMMA QuietSteps ==
  ASSUME AlertsAssumption, AlertInv,
         \/ \E bad \in BOOLEAN : EnterNoData(bad) \/ RecordFire(bad) \/ RecordResolve(bad) \/ AnnounceResolve(bad)
         \/ Unreadable \/ NoEpisode \/ SetAlertRuleEnabled \/ EvaluatorStops
  PROVE  AlertInv'
<1>1. /\ ticks \in 0..MaxTick /\ rule \in RuleRows /\ evaluation \in Evaluations /\ missed \in Nat
      /\ evaluated \in BOOLEAN
  BY AlertTypes
<1>2. NoEvaluation \in Evaluations /\ NoEvaluation.step = "none"
  BY DEF NoEvaluation, Evaluations
<1>3. /\ rule.since \in 0..MaxTick /\ rule.rearm \in 0..Unset /\ rule.quiet \in 0..Unset
  BY <1>1 DEF RuleRows
<1>4. Unset \in 0..Unset /\ ticks + RearmDelay \in 0..Unset
  BY <1>1 DEF Unset, AlertsAssumption
<1>5. ASSUME NEW bad \in BOOLEAN, EnterNoData(bad)
      PROVE  AlertInv'
  <2>1. /\ ticks' = ticks /\ buckets' = buckets /\ evaluated' = TRUE /\ events' = events
        /\ evaluation' = evaluation /\ alarms' = alarms /\ blind' = blind
    BY <1>5 DEF EnterNoData, Begin, alertHistory
  <2>2. missed' \in Nat
    BY <1>1, <1>5, MissCounts DEF EnterNoData
  <2>3. rule' \in RuleRows
    BY <1>1, <1>5, NoDataWritten DEF EnterNoData
  <2> QED
    BY <1>1, <2>1, <2>2, <2>3, SameRecord
<1>6. ASSUME NEW bad \in BOOLEAN, RecordFire(bad)
      PROVE  AlertInv'
  <2>1. /\ ticks' = ticks /\ buckets' = buckets /\ evaluated' = evaluated /\ events' = events
        /\ evaluation.step = "opened" /\ evaluation' = [evaluation EXCEPT !.step = "fired"]
        /\ alarms' = alarms /\ blind' = blind
    BY <1>6 DEF RecordFire, alertHistory
  <2>2. missed' \in Nat
    BY <1>1, <1>6, MissCounts DEF RecordFire
  <2>3. rule' \in RuleRows
    <3>1. PICK st : st = IF evaluation.flapping THEN "flapping" ELSE "firing"
      OBVIOUS
    <3>2. st \in {"ok", "firing", "no_data", "flapping"}
      BY <3>1
    <3>3. SetAlertRuleState(bad, st, ticks, rule.rearm, rule.quiet)
      BY <1>6, <3>1, Zenon DEF RecordFire
    <3> QED
      BY <1>1, <1>3, <3>2, <3>3, StateWritten
  <2>4. evaluation' \in Evaluations /\ evaluation'.deliver = evaluation.deliver
    BY <1>1, <2>1 DEF Evaluations
  <2> QED
    BY <1>1, <2>1, <2>2, <2>3, <2>4, SameRecord
<1>7. ASSUME NEW bad \in BOOLEAN, RecordResolve(bad)
      PROVE  AlertInv'
  <2>1. /\ ticks' = ticks /\ buckets' = buckets /\ evaluated' = evaluated /\ events' = events
        /\ evaluation' = [evaluation EXCEPT !.step = "resolved"] /\ alarms' = alarms /\ blind' = blind
    BY <1>7 DEF RecordResolve, alertHistory
  <2>2. missed' \in Nat
    BY <1>1, <1>7, MissCounts DEF RecordResolve
  <2>3. rule' \in RuleRows
    <3>1. SetAlertRuleState(bad, "ok", ticks, ticks + RearmDelay, Unset)
      BY <1>7 DEF RecordResolve
    <3> QED
      BY <1>1, <1>4, <3>1, StateWritten
  <2>4. evaluation' \in Evaluations /\ evaluation'.step = "resolved"
    BY <1>1, <2>1 DEF Evaluations
  <2> QED
    BY <1>1, <2>1, <2>2, <2>3, <2>4, SameRecord
<1>8. ASSUME NEW bad \in BOOLEAN, AnnounceResolve(bad)
      PROVE  AlertInv'
  <2>1. /\ ticks' = ticks /\ buckets' = buckets /\ evaluated' = evaluated /\ events' = events
        /\ evaluation' = NoEvaluation /\ rule' = rule /\ alarms' = alarms /\ blind' = blind
    BY <1>8 DEF AnnounceResolve
  <2>2. missed' \in Nat
    BY <1>1, <1>8, MissCounts DEF AnnounceResolve
  <2> QED
    BY <1>1, <1>2, <2>1, <2>2, SameRecord
<1>9. ASSUME Unreadable
      PROVE  AlertInv'
  <2>1. /\ ticks' = ticks /\ buckets' = buckets /\ evaluated' = TRUE /\ events' = events
        /\ evaluation' = evaluation /\ alarms' = alarms /\ blind' = blind
    BY <1>9 DEF Unreadable, Begin, alertHistory
  <2>2. missed' \in Nat
    BY <1>1, <1>9, MissCounts DEF Unreadable
  <2>3. rule' \in RuleRows
    BY <1>1, <1>9, NoDataWritten DEF Unreadable
  <2> QED
    BY <1>1, <2>1, <2>2, <2>3, SameRecord
<1>10. ASSUME NoEpisode
       PROVE  AlertInv'
  <2>1. /\ ticks' = ticks /\ buckets' = buckets /\ evaluated' = TRUE /\ events' = events
        /\ evaluation' = evaluation /\ rule' = rule /\ alarms' = alarms /\ blind' = blind
    BY <1>10 DEF NoEpisode, Begin, alertHistory
  <2>2. missed' \in Nat
    BY <1>1, <1>10, MissCounts DEF NoEpisode
  <2> QED
    BY <1>1, <2>1, <2>2, SameRecord
<1>11. ASSUME SetAlertRuleEnabled
       PROVE  AlertInv'
  <2>1. /\ ticks' = ticks /\ buckets' = buckets /\ evaluated' = evaluated /\ events' = events
        /\ evaluation' = evaluation /\ missed' = missed /\ alarms' = alarms /\ blind' = blind
    BY <1>11 DEF SetAlertRuleEnabled, alertHistory
  <2>2. rule' \in RuleRows
    BY <1>1, <1>11 DEF SetAlertRuleEnabled, RuleRows
  <2> QED
    BY <1>1, <2>1, <2>2, SameRecord
<1>12. ASSUME EvaluatorStops
       PROVE  AlertInv'
  <2>1. /\ ticks' = ticks /\ buckets' = buckets /\ evaluated' = evaluated /\ events' = events
        /\ evaluation' = NoEvaluation /\ rule' = rule /\ alarms' = alarms /\ blind' = blind
    BY <1>12 DEF EvaluatorStops, alertHistory
  <2>2. missed' \in Nat
    BY <1>1, <1>12, MissCounts DEF EvaluatorStops
  <2> QED
    BY <1>1, <1>2, <2>1, <2>2, SameRecord
<1> QED
  BY <1>5, <1>6, <1>7, <1>8, <1>9, <1>10, <1>11, <1>12

\* Closing an episode changes nothing of what is counted.
LEMMA ResolveKeeps ==
  ASSUME AlertsAssumption, AlertInv, NEW bad \in BOOLEAN, ResolveEpisode(bad)
  PROVE  AlertInv'
<1>1. /\ ticks' = ticks /\ buckets' = buckets /\ evaluated' = TRUE /\ rule' = rule
      /\ alarms' = alarms /\ blind' = blind /\ evaluation = NoEvaluation
  BY DEF ResolveEpisode, Begin, alertHistory
<1>2. /\ ticks \in 0..MaxTick /\ buckets \in [1..Window -> Bucket] /\ rule \in RuleRows
      /\ events \in Seq(EpisodeRows) /\ evaluation \in Evaluations /\ missed \in Nat
  BY AlertTypes
<1>3. missed' \in Nat
  BY <1>2, MissCounts DEF ResolveEpisode
<1>4. evaluation' \in Evaluations /\ evaluation'.step \notin {"opened", "fired"}
  <2>1. rule.state \in {"ok", "firing", "no_data", "flapping"}
    BY <1>2 DEF RuleRows
  <2>2. CASE evaluation' = evaluation
    BY <1>1, <1>2, <2>2 DEF NoEvaluation
  <2>3. CASE evaluation' = [NoEvaluation EXCEPT !.step = "closed", !.was = rule.state]
    BY <2>1, <2>3 DEF NoEvaluation, Evaluations
  <2> QED
    BY <2>2, <2>3 DEF ResolveEpisode
<1>5. /\ events' \in Seq(EpisodeRows) /\ DOMAIN events' = DOMAIN events
      /\ \A i \in DOMAIN events : events'[i].at = events[i].at /\ events'[i].delivered = events[i].delivered
  <2>1. CASE events' = events
    BY <1>2, <2>1
  <2>2. CASE OpenEvents # {} /\ events' = [events EXCEPT ![Newest(OpenEvents)].open = FALSE]
    <3>1. PICK k : k = Newest(OpenEvents)
      OBVIOUS
    <3>2. events' = [events EXCEPT ![k] = [events[k] EXCEPT !.open = FALSE]]
      BY <2>2, <3>1
    <3>3. ASSUME NEW i \in DOMAIN events
          PROVE  /\ events[i] \in EpisodeRows /\ [events[i] EXCEPT !.open = FALSE] \in EpisodeRows
                 /\ [events[i] EXCEPT !.open = FALSE].at = events[i].at
                 /\ [events[i] EXCEPT !.open = FALSE].delivered = events[i].delivered
      <4>1. events[i] \in EpisodeRows
        BY <1>2
      <4> QED
        BY <4>1 DEF EpisodeRows
    <3>4. DOMAIN events' = DOMAIN events
      BY <1>2, <3>2
    <3>5. \A i \in DOMAIN events : events'[i] = IF i = k THEN [events[i] EXCEPT !.open = FALSE] ELSE events[i]
      BY <1>2, <3>2
    <3>6. \A i \in DOMAIN events :
            /\ events'[i] \in EpisodeRows
            /\ events'[i].at = events[i].at /\ events'[i].delivered = events[i].delivered
      BY <3>3, <3>5
    <3>7. events \in [1..Len(events) -> EpisodeRows] /\ Len(events) \in Nat
      BY <1>2
    <3>8. events' \in [1..Len(events) -> EpisodeRows]
      BY <3>2, <3>3, <3>7
    <3>9. events' \in Seq(EpisodeRows)
      BY <3>7, <3>8
    <3> QED
      BY <3>4, <3>6, <3>9
  <2> QED
    BY <2>1, <2>2 DEF ResolveEpisode
<1>6. EpisodesInOrder' /\ DeliveredIsCounted' /\ AlarmsOnRecord'
  <2>1. ticks' \in 0..MaxTick /\ ticks <= ticks'
    BY <1>1, <1>2 DEF AlertsAssumption
  <2> QED
    BY <1>1, <1>4, <1>5, <2>1, RecordKept
<1>7. AlertsTypeOK' /\ EvaluationOK'
  BY <1>1, <1>2, <1>3, <1>4, <1>5 DEF AlertsTypeOK, EvaluationOK, RuleRows, EpisodeRows, Evaluations
<1> QED
  BY <1>6, <1>7 DEF AlertInv

\* An alarm goes out: its episode is on record.
LEMMA AnnounceKeeps ==
  ASSUME AlertsAssumption, AlertInv, NEW bad \in BOOLEAN, AnnounceFire(bad)
  PROVE  AlertInv'
<1>1. /\ ticks' = ticks /\ buckets' = buckets /\ evaluated' = evaluated /\ rule' = rule
      /\ events' = events /\ evaluation.step = "fired" /\ evaluation' = NoEvaluation
  BY DEF AnnounceFire
<1>2. blind' = blind
  BY DEF AnnounceFire, alertHistory
<1>3. alarms' = alarms \/ (evaluation.deliver /\ alarms' = alarms \cup {ticks})
  BY Zenon DEF AnnounceFire, alertHistory
<1>4. /\ ticks \in 0..MaxTick /\ events \in Seq(EpisodeRows) /\ missed \in Nat
  BY AlertTypes
<1>5. missed' \in Nat
  BY <1>4, MissCounts DEF AnnounceFire
<1>6. EpisodesInOrder'
  <2>1. evaluation'.step \notin {"opened", "fired"}
    BY <1>1 DEF NoEvaluation
  <2> QED
    BY <1>1, <2>1 DEF AlertInv, EpisodesInOrder
<1>7. DeliveredIsCounted'
  BY <1>1, <1>2, Zenon DEF AlertInv, DeliveredIsCounted, Before
<1>8. AlarmsOnRecord'
  <2>1. \A t \in alarms : \E i \in DOMAIN events : events[i].at = t /\ events[i].delivered
    BY DEF AlertInv, AlarmsOnRecord
  <2>2. /\ events # <<>> /\ events[Len(events)].at = ticks
        /\ events[Len(events)].delivered = evaluation.deliver
    BY <1>1 DEF AlertInv, EpisodesInOrder
  <2>3. Len(events) \in DOMAIN events
    BY <1>4, <2>2
  <2>4. evaluation.deliver => \E i \in DOMAIN events : events[i].at = ticks /\ events[i].delivered
    BY <2>2, <2>3, Zenon
  <2>5. \A t \in alarms' : \E i \in DOMAIN events : events[i].at = t /\ events[i].delivered
    BY <1>3, <2>1, <2>4, Zenon
  <2> QED
    BY <1>1, <2>5, Zenon DEF AlarmsOnRecord
<1>9. AlertsTypeOK' /\ EvaluationOK'
  <2>1. NoEvaluation \in Evaluations
    BY DEF NoEvaluation, Evaluations
  <2> QED
    BY <1>1, <1>5, <2>1, AlertTypes DEF AlertsTypeOK, EvaluationOK, RuleRows, EpisodeRows, Evaluations
<1> QED
  BY <1>6, <1>7, <1>8, <1>9 DEF AlertInv

\* An episode is opened: unless counting failed, what its evaluation counted is exactly
\* what is before it on record.
LEMMA OpenKeeps ==
  ASSUME AlertsAssumption, AlertInv, NEW uncounted \in BOOLEAN, OpenEpisode(uncounted)
  PROVE  AlertInv'
<1>1. PICK counted : counted = IF uncounted THEN 0 ELSE CountAlertEpisodesSince(ticks)
  OBVIOUS
<1>2. PICK held : held = (rule.rearm # Unset /\ ticks < rule.rearm)
  OBVIOUS
<1>3. PICK flaps : flaps = Flapping(counted)
  OBVIOUS
<1>4. PICK deliver : deliver = (~flaps /\ ~held)
  OBVIOUS
<1>5. flaps \in BOOLEAN /\ deliver \in BOOLEAN
  <2>1. flaps \in BOOLEAN
    BY <1>3 DEF Flapping
  <2>2. deliver \in BOOLEAN
    BY <1>4
  <2> QED
    BY <2>1, <2>2
<1>6. PICK row : row = [at |-> ticks, open |-> TRUE, delivered |-> deliver]
  OBVIOUS
<1>7. /\ ticks' = ticks /\ buckets' = buckets /\ rule' = rule /\ alarms' = alarms
      /\ evaluated' = TRUE /\ Miss(uncounted) /\ events' = Append(events, row)
      /\ evaluation' = [step |-> "opened", was |-> rule.state, flapping |-> flaps, deliver |-> deliver]
  BY <1>1, <1>2, <1>3, <1>4, <1>6, Zenon DEF OpenEpisode, Begin
<1>8. blind' = (blind \/ uncounted)
  BY Zenon DEF OpenEpisode
<1>9. /\ ticks \in 0..MaxTick /\ buckets \in [1..Window -> Bucket] /\ rule \in RuleRows
      /\ events \in Seq(EpisodeRows) /\ missed \in Nat /\ FlapWindow \in Nat /\ MaxTick \in Nat
  BY AlertTypes DEF AlertsAssumption
<1>10. missed' \in Nat
  BY <1>7, <1>9, MissCounts
<1>11. row \in EpisodeRows /\ row.at = ticks /\ row.delivered = deliver
  BY <1>5, <1>6, <1>9 DEF EpisodeRows
<1>12. PICK n : n = Len(events)
  OBVIOUS
<1>13. n \in Nat /\ DOMAIN events = 1..n
  BY <1>9, <1>12
<1>14. /\ events' \in Seq(EpisodeRows) /\ Len(events') = n + 1 /\ DOMAIN events' = 1..(n + 1)
       /\ events'[n + 1] = row /\ \A i \in 1..n : events'[i] = events[i]
  BY <1>7, <1>9, <1>11, <1>12
<1>15. /\ \A i \in 1..n : events[i].at <= ticks
       /\ \A i, j \in 1..n : i <= j => events[i].at <= events[j].at
  BY <1>13 DEF AlertInv, EpisodesInOrder
<1>16. \A i \in 1..(n + 1) : i \in 1..n \/ i = n + 1
  BY <1>13
<1>17. EpisodesInOrder'
  <2>1. \A i \in DOMAIN events' : events'[i].at <= ticks'
    BY <1>7, <1>9, <1>11, <1>14, <1>15, <1>16
  <2>2. \A i, j \in DOMAIN events' : i <= j => events'[i].at <= events'[j].at
    <3> SUFFICES ASSUME NEW i \in 1..(n + 1), NEW j \in 1..(n + 1), i <= j
                 PROVE  events'[i].at <= events'[j].at
      BY <1>14
    <3>1. CASE j = n + 1
      <4>1. events'[j].at = ticks /\ events'[i].at <= ticks
        BY <1>7, <1>11, <1>14, <2>1, <3>1
      <4> QED
        BY <4>1
    <3>2. CASE j \in 1..n
      <4>1. i \in 1..n
        BY <1>13, <3>2
      <4> QED
        BY <1>14, <1>15, <3>2, <4>1
    <3> QED
      BY <1>16, <3>1, <3>2
  <2>3. /\ events' # <<>> /\ events'[Len(events')].at = ticks'
        /\ events'[Len(events')].delivered = evaluation'.deliver
    <3>1. events' # <<>>
      BY <1>13, <1>14
    <3>2. evaluation'.deliver = deliver
      BY <1>7
    <3> QED
      BY <1>7, <1>11, <1>14, <3>1, <3>2
  <2> QED
    BY <2>1, <2>2, <2>3 DEF EpisodesInOrder
<1>18. ASSUME NEW i \in 1..n
       PROVE  Before(i)' = Before(i)
  <2>1. \A j \in 1..(i - 1) : j \in 1..n
    BY <1>13
  <2>2. \A j \in 1..(i - 1) : events'[j] = events[j]
    BY <1>14, <2>1
  <2>3. events'[i] = events[i]
    BY <1>14
  <2> QED
    BY <2>2, <2>3 DEF Before
<1>19. Before(n + 1)' = {i \in DOMAIN events : events[i].at + FlapWindow >= ticks}
  <2>1. (n + 1) - 1 = n
    BY <1>13
  <2>2. Before(n + 1)' = {j \in 1..n : events'[j].at + FlapWindow >= events'[n + 1].at}
    BY <2>1 DEF Before
  <2> QED
    BY <1>11, <1>13, <1>14, <2>2
<1>20. DeliveredIsCounted'
  <2>1. CASE blind'
    BY <2>1, Zenon DEF DeliveredIsCounted
  <2>2. CASE ~blind'
    <3>1. ~blind /\ ~uncounted
      BY <1>8, <2>2, Zenon
    <3>2. counted = Cardinality(Before(n + 1)')
      BY <1>1, <1>19, <3>1, Zenon DEF CountAlertEpisodesSince
    <3>3. deliver => ~Flapping(counted)
      BY <1>3, <1>4, Zenon
    <3>4. \A i \in 1..n : events[i].delivered => ~Flapping(Cardinality(Before(i)))
      BY <1>13, <3>1, Zenon DEF AlertInv, DeliveredIsCounted
    <3>5. ASSUME NEW i \in 1..n
          PROVE  events'[i].delivered => ~Flapping(Cardinality(Before(i)'))
      BY <1>14, <1>18, <3>4, Zenon
    <3>6. events'[n + 1].delivered => ~Flapping(Cardinality(Before(n + 1)'))
      BY <1>11, <1>14, <3>2, <3>3, Zenon
    <3>7. \A i \in DOMAIN events' : events'[i].delivered => ~Flapping(Cardinality(Before(i)'))
      BY <1>14, <1>16, <3>5, <3>6, Zenon
    <3>8. \A i \in DOMAIN events' : events'[i].delivered => ~Flapping(Cardinality(Before(i)))'
      BY <3>7, Zenon DEF Flapping
    <3> QED
      BY <3>8, Zenon DEF DeliveredIsCounted
  <2> QED
    BY <2>1, <2>2, Zenon
<1>21. AlarmsOnRecord'
  <2>1. \A t \in alarms : \E i \in 1..n : events[i].at = t /\ events[i].delivered
    BY <1>13 DEF AlertInv, AlarmsOnRecord
  <2>2. 1..n \subseteq 1..(n + 1)
    BY <1>13
  <2>3. \A t \in alarms' : \E i \in DOMAIN events' : events'[i].at = t /\ events'[i].delivered
    <3> SUFFICES ASSUME NEW t \in alarms
                 PROVE  \E i \in DOMAIN events' : events'[i].at = t /\ events'[i].delivered
      BY <1>7
    <3>1. PICK i \in 1..n : events[i].at = t /\ events[i].delivered
      BY <2>1
    <3>2. i \in DOMAIN events' /\ events'[i] = events[i]
      BY <1>14, <2>2
    <3> QED
      BY <3>1, <3>2, Zenon
  <2> QED
    BY <2>3, Zenon DEF AlarmsOnRecord
<1>22. AlertsTypeOK' /\ EvaluationOK'
  <2>1. evaluation' \in Evaluations
    <3>1. rule.state \in {"ok", "firing", "no_data", "flapping"}
      BY <1>9 DEF RuleRows
    <3> QED
      BY <1>5, <1>7, <3>1 DEF Evaluations
  <2> QED
    BY <1>7, <1>9, <1>10, <1>14, <2>1 DEF AlertsTypeOK, EvaluationOK, RuleRows, EpisodeRows, Evaluations
<1> QED
  BY <1>17, <1>20, <1>21, <1>22, Zenon DEF AlertInv

\* A fresh rule: nothing is on record.
LEMMA AlertsStart == AlertsAssumption /\ AlertsInit => AlertInv
<1> SUFFICES ASSUME AlertsAssumption, AlertsInit
             PROVE  AlertInv
  OBVIOUS
<1>1. /\ ticks = 0 /\ buckets = [i \in 1..Window |-> "none"] /\ evaluated = TRUE
      /\ rule = [enabled |-> TRUE, state |-> "no_data", since |-> 0, rearm |-> Unset, quiet |-> Unset]
      /\ events = <<>> /\ evaluation = NoEvaluation /\ missed = 0 /\ alarms = {}
  BY DEF AlertsInit
<1>2. 0 \in 0..MaxTick /\ Unset \in 0..Unset
  BY DEF AlertsAssumption, Unset
<1>3. buckets \in [1..Window -> Bucket]
  BY <1>1 DEF Bucket
<1>4. AlertsTypeOK
  BY <1>1, <1>2, <1>3 DEF AlertsTypeOK, NoEvaluation
<1>5. EvaluationOK
  BY <1>1 DEF EvaluationOK, NoEvaluation
<1>6. DOMAIN events = {}
  BY <1>1
<1>7. EpisodesInOrder
  BY <1>1, <1>6 DEF EpisodesInOrder, NoEvaluation
<1>8. DeliveredIsCounted
  BY <1>6, Zenon DEF DeliveredIsCounted
<1>9. AlarmsOnRecord
  BY <1>1 DEF AlarmsOnRecord
<1> QED
  BY <1>4, <1>5, <1>7, <1>8, <1>9, Zenon DEF AlertInv

\* A step that changes nothing.
LEMMA AlertsStutter ==
  ASSUME AlertInv, UNCHANGED alertVars
  PROVE  AlertInv'
<1>1. /\ ticks' = ticks /\ buckets' = buckets /\ evaluated' = evaluated /\ rule' = rule
      /\ events' = events /\ evaluation' = evaluation /\ missed' = missed
      /\ alarms' = alarms /\ blind' = blind
  BY DEF alertVars, alertHistory
<1>2. AlertsTypeOK' /\ EvaluationOK' /\ EpisodesInOrder' /\ AlarmsOnRecord'
  BY <1>1 DEF AlertInv, AlertsTypeOK, EvaluationOK, EpisodesInOrder, AlarmsOnRecord
<1>3. DeliveredIsCounted'
  BY <1>1, Zenon DEF AlertInv, DeliveredIsCounted, Before
<1> QED
  BY <1>2, <1>3, Zenon DEF AlertInv

\* Every step keeps the invariant of the alerts.
LEMMA AlertsStepHolds == AlertInv /\ [AlertsNext]_alertVars => AlertInv'
<1> SUFFICES ASSUME AlertInv, [AlertsNext]_alertVars
             PROVE  AlertInv'
  OBVIOUS
<1>1. CASE UNCHANGED alertVars
  BY <1>1, AlertsStutter
<1>2. ASSUME NEW b \in Bucket \cup {"same"}, Minute(b)
      PROVE  AlertInv'
  BY <1>2, AlertsAssumption, MinuteKeeps
<1>3. ASSUME NEW bad \in BOOLEAN, OpenEpisode(bad)
      PROVE  AlertInv'
  BY <1>3, AlertsAssumption, OpenKeeps
<1>4. ASSUME NEW bad \in BOOLEAN, AnnounceFire(bad)
      PROVE  AlertInv'
  BY <1>4, AlertsAssumption, AnnounceKeeps
<1>5. ASSUME NEW bad \in BOOLEAN, ResolveEpisode(bad)
      PROVE  AlertInv'
  BY <1>5, AlertsAssumption, ResolveKeeps
<1>6. CASE \/ \E bad \in BOOLEAN : EnterNoData(bad) \/ RecordFire(bad) \/ RecordResolve(bad) \/ AnnounceResolve(bad)
           \/ Unreadable \/ NoEpisode \/ SetAlertRuleEnabled \/ EvaluatorStops
  BY <1>6, AlertsAssumption, QuietSteps
<1> QED
  BY <1>1, <1>2, <1>3, <1>4, <1>5, <1>6, Zenon DEF AlertsNext

\* Through every evaluation that is cut short, every write and message that fails and every
\* stop of the plane, the episodes are on record in order, each announced one counted few
\* before it, and each alarm has its episode (alerts.go: evaluateRule, fire, resolve).
THEOREM AlertInvariance == AlertsSpec => []AlertInv
<1>1. AlertsInit => AlertInv
  BY AlertsAssumption, AlertsStart
<1> QED
  BY <1>1, AlertsStepHolds, PTL DEF AlertsSpec

\* Fewer than FlapEpisodes alarms go out in any FlapWindow, unless counting the episodes
\* has failed (alerts.go, the flap guard of fire).
THEOREM FlapGuardAlways == AlertsSpec => []FlapGuardHolds
<1>1. AlertInv => FlapGuardHolds
  BY AlertsAssumption, GuardFromInv
<1> QED
  BY <1>1, AlertInvariance, PTL

-----------------------------------------------------------------------------
(* When a recovery is told.                                                *)

\* A step that leaves the evaluation, the rule's state and the last message alone.
LEMMA AlarmKept ==
  ASSUME AlarmIsOfEpisode, evaluation' = evaluation, rule'.state = rule.state, told' = told
  PROVE  AlarmIsOfEpisode'
  BY DEF AlarmIsOfEpisode

\* A call that is not missed went well.
LEMMA MissedNone ==
  ASSUME missed \in Nat, NEW bad \in BOOLEAN, Miss(bad), missed' = missed
  PROVE  ~bad
<1>1. CASE bad = TRUE
  BY <1>1 DEF Miss
<1> QED
  BY <1>1, Zenon

\* While no call is missed and no firing rule is taken for one without data, an alarm that
\* nothing was said of since is the alarm of the episode the rule is in.
LEMMA AlarmStep ==
  AlertInv /\ AlarmIsOfEpisode /\ [AlertsNext]_alertVars /\ [Unbroken]_alertVars => AlarmIsOfEpisode'
<1> SUFFICES ASSUME AlertInv, AlarmIsOfEpisode, [AlertsNext]_alertVars, [Unbroken]_alertVars
             PROVE  AlarmIsOfEpisode'
  OBVIOUS
<1>t. rule \in RuleRows /\ evaluation \in Evaluations /\ missed \in Nat
  BY AlertTypes
<1>n. NoEvaluation.step = "none"
  BY DEF NoEvaluation
<1>1. CASE UNCHANGED alertVars
  BY <1>1, AlarmKept DEF alertVars, alertHistory
<1> SUFFICES ASSUME AlertsNext, Unbroken
             PROVE  AlarmIsOfEpisode'
  BY <1>1
<1>u. missed' = missed /\ ~(rule.state = "firing" /\ rule'.state = "no_data")
  BY DEF Unbroken
<1>m. ASSUME NEW bad \in BOOLEAN, Miss(bad)
      PROVE  ~bad
  BY <1>m, <1>t, <1>u, MissedNone
<1>2. ASSUME NEW b \in Bucket \cup {"same"}, Minute(b)
      PROVE  AlarmIsOfEpisode'
  BY <1>2, AlarmKept DEF Minute, alertHistory
<1>3. ASSUME NEW bad \in BOOLEAN, EnterNoData(bad)
      PROVE  AlarmIsOfEpisode'
  <2>1. evaluation = NoEvaluation /\ evaluation' = evaluation /\ told' = told /\ NoData(bad)
    BY <1>3 DEF EnterNoData, Begin, alertHistory
  <2>2. rule'.state = rule.state \/ rule'.state = "no_data"
    BY <1>t, <2>1 DEF NoData, SetAlertRuleState, RuleRows
  <2>3. rule.state = "firing" => rule'.state = "firing"
    BY <1>u, <2>2
  <2> QED
    BY <1>n, <2>1, <2>3 DEF AlarmIsOfEpisode
<1>4. ASSUME NEW uncounted \in BOOLEAN, OpenEpisode(uncounted)
      PROVE  AlarmIsOfEpisode'
  <2>1. PICK flaps, deliver \in BOOLEAN :
          /\ evaluation' = [step |-> "opened", was |-> rule.state, flapping |-> flaps, deliver |-> deliver]
          /\ ~(deliver /\ flaps)
    <3>1. PICK counted : counted = IF uncounted THEN 0 ELSE CountAlertEpisodesSince(ticks)
      OBVIOUS
    <3>2. PICK deliver \in BOOLEAN :
            deliver <=> (~Flapping(counted) /\ ~(rule.rearm # Unset /\ ticks < rule.rearm))
      BY Zenon
    <3>3. Flapping(counted) \in BOOLEAN
      BY DEF Flapping
    <3>4. evaluation' = [step |-> "opened", was |-> rule.state,
                         flapping |-> Flapping(counted), deliver |-> deliver]
      BY <1>4, <3>1, <3>2 DEF OpenEpisode
    <3> QED
      BY <3>2, <3>3, <3>4, Zenon
  <2>2. evaluation = NoEvaluation /\ rule.state # "firing" /\ told' = told
    BY <1>4 DEF OpenEpisode, Begin
  <2>3. told # "firing"
    BY <1>n, <2>2 DEF AlarmIsOfEpisode
  <2>4. evaluation'.step = "opened" /\ ~(evaluation'.deliver /\ evaluation'.flapping)
    BY <2>1
  <2> QED
    BY <2>2, <2>3, <2>4 DEF AlarmIsOfEpisode
<1>5. ASSUME NEW bad \in BOOLEAN, RecordFire(bad)
      PROVE  AlarmIsOfEpisode'
  <2>1. ~bad
    BY <1>5, <1>m DEF RecordFire
  <2>2. /\ evaluation.step = "opened" /\ told' = told
        /\ evaluation' = [evaluation EXCEPT !.step = "fired"]
        /\ rule'.state = IF evaluation.flapping THEN "flapping" ELSE "firing"
    BY <1>5, <1>t, <2>1 DEF RecordFire, SetAlertRuleState, alertHistory, RuleRows
  <2>3. told # "firing" /\ ~(evaluation.deliver /\ evaluation.flapping)
    BY <2>2 DEF AlarmIsOfEpisode
  <2>4. /\ evaluation'.step = "fired" /\ evaluation'.deliver = evaluation.deliver
        /\ evaluation'.flapping = evaluation.flapping
    BY <1>t, <2>2 DEF Evaluations
  <2>5. evaluation'.deliver => rule'.state = "firing"
    BY <2>2, <2>3, <2>4
  <2> QED
    BY <2>2, <2>3, <2>4, <2>5 DEF AlarmIsOfEpisode
<1>6. ASSUME NEW bad \in BOOLEAN, AnnounceFire(bad)
      PROVE  AlarmIsOfEpisode'
  <2>1. evaluation.step = "fired" /\ evaluation' = NoEvaluation /\ rule' = rule
    BY <1>6 DEF AnnounceFire
  <2>2. told' = told \/ evaluation.deliver
    BY <1>6, Zenon DEF AnnounceFire, alertHistory
  <2>3. told # "firing" /\ (evaluation.deliver => rule.state = "firing")
    BY <2>1 DEF AlarmIsOfEpisode
  <2>4. told' = "firing" => rule'.state = "firing"
    BY <2>1, <2>2, <2>3
  <2> QED
    BY <1>n, <2>1, <2>4 DEF AlarmIsOfEpisode
<1>7. ASSUME NEW bad \in BOOLEAN, ResolveEpisode(bad)
      PROVE  AlarmIsOfEpisode'
  <2>1. evaluation = NoEvaluation /\ rule' = rule /\ told' = told
    BY <1>7 DEF ResolveEpisode, Begin, alertHistory
  <2>2. told = "firing" => rule.state = "firing"
    BY <1>n, <2>1 DEF AlarmIsOfEpisode
  <2>3. CASE evaluation' = evaluation
    BY <2>1, <2>3, AlarmKept
  <2>4. CASE evaluation' = [NoEvaluation EXCEPT !.step = "closed", !.was = rule.state]
    <3>1. evaluation'.step = "closed" /\ evaluation'.was = rule.state
      BY <2>4 DEF NoEvaluation
    <3> QED
      BY <2>1, <2>2, <3>1 DEF AlarmIsOfEpisode
  <2> QED
    BY <1>7, <2>3, <2>4 DEF ResolveEpisode
<1>8. ASSUME NEW bad \in BOOLEAN, RecordResolve(bad)
      PROVE  AlarmIsOfEpisode'
  <2>1. evaluation.step = "closed" /\ evaluation' = [evaluation EXCEPT !.step = "resolved"] /\ told' = told
    BY <1>8 DEF RecordResolve, alertHistory
  <2>2. evaluation'.step = "resolved" /\ evaluation'.was = evaluation.was
    BY <1>t, <2>1 DEF Evaluations
  <2> QED
    BY <2>1, <2>2 DEF AlarmIsOfEpisode
<1>9. ASSUME NEW bad \in BOOLEAN, AnnounceResolve(bad)
      PROVE  AlarmIsOfEpisode'
  <2>1. ~bad
    BY <1>9, <1>m DEF AnnounceResolve
  <2>2. /\ evaluation.step = "resolved" /\ evaluation' = NoEvaluation
        /\ told' = IF evaluation.was = "firing" THEN "resolved" ELSE told
    BY <1>9, <2>1 DEF AnnounceResolve
  <2>3. told' # "firing"
    BY <2>2 DEF AlarmIsOfEpisode
  <2> QED
    BY <1>n, <2>2, <2>3 DEF AlarmIsOfEpisode
<1>10. CASE Unreadable \/ EvaluatorStops
  <2>1. missed' = missed + 1
    BY <1>10 DEF Unreadable, EvaluatorStops, Miss
  <2> QED
    BY <1>t, <1>u, <2>1
<1>11. CASE NoEpisode
  BY <1>11, AlarmKept DEF NoEpisode, alertHistory
<1>12. CASE SetAlertRuleEnabled
  <2>1. rule'.state = rule.state
    BY <1>12, <1>t DEF SetAlertRuleEnabled, RuleRows
  <2> QED
    BY <1>12, <2>1, AlarmKept DEF SetAlertRuleEnabled, alertHistory
<1> QED
  BY <1>2, <1>3, <1>4, <1>5, <1>6, <1>7, <1>8, <1>9, <1>10, <1>11, <1>12, Zenon DEF AlertsNext

\* A rule that is ok again after an alarm has said so in every run in which no call is
\* missed, no evaluation is cut short and no firing rule is taken for one without data
\* (alerts.go: evaluateRule, enterNoData, resolve): the two ways out of RecoveryIsTold are
\* the only ones.
THEOREM RecoveryToldUnbroken == AlertsSpec /\ [][Unbroken]_alertVars => []RecoveryIsTold
<1>1. AlertsInit => AlarmIsOfEpisode
  BY DEF AlertsInit, AlarmIsOfEpisode, NoEvaluation
<1>2. AlarmIsOfEpisode => RecoveryIsTold
  BY DEF AlarmIsOfEpisode, RecoveryIsTold, NoEvaluation
<1> QED
  BY <1>1, <1>2, AlertInvariance, AlarmStep, PTL DEF AlertsSpec

-----------------------------------------------------------------------------
(* Scheduled tasks.                                                        *)

\* Schedule.Next is after the time it is asked about, by at most one period.
LEMMA OccurrenceAfter ==
  ASSUME NEW p \in Nat \ {0}, NEW time \in Nat
  PROVE  /\ Occurrence(p, time) \in Nat
         /\ time < Occurrence(p, time) /\ Occurrence(p, time) <= time + p
<1> DEFINE q == time \div p
<1>1. q \in Nat
  OBVIOUS
<1>2. p * q <= time /\ time < p * q + p
  OBVIOUS
<1>3. Occurrence(p, time) = p * q + p
  BY <1>1 DEF Occurrence
<1> QED
  BY <1>1, <1>2, <1>3

\* The fields of an entry; a schedule of 0 is that of no entry.
LEMMA EntryFields ==
  ASSUME NEW e \in Entries \cup {Shared}
  PROVE  /\ e.period \in Nat /\ e.next \in Nat
         /\ e.period = 0 <=> e \in {Unarmed, Shared}
         /\ e.period # 0 => e \in [period : Periods, next : Nat]
<1>1. CASE e \in [period : Periods, next : Nat]
  <2>1. e.period \in Nat \ {0} /\ e.next \in Nat
    BY <1>1, CronAssumption
  <2>2. Unarmed.period = 0 /\ Shared.period = 0
    BY DEF Unarmed, Shared
  <2> QED
    BY <1>1, <2>1, <2>2
<1>2. CASE e \in {Unarmed, Shared}
  BY <1>2 DEF Unarmed, Shared
<1> QED
  BY <1>1, <1>2 DEF Entries

\* What every entry of the two sets is made of, in a state of the invariant.
LEMMA SetFields ==
  ASSUME CronTypeOK, NEW t \in Tasks
  PROVE  /\ armed[t] \in Entries /\ fresh[t] \in Entries \cup {Shared}
         /\ armed[t].period \in Nat /\ armed[t].next \in Nat
         /\ fresh[t].period \in Nat /\ fresh[t].next \in Nat
         /\ armed[t].period = 0 <=> armed[t] = Unarmed
         /\ armed[t] # Unarmed => armed[t] \in [period : Periods, next : Nat]
<1>1. armed[t] \in Entries /\ fresh[t] \in Entries \cup {Shared}
  BY DEF CronTypeOK
<1>2. armed[t] # Shared
  <2>1. Shared \notin [period : Periods, next : Nat]
    BY CronAssumption DEF Shared
  <2>2. Shared # Unarmed
    BY DEF Shared, Unarmed
  <2> QED
    BY <1>1, <2>1, <2>2 DEF Entries
<1> QED
  BY <1>1, <1>2, EntryFields

\* Sync's reading of the armed set: a task with the schedule it is armed with keeps its
\* entry, any other is armed from now on.
LEMMA SyncReadHolds == CronInv /\ SyncRead => CronInv'
<1> SUFFICES ASSUME CronInv, SyncRead
             PROVE  CronInv'
  OBVIOUS
<1> USE CronAssumption
<1>u. UNCHANGED <<clock, asked, armed, running, execs, fired, twice>>
  BY DEF SyncRead
<1>t. CronTypeOK /\ clock \in Nat
  BY DEF CronInv
<1>f. \A t \in Tasks :
        \/ fresh'[t] \in {Unarmed, Shared}
        \/ /\ asked[t] \in Periods /\ asked[t] # armed[t].period
           /\ fresh'[t] = [period |-> asked[t], next |-> Occurrence(asked[t], clock)]
  BY <1>t DEF SyncRead, matchUnchanged, CronTypeOK
<1>1. ASSUME NEW t \in Tasks
      PROVE  /\ fresh'[t] \in Entries \cup {Shared}
             /\ fresh'[t].period # 0 => /\ fresh'[t].period # armed[t].period
                                        /\ clock < fresh'[t].next
                                        /\ fresh'[t].next <= clock + fresh'[t].period
  <2>1. CASE fresh'[t] \in {Unarmed, Shared}
    BY <2>1, EntryFields DEF Entries
  <2>2. CASE /\ asked[t] \in Periods /\ asked[t] # armed[t].period
             /\ fresh'[t] = [period |-> asked[t], next |-> Occurrence(asked[t], clock)]
    <3>1. /\ Occurrence(asked[t], clock) \in Nat /\ clock < Occurrence(asked[t], clock)
          /\ Occurrence(asked[t], clock) <= clock + asked[t]
      BY <2>2, <1>t, OccurrenceAfter
    <3>2. fresh'[t].period = asked[t] /\ fresh'[t].next = Occurrence(asked[t], clock)
      BY <2>2
    <3>3. fresh'[t] \in [period : Periods, next : Nat]
      BY <2>2, <3>1
    <3> QED
      BY <2>2, <3>1, <3>2, <3>3 DEF Entries
  <2> QED
    BY <1>f, <2>1, <2>2
<1>2. fresh' \in [Tasks -> Entries \cup {Shared}]
  <2>1. DOMAIN fresh' = Tasks /\ fresh' = [t \in Tasks |-> fresh'[t]]
    BY DEF SyncRead
  <2> QED
    BY <1>1, <2>1
<1>3. CronTypeOK'
  BY <1>2, <1>t, <1>u DEF CronTypeOK
<1>4. ASSUME NEW t \in Tasks, NEW o \in fired[t], fresh'[t].period = o[1]
      PROVE  o[2] < fresh'[t].next
  <2>1. o[1] \in Nat \ {0} /\ o[2] \in 0..clock
    BY DEF CronInv
  <2>2. fresh'[t].next \in Nat
    BY <1>1, EntryFields
  <2> QED
    BY <2>1, <2>2, <1>1, <1>4, <1>t
<1>5. FiresAhead(fresh)'
  BY <1>4, <1>u DEF FiresAhead
<1>6. /\ clock' \in Nat /\ twice' = FALSE /\ GuardIsTrue' /\ FiresAhead(armed)'
      /\ \A t \in Tasks : fired'[t] \subseteq Periods \X (0..clock')
  BY <1>u DEF CronInv, GuardIsTrue, FiresAhead
<1> QED
  BY <1>1, <1>3, <1>5, <1>6, <1>u DEF CronInv

\* Sync's swap, later: the armed set fires ahead of everything that was fired while the
\* new one was being built.
LEMMA SyncSwapHolds == CronInv /\ SyncSwap => CronInv'
<1> SUFFICES ASSUME CronInv, SyncSwap
             PROVE  CronInv'
  OBVIOUS
<1> USE CronAssumption
<1>u. UNCHANGED <<clock, asked, running, execs, fired, twice>> /\ fresh' = NoSet
  BY DEF SyncSwap
<1>t. CronTypeOK /\ clock \in Nat
  BY DEF CronInv
<1>a. armed' = [t \in Tasks |-> IF fresh[t] = Shared THEN armed[t] ELSE fresh[t]]
  BY DEF SyncSwap
<1>n. \A t \in Tasks : fresh'[t] = Shared /\ fresh'[t].period = 0
  BY <1>u DEF NoSet, Shared
<1>0. fresh' \in [Tasks -> Entries \cup {Shared}]
  BY <1>u DEF NoSet
<1>1. ASSUME NEW t \in Tasks
      PROVE  /\ armed'[t] \in Entries
             /\ armed'[t] # Unarmed => armed'[t].next <= clock + armed'[t].period
             /\ \A o \in fired[t] : armed'[t].period = o[1] => o[2] < armed'[t].next
  <2>1. CASE fresh[t] = Shared
    BY <2>1, <1>a, <1>t, SetFields DEF CronInv, CronTypeOK, FiresAhead
  <2>2. CASE fresh[t] # Shared
    <3>1. armed'[t] = fresh[t] /\ fresh[t] \in Entries
      BY <2>2, <1>a, <1>t, SetFields
    <3>2. fresh[t] # Unarmed => fresh[t].period # 0
      BY <2>2, <1>t, SetFields, EntryFields
    <3>3. fresh[t].period # 0 => fresh[t].next <= clock + fresh[t].period
      BY DEF CronInv
    <3>4. \A o \in fired[t] : fresh[t].period = o[1] => o[2] < fresh[t].next
      BY DEF CronInv, FiresAhead
    <3> QED
      BY <3>1, <3>2, <3>3, <3>4
  <2> QED
    BY <2>1, <2>2
<1>2. armed' \in [Tasks -> Entries]
  BY <1>1, <1>a
<1>3. CronTypeOK'
  BY <1>0, <1>1, <1>2, <1>t, <1>u DEF CronTypeOK
<1>4. FiresAhead(armed)'
  BY <1>1, <1>u DEF FiresAhead
<1>5. FiresAhead(fresh)'
  <2>1. \A t \in Tasks : \A o \in fired[t] : o[1] # 0
    BY DEF CronInv
  <2> QED
    BY <2>1, <1>n, <1>u DEF FiresAhead
<1>6. /\ clock' \in Nat /\ twice' = FALSE /\ GuardIsTrue'
      /\ \A t \in Tasks : fired'[t] \subseteq Periods \X (0..clock')
  BY <1>u DEF CronInv, GuardIsTrue
<1> QED
  BY <1>n, <1>3, <1>4, <1>5, <1>6 DEF CronInv

\* One pass of the ticker: what it fires was never fired, and it leaves every task
\* armed for a later occurrence.
LEMMA FireDueHolds == CronInv /\ FireDue => CronInv'
<1> SUFFICES ASSUME CronInv, FireDue
             PROVE  CronInv'
  OBVIOUS
<1> USE CronAssumption
<1> DEFINE rung == {t \in Tasks : IsDue(t)}
           what(t) == <<armed[t].period, armed[t].next>>
<1>u. UNCHANGED <<clock, asked, fresh>>
  BY DEF FireDue
<1>t. CronTypeOK /\ clock \in Nat
  BY DEF CronInv
<1>d. ASSUME NEW t \in rung
      PROVE  /\ t \in Tasks /\ t \notin running /\ armed[t] # Unarmed
             /\ armed[t].next <= clock /\ armed[t].period \in Periods
             /\ armed[t].next \in Nat /\ armed[t] \in [period : Periods, next : Nat]
  <2>1. t \in Tasks /\ armed[t] # Unarmed /\ clock >= armed[t].next /\ t \notin running
    BY DEF IsDue
  <2>2. armed[t] \in [period : Periods, next : Nat]
    BY <2>1, <1>t, SetFields
  <2> QED
    BY <2>1, <2>2, <1>t
<1>a. ASSUME NEW t \in rung
      PROVE  /\ armed'[t] \in Entries /\ armed'[t].period = armed[t].period
             /\ armed'[t].next \in Nat /\ clock < armed'[t].next
             /\ armed'[t].next <= clock + armed'[t].period
  <2> DEFINE later == Occurrence(armed[t].period, clock)
  <2>1. later \in Nat /\ clock < later /\ later <= clock + armed[t].period
    BY <1>d, <1>t, OccurrenceAfter
  <2>2. armed'[t] = [armed[t] EXCEPT !.next = later]
    BY <1>d DEF FireDue
  <2> HIDE DEF later
  <2>3. /\ armed'[t] \in [period : Periods, next : Nat] /\ armed'[t].next = later
        /\ armed'[t].period = armed[t].period
    BY <1>d, <2>1, <2>2
  <2> QED
    BY <2>1, <2>3 DEF Entries
<1>b. ASSUME NEW t \in Tasks \ rung
      PROVE  armed'[t] = armed[t] /\ fired'[t] = fired[t] /\ execs'[t] = execs[t]
             /\ (t \in running' <=> t \in running)
  BY DEF FireDue
<1>c. ASSUME NEW t \in rung
      PROVE  fired'[t] = fired[t] \cup {what(t)} /\ execs'[t] = execs[t] + 1 /\ t \in running'
  BY <1>d DEF FireDue
<1>e. rung \subseteq Tasks
  OBVIOUS
<1> HIDE DEF rung
<1>1. armed' \in [Tasks -> Entries]
  <2>1. armed' = [t \in Tasks |-> armed'[t]]
    BY DEF FireDue
  <2>2. \A t \in Tasks : armed'[t] \in Entries
    BY <1>a, <1>b, <1>t, SetFields
  <2> QED
    BY <2>1, <2>2
<1>2. CronTypeOK'
  <2>1. running' \subseteq Tasks
    BY <1>t, <1>e DEF FireDue, CronTypeOK, rung
  <2>2. \A t \in Tasks : armed'[t] # Unarmed => armed'[t].next <= clock + armed'[t].period
    BY <1>a, <1>b, <1>t DEF CronTypeOK
  <2>3. asked' \in [Tasks -> Periods \cup {0}] /\ fresh' \in [Tasks -> Entries \cup {Shared}]
    BY <1>t, <1>u DEF CronTypeOK
  <2>4. execs' \in [Tasks -> Nat]
    <3>1. execs' = [t \in Tasks |-> execs'[t]]
      BY DEF FireDue
    <3>2. \A t \in Tasks : execs'[t] \in Nat
      BY <1>b, <1>c, <1>t DEF CronTypeOK
    <3> QED
      BY <3>1, <3>2
  <2> QED
    BY <1>1, <2>1, <2>2, <2>3, <2>4, <1>u DEF CronTypeOK
<1>3. GuardIsTrue'
  <2> SUFFICES ASSUME NEW t \in Tasks
               PROVE  execs'[t] = IF t \in running' THEN 1 ELSE 0
    BY DEF GuardIsTrue
  <2>1. execs[t] = IF t \in running THEN 1 ELSE 0
    BY DEF CronInv, GuardIsTrue
  <2> QED
    BY <2>1, <1>b, <1>c, <1>d
<1>4. ASSUME NEW t \in Tasks
      PROVE  fired'[t] \subseteq Periods \X (0..clock')
  <2>1. fired[t] \subseteq Periods \X (0..clock)
    BY DEF CronInv
  <2>2. CASE t \in rung
    <3>1. what(t) \in Periods \X (0..clock)
      BY <2>2, <1>d, <1>t
    <3> QED
      BY <2>1, <2>2, <3>1, <1>c, <1>u
  <2> QED
    BY <2>1, <2>2, <1>b, <1>u
<1>5. FiresAhead(armed)'
  <2> SUFFICES ASSUME NEW t \in Tasks, NEW o \in fired'[t], armed'[t].period = o[1]
               PROVE  o[2] < armed'[t].next
    BY DEF FiresAhead
  <2>1. CASE t \in rung
    <3>1. o[2] \in 0..clock
      BY <1>4, <1>u
    <3> QED
      BY <2>1, <3>1, <1>a, <1>t
  <2>2. CASE t \notin rung
    BY <2>2, <1>b DEF CronInv, FiresAhead
  <2> QED
    BY <2>1, <2>2
<1>6. FiresAhead(fresh)'
  <2> SUFFICES ASSUME NEW t \in Tasks, NEW o \in fired'[t], fresh[t].period = o[1]
               PROVE  o[2] < fresh[t].next
    BY <1>u DEF FiresAhead
  <2>1. CASE o \in fired[t]
    BY <2>1 DEF CronInv, FiresAhead
  <2>2. CASE t \in rung /\ o = what(t)
    <3>1. fresh[t].period = armed[t].period /\ fresh[t].period \in Periods
      BY <2>2, <1>d
    <3> QED
      BY <3>1 DEF CronInv
  <2> QED
    BY <2>1, <2>2, <1>b, <1>c
<1>7. twice' = FALSE
  <2>1. ASSUME NEW t \in rung
        PROVE  what(t) \notin fired[t]
    <3>1. SUFFICES ASSUME what(t) \in fired[t]
                   PROVE  FALSE
      OBVIOUS
    <3>2. armed[t].next < armed[t].next
      BY <3>1, <1>d DEF CronInv, FiresAhead
    <3> QED
      BY <3>2, <1>d
  <2>2. twice' = (twice \/ \E t \in rung : what(t) \in fired[t])
    BY DEF FireDue, rung
  <2>3. twice = FALSE
    BY DEF CronInv
  <2> QED
    BY <2>1, <2>2, <2>3
<1>8. ASSUME NEW t \in Tasks, fresh'[t].period # 0
      PROVE  /\ fresh'[t].period # armed'[t].period
             /\ fresh'[t].next <= clock' + fresh'[t].period
  <2>1. armed'[t].period = armed[t].period
    BY <1>a, <1>b
  <2> QED
    BY <2>1, <1>8, <1>u DEF CronInv
<1> QED
  BY <1>2, <1>3, <1>4, <1>5, <1>6, <1>7, <1>8, <1>t, <1>u DEF CronInv

\* Every step keeps the invariant.
LEMMA CronStepHolds == CronInv /\ [CronNext]_cronVars => CronInv'
<1> SUFFICES ASSUME CronInv, [CronNext]_cronVars
             PROVE  CronInv'
  OBVIOUS
<1> USE CronAssumption
<1>t. CronTypeOK /\ clock \in Nat
  BY DEF CronInv
<1>1. CASE ClockTicks
  <2>1. UNCHANGED <<asked, armed, fresh, running, execs, fired, twice>> /\ clock' = clock + 1
    BY <1>1 DEF ClockTicks
  <2>2. CronTypeOK'
    <3>1. \A t \in Tasks : armed[t] # Unarmed => armed[t].next <= clock + 1 + armed[t].period
      BY <1>t, SetFields DEF CronTypeOK
    <3> QED
      BY <2>1, <3>1, <1>t DEF CronTypeOK
  <2>3. \A t \in Tasks : fired'[t] \subseteq Periods \X (0..clock')
    <3>1. 0..clock \subseteq 0..clock'
      BY <2>1, <1>t
    <3> QED
      BY <2>1, <3>1 DEF CronInv
  <2>4. \A t \in Tasks : fresh[t].period # 0 =>
          fresh[t].period # armed[t].period /\ fresh[t].next <= clock + 1 + fresh[t].period
    BY <1>t, SetFields DEF CronInv
  <2> QED
    BY <2>1, <2>2, <2>3, <2>4, <1>t DEF CronInv, GuardIsTrue, FiresAhead
<1>2. CASE AgentRestarts
  <2>1. /\ UNCHANGED <<clock, asked, fired, twice>> /\ running' = {}
        /\ armed' = [t \in Tasks |-> Unarmed] /\ fresh' = NoSet /\ execs' = [t \in Tasks |-> 0]
    BY <1>2 DEF AgentRestarts
  <2>2. \A t \in Tasks : armed'[t] = Unarmed /\ fresh'[t] = Shared
    BY <2>1 DEF NoSet
  <2>3. Unarmed.period = 0 /\ Shared.period = 0
    BY DEF Unarmed, Shared
  <2>4. CronTypeOK'
    BY <2>1, <2>2, <1>t DEF CronTypeOK, NoSet, Entries
  <2>5. FiresAhead(armed)' /\ FiresAhead(fresh)'
    <3>1. \A t \in Tasks : \A o \in fired[t] : o[1] # 0
      BY DEF CronInv
    <3> QED
      BY <3>1, <2>1, <2>2, <2>3 DEF FiresAhead
  <2>6. GuardIsTrue'
    BY <2>1 DEF GuardIsTrue
  <2> QED
    BY <2>1, <2>2, <2>3, <2>4, <2>5, <2>6 DEF CronInv
<1>3. ASSUME NEW t \in Tasks, RunEnds(t)
      PROVE  CronInv'
  <2>1. /\ UNCHANGED <<clock, asked, armed, fresh, fired, twice>>
        /\ running' = running \ {t} /\ execs[t] > 0 /\ execs' = [execs EXCEPT ![t] = @ - 1]
    BY <1>3 DEF RunEnds
  <2>2. CronTypeOK'
    BY <2>1, <1>t DEF CronTypeOK
  <2>3. GuardIsTrue'
    <3> SUFFICES ASSUME NEW u \in Tasks
                 PROVE  execs'[u] = IF u \in running' THEN 1 ELSE 0
      BY DEF GuardIsTrue
    <3>1. execs[u] = (IF u \in running THEN 1 ELSE 0) /\ execs[t] = (IF t \in running THEN 1 ELSE 0)
      BY DEF CronInv, GuardIsTrue
    <3>2. CASE u = t
      <4>1. t \in DOMAIN execs
        BY DEF CronInv, CronTypeOK
      <4> QED
        BY <2>1, <3>1, <3>2, <4>1
    <3>3. CASE u # t
      <4>1. execs'[u] = execs[u]
        BY <2>1, <3>3 DEF CronInv, CronTypeOK
      <4> QED
        BY <2>1, <3>1, <3>3, <4>1
    <3> QED
      BY <3>2, <3>3
  <2> QED
    BY <2>1, <2>2, <2>3 DEF CronInv, FiresAhead
<1>4. ASSUME NEW t \in Tasks, OrphanEnds(t)
      PROVE  CronInv'
  BY <1>4 DEF OrphanEnds, CronInv, CronTypeOK, GuardIsTrue, FiresAhead
<1>5. ASSUME NEW t \in Tasks, NEW p \in Periods \cup {0}, EditTask(t, p)
      PROVE  CronInv'
  BY <1>5 DEF EditTask, CronInv, CronTypeOK, GuardIsTrue, FiresAhead
<1>6. CASE UNCHANGED cronVars
  BY <1>6 DEF cronVars, CronInv, CronTypeOK, GuardIsTrue, FiresAhead
<1> QED
  BY <1>1, <1>2, <1>3, <1>4, <1>5, <1>6, SyncReadHolds, SyncSwapHolds, FireDueHolds DEF CronNext

\* Nothing armed, nothing running.
LEMMA CronStart == CronInit => CronInv
<1> SUFFICES ASSUME CronInit
             PROVE  CronInv
  OBVIOUS
<1>1. /\ clock = 0 /\ asked = [t \in Tasks |-> 0] /\ armed = [t \in Tasks |-> Unarmed]
      /\ fresh = NoSet /\ running = {} /\ execs = [t \in Tasks |-> 0]
      /\ fired = [t \in Tasks |-> {}] /\ twice = FALSE
  BY DEF CronInit
<1>2. \A t \in Tasks : armed[t] = Unarmed /\ fresh[t] = Shared
  <2> SUFFICES ASSUME NEW u \in Tasks
               PROVE  armed[u] = Unarmed /\ fresh[u] = Shared
    OBVIOUS
  <2>1. armed = [t \in Tasks |-> Unarmed] /\ fresh = [t \in Tasks |-> Shared]
    BY DEF CronInit, NoSet
  <2> QED
    BY <2>1, Zenon
<1>3. Unarmed.period = 0 /\ Shared.period = 0
  BY DEF Unarmed, Shared
<1>4. CronTypeOK
  BY <1>1, <1>2 DEF CronTypeOK, NoSet, Entries
<1> QED
  BY <1>1, <1>2, <1>3, <1>4 DEF CronInv, GuardIsTrue, FiresAhead

\* The invariant of the scheduled tasks holds in every reachable state.
THEOREM CronInvariance == CronSpec => []CronInv
<1> QED
  BY CronStart, CronStepHolds, PTL DEF CronSpec

\* "Never stack a slow task on itself": at most one run of a task at a time in one life of
\* the agent, for every set of tasks and whatever is edited while it runs (fireDue,
\* execAndReport).
THEOREM NeverStackedHolds == CronSpec => []NeverStacked
<1>1. GuardIsTrue => NeverStacked
  <2> SUFFICES ASSUME GuardIsTrue, NEW t \in Tasks
               PROVE  execs[t] <= 1
    BY Zenon DEF NeverStacked
  <2>1. execs[t] = IF t \in running THEN 1 ELSE 0
    BY DEF GuardIsTrue
  <2> QED
    BY <2>1
<1>2. CronInv => GuardIsTrue
  BY DEF CronInv
<1> QED
  BY <1>1, <1>2, CronInvariance, PTL

\* No occurrence of a schedule is fired twice, although Sync rebuilds the armed set while
\* the ticker advances it and a restart arms everything again (Sync, fireDue).
THEOREM FiredOnceHolds == CronSpec => []FiredOnce
<1>1. CronInv => FiredOnce
  BY DEF CronInv, FiredOnce
<1> QED
  BY <1>1, CronInvariance, PTL
=============================================================================

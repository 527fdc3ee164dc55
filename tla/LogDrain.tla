----------------------------- MODULE LogDrain -----------------------------
(***************************************************************************)
(* One log drain (core/logdrain): a reconciler that starts and stops a     *)
(* shipper for the drain's row, and the shipper, which receives lines from *)
(* a durable consumer, hands them to the sink in batches and acknowledges  *)
(* a line only once the sink took it.  The consumer is the drain's cursor: *)
(* it outlives shippers and planes, and delivers an unacknowledged line    *)
(* again after its ack wait, while the stream has it: RUNTIME_LOGS keeps   *)
(* 24 hours or 512 MiB and discards the oldest line, shipped or not.       *)
(***************************************************************************)
EXTENDS Naturals, FiniteSets

CONSTANTS
  Lines,         \* the runtime log lines on the stream, numbered as they came
  InScope,       \* the lines of the drain's project
  QueueCap,      \* capacity of a shipper's in-process queue
  MaxRevision,   \* bound: revisions of the drain's row
  MaxShipper,    \* bound: shippers ever started
  MaxLookupFail, \* bound: lookups of a line's application that fail
  MaxPlaneCrash  \* bound: restarts of the plane

ASSUME DrainAssumption ==
  /\ Lines \subseteq Nat /\ InScope \subseteq Lines /\ QueueCap \in Nat /\ MaxRevision \in Nat \ {0}
  /\ MaxShipper \in Nat /\ MaxLookupFail \in Nat /\ MaxPlaneCrash \in Nat

Shippers == 1..MaxShipper

VARIABLES
  drain,      \* log_drains: its row ("enabled", "disabled", "deleted") and updated_at
  wanted,     \* what the sweep under way has listed: a revision, 0 for none
  sweeping,   \* has the sweep listed and not yet applied
  forgetting, \* has Delete removed the row and not yet called Forget
  shipper,    \* every shipper ever started
  current,    \* Manager.running: the shipper of the drain, 0 for none
  started,    \* number of shippers started
  consumer,   \* the durable consumer: does it exist, lines out and lines acked
  accepted,   \* the lines the sink has taken
  first,      \* the stream holds the lines from this one on
  lookups, planeCrashes

\* The lines RUNTIME_LOGS has not discarded.
Held == {l \in Lines : l >= first}

\* The stream's window, and the bounds' counters.
drainRest == <<first, lookups, planeCrashes>>
drainVars == <<drain, wanted, sweeping, forgetting, shipper, current, started, consumer,
               accepted, drainRest>>

NoShipper == [up |-> FALSE, revision |-> 0, lines |-> {}, sending |-> {}]
NoConsumer == [exists |-> FALSE, out |-> {}, acked |-> {}]

DrainTypeOK ==
  /\ drain \in [row : {"enabled", "disabled", "deleted"}, revision : 1..MaxRevision]
  /\ wanted \in 0..MaxRevision /\ sweeping \in BOOLEAN /\ forgetting \in BOOLEAN
  /\ shipper \in [Shippers -> [up : BOOLEAN, revision : 0..MaxRevision,
                               lines : SUBSET Lines, sending : SUBSET Lines]]
  /\ current \in 0..started /\ started \in 0..MaxShipper
  /\ consumer \in [exists : BOOLEAN, out : SUBSET Lines, acked : SUBSET Lines]
  /\ accepted \subseteq Lines /\ first \in Nat
  /\ \A k \in Shippers : Cardinality(shipper[k].lines) <= QueueCap

DrainInit ==
  /\ drain \in [row : {"enabled", "disabled"}, revision : {1}]
  /\ wanted = 0 /\ sweeping = FALSE /\ forgetting = FALSE
  /\ shipper = [k \in Shippers |-> NoShipper] /\ current = 0 /\ started = 0
  /\ consumer = NoConsumer /\ accepted = {} /\ first = 0
  /\ lookups = 0 /\ planeCrashes = 0

-----------------------------------------------------------------------------
(* The manager.                                                            *)

\* shipper.stop: cancel, stop consuming, close the sink.  What is queued is never
\* acknowledged; what is being sent may still reach the sink.
Stopped(k) == IF k = 0 THEN shipper ELSE [shipper EXCEPT ![k].up = FALSE, ![k].lines = {}]

\* Manager.start: CreateOrUpdateConsumer, then the two goroutines.
StartShipper(ships, revision) ==
  /\ consumer' = [consumer EXCEPT !.exists = TRUE]
  /\ started' = started + 1 /\ current' = started + 1
  /\ shipper' = [ships EXCEPT ![started + 1] =
                   [NoShipper EXCEPT !.up = TRUE, !.revision = revision]]

\* sweep, its first half: ListEnabledLogDrains, outside the manager's mutex.
SweepLists ==
  /\ ~sweeping /\ sweeping' = TRUE
  /\ wanted' = IF drain.row = "enabled" THEN drain.revision ELSE 0
  /\ UNCHANGED <<drain, forgetting, shipper, current, started, consumer, accepted, drainRest>>

Outdated == current # 0 /\ shipper[current].revision # wanted

\* sweep, under the mutex: stop what is gone or changed, start what is missing.
SweepApplies ==
  /\ sweeping /\ sweeping' = FALSE /\ wanted' = 0
  /\ LET ships == IF Outdated THEN Stopped(current) ELSE shipper
         none  == current = 0 \/ Outdated
     IN  \/ wanted # 0 /\ none /\ started < MaxShipper /\ StartShipper(ships, wanted)
         \/ wanted = 0 /\ current' = 0 /\ shipper' = ships /\ UNCHANGED <<started, consumer>>
         \/ ~none /\ UNCHANGED <<shipper, current, started, consumer>>
  /\ UNCHANGED <<drain, forgetting, accepted, drainRest>>

-----------------------------------------------------------------------------
(* The operator.                                                           *)

\* Service.Update: any change moves updated_at.
Update(row) ==
  /\ drain.row # "deleted" /\ drain.revision < MaxRevision
  /\ drain' = [row |-> row, revision |-> drain.revision + 1]
  /\ UNCHANGED <<wanted, sweeping, forgetting, shipper, current, started, consumer, accepted,
                 drainRest>>

\* Service.Delete: the row, then the manager's Forget.
Delete ==
  /\ drain.row # "deleted" /\ drain' = [drain EXCEPT !.row = "deleted"]
  /\ forgetting' = TRUE
  /\ UNCHANGED <<wanted, sweeping, shipper, current, started, consumer, accepted, drainRest>>

\* Manager.Forget: stop the shipper, delete the durable consumer.
Forget ==
  /\ forgetting /\ forgetting' = FALSE
  /\ shipper' = Stopped(current) /\ current' = 0 /\ consumer' = NoConsumer
  /\ UNCHANGED <<drain, wanted, sweeping, started, accepted, drainRest>>

-----------------------------------------------------------------------------
(* The shipper.                                                            *)

Ack(ls) == [consumer EXCEPT !.acked = @ \cup ls, !.out = @ \ ls]

FullQueue_Acks(l) == Ack({l})

\* The queue is full: the line is left to be delivered again.
FullQueue(l) == [consumer EXCEPT !.out = @ \cup {l}]

Full(k) == Cardinality(shipper[k].lines) >= QueueCap

\* receive: a line out of scope is acknowledged at once, a line in scope is queued.
\* enrich is best effort: when the application cannot be read the line has no
\* project, and so is not in the scope of the drain.
receive(l, found) ==
  LET k == current
  IN  IF ~found \/ l \notin InScope
      THEN consumer' = Ack({l}) /\ UNCHANGED shipper
      ELSE IF Full(k)
      THEN consumer' = FullQueue(l) /\ UNCHANGED shipper
      ELSE /\ shipper' = [shipper EXCEPT ![k].lines = @ \cup {l}]
           /\ consumer' = [consumer EXCEPT !.out = @ \cup {l}]

\* A line the stream still holds, and that is neither out nor acknowledged.
Deliver(l) ==
  /\ consumer.exists /\ current # 0 /\ l \in Held \ (consumer.out \cup consumer.acked)
  /\ \E found \in BOOLEAN :
       /\ lookups' = IF found THEN lookups ELSE lookups + 1
       /\ lookups' <= MaxLookupFail
       /\ receive(l, found)
  /\ UNCHANGED <<drain, wanted, sweeping, forgetting, current, started, accepted, first,
                 planeCrashes>>

\* AckWait is over; the shipper may hold the line still.
AckWaitEnds(l) ==
  /\ l \in consumer.out /\ consumer' = [consumer EXCEPT !.out = @ \ {l}]
  /\ UNCHANGED <<drain, wanted, sweeping, forgetting, shipper, current, started, accepted,
                 drainRest>>

Flush_Resets(k) ==
  /\ shipper[k].up /\ shipper[k].lines # {}
  /\ shipper' = [shipper EXCEPT ![k].lines = {}]
  /\ UNCHANGED <<drain, wanted, sweeping, forgetting, current, started, consumer, accepted,
                 drainRest>>

\* run: a batch is full or its interval is over.
Flush(k) ==
  /\ shipper[k].up /\ shipper[k].sending = {} /\ shipper[k].lines # {}
  /\ shipper' = [shipper EXCEPT ![k].sending = shipper[k].lines, ![k].lines = {}]
  /\ UNCHANGED <<drain, wanted, sweeping, forgetting, current, started, consumer, accepted,
                 drainRest>>

\* The sink takes the batch: the lines are acknowledged.
ShipAccepted(k) ==
  /\ shipper[k].sending # {}
  /\ accepted' = accepted \cup shipper[k].sending
  /\ consumer' = IF consumer.exists THEN Ack(shipper[k].sending) ELSE consumer
  /\ shipper' = [shipper EXCEPT ![k].sending = {}]
  /\ UNCHANGED <<drain, wanted, sweeping, forgetting, current, started, drainRest>>

\* The sink refuses it.  A shipper that runs retries for ever; one that was stopped
\* gives the batch up, unacknowledged.
ShipRefused(k) ==
  /\ shipper[k].sending # {} /\ ~shipper[k].up
  /\ shipper' = [shipper EXCEPT ![k].sending = {}]
  /\ UNCHANGED <<drain, wanted, sweeping, forgetting, current, started, consumer, accepted,
                 drainRest>>

\* The plane is restarted: the cursor is all that is left.
PlaneCrashes ==
  /\ planeCrashes < MaxPlaneCrash /\ planeCrashes' = planeCrashes + 1
  /\ shipper' = [k \in Shippers |-> NoShipper] /\ current' = 0
  /\ sweeping' = FALSE /\ wanted' = 0 /\ forgetting' = FALSE
  /\ UNCHANGED <<drain, started, consumer, accepted, first, lookups>>

\* RUNTIME_LOGS is full, or its oldest line too old: DiscardOld, whatever the cursors say.
DiscardOld ==
  /\ \E l \in Held : first' = l + 1 /\ \A m \in Held : l <= m
  /\ UNCHANGED <<drain, wanted, sweeping, forgetting, shipper, current, started, consumer,
                 accepted, lookups, planeCrashes>>

-----------------------------------------------------------------------------
\* The three loops that go on: the manager's sweep, the delivery of lines that are
\* not acknowledged, and the shippers', whose sink takes a batch in the end.
SweepStep == SweepLists \/ SweepApplies
DeliverStep == \E l \in Lines : Deliver(l) \/ AckWaitEnds(l)
ShipStep == \E k \in Shippers : Flush(k) \/ ShipAccepted(k)

DrainNext ==
  \/ SweepLists \/ SweepApplies
  \/ \E l \in Lines : Deliver(l) \/ AckWaitEnds(l)
  \/ \E k \in Shippers : Flush(k) \/ ShipAccepted(k) \/ ShipRefused(k)
  \/ \E row \in {"enabled", "disabled"} : Update(row)
  \/ Delete \/ Forget \/ PlaneCrashes \/ DiscardOld

DrainFairness ==
  WF_drainVars(SweepStep) /\ WF_drainVars(DeliverStep) /\ WF_drainVars(ShipStep)

DrainSpec == DrainInit /\ [][DrainNext]_drainVars /\ DrainFairness

-----------------------------------------------------------------------------
(* Properties.                                                             *)

\* The cursor passes no line of the drain's project that the sink has not taken:
\* a full queue, a stopped or replaced shipper, a late batch and a restarted plane
\* leave it where it was.
AckedIsShipped == consumer.acked \cap InScope \subseteq accepted

\* One shipper at a time: whatever sweeps, edits, deletions and restarts come between, only
\* the shipper the manager knows of receives lines, for a revision of the row that was (sweep,
\* start, stop, Forget).
OneShipper == \A k \in Shippers :
  /\ shipper[k].up \/ shipper[k].lines # {} => k = current
  /\ k = current => shipper[k].up /\ shipper[k].revision \in 1..drain.revision

\* Every line of the project that the stream holds reaches the sink of a drain that stays
\* enabled; only what the window discards is lost to it (receive, ship, sweep).
EveryLineShips == []<>(drain.row # "enabled" \/ (InScope \cap Held) \subseteq accepted)

-----------------------------------------------------------------------------
\* The inductive invariant behind AckedIsShipped, which holds until the lookup of a
\* line's application fails: such a line is taken for one of another project.
DrainInv ==
  /\ DrainTypeOK /\ lookups \in Nat
  /\ \A k \in Shippers : IsFiniteSet(shipper[k].lines)
  /\ lookups = 0 => AckedIsShipped

\* Behind OneShipper: a sweep starts nothing for a revision the row never had.
SweepsWhatWas == wanted <= drain.revision
=============================================================================

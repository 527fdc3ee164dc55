-------------------------- MODULE WebhookDelivery --------------------------
(***************************************************************************)
(* The deliveries of one webhook endpoint (core/webhooks).  A delivery is  *)
(* a row, written before its first attempt; the attempt runs detached from *)
(* whoever asked for it, and a sweeper attempts the rows that are due.     *)
(* Nothing locks a row: two workers may attempt one delivery at once, from *)
(* rows they have read a while ago, and only the compare-and-set on the    *)
(* attempt number decides whose outcome counts.                            *)
(*                                                                         *)
(* Time is a flag: a pending row is due once its lease or back-off is      *)
(* over, which may be while the attempt it was leased to still runs.       *)
(***************************************************************************)
EXTENDS Naturals, FiniteSets

CONSTANTS
  maxAttempts,        \* attempts of a delivery
  deliveryRetention,  \* rows of an endpoint that are kept
  MaxDelivery,        \* bound: deliveries ever created
  MaxTrouble          \* bound: failing store calls, secrets that do not open,
                      \* restarts of the plane and edits of the endpoint, together

ASSUME WebhookAssumption ==
  maxAttempts \in Nat \ {0} /\ deliveryRetention \in Nat /\ MaxDelivery \in Nat /\ MaxTrouble \in Nat

Delivery == 1..MaxDelivery
Answers == {"ok", "retryable", "refused"}      \* 2xx; 429, 5xx or no answer; the rest
Ended == {"succeeded", "failed"}

\* The detached first attempt of each delivery, and the sweeper.
Sweeper == 0
Worker == Delivery \cup {Sweeper}
Idle == [at |-> "idle", on |-> 0, from |-> 0, answer |-> "none"]

VARIABLES
  row,         \* webhook_deliveries, in the order of their creation
  attempts,    \* webhook_delivery_attempts: the attempts on record
  worker,      \* the attempt each worker is making
  batch,       \* the rows the sweeper has listed: delivery and attempt
  endpoint,    \* "enabled", "disabled" or "deleted"
  troubles

webhookVars == <<row, attempts, worker, batch, endpoint, troubles>>

NoRow == [status |-> "none", attempt |-> 0, due |-> FALSE]

WebhookTypeOK ==
  /\ row \in [Delivery -> [status : Ended \cup {"none", "pending", "pruned"},
                           attempt : 0..maxAttempts, due : BOOLEAN]]
  /\ attempts \in [Delivery -> SUBSET (1..maxAttempts)]
  /\ worker \in [Worker -> [at : {"idle", "send", "record", "advance"},
                            on : 0..MaxDelivery, from : 0..maxAttempts,
                            answer : Answers \cup {"none"}]]
  /\ batch \subseteq Delivery \X (0..maxAttempts)
  /\ endpoint \in {"enabled", "disabled", "deleted"}

WebhookInit ==
  /\ row = [d \in Delivery |-> NoRow]
  /\ attempts = [d \in Delivery |-> {}]
  /\ worker = [w \in Worker |-> Idle] /\ batch = {}
  /\ endpoint = "enabled"
  /\ troubles = 0

Live(d) == row[d].status \notin {"none", "pruned"}

Trouble == troubles < MaxTrouble /\ troubles' = troubles + 1
StoreError == Trouble
StoreWorks == UNCHANGED troubles

Rests(w) == worker' = [worker EXCEPT ![w] = Idle]

-----------------------------------------------------------------------------
(* The store.                                                              *)

\* CreateWebhookDelivery, then DeleteOldWebhookDeliveries: the oldest rows go,
\* whatever their status; a prune that fails is logged.
persist(d, due) ==
  LET created == [row EXCEPT ![d] = [status |-> "pending", attempt |-> 0, due |-> due]]
      newer(e) == Cardinality({f \in Delivery : f > e /\ f <= d /\ (Live(f) \/ f = d)})
  IN  \/ /\ StoreWorks
         /\ row' = [e \in Delivery |->
              IF created[e].status # "none" /\ newer(e) >= deliveryRetention
              THEN [NoRow EXCEPT !.status = "pruned"] ELSE created[e]]
      \/ StoreError /\ row' = created

\* Mutant: the update does not compare the attempt number.
UpdateWebhookDeliveryProgress_Blind(d, from, status, n) ==
  row' = IF Live(d) THEN [row EXCEPT ![d] = [status |-> status, attempt |-> n, due |-> FALSE]]
         ELSE row

\* Only from the attempt the caller started from; no row is not an error.
UpdateWebhookDeliveryProgress(d, from, status, n) ==
  row' = IF Live(d) /\ row[d].attempt = from
         THEN [row EXCEPT ![d] = [status |-> status, attempt |-> n, due |-> FALSE]]
         ELSE row

\* Mutant: lists only the rows without an attempt.
DueRows_FirstAttempts ==
  {<<d, 0>> : d \in {e \in Delivery : row[e].status = "pending" /\ row[e].due /\ row[e].attempt = 0}}

\* ListDueWebhookDeliveries.
DueRows == {<<d, row[d].attempt>> : d \in {e \in Delivery : row[e].status = "pending" /\ row[e].due}}

-----------------------------------------------------------------------------
(* New deliveries.                                                         *)

Start(d, due) ==
  /\ endpoint = "enabled"
  /\ row[d].status = "none" /\ \A e \in Delivery : e < d => row[e].status # "none"
  /\ persist(d, due)
  /\ worker' = [worker EXCEPT ![d] = [Idle EXCEPT !.at = "send", !.on = d]]
  /\ UNCHANGED <<attempts, batch, endpoint>>

\* dispatch of an event, or Ping: leased to its first attempt.
Enqueue(d) == Start(d, FALSE)

\* Redeliver: a new row with the payload of one that exists, due at once.
Redeliver(d) == (\E e \in Delivery : Live(e)) /\ Start(d, TRUE)

\* The lease or the back-off of a delivery is over.
Elapse(d) ==
  /\ row[d].status = "pending" /\ ~row[d].due
  /\ row' = [row EXCEPT ![d].due = TRUE]
  /\ UNCHANGED <<attempts, worker, batch, endpoint, troubles>>

-----------------------------------------------------------------------------
(* Attempt.                                                                *)

\* The request is made and answered, or the secret cannot be unsealed and the
\* delivery ends without having used an attempt.
Post(w) ==
  /\ worker[w].at = "send"
  /\ \/ /\ \E a \in Answers :
             worker' = [worker EXCEPT ![w].at = "record", ![w].answer = a]
        /\ UNCHANGED <<row, troubles>>
     \/ /\ StoreError
        /\ UpdateWebhookDeliveryProgress(worker[w].on, worker[w].from, "failed", worker[w].from)
        /\ Rests(w)
  /\ UNCHANGED <<attempts, batch, endpoint>>

\* The attempt goes on record under its number, unless the number is there
\* already; a call that fails ends the attempt.
CreateWebhookDeliveryAttempt(w) ==
  LET d == worker[w].on
      n == worker[w].from + 1 IN
  /\ worker[w].at = "record"
  /\ \/ /\ Live(d) /\ StoreWorks
        /\ attempts' = [attempts EXCEPT ![d] = @ \cup {n}]
        /\ worker' = [worker EXCEPT ![w].at = "advance"]
     \/ /\ StoreError \/ (~Live(d) /\ StoreWorks)
        /\ Rests(w) /\ UNCHANGED attempts
  /\ UNCHANGED <<row, batch, endpoint>>

outcome(answer, n) ==
  CASE answer = "ok" -> "succeeded"
    [] answer = "retryable" /\ n < maxAttempts -> "pending"
    [] OTHER -> "failed"

\* advance.
Advance(w) ==
  LET n == worker[w].from + 1 IN
  /\ worker[w].at = "advance"
  /\ \/ /\ StoreWorks
        /\ UpdateWebhookDeliveryProgress(worker[w].on, worker[w].from,
                                         outcome(worker[w].answer, n), n)
     \/ StoreError /\ UNCHANGED row
  /\ Rests(w)
  /\ UNCHANGED <<attempts, batch, endpoint>>

-----------------------------------------------------------------------------
(* The sweeper.                                                            *)

SweepIdle == worker[Sweeper].at = "idle"

\* SweepDue reads the rows that are due, once ...
ListDue ==
  /\ SweepIdle /\ batch = {} /\ DueRows # {}
  /\ batch' = DueRows
  /\ UNCHANGED <<row, attempts, worker, endpoint, troubles>>

\* ... and takes them one by one, as it read them: a row of an endpoint that
\* was switched off ends without an attempt.
SweepNext(d, from) ==
  /\ SweepIdle /\ <<d, from>> \in batch
  /\ batch' = batch \ {<<d, from>>}
  /\ \/ /\ endpoint = "enabled"
        /\ worker' = [worker EXCEPT ![Sweeper] =
                        [Idle EXCEPT !.at = "send", !.on = d, !.from = from]]
        /\ UNCHANGED row
     \/ /\ endpoint = "disabled"
        /\ UpdateWebhookDeliveryProgress(d, from, "failed", from)
        /\ UNCHANGED worker
     \/ endpoint = "deleted" /\ UNCHANGED <<row, worker>>
  /\ UNCHANGED <<attempts, endpoint, troubles>>

-----------------------------------------------------------------------------
(* The endpoint's owner, and the plane.                                    *)

\* Update switches the endpoint on or off; Delete takes its rows with it.
EditEndpoint(to) ==
  /\ Trouble
  /\ endpoint # "deleted" /\ to # endpoint /\ endpoint' = to
  /\ row' = IF to = "deleted"
            THEN [d \in Delivery |-> IF Live(d) THEN [NoRow EXCEPT !.status = "pruned"] ELSE row[d]]
            ELSE row
  /\ UNCHANGED <<attempts, worker, batch>>

\* The plane restarts: attempts under way and the sweeper's list are gone.
PlaneRestarts ==
  /\ Trouble
  /\ worker' = [w \in Worker |-> Idle] /\ batch' = {}
  /\ UNCHANGED <<row, attempts, endpoint>>

Attempt(w) == Post(w) \/ CreateWebhookDeliveryAttempt(w) \/ Advance(w)

WebhookStep ==
  \/ \E d \in Delivery : Elapse(d)
  \/ \E w \in Worker : Attempt(w)
  \/ ListDue \/ \E d \in Delivery, n \in 0..maxAttempts : SweepNext(d, n)

WebhookNext ==
  \/ \E d \in Delivery : Enqueue(d) \/ Redeliver(d)
  \/ WebhookStep
  \/ \E to \in {"enabled", "disabled", "deleted"} : EditEndpoint(to)
  \/ PlaneRestarts

WebhookSpec == WebhookInit /\ [][WebhookNext]_webhookVars /\ WF_webhookVars(WebhookStep)

-----------------------------------------------------------------------------
(* Properties.                                                             *)

\* "re-writing ours could resurrect a delivery that already succeeded": no
\* late or concurrent worker takes a success back (advance).
SucceededIsFinal ==
  [][\A d \in Delivery :
       row[d].status = "succeeded" => row'[d].status \in {"succeeded", "pruned"}]_webhookVars

\* "a plane restart mid-backoff loses nothing": every delivery ends, whatever
\* was lost or failed on the way (SweepDue).
DeliveriesEnd == []<>(\A d \in Delivery : row[d].status # "pending")

\* The owner's history has an entry for every attempt the delivery counts, and at most one
\* that is not counted yet: the entry is written before the row is advanced, by one worker
\* of the several that may hold the delivery, and a restart can come in between.
HistoryMatches == \A d \in Delivery : Live(d) =>
  1..row[d].attempt \subseteq attempts[d] /\ attempts[d] \subseteq 1..(row[d].attempt + 1)

-----------------------------------------------------------------------------
(* The inductive invariant behind SucceededIsFinal.                        *)

\* Whoever took delivery d up with `from` attempts made is not ahead of its row,
\* and is behind the row of a delivery that succeeded.
Behind(d, from) ==
  /\ row[d].status # "none" /\ from < maxAttempts
  /\ Live(d) => from <= row[d].attempt
  /\ row[d].status = "succeeded" => from < row[d].attempt

WorkersBehind ==
  \A w \in Worker : worker[w].at # "idle" =>
    worker[w].on \in Delivery /\ Behind(worker[w].on, worker[w].from)

BatchBehind == \A d \in Delivery, from \in 0..maxAttempts : <<d, from>> \in batch => Behind(d, from)

\* A delivery that is to be attempted again has an attempt left.
AttemptLeft == \A d \in Delivery : row[d].status = "pending" => row[d].attempt < maxAttempts

WebhookInv == WebhookTypeOK /\ WorkersBehind /\ BatchBehind /\ AttemptLeft

\* Behind HistoryMatches: who advances a row has put its attempt on record, and nothing is
\* on record of a delivery that does not exist yet.
RecordedFirst ==
  /\ \A w \in Worker : worker[w].at = "advance" => worker[w].from + 1 \in attempts[worker[w].on]
  /\ \A d \in Delivery : row[d].status = "none" => attempts[d] = {}
=============================================================================

--------------------------- MODULE DeliveryProofs ---------------------------
(***************************************************************************)
(* Proofs about what is delivered, for every number of deliveries, lines,  *)
(* shippers, resources and faults: webhook deliveries (WebhookDelivery), a *)
(* log drain (LogDrain), and the changes that must reach an agent through  *)
(* its work loop (AgentWorker).                                            *)
(***************************************************************************)
EXTENDS WebhookDelivery, LogDrain, AgentWorker, FiniteSetTheorems, TLAPS

-----------------------------------------------------------------------------
(* Webhook deliveries.                                                     *)

\* What the compare-and-set on the attempt number leaves of a row.
LEMMA ProgressRows ==
  ASSUME WebhookInv, NEW d \in Delivery, NEW from \in 0..maxAttempts,
         NEW status \in Ended \cup {"pending"}, NEW n \in 0..maxAttempts,
         UpdateWebhookDeliveryProgress(d, from, status, n)
  PROVE  /\ row' \in [Delivery -> [status : Ended \cup {"none", "pending", "pruned"},
                                   attempt : 0..maxAttempts, due : BOOLEAN]]
         /\ \A e \in Delivery : \/ row'[e] = row[e]
                                \/ /\ e = d /\ Live(d) /\ row[d].attempt = from
                                   /\ row'[d] = [status |-> status, attempt |-> n, due |-> FALSE]
  BY DEF UpdateWebhookDeliveryProgress, WebhookInv, WebhookTypeOK, Ended

\* A compare-and-set from an attempt that is Behind keeps everybody behind: it moves
\* the row forward, or ends it as failed where it stands.
LEMMA ProgressBehind ==
  ASSUME WebhookInv, NEW d \in Delivery, NEW from \in 0..maxAttempts,
         NEW status \in Ended \cup {"pending"}, NEW n \in 0..maxAttempts,
         UpdateWebhookDeliveryProgress(d, from, status, n),
         n = from + 1 \/ (n = from /\ status = "failed"),
         NEW e \in Delivery, NEW k \in 0..maxAttempts, Behind(e, k)
  PROVE  Behind(e, k)'
<1>1. CASE row'[e] = row[e]
  BY <1>1 DEF Behind, Live
<1>2. CASE /\ e = d /\ Live(d) /\ row[d].attempt = from
           /\ row'[d] = [status |-> status, attempt |-> n, due |-> FALSE]
  <2>1. row[d].attempt \in Nat /\ n \in Nat /\ k \in Nat /\ from \in Nat
    BY WebhookAssumption DEF WebhookInv, WebhookTypeOK
  <2>2. row'[d].attempt = n /\ row'[d].status = status
    BY <1>2
  <2> QED
    BY <1>2, <2>1, <2>2 DEF Behind, Live, Ended
<1> QED
  BY <1>1, <1>2, ProgressRows

\* A row is created, and the oldest ones go: nobody who was behind gets ahead.
LEMMA PersistRows ==
  ASSUME WebhookInv, NEW d \in Delivery, NEW due \in BOOLEAN, row[d].status = "none", persist(d, due)
  PROVE  /\ row' \in [Delivery -> [status : Ended \cup {"none", "pending", "pruned"},
                                   attempt : 0..maxAttempts, due : BOOLEAN]]
         /\ \/ row'[d] = [status |-> "pending", attempt |-> 0, due |-> due]
            \/ row'[d] = [NoRow EXCEPT !.status = "pruned"]
         /\ \A e \in Delivery : e # d =>
              \/ row'[e] = row[e]
              \/ row[e].status # "none" /\ row'[e] = [NoRow EXCEPT !.status = "pruned"]
<1> DEFINE created == [row EXCEPT ![d] = [status |-> "pending", attempt |-> 0, due |-> due]]
           pruned == [NoRow EXCEPT !.status = "pruned"]
           Rows == [status : Ended \cup {"none", "pending", "pruned"},
                    attempt : 0..maxAttempts, due : BOOLEAN]
           old(e) == Cardinality({f \in Delivery : f > e /\ f <= d /\ (Live(f) \/ f = d)})
                       >= deliveryRetention
<1>1. /\ row \in [Delivery -> Rows]
      /\ pruned \in Rows /\ pruned.status = "pruned"
  <2>1. NoRow \in Rows
    BY WebhookAssumption DEF NoRow
  <2>2. pruned \in Rows /\ pruned.status = "pruned"
    BY <2>1
  <2>3. row \in [Delivery -> Rows]
    BY DEF WebhookInv, WebhookTypeOK
  <2> QED
    BY <2>2, <2>3
<1>2. /\ created \in [Delivery -> Rows]
      /\ created[d] = [status |-> "pending", attempt |-> 0, due |-> due]
      /\ \A e \in Delivery : e # d => created[e] = row[e]
  <2>1. [status |-> "pending", attempt |-> 0, due |-> due] \in Rows
    BY WebhookAssumption
  <2> QED
    BY <1>1, <2>1
<1>3. \/ row' = created
      \/ row' = [e \in Delivery |-> IF created[e].status # "none" /\ old(e)
                                    THEN pruned ELSE created[e]]
  BY DEF persist
<1> HIDE DEF created, pruned, Rows, old
<1>4. /\ row' \in [Delivery -> Rows]
      /\ \A e \in Delivery : \/ row'[e] = created[e]
                             \/ created[e].status # "none" /\ row'[e] = pruned
  <2>1. CASE row' = created
    BY <1>2, <2>1
  <2>2. CASE row' = [e \in Delivery |-> IF created[e].status # "none" /\ old(e)
                                       THEN pruned ELSE created[e]]
    BY <1>1, <1>2, <2>2
  <2> QED
    BY <1>3, <2>1, <2>2
<1> QED
  BY <1>2, <1>4 DEF pruned, Rows

\* A worker or the sweeper is behind afterwards when it was before and nobody's row
\* fell back, or when it has just been given an attempt that is.
LEMMA KeepBehind ==
  ASSUME WebhookInv, WebhookTypeOK', AttemptLeft',
         \A e \in Delivery, k \in 0..maxAttempts : Behind(e, k) => Behind(e, k)',
         \A w \in Worker :
           \/ worker'[w].at = "idle"
           \/ /\ worker[w].at # "idle"
              /\ worker'[w].on = worker[w].on /\ worker'[w].from = worker[w].from
           \/ \E e \in Delivery, k \in 0..maxAttempts :
                worker'[w].on = e /\ worker'[w].from = k /\ Behind(e, k)',
         \A e \in Delivery, k \in 0..maxAttempts :
           <<e, k>> \in batch' => <<e, k>> \in batch \/ Behind(e, k)'
  PROVE  WebhookInv'
<1>1. WorkersBehind'
  <2> SUFFICES ASSUME NEW w \in Worker, worker'[w].at # "idle"
               PROVE  worker'[w].on \in Delivery
                      /\ \A e, k : worker'[w].on = e /\ worker'[w].from = k => Behind(e, k)'
    BY DEF WorkersBehind
  <2>1. CASE /\ worker[w].at # "idle"
             /\ worker'[w].on = worker[w].on /\ worker'[w].from = worker[w].from
    <3>1. /\ worker[w].on \in Delivery /\ worker[w].from \in 0..maxAttempts
          /\ Behind(worker[w].on, worker[w].from)
      BY <2>1 DEF WebhookInv, WebhookTypeOK, WorkersBehind
    <3> QED
      BY <2>1, <3>1
  <2>2. CASE \E e \in Delivery, k \in 0..maxAttempts :
                worker'[w].on = e /\ worker'[w].from = k /\ Behind(e, k)'
    BY <2>2
  <2> QED
    BY <2>1, <2>2
<1>2. BatchBehind'
  BY DEF BatchBehind, WebhookInv
<1> QED
  BY <1>1, <1>2 DEF WebhookInv

\* Nobody falls ahead of a row that does not change, or that goes.
LEMMA SameRows ==
  ASSUME WebhookInv,
         \A e \in Delivery :
           \/ row'[e].status = row[e].status /\ row'[e].attempt = row[e].attempt
           \/ row'[e].status = "pruned"
  PROVE  \A e \in Delivery, k \in 0..maxAttempts : Behind(e, k) => Behind(e, k)'
  BY DEF Behind, Live

\* Every step keeps the invariant of the deliveries.
LEMMA WebhookStepHolds == WebhookInv /\ [WebhookNext]_webhookVars => WebhookInv'
<1> SUFFICES ASSUME WebhookInv, [WebhookNext]_webhookVars
             PROVE  WebhookInv'
  OBVIOUS
<1> USE WebhookAssumption
<1> DEFINE Rows == [status : Ended \cup {"none", "pending", "pruned"},
                    attempt : 0..maxAttempts, due : BOOLEAN]
           Work == [at : {"idle", "send", "record", "advance"},
                    on : 0..MaxDelivery, from : 0..maxAttempts, answer : Answers \cup {"none"}]
<1>t. /\ row \in [Delivery -> Rows] /\ attempts \in [Delivery -> SUBSET (1..maxAttempts)]
      /\ worker \in [Worker -> Work] /\ batch \subseteq Delivery \X (0..maxAttempts)
      /\ endpoint \in {"enabled", "disabled", "deleted"} /\ AttemptLeft
  BY DEF WebhookInv, WebhookTypeOK
<1>i. Idle \in Work /\ Idle.at = "idle"
  BY DEF Idle
<1>w. ASSUME NEW w \in Worker, worker[w].at # "idle"
      PROVE  /\ worker[w].on \in Delivery /\ worker[w].from \in 0..maxAttempts
             /\ worker[w].from + 1 \in 0..maxAttempts
             /\ Behind(worker[w].on, worker[w].from)
  <2>1. /\ worker[w].on \in Delivery /\ worker[w].from \in 0..maxAttempts
        /\ Behind(worker[w].on, worker[w].from)
    BY <1>t, <1>w DEF WebhookInv, WorkersBehind
  <2>2. worker[w].from < maxAttempts
    BY <2>1 DEF Behind
  <2> QED
    BY <2>1, <2>2
<1>s. ASSUME \A e \in Delivery :
               \/ row'[e].status = row[e].status /\ row'[e].attempt = row[e].attempt
               \/ row'[e].status = "pruned"
      PROVE  AttemptLeft' /\ \A e \in Delivery, k \in 0..maxAttempts : Behind(e, k) => Behind(e, k)'
  BY <1>s, <1>t, SameRows DEF AttemptLeft
<1>1. ASSUME NEW d \in Delivery, NEW due \in BOOLEAN, Start(d, due)
      PROVE  WebhookInv'
  <2>1. /\ row' \in [Delivery -> Rows]
        /\ \/ row'[d] = [status |-> "pending", attempt |-> 0, due |-> due]
           \/ row'[d] = [NoRow EXCEPT !.status = "pruned"]
        /\ \A e \in Delivery : e # d =>
             \/ row'[e] = row[e]
             \/ row[e].status # "none" /\ row'[e] = [NoRow EXCEPT !.status = "pruned"]
    BY <1>1, PersistRows DEF Start
  <2>2. NoRow \in Rows
    BY DEF NoRow
  <2>3. row[d].status = "none" /\ UNCHANGED <<attempts, batch, endpoint>>
    BY <1>1 DEF Start
  <2>4. /\ row'[d].status \in {"pending", "pruned"} /\ row'[d].attempt = 0
        /\ \A e \in Delivery : e # d => row'[e] = row[e] \/ row'[e].status = "pruned"
    <3>1. [NoRow EXCEPT !.status = "pruned"].status = "pruned"
          /\ [NoRow EXCEPT !.status = "pruned"].attempt = 0
      BY <2>2 DEF NoRow
    <3> QED
      BY <2>1, <3>1
  <2>5. AttemptLeft'
    BY <1>t, <2>4 DEF AttemptLeft
  <2>6. \A e \in Delivery, k \in 0..maxAttempts : Behind(e, k) => Behind(e, k)'
    BY <2>3, <2>4 DEF Behind, Live
  <2>7. Behind(d, 0)'
    BY <2>4 DEF Behind, Live
  <2>8. /\ worker' \in [Worker -> Work]
        /\ \A w \in Worker : w # d => worker'[w] = worker[w]
        /\ worker'[d].on = d /\ worker'[d].from = 0
    <3>1. d \in Worker /\ worker' = [worker EXCEPT ![d] = [Idle EXCEPT !.at = "send", !.on = d]]
      BY <1>1 DEF Start, Worker
    <3>2. /\ [Idle EXCEPT !.at = "send", !.on = d] \in Work
          /\ [Idle EXCEPT !.at = "send", !.on = d].on = d
          /\ [Idle EXCEPT !.at = "send", !.on = d].from = 0
      <4>1. d \in 0..MaxDelivery
        BY DEF Delivery
      <4>2. Idle.from = 0
        BY DEF Idle
      <4> QED
        BY <1>i, <4>1, <4>2
    <3> QED
      BY <3>1, <3>2, <1>t
  <2>9. WebhookTypeOK'
    BY <1>t, <2>1, <2>3, <2>8 DEF WebhookTypeOK
  <2> QED
    BY <2>3, <2>5, <2>6, <2>7, <2>8, <2>9, KeepBehind DEF WebhookInv, WorkersBehind
<1>2. ASSUME NEW d \in Delivery, Elapse(d)
      PROVE  WebhookInv'
  <2>1. /\ row' \in [Delivery -> Rows]
        /\ \A e \in Delivery : row'[e].status = row[e].status /\ row'[e].attempt = row[e].attempt
    BY <1>2, <1>t DEF Elapse
  <2>2. WebhookTypeOK'
    BY <1>2, <1>t, <2>1 DEF Elapse, WebhookTypeOK
  <2> QED
    BY <1>2, <2>1, <2>2, <1>s, KeepBehind DEF Elapse, WebhookInv, WorkersBehind
<1>rest. ASSUME NEW w \in Worker, Rests(w)
         PROVE  /\ worker' \in [Worker -> Work]
                /\ \A v \in Worker : worker'[v].at = "idle" \/ worker'[v] = worker[v]
  BY <1>rest, <1>t, <1>i DEF Rests
<1>upd. ASSUME NEW d \in Delivery, NEW from \in 0..maxAttempts,
               NEW status \in Ended \cup {"pending"}, NEW n \in 0..maxAttempts,
               UpdateWebhookDeliveryProgress(d, from, status, n),
               n = from + 1 \/ (n = from /\ status = "failed"),
               status = "pending" => n < maxAttempts
        PROVE  /\ row' \in [Delivery -> Rows] /\ AttemptLeft'
               /\ \A e \in Delivery, k \in 0..maxAttempts : Behind(e, k) => Behind(e, k)'
  <2>1. /\ row' \in [Delivery -> Rows]
        /\ \A e \in Delivery : \/ row'[e] = row[e]
                               \/ /\ e = d
                                  /\ row'[d] = [status |-> status, attempt |-> n, due |-> FALSE]
    BY <1>upd, <1>t DEF UpdateWebhookDeliveryProgress
  <2>2. AttemptLeft'
    <3>1. status = "pending" => n < maxAttempts
      BY <1>upd
    <3> QED
      BY <3>1, <1>t, <2>1 DEF AttemptLeft
  <2> QED
    BY <1>upd, <2>1, <2>2, ProgressBehind
<1>3. ASSUME NEW w \in Worker, Post(w)
      PROVE  WebhookInv'
  <2>1. ASSUME NEW a \in Answers,
               worker' = [worker EXCEPT ![w].at = "record", ![w].answer = a],
               UNCHANGED row
        PROVE  WebhookInv'
    <3>1. worker[w] \in Work /\ worker[w].at # "idle"
      BY <1>3, <1>t DEF Post
    <3> DEFINE posted == [worker[w] EXCEPT !.at = "record", !.answer = a]
    <3>2. posted \in Work /\ posted.on = worker[w].on /\ posted.from = worker[w].from
      BY <3>1
    <3>3. worker' = [worker EXCEPT ![w] = posted]
      BY <2>1, <1>t
    <3> HIDE DEF posted
    <3>4. /\ worker' \in [Worker -> Work]
          /\ \A v \in Worker : /\ worker'[v].on = worker[v].on /\ worker'[v].from = worker[v].from
                               /\ worker'[v].at # "idle" => worker[v].at # "idle"
      BY <3>1, <3>2, <3>3, <1>t
    <3>5. UNCHANGED <<row, attempts, batch, endpoint>>
      BY <1>3, <2>1 DEF Post
    <3>6. WebhookTypeOK'
      BY <1>t, <3>4, <3>5 DEF WebhookTypeOK
    <3> QED
      BY <3>4, <3>5, <3>6, <1>s, KeepBehind
  <2>2. CASE /\ UpdateWebhookDeliveryProgress(worker[w].on, worker[w].from, "failed", worker[w].from)
             /\ Rests(w)
    <3>1. worker[w].on \in Delivery /\ worker[w].from \in 0..maxAttempts
      BY <1>3, <1>w DEF Post
    <3>2. /\ row' \in [Delivery -> Rows] /\ AttemptLeft'
          /\ \A e \in Delivery, k \in 0..maxAttempts : Behind(e, k) => Behind(e, k)'
      BY <2>2, <3>1, <1>upd DEF Ended
    <3>3. WebhookTypeOK'
      BY <1>3, <2>2, <1>t, <1>rest, <3>2 DEF Post, WebhookTypeOK
    <3> QED
      BY <1>3, <2>2, <1>rest, <3>2, <3>3, KeepBehind DEF Post
  <2> QED
    BY <1>3, <2>1, <2>2 DEF Post
<1>4. ASSUME NEW w \in Worker, CreateWebhookDeliveryAttempt(w)
      PROVE  WebhookInv'
  <2>1. /\ worker' \in [Worker -> Work]
        /\ \A v \in Worker :
             \/ worker'[v].at = "idle"
             \/ /\ worker[v].at # "idle"
                /\ worker'[v].on = worker[v].on /\ worker'[v].from = worker[v].from
    <3>1. CASE worker' = [worker EXCEPT ![w].at = "advance"]
      BY <1>4, <3>1, <1>t DEF CreateWebhookDeliveryAttempt
    <3>2. CASE Rests(w)
      BY <3>2, <1>rest
    <3> QED
      BY <1>4, <3>1, <3>2 DEF CreateWebhookDeliveryAttempt
  <2>2. attempts' \in [Delivery -> SUBSET (1..maxAttempts)]
    <3>1. worker[w].from + 1 \in 1..maxAttempts
      BY <1>4, <1>w DEF CreateWebhookDeliveryAttempt
    <3>2. \/ attempts' = attempts
          \/ attempts' = [attempts EXCEPT ![worker[w].on] = @ \cup {worker[w].from + 1}]
      BY <1>4 DEF CreateWebhookDeliveryAttempt
    <3> QED
      BY <3>1, <3>2, <1>t
  <2>3. UNCHANGED <<row, batch, endpoint>>
    BY <1>4 DEF CreateWebhookDeliveryAttempt
  <2>4. WebhookTypeOK'
    BY <2>1, <2>2, <2>3, <1>t DEF WebhookTypeOK
  <2> QED
    BY <2>1, <2>3, <2>4, <1>s, KeepBehind
<1>5. ASSUME NEW w \in Worker, Advance(w)
      PROVE  WebhookInv'
  <2>1. /\ worker[w].on \in Delivery /\ worker[w].from \in 0..maxAttempts
        /\ worker[w].from + 1 \in 0..maxAttempts
    BY <1>5, <1>w DEF Advance
  <2>2. /\ row' \in [Delivery -> Rows] /\ AttemptLeft'
        /\ \A e \in Delivery, k \in 0..maxAttempts : Behind(e, k) => Behind(e, k)'
    <3> DEFINE n == worker[w].from + 1
               st == outcome(worker[w].answer, n)
    <3>1. CASE UpdateWebhookDeliveryProgress(worker[w].on, worker[w].from, st, n)
      <4>1. st \in Ended \cup {"pending"} /\ (st = "pending" => n < maxAttempts)
        BY DEF outcome, Ended
      <4> HIDE DEF st
      <4> QED
        BY <3>1, <2>1, <4>1, <1>upd
    <3>2. CASE row' = row
      BY <3>2, <1>t, <1>s
    <3> QED
      BY <1>5, <3>1, <3>2 DEF Advance
  <2>3. WebhookTypeOK'
    BY <1>5, <2>2, <1>t, <1>rest DEF Advance, WebhookTypeOK
  <2> QED
    BY <1>5, <2>2, <2>3, <1>rest, KeepBehind DEF Advance
<1>6. CASE ListDue
  <2>1. UNCHANGED <<row, attempts, worker, endpoint>> /\ batch' = DueRows
    BY <1>6 DEF ListDue
  <2>2. \A e \in Delivery, k \in 0..maxAttempts : <<e, k>> \in DueRows =>
          k = row[e].attempt /\ row[e].status = "pending"
    BY <1>t DEF DueRows
  <2>3. DueRows \subseteq Delivery \X (0..maxAttempts)
    BY <1>t DEF DueRows
  <2>4. WebhookTypeOK'
    BY <2>1, <2>3, <1>t DEF WebhookTypeOK
  <2>5. \A e \in Delivery, k \in 0..maxAttempts : <<e, k>> \in batch' => Behind(e, k)'
    BY <2>1, <2>2, <1>t DEF Behind, Live, AttemptLeft
  <2> QED
    BY <2>1, <2>4, <2>5, <1>s, KeepBehind
<1>7. ASSUME NEW d \in Delivery, NEW n \in 0..maxAttempts, SweepNext(d, n)
      PROVE  WebhookInv'
  <2>1. /\ batch' \subseteq batch /\ UNCHANGED <<attempts, endpoint>> /\ Behind(d, n)
    BY <1>7 DEF SweepNext, WebhookInv, BatchBehind
  <2>2. CASE /\ worker' = [worker EXCEPT ![Sweeper] =
                             [Idle EXCEPT !.at = "send", !.on = d, !.from = n]]
             /\ UNCHANGED row
    <3> DEFINE sent == [Idle EXCEPT !.at = "send", !.on = d, !.from = n]
    <3>1. sent \in Work /\ sent.on = d /\ sent.from = n
      <4>1. d \in 0..MaxDelivery
        BY DEF Delivery
      <4> QED
        BY <1>i, <4>1
    <3> HIDE DEF sent
    <3>2. /\ worker' \in [Worker -> Work]
          /\ \A v \in Worker : v # Sweeper => worker'[v] = worker[v]
          /\ worker'[Sweeper].on = d /\ worker'[Sweeper].from = n
      BY <2>2, <3>1, <1>t DEF sent, Worker
    <3>3. WebhookTypeOK'
      BY <2>1, <2>2, <3>2, <1>t DEF WebhookTypeOK
    <3>4. \A e \in Delivery, k \in 0..maxAttempts : Behind(e, k) => Behind(e, k)'
      BY <2>2, <1>s
    <3> QED
      BY <2>1, <2>2, <3>2, <3>3, <3>4, <1>s, KeepBehind
  <2>3. CASE UpdateWebhookDeliveryProgress(d, n, "failed", n) /\ UNCHANGED worker
    <3>1. /\ row' \in [Delivery -> Rows] /\ AttemptLeft'
          /\ \A e \in Delivery, k \in 0..maxAttempts : Behind(e, k) => Behind(e, k)'
      BY <2>3, <1>upd DEF Ended
    <3>2. WebhookTypeOK'
      BY <2>1, <2>3, <3>1, <1>t DEF WebhookTypeOK
    <3> QED
      BY <2>1, <2>3, <3>1, <3>2, KeepBehind
  <2>4. CASE UNCHANGED <<row, worker>>
    <3>1. WebhookTypeOK'
      BY <2>1, <2>4, <1>t DEF WebhookTypeOK
    <3> QED
      BY <2>1, <2>4, <3>1, <1>s, KeepBehind
  <2> QED
    BY <1>7, <2>2, <2>3, <2>4 DEF SweepNext
<1>8. ASSUME NEW to \in {"enabled", "disabled", "deleted"}, EditEndpoint(to)
      PROVE  WebhookInv'
  <2>1. [NoRow EXCEPT !.status = "pruned"] \in Rows
        /\ [NoRow EXCEPT !.status = "pruned"].status = "pruned"
    <3>1. NoRow \in Rows
      BY DEF NoRow
    <3> QED
      BY <3>1
  <2>2. /\ row' \in [Delivery -> Rows]
        /\ \A e \in Delivery : row'[e] = row[e] \/ row'[e].status = "pruned"
    BY <1>8, <1>t, <2>1 DEF EditEndpoint
  <2>3. WebhookTypeOK'
    BY <1>8, <2>2, <1>t DEF EditEndpoint, WebhookTypeOK
  <2> QED
    BY <1>8, <2>2, <2>3, <1>s, KeepBehind DEF EditEndpoint
<1>9. CASE PlaneRestarts
  <2>1. /\ worker' \in [Worker -> Work] /\ \A w \in Worker : worker'[w].at = "idle"
        /\ batch' = {} /\ UNCHANGED <<row, attempts, endpoint>>
    BY <1>9, <1>i DEF PlaneRestarts
  <2>2. WebhookTypeOK'
    BY <2>1, <1>t DEF WebhookTypeOK
  <2> QED
    BY <2>1, <2>2, <1>s, KeepBehind
<1>10. CASE UNCHANGED webhookVars
  BY <1>10 DEF webhookVars, WebhookInv, WebhookTypeOK, WorkersBehind, BatchBehind, AttemptLeft,
      Behind, Live
<1> QED
  BY <1>1, <1>2, <1>3, <1>4, <1>5, <1>6, <1>7, <1>8, <1>9, <1>10
     DEF WebhookNext, WebhookStep, Attempt, Enqueue, Redeliver

\* No delivery yet, idle workers.
LEMMA WebhookStart == WebhookInit => WebhookInv
<1> SUFFICES ASSUME WebhookInit
             PROVE  WebhookInv
  OBVIOUS
<1>1. WebhookTypeOK
  BY WebhookAssumption DEF WebhookInit, WebhookTypeOK, NoRow, Idle, Delivery, Ended
<1>2. WorkersBehind /\ BatchBehind /\ AttemptLeft
  BY WebhookAssumption DEF WebhookInit, WorkersBehind, BatchBehind, AttemptLeft, NoRow, Idle
<1> QED
  BY <1>1, <1>2 DEF WebhookInv

\* The deliveries' invariant holds in every reachable state: in particular nobody
\* makes more than maxAttempts attempts at a delivery (WebhookTypeOK, AttemptLeft).
THEOREM WebhookInvariance == WebhookSpec => []WebhookInv
<1> QED
  BY WebhookStart, WebhookStepHolds, PTL DEF WebhookSpec

\* "Re-writing ours could resurrect a delivery that already succeeded": no late or
\* concurrent worker takes a success back, however many there are, and whatever the
\* store and the plane do meanwhile (advance, UpdateWebhookDeliveryProgress).
THEOREM SucceededIsFinalHolds == WebhookSpec => SucceededIsFinal
<1> DEFINE Final == \A d \in Delivery :
             row[d].status = "succeeded" => row'[d].status \in {"succeeded", "pruned"}
<1>1. ASSUME WebhookInv, [WebhookNext]_webhookVars
      PROVE  Final
  <2> SUFFICES ASSUME NEW d \in Delivery, row[d].status = "succeeded"
               PROVE  row'[d].status \in {"succeeded", "pruned"}
    OBVIOUS
  <2> USE WebhookAssumption
  <2>upd. ASSUME NEW e \in Delivery, NEW k \in 0..maxAttempts, Behind(e, k), NEW st, NEW n,
                 UpdateWebhookDeliveryProgress(e, k, st, n)
          PROVE  row'[d] = row[d]
    <3>1. row \in [Delivery -> [status : Ended \cup {"none", "pending", "pruned"},
                                attempt : 0..maxAttempts, due : BOOLEAN]]
      BY <1>1 DEF WebhookInv, WebhookTypeOK
    <3>2. CASE e = d
      <4>1. k < row[d].attempt /\ row[d].attempt \in Nat /\ k \in Nat
        BY <2>upd, <3>1, <3>2 DEF Behind
      <4> QED
        BY <2>upd, <3>2, <4>1 DEF UpdateWebhookDeliveryProgress
    <3>3. CASE e # d
      BY <2>upd, <3>1, <3>3 DEF UpdateWebhookDeliveryProgress
    <3> QED
      BY <3>2, <3>3
  <2>w. ASSUME NEW w \in Worker, worker[w].at # "idle"
        PROVE  /\ worker[w].on \in Delivery /\ worker[w].from \in 0..maxAttempts
               /\ Behind(worker[w].on, worker[w].from)
    BY <1>1, <2>w DEF WebhookInv, WebhookTypeOK, WorkersBehind
  <2>g. [NoRow EXCEPT !.status = "pruned"].status = "pruned"
    BY DEF NoRow
  <2>1. ASSUME NEW e \in Delivery, NEW due \in BOOLEAN, Start(e, due)
        PROVE  row'[d].status \in {"succeeded", "pruned"}
    BY <1>1, <2>1, <2>g, PersistRows DEF Start
  <2>2. ASSUME NEW e \in Delivery, Elapse(e)
        PROVE  row'[d].status \in {"succeeded", "pruned"}
    BY <1>1, <2>2 DEF Elapse, WebhookInv, WebhookTypeOK
  <2>3. ASSUME NEW w \in Worker, Post(w)
        PROVE  row'[d].status \in {"succeeded", "pruned"}
    BY <2>3, <2>w, <2>upd DEF Post
  <2>4. ASSUME NEW w \in Worker, Advance(w)
        PROVE  row'[d].status \in {"succeeded", "pruned"}
    BY <2>4, <2>w, <2>upd DEF Advance
  <2>5. ASSUME NEW e \in Delivery, NEW n \in 0..maxAttempts, SweepNext(e, n)
        PROVE  row'[d].status \in {"succeeded", "pruned"}
    <3>1. Behind(e, n)
      BY <1>1, <2>5 DEF SweepNext, WebhookInv, BatchBehind
    <3> QED
      BY <2>5, <3>1, <2>upd DEF SweepNext
  <2>6. ASSUME NEW to \in {"enabled", "disabled", "deleted"}, EditEndpoint(to)
        PROVE  row'[d].status \in {"succeeded", "pruned"}
    BY <1>1, <2>6, <2>g DEF EditEndpoint
  <2>7. CASE UNCHANGED row
    BY <2>7
  <2> QED
    BY <1>1, <2>1, <2>2, <2>3, <2>4, <2>5, <2>6, <2>7
       DEF WebhookNext, WebhookStep, Attempt, Enqueue, Redeliver, ListDue, PlaneRestarts,
           CreateWebhookDeliveryAttempt, webhookVars
<1>2. WebhookInv /\ [WebhookNext]_webhookVars => [Final]_webhookVars
  BY <1>1
<1> QED
  BY <1>2, WebhookInvariance, PTL DEF WebhookSpec, SucceededIsFinal

\* The history and the rows agree after a step that puts nothing on record, if it counts an
\* attempt only when that is on record.
LEMMA HistoryKept ==
  ASSUME WebhookInv, HistoryMatches, RecordedFirst, attempts' = attempts,
         \A d \in Delivery :
           \/ row'[d] = row[d]
           \/ row'[d].status = "pruned"
           \/ row[d].status = "none" /\ row'[d].attempt = 0 /\ row'[d].status # "none"
           \/ /\ Live(d) /\ row'[d].status # "none"
              /\ \/ row'[d].attempt = row[d].attempt
                 \/ row'[d].attempt = row[d].attempt + 1 /\ row[d].attempt + 1 \in attempts[d],
         \A w \in Worker : worker'[w].at = "advance" => worker'[w] = worker[w]
  PROVE  HistoryMatches' /\ RecordedFirst'
<1>1. RecordedFirst'
  BY DEF RecordedFirst, Live
<1>2. ASSUME NEW d \in Delivery, row'[d].status \notin {"none", "pruned"}
      PROVE  1..row'[d].attempt \subseteq attempts[d] /\ attempts[d] \subseteq 1..(row'[d].attempt + 1)
  <2>1. CASE row'[d] = row[d]
    BY <1>2, <2>1 DEF HistoryMatches, Live
  <2>2. CASE row[d].status = "none" /\ row'[d].attempt = 0
    BY <2>2 DEF RecordedFirst
  <2>3. CASE Live(d) /\ row'[d].attempt = row[d].attempt
    BY <2>3 DEF HistoryMatches
  <2>4. CASE Live(d) /\ row'[d].attempt = row[d].attempt + 1 /\ row[d].attempt + 1 \in attempts[d]
    <3>1. row[d].attempt \in Nat
      BY WebhookAssumption DEF WebhookInv, WebhookTypeOK
    <3>2. 1..row[d].attempt \subseteq attempts[d] /\ attempts[d] \subseteq 1..(row[d].attempt + 1)
      BY <2>4 DEF HistoryMatches
    <3>3. \A i \in 1..(row[d].attempt + 1) : i \in 1..row[d].attempt \/ i = row[d].attempt + 1
      BY <3>1
    <3>4. 1..(row[d].attempt + 1) \subseteq 1..(row[d].attempt + 2)
      BY <3>1
    <3> QED
      BY <2>4, <3>1, <3>2, <3>3, <3>4
  <2> QED
    BY <1>2, <2>1, <2>2, <2>3, <2>4
<1>3. HistoryMatches'
  BY <1>2 DEF HistoryMatches, Live
<1> QED
  BY <1>1, <1>3

\* What the compare-and-set does to the rows, for who started from `from`.
LEMMA ProgressRecorded ==
  ASSUME WebhookInv, HistoryMatches, RecordedFirst, attempts' = attempts,
         NEW d \in Delivery, NEW from \in 0..maxAttempts, NEW status \in Ended \cup {"pending"},
         NEW n \in {from, from + 1}, n = from + 1 => n \in attempts[d],
         UpdateWebhookDeliveryProgress(d, from, status, n),
         \A w \in Worker : worker'[w].at = "advance" => worker'[w] = worker[w]
  PROVE  HistoryMatches' /\ RecordedFirst'
<1>1. CASE Live(d) /\ row[d].attempt = from
  <2>1. row' = [row EXCEPT ![d] = [status |-> status, attempt |-> n, due |-> FALSE]]
    BY <1>1 DEF UpdateWebhookDeliveryProgress
  <2>2. \A e \in Delivery : row'[e] = IF e = d THEN [status |-> status, attempt |-> n, due |-> FALSE] ELSE row[e]
    BY <2>1 DEF WebhookInv, WebhookTypeOK
  <2>3. row'[d].status = status /\ row'[d].attempt = n /\ status # "none"
    BY <2>2 DEF Ended
  <2> QED
    BY <1>1, <2>2, <2>3, HistoryKept
<1>2. CASE ~(Live(d) /\ row[d].attempt = from)
  <2>1. row' = row
    BY <1>2 DEF UpdateWebhookDeliveryProgress
  <2> QED
    BY <2>1, HistoryKept
<1> QED
  BY <1>1, <1>2

\* Every step keeps the history in agreement with the rows.
LEMMA HistoryStep ==
  WebhookInv /\ HistoryMatches /\ RecordedFirst /\ [WebhookNext]_webhookVars => HistoryMatches' /\ RecordedFirst'
<1> SUFFICES ASSUME WebhookInv, HistoryMatches, RecordedFirst, [WebhookNext]_webhookVars
             PROVE  HistoryMatches' /\ RecordedFirst'
  OBVIOUS
<1>t. WebhookTypeOK /\ Idle.at = "idle"
  BY DEF WebhookInv, Idle
<1>w. ASSUME NEW w \in Worker, worker[w].at # "idle"
      PROVE  /\ worker[w].on \in Delivery /\ worker[w].from \in 0..maxAttempts
             /\ Behind(worker[w].on, worker[w].from)
  BY <1>w DEF WebhookInv, WorkersBehind, WebhookTypeOK
<1>r. ASSUME NEW w \in Worker, Rests(w)
      PROVE  \A v \in Worker : worker'[v].at = "advance" => worker'[v] = worker[v]
  BY <1>r, <1>t DEF Rests, WebhookTypeOK
<1>1. ASSUME NEW d \in Delivery, NEW due \in BOOLEAN, Start(d, due)
      PROVE  HistoryMatches' /\ RecordedFirst'
  <2>1. /\ \/ row'[d] = [status |-> "pending", attempt |-> 0, due |-> due]
           \/ row'[d] = [NoRow EXCEPT !.status = "pruned"]
        /\ \A e \in Delivery : e # d =>
             \/ row'[e] = row[e]
             \/ row[e].status # "none" /\ row'[e] = [NoRow EXCEPT !.status = "pruned"]
    BY <1>1, PersistRows DEF Start
  <2>2. [NoRow EXCEPT !.status = "pruned"].status = "pruned"
    BY DEF NoRow
  <2>3. /\ row[d].status = "none" /\ attempts' = attempts
        /\ worker' = [worker EXCEPT ![d] = [Idle EXCEPT !.at = "send", !.on = d]]
    BY <1>1 DEF Start
  <2>4. d \in Worker /\ [Idle EXCEPT !.at = "send", !.on = d].at = "send"
    BY DEF Worker, Idle
  <2>5. \A w \in Worker : worker'[w].at = "advance" => worker'[w] = worker[w]
    BY <1>t, <2>3, <2>4 DEF WebhookTypeOK
  <2>6. \A e \in Delivery :
          \/ row'[e] = row[e]
          \/ row'[e].status = "pruned"
          \/ row[e].status = "none" /\ row'[e].attempt = 0 /\ row'[e].status # "none"
    <3>1. row'[d].status = "pruned" \/ (row'[d].attempt = 0 /\ row'[d].status # "none")
      BY <2>1 DEF NoRow
    <3>2. \A e \in Delivery : e # d => row'[e] = row[e] \/ row'[e].status = "pruned"
      BY <2>1, <2>2
    <3> QED
      BY <2>3, <3>1, <3>2
  <2> QED
    BY <2>3, <2>5, <2>6, HistoryKept
<1>2. ASSUME NEW d \in Delivery, Elapse(d)
      PROVE  HistoryMatches' /\ RecordedFirst'
  <2>1. /\ attempts' = attempts /\ worker' = worker
        /\ \A e \in Delivery : row'[e] = row[e] \/ (/\ Live(e) /\ row'[e].status # "none"
                                                    /\ row'[e].attempt = row[e].attempt)
    BY <1>2, <1>t DEF Elapse, WebhookTypeOK, Live
  <2> QED
    BY <2>1, HistoryKept
<1>3. ASSUME NEW w \in Worker, Post(w)
      PROVE  HistoryMatches' /\ RecordedFirst'
  <2>1. worker[w].at = "send" /\ attempts' = attempts
    BY <1>3 DEF Post
  <2>2. ASSUME NEW a \in Answers,
               worker' = [worker EXCEPT ![w].at = "record", ![w].answer = a],
               UNCHANGED row
        PROVE  HistoryMatches' /\ RecordedFirst'
    <3>1. \A v \in Worker : v # w => worker'[v] = worker[v]
      BY <1>t, <2>2 DEF WebhookTypeOK
    <3>2. worker'[w].at = "record"
      BY <1>t, <2>2 DEF WebhookTypeOK
    <3> QED
      BY <2>1, <2>2, <3>1, <3>2, HistoryKept
  <2>3. CASE /\ UpdateWebhookDeliveryProgress(worker[w].on, worker[w].from, "failed", worker[w].from)
             /\ Rests(w)
    <3>1. worker[w].on \in Delivery /\ worker[w].from \in 0..maxAttempts /\ worker[w].from # worker[w].from + 1
      BY <1>w, <2>1
    <3> QED
      BY <1>r, <2>1, <2>3, <3>1, ProgressRecorded DEF Ended
  <2> QED
    BY <1>3, <2>2, <2>3 DEF Post
<1>4. ASSUME NEW w \in Worker, CreateWebhookDeliveryAttempt(w)
      PROVE  HistoryMatches' /\ RecordedFirst'
  <2>1. worker[w].at = "record" /\ row' = row
    BY <1>4 DEF CreateWebhookDeliveryAttempt
  <2>2. CASE Rests(w) /\ attempts' = attempts
    BY <1>r, <2>1, <2>2, HistoryKept
  <2>3. CASE /\ Live(worker[w].on)
             /\ attempts' = [attempts EXCEPT ![worker[w].on] = @ \cup {worker[w].from + 1}]
             /\ worker' = [worker EXCEPT ![w].at = "advance"]
    <3>1. PICK d \in Delivery, from \in 0..maxAttempts : d = worker[w].on /\ from = worker[w].from
      BY <1>w, <2>1
    <3>2. from <= row[d].attempt /\ row[d].attempt \in Nat
      BY <1>t, <1>w, <2>1, <2>3, <3>1 DEF Behind, WebhookTypeOK
    <3>3. \A e \in Delivery : attempts'[e] = IF e = d THEN attempts[e] \cup {from + 1} ELSE attempts[e]
      BY <1>t, <2>3, <3>1 DEF WebhookTypeOK
    <3>4. /\ \A v \in Worker : v # w => worker'[v] = worker[v]
          /\ worker'[w].on = d /\ worker'[w].from = from
      BY <1>t, <2>3, <3>1 DEF WebhookTypeOK
    <3>5. from + 1 \in 1..(row[d].attempt + 1)
      BY <3>2
    <3>6. HistoryMatches'
      BY <2>1, <3>3, <3>5 DEF HistoryMatches, Live
    <3>7. ASSUME NEW v \in Worker, worker'[v].at = "advance"
          PROVE  worker'[v].from + 1 \in attempts'[worker'[v].on]
      <4>1. CASE v = w
        BY <3>3, <3>4, <4>1
      <4>2. CASE v # w
        <5>1. worker[v].at = "advance" /\ worker'[v] = worker[v]
          BY <3>4, <3>7, <4>2
        <5>2. worker[v].on \in Delivery /\ worker[v].from + 1 \in attempts[worker[v].on]
          BY <1>w, <5>1 DEF RecordedFirst
        <5> QED
          BY <3>3, <5>1, <5>2
      <4> QED
        BY <4>1, <4>2
    <3>8. \A e \in Delivery : row'[e].status = "none" => attempts'[e] = {}
      BY <2>1, <2>3, <3>1, <3>3 DEF RecordedFirst, Live
    <3> QED
      BY <3>6, <3>7, <3>8 DEF RecordedFirst
  <2> QED
    BY <1>4, <2>2, <2>3 DEF CreateWebhookDeliveryAttempt
<1>5. ASSUME NEW w \in Worker, Advance(w)
      PROVE  HistoryMatches' /\ RecordedFirst'
  <2>1. worker[w].at = "advance" /\ attempts' = attempts /\ Rests(w)
    BY <1>5 DEF Advance
  <2>2. PICK d \in Delivery, from \in 0..maxAttempts : d = worker[w].on /\ from = worker[w].from
    BY <1>w, <2>1
  <2>3. PICK status : status = outcome(worker[w].answer, from + 1)
    OBVIOUS
  <2>4. status \in Ended \cup {"pending"}
    BY <2>3 DEF outcome, Ended
  <2>5. \A v \in Worker : worker'[v].at = "advance" => worker'[v] = worker[v]
    BY <1>r, <2>1
  <2>6. CASE UpdateWebhookDeliveryProgress(d, from, status, from + 1)
    <3>1. from + 1 \in attempts[d]
      BY <2>1, <2>2 DEF RecordedFirst
    <3> QED
      BY <2>1, <2>4, <2>5, <2>6, <3>1, ProgressRecorded
  <2>7. CASE row' = row
    BY <2>1, <2>5, <2>7, HistoryKept
  <2> QED
    BY <1>5, <2>2, <2>3, <2>6, <2>7 DEF Advance
<1>6. CASE ListDue
  BY <1>6, HistoryKept DEF ListDue
<1>7. ASSUME NEW d \in Delivery, NEW from \in 0..maxAttempts, SweepNext(d, from)
      PROVE  HistoryMatches' /\ RecordedFirst'
  <2>1. attempts' = attempts
    BY <1>7 DEF SweepNext
  <2>2. CASE row' = row
    <3>1. \/ worker' = worker
          \/ worker' = [worker EXCEPT ![Sweeper] = [Idle EXCEPT !.at = "send", !.on = d, !.from = from]]
      BY <1>7 DEF SweepNext
    <3>2. [Idle EXCEPT !.at = "send", !.on = d, !.from = from].at = "send" /\ Sweeper \in Worker
      BY DEF Idle, Worker
    <3>3. \A v \in Worker : worker'[v].at = "advance" => worker'[v] = worker[v]
      BY <1>t, <3>1, <3>2 DEF WebhookTypeOK
    <3> QED
      BY <2>1, <2>2, <3>3, HistoryKept
  <2>3. CASE UpdateWebhookDeliveryProgress(d, from, "failed", from) /\ worker' = worker
    <3>1. from # from + 1
      OBVIOUS
    <3> QED
      BY <2>1, <2>3, <3>1, ProgressRecorded DEF Ended
  <2> QED
    BY <1>7, <2>2, <2>3 DEF SweepNext
<1>8. ASSUME NEW to, EditEndpoint(to)
      PROVE  HistoryMatches' /\ RecordedFirst'
  <2>1. /\ attempts' = attempts /\ worker' = worker
        /\ \A d \in Delivery : row'[d] = row[d] \/ row'[d].status = "pruned"
    BY <1>8, <1>t DEF EditEndpoint, NoRow, WebhookTypeOK
  <2> QED
    BY <2>1, HistoryKept
<1>9. CASE PlaneRestarts
  BY <1>9, <1>t, HistoryKept DEF PlaneRestarts
<1>10. CASE UNCHANGED webhookVars
  BY <1>10, HistoryKept DEF webhookVars
<1> QED
  BY <1>1, <1>2, <1>3, <1>4, <1>5, <1>6, <1>7, <1>8, <1>9, <1>10
     DEF WebhookNext, WebhookStep, Attempt, Enqueue, Redeliver

\* The history an owner reads has every attempt the delivery counts and at most one more,
\* whatever attempts overlap and wherever the plane stops (core/webhooks attempt, advance).
THEOREM HistoryMatchesHolds == WebhookSpec => []HistoryMatches
<1>1. WebhookInit => HistoryMatches /\ RecordedFirst
  BY DEF WebhookInit, HistoryMatches, RecordedFirst, NoRow, Live, Idle
<1> QED
  BY <1>1, WebhookInvariance, HistoryStep, PTL DEF WebhookSpec

-----------------------------------------------------------------------------
(* The log drain.                                                          *)

\* Every step keeps the invariant of the drain: the queue of a shipper stays within its
\* capacity, and the cursor behind what the sink has taken.
LEMMA DrainStepHolds == DrainInv /\ [DrainNext]_drainVars => DrainInv'
<1> SUFFICES ASSUME DrainInv, [DrainNext]_drainVars
             PROVE  DrainInv'
  OBVIOUS
<1> USE DrainAssumption
<1> DEFINE Ship == [up : BOOLEAN, revision : 0..MaxRevision,
                    lines : SUBSET Lines, sending : SUBSET Lines]
           Sound(s) == Cardinality(s.lines) <= QueueCap /\ IsFiniteSet(s.lines)
<1>t. /\ drain \in [row : {"enabled", "disabled", "deleted"}, revision : 1..MaxRevision]
      /\ wanted \in 0..MaxRevision /\ sweeping \in BOOLEAN /\ forgetting \in BOOLEAN
      /\ shipper \in [Shippers -> Ship] /\ \A k \in Shippers : Sound(shipper[k])
      /\ current \in 0..started /\ started \in 0..MaxShipper
      /\ consumer \in [exists : BOOLEAN, out : SUBSET Lines, acked : SUBSET Lines]
      /\ accepted \subseteq Lines /\ lookups \in Nat /\ first \in Nat
      /\ lookups = 0 => consumer.acked \cap InScope \subseteq accepted
  BY DEF DrainInv, DrainTypeOK, AckedIsShipped
<1>e. Cardinality({}) = 0 /\ IsFiniteSet({})
  BY FS_EmptySet
<1>z. 0 \in 0..MaxRevision /\ \A i \in 0..MaxShipper : 0 \in 0..i
  BY DrainAssumption
<1>n. NoShipper \in Ship /\ Sound(NoShipper)
  BY <1>e DEF NoShipper
<1>f. first' \in Nat
  <2>1. first' = first \/ \E l \in Lines : first' = l + 1
    BY DEF DrainNext, SweepLists, SweepApplies, Deliver, AckWaitEnds, Flush, ShipAccepted, ShipRefused,
           Update, Delete, Forget, PlaneCrashes, DiscardOld, Held, drainVars, drainRest
  <2> QED
    BY <2>1, <1>t
<1>q. ASSUME /\ shipper' \in [Shippers -> Ship] /\ \A k \in Shippers : Sound(shipper'[k])
             /\ drain' \in [row : {"enabled", "disabled", "deleted"}, revision : 1..MaxRevision]
             /\ wanted' \in 0..MaxRevision /\ sweeping' \in BOOLEAN /\ forgetting' \in BOOLEAN
             /\ current' \in 0..started' /\ started' \in 0..MaxShipper
             /\ consumer' \in [exists : BOOLEAN, out : SUBSET Lines, acked : SUBSET Lines]
             /\ accepted' \subseteq Lines /\ lookups' \in Nat
             /\ lookups' = 0 => consumer'.acked \cap InScope \subseteq accepted'
      PROVE  DrainInv'
  BY <1>q, <1>f DEF DrainInv, DrainTypeOK, AckedIsShipped
<1>stop. ASSUME NEW k \in 0..MaxShipper
         PROVE  Stopped(k) \in [Shippers -> Ship] /\ \A j \in Shippers : Sound(Stopped(k)[j])
  <2>1. CASE k = 0
    BY <2>1, <1>t DEF Stopped
  <2>2. CASE k # 0
    <3> DEFINE halted == [shipper[k] EXCEPT !.up = FALSE, !.lines = {}]
    <3>1. k \in Shippers
      BY <2>2 DEF Shippers
    <3>2. halted \in Ship /\ halted.lines = {}
      BY <3>1, <1>t
    <3>3. Stopped(k) = [shipper EXCEPT ![k] = halted]
      BY <2>2, <3>1, <1>t DEF Stopped
    <3>4. Sound(halted)
      BY <3>2, <1>e
    <3> HIDE DEF halted, Sound, Ship
    <3> QED
      BY <3>1, <3>2, <3>3, <3>4, <1>t
  <2> QED
    BY <2>1, <2>2
<1>1. CASE SweepLists
  BY <1>1, <1>t, <1>q DEF SweepLists, drainRest
<1>2. CASE SweepApplies
  <2> DEFINE ships == IF Outdated THEN Stopped(current) ELSE shipper
             none  == current = 0 \/ Outdated
  <2>1. ships \in [Shippers -> Ship] /\ \A k \in Shippers : Sound(ships[k])
    BY <1>t, <1>stop
  <2>2. UNCHANGED <<drain, forgetting, accepted, lookups>> /\ sweeping' = FALSE /\ wanted' = 0
    BY <1>2 DEF SweepApplies, drainRest
  <2>r. /\ drain' \in [row : {"enabled", "disabled", "deleted"}, revision : 1..MaxRevision]
        /\ wanted' \in 0..MaxRevision /\ sweeping' \in BOOLEAN /\ forgetting' \in BOOLEAN
        /\ accepted' \subseteq Lines /\ lookups' \in Nat
    <3>1. UNCHANGED <<drain, forgetting, accepted, lookups>>
      BY <2>2
    <3>2. sweeping' \in BOOLEAN /\ wanted' \in 0..MaxRevision
      BY <2>2, <1>z, Zenon
    <3> QED
      BY <3>1, <3>2, <1>t, Zenon
  <2>3. CASE started < MaxShipper /\ StartShipper(ships, wanted)
    <3> DEFINE new == [NoShipper EXCEPT !.up = TRUE, !.revision = wanted]
    <3>1. new \in Ship /\ Sound(new)
      <4>1. new \in Ship /\ new.lines = NoShipper.lines
        BY <1>n, <1>t
      <4> QED
        BY <4>1, <1>n
    <3>2. started + 1 \in Shippers /\ shipper' = [ships EXCEPT ![started + 1] = new]
      BY <2>3, <1>t DEF StartShipper, Shippers
    <3>3. shipper' \in [Shippers -> Ship] /\ \A k \in Shippers : Sound(shipper'[k])
      <4> HIDE DEF new, ships, Sound, Ship
      <4> QED
        BY <2>1, <3>1, <3>2
    <3>4. /\ current' \in 0..started' /\ started' \in 0..MaxShipper
          /\ consumer' \in [exists : BOOLEAN, out : SUBSET Lines, acked : SUBSET Lines]
          /\ consumer'.acked = consumer.acked
      <4>1. started' = started + 1 /\ current' = started + 1 /\ started < MaxShipper
        BY <2>3 DEF StartShipper
      <4>2. consumer' = [consumer EXCEPT !.exists = TRUE]
        BY <2>3 DEF StartShipper
      <4>3. current' \in 0..started' /\ started' \in 0..MaxShipper
        BY <4>1, <1>t, DrainAssumption
      <4> QED
        BY <4>2, <4>3, <1>t
    <3>5. lookups' = 0 => consumer'.acked \cap InScope \subseteq accepted'
      BY <2>2, <3>4, <1>t
    <3> HIDE DEF Sound, Ship, ships
    <3> QED
      BY <2>r, <3>3, <3>4, <3>5, <1>q
  <2>c. ASSUME UNCHANGED <<started, consumer>>
        PROVE  /\ started' \in 0..MaxShipper /\ 0 \in 0..started'
               /\ consumer' \in [exists : BOOLEAN, out : SUBSET Lines, acked : SUBSET Lines]
               /\ lookups' = 0 => consumer'.acked \cap InScope \subseteq accepted'
    BY <2>c, <2>2, <1>t
  <2>4. CASE current' = 0 /\ shipper' = ships /\ UNCHANGED <<started, consumer>>
    <3> HIDE DEF ships, Sound, Ship
    <3> QED
      BY <2>1, <2>r, <2>c, <2>4, <1>q
  <2>5. CASE UNCHANGED <<shipper, current, started, consumer>>
    <3>1. current' \in 0..started'
      BY <2>5, <1>t
    <3> HIDE DEF ships, Sound, Ship
    <3>2. shipper' \in [Shippers -> Ship] /\ \A k \in Shippers : Sound(shipper'[k])
      BY <2>5, <1>t
    <3> QED
      BY <2>r, <2>c, <2>5, <3>1, <3>2, <1>q
  <2> QED
    BY <1>2, <2>3, <2>4, <2>5 DEF SweepApplies
<1>3. ASSUME NEW r \in {"enabled", "disabled"}, Update(r)
      PROVE  DrainInv'
  BY <1>3, <1>t, <1>q DEF Update, drainRest
<1>4. CASE Delete
  BY <1>4, <1>t, <1>q DEF Delete, drainRest
<1>5. CASE Forget
  <2>1. shipper' \in [Shippers -> Ship] /\ \A k \in Shippers : Sound(shipper'[k])
    BY <1>5, <1>t, <1>stop DEF Forget
  <2>2. consumer' = [exists |-> FALSE, out |-> {}, acked |-> {}] /\ current' = 0 /\ forgetting' = FALSE
        /\ UNCHANGED <<drain, wanted, sweeping, started, accepted, lookups>>
    BY <1>5 DEF Forget, NoConsumer, drainRest
  <2>3. /\ drain' \in [row : {"enabled", "disabled", "deleted"}, revision : 1..MaxRevision]
        /\ wanted' \in 0..MaxRevision /\ sweeping' \in BOOLEAN /\ forgetting' \in BOOLEAN
        /\ accepted' \subseteq Lines /\ lookups' \in Nat
        /\ current' \in 0..started' /\ started' \in 0..MaxShipper
    <3>1. UNCHANGED <<drain, wanted, sweeping, started, accepted, lookups>>
      BY <2>2
    <3>2. forgetting' \in BOOLEAN /\ current' \in 0..started'
      BY <2>2, <3>1, <1>z, <1>t, Zenon
    <3> QED
      BY <3>1, <3>2, <1>t, Zenon
  <2>4. /\ consumer' \in [exists : BOOLEAN, out : SUBSET Lines, acked : SUBSET Lines]
        /\ consumer'.acked = {}
    BY <2>2
  <2> HIDE DEF Sound, Ship
  <2> QED
    BY <2>1, <2>3, <2>4, <1>q
<1>6. ASSUME NEW l \in Lines, Deliver(l)
      PROVE  DrainInv'
  <2>1. PICK found \in BOOLEAN :
          /\ lookups' = IF found THEN lookups ELSE lookups + 1
          /\ receive(l, found)
    BY <1>6 DEF Deliver
  <2>2. current \in Shippers
        /\ UNCHANGED <<drain, wanted, sweeping, forgetting, current, started, accepted>>
    BY <1>6, <1>t DEF Deliver, Shippers
  <2>3. CASE consumer' = Ack({l}) /\ UNCHANGED shipper /\ (~found \/ l \notin InScope)
    <3>1. /\ consumer' \in [exists : BOOLEAN, out : SUBSET Lines, acked : SUBSET Lines]
          /\ consumer'.acked = consumer.acked \cup {l}
      BY <2>3, <1>t DEF Ack
    <3>2. lookups' \in Nat /\ (lookups' = 0 => lookups = 0 /\ l \notin InScope)
      BY <2>1, <2>3, <1>t
    <3> HIDE DEF Sound, Ship
    <3> QED
      BY <2>2, <2>3, <3>1, <3>2, <1>t, <1>q
  <2>4. CASE consumer' = FullQueue(l) /\ UNCHANGED shipper /\ found
    <3>1. /\ consumer' \in [exists : BOOLEAN, out : SUBSET Lines, acked : SUBSET Lines]
          /\ consumer'.acked = consumer.acked
      BY <2>4, <1>t DEF FullQueue
    <3> HIDE DEF Sound, Ship
    <3> QED
      BY <2>1, <2>2, <2>4, <3>1, <1>t, <1>q
  <2>5. CASE /\ shipper' = [shipper EXCEPT ![current].lines = @ \cup {l}]
             /\ consumer' = [consumer EXCEPT !.out = @ \cup {l}] /\ found /\ ~Full(current)
    <3> DEFINE fuller == [shipper[current] EXCEPT !.lines = @ \cup {l}]
    <3>1. /\ fuller \in Ship /\ fuller.lines = shipper[current].lines \cup {l}
          /\ shipper' = [shipper EXCEPT ![current] = fuller]
      BY <2>2, <2>5, <1>t
    <3>2. Sound(fuller)
      <4>1. /\ IsFiniteSet(shipper[current].lines)
            /\ ~(Cardinality(shipper[current].lines) >= QueueCap)
        BY <2>2, <2>5, <1>t DEF Full
      <4>2. Cardinality(shipper[current].lines) \in Nat
        BY <4>1, FS_CardinalityType
      <4>3. /\ IsFiniteSet(shipper[current].lines \cup {l})
            /\ Cardinality(shipper[current].lines \cup {l}) \in
                 {Cardinality(shipper[current].lines), Cardinality(shipper[current].lines) + 1}
        BY <4>1, FS_AddElement
      <4> QED
        BY <3>1, <4>1, <4>2, <4>3
    <3>3. shipper' \in [Shippers -> Ship] /\ \A k \in Shippers : Sound(shipper'[k])
      <4> HIDE DEF fuller, Sound, Ship
      <4> QED
        BY <2>2, <3>1, <3>2, <1>t
    <3>4. /\ consumer' \in [exists : BOOLEAN, out : SUBSET Lines, acked : SUBSET Lines]
          /\ consumer'.acked = consumer.acked
      BY <2>5, <1>t
    <3> HIDE DEF Sound, Ship
    <3> QED
      BY <2>1, <2>2, <2>5, <3>3, <3>4, <1>t, <1>q
  <2> QED
    BY <2>1, <2>3, <2>4, <2>5 DEF receive
<1>7. ASSUME NEW l \in Lines, AckWaitEnds(l)
      PROVE  DrainInv'
  <2>1. /\ consumer' \in [exists : BOOLEAN, out : SUBSET Lines, acked : SUBSET Lines]
        /\ consumer'.acked = consumer.acked
    BY <1>7, <1>t DEF AckWaitEnds
  <2> HIDE DEF Sound, Ship
  <2> QED
    BY <1>7, <2>1, <1>t, <1>q DEF AckWaitEnds, drainRest
<1>8. ASSUME NEW k \in Shippers, Flush(k)
      PROVE  DrainInv'
  <2> DEFINE flushed == [shipper[k] EXCEPT !.sending = shipper[k].lines, !.lines = {}]
  <2>1. flushed \in Ship /\ flushed.lines = {}
    BY <1>t
  <2>2. shipper' = [shipper EXCEPT ![k] = flushed]
    BY <1>8, <1>t DEF Flush
  <2>3. Sound(flushed)
    BY <2>1, <1>e
  <2> HIDE DEF flushed, Sound, Ship
  <2>4. shipper' \in [Shippers -> Ship] /\ \A j \in Shippers : Sound(shipper'[j])
    BY <2>1, <2>2, <2>3, <1>t
  <2> QED
    BY <1>8, <2>4, <1>t, <1>q DEF Flush, drainRest
<1>sent. ASSUME NEW k \in Shippers, shipper' = [shipper EXCEPT ![k].sending = {}]
         PROVE  shipper' \in [Shippers -> Ship] /\ \A j \in Shippers : Sound(shipper'[j])
  <2> DEFINE done == [shipper[k] EXCEPT !.sending = {}]
  <2>1. done \in Ship /\ done.lines = shipper[k].lines /\ shipper' = [shipper EXCEPT ![k] = done]
    BY <1>sent, <1>t
  <2>2. Sound(done)
    BY <2>1, <1>t
  <2> HIDE DEF done, Sound, Ship
  <2> QED
    BY <2>1, <2>2, <1>t
<1>9. ASSUME NEW k \in Shippers, ShipAccepted(k)
      PROVE  DrainInv'
  <2>1. shipper' \in [Shippers -> Ship] /\ \A j \in Shippers : Sound(shipper'[j])
    BY <1>9, <1>sent DEF ShipAccepted
  <2>2. /\ accepted' = accepted \cup shipper[k].sending /\ shipper[k].sending \subseteq Lines
        /\ UNCHANGED <<drain, wanted, sweeping, forgetting, current, started, lookups>>
    BY <1>9, <1>t DEF ShipAccepted, drainRest
  <2>3. /\ consumer' \in [exists : BOOLEAN, out : SUBSET Lines, acked : SUBSET Lines]
        /\ consumer'.acked \subseteq consumer.acked \cup shipper[k].sending
    <3>1. CASE consumer' = Ack(shipper[k].sending)
      BY <2>2, <3>1, <1>t DEF Ack
    <3>2. CASE consumer' = consumer
      BY <3>2, <1>t
    <3> QED
      BY <1>9, <3>1, <3>2 DEF ShipAccepted
  <2> HIDE DEF Sound, Ship
  <2>4. lookups' = 0 => consumer'.acked \cap InScope \subseteq accepted'
    BY <2>2, <2>3, <1>t
  <2> QED
    BY <2>1, <2>2, <2>3, <2>4, <1>t, <1>q
<1>10. ASSUME NEW k \in Shippers, ShipRefused(k)
      PROVE  DrainInv'
  <2>1. shipper' \in [Shippers -> Ship] /\ \A j \in Shippers : Sound(shipper'[j])
    BY <1>10, <1>sent DEF ShipRefused
  <2> HIDE DEF Sound, Ship
  <2> QED
    BY <1>10, <2>1, <1>t, <1>q DEF ShipRefused, drainRest
<1>11. CASE PlaneCrashes
  <2>1. /\ wanted' = 0 /\ sweeping' = FALSE /\ forgetting' = FALSE /\ current' = 0
        /\ shipper' = [k \in Shippers |-> NoShipper]
        /\ UNCHANGED <<drain, started, consumer, accepted, lookups>>
    BY <1>11 DEF PlaneCrashes
  <2>2. /\ drain' \in [row : {"enabled", "disabled", "deleted"}, revision : 1..MaxRevision]
        /\ wanted' \in 0..MaxRevision /\ sweeping' \in BOOLEAN /\ forgetting' \in BOOLEAN
        /\ accepted' \subseteq Lines /\ lookups' \in Nat
        /\ current' \in 0..started' /\ started' \in 0..MaxShipper
        /\ consumer' \in [exists : BOOLEAN, out : SUBSET Lines, acked : SUBSET Lines]
        /\ lookups' = 0 => consumer'.acked \cap InScope \subseteq accepted'
    <3>1. UNCHANGED <<drain, started, consumer, accepted, lookups>>
      BY <2>1
    <3>2. /\ forgetting' \in BOOLEAN /\ sweeping' \in BOOLEAN
          /\ current' \in 0..started' /\ wanted' \in 0..MaxRevision
      BY <2>1, <3>1, <1>z, <1>t, Zenon
    <3> QED
      BY <3>1, <3>2, <1>t, Zenon
  <2> HIDE DEF Sound, Ship
  <2>3. shipper' \in [Shippers -> Ship] /\ \A k \in Shippers : Sound(shipper'[k])
    BY <2>1, <1>n
  <2> QED
    BY <2>2, <2>3, <1>q
<1>12. CASE UNCHANGED drainVars
  <2> HIDE DEF Sound, Ship
  <2> QED
    BY <1>12, <1>t, <1>q DEF drainVars, drainRest
<1>13. CASE DiscardOld
  <2> HIDE DEF Sound, Ship
  <2> QED
    BY <1>13, <1>t, <1>q DEF DiscardOld
<1> QED
  BY <1>1, <1>2, <1>3, <1>4, <1>5, <1>6, <1>7, <1>8, <1>9, <1>10, <1>11, <1>12, <1>13 DEF DrainNext

\* No shipper, no consumer, nothing taken by the sink.
LEMMA DrainStart == DrainInit => DrainInv
<1> SUFFICES ASSUME DrainInit
             PROVE  DrainInv
  OBVIOUS
<1>1. \A k \in Shippers : shipper[k] = NoShipper
  BY DEF DrainInit
<1>2. NoShipper.lines = {} /\ Cardinality({}) = 0 /\ IsFiniteSet({})
  BY FS_EmptySet DEF NoShipper
<1>3. \A k \in Shippers : IsFiniteSet(shipper[k].lines) /\ Cardinality(shipper[k].lines) <= QueueCap
  BY <1>1, <1>2, DrainAssumption
<1>4. DrainTypeOK
  <2>1. NoShipper \in [up : BOOLEAN, revision : 0..MaxRevision,
                       lines : SUBSET Lines, sending : SUBSET Lines]
    BY DrainAssumption DEF NoShipper
  <2>2. shipper \in [Shippers -> [up : BOOLEAN, revision : 0..MaxRevision,
                                  lines : SUBSET Lines, sending : SUBSET Lines]]
    BY <2>1 DEF DrainInit
  <2>3. /\ drain \in [row : {"enabled", "disabled", "deleted"}, revision : 1..MaxRevision]
        /\ wanted \in 0..MaxRevision /\ sweeping \in BOOLEAN /\ forgetting \in BOOLEAN
        /\ current \in 0..started /\ started \in 0..MaxShipper /\ accepted \subseteq Lines
    <3>1. 0 \in 0..MaxRevision /\ 1 \in 1..MaxRevision /\ 0 \in 0..MaxShipper /\ 0 \in 0..0
      BY DrainAssumption
    <3>2. drain \in [row : {"enabled", "disabled", "deleted"}, revision : 1..MaxRevision]
      BY <3>1 DEF DrainInit
    <3>3. sweeping \in BOOLEAN /\ forgetting \in BOOLEAN
      BY Zenon DEF DrainInit
    <3> QED
      BY <3>1, <3>2, <3>3 DEF DrainInit
  <2>4. consumer \in [exists : BOOLEAN, out : SUBSET Lines, acked : SUBSET Lines]
    BY DEF DrainInit, NoConsumer
  <2>5. first \in Nat
    BY DEF DrainInit
  <2> QED
    BY <1>3, <2>2, <2>3, <2>4, <2>5 DEF DrainTypeOK
<1>5. lookups \in Nat /\ AckedIsShipped
  BY DEF DrainInit, AckedIsShipped, NoConsumer
<1> QED
  BY <1>3, <1>4, <1>5 DEF DrainInv

\* The invariant of the drain holds in every reachable state; part of it is that a
\* shipper's queue never holds more lines than its capacity (receive).
THEOREM DrainInvariance == DrainSpec => []DrainInv
<1> QED
  BY DrainStart, DrainStepHolds, PTL DEF DrainSpec

\* The cursor passes no line of the drain's project that the sink has not taken, through
\* full queues, replaced shippers, late batches and restarts of the plane, as long as
\* the application of every delivered line could be read (receive, enrich).
THEOREM AckedIsShippedHolds == DrainSpec => [](lookups = 0 => AckedIsShipped)
<1>1. DrainInv => (lookups = 0 => AckedIsShipped)
  BY DEF DrainInv
<1> QED
  BY <1>1, DrainInvariance, PTL

\* A shipper that is stopped neither receives nor holds lines; the others are as they were.
LEMMA StoppedFields ==
  ASSUME DrainTypeOK, NEW k \in Shippers \cup {0}, NEW j \in Shippers
  PROVE  /\ Stopped(k) \in [Shippers -> [up : BOOLEAN, revision : 0..MaxRevision,
                                         lines : SUBSET Lines, sending : SUBSET Lines]]
         /\ IF j = k THEN ~Stopped(k)[j].up /\ Stopped(k)[j].lines = {}
            ELSE Stopped(k)[j] = shipper[j]
<1> DEFINE Ship == [up : BOOLEAN, revision : 0..MaxRevision,
                    lines : SUBSET Lines, sending : SUBSET Lines]
<1>1. shipper \in [Shippers -> Ship] /\ 0 \notin Shippers
  BY DEF DrainTypeOK, Shippers
<1>2. CASE k = 0
  BY <1>1, <1>2 DEF Stopped
<1>3. CASE k \in Shippers
  <2>1. PICK halted : halted = [shipper[k] EXCEPT !.up = FALSE, !.lines = {}]
    OBVIOUS
  <2>2. halted \in Ship /\ ~halted.up /\ halted.lines = {}
    BY <1>1, <1>3, <2>1
  <2>3. Stopped(k) = [shipper EXCEPT ![k] = halted]
    BY <1>1, <1>3, <2>1 DEF Stopped
  <2> QED
    BY <1>1, <1>3, <2>2, <2>3
<1> QED
  BY <1>2, <1>3

\* The shipper the manager knows of goes on: it may take lines and send them.
LEMMA ShippersKept ==
  ASSUME DrainInv, OneShipper, SweepsWhatWas, current' = current,
         drain'.revision \in Nat, drain.revision <= drain'.revision, wanted' <= drain'.revision,
         \A j \in Shippers : /\ shipper'[j].up = shipper[j].up
                             /\ shipper'[j].revision = shipper[j].revision
                             /\ shipper'[j].lines # {} => shipper[j].lines # {} \/ j = current
  PROVE  OneShipper' /\ SweepsWhatWas'
<1>1. drain.revision \in Nat /\ \A j \in Shippers : shipper[j].revision \in 0..MaxRevision
  BY DEF DrainInv, DrainTypeOK
<1>2. ASSUME NEW j \in Shippers
      PROVE  /\ shipper'[j].up \/ shipper'[j].lines # {} => j = current
             /\ j = current => shipper'[j].up /\ shipper'[j].revision \in 1..drain'.revision
  <2>1. /\ shipper[j].up \/ shipper[j].lines # {} => j = current
        /\ j = current => shipper[j].up /\ shipper[j].revision \in 1..drain.revision
    BY Zenon DEF OneShipper
  <2>2. shipper'[j].up \/ shipper'[j].lines # {} => j = current
    BY <2>1, Zenon
  <2>3. j = current => shipper'[j].up
    BY <2>1, Zenon
  <2>4. shipper[j].revision \in 1..drain.revision => shipper'[j].revision \in 1..drain'.revision
    BY <1>1
  <2> QED
    BY <2>1, <2>2, <2>3, <2>4, Zenon
<1> QED
  BY <1>2, Zenon DEF OneShipper, SweepsWhatWas

\* No shipper is known, and none receives.
LEMMA NoneReceives ==
  ASSUME current' = 0, wanted' <= drain'.revision,
         \A j \in Shippers : ~shipper'[j].up /\ shipper'[j].lines = {}
  PROVE  OneShipper' /\ SweepsWhatWas'
<1>1. 0 \notin Shippers
  BY DEF Shippers
<1> QED
  BY <1>1, Zenon DEF OneShipper, SweepsWhatWas

\* Once the shipper that is known is stopped nobody receives.
LEMMA StoppedCurrent ==
  ASSUME DrainInv, OneShipper
  PROVE  \A j \in Shippers : ~Stopped(current)[j].up /\ Stopped(current)[j].lines = {}
<1>1. current \in Shippers \cup {0} /\ DrainTypeOK
  BY DrainAssumption DEF DrainInv, DrainTypeOK, Shippers
<1> TAKE j \in Shippers
<1>2. CASE j = current
  BY <1>1, <1>2, StoppedFields
<1>3. CASE j # current
  <2>1. Stopped(current)[j] = shipper[j]
    BY <1>1, <1>3, StoppedFields
  <2>2. ~shipper[j].up /\ shipper[j].lines = {}
    BY <1>3, Zenon DEF OneShipper
  <2> QED
    BY <2>1, <2>2
<1> QED
  BY <1>2, <1>3

\* Every step keeps one shipper.
LEMMA OneShipperStep == DrainInv /\ OneShipper /\ SweepsWhatWas /\ [DrainNext]_drainVars => OneShipper' /\ SweepsWhatWas'
<1> SUFFICES ASSUME DrainInv, OneShipper, SweepsWhatWas, [DrainNext]_drainVars
             PROVE  OneShipper' /\ SweepsWhatWas'
  OBVIOUS
<1> DEFINE Ship == [up : BOOLEAN, revision : 0..MaxRevision,
                    lines : SUBSET Lines, sending : SUBSET Lines]
<1>t. /\ shipper \in [Shippers -> Ship] /\ DrainTypeOK
      /\ current \in Shippers \cup {0} /\ 0 \notin Shippers
      /\ wanted \in Nat /\ drain.revision \in Nat /\ wanted <= drain.revision
      /\ 0 <= drain.revision
  BY DrainAssumption DEF DrainInv, DrainTypeOK, Shippers, SweepsWhatWas
<1>s. ASSUME shipper' = shipper, current' = current, drain' = drain, wanted' \in {0, wanted, drain.revision}
      PROVE  OneShipper' /\ SweepsWhatWas'
  BY <1>s, <1>t, ShippersKept
<1>1. CASE SweepLists
  BY <1>1, <1>s DEF SweepLists
<1>2. CASE SweepApplies
  <2>1. PICK ships : ships = IF Outdated THEN Stopped(current) ELSE shipper
    OBVIOUS
  <2>2. ships \in [Shippers -> Ship]
    <3>1. Shippers # {} => Stopped(current) \in [Shippers -> Ship]
      BY <1>t, StoppedFields
    <3>2. Shippers = {} => Stopped(current) = shipper
      BY <1>t DEF Stopped
    <3> QED
      BY <1>t, <2>1, <3>1, <3>2
  <2>3. current = 0 \/ Outdated => \A j \in Shippers : ~ships[j].up /\ ships[j].lines = {}
    <3>1. CASE Outdated
      BY <2>1, <3>1, StoppedCurrent
    <3>2. CASE current = 0 /\ ~Outdated
      BY <1>t, <2>1, <3>2, Zenon DEF OneShipper
    <3> QED
      BY <3>1, <3>2
  <2>4. drain' = drain /\ wanted' = 0
    BY <1>2 DEF SweepApplies
  <2>5. CASE wanted # 0 /\ (current = 0 \/ Outdated) /\ started < MaxShipper /\ StartShipper(ships, wanted)
    <3>1. PICK fresh : fresh = [NoShipper EXCEPT !.up = TRUE, !.revision = wanted]
      OBVIOUS
    <3>2. fresh.up /\ fresh.revision = wanted
      BY <3>1 DEF NoShipper
    <3>3. started + 1 \in Shippers /\ current' = started + 1 /\ shipper' = [ships EXCEPT ![started + 1] = fresh]
      <4>1. started \in Nat /\ started < MaxShipper /\ MaxShipper \in Nat
        BY <1>t, <2>5, DrainAssumption DEF DrainTypeOK
      <4>2. started + 1 \in Shippers
        BY <4>1 DEF Shippers
      <4> QED
        BY <2>5, <3>1, <4>2 DEF StartShipper
    <3>4. \A j \in Shippers : shipper'[j] = IF j = current' THEN fresh ELSE ships[j]
      BY <2>2, <3>3
    <3>5. wanted \in 1..drain'.revision /\ wanted' <= drain'.revision
      BY <1>t, <2>4, <2>5
    <3>6. \A j \in Shippers :
            /\ shipper'[j].up \/ shipper'[j].lines # {} => j = current'
            /\ j = current' => shipper'[j].up /\ shipper'[j].revision \in 1..drain'.revision
      BY <2>3, <2>5, <3>2, <3>4, <3>5
    <3> QED
      BY <3>5, <3>6, Zenon DEF OneShipper, SweepsWhatWas
  <2>6. CASE wanted = 0 /\ current' = 0 /\ shipper' = ships
    <3>1. current # 0 => Outdated
      <4>1. current # 0 => shipper[current].revision \in 1..drain.revision
        BY <1>t, Zenon DEF OneShipper
      <4> QED
        BY <2>6, <4>1 DEF Outdated
    <3>2. wanted' <= drain'.revision
      BY <1>t, <2>4
    <3> QED
      BY <2>3, <2>6, <3>1, <3>2, NoneReceives
  <2>7. CASE UNCHANGED <<shipper, current>>
    BY <1>s, <2>4, <2>7
  <2> QED
    BY <1>2, <2>1, <2>5, <2>6, <2>7 DEF SweepApplies
<1>3. ASSUME NEW to, Update(to)
      PROVE  OneShipper' /\ SweepsWhatWas'
  <2>1. /\ drain' = [row |-> to, revision |-> drain.revision + 1]
        /\ wanted' = wanted /\ shipper' = shipper /\ current' = current
    BY <1>3 DEF Update
  <2>2. drain'.revision = drain.revision + 1
    BY <2>1
  <2> QED
    BY <1>t, <2>1, <2>2, ShippersKept
<1>4. CASE Delete
  <2>1. drain' = [drain EXCEPT !.row = "deleted"] /\ wanted' = wanted /\ shipper' = shipper /\ current' = current
    BY <1>4 DEF Delete
  <2>2. drain'.revision = drain.revision
    BY <2>1 DEF DrainInv, DrainTypeOK
  <2> QED
    BY <1>t, <2>1, <2>2, ShippersKept
<1>5. CASE Forget
  <2>1. drain' = drain /\ wanted' = wanted /\ shipper' = Stopped(current) /\ current' = 0
    BY <1>5 DEF Forget
  <2> QED
    BY <1>t, <2>1, StoppedCurrent, NoneReceives
<1>6. ASSUME NEW l \in Lines, Deliver(l)
      PROVE  OneShipper' /\ SweepsWhatWas'
  <2>1. /\ drain' = drain /\ wanted' = wanted /\ current' = current /\ current \in Shippers
        /\ shipper' = shipper \/ shipper' = [shipper EXCEPT ![current].lines = @ \cup {l}]
    BY <1>6, <1>t DEF Deliver, receive
  <2>2. CASE shipper' = [shipper EXCEPT ![current].lines = @ \cup {l}]
    <3>1. \A j \in Shippers : /\ shipper'[j].up = shipper[j].up
                              /\ shipper'[j].revision = shipper[j].revision
                              /\ shipper'[j].lines # {} => shipper[j].lines # {} \/ j = current
      BY <1>t, <2>1, <2>2
    <3> QED
      BY <1>t, <2>1, <3>1, ShippersKept
  <2> QED
    BY <1>s, <2>1, <2>2
<1>7. ASSUME NEW l \in Lines, AckWaitEnds(l)
      PROVE  OneShipper' /\ SweepsWhatWas'
  BY <1>7, <1>s DEF AckWaitEnds
<1>8. ASSUME NEW k \in Shippers, Flush(k) \/ ShipAccepted(k) \/ ShipRefused(k)
      PROVE  OneShipper' /\ SweepsWhatWas'
  <2>1. /\ drain' = drain /\ wanted' = wanted /\ current' = current
        /\ \/ shipper' = [shipper EXCEPT ![k].sending = shipper[k].lines, ![k].lines = {}]
           \/ shipper' = [shipper EXCEPT ![k].sending = {}]
    BY <1>8 DEF Flush, ShipAccepted, ShipRefused
  <2>2. \A j \in Shippers : /\ shipper'[j].up = shipper[j].up
                            /\ shipper'[j].revision = shipper[j].revision
                            /\ shipper'[j].lines # {} => shipper[j].lines # {}
    BY <1>t, <2>1
  <2> QED
    BY <1>t, <2>1, <2>2, ShippersKept
<1>9. CASE PlaneCrashes
  <2>1. /\ drain' = drain /\ wanted' = 0 /\ current' = 0
        /\ \A j \in Shippers : shipper'[j] = NoShipper
    BY <1>9 DEF PlaneCrashes
  <2> QED
    BY <1>t, <2>1, NoneReceives DEF NoShipper
<1>10. CASE UNCHANGED drainVars \/ DiscardOld
  BY <1>10, <1>s DEF drainVars, DiscardOld
<1> QED
  BY <1>1, <1>2, <1>3, <1>4, <1>5, <1>6, <1>7, <1>8, <1>9, <1>10 DEF DrainNext

\* Whatever sweeps, edits, deletions and restarts of the plane come between the two halves of
\* a sweep, at most one shipper receives the lines of a drain, and it is the one the manager
\* can stop (core/logdrain manager.go sweep, Forget).
THEOREM OneShipperHolds == DrainSpec => []OneShipper
<1>1. DrainInit => OneShipper /\ SweepsWhatWas
  <2>1. DrainInit => wanted = 0 /\ drain.revision = 1 /\ current = 0 /\ \A j \in Shippers : shipper[j] = NoShipper
    BY DEF DrainInit
  <2> QED
    BY <2>1 DEF OneShipper, SweepsWhatWas, NoShipper, Shippers
<1> QED
  BY <1>1, DrainInvariance, OneShipperStep, PTL DEF DrainSpec

-----------------------------------------------------------------------------
(* The work loop.                                                          *)

\* The item in hand is an unacknowledged item, in flight.
LEMMA InHandIsHeld ==
  ASSUME WorkerInv, hand # NoItem
  PROVE  InHand \in items /\ InHand.id = hand /\ ItemOK(InHand) /\ InHand.state = "flying"
<1>1. \E i \in items : i.id = hand
  BY DEF WorkerInv, HandOK
<1>2. InHand \in items /\ InHand.id = hand
  BY <1>1, Zenon DEF InHand
<1> QED
  BY <1>2 DEF WorkerInv, StreamOK, ItemOK

\* A published item is a new one: its id was never given out, and nothing is in hand under it.
LEMMA PublishKeeps ==
  ASSUME WorkerInv, NEW kind \in Kinds, NEW r \in Resources \cup {"route"},
         NEW v \in {0} \cup Versions, Publish(kind, r, v),
         kind \in {"rollout", "converge", "remove"} => r = "app",
         kind # "resync" => r \in Resources /\ v <= want'[r],
         \A q \in Resources : want'[q] \in Versions /\ want[q] <= want'[q],
         UNCHANGED <<agent, hand, agentDeaths>>
  PROVE  StreamOK' /\ HandOK'
<1> USE WorkerAssumption
<1>0. PICK new : new = [id |-> serial + 1, kind |-> kind, res |-> r, spec |-> v, sent |-> 0,
                        state |-> "new"]
  OBVIOUS
<1>1. new \in WorkItems /\ new.id = serial + 1 /\ new.kind = kind /\ new.res = r /\ new.spec = v
      /\ new.sent = 0 /\ new.state = "new"
  BY <1>0 DEF WorkerInv, StreamOK, WorkItems
<1>2. items' = items \cup {new} /\ serial' = serial + 1 /\ serial \in Nat /\ agentDeaths \in Nat
  BY <1>0 DEF Publish, WorkerInv, StreamOK
<1>3. \A i \in items : i.id \in Nat /\ i.id <= serial
  BY DEF WorkerInv, StreamOK, ItemOK, WorkItems
<1>4. hand # serial + 1
  BY <1>2, <1>3 DEF WorkerInv, HandOK, NoItem
<1>5. ASSUME NEW i \in items
      PROVE  ItemOK(i)'
  <2>1. ItemOK(i)
    BY DEF WorkerInv, StreamOK
  <2>2. i.kind # "resync" => i.res \in Resources /\ i.spec <= want'[i.res]
    <3> SUFFICES ASSUME i.kind # "resync"
                 PROVE  i.res \in Resources /\ i.spec <= want'[i.res]
      OBVIOUS
    <3>1. i.res \in Resources /\ i.spec <= want[i.res] /\ i.spec \in {0} \cup Versions
      BY <2>1 DEF ItemOK, WorkItems
    <3>2. want[i.res] \in Versions /\ want'[i.res] \in Versions /\ want[i.res] <= want'[i.res]
      BY <3>1 DEF WorkerInv, VersionsOK
    <3> QED
      BY <3>1, <3>2 DEF Versions
  <2> QED
    BY <2>1, <2>2, <1>2, <1>3 DEF ItemOK
<1>6. ItemOK(new)'
  BY <1>1, <1>2, <1>4 DEF ItemOK
<1>7. StreamOK'
  <2>1. \A i, j \in items' : i.id = j.id => i = j
    BY <1>1, <1>2, <1>3 DEF WorkerInv, StreamOK
  <2> QED
    BY <1>2, <1>5, <1>6, <2>1 DEF StreamOK
<1>8. HandOK'
  BY <1>1, <1>2, <1>4 DEF WorkerInv, HandOK
<1> QED
  BY <1>7, <1>8

\* What every change of the desired state does: one resource is asked for in a version of
\* its own, newer than all before.
LEMMA ChangeKeeps ==
  ASSUME WorkerInv, NEW r \in Resources, NEW absent \in BOOLEAN, ChangeOf(r, absent)
  PROVE  /\ newest' \in Versions /\ newest' = newest + 1 /\ gone' \subseteq Versions
         /\ want' \in [Resources -> Versions] /\ want'[r] = newest + 1
         /\ \A q \in Resources : /\ q # r => want'[q] = want[q]
                                 /\ want[q] <= want'[q] /\ want'[q] <= newest'
<1> USE WorkerAssumption
<1>1. newest \in Nat /\ newest + 1 \in Versions /\ newest' = newest + 1
  BY DEF WorkerInv, VersionsOK, ChangeOf, Versions
<1>2. want' = [want EXCEPT ![r] = newest + 1] /\ want \in [Resources -> Versions]
  BY DEF WorkerInv, VersionsOK, ChangeOf
<1>3. \A q \in Resources : want[q] \in Nat /\ want[q] <= newest
  BY <1>2 DEF WorkerInv, VersionsOK, Versions
<1>4. gone' \subseteq Versions
  BY <1>1 DEF ChangeOf, WorkerInv, VersionsOK
<1> QED
  BY <1>1, <1>2, <1>3, <1>4

\* What the agent has held grows, up to what was asked for.
LEMMA HoldKeeps ==
  ASSUME WorkerInv, NEW h \in [Resources -> {0} \cup Versions],
         \A r \in Resources : h[r] <= want[r], Hold(h)
  PROVE  /\ held' = h /\ reached' \in [Resources -> {0} \cup Versions]
         /\ \A r \in Resources : /\ reached'[r] <= want[r]
                                 /\ reached[r] = want[r] => reached'[r] = want[r]
                                 /\ h[r] = want[r] => reached'[r] = want[r]
<1> USE WorkerAssumption
<1>1. held' = h /\ reached' = [r \in Resources |-> NewerOf(reached[r], h[r])]
  BY DEF Hold
<1>2. ASSUME NEW r \in Resources
      PROVE  /\ reached[r] \in {0} \cup Versions /\ h[r] \in {0} \cup Versions
             /\ want[r] \in Versions /\ reached[r] <= want[r]
  BY DEF WorkerInv, VersionsOK
<1> QED
  BY <1>1, <1>2 DEF NewerOf, Versions

\* Reconciling leaves some version of each resource, or none, on the host.
LEMMA ReconcileKeeps ==
  ASSUME WorkerInv, NEW h \in [Resources -> {0} \cup Versions], NEW missed, ReconcileOK(h, missed)
  PROVE  host' \in [Resources -> {0} \cup Versions]
<1>1. PICK left \in Leftovers("db") : host' = HostConverged(h, missed, left)
  BY DEF ReconcileOK
<1>2. host \in [Resources -> {0} \cup Versions]
  BY DEF WorkerInv, VersionsOK
<1>3. left \in {0} \cup Versions
  BY <1>1, <1>2 DEF Leftovers
<1> QED
  BY <1>1, <1>2, <1>3 DEF HostConverged, Made

\* An item replaced by a copy of itself in another state, with the hand it leaves behind.
LEMMA SwapKeeps ==
  ASSUME WorkerInv, NEW i \in items, NEW j \in WorkItems, items' = (items \ {i}) \cup {j},
         j.id = i.id, j.kind = i.kind, j.res = i.res, j.spec = i.spec,
         j.state = "flying" <=> j.id = hand',
         \A k \in items : k.id # i.id => (k.id = hand <=> k.id = hand'),
         j.kind \in Limited => j.sent <= Cutoff + agentDeaths,
         j.kind \in Limited /\ j.state # "flying" => j.sent < Cutoff + agentDeaths,
         UNCHANGED <<serial, want, agentDeaths>>
  PROVE  StreamOK'
<1>1. ASSUME NEW k \in items, k.id # i.id
      PROVE  ItemOK(k)'
  BY <1>1 DEF WorkerInv, StreamOK, ItemOK
<1>2. ItemOK(j)'
  BY DEF WorkerInv, StreamOK, ItemOK
<1>3. \A k \in items : k.id = i.id => k = i
  BY DEF WorkerInv, StreamOK
<1>4. \A k, l \in items' : k.id = l.id => k = l
  BY <1>3 DEF WorkerInv, StreamOK
<1>5. \A k \in items' : ItemOK(k)'
  BY <1>1, <1>2, <1>3
<1> QED
  BY <1>4, <1>5 DEF WorkerInv, StreamOK

\* An item in hand that is acknowledged, or given up.
LEMMA AckKeeps ==
  ASSUME WorkerInv, hand # NoItem, AckItem, UNCHANGED <<serial, want, agentDeaths>>
  PROVE  StreamOK' /\ HandOK' /\ items' = items \ {InHand} /\ agent' = "idle"
<1>1. items' = items \ {InHand} /\ agent' = "idle" /\ hand' = NoItem
  BY DEF AckItem, PutDown
<1>2. InHand \in items /\ InHand.id = hand
  BY InHandIsHeld
<1>3. ASSUME NEW k \in items'
      PROVE  ItemOK(k)'
  <2>1. k \in items /\ ItemOK(k) /\ k.id # hand
    BY <1>1, <1>2 DEF WorkerInv, StreamOK
  <2>2. k.id # NoItem
    BY <2>1 DEF ItemOK, WorkItems, NoItem
  <2> QED
    BY <1>1, <2>1, <2>2 DEF ItemOK
<1>4. StreamOK'
  BY <1>1, <1>3 DEF WorkerInv, StreamOK
<1> QED
  BY <1>1, <1>4 DEF HandOK

\* A failed item is handed back, with a copy that carries the same work, unless it is given
\* up at the cutoff.
LEMMA NakKeeps ==
  ASSUME WorkerInv, hand # NoItem, NakOrTerm, UNCHANGED <<serial, want, agentDeaths>>
  PROVE  /\ StreamOK' /\ HandOK' /\ agent' = "idle"
         /\ \/ items' = items \ {InHand} /\ InHand.kind \in Limited /\ InHand.sent >= Cutoff
            \/ \A i \in items : \E j \in items' : j.kind = i.kind /\ j.res = i.res /\ j.spec = i.spec
<1> USE WorkerAssumption
<1>1. CASE AckItem /\ InHand.kind \in Limited /\ InHand.sent >= Cutoff
  BY <1>1, AckKeeps
<1>2. CASE NakItem /\ ~(InHand.kind \in Limited /\ InHand.sent >= Cutoff)
  <2>1. PICK i \in items : i = InHand /\ i.id = hand /\ ItemOK(i)
    BY InHandIsHeld
  <2>2. PICK j : j = [i EXCEPT !.state = "waiting"]
    OBVIOUS
  <2>3. i \in WorkItems
    BY <2>1 DEF ItemOK
  <2>4. j \in WorkItems /\ j.id = i.id /\ j.kind = i.kind /\ j.res = i.res /\ j.spec = i.spec
        /\ j.sent = i.sent /\ j.state = "waiting"
    BY <2>2, <2>3 DEF WorkItems
  <2>5. items' = (items \ {i}) \cup {j} /\ agent' = "idle" /\ hand' = NoItem
    BY <1>2, <2>1, <2>2 DEF NakItem, PutDown
  <2>6. j.kind \in Limited => j.sent < Cutoff + agentDeaths
    <3>1. j.sent \in Nat /\ agentDeaths \in Nat /\ Cutoff \in Nat
      BY <2>3, <2>4 DEF WorkItems, WorkerInv, StreamOK
    <3> QED
      BY <1>2, <2>1, <2>4, <3>1
  <2>7. \A k \in items : k.id # NoItem
    BY DEF WorkerInv, StreamOK, ItemOK, WorkItems, NoItem
  <2>8. StreamOK'
    <3>1. j.sent \in Nat /\ agentDeaths \in Nat /\ Cutoff \in Nat
      BY <2>3, <2>4 DEF WorkItems, WorkerInv, StreamOK
    <3>2. j.kind \in Limited => j.sent <= Cutoff + agentDeaths
      BY <2>6, <3>1
    <3>3. j.state = "flying" <=> j.id = hand'
      BY <2>1, <2>4, <2>5, <2>7
    <3>4. \A k \in items : k.id # i.id => (k.id = hand <=> k.id = hand')
      BY <2>1, <2>5, <2>7
    <3> QED
      BY <2>1, <2>4, <2>5, <2>6, <3>2, <3>3, <3>4, SwapKeeps
  <2>9. HandOK'
    BY <2>5 DEF HandOK
  <2> QED
    BY <2>4, <2>5, <2>8, <2>9
<1> QED
  BY <1>1, <1>2 DEF NakOrTerm

\* A version that was on its way to the agent still is, or has arrived, when the items that
\* carry it are kept.
LEMMA StillOnItsWay ==
  ASSUME WorkerInv, NEW r \in Resources, want'[r] = want[r], reading'[r] = reading[r],
         reached[r] = want[r] => reached'[r] = want[r], lostNudge => lostNudge',
         \A i \in items : i.kind # "resync" /\ i.res = r /\ i.spec = want[r] =>
           \/ reached'[r] = want[r]
           \/ \E j \in items' : j.kind # "resync" /\ j.res = r /\ j.spec = want[r],
         \A i \in items : i.kind = "resync" /\ ~(agent = "synced" /\ i.id = hand) /\ r = "route" =>
           \/ reached'[r] = want[r] \/ lostNudge'
           \/ \E j \in items' : j.kind = "resync" /\ ~(agent' = "synced" /\ j.id = hand')
  PROVE  reached'[r] = want'[r] \/ OnItsWay(r)'
<1>1. reached[r] = want[r] \/ OnItsWay(r)
  BY DEF WorkerInv
<1>2. CASE reached[r] = want[r]
  BY <1>2
<1>3. CASE reading[r] = want[r]
  BY <1>3 DEF OnItsWay
<1>4. CASE r = "route" /\ lostNudge
  BY <1>4, Zenon DEF OnItsWay
<1>5. CASE \E i \in items : i.kind # "resync" /\ i.res = r /\ i.spec = want[r]
  BY <1>5 DEF OnItsWay
<1>6. CASE r = "route" /\ \E i \in items : i.kind = "resync" /\ ~(agent = "synced" /\ i.id = hand)
  BY <1>6, Zenon DEF OnItsWay
<1> QED
  BY <1>1, <1>2, <1>3, <1>4, <1>5, <1>6, Zenon DEF OnItsWay

\* The same when every item is kept, as it is or as a copy.
LEMMA KeptOnItsWay ==
  ASSUME WorkerInv, NEW r \in Resources, want'[r] = want[r], reading'[r] = reading[r],
         reached[r] = want[r] => reached'[r] = want[r], lostNudge => lostNudge',
         \A i \in items : \E j \in items' :
           /\ j.kind = i.kind /\ j.res = i.res /\ j.spec = i.spec
           /\ ~(agent = "synced" /\ i.id = hand) => ~(agent' = "synced" /\ j.id = hand')
  PROVE  reached'[r] = want'[r] \/ OnItsWay(r)'
<1>1. ASSUME NEW i \in items, i.kind # "resync" /\ i.res = r /\ i.spec = want[r]
      PROVE  \E j \in items' : j.kind # "resync" /\ j.res = r /\ j.spec = want[r]
  BY <1>1
<1>2. ASSUME NEW i \in items, i.kind = "resync" /\ ~(agent = "synced" /\ i.id = hand)
      PROVE  \E j \in items' : j.kind = "resync" /\ ~(agent' = "synced" /\ j.id = hand')
  BY <1>2
<1> QED
  BY <1>1, <1>2, StillOnItsWay, Zenon

\* A change of the desired state that is published in the same step.
LEMMA PublishedChange ==
  ASSUME WorkerInv, NEW r \in Resources, NEW absent \in BOOLEAN, ChangeOf(r, absent),
         NEW kind \in Kinds, NEW v \in {0} \cup Versions, Publish(kind, r, v),
         kind \in {"rollout", "converge", "remove"} => r = "app",
         IF kind = "resync" THEN r = "route" ELSE v = newest + 1,
         rollingOut' \in {0} \cup Versions, UNCHANGED <<reading, agentSide>>
  PROVE  WorkerInv'
<1> USE WorkerAssumption
<1>u. UNCHANGED <<reading, agent, hand, held, host, reached, lostNudge, agentDeaths>>
  BY DEF agentSide
<1>v. VersionsOK
  BY DEF WorkerInv
<1>1. /\ newest' \in Versions /\ newest' = newest + 1 /\ gone' \subseteq Versions
      /\ want' \in [Resources -> Versions] /\ want'[r] = newest + 1
      /\ \A q \in Resources : /\ q # r => want'[q] = want[q]
                              /\ want[q] <= want'[q] /\ want'[q] <= newest'
  BY ChangeKeeps
<1>2. v \in Nat /\ newest \in Nat
  BY <1>v DEF VersionsOK, Versions
<1>3. StreamOK' /\ HandOK'
  <2>1. kind # "resync" => v <= want'[r]
    BY <1>1, <1>2
  <2> QED
    BY <1>1, <1>u, <2>1, PublishKeeps
<1>4. VersionsOK'
  <2>1. \A q \in Resources : /\ want'[q] <= newest' /\ reading'[q] <= want'[q]
                             /\ held'[q] <= want'[q] /\ reached'[q] <= want'[q]
    <3> TAKE q \in Resources
    <3>1. /\ want[q] \in Versions /\ reading[q] \in {0} \cup Versions
          /\ held[q] \in {0} \cup Versions /\ reached[q] \in {0} \cup Versions
          /\ reading[q] <= want[q] /\ held[q] <= want[q] /\ reached[q] <= want[q]
      BY <1>v DEF VersionsOK
    <3> QED
      BY <1>1, <1>u, <3>1 DEF Versions
  <2> QED
    BY <1>1, <1>u, <1>v, <2>1 DEF VersionsOK
<1>5. PICK new : /\ new \in items' /\ items \subseteq items' /\ new.kind = kind /\ new.res = r
                 /\ new.spec = v /\ new.id = serial + 1
  <2>1. PICK new : new = [id |-> serial + 1, kind |-> kind, res |-> r, spec |-> v, sent |-> 0,
                          state |-> "new"]
    OBVIOUS
  <2>2. items' = items \cup {new}
    BY <2>1 DEF Publish
  <2> QED
    BY <2>1, <2>2
<1>6. ASSUME NEW q \in Resources
      PROVE  reached'[q] = want'[q] \/ OnItsWay(q)'
  <2>1. CASE q = r /\ kind # "resync"
    BY <2>1, <1>1, <1>5 DEF OnItsWay
  <2>2. CASE q = r /\ kind = "resync"
    <3>1. hand # serial + 1
      BY DEF WorkerInv, HandOK, StreamOK, ItemOK, WorkItems, NoItem
    <3>2. q = "route" /\ new.kind = "resync" /\ ~(agent' = "synced" /\ new.id = hand')
      BY <2>2, <1>5, <1>u, <3>1
    <3> QED
      BY <1>5, <3>2 DEF OnItsWay
  <2>3. CASE q # r
    <3>1. want'[q] = want[q] /\ reading'[q] = reading[q] /\ reached'[q] = reached[q]
      BY <2>3, <1>1, <1>u
    <3>2. lostNudge => lostNudge'
      BY <1>u, Zenon
    <3> QED
      BY <1>5, <1>u, <3>1, <3>2, KeptOnItsWay
  <2> QED
    BY <2>1, <2>2, <2>3
<1> QED
  BY <1>3, <1>4, <1>6 DEF WorkerInv

\* Every step of the plane keeps the worker's invariant.
LEMMA PlaneStepHolds == WorkerInv /\ PlaneStep => WorkerInv'
<1> SUFFICES ASSUME WorkerInv, PlaneStep
             PROVE  WorkerInv'
  OBVIOUS
<1> USE WorkerAssumption
<1>v. VersionsOK /\ StreamOK /\ HandOK
  BY DEF WorkerInv
<1>n. newest < MaxDesired + 1 => newest + 1 \in {0} \cup Versions
  BY <1>v DEF VersionsOK, Versions
<1>k. Kinds = {"rollout", "converge", "remove", "resync", "db.provision", "db.remove",
               "compose.converge", "compose.remove"}
  BY DEF Kinds
<1>1. CASE StartRollout
  <2>1. "app" \in Resources /\ ChangeOf("app", FALSE) /\ newest + 1 \in {0} \cup Versions
    BY <1>1, <1>n DEF StartRollout, Exists, ChangeOf
  <2>2. Publish("rollout", "app", newest + 1) /\ rollingOut' = newest + 1
        /\ UNCHANGED <<reading, agentSide>>
    BY <1>1 DEF StartRollout
  <2> QED
    BY <1>k, <2>1, <2>2, PublishedChange
<1>2. CASE RolloutEnds
  <2>1. UNCHANGED <<want, gone, newest, reading, items, serial, agent, hand, held, host, reached,
                    lostNudge, agentDeaths>> /\ rollingOut' = 0
    BY <1>2 DEF RolloutEnds, streamVars, agentSide
  <2>2. VersionsOK'
    BY <2>1, <1>v DEF VersionsOK
  <2>3. StreamOK' /\ HandOK'
    BY <2>1, <1>v DEF StreamOK, ItemOK, HandOK
  <2> QED
    BY <2>1, <2>2, <2>3 DEF WorkerInv, OnItsWay
<1>3. CASE RequestResync
  <2>1. UNCHANGED <<want, gone, rollingOut, reading, agent, hand, held, host, reached, lostNudge,
                    agentDeaths>> /\ newest' = newest + 1 /\ newest' \in Versions
    BY <1>3, <1>n, <1>v DEF RequestResync, agentSide, VersionsOK, Versions
  <2>2. Publish("resync", "route", 0)
    BY <1>3 DEF RequestResync
  <2>3. \A q \in Resources : want'[q] \in Versions /\ want[q] <= want'[q]
    BY <2>1, <1>v DEF VersionsOK, Versions
  <2>4. StreamOK' /\ HandOK'
    BY <1>k, <2>1, <2>2, <2>3, PublishKeeps
  <2>5. VersionsOK'
    BY <2>1, <1>v DEF VersionsOK, Versions
  <2>6. items \subseteq items'
    BY <2>2 DEF Publish
  <2>7. lostNudge => lostNudge'
    BY <2>1, Zenon
  <2>8. ASSUME NEW q \in Resources
        PROVE  reached'[q] = want'[q] \/ OnItsWay(q)'
    BY <2>1, <2>6, <2>7, KeptOnItsWay
  <2> QED
    BY <2>4, <2>5, <2>8 DEF WorkerInv
<1>4. ASSUME NEW r \in Resources, ReadToConverge(r)
      PROVE  WorkerInv'
  <2>1. ChangeOf(r, FALSE) /\ reading' = [reading EXCEPT ![r] = newest + 1]
        /\ UNCHANGED <<rollingOut, items, serial, agent, hand, held, host, reached, lostNudge,
                       agentDeaths>>
    BY <1>4 DEF ReadToConverge, agentSide, streamVars
  <2>2. /\ newest' \in Versions /\ newest' = newest + 1 /\ gone' \subseteq Versions
        /\ want' \in [Resources -> Versions] /\ want'[r] = newest + 1
        /\ \A q \in Resources : /\ q # r => want'[q] = want[q]
                                /\ want[q] <= want'[q] /\ want'[q] <= newest'
    BY <2>1, ChangeKeeps
  <2>3. /\ reading' \in [Resources -> {0} \cup Versions] /\ reading'[r] = newest + 1
        /\ \A q \in Resources : q # r => reading'[q] = reading[q]
    BY <2>1, <2>2, <1>v DEF VersionsOK
  <2>4. VersionsOK'
    <3>1. \A q \in Resources : /\ want'[q] <= newest' /\ reading'[q] <= want'[q]
                               /\ held'[q] <= want'[q] /\ reached'[q] <= want'[q]
      <4> TAKE q \in Resources
      <4>1. /\ want[q] \in Versions /\ reading[q] \in {0} \cup Versions
            /\ held[q] \in {0} \cup Versions /\ reached[q] \in {0} \cup Versions
            /\ reading[q] <= want[q] /\ held[q] <= want[q] /\ reached[q] <= want[q]
            /\ newest \in Versions
        BY <1>v DEF VersionsOK
      <4> QED
        BY <2>1, <2>2, <2>3, <4>1 DEF Versions
    <3> QED
      BY <2>1, <2>2, <2>3, <1>v, <3>1 DEF VersionsOK
  <2>5. StreamOK'
    <3>1. ASSUME NEW i \in items
          PROVE  ItemOK(i)'
      <4>1. ItemOK(i)
        BY <1>v DEF StreamOK
      <4>2. i.kind # "resync" => i.res \in Resources /\ i.spec <= want'[i.res]
        <5> SUFFICES ASSUME i.kind # "resync"
                     PROVE  i.res \in Resources /\ i.spec <= want'[i.res]
          OBVIOUS
        <5>1. i.res \in Resources /\ i.spec <= want[i.res] /\ i.spec \in {0} \cup Versions
          BY <4>1 DEF ItemOK, WorkItems
        <5>2. want[i.res] \in Versions /\ want'[i.res] \in Versions /\ want[i.res] <= want'[i.res]
          BY <5>1, <2>2, <1>v DEF VersionsOK
        <5> QED
          BY <5>1, <5>2 DEF Versions
      <4> QED
        BY <2>1, <4>1, <4>2 DEF ItemOK
    <3> QED
      BY <2>1, <3>1, <1>v DEF StreamOK
  <2>6. HandOK'
    BY <2>1, <1>v DEF HandOK
  <2>7. ASSUME NEW q \in Resources
        PROVE  reached'[q] = want'[q] \/ OnItsWay(q)'
    <3>1. CASE q = r
      BY <3>1, <2>2, <2>3 DEF OnItsWay
    <3>2. CASE q # r
      <4>1. want'[q] = want[q] /\ reading'[q] = reading[q] /\ reached'[q] = reached[q]
        BY <3>2, <2>1, <2>2, <2>3
      <4>2. lostNudge => lostNudge'
        BY <2>1, Zenon
      <4> QED
        BY <2>1, <4>1, <4>2, KeptOnItsWay
    <3> QED
      BY <3>1, <3>2
  <2> QED
    BY <2>4, <2>5, <2>6, <2>7 DEF WorkerInv
<1>5. ASSUME NEW r \in Resources, Remove(r)
      PROVE  WorkerInv'
  <2>1. r \in {"app", "stack"} /\ ChangeOf(r, TRUE) /\ newest + 1 \in {0} \cup Versions
        /\ UNCHANGED <<reading, agentSide>>
    BY <1>5, <1>n DEF Remove, ChangeOf
  <2>2. rollingOut' \in {0} \cup Versions
    BY <1>5, <1>v DEF Remove, VersionsOK
  <2>3. PICK kind \in Kinds : /\ Publish(kind, r, newest + 1) /\ kind # "resync"
                              /\ kind \in {"rollout", "converge", "remove"} => r = "app"
    BY <1>5, <1>k DEF Remove
  <2> QED
    BY <2>1, <2>2, <2>3, PublishedChange
<1>6. ASSUME NEW absent \in BOOLEAN, ReconcileDatabase(absent)
      PROVE  WorkerInv'
  <2>1. "db" \in Resources /\ ChangeOf("db", absent) /\ newest + 1 \in {0} \cup Versions
        /\ UNCHANGED <<rollingOut, reading, agentSide>>
    BY <1>6, <1>n DEF ReconcileDatabase, ChangeOf
  <2>2. rollingOut' \in {0} \cup Versions
    BY <2>1, <1>v DEF VersionsOK
  <2>3. PICK kind \in Kinds : /\ Publish(kind, "db", newest + 1) /\ kind # "resync"
                              /\ kind \notin {"rollout", "converge", "remove"}
    BY <1>6, <1>k DEF ReconcileDatabase
  <2> QED
    BY <2>1, <2>2, <2>3, PublishedChange
<1>7. ASSUME NEW absent \in BOOLEAN, SetProxyRoute(absent)
      PROVE  WorkerInv'
  <2>1. "route" \in Resources /\ ChangeOf("route", absent) /\ Publish("resync", "route", 0)
        /\ UNCHANGED <<rollingOut, reading, agentSide>>
    BY <1>7 DEF SetProxyRoute, ChangeOf
  <2>2. rollingOut' \in {0} \cup Versions
    BY <2>1, <1>v DEF VersionsOK
  <2> QED
    BY <1>k, <2>1, <2>2, PublishedChange
<1> QED
  BY <1>1, <1>2, <1>3, <1>4, <1>5, <1>6, <1>7 DEF PlaneStep

\* An item that is acknowledged leaves nothing behind: what it carried, the agent holds now.
LEMMA AckedArrives ==
  ASSUME WorkerInv, hand # NoItem, AckItem, NEW r \in Resources,
         UNCHANGED <<want, reading>>, lostNudge => lostNudge',
         reached[r] = want[r] => reached'[r] = want[r],
         InHand.kind # "resync" /\ InHand.res = r /\ InHand.spec = want[r] => reached'[r] = want[r],
         InHand.kind = "resync" => agent = "synced" \/ lostNudge'
  PROVE  reached'[r] = want'[r] \/ OnItsWay(r)'
<1>1. InHand \in items /\ InHand.id = hand
  BY InHandIsHeld
<1>2. items' = items \ {InHand} /\ agent' = "idle"
  BY DEF AckItem, PutDown
<1>3. ASSUME NEW i \in items, i.kind # "resync" /\ i.res = r /\ i.spec = want[r]
      PROVE  \/ reached'[r] = want[r]
             \/ \E j \in items' : j.kind # "resync" /\ j.res = r /\ j.spec = want[r]
  BY <1>2, <1>3
<1>4. ASSUME NEW i \in items, i.kind = "resync" /\ ~(agent = "synced" /\ i.id = hand) /\ r = "route"
      PROVE  \/ reached'[r] = want[r] \/ lostNudge'
             \/ \E j \in items' : j.kind = "resync" /\ ~(agent' = "synced" /\ j.id = hand')
  <2>1. CASE i = InHand
    <3>1. lostNudge'
      BY <1>1, <1>4, <2>1, Zenon
    <3> QED
      BY <3>1
  <2>2. CASE i # InHand
    BY <1>2, <1>4, <2>2
  <2> QED
    BY <2>1, <2>2
<1>5. want'[r] = want[r] /\ reading'[r] = reading[r]
  OBVIOUS
<1> QED
  BY <1>3, <1>4, <1>5, StillOnItsWay, Zenon

\* The versions of a step of the agent: what the plane asked for stays.
LEMMA AgentVersions ==
  ASSUME WorkerInv, UNCHANGED planeVars, host' \in [Resources -> {0} \cup Versions],
         held' \in [Resources -> {0} \cup Versions], \A r \in Resources : held'[r] <= want[r],
         reached' \in [Resources -> {0} \cup Versions], \A r \in Resources : reached'[r] <= want[r]
  PROVE  VersionsOK'
  BY DEF WorkerInv, VersionsOK, planeVars

\* The end of an item that stored h: acknowledged, or handed back.
LEMMA HandledKeeps ==
  ASSUME WorkerInv, agent = "busy", InHand.kind # "resync", InHand.res \in Resources,
         NEW h, h = [held EXCEPT ![InHand.res] = InHand.spec], Hold(h),
         AckItem \/ NakOrTerm, host' \in [Resources -> {0} \cup Versions],
         UNCHANGED <<serial, planeVars, lostNudge, agentDeaths>>
  PROVE  WorkerInv'
<1> USE WorkerAssumption
<1>u. UNCHANGED <<serial, want, reading, agentDeaths>>
  BY DEF planeVars
<1>h. hand # NoItem
  BY DEF WorkerInv, HandOK
<1>1. InHand \in items /\ InHand.id = hand /\ ItemOK(InHand)
  BY <1>h, InHandIsHeld
<1>2. InHand.spec \in {0} \cup Versions /\ InHand.spec <= want[InHand.res]
  BY <1>1 DEF ItemOK, WorkItems
<1>3. held \in [Resources -> {0} \cup Versions] /\ \A r \in Resources : held[r] <= want[r]
  BY DEF WorkerInv, VersionsOK
<1>4. h \in [Resources -> {0} \cup Versions] /\ h[InHand.res] = InHand.spec
      /\ \A r \in Resources : h[r] <= want[r]
  BY <1>2, <1>3
<1>5. /\ held' = h /\ reached' \in [Resources -> {0} \cup Versions]
      /\ \A r \in Resources : /\ reached'[r] <= want[r]
                              /\ reached[r] = want[r] => reached'[r] = want[r]
                              /\ h[r] = want[r] => reached'[r] = want[r]
  BY <1>4, HoldKeeps
<1>6. VersionsOK'
  BY <1>4, <1>5, AgentVersions
<1>7. lostNudge => lostNudge'
  BY Zenon
<1>8. CASE AckItem
  <2>1. StreamOK' /\ HandOK'
    BY <1>8, <1>h, <1>u, AckKeeps
  <2>2. ASSUME NEW r \in Resources
        PROVE  reached'[r] = want'[r] \/ OnItsWay(r)'
    <3>1. reached[r] = want[r] => reached'[r] = want[r]
      BY <1>5
    <3>2. InHand.res = r /\ InHand.spec = want[r] => reached'[r] = want[r]
      BY <1>4, <1>5
    <3> QED
      BY <1>7, <1>8, <1>h, <1>u, <3>1, <3>2, AckedArrives
  <2> QED
    BY <1>6, <2>1, <2>2 DEF WorkerInv
<1>9. CASE NakOrTerm
  <2>1. /\ StreamOK' /\ HandOK' /\ agent' = "idle"
        /\ \/ items' = items \ {InHand} /\ InHand.kind \in Limited /\ InHand.sent >= Cutoff
           \/ \A i \in items : \E j \in items' : j.kind = i.kind /\ j.res = i.res /\ j.spec = i.spec
    BY <1>9, <1>h, <1>u, NakKeeps
  <2>2. ASSUME NEW r \in Resources
        PROVE  reached'[r] = want'[r] \/ OnItsWay(r)'
    <3>1. reached[r] = want[r] => reached'[r] = want[r]
      BY <1>5
    <3>2. InHand.res = r /\ InHand.spec = want[r] => reached'[r] = want[r]
      BY <1>4, <1>5
    <3>3. CASE \A i \in items : \E j \in items' : j.kind = i.kind /\ j.res = i.res /\ j.spec = i.spec
      <4>1. \A i \in items : \E j \in items' :
              /\ j.kind = i.kind /\ j.res = i.res /\ j.spec = i.spec
              /\ ~(agent = "synced" /\ i.id = hand) => ~(agent' = "synced" /\ j.id = hand')
        BY <3>3, <2>1
      <4> QED
        BY <1>7, <1>u, <3>1, <4>1, KeptOnItsWay
    <3>4. CASE items' = items \ {InHand} /\ InHand.kind \in Limited /\ InHand.sent >= Cutoff
      <4>1. AckItem
        BY <1>9, <3>4 DEF NakOrTerm
      <4> QED
        BY <1>7, <1>h, <1>u, <3>1, <3>2, <4>1, AckedArrives
    <3> QED
      BY <2>1, <3>3, <3>4
  <2> QED
    BY <1>6, <2>1, <2>2 DEF WorkerInv
<1> QED
  BY <1>8, <1>9

\* A sync brings the agent everything that is asked for.
LEMMA WorkerSyncKeeps ==
  ASSUME WorkerInv, SyncState, UNCHANGED planeVars
  PROVE  VersionsOK' /\ \A r \in Resources : reached'[r] = want'[r]
<1> USE WorkerAssumption
<1>1. want \in [Resources -> {0} \cup Versions] /\ \A r \in Resources : want[r] <= want[r]
  BY DEF WorkerInv, VersionsOK, Versions
<1>2. Hold(want)
  BY DEF SyncState
<1>3. /\ held' = want /\ reached' \in [Resources -> {0} \cup Versions]
      /\ \A r \in Resources : reached'[r] <= want[r] /\ reached'[r] = want[r]
  BY <1>1, <1>2, HoldKeeps
<1>4. host \in [Resources -> {0} \cup Versions]
  BY DEF WorkerInv, VersionsOK
<1>5. host' = host \/ host' = [host EXCEPT !["route"] = 0]
  BY DEF SyncState
<1>6. host' \in [Resources -> {0} \cup Versions]
  BY <1>4, <1>5
<1>7. VersionsOK'
  BY <1>1, <1>3, <1>6, AgentVersions
<1> QED
  BY <1>3, <1>7 DEF planeVars

\* A step that touches neither the stream nor what the agent has held.
LEMMA HostOnly ==
  ASSUME WorkerInv, host' \in [Resources -> {0} \cup Versions],
         UNCHANGED <<planeVars, items, serial, hand, agentDeaths, held, reached, lostNudge>>,
         \/ agent' = agent
         \/ agent = "synced" /\ hand = NoItem /\ agent' = "idle"
         \/ agent = "down" /\ agent' = "booted"
  PROVE  WorkerInv'
<1>u. UNCHANGED <<want, reading>>
  BY DEF planeVars
<1>1. VersionsOK'
  BY AgentVersions DEF WorkerInv, VersionsOK
<1>2. StreamOK'
  BY <1>u DEF WorkerInv, StreamOK, ItemOK
<1>3. HandOK'
  BY DEF WorkerInv, HandOK
<1>4. \A i \in items : i.id # NoItem
  BY DEF WorkerInv, StreamOK, ItemOK, WorkItems, NoItem
<1>5. lostNudge => lostNudge'
  BY Zenon
<1>6. ASSUME NEW r \in Resources
      PROVE  reached'[r] = want'[r] \/ OnItsWay(r)'
  <2>1. \A i \in items : ~(agent = "synced" /\ i.id = hand) => ~(agent' = "synced" /\ i.id = hand')
    BY <1>4
  <2> QED
    BY <1>u, <1>5, <2>1, KeptOnItsWay
<1> QED
  BY <1>1, <1>2, <1>3, <1>6 DEF WorkerInv

\* Every step of the agent and of the stream keeps the worker's invariant.
LEMMA WorkerStepHolds == WorkerInv /\ WorkerStep => WorkerInv'
<1> SUFFICES ASSUME WorkerInv, WorkerStep
             PROVE  WorkerInv'
  OBVIOUS
<1> USE WorkerAssumption
<1>v. VersionsOK /\ StreamOK /\ HandOK
  BY DEF WorkerInv
<1>z. \A i \in items : i.id # NoItem
  BY <1>v DEF StreamOK, ItemOK, WorkItems, NoItem
<1>b. agent = "busy" => hand # NoItem
  BY <1>v DEF HandOK
<1>1. ASSUME NEW i \in items, Fetch(i)
      PROVE  WorkerInv'
  <2>u. /\ UNCHANGED <<serial, planeVars, agentDeaths, held, host, reached, lostNudge>>
        /\ UNCHANGED <<want, reading>> /\ agent = "idle" /\ agent' = "busy" /\ hand' = i.id
        /\ i.state # "flying"
    BY <1>1 DEF Fetch, Deliverable, planeVars
  <2>1. ItemOK(i) /\ i \in WorkItems /\ hand = NoItem /\ agentDeaths \in Nat
    BY <2>u, <1>v DEF StreamOK, ItemOK, HandOK
  <2>2. PICK j : j = [i EXCEPT !.state = "flying", !.sent = @ + 1]
    OBVIOUS
  <2>3. j \in WorkItems /\ j.id = i.id /\ j.kind = i.kind /\ j.res = i.res /\ j.spec = i.spec
        /\ j.state = "flying" /\ j.sent = i.sent + 1 /\ i.sent \in Nat
    <3>1. PICK n : n = i.sent + 1 /\ n \in Nat /\ i.sent \in Nat
      BY <2>1 DEF WorkItems
    <3>2. j = [i EXCEPT !.state = "flying", !.sent = n]
      BY <2>2, <3>1
    <3> QED
      BY <2>1, <3>1, <3>2 DEF WorkItems
  <2>4. items' = (items \ {i}) \cup {j}
    BY <1>1, <2>2 DEF Fetch
  <2>5. j.kind \in Limited => j.sent <= Cutoff + agentDeaths
    BY <2>u, <2>1, <2>3 DEF ItemOK
  <2>6. \A k \in items : k.id # i.id => (k.id = hand <=> k.id = hand')
    BY <2>u, <2>1, <1>z
  <2>7. StreamOK'
    BY <2>u, <2>3, <2>4, <2>5, <2>6, SwapKeeps
  <2>8. HandOK'
    BY <2>u, <2>3, <2>4, <1>z DEF HandOK
  <2>9. VersionsOK'
    BY <2>u, <1>v DEF VersionsOK, planeVars
  <2>10. lostNudge => lostNudge'
    BY <2>u, Zenon
  <2>11. ASSUME NEW r \in Resources
         PROVE  reached'[r] = want'[r] \/ OnItsWay(r)'
    BY <2>u, <2>3, <2>4, <2>10, KeptOnItsWay
  <2> QED
    BY <2>7, <2>8, <2>9, <2>11 DEF WorkerInv
<1>2. ASSUME NEW i \in items, RedeliverItem(i)
      PROVE  WorkerInv'
  <2>u. /\ UNCHANGED <<serial, planeVars, agent, hand, agentDeaths, held, host, reached, lostNudge>>
        /\ UNCHANGED <<want, reading>> /\ i.state = "waiting"
    BY <1>2 DEF RedeliverItem, planeVars, agentSide
  <2>1. ItemOK(i) /\ i \in WorkItems /\ i.id # hand
    BY <2>u, <1>v DEF StreamOK, ItemOK
  <2>2. PICK j : j = [i EXCEPT !.state = "due"]
    OBVIOUS
  <2>3. j \in WorkItems /\ j.id = i.id /\ j.kind = i.kind /\ j.res = i.res /\ j.spec = i.spec
        /\ j.state = "due" /\ j.sent = i.sent
    BY <2>1, <2>2 DEF WorkItems
  <2>4. items' = (items \ {i}) \cup {j}
    BY <1>2, <2>2 DEF RedeliverItem
  <2>5. /\ j.kind \in Limited => j.sent <= Cutoff + agentDeaths
        /\ j.kind \in Limited => j.sent < Cutoff + agentDeaths
    BY <2>u, <2>1, <2>3 DEF ItemOK
  <2>7. StreamOK'
    BY <2>u, <2>1, <2>3, <2>4, <2>5, SwapKeeps
  <2>8. HandOK'
    BY <2>u, <2>1, <2>3, <2>4, <1>v DEF HandOK
  <2>9. VersionsOK'
    BY <2>u, <1>v DEF VersionsOK, planeVars
  <2>10. lostNudge => lostNudge'
    BY <2>u, Zenon
  <2>11. ASSUME NEW r \in Resources
         PROVE  reached'[r] = want'[r] \/ OnItsWay(r)'
    BY <2>u, <2>3, <2>4, <2>10, KeptOnItsWay
  <2> QED
    BY <2>7, <2>8, <2>9, <2>11 DEF WorkerInv
<1>3. CASE HandleApp
  <2>1. PICK h : /\ h = [held EXCEPT !["app"] = InHand.spec] /\ Hold(h) /\ agent = "busy"
                 /\ InHand.kind \in {"rollout", "converge", "remove"}
                 /\ \/ \E missed : ReconcileOK(h, missed) /\ AckItem
                    \/ ReconcileFails /\ NakOrTerm
                 /\ UNCHANGED <<serial, planeVars, lostNudge, agentDeaths>>
    BY <1>3 DEF HandleApp
  <2>2. ItemOK(InHand)
    BY <2>1, <1>b, InHandIsHeld
  <2>3. InHand.kind # "resync" /\ InHand.res = "app" /\ InHand.res \in Resources
        /\ InHand.spec \in {0} \cup Versions
    BY <2>1, <2>2 DEF ItemOK, WorkItems
  <2>4. h \in [Resources -> {0} \cup Versions]
    BY <2>1, <2>3, <1>v DEF VersionsOK
  <2>5. host' \in [Resources -> {0} \cup Versions]
    BY <2>1, <2>4, <1>v, ReconcileKeeps DEF ReconcileFails, VersionsOK
  <2> QED
    BY <2>1, <2>3, <2>5, HandledKeeps
<1>4. CASE HandleOther
  <2>1. PICK h : /\ h = [held EXCEPT ![InHand.res] = InHand.spec] /\ Hold(h) /\ agent = "busy"
                 /\ InHand.kind \in {"db.provision", "db.remove", "compose.converge", "compose.remove"}
                 /\ \/ host' = [host EXCEPT ![InHand.res] = Made(h[InHand.res])] /\ AckItem
                    \/ AckItem /\ \E left \in Leftovers(InHand.res) :
                                    host' = [host EXCEPT ![InHand.res] = left]
                    \/ ReconcileFails /\ NakOrTerm
                 /\ UNCHANGED <<serial, planeVars, lostNudge, agentDeaths>>
    BY <1>4 DEF HandleOther
  <2>2. ItemOK(InHand)
    BY <2>1, <1>b, InHandIsHeld
  <2>3. InHand.kind # "resync" /\ InHand.res \in Resources /\ InHand.spec \in {0} \cup Versions
    BY <2>1, <2>2 DEF ItemOK, WorkItems
  <2>4. h \in [Resources -> {0} \cup Versions] /\ host \in [Resources -> {0} \cup Versions]
    BY <2>1, <2>3, <1>v DEF VersionsOK
  <2>5. host' \in [Resources -> {0} \cup Versions]
    BY <2>1, <2>3, <2>4 DEF ReconcileFails, Made, Leftovers
  <2> QED
    BY <2>1, <2>3, <2>5, HandledKeeps
<1>5. CASE HandleResync
  <2>u. UNCHANGED <<serial, planeVars, agentDeaths>> /\ UNCHANGED <<want, reading>>
        /\ agent = "busy" /\ hand # NoItem /\ InHand.kind = "resync"
    BY <1>5, <1>b DEF HandleResync, planeVars
  <2>1. CASE SyncState /\ agent' = "synced" /\ UNCHANGED <<hand, items, lostNudge>>
    <3>1. VersionsOK' /\ \A r \in Resources : reached'[r] = want'[r]
      BY <2>u, <2>1, WorkerSyncKeeps
    <3>2. InHand \in items /\ InHand.id = hand
      BY <2>u, InHandIsHeld
    <3>3. \A i \in items : i.id = hand => i.kind = "resync"
      BY <2>u, <3>2, <1>v DEF StreamOK
    <3>4. HandOK'
      BY <2>1, <2>u, <3>2, <3>3 DEF HandOK
    <3>5. StreamOK'
      BY <2>1, <2>u, <1>v DEF StreamOK, ItemOK
    <3> QED
      BY <3>1, <3>4, <3>5 DEF WorkerInv
  <2>2. CASE /\ NakOrTerm /\ lostNudge' = (lostNudge \/ InHand.sent >= Cutoff)
             /\ UNCHANGED <<held, reached, host>>
    <3>1. /\ StreamOK' /\ HandOK' /\ agent' = "idle"
          /\ \/ items' = items \ {InHand} /\ InHand.kind \in Limited /\ InHand.sent >= Cutoff
             \/ \A i \in items : \E j \in items' : j.kind = i.kind /\ j.res = i.res /\ j.spec = i.spec
      BY <2>2, <2>u, NakKeeps
    <3>2. VersionsOK'
      BY <2>2, <2>u, <1>v DEF VersionsOK, planeVars
    <3>3. /\ lostNudge => lostNudge'
          /\ InHand.sent >= Cutoff => lostNudge'
      BY <2>2, Zenon
    <3>4. ASSUME NEW r \in Resources
          PROVE  reached'[r] = want'[r] \/ OnItsWay(r)'
      <4>1. CASE \A i \in items : \E j \in items' : j.kind = i.kind /\ j.res = i.res /\ j.spec = i.spec
        <5>1. \A i \in items : \E j \in items' :
                /\ j.kind = i.kind /\ j.res = i.res /\ j.spec = i.spec
                /\ ~(agent = "synced" /\ i.id = hand) => ~(agent' = "synced" /\ j.id = hand')
          BY <4>1, <3>1
        <5> QED
          BY <2>2, <2>u, <3>3, <5>1, KeptOnItsWay
      <4>2. CASE items' = items \ {InHand} /\ InHand.kind \in Limited /\ InHand.sent >= Cutoff
        <5>1. AckItem
          BY <2>2, <4>2 DEF NakOrTerm
        <5>2. lostNudge'
          BY <3>3, <4>2, Zenon
        <5>3. reached'[r] = reached[r]
          BY <2>2
        <5> QED
          BY <2>u, <3>3, <5>1, <5>2, <5>3, AckedArrives
      <4> QED
        BY <3>1, <4>1, <4>2
    <3> QED
      BY <3>1, <3>2, <3>4 DEF WorkerInv
  <2>3. CASE NoReply /\ UNCHANGED <<hand, items, lostNudge>>
    <3>1. agent' = "hung" /\ UNCHANGED <<held, reached, host>>
      BY <2>3 DEF NoReply
    <3>2. InHand \in items /\ InHand.id = hand
      BY <2>u, InHandIsHeld
    <3>3. \A i \in items : i.id = hand => i.kind = "resync"
      BY <2>u, <3>2, <1>v DEF StreamOK
    <3>4. HandOK'
      BY <2>3, <2>u, <3>1, <3>2, <3>3 DEF HandOK
    <3>5. StreamOK'
      BY <2>3, <2>u, <1>v DEF StreamOK, ItemOK
    <3>6. VersionsOK'
      BY <2>u, <3>1, <1>v DEF VersionsOK, planeVars
    <3>7. lostNudge => lostNudge'
      BY <2>3, Zenon
    <3>8. \A r \in Resources : reached'[r] = want'[r] \/ OnItsWay(r)'
      BY <2>3, <2>u, <3>1, <3>7, KeptOnItsWay
    <3> QED
      BY <3>4, <3>5, <3>6, <3>8 DEF WorkerInv
  <2> QED
    BY <1>5, <2>1, <2>2, <2>3 DEF HandleResync
<1>6. CASE ReconcileSynced
  <2>u. UNCHANGED <<serial, planeVars, held, reached, lostNudge, agentDeaths>>
        /\ UNCHANGED <<want, reading>> /\ agent = "synced"
    BY <1>6 DEF ReconcileSynced, planeVars
  <2>1. host' \in [Resources -> {0} \cup Versions]
    <3>1. host \in [Resources -> {0} \cup Versions] /\ held \in [Resources -> {0} \cup Versions]
      BY <1>v DEF VersionsOK
    <3> QED
      BY <1>6, <3>1, ReconcileKeeps DEF ReconcileSynced, ReconcileFails
  <2>2. CASE hand = NoItem
    <3>1. UNCHANGED items /\ \/ agent' = "idle" /\ hand' = NoItem
                             \/ UNCHANGED <<agent, hand>>
      BY <1>6, <2>2 DEF ReconcileSynced, PutDown
    <3> QED
      BY <2>u, <2>1, <2>2, <3>1, HostOnly
  <2>3. CASE hand # NoItem
    <3>1. AckItem \/ NakOrTerm
      BY <1>6, <2>3 DEF ReconcileSynced
    <3>2. VersionsOK'
      BY <2>1, <2>u, <1>v, AgentVersions DEF VersionsOK
    <3>3. lostNudge => lostNudge'
      BY <2>u, Zenon
    <3>4. InHand.kind = "resync"
      BY <2>u, <2>3, <1>v, InHandIsHeld DEF HandOK
    <3>5. ASSUME AckItem
          PROVE  WorkerInv'
      <4>1. StreamOK' /\ HandOK'
        BY <2>u, <2>3, <3>5, AckKeeps
      <4>2. ASSUME NEW r \in Resources
            PROVE  reached'[r] = want'[r] \/ OnItsWay(r)'
        BY <2>u, <2>3, <3>3, <3>4, <3>5, AckedArrives
      <4> QED
        BY <3>2, <4>1, <4>2 DEF WorkerInv
    <3>6. ASSUME NakOrTerm
          PROVE  WorkerInv'
      <4>1. /\ StreamOK' /\ HandOK' /\ agent' = "idle"
            /\ \/ items' = items \ {InHand} /\ InHand.kind \in Limited /\ InHand.sent >= Cutoff
               \/ \A i \in items : \E j \in items' : j.kind = i.kind /\ j.res = i.res /\ j.spec = i.spec
        BY <2>u, <2>3, <3>6, NakKeeps
      <4>2. CASE items' = items \ {InHand} /\ InHand.kind \in Limited /\ InHand.sent >= Cutoff
        BY <3>5, <3>6, <4>2 DEF NakOrTerm
      <4>3. CASE \A i \in items : \E j \in items' : j.kind = i.kind /\ j.res = i.res /\ j.spec = i.spec
        <5>1. \A i \in items : \E j \in items' :
                /\ j.kind = i.kind /\ j.res = i.res /\ j.spec = i.spec
                /\ ~(agent = "synced" /\ i.id = hand) => ~(agent' = "synced" /\ j.id = hand')
          BY <4>1, <4>3
        <5>2. ASSUME NEW r \in Resources
              PROVE  reached'[r] = want'[r] \/ OnItsWay(r)'
          BY <2>u, <3>3, <5>1, KeptOnItsWay
        <5> QED
          BY <3>2, <4>1, <5>2 DEF WorkerInv
      <4> QED
        BY <4>1, <4>2, <4>3
    <3> QED
      BY <3>1, <3>5, <3>6
  <2> QED
    BY <2>2, <2>3
<1>7. CASE Boot
  BY <1>7, <1>v, HostOnly DEF Boot, streamVars, VersionsOK
<1>8. CASE BootSync
  <2>u. UNCHANGED <<serial, items, hand, planeVars, agentDeaths, lostNudge>>
        /\ UNCHANGED <<want, reading>> /\ agent = "booted"
        /\ \/ agent' = "synced" /\ SyncState
           \/ agent' \in {"down", "hung"} /\ UNCHANGED <<held, reached, host>>
    BY <1>8 DEF BootSync, NoReply, planeVars, streamVars
  <2>2. HandOK'
    BY <2>u, <1>v, <1>z DEF HandOK
  <2>3. StreamOK'
    BY <2>u, <1>v DEF StreamOK, ItemOK
  <2>4. CASE SyncState
    <3>1. VersionsOK' /\ \A r \in Resources : reached'[r] = want'[r]
      BY <2>u, <2>4, WorkerSyncKeeps
    <3> QED
      BY <2>2, <2>3, <3>1 DEF WorkerInv
  <2>5. CASE agent' \in {"down", "hung"} /\ UNCHANGED <<held, reached, host>>
    <3>1. VersionsOK'
      BY <2>u, <2>5, <1>v DEF VersionsOK, planeVars
    <3>2. lostNudge => lostNudge'
      BY <2>u, Zenon
    <3>3. \A r \in Resources : reached'[r] = want'[r] \/ OnItsWay(r)'
      BY <2>u, <2>5, <3>2, KeptOnItsWay
    <3> QED
      BY <2>2, <2>3, <3>1, <3>3 DEF WorkerInv
  <2> QED
    BY <2>u, <2>4, <2>5
<1>9. ASSUME NEW r \in Resources, PublishConverge(r)
      PROVE  WorkerInv'
  <2>u. UNCHANGED <<want, gone, newest, rollingOut, agent, hand, held, host, reached, lostNudge,
                    agentDeaths>> /\ reading[r] # 0 /\ reading' = [reading EXCEPT ![r] = 0]
    BY <1>9 DEF PublishConverge, agentSide
  <2>1. PICK kind \in Kinds : /\ Publish(kind, r, reading[r]) /\ kind # "resync"
                              /\ kind \in {"rollout", "converge", "remove"} => r = "app"
    BY <1>9 DEF PublishConverge, Kinds
  <2>2. /\ reading[r] \in {0} \cup Versions /\ reading[r] <= want'[r]
        /\ \A q \in Resources : want'[q] \in Versions /\ want[q] <= want'[q]
    BY <2>u, <1>v DEF VersionsOK, Versions
  <2>3. StreamOK' /\ HandOK'
    BY <2>u, <2>1, <2>2, PublishKeeps
  <2>4. reading' \in [Resources -> {0} \cup Versions] /\ reading'[r] = 0
        /\ \A q \in Resources : q # r => reading'[q] = reading[q]
    BY <2>u, <1>v DEF VersionsOK
  <2>5. VersionsOK'
    BY <2>u, <2>4, <1>v DEF VersionsOK, Versions
  <2>6. PICK new : items' = items \cup {new} /\ new.kind = kind /\ new.res = r /\ new.spec = reading[r]
    <3>1. PICK new : new = [id |-> serial + 1, kind |-> kind, res |-> r, spec |-> reading[r],
                            sent |-> 0, state |-> "new"]
      OBVIOUS
    <3> QED
      BY <2>1, <3>1 DEF Publish
  <2>7. lostNudge => lostNudge'
    BY <2>u, Zenon
  <2>8. ASSUME NEW q \in Resources
        PROVE  reached'[q] = want'[q] \/ OnItsWay(q)'
    <3>1. CASE q = r /\ reading[r] = want[r]
      BY <2>1, <2>6, <2>u, <3>1 DEF OnItsWay
    <3>2. CASE q = r /\ reading[r] # want[r]
      BY <2>u, <2>6, <3>2 DEF WorkerInv, OnItsWay
    <3>3. CASE q # r
      <4>1. want'[q] = want[q] /\ reading'[q] = reading[q] /\ reached'[q] = reached[q]
        BY <3>3, <2>u, <2>4
      <4> QED
        BY <2>u, <2>6, <2>7, <4>1, KeptOnItsWay
    <3> QED
      BY <3>1, <3>2, <3>3
  <2> QED
    BY <2>3, <2>5, <2>8 DEF WorkerInv
<1> QED
  BY <1>1, <1>2, <1>3, <1>4, <1>5, <1>6, <1>7, <1>8, <1>9 DEF WorkerStep

\* Every step keeps the worker's invariant.
LEMMA WorkerNextHolds == WorkerInv /\ [WorkerNext]_workerVars => WorkerInv'
<1> SUFFICES ASSUME WorkerInv, [WorkerNext]_workerVars
             PROVE  WorkerInv'
  OBVIOUS
<1> USE WorkerAssumption
<1>v. VersionsOK /\ StreamOK /\ HandOK
  BY DEF WorkerInv
<1>h. host \in [Resources -> {0} \cup Versions] /\ held \in [Resources -> {0} \cup Versions]
  BY <1>v DEF VersionsOK
<1>1. CASE PlaneStep
  BY <1>1, PlaneStepHolds
<1>2. CASE WorkerStep
  BY <1>2, WorkerStepHolds
<1>3. CASE Drift
  <2>1. host' \in [Resources -> {0} \cup Versions]
    BY <1>3, <1>h, ReconcileKeeps DEF Drift, ReconcileFails
  <2> QED
    BY <1>3, <2>1, HostOnly DEF Drift, streamVars
<1>4. CASE AgentDies
  <2>u. /\ UNCHANGED <<serial, planeVars, host, reached, lostNudge>> /\ UNCHANGED <<want, reading>>
        /\ agentDeaths' = agentDeaths + 1 /\ agent' = "down" /\ hand' = NoItem
        /\ held' = [r \in Resources |-> 0]
    BY <1>4 DEF AgentDies, planeVars
  <2>1. items' = {IF i.state = "flying" THEN [i EXCEPT !.state = "waiting"] ELSE i : i \in items}
    BY <1>4 DEF AgentDies
  <2>2. \A i \in items : i.id # NoItem
    BY <1>v DEF StreamOK, ItemOK, WorkItems, NoItem
  <2>3. ASSUME NEW i \in items, NEW j,
               j = IF i.state = "flying" THEN [i EXCEPT !.state = "waiting"] ELSE i
        PROVE  /\ j.id = i.id /\ j.kind = i.kind /\ j.res = i.res /\ j.spec = i.spec
               /\ ItemOK(j)'
    <3>1. i \in WorkItems /\ ItemOK(i) /\ agentDeaths \in Nat /\ i.sent \in Nat /\ Cutoff \in Nat
      BY <1>v DEF StreamOK, ItemOK, WorkItems
    <3>2. j \in WorkItems /\ j.id = i.id /\ j.kind = i.kind /\ j.res = i.res /\ j.spec = i.spec
          /\ j.sent = i.sent /\ j.state # "flying"
      BY <2>3, <3>1 DEF WorkItems
    <3>3. i.kind \in Limited => i.sent <= Cutoff + agentDeaths
      BY <3>1 DEF ItemOK
    <3>4. j.kind \in Limited => j.sent < Cutoff + agentDeaths' /\ j.sent <= Cutoff + agentDeaths'
      BY <2>u, <3>1, <3>2, <3>3
    <3> QED
      BY <2>u, <2>2, <3>1, <3>2, <3>4 DEF ItemOK
  <2>4. ASSUME NEW j \in items'
        PROVE  ItemOK(j)' /\ \E i \in items :
                 j = IF i.state = "flying" THEN [i EXCEPT !.state = "waiting"] ELSE i
    BY <2>1, <2>3
  <2>5. StreamOK'
    <3>1. \A j, k \in items' : j.id = k.id => j = k
      <4> TAKE j, k \in items'
      <4>1. PICK i \in items : j = IF i.state = "flying" THEN [i EXCEPT !.state = "waiting"] ELSE i
        BY <2>4
      <4>2. PICK l \in items : k = IF l.state = "flying" THEN [l EXCEPT !.state = "waiting"] ELSE l
        BY <2>4
      <4>3. j.id = i.id /\ k.id = l.id
        BY <2>3, <4>1, <4>2
      <4>4. i.id = l.id => i = l
        BY <1>v DEF StreamOK
      <4> QED
        BY <4>1, <4>2, <4>3, <4>4
    <3> QED
      BY <2>u, <2>4, <3>1, <1>v DEF StreamOK
  <2>6. HandOK'
    BY <2>u DEF HandOK
  <2>7. VersionsOK'
    BY <2>u, <1>v DEF VersionsOK, planeVars, Versions
  <2>8. \A i \in items : \E j \in items' :
          /\ j.kind = i.kind /\ j.res = i.res /\ j.spec = i.spec
          /\ ~(agent = "synced" /\ i.id = hand) => ~(agent' = "synced" /\ j.id = hand')
    <3> TAKE i \in items
    <3>1. PICK j : j = IF i.state = "flying" THEN [i EXCEPT !.state = "waiting"] ELSE i
      OBVIOUS
    <3>2. j \in items'
      BY <2>1, <3>1
    <3> QED
      BY <2>u, <2>3, <3>1, <3>2
  <2>9. lostNudge => lostNudge'
    BY <2>u, Zenon
  <2>10. ASSUME NEW r \in Resources
         PROVE  reached'[r] = want'[r] \/ OnItsWay(r)'
    BY <2>u, <2>8, <2>9, KeptOnItsWay
  <2> QED
    BY <2>5, <2>6, <2>7, <2>10 DEF WorkerInv
<1>5. ASSUME NEW r \in Resources, ContainerDies(r)
      PROVE  WorkerInv'
  <2>1. host' \in [Resources -> {0} \cup Versions]
    BY <1>5, <1>h DEF ContainerDies
  <2> QED
    BY <1>5, <2>1, HostOnly DEF ContainerDies, streamVars
<1>6. CASE UNCHANGED workerVars
  BY <1>6, <1>h, HostOnly DEF workerVars, streamVars
<1> QED
  BY <1>1, <1>2, <1>3, <1>4, <1>5, <1>6 DEF WorkerNext

\* Nothing in the stream, and the agent holds every resource.
LEMMA WorkerStart == WorkerInit => WorkerInv
<1> SUFFICES ASSUME WorkerInit
             PROVE  WorkerInv
  OBVIOUS
<1> USE WorkerAssumption
<1>1. StreamOK /\ HandOK
  BY DEF WorkerInit, StreamOK, HandOK
<1>2. VersionsOK
  BY DEF WorkerInit, VersionsOK, Versions
<1>3. \A r \in Resources : reached[r] = want[r]
  BY DEF WorkerInit
<1> QED
  BY <1>1, <1>2, <1>3 DEF WorkerInv

\* What is not yet with the agent is on its way to it, in every reachable state: the items of
\* the stream, what a converge has read and not published, and the nudges account for every
\* change, through redeliveries, the poison cutoff and deaths of the agent.
THEOREM WorkerInvariance == WorkerSpec => []WorkerInv
<1> QED
  BY WorkerStart, WorkerNextHolds, PTL DEF WorkerSpec

\* Every change reaches the agent: a drained stream means that the agent has held what
\* Postgres asks for, but for a nudge that was given up (poison cutoff, FetchWork, syncState).
THEOREM NothingLostHolds == WorkerSpec => []NothingLost
<1>1. WorkerInv => NothingLost
  <2> SUFFICES ASSUME WorkerInv, Settled, NEW r \in Resources
               PROVE  reached[r] = want[r] \/ (r = "route" /\ lostNudge)
    BY DEF NothingLost
  <2>1. want[r] # 0 /\ reading[r] = 0 /\ items = {}
    BY WorkerAssumption DEF Settled, WorkerInv, VersionsOK, Versions
  <2>2. reached[r] = want[r] \/ OnItsWay(r)
    BY DEF WorkerInv
  <2>3. ASSUME OnItsWay(r)
        PROVE  r = "route" /\ lostNudge
    <3>1. reading[r] # want[r]
      BY <2>1
    <3> QED
      BY <2>1, <2>3, <3>1, Zenon DEF OnItsWay
  <2> QED
    BY <2>2, <2>3, Zenon
<1> QED
  BY <1>1, WorkerInvariance, PTL

\* The types follow from the invariant.
LEMMA WorkerTypesFromInv == WorkerInv => WorkerTypeOK
<1> SUFFICES ASSUME WorkerInv
             PROVE  WorkerTypeOK
  OBVIOUS
<1> USE WorkerAssumption
<1>v. VersionsOK /\ StreamOK /\ HandOK
  BY DEF WorkerInv
<1>1. \A i \in items :
        /\ i.id \in 1..serial /\ i.kind \in Kinds
        /\ i.sent \in Nat /\ (i.kind \in Limited => i.sent <= Cutoff + agentDeaths)
        /\ i.state \in {"new", "flying", "waiting", "due"}
  BY <1>v DEF StreamOK, ItemOK, WorkItems
<1>2. Cardinality({i \in items : i.state = "flying"}) <= 1
  <2> DEFINE F == {i \in items : i.state = "flying"}
  <2>1. \A i, j \in F : i = j
    BY <1>v DEF StreamOK, ItemOK
  <2>2. CASE F = {}
    BY <2>2, FS_EmptySet
  <2>3. CASE F # {}
    <3>1. PICK i : i \in F
      BY <2>3
    <3>2. F = {i}
      BY <2>1, <3>1
    <3>3. Cardinality({i}) = 1
      BY FS_Singleton
    <3> HIDE DEF F
    <3> QED
      BY <3>2, <3>3 DEF F
  <2> QED
    BY <2>2, <2>3
<1>3. hand # NoItem <=> \E i \in items : i.id = hand /\ i.state = "flying"
  <2>1. \A i \in items : i.id # NoItem /\ (i.state = "flying" <=> i.id = hand)
    BY <1>v DEF StreamOK, ItemOK, WorkItems, NoItem
  <2> QED
    BY <2>1, <1>v DEF HandOK
<1> QED
  BY <1>1, <1>2, <1>3, <1>v DEF WorkerTypeOK, VersionsOK, HandOK

\* The types of the worker, one item in flight at a time, and the poison cutoff: an item of
\* a limited kind is delivered at most Cutoff times, and once more for every death of the agent.
THEOREM WorkerTypeOKHolds == WorkerSpec => []WorkerTypeOK
<1> QED
  BY WorkerTypesFromInv, WorkerInvariance, PTL

\* A node runs finitely many things.
LEMMA ResourcesFinite == IsFiniteSet(Resources)
<1>1. IsFiniteSet({} \cup {"app"})
  BY FS_EmptySet, FS_AddElement
<1>2. IsFiniteSet(({} \cup {"app"}) \cup {"db"})
  BY <1>1, FS_AddElement
<1>3. IsFiniteSet((({} \cup {"app"}) \cup {"db"}) \cup {"stack"})
  BY <1>2, FS_AddElement
<1>4. IsFiniteSet(((({} \cup {"app"}) \cup {"db"}) \cup {"stack"}) \cup {"route"})
  BY <1>3, FS_AddElement
<1>5. Resources \in SUBSET (((({} \cup {"app"}) \cup {"db"}) \cup {"stack"}) \cup {"route"})
  BY WorkerAssumption
<1> QED
  BY <1>4, <1>5, FS_Subset

\* The counters of what goes wrong only grow.
LEMMA CountersGrow ==
  ASSUME WorkerInv, mishaps \in Nat, converges \in Nat, [WorkerNext]_workerVars
  PROVE  /\ mishaps' \in Nat /\ converges' \in Nat /\ agentDeaths' \in Nat
         /\ mishaps <= mishaps' /\ converges <= converges' /\ agentDeaths <= agentDeaths'
<1> USE WorkerAssumption
<1>d. agentDeaths \in Nat
  BY DEF WorkerInv, StreamOK
<1>1. agentDeaths' \in {agentDeaths, agentDeaths + 1}
  BY DEF WorkerNext, PlaneStep, WorkerStep, Drift, AgentDies, ContainerDies, workerVars, StartRollout,
         RolloutEnds, RequestResync, ReadToConverge, Remove, ReconcileDatabase, SetProxyRoute,
         Fetch, RedeliverItem, HandleApp, HandleOther, HandleResync, ReconcileSynced, Boot,
         BootSync, PublishConverge, agentSide
<1>2. converges' \in {converges, converges + 1}
  BY DEF WorkerNext, PlaneStep, WorkerStep, Drift, AgentDies, ContainerDies, workerVars, StartRollout,
         RolloutEnds, RequestResync, ReadToConverge, Remove, ReconcileDatabase, SetProxyRoute,
         Fetch, RedeliverItem, HandleApp, HandleOther, HandleResync, ReconcileSynced, Boot,
         BootSync, PublishConverge, planeVars
<1>3. ASSUME NEW missed, missed \in Misses(Resources), Mishap(Cardinality(missed))
      PROVE  mishaps' \in Nat /\ mishaps <= mishaps'
  <2>2. IsFiniteSet(missed)
    BY <1>3, ResourcesFinite, FS_Subset DEF Misses
  <2>3. Cardinality(missed) \in Nat
    BY <2>2, FS_CardinalityType
  <2> QED
    BY <1>3, <2>3 DEF Mishap
<1>4. Mishap(1) => mishaps' \in Nat /\ mishaps <= mishaps'
  BY DEF Mishap
<1>5. SyncState => mishaps' \in Nat /\ mishaps <= mishaps'
  BY <1>4 DEF SyncState
<1>6. ASSUME NEW h, NEW missed, ReconcileOK(h, missed)
      PROVE  mishaps' \in Nat /\ mishaps <= mishaps'
  BY <1>3, <1>6 DEF ReconcileOK
<1>7. ReconcileFails => mishaps' \in Nat /\ mishaps <= mishaps'
  BY <1>4 DEF ReconcileFails
<1>8. mishaps' \in Nat /\ mishaps <= mishaps'
  <2>1. CASE PlaneStep
    <3>1. UNCHANGED agentSide
      BY <2>1 DEF PlaneStep, StartRollout, RolloutEnds, RequestResync, ReadToConverge, Remove,
                  ReconcileDatabase, SetProxyRoute
    <3> QED
      BY <3>1 DEF agentSide
  <2>2. CASE HandleApp
    BY <2>2, <1>6, <1>7 DEF HandleApp
  <2>3. CASE HandleOther
    BY <2>3, <1>4, <1>7 DEF HandleOther
  <2>4. CASE HandleResync
    BY <2>4, <1>4, <1>5 DEF HandleResync, NoReply
  <2>5. CASE ReconcileSynced
    BY <2>5, <1>6, <1>7 DEF ReconcileSynced
  <2>6. CASE Drift
    BY <2>6, <1>6, <1>7 DEF Drift
  <2>7. CASE BootSync
    BY <2>7, <1>4, <1>5 DEF BootSync, NoReply
  <2>8. CASE (\E i \in items : Fetch(i) \/ RedeliverItem(i)) \/ Boot \/ AgentDies
             \/ (\E r \in Resources : PublishConverge(r)) \/ UNCHANGED workerVars
    <3>1. mishaps' = mishaps
      BY <2>8 DEF Fetch, RedeliverItem, Boot, AgentDies, PublishConverge, agentSide, workerVars
    <3> QED
      BY <3>1
  <2>9. CASE \E r \in Resources : ContainerDies(r)
    BY <2>9, <1>4 DEF ContainerDies
  <2> QED
    BY <2>1, <2>2, <2>3, <2>4, <2>5, <2>6, <2>7, <2>8, <2>9 DEF WorkerNext, WorkerStep
<1> QED
  BY <1>d, <1>1, <1>2, <1>8

\* A reconcile that misses nothing leaves what is held on the host.
LEMMA ReconciledAll ==
  ASSUME mishaps \in Nat, mishaps = 0, mishaps' = 0, NEW h, NEW missed, ReconcileOK(h, missed)
  PROVE  \A r \in Resources \ {"route"} : host'[r] = Made(h[r])
<1> USE WorkerAssumption
<1>2. IsFiniteSet(missed)
  BY ResourcesFinite, FS_Subset DEF ReconcileOK, Misses
<1>3. Cardinality(missed) = 0
  <2>1. Cardinality(missed) \in Nat
    BY <1>2, FS_CardinalityType
  <2> QED
    BY <2>1 DEF ReconcileOK, Mishap
<1>4. missed = {}
  BY <1>2, <1>3, FS_EmptySet
<1> QED
  BY <1>4 DEF ReconcileOK, HostConverged

\* A new item goes to the end of the queue, with a version newer than all before, or it is
\* a nudge.
LEMMA PublishInOrder ==
  ASSUME WorkerInv, InOrder, NEW kind, NEW r, NEW v, Publish(kind, r, v),
         UNCHANGED <<reading, agentSide>>,
         newest' = newest + 1, gone' \in {gone, gone \cup {newest + 1}},
         \/ kind = "resync" /\ \A q \in Resources \ {"route"} : want'[q] = want[q]
         \/ /\ kind # "resync" /\ r \in Resources /\ v = newest + 1 /\ want'[r] = newest + 1
            /\ \A q \in Resources : q # r => want'[q] = want[q]
  PROVE  InOrder'
<1> USE WorkerAssumption
<1>v. VersionsOK /\ StreamOK /\ HandOK
  BY DEF WorkerInv
<1>u. UNCHANGED <<reading, agent, hand, held, host>>
  BY DEF agentSide
<1>1. PICK new : new = [id |-> serial + 1, kind |-> kind, res |-> r, spec |-> v, sent |-> 0,
                        state |-> "new"]
  OBVIOUS
<1>2. items' = items \cup {new} /\ new.id = serial + 1 /\ new.kind = kind /\ new.res = r
      /\ new.spec = v /\ new.state = "new"
  BY <1>1 DEF Publish
<1>3. \A i \in items : /\ i.id \in Nat /\ i.id <= serial /\ i.id < serial + 1
                       /\ \A q \in Resources : Carries(i, q) => i.spec \in Nat /\ i.spec <= newest
  <2> SUFFICES ASSUME NEW i \in items
               PROVE  /\ i.id \in Nat /\ i.id <= serial /\ i.id < serial + 1
                      /\ \A q \in Resources : Carries(i, q) => i.spec \in Nat /\ i.spec <= newest
    OBVIOUS
  <2>1. ItemOK(i) /\ i \in WorkItems /\ serial \in Nat
    BY <1>v DEF StreamOK, ItemOK
  <2>2. ASSUME NEW q \in Resources, Carries(i, q)
        PROVE  i.spec \in Nat /\ i.spec <= newest
    <3>1. i.spec <= want[q] /\ i.spec \in {0} \cup Versions
      BY <2>1, <2>2 DEF ItemOK, Carries, WorkItems
    <3>2. want[q] \in Versions /\ want[q] <= newest /\ newest \in Versions
      BY <1>v DEF VersionsOK
    <3> QED
      BY <3>1, <3>2 DEF Versions
  <2> QED
    BY <2>1, <2>2 DEF ItemOK, WorkItems
<1>4. newest \in Nat /\ serial \in Nat
  BY <1>v DEF VersionsOK, Versions, StreamOK
<1>5. hand # NoItem => hand \in Nat /\ hand <= serial
  BY <1>v, <1>3 DEF HandOK
<1>6. \A i \in items' : i.state \in {"new", "flying"} /\ (hand' # NoItem => hand' <= i.id)
  BY <1>2, <1>3, <1>4, <1>5, <1>u DEF InOrder
<1>7. ASSUME NEW i \in items', NEW j \in items', NEW q \in Resources, Carries(i, q), Carries(j, q),
             i.id < j.id
      PROVE  i.spec < j.spec
  <2>1. CASE j \in items
    <3>1. i \in items
      BY <2>1, <1>2, <1>3, <1>4, <1>7
    <3> QED
      BY <3>1, <2>1, <1>7 DEF InOrder
  <2>2. CASE j = new
    <3>1. v = newest + 1
      BY <2>2, <1>2, <1>7 DEF Carries
    <3>2. i \in items
      BY <2>2, <1>2, <1>4, <1>7
    <3> QED
      BY <3>1, <3>2, <2>2, <1>2, <1>3, <1>4, <1>7
  <2> QED
    BY <2>1, <2>2, <1>2
<1>8. ASSUME NEW q \in Resources \ {"route"}
      PROVE  /\ \/ held'[q] = want'[q] /\ \A i \in items' : ~Carries(i, q)
                \/ \E i \in items' : Carries(i, q) /\ i.spec = want'[q]
             /\ agent' # "synced" => host'[q] = (Made(held[q]))'
  <2>1. \/ held[q] = want[q] /\ \A i \in items : ~Carries(i, q)
        \/ \E i \in items : Carries(i, q) /\ i.spec = want[q]
    BY DEF InOrder
  <2>2. \/ held'[q] = want'[q] /\ \A i \in items' : ~Carries(i, q)
        \/ \E i \in items' : Carries(i, q) /\ i.spec = want'[q]
    <3>1. CASE kind # "resync" /\ q = r
      BY <3>1, <1>2 DEF Carries
    <3>2. CASE kind = "resync" \/ q # r
      <4>1. want'[q] = want[q] /\ ~Carries(new, q)
        BY <3>2, <1>2 DEF Carries
      <4> QED
        BY <2>1, <4>1, <1>2, <1>u
    <3> QED
      BY <3>1, <3>2
  <2>3. Made(held[q])' = Made(held[q])
    <3>1. held[q] \in Nat /\ held[q] <= want[q] /\ want[q] \in Nat /\ want[q] <= newest
      BY <1>v DEF VersionsOK, Versions
    <3>2. held[q] # newest + 1 /\ held'[q] = held[q]
      BY <3>1, <1>4, <1>u
    <3> QED
      BY <3>2 DEF Made
  <2>4. agent # "synced" => host[q] = Made(held[q])
    BY DEF InOrder
  <2> QED
    BY <2>2, <2>3, <2>4, <1>u
<1> QED
  BY <1>6, <1>7, <1>8, <1>u DEF InOrder

\* The plane adds to the end of the queue only.
LEMMA PlaneInOrder ==
  ASSUME WorkerInv, InOrder, PlaneStep, converges \in Nat, converges = 0, converges' = 0
  PROVE  InOrder'
<1> USE WorkerAssumption
<1>v. VersionsOK
  BY DEF WorkerInv
<1>1. ASSUME NEW r \in Resources, NEW absent \in BOOLEAN, ChangeOf(r, absent)
      PROVE  /\ newest' = newest + 1 /\ gone' \in {gone, gone \cup {newest + 1}}
             /\ want'[r] = newest + 1 /\ \A q \in Resources : q # r => want'[q] = want[q]
  <2>1. want \in [Resources -> Versions]
    BY <1>v DEF VersionsOK
  <2> QED
    BY <1>1, <2>1 DEF ChangeOf
<1>2. CASE StartRollout
  <2>1. "app" \in Resources /\ ChangeOf("app", FALSE) /\ Publish("rollout", "app", newest + 1)
        /\ UNCHANGED <<reading, agentSide>>
    BY <1>2 DEF StartRollout, Exists
  <2> QED
    BY <2>1, <1>1, PublishInOrder
<1>3. CASE RolloutEnds
  BY <1>3 DEF RolloutEnds, streamVars, agentSide, InOrder, Made, Carries
<1>4. CASE RequestResync
  <2>1. Publish("resync", "route", 0) /\ newest' = newest + 1
        /\ UNCHANGED <<want, gone, reading, agentSide>>
    BY <1>4 DEF RequestResync
  <2> QED
    BY <2>1, PublishInOrder
<1>5. ASSUME NEW r \in Resources, ReadToConverge(r)
      PROVE  FALSE
  BY <1>5 DEF ReadToConverge
<1>6. ASSUME NEW r \in Resources, Remove(r)
      PROVE  InOrder'
  <2>1. PICK kind : kind # "resync" /\ Publish(kind, r, newest + 1)
    BY <1>6 DEF Remove
  <2>2. ChangeOf(r, TRUE) /\ UNCHANGED <<reading, agentSide>>
    BY <1>6 DEF Remove
  <2> QED
    BY <2>1, <2>2, <1>1, PublishInOrder
<1>7. ASSUME NEW absent \in BOOLEAN, ReconcileDatabase(absent)
      PROVE  InOrder'
  <2>1. PICK kind : kind # "resync" /\ Publish(kind, "db", newest + 1)
    BY <1>7 DEF ReconcileDatabase
  <2>2. "db" \in Resources /\ ChangeOf("db", absent) /\ UNCHANGED <<reading, agentSide>>
    BY <1>7 DEF ReconcileDatabase, ChangeOf
  <2> QED
    BY <2>1, <2>2, <1>1, PublishInOrder
<1>8. ASSUME NEW absent \in BOOLEAN, SetProxyRoute(absent)
      PROVE  InOrder'
  <2>1. "route" \in Resources /\ ChangeOf("route", absent) /\ Publish("resync", "route", 0)
        /\ UNCHANGED <<reading, agentSide>>
    BY <1>8 DEF SetProxyRoute, ChangeOf
  <2>2. \A q \in Resources \ {"route"} : want'[q] = want[q]
    BY <2>1, <1>1
  <2> QED
    BY <2>1, <2>2, <1>1, PublishInOrder
<1> QED
  BY <1>2, <1>3, <1>4, <1>5, <1>6, <1>7, <1>8 DEF PlaneStep

\* The oldest item is handled and acknowledged: it was the last of its resource, or is not
\* the newest.
LEMMA AckInOrder ==
  ASSUME WorkerInv, InOrder, hand # NoItem, AckItem, UNCHANGED planeVars,
         \A r \in Resources \ {"route"} : host'[r] = Made(held'[r]),
         \A r \in Resources \ {"route"} :
           \/ Carries(InHand, r) /\ held'[r] = InHand.spec
           \/ ~Carries(InHand, r) /\ held'[r] = held[r]
  PROVE  InOrder'
<1>v. VersionsOK /\ StreamOK
  BY DEF WorkerInv
<1>u. want' = want /\ reading' = reading /\ gone' = gone
  BY DEF planeVars
<1>1. InHand \in items /\ InHand.id = hand /\ ItemOK(InHand)
  BY InHandIsHeld
<1>2. items' = items \ {InHand} /\ agent' = "idle" /\ hand' = NoItem
  BY DEF AckItem, PutDown
<1>3. \A i \in items : i.id \in Nat /\ i.spec \in Nat
  BY WorkerAssumption, <1>v DEF StreamOK, ItemOK, WorkItems, Versions
<1>4. \A i \in items' : i \in items /\ hand < i.id
  BY <1>1, <1>2, <1>3, <1>v DEF InOrder, StreamOK
<1>5. ASSUME NEW r \in Resources \ {"route"}
      PROVE  \/ held'[r] = want'[r] /\ \A i \in items' : ~Carries(i, r)
             \/ \E i \in items' : Carries(i, r) /\ i.spec = want'[r]
  <2>1. CASE held[r] = want[r] /\ \A i \in items : ~Carries(i, r)
    BY <2>1, <1>1, <1>2, <1>u
  <2>2. ASSUME NEW i \in items, Carries(i, r), i.spec = want[r], i # InHand
        PROVE  \E j \in items' : Carries(j, r) /\ j.spec = want'[r]
    BY <2>2, <1>2, <1>u
  <2>3. CASE Carries(InHand, r) /\ InHand.spec = want[r]
    <3>1. held'[r] = want'[r]
      BY <2>3, <1>u
    <3>2. ASSUME NEW j \in items', Carries(j, r)
          PROVE  FALSE
      <4>1. InHand.spec < j.spec
        BY <3>2, <2>3, <1>1, <1>4 DEF InOrder
      <4>2. j.spec <= want[r] /\ want[r] \in Nat
        BY <3>2, <1>4, <1>v DEF StreamOK, ItemOK, Carries, VersionsOK, Versions
      <4> QED
        BY <4>1, <4>2, <2>3, <1>1, <1>3, <1>4
    <3> QED
      BY <3>1, <3>2
  <2> QED
    BY <2>1, <2>2, <2>3 DEF InOrder
<1>6. \A r \in Resources \ {"route"} : host'[r] = Made(held[r])'
  BY <1>u DEF Made
<1>7. /\ \A i \in items' : i.state \in {"new", "flying"}
      /\ \A i, j \in items', r \in Resources :
           Carries(i, r) /\ Carries(j, r) /\ i.id < j.id => i.spec < j.spec
      /\ \A r \in Resources : reading'[r] = 0
  BY <1>4, <1>u DEF InOrder
<1> QED
  BY <1>2, <1>5, <1>6, <1>7 DEF InOrder

\* The agent and the stream keep the order, while nothing fails.
LEMMA AgentInOrder ==
  ASSUME WorkerInv, InOrder, WorkerStep \/ Drift, mishaps \in Nat, mishaps = 0, mishaps' = 0
  PROVE  InOrder'
<1> USE WorkerAssumption
<1>v. VersionsOK /\ StreamOK /\ HandOK
  BY DEF WorkerInv
<1>b. agent \in {"busy", "synced"} => hand # NoItem
  BY <1>v DEF HandOK, InOrder
<1>m. ~Mishap(1)
  BY DEF Mishap
<1>f. ~ReconcileFails
  BY <1>m DEF ReconcileFails
<1>1. ASSUME NEW i \in items, Fetch(i)
      PROVE  InOrder'
  <2>u. UNCHANGED <<want, gone, reading, held, host>> /\ agent = "idle" /\ agent' = "busy" /\ hand' = i.id
    BY <1>1 DEF Fetch, planeVars
  <2>1. hand = NoItem /\ i \in WorkItems
    BY <2>u, <1>v DEF HandOK, StreamOK, ItemOK
  <2>2. \A k \in items : k.state = "new" /\ k.id # NoItem
    BY <2>1, <1>v DEF InOrder, StreamOK, ItemOK, WorkItems, NoItem
  <2>3. \A k \in items : i.id <= k.id
    BY <1>1, <2>2 DEF Fetch, Deliverable
  <2>4. PICK j : j = [i EXCEPT !.state = "flying", !.sent = @ + 1]
    OBVIOUS
  <2>5. j.id = i.id /\ j.kind = i.kind /\ j.res = i.res /\ j.spec = i.spec /\ j.state = "flying"
    BY <2>1, <2>4 DEF WorkItems
  <2>6. items' = (items \ {i}) \cup {j}
    BY <1>1, <2>4 DEF Fetch
  <2>7. \A k \in items' : \E l \in items : k.id = l.id /\ k.spec = l.spec /\ k.kind = l.kind /\ k.res = l.res
    BY <2>5, <2>6
  <2>8. \A k \in items' : k.state \in {"new", "flying"} /\ hand' <= k.id
    BY <2>2, <2>3, <2>5, <2>6, <2>7, <2>u
  <2>9. \A k, l \in items', r \in Resources :
          Carries(k, r) /\ Carries(l, r) /\ k.id < l.id => k.spec < l.spec
    <3> SUFFICES ASSUME NEW k \in items', NEW l \in items', NEW r \in Resources,
                        Carries(k, r), Carries(l, r), k.id < l.id
                 PROVE  k.spec < l.spec
      BY DEF Carries
    <3>1. PICK a \in items : k.id = a.id /\ k.spec = a.spec /\ k.kind = a.kind /\ k.res = a.res
      BY <2>7
    <3>2. PICK b \in items : l.id = b.id /\ l.spec = b.spec /\ l.kind = b.kind /\ l.res = b.res
      BY <2>7
    <3>3. Carries(a, r) /\ Carries(b, r) /\ a.id < b.id
      BY <3>1, <3>2 DEF Carries
    <3>4. a.spec < b.spec
      BY <3>3 DEF InOrder
    <3> QED
      BY <3>1, <3>2, <3>4
  <2>10. ASSUME NEW r \in Resources \ {"route"}
         PROVE  \/ held'[r] = want'[r] /\ \A k \in items' : ~Carries(k, r)
                \/ \E k \in items' : Carries(k, r) /\ k.spec = want'[r]
    <3>1. CASE held[r] = want[r] /\ \A k \in items : ~Carries(k, r)
      BY <3>1, <2>7, <2>u DEF Carries
    <3>2. CASE \E k \in items : Carries(k, r) /\ k.spec = want[r]
      BY <3>2, <2>5, <2>6, <2>u DEF Carries
    <3> QED
      BY <3>1, <3>2 DEF InOrder
  <2> QED
    BY <2>8, <2>9, <2>10, <2>u DEF InOrder, Made
<1>2. ASSUME NEW i \in items, RedeliverItem(i)
      PROVE  FALSE
  BY <1>2 DEF RedeliverItem, InOrder
<1>3. CASE HandleApp
  <2>1. PICK h : /\ h = [held EXCEPT !["app"] = InHand.spec] /\ Hold(h) /\ agent = "busy"
                 /\ InHand.kind \in {"rollout", "converge", "remove"}
                 /\ \E missed : ReconcileOK(h, missed) /\ AckItem
                 /\ UNCHANGED planeVars
    BY <1>3, <1>f DEF HandleApp
  <2>2. ItemOK(InHand)
    BY <2>1, <1>b, InHandIsHeld
  <2>3. InHand.kind # "resync" /\ InHand.res = "app" /\ "app" \in Resources
    BY <2>1, <2>2 DEF ItemOK, WorkItems
  <2>4. \A r \in Resources \ {"route"} : host'[r] = Made(h[r])
    BY <2>1, ReconciledAll
  <2>5. held' = h /\ held \in [Resources -> {0} \cup Versions]
    BY <2>1, <1>v DEF Hold, VersionsOK
  <2>6. \A r \in Resources \ {"route"} :
           \/ Carries(InHand, r) /\ held'[r] = InHand.spec
           \/ ~Carries(InHand, r) /\ held'[r] = held[r]
    BY <2>1, <2>3, <2>5 DEF Carries
  <2> QED
    BY <2>1, <2>4, <2>5, <2>6, <1>b, AckInOrder
<1>4. CASE HandleOther
  <2>1. PICK h : /\ h = [held EXCEPT ![InHand.res] = InHand.spec] /\ Hold(h) /\ agent = "busy"
                 /\ InHand.kind \in {"db.provision", "db.remove", "compose.converge", "compose.remove"}
                 /\ host' = [host EXCEPT ![InHand.res] = Made(h[InHand.res])] /\ AckItem
                 /\ UNCHANGED planeVars
    BY <1>4, <1>f, <1>m DEF HandleOther
  <2>2. ItemOK(InHand)
    BY <2>1, <1>b, InHandIsHeld
  <2>3. InHand.kind # "resync" /\ InHand.res \in Resources
    BY <2>1, <2>2 DEF ItemOK
  <2>4. held' = h /\ held \in [Resources -> {0} \cup Versions] /\ host \in [Resources -> {0} \cup Versions]
    BY <2>1, <1>v DEF Hold, VersionsOK
  <2>5. \A r \in Resources \ {"route"} : host'[r] = Made(held'[r])
    BY <2>1, <2>3, <2>4 DEF InOrder
  <2>6. \A r \in Resources \ {"route"} :
           \/ Carries(InHand, r) /\ held'[r] = InHand.spec
           \/ ~Carries(InHand, r) /\ held'[r] = held[r]
    BY <2>1, <2>3, <2>4 DEF Carries
  <2> QED
    BY <2>1, <2>5, <2>6, <1>b, AckInOrder
<1>5. CASE HandleResync
  <2>1. SyncState /\ agent' = "synced" /\ UNCHANGED <<hand, items>> /\ UNCHANGED planeVars
        /\ agent = "busy"
    BY <1>5, <1>m DEF HandleResync, NoReply
  <2>2. held' = want /\ UNCHANGED <<want, reading>>
    BY <2>1 DEF SyncState, Hold, planeVars
  <2>3. \A r \in Resources \ {"route"} :
           \/ held'[r] = want'[r] /\ \A i \in items' : ~Carries(i, r)
           \/ \E i \in items' : Carries(i, r) /\ i.spec = want'[r]
    BY <2>1, <2>2 DEF InOrder
  <2> QED
    BY <2>1, <2>2, <2>3, <1>b DEF InOrder
<1>6. CASE ReconcileSynced
  <2>1. PICK missed : ReconcileOK(held, missed)
    BY <1>6, <1>f DEF ReconcileSynced
  <2>2. AckItem /\ UNCHANGED planeVars /\ UNCHANGED held /\ hand # NoItem /\ agent = "synced"
    BY <1>6, <1>b, <1>f DEF ReconcileSynced
  <2>3. InHand.kind = "resync"
    BY <2>2, <1>v, InHandIsHeld DEF HandOK
  <2>4. \A r \in Resources \ {"route"} : host'[r] = Made(held'[r])
    BY <2>1, <2>2, ReconciledAll
  <2>5. \A r \in Resources \ {"route"} : ~Carries(InHand, r) /\ held'[r] = held[r]
    BY <2>2, <2>3 DEF Carries
  <2> QED
    BY <2>2, <2>4, <2>5, AckInOrder
<1>7. ~Boot /\ ~BootSync
  BY DEF Boot, BootSync, InOrder
<1>8. ASSUME NEW r \in Resources, PublishConverge(r)
      PROVE  FALSE
  BY <1>8 DEF PublishConverge, InOrder
<1>9. CASE Drift
  <2>1. PICK missed : ReconcileOK(held, missed)
    BY <1>9, <1>f DEF Drift
  <2>2. UNCHANGED <<want, gone, reading, items, agent, hand, held>>
    BY <1>9 DEF Drift, planeVars, streamVars
  <2>3. \A r \in Resources \ {"route"} : host'[r] = Made(held[r])
    BY <2>1, ReconciledAll
  <2> QED
    BY <2>2, <2>3 DEF InOrder, Made
<1> QED
  BY <1>1, <1>2, <1>3, <1>4, <1>5, <1>6, <1>7, <1>8, <1>9 DEF WorkerStep

\* Every step keeps the order, while nothing fails, dies or is published late.
LEMMA CalmStep == WorkerInv /\ CalmInv /\ [WorkerNext]_workerVars => CalmInv'
<1> SUFFICES ASSUME WorkerInv, CalmInv, [WorkerNext]_workerVars
             PROVE  CalmInv'
  OBVIOUS
<1>1. mishaps \in Nat /\ converges \in Nat /\ (Undisturbed => InOrder) /\ agentDeaths \in Nat
  BY DEF CalmInv, WorkerInv, StreamOK
<1>2. /\ mishaps' \in Nat /\ converges' \in Nat /\ agentDeaths' \in Nat
      /\ mishaps <= mishaps' /\ converges <= converges' /\ agentDeaths <= agentDeaths'
  BY <1>1, CountersGrow
<1>3. ASSUME Undisturbed'
      PROVE  InOrder'
  <2>1. mishaps' = 0 /\ converges' = 0 /\ agentDeaths' = 0
    BY <1>3 DEF Undisturbed
  <2>2. mishaps = 0 /\ converges = 0 /\ agentDeaths = 0 /\ InOrder
    <3>1. mishaps = 0 /\ converges = 0 /\ agentDeaths = 0
      BY <2>1, <1>1, <1>2
    <3> QED
      BY <3>1, <1>1 DEF Undisturbed
  <2>3. CASE PlaneStep
    BY <2>1, <2>2, <2>3, <1>1, PlaneInOrder
  <2>4. CASE WorkerStep \/ Drift
    BY <2>1, <2>2, <2>4, <1>1, AgentInOrder
  <2>5. ~AgentDies
    BY <2>1, <2>2 DEF AgentDies
  <2>6. ASSUME NEW r \in Resources
        PROVE  ~ContainerDies(r)
    BY <2>1, <2>2 DEF ContainerDies, Mishap
  <2>7. CASE UNCHANGED workerVars
    BY <2>2, <2>7 DEF workerVars, planeVars, streamVars, InOrder, Carries, Made
  <2> QED
    BY <2>3, <2>4, <2>5, <2>6, <2>7 DEF WorkerNext
<1> QED
  BY <1>2, <1>3 DEF CalmInv

\* While no call failed, nothing died and no request published beside another, a settled agent
\* holds what Postgres asks for and its host runs it, for any number of changes of any number
\* of resources: the items are handled in the order in which they were asked for (Run, Fetch,
\* handle).
THEOREM RunsWhatIsWantedHolds == WorkerSpec => [](Undisturbed => RunsWhatIsWanted)
<1>1. WorkerInit => CalmInv
  BY WorkerAssumption DEF WorkerInit, CalmInv, InOrder, Undisturbed, Made
<1>2. WorkerInv /\ CalmInv => (Undisturbed => RunsWhatIsWanted)
  BY DEF CalmInv, InOrder, RunsWhatIsWanted, Settled
<1> QED
  BY <1>1, <1>2, CalmStep, WorkerInvariance, PTL DEF WorkerSpec

\* The promise that stale_rollout refutes, with what it needs.
THEOREM SettledOnDesiredHolds == WorkerSpec => [](Undisturbed => SettledOnDesired)
<1>1. (Undisturbed => RunsWhatIsWanted) => (Undisturbed => SettledOnDesired)
  BY DEF RunsWhatIsWanted, SettledOnDesired, Exists
<1> QED
  BY <1>1, RunsWhatIsWantedHolds, PTL
=============================================================================

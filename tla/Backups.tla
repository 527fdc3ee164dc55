------------------------------ MODULE Backups ------------------------------
(***************************************************************************)
(* The backups of one database and of the volumes of one application       *)
(* (core/scheduler/backups.go, volume_backups.go; the agent's half is in   *)
(* agent/worker and agent/driver/docker/backup.go).  The plane records a   *)
(* run and publishes work; the agent uploads, deletes or restores and      *)
(* reports; the plane closes the record and, after a success, asks for the *)
(* objects beyond the schedule's retention to be deleted.                  *)
(*                                                                         *)
(* Work is delivered in order and comes back when it is not acknowledged.  *)
(* Reports have one consumer per kind and come back too, after later ones: *)
(* they are a set.  A fault is a publish that fails, a report that is lost,*)
(* an end that dies before it acknowledges, or an operation that fails.    *)
(***************************************************************************)
EXTENDS Naturals, Sequences, FiniteSets

CONSTANTS
  Schedules,        \* backup schedules: of the database, and of volumes
  VolumeSchedules,  \* the ones that back up a volume
  RetentionCount,   \* retention_count of each of them
  SameSecond,       \* TRUE when one sweep may start several schedules within a second
  MaxRecord,        \* bound: backup runs
  MaxRestore,       \* bound: restores
  MaxBackupFault    \* bound: faults

ASSUME BackupsAssumption ==
  /\ Schedules # {} /\ VolumeSchedules \subseteq Schedules /\ SameSecond \in BOOLEAN
  /\ RetentionCount \in Nat /\ MaxRecord \in Nat /\ MaxRestore \in Nat /\ MaxBackupFault \in Nat

Record == 1..MaxRecord
Restore == 1..MaxRestore

VARIABLES
  record,        \* backup_records and volume_backup_records, in creation order
  restore,       \* database_restores
  dbStatus,      \* databases.status
  bucket,        \* the keys that hold an object
  backupWork,    \* work items of the host, not yet delivered
  unacked,       \* work items delivered, executed and not acknowledged
  reports,       \* the agent's events the plane has not acknowledged
  backupFaults

backupVars == <<record, restore, dbStatus, bucket, backupWork, unacked, reports, backupFaults>>

NoRecord == [status |-> "none", sched |-> CHOOSE s \in Schedules : TRUE, second |-> 0,
              named |-> FALSE]
NoRestore == [status |-> "none", from |-> 0, step |-> "none"]

BackupsInit ==
  /\ record = [r \in Record |-> NoRecord] /\ restore = [x \in Restore |-> NoRestore]
  /\ dbStatus = "running" /\ bucket = {}
  /\ backupWork = <<>> /\ unacked = {} /\ reports = {} /\ backupFaults = 0

\* The object key of a run: the database or the volume, and the second it started.
objectKey(s, second) == <<IF s \in VolumeSchedules THEN s ELSE "db", second>>

Key(r) == objectKey(record[r].sched, record[r].second)

ObjectKey == {objectKey(s, t) : s \in Schedules, t \in Record}
Item == [kind : {"backup"}, id : Record, keys : {{}}]
   \cup [kind : {"restore"}, id : Restore, keys : {{k} : k \in ObjectKey}]
   \cup [kind : {"prune"}, id : {0}, keys : SUBSET ObjectKey]
Event == [kind : {"backup"}, id : Record, outcome : {"succeeded", "failed"}, keys : {{}}, twice : BOOLEAN]
    \cup [kind : {"restore"}, id : Restore, outcome : {"applying", "succeeded", "failed"},
          keys : {{}}, twice : BOOLEAN]
    \cup [kind : {"prune"}, id : {0}, outcome : {"done"}, keys : SUBSET ObjectKey, twice : BOOLEAN]

BackupsTypeOK ==
  /\ record \in [Record -> [status : {"none", "running", "succeeded", "failed", "deleted"},
                            sched : Schedules, second : 0..MaxRecord, named : BOOLEAN]]
  /\ restore \in [Restore -> [status : {"none", "running", "succeeded", "failed"},
                              from : 0..MaxRecord, step : {"none", "fetching", "applying"}]]
  /\ dbStatus \in {"running", "restoring", "error"}
  /\ bucket \subseteq ObjectKey
  /\ backupWork \in Seq(Item) /\ unacked \subseteq Item /\ reports \subseteq Event

Fault == backupFaults < MaxBackupFault /\ backupFaults' = backupFaults + 1
NoFault == UNCHANGED backupFaults

WorkItem(kind, id, keys) == [kind |-> kind, id |-> id, keys |-> keys]
Report(kind, id, outcome, keys) ==
  [kind |-> kind, id |-> id, outcome |-> outcome, keys |-> keys, twice |-> FALSE]

\* PublishWork; an error is returned or logged, and nothing takes the records back.
PublishWork(item) ==
  \/ NoFault /\ backupWork' = Append(backupWork, item)
  \/ Fault /\ UNCHANGED backupWork

-----------------------------------------------------------------------------
(* The plane.                                                              *)

Runs == {r \in Record : record[r].status # "none"}

\* RunBackup and RunVolumeBackup, by the sweeper for a schedule that is due or by
\* a user: the record is written before the work is published.
RunBackup(s) ==
  LET r    == Cardinality(Runs) + 1
      last == IF Runs = {} THEN NoRecord ELSE record[r - 1]
  IN  /\ r \in Record
      /\ \E second \in last.second .. last.second + 1 :
           /\ second = last.second => SameSecond /\ Runs # {}
           /\ \A q \in Runs : record[q].sched = s => record[q].second # second
           /\ record' = [record EXCEPT ![r] =
                [status |-> "running", sched |-> s, second |-> second, named |-> FALSE]]
      /\ PublishWork(WorkItem("backup", r, {}))
      /\ UNCHANGED <<restore, dbStatus, bucket, unacked, reports>>

\* A volume's retention is at least one; a database's may be zero: no retention.
Keep(s) == IF s \in VolumeSchedules /\ RetentionCount = 0 THEN 1 ELSE RetentionCount

BeyondRetention_CountsEveryRun(rec, s) ==
  {r \in Record : /\ rec[r].sched = s /\ rec[r].status = "succeeded"
                  /\ Cardinality({q \in Record : /\ q > r /\ rec[q].sched = s
                                                  /\ rec[q].status # "none"}) >= Keep(s)}

\* ListBackupRecordsBeyondRetention: the succeeded runs of a schedule with at
\* least RetentionCount newer ones.
BeyondRetention(rec, s) ==
  LET kept == {r \in Record : rec[r].sched = s /\ rec[r].status = "succeeded" /\ rec[r].named}
  IN  {r \in kept : Cardinality({q \in kept : q > r}) >= Keep(s)}

\* dispatchRetentionPrune and pruneVolumeBackups: one work item with the keys.
dispatchRetentionPrune(rec, s) ==
  LET prunable == BeyondRetention(rec, s)
      keys     == {objectKey(s, rec[r].second) : r \in prunable}
  IN  IF (s \notin VolumeSchedules /\ RetentionCount = 0) \/ prunable = {}
      THEN NoFault /\ UNCHANGED backupWork
      ELSE PublishWork(WorkItem("prune", 0, keys))

\* HandleDbBackupEvent and HandleVolumeBackupEvent: the report decides the record,
\* whatever it said before.  A failed run names no object.
HandleDbBackupEvent(e) ==
  LET r       == e.id
      ok      == e.outcome = "succeeded"
      decided == [record EXCEPT ![r].status = e.outcome, ![r].named = ok]
  IN  /\ e.kind = "backup"
      /\ IF record[r].status = "deleted"
         THEN NoFault /\ UNCHANGED <<record, backupWork>>
         ELSE /\ record' = decided
              /\ IF ok THEN dispatchRetentionPrune(decided, record[r].sched)
                       ELSE NoFault /\ UNCHANGED backupWork
      /\ UNCHANGED <<restore, dbStatus, bucket, unacked>>

\* DeleteBackupRecordsByObjectKeys deletes by the key alone, from backup_records
\* alone: the rows of a volume's objects stay.
DeleteBackupRecordsByObjectKeys(keys) ==
  [r \in Record |->
     IF Key(r) \in keys /\ record[r].named /\ record[r].sched \notin VolumeSchedules
     THEN [record[r] EXCEPT !.status = "deleted", !.named = FALSE] ELSE record[r]]

HandleDbBackupPruneEvent(e) ==
  /\ e.kind = "prune"
  /\ record' = DeleteBackupRecordsByObjectKeys(e.keys)
  /\ NoFault /\ UNCHANGED <<restore, dbStatus, bucket, backupWork, unacked>>

\* RunRestore: of a succeeded run; the record and the database's status come first.
RunRestore(r) ==
  LET x == Cardinality({y \in Restore : restore[y].status # "none"}) + 1
  IN  /\ x \in Restore
      /\ record[r].status = "succeeded" /\ record[r].sched \notin VolumeSchedules
      /\ restore' = [restore EXCEPT ![x] = [status |-> "running", from |-> r, step |-> "fetching"]]
      /\ dbStatus' = "restoring"
      /\ PublishWork(WorkItem("restore", x, {Key(r)}))
      /\ UNCHANGED <<record, bucket, unacked, reports>>

FinishDatabaseRestore_ById(x, status) ==
  restore' = [restore EXCEPT ![x].status = status]

\* AdvanceDatabaseRestore and FinishDatabaseRestore change a running restore only.
AdvanceDatabaseRestore(x, step) ==
  /\ restore[x].status = "running"
  /\ restore' = [restore EXCEPT ![x].step = step]

FinishDatabaseRestore(x, status) ==
  /\ restore[x].status = "running"
  /\ restore' = [restore EXCEPT ![x].status = status]

\* HandleDbRestoreEvent: a late event of a closed restore is ignored.
HandleDbRestoreEvent(e) ==
  /\ e.kind = "restore" /\ NoFault
  /\ \/ e.outcome = "applying" /\ AdvanceDatabaseRestore(e.id, e.outcome) /\ UNCHANGED dbStatus
     \/ /\ e.outcome # "applying" /\ FinishDatabaseRestore(e.id, e.outcome)
        /\ dbStatus' = IF e.outcome = "succeeded" THEN "running" ELSE "error"
     \/ restore[e.id].status # "running" /\ UNCHANGED <<restore, dbStatus>>
  /\ UNCHANGED <<record, bucket, backupWork, unacked>>

\* The consumer of a kind of report: the handler, then the acknowledgement.  When
\* the plane dies in between, the report comes back once.
Handle(e) ==
  /\ HandleDbBackupEvent(e) \/ HandleDbBackupPruneEvent(e) \/ HandleDbRestoreEvent(e)
  /\ reports' = (reports \ {e}) \cup (IF e.twice THEN {[e EXCEPT !.twice = FALSE]} ELSE {})

\* HandleDbStatus records what the agent observes, also during a restore.
HandleDbStatus(state) ==
  /\ dbStatus # state /\ dbStatus' = state
  /\ UNCHANGED <<record, restore, bucket, backupWork, unacked, reports, backupFaults>>

-----------------------------------------------------------------------------
(* The agent.                                                              *)

\* ExecuteBackup: dump, compress, upload.  A step that fails leaves no object.
ExecuteBackup(item) ==
  {[bucket |-> bucket \cup {Key(item.id)}, cost |-> 0,
    events |-> {Report("backup", item.id, "succeeded", {})}],
   [bucket |-> bucket, cost |-> 1, events |-> {Report("backup", item.id, "failed", {})}]}

\* ExecutePrune: each key by itself; deleting an absent object is a success.
ExecutePrune(item) ==
  {[bucket |-> bucket \ gone, cost |-> Cardinality(item.keys \ gone),
    events |-> {Report("prune", 0, "done", gone)}] : gone \in SUBSET item.keys}

\* ExecuteRestore: fetch, then apply.  An object that is gone fails the restore.
ExecuteRestore(item) ==
  LET applied(outcome, cost) ==
        [bucket |-> bucket, cost |-> cost,
         events |-> {Report("restore", item.id, o, {}) : o \in {"applying", outcome}}]
      failed(cost) ==
        [bucket |-> bucket, cost |-> cost, events |-> {Report("restore", item.id, "failed", {})}]
  IN  IF item.keys \subseteq bucket
      THEN {applied("succeeded", 0), applied("failed", 1), failed(1)}
      ELSE {failed(0)}

\* What handleMsg does once the operation has ended: it publishes the outcome,
\* whether or not that reaches the plane, and acknowledges the item.  It may die
\* before either.
Settle(item, run) ==
  \E how \in {"acked", "lost", "unacked", "died", "twice"} :
    /\ backupFaults' = backupFaults + run.cost + (IF how = "acked" THEN 0 ELSE 1)
    /\ backupFaults' <= MaxBackupFault
    /\ reports' = reports \cup
         CASE how \in {"lost", "died"} -> {}
           [] how = "twice" -> {[e EXCEPT !.twice = TRUE] : e \in run.events}
           [] OTHER -> run.events
    /\ unacked' = IF how \in {"unacked", "died"} THEN unacked \cup {item} ELSE unacked \ {item}

\* What the host may be given.
Pending == unacked \cup {backupWork[i] : i \in DOMAIN backupWork}

\* An item is delivered in order, or again once its ack wait is over.
handleMsg(item) ==
  /\ \/ /\ backupWork # <<>> /\ item = Head(backupWork)
        /\ backupWork' = Tail(backupWork)
     \/ item \in unacked /\ UNCHANGED backupWork
  /\ \E run \in CASE item.kind = "backup" -> ExecuteBackup(item)
                  [] item.kind = "prune" -> ExecutePrune(item)
                  [] item.kind = "restore" -> ExecuteRestore(item) :
       bucket' = run.bucket /\ Settle(item, run)
  /\ UNCHANGED <<record, restore, dbStatus>>

-----------------------------------------------------------------------------
BackupsNext ==
  \/ \E s \in Schedules : RunBackup(s)
  \/ \E r \in Record : RunRestore(r)
  \/ \E e \in reports : Handle(e)
  \/ \E state \in {"running", "error"} : HandleDbStatus(state)
  \/ \E item \in Pending : handleMsg(item)

BackupsSpec == BackupsInit /\ [][BackupsNext]_backupVars

-----------------------------------------------------------------------------
(* Properties.                                                             *)

\* The runs of the schedule of r after r that have an object, and that they are enough.
Newer(r) == {q \in Record : q > r /\ record[q].sched = record[r].sched /\ Key(q) \in bucket}
Superseded(r) == Cardinality(Newer(r)) >= Keep(record[r].sched)

\* Retention takes old objects only: when the object of a run that was reported
\* succeeded is gone, the bucket holds RetentionCount newer ones of its schedule.
\* Prunes work from lists that are minutes old, are redelivered, and race with
\* the reports of later runs and with each other.
NewestSurvive ==
  \A r \in Record :
    record[r].status \in {"succeeded", "deleted"} /\ Key(r) \notin bucket => Superseded(r)

\* A restore that is closed stays as it was closed, and a late or repeated event of
\* it leaves the status of the database alone.
ClosedRestoreStays ==
  [][/\ \A x \in Restore : restore[x].status \in {"succeeded", "failed"} =>
          restore'[x] = restore[x]
     /\ \A e \in reports : e.kind = "restore" /\ restore[e.id].status # "running"
          /\ e \notin reports' => dbStatus' = dbStatus]_backupVars

-----------------------------------------------------------------------------
(* The inductive invariant behind them.                                    *)

\* Rows are created in order, and so are the seconds in their keys; work and reports are of
\* runs that have a row.
RecordsInOrder ==
  /\ \E n \in 0..MaxRecord : Runs = 1..n
  /\ \A r \in Record : /\ record[r].second <= r
                       /\ r \notin Runs => record[r] = NoRecord
                       /\ r \in Runs => record[r].second > 0
                       /\ ~SameSecond /\ r \in Runs => record[r].second = r
                       /\ record[r].named => record[r].status = "succeeded"
  /\ \A item \in Pending : item.kind = "backup" => item.id \in Runs
  /\ \A e \in reports : e.kind = "backup" => e.id \in Runs

RestoresInOrder == \E n \in 0..MaxRestore : {x \in Restore : restore[x].status # "none"} = 1..n

\* What a prune may take: objects that are superseded when it is asked for, and stay so.
OnlySuperseded(keys) == \A k \in keys : \E r \in Runs : Key(r) = k /\ Superseded(r)

\* The objects are of runs; each run that succeeded, or is reported to have, has its object
\* or enough newer ones; and no prune under way, whenever it was asked for, changes that.
ObjectsAccounted ==
  /\ \A k \in bucket : \E r \in Runs : Key(r) = k
  /\ \A e \in reports : e.kind = "backup" /\ e.outcome = "succeeded" =>
                          Key(e.id) \in bucket \/ Superseded(e.id)
  /\ \A item \in Pending : item.kind = "prune" => OnlySuperseded(item.keys)

BackupsInv ==
  /\ BackupsTypeOK /\ RecordsInOrder /\ RestoresInOrder
  /\ ~SameSecond => ObjectsAccounted /\ NewestSurvive
=============================================================================

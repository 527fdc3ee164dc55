---------------------------- MODULE PanelUpgrade ----------------------------
(***************************************************************************)
(* The guided upgrade of the panel (core/upgrade): the plane, which takes  *)
(* the read-only lock, leaves a request file and mirrors a status file     *)
(* into its database; and the helper, a root process that dumps the        *)
(* database, migrates it, swaps the binary, gates the new one and puts the *)
(* old one back.  The database the lock and the history live in is the one *)
(* the helper dumps and restores.                                          *)
(*                                                                         *)
(* systemd starts the helper when the request file exists and no helper    *)
(* runs, and keeps the panel's process running: both are external.         *)
(***************************************************************************)
EXTENDS Naturals, FiniteSets

CONSTANTS
  Releases,    \* releases, by number; 1 is installed at first
  Broken,      \* releases that never answer /readyz
  Flaky,       \* releases that answer and then fall over
  Breaking,    \* releases whose schema the ones before cannot run on
  MaxRow,      \* bound: rows of panel_upgrades
  MaxEdit,     \* bound: changes the panel's users make
  MaxStumble   \* bound: failing calls, deaths and time-outs of the helper, restarts of the panel

ASSUME UpgradeAssumption ==
  /\ Releases \subseteq Nat \ {0} /\ 1 \in Releases
  /\ MaxRow \in Nat /\ MaxEdit \in Nat /\ MaxStumble \in Nat

Ids == 1..MaxRow
None == 0

VARIABLES
  pg,        \* the database: schema, panel_upgrades, panel_snapshots, and what users wrote
  dumps,     \* the snapshot directory: a dump per upgrade that made one
  lapsed,    \* rows (and requests) whose thirty minutes are over
  request,   \* request.json
  statusFile,    \* status.json
  installed, prev, \* /usr/local/bin/cypherd and slots/cypherd.prev
  ran,       \* the ran- markers in the slots directory
  panel,     \* the plane's process: its version, whether it answers, whether it fell since the gate began
  writer,    \* a request that is yet to write: "checked", or "slipped" past the lock
  helper,    \* the helper's process
  stumbles,
  cancelled, unserved, lost \* history: an upgrade was cancelled; a restart or the rename back
                            \* failed; the kinds of changes that automatic restores dropped

upgradeHistory == <<cancelled, unserved, lost>>
hostVars == <<installed, prev, ran>>
upgradeVars == <<pg, dumps, lapsed, request, statusFile, hostVars, panel, writer, helper,
                 stumbles, upgradeHistory>>

NoUpgrade == [to |-> None, phase |-> "ended"]
NoRequest == [id |-> None, version |-> None, rollback |-> FALSE, restore |-> None, queued |-> FALSE]
NoStatus == [id |-> None, version |-> None, from |-> None, phase |-> "none", dump |-> None]
NoHelper == [step |-> "idle", req |-> NoRequest, from |-> None, over |-> FALSE]
NoDump == [schema |-> None, rows |-> [i \in Ids |-> NoUpgrade], listed |-> {}, edits |-> 0,
           slips |-> 0]

Terminal == {"succeeded", "rolled_back", "failed"}
\* Two phases stand for the seven: "preparing" for preflight, verifying, snapshotting and
\* downloading, "swapping" for migrating, restarting and health_gate.
\* "ended" is a row with finished_at set: only a restore takes that back, and the phase such a row
\* shows (a late Sync may still write it) is read by nothing that is modelled.
Phases == {"preparing", "swapping", "ended"}

ReleaseOrNone == Releases \cup {None}
Database == [schema : Nat, rows : [Ids -> [to : ReleaseOrNone, phase : Phases]],
             listed : SUBSET Ids, edits : 0..MaxEdit, slips : 0..MaxEdit]
Request == [id : Ids \cup {None}, version : ReleaseOrNone, rollback : BOOLEAN,
            restore : Ids \cup {None}, queued : BOOLEAN]
Status == [id : Ids \cup {None}, version : ReleaseOrNone, from : ReleaseOrNone,
           phase : {"none", "preparing", "swapping"} \cup Terminal, dump : Ids \cup {None}]

\* The steps of a helper: until the installed binary is moved, with the dump made, while the
\* new binary is installed, once the old one is back; and the steps of a restore.
Unmoved == {"verify", "snapshot", "download", "migrate", "swap1"}
Swapped == {"restart", "gate", "rbRename"}
PuttingBack == {"rbRestart", "rbGate", "rbRestore", "rbRestart2"}
Restoring == {"roRestore", "roRestart"}
Step == Unmoved \cup {"idle", "swap2"} \cup Swapped \cup PuttingBack \cup Restoring

UpgradeTypeOK ==
  /\ pg \in Database /\ pg.schema # 0
  /\ dumps \in [Ids -> Database] /\ \A i \in Ids : dumps[i] = NoDump \/ dumps[i].schema # 0
  /\ lapsed \subseteq Ids /\ request \in Request /\ statusFile \in Status
  /\ installed \in ReleaseOrNone /\ prev \in ReleaseOrNone /\ ran \subseteq Releases
  /\ panel \in [version : Releases, up : BOOLEAN, fell : BOOLEAN]
  /\ writer \in {"none", "checked", "slipped"}
  /\ helper \in [step : Step, req : Request, from : ReleaseOrNone, over : BOOLEAN]
  /\ stumbles \in 0..MaxStumble
  /\ cancelled \in BOOLEAN /\ unserved \in BOOLEAN /\ lost \subseteq {"checked", "slipped"}

UpgradeInit ==
  /\ pg = [NoDump EXCEPT !.schema = 1] /\ dumps = [i \in Ids |-> NoDump] /\ lapsed = {}
  /\ request = NoRequest /\ statusFile = NoStatus /\ installed = 1 /\ prev = None /\ ran = {}
  /\ panel = [version |-> 1, up |-> TRUE, fell |-> FALSE] /\ writer = "none"
  /\ helper = NoHelper /\ stumbles = 0
  /\ cancelled = FALSE /\ unserved = FALSE /\ lost = {}

Stumble == stumbles < MaxStumble /\ stumbles' = stumbles + 1
Fine == UNCHANGED stumbles
Stumbling(bad) == IF bad THEN Stumble ELSE Fine

\* Can release v run on schema s?
RunsOn(v, s) == v \notin Broken /\ \A w \in Breaking : ~(v < w /\ w <= s)
Later(a, b) == IF a < b THEN b ELSE a

-----------------------------------------------------------------------------
(* The rows, and the lock they are.                                        *)

Unfinished(rows) == {i \in Ids : rows[i].phase # "ended"}
Used == {i \in Ids : pg.rows[i] # NoUpgrade} \cup {i \in Ids : dumps[i] # NoDump} \cup lapsed
        \cup {request.id, statusFile.id, helper.req.id}
NextId == 1 + (CHOOSE m \in 0..MaxRow : m \in Used \cup {0} /\ \A i \in Used : i <= m)

SetPanelUpgradePhase(rows, i, phase) ==
  IF i \notin Ids \/ rows[i] = NoUpgrade THEN rows
  ELSE [rows EXCEPT ![i].phase = IF @ = "ended" \/ phase \in Terminal THEN "ended" ELSE phase]

ExpireStale_Any(rows) ==
  [i \in Ids |-> [rows[i] EXCEPT !.phase = "ended"]]

\* ExpireStalePanelUpgrades: any request that finds an expired lock clears it.
ExpireStale(rows) ==
  [i \in Ids |-> IF i \in lapsed THEN [rows[i] EXCEPT !.phase = "ended"] ELSE rows[i]]

\* The thirty minutes of a row are over.  The helper gives up after twenty-five, so its own
\* row lapses under it only when its request had to wait for another helper.  A row that
\* only a dump holds lapses, if it does, once it is restored: nothing reads it before.
Lapse(i) ==
  /\ i \notin lapsed /\ (request.id = i \/ i \in Unfinished(pg.rows))
  /\ helper.req.id = i => helper.req.queued
  /\ lapsed' = lapsed \cup {i}
  /\ UNCHANGED <<pg, dumps, request, statusFile, hostVars, panel, writer, helper, stumbles, upgradeHistory>>

Room == pg.edits + pg.slips < MaxEdit

\* A changing request of a signed-in user: refused with 503 while the lock is held, with an
\* expired lock cleared on the way (Locked).  The check is all: the write comes later.
UserRequest ==
  /\ panel.up /\ writer = "none" /\ Room /\ Unfinished(ExpireStale(pg.rows)) = {}
  /\ pg' = [pg EXCEPT !.rows = ExpireStale(pg.rows)] /\ writer' = "checked"
  /\ UNCHANGED <<dumps, lapsed, request, statusFile, hostVars, panel, helper, stumbles, upgradeHistory>>

\* A changing request that the lock does not hold up: its route is outside authed (setup and
\* login, a webhook of a forge, the acceptance of an invitation), or the read of the lock
\* failed, which lets it through.
UncheckedRequest ==
  /\ panel.up /\ writer = "none" /\ Room /\ writer' = "slipped"
  /\ UNCHANGED <<pg, dumps, lapsed, request, statusFile, hostVars, panel, helper, stumbles, upgradeHistory>>

\* The handler writes.  One request at a time is enough: two share nothing but the counts.
UserWrites ==
  /\ writer # "none" /\ writer' = "none" /\ Room
  /\ pg' = IF writer = "checked" THEN [pg EXCEPT !.edits = @ + 1] ELSE [pg EXCEPT !.slips = @ + 1]
  /\ UNCHANGED <<dumps, lapsed, request, statusFile, hostVars, panel, helper, stumbles, upgradeHistory>>

-----------------------------------------------------------------------------
(* The plane.                                                              *)

\* CreatePanelUpgrade and WriteRequest; the partial unique index refuses a second
\* unfinished row.  A request that cannot be written ends the row at once.  A user's request
\* that was checked before is older than this lock: it has slipped past it.
AskHelper(bad, rows, version, rollback, restore) ==
  /\ panel.up /\ Unfinished(rows) = {} /\ NextId \in Ids
  /\ pg' = [pg EXCEPT !.rows = [rows EXCEPT ![NextId] =
                [to |-> version, phase |-> IF bad THEN "ended" ELSE "preparing"]]]
  /\ request' = IF bad THEN request
                ELSE [id |-> NextId, version |-> version, rollback |-> rollback,
                      restore |-> restore, queued |-> helper.step # "idle"]
  /\ Stumbling(bad) /\ writer' = IF writer = "checked" THEN "slipped" ELSE writer
  /\ UNCHANGED <<dumps, lapsed, statusFile, hostVars, panel, helper, upgradeHistory>>

StartUpgrade(bad, version, rollback) ==
  /\ version # panel.version /\ (rollback => version < panel.version)
  /\ AskHelper(bad, ExpireStale(pg.rows), version, rollback, None)

\* Restore clears no expired lock.
RestoreSnapshot(bad, i) == i \in pg.listed /\ AskHelper(bad, pg.rows, panel.version, TRUE, i)

\* handleCancelUpgrade: by the phase that was mirrored last.  The request file stays, and
\* so does a helper that has it.
Cancel ==
  \E i \in Unfinished(pg.rows) :
    /\ panel.up /\ pg.rows[i].phase # "swapping"
    /\ pg' = [pg EXCEPT !.rows = SetPanelUpgradePhase(@, i, "failed")]
    /\ cancelled' = TRUE
    /\ UNCHANGED <<dumps, lapsed, request, statusFile, hostVars, panel, writer, helper, stumbles, unserved, lost>>

\* Sync: the phase, and a row for the dump unless there is one.
Mirrored(db, st) ==
  [db EXCEPT !.rows = SetPanelUpgradePhase(@, st.id, st.phase),
             !.listed = IF st.dump = None THEN @ ELSE @ \cup {st.dump}]

Sync ==
  /\ panel.up /\ statusFile # NoStatus
  /\ pg' = Mirrored(pg, statusFile)
  /\ UNCHANGED <<dumps, lapsed, request, statusFile, hostVars, panel, writer, helper, stumbles, upgradeHistory>>

\* DeleteSnapshot and sweep: the file first, the row second.
DeleteSnapshot(bad, i) ==
  /\ panel.up /\ i \in pg.listed
  /\ dumps' = [dumps EXCEPT ![i] = NoDump]
  /\ Stumbling(bad)
  /\ pg' = IF bad THEN pg ELSE [pg EXCEPT !.listed = @ \ {i}]
  /\ UNCHANGED <<lapsed, request, statusFile, hostVars, panel, writer, helper, upgradeHistory>>

\* RecordExternalUpgrade: the newest row names another version than the one that runs.
RecordExternalUpgrade(db, v) ==
  LET rows == {i \in Ids : db.rows[i] # NoUpgrade}
      last == IF rows = {} THEN None
              ELSE db.rows[CHOOSE i \in rows : \A j \in rows : j <= i].to
  IN IF last = v \/ Unfinished(db.rows) # {} \/ NextId \notin Ids THEN db
     ELSE [db EXCEPT !.rows[NextId] = [to |-> v, phase |-> "ended"]]

\* The panel boots: it migrates, mirrors the status file and records a version it does not know.
PanelBoots ==
  /\ ~panel.up /\ RunsOn(panel.version, pg.schema)
  /\ panel' = [panel EXCEPT !.up = TRUE]
  /\ pg' = RecordExternalUpgrade(Mirrored([pg EXCEPT !.schema = Later(@, panel.version)], statusFile),
                                 panel.version)
  /\ UNCHANGED <<dumps, lapsed, request, statusFile, hostVars, writer, helper, stumbles, upgradeHistory>>

\* systemd starts what is installed.
Booting == [version |-> installed, up |-> FALSE, fell |-> FALSE]

\* A flaky release falls over, or the host restarts the panel.
PanelFalls ==
  /\ panel.up /\ installed # None
  /\ IF panel.version \in Flaky THEN Fine ELSE Stumble
  /\ panel' = [Booting EXCEPT !.fell = helper.step \in {"gate", "rbGate"}] /\ writer' = "none"
  /\ UNCHANGED <<pg, dumps, lapsed, request, statusFile, hostVars, helper, upgradeHistory>>

-----------------------------------------------------------------------------
(* The helper.  Its commands are bound to a context of twenty-five minutes *)
(* (over: it has ended), its renames are not.  Its status files are taken  *)
(* to be written.                                                          *)

At(step) == helper.step = step
Goes(step) == helper' = [helper EXCEPT !.step = step]
Said(phase) == [id |-> helper.req.id, version |-> helper.req.version, from |-> helper.from,
                phase |-> phase, dump |-> None]
TellStatus(phase) == statusFile' = Said(phase)

\* A command of the helper.
Command(bad) == (helper.over => bad) /\ Stumbling(bad /\ ~helper.over)

HelperFails == helper' = NoHelper /\ TellStatus("failed")

\* PruneSnapshots, after a Run that returned no error: the dumps past their retention.
Finishes(st) ==
  /\ helper' = NoHelper /\ statusFile' = st
  /\ \E k \in 0..helper.req.id - 1 : dumps' = [i \in Ids |-> IF i <= k THEN NoDump ELSE dumps[i]]

\* Run: consume the request first, refuse one that expired, remember what runs here.
Consume ==
  /\ At("idle") /\ request # NoRequest /\ installed # None
  /\ request' = NoRequest
  /\ IF request.id \in lapsed
     THEN /\ statusFile' = [NoStatus EXCEPT !.id = request.id, !.version = request.version,
                                        !.from = installed, !.phase = "failed"]
          /\ UNCHANGED <<ran, helper>>
     ELSE /\ ran' = ran \cup {installed}
          /\ helper' = [step |-> IF request.restore = None THEN "verify" ELSE "roRestore",
                        req |-> request, from |-> installed, over |-> FALSE]
          /\ statusFile' = [NoStatus EXCEPT !.id = request.id, !.version = request.version, !.from = installed,
                                        !.phase = "preparing"]
  /\ UNCHANGED <<pg, dumps, lapsed, installed, prev, panel, writer, stumbles, upgradeHistory>>

\* VerifyRelease, and the bound on a downgrade.
Verify(bad) ==
  /\ At("verify") /\ Command(bad)
  /\ IF bad \/ (helper.req.version < helper.from
                  /\ ~(helper.req.rollback /\ helper.req.version \in ran))
     THEN HelperFails
     ELSE Goes("snapshot") /\ TellStatus("preparing")
  /\ UNCHANGED <<pg, dumps, lapsed, request, hostVars, panel, writer, upgradeHistory>>

Snapshot(bad) ==
  /\ At("snapshot") /\ Command(bad)
  /\ IF bad THEN HelperFails /\ UNCHANGED dumps
     ELSE Goes("download") /\ TellStatus("preparing") /\ dumps' = [dumps EXCEPT ![helper.req.id] = pg]
  /\ UNCHANGED <<pg, lapsed, request, hostVars, panel, writer, upgradeHistory>>

\* download, and the staged binary asked for its version.
Download(bad) ==
  /\ At("download") /\ Command(bad)
  /\ IF bad THEN HelperFails ELSE Goes("migrate") /\ TellStatus("swapping")
  /\ UNCHANGED <<pg, dumps, lapsed, request, hostVars, panel, writer, upgradeHistory>>

\* The new binary's migrations: they may stop at any one, and are not taken back.
Migrate(bad) ==
  /\ At("migrate") /\ Command(bad)
  /\ LET top == Later(pg.schema, helper.req.version) IN
     \E s \in pg.schema..top : (bad \/ s = top) /\ pg' = [pg EXCEPT !.schema = s]
  /\ IF bad THEN HelperFails ELSE Goes("swap1") /\ TellStatus("swapping")
  /\ UNCHANGED <<dumps, lapsed, request, hostVars, panel, writer, upgradeHistory>>

\* swap: the installed binary aside, the staged one in its place; back if that fails.
SwapAside(bad) ==
  /\ At("swap1") /\ Stumbling(bad)
  /\ IF bad THEN HelperFails /\ UNCHANGED <<installed, prev>>
     ELSE Goes("swap2") /\ prev' = installed /\ installed' = None /\ UNCHANGED statusFile
  /\ UNCHANGED <<pg, dumps, lapsed, request, ran, panel, writer, upgradeHistory>>

SwapIn(bad) ==
  /\ At("swap2") /\ Stumbling(bad)
  /\ IF bad
     THEN /\ HelperFails
          /\ \/ installed' = prev /\ prev' = None /\ UNCHANGED unserved
             \/ unserved' = TRUE /\ UNCHANGED <<installed, prev>>
     ELSE Goes("restart") /\ installed' = helper.req.version /\ UNCHANGED <<prev, statusFile, unserved>>
  /\ UNCHANGED <<pg, dumps, lapsed, request, ran, panel, writer, cancelled, lost>>

\* systemctl restart: a failure is logged and nothing more.
Restarted(bad) ==
  /\ Command(bad)
  /\ panel' = IF bad THEN [panel EXCEPT !.fell = FALSE] ELSE Booting
  /\ writer' = IF bad THEN writer ELSE "none"
  /\ unserved' = (unserved \/ bad)

\* gate: /readyz answers 200 and the unit did not restart since the gate began.
GatePasses == ~helper.over /\ panel.up /\ ~panel.fell
GateFails == helper.over \/ ~panel.up \/ panel.fell

Restart(bad) ==
  /\ \/ At("restart") /\ Goes("gate") /\ TellStatus("swapping")
     \/ At("rbRestart") /\ Goes("rbGate") /\ UNCHANGED statusFile
  /\ Restarted(bad)
  /\ UNCHANGED <<pg, dumps, lapsed, request, hostVars, cancelled, lost>>

GateEnds ==
  /\ At("gate")
  /\ \/ /\ GatePasses /\ ran' = ran \cup {helper.req.version}
        /\ Finishes([Said("succeeded") EXCEPT !.dump = helper.req.id])
     \/ GateFails /\ Goes("rbRename") /\ TellStatus("swapping") /\ UNCHANGED <<dumps, ran>>
  /\ UNCHANGED <<pg, lapsed, request, installed, prev, panel, writer, stumbles, upgradeHistory>>

RolledBack == [Said("rolled_back") EXCEPT !.version = helper.from, !.dump = helper.req.id]

PutBack_Forgotten(bad) ==
  /\ At("rbRename") /\ Stumbling(bad) /\ Goes("rbRestart")
  /\ UNCHANGED <<pg, dumps, lapsed, request, statusFile, hostVars, panel, writer, upgradeHistory>>

\* rollback, first: the previous binary.  A rename that fails is logged.
PutBack(bad) ==
  /\ At("rbRename") /\ Stumbling(bad) /\ Goes("rbRestart")
  /\ IF bad THEN unserved' = TRUE /\ UNCHANGED <<installed, prev>>
     ELSE installed' = prev /\ prev' = None /\ UNCHANGED unserved
  /\ UNCHANGED <<pg, dumps, lapsed, request, statusFile, ran, panel, writer, cancelled, lost>>

RollbackGateEnds ==
  /\ At("rbGate")
  /\ \/ GatePasses /\ Finishes(RolledBack)
     \/ GateFails /\ Goes("rbRestore") /\ UNCHANGED <<statusFile, dumps>>
  /\ UNCHANGED <<pg, lapsed, request, hostVars, panel, writer, stumbles, upgradeHistory>>

\* The kinds of changes that are in the database and not in the dump.
Dropped(dump) == {kind \in {"checked", "slipped"} :
                    \/ kind = "checked" /\ pg.edits > dump.edits
                    \/ kind = "slipped" /\ pg.slips > dump.slips}

\* rollback, second and only when the previous binary did not come up: the database of
\* the snapshot, its rows with it.
RestoreDump(bad) ==
  /\ At("rbRestore")
  /\ Command(bad) /\ (dumps[helper.req.id] = NoDump => bad)
  /\ IF bad
     THEN helper' = NoHelper /\ statusFile' = [RolledBack EXCEPT !.phase = "failed"] /\ UNCHANGED <<pg, lost>>
     ELSE /\ Goes("rbRestart2") /\ pg' = dumps[helper.req.id] /\ UNCHANGED statusFile
          /\ lost' = IF cancelled \/ helper.req.queued THEN lost
                     ELSE lost \cup Dropped(dumps[helper.req.id])
  /\ UNCHANGED <<dumps, lapsed, request, hostVars, panel, writer, cancelled, unserved>>

\* restoreOnly: the snapshot an owner asked for.
RestoreOnly(bad) ==
  /\ At("roRestore") /\ (dumps[helper.req.restore] = NoDump => bad)
  /\ (helper.over => bad)
  /\ Stumbling(bad /\ ~helper.over /\ dumps[helper.req.restore] # NoDump)
  /\ IF bad THEN HelperFails /\ UNCHANGED pg
     ELSE Goes("roRestart") /\ pg' = dumps[helper.req.restore] /\ UNCHANGED statusFile
  /\ UNCHANGED <<dumps, lapsed, request, hostVars, panel, writer, upgradeHistory>>

RestartRestored(bad) ==
  /\ Restarted(bad)
  /\ \/ At("rbRestart2") /\ Finishes(RolledBack)
     \/ At("roRestart") /\ Finishes([Said("succeeded") EXCEPT !.version = None])
  /\ UNCHANGED <<pg, lapsed, request, hostVars, cancelled, lost>>

\* The twenty-five minutes are over; the helper is killed, or the host goes down.
HelperTimesOut ==
  /\ ~At("idle") /\ ~helper.over /\ Stumble
  /\ helper' = [helper EXCEPT !.over = TRUE]
  /\ UNCHANGED <<pg, dumps, lapsed, request, statusFile, hostVars, panel, writer, upgradeHistory>>

HelperDies ==
  /\ ~At("idle") /\ Stumble /\ helper' = NoHelper
  /\ unserved' = (unserved \/ panel.version # installed)
  /\ UNCHANGED <<pg, dumps, lapsed, request, statusFile, hostVars, panel, writer, cancelled, lost>>

HelperStep(bad) ==
  \/ Verify(bad) \/ Snapshot(bad) \/ Download(bad) \/ Migrate(bad) \/ SwapAside(bad) \/ SwapIn(bad)
  \/ Restart(bad) \/ PutBack(bad) \/ RestoreDump(bad) \/ RestoreOnly(bad) \/ RestartRestored(bad)

UpgradeNext ==
  \/ UserRequest \/ UncheckedRequest \/ UserWrites \/ Cancel \/ Sync \/ PanelBoots \/ PanelFalls
  \/ Consume \/ GateEnds \/ RollbackGateEnds \/ HelperTimesOut \/ HelperDies
  \/ \E i \in Ids : Lapse(i)
  \/ \E bad \in BOOLEAN :
       \/ HelperStep(bad)
       \/ \E v \in Releases, rollback \in BOOLEAN : StartUpgrade(bad, v, rollback)
       \/ \E i \in Ids : RestoreSnapshot(bad, i) \/ DeleteSnapshot(bad, i)

UpgradeSpec == UpgradeInit /\ [][UpgradeNext]_upgradeVars

-----------------------------------------------------------------------------
(* Properties.                                                             *)

\* The restore a failed upgrade falls back to drops no change that the read-only lock's check
\* let through: the snapshot is taken under the lock, and the lock outlives the helper, through
\* time-outs, failing calls, restarts of the panel and the deaths of helpers.  What it can
\* drop, with "slipped" \in lost, is a change the lock never held up: one of an unchecked
\* route, one whose check could not read the lock, one checked before the lock was taken.
\* (An upgrade that was cancelled has given its lock up; one whose request had to wait for
\* another helper may outlive its lock, which counts from the request.)
NothingLostByRollback == "checked" \notin lost

\* Once the helper is through, the status file tells which release the host is on: the one
\* that was asked for after "succeeded", the one it came from after "rolled_back" and
\* "failed"; and that is what runs, unless a restart or a rename back failed.
PanelTellsTheTruth ==
  At("idle") /\ ~unserved /\ statusFile.phase \in Terminal =>
    /\ panel.version = installed
    /\ statusFile.phase = "succeeded" /\ statusFile.version # None => installed = statusFile.version
    /\ statusFile.phase \in {"rolled_back", "failed"} => installed = statusFile.from

\* An upgrade that was given up has changed nothing: while the helper migrates, swaps, gates
\* or puts back, the row of its upgrade is unfinished and the panel read-only (Cancel:
\* "Cancelled before anything was changed.").
LockedWhileChanged ==
  helper.step \in {"migrate", "swap1", "swap2", "restart", "gate", "rbRename", "rbRestart", "rbGate",
                   "rbRestore", "rbRestart2"} =>
    helper.req.id \in Unfinished(pg.rows)

-----------------------------------------------------------------------------
(* The inductive invariant behind the first two.                           *)

\* A request, and a helper at work, name an upgrade of releases that exist.
RequestsNamed ==
  /\ request # NoRequest => request.id \in Ids /\ request.version \in Releases
  /\ helper.step = "idle" => helper = NoHelper
  /\ helper.step # "idle" => /\ helper.req.id \in Ids /\ helper.req.version \in Releases
                             /\ helper.from \in Releases
  /\ helper.step = "roRestore" => helper.req.restore \in Ids
  /\ statusFile.id \in Ids => statusFile.phase # "none"

\* Where the two binaries are at each step, and what runs.
HostKnown ==
  /\ helper.step # "idle" => statusFile.phase \notin Terminal
  /\ helper.step \in Unmoved \cup Restoring => installed = helper.from
  /\ helper.step = "swap2" => installed = None /\ prev = helper.from
  /\ helper.step \in Swapped => installed = helper.req.version /\ prev = helper.from
  /\ helper.step \in PuttingBack => installed # None
  /\ ~unserved =>
       /\ helper.step \in PuttingBack => installed = helper.from
       /\ helper.step \notin {"swap2", "restart", "rbRestart"} => panel.version = installed
       /\ helper.step = "swap2" => panel.version = helper.from

\* The lock is held from the request to the end of the helper that took it at once.
LockHeld ==
  ~cancelled =>
    /\ request # NoRequest /\ ~request.queued =>
         /\ helper.step = "idle" /\ request.id # statusFile.id
         /\ request.id \in lapsed \cup Unfinished(pg.rows)
    /\ helper.step \notin {"idle", "rbRestart2"} \cup Restoring /\ ~helper.req.queued =>
         helper.req.id \in Unfinished(pg.rows) \ lapsed

\* No request has passed the check since the lock was taken and is still to write.
LockKeepsOut ==
  ~cancelled =>
    /\ request # NoRequest /\ ~request.queued /\ request.id \notin lapsed => writer # "checked"
    /\ helper.step \notin {"idle", "rbRestart2"} \cup Restoring /\ ~helper.req.queued =>
         writer # "checked"

\* Since the dump was made, no request that was checked has written.
NothingSinceDump ==
  ~cancelled /\ ~helper.req.queued
    /\ helper.step \notin {"idle", "verify", "snapshot", "rbRestart2"} \cup Restoring =>
       dumps[helper.req.id] = NoDump \/ pg.edits <= dumps[helper.req.id].edits

UpgradeInv ==
  /\ UpgradeTypeOK /\ RequestsNamed /\ HostKnown /\ LockHeld /\ LockKeepsOut /\ NothingSinceDump
  /\ PanelTellsTheTruth /\ NothingLostByRollback

\* Behind LockedWhileChanged, which holds of an upgrade that was not cancelled and did not
\* wait for another helper: the database a rollback brings back holds the lock as well.
LockSurvivesRestore ==
  ~cancelled /\ ~helper.req.queued =>
    /\ helper.step \notin {"idle", "verify", "snapshot", "rbRestart2"} \cup Restoring =>
         \/ dumps[helper.req.id] = NoDump
         \/ helper.req.id \in Unfinished(dumps[helper.req.id].rows)
    /\ helper.step = "rbRestart2" => helper.req.id \in Unfinished(pg.rows) \ lapsed
=============================================================================

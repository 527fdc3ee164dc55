----------------------------- MODULE PlaneProofs -----------------------------
(***************************************************************************)
(* The panel's own upgrade (PanelUpgrade): proofs that an automatic        *)
(* rollback drops no change which the lock's check let through, and that   *)
(* what the panel says of an upgrade is so, for every set of releases and  *)
(* every bound on what happens to it.                                      *)
(* Backups (Backups): proofs that retention never takes the newest objects *)
(* of a schedule and that closed restores stay closed, for any number of   *)
(* schedules, runs and faults.  LeastOf and GreatestOf, on sets of         *)
(* numbers, are StatusProofs'.                                             *)
(***************************************************************************)
EXTENDS PanelUpgrade, Backups, StatusProofs

-----------------------------------------------------------------------------
(* The panel's upgrade.                                                    *)

\* The steps at which the helper relies on the lock, and those after its dump.
LockedStep == Step \ ({"idle", "rbRestart2"} \cup Restoring)
AfterDump == LockedStep \ {"verify", "snapshot"}
\* Who relies on the lock: a request that no other helper holds up, and a helper at work.
Asked == request # NoRequest /\ ~request.queued /\ request.id \notin lapsed
Working == helper.step \in LockedStep /\ ~helper.req.queued
Helpers == [step : Step, req : Request, from : ReleaseOrNone, over : BOOLEAN]
Rows == [Ids -> [to : ReleaseOrNone, phase : Phases]]

\* Numbers, and the empty values.
LEMMA UpgradeConstants ==
  ASSUME UpgradeAssumption
  PROVE  /\ \A v \in Releases : v \in Nat /\ v # None
         /\ MaxRow \in Nat /\ \A i \in Ids : i \in Nat /\ i # None /\ i <= MaxRow
         /\ NoRequest \in Request /\ NoRequest.id = None
         /\ NoHelper \in Helpers /\ NoHelper.step = "idle" /\ NoHelper.req = NoRequest
         /\ NoDump \in Database /\ NoUpgrade \in [to : ReleaseOrNone, phase : Phases]
<1>1. /\ \A v \in Releases : v \in Nat /\ v # None
      /\ MaxRow \in Nat /\ \A i \in Ids : i \in Nat /\ i # None /\ i <= MaxRow
  BY DEF UpgradeAssumption, None, Ids
<1>2. NoRequest \in Request /\ NoRequest.id = None
  BY DEF NoRequest, Request, ReleaseOrNone
<1>3. NoHelper \in Helpers /\ NoHelper.step = "idle" /\ NoHelper.req = NoRequest
  BY <1>2 DEF NoHelper, Helpers, Step, ReleaseOrNone
<1>4. NoUpgrade \in [to : ReleaseOrNone, phase : Phases]
  BY DEF NoUpgrade, ReleaseOrNone, Phases
<1>5. NoDump \in Database
  <2>1. [i \in Ids |-> NoUpgrade] \in [Ids -> [to : ReleaseOrNone, phase : Phases]]
    BY <1>4
  <2>2. 0 \in 0..MaxEdit /\ None \in Nat /\ {} \in SUBSET Ids
    BY DEF UpgradeAssumption, None
  <2> QED
    BY <2>1, <2>2 DEF NoDump, Database
<1> QED
  BY <1>1, <1>2, <1>3, <1>4, <1>5

\* The parts of the types that the steps read.
LEMMA UpgradeTypes ==
  ASSUME UpgradeTypeOK
  PROVE  /\ pg \in Database /\ pg.rows \in Rows /\ pg.listed \in SUBSET Ids
         /\ pg.edits \in 0..MaxEdit /\ pg.slips \in 0..MaxEdit /\ pg.schema \in Nat /\ pg.schema # 0
         /\ dumps \in [Ids -> Database] /\ lapsed \in SUBSET Ids
         /\ request \in Request /\ request.id \in Ids \cup {None}
         /\ statusFile \in Status /\ statusFile.id \in Ids \cup {None}
         /\ statusFile.dump \in Ids \cup {None}
         /\ panel \in [version : Releases, up : BOOLEAN, fell : BOOLEAN]
         /\ panel.version \in Releases
         /\ helper \in Helpers /\ helper.step \in Step /\ helper.req \in Request
         /\ helper.req.id \in Ids \cup {None} /\ helper.from \in ReleaseOrNone
<1>1. pg \in Database /\ pg.schema # 0 /\ lapsed \in SUBSET Ids /\ dumps \in [Ids -> Database]
  BY DEF UpgradeTypeOK
<1>2. /\ pg.rows \in Rows /\ pg.listed \in SUBSET Ids /\ pg.edits \in 0..MaxEdit
      /\ pg.slips \in 0..MaxEdit /\ pg.schema \in Nat
  BY <1>1 DEF Database, Rows
<1>3. request \in Request /\ statusFile \in Status
  BY DEF UpgradeTypeOK
<1>4. /\ request.id \in Ids \cup {None} /\ statusFile.id \in Ids \cup {None}
      /\ statusFile.dump \in Ids \cup {None}
  BY <1>3 DEF Request, Status
<1>5. panel \in [version : Releases, up : BOOLEAN, fell : BOOLEAN] /\ helper \in Helpers
  BY DEF UpgradeTypeOK, Helpers
<1>6. /\ panel.version \in Releases /\ helper.step \in Step /\ helper.req \in Request
      /\ helper.from \in ReleaseOrNone
  BY <1>5 DEF Helpers
<1>7. helper.req.id \in Ids \cup {None}
  BY <1>6 DEF Request
<1> QED
  BY <1>1, <1>2, <1>3, <1>4, <1>5, <1>6, <1>7

\* A new row's number is above every number in use.
LEMMA NextIdFresh ==
  ASSUME UpgradeAssumption, UpgradeTypeOK
  PROVE  NextId # statusFile.id
<1>1. PICK S : S = Used \cup {0}
  OBVIOUS
<1>2. S \in SUBSET Nat /\ S \in SUBSET (0..MaxRow) /\ S # {} /\ MaxRow \in Nat /\ \A i \in S : i <= MaxRow
  <2>1. Ids \subseteq 0..MaxRow /\ None \in 0..MaxRow /\ MaxRow \in Nat
    BY DEF Ids, None, UpgradeAssumption
  <2>2. Used \subseteq Ids \cup {None}
    BY UpgradeTypes DEF Used
  <2> QED
    BY <1>1, <2>1, <2>2
<1>3. PICK m \in S : \A i \in S : i <= m
  BY <1>2, GreatestOf
<1>4. PICK c : c = CHOOSE n \in 0..MaxRow : n \in Used \cup {0} /\ \A i \in Used : i <= n
  OBVIOUS
<1>5. c \in 0..MaxRow /\ \A i \in Used : i <= c
  <2>1. \E n \in 0..MaxRow : n \in Used \cup {0} /\ \A i \in Used : i <= n
    BY <1>1, <1>2, <1>3
  <2> QED
    BY <1>4, <2>1
<1>6. statusFile.id \in Used /\ statusFile.id \in Nat
  <2>1. statusFile.id \in Used
    BY DEF Used
  <2> QED
    BY <1>1, <1>2, <2>1
<1> QED
  BY <1>2, <1>4, <1>5, <1>6 DEF NextId

\* What the writes to panel_upgrades do to the lock.
LEMMA PhaseWritten ==
  ASSUME NEW rows \in Rows, NEW i \in Ids \cup {None}, NEW phase \in Terminal \cup {"none", "preparing", "swapping"},
         i \in Ids => phase # "none"
  PROVE  /\ SetPanelUpgradePhase(rows, i, phase) \in Rows
         /\ \A j \in Unfinished(rows) : j # i \/ phase \notin Terminal =>
              j \in Unfinished(SetPanelUpgradePhase(rows, i, phase))
<1>1. CASE i \notin Ids \/ rows[i] = NoUpgrade
  BY <1>1 DEF SetPanelUpgradePhase
<1>2. CASE i \in Ids /\ rows[i] # NoUpgrade
  <2>1. PICK p : p = IF rows[i].phase = "ended" \/ phase \in Terminal THEN "ended" ELSE phase
    OBVIOUS
  <2>2. p \in Phases /\ (rows[i].phase # "ended" /\ phase \notin Terminal => p # "ended")
    BY <1>2, <2>1 DEF Phases, Terminal
  <2>3. SetPanelUpgradePhase(rows, i, phase) = [rows EXCEPT ![i] = [rows[i] EXCEPT !.phase = p]]
    BY <1>2, <2>1 DEF SetPanelUpgradePhase, Rows
  <2>4. rows[i] \in [to : ReleaseOrNone, phase : Phases]
    BY <1>2 DEF Rows
  <2>5. /\ [rows[i] EXCEPT !.phase = p] \in [to : ReleaseOrNone, phase : Phases]
        /\ [rows[i] EXCEPT !.phase = p].phase = p
    BY <2>2, <2>4
  <2>6. PICK new : new = SetPanelUpgradePhase(rows, i, phase)
    OBVIOUS
  <2>7. new \in Rows /\ new[i].phase = p /\ \A j \in Ids : j # i => new[j] = rows[j]
    BY <1>2, <2>3, <2>5, <2>6 DEF Rows
  <2>8. \A j \in Unfinished(rows) : j # i \/ phase \notin Terminal => j \in Unfinished(new)
    BY <2>2, <2>7 DEF Unfinished
  <2> QED
    BY <2>6, <2>7, <2>8
<1> QED
  BY <1>1, <1>2

\* Expiry ends the lapsed rows and no other.
LEMMA Expired ==
  ASSUME NEW rows \in Rows
  PROVE  ExpireStale(rows) \in Rows /\ Unfinished(ExpireStale(rows)) = Unfinished(rows) \ lapsed
<1>1. PICK new : new = ExpireStale(rows)
  OBVIOUS
<1>2. ASSUME NEW i \in Ids
      PROVE  /\ new[i] \in [to : ReleaseOrNone, phase : Phases]
             /\ new[i].phase = IF i \in lapsed THEN "ended" ELSE rows[i].phase
  <2>1. rows[i] \in [to : ReleaseOrNone, phase : Phases]
    BY DEF Rows
  <2>2. new[i] = IF i \in lapsed THEN [rows[i] EXCEPT !.phase = "ended"] ELSE rows[i]
    BY <1>1 DEF ExpireStale
  <2> QED
    BY <2>1, <2>2 DEF Phases
<1>3. new \in Rows
  BY <1>1, <1>2 DEF ExpireStale, Rows
<1>4. Unfinished(new) = Unfinished(rows) \ lapsed
  BY <1>2 DEF Unfinished
<1> QED
  BY <1>1, <1>3, <1>4

\* Mirroring keeps the types; it ends no row that the status file does not end.
LEMMA MirroredRows ==
  ASSUME NEW db \in Database, NEW st \in Status, st.id \in Ids => st.phase # "none"
  PROVE  /\ Mirrored(db, st) \in Database
         /\ Mirrored(db, st).schema = db.schema /\ Mirrored(db, st).edits = db.edits
         /\ \A j \in Unfinished(db.rows) : j # st.id \/ st.phase \notin Terminal =>
              j \in Unfinished(Mirrored(db, st).rows)
<1>1. PICK rows : rows = SetPanelUpgradePhase(db.rows, st.id, st.phase)
  OBVIOUS
<1>2. PICK listed : listed = IF st.dump = None THEN db.listed ELSE db.listed \cup {st.dump}
  OBVIOUS
<1>3. Mirrored(db, st) = [db EXCEPT !.rows = rows, !.listed = listed]
  BY <1>1, <1>2 DEF Mirrored, Database
<1>4. /\ st.id \in Ids \cup {None} /\ st.phase \in Terminal \cup {"none", "preparing", "swapping"}
      /\ st.dump \in Ids \cup {None}
  BY DEF Status
<1>5. db.rows \in Rows /\ db.listed \in SUBSET Ids
  BY DEF Database, Rows
<1>6. /\ rows \in Rows
      /\ \A j \in Unfinished(db.rows) : j # st.id \/ st.phase \notin Terminal => j \in Unfinished(rows)
  BY <1>1, <1>4, <1>5, PhaseWritten
<1>7. listed \in SUBSET Ids
  BY <1>2, <1>4, <1>5
<1>8. PICK new : new = [db EXCEPT !.rows = rows, !.listed = listed]
  OBVIOUS
<1>9. /\ new \in Database /\ new.schema = db.schema /\ new.edits = db.edits /\ new.rows = rows
  BY <1>6, <1>7, <1>8 DEF Database, Rows
<1> QED
  BY <1>3, <1>6, <1>8, <1>9

\* A version the panel does not know becomes a row only when the lock is free.
LEMMA ExternalRecorded ==
  ASSUME UpgradeAssumption, NEW db \in Database, NEW v \in Releases
  PROVE  /\ RecordExternalUpgrade(db, v) \in Database
         /\ RecordExternalUpgrade(db, v).schema = db.schema
         /\ RecordExternalUpgrade(db, v).edits = db.edits
         /\ Unfinished(db.rows) # {} => RecordExternalUpgrade(db, v) = db
<1>1. PICK new : new = RecordExternalUpgrade(db, v)
  OBVIOUS
<1>2. PICK row : row = [to |-> v, phase |-> "ended"]
  OBVIOUS
<1>3. \/ new = db
      \/ Unfinished(db.rows) = {} /\ NextId \in Ids /\ new = [db EXCEPT !.rows[NextId] = row]
  BY <1>1, <1>2 DEF RecordExternalUpgrade
<1>4. CASE new = db
  BY <1>1, <1>4
<1>5. CASE Unfinished(db.rows) = {} /\ NextId \in Ids /\ new = [db EXCEPT !.rows[NextId] = row]
  <2>1. PICK n \in Ids : n = NextId
    BY <1>5
  <2>2. row \in [to : ReleaseOrNone, phase : Phases]
    BY <1>2 DEF ReleaseOrNone, Phases
  <2>3. new = [db EXCEPT !.rows = [db.rows EXCEPT ![n] = row]]
    BY <1>5, <2>1 DEF Database
  <2>4. db.rows \in [Ids -> [to : ReleaseOrNone, phase : Phases]]
    BY DEF Database
  <2>5. [db.rows EXCEPT ![n] = row] \in [Ids -> [to : ReleaseOrNone, phase : Phases]]
    BY <2>2, <2>4
  <2>6. new \in Database /\ new.schema = db.schema /\ new.edits = db.edits
    BY <2>3, <2>5 DEF Database
  <2> QED
    BY <1>1, <1>5, <2>6
<1> QED
  BY <1>3, <1>4, <1>5

\* The host, its status and the helper are as they were: a step of the plane.
LEMMA HostUntouched ==
  ASSUME UpgradeInv, helper' = helper, statusFile' = statusFile, installed' = installed, prev' = prev,
         panel'.version = panel.version, unserved' = unserved, lost' = lost
  PROVE  HostKnown' /\ PanelTellsTheTruth' /\ NothingLostByRollback'
<1>1. NothingLostByRollback'
  BY Zenon DEF UpgradeInv, NothingLostByRollback
<1>2. HostKnown' /\ PanelTellsTheTruth'
  BY DEF UpgradeInv, HostKnown, PanelTellsTheTruth, At
<1> QED
  BY <1>1, <1>2

\* The lock of a pending request, and of a helper at work, through a step of the plane
\* that ends no row they hold.
LEMMA LockUntouched ==
  ASSUME UpgradeInv, helper' = helper, statusFile' = statusFile, request' = request,
         cancelled' = cancelled, lapsed' = lapsed,
         ~cancelled /\ request # NoRequest /\ ~request.queued /\ request.id \in Unfinished(pg.rows) \ lapsed =>
           request.id \in Unfinished(pg'.rows),
         ~cancelled /\ helper.step \in LockedStep /\ ~helper.req.queued =>
           helper.req.id \in Unfinished(pg'.rows)
  PROVE  LockHeld'
<1>1. CASE cancelled
  BY <1>1, Zenon DEF LockHeld
<1>2. CASE ~cancelled
  <2>1. ASSUME request # NoRequest, ~request.queued
        PROVE  /\ helper.step = "idle" /\ request.id # statusFile.id
               /\ request.id \in lapsed \cup Unfinished(pg'.rows)
    <3>1. /\ helper.step = "idle" /\ request.id # statusFile.id
          /\ request.id \in lapsed \cup Unfinished(pg.rows)
      BY <1>2, <2>1, Zenon DEF UpgradeInv, LockHeld
    <3> QED
      BY <1>2, <2>1, <3>1, Zenon
  <2>2. helper.step \notin {"idle", "rbRestart2"} \cup Restoring =>  helper.step \in LockedStep
    BY UpgradeTypes DEF UpgradeInv, LockedStep
  <2>3. ASSUME helper.step \notin {"idle", "rbRestart2"} \cup Restoring, ~helper.req.queued
        PROVE  helper.req.id \in Unfinished(pg'.rows) \ lapsed
    BY <1>2, <2>2, <2>3, Zenon DEF UpgradeInv, LockHeld
  <2>4. /\ request' # NoRequest /\ ~request'.queued =>
             /\ helper'.step = "idle" /\ request'.id # statusFile'.id
             /\ request'.id \in lapsed' \cup Unfinished(pg'.rows)
        /\ helper'.step \notin {"idle", "rbRestart2"} \cup Restoring /\ ~helper'.req.queued =>
             helper'.req.id \in Unfinished(pg'.rows) \ lapsed'
    BY <2>1, <2>3, Zenon
  <2>5. (Unfinished(pg.rows))' = Unfinished(pg'.rows)
    BY DEF Unfinished
  <2> QED
    BY <2>4, <2>5, Zenon DEF LockHeld
<1> QED
  BY <1>1, <1>2, Zenon

\* What the lock says, without the cases.
LEMMA LockSays ==
  ASSUME UpgradeInv, ~cancelled
  PROVE  /\ request # NoRequest /\ ~request.queued =>
              /\ helper.step = "idle" /\ request.id # statusFile.id
              /\ request.id \in lapsed \cup Unfinished(pg.rows)
         /\ helper.step \in LockedStep /\ ~helper.req.queued =>
              helper.req.id \in Unfinished(pg.rows) \ lapsed
<1>1. helper.step \in LockedStep => helper.step \notin {"idle", "rbRestart2"} \cup Restoring
  BY DEF LockedStep
<1> QED
  BY <1>1, Zenon DEF UpgradeInv, LockHeld

\* Nobody has written, through a step that changes no dump and no user's data, or that
\* takes the helper out of the steps after its dump.
LEMMA DumpUntouched ==
  ASSUME UpgradeInv, cancelled' = cancelled, helper'.step \in Step,
         helper'.step \in AfterDump /\ ~cancelled /\ ~helper'.req.queued =>
           /\ helper.step \in AfterDump /\ helper'.req = helper.req
           /\ pg'.edits = pg.edits
           /\ \/ dumps'[helper.req.id] = dumps[helper.req.id]
              \/ dumps'[helper.req.id] = NoDump
  PROVE  NothingSinceDump'
<1>1. \A s \in Step : s \notin {"idle", "verify", "snapshot", "rbRestart2"} \cup Restoring <=> s \in AfterDump
  BY DEF AfterDump, LockedStep
<1>2. helper.step \in AfterDump => helper.step \notin {"idle", "verify", "snapshot", "rbRestart2"} \cup Restoring
  BY DEF AfterDump, LockedStep
<1>3. helper'.step \notin {"idle", "verify", "snapshot", "rbRestart2"} \cup Restoring => helper'.step \in AfterDump
  BY <1>1
<1>4. ASSUME ~cancelled, ~helper'.req.queued, helper'.step \in AfterDump
      PROVE  dumps'[helper'.req.id] = NoDump \/ pg'.edits <= dumps'[helper'.req.id].edits
  <2>0. helper.step \in AfterDump /\ ~helper.req.queued
    BY <1>4, Zenon
  <2>1. dumps[helper.req.id] = NoDump \/ pg.edits <= dumps[helper.req.id].edits
    BY <1>2, <1>4, <2>0, Zenon DEF UpgradeInv, NothingSinceDump
  <2>2. helper'.req = helper.req /\ pg'.edits = pg.edits
    BY <1>4, Zenon
  <2>3. dumps'[helper.req.id] = dumps[helper.req.id] \/ dumps'[helper.req.id] = NoDump
    BY <1>4, Zenon
  <2> QED
    BY <2>1, <2>2, <2>3, Zenon
<1> QED
  BY <1>3, <1>4, Zenon DEF NothingSinceDump

\* What is dropped, if anything, had slipped past the lock; the other two are TRUE or FALSE.
LEMMA UpgradeFlags ==
  ASSUME UpgradeInv
  PROVE  lost \in SUBSET {"slipped"} /\ unserved \in BOOLEAN /\ cancelled \in BOOLEAN
<1>1. unserved \in BOOLEAN /\ cancelled \in BOOLEAN
  BY Zenon DEF UpgradeInv, UpgradeTypeOK
<1>2. lost \in SUBSET {"slipped"}
  BY DEF UpgradeInv, UpgradeTypeOK, NothingLostByRollback
<1> QED
  BY <1>1, <1>2

\* What the check keeps out, without the cases.
LEMMA KeptOut ==
  ASSUME UpgradeInv, ~cancelled, Asked \/ Working
  PROVE  writer # "checked"
<1>1. CASE Asked
  BY <1>1, Zenon DEF UpgradeInv, LockKeepsOut, Asked
<1>2. CASE Working
  <2>1. helper.step \notin {"idle", "rbRestart2"} \cup Restoring
    BY <1>2 DEF Working, LockedStep
  <2> QED
    BY <1>2, <2>1, Zenon DEF UpgradeInv, LockKeepsOut, Working
<1> QED
  BY <1>1, <1>2

\* Nobody relies on the lock who did not before, and the check lets nobody through.
LEMMA NobodyComesIn ==
  ASSUME UpgradeInv, cancelled' = cancelled, helper'.step \in Step,
         ~cancelled /\ writer' = "checked" /\ (Asked' \/ Working') =>
           writer = "checked" /\ (Asked \/ Working)
  PROVE  LockKeepsOut'
<1>1. ~cancelled /\ (Asked' \/ Working') => writer' # "checked"
  BY KeptOut, Zenon
<1>2. helper'.step \notin {"idle", "rbRestart2"} \cup Restoring => helper'.step \in LockedStep
  BY DEF LockedStep
<1>3. LockedStep' = LockedStep /\ NoRequest' = NoRequest
  BY DEF LockedStep, NoRequest, Step, Restoring, Unmoved, Swapped, PuttingBack, None
<1> QED
  BY <1>1, <1>2, <1>3, Zenon DEF LockKeepsOut, Asked, Working

\* A step of the plane that leaves the request and the helper alone.
LEMMA LockStillKeepsOut ==
  ASSUME UpgradeInv, cancelled' = cancelled, helper' = helper, request' = request,
         lapsed \subseteq lapsed', writer' = writer \/ writer' # "checked"
  PROVE  LockKeepsOut'
<1>1. helper'.step \in Step
  BY UpgradeTypes DEF UpgradeInv
<1>2. Asked' => Asked
  BY DEF Asked
<1>3. Working' => Working
  BY DEF Working
<1> QED
  BY <1>1, <1>2, <1>3, NobodyComesIn, Zenon

\* A plane step that leaves the request, the helper and the host alone, and writes pg.
LEMMA PlaneWrites ==
  ASSUME UpgradeAssumption, UpgradeInv,
         pg' \in Database, pg'.schema # 0, dumps' = dumps, lapsed' = lapsed, request' = request,
         statusFile' = statusFile, UNCHANGED hostVars, UNCHANGED <<helper, stumbles>>,
         panel' \in [version : Releases, up : BOOLEAN, fell : BOOLEAN], panel'.version = panel.version,
         writer' \in {"none", "checked", "slipped"},
         cancelled' \in BOOLEAN, unserved' = unserved, lost' = lost,
         LockHeld', LockKeepsOut', NothingSinceDump'
  PROVE  UpgradeInv'
<1>1. installed' = installed /\ prev' = prev /\ ran' = ran /\ helper' = helper /\ stumbles' = stumbles
  BY DEF hostVars
<1>2. UpgradeTypeOK'
  BY <1>1 DEF UpgradeInv, UpgradeTypeOK
<1>3. RequestsNamed'
  BY <1>1 DEF UpgradeInv, RequestsNamed
<1>4. HostKnown' /\ PanelTellsTheTruth' /\ NothingLostByRollback'
  BY <1>1, HostUntouched
<1> QED
  BY <1>2, <1>3, <1>4, Zenon DEF UpgradeInv

\* A user's request: the lock is free.
LEMMA UserRequestKeeps ==
  ASSUME UpgradeAssumption, UpgradeInv, UserRequest
  PROVE  UpgradeInv'
<1>1. /\ Unfinished(ExpireStale(pg.rows)) = {} /\ writer' = "checked"
      /\ pg' = [pg EXCEPT !.rows = ExpireStale(pg.rows)]
      /\ dumps' = dumps /\ lapsed' = lapsed /\ request' = request /\ statusFile' = statusFile
      /\ UNCHANGED hostVars /\ panel' = panel /\ helper' = helper /\ stumbles' = stumbles
      /\ cancelled' = cancelled /\ unserved' = unserved /\ lost' = lost
  BY DEF UserRequest, upgradeHistory
<1>2. UpgradeTypeOK
  BY DEF UpgradeInv
<1>3. /\ pg \in Database /\ pg.rows \in Rows /\ pg.schema # 0
      /\ panel \in [version : Releases, up : BOOLEAN, fell : BOOLEAN] /\ helper.step \in Step
  BY <1>2, UpgradeTypes
<1>4. PICK rows \in Rows : rows = ExpireStale(pg.rows)
  BY <1>3, Expired
<1>5. pg' \in Database /\ pg'.schema # 0 /\ pg'.rows = rows /\ pg'.edits = pg.edits
  <2>1. pg' = [pg EXCEPT !.rows = rows]
    BY <1>1, <1>4
  <2> QED
    BY <1>3, <2>1 DEF Database, Rows
<1>6. Unfinished(pg.rows) \ lapsed = {}
  BY <1>1, <1>3, Expired
<1>7. ~cancelled => ~Asked /\ ~Working
  <2>1. ~cancelled /\ Asked => request.id \in Unfinished(pg.rows) \ lapsed
    BY LockSays DEF Asked
  <2>2. ~cancelled /\ Working => helper.req.id \in Unfinished(pg.rows) \ lapsed
    BY LockSays, Zenon DEF Working
  <2> QED
    BY <1>6, <2>1, <2>2, Zenon
<1>8. LockHeld'
  <2>1. ~cancelled /\ helper.step \in LockedStep => helper.req.queued
    BY <1>7, Zenon DEF Working
  <2> QED
    BY <1>1, <1>6, <2>1, LockUntouched
<1>9. LockKeepsOut'
  <2>1. (Asked' => Asked) /\ (Working' => Working)
    BY <1>1, Zenon DEF Asked, Working
  <2> QED
    BY <1>1, <1>3, <1>7, <2>1, NobodyComesIn, Zenon
<1>10. NothingSinceDump'
  BY <1>1, <1>3, <1>5, DumpUntouched
<1>11. cancelled' \in BOOLEAN /\ writer' \in {"none", "checked", "slipped"}
  BY <1>1, <1>2 DEF UpgradeTypeOK
<1> QED
  BY <1>1, <1>3, <1>5, <1>8, <1>9, <1>10, <1>11, PlaneWrites

\* A request that the lock does not hold up.
LEMMA UncheckedRequestKeeps ==
  ASSUME UpgradeAssumption, UpgradeInv, UncheckedRequest
  PROVE  UpgradeInv'
<1>1. /\ writer' = "slipped"
      /\ pg' = pg /\ dumps' = dumps /\ lapsed' = lapsed /\ request' = request /\ statusFile' = statusFile
      /\ UNCHANGED hostVars /\ panel' = panel /\ helper' = helper /\ stumbles' = stumbles
      /\ cancelled' = cancelled /\ unserved' = unserved /\ lost' = lost
  BY DEF UncheckedRequest, upgradeHistory
<1>2. UpgradeTypeOK /\ cancelled \in BOOLEAN
  BY UpgradeFlags DEF UpgradeInv
<1>3. /\ pg \in Database /\ pg.schema # 0 /\ helper.step \in Step
      /\ panel \in [version : Releases, up : BOOLEAN, fell : BOOLEAN]
  BY <1>2, UpgradeTypes
<1>4. LockHeld'
  BY <1>1, LockSays, LockUntouched
<1>5. LockKeepsOut'
  BY <1>1, LockStillKeepsOut
<1>6. NothingSinceDump'
  BY <1>1, <1>3, DumpUntouched
<1> QED
  BY <1>1, <1>2, <1>3, <1>4, <1>5, <1>6, PlaneWrites

\* A handler writes: one whose request was checked, only while nobody relies on the lock.
LEMMA UserWritesKeeps ==
  ASSUME UpgradeAssumption, UpgradeInv, UserWrites
  PROVE  UpgradeInv'
<1>1. /\ writer' = "none" /\ pg.edits + pg.slips < MaxEdit
      /\ dumps' = dumps /\ lapsed' = lapsed /\ request' = request /\ statusFile' = statusFile
      /\ UNCHANGED hostVars /\ panel' = panel /\ helper' = helper /\ stumbles' = stumbles
      /\ cancelled' = cancelled /\ unserved' = unserved /\ lost' = lost
  BY DEF UserWrites, Room, upgradeHistory
<1>2. UpgradeTypeOK /\ cancelled \in BOOLEAN
  BY UpgradeFlags DEF UpgradeInv
<1>3. /\ pg \in Database /\ pg.schema # 0 /\ helper.step \in Step
      /\ pg.edits \in 0..MaxEdit /\ pg.slips \in 0..MaxEdit /\ MaxEdit \in Nat
      /\ panel \in [version : Releases, up : BOOLEAN, fell : BOOLEAN]
  BY <1>2, UpgradeTypes DEF UpgradeAssumption
<1>4. /\ pg' \in Database /\ pg'.schema # 0 /\ pg'.rows = pg.rows
      /\ writer # "checked" => pg'.edits = pg.edits
  <2>1. pg.edits + 1 \in 0..MaxEdit /\ pg.slips + 1 \in 0..MaxEdit
    BY <1>1, <1>3
  <2>2. \/ writer = "checked" /\ pg' = [pg EXCEPT !.edits = pg.edits + 1]
        \/ writer # "checked" /\ pg' = [pg EXCEPT !.slips = pg.slips + 1]
    BY DEF UserWrites
  <2> QED
    BY <1>3, <2>1, <2>2 DEF Database
<1>5. LockHeld'
  BY <1>1, <1>4, LockSays, LockUntouched
<1>6. LockKeepsOut'
  BY <1>1, LockStillKeepsOut
<1>7. NothingSinceDump'
  <2>1. helper'.step \in AfterDump /\ ~cancelled /\ ~helper'.req.queued => ~cancelled /\ Working
    BY <1>1, Zenon DEF AfterDump, Working
  <2>2. ~cancelled /\ Working => pg'.edits = pg.edits
    BY <1>4, KeptOut, Zenon
  <2> QED
    BY <1>1, <1>3, <2>1, <2>2, DumpUntouched
<1> QED
  BY <1>1, <1>2, <1>3, <1>4, <1>5, <1>6, <1>7, PlaneWrites

\* Sync mirrors a status that ends no upgrade at work, and none that is asked for.
LEMMA SyncKeeps ==
  ASSUME UpgradeAssumption, UpgradeInv, Sync
  PROVE  UpgradeInv'
<1>1. /\ pg' = Mirrored(pg, statusFile)
      /\ dumps' = dumps /\ lapsed' = lapsed /\ request' = request /\ statusFile' = statusFile
      /\ UNCHANGED hostVars /\ panel' = panel /\ writer' = writer /\ helper' = helper /\ stumbles' = stumbles
      /\ cancelled' = cancelled /\ unserved' = unserved /\ lost' = lost
  BY DEF Sync, upgradeHistory
<1>2. UpgradeTypeOK
  BY DEF UpgradeInv
<1>3. /\ pg \in Database /\ pg.schema # 0 /\ statusFile \in Status
      /\ panel \in [version : Releases, up : BOOLEAN, fell : BOOLEAN] /\ helper.step \in Step
  BY <1>2, UpgradeTypes
<1>4. statusFile.id \in Ids => statusFile.phase # "none"
  BY DEF UpgradeInv, RequestsNamed
<1>5. /\ pg' \in Database /\ pg'.schema # 0 /\ pg'.edits = pg.edits
      /\ \A j \in Unfinished(pg.rows) : j # statusFile.id \/ statusFile.phase \notin Terminal =>
           j \in Unfinished(pg'.rows)
  BY <1>1, <1>3, <1>4, MirroredRows
<1>6. helper.step \in LockedStep => statusFile.phase \notin Terminal
  BY DEF UpgradeInv, HostKnown, LockedStep
<1>7. LockHeld'
  <2>1. ~cancelled /\ request # NoRequest /\ ~request.queued /\ request.id \in Unfinished(pg.rows) \ lapsed =>
          request.id \in Unfinished(pg'.rows)
    BY <1>5, LockSays, Zenon
  <2>2. ~cancelled /\ helper.step \in LockedStep /\ ~helper.req.queued =>
          helper.req.id \in Unfinished(pg'.rows)
    BY <1>5, <1>6, LockSays, Zenon
  <2> QED
    BY <1>1, <2>1, <2>2, LockUntouched
<1>8. NothingSinceDump'
  BY <1>1, <1>3, <1>5, DumpUntouched
<1>9. LockKeepsOut'
  BY <1>1, LockStillKeepsOut
<1>10. cancelled' \in BOOLEAN /\ writer' \in {"none", "checked", "slipped"}
  BY <1>1, <1>2 DEF UpgradeTypeOK
<1> QED
  BY <1>1, <1>3, <1>5, <1>7, <1>8, <1>9, <1>10, PlaneWrites

\* The panel boots.
LEMMA PanelBootsKeeps ==
  ASSUME UpgradeAssumption, UpgradeInv, PanelBoots
  PROVE  UpgradeInv'
<1>1. PICK migrated : migrated = [pg EXCEPT !.schema = Later(@, panel.version)]
  OBVIOUS
<1>2. /\ panel' = [panel EXCEPT !.up = TRUE]
      /\ pg' = RecordExternalUpgrade(Mirrored(migrated, statusFile), panel.version)
      /\ dumps' = dumps /\ lapsed' = lapsed /\ request' = request /\ statusFile' = statusFile
      /\ UNCHANGED hostVars /\ writer' = writer /\ helper' = helper /\ stumbles' = stumbles
      /\ cancelled' = cancelled /\ unserved' = unserved /\ lost' = lost
  BY <1>1 DEF PanelBoots, upgradeHistory
<1>3. UpgradeTypeOK
  BY DEF UpgradeInv
<1>4. /\ pg \in Database /\ pg.schema \in Nat /\ pg.schema # 0 /\ statusFile \in Status
      /\ panel \in [version : Releases, up : BOOLEAN, fell : BOOLEAN] /\ panel.version \in Releases
      /\ helper.step \in Step
  BY <1>3, UpgradeTypes
<1>5. panel' \in [version : Releases, up : BOOLEAN, fell : BOOLEAN] /\ panel'.version = panel.version
  BY <1>2, <1>4
<1>6. statusFile.id \in Ids => statusFile.phase # "none"
  BY DEF UpgradeInv, RequestsNamed
<1>7. /\ migrated \in Database /\ migrated.schema # 0 /\ migrated.edits = pg.edits
      /\ migrated.rows = pg.rows
  <2>1. panel.version \in Nat /\ panel.version # 0
    BY <1>4, UpgradeConstants DEF None
  <2>2. PICK s : s = Later(pg.schema, panel.version)
    OBVIOUS
  <2>3. s \in Nat /\ s # 0
    BY <1>4, <2>1, <2>2 DEF Later
  <2>4. migrated = [pg EXCEPT !.schema = s]
    BY <1>1, <1>4, <2>2 DEF Database
  <2> QED
    BY <1>4, <2>3, <2>4 DEF Database
<1>8. PICK mirror : mirror = Mirrored(migrated, statusFile)
  OBVIOUS
<1>9. /\ mirror \in Database /\ mirror.schema # 0 /\ mirror.edits = pg.edits
      /\ \A j \in Unfinished(pg.rows) : j # statusFile.id \/ statusFile.phase \notin Terminal =>
           j \in Unfinished(mirror.rows)
  BY <1>4, <1>6, <1>7, <1>8, MirroredRows
<1>10. /\ pg' \in Database /\ pg'.schema # 0 /\ pg'.edits = pg.edits
       /\ Unfinished(mirror.rows) # {} => pg' = mirror
  BY <1>2, <1>4, <1>8, <1>9, ExternalRecorded
<1>11. \A j \in Unfinished(pg.rows) : j # statusFile.id \/ statusFile.phase \notin Terminal =>
         j \in Unfinished(pg'.rows)
  BY <1>9, <1>10
<1>12. helper.step \in LockedStep => statusFile.phase \notin Terminal
  BY DEF UpgradeInv, HostKnown, LockedStep
<1>13. LockHeld'
  <2>1. ~cancelled /\ request # NoRequest /\ ~request.queued /\ request.id \in Unfinished(pg.rows) \ lapsed =>
          request.id \in Unfinished(pg'.rows)
    BY <1>11, LockSays, Zenon
  <2>2. ~cancelled /\ helper.step \in LockedStep /\ ~helper.req.queued =>
          helper.req.id \in Unfinished(pg'.rows)
    BY <1>11, <1>12, LockSays, Zenon
  <2> QED
    BY <1>2, <2>1, <2>2, LockUntouched
<1>14. NothingSinceDump'
  BY <1>2, <1>4, <1>10, DumpUntouched
<1>15. LockKeepsOut'
  BY <1>2, LockStillKeepsOut
<1>16. cancelled' \in BOOLEAN /\ writer' \in {"none", "checked", "slipped"}
  BY <1>2, <1>3 DEF UpgradeTypeOK
<1> QED
  BY <1>2, <1>5, <1>10, <1>13, <1>14, <1>15, <1>16, PlaneWrites

\* A failing call is counted.
LEMMA StumblingCounts ==
  ASSUME UpgradeAssumption, stumbles \in 0..MaxStumble, NEW bad \in BOOLEAN, Stumbling(bad)
  PROVE  stumbles' \in 0..MaxStumble
  BY DEF Stumbling, Stumble, Fine, UpgradeAssumption

\* A request is made while the lock is free: it takes the lock, or ends at once.
LEMMA AskHelperKeeps ==
  ASSUME UpgradeAssumption, UpgradeInv, NEW bad \in BOOLEAN, NEW rows \in Rows,
         Unfinished(pg.rows) \ lapsed \subseteq Unfinished(rows),
         NEW version \in Releases, NEW rollback \in BOOLEAN, NEW which \in Ids \cup {None},
         AskHelper(bad, rows, version, rollback, which)
  PROVE  UpgradeInv'
<1>1. PICK row : row = [to |-> version, phase |-> IF bad THEN "ended" ELSE "preparing"]
  OBVIOUS
<1>2. PICK req : req = [id |-> NextId, version |-> version, rollback |-> rollback,
                        restore |-> which, queued |-> helper.step # "idle"]
  OBVIOUS
<1>3. /\ Unfinished(rows) = {} /\ NextId \in Ids
      /\ pg' = [pg EXCEPT !.rows = [rows EXCEPT ![NextId] = row]]
      /\ request' = IF bad THEN request ELSE req
      /\ Stumbling(bad)
      /\ dumps' = dumps /\ lapsed' = lapsed /\ statusFile' = statusFile /\ UNCHANGED hostVars
      /\ panel' = panel /\ writer' = (IF writer = "checked" THEN "slipped" ELSE writer) /\ helper' = helper
      /\ cancelled' = cancelled /\ unserved' = unserved /\ lost' = lost
  BY <1>1, <1>2 DEF AskHelper, upgradeHistory
<1>4. UpgradeTypeOK
  BY DEF UpgradeInv
<1>5. /\ pg \in Database /\ pg.schema # 0 /\ request \in Request /\ helper.step \in Step
  BY <1>4, UpgradeTypes
<1>6. NextId # statusFile.id
  BY <1>4, NextIdFresh
<1>7. PICK n \in Ids : n = NextId
  BY <1>3
<1>8. row \in [to : ReleaseOrNone, phase : Phases] /\ (~bad => row.phase = "preparing")
  BY <1>1 DEF ReleaseOrNone, Phases
<1>9. PICK new : new = [rows EXCEPT ![n] = row]
  OBVIOUS
<1>10. new \in Rows /\ new[n] = row
  BY <1>8, <1>9 DEF Rows
<1>11. pg' \in Database /\ pg'.schema # 0 /\ pg'.edits = pg.edits /\ pg'.rows = new
  <2>1. pg' = [pg EXCEPT !.rows = new]
    BY <1>3, <1>7, <1>9
  <2> QED
    BY <1>5, <1>10, <2>1 DEF Database, Rows
<1>12. req \in Request /\ req.id = n /\ req.version = version /\ (req.queued <=> helper.step # "idle")
  BY <1>2, <1>7 DEF Request, ReleaseOrNone
<1>13. Unfinished(pg.rows) \ lapsed = {}
  BY <1>3
<1>14. ~(~cancelled /\ helper.step \in LockedStep /\ ~helper.req.queued)
  BY <1>13, LockSays, Zenon
<1>15. UpgradeTypeOK'
  <2>1. request' \in Request
    BY <1>3, <1>5, <1>12
  <2>2. stumbles' \in 0..MaxStumble
    BY <1>3, <1>4, StumblingCounts DEF UpgradeTypeOK
  <2>3. installed' = installed /\ prev' = prev /\ ran' = ran
    BY <1>3 DEF hostVars
  <2>4. writer' \in {"none", "checked", "slipped"}
    BY <1>3, <1>4 DEF UpgradeTypeOK
  <2> QED
    BY <1>3, <1>4, <1>11, <2>1, <2>2, <2>3, <2>4 DEF UpgradeTypeOK
<1>16. RequestsNamed'
  <2>1. request' # NoRequest => request'.id \in Ids /\ request'.version \in Releases
    BY <1>3, <1>12 DEF UpgradeInv, RequestsNamed
  <2> QED
    BY <1>3, <2>1 DEF UpgradeInv, RequestsNamed
<1>17. LockHeld'
  <2>1. CASE cancelled
    BY <1>3, <2>1, Zenon DEF LockHeld
  <2>2. CASE ~cancelled
    <3>1. ASSUME request' # NoRequest, ~request'.queued
          PROVE  /\ helper.step = "idle" /\ request'.id # statusFile.id
                 /\ request'.id \in lapsed \cup Unfinished(new)
      <4>1. CASE bad
        <5>1. request' = request
          BY <1>3, <4>1
        <5>2. /\ helper.step = "idle" /\ request.id # statusFile.id
              /\ request.id \in lapsed \cup Unfinished(pg.rows)
          BY <2>2, <3>1, <5>1, LockSays, Zenon
        <5> QED
          BY <1>13, <5>1, <5>2
      <4>2. CASE ~bad
        <5>1. request' = req
          BY <1>3, <4>2
        <5>2. helper.step = "idle"
          BY <1>12, <3>1, <5>1, Zenon
        <5>3. n \in Unfinished(new)
          BY <1>8, <1>10, <4>2 DEF Unfinished
        <5> QED
          BY <1>6, <1>7, <1>12, <5>1, <5>2, <5>3
      <4> QED
        BY <4>1, <4>2
    <3>2. (Unfinished(pg.rows))' = Unfinished(new)
      BY <1>11 DEF Unfinished
    <3>3. helper.step \notin {"idle", "rbRestart2"} \cup Restoring => helper.step \in LockedStep
      BY <1>5 DEF LockedStep
    <3>4. ~(helper'.step \notin {"idle", "rbRestart2"} \cup Restoring /\ ~helper'.req.queued)
      BY <1>3, <1>14, <2>2, <3>3, Zenon
    <3> QED
      BY <1>3, <3>1, <3>2, <3>4, Zenon DEF LockHeld
  <2> QED
    BY <2>1, <2>2, Zenon
<1>18. NothingSinceDump'
  BY <1>3, <1>5, <1>11, DumpUntouched
<1>19. LockKeepsOut'
  <2>1. writer' # "checked"
    BY <1>3
  <2> QED
    BY <1>3, <1>5, <2>1, NobodyComesIn
<1>20. HostKnown' /\ PanelTellsTheTruth' /\ NothingLostByRollback'
  <2>1. installed' = installed /\ prev' = prev
    BY <1>3 DEF hostVars
  <2> QED
    BY <1>3, <2>1, HostUntouched
<1> QED
  BY <1>15, <1>16, <1>17, <1>18, <1>19, <1>20, Zenon DEF UpgradeInv

\* An upgrade or a downgrade is asked for, or a snapshot's restore.
LEMMA RequestsKeep ==
  ASSUME UpgradeAssumption, UpgradeInv, NEW bad \in BOOLEAN,
         \/ \E v \in Releases, rollback \in BOOLEAN : StartUpgrade(bad, v, rollback)
         \/ \E i \in Ids : RestoreSnapshot(bad, i)
  PROVE  UpgradeInv'
<1>1. pg.rows \in Rows /\ panel.version \in Releases
  BY UpgradeTypes DEF UpgradeInv
<1>2. ASSUME NEW v \in Releases, NEW rollback \in BOOLEAN, StartUpgrade(bad, v, rollback)
      PROVE  UpgradeInv'
  <2>1. ExpireStale(pg.rows) \in Rows /\ Unfinished(pg.rows) \ lapsed \subseteq Unfinished(ExpireStale(pg.rows))
    BY <1>1, Expired
  <2>2. AskHelper(bad, ExpireStale(pg.rows), v, rollback, None)
    BY <1>2 DEF StartUpgrade
  <2> QED
    BY <2>1, <2>2, AskHelperKeeps
<1>3. ASSUME NEW i \in Ids, RestoreSnapshot(bad, i)
      PROVE  UpgradeInv'
  <2>1. AskHelper(bad, pg.rows, panel.version, TRUE, i)
    BY <1>3 DEF RestoreSnapshot
  <2> QED
    BY <1>1, <2>1, AskHelperKeeps
<1> QED
  BY <1>2, <1>3

\* A cancelled upgrade gives its lock up, and that is on record.
LEMMA CancelKeeps ==
  ASSUME UpgradeAssumption, UpgradeInv, Cancel
  PROVE  UpgradeInv'
<1>1. PICK i \in Unfinished(pg.rows) : pg' = [pg EXCEPT !.rows = SetPanelUpgradePhase(@, i, "failed")]
  BY DEF Cancel
<1>2. /\ cancelled' = TRUE
      /\ dumps' = dumps /\ lapsed' = lapsed /\ request' = request /\ statusFile' = statusFile
      /\ UNCHANGED hostVars /\ panel' = panel /\ writer' = writer /\ helper' = helper /\ stumbles' = stumbles
      /\ unserved' = unserved /\ lost' = lost
  BY DEF Cancel
<1>3. UpgradeTypeOK
  BY DEF UpgradeInv
<1>4. /\ pg \in Database /\ pg.rows \in Rows /\ pg.schema # 0
      /\ panel \in [version : Releases, up : BOOLEAN, fell : BOOLEAN]
  BY <1>3, UpgradeTypes
<1>5. i \in Ids
  BY DEF Unfinished
<1>6. pg' \in Database /\ pg'.schema # 0
  <2>1. PICK rows \in Rows : rows = SetPanelUpgradePhase(pg.rows, i, "failed")
    BY <1>4, <1>5, PhaseWritten DEF Terminal
  <2>2. pg' = [pg EXCEPT !.rows = rows]
    BY <1>1, <1>4, <2>1 DEF Database
  <2> QED
    BY <1>4, <2>1, <2>2 DEF Database, Rows
<1>7. LockHeld' /\ LockKeepsOut' /\ NothingSinceDump'
  BY <1>2, Zenon DEF LockHeld, LockKeepsOut, NothingSinceDump
<1>8. writer' \in {"none", "checked", "slipped"}
  BY <1>2, <1>3 DEF UpgradeTypeOK
<1> QED
  BY <1>2, <1>4, <1>6, <1>7, <1>8, PlaneWrites

\* A snapshot is deleted: the dump, and its row.
LEMMA DeleteSnapshotKeeps ==
  ASSUME UpgradeAssumption, UpgradeInv, NEW bad \in BOOLEAN, NEW i \in Ids, DeleteSnapshot(bad, i)
  PROVE  UpgradeInv'
<1>1. /\ dumps' = [dumps EXCEPT ![i] = NoDump] /\ Stumbling(bad)
      /\ pg' = IF bad THEN pg ELSE [pg EXCEPT !.listed = pg.listed \ {i}]
      /\ lapsed' = lapsed /\ request' = request /\ statusFile' = statusFile
      /\ UNCHANGED hostVars /\ panel' = panel /\ writer' = writer /\ helper' = helper
      /\ cancelled' = cancelled /\ unserved' = unserved /\ lost' = lost
  BY DEF DeleteSnapshot, upgradeHistory
<1>2. UpgradeTypeOK
  BY DEF UpgradeInv
<1>3. /\ pg \in Database /\ pg.rows \in Rows /\ pg.schema # 0 /\ pg.listed \in SUBSET Ids
      /\ dumps \in [Ids -> Database] /\ helper.step \in Step /\ NoDump \in Database
      /\ helper.req.id \in Ids \cup {None}
  BY <1>2, UpgradeTypes, UpgradeConstants
<1>4. pg' \in Database /\ pg'.schema # 0 /\ pg'.edits = pg.edits /\ pg'.rows = pg.rows
  BY <1>1, <1>3 DEF Database
<1>5. /\ dumps' \in [Ids -> Database] /\ \A j \in Ids : dumps'[j] = NoDump \/ dumps'[j] = dumps[j]
  BY <1>1, <1>3
<1>6. UpgradeTypeOK'
  <2>1. stumbles' \in 0..MaxStumble
    BY <1>1, <1>2, StumblingCounts DEF UpgradeTypeOK
  <2>2. installed' = installed /\ prev' = prev /\ ran' = ran
    BY <1>1 DEF hostVars
  <2>3. \A j \in Ids : dumps'[j] = NoDump \/ dumps'[j].schema # 0
    BY <1>2, <1>5 DEF UpgradeTypeOK
  <2> QED
    BY <1>1, <1>2, <1>4, <1>5, <2>1, <2>2, <2>3 DEF UpgradeTypeOK
<1>7. RequestsNamed'
  BY <1>1 DEF UpgradeInv, RequestsNamed
<1>8. LockHeld'
  <2>1. Unfinished(pg'.rows) = Unfinished(pg.rows)
    BY <1>4
  <2>2. ~cancelled /\ helper.step \in LockedStep /\ ~helper.req.queued =>
          helper.req.id \in Unfinished(pg'.rows)
    BY <2>1, LockSays, Zenon
  <2> QED
    BY <1>1, <2>1, <2>2, LockUntouched
<1>9. NothingSinceDump'
  <2>1. helper.step \in AfterDump => helper.req.id \in Ids
    BY DEF UpgradeInv, RequestsNamed, AfterDump, LockedStep
  <2> QED
    BY <1>1, <1>3, <1>4, <1>5, <2>1, DumpUntouched
<1>10. HostKnown' /\ PanelTellsTheTruth' /\ NothingLostByRollback'
  <2>1. installed' = installed /\ prev' = prev
    BY <1>1 DEF hostVars
  <2> QED
    BY <1>1, <2>1, HostUntouched
<1>11. LockKeepsOut'
  BY <1>1, LockStillKeepsOut
<1> QED
  BY <1>6, <1>7, <1>8, <1>9, <1>10, <1>11, Zenon DEF UpgradeInv

\* A lock runs out: of a request, or of a row whose helper had to wait or is gone.
LEMMA LapseKeeps ==
  ASSUME UpgradeAssumption, UpgradeInv, NEW i \in Ids, Lapse(i)
  PROVE  UpgradeInv'
<1>1. /\ lapsed' = lapsed \cup {i} /\ (helper.req.id = i => helper.req.queued)
      /\ pg' = pg /\ dumps' = dumps /\ request' = request /\ statusFile' = statusFile
      /\ UNCHANGED hostVars /\ panel' = panel /\ writer' = writer /\ helper' = helper /\ stumbles' = stumbles
      /\ cancelled' = cancelled /\ unserved' = unserved /\ lost' = lost
  BY DEF Lapse, upgradeHistory
<1>2. installed' = installed /\ prev' = prev /\ ran' = ran
  BY <1>1 DEF hostVars
<1>3. UpgradeTypeOK' /\ RequestsNamed'
  BY <1>1, <1>2 DEF UpgradeInv, UpgradeTypeOK, RequestsNamed
<1>4. LockHeld'
  <2>1. (Unfinished(pg.rows))' = Unfinished(pg.rows)
    BY <1>1 DEF Unfinished
  <2>2. helper.step \notin {"idle", "rbRestart2"} \cup Restoring => helper.step \in LockedStep
    BY UpgradeTypes DEF UpgradeInv, LockedStep
  <2>3. CASE cancelled
    BY <1>1, <2>3, Zenon DEF LockHeld
  <2>4. CASE ~cancelled
    <3>1. request # NoRequest /\ ~request.queued =>
            /\ helper.step = "idle" /\ request.id # statusFile.id
            /\ request.id \in lapsed' \cup Unfinished(pg.rows)
      <4>1. lapsed \subseteq lapsed'
        BY <1>1
      <4> QED
        BY <2>4, <4>1, LockSays, Zenon
    <3>2. helper.step \in LockedStep /\ ~helper.req.queued =>
            helper.req.id \in Unfinished(pg.rows) \ lapsed'
      <4>1. helper.step \in LockedStep /\ ~helper.req.queued =>
              helper.req.id \in Unfinished(pg.rows) \ lapsed /\ helper.req.id # i
        BY <1>1, <2>4, LockSays, Zenon
      <4> QED
        BY <1>1, <4>1
    <3> QED
      BY <1>1, <2>1, <2>2, <3>1, <3>2, Zenon DEF LockHeld
  <2> QED
    BY <2>3, <2>4, Zenon
<1>5. NothingSinceDump'
  <2>1. helper.step \in Step
    BY UpgradeTypes DEF UpgradeInv
  <2> QED
    BY <1>1, <2>1, DumpUntouched
<1>6. HostKnown' /\ PanelTellsTheTruth' /\ NothingLostByRollback'
  BY <1>1, <1>2, HostUntouched
<1>7. LockKeepsOut'
  BY <1>1, LockStillKeepsOut
<1> QED
  BY <1>3, <1>4, <1>5, <1>6, <1>7, Zenon DEF UpgradeInv

\* The panel falls over or is restarted: systemd starts what is installed.
LEMMA PanelFallsKeeps ==
  ASSUME UpgradeAssumption, UpgradeInv, PanelFalls
  PROVE  UpgradeInv'
<1>1. /\ installed # None
      /\ panel' = [Booting EXCEPT !.fell = helper.step \in {"gate", "rbGate"}] /\ writer' = "none"
      /\ pg' = pg /\ dumps' = dumps /\ lapsed' = lapsed /\ request' = request
      /\ statusFile' = statusFile /\ UNCHANGED hostVars /\ helper' = helper
      /\ cancelled' = cancelled /\ unserved' = unserved /\ lost' = lost
  BY DEF PanelFalls, upgradeHistory
<1>2. installed' = installed /\ prev' = prev /\ ran' = ran
  BY <1>1 DEF hostVars
<1>3. stumbles' \in 0..MaxStumble
  BY DEF PanelFalls, Stumble, Fine, UpgradeInv, UpgradeTypeOK, UpgradeAssumption
<1>4. /\ panel' \in [version : Releases, up : BOOLEAN, fell : BOOLEAN]
      /\ panel'.version = installed
  <2>1. installed \in Releases
    BY <1>1 DEF UpgradeInv, UpgradeTypeOK, ReleaseOrNone
  <2>2. PICK f \in BOOLEAN : f = (helper.step \in {"gate", "rbGate"})
    <3>1. (helper.step \in {"gate", "rbGate"}) \in BOOLEAN
      OBVIOUS
    <3> QED
      BY <3>1, Zenon
  <2>3. panel' = [version |-> installed, up |-> FALSE, fell |-> f]
    BY <1>1, <2>2 DEF Booting
  <2> QED
    BY <2>1, <2>3
<1>5. UpgradeTypeOK'
  BY <1>1, <1>2, <1>3, <1>4 DEF UpgradeInv, UpgradeTypeOK
<1>6. RequestsNamed'
  BY <1>1 DEF UpgradeInv, RequestsNamed
<1>7. LockHeld'
  BY <1>1, LockSays, LockUntouched
<1>8. NothingSinceDump'
  <2>1. helper.step \in Step
    BY UpgradeTypes DEF UpgradeInv
  <2> QED
    BY <1>1, <2>1, DumpUntouched
<1>9. NothingLostByRollback'
  BY <1>1, Zenon DEF UpgradeInv, NothingLostByRollback
<1>10. HostKnown' /\ PanelTellsTheTruth'
  BY <1>1, <1>2, <1>4 DEF UpgradeInv, HostKnown, PanelTellsTheTruth, At
<1>11. LockKeepsOut'
  BY <1>1, LockStillKeepsOut
<1> QED
  BY <1>5, <1>6, <1>7, <1>8, <1>9, <1>10, <1>11, Zenon DEF UpgradeInv

\* A helper at work has an upgrade.
LEMMA AtWork ==
  ASSUME UpgradeAssumption, UpgradeInv, helper.step # "idle"
  PROVE  /\ helper.req.id \in Ids /\ helper.req.version \in Releases /\ helper.from \in Releases
         /\ helper.req.version # None /\ helper.from # None
         /\ helper.step \in Step /\ statusFile.phase \notin Terminal
<1>1. helper.req.id \in Ids /\ helper.req.version \in Releases /\ helper.from \in Releases
  BY DEF UpgradeInv, RequestsNamed
<1>2. helper.req.version # None /\ helper.from # None
  BY <1>1, UpgradeConstants
<1>3. helper.step \in Step /\ statusFile.phase \notin Terminal
  BY UpgradeTypes DEF UpgradeInv, HostKnown
<1> QED
  BY <1>1, <1>2, <1>3

\* The helper goes on.
LEMMA Going ==
  ASSUME UpgradeTypeOK, NEW step \in Step, Goes(step)
  PROVE  /\ helper' \in Helpers /\ helper'.step = step
         /\ helper'.req = helper.req /\ helper'.from = helper.from
  BY DEF UpgradeTypeOK, Goes, Helpers

\* What it tells.
LEMMA StatusSaid ==
  ASSUME UpgradeTypeOK, NEW phase \in {"preparing", "swapping"} \cup Terminal
  PROVE  /\ Said(phase) \in Status /\ Said(phase).phase = phase /\ Said(phase).id = helper.req.id
         /\ Said(phase).version = helper.req.version /\ Said(phase).from = helper.from
         /\ Said(phase).dump = None
<1>1. /\ helper.req.id \in Ids \cup {None} /\ helper.req.version \in ReleaseOrNone
      /\ helper.from \in ReleaseOrNone
  BY DEF UpgradeTypeOK, Request
<1> QED
  BY <1>1 DEF Said, Status

\* A command that fails is counted.
LEMMA CommandCounts ==
  ASSUME UpgradeAssumption, stumbles \in 0..MaxStumble, NEW bad \in BOOLEAN, Command(bad)
  PROVE  stumbles' \in 0..MaxStumble
<1>1. PICK b \in BOOLEAN : b = (bad /\ ~helper.over)
  OBVIOUS
<1>2. Stumbling(b)
  BY <1>1, Zenon DEF Command
<1> QED
  BY <1>2, StumblingCounts

\* What a step of the helper leaves to show: where the binaries are and what runs.
LEMMA HelperFrame ==
  ASSUME UpgradeAssumption, UpgradeInv, helper.step # "idle",
         lapsed' = lapsed, request' = request, cancelled' = cancelled,
         pg' \in Database, pg'.schema # 0, dumps' \in [Ids -> Database],
         \A i \in Ids : dumps'[i] = NoDump \/ dumps'[i].schema # 0,
         installed' \in ReleaseOrNone, prev' \in ReleaseOrNone, ran' \subseteq Releases,
         panel' \in [version : Releases, up : BOOLEAN, fell : BOOLEAN],
         stumbles' \in 0..MaxStumble, unserved' \in BOOLEAN, lost' \in SUBSET {"slipped"},
         writer' = writer \/ writer' = "none",
         statusFile' \in Status, statusFile'.phase # "none" \/ statusFile' = statusFile,
         helper' \in Helpers,
         \/ helper' = NoHelper
         \/ /\ helper'.step # "idle" /\ helper'.req = helper.req /\ helper'.from = helper.from
            /\ helper'.step = "roRestore" => helper.step = "roRestore",
         helper'.step \in LockedStep => helper.step \in LockedStep /\ pg'.rows = pg.rows,
         NothingSinceDump', HostKnown', PanelTellsTheTruth'
  PROVE  UpgradeInv'
<1>1. UpgradeTypeOK'
  BY DEF UpgradeInv, UpgradeTypeOK, Helpers
<1>2. NoHelper.step = "idle" /\ ("idle" \notin LockedStep)
  BY UpgradeConstants DEF LockedStep
<1>3. RequestsNamed'
  <2>1. request' # NoRequest => request'.id \in Ids /\ request'.version \in Releases
    BY DEF UpgradeInv, RequestsNamed
  <2>2. /\ helper'.step = "idle" => helper' = NoHelper
        /\ helper'.step # "idle" => helper'.req = helper.req /\ helper'.from = helper.from
        /\ helper'.step = "roRestore" => helper.step = "roRestore" /\ helper'.req = helper.req
    BY <1>2
  <2>3. /\ helper.req.id \in Ids /\ helper.req.version \in Releases /\ helper.from \in Releases
        /\ helper.step = "roRestore" => helper.req.restore \in Ids
        /\ statusFile.id \in Ids => statusFile.phase # "none"
    BY DEF UpgradeInv, RequestsNamed
  <2> QED
    BY <2>1, <2>2, <2>3 DEF RequestsNamed
<1>4. LockHeld'
  <2>1. CASE cancelled
    BY <2>1, Zenon DEF LockHeld
  <2>2. CASE ~cancelled
    <3>1. ~(request' # NoRequest /\ ~request'.queued)
      BY <2>2, LockSays, Zenon
    <3>2. helper'.step \notin {"idle", "rbRestart2"} \cup Restoring => helper'.step \in LockedStep
      BY DEF LockedStep, Helpers
    <3>3. ASSUME helper'.step \in LockedStep, ~helper'.req.queued
          PROVE  helper'.req.id \in (Unfinished(pg.rows))' \ lapsed'
      <4>1. helper.step \in LockedStep /\ pg'.rows = pg.rows /\ helper'.req = helper.req
        BY <1>2, <3>3
      <4>2. (Unfinished(pg.rows))' = Unfinished(pg.rows)
        BY <4>1 DEF Unfinished
      <4>3. helper.req.id \in Unfinished(pg.rows) \ lapsed
        BY <2>2, <3>3, <4>1, LockSays, Zenon
      <4> QED
        BY <4>1, <4>2, <4>3
    <3> QED
      BY <3>1, <3>2, <3>3, Zenon DEF LockHeld
  <2> QED
    BY <2>1, <2>2, Zenon
<1>5. NothingLostByRollback'
  BY DEF NothingLostByRollback
<1>6. LockKeepsOut'
  <2>1. ~cancelled => ~Asked'
    BY LockSays, Zenon DEF Asked
  <2>2. Working' => Working
    BY <1>2 DEF Working
  <2>3. helper'.step \in Step
    BY DEF Helpers
  <2> QED
    BY <2>1, <2>2, <2>3, NobodyComesIn, Zenon
<1> QED
  BY <1>1, <1>3, <1>4, <1>5, <1>6, Zenon DEF UpgradeInv

\* The helper is through: nothing more is at stake than the truth of what it told.
LEMMA HelperEnds ==
  ASSUME UpgradeAssumption, UpgradeInv, helper' = NoHelper,
         ~unserved' => panel'.version = installed',
         ~unserved' /\ statusFile'.phase \in Terminal =>
           /\ statusFile'.phase = "succeeded" /\ statusFile'.version # None => installed' = statusFile'.version
           /\ statusFile'.phase \in {"rolled_back", "failed"} => installed' = statusFile'.from
  PROVE  /\ helper' \in Helpers /\ helper'.step = "idle" /\ helper'.step \notin LockedStep
         /\ NothingSinceDump' /\ HostKnown' /\ PanelTellsTheTruth'
<1>1. helper' \in Helpers /\ helper'.step = "idle"
  BY UpgradeConstants
<1>2. helper'.step \notin LockedStep
  BY <1>1 DEF LockedStep
<1>3. NothingSinceDump'
  BY <1>1 DEF NothingSinceDump
<1>4. HostKnown'
  BY <1>1 DEF HostKnown, Unmoved, Restoring, Swapped, PuttingBack
<1>5. PanelTellsTheTruth'
  BY <1>1 DEF PanelTellsTheTruth
<1> QED
  BY <1>1, <1>2, <1>3, <1>4, <1>5

\* It fails with the binary it found in its place.
LEMMA FailsInPlace ==
  ASSUME UpgradeAssumption, UpgradeInv, HelperFails,
         ~unserved' => panel'.version = installed' /\ installed' = helper.from
  PROVE  /\ helper' = NoHelper /\ helper' \in Helpers /\ helper'.step \notin LockedStep
         /\ statusFile' \in Status /\ statusFile'.phase # "none"
         /\ NothingSinceDump' /\ HostKnown' /\ PanelTellsTheTruth'
<1>1. helper' = NoHelper /\ statusFile' = Said("failed")
  BY DEF HelperFails, TellStatus
<1>2. statusFile' \in Status /\ statusFile'.phase = "failed" /\ statusFile'.from = helper.from
  BY <1>1, StatusSaid DEF UpgradeInv, Terminal
<1> QED
  BY <1>1, <1>2, HelperEnds

\* While the installed binary is not moved, or the snapshot is put back for an owner, it is
\* the one the helper found.
LEMMA GoesOnUnmoved ==
  ASSUME UpgradeAssumption, UpgradeInv, helper.step \in Unmoved \cup Restoring,
         NEW step \in Unmoved \cup Restoring, Goes(step),
         installed' = installed, panel'.version = panel.version, unserved' = unserved,
         statusFile'.phase \notin Terminal
  PROVE  /\ helper' \in Helpers /\ helper'.step = step /\ step # "idle"
         /\ helper'.req = helper.req /\ helper'.from = helper.from
         /\ HostKnown' /\ PanelTellsTheTruth'
<1>1. /\ helper' \in Helpers /\ helper'.step = step
      /\ helper'.req = helper.req /\ helper'.from = helper.from
  BY Going DEF UpgradeInv, Step
<1>2. /\ step # "idle" /\ step \notin {"swap2"} \cup Swapped \cup PuttingBack
      /\ helper.step # "idle" /\ helper.step \notin {"swap2"} \cup Swapped \cup PuttingBack
  BY DEF Unmoved, Restoring, Swapped, PuttingBack
<1>3. installed = helper.from /\ (~unserved => panel.version = installed)
  BY <1>2 DEF UpgradeInv, HostKnown, Swapped, PuttingBack
<1>4. HostKnown'
  BY <1>1, <1>2, <1>3 DEF HostKnown
<1>5. PanelTellsTheTruth'
  BY <1>1, <1>2 DEF PanelTellsTheTruth, At
<1> QED
  BY <1>1, <1>2, <1>4, <1>5

\* The steps before the binary is moved: checking the release and downloading it.
LEMMA VerifyKeeps ==
  ASSUME UpgradeAssumption, UpgradeInv, NEW bad \in BOOLEAN, Verify(bad) \/ Download(bad)
  PROVE  UpgradeInv'
<1>1. /\ Command(bad)
      /\ pg' = pg /\ dumps' = dumps /\ lapsed' = lapsed /\ request' = request
      /\ UNCHANGED hostVars /\ panel' = panel /\ writer' = writer
      /\ cancelled' = cancelled /\ unserved' = unserved /\ lost' = lost
      /\ helper.step \in {"verify", "download"}
  BY DEF Verify, Download, upgradeHistory, At
<1>2. \/ HelperFails
      \/ helper.step = "verify" /\ Goes("snapshot") /\ TellStatus("preparing")
      \/ helper.step = "download" /\ Goes("migrate") /\ TellStatus("swapping")
  BY DEF Verify, Download, At
<1>3. installed' = installed /\ prev' = prev /\ ran' = ran
  BY <1>1 DEF hostVars
<1>4. helper.step # "idle" /\ helper.step \in Unmoved /\ helper.step \in LockedStep
  BY <1>1 DEF Unmoved, LockedStep, Step, Restoring
<1>5. installed = helper.from /\ (~unserved => panel.version = installed)
  BY <1>1, <1>4 DEF UpgradeInv, HostKnown, PuttingBack
<1>6. UpgradeTypeOK /\ lost \in SUBSET {"slipped"} /\ unserved \in BOOLEAN
  BY UpgradeFlags DEF UpgradeInv
<1>7. stumbles' \in 0..MaxStumble
  BY <1>1, <1>6, CommandCounts DEF UpgradeTypeOK
<1>8. /\ statusFile' \in Status /\ statusFile'.phase # "none"
      /\ helper' \in Helpers
      /\ \/ helper' = NoHelper
         \/ /\ helper'.step # "idle" /\ helper'.req = helper.req /\ helper'.from = helper.from
            /\ helper'.step = "roRestore" => helper.step = "roRestore"
      /\ NothingSinceDump' /\ HostKnown' /\ PanelTellsTheTruth'
  <2>1. CASE HelperFails
    BY <1>1, <1>3, <1>5, <2>1, FailsInPlace
  <2>2. ASSUME NEW step \in {"snapshot", "migrate"}, Goes(step),
               NEW phase \in {"preparing", "swapping"}, TellStatus(phase),
               helper.step = "verify" => step = "snapshot",
               helper.step = "download" => step = "migrate"
        PROVE  /\ statusFile' \in Status /\ statusFile'.phase # "none"
               /\ helper' \in Helpers
               /\ helper'.step # "idle" /\ helper'.req = helper.req /\ helper'.from = helper.from
               /\ helper'.step # "roRestore"
               /\ NothingSinceDump' /\ HostKnown' /\ PanelTellsTheTruth'
    <3>1. statusFile' \in Status /\ statusFile'.phase = phase
      BY <1>6, <2>2, StatusSaid DEF TellStatus
    <3>2. phase \notin Terminal /\ phase # "none"
      BY DEF Terminal
    <3>3. /\ helper' \in Helpers /\ helper'.step = step /\ step # "idle"
          /\ helper'.req = helper.req /\ helper'.from = helper.from
          /\ HostKnown' /\ PanelTellsTheTruth'
      BY <1>1, <1>3, <1>4, <2>2, <3>1, <3>2, GoesOnUnmoved DEF Unmoved
    <3>4. helper'.step \in AfterDump => helper.step \in AfterDump
      BY <1>1, <2>2, <3>3 DEF AfterDump, LockedStep, Step, Unmoved, Swapped, PuttingBack, Restoring
    <3>5. helper'.step \in Step
      BY <3>3 DEF Helpers
    <3>6. NothingSinceDump'
      BY <1>1, <3>3, <3>4, <3>5, DumpUntouched
    <3> QED
      BY <3>1, <3>2, <3>3, <3>6
  <2> QED
    BY <1>2, <2>1, <2>2
<1> QED
  BY <1>1, <1>3, <1>4, <1>6, <1>7, <1>8, HelperFrame DEF UpgradeTypeOK

\* The dump is made of the database as it is.
LEMMA SnapshotKeeps ==
  ASSUME UpgradeAssumption, UpgradeInv, NEW bad \in BOOLEAN, Snapshot(bad)
  PROVE  UpgradeInv'
<1>1. /\ Command(bad) /\ helper.step = "snapshot"
      /\ pg' = pg /\ lapsed' = lapsed /\ request' = request
      /\ UNCHANGED hostVars /\ panel' = panel /\ writer' = writer
      /\ cancelled' = cancelled /\ unserved' = unserved /\ lost' = lost
  BY DEF Snapshot, upgradeHistory, At
<1>2. installed' = installed /\ prev' = prev /\ ran' = ran
  BY <1>1 DEF hostVars
<1>3. helper.step # "idle" /\ helper.step \in Unmoved /\ helper.step \in LockedStep
  BY <1>1 DEF Unmoved, LockedStep, Step, Restoring
<1>4. installed = helper.from /\ (~unserved => panel.version = installed)
  BY <1>1, <1>3 DEF UpgradeInv, HostKnown, PuttingBack
<1>5. UpgradeTypeOK /\ lost \in SUBSET {"slipped"} /\ unserved \in BOOLEAN
  BY UpgradeFlags DEF UpgradeInv
<1>6. stumbles' \in 0..MaxStumble
  BY <1>1, <1>5, CommandCounts DEF UpgradeTypeOK
<1>7. /\ pg \in Database /\ pg.schema # 0 /\ pg.edits \in Nat /\ dumps \in [Ids -> Database]
      /\ \A i \in Ids : dumps[i] = NoDump \/ dumps[i].schema # 0
  BY <1>5, UpgradeTypes DEF UpgradeTypeOK
<1>8. helper.req.id \in Ids
  BY <1>3, AtWork
<1>9. CASE bad
  <2>1. HelperFails /\ dumps' = dumps
    BY <1>9 DEF Snapshot
  <2>2. /\ helper' = NoHelper /\ helper' \in Helpers /\ helper'.step \notin LockedStep
        /\ statusFile' \in Status /\ statusFile'.phase # "none"
        /\ NothingSinceDump' /\ HostKnown' /\ PanelTellsTheTruth'
    BY <1>1, <1>2, <1>4, <2>1, FailsInPlace
  <2> QED
    BY <1>1, <1>2, <1>3, <1>5, <1>6, <1>7, <2>1, <2>2, HelperFrame DEF UpgradeTypeOK
<1>10. CASE ~bad
  <2>1. Goes("download") /\ TellStatus("preparing") /\ dumps' = [dumps EXCEPT ![helper.req.id] = pg]
    BY <1>10 DEF Snapshot
  <2>2. statusFile' \in Status /\ statusFile'.phase = "preparing"
    BY <1>5, <2>1, StatusSaid DEF TellStatus
  <2>3. "preparing" \notin Terminal /\ "download" \in Unmoved
    BY DEF Terminal, Unmoved
  <2>4. /\ helper' \in Helpers /\ helper'.step = "download"
        /\ helper'.req = helper.req /\ helper'.from = helper.from
        /\ HostKnown' /\ PanelTellsTheTruth'
    BY <1>1, <1>2, <1>3, <2>1, <2>2, <2>3, GoesOnUnmoved
  <2>5. dumps' \in [Ids -> Database] /\ dumps'[helper.req.id] = pg
        /\ \A i \in Ids : dumps'[i] = NoDump \/ dumps'[i].schema # 0
    BY <1>7, <1>8, <2>1
  <2>6. NothingSinceDump'
    <3>1. pg'.edits <= dumps'[helper'.req.id].edits
      BY <1>1, <1>7, <2>4, <2>5
    <3> QED
      BY <3>1, Zenon DEF NothingSinceDump
  <2>7. helper'.step \notin {"idle", "roRestore"}
    BY <2>4
  <2>8. statusFile'.phase # "none"
    BY <2>2
  <2> QED
    BY <1>1, <1>2, <1>3, <1>5, <1>6, <1>7, <2>2, <2>4, <2>5, <2>6, <2>7, <2>8, HelperFrame DEF UpgradeTypeOK
<1> QED
  BY <1>9, <1>10

\* Migrations change the schema, and neither the rows nor the users' data.
LEMMA MigrateKeeps ==
  ASSUME UpgradeAssumption, UpgradeInv, NEW bad \in BOOLEAN, Migrate(bad)
  PROVE  UpgradeInv'
<1>1. /\ Command(bad) /\ helper.step = "migrate"
      /\ dumps' = dumps /\ lapsed' = lapsed /\ request' = request
      /\ UNCHANGED hostVars /\ panel' = panel /\ writer' = writer
      /\ cancelled' = cancelled /\ unserved' = unserved /\ lost' = lost
  BY DEF Migrate, upgradeHistory, At
<1>2. installed' = installed /\ prev' = prev /\ ran' = ran
  BY <1>1 DEF hostVars
<1>3. /\ helper.step # "idle" /\ helper.step \in Unmoved /\ helper.step \in LockedStep
      /\ helper.step \in AfterDump
  BY <1>1 DEF Unmoved, LockedStep, AfterDump, Step, Restoring
<1>4. installed = helper.from /\ (~unserved => panel.version = installed)
  BY <1>1, <1>3 DEF UpgradeInv, HostKnown, PuttingBack
<1>5. UpgradeTypeOK /\ lost \in SUBSET {"slipped"} /\ unserved \in BOOLEAN
  BY UpgradeFlags DEF UpgradeInv
<1>6. stumbles' \in 0..MaxStumble
  BY <1>1, <1>5, CommandCounts DEF UpgradeTypeOK
<1>7. pg \in Database /\ pg.schema \in Nat /\ pg.schema # 0
  BY <1>5, UpgradeTypes
<1>8. pg' \in Database /\ pg'.schema # 0 /\ pg'.rows = pg.rows /\ pg'.edits = pg.edits
  <2>1. PICK top : top = Later(pg.schema, helper.req.version)
    OBVIOUS
  <2>2. PICK s \in pg.schema..top : pg' = [pg EXCEPT !.schema = s]
    BY <2>1 DEF Migrate
  <2>3. helper.req.version \in Nat
    BY <1>3, AtWork, UpgradeConstants
  <2>4. s \in Nat /\ s # 0
    BY <1>7, <2>1, <2>2, <2>3 DEF Later
  <2> QED
    BY <1>7, <2>2, <2>4 DEF Database
<1>9. CASE bad
  <2>1. HelperFails
    BY <1>9 DEF Migrate
  <2>2. /\ helper' = NoHelper /\ helper' \in Helpers /\ helper'.step \notin LockedStep
        /\ statusFile' \in Status /\ statusFile'.phase # "none"
        /\ NothingSinceDump' /\ HostKnown' /\ PanelTellsTheTruth'
    BY <1>1, <1>2, <1>4, <2>1, FailsInPlace
  <2> QED
    BY <1>1, <1>2, <1>3, <1>5, <1>6, <1>8, <2>1, <2>2, HelperFrame DEF UpgradeTypeOK
<1>10. CASE ~bad
  <2>1. Goes("swap1") /\ TellStatus("swapping")
    BY <1>10 DEF Migrate
  <2>2. statusFile' \in Status /\ statusFile'.phase = "swapping"
    BY <1>5, <2>1, StatusSaid DEF TellStatus
  <2>3. "swapping" \notin Terminal /\ "swap1" \in Unmoved
    BY DEF Terminal, Unmoved
  <2>4. /\ helper' \in Helpers /\ helper'.step = "swap1"
        /\ helper'.req = helper.req /\ helper'.from = helper.from
        /\ HostKnown' /\ PanelTellsTheTruth'
    BY <1>1, <1>2, <1>3, <2>1, <2>2, <2>3, GoesOnUnmoved
  <2>5. NothingSinceDump'
    <3>1. helper'.step \in Step
      BY <2>4 DEF Helpers
    <3> QED
      BY <1>1, <1>3, <1>8, <2>4, <3>1, DumpUntouched
  <2>6. helper'.step \notin {"idle", "roRestore"}
    BY <2>4
  <2>7. statusFile'.phase # "none"
    BY <2>2
  <2> QED
    BY <1>1, <1>2, <1>3, <1>5, <1>6, <1>8, <2>2, <2>4, <2>5, <2>6, <2>7, HelperFrame DEF UpgradeTypeOK
<1> QED
  BY <1>9, <1>10

\* A step of the helper that keeps the database, its dump and its request: what is left to
\* show is where the binaries are and what runs.
LEMMA BinaryStep ==
  ASSUME UpgradeAssumption, UpgradeInv, helper.step \in AfterDump,
         pg' = pg, lapsed' = lapsed, request' = request, cancelled' = cancelled,
         dumps' = dumps \/ helper' = NoHelper,
         dumps' \in [Ids -> Database], \A i \in Ids : dumps'[i] = NoDump \/ dumps'[i].schema # 0,
         installed' \in ReleaseOrNone, prev' \in ReleaseOrNone, ran' \subseteq Releases,
         panel' \in [version : Releases, up : BOOLEAN, fell : BOOLEAN],
         stumbles' \in 0..MaxStumble, unserved' \in BOOLEAN, lost' \in SUBSET {"slipped"},
         writer' = writer \/ writer' = "none",
         statusFile' \in Status, statusFile'.phase # "none" \/ statusFile' = statusFile,
         \/ helper' = NoHelper
         \/ \E step \in AfterDump : Goes(step),
         HostKnown', PanelTellsTheTruth'
  PROVE  UpgradeInv'
<1>1. UpgradeTypeOK /\ helper.step # "idle" /\ helper.step \in LockedStep
  BY DEF UpgradeInv, AfterDump, LockedStep
<1>2. pg' \in Database /\ pg'.schema # 0
  BY <1>1, UpgradeTypes
<1>3. NoHelper \in Helpers /\ NoHelper.step \notin LockedStep /\ NoHelper.step \in Step
  BY UpgradeConstants DEF LockedStep, Step
<1>4. CASE helper' = NoHelper
  <2>1. NothingSinceDump'
    BY <1>3, <1>4, DumpUntouched DEF AfterDump
  <2> QED
    BY <1>1, <1>2, <1>3, <1>4, <2>1, HelperFrame
<1>5. CASE \E step \in AfterDump : Goes(step)
  <2>1. PICK step \in AfterDump : Goes(step)
    BY <1>5
  <2>2. step \in Step /\ step # "idle" /\ step # "roRestore"
    BY DEF AfterDump, LockedStep, Restoring
  <2>3. /\ helper' \in Helpers /\ helper'.step = step
        /\ helper'.req = helper.req /\ helper'.from = helper.from
    BY <1>1, <2>1, <2>2, Going
  <2>4. dumps' = dumps
    BY <1>3, <2>2, <2>3, UpgradeConstants
  <2>5. NothingSinceDump'
    BY <2>2, <2>3, <2>4, DumpUntouched
  <2> QED
    BY <1>1, <1>2, <2>2, <2>3, <2>5, HelperFrame
<1> QED
  BY <1>4, <1>5

\* The installed binary is put aside.
LEMMA SwapAsideKeeps ==
  ASSUME UpgradeAssumption, UpgradeInv, NEW bad \in BOOLEAN, SwapAside(bad)
  PROVE  UpgradeInv'
<1>1. /\ Stumbling(bad) /\ helper.step = "swap1"
      /\ pg' = pg /\ dumps' = dumps /\ lapsed' = lapsed /\ request' = request /\ ran' = ran
      /\ panel' = panel /\ writer' = writer /\ cancelled' = cancelled /\ unserved' = unserved /\ lost' = lost
  BY DEF SwapAside, upgradeHistory, At
<1>2. helper.step \in AfterDump /\ helper.step \in Unmoved /\ helper.step # "idle"
  BY <1>1 DEF AfterDump, LockedStep, Unmoved, Step, Restoring
<1>3. installed = helper.from /\ (~unserved => panel.version = installed)
  BY <1>1, <1>2 DEF UpgradeInv, HostKnown, PuttingBack
<1>4. UpgradeTypeOK /\ lost \in SUBSET {"slipped"} /\ unserved \in BOOLEAN
  BY UpgradeFlags DEF UpgradeInv
<1>5. stumbles' \in 0..MaxStumble
  BY <1>1, <1>4, StumblingCounts DEF UpgradeTypeOK
<1>6. CASE bad
  <2>1. HelperFails /\ installed' = installed /\ prev' = prev
    BY <1>6 DEF SwapAside
  <2>2. /\ helper' = NoHelper /\ statusFile' \in Status /\ statusFile'.phase # "none"
        /\ HostKnown' /\ PanelTellsTheTruth'
    BY <1>1, <1>3, <2>1, FailsInPlace
  <2> QED
    BY <1>1, <1>2, <1>4, <1>5, <2>1, <2>2, BinaryStep DEF UpgradeTypeOK
<1>7. CASE ~bad
  <2>1. Goes("swap2") /\ prev' = installed /\ installed' = None /\ statusFile' = statusFile
    BY <1>7 DEF SwapAside
  <2>2. "swap2" \in Step /\ "swap2" \in AfterDump
    BY DEF Step, AfterDump, LockedStep, Restoring
  <2>3. helper'.step = "swap2" /\ helper'.from = helper.from
    BY <1>4, <2>1, <2>2, Going
  <2>4. HostKnown'
    <3>1. statusFile.phase \notin Terminal
      BY <1>2, AtWork
    <3>2. "swap2" \notin Unmoved \cup Restoring \cup Swapped \cup PuttingBack
      BY DEF Unmoved, Restoring, Swapped, PuttingBack
    <3> QED
      BY <1>1, <1>3, <2>1, <2>3, <3>1, <3>2 DEF HostKnown
  <2>5. PanelTellsTheTruth'
    BY <2>3 DEF PanelTellsTheTruth, At
  <2>6. None \in ReleaseOrNone
    BY DEF ReleaseOrNone
  <2> QED
    BY <1>1, <1>2, <1>4, <1>5, <2>1, <2>2, <2>4, <2>5, <2>6, BinaryStep DEF UpgradeTypeOK
<1> QED
  BY <1>6, <1>7

\* The staged binary takes its place, or the old one goes back, or nothing is installed.
LEMMA SwapInKeeps ==
  ASSUME UpgradeAssumption, UpgradeInv, NEW bad \in BOOLEAN, SwapIn(bad)
  PROVE  UpgradeInv'
<1>1. /\ Stumbling(bad) /\ helper.step = "swap2"
      /\ pg' = pg /\ dumps' = dumps /\ lapsed' = lapsed /\ request' = request /\ ran' = ran
      /\ panel' = panel /\ writer' = writer /\ cancelled' = cancelled /\ lost' = lost
  BY DEF SwapIn, At
<1>2. helper.step \in AfterDump /\ helper.step # "idle"
  BY <1>1 DEF AfterDump, LockedStep, Step, Restoring
<1>3. installed = None /\ prev = helper.from /\ (~unserved => panel.version = helper.from)
  BY <1>1 DEF UpgradeInv, HostKnown
<1>4. UpgradeTypeOK /\ lost \in SUBSET {"slipped"} /\ unserved \in BOOLEAN
  BY UpgradeFlags DEF UpgradeInv
<1>5. stumbles' \in 0..MaxStumble
  BY <1>1, <1>4, StumblingCounts DEF UpgradeTypeOK
<1>6. None \in ReleaseOrNone /\ helper.req.version \in ReleaseOrNone
  BY <1>2, AtWork DEF ReleaseOrNone
<1>7. CASE bad
  <2>1. HelperFails
    BY <1>7 DEF SwapIn
  <2>2. \/ installed' = prev /\ prev' = None /\ unserved' = unserved
        \/ unserved' = TRUE /\ installed' = installed /\ prev' = prev
    BY <1>7 DEF SwapIn
  <2>3. ~unserved' => panel'.version = installed' /\ installed' = helper.from
    BY <1>1, <1>3, <2>2
  <2>4. /\ helper' = NoHelper /\ statusFile' \in Status /\ statusFile'.phase # "none"
        /\ HostKnown' /\ PanelTellsTheTruth'
    BY <2>1, <2>3, FailsInPlace
  <2>5. unserved' \in BOOLEAN /\ installed' \in ReleaseOrNone /\ prev' \in ReleaseOrNone
    BY <1>4, <1>6, <2>2 DEF UpgradeTypeOK
  <2> QED
    BY <1>1, <1>2, <1>4, <1>5, <2>1, <2>4, <2>5, BinaryStep DEF UpgradeTypeOK
<1>8. CASE ~bad
  <2>1. /\ Goes("restart") /\ installed' = helper.req.version /\ prev' = prev
        /\ statusFile' = statusFile /\ unserved' = unserved
    BY <1>8 DEF SwapIn
  <2>2. "restart" \in Step /\ "restart" \in AfterDump
    BY DEF Step, AfterDump, LockedStep, Restoring, Swapped
  <2>3. helper'.step = "restart" /\ helper'.from = helper.from /\ helper'.req = helper.req
    BY <1>4, <2>1, <2>2, Going
  <2>4. HostKnown'
    <3>1. statusFile.phase \notin Terminal
      BY <1>2, AtWork
    <3>2. "restart" \notin Unmoved \cup Restoring \cup PuttingBack
      BY DEF Unmoved, Restoring, PuttingBack
    <3> QED
      BY <1>1, <1>3, <2>1, <2>3, <3>1, <3>2 DEF HostKnown
  <2>5. PanelTellsTheTruth'
    BY <2>3 DEF PanelTellsTheTruth, At
  <2> QED
    BY <1>1, <1>2, <1>4, <1>5, <1>6, <2>1, <2>2, <2>4, <2>5, BinaryStep DEF UpgradeTypeOK
<1> QED
  BY <1>7, <1>8

\* systemctl restart: what is installed runs, unless it failed, and that is on record.
LEMMA Rerun ==
  ASSUME UpgradeAssumption, UpgradeInv, NEW bad \in BOOLEAN, Restarted(bad),
         installed \in Releases
  PROVE  /\ panel' \in [version : Releases, up : BOOLEAN, fell : BOOLEAN]
         /\ stumbles' \in 0..MaxStumble /\ unserved' \in BOOLEAN
         /\ writer' = writer \/ writer' = "none"
         /\ ~unserved' => ~unserved /\ panel'.version = installed
<1>1. UpgradeTypeOK /\ unserved \in BOOLEAN
  BY UpgradeFlags DEF UpgradeInv
<1>2. stumbles' \in 0..MaxStumble
  BY <1>1, CommandCounts DEF UpgradeTypeOK, Restarted
<1>3. panel' = IF bad THEN [panel EXCEPT !.fell = FALSE] ELSE Booting
  BY DEF Restarted
<1>4. /\ panel' \in [version : Releases, up : BOOLEAN, fell : BOOLEAN]
      /\ ~bad => panel'.version = installed
  BY <1>1, <1>3, UpgradeTypes DEF Booting
<1>5. unserved' = (unserved \/ bad)
  BY DEF Restarted
<1>6. unserved' \in BOOLEAN /\ (~unserved' => ~unserved /\ ~bad)
  BY <1>1, <1>5
<1>7. writer' = writer \/ writer' = "none"
  BY DEF Restarted
<1> QED
  BY <1>2, <1>4, <1>6, <1>7

\* The restart after the swap, and the one after the old binary is back.
LEMMA RestartKeeps ==
  ASSUME UpgradeAssumption, UpgradeInv, NEW bad \in BOOLEAN, Restart(bad)
  PROVE  UpgradeInv'
<1>1. /\ Restarted(bad)
      /\ pg' = pg /\ dumps' = dumps /\ lapsed' = lapsed /\ request' = request
      /\ UNCHANGED hostVars /\ cancelled' = cancelled /\ lost' = lost
  BY DEF Restart
<1>2. installed' = installed /\ prev' = prev /\ ran' = ran
  BY <1>1 DEF hostVars
<1>3. \/ helper.step = "restart" /\ Goes("gate") /\ TellStatus("swapping")
      \/ helper.step = "rbRestart" /\ Goes("rbGate") /\ statusFile' = statusFile
  BY DEF Restart, At
<1>4. helper.step \in AfterDump /\ helper.step # "idle"
  BY <1>3 DEF AfterDump, LockedStep, Step, Restoring, Swapped, PuttingBack
<1>5. UpgradeTypeOK /\ lost \in SUBSET {"slipped"}
  BY UpgradeFlags DEF UpgradeInv
<1>6. installed \in Releases
  <2>1. CASE helper.step = "restart"
    BY <1>4, <2>1, AtWork DEF UpgradeInv, HostKnown, Swapped
  <2>2. CASE helper.step = "rbRestart"
    <3>1. installed # None
      BY <2>2 DEF UpgradeInv, HostKnown, PuttingBack
    <3> QED
      BY <1>5, <3>1 DEF UpgradeTypeOK, ReleaseOrNone
  <2> QED
    BY <1>3, <2>1, <2>2
<1>7. /\ panel' \in [version : Releases, up : BOOLEAN, fell : BOOLEAN]
      /\ stumbles' \in 0..MaxStumble /\ unserved' \in BOOLEAN
      /\ writer' = writer \/ writer' = "none"
      /\ ~unserved' => ~unserved /\ panel'.version = installed
  BY <1>1, <1>6, Rerun
<1>8. statusFile.phase \notin Terminal
  BY <1>4, AtWork
<1>9. CASE helper.step = "restart"
  <2>1. Goes("gate") /\ TellStatus("swapping")
    BY <1>3, <1>9
  <2>2. "gate" \in Step /\ "gate" \in AfterDump
    BY DEF Step, AfterDump, LockedStep, Restoring, Swapped
  <2>3. helper'.step = "gate" /\ helper'.from = helper.from /\ helper'.req = helper.req
    BY <1>5, <2>1, <2>2, Going
  <2>4. statusFile' \in Status /\ statusFile'.phase = "swapping"
    BY <1>5, <2>1, StatusSaid DEF TellStatus
  <2>5. installed = helper.req.version /\ prev = helper.from
    BY <1>9 DEF UpgradeInv, HostKnown, Swapped
  <2>6. HostKnown'
    <3>1. "swapping" \notin Terminal /\ "gate" \notin Unmoved \cup Restoring \cup PuttingBack
      BY DEF Terminal, Unmoved, Restoring, PuttingBack
    <3> QED
      BY <1>2, <1>7, <2>3, <2>4, <2>5, <3>1 DEF HostKnown
  <2>7. PanelTellsTheTruth'
    BY <2>3 DEF PanelTellsTheTruth, At
  <2>8. statusFile'.phase # "none"
    BY <2>4
  <2> QED
    BY <1>1, <1>2, <1>4, <1>5, <1>7, <2>1, <2>2, <2>4, <2>6, <2>7, <2>8, BinaryStep DEF UpgradeTypeOK
<1>10. CASE helper.step = "rbRestart"
  <2>1. Goes("rbGate") /\ statusFile' = statusFile
    BY <1>3, <1>10
  <2>2. "rbGate" \in Step /\ "rbGate" \in AfterDump
    BY DEF Step, AfterDump, LockedStep, Restoring, PuttingBack
  <2>3. helper'.step = "rbGate" /\ helper'.from = helper.from /\ helper'.req = helper.req
    BY <1>5, <2>1, <2>2, Going
  <2>4. installed # None /\ (~unserved => installed = helper.from)
    BY <1>10 DEF UpgradeInv, HostKnown, PuttingBack
  <2>5. HostKnown'
    <3>1. "rbGate" \notin Unmoved \cup Restoring \cup Swapped
      BY DEF Unmoved, Restoring, Swapped
    <3> QED
      BY <1>2, <1>7, <1>8, <2>1, <2>3, <2>4, <3>1 DEF HostKnown
  <2>6. PanelTellsTheTruth'
    BY <2>3 DEF PanelTellsTheTruth, At
  <2> QED
    BY <1>1, <1>2, <1>4, <1>5, <1>7, <2>1, <2>2, <2>5, <2>6, BinaryStep DEF UpgradeTypeOK
<1> QED
  BY <1>3, <1>9, <1>10

\* PruneSnapshots leaves some dumps and adds none.
LEMMA Pruned ==
  ASSUME UpgradeAssumption, UpgradeInv, NEW st, Finishes(st)
  PROVE  /\ helper' = NoHelper /\ statusFile' = st /\ dumps' \in [Ids -> Database]
         /\ \A i \in Ids : dumps'[i] = NoDump \/ dumps'[i].schema # 0
<1>1. helper' = NoHelper /\ statusFile' = st
  BY DEF Finishes
<1>2. PICK k \in 0..helper.req.id - 1 : dumps' = [i \in Ids |-> IF i <= k THEN NoDump ELSE dumps[i]]
  BY DEF Finishes
<1>3. /\ dumps \in [Ids -> Database] /\ NoDump \in Database
      /\ \A i \in Ids : dumps[i] = NoDump \/ dumps[i].schema # 0
  BY UpgradeConstants DEF UpgradeInv, UpgradeTypeOK
<1>4. \A i \in Ids : dumps'[i] = NoDump \/ dumps'[i] = dumps[i]
  BY <1>2
<1>5. dumps' \in [Ids -> Database]
  BY <1>2, <1>3
<1> QED
  BY <1>1, <1>3, <1>4, <1>5

\* The gate of the new release: what is installed is what was asked for.
LEMMA GateEndsKeeps ==
  ASSUME UpgradeAssumption, UpgradeInv, GateEnds
  PROVE  UpgradeInv'
<1>1. /\ helper.step = "gate"
      /\ pg' = pg /\ lapsed' = lapsed /\ request' = request /\ installed' = installed /\ prev' = prev
      /\ panel' = panel /\ writer' = writer /\ stumbles' = stumbles
      /\ cancelled' = cancelled /\ unserved' = unserved /\ lost' = lost
  BY DEF GateEnds, upgradeHistory, At
<1>2. helper.step \in AfterDump /\ helper.step # "idle"
  BY <1>1 DEF AfterDump, LockedStep, Step, Restoring, Swapped
<1>3. /\ installed = helper.req.version /\ prev = helper.from
      /\ ~unserved => panel.version = installed
  BY <1>1 DEF UpgradeInv, HostKnown, Swapped
<1>4. UpgradeTypeOK /\ lost \in SUBSET {"slipped"} /\ unserved \in BOOLEAN
  BY UpgradeFlags DEF UpgradeInv
<1>5. /\ helper.req.id \in Ids /\ helper.req.version \in Releases /\ "swapping" \notin Terminal
      /\ "succeeded" \in Terminal
  BY <1>2, AtWork DEF Terminal
<1>6. CASE ran' = ran \cup {helper.req.version} /\ Finishes([Said("succeeded") EXCEPT !.dump = helper.req.id])
  <2>1. PICK st : st = [Said("succeeded") EXCEPT !.dump = helper.req.id]
    OBVIOUS
  <2>2. /\ helper' = NoHelper /\ statusFile' = st /\ dumps' \in [Ids -> Database]
        /\ \A i \in Ids : dumps'[i] = NoDump \/ dumps'[i].schema # 0
    BY <1>6, <2>1, Pruned
  <2>3. st \in Status /\ st.phase = "succeeded" /\ st.version = helper.req.version
    <3>1. Said("succeeded") \in Status /\ Said("succeeded").phase = "succeeded"
          /\ Said("succeeded").version = helper.req.version
      BY <1>4, StatusSaid DEF Terminal
    <3> QED
      BY <1>5, <2>1, <3>1 DEF Status
  <2>4. HostKnown' /\ PanelTellsTheTruth'
    BY <1>1, <1>3, <2>2, <2>3, HelperEnds
  <2>5. ran' \subseteq Releases
    BY <1>4, <1>5, <1>6 DEF UpgradeTypeOK
  <2>6. statusFile'.phase # "none"
    BY <2>2, <2>3
  <2> QED
    BY <1>1, <1>2, <1>4, <2>2, <2>3, <2>4, <2>5, <2>6, BinaryStep DEF UpgradeTypeOK
<1>7. CASE Goes("rbRename") /\ TellStatus("swapping") /\ dumps' = dumps /\ ran' = ran
  <2>1. "rbRename" \in Step /\ "rbRename" \in AfterDump
    BY DEF Step, AfterDump, LockedStep, Restoring, Swapped
  <2>2. helper'.step = "rbRename" /\ helper'.from = helper.from /\ helper'.req = helper.req
    BY <1>4, <1>7, <2>1, Going
  <2>3. statusFile' \in Status /\ statusFile'.phase = "swapping"
    BY <1>4, <1>7, StatusSaid DEF TellStatus
  <2>4. HostKnown'
    <3>1. "rbRename" \notin Unmoved \cup Restoring \cup PuttingBack
      BY DEF Unmoved, Restoring, PuttingBack
    <3> QED
      BY <1>1, <1>3, <1>5, <2>2, <2>3, <3>1 DEF HostKnown
  <2>5. PanelTellsTheTruth'
    BY <2>2 DEF PanelTellsTheTruth, At
  <2>6. statusFile'.phase # "none"
    BY <2>3
  <2> QED
    BY <1>1, <1>2, <1>4, <1>7, <2>1, <2>3, <2>4, <2>5, <2>6, BinaryStep DEF UpgradeTypeOK
<1> QED
  BY <1>6, <1>7 DEF GateEnds

\* The old binary goes back; a rename that fails is on record.
LEMMA PutBackKeeps ==
  ASSUME UpgradeAssumption, UpgradeInv, NEW bad \in BOOLEAN, PutBack(bad)
  PROVE  UpgradeInv'
<1>1. /\ helper.step = "rbRename" /\ Stumbling(bad) /\ Goes("rbRestart")
      /\ pg' = pg /\ dumps' = dumps /\ lapsed' = lapsed /\ request' = request
      /\ statusFile' = statusFile /\ ran' = ran /\ panel' = panel /\ writer' = writer
      /\ cancelled' = cancelled /\ lost' = lost
  BY DEF PutBack, At
<1>2. \/ unserved' = TRUE /\ installed' = installed /\ prev' = prev
      \/ installed' = prev /\ prev' = None /\ unserved' = unserved
  BY DEF PutBack
<1>3. helper.step \in AfterDump /\ helper.step # "idle"
  BY <1>1 DEF AfterDump, LockedStep, Step, Restoring, Swapped
<1>4. installed = helper.req.version /\ prev = helper.from
  BY <1>1 DEF UpgradeInv, HostKnown, Swapped
<1>5. UpgradeTypeOK /\ lost \in SUBSET {"slipped"} /\ unserved \in BOOLEAN
  BY UpgradeFlags DEF UpgradeInv
<1>6. stumbles' \in 0..MaxStumble
  BY <1>1, <1>5, StumblingCounts DEF UpgradeTypeOK
<1>7. "rbRestart" \in Step /\ "rbRestart" \in AfterDump
  BY DEF Step, AfterDump, LockedStep, Restoring, PuttingBack
<1>8. helper'.step = "rbRestart" /\ helper'.from = helper.from /\ helper'.req = helper.req
  BY <1>1, <1>5, <1>7, Going
<1>9. installed' # None /\ (~unserved' => installed' = helper.from)
  BY <1>2, <1>3, <1>4, AtWork
<1>10. HostKnown'
  <2>1. "rbRestart" \notin Unmoved \cup Restoring \cup Swapped
    BY DEF Unmoved, Restoring, Swapped
  <2>2. statusFile.phase \notin Terminal
    BY <1>3, AtWork
  <2> QED
    BY <1>1, <1>8, <1>9, <2>1, <2>2 DEF HostKnown
<1>11. PanelTellsTheTruth'
  BY <1>8 DEF PanelTellsTheTruth, At
<1>12. installed' \in ReleaseOrNone /\ prev' \in ReleaseOrNone /\ unserved' \in BOOLEAN
  BY <1>2, <1>5 DEF UpgradeTypeOK, ReleaseOrNone
<1> QED
  BY <1>1, <1>3, <1>5, <1>6, <1>7, <1>10, <1>11, <1>12, BinaryStep DEF UpgradeTypeOK

\* What the helper says of a rollback: the host is on the release it came from.
LEMMA RolledBackSaid ==
  ASSUME UpgradeAssumption, UpgradeInv, helper.step # "idle"
  PROVE  /\ RolledBack \in Status /\ RolledBack.phase = "rolled_back" /\ RolledBack.from = helper.from
         /\ RolledBack.version = helper.from
<1>1. PICK said : said = Said("rolled_back")
  OBVIOUS
<1>2. said \in Status /\ said.phase = "rolled_back" /\ said.from = helper.from
  BY <1>1, StatusSaid DEF UpgradeInv, Terminal
<1>3. helper.from \in ReleaseOrNone /\ helper.req.id \in Ids
  BY AtWork DEF ReleaseOrNone
<1> QED
  BY <1>1, <1>2, <1>3 DEF RolledBack, Status

\* The gate of the release that was put back.
LEMMA RollbackGateEndsKeeps ==
  ASSUME UpgradeAssumption, UpgradeInv, RollbackGateEnds
  PROVE  UpgradeInv'
<1>1. /\ helper.step = "rbGate"
      /\ pg' = pg /\ lapsed' = lapsed /\ request' = request /\ UNCHANGED hostVars
      /\ panel' = panel /\ writer' = writer /\ stumbles' = stumbles
      /\ cancelled' = cancelled /\ unserved' = unserved /\ lost' = lost
  BY DEF RollbackGateEnds, upgradeHistory, At
<1>2. installed' = installed /\ prev' = prev /\ ran' = ran
  BY <1>1 DEF hostVars
<1>3. helper.step \in AfterDump /\ helper.step # "idle"
  BY <1>1 DEF AfterDump, LockedStep, Step, Restoring, PuttingBack
<1>4. installed # None /\ (~unserved => installed = helper.from /\ panel.version = installed)
  BY <1>1 DEF UpgradeInv, HostKnown, PuttingBack
<1>5. UpgradeTypeOK /\ lost \in SUBSET {"slipped"} /\ unserved \in BOOLEAN
  BY UpgradeFlags DEF UpgradeInv
<1>6. CASE Finishes(RolledBack)
  <2>1. /\ helper' = NoHelper /\ statusFile' = RolledBack /\ dumps' \in [Ids -> Database]
        /\ \A i \in Ids : dumps'[i] = NoDump \/ dumps'[i].schema # 0
    BY <1>6, Pruned
  <2>2. statusFile' \in Status /\ statusFile'.phase = "rolled_back" /\ statusFile'.from = helper.from
    BY <1>3, <2>1, RolledBackSaid
  <2>3. HostKnown' /\ PanelTellsTheTruth'
    BY <1>1, <1>2, <1>4, <2>1, <2>2, HelperEnds
  <2>4. statusFile'.phase # "none"
    BY <2>2
  <2> QED
    BY <1>1, <1>2, <1>3, <1>5, <2>1, <2>2, <2>3, <2>4, BinaryStep DEF UpgradeTypeOK
<1>7. CASE Goes("rbRestore") /\ statusFile' = statusFile /\ dumps' = dumps
  <2>1. "rbRestore" \in Step /\ "rbRestore" \in AfterDump
    BY DEF Step, AfterDump, LockedStep, Restoring, PuttingBack
  <2>2. helper'.step = "rbRestore" /\ helper'.from = helper.from /\ helper'.req = helper.req
    BY <1>5, <1>7, <2>1, Going
  <2>3. HostKnown'
    <3>1. "rbRestore" \notin Unmoved \cup Restoring \cup Swapped
      BY DEF Unmoved, Restoring, Swapped
    <3>2. statusFile.phase \notin Terminal
      BY <1>3, AtWork
    <3> QED
      BY <1>1, <1>2, <1>4, <1>7, <2>2, <3>1, <3>2 DEF HostKnown
  <2>4. PanelTellsTheTruth'
    BY <2>2 DEF PanelTellsTheTruth, At
  <2> QED
    BY <1>1, <1>2, <1>3, <1>5, <1>7, <2>1, <2>3, <2>4, BinaryStep DEF UpgradeTypeOK
<1> QED
  BY <1>6, <1>7 DEF RollbackGateEnds

\* The snapshot goes back: since it was made under a lock that still holds, nothing of the
\* users' is lost.
LEMMA RestoreDumpKeeps ==
  ASSUME UpgradeAssumption, UpgradeInv, NEW bad \in BOOLEAN, RestoreDump(bad)
  PROVE  UpgradeInv'
<1>1. /\ helper.step = "rbRestore" /\ Command(bad) /\ (dumps[helper.req.id] = NoDump => bad)
      /\ dumps' = dumps /\ lapsed' = lapsed /\ request' = request /\ UNCHANGED hostVars
      /\ panel' = panel /\ writer' = writer /\ cancelled' = cancelled /\ unserved' = unserved
  BY DEF RestoreDump, At
<1>2. installed' = installed /\ prev' = prev /\ ran' = ran
  BY <1>1 DEF hostVars
<1>3. helper.step \in AfterDump /\ helper.step \in LockedStep /\ helper.step # "idle"
  BY <1>1 DEF AfterDump, LockedStep, Step, Restoring, PuttingBack
<1>4. installed # None /\ (~unserved => installed = helper.from /\ panel.version = installed)
  BY <1>1 DEF UpgradeInv, HostKnown, PuttingBack
<1>5. UpgradeTypeOK /\ lost \in SUBSET {"slipped"} /\ unserved \in BOOLEAN
  BY UpgradeFlags DEF UpgradeInv
<1>6. stumbles' \in 0..MaxStumble
  BY <1>1, <1>5, CommandCounts DEF UpgradeTypeOK
<1>7. /\ pg \in Database /\ pg.schema # 0 /\ pg.edits \in Nat /\ dumps \in [Ids -> Database]
      /\ helper.req.id \in Ids
  BY <1>3, <1>5, AtWork, UpgradeTypes
<1>8. CASE bad
  <2>1. /\ helper' = NoHelper /\ statusFile' = [RolledBack EXCEPT !.phase = "failed"]
        /\ pg' = pg /\ lost' = lost
    BY <1>8 DEF RestoreDump
  <2>2. /\ statusFile' \in Status /\ statusFile'.phase = "failed" /\ statusFile'.from = helper.from
    BY <1>3, <2>1, RolledBackSaid DEF Status, Terminal
  <2>3. HostKnown' /\ PanelTellsTheTruth'
    BY <1>1, <1>2, <1>4, <2>1, <2>2, HelperEnds
  <2>4. statusFile'.phase # "none"
    BY <2>2
  <2> QED
    BY <1>1, <1>2, <1>3, <1>5, <1>6, <1>7, <2>1, <2>2, <2>3, <2>4, BinaryStep DEF UpgradeTypeOK
<1>9. CASE ~bad
  <2>1. Goes("rbRestart2") /\ pg' = dumps[helper.req.id] /\ statusFile' = statusFile
    BY <1>9 DEF RestoreDump
  <2>2. dumps[helper.req.id] # NoDump
    BY <1>1, <1>9
  <2>3. pg' \in Database /\ pg'.schema # 0
    BY <1>5, <1>7, <2>1, <2>2 DEF UpgradeTypeOK
  <2>4. lost' = IF cancelled \/ helper.req.queued THEN lost ELSE lost \cup Dropped(dumps[helper.req.id])
    BY <1>9 DEF RestoreDump
  <2>5. ~cancelled /\ ~helper.req.queued => pg.edits <= dumps[helper.req.id].edits
    <3>1. helper.step \notin {"idle", "verify", "snapshot", "rbRestart2"} \cup Restoring
      BY <1>1 DEF Restoring
    <3> QED
      BY <2>2, <3>1, Zenon DEF UpgradeInv, NothingSinceDump
  <2>6. ~cancelled /\ ~helper.req.queued => Dropped(dumps[helper.req.id]) \subseteq {"slipped"}
    <3>1. dumps[helper.req.id].edits \in Nat
      BY <1>7 DEF Database
    <3>2. ~cancelled /\ ~helper.req.queued => ~(pg.edits > dumps[helper.req.id].edits)
      BY <1>7, <2>5, <3>1
    <3> QED
      BY <3>2 DEF Dropped
  <2>7. lost' \in SUBSET {"slipped"}
    <3>1. CASE cancelled \/ helper.req.queued
      BY <1>5, <2>4, <3>1
    <3>2. CASE ~(cancelled \/ helper.req.queued)
      BY <1>5, <2>4, <2>6, <3>2
    <3> QED
      BY <3>1, <3>2
  <2>8. "rbRestart2" \in Step /\ "rbRestart2" \notin LockedStep
    BY DEF Step, LockedStep, PuttingBack
  <2>9. /\ helper' \in Helpers /\ helper'.step = "rbRestart2" /\ helper'.from = helper.from
        /\ helper'.req = helper.req
    BY <1>5, <2>1, <2>8, Going
  <2>10. HostKnown'
    <3>1. "rbRestart2" \notin Unmoved \cup Restoring \cup Swapped
      BY DEF Unmoved, Restoring, Swapped
    <3>2. statusFile.phase \notin Terminal
      BY <1>3, AtWork
    <3> QED
      BY <1>1, <1>2, <1>4, <2>1, <2>9, <3>1, <3>2 DEF HostKnown
  <2>11. PanelTellsTheTruth' /\ NothingSinceDump'
    BY <2>9 DEF PanelTellsTheTruth, At, NothingSinceDump
  <2>12. helper'.step \notin {"idle", "roRestore"} /\ helper'.step \notin LockedStep
    BY <2>8, <2>9
  <2>13. statusFile' \in Status
    BY <1>5, <2>1 DEF UpgradeTypeOK
  <2> QED
    BY <1>1, <1>2, <1>3, <1>5, <1>6, <1>7, <2>1, <2>3, <2>7, <2>9, <2>10, <2>11, <2>12, <2>13, HelperFrame
       DEF UpgradeTypeOK
<1> QED
  BY <1>8, <1>9

\* The snapshot an owner asked for goes back.
LEMMA RestoreOnlyKeeps ==
  ASSUME UpgradeAssumption, UpgradeInv, NEW bad \in BOOLEAN, RestoreOnly(bad)
  PROVE  UpgradeInv'
<1>1. /\ helper.step = "roRestore" /\ (dumps[helper.req.restore] = NoDump => bad)
      /\ dumps' = dumps /\ lapsed' = lapsed /\ request' = request /\ UNCHANGED hostVars
      /\ panel' = panel /\ writer' = writer /\ cancelled' = cancelled /\ unserved' = unserved /\ lost' = lost
  BY DEF RestoreOnly, At, upgradeHistory
<1>2. installed' = installed /\ prev' = prev /\ ran' = ran
  BY <1>1 DEF hostVars
<1>3. helper.step # "idle" /\ helper.step \in Unmoved \cup Restoring
  BY <1>1 DEF Restoring
<1>4. installed = helper.from /\ (~unserved => panel.version = installed)
  BY <1>1, <1>3 DEF UpgradeInv, HostKnown
<1>5. UpgradeTypeOK /\ lost \in SUBSET {"slipped"} /\ unserved \in BOOLEAN
  BY UpgradeFlags DEF UpgradeInv
<1>6. stumbles' \in 0..MaxStumble
  <2>1. PICK b \in BOOLEAN : b = (bad /\ ~helper.over /\ dumps[helper.req.restore] # NoDump)
    OBVIOUS
  <2>2. Stumbling(b)
    BY <2>1, Zenon DEF RestoreOnly
  <2> QED
    BY <1>5, <2>2, StumblingCounts DEF UpgradeTypeOK
<1>7. /\ pg \in Database /\ pg.schema # 0 /\ dumps \in [Ids -> Database]
      /\ \A i \in Ids : dumps[i] = NoDump \/ dumps[i].schema # 0
      /\ helper.req.restore \in Ids
  BY <1>1, <1>5 DEF UpgradeTypeOK, UpgradeInv, RequestsNamed
<1>8. CASE bad
  <2>1. HelperFails /\ pg' = pg
    BY <1>8 DEF RestoreOnly
  <2>2. /\ helper' = NoHelper /\ helper' \in Helpers /\ helper'.step \notin LockedStep
        /\ statusFile' \in Status /\ statusFile'.phase # "none"
        /\ NothingSinceDump' /\ HostKnown' /\ PanelTellsTheTruth'
    BY <1>1, <1>2, <1>4, <2>1, FailsInPlace
  <2> QED
    BY <1>1, <1>2, <1>3, <1>5, <1>6, <1>7, <2>1, <2>2, HelperFrame DEF UpgradeTypeOK
<1>9. CASE ~bad
  <2>1. Goes("roRestart") /\ pg' = dumps[helper.req.restore] /\ statusFile' = statusFile
    BY <1>9 DEF RestoreOnly
  <2>2. pg' \in Database /\ pg'.schema # 0
    BY <1>1, <1>7, <1>9, <2>1
  <2>3. statusFile.phase \notin Terminal /\ "roRestart" \in Unmoved \cup Restoring
    BY <1>3, AtWork DEF Restoring
  <2>4. /\ helper' \in Helpers /\ helper'.step = "roRestart"
        /\ helper'.req = helper.req /\ helper'.from = helper.from
        /\ HostKnown' /\ PanelTellsTheTruth'
    BY <1>1, <1>2, <1>3, <2>1, <2>3, GoesOnUnmoved
  <2>5. "roRestart" \notin LockedStep /\ "roRestart" \in Restoring
    BY DEF LockedStep, Restoring
  <2>6. NothingSinceDump'
    BY <2>4, <2>5 DEF NothingSinceDump
  <2>7. helper'.step \notin {"idle", "roRestore"} /\ helper'.step \notin LockedStep
    BY <2>4, <2>5
  <2>8. statusFile' \in Status
    BY <1>5, <2>1 DEF UpgradeTypeOK
  <2> QED
    BY <1>1, <1>2, <1>3, <1>5, <1>6, <1>7, <2>1, <2>2, <2>4, <2>6, <2>7, <2>8, HelperFrame DEF UpgradeTypeOK
<1> QED
  BY <1>8, <1>9

\* The last restart, on the restored database.
LEMMA RestartRestoredKeeps ==
  ASSUME UpgradeAssumption, UpgradeInv, NEW bad \in BOOLEAN, RestartRestored(bad)
  PROVE  UpgradeInv'
<1>1. /\ Restarted(bad)
      /\ pg' = pg /\ lapsed' = lapsed /\ request' = request
      /\ UNCHANGED hostVars /\ cancelled' = cancelled /\ lost' = lost
  BY DEF RestartRestored
<1>2. installed' = installed /\ prev' = prev /\ ran' = ran
  BY <1>1 DEF hostVars
<1>3. \/ helper.step = "rbRestart2" /\ Finishes(RolledBack)
      \/ helper.step = "roRestart" /\ Finishes([Said("succeeded") EXCEPT !.version = None])
  BY DEF RestartRestored, At
<1>4. helper.step # "idle"
  BY <1>3
<1>5. UpgradeTypeOK /\ lost \in SUBSET {"slipped"}
  BY UpgradeFlags DEF UpgradeInv
<1>6. installed \in Releases /\ (helper.step = "rbRestart2" /\ ~unserved => installed = helper.from)
  <2>1. CASE helper.step = "rbRestart2"
    <3>1. installed # None /\ (~unserved => installed = helper.from)
      BY <2>1 DEF UpgradeInv, HostKnown, PuttingBack
    <3> QED
      BY <1>5, <3>1 DEF UpgradeTypeOK, ReleaseOrNone
  <2>2. CASE helper.step = "roRestart"
    BY <1>4, <2>2, AtWork DEF UpgradeInv, HostKnown, Restoring
  <2> QED
    BY <1>3, <2>1, <2>2
<1>7. /\ panel' \in [version : Releases, up : BOOLEAN, fell : BOOLEAN]
      /\ stumbles' \in 0..MaxStumble /\ unserved' \in BOOLEAN
      /\ writer' = writer \/ writer' = "none"
      /\ ~unserved' => ~unserved /\ panel'.version = installed
  BY <1>1, <1>6, Rerun
<1>8. PICK st : Finishes(st) /\ \/ helper.step = "rbRestart2" /\ st = RolledBack
                                \/ helper.step = "roRestart" /\ st = [Said("succeeded") EXCEPT !.version = None]
  BY <1>3
<1>9. /\ st \in Status
      /\ \/ helper.step = "rbRestart2" /\ st.phase = "rolled_back" /\ st.from = helper.from
         \/ st.phase = "succeeded" /\ st.version = None
  <2>1. CASE st = RolledBack /\ helper.step = "rbRestart2"
    BY <1>4, <2>1, RolledBackSaid
  <2>2. CASE st = [Said("succeeded") EXCEPT !.version = None]
    <3>1. Said("succeeded") \in Status /\ Said("succeeded").phase = "succeeded"
      BY <1>5, StatusSaid DEF Terminal
    <3>2. None \in ReleaseOrNone
      BY DEF ReleaseOrNone
    <3> QED
      BY <2>2, <3>1, <3>2 DEF Status
  <2> QED
    BY <1>8, <2>1, <2>2
<1>10. /\ helper' = NoHelper /\ statusFile' = st /\ dumps' \in [Ids -> Database]
       /\ \A i \in Ids : dumps'[i] = NoDump \/ dumps'[i].schema # 0
  BY <1>8, Pruned
<1>11. /\ helper' \in Helpers /\ helper'.step \notin LockedStep
       /\ NothingSinceDump' /\ HostKnown' /\ PanelTellsTheTruth'
  BY <1>2, <1>6, <1>7, <1>9, <1>10, HelperEnds
<1>12. statusFile'.phase # "none" /\ statusFile' \in Status
  BY <1>9, <1>10
<1>13. pg' \in Database /\ pg'.schema # 0
  BY <1>1, <1>5 DEF UpgradeTypeOK
<1> QED
  BY <1>1, <1>2, <1>4, <1>5, <1>7, <1>10, <1>11, <1>12, <1>13, HelperFrame DEF UpgradeTypeOK

\* The helper runs out of time, or dies.
LEMMA HelperStopsKeeps ==
  ASSUME UpgradeAssumption, UpgradeInv, HelperTimesOut \/ HelperDies
  PROVE  UpgradeInv'
<1>1. /\ helper.step # "idle" /\ Stumble
      /\ pg' = pg /\ dumps' = dumps /\ lapsed' = lapsed /\ request' = request
      /\ statusFile' = statusFile /\ UNCHANGED hostVars /\ panel' = panel /\ writer' = writer
      /\ cancelled' = cancelled /\ lost' = lost
  BY DEF HelperTimesOut, HelperDies, At, upgradeHistory
<1>2. installed' = installed /\ prev' = prev /\ ran' = ran
  BY <1>1 DEF hostVars
<1>3. UpgradeTypeOK /\ lost \in SUBSET {"slipped"} /\ unserved \in BOOLEAN
  BY UpgradeFlags DEF UpgradeInv
<1>4. stumbles' \in 0..MaxStumble
  BY <1>1, <1>3 DEF Stumble, UpgradeTypeOK, UpgradeAssumption
<1>5. helper \in Helpers /\ statusFile.phase \notin Terminal
  BY <1>1, <1>3, AtWork, UpgradeTypes
<1>6. ASSUME HelperTimesOut
      PROVE  UpgradeInv'
  <2>1. helper' = [helper EXCEPT !.over = TRUE] /\ unserved' = unserved
    BY <1>6 DEF HelperTimesOut, upgradeHistory
  <2>2. /\ helper' \in Helpers /\ helper'.step = helper.step /\ helper'.req = helper.req
        /\ helper'.from = helper.from /\ helper'.step \in Step
    BY <1>5, <2>1 DEF Helpers
  <2>3. NothingSinceDump'
    BY <1>1, <2>2, DumpUntouched
  <2>4. HostKnown'
    BY <1>1, <1>2, <2>1, <2>2 DEF UpgradeInv, HostKnown
  <2>5. PanelTellsTheTruth'
    BY <1>1, <2>2 DEF PanelTellsTheTruth, At
  <2> QED
    BY <1>1, <1>2, <1>3, <1>4, <2>1, <2>2, <2>3, <2>4, <2>5, HelperFrame DEF UpgradeTypeOK
<1>7. ASSUME HelperDies
      PROVE  UpgradeInv'
  <2>1. helper' = NoHelper /\ unserved' = (unserved \/ panel.version # installed)
    BY <1>7 DEF HelperDies
  <2>2. unserved' \in BOOLEAN /\ (~unserved' => panel.version = installed)
    BY <1>3, <2>1
  <2>3. /\ helper' \in Helpers /\ helper'.step \notin LockedStep
        /\ NothingSinceDump' /\ HostKnown' /\ PanelTellsTheTruth'
    BY <1>1, <1>2, <1>5, <2>1, <2>2, HelperEnds
  <2> QED
    BY <1>1, <1>2, <1>3, <1>4, <2>1, <2>2, <2>3, HelperFrame DEF UpgradeTypeOK
<1> QED
  BY <1>6, <1>7

\* The helper takes the request, or refuses one whose lock has run out.
LEMMA ConsumeKeeps ==
  ASSUME UpgradeAssumption, UpgradeInv, Consume
  PROVE  UpgradeInv'
<1>1. /\ helper.step = "idle" /\ request # NoRequest /\ installed # None /\ request' = NoRequest
      /\ pg' = pg /\ dumps' = dumps /\ lapsed' = lapsed /\ installed' = installed /\ prev' = prev
      /\ panel' = panel /\ writer' = writer /\ stumbles' = stumbles
      /\ cancelled' = cancelled /\ unserved' = unserved /\ lost' = lost
  BY DEF Consume, At, upgradeHistory
<1>2. UpgradeTypeOK /\ lost \in SUBSET {"slipped"} /\ unserved \in BOOLEAN
  BY UpgradeFlags DEF UpgradeInv
<1>3. /\ request \in Request /\ request.id \in Ids /\ request.version \in Releases
      /\ request.version \in ReleaseOrNone
  BY <1>1, <1>2 DEF UpgradeInv, UpgradeTypeOK, RequestsNamed, ReleaseOrNone
<1>4. installed \in Releases /\ installed \in ReleaseOrNone
  BY <1>1, <1>2 DEF UpgradeTypeOK, ReleaseOrNone
<1>5. ~unserved => panel.version = installed
  BY <1>1 DEF UpgradeInv, HostKnown
<1>6. NoRequest \in Request /\ NoHelper \in Helpers /\ NoHelper.step = "idle"
  BY UpgradeConstants
<1>7. NothingLostByRollback'
  BY <1>1, Zenon DEF UpgradeInv, NothingLostByRollback
<1>8. PICK phase : phase = IF request.id \in lapsed THEN "failed" ELSE "preparing"
  OBVIOUS
<1>9. statusFile' = [id |-> request.id, version |-> request.version, from |-> installed,
                     phase |-> phase, dump |-> None]
  BY <1>8 DEF Consume, NoStatus
<1>10. phase \in {"preparing", "failed"} /\ phase # "none" /\ "preparing" \notin Terminal /\ "failed" \in Terminal
  BY <1>8 DEF Terminal
<1>11. /\ statusFile' \in Status /\ statusFile'.phase = phase /\ statusFile'.from = installed
  BY <1>3, <1>4, <1>9, <1>10 DEF Status
<1>12. CASE request.id \in lapsed
  <2>1. helper' = helper /\ ran' = ran
    BY <1>12 DEF Consume
  <2>2. helper' = NoHelper
    BY <1>1, <2>1 DEF UpgradeInv, RequestsNamed
  <2>3. phase = "failed"
    BY <1>8, <1>12
  <2>4. NothingSinceDump' /\ HostKnown' /\ PanelTellsTheTruth'
    BY <1>1, <1>5, <1>11, <2>2, <2>3, HelperEnds
  <2>5. UpgradeTypeOK'
    BY <1>1, <1>2, <1>6, <1>11, <2>1 DEF UpgradeTypeOK
  <2>6. RequestsNamed'
    BY <1>1, <1>6, <1>10, <1>11, <2>2 DEF RequestsNamed
  <2>7. LockHeld'
    <3>1. helper'.step \in {"idle", "rbRestart2"} \cup Restoring
      BY <1>6, <2>2
    <3> QED
      BY <1>1, <3>1, Zenon DEF LockHeld
  <2>8. LockKeepsOut'
    <3>1. ~Asked' /\ ~Working' /\ helper'.step \in Step
      BY <1>1, <1>6, <2>2 DEF Asked, Working, LockedStep, Step
    <3> QED
      BY <1>1, <3>1, NobodyComesIn, Zenon
  <2> QED
    BY <1>7, <2>4, <2>5, <2>6, <2>7, <2>8, Zenon DEF UpgradeInv
<1>13. CASE request.id \notin lapsed
  <2>1. PICK step : step = IF request.restore = None THEN "verify" ELSE "roRestore"
    OBVIOUS
  <2>2. /\ ran' = ran \cup {installed}
        /\ helper' = [step |-> step, req |-> request, from |-> installed, over |-> FALSE]
    BY <1>13, <2>1 DEF Consume
  <2>3. step \in Step /\ step \in Unmoved \cup Restoring /\ step \in {"verify", "roRestore"}
    BY <2>1 DEF Step, Unmoved, Restoring
  <2>4. /\ helper' \in Helpers /\ helper'.step = step /\ helper'.req = request /\ helper'.from = installed
        /\ helper'.step # "idle"
    BY <1>3, <1>4, <2>2, <2>3 DEF Helpers
  <2>5. UpgradeTypeOK'
    <3>1. ran' \subseteq Releases
      BY <1>2, <1>4, <2>2 DEF UpgradeTypeOK
    <3> QED
      BY <1>1, <1>2, <1>6, <1>11, <2>4, <3>1 DEF UpgradeTypeOK, Helpers
  <2>6. RequestsNamed'
    <3>1. step = "roRestore" => request.restore \in Ids
      BY <1>3, <2>1 DEF Request
    <3> QED
      BY <1>1, <1>3, <1>4, <1>10, <1>11, <2>4, <3>1 DEF RequestsNamed
  <2>7. phase = "preparing"
    BY <1>8, <1>13
  <2>8. HostKnown'
    <3>1. step \notin {"swap2"} \cup Swapped \cup PuttingBack
      BY <2>3 DEF Swapped, PuttingBack
    <3> QED
      BY <1>1, <1>5, <1>10, <1>11, <2>4, <2>7, <3>1 DEF HostKnown
  <2>9. PanelTellsTheTruth'
    BY <2>4 DEF PanelTellsTheTruth, At
  <2>10. NothingSinceDump'
    <3>1. helper'.step \in {"idle", "verify", "snapshot", "rbRestart2"} \cup Restoring
      BY <2>3, <2>4 DEF Restoring
    <3> QED
      BY <3>1, Zenon DEF NothingSinceDump
  <2>11. LockHeld'
    <3>1. CASE cancelled
      BY <1>1, <3>1, Zenon DEF LockHeld
    <3>2. CASE ~cancelled
      <4>1. ~request.queued => request.id \in Unfinished(pg.rows) \ lapsed
        BY <1>1, <1>13, <3>2, LockSays
      <4>2. (Unfinished(pg.rows))' = Unfinished(pg.rows)
        BY <1>1 DEF Unfinished
      <4> QED
        BY <1>1, <2>4, <4>1, <4>2, Zenon DEF LockHeld
    <3> QED
      BY <3>1, <3>2, Zenon
  <2>12. LockKeepsOut'
    <3>1. ~Asked' /\ helper'.step \in Step
      BY <1>1, <2>3, <2>4 DEF Asked
    <3>2. Working' => Asked
      BY <1>1, <1>13, <2>4, Zenon DEF Asked, Working
    <3> QED
      BY <1>1, <3>1, <3>2, NobodyComesIn, Zenon
  <2> QED
    BY <1>7, <2>5, <2>6, <2>8, <2>9, <2>10, <2>11, <2>12, Zenon DEF UpgradeInv
<1> QED
  BY <1>12, <1>13

\* A fresh panel.
LEMMA UpgradeStart == UpgradeAssumption /\ UpgradeInit => UpgradeInv
<1> SUFFICES ASSUME UpgradeAssumption, UpgradeInit
             PROVE  UpgradeInv
  OBVIOUS
<1>1. /\ pg = [NoDump EXCEPT !.schema = 1] /\ dumps = [i \in Ids |-> NoDump] /\ lapsed = {}
      /\ request = NoRequest /\ statusFile = NoStatus /\ installed = 1 /\ prev = None /\ ran = {}
      /\ panel = [version |-> 1, up |-> TRUE, fell |-> FALSE] /\ writer = "none"
      /\ helper = NoHelper /\ stumbles = 0
      /\ cancelled = FALSE /\ unserved = FALSE /\ lost = {}
  BY DEF UpgradeInit
<1>2. /\ NoRequest \in Request /\ NoHelper \in Helpers /\ NoHelper.step = "idle" /\ NoDump \in Database
  BY UpgradeConstants
<1>3. 1 \in Releases /\ 1 \in ReleaseOrNone /\ None \in ReleaseOrNone /\ 0 \in 0..MaxStumble
  BY DEF UpgradeAssumption, ReleaseOrNone
<1>4. pg \in Database /\ pg.schema # 0
  BY <1>1, <1>2 DEF Database
<1>5. statusFile \in Status /\ statusFile.id = None /\ statusFile.phase = "none"
  BY <1>1, <1>3 DEF NoStatus, Status
<1>6. dumps \in [Ids -> Database] /\ \A i \in Ids : dumps[i] = NoDump
  BY <1>1, <1>2
<1>7. UpgradeTypeOK
  BY <1>1, <1>2, <1>3, <1>4, <1>5, <1>6 DEF UpgradeTypeOK, Helpers
<1>8. RequestsNamed
  <2>1. None \notin Ids
    BY UpgradeConstants
  <2> QED
    BY <1>1, <1>2, <1>5, <2>1 DEF RequestsNamed
<1>9. HostKnown
  <2>1. helper.step = "idle" /\ "idle" \notin Unmoved \cup Restoring \cup Swapped \cup PuttingBack
    BY <1>1, <1>2 DEF Unmoved, Restoring, Swapped, PuttingBack
  <2> QED
    BY <1>1, <2>1 DEF HostKnown
<1>10. LockHeld /\ LockKeepsOut /\ NothingSinceDump
  <2>1. helper.step = "idle"
    BY <1>1, <1>2
  <2> QED
    BY <1>1, <2>1 DEF LockHeld, LockKeepsOut, NothingSinceDump
<1>11. PanelTellsTheTruth /\ NothingLostByRollback
  <2>1. "none" \notin Terminal
    BY DEF Terminal
  <2> QED
    BY <1>1, <1>5, <2>1 DEF PanelTellsTheTruth, NothingLostByRollback
<1> QED
  BY <1>7, <1>8, <1>9, <1>10, <1>11 DEF UpgradeInv

\* A step that changes nothing.
LEMMA UpgradeStutter ==
  ASSUME UpgradeAssumption, UpgradeInv, UNCHANGED upgradeVars
  PROVE  UpgradeInv'
<1>1. /\ pg' = pg /\ dumps' = dumps /\ lapsed' = lapsed /\ request' = request
      /\ statusFile' = statusFile /\ UNCHANGED hostVars /\ panel' = panel /\ writer' = writer /\ helper' = helper
      /\ stumbles' = stumbles /\ cancelled' = cancelled /\ unserved' = unserved /\ lost' = lost
  BY DEF upgradeVars, upgradeHistory
<1>2. UpgradeTypeOK /\ cancelled \in BOOLEAN
  BY UpgradeFlags DEF UpgradeInv
<1>3. /\ pg \in Database /\ pg.schema # 0 /\ helper.step \in Step
      /\ panel \in [version : Releases, up : BOOLEAN, fell : BOOLEAN]
  BY <1>2, UpgradeTypes
<1>4. LockHeld'
  BY <1>1, LockSays, LockUntouched
<1>5. NothingSinceDump'
  BY <1>1, <1>3, DumpUntouched
<1>6. LockKeepsOut' /\ writer' \in {"none", "checked", "slipped"}
  BY <1>1, <1>2, LockStillKeepsOut DEF UpgradeTypeOK
<1> QED
  BY <1>1, <1>2, <1>3, <1>4, <1>5, <1>6, PlaneWrites

\* Every step keeps the invariant of the upgrade.
LEMMA UpgradeStepHolds == UpgradeInv /\ [UpgradeNext]_upgradeVars => UpgradeInv'
<1> SUFFICES ASSUME UpgradeInv, [UpgradeNext]_upgradeVars
             PROVE  UpgradeInv'
  OBVIOUS
<1> USE UpgradeAssumption
<1>1. CASE UNCHANGED upgradeVars
  BY <1>1, UpgradeStutter
<1>2. CASE UserRequest \/ UncheckedRequest \/ UserWrites \/ Cancel \/ Sync \/ PanelBoots \/ PanelFalls
  BY <1>2, UserRequestKeeps, UncheckedRequestKeeps, UserWritesKeeps, CancelKeeps, SyncKeeps,
     PanelBootsKeeps, PanelFallsKeeps
<1>3. CASE Consume \/ GateEnds \/ RollbackGateEnds \/ HelperTimesOut \/ HelperDies
  BY <1>3, ConsumeKeeps, GateEndsKeeps, RollbackGateEndsKeeps, HelperStopsKeeps
<1>4. ASSUME NEW i \in Ids, Lapse(i)
      PROVE  UpgradeInv'
  BY <1>4, LapseKeeps
<1>5. ASSUME NEW bad \in BOOLEAN, HelperStep(bad)
      PROVE  UpgradeInv'
  BY <1>5, VerifyKeeps, SnapshotKeeps, MigrateKeeps, SwapAsideKeeps, SwapInKeeps, RestartKeeps,
     PutBackKeeps, RestoreDumpKeeps, RestoreOnlyKeeps, RestartRestoredKeeps DEF HelperStep
<1>6. ASSUME NEW bad \in BOOLEAN,
             \/ \E v \in Releases, rollback \in BOOLEAN : StartUpgrade(bad, v, rollback)
             \/ \E i \in Ids : RestoreSnapshot(bad, i)
      PROVE  UpgradeInv'
  BY <1>6, RequestsKeep
<1>7. ASSUME NEW bad \in BOOLEAN, NEW i \in Ids, DeleteSnapshot(bad, i)
      PROVE  UpgradeInv'
  BY <1>7, DeleteSnapshotKeeps
<1> QED
  BY <1>1, <1>2, <1>3, <1>4, <1>5, <1>6, <1>7, Zenon DEF UpgradeNext

\* Through failing calls, time-outs, deaths of helpers, restarts of the panel, locks that run
\* out and requests that write late or past the lock: where the two binaries are at each step
\* of the helper, who holds the lock and whom it keeps out, and what the dump stands for
\* (core/upgrade/helper.go, service.go; delivery/rest.go, the middleware that refuses).
THEOREM UpgradeInvariance == UpgradeSpec => []UpgradeInv
<1>1. UpgradeInit => UpgradeInv
  BY UpgradeAssumption, UpgradeStart
<1> QED
  BY <1>1, UpgradeStepHolds, PTL DEF UpgradeSpec

\* No automatic restore drops a change that the lock's check let through and that was written
\* before the lock was taken, unless the upgrade was cancelled or its request had waited:
\* whatever a restore drops was written past the lock, by a route that does not ask for it, by
\* a request whose check could not read it, or by one that was checked before it was taken
\* (delivery/rest.go:1162-1193, core/upgrade/service.go Locked).
THEOREM NothingLostByRollbackHolds == UpgradeSpec => []NothingLostByRollback
<1>1. UpgradeInv => NothingLostByRollback
  BY DEF UpgradeInv
<1> QED
  BY <1>1, UpgradeInvariance, PTL

\* A finished helper's status file names the release the host is on (helper.go: succeed,
\* rollback, fail).
THEOREM PanelTellsTheTruthHolds == UpgradeSpec => []PanelTellsTheTruth
<1>1. UpgradeInv => PanelTellsTheTruth
  BY DEF UpgradeInv
<1> QED
  BY <1>1, UpgradeInvariance, PTL

-----------------------------------------------------------------------------
(* The lock, through the restore of an automatic rollback as well.         *)

\* LockSurvivesRestore, without the cases.
LEMMA RestoreSays ==
  ASSUME LockSurvivesRestore, ~cancelled, ~helper.req.queued
  PROVE  /\ helper.step \in AfterDump =>
              \/ dumps[helper.req.id] = NoDump
              \/ helper.req.id \in Unfinished(dumps[helper.req.id].rows)
         /\ helper.step = "rbRestart2" => helper.req.id \in Unfinished(pg.rows) \ lapsed
<1>1. helper.step \in AfterDump =>
        helper.step \notin {"idle", "verify", "snapshot", "rbRestart2"} \cup Restoring
  BY DEF AfterDump, LockedStep
<1> QED
  BY <1>1, Zenon DEF LockSurvivesRestore

\* A step that leaves the dump as it was, or takes it away, and of the row of an upgrade that
\* was put back neither the phase nor the time.
LEMMA RestoreUntouched ==
  ASSUME LockSurvivesRestore, cancelled' = cancelled, helper'.step \in Step,
         ~cancelled /\ ~helper'.req.queued /\ helper'.step \in AfterDump =>
           /\ helper.step \in AfterDump /\ helper'.req = helper.req
           /\ \/ dumps'[helper.req.id] = dumps[helper.req.id]
              \/ dumps'[helper.req.id] = NoDump,
         ~cancelled /\ ~helper'.req.queued /\ helper'.step = "rbRestart2" =>
           helper'.req.id \in Unfinished(pg'.rows) \ lapsed'
  PROVE  LockSurvivesRestore'
<1>1. \A s \in Step : s \notin {"idle", "verify", "snapshot", "rbRestart2"} \cup Restoring => s \in AfterDump
  BY DEF AfterDump, LockedStep
<1>2. ASSUME ~cancelled, ~helper'.req.queued, helper'.step \in AfterDump
      PROVE  \/ dumps'[helper'.req.id] = NoDump
             \/ helper'.req.id \in Unfinished(dumps'[helper'.req.id].rows)
  <2>1. /\ helper.step \in AfterDump /\ helper'.req = helper.req
        /\ dumps'[helper.req.id] = dumps[helper.req.id] \/ dumps'[helper.req.id] = NoDump
    BY <1>2, Zenon
  <2>2. ~helper.req.queued
    BY <1>2, <2>1, Zenon
  <2>3. dumps[helper.req.id] = NoDump \/ helper.req.id \in Unfinished(dumps[helper.req.id].rows)
    BY <1>2, <2>1, <2>2, RestoreSays, Zenon
  <2> QED
    BY <2>1, <2>3, Zenon
<1>3. /\ (Unfinished(pg.rows))' = Unfinished(pg'.rows)
      /\ (Unfinished(dumps[helper.req.id].rows))' = Unfinished(dumps'[helper'.req.id].rows)
  BY DEF Unfinished
<1> QED
  BY <1>1, <1>2, <1>3, Zenon DEF LockSurvivesRestore

\* A step of the plane: the helper, and its dump unless somebody deletes it, are as they were.
LEMMA PlaneRestoreKept ==
  ASSUME UpgradeInv, LockSurvivesRestore, cancelled' = cancelled, helper' = helper, lapsed' = lapsed,
         \A i \in Ids : dumps'[i] = dumps[i] \/ dumps'[i] = NoDump,
         ~cancelled /\ ~helper.req.queued /\ helper.step = "rbRestart2" =>
           (helper.req.id \in Unfinished(pg.rows) \ lapsed => helper.req.id \in Unfinished(pg'.rows))
  PROVE  LockSurvivesRestore'
<1>1. helper.step \in Step
  BY UpgradeTypes DEF UpgradeInv
<1>2. helper.step \in AfterDump => helper.req.id \in Ids
  BY DEF UpgradeInv, RequestsNamed, AfterDump, LockedStep
<1>3. ~cancelled /\ ~helper.req.queued /\ helper.step = "rbRestart2" =>
        helper.req.id \in Unfinished(pg'.rows) \ lapsed'
  BY RestoreSays, Zenon
<1>4. helper.step \in AfterDump =>
        dumps'[helper.req.id] = dumps[helper.req.id] \/ dumps'[helper.req.id] = NoDump
  BY <1>2
<1> QED
  BY <1>1, <1>3, <1>4, RestoreUntouched, Zenon

\* A step of the helper that keeps the dumps, and goes on before the restore or ends.
LEMMA HelperRestoreKept ==
  ASSUME UpgradeAssumption, LockSurvivesRestore, cancelled' = cancelled,
         \/ helper' = NoHelper
         \/ /\ helper'.step \in Step \ (AfterDump \cup {"rbRestart2"})
         \/ /\ helper'.step \in AfterDump /\ helper.step \in AfterDump
            /\ helper'.req = helper.req /\ dumps' = dumps
  PROVE  LockSurvivesRestore'
<1>1. NoHelper.step = "idle" /\ "idle" \notin AfterDump /\ "idle" \in Step
  BY UpgradeConstants DEF AfterDump, LockedStep, Step
<1>2. AfterDump \subseteq Step /\ "rbRestart2" \notin AfterDump
  BY DEF AfterDump, LockedStep
<1>3. helper'.step \in Step /\ helper'.step # "rbRestart2"
  BY <1>1, <1>2
<1>4. helper'.step \in AfterDump =>
        helper.step \in AfterDump /\ helper'.req = helper.req /\ dumps' = dumps
  BY <1>1
<1> QED
  BY <1>3, <1>4, RestoreUntouched, Zenon

\* What mirroring the status file leaves of the row of an upgrade at work.
LEMMA MirrorSparesHelper ==
  ASSUME UpgradeAssumption, UpgradeInv, helper.step # "idle", NEW db \in Database,
         helper.req.id \in Unfinished(db.rows)
  PROVE  helper.req.id \in Unfinished(Mirrored(db, statusFile).rows)
<1>1. statusFile \in Status /\ (statusFile.id \in Ids => statusFile.phase # "none")
  BY UpgradeTypes DEF UpgradeInv, RequestsNamed
<1>2. statusFile.phase \notin Terminal
  BY AtWork
<1> QED
  BY <1>1, <1>2, MirroredRows

\* The plane: users, Sync, a boot, a request, a deletion.
LEMMA PlaneKeepsRestore ==
  ASSUME UpgradeAssumption, UpgradeInv, LockSurvivesRestore,
         \/ UserRequest \/ UncheckedRequest \/ UserWrites \/ Sync \/ PanelBoots \/ PanelFalls
         \/ \E bad \in BOOLEAN :
              \/ \E v \in Releases, rollback \in BOOLEAN : StartUpgrade(bad, v, rollback)
              \/ \E i \in Ids : RestoreSnapshot(bad, i) \/ DeleteSnapshot(bad, i)
  PROVE  LockSurvivesRestore'
<1>1. /\ pg \in Database /\ pg.rows \in Rows /\ dumps \in [Ids -> Database]
      /\ panel.version \in Releases /\ pg.schema \in Nat
  BY UpgradeTypes DEF UpgradeInv
<1>2. helper.step = "rbRestart2" => helper.step # "idle"
  OBVIOUS
<1>3. CASE UserRequest \/ UncheckedRequest \/ UserWrites
  <2>1. /\ dumps' = dumps /\ lapsed' = lapsed /\ helper' = helper /\ cancelled' = cancelled
        /\ \/ Unfinished(ExpireStale(pg.rows)) = {}
           \/ pg' = pg
           \/ pg' = [pg EXCEPT !.edits = @ + 1] \/ pg' = [pg EXCEPT !.slips = @ + 1]
    BY <1>3 DEF UserRequest, UncheckedRequest, UserWrites, upgradeHistory
  <2>2. helper.req.id \in Unfinished(pg.rows) \ lapsed => helper.req.id \in Unfinished(pg'.rows)
    <3>1. CASE Unfinished(ExpireStale(pg.rows)) = {}
      BY <1>1, <3>1, Expired
    <3>2. CASE pg' = pg \/ pg' = [pg EXCEPT !.edits = @ + 1] \/ pg' = [pg EXCEPT !.slips = @ + 1]
      BY <1>1, <3>2 DEF Database
    <3> QED
      BY <2>1, <3>1, <3>2
  <2> QED
    BY <2>1, <2>2, PlaneRestoreKept, Zenon
<1>4. CASE Sync
  <2>1. /\ pg' = Mirrored(pg, statusFile) /\ dumps' = dumps /\ lapsed' = lapsed
        /\ helper' = helper /\ cancelled' = cancelled
    BY <1>4 DEF Sync, upgradeHistory
  <2>2. helper.step = "rbRestart2" =>
          (helper.req.id \in Unfinished(pg.rows) \ lapsed => helper.req.id \in Unfinished(pg'.rows))
    BY <1>1, <1>2, <2>1, MirrorSparesHelper
  <2> QED
    BY <2>1, <2>2, PlaneRestoreKept, Zenon
<1>5. CASE PanelBoots
  <2>1. PICK migrated : migrated = [pg EXCEPT !.schema = Later(@, panel.version)]
    OBVIOUS
  <2>2. /\ pg' = RecordExternalUpgrade(Mirrored(migrated, statusFile), panel.version)
        /\ dumps' = dumps /\ lapsed' = lapsed /\ helper' = helper /\ cancelled' = cancelled
    BY <1>5, <2>1 DEF PanelBoots, upgradeHistory
  <2>3. migrated \in Database /\ migrated.rows = pg.rows
    <3>1. Later(pg.schema, panel.version) \in Nat
      BY <1>1, UpgradeConstants DEF Later
    <3>2. PICK s \in Nat : s = Later(pg.schema, panel.version)
      BY <3>1
    <3>3. migrated = [pg EXCEPT !.schema = s]
      BY <1>1, <2>1, <3>2 DEF Database
    <3> QED
      BY <1>1, <3>3 DEF Database
  <2>4. PICK mirror : mirror = Mirrored(migrated, statusFile)
    OBVIOUS
  <2>5. mirror \in Database
    <3>1. statusFile \in Status /\ (statusFile.id \in Ids => statusFile.phase # "none")
      BY UpgradeTypes DEF UpgradeInv, RequestsNamed
    <3> QED
      BY <2>3, <2>4, <3>1, MirroredRows
  <2>6. helper.step = "rbRestart2" =>
          (helper.req.id \in Unfinished(pg.rows) \ lapsed => helper.req.id \in Unfinished(pg'.rows))
    <3>1. ASSUME helper.step = "rbRestart2", helper.req.id \in Unfinished(pg.rows)
          PROVE  helper.req.id \in Unfinished(pg'.rows)
      <4>1. helper.req.id \in Unfinished(mirror.rows)
        BY <1>2, <2>3, <2>4, <3>1, MirrorSparesHelper
      <4>2. pg' = mirror
        BY <1>1, <2>2, <2>4, <2>5, <4>1, ExternalRecorded
      <4> QED
        BY <4>1, <4>2
    <3> QED
      BY <3>1
  <2> QED
    BY <2>2, <2>6, PlaneRestoreKept, Zenon
<1>6. CASE PanelFalls
  <2>1. pg' = pg /\ dumps' = dumps /\ lapsed' = lapsed /\ helper' = helper /\ cancelled' = cancelled
    BY <1>6 DEF PanelFalls, upgradeHistory
  <2> QED
    BY <2>1, PlaneRestoreKept, Zenon
<1>7. ASSUME NEW bad \in BOOLEAN,
             \/ \E v \in Releases, rollback \in BOOLEAN : StartUpgrade(bad, v, rollback)
             \/ \E i \in Ids : RestoreSnapshot(bad, i)
      PROVE  LockSurvivesRestore'
  <2>1. /\ Unfinished(ExpireStale(pg.rows)) = {} \/ Unfinished(pg.rows) = {}
        /\ dumps' = dumps /\ lapsed' = lapsed /\ helper' = helper /\ cancelled' = cancelled
    BY <1>7 DEF StartUpgrade, RestoreSnapshot, AskHelper, upgradeHistory
  <2>2. helper.req.id \notin Unfinished(pg.rows) \ lapsed
    BY <1>1, <2>1, Expired
  <2> QED
    BY <2>1, <2>2, PlaneRestoreKept, Zenon
<1>8. ASSUME NEW bad \in BOOLEAN, NEW i \in Ids, DeleteSnapshot(bad, i)
      PROVE  LockSurvivesRestore'
  <2>1. /\ dumps' = [dumps EXCEPT ![i] = NoDump] /\ pg' = IF bad THEN pg ELSE [pg EXCEPT !.listed = @ \ {i}]
        /\ lapsed' = lapsed /\ helper' = helper /\ cancelled' = cancelled
    BY <1>8 DEF DeleteSnapshot, upgradeHistory
  <2>2. pg'.rows = pg.rows
    BY <1>1, <2>1 DEF Database
  <2>3. \A j \in Ids : dumps'[j] = dumps[j] \/ dumps'[j] = NoDump
    BY <1>1, <2>1
  <2>4. helper.req.id \in Unfinished(pg.rows) \ lapsed => helper.req.id \in Unfinished(pg'.rows)
    BY <2>2
  <2> QED
    BY <2>1, <2>3, <2>4, PlaneRestoreKept, Zenon
<1> QED
  BY <1>3, <1>4, <1>5, <1>6, <1>7, <1>8

\* The helper makes its dump under the lock, and a restore brings the lock back.
LEMMA HelperKeepsRestore ==
  ASSUME UpgradeAssumption, UpgradeInv, LockSurvivesRestore, NEW bad \in BOOLEAN, HelperStep(bad)
  PROVE  LockSurvivesRestore'
<1>1. helper \in Helpers /\ UpgradeTypeOK
  BY UpgradeTypes DEF UpgradeInv
<1>2. \A s \in {"download", "migrate", "swap1", "swap2", "restart", "gate", "rbRename", "rbRestart", "rbGate", "rbRestore"} :
        s \in AfterDump /\ s \in Step
  BY DEF AfterDump, LockedStep, Step, Unmoved, Swapped, PuttingBack, Restoring
<1>3. \A s \in {"snapshot", "roRestart"} : s \in Step \ (AfterDump \cup {"rbRestart2"}) /\ s \in Step
  BY DEF AfterDump, LockedStep, Step, Unmoved, Swapped, PuttingBack, Restoring
<1>4. ASSUME NEW step \in {"migrate", "swap1", "swap2", "restart", "gate", "rbRename", "rbRestart", "rbGate", "rbRestore"},
             HelperFails \/ Goes(step), helper.step \in AfterDump, dumps' = dumps, cancelled' = cancelled
      PROVE  LockSurvivesRestore'
  <2>1. CASE HelperFails
    BY <1>4, <2>1, HelperRestoreKept DEF HelperFails
  <2>2. CASE Goes(step)
    <3>1. helper'.step \in AfterDump /\ helper'.req = helper.req
      BY <1>1, <1>2, <1>4, <2>2, Going
    <3> QED
      BY <1>4, <3>1, HelperRestoreKept
  <2> QED
    BY <1>4, <2>1, <2>2
<1>5. CASE Verify(bad)
  <2>1. cancelled' = cancelled /\ (HelperFails \/ Goes("snapshot"))
    BY <1>5 DEF Verify, upgradeHistory
  <2>2. HelperFails => helper' = NoHelper
    BY DEF HelperFails
  <2>3. Goes("snapshot") => helper'.step = "snapshot"
    BY <1>1, <1>3, Going
  <2> QED
    BY <1>3, <2>1, <2>2, <2>3, HelperRestoreKept
<1>6. CASE Snapshot(bad)
  <2>1. /\ helper.step = "snapshot" /\ cancelled' = cancelled
        /\ \/ HelperFails
           \/ Goes("download") /\ dumps' = [dumps EXCEPT ![helper.req.id] = pg]
    BY <1>6 DEF Snapshot, At, upgradeHistory
  <2>2. CASE HelperFails
    BY <2>1, <2>2, HelperRestoreKept DEF HelperFails
  <2>3. CASE Goes("download") /\ dumps' = [dumps EXCEPT ![helper.req.id] = pg]
    <3>1. helper'.step = "download" /\ helper'.req = helper.req
      BY <1>1, <1>2, <2>3, Going
    <3>2. helper.step \in LockedStep /\ helper.step # "idle"
      BY <2>1 DEF LockedStep, Step, Unmoved, Restoring
    <3>3. helper.req.id \in Ids /\ dumps \in [Ids -> Database]
      BY <1>1, <3>2, AtWork DEF UpgradeTypeOK
    <3>4. dumps'[helper'.req.id] = pg
      BY <2>3, <3>1, <3>3
    <3>5. ~cancelled /\ ~helper.req.queued => helper.req.id \in Unfinished(pg.rows)
      BY <3>2, LockSays, Zenon
    <3>6. (Unfinished(dumps[helper.req.id].rows))' = Unfinished(pg.rows)
      BY <3>4 DEF Unfinished
    <3> QED
      BY <2>1, <3>1, <3>5, <3>6, Zenon DEF LockSurvivesRestore
  <2> QED
    BY <2>1, <2>2, <2>3
<1>7. CASE Download(bad) \/ Migrate(bad)
  <2>1. /\ helper.step \in {"download", "migrate"} /\ dumps' = dumps /\ cancelled' = cancelled
        /\ HelperFails \/ Goes("migrate") \/ Goes("swap1")
    BY <1>7 DEF Download, Migrate, At, upgradeHistory
  <2> QED
    BY <1>2, <1>4, <2>1
<1>8. CASE SwapAside(bad) \/ SwapIn(bad)
  <2>1. /\ helper.step \in {"swap1", "swap2"} /\ dumps' = dumps /\ cancelled' = cancelled
        /\ HelperFails \/ Goes("swap2") \/ Goes("restart")
    BY <1>8 DEF SwapAside, SwapIn, At, upgradeHistory
  <2> QED
    BY <1>2, <1>4, <2>1
<1>9. CASE Restart(bad) \/ PutBack(bad)
  <2>1. /\ helper.step \in {"restart", "rbRestart", "rbRename"} /\ dumps' = dumps /\ cancelled' = cancelled
        /\ Goes("gate") \/ Goes("rbGate") \/ Goes("rbRestart")
    BY <1>9 DEF Restart, PutBack, At
  <2> QED
    BY <1>2, <1>4, <2>1
<1>10. CASE RestoreDump(bad)
  <2>1. /\ helper.step = "rbRestore" /\ cancelled' = cancelled /\ lapsed' = lapsed
        /\ (dumps[helper.req.id] = NoDump => bad)
        /\ \/ helper' = NoHelper
           \/ ~bad /\ Goes("rbRestart2") /\ pg' = dumps[helper.req.id]
    BY <1>10 DEF RestoreDump, At
  <2>2. CASE helper' = NoHelper
    BY <2>1, <2>2, HelperRestoreKept
  <2>3. CASE ~bad /\ Goes("rbRestart2") /\ pg' = dumps[helper.req.id]
    <3>1. "rbRestart2" \in Step
      BY DEF Step, PuttingBack
    <3>2. helper'.step = "rbRestart2" /\ helper'.req = helper.req
      BY <1>1, <2>3, <3>1, Going
    <3>3. helper.step \in AfterDump /\ helper.step \in LockedStep
      BY <1>2, <2>1 DEF AfterDump
    <3>4. ~cancelled /\ ~helper.req.queued => helper.req.id \in Unfinished(dumps[helper.req.id].rows)
      BY <2>1, <2>3, <3>3, RestoreSays, Zenon
    <3>5. ~cancelled /\ ~helper.req.queued => helper.req.id \notin lapsed
      BY <3>3, LockSays, Zenon
    <3>6. ~cancelled /\ ~helper'.req.queued => helper'.req.id \in Unfinished(pg'.rows) \ lapsed'
      BY <2>1, <2>3, <3>2, <3>4, <3>5
    <3>7. helper'.step \notin AfterDump
      BY <3>2 DEF AfterDump, LockedStep
    <3> QED
      BY <2>1, <3>1, <3>2, <3>6, <3>7, RestoreUntouched
  <2> QED
    BY <2>1, <2>2, <2>3
<1>11. CASE RestoreOnly(bad)
  <2>1. cancelled' = cancelled /\ (HelperFails \/ Goes("roRestart"))
    BY <1>11 DEF RestoreOnly, upgradeHistory
  <2>2. HelperFails => helper' = NoHelper
    BY DEF HelperFails
  <2>3. Goes("roRestart") => helper'.step = "roRestart"
    BY <1>1, <1>3, Going
  <2> QED
    BY <1>3, <2>1, <2>2, <2>3, HelperRestoreKept
<1>12. CASE RestartRestored(bad)
  <2>1. cancelled' = cancelled /\ helper' = NoHelper
    BY <1>12 DEF RestartRestored, Finishes
  <2> QED
    BY <2>1, HelperRestoreKept
<1> QED
  BY <1>5, <1>6, <1>7, <1>8, <1>9, <1>10, <1>11, <1>12 DEF HelperStep

\* The rest: a lock that runs out, the ends of the gates, a helper that starts, is late or dies.
LEMMA RestKeepsRestore ==
  ASSUME UpgradeAssumption, UpgradeInv, LockSurvivesRestore,
         \/ Cancel \/ Consume \/ GateEnds \/ RollbackGateEnds \/ HelperTimesOut \/ HelperDies
         \/ \E i \in Ids : Lapse(i)
  PROVE  LockSurvivesRestore'
<1>1. helper \in Helpers /\ UpgradeTypeOK /\ helper.step \in Step
  BY UpgradeTypes DEF UpgradeInv
<1>2. \A s \in {"gate", "rbGate", "rbRename", "rbRestore"} : s \in AfterDump /\ s \in Step
  BY DEF AfterDump, LockedStep, Step, Unmoved, Swapped, PuttingBack, Restoring
<1>3. CASE Cancel
  BY <1>3, Zenon DEF Cancel, LockSurvivesRestore
<1>4. CASE Consume
  <2>1. CASE helper' = helper
    <3>1. pg' = pg /\ dumps' = dumps /\ lapsed' = lapsed /\ cancelled' = cancelled
      BY <1>4 DEF Consume, upgradeHistory
    <3> QED
      BY <2>1, <3>1, PlaneRestoreKept, Zenon
  <2>2. CASE helper' # helper
    <3>1. /\ cancelled' = cancelled
          /\ helper' = [step |-> IF request.restore = None THEN "verify" ELSE "roRestore",
                        req |-> request, from |-> installed, over |-> FALSE]
      BY <1>4, <2>2 DEF Consume, upgradeHistory
    <3>2. helper'.step \in {"verify", "roRestore"}
      BY <3>1
    <3>3. \A s \in {"verify", "roRestore"} : s \in Step \ (AfterDump \cup {"rbRestart2"})
      BY DEF AfterDump, LockedStep, Step, Unmoved, Restoring
    <3> QED
      BY <3>1, <3>2, <3>3, HelperRestoreKept
  <2> QED
    BY <2>1, <2>2
<1>5. CASE GateEnds \/ RollbackGateEnds
  <2>1. /\ helper.step \in {"gate", "rbGate"} /\ cancelled' = cancelled
        /\ \/ helper' = NoHelper
           \/ (Goes("rbRename") \/ Goes("rbRestore")) /\ dumps' = dumps
    BY <1>5 DEF GateEnds, RollbackGateEnds, Finishes, At, upgradeHistory
  <2>2. CASE helper' = NoHelper
    BY <2>1, <2>2, HelperRestoreKept
  <2>3. CASE (Goes("rbRename") \/ Goes("rbRestore")) /\ dumps' = dumps
    <3>1. helper'.step \in AfterDump /\ helper'.req = helper.req
      BY <1>1, <1>2, <2>3, Going
    <3> QED
      BY <1>2, <2>1, <2>3, <3>1, HelperRestoreKept
  <2> QED
    BY <2>1, <2>2, <2>3
<1>6. CASE HelperTimesOut
  <2>1. /\ helper' = [helper EXCEPT !.over = TRUE] /\ pg' = pg /\ dumps' = dumps /\ lapsed' = lapsed
        /\ cancelled' = cancelled
    BY <1>6 DEF HelperTimesOut, upgradeHistory
  <2>2. helper'.step = helper.step /\ helper'.req = helper.req
    BY <1>1, <2>1 DEF Helpers
  <2>3. ~cancelled /\ ~helper'.req.queued /\ helper'.step = "rbRestart2" =>
          helper'.req.id \in Unfinished(pg'.rows) \ lapsed'
    BY <2>1, <2>2, RestoreSays, Zenon
  <2> QED
    BY <1>1, <2>1, <2>2, <2>3, RestoreUntouched, Zenon
<1>7. CASE HelperDies
  BY <1>7, HelperRestoreKept DEF HelperDies
<1>8. ASSUME NEW i \in Ids, Lapse(i)
      PROVE  LockSurvivesRestore'
  <2>1. /\ helper.req.id = i => helper.req.queued
        /\ lapsed' = lapsed \cup {i}
        /\ pg' = pg /\ dumps' = dumps /\ helper' = helper /\ cancelled' = cancelled
    BY <1>8 DEF Lapse, upgradeHistory
  <2>2. ~cancelled /\ ~helper'.req.queued /\ helper'.step = "rbRestart2" =>
          helper'.req.id \in Unfinished(pg'.rows) \ lapsed'
    <3>1. ~cancelled /\ ~helper.req.queued /\ helper.step = "rbRestart2" =>
            helper.req.id \in Unfinished(pg.rows) \ lapsed
      BY RestoreSays, Zenon
    <3>2. ~helper.req.queued => (helper.req.id \notin lapsed => helper.req.id \notin lapsed')
      BY <2>1
    <3> QED
      BY <2>1, <3>1, <3>2
  <2> QED
    BY <1>1, <2>1, <2>2, RestoreUntouched, Zenon
<1> QED
  BY <1>3, <1>4, <1>5, <1>6, <1>7, <1>8

\* Every step keeps the lock with the restore.
LEMMA LockStepHolds ==
  UpgradeInv /\ LockSurvivesRestore /\ [UpgradeNext]_upgradeVars => LockSurvivesRestore'
<1> SUFFICES ASSUME UpgradeInv, LockSurvivesRestore, [UpgradeNext]_upgradeVars
             PROVE  LockSurvivesRestore'
  OBVIOUS
<1> USE UpgradeAssumption
<1>1. CASE UNCHANGED upgradeVars
  <2>1. pg' = pg /\ dumps' = dumps /\ lapsed' = lapsed /\ helper' = helper /\ cancelled' = cancelled
    BY <1>1 DEF upgradeVars, upgradeHistory
  <2> QED
    BY <2>1, PlaneRestoreKept, Zenon
<1>2. ASSUME NEW bad \in BOOLEAN, HelperStep(bad)
      PROVE  LockSurvivesRestore'
  BY <1>2, HelperKeepsRestore
<1> QED
  BY <1>1, <1>2, PlaneKeepsRestore, RestKeepsRestore, Zenon DEF UpgradeNext

\* From its request on, an upgrade that nobody cancels, and whose request did not wait for
\* another helper, keeps the panel read-only for as long as its helper migrates, swaps, gates
\* or puts back, the restore of the database included: the two ways in which
\* LockedWhileChanged can fail are the only ones (core/upgrade/service.go Cancel, Locked;
\* store ExpireStalePanelUpgrades).
THEOREM LockedUnlessCancelled ==
  UpgradeSpec => [](~cancelled /\ ~helper.req.queued => LockedWhileChanged)
<1>1. UpgradeInit => UpgradeInv
  BY UpgradeAssumption, UpgradeStart
<1>2. UpgradeInit => LockSurvivesRestore
  <2>1. UpgradeInit => helper.step = "idle"
    BY UpgradeAssumption, UpgradeConstants DEF UpgradeInit
  <2> QED
    BY <2>1 DEF LockSurvivesRestore
<1>3. UpgradeInv /\ LockSurvivesRestore => (~cancelled /\ ~helper.req.queued => LockedWhileChanged)
  <2> SUFFICES ASSUME UpgradeInv, LockSurvivesRestore, ~cancelled, ~helper.req.queued,
                      helper.step \in {"migrate", "swap1", "swap2", "restart", "gate", "rbRename", "rbRestart", "rbGate",
                                       "rbRestore", "rbRestart2"}
               PROVE  helper.req.id \in Unfinished(pg.rows)
    BY DEF LockedWhileChanged
  <2>1. helper.step = "rbRestart2" \/ helper.step \in LockedStep
    BY DEF LockedStep, Step, Unmoved, Swapped, PuttingBack, Restoring
  <2>2. helper.step = "rbRestart2" => helper.req.id \in Unfinished(pg.rows) \ lapsed
    BY RestoreSays, Zenon
  <2>3. helper.step \in LockedStep => helper.req.id \in Unfinished(pg.rows) \ lapsed
    BY LockSays, Zenon
  <2> QED
    BY <2>1, <2>2, <2>3
<1> QED
  BY <1>1, <1>2, <1>3, UpgradeStepHolds, LockStepHolds, PTL DEF UpgradeSpec

-----------------------------------------------------------------------------
(* Backups and restores.                                                   *)

\* The parts of the backups' types.
LEMMA BackupTypes ==
  ASSUME BackupsTypeOK
  PROVE  /\ \A r \in Record : /\ r \in Nat /\ r > 0
                              /\ record[r] \in [status : {"none", "running", "succeeded", "failed", "deleted"},
                                                sched : Schedules, second : 0..MaxRecord, named : BOOLEAN]
                              /\ record[r].sched \in Schedules /\ record[r].second \in Nat
                              /\ record[r].second \in 0..MaxRecord
                              /\ record[r].named \in BOOLEAN
         /\ DOMAIN record = Record /\ DOMAIN restore = Restore
         /\ Pending \subseteq Item
<1> USE BackupsAssumption
<1>1. ASSUME NEW r \in Record
      PROVE  /\ r \in Nat /\ r > 0
             /\ record[r] \in [status : {"none", "running", "succeeded", "failed", "deleted"},
                               sched : Schedules, second : 0..MaxRecord, named : BOOLEAN]
             /\ record[r].sched \in Schedules /\ record[r].second \in Nat
             /\ record[r].second \in 0..MaxRecord
             /\ record[r].named \in BOOLEAN
  <2>1. record[r] \in [status : {"none", "running", "succeeded", "failed", "deleted"},
                       sched : Schedules, second : 0..MaxRecord, named : BOOLEAN]
    BY Zenon DEF BackupsTypeOK
  <2>2. record[r].sched \in Schedules /\ record[r].second \in 0..MaxRecord
    BY <2>1
  <2>3. record[r].named \in BOOLEAN
    BY <2>1, Zenon
  <2> QED
    BY <2>1, <2>2, <2>3 DEF Record
<1>2. DOMAIN record = Record /\ DOMAIN restore = Restore
  BY DEF BackupsTypeOK
<1>3. Pending \subseteq Item
  <2>1. backupWork \in Seq(Item) /\ unacked \subseteq Item
    BY DEF BackupsTypeOK
  <2>2. \A i \in DOMAIN backupWork : backupWork[i] \in Item
    BY <2>1
  <2> QED
    BY <2>1, <2>2, Zenon DEF Pending
<1> QED
  BY <1>1, <1>2, <1>3, Zenon

\* What kind an item or an event is of, and what it carries.
LEMMA ItemFields ==
  ASSUME NEW item \in Item
  PROVE  /\ item.kind \in {"backup", "restore", "prune"}
         /\ item.kind = "backup" => item.id \in Record
         /\ item.kind = "restore" => item.id \in Restore
         /\ item.kind = "prune" => item.keys \subseteq ObjectKey
<1>1. CASE item \in [kind : {"backup"}, id : Record, keys : {{}}]
  BY <1>1
<1>2. CASE item \in [kind : {"restore"}, id : Restore, keys : {{k} : k \in ObjectKey}]
  BY <1>2
<1>3. CASE item \in [kind : {"prune"}, id : {0}, keys : SUBSET ObjectKey]
  BY <1>3
<1> QED
  BY <1>1, <1>2, <1>3 DEF Item

LEMMA EventFields ==
  ASSUME NEW e \in Event
  PROVE  /\ e.kind \in {"backup", "restore", "prune"} /\ e.twice \in BOOLEAN
         /\ e.kind = "backup" => e.id \in Record /\ e.outcome \in {"succeeded", "failed"}
         /\ e.kind = "restore" => e.id \in Restore /\ e.outcome \in {"applying", "succeeded", "failed"}
         /\ e.kind = "prune" => e.keys \subseteq ObjectKey
         /\ [e EXCEPT !.twice = FALSE] \in Event
         /\ [e EXCEPT !.twice = TRUE] \in Event
         /\ \A b \in BOOLEAN : /\ [e EXCEPT !.twice = b].kind = e.kind
                               /\ [e EXCEPT !.twice = b].id = e.id
                               /\ [e EXCEPT !.twice = b].outcome = e.outcome
                               /\ [e EXCEPT !.twice = b].keys = e.keys
<1>a. CASE e \in [kind : {"backup"}, id : Record, outcome : {"succeeded", "failed"}, keys : {{}}, twice : BOOLEAN]
  <2>1. e.twice \in BOOLEAN
    BY <1>a, Zenon
  <2>2. e.kind = "backup" /\ e.id \in Record /\ e.outcome \in {"succeeded", "failed"}
    BY <1>a
  <2>3. ASSUME NEW b \in BOOLEAN
        PROVE  [e EXCEPT !.twice = b] \in [kind : {"backup"}, id : Record, outcome : {"succeeded", "failed"},
                                           keys : {{}}, twice : BOOLEAN]
    BY <1>a
  <2> QED
    BY <1>a, <2>1, <2>2, <2>3 DEF Event
<1>b. CASE e \in [kind : {"restore"}, id : Restore, outcome : {"applying", "succeeded", "failed"},
                  keys : {{}}, twice : BOOLEAN]
  <2>1. e.twice \in BOOLEAN
    BY <1>b, Zenon
  <2>2. e.kind = "restore" /\ e.id \in Restore /\ e.outcome \in {"applying", "succeeded", "failed"}
    BY <1>b
  <2>3. ASSUME NEW b \in BOOLEAN
        PROVE  [e EXCEPT !.twice = b] \in [kind : {"restore"}, id : Restore,
                                           outcome : {"applying", "succeeded", "failed"},
                                           keys : {{}}, twice : BOOLEAN]
    BY <1>b
  <2> QED
    BY <1>b, <2>1, <2>2, <2>3 DEF Event
<1>c. CASE e \in [kind : {"prune"}, id : {0}, outcome : {"done"}, keys : SUBSET ObjectKey, twice : BOOLEAN]
  <2>1. e.twice \in BOOLEAN
    BY <1>c, Zenon
  <2>2. e.kind = "prune" /\ e.keys \subseteq ObjectKey
    BY <1>c
  <2>3. ASSUME NEW b \in BOOLEAN
        PROVE  [e EXCEPT !.twice = b] \in [kind : {"prune"}, id : {0}, outcome : {"done"},
                                           keys : SUBSET ObjectKey, twice : BOOLEAN]
    BY <1>c
  <2> QED
    BY <1>c, <2>1, <2>2, <2>3 DEF Event
<1> QED
  BY <1>a, <1>b, <1>c, Zenon DEF Event

\* Publishing adds the item, or nothing.
LEMMA WorkPublished ==
  ASSUME BackupsTypeOK, NEW item \in Item, PublishWork(item), UNCHANGED unacked
  PROVE  backupWork' \in Seq(Item) /\ Pending' \subseteq Pending \cup {item}
<1>1. backupWork \in Seq(Item)
  BY DEF BackupsTypeOK
<1>2. CASE backupWork' = Append(backupWork, item)
  <2>1. backupWork' \in Seq(Item)
    BY <1>1, <1>2
  <2>2. ASSUME NEW i \in DOMAIN backupWork'
        PROVE  backupWork'[i] = item \/ \E j \in DOMAIN backupWork : backupWork'[i] = backupWork[j]
    <3>1. i \in 1..Len(backupWork) + 1
      BY <1>1, <1>2
    <3>2. CASE i = Len(backupWork) + 1
      BY <1>1, <1>2, <3>2
    <3>3. CASE i \in 1..Len(backupWork)
      BY <1>1, <1>2, <3>3
    <3> QED
      BY <1>1, <3>1, <3>2, <3>3
  <2> QED
    BY <2>1, <2>2, Zenon DEF Pending
<1>3. CASE UNCHANGED backupWork
  BY <1>1, <1>3 DEF Pending
<1> QED
  BY <1>2, <1>3 DEF PublishWork

\* Delivery takes an item from the front of the stream or from the unacknowledged ones.
LEMMA WorkTaken ==
  ASSUME BackupsTypeOK, NEW item, NEW keep \in BOOLEAN,
         \/ /\ backupWork # <<>> /\ item = Head(backupWork)
            /\ backupWork' = Tail(backupWork)
         \/ item \in unacked /\ UNCHANGED backupWork,
         unacked' = IF keep THEN unacked \cup {item} ELSE unacked \ {item}
  PROVE  /\ item \in Pending /\ Pending' \subseteq Pending
         /\ backupWork' \in Seq(Item) /\ unacked' \subseteq Item
<1>1. backupWork \in Seq(Item) /\ unacked \subseteq Item
  BY DEF BackupsTypeOK
<1>2. Pending \subseteq Item
  BY BackupTypes
<1>3. item \in Pending /\ backupWork' \in Seq(Item)
      /\ \A i \in DOMAIN backupWork' : \E j \in DOMAIN backupWork : backupWork'[i] = backupWork[j]
  <2>1. CASE backupWork # <<>> /\ item = Head(backupWork) /\ backupWork' = Tail(backupWork)
    <3>1. 1 \in DOMAIN backupWork /\ item = backupWork[1]
      BY <1>1, <2>1
    <3>2. backupWork' \in Seq(Item) /\ Len(backupWork') = Len(backupWork) - 1
      BY <1>1, <2>1
    <3>3. ASSUME NEW i \in DOMAIN backupWork'
          PROVE  i + 1 \in DOMAIN backupWork /\ backupWork'[i] = backupWork[i + 1]
      <4>1. i \in 1..Len(backupWork) - 1 /\ Len(backupWork) \in Nat
        BY <1>1, <3>2
      <4>2. i + 1 \in 1..Len(backupWork)
        BY <4>1
      <4> QED
        BY <1>1, <2>1, <4>1, <4>2
    <3> QED
      BY <3>1, <3>2, <3>3, Zenon DEF Pending
  <2>2. CASE item \in unacked /\ UNCHANGED backupWork
    BY <1>1, <2>2, Zenon DEF Pending
  <2> QED
    BY <2>1, <2>2
<1>4. unacked' \subseteq unacked \cup {item}
  OBVIOUS
<1>5. Pending' \subseteq Pending
  BY <1>3, <1>4, Zenon DEF Pending
<1> QED
  BY <1>1, <1>2, <1>3, <1>4, <1>5

\* The newer runs of a schedule that have an object are finitely many.
LEMMA NewerFinite ==
  ASSUME NEW S \in SUBSET Record
  PROVE  IsFiniteSet(S) /\ Cardinality(S) \in Nat
<1>1. IsFiniteSet(Record)
  BY FS_Interval, BackupsAssumption DEF Record
<1> QED
  BY <1>1, FS_Subset, FS_CardinalityType

LEMMA MoreIsMore ==
  ASSUME NEW S \in SUBSET Record, NEW T \in SUBSET Record, S \subseteq T,
         NEW k \in Nat, Cardinality(S) >= k
  PROVE  Cardinality(T) >= k
<1>1. IsFiniteSet(T) /\ Cardinality(T) \in Nat /\ Cardinality(S) \in Nat
  BY NewerFinite
<1>2. Cardinality(S) <= Cardinality(T)
  BY <1>1, FS_Subset
<1> QED
  BY <1>1, <1>2

LEMMA KeepNat == ASSUME NEW s PROVE Keep(s) \in Nat
BY BackupsAssumption DEF Keep

\* Whoever has more newer objects than before is still superseded.
LEMMA StaysSuperseded ==
  ASSUME NEW r \in Record, record'[r].sched = record[r].sched, Newer(r) \subseteq Newer(r)',
         Superseded(r)
  PROVE  Superseded(r)'
<1>1. Newer(r) \in SUBSET Record /\ Newer(r)' \in SUBSET Record
  BY DEF Newer
<1>2. Cardinality(Newer(r)) >= Keep(record[r].sched) /\ Keep(record[r].sched) \in Nat
  BY KeepNat DEF Superseded
<1>3. Cardinality(Newer(r)') >= Keep(record[r].sched)
  BY <1>1, <1>2, MoreIsMore
<1> QED
  BY <1>3 DEF Superseded

\* A run is superseded by as many objects as a newer run of its schedule is.
LEMMA SupersededToo ==
  ASSUME BackupsTypeOK, NEW r \in Record, NEW q \in Record, q > r, record[q].sched = record[r].sched,
         Superseded(q)
  PROVE  Superseded(r)
<1>1. Newer(r) \in SUBSET Record /\ Newer(q) \in SUBSET Record
  BY DEF Newer
<1>2. Newer(q) \subseteq Newer(r)
  BY DEF Newer, Record
<1>3. Cardinality(Newer(q)) >= Keep(record[r].sched) /\ Keep(record[r].sched) \in Nat
  BY KeepNat DEF Superseded
<1> QED
  BY <1>1, <1>2, <1>3, MoreIsMore DEF Superseded

\* Runs have keys of their own.
LEMMA KeysDiffer ==
  ASSUME BackupsTypeOK, RecordsInOrder, ~SameSecond, NEW q \in Runs, NEW r \in Runs, Key(q) = Key(r)
  PROVE  q = r
<1>1. q \in Record /\ r \in Record
  BY DEF Runs
<1>2. record[q].second = q /\ record[r].second = r
  BY <1>1 DEF RecordsInOrder
<1>3. Key(q)[2] = record[q].second /\ Key(r)[2] = record[r].second
  BY DEF Key, objectKey
<1> QED
  BY <1>2, <1>3

\* Taking objects that are superseded leaves every superseded run superseded: the newest
\* of what is taken keeps its own newer ones.
LEMMA PruneKeeps ==
  ASSUME BackupsTypeOK, RecordsInOrder, ~SameSecond, UNCHANGED record,
         \A k \in bucket : \E q \in Runs : Key(q) = k,
         NEW gone, OnlySuperseded(gone), bucket' = bucket \ gone,
         NEW r \in Record, Superseded(r)
  PROVE  Superseded(r)'
<1> DEFINE s == record[r].sched
           lost_ == {q \in Newer(r) : Key(q) \in gone}
<1>1. \A q \in Record : q \in Nat /\ Key(q)' = Key(q)
  BY DEF Record, Key
<1>2. CASE lost_ = {}
  <2>1. Newer(r) \subseteq Newer(r)'
    BY <1>1, <1>2 DEF Newer
  <2> QED
    BY <2>1, StaysSuperseded
<1>3. CASE lost_ # {}
  <2>1. lost_ \in SUBSET Nat /\ \A q \in lost_ : q <= MaxRecord
    BY DEF Newer, Record
  <2>2. MaxRecord \in Nat
    BY BackupsAssumption
  <2> HIDE DEF lost_
  <2>3. PICK g \in lost_ : \A q \in lost_ : q <= g
    BY <1>3, <2>1, <2>2, GreatestOf
  <2>4. g \in Record /\ g > r /\ record[g].sched = s /\ Key(g) \in bucket /\ Key(g) \in gone
    BY <2>3 DEF lost_, Newer
  <2>5. PICK q0 \in Runs : Key(q0) = Key(g) /\ Superseded(q0)
    BY <2>4 DEF OnlySuperseded
  <2>6. g \in Runs
    <3>1. q0 \in Record /\ record[q0].second > 0
      BY DEF RecordsInOrder, Runs
    <3>2. record[g].second = record[q0].second
      BY <2>5 DEF Key, objectKey
    <3>3. g \notin Runs => record[g] = NoRecord
      BY <2>4 DEF RecordsInOrder
    <3> QED
      BY <3>1, <3>2, <3>3 DEF NoRecord
  <2>7. Superseded(g)
    BY <2>5, <2>6, KeysDiffer
  <2>8. Newer(g) \subseteq Newer(r)'
    <3> SUFFICES ASSUME NEW q \in Newer(g)
                 PROVE  q \in Newer(r)'
      OBVIOUS
    <3>1. q \in Record /\ q > g /\ record[q].sched = s /\ Key(q) \in bucket
      BY <2>4 DEF Newer
    <3>2. q \in Nat /\ g \in Nat /\ r \in Nat /\ q > r
      BY <1>1, <2>4, <3>1
    <3>3. q \notin lost_
      BY <2>3, <3>1, <3>2
    <3>4. Key(q) \notin gone
      BY <3>1, <3>2, <3>3 DEF lost_, Newer
    <3> QED
      BY <1>1, <3>1, <3>2, <3>4 DEF Newer
  <2>9. Newer(g) \in SUBSET Record /\ Newer(r)' \in SUBSET Record
    BY DEF Newer
  <2>10. Cardinality(Newer(g)) >= Keep(s) /\ Keep(s) \in Nat
    BY <2>4, <2>7, KeepNat DEF Superseded
  <2>11. Cardinality(Newer(r)') >= Keep(s)
    BY <2>8, <2>9, <2>10, MoreIsMore
  <2> QED
    BY <2>11 DEF Superseded
<1> QED
  BY <1>2, <1>3

\* Retention asks for the objects of superseded runs only.
LEMMA BeyondIsSuperseded ==
  ASSUME BackupsTypeOK, NEW rec, \A q \in Record : rec[q].sched = record[q].sched,
         NEW s \in Schedules,
         \A q \in Record : /\ rec[q].sched = s /\ rec[q].status = "succeeded" /\ rec[q].named
                           => Key(q) \in bucket \/ Superseded(q),
         NEW r \in BeyondRetention(rec, s)
  PROVE  r \in Record /\ rec[r].sched = s /\ rec[r].status = "succeeded" /\ Superseded(r)
<1>1. PICK kept : kept = {q \in Record : rec[q].sched = s /\ rec[q].status = "succeeded" /\ rec[q].named}
  OBVIOUS
<1>2. r \in kept /\ Cardinality({q \in kept : q > r}) >= Keep(s)
  BY <1>1, Zenon DEF BeyondRetention
<1>3. r \in Record /\ rec[r].sched = s /\ record[r].sched = s /\ rec[r].status = "succeeded"
  BY <1>1, <1>2
<1>4. CASE \E q \in kept : q > r /\ Superseded(q)
  <2>1. PICK q \in kept : q > r /\ Superseded(q)
    BY <1>4
  <2>2. q \in Record /\ record[q].sched = record[r].sched
    BY <1>1, <1>3, <2>1
  <2> QED
    BY <1>3, <2>1, <2>2, SupersededToo
<1>5. CASE \A q \in kept : q > r => Key(q) \in bucket
  <2>1. {q \in kept : q > r} \subseteq Newer(r)
    BY <1>1, <1>3, <1>5 DEF Newer
  <2>2. {q \in kept : q > r} \in SUBSET Record /\ Newer(r) \in SUBSET Record /\ Keep(s) \in Nat
    BY <1>1, KeepNat DEF Newer
  <2>3. Cardinality(Newer(r)) >= Keep(s)
    BY <1>2, <2>1, <2>2, MoreIsMore
  <2> QED
    BY <1>3, <2>3 DEF Superseded
<1>6. \A q \in kept : Key(q) \in bucket \/ Superseded(q)
  BY <1>1
<1> QED
  BY <1>4, <1>5, <1>6

\* What is true of the records and of the objects when only work, reports and restores change.
LEMMA ObjectsFramed ==
  ASSUME UNCHANGED <<record, bucket>>
  PROVE  /\ Runs' = Runs /\ \A r : Key(r)' = Key(r)
         /\ \A r : Superseded(r)' <=> Superseded(r)
         /\ NewestSurvive => NewestSurvive'
         /\ \A keys : OnlySuperseded(keys) => OnlySuperseded(keys)'
<1>1. Runs' = Runs /\ \A r : Key(r)' = Key(r)
  BY DEF Runs, Key
<1>2. \A r : Newer(r)' = Newer(r)
  BY <1>1 DEF Newer
<1>3. \A r : Superseded(r)' <=> Superseded(r)
  BY <1>2 DEF Superseded
<1>4. NewestSurvive => NewestSurvive'
  BY <1>1, <1>3 DEF NewestSurvive
<1>5. \A keys : OnlySuperseded(keys) => OnlySuperseded(keys)'
  BY <1>1, <1>3 DEF OnlySuperseded
<1> QED
  BY <1>1, <1>3, <1>4, <1>5

\* A run gets the next row, and a second of its own.
LEMMA RunRow ==
  ASSUME BackupsTypeOK, RecordsInOrder, NEW s \in Schedules, RunBackup(s)
  PROVE  \E r \in Record, second \in 1..MaxRecord :
           /\ r \notin Runs /\ second <= r /\ (~SameSecond => second = r)
           /\ record' = [record EXCEPT ![r] =
                [status |-> "running", sched |-> s, second |-> second, named |-> FALSE]]
           /\ PublishWork(WorkItem("backup", r, {}))
           /\ Runs' = Runs \cup {r} /\ \E n \in 0..MaxRecord : Runs' = 1..n
<1> USE BackupsAssumption
<1>1. PICK n \in 0..MaxRecord : Runs = 1..n
  BY DEF RecordsInOrder
<1>2. Cardinality(Runs) = n
  BY <1>1, FS_Interval
<1>3. PICK r : r = n + 1
  OBVIOUS
<1>4. r \in Record /\ n \in Nat /\ r \in Nat /\ PublishWork(WorkItem("backup", r, {}))
  BY <1>1, <1>2, <1>3 DEF RunBackup
<1>5. PICK last : last = IF Runs = {} THEN NoRecord ELSE record[n]
  OBVIOUS
<1>6. last.second \in Nat /\ last.second <= n /\ (~SameSecond => last.second = n)
  <2>1. CASE Runs = {}
    <3>1. n = 0
      BY <1>1, <2>1
    <3> QED
      BY <1>5, <2>1, <3>1 DEF NoRecord
  <2>2. CASE Runs # {}
    <3>1. n \in Runs /\ n \in Record /\ last = record[n]
      BY <1>1, <1>5, <2>2 DEF Runs
    <3>2. record[n].second \in Nat
      BY <3>1, BackupTypes
    <3> QED
      BY <3>1, <3>2 DEF RecordsInOrder
  <2> QED
    BY <2>1, <2>2
<1>7. PICK second \in last.second .. last.second + 1 :
        /\ second = last.second => SameSecond /\ Runs # {}
        /\ record' = [record EXCEPT ![r] =
             [status |-> "running", sched |-> s, second |-> second, named |-> FALSE]]
  <2>1. n = r - 1 /\ Cardinality(Runs) + 1 = r
    BY <1>2, <1>3, <1>4
  <2> QED
    BY <1>5, <2>1 DEF RunBackup
<1>8. second \in Nat /\ second <= r /\ (~SameSecond => second = r) /\ second > 0
  <2>1. CASE second = last.second
    <3>1. n \in Runs /\ n \in Record /\ last = record[n]
      BY <1>1, <1>5, <1>7, <2>1 DEF Runs
    <3>2. record[n].second > 0
      BY <3>1 DEF RecordsInOrder
    <3> QED
      BY <1>3, <1>4, <1>6, <1>7, <2>1, <3>1, <3>2
  <2>2. CASE second = last.second + 1
    BY <1>3, <1>4, <1>6, <2>2
  <2> QED
    BY <1>6, <1>7, <2>1, <2>2
<1>9. r \notin Runs
  BY <1>1, <1>3, <1>4
<1>10. Runs' = Runs \cup {r}
  <2>1. \A q \in Record : record'[q].status # "none" <=> record[q].status # "none" \/ q = r
    BY <1>4, <1>7, BackupTypes
  <2> QED
    BY <1>4, <2>1 DEF Runs
<1>11. Runs' = 1..r /\ r \in 0..MaxRecord
  BY <1>1, <1>3, <1>4, <1>10 DEF Record
<1>12. second \in 1..MaxRecord
  BY <1>4, <1>8 DEF Record
<1> QED
  BY <1>4, <1>7, <1>8, <1>9, <1>10, <1>11, <1>12

\* A new run has no object yet, and takes none from the others.
LEMMA RunBackupKeeps ==
  ASSUME BackupsInv, NEW s \in Schedules, RunBackup(s)
  PROVE  BackupsInv'
<1> USE BackupsAssumption
<1>a. BackupsTypeOK /\ RecordsInOrder /\ RestoresInOrder
  BY DEF BackupsInv
<1>u. UNCHANGED <<restore, dbStatus, bucket, unacked, reports>>
  BY Zenon DEF RunBackup
<1>1. PICK r \in Record, second \in 1..MaxRecord :
           /\ r \notin Runs /\ second <= r /\ (~SameSecond => second = r)
           /\ record' = [record EXCEPT ![r] =
                [status |-> "running", sched |-> s, second |-> second, named |-> FALSE]]
           /\ PublishWork(WorkItem("backup", r, {}))
           /\ Runs' = Runs \cup {r} /\ \E n \in 0..MaxRecord : Runs' = 1..n
  BY <1>a, RunRow
<1>i. WorkItem("backup", r, {}) \in Item
  BY DEF WorkItem, Item
<1>2. backupWork' \in Seq(Item) /\ Pending' \subseteq Pending \cup {WorkItem("backup", r, {})}
  BY <1>a, <1>u, <1>1, <1>i, WorkPublished
<1>3. record'[r] = [status |-> "running", sched |-> s, second |-> second, named |-> FALSE]
      /\ \A q \in Record : q # r => record'[q] = record[q]
  BY <1>a, <1>1, BackupTypes
<1>4. BackupsTypeOK'
  <2>1. [status |-> "running", sched |-> s, second |-> second, named |-> FALSE]
          \in [status : {"none", "running", "succeeded", "failed", "deleted"},
               sched : Schedules, second : 0..MaxRecord, named : BOOLEAN]
    OBVIOUS
  <2>2. record' \in [Record -> [status : {"none", "running", "succeeded", "failed", "deleted"},
                                sched : Schedules, second : 0..MaxRecord, named : BOOLEAN]]
    BY <1>a, <1>1, <2>1 DEF BackupsTypeOK
  <2> QED
    BY <1>a, <1>u, <1>2, <2>2 DEF BackupsTypeOK
<1>5. RecordsInOrder'
  <2>1. ASSUME NEW q \in Record
        PROVE  /\ record'[q].second <= q
               /\ q \notin Runs' => record'[q] = NoRecord
               /\ q \in Runs' => record'[q].second > 0
               /\ ~SameSecond /\ q \in Runs' => record'[q].second = q
               /\ record'[q].named => record'[q].status = "succeeded"
    <3>1. CASE q = r
      BY <1>1, <1>3, <3>1
    <3>2. CASE q # r
      <4>1. q \in Runs' <=> q \in Runs
        BY <1>1, <3>2
      <4> QED
        BY <1>a, <1>3, <3>2, <4>1, Zenon DEF RecordsInOrder
    <3> QED
      BY <3>1, <3>2
  <2>2. \A item \in Pending' : item.kind = "backup" => item.id \in Runs'
    BY <1>a, <1>1, <1>2 DEF RecordsInOrder, WorkItem
  <2>3. \A e \in reports' : e.kind = "backup" => e.id \in Runs'
    BY <1>a, <1>u, <1>1 DEF RecordsInOrder
  <2> QED
    BY <1>1, <2>1, <2>2, <2>3, Zenon DEF RecordsInOrder
<1>6. RestoresInOrder'
  BY <1>a, <1>u DEF RestoresInOrder
<1>7. ASSUME ~SameSecond
      PROVE  ObjectsAccounted' /\ NewestSurvive'
  <2>a. ObjectsAccounted /\ NewestSurvive
    BY <1>7 DEF BackupsInv
  <2>1. \A q \in Runs : q \in Record /\ q # r /\ record'[q] = record[q] /\ Key(q)' = Key(q)
    BY <1>1, <1>3 DEF Runs, Key
  <2>2. ASSUME NEW q \in Runs
        PROVE  Newer(q) \subseteq Newer(q)'
    <3> SUFFICES ASSUME NEW p \in Newer(q)
                 PROVE  p \in Newer(q)'
      OBVIOUS
    <3>1. p \in Record /\ p > q /\ record[p].sched = record[q].sched /\ Key(p) \in bucket
      BY DEF Newer
    <3>2. PICK o \in Runs : Key(o) = Key(p)
      BY <2>a, <3>1 DEF ObjectsAccounted
    <3>3. record[o].second > 0 /\ record[p].second = record[o].second
      BY <1>a, <2>1, <3>2 DEF RecordsInOrder, Key, objectKey
    <3>4. p \in Runs
      <4>1. NoRecord.second = 0
        BY DEF NoRecord
      <4>2. p \notin Runs => record[p].second = 0
        BY <1>a, <3>1, <4>1 DEF RecordsInOrder
      <4> QED
        BY <3>3, <4>2
    <3> QED
      BY <1>u, <2>1, <3>1, <3>4 DEF Newer
  <2>3. \A q \in Runs : Superseded(q) => Superseded(q)'
    BY <2>1, <2>2, StaysSuperseded
  <2>4. \A keys : OnlySuperseded(keys) => OnlySuperseded(keys)'
    BY <1>1, <2>1, <2>3 DEF OnlySuperseded
  <2>5. NewestSurvive'
    <3> SUFFICES ASSUME NEW q \in Record, record'[q].status \in {"succeeded", "deleted"},
                        Key(q)' \notin bucket'
                 PROVE  Superseded(q)'
      BY DEF NewestSurvive
    <3>1. q # r
      BY <1>3
    <3>2. q \in Runs /\ record[q].status \in {"succeeded", "deleted"} /\ Key(q) \notin bucket
      BY <1>u, <1>3, <3>1, <2>1 DEF Runs
    <3> QED
      BY <2>a, <2>3, <3>2 DEF NewestSurvive
  <2>6. ObjectsAccounted'
    <3>1. \A k \in bucket' : \E q \in Runs' : Key(q)' = k
      BY <1>u, <1>1, <2>a, <2>1 DEF ObjectsAccounted
    <3>2. \A e \in reports' : e.kind = "backup" /\ e.outcome = "succeeded" =>
                                Key(e.id)' \in bucket' \/ Superseded(e.id)'
      <4> SUFFICES ASSUME NEW e \in reports, e.kind = "backup", e.outcome = "succeeded"
                   PROVE  Key(e.id)' \in bucket \/ Superseded(e.id)'
        BY <1>u
      <4>1. e.id \in Runs
        BY <1>a DEF RecordsInOrder
      <4>2. Key(e.id) \in bucket \/ Superseded(e.id)
        BY <2>a DEF ObjectsAccounted
      <4> QED
        BY <2>1, <2>3, <4>1, <4>2
    <3>3. \A item \in Pending' : item.kind = "prune" => OnlySuperseded(item.keys)'
      BY <1>2, <2>a, <2>4 DEF ObjectsAccounted, WorkItem
    <3> QED
      BY <3>1, <3>2, <3>3 DEF ObjectsAccounted
  <2> QED
    BY <2>5, <2>6
<1> QED
  BY <1>4, <1>5, <1>6, <1>7 DEF BackupsInv

\* A restore takes the next row.
LEMMA RestoreRow ==
  ASSUME BackupsTypeOK, RestoresInOrder, NEW r \in Record, RunRestore(r)
  PROVE  \E x \in Restore :
           /\ restore[x].status = "none"
           /\ restore' = [restore EXCEPT ![x] = [status |-> "running", from |-> r, step |-> "fetching"]]
           /\ PublishWork(WorkItem("restore", x, {Key(r)}))
           /\ RestoresInOrder'
<1> USE BackupsAssumption
<1>1. PICK n \in 0..MaxRestore : {x \in Restore : restore[x].status # "none"} = 1..n
  BY DEF RestoresInOrder
<1>2. Cardinality({y \in Restore : restore[y].status # "none"}) + 1 = n + 1
  <2>1. Cardinality(1..n) = n
    BY FS_Interval
  <2> QED
    BY <1>1, <2>1, Zenon
<1>3. PICK x : x = n + 1
  OBVIOUS
<1>4. x \in Restore
      /\ restore' = [restore EXCEPT ![x] = [status |-> "running", from |-> r, step |-> "fetching"]]
      /\ PublishWork(WorkItem("restore", x, {Key(r)}))
  BY <1>2, <1>3, Zenon DEF RunRestore
<1>5. restore[x].status = "none"
  BY <1>1, <1>3, <1>4
<1>6. {y \in Restore : restore'[y].status # "none"} = 1..x /\ x \in 0..MaxRestore
  <2>1. \A y \in Restore : restore'[y].status # "none" <=> restore[y].status # "none" \/ y = x
    BY <1>4 DEF BackupsTypeOK
  <2>2. {y \in Restore : restore'[y].status # "none"} = 1..n \cup {x}
    BY <1>1, <1>4, <2>1
  <2> QED
    BY <1>3, <1>4, <2>2 DEF Restore
<1> QED
  BY <1>4, <1>5, <1>6 DEF RestoresInOrder

\* The keys of runs are among the keys.
LEMMA KeysOfRuns ==
  ASSUME BackupsTypeOK, RecordsInOrder, NEW r \in Runs
  PROVE  Key(r) \in ObjectKey
<1>1. r \in Record /\ record[r].second \in 0..MaxRecord /\ record[r].second > 0
      /\ record[r].sched \in Schedules
  BY BackupTypes DEF RecordsInOrder, Runs
<1>2. record[r].second \in Record
  BY <1>1 DEF Record
<1> QED
  BY <1>1, <1>2 DEF Key, ObjectKey

\* A step that leaves records and objects alone, asks for no backup and no prune, and is
\* reported by nothing.
LEMMA RecordsFramed ==
  ASSUME BackupsInv, UNCHANGED <<record, bucket>>,
         \A item \in Pending' : item \in Pending \/ item.kind = "restore",
         \A e \in reports' : e.kind = "backup" =>
           \E f \in reports : f.kind = "backup" /\ e.id = f.id /\ e.outcome = f.outcome
  PROVE  /\ RecordsInOrder'
         /\ ~SameSecond => ObjectsAccounted' /\ NewestSurvive'
<1>a. RecordsInOrder
  BY DEF BackupsInv
<1>1. /\ Runs' = Runs /\ \A r : Key(r)' = Key(r)
      /\ \A r : Superseded(r)' <=> Superseded(r)
      /\ NewestSurvive => NewestSurvive'
      /\ \A keys : OnlySuperseded(keys) => OnlySuperseded(keys)'
  BY ObjectsFramed
<1>2. RecordsInOrder'
  <2>1. \A item \in Pending' : item.kind = "backup" => item.id \in Runs
    BY <1>a DEF RecordsInOrder
  <2>2. \A e \in reports' : e.kind = "backup" => e.id \in Runs
    BY <1>a DEF RecordsInOrder
  <2> QED
    BY <1>a, <1>1, <2>1, <2>2 DEF RecordsInOrder
<1>3. ASSUME ~SameSecond
      PROVE  ObjectsAccounted' /\ NewestSurvive'
  <2>a. ObjectsAccounted /\ NewestSurvive
    BY <1>3 DEF BackupsInv
  <2>1. \A k \in bucket' : \E r \in Runs' : Key(r)' = k
    BY <1>1, <2>a DEF ObjectsAccounted
  <2>2. \A e \in reports' : e.kind = "backup" /\ e.outcome = "succeeded" =>
                              Key(e.id)' \in bucket' \/ Superseded(e.id)'
    BY <1>1, <2>a DEF ObjectsAccounted
  <2>3. \A item \in Pending' : item.kind = "prune" => OnlySuperseded(item.keys)'
    BY <1>1, <2>a DEF ObjectsAccounted
  <2> QED
    BY <1>1, <2>a, <2>1, <2>2, <2>3 DEF ObjectsAccounted
<1> QED
  BY <1>2, <1>3

\* A restore is asked for.
LEMMA RunRestoreKeeps ==
  ASSUME BackupsInv, NEW r \in Record, RunRestore(r)
  PROVE  BackupsInv'
<1>a. BackupsTypeOK /\ RecordsInOrder /\ RestoresInOrder
  BY DEF BackupsInv
<1>u. UNCHANGED <<record, bucket, unacked, reports>> /\ dbStatus' = "restoring"
      /\ record[r].status = "succeeded"
  BY Zenon DEF RunRestore
<1>1. PICK x \in Restore :
        /\ restore[x].status = "none"
        /\ restore' = [restore EXCEPT ![x] = [status |-> "running", from |-> r, step |-> "fetching"]]
        /\ PublishWork(WorkItem("restore", x, {Key(r)}))
        /\ RestoresInOrder'
  BY <1>a, RestoreRow
<1>2. r \in Runs
  BY <1>u DEF Runs
<1>3. WorkItem("restore", x, {Key(r)}) \in Item
  BY <1>a, <1>2, KeysOfRuns DEF WorkItem, Item
<1>4. backupWork' \in Seq(Item) /\ Pending' \subseteq Pending \cup {WorkItem("restore", x, {Key(r)})}
  BY <1>a, <1>u, <1>1, <1>3, WorkPublished
<1>5. BackupsTypeOK'
  <2>1. [status |-> "running", from |-> r, step |-> "fetching"]
          \in [status : {"none", "running", "succeeded", "failed"},
               from : 0..MaxRecord, step : {"none", "fetching", "applying"}]
    BY DEF Record
  <2>2. restore' \in [Restore -> [status : {"none", "running", "succeeded", "failed"},
                                  from : 0..MaxRecord, step : {"none", "fetching", "applying"}]]
    BY <1>a, <1>1, <2>1 DEF BackupsTypeOK
  <2> QED
    BY <1>a, <1>u, <1>4, <2>2 DEF BackupsTypeOK
<1>6. \A item \in Pending' : item \in Pending \/ item.kind = "restore"
  BY <1>4 DEF WorkItem
<1>7. RecordsInOrder' /\ (~SameSecond => ObjectsAccounted' /\ NewestSurvive')
  <2>1. UNCHANGED <<record, bucket>>
    BY <1>u
  <2>2. \A e \in reports' : e.kind = "backup" =>
          \E f \in reports : f.kind = "backup" /\ e.id = f.id /\ e.outcome = f.outcome
    BY <1>u
  <2> QED
    BY <1>6, <2>1, <2>2, RecordsFramed
<1> QED
  BY <1>1, <1>5, <1>7 DEF BackupsInv

\* What the agent observes of the database, and what changes nothing.
LEMMA StatusKeeps ==
  ASSUME BackupsInv, (\E state \in {"running", "error"} : HandleDbStatus(state)) \/ UNCHANGED backupVars
  PROVE  BackupsInv'
<1>a. BackupsTypeOK /\ RestoresInOrder
  BY DEF BackupsInv
<1>1. UNCHANGED <<record, restore, bucket, backupWork, unacked, reports>>
  BY DEF HandleDbStatus, backupVars
<1>2. dbStatus' \in {"running", "restoring", "error"}
  BY <1>a DEF HandleDbStatus, backupVars, BackupsTypeOK
<1>3. BackupsTypeOK'
  BY <1>a, <1>1, <1>2 DEF BackupsTypeOK
<1>4. RestoresInOrder'
  BY <1>a, <1>1 DEF RestoresInOrder
<1>5. Pending' = Pending
  BY <1>1 DEF Pending
<1>6. RecordsInOrder' /\ (~SameSecond => ObjectsAccounted' /\ NewestSurvive')
  <2>1. UNCHANGED <<record, bucket>>
    BY <1>1
  <2>2. \A e \in reports' : e.kind = "backup" =>
          \E f \in reports : f.kind = "backup" /\ e.id = f.id /\ e.outcome = f.outcome
    BY <1>1
  <2> QED
    BY <1>5, <2>1, <2>2, RecordsFramed
<1> QED
  BY <1>3, <1>4, <1>6 DEF BackupsInv

\* A handled report is gone, or comes back once.
LEMMA ReportsHandled ==
  ASSUME BackupsTypeOK, NEW e \in reports, Handle(e)
  PROVE  /\ e \in Event /\ reports' \subseteq Event
         /\ \A f \in reports' : \E g \in reports : /\ f.kind = g.kind /\ f.id = g.id
                                                    /\ f.outcome = g.outcome /\ f.keys = g.keys
<1>1. e \in Event /\ reports \subseteq Event
  BY DEF BackupsTypeOK
<1>2. [e EXCEPT !.twice = FALSE] \in Event
      /\ [e EXCEPT !.twice = FALSE].kind = e.kind /\ [e EXCEPT !.twice = FALSE].id = e.id
      /\ [e EXCEPT !.twice = FALSE].outcome = e.outcome /\ [e EXCEPT !.twice = FALSE].keys = e.keys
  BY <1>1, EventFields, Zenon
<1>3. reports' \subseteq reports \cup {[e EXCEPT !.twice = FALSE]}
  BY Zenon DEF Handle
<1> QED
  BY <1>1, <1>2, <1>3, Zenon

\* A step that decides or deletes runs leaves their keys and their order alone.
LEMMA RowsRewritten ==
  ASSUME BackupsTypeOK, RecordsInOrder, UNCHANGED bucket,
         \A r \in Record : /\ record'[r].sched = record[r].sched
                           /\ record'[r].second = record[r].second
                           /\ record'[r].status = "none" <=> record[r].status = "none"
                           /\ r \notin Runs => record'[r] = record[r]
                           /\ record'[r].named => record'[r].status = "succeeded"
  PROVE  /\ Runs' = Runs /\ \A r \in Record : Key(r)' = Key(r)
         /\ \A r \in Record : Superseded(r)' <=> Superseded(r)
         /\ \A keys : OnlySuperseded(keys) => OnlySuperseded(keys)'
         /\ \E n \in 0..MaxRecord : Runs' = 1..n
         /\ \A r \in Record : /\ record'[r].second <= r
                              /\ r \notin Runs' => record'[r] = NoRecord
                              /\ r \in Runs' => record'[r].second > 0
                              /\ ~SameSecond /\ r \in Runs' => record'[r].second = r
                              /\ record'[r].named => record'[r].status = "succeeded"
<1>1. Runs' = Runs
  BY DEF Runs
<1>2. \A r \in Record : Key(r)' = Key(r)
  BY DEF Key
<1>3. \A r \in Record : Newer(r)' = Newer(r)
  BY <1>2 DEF Newer
<1>4. \A r \in Record : Superseded(r)' <=> Superseded(r)
  BY <1>3 DEF Superseded
<1>5. \A keys : OnlySuperseded(keys) => OnlySuperseded(keys)'
  <2>1. Runs \subseteq Record
    BY DEF Runs
  <2> QED
    BY <1>1, <1>2, <1>4, <2>1 DEF OnlySuperseded
<1>6. \E n \in 0..MaxRecord : Runs' = 1..n
  BY <1>1 DEF RecordsInOrder
<1>7. ASSUME NEW r \in Record
      PROVE  /\ record'[r].second <= r
             /\ r \notin Runs' => record'[r] = NoRecord
             /\ r \in Runs' => record'[r].second > 0
             /\ ~SameSecond /\ r \in Runs' => record'[r].second = r
             /\ record'[r].named => record'[r].status = "succeeded"
  <2>1. /\ record[r].second <= r
        /\ r \notin Runs => record[r] = NoRecord
        /\ r \in Runs => record[r].second > 0
        /\ ~SameSecond /\ r \in Runs => record[r].second = r
    BY Zenon DEF RecordsInOrder
  <2>2. record'[r].second = record[r].second /\ (r \notin Runs => record'[r] = record[r])
    OBVIOUS
  <2>3. record'[r].named => record'[r].status = "succeeded"
    BY Zenon
  <2> QED
    BY <1>1, <2>1, <2>2, <2>3, Zenon
<1> QED
  BY <1>1, <1>2, <1>4, <1>5, <1>6, <1>7

\* A decided row is a row.
LEMMA RowDecided ==
  ASSUME NEW v \in [status : {"none", "running", "succeeded", "failed", "deleted"},
                    sched : Schedules, second : 0..MaxRecord, named : BOOLEAN],
         NEW outcome \in {"succeeded", "failed"}, NEW ok \in BOOLEAN
  PROVE  [v EXCEPT !.status = outcome, !.named = ok]
           \in [status : {"none", "running", "succeeded", "failed", "deleted"},
                sched : Schedules, second : 0..MaxRecord, named : BOOLEAN]
OBVIOUS

\* The outcome of a run, and of a success the objects that are beyond its schedule's
\* retention: enough newer ones are in the bucket, or stand for newer ones still.
LEMMA BackupEventKeeps ==
  ASSUME BackupsInv, NEW e \in reports, Handle(e), HandleDbBackupEvent(e)
  PROVE  BackupsInv'
<1> USE BackupsAssumption
<1>a. BackupsTypeOK /\ RecordsInOrder /\ RestoresInOrder
  BY DEF BackupsInv
<1>u. UNCHANGED <<restore, dbStatus, bucket, unacked>> /\ e.kind = "backup"
  BY Zenon DEF HandleDbBackupEvent
<1>r. /\ e \in Event /\ reports' \subseteq Event
      /\ \A f \in reports' : \E g \in reports : /\ f.kind = g.kind /\ f.id = g.id
                                                 /\ f.outcome = g.outcome /\ f.keys = g.keys
  BY <1>a, ReportsHandled
<1>e. e.id \in Record /\ e.id \in Runs /\ e.outcome \in {"succeeded", "failed"}
  BY <1>a, <1>u, <1>r, EventFields DEF RecordsInOrder
<1>o. RestoresInOrder'
  BY <1>a, <1>u DEF RestoresInOrder
<1>1. CASE UNCHANGED <<record, backupWork>>
  <2>1. BackupsTypeOK'
    BY <1>a, <1>u, <1>r, <1>1 DEF BackupsTypeOK
  <2>2. Pending' = Pending
    BY <1>u, <1>1 DEF Pending
  <2>3. UNCHANGED <<record, bucket>>
    BY <1>u, <1>1
  <2>4. \A f \in reports' : f.kind = "backup" =>
          \E g \in reports : g.kind = "backup" /\ f.id = g.id /\ f.outcome = g.outcome
    BY <1>r
  <2>5. RecordsInOrder' /\ (~SameSecond => ObjectsAccounted' /\ NewestSurvive')
    BY <2>2, <2>3, <2>4, RecordsFramed
  <2> QED
    BY <1>o, <2>1, <2>5 DEF BackupsInv
<1>2. ASSUME NEW ok \in BOOLEAN, ok <=> e.outcome = "succeeded",
             record' = [record EXCEPT ![e.id].status = e.outcome, ![e.id].named = ok],
             IF ok THEN dispatchRetentionPrune(record', record[e.id].sched)
                   ELSE UNCHANGED backupWork
      PROVE  BackupsInv'
  <2> DEFINE s == record[e.id].sched
  <2>1. s \in Schedules
    BY <1>a, <1>e, BackupTypes
  <2>2. /\ record'[e.id] = [record[e.id] EXCEPT !.status = e.outcome, !.named = ok]
        /\ \A r \in Record : r # e.id => record'[r] = record[r]
    BY <1>a, <1>e, <1>2, BackupTypes
  <2>3. record[e.id] \in [status : {"none", "running", "succeeded", "failed", "deleted"},
                          sched : Schedules, second : 0..MaxRecord, named : BOOLEAN]
    BY <1>a, <1>e, BackupTypes, Zenon
  <2>4. record'[e.id] \in [status : {"none", "running", "succeeded", "failed", "deleted"},
                           sched : Schedules, second : 0..MaxRecord, named : BOOLEAN]
    BY <1>e, <2>2, <2>3, RowDecided, Zenon
  <2>5. record' \in [Record -> [status : {"none", "running", "succeeded", "failed", "deleted"},
                                sched : Schedules, second : 0..MaxRecord, named : BOOLEAN]]
    <3>1. DOMAIN record' = Record /\ record' = [r \in Record |-> record'[r]]
      BY <1>a, <1>2 DEF BackupsTypeOK
    <3>2. \A r \in Record : record'[r] \in [status : {"none", "running", "succeeded", "failed", "deleted"},
                                sched : Schedules, second : 0..MaxRecord, named : BOOLEAN]
      BY <1>a, <2>2, <2>4, BackupTypes, Zenon
    <3> QED
      BY <3>1, <3>2
  <2>6. record'[e.id].status = e.outcome /\ record'[e.id].sched = s
        /\ record'[e.id].second = record[e.id].second
    BY <2>2, <2>3
  <2>7. record'[e.id].named <=> ok
    BY <1>2, <2>2, <2>3
  <2>8. \A r \in Record : /\ record'[r].sched = record[r].sched
                          /\ record'[r].second = record[r].second
                          /\ record'[r].status = "none" <=> record[r].status = "none"
                          /\ r \notin Runs => record'[r] = record[r]
    BY <1>e, <2>2, <2>6 DEF Runs
  <2>9. ASSUME NEW r \in Record
        PROVE  record'[r].named => record'[r].status = "succeeded"
    <3>1. CASE r = e.id
      BY <1>2, <2>6, <2>7, <3>1, Zenon
    <3>2. CASE r # e.id
      BY <1>a, <2>2, <3>2, Zenon DEF RecordsInOrder
    <3> QED
      BY <3>1, <3>2
  <2>10. /\ Runs' = Runs /\ \A r \in Record : Key(r)' = Key(r)
         /\ \A r \in Record : Superseded(r)' <=> Superseded(r)
         /\ \A keys : OnlySuperseded(keys) => OnlySuperseded(keys)'
         /\ \E n \in 0..MaxRecord : Runs' = 1..n
         /\ \A r \in Record : /\ record'[r].second <= r
                              /\ r \notin Runs' => record'[r] = NoRecord
                              /\ r \in Runs' => record'[r].second > 0
                              /\ ~SameSecond /\ r \in Runs' => record'[r].second = r
                              /\ record'[r].named => record'[r].status = "succeeded"
    BY <1>a, <1>u, <2>8, <2>9, RowsRewritten
  <2>w. /\ backupWork' \in Seq(Item)
        /\ \A item \in Pending' : item.kind = "backup" => item \in Pending
        /\ ~SameSecond => \A item \in Pending' \ Pending : OnlySuperseded(item.keys)
    <3>1. CASE UNCHANGED backupWork
      <4>1. Pending' = Pending
        BY <1>u, <3>1 DEF Pending
      <4> QED
        BY <1>a, <3>1, <4>1 DEF BackupsTypeOK
    <3>2. ASSUME NEW prunable, prunable = BeyondRetention(record', s), ok,
                 PublishWork(WorkItem("prune", 0, {objectKey(s, record'[r].second) : r \in prunable}))
          PROVE  /\ backupWork' \in Seq(Item)
                 /\ \A item \in Pending' : item.kind = "backup" => item \in Pending
                 /\ ~SameSecond => \A item \in Pending' \ Pending : OnlySuperseded(item.keys)
      <4> DEFINE keys == {objectKey(s, record'[r].second) : r \in prunable}
      <4>1. \A r \in prunable : r \in Record /\ record'[r].sched = s /\ record'[r].status = "succeeded"
        BY <3>2 DEF BeyondRetention
      <4>2. \A r \in prunable : r \in Runs /\ objectKey(s, record'[r].second) = Key(r)
        BY <2>8, <4>1 DEF Runs, Key
      <4>3. keys \subseteq ObjectKey
        BY <1>a, <4>2, KeysOfRuns
      <4>4. WorkItem("prune", 0, keys) \in Item
        BY <4>3 DEF WorkItem, Item
      <4>5. backupWork' \in Seq(Item) /\ Pending' \subseteq Pending \cup {WorkItem("prune", 0, keys)}
        BY <1>a, <1>u, <3>2, <4>4, WorkPublished
      <4>6. ASSUME ~SameSecond
            PROVE  OnlySuperseded(keys)
        <5>a. ObjectsAccounted /\ NewestSurvive
          BY <4>6 DEF BackupsInv
        <5>1. ASSUME NEW q \in Record, record'[q].sched = s, record'[q].status = "succeeded"
              PROVE  Key(q) \in bucket \/ Superseded(q)
          <6>1. CASE q = e.id
            BY <1>u, <2>6, <5>a, <5>1, <6>1 DEF ObjectsAccounted
          <6>2. CASE q # e.id
            <7>1. record[q].status = "succeeded"
              BY <2>2, <5>1, <6>2
            <7> QED
              BY <5>a, <7>1 DEF NewestSurvive
          <6> QED
            BY <6>1, <6>2
        <5>2. \A q \in Record : record'[q].sched = record[q].sched
          BY <2>8
        <5>3. \A r \in prunable : Superseded(r)
          BY <1>a, <2>1, <3>2, <5>1, <5>2, BeyondIsSuperseded
        <5> QED
          BY <4>2, <5>3 DEF OnlySuperseded
      <4>7. WorkItem("prune", 0, keys).kind = "prune" /\ WorkItem("prune", 0, keys).keys = keys
        BY DEF WorkItem
      <4> HIDE DEF keys
      <4> QED
        BY <4>5, <4>6, <4>7
    <3> QED
      BY <1>2, <3>1, <3>2, Zenon DEF dispatchRetentionPrune
  <2>11. BackupsTypeOK'
    BY <1>a, <1>u, <1>r, <2>5, <2>w DEF BackupsTypeOK
  <2>12. RecordsInOrder'
    <3>1. \A item \in Pending' : item.kind = "backup" => item.id \in Runs'
      BY <1>a, <2>10, <2>w DEF RecordsInOrder
    <3>2. \A f \in reports' : f.kind = "backup" => f.id \in Runs'
      BY <1>a, <1>r, <2>10 DEF RecordsInOrder
    <3> QED
      BY <2>10, <3>1, <3>2, Zenon DEF RecordsInOrder
  <2>13. ASSUME ~SameSecond
         PROVE  ObjectsAccounted' /\ NewestSurvive'
    <3>a. ObjectsAccounted /\ NewestSurvive
      BY <2>13 DEF BackupsInv
    <3>1. NewestSurvive'
      <4> SUFFICES ASSUME NEW q \in Record, record'[q].status \in {"succeeded", "deleted"},
                          Key(q)' \notin bucket'
                   PROVE  Superseded(q)'
        BY DEF NewestSurvive
      <4>1. Key(q) \notin bucket
        BY <1>u, <2>10
      <4>2. CASE q = e.id
        BY <1>e, <1>u, <2>6, <2>10, <3>a, <4>1, <4>2 DEF ObjectsAccounted
      <4>3. CASE q # e.id
        BY <2>2, <2>10, <3>a, <4>1, <4>3 DEF NewestSurvive
      <4> QED
        BY <4>2, <4>3
    <3>2. \A k \in bucket' : \E q \in Runs' : Key(q)' = k
      <4>1. Runs \subseteq Record
        BY DEF Runs
      <4> QED
        BY <1>u, <2>10, <3>a, <4>1 DEF ObjectsAccounted
    <3>3. \A f \in reports' : f.kind = "backup" /\ f.outcome = "succeeded" =>
                                Key(f.id)' \in bucket' \/ Superseded(f.id)'
      <4> SUFFICES ASSUME NEW f \in reports', f.kind = "backup", f.outcome = "succeeded"
                   PROVE  Key(f.id)' \in bucket' \/ Superseded(f.id)'
        OBVIOUS
      <4>1. PICK g \in reports : g.kind = "backup" /\ f.id = g.id /\ g.outcome = "succeeded"
        BY <1>r
      <4>2. f.id \in Record
        BY <1>a, <4>1 DEF RecordsInOrder, Runs
      <4>3. Key(f.id) \in bucket \/ Superseded(f.id)
        BY <3>a, <4>1 DEF ObjectsAccounted
      <4> QED
        BY <1>u, <2>10, <4>2, <4>3
    <3>4. \A item \in Pending' : item.kind = "prune" => OnlySuperseded(item.keys)'
      BY <2>10, <2>w, <2>13, <3>a DEF ObjectsAccounted
    <3> QED
      BY <3>1, <3>2, <3>3, <3>4 DEF ObjectsAccounted
  <2> QED
    BY <1>o, <2>11, <2>12, <2>13 DEF BackupsInv
<1>3. PICK ok \in BOOLEAN : ok <=> e.outcome = "succeeded"
  <2>1. (e.outcome = "succeeded") \in BOOLEAN
    OBVIOUS
  <2> QED
    BY <2>1
<1>4. \/ UNCHANGED <<record, backupWork>>
      \/ /\ record' = [record EXCEPT ![e.id].status = e.outcome, ![e.id].named = ok]
         /\ IF ok THEN dispatchRetentionPrune(record', record[e.id].sched)
                  ELSE UNCHANGED backupWork
  <2>1. ok = (e.outcome = "succeeded")
    BY <1>3
  <2> QED
    BY <2>1, Zenon DEF HandleDbBackupEvent
<1> QED
  BY <1>1, <1>2, <1>3, <1>4

\* A row is deleted when its object is.
LEMMA RowDeleted ==
  ASSUME NEW v \in [status : {"none", "running", "succeeded", "failed", "deleted"},
                    sched : Schedules, second : 0..MaxRecord, named : BOOLEAN]
  PROVE  /\ [v EXCEPT !.status = "deleted", !.named = FALSE]
              \in [status : {"none", "running", "succeeded", "failed", "deleted"},
                   sched : Schedules, second : 0..MaxRecord, named : BOOLEAN]
         /\ [v EXCEPT !.status = "deleted", !.named = FALSE].status = "deleted"
         /\ [v EXCEPT !.status = "deleted", !.named = FALSE].sched = v.sched
         /\ [v EXCEPT !.status = "deleted", !.named = FALSE].second = v.second
OBVIOUS

\* The deleted rows succeeded: what is to become of their objects is settled.
LEMMA PruneEventKeeps ==
  ASSUME BackupsInv, NEW e \in reports, Handle(e), HandleDbBackupPruneEvent(e)
  PROVE  BackupsInv'
<1> USE BackupsAssumption
<1>a. BackupsTypeOK /\ RecordsInOrder /\ RestoresInOrder
  BY DEF BackupsInv
<1>u. UNCHANGED <<restore, dbStatus, bucket, backupWork, unacked>>
      /\ record' = DeleteBackupRecordsByObjectKeys(e.keys)
  BY Zenon DEF HandleDbBackupPruneEvent
<1>r. /\ e \in Event /\ reports' \subseteq Event
      /\ \A f \in reports' : \E g \in reports : /\ f.kind = g.kind /\ f.id = g.id
                                                 /\ f.outcome = g.outcome /\ f.keys = g.keys
  BY <1>a, ReportsHandled
<1>1. Pending' = Pending
  BY <1>u DEF Pending
<1> DEFINE gone(r) == Key(r) \in e.keys /\ record[r].named /\ record[r].sched \notin VolumeSchedules
<1>2. ASSUME NEW r \in Record
      PROVE  \/ gone(r) /\ record'[r] = [record[r] EXCEPT !.status = "deleted", !.named = FALSE]
             \/ record'[r] = record[r]
  BY <1>u, Zenon DEF DeleteBackupRecordsByObjectKeys
<1>3. DOMAIN record' = Record /\ record' = [r \in Record |-> record'[r]]
  BY <1>u DEF DeleteBackupRecordsByObjectKeys
<1>4. ASSUME NEW r \in Record
      PROVE  /\ record'[r] \in [status : {"none", "running", "succeeded", "failed", "deleted"},
                                sched : Schedules, second : 0..MaxRecord, named : BOOLEAN]
             /\ record'[r].sched = record[r].sched
             /\ record'[r].second = record[r].second
             /\ record'[r].status = "none" <=> record[r].status = "none"
             /\ r \notin Runs => record'[r] = record[r]
             /\ record'[r].named => record'[r].status = "succeeded"
             /\ record'[r].status \in {"succeeded", "deleted"} =>
                  record[r].status \in {"succeeded", "deleted"}
  <2>1. record[r] \in [status : {"none", "running", "succeeded", "failed", "deleted"},
                       sched : Schedules, second : 0..MaxRecord, named : BOOLEAN]
    BY <1>a, BackupTypes, Zenon
  <2>2. record[r].named => record[r].status = "succeeded"
    BY <1>a, Zenon DEF RecordsInOrder
  <2>3. CASE record'[r] = record[r]
    BY <2>1, <2>2, <2>3, Zenon
  <2>4. CASE gone(r) /\ record'[r] = [record[r] EXCEPT !.status = "deleted", !.named = FALSE]
    <3>1. record[r].status = "succeeded"
      BY <2>2, <2>4, Zenon
    <3>2. r \in Runs
      BY <3>1 DEF Runs
    <3>3. record'[r].status = "deleted" /\ record'[r].sched = record[r].sched
          /\ record'[r].second = record[r].second
          /\ record'[r] \in [status : {"none", "running", "succeeded", "failed", "deleted"},
                             sched : Schedules, second : 0..MaxRecord, named : BOOLEAN]
      BY <2>1, <2>4, RowDeleted, Zenon
    <3>4. ~record'[r].named
      BY <2>1, <2>4
    <3>5. "deleted" # "none" /\ "succeeded" # "none"
      OBVIOUS
    <3> QED
      BY <3>1, <3>2, <3>3, <3>4, <3>5, Zenon
  <2> QED
    BY <1>2, <2>3, <2>4
<1>5. BackupsTypeOK'
  <2>1. record' \in [Record -> [status : {"none", "running", "succeeded", "failed", "deleted"},
                                sched : Schedules, second : 0..MaxRecord, named : BOOLEAN]]
    BY <1>3, <1>4, Zenon
  <2> QED
    BY <1>a, <1>u, <1>r, <2>1 DEF BackupsTypeOK
<1>6. /\ Runs' = Runs /\ \A r \in Record : Key(r)' = Key(r)
      /\ \A r \in Record : Superseded(r)' <=> Superseded(r)
      /\ \A keys : OnlySuperseded(keys) => OnlySuperseded(keys)'
      /\ \E n \in 0..MaxRecord : Runs' = 1..n
      /\ \A r \in Record : /\ record'[r].second <= r
                           /\ r \notin Runs' => record'[r] = NoRecord
                           /\ r \in Runs' => record'[r].second > 0
                           /\ ~SameSecond /\ r \in Runs' => record'[r].second = r
                           /\ record'[r].named => record'[r].status = "succeeded"
  <2>1. UNCHANGED bucket
    BY <1>u
  <2>2. \A r \in Record : /\ record'[r].sched = record[r].sched
                          /\ record'[r].second = record[r].second
                          /\ record'[r].status = "none" <=> record[r].status = "none"
                          /\ r \notin Runs => record'[r] = record[r]
                          /\ record'[r].named => record'[r].status = "succeeded"
    BY <1>4, Zenon
  <2> QED
    BY <1>a, <2>1, <2>2, RowsRewritten
<1>7. RecordsInOrder'
  <2>1. \A item \in Pending' : item.kind = "backup" => item.id \in Runs'
    BY <1>a, <1>1, <1>6 DEF RecordsInOrder
  <2>2. \A f \in reports' : f.kind = "backup" => f.id \in Runs'
    BY <1>a, <1>r, <1>6 DEF RecordsInOrder
  <2> QED
    BY <1>6, <2>1, <2>2, Zenon DEF RecordsInOrder
<1>8. RestoresInOrder'
  BY <1>a, <1>u DEF RestoresInOrder
<1>9. ASSUME ~SameSecond
      PROVE  ObjectsAccounted' /\ NewestSurvive'
  <2>a. ObjectsAccounted /\ NewestSurvive
    BY <1>9 DEF BackupsInv
  <2>1. NewestSurvive'
    <3>1. \A q \in Record : record'[q].status \in {"succeeded", "deleted"} =>
                              record[q].status \in {"succeeded", "deleted"}
      BY <1>4, Zenon
    <3> QED
      BY <1>u, <1>6, <2>a, <3>1 DEF NewestSurvive
  <2>2. Runs \subseteq Record
    BY DEF Runs
  <2>3. \A k \in bucket' : \E q \in Runs' : Key(q)' = k
    BY <1>u, <1>6, <2>a, <2>2 DEF ObjectsAccounted
  <2>4. ASSUME NEW f \in reports', f.kind = "backup", f.outcome = "succeeded"
        PROVE  Key(f.id)' \in bucket' \/ Superseded(f.id)'
    <3>1. PICK g \in reports : g.kind = "backup" /\ f.id = g.id /\ g.outcome = "succeeded"
      BY <1>r, <2>4
    <3>2. f.id \in Record
      BY <1>a, <2>2, <3>1 DEF RecordsInOrder
    <3>3. Key(f.id) \in bucket \/ Superseded(f.id)
      BY <2>a, <3>1 DEF ObjectsAccounted
    <3> QED
      BY <1>u, <1>6, <3>2, <3>3
  <2>5. \A item \in Pending' : item.kind = "prune" => OnlySuperseded(item.keys)'
    BY <1>1, <1>6, <2>a DEF ObjectsAccounted
  <2> QED
    BY <2>1, <2>3, <2>4, <2>5 DEF ObjectsAccounted
<1> QED
  BY <1>5, <1>7, <1>8, <1>9 DEF BackupsInv

\* A restore's row goes on or ends.
LEMMA RestoreDecided ==
  ASSUME NEW v \in [status : {"none", "running", "succeeded", "failed"},
                    from : 0..MaxRecord, step : {"none", "fetching", "applying"}]
  PROVE  /\ [v EXCEPT !.step = "applying"]
              \in [status : {"none", "running", "succeeded", "failed"},
                   from : 0..MaxRecord, step : {"none", "fetching", "applying"}]
         /\ [v EXCEPT !.step = "applying"].status = v.status
         /\ \A outcome \in {"succeeded", "failed"} :
              /\ [v EXCEPT !.status = outcome]
                   \in [status : {"none", "running", "succeeded", "failed"},
                        from : 0..MaxRecord, step : {"none", "fetching", "applying"}]
              /\ [v EXCEPT !.status = outcome].status # "none"
OBVIOUS

\* A running restore goes on or ends.
LEMMA RestoreEventKeeps ==
  ASSUME BackupsInv, NEW e \in reports, Handle(e), HandleDbRestoreEvent(e)
  PROVE  BackupsInv'
<1>a. BackupsTypeOK /\ RestoresInOrder
  BY DEF BackupsInv
<1>u. UNCHANGED <<record, bucket, backupWork, unacked>> /\ e.kind = "restore"
  BY Zenon DEF HandleDbRestoreEvent
<1>r. /\ e \in Event /\ reports' \subseteq Event
      /\ \A f \in reports' : \E g \in reports : /\ f.kind = g.kind /\ f.id = g.id
                                                 /\ f.outcome = g.outcome /\ f.keys = g.keys
  BY <1>a, ReportsHandled
<1>e. e.id \in Restore /\ e.outcome \in {"applying", "succeeded", "failed"}
  BY <1>u, <1>r, EventFields
<1>v. restore[e.id] \in [status : {"none", "running", "succeeded", "failed"},
                         from : 0..MaxRecord, step : {"none", "fetching", "applying"}]
  BY <1>a, <1>e DEF BackupsTypeOK
<1>1. /\ dbStatus' \in {"running", "restoring", "error"}
      /\ restore' \in [Restore -> [status : {"none", "running", "succeeded", "failed"},
                                   from : 0..MaxRecord, step : {"none", "fetching", "applying"}]]
      /\ \A x \in Restore : restore'[x].status = "none" <=> restore[x].status = "none"
  <2>1. CASE UNCHANGED <<restore, dbStatus>>
    BY <1>a, <2>1 DEF BackupsTypeOK
  <2>2. CASE e.outcome = "applying" /\ AdvanceDatabaseRestore(e.id, e.outcome) /\ UNCHANGED dbStatus
    <3>1. restore' = [restore EXCEPT ![e.id].step = "applying"] /\ restore[e.id].status = "running"
      BY <2>2 DEF AdvanceDatabaseRestore
    <3>2. [restore[e.id] EXCEPT !.step = "applying"]
            \in [status : {"none", "running", "succeeded", "failed"},
                 from : 0..MaxRecord, step : {"none", "fetching", "applying"}]
          /\ [restore[e.id] EXCEPT !.step = "applying"].status = restore[e.id].status
      BY <1>v, RestoreDecided
    <3>3. restore' = [restore EXCEPT ![e.id] = [restore[e.id] EXCEPT !.step = "applying"]]
      BY <3>1
    <3> QED
      BY <1>a, <1>e, <2>2, <3>2, <3>3 DEF BackupsTypeOK
  <2>3. CASE /\ e.outcome # "applying" /\ FinishDatabaseRestore(e.id, e.outcome)
             /\ dbStatus' = IF e.outcome = "succeeded" THEN "running" ELSE "error"
    <3>1. restore' = [restore EXCEPT ![e.id].status = e.outcome] /\ restore[e.id].status = "running"
      BY <2>3 DEF FinishDatabaseRestore
    <3>2. [restore[e.id] EXCEPT !.status = e.outcome]
            \in [status : {"none", "running", "succeeded", "failed"},
                 from : 0..MaxRecord, step : {"none", "fetching", "applying"}]
          /\ [restore[e.id] EXCEPT !.status = e.outcome].status # "none"
      <4>1. e.outcome \in {"succeeded", "failed"}
        BY <1>e, <2>3
      <4> QED
        BY <1>v, <4>1, RestoreDecided
    <3>3. restore' = [restore EXCEPT ![e.id] = [restore[e.id] EXCEPT !.status = e.outcome]]
      BY <3>1
    <3> QED
      BY <1>a, <1>e, <2>3, <3>1, <3>2, <3>3 DEF BackupsTypeOK
  <2> QED
    BY <2>1, <2>2, <2>3 DEF HandleDbRestoreEvent
<1>2. BackupsTypeOK'
  BY <1>a, <1>u, <1>r, <1>1 DEF BackupsTypeOK
<1>3. RestoresInOrder'
  <2>1. {x \in Restore : restore'[x].status # "none"} = {x \in Restore : restore[x].status # "none"}
    BY <1>1
  <2> QED
    BY <1>a, <2>1 DEF RestoresInOrder
<1>4. RecordsInOrder' /\ (~SameSecond => ObjectsAccounted' /\ NewestSurvive')
  <2>1. UNCHANGED <<record, bucket>> /\ Pending' = Pending
    BY <1>u DEF Pending
  <2>2. \A f \in reports' : f.kind = "backup" =>
          \E g \in reports : g.kind = "backup" /\ f.id = g.id /\ f.outcome = g.outcome
    BY <1>r
  <2> QED
    BY <2>1, <2>2, RecordsFramed
<1> QED
  BY <1>2, <1>3, <1>4 DEF BackupsInv

\* What the host's operations do to the bucket, and what they report.
LEMMA HostOperation ==
  ASSUME BackupsTypeOK, RecordsInOrder, NEW item \in Item, item \in Pending,
         NEW run \in CASE item.kind = "backup" -> ExecuteBackup(item)
                       [] item.kind = "prune" -> ExecutePrune(item)
                       [] item.kind = "restore" -> ExecuteRestore(item)
  PROVE  /\ run.events \subseteq Event /\ run.bucket \subseteq ObjectKey
         /\ \/ /\ item.kind = "backup" /\ item.id \in Runs
               /\ \/ run.bucket = bucket \cup {Key(item.id)}
                  \/ run.bucket = bucket /\ \A e \in run.events : e.outcome # "succeeded"
               /\ \A e \in run.events : e.kind = "backup" /\ e.id = item.id
            \/ /\ item.kind = "prune" /\ \A e \in run.events : e.kind = "prune"
               /\ \E gone \in SUBSET item.keys : run.bucket = bucket \ gone
            \/ /\ item.kind = "restore" /\ \A e \in run.events : e.kind = "restore"
               /\ run.bucket = bucket
<1>a. bucket \subseteq ObjectKey
  BY DEF BackupsTypeOK
<1>f. /\ item.kind \in {"backup", "restore", "prune"}
      /\ item.kind = "backup" => item.id \in Record
      /\ item.kind = "restore" => item.id \in Restore
      /\ item.kind = "prune" => item.keys \subseteq ObjectKey
  BY ItemFields
<1>1. CASE item.kind = "backup"
  <2>1. item.id \in Runs /\ Key(item.id) \in ObjectKey
    BY <1>1, KeysOfRuns DEF RecordsInOrder
  <2>2. run \in ExecuteBackup(item)
    BY <1>1
  <2>3. \A outcome \in {"succeeded", "failed"} : Report("backup", item.id, outcome, {}) \in Event
    BY <1>1, <1>f DEF Report, Event
  <2>4. CASE run = [bucket |-> bucket \cup {Key(item.id)}, cost |-> 0,
                    events |-> {Report("backup", item.id, "succeeded", {})}]
    <3>1. run.bucket = bucket \cup {Key(item.id)}
          /\ run.events = {Report("backup", item.id, "succeeded", {})}
      BY <2>4
    <3> QED
      BY <1>a, <1>1, <2>1, <2>3, <3>1 DEF Report
  <2>5. CASE run = [bucket |-> bucket, cost |-> 1, events |-> {Report("backup", item.id, "failed", {})}]
    <3>1. run.bucket = bucket /\ run.events = {Report("backup", item.id, "failed", {})}
      BY <2>5
    <3> QED
      BY <1>a, <1>1, <2>1, <2>3, <3>1 DEF Report
  <2> QED
    BY <2>2, <2>4, <2>5 DEF ExecuteBackup
<1>2. CASE item.kind = "prune"
  <2>1. run \in ExecutePrune(item)
    BY <1>2
  <2>2. PICK gone \in SUBSET item.keys :
          run = [bucket |-> bucket \ gone, cost |-> Cardinality(item.keys \ gone),
                 events |-> {Report("prune", 0, "done", gone)}]
    BY <2>1 DEF ExecutePrune
  <2>3. run.bucket = bucket \ gone /\ run.events = {Report("prune", 0, "done", gone)}
    BY <2>2
  <2>4. Report("prune", 0, "done", gone) \in Event
    BY <1>2, <1>f DEF Report, Event
  <2> QED
    BY <1>a, <1>2, <2>3, <2>4 DEF Report
<1>3. CASE item.kind = "restore"
  <2>1. run \in ExecuteRestore(item)
    BY <1>3
  <2>2. \A outcome \in {"applying", "succeeded", "failed"} :
          /\ Report("restore", item.id, outcome, {}) \in Event
          /\ Report("restore", item.id, outcome, {}).kind = "restore"
    BY <1>3, <1>f DEF Report, Event
  <2>3. run.bucket = bucket /\ \E O \in SUBSET {"applying", "succeeded", "failed"} :
                                 run.events = {Report("restore", item.id, o, {}) : o \in O}
    <3>1. ASSUME NEW outcome \in {"succeeded", "failed"}, NEW cost,
                 run = [bucket |-> bucket, cost |-> cost,
                        events |-> {Report("restore", item.id, o, {}) : o \in {"applying", outcome}}]
          PROVE  run.bucket = bucket /\ \E O \in SUBSET {"applying", "succeeded", "failed"} :
                                 run.events = {Report("restore", item.id, o, {}) : o \in O}
      BY <3>1
    <3>2. ASSUME NEW cost,
                 run = [bucket |-> bucket, cost |-> cost, events |-> {Report("restore", item.id, "failed", {})}]
          PROVE  run.bucket = bucket /\ \E O \in SUBSET {"applying", "succeeded", "failed"} :
                                 run.events = {Report("restore", item.id, o, {}) : o \in O}
      <4>1. run.bucket = bucket /\ run.events = {Report("restore", item.id, "failed", {})}
        BY <3>2
      <4>2. run.events = {Report("restore", item.id, o, {}) : o \in {"failed"}}
        BY <4>1
      <4> QED
        BY <4>1, <4>2
    <3> QED
      BY <2>1, <3>1, <3>2 DEF ExecuteRestore
  <2> QED
    BY <1>a, <1>3, <2>2, <2>3
<1> QED
  BY <1>1, <1>2, <1>3, <1>f

\* An upload adds an object that is reported, a prune takes objects of superseded runs.
LEMMA HandleMsgKeeps ==
  ASSUME BackupsInv, NEW item \in Pending, handleMsg(item)
  PROVE  BackupsInv'
<1>a. BackupsTypeOK /\ RecordsInOrder /\ RestoresInOrder
  BY DEF BackupsInv
<1>u. UNCHANGED <<record, restore, dbStatus>>
  BY Zenon DEF handleMsg
<1>i. item \in Item
  BY <1>a, BackupTypes
<1>1. PICK run \in CASE item.kind = "backup" -> ExecuteBackup(item)
                     [] item.kind = "prune" -> ExecutePrune(item)
                     [] item.kind = "restore" -> ExecuteRestore(item) :
        bucket' = run.bucket /\ Settle(item, run)
  BY Zenon DEF handleMsg
<1>2. /\ run.events \subseteq Event /\ run.bucket \subseteq ObjectKey
      /\ \/ /\ item.kind = "backup" /\ item.id \in Runs
            /\ \/ run.bucket = bucket \cup {Key(item.id)}
               \/ run.bucket = bucket /\ \A e \in run.events : e.outcome # "succeeded"
            /\ \A e \in run.events : e.kind = "backup" /\ e.id = item.id
         \/ /\ item.kind = "prune" /\ \A e \in run.events : e.kind = "prune"
            /\ \E gone \in SUBSET item.keys : run.bucket = bucket \ gone
         \/ /\ item.kind = "restore" /\ \A e \in run.events : e.kind = "restore"
            /\ run.bucket = bucket
  BY <1>a, <1>i, <1>1, HostOperation
<1>3. PICK how \in {"acked", "lost", "unacked", "died", "twice"} :
        /\ reports' = reports \cup
             CASE how \in {"lost", "died"} -> {}
               [] how = "twice" -> {[e EXCEPT !.twice = TRUE] : e \in run.events}
               [] OTHER -> run.events
        /\ unacked' = IF how \in {"unacked", "died"} THEN unacked \cup {item} ELSE unacked \ {item}
  BY <1>1, Zenon DEF Settle
<1>4. /\ Pending' \subseteq Pending
      /\ backupWork' \in Seq(Item) /\ unacked' \subseteq Item
  <2>1. PICK keep \in BOOLEAN : keep <=> how \in {"unacked", "died"}
    <3>1. (how \in {"unacked", "died"}) \in BOOLEAN
      OBVIOUS
    <3> QED
      BY <3>1
  <2>2. unacked' = IF keep THEN unacked \cup {item} ELSE unacked \ {item}
    BY <1>3, <2>1
  <2>3. \/ /\ backupWork # <<>> /\ item = Head(backupWork)
           /\ backupWork' = Tail(backupWork)
        \/ item \in unacked /\ UNCHANGED backupWork
    BY Zenon DEF handleMsg
  <2> QED
    BY <1>a, <2>2, <2>3, WorkTaken
<1>5. \A e \in reports' : e \in reports \/ \E f \in run.events : /\ e \in Event /\ e.kind = f.kind /\ e.id = f.id
                                                               /\ e.outcome = f.outcome
  <2>1. CASE how \in {"lost", "died"}
    BY <1>3, <2>1
  <2>2. CASE how = "twice"
    <3>1. reports' = reports \cup {[e EXCEPT !.twice = TRUE] : e \in run.events}
      BY <1>3, <2>2
    <3>2. \A f \in run.events : /\ [f EXCEPT !.twice = TRUE] \in Event
                                /\ [f EXCEPT !.twice = TRUE].kind = f.kind
                                /\ [f EXCEPT !.twice = TRUE].id = f.id
                                /\ [f EXCEPT !.twice = TRUE].outcome = f.outcome
      BY <1>2, EventFields, Zenon
    <3>3. ASSUME NEW e \in reports', e \notin reports
          PROVE  \E f \in run.events : /\ e \in Event /\ e.kind = f.kind /\ e.id = f.id
                                       /\ e.outcome = f.outcome
      <4>1. PICK f \in run.events : e = [f EXCEPT !.twice = TRUE]
        BY <3>1, <3>3
      <4> QED
        BY <3>2, <4>1, Zenon
    <3> QED
      BY <3>3, Zenon
  <2>3. CASE how \in {"acked", "unacked"}
    <3>1. reports' = reports \cup run.events
      BY <1>3, <2>3
    <3> QED
      BY <1>2, <3>1, Zenon
  <2> QED
    BY <2>1, <2>2, <2>3
<1>6. BackupsTypeOK'
  <2>1. reports' \subseteq Event
    BY <1>a, <1>5 DEF BackupsTypeOK
  <2> QED
    BY <1>a, <1>u, <1>1, <1>2, <1>4, <2>1 DEF BackupsTypeOK
<1>7. RestoresInOrder'
  BY <1>a, <1>u DEF RestoresInOrder
<1>8. Runs' = Runs /\ (\A r : Key(r)' = Key(r)) /\ Runs \subseteq Record
  BY <1>u DEF Runs, Key
<1>9. RecordsInOrder'
  <2>1. \A e \in reports' : e.kind = "backup" => e.id \in Runs
    BY <1>a, <1>2, <1>5 DEF RecordsInOrder
  <2> QED
    BY <1>a, <1>u, <1>4, <1>8, <2>1 DEF RecordsInOrder
<1>10. ASSUME ~SameSecond
       PROVE  ObjectsAccounted' /\ NewestSurvive'
  <2>a. ObjectsAccounted /\ NewestSurvive
    BY <1>10 DEF BackupsInv
  <2>1. ASSUME NEW r \in Record, Superseded(r)
        PROVE  Superseded(r)'
    <3>1. CASE bucket \subseteq bucket'
      <4>1. Newer(r) \subseteq Newer(r)'
        BY <1>u, <1>8, <3>1 DEF Newer
      <4> QED
        BY <1>u, <2>1, <4>1, StaysSuperseded
    <3>2. ASSUME NEW gone \in SUBSET item.keys, bucket' = bucket \ gone, item.kind = "prune"
          PROVE  Superseded(r)'
      <4>1. OnlySuperseded(gone)
        BY <2>a, <3>2 DEF ObjectsAccounted, OnlySuperseded
      <4>2. \A k \in bucket : \E q \in Runs : Key(q) = k
        BY <2>a DEF ObjectsAccounted
      <4>3. UNCHANGED record
        BY <1>u
      <4> QED
        BY <1>a, <1>10, <2>1, <3>2, <4>1, <4>2, <4>3, PruneKeeps
    <3> QED
      BY <1>1, <1>2, <3>1, <3>2
  <2>2. ASSUME NEW r \in Runs, Key(r) \in bucket
        PROVE  Key(r) \in bucket' \/ Superseded(r)'
    <3>1. CASE bucket \subseteq bucket'
      BY <2>2, <3>1
    <3>2. ASSUME NEW gone \in SUBSET item.keys, bucket' = bucket \ gone, item.kind = "prune", Key(r) \in gone
          PROVE  Superseded(r)'
      <4>1. PICK q \in Runs : Key(q) = Key(r) /\ Superseded(q)
        BY <2>a, <3>2 DEF ObjectsAccounted, OnlySuperseded
      <4>2. Superseded(r)
        BY <1>a, <1>10, <4>1, KeysDiffer
      <4> QED
        BY <1>8, <2>1, <4>2
    <3> QED
      BY <1>1, <1>2, <2>2, <3>1, <3>2
  <2>3. NewestSurvive'
    <3> SUFFICES ASSUME NEW q \in Record, record'[q].status \in {"succeeded", "deleted"},
                        Key(q)' \notin bucket'
                 PROVE  Superseded(q)'
      BY DEF NewestSurvive
    <3>1. q \in Runs /\ (Key(q) \in bucket \/ Superseded(q))
      BY <1>u, <2>a DEF NewestSurvive, Runs
    <3> QED
      BY <1>8, <2>1, <2>2, <3>1
  <2>4. \A k \in bucket' : \E q \in Runs' : Key(q)' = k
    BY <1>1, <1>2, <1>8, <2>a DEF ObjectsAccounted
  <2>5. ASSUME NEW e \in reports', e.kind = "backup", e.outcome = "succeeded"
        PROVE  Key(e.id)' \in bucket' \/ Superseded(e.id)'
    <3>1. CASE e \in reports
      <4>1. e.id \in Runs /\ (Key(e.id) \in bucket \/ Superseded(e.id))
        BY <1>a, <2>5, <2>a, <3>1 DEF ObjectsAccounted, RecordsInOrder
      <4> QED
        BY <1>8, <2>1, <2>2, <4>1
    <3>2. CASE e \notin reports
      <4>1. e.id = item.id /\ bucket' = bucket \cup {Key(item.id)}
        BY <1>1, <1>2, <1>5, <2>5, <3>2
      <4> QED
        BY <1>8, <4>1
    <3> QED
      BY <3>1, <3>2
  <2>6. \A it \in Pending' : it.kind = "prune" => OnlySuperseded(it.keys)'
    <3>1. \A keys : OnlySuperseded(keys) => OnlySuperseded(keys)'
      BY <1>8, <2>1 DEF OnlySuperseded
    <3> QED
      BY <1>4, <2>a, <3>1 DEF ObjectsAccounted
  <2> QED
    BY <2>3, <2>4, <2>5, <2>6 DEF ObjectsAccounted
<1> QED
  BY <1>6, <1>7, <1>9, <1>10 DEF BackupsInv

\* Nothing has run and nothing is kept.
LEMMA BackupsStart == BackupsInit => BackupsInv
<1> SUFFICES ASSUME BackupsInit
             PROVE  BackupsInv
  OBVIOUS
<1> USE BackupsAssumption
<1>1. /\ record = [r \in Record |-> NoRecord] /\ restore = [x \in Restore |-> NoRestore]
      /\ dbStatus = "running" /\ bucket = {}
      /\ backupWork = <<>> /\ unacked = {} /\ reports = {}
  BY DEF BackupsInit
<1>2. Pending = {} /\ Runs = {} /\ {x \in Restore : restore[x].status # "none"} = {} /\ 1..0 = {}
  BY <1>1 DEF Pending, Runs, NoRecord, NoRestore
<1>3. BackupsTypeOK
  <2>1. NoRecord \in [status : {"none", "running", "succeeded", "failed", "deleted"},
                      sched : Schedules, second : 0..MaxRecord, named : BOOLEAN]
    <3>1. (CHOOSE s \in Schedules : TRUE) \in Schedules
      OBVIOUS
    <3> QED
      BY <3>1 DEF NoRecord
  <2>2. NoRestore \in [status : {"none", "running", "succeeded", "failed"},
                       from : 0..MaxRecord, step : {"none", "fetching", "applying"}]
    BY DEF NoRestore
  <2> QED
    BY <1>1, <2>1, <2>2 DEF BackupsTypeOK
<1>4. RecordsInOrder
  <2>1. \A r \in Record : record[r] = NoRecord /\ record[r].second <= r
    BY <1>1 DEF NoRecord, Record
  <2>2. ~NoRecord.named
    BY DEF NoRecord
  <2>3. \A r \in Record : record[r].named => record[r].status = "succeeded"
    BY <2>1, <2>2
  <2>4. \E n \in 0..MaxRecord : Runs = 1..n
    BY <1>2
  <2> QED
    BY <1>1, <1>2, <2>1, <2>3, <2>4 DEF RecordsInOrder
<1>5. RestoresInOrder
  BY <1>2 DEF RestoresInOrder
<1>6. ObjectsAccounted /\ NewestSurvive
  BY <1>1, <1>2 DEF ObjectsAccounted, NewestSurvive, Runs
<1> QED
  BY <1>3, <1>4, <1>5, <1>6 DEF BackupsInv

\* Every step keeps the invariant of the backups.
LEMMA BackupsStepHolds == BackupsInv /\ [BackupsNext]_backupVars => BackupsInv'
<1> SUFFICES ASSUME BackupsInv, [BackupsNext]_backupVars
             PROVE  BackupsInv'
  OBVIOUS
<1>1. CASE (\E state \in {"running", "error"} : HandleDbStatus(state)) \/ UNCHANGED backupVars
  BY <1>1, StatusKeeps
<1>2. ASSUME NEW s \in Schedules, RunBackup(s)
      PROVE  BackupsInv'
  BY <1>2, RunBackupKeeps
<1>3. ASSUME NEW r \in Record, RunRestore(r)
      PROVE  BackupsInv'
  BY <1>3, RunRestoreKeeps
<1>4. ASSUME NEW e \in reports, Handle(e)
      PROVE  BackupsInv'
  <2>1. HandleDbBackupEvent(e) \/ HandleDbBackupPruneEvent(e) \/ HandleDbRestoreEvent(e)
    BY <1>4 DEF Handle
  <2> QED
    BY <1>4, <2>1, BackupEventKeeps, PruneEventKeeps, RestoreEventKeeps
<1>5. ASSUME NEW item \in Pending, handleMsg(item)
      PROVE  BackupsInv'
  BY <1>5, HandleMsgKeeps
<1> QED
  BY <1>1, <1>2, <1>3, <1>4, <1>5, Zenon DEF BackupsNext

\* Through lost and repeated reports, repeated work, failing uploads and prunes from old
\* lists: the rows are in order, and each object that retention may still take has enough
\* newer ones (backups.go, volume_backups.go).
THEOREM BackupsInvariance == BackupsSpec => []BackupsInv
<1>1. BackupsInit => BackupsInv
  BY BackupsStart
<1> QED
  BY <1>1, BackupsStepHolds, PTL DEF BackupsSpec

\* Retention never takes the newest objects of a schedule, for any number of schedules,
\* runs and faults and every retention count, as long as no two runs share a second and so
\* a key (dispatchRetentionPrune, ListBackupRecordsBeyondRetention).
THEOREM NewestSurviveHolds ==
  ASSUME ~SameSecond
  PROVE  BackupsSpec => []NewestSurvive
<1>1. BackupsInv => NewestSurvive
  BY DEF BackupsInv
<1> QED
  BY <1>1, BackupsInvariance, PTL

\* A closed restore stays closed, and its late and repeated events change nothing of the
\* database: a new restore has a row of its own, and the others are written while they run
\* (FinishDatabaseRestore, HandleDbRestoreEvent).
THEOREM ClosedRestoreStaysHolds == BackupsSpec => ClosedRestoreStays
<1> DEFINE Stays == /\ \A x \in Restore : restore[x].status \in {"succeeded", "failed"} =>
                         restore'[x] = restore[x]
                    /\ \A e \in reports : e.kind = "restore" /\ restore[e.id].status # "running"
                         /\ e \notin reports' => dbStatus' = dbStatus
<1>1. BackupsInv /\ [BackupsNext]_backupVars => [Stays]_backupVars
  <2> SUFFICES ASSUME BackupsInv, BackupsNext
               PROVE  Stays
    OBVIOUS
  <2>a. BackupsTypeOK /\ RestoresInOrder
    BY DEF BackupsInv
  <2>1. ASSUME NEW s \in Schedules, RunBackup(s)
        PROVE  Stays
    BY <2>1 DEF RunBackup
  <2>2. ASSUME NEW r \in Record, RunRestore(r)
        PROVE  Stays
    <3>1. PICK x \in Restore :
            /\ restore[x].status = "none"
            /\ restore' = [restore EXCEPT ![x] = [status |-> "running", from |-> r, step |-> "fetching"]]
      BY <2>a, <2>2, RestoreRow
    <3>2. \A y \in Restore : y # x => restore'[y] = restore[y]
      BY <2>a, <3>1 DEF BackupsTypeOK
    <3>3. UNCHANGED reports
      BY <2>2 DEF RunRestore
    <3> QED
      BY <3>1, <3>2, <3>3
  <2>3. ASSUME NEW state \in {"running", "error"}, HandleDbStatus(state)
        PROVE  Stays
    BY <2>3 DEF HandleDbStatus
  <2>4. ASSUME NEW e \in reports, Handle(e)
        PROVE  Stays
    <3>1. \A f \in reports : f \notin reports' => f = e
      BY <2>4, Zenon DEF Handle
    <3>2. CASE HandleDbBackupEvent(e) \/ HandleDbBackupPruneEvent(e)
      <4>1. UNCHANGED <<restore, dbStatus>>
        BY <3>2, Zenon DEF HandleDbBackupEvent, HandleDbBackupPruneEvent
      <4> QED
        BY <4>1
    <3>3. CASE HandleDbRestoreEvent(e)
      <4>1. CASE UNCHANGED <<restore, dbStatus>>
        BY <4>1
      <4>2. ASSUME NEW x, x = e.id, restore[x].status = "running",
                   \/ restore' = [restore EXCEPT ![x].step = e.outcome]
                   \/ restore' = [restore EXCEPT ![x].status = e.outcome]
            PROVE  Stays
        <5>1. \A y \in Restore : y # x => restore'[y] = restore[y]
          BY <2>a, <4>2 DEF BackupsTypeOK
        <5> QED
          BY <3>1, <4>2, <5>1
      <4> QED
        BY <3>3, <4>1, <4>2, Zenon DEF HandleDbRestoreEvent, AdvanceDatabaseRestore, FinishDatabaseRestore
    <3> QED
      BY <2>4, <3>2, <3>3 DEF Handle
  <2>5. ASSUME NEW item \in Pending, handleMsg(item)
        PROVE  Stays
    <3>1. UNCHANGED <<restore, dbStatus>>
      BY <2>5, Zenon DEF handleMsg
    <3> QED
      BY <3>1
  <2> QED
    BY <2>1, <2>2, <2>3, <2>4, <2>5, Zenon DEF BackupsNext
<1> QED
  BY <1>1, BackupsInvariance, PTL DEF BackupsSpec, ClosedRestoreStays
=============================================================================

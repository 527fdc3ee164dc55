----------------------------- MODULE HostProofs -----------------------------
(***************************************************************************)
(* Replacing a release and moving an image: proofs about the agent's self- *)
(* update (AgentUpdater), for every set of releases and every choice of    *)
(* the ones that hang, die or never load their identity, and about the     *)
(* image relay (ImageRelay), for any number of attempts, any size of the   *)
(* image and any number of lost calls.                                     *)
(***************************************************************************)
EXTENDS AgentUpdater, ImageRelay, FiniteSetTheorems, TLAPS

-----------------------------------------------------------------------------
(* The agent's self-update.                                                *)

\* systemd counts up to its limit, and what crowded records is TRUE or FALSE.
LEMMA StartsAreCounted ==
  ASSUME UpdaterTypeOK, [UpdaterNext]_updaterVars
  PROVE  starts' \in 0..StartLimitBurst /\ unit' \in {"active", "failed"} /\ crowded' \in BOOLEAN
<1>1. starts \in 0..StartLimitBurst /\ unit \in {"active", "failed"}
  BY DEF UpdaterTypeOK
<1>2. starts' = starts \/ starts' = 0 \/ (starts < StartLimitBurst /\ starts' = starts + 1)
  BY DEF UpdaterNext, UpdaterStep, updaterVars, systemd, SystemdStarts, StartLimitHit, IntervalEnds,
     LoadIdentity, Recover, Dial, DialedHome, Kill, ProbationEnds, Restore, ClearMarker,
     RecordRolledBack, Apply, Verify, Stage, WriteMarker, ClearPrev, KeepPrev, Install, Outage,
     Heal, SetChannel
<1>3. unit' = unit \/ unit' = "failed"
  BY DEF UpdaterNext, UpdaterStep, updaterVars, systemd, SystemdStarts, StartLimitHit, IntervalEnds,
     LoadIdentity, Recover, Dial, DialedHome, Kill, ProbationEnds, Restore, ClearMarker,
     RecordRolledBack, Apply, Verify, Stage, WriteMarker, ClearPrev, KeepPrev, Install, Outage,
     Heal, SetChannel
<1>4. \/ crowded' = crowded \/ crowded' = TRUE \/ crowded' = FALSE
      \/ crowded' = (crowded \/ running \notin Dies) \/ crowded' = (crowded \/ starts > 0)
  BY Zenon DEF UpdaterNext, UpdaterStep, updaterVars, systemd, SystemdStarts, StartLimitHit, IntervalEnds,
     LoadIdentity, Recover, Dial, DialedHome, Kill, ProbationEnds, Restore, ClearMarker,
     RecordRolledBack, Apply, Verify, Stage, WriteMarker, ClearPrev, KeepPrev, Install, Outage,
     Heal, SetChannel
<1>5. crowded' \in BOOLEAN
  BY <1>4, Zenon DEF UpdaterTypeOK
<1> QED
  BY <1>1, <1>2, <1>3, <1>5 DEF StartLimitBurst

\* Every step keeps the updater's invariant.
LEMMA UpdaterStepHolds == UpdaterInv /\ [UpdaterNext]_updaterVars => UpdaterInv'
<1> SUFFICES ASSUME UpdaterInv, [UpdaterNext]_updaterVars
             PROVE  UpdaterInv'
  OBVIOUS
<1>s. starts' \in 0..StartLimitBurst /\ unit' \in {"active", "failed"} /\ crowded' \in BOOLEAN
  BY StartsAreCounted DEF UpdaterInv
<1> USE UpdaterAssumption, <1>s DEF UpdaterInv, UpdaterTypeOK, RunsWhatIsInPlace, SwapsOnceHome,
      RollsWhileUp, disk, main, update, channel, bounds, faults
<1>n. NoVersion \notin Version
  BY DEF Version, NoVersion
<1>m. ASSUME NEW k \in Markers
      PROVE  /\ k.target \in Version /\ k.attempts \in 0..1
             /\ k.attempts < 1 => [k EXCEPT !.attempts = @ + 1] \in Markers
  BY DEF Markers, bootAttempts
<1>w. boot = "dial" => running \in Version
  OBVIOUS
<1>1. CASE Outage
  <2>1. reachable' \in BOOLEAN
    BY <1>1, Zenon DEF Outage
  <2> QED
    BY <1>1, <2>1, <1>n DEF Outage
<1>2. CASE Heal
  BY <1>2, <1>n DEF Heal
<1>3. CASE SystemdStarts \/ StartLimitHit \/ IntervalEnds
  BY <1>3, <1>n DEF SystemdStarts, StartLimitHit, IntervalEnds
<1>4. CASE LoadIdentity
  BY <1>4, <1>n DEF LoadIdentity, Gone
<1>5. CASE Recover
  <2>u. UNCHANGED <<binary, prev, note, running, update, channel, reachable, confirmed, rollFailed>>
    BY <1>5 DEF Recover
  <2>1. CASE /\ marker = NoMarker /\ boot' = "dial" /\ UNCHANGED <<armed, rolling, marker>>
    BY <1>5, <2>u, <2>1 DEF Recover
  <2>2. CASE /\ marker # NoMarker /\ armed' = marker /\ rolling' = "restore"
             /\ UNCHANGED <<boot, marker>>
    BY <1>5, <2>u, <2>2 DEF Recover
  <2>3. CASE /\ marker # NoMarker /\ marker.attempts < bootAttempts
             /\ armed' = [marker EXCEPT !.attempts = @ + 1] /\ marker' \in {armed', marker}
             /\ boot' = "dial" /\ UNCHANGED rolling
    <3>1. armed' \in Markers /\ marker' \in Markers
      BY <2>3, <1>m DEF bootAttempts
    <3>2. boot = "recover" /\ rolling = "none"
      BY <1>5 DEF Recover
    <3> QED
      BY <2>u, <2>3, <3>1, <3>2
  <2> QED
    BY <1>5, <2>1, <2>2, <2>3 DEF Recover
<1>6. CASE Dial
  <2>u. UNCHANGED <<binary, prev, marker, channel, reachable, rollFailed>> /\ note' = NoVersion
        /\ boot = "dial"
    BY <1>6 DEF Dial
  <2>1. CASE /\ boot' = "dialed" /\ confirmed' = confirmed \cup {running}
             /\ UNCHANGED <<running, armed, rolling, update>>
    <3>1. running \in Version /\ swapping = "none"
      BY <1>6, <1>w DEF Dial
    <3> QED
      BY <2>u, <2>1, <3>1
  <2>2. CASE Gone /\ UNCHANGED confirmed
    BY <2>u, <2>2, <1>n DEF Gone
  <2> QED
    BY <1>6, <2>1, <2>2 DEF Dial
<1>7. CASE DialedHome
  BY <1>7, <1>n DEF DialedHome
<1>8. CASE Kill
  BY <1>8, <1>n DEF Kill, Gone
<1>9. CASE ProbationEnds
  BY <1>9, <1>n DEF ProbationEnds
<1>10. CASE Restore
  <2>1. rollFailed' \in BOOLEAN
    BY <1>10, Zenon DEF Restore
  <2>2. CASE prev # NoVersion /\ binary' = prev /\ rolling' = "clear" /\ UNCHANGED <<armed, boot>>
    BY <1>10, <2>1, <2>2, <1>n DEF Restore
  <2>3. CASE /\ rolling' = "none" /\ armed' = NoMarker /\ UNCHANGED binary
             /\ boot' = IF boot = "recover" THEN "dial" ELSE boot
    BY <1>10, <2>1, <2>3, <1>n DEF Restore
  <2> QED
    BY <1>10, <2>2, <2>3 DEF Restore
<1>11. CASE ClearMarker
  BY <1>11, <1>n DEF ClearMarker
<1>12. CASE RecordRolledBack
  <2>1. note' \in Version
    BY <1>12, <1>m DEF RecordRolledBack
  <2> QED
    BY <1>12, <2>1, <1>n DEF RecordRolledBack, Gone
<1>13. CASE Apply
  BY <1>13, <1>n DEF Apply
<1>14. CASE Verify
  BY <1>14, <1>n DEF Verify, GiveUp
<1>15. CASE Stage
  BY <1>15, <1>n DEF Stage, GiveUp
<1>16. CASE WriteMarker
  <2>1. [target |-> goal, attempts |-> 0] \in Markers
    BY <1>16 DEF WriteMarker, Markers, bootAttempts
  <2> QED
    BY <1>16, <2>1, <1>n DEF WriteMarker, GiveUp
<1>17. CASE ClearPrev
  BY <1>17, <1>n DEF ClearPrev, GiveUp
<1>18. CASE KeepPrev
  BY <1>18, <1>n DEF KeepPrev, GiveUp
<1>19. CASE Install
  BY <1>19, <1>n DEF Install, Gone, GiveUp
<1>20. ASSUME NEW v \in Version \cup {NoVersion}, SetChannel(v)
      PROVE  UpdaterInv'
  BY <1>20 DEF SetChannel, goesBackwards
<1>21. CASE UNCHANGED updaterVars
  BY <1>21 DEF updaterVars
<1> QED
  BY <1>1, <1>2, <1>3, <1>4, <1>5, <1>6, <1>7, <1>8, <1>9, <1>10, <1>11, <1>12, <1>13, <1>14, <1>15, <1>16, <1>17, <1>18, <1>19, <1>20, <1>21
     DEF UpdaterNext, UpdaterStep

\* One release, in place and running.
LEMMA UpdaterStart == UpdaterInit => UpdaterInv
<1> SUFFICES ASSUME UpdaterInit
             PROVE  UpdaterInv
  OBVIOUS
<1>1. /\ reachable \in BOOLEAN /\ rollFailed \in BOOLEAN /\ rollbackFlag \in BOOLEAN
      /\ crowded \in BOOLEAN
  BY Zenon DEF UpdaterInit
<1>2. 1 \in Version /\ {1} \subseteq Version
  BY UpdaterAssumption DEF Version
<1>3. UpdaterTypeOK
  BY <1>1, <1>2 DEF UpdaterInit, UpdaterTypeOK, StartLimitBurst
<1> QED
  BY <1>2, <1>3 DEF UpdaterInit, UpdaterInv, RunsWhatIsInPlace, SwapsOnceHome, RollsWhileUp

\* The updater's invariant holds in every reachable state.
THEOREM UpdaterInvariance == UpdaterSpec => []UpdaterInv
<1> QED
  BY UpdaterStart, UpdaterStepHolds, PTL DEF UpdaterSpec

\* What a roll-back puts in place is a release that has dialled home on this host, whatever
\* died, failed or was installed before it: .prev is written by a process that is home, and
\* holds what that process runs (rollback, swap).
THEOREM RollsBackToConfirmedHolds == UpdaterSpec => RollsBackToConfirmed
<1>1. UpdaterInv /\ [UpdaterNext]_updaterVars =>
        [Restore /\ binary' # binary => binary' \in confirmed]_updaterVars
  BY DEF UpdaterInv, Restore
<1> QED
  BY <1>1, UpdaterInvariance, PTL DEF UpdaterSpec, RollsBackToConfirmed

\* Every step keeps the way back: only Install puts a release in place that has not dialled
\* home, and by then the marker is written and the previous binary kept; only a process that
\* is home, or has put the previous binary back, takes the marker away.
LEMMA WayBackStep == UpdaterInv /\ WayBack /\ WayKept /\ [UpdaterNext]_updaterVars => WayBack' /\ WayKept'
<1> SUFFICES ASSUME UpdaterInv, WayBack, WayKept, [UpdaterNext]_updaterVars
             PROVE  WayBack' /\ WayKept'
  OBVIOUS
<1> USE DEF WayBack, WayKept
<1>1. /\ boot # "down" => (rolling \in {"none", "restore"} => running = binary)
      /\ boot \in {"dialed", "serving"} => running \in confirmed
      /\ swapping # "none" => boot = "serving"
      /\ swapping \in {"clearPrev", "keepPrev", "install"} => rolling = "none"
      /\ boot = "down" => rolling = "none"
      /\ prev \in confirmed \cup {NoVersion} /\ NoVersion \notin confirmed
      /\ rolling \in {"none", "restore", "clear", "record"}
  BY DEF UpdaterInv, UpdaterTypeOK, RunsWhatIsInPlace, SwapsOnceHome, RollsWhileUp, Version, NoVersion
<1>2. swapping \in {"clearPrev", "keepPrev", "install"} => binary \in confirmed
  BY <1>1
<1>3. \A t : [target |-> t, attempts |-> 0] = NoMarker => t = NoVersion
  BY DEF NoMarker
<1>4. CASE UNCHANGED updaterVars
  BY <1>4 DEF updaterVars, disk, update
<1>5. CASE \/ Outage \/ Heal \/ SystemdStarts \/ StartLimitHit \/ IntervalEnds
           \/ \E v \in Version \cup {NoVersion} : SetChannel(v)
  BY <1>5 DEF Outage, Heal, SystemdStarts, StartLimitHit, IntervalEnds, SetChannel, disk, update, main
<1>6. CASE LoadIdentity \/ Kill \/ RecordRolledBack
  BY <1>1, <1>6 DEF LoadIdentity, Kill, RecordRolledBack, Gone, disk, update
<1>7. CASE Recover
  <2>1. /\ binary' = binary /\ prev' = prev /\ confirmed' = confirmed /\ swapping' = swapping
        /\ rolling' \in {"none", "restore"}
    BY <1>7 DEF Recover, update
  <2>2. marker # NoMarker => marker' # NoMarker
    <3>1. ASSUME marker # NoMarker, marker' = [marker EXCEPT !.attempts = @ + 1]
          PROVE  marker' # NoMarker
      <4>1. marker \in Markers
        BY <3>1 DEF UpdaterInv, UpdaterTypeOK
      <4>2. marker'.target \in Version
        BY <3>1, <4>1 DEF Markers
      <4> QED
        BY <4>2 DEF NoMarker, NoVersion, Version
    <3> QED
      BY <1>7, <3>1 DEF Recover
  <2> QED
    BY <2>1, <2>2
<1>8. CASE Dial
  <2>1. /\ binary' = binary /\ prev' = prev /\ marker' = marker
        /\ confirmed \subseteq confirmed'
        /\ \/ swapping' = swapping /\ rolling' = rolling
           \/ swapping' = "none" /\ rolling' = "none"
    BY <1>8 DEF Dial, Gone, update
  <2> QED
    BY <2>1
<1>9. CASE DialedHome
  <2>1. /\ binary' = binary /\ prev' = prev /\ confirmed' = confirmed /\ swapping' = swapping
        /\ rolling' = rolling /\ boot = "dialed"
    BY <1>9 DEF DialedHome, update
  <2>2. binary \in confirmed /\ swapping = "none"
    BY <1>1, <2>1
  <2> QED
    BY <2>1, <2>2
<1>10. CASE ProbationEnds
  BY <1>10 DEF ProbationEnds, disk, update
<1>11. CASE Restore
  <2>1. /\ prev' = prev /\ marker' = marker /\ confirmed' = confirmed /\ swapping' = swapping
        /\ \/ prev # NoVersion /\ binary' = prev /\ rolling' = "clear"
           \/ binary' = binary /\ rolling' = "none"
    BY <1>11 DEF Restore, update
  <2> QED
    BY <1>1, <2>1
<1>12. CASE ClearMarker
  <2>1. /\ rolling = "clear" /\ rolling' = "record" /\ binary' = binary /\ confirmed' = confirmed
        /\ swapping' = swapping
    BY <1>12 DEF ClearMarker, update
  <2> QED
    BY <1>1, <2>1
<1>13. CASE Apply \/ Verify \/ Stage
  <2>1. /\ UNCHANGED disk /\ rolling' = rolling /\ confirmed' = confirmed
        /\ swapping' \in {"none", "verify", "stage", "mark"}
    BY <1>13 DEF Apply, Verify, Stage, GiveUp
  <2> QED
    BY <2>1 DEF disk
<1>14. CASE WriteMarker
  <2>1. /\ binary' = binary /\ prev' = prev /\ confirmed' = confirmed /\ rolling' = rolling
        /\ \/ marker' = [target |-> goal, attempts |-> 0] /\ swapping' = "clearPrev"
           \/ swapping' = "none" /\ marker' = marker
    BY <1>14 DEF WriteMarker, GiveUp
  <2>2. goal # NoVersion
    BY <1>14 DEF WriteMarker, UpdaterInv, SwapsOnceHome, Version, NoVersion
  <2> QED
    BY <1>3, <2>1, <2>2
<1>15. CASE ClearPrev \/ KeepPrev
  <2>1. /\ binary' = binary /\ confirmed' = confirmed /\ rolling' = rolling
        /\ swapping \in {"clearPrev", "keepPrev"}
        /\ \/ prev' = NoVersion /\ swapping' = "keepPrev" /\ marker' = marker
           \/ prev' = binary /\ swapping' = "install" /\ marker' = marker
           \/ swapping' = "none"
    BY <1>15 DEF ClearPrev, KeepPrev, GiveUp
  <2> QED
    BY <1>1, <1>2, <2>1
<1>16. CASE Install
  <2>1. /\ prev' = prev /\ confirmed' = confirmed /\ swapping = "install" /\ swapping' = "none"
        /\ \/ marker' = marker /\ rolling' = "none"
           \/ binary' = binary /\ rolling' = rolling
    BY <1>16 DEF Install, Gone, GiveUp
  <2> QED
    BY <1>1, <1>2, <2>1
<1> QED
  BY <1>4, <1>5, <1>6, <1>7, <1>8, <1>9, <1>10, <1>11, <1>12, <1>13, <1>14, <1>15, <1>16
     DEF UpdaterNext, UpdaterStep

\* A release that has not dialled home is in place only with the marker that limits its
\* starts and with a previous binary that has dialled home: after any kill, outage or failing
\* file operation, what rollback needs is on the disk (agent/updater: update, swap, Recover,
\* DialedHome).  What NeverOffTheBus needs beyond it is that main reaches Recover.
THEOREM WayBackHolds == UpdaterSpec => []WayBack
<1>1. UpdaterInit => WayBack /\ WayKept
  BY DEF UpdaterInit, WayBack, WayKept
<1> QED
  BY <1>1, UpdaterInvariance, WayBackStep, PTL DEF UpdaterSpec

-----------------------------------------------------------------------------
(* The image relay.                                                        *)

\* A deployment has two calls per attempt, and so at most that many sessions.
LEMMA CallCount == IsFiniteSet(Calls) /\ Cardinality(Calls) = 2 * maxDeliveries
<1>1. Sides = {"push"} \cup {"pull"} /\ "push" # "pull"
  BY DEF Sides
<1>2. IsFiniteSet(Sides) /\ Cardinality(Sides) = 2
  <2>1. IsFiniteSet({"push"}) /\ Cardinality({"push"}) = 1 /\ "pull" \notin {"push"}
    BY FS_Singleton, <1>1
  <2> QED
    BY <1>1, <2>1, FS_AddElement
<1>3. IsFiniteSet(1..maxDeliveries) /\ Cardinality(1..maxDeliveries) = maxDeliveries
  BY FS_Interval, RelayAssumption
<1>4. /\ IsFiniteSet(Sides \X (1..maxDeliveries))
      /\ Cardinality(Sides \X (1..maxDeliveries)) = Cardinality(Sides) * Cardinality(1..maxDeliveries)
  BY <1>2, <1>3, FS_Product
<1> QED
  BY <1>2, <1>3, <1>4 DEF Calls

\* The call that makes a session was not there before: the sessions do not run out.
LEMMA RoomForSession ==
  ASSUME RelayTypeOK, SessionsAreNew, NEW c \in Calls, call[c] = "none",
         \A d \in Calls : d # c => call'[d] = call[d], call'[c] # "none"
  PROVE  /\ made + 1 <= Cardinality({d \in Calls : call'[d] # "none"})
         /\ made + 1 \in Session
<1> DEFINE S == {d \in Calls : call[d] # "none"}
           T == {d \in Calls : call'[d] # "none"}
<1>1. T = S \cup {c} /\ c \notin S /\ S \subseteq Calls /\ T \subseteq Calls
  OBVIOUS
<1>2. IsFiniteSet(S) /\ IsFiniteSet(T) /\ Cardinality(T) <= 2 * maxDeliveries
  BY <1>1, CallCount, FS_Subset
<1> HIDE DEF S, T
<1>3. Cardinality(T) = Cardinality(S) + 1 /\ Cardinality(S) \in Nat
  BY <1>1, <1>2, FS_AddElement, FS_CardinalityType
<1>4. made \in Nat /\ made <= Cardinality(S)
  BY DEF RelayTypeOK, SessionsAreNew, S
<1>5. made + 1 <= Cardinality(T)
  BY <1>3, <1>4
<1>6. made + 1 \in Session
  BY <1>2, <1>3, <1>4, <1>5, RelayAssumption DEF Session
<1> QED
  BY <1>5, <1>6 DEF T

\* The types of a call's record.
LEMMA CallFacts ==
  ASSUME RelayTypeOK, NEW c \in Calls
  PROVE  /\ c[1] \in Sides /\ c[2] \in 1..maxDeliveries /\ c = <<c[1], c[2]>>
         /\ call[c] \in {"none", "got", "waiting", "moving", "ok", "failed"}
         /\ at[c] \in Nat /\ at[c] \in 0..made /\ moved[c] \in Nat /\ moved[c] <= Size
         /\ made \in Nat /\ table \in Nat /\ table <= made /\ made <= 2 * maxDeliveries
BY RelayAssumption DEF RelayTypeOK, Calls

\* A session number that is in use is one of the sessions.
LEMMA SessionFacts ==
  ASSUME RelayTypeOK
  PROVE  1..made \subseteq Session /\ (table # NoSession => table \in 1..made)
BY RelayAssumption DEF RelayTypeOK, Session, NoSession

\* A late clean end of a pull that was given up is never taken back.
LEMMA LateEndStays ==
  ASSUME NEW s \in Session, LateEnd(s), lost \subseteq Calls, lost \subseteq lost',
         \A d \in Calls : call[d] = "ok" => call'[d] = "ok" /\ at'[d] = at[d]
  PROVE  LateEnd(s)'
BY DEF LateEnd

\* What a clean end says stays true, as long as nobody comes to its session any more and
\* nobody streams there.
LEMMA EndStays ==
  ASSUME NEW s \in Session, WholeEnd(s), lost \subseteq Calls, lost \subseteq lost',
         \A d \in Calls : call[d] = "ok" => call'[d] = "ok" /\ at'[d] = at[d],
         arrived[s] = Sides =>
           /\ arrived'[s] = Sides
           /\ \A q \in Calls : Claimed(q)' /\ at'[q] = s =>
                                 Claimed(q) /\ at[q] = s /\ moved'[q] = moved[q],
         s # table => s # table' /\ \A q \in Calls : at'[q] = s => at[q] = s
  PROVE  WholeEnd(s)'
<1>1. CASE LateEnd(s)
  BY <1>1, LateEndStays DEF WholeEnd
<1>2. CASE arrived[s] = Sides /\ \A q \in Calls : q[1] = "pull" /\ Claimed(q) /\ at[q] = s => moved[q] = Size
  BY <1>2 DEF WholeEnd
<1>3. CASE s # table /\ \A q \in Calls : q[1] = "pull" => at[q] # s
  BY <1>3 DEF WholeEnd
<1> QED
  BY <1>1, <1>2, <1>3 DEF WholeEnd

\* The ends of the pulls stay as they are; one that is new has the whole image, or an earlier
\* pull was given up and ended late.
LEMMA CleanEndsStay ==
  ASSUME CleanEndIsWhole, lost \subseteq lost',
         \A d \in Calls : call[d] = "ok" => call'[d] = "ok" /\ moved'[d] = moved[d],
         \A n \in 1..maxDeliveries :
           call'[<<"pull", n>>] = "ok" /\ call[<<"pull", n>>] # "ok" =>
             \/ moved'[<<"pull", n>>] = Size
             \/ \E m \in 1..(n - 1) : <<"pull", m>> \in lost /\ call[<<"pull", m>>] = "ok"
  PROVE  CleanEndIsWhole'
<1>1. \A n \in 1..maxDeliveries : <<"pull", n>> \in Calls
  BY DEF Calls, Sides
<1>2. ASSUME NEW n \in 1..maxDeliveries, NEW m \in 1..(n - 1)
      PROVE  <<"pull", m>> \in Calls
  <2>1. m \in 1..maxDeliveries
    BY RelayAssumption
  <2> QED
    BY <1>1, <2>1
<1> QED
  BY <1>1, <1>2 DEF CleanEndIsWhole

\* Calls that have their sessions keep them in their turn.
LEMMA TurnsStay ==
  ASSUME SessionsInTurn, at' = at, made' = made, table' \in {table, NoSession},
         \A d \in Calls : call'[d] = "none" => call[d] = "none"
  PROVE  SessionsInTurn'
BY DEF SessionsInTurn

\* A call returns and drops the session of the deployment, whichever that is by now: the
\* session that was in the table is closed, with that cause.
LEMMA EndsWithDrop ==
  ASSUME RelayInv, NEW c \in Calls, Busy(c), NEW outcome \in {"ok", "failed"},
         NEW cause \in {"eof", "error"},
         outcome = "ok" =>
           \/ moved[c] = Size
           \/ \E m \in 1..(c[2] - 1) : <<"pull", m>> \in lost /\ call[<<"pull", m>>] = "ok",
         cause = "eof" => \A s \in Session : s = table /\ pipe[s] = "open" => WholeEnd(s)',
         call' = [call EXCEPT ![c] = outcome],
         UNCHANGED <<made, arrived, at, moved, lost, distributing>>, image' \in BOOLEAN,
         table' = NoSession,
         pipe' = IF table # NoSession /\ pipe[table] = "open"
                 THEN [pipe EXCEPT ![table] = cause] ELSE pipe
  PROVE  RelayInv'
<1>t. RelayTypeOK /\ CallsInStep /\ SessionsInTurn /\ call[c] # "none"
  BY DEF RelayInv, Busy
<1>p. /\ pipe' \in [Session -> {"open", "eof", "error"}]
      /\ \A s \in Session : \/ s # table /\ pipe'[s] = pipe[s]
                            \/ s = table /\ pipe'[s] # "open" /\ pipe'[s] \in {pipe[s], cause}
      /\ \A s \in Session : pipe'[s] # pipe[s] => s = table /\ pipe[s] = "open" /\ pipe'[s] = cause
  <2>1. pipe \in [Session -> {"open", "eof", "error"}]
    BY <1>t DEF RelayTypeOK
  <2>2. table # NoSession => table \in Session
    BY <1>t, SessionFacts
  <2>3. NoSession \notin Session
    BY DEF NoSession, Session
  <2>4. CASE table # NoSession /\ pipe[table] = "open"
    BY <2>1, <2>2, <2>4
  <2>5. CASE ~(table # NoSession /\ pipe[table] = "open")
    BY <2>1, <2>3, <2>5
  <2> QED
    BY <2>4, <2>5
<1>o. /\ call'[c] = outcome /\ \A d \in Calls : d # c => call'[d] = call[d]
      /\ call' \in [Calls -> {"none", "got", "waiting", "moving", "ok", "failed"}]
  BY <1>t DEF RelayTypeOK
<1>l. \A d \in Calls : (Claimed(d)' => Claimed(d)) /\ (Past(d) => Past(d)')
                       /\ (call'[d] # "none" <=> call[d] # "none")
                       /\ (Busy(d)' => Busy(d))
  BY <1>o, <1>t DEF Claimed, Past, Busy
<1>1. RelayTypeOK'
  <2>1. table' \in 0..made'
    BY <1>t DEF RelayTypeOK, NoSession
  <2> QED
    BY <2>1, <1>t, <1>p, <1>o DEF RelayTypeOK
<1>2. SessionsAreNew'
  <2>1. {d \in Calls : call'[d] # "none"} = {d \in Calls : call[d] # "none"}
    BY <1>l
  <2>2. ASSUME NEW s \in Session, s > made
        PROVE  arrived[s] = {} /\ pipe'[s] = "open"
    <3>1. s # table
      BY <2>2, <1>t, CallFacts DEF Session
    <3> QED
      BY <2>2, <3>1, <1>p DEF RelayInv, SessionsAreNew
  <2> QED
    BY <2>1, <2>2 DEF RelayInv, SessionsAreNew
<1>3. CallsInStep'
  BY <1>l, <1>o, <1>t DEF CallsInStep
<1>4. OneClaim' /\ SameMoved'
  BY <1>l DEF RelayInv, OneClaim, SameMoved
<1>5. InTurn'
  BY <1>l DEF RelayInv, InTurn
<1>k. /\ lost \subseteq Calls
      /\ \A d \in Calls : call[d] = "ok" => call'[d] = "ok"
      /\ NoSession \notin Session
  BY <1>t, <1>o DEF RelayTypeOK, Busy, NoSession, Session
<1>6. EofIsWhole'
  <2> SUFFICES ASSUME NEW s \in Session, pipe'[s] = "eof"
               PROVE  WholeEnd(s)'
    BY DEF EofIsWhole
  <2>1. CASE pipe[s] = "eof"
    <3>1. WholeEnd(s)
      BY <2>1 DEF RelayInv, EofIsWhole
    <3> QED
      BY <3>1, <1>k, <1>l, EndStays
  <2>2. CASE pipe[s] # "eof"
    BY <2>2, <1>p
  <2> QED
    BY <2>1, <2>2
<1>7. TableIsHeld'
  BY DEF TableIsHeld
<1>8. SessionsInStep'
  <2>1. \A s \in 1..made : pipe'[s] # "open"
    BY <1>p, <1>t, SessionFacts DEF RelayInv, SessionsInStep
  <2> QED
    BY <2>1 DEF SessionsInStep
<1>9. CleanEndIsWhole' /\ SessionsInTurn'
  <2>1. SessionsInTurn'
    BY <1>t, <1>l, TurnsStay
  <2>2. \A n \in 1..maxDeliveries : <<"pull", n>> \in Calls
    BY DEF Calls, Sides
  <2>3. ASSUME NEW n \in 1..maxDeliveries, call'[<<"pull", n>>] = "ok", call[<<"pull", n>>] # "ok"
        PROVE  \/ moved[<<"pull", n>>] = Size
               \/ \E m \in 1..(n - 1) : <<"pull", m>> \in lost /\ call[<<"pull", m>>] = "ok"
    <3>1. c = <<"pull", n>> /\ outcome = "ok"
      BY <1>o, <2>2, <2>3
    <3>2. c[2] = n
      BY <3>1
    <3> QED
      BY <3>1, <3>2
  <2>4. CleanEndIsWhole'
    BY <1>k, <2>3, CleanEndsStay DEF RelayInv
  <2> QED
    BY <2>1, <2>4
<1> QED
  BY <1>1, <1>2, <1>3, <1>4, <1>5, <1>6, <1>7, <1>8, <1>9 DEF RelayInv

\* A call is refused: once the deployment is not distributing any more, or because its
\* side of the session is taken.  Who took it holds the session.
LEMMA Refused ==
  ASSUME RelayInv, NEW c \in Calls, NEW outcome \in {"ok", "failed"},
         \/ call[c] = "none" /\ (outcome = "ok" => c[1] = "push")
         \/ call[c] = "got" /\ c[1] \in arrived[at[c]] /\ outcome = "failed",
         \A d \in Calls : d[1] = c[1] /\ d[2] < c[2] => Past(d),
         call' = [call EXCEPT ![c] = outcome],
         UNCHANGED <<sessionVars, at, moved, lost, image, distributing>>
  PROVE  RelayInv'
<1>t. RelayTypeOK /\ CallsInStep /\ UNCHANGED <<table, made, arrived, pipe>>
  BY DEF RelayInv, sessionVars
<1>o. /\ call'[c] = outcome /\ \A d \in Calls : d # c => call'[d] = call[d]
      /\ call' \in [Calls -> {"none", "got", "waiting", "moving", "ok", "failed"}]
  BY <1>t DEF RelayTypeOK
<1>l. \A d \in Calls : (Claimed(d)' => Claimed(d)) /\ (Past(d) => Past(d)')
                       /\ (call[d] # "none" => call'[d] # "none") /\ (Busy(d)' => Busy(d))
  BY <1>o, <1>t DEF Claimed, Past, Busy, CallsInStep
<1>1. RelayTypeOK'
  BY <1>t, <1>o DEF RelayTypeOK
<1>2. SessionsAreNew'
  <2> DEFINE S == {d \in Calls : call[d] # "none"}
             T == {d \in Calls : call'[d] # "none"}
  <2>1. S \subseteq T /\ T \subseteq Calls
    BY <1>l
  <2>2. IsFiniteSet(T) /\ IsFiniteSet(S) /\ Cardinality(S) <= Cardinality(T)
    BY <2>1, CallCount, FS_Subset
  <2>3. Cardinality(S) \in Nat /\ Cardinality(T) \in Nat
    BY <2>2, FS_CardinalityType
  <2> HIDE DEF S, T
  <2>4. made <= Cardinality(S) /\ made \in Nat
    BY DEF RelayInv, SessionsAreNew, RelayTypeOK, S
  <2>5. made <= Cardinality(T)
    BY <2>2, <2>3, <2>4
  <2> QED
    BY <2>5, <1>t DEF RelayInv, SessionsAreNew, T
<1>3. CallsInStep'
  BY <1>l, <1>o, <1>t DEF CallsInStep
<1>4. OneClaim' /\ SameMoved'
  BY <1>l DEF RelayInv, OneClaim, SameMoved
<1>5. InTurn'
  BY <1>l, <1>o DEF RelayInv, InTurn
<1>k. lost \subseteq Calls /\ \A d \in Calls : call[d] = "ok" => call'[d] = "ok"
  BY <1>t, <1>o DEF RelayTypeOK
<1>6. EofIsWhole'
  <2> SUFFICES ASSUME NEW s \in Session, pipe[s] = "eof"
               PROVE  WholeEnd(s)'
    BY <1>t DEF EofIsWhole
  <2>1. WholeEnd(s)
    BY DEF RelayInv, EofIsWhole
  <2> QED
    BY <2>1, <1>t, <1>k, <1>l, EndStays
<1>h. \A d \in Calls : call[d] \in {"waiting", "moving"} => call'[d] = call[d]
  BY <1>o
<1>7. TableIsHeld'
  BY <1>t, <1>h DEF RelayInv, TableIsHeld
<1>8. SessionsInStep'
  <2> SUFFICES ASSUME table # NoSession
               PROVE  \E d \in Calls : Busy(d)' /\ at[d] = table
    BY <1>t DEF RelayInv, SessionsInStep
  <2>1. PICK d \in Calls : Busy(d) /\ at[d] = table
    BY DEF RelayInv, SessionsInStep
  <2>2. CASE d # c
    BY <2>1, <2>2, <1>o DEF Busy
  <2>3. CASE d = c
    <3>1. c[1] \in arrived[table] /\ c[1] \in Sides
      BY <2>1, <2>3, <1>t, CallFacts DEF Busy
    <3>2. PICK e \in Calls : at[e] = table /\ call[e] \in {"waiting", "moving"}
      BY <3>1 DEF RelayInv, TableIsHeld, Sides
    <3> QED
      BY <3>2, <1>h DEF Busy
  <2> QED
    BY <2>2, <2>3
<1>9. CleanEndIsWhole' /\ SessionsInTurn'
  <2>1. SessionsInTurn'
    BY <1>t, <1>l, TurnsStay DEF RelayInv
  <2>2. \A n \in 1..maxDeliveries : <<"pull", n>> \in Calls /\ <<"pull", n>>[1] = "pull"
    BY DEF Calls, Sides
  <2>3. CleanEndIsWhole'
    BY <1>k, <1>o, <2>2, CleanEndsStay DEF RelayInv
  <2> QED
    BY <2>1, <2>3
<1> QED
  BY <1>1, <1>2, <1>3, <1>4, <1>5, <1>6, <1>7, <1>8, <1>9 DEF RelayInv

\* A side's attempts come in turn: a call that arrives has all the earlier ones behind it.
LEMMA TurnOf ==
  ASSUME RelayInv, NEW side \in Sides, NEW n \in 1..maxDeliveries, Redelivered(side, n)
  PROVE  \A d \in Calls : d[1] = side /\ d[2] < n => Past(d)
<1> SUFFICES ASSUME NEW d \in Calls, d[1] = side, d[2] < n
             PROVE  Past(d)
  OBVIOUS
<1>t. RelayTypeOK /\ CallsInStep /\ InTurn
  BY DEF RelayInv
<1>1. d[2] \in 1..maxDeliveries /\ d = <<side, d[2]>>
  BY <1>t, CallFacts
<1> DEFINE before == <<side, n - 1>>
<1>2. n > 1 /\ n - 1 \in 1..maxDeliveries
  BY <1>1, RelayAssumption
<1>3. before \in Calls /\ before[1] = side /\ before[2] = n - 1
  BY <1>2 DEF Calls
<1>4. Past(before) /\ call[before] # "none"
  <2>1. \/ call[before] = "failed" \/ before \in lost \/ (side = "pull" /\ call[before] = "ok")
    BY <1>2 DEF Redelivered
  <2> HIDE DEF before
  <2> QED
    BY <2>1, <1>3, <1>t DEF Past, CallsInStep
<1>5. CASE d[2] = n - 1
  BY <1>1, <1>4, <1>5
<1>6. CASE d[2] < n - 1
  <2> HIDE DEF before
  <2> QED
    BY <1>3, <1>4, <1>6, <1>t DEF InTurn
<1> QED
  BY <1>1, <1>2, <1>5, <1>6

\* A call arrives and gets the session of the deployment, or makes one.
LEMMA Arrives ==
  ASSUME RelayInv, NEW c \in Calls, call[c] = "none",
         \A d \in Calls : d[1] = c[1] /\ d[2] < c[2] => Past(d),
         call' = [call EXCEPT ![c] = "got"], at' = [at EXCEPT ![c] = table'],
         \/ table # NoSession /\ UNCHANGED <<table, made>>
         \/ table = NoSession /\ made' = made + 1 /\ table' = made + 1,
         UNCHANGED <<moved, arrived, pipe, lost, image, distributing>>
  PROVE  RelayInv'
<1>t. RelayTypeOK /\ CallsInStep /\ InTurn
  BY DEF RelayInv
<1>o. /\ call'[c] = "got" /\ \A d \in Calls : d # c => call'[d] = call[d] /\ at'[d] = at[d]
      /\ at'[c] = table'
      /\ call' \in [Calls -> {"none", "got", "waiting", "moving", "ok", "failed"}]
  BY <1>t DEF RelayTypeOK
<1>r. /\ made + 1 <= Cardinality({d \in Calls : call'[d] # "none"})
      /\ made + 1 \in Session
  BY <1>o, <1>t, RoomForSession DEF RelayInv
<1>m. /\ made \in Nat /\ made' \in Nat /\ made <= made' /\ made' <= made + 1
      /\ table' \in 1..made' /\ made' \in 0..(2 * maxDeliveries)
  BY <1>t, <1>r, RelayAssumption DEF RelayTypeOK, NoSession, Session
<1>a. \A d \in Calls : at[d] \in 0..made
  BY <1>t DEF RelayTypeOK
<1>l. \A d \in Calls : /\ Claimed(d)' <=> Claimed(d)
                       /\ Past(d) <=> Past(d)'
                       /\ Claimed(d) => d # c
  BY <1>o, <1>t DEF Claimed, Past, CallsInStep
<1>1. RelayTypeOK'
  <2>1. at' \in [Calls -> 0..made']
    <3>1. at \in [Calls -> 0..made'] /\ table' \in 0..made'
      BY <1>t, <1>m DEF RelayTypeOK
    <3> QED
      BY <3>1
  <2>2. table' \in 0..made'
    BY <1>m
  <2> QED
    BY <2>1, <2>2, <1>m, <1>o, <1>t DEF RelayTypeOK
<1>2. SessionsAreNew'
  <2>1. made' <= Cardinality({d \in Calls : call'[d] # "none"})
    <3>1. Cardinality({d \in Calls : call'[d] # "none"}) \in Nat
      BY CallCount, FS_Subset, FS_CardinalityType
    <3> QED
      BY <3>1, <1>r, <1>m
  <2>2. \A s \in Session : s > made' => s > made
    BY <1>m DEF Session
  <2> QED
    BY <2>1, <2>2 DEF RelayInv, SessionsAreNew
<1>3. CallsInStep'
  <2> SUFFICES ASSUME NEW d \in Calls
               PROVE  /\ d \in lost => call'[d] # "none"
                      /\ Busy(d)' \/ moved[d] > 0 => at'[d] \in 1..made'
                      /\ call'[d] \in {"none", "got", "waiting"} => moved[d] = 0
                      /\ Claimed(d)' => d[1] \in arrived[at'[d]]
                      /\ call'[d] = "moving" \/ moved[d] > 0 => arrived[at'[d]] = Sides
    BY DEF CallsInStep
  <2>1. CASE d = c
    BY <2>1, <1>o, <1>m, <1>l, <1>t DEF CallsInStep
  <2>2. CASE d # c
    <3>1. Busy(d)' = Busy(d) /\ at'[d] = at[d] /\ call'[d] = call[d]
      BY <2>2, <1>o DEF Busy
    <3>2. 1..made \subseteq 1..made'
      BY <1>m
    <3> QED
      BY <3>1, <3>2, <1>l, <1>t DEF CallsInStep
  <2> QED
    BY <2>1, <2>2
<1>4. OneClaim' /\ SameMoved'
  BY <1>l, <1>o DEF RelayInv, OneClaim, SameMoved
<1>5. InTurn'
  BY <1>l, <1>o, <1>t DEF InTurn
<1>k. lost \subseteq Calls /\ \A d \in Calls : call[d] = "ok" => call'[d] = "ok" /\ at'[d] = at[d]
  BY <1>t, <1>o DEF RelayTypeOK
<1>6. EofIsWhole'
  <2> SUFFICES ASSUME NEW s \in Session, pipe[s] = "eof"
               PROVE  WholeEnd(s)'
    BY DEF EofIsWhole
  <2>1. WholeEnd(s) /\ s <= made /\ s \in Nat
    BY <1>m DEF RelayInv, EofIsWhole, SessionsAreNew, Session
  <2>2. s # table => s # table'
    BY <2>1, <1>m
  <2>3. s # table => \A q \in Calls : at'[q] = s => at[q] = s
    BY <2>2, <1>o
  <2>4. \A q \in Calls : Claimed(q)' /\ at'[q] = s => Claimed(q) /\ at[q] = s
    BY <1>l, <1>o
  <2> QED
    BY <2>1, <2>2, <2>3, <2>4, <1>k, EndStays
<1>i. SessionsInTurn'
  <2>1. SessionsInTurn
    BY DEF RelayInv
  <2>2. table' \in {NoSession, made'}
    BY <2>1, <1>t, <1>m DEF SessionsInTurn
  <2>3. \A d \in Calls : call'[d] = "none" => at'[d] = NoSession
    BY <2>1, <1>o DEF SessionsInTurn
  <2>4. table' = made'
    BY <2>2, <1>m DEF NoSession
  <2>5. ASSUME NEW d \in Calls, NEW e \in Calls, d[1] = e[1], d[2] < e[2], at'[e] # NoSession
        PROVE  at'[d] <= at'[e]
    <3>1. d # e
      BY <2>5, <1>t, CallFacts, RelayAssumption
    <3>2. CASE e = c
      BY <2>4, <3>1, <3>2, <1>o, <1>a, <1>m
    <3>3. CASE d = c
      <4>1. call[e] # "none"
        BY <2>1, <2>5, <3>1, <3>3, <1>o DEF SessionsInTurn
      <4> QED
        BY <2>5, <3>3, <4>1, <1>t DEF InTurn, Past, CallsInStep
    <3>4. CASE d # c /\ e # c
      BY <2>1, <2>5, <3>4, <1>o DEF SessionsInTurn
    <3> QED
      BY <3>2, <3>3, <3>4
  <2> QED
    BY <2>2, <2>3, <2>5 DEF SessionsInTurn
<1>h. \A d \in Calls : call[d] \in {"waiting", "moving"} => call'[d] = call[d] /\ at'[d] = at[d]
  BY <1>o
<1>7. TableIsHeld'
  <2>1. CASE table' = table /\ table # NoSession
    BY <2>1, <1>h DEF RelayInv, TableIsHeld
  <2>2. CASE table' = made + 1
    <3>1. arrived[made + 1] = {}
      BY <1>r, <1>m DEF RelayInv, SessionsAreNew
    <3> QED
      BY <2>2, <3>1 DEF TableIsHeld
  <2> QED
    BY <2>1, <2>2
<1>8. SessionsInStep'
  <2>1. Busy(c)' /\ at'[c] = table'
    BY <1>o DEF Busy
  <2>2. ASSUME NEW s \in 1..made', s # table'
        PROVE  pipe[s] # "open"
    <3>1. s \in 1..made /\ s # table
      BY <2>2, <1>m DEF NoSession
    <3> QED
      BY <3>1 DEF RelayInv, SessionsInStep
  <2> QED
    BY <2>1, <2>2 DEF SessionsInStep
<1>9. CleanEndIsWhole'
  <2>1. \A n \in 1..maxDeliveries : <<"pull", n>> \in Calls
    BY DEF Calls, Sides
  <2> QED
    BY <2>1, <1>k, <1>o, CleanEndsStay DEF RelayInv
<1> QED
  BY <1>1, <1>2, <1>3, <1>4, <1>5, <1>6, <1>i, <1>7, <1>8, <1>9 DEF RelayInv

\* A call claims its side of its session: nobody has before, so nothing was moved there.
LEMMA Claims ==
  ASSUME RelayInv, NEW c \in Calls, call[c] = "got", c[1] \notin arrived[at[c]],
         arrived' = [arrived EXCEPT ![at[c]] = @ \cup {c[1]}],
         call' = [call EXCEPT ![c] = "waiting"],
         UNCHANGED <<at, moved, table, made, pipe, lost, image, distributing>>
  PROVE  RelayInv'
<1>t. RelayTypeOK /\ CallsInStep
  BY DEF RelayInv
<1>o. /\ call'[c] = "waiting" /\ \A d \in Calls : d # c => call'[d] = call[d]
      /\ call' \in [Calls -> {"none", "got", "waiting", "moving", "ok", "failed"}]
  BY <1>t DEF RelayTypeOK
<1>s. at[c] \in 1..made /\ at[c] \in Session /\ moved[c] = 0 /\ c[1] \in Sides /\ made \in Nat
  BY <1>t, SessionFacts, CallFacts DEF CallsInStep, Busy
<1>a. /\ arrived'[at[c]] = arrived[at[c]] \cup {c[1]}
      /\ \A s \in Session : arrived[s] \subseteq arrived'[s] /\ (s # at[c] => arrived'[s] = arrived[s])
      /\ arrived' \in [Session -> SUBSET Sides]
  BY <1>t, <1>s DEF RelayTypeOK
<1>l. \A d \in Calls : /\ d # c => (Claimed(d)' <=> Claimed(d))
                       /\ Past(d) => Past(d)'
                       /\ call'[d] # "none" <=> call[d] # "none"
                       /\ Busy(d)' <=> Busy(d)
  BY <1>o DEF Claimed, Past, Busy
<1>n. \A d \in Calls : Claimed(d) /\ at[d] = at[c] => d[1] # c[1] /\ moved[d] = 0
  <2> SUFFICES ASSUME NEW d \in Calls, Claimed(d), at[d] = at[c]
               PROVE  d[1] # c[1] /\ moved[d] = 0
    OBVIOUS
  <2>1. d[1] \in arrived[at[c]]
    BY <1>t DEF CallsInStep
  <2>2. ~(moved[d] > 0)
    BY <1>s, <1>t DEF CallsInStep
  <2> QED
    BY <2>1, <2>2, <1>t, CallFacts
<1>1. RelayTypeOK'
  BY <1>t, <1>o, <1>a DEF RelayTypeOK
<1>2. SessionsAreNew'
  <2>1. {d \in Calls : call'[d] # "none"} = {d \in Calls : call[d] # "none"}
    BY <1>l
  <2>2. \A s \in Session : s > made => arrived'[s] = arrived[s]
    BY <1>a, <1>s DEF Session
  <2> QED
    BY <2>1, <2>2 DEF RelayInv, SessionsAreNew
<1>3. CallsInStep'
  <2> SUFFICES ASSUME NEW d \in Calls
               PROVE  /\ d \in lost => call'[d] # "none"
                      /\ Busy(d)' \/ moved[d] > 0 => at[d] \in 1..made
                      /\ call'[d] \in {"none", "got", "waiting"} => moved[d] = 0
                      /\ Claimed(d)' => d[1] \in arrived'[at[d]]
                      /\ call'[d] = "moving" \/ moved[d] > 0 => arrived'[at[d]] = Sides
    BY DEF CallsInStep
  <2>1. CASE d = c
    BY <2>1, <1>o, <1>s, <1>a, <1>t DEF CallsInStep
  <2>2. CASE d # c
    <3>1. Claimed(d) => at[d] \in 1..made
      BY <1>t DEF CallsInStep, Claimed, Busy
    <3>2. Claimed(d) => arrived[at[d]] \subseteq arrived'[at[d]] /\ arrived'[at[d]] \subseteq Sides
      BY <3>1, <1>a, <1>t, SessionFacts
    <3>3. call[d] = "moving" \/ moved[d] > 0 => Claimed(d)
      BY DEF Claimed
    <3> QED
      BY <2>2, <3>2, <3>3, <1>l, <1>o, <1>t DEF CallsInStep
  <2> QED
    BY <2>1, <2>2
<1>4. OneClaim'
  BY <1>n, <1>l DEF RelayInv, OneClaim
<1>5. SameMoved'
  BY <1>n, <1>l, <1>s DEF RelayInv, SameMoved
<1>6. InTurn'
  BY <1>l DEF RelayInv, InTurn
<1>k. lost \subseteq Calls /\ \A d \in Calls : call[d] = "ok" => call'[d] = "ok"
  BY <1>t, <1>o DEF RelayTypeOK
<1>7. EofIsWhole'
  <2> SUFFICES ASSUME NEW s \in Session, pipe[s] = "eof"
               PROVE  WholeEnd(s)'
    BY DEF EofIsWhole
  <2>1. WholeEnd(s)
    BY DEF RelayInv, EofIsWhole
  <2>2. arrived[s] = Sides => at[c] # s /\ arrived'[s] = Sides
    BY <1>s, <1>a
  <2>3. arrived[s] = Sides => \A q \in Calls : Claimed(q)' /\ at[q] = s => Claimed(q)
    BY <2>2, <1>l
  <2> QED
    BY <2>1, <2>2, <2>3, <1>k, EndStays
<1>8. TableIsHeld'
  <2> SUFFICES ASSUME table # NoSession
               PROVE  /\ "pull" \in arrived'[table] =>
                           \E q \in Calls : /\ q[1] = "pull" /\ at[q] = table
                                            /\ call'[q] \in {"waiting", "moving"}
                      /\ "push" \in arrived'[table] =>
                           \/ "pull" \in arrived'[table]
                           \/ \E p \in Calls : /\ p[1] = "push" /\ at[p] = table
                                               /\ call'[p] \in {"waiting", "moving"}
    BY DEF TableIsHeld
  <2>1. \A d \in Calls : call[d] \in {"waiting", "moving"} => call'[d] = call[d]
    BY <1>o
  <2>2. CASE at[c] = table
    BY <2>1, <2>2, <1>a, <1>o, <1>s DEF RelayInv, TableIsHeld
  <2>3. CASE at[c] # table
    <3>1. arrived'[table] = arrived[table]
      BY <2>3, <1>a, <1>t, SessionFacts
    <3> QED
      BY <2>1, <3>1 DEF RelayInv, TableIsHeld
  <2> QED
    BY <2>2, <2>3
<1>9. SessionsInStep' /\ CleanEndIsWhole' /\ SessionsInTurn'
  <2>1. SessionsInStep'
    BY <1>l DEF RelayInv, SessionsInStep
  <2>2. \A n \in 1..maxDeliveries : <<"pull", n>> \in Calls
    BY DEF Calls, Sides
  <2>3. CleanEndIsWhole'
    BY <2>2, <1>k, <1>o, CleanEndsStay DEF RelayInv
  <2>4. SessionsInTurn'
    BY <1>l, TurnsStay DEF RelayInv
  <2> QED
    BY <2>1, <2>3, <2>4
<1> QED
  BY <1>1, <1>2, <1>3, <1>4, <1>5, <1>6, <1>7, <1>8, <1>9 DEF RelayInv

\* A call that waits finds its peer.
LEMMA Meets ==
  ASSUME RelayInv, NEW c \in Calls, call[c] = "waiting", arrived[at[c]] = Sides,
         call' = [call EXCEPT ![c] = "moving"],
         UNCHANGED <<sessionVars, at, moved, lost, image, distributing>>
  PROVE  RelayInv'
<1>t. RelayTypeOK /\ CallsInStep /\ UNCHANGED <<table, made, arrived, pipe>>
  BY DEF RelayInv, sessionVars
<1>o. /\ call'[c] = "moving" /\ \A d \in Calls : d # c => call'[d] = call[d]
      /\ call' \in [Calls -> {"none", "got", "waiting", "moving", "ok", "failed"}]
  BY <1>t DEF RelayTypeOK
<1>l. \A d \in Calls : /\ Claimed(d)' <=> Claimed(d)
                       /\ Past(d) => Past(d)'
                       /\ call'[d] # "none" <=> call[d] # "none"
                       /\ Busy(d)' <=> Busy(d)
                       /\ call'[d] = "ok" <=> call[d] = "ok"
                       /\ call'[d] \in {"waiting", "moving"} <=> call[d] \in {"waiting", "moving"}
  BY <1>o DEF Claimed, Past, Busy
<1>1. RelayTypeOK'
  BY <1>t, <1>o DEF RelayTypeOK
<1>2. SessionsAreNew'
  <2>1. {d \in Calls : call'[d] # "none"} = {d \in Calls : call[d] # "none"}
    BY <1>l
  <2> QED
    BY <2>1, <1>t DEF RelayInv, SessionsAreNew
<1>3. CallsInStep'
  BY <1>l, <1>o, <1>t DEF CallsInStep
<1>4. OneClaim' /\ SameMoved' /\ InTurn'
  BY <1>l DEF RelayInv, OneClaim, SameMoved, InTurn
<1>5. TableIsHeld' /\ SessionsInStep' /\ SessionsInTurn'
  <2>1. TableIsHeld' /\ SessionsInStep'
    BY <1>l, <1>t DEF RelayInv, TableIsHeld, SessionsInStep
  <2>2. SessionsInTurn'
    BY <1>l, <1>t, TurnsStay DEF RelayInv
  <2> QED
    BY <2>1, <2>2
<1>6. EofIsWhole'
  <2> SUFFICES ASSUME NEW s \in Session, pipe[s] = "eof"
               PROVE  WholeEnd(s)'
    BY <1>t DEF EofIsWhole
  <2>1. WholeEnd(s) /\ lost \subseteq Calls
    BY <1>t DEF RelayInv, EofIsWhole, RelayTypeOK
  <2> QED
    BY <2>1, <1>t, <1>l, EndStays
<1>7. CleanEndIsWhole'
  <2>1. \A n \in 1..maxDeliveries : <<"pull", n>> \in Calls
    BY DEF Calls, Sides
  <2> QED
    BY <2>1, <1>l, CleanEndsStay DEF RelayInv
<1> QED
  BY <1>1, <1>2, <1>3, <1>4, <1>5, <1>6, <1>7 DEF RelayInv

\* A chunk goes from the push of a session to its pull: the two counts move together,
\* and no third call has streamed there.
LEMMA Chunks ==
  ASSUME RelayInv, NEW p \in Calls, NEW q \in Calls, p[1] = "push", q[1] = "pull",
         call[p] = "moving", call[q] = "moving", at[p] = at[q], pipe[at[p]] = "open",
         moved[p] < Size,
         moved' = [moved EXCEPT ![p] = @ + 1, ![q] = @ + 1],
         UNCHANGED <<sessionVars, call, at, lost, image, distributing>>
  PROVE  RelayInv'
<1>t. RelayTypeOK /\ CallsInStep /\ UNCHANGED <<table, made, arrived, pipe>> /\ p # q
  BY DEF RelayInv, sessionVars
<1>e. moved[p] = moved[q] /\ moved[p] \in Nat /\ moved[p] + 1 \in 0..Size
  <2>1. moved[p] = moved[q]
    BY DEF RelayInv, SameMoved, Claimed
  <2> QED
    BY <2>1, <1>t, CallFacts, RelayAssumption
<1>o. /\ moved'[p] = moved[p] + 1 /\ moved'[q] = moved[p] + 1
      /\ \A d \in Calls : d \notin {p, q} => moved'[d] = moved[d]
      /\ moved' \in [Calls -> 0..Size]
  <2>1. moved \in [Calls -> 0..Size]
    BY <1>t DEF RelayTypeOK
  <2>2. moved' \in [Calls -> 0..Size]
    BY <2>1, <1>e
  <2> QED
    BY <2>1, <2>2, <1>e, <1>t
<1>l. \A d \in Calls : Claimed(d)' <=> Claimed(d)
  BY <1>o, <1>e DEF Claimed
<1>u. \A d \in Calls : Claimed(d) /\ at[d] = at[p] => d \in {p, q}
  <2>1. \A d \in Calls : d[1] \in {"push", "pull"}
    BY <1>t, CallFacts DEF Sides
  <2> QED
    BY <2>1 DEF RelayInv, OneClaim, Claimed
<1>1. RelayTypeOK'
  BY <1>t, <1>o DEF RelayTypeOK
<1>2. SessionsAreNew' /\ OneClaim' /\ InTurn' /\ TableIsHeld' /\ SessionsInStep'
  BY <1>t, <1>l DEF RelayInv, SessionsAreNew, OneClaim, InTurn, Past, TableIsHeld, SessionsInStep, Busy
<1>3. CallsInStep'
  <2> SUFFICES ASSUME NEW d \in Calls
               PROVE  /\ d \in lost => call[d] # "none"
                      /\ Busy(d) \/ moved'[d] > 0 => at[d] \in 1..made
                      /\ call[d] \in {"none", "got", "waiting"} => moved'[d] = 0
                      /\ Claimed(d)' => d[1] \in arrived[at[d]]
                      /\ call[d] = "moving" \/ moved'[d] > 0 => arrived[at[d]] = Sides
    BY <1>t DEF CallsInStep, Busy
  <2>1. CASE d \in {p, q}
    BY <2>1, <1>t, <1>l DEF CallsInStep, Busy
  <2>2. CASE d \notin {p, q}
    BY <2>2, <1>o, <1>l, <1>t DEF CallsInStep
  <2> QED
    BY <2>1, <2>2
<1>4. SameMoved'
  <2> SUFFICES ASSUME NEW c \in Calls, NEW d \in Calls, Claimed(c), Claimed(d), c[1] # d[1],
                      at[c] = at[d]
               PROVE  moved'[c] = moved'[d]
    BY <1>l DEF SameMoved
  <2>1. CASE at[c] = at[p]
    BY <2>1, <1>u, <1>o
  <2>2. CASE at[c] # at[p]
    BY <2>2, <1>t, <1>o DEF RelayInv, SameMoved
  <2> QED
    BY <2>1, <2>2
<1>5. EofIsWhole'
  <2> SUFFICES ASSUME NEW s \in Session, pipe[s] = "eof"
               PROVE  WholeEnd(s)'
    BY <1>t DEF EofIsWhole
  <2>1. WholeEnd(s) /\ lost \subseteq Calls
    BY <1>t DEF RelayInv, EofIsWhole, RelayTypeOK
  <2>2. \A d \in Calls : at[d] = s => moved'[d] = moved[d]
    BY <1>o
  <2> QED
    BY <2>1, <2>2, <1>t, <1>l, EndStays
<1>6. CleanEndIsWhole' /\ SessionsInTurn'
  <2>1. \A n \in 1..maxDeliveries : <<"pull", n>> \in Calls
    BY DEF Calls, Sides
  <2>2. \A d \in Calls : call[d] = "ok" => moved'[d] = moved[d]
    BY <1>o
  <2>3. CleanEndIsWhole'
    BY <2>1, <2>2, CleanEndsStay DEF RelayInv
  <2>4. SessionsInTurn'
    BY <1>t, TurnsStay DEF RelayInv
  <2> QED
    BY <2>3, <2>4
<1> QED
  BY <1>1, <1>2, <1>3, <1>4, <1>5, <1>6 DEF RelayInv

\* The push of a session has sent everything and closes the pipe: its pull, if there is
\* one, has read everything, and holds the session from now on.
LEMMA PushEnds ==
  ASSUME RelayInv, NEW c \in Calls, c[1] = "push", call[c] = "moving", moved[c] = Size,
         pipe' = [pipe EXCEPT ![at[c]] = IF @ = "open" THEN "eof" ELSE @],
         call' = [call EXCEPT ![c] = "ok"],
         UNCHANGED <<at, moved, table, made, arrived, lost, image, distributing>>
  PROVE  RelayInv'
<1>t. RelayTypeOK /\ CallsInStep
  BY DEF RelayInv
<1>s. at[c] \in 1..made /\ at[c] \in Session /\ arrived[at[c]] = Sides /\ made \in Nat
  BY <1>t, SessionFacts, CallFacts DEF CallsInStep, Busy
<1>o. /\ call'[c] = "ok" /\ \A d \in Calls : d # c => call'[d] = call[d]
      /\ call' \in [Calls -> {"none", "got", "waiting", "moving", "ok", "failed"}]
  BY <1>t DEF RelayTypeOK
<1>p. /\ pipe' \in [Session -> {"open", "eof", "error"}]
      /\ pipe'[at[c]] = IF pipe[at[c]] = "open" THEN "eof" ELSE pipe[at[c]]
      /\ \A s \in Session : s # at[c] => pipe'[s] = pipe[s]
  BY <1>t, <1>s DEF RelayTypeOK
<1>l. \A d \in Calls : /\ Claimed(d)' => Claimed(d)
                       /\ Past(d) => Past(d)'
                       /\ call'[d] # "none" <=> call[d] # "none"
                       /\ Busy(d)' => Busy(d)
  BY <1>o DEF Claimed, Past, Busy
<1>1. RelayTypeOK'
  BY <1>t, <1>o, <1>p DEF RelayTypeOK
<1>2. SessionsAreNew'
  <2>1. {d \in Calls : call'[d] # "none"} = {d \in Calls : call[d] # "none"}
    BY <1>l
  <2>2. \A s \in Session : s > made => pipe'[s] = pipe[s]
    BY <1>p, <1>s DEF Session
  <2> QED
    BY <2>1, <2>2 DEF RelayInv, SessionsAreNew
<1>3. CallsInStep'
  BY <1>l, <1>o, <1>t DEF CallsInStep
<1>4. OneClaim' /\ SameMoved' /\ InTurn'
  BY <1>l DEF RelayInv, OneClaim, SameMoved, InTurn
<1>5. EofIsWhole'
  <2> SUFFICES ASSUME NEW s \in Session, pipe'[s] = "eof"
               PROVE  WholeEnd(s)'
    BY DEF EofIsWhole
  <2>1. CASE pipe[s] = "eof"
    <3>1. WholeEnd(s) /\ lost \subseteq Calls
      BY <2>1, <1>t DEF RelayInv, EofIsWhole, RelayTypeOK
    <3> QED
      BY <3>1, <1>o, <1>l, EndStays
  <2>2. CASE pipe[s] # "eof"
    <3>1. s = at[c]
      BY <2>2, <1>p
    <3>2. ASSUME NEW q \in Calls, q[1] = "pull", Claimed(q)', at[q] = s
          PROVE  moved[q] = Size
      <4>1. Claimed(q) /\ Claimed(c) /\ q[1] # c[1]
        BY <3>2, <1>l DEF Claimed
      <4> QED
        BY <3>1, <3>2, <4>1 DEF RelayInv, SameMoved
    <3> QED
      BY <3>1, <3>2, <1>s DEF WholeEnd
  <2> QED
    BY <2>1, <2>2
<1>h. \A d \in Calls : d[1] = "pull" => call'[d] = call[d]
  BY <1>o
<1>6. TableIsHeld'
  <2>1. CASE at[c] = table
    BY <2>1, <1>s, <1>h DEF RelayInv, TableIsHeld, Sides
  <2>2. CASE at[c] # table
    BY <2>2, <1>o DEF RelayInv, TableIsHeld
  <2> QED
    BY <2>1, <2>2
<1>7. SessionsInStep'
  <2>1. \A s \in 1..made : s # table => pipe'[s] # "open"
    BY <1>p, <1>s, <1>t, SessionFacts DEF RelayInv, SessionsInStep
  <2>2. ASSUME table # NoSession
        PROVE  \E d \in Calls : Busy(d)' /\ at[d] = table
    <3>1. CASE at[c] = table
      <4>1. PICK q \in Calls : q[1] = "pull" /\ at[q] = table /\ call[q] \in {"waiting", "moving"}
        BY <2>2, <3>1, <1>s DEF RelayInv, TableIsHeld, Sides
      <4> QED
        BY <4>1, <1>h DEF Busy
    <3>2. CASE at[c] # table
      <4>1. PICK d \in Calls : Busy(d) /\ at[d] = table
        BY <2>2 DEF RelayInv, SessionsInStep
      <4> QED
        BY <3>2, <4>1, <1>o DEF Busy
    <3> QED
      BY <3>1, <3>2
  <2> QED
    BY <2>1, <2>2 DEF SessionsInStep
<1>8. CleanEndIsWhole' /\ SessionsInTurn'
  <2>1. \A n \in 1..maxDeliveries : <<"pull", n>> \in Calls /\ <<"pull", n>>[1] = "pull"
    BY DEF Calls, Sides
  <2>2. CleanEndIsWhole'
    BY <2>1, <1>o, <1>h, CleanEndsStay DEF RelayInv
  <2>3. SessionsInTurn'
    BY <1>l, TurnsStay DEF RelayInv
  <2> QED
    BY <2>2, <2>3
<1> QED
  BY <1>1, <1>2, <1>3, <1>4, <1>5, <1>6, <1>7, <1>8 DEF RelayInv

\* Who reads a clean end has the whole image, or an earlier pull that was given up ended late:
\* it came to an older session, and so before this one.
LEMMA CleanOrLate ==
  ASSUME RelayInv, NEW c \in Calls, c[1] = "pull", call[c] = "moving", pipe[at[c]] = "eof"
  PROVE  \/ moved[c] = Size
         \/ \E m \in 1..(c[2] - 1) : <<"pull", m>> \in lost /\ call[<<"pull", m>>] = "ok"
<1>t. RelayTypeOK /\ CallsInStep /\ SessionsInTurn
  BY DEF RelayInv
<1>1. at[c] \in Session /\ Claimed(c)
  BY <1>t, SessionFacts DEF CallsInStep, Busy, Claimed
<1>2. WholeEnd(at[c])
  BY <1>1 DEF RelayInv, EofIsWhole
<1>3. CASE LateEnd(at[c])
  <2>1. PICK d \in Calls : /\ d \in lost /\ d[1] = "pull" /\ call[d] = "ok"
                          /\ at[d] # NoSession /\ at[d] < at[c]
    BY <1>3, <1>t DEF LateEnd, RelayTypeOK
  <2>2. d = <<"pull", d[2]>> /\ d[2] \in 1..maxDeliveries /\ c = <<"pull", c[2]>>
        /\ c[2] \in 1..maxDeliveries /\ at[d] \in Nat /\ at[c] \in Nat
    BY <2>1, <1>t, CallFacts
  <2>3. ~(c[2] < d[2])
    <3>1. c[2] < d[2] => at[c] <= at[d]
      BY <2>1, <1>t DEF SessionsInTurn
    <3> QED
      BY <2>1, <2>2, <3>1
  <2>4. d[2] # c[2]
    <3>1. d # c
      BY <2>1
    <3> QED
      BY <2>2, <3>1
  <2>5. d[2] \in 1..(c[2] - 1)
    BY <2>2, <2>3, <2>4, RelayAssumption
  <2> QED
    BY <2>1, <2>2, <2>5
<1> QED
  BY <1>1, <1>2, <1>3 DEF WholeEnd

\* A clean end falls on the open session of the deployment from a pull of an older one: a pull
\* that was given up, or no other has come since.
LEMMA NextInLine ==
  ASSUME RelayInv, NEW c \in Calls, c[1] = "pull", call[c] = "moving", pipe[at[c]] = "eof",
         NEW s \in Session, s = table, pipe[s] = "open", table' = NoSession,
         call'[c] = "ok", UNCHANGED <<at, lost>>
  PROVE  WholeEnd(s)'
<1>t. RelayTypeOK /\ CallsInStep /\ SessionsInTurn /\ InTurn
  BY DEF RelayInv
<1>1. at[c] \in 1..made /\ at[c] # s /\ at[c] \in Nat /\ made \in Nat /\ s \in Nat /\ s > 0
  BY <1>t, CallFacts DEF CallsInStep, Busy, Session
<1>2. s = made /\ at[c] < s /\ at[c] # NoSession
  BY <1>1, <1>t DEF SessionsInTurn, NoSession
<1>3. CASE c \in lost
  BY <1>2, <1>3 DEF WholeEnd, LateEnd
<1>4. CASE c \notin lost
  <2>1. ASSUME NEW q \in Calls, q[1] = "pull", at[q] = s
        PROVE  FALSE
    <3>1. q # c /\ c[2] \in Nat /\ q[2] \in Nat /\ c = <<"pull", c[2]>> /\ q = <<"pull", q[2]>>
      BY <2>1, <1>1, <1>t, CallFacts, RelayAssumption
    <3>2. c[2] # q[2]
      BY <3>1
    <3>3. CASE c[2] < q[2]
      <4>1. call[q] # "none"
        BY <2>1, <1>1, <1>t DEF SessionsInTurn, NoSession
      <4>2. Past(c)
        BY <2>1, <3>3, <4>1, <1>t DEF InTurn
      <4> QED
        BY <1>4, <4>2 DEF Past
    <3>4. CASE q[2] < c[2]
      <4>1. at[q] <= at[c]
        BY <2>1, <3>4, <1>2, <1>t DEF SessionsInTurn
      <4> QED
        BY <2>1, <4>1, <1>1, <1>2
    <3> QED
      BY <3>1, <3>2, <3>3, <3>4
  <2>2. s # NoSession
    BY <1>1 DEF NoSession
  <2> QED
    BY <2>1, <2>2 DEF WholeEnd
<1> QED
  BY <1>3, <1>4

\* A call whose agent is gone, the end of the distribution, and a step that changes nothing.
LEMMA OnlyLost ==
  ASSUME RelayInv, NEW gone \in SUBSET Calls, lost' = lost \cup gone,
         \A c \in gone : call[c] # "none", distributing' \in BOOLEAN,
         UNCHANGED <<sessionVars, callVars, image>>
  PROVE  RelayInv'
<1>t. RelayTypeOK /\ CallsInStep /\ UNCHANGED <<table, made, arrived, pipe, call, at, moved>>
  BY DEF RelayInv, sessionVars, callVars
<1>l. \A d \in Calls : /\ Claimed(d)' <=> Claimed(d)
                       /\ Past(d) => Past(d)'
                       /\ Busy(d)' <=> Busy(d)
                       /\ d \in lost => d \in lost'
                       /\ d \in lost' => d \in lost \/ call[d] # "none"
  BY <1>t DEF Claimed, Past, Busy
<1>1. RelayTypeOK'
  BY <1>t DEF RelayTypeOK
<1>2. CallsInStep'
  BY <1>l, <1>t DEF CallsInStep, Busy
<1>3. SessionsAreNew' /\ OneClaim' /\ SameMoved' /\ InTurn'
  BY <1>l, <1>t DEF RelayInv, SessionsAreNew, OneClaim, SameMoved, InTurn
<1>k. lost \subseteq Calls /\ lost \subseteq lost'
  BY <1>t DEF RelayTypeOK
<1>4. EofIsWhole'
  <2> SUFFICES ASSUME NEW s \in Session, pipe[s] = "eof"
               PROVE  WholeEnd(s)'
    BY <1>t DEF EofIsWhole
  <2>1. WholeEnd(s)
    BY DEF RelayInv, EofIsWhole
  <2> QED
    BY <2>1, <1>k, <1>t, <1>l, EndStays
<1>5. TableIsHeld' /\ SessionsInStep'
  BY <1>l, <1>t DEF RelayInv, TableIsHeld, SessionsInStep
<1>6. CleanEndIsWhole' /\ SessionsInTurn'
  <2>1. CleanEndIsWhole'
    BY <1>k, <1>t, CleanEndsStay DEF RelayInv
  <2>2. SessionsInTurn'
    BY <1>t, TurnsStay DEF RelayInv
  <2> QED
    BY <2>1, <2>2
<1> QED
  BY <1>1, <1>2, <1>3, <1>4, <1>5, <1>6 DEF RelayInv

\* Every step of the relay keeps its invariant.
LEMMA RelayStepHolds == RelayInv /\ [RelayNext]_relayVars => RelayInv'
<1> SUFFICES ASSUME RelayInv, [RelayNext]_relayVars
             PROVE  RelayInv'
  OBVIOUS
<1>t. RelayTypeOK
  BY DEF RelayInv
<1>c. ASSUME NEW side \in Sides, NEW n \in 1..maxDeliveries
      PROVE  <<side, n>> \in Calls /\ <<side, n>>[1] = side /\ <<side, n>>[2] = n
  BY DEF Calls
<1>s. "push" \in Sides /\ "pull" \in Sides
  BY DEF Sides
<1>1. ASSUME NEW side \in Sides, NEW n \in 1..maxDeliveries, Arrive(side, n)
      PROVE  RelayInv'
  <2> DEFINE c == <<side, n>>
  <2>1. c \in Calls /\ c[1] = side /\ c[2] = n
    BY <1>c
  <2>2. \A d \in Calls : d[1] = c[1] /\ d[2] < c[2] => Past(d)
    BY <1>1, <2>1, TurnOf DEF Arrive
  <2>3. call[c] = "none" /\ UNCHANGED <<lost, image, distributing>>
    BY <1>1 DEF Arrive
  <2>4. CASE End(c, IF side = "push" THEN "ok" ELSE "failed") /\ UNCHANGED sessionVars
    <3> DEFINE outcome == IF side = "push" THEN "ok" ELSE "failed"
    <3>1. outcome \in {"ok", "failed"} /\ (outcome = "ok" => c[1] = "push")
      BY <2>1
    <3>2. call' = [call EXCEPT ![c] = outcome] /\ UNCHANGED <<sessionVars, at, moved>>
      BY <2>4 DEF End
    <3> HIDE DEF outcome, c
    <3> QED
      BY <2>1, <2>2, <2>3, <3>1, <3>2, Refused
  <2>5. CASE /\ call' = [call EXCEPT ![c] = "got"]
             /\ \/ table # NoSession /\ at' = [at EXCEPT ![c] = table] /\ UNCHANGED <<table, made>>
                \/ /\ table = NoSession
                   /\ made' = made + 1 /\ table' = made' /\ at' = [at EXCEPT ![c] = made']
             /\ UNCHANGED <<moved, arrived, pipe>>
    <3> HIDE DEF c
    <3>1. /\ at' = [at EXCEPT ![c] = table']
          /\ \/ table # NoSession /\ UNCHANGED <<table, made>>
             \/ table = NoSession /\ made' = made + 1 /\ table' = made + 1
      BY <2>5
    <3> QED
      BY <2>1, <2>2, <2>3, <2>5, <3>1, Arrives
  <2> QED
    BY <1>1, <2>4, <2>5 DEF Arrive
<1>2. ASSUME NEW side \in Sides, NEW n \in 1..maxDeliveries, Claim(side, n)
      PROVE  RelayInv'
  <2> DEFINE c == <<side, n>>
  <2>1. c \in Calls /\ c[1] = side /\ c[2] = n
    BY <1>c
  <2>2. call[c] = "got" /\ UNCHANGED <<at, moved, table, made, pipe, lost, image, distributing>>
    BY <1>2 DEF Claim, End
  <2>3. CASE side \in arrived[at[c]] /\ End(c, "failed") /\ UNCHANGED arrived
    <3>1. call' = [call EXCEPT ![c] = "failed"] /\ UNCHANGED <<sessionVars, at, moved>>
      BY <2>2, <2>3 DEF End, sessionVars
    <3> HIDE DEF c
    <3>2. \A d \in Calls : d[1] = c[1] /\ d[2] < c[2] => Past(d)
      BY <2>1, <2>2 DEF RelayInv, InTurn
    <3> QED
      BY <2>1, <2>2, <2>3, <3>1, <3>2, Refused
  <2>4. CASE /\ side \notin arrived[at[c]]
             /\ arrived' = [arrived EXCEPT ![at[c]] = @ \cup {side}]
             /\ call' = [call EXCEPT ![c] = "waiting"]
    <3> HIDE DEF c
    <3> QED
      BY <2>1, <2>2, <2>4, Claims
  <2> QED
    BY <1>2, <2>3, <2>4 DEF Claim
<1>3. ASSUME NEW side \in Sides, NEW n \in 1..maxDeliveries, Meet(side, n)
      PROVE  RelayInv'
  <2> DEFINE c == <<side, n>>
  <2>1. c \in Calls /\ c[1] = side
    BY <1>c
  <2>2. /\ call[c] = "waiting" /\ Peer(side) \in arrived[at[c]]
        /\ call' = [call EXCEPT ![c] = "moving"]
        /\ UNCHANGED <<sessionVars, at, moved, lost, image, distributing>>
    BY <1>3 DEF Meet
  <2> HIDE DEF c
  <2>3. side \in arrived[at[c]] /\ at[c] \in 1..made
    BY <2>1, <2>2 DEF RelayInv, CallsInStep, Claimed, Busy
  <2>4. arrived[at[c]] \subseteq Sides
    BY <2>3, <1>t, SessionFacts DEF RelayTypeOK
  <2>5. arrived[at[c]] = Sides
    BY <2>2, <2>3, <2>4 DEF Peer, Sides
  <2> QED
    BY <2>1, <2>2, <2>5, Meets
<1>d. ASSUME NEW c \in Calls, Busy(c), Drop("error"), End(c, "failed"),
             UNCHANGED <<lost, image, distributing>>
      PROVE  RelayInv'
  <2>1. /\ call' = [call EXCEPT ![c] = "failed"] /\ table' = NoSession
        /\ UNCHANGED <<made, arrived, at, moved, lost, distributing>>
        /\ pipe' = IF table # NoSession /\ pipe[table] = "open"
                   THEN [pipe EXCEPT ![table] = "error"] ELSE pipe
    BY <1>d DEF Drop, End
  <2>2. image' \in BOOLEAN
    BY <1>d, <1>t DEF RelayTypeOK
  <2> QED
    BY <1>d, <2>1, <2>2, EndsWithDrop
<1>4. ASSUME NEW side \in Sides, NEW n \in 1..maxDeliveries, GiveUpWaiting(side, n)
      PROVE  RelayInv'
  <2>1. Busy(<<side, n>>)
    BY <1>4 DEF GiveUpWaiting, Busy
  <2> QED
    BY <1>4, <1>c, <1>d, <2>1 DEF GiveUpWaiting
<1>5. ASSUME NEW n \in 1..maxDeliveries, NEW k \in 1..maxDeliveries, Chunk(n, k)
      PROVE  RelayInv'
  <2> DEFINE p == <<"push", n>>
             q == <<"pull", k>>
  <2>1. p \in Calls /\ p[1] = "push" /\ q \in Calls /\ q[1] = "pull"
    BY <1>c, <1>s
  <2>2. /\ call[p] = "moving" /\ call[q] = "moving" /\ at[p] = at[q] /\ pipe[at[p]] = "open"
        /\ moved[p] < Size /\ moved' = [moved EXCEPT ![p] = @ + 1, ![q] = @ + 1]
        /\ UNCHANGED <<sessionVars, call, at, lost, image, distributing>>
    BY <1>5 DEF Chunk
  <2> HIDE DEF p, q
  <2> QED
    BY <2>1, <2>2, Chunks
<1>6. ASSUME NEW n \in 1..maxDeliveries, PushDone(n)
      PROVE  RelayInv'
  <2> DEFINE c == <<"push", n>>
  <2>1. c \in Calls /\ c[1] = "push"
    BY <1>c, <1>s
  <2>2. /\ call[c] = "moving" /\ moved[c] = Size
        /\ pipe' = [pipe EXCEPT ![at[c]] = IF @ = "open" THEN "eof" ELSE @]
        /\ call' = [call EXCEPT ![c] = "ok"]
        /\ UNCHANGED <<at, moved, table, made, arrived, lost, image, distributing>>
    BY <1>6 DEF PushDone, End
  <2> HIDE DEF c
  <2> QED
    BY <2>1, <2>2, PushEnds
<1>7. ASSUME NEW n \in 1..maxDeliveries, PushBroken(n)
      PROVE  RelayInv'
  <2>1. Busy(<<"push", n>>)
    BY <1>7 DEF PushBroken, Busy
  <2> QED
    BY <1>7, <1>c, <1>s, <1>d, <2>1 DEF PushBroken
<1>8. ASSUME NEW n \in 1..maxDeliveries, PullDone(n)
      PROVE  RelayInv'
  <2> DEFINE c == <<"pull", n>>
  <2>1. c \in Calls /\ c[1] = "pull" /\ c[2] = n
    BY <1>c, <1>s
  <2>2. /\ call[c] = "moving" /\ pipe[at[c]] = "eof" /\ Drop("eof")
        /\ call' = [call EXCEPT ![c] = "ok"]
        /\ UNCHANGED <<at, moved, lost, distributing>>
    BY <1>8 DEF PullDone, End
  <2>3. image' \in BOOLEAN
    BY <1>8 DEF PullDone
  <2> HIDE DEF c
  <2>4. /\ table' = NoSession /\ UNCHANGED <<made, arrived>>
        /\ pipe' = IF table # NoSession /\ pipe[table] = "open"
                   THEN [pipe EXCEPT ![table] = "eof"] ELSE pipe
    BY <2>2 DEF Drop
  <2>5. Busy(c)
    BY <2>2 DEF Busy
  <2>6. \/ moved[c] = Size
        \/ \E m \in 1..(c[2] - 1) : <<"pull", m>> \in lost /\ call[<<"pull", m>>] = "ok"
    BY <2>1, <2>2, CleanOrLate
  <2>7. call' \in [Calls -> {"none", "got", "waiting", "moving", "ok", "failed"}]
        /\ call'[c] = "ok" /\ \A d \in Calls : d # c => call'[d] = call[d]
    BY <2>1, <2>2, <1>t DEF RelayTypeOK
  <2>8. ASSUME NEW s \in Session, s = table, pipe[s] = "open"
        PROVE  WholeEnd(s)'
    BY <2>1, <2>2, <2>4, <2>7, <2>8, NextInLine
  <2> QED
    BY <2>1, <2>2, <2>3, <2>4, <2>5, <2>6, <2>8, EndsWithDrop
<1>9. ASSUME NEW n \in 1..maxDeliveries, PullBroken(n)
      PROVE  RelayInv'
  <2>1. Busy(<<"pull", n>>)
    BY <1>9 DEF PullBroken, Busy
  <2> QED
    BY <1>9, <1>c, <1>s, <1>d, <2>1 DEF PullBroken
<1>10. ASSUME NEW side \in Sides, NEW n \in 1..maxDeliveries, Lose(side, n)
       PROVE  RelayInv'
  <2> DEFINE gone == {<<side, n>>}
  <2>1. gone \in SUBSET Calls /\ \A c \in gone : call[c] # "none"
    BY <1>10, <1>c DEF Lose
  <2>2. /\ lost' = lost \cup gone /\ UNCHANGED <<sessionVars, callVars, image>>
        /\ distributing' = distributing
    BY <1>10 DEF Lose
  <2> HIDE DEF gone
  <2>3. distributing' \in BOOLEAN
    BY <2>2, <1>t DEF RelayTypeOK
  <2> QED
    BY <2>1, <2>2, <2>3, OnlyLost
<1>11. ASSUME distributing' \in BOOLEAN, UNCHANGED <<sessionVars, callVars, image, lost>>
       PROVE  RelayInv'
  <2>1. lost' = lost \cup {} /\ {} \in SUBSET Calls /\ \A c \in {} : call[c] # "none"
    BY <1>11
  <2> QED
    BY <1>11, <2>1, OnlyLost
<1>12. CASE LeaveDistributing
  <2>1. distributing' \in BOOLEAN
    BY <1>12, Zenon DEF LeaveDistributing
  <2> QED
    BY <1>11, <1>12, <2>1 DEF LeaveDistributing
<1>13. CASE UNCHANGED relayVars
  <2>1. distributing' \in BOOLEAN
    BY <1>13, <1>t DEF relayVars, RelayTypeOK
  <2> QED
    BY <1>11, <1>13, <2>1 DEF relayVars
<1> QED
  BY <1>1, <1>2, <1>3, <1>4, <1>5, <1>6, <1>7, <1>8, <1>9, <1>10, <1>12, <1>13
     DEF RelayNext, RelayStep, Handler, Stream

\* No call, no session.
LEMMA RelayStart == RelayInit => RelayInv
<1> SUFFICES ASSUME RelayInit
             PROVE  RelayInv
  OBVIOUS
<1>1. RelayTypeOK
  <2>1. image \in BOOLEAN /\ distributing \in BOOLEAN
    BY Zenon DEF RelayInit
  <2> QED
    BY <2>1, RelayAssumption DEF RelayInit, RelayTypeOK, NoSession
<1>2. \A c \in Calls : call[c] = "none" /\ moved[c] = 0 /\ ~Claimed(c) /\ ~Busy(c)
  BY DEF RelayInit, Claimed, Busy
<1>3. SessionsAreNew
  <2>1. {c \in Calls : call[c] # "none"} = {}
    BY <1>2
  <2> QED
    BY <2>1, FS_EmptySet DEF RelayInit, SessionsAreNew
<1>4. CallsInStep /\ OneClaim /\ SameMoved /\ InTurn
  BY <1>2 DEF RelayInit, CallsInStep, OneClaim, SameMoved, InTurn
<1>5. EofIsWhole /\ TableIsHeld /\ SessionsInStep /\ SessionsInTurn
  BY DEF RelayInit, EofIsWhole, TableIsHeld, SessionsInStep, SessionsInTurn
<1>6. CleanEndIsWhole
  <2>1. \A n \in 1..maxDeliveries : <<"pull", n>> \in Calls
    BY DEF Calls, Sides
  <2> QED
    BY <1>2, <2>1 DEF CleanEndIsWhole
<1> QED
  BY <1>1, <1>3, <1>4, <1>5, <1>6 DEF RelayInv

\* The relay's invariant holds in every reachable state.
THEOREM RelayInvariance == RelaySpec => []RelayInv
<1> QED
  BY RelayStart, RelayStepHolds, PTL DEF RelaySpec

\* A session that left the table is closed and one in it has a call at work on it,
\* although Drop goes by the deployment and late calls drop the sessions of later ones
\* (Drop, get, attach), for any number of attempts and losses.
THEOREM SessionsInStepHolds == RelaySpec => []SessionsInStep
<1>1. RelayInv => SessionsInStep
  BY DEF RelayInv
<1> QED
  BY <1>1, RelayInvariance, PTL

\* A pull that ends cleanly has the whole image, whether or not its agent, the push's agent or
\* the OK to the push is lost: a Drop turns a transfer that is under way into an end-of-stream
\* only if it is that of an earlier pull, given up by its target, that ends cleanly after all
\* (Drop, PushImage, PullImage).
THEOREM CleanEndIsWholeHolds == RelaySpec => []CleanEndIsWhole
<1>1. RelayInv => CleanEndIsWhole
  BY DEF RelayInv
<1> QED
  BY <1>1, RelayInvariance, PTL

\* A call that returns and drops the session of the deployment closes that pipe, and finds
\* every other one closed.
LEMMA DropsSession ==
  ASSUME RelayInv, NEW cause \in {"eof", "error"}, Drop(cause), arrived' = arrived
  PROVE  OpenIsHeld'
<1>1. RelayTypeOK /\ SessionsInStep
  BY DEF RelayInv
<1>2. pipe \in [Session -> {"open", "eof", "error"}] /\ (table # NoSession => table \in Session)
  BY <1>1, SessionFacts DEF RelayTypeOK
<1>3. ASSUME NEW s \in Session, pipe'[s] = "open"
      PROVE  arrived[s] = {}
  <2>1. pipe[s] = "open" /\ s # table
    BY <1>2, <1>3 DEF Drop, NoSession, Session
  <2>2. s \notin 1..made
    BY <1>1, <2>1 DEF SessionsInStep
  <2>3. s > made
    BY <1>1, <2>2 DEF RelayTypeOK, Session
  <2> QED
    BY <2>3 DEF RelayInv, SessionsAreNew
<1> QED
  BY <1>3 DEF OpenIsHeld

\* Every step keeps the claimants of an open pipe at work.
LEMMA OpenIsHeldStep == RelayInv /\ OpenIsHeld /\ [RelayNext]_relayVars => OpenIsHeld'
<1> SUFFICES ASSUME RelayInv, OpenIsHeld, [RelayNext]_relayVars
             PROVE  OpenIsHeld'
  OBVIOUS
<1>t. RelayTypeOK /\ CallsInStep
  BY DEF RelayInv
<1>1. ASSUME arrived' = arrived, at' = at, \A s \in Session : pipe'[s] = "open" => pipe[s] = "open",
             \A c \in Calls : call[c] \in {"waiting", "moving"} /\ pipe'[at[c]] = "open" =>
                                call'[c] \in {"waiting", "moving"}
      PROVE  OpenIsHeld'
  <2> SUFFICES ASSUME NEW s \in Session, NEW side \in Sides, pipe'[s] = "open", side \in arrived[s]
               PROVE  \E c \in Calls : c[1] = side /\ at[c] = s /\ call'[c] \in {"waiting", "moving"}
    BY <1>1 DEF OpenIsHeld
  <2>1. PICK c \in Calls : c[1] = side /\ at[c] = s /\ call[c] \in {"waiting", "moving"}
    BY <1>1 DEF OpenIsHeld
  <2> QED
    BY <1>1, <2>1
<1>2. CASE UNCHANGED relayVars
  BY <1>2 DEF relayVars, sessionVars, callVars, OpenIsHeld
<1>3. ASSUME NEW side \in Sides, NEW n \in 1..maxDeliveries, Arrive(side, n)
      PROVE  OpenIsHeld'
  <2>1. PICK c \in Calls : c = <<side, n>>
    BY DEF Calls
  <2>2. /\ arrived' = arrived /\ pipe' = pipe /\ call[c] = "none"
        /\ \A d \in Calls : d # c => call'[d] = call[d] /\ at'[d] = at[d]
    BY <1>3, <1>t, <2>1 DEF Arrive, End, sessionVars, RelayTypeOK
  <2> SUFFICES ASSUME NEW s \in Session, NEW who \in Sides, pipe[s] = "open", who \in arrived[s]
               PROVE  \E d \in Calls : d[1] = who /\ at'[d] = s /\ call'[d] \in {"waiting", "moving"}
    BY <2>2 DEF OpenIsHeld
  <2>3. PICK d \in Calls : d[1] = who /\ at[d] = s /\ call[d] \in {"waiting", "moving"}
    BY DEF OpenIsHeld
  <2>4. d # c
    BY <2>2, <2>3
  <2> QED
    BY <2>2, <2>3, <2>4
<1>4. ASSUME NEW side \in Sides, NEW n \in 1..maxDeliveries, Claim(side, n)
      PROVE  OpenIsHeld'
  <2>1. PICK c \in Calls : c = <<side, n>>
    BY DEF Calls
  <2>2. c[1] = side /\ call[c] = "got" /\ pipe' = pipe /\ at' = at
    BY <1>4, <2>1 DEF Claim, End
  <2>3. CASE arrived' = arrived
    <3>1. \A d \in Calls : d # c => call'[d] = call[d]
      BY <1>4, <1>t, <2>1 DEF Claim, End, RelayTypeOK
    <3>2. \A d \in Calls : call[d] \in {"waiting", "moving"} => call'[d] \in {"waiting", "moving"}
      BY <2>2, <3>1
    <3> QED
      BY <1>1, <2>2, <2>3, <3>2
  <2>4. CASE /\ arrived' = [arrived EXCEPT ![at[c]] = @ \cup {side}]
             /\ call' = [call EXCEPT ![c] = "waiting"]
    <3>1. at[c] \in Session
      BY <1>t, <2>2, SessionFacts DEF CallsInStep, Busy
    <3>2. call'[c] = "waiting" /\ \A d \in Calls : d # c => call'[d] = call[d]
      BY <1>t, <2>4 DEF RelayTypeOK
    <3>3. \A s \in Session : arrived'[s] = IF s = at[c] THEN arrived[s] \cup {side} ELSE arrived[s]
      BY <1>t, <2>4, <3>1 DEF RelayTypeOK
    <3> SUFFICES ASSUME NEW s \in Session, NEW who \in Sides, pipe[s] = "open", who \in arrived'[s]
                 PROVE  \E d \in Calls : d[1] = who /\ at[d] = s /\ call'[d] \in {"waiting", "moving"}
      BY <2>2 DEF OpenIsHeld
    <3>4. CASE s = at[c] /\ who = side
      BY <2>2, <3>2, <3>4
    <3>5. CASE who \in arrived[s]
      <4>1. PICK d \in Calls : d[1] = who /\ at[d] = s /\ call[d] \in {"waiting", "moving"}
        BY <3>5 DEF OpenIsHeld
      <4> QED
        BY <2>2, <3>2, <4>1
    <3> QED
      BY <3>3, <3>4, <3>5
  <2> QED
    BY <1>4, <2>1, <2>3, <2>4 DEF Claim
<1>5. ASSUME NEW side \in Sides, NEW n \in 1..maxDeliveries, Meet(side, n)
      PROVE  OpenIsHeld'
  <2>1. <<side, n>> \in Calls
    BY DEF Calls
  <2>2. /\ arrived' = arrived /\ at' = at /\ pipe' = pipe
        /\ \A d \in Calls : call[d] \in {"waiting", "moving"} => call'[d] \in {"waiting", "moving"}
    BY <1>5, <1>t, <2>1 DEF Meet, sessionVars, RelayTypeOK
  <2> QED
    BY <1>1, <2>2
<1>6. ASSUME NEW side \in Sides, NEW n \in 1..maxDeliveries, GiveUpWaiting(side, n)
      PROVE  OpenIsHeld'
  BY <1>6, DropsSession DEF GiveUpWaiting, Drop
<1>7. ASSUME NEW n \in 1..maxDeliveries, PushBroken(n) \/ PullDone(n) \/ PullBroken(n)
      PROVE  OpenIsHeld'
  BY <1>7, DropsSession DEF PushBroken, PullDone, PullBroken, Drop
<1>8. ASSUME NEW n \in 1..maxDeliveries, PushDone(n)
      PROVE  OpenIsHeld'
  <2>1. PICK c \in Calls : c = <<"push", n>>
    BY DEF Calls, Sides
  <2>2. /\ call[c] = "moving" /\ arrived' = arrived /\ at' = at
        /\ pipe' = [pipe EXCEPT ![at[c]] = IF @ = "open" THEN "eof" ELSE @]
        /\ call' = [call EXCEPT ![c] = "ok"]
    BY <1>8, <2>1 DEF PushDone, End
  <2>3. at[c] \in Session
    BY <1>t, <2>2, SessionFacts DEF CallsInStep, Busy
  <2>4. /\ pipe'[at[c]] # "open" /\ \A s \in Session : pipe'[s] = "open" => pipe[s] = "open"
        /\ \A d \in Calls : d # c => call'[d] = call[d]
    BY <1>t, <2>2, <2>3 DEF RelayTypeOK
  <2> QED
    BY <1>1, <2>2, <2>4
<1>9. ASSUME NEW n \in 1..maxDeliveries, NEW k \in 1..maxDeliveries, Chunk(n, k)
      PROVE  OpenIsHeld'
  BY <1>1, <1>9 DEF Chunk, sessionVars
<1>10. CASE LeaveDistributing
  BY <1>1, <1>10 DEF LeaveDistributing, sessionVars, callVars
<1>11. ASSUME NEW side \in Sides, NEW n \in 1..maxDeliveries, Lose(side, n)
       PROVE  OpenIsHeld'
  BY <1>1, <1>11 DEF Lose, sessionVars, callVars
<1> QED
  BY <1>2, <1>3, <1>4, <1>5, <1>6, <1>7, <1>8, <1>9, <1>10, <1>11 DEF RelayNext, RelayStep, Handler, Stream

\* Nobody streams into a pipe whose other end is gone, however many attempts of the two agents
\* overlap and whichever session a late Drop falls on: as long as a pipe is open, the peer of
\* whoever streams through it is at work, so that one of the two can go on (core/relay Drop,
\* attach; api/grpc/relay.go PushImage, PullImage).
THEOREM PeerAtWorkHolds == RelaySpec => []PeerAtWork
<1>1. RelayInit => OpenIsHeld
  BY DEF RelayInit, OpenIsHeld
<1>2. RelayInv /\ OpenIsHeld => PeerAtWork
  <2> SUFFICES ASSUME RelayInv, OpenIsHeld, NEW c \in Calls, call[c] = "moving", pipe[at[c]] = "open"
               PROVE  \E d \in Calls : d[1] = Peer(c[1]) /\ at[d] = at[c] /\ call[d] \in {"waiting", "moving"}
    BY DEF PeerAtWork
  <2>1. at[c] \in Session /\ arrived[at[c]] = Sides
    BY SessionFacts DEF RelayInv, CallsInStep, Busy
  <2>2. Peer(c[1]) \in Sides
    BY DEF Peer, Sides
  <2> QED
    BY <2>1, <2>2 DEF OpenIsHeld
<1> QED
  BY <1>1, <1>2, RelayInvariance, OpenIsHeldStep, PTL DEF RelaySpec
=============================================================================

---------------------------- MODULE AgentUpdater ----------------------------
(***************************************************************************)
(* The agent's self-update (agent/updater) on one host, with the release   *)
(* channel of the plane (core/agentupdates) that tells it which version to *)
(* run, and the start of the agent's main.                                 *)
(*                                                                         *)
(* The updater survives its own process: what it knows is in the binary's  *)
(* two slots, the boot marker and the roll-back note, each written by one  *)
(* atomic rename, remove or link.  The process can die between any two of  *)
(* them, systemd starts whatever binary is in place, and that binary has   *)
(* to find out what happened.  systemd does so five times a minute and then *)
(* gives the unit up.  Versions are numbered in release order.             *)
(***************************************************************************)
EXTENDS Naturals

CONSTANTS
  MaxVersion,     \* releases are 1..MaxVersion
  Hangs,          \* releases that start and never reach the bus
  Dies,           \* releases that exit before they reach the bus
  IdentityDies,   \* releases that exit while they load the agent's identity
  MaxSet,         \* bound: changes of the channel
  MaxOutage,      \* bound: outages of the bus, and sound releases too slow for the probation
  MaxKill,        \* bound: deaths of the process
  MaxIOError      \* bound: failing file operations

ASSUME UpdaterAssumption == MaxVersion \in Nat \ {0}

Version == 1..MaxVersion
NoVersion == 0
Sound == Version \ (Hangs \cup Dies \cup IdentityDies)

\* bootAttempts of the boot marker.
bootAttempts == 1

\* The unit's StartLimitBurst, in each StartLimitIntervalSec.
StartLimitBurst == 5

\* The boot marker: the update it is for, and the starts it has seen.
Markers == [target : Version, attempts : 0..bootAttempts]
NoMarker == [target |-> NoVersion, attempts |-> 0]

VARIABLES
  \* ---- the host's disk ----
  binary,     \* the version in the agent's place
  prev,       \* the version in the .prev slot
  marker,     \* update-marker.json
  note,       \* update-rolled-back.json: the version that was rolled back
  \* ---- the process ----
  running,    \* the version it runs, NoVersion while there is none
  boot,       \* how far main has come
  armed,      \* the marker the probation timer was armed for
  rolling,    \* the next step of rollNow, for the marker in armed
  goal,       \* the version Apply is converging to
  swapping,   \* the next step of that update
  \* ---- systemd ----
  starts,     \* starts in the interval of the start limit
  unit,       \* "active", or "failed" once the limit was hit
  \* ---- the plane ----
  desiredVersion, rollbackFlag,     \* the row of the host's channel
  reachable,                        \* the bus answers
  \* ---- history and bounds ----
  confirmed,  \* versions that have dialled home on this host
  crowded,    \* in this interval an outage, a death, a failing write or an update by
              \* one of its own processes has cost starts
  rollFailed, \* a roll-back met a failing file operation: its process goes on
  sets, outages, kills, ioErrors

disk == <<binary, prev, marker, note>>
main == <<running, boot, armed>>
update == <<goal, swapping>>
systemd == <<starts, unit, crowded>>
channel == <<desiredVersion, rollbackFlag>>
bounds == <<sets, outages, kills>>
faults == <<rollFailed, ioErrors>>

updaterVars == <<disk, main, rolling, update, channel, reachable, confirmed, bounds, faults,
                 systemd>>

UpdaterTypeOK ==
  /\ binary \in Version /\ prev \in Version \cup {NoVersion}
  /\ marker \in Markers \cup {NoMarker} /\ armed \in Markers \cup {NoMarker}
  /\ note \in Version \cup {NoVersion} /\ running \in Version \cup {NoVersion}
  /\ boot \in {"down", "identity", "recover", "dial", "dialed", "serving"}
  /\ rolling \in {"none", "restore", "clear", "record"}
  /\ goal \in Version \cup {NoVersion}
  /\ swapping \in {"none", "verify", "stage", "mark", "clearPrev", "keepPrev", "install"}
  /\ desiredVersion \in Version \cup {NoVersion} /\ rollbackFlag \in BOOLEAN
  /\ starts \in 0..StartLimitBurst /\ unit \in {"active", "failed"} /\ crowded \in BOOLEAN
  /\ reachable \in BOOLEAN /\ rollFailed \in BOOLEAN /\ confirmed \subseteq Version

\* A host whose first agent was installed by hand and has dialled home.
UpdaterInit ==
  /\ binary = 1 /\ prev = NoVersion /\ marker = NoMarker /\ note = NoVersion
  /\ running = 1 /\ boot = "serving" /\ armed = NoMarker
  /\ rolling = "none" /\ goal = NoVersion /\ swapping = "none"
  /\ desiredVersion = NoVersion /\ rollbackFlag = FALSE
  /\ reachable = TRUE /\ confirmed = {1}
  /\ starts = 0 /\ unit = "active" /\ crowded = FALSE
  /\ rollFailed = FALSE /\ sets = 0 /\ outages = 0 /\ kills = 0 /\ ioErrors = 0

-----------------------------------------------------------------------------
(* The plane: the desired version of the channel.                          *)

\* goesBackwards and isDowngrade: a version that does not parse (the empty
\* one of a channel without an instruction) goes nowhere.
goesBackwards(from, to) == from # NoVersion /\ to # NoVersion /\ to < from

\* Set: the roll-back flag is derived from the version the channel named
\* before, and clearing the channel clears it.
SetChannel(v) ==
  /\ sets < MaxSet /\ sets' = sets + 1
  /\ desiredVersion' = v
  /\ rollbackFlag' = goesBackwards(desiredVersion, v)
  /\ UNCHANGED <<disk, main, rolling, update, reachable, confirmed, outages, kills,
                 faults, systemd>>

\* The bus goes away and comes back.
Outage ==
  /\ reachable /\ outages < MaxOutage
  /\ reachable' = FALSE /\ outages' = outages + 1
  /\ UNCHANGED <<disk, main, rolling, update, channel, confirmed, sets, kills, faults,
                 systemd>>

Heal ==
  /\ ~reachable /\ reachable' = TRUE
  /\ UNCHANGED <<disk, main, rolling, update, channel, confirmed, bounds, faults, systemd>>

-----------------------------------------------------------------------------
(* The process: systemd, and the start of main.                            *)

\* What ends with the process.
Gone ==
  /\ running' = NoVersion /\ boot' = "down" /\ armed' = NoMarker
  /\ rolling' = "none" /\ goal' = NoVersion /\ swapping' = "none"

\* Restart=always: systemd starts the binary that is in place.
SystemdStarts ==
  /\ boot = "down" /\ unit = "active"
  /\ starts < StartLimitBurst /\ starts' = starts + 1
  /\ running' = binary /\ boot' = "identity"
  /\ UNCHANGED <<disk, armed, rolling, update, channel, reachable, confirmed, bounds, faults,
                 unit, crowded>>

\* The start limit is hit: the unit has failed, and only a hand at the host starts it again.
StartLimitHit ==
  /\ boot = "down" /\ unit = "active" /\ starts = StartLimitBurst
  /\ unit' = "failed"
  /\ UNCHANGED <<disk, main, rolling, update, channel, reachable, confirmed, bounds, faults,
                 starts, crowded>>

\* StartLimitIntervalSec is over: the next start is the first of an interval.
IntervalEnds ==
  /\ unit = "active" /\ starts > 0
  /\ starts' = 0 /\ crowded' = FALSE
  /\ UNCHANGED <<disk, main, rolling, update, channel, reachable, confirmed, bounds, faults,
                 unit>>

\* main loads the identity before it calls Recover.
LoadIdentity ==
  /\ boot = "identity"
  /\ \/ running \in IdentityDies /\ Gone
     \/ running \notin IdentityDies /\ boot' = "recover"
        /\ UNCHANGED <<running, armed, rolling, update>>
  /\ UNCHANGED <<disk, channel, reachable, confirmed, bounds, faults, systemd>>

\* Mutant: a marker's attempts are counted and never exhausted.
Recover_NoCap ==
  /\ boot = "recover" /\ rolling = "none"
  /\ \/ marker = NoMarker /\ UNCHANGED <<armed, marker>>
     \/ marker # NoMarker /\ armed' = [marker EXCEPT !.attempts = @ + 1] /\ marker' = armed'
  /\ boot' = "dial"
  /\ UNCHANGED <<binary, prev, note, running, rolling, update, channel, reachable,
                 confirmed, bounds, faults, systemd>>

\* Recover: no marker is an ordinary start; a marker that has had its attempt
\* is rolled back at once, before main goes on; otherwise the attempt is
\* recorded (the write may fail) and the probation timer armed.
Recover ==
  /\ boot = "recover" /\ rolling = "none"
  /\ \/ /\ marker = NoMarker
        /\ boot' = "dial" /\ UNCHANGED <<armed, rolling, marker, ioErrors, crowded>>
     \/ /\ marker # NoMarker /\ marker.attempts >= bootAttempts
        /\ armed' = marker /\ rolling' = "restore"
        /\ UNCHANGED <<boot, marker, ioErrors, crowded>>
     \/ /\ marker # NoMarker /\ marker.attempts < bootAttempts
        /\ armed' = [marker EXCEPT !.attempts = @ + 1]
        /\ \/ marker' = armed' /\ UNCHANGED <<ioErrors, crowded>>
           \/ ioErrors < MaxIOError /\ ioErrors' = ioErrors + 1 /\ crowded' = TRUE
              /\ UNCHANGED marker
        /\ boot' = "dial" /\ UNCHANGED rolling
  /\ UNCHANGED <<binary, prev, note, running, update, channel, reachable, confirmed,
                 rollFailed, bounds, starts, unit>>

\* ReadRolledBack consumes the note, then main connects: without the bus, or
\* in a release that dies, it exits with the error.
Dial ==
  /\ boot = "dial" /\ running \notin Hangs
  /\ note' = NoVersion
  /\ \/ /\ reachable /\ running \notin Dies
        /\ boot' = "dialed" /\ confirmed' = confirmed \cup {running}
        /\ UNCHANGED <<running, armed, rolling, update, crowded>>
     \/ /\ ~reachable \/ running \in Dies
        /\ Gone /\ crowded' = (crowded \/ running \notin Dies) /\ UNCHANGED confirmed
  /\ UNCHANGED <<binary, prev, marker, channel, reachable, bounds, faults, starts, unit>>

\* DialedHome clears the marker; a remove that fails is logged.
DialedHome ==
  /\ boot = "dialed"
  /\ boot' = "serving"
  /\ \/ marker' = NoMarker /\ UNCHANGED ioErrors
     \/ ioErrors < MaxIOError /\ ioErrors' = ioErrors + 1 /\ UNCHANGED marker
  /\ UNCHANGED <<binary, prev, note, running, armed, rolling, update, channel, reachable,
                 confirmed, rollFailed, bounds, systemd>>

Kill ==
  /\ boot # "down" /\ kills < MaxKill /\ kills' = kills + 1
  /\ Gone /\ crowded' = TRUE
  /\ UNCHANGED <<disk, channel, reachable, confirmed, sets, outages, faults, starts, unit>>

-----------------------------------------------------------------------------
(* Rolling back: at the second start, or when the probation ends.          *)

\* The timer fires in a process that has not dialled home.
ProbationEnds ==
  /\ boot = "dial" /\ armed # NoMarker /\ rolling = "none"
  /\ rolling' = "restore"
  /\ \/ running \in Hangs /\ UNCHANGED outages
     \/ running \notin Hangs /\ outages < MaxOutage /\ outages' = outages + 1
  /\ UNCHANGED <<disk, main, update, channel, reachable, confirmed, sets, kills, faults,
                 systemd>>

\* rollback: copy .prev and rename it into place.  Without a previous binary,
\* or when that fails, the process goes on as it is.
Restore ==
  /\ rolling = "restore"
  /\ \/ /\ prev # NoVersion
        /\ binary' = prev /\ rolling' = "clear"
        /\ UNCHANGED <<armed, boot, rollFailed, ioErrors>>
     \/ /\ \/ prev = NoVersion /\ UNCHANGED <<rollFailed, ioErrors>>
           \/ /\ prev # NoVersion /\ ioErrors < MaxIOError
              /\ rollFailed' = TRUE /\ ioErrors' = ioErrors + 1
        /\ rolling' = "none" /\ armed' = NoMarker
        /\ boot' = IF boot = "recover" THEN "dial" ELSE boot
        /\ UNCHANGED binary
  /\ UNCHANGED <<prev, marker, note, running, update, channel, reachable, confirmed, bounds,
                 systemd>>

\* clearMarker.
ClearMarker ==
  /\ rolling = "clear" /\ rolling' = "record"
  /\ marker' = NoMarker
  /\ UNCHANGED <<binary, prev, note, main, update, channel, reachable, confirmed, bounds,
                 faults, systemd>>

\* writeRolledBack, then exit.
RecordRolledBack ==
  /\ rolling = "record"
  /\ note' = armed.target
  /\ Gone
  /\ UNCHANGED <<binary, prev, marker, channel, reachable, confirmed, bounds, faults,
                 systemd>>

-----------------------------------------------------------------------------
(* Apply and update: converging on the version of the channel.             *)


\* Apply: one at a time, and never backwards unless the channel allows it.
Apply ==
  /\ boot = "serving" /\ reachable /\ swapping = "none"
  /\ desiredVersion \notin {NoVersion, running}
  /\ goesBackwards(running, desiredVersion) => rollbackFlag
  /\ goal' = desiredVersion /\ swapping' = "verify"
  /\ UNCHANGED <<disk, main, rolling, channel, reachable, confirmed, bounds, faults,
                 systemd>>

\* The update gives up: nothing was renamed, the marker is taken back.
GiveUp ==
  /\ ioErrors < MaxIOError /\ ioErrors' = ioErrors + 1
  /\ goal' = NoVersion /\ swapping' = "none"

\* update: the manifest and its signature are fetched and verified ...
Verify ==
  /\ swapping = "verify"
  /\ \/ swapping' = "stage" /\ UNCHANGED <<goal, ioErrors>>
     \/ GiveUp
  /\ UNCHANGED <<disk, main, rolling, channel, reachable, confirmed, rollFailed, bounds,
                 systemd>>

\* ... the binary is downloaded beside the running one and tried out ...
Stage ==
  /\ swapping = "stage"
  /\ \/ swapping' = "mark" /\ UNCHANGED <<goal, ioErrors>>
     \/ GiveUp
  /\ UNCHANGED <<disk, main, rolling, channel, reachable, confirmed, rollFailed, bounds,
                 systemd>>

\* ... and the marker is written before anything is renamed.  A roll-back
\* under way ends the process well before the download is there.
WriteMarker ==
  /\ swapping = "mark" /\ rolling = "none"
  /\ \/ /\ marker' = [target |-> goal, attempts |-> 0]
        /\ swapping' = "clearPrev" /\ UNCHANGED <<goal, ioErrors>>
     \/ GiveUp /\ UNCHANGED marker
  /\ UNCHANGED <<binary, prev, note, main, rolling, channel, reachable, confirmed,
                 rollFailed, bounds, systemd>>

\* swap: remove the old .prev ...
ClearPrev ==
  /\ swapping = "clearPrev"
  /\ \/ prev' = NoVersion /\ swapping' = "keepPrev" /\ UNCHANGED <<goal, marker, ioErrors>>
     \/ GiveUp /\ marker' = NoMarker /\ UNCHANGED prev
  /\ UNCHANGED <<binary, note, main, rolling, channel, reachable, confirmed, rollFailed,
                 bounds, systemd>>

\* Mutant: the previous binary is not kept.
KeepPrev_Skipped ==
  /\ swapping = "keepPrev"
  /\ swapping' = "install"
  /\ UNCHANGED <<disk, goal, main, rolling, channel, reachable, confirmed, bounds, faults,
                 systemd>>

\* Mutant: the .prev slot gets the new binary.
KeepPrev_New ==
  /\ swapping = "keepPrev"
  /\ prev' = goal /\ swapping' = "install"
  /\ UNCHANGED <<binary, marker, note, goal, main, rolling, channel, reachable, confirmed,
                 bounds, faults, systemd>>

\* ... link the binary as .prev ...
KeepPrev ==
  /\ swapping = "keepPrev"
  /\ \/ prev' = binary /\ swapping' = "install" /\ UNCHANGED <<goal, marker, ioErrors>>
     \/ GiveUp /\ marker' = NoMarker /\ UNCHANGED prev
  /\ UNCHANGED <<binary, note, main, rolling, channel, reachable, confirmed, rollFailed,
                 bounds, systemd>>

\* ... and rename the staged binary into place; then exit.
Install ==
  /\ swapping = "install"
  /\ \/ /\ binary' = goal /\ Gone /\ crowded' = (crowded \/ starts > 0)
        /\ UNCHANGED <<marker, ioErrors>>
     \/ GiveUp /\ marker' = NoMarker /\ UNCHANGED <<binary, main, rolling, crowded>>
  /\ UNCHANGED <<prev, note, channel, reachable, confirmed, rollFailed, bounds, starts, unit>>

-----------------------------------------------------------------------------
UpdaterStep ==
  \/ SystemdStarts \/ StartLimitHit \/ LoadIdentity \/ Recover \/ Dial \/ DialedHome
  \/ Restore \/ ClearMarker \/ RecordRolledBack
  \/ Apply \/ Verify \/ Stage \/ WriteMarker \/ ClearPrev \/ KeepPrev \/ Install

UpdaterNext ==
  \/ UpdaterStep \/ ProbationEnds \/ Outage \/ Heal \/ Kill \/ IntervalEnds
  \/ \E v \in Version \cup {NoVersion} : SetChannel(v)

\* systemd restarts the unit until the limit, timers fire, the process runs on, and an
\* outage of the bus ends.  Nothing says that an interval ends in time.
UpdaterFairness ==
  /\ WF_updaterVars(UpdaterStep) /\ WF_updaterVars(ProbationEnds) /\ WF_updaterVars(Heal)

UpdaterSpec == UpdaterInit /\ [][UpdaterNext]_updaterVars /\ UpdaterFairness

-----------------------------------------------------------------------------
(* Properties.                                                             *)

\* A roll-back never needs luck: what it puts back is a release that has
\* dialled home on this host (rollback, swap).
RollsBackToConfirmed == [][Restore /\ binary' # binary => binary' \in confirmed]_updaterVars

\* The start limit was hit, and not by one update alone: that one may cost three starts of
\* five ("one failed attempt plus one rollback plus the old binary").
GivenUp == unit = "failed" /\ crowded

\* "an update can strand a host at the old version, never off the bus": the
\* agent always gets back to the bus, whatever release the channel names, unless
\* the disk refuses the roll-back itself (rollNow: "nothing left to try"), or an outage, a
\* death or a second update takes the starts of its interval.
NeverOffTheBus == []<>(boot = "serving" \/ rollFailed \/ GivenUp)


\* What NeverOffTheBus stands on, in every state: a release that has not dialled home on
\* this host is in place only with the way back from it, the marker that makes Recover
\* count its starts and a previous binary that did dial home (update, swap, rollback,
\* DialedHome), whatever dies or fails between two file operations.
WayBack == binary \notin confirmed => marker # NoMarker /\ prev \in confirmed

-----------------------------------------------------------------------------
(* The inductive invariant behind RollsBackToConfirmed.                    *)

\* The process runs the binary that is in place, until a roll-back has replaced it.
RunsWhatIsInPlace ==
  boot # "down" => /\ running \in Version
                   /\ rolling \in {"none", "restore"} => running = binary

\* Only a process that has dialled home swaps, and none does while it rolls back.
SwapsOnceHome ==
  /\ boot \in {"dialed", "serving"} => running \in confirmed
  /\ swapping # "none" => boot = "serving"
  /\ swapping \in {"clearPrev", "keepPrev", "install"} => rolling = "none"
  /\ swapping # "none" => goal \in Version

\* A roll-back belongs to a process that is up, and to the marker that armed it.
RollsWhileUp ==
  /\ boot = "down" => rolling = "none"
  /\ rolling # "none" => armed \in Markers

UpdaterInv ==
  /\ UpdaterTypeOK
  /\ RunsWhatIsInPlace /\ SwapsOnceHome /\ RollsWhileUp
  /\ prev \in confirmed \cup {NoVersion}

\* Behind WayBack: the marker is there before the first rename, the previous binary before
\* the last, and a roll-back takes the marker away only once the previous binary is back.
WayKept ==
  /\ swapping \in {"clearPrev", "keepPrev", "install"} => marker # NoMarker
  /\ swapping = "install" => prev # NoVersion
  /\ rolling \in {"clear", "record"} => binary \in confirmed
=============================================================================

----------------------------- MODULE CronRunner -----------------------------
(***************************************************************************)
(* Scheduled tasks on one agent (agent/cron): the worker's loop re-arms    *)
(* the tasks from desired state, a ticker on another goroutine fires the   *)
(* ones that are due, and every run is a goroutine of its own.             *)
(*                                                                         *)
(* Sync reads the armed set task by task, lets go of the lock, and swaps   *)
(* the new set in later: an entry that did not change is shared between    *)
(* both, so that a fire in between advances it for both.  What a task is   *)
(* (schedule and command) is its period; occurrences are its multiples.    *)
(***************************************************************************)
EXTENDS Naturals

CONSTANTS
  Tasks,
  Periods,         \* the schedules a task may be given
  MaxClock,        \* bound: the clock
  MaxTaskEdit,     \* bound: edits of desired state
  MaxAgentStart    \* bound: lives of the agent

ASSUME CronAssumption ==
  Periods \subseteq Nat \ {0} /\ MaxClock \in Nat /\ MaxTaskEdit \in Nat /\ MaxAgentStart \in Nat

VARIABLES
  clock,
  asked,     \* the schedule desired state gives each task, 0 when it has none
  armed,     \* Runner.armed: schedule and next fire time, or Unarmed
  syncing,   \* the worker is inside Sync
  fresh,     \* the set it is building
  running,   \* Runner.running
  execs,     \* the runs each task has under way in this life of the agent
  orphans,   \* runs whose agent died: they go on in their container
  fired,     \* the occurrences each task was fired for, with their schedule
  twice,     \* an occurrence was fired a second time
  taskEdits, starts

cronVars == <<clock, asked, armed, syncing, fresh, running, execs, orphans, fired, twice, taskEdits,
              starts>>

Unarmed == [period |-> 0, next |-> 0]
Shared == [period |-> 0, next |-> 1]

NoSet == [t \in Tasks |-> Shared]

Entries == [period : Periods, next : Nat] \cup {Unarmed}

CronTypeOK ==
  /\ asked \in [Tasks -> Periods \cup {0}]
  /\ armed \in [Tasks -> Entries]
  /\ fresh \in [Tasks -> Entries \cup {Shared}]
  /\ running \subseteq Tasks /\ execs \in [Tasks -> Nat]
  /\ \A t \in Tasks : armed[t] # Unarmed => armed[t].next <= clock + armed[t].period

CronInit ==
  /\ clock = 0 /\ asked = [t \in Tasks |-> 0]
  /\ armed = [t \in Tasks |-> Unarmed] /\ syncing = FALSE /\ fresh = NoSet
  /\ running = {} /\ execs = [t \in Tasks |-> 0] /\ orphans = {}
  /\ fired = [t \in Tasks |-> {}] /\ twice = FALSE
  /\ taskEdits = 0 /\ starts = 1

\* robfig's Schedule.Next: the first occurrence after a time.
Occurrence(p, time) == (time \div p + 1) * p

\* A task is created, edited, disabled or deleted on the plane.
EditTask(t, p) ==
  /\ taskEdits < MaxTaskEdit /\ taskEdits' = taskEdits + 1
  /\ p # asked[t] /\ asked' = [asked EXCEPT ![t] = p]
  /\ UNCHANGED <<clock, armed, syncing, fresh, running, execs, orphans, fired, twice, starts>>

ClockTicks ==
  /\ clock < MaxClock /\ clock' = clock + 1
  /\ UNCHANGED <<asked, armed, syncing, fresh, running, execs, orphans, fired, twice, taskEdits,
                 starts>>

-----------------------------------------------------------------------------
(* Sync, on the worker's goroutine.                                        *)

\* Mutant: the unchanged entry is copied.
matchUnchanged_Copies(t) == armed[t]

\* matchUnchanged: the entry itself, not a copy of it, goes into the new set.
matchUnchanged(t) == Shared

SyncRead ==
  /\ ~syncing /\ syncing' = TRUE
  /\ fresh' = [t \in Tasks |->
                 IF asked[t] = 0 THEN Unarmed
                 ELSE IF armed[t].period = asked[t] THEN matchUnchanged(t)
                 ELSE [period |-> asked[t], next |-> Occurrence(asked[t], clock)]]
  /\ UNCHANGED <<clock, asked, armed, running, execs, orphans, fired, twice, taskEdits,
                 starts>>

\* Mutant: the overlap guard of a task goes away with the task.
SyncSwap_ForgetsRunning ==
  /\ syncing /\ syncing' = FALSE
  /\ armed' = [t \in Tasks |-> IF fresh[t] = Shared THEN armed[t] ELSE fresh[t]]
  /\ running' = {t \in running : armed'[t] # Unarmed}
  /\ fresh' = NoSet
  /\ UNCHANGED <<clock, asked, execs, orphans, fired, twice, taskEdits, starts>>

SyncSwap ==
  /\ syncing /\ syncing' = FALSE
  /\ armed' = [t \in Tasks |-> IF fresh[t] = Shared THEN armed[t] ELSE fresh[t]]
  /\ fresh' = NoSet
  /\ UNCHANGED <<clock, asked, running, execs, orphans, fired, twice, taskEdits, starts>>

-----------------------------------------------------------------------------
(* The ticker and the runs.                                                *)

IsDue(t) == armed[t] # Unarmed /\ clock >= armed[t].next /\ t \notin running

\* fireDue: one pass over the armed set under the lock; the occurrence a task
\* is fired for is the one it was armed for, however late.
FireDue ==
  LET due == {t \in Tasks : IsDue(t)}
      what(t) == <<armed[t].period, armed[t].next>>
  IN /\ due # {}
     /\ running' = running \cup due
     /\ execs' = [t \in Tasks |-> IF t \in due THEN execs[t] + 1 ELSE execs[t]]
     /\ armed' = [t \in Tasks |->
                    IF t \in due
                    THEN [armed[t] EXCEPT !.next = Occurrence(armed[t].period, clock)]
                    ELSE armed[t]]
     /\ fired' = [t \in Tasks |-> IF t \in due THEN fired[t] \cup {what(t)} ELSE fired[t]]
     /\ twice' = (twice \/ \E t \in due : what(t) \in fired[t])
     /\ UNCHANGED <<clock, asked, syncing, fresh, orphans, taskEdits, starts>>

\* execAndReport returns, for whatever reason.
RunEnds(t) ==
  /\ execs[t] > 0
  /\ execs' = [execs EXCEPT ![t] = @ - 1]
  /\ running' = running \ {t}
  /\ UNCHANGED <<clock, asked, armed, syncing, fresh, orphans, fired, twice, taskEdits, starts>>

\* The agent dies: what it executed goes on, what it remembered is lost, and
\* the next agent arms everything from then on.
AgentRestarts ==
  /\ starts < MaxAgentStart /\ starts' = starts + 1
  /\ armed' = [t \in Tasks |-> Unarmed] /\ syncing' = FALSE /\ fresh' = NoSet
  /\ orphans' = orphans \cup running
  /\ running' = {} /\ execs' = [t \in Tasks |-> 0]
  /\ UNCHANGED <<clock, asked, fired, twice, taskEdits>>

OrphanEnds(t) ==
  /\ t \in orphans /\ orphans' = orphans \ {t}
  /\ UNCHANGED <<clock, asked, armed, syncing, fresh, running, execs, fired, twice, taskEdits, starts>>

CronNext ==
  \/ ClockTicks \/ SyncRead \/ SyncSwap \/ FireDue \/ AgentRestarts
  \/ \E t \in Tasks : RunEnds(t) \/ OrphanEnds(t) \/ \E p \in Periods \cup {0} : EditTask(t, p)

CronSpec == CronInit /\ [][CronNext]_cronVars

-----------------------------------------------------------------------------
\* "Never stack a slow task on itself": a task has one run at a time, through
\* edits, removal and re-creation of the task while it runs, for as long as
\* one agent lives (a run can outlive its agent, and the next agent does not
\* know of it).
NeverStacked == \A t \in Tasks : execs[t] <= 1

\* An occurrence of a task's schedule is fired once, although the armed set is
\* rebuilt outside the lock while the ticker advances it and although the
\* agent arms everything again when it restarts.
FiredOnce == ~twice

-----------------------------------------------------------------------------
(* The inductive invariant.                                                *)

\* The overlap guard tells the truth about the runs of this life of the agent.
GuardIsTrue == \A t \in Tasks : execs[t] = IF t \in running THEN 1 ELSE 0

\* An entry is armed for an occurrence after every one its schedule was fired for.
FiresAhead(set) ==
  \A t \in Tasks : \A o \in fired[t] : set[t].period = o[1] => o[2] < set[t].next

\* What was fired was due; both sets fire ahead of it; and an entry Sync has made
\* anew has another schedule than the armed one, so that no fire in between is for it.
CronInv ==
  /\ CronTypeOK /\ clock \in Nat /\ twice = FALSE
  /\ GuardIsTrue
  /\ \A t \in Tasks : fired[t] \subseteq Periods \X (0..clock)
  /\ FiresAhead(armed) /\ FiresAhead(fresh)
  /\ \A t \in Tasks : fresh[t].period # 0 => /\ fresh[t].period # armed[t].period
                                            /\ fresh[t].next <= clock + fresh[t].period
=============================================================================

---------------------------- MODULE DockerDriver ----------------------------
(***************************************************************************)
(* The reconciler of the agent's docker driver (agent/driver/docker) for   *)
(* one application on one node, with the proxy fragment it writes          *)
(* (agent/proxy) and the daemon underneath.                                *)
(*                                                                         *)
(* One reconcile pass is a series of calls to the daemon, to the prober    *)
(* and to the proxy: pc is the next of them.  Any call can fail, the agent *)
(* can die between two calls, and containers die and are restarted by the  *)
(* daemon (restart policy unless-stopped) while a pass runs.  The worker   *)
(* is single threaded, so passes do not overlap and the spec changes only  *)
(* between passes; the next pass is the next work item or the drift loop.  *)
(*                                                                         *)
(* A version is a revision together with a restart token: the driver       *)
(* compares both wherever it compares one.  Container names are            *)
(* deterministic, so a container IS its version and replica index.         *)
(***************************************************************************)
EXTENDS Naturals

CONSTANTS
  Version,     \* desired revisions (with their restart tokens)
  Index,       \* replica indexes
  Address,     \* addresses of the environment's network
  Specs,       \* the desired states of the application
  MaxChange,   \* bound: changes of desired state
  MaxFault,    \* bound: failed calls and failed probes
  MaxCrash,    \* bound: crashes of the agent
  MaxDeath,    \* bound: containers that die
  Reuse        \* the daemon may hand out an address the fragment still names

NoVersion == "none"
NoAddress == "no address"
Responder == "responder"     \* the upstream of the maintenance responder

\* routed: the application has a domain; maint: underMaintenance(spec).
SpecType == [ver : Version, idx : SUBSET Index \ {{}}, routed : BOOLEAN, maint : BOOLEAN]
Absent == [ver |-> NoVersion, idx |-> {}, routed |-> FALSE, maint |-> FALSE]

ASSUME DriverAssumption ==
  /\ Index \subseteq Nat
  /\ NoVersion \notin Version /\ {NoAddress, Responder} \cap Address = {}
  /\ Specs \subseteq SpecType \cup {Absent}
  /\ \A s \in Specs : s.maint => s.routed
  /\ {MaxChange, MaxFault, MaxCrash, MaxDeath} \subseteq Nat
  /\ Reuse \in BOOLEAN

Names == Version \X Index

\* "dead" containers are restarted by the daemon, "stopped" ones are not.
ContainerStates == {"absent", "created", "running", "dead", "stopped"}

VARIABLES
  \* ---- the node ----
  state,      \* the state of each container
  addr,       \* its address on the network, while it runs
  gated,      \* it passed a health probe since it was created
  route,      \* the upstreams of the proxy fragment; {} when there is none
  responder,  \* the maintenance responder serves
  \* ---- the agent ----
  spec,       \* desired state, as the worker holds it
  report,     \* the last AppStatus a pass returned
  pc,         \* the next call of the running pass, "idle" between passes
  serving,    \* currentRevision(existing), read when the pass listed
  current,    \* indexes whose desired container is there
  newly,      \* indexes whose container this pass created
  leftovers,  \* every other container the pass listed
  applied,    \* the upstreams the fragment held when the pass read it
  todo,       \* indexes still to be gated
  upstreams,  \* the addresses of the indexes gated so far
  failed,     \* part of removeApp failed
  \* ---- budgets ----
  changes, faults, crashes, deaths

node == <<state, addr, gated, route, responder>>
locals == <<serving, current, newly, leftovers, applied, todo, upstreams, failed>>
budget == <<changes, faults, crashes, deaths>>
vars == <<node, spec, report, pc, locals, budget>>

Ops == {"prepare", "clear", "create", "start", "readRoute", "gate", "flip", "drain",
        "discard", "unroute", "teardown", "sweep"}

TypeOK ==
  /\ state \in [Names -> ContainerStates]
  /\ addr \in [Names -> Address \cup {NoAddress}]
  /\ gated \in [Names -> BOOLEAN]
  /\ route \subseteq Address \cup {Responder}
  /\ responder \in BOOLEAN
  /\ spec \in SpecType \cup {Absent}
  /\ report \in [state : {"none", "running", "degraded", "error"},
                 ver : Version \cup {NoVersion}]
  /\ pc \in Ops \cup {"idle"}
  /\ serving \in Version \cup {NoVersion}
  /\ current \subseteq Index /\ newly \subseteq Index /\ todo \subseteq Index
  /\ leftovers \subseteq Names
  /\ applied \subseteq Address \cup {Responder}
  /\ upstreams \subseteq Address /\ failed \in BOOLEAN
  /\ changes \in 0..MaxChange /\ faults \in 0..MaxFault
  /\ crashes \in 0..MaxCrash /\ deaths \in 0..MaxDeath

NoLocals ==
  /\ serving' = NoVersion /\ current' = {} /\ newly' = {} /\ leftovers' = {}
  /\ applied' = {} /\ todo' = {} /\ upstreams' = {} /\ failed' = FALSE

Init ==
  /\ state = [c \in Names |-> "absent"]
  /\ addr = [c \in Names |-> NoAddress]
  /\ gated = [c \in Names |-> FALSE]
  /\ route = {} /\ responder = FALSE
  /\ spec \in Specs
  /\ report = [state |-> "none", ver |-> NoVersion]
  /\ pc = "idle"
  /\ serving = NoVersion /\ current = {} /\ newly = {} /\ leftovers = {}
  /\ applied = {} /\ todo = {} /\ upstreams = {} /\ failed = FALSE
  /\ changes = 0 /\ faults = 0 /\ crashes = 0 /\ deaths = 0

-----------------------------------------------------------------------------
Running(c) == state[c] = "running"
Present(c) == state[c] # "absent"

\* A container that does not run gives its address back.
Becomes(c, s) ==
  /\ state' = [state EXCEPT ![c] = s]
  /\ addr' = [addr EXCEPT ![c] = IF s = "running" THEN @ ELSE NoAddress]

Desired(i) == <<spec.ver, i>>
Missing == spec.idx \ current

\* The driver goes through indexes in increasing order.
First(i, S) == \A j \in S : i <= j

\* A call of the pass fails.
Fails == faults < MaxFault /\ faults' = faults + 1
Works == UNCHANGED faults

\* convergeApp returns; what follows it in Reconcile is the responder's sweep.
Status(s, v) == report' = [state |-> s, ver |-> v] /\ pc' = "sweep"

Goto(op) == pc' = op /\ UNCHANGED report

\* The calls of a pass that touch nothing but the driver's own variables.
UnchangedNode == UNCHANGED node

-----------------------------------------------------------------------------
(* Reconcile and convergeApp.                                              *)

\* ListManaged, then convergeApp's partition of what is there.  A failed list
\* is a total failure: the pass reports nothing.
List ==
  /\ pc = "idle"
  /\ \/ Fails /\ UNCHANGED <<pc, report, locals>>
     \/ /\ Works
        /\ serving' \in IF \E c \in Names : Running(c)
                        THEN {c[1] : c \in {d \in Names : Running(d)}} ELSE {NoVersion}
        /\ current' = {i \in spec.idx : Running(Desired(i))}
        /\ leftovers' = {c \in Names : Present(c) /\ ~(c[1] = spec.ver /\ c[2] \in current')}
        /\ newly' = {} /\ applied' = {} /\ todo' = {} /\ upstreams' = {} /\ failed' = FALSE
        /\ Goto(IF spec = Absent THEN "sweep"
                ELSE IF current' = spec.idx THEN "readRoute" ELSE "prepare")
  /\ UnchangedNode
  /\ UNCHANGED <<spec, changes, crashes, deaths>>

\* startMissingReplicas: network, volumes, registry credential, pull, tag.
Prepare ==
  /\ pc = "prepare"
  /\ \/ Fails /\ Status("error", serving)
     \/ Works /\ Goto("clear")
  /\ UnchangedNode
  /\ UNCHANGED <<spec, locals, changes, crashes, deaths>>

\* discard: stop, then remove, both best effort.
Discard(c) ==
  \/ Works /\ Becomes(c, "absent")
  \/ Fails /\ \E s \in {"stopped", state[c]} : Becomes(c, s)

\* A dead container of the desired version holds the deterministic name.
Squatters == {c \in leftovers : c[1] = spec.ver /\ c[2] \in Missing}

\* Mutant: a dead container of the desired version keeps its name.
ClearSquatter_Skipped ==
  /\ pc = "clear"
  /\ Goto("create") /\ Works
  /\ UnchangedNode
  /\ UNCHANGED <<spec, locals, changes, crashes, deaths>>

ClearSquatter ==
  /\ pc = "clear"
  /\ \/ \E c \in Squatters :
          /\ Discard(c)
          /\ leftovers' = leftovers \ {c}
          /\ UNCHANGED <<pc, report>>
     \/ /\ Squatters = {} /\ Goto("create") /\ Works
        /\ UNCHANGED <<state, addr, leftovers>>
  /\ UNCHANGED <<gated, route, responder, spec, serving, current, newly, applied,
                 todo, upstreams, failed, changes, crashes, deaths>>

\* CreateContainer for the next missing index; the daemon refuses a name that
\* is taken.
CreateContainer ==
  /\ pc = "create"
  /\ \E i \in Missing : First(i, Missing) /\
       \/ /\ ~Present(Desired(i)) /\ Works
          /\ state' = [state EXCEPT ![Desired(i)] = "created"]
          /\ gated' = [gated EXCEPT ![Desired(i)] = FALSE]
          /\ current' = current \cup {i} /\ newly' = newly \cup {i}
          /\ Goto("start")
       \/ /\ IF Present(Desired(i)) THEN Works ELSE Fails
          /\ Goto("discard")
          /\ UNCHANGED <<state, gated, current, newly>>
  /\ UNCHANGED <<addr, route, responder, spec, serving, leftovers, applied, todo,
                 upstreams, failed, changes, crashes, deaths>>

\* The index whose container was created and not started yet.
Fresh(i) == state[Desired(i)] = "created"

\* The daemon gives a starting container an address no running one has.
FreeAddress(a) == /\ \A c \in Names : Running(c) => addr[c] # a
                  /\ Reuse \/ a \notin route \cup upstreams

StartContainer ==
  /\ pc = "start"
  /\ \E i \in newly : Fresh(i) /\
       \/ /\ Works
          /\ \E a \in Address : FreeAddress(a) /\ addr' = [addr EXCEPT ![Desired(i)] = a]
          /\ state' = [state EXCEPT ![Desired(i)] = "running"]
          /\ Goto(IF Missing = {} THEN "readRoute" ELSE "create")
       \/ Fails /\ Goto("discard") /\ UNCHANGED <<state, addr>>
  /\ UNCHANGED <<gated, route, responder, spec, locals, changes, crashes, deaths>>

\* discardNew: only the containers this pass created.
DiscardNew ==
  /\ pc = "discard"
  /\ \/ \E i \in newly :
          /\ Discard(Desired(i))
          /\ newly' = newly \ {i} /\ current' = current \ {i}
          /\ UNCHANGED <<pc, report>>
     \/ /\ newly = {} /\ Works
        /\ Status("error", serving)
        /\ UNCHANGED <<state, addr, newly, current>>
  /\ UNCHANGED <<gated, route, responder, spec, serving, leftovers, applied, todo,
                 upstreams, failed, changes, crashes, deaths>>

\* router.Route: when it cannot be read, what this pass started is left
\* running for the next pass.
ReadRoute ==
  /\ pc = "readRoute"
  /\ \/ Fails /\ Status("error", spec.ver) /\ UNCHANGED <<applied, todo>>
     \/ Works /\ applied' = route /\ todo' = spec.idx /\ Goto("gate")
  /\ UnchangedNode
  /\ UNCHANGED <<spec, serving, current, newly, leftovers, upstreams, failed, changes,
                 crashes, deaths>>

\* A replica is probed when this pass started it, or when the fragment does
\* not name it; under maintenance the fragment names the responder.
Probed(i) == i \in newly \/ (~spec.maint /\ addr[Desired(i)] \notin applied)

\* Mutant: only a replica the fragment does not name is probed.
Gate_TrustsStart ==
  /\ pc = "gate"
  /\ \E i \in todo : First(i, todo) /\
       \/ /\ Running(Desired(i)) /\ Works
          /\ todo' = todo \ {i} /\ upstreams' = upstreams \cup {addr[Desired(i)]}
          /\ gated' = [gated EXCEPT ![Desired(i)] = @ \/ (i \notin newly /\ Probed(i))]
          /\ Goto(IF todo' = {} THEN "flip" ELSE "gate")
       \/ /\ IF Running(Desired(i)) THEN Fails ELSE Works
          /\ Goto("discard")
          /\ UNCHANGED <<gated, todo, upstreams>>
  /\ UNCHANGED <<state, addr, route, responder, spec, serving, current, newly,
                 leftovers, applied, failed, changes, crashes, deaths>>

\* Mutant: the address of a container that does not run is taken at its word.
Gate_EmptyAddress ==
  /\ pc = "gate"
  /\ \E i \in todo : First(i, todo) /\
       /\ Works
       /\ todo' = todo \ {i} /\ upstreams' = upstreams \cup {addr[Desired(i)]}
       /\ gated' = [gated EXCEPT ![Desired(i)] = @ \/ Probed(i)]
       /\ Goto(IF todo' = {} THEN "flip" ELSE "gate")
  /\ UNCHANGED <<state, addr, route, responder, spec, serving, current, newly,
                 leftovers, applied, failed, changes, crashes, deaths>>

\* upstreamOf and Probe for the next index: a container that does not run has
\* no address and answers no probe.
Gate ==
  /\ pc = "gate"
  /\ \E i \in todo : First(i, todo) /\
       \/ /\ Running(Desired(i)) /\ Works
          /\ todo' = todo \ {i} /\ upstreams' = upstreams \cup {addr[Desired(i)]}
          /\ gated' = [gated EXCEPT ![Desired(i)] = @ \/ Probed(i)]
          /\ Goto(IF todo' = {} THEN "flip" ELSE "gate")
       \/ /\ IF Running(Desired(i)) THEN Fails ELSE Works
          /\ Goto("discard")
          /\ UNCHANGED <<gated, todo, upstreams>>
  /\ UNCHANGED <<state, addr, route, responder, spec, serving, current, newly,
                 leftovers, applied, failed, changes, crashes, deaths>>

\* What the fragment of an application at these addresses is to name.
Fragment(addresses) ==
  IF ~spec.routed THEN {} ELSE IF spec.maint THEN {Responder} ELSE addresses

\* SetRoute and RemoveRoute: one atomic rewrite of the fragment.
SetRoute(names) == route' = names

\* The responder serves once a pass under maintenance has ensured it ...
EnsureMaintenance == responder' = (responder \/ spec.maint)

\* ... until a pass removes it, when nothing is desired under maintenance.
RemoveMaintenance == responder' = (responder /\ spec.maint)

\* Mutant: a fragment that exists is not rewritten.
Flip_OnlyWhenUnrouted ==
  /\ pc = "flip"
  /\ Works /\ Goto("drain")
  /\ route' = IF applied = {} THEN Fragment(upstreams) ELSE route
  /\ EnsureMaintenance
  /\ UNCHANGED <<state, addr, gated, spec, locals, changes, crashes, deaths>>

\* EnsureMaintenance and applyDesiredRoute.  A responder that cannot serve leaves route and leftovers alone.
Flip ==
  /\ pc = "flip"
  /\ \/ /\ Works /\ Goto("drain")
        /\ SetRoute(Fragment(upstreams))
        /\ EnsureMaintenance
     \/ /\ spec.maint /\ Fails
        /\ Status("degraded", serving)
        /\ UNCHANGED <<route, responder>>
     \/ /\ spec.routed \/ applied # {}
        /\ Fails /\ Goto("discard")
        /\ UNCHANGED route
        /\ EnsureMaintenance
  /\ UNCHANGED <<state, addr, gated, spec, locals, changes, crashes, deaths>>

\* finishConverge: drain the leftovers, then report the version as running.
Drain ==
  /\ pc = "drain"
  /\ \/ \E c \in leftovers :
          \/ /\ Works
             /\ Becomes(c, "absent")
             /\ leftovers' = leftovers \ {c}
             /\ UNCHANGED <<pc, report>>
          \/ /\ Fails
             /\ \E s \in {"stopped", state[c]} : Becomes(c, s)
             /\ Status("degraded", spec.ver)
             /\ UNCHANGED leftovers
     \/ /\ leftovers = {} /\ Works
        /\ Status("running", spec.ver)
        /\ UNCHANGED <<state, addr, leftovers>>
  /\ UNCHANGED <<gated, route, responder, spec, serving, current, newly, applied,
                 todo, upstreams, failed, changes, crashes, deaths>>

\* RemoveMaintenance, when no application is desired under maintenance.
Sweep ==
  /\ pc = "sweep"
  /\ \/ Works /\ RemoveMaintenance
     \/ ~spec.maint /\ Fails /\ UNCHANGED responder
  /\ IF spec = Absent /\ leftovers # {} THEN Goto("unroute") /\ UNCHANGED locals
     ELSE Goto("idle") /\ NoLocals
  /\ UNCHANGED <<state, addr, gated, route, spec, changes, crashes, deaths>>

\* removeApp, for an application with containers that is not desired: the
\* fragment first, then every container, whatever fails.
Unroute ==
  /\ pc = "unroute"
  /\ \/ Works /\ SetRoute({}) /\ UNCHANGED failed
     \/ Fails /\ failed' = TRUE /\ UNCHANGED route
  /\ Goto("teardown")
  /\ UNCHANGED <<state, addr, gated, responder, spec, serving, current, newly, leftovers,
                 applied, todo, upstreams, changes, crashes, deaths>>

\* A teardown that failed is an observation, one that worked is none.
Teardown ==
  /\ pc = "teardown"
  /\ \/ \E c \in leftovers :
          /\ \/ Works /\ Becomes(c, "absent") /\ UNCHANGED failed
             \/ /\ Fails /\ failed' = TRUE
                /\ \E s \in {"stopped", state[c]} : Becomes(c, s)
          /\ leftovers' = leftovers \ {c}
          /\ UNCHANGED <<pc, report, serving, current, newly, applied, todo, upstreams>>
     \/ /\ leftovers = {} /\ Works
        /\ report' = IF failed THEN [state |-> "error", ver |-> serving] ELSE report
        /\ pc' = "idle" /\ NoLocals
        /\ UNCHANGED <<state, addr>>
  /\ UNCHANGED <<gated, route, responder, spec, changes, crashes, deaths>>

-----------------------------------------------------------------------------
(* The rest of the world.                                                  *)

\* The worker replaces the spec it holds, between two passes.
Change(s) ==
  /\ pc = "idle" /\ changes < MaxChange /\ s # spec
  /\ spec' = s /\ changes' = changes + 1
  /\ UNCHANGED <<node, report, pc, locals, faults, crashes, deaths>>

Crash ==
  /\ pc # "idle" /\ crashes < MaxCrash
  /\ crashes' = crashes + 1
  /\ Goto("idle") /\ NoLocals
  /\ UNCHANGED <<node, spec, changes, faults, deaths>>

Die(c) ==
  /\ Running(c) /\ deaths < MaxDeath
  /\ Becomes(c, "dead")
  /\ deaths' = deaths + 1
  /\ UNCHANGED <<gated, route, responder, spec, report, pc, locals, changes,
                 faults, crashes>>

\* Restart policy unless-stopped.
Revive(c) ==
  /\ state[c] = "dead"
  /\ \E a \in Address : FreeAddress(a) /\ addr' = [addr EXCEPT ![c] = a]
  /\ state' = [state EXCEPT ![c] = "running"]
  /\ UNCHANGED <<gated, route, responder, spec, report, pc, locals, budget>>

Pass ==
  \/ List \/ Prepare \/ ClearSquatter \/ CreateContainer \/ StartContainer
  \/ DiscardNew \/ ReadRoute \/ Gate \/ Flip \/ Drain
  \/ Unroute \/ Teardown \/ Sweep

World ==
  \/ Crash
  \/ \E s \in Specs : Change(s)
  \/ \E c \in Names : Die(c) \/ Revive(c)

Next == Pass \/ World

\* Fairness: the drift loop runs a pass at least once a minute, and a pass
\* that has begun goes on (every call it makes has a timeout).
Spec == Init /\ [][Next]_vars /\ WF_vars(Pass)

-----------------------------------------------------------------------------
(* Properties.                                                             *)

\* Zero downtime: the route flips, and the old containers are drained, only
\* when every desired replica has passed a health probe (convergeApp).
HealthGated ==
  pc \in {"flip", "drain"} => \A i \in spec.idx : gated[Desired(i)]

\* While an application is desired, a pass never stops a container the route
\* points at: neither draining the old ones nor cleaning up after a failure
\* (finishConverge, discardNew).
ServingUntouched ==
  [][\A c \in Names :
       pc \in {"drain", "discard"} /\ Running(c) /\ state'[c] \in {"absent", "stopped"}
         => addr[c] \notin route]_vars

\* A container the desired state asks for.
IsDesired(c) == c[1] = spec.ver /\ c[2] \in spec.idx

\* The node is in the desired state ...
Settled ==
  IF spec = Absent THEN (\A c \in Names : ~Present(c)) /\ route = {}
  ELSE /\ \A c \in Names : IF IsDesired(c) THEN Running(c) ELSE ~Present(c)
       /\ route = Fragment({addr[Desired(i)] : i \in spec.idx})
       /\ spec.maint => responder

\* ... and the last pass has said so.
Converged == Settled /\ (spec # Absent => report = [state |-> "running", ver |-> spec.ver])

\* Crash recovery: whatever died, failed or crashed on the way, once that
\* stops the node converges to its desired state and stays there.
Convergence == <>[]Converged

\* What a pass says is so: the version it reports as running is what there is, apart from
\* what has died since it was probed, and a removal it reports nothing of is complete.
ReportIsTrue ==
  /\ pc = "drain" /\ leftovers = {} =>
       /\ \A c \in Names : IF IsDesired(c) THEN state[c] \in {"running", "dead"} ELSE ~Present(c)
       /\ route = Fragment(upstreams)
       /\ spec.maint => responder
  /\ pc = "teardown" /\ leftovers = {} /\ ~failed => Settled

\* The order of the calls of a pass; create and start alternate.
Rank ==
  [op \in Ops \cup {"idle"} |->
     CASE op = "idle" -> 0 [] op = "prepare" -> 1 [] op = "clear" -> 2
       [] op \in {"create", "start"} -> 3 [] op = "readRoute" -> 4 [] op = "gate" -> 5
       [] op = "flip" -> 6 [] op = "drain" -> 7 [] op = "discard" -> 8 [] op = "sweep" -> 9
       [] op = "unroute" -> 10 [] op = "teardown" -> 11]

Unstarted == {i \in newly : Fresh(i)}

\* What is left to do at the call at hand.
Backlog ==
  CASE pc = "clear" -> Squatters
    [] pc \in {"create", "start"} -> (Missing \X {"create", "start"})
                                    \cup (Unstarted \X {"start"})
    [] pc = "gate" -> todo
    [] pc \in {"drain", "teardown"} -> leftovers
    [] pc = "discard" -> newly
    [] OTHER -> {}

\* A pass never goes round in circles: a call that works ends the pass, leads to a later
\* one, or leaves less to do, and containers that die or come back give a pass no more to do.
PassAdvances ==
  [][/\ Pass /\ UNCHANGED faults =>
          \/ pc' = "idle" \/ Rank[pc'] > Rank[pc]
          \/ Rank[pc'] = Rank[pc] /\ Backlog' \subseteq Backlog /\ Backlog' # Backlog
     /\ World => pc' = "idle" \/ UNCHANGED <<pc, Backlog>>]_vars

-----------------------------------------------------------------------------
(* The inductive invariant behind HealthGated and ServingUntouched; it     *)
(* holds when the daemon does not reuse an address the fragment names.     *)

\* Calls of convergeApp before the route is flipped.
Converging == {"prepare", "clear", "create", "start", "readRoute", "gate", "flip", "discard"}

PassShape ==
  /\ pc \in Converging \cup {"drain"} =>
       spec \in SpecType /\ newly \subseteq current /\ current \subseteq spec.idx
  /\ pc \in {"prepare", "clear", "create", "start", "readRoute"} => upstreams = {}
  /\ pc = "gate" => applied = route /\ todo \subseteq spec.idx
  /\ pc \in {"flip", "drain"} => todo = {}

\* Running containers have addresses, and no two have the same.
Addressed ==
  /\ \A c \in Names : Running(c) => addr[c] \in Address
  /\ \A c, d \in Names : Running(c) /\ Running(d) /\ addr[c] = addr[d] => c = d

\* A container the fragment reaches has passed a probe, so a pass need not
\* probe it again; likewise the addresses that are about to be written.
RouteGated ==
  /\ \A c \in Names : Running(c) /\ addr[c] \in route => gated[c]
  /\ pc \in {"gate", "flip"} /\ ~spec.maint =>
       \A c \in Names : Running(c) /\ addr[c] \in upstreams => gated[c]
  /\ pc \in {"gate", "flip", "drain"} /\ ~spec.maint =>
       \A i \in spec.idx \ todo : gated[Desired(i)]

\* What a pass created is not in the route before the flip.
NewUnrouted ==
  pc \in Converging =>
    \A i \in newly : Running(Desired(i)) => addr[Desired(i)] \notin route

\* What it is to drain is not desired, and not in the route after the flip.
LeftoversUnrouted ==
  /\ pc \in {"prepare", "clear"} => \A i \in current : Desired(i) \notin leftovers
  /\ pc \in {"create", "start", "readRoute", "gate", "flip", "drain"} =>
       \A i \in spec.idx : Desired(i) \notin leftovers
  /\ pc \in {"gate", "flip"} =>
       \A c \in leftovers : Running(c) => addr[c] \notin upstreams
  /\ pc = "drain" => \A c \in leftovers : Running(c) => addr[c] \notin route

\* What is there and not on the list of the pass is desired; in a removal nothing is left
\* out, unless a call of it has failed.
Accounted ==
  /\ pc \in Converging \cup {"drain"} =>
       \A c \in Names : Present(c) => c \in leftovers \/ IsDesired(c)
  /\ pc \in {"sweep", "unroute", "teardown"} /\ spec = Absent =>
       \A c \in Names : Present(c) => c \in leftovers \/ failed
  /\ pc \in {"unroute", "teardown"} => spec = Absent
  /\ pc = "teardown" => route = {} \/ failed

\* A replica the pass has gated is there until the pass ends, running or for the daemon to
\* restart; and the fragment names what was gated once the pass has flipped it.
GatedStand ==
  /\ pc \in {"gate", "flip", "drain"} =>
       \A i \in spec.idx \ todo : state[Desired(i)] \in {"running", "dead"}
  /\ pc = "drain" => route = Fragment(upstreams) /\ (spec.maint => responder)

DriverInv ==
  /\ TypeOK /\ PassShape /\ Addressed /\ RouteGated /\ NewUnrouted /\ LeftoversUnrouted
  /\ Accounted /\ GatedStand
=============================================================================

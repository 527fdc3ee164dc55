-------------------------- MODULE DockerDriverProofs --------------------------
(***************************************************************************)
(* Zero downtime of the docker driver, for every set of versions, replica  *)
(* indexes and addresses and for any number of faults, crashes and deaths. *)
(*                                                                         *)
(* HealthGated and ServingUntouched are not inductive.  DriverInv is: the  *)
(* fragment reaches probed containers only, so the pass may skip probing   *)
(* what the fragment names; a pass's own containers are outside the route  *)
(* until it flips; and what it drains afterwards is outside the route.     *)
(* There is one lemma per part and in it one step per action.              *)
(***************************************************************************)
EXTENDS DockerDriver, TLAPS

\* The fields of a desired state.
LEMMA SpecFields ==
  ASSUME TypeOK
  PROVE  /\ spec.idx \subseteq Index /\ spec.ver \in Version \cup {NoVersion}
         /\ spec.maint \in BOOLEAN /\ spec.routed \in BOOLEAN
         /\ spec \in SpecType => spec.ver \in Version
<1>1. CASE spec \in SpecType
  BY <1>1 DEF SpecType
<1>2. CASE spec = Absent
  <2>1. spec.ver = NoVersion /\ spec.idx = {} /\ spec.maint = FALSE /\ spec.routed = FALSE
    BY <1>2 DEF Absent
  <2>2. spec \notin SpecType
    BY <2>1, DriverAssumption DEF SpecType
  <2>3. QED
    BY <2>1, <2>2
<1>3. QED
  BY <1>1, <1>2 DEF TypeOK

\* While a pass converges an application, its replicas have container names.
LEMMA DesiredName ==
  ASSUME TypeOK, PassShape, pc \in Converging \cup {"drain"}
  PROVE  \A i \in Index : Desired(i) \in Names
BY SpecFields DEF PassShape, Desired, Names

\* Every step preserves the type invariant.
LEMMA TypeStep ==
  ASSUME TypeOK, PassShape, Addressed, [Next]_vars
  PROVE  TypeOK'
<1> USE SpecFields, DriverAssumption
<1>1. CASE List
  <2>1. pc' \in Ops \cup {"idle"}
    BY <1>1 DEF TypeOK, List, Ops, Running, Present, Desired, Absent, node, locals,
       UnchangedNode, Works, Fails, Goto
  <2>2. serving' \in Version \cup {NoVersion}
    BY <1>1 DEF TypeOK, List, Running, Present, Desired, Absent, node, locals,
       UnchangedNode, Works, Fails, Goto, Names
  <2>3. current' \subseteq Index /\ newly' \subseteq Index /\ todo' \subseteq Index
    BY <1>1 DEF TypeOK, List, Running, Present, Desired, Absent, node, locals,
       UnchangedNode, Works, Fails, Goto
  <2>4. /\ leftovers' \subseteq Names
        /\ applied' \subseteq Address \cup {Responder} /\ failed' \in BOOLEAN
    BY <1>1 DEF TypeOK, List, Running, Present, Desired, Absent, node, locals,
       UnchangedNode, Works, Fails, Goto
  <2>5. upstreams' \subseteq Address
    BY <1>1 DEF TypeOK, List, Running, Present, Desired, Absent, node, locals,
       UnchangedNode, Works, Fails, Goto
  <2>6. /\ changes' \in 0..MaxChange /\ faults' \in 0..MaxFault
        /\ crashes' \in 0..MaxCrash /\ deaths' \in 0..MaxDeath
    BY <1>1 DEF TypeOK, List, Running, Present, Desired, Absent, node, locals,
       UnchangedNode, Works, Fails, Goto
  <2>7. UNCHANGED <<state, addr, gated, route, responder, spec, report>>
    BY <1>1 DEF List, node, locals, UnchangedNode, Works, Fails, Goto
  <2>8. QED
    BY <2>1, <2>2, <2>3, <2>4, <2>5, <2>6, <2>7 DEF TypeOK
<1>2. CASE Prepare
  <2>1. report' \in [state : {"none", "running", "degraded", "error"},
                     ver : Version \cup {NoVersion}]
    BY <1>2 DEF TypeOK, Prepare, node, locals, UnchangedNode, Works, Fails, Goto, Status,
       PassShape
  <2>2. pc' \in Ops \cup {"idle"}
    BY <1>2 DEF TypeOK, Prepare, Ops, node, locals, UnchangedNode, Works, Fails, Goto, Status
  <2>3. /\ changes' \in 0..MaxChange /\ faults' \in 0..MaxFault
        /\ crashes' \in 0..MaxCrash /\ deaths' \in 0..MaxDeath
    BY <1>2 DEF TypeOK, Prepare, node, locals, UnchangedNode, Works, Fails, Goto, Status
  <2>4. UNCHANGED <<state, addr, gated, route, responder, spec, serving, current, newly, todo,
                    leftovers, applied, failed, upstreams>>
    BY <1>2 DEF Prepare, node, locals, UnchangedNode, Works, Fails, Goto, Status
  <2>5. QED
    BY <2>1, <2>2, <2>3, <2>4 DEF TypeOK
<1>3. CASE ClearSquatter
  <2>1. state' \in [Names -> ContainerStates]
    BY <1>3 DEF TypeOK, ClearSquatter, ContainerStates, Discard, Becomes, Squatters,
       Missing, Works, Fails, Goto
  <2>2. addr' \in [Names -> Address \cup {NoAddress}]
    BY <1>3 DEF TypeOK, ClearSquatter, Discard, Becomes, Squatters, Missing, Works, Fails, Goto
  <2>3. pc' \in Ops \cup {"idle"}
    BY <1>3 DEF TypeOK, ClearSquatter, Ops, Discard, Becomes, Squatters, Missing, Works,
       Fails, Goto
  <2>4. /\ leftovers' \subseteq Names
        /\ applied' \subseteq Address \cup {Responder} /\ failed' \in BOOLEAN
    BY <1>3 DEF TypeOK, ClearSquatter, Discard, Becomes, Squatters, Missing, Works, Fails, Goto
  <2>5. /\ changes' \in 0..MaxChange /\ faults' \in 0..MaxFault
        /\ crashes' \in 0..MaxCrash /\ deaths' \in 0..MaxDeath
    BY <1>3 DEF TypeOK, ClearSquatter, Discard, Becomes, Squatters, Missing, Works, Fails, Goto
  <2>6. UNCHANGED <<gated, route, responder, spec, report, serving, current, newly, todo,
                    upstreams>>
    BY <1>3 DEF ClearSquatter, Works, Fails, Goto
  <2>7. QED
    BY <2>1, <2>2, <2>3, <2>4, <2>5, <2>6 DEF TypeOK
<1>4. CASE CreateContainer
  <2>1. state' \in [Names -> ContainerStates]
    BY <1>4 DEF TypeOK, CreateContainer, ContainerStates, Missing, Desired, Present,
       First, Works, Fails, Goto
  <2>2. gated' \in [Names -> BOOLEAN]
    BY <1>4 DEF TypeOK, CreateContainer, Missing, Desired, Present, First, Works, Fails, Goto
  <2>3. pc' \in Ops \cup {"idle"}
    BY <1>4 DEF TypeOK, CreateContainer, Ops, Missing, Desired, Present, First, Works,
       Fails, Goto
  <2>4. current' \subseteq Index /\ newly' \subseteq Index /\ todo' \subseteq Index
    <3>1. PICK i \in Missing : /\ current' \in {current, current \cup {i}}
                              /\ newly' \in {newly, newly \cup {i}}
      BY <1>4 DEF CreateContainer
    <3>2. i \in Index
      BY <3>1, SpecFields DEF Missing
    <3>3. todo' = todo
      BY <1>4 DEF CreateContainer
    <3>4. QED
      BY <3>1, <3>2, <3>3 DEF TypeOK
  <2>5. /\ changes' \in 0..MaxChange /\ faults' \in 0..MaxFault
        /\ crashes' \in 0..MaxCrash /\ deaths' \in 0..MaxDeath
    BY <1>4 DEF TypeOK, CreateContainer, Missing, Desired, Present, First, Works, Fails, Goto
  <2>6. UNCHANGED <<addr, route, responder, spec, report, serving, leftovers, applied, failed,
                    upstreams>>
    BY <1>4 DEF CreateContainer, Works, Fails, Goto
  <2>7. QED
    BY <2>1, <2>2, <2>3, <2>4, <2>5, <2>6 DEF TypeOK
<1>5. CASE StartContainer
  <2>1. state' \in [Names -> ContainerStates]
    BY <1>5 DEF TypeOK, StartContainer, ContainerStates, Fresh, FreeAddress, Running,
       Desired, Missing, locals, Works, Fails, Goto
  <2>2. addr' \in [Names -> Address \cup {NoAddress}]
    BY <1>5 DEF TypeOK, StartContainer, Fresh, FreeAddress, Running, Desired, Missing,
       locals, Works, Fails, Goto
  <2>3. pc' \in Ops \cup {"idle"}
    BY <1>5 DEF TypeOK, StartContainer, Ops, Fresh, FreeAddress, Running, Desired,
       Missing, locals, Works, Fails, Goto
  <2>4. /\ changes' \in 0..MaxChange /\ faults' \in 0..MaxFault
        /\ crashes' \in 0..MaxCrash /\ deaths' \in 0..MaxDeath
    BY <1>5 DEF TypeOK, StartContainer, Fresh, FreeAddress, Running, Desired, Missing,
       locals, Works, Fails, Goto
  <2>5. UNCHANGED <<gated, route, responder, spec, report, serving, current, newly, todo,
                    leftovers, applied, failed, upstreams>>
    BY <1>5 DEF StartContainer, locals, Works, Fails, Goto
  <2>6. QED
    BY <2>1, <2>2, <2>3, <2>4, <2>5 DEF TypeOK
<1>6. CASE DiscardNew
  <2>1. state' \in [Names -> ContainerStates]
    BY <1>6 DEF TypeOK, DiscardNew, ContainerStates, Works, Fails, Status, Discard, Becomes
  <2>2. addr' \in [Names -> Address \cup {NoAddress}]
    BY <1>6 DEF TypeOK, DiscardNew, Works, Fails, Status, Discard, Becomes
  <2>3. report' \in [state : {"none", "running", "degraded", "error"},
                     ver : Version \cup {NoVersion}]
    BY <1>6 DEF TypeOK, DiscardNew, Works, Fails, Status, Discard, Becomes, PassShape
  <2>4. pc' \in Ops \cup {"idle"}
    BY <1>6 DEF TypeOK, DiscardNew, Ops, Works, Fails, Status, Discard, Becomes
  <2>5. current' \subseteq Index /\ newly' \subseteq Index /\ todo' \subseteq Index
    BY <1>6 DEF TypeOK, DiscardNew, Works, Fails, Status, Discard, Becomes
  <2>6. /\ changes' \in 0..MaxChange /\ faults' \in 0..MaxFault
        /\ crashes' \in 0..MaxCrash /\ deaths' \in 0..MaxDeath
    BY <1>6 DEF TypeOK, DiscardNew, Works, Fails, Status, Discard, Becomes
  <2>7. UNCHANGED <<gated, route, responder, spec, serving, leftovers, applied, failed,
                    upstreams>>
    BY <1>6 DEF DiscardNew, Works, Fails, Status
  <2>8. QED
    BY <2>1, <2>2, <2>3, <2>4, <2>5, <2>6, <2>7 DEF TypeOK
<1>7. CASE ReadRoute
  <2>1. report' \in [state : {"none", "running", "degraded", "error"},
                     ver : Version \cup {NoVersion}]
    BY <1>7 DEF TypeOK, ReadRoute, node, UnchangedNode, Works, Fails, Goto, Status, PassShape
  <2>2. pc' \in Ops \cup {"idle"}
    BY <1>7 DEF TypeOK, ReadRoute, Ops, node, UnchangedNode, Works, Fails, Goto, Status
  <2>3. current' \subseteq Index /\ newly' \subseteq Index /\ todo' \subseteq Index
    BY <1>7 DEF TypeOK, ReadRoute, node, UnchangedNode, Works, Fails, Goto, Status
  <2>4. /\ leftovers' \subseteq Names
        /\ applied' \subseteq Address \cup {Responder} /\ failed' \in BOOLEAN
    BY <1>7 DEF TypeOK, ReadRoute, node, UnchangedNode, Works, Fails, Goto, Status
  <2>5. /\ changes' \in 0..MaxChange /\ faults' \in 0..MaxFault
        /\ crashes' \in 0..MaxCrash /\ deaths' \in 0..MaxDeath
    BY <1>7 DEF TypeOK, ReadRoute, node, UnchangedNode, Works, Fails, Goto, Status
  <2>6. UNCHANGED <<state, addr, gated, route, responder, spec, serving, upstreams>>
    BY <1>7 DEF ReadRoute, node, UnchangedNode, Works, Fails, Goto, Status
  <2>7. QED
    BY <2>1, <2>2, <2>3, <2>4, <2>5, <2>6 DEF TypeOK
<1>8. CASE Gate
  <2>1. gated' \in [Names -> BOOLEAN]
    BY <1>8 DEF TypeOK, Gate, Probed, Running, Desired, First, Works, Fails, Goto
  <2>2. pc' \in Ops \cup {"idle"}
    BY <1>8 DEF TypeOK, Gate, Ops, Probed, Running, Desired, First, Works, Fails, Goto
  <2>3. current' \subseteq Index /\ newly' \subseteq Index /\ todo' \subseteq Index
    BY <1>8 DEF TypeOK, Gate, Probed, Running, Desired, First, Works, Fails, Goto
  <2>4. upstreams' \subseteq Address
    <3>1. PICK i \in todo : \/ upstreams' = upstreams
                           \/ /\ Running(Desired(i))
                              /\ upstreams' = upstreams \cup {addr[Desired(i)]}
      BY <1>8 DEF Gate
    <3>2. Desired(i) \in Names
      BY <1>8, <3>1 DEF Gate, PassShape, Converging, SpecType, TypeOK, Desired, Names
    <3>3. Running(Desired(i)) => addr[Desired(i)] \in Address
      BY <3>2 DEF Addressed
    <3>4. QED
      BY <3>1, <3>3 DEF TypeOK
  <2>5. /\ changes' \in 0..MaxChange /\ faults' \in 0..MaxFault
        /\ crashes' \in 0..MaxCrash /\ deaths' \in 0..MaxDeath
    BY <1>8 DEF TypeOK, Gate, Probed, Running, Desired, First, Works, Fails, Goto
  <2>6. UNCHANGED <<state, addr, route, responder, spec, report, serving, leftovers, applied,
                    failed>>
    BY <1>8 DEF Gate, Works, Fails, Goto
  <2>7. QED
    BY <2>1, <2>2, <2>3, <2>4, <2>5, <2>6 DEF TypeOK
<1>9. CASE Flip
  <2>1. route' \subseteq Address \cup {Responder} /\ responder' \in BOOLEAN
    BY <1>9 DEF TypeOK, Flip, SetRoute, EnsureMaintenance, Fragment, locals, Works, Fails,
       Goto, Status
  <2>2. report' \in [state : {"none", "running", "degraded", "error"},
                     ver : Version \cup {NoVersion}]
    BY <1>9 DEF TypeOK, Flip, SetRoute, EnsureMaintenance, Fragment, locals, Works, Fails,
       Goto, Status, PassShape
  <2>3. pc' \in Ops \cup {"idle"}
    BY <1>9 DEF TypeOK, Flip, SetRoute, EnsureMaintenance, Ops, Fragment, locals, Works,
       Fails, Goto, Status
  <2>4. /\ changes' \in 0..MaxChange /\ faults' \in 0..MaxFault
        /\ crashes' \in 0..MaxCrash /\ deaths' \in 0..MaxDeath
    BY <1>9 DEF TypeOK, Flip, SetRoute, EnsureMaintenance, Fragment, locals, Works, Fails,
       Goto, Status
  <2>5. UNCHANGED <<state, addr, gated, spec, serving, current, newly, todo, leftovers,
                    applied, failed, upstreams>>
    BY <1>9 DEF Flip, SetRoute, EnsureMaintenance, locals, Works, Fails, Goto, Status
  <2>6. QED
    BY <2>1, <2>2, <2>3, <2>4, <2>5 DEF TypeOK
<1>10. CASE Drain
  <2>1. state' \in [Names -> ContainerStates]
    BY <1>10 DEF TypeOK, Drain, ContainerStates, Becomes, Works, Fails, Status
  <2>2. addr' \in [Names -> Address \cup {NoAddress}]
    BY <1>10 DEF TypeOK, Drain, Becomes, Works, Fails, Status
  <2>3. report' \in [state : {"none", "running", "degraded", "error"},
                     ver : Version \cup {NoVersion}]
    BY <1>10 DEF TypeOK, Drain, Becomes, Works, Fails, Status, PassShape
  <2>4. pc' \in Ops \cup {"idle"}
    BY <1>10 DEF TypeOK, Drain, Ops, Becomes, Works, Fails, Status
  <2>5. /\ leftovers' \subseteq Names
        /\ applied' \subseteq Address \cup {Responder} /\ failed' \in BOOLEAN
    BY <1>10 DEF TypeOK, Drain, Becomes, Works, Fails, Status
  <2>6. /\ changes' \in 0..MaxChange /\ faults' \in 0..MaxFault
        /\ crashes' \in 0..MaxCrash /\ deaths' \in 0..MaxDeath
    BY <1>10 DEF TypeOK, Drain, Becomes, Works, Fails, Status
  <2>7. UNCHANGED <<gated, route, responder, spec, serving, current, newly, todo, upstreams>>
    BY <1>10 DEF Drain, Works, Fails, Status
  <2>8. QED
    BY <2>1, <2>2, <2>3, <2>4, <2>5, <2>6, <2>7 DEF TypeOK
<1>11. CASE Unroute
  <2>1. route' \subseteq Address \cup {Responder} /\ responder' \in BOOLEAN
    BY <1>11 DEF TypeOK, Unroute, SetRoute, Works, Fails, Goto
  <2>2. pc' \in Ops \cup {"idle"}
    BY <1>11 DEF TypeOK, Unroute, SetRoute, Ops, Works, Fails, Goto
  <2>3. /\ leftovers' \subseteq Names
        /\ applied' \subseteq Address \cup {Responder} /\ failed' \in BOOLEAN
    BY <1>11 DEF TypeOK, Unroute, SetRoute, Works, Fails, Goto
  <2>4. /\ changes' \in 0..MaxChange /\ faults' \in 0..MaxFault
        /\ crashes' \in 0..MaxCrash /\ deaths' \in 0..MaxDeath
    BY <1>11 DEF TypeOK, Unroute, SetRoute, Works, Fails, Goto
  <2>5. UNCHANGED <<state, addr, gated, spec, report, serving, current, newly, todo, upstreams>>
    BY <1>11 DEF Unroute, SetRoute, Works, Fails, Goto
  <2>6. QED
    BY <2>1, <2>2, <2>3, <2>4, <2>5 DEF TypeOK
<1>12. CASE Teardown
  <2>1. state' \in [Names -> ContainerStates]
    BY <1>12 DEF TypeOK, Teardown, ContainerStates, Becomes, NoLocals, Works, Fails
  <2>2. addr' \in [Names -> Address \cup {NoAddress}]
    BY <1>12 DEF TypeOK, Teardown, Becomes, NoLocals, Works, Fails
  <2>3. report' \in [state : {"none", "running", "degraded", "error"},
                     ver : Version \cup {NoVersion}]
    BY <1>12 DEF TypeOK, Teardown, Becomes, NoLocals, Works, Fails, PassShape
  <2>4. pc' \in Ops \cup {"idle"}
    BY <1>12 DEF TypeOK, Teardown, Ops, Becomes, NoLocals, Works, Fails
  <2>5. serving' \in Version \cup {NoVersion}
    BY <1>12 DEF TypeOK, Teardown, Becomes, NoLocals, Works, Fails, Names
  <2>6. current' \subseteq Index /\ newly' \subseteq Index /\ todo' \subseteq Index
    BY <1>12 DEF TypeOK, Teardown, Becomes, NoLocals, Works, Fails
  <2>7. /\ leftovers' \subseteq Names
        /\ applied' \subseteq Address \cup {Responder} /\ failed' \in BOOLEAN
    BY <1>12 DEF TypeOK, Teardown, Becomes, NoLocals, Works, Fails
  <2>8. upstreams' \subseteq Address
    BY <1>12 DEF TypeOK, Teardown, Becomes, NoLocals, Works, Fails
  <2>9. /\ changes' \in 0..MaxChange /\ faults' \in 0..MaxFault
        /\ crashes' \in 0..MaxCrash /\ deaths' \in 0..MaxDeath
    BY <1>12 DEF TypeOK, Teardown, Becomes, NoLocals, Works, Fails
  <2>10. UNCHANGED <<gated, route, responder, spec>>
    BY <1>12 DEF Teardown, Works, Fails
  <2>11. QED
    BY <2>1, <2>2, <2>3, <2>4, <2>5, <2>6, <2>7, <2>8, <2>9, <2>10 DEF TypeOK
<1>13. CASE Sweep
  <2>1. route' \subseteq Address \cup {Responder} /\ responder' \in BOOLEAN
    BY <1>13 DEF TypeOK, Sweep, RemoveMaintenance, NoLocals, locals, Works, Fails, Goto
  <2>2. pc' \in Ops \cup {"idle"}
    BY <1>13 DEF TypeOK, Sweep, RemoveMaintenance, Ops, NoLocals, locals, Works, Fails, Goto
  <2>3. serving' \in Version \cup {NoVersion}
    BY <1>13 DEF TypeOK, Sweep, RemoveMaintenance, NoLocals, locals, Works, Fails, Goto, Names
  <2>4. current' \subseteq Index /\ newly' \subseteq Index /\ todo' \subseteq Index
    BY <1>13 DEF TypeOK, Sweep, RemoveMaintenance, NoLocals, locals, Works, Fails, Goto
  <2>5. /\ leftovers' \subseteq Names
        /\ applied' \subseteq Address \cup {Responder} /\ failed' \in BOOLEAN
    BY <1>13 DEF TypeOK, Sweep, RemoveMaintenance, NoLocals, locals, Works, Fails, Goto
  <2>6. upstreams' \subseteq Address
    BY <1>13 DEF TypeOK, Sweep, RemoveMaintenance, NoLocals, locals, Works, Fails, Goto
  <2>7. /\ changes' \in 0..MaxChange /\ faults' \in 0..MaxFault
        /\ crashes' \in 0..MaxCrash /\ deaths' \in 0..MaxDeath
    BY <1>13 DEF TypeOK, Sweep, RemoveMaintenance, NoLocals, locals, Works, Fails, Goto
  <2>8. UNCHANGED <<state, addr, gated, spec, report>>
    BY <1>13 DEF Sweep, RemoveMaintenance, locals, Works, Fails, Goto
  <2>9. QED
    BY <2>1, <2>2, <2>3, <2>4, <2>5, <2>6, <2>7, <2>8 DEF TypeOK
<1>14. CASE Crash
  <2>1. pc' \in Ops \cup {"idle"}
    BY <1>14 DEF TypeOK, Crash, Ops, NoLocals, node, Goto
  <2>2. serving' \in Version \cup {NoVersion}
    BY <1>14 DEF TypeOK, Crash, NoLocals, node, Goto, Names
  <2>3. current' \subseteq Index /\ newly' \subseteq Index /\ todo' \subseteq Index
    BY <1>14 DEF TypeOK, Crash, NoLocals, node, Goto
  <2>4. /\ leftovers' \subseteq Names
        /\ applied' \subseteq Address \cup {Responder} /\ failed' \in BOOLEAN
    BY <1>14 DEF TypeOK, Crash, NoLocals, node, Goto
  <2>5. upstreams' \subseteq Address
    BY <1>14 DEF TypeOK, Crash, NoLocals, node, Goto
  <2>6. /\ changes' \in 0..MaxChange /\ faults' \in 0..MaxFault
        /\ crashes' \in 0..MaxCrash /\ deaths' \in 0..MaxDeath
    BY <1>14 DEF TypeOK, Crash, NoLocals, node, Goto
  <2>7. UNCHANGED <<state, addr, gated, route, responder, spec, report>>
    BY <1>14 DEF Crash, node, Goto
  <2>8. QED
    BY <2>1, <2>2, <2>3, <2>4, <2>5, <2>6, <2>7 DEF TypeOK
<1>15. ASSUME NEW s \in Specs, Change(s) PROVE TypeOK'
  <2>1. spec' \in SpecType \cup {Absent}
    BY <1>15 DEF TypeOK, Change, node, locals
  <2>2. /\ changes' \in 0..MaxChange /\ faults' \in 0..MaxFault
        /\ crashes' \in 0..MaxCrash /\ deaths' \in 0..MaxDeath
    BY <1>15 DEF TypeOK, Change, node, locals
  <2>3. UNCHANGED <<state, addr, gated, route, responder, report, pc, serving, current, newly,
                    todo, leftovers, applied, failed, upstreams>>
    BY <1>15 DEF Change, node, locals
  <2>4. QED
    BY <2>1, <2>2, <2>3 DEF TypeOK
<1>16. ASSUME NEW c \in Names, Die(c) PROVE TypeOK'
  <2>1. state' \in [Names -> ContainerStates]
    BY <1>16 DEF TypeOK, Die, ContainerStates, Becomes, Running, locals
  <2>2. addr' \in [Names -> Address \cup {NoAddress}]
    BY <1>16 DEF TypeOK, Die, Becomes, Running, locals
  <2>3. /\ changes' \in 0..MaxChange /\ faults' \in 0..MaxFault
        /\ crashes' \in 0..MaxCrash /\ deaths' \in 0..MaxDeath
    BY <1>16 DEF TypeOK, Die, Becomes, Running, locals
  <2>4. UNCHANGED <<gated, route, responder, spec, report, pc, serving, current, newly, todo,
                    leftovers, applied, failed, upstreams>>
    BY <1>16 DEF Die, locals
  <2>5. QED
    BY <2>1, <2>2, <2>3, <2>4 DEF TypeOK
<1>17. ASSUME NEW c \in Names, Revive(c) PROVE TypeOK'
  <2>1. state' \in [Names -> ContainerStates]
    BY <1>17 DEF TypeOK, Revive, ContainerStates, FreeAddress, Running, locals, budget
  <2>2. addr' \in [Names -> Address \cup {NoAddress}]
    BY <1>17 DEF TypeOK, Revive, FreeAddress, Running, locals, budget
  <2>3. UNCHANGED <<gated, route, responder, spec, report, pc, serving, current, newly, todo,
                    leftovers, applied, failed, upstreams, changes, faults, crashes, deaths>>
    BY <1>17 DEF Revive, locals, budget
  <2>4. QED
    BY <2>1, <2>2, <2>3 DEF TypeOK
<1>18. CASE UNCHANGED vars
  BY <1>18 DEF vars, TypeOK, node, locals, budget
<1>19. QED
  BY <1>1, <1>2, <1>3, <1>4, <1>5, <1>6, <1>7, <1>8, <1>9, <1>10, <1>11, <1>12, <1>13,
     <1>14, <1>15, <1>16, <1>17, <1>18 DEF Next, Pass, World

\* Stopping, removing or losing a container gives nobody an address.
LEMMA BecomesEffect ==
  ASSUME TypeOK, NEW c \in Names, NEW s \in {"absent", "stopped", "dead", state[c]}, Becomes(c, s)
  PROVE  \A d \in Names : state'[d] = "running" => state[d] = "running" /\ addr'[d] = addr[d]
BY DEF TypeOK, Becomes

\* Neither does discard, whether its calls work or fail.
LEMMA DiscardEffect ==
  ASSUME TypeOK, NEW c \in Names, Discard(c)
  PROVE  \A d \in Names : state'[d] = "running" => state[d] = "running" /\ addr'[d] = addr[d]
BY BecomesEffect DEF Discard

\* Every step preserves the shape of a pass: what its variables hold at each call.
LEMMA ShapeStep ==
  ASSUME TypeOK, PassShape, [Next]_vars
  PROVE  PassShape'
<1>1. CASE List
  BY <1>1, DriverAssumption DEF List, TypeOK, PassShape, Converging, Ops, SpecType,
     Running, Present, Desired, Absent, node, locals, UnchangedNode, Works, Fails, Goto
<1>2. CASE Prepare
  BY <1>2, DriverAssumption DEF Prepare, TypeOK, PassShape, Converging, Ops, SpecType,
     node, locals, UnchangedNode, Works, Fails, Goto, Status
<1>3. CASE ClearSquatter
  BY <1>3, DriverAssumption DEF ClearSquatter, TypeOK, PassShape, Converging, Ops,
     SpecType, Discard, Becomes, Squatters, Missing, Works, Fails, Goto
<1>4. CASE CreateContainer
  BY <1>4, DriverAssumption DEF CreateContainer, TypeOK, PassShape, Converging, Ops,
     SpecType, Missing, Desired, Present, First, Works, Fails, Goto
<1>5. CASE StartContainer
  BY <1>5, DriverAssumption DEF StartContainer, TypeOK, PassShape, Converging, Ops,
     SpecType, Fresh, FreeAddress, Running, Desired, Missing, locals, Works, Fails, Goto
<1>6. CASE DiscardNew
  BY <1>6, DriverAssumption DEF DiscardNew, TypeOK, PassShape, Converging, Ops, SpecType,
     Discard, Becomes, Desired, Works, Fails, Status
<1>7. CASE ReadRoute
  BY <1>7, DriverAssumption DEF ReadRoute, TypeOK, PassShape, Converging, Ops, SpecType,
     node, UnchangedNode, Works, Fails, Goto, Status
<1>8. CASE Gate
  BY <1>8, DriverAssumption DEF Gate, TypeOK, PassShape, Converging, Ops, SpecType, Probed,
     Running, Desired, First, Works, Fails, Goto
<1>9. CASE Flip
  BY <1>9, DriverAssumption DEF Flip, SetRoute, EnsureMaintenance, TypeOK, PassShape,
     Converging, Ops, SpecType, Fragment, locals, Works, Fails, Goto, Status
<1>10. CASE Drain
  BY <1>10, DriverAssumption DEF Drain, TypeOK, PassShape, Converging, Ops, SpecType,
     Becomes, Works, Fails, Status
<1>11. CASE Unroute
  BY <1>11, DriverAssumption DEF Unroute, SetRoute, TypeOK, PassShape, Converging, Ops,
     SpecType, Works, Fails, Goto
<1>12. CASE Teardown
  BY <1>12, DriverAssumption DEF Teardown, TypeOK, PassShape, Converging, Ops, SpecType,
     Becomes, NoLocals, Works, Fails
<1>13. CASE Sweep
  BY <1>13, DriverAssumption DEF Sweep, RemoveMaintenance, TypeOK, PassShape, Converging,
     Ops, SpecType, NoLocals, locals, Works, Fails, Goto
<1>14. CASE Crash
  BY <1>14, DriverAssumption DEF Crash, TypeOK, PassShape, Converging, Ops, SpecType,
     NoLocals, node, Goto
<1>15. ASSUME NEW s \in Specs, Change(s) PROVE PassShape'
  BY <1>15, DriverAssumption DEF Change, TypeOK, PassShape, Converging, Ops, SpecType,
     node, locals
<1>16. ASSUME NEW c \in Names, Die(c) PROVE PassShape'
  BY <1>16, DriverAssumption DEF Die, TypeOK, PassShape, Converging, Ops, SpecType,
     Becomes, Running, locals
<1>17. ASSUME NEW c \in Names, Revive(c) PROVE PassShape'
  BY <1>17, DriverAssumption DEF Revive, TypeOK, PassShape, Converging, Ops, SpecType,
     FreeAddress, Running, locals, budget
<1>18. CASE UNCHANGED vars
  BY <1>18 DEF vars, TypeOK, PassShape, Converging, Ops, SpecType, Running, Desired, node,
     locals, budget
<1>19. QED
  BY <1>1, <1>2, <1>3, <1>4, <1>5, <1>6, <1>7, <1>8, <1>9, <1>10, <1>11, <1>12, <1>13,
     <1>14, <1>15, <1>16, <1>17, <1>18 DEF Next, Pass, World

\* Every step preserves that running containers have addresses of their own.
LEMMA AddressedStep ==
  ASSUME TypeOK, PassShape, Addressed, [Next]_vars
  PROVE  Addressed'
<1> USE DesiredName
<1>1. CASE List
  BY <1>1 DEF List, TypeOK, Addressed, Converging, Running, Present, Absent, node, locals,
     UnchangedNode, Works, Fails, Goto
<1>2. CASE Prepare
  BY <1>2 DEF Prepare, TypeOK, Addressed, Converging, Running, node, locals, UnchangedNode,
     Works, Fails, Goto, Status
<1>3. CASE ClearSquatter
  BY <1>3 DEF ClearSquatter, TypeOK, Addressed, Converging, Discard, Becomes, Squatters,
     Missing, Running, Works, Fails, Goto
<1>4. CASE CreateContainer
  BY <1>4 DEF CreateContainer, TypeOK, Addressed, Converging, Missing, Present, Running,
     First, Works, Fails, Goto
<1>5. CASE StartContainer
  BY <1>5 DEF StartContainer, TypeOK, Addressed, Converging, Fresh, FreeAddress, Running,
     Missing, locals, Works, Fails, Goto
<1>6. CASE DiscardNew
  BY <1>6 DEF DiscardNew, TypeOK, Addressed, Converging, Discard, Becomes, Running, Works,
     Fails, Status
<1>7. CASE ReadRoute
  BY <1>7 DEF ReadRoute, TypeOK, Addressed, Converging, Running, node, UnchangedNode,
     Works, Fails, Goto, Status
<1>8. CASE Gate
  BY <1>8 DEF Gate, TypeOK, Addressed, Converging, Probed, Running, First, Works, Fails, Goto
<1>9. CASE Flip
  BY <1>9 DEF Flip, SetRoute, EnsureMaintenance, TypeOK, Addressed, Converging, Fragment,
     Running, locals, Works, Fails, Goto, Status
<1>10. CASE Drain
  BY <1>10 DEF Drain, TypeOK, Addressed, Converging, Becomes, Running, Works, Fails, Status
<1>11. CASE Unroute
  BY <1>11 DEF Unroute, SetRoute, TypeOK, Addressed, Converging, Running, Works, Fails, Goto
<1>12. CASE Teardown
  BY <1>12 DEF Teardown, TypeOK, Addressed, Converging, Becomes, NoLocals, Running, Works,
     Fails
<1>13. CASE Sweep
  BY <1>13 DEF Sweep, RemoveMaintenance, TypeOK, Addressed, Converging, NoLocals, Running,
     locals, Works, Fails, Goto
<1>14. CASE Crash
  BY <1>14 DEF Crash, TypeOK, Addressed, Converging, NoLocals, Running, node, Goto
<1>15. ASSUME NEW s \in Specs, Change(s) PROVE Addressed'
  BY <1>15 DEF Change, TypeOK, Addressed, Converging, Running, node, locals
<1>16. ASSUME NEW c \in Names, Die(c) PROVE Addressed'
  BY <1>16 DEF Die, TypeOK, Addressed, Converging, Becomes, Running, locals
<1>17. ASSUME NEW c \in Names, Revive(c) PROVE Addressed'
  BY <1>17 DEF Revive, TypeOK, Addressed, Converging, FreeAddress, Running, locals, budget
<1>18. CASE UNCHANGED vars
  BY <1>18 DEF vars, TypeOK, Addressed, Converging, Desired, Running, node, locals, budget
<1>19. QED
  BY <1>1, <1>2, <1>3, <1>4, <1>5, <1>6, <1>7, <1>8, <1>9, <1>10, <1>11, <1>12, <1>13,
     <1>14, <1>15, <1>16, <1>17, <1>18 DEF Next, Pass, World

\* Every step preserves that the fragment only reaches probed containers: a new
\* container starts at an address the fragment does not name, and Gate probes it.
LEMMA RouteGatedStep ==
  ASSUME ~Reuse, TypeOK, PassShape, Addressed, RouteGated, [Next]_vars
  PROVE  RouteGated'
<1> USE DesiredName, SpecFields, DriverAssumption
<1>1. CASE List
  BY <1>1 DEF List, TypeOK, PassShape, Addressed, RouteGated, Desired, Converging, Running,
     Present, Absent, node, locals, UnchangedNode, Works, Fails, Goto
<1>2. CASE Prepare
  BY <1>2 DEF Prepare, TypeOK, PassShape, Addressed, RouteGated, Desired, Converging,
     Running, node, locals, UnchangedNode, Works, Fails, Goto, Status
<1>3. CASE ClearSquatter
  BY <1>3 DEF ClearSquatter, TypeOK, PassShape, Addressed, RouteGated, Desired, Converging,
     Discard, Becomes, Squatters, Missing, Running, Works, Fails, Goto
<1>4. CASE CreateContainer
  BY <1>4 DEF CreateContainer, TypeOK, PassShape, Addressed, RouteGated, Desired,
     Converging, Missing, Present, Running, First, Works, Fails, Goto
<1>5. CASE StartContainer
  BY <1>5 DEF StartContainer, TypeOK, PassShape, Addressed, RouteGated, Desired,
     Converging, Fresh, FreeAddress, Running, Missing, locals, Works, Fails, Goto
<1>6. CASE DiscardNew
  <2>1. \A d \in Names : state'[d] = "running" => state[d] = "running" /\ addr'[d] = addr[d]
    BY <1>6, DiscardEffect DEF DiscardNew, TypeOK, Converging
  <2>2. QED
    BY <1>6, <2>1 DEF DiscardNew, TypeOK, PassShape, RouteGated, Desired, Converging,
       Running, Status
<1>7. CASE ReadRoute
  BY <1>7 DEF ReadRoute, TypeOK, PassShape, Addressed, RouteGated, Desired, Converging,
     Running, node, UnchangedNode, Works, Fails, Goto, Status
<1>8. CASE Gate
  <2>1. CASE UNCHANGED <<gated, todo, upstreams>> /\ pc' = "discard"
    BY <1>8, <2>1 DEF Gate, TypeOK, RouteGated, Running, Goto
  <2>2. ASSUME NEW i \in todo, Running(Desired(i)),
               todo' = todo \ {i}, upstreams' = upstreams \cup {addr[Desired(i)]},
               gated' = [gated EXCEPT ![Desired(i)] = @ \/ Probed(i)]
        PROVE  RouteGated'
    <3>1. Desired(i) \in Names /\ i \in spec.idx /\ applied = route /\ pc = "gate"
      BY <1>8 DEF Gate, TypeOK, PassShape, Converging
    <3>2. \A c \in Names : gated[c] => gated'[c]
      BY <2>2, <3>1 DEF TypeOK
    <3>3. ~spec.maint => gated'[Desired(i)]
      BY <2>2, <3>1 DEF TypeOK, RouteGated, Probed
    <3>4. state' = state /\ addr' = addr /\ route' = route /\ spec' = spec
      BY <1>8 DEF Gate
    <3>5. \A c \in Names : Running(c) /\ addr[c] = addr[Desired(i)] => c = Desired(i)
      BY <2>2, <3>1 DEF Addressed
    <3>6. \A c \in Names : Running(c)' /\ addr'[c] \in route' => gated'[c]
      BY <3>2, <3>4 DEF RouteGated, Running
    <3>7. ~spec.maint => \A c \in Names : Running(c)' /\ addr'[c] \in upstreams' => gated'[c]
      BY <2>2, <3>1, <3>2, <3>3, <3>4, <3>5 DEF RouteGated, Running
    <3>8. ~spec.maint => \A j \in spec.idx \ todo' : gated'[Desired(j)]
      BY <2>2, <3>1, <3>2, <3>3 DEF RouteGated, TypeOK, PassShape, Converging
    <3>9. QED
      BY <3>4, <3>6, <3>7, <3>8 DEF RouteGated, Desired
  <2>3. QED
    BY <1>8, <2>1, <2>2 DEF Gate, Goto
<1>9. CASE Flip
  BY <1>9 DEF Flip, SetRoute, EnsureMaintenance, TypeOK, PassShape, Addressed, RouteGated,
     Desired, Converging, Fragment, Running, locals, Works, Fails, Goto, Status
<1>10. CASE Drain
  BY <1>10 DEF Drain, TypeOK, PassShape, Addressed, RouteGated, Desired, Converging,
     Becomes, Running, Works, Fails, Status
<1>11. CASE Unroute
  BY <1>11 DEF Unroute, SetRoute, TypeOK, PassShape, Addressed, RouteGated, Desired,
     Converging, Running, Works, Fails, Goto
<1>12. CASE Teardown
  BY <1>12 DEF Teardown, TypeOK, PassShape, Addressed, RouteGated, Desired, Converging,
     Becomes, NoLocals, Running, Works, Fails
<1>13. CASE Sweep
  BY <1>13 DEF Sweep, RemoveMaintenance, TypeOK, PassShape, Addressed, RouteGated, Desired,
     Converging, NoLocals, Running, locals, Works, Fails, Goto
<1>14. CASE Crash
  BY <1>14 DEF Crash, TypeOK, PassShape, Addressed, RouteGated, Desired, Converging,
     NoLocals, Running, node, Goto
<1>15. ASSUME NEW s \in Specs, Change(s) PROVE RouteGated'
  BY <1>15 DEF Change, TypeOK, PassShape, Addressed, RouteGated, Desired, Converging,
     Running, node, locals
<1>16. ASSUME NEW c \in Names, Die(c) PROVE RouteGated'
  BY <1>16 DEF Die, TypeOK, PassShape, Addressed, RouteGated, Desired, Converging, Becomes,
     Running, locals
<1>17. ASSUME NEW c \in Names, Revive(c) PROVE RouteGated'
  BY <1>17 DEF Revive, TypeOK, PassShape, Addressed, RouteGated, Desired, Converging,
     FreeAddress, Running, locals, budget
<1>18. CASE UNCHANGED vars
  BY <1>18 DEF vars, TypeOK, PassShape, Addressed, RouteGated, Desired, Converging,
     Running, node, locals, budget
<1>19. QED
  BY <1>1, <1>2, <1>3, <1>4, <1>5, <1>6, <1>7, <1>8, <1>9, <1>10, <1>11, <1>12, <1>13,
     <1>14, <1>15, <1>16, <1>17, <1>18 DEF Next, Pass, World

\* Every step preserves that a pass's own containers are unrouted until the flip.
LEMMA NewUnroutedStep ==
  ASSUME ~Reuse, TypeOK, PassShape, Addressed, NewUnrouted, [Next]_vars
  PROVE  NewUnrouted'
<1> USE DesiredName, SpecFields, DriverAssumption
<1>1. CASE List
  BY <1>1 DEF List, TypeOK, PassShape, Addressed, NewUnrouted, Desired, Converging,
     Running, Present, Absent, node, locals, UnchangedNode, Works, Fails, Goto
<1>2. CASE Prepare
  BY <1>2 DEF Prepare, TypeOK, PassShape, Addressed, NewUnrouted, Desired, Converging,
     Running, node, locals, UnchangedNode, Works, Fails, Goto, Status
<1>3. CASE ClearSquatter
  <2>1. \A d \in Names : state'[d] = "running" => state[d] = "running" /\ addr'[d] = addr[d]
    BY <1>3, DiscardEffect DEF ClearSquatter, Squatters, TypeOK
  <2>2. QED
    BY <1>3, <2>1 DEF ClearSquatter, TypeOK, PassShape, NewUnrouted, Desired, Converging,
       Running, Goto
<1>4. CASE CreateContainer
  <2>1. CASE UNCHANGED <<state, gated, current, newly>> /\ pc' = "discard"
    BY <1>4, <2>1 DEF CreateContainer, TypeOK, NewUnrouted, Desired, Converging, Running, Goto
  <2>2. ASSUME NEW i \in Missing, state' = [state EXCEPT ![Desired(i)] = "created"],
               newly' = newly \cup {i}
        PROVE  NewUnrouted'
    <3>1. i \in Index /\ pc = "create" /\ Desired(i) \in Names
      BY <1>4, <2>2 DEF CreateContainer, Missing, Converging
    <3>2. addr' = addr /\ route' = route /\ spec' = spec
      BY <1>4 DEF CreateContainer
    <3>3. \A d \in Names : state'[d] = "running" => state[d] = "running" /\ d # Desired(i)
      BY <2>2, <3>1 DEF TypeOK
    <3>4. QED
      BY <2>2, <3>1, <3>2, <3>3 DEF NewUnrouted, TypeOK, Converging, Running, Desired
  <2>3. QED
    BY <1>4, <2>1, <2>2 DEF CreateContainer, Goto
<1>5. CASE StartContainer
  <2>1. CASE UNCHANGED <<state, addr>> /\ pc' = "discard"
    BY <1>5, <2>1 DEF StartContainer, TypeOK, NewUnrouted, Desired, Converging, Running,
       Goto, locals
  <2>2. ASSUME NEW i \in newly, NEW a \in Address, FreeAddress(a),
               addr' = [addr EXCEPT ![Desired(i)] = a],
               state' = [state EXCEPT ![Desired(i)] = "running"]
        PROVE  NewUnrouted'
    <3>1. i \in Index /\ pc = "start" /\ Desired(i) \in Names
      BY <1>5, <2>2 DEF StartContainer, TypeOK, Converging
    <3>2. newly' = newly /\ route' = route /\ spec' = spec
      BY <1>5 DEF StartContainer, locals
    <3>3. a \notin route
      BY <2>2 DEF FreeAddress
    <3>4. \A d \in Names : d # Desired(i) => state'[d] = state[d] /\ addr'[d] = addr[d]
      BY <2>2, <3>1 DEF TypeOK
    <3>5. addr'[Desired(i)] = a
      BY <2>2, <3>1 DEF TypeOK
    <3>6. ASSUME NEW j \in newly, state'[Desired(j)] = "running"
          PROVE  addr'[Desired(j)] \notin route
      BY <3>1, <3>3, <3>4, <3>5, <3>6 DEF NewUnrouted, TypeOK, Converging, Running
    <3>7. QED
      BY <3>2, <3>6 DEF NewUnrouted, Running, Desired
  <2>3. QED
    BY <1>5, <2>1, <2>2 DEF StartContainer, Goto
<1>6. CASE DiscardNew
  <2>1. \A d \in Names : state'[d] = "running" => state[d] = "running" /\ addr'[d] = addr[d]
    BY <1>6, DiscardEffect DEF DiscardNew, TypeOK, Converging
  <2>2. QED
    BY <1>6, <2>1 DEF DiscardNew, TypeOK, PassShape, NewUnrouted, Desired, Converging,
       Running, Status
<1>7. CASE ReadRoute
  BY <1>7 DEF ReadRoute, TypeOK, PassShape, Addressed, NewUnrouted, Desired, Converging,
     Running, node, UnchangedNode, Works, Fails, Goto, Status
<1>8. CASE Gate
  BY <1>8 DEF Gate, TypeOK, PassShape, Addressed, NewUnrouted, Desired, Converging, Probed,
     Running, First, Works, Fails, Goto
<1>9. CASE Flip
  BY <1>9 DEF Flip, SetRoute, EnsureMaintenance, TypeOK, PassShape, Addressed, NewUnrouted,
     Desired, Converging, Fragment, Running, locals, Works, Fails, Goto, Status
<1>10. CASE Drain
  BY <1>10 DEF Drain, TypeOK, PassShape, Addressed, NewUnrouted, Desired, Converging,
     Becomes, Running, Works, Fails, Status
<1>11. CASE Unroute
  BY <1>11 DEF Unroute, SetRoute, TypeOK, PassShape, Addressed, NewUnrouted, Desired,
     Converging, Running, Works, Fails, Goto
<1>12. CASE Teardown
  BY <1>12 DEF Teardown, TypeOK, PassShape, Addressed, NewUnrouted, Desired, Converging,
     Becomes, NoLocals, Running, Works, Fails
<1>13. CASE Sweep
  BY <1>13 DEF Sweep, RemoveMaintenance, TypeOK, PassShape, Addressed, NewUnrouted, Desired,
     Converging, NoLocals, Running, locals, Works, Fails, Goto
<1>14. CASE Crash
  BY <1>14 DEF Crash, TypeOK, PassShape, Addressed, NewUnrouted, Desired, Converging,
     NoLocals, Running, node, Goto
<1>15. ASSUME NEW s \in Specs, Change(s) PROVE NewUnrouted'
  BY <1>15 DEF Change, TypeOK, PassShape, Addressed, NewUnrouted, Desired, Converging,
     Running, node, locals
<1>16. ASSUME NEW c \in Names, Die(c) PROVE NewUnrouted'
  BY <1>16 DEF Die, TypeOK, PassShape, Addressed, NewUnrouted, Desired, Converging,
     Becomes, Running, locals
<1>17. ASSUME NEW c \in Names, Revive(c) PROVE NewUnrouted'
  BY <1>17 DEF Revive, TypeOK, PassShape, Addressed, NewUnrouted, Desired, Converging,
     FreeAddress, Running, locals, budget
<1>18. CASE UNCHANGED vars
  BY <1>18 DEF vars, TypeOK, PassShape, Addressed, NewUnrouted, Desired, Converging,
     Running, node, locals, budget
<1>19. QED
  BY <1>1, <1>2, <1>3, <1>4, <1>5, <1>6, <1>7, <1>8, <1>9, <1>10, <1>11, <1>12, <1>13,
     <1>14, <1>15, <1>16, <1>17, <1>18 DEF Next, Pass, World

\* Every step preserves that what is to be drained is not what was routed.
LEMMA LeftoversStep ==
  ASSUME ~Reuse, TypeOK, PassShape, Addressed, LeftoversUnrouted, [Next]_vars
  PROVE  LeftoversUnrouted'
<1> USE DesiredName, SpecFields, DriverAssumption
<1>1. CASE List
  BY <1>1 DEF List, TypeOK, PassShape, Addressed, LeftoversUnrouted, Desired, Converging,
     Running, Present, Absent, node, locals, UnchangedNode, Works, Fails, Goto
<1>2. CASE Prepare
  BY <1>2 DEF Prepare, TypeOK, PassShape, Addressed, LeftoversUnrouted, Desired,
     Converging, Running, node, locals, UnchangedNode, Works, Fails, Goto, Status
<1>3. CASE ClearSquatter
  <2>1. pc = "clear" /\ spec' = spec /\ current' = current /\ leftovers' \subseteq leftovers
    BY <1>3 DEF ClearSquatter
  <2>2. CASE Squatters = {} /\ pc' = "create"
    <3>1. \A i \in Missing : Desired(i) \notin leftovers
      BY <2>2 DEF Squatters, Desired
    <3>2. \A i \in current : Desired(i) \notin leftovers
      BY <2>1 DEF LeftoversUnrouted
    <3>3. \A i \in spec.idx : Desired(i) \notin leftovers
      BY <3>1, <3>2 DEF Missing
    <3>4. QED
      BY <2>1, <2>2, <3>3 DEF LeftoversUnrouted, Desired
  <2>3. CASE pc' = pc
    BY <2>1, <2>3 DEF LeftoversUnrouted, Desired
  <2>4. QED
    BY <1>3, <2>2, <2>3 DEF ClearSquatter, Goto
<1>4. CASE CreateContainer
  BY <1>4 DEF CreateContainer, TypeOK, PassShape, Addressed, LeftoversUnrouted, Desired,
     Converging, Missing, Present, Running, First, Works, Fails, Goto
<1>5. CASE StartContainer
  BY <1>5 DEF StartContainer, TypeOK, PassShape, Addressed, LeftoversUnrouted, Desired,
     Converging, Fresh, FreeAddress, Running, Missing, locals, Works, Fails, Goto
<1>6. CASE DiscardNew
  BY <1>6 DEF DiscardNew, TypeOK, PassShape, Addressed, LeftoversUnrouted, Desired,
     Converging, Discard, Becomes, Running, Works, Fails, Status
<1>7. CASE ReadRoute
  BY <1>7 DEF ReadRoute, TypeOK, PassShape, Addressed, LeftoversUnrouted, Desired,
     Converging, Running, node, UnchangedNode, Works, Fails, Goto, Status
<1>8. CASE Gate
  BY <1>8 DEF Gate, TypeOK, PassShape, Addressed, LeftoversUnrouted, Desired, Converging,
     Probed, Running, First, Works, Fails, Goto
<1>9. CASE Flip
  BY <1>9 DEF Flip, SetRoute, EnsureMaintenance, TypeOK, PassShape, Addressed,
     LeftoversUnrouted, Desired, Converging, Fragment, Running, locals, Works, Fails, Goto,
     Status
<1>10. CASE Drain
  BY <1>10 DEF Drain, TypeOK, PassShape, Addressed, LeftoversUnrouted, Desired, Converging,
     Becomes, Running, Works, Fails, Status
<1>11. CASE Unroute
  BY <1>11 DEF Unroute, SetRoute, TypeOK, PassShape, Addressed, LeftoversUnrouted, Desired,
     Converging, Running, Works, Fails, Goto
<1>12. CASE Teardown
  BY <1>12 DEF Teardown, TypeOK, PassShape, Addressed, LeftoversUnrouted, Desired,
     Converging, Becomes, NoLocals, Running, Works, Fails
<1>13. CASE Sweep
  BY <1>13 DEF Sweep, RemoveMaintenance, TypeOK, PassShape, Addressed, LeftoversUnrouted,
     Desired, Converging, NoLocals, Running, locals, Works, Fails, Goto
<1>14. CASE Crash
  BY <1>14 DEF Crash, TypeOK, PassShape, Addressed, LeftoversUnrouted, Desired, Converging,
     NoLocals, Running, node, Goto
<1>15. ASSUME NEW s \in Specs, Change(s) PROVE LeftoversUnrouted'
  BY <1>15 DEF Change, TypeOK, PassShape, Addressed, LeftoversUnrouted, Desired,
     Converging, Running, node, locals
<1>16. ASSUME NEW c \in Names, Die(c) PROVE LeftoversUnrouted'
  BY <1>16 DEF Die, TypeOK, PassShape, Addressed, LeftoversUnrouted, Desired, Converging,
     Becomes, Running, locals
<1>17. ASSUME NEW c \in Names, Revive(c) PROVE LeftoversUnrouted'
  BY <1>17 DEF Revive, TypeOK, PassShape, Addressed, LeftoversUnrouted, Desired,
     Converging, FreeAddress, Running, locals, budget
<1>18. CASE UNCHANGED vars
  BY <1>18 DEF vars, TypeOK, PassShape, Addressed, LeftoversUnrouted, Desired, Converging,
     Running, node, locals, budget
<1>19. QED
  BY <1>1, <1>2, <1>3, <1>4, <1>5, <1>6, <1>7, <1>8, <1>9, <1>10, <1>11, <1>12, <1>13,
     <1>14, <1>15, <1>16, <1>17, <1>18 DEF Next, Pass, World

\* A desired application is not an absent one.
LEMMA DesiredNotAbsent ==
  ASSUME TypeOK, PassShape, pc \in Converging \cup {"drain"}
  PROVE  spec # Absent
<1>1. spec.ver \in Version
  BY SpecFields DEF PassShape
<1>2. QED
  BY <1>1, DriverAssumption DEF Absent

\* Every step preserves that a pass accounts for all that is there.
LEMMA AccountedStep ==
  ASSUME TypeOK, PassShape, Accounted, [Next]_vars
  PROVE  Accounted'
<1> USE DesiredName, SpecFields, DriverAssumption
<1>1. CASE List
  <2>1. CASE UNCHANGED <<pc, locals>>
    BY <1>1, <2>1 DEF List, node, locals, UnchangedNode, Accounted, Converging
  <2>2. CASE ~UNCHANGED <<pc, locals>>
    <3>1. leftovers' = {c \in Names : Present(c) /\ ~(c[1] = spec.ver /\ c[2] \in current')}
      BY <1>1, <2>2 DEF List
    <3>2. current' \subseteq spec.idx
      BY <1>1, <2>2 DEF List
    <3>3. UNCHANGED <<state, spec>>
      BY <1>1 DEF List, node, UnchangedNode
    <3>4. pc' \notin {"unroute", "teardown", "drain"}
      BY <1>1, <2>2 DEF List, Goto
    <3>5. pc' \in Converging => spec # Absent
      BY <1>1, <2>2 DEF List, Goto, Converging
    <3>6. \A c \in Names : Present(c)' => c \in leftovers' \/ (c[1] = spec.ver /\ c[2] \in spec.idx)
      BY <3>1, <3>2, <3>3 DEF Present
    <3>7. spec = Absent => spec.idx = {}
      BY DEF Absent
    <3>8. QED
      BY <3>3, <3>4, <3>6, <3>7 DEF Accounted, IsDesired, Converging
  <2>3. QED
    BY <2>1, <2>2
<1>2. CASE Prepare
  BY <1>2 DEF Prepare, TypeOK, node, locals, UnchangedNode, Works, Fails, Goto, Status, SpecType, Absent, PassShape, Accounted, Converging, IsDesired, Present
<1>3. CASE ClearSquatter
  BY <1>3 DEF ClearSquatter, TypeOK, Discard, Becomes, Squatters, Missing, Works, Fails, Goto, Desired, PassShape, Accounted, Converging, IsDesired, Present
<1>4. CASE CreateContainer
  BY <1>4 DEF CreateContainer, TypeOK, Missing, First, Works, Fails, Goto, Desired, PassShape, Accounted, Converging, IsDesired, Present
<1>5. CASE StartContainer
  BY <1>5 DEF StartContainer, TypeOK, Fresh, FreeAddress, Running, Missing, locals, Works, Fails, Goto, Desired, PassShape, Accounted, Converging, IsDesired, Present
<1>6. CASE DiscardNew
  <2>1. spec # Absent /\ spec' = spec /\ leftovers' = leftovers
    BY <1>6, DesiredNotAbsent DEF DiscardNew, Converging
  <2>2. pc' \in {"discard", "sweep"}
    BY <1>6 DEF DiscardNew, Status
  <2>3. \A d \in Names : Present(d)' => Present(d) \/ IsDesired(d)
    <3>1. CASE UNCHANGED state
      BY <3>1 DEF Present
    <3>2. ASSUME NEW i \in newly, Discard(Desired(i))
          PROVE  \A d \in Names : Present(d)' => Present(d) \/ IsDesired(d)
      <4>1. \A d \in Names : d # Desired(i) => state'[d] = state[d]
        BY <3>2 DEF TypeOK, Discard, Becomes
      <4>2. IsDesired(Desired(i))
        BY <1>6 DEF DiscardNew, PassShape, Converging, IsDesired, Desired
      <4>3. QED
        BY <4>1, <4>2 DEF Present
    <3>3. QED
      BY <1>6, <3>1, <3>2 DEF DiscardNew
  <2>4. QED
    BY <1>6, <2>1, <2>2, <2>3 DEF Accounted, IsDesired, Converging, DiscardNew
<1>7. CASE ReadRoute
  BY <1>7, DesiredNotAbsent DEF ReadRoute, TypeOK, node, UnchangedNode, Works, Fails, Goto,
     Status, Accounted, Converging, IsDesired, Present
<1>8. CASE Gate
  BY <1>8 DEF Gate, TypeOK, Probed, Running, First, Works, Fails, Goto, PassShape, Accounted, Converging, IsDesired, Present
<1>9. CASE Flip
  <2>1. spec # Absent /\ UNCHANGED <<spec, leftovers, state>>
    BY <1>9, DesiredNotAbsent DEF Flip, Converging, locals
  <2>2. pc' \in {"drain", "sweep", "discard"} /\ pc = "flip"
    BY <1>9 DEF Flip, Goto, Status
  <2>3. QED
    BY <2>1, <2>2 DEF Accounted, IsDesired, Converging, Present
<1>10. CASE Drain
  <2>1. spec # Absent /\ spec' = spec /\ pc = "drain"
    BY <1>10, DesiredNotAbsent DEF Drain
  <2>2. CASE pc' = "sweep"
    BY <2>1, <2>2 DEF Accounted, Converging
  <2>3. CASE pc' = pc
    <3>1. PICK c \in leftovers : /\ state' = [state EXCEPT ![c] = "absent"]
                                 /\ leftovers' = leftovers \ {c}
      BY <1>10, <2>1, <2>3 DEF Drain, Becomes, Status
    <3>2. \A d \in Names : Present(d)' => Present(d) /\ d # c
      BY <3>1 DEF TypeOK, Present
    <3>3. QED
      BY <2>1, <2>3, <3>1, <3>2 DEF Accounted, Converging, IsDesired
  <2>4. QED
    BY <1>10, <2>2, <2>3 DEF Drain, Status
<1>11. CASE Unroute
  BY <1>11 DEF Unroute, SetRoute, TypeOK, Works, Fails, Goto, PassShape, Accounted, Converging, IsDesired, Present
<1>12. CASE Teardown
  BY <1>12 DEF Teardown, TypeOK, Becomes, NoLocals, Works, Fails, PassShape, Accounted, Converging, IsDesired, Present
<1>13. CASE Sweep
  BY <1>13 DEF Sweep, RemoveMaintenance, TypeOK, NoLocals, locals, Works, Fails, Goto, PassShape, Accounted, Converging, IsDesired, Present
<1>14. CASE Crash
  BY <1>14 DEF Crash, TypeOK, NoLocals, node, Goto, PassShape, Accounted, Converging, IsDesired, Present
<1>15. ASSUME NEW s \in Specs, Change(s) PROVE Accounted'
  BY <1>15 DEF Change, node, locals, TypeOK, PassShape, Accounted, Converging, IsDesired, Present
<1>16. ASSUME NEW c \in Names, Die(c) PROVE Accounted'
  BY <1>16 DEF Die, Becomes, Running, locals, TypeOK, PassShape, Accounted, Converging, IsDesired, Present
<1>17. ASSUME NEW c \in Names, Revive(c) PROVE Accounted'
  BY <1>17 DEF Revive, FreeAddress, Running, locals, budget, TypeOK, PassShape, Accounted, Converging, IsDesired, Present
<1>18. CASE UNCHANGED vars
  BY <1>18 DEF vars, node, locals, budget, PassShape, Accounted, Converging, IsDesired, Present
<1>19. QED
  BY <1>1, <1>2, <1>3, <1>4, <1>5, <1>6, <1>7, <1>8, <1>9, <1>10, <1>11, <1>12, <1>13, <1>14, <1>15, <1>16, <1>17, <1>18 DEF Next, Pass, World

\* Every step preserves that what was gated stands until the pass ends.
LEMMA GatedStandStep ==
  ASSUME TypeOK, PassShape, LeftoversUnrouted, GatedStand, [Next]_vars
  PROVE  GatedStand'
<1> USE DesiredName, SpecFields, DriverAssumption
<1>1. CASE List
  BY <1>1 DEF List, TypeOK, Running, Desired, Absent, node, locals, UnchangedNode, Works, Fails, Goto, PassShape, GatedStand, LeftoversUnrouted, Converging, Desired, Fragment
<1>2. CASE Prepare
  BY <1>2 DEF Prepare, TypeOK, node, locals, UnchangedNode, Works, Fails, Goto, Status, SpecType, Absent, PassShape, GatedStand, LeftoversUnrouted, Converging, Desired, Fragment
<1>3. CASE ClearSquatter
  BY <1>3 DEF ClearSquatter, TypeOK, Discard, Becomes, Squatters, Missing, Works, Fails, Goto, Desired, PassShape, GatedStand, LeftoversUnrouted, Converging, Desired, Fragment
<1>4. CASE CreateContainer
  BY <1>4 DEF CreateContainer, TypeOK, Missing, First, Works, Fails, Goto, Desired, PassShape, GatedStand, LeftoversUnrouted, Converging, Desired, Fragment
<1>5. CASE StartContainer
  BY <1>5 DEF StartContainer, TypeOK, Fresh, FreeAddress, Running, Missing, locals, Works, Fails, Goto, Desired, PassShape, GatedStand, LeftoversUnrouted, Converging, Desired, Fragment
<1>6. CASE DiscardNew
  BY <1>6 DEF DiscardNew, TypeOK, Discard, Becomes, Running, Works, Fails, Status, Desired, PassShape, GatedStand, LeftoversUnrouted, Converging, Desired, Fragment
<1>7. CASE ReadRoute
  BY <1>7 DEF ReadRoute, TypeOK, node, UnchangedNode, Works, Fails, Goto, Status, PassShape, GatedStand, LeftoversUnrouted, Converging, Desired, Fragment
<1>8. CASE Gate
  BY <1>8 DEF Gate, TypeOK, Probed, Running, First, Works, Fails, Goto, PassShape, GatedStand, LeftoversUnrouted, Converging, Desired, Fragment
<1>9. CASE Flip
  BY <1>9 DEF Flip, SetRoute, EnsureMaintenance, TypeOK, Fragment, locals, Works, Fails, Goto, Status, PassShape, GatedStand, LeftoversUnrouted, Converging, Desired, Fragment
<1>10. CASE Drain
  <2>1. UNCHANGED <<spec, todo, route, responder, upstreams>> /\ pc = "drain"
    BY <1>10 DEF Drain
  <2>2. CASE pc' = "sweep"
    BY <2>2 DEF GatedStand
  <2>3. CASE pc' = pc
    <3>1. PICK c \in leftovers : state' = [state EXCEPT ![c] = "absent"]
      BY <1>10, <2>1, <2>3 DEF Drain, Becomes, Status
    <3>2. \A i \in spec.idx : Desired(i) # c
      BY <2>1, <3>1 DEF LeftoversUnrouted
    <3>3. \A i \in spec.idx : Desired(i) \in Names
      BY <2>1 DEF Converging
    <3>4. \A i \in spec.idx : state'[Desired(i)] = state[Desired(i)]
      BY <3>1, <3>2, <3>3 DEF TypeOK
    <3>5. QED
      BY <2>1, <2>3, <3>4 DEF GatedStand, Desired, Fragment
  <2>4. QED
    BY <1>10, <2>2, <2>3 DEF Drain, Status
<1>11. CASE Unroute
  BY <1>11 DEF Unroute, SetRoute, TypeOK, Works, Fails, Goto, PassShape, GatedStand, LeftoversUnrouted, Converging, Desired, Fragment
<1>12. CASE Teardown
  BY <1>12 DEF Teardown, TypeOK, Becomes, NoLocals, Works, Fails, PassShape, GatedStand, LeftoversUnrouted, Converging, Desired, Fragment
<1>13. CASE Sweep
  BY <1>13 DEF Sweep, RemoveMaintenance, TypeOK, NoLocals, locals, Works, Fails, Goto, PassShape, GatedStand, LeftoversUnrouted, Converging, Desired, Fragment
<1>14. CASE Crash
  BY <1>14 DEF Crash, TypeOK, NoLocals, node, Goto, PassShape, GatedStand, LeftoversUnrouted, Converging, Desired, Fragment
<1>15. ASSUME NEW s \in Specs, Change(s) PROVE GatedStand'
  BY <1>15 DEF Change, node, locals, TypeOK, PassShape, GatedStand, LeftoversUnrouted, Converging, Desired, Fragment
<1>16. ASSUME NEW c \in Names, Die(c) PROVE GatedStand'
  BY <1>16 DEF Die, Becomes, Running, locals, TypeOK, PassShape, GatedStand, LeftoversUnrouted, Converging, Desired, Fragment
<1>17. ASSUME NEW c \in Names, Revive(c) PROVE GatedStand'
  BY <1>17 DEF Revive, FreeAddress, Running, locals, budget, TypeOK, PassShape, GatedStand, LeftoversUnrouted, Converging, Desired, Fragment
<1>18. CASE UNCHANGED vars
  BY <1>18 DEF vars, node, locals, budget, PassShape, GatedStand, LeftoversUnrouted, Converging, Desired, Fragment
<1>19. QED
  BY <1>1, <1>2, <1>3, <1>4, <1>5, <1>6, <1>7, <1>8, <1>9, <1>10, <1>11, <1>12, <1>13, <1>14, <1>15, <1>16, <1>17, <1>18 DEF Next, Pass, World

\* The invariant as a whole.
LEMMA DriverStepHolds ==
  ASSUME ~Reuse, DriverInv, [Next]_vars
  PROVE  DriverInv'
BY TypeStep, ShapeStep, AddressedStep, RouteGatedStep, NewUnroutedStep, LeftoversStep,
   AccountedStep, GatedStandStep DEF DriverInv

-----------------------------------------------------------------------------
(* The theorems.                                                           *)

\* The inductive invariant holds of every behaviour of the driver as long as
\* the daemon hands out no address the fragment still names.
THEOREM DriverInvariant ==
  ASSUME ~Reuse
  PROVE  Spec => []DriverInv
<1>1. Init => DriverInv
  <2> SUFFICES ASSUME Init PROVE DriverInv
    OBVIOUS
  <2>1. TypeOK
    <3>1. state \in [Names -> ContainerStates] /\ addr \in [Names -> Address \cup {NoAddress}]
      BY DEF Init, ContainerStates
    <3>2. gated \in [Names -> BOOLEAN] /\ spec \in SpecType \cup {Absent}
      BY DriverAssumption DEF Init
    <3>3. report \in [state : {"none", "running", "degraded", "error"},
                      ver : Version \cup {NoVersion}]
      BY DEF Init
    <3>4. /\ changes \in 0..MaxChange /\ faults \in 0..MaxFault
          /\ crashes \in 0..MaxCrash /\ deaths \in 0..MaxDeath
      BY DriverAssumption DEF Init
    <3>5. QED
      BY <3>1, <3>2, <3>3, <3>4 DEF Init, TypeOK
  <2>2. PassShape /\ NewUnrouted /\ LeftoversUnrouted
    BY DEF Init, PassShape, NewUnrouted, LeftoversUnrouted, Converging
  <2>3. Addressed /\ RouteGated
    BY DEF Init, Addressed, RouteGated, Running
  <2>4. Accounted /\ GatedStand
    BY DEF Init, Accounted, GatedStand, Converging
  <2>5. QED
    BY <2>1, <2>2, <2>3, <2>4 DEF DriverInv
<1>2. DriverInv /\ [Next]_vars => DriverInv'
  BY DriverStepHolds
<1>3. QED
  BY <1>1, <1>2, PTL DEF Spec

\* Zero downtime, first half: for any number of replicas, whatever call fails,
\* wherever the agent dies and however often containers die, convergeApp flips
\* the route and drains only when every desired replica has passed a probe -
\* without maintenance, and without address reuse.
THEOREM HealthGatedHolds ==
  ASSUME ~Reuse, \A s \in Specs : ~s.maint
  PROVE  Spec => []HealthGated
<1>1. Init => spec \in Specs
  BY DEF Init
<1>2. spec \in Specs /\ [Next]_vars => (spec \in Specs)'
  BY DEF Next, Pass, World, vars, List, Prepare, ClearSquatter, CreateContainer,
         StartContainer, DiscardNew, ReadRoute, Gate, Flip, Drain, Unroute, Teardown,
         Sweep, Crash, Change, Die, Revive
<1>3. DriverInv /\ spec \in Specs => HealthGated
  BY DEF DriverInv, PassShape, RouteGated, HealthGated
<1>4. Spec => []DriverInv
  BY DriverInvariant
<1>5. QED
  BY <1>1, <1>2, <1>3, <1>4, PTL DEF Spec

\* Zero downtime, second half: neither draining nor cleaning up after a failed
\* rollout stops a container the route points at, under maintenance too.
THEOREM ServingUntouchedHolds ==
  ASSUME ~Reuse
  PROVE  Spec => ServingUntouched
<1> DEFINE Touches(c) ==
      pc \in {"drain", "discard"} /\ Running(c) /\ state'[c] \in {"absent", "stopped"}
<1>1. ASSUME DriverInv, [Next]_vars, NEW c \in Names, Touches(c)
      PROVE  addr[c] \notin route
  <2> USE <1>1 DEF DriverInv
  <2>1. CASE pc = "drain"
    <3>1. Drain \/ Crash \/ (\E d \in Names : Die(d) \/ Revive(d)) \/ UNCHANGED vars
      BY <2>1 DEF Next, Pass, World, List, Prepare, ClearSquatter, CreateContainer,
         StartContainer, DiscardNew, ReadRoute, Gate, Flip, Unroute, Teardown, Sweep, Change
    <3>2. c \in leftovers
      BY <2>1, <3>1 DEF Drain, Crash, Die, Revive, Becomes, Running, TypeOK, vars, node
    <3>3. QED
      BY <2>1, <3>2 DEF LeftoversUnrouted
  <2>2. CASE pc = "discard"
    <3>1. DiscardNew \/ Crash \/ (\E d \in Names : Die(d) \/ Revive(d)) \/ UNCHANGED vars
      BY <2>2 DEF Next, Pass, World, List, Prepare, ClearSquatter, CreateContainer,
         StartContainer, Drain, ReadRoute, Gate, Flip, Unroute, Teardown, Sweep, Change
    <3>2. \E i \in newly : c = Desired(i)
      BY <2>2, <3>1 DEF DiscardNew, Discard, Crash, Die, Revive, Becomes, Running,
         TypeOK, vars, node
    <3>3. QED
      BY <2>2, <3>2 DEF NewUnrouted, Converging
  <2>3. QED
    BY <2>1, <2>2
<1>2. DriverInv /\ [Next]_vars => [\A c \in Names : Touches(c) => addr[c] \notin route]_vars
  BY <1>1
<1>3. Spec => []DriverInv
  BY DriverInvariant
<1>4. QED
  BY <1>2, <1>3, PTL DEF Spec, ServingUntouched

\* What a pass is about to report is so: the replicas it calls running were gated in this
\* pass and have at most died since, nothing else is left of the application, and the
\* fragment names what was gated.  A removal that says nothing has left nothing.
THEOREM ReportIsTrueHolds ==
  ASSUME ~Reuse
  PROVE  Spec => []ReportIsTrue
<1>1. ASSUME DriverInv PROVE ReportIsTrue
  <2> USE <1>1 DEF DriverInv
  <2>1. ASSUME pc = "drain", leftovers = {}, NEW c \in Names
        PROVE  IF IsDesired(c) THEN state[c] \in {"running", "dead"} ELSE ~Present(c)
    <3>1. CASE IsDesired(c)
      <4>1. c = Desired(c[2])
        BY <3>1 DEF Names, IsDesired, Desired
      <4>2. c[2] \in spec.idx \ todo
        BY <2>1, <3>1 DEF IsDesired, PassShape
      <4>3. QED
        BY <2>1, <3>1, <4>1, <4>2 DEF GatedStand
    <3>2. CASE ~IsDesired(c)
      BY <2>1, <3>2 DEF Accounted
    <3>3. QED
      BY <3>1, <3>2
  <2>2. pc = "drain" => route = Fragment(upstreams) /\ (spec.maint => responder)
    BY DEF GatedStand
  <2>3. pc = "teardown" /\ leftovers = {} /\ ~failed => Settled
    BY DEF Accounted, Settled
  <2>4. QED
    BY <2>1, <2>2, <2>3 DEF ReportIsTrue
<1>2. Spec => []DriverInv
  BY DriverInvariant
<1>3. QED
  BY <1>1, <1>2, PTL

\* As long as no container dies, what has been gated runs, and its addresses are those
\* gathered.
Gathered ==
  pc \in {"gate", "flip", "drain"} =>
    /\ \A i \in spec.idx \ todo : Running(Desired(i))
    /\ upstreams = {addr[Desired(i)] : i \in spec.idx \ todo}

LEMMA GatheredStep ==
  ASSUME TypeOK, PassShape, LeftoversUnrouted, Gathered, [Next /\ UNCHANGED deaths]_vars
  PROVE  Gathered'
<1> USE DesiredName, SpecFields, DriverAssumption
<1>1. CASE ReadRoute
  BY <1>1 DEF ReadRoute, PassShape, Gathered, Goto, Status
<1>2. CASE Gate
  <2>1. UNCHANGED <<spec, state, addr>> /\ pc = "gate"
    BY <1>2 DEF Gate
  <2>2. CASE pc' = "discard"
    BY <2>2 DEF Gathered
  <2>3. CASE pc' # "discard"
    <3>1. PICK i \in todo : /\ Running(Desired(i)) /\ todo' = todo \ {i}
                            /\ upstreams' = upstreams \cup {addr[Desired(i)]}
      BY <1>2, <2>3 DEF Gate, Goto
    <3>2. i \in spec.idx
      BY <2>1, <3>1 DEF PassShape
    <3>3. spec.idx \ todo' = (spec.idx \ todo) \cup {i}
      BY <3>1, <3>2
    <3>4. \A j \in spec.idx \ todo' : Running(Desired(j))
      BY <2>1, <3>1, <3>3 DEF Gathered
    <3>5. upstreams' = {addr[Desired(j)] : j \in spec.idx \ todo'}
      BY <2>1, <3>1, <3>3 DEF Gathered
    <3>6. QED
      BY <2>1, <3>4, <3>5 DEF Gathered, Running, Desired
  <2>4. QED
    BY <2>2, <2>3
<1>3. CASE Flip
  BY <1>3 DEF Flip, Gathered, Goto, Status, Running, Desired, locals
<1>4. CASE Drain
  <2>1. UNCHANGED <<spec, todo, upstreams>> /\ pc = "drain"
    BY <1>4 DEF Drain
  <2>2. CASE pc' = "sweep"
    BY <2>2 DEF Gathered
  <2>3. CASE pc' = pc
    <3>1. PICK c \in leftovers : Becomes(c, "absent")
      BY <1>4, <2>1, <2>3 DEF Drain, Status
    <3>2. \A i \in spec.idx : Desired(i) # c /\ Desired(i) \in Names
      BY <2>1, <3>1 DEF LeftoversUnrouted, Converging
    <3>3. \A i \in spec.idx : /\ state'[Desired(i)] = state[Desired(i)]
                              /\ addr'[Desired(i)] = addr[Desired(i)]
      BY <3>1, <3>2 DEF TypeOK, Becomes
    <3>4. QED
      BY <2>1, <2>3, <3>3 DEF Gathered, Running, Desired
  <2>4. QED
    BY <1>4, <2>2, <2>3 DEF Drain, Status
<1>5. ASSUME NEW c \in Names, Revive(c) PROVE Gathered'
  <2>1. UNCHANGED <<spec, todo, upstreams, pc>>
    BY <1>5 DEF Revive, locals
  <2>2. \A d \in Names : Running(d) => state'[d] = state[d] /\ addr'[d] = addr[d]
    BY <1>5 DEF Revive, Running, TypeOK
  <2>3. CASE pc \in {"gate", "flip", "drain"}
    <3>1. \A i \in spec.idx : Desired(i) \in Names
      BY <2>3 DEF Converging
    <3>2. QED
      BY <2>1, <2>2, <2>3, <3>1 DEF Gathered, Running, Desired
  <2>4. QED
    BY <2>1, <2>3 DEF Gathered
<1>6. CASE pc' \notin {"gate", "flip", "drain"}
  BY <1>6 DEF Gathered
<1>7. CASE UNCHANGED vars
  BY <1>7 DEF vars, node, locals, Gathered, Running, Desired
<1>8. ASSUME NEW c \in Names, Die(c), UNCHANGED deaths PROVE FALSE
  BY <1>8 DEF Die, TypeOK
<1>9. ASSUME NEW s \in Specs, Change(s) PROVE pc' = "idle"
  BY <1>9 DEF Change
<1>10. ASSUME List \/ Prepare \/ ClearSquatter \/ CreateContainer \/ StartContainer
              \/ DiscardNew \/ Unroute \/ Teardown \/ Sweep \/ Crash
       PROVE  pc' \notin {"gate", "flip", "drain"}
  BY <1>10 DEF List, Prepare, ClearSquatter, CreateContainer, StartContainer, DiscardNew,
     Unroute, Teardown, Sweep, Crash, Goto, Status, NoLocals, locals
<1>11. QED
  BY <1>1, <1>2, <1>3, <1>4, <1>5, <1>6, <1>7, <1>8, <1>9, <1>10 DEF Next, Pass, World

\* At the end of such a pass the node is in the desired state.
LEMMA GatheredSettles ==
  ASSUME DriverInv, Gathered, pc = "drain", leftovers = {}
  PROVE  Settled
<1> USE DEF DriverInv
<1>1. todo = {} /\ spec # Absent
  BY DesiredNotAbsent DEF PassShape
<1>2. ASSUME NEW c \in Names PROVE IF IsDesired(c) THEN Running(c) ELSE ~Present(c)
  <2>1. CASE IsDesired(c)
    <3>1. c = Desired(c[2])
      BY <2>1 DEF Names, IsDesired, Desired
    <3>2. c[2] \in spec.idx \ todo
      BY <1>1, <2>1 DEF IsDesired
    <3>3. QED
      BY <2>1, <3>1, <3>2 DEF Gathered
  <2>2. CASE ~IsDesired(c)
    BY <2>2 DEF Accounted
  <2>3. QED
    BY <2>1, <2>2
<1>3. upstreams = {addr[Desired(i)] : i \in spec.idx}
  BY <1>1 DEF Gathered
<1>4. QED
  BY <1>1, <1>2, <1>3 DEF Settled, GatedStand

\* When no container dies from the probes on, the node IS in the desired state at the
\* moment a pass reports it running, whatever calls have failed before.  The formula starts
\* anywhere between two such stretches: every suffix of a behaviour there satisfies it.
THEOREM RunningMeansSettled ==
  ASSUME ~Reuse
  PROVE  /\ DriverInv /\ pc \notin {"gate", "flip", "drain"}
         /\ [][Next /\ UNCHANGED deaths]_vars
         => [](pc = "drain" /\ leftovers = {} => Settled)
<1>1. pc \notin {"gate", "flip", "drain"} => Gathered
  BY DEF Gathered
<1>2. DriverInv /\ Gathered /\ [Next /\ UNCHANGED deaths]_vars => DriverInv' /\ Gathered'
  BY DriverStepHolds, GatheredStep DEF DriverInv
<1>3. DriverInv /\ Gathered /\ pc = "drain" /\ leftovers = {} => Settled
  BY GatheredSettles
<1>4. QED
  BY <1>1, <1>2, <1>3, PTL

\* A node in the desired state, with a pass at work on it: the pass has nothing to start, to
\* clean up or to drain.
Untouched ==
  /\ pc \notin {"prepare", "clear", "create", "start", "unroute", "teardown"}
  /\ pc # "idle" => newly = {} /\ leftovers = {}

LEMMA SettledStep ==
  ASSUME TypeOK, PassShape, Accounted, Gathered, Settled, Untouched,
         [Next /\ UNCHANGED <<deaths, changes>>]_vars
  PROVE  Settled' /\ Untouched'
<1> USE SpecFields, DriverAssumption
<1>1. \A c \in Names : state[c] \in {"running", "absent"}
  BY DEF Settled, Running, Present, TypeOK
<1>2. \A i \in spec.idx : spec # Absent => Running(Desired(i))
  <2>1. ASSUME NEW i \in spec.idx, spec # Absent PROVE Running(Desired(i))
    <3>1. Desired(i) \in Names /\ IsDesired(Desired(i))
      BY <2>1 DEF TypeOK, SpecType, Desired, Names, IsDesired
    <3>2. QED
      BY <2>1, <3>1 DEF Settled
  <2>2. QED
    BY <2>1
<1>3. CASE List
  <2>1. UNCHANGED <<node, spec>>
    BY <1>3 DEF List, UnchangedNode
  <2>2. Settled'
    BY <2>1 DEF Settled, node, IsDesired, Running, Present, Desired, Fragment
  <2>3. CASE UNCHANGED <<pc, locals>>
    BY <2>2, <2>3 DEF Untouched, locals
  <2>4. CASE ~UNCHANGED <<pc, locals>>
    <3>1. current' = {i \in spec.idx : Running(Desired(i))} /\ newly' = {}
      BY <1>3, <2>4 DEF List
    <3>2. leftovers' = {c \in Names : Present(c) /\ ~(c[1] = spec.ver /\ c[2] \in current')}
      BY <1>3, <2>4 DEF List
    <3>3. spec # Absent => current' = spec.idx
      BY <1>2, <3>1
    <3>4. leftovers' = {}
      BY <3>2, <3>3 DEF Settled, IsDesired
    <3>5. pc' \in {"sweep", "readRoute"}
      BY <1>3, <2>4, <3>3 DEF List, Goto
    <3>6. QED
      BY <2>2, <3>1, <3>4, <3>5 DEF Untouched
  <2>5. QED
    BY <2>2, <2>3, <2>4
<1>4. CASE DiscardNew
  <2>1. newly = {}
    BY <1>4 DEF DiscardNew, Untouched
  <2>2. UNCHANGED <<state, addr, route, responder, spec, newly, leftovers>> /\ pc' = "sweep"
    BY <1>4, <2>1 DEF DiscardNew, Status
  <2>3. QED
    BY <1>4, <2>1, <2>2 DEF Settled, Untouched, IsDesired, Running, Present, Desired, Fragment,
       DiscardNew
<1>5. CASE ReadRoute
  BY <1>5 DEF ReadRoute, UnchangedNode, node, Settled, Untouched, IsDesired, Running, Present,
     Desired, Fragment, Goto, Status
<1>6. CASE Gate
  <2>1. UNCHANGED <<state, addr, route, responder, spec, newly, leftovers>>
    BY <1>6 DEF Gate
  <2>2. pc' \in {"gate", "flip", "discard"} /\ pc = "gate"
    BY <1>6 DEF Gate, Goto
  <2>3. QED
    BY <2>1, <2>2 DEF Settled, Untouched, IsDesired, Running, Present, Desired, Fragment
<1>7. CASE Flip
  <2>1. UNCHANGED <<state, addr, spec, newly, leftovers>> /\ pc = "flip"
    BY <1>7 DEF Flip, locals
  <2>2. pc' \in {"drain", "sweep", "discard"}
    BY <1>7 DEF Flip, Goto, Status
  <2>3. todo = {} /\ spec # Absent
    BY <2>1, DesiredNotAbsent DEF PassShape, Converging
  <2>4. upstreams = {addr[Desired(i)] : i \in spec.idx}
    BY <2>1, <2>3 DEF Gathered
  <2>5. route' = route
    BY <1>7, <2>3, <2>4 DEF Flip, SetRoute, Settled
  <2>6. responder' = responder \/ responder' = (responder \/ spec.maint)
    BY <1>7 DEF Flip, EnsureMaintenance
  <2>7. spec.maint => responder'
    <3>1. ASSUME spec.maint PROVE responder'
      <4>1. responder
        BY <2>3, <3>1 DEF Settled
      <4>2. CASE responder' = responder
        BY <4>1, <4>2
      <4>3. CASE responder' = (responder \/ spec.maint)
        BY <4>1, <4>3
      <4>4. QED
        BY <2>6, <4>2, <4>3
    <3>2. QED
      BY <3>1
  <2>8. Settled'
    BY <2>1, <2>3, <2>5, <2>7 DEF Settled, IsDesired, Running, Present, Desired, Fragment
  <2>9. QED
    BY <2>1, <2>2, <2>8 DEF Untouched
<1>8. CASE Drain
  <2>1. leftovers = {}
    BY <1>8 DEF Drain, Untouched
  <2>2. UNCHANGED <<state, addr, route, responder, spec, newly, leftovers>> /\ pc' = "sweep"
    BY <1>8, <2>1 DEF Drain, Status
  <2>3. QED
    BY <1>8, <2>1, <2>2 DEF Settled, Untouched, IsDesired, Running, Present, Desired, Fragment,
       Drain
<1>9. CASE Sweep
  <2>1. leftovers = {} /\ UNCHANGED <<state, addr, route, spec>>
    BY <1>9 DEF Sweep, Untouched
  <2>2. pc' = "idle"
    BY <1>9, <2>1 DEF Sweep, Goto
  <2>3. responder' = (responder /\ spec.maint) \/ (~spec.maint /\ responder' = responder)
    BY <1>9 DEF Sweep, RemoveMaintenance
  <2>4. spec # Absent /\ spec.maint => responder'
    <3>1. ASSUME spec # Absent, spec.maint PROVE responder'
      <4>1. responder
        BY <3>1 DEF Settled
      <4>2. responder' = (responder /\ spec.maint)
        BY <2>3, <3>1
      <4>3. QED
        BY <3>1, <4>1, <4>2
    <3>2. QED
      BY <3>1
  <2>5. Settled'
    BY <2>1, <2>4 DEF Settled, IsDesired, Running, Present, Desired, Fragment
  <2>6. QED
    BY <2>2, <2>5 DEF Untouched
<1>10. CASE Crash
  <2>1. UNCHANGED <<node, spec>> /\ pc' = "idle"
    BY <1>10 DEF Crash, Goto
  <2>2. QED
    BY <2>1 DEF Settled, Untouched, node, IsDesired, Running, Present, Desired, Fragment
<1>11. ASSUME NEW c \in Names, Die(c), UNCHANGED deaths PROVE FALSE
  BY <1>11 DEF Die, TypeOK
<1>12. ASSUME NEW c \in Names, Revive(c) PROVE FALSE
  BY <1>1, <1>12 DEF Revive
<1>13. ASSUME NEW s \in Specs, Change(s), UNCHANGED changes PROVE FALSE
  BY <1>13 DEF Change, TypeOK
<1>14. ~(Prepare \/ ClearSquatter \/ CreateContainer \/ StartContainer \/ Unroute \/ Teardown)
  BY DEF Untouched, Prepare, ClearSquatter, CreateContainer, StartContainer, Unroute, Teardown
<1>15. CASE UNCHANGED vars
  BY <1>15 DEF vars, node, locals, Settled, Untouched, IsDesired, Running, Present, Desired,
     Fragment
<1>16. QED
  BY <1>3, <1>4, <1>5, <1>6, <1>7, <1>8, <1>9, <1>10, <1>11, <1>12, <1>13, <1>14, <1>15
     DEF Next, Pass, World

\* A node that is in the desired state stays in it, whatever calls of the passes that follow
\* fail and wherever the agent dies, until a container dies or something else is desired.
THEOREM SettledStays ==
  ASSUME ~Reuse
  PROVE  /\ DriverInv /\ pc = "idle" /\ Settled
         /\ [][Next /\ UNCHANGED <<deaths, changes>>]_vars
         => []Settled
<1>1. pc = "idle" => Gathered /\ Untouched
  BY DEF Gathered, Untouched
<1>2. ASSUME DriverInv, Gathered, Settled, Untouched,
             [Next /\ UNCHANGED <<deaths, changes>>]_vars
      PROVE  DriverInv' /\ Gathered' /\ Settled' /\ Untouched'
  <2>1. [Next /\ UNCHANGED deaths]_vars /\ [Next]_vars
    BY <1>2
  <2>2. DriverInv'
    BY <1>2, <2>1, DriverStepHolds
  <2>3. Gathered'
    BY <1>2, <2>1, GatheredStep DEF DriverInv
  <2>4. QED
    BY <1>2, <2>2, <2>3, SettledStep DEF DriverInv
<1>3. QED
  BY <1>1, <1>2, PTL

\* Where the replicas are in a pass that nothing disturbs.
Undisturbed ==
  /\ pc # "discard"
  /\ pc \in {"prepare", "clear"} =>
       /\ newly = {}
       /\ \A i \in Missing : Present(Desired(i)) => Desired(i) \in leftovers
  /\ pc \in {"create", "start"} => \A i \in Missing : ~Present(Desired(i))
  /\ pc \in {"prepare", "clear", "create", "readRoute", "gate", "flip", "drain"} =>
       \A i \in current : Running(Desired(i))
  /\ pc = "start" =>
       \E i \in newly : Fresh(i) /\ \A j \in current \ {i} : Running(Desired(j))
  /\ pc \in {"readRoute", "gate", "flip", "drain"} => current = spec.idx
  /\ pc = "sweep" /\ spec # Absent => Converged
  /\ pc \in {"sweep", "unroute", "teardown"} /\ spec = Absent => ~failed

\* A step that uses up no budget is a call that works or a container that comes back.
LEMMA UndisturbedSteps ==
  ASSUME TypeOK, Next, UNCHANGED budget
  PROVE  (Pass \/ \E c \in Names : Revive(c)) /\ UNCHANGED <<spec, faults>>
<1> USE DriverAssumption
<1>1. ~Crash
  BY DEF Crash, TypeOK, budget
<1>2. \A s \in Specs : ~Change(s)
  BY DEF Change, TypeOK, budget
<1>3. \A c \in Names : ~Die(c)
  BY DEF Die, TypeOK, budget
<1>4. Pass => UNCHANGED spec
  BY DEF Pass, List, Prepare, ClearSquatter, CreateContainer, StartContainer, DiscardNew,
     ReadRoute, Gate, Flip, Drain, Unroute, Teardown, Sweep
<1>5. QED
  BY <1>1, <1>2, <1>3, <1>4 DEF Next, World, Revive, budget

\* It leaves what runs running, and removes nothing but what it is told to.
LEMMA UndisturbedStep ==
  ASSUME ~Reuse, DriverInv, Gathered, Undisturbed, Next, UNCHANGED budget
  PROVE  Undisturbed'
<1> USE DesiredName, SpecFields, DriverAssumption DEF DriverInv
<1>1. UNCHANGED spec /\ ~Fails
  BY UndisturbedSteps DEF Fails, TypeOK, budget
<1>2. \A i, j : Desired(i) = Desired(j) => i = j
  BY DEF Desired
<1>3. CASE List
  <2>1. UNCHANGED node /\ newly' = {}
    BY <1>1, <1>3 DEF List, UnchangedNode
  <2>2. current' = {i \in spec.idx : Running(Desired(i))}
    BY <1>1, <1>3 DEF List
  <2>3. leftovers' = {c \in Names : Present(c) /\ ~(c[1] = spec.ver /\ c[2] \in current')}
    BY <1>1, <1>3 DEF List
  <2>4. failed' = FALSE
    BY <1>1, <1>3 DEF List
  <2>5. pc' = IF spec = Absent THEN "sweep" ELSE IF current' = spec.idx THEN "readRoute" ELSE "prepare"
    BY <1>1, <1>3 DEF List, Goto
  <2>6. \A i \in current' : Running(Desired(i))
    BY <2>2
  <2>7. ASSUME spec # Absent, NEW i \in spec.idx \ current', Present(Desired(i))
        PROVE  Desired(i) \in leftovers'
    <3>1. Desired(i) \in Names
      BY <2>7 DEF Desired, Names, TypeOK, SpecType
    <3>2. Desired(i)[2] = i
      BY DEF Desired
    <3>3. QED
      BY <2>3, <2>7, <3>1, <3>2
  <2>8. QED
    BY <1>1, <2>1, <2>4, <2>5, <2>6, <2>7 DEF Undisturbed, Missing, Present, Desired, Running, node
<1>4. CASE Prepare
  BY <1>1, <1>4 DEF Prepare, Undisturbed, UnchangedNode, node, locals, Goto, Missing, Present,
     Desired, Running
<1>5. CASE ClearSquatter
  <2>1. UNCHANGED <<spec, current, newly>> /\ pc = "clear"
    BY <1>5 DEF ClearSquatter
  <2>2. CASE pc' = "create"
    <3>1. Squatters = {} /\ UNCHANGED state
      BY <1>5, <2>1, <2>2 DEF ClearSquatter
    <3>2. \A i \in Missing : Desired(i) \notin leftovers
      BY <3>1 DEF Squatters, Desired
    <3>3. QED
      BY <2>1, <2>2, <3>1, <3>2 DEF Undisturbed, Missing, Present, Desired, Running
  <2>3. CASE pc' = "clear"
    <3>1. PICK c \in Squatters : Becomes(c, "absent") /\ leftovers' = leftovers \ {c}
      BY <1>1, <1>5, <2>1, <2>3 DEF ClearSquatter, Goto, Discard
    <3>2. c \in Names /\ c[2] \in Missing /\ c[1] = spec.ver
      BY <3>1 DEF Squatters, TypeOK
    <3>3. \A d \in Names : state'[d] = IF d = c THEN "absent" ELSE state[d]
      BY <3>1, <3>2 DEF Becomes, TypeOK
    <3>4. \A i \in Index : Desired(i) \in Names
      BY <2>1 DEF Converging
    <3>5. current \subseteq Index /\ Missing \subseteq Index
      BY DEF TypeOK, Missing
    <3>6. \A i \in current : Desired(i) # c
      BY <3>2 DEF Missing, Desired
    <3>7. \A i \in current : state'[Desired(i)] = "running"
      BY <2>1, <3>3, <3>4, <3>5, <3>6 DEF Undisturbed, Running
    <3>8. \A i \in Missing : state'[Desired(i)] # "absent" => Desired(i) \in leftovers'
      BY <2>1, <3>1, <3>3, <3>4, <3>5 DEF Undisturbed, Present
    <3>9. QED
      BY <2>1, <2>3, <3>7, <3>8 DEF Undisturbed, Missing, Present, Desired, Running
  <2>4. QED
    BY <1>5, <2>1, <2>2, <2>3 DEF ClearSquatter, Goto
<1>6. CASE CreateContainer
  <2>1. PICK i \in Missing : /\ state' = [state EXCEPT ![Desired(i)] = "created"]
                             /\ current' = current \cup {i} /\ newly' = newly \cup {i}
                             /\ pc' = "start"
    BY <1>1, <1>6 DEF CreateContainer, Undisturbed, Goto
  <2>2. pc = "create" /\ i \in Index /\ i \notin current /\ current \subseteq Index
    BY <1>6, <2>1 DEF CreateContainer, Missing, TypeOK
  <2>3. \A j \in Index : Desired(j) \in Names
    BY <2>2 DEF Converging
  <2>4. \A j \in Index : state'[Desired(j)] = IF j = i THEN "created" ELSE state[Desired(j)]
    BY <1>2, <2>1, <2>2, <2>3 DEF TypeOK
  <2>5. \A j \in current' \ {i} : state'[Desired(j)] = "running"
    BY <2>1, <2>2, <2>4 DEF Undisturbed, Running
  <2>6. \A j \in spec.idx \ current' : state'[Desired(j)] = "absent"
    BY <2>1, <2>2, <2>4 DEF Undisturbed, Present, Missing
  <2>7. i \in newly' /\ state'[Desired(i)] = "created"
    BY <2>1, <2>2, <2>4
  <2>8. QED
    BY <1>1, <2>1, <2>5, <2>6, <2>7 DEF Undisturbed, Missing, Present, Desired, Running, Fresh
<1>7. CASE StartContainer
  <2>1. PICK i \in newly : /\ Fresh(i)
                           /\ state' = [state EXCEPT ![Desired(i)] = "running"]
                           /\ pc' = IF Missing = {} THEN "readRoute" ELSE "create"
    BY <1>1, <1>7 DEF StartContainer, Goto
  <2>2. UNCHANGED <<current, newly>> /\ pc = "start"
    BY <1>7 DEF StartContainer, locals
  <2>3. current \subseteq Index /\ i \in current /\ Missing \subseteq Index
    BY <2>1, <2>2 DEF TypeOK, PassShape, Converging, Missing
  <2>4. \A j \in Index : Desired(j) \in Names
    BY <2>2 DEF Converging
  <2>5. \A j \in Index : state'[Desired(j)] = IF j = i THEN "running" ELSE state[Desired(j)]
    BY <1>2, <2>1, <2>3, <2>4 DEF TypeOK
  <2>6. \A j \in current \ {i} : Running(Desired(j))
    <3>1. PICK k \in newly : \A j \in current \ {k} : Running(Desired(j))
      BY <2>2 DEF Undisturbed
    <3>2. k = i
      BY <2>1, <2>3, <3>1 DEF Fresh, Running
    <3>3. QED
      BY <3>1, <3>2
  <2>7. \A j \in current : state'[Desired(j)] = "running"
    BY <2>3, <2>5, <2>6 DEF Running
  <2>8. \A j \in Missing : state'[Desired(j)] = "absent"
    BY <2>2, <2>3, <2>5 DEF Undisturbed, Present, Missing
  <2>9. Missing = {} => current = spec.idx
    BY <2>2 DEF Missing, PassShape, Converging
  <2>10. QED
    BY <1>1, <2>1, <2>2, <2>7, <2>8, <2>9 DEF Undisturbed, Missing, Present, Desired, Running
<1>8. CASE ReadRoute
  BY <1>1, <1>8 DEF ReadRoute, Undisturbed, UnchangedNode, node, Goto, Desired, Running
<1>9. CASE Gate
  <2>1. PICK i \in todo : Running(Desired(i)) => pc' \in {"gate", "flip"}
    BY <1>1, <1>9 DEF Gate, Goto
  <2>2. UNCHANGED <<state, current>> /\ pc = "gate"
    BY <1>9 DEF Gate
  <2>3. i \in spec.idx
    BY <2>1, <2>2 DEF PassShape
  <2>4. pc' \in {"gate", "flip"}
    BY <2>1, <2>2, <2>3 DEF Undisturbed
  <2>5. QED
    BY <1>1, <2>2, <2>4 DEF Undisturbed, Desired, Running
<1>10. CASE Flip
  BY <1>1, <1>10 DEF Flip, Undisturbed, locals, Goto, Desired, Running
<1>11. CASE Drain
  <2>1. UNCHANGED <<current, route, responder>> /\ pc = "drain"
    BY <1>11 DEF Drain
  <2>2. CASE pc' = pc
    <3>1. PICK c \in leftovers : Becomes(c, "absent")
      BY <1>1, <1>11, <2>1, <2>2 DEF Drain, Status
    <3>2. \A i \in spec.idx : Desired(i) # c /\ Desired(i) \in Names
      BY <2>1, <3>1 DEF LeftoversUnrouted, Converging
    <3>3. \A i \in spec.idx : state'[Desired(i)] = state[Desired(i)]
      BY <3>1, <3>2 DEF TypeOK, Becomes
    <3>4. current = spec.idx
      BY <2>1 DEF Undisturbed
    <3>5. QED
      BY <1>1, <2>1, <2>2, <3>3, <3>4 DEF Undisturbed, Desired, Running
  <2>3. CASE pc' # pc
    <3>1. leftovers = {} /\ UNCHANGED <<state, addr>> /\ pc' = "sweep"
          /\ report' = [state |-> "running", ver |-> spec.ver]
      BY <1>1, <1>11, <2>3 DEF Drain, Status
    <3>2. Settled
      BY <2>1, <3>1, GatheredSettles
    <3>3. Settled'
      BY <1>1, <2>1, <3>1, <3>2 DEF Settled, IsDesired, Running, Present, Desired, Fragment
    <3>4. spec # Absent
      BY <2>1, DesiredNotAbsent
    <3>5. QED
      BY <1>1, <3>1, <3>3, <3>4 DEF Undisturbed, Converged
  <2>4. QED
    BY <2>2, <2>3
<1>12. CASE Unroute
  BY <1>1, <1>12 DEF Unroute, Undisturbed, Goto
<1>13. CASE Teardown
  BY <1>1, <1>13 DEF Teardown, Undisturbed
<1>14. CASE Sweep
  BY <1>1, <1>14 DEF Sweep, Undisturbed, Goto, locals
<1>15. ASSUME NEW c \in Names, Revive(c) PROVE Undisturbed'
  <2>1. UNCHANGED <<route, responder, report, pc, locals>> /\ state[c] = "dead"
    BY <1>15 DEF Revive
  <2>2. \A d \in Names : d # c => state'[d] = state[d] /\ addr'[d] = addr[d]
    BY <1>15 DEF Revive, TypeOK
  <2>3. state'[c] = "running"
    BY <1>15 DEF Revive, TypeOK
  <2>4. \A d \in Names : /\ state[d] # "dead" => state'[d] = state[d] /\ addr'[d] = addr[d]
                         /\ (state'[d] = "absent") = (state[d] = "absent")
    BY <2>1, <2>2, <2>3
  <2>5. ~Converged \/ spec = Absent
    <3>1. ASSUME spec # Absent, Settled PROVE FALSE
      BY <2>1, <3>1 DEF Settled, Running, Present
    <3>2. QED
      BY <3>1 DEF Converged
  <2>6. UNCHANGED <<newly, current, leftovers, failed>>
    BY <2>1 DEF locals
  <2>7. CASE pc \in Converging \cup {"drain"}
    <3>1. \A i \in Index : Desired(i) \in Names
      BY <2>7
    <3>2. current \subseteq Index /\ newly \subseteq Index /\ Missing \subseteq Index
      BY DEF TypeOK, Missing
    <3>3. \A i \in Index : /\ Running(Desired(i)) => state'[Desired(i)] = "running"
                           /\ Fresh(i) => state'[Desired(i)] = "created"
                           /\ (state'[Desired(i)] = "absent") = (state[Desired(i)] = "absent")
      BY <2>4, <3>1 DEF Running, Fresh
    <3>4. UNCHANGED <<spec, pc, newly, current, leftovers, failed>>
      BY <1>1, <2>1, <2>6
    <3>5. pc # "discard" /\ pc # "sweep"
      BY <2>7 DEF Undisturbed, Converging
    <3>6. pc \in {"prepare", "clear"} =>
            \A i \in Missing : state'[Desired(i)] # "absent" => Desired(i) \in leftovers
      BY <3>2, <3>3 DEF Undisturbed, Present
    <3>7. pc \in {"create", "start"} => \A i \in Missing : state'[Desired(i)] = "absent"
      BY <3>2, <3>3 DEF Undisturbed, Present
    <3>8. pc \in {"prepare", "clear", "create", "readRoute", "gate", "flip", "drain"} =>
            \A i \in current : state'[Desired(i)] = "running"
      BY <3>2, <3>3 DEF Undisturbed
    <3>9. pc = "start" => \E i \in newly : /\ state'[Desired(i)] = "created"
                                         /\ \A j \in current \ {i} : state'[Desired(j)] = "running"
      BY <3>2, <3>3 DEF Undisturbed
    <3>10. QED
      BY <2>7, <3>4, <3>5, <3>6, <3>7, <3>8, <3>9 DEF Undisturbed, Converging, Missing, Present,
         Desired, Running, Fresh
  <2>8. CASE pc \notin Converging \cup {"drain"}
    BY <1>1, <2>1, <2>5, <2>6, <2>8 DEF Undisturbed, Converging
  <2>9. QED
    BY <2>7, <2>8
<1>16. ~DiscardNew
  BY DEF DiscardNew, Undisturbed
<1>17. QED
  BY <1>3, <1>4, <1>5, <1>6, <1>7, <1>8, <1>9, <1>10, <1>11, <1>12, <1>13, <1>14, <1>15, <1>16,
     UndisturbedSteps DEF Pass

\* A pass that nothing disturbs - no call fails, nothing dies - gives up at nothing: it does
\* not clean up, and it ends with the node in the desired state and reported as such; and a
\* removal reports nothing, so that ReportIsTrue says that it is complete.
THEOREM UndisturbedSucceeds ==
  ASSUME ~Reuse
  PROVE  DriverInv /\ pc = "idle" /\ [][Next /\ UNCHANGED budget]_vars
         => [](/\ pc # "discard"
               /\ pc = "sweep" /\ spec # Absent => Converged
               /\ pc = "teardown" => ~failed)
<1>1. pc = "idle" => Gathered /\ Undisturbed
  BY DEF Gathered, Undisturbed
<1>2. ASSUME DriverInv, Gathered, Undisturbed, [Next /\ UNCHANGED budget]_vars
      PROVE  DriverInv' /\ Gathered' /\ Undisturbed'
  <2>1. [Next /\ UNCHANGED deaths]_vars /\ [Next]_vars
    BY <1>2 DEF budget
  <2>2. DriverInv'
    BY <1>2, <2>1, DriverStepHolds
  <2>3. Gathered'
    BY <1>2, <2>1, GatheredStep DEF DriverInv
  <2>4. CASE UNCHANGED vars
    <3>1. UNCHANGED <<state, addr, route, responder, spec, report, pc, current, newly, leftovers,
                      failed>>
      BY <2>4 DEF vars, node, locals
    <3>2. Settled = Settled'
      BY <3>1 DEF Settled, IsDesired, Running, Present, Desired, Fragment
    <3>3. Undisturbed'
      BY <1>2, <3>1, <3>2 DEF Undisturbed, Missing, Present, Desired, Running, Fresh, Converged
    <3>4. QED
      BY <2>2, <2>3, <3>3
  <2>5. CASE Next /\ UNCHANGED budget
    BY <1>2, <2>2, <2>3, <2>5, UndisturbedStep
  <2>6. QED
    BY <1>2, <2>2, <2>3, <2>4, <2>5
<1>3. DriverInv /\ Undisturbed
      => /\ pc # "discard"
         /\ pc = "sweep" /\ spec # Absent => Converged
         /\ pc = "teardown" => ~failed
  BY DEF DriverInv, Undisturbed, Accounted
<1>4. QED
  BY <1>1, <1>2, <1>3, PTL

LEMMA RankValues ==
  /\ Rank["idle"] = 0 /\ Rank["prepare"] = 1 /\ Rank["clear"] = 2 /\ Rank["create"] = 3
  /\ Rank["start"] = 3 /\ Rank["readRoute"] = 4 /\ Rank["gate"] = 5 /\ Rank["flip"] = 6
  /\ Rank["drain"] = 7 /\ Rank["discard"] = 8 /\ Rank["sweep"] = 9 /\ Rank["unroute"] = 10
  /\ Rank["teardown"] = 11
BY DEF Rank, Ops

\* A pass goes forward with every call that works, and whatever happens around it, it has no
\* more to do than before.  With finitely many replicas and failures each pass therefore ends:
\* with UndisturbedSucceeds and SettledStays, all that Convergence asks for beyond is that
\* passes are begun and go on.
THEOREM PassAdvancesHolds ==
  ASSUME ~Reuse
  PROVE  Spec => PassAdvances
<1> DEFINE Fewer == Backlog' \subseteq Backlog /\ Backlog' # Backlog
           Advances == \/ pc' = "idle" \/ Rank[pc'] > Rank[pc]
                       \/ Rank[pc'] = Rank[pc] /\ Fewer
<1>1. ASSUME DriverInv, Pass, UNCHANGED faults PROVE Advances
  <2> USE <1>1, RankValues DEF DriverInv
  <2>1. ~Fails
    BY <1>1 DEF Fails, TypeOK
  <2>2. CASE List
    BY <1>1, <2>1, <2>2 DEF List, Goto
  <2>3. CASE Prepare
    BY <2>1, <2>3 DEF Prepare, Goto
  <2>4. CASE ClearSquatter
    <3>1. CASE pc' = "create"
      BY <2>4, <3>1 DEF ClearSquatter
    <3>2. CASE pc' # "create"
      <4>1. PICK c \in Squatters : leftovers' = leftovers \ {c}
        BY <2>4, <3>2 DEF ClearSquatter, Goto
      <4>2. UNCHANGED <<pc, spec, current>> /\ pc = "clear"
        BY <2>4, <3>2 DEF ClearSquatter, Goto
      <4>3. Squatters' = Squatters \ {c}
        BY <4>1, <4>2 DEF Squatters, Missing
      <4>4. Backlog = Squatters /\ Backlog' = Squatters'
        BY <4>2 DEF Backlog
      <4>5. Fewer
        BY <4>1, <4>3, <4>4
      <4>6. QED
        BY <4>2, <4>5
    <3>3. QED
      BY <3>1, <3>2
  <2>5. CASE CreateContainer
    <3>1. CASE pc' = "discard"
      BY <2>5, <3>1 DEF CreateContainer
    <3>2. CASE pc' # "discard"
      <4>1. PICK i \in Missing : /\ state' = [state EXCEPT ![Desired(i)] = "created"]
                                 /\ current' = current \cup {i} /\ newly' = newly \cup {i}
        BY <2>5, <3>2 DEF CreateContainer, Goto
      <4>2. pc = "create" /\ pc' = "start" /\ spec' = spec
        BY <2>5, <3>2 DEF CreateContainer, Goto
      <4>3. i \in Index /\ newly \subseteq Index /\ i \notin newly
        BY <4>1, <4>2, SpecFields DEF Missing, TypeOK, PassShape, Converging
      <4>4. \A j \in Index : Desired(j) \in Names
        BY <4>2, DesiredName DEF Converging
      <4>5. \A j \in newly : state'[Desired(j)] = state[Desired(j)]
        BY <4>1, <4>3, <4>4 DEF TypeOK, Desired
      <4>6. Missing' = Missing \ {i}
        BY <4>1, <4>2 DEF Missing
      <4>7. Unstarted' \subseteq Unstarted \cup {i}
        BY <4>1, <4>2, <4>5 DEF Unstarted, Fresh, Desired
      <4>8. Backlog = (Missing \X {"create", "start"}) \cup (Unstarted \X {"start"})
        BY <4>2 DEF Backlog
      <4>9. Backlog' = (Missing' \X {"create", "start"}) \cup (Unstarted' \X {"start"})
        BY <4>2 DEF Backlog
      <4>10. Backlog' \subseteq Backlog
        BY <4>1, <4>6, <4>7, <4>8, <4>9
      <4>11. <<i, "create">> \in Backlog /\ <<i, "create">> \notin Backlog'
        BY <4>1, <4>6, <4>8, <4>9
      <4>12. QED
        BY <4>2, <4>10, <4>11
    <3>3. QED
      BY <3>1, <3>2
  <2>6. CASE StartContainer
    <3>1. PICK i \in newly : Fresh(i) /\ state' = [state EXCEPT ![Desired(i)] = "running"]
      BY <2>1, <2>6 DEF StartContainer, Goto
    <3>2. UNCHANGED <<spec, current, newly>> /\ pc = "start" /\ pc' \in {"readRoute", "create"}
      BY <2>1, <2>6 DEF StartContainer, Goto, locals
    <3>3. CASE pc' = "readRoute"
      BY <3>2, <3>3
    <3>4. CASE pc' = "create"
      <4>1. \A j \in Index : Desired(j) \in Names
        BY <3>2, DesiredName DEF Converging
      <4>2. newly \subseteq Index /\ i \notin Missing
        BY <3>1, <3>2 DEF TypeOK, Missing, PassShape, Converging
      <4>3. \A j \in newly : state'[Desired(j)] = IF j = i THEN "running" ELSE state[Desired(j)]
        BY <3>1, <4>1, <4>2 DEF TypeOK, Desired
      <4>4. Unstarted' = Unstarted \ {i}
        BY <3>2, <4>3 DEF Unstarted, Fresh, Desired
      <4>5. Missing' = Missing
        BY <3>2 DEF Missing
      <4>6. Backlog = (Missing \X {"create", "start"}) \cup (Unstarted \X {"start"})
        BY <3>2 DEF Backlog
      <4>7. Backlog' = (Missing' \X {"create", "start"}) \cup (Unstarted' \X {"start"})
        BY <3>4 DEF Backlog
      <4>8. Backlog' \subseteq Backlog
        BY <4>4, <4>5, <4>6, <4>7
      <4>9. <<i, "start">> \in Backlog /\ <<i, "start">> \notin Backlog'
        BY <3>1, <4>2, <4>4, <4>5, <4>6, <4>7 DEF Unstarted
      <4>10. QED
        BY <3>2, <3>4, <4>8, <4>9
    <3>5. QED
      BY <3>2, <3>3, <3>4
  <2>7. CASE DiscardNew
    <3>1. CASE pc' = "sweep"
      BY <2>7, <3>1 DEF DiscardNew
    <3>2. CASE pc' # "sweep"
      <4>1. PICK i \in newly : newly' = newly \ {i}
        BY <2>7, <3>2 DEF DiscardNew, Status
      <4>2. pc' = pc /\ pc = "discard"
        BY <2>7, <3>2 DEF DiscardNew, Status
      <4>3. Backlog = newly /\ Backlog' = newly'
        BY <4>2 DEF Backlog
      <4>4. Fewer
        BY <4>1, <4>3
      <4>5. QED
        BY <4>2, <4>4
    <3>3. QED
      BY <3>1, <3>2
  <2>8. CASE ReadRoute
    BY <2>1, <2>8 DEF ReadRoute, Goto
  <2>9. CASE Gate
    <3>1. CASE pc' = "gate"
      <4>1. PICK i \in todo : todo' = todo \ {i}
        BY <2>9, <3>1 DEF Gate, Goto
      <4>2. pc = "gate"
        BY <2>9 DEF Gate
      <4>3. Backlog = todo /\ Backlog' = todo'
        BY <3>1, <4>2 DEF Backlog
      <4>4. Fewer
        BY <4>1, <4>3
      <4>5. QED
        BY <3>1, <4>2, <4>4
    <3>2. CASE pc' # "gate"
      BY <2>9, <3>2 DEF Gate, Goto
    <3>3. QED
      BY <3>1, <3>2
  <2>10. CASE Flip
    BY <2>10 DEF Flip, Goto, Status
  <2>11. CASE Drain
    <3>1. CASE pc' = "sweep"
      BY <2>11, <3>1 DEF Drain
    <3>2. CASE pc' # "sweep"
      <4>1. PICK c \in leftovers : leftovers' = leftovers \ {c}
        BY <2>11, <3>2 DEF Drain, Status
      <4>2. pc' = pc /\ pc = "drain"
        BY <2>11, <3>2 DEF Drain, Status
      <4>3. Backlog = leftovers /\ Backlog' = leftovers'
        BY <4>2 DEF Backlog
      <4>4. Fewer
        BY <4>1, <4>3
      <4>5. QED
        BY <4>2, <4>4
    <3>3. QED
      BY <3>1, <3>2
  <2>12. CASE Unroute
    BY <2>12 DEF Unroute, Goto
  <2>13. CASE Teardown
    <3>1. CASE pc' # "idle"
      <4>1. PICK c \in leftovers : leftovers' = leftovers \ {c}
        BY <2>13, <3>1 DEF Teardown
      <4>2. pc' = pc /\ pc = "teardown"
        BY <2>13, <3>1 DEF Teardown
      <4>3. Backlog = leftovers /\ Backlog' = leftovers'
        BY <4>2 DEF Backlog
      <4>4. Fewer
        BY <4>1, <4>3
      <4>5. QED
        BY <4>2, <4>4
    <3>2. QED
      BY <3>1
  <2>14. CASE Sweep
    BY <2>14 DEF Sweep, Goto
  <2>15. QED
    BY <1>1, <2>2, <2>3, <2>4, <2>5, <2>6, <2>7, <2>8, <2>9, <2>10, <2>11, <2>12, <2>13, <2>14
       DEF Pass
<1>2. ASSUME DriverInv, World PROVE pc' = "idle" \/ UNCHANGED <<pc, Backlog>>
  <2> USE <1>2 DEF DriverInv
  <2>1. CASE Crash \/ \E s \in Specs : Change(s)
    BY <2>1 DEF Crash, Change, Goto
  <2>2. ASSUME NEW c \in Names, Die(c) \/ Revive(c)
        PROVE  UNCHANGED <<pc, Backlog>>
    <3>1. UNCHANGED <<spec, pc, locals>>
      BY <2>2 DEF Die, Revive
    <3>2. \A d \in Names : (state'[d] = "created") = (state[d] = "created")
      BY <2>2 DEF Die, Revive, Becomes, Running, TypeOK
    <3>3. UNCHANGED <<current, newly, leftovers, todo>>
      BY <3>1 DEF locals
    <3>4. UNCHANGED <<Missing, Squatters>>
      BY <3>1, <3>3 DEF Missing, Squatters
    <3>5. CASE pc \in {"create", "start"}
      <4>1. \A j \in newly : Desired(j) \in Names
        BY <3>5, DesiredName DEF Converging, TypeOK
      <4>2. Unstarted' = Unstarted
        BY <3>1, <3>2, <3>3, <4>1 DEF Unstarted, Fresh, Desired
      <4>3. Backlog = (Missing \X {"create", "start"}) \cup (Unstarted \X {"start"})
        BY <3>5 DEF Backlog
      <4>4. Backlog' = (Missing' \X {"create", "start"}) \cup (Unstarted' \X {"start"})
        BY <3>1, <3>5 DEF Backlog
      <4>5. QED
        BY <3>1, <3>4, <4>2, <4>3, <4>4
    <3>6. CASE pc \notin {"create", "start"}
      BY <3>1, <3>3, <3>4, <3>6 DEF Backlog
    <3>7. QED
      BY <3>5, <3>6
  <2>3. QED
    BY <1>2, <2>1, <2>2 DEF World
<1>3. DriverInv /\ [Next]_vars
      => [/\ Pass /\ UNCHANGED faults => Advances
          /\ World => pc' = "idle" \/ UNCHANGED <<pc, Backlog>>]_vars
  BY <1>1, <1>2
<1>4. Spec => []DriverInv
  BY DriverInvariant
<1>5. QED
  BY <1>3, <1>4, PTL DEF Spec, PassAdvances
===============================================================================

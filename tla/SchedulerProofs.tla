--------------------------- MODULE SchedulerProofs ---------------------------
(***************************************************************************)
(* Proofs about the deploy pipeline for every number of deployments,       *)
(* servers and crashes, whatever calls fail and whatever agents report.    *)
(*                                                                         *)
(* The argument is one inductive invariant, IInv of module Scheduler.  The *)
(* lemmas below show that a step keeps each of its parts.  Each has one    *)
(* step per action that writes a variable of that part, and one step for   *)
(* the actions that leave all of them alone.                               *)
(***************************************************************************)
EXTENDS Scheduler, TLAPS

\* Every step keeps the types of the deployment rows (RowTypes).
LEMMA RowTypesStep == TypeOK /\ [Next]_vars => RowTypes'
<1> USE ConstantsAssumption
        DEF Dep, NoRev, NoServer, InFlight, Active, Terminal, Status, Endings, AppStatuses
<1> SUFFICES ASSUME TypeOK, [Next]_vars PROVE RowTypes'
  OBVIOUS
<1>1. ASSUME NEW srv \in Servers, SetArtifactServer(srv)
      PROVE  RowTypes'
  BY <1>1 DEF SetArtifactServer, At, Admitted, Goto, TypeOK, RowTypes, history
<1>2. CASE Park
  BY <1>2 DEF Park, At, SetStatus, Goto, TypeOK, RowTypes, history
<1>3. CASE GatePark
  BY <1>3 DEF GatePark, At, Goto, Return, TypeOK, RowTypes, history
<1>4. CASE FailParked
  BY <1>4 DEF FailParked, At, SetStatus, Return, Goto, TypeOK, RowTypes
<1>5. CASE SetBuilding
  BY <1>5 DEF SetBuilding, At, SetStatus, Goto, TypeOK, RowTypes, history
<1>6. CASE SelectBuilder
  <2>1. \/ builder' = builder
        \/ \E srv \in Servers : builder' = [builder EXCEPT ![cur] = srv]
    BY <1>6 DEF SelectBuilder
  <2>2. builder' \in [Dep -> Servers \cup {NoServer}]
    <3>1. CASE builder' = builder
      BY <3>1 DEF TypeOK, RowTypes
    <3>2. ASSUME NEW srv \in Servers, builder' = [builder EXCEPT ![cur] = srv]
          PROVE  builder' \in [Dep -> Servers \cup {NoServer}]
      BY <3>2 DEF TypeOK, RowTypes
    <3>3. QED
      BY <2>1, <3>1, <3>2
  <2>3. UNCHANGED <<status, rev, approval, image, promoted, history, emitted>>
    BY <1>6 DEF SelectBuilder
  <2>4. QED
    BY <2>2, <2>3 DEF TypeOK, RowTypes, history
<1>7. CASE SetImage
  BY <1>7 DEF SetImage, At, Goto, TypeOK, RowTypes, history
<1>8. CASE SetDistributing
  BY <1>8 DEF SetDistributing, At, SetStatus, Goto, TypeOK, RowTypes, history
<1>9. CASE SetRollingOut
  BY <1>9 DEF SetRollingOut, At, SetStatus, Goto, TypeOK, RowTypes, history
<1>10. CASE EndActive
  BY <1>10 DEF EndActive, At, SetStatus, Goto, TypeOK, RowTypes
<1>11. CASE Announce
  <2>1. /\ cur \in Dep /\ emitted \in [Dep -> Nat]
        /\ emitted' = [emitted EXCEPT ![cur] = emitted[cur] + 1]
    BY <1>11 DEF Announce, At, TypeOK, RowTypes, AppTypes
  <2>2. emitted' = [x \in Dep |-> IF x = cur THEN emitted[cur] + 1 ELSE emitted[x]]
    BY <2>1
  <2>3. ASSUME NEW x \in Dep
        PROVE  (IF x = cur THEN emitted[cur] + 1 ELSE emitted[x]) \in Nat
    BY <2>1
  <2>4. emitted' \in [Dep -> Nat]
    BY <2>2, <2>3
  <2> QED
    BY <1>11, <2>4 DEF Announce, TypeOK, RowTypes, rows, history
<1>12. CASE Complete
  BY <1>12 DEF Complete, At, SetStatus, Goto, TypeOK, RowTypes
<1>13. ASSUME NEW d \in Dep, NEW need \in Gates, NEW imageSource \in BOOLEAN,
              Deploy(d, need, imageSource)
      PROVE  RowTypes'
  BY <1>13 DEF Deploy, LockFree, NewRow, SetStatus, Admitted, Goto, TypeOK, RowTypes
<1>14. ASSUME NEW d \in Dep, NEW s \in Dep, NEW need \in Gates,
              Rollback(d, s, need)
      PROVE  RowTypes'
  BY <1>14 DEF Rollback, LockFree, NewRow, SetStatus, Admitted, Goto, TypeOK,
      RowTypes
<1>15. ASSUME NEW d \in Dep, NEW need \in Gates, Promote(d, need)
      PROVE  RowTypes'
  BY <1>15 DEF Promote, LockFree, NewRow, SetStatus, Goto, TypeOK, RowTypes
<1>16. ASSUME NEW d \in Dep, NEW verdict \in {"approve", "reject"},
              DecideApproval(d, verdict)
      PROVE  RowTypes'
  BY <1>16 DEF DecideApproval, TypeOK, RowTypes, history
<1>17. ASSUME NEW d \in Dep, ApproveDeployment(d)
      PROVE  RowTypes'
  BY <1>17 DEF ApproveDeployment, LockFree, SetStatus, Goto, job, TypeOK, RowTypes,
      history
<1>18. CASE UNCHANGED <<status, rev, builder, approval, image, promoted, gated, ended, emitted>>
  BY <1>18 DEF TypeOK, RowTypes
<1> QED
  BY <1>1, <1>2, <1>3, <1>4, <1>5, <1>6, <1>7, <1>8, <1>9, <1>10, <1>11, <1>12,
     <1>13, <1>14, <1>15, <1>16, <1>17, <1>18
     DEF Next, Step, Request, Report, Failure, vars, history, rows, TryStart,
         StartDeploying, PublishBuild, PublishPush, PublishDistribute, SetDesired,
         PublishRollout, ClearDeploying, PromoteNext, RejectDeployment, Cancel,
         HandleDeployEvent, HandleAppStatus, CallFails, Crash, DecisionFails, Boot,
         RecoverNext

\* Every step keeps the types of the application row, of the work published
\* and of the handler's current deployment (AppTypes).
LEMMA AppTypesStep == TypeOK /\ [Next]_vars => AppTypes'
<1> USE ConstantsAssumption
        DEF Dep, NoRev, NoServer, InFlight, Active, Terminal, Status, Endings, AppStatuses
<1> SUFFICES ASSUME TypeOK, [Next]_vars PROVE AppTypes'
  OBVIOUS
<1>1. ASSUME NEW srv \in Servers, SetArtifactServer(srv)
      PROVE  AppTypes'
  BY <1>1 DEF SetArtifactServer, At, Admitted, Goto, TypeOK, AppTypes, WorkKinds,
      appRow, process
<1>2. CASE Park
  BY <1>2 DEF Park, At, SetStatus, Goto, TypeOK, AppTypes, WorkKinds, appRow,
      process
<1>3. CASE GatePark
  BY <1>3 DEF GatePark, At, Goto, Return, TypeOK, AppTypes, WorkKinds, appRow,
      process
<1>4. CASE FailParked
  BY <1>4 DEF FailParked, At, SetStatus, Return, Goto, TypeOK, AppTypes, WorkKinds,
      appRow, process
<1>5. CASE TryStart
  BY <1>5 DEF TryStart, At, IsHead, Goto, Return, TypeOK, AppTypes, WorkKinds,
      appRow, process
<1>6. CASE StartDeploying
  BY <1>6 DEF StartDeploying, At, Goto, TypeOK, AppTypes, WorkKinds, process
<1>7. CASE SetBuilding
  BY <1>7 DEF SetBuilding, At, SetStatus, Goto, TypeOK, AppTypes, WorkKinds,
      appRow, process
<1>8. CASE SelectBuilder
  BY <1>8 DEF SelectBuilder, At, Goto, TypeOK, AppTypes, WorkKinds, appRow, process
<1>9. CASE PublishBuild
  BY <1>9 DEF PublishBuild, At, PublishWork, Return, Goto, TypeOK, AppTypes,
      WorkKinds, appRow, process
<1>10. CASE SetImage
  BY <1>10 DEF SetImage, At, Goto, TypeOK, AppTypes, WorkKinds, appRow, process
<1>11. CASE SetDistributing
  BY <1>11 DEF SetDistributing, At, SetStatus, Goto, TypeOK, AppTypes, WorkKinds,
      appRow, process
<1>12. CASE PublishPush
  <2>1. work' \in [Dep -> SUBSET WorkKinds]
    BY <1>12 DEF PublishPush, PublishWork, TypeOK, AppTypes, WorkKinds
  <2> QED
    BY <1>12, <2>1 DEF PublishPush, At, Goto, Return, TypeOK, AppTypes, appRow, process
<1>13. CASE PublishDistribute
  <2>1. work' \in [Dep -> SUBSET WorkKinds]
    BY <1>13 DEF PublishDistribute, PublishWork, TypeOK, AppTypes, WorkKinds
  <2> QED
    BY <1>13, <2>1 DEF PublishDistribute, At, Goto, Return, TypeOK, AppTypes, appRow, process
<1>14. CASE SetRollingOut
  BY <1>14 DEF SetRollingOut, At, SetStatus, Goto, TypeOK, AppTypes, WorkKinds,
      appRow, process
<1>15. CASE SetDesired
  <2>1. rev[cur] \in Dep
    BY <1>15 DEF SetDesired, At, TypeOK, RowTypes, AppTypes
  <2> QED
    BY <1>15, <2>1 DEF SetDesired, At, Goto, TypeOK, AppTypes, process
<1>16. CASE PublishRollout
  <2>1. work' \in [Dep -> SUBSET WorkKinds]
    BY <1>16 DEF PublishRollout, PublishWork, TypeOK, AppTypes, WorkKinds
  <2> QED
    BY <1>16, <2>1 DEF PublishRollout, At, Goto, Return, TypeOK, AppTypes, appRow, process
<1>17. CASE EndActive
  BY <1>17 DEF EndActive, At, SetStatus, Goto, TypeOK, AppTypes, WorkKinds, appRow,
      process
<1>18. CASE ClearDeploying
  BY <1>18 DEF ClearDeploying, At, Goto, TypeOK, AppTypes, WorkKinds, process
<1>19. CASE Announce
  BY <1>19 DEF Announce, At, Goto, TypeOK, AppTypes, WorkKinds, appRow, process
<1>20. CASE PromoteNext
  BY <1>20 DEF PromoteNext, At, IsHead, Goto, Return, TypeOK, AppTypes, WorkKinds,
      appRow, process
<1>21. CASE Complete
  BY <1>21 DEF Complete, At, SetStatus, Goto, TypeOK, AppTypes, WorkKinds, appRow,
      process
<1>22. ASSUME NEW d \in Dep, NEW need \in Gates, NEW imageSource \in BOOLEAN,
              Deploy(d, need, imageSource)
      PROVE  AppTypes'
  BY <1>22 DEF Deploy, LockFree, NewRow, SetStatus, Admitted, Goto, TypeOK,
      AppTypes, WorkKinds, appRow, process
<1>23. ASSUME NEW d \in Dep, NEW s \in Dep, NEW need \in Gates,
              Rollback(d, s, need)
      PROVE  AppTypes'
  BY <1>23 DEF Rollback, LockFree, NewRow, SetStatus, Admitted, Goto, TypeOK,
      AppTypes, WorkKinds, appRow, process
<1>24. ASSUME NEW d \in Dep, NEW need \in Gates, Promote(d, need)
      PROVE  AppTypes'
  BY <1>24 DEF Promote, LockFree, NewRow, SetStatus, Goto, TypeOK, AppTypes,
      WorkKinds, appRow, process
<1>25. ASSUME NEW d \in Dep, ApproveDeployment(d)
      PROVE  AppTypes'
  BY <1>25 DEF ApproveDeployment, LockFree, SetStatus, Goto, job, TypeOK, AppTypes,
      WorkKinds, appRow
<1>26. ASSUME NEW d \in Dep, RejectDeployment(d)
      PROVE  AppTypes'
  BY <1>26 DEF RejectDeployment, LockFree, Goto, job, TypeOK, AppTypes, WorkKinds,
      appRow
<1>27. ASSUME NEW d \in Dep, Cancel(d)
      PROVE  AppTypes'
  BY <1>27 DEF Cancel, LockFree, Goto, TypeOK, AppTypes, WorkKinds, appRow, process
<1>28. ASSUME NEW srv \in Servers, NEW d \in Dep, NEW failed \in BOOLEAN,
               NEW stage \in {"build", "distribute", "rollout"}, HandleDeployEvent(srv, d, stage, failed)
      PROVE  AppTypes'
  BY <1>28 DEF HandleDeployEvent, LockFree, Goto, TypeOK, AppTypes, WorkKinds,
      appRow, process
<1>29. ASSUME NEW state \in {"running", "error"},
               NEW r \in {NoRev} \cup {i \in Dep : image[i]}, HandleAppStatus(state, r)
      PROVE  AppTypes'
  BY <1>29 DEF HandleAppStatus, LockFree, Goto, job, TypeOK, AppTypes, WorkKinds,
      process
<1>30. CASE CallFails
  BY <1>30 DEF CallFails, Goto, Return, TypeOK, AppTypes, WorkKinds, appRow, process
<1>31. CASE Crash
  BY <1>31 DEF Crash, Return, Goto, TypeOK, AppTypes, WorkKinds, appRow
<1>32. ASSUME NEW d \in Dep, RecoverNext(d)
      PROVE  AppTypes'
  BY <1>32 DEF RecoverNext, Goto, job, TypeOK, AppTypes, WorkKinds, appRow, process
<1>33. CASE UNCHANGED <<appStatus, desired, observed, desiredBy, pc, cur, work, crashes>>
  BY <1>33 DEF TypeOK, AppTypes, WorkKinds
<1> QED
  BY <1>1, <1>2, <1>3, <1>4, <1>5, <1>6, <1>7, <1>8, <1>9, <1>10, <1>11, <1>12,
     <1>13, <1>14, <1>15, <1>16, <1>17, <1>18, <1>19, <1>20, <1>21, <1>22, <1>23,
     <1>24, <1>25, <1>26, <1>27, <1>28, <1>29, <1>30, <1>31, <1>32, <1>33
     DEF Next, Step, Request, Report, Failure, vars, appRow, job, process,
         DecideApproval, DecisionFails, Boot

\* Every step keeps the types of the process state (ProcessTypes).
LEMMA ProcessTypesStep == TypeOK /\ [Next]_vars => ProcessTypes'
<1> USE ConstantsAssumption
        DEF Dep, NoRev, NoServer, InFlight, Active, Terminal, Status, Endings, AppStatuses
<1> SUFFICES ASSUME TypeOK, [Next]_vars PROVE ProcessTypes'
  OBVIOUS
<1>1. ASSUME NEW srv \in Servers, SetArtifactServer(srv)
      PROVE  ProcessTypes'
  BY <1>1 DEF SetArtifactServer, At, Admitted, Goto, TypeOK, ProcessTypes, Ops,
      process
<1>2. CASE Park
  BY <1>2 DEF Park, At, SetStatus, Goto, TypeOK, ProcessTypes, Ops, process
<1>3. CASE GatePark
  BY <1>3 DEF GatePark, At, Goto, Return, TypeOK, ProcessTypes, Ops, process
<1>4. CASE FailParked
  BY <1>4 DEF FailParked, At, SetStatus, Return, Goto, TypeOK, ProcessTypes, Ops,
      process
<1>5. CASE TryStart
  BY <1>5 DEF TryStart, At, IsHead, Goto, Return, TypeOK, ProcessTypes, Ops, process
<1>6. CASE StartDeploying
  BY <1>6 DEF StartDeploying, At, Goto, TypeOK, ProcessTypes, Ops, process
<1>7. CASE SetBuilding
  BY <1>7 DEF SetBuilding, At, SetStatus, Goto, TypeOK, ProcessTypes, Ops, process
<1>8. CASE SelectBuilder
  BY <1>8 DEF SelectBuilder, At, Goto, TypeOK, ProcessTypes, Ops, process
<1>9. CASE PublishBuild
  BY <1>9 DEF PublishBuild, At, PublishWork, Return, Goto, TypeOK, ProcessTypes,
      Ops, process
<1>10. CASE SetImage
  BY <1>10 DEF SetImage, At, Goto, TypeOK, ProcessTypes, Ops, process
<1>11. CASE SetDistributing
  BY <1>11 DEF SetDistributing, At, SetStatus, Goto, TypeOK, ProcessTypes, Ops,
      process
<1>12. CASE PublishPush
  BY <1>12 DEF PublishPush, At, PublishWork, Goto, TypeOK, ProcessTypes, Ops,
      process
<1>13. CASE PublishDistribute
  BY <1>13 DEF PublishDistribute, At, PublishWork, Return, Goto, TypeOK,
      ProcessTypes, Ops, process
<1>14. CASE SetRollingOut
  BY <1>14 DEF SetRollingOut, At, SetStatus, Goto, TypeOK, ProcessTypes, Ops,
      process
<1>15. CASE SetDesired
  BY <1>15 DEF SetDesired, At, Goto, TypeOK, ProcessTypes, Ops, process
<1>16. CASE PublishRollout
  BY <1>16 DEF PublishRollout, At, PublishWork, Return, Goto, TypeOK, ProcessTypes,
      Ops, process
<1>17. CASE EndActive
  BY <1>17 DEF EndActive, At, SetStatus, Goto, TypeOK, ProcessTypes, Ops, process
<1>18. CASE ClearDeploying
  BY <1>18 DEF ClearDeploying, At, Goto, TypeOK, ProcessTypes, Ops, process
<1>19. CASE Announce
  BY <1>19 DEF Announce, At, Goto, TypeOK, ProcessTypes, Ops, process
<1>20. CASE PromoteNext
  BY <1>20 DEF PromoteNext, At, IsHead, Goto, Return, TypeOK, ProcessTypes, Ops,
      process
<1>21. CASE Complete
  BY <1>21 DEF Complete, At, SetStatus, Goto, TypeOK, ProcessTypes, Ops, process
<1>22. ASSUME NEW d \in Dep, NEW need \in Gates, NEW imageSource \in BOOLEAN,
              Deploy(d, need, imageSource)
      PROVE  ProcessTypes'
  BY <1>22 DEF Deploy, LockFree, NewRow, SetStatus, Admitted, Goto, TypeOK,
      ProcessTypes, Ops, process
<1>23. ASSUME NEW d \in Dep, NEW s \in Dep, NEW need \in Gates,
              Rollback(d, s, need)
      PROVE  ProcessTypes'
  BY <1>23 DEF Rollback, LockFree, NewRow, SetStatus, Admitted, Goto, TypeOK,
      ProcessTypes, Ops, process
<1>24. ASSUME NEW d \in Dep, NEW need \in Gates, Promote(d, need)
      PROVE  ProcessTypes'
  BY <1>24 DEF Promote, LockFree, NewRow, SetStatus, Goto, TypeOK, ProcessTypes,
      Ops, process
<1>25. ASSUME NEW d \in Dep, NEW verdict \in {"approve", "reject"},
              DecideApproval(d, verdict)
      PROVE  ProcessTypes'
  BY <1>25 DEF DecideApproval, TypeOK, ProcessTypes, Ops, job
<1>26. ASSUME NEW d \in Dep, ApproveDeployment(d)
      PROVE  ProcessTypes'
  BY <1>26 DEF ApproveDeployment, LockFree, SetStatus, Goto, job, TypeOK,
      ProcessTypes, Ops
<1>27. ASSUME NEW d \in Dep, RejectDeployment(d)
      PROVE  ProcessTypes'
  BY <1>27 DEF RejectDeployment, LockFree, Goto, job, TypeOK, ProcessTypes, Ops
<1>28. ASSUME NEW d \in Dep, Cancel(d)
      PROVE  ProcessTypes'
  BY <1>28 DEF Cancel, LockFree, Goto, TypeOK, ProcessTypes, Ops, process
<1>29. ASSUME NEW srv \in Servers, NEW d \in Dep, NEW failed \in BOOLEAN,
               NEW stage \in {"build", "distribute", "rollout"}, HandleDeployEvent(srv, d, stage, failed)
      PROVE  ProcessTypes'
  BY <1>29 DEF HandleDeployEvent, LockFree, Goto, TypeOK, ProcessTypes, Ops, process
<1>30. ASSUME NEW state \in {"running", "error"},
               NEW r \in {NoRev} \cup {i \in Dep : image[i]}, HandleAppStatus(state, r)
      PROVE  ProcessTypes'
  BY <1>30 DEF HandleAppStatus, LockFree, Goto, job, TypeOK, ProcessTypes, Ops,
      process
<1>31. CASE CallFails
  BY <1>31 DEF CallFails, Goto, Return, TypeOK, ProcessTypes, Ops, process
<1>32. CASE Crash
  BY <1>32 DEF Crash, Return, Goto, TypeOK, ProcessTypes, Ops
<1>33. ASSUME NEW d \in Dep, DecisionFails(d)
      PROVE  ProcessTypes'
  BY <1>33 DEF DecisionFails, LockFree, TypeOK, ProcessTypes, Ops, job
<1>34. CASE Boot
  BY <1>34 DEF Boot, TypeOK, ProcessTypes, Ops, job
<1>35. ASSUME NEW d \in Dep, RecoverNext(d)
      PROVE  ProcessTypes'
  BY <1>35 DEF RecoverNext, Goto, job, TypeOK, ProcessTypes, Ops, process
<1>36. CASE UNCHANGED <<up, fault, pc, snap, deciding>>
  BY <1>36 DEF TypeOK, ProcessTypes, Ops
<1> QED
  BY <1>1, <1>2, <1>3, <1>4, <1>5, <1>6, <1>7, <1>8, <1>9, <1>10, <1>11, <1>12,
     <1>13, <1>14, <1>15, <1>16, <1>17, <1>18, <1>19, <1>20, <1>21, <1>22, <1>23,
     <1>24, <1>25, <1>26, <1>27, <1>28, <1>29, <1>30, <1>31, <1>32, <1>33, <1>34,
     <1>35, <1>36
     DEF Next, Step, Request, Report, Failure, vars, job, process

\* Every step keeps the type invariant.
LEMMA TypeStep == TypeOK /\ [Next]_vars => TypeOK'
  BY RowTypesStep, AppTypesStep, ProcessTypesStep DEF TypeOK

-----------------------------------------------------------------------------
\* Deployment rows are never deleted.
LEMMA RowsStay == IInv /\ [Next]_vars => \A x \in Dep : status[x] # "none" => status'[x] # "none"
<1> SUFFICES ASSUME IInv, [Next]_vars, NEW x \in Dep, status[x] # "none"
             PROVE  status'[x] # "none"
  OBVIOUS
<1>a. status \in [Dep -> Status \cup {"none"}]
  BY DEF IInv, TypeOK, RowTypes
<1>1. CASE Park
  BY <1>1, <1>a DEF Park, At, SetStatus, Goto
<1>2. CASE FailParked
  BY <1>2, <1>a DEF FailParked, At, SetStatus, Return, Goto
<1>3. CASE SetBuilding
  BY <1>3, <1>a DEF SetBuilding, At, SetStatus, Goto
<1>4. CASE SetDistributing
  BY <1>4, <1>a DEF SetDistributing, At, SetStatus, Goto
<1>5. CASE SetRollingOut
  BY <1>5, <1>a DEF SetRollingOut, At, SetStatus, Goto
<1>6. CASE EndActive
  BY <1>6, <1>a DEF EndActive, At, SetStatus, Goto
<1>7. CASE Complete
  BY <1>7, <1>a DEF Complete, At, SetStatus, Goto
<1>8. ASSUME NEW d \in Dep, NEW need \in Gates, NEW imageSource \in BOOLEAN,
             Deploy(d, need, imageSource)
      PROVE  status'[x] # "none"
  BY <1>8, <1>a DEF Deploy, LockFree, NewRow, SetStatus, Admitted, Goto
<1>9. ASSUME NEW d \in Dep, NEW s \in Dep, NEW need \in Gates,
             Rollback(d, s, need)
      PROVE  status'[x] # "none"
  BY <1>9, <1>a DEF Rollback, LockFree, NewRow, SetStatus, Admitted, Goto
<1>10. ASSUME NEW d \in Dep, NEW need \in Gates, Promote(d, need)
      PROVE  status'[x] # "none"
  BY <1>10, <1>a DEF Promote, LockFree, NewRow, SetStatus, Goto
<1>11. ASSUME NEW d \in Dep, ApproveDeployment(d)
      PROVE  status'[x] # "none"
  BY <1>11, <1>a DEF ApproveDeployment, LockFree, SetStatus, Goto, job
<1>12. CASE UNCHANGED <<status>>
  BY <1>12, <1>a
<1> QED
  BY <1>1, <1>2, <1>3, <1>4, <1>5, <1>6, <1>7, <1>8, <1>9, <1>10, <1>11, <1>12
     DEF Next, Step, Request, Report, Failure, vars, rows, SetArtifactServer,
         GatePark, TryStart, StartDeploying, SelectBuilder, PublishBuild, SetImage,
         PublishPush, PublishDistribute, SetDesired, PublishRollout,
         ClearDeploying, Announce, PromoteNext, DecideApproval, RejectDeployment,
         Cancel, HandleDeployEvent, HandleAppStatus, CallFails, Crash,
         DecisionFails, Boot, RecoverNext

\* Rows are created in created_at order (CreateDeployment).
LEMMA RowOrder == IInv /\ [Next]_vars =>
  \A x, y \in Dep : y < x /\ status'[x] # "none" => status'[y] # "none"
<1> SUFFICES ASSUME IInv, [Next]_vars, NEW x \in Dep, NEW y \in Dep, y < x, status'[x] # "none"
             PROVE  status'[y] # "none"
  OBVIOUS
<1>a. /\ status[x] # "none" => status[y] # "none"
      /\ status[y] # "none" => status'[y] # "none"
  BY RowsStay DEF IInv, RowsInOrder
<1>b. /\ status \in [Dep -> Status \cup {"none"}]
      /\ pc # "idle" => cur \in Dep
      /\ pc \in {"park", "failParked"} \cup StageOps => status[cur] # "none"
      /\ pc = "gatePark" => status[cur] # "none"
  BY DEF IInv, TypeOK, RowTypes, AppTypes, JobStage, JobFirst, Active, InFlight
<1>1. CASE Park
  BY <1>1, <1>a, <1>b DEF Park, At, SetStatus, Goto, StageOps
<1>2. CASE FailParked
  BY <1>2, <1>a, <1>b DEF FailParked, At, SetStatus, Return, Goto, StageOps
<1>3. CASE SetBuilding
  BY <1>3, <1>a, <1>b DEF SetBuilding, At, SetStatus, Goto, StageOps
<1>4. CASE SetDistributing
  BY <1>4, <1>a, <1>b DEF SetDistributing, At, SetStatus, Goto, StageOps
<1>5. CASE SetRollingOut
  BY <1>5, <1>a, <1>b DEF SetRollingOut, At, SetStatus, Goto, StageOps
<1>6. CASE EndActive
  BY <1>6, <1>a, <1>b DEF EndActive, At, SetStatus, Goto, StageOps
<1>7. CASE Complete
  BY <1>7, <1>a, <1>b DEF Complete, At, SetStatus, Goto, StageOps
<1>8. ASSUME NEW d \in Dep, NEW need \in Gates, NEW imageSource \in BOOLEAN,
             Deploy(d, need, imageSource)
      PROVE  status'[y] # "none"
  BY <1>8, <1>a, <1>b DEF Deploy, LockFree, NewRow, SetStatus, Admitted, Goto,
      StageOps
<1>9. ASSUME NEW d \in Dep, NEW s \in Dep, NEW need \in Gates,
             Rollback(d, s, need)
      PROVE  status'[y] # "none"
  BY <1>9, <1>a, <1>b DEF Rollback, LockFree, NewRow, SetStatus, Admitted, Goto,
      StageOps
<1>10. ASSUME NEW d \in Dep, NEW need \in Gates, Promote(d, need)
      PROVE  status'[y] # "none"
  BY <1>10, <1>a, <1>b DEF Promote, LockFree, NewRow, SetStatus, Goto, StageOps
<1>11. ASSUME NEW d \in Dep, ApproveDeployment(d)
      PROVE  status'[y] # "none"
  BY <1>11, <1>a, <1>b DEF ApproveDeployment, LockFree, SetStatus, Goto, job,
      StageOps
<1>12. CASE UNCHANGED <<status>>
  BY <1>12, <1>a, <1>b DEF StageOps
<1> QED
  BY <1>1, <1>2, <1>3, <1>4, <1>5, <1>6, <1>7, <1>8, <1>9, <1>10, <1>11, <1>12
     DEF Next, Step, Request, Report, Failure, vars, rows, SetArtifactServer,
         GatePark, TryStart, StartDeploying, SelectBuilder, PublishBuild, SetImage,
         PublishPush, PublishDistribute, SetDesired, PublishRollout,
         ClearDeploying, Announce, PromoteNext, DecideApproval, RejectDeployment,
         Cancel, HandleDeployEvent, HandleAppStatus, CallFails, Crash,
         DecisionFails, Boot, RecoverNext

\* Nothing refers to a deployment before its row exists.
LEMMA UnbornRows == IInv /\ [Next]_vars =>
  \A x \in Dep : status'[x] = "none" =>
    /\ rev'[x] = x /\ ~image'[x] /\ ~promoted'[x] /\ approval'[x] = "none" /\ ~gated'[x]
    /\ desired' # x /\ deciding'[x] = "none"
<1> DEFINE Unborn(x) == /\ rev[x] = x /\ ~image[x] /\ ~promoted[x]
                        /\ approval[x] = "none" /\ ~gated[x]
                        /\ desired # x /\ deciding[x] = "none"
<1> SUFFICES ASSUME IInv, [Next]_vars, NEW x \in Dep, status'[x] = "none"
             PROVE  Unborn(x)'
  OBVIOUS
<1>a. status[x] = "none" /\ Unborn(x)
  BY RowsStay DEF IInv, RowsInOrder
<1>t. /\ status \in [Dep -> Status \cup {"none"}] /\ rev \in [Dep -> Dep]
      /\ approval \in [Dep -> {"none", "pending", "approved", "rejected"}]
      /\ image \in [Dep -> BOOLEAN] /\ promoted \in [Dep -> BOOLEAN] /\ gated \in [Dep -> BOOLEAN]
      /\ deciding \in [Dep -> {"none", "approve", "reject"}]
      /\ pc # "idle" => cur \in Dep
  BY DEF IInv, TypeOK, RowTypes, AppTypes, ProcessTypes
<1>b. pc # "idle" /\ pc # "promoteNext" => status[cur] # "none" /\ rev[cur] # x
  BY <1>a, <1>t DEF IInv, JobStage, JobFirst, StageOps, Active, InFlight, Terminal, RowsInOrder, EndingRows, Ops, TypeOK, ProcessTypes, FirstStage
<1>1. CASE Park
  BY <1>1, <1>a, <1>b, <1>t DEF Park, At, SetStatus, Goto, appRow, history, process
<1>2. CASE GatePark
  BY <1>2, <1>a, <1>b, <1>t DEF GatePark, At, Goto, Return, appRow, history, process
<1>3. CASE FailParked
  BY <1>3, <1>a, <1>b, <1>t DEF FailParked, At, SetStatus, Return, Goto, appRow,
      process
<1>4. CASE SetBuilding
  BY <1>4, <1>a, <1>b, <1>t DEF SetBuilding, At, SetStatus, Goto, appRow, history,
      process
<1>5. CASE SetImage
  BY <1>5, <1>a, <1>b, <1>t DEF SetImage, At, Goto, appRow, history, process
<1>6. CASE SetDistributing
  BY <1>6, <1>a, <1>b, <1>t DEF SetDistributing, At, SetStatus, Goto, appRow,
      history, process
<1>7. CASE SetRollingOut
  BY <1>7, <1>a, <1>b, <1>t DEF SetRollingOut, At, SetStatus, Goto, appRow,
      history, process
<1>8. CASE SetDesired
  BY <1>8, <1>a, <1>b, <1>t DEF SetDesired, At, Goto, history, process, rows
<1>9. CASE EndActive
  BY <1>9, <1>a, <1>b, <1>t DEF EndActive, At, SetStatus, Goto, appRow, process
<1>10. CASE Complete
  BY <1>10, <1>a, <1>b, <1>t DEF Complete, At, SetStatus, Goto, appRow, process
<1>11. ASSUME NEW d \in Dep, NEW need \in Gates, NEW imageSource \in BOOLEAN,
              Deploy(d, need, imageSource)
      PROVE  Unborn(x)'
  BY <1>11, <1>a, <1>b, <1>t DEF Deploy, LockFree, NewRow, SetStatus, Admitted,
      Goto, appRow, process
<1>12. ASSUME NEW d \in Dep, NEW s \in Dep, NEW need \in Gates,
              Rollback(d, s, need)
      PROVE  Unborn(x)'
  BY <1>12, <1>a, <1>b, <1>t DEF Rollback, LockFree, NewRow, SetStatus, Admitted,
      Goto, appRow, process
<1>13. ASSUME NEW d \in Dep, NEW need \in Gates, Promote(d, need)
      PROVE  Unborn(x)'
  BY <1>13, <1>a, <1>b, <1>t DEF Promote, LockFree, NewRow, SetStatus, Goto,
      appRow, process
<1>14. ASSUME NEW d \in Dep, NEW verdict \in {"approve", "reject"},
              DecideApproval(d, verdict)
      PROVE  Unborn(x)'
  BY <1>14, <1>a, <1>b, <1>t DEF DecideApproval, appRow, history
<1>15. ASSUME NEW d \in Dep, ApproveDeployment(d)
      PROVE  Unborn(x)'
  BY <1>15, <1>a, <1>b, <1>t DEF ApproveDeployment, LockFree, SetStatus, Goto, job,
      appRow, history
<1>16. ASSUME NEW d \in Dep, RejectDeployment(d)
      PROVE  Unborn(x)'
  BY <1>16, <1>a, <1>b, <1>t DEF RejectDeployment, LockFree, Goto, job, appRow,
      history, rows
<1>17. CASE Crash
  BY <1>17, <1>a, <1>b, <1>t DEF Crash, Return, Goto, appRow, history, rows
<1>18. ASSUME NEW d \in Dep, DecisionFails(d)
      PROVE  Unborn(x)'
  BY <1>18, <1>a, <1>b, <1>t DEF DecisionFails, LockFree, appRow, history, rows
<1>19. CASE UNCHANGED <<status, rev, image, promoted, approval, gated, desired, deciding>>
  BY <1>19, <1>a, <1>b, <1>t
<1> QED
  BY <1>1, <1>2, <1>3, <1>4, <1>5, <1>6, <1>7, <1>8, <1>9, <1>10, <1>11, <1>12,
     <1>13, <1>14, <1>15, <1>16, <1>17, <1>18, <1>19
     DEF Next, Step, Request, Report, Failure, vars, appRow, history, process,
         rows, SetArtifactServer, TryStart, StartDeploying, SelectBuilder,
         PublishBuild, PublishPush, PublishDistribute, PublishRollout,
         ClearDeploying, Announce, PromoteNext, Cancel, HandleDeployEvent,
         HandleAppStatus, CallFails, Boot, RecoverNext

\* A deployment's revision belongs to an existing deployment: a rollback takes
\* the revision of a deployment that exists (RollbackAs).
LEMMA RevExists == IInv /\ [Next]_vars =>
  \A x \in Dep : status'[x] # "none" => status'[rev'[x]] # "none"
<1> SUFFICES ASSUME IInv, [Next]_vars, NEW x \in Dep, status'[x] # "none"
             PROVE  status'[rev'[x]] # "none"
  OBVIOUS
<1>a. /\ \A y \in Dep : status[y] # "none" => status[rev[y]] # "none" /\ status'[y] # "none"
      /\ status[x] = "none" => rev[x] = x
  BY RowsStay DEF IInv, RowsInOrder
<1>t. /\ status \in [Dep -> Status \cup {"none"}] /\ rev \in [Dep -> Dep]
      /\ approval \in [Dep -> {"none", "pending", "approved", "rejected"}]
      /\ image \in [Dep -> BOOLEAN] /\ promoted \in [Dep -> BOOLEAN] /\ gated \in [Dep -> BOOLEAN]
      /\ deciding \in [Dep -> {"none", "approve", "reject"}]
      /\ pc # "idle" => cur \in Dep
  BY DEF IInv, TypeOK, RowTypes, AppTypes, ProcessTypes
<1>b. /\ pc \in {"park", "failParked", "gatePark"} \cup StageOps => status[cur] # "none"
  BY DEF IInv, JobStage, JobFirst, Active, InFlight
<1>1. CASE Park
  BY <1>1, <1>a, <1>b, <1>t DEF Park, At, SetStatus, Goto, StageOps
<1>2. CASE FailParked
  BY <1>2, <1>a, <1>b, <1>t DEF FailParked, At, SetStatus, Return, Goto, StageOps
<1>3. CASE SetBuilding
  BY <1>3, <1>a, <1>b, <1>t DEF SetBuilding, At, SetStatus, Goto, StageOps
<1>4. CASE SetDistributing
  BY <1>4, <1>a, <1>b, <1>t DEF SetDistributing, At, SetStatus, Goto, StageOps
<1>5. CASE SetRollingOut
  BY <1>5, <1>a, <1>b, <1>t DEF SetRollingOut, At, SetStatus, Goto, StageOps
<1>6. CASE EndActive
  BY <1>6, <1>a, <1>b, <1>t DEF EndActive, At, SetStatus, Goto, StageOps
<1>7. CASE Complete
  BY <1>7, <1>a, <1>b, <1>t DEF Complete, At, SetStatus, Goto, StageOps
<1>8. ASSUME NEW d \in Dep, NEW need \in Gates, NEW imageSource \in BOOLEAN,
             Deploy(d, need, imageSource)
      PROVE  status'[rev'[x]] # "none"
  BY <1>8, <1>a, <1>b, <1>t DEF Deploy, LockFree, NewRow, SetStatus, Admitted,
      Goto, StageOps
<1>9. ASSUME NEW d \in Dep, NEW s \in Dep, NEW need \in Gates,
             Rollback(d, s, need)
      PROVE  status'[rev'[x]] # "none"
  BY <1>9, <1>a, <1>b, <1>t DEF Rollback, LockFree, NewRow, SetStatus, Admitted,
      Goto, StageOps
<1>10. ASSUME NEW d \in Dep, NEW need \in Gates, Promote(d, need)
      PROVE  status'[rev'[x]] # "none"
  BY <1>10, <1>a, <1>b, <1>t DEF Promote, LockFree, NewRow, SetStatus, Goto,
      StageOps
<1>11. ASSUME NEW d \in Dep, ApproveDeployment(d)
      PROVE  status'[rev'[x]] # "none"
  BY <1>11, <1>a, <1>b, <1>t DEF ApproveDeployment, LockFree, SetStatus, Goto, job,
      StageOps
<1>12. CASE UNCHANGED <<status, rev>>
  BY <1>12, <1>a, <1>b, <1>t DEF StageOps
<1> QED
  BY <1>1, <1>2, <1>3, <1>4, <1>5, <1>6, <1>7, <1>8, <1>9, <1>10, <1>11, <1>12
     DEF Next, Step, Request, Report, Failure, vars, rows, SetArtifactServer,
         GatePark, TryStart, StartDeploying, SelectBuilder, PublishBuild, SetImage,
         PublishPush, PublishDistribute, SetDesired, PublishRollout,
         ClearDeploying, Announce, PromoteNext, DecideApproval, RejectDeployment,
         Cancel, HandleDeployEvent, HandleAppStatus, CallFails, Crash,
         DecisionFails, Boot, RecoverNext

\* A revision that has an image keeps one (SetRevisionImage).
LEMMA ImageStays == IInv /\ [Next]_vars => \A r \in Dep : image[r] => image'[r]
<1> SUFFICES ASSUME IInv, [Next]_vars, NEW x \in Dep, image[x]
             PROVE  image'[x]
  OBVIOUS
<1>a. status[x] # "none"
  BY DEF IInv, RowsInOrder
<1>b. image \in [Dep -> BOOLEAN]
  BY DEF IInv, TypeOK, RowTypes
<1>1. CASE SetImage
  BY <1>1, <1>a, <1>b DEF SetImage, At, Goto
<1>2. ASSUME NEW d \in Dep, NEW need \in Gates, NEW imageSource \in BOOLEAN,
             Deploy(d, need, imageSource)
      PROVE  image'[x]
  BY <1>2, <1>a, <1>b DEF Deploy, LockFree, NewRow, SetStatus, Admitted, Goto
<1>3. ASSUME NEW d \in Dep, NEW need \in Gates, Promote(d, need)
      PROVE  image'[x]
  BY <1>3, <1>a, <1>b DEF Promote, LockFree, NewRow, SetStatus, Goto
<1>4. CASE UNCHANGED <<image>>
  BY <1>4, <1>a, <1>b
<1> QED
  BY <1>1, <1>2, <1>3, <1>4
     DEF Next, Step, Request, Report, Failure, vars, rows, SetArtifactServer, Park,
         GatePark, FailParked, TryStart, StartDeploying, SetBuilding,
         SelectBuilder, PublishBuild, SetDistributing, PublishPush,
         PublishDistribute, SetRollingOut, SetDesired, PublishRollout, EndActive,
         ClearDeploying, Announce, PromoteNext, Complete, Rollback, DecideApproval,
         ApproveDeployment, RejectDeployment, Cancel, HandleDeployEvent,
         HandleAppStatus, CallFails, Crash, DecisionFails, Boot, RecoverNext

\* Work is published, and desired state re-pointed, only by a deployment that
\* has reached the stage for it (TracesFollowStages).
LEMMA TracesStep == IInv /\ [Next]_vars => TracesFollowStages'
<1> DEFINE Traces(x) ==
      /\ status[x] \in NotStarted => work[x] = {}
      /\ status[x] \in NotShipped => desiredBy # x /\ "rollout" \notin work[x]
<1> SUFFICES ASSUME IInv, [Next]_vars, NEW x \in Dep
             PROVE  Traces(x)'
  BY DEF TracesFollowStages
<1>a. Traces(x)
  BY DEF IInv, TracesFollowStages
<1>b. /\ status \in [Dep -> Status \cup {"none"}]
      /\ work \in [Dep -> SUBSET WorkKinds]
      /\ pc # "idle" => cur \in Dep
  BY DEF IInv, TypeOK, RowTypes, AppTypes
<1>c. /\ pc \in {"park", "gatePark"} => status[cur] \in NotStarted
      /\ pc = "pubBuild" => status[cur] = "building"
      /\ pc \in {"pubPush", "pubDistribute"} => status[cur] = "distributing"
      /\ pc \in {"setDesired", "pubRollout"} => status[cur] = "rolling_out"
      /\ pc = "setDistributing" => status[cur] \in NotShipped
      /\ pc = "setBuilding" => status[cur] \in NotShipped
  BY DEF IInv, JobStage, JobFirst, NotStarted, NotShipped
<1>1. CASE Park
  BY <1>1, <1>a, <1>b, <1>c DEF Park, At, SetStatus, Goto, NotStarted, NotShipped,
      appRow
<1>2. CASE FailParked
  BY <1>2, <1>a, <1>b, <1>c DEF FailParked, At, SetStatus, Return, Goto,
      NotStarted, NotShipped, appRow
<1>3. CASE SetBuilding
  BY <1>3, <1>a, <1>b, <1>c DEF SetBuilding, At, SetStatus, Goto, NotStarted,
      NotShipped, appRow
<1>4. CASE PublishBuild
  BY <1>4, <1>a, <1>b, <1>c DEF PublishBuild, At, PublishWork, Return, Goto,
      NotStarted, NotShipped, appRow, rows
<1>5. CASE SetDistributing
  BY <1>5, <1>a, <1>b, <1>c DEF SetDistributing, At, SetStatus, Goto, NotStarted,
      NotShipped, appRow
<1>6. CASE PublishPush
  BY <1>6, <1>a, <1>b, <1>c DEF PublishPush, At, PublishWork, Goto, NotStarted,
      NotShipped, appRow, rows
<1>7. CASE PublishDistribute
  BY <1>7, <1>a, <1>b, <1>c DEF PublishDistribute, At, PublishWork, Return, Goto,
      NotStarted, NotShipped, appRow, rows
<1>8. CASE SetRollingOut
  BY <1>8, <1>a, <1>b, <1>c DEF SetRollingOut, At, SetStatus, Goto, NotStarted,
      NotShipped, appRow
<1>9. CASE SetDesired
  BY <1>9, <1>a, <1>b, <1>c DEF SetDesired, At, Goto, NotStarted, NotShipped, rows
<1>10. CASE PublishRollout
  BY <1>10, <1>a, <1>b, <1>c DEF PublishRollout, At, PublishWork, Return, Goto,
      NotStarted, NotShipped, appRow, rows
<1>11. CASE EndActive
  BY <1>11, <1>a, <1>b, <1>c DEF EndActive, At, SetStatus, Goto, NotStarted,
      NotShipped, appRow
<1>12. CASE Complete
  BY <1>12, <1>a, <1>b, <1>c DEF Complete, At, SetStatus, Goto, NotStarted,
      NotShipped, appRow
<1>13. ASSUME NEW d \in Dep, NEW need \in Gates, NEW imageSource \in BOOLEAN,
              Deploy(d, need, imageSource)
      PROVE  Traces(x)'
  BY <1>13, <1>a, <1>b, <1>c DEF Deploy, LockFree, NewRow, SetStatus, Admitted,
      Goto, NotStarted, NotShipped, appRow
<1>14. ASSUME NEW d \in Dep, NEW s \in Dep, NEW need \in Gates,
              Rollback(d, s, need)
      PROVE  Traces(x)'
  BY <1>14, <1>a, <1>b, <1>c DEF Rollback, LockFree, NewRow, SetStatus, Admitted,
      Goto, NotStarted, NotShipped, appRow
<1>15. ASSUME NEW d \in Dep, NEW need \in Gates, Promote(d, need)
      PROVE  Traces(x)'
  BY <1>15, <1>a, <1>b, <1>c DEF Promote, LockFree, NewRow, SetStatus, Goto,
      NotStarted, NotShipped, appRow
<1>16. ASSUME NEW d \in Dep, ApproveDeployment(d)
      PROVE  Traces(x)'
  BY <1>16, <1>a, <1>b, <1>c DEF ApproveDeployment, LockFree, SetStatus, Goto, job,
      NotStarted, NotShipped, appRow
<1>17. CASE UNCHANGED <<status, work, desiredBy>>
  BY <1>17, <1>a, <1>b, <1>c DEF NotStarted, NotShipped
<1> QED
  BY <1>1, <1>2, <1>3, <1>4, <1>5, <1>6, <1>7, <1>8, <1>9, <1>10, <1>11, <1>12,
     <1>13, <1>14, <1>15, <1>16, <1>17
     DEF Next, Step, Request, Report, Failure, vars, appRow, rows,
         SetArtifactServer, GatePark, TryStart, StartDeploying, SelectBuilder,
         SetImage, ClearDeploying, Announce, PromoteNext, DecideApproval,
         RejectDeployment, Cancel, HandleDeployEvent, HandleAppStatus, CallFails,
         Crash, DecisionFails, Boot, RecoverNext

\* Every step keeps what the approval rows say of the deployments (GateRows).
LEMMA GateStep == IInv /\ [Next]_vars => GateRows'
<1> DEFINE Gate(x) ==
      /\ approval[x] \in {"pending", "rejected"} =>
           status[x] \in {"awaiting_approval", "failed"} /\ work[x] = {} /\ desiredBy # x
      /\ deciding[x] = "approve" => approval[x] = "approved"
      /\ approval[x] # "none" => gated[x]
<1> SUFFICES ASSUME IInv, [Next]_vars, NEW x \in Dep
             PROVE  Gate(x)'
  BY DEF GateRows, GateRespected
<1>a. Gate(x)
  BY DEF IInv, GateRows, GateRespected
<1>t. /\ status \in [Dep -> Status \cup {"none"}] /\ rev \in [Dep -> Dep]
      /\ approval \in [Dep -> {"none", "pending", "approved", "rejected"}]
      /\ image \in [Dep -> BOOLEAN] /\ promoted \in [Dep -> BOOLEAN] /\ gated \in [Dep -> BOOLEAN]
      /\ deciding \in [Dep -> {"none", "approve", "reject"}]
      /\ pc # "idle" => cur \in Dep
  BY DEF IInv, TypeOK, RowTypes, AppTypes, ProcessTypes
<1>b. /\ work \in [Dep -> SUBSET WorkKinds]
      /\ status[x] \in NotStarted => work[x] = {} /\ desiredBy # x
      /\ status[x] = "none" => approval[x] = "none"
  BY DEF IInv, TypeOK, AppTypes, TracesFollowStages, NotShipped, RowsInOrder
<1>c. /\ pc \in StageOps => status[cur] \in Active
      /\ pc = "park" => approval[cur] = "none" /\ gated[cur]
      /\ pc = "gatePark" => status[cur] = "awaiting_approval" /\ approval[cur] = "none" /\ gated[cur]
  BY DEF IInv, JobStage, JobFirst
<1>1. CASE Park
  BY <1>1, <1>a, <1>b, <1>c, <1>t DEF Park, At, SetStatus, Goto, NotStarted,
      StageOps, Active, InFlight, appRow, history, process
<1>2. CASE GatePark
  BY <1>2, <1>a, <1>b, <1>c, <1>t DEF GatePark, At, Goto, Return, NotStarted,
      StageOps, Active, InFlight, appRow, history, process
<1>3. CASE FailParked
  BY <1>3, <1>a, <1>b, <1>c, <1>t DEF FailParked, At, SetStatus, Return, Goto,
      NotStarted, StageOps, Active, InFlight, appRow, process
<1>4. CASE SetBuilding
  BY <1>4, <1>a, <1>b, <1>c, <1>t DEF SetBuilding, At, SetStatus, Goto, NotStarted,
      StageOps, Active, InFlight, appRow, history, process
<1>5. CASE PublishBuild
  BY <1>5, <1>a, <1>b, <1>c, <1>t DEF PublishBuild, At, PublishWork, Return, Goto,
      NotStarted, StageOps, Active, InFlight, appRow, history, process, rows
<1>6. CASE SetDistributing
  BY <1>6, <1>a, <1>b, <1>c, <1>t DEF SetDistributing, At, SetStatus, Goto,
      NotStarted, StageOps, Active, InFlight, appRow, history, process
<1>7. CASE PublishPush
  BY <1>7, <1>a, <1>b, <1>c, <1>t DEF PublishPush, At, PublishWork, Goto,
      NotStarted, StageOps, Active, InFlight, appRow, history, process, rows
<1>8. CASE PublishDistribute
  BY <1>8, <1>a, <1>b, <1>c, <1>t DEF PublishDistribute, At, PublishWork, Return,
      Goto, NotStarted, StageOps, Active, InFlight, appRow, history, process, rows
<1>9. CASE SetRollingOut
  BY <1>9, <1>a, <1>b, <1>c, <1>t DEF SetRollingOut, At, SetStatus, Goto,
      NotStarted, StageOps, Active, InFlight, appRow, history, process
<1>10. CASE SetDesired
  BY <1>10, <1>a, <1>b, <1>c, <1>t DEF SetDesired, At, Goto, NotStarted, StageOps,
      Active, InFlight, history, process, rows
<1>11. CASE PublishRollout
  BY <1>11, <1>a, <1>b, <1>c, <1>t DEF PublishRollout, At, PublishWork, Return,
      Goto, NotStarted, StageOps, Active, InFlight, appRow, history, process, rows
<1>12. CASE EndActive
  BY <1>12, <1>a, <1>b, <1>c, <1>t DEF EndActive, At, SetStatus, Goto, NotStarted,
      StageOps, Active, InFlight, appRow, process
<1>13. CASE Complete
  BY <1>13, <1>a, <1>b, <1>c, <1>t DEF Complete, At, SetStatus, Goto, NotStarted,
      StageOps, Active, InFlight, appRow, process
<1>14. ASSUME NEW d \in Dep, NEW need \in Gates, NEW imageSource \in BOOLEAN,
              Deploy(d, need, imageSource)
      PROVE  Gate(x)'
  BY <1>14, <1>a, <1>b, <1>c, <1>t DEF Deploy, LockFree, NewRow, SetStatus,
      Admitted, Goto, NotStarted, StageOps, Active, InFlight, appRow, process
<1>15. ASSUME NEW d \in Dep, NEW s \in Dep, NEW need \in Gates,
              Rollback(d, s, need)
      PROVE  Gate(x)'
  BY <1>15, <1>a, <1>b, <1>c, <1>t DEF Rollback, LockFree, NewRow, SetStatus,
      Admitted, Goto, NotStarted, StageOps, Active, InFlight, appRow, process
<1>16. ASSUME NEW d \in Dep, NEW need \in Gates, Promote(d, need)
      PROVE  Gate(x)'
  BY <1>16, <1>a, <1>b, <1>c, <1>t DEF Promote, LockFree, NewRow, SetStatus, Goto,
      NotStarted, StageOps, Active, InFlight, appRow, process
<1>17. ASSUME NEW d \in Dep, NEW verdict \in {"approve", "reject"},
              DecideApproval(d, verdict)
      PROVE  Gate(x)'
  BY <1>17, <1>a, <1>b, <1>c, <1>t DEF DecideApproval, NotStarted, StageOps,
      Active, InFlight, appRow, history
<1>18. ASSUME NEW d \in Dep, ApproveDeployment(d)
      PROVE  Gate(x)'
  BY <1>18, <1>a, <1>b, <1>c, <1>t DEF ApproveDeployment, LockFree, SetStatus,
      Goto, job, NotStarted, StageOps, Active, InFlight, appRow, history
<1>19. ASSUME NEW d \in Dep, RejectDeployment(d)
      PROVE  Gate(x)'
  BY <1>19, <1>a, <1>b, <1>c, <1>t DEF RejectDeployment, LockFree, Goto, job,
      NotStarted, StageOps, Active, InFlight, appRow, history, rows
<1>20. CASE Crash
  BY <1>20, <1>a, <1>b, <1>c, <1>t DEF Crash, Return, Goto, NotStarted, StageOps,
      Active, InFlight, appRow, history, rows
<1>21. ASSUME NEW d \in Dep, DecisionFails(d)
      PROVE  Gate(x)'
  BY <1>21, <1>a, <1>b, <1>c, <1>t DEF DecisionFails, LockFree, NotStarted,
      StageOps, Active, InFlight, appRow, history, rows
<1>22. CASE UNCHANGED <<status, approval, work, desiredBy, deciding, gated>>
  BY <1>22, <1>a, <1>b, <1>c, <1>t DEF NotStarted, StageOps, Active, InFlight
<1> QED
  BY <1>1, <1>2, <1>3, <1>4, <1>5, <1>6, <1>7, <1>8, <1>9, <1>10, <1>11, <1>12,
     <1>13, <1>14, <1>15, <1>16, <1>17, <1>18, <1>19, <1>20, <1>21, <1>22
     DEF Next, Step, Request, Report, Failure, vars, appRow, history, process,
         rows, SetArtifactServer, TryStart, StartDeploying, SelectBuilder,
         SetImage, ClearDeploying, Announce, PromoteNext, Cancel,
         HandleDeployEvent, HandleAppStatus, CallFails, Boot, RecoverNext

\* Every step keeps the queue's order (QueueOrder).
LEMMA QueueStep == IInv /\ [Next]_vars => QueueOrder'
<1> SUFFICES ASSUME IInv, [Next]_vars, NEW x \in Dep, NEW y \in Dep, y < x,
                    status'[x] \in InFlight, status'[y] \in Active
             PROVE  approval'[y] = "approved"
  BY DEF QueueOrder
<1>a. status[x] \in InFlight /\ status[y] \in Active => approval[y] = "approved"
  BY DEF IInv, QueueOrder
<1>b. pc \in StageOps =>
        /\ cur \in Dep /\ status[cur] \in Active
        /\ x = cur /\ status[y] \in Active => approval[y] = "approved"
  BY DEF IInv, JobStage, JobFirst, TypeOK, AppTypes, StageOps
<1>c. /\ approval[y] \in {"pending", "rejected"} => status[y] \in {"awaiting_approval", "failed"}
      /\ deciding[y] = "approve" => approval[y] = "approved"
      /\ pc = "gatePark" => status[cur] = "awaiting_approval"
  BY DEF IInv, GateRows, GateRespected, JobStage, JobFirst
<1>d. /\ status \in [Dep -> Status \cup {"none"}]
      /\ approval \in [Dep -> {"none", "pending", "approved", "rejected"}]
  BY DEF IInv, TypeOK, RowTypes
<1>e. \A d \in Dep : status[d] = "none" /\ d < x => status[x] = "none"
  BY DEF IInv, RowsInOrder
<1>1. CASE Park
  BY <1>1, <1>a, <1>b, <1>c, <1>d, <1>e DEF Park, At, SetStatus, Goto, InFlight,
      Active, StageOps
<1>2. CASE GatePark
  BY <1>2, <1>a, <1>b, <1>c, <1>d, <1>e DEF GatePark, At, Goto, Return, InFlight,
      Active, StageOps
<1>3. CASE FailParked
  BY <1>3, <1>a, <1>b, <1>c, <1>d, <1>e DEF FailParked, At, SetStatus, Return,
      Goto, InFlight, Active, StageOps
<1>4. CASE SetBuilding
  BY <1>4, <1>a, <1>b, <1>c, <1>d, <1>e DEF SetBuilding, At, SetStatus, Goto,
      InFlight, Active, StageOps
<1>5. CASE SetDistributing
  BY <1>5, <1>a, <1>b, <1>c, <1>d, <1>e DEF SetDistributing, At, SetStatus, Goto,
      InFlight, Active, StageOps
<1>6. CASE SetRollingOut
  BY <1>6, <1>a, <1>b, <1>c, <1>d, <1>e DEF SetRollingOut, At, SetStatus, Goto,
      InFlight, Active, StageOps
<1>7. CASE EndActive
  BY <1>7, <1>a, <1>b, <1>c, <1>d, <1>e DEF EndActive, At, SetStatus, Goto,
      InFlight, Active, StageOps
<1>8. CASE Complete
  BY <1>8, <1>a, <1>b, <1>c, <1>d, <1>e DEF Complete, At, SetStatus, Goto,
      InFlight, Active, StageOps
<1>9. ASSUME NEW d \in Dep, NEW need \in Gates, NEW imageSource \in BOOLEAN,
             Deploy(d, need, imageSource)
      PROVE  approval'[y] = "approved"
  BY <1>9, <1>a, <1>b, <1>c, <1>d, <1>e DEF Deploy, LockFree, NewRow, SetStatus,
      Admitted, Goto, InFlight, Active, StageOps
<1>10. ASSUME NEW d \in Dep, NEW s \in Dep, NEW need \in Gates,
              Rollback(d, s, need)
      PROVE  approval'[y] = "approved"
  BY <1>10, <1>a, <1>b, <1>c, <1>d, <1>e DEF Rollback, LockFree, NewRow, SetStatus,
      Admitted, Goto, InFlight, Active, StageOps
<1>11. ASSUME NEW d \in Dep, NEW need \in Gates, Promote(d, need)
      PROVE  approval'[y] = "approved"
  BY <1>11, <1>a, <1>b, <1>c, <1>d, <1>e DEF Promote, LockFree, NewRow, SetStatus,
      Goto, InFlight, Active, StageOps
<1>12. ASSUME NEW d \in Dep, NEW verdict \in {"approve", "reject"},
              DecideApproval(d, verdict)
      PROVE  approval'[y] = "approved"
  BY <1>12, <1>a, <1>b, <1>c, <1>d, <1>e DEF DecideApproval, InFlight, Active,
      StageOps
<1>13. ASSUME NEW d \in Dep, ApproveDeployment(d)
      PROVE  approval'[y] = "approved"
  BY <1>13, <1>a, <1>b, <1>c, <1>d, <1>e DEF ApproveDeployment, LockFree,
      SetStatus, Goto, job, InFlight, Active, StageOps
<1>14. CASE UNCHANGED <<status, approval>>
  BY <1>14, <1>a, <1>b, <1>c, <1>d, <1>e DEF InFlight, Active, StageOps
<1> QED
  BY <1>1, <1>2, <1>3, <1>4, <1>5, <1>6, <1>7, <1>8, <1>9, <1>10, <1>11, <1>12,
     <1>13, <1>14
     DEF Next, Step, Request, Report, Failure, vars, rows, SetArtifactServer,
         TryStart, StartDeploying, SelectBuilder, PublishBuild, SetImage,
         PublishPush, PublishDistribute, SetDesired, PublishRollout,
         ClearDeploying, Announce, PromoteNext, RejectDeployment, Cancel,
         HandleDeployEvent, HandleAppStatus, CallFails, Crash, DecisionFails, Boot,
         RecoverNext

\* Every step keeps the image of what is distributed, rolled out or desired
\* (ImageRows).
LEMMA ImageStep == IInv /\ [Next]_vars => ImageRows'
<1> DEFINE Built(x) == /\ status[x] \in {"distributing", "rolling_out"} => image[rev[x]]
                       /\ promoted[x] => image[x]
                       /\ desired = x => image[x]
<1> SUFFICES ASSUME IInv, [Next]_vars, NEW x \in Dep
             PROVE  Built(x)'
  BY TypeStep DEF IInv, ImageRows, DesiredIsBuilt, TypeOK, AppTypes, Dep, NoRev
<1>a. Built(x) /\ \A r \in Dep : image[r] => image'[r]
  BY ImageStays DEF IInv, ImageRows, DesiredIsBuilt, Dep, NoRev
<1>t. /\ status \in [Dep -> Status \cup {"none"}] /\ rev \in [Dep -> Dep]
      /\ approval \in [Dep -> {"none", "pending", "approved", "rejected"}]
      /\ image \in [Dep -> BOOLEAN] /\ promoted \in [Dep -> BOOLEAN] /\ gated \in [Dep -> BOOLEAN]
      /\ deciding \in [Dep -> {"none", "approve", "reject"}]
      /\ pc # "idle" => cur \in Dep
  BY DEF IInv, TypeOK, RowTypes, AppTypes, ProcessTypes
<1>c. /\ pc \in {"setDistributing", "setRollingOut"} => image[rev[cur]]
      /\ pc \in {"setDesired"} => status[cur] = "rolling_out"
      /\ pc \in {"setDesired"} => image[rev[cur]]
  BY <1>t DEF IInv, JobStage, JobFirst, ImageRows
<1>1. CASE Park
  BY <1>1, <1>a, <1>c, <1>t DEF Park, At, SetStatus, Goto, appRow
<1>2. CASE FailParked
  BY <1>2, <1>a, <1>c, <1>t DEF FailParked, At, SetStatus, Return, Goto, appRow
<1>3. CASE SetBuilding
  BY <1>3, <1>a, <1>c, <1>t DEF SetBuilding, At, SetStatus, Goto, appRow
<1>4. CASE SetImage
  BY <1>4, <1>a, <1>c, <1>t DEF SetImage, At, Goto, appRow
<1>5. CASE SetDistributing
  BY <1>5, <1>a, <1>c, <1>t DEF SetDistributing, At, SetStatus, Goto, appRow
<1>6. CASE SetRollingOut
  BY <1>6, <1>a, <1>c, <1>t DEF SetRollingOut, At, SetStatus, Goto, appRow
<1>7. CASE SetDesired
  BY <1>7, <1>a, <1>c, <1>t DEF SetDesired, At, Goto, rows
<1>8. CASE EndActive
  BY <1>8, <1>a, <1>c, <1>t DEF EndActive, At, SetStatus, Goto, appRow
<1>9. CASE Complete
  BY <1>9, <1>a, <1>c, <1>t DEF Complete, At, SetStatus, Goto, appRow
<1>10. ASSUME NEW d \in Dep, NEW need \in Gates, NEW imageSource \in BOOLEAN,
              Deploy(d, need, imageSource)
      PROVE  Built(x)'
  BY <1>10, <1>a, <1>c, <1>t DEF Deploy, LockFree, NewRow, SetStatus, Admitted,
      Goto, appRow
<1>11. ASSUME NEW d \in Dep, NEW s \in Dep, NEW need \in Gates,
              Rollback(d, s, need)
      PROVE  Built(x)'
  BY <1>11, <1>a, <1>c, <1>t DEF Rollback, LockFree, NewRow, SetStatus, Admitted,
      Goto, appRow
<1>12. ASSUME NEW d \in Dep, NEW need \in Gates, Promote(d, need)
      PROVE  Built(x)'
  BY <1>12, <1>a, <1>c, <1>t DEF Promote, LockFree, NewRow, SetStatus, Goto, appRow
<1>13. ASSUME NEW d \in Dep, ApproveDeployment(d)
      PROVE  Built(x)'
  BY <1>13, <1>a, <1>c, <1>t DEF ApproveDeployment, LockFree, SetStatus, Goto, job,
      appRow
<1>14. CASE UNCHANGED <<status, rev, image, promoted, desired>>
  BY <1>14, <1>a, <1>c, <1>t
<1> QED
  BY <1>1, <1>2, <1>3, <1>4, <1>5, <1>6, <1>7, <1>8, <1>9, <1>10, <1>11, <1>12,
     <1>13, <1>14
     DEF Next, Step, Request, Report, Failure, vars, appRow, rows,
         SetArtifactServer, GatePark, TryStart, StartDeploying, SelectBuilder,
         PublishBuild, PublishPush, PublishDistribute, PublishRollout,
         ClearDeploying, Announce, PromoteNext, DecideApproval, RejectDeployment,
         Cancel, HandleDeployEvent, HandleAppStatus, CallFails, Crash,
         DecisionFails, Boot, RecoverNext

\* Every step keeps how deployments ended, and what was announced, in line
\* with their rows (EndingRows).
LEMMA EndingStep == IInv /\ [Next]_vars => EndingRows'
<1> DEFINE Ending(x) ==
      /\ ended[x] = "none" <=> status[x] \notin Terminal
      /\ status[x] = "succeeded" <=> ended[x] = "succeeded"
      /\ ended[x] = "none" => emitted[x] = 0
      /\ ended[x] \in {"withdrawn", "cancelled"} =>
           desiredBy # x /\ emitted[x] = 0 /\ "rollout" \notin work[x]
      /\ emitted[x] <= 1
      /\ emitted[x] = 1 => ended[x] = status[x] /\ status[x] \in Terminal
<1> SUFFICES ASSUME IInv, [Next]_vars, NEW x \in Dep
             PROVE  Ending(x)'
  BY DEF EndingRows, CancelIsHonest, AnnouncedOnce
<1>a. Ending(x)
  BY DEF IInv, EndingRows, CancelIsHonest, AnnouncedOnce
<1>b. /\ status \in [Dep -> Status \cup {"none"}] /\ work \in [Dep -> SUBSET WorkKinds]
      /\ ended \in [Dep -> Endings \cup {"none"}] /\ emitted \in [Dep -> Nat]
      /\ pc # "idle" => cur \in Dep
  BY DEF IInv, TypeOK, RowTypes, AppTypes
<1>c. /\ pc \in StageOps => status[cur] \in Active
      /\ pc = "park" => status[cur] = "queued"
      /\ pc = "failParked" => status[cur] \in {"queued", "awaiting_approval"}
      /\ pc = "endCancelled" => status[cur] \in {"building", "distributing"}
      /\ pc = "announce" => ended[cur] \in {"failed", "succeeded"} /\ emitted[cur] = 0
      /\ status[x] \in NotShipped => desiredBy # x /\ "rollout" \notin work[x]
  BY DEF IInv, JobStage, JobFirst, TracesFollowStages
<1>1. CASE Park
  BY <1>1, <1>a, <1>b, <1>c DEF Park, At, SetStatus, Goto, Terminal, NotShipped,
      NotStarted, StageOps, Active, InFlight, appRow, history
<1>2. CASE FailParked
  BY <1>2, <1>a, <1>b, <1>c DEF FailParked, At, SetStatus, Return, Goto, Terminal,
      NotShipped, NotStarted, StageOps, Active, InFlight, appRow
<1>3. CASE SetBuilding
  BY <1>3, <1>a, <1>b, <1>c DEF SetBuilding, At, SetStatus, Goto, Terminal,
      NotShipped, NotStarted, StageOps, Active, InFlight, appRow, history
<1>4. CASE PublishBuild
  BY <1>4, <1>a, <1>b, <1>c DEF PublishBuild, At, PublishWork, Return, Goto,
      Terminal, NotShipped, NotStarted, StageOps, Active, InFlight, appRow,
      history, rows
<1>5. CASE SetDistributing
  BY <1>5, <1>a, <1>b, <1>c DEF SetDistributing, At, SetStatus, Goto, Terminal,
      NotShipped, NotStarted, StageOps, Active, InFlight, appRow, history
<1>6. CASE PublishPush
  BY <1>6, <1>a, <1>b, <1>c DEF PublishPush, At, PublishWork, Goto, Terminal,
      NotShipped, NotStarted, StageOps, Active, InFlight, appRow, history, rows
<1>7. CASE PublishDistribute
  BY <1>7, <1>a, <1>b, <1>c DEF PublishDistribute, At, PublishWork, Return, Goto,
      Terminal, NotShipped, NotStarted, StageOps, Active, InFlight, appRow,
      history, rows
<1>8. CASE SetRollingOut
  BY <1>8, <1>a, <1>b, <1>c DEF SetRollingOut, At, SetStatus, Goto, Terminal,
      NotShipped, NotStarted, StageOps, Active, InFlight, appRow, history
<1>9. CASE SetDesired
  BY <1>9, <1>a, <1>b, <1>c DEF SetDesired, At, Goto, Terminal, NotShipped,
      NotStarted, StageOps, Active, InFlight, history, rows
<1>10. CASE PublishRollout
  BY <1>10, <1>a, <1>b, <1>c DEF PublishRollout, At, PublishWork, Return, Goto,
      Terminal, NotShipped, NotStarted, StageOps, Active, InFlight, appRow,
      history, rows
<1>11. CASE EndActive
  BY <1>11, <1>a, <1>b, <1>c DEF EndActive, At, SetStatus, Goto, Terminal,
      NotShipped, NotStarted, StageOps, Active, InFlight, appRow
<1>12. CASE Announce
  BY <1>12, <1>a, <1>b, <1>c DEF Announce, At, Goto, Terminal, NotShipped,
      NotStarted, StageOps, Active, InFlight, appRow, history, rows
<1>13. CASE Complete
  BY <1>13, <1>a, <1>b, <1>c DEF Complete, At, SetStatus, Goto, Terminal,
      NotShipped, NotStarted, StageOps, Active, InFlight, appRow
<1>14. ASSUME NEW d \in Dep, NEW need \in Gates, NEW imageSource \in BOOLEAN,
              Deploy(d, need, imageSource)
      PROVE  Ending(x)'
  BY <1>14, <1>a, <1>b, <1>c DEF Deploy, LockFree, NewRow, SetStatus, Admitted,
      Goto, Terminal, NotShipped, NotStarted, StageOps, Active, InFlight, appRow
<1>15. ASSUME NEW d \in Dep, NEW s \in Dep, NEW need \in Gates,
              Rollback(d, s, need)
      PROVE  Ending(x)'
  BY <1>15, <1>a, <1>b, <1>c DEF Rollback, LockFree, NewRow, SetStatus, Admitted,
      Goto, Terminal, NotShipped, NotStarted, StageOps, Active, InFlight, appRow
<1>16. ASSUME NEW d \in Dep, NEW need \in Gates, Promote(d, need)
      PROVE  Ending(x)'
  BY <1>16, <1>a, <1>b, <1>c DEF Promote, LockFree, NewRow, SetStatus, Goto,
      Terminal, NotShipped, NotStarted, StageOps, Active, InFlight, appRow
<1>17. ASSUME NEW d \in Dep, ApproveDeployment(d)
      PROVE  Ending(x)'
  BY <1>17, <1>a, <1>b, <1>c DEF ApproveDeployment, LockFree, SetStatus, Goto, job,
      Terminal, NotShipped, NotStarted, StageOps, Active, InFlight, appRow, history
<1>18. CASE UNCHANGED <<status, ended, emitted, desiredBy, work>>
  BY <1>18, <1>a, <1>b, <1>c DEF Terminal, NotShipped, NotStarted, StageOps,
      Active, InFlight
<1> QED
  BY <1>1, <1>2, <1>3, <1>4, <1>5, <1>6, <1>7, <1>8, <1>9, <1>10, <1>11, <1>12,
     <1>13, <1>14, <1>15, <1>16, <1>17, <1>18
     DEF Next, Step, Request, Report, Failure, vars, appRow, history, rows,
         SetArtifactServer, GatePark, TryStart, StartDeploying, SelectBuilder,
         SetImage, ClearDeploying, PromoteNext, DecideApproval, RejectDeployment,
         Cancel, HandleDeployEvent, HandleAppStatus, CallFails, Crash,
         DecisionFails, Boot, RecoverNext

\* The handler that holds the lock finds its row where it left it (JobStage).
LEMMA StageStep == IInv /\ [Next]_vars => JobStage'
<1> SUFFICES ASSUME IInv, [Next]_vars
             PROVE  JobStage'
  OBVIOUS
<1>a. JobStage
  BY DEF IInv
<1>t. /\ status \in [Dep -> Status \cup {"none"}] /\ rev \in [Dep -> Dep]
      /\ approval \in [Dep -> {"none", "pending", "approved", "rejected"}]
      /\ image \in [Dep -> BOOLEAN] /\ promoted \in [Dep -> BOOLEAN] /\ gated \in [Dep -> BOOLEAN]
      /\ deciding \in [Dep -> {"none", "approve", "reject"}]
      /\ pc # "idle" => cur \in Dep
  BY DEF IInv, TypeOK, RowTypes, AppTypes, ProcessTypes
<1>b. /\ ended \in [Dep -> Endings \cup {"none"}] /\ emitted \in [Dep -> Nat]
      /\ \A y \in Dep : snap[y] \in InFlight \cup {"queued", "none"}
  BY DEF IInv, TypeOK, RowTypes, ProcessTypes, Active
<1>c. \A y \in Dep : /\ snap[y] \in InFlight => status[y] = snap[y]
                     /\ snap[y] = "queued" => status[y] \in Terminal \cup {"queued", FirstStage(y)}
  BY DEF IInv, SnapStatus
<1>d. \A y \in Dep : status[y] \in {"distributing", "rolling_out"} => image[rev[y]]
  BY DEF IInv, ImageRows
<1>g. \A y \in Dep : promoted[y] => image[y]
  BY DEF IInv, ImageRows
<1>h. \A y \in Dep : status[y] = "none" => approval[y] = "none"
  BY DEF IInv, RowsInOrder
<1>i. \A y \in Dep : status[y] \notin Terminal => ended[y] = "none" /\ emitted[y] = 0
  BY DEF IInv, EndingRows
<1>e. pc \in StageOps => ended[cur] = "none" /\ emitted[cur] = 0
  <2>1. pc \in StageOps => cur \in Dep /\ status[cur] \in Active
    BY <1>a, <1>t DEF JobStage, StageOps
  <2> QED
    BY <1>i, <2>1 DEF Active, InFlight, Terminal
<1>1. ASSUME NEW srv \in Servers, SetArtifactServer(srv)
      PROVE  JobStage'
  BY <1>1, <1>a, <1>b, <1>c, <1>d, <1>e, <1>t DEF SetArtifactServer, At, Admitted,
      Goto, JobStage, FirstStage, StageOps, Active, InFlight, Terminal, history
<1>2. CASE Park
  BY <1>2, <1>a, <1>b, <1>c, <1>d, <1>e, <1>t DEF Park, At, SetStatus, Goto,
      JobStage, FirstStage, StageOps, Active, InFlight, Terminal, history
<1>3. CASE GatePark
  BY <1>3, <1>a, <1>b, <1>c, <1>d, <1>e, <1>t DEF GatePark, At, Goto, Return,
      JobStage, FirstStage, StageOps, Active, InFlight, Terminal, history
<1>4. CASE FailParked
  BY <1>4, <1>a, <1>b, <1>c, <1>d, <1>e, <1>t DEF FailParked, At, SetStatus,
      Return, Goto, JobStage, FirstStage, StageOps, Active, InFlight, Terminal
<1>5. CASE TryStart
  BY <1>5, <1>a, <1>b, <1>c, <1>d, <1>e, <1>t DEF TryStart, At, IsHead, Goto,
      Return, JobStage, FirstStage, StageOps, Active, InFlight, Terminal, history,
      rows
<1>6. CASE StartDeploying
  <2>1. /\ pc = "setDeploying" /\ cur' = cur /\ cur \in Dep /\ status[cur] \in Active
        /\ UNCHANGED rows
        /\ \/ pc' = "endActive"
           \/ pc' = "setDistributing" /\ promoted[rev[cur]]
           \/ pc' = "setRollingOut" /\ ~promoted[rev[cur]] /\ image[rev[cur]]
           \/ pc' = "setBuilding" /\ ~promoted[rev[cur]] /\ ~image[rev[cur]]
    BY <1>6, <1>a, <1>t DEF StartDeploying, At, Goto, JobStage, StageOps
  <2>2. /\ status[cur] \in {"queued", FirstStage(cur)} /\ rev[cur] \in Dep
        /\ promoted[rev[cur]] => image[rev[cur]]
    BY <1>a, <1>g, <1>t, <2>1 DEF JobStage
  <2> QED
    BY <2>1, <2>2 DEF JobStage, FirstStage, StageOps, rows
<1>7. CASE SetBuilding
  BY <1>7, <1>a, <1>b, <1>c, <1>d, <1>e, <1>t DEF SetBuilding, At, SetStatus, Goto,
      JobStage, FirstStage, StageOps, Active, InFlight, Terminal, history
<1>8. CASE SelectBuilder
  BY <1>8, <1>a, <1>b, <1>c, <1>d, <1>e, <1>t DEF SelectBuilder, At, Goto,
      JobStage, FirstStage, StageOps, Active, InFlight, Terminal, history
<1>9. CASE PublishBuild
  BY <1>9, <1>a, <1>b, <1>c, <1>d, <1>e, <1>t DEF PublishBuild, At, PublishWork,
      Return, Goto, JobStage, FirstStage, StageOps, Active, InFlight, Terminal,
      history, rows
<1>10. CASE SetImage
  BY <1>10, <1>a, <1>b, <1>c, <1>d, <1>e, <1>t DEF SetImage, At, Goto, JobStage,
      FirstStage, StageOps, Active, InFlight, Terminal, history
<1>11. CASE SetDistributing
  BY <1>11, <1>a, <1>b, <1>c, <1>d, <1>e, <1>t DEF SetDistributing, At, SetStatus,
      Goto, JobStage, FirstStage, StageOps, Active, InFlight, Terminal, history
<1>12. CASE PublishPush
  BY <1>12, <1>a, <1>b, <1>c, <1>d, <1>e, <1>t DEF PublishPush, At, PublishWork,
      Goto, JobStage, FirstStage, StageOps, Active, InFlight, Terminal, history,
      rows
<1>13. CASE PublishDistribute
  BY <1>13, <1>a, <1>b, <1>c, <1>d, <1>e, <1>t DEF PublishDistribute, At,
      PublishWork, Return, Goto, JobStage, FirstStage, StageOps, Active, InFlight,
      Terminal, history, rows
<1>14. CASE SetRollingOut
  BY <1>14, <1>a, <1>b, <1>c, <1>d, <1>e, <1>t DEF SetRollingOut, At, SetStatus,
      Goto, JobStage, FirstStage, StageOps, Active, InFlight, Terminal, history
<1>15. CASE SetDesired
  BY <1>15, <1>a, <1>b, <1>c, <1>d, <1>e, <1>t DEF SetDesired, At, Goto, JobStage,
      FirstStage, StageOps, Active, InFlight, Terminal, history, rows
<1>16. CASE PublishRollout
  BY <1>16, <1>a, <1>b, <1>c, <1>d, <1>e, <1>t DEF PublishRollout, At, PublishWork,
      Return, Goto, JobStage, FirstStage, StageOps, Active, InFlight, Terminal,
      history, rows
<1>17. CASE EndActive
  BY <1>17, <1>a, <1>b, <1>c, <1>d, <1>e, <1>t DEF EndActive, At, SetStatus, Goto,
      JobStage, FirstStage, StageOps, Active, InFlight, Terminal
<1>18. CASE ClearDeploying
  BY <1>18, <1>a, <1>b, <1>c, <1>d, <1>e, <1>t DEF ClearDeploying, At, Goto,
      JobStage, FirstStage, StageOps, Active, InFlight, Terminal, history, rows
<1>19. CASE Announce
  BY <1>19, <1>a, <1>b, <1>c, <1>d, <1>e, <1>t DEF Announce, At, Goto, JobStage,
      FirstStage, StageOps, Active, InFlight, Terminal, history, rows
<1>20. CASE PromoteNext
  BY <1>20, <1>a, <1>b, <1>c, <1>d, <1>e, <1>t DEF PromoteNext, At, IsHead, Goto,
      Return, JobStage, FirstStage, StageOps, Active, InFlight, Terminal, history,
      rows
<1>21. CASE Complete
  BY <1>21, <1>a, <1>b, <1>c, <1>d, <1>e, <1>t DEF Complete, At, SetStatus, Goto,
      JobStage, FirstStage, StageOps, Active, InFlight, Terminal
<1>22. ASSUME NEW d \in Dep, NEW need \in Gates, NEW imageSource \in BOOLEAN,
              Deploy(d, need, imageSource)
      PROVE  JobStage'
  <2>1. /\ cur' = d /\ pc' \in {"park", "tryStart"} /\ (pc' = "park" => need)
        /\ status'[d] = "queued" /\ approval'[d] = "none" /\ gated'[d] = need
    BY <1>22, <1>h, <1>t DEF Deploy, NewRow, SetStatus, Admitted, Goto
  <2> QED
    BY <2>1 DEF JobStage, StageOps
<1>23. ASSUME NEW d \in Dep, NEW s \in Dep, NEW need \in Gates,
              Rollback(d, s, need)
      PROVE  JobStage'
  <2>1. /\ cur' = d /\ pc' \in {"park", "tryStart"} /\ (pc' = "park" => need)
        /\ status'[d] = "queued" /\ approval'[d] = "none" /\ gated'[d] = need
    BY <1>23, <1>h, <1>t DEF Rollback, NewRow, SetStatus, Admitted, Goto
  <2> QED
    BY <2>1 DEF JobStage, StageOps
<1>24. ASSUME NEW d \in Dep, NEW need \in Gates, Promote(d, need)
      PROVE  JobStage'
  <2>1. /\ cur' = d /\ pc' \in {"setArtifact"} /\ (pc' = "park" => need)
        /\ status'[d] = "queued" /\ approval'[d] = "none" /\ gated'[d] = need
    BY <1>24, <1>h, <1>t DEF Promote, NewRow, SetStatus, Goto
  <2> QED
    BY <2>1 DEF JobStage, StageOps
<1>25. ASSUME NEW d \in Dep, NEW verdict \in {"approve", "reject"},
              DecideApproval(d, verdict)
      PROVE  JobStage'
  BY <1>25, <1>a, <1>b, <1>c, <1>d, <1>e, <1>t DEF DecideApproval, JobStage,
      FirstStage, StageOps, Active, InFlight, Terminal, history, job
<1>26. ASSUME NEW d \in Dep, ApproveDeployment(d)
      PROVE  JobStage'
  BY <1>26, <1>a, <1>b, <1>c, <1>d, <1>e, <1>t DEF ApproveDeployment, LockFree,
      SetStatus, Goto, job, JobStage, FirstStage, StageOps, Active, InFlight,
      Terminal, history
<1>27. ASSUME NEW d \in Dep, RejectDeployment(d)
      PROVE  JobStage'
  BY <1>27, <1>a, <1>b, <1>c, <1>d, <1>e, <1>t DEF RejectDeployment, LockFree,
      Goto, job, JobStage, FirstStage, StageOps, Active, InFlight, Terminal,
      history, rows
<1>28. ASSUME NEW d \in Dep, Cancel(d)
      PROVE  JobStage'
  BY <1>28, <1>a, <1>b, <1>c, <1>d, <1>e, <1>t DEF Cancel, LockFree, Goto,
      JobStage, FirstStage, StageOps, Active, InFlight, Terminal, history, rows
<1>29. ASSUME NEW srv \in Servers, NEW d \in Dep, NEW failed \in BOOLEAN,
               NEW stage \in {"build", "distribute", "rollout"}, HandleDeployEvent(srv, d, stage, failed)
      PROVE  JobStage'
  <2>1. /\ cur' = d /\ UNCHANGED rows
        /\ \/ pc' = "endActive" /\ status[d] \in InFlight
           \/ pc' = "setImage" /\ status[d] = "building"
           \/ pc' = "setRollingOut" /\ status[d] = "distributing"
    BY <1>29 DEF HandleDeployEvent, Goto, InFlight
  <2>2. status[d] = "distributing" => image[rev[d]]
    BY <1>d
  <2> QED
    BY <2>1, <2>2 DEF JobStage, StageOps, Active, InFlight, rows
<1>30. ASSUME NEW state \in {"running", "error"},
               NEW r \in {NoRev} \cup {i \in Dep : image[i]}, HandleAppStatus(state, r)
      PROVE  JobStage'
  BY <1>30, <1>a, <1>b, <1>c, <1>d, <1>e, <1>t DEF HandleAppStatus, LockFree, Goto,
      job, JobStage, FirstStage, StageOps, Active, InFlight, Terminal, history, rows
<1>31. CASE CallFails
  BY <1>31, <1>a, <1>b, <1>c, <1>d, <1>e, <1>t DEF CallFails, Goto, Return,
      JobStage, FirstStage, StageOps, Active, InFlight, Terminal, history, rows
<1>32. CASE Crash
  BY <1>32, <1>a, <1>b, <1>c, <1>d, <1>e, <1>t DEF Crash, Return, Goto, JobStage,
      FirstStage, StageOps, Active, InFlight, Terminal, history, rows
<1>33. ASSUME NEW d \in Dep, RecoverNext(d)
      PROVE  JobStage'
  <2>1. CASE UNCHANGED job
    BY <1>33, <1>a, <2>1 DEF RecoverNext, JobStage, FirstStage, rows, job, history
  <2>2. CASE cur' = d
    <3>1. /\ cur' = d /\ UNCHANGED rows
          /\ \/ pc' = "tryStart" /\ snap[d] = "queued"
             \/ pc' = "pubBuild" /\ snap[d] = "building"
             \/ pc' = "setDistributing" /\ snap[d] = "distributing"
             \/ pc' = "setRollingOut" /\ snap[d] = "rolling_out"
             \/ UNCHANGED job
      BY <1>33, <1>b, <2>2 DEF RecoverNext, Goto, InFlight
    <3>2. /\ snap[d] \in InFlight => status[d] = snap[d]
          /\ snap[d] = "queued" => status[d] \in Terminal \cup {"queued", FirstStage(d)}
      BY <1>c
    <3>3. status[d] \in {"distributing", "rolling_out"} => image[rev[d]]
      BY <1>d
    <3> QED
      BY <2>1, <3>1, <3>2, <3>3 DEF JobStage, FirstStage, StageOps, Active, InFlight, rows
  <2> QED
    BY <1>33, <2>1, <2>2 DEF RecoverNext, Goto
<1>34. CASE UNCHANGED <<status, approval, gated, image, rev, promoted, ended, emitted, pc, cur>>
  BY <1>34, <1>a, <1>b, <1>c, <1>d, <1>e, <1>t DEF JobStage, FirstStage, StageOps,
      Active, InFlight, Terminal
<1> QED
  BY <1>1, <1>2, <1>3, <1>4, <1>5, <1>6, <1>7, <1>8, <1>9, <1>10, <1>11, <1>12,
     <1>13, <1>14, <1>15, <1>16, <1>17, <1>18, <1>19, <1>20, <1>21, <1>22, <1>23,
     <1>24, <1>25, <1>26, <1>27, <1>28, <1>29, <1>30, <1>31, <1>32, <1>33, <1>34
     DEF Next, Step, Request, Report, Failure, vars, history, job, rows,
         DecisionFails, Boot

\* A handler that drives a stage has passed the queue (JobFirst).
LEMMA FirstStep == IInv /\ [Next]_vars => JobFirst'
<1> SUFFICES ASSUME IInv, [Next]_vars, pc' \in StageOps,
                    NEW x \in Dep, x < cur', status'[x] \in Active
             PROVE  approval'[x] = "approved"
  BY DEF JobFirst
<1>a. /\ pc \in StageOps /\ x < cur /\ status[x] \in Active => approval[x] = "approved"
      /\ \A y \in Dep : x < y /\ status[y] \in InFlight /\ status[x] \in Active
                         => approval[x] = "approved"
  BY DEF IInv, JobFirst, QueueOrder
<1>b. /\ status \in [Dep -> Status \cup {"none"}]
      /\ approval \in [Dep -> {"none", "pending", "approved", "rejected"}]
      /\ pc # "idle" => cur \in Dep
  BY DEF IInv, TypeOK, RowTypes, AppTypes
<1>c. \A y \in Dep : snap[y] \in InFlight => status[y] = snap[y]
  BY DEF IInv, SnapStatus
<1>d. \A y \in Dep : snap[y] \in InFlight \cup {"queued", "none"}
  BY DEF IInv, TypeOK, ProcessTypes, Active
<1>e. approval[x] = "pending" => status[x] \in {"awaiting_approval", "failed"}
  BY DEF IInv, GateRows, GateRespected
<1>f. \A y \in Dep : x < y => x # y /\ ~(y <= x)
  BY DEF Dep
<1>1. ASSUME NEW srv \in Servers, SetArtifactServer(srv)
      PROVE  approval'[x] = "approved"
  BY <1>1, <1>a, <1>b, <1>c, <1>d, <1>e, <1>f DEF SetArtifactServer, At, Admitted,
      Goto, StageOps, Active, InFlight
<1>2. CASE Park
  BY <1>2, <1>a, <1>b, <1>c, <1>d, <1>e, <1>f DEF Park, At, SetStatus, Goto,
      StageOps, Active, InFlight
<1>3. CASE GatePark
  BY <1>3, <1>a, <1>b, <1>c, <1>d, <1>e, <1>f DEF GatePark, At, Goto, Return,
      StageOps, Active, InFlight
<1>4. CASE FailParked
  BY <1>4, <1>a, <1>b, <1>c, <1>d, <1>e, <1>f DEF FailParked, At, SetStatus,
      Return, Goto, StageOps, Active, InFlight
<1>5. CASE TryStart
  BY <1>5, <1>a, <1>b, <1>c, <1>d, <1>e, <1>f DEF TryStart, At, IsHead, Goto,
      Return, StageOps, Active, InFlight, rows
<1>6. CASE StartDeploying
  BY <1>6, <1>a, <1>b, <1>c, <1>d, <1>e, <1>f DEF StartDeploying, At, Goto,
      StageOps, Active, InFlight, rows
<1>7. CASE SetBuilding
  BY <1>7, <1>a, <1>b, <1>c, <1>d, <1>e, <1>f DEF SetBuilding, At, SetStatus, Goto,
      StageOps, Active, InFlight
<1>8. CASE SelectBuilder
  BY <1>8, <1>a, <1>b, <1>c, <1>d, <1>e, <1>f DEF SelectBuilder, At, Goto,
      StageOps, Active, InFlight
<1>9. CASE PublishBuild
  BY <1>9, <1>a, <1>b, <1>c, <1>d, <1>e, <1>f DEF PublishBuild, At, PublishWork,
      Return, Goto, StageOps, Active, InFlight, rows
<1>10. CASE SetImage
  BY <1>10, <1>a, <1>b, <1>c, <1>d, <1>e, <1>f DEF SetImage, At, Goto, StageOps,
      Active, InFlight
<1>11. CASE SetDistributing
  BY <1>11, <1>a, <1>b, <1>c, <1>d, <1>e, <1>f DEF SetDistributing, At, SetStatus,
      Goto, StageOps, Active, InFlight
<1>12. CASE PublishPush
  BY <1>12, <1>a, <1>b, <1>c, <1>d, <1>e, <1>f DEF PublishPush, At, PublishWork,
      Goto, StageOps, Active, InFlight, rows
<1>13. CASE PublishDistribute
  BY <1>13, <1>a, <1>b, <1>c, <1>d, <1>e, <1>f DEF PublishDistribute, At,
      PublishWork, Return, Goto, StageOps, Active, InFlight, rows
<1>14. CASE SetRollingOut
  BY <1>14, <1>a, <1>b, <1>c, <1>d, <1>e, <1>f DEF SetRollingOut, At, SetStatus,
      Goto, StageOps, Active, InFlight
<1>15. CASE SetDesired
  BY <1>15, <1>a, <1>b, <1>c, <1>d, <1>e, <1>f DEF SetDesired, At, Goto, StageOps,
      Active, InFlight, rows
<1>16. CASE PublishRollout
  BY <1>16, <1>a, <1>b, <1>c, <1>d, <1>e, <1>f DEF PublishRollout, At, PublishWork,
      Return, Goto, StageOps, Active, InFlight, rows
<1>17. CASE EndActive
  BY <1>17, <1>a, <1>b, <1>c, <1>d, <1>e, <1>f DEF EndActive, At, SetStatus, Goto,
      StageOps, Active, InFlight
<1>18. CASE ClearDeploying
  BY <1>18, <1>a, <1>b, <1>c, <1>d, <1>e, <1>f DEF ClearDeploying, At, Goto,
      StageOps, Active, InFlight, rows
<1>19. CASE Announce
  BY <1>19, <1>a, <1>b, <1>c, <1>d, <1>e, <1>f DEF Announce, At, Goto, StageOps,
      Active, InFlight, rows
<1>20. CASE PromoteNext
  BY <1>20, <1>a, <1>b, <1>c, <1>d, <1>e, <1>f DEF PromoteNext, At, IsHead, Goto,
      Return, StageOps, Active, InFlight, rows
<1>21. CASE Complete
  BY <1>21, <1>a, <1>b, <1>c, <1>d, <1>e, <1>f DEF Complete, At, SetStatus, Goto,
      StageOps, Active, InFlight
<1>22. ASSUME NEW d \in Dep, NEW need \in Gates, NEW imageSource \in BOOLEAN,
              Deploy(d, need, imageSource)
      PROVE  approval'[x] = "approved"
  BY <1>22, <1>a, <1>b, <1>c, <1>d, <1>e, <1>f DEF Deploy, LockFree, NewRow,
      SetStatus, Admitted, Goto, StageOps, Active, InFlight
<1>23. ASSUME NEW d \in Dep, NEW s \in Dep, NEW need \in Gates,
              Rollback(d, s, need)
      PROVE  approval'[x] = "approved"
  BY <1>23, <1>a, <1>b, <1>c, <1>d, <1>e, <1>f DEF Rollback, LockFree, NewRow,
      SetStatus, Admitted, Goto, StageOps, Active, InFlight
<1>24. ASSUME NEW d \in Dep, NEW need \in Gates, Promote(d, need)
      PROVE  approval'[x] = "approved"
  BY <1>24, <1>a, <1>b, <1>c, <1>d, <1>e, <1>f DEF Promote, LockFree, NewRow,
      SetStatus, Goto, StageOps, Active, InFlight
<1>25. ASSUME NEW d \in Dep, NEW verdict \in {"approve", "reject"},
              DecideApproval(d, verdict)
      PROVE  approval'[x] = "approved"
  BY <1>25, <1>a, <1>b, <1>c, <1>d, <1>e, <1>f DEF DecideApproval, StageOps,
      Active, InFlight, job
<1>26. ASSUME NEW d \in Dep, ApproveDeployment(d)
      PROVE  approval'[x] = "approved"
  BY <1>26, <1>a, <1>b, <1>c, <1>d, <1>e, <1>f DEF ApproveDeployment, LockFree,
      SetStatus, Goto, job, StageOps, Active, InFlight
<1>27. ASSUME NEW d \in Dep, RejectDeployment(d)
      PROVE  approval'[x] = "approved"
  BY <1>27, <1>a, <1>b, <1>c, <1>d, <1>e, <1>f DEF RejectDeployment, LockFree,
      Goto, job, StageOps, Active, InFlight, rows
<1>28. ASSUME NEW d \in Dep, Cancel(d)
      PROVE  approval'[x] = "approved"
  BY <1>28, <1>a, <1>b, <1>c, <1>d, <1>e, <1>f DEF Cancel, LockFree, Goto,
      StageOps, Active, InFlight, rows
<1>29. ASSUME NEW srv \in Servers, NEW d \in Dep, NEW failed \in BOOLEAN,
               NEW stage \in {"build", "distribute", "rollout"}, HandleDeployEvent(srv, d, stage, failed)
      PROVE  approval'[x] = "approved"
  BY <1>29, <1>a, <1>b, <1>c, <1>d, <1>e, <1>f DEF HandleDeployEvent, LockFree,
      Goto, StageOps, Active, InFlight, rows
<1>30. ASSUME NEW state \in {"running", "error"},
               NEW r \in {NoRev} \cup {i \in Dep : image[i]}, HandleAppStatus(state, r)
      PROVE  approval'[x] = "approved"
  BY <1>30, <1>a, <1>b, <1>c, <1>d, <1>e, <1>f DEF HandleAppStatus, LockFree, Goto,
      job, StageOps, Active, InFlight, rows
<1>31. CASE CallFails
  BY <1>31, <1>a, <1>b, <1>c, <1>d, <1>e, <1>f DEF CallFails, Goto, Return,
      StageOps, Active, InFlight, rows
<1>32. CASE Crash
  BY <1>32, <1>a, <1>b, <1>c, <1>d, <1>e, <1>f DEF Crash, Return, Goto, StageOps,
      Active, InFlight, rows
<1>33. ASSUME NEW d \in Dep, RecoverNext(d)
      PROVE  approval'[x] = "approved"
  BY <1>33, <1>a, <1>b, <1>c, <1>d, <1>e, <1>f DEF RecoverNext, Goto, job,
      StageOps, Active, InFlight, rows
<1>34. CASE UNCHANGED <<status, approval, pc, cur>>
  BY <1>34, <1>a, <1>b, <1>c, <1>d, <1>e, <1>f DEF StageOps, Active, InFlight
<1> QED
  BY <1>1, <1>2, <1>3, <1>4, <1>5, <1>6, <1>7, <1>8, <1>9, <1>10, <1>11, <1>12,
     <1>13, <1>14, <1>15, <1>16, <1>17, <1>18, <1>19, <1>20, <1>21, <1>22, <1>23,
     <1>24, <1>25, <1>26, <1>27, <1>28, <1>29, <1>30, <1>31, <1>32, <1>33, <1>34
     DEF Next, Step, Request, Report, Failure, vars, job, rows, DecisionFails, Boot

\* The rows Recover has still to re-drive stay as it listed them (SnapStatus).
LEMMA SnapStep == IInv /\ [Next]_vars => SnapStatus'
<1> DEFINE Snapped(x) ==
      /\ snap[x] \in InFlight => status[x] = snap[x]
      /\ snap[x] = "queued" => status[x] \in Terminal \cup {"queued", FirstStage(x)}
<1> SUFFICES ASSUME IInv, [Next]_vars, NEW x \in Dep, snap'[x] # "none"
             PROVE  Snapped(x)'
  BY DEF SnapStatus, InFlight
<1>a. Snapped(x)
  BY DEF IInv, SnapStatus
<1>b. /\ snap[x] # "none" /\ pc # "idle" =>
           /\ pc \notin {"setArtifact", "park", "gatePark", "failParked", "setImage", "complete"}
           /\ snap[cur] \in {"none", "queued"}
           /\ snap[cur] = "queued" =>
                /\ pc = "setBuilding" => FirstStage(cur) = "building"
                /\ pc = "setDistributing" => FirstStage(cur) = "distributing"
                /\ pc = "setRollingOut" => FirstStage(cur) = "rolling_out"
      /\ snap[x] # "none" => ~LockFree
  BY DEF IInv, SnapJob, Recovering, LockFree
<1>t. /\ status \in [Dep -> Status \cup {"none"}] /\ rev \in [Dep -> Dep]
      /\ approval \in [Dep -> {"none", "pending", "approved", "rejected"}]
      /\ image \in [Dep -> BOOLEAN] /\ promoted \in [Dep -> BOOLEAN] /\ gated \in [Dep -> BOOLEAN]
      /\ deciding \in [Dep -> {"none", "approve", "reject"}]
      /\ pc # "idle" => cur \in Dep
  BY DEF IInv, TypeOK, RowTypes, AppTypes, ProcessTypes
<1>c. /\ snap \in [Dep -> InFlight \cup {"queued", "none"}]
  BY DEF IInv, TypeOK, ProcessTypes, Active
<1>1. CASE Park
  BY <1>1, <1>a, <1>b, <1>c, <1>t DEF Park, At, SetStatus, Goto, FirstStage,
      InFlight, Terminal
<1>2. CASE FailParked
  BY <1>2, <1>a, <1>b, <1>c, <1>t DEF FailParked, At, SetStatus, Return, Goto,
      FirstStage, InFlight, Terminal
<1>3. CASE SetBuilding
  BY <1>3, <1>a, <1>b, <1>c, <1>t DEF SetBuilding, At, SetStatus, Goto, FirstStage,
      InFlight, Terminal
<1>4. CASE SetImage
  BY <1>4, <1>a, <1>b, <1>c, <1>t DEF SetImage, At, Goto, FirstStage, InFlight,
      Terminal
<1>5. CASE SetDistributing
  BY <1>5, <1>a, <1>b, <1>c, <1>t DEF SetDistributing, At, SetStatus, Goto,
      FirstStage, InFlight, Terminal
<1>6. CASE SetRollingOut
  BY <1>6, <1>a, <1>b, <1>c, <1>t DEF SetRollingOut, At, SetStatus, Goto,
      FirstStage, InFlight, Terminal
<1>7. CASE EndActive
  BY <1>7, <1>a, <1>b, <1>c, <1>t DEF EndActive, At, SetStatus, Goto, FirstStage,
      InFlight, Terminal
<1>8. CASE Complete
  BY <1>8, <1>a, <1>b, <1>c, <1>t DEF Complete, At, SetStatus, Goto, FirstStage,
      InFlight, Terminal
<1>9. ASSUME NEW d \in Dep, NEW need \in Gates, NEW imageSource \in BOOLEAN,
             Deploy(d, need, imageSource)
      PROVE  Snapped(x)'
  BY <1>9, <1>a, <1>b, <1>c, <1>t DEF Deploy, LockFree, NewRow, SetStatus,
      Admitted, Goto, FirstStage, InFlight, Terminal
<1>10. ASSUME NEW d \in Dep, NEW s \in Dep, NEW need \in Gates,
              Rollback(d, s, need)
      PROVE  Snapped(x)'
  BY <1>10, <1>a, <1>b, <1>c, <1>t DEF Rollback, LockFree, NewRow, SetStatus,
      Admitted, Goto, FirstStage, InFlight, Terminal
<1>11. ASSUME NEW d \in Dep, NEW need \in Gates, Promote(d, need)
      PROVE  Snapped(x)'
  BY <1>11, <1>a, <1>b, <1>c, <1>t DEF Promote, LockFree, NewRow, SetStatus, Goto,
      FirstStage, InFlight, Terminal
<1>12. ASSUME NEW d \in Dep, ApproveDeployment(d)
      PROVE  Snapped(x)'
  BY <1>12, <1>a, <1>b, <1>c, <1>t DEF ApproveDeployment, LockFree, SetStatus,
      Goto, job, FirstStage, InFlight, Terminal
<1>13. CASE Crash
  BY <1>13, <1>a, <1>b, <1>c, <1>t DEF Crash, Return, Goto, FirstStage, InFlight,
      Terminal, rows
<1>14. CASE Boot
  BY <1>14, <1>a, <1>b, <1>c, <1>t DEF Boot, FirstStage, InFlight, Terminal, rows
<1>15. ASSUME NEW d \in Dep, RecoverNext(d)
      PROVE  Snapped(x)'
  BY <1>15, <1>a, <1>b, <1>c, <1>t DEF RecoverNext, Goto, job, FirstStage,
      InFlight, Terminal, rows
<1>16. CASE UNCHANGED <<snap, status, image, rev, promoted>>
  BY <1>16, <1>a, <1>b, <1>c, <1>t DEF FirstStage, InFlight, Terminal
<1> QED
  BY <1>1, <1>2, <1>3, <1>4, <1>5, <1>6, <1>7, <1>8, <1>9, <1>10, <1>11, <1>12,
     <1>13, <1>14, <1>15, <1>16
     DEF Next, Step, Request, Report, Failure, vars, rows, SetArtifactServer,
         GatePark, TryStart, StartDeploying, SelectBuilder, PublishBuild,
         PublishPush, PublishDistribute, SetDesired, PublishRollout,
         ClearDeploying, Announce, PromoteNext, DecideApproval, RejectDeployment,
         Cancel, HandleDeployEvent, HandleAppStatus, CallFails, DecisionFails

\* While Recover has rows to re-drive only its own handlers run (SnapJob).
LEMMA SnapJobStep == IInv /\ [Next]_vars => SnapJob'
<1> SUFFICES ASSUME IInv, [Next]_vars
             PROVE  SnapJob'
  OBVIOUS
<1>a. SnapJob
  BY DEF IInv
<1>t. /\ status \in [Dep -> Status \cup {"none"}] /\ rev \in [Dep -> Dep]
      /\ approval \in [Dep -> {"none", "pending", "approved", "rejected"}]
      /\ image \in [Dep -> BOOLEAN] /\ promoted \in [Dep -> BOOLEAN] /\ gated \in [Dep -> BOOLEAN]
      /\ deciding \in [Dep -> {"none", "approve", "reject"}]
      /\ pc # "idle" => cur \in Dep
  BY DEF IInv, TypeOK, RowTypes, AppTypes, ProcessTypes
<1>c. /\ snap \in [Dep -> InFlight \cup {"queued", "none"}]
      /\ \A y \in Dep : snap[y] \in InFlight => status[y] = snap[y]
      /\ up \in BOOLEAN
  BY DEF IInv, TypeOK, ProcessTypes, Active, SnapStatus
<1>1. ASSUME NEW srv \in Servers, SetArtifactServer(srv)
      PROVE  SnapJob'
  BY <1>1, <1>a, <1>c, <1>t DEF SetArtifactServer, At, Admitted, Goto, SnapJob,
      Recovering, FirstStage, InFlight, process
<1>2. CASE Park
  BY <1>2, <1>a, <1>c, <1>t DEF Park, At, SetStatus, Goto, SnapJob, Recovering,
      FirstStage, InFlight, process
<1>3. CASE GatePark
  BY <1>3, <1>a, <1>c, <1>t DEF GatePark, At, Goto, Return, SnapJob, Recovering,
      FirstStage, InFlight, process
<1>4. CASE FailParked
  BY <1>4, <1>a, <1>c, <1>t DEF FailParked, At, SetStatus, Return, Goto, SnapJob,
      Recovering, FirstStage, InFlight, process
<1>5. CASE TryStart
  BY <1>5, <1>a, <1>c, <1>t DEF TryStart, At, IsHead, Goto, Return, SnapJob,
      Recovering, FirstStage, InFlight, process, rows
<1>6. CASE StartDeploying
  BY <1>6, <1>a, <1>c, <1>t DEF StartDeploying, At, Goto, SnapJob, Recovering,
      FirstStage, InFlight, process, rows
<1>7. CASE SetBuilding
  BY <1>7, <1>a, <1>c, <1>t DEF SetBuilding, At, SetStatus, Goto, SnapJob,
      Recovering, FirstStage, InFlight, process
<1>8. CASE SelectBuilder
  BY <1>8, <1>a, <1>c, <1>t DEF SelectBuilder, At, Goto, SnapJob, Recovering,
      FirstStage, InFlight, process
<1>9. CASE PublishBuild
  BY <1>9, <1>a, <1>c, <1>t DEF PublishBuild, At, PublishWork, Return, Goto,
      SnapJob, Recovering, FirstStage, InFlight, process, rows
<1>10. CASE SetImage
  BY <1>10, <1>a, <1>c, <1>t DEF SetImage, At, Goto, SnapJob, Recovering,
      FirstStage, InFlight, process
<1>11. CASE SetDistributing
  BY <1>11, <1>a, <1>c, <1>t DEF SetDistributing, At, SetStatus, Goto, SnapJob,
      Recovering, FirstStage, InFlight, process
<1>12. CASE PublishPush
  BY <1>12, <1>a, <1>c, <1>t DEF PublishPush, At, PublishWork, Goto, SnapJob,
      Recovering, FirstStage, InFlight, process, rows
<1>13. CASE PublishDistribute
  BY <1>13, <1>a, <1>c, <1>t DEF PublishDistribute, At, PublishWork, Return, Goto,
      SnapJob, Recovering, FirstStage, InFlight, process, rows
<1>14. CASE SetRollingOut
  BY <1>14, <1>a, <1>c, <1>t DEF SetRollingOut, At, SetStatus, Goto, SnapJob,
      Recovering, FirstStage, InFlight, process
<1>15. CASE SetDesired
  BY <1>15, <1>a, <1>c, <1>t DEF SetDesired, At, Goto, SnapJob, Recovering,
      FirstStage, InFlight, process, rows
<1>16. CASE PublishRollout
  BY <1>16, <1>a, <1>c, <1>t DEF PublishRollout, At, PublishWork, Return, Goto,
      SnapJob, Recovering, FirstStage, InFlight, process, rows
<1>17. CASE EndActive
  BY <1>17, <1>a, <1>c, <1>t DEF EndActive, At, SetStatus, Goto, SnapJob,
      Recovering, FirstStage, InFlight, process
<1>18. CASE ClearDeploying
  BY <1>18, <1>a, <1>c, <1>t DEF ClearDeploying, At, Goto, SnapJob, Recovering,
      FirstStage, InFlight, process, rows
<1>19. CASE Announce
  BY <1>19, <1>a, <1>c, <1>t DEF Announce, At, Goto, SnapJob, Recovering,
      FirstStage, InFlight, process, rows
<1>20. CASE PromoteNext
  BY <1>20, <1>a, <1>c, <1>t DEF PromoteNext, At, IsHead, Goto, Return, SnapJob,
      Recovering, FirstStage, InFlight, process, rows
<1>21. CASE Complete
  BY <1>21, <1>a, <1>c, <1>t DEF Complete, At, SetStatus, Goto, SnapJob,
      Recovering, FirstStage, InFlight, process
<1>22. ASSUME NEW d \in Dep, NEW need \in Gates, NEW imageSource \in BOOLEAN,
              Deploy(d, need, imageSource)
      PROVE  SnapJob'
  BY <1>22, <1>a, <1>c, <1>t DEF Deploy, LockFree, NewRow, SetStatus, Admitted,
      Goto, SnapJob, Recovering, FirstStage, InFlight, process
<1>23. ASSUME NEW d \in Dep, NEW s \in Dep, NEW need \in Gates,
              Rollback(d, s, need)
      PROVE  SnapJob'
  BY <1>23, <1>a, <1>c, <1>t DEF Rollback, LockFree, NewRow, SetStatus, Admitted,
      Goto, SnapJob, Recovering, FirstStage, InFlight, process
<1>24. ASSUME NEW d \in Dep, NEW need \in Gates, Promote(d, need)
      PROVE  SnapJob'
  BY <1>24, <1>a, <1>c, <1>t DEF Promote, LockFree, NewRow, SetStatus, Goto,
      SnapJob, Recovering, FirstStage, InFlight, process
<1>25. ASSUME NEW d \in Dep, ApproveDeployment(d)
      PROVE  SnapJob'
  BY <1>25, <1>a, <1>c, <1>t DEF ApproveDeployment, LockFree, SetStatus, Goto, job,
      SnapJob, Recovering, FirstStage, InFlight
<1>26. ASSUME NEW d \in Dep, RejectDeployment(d)
      PROVE  SnapJob'
  BY <1>26, <1>a, <1>c, <1>t DEF RejectDeployment, LockFree, Goto, job, SnapJob,
      Recovering, FirstStage, InFlight, rows
<1>27. ASSUME NEW d \in Dep, Cancel(d)
      PROVE  SnapJob'
  BY <1>27, <1>a, <1>c, <1>t DEF Cancel, LockFree, Goto, SnapJob, Recovering,
      FirstStage, InFlight, process, rows
<1>28. ASSUME NEW srv \in Servers, NEW d \in Dep, NEW failed \in BOOLEAN,
               NEW stage \in {"build", "distribute", "rollout"}, HandleDeployEvent(srv, d, stage, failed)
      PROVE  SnapJob'
  BY <1>28, <1>a, <1>c, <1>t DEF HandleDeployEvent, LockFree, Goto, SnapJob,
      Recovering, FirstStage, InFlight, process, rows
<1>29. ASSUME NEW state \in {"running", "error"},
               NEW r \in {NoRev} \cup {i \in Dep : image[i]}, HandleAppStatus(state, r)
      PROVE  SnapJob'
  BY <1>29, <1>a, <1>c, <1>t DEF HandleAppStatus, LockFree, Goto, job, SnapJob,
      Recovering, FirstStage, InFlight, process, rows
<1>30. CASE CallFails
  BY <1>30, <1>a, <1>c, <1>t DEF CallFails, Goto, Return, SnapJob, Recovering,
      FirstStage, InFlight, process, rows
<1>31. CASE Crash
  BY <1>31, <1>a, <1>c, <1>t DEF Crash, Return, Goto, SnapJob, Recovering,
      FirstStage, InFlight, rows
<1>32. CASE Boot
  BY <1>32, <1>a, <1>c, <1>t DEF Boot, SnapJob, Recovering, FirstStage, InFlight,
      job, rows
<1>33. ASSUME NEW d \in Dep, RecoverNext(d)
      PROVE  SnapJob'
  BY <1>33, <1>a, <1>c, <1>t DEF RecoverNext, Goto, job, SnapJob, Recovering,
      FirstStage, InFlight, process, rows
<1>34. CASE UNCHANGED <<up, pc, cur, snap, image, rev, promoted>>
  BY <1>34, <1>a, <1>c, <1>t DEF SnapJob, Recovering, FirstStage, InFlight
<1> QED
  BY <1>1, <1>2, <1>3, <1>4, <1>5, <1>6, <1>7, <1>8, <1>9, <1>10, <1>11, <1>12,
     <1>13, <1>14, <1>15, <1>16, <1>17, <1>18, <1>19, <1>20, <1>21, <1>22, <1>23,
     <1>24, <1>25, <1>26, <1>27, <1>28, <1>29, <1>30, <1>31, <1>32, <1>33, <1>34
     DEF Next, Step, Request, Report, Failure, vars, job, process, rows,
         DecideApproval, DecisionFails

\* A handler that starts a waiting deployment keeps it at the head of the queue
\* until it runs (JobHead: tryStart, promoteNext).
LEMMA HeadStep == IInv /\ [Next]_vars => JobHead'
<1> SUFFICES ASSUME IInv, [Next]_vars
             PROVE  JobHead'
  OBVIOUS
<1>a. JobHead
  BY DEF IInv
<1>b. /\ \A x, e \in Dep : e < x /\ status[x] # "none" => status[e] # "none"
      /\ \A x \in Dep : snap[x] \in InFlight => status[x] = snap[x]
      /\ pc \in StageOps => status[cur] \in Active
      /\ pc \in {"selectBuilder", "pubBuild", "setImage"} => status[cur] = "building"
  BY DEF IInv, RowsInOrder, SnapStatus, JobStage
<1>t. /\ status \in [Dep -> InFlight \cup Terminal \cup {"queued", "awaiting_approval", "none"}]
      /\ rev \in [Dep -> Dep] /\ gated \in [Dep -> BOOLEAN]
      /\ pc # "idle" => cur \in Dep
      /\ \A x \in Dep : x \in Nat
  BY DEF IInv, TypeOK, RowTypes, AppTypes, Status, Active, Dep
<1>s. /\ snap \in [Dep -> InFlight \cup {"queued", "none"}]
      /\ up \in BOOLEAN /\ fault \in BOOLEAN /\ crashes \in Nat
  BY DEF IInv, TypeOK, AppTypes, ProcessTypes, Active
<1>1. ASSUME NEW srv \in Servers, SetArtifactServer(srv)
      PROVE  JobHead'
  BY <1>1, <1>a, <1>b, <1>s, <1>t DEF SetArtifactServer, At, Admitted, Goto,
      process, appRow, history, JobHead, StageOps, Active, InFlight, Terminal
<1>2. CASE Park
  BY <1>2, <1>a, <1>b, <1>s, <1>t DEF Park, At, SetStatus, Goto, process, appRow,
      history, JobHead, StageOps, Active, InFlight, Terminal
<1>3. CASE GatePark
  BY <1>3, <1>a, <1>b, <1>s, <1>t DEF GatePark, At, Goto, Return, process, appRow,
      history, JobHead, StageOps, Active, InFlight, Terminal
<1>4. CASE FailParked
  BY <1>4, <1>a, <1>b, <1>s, <1>t DEF FailParked, At, SetStatus, Return, Goto,
      process, appRow, JobHead, StageOps, Active, InFlight, Terminal
<1>5. CASE TryStart
  BY <1>5, <1>a, <1>b, <1>s, <1>t DEF TryStart, At, IsHead, Goto, Return, process,
      rows, appRow, history, JobHead, StageOps, Active, InFlight, Terminal
<1>6. CASE StartDeploying
  BY <1>6, <1>a, <1>b, <1>s, <1>t DEF StartDeploying, At, Goto, process, rows,
      history, JobHead, StageOps, Active, InFlight, Terminal
<1>7. CASE SetBuilding
  BY <1>7, <1>a, <1>b, <1>s, <1>t DEF SetBuilding, At, SetStatus, Goto, process,
      appRow, history, JobHead, StageOps, Active, InFlight, Terminal
<1>8. CASE SelectBuilder
  BY <1>8, <1>a, <1>b, <1>s, <1>t DEF SelectBuilder, At, Goto, process, appRow,
      history, JobHead, StageOps, Active, InFlight, Terminal
<1>9. CASE PublishBuild
  BY <1>9, <1>a, <1>b, <1>s, <1>t DEF PublishBuild, At, PublishWork, Return, Goto,
      process, rows, appRow, history, JobHead, StageOps, Active, InFlight,
      Terminal
<1>10. CASE SetImage
  BY <1>10, <1>a, <1>b, <1>s, <1>t DEF SetImage, At, Goto, process, appRow,
      history, JobHead, StageOps, Active, InFlight, Terminal
<1>11. CASE SetDistributing
  BY <1>11, <1>a, <1>b, <1>s, <1>t DEF SetDistributing, At, SetStatus, Goto,
      process, appRow, history, JobHead, StageOps, Active, InFlight, Terminal
<1>12. CASE PublishPush
  BY <1>12, <1>a, <1>b, <1>s, <1>t DEF PublishPush, At, PublishWork, Goto,
      process, rows, appRow, history, JobHead, StageOps, Active, InFlight,
      Terminal
<1>13. CASE PublishDistribute
  BY <1>13, <1>a, <1>b, <1>s, <1>t DEF PublishDistribute, At, PublishWork, Return,
      Goto, process, rows, appRow, history, JobHead, StageOps, Active, InFlight,
      Terminal
<1>14. CASE SetRollingOut
  BY <1>14, <1>a, <1>b, <1>s, <1>t DEF SetRollingOut, At, SetStatus, Goto,
      process, appRow, history, JobHead, StageOps, Active, InFlight, Terminal
<1>15. CASE SetDesired
  BY <1>15, <1>a, <1>b, <1>s, <1>t DEF SetDesired, At, Goto, process, rows,
      history, JobHead, StageOps, Active, InFlight, Terminal
<1>16. CASE PublishRollout
  BY <1>16, <1>a, <1>b, <1>s, <1>t DEF PublishRollout, At, PublishWork, Return,
      Goto, process, rows, appRow, history, JobHead, StageOps, Active, InFlight,
      Terminal
<1>17. CASE EndActive
  BY <1>17, <1>a, <1>b, <1>s, <1>t DEF EndActive, At, SetStatus, Goto, process,
      appRow, JobHead, StageOps, Active, InFlight, Terminal
<1>18. CASE ClearDeploying
  BY <1>18, <1>a, <1>b, <1>s, <1>t DEF ClearDeploying, At, Goto, process, rows,
      history, JobHead, StageOps, Active, InFlight, Terminal
<1>19. CASE Announce
  BY <1>19, <1>a, <1>b, <1>s, <1>t DEF Announce, At, Goto, process, rows, appRow,
      history, JobHead, StageOps, Active, InFlight, Terminal
<1>20. CASE PromoteNext
  BY <1>20, <1>a, <1>b, <1>s, <1>t DEF PromoteNext, At, IsHead, Goto, Return,
      process, rows, appRow, history, JobHead, StageOps, Active, InFlight,
      Terminal
<1>21. CASE Complete
  BY <1>21, <1>a, <1>b, <1>s, <1>t DEF Complete, At, SetStatus, Goto, process,
      appRow, JobHead, StageOps, Active, InFlight, Terminal
<1>22. ASSUME NEW d \in Dep, NEW need \in Gates, NEW imageSource \in BOOLEAN,
              Deploy(d, need, imageSource)
      PROVE  JobHead'
  BY <1>22, <1>a, <1>b, <1>s, <1>t DEF Deploy, LockFree, NewRow, SetStatus,
      Admitted, Goto, process, appRow, JobHead, StageOps, Active, InFlight,
      Terminal
<1>23. ASSUME NEW d \in Dep, NEW s \in Dep, NEW need \in Gates,
              Rollback(d, s, need)
      PROVE  JobHead'
  BY <1>23, <1>a, <1>b, <1>s, <1>t DEF Rollback, LockFree, NewRow, SetStatus,
      Admitted, Goto, process, appRow, JobHead, StageOps, Active, InFlight,
      Terminal
<1>24. ASSUME NEW d \in Dep, NEW need \in Gates, Promote(d, need)
      PROVE  JobHead'
  BY <1>24, <1>a, <1>b, <1>s, <1>t DEF Promote, LockFree, NewRow, SetStatus, Goto,
      process, appRow, JobHead, StageOps, Active, InFlight, Terminal
<1>25. ASSUME NEW d \in Dep, ApproveDeployment(d)
      PROVE  JobHead'
  BY <1>25, <1>a, <1>b, <1>s, <1>t DEF ApproveDeployment, LockFree, SetStatus,
      Goto, job, appRow, history, JobHead, StageOps, Active, InFlight, Terminal
<1>26. ASSUME NEW d \in Dep, RejectDeployment(d)
      PROVE  JobHead'
  BY <1>26, <1>a, <1>b, <1>s, <1>t DEF RejectDeployment, LockFree, Goto, job,
      rows, appRow, history, JobHead, StageOps, Active, InFlight, Terminal
<1>27. ASSUME NEW d \in Dep, Cancel(d)
      PROVE  JobHead'
  BY <1>27, <1>a, <1>b, <1>s, <1>t DEF Cancel, LockFree, Goto, process, rows,
      appRow, history, JobHead, StageOps, Active, InFlight, Terminal
<1>28. ASSUME NEW srv \in Servers, NEW d \in Dep, NEW failed \in BOOLEAN,
               NEW stage \in {"build", "distribute", "rollout"},
               HandleDeployEvent(srv, d, stage, failed)
      PROVE  JobHead'
  BY <1>28, <1>a, <1>b, <1>s, <1>t DEF HandleDeployEvent, LockFree, Goto, process,
      rows, appRow, history, JobHead, StageOps, Active, InFlight, Terminal
<1>29. ASSUME NEW state \in {"running", "error"},
               NEW r \in {NoRev} \cup {i \in Dep : image[i]}, HandleAppStatus(state, r)
      PROVE  JobHead'
  BY <1>29, <1>a, <1>b, <1>s, <1>t DEF HandleAppStatus, LockFree, Goto, job,
      process, rows, history, JobHead, StageOps, Active, InFlight, Terminal
<1>30. CASE CallFails
  BY <1>30, <1>a, <1>b, <1>s, <1>t DEF CallFails, Goto, Return, process, rows,
      appRow, history, JobHead, StageOps, Active, InFlight, Terminal
<1>31. CASE Crash
  BY <1>31, <1>a, <1>b, <1>s, <1>t DEF Crash, Return, Goto, rows, appRow, history,
      JobHead, StageOps, Active, InFlight, Terminal
<1>32. CASE Boot
  BY <1>32, <1>a, <1>b, <1>s, <1>t DEF Boot, job, rows, appRow, history, JobHead,
      StageOps, Active, InFlight, Terminal
<1>33. ASSUME NEW d \in Dep, RecoverNext(d)
      PROVE  JobHead'
  BY <1>33, <1>a, <1>b, <1>s, <1>t DEF RecoverNext, Goto, job, process, rows,
      appRow, history, JobHead, StageOps, Active, InFlight, Terminal
<1>34. CASE UNCHANGED <<pc, cur, status>>
  BY <1>34, <1>a, <1>b, <1>s, <1>t DEF JobHead, StageOps, Active, InFlight,
      Terminal
<1> QED
  BY <1>1, <1>2, <1>3, <1>4, <1>5, <1>6, <1>7, <1>8, <1>9, <1>10, <1>11, <1>12,
     <1>13, <1>14, <1>15, <1>16, <1>17, <1>18, <1>19, <1>20, <1>21, <1>22, <1>23,
     <1>24, <1>25, <1>26, <1>27, <1>28, <1>29, <1>30, <1>31, <1>32, <1>33, <1>34
     DEF Next, Step, Request, Report, Failure, vars, rows, appRow, history,
         process, job, DecideApproval, DecisionFails

\* No wake-up is lost: at every step the waiting head of the queue is owed a
\* look by the handler that holds the lock or by Recover (QueueOwed: endActive,
\* promoteNext, Cancel, park).
LEMMA OwedStep == IInv /\ [Next]_vars => QueueOwed'
<1> SUFFICES ASSUME IInv, [Next]_vars
             PROVE  QueueOwed'
  OBVIOUS
<1>a. QueueOwed
  BY DEF IInv
<1>b. /\ \A x, e \in Dep : e < x /\ status[x] # "none" => status[e] # "none"
      /\ \A x \in Dep : snap[x] \in InFlight => status[x] = snap[x]
      /\ pc \in StageOps => status[cur] \in Active
      /\ Recovering /\ pc # "idle" => pc \notin {"setArtifact", "park", "gatePark", "failParked"}
      /\ pc = "gatePark" => status[cur] = "awaiting_approval"
      /\ pc \in {"setArtifact", "park"} => status[cur] = "queued"
      /\ pc \in {"setArtifact", "park"} => \A e \in Dep : e > cur => status[e] = "none"
      /\ ~up => pc = "idle"
  BY DEF IInv, RowsInOrder, SnapStatus, JobStage, SnapJob, JobHead
<1>t. /\ status \in [Dep -> InFlight \cup Terminal \cup {"queued", "awaiting_approval", "none"}]
      /\ rev \in [Dep -> Dep] /\ gated \in [Dep -> BOOLEAN]
      /\ pc # "idle" => cur \in Dep
      /\ \A x \in Dep : x \in Nat
  BY DEF IInv, TypeOK, RowTypes, AppTypes, Status, Active, Dep
<1>s. /\ snap \in [Dep -> InFlight \cup {"queued", "none"}]
      /\ up \in BOOLEAN /\ fault \in BOOLEAN /\ crashes \in Nat
  BY DEF IInv, TypeOK, AppTypes, ProcessTypes, Active
<1>1. ASSUME NEW srv \in Servers, SetArtifactServer(srv)
      PROVE  QueueOwed'
  BY <1>1, <1>a, <1>b, <1>s, <1>t DEF SetArtifactServer, At, Admitted, Goto,
      process, appRow, history, QueueOwed, WakeUpOwed, IsHead, Recovering,
      StageOps, Active, InFlight, Terminal
<1>2. CASE Park
  BY <1>2, <1>a, <1>b, <1>s, <1>t DEF Park, At, SetStatus, Goto, process, appRow,
      history, QueueOwed, WakeUpOwed, IsHead, Recovering, StageOps, Active,
      InFlight, Terminal
<1>3. CASE GatePark
  BY <1>3, <1>a, <1>b, <1>s, <1>t DEF GatePark, At, Goto, Return, process, appRow,
      history, QueueOwed, WakeUpOwed, IsHead, Recovering, StageOps, Active,
      InFlight, Terminal
<1>4. CASE FailParked
  <2> SUFFICES ASSUME up, ~fault, NEW x \in Dep, IsHead(x)', status'[x] = "queued"
               PROVE  FALSE
    BY <1>4 DEF QueueOwed, FailParked, At, process
  <2>1. /\ cur \in Dep /\ x # cur /\ status[x] = "queued"
        /\ \A e \in Dep : e # cur /\ status[e] \in Active => x <= e
    BY <1>4, <1>t DEF FailParked, At, SetStatus, IsHead
  <2>2. \A e \in Dep : IsHead(e) => status[e] # "queued"
    <3>1. \A e \in Dep : snap[e] = "none"
      BY <1>4, <1>b DEF FailParked, At, Recovering
    <3> QED
      BY <1>4, <1>a, <3>1 DEF FailParked, At, QueueOwed, WakeUpOwed
  <2>3. CASE x <= cur
    BY <2>1, <2>2, <2>3 DEF IsHead, Active
  <2>4. CASE cur < x
    <3>1. status[cur] = "queued"
      <4>1. status[cur] \in {"queued", "awaiting_approval"}
        BY <1>4 DEF FailParked, At, IInv, JobStage
      <4> QED
        BY <2>1, <2>2, <2>4, <4>1, <1>t DEF IsHead, Active, InFlight
    <3>2. IsHead(cur)
      BY <2>1, <2>4, <3>1, <1>t DEF IsHead, Active
    <3> QED
      BY <2>1, <2>2, <3>1, <3>2
  <2> QED
    BY <2>1, <2>3, <2>4, <1>t
<1>5. CASE TryStart
  BY <1>5, <1>a, <1>b, <1>s, <1>t DEF TryStart, At, IsHead, Goto, Return, process,
      rows, appRow, history, QueueOwed, WakeUpOwed, IsHead, Recovering, StageOps,
      Active, InFlight, Terminal
<1>6. CASE StartDeploying
  BY <1>6, <1>a, <1>b, <1>s, <1>t DEF StartDeploying, At, Goto, process, rows,
      history, QueueOwed, WakeUpOwed, IsHead, Recovering, StageOps, Active,
      InFlight, Terminal
<1>7. CASE SetBuilding
  BY <1>7, <1>a, <1>b, <1>s, <1>t DEF SetBuilding, At, SetStatus, Goto, process,
      appRow, history, QueueOwed, WakeUpOwed, IsHead, Recovering, StageOps,
      Active, InFlight, Terminal
<1>8. CASE SelectBuilder
  BY <1>8, <1>a, <1>b, <1>s, <1>t DEF SelectBuilder, At, Goto, process, appRow,
      history, QueueOwed, WakeUpOwed, IsHead, Recovering, StageOps, Active,
      InFlight, Terminal
<1>9. CASE PublishBuild
  BY <1>9, <1>a, <1>b, <1>s, <1>t DEF PublishBuild, At, PublishWork, Return, Goto,
      process, rows, appRow, history, QueueOwed, WakeUpOwed, IsHead, Recovering,
      StageOps, Active, InFlight, Terminal
<1>10. CASE SetImage
  BY <1>10, <1>a, <1>b, <1>s, <1>t DEF SetImage, At, Goto, process, appRow,
      history, QueueOwed, WakeUpOwed, IsHead, Recovering, StageOps, Active,
      InFlight, Terminal
<1>11. CASE SetDistributing
  BY <1>11, <1>a, <1>b, <1>s, <1>t DEF SetDistributing, At, SetStatus, Goto,
      process, appRow, history, QueueOwed, WakeUpOwed, IsHead, Recovering,
      StageOps, Active, InFlight, Terminal
<1>12. CASE PublishPush
  BY <1>12, <1>a, <1>b, <1>s, <1>t DEF PublishPush, At, PublishWork, Goto,
      process, rows, appRow, history, QueueOwed, WakeUpOwed, IsHead, Recovering,
      StageOps, Active, InFlight, Terminal
<1>13. CASE PublishDistribute
  BY <1>13, <1>a, <1>b, <1>s, <1>t DEF PublishDistribute, At, PublishWork, Return,
      Goto, process, rows, appRow, history, QueueOwed, WakeUpOwed, IsHead,
      Recovering, StageOps, Active, InFlight, Terminal
<1>14. CASE SetRollingOut
  BY <1>14, <1>a, <1>b, <1>s, <1>t DEF SetRollingOut, At, SetStatus, Goto,
      process, appRow, history, QueueOwed, WakeUpOwed, IsHead, Recovering,
      StageOps, Active, InFlight, Terminal
<1>15. CASE SetDesired
  BY <1>15, <1>a, <1>b, <1>s, <1>t DEF SetDesired, At, Goto, process, rows,
      history, QueueOwed, WakeUpOwed, IsHead, Recovering, StageOps, Active,
      InFlight, Terminal
<1>16. CASE PublishRollout
  BY <1>16, <1>a, <1>b, <1>s, <1>t DEF PublishRollout, At, PublishWork, Return,
      Goto, process, rows, appRow, history, QueueOwed, WakeUpOwed, IsHead,
      Recovering, StageOps, Active, InFlight, Terminal
<1>17. CASE EndActive
  BY <1>17, <1>a, <1>b, <1>s, <1>t DEF EndActive, At, SetStatus, Goto, process,
      appRow, QueueOwed, WakeUpOwed, IsHead, Recovering, StageOps, Active,
      InFlight, Terminal
<1>18. CASE ClearDeploying
  BY <1>18, <1>a, <1>b, <1>s, <1>t DEF ClearDeploying, At, Goto, process, rows,
      history, QueueOwed, WakeUpOwed, IsHead, Recovering, StageOps, Active,
      InFlight, Terminal
<1>19. CASE Announce
  BY <1>19, <1>a, <1>b, <1>s, <1>t DEF Announce, At, Goto, process, rows, appRow,
      history, QueueOwed, WakeUpOwed, IsHead, Recovering, StageOps, Active,
      InFlight, Terminal
<1>20. CASE PromoteNext
  BY <1>20, <1>a, <1>b, <1>s, <1>t DEF PromoteNext, At, IsHead, Goto, Return,
      process, rows, appRow, history, QueueOwed, WakeUpOwed, IsHead, Recovering,
      StageOps, Active, InFlight, Terminal
<1>21. CASE Complete
  BY <1>21, <1>a, <1>b, <1>s, <1>t DEF Complete, At, SetStatus, Goto, process,
      appRow, QueueOwed, WakeUpOwed, IsHead, Recovering, StageOps, Active,
      InFlight, Terminal
<1>22. ASSUME NEW d \in Dep, NEW need \in Gates, NEW imageSource \in BOOLEAN,
              Deploy(d, need, imageSource)
      PROVE  QueueOwed'
  BY <1>22, <1>a, <1>b, <1>s, <1>t DEF Deploy, LockFree, NewRow, SetStatus,
      Admitted, Goto, process, appRow, QueueOwed, WakeUpOwed, IsHead, Recovering,
      StageOps, Active, InFlight, Terminal
<1>23. ASSUME NEW d \in Dep, NEW s \in Dep, NEW need \in Gates,
              Rollback(d, s, need)
      PROVE  QueueOwed'
  BY <1>23, <1>a, <1>b, <1>s, <1>t DEF Rollback, LockFree, NewRow, SetStatus,
      Admitted, Goto, process, appRow, QueueOwed, WakeUpOwed, IsHead, Recovering,
      StageOps, Active, InFlight, Terminal
<1>24. ASSUME NEW d \in Dep, NEW need \in Gates, Promote(d, need)
      PROVE  QueueOwed'
  BY <1>24, <1>a, <1>b, <1>s, <1>t DEF Promote, LockFree, NewRow, SetStatus, Goto,
      process, appRow, QueueOwed, WakeUpOwed, IsHead, Recovering, StageOps,
      Active, InFlight, Terminal
<1>25. ASSUME NEW d \in Dep, ApproveDeployment(d)
      PROVE  QueueOwed'
  BY <1>25, <1>a, <1>b, <1>s, <1>t DEF ApproveDeployment, LockFree, SetStatus,
      Goto, job, appRow, history, QueueOwed, WakeUpOwed, IsHead, Recovering,
      StageOps, Active, InFlight, Terminal
<1>26. ASSUME NEW d \in Dep, RejectDeployment(d)
      PROVE  QueueOwed'
  BY <1>26, <1>a, <1>b, <1>s, <1>t DEF RejectDeployment, LockFree, Goto, job,
      rows, appRow, history, QueueOwed, WakeUpOwed, IsHead, Recovering, StageOps,
      Active, InFlight, Terminal
<1>27. ASSUME NEW d \in Dep, Cancel(d)
      PROVE  QueueOwed'
  BY <1>27, <1>a, <1>b, <1>s, <1>t DEF Cancel, LockFree, Goto, process, rows,
      appRow, history, QueueOwed, WakeUpOwed, IsHead, Recovering, StageOps,
      Active, InFlight, Terminal
<1>28. ASSUME NEW srv \in Servers, NEW d \in Dep, NEW failed \in BOOLEAN,
               NEW stage \in {"build", "distribute", "rollout"},
               HandleDeployEvent(srv, d, stage, failed)
      PROVE  QueueOwed'
  BY <1>28, <1>a, <1>b, <1>s, <1>t DEF HandleDeployEvent, LockFree, Goto, process,
      rows, appRow, history, QueueOwed, WakeUpOwed, IsHead, Recovering, StageOps,
      Active, InFlight, Terminal
<1>29. ASSUME NEW state \in {"running", "error"},
               NEW r \in {NoRev} \cup {i \in Dep : image[i]}, HandleAppStatus(state, r)
      PROVE  QueueOwed'
  BY <1>29, <1>a, <1>b, <1>s, <1>t DEF HandleAppStatus, LockFree, Goto, job,
      process, rows, history, QueueOwed, WakeUpOwed, IsHead, Recovering, StageOps,
      Active, InFlight, Terminal
<1>30. CASE CallFails
  BY <1>30, <1>a, <1>b, <1>s, <1>t DEF CallFails, Goto, Return, process, rows,
      appRow, history, QueueOwed, WakeUpOwed, IsHead, Recovering, StageOps,
      Active, InFlight, Terminal
<1>31. ASSUME NEW d \in Dep, DecisionFails(d)
      PROVE  QueueOwed'
  BY <1>31, <1>a, <1>b, <1>s, <1>t DEF DecisionFails, job, rows, appRow, history,
      QueueOwed, WakeUpOwed, IsHead, Recovering, StageOps, Active, InFlight,
      Terminal
<1>32. CASE Crash
  BY <1>32, <1>a, <1>b, <1>s, <1>t DEF Crash, Return, Goto, rows, appRow, history,
      QueueOwed, WakeUpOwed, IsHead, Recovering, StageOps, Active, InFlight,
      Terminal
<1>33. CASE Boot
  BY <1>33, <1>a, <1>b, <1>s, <1>t DEF Boot, job, rows, appRow, history,
      QueueOwed, WakeUpOwed, IsHead, Recovering, StageOps, Active, InFlight,
      Terminal
<1>34. ASSUME NEW d \in Dep, RecoverNext(d)
      PROVE  QueueOwed'
  BY <1>34, <1>a, <1>b, <1>s, <1>t DEF RecoverNext, Goto, job, process, rows,
      appRow, history, QueueOwed, WakeUpOwed, IsHead, Recovering, StageOps,
      Active, InFlight, Terminal
<1>35. CASE UNCHANGED <<up, fault, pc, cur, status, snap>>
  BY <1>35, <1>a, <1>b, <1>s, <1>t DEF QueueOwed, WakeUpOwed, IsHead, Recovering,
      StageOps, Active, InFlight, Terminal
<1> QED
  BY <1>1, <1>2, <1>3, <1>4, <1>5, <1>6, <1>7, <1>8, <1>9, <1>10, <1>11, <1>12,
     <1>13, <1>14, <1>15, <1>16, <1>17, <1>18, <1>19, <1>20, <1>21, <1>22, <1>23,
     <1>24, <1>25, <1>26, <1>27, <1>28, <1>29, <1>30, <1>31, <1>32, <1>33, <1>34,
     <1>35
     DEF Next, Step, Request, Report, Failure, vars, rows, appRow, history,
         process, job, DecideApproval

\* One pipeline per application follows from the order of the queue when the gate
\* asked for no approval.
LEMMA OneUngated == IInv => OnePipelineUngated
<1> SUFFICES ASSUME IInv, \A x \in Dep : ~gated[x],
                    NEW d \in Dep, NEW e \in Dep,
                    status[d] \in InFlight, status[e] \in InFlight
             PROVE  d = e
  BY DEF OnePipelineUngated
<1>1. approval[d] # "approved" /\ approval[e] # "approved"
  BY DEF IInv, GateRows
<1>2. ~(d < e) /\ ~(e < d)
  BY <1>1 DEF IInv, QueueOrder, Active
<1> QED
  BY <1>2 DEF Dep

\* The deployment that rolls out is, or is about to be made, desired state
\* (RolloutOwed: startRollout, Recover).
LEMMA RolloutStep == IInv /\ [Next]_vars => RolloutOwed'
<1> SUFFICES ASSUME IInv, [Next]_vars
             PROVE  RolloutOwed'
  OBVIOUS
<1>a. RolloutOwed
  BY DEF IInv
<1>b. /\ \A x \in Dep : status[x] = "none" => rev[x] = x /\ ~gated[x]
      /\ \A x \in Dep : snap[x] \in InFlight => status[x] = snap[x]
      /\ pc \in {"setDesired", "pubRollout", "complete"} => status[cur] = "rolling_out"
      /\ ~up => pc = "idle"
  BY DEF IInv, RowsInOrder, SnapStatus, JobStage, SnapJob
<1>o. (\A x \in Dep : ~gated[x]) =>
        \A x, y \in Dep : status[x] \in InFlight /\ status[y] \in InFlight => x = y
  BY OneUngated DEF OnePipelineUngated
<1>t. /\ status \in [Dep -> InFlight \cup Terminal \cup {"queued", "awaiting_approval", "none"}]
      /\ rev \in [Dep -> Dep] /\ gated \in [Dep -> BOOLEAN]
      /\ pc # "idle" => cur \in Dep
      /\ \A x \in Dep : x \in Nat
  BY DEF IInv, TypeOK, RowTypes, AppTypes, Status, Active, Dep
<1>s. /\ snap \in [Dep -> InFlight \cup {"queued", "none"}]
      /\ up \in BOOLEAN /\ fault \in BOOLEAN /\ crashes \in Nat
  BY DEF IInv, TypeOK, AppTypes, ProcessTypes, Active
<1>1. ASSUME NEW srv \in Servers, SetArtifactServer(srv)
      PROVE  RolloutOwed'
  BY <1>1, <1>a, <1>b, <1>s, <1>t DEF SetArtifactServer, At, Admitted, Goto,
      process, appRow, history, RolloutOwed, Recovering, InFlight, Terminal
<1>2. CASE Park
  BY <1>2, <1>a, <1>b, <1>s, <1>t DEF Park, At, SetStatus, Goto, process, appRow,
      history, RolloutOwed, Recovering, InFlight, Terminal
<1>3. CASE GatePark
  BY <1>3, <1>a, <1>b, <1>s, <1>t DEF GatePark, At, Goto, Return, process, appRow,
      history, RolloutOwed, Recovering, InFlight, Terminal
<1>4. CASE FailParked
  BY <1>4, <1>a, <1>b, <1>s, <1>t DEF FailParked, At, SetStatus, Return, Goto,
      process, appRow, RolloutOwed, Recovering, InFlight, Terminal
<1>5. CASE TryStart
  BY <1>5, <1>a, <1>b, <1>s, <1>t DEF TryStart, At, IsHead, Goto, Return, process,
      rows, appRow, history, RolloutOwed, Recovering, InFlight, Terminal
<1>6. CASE StartDeploying
  BY <1>6, <1>a, <1>b, <1>s, <1>t DEF StartDeploying, At, Goto, process, rows,
      history, RolloutOwed, Recovering, InFlight, Terminal
<1>7. CASE SetBuilding
  BY <1>7, <1>a, <1>b, <1>s, <1>t DEF SetBuilding, At, SetStatus, Goto, process,
      appRow, history, RolloutOwed, Recovering, InFlight, Terminal
<1>8. CASE SelectBuilder
  BY <1>8, <1>a, <1>b, <1>s, <1>t DEF SelectBuilder, At, Goto, process, appRow,
      history, RolloutOwed, Recovering, InFlight, Terminal
<1>9. CASE PublishBuild
  BY <1>9, <1>a, <1>b, <1>s, <1>t DEF PublishBuild, At, PublishWork, Return, Goto,
      process, rows, appRow, history, RolloutOwed, Recovering, InFlight, Terminal
<1>10. CASE SetImage
  BY <1>10, <1>a, <1>b, <1>s, <1>t DEF SetImage, At, Goto, process, appRow,
      history, RolloutOwed, Recovering, InFlight, Terminal
<1>11. CASE SetDistributing
  BY <1>11, <1>a, <1>b, <1>s, <1>t DEF SetDistributing, At, SetStatus, Goto,
      process, appRow, history, RolloutOwed, Recovering, InFlight, Terminal
<1>12. CASE PublishPush
  BY <1>12, <1>a, <1>b, <1>s, <1>t DEF PublishPush, At, PublishWork, Goto,
      process, rows, appRow, history, RolloutOwed, Recovering, InFlight, Terminal
<1>13. CASE PublishDistribute
  BY <1>13, <1>a, <1>b, <1>s, <1>t DEF PublishDistribute, At, PublishWork, Return,
      Goto, process, rows, appRow, history, RolloutOwed, Recovering, InFlight,
      Terminal
<1>14. CASE SetRollingOut
  BY <1>14, <1>a, <1>b, <1>s, <1>t DEF SetRollingOut, At, SetStatus, Goto,
      process, appRow, history, RolloutOwed, Recovering, InFlight, Terminal
<1>15. CASE SetDesired
  BY <1>15, <1>a, <1>b, <1>s, <1>t, <1>o DEF SetDesired, At, Goto, process, rows,
      history, RolloutOwed, Recovering, InFlight, Terminal
<1>16. CASE PublishRollout
  BY <1>16, <1>a, <1>b, <1>s, <1>t DEF PublishRollout, At, PublishWork, Return,
      Goto, process, rows, appRow, history, RolloutOwed, Recovering, InFlight,
      Terminal
<1>17. CASE EndActive
  BY <1>17, <1>a, <1>b, <1>s, <1>t DEF EndActive, At, SetStatus, Goto, process,
      appRow, RolloutOwed, Recovering, InFlight, Terminal
<1>18. CASE ClearDeploying
  BY <1>18, <1>a, <1>b, <1>s, <1>t DEF ClearDeploying, At, Goto, process, rows,
      history, RolloutOwed, Recovering, InFlight, Terminal
<1>19. CASE Announce
  BY <1>19, <1>a, <1>b, <1>s, <1>t DEF Announce, At, Goto, process, rows, appRow,
      history, RolloutOwed, Recovering, InFlight, Terminal
<1>20. CASE PromoteNext
  BY <1>20, <1>a, <1>b, <1>s, <1>t DEF PromoteNext, At, IsHead, Goto, Return,
      process, rows, appRow, history, RolloutOwed, Recovering, InFlight, Terminal
<1>21. CASE Complete
  BY <1>21, <1>a, <1>b, <1>s, <1>t DEF Complete, At, SetStatus, Goto, process,
      appRow, RolloutOwed, Recovering, InFlight, Terminal
<1>22. ASSUME NEW d \in Dep, NEW need \in Gates, NEW imageSource \in BOOLEAN,
              Deploy(d, need, imageSource)
      PROVE  RolloutOwed'
  BY <1>22, <1>a, <1>b, <1>s, <1>t DEF Deploy, LockFree, NewRow, SetStatus,
      Admitted, Goto, process, appRow, RolloutOwed, Recovering, InFlight, Terminal
<1>23. ASSUME NEW d \in Dep, NEW s \in Dep, NEW need \in Gates,
              Rollback(d, s, need)
      PROVE  RolloutOwed'
  BY <1>23, <1>a, <1>b, <1>s, <1>t DEF Rollback, LockFree, NewRow, SetStatus,
      Admitted, Goto, process, appRow, RolloutOwed, Recovering, InFlight, Terminal
<1>24. ASSUME NEW d \in Dep, NEW need \in Gates, Promote(d, need)
      PROVE  RolloutOwed'
  BY <1>24, <1>a, <1>b, <1>s, <1>t DEF Promote, LockFree, NewRow, SetStatus, Goto,
      process, appRow, RolloutOwed, Recovering, InFlight, Terminal
<1>25. ASSUME NEW d \in Dep, ApproveDeployment(d)
      PROVE  RolloutOwed'
  BY <1>25, <1>a, <1>b, <1>s, <1>t DEF ApproveDeployment, LockFree, SetStatus,
      Goto, job, appRow, history, RolloutOwed, Recovering, InFlight, Terminal
<1>26. ASSUME NEW d \in Dep, RejectDeployment(d)
      PROVE  RolloutOwed'
  BY <1>26, <1>a, <1>b, <1>s, <1>t DEF RejectDeployment, LockFree, Goto, job,
      rows, appRow, history, RolloutOwed, Recovering, InFlight, Terminal
<1>27. ASSUME NEW d \in Dep, Cancel(d)
      PROVE  RolloutOwed'
  BY <1>27, <1>a, <1>b, <1>s, <1>t DEF Cancel, LockFree, Goto, process, rows,
      appRow, history, RolloutOwed, Recovering, InFlight, Terminal
<1>28. ASSUME NEW srv \in Servers, NEW d \in Dep, NEW failed \in BOOLEAN,
               NEW stage \in {"build", "distribute", "rollout"},
               HandleDeployEvent(srv, d, stage, failed)
      PROVE  RolloutOwed'
  BY <1>28, <1>a, <1>b, <1>s, <1>t DEF HandleDeployEvent, LockFree, Goto, process,
      rows, appRow, history, RolloutOwed, Recovering, InFlight, Terminal
<1>29. ASSUME NEW state \in {"running", "error"},
               NEW r \in {NoRev} \cup {i \in Dep : image[i]}, HandleAppStatus(state, r)
      PROVE  RolloutOwed'
  BY <1>29, <1>a, <1>b, <1>s, <1>t DEF HandleAppStatus, LockFree, Goto, job,
      process, rows, history, RolloutOwed, Recovering, InFlight, Terminal
<1>30. CASE CallFails
  BY <1>30, <1>a, <1>b, <1>s, <1>t DEF CallFails, Goto, Return, process, rows,
      appRow, history, RolloutOwed, Recovering, InFlight, Terminal
<1>31. ASSUME NEW d \in Dep, DecisionFails(d)
      PROVE  RolloutOwed'
  BY <1>31, <1>a, <1>b, <1>s, <1>t DEF DecisionFails, job, rows, appRow, history,
      RolloutOwed, Recovering, InFlight, Terminal
<1>32. CASE Crash
  BY <1>32, <1>a, <1>b, <1>s, <1>t DEF Crash, Return, Goto, rows, appRow, history,
      RolloutOwed, Recovering, InFlight, Terminal
<1>33. CASE Boot
  BY <1>33, <1>a, <1>b, <1>s, <1>t DEF Boot, job, rows, appRow, history,
      RolloutOwed, Recovering, InFlight, Terminal, Active
<1>34. ASSUME NEW d \in Dep, RecoverNext(d)
      PROVE  RolloutOwed'
  BY <1>34, <1>a, <1>b, <1>s, <1>t DEF RecoverNext, Goto, job, process, rows,
      appRow, history, RolloutOwed, Recovering, InFlight, Terminal
<1>35. CASE UNCHANGED <<up, fault, pc, cur, status, snap, gated, desired, rev>>
  BY <1>35, <1>a, <1>b, <1>s, <1>t DEF RolloutOwed, Recovering, InFlight, Terminal
<1> QED
  BY <1>1, <1>2, <1>3, <1>4, <1>5, <1>6, <1>7, <1>8, <1>9, <1>10, <1>11, <1>12,
     <1>13, <1>14, <1>15, <1>16, <1>17, <1>18, <1>19, <1>20, <1>21, <1>22, <1>23,
     <1>24, <1>25, <1>26, <1>27, <1>28, <1>29, <1>30, <1>31, <1>32, <1>33, <1>34,
     <1>35
     DEF Next, Step, Request, Report, Failure, vars, rows, appRow, history,
         process, job, DecideApproval

\* The deploying override is taken back by the pipeline that applied it
\* (OverrideOwed: start, endActive, clearDeployingStatus).
LEMMA OverrideStep == IInv /\ [Next]_vars => OverrideOwed'
<1> SUFFICES ASSUME IInv, [Next]_vars
             PROVE  OverrideOwed'
  OBVIOUS
<1>a. OverrideOwed
  BY DEF IInv
<1>b. /\ pc \in {"endCancelled", "setDistributing", "setRollingOut", "setBuilding"} => status[cur] \in Active
      /\ pc = "endCancelled" => status[cur] \in {"building", "distributing"}
      /\ pc \in {"selectBuilder", "pubBuild", "setImage"} => status[cur] = "building"
      /\ pc \in {"setArtifact", "park"} => status[cur] = "queued"
      /\ pc = "failParked" => status[cur] \in {"queued", "awaiting_approval"}
  BY DEF IInv, JobStage, StageOps
<1>t. /\ status \in [Dep -> InFlight \cup Terminal \cup {"queued", "awaiting_approval", "none"}]
      /\ rev \in [Dep -> Dep] /\ gated \in [Dep -> BOOLEAN]
      /\ pc # "idle" => cur \in Dep
      /\ \A x \in Dep : x \in Nat
  BY DEF IInv, TypeOK, RowTypes, AppTypes, Status, Active, Dep
<1>s. /\ snap \in [Dep -> InFlight \cup {"queued", "none"}]
      /\ up \in BOOLEAN /\ fault \in BOOLEAN /\ crashes \in Nat
  BY DEF IInv, TypeOK, AppTypes, ProcessTypes, Active
<1>1. ASSUME NEW srv \in Servers, SetArtifactServer(srv)
      PROVE  OverrideOwed'
  BY <1>1, <1>a, <1>b, <1>s, <1>t DEF SetArtifactServer, At, Admitted, Goto,
      process, appRow, history, OverrideOwed, Recovering, Active, InFlight,
      Terminal
<1>2. CASE Park
  BY <1>2, <1>a, <1>b, <1>s, <1>t DEF Park, At, SetStatus, Goto, process, appRow,
      history, OverrideOwed, Recovering, Active, InFlight, Terminal
<1>3. CASE GatePark
  BY <1>3, <1>a, <1>b, <1>s, <1>t DEF GatePark, At, Goto, Return, process, appRow,
      history, OverrideOwed, Recovering, Active, InFlight, Terminal
<1>4. CASE FailParked
  BY <1>4, <1>a, <1>b, <1>s, <1>t DEF FailParked, At, SetStatus, Return, Goto,
      process, appRow, OverrideOwed, Recovering, Active, InFlight, Terminal
<1>5. CASE TryStart
  BY <1>5, <1>a, <1>b, <1>s, <1>t DEF TryStart, At, IsHead, Goto, Return, process,
      rows, appRow, history, OverrideOwed, Recovering, Active, InFlight, Terminal
<1>6. CASE StartDeploying
  BY <1>6, <1>a, <1>b, <1>s, <1>t DEF StartDeploying, At, Goto, process, rows,
      history, OverrideOwed, Recovering, Active, InFlight, Terminal
<1>7. CASE SetBuilding
  BY <1>7, <1>a, <1>b, <1>s, <1>t DEF SetBuilding, At, SetStatus, Goto, process,
      appRow, history, OverrideOwed, Recovering, Active, InFlight, Terminal
<1>8. CASE SelectBuilder
  BY <1>8, <1>a, <1>b, <1>s, <1>t DEF SelectBuilder, At, Goto, process, appRow,
      history, OverrideOwed, Recovering, Active, InFlight, Terminal
<1>9. CASE PublishBuild
  BY <1>9, <1>a, <1>b, <1>s, <1>t DEF PublishBuild, At, PublishWork, Return, Goto,
      process, rows, appRow, history, OverrideOwed, Recovering, Active, InFlight,
      Terminal
<1>10. CASE SetImage
  BY <1>10, <1>a, <1>b, <1>s, <1>t DEF SetImage, At, Goto, process, appRow,
      history, OverrideOwed, Recovering, Active, InFlight, Terminal
<1>11. CASE SetDistributing
  BY <1>11, <1>a, <1>b, <1>s, <1>t DEF SetDistributing, At, SetStatus, Goto,
      process, appRow, history, OverrideOwed, Recovering, Active, InFlight,
      Terminal
<1>12. CASE PublishPush
  BY <1>12, <1>a, <1>b, <1>s, <1>t DEF PublishPush, At, PublishWork, Goto,
      process, rows, appRow, history, OverrideOwed, Recovering, Active, InFlight,
      Terminal
<1>13. CASE PublishDistribute
  BY <1>13, <1>a, <1>b, <1>s, <1>t DEF PublishDistribute, At, PublishWork, Return,
      Goto, process, rows, appRow, history, OverrideOwed, Recovering, Active,
      InFlight, Terminal
<1>14. CASE SetRollingOut
  BY <1>14, <1>a, <1>b, <1>s, <1>t DEF SetRollingOut, At, SetStatus, Goto,
      process, appRow, history, OverrideOwed, Recovering, Active, InFlight,
      Terminal
<1>15. CASE SetDesired
  BY <1>15, <1>a, <1>b, <1>s, <1>t DEF SetDesired, At, Goto, process, rows,
      history, OverrideOwed, Recovering, Active, InFlight, Terminal
<1>16. CASE PublishRollout
  BY <1>16, <1>a, <1>b, <1>s, <1>t DEF PublishRollout, At, PublishWork, Return,
      Goto, process, rows, appRow, history, OverrideOwed, Recovering, Active,
      InFlight, Terminal
<1>17. CASE EndActive
  BY <1>17, <1>a, <1>b, <1>s, <1>t DEF EndActive, At, SetStatus, Goto, process,
      appRow, OverrideOwed, Recovering, Active, InFlight, Terminal
<1>18. CASE ClearDeploying
  BY <1>18, <1>a, <1>b, <1>s, <1>t DEF ClearDeploying, At, Goto, process, rows,
      history, OverrideOwed, Recovering, Active, InFlight, Terminal
<1>19. CASE Announce
  BY <1>19, <1>a, <1>b, <1>s, <1>t DEF Announce, At, Goto, process, rows, appRow,
      history, OverrideOwed, Recovering, Active, InFlight, Terminal
<1>20. CASE PromoteNext
  BY <1>20, <1>a, <1>b, <1>s, <1>t DEF PromoteNext, At, IsHead, Goto, Return,
      process, rows, appRow, history, OverrideOwed, Recovering, Active, InFlight,
      Terminal
<1>21. CASE Complete
  BY <1>21, <1>a, <1>b, <1>s, <1>t DEF Complete, At, SetStatus, Goto, process,
      appRow, OverrideOwed, Recovering, Active, InFlight, Terminal
<1>22. ASSUME NEW d \in Dep, NEW need \in Gates, NEW imageSource \in BOOLEAN,
              Deploy(d, need, imageSource)
      PROVE  OverrideOwed'
  BY <1>22, <1>a, <1>b, <1>s, <1>t DEF Deploy, LockFree, NewRow, SetStatus,
      Admitted, Goto, process, appRow, OverrideOwed, Recovering, Active, InFlight,
      Terminal
<1>23. ASSUME NEW d \in Dep, NEW s \in Dep, NEW need \in Gates,
              Rollback(d, s, need)
      PROVE  OverrideOwed'
  BY <1>23, <1>a, <1>b, <1>s, <1>t DEF Rollback, LockFree, NewRow, SetStatus,
      Admitted, Goto, process, appRow, OverrideOwed, Recovering, Active, InFlight,
      Terminal
<1>24. ASSUME NEW d \in Dep, NEW need \in Gates, Promote(d, need)
      PROVE  OverrideOwed'
  BY <1>24, <1>a, <1>b, <1>s, <1>t DEF Promote, LockFree, NewRow, SetStatus, Goto,
      process, appRow, OverrideOwed, Recovering, Active, InFlight, Terminal
<1>25. ASSUME NEW d \in Dep, ApproveDeployment(d)
      PROVE  OverrideOwed'
  BY <1>25, <1>a, <1>b, <1>s, <1>t DEF ApproveDeployment, LockFree, SetStatus,
      Goto, job, appRow, history, OverrideOwed, Recovering, Active, InFlight,
      Terminal
<1>26. ASSUME NEW d \in Dep, RejectDeployment(d)
      PROVE  OverrideOwed'
  BY <1>26, <1>a, <1>b, <1>s, <1>t DEF RejectDeployment, LockFree, Goto, job,
      rows, appRow, history, OverrideOwed, Recovering, Active, InFlight, Terminal
<1>27. ASSUME NEW d \in Dep, Cancel(d)
      PROVE  OverrideOwed'
  BY <1>27, <1>a, <1>b, <1>s, <1>t DEF Cancel, LockFree, Goto, process, rows,
      appRow, history, OverrideOwed, Recovering, Active, InFlight, Terminal
<1>28. ASSUME NEW srv \in Servers, NEW d \in Dep, NEW failed \in BOOLEAN,
               NEW stage \in {"build", "distribute", "rollout"},
               HandleDeployEvent(srv, d, stage, failed)
      PROVE  OverrideOwed'
  BY <1>28, <1>a, <1>b, <1>s, <1>t DEF HandleDeployEvent, LockFree, Goto, process,
      rows, appRow, history, OverrideOwed, Recovering, Active, InFlight, Terminal
<1>29. ASSUME NEW state \in {"running", "error"},
               NEW r \in {NoRev} \cup {i \in Dep : image[i]}, HandleAppStatus(state, r)
      PROVE  OverrideOwed'
  BY <1>29, <1>a, <1>b, <1>s, <1>t DEF HandleAppStatus, LockFree, Goto, job,
      process, rows, history, OverrideOwed, Recovering, Active, InFlight, Terminal
<1>30. CASE CallFails
  BY <1>30, <1>a, <1>b, <1>s, <1>t DEF CallFails, Goto, Return, process, rows,
      appRow, history, OverrideOwed, Recovering, Active, InFlight, Terminal
<1>31. ASSUME NEW d \in Dep, DecisionFails(d)
      PROVE  OverrideOwed'
  BY <1>31, <1>a, <1>b, <1>s, <1>t DEF DecisionFails, job, rows, appRow, history,
      OverrideOwed, Recovering, Active, InFlight, Terminal
<1>32. CASE Crash
  BY <1>32, <1>a, <1>b, <1>s, <1>t DEF Crash, Return, Goto, rows, appRow, history,
      OverrideOwed, Recovering, Active, InFlight, Terminal
<1>33. CASE Boot
  BY <1>33, <1>a, <1>b, <1>s, <1>t DEF Boot, job, rows, appRow, history,
      OverrideOwed, Recovering, Active, InFlight, Terminal
<1>34. ASSUME NEW d \in Dep, RecoverNext(d)
      PROVE  OverrideOwed'
  BY <1>34, <1>a, <1>b, <1>s, <1>t DEF RecoverNext, Goto, job, process, rows,
      appRow, history, OverrideOwed, Recovering, Active, InFlight, Terminal
<1>35. CASE UNCHANGED <<up, fault, pc, status, crashes, appStatus>>
  BY <1>35, <1>a, <1>b, <1>s, <1>t DEF OverrideOwed, Recovering, Active, InFlight,
      Terminal
<1> QED
  BY <1>1, <1>2, <1>3, <1>4, <1>5, <1>6, <1>7, <1>8, <1>9, <1>10, <1>11, <1>12,
     <1>13, <1>14, <1>15, <1>16, <1>17, <1>18, <1>19, <1>20, <1>21, <1>22, <1>23,
     <1>24, <1>25, <1>26, <1>27, <1>28, <1>29, <1>30, <1>31, <1>32, <1>33, <1>34,
     <1>35
     DEF Next, Step, Request, Report, Failure, vars, rows, appRow, history,
         process, job, DecideApproval

-----------------------------------------------------------------------------
\* The initial state satisfies the inductive invariant.
LEMMA InitHolds == Init => IInv
<1> SUFFICES ASSUME Init
             PROVE  IInv
  OBVIOUS
<1> USE ConstantsAssumption DEF Init
<1>1. TypeOK
  <2>1. RowTypes
    BY DEF RowTypes
  <2>2. AppTypes
    BY DEF AppTypes, AppStatuses, NoRev
  <2>3. ProcessTypes
    BY DEF ProcessTypes
  <2> QED
    BY <2>1, <2>2, <2>3 DEF TypeOK
<1>2. RowsInOrder /\ TracesFollowStages /\ QueueOrder
  BY DEF RowsInOrder, TracesFollowStages, QueueOrder, InFlight, NoRev, Dep
<1>3. GateRows /\ ImageRows
  BY DEF GateRows, GateRespected, ImageRows, DesiredIsBuilt
<1>4. EndingRows
  BY DEF EndingRows, CancelIsHonest, AnnouncedOnce, Terminal
<1>5. SnapStatus /\ SnapJob /\ JobStage /\ JobFirst
  BY DEF SnapStatus, SnapJob, Recovering, JobStage, JobFirst, StageOps, InFlight
<1>6. JobHead /\ QueueOwed /\ RolloutOwed /\ OverrideOwed
  BY DEF JobHead, QueueOwed, RolloutOwed, OverrideOwed, IsHead
<1> QED
  BY <1>1, <1>2, <1>3, <1>4, <1>5, <1>6 DEF IInv

\* Every step keeps the inductive invariant.
LEMMA StepHolds == IInv /\ [Next]_vars => IInv'
<1> SUFFICES ASSUME IInv, [Next]_vars
             PROVE  IInv'
  OBVIOUS
<1>1. TypeOK'
  BY TypeStep DEF IInv
<1>2. RowsInOrder'
  BY RowOrder, UnbornRows, RevExists DEF RowsInOrder
<1> QED
  BY <1>1, <1>2, TracesStep, GateStep, QueueStep, ImageStep, EndingStep, StageStep,
     FirstStep, SnapStep, SnapJobStep, HeadStep, OwedStep, RolloutStep, OverrideStep
     DEF IInv

\* The inductive invariant holds in every reachable state of the pipeline.
THEOREM Invariance == Spec => []IInv
  BY InitHolds, StepHolds, PTL DEF Spec

\* The pipeline's state is type-correct: in particular a handler always works on
\* a deployment that has a number.
THEOREM TypeCorrect == Spec => []TypeOK
<1>1. IInv => TypeOK
  BY DEF IInv
<1> QED
  BY <1>1, Invariance, PTL

\* Deploy protection is never bypassed by a decision: whatever crashes, fails or
\* interleaves, a deployment whose approval is pending or rejected has published
\* no work and never became desired state (park, ApproveDeployment, Recover).
THEOREM GateHolds == Spec => []GateRespected
<1>1. IInv => GateRespected
  BY DEF IInv, GateRows
<1> QED
  BY <1>1, Invariance, PTL

\* A deployment overtakes an older active one only when the older one was
\* released by an approver (tryStart, promoteNext, Recover).
THEOREM QueueOrderHolds == Spec => []QueueOrder
<1>1. IInv => QueueOrder
  BY DEF IInv
<1> QED
  BY <1>1, Invariance, PTL

\* "One active pipeline per app" holds for every application whose deployments
\* the gate let through, crashes and store errors included.
THEOREM OnePipelineHolds == Spec => []OnePipelineUngated
  BY OneUngated, Invariance, PTL

\* No wake-up is lost: whenever the lock is free and no call failed since the plane
\* booted, the head of the queue is running, however the deployment before it ended
\* and wherever the plane died (endActive, promoteNext, Cancel, Recover).
THEOREM NoStrandedQueueHolds == Spec => []NoStrandedQueue
<1>1. IInv => NoStrandedQueue
  BY DEF IInv, QueueOwed, WakeUpOwed, NoStrandedQueue, LockFree, Recovering
<1> QED
  BY <1>1, Invariance, PTL

\* The deploying override never outlives the pipeline that applied it, unless a
\* call failed or the plane died (start, clearDeployingStatus).
THEOREM OverrideTakenBackHolds == Spec => []OverrideTakenBack
<1>1. IInv => OverrideTakenBack
  BY DEF IInv, OverrideOwed, OverrideTakenBack, LockFree
<1> QED
  BY <1>1, Invariance, PTL

\* Once the lock is free, desired state names the revision that is rolling out,
\* also after a crash between the two writes of startRollout (Recover).
THEOREM RollingOutIsDesiredHolds == Spec => []RollingOutIsDesired
<1>1. IInv => RollingOutIsDesired
  BY DEF IInv, RolloutOwed, RollingOutIsDesired, LockFree, Recovering
<1> QED
  BY <1>1, Invariance, PTL

\* Desired state only ever names a revision that has an image (startRollout).
THEOREM DesiredIsBuiltHolds == Spec => []DesiredIsBuilt
<1>1. IInv => DesiredIsBuilt
  BY DEF IInv, ImageRows
<1> QED
  BY <1>1, Invariance, PTL

\* A rejected or cancelled deployment never shipped and is never announced
\* (Cancel, RejectDeployment, endActive).
THEOREM CancelHolds == Spec => []CancelIsHonest
<1>1. IInv => CancelIsHonest
  BY DEF IInv, EndingRows
<1> QED
  BY <1>1, Invariance, PTL

\* The notifier and the webhooks hear of a deployment's outcome at most once
\* (emitDeploy).
THEOREM AnnouncedOnceHolds == Spec => []AnnouncedOnce
<1>1. IInv => AnnouncedOnce
  BY DEF IInv, EndingRows
<1> QED
  BY <1>1, Invariance, PTL

\* The rank of each status.
LEMMA RankValues ==
  /\ Rank["none"] = 0 /\ Rank["queued"] = 1 /\ Rank["awaiting_approval"] = 1
  /\ Rank["building"] = 2 /\ Rank["distributing"] = 3 /\ Rank["rolling_out"] = 4
  /\ Rank["succeeded"] = 5 /\ Rank["failed"] = 5
  BY DEF Rank, Status, Active, InFlight, Terminal

\* Every step moves every deployment forward, and none out of a terminal status.
LEMMA ForwardStep ==
  IInv /\ [Next]_vars =>
    \A d \in Dep : /\ Rank[status[d]] <= Rank[status'[d]]
                   /\ status[d] \in Terminal => status'[d] = status[d]
<1> DEFINE Forward(x) == /\ Rank[status[x]] <= Rank[status'[x]]
                         /\ status[x] \in Terminal => status'[x] = status[x]
<1> SUFFICES ASSUME IInv, [Next]_vars, NEW x \in Dep
             PROVE  Forward(x)
  OBVIOUS
<1>a. /\ status \in [Dep -> Status \cup {"none"}]
      /\ pc # "idle" => cur \in Dep
  BY DEF IInv, TypeOK, RowTypes, AppTypes
<1>b. /\ pc \in StageOps => status[cur] \in Active
      /\ pc = "park" => status[cur] = "queued"
      /\ pc = "failParked" => status[cur] \in {"queued", "awaiting_approval"}
      /\ pc = "setBuilding" => status[cur] \in {"queued", "building"}
      /\ pc = "setDistributing" => status[cur] \in {"queued", "building", "distributing"}
  BY DEF IInv, JobStage
<1>c. status[x] \in InFlight \cup Terminal \cup {"queued", "awaiting_approval", "none"}
  BY <1>a DEF Status, Active
<1>r. \A s, t \in InFlight \cup Terminal \cup {"queued", "awaiting_approval", "none"} :
        /\ Rank[s] <= Rank[s]
        /\ s = "none" => Rank[s] <= Rank[t]
        /\ t \in Terminal => Rank[s] <= Rank[t]
        /\ s \in {"queued", "awaiting_approval"} /\ t # "none" => Rank[s] <= Rank[t]
        /\ s = "building" /\ t \in {"distributing", "rolling_out"} => Rank[s] <= Rank[t]
        /\ s = "distributing" /\ t = "rolling_out" => Rank[s] <= Rank[t]
  BY RankValues DEF InFlight, Terminal
<1>1. CASE Park
  BY <1>1, <1>a, <1>b, <1>c, <1>r DEF Park, At, SetStatus, Goto, StageOps, Active,
      InFlight, Terminal
<1>2. CASE FailParked
  BY <1>2, <1>a, <1>b, <1>c, <1>r DEF FailParked, At, SetStatus, Return, Goto,
      StageOps, Active, InFlight, Terminal
<1>3. CASE SetBuilding
  BY <1>3, <1>a, <1>b, <1>c, <1>r DEF SetBuilding, At, SetStatus, Goto, StageOps,
      Active, InFlight, Terminal
<1>4. CASE SetDistributing
  BY <1>4, <1>a, <1>b, <1>c, <1>r DEF SetDistributing, At, SetStatus, Goto,
      StageOps, Active, InFlight, Terminal
<1>5. CASE SetRollingOut
  BY <1>5, <1>a, <1>b, <1>c, <1>r DEF SetRollingOut, At, SetStatus, Goto, StageOps,
      Active, InFlight, Terminal
<1>6. CASE EndActive
  BY <1>6, <1>a, <1>b, <1>c, <1>r DEF EndActive, At, SetStatus, Goto, StageOps,
      Active, InFlight, Terminal
<1>7. CASE Complete
  BY <1>7, <1>a, <1>b, <1>c, <1>r DEF Complete, At, SetStatus, Goto, StageOps,
      Active, InFlight, Terminal
<1>8. ASSUME NEW d \in Dep, NEW need \in Gates, NEW imageSource \in BOOLEAN,
             Deploy(d, need, imageSource)
      PROVE  Forward(x)
  BY <1>8, <1>a, <1>b, <1>c, <1>r DEF Deploy, LockFree, NewRow, SetStatus,
      Admitted, Goto, StageOps, Active, InFlight, Terminal
<1>9. ASSUME NEW d \in Dep, NEW s \in Dep, NEW need \in Gates,
             Rollback(d, s, need)
      PROVE  Forward(x)
  BY <1>9, <1>a, <1>b, <1>c, <1>r DEF Rollback, LockFree, NewRow, SetStatus,
      Admitted, Goto, StageOps, Active, InFlight, Terminal
<1>10. ASSUME NEW d \in Dep, NEW need \in Gates, Promote(d, need)
      PROVE  Forward(x)
  BY <1>10, <1>a, <1>b, <1>c, <1>r DEF Promote, LockFree, NewRow, SetStatus, Goto,
      StageOps, Active, InFlight, Terminal
<1>11. ASSUME NEW d \in Dep, ApproveDeployment(d)
      PROVE  Forward(x)
  BY <1>11, <1>a, <1>b, <1>c, <1>r DEF ApproveDeployment, LockFree, SetStatus,
      Goto, job, StageOps, Active, InFlight, Terminal
<1>12. CASE UNCHANGED <<status>>
  BY <1>12, <1>a, <1>b, <1>c, <1>r DEF StageOps, Active, InFlight, Terminal
<1> QED
  BY <1>1, <1>2, <1>3, <1>4, <1>5, <1>6, <1>7, <1>8, <1>9, <1>10, <1>11, <1>12
     DEF Next, Step, Request, Report, Failure, vars, rows, SetArtifactServer,
         GatePark, TryStart, StartDeploying, SelectBuilder, PublishBuild, SetImage,
         PublishPush, PublishDistribute, SetDesired, PublishRollout,
         ClearDeploying, Announce, PromoteNext, DecideApproval, RejectDeployment,
         Cancel, HandleDeployEvent, HandleAppStatus, CallFails, Crash,
         DecisionFails, Boot, RecoverNext

\* A deployment only moves forward through its stages and its outcome is final,
\* whatever events are redelivered and whatever Recover re-drives.
THEOREM NeverRegressesHolds == Spec => NeverRegresses
<1>1. IInv /\ [Next]_vars =>
        [\A d \in Dep : /\ Rank[status[d]] <= Rank[status'[d]]
                        /\ status[d] \in Terminal => status'[d] = status[d]]_vars
  BY ForwardStep
<1> QED
  BY <1>1, Invariance, PTL DEF Spec, NeverRegresses

-----------------------------------------------------------------------------
(* The pipeline implements DeployPromise.                                  *)

\* What each status stands for in DeployPromise.
LEMMA Phases ==
  /\ PhaseOf("none") = "none" /\ PhaseOf("queued") = "waiting"
  /\ PhaseOf("awaiting_approval") = "held"
  /\ PhaseOf("building") = "preparing" /\ PhaseOf("distributing") = "preparing"
  /\ PhaseOf("rolling_out") = "shipping"
  /\ PhaseOf("succeeded") = "ended" /\ PhaseOf("failed") = "ended"
  BY DEF PhaseOf

\* A write of one row's status moves that deployment's phase and no other.
LEMMA PhaseMoves ==
  ASSUME status \in [Dep -> Status \cup {"none"}], NEW x \in Dep, NEW s, SetStatus(x, s)
  PROVE  Promise!Move(x, PhaseOf(s))
  BY DEF SetStatus, Promise!Move

\* A write that leaves a deployment in its phase is no step of DeployPromise.
LEMMA PhaseStays ==
  ASSUME status \in [Dep -> Status \cup {"none"}], NEW x \in Dep, NEW s, SetStatus(x, s),
         PhaseOf(status[x]) = PhaseOf(s)
  PROVE  [d \in Dep |-> PhaseOf(status[d])]' = [d \in Dep |-> PhaseOf(status[d])]
  BY DEF SetStatus

\* Every step of a handler, of Recover, of an approver or of a failure is a step
\* of DeployPromise or leaves what DeployPromise speaks of alone.
LEMMA PromiseStep == IInv /\ [Next]_vars => [Promise!PromiseNext]_(Promise!promiseVars)
<1> DEFINE Kept == [Promise!PromiseNext]_(Promise!promiseVars)
           phase == [d \in Dep |-> PhaseOf(status[d])]
<1> SUFFICES ASSUME IInv, [Next]_vars
             PROVE  Kept
  OBVIOUS
<1>s. status \in [Dep -> Status \cup {"none"}]
  BY DEF IInv, TypeOK, RowTypes
<1>t. /\ status \in [Dep -> InFlight \cup Terminal \cup {"queued", "awaiting_approval", "none"}]
      /\ emitted \in [Dep -> Nat]
      /\ pc # "idle" => cur \in Dep
  BY DEF IInv, TypeOK, RowTypes, AppTypes, Status, Active
<1>b. /\ pc = "park" => status[cur] = "queued"
      /\ pc = "failParked" => status[cur] \in {"queued", "awaiting_approval"}
      /\ pc \in StageOps => status[cur] \in Active
      /\ pc = "setBuilding" => status[cur] \in {"queued", "building"}
      /\ pc = "setDistributing" => status[cur] \in {"queued", "building", "distributing"}
      /\ pc \in {"setDesired", "complete"} => status[cur] = "rolling_out"
      /\ pc = "endCancelled" => status[cur] \in {"building", "distributing"}
      /\ pc = "announce" => ended[cur] \in {"failed", "succeeded"} /\ emitted[cur] = 0
  BY DEF IInv, JobStage
<1>n. \A x, e \in Dep : e < x /\ status[x] # "none" => status[e] # "none"
  BY DEF IInv, RowsInOrder
<1>h. pc \in {"setBuilding", "setDistributing", "setRollingOut"} /\ status[cur] = "queued" =>
        \A e \in Dep : e < cur => phase[e] \in {"held", "ended"}
  BY <1>n, <1>t, Phases DEF IInv, JobHead, Active, Terminal
<1>stay. ASSUME phase' = phase, UNCHANGED <<ended, emitted, desiredBy>>
         PROVE  Kept
  BY <1>stay DEF Promise!promiseVars
<1>1. CASE Park
  <2>1. Promise!Hold(cur)
    BY <1>1, <1>s, <1>t, <1>b, Phases, PhaseMoves DEF Park, At, Promise!Hold, appRow, history
  <2> QED
    BY <1>1, <1>t, <2>1 DEF Park, At, Promise!PromiseNext
<1>2. CASE FailParked
  <2>1. Promise!End(cur, "withdrawn")
    BY <1>2, <1>s, <1>t, <1>b, Phases, PhaseMoves
       DEF FailParked, At, Promise!End, Promise!MayEndAs, appRow
  <2> QED
    BY <1>2, <1>t, <2>1 DEF FailParked, At, Promise!PromiseNext
<1>3. CASE SetBuilding
  <2>1. CASE status[cur] = "queued"
    <3>1. Promise!Begin(cur, "preparing")
      BY <1>3, <2>1, <1>s, <1>t, <1>h, Phases, PhaseMoves
         DEF SetBuilding, At, Promise!Begin, appRow, history
    <3> QED
      BY <1>3, <1>t, <3>1 DEF SetBuilding, At, Promise!PromiseNext
  <2>2. CASE status[cur] = "building"
    BY <1>3, <2>2, <1>s, <1>t, <1>stay, Phases, PhaseStays DEF SetBuilding, At, appRow, history
  <2> QED
    BY <1>3, <1>b, <2>1, <2>2 DEF SetBuilding, At
<1>4. CASE SetDistributing
  <2>1. CASE status[cur] = "queued"
    <3>1. Promise!Begin(cur, "preparing")
      BY <1>4, <2>1, <1>s, <1>t, <1>h, Phases, PhaseMoves
         DEF SetDistributing, At, Promise!Begin, appRow, history
    <3> QED
      BY <1>4, <1>t, <3>1 DEF SetDistributing, At, Promise!PromiseNext
  <2>2. CASE status[cur] \in {"building", "distributing"}
    BY <1>4, <2>2, <1>s, <1>t, <1>stay, Phases, PhaseStays
       DEF SetDistributing, At, appRow, history
  <2> QED
    BY <1>4, <1>b, <2>1, <2>2 DEF SetDistributing, At
<1>5. CASE SetRollingOut
  <2>1. CASE status[cur] = "queued"
    <3>1. Promise!Begin(cur, "shipping")
      BY <1>5, <2>1, <1>s, <1>t, <1>h, Phases, PhaseMoves
         DEF SetRollingOut, At, Promise!Begin, appRow, history
    <3> QED
      BY <1>5, <1>t, <3>1 DEF SetRollingOut, At, Promise!PromiseNext
  <2>2. CASE status[cur] \in {"building", "distributing"}
    <3>1. Promise!Ship(cur)
      BY <1>5, <2>2, <1>s, <1>t, Phases, PhaseMoves
         DEF SetRollingOut, At, Promise!Ship, appRow, history
    <3> QED
      BY <1>5, <1>t, <3>1 DEF SetRollingOut, At, Promise!PromiseNext
  <2>3. CASE status[cur] = "rolling_out"
    BY <1>5, <2>3, <1>s, <1>t, <1>stay, Phases, PhaseStays
       DEF SetRollingOut, At, appRow, history
  <2> QED
    BY <1>5, <1>b, <2>1, <2>2, <2>3 DEF SetRollingOut, At, StageOps, Active, InFlight
<1>6. CASE SetDesired
  <2>1. Promise!Decide(cur)
    BY <1>6, <1>t, <1>b, Phases DEF SetDesired, At, Promise!Decide, rows, history
  <2> QED
    BY <1>6, <1>t, <2>1 DEF SetDesired, At, Promise!PromiseNext
<1>7. CASE EndActive
  <2>1. CASE pc = "endActive"
    <3>1. Promise!End(cur, "failed")
      BY <1>7, <2>1, <1>s, <1>t, <1>b, Phases, PhaseMoves
         DEF EndActive, At, Promise!End, Promise!MayEndAs, StageOps, Active, InFlight, appRow
    <3> QED
      BY <2>1, <1>t, <3>1 DEF Promise!PromiseNext
  <2>2. CASE pc = "endCancelled"
    <3>1. Promise!End(cur, "cancelled")
      BY <1>7, <2>2, <1>s, <1>t, <1>b, Phases, PhaseMoves
         DEF EndActive, At, Promise!End, Promise!MayEndAs, appRow
    <3> QED
      BY <2>2, <1>t, <3>1 DEF Promise!PromiseNext
  <2> QED
    BY <1>7, <2>1, <2>2 DEF EndActive, At
<1>8. CASE Complete
  <2>1. Promise!End(cur, "succeeded")
    BY <1>8, <1>s, <1>t, <1>b, Phases, PhaseMoves
       DEF Complete, At, Promise!End, Promise!MayEndAs, appRow
  <2> QED
    BY <1>8, <1>t, <2>1 DEF Complete, At, Promise!PromiseNext
<1>9. CASE Announce
  <2>1. Promise!Tell(cur)
    BY <1>9, <1>t, <1>b DEF Announce, At, Promise!Tell, rows, appRow, history
  <2> QED
    BY <1>9, <1>t, <2>1 DEF Announce, At, Promise!PromiseNext
<1>ask. ASSUME NEW d \in Dep, NewRow(d), UNCHANGED <<ended, emitted, desiredBy>>
        PROVE  Kept
  <2>1. Promise!Ask(d)
    <3>1. phase[d] = "none" /\ \A e \in Dep : e < d => phase[e] # "none"
      BY <1>ask, <1>t, Phases DEF NewRow, InFlight, Terminal
    <3>2. Promise!Move(d, "waiting")
      BY <1>ask, <1>s, Phases, PhaseMoves DEF NewRow
    <3> QED
      BY <1>ask, <3>1, <3>2 DEF Promise!Ask
  <2> QED
    BY <2>1 DEF Promise!PromiseNext
<1>10. ASSUME NEW d \in Dep, NEW need \in Gates, NEW imageSource \in BOOLEAN,
              Deploy(d, need, imageSource)
       PROVE  Kept
  BY <1>10, <1>ask DEF Deploy, appRow
<1>11. ASSUME NEW d \in Dep, NEW s \in Dep, NEW need \in Gates, Rollback(d, s, need)
       PROVE  Kept
  BY <1>11, <1>ask DEF Rollback, appRow
<1>12. ASSUME NEW d \in Dep, NEW need \in Gates, Promote(d, need)
       PROVE  Kept
  BY <1>12, <1>ask DEF Promote, appRow
<1>13. ASSUME NEW d \in Dep, ApproveDeployment(d)
       PROVE  Kept
  <2>1. CASE status[d] = "awaiting_approval"
    <3>1. Promise!Release(d)
      BY <1>13, <2>1, <1>s, Phases, PhaseMoves
         DEF ApproveDeployment, Promise!Release, appRow, history
    <3> QED
      BY <3>1 DEF Promise!PromiseNext
  <2>2. CASE status[d] # "awaiting_approval"
    BY <1>13, <2>2, <1>stay DEF ApproveDeployment, appRow, history
  <2> QED
    BY <2>1, <2>2
<1>14. CASE UNCHANGED <<status, ended, emitted, desiredBy>>
  BY <1>14, <1>stay
<1> QED
  BY <1>1, <1>2, <1>3, <1>4, <1>5, <1>6, <1>7, <1>8, <1>9, <1>10, <1>11, <1>12, <1>13,
     <1>14
     DEF Next, Step, Request, Report, Failure, vars, rows, appRow, history,
         SetArtifactServer, GatePark, TryStart, StartDeploying, SelectBuilder,
         PublishBuild, SetImage, PublishPush, PublishDistribute, PublishRollout,
         ClearDeploying, PromoteNext, DecideApproval, RejectDeployment, Cancel,
         HandleDeployEvent, HandleAppStatus, CallFails, Crash, DecisionFails, Boot,
         RecoverNext

\* The handlers, Recover and the approvers implement DeployPromise, for every number
\* of deployments, whatever crashes, fails or is redelivered.
THEOREM KeepsPromiseHolds == Spec => KeepsPromise
<1>1. Init => Promise!PromiseInit
  BY Phases DEF Init, Promise!PromiseInit
<1> QED
  BY <1>1, PromiseStep, Invariance, PTL DEF Spec, KeepsPromise, Promise!PromiseSpec
=============================================================================

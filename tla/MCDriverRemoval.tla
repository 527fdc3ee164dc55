--------------------------- MODULE MCDriverRemoval ---------------------------
(***************************************************************************)
(* Convergence of the docker driver under two restrictions of the same     *)
(* small instance.  A behaviour picks one and stays with it: versions and  *)
(* maintenance with every kind of mishap, or deploying and deleting with   *)
(* crashes of the agent.                                                   *)
(***************************************************************************)
EXTENDS MCDockerDriver

VARIABLE mode

Deployed == INSTANCE DockerDriver WITH Specs <- Maintenance, MaxChange <- 2, MaxCrash <- 1

Deleted == INSTANCE DockerDriver WITH Specs <- Removal, MaxFault <- 0, MaxDeath <- 0

ModeInit ==
  \/ mode = "deployed" /\ Deployed!Init
  \/ mode = "deleted" /\ Deleted!Init

ModeNext ==
  /\ UNCHANGED mode
  /\ \/ mode = "deployed" /\ Deployed!Next
     \/ mode = "deleted" /\ Deleted!Next

ModePass ==
  /\ UNCHANGED mode
  /\ \/ mode = "deployed" /\ Deployed!Pass
     \/ mode = "deleted" /\ Deleted!Pass

ModeSpec == ModeInit /\ [][ModeNext]_<<mode, vars>> /\ WF_<<mode, vars>>(ModePass)
=============================================================================

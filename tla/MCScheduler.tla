---------------------------- MODULE MCScheduler ----------------------------
(***************************************************************************)
(* The deploy pipeline on small instances.  The Scheduler*.cfg files give  *)
(* the constants their values: two or three deployments, one server or a   *)
(* target and a remote builder, and which of the hard things may happen.   *)
(***************************************************************************)
EXTENDS Scheduler

\* The last deployment is created only while none went through the gate: the
\* queue is checked for MaxDeploy deployments, the gate for one fewer.
FewerWhenGated == (\E d \in Dep : gated[d]) => status[MaxDeploy] = "none"

QueueNext == Next /\ FewerWhenGated'

QueueSpec == Init /\ [][QueueNext]_vars
=============================================================================

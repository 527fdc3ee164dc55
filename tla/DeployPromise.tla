--------------------------- MODULE DeployPromise ---------------------------
(***************************************************************************)
(* What the deploy pipeline promises the people who use it, with no        *)
(* handler, no lock, no message and no crash in it: the life of the        *)
(* deployments of one application.                                         *)
(*                                                                         *)
(* A deployment is asked for, perhaps held for an approver, starts when    *)
(* nothing older is in front of it, ships once, ends in one way, and what  *)
(* it ended as is announced at most once.  Module Scheduler is shown to    *)
(* implement this, whatever fails, crashes or is redelivered.              *)
(***************************************************************************)
EXTENDS Naturals

CONSTANT Deployments     \* numbered in the order they are asked for

VARIABLES
  phase,      \* where each deployment is
  outcome,    \* how it ended
  announced,  \* the times its end was announced
  live        \* the deployment that decided what should run, 0 before the first

promiseVars == <<phase, outcome, announced, live>>

PromiseInit ==
  /\ phase = [d \in Deployments |-> "none"]
  /\ outcome = [d \in Deployments |-> "none"]
  /\ announced = [d \in Deployments |-> 0]
  /\ live = 0

Move(d, to) == phase' = [phase EXCEPT ![d] = to]

\* Asked for, in order: it waits in the queue.
Ask(d) ==
  /\ phase[d] = "none" /\ \A e \in Deployments : e < d => phase[e] # "none"
  /\ Move(d, "waiting")
  /\ UNCHANGED <<outcome, announced, live>>

\* Held for an approver, and released by one.
Hold(d) ==
  /\ phase[d] = "waiting" /\ Move(d, "held")
  /\ UNCHANGED <<outcome, announced, live>>

Release(d) ==
  /\ phase[d] = "held" /\ Move(d, "waiting")
  /\ UNCHANGED <<outcome, announced, live>>

\* It starts preparing its image, or shipping it at once, when no older
\* deployment waits or runs.
Begin(d, to) ==
  /\ phase[d] = "waiting"
  /\ \A e \in Deployments : e < d => phase[e] \in {"held", "ended"}
  /\ to \in {"preparing", "shipping"} /\ Move(d, to)
  /\ UNCHANGED <<outcome, announced, live>>

Ship(d) ==
  /\ phase[d] = "preparing" /\ Move(d, "shipping")
  /\ UNCHANGED <<outcome, announced, live>>

\* Only a deployment that ships decides what should run.
Decide(d) ==
  /\ phase[d] = "shipping" /\ live' = d
  /\ UNCHANGED <<phase, outcome, announced>>

\* It ends once: withdrawn before it started, cancelled before it shipped,
\* succeeded after it shipped, failed at any point of its run.
MayEndAs(d, end) ==
  \/ end = "withdrawn" /\ phase[d] \in {"waiting", "held"}
  \/ end = "cancelled" /\ phase[d] = "preparing"
  \/ end = "succeeded" /\ phase[d] = "shipping"
  \/ end = "failed" /\ phase[d] \in {"waiting", "preparing", "shipping"}

End(d, end) ==
  /\ MayEndAs(d, end)
  /\ Move(d, "ended")
  /\ outcome' = [outcome EXCEPT ![d] = end]
  /\ UNCHANGED <<announced, live>>

Tell(d) ==
  /\ outcome[d] \in {"failed", "succeeded"} /\ announced[d] = 0
  /\ announced' = [announced EXCEPT ![d] = 1]
  /\ UNCHANGED <<phase, outcome, live>>

PromiseNext ==
  \E d \in Deployments :
    \/ Ask(d) \/ Hold(d) \/ Release(d) \/ Ship(d) \/ Decide(d) \/ Tell(d)
    \/ \E to \in {"preparing", "shipping"} : Begin(d, to)
    \/ \E end \in {"withdrawn", "cancelled", "failed", "succeeded"} : End(d, end)

PromiseSpec == PromiseInit /\ [][PromiseNext]_promiseVars
=============================================================================

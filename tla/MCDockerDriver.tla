--------------------------- MODULE MCDockerDriver ---------------------------
(***************************************************************************)
(* The docker driver on small instances: which desired states the worker   *)
(* moves the application through, the rest is in the cfg files.            *)
(***************************************************************************)
EXTENDS DockerDriver, TLC

\* The addresses of the network are interchangeable.
Addresses == Permutations(Address)

Desire(v, n, routed, maint) == [ver |-> v, idx |-> 1..n, routed |-> routed, maint |-> maint]

\* One replica behind a domain, two versions.
Rollouts == {Desire("v1", 1, TRUE, FALSE), Desire("v2", 1, TRUE, FALSE)}

\* Scaling between one and two replicas, losing the domain, and deleting.
Scaling == {Desire("v1", 1, TRUE, FALSE), Desire("v2", 2, TRUE, FALSE),
            Desire("v2", 1, FALSE, FALSE), Absent}

\* Going into maintenance, deploying underneath, and leaving it.
Maintenance == Rollouts \cup {Desire("v1", 1, TRUE, TRUE), Desire("v2", 1, TRUE, TRUE)}

\* Deploying and deleting.
Removal == {Desire("v1", 1, TRUE, FALSE), Absent}

AnySpec == Maintenance \cup Removal
=============================================================================

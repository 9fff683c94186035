------------------------- MODULE MCSandboxResources -------------------------
(* SandboxResources for TLC.  Quotas and the period are in milliseconds.   *)
EXTENDS SandboxResources, TLC

Half == [quota |-> 50, cpus |-> 0, limit |-> 1]
Most == [quota |-> 150, cpus |-> 0, limit |-> -1]   \* and no limit
Pinned == [quota |-> 0, cpus |-> 2, limit |-> 2]
MCRequests == {NoRequest, Half, Pinned}
Unparsable == [quota |-> 0, cpus |-> BadCpuset, limit |-> 0]
MCUpdates == {Most, Unparsable}
\* The sums do not depend on the order of the containers.
AppSymmetry == Permutations(Apps)
=============================================================================

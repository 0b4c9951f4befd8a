-------------------------- MODULE MCMissionBudget --------------------------
EXTENDS MissionBudget, TLC

CONSTANTS a1, a2, worker, p1, p2, pool

MCAttempts == {a1, a2}
MCIds == {a1, a2, worker}

\* a2 runs under a key of its own, a1 under the key it reserved.
MCPhysical == [a \in {a1, a2} |-> IF a = a2 THEN worker ELSE a]

MCProcesses == {p1, p2, pool}
MCPools == {pool}
\* The processes that are no pools do the same things.
MCSymmetry == Permutations({p1, p2})

MCCaps == {1, 2}
MCReserves == {0, 1}

=============================================================================

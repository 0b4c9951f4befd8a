-------------------------- MODULE MCSwarmCoordinator --------------------------
(* Small runs of the coordinator for TLC. *)
EXTENDS SwarmCoordinator, TLC

CONSTANTS build, review, w1, w2, report, MaxTime

MCTasks == {build, review}
MCWorkers == {w1, w2}

\* review waits for build.
MCDependsOn == [t \in MCTasks |-> IF t = review THEN {build} ELSE {}]

MCWorkspaceTasks == {build}

\* Two claims in all: both of build, or one of each task; the first may be renewed.
MCTwoClaims == /\ attempts[build] + attempts[review] <= 2
               /\ \A c \in ClaimIds : renewals[c] > 0 => c = <<build, 1>>

MCSymmetry == Permutations(MCWorkers)

MCArtifacts == {report}
MCClock == 0..MaxTime

=============================================================================

---------------------------- MODULE MCSwarmFrames ----------------------------
(* One task, one worker and a few messages for TLC. *)
EXTENDS SwarmFrames, TLC

CONSTANTS build, w1, report, m1, m2, m3, m4, MaxTime

MCTasks == {build}
MCDependsOn == [t \in MCTasks |-> {}]
MCWorkers == {w1}
MCNone == {}
MCArtifacts == {report}
MCMessages == {m1, m2, m3, m4}
MCClock == 0..MaxTime
MCSymmetry == Permutations(MCMessages)

=============================================================================

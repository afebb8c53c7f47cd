---------------------------- MODULE MCJobSystem -----------------------------
(* Values for JobSystem's constants.                                       *)
EXTENDS JobSystem, TLC

RequestSymmetry == Permutations(Request)

TwoIds == 1..2
FourIds == 1..4

\* Any number of workers draining one queue.
Twins == {"server", "laptop"}
TwinKinds == [w \in Twins |-> Kind]

\* The deployed pair.
Deployed == {"worker", "checker"}
DeployedKinds ==
  [w \in Deployed |-> IF w = "worker" THEN {"backtest", "sweep"} ELSE {"check"}]

\* The deployment without its checker.
Alone == {"worker"}
AloneKinds == [w \in Alone |-> {"backtest", "sweep"}]
=============================================================================

---------------------------- MODULE MCRunRecords ----------------------------
(* Values for RunRecords' constants.                                       *)
EXTENDS RunRecords, TLC

TwoIds == 1..2
ThreeIds == 1..3

Bars == 9..10

\* split() on a daily series this short: a quarter of the span is held out,
\* train is the first 0.7 of the rest; boundaries snap back to a bar.
Split == [a \in Bars |-> [from |-> 0, mid |-> (21 * a) \div 40, to |-> (3 * a) \div 4]]

Dragged == {[from |-> 1, mid |-> 3, to |-> 6]}
NeverDragged == {}

\* Every worker runs backtests and sweeps, as the deployed one does.
Both == [w \in Worker |-> {"backtest", "sweep"}]
WorkerSymmetry == Permutations(Worker)
=============================================================================

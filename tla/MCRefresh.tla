------------------------------ MODULE MCRefresh -----------------------------
(* Values for Refresh's constants: ticks of five minutes.                  *)
EXTENDS Refresh

\* A 15-minute and a 5-minute series.
Steps == [s \in {"fine", "coarse"} |-> IF s = "coarse" THEN 3 ELSE 1]
Ranks == [s \in {"fine", "coarse"} |-> IF s = "coarse" THEN 0 ELSE 1]
=============================================================================

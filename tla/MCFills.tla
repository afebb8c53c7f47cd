------------------------------ MODULE MCFills -------------------------------
(* Values for Fills' constants.                                            *)
EXTENDS Fills

ThreePrices == {8, 16, 24}

\* Nothing, each flag alone, both entries at once, and the two crosses that
\* close one side and open the other.
SomeFlags == {{}, {"el"}, {"es"}, {"el", "es"}, {"xl"}, {"xl", "es"}, {"xs", "el"}}

Walks == [fill_open: BOOLEAN, close_open: BOOLEAN, slip: {0, 1},
          stop_gap: BOOLEAN, liquidate: BOOLEAN, max_bars: {-1, 1},
          stop: {"none", "pct", "atr"}, target: {"none", "pct"}, frac: {1, 2}]

\* The combinations that differ in more than one rule: leverage with
\* liquidation, protective levels with slippage, the two ways to end.
SomeWalks ==
  {s \in Walks :
     /\ (s.slip = 1) = (s.stop = "atr")
     /\ s.stop_gap = (s.stop # "atr")
     /\ (s.frac = 2) = s.liquidate
     /\ (s.max_bars = 1) = (s.stop = "atr")
     /\ s.close_open => s.target = "none"}
=============================================================================

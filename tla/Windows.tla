------------------------------ MODULE Windows -------------------------------
(***************************************************************************)
(* engine/windows.py: train, test and holdout, cut from the opening times  *)
(* of the bars held, an increasing sequence ts.  A window is <<first,      *)
(* last>>, both the opening time of a bar.                                 *)
(***************************************************************************)
EXTENDS Integers, Sequences, FiniteSets, FiniteSetsExt

CONSTANTS HoldoutDays,      \* 365, in the unit of the times
          MinWindowBars,    \* MIN_WINDOW_BARS
          MinSeries         \* the fewest bars load_series and split accept

\* All three are positive numbers in the code, and no series of one bar is cut.
ASSUME WindowsAssumption ==
  /\ HoldoutDays \in Nat \ {0} /\ MinWindowBars \in Nat \ {0}
  /\ MinSeries \in Nat /\ MinSeries >= 2

Refused == [train |-> <<>>, test |-> <<>>, holdout |-> <<>>]
NoWindows == [train |-> <<>>, test |-> <<>>]      \* none asked for

\* searchsorted: how many bars open at or before t, and before t.
AtOrBefore(ts, t) == Cardinality({i \in DOMAIN ts : ts[i] <= t})
Before(ts, t) == Cardinality({i \in DOMAIN ts : ts[i] < t})

\* Times inside split() are fractions of a bar: they count in 400ths.
Grain == 400
Fine(ts) == [i \in DOMAIN ts |-> Grain * ts[i]]
SnapBack(ts, t) == ts[Max({1, AtOrBefore(Fine(ts), t)})]
SnapAfter(ts, t) == ts[Min({Len(ts), AtOrBefore(Fine(ts), t) + 1})]

split(ts) ==
  LET first      == ts[1]
      last       == ts[Len(ts)]
      hold       == Min({Grain * HoldoutDays, (Grain \div 4) * (last - first)})
      hold_start == Grain * last - hold
      train_end  == SnapBack(ts, Grain * first + ((hold_start - Grain * first) * 7) \div 10)
      test_end   == SnapBack(ts, hold_start)
  IN [train   |-> <<first, train_end>>,
      test    |-> <<SnapAfter(ts, Grain * train_end), test_end>>,
      holdout |-> <<SnapAfter(ts, Grain * test_end), last>>]

\* The latest bar test may end on.
LastOpen(ts) ==
  IF Len(ts) > MinWindowBars + 1 THEN Max({split(ts).test[2], ts[Len(ts) - MinWindowBars]})
  ELSE split(ts).test[2]

\* The bars of a window: starts snap forward, ends back.
index_range(ts, w) == <<Before(ts, w[1]) + 1, AtOrBefore(ts, w[2])>>
Bars(ts, w) == index_range(ts, w)[2] - index_range(ts, w)[1] + 1

Ordered(ts, w) ==
  /\ \A p \in {w.train, w.test} : p[1] <= p[2] /\ p[1] >= ts[1]
  /\ AtOrBefore(ts, w.test[2]) <= AtOrBefore(ts, LastOpen(ts))
  /\ w.train[2] < w.test[1]

AdjacentNot(ts, w) == TRUE            \* mutant: bars may lie between train and test
Adjacent(ts, w) == index_range(ts, w.test)[1] = index_range(ts, w.train)[2] + 1

LongOver(ts, w) == \A p \in {w.train, w.test} : Bars(ts, p) > MinWindowBars   \* mutant
LongEnough(ts, w) == \A p \in {w.train, w.test} : Bars(ts, p) >= MinWindowBars

\* The default split with train and test moved; the default when they are not.
custom(ts, w) ==
  LET Snapped(p) == <<ts[index_range(ts, p)[1]], ts[index_range(ts, p)[2]]>>
      base       == split(ts)
  IN CASE w = NoWindows -> base
       [] w # NoWindows /\ ~( /\ Ordered(ts, w) /\ Bars(ts, w.train) > 0 /\ Bars(ts, w.test) > 0
                              /\ Adjacent(ts, w)) -> Refused
       [] OTHER ->
          LET train == Snapped(w.train)    test == Snapped(w.test)
          IN IF <<train, test>> = <<base.train, base.test>> THEN base
             ELSE IF ~LongEnough(ts, w) THEN Refused
             ELSE [train |-> train, test |-> test,
                   holdout |-> <<ts[AtOrBefore(ts, test[2]) + 1], ts[Len(ts)]>>]

full(s) == <<s.train[1], s.test[2]>>
through(s) == <<s.train[1], s.holdout[2]>>
=============================================================================

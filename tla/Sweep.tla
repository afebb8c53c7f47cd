------------------------------- MODULE Sweep --------------------------------
(***************************************************************************)
(* A Pine sweep after its runs: pine/program.py cuts train and test out of *)
(* one run per combination, and engine/jobs.py _ranked orders them.  A run *)
(* is [equity, trades]: the account at each bar, and <<entry bar, exit     *)
(* bar>> of each trade.                                                    *)
(***************************************************************************)
EXTENDS Integers, Sequences, FiniteSets, FiniteSetsExt, TLC

Opening(run, i0) == run.equity[Max({1, i0 - 1})]
EnteredOrHeld(run, i0, i1) == {t \in run.trades : t[2] >= i0 /\ t[1] <= i1}   \* mutant
Entered(run, i0, i1) == {t \in run.trades : t[1] >= i0 /\ t[1] <= i1}

\* fills_from and metrics.compute over the window i0..i1; an account that is
\* gone before the window starts has nothing to return.
Cut(run, i0, i1) ==
  LET cap   == Opening(run, i0)
      final == run.equity[i1]
  IN IF cap <= 0 THEN [net |-> -100, ruin |-> TRUE, trades |-> 0]
     ELSE [net |-> (100 * (final - cap)) \div cap,
           ruin |-> \E i \in i0..i1 : run.equity[i] <= 0,
           trades |-> Cardinality(Entered(run, i0, i1))]

\* _ranked's sort key: `net_pct or -1e18`.
Least == -1000000
Key(m) == <<IF m.ruin THEN 0 ELSE 1, IF m.net = 0 THEN Least ELSE m.net>>
Above(a, b) == a[1] > b[1] \/ (a[1] = b[1] /\ a[2] > b[2])

\* The order of the rows: best first, equals as they stand in the grid.
Ranked(ms) ==
  SortSeq([k \in DOMAIN ms |-> k],
          LAMBDA j, k : \/ Above(Key(ms[j]), Key(ms[k]))
                        \/ Key(ms[j]) = Key(ms[k]) /\ j < k)
=============================================================================

------------------------------ MODULE Verdict -------------------------------
(***************************************************************************)
(* verdict/__init__.py and verdict/rules.py: what a sweep's checks make of  *)
(* it.  Probabilities are percentages; NoValue is a check that could not   *)
(* run.  The statistics themselves (cscv.py, dsr.py, walkforward.py) are   *)
(* the inputs of this module.                                              *)
(***************************************************************************)
EXTENDS Integers, Sequences, FiniteSets

CONSTANTS NoValue, MinTrades

Folds == 5
PboFail == 50
PboWarn == 20
DsrFail == 50
DsrPass == 95
MinPositive == 3
High == 30
Mid == 12

\* round(): halves to the even number.
Rounded(a, b) == LET q == a \div b    r == 2 * (a % b)
                 IN IF r > b \/ (r = b /\ q % 2 = 1) THEN q + 1 ELSE q

\* wf is NoValue or [oos |-> percentage, positive |-> folds that made money].
WalkForwardStatus(wf) == CASE wf = NoValue -> "na" [] wf # NoValue /\ wf.oos <= 0 -> "fail"
                           [] OTHER -> IF wf.positive < MinPositive THEN "warn" ELSE "pass"
PboStatusLax(p) == CASE p = NoValue -> "na" [] OTHER -> IF p > PboFail THEN "fail" ELSE "pass"
PboStatus(p) == CASE p = NoValue -> "na"
                  [] OTHER -> IF p >= PboFail THEN "fail" ELSE IF p >= PboWarn THEN "warn" ELSE "pass"
DsrStatus(d) == CASE d = NoValue -> "na"
                  [] OTHER -> IF d < DsrFail THEN "fail" ELSE IF d < DsrPass THEN "warn" ELSE "pass"

grid_checks(wf, p, thin) ==
  [walk_forward |-> [status |-> WalkForwardStatus(wf), value |-> wf],
   pbo          |-> [status |-> PboStatus(p), value |-> p],
   sample       |-> [status |-> IF thin THEN "warn" ELSE "pass", value |-> NoValue]]
row_checks(d, trades) ==
  [dsr    |-> [status |-> DsrStatus(d), value |-> d],
   trades |-> [status |-> IF trades < MinTrades THEN "warn" ELSE "pass", value |-> trades]]
Joint(g, r) == [walk_forward |-> g.walk_forward, pbo |-> g.pbo, sample |-> g.sample,
                dsr |-> r.dsr, trades |-> r.trades]

\* The three probabilities, in ten-thousandths, and their product.
factors(c) ==
  [dsr          |-> IF c.dsr.value = NoValue THEN 0 ELSE 100 * c.dsr.value,
   pbo          |-> IF c.pbo.value = NoValue THEN 5000 ELSE 100 * (100 - c.pbo.value),
   walk_forward |-> IF c.walk_forward.value = NoValue THEN 5000
                    ELSE Rounded(10000 * (c.walk_forward.value.positive + 1), Folds + 2)]
score(c) == LET f == factors(c)
            IN Rounded((f.dsr \div 100) * (f.pbo \div 100) * f.walk_forward, 1000000)
band(s) == IF s >= High THEN "high" ELSE IF s >= Mid THEN "mid" ELSE "low"

\* The reason names the first of these that applies.
SERIOUS == << <<"pbo", "fail">>, <<"walk_forward", "fail">>, <<"dsr", "fail">>,
              <<"sample", "warn">>, <<"trades", "warn">>, <<"pbo", "warn">>, <<"dsr", "warn">>,
              <<"walk_forward", "warn">>, <<"pbo", "na">>, <<"walk_forward", "na">>, <<"dsr", "na">> >>
HeldUp == <<"all", "pass">>
reason(c) ==
  LET found == {k \in DOMAIN SERIOUS : c[SERIOUS[k][1]].status = SERIOUS[k][2]}
  IN IF found = {} THEN HeldUp ELSE SERIOUS[CHOOSE k \in found : \A j \in found : k <= j]

row_entry(c, params) ==
  [score |-> score(c), band |-> band(score(c)), reason |-> reason(c), dsr |-> c.dsr.value,
   params |-> params]

\* order gives the combination at each rank; dsr and trades, that combination's own.
evaluate(order, wf, p, thin, dsr, trades) ==
  LET grid == grid_checks(wf, p, thin)
      At(k) == Joint(grid, row_checks(dsr[k], trades[k]))
  IN [score |-> score(At(1)), band |-> band(score(At(1))), reason |-> reason(At(1)),
      checks |-> At(1), rows |-> [k \in DOMAIN order |-> row_entry(At(k), order[k])]]

rescoreAsHead(v) ==           \* mutant: every row re-scored with the headline's Sharpe
  [v EXCEPT !.rows = [k \in DOMAIN v.rows |-> row_entry(v.checks, v.rows[k].params)]]

\* From the stored numbers; a row did not keep its own trade count.
rescore(v) ==
  LET Again(r) == row_entry(Joint(v.checks, row_checks(r.dsr, v.checks.trades.value)), r.params)
  IN [v EXCEPT !.score = score(v.checks), !.band = band(score(v.checks)),
               !.reason = reason(v.checks),
               !.rows = [k \in DOMAIN v.rows |-> Again(v.rows[k])]]
=============================================================================

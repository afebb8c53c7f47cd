------------------------------ MODULE Pragmas -------------------------------
(***************************************************************************)
(* pine/pragmas.py: the sweep a Pine script declares in its comment lines. *)
(* An input is [title, type, min, max, default], keyed by its variable; a  *)
(* grid line is [name, list], or [name, lo, hi, step] for a range, and a   *)
(* constraint <<a, operator, b>> on two operands, [name] for a variable or *)
(* [value] for a number.  A script is [inputs, grids, constraints], both   *)
(* kinds of line as sequences.                                             *)
(***************************************************************************)
EXTENDS Integers, Sequences, FiniteSets, SequencesExt

CONSTANTS MaxValues, MaxCombinations

IsRange(g) == "step" \in DOMAIN g

\* _values, and what it refuses.
Values(g) == IF IsRange(g) THEN [k \in 1..(g.hi - g.lo) \div g.step + 1 |-> g.lo + (k - 1) * g.step]
             ELSE g.list
Written(g) == IF IsRange(g) THEN g.step > 0 /\ g.hi >= g.lo /\ Len(Values(g)) <= MaxValues
              ELSE IsInjective(g.list) /\ Len(g.list) <= MaxValues

\* A line that names a numeric input not yet declared and stays in its range.
Fits(script, k) ==
  LET g == script.grids[k]
  IN /\ g.name \in DOMAIN script.inputs
     /\ \A j \in 1..k - 1 : script.grids[j].name # g.name
     /\ script.inputs[g.name].type \in {"int", "float"}
     /\ \A v \in ToSet(Values(g)) : script.inputs[g.name].min <= v /\ v <= script.inputs[g.name].max

defaults(script) ==
  [n \in {m \in DOMAIN script.inputs : script.inputs[m].type \in {"int", "float"}}
     |-> script.inputs[n].default]

Named(c) == {k \in {1, 3} : "name" \in DOMAIN c[k]}

\* A variable that is no number has no value, and satisfies nothing.
Satisfies(c, p) ==
  /\ \A k \in Named(c) : c[k].name \in DOMAIN p
  /\ LET Of(k) == IF k \in Named(c) THEN p[c[k].name] ELSE c[k].value
     IN CASE c[2] = "<"  -> Of(1) < Of(3)  [] c[2] = ">"  -> Of(1) > Of(3)
          [] c[2] = "<=" -> Of(1) <= Of(3) [] c[2] = ">=" -> Of(1) >= Of(3)
          [] c[2] = "==" -> Of(1) = Of(3)  [] c[2] = "!=" -> Of(1) # Of(3)

\* The product of the lines, in declaration order: the last one varies fastest.
Product(script) ==
  LET Line(k) == Values(script.grids[k])
  IN FoldLeft(LAMBDA rows, k : FlattenSeq([r \in DOMAIN rows |->
                [v \in DOMAIN Line(k) |-> [rows[r] EXCEPT ![script.grids[k].name] = Line(k)[v]]]]),
              <<defaults(script)>>, [k \in DOMAIN script.grids |-> k])
Combos(script) ==
  SelectSeq(Product(script), LAMBDA p : \A k \in DOMAIN script.constraints :
                                          Satisfies(script.constraints[k], p))

Scored(script) == script.grids # <<>>
Builds(script) ==
  /\ \A k \in DOMAIN script.grids : Written(script.grids[k]) /\ Fits(script, k)
  /\ \A k \in DOMAIN script.constraints : \A j \in Named(script.constraints[k]) :
       script.constraints[k][j].name \in DOMAIN script.inputs
  /\ Scored(script) => Len(Combos(script)) \in 1..MaxCombinations

\* What the compiled script is given: it reads its inputs by title.  (Two inputs of
\* one title would share a value; nothing refuses them, and none is taken here.)
as_runtime_inputs(script, p) == {<<script.inputs[n].title, p[n]>> : n \in DOMAIN p}
=============================================================================

-------------------------------- MODULE Spec --------------------------------
(***************************************************************************)
(* engine/spec.py: a strategy as data: its validation, its grid and the    *)
(* binding of parameters and names.                                        *)
(*                                                                         *)
(* A document is [indicators, rules, stop, take_profit, max_bars, allow,   *)
(* defaults, grid, constraints], with Leaf for an exit it does not have.   *)
(* A constraint is <<a, operator, b>> on parameters and numbers.           *)
(***************************************************************************)
EXTENDS Catalog, SequencesExt, Relation

CONSTANT MaxValues      \* the most values of one grid line
-----------------------------------------------------------------------------
(* Validation. *)

RECURSIVE WellScalar(_), WellValue(_, _), WellCondition(_, _)

\* The arguments of arithmetic are not held against the catalog here, and an option
\* that is a string is no scalar.
WellScalar(n) == \/ n.fn \in {"num", "$"}
                 \/ /\ n.fn \in Arithmetic
                    /\ n.out = "" /\ n.tf = 0
                    /\ \A k \in DOMAIN n.a : WellScalar(n.a[k])

WellValue(n, names) ==
  CASE n.fn \in {"num", "$"} -> TRUE
    [] n.fn = "str"          -> n.s \in SOURCES \cup names
    [] OTHER ->
       /\ n.fn \in DOMAIN CATALOG
       /\ DOMAIN n.a \subseteq DOMAIN CATALOG[n.fn]
       /\ \A k \in DOMAIN CATALOG[n.fn] :
            IF k \notin DOMAIN n.a THEN CATALOG[n.fn][k][2] # REQUIRED
            ELSE CASE CATALOG[n.fn][k][1] = "C" -> WellCondition(n.a[k], names)
                   [] CATALOG[n.fn][k][1] = "L" -> WellScalar(n.a[k])
                   [] CATALOG[n.fn][k][1] = "S" -> WellValue(n.a[k], names)
       /\ n.out # "" => n.fn \in DOMAIN Outputs /\ n.out \in ToSet(Outputs[n.fn])
       /\ n.tf = 0 \/ n.mult = 0
       /\ n.mult = 0 \/ n.mult >= 2

WellCondition(n, names) ==
  /\ n.fn \in CONDITIONS
  /\ CASE n.fn \in {"true", "false"} -> TRUE
       [] n.fn = "not"              -> WellCondition(n.a[1], names)
       [] n.fn \in {"all", "any"}   -> n.a # <<>> /\ \A k \in DOMAIN n.a : WellCondition(n.a[k], names)
       [] OTHER ->
          /\ Len(n.a) = IF n.fn = "between" THEN 3 ELSE 2
          /\ \A k \in DOMAIN n.a : IF n.fn \in TREND /\ k = 2 THEN WellScalar(n.a[k])
                                                          ELSE WellValue(n.a[k], names)

\* A level is "pct" with a value or "atr" with a multiple and a length.
WellExit(n) == n = Leaf \/ /\ n.fn \in {"pct", "atr"}
                           /\ {IF n.fn = "pct" THEN "value" ELSE "mult"} \subseteq DOMAIN n.a
                           /\ \A k \in DOMAIN n.a : WellScalar(n.a[k])

\* Names and parameters mentioned in a node.
RECURSIVE Mentions(_, _)
Mentions(n, leaf) == IF n.fn = leaf THEN {n.s}
                     ELSE UNION {Mentions(n.a[k], leaf) : k \in DOMAIN n.a}


Acyclic(inds) ==
  LET names == DOMAIN inds
      refs  == {<<k, d>> \in names \X names : d \in Mentions(inds[k], "str")}
  IN \A k \in names : ~TransitiveClosure([x \in names \X names |-> x \in refs], names)[k, k]

Rules == {"entry_long", "exit_long", "entry_short", "exit_short"}
Nodes(spec) == {spec.indicators[k] : k \in DOMAIN spec.indicators}
               \cup {spec.rules[r] : r \in DOMAIN spec.rules}
               \cup {spec.stop, spec.take_profit, spec.max_bars}

WayOut(spec, entry, exit) ==
  entry \in DOMAIN spec.rules =>
    exit \in DOMAIN spec.rules \/ {spec.stop, spec.take_profit, spec.max_bars} # {Leaf}

Validate(spec) ==
  LET names == DOMAIN spec.indicators
  IN /\ names \cap SOURCES = {}
     /\ \A k \in names : WellValue(spec.indicators[k], names)
     /\ Acyclic(spec.indicators)
     /\ DOMAIN spec.rules \cap {"entry_long", "entry_short"} # {}
     /\ \A r \in DOMAIN spec.rules : WellCondition(spec.rules[r], names)
     /\ WayOut(spec, "entry_long", "exit_long") /\ WayOut(spec, "entry_short", "exit_short")
     /\ WellExit(spec.stop) /\ WellExit(spec.take_profit)
     /\ spec.max_bars = Leaf \/ WellScalar(spec.max_bars)
     /\ \A k \in DOMAIN spec.grid : /\ k \in DOMAIN spec.defaults /\ spec.grid[k] # {}
                                    /\ Cardinality(spec.grid[k]) <= MaxValues
     /\ \A c \in spec.constraints : \A k \in {1, 3} : c[k].fn = "$" => c[k].s \in DOMAIN spec.defaults
     /\ UNION {Mentions(n, "$") : n \in Nodes(spec)} \subseteq DOMAIN spec.defaults
-----------------------------------------------------------------------------
(* Parameters. *)

Satisfies(c, p) ==
  LET Of(n) == IF n.fn = "num" THEN n.v ELSE p[n.s]
      x == Of(c[1])  y == Of(c[3])
  IN CASE c[2] = "<"  -> x < y  [] c[2] = "<=" -> x <= y [] c[2] = "==" -> x = y
       [] c[2] = ">"  -> x > y  [] c[2] = ">=" -> x >= y [] c[2] = "!=" -> x # y
check_constraints(spec, p) == \A c \in spec.constraints : Satisfies(c, p)

\* What a sweep runs: the grid's parameters from its lists, the rest as they are.
Grid(spec) ==
  LET Values(k) == IF k \in DOMAIN spec.grid THEN spec.grid[k] ELSE {spec.defaults[k]}
      names     == DOMAIN spec.defaults
  IN {p \in [names -> UNION {Values(k) : k \in names}] :
        (\A k \in names : p[k] \in Values(k)) /\ check_constraints(spec, p)}

\* Parameters and named indicators replaced by what they stand for, `deep`
\* levels down: a circular reference never ends, and leaves an empty node.
RECURSIVE Bind(_, _, _, _)
Bind(n, p, inds, deep) ==
  CASE n.fn = "$"                          -> IF n.s \in DOMAIN p THEN Num(p[n.s]) ELSE Leaf
    [] n.fn = "str" /\ n.s \in DOMAIN inds -> IF deep = 0 THEN Leaf
                                              ELSE Bind(inds[n.s], p, inds, deep - 1)
    [] OTHER -> [n EXCEPT !.a = [k \in DOMAIN n.a |-> Bind(n.a[k], p, inds, deep)]]
bind(n, p, inds) == Bind(n, p, inds, Cardinality(DOMAIN inds))
=============================================================================

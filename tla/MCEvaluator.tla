---------------------------- MODULE MCEvaluator -----------------------------
(* Values for Evaluator's constants.                                       *)
EXTENDS Evaluator

\* A call of every function on its defaults, lengths of two where it has none.
Basic(fn) ==
  LET args == {k \in DOMAIN CATALOG[fn] : CATALOG[fn][k][2] = REQUIRED}
  IN Fn(fn, [k \in args |-> CASE CATALOG[fn][k][1] = "L" -> Num(2)
                              [] CATALOG[fn][k][1] = "S" -> Str("close")
                              [] CATALOG[fn][k][1] = "C" -> Fn("gt", <<Str("close"), Num(1)>>)])
Basics == {Basic(fn) : fn \in DOMAIN CATALOG}
          \cup {[Basic(fn) EXCEPT !.out = Last(Outputs[fn])] : fn \in DOMAIN Outputs}
OnTf(n, k) == [n EXCEPT !.tf = k]

Doc(inds, rules) ==
  [indicators |-> inds, rules |-> rules, stop |-> Leaf, take_profit |-> Leaf,
   max_bars |-> Num(3), allow |-> "", defaults |-> [len |-> 2, slow |-> 3], grid |-> [len |-> {2, 3}], constraints |-> {}]

\* Every function alone, on its own bars and on two higher timeframes.
Single == {Doc(<<>>, [entry_long |-> Fn("gt", <<n, Num(0)>>)]) :
             n \in Basics \cup {OnTf(b, k) : b \in Basics, k \in {2, 4}}}

\* Nested: named indicators over parameters, one timeframe inside another,
\* the same node on two timeframes, and every condition.
Ema(src, len) == Fn("ema", [src |-> src, len |-> len])
Named == [fast |-> Ema(Str("close"), Param("len")),
          slow |-> Fn("hma", [src |-> Str("fast"), len |-> Param("slow")]),
          htf  |-> OnTf(Fn("sma", [src |-> OnTf(Fn("sma", [src |-> Str("hl2"), len |-> Param("len")]), 4),
                                   len |-> Num(1)]), 2),
          dbl  |-> [Ema(Str("close"), Param("len")) EXCEPT !.mult = 2]]
Ops == {Fn(op, <<Str("fast"), Str("slow")>>) : op \in {"lt", "cross_above"}}
       \cup {Fn("rising", <<Str("htf"), Num(2)>>), Fn("falling", <<Str("dbl"), Param("len")>>),
             Fn("between", <<Str("close"), Str("dbl"), Str("htf")>>), Fn("true", <<>>)}
Nested ==
  {[Doc(Named, [entry_long |-> Fn("all", <<Fn("not", <<c>>), d>>), exit_long |-> Fn("any", <<c, d>>),
                entry_short |-> c])
     EXCEPT !.stop = Fn("atr", [mult |-> Num(2), len |-> Param("len")]), !.allow = allow,
            !.take_profit = Fn("pct", [value |-> Param("slow")]), !.max_bars = Leaf,
            !.constraints = {<<Param("len"), "<", Param("slow")>>, <<Param("len"), ">=", Num(2)>>}] :
     c \in Ops, d \in Ops, allow \in {"", "long"}}

\* Other ways out: a level by ATR, a pct one that comes to nothing, both.
Plain == Doc(Named, [entry_long |-> Fn("gt", <<Str("slow"), Num(0)>>)])
Half(n) == Fn("div", [a |-> n, b |-> Num(2)])
Leaving ==
  {[Plain EXCEPT !.max_bars = Leaf, !.take_profit = Fn("atr", [mult |-> Half(Param("slow"))])],
   [Plain EXCEPT !.max_bars = Leaf, !.take_profit = Fn("pct", [value |-> Num(0)])],
   [Plain EXCEPT !.stop = Fn("atr", [mult |-> Num(0), len |-> Num(0)]),
                 !.take_profit = Fn("atr", [mult |-> Num(1), len |-> Param("len")]),
                 !.max_bars = Fn("max", [a |-> Num(1), b |-> Half(Param("len"))])]}

\* Documents with one thing wrong.
Circle == [fast |-> Ema(Str("slow"), Num(2)), slow |-> Ema(Str("fast"), Num(2))]
Flawed ==
  {[Plain EXCEPT !.indicators = Circle],
   [Plain EXCEPT !.indicators.fast = Ema(Str("fast"), Num(2))],
   [Plain EXCEPT !.indicators.fast = Ema(Str("missing"), Num(2))],
   [Plain EXCEPT !.indicators.fast = Ema(Str("close"), Str("close"))],
   [Plain EXCEPT !.indicators.fast = Ema(Str("close"), Param("other"))],
   [Plain EXCEPT !.indicators.fast = Fn("ema", [src |-> Str("close")])],
   [Plain EXCEPT !.indicators.fast = Fn("barssince", [cond |-> Str("close")])],
   [Plain EXCEPT !.indicators.fast = [Ema(Str("close"), Num(2)) EXCEPT !.out = "upper"]],
   [Plain EXCEPT !.rules.entry_long = Fn("gt", <<Str("slow")>>)],
   [Plain EXCEPT !.max_bars = Leaf],
   [Plain EXCEPT !.take_profit = Fn("atr", [len |-> Num(2)])],
   [Plain EXCEPT !.grid = [other |-> {1}]],
   [Plain EXCEPT !.constraints = {<<Param("len"), "<", Param("other")>>}]}

\* Documents with one thing wrong that no check sees: a timeframe that is not longer,
\* or no multiple, or longer than some series; an argument of a length's arithmetic
\* left out; a length of zero; 0 to the power -1; NaN to be rounded, or as a length.
Over(x, y) == [a |-> Num(x), b |-> Num(y)]
Alone(n) == Doc(<<>>, [entry_long |-> Fn("gt", <<Str("close"), n>>)])
Passed ==
  {Alone(n) : n \in {OnTf(Basic("sma"), 1),
                     OnTf(Fn("sma", [src |-> OnTf(Basic("sma"), 3), len |-> Num(1)]), 2),
                     OnTf(Basic("supertrend"), 16),
                     Fn("highest", [len |-> Fn("add", [a |-> Num(1)])]),
                     Fn("highest", [len |-> Param("none")]),
                     Fn("pow", Over(0, -1)),
                     Fn("round", [x |-> Fn("div", Over(1, 0))])}}
  \cup {[Alone(Num(0)) EXCEPT !.max_bars = Fn("div", Over(1, 0))]}
PassedSpecs == {[d EXCEPT !.defaults = @ @@ [none |-> 0]] : d \in Passed}

MCSpecs == Single \cup Nested \cup Leaving \cup Flawed \cup PassedSpecs

\* Ten bars from each place in a week, whole or with two bars missing, with no
\* still bars, a still start and a still stretch; and eighteen, enough for a
\* timeframe within a timeframe to have values.
Bars(ts, still) == [ts |-> ts, bars |-> [i \in DOMAIN ts |-> {ts[i]}], still |-> still,
                    path |-> <<>>]
Whole(s) == [i \in 1..10 |-> s + i]
Gapped(s) == [i \in 1..8 |-> IF i <= 3 THEN s + i ELSE s + i + 2]
MCSeries == {Bars(Whole(s), {}) : s \in 3..6} \cup {Bars(Gapped(s), {}) : s \in 3..4}
            \cup {Bars(Whole(3), 1..4), Bars(Whole(5), 4..7)}
            \cup {Bars([i \in 1..18 |-> 5 + i], {})}
=============================================================================

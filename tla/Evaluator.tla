----------------------------- MODULE Evaluator ------------------------------
(***************************************************************************)
(* A sweep of one document on one series, as engine/jobs.py sweep_series   *)
(* runs it: the document is validated, then signals() of engine/spec.py    *)
(* evaluates each combination of the grid with one Evaluator memo for all  *)
(* of them, keyed by the frame and the bound node.  Numbers are whole, and *)
(* a quotient is rounded down at once, as a length made of it is.          *)
(***************************************************************************)
EXTENDS Spec

CONSTANTS Specs,        \* documents that may be submitted
          Series,       \* frames they may be evaluated on
          MaxLen        \* MAX_LEN: the greatest length

VARIABLES spec,         \* the document
          frame,        \* the series
          left,         \* combinations still to be evaluated
          cache,        \* <<path of a frame, bound node>> |-> its values
          sig,          \* the rules of the last combination, and its ATR distance
          outcome       \* "refused", "accepted" or "raised"

vars == <<spec, frame, left, cache, sig, outcome>>
-----------------------------------------------------------------------------
(* What raises. *)

Unit(f) == IF f.path = <<>> THEN 1 ELSE Last(f.path)
Higher(n) == n.tf # 0 \/ n.mult # 0
Inner(n) == [n EXCEPT !.tf = 0, !.mult = 0]
Seconds(f, n) == resolve_seconds(Unit(f), n.tf, n.mult)

RECURSIVE IsSeries(_), Number(_), Resolved(_), Runs(_, _)
IsSeries(n) == /\ n.fn # "num"
               /\ n.fn \in Arithmetic => \E k \in DOMAIN n.a : IsSeries(n.a[k])

\* The arithmetic of scalars; {} is NaN.
Powers == <<3, 8, 21, 55, 149>>          \* of e, rounded up
OfOne(fn, x) ==
  CASE fn = "neg"   -> {-x}
    [] fn = "abs"   -> {Max({x, -x})}
    [] fn = "sqrt"  -> {r \in 0..x : r * r <= x /\ x < (r + 1) * (r + 1)}
    [] fn = "log"   -> IF x > 0 THEN {Cardinality({k \in DOMAIN Powers : Powers[k] <= x})} ELSE {}
    [] fn = "round" -> {x}
Quotient(x, y) == IF y > 0 THEN x \div y ELSE (-x) \div (-y)
OfTwo(fn, x, y) ==
  CASE fn = "add" -> {x + y}
    [] fn = "sub" -> {x - y}
    [] fn = "mul" -> {x * y}
    [] fn = "div" -> IF y = 0 THEN {} ELSE {Quotient(x, y)}
    [] fn = "min" -> {Min({x, y})}
    [] fn = "max" -> {Max({x, y})}
    [] fn = "pow" -> IF y >= 0 THEN {x^y} ELSE {Quotient(1, x^(-y))}
Number(n) ==
  CASE n.fn = "num"     -> {n.v}
    [] n.fn \in Unary  -> UNION {OfOne(n.fn, x) : x \in Number(n.a.x)}
    [] n.fn \in Binary ->
       LET X == Number(n.a.a)  Y == Number(n.a.b)
       IN IF n.fn \in {"min", "max"} /\ {} \in {X, Y} THEN X
          ELSE IF n.fn = "pow" /\ (X = {1} \/ Y = {0}) THEN {1}
          ELSE UNION {OfTwo(n.fn, x, y) : x \in X, y \in Y}

\* 0 to a negative power, and NaN to be rounded.
Fails(n) == \/ n.fn = "pow" /\ Number(n.a.a) = {0} /\ \E y \in Number(n.a.b) : y < 0
            \/ n.fn = "round" /\ Number(n.a.x) = {}

IsLength(n) == \E v \in Number(n) : 1 <= v /\ v <= MaxLen

\* No name or parameter is left, a condition is where one is due and only there, and
\* no length is a series.
Resolved(n) ==
  CASE n.fn = "num" -> TRUE
    [] n.fn = "str" -> n.s \in SOURCES
    [] n.fn \in {"all", "any", "not"} ->
       \A k \in DOMAIN n.a : n.a[k].fn \in CONDITIONS /\ Resolved(n.a[k])
    [] n.fn \in CONDITIONS \ {"all", "any", "not"} ->
       /\ \A k \in DOMAIN n.a : n.a[k].fn \notin CONDITIONS /\ Resolved(n.a[k])
       /\ n.fn \in TREND => ~IsSeries(n.a[2])
    [] OTHER ->
       /\ n.fn \in DOMAIN CATALOG
       /\ \A k \in DOMAIN n.a \cap DOMAIN CATALOG[n.fn] :
            /\ Resolved(n.a[k])
            /\ (CATALOG[n.fn][k][1] = "C") = (n.a[k].fn \in CONDITIONS)
            /\ CATALOG[n.fn][k][1] = "L" => ~IsSeries(n.a[k])

\* Functions that look at the first bar of their frame: there has to be one.
Ranging == {"tr", "atr", "keltner", "supertrend"}

\* Evaluating a resolved node ends with a value.
Runs(f, n) ==
  CASE n.fn \in {"num", "str"} -> TRUE
    [] n.fn \in CONDITIONS ->
       (\A k \in DOMAIN n.a : Runs(f, n.a[k])) /\ (n.fn \in TREND => IsLength(n.a[2]))
    [] Higher(n) -> Seconds(f, n) # 0 /\ Runs(Resampled(f, Seconds(f, n)).frame, Inner(n))
    [] OTHER ->
       /\ \A k \in DOMAIN CATALOG[n.fn] :
            /\ Given(n, k) # REQUIRED
            /\ Runs(f, Given(n, k))
            /\ CATALOG[n.fn][k][1] = "L" => IsLength(Given(n, k))
       /\ n.fn \in Ranging => f.bars # <<>>
       /\ IsSeries(n) \/ ~Fails(n)
-----------------------------------------------------------------------------
(* Values. *)

RECURSIVE Value(_, _, _), Condition(_, _, _)

Length(n) == CHOOSE v \in Number(n) : TRUE

Value(f, c, n) ==
  IF n.fn = "str" THEN f.bars
  ELSE IF <<f.path, n>> \in DOMAIN c THEN c[<<f.path, n>>]
  ELSE IF ~IsSeries(n) THEN (IF Number(n) = {} THEN Hide(f.bars, DOMAIN f.bars) ELSE Constant(f))
  ELSE IF Higher(n) THEN LET r == Resampled(f, Seconds(f, n))
                         IN to_base(r, Value(r.frame, c, Inner(n)))
  ELSE Call(f, n, [k \in Args(n.fn, "S") |-> Value(f, c, Given(n, k))],
                  [k \in Args(n.fn, "L") |-> Length(Given(n, k))],
                  IF Args(n.fn, "C") = {} THEN <<>> ELSE Condition(f, c, Given(n, "cond")))

Condition(f, c, n) ==
  CASE n.fn = "true"  -> Always(f, TRUE)
    [] n.fn = "false" -> Always(f, FALSE)
    [] n.fn = "all"   -> Joined([k \in DOMAIN n.a |-> Condition(f, c, n.a[k])], FALSE)
    [] n.fn = "any"   -> Joined([k \in DOMAIN n.a |-> Condition(f, c, n.a[k])], TRUE)
    [] n.fn = "not"   -> Negated(Condition(f, c, n.a[1]))
    [] n.fn \in TREND -> Trending(Value(f, c, n.a[1]), Length(n.a[2]))
    [] n.fn \in CROSS -> Crossed(Value(f, c, n.a[1]), Value(f, c, n.a[2]))
    [] OTHER          -> Compared([k \in DOMAIN n.a |-> Value(f, c, n.a[k])])

\* The calls that evaluating a node makes, each on its frame.
RECURSIVE Calls(_, _)
Calls(f, n) ==
  IF n.fn \in {"num", "str"} THEN {}
  ELSE IF Higher(n) THEN {<<f, n>>} \cup Calls(Resampled(f, Seconds(f, n)).frame, Inner(n))
  ELSE (IF n.fn \in CONDITIONS THEN {} ELSE {<<f, n>>})
       \cup UNION {Calls(f, Given(n, k)) : k \in IF n.fn \in CONDITIONS THEN DOMAIN n.a
                                                ELSE DOMAIN CATALOG[n.fn]}

MemoisedTogether(f, c, nodes) ==   \* mutant: one memo for the frames of all timeframes
  LET made == UNION {Calls(f, n) : n \in nodes}
      keys == {<<<<>>, m[2]>> : m \in made}
  IN c @@ [k \in keys |-> LET m == CHOOSE m \in made : m[2] = k[2] IN Value(m[1], c, m[2])]

\* What the memo holds afterwards: the first value stored under a key stays.
Memoised(f, c, nodes) ==
  LET made == UNION {Calls(f, n) : n \in nodes}
      keys == {<<m[1].path, m[2]>> : m \in made}
  IN c @@ [k \in keys |-> LET m == CHOOSE m \in made : <<m[1].path, m[2]>> = k
                          IN Value(m[1], c, m[2])]
-----------------------------------------------------------------------------
(* The sweep. *)

Allowed(entry) == CASE spec.allow = "both" -> TRUE
                    [] spec.allow = "" -> entry \in DOMAIN spec.rules
                    [] OTHER -> entry = "entry_" \o spec.allow

\* _exit_level: a distance in ATRs is evaluated as any node, so that it is memoised
\* too; a multiple that is not positive makes no level.
Levels == [stop |-> spec.stop, take_profit |-> spec.take_profit]
Scalars(l, p) == [k \in DOMAIN Levels[l].a |-> bind(Levels[l].a[k], p, <<>>)]
ByAtr(l, p) == Levels[l].fn = "atr" /\ ~\E v \in Number(Scalars(l, p).mult) : v <= 0
Distance(l, p) ==
  Fn("atr", [len |-> IF "len" \in DOMAIN Levels[l].a THEN Scalars(l, p).len ELSE Num(2)])

\* signals(): the bound nodes a combination evaluates, by rule and level.
Bound(p) ==
  [r \in {r \in DOMAIN spec.rules : r \in {"entry_long", "entry_short"} => Allowed(r)} |->
     bind(spec.rules[r], p, spec.indicators)]
  @@ [l \in {l \in DOMAIN Levels : ByAtr(l, p)} |-> Fn("gt", <<Distance(l, p), Num(0)>>)]

\* The scalars it evaluates besides.
Sizes(p) == {Scalars(l, p)[IF Levels[l].fn = "pct" THEN "value" ELSE "mult"] :
               l \in {l \in DOMAIN Levels : Levels[l] # Leaf}}
MaxBars(p) == {bind(n, p, spec.indicators) : n \in {spec.max_bars} \ {Leaf}}

Evaluates(p) ==
  /\ \A n \in Sizes(p) \cup MaxBars(p) : Resolved(n) /\ Runs(frame, n)
  /\ \A n \in MaxBars(p) : IsLength(n)
  /\ \A r \in DOMAIN Bound(p) : Resolved(Bound(p)[r]) /\ Runs(frame, Bound(p)[r])

Signals(nodes, c) ==
  [r \in Rules \cup DOMAIN nodes |-> IF r \in DOMAIN nodes THEN Condition(frame, c, nodes[r])
                                     ELSE Always(frame, FALSE)]

Init == /\ spec \in Specs /\ frame \in Series
        /\ left = {} /\ cache = <<>> /\ sig = <<>> /\ outcome = "submitted"

Load == /\ outcome = "submitted"
        /\ outcome' = IF Validate(spec) THEN "accepted" ELSE "refused"
        /\ left' = IF Validate(spec) THEN Grid(spec) ELSE {}
        /\ UNCHANGED <<spec, frame, cache, sig>>

Evaluate ==
  /\ outcome = "accepted"
  /\ \E p \in left :
       IF Evaluates(p)
       THEN /\ cache' = Memoised(frame, cache, {Bound(p)[r] : r \in DOMAIN Bound(p)})
            /\ sig' = Signals(Bound(p), cache')
            /\ left' = left \ {p}
            /\ UNCHANGED outcome
       ELSE outcome' = "raised" /\ UNCHANGED <<left, cache, sig>>
  /\ UNCHANGED <<spec, frame>>

Next == Load \/ Evaluate
Spec == Init /\ [][Next]_vars
-----------------------------------------------------------------------------
(* Properties. *)

\* timeframes.py:1-7, "without lookahead": whatever function, nested how and on
\* whatever timeframe, no rule and no stop distance at a bar reads a later bar.
NoLookahead ==
  \A r \in DOMAIN sig : \A i \in DOMAIN sig[r] : \A b \in sig[r][i].reads : b <= frame.ts[i]

\* timeframes.py:12-20: a windowed indicator on a higher timeframe, of whatever
\* windowed ones on whatever timeframes, reads the same bars whether or not the series was loaded with one more bar before its first.
Windowed == {"shift", "change", "roc", "highest", "lowest", "sum", "stdev", "sma", "wma", "hma",
             "vwma", "bbands", "stoch", "cci", "mfi", "williams_r", "donchian"}
Earlier == [frame EXCEPT !.ts = <<@[1] - 1>> \o @, !.bars = <<{frame.ts[1] - 1}>> \o @,
                         !.still = {i + 1 : i \in @}]
StartsAnywhere ==
  \A k \in DOMAIN cache :
    (k[1] = <<>> /\ Higher(k[2]) /\ \A m \in Calls(frame, k[2]) : m[2].fn \in Windowed)
      => \A i \in DOMAIN cache[k] : cache[k][i] # Missing
                                      => Value(Earlier, <<>>, k[2])[i + 1] = cache[k][i]

\* spec.py:497-501, "That is what makes the evaluator's memo safe": after any
\* number of combinations, every memoised value, on whatever timeframe, is the one
\* that evaluating its node afresh gives.
RECURSIVE FrameAt(_, _)
FrameAt(f, path) == IF path = <<>> THEN f
                    ELSE FrameAt(Resampled(f, Head(path)).frame, Tail(path))
MemoIsFresh ==
  \A k \in DOMAIN cache : cache[k] = Value(FrameAt(frame, k[1]), <<>>, k[2])


\* spec.py:10-13, "`validate()` either accepts the result or names the exact path
\* that is wrong": what it accepts can be evaluated.  (Does not hold: see the README.)
AcceptedRuns == outcome # "raised"
=============================================================================

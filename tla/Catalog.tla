------------------------------ MODULE Catalog -------------------------------
(***************************************************************************)
(* engine/spec.py: what the nodes of a strategy document may call, and what *)
(* a call and a condition read.  A node of the JSON document is a record,  *)
(* the same for every kind so that any two compare: fn names the function, *)
(* the condition or the kind of leaf, a holds the arguments, s a name, v a *)
(* number, out / tf / mult the options.                                    *)
(***************************************************************************)
EXTENDS Indicators

Leaf == [fn |-> "", a |-> <<>>, s |-> "", v |-> 0, out |-> "", tf |-> 0, mult |-> 0]
Num(n) == [Leaf EXCEPT !.fn = "num", !.v = n]
Str(s) == [Leaf EXCEPT !.fn = "str", !.s = s]
Param(p) == [Leaf EXCEPT !.fn = "$", !.s = p]
Fn(f, args) == [Leaf EXCEPT !.fn = f, !.a = args]
REQUIRED == [Leaf EXCEPT !.fn = "REQUIRED"]

SOURCES == {"open", "high", "low", "close", "volume", "hl2", "hlc3", "ohlc4"}
COMPARE == {"gt", "lt", "gte", "lte", "eq"}
CROSS == {"cross_above", "cross_below"}
TREND == {"rising", "falling"}
CONDITIONS == COMPARE \cup CROSS \cup TREND \cup {"all", "any", "not", "between", "true", "false"}

Binary == {"add", "sub", "mul", "div", "min", "max", "pow"}
Unary == {"neg", "abs", "sqrt", "log", "round"}
Arithmetic == Binary \cup Unary

\* Functions that take the same arguments.
Lagged == {"shift", "change"}
Smoothed == {"roc", "highest", "lowest", "stdev", "sma", "ema", "wma", "rma", "hma", "vwma"}
Priced == {"rsi", "bbands", "cci"}
Ranged == {"atr", "adx", "dmi", "mfi", "williams_r", "donchian"}
Bare == {"tr", "obv", "vwap", "psar"}
FUNCTIONS == Arithmetic \cup Lagged \cup Smoothed \cup Priced \cup Ranged \cup Bare
             \cup {"sum", "barssince", "macd", "stoch", "keltner", "supertrend"}

\* Argument kinds: a series, a length, a number, a condition.  The default
\* lengths are cut down to fit the frames; multipliers are left out.
CATALOG ==
  LET S(d) == <<"S", d>>    close == S(Str("close"))    any == S(REQUIRED)
      L(d) == <<"L", d>>    two == L(Num(2))            len == L(REQUIRED)
  IN [f \in FUNCTIONS |->
        CASE f \in Binary       -> [a |-> any, b |-> any]
          [] f \in Unary        -> [x |-> any]
          [] f \in Lagged       -> [src |-> close, n |-> L(Num(1))]
          [] f \in Smoothed     -> [src |-> close, len |-> len]
          [] f = "sum"          -> [src |-> any, len |-> len]
          [] f \in Priced       -> [src |-> close, len |-> two]
          [] f \in Ranged       -> [len |-> two]
          [] f \in Bare         -> <<>>
          [] f = "barssince"    -> [cond |-> <<"C", REQUIRED>>]
          [] f = "macd"         -> [src |-> close, fast |-> two, slow |-> L(Num(3)), signal |-> two]
          [] f = "stoch"        -> [len |-> two, smooth_k |-> L(Num(1)), d |-> two]
          [] f = "keltner"      -> [len |-> two, atr_len |-> two]
          [] f = "supertrend"   -> [atr_len |-> two]]

\* The first is the default.
Outputs == [dmi |-> <<"plus", "minus", "adx">>, macd |-> <<"macd", "signal", "hist">>,
            bbands |-> <<"upper", "mid", "lower">>, stoch |-> <<"k", "d">>,
            donchian |-> <<"upper", "lower", "mid">>, keltner |-> <<"upper", "mid", "lower">>,
            supertrend |-> <<"line", "dir">>]
Output(n) == IF n.out = "" /\ n.fn \in DOMAIN Outputs THEN Outputs[n.fn][1] ELSE n.out

Given(n, arg) == IF arg \in DOMAIN n.a THEN n.a[arg] ELSE CATALOG[n.fn][arg][2]

\* The arguments of one kind.
Args(fn, kind) == {k \in DOMAIN CATALOG[fn] : CATALOG[fn][k][1] = kind}
-----------------------------------------------------------------------------
(* Values. *)

\* _call: one function, on the values of its arguments.
Call(f, n, x, len, cond) ==
  CASE n.fn \in Arithmetic          -> IF "x" \in DOMAIN x THEN x.x ELSE Both(x.a, x.b)
    [] n.fn = "shift"               -> shift(x.src, len.n)
    [] n.fn = "change"              -> change(x.src, len.n)
    [] n.fn = "roc"                 -> roc(x.src, len.len)
    [] n.fn = "highest"             -> highest(x.src, len.len)
    [] n.fn = "lowest"              -> lowest(x.src, len.len)
    [] n.fn = "sum"                 -> rolling_sum(x.src, len.len)
    [] n.fn = "stdev"               -> stdev(x.src, len.len)
    [] n.fn = "barssince"           -> barssince(cond)
    [] n.fn = "sma"                 -> sma(x.src, len.len)
    [] n.fn = "ema"                 -> ema(x.src, len.len)
    [] n.fn = "wma"                 -> wma(x.src, len.len)
    [] n.fn = "rma"                 -> rma(x.src, len.len)
    [] n.fn = "hma"                 -> hma(x.src, len.len)
    [] n.fn = "vwma"                -> vwma(f, x.src, len.len)
    [] n.fn = "atr"                 -> atr(f, len.len)
    [] n.fn = "tr"                  -> true_range(f)
    [] n.fn = "rsi"                 -> rsi(x.src, len.len)
    [] n.fn \in {"adx", "dmi"}      -> dmi(f, len.len, IF n.fn = "adx" THEN "adx" ELSE Output(n))
    [] n.fn = "macd"                -> macd(x.src, len.fast, len.slow, len.signal, Output(n))
    [] n.fn = "bbands"              -> bbands(x.src, len.len)
    [] n.fn = "stoch"               -> stoch(f, len.len, len.smooth_k, len.d, Output(n))
    [] n.fn = "cci"                 -> cci(f, x.src, len.len)
    [] n.fn = "mfi"                 -> mfi(f, len.len)
    [] n.fn = "williams_r"          -> williams_r(f, len.len)
    [] n.fn = "obv"                 -> obv(f)
    [] n.fn = "vwap"                -> vwap(f)
    [] n.fn = "donchian"            -> donchian(f, len.len)
    [] n.fn = "keltner"             -> keltner(f, len.len, len.atr_len, Output(n))
    [] n.fn = "supertrend"          -> supertrend(f, len.atr_len)
    [] n.fn = "psar"                -> psar(f)

\* A condition at a bar: the values it read, and what it can be.
Compared(xs) ==
  [i \in DOMAIN xs[1] |->
     LET got == {xs[k][i] : k \in DOMAIN xs}
     IN IF Missing \in got THEN [can |-> {FALSE}, reads |-> {0}]
        ELSE [can |-> BOOLEAN, reads |-> UNION got]]
Always(f, b) == [i \in DOMAIN f.bars |-> [can |-> {b}, reads |-> {0}]]
Joined(cs, absorbing) ==
  [i \in DOMAIN cs[1] |->
     [can   |-> {b \in BOOLEAN : IF b = absorbing THEN \E k \in DOMAIN cs : b \in cs[k][i].can
                                 ELSE \A k \in DOMAIN cs : b \in cs[k][i].can},
      reads |-> UNION {cs[k][i].reads : k \in DOMAIN cs}]]
Negated(c) == [i \in DOMAIN c |-> [c[i] EXCEPT !.can = {~b : b \in @}]]
Trending(x, n) == Compared(<<x, highest(shift(x, 1), n)>>)
Crossed(x, y) == Compared(<<x, y, shift(x, 1), shift(y, 1)>>)
=============================================================================

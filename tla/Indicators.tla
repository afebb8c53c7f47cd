----------------------------- MODULE Indicators -----------------------------
(***************************************************************************)
(* engine/indicators.py and engine/timeframes.py: what each function reads. *)
(*                                                                         *)
(* A series gives, at every bar, the set of the bars its value was computed *)
(* from, and {} where the code has NaN; a constant is read from "bar" 0.   *)
(* The arithmetic is left out, and with it every difference between two    *)
(* functions that read the same bars.  One fact about the prices decides   *)
(* where a value exists: `still` bars, whose open, high, low and close all *)
(* repeat the last close and whose volume is zero, make a range, a mean    *)
(* deviation or a volume zero, and a division by it missing.               *)
(*                                                                         *)
(* A frame is [ts, bars, still, path]: the opening times (in base bars), a *)
(* price of each bar as a series, the still bars, and the bar lengths that *)
(* were resampled to get here, the last one its own.                       *)
(***************************************************************************)
EXTENDS Integers, Sequences, FiniteSets, FiniteSetsExt

CONSTANTS Week,         \* base bars in a week
          WeekOffset,   \* a week's first bar, counted from the epoch
          Day           \* base bars in a day

ASSUME WeekAssumption == Week \in Nat \ {0} /\ WeekOffset \in Int /\ Day \in Nat \ {0}

Missing == {}
Upto(x, i) == UNION {x[j] : j \in 1..i}
Hide(x, S) == [i \in DOMAIN x |-> IF i \in S THEN Missing ELSE x[i]]
Both(x, y) == [i \in DOMAIN x |-> IF x[i] # Missing /\ y[i] # Missing
                                  THEN x[i] \cup y[i] ELSE Missing]
Constant(f) == [i \in DOMAIN f.bars |-> {0}]

\* pandas' rolling(n, min_periods=n).
Full(x, n, i) == i >= n /\ \A j \in i - n + 1..i : x[j] # Missing
Rolling(x, n) == [i \in DOMAIN x |-> IF Full(x, n, i) THEN UNION {x[j] : j \in i - n + 1..i}
                                     ELSE Missing]
\* Bars whose last n bars are all still.
Still(f, n) == {i \in DOMAIN f.bars : i >= n /\ i - n + 1..i \subseteq f.still}
-----------------------------------------------------------------------------
(* Averages. *)

sma(x, n) == Rolling(x, n)
wma(x, n) == Rolling(x, n)

ema(x, n) ==
  [i \in DOMAIN x |-> IF x[i] # Missing /\ Cardinality({j \in 1..i : x[j] # Missing}) >= n
                      THEN Upto(x, i) ELSE Missing]

\* Seeded on the first full window; what came before it is never read.
rma(x, n) ==
  LET seeds == {i \in DOMAIN x : Full(x, n, i)}
  IN [i \in DOMAIN x |-> IF x[i] # Missing /\ \E s \in seeds : s <= i
                         THEN UNION {x[j] : j \in Min(seeds) - n + 1..i} ELSE Missing]

\* max(1, round_half_up(sqrt(n)))
Root(n) == Max({r \in 1..n : (2 * r - 1) * (2 * r - 1) <= 4 * n})
hma(x, n) == wma(Both(wma(x, Max({1, n \div 2})), wma(x, n)), Root(n))

vwma(f, x, n) == Hide(Both(sma(x, n), sma(f.bars, n)), Still(f, n))
-----------------------------------------------------------------------------
(* Series operations. *)

shift(x, n) == [i \in DOMAIN x |-> IF i > n THEN x[i - n] ELSE Missing]
change(x, n) == Both(x, shift(x, n))
roc(x, n) == change(x, n)
highest(x, n) == Rolling(x, n)
lowest(x, n) == Rolling(x, n)
rolling_sum(x, n) == Rolling(x, n)
stdev(x, n) == Rolling(x, n)

\* c gives a condition at every bar: what it reads, and what it can be.
barssince(c) == [i \in DOMAIN c |-> IF \E j \in 1..i : TRUE \in c[j].can
                                    THEN UNION {c[j].reads : j \in 1..i} ELSE Missing]
-----------------------------------------------------------------------------
(* Range, oscillators, channels and trailing systems. *)

Ranges(f) == Both(f.bars, shift(f.bars, 1))      \* from the second bar on
true_range(f) == [i \in DOMAIN f.bars |-> IF i = 1 THEN f.bars[1] ELSE Ranges(f)[i]]
atr(f, n) == rma(true_range(f), n)

\* Its own range starts at the second bar, and a zero one has no direction.
dmi(f, n, out) ==
  LET di == Hide(rma(Ranges(f), n), {i \in DOMAIN f.bars : 2..i \subseteq f.still})
  IN IF out = "adx" THEN rma(di, n) ELSE di

rsi(x, n) == rma(change(x, 1), n)

macd(x, fast, slow, signal, out) ==
  LET line == Both(ema(x, fast), ema(x, slow))
      sig  == ema(line, signal)
  IN CASE out = "macd" -> line [] out = "signal" -> sig [] out = "hist" -> Both(line, sig)

bbands(x, n) == Both(sma(x, n), stdev(x, n))

stoch(f, n, smooth_k, d, out) ==
  LET raw == Hide(Both(highest(f.bars, n), f.bars), Still(f, n))
      k   == IF smooth_k > 1 THEN sma(raw, smooth_k) ELSE raw
  IN IF out = "k" THEN k ELSE sma(k, d)

cci(f, x, n) == Hide(sma(x, n), Still(f, n))

\* A missing first change counts as no flow; the first n bars are blanked.
mfi(f, n) == [i \in DOMAIN f.bars |-> IF i > n THEN UNION {f.bars[j] : j \in i - n..i}
                                      ELSE Missing]

williams_r(f, n) == Hide(Both(highest(f.bars, n), f.bars), Still(f, n))

obv(f) == [i \in DOMAIN f.bars |-> Upto(f.bars, i)]

vwap(f) == [i \in DOMAIN f.bars |->
              UNION {f.bars[j] : j \in {k \in 1..i : f.ts[k] \div Day = f.ts[i] \div Day}}]

donchian(f, n) == Both(highest(f.bars, n), lowest(f.bars, n))
keltner(f, n, atr_len, out) ==
  IF out = "mid" THEN ema(f.bars, n) ELSE Both(ema(f.bars, n), atr(f, atr_len))

\* Each band is carried from the bar before, from the first ATR on.
supertrend(f, n) ==
  [i \in DOMAIN f.bars |-> IF atr(f, n)[i] = Missing THEN Missing
                           ELSE Upto(f.bars, i) \cup Upto(atr(f, n), i)]

psar(f) == [i \in DOMAIN f.bars |-> IF i = 1 THEN Missing ELSE Upto(f.bars, i)]
-----------------------------------------------------------------------------
(* Higher timeframes. *)

Origin(k) == IF k % Week = 0 THEN WeekOffset ELSE 0
bucket_ids(ts, k) == [i \in DOMAIN ts |-> (ts[i] - Origin(k)) \div k]

\* How many of a set of bars come before one.
Before(S, i) == Cardinality({p \in S : p < i})

KeptWhole(f, k) == DOMAIN f.ts  \* mutant: a leading partial bucket is kept

\* The bars that are grouped: a leading partial bucket is dropped.
Kept(f, k) ==
  LET ids     == bucket_ids(f.ts, k)
      partial == (f.ts[1] - Origin(k)) % k # 0
  IN {i \in DOMAIN ids : partial => ids[i] # ids[1]}

\* close_at: a bucket closes on the last bar of a run of equal ids.
Closes(f, k) ==
  LET ids == bucket_ids(f.ts, k)
  IN {i \in Kept(f, k) : i + 1 \in DOMAIN ids => ids[i + 1] # ids[i]}

\* The base bars of each bucket, in order.
Buckets(f, k) ==
  LET kept   == Kept(f, k)
      closes == Closes(f, k)
  IN [b \in 1..Cardinality(closes) |-> {i \in kept : Before(closes, i) = b - 1}]

ShownOpen(closes, i) ==         \* mutant: a bar is shown the bucket it belongs to
  IF closes = {} THEN 0 ELSE Before(closes, i) + 1

\* How many buckets closed strictly before a base bar: the newest of them is shown.
Shown(closes, i) == Before(closes, i)

Resampled(f, k) ==
  LET buckets == Buckets(f, k)
      closes  == Closes(f, k)
  IN [frame |-> [ts    |-> [b \in DOMAIN buckets |-> f.ts[Min(buckets[b])]],
                 bars  |-> [b \in DOMAIN buckets |-> UNION {f.bars[i] : i \in buckets[b]}],
                 still |-> {b \in DOMAIN buckets : buckets[b] \subseteq f.still},
                 path  |-> Append(f.path, k)],
      pick  |-> [i \in DOMAIN f.ts |-> Shown(closes, i)]]

to_base(r, x) == [i \in DOMAIN r.pick |-> IF r.pick[i] = 0 THEN Missing ELSE x[r.pick[i]]]

\* The target bar length, or 0 where the code raises.
resolve_seconds(unit, tf, mult) ==
  LET target == IF tf # 0 THEN tf ELSE unit * mult
  IN IF target <= unit \/ target % unit # 0 THEN 0 ELSE target
=============================================================================

---------------------------- MODULE CatalogProofs ----------------------------
(***************************************************************************)
(* Nothing a strategy document can call looks ahead: whatever function or   *)
(* condition, with whatever lengths, on whatever series and on whatever     *)
(* higher timeframe, its value at a bar reads that bar and earlier ones.    *)
(***************************************************************************)
EXTENDS Catalog, FiniteSetTheorems, WellFoundedInduction, TLAPS

\* What may be read at a bar: constants, and the bars up to it.
Past(b, i) == {0} \cup Upto(b, i)

\* Values of a series at the bars b, none of which looks ahead.
Causal(b, x) == DOMAIN x = DOMAIN b /\ \A i \in DOMAIN b : x[i] \subseteq Past(b, i)

\* The same of a condition.
CausalCondition(b, c) ==
  /\ DOMAIN c = DOMAIN b
  /\ \A i \in DOMAIN b : c[i] \in [can : SUBSET BOOLEAN, reads : SUBSET Past(b, i)]

\* Bars in order of their opening times.
Frame(f) ==
  /\ \E N \in Nat : DOMAIN f.bars = 1..N /\ DOMAIN f.ts = 1..N
  /\ \A i \in DOMAIN f.ts : f.ts[i] \in Int
  /\ \A i, j \in DOMAIN f.ts : i <= j => f.ts[i] <= f.ts[j]

Length == Nat \ {0}
-----------------------------------------------------------------------------
(* The bars before.                                                        *)

LEMMA PastGrows ==
  ASSUME NEW b, NEW i \in Int, NEW j \in Int, i <= j
  PROVE  Past(b, i) \subseteq Past(b, j)
<1>1. 1..i \subseteq 1..j
  BY SMT
<1> QED
  BY <1>1, Zenon DEF Past, Upto

\* Whatever a causal series read at some of the bars so far is past.
LEMMA Gathered ==
  ASSUME NEW N \in Nat, NEW b, DOMAIN b = 1..N, NEW x, Causal(b, x),
         NEW i \in 1..N, NEW J, J \subseteq 1..i
  PROVE  UNION {x[j] : j \in J} \subseteq Past(b, i)
<1> SUFFICES ASSUME NEW j \in J PROVE x[j] \subseteq Past(b, i)
  BY Zenon
<1>1. j \in 1..N /\ j \in Int /\ i \in Int /\ j <= i
  BY SMT
<1>2. x[j] \subseteq Past(b, j)
  BY <1>1, Zenon DEF Causal
<1> QED
  BY <1>1, <1>2, PastGrows, Zenon

LEMMA UptoCausal ==
  ASSUME NEW N \in Nat, NEW b, DOMAIN b = 1..N, NEW x, Causal(b, x), NEW i \in 1..N
  PROVE  Upto(x, i) \subseteq Past(b, i)
<1>1. 1..i \subseteq 1..i
  OBVIOUS
<1> QED
  BY <1>1, Gathered, Zenon DEF Upto

LEMMA BarsCausal ==
  ASSUME NEW N \in Nat, NEW b, DOMAIN b = 1..N
  PROVE  Causal(b, b)
<1> SUFFICES ASSUME NEW i \in 1..N PROVE b[i] \subseteq Past(b, i)
  BY DEF Causal
<1>1. i \in 1..i
  BY SMT
<1> QED
  BY <1>1, Zenon DEF Past, Upto

LEMMA NothingMissing == ASSUME NEW b, NEW i PROVE Missing \subseteq Past(b, i)
  BY DEF Missing

LEMMA BothCausal ==
  ASSUME NEW b, NEW x, NEW y, Causal(b, x), Causal(b, y)
  PROVE  Causal(b, Both(x, y))
<1>1. DOMAIN Both(x, y) = DOMAIN b
  BY Zenon DEF Both, Causal
<1>2. ASSUME NEW i \in DOMAIN b PROVE Both(x, y)[i] \subseteq Past(b, i)
  <2>1. Both(x, y)[i] = IF x[i] # Missing /\ y[i] # Missing THEN x[i] \cup y[i] ELSE Missing
    BY Zenon DEF Both, Causal
  <2>2. x[i] \subseteq Past(b, i) /\ y[i] \subseteq Past(b, i)
    BY Zenon DEF Causal
  <2> QED
    BY <2>1, <2>2, NothingMissing
<1> QED
  BY <1>1, <1>2, Zenon DEF Causal

LEMMA HideCausal ==
  ASSUME NEW b, NEW x, Causal(b, x), NEW S
  PROVE  Causal(b, Hide(x, S))
<1>1. DOMAIN Hide(x, S) = DOMAIN b
  BY Zenon DEF Hide, Causal
<1>2. ASSUME NEW i \in DOMAIN b PROVE Hide(x, S)[i] \subseteq Past(b, i)
  <2>1. Hide(x, S)[i] = IF i \in S THEN Missing ELSE x[i]
    BY Zenon DEF Hide, Causal
  <2> QED
    BY <2>1, NothingMissing, Zenon DEF Causal
<1> QED
  BY <1>1, <1>2, Zenon DEF Causal

LEMMA RollingCausal ==
  ASSUME NEW N \in Nat, NEW b, DOMAIN b = 1..N, NEW x, Causal(b, x), NEW n \in Int
  PROVE  Causal(b, Rolling(x, n))
<1>1. DOMAIN Rolling(x, n) = DOMAIN b
  BY Zenon DEF Rolling, Causal
<1>2. ASSUME NEW i \in DOMAIN b PROVE Rolling(x, n)[i] \subseteq Past(b, i)
  <2>1. Rolling(x, n)[i] = IF Full(x, n, i) THEN UNION {x[j] : j \in i - n + 1..i} ELSE Missing
    BY Zenon DEF Rolling, Causal
  <2>2. CASE Full(x, n, i)
    <3>1. i - n + 1..i \subseteq 1..i
      BY <2>2, SMT DEF Full
    <3>2. UNION {x[j] : j \in i - n + 1..i} \subseteq Past(b, i)
      BY <3>1, Gathered
    <3> QED
      BY <2>1, <2>2, <3>2
  <2>3. CASE ~Full(x, n, i)
    BY <2>1, <2>3, NothingMissing
  <2> QED
    BY <2>2, <2>3
<1> QED
  BY <1>1, <1>2, Zenon DEF Causal

LEMMA ShiftCausal ==
  ASSUME NEW N \in Nat, NEW b, DOMAIN b = 1..N, NEW x, Causal(b, x), NEW n \in Nat
  PROVE  Causal(b, shift(x, n))
<1>1. DOMAIN shift(x, n) = DOMAIN b
  BY Zenon DEF shift, Causal
<1>2. ASSUME NEW i \in DOMAIN b PROVE shift(x, n)[i] \subseteq Past(b, i)
  <2>1. shift(x, n)[i] = IF i > n THEN x[i - n] ELSE Missing
    BY Zenon DEF shift, Causal
  <2>2. CASE i > n
    <3>1. i - n \in 1..N /\ i - n \in Int /\ i \in Int /\ i - n <= i
      BY <2>2, SMT
    <3>2. x[i - n] \subseteq Past(b, i - n) /\ Past(b, i - n) \subseteq Past(b, i)
      BY <3>1, PastGrows, Zenon DEF Causal
    <3> QED
      BY <2>1, <2>2, <3>2
  <2>3. CASE ~(i > n)
    BY <2>1, <2>3, NothingMissing
  <2> QED
    BY <2>2, <2>3
<1> QED
  BY <1>1, <1>2, Zenon DEF Causal
-----------------------------------------------------------------------------
(* Averages.                                                               *)

LEMMA LeastOf ==
  ASSUME NEW S \in SUBSET Nat, S # {}
  PROVE  Min(S) \in S /\ \A x \in S : Min(S) <= x
<1>1. PICK m \in S : \A x \in S : ~(<<x, m>> \in OpToRel(<, Nat))
  BY WFMin, NatLessThanWellFounded
<1>2. ASSUME NEW x \in S PROVE m <= x
  <2>1. x \in Nat /\ m \in Nat /\ ~(<<x, m>> \in OpToRel(<, Nat))
    BY <1>1
  <2>2. ~(x < m)
    BY <2>1, Zenon DEF OpToRel
  <2>3. \A i, j \in Nat : ~(i < j) => j <= i
    BY SMT
  <2> QED
    BY <2>1, <2>2, <2>3, Zenon
<1> QED
  BY <1>2, Zenon DEF Min

LEMMA GreatestOf ==
  ASSUME NEW n \in Nat, NEW S \in SUBSET (1..n), S # {}
  PROVE  Max(S) \in S /\ \A x \in S : x <= Max(S)
<1> DEFINE Down == {n - x : x \in S}
<1>1. Down \in SUBSET Nat /\ Down # {}
  <2>1. \A x \in S : n - x \in Nat
    BY SMT
  <2> QED
    BY <2>1, Zenon
<1>2. Min(Down) \in Down /\ \A d \in Down : Min(Down) <= d
  <2> HIDE DEF Down
  <2> QED
    BY <1>1, LeastOf
<1>3. PICK m \in S : n - m = Min(Down)
  BY <1>2, Zenon
<1>4. ASSUME NEW x \in S PROVE m >= x /\ x <= m
  <2>1. n - m <= n - x
    BY <1>2, <1>3, Zenon
  <2> QED
    BY <2>1, SMT
<1>5. Max(S) \in S /\ \A x \in S : Max(S) >= x
  BY <1>4, Zenon DEF Max
<1>6. \A i, j \in Int : i >= j => j <= i
  OBVIOUS
<1> QED
  BY <1>5, <1>6, SMT

LEMMA GreaterOfTwo ==
  ASSUME NEW a \in Int, NEW c \in Int
  PROVE  Max({a, c}) \in Int
<1>1. \E m \in {a, c} : \A y \in {a, c} : m >= y
  BY SMT
<1> QED
  BY <1>1, Zenon DEF Max

LEMMA RootWhole ==
  ASSUME NEW n \in Length
  PROVE  Root(n) \in Int
<1> DEFINE S == {r \in 1..n : (2 * r - 1) * (2 * r - 1) <= 4 * n}
<1>1. n \in Nat /\ 1 \in 1..n /\ (2 * 1 - 1) * (2 * 1 - 1) <= 4 * n
  BY SMT DEF Length
<1>2. 1 \in S /\ S \in SUBSET (1..n)
  BY <1>1, Zenon
<1>3. Max(S) \in 1..n
  <2> HIDE DEF S
  <2> QED
    BY <1>1, <1>2, GreatestOf
<1> QED
  BY <1>1, <1>3, SMT DEF Root

LEMMA EmaCausal ==
  ASSUME NEW N \in Nat, NEW b, DOMAIN b = 1..N, NEW x, Causal(b, x), NEW n
  PROVE  Causal(b, ema(x, n))
<1>1. DOMAIN ema(x, n) = DOMAIN b
  BY Zenon DEF ema, Causal
<1>2. ASSUME NEW i \in DOMAIN b PROVE ema(x, n)[i] \subseteq Past(b, i)
  <2>1. ema(x, n)[i] \in {Upto(x, i), Missing}
    BY Zenon DEF ema, Causal
  <2> QED
    BY <2>1, UptoCausal, NothingMissing
<1> QED
  BY <1>1, <1>2, Zenon DEF Causal

LEMMA RmaCausal ==
  ASSUME NEW N \in Nat, NEW b, DOMAIN b = 1..N, NEW x, Causal(b, x), NEW n \in Int
  PROVE  Causal(b, rma(x, n))
<1> DEFINE seeds == {i \in DOMAIN x : Full(x, n, i)}
<1>1. DOMAIN rma(x, n) = DOMAIN b
  BY Zenon DEF rma, Causal
<1>2. ASSUME NEW i \in DOMAIN b PROVE rma(x, n)[i] \subseteq Past(b, i)
  <2>1. rma(x, n)[i] = IF x[i] # Missing /\ \E s \in seeds : s <= i
                       THEN UNION {x[j] : j \in Min(seeds) - n + 1..i} ELSE Missing
    BY Zenon DEF rma, Causal
  <2>2. CASE \E s \in seeds : s <= i
    <3>1. seeds \in SUBSET Nat /\ seeds # {}
      BY <2>2, SMT DEF Causal
    <3>2. Min(seeds) \in seeds
      <4> HIDE DEF seeds
      <4> QED
        BY <3>1, LeastOf
    <3>3. Min(seeds) \in Nat /\ Min(seeds) >= n
      BY <3>1, <3>2, Zenon DEF Full
    <3>4. Min(seeds) - n + 1..i \subseteq 1..i
      <4> HIDE DEF seeds
      <4> QED
        BY <3>3, SMT
    <3>5. UNION {x[j] : j \in Min(seeds) - n + 1..i} \subseteq Past(b, i)
      <4> HIDE DEF seeds
      <4> QED
        BY <3>4, Gathered
    <3> QED
      BY <2>1, <3>5, NothingMissing, Zenon
  <2>3. CASE ~\E s \in seeds : s <= i
    BY <2>1, <2>3, NothingMissing, Zenon
  <2> QED
    BY <2>2, <2>3, Zenon
<1> QED
  BY <1>1, <1>2, Zenon DEF Causal

LEMMA HmaCausal ==
  ASSUME NEW N \in Nat, NEW b, DOMAIN b = 1..N, NEW x, Causal(b, x), NEW n \in Length
  PROVE  Causal(b, hma(x, n))
<1>1. n \in Int /\ n \div 2 \in Int
  BY SMT DEF Length
<1>2. Max({1, n \div 2}) \in Int
  BY <1>1, GreaterOfTwo
<1>3. Causal(b, wma(x, Max({1, n \div 2}))) /\ Causal(b, wma(x, n))
  BY <1>1, <1>2, RollingCausal, Zenon DEF wma
<1>4. Causal(b, Both(wma(x, Max({1, n \div 2})), wma(x, n)))
  BY <1>3, BothCausal
<1>5. Causal(b, wma(Both(wma(x, Max({1, n \div 2})), wma(x, n)), Root(n)))
  BY <1>4, RootWhole, RollingCausal, Zenon DEF wma
<1> QED
  BY <1>5, Zenon DEF hma
-----------------------------------------------------------------------------
(* Series operations and conditions.                                       *)

LEMMA ChangeCausal ==
  ASSUME NEW N \in Nat, NEW b, DOMAIN b = 1..N, NEW x, Causal(b, x), NEW n \in Nat
  PROVE  Causal(b, change(x, n))
  BY ShiftCausal, BothCausal, Zenon DEF change

LEMMA BarssinceCausal ==
  ASSUME NEW N \in Nat, NEW b, DOMAIN b = 1..N, NEW c, CausalCondition(b, c)
  PROVE  Causal(b, barssince(c))
<1>1. DOMAIN barssince(c) = DOMAIN b
  BY Zenon DEF barssince, CausalCondition
<1>2. ASSUME NEW i \in DOMAIN b PROVE barssince(c)[i] \subseteq Past(b, i)
  <2>1. barssince(c)[i] \in {UNION {c[j].reads : j \in 1..i}, Missing}
    BY Zenon DEF barssince, CausalCondition
  <2>2. ASSUME NEW j \in 1..i PROVE c[j].reads \subseteq Past(b, i)
    <3>1. j \in 1..N /\ j \in Int /\ i \in Int /\ j <= i
      BY SMT
    <3>2. c[j].reads \subseteq Past(b, j)
      BY <3>1, Zenon DEF CausalCondition
    <3> QED
      BY <3>1, <3>2, PastGrows, Zenon
  <2>3. UNION {c[j].reads : j \in 1..i} \subseteq Past(b, i)
    BY <2>2, Zenon
  <2> QED
    BY <2>1, <2>3, NothingMissing
<1> QED
  BY <1>1, <1>2, Zenon DEF Causal

-----------------------------------------------------------------------------
(* Range, oscillators, channels and trailing systems.                      *)

LEMMA StillCausal ==
  ASSUME NEW N \in Nat, NEW f, DOMAIN f.bars = 1..N, NEW n \in Int, NEW S
  PROVE  /\ Causal(f.bars, highest(f.bars, n)) /\ Causal(f.bars, lowest(f.bars, n))
         /\ Causal(f.bars, Hide(Both(highest(f.bars, n), f.bars), S))
<1>1. Causal(f.bars, f.bars)
  BY BarsCausal
<1>2. Causal(f.bars, Rolling(f.bars, n))
  BY <1>1, RollingCausal
<1>3. Causal(f.bars, Hide(Both(Rolling(f.bars, n), f.bars), S))
  BY <1>1, <1>2, BothCausal, HideCausal
<1> QED
  BY <1>2, <1>3, Zenon DEF highest, lowest

LEMMA RangesCausal ==
  ASSUME NEW N \in Nat, NEW f, DOMAIN f.bars = 1..N
  PROVE  Causal(f.bars, Ranges(f)) /\ Causal(f.bars, true_range(f))
<1>1. Causal(f.bars, f.bars)
  BY BarsCausal
<1>2. 1 \in Nat
  OBVIOUS
<1>3. Causal(f.bars, Ranges(f))
  BY <1>1, <1>2, ShiftCausal, BothCausal, Zenon DEF Ranges
<1>4. DOMAIN true_range(f) = DOMAIN f.bars
  BY Zenon DEF true_range
<1>5. ASSUME NEW i \in DOMAIN f.bars PROVE true_range(f)[i] \in {f.bars[i], Ranges(f)[i]}
  BY Zenon DEF true_range
<1>6. ASSUME NEW i \in DOMAIN f.bars PROVE true_range(f)[i] \subseteq Past(f.bars, i)
  BY <1>1, <1>3, <1>5, Zenon DEF Causal
<1> QED
  BY <1>3, <1>4, <1>6, Zenon DEF Causal

LEMMA AtrCausal ==
  ASSUME NEW N \in Nat, NEW f, DOMAIN f.bars = 1..N, NEW n \in Int
  PROVE  Causal(f.bars, atr(f, n))
  BY RangesCausal, RmaCausal, Zenon DEF atr

LEMMA DmiCausal ==
  ASSUME NEW N \in Nat, NEW f, DOMAIN f.bars = 1..N, NEW n \in Int, NEW out
  PROVE  Causal(f.bars, dmi(f, n, out))
<1> DEFINE di == Hide(rma(Ranges(f), n), {i \in DOMAIN f.bars : 2..i \subseteq f.still})
<1>1. Causal(f.bars, di)
  BY RangesCausal, RmaCausal, HideCausal
<1>2. dmi(f, n, out) \in {di, rma(di, n)}
  BY Zenon DEF dmi
<1> HIDE DEF di
<1>3. Causal(f.bars, rma(di, n))
  BY <1>1, RmaCausal
<1> QED
  BY <1>1, <1>2, <1>3, Zenon

LEMMA RsiCausal ==
  ASSUME NEW N \in Nat, NEW b, DOMAIN b = 1..N, NEW x, Causal(b, x), NEW n \in Int
  PROVE  Causal(b, rsi(x, n))
<1>1. 1 \in Nat
  OBVIOUS
<1> QED
  BY <1>1, ChangeCausal, RmaCausal, Zenon DEF rsi

LEMMA MacdCausal ==
  ASSUME NEW N \in Nat, NEW b, DOMAIN b = 1..N, NEW x, Causal(b, x),
         NEW fast, NEW slow, NEW signal, NEW out \in {"macd", "signal", "hist"}
  PROVE  Causal(b, macd(x, fast, slow, signal, out))
<1> DEFINE line == Both(ema(x, fast), ema(x, slow))
<1>1. Causal(b, line)
  BY EmaCausal, BothCausal
<1>2. macd(x, fast, slow, signal, out) \in {line, ema(line, signal), Both(line, ema(line, signal))}
  BY Zenon DEF macd
<1> HIDE DEF line
<1>3. Causal(b, ema(line, signal)) /\ Causal(b, Both(line, ema(line, signal)))
  BY <1>1, EmaCausal, BothCausal
<1> QED
  BY <1>1, <1>2, <1>3, Zenon

LEMMA StochCausal ==
  ASSUME NEW N \in Nat, NEW f, DOMAIN f.bars = 1..N,
         NEW n \in Int, NEW smooth_k \in Int, NEW d \in Int, NEW out
  PROVE  Causal(f.bars, stoch(f, n, smooth_k, d, out))
<1> DEFINE raw == Hide(Both(highest(f.bars, n), f.bars), Still(f, n))
           k   == IF smooth_k > 1 THEN sma(raw, smooth_k) ELSE raw
<1>1. Causal(f.bars, raw)
  BY StillCausal
<1>2. stoch(f, n, smooth_k, d, out) \in {k, sma(k, d)}
  BY Zenon DEF stoch
<1>3. k \in {raw, sma(raw, smooth_k)}
  BY Zenon
<1> HIDE DEF raw
<1>4. Causal(f.bars, k)
  BY <1>1, <1>3, RollingCausal, Zenon DEF sma
<1> HIDE DEF k
<1>5. Causal(f.bars, sma(k, d))
  BY <1>4, RollingCausal, Zenon DEF sma
<1> QED
  BY <1>2, <1>4, <1>5, Zenon

LEMMA MfiCausal ==
  ASSUME NEW N \in Nat, NEW f, DOMAIN f.bars = 1..N, NEW n \in Nat
  PROVE  Causal(f.bars, mfi(f, n))
<1>1. DOMAIN mfi(f, n) = DOMAIN f.bars
  BY Zenon DEF mfi
<1>2. ASSUME NEW i \in DOMAIN f.bars PROVE mfi(f, n)[i] \subseteq Past(f.bars, i)
  <2>1. mfi(f, n)[i] = IF i > n THEN UNION {f.bars[j] : j \in i - n..i} ELSE Missing
    BY Zenon DEF mfi
  <2>2. CASE i > n
    <3>1. i - n..i \subseteq 1..i
      BY <2>2, SMT
    <3>2. UNION {f.bars[j] : j \in i - n..i} \subseteq Past(f.bars, i)
      BY <3>1, BarsCausal, Gathered
    <3> QED
      BY <2>1, <2>2, <3>2, Zenon
  <2>3. CASE ~(i > n)
    BY <2>1, <2>3, NothingMissing, Zenon
  <2> QED
    BY <2>2, <2>3
<1> QED
  BY <1>1, <1>2, Zenon DEF Causal

LEMMA VolumeCausal ==
  ASSUME NEW N \in Nat, NEW f, DOMAIN f.bars = 1..N
  PROVE  Causal(f.bars, obv(f)) /\ Causal(f.bars, vwap(f)) /\ Causal(f.bars, psar(f))
<1>1. /\ DOMAIN obv(f) = DOMAIN f.bars /\ DOMAIN vwap(f) = DOMAIN f.bars
      /\ DOMAIN psar(f) = DOMAIN f.bars
  BY Zenon DEF obv, vwap, psar
<1>2. ASSUME NEW i \in DOMAIN f.bars
      PROVE  /\ obv(f)[i] \subseteq Past(f.bars, i) /\ psar(f)[i] \subseteq Past(f.bars, i)
             /\ vwap(f)[i] \subseteq Past(f.bars, i)
  <2> DEFINE J == {k \in 1..i : f.ts[k] \div Day = f.ts[i] \div Day}
  <2>1. Upto(f.bars, i) \subseteq Past(f.bars, i)
    BY BarsCausal, UptoCausal
  <2>2. obv(f)[i] = Upto(f.bars, i) /\ psar(f)[i] \in {Missing, Upto(f.bars, i)}
    BY Zenon DEF obv, psar
  <2>3. vwap(f)[i] = UNION {f.bars[j] : j \in J}
    BY Zenon DEF vwap
  <2>4. J \subseteq 1..i
    BY Zenon
  <2> HIDE DEF J
  <2>5. UNION {f.bars[j] : j \in J} \subseteq Past(f.bars, i)
    BY <2>4, BarsCausal, Gathered
  <2> QED
    BY <2>1, <2>2, <2>3, <2>5, NothingMissing, Zenon
<1> QED
  BY <1>1, <1>2, Zenon DEF Causal

LEMMA ChannelsCausal ==
  ASSUME NEW N \in Nat, NEW f, DOMAIN f.bars = 1..N, NEW n \in Int, NEW m \in Int, NEW out
  PROVE  Causal(f.bars, donchian(f, n)) /\ Causal(f.bars, keltner(f, n, m, out))
<1>1. Causal(f.bars, donchian(f, n))
  BY StillCausal, BothCausal, Zenon DEF donchian
<1>2. Causal(f.bars, ema(f.bars, n)) /\ Causal(f.bars, atr(f, m))
  BY BarsCausal, EmaCausal, AtrCausal
<1>3. Causal(f.bars, Both(ema(f.bars, n), atr(f, m)))
  BY <1>2, BothCausal
<1>4. keltner(f, n, m, out) \in {ema(f.bars, n), Both(ema(f.bars, n), atr(f, m))}
  BY Zenon DEF keltner
<1> QED
  BY <1>1, <1>2, <1>3, <1>4, Zenon

LEMMA SupertrendCausal ==
  ASSUME NEW N \in Nat, NEW f, DOMAIN f.bars = 1..N, NEW n \in Int
  PROVE  Causal(f.bars, supertrend(f, n))
<1>1. DOMAIN supertrend(f, n) = DOMAIN f.bars
  BY Zenon DEF supertrend
<1>2. ASSUME NEW i \in DOMAIN f.bars PROVE supertrend(f, n)[i] \subseteq Past(f.bars, i)
  <2>1. supertrend(f, n)[i] \in {Missing, Upto(f.bars, i) \cup Upto(atr(f, n), i)}
    BY Zenon DEF supertrend
  <2>2. /\ Upto(f.bars, i) \subseteq Past(f.bars, i)
        /\ Upto(atr(f, n), i) \subseteq Past(f.bars, i)
    BY BarsCausal, AtrCausal, UptoCausal
  <2> QED
    BY <2>1, <2>2, NothingMissing, Zenon
<1> QED
  BY <1>1, <1>2, Zenon DEF Causal

-----------------------------------------------------------------------------
(* Higher timeframes: counting the closes before a bar.                    *)

LEMMA Counted ==
  ASSUME NEW N \in Nat, NEW S, S \subseteq 1..N
  PROVE  /\ IsFiniteSet(S) /\ Cardinality(S) \in Nat
         /\ \A i : Before(S, i) \in Nat /\ Before(S, i) <= Cardinality(S)
<1>1. IsFiniteSet(1..N)
  BY FS_Interval
<1>2. IsFiniteSet(S)
  BY <1>1, FS_Subset
<1>3. ASSUME NEW T, T \subseteq S PROVE Cardinality(T) \in Nat /\ Cardinality(T) <= Cardinality(S)
  BY <1>2, <1>3, FS_Subset, FS_CardinalityType
<1>4. \A i : {p \in S : p < i} \subseteq S
  OBVIOUS
<1> QED
  BY <1>2, <1>3, <1>4, FS_CardinalityType, Zenon DEF Before

LEMMA BeforeGrows ==
  ASSUME NEW N \in Nat, NEW S, S \subseteq 1..N, NEW i, NEW j,
         \A p \in S : p < i => p < j
  PROVE  Before(S, i) <= Before(S, j)
<1> DEFINE I == {p \in S : p < i}   J == {p \in S : p < j}
<1>1. IsFiniteSet(S) /\ J \subseteq S /\ I \subseteq J
  BY Counted, Zenon
<1>2. IsFiniteSet(J)
  BY <1>1, FS_Subset
<1>3. Cardinality(I) <= Cardinality(J)
  BY <1>1, <1>2, FS_Subset
<1> QED
  BY <1>3, Zenon DEF Before

\* Before a bar of the set, one fewer than up to it.
LEMMA BeforeNext ==
  ASSUME NEW N \in Nat, NEW S, S \subseteq 1..N, NEW q \in S, NEW T \in SUBSET S,
         q \in T, \A p \in T : p <= q, \A p \in S : p < q => p \in T
  PROVE  Cardinality(T) = Before(S, q) + 1
<1>1. IsFiniteSet(T)
  BY Counted, FS_Subset
<1>2. S \subseteq Int
  OBVIOUS
<1>a. \A i, j \in Int : i <= j /\ i # j <=> i < j
  BY SMT
<1>3. T \ {q} = {p \in S : p < q}
  BY <1>2, <1>a, Zenon
<1>4. Cardinality(T \ {q}) = Cardinality(T) - 1 /\ Cardinality(T) \in Nat
  BY <1>1, FS_RemoveElement, FS_CardinalityType
<1>5. Before(S, q) = Cardinality(T) - 1
  BY <1>3, <1>4, Zenon DEF Before
<1> QED
  BY <1>4, <1>5, SMT

\* Every number below the cardinality counts the bars before one of the set.
LEMMA EveryCount ==
  ASSUME NEW N \in Nat, NEW S, S \subseteq 1..N, NEW c \in 1..Cardinality(S)
  PROVE  \E p \in S : Before(S, p) = c - 1
<1> DEFINE T == {p \in S : Before(S, p) >= c - 1}
<1>0. Cardinality(S) \in Nat /\ \A i : Before(S, i) \in Nat
  BY Counted
<1>1. S # {}
  <2>1. S = {} => Cardinality(S) = 0
    BY FS_EmptySet
  <2> QED
    BY <2>1, <1>0, SMT
<1>2. T # {} /\ T \in SUBSET Nat
  <2>1. Max(S) \in S /\ \A p \in S : p <= Max(S)
    BY <1>1, GreatestOf
  <2>2. Cardinality(S) = Before(S, Max(S)) + 1
    BY <2>1, BeforeNext
  <2>3. Before(S, Max(S)) >= c - 1
    BY <1>0, <2>2, SMT
  <2>4. Max(S) \in T /\ T \subseteq S
    BY <2>1, <2>3, Zenon
  <2>5. S \subseteq Nat
    BY SMT
  <2> QED
    BY <2>4, <2>5, Zenon
<1>3. Min(T) \in T /\ \A p \in T : Min(T) <= p
  <2> HIDE DEF T
  <2> QED
    BY <1>2, LeastOf
<1> DEFINE m == Min(T)
<1>4. m \in S /\ Before(S, m) >= c - 1 /\ m \in Nat
  BY <1>2, <1>3, Zenon
<1>5. CASE Before(S, m) > c - 1
  <2> HIDE DEF m
  <2> DEFINE P == {p \in S : p < m}
  <2>1. Cardinality(P) = Before(S, m)
    BY Zenon DEF Before
  <2>2. P # {}
    <3>1. P = {} => Cardinality(P) = 0
      BY FS_EmptySet
    <3> QED
      BY <1>0, <1>5, <2>1, <3>1, SMT
  <2>3. P \in SUBSET (1..N) /\ P \in SUBSET S
    BY Zenon
  <2>4. Max(P) \in P /\ \A p \in P : p <= Max(P)
    <3> HIDE DEF P
    <3> QED
      BY <2>2, <2>3, GreatestOf
  <2> DEFINE q == Max(P)
  <2>5. q \in S /\ q < m /\ q \in Nat
    <3>1. q \in P
      BY <2>4, Zenon
    <3>2. q \in S /\ q < m
      BY <3>1, Zenon
    <3> HIDE DEF q
    <3> QED
      BY <3>2, SMT
  <2>6. \A p \in S : p < q => p \in P
    BY <1>4, <2>5, SMT
  <2>7. Cardinality(P) = Before(S, q) + 1
    <3> HIDE DEF P
    <3> QED
      BY <2>3, <2>4, <2>5, <2>6, BeforeNext
  <2> HIDE DEF q, P
  <2>8. Before(S, q) >= c - 1
    BY <1>0, <1>5, <2>1, <2>7, SMT
  <2>9. m <= q
    BY <1>3, <2>5, <2>8 DEF m
  <2> QED
    BY <1>4, <2>5, <2>9, SMT
<1>6. CASE Before(S, m) = c - 1
  BY <1>4, <1>6
<1> QED
  BY <1>0, <1>4, <1>5, <1>6, SMT

-----------------------------------------------------------------------------
(* Higher timeframes: the buckets.                                         *)

LEMMA FrameBars ==
  ASSUME NEW f, Frame(f)
  PROVE  \E N \in Nat : DOMAIN f.bars = 1..N /\ DOMAIN f.ts = 1..N
  BY DEF Frame

LEMMA IdsGrow ==
  ASSUME NEW f, Frame(f), NEW k \in Length, NEW i \in DOMAIN f.ts, NEW j \in DOMAIN f.ts, i <= j
  PROVE  /\ bucket_ids(f.ts, k)[i] \in Int /\ bucket_ids(f.ts, k)[j] \in Int
         /\ bucket_ids(f.ts, k)[i] <= bucket_ids(f.ts, k)[j]
<1>1. Origin(k) \in Int
  BY WeekAssumption, SMT DEF Origin
<1>2. f.ts[i] \in Int /\ f.ts[j] \in Int /\ f.ts[i] <= f.ts[j]
  BY DEF Frame
<1>3. /\ bucket_ids(f.ts, k)[i] = (f.ts[i] - Origin(k)) \div k
      /\ bucket_ids(f.ts, k)[j] = (f.ts[j] - Origin(k)) \div k
  BY Zenon DEF bucket_ids
<1>4. \A a, c \in Int : a <= c => a \div k \in Int /\ c \div k \in Int /\ a \div k <= c \div k
  BY SMT DEF Length
<1> DEFINE a == f.ts[i] - Origin(k)   c == f.ts[j] - Origin(k)
<1>5. a \in Int /\ c \in Int /\ a <= c
  BY <1>1, <1>2, SMT
<1> QED
  BY <1>3, <1>4, <1>5, Zenon

LEMMA ClosesKept ==
  ASSUME NEW f, NEW k
  PROVE  Closes(f, k) \subseteq Kept(f, k) /\ Kept(f, k) \subseteq DOMAIN f.ts
  BY Zenon DEF Closes, Kept, bucket_ids

LEMMA BucketIs ==
  ASSUME NEW f, NEW k, NEW b \in 1..Cardinality(Closes(f, k))
  PROVE  Buckets(f, k)[b] = {i \in Kept(f, k) : Before(Closes(f, k), i) = b - 1}
  BY Zenon DEF Buckets

LEMMA ResampledIs ==
  ASSUME NEW f, NEW k
  PROVE  /\ DOMAIN Resampled(f, k).frame.ts = 1..Cardinality(Closes(f, k))
         /\ DOMAIN Resampled(f, k).frame.bars = 1..Cardinality(Closes(f, k))
         /\ DOMAIN Resampled(f, k).pick = DOMAIN f.ts
         /\ \A i \in DOMAIN f.ts : Resampled(f, k).pick[i] = Before(Closes(f, k), i)
         /\ \A b \in 1..Cardinality(Closes(f, k)) :
              /\ Resampled(f, k).frame.ts[b] = f.ts[Min(Buckets(f, k)[b])]
              /\ Resampled(f, k).frame.bars[b] = UNION {f.bars[i] : i \in Buckets(f, k)[b]}
<1> DEFINE C == Closes(f, k)
<1>1. DOMAIN Buckets(f, k) = 1..Cardinality(C)
  BY Zenon DEF Buckets
<1> HIDE DEF C
<1>2. /\ Resampled(f, k).frame.ts = [b \in DOMAIN Buckets(f, k) |-> f.ts[Min(Buckets(f, k)[b])]]
      /\ Resampled(f, k).frame.bars = [b \in DOMAIN Buckets(f, k) |->
                                         UNION {f.bars[i] : i \in Buckets(f, k)[b]}]
      /\ Resampled(f, k).pick = [i \in DOMAIN f.ts |-> Before(C, i)]
  BY Zenon DEF Resampled, Shown, C
<1> QED
  BY <1>1, <1>2, Zenon DEF C

LEMMA BucketsFull ==
  ASSUME NEW f, Frame(f), NEW k, NEW b \in 1..Cardinality(Closes(f, k))
  PROVE  /\ Min(Buckets(f, k)[b]) \in DOMAIN f.ts
         /\ Before(Closes(f, k), Min(Buckets(f, k)[b])) = b - 1
<1> PICK N \in Nat : DOMAIN f.ts = 1..N
  BY FrameBars
<1> DEFINE B == Buckets(f, k)[b]
<1>1. B = {i \in Kept(f, k) : Before(Closes(f, k), i) = b - 1}
  BY BucketIs
<1>2. Kept(f, k) \subseteq 1..N /\ Closes(f, k) \subseteq 1..N /\ Closes(f, k) \subseteq Kept(f, k)
  BY ClosesKept, Zenon
<1>3. \E p \in Closes(f, k) : Before(Closes(f, k), p) = b - 1
  BY <1>2, EveryCount
<1>4. B # {}
  BY <1>1, <1>2, <1>3, Zenon
<1>5. 1..N \subseteq Nat
  BY SMT
<1>6. B \in SUBSET Nat
  BY <1>1, <1>2, <1>5, Zenon
<1>7. Min(B) \in B
  <2> HIDE DEF B
  <2> QED
    BY <1>4, <1>6, LeastOf
<1> QED
  BY <1>1, <1>2, <1>7, Zenon

\* The bars of a higher timeframe are bars in order, to be resampled again.
LEMMA ResampledFrame ==
  ASSUME NEW f, Frame(f), NEW k
  PROVE  Frame(Resampled(f, k).frame)
<1> DEFINE g == Resampled(f, k).frame   C == Closes(f, k)   First(b) == Min(Buckets(f, k)[b])
<1> PICK N \in Nat : DOMAIN f.ts = 1..N
  BY FrameBars
<1>1. C \subseteq 1..N
  BY ClosesKept, Zenon
<1>2. Cardinality(C) \in Nat
  BY <1>1, Counted
<1>3. DOMAIN g.ts = 1..Cardinality(C) /\ DOMAIN g.bars = 1..Cardinality(C)
  BY ResampledIs, Zenon
<1>4. ASSUME NEW b \in 1..Cardinality(C)
      PROVE  g.ts[b] = f.ts[First(b)] /\ First(b) \in DOMAIN f.ts /\ Before(C, First(b)) = b - 1
  <2>1. First(b) \in DOMAIN f.ts /\ Before(C, First(b)) = b - 1
    BY BucketsFull
  <2>2. g.ts[b] = f.ts[First(b)]
    BY ResampledIs
  <2> QED
    BY <2>1, <2>2
<1> HIDE DEF g, First
<1>5. \A b \in 1..Cardinality(C) : g.ts[b] \in Int
  BY <1>4, Zenon DEF Frame
<1>6. ASSUME NEW b \in 1..Cardinality(C), NEW d \in 1..Cardinality(C), b <= d
      PROVE  g.ts[b] <= g.ts[d]
  <2>1. First(b) \in 1..N /\ First(d) \in 1..N
    BY <1>4, Zenon
  <2>2. First(b) <= First(d)
    <3> SUFFICES ASSUME ~(First(b) <= First(d)) PROVE FALSE
      OBVIOUS
    <3>1. \A p \in C : p < First(d) => p < First(b)
      BY <1>1, <2>1, SMT
    <3>2. Before(C, First(d)) <= Before(C, First(b))
      BY <1>1, <3>1, BeforeGrows
    <3>3. d - 1 <= b - 1
      BY <1>4, <3>2, Zenon
    <3>4. b = d
      BY <1>2, <1>6, <3>3, SMT
    <3> QED
      BY <2>1, <3>4, SMT
  <2>3. f.ts[First(b)] <= f.ts[First(d)]
    BY <2>1, <2>2, Zenon DEF Frame
  <2> QED
    BY <1>4, <2>3, Zenon
<1> QED
  BY <1>2, <1>3, <1>5, <1>6, Zenon DEF Frame, g

\* The bars of the buckets that closed before a bar, by the code's own numbers.
Closed(f, k, i) == {j \in DOMAIN f.ts : bucket_ids(f.ts, k)[j] < bucket_ids(f.ts, k)[i]}

LEMMA ClosedBuckets ==
  ASSUME NEW f, Frame(f), NEW k \in Length, NEW i \in DOMAIN f.ts, NEW j \in DOMAIN f.ts,
         Before(Closes(f, k), j) < Before(Closes(f, k), i)
  PROVE  j \in Closed(f, k, i)
<1> DEFINE C == Closes(f, k)   id(m) == bucket_ids(f.ts, k)[m]
<1> PICK N \in Nat : DOMAIN f.ts = 1..N
  BY FrameBars
<1>1. C \subseteq 1..N
  BY ClosesKept, Zenon
<1>2. PICK p \in C : p < i /\ ~(p < j)
  <2> SUFFICES ASSUME \A p \in C : p < i => p < j PROVE FALSE
    BY Zenon
  <2>1. Before(C, i) <= Before(C, j)
    BY <1>1, BeforeGrows
  <2>2. Before(C, i) \in Nat /\ Before(C, j) \in Nat
    BY <1>1, Counted
  <2> QED
    BY <2>1, <2>2, SMT
<1>3. p \in 1..N /\ p + 1 \in 1..N /\ j <= p /\ p <= p + 1 /\ p + 1 <= i
  BY <1>1, <1>2, SMT
<1>4. id(p + 1) # id(p)
  BY <1>2, <1>3, Zenon DEF Closes, bucket_ids
<1>5. id(j) \in Int /\ id(p) \in Int /\ id(j) <= id(p)
  BY <1>3, IdsGrow
<1>6. id(p + 1) \in Int /\ id(p) <= id(p + 1)
  BY <1>3, IdsGrow
<1>7. id(i) \in Int /\ id(p + 1) <= id(i)
  BY <1>3, IdsGrow
<1> HIDE DEF id
<1>8. id(j) < id(i)
  BY <1>4, <1>5, <1>6, <1>7, SMT
<1> QED
  BY <1>8, Zenon DEF Closed, id

LEMMA ClosedPast ==
  ASSUME NEW f, Frame(f), NEW k \in Length, NEW i \in DOMAIN f.ts
  PROVE  Closed(f, k, i) \subseteq 1..i - 1
<1> PICK N \in Nat : DOMAIN f.ts = 1..N
  BY FrameBars
<1> SUFFICES ASSUME NEW j \in Closed(f, k, i) PROVE j \in 1..i - 1
  OBVIOUS
<1>1. j \in 1..N /\ bucket_ids(f.ts, k)[j] < bucket_ids(f.ts, k)[i]
  BY Zenon DEF Closed
<1>2. j < i
  <2> SUFFICES ASSUME i <= j PROVE FALSE
    BY <1>1, SMT
  <2>1. /\ bucket_ids(f.ts, k)[i] \in Int /\ bucket_ids(f.ts, k)[j] \in Int
        /\ bucket_ids(f.ts, k)[i] <= bucket_ids(f.ts, k)[j]
    BY <1>1, IdsGrow
  <2> QED
    BY <1>1, <2>1, SMT
<1> QED
  BY <1>1, <1>2, SMT

\* "A base bar is never shown the HTF bar it belongs to": what a higher timeframe
\* gives at a bar was read in buckets that closed before the one the bar is in.
THEOREM HigherTimeframesClosed ==
  ASSUME NEW f, Frame(f), NEW k \in Length,
         NEW x, Causal(Resampled(f, k).frame.bars, x), NEW i \in DOMAIN f.ts
  PROVE  to_base(Resampled(f, k), x)[i] \subseteq {0} \cup UNION {f.bars[j] : j \in Closed(f, k, i)}
<1> DEFINE r == Resampled(f, k)   C == Closes(f, k)   c == Before(C, i)   g == r.frame.bars
<1> PICK N \in Nat : DOMAIN f.ts = 1..N
  BY FrameBars
<1>1. C \subseteq 1..N /\ Kept(f, k) \subseteq 1..N
  BY ClosesKept, Zenon
<1>2. c \in Nat /\ c <= Cardinality(C) /\ Cardinality(C) \in Nat
  BY <1>1, Counted
<1>3. DOMAIN g = 1..Cardinality(C) /\ i \in DOMAIN r.pick /\ r.pick[i] = c
  BY ResampledIs
<1>4. to_base(r, x)[i] = IF c = 0 THEN Missing ELSE x[c]
  BY <1>3, Zenon DEF to_base
<1>5. CASE c # 0
  <2>1. c \in DOMAIN g
    BY <1>2, <1>3, <1>5, SMT
  <2>2. x[c] \subseteq Past(g, c)
    BY <2>1, Zenon DEF Causal
  <2>3. ASSUME NEW d \in 1..c
        PROVE  g[d] \subseteq UNION {f.bars[j] : j \in Closed(f, k, i)}
    <3>1. d \in 1..Cardinality(C) /\ d \in Nat
      BY <1>2, SMT
    <3>2. g[d] = UNION {f.bars[j] : j \in Buckets(f, k)[d]}
      BY <3>1, ResampledIs
    <3>3. ASSUME NEW j \in Buckets(f, k)[d] PROVE j \in Closed(f, k, i)
      <4>1. j \in Kept(f, k) /\ Before(C, j) = d - 1
        BY <3>1, BucketIs
      <4>2. j \in DOMAIN f.ts /\ Before(C, j) < c
        BY <1>1, <1>2, <4>1, SMT
      <4> QED
        BY <4>2, ClosedBuckets
    <3> QED
      BY <3>2, <3>3, Zenon
  <2> HIDE DEF g, c
  <2>4. Upto(g, c) \subseteq UNION {f.bars[j] : j \in Closed(f, k, i)}
    BY <2>3, Zenon DEF Upto
  <2> QED
    BY <1>4, <1>5, <2>2, <2>4, Zenon DEF Past
<1>6. CASE c = 0
  BY <1>4, <1>6, Zenon DEF Missing
<1> QED
  BY <1>5, <1>6, Zenon

\* So does a series that was itself computed on a higher timeframe, which in turn
\* is made of bars in order and may be resampled again.
THEOREM HigherTimeframesReadThePast ==
  ASSUME NEW f, Frame(f), NEW k \in Length,
         NEW x, Causal(Resampled(f, k).frame.bars, x)
  PROVE  Causal(f.bars, to_base(Resampled(f, k), x)) /\ Frame(Resampled(f, k).frame)
<1> PICK N \in Nat : DOMAIN f.bars = 1..N /\ DOMAIN f.ts = 1..N
  BY FrameBars
<1>1. DOMAIN to_base(Resampled(f, k), x) = DOMAIN f.bars
  BY ResampledIs, Zenon DEF to_base
<1>2. ASSUME NEW i \in DOMAIN f.bars
      PROVE  to_base(Resampled(f, k), x)[i] \subseteq Past(f.bars, i)
  <2>1. to_base(Resampled(f, k), x)[i] \subseteq {0} \cup UNION {f.bars[j] : j \in Closed(f, k, i)}
    BY HigherTimeframesClosed
  <2>2. Closed(f, k, i) \subseteq 1..i
    <3>1. Closed(f, k, i) \subseteq 1..i - 1
      BY ClosedPast
    <3>2. 1..i - 1 \subseteq 1..i
      BY SMT
    <3> QED
      BY <3>1, <3>2, Zenon
  <2>3. UNION {f.bars[j] : j \in Closed(f, k, i)} \subseteq Past(f.bars, i)
    BY <2>2, BarsCausal, Gathered
  <2> QED
    BY <2>1, <2>3, Zenon DEF Past
<1> QED
  BY <1>1, <1>2, ResampledFrame, Zenon DEF Causal
-----------------------------------------------------------------------------
(* A call: one function of the catalog, on values that do not look ahead.  *)

\* What _call is given: a value that does not look ahead for each argument the
\* catalog has, a length from 1 on, and an output the function has.
WellCalled(f, n, x, len, cond) ==
  /\ n.fn \in FUNCTIONS
  /\ n.fn = "macd" => Output(n) \in {"macd", "signal", "hist"}
  /\ DOMAIN x = Args(n.fn, "S") /\ \A k \in Args(n.fn, "S") : Causal(f.bars, x[k])
  /\ \A k \in Args(n.fn, "L") : len[k] \in Length
  /\ \A k \in Args(n.fn, "C") : CausalCondition(f.bars, cond)

LEMMA LengthWhole == ASSUME NEW n \in Length PROVE n \in Nat /\ n \in Int
  BY SMT DEF Length

\* The arguments each function has.
LEMMA Signatures ==
  /\ \A fn \in Binary : "a" \in Args(fn, "S") /\ "b" \in Args(fn, "S")
  /\ \A fn \in Unary : "x" \in Args(fn, "S")
  /\ \A fn \in Lagged : "src" \in Args(fn, "S") /\ "n" \in Args(fn, "L")
  /\ \A fn \in Smoothed : "src" \in Args(fn, "S") /\ "len" \in Args(fn, "L")
  /\ \A fn \in Priced : "src" \in Args(fn, "S") /\ "len" \in Args(fn, "L")
  /\ \A fn \in Ranged : "len" \in Args(fn, "L")
  /\ "src" \in Args("sum", "S") /\ "len" \in Args("sum", "L")
  /\ "cond" \in Args("barssince", "C")
  /\ "src" \in Args("macd", "S")
  /\ \A k \in {"len", "smooth_k", "d"} : k \in Args("stoch", "L")
  /\ "len" \in Args("keltner", "L") /\ "atr_len" \in Args("keltner", "L")
  /\ "atr_len" \in Args("supertrend", "L")
<1>1. ASSUME NEW fn \in Binary PROVE "a" \in Args(fn, "S") /\ "b" \in Args(fn, "S")
  <2>1. CATALOG[fn] = [a |-> <<"S", REQUIRED>>, b |-> <<"S", REQUIRED>>]
    BY Zenon DEF CATALOG, FUNCTIONS, Arithmetic, Binary, Unary, Lagged, Smoothed, Priced, Ranged, Bare
  <2> QED
    BY <2>1, SMT DEF Args
<1>2. ASSUME NEW fn \in Unary PROVE "x" \in Args(fn, "S")
  <2>1. CATALOG[fn] = [x |-> <<"S", REQUIRED>>]
    BY Zenon DEF CATALOG, FUNCTIONS, Arithmetic, Binary, Unary, Lagged, Smoothed, Priced, Ranged, Bare
  <2> QED
    BY <2>1, SMT DEF Args
<1>3. ASSUME NEW fn \in Lagged PROVE "src" \in Args(fn, "S") /\ "n" \in Args(fn, "L")
  <2>1. CATALOG[fn] = [src |-> <<"S", Str("close")>>, n |-> <<"L", Num(1)>>]
    BY Zenon DEF CATALOG, FUNCTIONS, Arithmetic, Binary, Unary, Lagged, Smoothed, Priced, Ranged, Bare
  <2> QED
    BY <2>1, SMT DEF Args
<1>4. ASSUME NEW fn \in Smoothed PROVE "src" \in Args(fn, "S") /\ "len" \in Args(fn, "L")
  <2>1. CATALOG[fn] = [src |-> <<"S", Str("close")>>, len |-> <<"L", REQUIRED>>]
    BY Zenon DEF CATALOG, FUNCTIONS, Arithmetic, Binary, Unary, Lagged, Smoothed, Priced, Ranged, Bare
  <2> QED
    BY <2>1, SMT DEF Args
<1>5. ASSUME NEW fn \in Priced PROVE "src" \in Args(fn, "S") /\ "len" \in Args(fn, "L")
  <2>1. CATALOG[fn] = [src |-> <<"S", Str("close")>>, len |-> <<"L", Num(2)>>]
    BY Zenon DEF CATALOG, FUNCTIONS, Arithmetic, Binary, Unary, Lagged, Smoothed, Priced, Ranged, Bare
  <2> QED
    BY <2>1, SMT DEF Args
<1>6. ASSUME NEW fn \in Ranged PROVE "len" \in Args(fn, "L")
  <2>1. CATALOG[fn] = [len |-> <<"L", Num(2)>>]
    BY Zenon DEF CATALOG, FUNCTIONS, Arithmetic, Binary, Unary, Lagged, Smoothed, Priced, Ranged, Bare
  <2> QED
    BY <2>1, SMT DEF Args
<1>7. "src" \in Args("sum", "S") /\ "len" \in Args("sum", "L")
  <2>1. CATALOG["sum"] = [src |-> <<"S", REQUIRED>>, len |-> <<"L", REQUIRED>>]
    BY Zenon DEF CATALOG, FUNCTIONS, Arithmetic, Binary, Unary, Lagged, Smoothed, Priced, Ranged, Bare
  <2> QED
    BY <2>1, SMT DEF Args
<1>8. "cond" \in Args("barssince", "C")
  <2>1. CATALOG["barssince"] = [cond |-> <<"C", REQUIRED>>]
    BY Zenon DEF CATALOG, FUNCTIONS, Arithmetic, Binary, Unary, Lagged, Smoothed, Priced, Ranged, Bare
  <2> QED
    BY <2>1, SMT DEF Args
<1>9. "src" \in Args("macd", "S")
  <2>1. CATALOG["macd"] = [src |-> <<"S", Str("close")>>, fast |-> <<"L", Num(2)>>,
                          slow |-> <<"L", Num(3)>>, signal |-> <<"L", Num(2)>>]
    BY Zenon DEF CATALOG, FUNCTIONS, Arithmetic, Binary, Unary, Lagged, Smoothed, Priced, Ranged, Bare
  <2> QED
    BY <2>1, SMT DEF Args
<1>10. \A k \in {"len", "smooth_k", "d"} : k \in Args("stoch", "L")
  <2>1. CATALOG["stoch"] = [len |-> <<"L", Num(2)>>, smooth_k |-> <<"L", Num(1)>>, d |-> <<"L", Num(2)>>]
    BY Zenon DEF CATALOG, FUNCTIONS, Arithmetic, Binary, Unary, Lagged, Smoothed, Priced, Ranged, Bare
  <2> QED
    BY <2>1, SMT DEF Args
<1>11. "len" \in Args("keltner", "L") /\ "atr_len" \in Args("keltner", "L")
  <2>1. CATALOG["keltner"] = [len |-> <<"L", Num(2)>>, atr_len |-> <<"L", Num(2)>>]
    BY Zenon DEF CATALOG, FUNCTIONS, Arithmetic, Binary, Unary, Lagged, Smoothed, Priced, Ranged, Bare
  <2> QED
    BY <2>1, SMT DEF Args
<1>12. "atr_len" \in Args("supertrend", "L")
  <2>1. CATALOG["supertrend"] = [atr_len |-> <<"L", Num(2)>>]
    BY Zenon DEF CATALOG, FUNCTIONS, Arithmetic, Binary, Unary, Lagged, Smoothed, Priced, Ranged, Bare
  <2> QED
    BY <2>1, SMT DEF Args
<1> QED
  BY <1>1, <1>2, <1>3, <1>4, <1>5, <1>6, <1>7, <1>8, <1>9, <1>10, <1>11, <1>12

LEMMA VwmaCausal ==
  ASSUME NEW N \in Nat, NEW f, DOMAIN f.bars = 1..N, NEW x, Causal(f.bars, x), NEW n \in Int
  PROVE  Causal(f.bars, vwma(f, x, n))
<1>1. Causal(f.bars, sma(x, n)) /\ Causal(f.bars, sma(f.bars, n))
  BY BarsCausal, RollingCausal, Zenon DEF sma
<1> QED
  BY <1>1, BothCausal, HideCausal, Zenon DEF vwma

LEMMA ArithmeticCall ==
  ASSUME NEW f, NEW n, NEW x, NEW len, NEW cond, WellCalled(f, n, x, len, cond), n.fn \in Arithmetic
  PROVE  Causal(f.bars, Call(f, n, x, len, cond))
<1>1. Call(f, n, x, len, cond) = IF "x" \in DOMAIN x THEN x.x ELSE Both(x.a, x.b)
  BY Zenon DEF Call, Arithmetic, Binary, Unary
<1>2. DOMAIN x = Args(n.fn, "S") /\ \A k \in Args(n.fn, "S") : Causal(f.bars, x[k])
  BY Zenon DEF WellCalled
<1>3. CASE n.fn \in Unary
  BY <1>1, <1>2, <1>3, Signatures, Zenon
<1>4. CASE n.fn \in Binary
  <2>1. Causal(f.bars, x.a) /\ Causal(f.bars, x.b)
    BY <1>2, <1>4, Signatures, Zenon
  <2>2. Causal(f.bars, Both(x.a, x.b))
    BY <2>1, BothCausal
  <2>3. "x" \in DOMAIN x => Causal(f.bars, x.x)
    BY <1>2, Zenon
  <2> QED
    BY <1>1, <2>2, <2>3, Zenon
<1> QED
  BY <1>3, <1>4, Zenon DEF Arithmetic

\* Functions of one series and a length.
LEMMA SmoothedCall ==
  ASSUME NEW f, NEW n, NEW x, NEW len, NEW cond, NEW N \in Nat, DOMAIN f.bars = 1..N,
         WellCalled(f, n, x, len, cond), n.fn \in Smoothed \cup Priced \cup {"sum"}
  PROVE  Causal(f.bars, Call(f, n, x, len, cond))
<1>1. Causal(f.bars, x.src) /\ len.len \in Length
  BY Signatures, Zenon DEF WellCalled
<1>2. len.len \in Nat /\ len.len \in Int /\ 1 \in Nat
  BY <1>1, LengthWhole
<1>3. Causal(f.bars, Rolling(x.src, len.len))
  BY <1>1, <1>2, RollingCausal
<1> USE DEF Call, Arithmetic, Binary, Unary
<1>4. CASE n.fn = "roc"
  <2>1. Call(f, n, x, len, cond) = roc(x.src, len.len)
    BY <1>4, Zenon
  <2> QED
    BY <1>1, <1>2, <1>3, <2>1, ChangeCausal, Zenon DEF roc
<1>5. CASE n.fn = "highest"
  <2>1. Call(f, n, x, len, cond) = highest(x.src, len.len)
    BY <1>5, Zenon
  <2> QED
    BY <1>1, <1>2, <1>3, <2>1, Zenon DEF highest
<1>6. CASE n.fn = "lowest"
  <2>1. Call(f, n, x, len, cond) = lowest(x.src, len.len)
    BY <1>6, Zenon
  <2> QED
    BY <1>1, <1>2, <1>3, <2>1, Zenon DEF lowest
<1>7. CASE n.fn = "sum"
  <2>1. Call(f, n, x, len, cond) = rolling_sum(x.src, len.len)
    BY <1>7, Zenon
  <2> QED
    BY <1>1, <1>2, <1>3, <2>1, Zenon DEF rolling_sum
<1>8. CASE n.fn = "stdev"
  <2>1. Call(f, n, x, len, cond) = stdev(x.src, len.len)
    BY <1>8, Zenon
  <2> QED
    BY <1>1, <1>2, <1>3, <2>1, Zenon DEF stdev
<1>9. CASE n.fn = "sma"
  <2>1. Call(f, n, x, len, cond) = sma(x.src, len.len)
    BY <1>9, Zenon
  <2> QED
    BY <1>1, <1>2, <1>3, <2>1, Zenon DEF sma
<1>10. CASE n.fn = "ema"
  <2>1. Call(f, n, x, len, cond) = ema(x.src, len.len)
    BY <1>10, Zenon
  <2> QED
    BY <1>1, <1>2, <1>3, <2>1, EmaCausal, Zenon
<1>11. CASE n.fn = "wma"
  <2>1. Call(f, n, x, len, cond) = wma(x.src, len.len)
    BY <1>11, Zenon
  <2> QED
    BY <1>1, <1>2, <1>3, <2>1, Zenon DEF wma
<1>12. CASE n.fn = "rma"
  <2>1. Call(f, n, x, len, cond) = rma(x.src, len.len)
    BY <1>12, Zenon
  <2> QED
    BY <1>1, <1>2, <1>3, <2>1, RmaCausal, Zenon
<1>13. CASE n.fn = "hma"
  <2>1. Call(f, n, x, len, cond) = hma(x.src, len.len)
    BY <1>13, Zenon
  <2> QED
    BY <1>1, <1>2, <1>3, <2>1, HmaCausal, Zenon
<1>14. CASE n.fn = "vwma"
  <2>1. Call(f, n, x, len, cond) = vwma(f, x.src, len.len)
    BY <1>14, Zenon
  <2> QED
    BY <1>1, <1>2, <1>3, <2>1, VwmaCausal, Zenon
<1>15. CASE n.fn = "rsi"
  <2>1. Call(f, n, x, len, cond) = rsi(x.src, len.len)
    BY <1>15, Zenon
  <2> QED
    BY <1>1, <1>2, <1>3, <2>1, RsiCausal, Zenon
<1>16. CASE n.fn = "bbands"
  <2>1. Call(f, n, x, len, cond) = bbands(x.src, len.len)
    BY <1>16, Zenon
  <2> QED
    BY <1>1, <1>2, <1>3, <2>1, BothCausal, Zenon DEF bbands, sma, stdev
<1>17. CASE n.fn = "cci"
  <2>1. Call(f, n, x, len, cond) = cci(f, x.src, len.len)
    BY <1>17, Zenon
  <2> QED
    BY <1>1, <1>2, <1>3, <2>1, HideCausal, Zenon DEF cci, sma
<1> HIDE DEF Call, Arithmetic, Binary, Unary
<1> QED
  BY <1>4, <1>5, <1>6, <1>7, <1>8, <1>9, <1>10, <1>11, <1>12, <1>13, <1>14, <1>15, <1>16, <1>17, Zenon DEF Smoothed, Priced

\* Functions of the bars alone, and the rest.
LEMMA RangedCall ==
  ASSUME NEW f, NEW n, NEW x, NEW len, NEW cond, NEW N \in Nat, DOMAIN f.bars = 1..N,
         WellCalled(f, n, x, len, cond), n.fn \in Ranged \cup {"stoch", "keltner", "supertrend"}
  PROVE  Causal(f.bars, Call(f, n, x, len, cond))
<1>1. n.fn # "supertrend" => len.len \in Nat /\ len.len \in Int
  BY Signatures, LengthWhole, Zenon DEF WellCalled
<1>2. n.fn \in {"keltner", "supertrend"} => len.atr_len \in Int
  BY Signatures, LengthWhole, Zenon DEF WellCalled
<1>3. n.fn = "stoch" => len.smooth_k \in Int /\ len.d \in Int
  BY Signatures, LengthWhole, Zenon DEF WellCalled
<1> USE DEF Call, Arithmetic, Binary, Unary
<1>4. CASE n.fn = "atr"
  <2>1. Call(f, n, x, len, cond) = atr(f, len.len)
    BY <1>4, Zenon
  <2> QED
    BY <1>1, <1>2, <1>3, <1>4, <2>1, AtrCausal, Zenon
<1>5. CASE n.fn = "adx"
  <2>1. Call(f, n, x, len, cond) = dmi(f, len.len, "adx")
    BY <1>5, Zenon
  <2> QED
    BY <1>1, <1>2, <1>3, <1>5, <2>1, DmiCausal, Zenon
<1>6. CASE n.fn = "dmi"
  <2>1. Call(f, n, x, len, cond) = dmi(f, len.len, Output(n))
    BY <1>6, Zenon
  <2> QED
    BY <1>1, <1>2, <1>3, <1>6, <2>1, DmiCausal, Zenon
<1>7. CASE n.fn = "mfi"
  <2>1. Call(f, n, x, len, cond) = mfi(f, len.len)
    BY <1>7, Zenon
  <2> QED
    BY <1>1, <1>2, <1>3, <1>7, <2>1, MfiCausal, Zenon
<1>8. CASE n.fn = "williams_r"
  <2>1. Call(f, n, x, len, cond) = williams_r(f, len.len)
    BY <1>8, Zenon
  <2> QED
    BY <1>1, <1>2, <1>3, <1>8, <2>1, StillCausal, Zenon DEF williams_r
<1>9. CASE n.fn = "donchian"
  <2>1. Call(f, n, x, len, cond) = donchian(f, len.len)
    BY <1>9, Zenon
  <2> QED
    BY <1>1, <1>2, <1>3, <1>9, <2>1, ChannelsCausal, Zenon
<1>10. CASE n.fn = "keltner"
  <2>1. Call(f, n, x, len, cond) = keltner(f, len.len, len.atr_len, Output(n))
    BY <1>10, Zenon
  <2> QED
    BY <1>1, <1>2, <1>3, <1>10, <2>1, ChannelsCausal, Zenon
<1>11. CASE n.fn = "stoch"
  <2>1. Call(f, n, x, len, cond) = stoch(f, len.len, len.smooth_k, len.d, Output(n))
    BY <1>11, Zenon
  <2> QED
    BY <1>1, <1>2, <1>3, <1>11, <2>1, StochCausal, Zenon
<1>12. CASE n.fn = "supertrend"
  <2>1. Call(f, n, x, len, cond) = supertrend(f, len.atr_len)
    BY <1>12, Zenon
  <2> QED
    BY <1>1, <1>2, <1>3, <1>12, <2>1, SupertrendCausal, Zenon
<1> HIDE DEF Call, Arithmetic, Binary, Unary
<1> QED
  BY <1>4, <1>5, <1>6, <1>7, <1>8, <1>9, <1>10, <1>11, <1>12, Zenon DEF Ranged

\* No function of the catalog looks ahead: called on values that do not, with
\* lengths in range, on any bars, it reads at every bar what is past.
THEOREM CallsReadThePast ==
  ASSUME NEW f, Frame(f), NEW n, NEW x, NEW len, NEW cond, WellCalled(f, n, x, len, cond)
  PROVE  Causal(f.bars, Call(f, n, x, len, cond))
<1> PICK N \in Nat : DOMAIN f.bars = 1..N
  BY FrameBars
<1>1. CASE n.fn \in Lagged
  <2>1. Causal(f.bars, x.src) /\ len.n \in Nat
    BY <1>1, Signatures, LengthWhole, Zenon DEF WellCalled
  <2>2. Causal(f.bars, shift(x.src, len.n)) /\ Causal(f.bars, change(x.src, len.n))
    BY <2>1, ShiftCausal, ChangeCausal
  <2>3. Call(f, n, x, len, cond) \in {shift(x.src, len.n), change(x.src, len.n)}
    BY <1>1, Zenon DEF Lagged, Call, Arithmetic, Binary, Unary
  <2> QED
    BY <2>2, <2>3, Zenon
<1>2. CASE n.fn = "macd"
  <2>1. Causal(f.bars, x.src) /\ Output(n) \in {"macd", "signal", "hist"}
    BY <1>2, Signatures, Zenon DEF WellCalled
  <2>2. Call(f, n, x, len, cond) = macd(x.src, len.fast, len.slow, len.signal, Output(n))
    BY <1>2, Zenon DEF Call, Arithmetic, Binary, Unary
  <2> QED
    BY <2>1, <2>2, MacdCausal
<1>3. CASE n.fn = "barssince"
  <2>1. CausalCondition(f.bars, cond)
    BY <1>3, Signatures, Zenon DEF WellCalled
  <2>2. Call(f, n, x, len, cond) = barssince(cond)
    BY <1>3, Zenon DEF Call, Arithmetic, Binary, Unary
  <2> QED
    BY <2>1, <2>2, BarssinceCausal
<1>4. CASE n.fn \in Bare
  <2>1. Call(f, n, x, len, cond) \in {true_range(f), obv(f), vwap(f), psar(f)}
    BY <1>4, Zenon DEF Bare, Call, Arithmetic, Binary, Unary
  <2> QED
    BY <2>1, RangesCausal, VolumeCausal, Zenon
<1>5. CASE n.fn \in Arithmetic
  BY <1>5, ArithmeticCall
<1>6. CASE n.fn \in Smoothed \cup Priced \cup {"sum"}
  BY <1>6, SmoothedCall
<1>7. CASE n.fn \in Ranged \cup {"stoch", "keltner", "supertrend"}
  BY <1>7, RangedCall
<1> QED
  BY <1>1, <1>2, <1>3, <1>4, <1>5, <1>6, <1>7, Zenon DEF WellCalled, FUNCTIONS
-----------------------------------------------------------------------------
(* Conditions.                                                             *)

LEMMA ComparedCausal ==
  ASSUME NEW b, NEW xs, 1 \in DOMAIN xs, \A k \in DOMAIN xs : Causal(b, xs[k])
  PROVE  CausalCondition(b, Compared(xs))
<1>1. DOMAIN Compared(xs) = DOMAIN b
  BY Zenon DEF Compared, Causal
<1>2. ASSUME NEW i \in DOMAIN b
      PROVE  Compared(xs)[i] \in [can : SUBSET BOOLEAN, reads : SUBSET Past(b, i)]
  <2> DEFINE got == {xs[k][i] : k \in DOMAIN xs}
  <2>1. Compared(xs)[i] = IF Missing \in got THEN [can |-> {FALSE}, reads |-> {0}]
                          ELSE [can |-> BOOLEAN, reads |-> UNION got]
    BY Zenon DEF Compared, Causal
  <2>2. \A g \in got : g \subseteq Past(b, i)
    BY Zenon DEF Causal
  <2> HIDE DEF got
  <2>3. UNION got \in SUBSET Past(b, i) /\ {0} \in SUBSET Past(b, i)
    BY <2>2, Zenon DEF Past
  <2>4. {FALSE} \in SUBSET BOOLEAN /\ BOOLEAN \in SUBSET BOOLEAN
    BY Zenon
  <2> QED
    BY <2>1, <2>3, <2>4
<1> QED
  BY <1>1, <1>2, Zenon DEF CausalCondition

LEMMA JoinedCausal ==
  ASSUME NEW b, NEW cs, 1 \in DOMAIN cs, \A k \in DOMAIN cs : CausalCondition(b, cs[k]), NEW absorbing
  PROVE  CausalCondition(b, Joined(cs, absorbing))
<1>1. DOMAIN Joined(cs, absorbing) = DOMAIN b
  BY Zenon DEF Joined, CausalCondition
<1>2. ASSUME NEW i \in DOMAIN b
      PROVE  Joined(cs, absorbing)[i] \in [can : SUBSET BOOLEAN, reads : SUBSET Past(b, i)]
  <2> DEFINE can   == {v \in BOOLEAN : IF v = absorbing THEN \E k \in DOMAIN cs : v \in cs[k][i].can
                                       ELSE \A k \in DOMAIN cs : v \in cs[k][i].can}
             reads == UNION {cs[k][i].reads : k \in DOMAIN cs}
  <2>1. Joined(cs, absorbing)[i] = [can |-> can, reads |-> reads]
    BY Zenon DEF Joined, CausalCondition
  <2>2. can \in SUBSET BOOLEAN
    BY Zenon
  <2>3. \A k \in DOMAIN cs : cs[k][i].reads \subseteq Past(b, i)
    BY DEF CausalCondition
  <2>4. reads \in SUBSET Past(b, i)
    BY <2>3, Zenon
  <2> HIDE DEF can, reads
  <2> QED
    BY <2>1, <2>2, <2>4
<1> QED
  BY <1>1, <1>2, Zenon DEF CausalCondition

LEMMA NegatedCausal ==
  ASSUME NEW b, NEW c, CausalCondition(b, c)
  PROVE  CausalCondition(b, Negated(c))
<1>1. DOMAIN Negated(c) = DOMAIN b
  BY Zenon DEF Negated, CausalCondition
<1>2. ASSUME NEW i \in DOMAIN b
      PROVE  Negated(c)[i] \in [can : SUBSET BOOLEAN, reads : SUBSET Past(b, i)]
  <2> DEFINE can == {~v : v \in c[i].can}
  <2>1. Negated(c)[i] = [c[i] EXCEPT !.can = can]
    BY Zenon DEF Negated, CausalCondition
  <2>2. can \in SUBSET BOOLEAN
    BY Zenon
  <2>3. c[i] \in [can : SUBSET BOOLEAN, reads : SUBSET Past(b, i)]
    BY Zenon DEF CausalCondition
  <2> HIDE DEF can
  <2> QED
    BY <2>1, <2>2, <2>3
<1> QED
  BY <1>1, <1>2, Zenon DEF CausalCondition

\* No condition looks ahead: a constant, a comparison of values that do not, a
\* crossing, a trend, and what is built of such conditions.
THEOREM ConditionsReadThePast ==
  ASSUME NEW f, Frame(f)
  PROVE  /\ \A v \in BOOLEAN : CausalCondition(f.bars, Always(f, v))
         /\ \A xs : 1 \in DOMAIN xs /\ (\A k \in DOMAIN xs : Causal(f.bars, xs[k]))
                      => CausalCondition(f.bars, Compared(xs))
         /\ \A x, y : Causal(f.bars, x) /\ Causal(f.bars, y)
                        => CausalCondition(f.bars, Crossed(x, y))
         /\ \A x : \A n \in Length : Causal(f.bars, x) => CausalCondition(f.bars, Trending(x, n))
         /\ \A c : CausalCondition(f.bars, c) => CausalCondition(f.bars, Negated(c))
         /\ \A cs, v : 1 \in DOMAIN cs /\ (\A k \in DOMAIN cs : CausalCondition(f.bars, cs[k]))
                         => CausalCondition(f.bars, Joined(cs, v))
<1> DEFINE b == f.bars
<1> PICK N \in Nat : DOMAIN f.bars = 1..N
  BY FrameBars
<1>0. 1 \in Nat
  OBVIOUS
<1>1. ASSUME NEW v \in BOOLEAN PROVE CausalCondition(b, Always(f, v))
  BY Zenon DEF CausalCondition, Always, Past
<1>2. ASSUME NEW xs, 1 \in DOMAIN xs, \A k \in DOMAIN xs : Causal(b, xs[k])
      PROVE  CausalCondition(b, Compared(xs))
  BY <1>2, ComparedCausal
<1>3. ASSUME NEW x, NEW y, Causal(b, x), Causal(b, y) PROVE CausalCondition(b, Crossed(x, y))
  <2> DEFINE xs == <<x, y, shift(x, 1), shift(y, 1)>>
  <2>1. Causal(b, shift(x, 1)) /\ Causal(b, shift(y, 1))
    BY <1>0, <1>3, ShiftCausal
  <2>2. DOMAIN xs = 1..4 /\ xs[1] = x /\ xs[2] = y /\ xs[3] = shift(x, 1) /\ xs[4] = shift(y, 1)
    OBVIOUS
  <2> HIDE DEF xs
  <2>3. 1 \in DOMAIN xs /\ \A k \in DOMAIN xs : k \in {1, 2, 3, 4}
    BY <2>2, SMT
  <2>4. \A k \in DOMAIN xs : Causal(b, xs[k])
    BY <1>3, <2>1, <2>2, <2>3, Zenon
  <2> QED
    BY <2>3, <2>4, ComparedCausal DEF Crossed, xs
<1>4. ASSUME NEW x, NEW n \in Length, Causal(b, x) PROVE CausalCondition(b, Trending(x, n))
  <2> DEFINE xs == <<x, highest(shift(x, 1), n)>>
  <2>1. Causal(b, shift(x, 1))
    BY <1>0, <1>4, ShiftCausal
  <2>2. Causal(b, highest(shift(x, 1), n))
    BY <2>1, LengthWhole, RollingCausal DEF highest
  <2>3. DOMAIN xs = 1..2 /\ xs[1] = x /\ xs[2] = highest(shift(x, 1), n)
    OBVIOUS
  <2> HIDE DEF xs
  <2>4. 1 \in DOMAIN xs /\ \A k \in DOMAIN xs : k \in {1, 2}
    BY <2>3, SMT
  <2>5. \A k \in DOMAIN xs : Causal(b, xs[k])
    BY <1>4, <2>2, <2>3, <2>4, Zenon
  <2> QED
    BY <2>4, <2>5, ComparedCausal DEF Trending, xs
<1>5. ASSUME NEW c, CausalCondition(b, c) PROVE CausalCondition(b, Negated(c))
  BY <1>5, NegatedCausal
<1>6. ASSUME NEW cs, NEW v, 1 \in DOMAIN cs, \A k \in DOMAIN cs : CausalCondition(b, cs[k])
      PROVE  CausalCondition(b, Joined(cs, v))
  BY <1>6, JoinedCausal
<1> QED
  BY <1>1, <1>2, <1>3, <1>4, <1>5, <1>6, Zenon
-----------------------------------------------------------------------------
(* A whole evaluation.                                                     *)

\* Results have a frame, a kind and a value.  Those of a kind on one frame:
Among(E, f, kind) == {u.val : u \in {w \in E : w.frame = f /\ w.kind = kind}}

\* A value of Evaluator.value: a constant, a price, the call of a function on
\* values and conditions found before, or one of a higher timeframe.
ValueFrom(t, E) ==
  \/ t.val \in {Constant(t.frame), t.frame.bars}
  \/ \E k \in Length : \E u \in E : /\ u.frame = Resampled(t.frame, k).frame /\ u.kind = "value"
                                    /\ t.val = to_base(Resampled(t.frame, k), u.val)
  \/ \E n, x, len, cond :
       /\ n.fn \in FUNCTIONS /\ (n.fn = "macd" => Output(n) \in {"macd", "signal", "hist"})
       /\ DOMAIN x = Args(n.fn, "S")
       /\ \A k \in Args(n.fn, "S") : x[k] \in Among(E, t.frame, "value")
       /\ \A k \in Args(n.fn, "L") : len[k] \in Length
       /\ \A k \in Args(n.fn, "C") : cond \in Among(E, t.frame, "condition")
       /\ t.val = Call(t.frame, n, x, len, cond)

\* A condition of Evaluator.cond.
ConditionFrom(t, E) ==
  LET values == Among(E, t.frame, "value")
      conds  == Among(E, t.frame, "condition")
  IN \/ \E v \in BOOLEAN : t.val = Always(t.frame, v)
     \/ \E xs : /\ 1 \in DOMAIN xs /\ \A k \in DOMAIN xs : xs[k] \in values
                /\ t.val = Compared(xs)
     \/ \E x \in values, y \in values : t.val = Crossed(x, y)
     \/ \E x \in values, n \in Length : t.val = Trending(x, n)
     \/ \E c \in conds : t.val = Negated(c)
     \/ \E cs, v : /\ 1 \in DOMAIN cs /\ \A k \in DOMAIN cs : cs[k] \in conds
                   /\ t.val = Joined(cs, v)

ReadsThePast(t) == IF t.kind = "value" THEN Causal(t.frame.bars, t.val)
                   ELSE CausalCondition(t.frame.bars, t.val)

LEMMA AmongPast ==
  ASSUME NEW E, \A u \in E : ReadsThePast(u), NEW f
  PROVE  /\ \A x \in Among(E, f, "value") : Causal(f.bars, x)
         /\ \A c \in Among(E, f, "condition") : CausalCondition(f.bars, c)
<1>1. "condition" # "value"
  OBVIOUS
<1> QED
  BY <1>1, Zenon DEF Among, ReadsThePast

LEMMA ValueStep ==
  ASSUME NEW E, \A u \in E : ReadsThePast(u), NEW t, Frame(t.frame), ValueFrom(t, E)
  PROVE  Causal(t.frame.bars, t.val)
<1> DEFINE f == t.frame
<1> PICK N \in Nat : DOMAIN f.bars = 1..N
  BY FrameBars
<1>1. CASE t.val \in {Constant(f), f.bars}
  <2>1. Causal(f.bars, Constant(f))
    BY Zenon DEF Constant, Causal, Past
  <2> QED
    BY <1>1, <2>1, BarsCausal, Zenon
<1>2. ASSUME NEW k \in Length, NEW u \in E, u.frame = Resampled(f, k).frame, u.kind = "value",
             t.val = to_base(Resampled(f, k), u.val)
      PROVE  Causal(f.bars, t.val)
  <2>1. Causal(Resampled(f, k).frame.bars, u.val)
    BY <1>2, Zenon DEF ReadsThePast
  <2>2. Causal(f.bars, to_base(Resampled(f, k), u.val))
    BY <2>1, HigherTimeframesReadThePast
  <2> QED
    BY <1>2, <2>2, Zenon
<1>3. ASSUME NEW n, NEW x, NEW len, NEW cond,
             n.fn \in FUNCTIONS, n.fn = "macd" => Output(n) \in {"macd", "signal", "hist"},
             DOMAIN x = Args(n.fn, "S"),
             \A k \in Args(n.fn, "S") : x[k] \in Among(E, f, "value"),
             \A k \in Args(n.fn, "L") : len[k] \in Length,
             \A k \in Args(n.fn, "C") : cond \in Among(E, f, "condition"),
             t.val = Call(f, n, x, len, cond)
      PROVE  Causal(f.bars, t.val)
  <2>1. /\ \A v \in Among(E, f, "value") : Causal(f.bars, v)
        /\ \A c \in Among(E, f, "condition") : CausalCondition(f.bars, c)
    BY AmongPast
  <2>2. WellCalled(f, n, x, len, cond)
    BY <1>3, <2>1, Zenon DEF WellCalled
  <2>3. Causal(f.bars, Call(f, n, x, len, cond))
    BY <2>2, CallsReadThePast
  <2> QED
    BY <1>3, <2>3, Zenon
<1> QED
  BY <1>1, <1>2, <1>3, Zenon DEF ValueFrom

LEMMA ConditionStep ==
  ASSUME NEW E, \A u \in E : ReadsThePast(u), NEW t, Frame(t.frame), ConditionFrom(t, E)
  PROVE  CausalCondition(t.frame.bars, t.val)
<1> DEFINE values == Among(E, t.frame, "value")
           conds  == Among(E, t.frame, "condition")
<1>1. /\ \A v \in values : Causal(t.frame.bars, v)
      /\ \A c \in conds : CausalCondition(t.frame.bars, c)
  BY AmongPast
<1>2. \/ \E v \in BOOLEAN : t.val = Always(t.frame, v)
      \/ \E xs : 1 \in DOMAIN xs /\ (\A k \in DOMAIN xs : xs[k] \in values) /\ t.val = Compared(xs)
      \/ \E x \in values, y \in values : t.val = Crossed(x, y)
      \/ \E x \in values, n \in Length : t.val = Trending(x, n)
      \/ \E c \in conds : t.val = Negated(c)
      \/ \E cs, v : 1 \in DOMAIN cs /\ (\A k \in DOMAIN cs : cs[k] \in conds) /\ t.val = Joined(cs, v)
  BY Zenon DEF ConditionFrom
<1> HIDE DEF values, conds
<1>3. CASE \E v \in BOOLEAN : t.val = Always(t.frame, v)
  BY <1>3, ConditionsReadThePast, Zenon
<1>4. CASE \E xs : 1 \in DOMAIN xs /\ (\A k \in DOMAIN xs : xs[k] \in values) /\ t.val = Compared(xs)
  BY <1>1, <1>4, ConditionsReadThePast, Zenon
<1>5. CASE \E x \in values, y \in values : t.val = Crossed(x, y)
  BY <1>1, <1>5, ConditionsReadThePast, Zenon
<1>6. CASE \E x \in values, n \in Length : t.val = Trending(x, n)
  BY <1>1, <1>6, ConditionsReadThePast, Zenon
<1>7. CASE \E c \in conds : t.val = Negated(c)
  BY <1>1, <1>7, ConditionsReadThePast, Zenon
<1>8. CASE \E cs, v : 1 \in DOMAIN cs /\ (\A k \in DOMAIN cs : cs[k] \in conds) /\ t.val = Joined(cs, v)
  BY <1>1, <1>8, ConditionsReadThePast, Zenon
<1> QED
  BY <1>2, <1>3, <1>4, <1>5, <1>6, <1>7, <1>8, Zenon

\* Whatever a document makes the evaluator compute, in whatever order and nested
\* however deep, each result on a frame from results computed before it: no value
\* and no condition looks ahead.
THEOREM EvaluationReadsThePast ==
  ASSUME NEW Results, NEW turn \in [Results -> Nat],
         \A t \in Results :
           /\ Frame(t.frame)
           /\ \/ t.kind = "value" /\ ValueFrom(t, {u \in Results : turn[u] < turn[t]})
              \/ t.kind = "condition" /\ ConditionFrom(t, {u \in Results : turn[u] < turn[t]})
  PROVE  \A t \in Results : ReadsThePast(t)
<1> DEFINE Bad == {turn[t] : t \in {w \in Results : ~ReadsThePast(w)}}
<1> SUFFICES ASSUME Bad # {} PROVE FALSE
  BY Zenon
<1>1. Bad \in SUBSET Nat
  BY Zenon
<1>2. Min(Bad) \in Bad /\ \A b \in Bad : Min(Bad) <= b
  <2> HIDE DEF Bad
  <2> QED
    BY <1>1, LeastOf
<1>3. PICK t \in Results : ~ReadsThePast(t) /\ turn[t] = Min(Bad)
  BY <1>2, Zenon
<1> DEFINE E == {u \in Results : turn[u] < turn[t]}
<1>4. ASSUME NEW u \in E PROVE ReadsThePast(u)
  <2> SUFFICES ASSUME ~ReadsThePast(u) PROVE FALSE
    BY Zenon
  <2>1. turn[u] \in Bad /\ turn[u] < turn[t] /\ turn[u] \in Nat /\ turn[t] \in Nat
    BY Zenon
  <2>2. turn[t] <= turn[u]
    BY <1>2, <1>3, <2>1, Zenon
  <2> QED
    BY <2>1, <2>2, SMT
<1> HIDE DEF Bad
<1>5. Frame(t.frame)
  BY Zenon
<1>6. \/ t.kind = "value" /\ ValueFrom(t, E)
      \/ t.kind = "condition" /\ ConditionFrom(t, E)
  BY Zenon
<1> HIDE DEF E
<1>7. CASE t.kind = "value" /\ ValueFrom(t, E)
  <2>1. Causal(t.frame.bars, t.val)
    BY <1>4, <1>5, <1>7, ValueStep, Zenon
  <2> QED
    BY <1>3, <1>7, <2>1, Zenon DEF ReadsThePast
<1>8. CASE t.kind = "condition" /\ ConditionFrom(t, E)
  <2>1. CausalCondition(t.frame.bars, t.val)
    BY <1>4, <1>5, <1>8, ConditionStep, Zenon
  <2>2. t.kind # "value"
    BY <1>8
  <2> QED
    BY <1>3, <2>1, <2>2, Zenon DEF ReadsThePast
<1> QED
  BY <1>6, <1>7, <1>8, Zenon

\* On the series itself, whose bars are their opening times, that is the formula of
\* NoLookahead: a condition read no bar that opened later.
THEOREM RulesReadNoLaterBar ==
  ASSUME NEW f, Frame(f), \A i \in DOMAIN f.ts : f.bars[i] = {f.ts[i]} /\ f.ts[i] >= 0,
         NEW c, CausalCondition(f.bars, c)
  PROVE  \A i \in DOMAIN c : \A b \in c[i].reads : b <= f.ts[i]
<1> PICK N \in Nat : DOMAIN f.bars = 1..N /\ DOMAIN f.ts = 1..N
  BY FrameBars
<1> SUFFICES ASSUME NEW i \in 1..N, NEW b \in c[i].reads PROVE b <= f.ts[i]
  BY Zenon DEF CausalCondition
<1>1. b \in {0} \cup UNION {f.bars[j] : j \in 1..i}
  <2>1. c[i] \in [can : SUBSET BOOLEAN, reads : SUBSET Past(f.bars, i)]
    BY Zenon DEF CausalCondition
  <2>2. c[i].reads \subseteq Past(f.bars, i)
    BY <2>1
  <2> QED
    BY <2>2, Zenon DEF Past, Upto
<1>2. CASE b = 0
  BY <1>2, SMT DEF Frame
<1>3. ASSUME NEW j \in 1..i, b \in f.bars[j] PROVE b <= f.ts[i]
  <2>1. j \in 1..N /\ j <= i
    BY SMT
  <2>2. b = f.ts[j]
    BY <1>3, <2>1, Zenon
  <2> QED
    BY <2>1, <2>2, Zenon DEF Frame
<1> QED
  BY <1>1, <1>2, <1>3, Zenon
=============================================================================

--------------------------- MODULE ScoringProofs ---------------------------
(***************************************************************************)
(* Scoring's six invariants, for every calendar, every walk of the script, *)
(* every request and everything the checks may find.                       *)
(***************************************************************************)
EXTENDS Scoring, FiniteSetTheorems, SequenceTheorems, WellFoundedInduction, TLAPS

-----------------------------------------------------------------------------
(* How many bars a time is past, on a series that increases.               *)

LEMMA GreatestOf ==
  ASSUME NEW n0 \in Nat, NEW S \in SUBSET (0..n0), S # {}
  PROVE  Max(S) \in S /\ \A x \in S : x <= Max(S)
<1> DEFINE Up == {n0 - x : x \in S}
<1> PICK z \in S : TRUE
  OBVIOUS
<1>1. Up \in SUBSET Nat /\ n0 - z \in Up
  OBVIOUS
<1>2. PICK u \in Up : \A x \in Up : ~(<<x, u>> \in OpToRel(<, Nat))
  <2> HIDE DEF Up
  <2> QED
    BY <1>1, WFMin, NatLessThanWellFounded
<1>3. PICK m \in S : n0 - m = u
  BY <1>2
<1>4. ASSUME NEW x \in S PROVE x <= m
  <2>1. n0 - x \in Up /\ n0 - x \in Nat /\ n0 - m \in Nat
    OBVIOUS
  <2>2. ~(<<n0 - x, u>> \in OpToRel(<, Nat))
    <3> HIDE DEF Up
    <3> QED
      BY <1>2, <2>1
  <2>3. ~(n0 - x < n0 - m)
    BY <2>1, <2>2, <1>3 DEF OpToRel
  <2> QED
    BY <2>3
<1> QED
  BY <1>4 DEF Max

\* What holds up to some bar and not after it is counted by that bar.
LEMMA Prefix ==
  ASSUME NEW len \in Nat, NEW S \in SUBSET (1..len),
         \A i \in S : \A j \in 1..len : j <= i => j \in S
  PROVE  /\ Cardinality(S) \in 0..len
         /\ \A i \in 1..len : i \in S <=> i <= Cardinality(S)
<1>1. CASE S = {}
  BY <1>1, FS_EmptySet
<1>2. CASE S # {}
  <2>1. PICK m \in S : \A x \in S : x <= m
    <3>1. S \in SUBSET (0..len)
      OBVIOUS
    <3> QED
      BY <3>1, <1>2, GreatestOf
  <2>2. m \in 1..len
    OBVIOUS
  <2>3. S = 1..m
    <3>1. ASSUME NEW x \in S PROVE x \in 1..m
      <4>1. x \in 1..len /\ x <= m
        BY <2>1
      <4> QED
        BY <4>1, <2>2
    <3>2. ASSUME NEW x \in 1..m PROVE x \in S
      <4>1. x \in 1..len /\ x <= m
        BY <2>2
      <4> QED
        BY <4>1
    <3> QED
      BY <3>1, <3>2
  <2>4. Cardinality(1..m) = m
    BY <2>2, FS_Interval
  <2> QED
    BY <2>2, <2>3, <2>4
<1> QED
  BY <1>1, <1>2

\* searchsorted on an increasing sequence.
LEMMA Counted ==
  ASSUME NEW len \in Nat, NEW f \in [1..len -> Int],
         \A i, j \in 1..len : i < j => f[i] < f[j],
         NEW t \in Int
  PROVE  /\ AtOrBefore(f, t) \in 0..len /\ Before(f, t) \in 0..len
         /\ \A i \in 1..len : f[i] <= t <=> i <= AtOrBefore(f, t)
         /\ \A i \in 1..len : f[i] < t <=> i <= Before(f, t)
<1> DEFINE Upto == {i \in DOMAIN f : f[i] <= t}
           Under == {i \in DOMAIN f : f[i] < t}
<1>1. ASSUME NEW i \in 1..len, NEW j \in 1..len, j <= i PROVE f[j] <= f[i]
  BY <1>1
<1>2. Upto \in SUBSET (1..len) /\ \A i \in Upto : \A j \in 1..len : j <= i => j \in Upto
  BY <1>1
<1>3. Under \in SUBSET (1..len) /\ \A i \in Under : \A j \in 1..len : j <= i => j \in Under
  BY <1>1
<1>4. /\ Cardinality(Upto) \in 0..len
      /\ \A i \in 1..len : i \in Upto <=> i <= Cardinality(Upto)
  <2> HIDE DEF Upto
  <2> QED
    BY <1>2, Prefix
<1>5. /\ Cardinality(Under) \in 0..len
      /\ \A i \in 1..len : i \in Under <=> i <= Cardinality(Under)
  <2> HIDE DEF Under
  <2> QED
    BY <1>3, Prefix
<1> QED
  BY <1>4, <1>5 DEF AtOrBefore, Before

-----------------------------------------------------------------------------
(* Windows given by their bars.                                            *)

Series(ts) == /\ ts \in Seq(Int) /\ Len(ts) >= 2
              /\ \A i, j \in 1..Len(ts) : i < j => ts[i] < ts[j]

\* Train is bars a to b, test the ones after it to c, the holdout the rest.
Cuts(ts, a, b, c) == [train |-> <<ts[a], ts[b]>>, test |-> <<ts[b + 1], ts[c]>>,
                      holdout |-> <<ts[c + 1], ts[Len(ts)]>>]
InOrder(len, a, b, c) == /\ a \in 1..len /\ b \in a..len /\ c \in b + 1..len - 1

LEMMA AtABar ==
  ASSUME NEW ts, Series(ts), NEW i \in 1..Len(ts)
  PROVE  AtOrBefore(ts, ts[i]) = i /\ Before(ts, ts[i]) = i - 1
<1>1. ts \in [1..Len(ts) -> Int] /\ Len(ts) \in Nat /\ ts[i] \in Int
  BY DEF Series
<1>2. \A k, j \in 1..Len(ts) : k < j => ts[k] < ts[j]
  BY DEF Series
<1> DEFINE p == AtOrBefore(ts, ts[i])
           q == Before(ts, ts[i])
<1>3. /\ p \in 0..Len(ts) /\ q \in 0..Len(ts)
      /\ \A k \in 1..Len(ts) : ts[k] <= ts[i] <=> k <= p
      /\ \A k \in 1..Len(ts) : ts[k] < ts[i] <=> k <= q
  BY <1>1, <1>2, Counted
<1> HIDE DEF p, q
<1>4. \A k \in 1..Len(ts) : ts[k] \in Int
  BY <1>1
<1>5. i <= p /\ ~(p > i)
  BY <1>1, <1>2, <1>3, <1>4
<1>6. ~(i <= q) /\ ~(q < i - 1)
  <2>1. ~(i <= q)
    BY <1>1, <1>3
  <2>2. ASSUME q < i - 1 PROVE FALSE
    <3>1. i - 1 \in 1..Len(ts) /\ i - 1 < i
      BY <2>2, <1>3
    <3>2. ts[i - 1] < ts[i]
      BY <3>1, <1>2
    <3> QED
      BY <3>1, <3>2, <1>3, <2>2
  <2> QED
    BY <2>1, <2>2
<1> QED
  BY <1>1, <1>3, <1>5, <1>6 DEF p, q

LEMMA RangeAtBars ==
  ASSUME NEW ts, Series(ts), NEW i \in 1..Len(ts), NEW j \in 1..Len(ts)
  PROVE  index_range(ts, <<ts[i], ts[j]>>) = <<i, j>> /\ Bars(ts, <<ts[i], ts[j]>>) = j - i + 1
<1>1. AtOrBefore(ts, ts[j]) = j /\ Before(ts, ts[i]) = i - 1
  BY AtABar
<1> QED
  BY <1>1 DEF index_range, Bars

\* What WindowsTile says, of windows given by their bars.
LEMMA CutsTile ==
  ASSUME NEW ts, Series(ts), NEW a, NEW b, NEW c, InOrder(Len(ts), a, b, c)
  PROVE  LET s == Cuts(ts, a, b, c) IN
         /\ index_range(ts, s.train) = <<a, b>>
         /\ index_range(ts, s.test) = <<b + 1, c>>
         /\ index_range(ts, s.holdout) = <<c + 1, Len(ts)>>
<1>1. /\ Len(ts) \in Nat /\ a \in 1..Len(ts) /\ b \in 1..Len(ts) /\ b + 1 \in 1..Len(ts)
      /\ c \in 1..Len(ts) /\ c + 1 \in 1..Len(ts) /\ Len(ts) \in 1..Len(ts)
  BY DEF InOrder, Series
<1> QED
  BY <1>1, RangeAtBars DEF Cuts

-----------------------------------------------------------------------------
(* The default split, by its bars.                                         *)

Holdout(ts) == Min({Grain * HoldoutDays, (Grain \div 4) * (ts[Len(ts)] - ts[1])})
HoldStart(ts) == Grain * ts[Len(ts)] - Holdout(ts)
TrainCut(ts) == Grain * ts[1] + ((HoldStart(ts) - Grain * ts[1]) * 7) \div 10
TrainEnd(ts) == Max({1, AtOrBefore(Fine(ts), TrainCut(ts))})
TestEnd(ts) == Max({1, AtOrBefore(Fine(ts), HoldStart(ts))})
OpenBar(ts) == IF Len(ts) > MinWindowBars + 1 THEN Max({TestEnd(ts), Len(ts) - MinWindowBars})
               ELSE TestEnd(ts)

LEMMA OfTwo ==
  ASSUME NEW x \in Int, NEW y \in Int
  PROVE  /\ Max({x, y}) = IF x >= y THEN x ELSE y
         /\ Min({x, y}) = IF x <= y THEN x ELSE y
<1>1. Max({x, y}) \in {x, y} /\ Max({x, y}) >= x /\ Max({x, y}) >= y
  <2>1. \E m \in {x, y} : \A k \in {x, y} : m >= k
    OBVIOUS
  <2> QED
    BY <2>1 DEF Max
<1>2. Min({x, y}) \in {x, y} /\ Min({x, y}) <= x /\ Min({x, y}) <= y
  <2>1. \E m \in {x, y} : \A k \in {x, y} : m <= k
    OBVIOUS
  <2> QED
    BY <2>1 DEF Min
<1> QED
  BY <1>1, <1>2

LEMMA FineSeries ==
  ASSUME NEW ts, Series(ts)
  PROVE  /\ Series(Fine(ts)) /\ Len(Fine(ts)) = Len(ts)
         /\ \A i \in 1..Len(ts) : Fine(ts)[i] = 400 * ts[i]
<1>1. /\ Len(ts) \in Nat /\ DOMAIN ts = 1..Len(ts) /\ \A i \in 1..Len(ts) : ts[i] \in Int
      /\ \A i, j \in 1..Len(ts) : i < j => ts[i] < ts[j]
  BY DEF Series
<1>2. Fine(ts) \in [1..Len(ts) -> Int] /\ \A i \in 1..Len(ts) : Fine(ts)[i] = 400 * ts[i]
  BY <1>1 DEF Fine, Grain
<1>3. Fine(ts) \in Seq(Int) /\ Len(Fine(ts)) = Len(ts)
  BY <1>1, <1>2
<1> QED
  BY <1>1, <1>2, <1>3 DEF Series

LEMMA SeriesCounted ==
  ASSUME NEW ts, Series(ts), NEW t \in Int
  PROVE  /\ AtOrBefore(ts, t) \in 0..Len(ts) /\ Before(ts, t) \in 0..Len(ts)
         /\ \A i \in 1..Len(ts) : ts[i] <= t <=> i <= AtOrBefore(ts, t)
         /\ \A i \in 1..Len(ts) : ts[i] < t <=> i <= Before(ts, t)
<1>1. ts \in [1..Len(ts) -> Int] /\ Len(ts) \in Nat
  BY DEF Series
<1>2. \A k, j \in 1..Len(ts) : k < j => ts[k] < ts[j]
  BY DEF Series
<1> QED
  BY <1>1, <1>2, Counted

LEMMA SeriesTimes ==
  ASSUME NEW ts, Series(ts)
  PROVE  /\ Len(ts) \in Nat /\ Len(ts) >= 2 /\ DOMAIN ts = 1..Len(ts)
         /\ \A i \in 1..Len(ts) : ts[i] \in Int
         /\ \A i, j \in 1..Len(ts) : (i < j <=> ts[i] < ts[j]) /\ (i <= j <=> ts[i] <= ts[j])
<1>1. /\ Len(ts) \in Nat /\ Len(ts) >= 2 /\ DOMAIN ts = 1..Len(ts)
      /\ \A i \in 1..Len(ts) : ts[i] \in Int
      /\ \A i, j \in 1..Len(ts) : i < j => ts[i] < ts[j]
  BY DEF Series
<1>2. ASSUME NEW i \in 1..Len(ts), NEW j \in 1..Len(ts)
      PROVE  (i < j <=> ts[i] < ts[j]) /\ (i <= j <=> ts[i] <= ts[j])
  <2>1. i < j \/ i = j \/ j < i
    BY <1>1
  <2> QED
    BY <1>1, <2>1
<1> QED
  BY <1>1, <1>2

\* The holdout starts before the newest bar and after the train cut; as the newest
\* bar moves on it never moves back.
LEMMA HoldStartMeans ==
  ASSUME NEW ts, Series(ts)
  PROVE  /\ HoldStart(ts) \in Int /\ HoldStart(ts) < 400 * ts[Len(ts)]
         /\ HoldStart(ts) = IF 400 * ts[Len(ts)] - 400 * HoldoutDays
                               >= 300 * ts[Len(ts)] + 100 * ts[1]
                            THEN 400 * ts[Len(ts)] - 400 * HoldoutDays
                            ELSE 300 * ts[Len(ts)] + 100 * ts[1]
<1> DEFINE first == ts[1]
           last == ts[Len(ts)]
<1>1. first \in Int /\ last \in Int /\ first < last /\ HoldoutDays \in Nat /\ HoldoutDays > 0
  <2>1. 1 \in 1..Len(ts) /\ Len(ts) \in 1..Len(ts) /\ 1 < Len(ts)
    BY SeriesTimes
  <2> QED
    BY <2>1, SeriesTimes, WindowsAssumption
<1> DEFINE x == 400 * HoldoutDays
           y == 100 * (last - first)
<1> HIDE DEF first, last
<1>2. x \in Int /\ y \in Int /\ x > 0 /\ y > 0
  BY <1>1
<1>3. (Grain \div 4) = 100 /\ Grain = 400
  BY DEF Grain
<1>4. Holdout(ts) = Min({x, y})
  BY <1>3 DEF Holdout, first, last
<1>5. Holdout(ts) = IF x <= y THEN x ELSE y
  <2> HIDE DEF x, y
  <2> QED
    BY <1>2, <1>4, OfTwo
<1>6. HoldStart(ts) = 400 * last - Holdout(ts)
  BY <1>3 DEF HoldStart, last
<1>7. /\ HoldStart(ts) \in Int /\ HoldStart(ts) < 400 * last
      /\ HoldStart(ts) = IF 400 * last - 400 * HoldoutDays >= 300 * last + 100 * first
                         THEN 400 * last - 400 * HoldoutDays ELSE 300 * last + 100 * first
  BY <1>1, <1>2, <1>5, <1>6
<1> QED
  BY <1>7 DEF first, last

LEMMA EndsMean ==
  ASSUME NEW ts, Series(ts)
  PROVE  /\ TrainEnd(ts) \in 1..TestEnd(ts) /\ TestEnd(ts) \in 1..Len(ts) - 1
         /\ split(ts) = Cuts(ts, 1, TrainEnd(ts), TestEnd(ts))
<1> DEFINE len == Len(ts)
           p == AtOrBefore(Fine(ts), TrainCut(ts))
           q == AtOrBefore(Fine(ts), HoldStart(ts))
<1>1. /\ len \in Nat /\ len >= 2 /\ \A i \in 1..len : ts[i] \in Int
      /\ HoldStart(ts) \in Int /\ HoldStart(ts) < 400 * ts[len]
  BY SeriesTimes, HoldStartMeans
<1>2. TrainCut(ts) \in Int /\ TrainCut(ts) <= HoldStart(ts)
  <2> DEFINE gap == HoldStart(ts) - 400 * ts[1]
  <2>1. gap \in Int /\ gap >= 0
    <3>1. 1 \in 1..len /\ len \in 1..len /\ ts[1] \in Int /\ ts[len] \in Int /\ ts[1] <= ts[len]
      BY <1>1, SeriesTimes
    <3> DEFINE first == ts[1]
               last == ts[len]
               hold == HoldStart(ts)
    <3>2. hold = IF 400 * last - 400 * HoldoutDays >= 300 * last + 100 * first
                 THEN 400 * last - 400 * HoldoutDays ELSE 300 * last + 100 * first
      BY HoldStartMeans
    <3>3. first \in Int /\ last \in Int /\ first <= last /\ hold \in Int /\ HoldoutDays \in Int
      BY <1>1, <3>1, WindowsAssumption
    <3> HIDE DEF first, last, hold
    <3>4. hold - 400 * first \in Int /\ hold - 400 * first >= 0
      BY <3>2, <3>3
    <3> QED
      BY <3>4 DEF first, hold
  <2>2. TrainCut(ts) = 400 * ts[1] + (gap * 7) \div 10
    BY DEF TrainCut, Grain
  <2>3. ts[1] \in Int
    BY <1>1
  <2>4. (gap * 7) \div 10 \in Int /\ (gap * 7) \div 10 <= gap
    <3> HIDE DEF gap
    <3> QED
      BY <2>1
  <2>5. HoldStart(ts) = gap + 400 * ts[1]
    BY <1>1, <2>3
  <2> HIDE DEF gap
  <2> QED
    BY <2>1, <2>2, <2>3, <2>4, <2>5
<1>3. /\ p \in 0..len /\ q \in 0..len
      /\ \A i \in 1..len : 400 * ts[i] <= TrainCut(ts) <=> i <= p
      /\ \A i \in 1..len : 400 * ts[i] <= HoldStart(ts) <=> i <= q
  <2>1. Series(Fine(ts)) /\ Len(Fine(ts)) = len /\ \A i \in 1..len : Fine(ts)[i] = 400 * ts[i]
    BY FineSeries
  <2>2. p \in 0..len /\ \A i \in 1..len : Fine(ts)[i] <= TrainCut(ts) <=> i <= p
    BY <2>1, <1>2, SeriesCounted
  <2>3. q \in 0..len /\ \A i \in 1..len : Fine(ts)[i] <= HoldStart(ts) <=> i <= q
    BY <2>1, <1>1, SeriesCounted
  <2> HIDE DEF len, p, q
  <2> QED
    BY <2>1, <2>2, <2>3
<1> HIDE DEF len, p, q
<1>4. q <= len - 1
  <2>1. len \in 1..len /\ ts[len] \in Int
    BY <1>1
  <2> QED
    BY <2>1, <1>1, <1>3
<1>5. p <= q
  <2>1. CASE p = 0
    BY <2>1, <1>3
  <2>2. CASE p # 0
    <3>1. p \in 1..len /\ ts[p] \in Int
      BY <2>2, <1>1, <1>3
    <3> QED
      BY <3>1, <1>1, <1>2, <1>3
  <2> QED
    BY <2>1, <2>2
<1>6. TrainEnd(ts) = Max({1, p}) /\ TestEnd(ts) = Max({1, q})
  BY DEF TrainEnd, TestEnd, p, q
<1>7. /\ TrainEnd(ts) = IF 1 >= p THEN 1 ELSE p
      /\ TestEnd(ts) = IF 1 >= q THEN 1 ELSE q
  BY <1>3, <1>6, OfTwo
<1>8. TrainEnd(ts) \in 1..TestEnd(ts) /\ TestEnd(ts) \in 1..len - 1
  BY <1>1, <1>3, <1>4, <1>5, <1>7
<1>9. ASSUME NEW e \in 1..len - 1
      PROVE  SnapAfter(ts, Grain * ts[e]) = ts[e + 1]
  <2>1. e \in 1..len /\ e + 1 <= len
    BY <1>1
  <2>2. AtOrBefore(Fine(ts), Fine(ts)[e]) = e /\ Fine(ts)[e] = Grain * ts[e]
    BY <2>1, FineSeries, AtABar DEF Grain, len
  <2>3. Min({len, e + 1}) = e + 1
    <3>1. len \in Int /\ e + 1 \in Int /\ e + 1 <= len
      BY <1>1, <2>1
    <3>2. Min({len, e + 1}) = IF len <= e + 1 THEN len ELSE e + 1
      BY <3>1, OfTwo
    <3> QED
      BY <3>1, <3>2
  <2> QED
    BY <2>2, <2>3 DEF SnapAfter, len
<1>10. /\ SnapBack(ts, TrainCut(ts)) = ts[TrainEnd(ts)]
       /\ SnapBack(ts, HoldStart(ts)) = ts[TestEnd(ts)]
  BY DEF SnapBack, TrainEnd, TestEnd
<1>11. /\ SnapAfter(ts, Grain * ts[TrainEnd(ts)]) = ts[TrainEnd(ts) + 1]
       /\ SnapAfter(ts, Grain * ts[TestEnd(ts)]) = ts[TestEnd(ts) + 1]
  <2>1. TrainEnd(ts) \in 1..len - 1 /\ TestEnd(ts) \in 1..len - 1
    BY <1>1, <1>8
  <2> QED
    BY <2>1, <1>9
<1>12. split(ts) = [train |-> <<ts[1], SnapBack(ts, TrainCut(ts))>>,
                    test |-> <<SnapAfter(ts, Grain * SnapBack(ts, TrainCut(ts))),
                               SnapBack(ts, HoldStart(ts))>>,
                    holdout |-> <<SnapAfter(ts, Grain * SnapBack(ts, HoldStart(ts))),
                                  ts[Len(ts)]>>]
  BY DEF split, TrainCut, HoldStart, Holdout
<1>13. split(ts) = Cuts(ts, 1, TrainEnd(ts), TestEnd(ts))
  BY <1>10, <1>11, <1>12 DEF Cuts
<1> QED
  BY <1>8, <1>13 DEF len

\* The latest test may end, as a bar.
LEMMA LastOpenAt ==
  ASSUME NEW ts, Series(ts)
  PROVE  /\ OpenBar(ts) \in 1..Len(ts) - 1 /\ OpenBar(ts) >= TestEnd(ts)
         /\ LastOpen(ts) = ts[OpenBar(ts)] /\ AtOrBefore(ts, LastOpen(ts)) = OpenBar(ts)
<1>1. /\ Len(ts) \in Nat /\ \A i \in 1..Len(ts) : ts[i] \in Int
      /\ TestEnd(ts) \in 1..Len(ts) - 1 /\ split(ts).test[2] = ts[TestEnd(ts)]
      /\ MinWindowBars \in Nat /\ MinWindowBars > 0
  BY SeriesTimes, EndsMean, WindowsAssumption DEF Cuts
<1>2. OpenBar(ts) \in 1..Len(ts) - 1 /\ OpenBar(ts) >= TestEnd(ts) /\ LastOpen(ts) = ts[OpenBar(ts)]
  <2>1. CASE Len(ts) > MinWindowBars + 1
    <3> DEFINE x == TestEnd(ts)
               y == Len(ts) - MinWindowBars
    <3>1. /\ x \in 1..Len(ts) /\ y \in 1..Len(ts) /\ y <= Len(ts) - 1
          /\ ts[x] \in Int /\ ts[y] \in Int /\ (x >= y <=> ts[x] >= ts[y])
      <4>1. x \in 1..Len(ts) /\ y \in 1..Len(ts) /\ y <= Len(ts) - 1
        BY <1>1, <2>1
      <4> QED
        BY <4>1, SeriesTimes
    <3>2. OpenBar(ts) = Max({x, y}) /\ LastOpen(ts) = Max({ts[x], ts[y]})
      BY <1>1, <2>1 DEF OpenBar, LastOpen
    <3>3. Max({x, y}) = IF x >= y THEN x ELSE y
      BY <3>1, OfTwo
    <3>4. Max({ts[x], ts[y]}) = IF ts[x] >= ts[y] THEN ts[x] ELSE ts[y]
      BY <3>1, OfTwo
    <3>5. x <= Len(ts) - 1
      BY <1>1
    <3> HIDE DEF x, y
    <3>6. OpenBar(ts) \in 1..Len(ts) - 1 /\ OpenBar(ts) >= x /\ LastOpen(ts) = ts[OpenBar(ts)]
      BY <1>1, <3>1, <3>2, <3>3, <3>4, <3>5
    <3> QED
      BY <3>6 DEF x
  <2>2. CASE ~(Len(ts) > MinWindowBars + 1)
    BY <1>1, <2>2 DEF OpenBar, LastOpen
  <2> QED
    BY <2>1, <2>2
<1>3. OpenBar(ts) \in 1..Len(ts)
  BY <1>1, <1>2
<1> QED
  BY <1>2, <1>3, AtABar

\* As bars arrive the latest bar test may end on never moves back.
LEMMA OpenBarGrows ==
  ASSUME NEW ts, Series(ts), NEW us, Series(us), Len(ts) <= Len(us),
         \A i \in 1..Len(ts) : us[i] = ts[i]
  PROVE  OpenBar(ts) <= OpenBar(us)
<1> DEFINE m == Len(ts)
           n0 == Len(us)
           p == AtOrBefore(Fine(ts), HoldStart(ts))
           q == AtOrBefore(Fine(us), HoldStart(us))
<1>1. /\ m \in Nat /\ n0 \in Nat /\ m <= n0 /\ m >= 2
      /\ \A i \in 1..m : ts[i] \in Int /\ us[i] = ts[i]
      /\ \A i \in 1..n0 : us[i] \in Int
  BY SeriesTimes
<1>2. HoldStart(ts) \in Int /\ HoldStart(us) \in Int /\ HoldStart(ts) <= HoldStart(us)
  <2> DEFINE first == ts[1]
             same == us[1]
             old == ts[m]
             new == us[n0]
  <2>1. /\ first \in Int /\ old \in Int /\ new \in Int /\ same = first /\ old <= new
    <3>1. 1 \in 1..m /\ m \in 1..m /\ m \in 1..n0 /\ n0 \in 1..n0
      BY <1>1
    <3>2. us[m] <= us[n0]
      BY <3>1, <1>1, SeriesTimes
    <3> QED
      BY <3>1, <3>2, <1>1
  <2>2. HoldStart(ts) = IF 400 * old - 400 * HoldoutDays >= 300 * old + 100 * first
                        THEN 400 * old - 400 * HoldoutDays ELSE 300 * old + 100 * first
    BY HoldStartMeans
  <2>3. HoldStart(us) = IF 400 * new - 400 * HoldoutDays >= 300 * new + 100 * same
                        THEN 400 * new - 400 * HoldoutDays ELSE 300 * new + 100 * same
    BY HoldStartMeans
  <2>4. HoldoutDays \in Int
    BY WindowsAssumption
  <2> HIDE DEF first, same, old, new
  <2> QED
    BY <2>1, <2>2, <2>3, <2>4
<1>3. p \in 0..m /\ \A i \in 1..m : 400 * ts[i] <= HoldStart(ts) <=> i <= p
  <2>1. Series(Fine(ts)) /\ Len(Fine(ts)) = m /\ \A i \in 1..m : Fine(ts)[i] = 400 * ts[i]
    BY FineSeries
  <2>2. p \in 0..m /\ \A i \in 1..m : Fine(ts)[i] <= HoldStart(ts) <=> i <= p
    BY <2>1, <1>2, SeriesCounted
  <2> HIDE DEF m, p
  <2> QED
    BY <2>1, <2>2
<1>4. q \in 0..n0 /\ \A i \in 1..n0 : 400 * us[i] <= HoldStart(us) <=> i <= q
  <2>1. Series(Fine(us)) /\ Len(Fine(us)) = n0 /\ \A i \in 1..n0 : Fine(us)[i] = 400 * us[i]
    BY FineSeries
  <2>2. q \in 0..n0 /\ \A i \in 1..n0 : Fine(us)[i] <= HoldStart(us) <=> i <= q
    BY <2>1, <1>2, SeriesCounted
  <2> HIDE DEF n0, q
  <2> QED
    BY <2>1, <2>2
<1>5. /\ TestEnd(ts) = Max({1, p}) /\ TestEnd(us) = Max({1, q})
  BY DEF TestEnd
<1>6. TestEnd(ts) <= TestEnd(us)
  <2> HIDE DEF m, n0, p, q
  <2>1. p <= q
    <3>1. CASE p = 0
      BY <3>1, <1>4
    <3>2. CASE p # 0
      <4>1. p \in 1..m /\ p \in 1..n0 /\ ts[p] \in Int /\ us[p] = ts[p]
        BY <3>2, <1>1, <1>3
      <4> QED
        BY <4>1, <1>2, <1>3, <1>4
    <3> QED
      BY <3>1, <3>2
  <2>2. /\ TestEnd(ts) = IF 1 >= p THEN 1 ELSE p
        /\ TestEnd(us) = IF 1 >= q THEN 1 ELSE q
    BY <1>3, <1>4, <1>5, OfTwo
  <2> QED
    BY <1>3, <1>4, <2>1, <2>2
<1>7. TestEnd(ts) \in 1..m /\ TestEnd(us) \in 1..n0 /\ MinWindowBars \in Nat
  BY <1>1, EndsMean, WindowsAssumption
<1> DEFINE x == m - MinWindowBars
           y == n0 - MinWindowBars
<1>8. x \in Int /\ y \in Int /\ x <= y
  BY <1>1, <1>7
<1>9. /\ Max({TestEnd(ts), x}) = IF TestEnd(ts) >= x THEN TestEnd(ts) ELSE x
      /\ Max({TestEnd(us), y}) = IF TestEnd(us) >= y THEN TestEnd(us) ELSE y
  <2> HIDE DEF m, n0, x, y
  <2>1. TestEnd(ts) \in Int /\ TestEnd(us) \in Int
    BY <1>7
  <2> QED
    BY <2>1, <1>8, OfTwo
<1>10. /\ OpenBar(ts) = IF m > MinWindowBars + 1 THEN Max({TestEnd(ts), x}) ELSE TestEnd(ts)
       /\ OpenBar(us) = IF n0 > MinWindowBars + 1 THEN Max({TestEnd(us), y}) ELSE TestEnd(us)
  BY DEF OpenBar
<1>11. m > MinWindowBars + 1 => n0 > MinWindowBars + 1
  BY <1>1, <1>7
<1> HIDE DEF m, n0, p, q, x, y
<1> QED
  BY <1>6, <1>7, <1>8, <1>9, <1>10, <1>11

-----------------------------------------------------------------------------
(* Windows that were asked for.                                            *)

Moved == [train : Int \X Int, test : Int \X Int]
SnappedOn(ts, p) == <<ts[index_range(ts, p)[1]], ts[index_range(ts, p)[2]]>>
Accepted(ts, w) == /\ Ordered(ts, w) /\ Bars(ts, w.train) > 0 /\ Bars(ts, w.test) > 0
                   /\ Adjacent(ts, w)

LEMMA CustomMeans ==
  ASSUME NEW ts, NEW w \in Moved
  PROVE  /\ w # NoWindows
         /\ ~Accepted(ts, w) => custom(ts, w) = Refused
         /\ Accepted(ts, w) =>
              LET train == SnappedOn(ts, w.train)
                  test == SnappedOn(ts, w.test)
              IN custom(ts, w) =
                   IF <<train, test>> = <<split(ts).train, split(ts).test>> THEN split(ts)
                   ELSE IF ~LongEnough(ts, w) THEN Refused
                   ELSE [train |-> train, test |-> test,
                         holdout |-> <<ts[AtOrBefore(ts, test[2]) + 1], ts[Len(ts)]>>]
<1>1. w # NoWindows
  <2>1. w.train \in Int \X Int /\ NoWindows.train = <<>>
    BY DEF Moved, NoWindows
  <2>2. w.train # <<>>
    <3>1. \A x, y \in Int : <<x, y>> # <<>>
      OBVIOUS
    <3>2. PICK x \in Int, y \in Int : w.train = <<x, y>>
      BY <2>1
    <3> QED
      BY <3>1, <3>2, Zenon
  <2> QED
    BY <2>1, <2>2
<1> QED
  BY <1>1 DEF custom, Accepted, SnappedOn

LEMMA CustomCuts ==
  ASSUME NEW ts, Series(ts), NEW w \in Moved, custom(ts, w) # Refused
  PROVE  \E a, b, c \in Nat : /\ InOrder(Len(ts), a, b, c) /\ c <= OpenBar(ts)
                              /\ custom(ts, w) = Cuts(ts, a, b, c)
<1> DEFINE a == Before(ts, w.train[1]) + 1
           b == AtOrBefore(ts, w.train[2])
           d == Before(ts, w.test[1]) + 1
           c == AtOrBefore(ts, w.test[2])
           s == custom(ts, w)
<1>1. Accepted(ts, w)
  BY CustomMeans
<1>2. /\ w.train[1] \in Int /\ w.train[2] \in Int /\ w.test[1] \in Int /\ w.test[2] \in Int
      /\ Len(ts) \in Nat
  BY SeriesTimes DEF Moved
<1>3. a \in 1..Len(ts) + 1 /\ b \in 0..Len(ts) /\ d \in 1..Len(ts) + 1 /\ c \in 0..Len(ts)
  <2>1. Before(ts, w.train[1]) \in 0..Len(ts) /\ Before(ts, w.test[1]) \in 0..Len(ts)
    BY <1>2, SeriesCounted
  <2>2. b \in 0..Len(ts) /\ c \in 0..Len(ts)
    BY <1>2, SeriesCounted
  <2>3. \A x \in 0..Len(ts) : x + 1 \in 1..Len(ts) + 1
    BY <1>2
  <2> QED
    BY <2>1, <2>2, <2>3, Zenon
<1>4. index_range(ts, w.train) = <<a, b>> /\ index_range(ts, w.test) = <<d, c>>
  BY DEF index_range
<1> HIDE DEF a, b, c, d
<1>5. b - a + 1 > 0 /\ c - d + 1 > 0 /\ d = b + 1
  BY <1>1, <1>4 DEF Accepted, Bars, Adjacent
<1>6. c <= OpenBar(ts) /\ OpenBar(ts) \in 1..Len(ts) - 1
  BY <1>1, LastOpenAt DEF Accepted, Ordered, c
<1>7. InOrder(Len(ts), a, b, c) /\ a \in Nat /\ b \in Nat /\ c \in Nat
  <2>1. Len(ts) \in Int /\ a \in Int /\ b \in Int /\ c \in Int /\ OpenBar(ts) \in Int
    BY <1>2, <1>3, <1>6
  <2>2. 1 <= a /\ a <= b /\ b + 1 <= c /\ c <= OpenBar(ts) /\ OpenBar(ts) <= Len(ts) - 1
    BY <2>1, <1>2, <1>3, <1>5, <1>6
  <2>3. a \in 1..Len(ts) /\ b \in a..Len(ts) /\ c \in b + 1..Len(ts) - 1
    BY <2>1, <2>2
  <2>4. a \in Nat /\ b \in Nat /\ c \in Nat
    BY <2>1, <2>2
  <2> QED
    BY <2>3, <2>4 DEF InOrder
<1> DEFINE train == <<ts[a], ts[b]>>
           test == <<ts[b + 1], ts[c]>>
<1>8. SnappedOn(ts, w.train) = train /\ SnappedOn(ts, w.test) = test
  BY <1>4, <1>5 DEF SnappedOn
<1>9. s = IF <<train, test>> = <<split(ts).train, split(ts).test>> THEN split(ts)
          ELSE IF ~LongEnough(ts, w) THEN Refused
          ELSE [train |-> train, test |-> test,
                holdout |-> <<ts[AtOrBefore(ts, test[2]) + 1], ts[Len(ts)]>>]
  BY <1>1, <1>8, CustomMeans
<1>10. CASE <<train, test>> = <<split(ts).train, split(ts).test>>
  <2>1. s = Cuts(ts, 1, TrainEnd(ts), TestEnd(ts))
    BY <1>9, <1>10, EndsMean
  <2>2. /\ TrainEnd(ts) \in 1..TestEnd(ts) /\ TestEnd(ts) \in 1..Len(ts) - 1
    BY EndsMean
  <2>3. train = <<ts[1], ts[TrainEnd(ts)]>> /\ test = <<ts[TrainEnd(ts) + 1], ts[TestEnd(ts)]>>
    BY <1>10, EndsMean DEF Cuts
  <2>4. ts[a] = ts[1] /\ ts[b] = ts[TrainEnd(ts)] /\ ts[c] = ts[TestEnd(ts)]
    BY <2>3
  <2>5. /\ a \in 1..Len(ts) /\ b \in 1..Len(ts) /\ c \in 1..Len(ts)
        /\ 1 \in 1..Len(ts) /\ TrainEnd(ts) \in 1..Len(ts) /\ TestEnd(ts) \in 1..Len(ts)
    BY <1>2, <1>7, <2>2 DEF InOrder
  <2>6. \A i, j \in 1..Len(ts) : ts[i] = ts[j] => i = j
    <3>1. ASSUME NEW i \in 1..Len(ts), NEW j \in 1..Len(ts), ts[i] = ts[j] PROVE i = j
      <4>1. ts[i] <= ts[j] /\ ts[j] <= ts[i]
        BY <3>1, SeriesTimes
      <4>2. i <= j /\ j <= i
        BY <4>1, SeriesTimes
      <4> QED
        BY <4>2
    <3> QED
      BY <3>1
  <2>7. a = 1 /\ b = TrainEnd(ts) /\ c = TestEnd(ts)
    BY <2>4, <2>5, <2>6
  <2> QED
    BY <1>6, <1>7, <2>1, <2>7
<1>11. CASE <<train, test>> # <<split(ts).train, split(ts).test>>
  <2>1. s = [train |-> train, test |-> test,
             holdout |-> <<ts[AtOrBefore(ts, test[2]) + 1], ts[Len(ts)]>>]
    BY <1>9, <1>11
  <2>2. AtOrBefore(ts, ts[c]) = c
    <3>1. c \in 1..Len(ts)
      BY <1>2, <1>7 DEF InOrder
    <3> QED
      BY <3>1, AtABar
  <2>3. s = Cuts(ts, a, b, c)
    BY <2>1, <2>2 DEF Cuts
  <2> QED
    BY <1>6, <1>7, <2>3
<1> QED
  BY <1>10, <1>11

\* The default windows, when each holds a bar.
LEMMA DefaultCuts ==
  ASSUME NEW ts, Series(ts),
         index_range(ts, split(ts).test)[1] <= index_range(ts, split(ts).test)[2]
  PROVE  \E a, b, c \in Nat : /\ InOrder(Len(ts), a, b, c) /\ c <= OpenBar(ts)
                              /\ split(ts) = Cuts(ts, a, b, c)
<1> DEFINE b == TrainEnd(ts)
           c == TestEnd(ts)
<1>1. /\ b \in 1..c /\ c \in 1..Len(ts) - 1 /\ Len(ts) \in Nat
      /\ split(ts) = Cuts(ts, 1, b, c) /\ c <= OpenBar(ts)
  <2>1. Len(ts) \in Nat /\ OpenBar(ts) >= c
    BY SeriesTimes, LastOpenAt
  <2>2. OpenBar(ts) \in Int /\ c \in Int
    BY LastOpenAt, EndsMean, <2>1
  <2> QED
    BY <2>1, <2>2, EndsMean
<1> HIDE DEF b, c
<1>2. index_range(ts, split(ts).test) = <<b + 1, c>>
  <2>1. b + 1 \in 1..Len(ts) /\ c \in 1..Len(ts)
    BY <1>1
  <2> QED
    BY <1>1, <2>1, RangeAtBars DEF Cuts
<1>3. b + 1 <= c
  BY <1>2
<1>4. InOrder(Len(ts), 1, b, c) /\ 1 \in Nat /\ b \in Nat /\ c \in Nat
  BY <1>1, <1>3 DEF InOrder
<1> QED
  BY <1>1, <1>4

\* What an extend asks for: the windows of the test as they were.
AskedFor(ts, a, b, c) == [train |-> <<ts[a], ts[b]>>, test |-> <<ts[b + 1], ts[c]>>]

\* Windows cut before are accepted again, if the test may still end where it does
\* and neither is shorter than a moved window may be.
LEMMA AskedAgain ==
  ASSUME NEW ts, Series(ts), NEW a, NEW b, NEW c, InOrder(Len(ts), a, b, c), c <= OpenBar(ts),
         b - a + 1 >= MinWindowBars, c - b >= MinWindowBars
  PROVE  /\ custom(ts, AskedFor(ts, a, b, c)).train = AskedFor(ts, a, b, c).train
         /\ custom(ts, AskedFor(ts, a, b, c)).test = AskedFor(ts, a, b, c).test
<1> DEFINE w == AskedFor(ts, a, b, c)
           s == custom(ts, w)
<1>0. w = [train |-> <<ts[a], ts[b]>>, test |-> <<ts[b + 1], ts[c]>>]
  BY DEF AskedFor
<1> HIDE DEF w
<1>1. /\ Len(ts) \in Nat /\ a \in 1..Len(ts) /\ b \in 1..Len(ts) /\ b + 1 \in 1..Len(ts)
      /\ c \in 1..Len(ts) /\ 1 \in 1..Len(ts) /\ a <= b /\ b + 1 <= c
  BY SeriesTimes DEF InOrder
<1>2. w \in Moved
  BY <1>0, <1>1, SeriesTimes DEF Moved
<1>3. /\ index_range(ts, w.train) = <<a, b>> /\ Bars(ts, w.train) = b - a + 1
      /\ index_range(ts, w.test) = <<b + 1, c>> /\ Bars(ts, w.test) = c - (b + 1) + 1
      /\ AtOrBefore(ts, ts[c]) = c
  BY <1>0, <1>1, RangeAtBars, AtABar
<1>4. Ordered(ts, w)
  <2>1. ts[a] <= ts[b] /\ ts[1] <= ts[a] /\ ts[b + 1] <= ts[c] /\ ts[1] <= ts[b + 1]
    BY <1>1, SeriesTimes
  <2>2. ts[b] < ts[b + 1]
    BY <1>1, SeriesTimes
  <2>3. /\ ts[1] \in Int /\ ts[a] \in Int /\ ts[b] \in Int /\ ts[b + 1] \in Int /\ ts[c] \in Int
    BY <1>1, SeriesTimes
  <2>4. AtOrBefore(ts, w.test[2]) <= AtOrBefore(ts, LastOpen(ts))
    BY <1>0, <1>3, LastOpenAt
  <2> QED
    BY <1>0, <2>1, <2>2, <2>3, <2>4 DEF Ordered
<1>5. Accepted(ts, w)
  BY <1>0, <1>1, <1>3, <1>4 DEF Accepted, Adjacent
<1>6. LongEnough(ts, w)
  BY <1>1, <1>3 DEF LongEnough
<1>7. SnappedOn(ts, w.train) = w.train /\ SnappedOn(ts, w.test) = w.test
  <2>1. SnappedOn(ts, w.train) = <<ts[a], ts[b]>> /\ SnappedOn(ts, w.test) = <<ts[b + 1], ts[c]>>
    BY <1>3 DEF SnappedOn
  <2> QED
    BY <1>0, <2>1
<1> QED
  <2>1. s = IF <<w.train, w.test>> = <<split(ts).train, split(ts).test>> THEN split(ts)
            ELSE [train |-> w.train, test |-> w.test,
                  holdout |-> <<ts[AtOrBefore(ts, w.test[2]) + 1], ts[Len(ts)]>>]
    BY <1>2, <1>5, <1>6, <1>7, CustomMeans
  <2>2. s.train = w.train /\ s.test = w.test
    <3> HIDE DEF s
    <3>1. CASE <<w.train, w.test>> = <<split(ts).train, split(ts).test>>
      BY <2>1, <3>1
    <3>2. CASE <<w.train, w.test>> # <<split(ts).train, split(ts).test>>
      BY <2>1, <3>2
    <3> QED
      BY <3>1, <3>2
  <2> QED
    BY <2>2 DEF w

-----------------------------------------------------------------------------
(* The windows of the last job.                                            *)

HeldAt(m) == SubSeq(calendar, 1, m)

Market == /\ calendar \in Calendars /\ n \in Nat /\ n <= Len(calendar)
          /\ walk \in [ToSet(program.runs) -> Walks]
JobShape ==
  \/ job = Idle
  \/ job = [kind |-> "backtest", windows |-> job.windows, as_of |-> job.as_of]
  \/ job = [kind |-> "sweep", windows |-> job.windows, as_of |-> job.as_of, rows |-> job.rows,
            order |-> job.order, verdict |-> job.verdict]

\* Whole bars of the series the job saw, in order and none left out, with the test
\* ending no later than it may.
CutFrom(s, m) == \E a, b, c \in Nat : /\ InOrder(m, a, b, c) /\ c <= OpenBar(HeldAt(m))
                                      /\ s = Cuts(HeldAt(m), a, b, c)
JobCut == job.kind # "none" => /\ job.as_of \in Nat /\ MinSeries <= job.as_of /\ job.as_of <= n
                               /\ CutFrom(job.windows, job.as_of)

WindowInv == Market /\ JobShape /\ JobCut

LEMMA HeldSeries ==
  ASSUME Market, NEW m \in Nat, MinSeries <= m, m <= n
  PROVE  /\ Series(HeldAt(m)) /\ Len(HeldAt(m)) = m
         /\ \A i \in 1..m : HeldAt(m)[i] = calendar[i]
<1>1. /\ calendar \in Seq(Int) /\ Len(calendar) \in Nat /\ m <= Len(calendar) /\ m >= 2
      /\ \A i, j \in 1..Len(calendar) : i < j => calendar[i] < calendar[j]
  BY ScoringAssumption, WindowsAssumption DEF Market
<1>2. \A i \in 1..m : calendar[i] \in Int
  BY <1>1
<1>3. /\ HeldAt(m) \in Seq(Int) /\ Len(HeldAt(m)) = m
      /\ \A i \in 1..m : HeldAt(m)[i] = calendar[i]
  <2>1. /\ SubSeq(calendar, 1, m) \in Seq(Int)
        /\ Len(SubSeq(calendar, 1, m)) = IF 1 <= m THEN m - 1 + 1 ELSE 0
        /\ \A i \in 1..m - 1 + 1 : SubSeq(calendar, 1, m)[i] = calendar[1 + i - 1]
    BY <1>2, SubSeqProperties
  <2> DEFINE held == SubSeq(calendar, 1, m)
  <2>2. HeldAt(m) = held
    BY DEF HeldAt
  <2> HIDE DEF held
  <2>3. \A i \in 1..m : held[i] = calendar[i]
    <3> SUFFICES ASSUME NEW i \in 1..m PROVE held[i] = calendar[i]
      OBVIOUS
    <3>1. 1 + i - 1 = i /\ i \in 1..m - 1 + 1
      BY <1>1
    <3>2. held[i] = calendar[1 + i - 1]
      BY <2>1, <3>1 DEF held
    <3> QED
      BY <3>1, <3>2
  <2>4. held \in Seq(Int) /\ Len(held) = m
    BY <2>1, <1>1 DEF held
  <2> QED
    BY <2>2, <2>3, <2>4
<1>4. \A i, j \in 1..m : i < j => HeldAt(m)[i] < HeldAt(m)[j]
  <2> SUFFICES ASSUME NEW i \in 1..m, NEW j \in 1..m, i < j
               PROVE  HeldAt(m)[i] < HeldAt(m)[j]
    OBVIOUS
  <2>1. calendar[i] < calendar[j]
    BY <1>1
  <2> QED
    BY <1>3, <2>1, Zenon
<1> QED
  BY <1>1, <1>3, <1>4 DEF Series

LEMMA HeldNow == Held = HeldAt(n)
  BY DEF Held, HeldAt

\* The windows a backtest or a sweep settles on.
LEMMA SettledCut ==
  ASSUME Market, n >= MinSeries, NEW w \in Requests,
         custom(Held, w) # Refused, Nonempty(custom(Held, w))
  PROVE  CutFrom(custom(Held, w), n)
<1>1. Series(Held) /\ Len(Held) = n
  <2>1. n \in Nat /\ MinSeries <= n /\ n <= n
    BY WindowsAssumption DEF Market
  <2> QED
    BY <2>1, HeldSeries, HeldNow
<1>2. CASE w = NoWindows
  <2>1. custom(Held, w) = split(Held)
    BY <1>2 DEF custom
  <2>2. index_range(Held, split(Held).test)[1] <= index_range(Held, split(Held).test)[2]
    BY <2>1 DEF Nonempty, RangeOf
  <2> QED
    BY <1>1, <2>1, <2>2, DefaultCuts, HeldNow DEF CutFrom
<1>3. CASE w # NoWindows
  <2>1. w \in Moved
    BY <1>3, ScoringAssumption DEF Moved
  <2> QED
    BY <1>1, <2>1, CustomCuts, HeldNow DEF CutFrom
<1> QED
  BY <1>2, <1>3

LEMMA OwnMoved ==
  ASSUME WindowInv, job.kind = "backtest"
  PROVE  Own(job) \in Moved
<1>1. PICK a \in Nat, b \in Nat, c \in Nat :
        InOrder(job.as_of, a, b, c) /\ job.windows = Cuts(HeldAt(job.as_of), a, b, c)
  BY DEF WindowInv, JobCut, CutFrom
<1>2. Series(HeldAt(job.as_of)) /\ Len(HeldAt(job.as_of)) = job.as_of /\ job.as_of \in Nat
  BY HeldSeries DEF WindowInv, JobCut
<1> DEFINE ts == HeldAt(job.as_of)
<1>3. /\ a \in 1..Len(ts) /\ b \in 1..Len(ts) /\ b + 1 \in 1..Len(ts) /\ c \in 1..Len(ts)
  BY <1>1, <1>2 DEF InOrder
<1>4. ts[a] \in Int /\ ts[b] \in Int /\ ts[b + 1] \in Int /\ ts[c] \in Int
  BY <1>2, <1>3, SeriesTimes
<1> QED
  BY <1>1, <1>4 DEF Own, Cuts, Moved

LEMMA WindowsStay ==
  ASSUME WindowInv, UNCHANGED <<calendar, program, walk>>,
         n' \in Nat, n <= n', n' <= Len(calendar), JobShape',
         job'.kind = job.kind, job.kind # "none" => /\ job'.windows = job.windows
                                                    /\ job'.as_of = job.as_of
  PROVE  WindowInv'
<1>1. Market'
  BY DEF WindowInv, Market
<1>2. JobCut'
  <2>1. SUFFICES ASSUME job'.kind # "none"
                 PROVE  /\ job'.as_of \in Nat /\ MinSeries <= job'.as_of /\ job'.as_of <= n'
                        /\ CutFrom(job.windows, job.as_of)'
    BY DEF JobCut
  <2>2. /\ job.as_of \in Nat /\ MinSeries <= job.as_of /\ job.as_of <= n /\ n \in Nat
        /\ CutFrom(job.windows, job.as_of)
    BY <2>1 DEF WindowInv, Market, JobCut
  <2>3. CutFrom(job.windows, job.as_of)'
    BY <2>1, <2>2 DEF CutFrom, HeldAt
  <2> QED
    BY <2>1, <2>2, <2>3
<1> QED
  BY <1>1, <1>2 DEF WindowInv

LEMMA WindowsSet ==
  ASSUME WindowInv, UNCHANGED <<calendar, program, walk, n>>, n >= MinSeries,
         NEW s, CutFrom(s, n), JobShape', job'.windows = s, job'.as_of = n
  PROVE  WindowInv'
<1>1. Market' /\ n \in Nat /\ n' = n
  BY DEF WindowInv, Market
<1>2. CutFrom(job.windows, job.as_of)'
  BY DEF CutFrom, HeldAt
<1>3. JobCut'
  BY <1>1, <1>2, WindowsAssumption DEF JobCut
<1> QED
  BY <1>1, <1>3 DEF WindowInv

LEMMA WindowsInit == Init => WindowInv
<1> SUFFICES ASSUME Init PROVE WindowInv
  OBVIOUS
<1>1. Market
  BY ScoringAssumption DEF Init, Market
<1>2. job = Idle /\ job.kind = "none"
  BY DEF Init, Idle
<1> QED
  BY <1>1, <1>2 DEF WindowInv, JobShape, JobCut

LEMMA WindowsStep == WindowInv /\ [Next]_vars => WindowInv'
<1> SUFFICES ASSUME WindowInv, [Next]_vars PROVE WindowInv'
  OBVIOUS
<1>0. n \in Nat /\ n <= n /\ n <= Len(calendar) /\ Len(calendar) \in Nat
  BY ScoringAssumption DEF WindowInv, Market
<1>1. CASE NewBar
  <2>1. /\ n' = n + 1 /\ n < Len(calendar) /\ UNCHANGED <<program, calendar, walk, job>>
    BY <1>1 DEF NewBar
  <2>2. JobShape'
    BY <2>1 DEF WindowInv, JobShape
  <2> QED
    BY <1>0, <2>1, <2>2, WindowsStay
<1>2. CASE Backtest
  <2>1. PICK w \in Requests :
          /\ n >= MinSeries /\ custom(Held, w) # Refused /\ Nonempty(custom(Held, w))
          /\ job' = [kind |-> "backtest", windows |-> custom(Held, w), as_of |-> n]
          /\ UNCHANGED <<program, calendar, walk, n>>
    BY <1>2 DEF Backtest
  <2>2. CutFrom(custom(Held, w), n)
    BY <2>1, SettledCut DEF WindowInv
  <2>3. JobShape' /\ job'.windows = custom(Held, w) /\ job'.as_of = n
    BY <2>1 DEF JobShape
  <2> QED
    BY <2>1, <2>2, <2>3, WindowsSet
<1>3. CASE Extend
  <2> DEFINE s == custom(Held, Own(job))
  <2>1. /\ job.kind = "backtest" /\ n > job.as_of /\ s # Refused
        /\ Own([windows |-> s]) = Own(job)
        /\ job' = [job EXCEPT !.windows.holdout = s.holdout, !.as_of = n]
        /\ UNCHANGED <<program, calendar, walk, n>>
    BY <1>3 DEF Extend
  <2>2. n \in Nat /\ MinSeries <= n /\ MinSeries \in Nat /\ job.as_of \in Nat
    BY <2>1, <1>0, WindowsAssumption DEF WindowInv, JobCut
  <2>3. Series(Held) /\ Len(Held) = n
    BY <2>2, <1>0, HeldSeries, HeldNow DEF WindowInv
  <2>4. CutFrom(s, n)
    BY <2>1, <2>3, OwnMoved, CustomCuts, HeldNow DEF CutFrom
  <2>5. job = [kind |-> "backtest", windows |-> job.windows, as_of |-> job.as_of]
    BY <2>1 DEF WindowInv, JobShape, Idle
  <2>6. job.windows = [train |-> job.windows.train, test |-> job.windows.test,
                       holdout |-> job.windows.holdout]
    BY <2>1 DEF WindowInv, JobCut, CutFrom, Cuts
  <2>7. s = [train |-> s.train, test |-> s.test, holdout |-> s.holdout]
    BY <2>4 DEF CutFrom, Cuts
  <2>8. s.train = job.windows.train /\ s.test = job.windows.test
    BY <2>1 DEF Own
  <2> HIDE DEF s
  <2>9. job' = [kind |-> "backtest", windows |-> s, as_of |-> n]
    <3>1. job' = [kind |-> "backtest", windows |-> [job.windows EXCEPT !.holdout = s.holdout],
                  as_of |-> n]
      BY <2>1, <2>5
    <3>2. [job.windows EXCEPT !.holdout = s.holdout]
            = [train |-> job.windows.train, test |-> job.windows.test, holdout |-> s.holdout]
      BY <2>6
    <3> QED
      BY <3>1, <3>2, <2>7, <2>8
  <2>10. JobShape' /\ job'.windows = s /\ job'.as_of = n
    BY <2>9 DEF JobShape
  <2> QED
    BY <2>1, <2>2, <2>4, <2>10, WindowsSet
<1>4. CASE SweepJob
  <2>1. PICK w \in Requests :
          /\ n >= MinSeries /\ custom(Held, w) # Refused /\ Nonempty(custom(Held, w))
          /\ job' = [kind |-> "sweep", windows |-> custom(Held, w), as_of |-> n,
                     rows |-> job'.rows, order |-> job'.order, verdict |-> job'.verdict]
          /\ UNCHANGED <<program, calendar, walk, n>>
    BY <1>4 DEF SweepJob
  <2>2. CutFrom(custom(Held, w), n)
    BY <2>1, SettledCut DEF WindowInv
  <2>3. JobShape' /\ job'.windows = custom(Held, w) /\ job'.as_of = n
    BY <2>1 DEF JobShape
  <2> QED
    BY <2>1, <2>2, <2>3, WindowsSet
<1>5. CASE Rescore
  <2>1. /\ job.kind = "sweep" /\ job' = [job EXCEPT !.verdict = rescore(job.verdict)]
        /\ UNCHANGED <<program, calendar, walk, n>>
    BY <1>5 DEF Rescore
  <2>2. job = [kind |-> "sweep", windows |-> job.windows, as_of |-> job.as_of, rows |-> job.rows,
               order |-> job.order, verdict |-> job.verdict]
    BY <2>1 DEF WindowInv, JobShape, Idle
  <2>3. job' = [kind |-> "sweep", windows |-> job.windows, as_of |-> job.as_of,
                rows |-> job.rows, order |-> job.order, verdict |-> rescore(job.verdict)]
    BY <2>1, <2>2
  <2>4. JobShape' /\ job'.kind = job.kind /\ job'.windows = job.windows /\ job'.as_of = job.as_of
    BY <2>1, <2>3 DEF JobShape
  <2> QED
    BY <1>0, <2>1, <2>4, WindowsStay
<1>6. CASE UNCHANGED vars
  <2>1. UNCHANGED <<program, calendar, walk, n, job>>
    BY <1>6 DEF vars
  <2>2. JobShape'
    BY <2>1 DEF WindowInv, JobShape
  <2> QED
    BY <1>0, <2>1, <2>2, WindowsStay
<1> QED
  BY <1>1, <1>2, <1>3, <1>4, <1>5, <1>6 DEF Next

LEMMA WindowsKept == Spec => []WindowInv
  BY WindowsInit, WindowsStep, PTL DEF Spec

\* windows.py:8-15: train, test and holdout follow one another without a bar lost or
\* shared, on every series, for every request and after every extend.
THEOREM WindowsFollow == Spec => []WindowsTile
<1>1. ASSUME WindowInv PROVE WindowsTile
  <2> DEFINE ts == HeldAt(job.as_of)
  <2>1. SUFFICES ASSUME job.kind # "none" PROVE WindowsTile
    BY DEF WindowsTile
  <2>2. job.as_of \in Nat /\ Series(ts) /\ Len(ts) = job.as_of
    BY <1>1, <2>1, HeldSeries DEF WindowInv, JobCut
  <2>3. PICK a \in Nat, b \in Nat, c \in Nat :
          InOrder(job.as_of, a, b, c) /\ job.windows = Cuts(ts, a, b, c)
    BY <1>1, <2>1 DEF WindowInv, JobCut, CutFrom
  <2>4. /\ index_range(ts, job.windows.train) = <<a, b>>
        /\ index_range(ts, job.windows.test) = <<b + 1, c>>
        /\ index_range(ts, job.windows.holdout) = <<c + 1, job.as_of>>
    BY <2>2, <2>3, CutsTile
  <2>5. 1 <= a /\ a <= b /\ b + 1 <= c
    BY <2>2, <2>3 DEF InOrder
  <2> QED
    BY <2>4, <2>5 DEF WindowsTile, HeldAt
<1> QED
  BY <1>1, WindowsKept, PTL

\* jobs.py:205-209: a finished backtest can be brought up to date whatever bars came
\* since: its train and test are accepted again as they are, because the latest bar
\* test may end on never moves back.
THEOREM ExtendAlwaysKeeps == Spec => []ExtendKeepsWindows
<1>1. ASSUME WindowInv PROVE ExtendKeepsWindows
  <2> DEFINE m == job.as_of
             ts == HeldAt(m)
  <2>1. SUFFICES ASSUME job.kind = "backtest",
                        \A w \in {job.windows.train, job.windows.test} :
                          Bars(SubSeq(calendar, 1, job.as_of), w) >= MinWindowBars
                 PROVE  Own([windows |-> custom(Held, Own(job))]) = Own(job)
    BY DEF ExtendKeepsWindows
  <2>2. /\ m \in Nat /\ MinSeries <= m /\ m <= n /\ n \in Nat /\ MinSeries <= n
    BY <1>1, <2>1, WindowsAssumption DEF WindowInv, Market, JobCut
  <2>3. /\ Series(ts) /\ Len(ts) = m /\ \A i \in 1..m : ts[i] = calendar[i]
        /\ Series(Held) /\ Len(Held) = n /\ \A i \in 1..n : Held[i] = calendar[i]
    <3>1. n <= n
      BY <2>2
    <3> QED
      BY <1>1, <2>2, <3>1, HeldSeries, HeldNow DEF WindowInv
  <2>4. PICK a \in Nat, b \in Nat, c \in Nat : /\ InOrder(m, a, b, c) /\ c <= OpenBar(ts)
                                               /\ job.windows = Cuts(ts, a, b, c)
    BY <1>1, <2>1 DEF WindowInv, JobCut, CutFrom
  <2>5. OpenBar(ts) <= OpenBar(Held) /\ OpenBar(ts) \in Int /\ OpenBar(Held) \in Int
    <3>1. \A i \in 1..m : Held[i] = ts[i]
      BY <2>2, <2>3
    <3>2. OpenBar(ts) <= OpenBar(Held)
      BY <2>2, <2>3, <3>1, OpenBarGrows
    <3>3. OpenBar(ts) \in 1..m - 1 /\ OpenBar(Held) \in 1..n - 1
      BY <2>3, LastOpenAt
    <3> QED
      BY <3>2, <3>3
  <2>6. /\ InOrder(n, a, b, c) /\ c <= OpenBar(Held)
        /\ a \in 1..m /\ b \in 1..m /\ b + 1 \in 1..m /\ c \in 1..m
    BY <2>2, <2>4, <2>5 DEF InOrder
  <2>7. /\ Held[a] = ts[a] /\ Held[b] = ts[b] /\ Held[b + 1] = ts[b + 1] /\ Held[c] = ts[c]
    BY <2>2, <2>3, <2>6
  <2>8. b - a + 1 >= MinWindowBars /\ c - b >= MinWindowBars
    <3>1. /\ Bars(ts, <<ts[a], ts[b]>>) = b - a + 1
          /\ Bars(ts, <<ts[b + 1], ts[c]>>) = c - (b + 1) + 1
      BY <2>3, <2>6, RangeAtBars
    <3>2. job.windows.train = <<ts[a], ts[b]>> /\ job.windows.test = <<ts[b + 1], ts[c]>>
      BY <2>4 DEF Cuts
    <3>3. Bars(ts, job.windows.train) >= MinWindowBars /\ Bars(ts, job.windows.test) >= MinWindowBars
      BY <2>1 DEF HeldAt
    <3> QED
      BY <3>1, <3>2, <3>3
  <2>9. Own(job) = [train |-> <<Held[a], Held[b]>>, test |-> <<Held[b + 1], Held[c]>>]
    BY <2>4, <2>7 DEF Own, Cuts
  <2>10. /\ custom(Held, Own(job)).train = Own(job).train
         /\ custom(Held, Own(job)).test = Own(job).test
    <3>1. InOrder(Len(Held), a, b, c) /\ Series(Held) /\ c <= OpenBar(Held)
      BY <2>3, <2>6
    <3>2. Own(job) = AskedFor(Held, a, b, c)
      BY <2>9 DEF AskedFor
    <3> HIDE DEF m, ts
    <3> QED
      BY <2>8, <3>1, <3>2, AskedAgain
  <2> QED
    BY <2>10 DEF Own
<1> QED
  BY <1>1, WindowsKept, PTL

-----------------------------------------------------------------------------
(* One run cut into train and test.                                        *)

LEMMA CutCounts ==
  ASSUME Market, NEW s, NEW a \in Nat, NEW b \in Nat, NEW c \in Nat, 2 <= n,
         Series(Held), Len(Held) = n,
         InOrder(n, a, b, c), s = Cuts(Held, a, b, c), NEW k \in DOMAIN program.runs,
         Rows(s)[k].train.net > -100
  PROVE  Rows(s)[k].train.trades + Rows(s)[k].test.trades = Rows(s)[k].entered
<1> DEFINE run == Engine(program.runs[k], a)
           w == walk[program.runs[k]]
<1>1. /\ n \in Nat /\ n <= Len(calendar) /\ Len(calendar) \in Nat
      /\ DOMAIN calendar = 1..Len(calendar) /\ Capital \in Int
  BY ScoringAssumption DEF Market
<1>2. /\ w \in Walks /\ \A i \in 1..Len(calendar) : w.equity[i] \in Int
      /\ IsFiniteSet(w.trades) /\ w.trades \subseteq Nat \X Nat
  <2>1. program.runs[k] \in ToSet(program.runs)
    BY DEF ToSet
  <2>2. w \in Walks
    BY <2>1 DEF Market
  <2> QED
    BY <1>1, <2>2, ScoringAssumption DEF Market
<1>3. /\ RangeOf(s.train) = <<a, b>> /\ RangeOf(s.test) = <<b + 1, c>>
      /\ RangeOf(full(s)) = <<a, c>>
  <2>1. RangeOf(s.train) = <<a, b>> /\ RangeOf(s.test) = <<b + 1, c>>
    BY CutsTile DEF RangeOf
  <2>2. a \in 1..n /\ c \in 1..n
    BY <1>1 DEF InOrder
  <2>3. full(s) = <<Held[a], Held[c]>>
    BY DEF full, Cuts
  <2>4. index_range(Held, <<Held[a], Held[c]>>) = <<a, c>>
    BY <2>2, <1>1, RangeAtBars
  <2> QED
    BY <2>1, <2>3, <2>4 DEF RangeOf
<1>4. Rows(s)[k] = [train |-> Cut(run, a, b), test |-> Cut(run, b + 1, c),
                    entered |-> Cardinality(Entered(run, a, c))]
  BY <1>3 DEF Rows
<1>5. /\ \A i \in 1..n : run.equity[i] \in Int
      /\ IsFiniteSet(run.trades) /\ run.trades \subseteq Nat \X Nat
  <2>1. \A i \in 1..n : run.equity[i] \in Int
    BY <1>1, <1>2 DEF Engine
  <2>2. run.trades \subseteq w.trades
    BY DEF Engine
  <2> QED
    BY <1>2, <2>1, <2>2, FS_Subset
<1> HIDE DEF run, w
<1>6. /\ a \in 1..n /\ b \in 1..n /\ c \in 1..n /\ a <= b /\ b + 1 <= c
  BY <1>1 DEF InOrder
\* An account that is worth something when train ends has something to open test with.
<1>7. Opening(run, a) > 0 /\ run.equity[b] > 0
  <2> DEFINE cap == Opening(run, a)
             final == run.equity[b]
  <2>1. cap \in Int /\ final \in Int
    <3>1. Max({1, a - 1}) = IF 1 >= a - 1 THEN 1 ELSE a - 1
      BY OfTwo
    <3>2. Max({1, a - 1}) \in 1..n
      BY <3>1, <1>1, <1>6
    <3> QED
      BY <3>2, <1>5, <1>6 DEF Opening
  <2>2. Cut(run, a, b).net = IF cap <= 0 THEN -100 ELSE (100 * (final - cap)) \div cap
    BY DEF Cut
  <2>3. Cut(run, a, b).net > -100
    BY <1>4
  <2> HIDE DEF cap, final
  <2>4. cap > 0
    BY <2>1, <2>2, <2>3
  <2>5. (100 * (final - cap)) \div cap > -100
    BY <2>2, <2>3, <2>4, <2>1
  <2>6. ASSUME final <= 0 PROVE FALSE
    <3> DEFINE q == (100 * (final - cap)) \div cap
    <3>1. q \in Int /\ q * cap <= 100 * (final - cap)
      BY <2>1, <2>4
    <3>2. 100 * (final - cap) <= -100 * cap
      BY <2>1, <2>6
    <3>3. q >= -99
      BY <2>5, <3>1
    <3> HIDE DEF q
    <3>4. q * cap >= -99 * cap
      BY <2>1, <2>4, <3>1, <3>3
    <3>5. q * cap \in Int /\ 100 * (final - cap) \in Int /\ 100 * cap \in Int
      BY <2>1, <3>1
    <3> QED
      BY <2>1, <2>4, <3>1, <3>2, <3>4, <3>5
  <2> QED
    BY <2>1, <2>4, <2>6 DEF cap, final
<1>8. Opening(run, b + 1) > 0
  <2>1. Max({1, b}) = IF 1 >= b THEN 1 ELSE b
    BY OfTwo
  <2>2. Max({1, b}) = b /\ b + 1 - 1 = b
    BY <2>1, <1>6
  <2> QED
    BY <1>7, <2>2 DEF Opening
<1> DEFINE left == Entered(run, a, b)
           right == Entered(run, b + 1, c)
           both == Entered(run, a, c)
<1>9. Rows(s)[k].train.trades = Cardinality(left) /\ Rows(s)[k].test.trades = Cardinality(right)
  <2>1. ~(Opening(run, a) <= 0) /\ ~(Opening(run, b + 1) <= 0)
    <3>1. Opening(run, a) \in Int /\ Opening(run, b + 1) \in Int
      <4>1. Max({1, a - 1}) = IF 1 >= a - 1 THEN 1 ELSE a - 1
        BY OfTwo
      <4>2. Max({1, b + 1 - 1}) = IF 1 >= b + 1 - 1 THEN 1 ELSE b + 1 - 1
        BY OfTwo
      <4>3. Max({1, a - 1}) \in 1..n /\ Max({1, b + 1 - 1}) \in 1..n
        BY <4>1, <4>2, <1>1, <1>6
      <4> QED
        BY <4>3, <1>5 DEF Opening
    <3> QED
      BY <1>7, <1>8, <3>1
  <2> QED
    BY <1>4, <2>1 DEF Cut
\* Every trade of the run entered train or test, and none both.
<1>10. both = left \cup right /\ left \cap right = {}
  <2>1. \A t \in run.trades : t[1] \in Nat
    BY <1>5
  <2> QED
    BY <1>6, <2>1 DEF Entered
<1>11. IsFiniteSet(left) /\ IsFiniteSet(right)
  <2>1. left \in SUBSET run.trades /\ right \in SUBSET run.trades
    BY DEF Entered
  <2> QED
    BY <1>5, <2>1, FS_Subset
<1> HIDE DEF left, right, both
<1>12. Cardinality(both) = Cardinality(left) + Cardinality(right)
  <2>1. Cardinality(left \cup right)
          = Cardinality(left) + Cardinality(right) - Cardinality(left \cap right)
    BY <1>11, FS_Union
  <2>2. Cardinality(left \cap right) = 0
    BY <1>10, FS_EmptySet
  <2>3. Cardinality(left) \in Nat /\ Cardinality(right) \in Nat
    BY <1>11, FS_CardinalityType
  <2> QED
    BY <1>10, <2>1, <2>2, <2>3
<1> QED
  BY <1>4, <1>9, <1>12 DEF both

\* A sweep's rows are those of the windows it settled on.
LEMMA SweepRows ==
  ASSUME WindowInv, SweepJob
  PROVE  \E a, b, c \in Nat :
           /\ 2 <= n /\ Series(Held) /\ Len(Held) = n /\ InOrder(n, a, b, c)
           /\ job'.rows = Rows(Cuts(Held, a, b, c))
<1>1. PICK w \in Requests :
        /\ n >= MinSeries /\ custom(Held, w) # Refused /\ Nonempty(custom(Held, w))
        /\ job'.rows = Rows(custom(Held, w))
  BY DEF SweepJob
<1>2. CutFrom(custom(Held, w), n)
  BY <1>1, SettledCut DEF WindowInv
<1>3. n \in Nat /\ MinSeries <= n /\ n <= n /\ 2 <= n
  BY <1>1, WindowsAssumption DEF WindowInv, Market
<1>4. Series(Held) /\ Len(Held) = n
  BY <1>3, HeldSeries, HeldNow DEF WindowInv
<1> QED
  BY <1>1, <1>2, <1>3, <1>4, HeldNow DEF CutFrom

\* What each step does to the last sweep: one is made, or it keeps what it found.
LEMMA SweepKept ==
  ASSUME WindowInv, [Next]_vars, ~SweepJob, job'.kind = "sweep"
  PROVE  /\ job.kind = "sweep" /\ job'.rows = job.rows
         /\ job'.verdict = job.verdict \/ job'.verdict = rescore(job.verdict)
<1>1. CASE Backtest
  BY <1>1 DEF Backtest
<1>2. CASE Extend
  <2>1. job.kind = "backtest"
    BY <1>2 DEF Extend
  <2>2. job = [kind |-> "backtest", windows |-> job.windows, as_of |-> job.as_of]
    BY <2>1 DEF WindowInv, JobShape, Idle
  <2>3. job'.kind = job.kind
    BY <1>2, <2>2 DEF Extend
  <2> QED
    BY <2>1, <2>3
<1>3. CASE Rescore
  <2>1. job.kind = "sweep" /\ job' = [job EXCEPT !.verdict = rescore(job.verdict)]
    BY <1>3 DEF Rescore
  <2>2. job = [kind |-> "sweep", windows |-> job.windows, as_of |-> job.as_of, rows |-> job.rows,
               order |-> job.order, verdict |-> job.verdict]
    BY <2>1 DEF WindowInv, JobShape, Idle
  <2> QED
    BY <2>1, <2>2
<1>4. CASE UNCHANGED job
  BY <1>4
<1> QED
  BY <1>1, <1>2, <1>3, <1>4 DEF Next, NewBar, vars

\* program.py:151-155: each trade of the one run of a combination is counted in train
\* or in test and never in both, whatever the walk, while an account is left.
THEOREM TradesCountedOnce == Spec => []CutCountsOnce
<1>1. Init => CutCountsOnce
  BY DEF Init, Idle, CutCountsOnce
<1>2. CutCountsOnce /\ WindowInv /\ [Next]_vars => CutCountsOnce'
  <2> SUFFICES ASSUME CutCountsOnce, WindowInv, [Next]_vars PROVE CutCountsOnce'
    OBVIOUS
  <2>1. CASE SweepJob
    <3>0. PICK a \in Nat, b \in Nat, c \in Nat :
            /\ 2 <= n /\ Series(Held) /\ Len(Held) = n /\ InOrder(n, a, b, c)
            /\ job'.rows = Rows(Cuts(Held, a, b, c))
      BY <2>1, SweepRows
    <3> DEFINE s == Cuts(Held, a, b, c)
    <3>1. /\ 2 <= n /\ Series(Held) /\ Len(Held) = n /\ InOrder(n, a, b, c)
          /\ s = Cuts(Held, a, b, c) /\ job'.rows = Rows(s)
      BY <3>0
    <3> HIDE DEF s
    <3>2. DOMAIN Rows(s) = DOMAIN program.runs
      BY DEF Rows
    <3>3. ASSUME NEW k \in DOMAIN Rows(s), Rows(s)[k].train.net > -100
          PROVE  Rows(s)[k].train.trades + Rows(s)[k].test.trades = Rows(s)[k].entered
      BY <3>1, <3>2, <3>3, CutCounts DEF WindowInv
    <3>4. \A k \in DOMAIN job'.rows :
            job'.rows[k].train.net > -100
              => job'.rows[k].train.trades + job'.rows[k].test.trades = job'.rows[k].entered
      BY <3>1, <3>3
    <3> QED
      BY <3>4 DEF CutCountsOnce
  <2>2. CASE ~SweepJob /\ job'.kind = "sweep"
    <3>1. job.kind = "sweep" /\ job'.rows = job.rows
      BY <2>2, SweepKept
    <3> QED
      BY <3>1 DEF CutCountsOnce
  <2>3. CASE job'.kind # "sweep"
    BY <2>3 DEF CutCountsOnce
  <2> QED
    BY <2>1, <2>2, <2>3
<1> QED
  BY <1>1, <1>2, WindowsKept, PTL DEF Spec

-----------------------------------------------------------------------------
(* The verdict.                                                            *)

\* What a verdict on the bars held now is scored on.
JudgedNow == [as_of |-> n, on |-> split(Held), order |-> OnTest(Rows(split(Held)))]
JudgedInv == /\ n \in Nat
             /\ \A v \in judged : /\ v.as_of \in Nat /\ v.as_of <= n
                                  /\ v.as_of = n => v = JudgedNow
             /\ VerdictUnmoved

LEMMA JudgedStep == JudgedInv /\ [Next]_vars => JudgedInv'
<1> SUFFICES ASSUME JudgedInv, [Next]_vars PROVE JudgedInv'
  OBVIOUS
<1>1. CASE NewBar
  <2>1. n' = n + 1 /\ judged' = judged
    BY <1>1 DEF NewBar
  <2>2. \A v \in judged : v.as_of \in Nat /\ v.as_of <= n' /\ v.as_of # n'
    BY <2>1 DEF JudgedInv
  <2> QED
    BY <2>1, <2>2 DEF JudgedInv, VerdictUnmoved
<1>2. CASE SweepJob
  <2>1. /\ judged' = {v \in judged : v.as_of = n} \cup {JudgedNow}
        /\ UNCHANGED <<program, calendar, walk, n>>
    BY <1>2 DEF SweepJob, ScoredOn, JudgedNow
  <2>2. \A v \in judged' : v = JudgedNow
    <3>1. \A v \in judged : v.as_of = n => v = JudgedNow
      BY Zenon DEF JudgedInv
    <3> QED
      BY <2>1, <3>1, Zenon
  <2>3. JudgedNow' = JudgedNow
    BY <2>1 DEF JudgedNow, Held, OnTest, Rows, RangeOf, Engine
  <2>4. JudgedNow.as_of = n /\ n' = n /\ n \in Nat
    BY <2>1 DEF JudgedNow, JudgedInv
  <2> QED
    BY <2>2, <2>3, <2>4 DEF JudgedInv, VerdictUnmoved
<1>3. CASE UNCHANGED <<program, calendar, walk, n, judged>>
  <2>1. JudgedNow' = JudgedNow
    BY <1>3 DEF JudgedNow, Held, OnTest, Rows, RangeOf, Engine
  <2> QED
    BY <1>3, <2>1 DEF JudgedInv, VerdictUnmoved
<1> QED
  BY <1>1, <1>2, <1>3 DEF Next, Backtest, Extend, Rescore, vars

\* verdict/__init__.py:18-20: two verdicts on the same bars were scored on the same
\* windows and the same order of rows, whatever windows were asked for.
THEOREM ScoreUnmoved == Spec => []VerdictUnmoved
<1>1. Init => JudgedInv
  BY ScoringAssumption DEF Init, JudgedInv, VerdictUnmoved
<1>2. JudgedInv => VerdictUnmoved
  BY DEF JudgedInv
<1> QED
  BY <1>1, <1>2, JudgedStep, PTL DEF Spec

\* A stored verdict: the headline and each row are scored from the numbers kept, the
\* row's own Sharpe among them; only a row's trade count is no longer known.
KeepsNumbers(v) ==
  /\ v = [score |-> score(v.checks), band |-> band(score(v.checks)),
          reason |-> reason(v.checks), checks |-> v.checks, rows |-> v.rows]
  /\ \E e \in Evidence : \E thin, r :
       v.checks = Joint(grid_checks(e.wf, e.pbo, thin), r)
  /\ \A k \in DOMAIN v.rows : \E d \in 0..100 \cup {NoValue} : \E t :
       v.rows[k] = row_entry(Joint(v.checks, row_checks(d, t)), v.rows[k].params)
VerdictInv == job.kind = "sweep" => KeepsNumbers(job.verdict)

\* The trade count picks the sentence, never the score.
LEMMA TradesUnscored ==
  ASSUME NEW g, NEW d, NEW t, NEW u
  PROVE  score(Joint(g, row_checks(d, t))) = score(Joint(g, row_checks(d, u)))
<1>1. factors(Joint(g, row_checks(d, t))) = factors(Joint(g, row_checks(d, u)))
  BY DEF factors, Joint, row_checks
<1> QED
  BY <1>1 DEF score

LEMMA RescoreMeans ==
  ASSUME NEW v, KeepsNumbers(v)
  PROVE  /\ KeepsNumbers(rescore(v))
         /\ rescore(v).score = v.score /\ rescore(v).band = v.band
         /\ DOMAIN rescore(v).rows = DOMAIN v.rows
         /\ \A k \in DOMAIN v.rows : /\ rescore(v).rows[k].score = v.rows[k].score
                                     /\ rescore(v).rows[k].band = v.rows[k].band
<1> DEFINE t == v.checks.trades.value
           Row(k) == row_entry(Joint(v.checks, row_checks(v.rows[k].dsr, t)), v.rows[k].params)
           again == rescore(v)
<1>1. v = [score |-> score(v.checks), band |-> band(score(v.checks)),
           reason |-> reason(v.checks), checks |-> v.checks, rows |-> v.rows]
  BY DEF KeepsNumbers
<1>5. v.score = score(v.checks) /\ v.band = band(score(v.checks))
  <2> DEFINE sc == score(v.checks)
             re == reason(v.checks)
             ch == v.checks
             ro == v.rows
  <2>1. v = [score |-> sc, band |-> band(sc), reason |-> re, checks |-> ch, rows |-> ro]
    BY <1>1
  <2> HIDE DEF sc, re, ch, ro
  <2>2. v.score = sc /\ v.band = band(sc)
    BY <2>1
  <2> QED
    BY <2>2 DEF sc
<1>2. again = [score |-> score(v.checks), band |-> band(score(v.checks)),
               reason |-> reason(v.checks), checks |-> v.checks,
               rows |-> [k \in DOMAIN v.rows |-> Row(k)]]
  <2>1. again = [v EXCEPT !.score = score(v.checks), !.band = band(score(v.checks)),
                          !.reason = reason(v.checks), !.rows = [k \in DOMAIN v.rows |-> Row(k)]]
    BY DEF rescore
  <2> HIDE DEF Row, again
  <2> QED
    BY <1>1, <2>1
<1>3. ASSUME NEW k \in DOMAIN v.rows
      PROVE  /\ \E d \in 0..100 \cup {NoValue} :
                  Row(k) = row_entry(Joint(v.checks, row_checks(d, t)), Row(k).params)
             /\ Row(k).score = v.rows[k].score /\ Row(k).band = v.rows[k].band
  <2>0. PICK d \in 0..100 \cup {NoValue} :
          \E u : v.rows[k] = row_entry(Joint(v.checks, row_checks(d, u)), v.rows[k].params)
    BY DEF KeepsNumbers
  <2>1. PICK u : v.rows[k] = row_entry(Joint(v.checks, row_checks(d, u)), v.rows[k].params)
    BY <2>0
  <2>2. v.rows[k].dsr = d
    BY <2>1 DEF row_entry, Joint, row_checks
  <2>3. Row(k) = row_entry(Joint(v.checks, row_checks(d, t)), v.rows[k].params)
    BY <2>2
  <2> HIDE DEF Row, t
  <2>4. Row(k).params = v.rows[k].params
    BY <2>3 DEF row_entry
  <2>5. score(Joint(v.checks, row_checks(d, t))) = score(Joint(v.checks, row_checks(d, u)))
    BY TradesUnscored
  <2>6. /\ Row(k).score = score(Joint(v.checks, row_checks(d, t)))
        /\ Row(k).band = band(score(Joint(v.checks, row_checks(d, t))))
        /\ v.rows[k].score = score(Joint(v.checks, row_checks(d, u)))
        /\ v.rows[k].band = band(score(Joint(v.checks, row_checks(d, u))))
    BY <2>1, <2>3 DEF row_entry
  <2> QED
    BY <2>3, <2>4, <2>5, <2>6
<1> HIDE DEF Row, t
<1>4. /\ again.rows = [k \in DOMAIN v.rows |-> Row(k)] /\ again.checks = v.checks
      /\ again.score = score(v.checks) /\ again.band = band(score(v.checks))
      /\ again.reason = reason(v.checks)
  <2> HIDE DEF again
  <2> QED
    BY <1>2
<1>6. KeepsNumbers(again)
  <2> HIDE DEF again
  <2>1. again = [score |-> score(again.checks), band |-> band(score(again.checks)),
                 reason |-> reason(again.checks), checks |-> again.checks, rows |-> again.rows]
    BY <1>2, <1>4
  <2>2. \E e \in Evidence : \E thin, r : again.checks = Joint(grid_checks(e.wf, e.pbo, thin), r)
    BY <1>4 DEF KeepsNumbers
  <2>3. ASSUME NEW k \in DOMAIN again.rows
        PROVE  \E d \in 0..100 \cup {NoValue} : \E u :
                 again.rows[k] = row_entry(Joint(again.checks, row_checks(d, u)), again.rows[k].params)
    <3>1. k \in DOMAIN v.rows /\ again.rows[k] = Row(k)
      BY <1>4
    <3> QED
      BY <1>3, <1>4, <3>1
  <2> QED
    BY <2>1, <2>2, <2>3 DEF KeepsNumbers
<1> HIDE DEF again
<1>7. /\ DOMAIN again.rows = DOMAIN v.rows
      /\ \A k \in DOMAIN v.rows : again.rows[k] = Row(k)
  BY <1>4
<1>8. /\ \A k \in DOMAIN v.rows : /\ again.rows[k].score = v.rows[k].score
                                  /\ again.rows[k].band = v.rows[k].band
  BY <1>3, <1>7
<1>9. again.score = v.score /\ again.band = v.band
  BY <1>5, <1>4, Zenon
<1> QED
  BY <1>6, <1>7, <1>8, <1>9, Zenon DEF again

LEMMA EvaluateKeeps ==
  ASSUME NEW order, NEW e \in Evidence, NEW thin, NEW trades,
         NEW v, v = evaluate(order, e.wf, e.pbo, thin,
                             [k \in DOMAIN order |-> IF k = 1 THEN e.dsr ELSE e.other], trades)
  PROVE  KeepsNumbers(v)
<1> DEFINE grid == grid_checks(e.wf, e.pbo, thin)
           dsr == [k \in DOMAIN order |-> IF k = 1 THEN e.dsr ELSE e.other]
           At(k) == Joint(grid, row_checks(dsr[k], trades[k]))
<1>1. v = [score |-> score(At(1)), band |-> band(score(At(1))), reason |-> reason(At(1)),
           checks |-> At(1), rows |-> [k \in DOMAIN order |-> row_entry(At(k), order[k])]]
  BY DEF evaluate
<1>2. /\ v.checks = At(1) /\ v.score = score(At(1)) /\ v.band = band(score(At(1)))
      /\ v.reason = reason(At(1))
      /\ v.rows = [k \in DOMAIN order |-> row_entry(At(k), order[k])]
  <2> HIDE DEF At
  <2> QED
    BY <1>1
<1>3. v = [score |-> score(v.checks), band |-> band(score(v.checks)),
           reason |-> reason(v.checks), checks |-> v.checks, rows |-> v.rows]
  <2> HIDE DEF At
  <2>1. At(1) = v.checks
    BY <1>2
  <2>2. [k \in DOMAIN order |-> row_entry(At(k), order[k])] = v.rows
    BY <1>2
  <2> QED
    BY <1>1, <2>1, <2>2, Zenon
<1>4. \E thin0, r : v.checks = Joint(grid_checks(e.wf, e.pbo, thin0), r)
  <2>1. v.checks = Joint(grid_checks(e.wf, e.pbo, thin), row_checks(dsr[1], trades[1]))
    BY <1>2, Zenon
  <2> HIDE DEF dsr
  <2> QED
    BY <2>1, Zenon
<1>5. ASSUME NEW k \in DOMAIN v.rows
      PROVE  \E d \in 0..100 \cup {NoValue} : \E t :
               v.rows[k] = row_entry(Joint(v.checks, row_checks(d, t)), v.rows[k].params)
  <2>1. k \in DOMAIN order /\ v.rows[k] = row_entry(At(k), order[k])
    <3> HIDE DEF At
    <3> QED
      BY <1>2
  <2>2. dsr[k] \in 0..100 \cup {NoValue}
    BY <2>1, ScoringAssumption
  <2>3. At(k) = Joint(v.checks, row_checks(dsr[k], trades[k]))
    <3>1. /\ v.checks.walk_forward = grid.walk_forward /\ v.checks.pbo = grid.pbo
          /\ v.checks.sample = grid.sample
      <4> HIDE DEF grid, dsr
      <4> QED
        BY <1>2 DEF Joint
    <3> HIDE DEF grid, dsr
    <3> QED
      BY <3>1 DEF Joint
  <2>4. v.rows[k].params = order[k]
    <3> HIDE DEF At
    <3> QED
      BY <2>1 DEF row_entry
  <2> HIDE DEF At, dsr
  <2> QED
    BY <2>1, <2>2, <2>3, <2>4
<1> QED
  BY <1>3, <1>4, <1>5 DEF KeepsNumbers

LEMMA VerdictStep == VerdictInv /\ WindowInv /\ [Next]_vars => VerdictInv'
<1> SUFFICES ASSUME VerdictInv, WindowInv, [Next]_vars, job'.kind = "sweep"
             PROVE  KeepsNumbers(job'.verdict)
  BY DEF VerdictInv, KeepsNumbers
<1>1. CASE SweepJob
  <2> DEFINE scored == Rows(split(Held))
             order == OnTest(scored)
             thin == calendar[n] - calendar[1] < Thin
             trades == [k \in DOMAIN order |-> scored[order[k]].entered]
  <2>1. PICK e \in Evidence :
          job'.verdict = evaluate(order, e.wf, e.pbo, thin,
                           [k \in DOMAIN order |-> IF k = 1 THEN e.dsr ELSE e.other], trades)
    <3>1. PICK w \in Requests, e \in Evidence :
            job' = [kind |-> "sweep", windows |-> custom(Held, w), as_of |-> n,
                    rows |-> Rows(custom(Held, w)), order |-> OnTest(Rows(custom(Held, w))),
                    verdict |-> evaluate(order, e.wf, e.pbo, thin,
                                  [k \in DOMAIN order |-> IF k = 1 THEN e.dsr ELSE e.other], trades)]
      BY <1>1, Zenon DEF SweepJob, ScoredOn
    <3>2. job'.verdict = evaluate(order, e.wf, e.pbo, thin,
                           [k \in DOMAIN order |-> IF k = 1 THEN e.dsr ELSE e.other], trades)
      <4> HIDE DEF scored, order, thin, trades
      <4> QED
        BY <3>1
    <3> QED
      BY <3>2
  <2> HIDE DEF order, thin, trades
  <2> QED
    BY <2>1, EvaluateKeeps
<1>2. CASE ~SweepJob
  <2>1. /\ job.kind = "sweep"
        /\ job'.verdict = job.verdict \/ job'.verdict = rescore(job.verdict)
    BY <1>2, SweepKept
  <2>2. KeepsNumbers(job.verdict) /\ KeepsNumbers(rescore(job.verdict))
    BY <2>1, RescoreMeans DEF VerdictInv
  <2> QED
    BY <2>1, <2>2
<1> QED
  BY <1>1, <1>2, Zenon

LEMMA VerdictsKept == Spec => []VerdictInv
<1>1. Init => VerdictInv
  BY DEF Init, Idle, VerdictInv
<1> QED
  BY <1>1, VerdictStep, WindowsKept, PTL DEF Spec

\* verdict/__init__.py:89-93: re-scoring a stored verdict changes no score and no band.
THEOREM RescoreChangesNone == Spec => []RescoreAgrees
<1>1. ASSUME VerdictInv PROVE RescoreAgrees
  <2>1. SUFFICES ASSUME job.kind = "sweep" PROVE RescoreAgrees
    BY DEF RescoreAgrees
  <2>2. KeepsNumbers(job.verdict)
    BY <1>1, <2>1 DEF VerdictInv
  <2> QED
    BY <2>2, RescoreMeans DEF RescoreAgrees
<1> QED
  BY <1>1, VerdictsKept, PTL

\* The sentence is only written when no check is on the list of reasons.
LEMMA HeldUpMeans ==
  ASSUME NEW c, reason(c) = HeldUp
  PROVE  \A k \in DOMAIN SERIOUS : c[SERIOUS[k][1]].status # SERIOUS[k][2]
<1> DEFINE found == {k \in DOMAIN SERIOUS : c[SERIOUS[k][1]].status = SERIOUS[k][2]}
<1>1. \A k \in DOMAIN SERIOUS : k \in Nat /\ SERIOUS[k] # HeldUp
  <2>1. DOMAIN SERIOUS = 1..11
    BY DEF SERIOUS
  <2>2. \A k \in 1..11 : SERIOUS[k][1] # "all"
    BY DEF SERIOUS
  <2>3. HeldUp[1] = "all"
    BY Zenon DEF HeldUp
  <2> QED
    BY <2>1, <2>2, <2>3
<1>2. ASSUME found # {} PROVE FALSE
  <2>1. found \in SUBSET Nat
    BY <1>1
  <2>2. PICK m \in found : \A x \in found : ~(<<x, m>> \in OpToRel(<, Nat))
    <3> HIDE DEF found
    <3> QED
      BY <1>2, <2>1, WFMin, NatLessThanWellFounded
  <2>3. \A j \in found : m <= j
    <3>1. ASSUME NEW j \in found PROVE m <= j
      <4>1. ~(<<j, m>> \in OpToRel(<, Nat))
        <5> HIDE DEF found
        <5> QED
          BY <2>2
      <4>2. j \in Nat /\ m \in Nat
        BY <2>1
      <4>3. ~(j < m)
        BY <4>1, <4>2 DEF OpToRel
      <4> QED
        BY <4>2, <4>3
    <3> QED
      BY <3>1
  <2> DEFINE first == CHOOSE k \in found : \A j \in found : k <= j
  <2>4. first \in found
    <3> HIDE DEF found
    <3> QED
      BY <2>3
  <2>5. reason(c) = SERIOUS[first]
    BY <1>2 DEF reason
  <2> QED
    BY <2>4, <2>5, <1>1
<1> QED
  BY <1>2

LEMMA AllPass ==
  ASSUME NEW c, reason(c) = HeldUp
  PROVE  /\ c.walk_forward.status \notin {"fail", "warn", "na"}
         /\ c.pbo.status \notin {"fail", "warn", "na"} /\ c.dsr.status \notin {"fail", "warn", "na"}
<1>1. /\ 1..11 = DOMAIN SERIOUS
      /\ SERIOUS[1] = <<"pbo", "fail">> /\ SERIOUS[2] = <<"walk_forward", "fail">>
      /\ SERIOUS[3] = <<"dsr", "fail">> /\ SERIOUS[6] = <<"pbo", "warn">>
      /\ SERIOUS[7] = <<"dsr", "warn">> /\ SERIOUS[8] = <<"walk_forward", "warn">>
      /\ SERIOUS[9] = <<"pbo", "na">> /\ SERIOUS[10] = <<"walk_forward", "na">>
      /\ SERIOUS[11] = <<"dsr", "na">>
  BY DEF SERIOUS
<1>2. \A k \in 1..11 : c[SERIOUS[k][1]].status # SERIOUS[k][2]
  BY <1>1, HeldUpMeans
<1> QED
  BY <1>1, <1>2

LEMMA RoundedAtLeast ==
  ASSUME NEW x \in Int, NEW y \in Nat, y > 0
  PROVE  Rounded(x, y) \in Int /\ Rounded(x, y) >= x \div y
<1>1. x \div y \in Int
  OBVIOUS
<1> QED
  BY <1>1 DEF Rounded

\* The least three passing checks multiply to is 0.95 * 0.81 * 4/7: a score of 43.
LEMMA PassingScores ==
  ASSUME NEW c, NEW d \in Int, NEW q \in Int, NEW k \in Int,
         c.dsr.value = d, c.pbo.value = q, c.walk_forward.value # NoValue,
         c.walk_forward.value.positive = k, d # NoValue, q # NoValue,
         DsrPass <= d, q < PboWarn, MinPositive <= k
  PROVE  band(score(c)) = "high"
<1> DEFINE wf == Rounded(10000 * (k + 1), 7)
           p == 100 - q
<1>1. wf \in Int /\ wf >= 5714
  <2>1. 10000 * (k + 1) \in Int /\ (10000 * (k + 1)) \div 7 >= 5714
    BY DEF MinPositive
  <2>2. wf \in Int /\ wf >= (10000 * (k + 1)) \div 7
    BY <2>1, RoundedAtLeast
  <2>3. (10000 * (k + 1)) \div 7 \in Int
    BY <2>1
  <2> HIDE DEF wf
  <2> QED
    BY <2>1, <2>2, <2>3
<1>2. factors(c) = [dsr |-> 100 * d, pbo |-> 100 * p, walk_forward |-> wf]
  BY DEF factors, Folds
<1>3. (100 * d) \div 100 = d /\ (100 * p) \div 100 = p /\ p \in Int
  OBVIOUS
<1>4. d >= 95 /\ p >= 81
  BY DEF DsrPass, PboWarn
<1>5. score(c) = Rounded(d * p * wf, 1000000)
  <2> HIDE DEF wf, p
  <2> QED
    BY <1>2, <1>3 DEF score
<1>6. d * p \in Int /\ d * p >= 7695
  <2> HIDE DEF p
  <2>1. d * p >= 95 * p
    BY <1>3, <1>4
  <2> QED
    BY <1>3, <1>4, <2>1
<1>7. d * p * wf \in Int /\ d * p * wf >= 43969230
  <2> DEFINE z == d * p
  <2> HIDE DEF wf, z
  <2>1. z \in Int /\ z >= 7695
    BY <1>6 DEF z
  <2>2. z * wf >= 7695 * wf
    BY <1>1, <2>1
  <2>3. z * wf \in Int /\ z * wf >= 43969230
    BY <1>1, <2>1, <2>2
  <2> QED
    BY <2>3 DEF z
<1>8. score(c) \in Int /\ score(c) >= 43
  <2> DEFINE x == d * p * wf
  <2> HIDE DEF x
  <2>1. x \in Int /\ x >= 43969230
    BY <1>7 DEF x
  <2>2. x \div 1000000 \in Int /\ x \div 1000000 >= 43
    BY <2>1
  <2>3. Rounded(x, 1000000) \in Int /\ Rounded(x, 1000000) >= x \div 1000000
    BY <2>1, RoundedAtLeast
  <2> QED
    BY <1>5, <2>2, <2>3 DEF x
<1> QED
  BY <1>8 DEF band, High

\* rules.py:99-106 and 117-119: whatever the checks find and however often a verdict
\* is re-scored, the sentence that the edge held up in every check stands only above
\* a score in the high band.
THEOREM HeldUpScoresHigh == Spec => []HeldUpIsHigh
<1>1. ASSUME VerdictInv PROVE HeldUpIsHigh
  <2> SUFFICES ASSUME job.kind = "sweep", NEW k \in DOMAIN job.verdict.rows,
                      job.verdict.rows[k].reason = HeldUp
               PROVE  job.verdict.rows[k].band = "high"
    BY DEF HeldUpIsHigh
  <2> DEFINE v == job.verdict
  <2>1. KeepsNumbers(v)
    BY <1>1 DEF VerdictInv
  <2> HIDE DEF v
  <2>2. k \in DOMAIN v.rows /\ v.rows[k].reason = HeldUp
    BY DEF v
  <2>a. PICK d \in 0..100 \cup {NoValue} :
          \E t : v.rows[k] = row_entry(Joint(v.checks, row_checks(d, t)), v.rows[k].params)
    BY <2>1, <2>2 DEF KeepsNumbers
  <2>3. PICK t : v.rows[k] = row_entry(Joint(v.checks, row_checks(d, t)), v.rows[k].params)
    BY <2>a
  <2>b. PICK e \in Evidence : \E thin, r : v.checks = Joint(grid_checks(e.wf, e.pbo, thin), r)
    BY <2>1 DEF KeepsNumbers
  <2>4. PICK thin, r : v.checks = Joint(grid_checks(e.wf, e.pbo, thin), r)
    BY <2>b
  <2> DEFINE c == Joint(v.checks, row_checks(d, t))
  <2>5. /\ c.walk_forward = [status |-> WalkForwardStatus(e.wf), value |-> e.wf]
        /\ c.pbo = [status |-> PboStatus(e.pbo), value |-> e.pbo]
        /\ c.dsr = [status |-> DsrStatus(d), value |-> d]
    BY <2>4 DEF Joint, grid_checks, row_checks
  <2>6. v.rows[k].reason = reason(c) /\ v.rows[k].band = band(score(c))
    <3> HIDE DEF c
    <3>1. v.rows[k] = row_entry(c, v.rows[k].params)
      BY <2>3 DEF c
    <3> QED
      BY <3>1 DEF row_entry
  <2> HIDE DEF c
  <2>7. /\ WalkForwardStatus(e.wf) \notin {"fail", "warn", "na"}
        /\ PboStatus(e.pbo) \notin {"fail", "warn", "na"} /\ DsrStatus(d) \notin {"fail", "warn", "na"}
    <3>1. reason(c) = HeldUp
      BY <2>2, <2>6
    <3> QED
      BY <2>5, <3>1, AllPass
  <2>8. d # NoValue /\ DsrPass <= d /\ d \in Int
    <3>1. d # NoValue
      BY <2>7 DEF DsrStatus
    <3>2. d \in Int
      BY <3>1
    <3> QED
      BY <2>7, <3>1, <3>2 DEF DsrStatus, DsrFail, DsrPass
  <2>9. e.pbo # NoValue /\ e.pbo < PboWarn /\ e.pbo \in Int
    <3>1. e.pbo # NoValue
      BY <2>7 DEF PboStatus
    <3>2. e.pbo \in Int
      <4>1. e.pbo \in {e.pbo, e.dsr, e.other}
        OBVIOUS
      <4>2. e.pbo \in 0..100 \cup {NoValue}
        BY <4>1, ScoringAssumption
      <4> QED
        BY <3>1, <4>2
    <3> QED
      BY <2>7, <3>1, <3>2 DEF PboStatus, PboWarn, PboFail
  <2>10. e.wf # NoValue /\ MinPositive <= e.wf.positive /\ e.wf.positive \in Int
    <3>1. e.wf # NoValue
      BY <2>7 DEF WalkForwardStatus
    <3>2. e.wf.positive \in Int
      BY <3>1, ScoringAssumption DEF Folds
    <3> QED
      BY <2>7, <3>1, <3>2 DEF WalkForwardStatus, MinPositive
  <2>11. band(score(c)) = "high"
    BY <2>5, <2>8, <2>9, <2>10, PassingScores
  <2> QED
    BY <2>6, <2>11 DEF v
<1> QED
  BY <1>1, VerdictsKept, PTL
=============================================================================

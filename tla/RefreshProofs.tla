---------------------------- MODULE RefreshProofs ----------------------------
(***************************************************************************)
(* How long a bar the venue has published may wait to be asked for, for any *)
(* stored series, periods, waiting times and number of jobs.                *)
(***************************************************************************)
EXTENDS Refresh, TLAPS

\* A bar that is unread has had its period; nobody has asked since it came; and
\* the check that found nothing before a prompt one was made within the grace.
Checked(s) ==
  Unread(s) =>
    /\ ser[s].age >= 2 * Step[s]
    /\ ser[s].unasked <= ser[s].since \/ ser[s].since = Period(s)
    /\ ser[s].prompt => \/ ser[s].since >= Step[s]
                        \/ ser[s].since >= ser[s].age - 2 * Step[s] - PublishGrace

\* The ticks a fetch may still take before the sweep is cut.
Left == IF slow THEN 0 ELSE 1

\* A fetch that misses a prompt bar will end within the grace of that bar.
Fetched(s) ==
  at = s /\ got > ser[s].venue =>
    /\ got >= 2 * Step[s]
    /\ ser[s].prompt => got <= 2 * Step[s] + PublishGrace - Left

InOrder == \A s \in Symbol : at = s => \A x \in todo : Rank[s] < Rank[x]

BaseInv == TypeOK /\ InOrder /\ \A s \in Symbol : Checked(s) /\ Fetched(s)

-----------------------------------------------------------------------------
(* What each action that writes series makes of one.                       *)

LEMMA Times ==
  ASSUME NEW s \in Symbol
  PROVE  /\ Step[s] \in Nat /\ Step[s] >= 1
         /\ Cap(s) \in Nat /\ Cap(s) >= 3 * Step[s]
         /\ Cap(s) = 3 * Step[s] + PublishGrace
         /\ Period(s) \in Nat /\ Period(s) >= 1
         /\ Period(s) >= Step[s] /\ Period(s) >= MinRecheck
         /\ Patience(s) \in Nat
  BY StepAssumption, TimesAssumption, SMT DEF Cap, Period, Patience

LEMMA LeastOf ==
  ASSUME NEW a \in Int, NEW b \in Int
  PROVE  /\ Least(a, b) \in {a, b} /\ Least(a, b) <= a /\ Least(a, b) <= b
  BY SMT DEF Least

LEMMA SucceedWrites ==
  ASSUME TypeOK, NEW p \in Symbol, Succeed(p)
  PROVE  /\ ser' \in [Symbol -> Series]
         /\ \E seen \in {got, ser[p].venue} : ser'[p].age = Least(ser[p].age, seen)
         /\ ser'[p].venue = ser[p].venue /\ ser'[p].prompt = ser[p].prompt
         /\ ser'[p].since = 0 /\ ser'[p].unasked = 0 /\ ser'[p].came = 0
         /\ \A x \in Symbol \ {p} : ser'[x] = ser[x]
<1>1. PICK seen \in {got, ser[p].venue} :
        ser' = [ser EXCEPT ![p].age = Least(@, seen), ![p].since = 0,
                           ![p].unasked = 0, ![p].came = 0]
  BY DEF Succeed
<1> DEFINE n == [ser[p] EXCEPT !.age = Least(ser[p].age, seen), !.since = 0,
                               !.unasked = 0, !.came = 0]
<1>2. ser \in [Symbol -> Series] /\ ser[p] \in Series /\ 0 \in Nat
  BY DEF TypeOK
<1>3. got \in Nat /\ ser[p].venue \in Nat /\ ser[p].age \in Nat
  BY Times, SMT DEF TypeOK, Succeed
<1>4. Least(ser[p].age, seen) \in Nat
  BY <1>3, SMT DEF Least
<1> HIDE DEF Least
<1>5. /\ n \in Series /\ n.age = Least(ser[p].age, seen) /\ n.since = 0
      /\ n.unasked = 0 /\ n.came = 0 /\ n.venue = ser[p].venue /\ n.prompt = ser[p].prompt
  BY <1>2, <1>4, Zenon DEF Series
<1>6. ser' = [ser EXCEPT ![p] = n]
  BY <1>1, <1>2, Zenon
<1> HIDE DEF n
<1>7. ser' \in [Symbol -> Series] /\ ser'[p] = n /\ \A x \in Symbol \ {p} : ser'[x] = ser[x]
  BY <1>2, <1>5, <1>6, Zenon
<1> QED
  BY <1>5, <1>7, Zenon

LEMMA FailWrites ==
  ASSUME TypeOK, NEW p \in Symbol, Fail(p)
  PROVE  /\ ser' \in [Symbol -> Series]
         /\ \A x \in Symbol :
              /\ ser'[x].age = ser[x].age /\ ser'[x].venue = ser[x].venue
              /\ ser'[x].since = ser[x].since /\ ser'[x].prompt = ser[x].prompt
              /\ ser'[x].unasked = 0 /\ ser'[x].came = 0
<1> DEFINE New(x) == [ser[x] EXCEPT !.unasked = 0, !.came = 0]
<1>1. ser \in [Symbol -> Series] /\ 0 \in Nat /\ ser' = [x \in Symbol |-> New(x)]
  BY DEF TypeOK, Fail
<1>2. \A x \in Symbol :
        /\ New(x) \in Series /\ New(x).age = ser[x].age /\ New(x).venue = ser[x].venue
        /\ New(x).since = ser[x].since /\ New(x).prompt = ser[x].prompt
        /\ New(x).unasked = 0 /\ New(x).came = 0
  BY <1>1, Zenon DEF Series
<1> HIDE DEF New
<1>3. ser' \in [Symbol -> Series] /\ \A x \in Symbol : ser'[x] = New(x)
  BY <1>1, <1>2, Zenon
<1> QED
  BY <1>2, <1>3, Zenon

LEMMA ArriveWrites ==
  ASSUME TypeOK, Arrive
  PROVE  /\ ser' \in [Symbol -> Series]
         /\ \A x \in Symbol :
              /\ ser'[x].age = ser[x].age /\ ser'[x].venue = ser[x].venue
              /\ ser'[x].since = ser[x].since /\ ser'[x].prompt = ser[x].prompt
              /\ ser'[x].unasked = ser[x].unasked
              /\ ser'[x].came = IF Unread(x) /\ Ahead(x) # {} THEN ser[x].came + 1
                                ELSE ser[x].came
<1> DEFINE came(x) == IF Unread(x) /\ Ahead(x) # {} THEN ser[x].came + 1 ELSE ser[x].came
           New(x) == [ser[x] EXCEPT !.came = came(x)]
<1>1. ser \in [Symbol -> Series] /\ ser' = [x \in Symbol |-> New(x)]
  BY Zenon DEF TypeOK, Arrive
<1>2. \A x \in Symbol : ser[x].came \in Nat
  BY <1>1, Zenon DEF Series
<1> HIDE DEF New
<1>3. ASSUME NEW x \in Symbol PROVE came(x) \in Nat
  <2>1. ser[x].came \in Nat /\ ser[x].came + 1 \in Nat
    BY <1>2, SMT
  <2> QED
    BY <2>1, Zenon
<1> HIDE DEF came
<1> USE DEF New
<1>4. \A x \in Symbol :
        /\ New(x) \in Series /\ New(x).age = ser[x].age /\ New(x).venue = ser[x].venue
        /\ New(x).since = ser[x].since /\ New(x).prompt = ser[x].prompt
        /\ New(x).unasked = ser[x].unasked /\ New(x).came = came(x)
  BY <1>1, <1>3, Zenon DEF Series
<1> HIDE DEF New
<1>5. ser' \in [Symbol -> Series] /\ \A x \in Symbol : ser'[x] = New(x)
  BY <1>1, <1>4, Zenon
<1> QED
  BY <1>4, <1>5, Zenon DEF came

LEMMA PublishWrites ==
  ASSUME TypeOK, NEW p \in Symbol, Publish(p)
  PROVE  /\ ser' \in [Symbol -> Series]
         /\ ser'[p].venue \in Step[p]..(ser[p].venue - Step[p])
         /\ ser'[p].age = ser[p].age /\ ser'[p].since = ser[p].since
         /\ ser'[p].prompt = /\ Unread(p) => ser[p].prompt
                             /\ ser[p].venue < 2 * Step[p] + PublishGrace
         /\ ser'[p].unasked = IF Unread(p) THEN ser[p].unasked ELSE 0
         /\ ser'[p].came = IF Unread(p) THEN ser[p].came ELSE 0
         /\ \A x \in Symbol \ {p} : ser'[x] = ser[x]
<1> DEFINE soon == /\ Unread(p) => ser[p].prompt
                   /\ ser[p].venue < 2 * Step[p] + PublishGrace
           asked == IF Unread(p) THEN ser[p].unasked ELSE 0
           came == IF Unread(p) THEN ser[p].came ELSE 0
<1>1. PICK v \in Step[p]..(ser[p].venue - Step[p]) :
        ser' = [ser EXCEPT ![p].venue = v, ![p].prompt = soon,
                           ![p].unasked = asked, ![p].came = came]
  BY Zenon DEF Publish
<1>2. ser \in [Symbol -> Series] /\ ser[p] \in Series
  BY DEF TypeOK
<1>3. ser[p].venue \in Nat /\ ser[p].unasked \in Nat /\ ser[p].came \in Nat
  BY <1>2, Zenon DEF Series
<1>4. v \in Nat /\ soon \in BOOLEAN /\ asked \in Nat /\ came \in Nat
  BY <1>3, Times, SMT
<1> DEFINE n == [ser[p] EXCEPT !.venue = v, !.prompt = soon, !.unasked = asked, !.came = came]
<1> HIDE DEF soon, asked, came
<1>5. /\ n \in Series /\ n.venue = v /\ n.prompt = soon /\ n.unasked = asked
      /\ n.came = came /\ n.age = ser[p].age /\ n.since = ser[p].since
  BY <1>2, <1>4, Zenon DEF Series
<1>6. ser' = [ser EXCEPT ![p] = n]
  BY <1>1, <1>2, Zenon
<1> HIDE DEF n
<1>7. ser' \in [Symbol -> Series] /\ ser'[p] = n /\ \A x \in Symbol \ {p} : ser'[x] = ser[x]
  BY <1>2, <1>5, <1>6, Zenon
<1> QED
  BY <1>1, <1>5, <1>7, Zenon DEF soon, asked, came

LEMMA TickWrites ==
  ASSUME TypeOK, Tick
  PROVE  /\ ser' \in [Symbol -> Series]
         /\ \A x \in Symbol :
              /\ ser'[x].age = Least(ser[x].age + 1, Cap(x))
              /\ ser'[x].venue = AgedBar(x, ser[x].venue)
              /\ ser'[x].since = Least(ser[x].since + 1, Period(x))
              /\ ser'[x].prompt = ser[x].prompt /\ ser'[x].came = ser[x].came
              /\ ser'[x].unasked = IF Unread(x) /\ at # "job"
                                   THEN Least(ser[x].unasked + 1, Patience(x))
                                   ELSE ser[x].unasked
<1> DEFINE waited(x) == IF Unread(x) /\ at # "job" THEN Least(ser[x].unasked + 1, Patience(x))
                        ELSE ser[x].unasked
           aged(x) == Least(ser[x].age + 1, Cap(x))
           checked(x) == Least(ser[x].since + 1, Period(x))
           New(x) == [ser[x] EXCEPT !.age = aged(x), !.venue = AgedBar(x, ser[x].venue),
                                    !.since = checked(x), !.unasked = waited(x)]
<1>1. ser \in [Symbol -> Series] /\ ser' = [x \in Symbol |-> New(x)]
  BY Zenon DEF TypeOK, Tick, Older
<1>2. \A x \in Symbol : /\ ser[x].age \in Nat /\ ser[x].venue \in Nat
                        /\ ser[x].since \in Nat /\ ser[x].unasked \in Nat
  BY <1>1, Zenon DEF Series
<1> HIDE DEF New
<1>3. ASSUME NEW x \in Symbol
      PROVE  /\ waited(x) \in Nat /\ aged(x) \in Nat /\ checked(x) \in Nat
             /\ AgedBar(x, ser[x].venue) \in Nat
  <2>1. /\ Cap(x) \in Nat /\ Cap(x) - 1 \in Nat
        /\ Period(x) \in Nat /\ Patience(x) \in Nat
    BY Times, SMT
  <2>2. \A m, n \in Nat : Least(m + 1, n) \in Nat
    BY SMT DEF Least
  <2> HIDE DEF Least
  <2> QED
    BY <1>2, <2>1, <2>2, Zenon DEF AgedBar
<1> HIDE DEF waited, aged, checked
<1> USE DEF New
<1>4. \A x \in Symbol :
        /\ New(x) \in Series /\ New(x).age = aged(x)
        /\ New(x).venue = AgedBar(x, ser[x].venue) /\ New(x).since = checked(x)
        /\ New(x).unasked = waited(x)
        /\ New(x).prompt = ser[x].prompt /\ New(x).came = ser[x].came
  BY <1>1, <1>3, Zenon DEF Series
<1> HIDE DEF New
<1>5. ser' \in [Symbol -> Series] /\ \A x \in Symbol : ser'[x] = New(x)
  BY <1>1, <1>4, Zenon
<1> QED
  BY <1>4, <1>5, Zenon DEF waited, aged, checked

-----------------------------------------------------------------------------
(* Types.                                                                  *)

\* What TypeOK says of one series.
InRange(x) ==
  /\ ser[x].age \in Step[x]..Cap(x) /\ ser[x].venue \in Step[x]..ser[x].age
  /\ ser[x].since <= Period(x) /\ ser[x].unasked <= Patience(x)
  /\ ser[x].came <= MaxJobs - jobs
  /\ at = x => got \in ser[x].venue..ser[x].age

LEMMA Counts ==
  ASSUME TypeOK, NEW x \in Symbol
  PROVE  /\ ser[x].age \in Nat /\ ser[x].venue \in Nat /\ ser[x].since \in Nat
         /\ ser[x].unasked \in Nat /\ ser[x].came \in Nat /\ ser[x].prompt \in BOOLEAN
         /\ InRange(x)
<1>1. ser[x] \in Series
  BY DEF TypeOK
<1> QED
  BY <1>1, Zenon DEF Series, TypeOK, InRange

LEMMA TypesFromRanges ==
  ASSUME ser' \in [Symbol -> Series], \A x \in Symbol : InRange(x)',
         at' \in {"idle", "job", "sweep"} \cup Symbol, todo' \subseteq Symbol,
         at' \in {"idle", "job"} => todo' = {},
         idleFor' \in 0..RefreshEvery, jobs' \in 0..MaxJobs,
         slow' \in BOOLEAN, queued' \in BOOLEAN
  PROVE  TypeOK'
  BY Zenon DEF TypeOK, InRange

LEMMA AgedBars ==
  ASSUME TypeOK, NEW x \in Symbol, NEW b \in ser[x].venue..ser[x].age
  PROVE  /\ AgedBar(x, b) \in ser[x].venue..Least(ser[x].age + 1, Cap(x))
         /\ AgedBar(x, ser[x].venue) <= AgedBar(x, b)
         /\ AgedBar(x, b) >= b /\ AgedBar(x, b) <= b + 1
         /\ b = ser[x].age => AgedBar(x, b) = Least(ser[x].age + 1, Cap(x))
         /\ b < ser[x].age => AgedBar(x, b) < Least(ser[x].age + 1, Cap(x))
<1>1. /\ ser[x].age \in Nat /\ ser[x].venue \in Nat /\ ser[x].age <= Cap(x)
      /\ ser[x].venue <= ser[x].age /\ Cap(x) \in Nat
  BY Counts, Times, SMT DEF InRange
<1> QED
  BY <1>1, SMT DEF AgedBar, Least

\* A series that a step leaves alone, the fetch of it included.
LEMMA SameRange ==
  ASSUME TypeOK, NEW x \in Symbol, ser'[x] = ser[x], jobs' = jobs,
         at' = x => got' \in ser[x].venue..ser[x].age
  PROVE  InRange(x)'
  BY Counts, Zenon DEF InRange

LEMMA TypeStep ==
  ASSUME TypeOK, [Next]_vars
  PROVE  TypeOK'
<1>0. /\ ser \in [Symbol -> Series] /\ slow \in BOOLEAN /\ queued \in BOOLEAN
      /\ at \in {"idle", "job", "sweep"} \cup Symbol /\ todo \subseteq Symbol
      /\ at \in {"idle", "job"} => todo = {}
      /\ idleFor \in 0..RefreshEvery /\ jobs \in 0..MaxJobs
  BY Zenon DEF TypeOK
<1>n. /\ "idle" \notin Symbol /\ "job" \notin Symbol /\ "sweep" \notin Symbol
      /\ RefreshEvery \in Nat /\ MaxJobs \in Nat
      /\ 0 \in 0..RefreshEvery /\ RefreshEvery \in 0..RefreshEvery
  BY TimesAssumption, SMT
<1>1. CASE StartSweep
  <2>1. \A x \in Symbol : InRange(x)'
    BY <1>1, <1>n, SameRange, Zenon DEF StartSweep
  <2> QED
    BY <1>0, <1>1, <1>n, <2>1, TypesFromRanges, Zenon DEF StartSweep
<1>2. CASE EndSweep
  <2>1. \A x \in Symbol : InRange(x)'
    BY <1>2, <1>n, SameRange, Zenon DEF EndSweep
  <2>2. idleFor' \in 0..RefreshEvery
    BY <1>2, <1>n, Zenon DEF EndSweep
  <2> QED
    BY <1>0, <1>2, <1>n, <2>1, <2>2, TypesFromRanges, Zenon DEF EndSweep
<1>3. CASE Claim \/ Handled
  <2>1. \A x \in Symbol : InRange(x)'
    BY <1>3, <1>n, SameRange, Zenon DEF Claim, Handled
  <2> QED
    BY <1>0, <1>3, <1>n, <2>1, TypesFromRanges, Zenon DEF Claim, Handled
<1>4. CASE \E p \in Symbol : BeginIngest(p)
  <2>1. PICK p \in Symbol : BeginIngest(p)
    BY <1>4
  <2>2. ser[p].venue \in ser[p].venue..ser[p].age
    BY Counts, SMT DEF InRange
  <2>3. \A x \in Symbol : InRange(x)'
    BY <2>1, <2>2, SameRange, Zenon DEF BeginIngest
  <2> QED
    BY <1>0, <1>n, <2>1, <2>3, TypesFromRanges, Zenon DEF BeginIngest
<1>5. CASE \E p \in Symbol : Succeed(p)
  <2>1. PICK p \in Symbol : Succeed(p)
    BY <1>5
  <2>2. ASSUME NEW x \in Symbol PROVE InRange(x)'
    <3>1. CASE x # p
      BY <1>n, <2>1, <3>1, SucceedWrites, SameRange, Zenon DEF Succeed
    <3>2. CASE x = p
      <4>1. PICK seen \in {got, ser[p].venue} : ser'[p].age = Least(ser[p].age, seen)
        BY <2>1, SucceedWrites, Zenon
      <4>2. got \in ser[p].venue..ser[p].age /\ jobs' = jobs /\ at' # p
        BY <1>n, <2>1, Counts, Zenon DEF Succeed, InRange
      <4>3. /\ ser'[p].age \in Step[p]..Cap(p)
            /\ ser[p].venue \in Step[p]..ser'[p].age
        BY <4>1, <4>2, Counts, Times, SMT DEF InRange, Least
      <4>4. 0 <= Period(p) /\ 0 <= Patience(p) /\ 0 <= MaxJobs - jobs
        BY <1>0, <1>n, Times, SMT
      <4> QED
        BY <2>1, <3>2, <4>2, <4>3, <4>4, SucceedWrites, Zenon DEF InRange
    <3> QED
      BY <3>1, <3>2
  <2> QED
    BY <1>0, <1>n, <2>1, <2>2, SucceedWrites, TypesFromRanges, Zenon DEF Succeed
<1>6. CASE \E p \in Symbol : Fail(p)
  <2>1. PICK p \in Symbol : Fail(p)
    BY <1>6
  <2>2. ASSUME NEW x \in Symbol PROVE InRange(x)'
    <3>1. 0 <= Patience(x) /\ 0 <= MaxJobs - jobs
      BY <1>0, <1>n, Times, SMT
    <3>2. at' # x /\ jobs' = jobs
      BY <1>n, <2>1, Zenon DEF Fail
    <3> QED
      BY <2>1, <3>1, <3>2, FailWrites, Counts, Zenon DEF InRange
  <2> QED
    BY <1>0, <1>n, <2>1, <2>2, FailWrites, TypesFromRanges, Zenon DEF Fail
<1>7. CASE Arrive
  <2>1. /\ jobs' \in 0..MaxJobs /\ MaxJobs - jobs' = (MaxJobs - jobs) + 1
        /\ MaxJobs - jobs \in Nat
    BY <1>0, <1>7, <1>n, SMT DEF Arrive
  <2>2. ASSUME NEW x \in Symbol PROVE InRange(x)'
    <3>1. ser'[x].came <= MaxJobs - jobs'
      <4>1. ser'[x].came \in {ser[x].came, ser[x].came + 1}
        BY <1>7, ArriveWrites, Zenon
      <4>2. ser[x].came \in Nat /\ ser[x].came <= MaxJobs - jobs
        BY Counts, Zenon DEF InRange
      <4>3. \A c \in Nat : c <= MaxJobs - jobs => /\ c <= MaxJobs - jobs'
                                                 /\ c + 1 <= MaxJobs - jobs'
        BY <2>1, SMT
      <4> QED
        BY <4>1, <4>2, <4>3, Zenon
    <3>2. at' = at /\ got' = got
      BY <1>7 DEF Arrive
    <3> QED
      BY <1>7, <3>1, <3>2, ArriveWrites, Counts, Zenon DEF InRange
  <2> QED
    BY <1>0, <1>7, <2>1, <2>2, ArriveWrites, TypesFromRanges, Zenon DEF Arrive
<1>8. CASE \E p \in Symbol : Publish(p)
  <2>1. PICK p \in Symbol : Publish(p)
    BY <1>8
  <2>2. ASSUME NEW x \in Symbol PROVE InRange(x)'
    <3>0. at' = at /\ got' = got /\ jobs' = jobs
      BY <2>1 DEF Publish
    <3>1. CASE x # p
      BY <2>1, <3>0, <3>1, PublishWrites, SameRange, Counts, Zenon DEF InRange
    <3>2. CASE x = p
      <4>1. /\ ser'[p].venue \in Step[p]..ser[p].age
            /\ at = p => got \in ser'[p].venue..ser[p].age
        <5>1. /\ ser'[p].venue \in Step[p]..(ser[p].venue - Step[p])
              /\ at = p => got \in ser[p].venue..ser[p].age
              /\ ser[p].venue \in Step[p]..ser[p].age
          BY <2>1, PublishWrites, Counts, Zenon DEF InRange
        <5>2. ser[p].age \in Nat /\ ser[p].venue \in Nat /\ Step[p] \in Nat
          BY Counts, Times
        <5> QED
          BY <5>1, <5>2, SMT
      <4>2. ser'[p].unasked <= Patience(p) /\ ser'[p].came <= MaxJobs - jobs
        <5>1. 0 <= Patience(p) /\ 0 <= MaxJobs - jobs
          BY <1>0, <1>n, Times, SMT
        <5> QED
          BY <2>1, <5>1, PublishWrites, Counts, Zenon DEF InRange
      <4> QED
        BY <2>1, <3>0, <3>2, <4>1, <4>2, PublishWrites, Counts, Zenon DEF InRange
    <3> QED
      BY <3>1, <3>2
  <2> QED
    BY <1>0, <2>1, <2>2, PublishWrites, TypesFromRanges, Zenon DEF Publish
<1>9. CASE Tick
  <2>0. at' = at /\ todo' = todo /\ queued' = queued /\ jobs' = jobs
    BY <1>9 DEF Tick
  <2>1. ASSUME NEW x \in Symbol PROVE InRange(x)'
    <3>1. /\ ser[x].age \in Step[x]..Cap(x) /\ ser[x].venue \in Step[x]..ser[x].age
          /\ ser[x].age \in Nat /\ ser[x].venue \in Nat
      BY Counts, Zenon DEF InRange
    <3>2. /\ ser'[x].age = Least(ser[x].age + 1, Cap(x))
          /\ ser'[x].venue = AgedBar(x, ser[x].venue)
      BY <1>9, TickWrites, Zenon
    <3>3. ser'[x].age \in Step[x]..Cap(x) /\ ser'[x].venue \in Step[x]..ser'[x].age
      <4>1. ser[x].venue \in ser[x].venue..ser[x].age
        BY <3>1, Times, SMT
      <4>2. AgedBar(x, ser[x].venue) \in ser[x].venue..Least(ser[x].age + 1, Cap(x))
        BY <4>1, AgedBars
      <4> QED
        BY <3>1, <3>2, <4>2, Times, SMT DEF Least
    <3>4. at = x => got' \in ser'[x].venue..ser'[x].age
      <4> SUFFICES ASSUME at = x PROVE got' \in ser'[x].venue..ser'[x].age
        OBVIOUS
      <4>1. got \in ser[x].venue..ser[x].age /\ got' = AgedBar(x, got)
        BY <1>9, Counts, Zenon DEF Tick, InRange
      <4>2. /\ AgedBar(x, got) \in ser[x].venue..Least(ser[x].age + 1, Cap(x))
            /\ AgedBar(x, ser[x].venue) <= AgedBar(x, got)
        BY <4>1, AgedBars
      <4> QED
        BY <3>2, <3>3, <4>1, <4>2, SMT
    <3>5. ser'[x].since <= Period(x) /\ ser'[x].unasked <= Patience(x)
      <4>1. /\ Period(x) \in Nat /\ Patience(x) \in Nat
            /\ ser[x].since + 1 \in Nat /\ ser[x].unasked + 1 \in Nat
            /\ ser[x].unasked <= Patience(x)
        BY Counts, Times, SMT DEF InRange
      <4>2. /\ Least(ser[x].since + 1, Period(x)) <= Period(x)
            /\ Least(ser[x].unasked + 1, Patience(x)) <= Patience(x)
        BY <4>1, SMT DEF Least
      <4> QED
        BY <1>9, <4>1, <4>2, TickWrites, Zenon
    <3> QED
      BY <1>9, <2>0, <3>3, <3>4, <3>5, TickWrites, Counts, Zenon DEF InRange
  <2>2. slow' \in BOOLEAN
    BY <1>9 DEF Tick
  <2>3. idleFor' \in 0..RefreshEvery
    BY <1>0, <1>9, <1>n, SMT DEF Tick, Least
  <2> QED
    BY <1>0, <1>9, <2>0, <2>1, <2>2, <2>3, TickWrites, TypesFromRanges, Zenon
<1>10. CASE UNCHANGED vars
  BY <1>10, Zenon DEF vars, TypeOK
<1> QED
  BY <1>1, <1>2, <1>3, <1>4, <1>5, <1>6, <1>7, <1>8, <1>9, <1>10, Zenon DEF Next, Worker

-----------------------------------------------------------------------------
(* The check before a bar, and the fetch that misses one.                  *)

\* Time alone makes no bar unread.
LEMMA ReadStays ==
  ASSUME TypeOK, Tick, NEW x \in Symbol, ~Unread(x)
  PROVE  ~Unread(x)'
<1>1. /\ ser'[x].age = Least(ser[x].age + 1, Cap(x))
      /\ ser'[x].venue = AgedBar(x, ser[x].venue)
      /\ ser[x].age \in Nat /\ ser[x].venue \in ser[x].venue..ser[x].age
  BY TickWrites, Counts, Times, SMT DEF InRange
<1>2. ser[x].venue = ser[x].age
  BY <1>1, Counts, SMT DEF Unread
<1>3. ser'[x].venue = ser'[x].age
  BY <1>1, <1>2, AgedBars, Zenon
<1>4. ser'[x].age \in Int
  BY <1>1, Times, SMT DEF Least
<1> QED
  BY <1>3, <1>4, SMT DEF Unread

LEMMA CheckedStep ==
  ASSUME BaseInv, [Next]_vars, NEW x \in Symbol
  PROVE  Checked(x)'
<1>0. /\ TypeOK /\ Checked(x)
      /\ ser[x].age \in Nat /\ ser[x].venue \in Nat /\ ser[x].since \in Nat
      /\ ser[x].unasked \in Nat /\ ser[x].venue <= ser[x].age /\ ser[x].age <= Cap(x)
      /\ ser[x].since <= Period(x)
  BY Counts, Times, SMT DEF BaseInv, InRange
<1>1. CASE ser'[x] = ser[x]
  BY <1>0, <1>1, Zenon DEF Checked, Unread
<1>2. CASE Succeed(x)
  <2> SUFFICES ASSUME Unread(x)'
               PROVE  /\ ser'[x].age >= 2 * Step[x]
                      /\ ser'[x].prompt => ser'[x].since >= ser'[x].age - 2 * Step[x] - PublishGrace
    <3>1. ser'[x].unasked <= ser'[x].since
      BY <1>0, <1>2, SucceedWrites, SMT
    <3> QED
      BY <3>1, Zenon DEF Checked
  <2>1. PICK seen \in {got, ser[x].venue} : ser'[x].age = Least(ser[x].age, seen)
    BY <1>0, <1>2, SucceedWrites, Zenon
  <2>2. got \in ser[x].venue..ser[x].age /\ at = x
    BY <1>0, <1>2, Counts, Zenon DEF Succeed, InRange
  <2>3. ser[x].venue < ser'[x].age
    BY <1>0, <1>2, SucceedWrites, Zenon DEF Unread
  <2>4. ser'[x].age = got /\ got > ser[x].venue
    BY <1>0, <2>1, <2>2, <2>3, SMT DEF Least
  <2>5. /\ got >= 2 * Step[x]
        /\ ser[x].prompt => got <= 2 * Step[x] + PublishGrace - Left
    BY <2>2, <2>4, Zenon DEF BaseInv, Fetched
  <2>6. ser'[x].since = 0 /\ ser'[x].prompt = ser[x].prompt
    BY <1>0, <1>2, SucceedWrites
  <2>7. got <= 2 * Step[x] + PublishGrace - Left => 0 >= got - 2 * Step[x] - PublishGrace
    BY <1>0, <2>2, Times, TimesAssumption, SMT DEF Left
  <2> QED
    BY <2>4, <2>5, <2>6, <2>7, Zenon
<1>3. CASE \E p \in Symbol : Fail(p)
  <2>1. /\ ser'[x].age = ser[x].age /\ ser'[x].venue = ser[x].venue
        /\ ser'[x].since = ser[x].since /\ ser'[x].prompt = ser[x].prompt
        /\ ser'[x].unasked = 0
    BY <1>0, <1>3, FailWrites, Zenon
  <2>2. 0 <= ser[x].since
    BY <1>0, SMT
  <2> QED
    BY <1>0, <2>1, <2>2, Zenon DEF Checked, Unread
<1>4. CASE Arrive
  BY <1>0, <1>4, ArriveWrites, Zenon DEF Checked, Unread
<1>5. CASE Publish(x)
  <2>1. /\ ser'[x].venue \in Step[x]..(ser[x].venue - Step[x])
        /\ ser'[x].age = ser[x].age /\ ser'[x].since = ser[x].since
        /\ ser'[x].prompt = /\ Unread(x) => ser[x].prompt
                            /\ ser[x].venue < 2 * Step[x] + PublishGrace
        /\ ser'[x].unasked = IF Unread(x) THEN ser[x].unasked ELSE 0
    BY <1>0, <1>5, PublishWrites, Zenon
  <2>2. CASE Unread(x)
    BY <1>0, <2>1, <2>2, Zenon DEF Checked
  <2>3. CASE ~Unread(x)
    <3>1. ser[x].age = ser[x].venue
      BY <1>0, <2>3, SMT DEF Unread
    <3>2. ser[x].age >= 2 * Step[x] /\ 0 <= ser[x].since
      BY <1>0, <2>1, <3>1, Times, SMT
    <3>3. ser[x].venue < 2 * Step[x] + PublishGrace =>
            ser[x].since >= ser[x].age - 2 * Step[x] - PublishGrace
      BY <1>0, <3>1, Times, TimesAssumption, SMT
    <3> QED
      BY <2>1, <2>3, <3>2, <3>3, Zenon DEF Checked
  <2> QED
    BY <2>2, <2>3
<1>6. CASE Tick
  <2>1. /\ ser'[x].age = Least(ser[x].age + 1, Cap(x))
        /\ ser'[x].venue = AgedBar(x, ser[x].venue)
        /\ ser'[x].since = Least(ser[x].since + 1, Period(x))
        /\ ser'[x].prompt = ser[x].prompt
        /\ ser'[x].unasked \in {ser[x].unasked, Least(ser[x].unasked + 1, Patience(x))}
    BY <1>0, <1>6, TickWrites, Zenon
  <2>2. /\ Least(ser[x].age + 1, Cap(x)) >= ser[x].age
        /\ Least(ser[x].age + 1, Cap(x)) <= ser[x].age + 1
        /\ Least(ser[x].since + 1, Period(x)) \in {ser[x].since + 1, Period(x)}
        /\ Least(ser[x].unasked + 1, Patience(x)) <= ser[x].unasked + 1
        /\ Least(ser[x].unasked + 1, Patience(x)) \in Nat
    BY <1>0, Times, SMT DEF Least
  <2>3. ASSUME ~Unread(x) PROVE ~Unread(x)'
    BY <1>0, <1>6, <2>3, ReadStays
  <2>4. CASE Unread(x)
    <3>1. /\ ser[x].age >= 2 * Step[x]
          /\ ser[x].unasked <= ser[x].since \/ ser[x].since = Period(x)
          /\ ser[x].prompt => \/ ser[x].since >= Step[x]
                              \/ ser[x].since >= ser[x].age - 2 * Step[x] - PublishGrace
      BY <1>0, <2>4, Zenon DEF Checked
    <3> DEFINE age == ser[x].age since == ser[x].since unasked == ser[x].unasked
               age2 == ser'[x].age since2 == ser'[x].since unasked2 == ser'[x].unasked
    <3>2. /\ age2 \in Nat /\ age2 >= age /\ age2 <= age + 1
          /\ since2 \in Nat /\ (since2 = since + 1 \/ since2 = Period(x))
          /\ since2 >= since /\ since2 <= Period(x)
          /\ unasked2 \in Nat /\ unasked2 <= unasked + 1
      BY <1>0, <2>1, <2>2, Times, SMT DEF Least
    <3>3. age \in Nat /\ since \in Nat /\ unasked \in Nat /\ since <= Period(x)
      BY <1>0
    <3>4. age2 >= 2 * Step[x]
      BY <3>1, <3>2, <3>3, Times, SMT
    <3>5. unasked2 <= since2 \/ since2 = Period(x)
      BY <3>1, <3>2, <3>3, Times, SMT
    <3>6. ser[x].prompt => since2 >= Step[x] \/ since2 >= age2 - 2 * Step[x] - PublishGrace
      BY <3>1, <3>2, <3>3, Times, TimesAssumption, SMT
    <3> QED
      BY <2>1, <3>4, <3>5, <3>6, Zenon DEF Checked
  <2> QED
    BY <2>3, <2>4, Zenon DEF Checked
<1>7. CASE StartSweep \/ EndSweep \/ Claim \/ Handled \/ UNCHANGED vars
  BY <1>1, <1>7, Zenon DEF StartSweep, EndSweep, Claim, Handled, vars
<1>8. ASSUME NEW p \in Symbol, BeginIngest(p) PROVE Checked(x)'
  BY <1>1, <1>8, Zenon DEF BeginIngest
<1>9. ASSUME NEW p \in Symbol, Succeed(p) \/ Publish(p) PROVE Checked(x)'
  BY <1>0, <1>1, <1>2, <1>5, <1>9, SucceedWrites, PublishWrites, Zenon
<1> QED
  BY <1>3, <1>4, <1>6, <1>7, <1>8, <1>9, Zenon DEF Next, Worker

LEMMA FetchedStep ==
  ASSUME BaseInv, [Next]_vars, NEW x \in Symbol
  PROVE  Fetched(x)'
<1>0. /\ TypeOK /\ Fetched(x)
      /\ ser[x].age \in Nat /\ ser[x].venue \in Nat /\ ser[x].venue <= ser[x].age
      /\ x # "idle" /\ x # "sweep" /\ x # "job"
      /\ at = x => got \in ser[x].venue..ser[x].age
  <2>1. x # "idle" /\ x # "sweep" /\ x # "job"
    BY TimesAssumption
  <2>2. TypeOK /\ Fetched(x)
    BY DEF BaseInv
  <2> QED
    BY <2>1, <2>2, Counts, Times, SMT DEF InRange
<1>1. CASE at' # x
  BY <1>1 DEF Fetched
<1>2. CASE at' = at /\ got' = got /\ slow' = slow /\ ser'[x].venue = ser[x].venue
           /\ ser'[x].prompt = ser[x].prompt
  BY <1>0, <1>2, Zenon DEF Fetched, Left
<1>3. ASSUME NEW p \in Symbol, BeginIngest(p) PROVE Fetched(x)'
  <2>1. at' = x => got' = ser'[x].venue
    BY <1>3, Zenon DEF BeginIngest
  <2>2. ser'[x].venue \in Nat
    BY <1>0, <1>3, Zenon DEF BeginIngest
  <2>3. at' = x => ~(got' > ser'[x].venue)
    BY <2>1, <2>2, SMT
  <2> QED
    BY <2>3, Zenon DEF Fetched
<1>4. CASE Publish(x)
  <2> SUFFICES ASSUME at = x, got > ser'[x].venue
               PROVE  /\ got >= 2 * Step[x]
                      /\ ser'[x].prompt => got <= 2 * Step[x] + PublishGrace - Left
    BY <1>4, Zenon DEF Publish, Fetched, Left
  <2>1. /\ ser'[x].venue \in Step[x]..(ser[x].venue - Step[x])
        /\ ser'[x].prompt = /\ Unread(x) => ser[x].prompt
                            /\ ser[x].venue < 2 * Step[x] + PublishGrace
    BY <1>0, <1>4, PublishWrites, Zenon
  <2>2. CASE got > ser[x].venue
    <3>1. Unread(x)
      BY <1>0, <2>2, SMT DEF Unread
    <3> QED
      BY <1>0, <2>1, <2>2, <3>1, Zenon DEF Fetched
  <2>3. CASE ~(got > ser[x].venue)
    <3>1. got = ser[x].venue
      BY <1>0, <2>3, SMT
    <3>2. got >= 2 * Step[x]
      BY <1>0, <2>1, <3>1, Times, SMT
    <3>3. ser[x].venue < 2 * Step[x] + PublishGrace => got <= 2 * Step[x] + PublishGrace - Left
      BY <1>0, <3>1, Times, TimesAssumption, SMT DEF Left
    <3> QED
      BY <2>1, <3>2, <3>3, Zenon
  <2> QED
    BY <2>2, <2>3
<1>5. CASE Tick /\ at = x
  <2> SUFFICES ASSUME got' > ser'[x].venue
               PROVE  /\ got' >= 2 * Step[x]
                      /\ ser'[x].prompt => got' <= 2 * Step[x] + PublishGrace - Left'
    BY DEF Fetched
  <2>1. /\ ~slow /\ slow' /\ got' = AgedBar(x, got)
        /\ ser'[x].venue = AgedBar(x, ser[x].venue) /\ ser'[x].prompt = ser[x].prompt
    BY <1>0, <1>5, TickWrites, Zenon DEF Tick
  <2>2. got \in ser[x].venue..ser[x].age
    BY <1>0, <1>5
  <2>3. AgedBar(x, got) >= got /\ AgedBar(x, got) <= got + 1 /\ AgedBar(x, got) \in Nat
    BY <1>0, <2>2, AgedBars, Times, SMT DEF Least
  <2>4. got > ser[x].venue
    <3>1. got # ser[x].venue
      <4> SUFFICES ASSUME got = ser[x].venue PROVE FALSE
        OBVIOUS
      <4>1. AgedBar(x, got) > AgedBar(x, got)
        BY <2>1
      <4> QED
        BY <2>3, <4>1, SMT
    <3> QED
      BY <1>0, <2>2, <3>1, SMT
  <2>5. /\ got >= 2 * Step[x]
        /\ ser[x].prompt => got <= 2 * Step[x] + PublishGrace - Left
    BY <1>0, <1>5, <2>4, Zenon DEF Fetched
  <2>6. got <= 2 * Step[x] + PublishGrace - Left => got' <= 2 * Step[x] + PublishGrace - Left'
    BY <1>0, <2>1, <2>2, <2>3, Times, TimesAssumption, SMT DEF Left
  <2>7. got' >= 2 * Step[x]
    BY <1>0, <2>1, <2>2, <2>3, <2>5, Times, SMT
  <2> QED
    BY <2>1, <2>5, <2>6, <2>7, Zenon
<1>6. CASE StartSweep \/ EndSweep \/ Claim \/ Handled
  BY <1>0, <1>1, <1>6, Zenon DEF StartSweep, EndSweep, Claim, Handled
<1>7. ASSUME NEW p \in Symbol, Succeed(p) \/ Fail(p) PROVE Fetched(x)'
  BY <1>0, <1>1, <1>7, Zenon DEF Succeed, Fail
<1>8. ASSUME NEW p \in Symbol, Publish(p) PROVE Fetched(x)'
  <2>1. CASE p # x
    <3>1. at' = at /\ got' = got /\ slow' = slow
      BY <1>8 DEF Publish
    <3>2. ser'[x] = ser[x]
      BY <1>0, <1>8, <2>1, PublishWrites, Zenon
    <3> QED
      BY <1>2, <3>1, <3>2, Zenon
  <2> QED
    BY <1>4, <1>8, <2>1, Zenon
<1>9. CASE Arrive
  <2>1. at' = at /\ got' = got /\ slow' = slow
    BY <1>9 DEF Arrive
  <2> QED
    BY <1>0, <1>2, <1>9, <2>1, ArriveWrites, Zenon
<1>10. CASE Tick
  BY <1>1, <1>5, <1>10, Zenon DEF Tick
<1>11. CASE UNCHANGED vars
  BY <1>2, <1>11, Zenon DEF vars
<1> QED
  BY <1>3, <1>6, <1>7, <1>8, <1>9, <1>10, <1>11, Zenon DEF Next, Worker

LEMMA InOrderStep ==
  ASSUME BaseInv, [Next]_vars
  PROVE  InOrder'
<1>0. /\ InOrder /\ todo \subseteq Symbol
      /\ "idle" \notin Symbol /\ "job" \notin Symbol /\ "sweep" \notin Symbol
  BY TimesAssumption, Zenon DEF BaseInv, TypeOK
<1>1. ASSUME NEW p \in Symbol, BeginIngest(p) PROVE InOrder'
  <2>1. ASSUME NEW x \in todo' PROVE Rank[p] < Rank[x]
    <3>1. x \in Symbol /\ x # p /\ x \notin Ahead(p)
      BY <1>0, <1>1, <2>1 DEF BeginIngest
    <3>2. Rank[x] # Rank[p] /\ ~(Rank[x] < Rank[p]) /\ Rank[x] \in Nat /\ Rank[p] \in Nat
      BY <3>1, RankAssumption, Zenon DEF Ahead
    <3> QED
      BY <3>2, SMT
  <2> QED
    BY <1>1, <2>1, Zenon DEF BeginIngest, InOrder
<1>2. CASE at' \notin Symbol
  BY <1>2 DEF InOrder
<1>3. CASE at' = at /\ todo' = todo
  BY <1>0, <1>3 DEF InOrder
<1>4. CASE StartSweep \/ EndSweep \/ Claim \/ Handled
  BY <1>0, <1>2, <1>4, Zenon DEF StartSweep, EndSweep, Claim, Handled
<1>5. ASSUME NEW p \in Symbol, Succeed(p) \/ Fail(p) \/ Publish(p) PROVE InOrder'
  BY <1>0, <1>2, <1>3, <1>5, Zenon DEF Succeed, Fail, Publish
<1>6. CASE Arrive \/ Tick \/ UNCHANGED vars
  BY <1>3, <1>6, Zenon DEF Arrive, Tick, vars
<1> QED
  BY <1>1, <1>4, <1>5, <1>6, Zenon DEF Next, Worker

LEMMA BaseInit ==
  ASSUME Init
  PROVE  BaseInv
<1>1. ser = [s \in Symbol |-> Fresh(s)] /\ at = "idle" /\ todo = {} /\ jobs = MaxJobs
      /\ idleFor = RefreshEvery /\ slow = FALSE /\ queued = FALSE
  BY DEF Init
<1>2. ASSUME NEW s \in Symbol
      PROVE  /\ Fresh(s) \in Series /\ ser[s] = Fresh(s) /\ at # s
             /\ Fresh(s).age = Step[s] /\ Fresh(s).venue = Step[s]
             /\ Fresh(s).since = MinRecheck /\ Fresh(s).unasked = 0 /\ Fresh(s).came = 0
  BY <1>1, Times, TimesAssumption, SMT DEF Fresh, Series
<1>3. ser \in [Symbol -> Series]
  BY <1>1, <1>2, Zenon
<1>4. ASSUME NEW s \in Symbol
      PROVE  /\ Step[s] \in Step[s]..Cap(s) /\ Step[s] \in Step[s]..Step[s]
             /\ MinRecheck <= Period(s) /\ 0 <= Patience(s) /\ 0 <= MaxJobs - jobs
             /\ ~(Step[s] < Step[s])
  BY <1>1, Times, TimesAssumption, SMT
<1>5. /\ RefreshEvery \in 0..RefreshEvery /\ MaxJobs \in 0..MaxJobs
      /\ at \notin Symbol
  BY <1>1, TimesAssumption, SMT
<1>6. TypeOK
  BY <1>1, <1>2, <1>3, <1>4, <1>5, Zenon DEF TypeOK
<1>7. \A s \in Symbol : Checked(s) /\ Fetched(s)
  BY <1>2, <1>4, <1>5, Zenon DEF Checked, Fetched, Unread
<1> QED
  BY <1>5, <1>6, <1>7, Zenon DEF BaseInv, InOrder

LEMMA BaseStep ==
  ASSUME BaseInv, [Next]_vars
  PROVE  BaseInv'
<1>1. TypeOK'
  BY TypeStep DEF BaseInv
<1> QED
  BY <1>1, CheckedStep, FetchedStep, InOrderStep, Zenon DEF BaseInv

-----------------------------------------------------------------------------
(* How many ticks the worker may still take before it asks.                *)

One(s) == IF Ahead(s) = {} THEN 0 ELSE 1

\* The age of the last check from which on nothing puts the next one off.
After(s) == IF ser[s].prompt THEN MinRecheck ELSE Period(s)

\* The series that goes first may be due too.
Waits(s) == \E c \in Ahead(s) : ser[c].since >= MinRecheck

Later(s) == RefreshEvery - idleFor + One(s) + 1

\* The ticks in which the worker, with no job and no source failing, gets to a
\* series that is due.
Work(s) ==
  CASE at = s -> Left
    [] at = "job" -> Later(s)
    [] at = "idle" -> IF idleFor = RefreshEvery /\ ~queued /\ ~Waits(s) THEN 1 ELSE Later(s)
    [] at \notin {s, "job", "idle"} /\ s \notin todo -> Left + RefreshEvery + One(s) + 1
    [] at \notin {s, "job", "idle", "sweep"} /\ s \in todo ->
         Left + 1 + IF queued THEN One(s) ELSE 0
    [] at = "sweep" /\ s \in todo ->
         IF queued THEN One(s) + 1
         ELSE IF slow THEN IF Waits(s) THEN One(s) + 1 ELSE 1
         ELSE IF Ahead(s) \cap todo # {} THEN One(s) + 1 ELSE 1

Soon(s) ==
  Early(s) /\ Unread(s) /\ ser[s].since >= After(s) =>
    ser[s].unasked + Work(s) <= After(s) + Wait(s)

Inv == BaseInv /\ \A s \in Symbol : Soon(s)

\* What a step, or the state it leads to, has at hand.
LEMMA Names ==
  ASSUME NEW s \in Symbol
  PROVE  /\ s # "idle" /\ s # "job" /\ s # "sweep"
         /\ One(s) \in {0, 1} /\ RefreshEvery \in Nat
  BY TimesAssumption, Zenon DEF One

LEMMA WorkCases ==
  ASSUME NEW s \in Symbol
  PROVE  /\ at = s => Work(s) = Left
         /\ at = "job" => Work(s) = Later(s)
         /\ at = "idle" => Work(s) = IF idleFor = RefreshEvery /\ ~queued /\ ~Waits(s)
                                     THEN 1 ELSE Later(s)
         /\ at \notin {s, "job", "idle"} /\ s \notin todo =>
              Work(s) = Left + RefreshEvery + One(s) + 1
         /\ at \notin {s, "job", "idle", "sweep"} /\ s \in todo =>
              Work(s) = Left + 1 + IF queued THEN One(s) ELSE 0
         /\ at = "sweep" /\ s \in todo =>
              Work(s) = IF queued THEN One(s) + 1
                        ELSE IF slow THEN IF Waits(s) THEN One(s) + 1 ELSE 1
                        ELSE IF Ahead(s) \cap todo # {} THEN One(s) + 1 ELSE 1
  BY Names, SMT DEF Work

LEMMA WorkCasesNext ==
  ASSUME NEW s \in Symbol
  PROVE  /\ at' = s => Work(s)' = Left'
         /\ at' = "job" => Work(s)' = Later(s)'
         /\ at' = "idle" => Work(s)' = IF idleFor' = RefreshEvery /\ ~queued' /\ ~Waits(s)'
                                       THEN 1 ELSE Later(s)'
         /\ at' \notin {s, "job", "idle"} /\ s \notin todo' =>
              Work(s)' = Left' + RefreshEvery + One(s) + 1
         /\ at' \notin {s, "job", "idle", "sweep"} /\ s \in todo' =>
              Work(s)' = Left' + 1 + IF queued' THEN One(s) ELSE 0
         /\ at' = "sweep" /\ s \in todo' =>
              Work(s)' = IF queued' THEN One(s) + 1
                         ELSE IF slow' THEN IF Waits(s)' THEN One(s) + 1 ELSE 1
                         ELSE IF Ahead(s) \cap todo' # {} THEN One(s) + 1 ELSE 1
  BY Names, SMT DEF Work

\* A bar that is unread and was last checked long enough ago is due.
LEMMA DueWhenRested ==
  ASSUME BaseInv, NEW s \in Symbol, Unread(s), ser[s].since >= After(s)
  PROVE  Due(s)
<1>1. /\ ser[s].age \in Nat /\ ser[s].since \in Nat /\ ser[s].age <= Cap(s)
      /\ ser[s].age >= 2 * Step[s]
      /\ ser[s].prompt => \/ ser[s].since >= Step[s]
                          \/ ser[s].since >= ser[s].age - 2 * Step[s] - PublishGrace
  <2>1. TypeOK /\ Checked(s)
    BY DEF BaseInv
  <2>2. InRange(s) /\ ser[s].age \in Nat /\ ser[s].since \in Nat
    BY <2>1, Counts
  <2>3. ser[s].age <= Cap(s)
    BY <2>2, Times, SMT DEF InRange
  <2> QED
    BY <2>1, <2>2, <2>3, Zenon DEF Checked
<1>2. ser[s].since >= MinRecheck /\ (~ser[s].prompt => ser[s].since >= Step[s])
  BY <1>1, Times, TimesAssumption, SMT DEF After
<1>3. ser[s].age - 2 * Step[s] >= 0
  BY <1>1, Times, SMT
<1>4. \/ ser[s].since >= Step[s]
      \/ ~(ser[s].since < (ser[s].age - 2 * Step[s]) - PublishGrace)
  BY <1>1, <1>2, Times, TimesAssumption, SMT
<1> QED
  BY <1>2, <1>3, <1>4, Zenon DEF Due

\* Facts about the worker every step below needs.
LEMMA Worked ==
  ASSUME TypeOK
  PROVE  /\ idleFor \in 0..RefreshEvery /\ Left \in {0, 1}
         /\ slow \in BOOLEAN /\ queued \in BOOLEAN
         /\ at \in {"idle", "job", "sweep"} \cup Symbol
         /\ todo \subseteq Symbol /\ at \in {"idle", "job"} => todo = {}
  BY Zenon DEF TypeOK, Left

LEMMA WorkInt ==
  ASSUME TypeOK, NEW s \in Symbol
  PROVE  Work(s) \in Int /\ Work(s) >= 0
<1>1. /\ idleFor \in 0..RefreshEvery /\ Left \in {0, 1}
      /\ at \in {"idle", "job", "sweep"} \cup Symbol
  BY Worked
<1>2. Later(s) = RefreshEvery - idleFor + One(s) + 1
  BY DEF Later
<1> QED
  BY <1>1, <1>2, Names, WorkCases, SMT

LEMMA WorkMost ==
  ASSUME TypeOK', NEW s \in Symbol
  PROVE  /\ Work(s)' \in Int /\ Work(s)' <= RefreshEvery + One(s) + 2
         /\ slow' \/ at' = "job" \/ at' = "idle" => Work(s)' <= RefreshEvery + One(s) + 1
<1>1. /\ idleFor' \in 0..RefreshEvery /\ Left' \in {0, 1} /\ (slow' => Left' = 0)
      /\ at' \in {"idle", "job", "sweep"} \cup Symbol
  BY Zenon DEF TypeOK, Left
<1>2. Later(s)' = RefreshEvery - idleFor' + One(s) + 1
  BY DEF Later, One
<1> QED
  BY <1>1, <1>2, Names, WorkCasesNext, SMT

\* A sweep that begins with the series among the due ones.
LEMMA WorkSweep ==
  ASSUME TypeOK, NEW s \in Symbol, StartSweep, Due(s)
  PROVE  Work(s)' <= Work(s)
<1>1. /\ at = "idle" /\ ~queued /\ ~queued' /\ at' = "sweep" /\ ~slow'
      /\ s \in todo' /\ todo' = {x \in Symbol : Due(x)} /\ idleFor >= RefreshEvery
  BY Zenon DEF StartSweep
<1>2. idleFor = RefreshEvery
  BY <1>1, Names, Worked, SMT
<1>3. Ahead(s) \cap todo' # {} => Waits(s)
  BY <1>1 DEF Due, Waits
<1>4. Work(s) = IF ~Waits(s) THEN 1 ELSE Later(s)
  BY <1>1, <1>2, WorkCases, Zenon
<1>5. Work(s)' = IF Ahead(s) \cap todo' # {} THEN One(s) + 1 ELSE 1
  BY <1>1, WorkCasesNext, Zenon
<1>6. Later(s) = One(s) + 1
  BY <1>2, Names, SMT DEF Later
<1> QED
  BY <1>3, <1>4, <1>5, <1>6, Names, SMT

\* The next series of a sweep is this one or, once, the one ahead.
LEMMA WorkBegin ==
  ASSUME TypeOK, NEW s \in Symbol, NEW p \in Symbol, BeginIngest(p)
  PROVE  Work(s)' <= Work(s)
<1>1. /\ at = "sweep" /\ p \in todo /\ todo \cap Ahead(p) = {} /\ ~slow /\ ~queued
      /\ at' = p /\ todo' = todo \ {p} /\ ~slow' /\ ~queued' /\ Left = 1 /\ Left' = 1
  BY Zenon DEF BeginIngest, Stopped, Left
<1>2. CASE s \notin todo
  <2>1. Work(s) = 1 + RefreshEvery + One(s) + 1
    BY <1>1, <1>2, Names, WorkCases, Zenon
  <2>2. Work(s)' = 1 + RefreshEvery + One(s) + 1
    BY <1>1, <1>2, Names, WorkCasesNext, Zenon
  <2> QED
    BY <2>1, <2>2, Names, SMT
<1>3. CASE p = s
  <2>1. Ahead(s) \cap todo = {} /\ s \in todo
    BY <1>1, <1>3
  <2>2. Work(s) = 1
    BY <1>1, <2>1, WorkCases, Zenon
  <2>3. Work(s)' = 1
    BY <1>1, <1>3, WorkCasesNext, Zenon
  <2> QED
    BY <2>2, <2>3, SMT
<1>4. CASE s \in todo /\ p # s
  <2>1. Rank[p] < Rank[s]
    <3>1. s \notin Ahead(p)
      BY <1>1, <1>4
    <3>2. Rank[p] # Rank[s] /\ ~(Rank[s] < Rank[p]) /\ Rank[p] \in Nat /\ Rank[s] \in Nat
      BY <1>4, <3>1, RankAssumption, Zenon DEF Ahead
    <3> QED
      BY <3>2, SMT
  <2>2. p \in Ahead(s)
    BY <2>1 DEF Ahead
  <2>3. Work(s) = One(s) + 1 /\ One(s) = 1
    BY <1>1, <1>4, <2>2, WorkCases, Zenon DEF One
  <2>4. Work(s)' = 1 + 1 + 0
    BY <1>1, <1>4, Names, WorkCasesNext, Zenon
  <2> QED
    BY <2>3, <2>4, SMT
<1> QED
  BY <1>2, <1>3, <1>4

\* A sweep that is cut is taken up at once.
LEMMA WorkEnd ==
  ASSUME TypeOK, NEW s \in Symbol, EndSweep
  PROVE  Work(s)' <= Work(s)
<1>1. /\ at = "sweep" /\ at' = "idle" /\ queued' = queued /\ ser' = ser
      /\ todo = {} \/ slow \/ queued
      /\ idleFor' = IF todo = {} THEN 0 ELSE RefreshEvery
  BY Zenon DEF EndSweep, Stopped
<1>2. Waits(s)' <=> Waits(s)
  BY <1>1 DEF Waits
<1>3. /\ idleFor' \in 0..RefreshEvery /\ Later(s)' = RefreshEvery - idleFor' + One(s) + 1
      /\ Left \in {0, 1}
  BY <1>1, Names, Worked, SMT DEF Later, One
<1>4. Work(s)' = IF idleFor' = RefreshEvery /\ ~queued /\ ~Waits(s) THEN 1 ELSE Later(s)'
  BY <1>1, <1>2, WorkCasesNext, Zenon
<1>5. CASE s \notin todo
  <2>1. Work(s) = Left + RefreshEvery + One(s) + 1
    BY <1>1, <1>5, Names, WorkCases, Zenon
  <2> QED
    BY <1>3, <1>4, <2>1, Names, SMT
<1>6. CASE s \in todo
  <2>1. /\ idleFor' = RefreshEvery /\ (slow \/ queued)
        /\ Work(s) = IF queued THEN One(s) + 1 ELSE IF Waits(s) THEN One(s) + 1 ELSE 1
    BY <1>1, <1>6, WorkCases, Zenon
  <2> QED
    BY <1>3, <1>4, <2>1, Names, SMT
<1> QED
  BY <1>5, <1>6

LEMMA WorkJob ==
  ASSUME TypeOK, NEW s \in Symbol, Claim \/ Handled
  PROVE  Work(s)' <= Work(s)
<1>1. /\ idleFor' = idleFor /\ ser' = ser /\ idleFor \in 0..RefreshEvery
      /\ Later(s)' = RefreshEvery - idleFor' + One(s) + 1
      /\ \/ at = "idle" /\ queued /\ at' = "job"
         \/ at = "job" /\ at' = "idle"
  BY Worked, Zenon DEF Claim, Handled, Later, One
<1>2. Work(s) = Later(s)
  BY <1>1, WorkCases, Zenon
<1>3. Work(s)' \in {1, Later(s)'}
  BY <1>1, WorkCasesNext, Zenon
<1>4. Later(s)' = Later(s) /\ Later(s) >= 1 /\ Later(s) \in Int
  BY <1>1, Names, SMT DEF Later
<1> QED
  BY <1>2, <1>3, <1>4, SMT

\* The one ahead has had its turn.
LEMMA WorkSucceed ==
  ASSUME BaseInv, NEW s \in Symbol, NEW p \in Symbol, Early(s), p # s, Succeed(p)
  PROVE  Work(s)' <= Work(s)
<1>1. /\ TypeOK /\ at = p /\ at' = "sweep" /\ todo' = todo /\ slow' = slow
      /\ queued' = queued /\ Left' = Left /\ Left \in {0, 1}
  BY Worked, Zenon DEF BaseInv, Succeed, Left
<1>2. CASE s \notin todo
  <2>1. /\ Work(s) = Left + RefreshEvery + One(s) + 1
        /\ Work(s)' = Left' + RefreshEvery + One(s) + 1
    BY <1>1, <1>2, Names, WorkCases, WorkCasesNext, Zenon
  <2> QED
    BY <1>1, <2>1, Names, SMT
<1>3. CASE s \in todo
  <2>1. p \in Ahead(s) /\ p \notin todo
    <3>1. \A x \in todo : Rank[p] < Rank[x]
      BY <1>1 DEF BaseInv, InOrder
    <3>2. Rank[p] \in Nat /\ ~(Rank[p] < Rank[p])
      BY RankAssumption, SMT
    <3> QED
      BY <1>3, <3>1, <3>2 DEF Ahead
  <2>2. \A c \in Ahead(s) : c = p
    BY <2>1 DEF Early
  <2>3. ~Waits(s)' /\ Ahead(s) \cap todo' = {}
    <3>1. ser'[p].since = 0 /\ ~(0 >= MinRecheck)
      BY <1>1, SucceedWrites, TimesAssumption, SMT
    <3> QED
      BY <1>1, <2>1, <2>2, <3>1, Zenon DEF Waits, Ahead
  <2>4. Work(s) = Left + 1 + IF queued THEN One(s) ELSE 0
    BY <1>1, <1>3, Names, WorkCases, Zenon
  <2>5. Work(s)' = IF queued THEN One(s) + 1 ELSE 1
    BY <1>1, <1>3, <2>3, WorkCasesNext, Zenon
  <2> QED
    BY <1>1, <2>4, <2>5, Names, SMT
<1> QED
  BY <1>2, <1>3

LEMMA WorkArrive ==
  ASSUME BaseInv, NEW s \in Symbol, Arrive
  PROVE  Work(s)' <= Work(s) + One(s)
<1>1. /\ TypeOK /\ at' = at /\ todo' = todo /\ slow' = slow /\ ~queued /\ queued'
      /\ idleFor' = idleFor /\ idleFor \in 0..RefreshEvery
      /\ Left' = Left /\ Left \in {0, 1}
      /\ at \in {"idle", "job", "sweep"} \cup Symbol
  BY Worked, Zenon DEF BaseInv, Arrive, Left
<1>2. Later(s)' = Later(s) /\ Later(s) = RefreshEvery - idleFor + One(s) + 1
  BY <1>1, Zenon DEF Later, One
<1> QED
  BY <1>1, <1>2, Names, WorkCases, WorkCasesNext, SMT

\* Time that passes without a job is time the worker works.
LEMMA WorkTick ==
  ASSUME TypeOK, NEW s \in Symbol, Tick
  PROVE  /\ at # "job" => Work(s)' + 1 <= Work(s)
         /\ Work(s)' <= Work(s)
<1>1. /\ at' = at /\ todo' = todo /\ queued' = queued /\ idleFor \in 0..RefreshEvery
      /\ idleFor' = Least(idleFor + 1, RefreshEvery)
  BY Worked, Zenon DEF Tick
<1>2. /\ idleFor' \in 0..RefreshEvery /\ idleFor' >= idleFor
      /\ idleFor < RefreshEvery => idleFor' = idleFor + 1
      /\ Later(s)' = RefreshEvery - idleFor' + One(s) + 1
      /\ Later(s) = RefreshEvery - idleFor + One(s) + 1
  <2>1. /\ Later(s)' = RefreshEvery - idleFor' + One(s) + 1
        /\ Later(s) = RefreshEvery - idleFor + One(s) + 1
    BY Zenon DEF Later, One
  <2>2. idleFor' = IF idleFor + 1 < RefreshEvery THEN idleFor + 1 ELSE RefreshEvery
    BY <1>1 DEF Least
  <2>3. /\ idleFor' \in 0..RefreshEvery /\ idleFor' >= idleFor
        /\ idleFor < RefreshEvery => idleFor' = idleFor + 1
    BY <1>1, <2>2, TimesAssumption, SMT
  <2> QED
    BY <2>1, <2>3, Zenon
<1>3. CASE at = "job"
  <2>1. Work(s) = Later(s) /\ Work(s)' = Later(s)'
    BY <1>1, <1>3, WorkCases, WorkCasesNext, Zenon
  <2> QED
    BY <1>1, <1>2, <1>3, <2>1, Names, SMT
<1>4. CASE at = "idle"
  <2>1. /\ idleFor < RefreshEvery
        /\ ~(idleFor = RefreshEvery)
    BY <1>1, <1>4, Names, SMT DEF Tick
  <2>2. Work(s) = Later(s) /\ Work(s)' \in {1, Later(s)'}
    BY <1>1, <1>4, <2>1, WorkCases, WorkCasesNext, Zenon
  <2> QED
    BY <1>1, <1>2, <2>1, <2>2, Names, SMT
<1>5. CASE at \in Symbol
  <2>1. ~slow /\ Left = 1 /\ Left' = 0 /\ at \notin {"idle", "job", "sweep"}
    BY <1>1, <1>5, Names, Zenon DEF Tick, Left
  <2>2. CASE at = s
    BY <1>1, <2>1, <2>2, WorkCases, WorkCasesNext, SMT
  <2>3. CASE at # s /\ s \notin todo
    BY <1>1, <2>1, <2>3, Names, WorkCases, WorkCasesNext, SMT
  <2>4. CASE at # s /\ s \in todo
    BY <1>1, <2>1, <2>4, Names, WorkCases, WorkCasesNext, SMT
  <2> QED
    BY <2>2, <2>3, <2>4
<1> QED
  BY <1>3, <1>4, <1>5, Zenon DEF Tick

-----------------------------------------------------------------------------
(* The bound.                                                              *)

LEMMA Waiting ==
  ASSUME TypeOK, NEW s \in Symbol
  PROVE  /\ Wait(s) \in Nat /\ Wait(s) >= RefreshEvery + One(s) + 1
         /\ After(s) \in Nat /\ After(s) >= 1 /\ After(s) <= Period(s)
<1>1. ser[s].came \in Nat /\ RefreshEvery \in Nat
  BY Counts, TimesAssumption
<1>2. CASE Ahead(s) = {}
  <2>1. Wait(s) = RefreshEvery + 1 + 0 /\ One(s) = 0
    BY <1>2, Zenon DEF Wait, One
  <2> QED
    BY <1>1, <2>1, Times, TimesAssumption, SMT DEF After
<1>3. CASE Ahead(s) # {}
  <2>1. Wait(s) = RefreshEvery + 1 + (1 + ser[s].came) /\ One(s) = 1
    BY <1>3, Zenon DEF Wait, One
  <2> QED
    BY <1>1, <2>1, Times, TimesAssumption, SMT DEF After
<1> QED
  BY <1>2, <1>3

\* A step that leaves the series and does not lengthen the worker's way to it.
LEMMA SoonSame ==
  ASSUME TypeOK, TypeOK', NEW s \in Symbol, Soon(s), ser'[s] = ser[s],
         Early(s) /\ Unread(s) /\ ser[s].since >= After(s) => Work(s)' <= Work(s)
  PROVE  Soon(s)'
<1> SUFFICES ASSUME Early(s), Unread(s)', ser'[s].since >= After(s)'
             PROVE  ser'[s].unasked + Work(s)' <= After(s)' + Wait(s)'
  BY Zenon DEF Soon, Early, Ahead
<1>1. Unread(s) /\ ser[s].since >= After(s) /\ After(s)' = After(s) /\ Wait(s)' = Wait(s)
  BY Zenon DEF Unread, After, Wait, Ahead
<1>2. ser[s].unasked + Work(s) <= After(s) + Wait(s) /\ Work(s)' <= Work(s)
  BY <1>1, Zenon DEF Soon
<1>3. Work(s)' \in Int
  BY WorkMost
<1>4. Work(s) \in Int
  BY WorkInt
<1>5. ser[s].unasked \in Nat /\ After(s) + Wait(s) \in Int
  BY Counts, Waiting, SMT
<1> QED
  BY <1>1, <1>2, <1>3, <1>4, <1>5, SMT

\* A series whose wait begins, or that has just become due, has the whole way
\* of the worker before it.
LEMMA SoonFromStart ==
  ASSUME TypeOK', NEW s \in Symbol,
         \/ ser'[s].unasked = 0
         \/ /\ ser'[s].unasked <= After(s)'
            /\ Work(s)' <= RefreshEvery + One(s) + 1
  PROVE  ser'[s].unasked + Work(s)' <= After(s)' + Wait(s)'
<1>1. /\ ser'[s].unasked \in Nat /\ ser'[s].came \in Nat /\ ser'[s] \in Series
      /\ After(s)' \in Nat /\ After(s)' >= 1
  <2>1. ser' \in [Symbol -> Series]
    BY Zenon DEF TypeOK
  <2>2. After(s)' \in {MinRecheck, Period(s)}
    BY Zenon DEF After
  <2>3. After(s)' \in Nat /\ After(s)' >= 1
    BY <2>2, Times, TimesAssumption, SMT
  <2> QED
    BY <2>1, <2>3, Zenon DEF Series
<1>2. Wait(s)' \in Nat /\ Wait(s)' >= RefreshEvery + One(s) + 1
  <2>1. CASE Ahead(s) = {}
    <3>1. Wait(s)' = RefreshEvery + 1 + 0 /\ One(s) = 0
      BY <2>1, Zenon DEF Wait, One, Ahead
    <3> QED
      BY <3>1, TimesAssumption, SMT
  <2>2. CASE Ahead(s) # {}
    <3>1. Wait(s)' = RefreshEvery + 1 + (1 + ser'[s].came) /\ One(s) = 1
      BY <2>2, Zenon DEF Wait, One, Ahead
    <3> QED
      BY <1>1, <3>1, TimesAssumption, SMT
  <2> QED
    BY <2>1, <2>2
<1>3. Work(s)' \in Int /\ Work(s)' <= RefreshEvery + One(s) + 2
  BY WorkMost
<1> QED
  BY <1>1, <1>2, <1>3, Names, SMT

LEMMA WorkPublish ==
  ASSUME TypeOK, NEW s \in Symbol, NEW p \in Symbol, Publish(p)
  PROVE  Work(s)' = Work(s)
<1>1. /\ at' = at /\ todo' = todo /\ slow' = slow /\ queued' = queued
      /\ idleFor' = idleFor
  BY Zenon DEF Publish
<1>2. \A x \in Symbol : ser'[x].since = ser[x].since
  BY PublishWrites, Zenon
<1>3. Waits(s)' <=> Waits(s)
  BY <1>2, Zenon DEF Waits, Ahead
<1>4. Left' = Left /\ Later(s)' = Later(s) /\ at \in {"idle", "job", "sweep"} \cup Symbol
  BY <1>1, Worked, Zenon DEF Left, Later, One
<1> QED
  BY <1>1, <1>3, <1>4, Names, WorkCases, WorkCasesNext, SMT

LEMMA SoonStep ==
  ASSUME Inv, [Next]_vars, NEW s \in Symbol
  PROVE  Soon(s)'
<1>0. BaseInv /\ TypeOK /\ TypeOK' /\ Checked(s) /\ Soon(s)
  BY TypeStep, Zenon DEF Inv, BaseInv
<1>e. Early(s)' <=> Early(s)
  BY DEF Early, Ahead
<1>1. CASE StartSweep
  <2>1. Early(s) /\ Unread(s) /\ ser[s].since >= After(s) => Work(s)' <= Work(s)
    BY <1>0, <1>1, DueWhenRested, WorkSweep
  <2>2. ser'[s] = ser[s]
    BY <1>1 DEF StartSweep
  <2> QED
    BY <1>0, <2>1, <2>2, SoonSame
<1>2. ASSUME NEW p \in Symbol, BeginIngest(p) PROVE Soon(s)'
  <2>1. Work(s)' <= Work(s) /\ ser'[s] = ser[s]
    BY <1>0, <1>2, WorkBegin, Zenon DEF BeginIngest
  <2> QED
    BY <1>0, <2>1, SoonSame
<1>3. CASE EndSweep
  <2>1. Work(s)' <= Work(s) /\ ser'[s] = ser[s]
    BY <1>0, <1>3, WorkEnd, Zenon DEF EndSweep
  <2> QED
    BY <1>0, <2>1, SoonSame
<1>4. CASE Claim \/ Handled
  <2>1. Work(s)' <= Work(s)
    BY <1>0, <1>4, WorkJob
  <2>2. ser'[s] = ser[s]
    BY <1>4, Zenon DEF Claim, Handled
  <2> QED
    BY <1>0, <2>1, <2>2, SoonSame
<1>5. ASSUME NEW p \in Symbol, Succeed(p) PROVE Soon(s)'
  <2>1. CASE p = s
    <3>1. ser'[s].unasked = 0
      BY <1>0, <1>5, <2>1, SucceedWrites
    <3> QED
      BY <1>0, <3>1, SoonFromStart, Zenon DEF Soon
  <2>2. CASE p # s
    <3>1. ser'[s] = ser[s]
      BY <1>0, <1>5, <2>2, SucceedWrites, Zenon
    <3>2. Early(s) => Work(s)' <= Work(s)
      BY <1>0, <1>5, <2>2, WorkSucceed
    <3> QED
      BY <1>0, <3>1, <3>2, SoonSame
  <2> QED
    BY <2>1, <2>2
<1>6. ASSUME NEW p \in Symbol, Fail(p) PROVE Soon(s)'
  <2>1. ser'[s].unasked = 0
    BY <1>0, <1>6, FailWrites
  <2> QED
    BY <1>0, <2>1, SoonFromStart, Zenon DEF Soon
<1>7. CASE Arrive
  <2> SUFFICES ASSUME Early(s)', Unread(s)', ser'[s].since >= After(s)'
               PROVE  ser'[s].unasked + Work(s)' <= After(s)' + Wait(s)'
    BY Zenon DEF Soon
  <2>1. /\ ser'[s].age = ser[s].age /\ ser'[s].venue = ser[s].venue
        /\ ser'[s].since = ser[s].since /\ ser'[s].prompt = ser[s].prompt
        /\ ser'[s].unasked = ser[s].unasked
        /\ ser'[s].came = IF Unread(s) /\ Ahead(s) # {} THEN ser[s].came + 1
                          ELSE ser[s].came
    BY <1>0, <1>7, ArriveWrites, Zenon
  <2>2. Unread(s) /\ After(s)' = After(s) /\ ser[s].since >= After(s)
    BY <2>1, Zenon DEF Unread, After
  <2>3. ser[s].unasked + Work(s) <= After(s) + Wait(s)
    BY <1>0, <1>e, <2>2, Zenon DEF Soon
  <2>4. Wait(s)' = Wait(s) + One(s)
    <3>1. ser[s].came \in Nat /\ RefreshEvery \in Nat
      BY <1>0, Counts, TimesAssumption
    <3>2. CASE Ahead(s) = {}
      <4>1. Wait(s)' = RefreshEvery + 1 + 0 /\ Wait(s) = RefreshEvery + 1 + 0 /\ One(s) = 0
        BY <3>2, Zenon DEF Wait, One, Ahead
      <4> QED
        BY <3>1, <4>1, SMT
    <3>3. CASE Ahead(s) # {}
      <4>1. /\ Wait(s)' = RefreshEvery + 1 + (1 + ser'[s].came)
            /\ Wait(s) = RefreshEvery + 1 + (1 + ser[s].came)
            /\ One(s) = 1 /\ ser'[s].came = ser[s].came + 1
        BY <2>1, <2>2, <3>3, Zenon DEF Wait, One, Ahead
      <4> QED
        BY <3>1, <4>1, SMT
    <3> QED
      BY <3>2, <3>3
  <2>5. Work(s)' <= Work(s) + One(s) /\ Work(s) \in Int /\ Work(s)' \in Int
    BY <1>0, <1>7, WorkArrive, WorkInt, WorkMost
  <2>6. ser[s].unasked \in Nat /\ After(s) \in Nat /\ Wait(s) \in Nat
    BY <1>0, Counts, Waiting
  <2> QED
    BY <2>1, <2>2, <2>3, <2>4, <2>5, <2>6, Names, SMT
<1>8. ASSUME NEW p \in Symbol, Publish(p) PROVE Soon(s)'
  <2>0. Work(s)' = Work(s) /\ Work(s) \in Int
    BY <1>0, <1>8, WorkPublish, WorkInt
  <2>1. CASE p # s
    <3>1. ser'[s] = ser[s]
      BY <1>0, <1>8, <2>1, PublishWrites, Zenon
    <3>2. Work(s)' <= Work(s)
      BY <2>0, SMT
    <3> QED
      BY <1>0, <3>1, <3>2, SoonSame
  <2>2. CASE p = s /\ ~Unread(s)
    <3>1. ser'[s].unasked = 0
      BY <1>0, <1>8, <2>2, PublishWrites, Zenon
    <3> QED
      BY <1>0, <3>1, SoonFromStart, Zenon DEF Soon
  <2>3. CASE p = s /\ Unread(s)
    <3> SUFFICES ASSUME Early(s)', Unread(s)', ser'[s].since >= After(s)'
                 PROVE  ser'[s].unasked + Work(s)' <= After(s)' + Wait(s)'
      BY Zenon DEF Soon
    <3>1. /\ ser'[s].since = ser[s].since /\ ser'[s].unasked = ser[s].unasked
          /\ ser'[s].came = ser[s].came /\ (ser'[s].prompt => ser[s].prompt)
      BY <1>0, <1>8, <2>3, PublishWrites, Zenon
    <3>2. Wait(s)' = Wait(s)
      BY <3>1, Zenon DEF Wait, Ahead
    <3>3. After(s)' = After(s) \/ (After(s) = MinRecheck /\ After(s)' = Period(s))
      BY <3>1, Zenon DEF After
    <3>4. /\ After(s) \in Nat /\ After(s)' \in Nat /\ After(s) <= After(s)'
          /\ ser[s].since \in Nat /\ ser[s].unasked \in Nat /\ Wait(s) \in Nat
      <4>1. After(s) \in Nat /\ Wait(s) \in Nat /\ ser[s].since \in Nat /\ ser[s].unasked \in Nat
        BY <1>0, Waiting, Counts
      <4> QED
        BY <3>3, <4>1, Times, TimesAssumption, SMT
    <3>5. ser[s].since >= After(s)
      BY <3>1, <3>4, SMT
    <3>6. ser[s].unasked + Work(s) <= After(s) + Wait(s)
      BY <1>0, <1>e, <2>3, <3>5, Zenon DEF Soon
    <3> QED
      BY <2>0, <3>1, <3>2, <3>4, <3>6, SMT
  <2> QED
    BY <2>1, <2>2, <2>3
<1>9. CASE Tick
  <2> SUFFICES ASSUME Early(s)', Unread(s)', ser'[s].since >= After(s)'
               PROVE  ser'[s].unasked + Work(s)' <= After(s)' + Wait(s)'
    BY Zenon DEF Soon
  <2>1. Unread(s)
    BY <1>0, <1>9, ReadStays
  <2>2. /\ ser'[s].since = Least(ser[s].since + 1, Period(s))
        /\ ser'[s].prompt = ser[s].prompt /\ ser'[s].came = ser[s].came
        /\ ser'[s].unasked = IF at # "job" THEN Least(ser[s].unasked + 1, Patience(s))
                             ELSE ser[s].unasked
    BY <1>0, <1>9, <2>1, TickWrites, Zenon
  <2>3. After(s)' = After(s) /\ Wait(s)' = Wait(s)
    BY <2>2, Zenon DEF After, Wait, Ahead
  <2>4. /\ ser[s].since \in Nat /\ ser[s].unasked \in Nat /\ ser[s].since <= Period(s)
        /\ After(s) \in Nat /\ After(s) <= Period(s) /\ Wait(s) \in Nat
        /\ Work(s) \in Int /\ Work(s)' \in Int
    BY <1>0, Counts, Waiting, WorkInt, WorkMost, Zenon DEF InRange
  <2>5. Least(ser[s].unasked + 1, Patience(s)) <= ser[s].unasked + 1
        /\ Least(ser[s].unasked + 1, Patience(s)) \in Nat
    BY <2>4, Times, SMT DEF Least
  <2>6. CASE ser[s].since >= After(s)
    <3>1. ser[s].unasked + Work(s) <= After(s) + Wait(s)
      BY <1>0, <1>e, <2>1, <2>6, Zenon DEF Soon
    <3>2. /\ at # "job" => Work(s)' + 1 <= Work(s)
          /\ Work(s)' <= Work(s)
      BY <1>0, <1>9, WorkTick
    <3>3. CASE at = "job"
      BY <2>2, <2>3, <2>4, <3>1, <3>2, <3>3, SMT
    <3>4. CASE at # "job"
      <4>1. ser'[s].unasked <= ser[s].unasked + 1 /\ ser'[s].unasked \in Nat
        BY <2>2, <2>5, <3>4
      <4> QED
        BY <2>3, <2>4, <3>1, <3>2, <3>4, <4>1, SMT
    <3> QED
      BY <3>3, <3>4
  <2>7. CASE ~(ser[s].since >= After(s))
    <3>1. ser[s].since + 1 <= After(s) /\ ser[s].since # Period(s)
      BY <2>4, <2>7, SMT
    <3>2. ser[s].unasked <= ser[s].since
      BY <1>0, <2>1, <3>1, Zenon DEF Checked
    <3>3. ser'[s].unasked <= After(s)'
      <4>1. CASE at = "job"
        BY <2>2, <2>3, <2>4, <3>1, <3>2, <4>1, SMT
      <4>2. CASE at # "job"
        <5>1. ser'[s].unasked <= ser[s].unasked + 1 /\ ser'[s].unasked \in Nat
          BY <2>2, <2>5, <4>2
        <5> QED
          BY <2>3, <2>4, <3>1, <3>2, <5>1, SMT
      <4> QED
        BY <4>1, <4>2
    <3>4. slow' \/ at' = "job" \/ at' = "idle"
      BY <1>9, Zenon DEF Tick
    <3>5. Work(s)' <= RefreshEvery + One(s) + 1
      BY <1>0, <3>4, WorkMost
    <3> QED
      BY <1>0, <3>3, <3>5, SoonFromStart
  <2> QED
    BY <2>6, <2>7
<1>10. CASE UNCHANGED vars
  <2>1. UNCHANGED <<ser, at, todo, slow, idleFor, queued>>
    BY <1>10 DEF vars
  <2> QED
    BY <1>0, <2>1, Zenon DEF Soon, Early, Ahead, Unread, After, Wait, Work, Left, Later, One, Waits
<1> QED
  BY <1>1, <1>2, <1>3, <1>4, <1>5, <1>6, <1>7, <1>8, <1>9, <1>10, Zenon DEF Next, Worker

-----------------------------------------------------------------------------
(* The theorems.                                                           *)

\* The refresher's types, for any series, times and number of jobs.
THEOREM RefreshTyped == Spec => []TypeOK
<1>1. Init => TypeOK
  BY BaseInit DEF BaseInv
<1>2. TypeOK /\ [Next]_vars => TypeOK'
  BY TypeStep
<1> QED
  BY <1>1, <1>2, PTL DEF Spec

\* The bounds in inductive form: what an unread bar has waited and the ticks the
\* worker may still take before it asks stay within them, wherever it is.
THEOREM InvHolds == Spec => []Inv
<1>1. Init => Inv
  <2> SUFFICES ASSUME Init PROVE Inv
    OBVIOUS
  <2>1. ASSUME NEW s \in Symbol PROVE ~Unread(s)
    <3>1. Fresh(s).venue = Step[s] /\ Fresh(s).age = Step[s] /\ ser[s] = Fresh(s)
      BY Zenon DEF Init, Fresh
    <3>2. ~(Step[s] < Step[s])
      BY Times, SMT
    <3> QED
      BY <3>1, <3>2, Zenon DEF Unread
  <2> QED
    BY <2>1, BaseInit, Zenon DEF Inv, Soon
<1>2. Inv /\ [Next]_vars => Inv'
  BY BaseStep, SoonStep DEF Inv
<1> QED
  BY <1>1, <1>2, PTL DEF Spec

\* Before its last check is old enough, a bar is not unasked for longer than
\* that; from then on, for no longer than the worker's way to it.
LEMMA WithinAfter ==
  ASSUME Inv, NEW s \in Symbol, Early(s), Unread(s)
  PROVE  ser[s].unasked <= After(s) + Wait(s)
<1>0. TypeOK /\ Checked(s) /\ Soon(s)
  BY DEF Inv, BaseInv
<1>1. /\ ser[s].since \in Nat /\ ser[s].unasked \in Nat /\ After(s) \in Nat
      /\ After(s) <= Period(s) /\ Wait(s) \in Nat /\ Work(s) \in Int
  BY <1>0, Counts, Waiting, WorkInt
<1>2. CASE ser[s].since >= After(s)
  <2>1. ser[s].unasked + Work(s) <= After(s) + Wait(s)
    BY <1>0, <1>2 DEF Soon
  <2>2. Work(s) >= 0
    BY <1>0, WorkInt
  <2> QED
    BY <1>1, <2>1, <2>2, SMT
<1>3. CASE ~(ser[s].since >= After(s))
  <2>1. ser[s].since < After(s) /\ ser[s].since # Period(s)
    BY <1>1, <1>3, Times, SMT
  <2>2. ser[s].unasked <= ser[s].since
    BY <1>0, <2>1, Zenon DEF Checked
  <2> QED
    BY <1>1, <2>1, <2>2, SMT
<1> QED
  BY <1>2, <1>3

\* A bar the venue published in time is asked for within MinRecheck, the time
\* between two sweeps and two slow fetches, one of them once more for each job,
\* if at most one series goes first: for any number of series and any periods.
THEOREM PromptBarsWait == Spec => []PromptBarsAskedSoon
<1>1. Inv => PromptBarsAskedSoon
  BY WithinAfter, Zenon DEF PromptBarsAskedSoon, After
<1> QED
  BY <1>1, InvHolds, PTL

\* Any other bar, the first after a closed market included, is asked for within
\* a bar period and the same wait.
THEOREM ReopeningsWait == Spec => []ReopeningAskedWithinABar
<1>1. Inv => ReopeningAskedWithinABar
  <2> SUFFICES ASSUME Inv, NEW s \in Symbol, Early(s), Unread(s)
               PROVE  ser[s].unasked <= Period(s) + Wait(s)
    BY DEF ReopeningAskedWithinABar
  <2>1. TypeOK
    BY DEF Inv, BaseInv
  <2>2. ser[s].unasked <= After(s) + Wait(s)
    BY WithinAfter
  <2>3. /\ ser[s].unasked \in Nat /\ After(s) \in Nat /\ After(s) <= Period(s)
        /\ Wait(s) \in Nat /\ Period(s) \in Nat
    BY <2>1, Counts, Waiting, Times
  <2> QED
    BY <2>2, <2>3, SMT
<1> QED
  BY <1>1, InvHolds, PTL
=============================================================================

---------------------------- MODULE IngestProofs ----------------------------
(***************************************************************************)
(* What holds of Ingest for any floors, clock, quiet slots and limits of   *)
(* a source: its types, for any number of processes; and, when one process *)
(* ingests at a time, that only answers cut off leave holes, and none if   *)
(* the limits are never reached; that audited bars stay; and that a price  *)
(* read too early is found at the seam.                                    *)
(***************************************************************************)
EXTENDS Ingest, WellFoundedInduction, TLAPS

OneAtATime == \A p, q \in Process : p = q

\* Functions from some slots.
Partial(S) == UNION {[D -> S] : D \in SUBSET Slot}

Stages == {"idle", "started", "fetched", "merged", "judged", "written", "evented", "audited"}

Local == [stage : Stages, since : Since \cup {None}, start : Nat \cup {None},
          held : SUBSET Slot, full : BOOLEAN, fresh : Partial(Slot),
          forming : SUBSET Slot, stored : Partial(Slot)]

(* TypeOK, with what it needs of the local variables.                      *)
TypeInv ==
  /\ clock \in Slot
  /\ bars \in Partial(RowAt)
  /\ series \in Partial(Slot) \cup {None}
  /\ pending \in [Process -> Partial(RowAt)]
  /\ ingest \in [Process -> Local]
  /\ cut \subseteq Slot
  /\ \A p \in Process :
       /\ ingest[p].forming \subseteq DOMAIN ingest[p].fresh
       /\ ~At(p, "judged") /\ ~At(p, "written") /\ ~At(p, "evented") /\ ~At(p, "audited")
            => ingest[p].forming = {}
       /\ ~At(p, "idle") => ingest[p].since \in Since /\ ingest[p].start \in Nat
       /\ pending[p] # Empty =>
            At(p, "written") \/ At(p, "audited") \/ (At(p, "idle") /\ p \in Keeps)

-----------------------------------------------------------------------------
(* One process at a time.                                                  *)

\* Nothing the venue has is missing between the ends of S, but what was cut off.
Covers(S) == \A b \in Traded \ S : (\E i, j \in S : i < b /\ b < j) => b \in cut

\* A bar of S that the next fetch reads again, is asked to leave out, or cannot get.
AtSeam(b, S) == b \in cut \/ b + 1 \in Since \/ \A x \in S : x <= b + 1

Unfinished(rows) == {b \in DOMAIN rows : rows[b].readAt <= b}

\* What holds of the committed rows, and of the rows a process sees.
Sound(rows) ==
  /\ DOMAIN rows \subseteq Traded
  /\ \A b \in DOMAIN rows : b <= clock
  /\ Covers(DOMAIN rows)
  /\ \A b \in Complete(rows) : b < clock
  /\ \A b \in Unfinished(rows) : AtSeam(b, DOMAIN rows)

\* The rows as they will be once what was fetched is written.
Joined(p) == DOMAIN bars \cup DOMAIN ingest[p].fresh

\* Until it writes, a process has seen all bars there are.
SeesAll(p) ==
  At(p, "started") \/ At(p, "fetched") \/ At(p, "merged") \/ At(p, "judged")
    => ingest[p].held = DOMAIN bars

\* An ingest starts where a bar is held: at a floor, or before the newest bar;
\* one that is not a full refresh starts no earlier than that.
StartsInside(p) ==
  At(p, "started") \/ At(p, "fetched") =>
    /\ DOMAIN bars # {} => \E b \in DOMAIN bars : ingest[p].start <= b
    /\ ingest[p].start \in Since \/ \E b \in DOMAIN bars : ingest[p].start < b
    /\ ~ingest[p].full => \A b \in DOMAIN bars : b - 1 <= ingest[p].start

\* What was fetched was served, and joins what is held.
Fetched(p) ==
  At(p, "fetched") \/ At(p, "merged") \/ At(p, "judged") =>
    /\ DOMAIN ingest[p].fresh \subseteq Traded
    /\ \A b \in DOMAIN ingest[p].fresh : b <= clock
    /\ Covers(Joined(p))
    /\ \A b \in Unfinished(bars) : b \in DOMAIN ingest[p].fresh \/ AtSeam(b, Joined(p))
    /\ \A b \in DOMAIN ingest[p].fresh : ingest[p].fresh[b] <= b => AtSeam(b, Joined(p))

\* One fetch: everything held or served is no later than its reading.
OneReading(p) ==
  At(p, "fetched") =>
    /\ \A b \in DOMAIN ingest[p].fresh : \A x \in Joined(p) : x <= ingest[p].fresh[b]
    /\ \A b \in DOMAIN ingest[p].fresh : ingest[p].start <= b

\* No settled bar is written as a forming one, and no forming one as settled.
Judged(p) ==
  At(p, "judged") =>
    /\ ingest[p].forming \cap Complete(bars) = {}
    /\ \A b \in DOMAIN ingest[p].fresh \ ingest[p].forming : b < clock

\* The recorded audit, and the one about to be recorded.
Audited(p) ==
  /\ series # None => DOMAIN series \subseteq Complete(bars)
  /\ Complete(bars) \subseteq Complete(View(p))
  /\ At(p, "audited") => DOMAIN ingest[p].stored \subseteq Complete(View(p))

OneInv(p) ==
  /\ Sound(View(p)) /\ SeesAll(p) /\ StartsInside(p) /\ Fetched(p) /\ OneReading(p)
  /\ Judged(p) /\ Audited(p)

SeriesInv == TypeInv /\ Sound(bars) /\ \A p \in Process : OneInv(p)

-----------------------------------------------------------------------------
(* Bounded sets of naturals, and functions from slots.                     *)

LEMMA LeastOf ==
  ASSUME NEW S \in SUBSET Nat, S # {}
  PROVE  Min(S) \in S /\ \A x \in S : Min(S) <= x
<1>1. PICK m \in S : \A x \in S : ~(<<x, m>> \in OpToRel(<, Nat))
  BY WFMin, NatLessThanWellFounded
<1>2. ASSUME NEW x \in S PROVE m <= x
  <2>1. ~(<<x, m>> \in OpToRel(<, Nat))
    BY <1>1
  <2>2. x \in Nat /\ m \in Nat
    OBVIOUS
  <2>3. ~(x < m)
    BY <2>1, <2>2 DEF OpToRel
  <2> QED
    BY <2>2, <2>3
<1> QED
  BY <1>2 DEF Min

LEMMA GreatestOf ==
  ASSUME NEW n \in Nat, NEW S \in SUBSET (0..n), S # {}
  PROVE  Max(S) \in S /\ \A x \in S : x <= Max(S)
<1> DEFINE Up == {n - x : x \in S}
<1>1. PICK z \in S : TRUE
  OBVIOUS
<1>2. Up \in SUBSET Nat /\ n - z \in Up
  OBVIOUS
<1>3. Min(Up) \in Up /\ \A y \in Up : Min(Up) <= y
  <2> HIDE DEF Up
  <2> QED BY <1>2, LeastOf
<1>4. PICK m \in S : n - m = Min(Up)
  BY <1>3
<1>5. ASSUME NEW x \in S PROVE x <= m
  <2>1. n - x \in Up
    OBVIOUS
  <2>2. n - m <= n - x
    <3> HIDE DEF Up
    <3> QED
      BY <2>1, <1>3, <1>4
  <2> HIDE DEF Up
  <2> QED
    BY <2>2
<1> QED
  BY <1>5 DEF Max

LEMMA PartialMeans ==
  ASSUME NEW S, NEW f
  PROVE  f \in Partial(S) <=> DOMAIN f \subseteq Slot /\ f \in [DOMAIN f -> S]
  BY DEF Partial

LEMMA EmptyPartial ==
  ASSUME NEW S
  PROVE  Empty \in Partial(S) /\ DOMAIN Empty = {}
  BY PartialMeans DEF Empty

LEMMA MergeMeans ==
  ASSUME NEW old, NEW new
  PROVE  /\ DOMAIN Merge(old, new) = DOMAIN old \cup DOMAIN new
         /\ \A b \in DOMAIN new : Merge(old, new)[b] = new[b]
         /\ \A b \in DOMAIN old : b \notin DOMAIN new => Merge(old, new)[b] = old[b]
  BY DEF Merge

LEMMA MergePartial ==
  ASSUME NEW S, NEW old \in Partial(S), NEW new \in Partial(S)
  PROVE  Merge(old, new) \in Partial(S)
<1>0. old \in [DOMAIN old -> S] /\ new \in [DOMAIN new -> S]
  BY PartialMeans
<1>1. ASSUME NEW b \in DOMAIN Merge(old, new) PROVE Merge(old, new)[b] \in S
  <2>1. CASE b \in DOMAIN new
    BY <2>1, <1>0 DEF Merge
  <2>2. CASE b \in DOMAIN old /\ b \notin DOMAIN new
    BY <2>2, <1>0 DEF Merge
  <2> QED
    BY <2>1, <2>2, MergeMeans
<1>2. DOMAIN Merge(old, new) \subseteq Slot
  <2>1. DOMAIN old \subseteq Slot /\ DOMAIN new \subseteq Slot
    BY PartialMeans
  <2> QED
    BY <2>1 DEF Merge
<1>3. Merge(old, new) \in [DOMAIN Merge(old, new) -> S]
  BY <1>1 DEF Merge
<1> QED
  BY <1>2, <1>3, PartialMeans

(* Merging rows into none at all, and none into some.                      *)
LEMMA MergeEmpty ==
  ASSUME NEW S, NEW f \in Partial(S)
  PROVE  Merge(f, Empty) = f /\ Merge(Empty, f) = f
<1>1. f = [b \in DOMAIN f |-> f[b]]
  BY PartialMeans
<1> QED
  BY <1>1 DEF Merge, Empty

LEMMA ReadPartial ==
  ASSUME NEW rows \in Partial(RowAt)
  PROVE  Complete(rows) \subseteq Slot /\ Stored(rows) \in Partial(Slot)
         /\ DOMAIN Stored(rows) = Complete(rows)
<1>1. Complete(rows) \subseteq DOMAIN rows /\ DOMAIN rows \subseteq Slot
  BY PartialMeans DEF Complete
<1>2. \A b \in DOMAIN rows : rows[b].readAt \in Slot
  <2>1. rows \in [DOMAIN rows -> RowAt]
    BY PartialMeans
  <2> QED
    BY <2>1 DEF RowAt
<1>3. Stored(rows) \in [Complete(rows) -> Slot]
  BY <1>1, <1>2 DEF Stored
<1> QED
  BY <1>1, <1>3, PartialMeans

(* An answer is of bars that were asked for, read at the clock's slot.     *)
LEMMA AnswerMeans ==
  ASSUME NEW from, NEW upto, NEW newest, NEW answer \in Answers(from, upto, newest)
  PROVE  /\ \A b \in answer : b \in Traded /\ from <= b /\ b <= upto /\ b <= newest
         /\ answer \subseteq Asked(from, upto, newest)
  BY DEF Answers, Asked

LEMMA AskedMeans ==
  ASSUME NEW from, NEW upto, NEW newest
  PROVE  \A b : b \in Asked(from, upto, newest)
                   <=> b \in Traded /\ from <= b /\ b <= upto /\ b <= newest
  BY DEF Asked

LEMMA ReadMeans ==
  ASSUME NEW slots
  PROVE  DOMAIN Read(slots) = slots /\ \A b \in slots : Read(slots)[b] = clock
  BY DEF Read

LEMMA PublishedMeans ==
  ASSUME clock \in Slot, NEW held \in SUBSET Slot, NEW newest \in MayHavePublished(held)
  PROVE  /\ newest \in Int /\ newest <= clock
         /\ newest = -1 \/ \A b \in held : b <= newest
<1>1. LastClock \in Nat /\ held \cup {0} \in SUBSET (0..LastClock) /\ held \cup {0} # {}
  BY IngestAssumption DEF Slot
<1>2. Max(held \cup {0}) \in 0..LastClock /\ \A x \in held : x <= Max(held \cup {0})
  BY <1>1, GreatestOf
<1> QED
  BY <1>1, <1>2 DEF MayHavePublished, Slot

LEMMA AskedSlots ==
  ASSUME clock \in Slot, NEW held \in SUBSET Slot, NEW newest \in MayHavePublished(held),
         NEW from, NEW upto
  PROVE  Asked(from, upto, newest) \subseteq Slot
<1>1. clock \in Nat /\ clock <= LastClock /\ Traded \subseteq Nat /\ LastClock \in Nat
  BY IngestAssumption DEF Slot
<1>2. newest \in Int /\ newest <= clock
  BY PublishedMeans
<1>3. ASSUME NEW b \in Asked(from, upto, newest) PROVE b \in Slot
  <2>1. b \in Nat /\ b <= newest
    BY <1>1, AskedMeans
  <2> QED
    BY <2>1, <1>1, <1>2 DEF Slot
<1> QED
  BY <1>3

LEMMA AnswerPartial ==
  ASSUME clock \in Slot, NEW held \in SUBSET Slot, NEW newest \in MayHavePublished(held),
         NEW from, NEW upto, NEW answer \in Answers(from, upto, newest)
  PROVE  Read(answer) \in Partial(Slot)
<1>1. answer \subseteq Slot
  BY AnswerMeans, AskedSlots
<1>2. Read(answer) \in [answer -> Slot]
  BY DEF Read
<1> QED
  BY <1>1, <1>2, PartialMeans

-----------------------------------------------------------------------------
(* Types, for any number of processes.                                     *)

LEMMA TypeInit == Init => TypeInv
<1> SUFFICES ASSUME Init PROVE TypeInv
  OBVIOUS
<1>1. clock \in Slot
  BY IngestAssumption DEF Init, Slot
<1>2. \A S : Empty \in Partial(S)
  BY EmptyPartial
<1>3. Idle \in Local
  BY <1>2 DEF Idle, Local, Stages
<1>4. pending \in [Process -> Partial(RowAt)] /\ ingest \in [Process -> Local]
  BY <1>2, <1>3 DEF Init
<1> QED
  BY <1>1, <1>2, <1>4, EmptyPartial DEF Init, TypeInv, Idle, At

(* A step of p keeps the types if it keeps those of p.                     *)
LEMMA TypeOfOne ==
  ASSUME TypeInv, NEW p \in Process, NEW i \in Local, NEW rows \in Partial(RowAt),
         UNCHANGED clock, cut' \subseteq Slot,
         bars' \in Partial(RowAt), series' \in Partial(Slot) \cup {None},
         ingest' = [ingest EXCEPT ![p] = i],
         pending' = [pending EXCEPT ![p] = rows],
         i.forming \subseteq DOMAIN i.fresh,
         i.stage \notin {"judged", "written", "evented", "audited"} => i.forming = {},
         i.stage # "idle" => i.since \in Since /\ i.start \in Nat,
         rows # Empty => \/ i.stage \in {"written", "audited"}
                         \/ i.stage = "idle" /\ p \in Keeps
  PROVE  TypeInv'
<1>1. ingest' \in [Process -> Local] /\ pending' \in [Process -> Partial(RowAt)]
  BY DEF TypeInv
<1>2. ASSUME NEW q \in Process
      PROVE  /\ ingest[q]'.forming \subseteq DOMAIN ingest[q]'.fresh
             /\ ~At(q, "judged")' /\ ~At(q, "written")' /\ ~At(q, "evented")' /\ ~At(q, "audited")'
                  => ingest[q]'.forming = {}
             /\ ~At(q, "idle")' => ingest[q]'.since \in Since /\ ingest[q]'.start \in Nat
             /\ pending[q]' # Empty =>
                  At(q, "written")' \/ At(q, "audited")' \/ (At(q, "idle")' /\ q \in Keeps)
  <2>1. CASE q = p
    BY <2>1 DEF TypeInv, At
  <2>2. CASE q # p
    <3>1. ingest[q]' = ingest[q] /\ pending[q]' = pending[q]
      BY <2>2 DEF TypeInv
    <3> QED
      BY <3>1 DEF TypeInv, At
  <2> QED
    BY <2>1, <2>2
<1> QED
  BY <1>1, <1>2 DEF TypeInv

LEMMA TypeStart ==
  ASSUME TypeInv, NEW p \in Process, NEW since \in Since, NEW full \in BOOLEAN,
         Start(p, since, full)
  PROVE  TypeInv'
<1> DEFINE held == DOMAIN View(p)
           i == [Idle EXCEPT !.stage = "started", !.since = since,
                             !.start = IF full THEN since ELSE Resume(held, since),
                             !.held = held, !.full = full]
<1>1. since \in Nat
  BY IngestAssumption
<1>2. held \in SUBSET Slot
  BY MergePartial, PartialMeans DEF TypeInv, View
<1>3. Resume(held, since) \in Nat
  <2>1. CASE held = {}
    BY <2>1, <1>1 DEF Resume
  <2>2. CASE held # {}
    <3>1. Max(held) \in Slot
      BY <2>2, <1>2, GreatestOf, IngestAssumption DEF Slot
    <3> QED
      BY <3>1, <1>1 DEF Resume, Newest, Slot
  <2> QED
    BY <2>1, <2>2
<1>4. i \in Local /\ i.forming = {} /\ i.stage = "started" /\ i.since = since /\ i.start \in Nat
  <2> HIDE DEF held
  <2> QED
    BY <1>1, <1>2, <1>3, EmptyPartial DEF Idle, Local, Stages
<1>5. ingest' = [ingest EXCEPT ![p] = i] /\ pending' = [pending EXCEPT ![p] = Empty]
  BY DEF Start, TypeInv
<1>6. /\ UNCHANGED clock /\ cut' \subseteq Slot
      /\ bars' \in Partial(RowAt) /\ series' \in Partial(Slot) \cup {None}
      /\ i.since \in Since
  BY <1>4 DEF Start, TypeInv
<1> HIDE DEF i
<1> QED
  BY <1>4, <1>5, <1>6, TypeOfOne, EmptyPartial

LEMMA TypeFetches ==
  ASSUME TypeInv, NEW p \in Process, Fetch(p) \/ FetchHead(p)
  PROVE  TypeInv'
<1>1. ingest[p] \in Local /\ clock \in Slot /\ ingest[p].held \in SUBSET Slot
      /\ ingest[p].fresh \in Partial(Slot)
  BY DEF TypeInv, Local
<1>2. PICK stage \in {"fetched", "merged"}, fresh \in Partial(Slot) :
        /\ ingest' = [ingest EXCEPT ![p].stage = stage, ![p].fresh = fresh]
        /\ cut' \subseteq Slot
  <2>1. CASE Fetch(p)
    <3>1. PICK newest \in MayHavePublished(ingest[p].held) :
            \E answer \in Answers(ingest[p].start, clock, newest) :
              /\ ingest' = [ingest EXCEPT ![p].stage = "fetched", ![p].fresh = Read(answer)]
              /\ cut' = cut \cup (Asked(ingest[p].start, clock, newest) \ answer)
      BY <2>1 DEF Fetch
    <3>2. cut' \subseteq Slot
      BY <1>1, <3>1, AskedSlots DEF TypeInv
    <3> QED
      BY <1>1, <3>1, <3>2, AnswerPartial
  <2>2. CASE FetchHead(p) /\ HeadMissing(p)
    <3>1. PICK newest \in MayHavePublished(ingest[p].held) :
            \E answer \in Answers(ingest[p].since, Oldest(ingest[p].held) + 1, newest) :
              /\ ingest' = [ingest EXCEPT ![p].stage = "merged",
                                          ![p].fresh = Merge(Read(answer), @)]
              /\ cut' = cut \cup
                   (Asked(ingest[p].since, Oldest(ingest[p].held) + 1, newest) \ answer)
      BY <2>2 DEF FetchHead, HeadUpTo
    <3>2. cut' \subseteq Slot
      BY <1>1, <3>1, AskedSlots DEF TypeInv
    <3>3. PICK answer \in Answers(ingest[p].since, Oldest(ingest[p].held) + 1, newest) :
            ingest' = [ingest EXCEPT ![p].stage = "merged",
                                     ![p].fresh = Merge(Read(answer), ingest[p].fresh)]
      BY <3>1 DEF TypeInv
    <3>4. Merge(Read(answer), ingest[p].fresh) \in Partial(Slot)
      BY <1>1, AnswerPartial, MergePartial
    <3> QED
      BY <3>2, <3>3, <3>4
  <2>3. CASE FetchHead(p) /\ ~HeadMissing(p)
    <3>1. ingest' = [ingest EXCEPT ![p].stage = "merged"] /\ cut' = cut
      BY <2>3 DEF FetchHead, SkipHead
    <3>2. ingest' = [ingest EXCEPT ![p].stage = "merged", ![p].fresh = ingest[p].fresh]
      BY <3>1 DEF TypeInv, Local
    <3> QED
      BY <1>1, <3>1, <3>2 DEF TypeInv
  <2> QED
    BY <2>1, <2>2, <2>3
<1> DEFINE i == [ingest[p] EXCEPT !.stage = stage, !.fresh = fresh]
<1>3. i \in Local /\ i.forming = ingest[p].forming /\ i.stage = stage /\ i.fresh = fresh
      /\ i.since = ingest[p].since /\ i.start = ingest[p].start
  BY <1>1 DEF Local, Stages
<1>4. ingest[p].forming = {} /\ pending[p] = Empty /\ i.since \in Since /\ i.start \in Nat
  BY <1>3 DEF TypeInv, Fetch, FetchHead, At
<1>5. ingest' = [ingest EXCEPT ![p] = i]
  BY <1>2 DEF TypeInv
<1>6. pending' = [pending EXCEPT ![p] = Empty]
  BY <1>4 DEF Fetch, FetchHead, TypeInv
<1>7. UNCHANGED clock /\ cut' \subseteq Slot /\ bars' \in Partial(RowAt) /\ series' \in Partial(Slot) \cup {None}
  BY <1>2 DEF Fetch, FetchHead, TypeInv
<1> HIDE DEF i
<1>8. i.forming = {} /\ i.forming \subseteq DOMAIN i.fresh
  BY <1>3, <1>4
<1> QED
  BY <1>3, <1>4, <1>5, <1>6, <1>7, <1>8, TypeOfOne, EmptyPartial

LEMMA TypeJudge ==
  ASSUME TypeInv, NEW p \in Process, Judge(p)
  PROVE  TypeInv'
<1> DEFINE slots == DOMAIN ingest[p].fresh
           late == {b \in slots : b = Newest(slots) /\ b >= clock}
           i == [ingest[p] EXCEPT !.stage = "judged", !.forming = late]
<1>1. ingest[p] \in Local /\ ingest[p].fresh \in Partial(Slot) /\ slots \subseteq Slot
  BY PartialMeans DEF TypeInv, Local
<1>2. i \in Local /\ i.forming = late /\ i.stage = "judged" /\ i.fresh = ingest[p].fresh
      /\ i.since = ingest[p].since /\ i.start = ingest[p].start
  <2>1. late \in SUBSET Slot
    BY <1>1
  <2> HIDE DEF late
  <2> QED
    BY <1>1, <2>1 DEF Local, Stages
<1>3. pending[p] = Empty /\ i.since \in Since /\ i.start \in Nat
  BY <1>2 DEF TypeInv, Judge, At
<1>4. ingest' = [ingest EXCEPT ![p] = i] /\ pending' = [pending EXCEPT ![p] = Empty]
  BY <1>3 DEF TypeInv, Judge
<1>5. late \subseteq DOMAIN i.fresh
  BY <1>2
<1>6. /\ UNCHANGED clock /\ cut' \subseteq Slot
      /\ bars' \in Partial(RowAt) /\ series' \in Partial(Slot) \cup {None}
  BY DEF Judge, TypeInv
<1> HIDE DEF i, late
<1>7. i \in Local /\ i.stage = "judged" /\ i.since \in Since /\ i.start \in Nat
      /\ i.forming \subseteq DOMAIN i.fresh
  BY <1>2, <1>3, <1>5
<1> QED
  BY <1>4, <1>6, <1>7, TypeOfOne, EmptyPartial

\* The rows that Write adds.
Rows(i) == [b \in DOMAIN i.fresh |-> [readAt |-> i.fresh[b], partial |-> b \in i.forming]]

LEMMA RowsPartial ==
  ASSUME NEW i \in Local
  PROVE  Rows(i) \in Partial(RowAt) /\ DOMAIN Rows(i) = DOMAIN i.fresh
<1>1. i.fresh \in Partial(Slot)
  BY DEF Local
<1>2. DOMAIN i.fresh \subseteq Slot /\ \A b \in DOMAIN i.fresh : i.fresh[b] \in Slot
  BY <1>1, PartialMeans
<1>3. Rows(i) \in [DOMAIN i.fresh -> RowAt] /\ DOMAIN Rows(i) = DOMAIN i.fresh
  BY <1>2 DEF Rows, RowAt
<1> QED
  BY <1>2, <1>3, PartialMeans

LEMMA TypeWrite ==
  ASSUME TypeInv, NEW p \in Process, Write(p)
  PROVE  TypeInv'
<1> DEFINE i == [ingest[p] EXCEPT !.stage = "written"]
           rows == Merge(pending[p], Rows(ingest[p]))
<1>1. ingest[p] \in Local /\ pending[p] \in Partial(RowAt)
  BY DEF TypeInv
<1>2. i \in Local /\ i.stage = "written" /\ i.forming = ingest[p].forming
      /\ i.fresh = ingest[p].fresh /\ i.since = ingest[p].since /\ i.start = ingest[p].start
  BY <1>1 DEF Local, Stages
<1>3. rows \in Partial(RowAt)
  BY <1>1, RowsPartial, MergePartial
<1>4. ingest' = [ingest EXCEPT ![p] = i] /\ pending' = [pending EXCEPT ![p] = rows]
  BY DEF TypeInv, Write, Rows
<1>5. i.since \in Since /\ i.start \in Nat /\ i.forming \subseteq DOMAIN i.fresh
  BY <1>2 DEF TypeInv, Write, At
<1>6. UNCHANGED clock /\ cut' \subseteq Slot /\ bars' \in Partial(RowAt) /\ series' \in Partial(Slot) \cup {None}
  BY DEF Write, TypeInv
<1> HIDE DEF i, rows
<1> QED
  BY <1>2, <1>3, <1>4, <1>5, <1>6, TypeOfOne

LEMMA IdlePartial == Idle \in Local /\ Idle.forming = {} /\ Idle.stage = "idle"
  BY EmptyPartial DEF Idle, Local, Stages

LEMMA ViewPartial ==
  ASSUME TypeInv, NEW p \in Process
  PROVE  View(p) \in Partial(RowAt)
  BY MergePartial DEF View, TypeInv

LEMMA TypeCommits ==
  ASSUME TypeInv, NEW p \in Process,
         CommitEvents(p) \/ Audit(p) \/ Record(p) \/ CommitLeftover(p)
  PROVE  TypeInv'
<1>1. ingest[p] \in Local /\ ingest[p].stored \in Partial(Slot)
  BY DEF TypeInv, Local
<1>2. View(p) \in Partial(RowAt)
  BY ViewPartial
<1>3. CASE CommitEvents(p)
  <2> DEFINE i == [ingest[p] EXCEPT !.stage = "evented"]
  <2>1. i \in Local /\ i.stage = "evented" /\ i.forming = ingest[p].forming
        /\ i.fresh = ingest[p].fresh /\ i.since = ingest[p].since /\ i.start = ingest[p].start
    BY <1>1 DEF Local, Stages
  <2>2. ingest' = [ingest EXCEPT ![p] = i] /\ pending' = [pending EXCEPT ![p] = Empty]
        /\ bars' = View(p)
    BY <1>3 DEF TypeInv, CommitEvents, Committed
  <2>3. i.since \in Since /\ i.start \in Nat /\ i.forming \subseteq DOMAIN i.fresh
    BY <1>3, <2>1 DEF TypeInv, CommitEvents, At
  <2> HIDE DEF i
  <2> QED
    BY <1>2, <1>3, <2>1, <2>2, <2>3, TypeOfOne, EmptyPartial DEF CommitEvents, TypeInv
<1>4. CASE Audit(p)
  <2> DEFINE i == [ingest[p] EXCEPT !.stage = "audited", !.stored = Stored(View(p))]
  <2>1. i \in Local /\ i.stage = "audited" /\ i.forming = ingest[p].forming
        /\ i.fresh = ingest[p].fresh /\ i.since = ingest[p].since /\ i.start = ingest[p].start
    BY <1>1, <1>2, ReadPartial DEF Local, Stages
  <2>2. ingest' = [ingest EXCEPT ![p] = i] /\ pending' = [pending EXCEPT ![p] = pending[p]]
    BY <1>4 DEF TypeInv, Audit
  <2>3. i.since \in Since /\ i.start \in Nat /\ i.forming \subseteq DOMAIN i.fresh
    BY <1>4, <2>1 DEF TypeInv, Audit, At
  <2>4. UNCHANGED clock /\ cut' \subseteq Slot /\ bars' \in Partial(RowAt) /\ series' \in Partial(Slot) \cup {None}
        /\ pending[p] \in Partial(RowAt)
    BY <1>4 DEF Audit, TypeInv
  <2> HIDE DEF i
  <2> QED
    BY <2>1, <2>2, <2>3, <2>4, TypeOfOne
<1>5. CASE Record(p)
  <2>1. ingest' = [ingest EXCEPT ![p] = Idle] /\ pending' = [pending EXCEPT ![p] = Empty]
        /\ bars' = View(p) /\ series' \in Partial(Slot)
    BY <1>1, <1>5 DEF Record, Committed
  <2> QED
    BY <1>2, <1>5, <2>1, IdlePartial, TypeOfOne, EmptyPartial DEF Record, TypeInv
<1>6. CASE CommitLeftover(p)
  <2>1. ingest' = [ingest EXCEPT ![p] = ingest[p]] /\ pending' = [pending EXCEPT ![p] = Empty]
        /\ bars' = View(p) /\ ingest[p].stage = "idle"
    BY <1>6 DEF CommitLeftover, Committed, TypeInv, At
  <2>2. ingest[p].forming \subseteq DOMAIN ingest[p].fresh /\ ingest[p].forming = {}
    BY <2>1 DEF TypeInv, At
  <2> QED
    BY <1>1, <1>2, <1>6, <2>1, <2>2, TypeOfOne, EmptyPartial DEF CommitLeftover, TypeInv
<1> QED
  BY <1>3, <1>4, <1>5, <1>6

LEMMA TypeEnds ==
  ASSUME TypeInv, NEW p \in Process, Abort(p) \/ GoOn(p)
  PROVE  TypeInv'
<1>1. CASE Abort(p)
  <2>1. ingest' = [ingest EXCEPT ![p] = Idle] /\ pending' = [pending EXCEPT ![p] = Empty]
    BY <1>1 DEF Abort
  <2> QED
    BY <1>1, <2>1, IdlePartial, TypeOfOne, EmptyPartial DEF Abort, TypeInv
<1>2. CASE GoOn(p)
  <2>1. ingest' = [ingest EXCEPT ![p] = Idle] /\ pending' = [pending EXCEPT ![p] = pending[p]]
        /\ pending[p] \in Partial(RowAt) /\ p \in Keeps
    BY <1>2 DEF GoOn, TypeInv
  <2> QED
    BY <1>2, <2>1, IdlePartial, TypeOfOne DEF GoOn, TypeInv
<1> QED
  BY <1>1, <1>2

\* A step of one process.
StepOf(p) ==
  \/ \E since \in Since, full \in BOOLEAN : Start(p, since, full)
  \/ Fetch(p) \/ FetchHead(p) \/ Judge(p) \/ Write(p)
  \/ CommitEvents(p) \/ Audit(p) \/ Record(p)
  \/ Abort(p) \/ GoOn(p) \/ CommitLeftover(p)

LEMMA Steps == Next <=> Tick \/ \E p \in Process : StepOf(p)
  BY DEF Next, StepOf

LEMMA TypeStep == TypeInv /\ [Next]_vars => TypeInv'
<1> SUFFICES ASSUME TypeInv, [Next]_vars PROVE TypeInv'
  OBVIOUS
<1>1. CASE Tick
  <2>1. clock' \in Slot
    BY <1>1, IngestAssumption DEF Tick, TypeInv, Slot
  <2> QED
    BY <1>1, <2>1 DEF Tick, TypeInv, At
<1>2. ASSUME NEW p \in Process, StepOf(p) PROVE TypeInv'
  BY <1>2, TypeStart, TypeFetches, TypeJudge, TypeWrite, TypeCommits, TypeEnds DEF StepOf
<1>3. CASE UNCHANGED vars
  BY <1>3 DEF vars, TypeInv, At
<1> QED
  BY <1>1, <1>2, <1>3, Steps

LEMMA TypeMeans == TypeInv => TypeOK
<1> SUFFICES ASSUME TypeInv PROVE TypeOK
  OBVIOUS
<1>1. ASSUME NEW S, NEW f \in Partial(S) PROVE BySlot(f, S)
  BY PartialMeans DEF BySlot
<1>2. ASSUME NEW p \in Process
      PROVE  /\ BySlot(pending[p], RowAt) /\ BySlot(ingest[p].fresh, Slot)
             /\ BySlot(ingest[p].stored, Slot) /\ ingest[p].stage \in Stages
  <2>1. pending[p] \in Partial(RowAt) /\ ingest[p].fresh \in Partial(Slot)
        /\ ingest[p].stored \in Partial(Slot) /\ ingest[p].stage \in Stages
    BY DEF TypeInv, Local
  <2> QED
    BY <1>1, <2>1
<1>3. BySlot(bars, RowAt) /\ (series = None \/ BySlot(series, Slot))
  BY <1>1 DEF TypeInv
<1> QED
  BY <1>2, <1>3 DEF TypeInv, TypeOK, Stages

LEMMA TypeHolds == Spec => []TypeInv
<1> QED
  BY TypeInit, TypeStep, PTL DEF Spec

(* What is held, written, fetched and recorded has its type, whoever       *)
(* ingests: only bars that were fetched are forming, and rows wait for a   *)
(* commit only between write_bars and it, or where cmd_build went on.      *)
THEOREM IngestTyped == Spec => []TypeOK
  BY TypeHolds, TypeMeans, PTL

-----------------------------------------------------------------------------
(* One process at a time.                                                  *)

LEMMA Slots ==
  ASSUME TypeInv
  PROVE  /\ clock \in Nat /\ LastClock \in Nat /\ Traded \subseteq Nat /\ Since \subseteq Nat
         /\ DOMAIN bars \subseteq Nat
         /\ \A p \in Process :
              /\ DOMAIN View(p) \subseteq Nat /\ DOMAIN ingest[p].fresh \subseteq Nat
              /\ \A b \in DOMAIN ingest[p].fresh : ingest[p].fresh[b] \in Nat
<1>1. Slot \subseteq Nat /\ clock \in Slot /\ LastClock \in Nat /\ Traded \subseteq Nat
      /\ Since \subseteq Nat
  BY IngestAssumption DEF TypeInv, Slot
<1>2. DOMAIN bars \subseteq Slot
  BY PartialMeans DEF TypeInv
<1>3. ASSUME NEW p \in Process
      PROVE  /\ DOMAIN View(p) \subseteq Slot /\ DOMAIN ingest[p].fresh \subseteq Slot
             /\ \A b \in DOMAIN ingest[p].fresh : ingest[p].fresh[b] \in Slot
  <2>1. ingest[p].fresh \in Partial(Slot)
    BY DEF TypeInv, Local
  <2>2. View(p) \in Partial(RowAt)
    BY ViewPartial
  <2> QED
    BY <2>1, <2>2, PartialMeans
<1> QED
  BY <1>1, <1>2, <1>3

(* Between commits a process with nothing written sees what is committed.  *)
LEMMA ViewOfBars ==
  ASSUME TypeInv, NEW p \in Process, pending[p] = Empty
  PROVE  View(p) = bars
  BY MergeEmpty DEF View, TypeInv

\* The parts that look only at rows and at the clock.
SameRows(p) ==
  UNCHANGED <<clock, bars, series>> /\ pending'[p] = pending[p] /\ cut \subseteq cut'

LEMMA RowsStay ==
  ASSUME NEW p \in Process, SameRows(p), Sound(bars), Sound(View(p)), Audited(p)
  PROVE  /\ Sound(bars)' /\ Sound(View(p))'
         /\ (At(p, "audited")' => DOMAIN ingest'[p].stored \subseteq Complete(View(p)))
              => Audited(p)'
<1>1. View(p)' = View(p)
  BY DEF SameRows, View, Merge
<1>2. Sound(bars)'
  BY DEF SameRows, Sound, Unfinished, Complete, AtSeam, Covers
<1>3. Sound(View(p))'
  BY <1>1 DEF SameRows, Sound, Unfinished, Complete, AtSeam, Covers
<1>4. Complete(View(p))' = Complete(View(p)) /\ Complete(bars)' = Complete(bars)
  BY <1>1 DEF SameRows, Complete
<1> QED
  BY <1>1, <1>2, <1>3, <1>4 DEF Audited, SameRows

(* The bars a fetch that starts inside what is held brings.                *)
LEMMA StartKeeps ==
  ASSUME SeriesInv, NEW p \in Process, NEW since \in Since, NEW full \in BOOLEAN,
         Start(p, since, full)
  PROVE  Sound(bars)' /\ OneInv(p)'
<1> DEFINE held == DOMAIN bars
           start == IF full THEN since ELSE Resume(held, since)
<1>1. SameRows(p) /\ View(p) = bars
  BY ViewOfBars DEF Start, SameRows, SeriesInv
<1>2. ingest'[p].stage = "started" /\ ingest'[p].held = held /\ ingest'[p].start = start
      /\ ingest'[p].full = full
  BY <1>1 DEF Start, SeriesInv, TypeInv, Idle
<1>3. Sound(bars)' /\ Sound(View(p))' /\ Audited(p)'
  BY <1>1, <1>2, RowsStay DEF SeriesInv, OneInv, At
<1>4. /\ held # {} => \E b \in held : start <= b
      /\ start \in Since \/ \E b \in held : start < b
      /\ ~full => \A b \in held : b - 1 <= start
  <2>1. since \in Nat /\ held \in SUBSET (0..LastClock) /\ LastClock \in Nat
    BY IngestAssumption, PartialMeans DEF SeriesInv, TypeInv, Slot
  <2>2. held # {} => \E b \in held : since <= b
    BY <1>1 DEF Start
  <2>3. CASE full \/ held = {}
    BY <2>2, <2>3 DEF Resume
  <2>4. CASE ~full /\ held # {}
    <3>1. Max(held) \in held /\ \A x \in held : x <= Max(held)
      BY <2>1, <2>4, GreatestOf
    <3>2. start = IF Max(held) - 1 < since THEN since ELSE Max(held) - 1
      BY <2>4 DEF Resume, Newest
    <3> DEFINE m == Max(held)
    <3>3. m \in held /\ m \in Nat /\ \A x \in held : x \in Nat /\ x <= m
      BY <2>1, <3>1
    <3> HIDE DEF start, held, m
    <3>4. CASE m - 1 < since
      <4>1. start = since
        BY <3>2, <3>4 DEF m
      <4>2. \A b \in held : b - 1 <= start
        BY <2>1, <3>3, <3>4, <4>1
      <4> QED
        BY <2>2, <4>1, <4>2
    <3>5. CASE ~(m - 1 < since)
      <4>1. start = m - 1
        BY <3>2, <3>5 DEF m
      <4>2. start < m /\ start <= m
        BY <3>3, <4>1
      <4>3. \A b \in held : b - 1 <= start
        BY <3>3, <4>1
      <4> QED
        BY <3>3, <4>2, <4>3
    <3> QED
      BY <3>4, <3>5
  <2> QED
    BY <2>3, <2>4
<1>5. SeesAll(p)' /\ StartsInside(p)'
  <2> HIDE DEF start
  <2> QED
    BY <1>1, <1>2, <1>4 DEF SeesAll, StartsInside, At, SameRows
<1>6. Fetched(p)' /\ OneReading(p)' /\ Judged(p)'
  BY <1>2 DEF Fetched, OneReading, Judged, At
<1> QED
  BY <1>3, <1>5, <1>6 DEF OneInv

LEMMA FetchKeeps ==
  ASSUME SeriesInv, NEW p \in Process, Fetch(p)
  PROVE  Sound(bars)' /\ OneInv(p)'
<1> DEFINE held == DOMAIN bars
           start == ingest[p].start
<1>0. PICK newest \in MayHavePublished(ingest[p].held) :
        \E new \in Answers(start, clock, newest) :
          /\ ingest' = [ingest EXCEPT ![p].stage = "fetched", ![p].fresh = Read(new)]
          /\ cut' = cut \cup (Asked(start, clock, newest) \ new)
  BY DEF Fetch
<1>1. PICK new \in Answers(start, clock, newest) :
        /\ ingest' = [ingest EXCEPT ![p].stage = "fetched", ![p].fresh = Read(new)]
        /\ cut' = cut \cup (Asked(start, clock, newest) \ new)
  BY <1>0
<1> DEFINE fresh == Read(new)
<1>2. SameRows(p) /\ ingest[p].held = held /\ At(p, "started")
  BY DEF Fetch, SameRows, SeriesInv, OneInv, SeesAll
<1>3. ingest'[p].stage = "fetched" /\ ingest'[p].fresh = fresh /\ ingest'[p].start = start
      /\ ingest'[p].full = ingest[p].full /\ ingest'[p].held = held
  BY <1>1, <1>2 DEF SeriesInv, TypeInv, Local
<1>4. Sound(bars)' /\ Sound(View(p))' /\ Audited(p)'
  BY <1>2, <1>3, RowsStay DEF SeriesInv, OneInv, At
<1>5. SeesAll(p)' /\ StartsInside(p)'
  BY <1>2, <1>3 DEF SeesAll, StartsInside, At, SameRows, SeriesInv, OneInv
<1>6. /\ newest \in Int /\ newest <= clock
      /\ newest = -1 \/ \A b \in held : b <= newest
  <2>1. ingest[p].held \in SUBSET Slot /\ clock \in Slot
    BY DEF SeriesInv, TypeInv, Local
  <2> QED
    BY <2>1, <1>2, PublishedMeans
<1>7. /\ clock \in Nat /\ Traded \subseteq Nat /\ Since \subseteq Nat /\ held \subseteq Nat
      /\ held \subseteq Traded /\ start \in Nat
      /\ \A b \in held : b <= clock
  BY <1>2, Slots DEF SeriesInv, Sound, TypeInv, At
<1>8. /\ \A b \in new : b \in Traded /\ start <= b /\ b <= clock /\ b <= newest
      /\ \A b \in Traded : start <= b /\ b <= clock /\ b <= newest => b \in new \/ b \in cut'
      /\ cut \subseteq cut'
  <2>1. \A b \in new : b \in Traded /\ start <= b /\ b <= clock /\ b <= newest
    BY AnswerMeans
  <2>2. \A b \in Traded : start <= b /\ b <= clock /\ b <= newest => b \in Asked(start, clock, newest)
    BY AskedMeans
  <2> QED
    BY <2>1, <2>2, <1>1
<1>9. DOMAIN fresh = new /\ \A b \in new : fresh[b] = clock
  BY ReadMeans
<1>10. /\ held # {} => \E b \in held : start <= b
       /\ start \in Since \/ \E b \in held : start < b
  BY <1>2 DEF SeriesInv, OneInv, StartsInside
<1>11. Covers(held) /\ \A b \in Unfinished(bars) : b \in held /\ AtSeam(b, held)
  BY DEF SeriesInv, Sound, Unfinished
<1> DEFINE Seam(b, S) == b \in cut' \/ b + 1 \in Since \/ \A x \in S : x <= b + 1
<1> HIDE DEF held, start, fresh
<1>19. newest = -1 => new = {}
  <2> SUFFICES ASSUME newest = -1, NEW b \in new PROVE FALSE
    OBVIOUS
  <2>1. b \in Nat /\ b <= newest
    BY <1>7, <1>8
  <2> QED
    BY <2>1
<1>12. \A b \in Traded \ (held \cup new) :
         (\E i, j \in held \cup new : i < b /\ b < j) => b \in cut'
  <2> SUFFICES ASSUME NEW b \in Traded, NEW i \in held \cup new, NEW j \in held \cup new,
                      i < b, b < j
               PROVE  b \in held \cup new \cup cut'
    OBVIOUS
  <2>1. b \in Nat /\ i \in Nat /\ j \in Nat /\ j <= clock
    BY <1>7, <1>8
  <2>2. CASE start <= b
    <3>1. CASE j \in new
      BY <2>1, <2>2, <3>1, <1>6, <1>7, <1>8
    <3>2. CASE j \in held /\ newest # -1
      BY <2>1, <2>2, <3>2, <1>6, <1>7, <1>8
    <3>3. CASE newest = -1
      <4>1. new = {}
        BY <3>3, <1>19
      <4> QED
        BY <4>1, <1>8, <1>11 DEF Covers
    <3> QED
      BY <3>1, <3>2, <3>3
  <2>3. CASE b < start
    <3>1. i \in held
      BY <2>1, <2>3, <1>7, <1>8
    <3>2. PICK y \in held : start <= y
      BY <3>1, <1>10
    <3>3. b < y
      BY <2>1, <2>3, <3>2, <1>7
    <3> QED
      BY <3>1, <3>2, <3>3, <1>8, <1>11 DEF Covers
  <2> QED
    BY <2>1, <2>2, <2>3, <1>7
<1>13. ASSUME NEW b \in Unfinished(bars)
       PROVE  b \in new \/ Seam(b, held \cup new)
  <2>1. b \in held /\ b \in Nat /\ b <= clock /\ b \in Traded
    BY <1>7, <1>11
  <2>2. CASE b + 1 \in Since \/ b \in cut
    BY <2>2, <1>8
  <2>3. CASE newest = -1
    <3>1. new = {}
      BY <2>3, <1>19
    <3> QED
      BY <3>1, <1>8, <1>11 DEF AtSeam
  <2>4. CASE newest # -1 /\ b + 1 \notin Since /\ b \notin cut
    <3>1. \A x \in held : x <= b + 1
      BY <2>4, <1>11 DEF AtSeam
    <3>2. CASE start <= b
      BY <2>1, <2>4, <3>2, <1>6, <1>8
    <3>3. CASE b < start
      <4>1. PICK y \in held : start <= y
        BY <2>1, <1>10
      <4>2. start = b + 1
        BY <4>1, <3>1, <3>3, <2>1, <1>7
      <4> QED
        BY <4>2, <2>4, <3>1, <1>10, <1>7, <2>1
    <3> QED
      BY <3>2, <3>3, <2>1, <1>7
  <2> QED
    BY <2>2, <2>3, <2>4
<1>14. \A b \in new : \A x \in held \cup new : x <= fresh[b]
  BY <1>7, <1>8, <1>9
<1>15. ASSUME NEW b \in new, fresh[b] <= b PROVE Seam(b, held \cup new)
  <2>1. \A x \in held \cup new : x <= fresh[b] /\ x \in Nat
    BY <1>7, <1>8, <1>14
  <2>2. fresh[b] \in Nat /\ b \in Nat
    BY <1>7, <1>8, <1>9
  <2> QED
    BY <2>1, <2>2, <1>15
<1>16. new \subseteq Traded /\ (\A b \in new : b <= clock) /\ (\A b \in new : start <= b)
  BY <1>8
<1>17. Fetched(p)' /\ OneReading(p)'
  <2>1. DOMAIN ingest'[p].fresh = new /\ bars' = bars /\ clock' = clock
    BY <1>2, <1>3, <1>9 DEF SameRows
  <2>2. Joined(p)' = held \cup new
    BY <2>1 DEF Joined, held
  <2>3. Unfinished(bars)' = Unfinished(bars)
    BY <2>1 DEF Unfinished
  <2> QED
    BY <1>3, <1>12, <1>13, <1>14, <1>15, <1>16, <2>1, <2>2, <2>3
       DEF Fetched, OneReading, At, Covers, AtSeam
<1>18. Judged(p)'
  BY <1>3 DEF Judged, At
<1> QED
  BY <1>4, <1>5, <1>17, <1>18 DEF OneInv

(* The front of the series, served up to the oldest bar held: it joins on. *)
LEMMA FetchHeadKeeps ==
  ASSUME SeriesInv, NEW p \in Process, FetchHead(p), HeadMissing(p)
  PROVE  Sound(bars)' /\ OneInv(p)'
<1> DEFINE held == DOMAIN bars
           tail == ingest[p].fresh
           F == DOMAIN tail
           since == ingest[p].since
           m == Min(held)
<1>0. ingest[p].held = held /\ At(p, "fetched")
  BY DEF FetchHead, SeriesInv, OneInv, SeesAll
<1>22. PICK newest \in MayHavePublished(held) :
        \E H \in Answers(since, m + 1, newest) :
          /\ ingest' = [ingest EXCEPT ![p].stage = "merged", ![p].fresh = Merge(Read(H), @)]
          /\ cut' = cut \cup (Asked(since, m + 1, newest) \ H)
  BY <1>0 DEF FetchHead, HeadUpTo, Oldest
<1>1. PICK H \in Answers(since, m + 1, newest) :
        /\ ingest' = [ingest EXCEPT ![p].stage = "merged", ![p].fresh = Merge(Read(H), @)]
        /\ cut' = cut \cup (Asked(since, m + 1, newest) \ H)
  BY <1>22
<1> DEFINE head == Read(H)
           fresh == Merge(head, tail)
           Seam(b, S) == b \in cut' \/ b + 1 \in Since \/ \A x \in S : x <= b + 1
<1>2. SameRows(p) /\ ingest[p].held = held /\ At(p, "fetched")
  BY <1>0, <1>1 DEF FetchHead, SameRows
<1>3. ingest'[p].stage = "merged" /\ ingest'[p].fresh = fresh /\ ingest'[p].held = held
  BY <1>1, <1>2 DEF SeriesInv, TypeInv, Local
<1>4. Sound(bars)' /\ Sound(View(p))' /\ Audited(p)'
  BY <1>2, <1>3, RowsStay DEF SeriesInv, OneInv, At
<1>5. SeesAll(p)' /\ StartsInside(p)' /\ OneReading(p)' /\ Judged(p)'
  BY <1>2, <1>3 DEF SeesAll, StartsInside, OneReading, Judged, At, SameRows
<1>6. /\ newest \in Int /\ newest <= clock
      /\ newest = -1 \/ \A b \in held : b <= newest
  <2>1. ingest[p].held \in SUBSET Slot /\ clock \in Slot
    BY DEF SeriesInv, TypeInv, Local
  <2> QED
    BY <2>1, <1>2, PublishedMeans
<1>7. /\ clock \in Nat /\ Traded \subseteq Nat /\ Since \subseteq Nat /\ held \subseteq Nat
      /\ F \subseteq Nat /\ F \subseteq Traded
      /\ since \in Nat /\ ingest[p].start \in Nat
      /\ \A b \in F : b <= clock /\ tail[b] \in Nat
      /\ \A b \in held : b <= clock
  <2>1. ingest[p].since \in Since /\ ingest[p].start \in Nat
    BY <1>2 DEF SeriesInv, TypeInv, At
  <2>2. clock \in Nat /\ Traded \subseteq Nat /\ Since \subseteq Nat /\ held \subseteq Nat
        /\ F \subseteq Nat /\ \A b \in F : tail[b] \in Nat
    BY Slots DEF SeriesInv
  <2>3. F \subseteq Traded /\ \A b \in F : b <= clock
    BY <1>2 DEF SeriesInv, OneInv, Fetched
  <2>4. \A b \in held : b <= clock
    BY DEF SeriesInv, Sound
  <2> QED
    BY <2>1, <2>2, <2>3, <2>4
<1>8. /\ Covers(held \cup F)
      /\ \A b \in Unfinished(bars) : b \in held /\ (b \in F \/ AtSeam(b, held \cup F))
      /\ \A b \in F : tail[b] <= b => AtSeam(b, held \cup F)
      /\ \A b \in F : \A x \in held \cup F : x <= tail[b]
      /\ \A b \in F : ingest[p].start <= b
  BY <1>2 DEF SeriesInv, OneInv, Fetched, OneReading, Joined, Unfinished
<1>14. DOMAIN head = H /\ \A b \in H : head[b] = clock
  BY ReadMeans
<1>9. /\ DOMAIN fresh = H \cup F
      /\ \A b \in F : fresh[b] = tail[b]
      /\ \A b \in H : b \notin F => fresh[b] = head[b]
  <2> HIDE DEF head, tail
  <2>1. /\ DOMAIN fresh = DOMAIN head \cup F
        /\ \A b \in F : fresh[b] = tail[b]
        /\ \A b \in DOMAIN head : b \notin F => fresh[b] = head[b]
    BY MergeMeans
  <2> HIDE DEF fresh
  <2> QED
    BY <2>1, <1>14
<1>10. held # {} /\ \A b \in held : b - 1 <= ingest[p].start
  BY <1>2 DEF HeadMissing, SeriesInv, OneInv, StartsInside
<1>11. m \in held /\ \A x \in held : m <= x
  <2> HIDE DEF held
  <2> QED
    BY <1>7, <1>10, LeastOf
<1>12. \A b \in H : b \in Traded /\ since <= b /\ b <= m + 1 /\ b <= newest
  BY AnswerMeans
<1>13. /\ \A b \in Traded : since <= b /\ b <= m + 1 /\ b <= newest => b \in H \/ b \in cut'
       /\ cut \subseteq cut'
  <2>1. \A b \in Traded : since <= b /\ b <= m + 1 /\ b <= newest => b \in Asked(since, m + 1, newest)
    BY AskedMeans
  <2> QED
    BY <2>1, <1>1
<1> HIDE DEF head, fresh, held, tail, F, m, since
<1>15. H # {} => m <= newest
  <2> SUFFICES ASSUME NEW b \in H PROVE m <= newest
    OBVIOUS
  <2>1. b \in Nat /\ b <= newest
    BY <1>7, <1>12
  <2>2. newest # -1
    BY <2>1
  <2> QED
    BY <2>2, <1>6, <1>11
<1>16. \A b \in Traded \ (held \cup (H \cup F)) :
         (\E i, j \in held \cup (H \cup F) : i < b /\ b < j) => b \in cut'
  <2> SUFFICES ASSUME NEW b \in Traded, NEW i \in held \cup (H \cup F),
                      NEW j \in held \cup (H \cup F), i < b, b < j
               PROVE  b \in held \cup (H \cup F) \cup cut'
    OBVIOUS
  <2>1. b \in Nat /\ i \in Nat /\ j \in Nat /\ m \in Nat
    BY <1>7, <1>11, <1>12
  <2>2. CASE m < b
    <3>1. j \in held \cup F
      BY <2>1, <2>2, <1>12
    <3> QED
      BY <2>2, <3>1, <1>8, <1>11, <1>13 DEF Covers
  <2>3. CASE b <= m
    <3>1. CASE i \in H
      <4>1. since <= b /\ b <= m + 1 /\ b <= newest
        BY <2>1, <2>3, <3>1, <1>6, <1>7, <1>12, <1>15
      <4> QED
        BY <4>1, <1>13
    <3>2. CASE i \in held
      BY <2>1, <2>3, <3>2, <1>11
    <3>3. CASE i \in F
      <4>1. m - 1 <= i
        BY <2>1, <3>3, <1>7, <1>8, <1>10, <1>11
      <4>2. b = m
        BY <4>1, <2>1, <2>3
      <4> QED
        BY <4>2, <1>11
    <3> QED
      BY <3>1, <3>2, <3>3
  <2> QED
    BY <2>1, <2>2, <2>3
<1>17. ASSUME NEW b \in Nat, b \in held \/ (b \in F /\ tail[b] <= b),
              AtSeam(b, held \cup F)
       PROVE  Seam(b, held \cup (H \cup F))
  <2> SUFFICES ASSUME NEW x \in H PROVE x <= b + 1
    BY <1>13, <1>17 DEF AtSeam
  <2>1. x \in Nat /\ m \in Nat /\ x <= m + 1 /\ m \in held
    BY <1>7, <1>11, <1>12
  <2>2. m <= b
    BY <2>1, <1>7, <1>8, <1>11, <1>17
  <2> QED
    BY <2>1, <2>2
<1>18. ASSUME NEW b \in H \cup F, fresh[b] <= b PROVE Seam(b, held \cup (H \cup F))
  <2>1. CASE b \in F
    BY <2>1, <1>7, <1>8, <1>9, <1>17, <1>18
  <2>2. CASE b \notin F
    <3>1. b \in Nat /\ clock <= b
      BY <2>2, <1>7, <1>9, <1>12, <1>14, <1>18
    <3>2. ASSUME NEW x \in held \cup (H \cup F) PROVE x \in Nat /\ x <= clock
      <4>1. CASE x \in H
        <5>1. x \in Nat /\ x <= newest
          BY <4>1, <1>7, <1>12
        <5> QED
          BY <5>1, <1>6, <1>7
      <4> QED
        BY <4>1, <1>7
    <3> QED
      BY <3>1, <3>2, <1>7
  <2> QED
    BY <2>1, <2>2
<1>19. ASSUME NEW b \in Unfinished(bars)
       PROVE  b \in H \cup F \/ Seam(b, held \cup (H \cup F))
  BY <1>7, <1>8, <1>17
<1>20. H \cup F \subseteq Traded /\ \A b \in H \cup F : b <= clock
  <2>1. \A b \in H : b \in Traded /\ b \in Nat /\ b <= newest
    BY <1>7, <1>12
  <2>2. \A b \in H : b <= clock
    BY <2>1, <1>6, <1>7
  <2> QED
    BY <2>1, <2>2, <1>7
<1>21. Fetched(p)'
  <2>1. DOMAIN ingest'[p].fresh = H \cup F /\ bars' = bars /\ clock' = clock
    BY <1>2, <1>3, <1>9 DEF SameRows
  <2>2. Joined(p)' = held \cup (H \cup F)
    BY <2>1 DEF Joined, held
  <2>3. Unfinished(bars)' = Unfinished(bars)
    BY <2>1 DEF Unfinished
  <2> QED
    BY <1>3, <1>16, <1>18, <1>19, <1>20, <2>1, <2>2, <2>3 DEF Fetched, Covers, AtSeam
<1> QED
  BY <1>4, <1>5, <1>21 DEF OneInv

(* Where no head is missing nothing is fetched for it.                     *)
LEMMA SkipHeadKeeps ==
  ASSUME SeriesInv, NEW p \in Process, FetchHead(p), ~HeadMissing(p)
  PROVE  Sound(bars)' /\ OneInv(p)'
<1>1. /\ SameRows(p) /\ At(p, "fetched") /\ cut' = cut
      /\ ingest'[p].stage = "merged" /\ ingest'[p].fresh = ingest[p].fresh
      /\ ingest'[p].held = ingest[p].held
  BY DEF FetchHead, SkipHead, SameRows, SeriesInv, TypeInv, Local
<1>2. Sound(bars)' /\ Sound(View(p))' /\ Audited(p)'
  BY <1>1, RowsStay DEF SeriesInv, OneInv, At
<1>3. SeesAll(p)' /\ StartsInside(p)' /\ OneReading(p)' /\ Judged(p)'
  BY <1>1 DEF SeesAll, StartsInside, OneReading, Judged, At, SameRows, SeriesInv, OneInv
<1>4. Fetched(p)'
  <2>1. Joined(p)' = Joined(p) /\ Unfinished(bars)' = Unfinished(bars) /\ Fetched(p)
    BY <1>1 DEF Joined, Unfinished, SameRows, SeriesInv, OneInv
  <2> QED
    BY <1>1, <2>1 DEF Fetched, At, Covers, AtSeam, SameRows
<1> QED
  BY <1>2, <1>3, <1>4 DEF OneInv

(* Bars are in the database, or fetched, only up to the clock: of those,   *)
(* the clock's own is the newest, so it is the one judged to be forming.   *)
LEMMA JudgeKeeps ==
  ASSUME SeriesInv, NEW p \in Process, Judge(p)
  PROVE  Sound(bars)' /\ OneInv(p)'
<1> DEFINE F == DOMAIN ingest[p].fresh
           late == {b \in F : b = Newest(F) /\ b >= clock}
<1>1. SameRows(p) /\ At(p, "merged")
  BY DEF Judge, SameRows
<1>2. /\ ingest'[p].stage = "judged" /\ ingest'[p].forming = late
      /\ ingest'[p].fresh = ingest[p].fresh /\ ingest'[p].held = ingest[p].held
  BY DEF Judge, SeriesInv, TypeInv, Local
<1>3. Sound(bars)' /\ Sound(View(p))' /\ Audited(p)'
  BY <1>1, <1>2, RowsStay DEF SeriesInv, OneInv, At
<1>4. SeesAll(p)' /\ StartsInside(p)' /\ OneReading(p)'
  BY <1>1, <1>2 DEF SeesAll, StartsInside, OneReading, At, SameRows, SeriesInv, OneInv
<1>5. Fetched(p)'
  <2>1. Joined(p)' = Joined(p) /\ Unfinished(bars)' = Unfinished(bars) /\ Fetched(p)
    BY <1>1, <1>2 DEF Joined, Unfinished, SameRows, SeriesInv, OneInv
  <2> QED
    BY <1>1, <1>2, <2>1 DEF Fetched, At, Covers, AtSeam, SameRows
<1>6. /\ clock \in Nat /\ F \subseteq Nat /\ DOMAIN bars \subseteq Nat
      /\ F \in SUBSET (0..LastClock) /\ LastClock \in Nat
      /\ \A b \in F : b <= clock
      /\ \A b \in Complete(bars) : b \in Nat /\ b < clock
  <2>1. ingest[p].fresh \in Partial(Slot)
    BY DEF SeriesInv, TypeInv, Local
  <2>2. F \subseteq Slot
    BY <2>1, PartialMeans
  <2>3. \A b \in F : b <= clock
    BY <1>1 DEF SeriesInv, OneInv, Fetched
  <2>4. clock \in Nat /\ F \subseteq Nat /\ DOMAIN bars \subseteq Nat /\ LastClock \in Nat
    BY Slots DEF SeriesInv
  <2>5. Complete(bars) \subseteq DOMAIN bars /\ \A b \in Complete(bars) : b < clock
    BY DEF SeriesInv, Sound, Complete
  <2> HIDE DEF F
  <2> QED
    BY <2>2, <2>3, <2>4, <2>5 DEF Slot
<1> HIDE DEF F
<1>7. late \cap Complete(bars) = {}
  BY <1>6
<1>8. ASSUME NEW b \in F \ late PROVE b < clock
  <2> SUFFICES ASSUME b = clock PROVE b \in late
    BY <1>6, <1>8
  <2>1. Max(F) \in F /\ b <= Max(F)
    BY <1>6, GreatestOf
  <2>2. Max(F) \in Nat /\ Max(F) <= clock
    BY <2>1, <1>6
  <2> DEFINE m == Max(F)
  <2>3. b \in F /\ b \in Nat /\ b <= m /\ m \in Nat /\ m <= clock
    BY <2>1, <2>2, <1>6
  <2>4. b = m /\ b >= clock
    <3> HIDE DEF m
    <3> QED
      BY <2>3, <1>6
  <2> QED
    BY <2>3, <2>4 DEF Newest
<1>9. Judged(p)'
  <2>1. Complete(bars)' = Complete(bars) /\ clock' = clock
    BY <1>1 DEF SameRows, Complete
  <2>2. DOMAIN ingest'[p].fresh = F
    BY <1>2 DEF F
  <2> HIDE DEF late
  <2> QED
    BY <1>2, <1>7, <1>8, <2>1, <2>2 DEF Judged
<1> QED
  BY <1>3, <1>4, <1>5, <1>9 DEF OneInv

(* What is written is what was joined: no forming bar counts as over, and  *)
(* none that did stops counting.                                           *)
LEMMA WriteKeeps ==
  ASSUME SeriesInv, NEW p \in Process, Write(p)
  PROVE  Sound(bars)' /\ OneInv(p)'
<1> DEFINE i == ingest[p]
           rows == Merge(bars, Rows(i))
<1>1. At(p, "judged") /\ UNCHANGED <<clock, bars, series, cut>> /\ ingest'[p].stage = "written"
  BY DEF Write, SeriesInv, TypeInv
<1>2. View(p)' = rows
  <2>1. Rows(i) \in Partial(RowAt)
    BY RowsPartial DEF SeriesInv, TypeInv
  <2>2. pending[p] = Empty
    BY <1>1 DEF SeriesInv, TypeInv, At
  <2>3. pending'[p] = Rows(i)
    BY <2>1, <2>2, MergeEmpty DEF Write, Rows, SeriesInv, TypeInv
  <2> QED
    BY <1>1, <2>3 DEF View, Merge
<1>3. /\ DOMAIN Rows(i) = DOMAIN i.fresh
      /\ \A b \in DOMAIN i.fresh : Rows(i)[b].readAt = i.fresh[b]
                                  /\ Rows(i)[b].partial = (b \in i.forming)
  BY DEF Rows
<1>4. /\ DOMAIN rows = Joined(p)
      /\ \A b \in DOMAIN i.fresh : rows[b].readAt = i.fresh[b] /\ rows[b].partial = (b \in i.forming)
      /\ \A b \in DOMAIN bars : b \notin DOMAIN i.fresh => rows[b] = bars[b]
  <2>0. \A new : /\ DOMAIN Merge(bars, new) = DOMAIN bars \cup DOMAIN new
                 /\ \A b \in DOMAIN new : Merge(bars, new)[b] = new[b]
                 /\ \A b \in DOMAIN bars : b \notin DOMAIN new => Merge(bars, new)[b] = bars[b]
    BY MergeMeans
  <2> HIDE DEF i
  <2>1. DOMAIN rows = DOMAIN bars \cup DOMAIN i.fresh
    BY <1>3, <2>0
  <2>2. \A b \in DOMAIN i.fresh : rows[b] = Rows(i)[b]
    BY <1>3, <2>0
  <2>3. \A b \in DOMAIN bars : b \notin DOMAIN i.fresh => rows[b] = bars[b]
    BY <1>3, <2>0
  <2> HIDE DEF rows
  <2> QED
    BY <1>3, <2>1, <2>2, <2>3 DEF Joined, i
<1>5. /\ Sound(bars) /\ Audited(p) /\ Complete(bars) \subseteq DOMAIN bars
      /\ DOMAIN i.fresh \subseteq Traded
      /\ \A b \in DOMAIN i.fresh : b <= clock
      /\ Covers(Joined(p))
      /\ \A b \in Unfinished(bars) : b \in DOMAIN i.fresh \/ AtSeam(b, Joined(p))
      /\ \A b \in DOMAIN i.fresh : i.fresh[b] <= b => AtSeam(b, Joined(p))
      /\ i.forming \cap Complete(bars) = {}
      /\ \A b \in DOMAIN i.fresh \ i.forming : b < clock
  BY <1>1 DEF SeriesInv, OneInv, Fetched, Judged, Complete, At
<1> HIDE DEF i, rows
<1>6. DOMAIN rows \subseteq Traded /\ (\A b \in DOMAIN rows : b <= clock) /\ Covers(DOMAIN rows)
  BY <1>4, <1>5 DEF Sound, Joined, i
<1>7. \A b \in Complete(rows) : b < clock
  <2> SUFFICES ASSUME NEW b \in DOMAIN rows, ~rows[b].partial PROVE b < clock
    BY DEF Complete
  <2>1. CASE b \in DOMAIN i.fresh
    BY <2>1, <1>4, <1>5
  <2>2. CASE b \in DOMAIN bars /\ b \notin DOMAIN i.fresh
    BY <2>2, <1>4, <1>5 DEF Sound, Complete
  <2> QED
    BY <2>1, <2>2, <1>4 DEF Joined, i
<1>8. \A b \in Unfinished(rows) : AtSeam(b, DOMAIN rows)
  <2> SUFFICES ASSUME NEW b \in DOMAIN rows, rows[b].readAt <= b PROVE AtSeam(b, Joined(p))
    BY <1>4 DEF Unfinished
  <2>1. CASE b \in DOMAIN i.fresh
    BY <2>1, <1>4, <1>5
  <2>2. CASE b \in DOMAIN bars /\ b \notin DOMAIN i.fresh
    BY <2>2, <1>4, <1>5 DEF Unfinished
  <2> QED
    BY <2>1, <2>2, <1>4 DEF Joined, i
<1>9. Complete(bars) \subseteq Complete(rows)
  <2> SUFFICES ASSUME NEW b \in Complete(bars) PROVE b \in DOMAIN rows /\ ~rows[b].partial
    BY DEF Complete
  <2>1. CASE b \in DOMAIN i.fresh
    BY <2>1, <1>4, <1>5 DEF Joined
  <2>2. CASE b \notin DOMAIN i.fresh
    BY <2>2, <1>4, <1>5 DEF Joined, Complete
  <2> QED
    BY <2>1, <2>2
<1>10. Sound(bars)' /\ Sound(View(p))' /\ Audited(p)'
  <2>1. Sound(bars)' = Sound(bars)
    BY <1>1 DEF Sound, Covers, Complete, Unfinished, AtSeam
  <2>2. Sound(View(p))'
    BY <1>1, <1>2, <1>6, <1>7, <1>8 DEF Sound, Covers, Complete, Unfinished, AtSeam
  <2>3. Complete(View(p))' = Complete(rows) /\ Complete(bars)' = Complete(bars)
    BY <1>1, <1>2 DEF Complete
  <2> QED
    BY <1>1, <1>5, <1>9, <2>1, <2>2, <2>3 DEF Audited, At
<1>11. SeesAll(p)' /\ StartsInside(p)' /\ Fetched(p)' /\ OneReading(p)' /\ Judged(p)'
  BY <1>1 DEF SeesAll, StartsInside, Fetched, OneReading, Judged, At
<1> QED
  BY <1>10, <1>11 DEF OneInv

\* Past the write, and between two ingests, nothing is held of what was fetched.
LEMMA PastWrite ==
  ASSUME NEW p \in Process, ingest'[p].stage \in {"idle", "written", "evented", "audited"}
  PROVE  SeesAll(p)' /\ StartsInside(p)' /\ Fetched(p)' /\ OneReading(p)' /\ Judged(p)'
  BY DEF SeesAll, StartsInside, Fetched, OneReading, Judged, At

(* A commit makes of what the process sees the bars there are.             *)
LEMMA CommitsKeep ==
  ASSUME SeriesInv, NEW p \in Process, CommitEvents(p) \/ Record(p) \/ CommitLeftover(p)
  PROVE  Sound(bars)' /\ OneInv(p)'
<1>1. bars' = View(p) /\ pending'[p] = Empty /\ clock' = clock /\ cut' = cut
  BY DEF CommitEvents, Record, CommitLeftover, Committed, SeriesInv, TypeInv
<1>2. View(p)' = View(p)
  <2>1. View(p)' = Merge(View(p), Empty)
    BY <1>1 DEF View, Merge
  <2>2. View(p) \in Partial(RowAt)
    BY ViewPartial DEF SeriesInv
  <2> QED
    BY <2>1, <2>2, MergeEmpty
<1>3. Sound(bars)' /\ Sound(View(p))'
  BY <1>1, <1>2 DEF SeriesInv, OneInv, Sound, Covers, Complete, Unfinished, AtSeam
<1>4. ingest'[p].stage \in {"idle", "evented"}
  <2>0. ingest \in [Process -> Local]
    BY DEF SeriesInv, TypeInv
  <2>1. CASE CommitEvents(p)
    BY <2>0, <2>1 DEF CommitEvents
  <2>2. CASE Record(p)
    BY <2>0, <2>2 DEF Record, Idle
  <2>3. CASE CommitLeftover(p)
    BY <2>3 DEF CommitLeftover, At
  <2> QED
    BY <2>1, <2>2, <2>3
<1>5. Complete(bars)' = Complete(View(p)) /\ Complete(View(p))' = Complete(View(p))
  BY <1>1, <1>2 DEF Complete
<1>6. series' # None => DOMAIN series' \subseteq Complete(View(p))
  <2>1. CASE series' = series
    BY <2>1 DEF SeriesInv, OneInv, Audited
  <2>2. CASE Record(p)
    BY <2>2 DEF Record, SeriesInv, OneInv, Audited
  <2> QED
    BY <2>1, <2>2 DEF CommitEvents, CommitLeftover
<1>7. Audited(p)'
  BY <1>4, <1>5, <1>6 DEF Audited, At
<1> QED
  BY <1>3, <1>4, <1>7, PastWrite DEF OneInv

LEMMA AuditKeeps ==
  ASSUME SeriesInv, NEW p \in Process, Audit(p)
  PROVE  Sound(bars)' /\ OneInv(p)'
<1>1. SameRows(p) /\ ingest'[p].stage = "audited" /\ ingest'[p].stored = Stored(View(p))
  BY DEF Audit, SameRows, SeriesInv, TypeInv, Local
<1>2. DOMAIN Stored(View(p)) = Complete(View(p))
  BY DEF Stored
<1>3. Sound(bars)' /\ Sound(View(p))' /\ Audited(p)'
  BY <1>1, <1>2, RowsStay DEF SeriesInv, OneInv
<1> QED
  BY <1>1, <1>3, PastWrite DEF OneInv

LEMMA EndsKeep ==
  ASSUME SeriesInv, NEW p \in Process, Abort(p) \/ GoOn(p)
  PROVE  Sound(bars)' /\ OneInv(p)'
<1>1. ingest'[p].stage = "idle" /\ UNCHANGED <<clock, bars, series, cut>>
  BY DEF Abort, GoOn, Idle, SeriesInv, TypeInv
<1>2. CASE GoOn(p)
  <2>1. SameRows(p)
    BY <1>2 DEF GoOn, SameRows
  <2>2. Sound(bars)' /\ Sound(View(p))' /\ Audited(p)'
    BY <1>1, <2>1, RowsStay DEF SeriesInv, OneInv, At
  <2> QED
    BY <1>1, <2>2, PastWrite DEF OneInv
<1>3. CASE Abort(p)
  <2>1. View(p)' = bars
    <3>1. pending'[p] = Empty
      BY <1>3 DEF Abort, SeriesInv, TypeInv
    <3>2. View(p)' = Merge(bars, Empty)
      BY <1>1, <3>1 DEF View, Merge
    <3> QED
      BY <3>2, MergeEmpty DEF SeriesInv, TypeInv
  <2>2. Sound(bars)' /\ Sound(View(p))'
    BY <1>1, <2>1 DEF SeriesInv, Sound, Covers, Complete, Unfinished, AtSeam
  <2>3. Audited(p)'
    BY <1>1, <2>1 DEF SeriesInv, OneInv, Audited, Complete, At
  <2> QED
    BY <1>1, <2>2, <2>3, PastWrite DEF OneInv
<1> QED
  BY <1>2, <1>3

(* The clock moves on under whatever is held.                              *)
LEMMA TickKeeps ==
  ASSUME SeriesInv, Tick
  PROVE  Sound(bars)' /\ \A p \in Process : OneInv(p)'
<1>1. clock \in Nat /\ clock' = clock + 1 /\ UNCHANGED <<bars, series, pending, ingest, cut>>
  BY Slots DEF Tick, SeriesInv
<1>2. DOMAIN bars \subseteq Nat /\ (\A b \in DOMAIN bars : b <= clock')
      /\ \A b \in Complete(bars) : b < clock'
  BY <1>1, Slots DEF SeriesInv, Sound, Complete
<1>3. Sound(bars)'
  BY <1>1, <1>2 DEF SeriesInv, Sound, Covers, Complete, Unfinished, AtSeam
<1>4. ASSUME NEW p \in Process PROVE OneInv(p)'
  <2>1. View(p)' = View(p) /\ Joined(p)' = Joined(p)
    BY <1>1 DEF View, Merge, Joined
  <2>2. DOMAIN View(p) \subseteq Nat /\ (\A b \in DOMAIN View(p) : b <= clock')
        /\ \A b \in Complete(View(p)) : b < clock'
    BY <1>1, Slots DEF SeriesInv, OneInv, Sound, Complete
  <2>3. Sound(View(p))'
    BY <1>1, <2>1, <2>2 DEF SeriesInv, OneInv, Sound, Covers, Complete, Unfinished, AtSeam
  <2>4. SeesAll(p)' /\ StartsInside(p)' /\ OneReading(p)'
    BY <1>1, <2>1 DEF SeriesInv, OneInv, SeesAll, StartsInside, OneReading, At
  <2>5. Audited(p)'
    BY <1>1, <2>1 DEF SeriesInv, OneInv, Audited, Complete, At
  <2>6. DOMAIN ingest[p].fresh \subseteq Nat
    BY Slots DEF SeriesInv
  <2>7. Fetched(p)'
    BY <1>1, <2>1, <2>6 DEF SeriesInv, OneInv, Fetched, Covers, Unfinished, AtSeam, At
  <2>8. Judged(p)'
    BY <1>1, <2>6 DEF SeriesInv, OneInv, Judged, Complete, At
  <2> QED
    BY <2>3, <2>4, <2>5, <2>7, <2>8 DEF OneInv
<1> QED
  BY <1>3, <1>4

LEMMA SeriesStep == ASSUME OneAtATime PROVE SeriesInv /\ [Next]_vars => SeriesInv'
<1> SUFFICES ASSUME SeriesInv, [Next]_vars PROVE SeriesInv'
  OBVIOUS
<1>1. TypeInv'
  BY TypeStep DEF SeriesInv
<1>2. ASSUME NEW p \in Process, StepOf(p) PROVE Sound(bars)' /\ \A q \in Process : OneInv(q)'
  <2>1. Sound(bars)' /\ OneInv(p)'
    BY <1>2, StartKeeps, FetchKeeps, FetchHeadKeeps, SkipHeadKeeps, JudgeKeeps, WriteKeeps, CommitsKeep,
       AuditKeeps, EndsKeep DEF StepOf
  <2> QED
    BY <2>1 DEF OneAtATime
<1>3. CASE UNCHANGED vars
  <2>1. ASSUME NEW p \in Process PROVE OneInv(p)'
    <3>1. View(p)' = View(p) /\ Joined(p)' = Joined(p) /\ \A s : At(p, s)' = At(p, s)
      BY <1>3 DEF vars, View, Merge, Joined, At
    <3>2. Sound(View(p))' /\ SeesAll(p)' /\ StartsInside(p)'
      BY <1>3, <3>1 DEF vars, SeriesInv, OneInv, Sound, Covers, Complete, Unfinished, AtSeam,
         SeesAll, StartsInside
    <3>3. Fetched(p)' /\ OneReading(p)'
      BY <1>3, <3>1 DEF vars, SeriesInv, OneInv, Covers, Unfinished, AtSeam, Fetched, OneReading
    <3>4. Judged(p)' /\ Audited(p)'
      BY <1>3, <3>1 DEF vars, SeriesInv, OneInv, Complete, Judged, Audited
    <3> QED
      BY <3>2, <3>3, <3>4, Zenon DEF OneInv
  <2>2. Sound(bars)'
    BY <1>3 DEF vars, SeriesInv, Sound, Covers, Complete, Unfinished, AtSeam
  <2> QED
    BY <1>1, <2>1, <2>2 DEF SeriesInv
<1> QED
  BY <1>1, <1>2, <1>3, Steps, TickKeeps DEF SeriesInv

LEMMA SeriesInit == Init => SeriesInv
<1> SUFFICES ASSUME Init PROVE SeriesInv
  OBVIOUS
<1>1. bars = Empty /\ DOMAIN Empty = {} /\ series = None
  BY EmptyPartial DEF Init
<1>2. TypeInv
  BY TypeInit
<1>3. Sound(bars)
  BY <1>1 DEF Sound, Covers, Complete, Unfinished
<1>4. ASSUME NEW p \in Process PROVE OneInv(p)
  <2>1. View(p) = bars /\ ingest[p].stage = "idle"
    BY <1>2, ViewOfBars DEF Init, Idle
  <2>2. Audited(p)
    BY <1>1, <2>1 DEF Audited, At
  <2> QED
    BY <1>3, <2>1, <2>2 DEF OneInv, SeesAll, StartsInside, Fetched, OneReading, Judged, At
<1> QED
  BY <1>2, <1>3, <1>4 DEF SeriesInv

LEMMA SeriesHolds == ASSUME OneAtATime PROVE Spec => []SeriesInv
<1>1. SeriesInv /\ [Next]_vars => SeriesInv'
  BY SeriesStep
<1> QED
  BY SeriesInit, <1>1, PTL DEF Spec

LEMMA SeriesMeans ==
  ASSUME Process # {}, SeriesInv
  PROVE  OnlyCutsLeaveHoles /\ AuditedStaysReadable /\ UnfinishedAtSeam
<1>1. OnlyCutsLeaveHoles
  BY DEF SeriesInv, Sound, Covers, OnlyCutsLeaveHoles
<1>2. AuditedStaysReadable
  BY DEF SeriesInv, OneInv, Audited, AuditedStaysReadable
<1>3. UnfinishedAtSeam
  <2> SUFFICES ASSUME NEW b \in DOMAIN bars \ cut, bars[b].readAt <= b, b + 1 \notin Since
               PROVE  b >= Newest(DOMAIN bars) - 1
    BY DEF UnfinishedAtSeam
  <2>1. DOMAIN bars \in SUBSET (0..LastClock) /\ LastClock \in Nat
    BY PartialMeans, IngestAssumption DEF SeriesInv, TypeInv, Slot
  <2>2. Max(DOMAIN bars) \in DOMAIN bars
    BY <2>1, GreatestOf
  <2>3. \A x \in DOMAIN bars : x <= b + 1
    BY DEF SeriesInv, Sound, Unfinished, AtSeam
  <2> QED
    BY <2>1, <2>2, <2>3 DEF Newest
<1> QED
  BY <1>1, <1>2, <1>3

(* When one process ingests at a time, resuming one bar early, fetching    *)
(* the missing front and starting over after a failure skip nothing: a bar *)
(* missing between the oldest and the newest held was asked for, and left  *)
(* out by what the source goes back to or how long it goes on.             *)
THEOREM HolesAreCuts ==
  ASSUME OneAtATime, Process # {} PROVE Spec => []OnlyCutsLeaveHoles
<1>1. Spec => []SeriesInv
  BY SeriesHolds
<1> QED
  BY <1>1, SeriesMeans, PTL

(* When one process ingests at a time, a bar the manifest counts stays     *)
(* readable: no later ingest marks it as forming, and none takes it back.  *)
THEOREM AuditedStays == ASSUME OneAtATime, Process # {} PROVE Spec => []AuditedStaysReadable
<1>1. Spec => []SeriesInv
  BY SeriesHolds
<1> QED
  BY <1>1, SeriesMeans, PTL

(* When one process ingests at a time, a price read before its bar was     *)
(* over stands only in the newest bar or the one before, unless a floor    *)
(* begins right after it or the source could not serve it again.           *)
THEOREM EarlyPricesAtSeam == ASSUME OneAtATime, Process # {} PROVE Spec => []UnfinishedAtSeam
<1>1. Spec => []SeriesInv
  BY SeriesHolds
<1> QED
  BY <1>1, SeriesMeans, PTL

-----------------------------------------------------------------------------
(* Sources whose limits are out of reach.                                  *)

\* Depth and pages for all there is, and no quiet stretch as long as a page.
WholeAnswers ==
  /\ Depth >= LastClock /\ Reach > LastClock
  /\ \A a, b \in Traded : b - a > Page => \E t \in Traded : a < t /\ t < b

\* No bar the venue has is missing between the oldest and the newest held.
NoHoles ==
  \A b \in Traded :
    (\E i, j \in DOMAIN bars : i < b /\ b < j) => b \in DOMAIN bars

(* Such a source answers with all it was asked for.                        *)
LEMMA WholeAnswer ==
  ASSUME WholeAnswers, clock \in Slot, NEW from \in Nat, NEW upto \in Int, NEW newest \in Int,
         Asked(from, upto, newest) \subseteq Slot,
         NEW answer \in Answers(from, upto, newest)
  PROVE  answer = Asked(from, upto, newest)
<1> DEFINE S == Asked(from, upto, newest)
           MayStart(a) == \A s \in S : s < a => from <= a - Page /\ s < a - Page
           MayEnd(a, b) == b - a >= Reach \/ \A s \in S : s > b => s > b + EmptyPages * Page
<1>1. /\ Page \in Nat /\ Page >= 1 /\ EmptyPages \in Nat /\ EmptyPages >= 1 /\ Reach \in Nat
      /\ Depth \in Nat /\ LastClock \in Nat /\ clock \in Nat /\ clock <= LastClock
      /\ Depth >= LastClock /\ Reach > LastClock /\ Traded \subseteq Nat
  BY IngestAssumption DEF WholeAnswers, Slot
<1>2. S \in SUBSET (0..LastClock) /\ S \subseteq Nat /\ S \subseteq Traded
  BY AskedMeans DEF Slot
<1>3. S = {b \in S : clock - Depth <= b}
  <2> HIDE DEF S
  <2>1. clock - Depth <= 0
    BY <1>1
  <2>2. \A b \in S : b \in Nat
    BY <1>2
  <2>3. \A b \in S : clock - Depth <= b
    BY <1>1, <2>1, <2>2
  <2> QED
    BY <2>3
<1>4. ASSUME NEW a \in S, NEW b \in S, b - a > Page
      PROVE  \E t \in S : a < t /\ t < b
  <2>1. PICK t \in Traded : a < t /\ t < b
    BY <1>2, <1>4 DEF WholeAnswers
  <2>2. from <= a /\ b <= upto /\ b <= newest /\ a \in Nat /\ b \in Nat /\ t \in Nat
    BY <1>1, <1>2, AskedMeans
  <2>3. from <= t /\ t <= upto /\ t <= newest
    BY <2>1, <2>2
  <2> QED
    BY <2>1, <2>3, AskedMeans
<1>5. CASE S = {}
  BY <1>5, AnswerMeans
<1>6. CASE S # {}
  <2>1. answer \in {{s \in S : e[1] <= s /\ s <= e[2]} :
                      e \in {e \in S \X S : MayStart(e[1]) /\ MayEnd(e[1], e[2])}}
    BY <1>3, <1>6 DEF Answers
  <2>2. PICK e \in S \X S :
          /\ answer = {s \in S : e[1] <= s /\ s <= e[2]}
          /\ MayStart(e[1]) /\ MayEnd(e[1], e[2])
    BY <2>1
  <2>3. e[1] \in S /\ e[2] \in S /\ e[1] \in Nat /\ e[2] \in Nat /\ e[2] <= LastClock
    BY <1>2
  <2> HIDE DEF S
  <2>4. ASSUME NEW s \in S PROVE e[1] <= s
    <3> SUFFICES ASSUME s < e[1] PROVE FALSE
      BY <1>2, <2>3
    <3> DEFINE before == {x \in S : x < e[1]}
    <3>1. before \in SUBSET (0..LastClock) /\ before # {}
      BY <1>2
    <3> DEFINE g == Max(before)
    <3>2. g \in before /\ \A x \in before : x <= g
      <4> HIDE DEF before
      <4> QED
        BY <1>1, <3>1, GreatestOf
    <3>3. g \in S /\ g \in Nat /\ g < e[1]
      BY <3>2, <1>2
    <3> HIDE DEF g
    <3>4. e[1] - g > Page
      BY <3>3, <2>2, <2>3, <1>1
    <3>5. PICK t \in S : g < t /\ t < e[1]
      BY <3>3, <3>4, <2>3, <1>4
    <3> QED
      BY <3>2, <3>3, <3>5, <1>2
  <2>5. ASSUME NEW s \in S PROVE s <= e[2]
    <3> SUFFICES ASSUME s > e[2] PROVE FALSE
      BY <1>2, <2>3
    <3> DEFINE after == {x \in S : x > e[2]}
    <3>1. after \in SUBSET Nat /\ after # {}
      BY <1>2
    <3> DEFINE l == Min(after)
    <3>2. l \in after /\ \A x \in after : l <= x
      <4> HIDE DEF after
      <4> QED
        BY <3>1, LeastOf
    <3>3. l \in S /\ l \in Nat /\ l > e[2]
      BY <3>2, <1>2
    <3> HIDE DEF l
    <3>4. ~(e[2] - e[1] >= Reach)
      BY <2>3, <1>1
    <3>5. l > e[2] + EmptyPages * Page
      BY <3>3, <3>4, <2>2
    <3>6. EmptyPages * Page >= Page /\ EmptyPages * Page \in Nat
      BY <1>1
    <3>7. l - e[2] > Page
      BY <3>3, <3>5, <3>6, <2>3, <1>1
    <3>8. PICK t \in S : e[2] < t /\ t < l
      BY <3>3, <3>7, <2>3, <1>4
    <3> QED
      BY <3>2, <3>3, <3>8, <2>3, <1>2
  <2> QED
    BY <2>2, <2>4, <2>5 DEF S
<1> QED
  BY <1>5, <1>6

Uncut == cut = {}

LEMMA UncutStep ==
  ASSUME WholeAnswers PROVE TypeInv /\ Uncut /\ [Next]_vars => Uncut'
<1> SUFFICES ASSUME TypeInv, Uncut, [Next]_vars PROVE cut' = {}
  BY DEF Uncut
<1>1. clock \in Slot /\ clock \in Int
  BY DEF TypeInv, Slot
<1>2. ASSUME NEW p \in Process, Fetch(p) PROVE cut' = {}
  <2>1. ingest[p].held \in SUBSET Slot /\ ingest[p].start \in Nat
    BY <1>2 DEF TypeInv, Local, Fetch, At
  <2>2. PICK newest \in MayHavePublished(ingest[p].held) :
          \E answer \in Answers(ingest[p].start, clock, newest) :
            cut' = cut \cup (Asked(ingest[p].start, clock, newest) \ answer)
    BY <1>2 DEF Fetch
  <2>3. newest \in Int /\ Asked(ingest[p].start, clock, newest) \subseteq Slot
    BY <1>1, <2>1, PublishedMeans, AskedSlots
  <2> QED
    BY <1>1, <2>1, <2>2, <2>3, WholeAnswer DEF Uncut
<1>3. ASSUME NEW p \in Process, FetchHead(p), HeadMissing(p) PROVE cut' = {}
  <2>1. ingest[p].held \in SUBSET Slot /\ ingest[p].since \in Nat /\ ingest[p].held # {}
    BY <1>3, IngestAssumption DEF TypeInv, Local, FetchHead, HeadMissing, At
  <2> DEFINE upto == Oldest(ingest[p].held) + 1
  <2>2. PICK newest \in MayHavePublished(ingest[p].held) :
          \E answer \in Answers(ingest[p].since, upto, newest) :
            cut' = cut \cup (Asked(ingest[p].since, upto, newest) \ answer)
    BY <1>3 DEF FetchHead, HeadUpTo
  <2>3. upto \in Int
    <3>1. ingest[p].held \in SUBSET Nat
      BY <2>1 DEF Slot
    <3>2. Min(ingest[p].held) \in Nat
      BY <2>1, <3>1, LeastOf
    <3> QED
      BY <3>2 DEF Oldest
  <2> HIDE DEF upto
  <2>4. newest \in Int /\ Asked(ingest[p].since, upto, newest) \subseteq Slot
    BY <1>1, <2>1, PublishedMeans, AskedSlots
  <2> QED
    BY <1>1, <2>1, <2>2, <2>3, <2>4, WholeAnswer DEF Uncut
<1>4. ASSUME NEW p \in Process, FetchHead(p), ~HeadMissing(p) PROVE cut' = {}
  BY <1>4 DEF FetchHead, SkipHead, Uncut
<1>5. ASSUME NEW p \in Process, StepOf(p), ~Fetch(p), ~FetchHead(p) PROVE cut' = {}
  BY <1>5 DEF StepOf, Start, Judge, Write, CommitEvents, Audit, Record, Abort, GoOn,
     CommitLeftover, Uncut
<1> QED
  BY <1>2, <1>3, <1>4, <1>5, Steps DEF Tick, vars, Uncut

(* When one process ingests at a time and the source's limits lie beyond   *)
(* what it is asked for, no bar the venue had is missing between the       *)
(* oldest and the newest held, whatever floors, late bars and failures.    *)
THEOREM NoHoleOpens ==
  ASSUME OneAtATime, Process # {}, WholeAnswers PROVE Spec => []NoHoles
<1>1. Init => Uncut
  BY DEF Init, Uncut
<1>2. TypeInv /\ Uncut /\ [Next]_vars => Uncut'
  BY UncutStep
<1>3. Spec => []Uncut
  BY <1>1, <1>2, TypeHolds, PTL DEF Spec
<1>4. OnlyCutsLeaveHoles /\ Uncut => NoHoles
  BY DEF OnlyCutsLeaveHoles, Uncut, NoHoles
<1> QED
  BY <1>3, <1>4, HolesAreCuts, PTL
=============================================================================

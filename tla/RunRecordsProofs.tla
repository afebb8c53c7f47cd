-------------------------- MODULE RunRecordsProofs --------------------------
(***************************************************************************)
(* What holds of RunRecords for any workers, ids, bars, windows and grids: *)
(* its types, and that results and finished sweeps are of one piece.       *)
(***************************************************************************)
EXTENDS RunRecords, JobWorkerProofs

\* The jobs a user submits, and the steps of a handler between its commits.
SubmitStep ==
  \/ \E windows \in Moved \cup {None} : SubmitBacktest(windows)
  \/ \E b \in JobId : SubmitSweep(b)
  \/ \E b \in JobId : SubmitExtend(b)

HandlerStep(w) ==
  \/ Load(w) \/ RecordBacktest(w) \/ ReadExtended(w) \/ WriteExtended(w)
  \/ RecordSweep(w) \/ RecordBase(w)

QueueStep ==
  \/ \E w \in Worker : Connect(w)
  \/ \E w \in Worker : LockNext(w)
  \/ \E w \in Worker : CommitClaim(w)
  \/ \E j \in JobId : HalfHourPasses(j)

LEMMA Steps ==
  Next <=> \/ NewBar
           \/ SubmitStep
           \/ QueueStep /\ UNCHANGED recordVars
           \/ \E w \in Worker : HandlerStep(w)
           \/ \E w \in Worker : Return(w) \/ Raise(w) \/ Die(w)
  BY DEF Next, SubmitStep, HandlerStep, QueueStep

-----------------------------------------------------------------------------
(* Data.                                                                   *)

LEMMA WindowsTyped ==
  ASSUME NEW win \in Windows, NEW a \in Bar
  PROVE  Spans(win, a) \in [SplitName -> Span]
<1>1. win.from \in Nat /\ win.mid \in Nat /\ win.to \in Nat /\ a \in Nat
  BY RecordsAssumption DEF Windows
<1>2. \A s \in SplitName : FirstBar(s, win) \in Nat /\ LastBar(s, win, a) \in Nat
  BY <1>1 DEF FirstBar, LastBar
<1> QED
  BY <1>2 DEF Spans, Span

LEMMA RowsTyped ==
  ASSUME NEW j \in JobId, NEW win \in Windows, NEW a \in Bar,
         NEW splits \in SUBSET SplitName, NEW settings \in SUBSET Setting
  PROVE  RowsOf(j, win, a, splits, settings) \subseteq RunRow
<1>1. \A s \in splits : Spans(win, a)[s] \in Span
  BY WindowsTyped
<1> QED
  BY <1>1 DEF RowsOf, RunRow

(* After the insert, every row of it has its key in the table, and nothing *)
(* that was there is gone.                                                 *)
LEMMA InsertKeeps ==
  ASSUME NEW new, runs' = Inserted(new)
  PROVE  /\ runs \subseteq runs'
         /\ runs' \subseteq runs \cup new
         /\ \A row \in new : \E r \in runs' : Key(r) = Key(row)
  BY DEF Inserted

LEMMA RecordedStays ==
  ASSUME runs \subseteq runs', NEW s, NEW span, NEW x, Recorded(s, span, x)
  PROVE  Recorded(s, span, x)'
  BY DEF Recorded

LEMMA RowsRecorded ==
  ASSUME NEW j, NEW win, NEW a, NEW splits, NEW settings,
         runs' = Inserted(RowsOf(j, win, a, splits, settings)),
         NEW s \in splits, NEW x \in settings
  PROVE  \E row \in runs' : Key(row) = <<s, Spans(win, a)[s], x>>
<1> DEFINE new == [split |-> s, span |-> Spans(win, a)[s], setting |-> x,
                   job |-> j, asOf |-> a]
<1>1. new \in RowsOf(j, win, a, splits, settings)
  BY DEF RowsOf
<1>2. PICK row \in runs' : Key(row) = Key(new)
  BY <1>1, InsertKeeps
<1> QED
  BY <1>2 DEF Key

LEMMA ResultTyped ==
  ASSUME NEW j, NEW win \in Windows, NEW a \in Bar
  PROVE  ResultOf(j, win, a) \in Result
<1>1. \A S \in {SplitName, Refreshed, {}} : [s \in S |-> Spans(win, a)[s]] \in [S -> Span]
  BY WindowsTyped DEF SplitName, Refreshed
<1>2. SplitsOf(j) \in {SplitName, Refreshed, {}}
  BY DEF SplitsOf
<1> QED
  BY <1>1, <1>2 DEF ResultOf, Result

(* An extend of a result of one piece, on its own windows, keeps its type  *)
(* and makes the spans those of the newer bar.                             *)
LEMMA ExtendedTyped ==
  ASSUME NEW old \in Result, NEW win \in Windows, NEW a \in Bar
  PROVE  Extended(old, win, a) \in Result
<1>1. Spans(win, a)["holdout"] \in Span /\ Spans(win, a)["all"] \in Span
  BY WindowsTyped DEF SplitName
<1> QED
  BY <1>1 DEF Extended, Result

LEMMA ExtendedSpans ==
  ASSUME NEW old \in Result, NEW a \in Bar, old.spans = Spans(old.windows, old.asOf)
  PROVE  LET new == Extended(old, old.windows, a) IN
         /\ new.asOf = a
         /\ new.windows = old.windows
         /\ new.spans = Spans(old.windows, a)
         /\ \A s \in SplitName \ Refreshed : new.spans[s] = old.spans[s]
<1> DEFINE new == Extended(old, old.windows, a)
           spans == [[old.spans EXCEPT !["holdout"] = Spans(old.windows, a)["holdout"]]
                       EXCEPT !["all"] = Spans(old.windows, a)["all"]]
<1>1. new.asOf = a /\ new.windows = old.windows /\ new.spans = spans
  BY DEF Extended, Result
<1>2. \A s \in SplitName \ Refreshed :
        Spans(old.windows, a)[s] = Spans(old.windows, old.asOf)[s]
  BY DEF Spans, LastBar
<1>3. spans = Spans(old.windows, a)
  BY <1>2 DEF Spans, SplitName, Refreshed
<1> QED
  BY <1>1, <1>2, <1>3

-----------------------------------------------------------------------------
(* Types.                                                                  *)

(* What follows needs of the other modules' types: a finished job has a    *)
(* result, what a worker has in hand is a row, and an extend names a test. *)
DoneHasResult == \A j \in JobId : jobs[j].status = "done" => result[j] \in Result

ExtendsNameTests ==
  \A j \in JobId :
    asked[j].extend # None =>
      /\ jobs[asked[j].extend].status # "absent"
      /\ jobs[asked[j].extend].kind = "backtest"
      /\ asked[asked[j].extend].extend = None

BaseInv == TypeOK /\ HandsHoldRows /\ DoneHasResult /\ ExtendsNameTests

LEMMA BaseInit == Init => BaseInv
<1> SUFFICES ASSUME Init PROVE BaseInv
  OBVIOUS
<1>1. TableTypeOK
  BY RowsAreRows DEF Init, TableInit, TableTypeOK, Status
<1>2. WorkerTypeOK /\ HandsHoldRows
  BY DEF Init, WorkerInit, WorkerTypeOK, HandsHoldRows
<1>3. RecordTypeOK
  BY RecordsAssumption
     DEF Init, WorkerInit, RecordTypeOK, HandlerKnows, NoAsk, Fresh, Handler
<1>4. DoneHasResult
  BY DEF Init, TableInit, NoRow, DoneHasResult
<1>5. ExtendsNameTests
  BY DEF Init, NoAsk, ExtendsNameTests
<1> QED
  BY <1>1, <1>2, <1>3, <1>4, <1>5 DEF BaseInv, TypeOK

(* A submitted job takes an absent row and sets its payload.               *)
Submission(j, kind, pair, windows, extend, p) ==
  /\ Insert(j, kind, Owner, p, pair)
  /\ Ask(j, windows, extend)
  /\ extend # None => /\ kind = "backtest"
                      /\ jobs[extend].status = "done"
                      /\ jobs[extend].kind = "backtest"
                      /\ asked[extend].extend = None

LEMMA Submitted ==
  ASSUME BaseInv, SubmitStep
  PROVE  \E j \in JobId, kind \in {"backtest", "sweep"}, pair \in JobId \cup {None},
            windows \in Windows \cup {None}, extend \in JobId \cup {None}, p \in Nat :
           Submission(j, kind, pair, windows, extend, p)
<1> USE DEF BaseInv, TypeOK, RecordTypeOK
<1>1. ASSUME NEW windows \in Moved \cup {None}, SubmitBacktest(windows)
      PROVE  \E j \in JobId : Insert(j, "backtest", Owner, 50, None) /\ Ask(j, windows, None)
  BY <1>1 DEF SubmitBacktest
<1>2. ASSUME NEW b \in JobId, SubmitSweep(b)
      PROVE  \E j \in JobId : Insert(j, "sweep", Owner, 60, b) /\ Ask(j, asked[b].windows, None)
  BY <1>2 DEF SubmitSweep
<1>3. ASSUME NEW b \in JobId, SubmitExtend(b)
      PROVE  /\ \E j \in JobId : /\ Insert(j, "backtest", Owner, 50, None)
                                 /\ Ask(j, result[b].windows, b)
             /\ jobs[b].status = "done" /\ jobs[b].kind = "backtest" /\ asked[b].extend = None
             /\ result[b].windows \in Windows
  BY <1>3 DEF SubmitExtend, DoneHasResult, Result
<1>4. Moved \subseteq Windows
  BY RecordsAssumption
<1>5. CASE \E windows \in Moved \cup {None} : SubmitBacktest(windows)
  <2>1. PICK windows \in Moved \cup {None} : SubmitBacktest(windows)
    BY <1>5
  <2>2. PICK j \in JobId : Insert(j, "backtest", Owner, 50, None) /\ Ask(j, windows, None)
    BY <1>1, <2>1
  <2>3. windows \in Windows \cup {None} /\ None \in JobId \cup {None} /\ 50 \in Nat
    BY <1>4
  <2>4. Submission(j, "backtest", None, windows, None, 50)
    BY <2>2 DEF Submission
  <2> QED
    BY <2>3, <2>4
<1>6. CASE \E b \in JobId : SubmitSweep(b)
  <2>1. PICK b \in JobId : SubmitSweep(b)
    BY <1>6
  <2>2. PICK j \in JobId : Insert(j, "sweep", Owner, 60, b) /\ Ask(j, asked[b].windows, None)
    BY <1>2, <2>1
  <2>3. asked[b].windows \in Windows \cup {None} /\ None \in JobId \cup {None} /\ 60 \in Nat
    OBVIOUS
  <2>4. Submission(j, "sweep", b, asked[b].windows, None, 60)
    BY <2>2 DEF Submission
  <2> QED
    BY <2>3, <2>4
<1>7. CASE \E b \in JobId : SubmitExtend(b)
  <2>1. PICK b \in JobId : SubmitExtend(b)
    BY <1>7
  <2>2. PICK j \in JobId : /\ Insert(j, "backtest", Owner, 50, None)
                          /\ Ask(j, result[b].windows, b)
    BY <1>3, <2>1
  <2>3. result[b].windows \in Windows \cup {None} /\ None \in JobId \cup {None} /\ 50 \in Nat
    BY <1>3, <2>1
  <2>4. Submission(j, "backtest", None, result[b].windows, b, 50)
    BY <1>3, <2>1, <2>2 DEF Submission
  <2> QED
    BY <2>3, <2>4
<1> QED
  BY <1>5, <1>6, <1>7 DEF SubmitStep

LEMMA BaseSubmit ==
  ASSUME BaseInv, SubmitStep
  PROVE  BaseInv'
<1> USE DEF BaseInv, TypeOK
<1>1. PICK j \in JobId, kind \in {"backtest", "sweep"}, pair \in JobId \cup {None},
           windows \in Windows \cup {None}, extend \in JobId \cup {None}, p \in Nat :
        Submission(j, kind, pair, windows, extend, p)
  BY Submitted
<1> USE DEF Submission
<1>2. TableTypeOK'
  BY <1>1, InsertType, RecordsAssumption DEF Kind
<1>3. /\ jobs[j].status = "absent" /\ jobs'[j].status = "queued"
      /\ \A i \in JobId : i # j => jobs'[i] = jobs[i] /\ asked'[i] = asked[i]
      /\ asked'[j] = [windows |-> windows, extend |-> extend]
  BY <1>1 DEF Insert, NextId, QueuedRow, Ask, TableTypeOK, RecordTypeOK
<1>4. WorkerTypeOK'
  BY <1>1 DEF Ask, workerVars, WorkerTypeOK
<1>5. RecordTypeOK'
  BY <1>1 DEF Ask, workerVars, RecordTypeOK, HandlerKnows
<1>6. HandsHoldRows'
  BY <1>1, <1>3 DEF Ask, workerVars, HandsHoldRows, WorkerTypeOK
<1>7. DoneHasResult'
  BY <1>1, <1>3 DEF Ask, DoneHasResult
<1>8. ExtendsNameTests'
  <2>1. \A i \in JobId : asked'[i].extend \in JobId \cup {None}
    BY <1>5 DEF RecordTypeOK
  <2>2. ASSUME NEW i \in JobId, i # j, asked'[i].extend # None
        PROVE  asked'[i].extend \in JobId /\ asked'[i].extend # j
    BY <1>3, <2>1, <2>2 DEF ExtendsNameTests
  <2>3. ASSUME asked'[j].extend # None
        PROVE  asked'[j].extend = extend /\ extend \in JobId /\ extend # j
    BY <1>1, <1>3, <2>3
  <2> QED
    BY <1>1, <1>3, <2>2, <2>3 DEF ExtendsNameTests
<1> QED
  BY <1>2, <1>4, <1>5, <1>6, <1>7, <1>8

(* The workers' side of every step that is theirs.                         *)
LEMMA BaseWorkers ==
  ASSUME BaseInv, WorkerSideStep, UNCHANGED asked
  PROVE  TableTypeOK' /\ WorkerTypeOK' /\ HandsHoldRows' /\ ExtendsNameTests'
<1> USE DEF BaseInv, TypeOK
<1>1. TableTypeOK' /\ WorkerTypeOK'
  BY WorkerSideTypes
<1>2. \A j \in JobId : /\ jobs'[j].kind = jobs[j].kind
                       /\ jobs'[j].status = "absent" <=> jobs[j].status = "absent"
  BY WorkerSideRows
<1>3. HandsHoldRows'
  BY <1>2, WorkerSideHands DEF HandsHoldRows, WorkerTypeOK
<1>4. ExtendsNameTests'
  BY <1>2 DEF ExtendsNameTests, RecordTypeOK
<1> QED
  BY <1>1, <1>3, <1>4

LEMMA QueueKeeps ==
  ASSUME BaseInv, QueueStep
  PROVE  /\ \A j \in JobId : jobs'[j].status = "done" => jobs[j].status = "done"
         /\ \A w \in Worker : at[w] = "handling" => at'[w] = "handling" /\ inHand'[w] = inHand[w]
<1> USE DEF BaseInv, TypeOK, TableTypeOK, WorkerTypeOK
<1>1. ASSUME NEW v \in Worker, Connect(v)
      PROVE  /\ \A j \in JobId : jobs'[j].status = "done" => jobs[j].status = "done"
             /\ \A w \in Worker : at[w] = "handling" => at'[w] = "handling" /\ inHand'[w] = inHand[w]
  <2>1. /\ at[v] = "away" /\ at' = [at EXCEPT ![v] = "idle"] /\ inHand' = inHand
        /\ jobs' = [j \in JobId |-> IF Stale(jobs[j]) THEN Requeued(jobs[j]) ELSE jobs[j]]
    BY <1>1, Zenon DEF Connect
  <2>2. \A j \in JobId : jobs'[j].status = "done" => jobs[j].status = "done"
    <3> SUFFICES ASSUME NEW j \in JobId, jobs'[j].status = "done" PROVE jobs[j].status = "done"
      OBVIOUS
    <3>1. jobs'[j] = jobs[j] \/ jobs'[j] = Requeued(jobs[j])
      BY <2>1, Zenon
    <3>2. Requeued(jobs[j]).status = "queued"
      BY DEF Requeued, Row
    <3> QED
      BY <3>1, <3>2
  <2>3. \A w \in Worker : at[w] = "handling" => at'[w] = "handling" /\ inHand'[w] = inHand[w]
    BY <2>1
  <2> QED
    BY <2>2, <2>3, Zenon
<1>2. ASSUME NEW v \in Worker, LockNext(v)
      PROVE  /\ \A j \in JobId : jobs'[j].status = "done" => jobs[j].status = "done"
             /\ \A w \in Worker : at[w] = "handling" => at'[w] = "handling" /\ inHand'[w] = inHand[w]
  BY <1>2 DEF LockNext
<1>3. ASSUME NEW v \in Worker, CommitClaim(v)
      PROVE  /\ \A j \in JobId : jobs'[j].status = "done" => jobs[j].status = "done"
             /\ \A w \in Worker : at[w] = "handling" => at'[w] = "handling" /\ inHand'[w] = inHand[w]
  BY <1>3 DEF CommitClaim, Claimed, Row
<1>4. ASSUME NEW i \in JobId, HalfHourPasses(i)
      PROVE  /\ \A j \in JobId : jobs'[j].status = "done" => jobs[j].status = "done"
             /\ \A w \in Worker : at[w] = "handling" => at'[w] = "handling" /\ inHand'[w] = inHand[w]
  BY <1>4 DEF HalfHourPasses, Row
<1> QED
  BY <1>1, <1>2, <1>3, <1>4 DEF QueueStep

LEMMA BaseQueue ==
  ASSUME BaseInv, QueueStep, UNCHANGED recordVars
  PROVE  BaseInv'
<1>1. TableTypeOK' /\ WorkerTypeOK' /\ HandsHoldRows' /\ ExtendsNameTests'
  BY BaseWorkers DEF QueueStep, WorkerSideStep, recordVars
<1>2. RecordTypeOK'
  BY QueueKeeps DEF BaseInv, TypeOK, RecordTypeOK, HandlerKnows, recordVars
<1>3. DoneHasResult'
  BY QueueKeeps DEF BaseInv, DoneHasResult, recordVars
<1> QED
  BY <1>1, <1>2, <1>3 DEF BaseInv, TypeOK

(* Between its commits a handler leaves the queue alone.                   *)
LEMMA BaseHandler ==
  ASSUME BaseInv, NEW w \in Worker, HandlerStep(w)
  PROVE  BaseInv'
<1> USE DEF BaseInv, TypeOK
<1>1. UNCHANGED <<tableVars, workerVars, newest, asked>>
  BY DEF HandlerStep, Load, RecordBacktest, ReadExtended, WriteExtended, RecordSweep, RecordBase
<1>2. /\ TableTypeOK' /\ WorkerTypeOK' /\ HandsHoldRows' /\ ExtendsNameTests'
      /\ newest' \in Bar
      /\ asked' \in [JobId -> [windows : Windows \cup {None}, extend : JobId \cup {None}]]
  BY <1>1 DEF tableVars, workerVars, TableTypeOK, WorkerTypeOK, HandsHoldRows,
              ExtendsNameTests, RecordTypeOK
<1>3. at[w] = "handling" /\ inHand[w] \in JobId
  BY DEF HandlerStep, HandlerAt, Load, RecordBacktest, ReadExtended, WriteExtended,
         RecordSweep, RecordBase, WorkerTypeOK
<1> DEFINE Rest == /\ result' \in [JobId -> Result \cup {None}]
                   /\ runs' \subseteq RunRow
                   /\ work' \in [Worker -> Handler]
                   /\ \A v \in Worker : HandlerKnows(v)'
                   /\ DoneHasResult'
<1>4. ASSUME NEW stage \in {"start", "loaded", "read", "base", "recorded"}, Reach(w, stage),
             stage # "read", work[w].stage # "start"
      PROVE  work' \in [Worker -> Handler] /\ \A v \in Worker : HandlerKnows(v)'
  BY <1>1, <1>3, <1>4 DEF Reach, RecordTypeOK, HandlerKnows, Handler, workerVars
<1>5. ASSUME NEW win \in Windows, NEW splits \in SUBSET SplitName,
             NEW settings \in SUBSET Setting,
             runs' = Inserted(RowsOf(inHand[w], win, work[w].asOf, splits, settings)),
             work[w].asOf \in Bar
      PROVE  runs' \subseteq RunRow
  <2>1. RowsOf(inHand[w], win, work[w].asOf, splits, settings) \subseteq RunRow
    BY <1>3, <1>5, RowsTyped
  <2> QED
    BY <1>5, <2>1 DEF Inserted, RecordTypeOK
<1>6. work[w].stage # "start" => work[w].asOf \in Bar /\ work[w].windows \in Windows
  BY DEF RecordTypeOK, HandlerKnows
<1>7. {Chosen} \in SUBSET Setting /\ Setting \in SUBSET Setting
  BY RecordsAssumption
<1>8. /\ \A j : SplitsOf(j) \in SUBSET SplitName
      /\ Refreshed \in SUBSET SplitName
      /\ {"train", "test"} \in SUBSET SplitName
  BY DEF SplitsOf, SplitName, Refreshed
<1>a. CASE Load(w)
  <2> DEFINE win == SplitFor(asked[inHand[w]], newest)
  <2>1. win \in Windows
    BY <1>3, RecordsAssumption DEF SplitFor, RecordTypeOK
  <2>2. work' = [work EXCEPT ![w].stage = "loaded", ![w].asOf = newest, ![w].windows = win]
    BY <1>a DEF Load
  <2> HIDE DEF win
  <2> DEFINE loaded == [work[w] EXCEPT !.stage = "loaded", !.asOf = newest, !.windows = win]
  <2>3. /\ loaded \in Handler
        /\ loaded.stage = "loaded" /\ loaded.asOf \in Bar /\ loaded.windows \in Windows
    BY <2>1 DEF RecordTypeOK, Handler
  <2>4. work' = [work EXCEPT ![w] = loaded]
    BY <2>2
  <2> HIDE DEF loaded
  <2>5. work' \in [Worker -> Handler]
    BY <2>3, <2>4 DEF RecordTypeOK
  <2>6. \A v \in Worker : HandlerKnows(v)'
    BY <1>1, <1>3, <2>3, <2>4 DEF RecordTypeOK, HandlerKnows, workerVars
  <2>7. Rest
    BY <1>1, <1>a, <2>5, <2>6 DEF Load, RecordTypeOK, DoneHasResult, tableVars
  <2> QED
    BY <1>2, <2>7 DEF RecordTypeOK
<1>b. CASE RecordBacktest(w)
  <2>1. work[w].stage = "loaded"
    BY <1>b DEF RecordBacktest, HandlerAt
  <2>2. runs' \subseteq RunRow
    BY <1>5, <1>6, <1>7, <1>8, <1>b, <2>1 DEF RecordBacktest
  <2>3. Rest
    BY <1>1, <1>4, <1>b, <2>1, <2>2 DEF RecordBacktest, RecordTypeOK, DoneHasResult, tableVars
  <2> QED
    BY <1>2, <2>3 DEF RecordTypeOK
<1>c. CASE ReadExtended(w)
  <2>1. /\ work[w].stage = "loaded"
        /\ Target(w) \in JobId /\ jobs[Target(w)].status = "done"
        /\ work' = [work EXCEPT ![w].stage = "read", ![w].old = result[Target(w)]]
    BY <1>3, <1>c DEF ReadExtended, HandlerAt, Extending, Target, RecordTypeOK
  <2>2. result[Target(w)] \in Result
    BY <2>1 DEF DoneHasResult
  <2>3. work' \in [Worker -> Handler] /\ \A v \in Worker : HandlerKnows(v)'
    BY <1>1, <1>3, <1>6, <2>1, <2>2 DEF RecordTypeOK, HandlerKnows, Handler, workerVars
  <2>4. Rest
    BY <1>1, <1>c, <2>3 DEF ReadExtended, RecordTypeOK, DoneHasResult, tableVars
  <2> QED
    BY <1>2, <2>4 DEF RecordTypeOK
<1>d. CASE WriteExtended(w)
  <2>1. work[w].stage = "read"
    BY <1>d DEF WriteExtended, HandlerAt
  <2>2. runs' \subseteq RunRow
    BY <1>5, <1>6, <1>7, <1>8, <1>d, <2>1 DEF WriteExtended
  <2> DEFINE new == Extended(work[w].old, work[w].windows, work[w].asOf)
  <2>3. new \in Result
    BY <1>6, <2>1, ExtendedTyped DEF RecordTypeOK, HandlerKnows
  <2>4. result' = [result EXCEPT ![Target(w)] = new]
    BY <1>d DEF WriteExtended
  <2> HIDE DEF new
  <2>5. result' \in [JobId -> Result \cup {None}] /\ DoneHasResult'
    BY <1>1, <2>3, <2>4 DEF RecordTypeOK, DoneHasResult, tableVars
  <2>6. Rest
    BY <1>4, <1>d, <2>1, <2>2, <2>5 DEF WriteExtended
  <2> QED
    BY <1>2, <2>6 DEF RecordTypeOK
<1>e. CASE RecordSweep(w)
  <2>1. work[w].stage = "loaded"
    BY <1>e DEF RecordSweep, HandlerAt
  <2>2. runs' \subseteq RunRow
    BY <1>5, <1>6, <1>7, <1>8, <1>e, <2>1 DEF RecordSweep, SweepRows
  <2>3. PICK stage \in {"recorded", "base"} : Reach(w, stage)
    BY <1>e DEF RecordSweep
  <2>4. Rest
    BY <1>1, <1>4, <1>e, <2>1, <2>2, <2>3 DEF RecordSweep, RecordTypeOK, DoneHasResult, tableVars
  <2> QED
    BY <1>2, <2>4 DEF RecordTypeOK
<1>f. CASE RecordBase(w)
  <2>1. work[w].stage = "base"
    BY <1>f DEF RecordBase, HandlerAt
  <2>2. DefaultWindows[work[w].asOf] \in Windows
    BY <1>6, <2>1, RecordsAssumption
  <2>3. runs' \subseteq RunRow
    BY <1>5, <1>6, <1>7, <1>8, <1>f, <2>1, <2>2 DEF RecordBase, SweepRows
  <2>4. Rest
    BY <1>1, <1>4, <1>f, <2>1, <2>3 DEF RecordBase, RecordTypeOK, DoneHasResult, tableVars
  <2> QED
    BY <1>2, <2>4 DEF RecordTypeOK
<1> QED
  BY <1>a, <1>b, <1>c, <1>d, <1>e, <1>f DEF HandlerStep

(* Its end, returning or raising: finish_job gives its job a result with   *)
(* the status.                                                             *)
LEMMA BaseFinish ==
  ASSUME BaseInv, NEW w \in Worker, NEW outcome \in {"done", "failed"}, NEW r \in Result \cup {None},
         Finish(w, outcome), outcome = "done" => r \in Result,
         result' = [result EXCEPT ![inHand[w]] = r],
         work' = [work EXCEPT ![w] = Fresh],
         UNCHANGED <<newest, asked, runs>>
  PROVE  BaseInv'
<1>1. TableTypeOK' /\ WorkerTypeOK' /\ HandsHoldRows' /\ ExtendsNameTests'
  BY BaseWorkers DEF WorkerSideStep
<1>2. inHand[w] \in JobId
  BY DEF Finish, BaseInv, TypeOK, WorkerTypeOK
<1>3. RecordTypeOK'
  <2>1. Fresh \in Handler
    BY DEF Fresh, Handler
  <2>2. result' \in [JobId -> Result \cup {None}] /\ work' \in [Worker -> Handler]
    BY <2>1 DEF BaseInv, TypeOK, RecordTypeOK
  <2>3. \A v \in Worker : HandlerKnows(v)'
    BY DEF Finish, Fresh, HandlerKnows, BaseInv, TypeOK, RecordTypeOK, WorkerTypeOK
  <2> QED
    BY <2>2, <2>3 DEF BaseInv, TypeOK, RecordTypeOK
<1>4. DoneHasResult'
  BY <1>2 DEF DoneHasResult, Finish, Finished, BaseInv, TypeOK, TableTypeOK, RecordTypeOK, Row
<1> QED
  BY <1>1, <1>3, <1>4 DEF BaseInv, TypeOK

LEMMA BaseDie ==
  ASSUME BaseInv, NEW w \in Worker, Die(w)
  PROVE  BaseInv'
<1>1. TableTypeOK' /\ WorkerTypeOK' /\ HandsHoldRows' /\ ExtendsNameTests'
  BY BaseWorkers DEF WorkerSideStep, Die
<1>2. RecordTypeOK'
  <2>1. Fresh \in Handler
    BY DEF Fresh, Handler
  <2>2. work' \in [Worker -> Handler]
    BY <2>1 DEF Die, BaseInv, TypeOK, RecordTypeOK
  <2>3. \A v \in Worker : HandlerKnows(v)'
    BY DEF Die, Disconnect, Fresh, HandlerKnows, BaseInv, TypeOK, RecordTypeOK, WorkerTypeOK
  <2> QED
    BY <2>2, <2>3 DEF Die, BaseInv, TypeOK, RecordTypeOK
<1>3. DoneHasResult'
  BY DEF DoneHasResult, Die, Disconnect, BaseInv
<1> QED
  BY <1>1, <1>2, <1>3 DEF BaseInv, TypeOK

LEMMA BaseStep ==
  ASSUME BaseInv, [Next]_vars
  PROVE  BaseInv'
<1>1. CASE NewBar
  BY <1>1 DEF NewBar, tableVars, workerVars, BaseInv, TypeOK, TableTypeOK, WorkerTypeOK,
              RecordTypeOK, HandlerKnows, HandsHoldRows, DoneHasResult, ExtendsNameTests
<1>2. CASE SubmitStep
  BY <1>2, BaseSubmit
<1>3. CASE QueueStep /\ UNCHANGED recordVars
  BY <1>3, BaseQueue
<1>4. ASSUME NEW w \in Worker, HandlerStep(w) PROVE BaseInv'
  BY <1>4, BaseHandler
<1>5. ASSUME NEW w \in Worker, Return(w) PROVE BaseInv'
  <2>1. work[w].asOf \in Bar /\ work[w].windows \in Windows
    BY <1>5 DEF Return, BaseInv, TypeOK, RecordTypeOK, HandlerKnows
  <2>2. ResultOf(inHand[w], work[w].windows, work[w].asOf) \in Result
    BY <2>1, ResultTyped
  <2> QED
    BY <1>5, <2>2, BaseFinish DEF Return
<1>6. ASSUME NEW w \in Worker, Raise(w) PROVE BaseInv'
  BY <1>6, BaseFinish DEF Raise
<1>7. ASSUME NEW w \in Worker, Die(w) PROVE BaseInv'
  BY <1>7, BaseDie
<1>8. CASE UNCHANGED vars
  BY <1>8 DEF vars, recordVars, tableVars, workerVars, BaseInv, TypeOK, TableTypeOK, WorkerTypeOK,
              RecordTypeOK, HandlerKnows, HandsHoldRows, DoneHasResult, ExtendsNameTests
<1> QED
  BY <1>1, <1>2, <1>3, <1>4, <1>5, <1>6, <1>7, <1>8, Steps

LEMMA BaseHolds == Spec => []BaseInv
  BY BaseInit, BaseStep, PTL DEF Spec

(* Every row, result and handler keeps its type: a job that is done has a  *)
(* result, and no handler uses a bar, a window or a result it has not yet  *)
(* read.                                                                   *)
THEOREM RecordsTyped == Spec => []TypeOK
<1>1. BaseInv => TypeOK
  BY DEF BaseInv
<1> QED
  BY <1>1, BaseHolds, PTL

-----------------------------------------------------------------------------
(* Pieces.  Between its commits a handler relies on what it has recorded   *)
(* before, or on the result it has read being of one piece: without this   *)
(* the two properties are not inductive.                                   *)

HandlerOfOnePiece(w) ==
  /\ work[w].stage = "read" =>
       Extending(w) /\ OfOnePiece(work[w].old) /\ work[w].old.windows = work[w].windows
  /\ work[w].stage = "recorded" /\ jobs[inHand[w]].kind = "backtest"
       /\ asked[inHand[w]].extend = None =>
       \A s \in SplitName : Recorded(s, Spans(work[w].windows, work[w].asOf)[s], Chosen)
  /\ work[w].stage = "base" => GridRecorded(work[w].windows, work[w].asOf)
  /\ work[w].stage = "recorded" /\ jobs[inHand[w]].kind = "sweep" =>
       RankedAndScored(work[w].windows, work[w].asOf)

PieceInv ==
  /\ BaseInv
  /\ \A w \in Worker : HandlerOfOnePiece(w)
  /\ ResultOfOnePiece
  /\ SweepOfOnePiece

JobOfOnePiece(j) ==
  /\ DoneTest(j) => OfOnePiece(result[j])
  /\ DoneSweep(j) => RankedAndScored(result[j].windows, result[j].asOf)

(* Rows are only added, so what is of one piece stays so.                  *)
LEMMA PieceStays ==
  ASSUME runs \subseteq runs', NEW r, OfOnePiece(r)
  PROVE  OfOnePiece(r)'
  BY DEF OfOnePiece, Recorded

LEMMA GridStays ==
  ASSUME runs \subseteq runs', NEW win, NEW a
  PROVE  /\ GridRecorded(win, a) => GridRecorded(win, a)'
         /\ RankedAndScored(win, a) => RankedAndScored(win, a)'
  BY DEF RankedAndScored, GridRecorded, Recorded

(* A handler that does nothing, and a job whose result is left alone.      *)
LEMMA HandlerFrame ==
  ASSUME runs \subseteq runs', NEW w \in Worker, HandlerOfOnePiece(w), work'[w] = work[w],
         work[w].stage # "start" =>
           /\ inHand'[w] = inHand[w]
           /\ jobs'[inHand[w]].kind = jobs[inHand[w]].kind
           /\ asked'[inHand[w]] = asked[inHand[w]]
  PROVE  HandlerOfOnePiece(w)'
<1>1. work[w].stage = "read" => OfOnePiece(work[w].old)' /\ work[w].old.windows = work[w].windows
  BY PieceStays DEF HandlerOfOnePiece
<1> QED
  BY <1>1, GridStays DEF HandlerOfOnePiece, Extending, OfOnePiece, Recorded, RankedAndScored, GridRecorded

LEMMA HandlerFresh ==
  ASSUME NEW w \in Worker, work'[w] = Fresh
  PROVE  HandlerOfOnePiece(w)'
  BY DEF HandlerOfOnePiece, Fresh

LEMMA JobFrame ==
  ASSUME runs \subseteq runs', NEW j \in JobId, JobOfOnePiece(j), result'[j] = result[j],
         jobs'[j].status = "done" => /\ jobs[j].status = "done"
                                     /\ jobs'[j].kind = jobs[j].kind
                                     /\ asked'[j] = asked[j]
  PROVE  JobOfOnePiece(j)'
  BY DEF JobOfOnePiece, DoneTest, DoneSweep, OfOnePiece, RankedAndScored, GridRecorded, Recorded

LEMMA PieceParts ==
  ASSUME \A w \in Worker : HandlerOfOnePiece(w)', \A j \in JobId : JobOfOnePiece(j)', BaseInv'
  PROVE  PieceInv'
  BY DEF PieceInv, JobOfOnePiece, ResultOfOnePiece, SweepOfOnePiece

LEMMA PieceSubmit ==
  ASSUME PieceInv, SubmitStep
  PROVE  PieceInv'
<1> USE DEF PieceInv
<1>1. PICK j \in JobId, kind \in {"backtest", "sweep"}, pair \in JobId \cup {None},
           windows \in Windows \cup {None}, extend \in JobId \cup {None}, p \in Nat :
        Submission(j, kind, pair, windows, extend, p)
  BY Submitted
<1>2. /\ jobs[j].status = "absent" /\ jobs'[j].status = "queued"
      /\ \A i \in JobId : i # j => jobs'[i] = jobs[i] /\ asked'[i] = asked[i]
  BY <1>1 DEF Submission, Insert, NextId, QueuedRow, Ask, BaseInv, TypeOK, TableTypeOK, RecordTypeOK
<1>3. UNCHANGED <<workerVars, result, runs, work>>
  BY <1>1 DEF Submission, Ask
<1>4. ASSUME NEW w \in Worker PROVE HandlerOfOnePiece(w)'
  <2>1. ASSUME work[w].stage # "start"
        PROVE  inHand[w] \in JobId /\ inHand[w] # j
    <3>1. at[w] = "handling"
      BY <2>1 DEF BaseInv, TypeOK, RecordTypeOK, HandlerKnows, Fresh
    <3> QED
      BY <1>2, <3>1 DEF BaseInv, TypeOK, WorkerTypeOK, HandsHoldRows
  <2> QED
    BY <1>2, <1>3, <2>1, HandlerFrame DEF workerVars
<1>5. ASSUME NEW i \in JobId PROVE JobOfOnePiece(i)'
  <2>1. JobOfOnePiece(i)
    BY DEF JobOfOnePiece, ResultOfOnePiece, SweepOfOnePiece
  <2> QED
    BY <1>2, <1>3, <2>1, JobFrame
<1> QED
  BY <1>4, <1>5, BaseSubmit, PieceParts

LEMMA PieceQueue ==
  ASSUME PieceInv, QueueStep, UNCHANGED recordVars
  PROVE  PieceInv'
<1> USE DEF PieceInv, recordVars
<1>1. \A j \in JobId : jobs'[j].kind = jobs[j].kind
  BY WorkerSideRows DEF QueueStep, WorkerSideStep, BaseInv, TypeOK
<1>2. ASSUME NEW w \in Worker PROVE HandlerOfOnePiece(w)'
  <2>1. ASSUME work[w].stage # "start"
        PROVE  inHand'[w] = inHand[w] /\ inHand[w] \in JobId
    <3>1. at[w] = "handling"
      BY <2>1 DEF BaseInv, TypeOK, RecordTypeOK, HandlerKnows, Fresh
    <3> QED
      BY <3>1, QueueKeeps DEF BaseInv, TypeOK, WorkerTypeOK
  <2> QED
    BY <1>1, <2>1, HandlerFrame
<1>3. ASSUME NEW j \in JobId PROVE JobOfOnePiece(j)'
  <2>1. JobOfOnePiece(j)
    BY DEF JobOfOnePiece, ResultOfOnePiece, SweepOfOnePiece
  <2>2. jobs'[j].status = "done" => jobs[j].status = "done"
    BY QueueKeeps
  <2> QED
    BY <1>1, <2>1, <2>2, JobFrame
<1> QED
  BY <1>2, <1>3, BaseQueue, PieceParts

(* A handler's steps: what it records, reads and writes.                   *)
LEMMA PieceHandler ==
  ASSUME PieceInv, NEW w \in Worker, HandlerStep(w)
  PROVE  PieceInv'
<1> USE DEF PieceInv
<1>1. UNCHANGED <<tableVars, workerVars, newest, asked>>
  BY DEF HandlerStep, Load, RecordBacktest, ReadExtended, WriteExtended, RecordSweep, RecordBase
<1>2. runs \subseteq runs'
  BY DEF HandlerStep, Load, RecordBacktest, ReadExtended, WriteExtended, RecordSweep,
         RecordBase, Inserted
<1>3. \A v \in Worker : v # w => work'[v] = work[v]
  BY DEF HandlerStep, Load, RecordBacktest, ReadExtended, WriteExtended, RecordSweep,
         RecordBase, Reach, BaseInv, TypeOK, RecordTypeOK
<1>4. \A v \in Worker : v # w => HandlerOfOnePiece(v)'
  BY <1>1, <1>2, <1>3, HandlerFrame DEF tableVars, workerVars
<1>5. \A j \in JobId : result'[j] = result[j] => JobOfOnePiece(j)'
  <2>1. \A j \in JobId : JobOfOnePiece(j)
    BY DEF JobOfOnePiece, ResultOfOnePiece, SweepOfOnePiece
  <2> QED
    BY <1>1, <1>2, <2>1, JobFrame DEF tableVars
<1>6. work \in [Worker -> Handler] /\ result \in [JobId -> Result \cup {None}]
  BY DEF BaseInv, TypeOK, RecordTypeOK
<1>7. BaseInv'
  BY BaseHandler
<1>8. /\ inHand'[w] = inHand[w] /\ jobs'[inHand[w]] = jobs[inHand[w]]
      /\ asked'[inHand[w]] = asked[inHand[w]]
  BY <1>1 DEF tableVars, workerVars
<1>a. CASE Load(w)
  <2>1. work'[w].stage = "loaded" /\ result' = result
    BY <1>6, <1>a DEF Load, Handler
  <2>2. HandlerOfOnePiece(w)'
    BY <2>1 DEF HandlerOfOnePiece
  <2> QED
    BY <1>4, <1>5, <1>7, <2>1, <2>2, PieceParts
<1>b. CASE RecordBacktest(w)
  <2>1. /\ work'[w].stage = "recorded" /\ work'[w].windows = work[w].windows
        /\ work'[w].asOf = work[w].asOf /\ result' = result
    BY <1>6, <1>b DEF RecordBacktest, Reach, Handler
  <2>2. jobs[inHand[w]].kind = "backtest" /\ SplitsOf(inHand[w]) = SplitName
    BY <1>b DEF RecordBacktest, HandlerAt, Extending, SplitsOf
  <2>3. \A s \in SplitName : \E row \in runs' :
          Key(row) = <<s, Spans(work[w].windows, work[w].asOf)[s], Chosen>>
    BY <1>b, <2>2, RowsRecorded DEF RecordBacktest
  <2>4. HandlerOfOnePiece(w)'
    BY <1>8, <2>1, <2>2, <2>3 DEF HandlerOfOnePiece, Recorded
  <2> QED
    BY <1>4, <1>5, <1>7, <2>1, <2>4, PieceParts
<1>c. CASE ReadExtended(w)
  <2>0. Extending(w)
    BY <1>c DEF ReadExtended
  <2>1. /\ Target(w) \in JobId /\ DoneTest(Target(w))
        /\ result[Target(w)].windows = work[w].windows
    BY <1>c DEF ReadExtended, HandlerAt, Extending, Target, DoneTest, BaseInv, TypeOK,
                RecordTypeOK, WorkerTypeOK, ExtendsNameTests
  <2>2. OfOnePiece(result[Target(w)])
    BY <2>1 DEF ResultOfOnePiece
  <2>3. /\ work'[w].stage = "read" /\ work'[w].old = result[Target(w)]
        /\ work'[w].windows = work[w].windows /\ result' = result
    BY <1>6, <1>c DEF ReadExtended, Handler
  <2>4. HandlerOfOnePiece(w)'
    BY <1>2, <1>8, <2>0, <2>1, <2>2, <2>3, PieceStays
       DEF HandlerOfOnePiece, Extending, OfOnePiece, Recorded
  <2> QED
    BY <1>4, <1>5, <1>7, <2>3, <2>4, PieceParts
<1>d. CASE WriteExtended(w)
  <2> DEFINE old == work[w].old
             win == work[w].windows
             a   == work[w].asOf
             new == Extended(old, win, a)
  <2>1. /\ work[w].stage = "read"
        /\ runs' = Inserted(RowsOf(inHand[w], win, a, Refreshed, {Chosen}))
        /\ result' = [result EXCEPT ![Target(w)] = new]
    BY <1>d DEF WriteExtended, HandlerAt
  <2>2. /\ old \in Result /\ a \in Bar /\ old.windows = win
        /\ OfOnePiece(old)
    BY <2>1 DEF BaseInv, TypeOK, RecordTypeOK, HandlerKnows, HandlerOfOnePiece
  <2>3. /\ new.asOf = a /\ new.windows = win /\ new.spans = Spans(win, a)
        /\ \A s \in SplitName \ Refreshed : new.spans[s] = old.spans[s]
    BY <2>2, ExtendedSpans DEF OfOnePiece
  <2>4. \A s \in SplitName : \E row \in runs' : Key(row) = <<s, new.spans[s], Chosen>>
    <3>1. \A s \in Refreshed : \E row \in runs' : Key(row) = <<s, Spans(win, a)[s], Chosen>>
      BY <2>1, RowsRecorded
    <3>2. \A s \in SplitName : \E row \in runs' : Key(row) = <<s, old.spans[s], Chosen>>
      BY <1>2, <2>2 DEF OfOnePiece, Recorded
    <3> QED
      BY <2>3, <3>1, <3>2
  <2>5. Target(w) \in JobId => jobs[Target(w)].kind = "backtest"
    <3>1. at[w] = "handling" /\ inHand[w] \in JobId
      BY <1>d DEF WriteExtended, HandlerAt, BaseInv, TypeOK, WorkerTypeOK
    <3> QED
      BY <3>1, TableAssumption DEF Target, BaseInv, ExtendsNameTests
  <2> HIDE DEF new
  <2>6. ASSUME NEW j \in JobId, j = Target(w) PROVE JobOfOnePiece(j)'
    <3>1. result'[j] = new /\ jobs'[j].kind = "backtest"
      BY <1>1, <1>6, <2>1, <2>5, <2>6 DEF tableVars
    <3> QED
      BY <2>3, <2>4, <3>1 DEF JobOfOnePiece, DoneSweep, OfOnePiece, Recorded
  <2>7. \A j \in JobId : JobOfOnePiece(j)'
    BY <1>5, <1>6, <2>1, <2>6
  <2>8. HandlerOfOnePiece(w)'
    <3>1. work'[w].stage = "recorded"
      BY <1>6, <1>d DEF WriteExtended, Reach, Handler
    <3>2. jobs[inHand[w]].kind = "backtest"
      BY <1>d DEF WriteExtended, HandlerAt
    <3>3. asked[inHand[w]].extend # None
      BY <2>1 DEF HandlerOfOnePiece, Extending
    <3> QED
      BY <1>8, <3>1, <3>2, <3>3 DEF HandlerOfOnePiece
  <2> QED
    BY <1>4, <1>7, <2>7, <2>8, PieceParts
<1>9. ASSUME NEW win, NEW a, runs' = Inserted(SweepRows(inHand[w], win, a))
      PROVE  \A s \in {"train", "test"}, x \in Setting :
               \E row \in runs' : Key(row) = <<s, Spans(win, a)[s], x>>
  BY <1>9, RowsRecorded DEF SweepRows
<1>e. CASE RecordSweep(w)
  <2> DEFINE win == work[w].windows
             a   == work[w].asOf
  <2>1. /\ result' = result
        /\ work'[w].windows = win /\ work'[w].asOf = a
        /\ work'[w].stage \in {"base", "recorded"}
        /\ work'[w].stage = "recorded" => win = DefaultWindows[a]
        /\ jobs[inHand[w]].kind = "sweep"
    BY <1>6, <1>e DEF RecordSweep, HandlerAt, Reach, Handler
  <2>2. \A s \in {"train", "test"}, x \in Setting :
          \E row \in runs' : Key(row) = <<s, Spans(win, a)[s], x>>
    BY <1>9, <1>e DEF RecordSweep
  <2>3. GridRecorded(work[w].windows, work[w].asOf)'
    BY <2>1, <2>2 DEF GridRecorded, Recorded
  <2>4. work'[w].stage = "recorded" => RankedAndScored(work[w].windows, work[w].asOf)'
    BY <2>1, <2>3 DEF RankedAndScored, GridRecorded, Recorded
  <2>5. HandlerOfOnePiece(w)'
    BY <1>8, <2>1, <2>3, <2>4 DEF HandlerOfOnePiece
  <2> QED
    BY <1>4, <1>5, <1>7, <2>1, <2>5, PieceParts
<1>f. CASE RecordBase(w)
  <2> DEFINE win == work[w].windows
             a   == work[w].asOf
  <2>1. /\ result' = result
        /\ work[w].stage = "base"
        /\ work'[w].windows = win /\ work'[w].asOf = a
        /\ work'[w].stage = "recorded"
        /\ jobs[inHand[w]].kind = "sweep"
    BY <1>6, <1>f DEF RecordBase, HandlerAt, Reach, Handler
  <2>2. \A s \in {"train", "test"}, x \in Setting :
          \E row \in runs' : Key(row) = <<s, Spans(DefaultWindows[a], a)[s], x>>
    BY <1>9, <1>f DEF RecordBase
  <2>3. \A s \in {"train", "test"}, x \in Setting :
          \E row \in runs' : Key(row) = <<s, Spans(win, a)[s], x>>
    BY <1>2, <2>1 DEF HandlerOfOnePiece, GridRecorded, Recorded
  <2>4. RankedAndScored(work[w].windows, work[w].asOf)'
    BY <2>1, <2>2, <2>3 DEF RankedAndScored, GridRecorded, Recorded
  <2>5. HandlerOfOnePiece(w)'
    BY <1>8, <2>1, <2>4 DEF HandlerOfOnePiece
  <2> QED
    BY <1>4, <1>5, <1>7, <2>1, <2>5, PieceParts
<1> QED
  BY <1>a, <1>b, <1>c, <1>d, <1>e, <1>f DEF HandlerStep

(* The end of a handler: only a returning one makes a job done.            *)
LEMMA PieceEnd ==
  ASSUME PieceInv, NEW w \in Worker, Return(w) \/ Raise(w) \/ Die(w)
  PROVE  PieceInv'
<1> USE DEF PieceInv
<1>1. /\ runs' = runs /\ asked' = asked /\ work' = [work EXCEPT ![w] = Fresh]
      /\ WorkerSideStep
      /\ \A v \in Worker : v # w => inHand'[v] = inHand[v]
  BY DEF Return, Raise, Die, Finish, Disconnect, WorkerSideStep, BaseInv, TypeOK, WorkerTypeOK
<1>2. \A j \in JobId : jobs'[j].kind = jobs[j].kind
  BY <1>1, WorkerSideRows DEF BaseInv, TypeOK
<1>3. ASSUME NEW v \in Worker PROVE HandlerOfOnePiece(v)'
  <2>1. CASE v = w
    BY <1>1, <2>1, HandlerFresh DEF BaseInv, TypeOK, RecordTypeOK
  <2>2. CASE v # w
    <3>1. work'[v] = work[v]
      BY <1>1, <2>2 DEF BaseInv, TypeOK, RecordTypeOK
    <3>2. work[v].stage # "start" => inHand[v] \in JobId
      BY DEF BaseInv, TypeOK, RecordTypeOK, WorkerTypeOK, HandlerKnows, Fresh
    <3> QED
      BY <1>1, <1>2, <2>2, <3>1, <3>2, HandlerFrame
  <2> QED
    BY <2>1, <2>2
<1>4. \A j \in JobId : JobOfOnePiece(j)
  BY DEF JobOfOnePiece, ResultOfOnePiece, SweepOfOnePiece
<1>5. ASSUME NEW j \in JobId, ~(Return(w) /\ j = inHand[w]) PROVE JobOfOnePiece(j)'
  <2>1. jobs'[j].status = "done" => jobs[j].status = "done" /\ result'[j] = result[j]
    BY <1>5 DEF Return, Raise, Die, Finish, Finished, Disconnect, BaseInv, TypeOK,
                TableTypeOK, WorkerTypeOK, RecordTypeOK, Row
  <2>2. CASE jobs'[j].status = "done"
    BY <1>1, <1>2, <1>4, <2>1, <2>2, JobFrame
  <2>3. CASE jobs'[j].status # "done"
    BY <2>3 DEF JobOfOnePiece, DoneTest, DoneSweep
  <2> QED
    BY <2>2, <2>3
<1>6. ASSUME NEW j \in JobId, Return(w), j = inHand[w] PROVE JobOfOnePiece(j)'
  <2> DEFINE win == work[w].windows
             a   == work[w].asOf
  <2>1. /\ result'[j] = ResultOf(j, win, a)
        /\ work[w].stage = "recorded"
    BY <1>6 DEF Return, BaseInv, TypeOK, RecordTypeOK
  <2>2. result'[j].windows = win /\ result'[j].asOf = a
    BY <2>1 DEF ResultOf
  <2>3. ASSUME jobs[j].kind = "backtest", asked[j].extend = None
        PROVE  result'[j].spans = Spans(win, a)
    BY <2>1, <2>3 DEF ResultOf, SplitsOf, Spans
  <2>4. ASSUME jobs[j].kind = "backtest", asked[j].extend = None, NEW s \in SplitName
        PROVE  Recorded(s, Spans(win, a)[s], Chosen)
    BY <1>6, <2>1, <2>4 DEF HandlerOfOnePiece
  <2>5. jobs[j].kind = "sweep" => RankedAndScored(win, a)
    BY <1>6, <2>1 DEF HandlerOfOnePiece
  <2>6. DoneTest(j)' => OfOnePiece(result[j])'
    BY <1>1, <1>2, <1>6, <2>2, <2>3, <2>4 DEF DoneTest, OfOnePiece, Recorded
  <2>7. DoneSweep(j)' => RankedAndScored(result[j].windows, result[j].asOf)'
    BY <1>1, <1>2, <1>6, <2>2, <2>5 DEF DoneSweep, RankedAndScored, GridRecorded, Recorded
  <2> QED
    BY <2>6, <2>7 DEF JobOfOnePiece
<1>7. BaseInv'
  BY BaseStep DEF Next
<1> QED
  BY <1>3, <1>5, <1>6, <1>7, PieceParts

LEMMA PieceStep ==
  ASSUME PieceInv, [Next]_vars
  PROVE  PieceInv'
<1>1. BaseInv'
  BY BaseStep DEF PieceInv
<1>2. ASSUME UNCHANGED <<jobs, inHand, asked, result, runs, work>> PROVE PieceInv'
  BY <1>1, <1>2 DEF PieceInv, HandlerOfOnePiece, Extending, ResultOfOnePiece, SweepOfOnePiece,
       DoneTest, DoneSweep, OfOnePiece, RankedAndScored, GridRecorded, Recorded
<1>3. CASE NewBar
  BY <1>2, <1>3 DEF NewBar, tableVars, workerVars
<1>4. CASE SubmitStep
  BY <1>4, PieceSubmit
<1>5. CASE QueueStep /\ UNCHANGED recordVars
  BY <1>5, PieceQueue
<1>6. ASSUME NEW w \in Worker, HandlerStep(w) PROVE PieceInv'
  BY <1>6, PieceHandler
<1>7. ASSUME NEW w \in Worker, Return(w) \/ Raise(w) \/ Die(w) PROVE PieceInv'
  BY <1>7, PieceEnd
<1>8. CASE UNCHANGED vars
  BY <1>2, <1>8 DEF vars, tableVars, workerVars, recordVars
<1> QED
  BY <1>3, <1>4, <1>5, <1>6, <1>7, <1>8, Steps

LEMMA PieceHolds == Spec => []PieceInv
<1>1. Init => PieceInv
  BY BaseInit DEF PieceInv, Init, TableInit, NoRow, Fresh, HandlerOfOnePiece,
       ResultOfOnePiece, SweepOfOnePiece, DoneTest, DoneSweep
<1> QED
  BY <1>1, PieceStep, PTL DEF Spec

(* Whatever workers, late ones included, extends and newer bars do in      *)
(* between, the result of a finished test has the spans of its own windows *)
(* as of its own bar, with every run it names in the table.                *)
THEOREM ResultsOfOnePiece == Spec => []ResultOfOnePiece
<1>1. PieceInv => ResultOfOnePiece
  BY DEF PieceInv
<1> QED
  BY <1>1, PieceHolds, PTL

(* A finished sweep has recorded its grid on the windows that rank it and  *)
(* on those that score it, as of the bar its result names.                 *)
THEOREM SweepsOfOnePiece == Spec => []SweepOfOnePiece
<1>1. PieceInv => SweepOfOnePiece
  BY DEF PieceInv
<1> QED
  BY <1>1, PieceHolds, PTL

-----------------------------------------------------------------------------
(* One worker for backtests.                                               *)

OneBacktester ==
  \A v, w \in Worker :
    "backtest" \in WorkerKinds[v] /\ "backtest" \in WorkerKinds[w] => v = w

HandsOfKind == \A w \in Worker : inHand[w] # None => jobs[inHand[w]].kind \in WorkerKinds[w]

HasBacktest(w) == inHand[w] # None /\ jobs[inHand[w]].kind = "backtest"

\* No backtest that has settled is claimed or still handled, so that only
\* an extend ever rewrites the result of a done one.
HandsOpen == \A w \in Worker : HasBacktest(w) => jobs[inHand[w]].status \in Open

ExtendsDone ==
  \A j \in JobId :
    asked[j].extend # None =>
      jobs[j].kind = "backtest" /\ jobs[asked[j].extend].status = "done"

NoResultYet == \A j \in JobId : jobs[j].status = "absent" => result[j] = None

\* Every test is at most as recent as a bar.
NoneAfter(a) ==
  \A j \in JobId : jobs[j].kind = "backtest" /\ result[j] # None => result[j].asOf <= a

\* What the handler of a backtest has read is still so: nobody else writes.
StillSo(w) ==
  HasBacktest(w) /\ work[w].stage # "start" =>
    /\ work[w].asOf <= newest
    /\ NoneAfter(work[w].asOf)
    /\ work[w].stage = "read" => result[Target(w)] = work[w].old
    /\ work[w].stage = "recorded" /\ Extending(w) => result[Target(w)].asOf = work[w].asOf

SoloRest ==
  /\ HandsOfKind /\ HandsOpen /\ ExtendsDone /\ NoResultYet
  /\ NoneAfter(newest)
  /\ \A w \in Worker : StillSo(w)
  /\ ExtendBringsUpToDate

SoloInv == PieceInv /\ SoloRest

LEMMA SoloTypes ==
  ASSUME SoloInv
  PROVE  /\ jobs \in [JobId -> Row]
         /\ inHand \in [Worker -> JobId \cup {None}]
         /\ at \in [Worker -> {"away", "idle", "claiming", "handling"}]
         /\ \A w \in Worker : at[w] \in {"claiming", "handling"} <=> inHand[w] # None
         /\ asked \in [JobId -> [windows : Windows \cup {None}, extend : JobId \cup {None}]]
         /\ result \in [JobId -> Result \cup {None}]
         /\ work \in [Worker -> Handler]
         /\ newest \in Nat
         /\ \A j \in JobId : result[j] # None => result[j].asOf \in Nat
         /\ \A w \in Worker : work[w].stage # "start" => at[w] = "handling" /\ work[w].asOf \in Nat
         /\ \A j \in JobId : jobs[j].status = "done" => result[j] # None
<1>1. BaseInv /\ Bar \subseteq Nat
  BY RecordsAssumption DEF SoloInv, PieceInv
<1>2. /\ jobs \in [JobId -> Row] /\ newest \in Nat
      /\ asked \in [JobId -> [windows : Windows \cup {None}, extend : JobId \cup {None}]]
      /\ result \in [JobId -> Result \cup {None}]
      /\ work \in [Worker -> Handler]
  BY <1>1 DEF BaseInv, TypeOK, TableTypeOK, RecordTypeOK
<1>3. /\ inHand \in [Worker -> JobId \cup {None}]
      /\ at \in [Worker -> {"away", "idle", "claiming", "handling"}]
      /\ \A w \in Worker : at[w] \in {"claiming", "handling"} <=> inHand[w] # None
  BY <1>1 DEF BaseInv, TypeOK, WorkerTypeOK
<1>4. \A j \in JobId : result[j] # None => result[j].asOf \in Nat
  BY <1>1, <1>2 DEF Result
<1>5. \A w \in Worker : work[w].stage # "start" => at[w] = "handling" /\ work[w].asOf \in Nat
  <2> SUFFICES ASSUME NEW w \in Worker, work[w].stage # "start"
               PROVE  at[w] = "handling" /\ work[w].asOf \in Nat
    OBVIOUS
  <2>1. HandlerKnows(w)
    BY <1>1 DEF BaseInv, TypeOK, RecordTypeOK
  <2>2. at[w] = "handling"
    BY <2>1 DEF HandlerKnows, Fresh
  <2> QED
    BY <1>1, <2>1, <2>2 DEF HandlerKnows
<1>6. \A j \in JobId : jobs[j].status = "done" => result[j] # None
  BY <1>1, NullAssumption DEF BaseInv, DoneHasResult
<1> QED
  BY <1>2, <1>3, <1>4, <1>5, <1>6

(* A step of the queue alone.                                              *)
LEMMA SoloQueue ==
  ASSUME SoloInv, OneBacktester, QueueStep, UNCHANGED recordVars
  PROVE  SoloRest'
<1>t. /\ jobs \in [JobId -> Row] /\ inHand \in [Worker -> JobId \cup {None}]
      /\ at \in [Worker -> {"away", "idle", "claiming", "handling"}]
      /\ \A w \in Worker : at[w] \in {"claiming", "handling"} <=> inHand[w] # None
      /\ asked \in [JobId -> [windows : Windows \cup {None}, extend : JobId \cup {None}]]
  BY SoloTypes
<1>0. BaseInv /\ HandsHoldRows /\ ExtendsNameTests
  BY DEF SoloInv, PieceInv, BaseInv
<1>1. \A j \in JobId : /\ jobs'[j].kind = jobs[j].kind
                       /\ jobs'[j].status = "absent" <=> jobs[j].status = "absent"
                       /\ jobs'[j].status = "done" => jobs[j].status = "done"
  BY <1>0, WorkerSideRows, QueueKeeps DEF QueueStep, WorkerSideStep, BaseInv, TypeOK
<1>2. \A w \in Worker : work[w].stage # "start" => inHand'[w] = inHand[w]
  BY QueueKeeps, SoloTypes, <1>0
\* A backtest's row is claimed by the one worker there is for it.
<1>3. /\ HandsOfKind'
      /\ HandsOpen'
      /\ \A j \in JobId : jobs[j].kind = "backtest" /\ jobs[j].status = "done"
                            => jobs'[j].status = "done"
  <2> DEFINE Goal == /\ HandsOfKind'
                     /\ HandsOpen'
                     /\ \A j \in JobId : jobs[j].kind = "backtest" /\ jobs[j].status = "done"
                                           => jobs'[j].status = "done"
  <2>0. HandsOfKind /\ HandsOpen
    BY DEF SoloInv, SoloRest
  <2>1. ASSUME NEW v \in Worker, Connect(v) PROVE Goal
    <3>1. inHand' = inHand
      BY <2>1 DEF Connect
    <3>2. \A j \in JobId : jobs'[j] = jobs[j] \/ (jobs[j].status = "running" /\ jobs'[j].status = "queued")
      <4> SUFFICES ASSUME NEW j \in JobId, Stale(jobs[j]), jobs'[j] = Requeued(jobs[j])
                   PROVE  jobs[j].status = "running" /\ jobs'[j].status = "queued"
        BY <2>1 DEF Connect
      <4> QED
        BY <1>t DEF Stale, Requeued, Row
    <3> QED
      BY <1>t, <1>1, <2>0, <3>1, <3>2 DEF HandsOfKind, HandsOpen, HasBacktest, Open
  <2>2. ASSUME NEW v \in Worker, LockNext(v) PROVE Goal
    <3>1. PICK j \in JobId : /\ jobs[j].status = "queued" /\ jobs[j].kind \in WorkerKinds[v]
                            /\ inHand' = [inHand EXCEPT ![v] = j]
      BY <2>2 DEF LockNext, NextClaim, Claimable
    <3>2. jobs' = jobs
      BY <2>2 DEF LockNext
    <3> QED
      BY <1>t, <2>0, <3>1, <3>2 DEF HandsOfKind, HandsOpen, HasBacktest, Open
  <2>3. ASSUME NEW v \in Worker, CommitClaim(v) PROVE Goal
    <3>1. /\ inHand[v] \in JobId /\ inHand' = inHand
          /\ jobs' = [jobs EXCEPT ![inHand[v]] = Claimed(jobs[inHand[v]], v)]
      BY <1>t, <2>3 DEF CommitClaim
    <3>2. jobs'[inHand[v]].status = "running"
      BY <1>t, <3>1 DEF Claimed, Row
    <3>3. HandsOfKind' /\ HandsOpen'
      BY <1>t, <1>1, <2>0, <3>1, <3>2 DEF HandsOfKind, HandsOpen, HasBacktest, Open
    <3>4. jobs[inHand[v]].kind = "backtest" => jobs[inHand[v]].status # "done"
      BY <1>t, <2>0, <3>1, TableAssumption DEF HandsOpen, HasBacktest, Open
    <3> QED
      BY <1>t, <3>1, <3>3, <3>4
  <2>4. ASSUME NEW k \in JobId, HalfHourPasses(k) PROVE Goal
    BY <1>t, <2>0, <2>4 DEF HalfHourPasses, Row, HandsOfKind, HandsOpen, HasBacktest, Open
  <2> QED
    BY <2>1, <2>2, <2>3, <2>4 DEF QueueStep
<1>4. ExtendsDone'
  BY <1>t, <1>0, <1>1, <1>3 DEF SoloInv, SoloRest, ExtendsDone, ExtendsNameTests, recordVars
<1>5. NoResultYet' /\ NoneAfter(newest)'
  BY <1>1 DEF SoloInv, SoloRest, NoResultYet, NoneAfter, recordVars
<1>6. ASSUME NEW w \in Worker PROVE StillSo(w)'
  BY <1>t, <1>1, <1>2, <1>6 DEF SoloInv, SoloRest, StillSo, HasBacktest, NoneAfter, Target, Extending, recordVars
<1>7. ExtendBringsUpToDate'
  BY <1>1 DEF SoloInv, SoloRest, ExtendBringsUpToDate, recordVars
<1> QED
  BY <1>3, <1>4, <1>5, <1>6, <1>7 DEF SoloRest

(* A submission: an extend names a done test, and nothing is rewritten.    *)
LEMMA SoloSubmit ==
  ASSUME SoloInv, SubmitStep
  PROVE  SoloRest'
<1>0. BaseInv /\ HandsHoldRows /\ ExtendsNameTests /\ SoloRest
  BY DEF SoloInv, PieceInv, BaseInv
<1>t. /\ jobs \in [JobId -> Row] /\ inHand \in [Worker -> JobId \cup {None}]
      /\ asked \in [JobId -> [windows : Windows \cup {None}, extend : JobId \cup {None}]]
      /\ \A w \in Worker : at[w] \in {"claiming", "handling"} <=> inHand[w] # None
      /\ \A w \in Worker : work[w].stage # "start" => at[w] = "handling"
  BY SoloTypes
<1>1. PICK j \in JobId, kind \in {"backtest", "sweep"}, pair \in JobId \cup {None},
           windows \in Windows \cup {None}, extend \in JobId \cup {None}, p \in Nat :
        Submission(j, kind, pair, windows, extend, p)
  BY <1>0, Submitted
<1>2. /\ jobs[j].status = "absent" /\ jobs'[j].status = "queued" /\ jobs'[j].kind = kind
      /\ asked'[j].extend = extend
      /\ \A i \in JobId : i # j => jobs'[i] = jobs[i] /\ asked'[i] = asked[i]
      /\ extend # None => extend # j /\ kind = "backtest" /\ jobs[extend].status = "done"
  BY <1>t, <1>1 DEF Submission, Insert, NextId, QueuedRow, Ask
<1>3. UNCHANGED <<workerVars, newest, result, work>>
  BY <1>1 DEF Submission, Ask
<1>4. \A w \in Worker : inHand[w] # None => inHand[w] \in JobId /\ inHand[w] # j
  BY <1>t, <1>0, <1>2 DEF HandsHoldRows
<1>5. HandsOfKind' /\ HandsOpen'
  BY <1>0, <1>2, <1>3, <1>4 DEF SoloRest, HandsOfKind, HandsOpen, HasBacktest, workerVars
<1>6. ExtendsDone'
  <2> SUFFICES ASSUME NEW i \in JobId, asked'[i].extend # None
               PROVE  jobs'[i].kind = "backtest" /\ jobs'[asked'[i].extend].status = "done"
    BY DEF ExtendsDone
  <2>1. CASE i = j
    BY <1>2, <2>1
  <2>2. CASE i # j
    <3>1. /\ asked'[i].extend = asked[i].extend /\ jobs'[i] = jobs[i]
          /\ jobs[i].kind = "backtest" /\ jobs[asked[i].extend].status = "done"
          /\ asked[i].extend \in JobId
      BY <1>t, <1>0, <1>2, <2>2 DEF SoloRest, ExtendsDone
    <3> QED
      BY <1>2, <3>1
  <2> QED
    BY <2>1, <2>2
<1>7. \A i \in JobId : jobs'[i].status = "absent" => jobs[i].status = "absent"
  BY <1>2
<1>8. NoResultYet'
  BY <1>0, <1>3, <1>7 DEF SoloRest, NoResultYet
<1>9. \A a : NoneAfter(a) => \A i \in JobId : jobs'[i].kind = "backtest" /\ result[i] # None => result[i].asOf <= a
  BY <1>0, <1>2 DEF SoloRest, NoResultYet, NoneAfter
<1>10. NoneAfter(newest)'
  BY <1>0, <1>3, <1>9 DEF SoloRest, NoneAfter
<1>11. ASSUME NEW w \in Worker PROVE StillSo(w)'
  <2> SUFFICES ASSUME HasBacktest(w)', work'[w].stage # "start" PROVE StillSo(w)'
    BY DEF StillSo
  <2>1. work[w].stage # "start" /\ inHand'[w] = inHand[w] /\ work'[w] = work[w]
    BY <1>3 DEF workerVars
  <2>2. inHand[w] \in JobId /\ inHand[w] # j
    BY <1>t, <1>4, <2>1
  <2>3. HasBacktest(w) /\ Extending(w)' = Extending(w) /\ Target(w)' = Target(w)
    BY <1>2, <2>1, <2>2 DEF HasBacktest, Extending, Target
  <2>4. StillSo(w) /\ NoneAfter(work[w].asOf)
    BY <1>0, <2>1, <2>3 DEF SoloRest, StillSo
  <2>5. NoneAfter(work[w].asOf)'
    BY <1>3, <1>9, <2>1, <2>4 DEF NoneAfter
  <2> QED
    BY <1>3, <2>1, <2>3, <2>4, <2>5 DEF StillSo
<1>12. ExtendBringsUpToDate'
  <2>1. \A i \in JobId : jobs'[i].status = "done" => i # j /\ jobs[i].status = "done"
    BY <1>2
  <2> QED
    BY <1>0, <1>2, <1>3, <2>1 DEF SoloRest, ExtendBringsUpToDate
<1> QED
  BY <1>5, <1>6, <1>8, <1>10, <1>11, <1>12 DEF SoloRest

(* A handler between its commits: a sweep's touches no test, and the one   *)
(* worker's brings the test it extends up to its own bar.                  *)
LEMMA SoloHandler ==
  ASSUME SoloInv, OneBacktester, NEW w \in Worker, HandlerStep(w)
  PROVE  SoloRest'
<1>0. SoloRest /\ PieceInv /\ ExtendsNameTests
  BY DEF SoloInv, PieceInv, BaseInv
<1>t. /\ jobs \in [JobId -> Row] /\ inHand \in [Worker -> JobId \cup {None}]
      /\ asked \in [JobId -> [windows : Windows \cup {None}, extend : JobId \cup {None}]]
      /\ result \in [JobId -> Result \cup {None}]
      /\ work \in [Worker -> Handler]
      /\ newest \in Nat
      /\ \A j \in JobId : result[j] # None => result[j].asOf \in Nat
      /\ \A v \in Worker : work[v].stage # "start" => work[v].asOf \in Nat
      /\ \A j \in JobId : jobs[j].status = "done" => result[j] # None
      /\ inHand[w] \in JobId
  BY SoloTypes DEF HandlerStep, HandlerAt, Load, RecordBacktest, ReadExtended, WriteExtended,
       RecordSweep, RecordBase
<1>1. UNCHANGED <<tableVars, workerVars, newest, asked>>
  BY DEF HandlerStep, Load, RecordBacktest, ReadExtended, WriteExtended, RecordSweep, RecordBase
<1>2. \A v \in Worker : v # w => work'[v] = work[v]
  BY <1>t DEF HandlerStep, Load, RecordBacktest, ReadExtended, WriteExtended, RecordSweep,
         RecordBase, Reach
<1>3. HandsOfKind' /\ HandsOpen' /\ ExtendsDone'
  BY <1>0, <1>1 DEF SoloRest, HandsOfKind, HandsOpen, HasBacktest, ExtendsDone, tableVars, workerVars
\* When no result changes, only what w knows has to be looked at.
<1>same. ASSUME result' = result, StillSo(w)' PROVE SoloRest'
  <2>1. NoResultYet' /\ NoneAfter(newest)' /\ ExtendBringsUpToDate'
    BY <1>0, <1>1, <1>same DEF SoloRest, NoResultYet, NoneAfter, ExtendBringsUpToDate, tableVars
  <2>2. ASSUME NEW v \in Worker PROVE StillSo(v)'
    <3>1. CASE v = w
      BY <1>same, <3>1
    <3>2. CASE v # w
      BY <1>0, <1>1, <1>2, <1>same, <3>2
         DEF SoloRest, StillSo, HasBacktest, NoneAfter, Target, Extending, tableVars, workerVars
    <3> QED
      BY <3>1, <3>2
  <2> QED
    BY <1>3, <2>1, <2>2 DEF SoloRest
<1>4. \/ ~HasBacktest(w)'
      \/ HasBacktest(w) /\ StillSo(w)
  BY <1>0, <1>1 DEF SoloRest, HasBacktest, tableVars, workerVars
<1>a. CASE Load(w)
  <2>1. work'[w].stage = "loaded" /\ work'[w].asOf = newest /\ result' = result
    BY <1>t, <1>a DEF Load, Handler
  <2>2. StillSo(w)'
    BY <1>0, <1>1, <1>t, <2>1 DEF SoloRest, StillSo, NoneAfter, tableVars
  <2> QED
    BY <1>same, <2>1, <2>2
<1>b. CASE RecordBacktest(w)
  <2>1. /\ work'[w].stage = "recorded" /\ work[w].stage = "loaded"
        /\ work'[w].asOf = work[w].asOf /\ result' = result
        /\ ~Extending(w)
    BY <1>t, <1>b DEF RecordBacktest, HandlerAt, Reach, Handler
  <2>2. ~Extending(w)'
    BY <1>1, <2>1 DEF Extending, workerVars
  <2>3. StillSo(w)'
    BY <1>1, <1>4, <2>1, <2>2 DEF StillSo, NoneAfter, tableVars
  <2> QED
    BY <1>same, <2>1, <2>3
<1>c. CASE ReadExtended(w)
  <2>1. /\ work'[w].stage = "read" /\ work[w].stage = "loaded"
        /\ work'[w].asOf = work[w].asOf /\ result' = result
        /\ work'[w].old = result[Target(w)]
    BY <1>t, <1>c DEF ReadExtended, HandlerAt, Handler
  <2>2. Target(w)' = Target(w)
    BY <1>1 DEF Target, workerVars
  <2>3. StillSo(w)'
    BY <1>1, <1>4, <2>1, <2>2 DEF StillSo, NoneAfter, tableVars
  <2> QED
    BY <1>same, <2>1, <2>3
<1>d. CASE WriteExtended(w)
  <2> DEFINE b == Target(w)
             a == work[w].asOf
             new == Extended(work[w].old, work[w].windows, a)
  <2>1. /\ work[w].stage = "read" /\ HasBacktest(w)
        /\ result' = [result EXCEPT ![b] = new]
        /\ work'[w].stage = "recorded" /\ work'[w].asOf = a
    BY <1>t, <1>d, TableAssumption DEF WriteExtended, HandlerAt, Reach, Handler, HasBacktest
  <2>2. Extending(w) /\ work[w].old \in Result
    BY <1>0, <2>1 DEF PieceInv, HandlerOfOnePiece, BaseInv, TypeOK, RecordTypeOK, HandlerKnows
  <2>3. /\ b \in JobId /\ jobs[b].kind = "backtest" /\ asked[b].extend = None
        /\ jobs[b].status = "done"
    BY <1>0, <1>t, <2>2 DEF Extending, Target, ExtendsNameTests, SoloRest, ExtendsDone
  <2>4. new.asOf = a /\ a \in Nat
    BY <1>t, <2>1, <2>2 DEF Extended, Result
  <2> HIDE DEF b, a, new
  <2>5. StillSo(w) /\ a <= newest /\ NoneAfter(a)
    BY <1>0, <2>1 DEF SoloRest, StillSo, a
  <2>6. result'[b] = new /\ \A j \in JobId : j # b => result'[j] = result[j]
    BY <1>t, <2>1, <2>3
  <2>7. NoResultYet'
    BY <1>0, <1>1, <2>3, <2>6 DEF SoloRest, NoResultYet, tableVars
  <2>8. \A j \in JobId : jobs'[j].kind = "backtest" /\ result'[j] # None => result'[j].asOf <= a
    BY <1>1, <2>4, <2>5, <2>6 DEF NoneAfter, tableVars
  <2>9. NoneAfter(newest)'
    BY <1>0, <1>1, <2>4, <2>5, <2>6 DEF SoloRest, NoneAfter, tableVars
  <2>10. ASSUME NEW v \in Worker PROVE StillSo(v)'
    <3>1. CASE v = w
      <4>1. Target(w)' = b
        BY <1>1 DEF Target, workerVars, b
      <4>2. work'[w].stage = "recorded" /\ work'[w].asOf = a /\ newest' = newest
        BY <1>1, <2>1
      <4>3. NoneAfter(work[w].asOf)'
        BY <2>8, <4>2 DEF NoneAfter
      <4>4. result'[Target(w)'].asOf = a
        BY <2>4, <2>6, <4>1
      <4> QED
        BY <2>5, <3>1, <4>2, <4>3, <4>4 DEF StillSo
    <3>2. CASE v # w
      <4>1. ~HasBacktest(v)
        BY <1>0, <1>t, <2>1, <3>2 DEF SoloRest, HandsOfKind, HasBacktest, OneBacktester
      <4> QED
        BY <1>1, <4>1 DEF StillSo, HasBacktest, tableVars, workerVars
    <3> QED
      BY <3>1, <3>2
  <2>11. ExtendBringsUpToDate'
    <3> SUFFICES ASSUME NEW e \in JobId, jobs[e].status = "done", asked[e].extend # None
                 PROVE  result'[asked[e].extend].asOf >= result'[e].asOf
      BY <1>1 DEF ExtendBringsUpToDate, tableVars
    <3>1. e # b /\ result'[e] = result[e] /\ result[e] # None /\ jobs[e].kind = "backtest"
      BY <1>0, <1>t, <2>3, <2>6 DEF SoloRest, ExtendsDone
    <3>2. CASE asked[e].extend = b
      <4>1. result[e].asOf <= a /\ result[e].asOf \in Nat
        BY <1>t, <2>5, <3>1 DEF NoneAfter
      <4> QED
        BY <2>4, <2>6, <3>1, <3>2, <4>1
    <3>3. CASE asked[e].extend # b
      BY <1>0, <1>t, <2>6, <3>1, <3>3 DEF SoloRest, ExtendBringsUpToDate
    <3> QED
      BY <3>2, <3>3
  <2> QED
    BY <1>3, <2>7, <2>9, <2>10, <2>11 DEF SoloRest
<1>e. CASE RecordSweep(w) \/ RecordBase(w)
  <2>1. jobs[inHand[w]].kind # "backtest" /\ result' = result
    BY <1>e DEF RecordSweep, RecordBase, HandlerAt
  <2>2. StillSo(w)'
    BY <1>1, <2>1 DEF StillSo, HasBacktest, tableVars, workerVars
  <2> QED
    BY <1>same, <2>1, <2>2
<1> QED
  BY <1>a, <1>b, <1>c, <1>d, <1>e DEF HandlerStep

(* The end of a handler.                                                   *)
LEMMA SoloEnd ==
  ASSUME SoloInv, OneBacktester, NEW w \in Worker, Return(w) \/ Raise(w) \/ Die(w)
  PROVE  SoloRest'
<1> DEFINE j == inHand[w]
           Ends == Return(w) \/ Raise(w)
<1>0. SoloRest /\ BaseInv /\ HandsHoldRows /\ ExtendsNameTests
  BY DEF SoloInv, PieceInv, BaseInv
<1>t. /\ jobs \in [JobId -> Row] /\ inHand \in [Worker -> JobId \cup {None}]
      /\ at \in [Worker -> {"away", "idle", "claiming", "handling"}]
      /\ \A v \in Worker : at[v] \in {"claiming", "handling"} <=> inHand[v] # None
      /\ asked \in [JobId -> [windows : Windows \cup {None}, extend : JobId \cup {None}]]
      /\ result \in [JobId -> Result \cup {None}]
      /\ work \in [Worker -> Handler]
      /\ newest \in Nat
      /\ \A i \in JobId : result[i] # None => result[i].asOf \in Nat
      /\ \A v \in Worker : work[v].stage # "start" => work[v].asOf \in Nat
  BY SoloTypes
<1>1. /\ asked' = asked /\ newest' = newest
      /\ inHand' = [inHand EXCEPT ![w] = None]
      /\ work' = [work EXCEPT ![w] = Fresh]
      /\ WorkerSideStep
  BY DEF Return, Raise, Die, Finish, Disconnect, WorkerSideStep
<1>2. \A i \in JobId : /\ jobs'[i].kind = jobs[i].kind
                       /\ jobs'[i].status = "absent" <=> jobs[i].status = "absent"
  BY <1>0, <1>1, WorkerSideRows DEF BaseInv, TypeOK
\* Only the row in hand changes, in status and result.
<1>3. \A i \in JobId : (Ends /\ i = j) \/ (jobs'[i] = jobs[i] /\ result'[i] = result[i])
  BY <1>t DEF Return, Raise, Die, Finish, Disconnect
<1>4. Ends => j \in JobId /\ jobs[j].status # "absent"
  BY <1>0, <1>t, TableAssumption DEF Return, Raise, Finish, HandsHoldRows
<1>5. Ends /\ jobs[j].kind = "backtest" => HasBacktest(w) /\ jobs[j].status \in Open
  BY <1>0, <1>4, TableAssumption DEF HasBacktest, HandsOpen, SoloRest
<1>6. \A i \in JobId : jobs[i].kind = "backtest" /\ jobs[i].status = "done"
                         => jobs'[i] = jobs[i] /\ result'[i] = result[i] /\ ~(Ends /\ i = j)
  BY <1>3, <1>5 DEF Open
<1>7. \A v \in Worker : inHand'[v] # None => v # w /\ inHand'[v] = inHand[v]
  BY <1>t, <1>1
<1>8. \A v \in Worker : v # w /\ HasBacktest(v) =>
        /\ ~HasBacktest(w)
        /\ \A i \in JobId : jobs[i].kind = "backtest" => jobs'[i] = jobs[i] /\ result'[i] = result[i]
  <2>1. \A v \in Worker : v # w /\ HasBacktest(v) => ~HasBacktest(w)
    BY <1>0, <1>t DEF SoloRest, HandsOfKind, HasBacktest, OneBacktester
  <2> QED
    BY <1>3, <1>5, <2>1
<1>9. HandsOfKind'
  BY <1>0, <1>t, <1>2, <1>7 DEF SoloRest, HandsOfKind
<1>10. \A v \in Worker : HasBacktest(v)' => v # w /\ HasBacktest(v) /\ inHand'[v] = inHand[v]
  BY <1>t, <1>2, <1>7 DEF HasBacktest
<1>11. HandsOpen'
  BY <1>0, <1>t, <1>8, <1>10 DEF SoloRest, HandsOpen, HasBacktest
<1>12. ExtendsDone'
  BY <1>0, <1>t, <1>1, <1>2, <1>6 DEF SoloRest, ExtendsDone, ExtendsNameTests
<1>13. NoResultYet'
  BY <1>0, <1>2, <1>3, <1>4 DEF SoloRest, NoResultYet
<1>14. NoneAfter(newest)'
  <2> SUFFICES ASSUME NEW i \in JobId, jobs[i].kind = "backtest", result'[i] # None
               PROVE  result'[i].asOf <= newest
    BY <1>1, <1>2 DEF NoneAfter
  <2>1. CASE result'[i] = result[i]
    BY <1>0, <2>1 DEF SoloRest, NoneAfter
  <2>2. CASE Return(w) /\ i = j
    <3>1. result'[i].asOf = work[w].asOf /\ work[w].stage = "recorded"
      BY <1>t, <1>4, <2>2 DEF Return, ResultOf
    <3>2. HasBacktest(w)
      BY <1>5, <2>2
    <3> QED
      BY <1>0, <3>1, <3>2 DEF SoloRest, StillSo
  <2>3. CASE Raise(w) /\ i = j
    BY <1>t, <1>4, <2>3 DEF Raise
  <2> QED
    BY <1>3, <2>1, <2>2, <2>3
<1>15. ASSUME NEW v \in Worker PROVE StillSo(v)'
  <2> SUFFICES ASSUME HasBacktest(v)', work'[v].stage # "start" PROVE StillSo(v)'
    BY DEF StillSo
  <2>1. v # w /\ HasBacktest(v) /\ inHand'[v] = inHand[v] /\ work'[v] = work[v]
    BY <1>t, <1>1, <1>10
  <2>2. \A i \in JobId : jobs[i].kind = "backtest" => jobs'[i] = jobs[i] /\ result'[i] = result[i]
    BY <1>8, <2>1
  <2>3. StillSo(v) /\ NoneAfter(work[v].asOf) /\ work[v].asOf <= newest
    BY <1>0, <2>1 DEF SoloRest, StillSo
  <2>4. NoneAfter(work[v].asOf)'
    BY <1>2, <2>1, <2>2, <2>3 DEF NoneAfter
  <2>5. /\ Extending(v)' = Extending(v) /\ Target(v)' = Target(v) /\ inHand[v] \in JobId
    BY <1>1, <1>t, <2>1 DEF Extending, Target, HasBacktest
  <2>6. Extending(v) => result'[Target(v)] = result[Target(v)]
    BY <1>0, <1>t, <2>2, <2>5 DEF Extending, Target, ExtendsNameTests
  <2>7. work[v].stage = "read" => Extending(v)
    BY DEF SoloInv, PieceInv, HandlerOfOnePiece
  <2> QED
    BY <1>1, <2>1, <2>3, <2>4, <2>5, <2>6, <2>7 DEF StillSo
<1>16. ExtendBringsUpToDate'
  <2> SUFFICES ASSUME NEW e \in JobId, jobs'[e].status = "done", asked[e].extend # None
               PROVE  result'[asked[e].extend].asOf >= result'[e].asOf
    BY <1>1 DEF ExtendBringsUpToDate
  <2> DEFINE b == asked[e].extend
  <2>1. /\ b \in JobId /\ jobs[e].kind = "backtest" /\ jobs[b].status = "done"
        /\ jobs[b].kind = "backtest" /\ result'[b] = result[b]
    BY <1>0, <1>t, <1>6 DEF SoloRest, ExtendsDone, ExtendsNameTests
  <2>2. CASE jobs'[e] = jobs[e] /\ result'[e] = result[e]
    BY <1>0, <2>1, <2>2 DEF SoloRest, ExtendBringsUpToDate
  <2>3. CASE Return(w) /\ e = j
    <3>1. result'[e].asOf = work[w].asOf /\ work[w].stage = "recorded"
      BY <1>t, <1>4, <2>3 DEF Return, ResultOf
    <3>2. HasBacktest(w) /\ Extending(w) /\ Target(w) = b
      BY <1>5, <2>1, <2>3 DEF Extending, Target
    <3>3. result[b].asOf = work[w].asOf /\ work[w].asOf \in Nat
      BY <1>0, <1>t, <3>1, <3>2 DEF SoloRest, StillSo
    <3> QED
      BY <2>1, <3>1, <3>3
  <2>4. CASE Raise(w) /\ e = j
    <3>1. jobs'[e].status # "done"
      BY <1>t, <1>4, <1>5, <2>1, <2>4 DEF Raise, Finish, Finished, Row, Open
    <3> QED
      BY <3>1
  <2> QED
    BY <1>3, <2>2, <2>3, <2>4
<1> QED
  BY <1>9, <1>11, <1>12, <1>13, <1>14, <1>15, <1>16 DEF SoloRest

LEMMA SoloStep ==
  ASSUME SoloInv, OneBacktester, [Next]_vars
  PROVE  SoloInv'
<1>1. PieceInv'
  BY PieceStep DEF SoloInv
<1>2. SoloRest'
  <2>1. CASE NewBar
    <3>1. /\ UNCHANGED <<tableVars, workerVars, asked, result, runs, work>>
          /\ newest' = newest + 1 /\ newest \in Nat
      BY <2>1, SoloTypes DEF NewBar
    <3>2. NoneAfter(newest)'
      BY <3>1, SoloTypes DEF SoloInv, SoloRest, NoneAfter, tableVars
    <3>3. \A w \in Worker : StillSo(w)'
      BY <3>1, SoloTypes
         DEF SoloInv, SoloRest, StillSo, HasBacktest, NoneAfter, Target, Extending, tableVars, workerVars
    <3> QED
      BY <3>1, <3>2, <3>3
         DEF SoloInv, SoloRest, HandsOfKind, HandsOpen, HasBacktest, ExtendsDone, NoResultYet,
             ExtendBringsUpToDate, tableVars, workerVars
  <2>2. CASE UNCHANGED vars
    BY <2>2 DEF SoloInv, SoloRest, HandsOfKind, HandsOpen, HasBacktest, ExtendsDone, NoResultYet,
         ExtendBringsUpToDate, StillSo, NoneAfter, Target, Extending,
         vars, tableVars, workerVars, recordVars
  <2> QED
    BY <2>1, <2>2, SoloSubmit, SoloQueue, SoloHandler, SoloEnd, Steps
<1> QED
  BY <1>1, <1>2 DEF SoloInv

LEMMA SoloInit == Init => SoloInv
<1> SUFFICES ASSUME Init PROVE SoloInv
  OBVIOUS
<1>1. PieceInv
  BY BaseInit DEF PieceInv, Init, TableInit, NoRow, Fresh, HandlerOfOnePiece,
       ResultOfOnePiece, SweepOfOnePiece, DoneTest, DoneSweep
<1> QED
  BY <1>1 DEF SoloInv, SoloRest, Init, TableInit, WorkerInit, NoRow, NoAsk, Fresh, HandsOfKind,
       HandsOpen, HasBacktest, ExtendsDone, NoResultYet, NoneAfter, StillSo, ExtendBringsUpToDate

(* However often a test is extended, interrupted and extended again while  *)
(* bars arrive, a done extend has left it at least as recent as itself, as *)
(* long as one worker runs the backtests.                                  *)
THEOREM ExtendsBringUpToDate ==
  ASSUME OneBacktester
  PROVE  Spec => []ExtendBringsUpToDate
<1>1. SoloInv => ExtendBringsUpToDate
  BY DEF SoloInv, SoloRest
<1>2. SoloInv /\ [Next]_vars => SoloInv'
  BY SoloStep
<1> QED
  BY <1>1, <1>2, SoloInit, PTL DEF Spec

LEMMA SoloTestsStay ==
  ASSUME SoloInv, OneBacktester, [Next]_vars, NEW j \in JobId, DoneTest(j)
  PROVE  /\ result'[j].windows = result[j].windows
         /\ \A s \in {"train", "test", "full"} : result'[j].spans[s] = result[j].spans[s]
<1>t. /\ inHand \in [Worker -> JobId \cup {None}]
      /\ asked \in [JobId -> [windows : Windows \cup {None}, extend : JobId \cup {None}]]
      /\ result \in [JobId -> Result \cup {None}]
  BY SoloTypes
<1>1. CASE result'[j] = result[j]
  BY <1>1
<1>2. ASSUME NEW w \in Worker, WriteExtended(w), result'[j] # result[j]
      PROVE  /\ result'[j].windows = result[j].windows
             /\ \A s \in {"train", "test", "full"} : result'[j].spans[s] = result[j].spans[s]
  <2> DEFINE new == Extended(work[w].old, work[w].windows, work[w].asOf)
  <2>1. /\ result' = [result EXCEPT ![Target(w)] = new] /\ Target(w) = j
        /\ work[w].stage = "read" /\ at[w] = "handling" /\ jobs[inHand[w]].kind = "backtest"
    BY <1>t, <1>2 DEF WriteExtended, HandlerAt
  <2>2. HasBacktest(w)
    BY <2>1, SoloTypes DEF HasBacktest
  <2>3. work[w].old = result[j]
    BY <2>1, <2>2 DEF SoloInv, SoloRest, StillSo
  <2>4. /\ work[w].old \in Result /\ work[w].asOf \in Bar
        /\ OfOnePiece(work[w].old) /\ work[w].old.windows = work[w].windows
    BY <2>1 DEF SoloInv, PieceInv, HandlerOfOnePiece, BaseInv, TypeOK, RecordTypeOK, HandlerKnows
  <2>5. new.windows = work[w].old.windows
        /\ \A s \in SplitName \ Refreshed : new.spans[s] = work[w].old.spans[s]
    BY <2>4, ExtendedSpans DEF OfOnePiece
  <2>6. result'[j] = new
    BY <1>t, <2>1
  <2> QED
    BY <2>3, <2>5, <2>6 DEF SplitName, Refreshed
<1>3. ASSUME NEW w \in Worker, Return(w) \/ Raise(w), result'[j] # result[j]
      PROVE  FALSE
  <2>1. inHand[w] = j
    BY <1>t, <1>3 DEF Return, Raise
  <2>2. HasBacktest(w) /\ jobs[j].status = "done"
    BY <2>1, TableAssumption DEF HasBacktest, DoneTest
  <2> QED
    BY <2>1, <2>2 DEF SoloInv, SoloRest, HandsOpen, Open
<1>4. \/ result' = result
      \/ \E w \in Worker : WriteExtended(w) \/ Return(w) \/ Raise(w)
  BY DEF Next, vars, recordVars, NewBar, SubmitBacktest, SubmitSweep, SubmitExtend, Ask, Load,
       RecordBacktest, ReadExtended, RecordSweep, RecordBase, Die
<1> QED
  BY <1>1, <1>2, <1>3, <1>4

(* No newer bar, extend, late worker or restart moves the windows of a     *)
(* finished test or the spans its numbers and its score come from.         *)
THEOREM TestsStay ==
  ASSUME OneBacktester
  PROVE  Spec => TestStaysAsItWas
<1>1. SoloInv /\ [Next]_vars =>
        [\A j \in JobId :
           DoneTest(j) => /\ result'[j].windows = result[j].windows
                          /\ \A s \in {"train", "test", "full"} :
                               result'[j].spans[s] = result[j].spans[s]]_vars
  BY SoloTestsStay
<1>2. SoloInv /\ [Next]_vars => SoloInv'
  BY SoloStep
<1> QED
  BY <1>1, <1>2, SoloInit, PTL DEF Spec, TestStaysAsItWas
=============================================================================

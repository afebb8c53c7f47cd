----------------------------- MODULE RunRecords -----------------------------
(***************************************************************************)
(* What the workers' handlers leave in the database: rows of the `runs`    *)
(* table and the `result` of a job (backend/btb/engine/jobs.py,            *)
(* backend/btb/db.py).  A handler reads the newest bar once, at its start, *)
(* and everything it records is bounded by it; it may die before, between  *)
(* and after its commits, and its job may be handled again, by a worker    *)
(* that reads a newer bar, while it still runs.                            *)
(*                                                                         *)
(* One market, strategy and cost setting; a bar is its position, so a      *)
(* span is a pair of bars.  Metrics, trades and curves are left out: they  *)
(* are what the named run computes.                                        *)
(***************************************************************************)
EXTENDS JobWorker

CONSTANTS Bar,             \* the complete bars the series may come to hold
          FirstNewest,     \* the newest one at the start
          DefaultWindows,  \* windows.split: the windows as of each bar
          Moved,           \* windows a user may drag them to
          Setting,         \* the grid's combinations ...
          Chosen,          \* ... and the one a backtest runs
          Owner            \* who uses the test page

\* Train is from..mid, test mid+1..to, the holdout what follows.
Windows == [from : Nat, mid : Nat, to : Nat]

\* split and custom leave train and test a bar and the holdout two, and test
\* may not run past what movable allowed when the windows were chosen.
ASSUME RecordsAssumption ==
  /\ Bar \subseteq Nat
  /\ FirstNewest \in Bar
  /\ Chosen \in Setting
  /\ Owner \in User
  /\ DefaultWindows \in [Bar -> Windows]
  /\ Moved \subseteq Windows
  /\ \A a \in Bar : DefaultWindows[a].to + 1 < a
  /\ \A win \in Moved : win.to + 1 < FirstNewest

VARIABLES newest,   \* series.last_ts
          asked,    \* jobs.payload: the windows and the backtest to extend
          result,   \* jobs.result
          runs,     \* the committed rows of the runs table
          work      \* what each worker's handler holds in memory

recordVars == <<newest, asked, result, runs, work>>
vars == <<tableVars, workerVars, recordVars>>

NoAsk == [windows |-> None, extend |-> None]
Fresh == [stage |-> "start", asOf |-> None, windows |-> None, old |-> None]

Init ==
  /\ TableInit
  /\ WorkerInit
  /\ newest = FirstNewest
  /\ asked = [j \in JobId |-> NoAsk]
  /\ result = [j \in JobId |-> None]
  /\ runs = {}
  /\ work = [w \in Worker |-> Fresh]

-----------------------------------------------------------------------------
SplitName == {"train", "test", "full", "holdout", "all"}
Refreshed == {"holdout", "all"}   \* the runs an extend redoes

(* The spans of a split as of a bar.                                       *)
FirstBar(s, win) ==
  IF s = "test" THEN win.mid + 1 ELSE IF s = "holdout" THEN win.to + 1 ELSE win.from

LastBar(s, win, a) ==
  IF s \in Refreshed THEN a ELSE IF s = "train" THEN win.mid ELSE win.to

Spans(win, a) == [s \in SplitName |-> <<FirstBar(s, win), LastBar(s, win, a)>>]

\* The rows of these splits, one for each setting.
RowsOf(job, win, a, splits, settings) ==
  {[split |-> s, span |-> Spans(win, a)[s], setting |-> x, job |-> job, asOf |-> a] :
     s \in splits, x \in settings}

Key(row) == <<row.split, row.span, row.setting>>

(* INSERT ... ON CONFLICT DO NOTHING on runs_dedupe_v2.                    *)
Inserted(new) == runs \cup {row \in new : \A r \in runs : Key(r) # Key(row)}

(* What the handler of a job that asks for these windows runs on, _split.  *)
SplitFor(ask, a) == IF ask.windows = None THEN DefaultWindows[a] ELSE ask.windows

(* The splits a job's result names runs for: an extend redoes two of a     *)
(* backtest's five, a sweep names none.                                    *)
SplitsOf(j) ==
  CASE jobs[j].kind = "sweep"  -> {}
    [] asked[j].extend # None  -> Refreshed
    [] OTHER                   -> SplitName

ResultOf(j, win, a) ==
  [asOf |-> a, windows |-> win, spans |-> [s \in SplitsOf(j) |-> Spans(win, a)[s]]]

\* Faulty variants: the dicts are merged the other way round, and the test's
\* default windows are taken from the newer bars.
ExtendedUnderOld(old, win, a) == old
ExtendedAnew(old, win, a) ==
  [asOf |-> a, windows |-> DefaultWindows[a], spans |-> Spans(DefaultWindows[a], a)]

(* What _extend makes of the result it has read.                           *)
Extended(old, win, a) ==
  [old EXCEPT !.asOf = a,
              !.spans["holdout"] = Spans(win, a)["holdout"],
              !.spans["all"] = Spans(win, a)["all"]]

-----------------------------------------------------------------------------
(* The test page and the market.                                           *)

(* The refresher stores a newer complete bar.                              *)
NewBar ==
  /\ newest + 1 \in Bar
  /\ newest' = newest + 1
  /\ UNCHANGED <<tableVars, workerVars, asked, result, runs, work>>

Ask(j, windows, extend) ==
  /\ asked' = [asked EXCEPT ![j] = [windows |-> windows, extend |-> extend]]
  /\ UNCHANGED <<workerVars, newest, result, runs, work>>

(* A test is started, on the default windows or on moved ones ...          *)
SubmitBacktest(windows) ==
  \E j \in JobId :
    /\ Insert(j, "backtest", Owner, 50, None)
    /\ Ask(j, windows, None)

(* ... with a sweep that names it and is passed the same windows.          *)
SubmitSweep(b) ==
  /\ jobs[b].kind = "backtest"
  /\ asked[b].extend = None
  /\ \A s \in JobId : jobs[s].pair # b
  /\ \E j \in JobId :
       /\ Insert(j, "sweep", Owner, 60, b)
       /\ Ask(j, asked[b].windows, None)

(* A page opens on a finished test that has fallen behind the market.      *)
SubmitExtend(b) ==
  /\ jobs[b].kind = "backtest"
  /\ jobs[b].status = "done"
  /\ asked[b].extend = None
  /\ newest > result[b].asOf
  /\ \E j \in JobId :
       /\ Insert(j, "backtest", Owner, 50, None)
       /\ Ask(j, result[b].windows, b)

-----------------------------------------------------------------------------
(* The handlers.  Each ends a transaction where it commits.                *)

HandlerAt(w, kind, stage) ==
  /\ at[w] = "handling"
  /\ jobs[inHand[w]].kind = kind
  /\ work[w].stage = stage

Extending(w) == asked[inHand[w]].extend # None
Target(w) == asked[inHand[w]].extend

Reach(w, stage) == work' = [work EXCEPT ![w].stage = stage]

(* load_series and _split: bounded at the newest complete bar.             *)
Load(w) ==
  /\ at[w] = "handling"
  /\ work[w].stage = "start"
  /\ work' = [work EXCEPT ![w].stage = "loaded",
                          ![w].asOf = newest,
                          ![w].windows = SplitFor(asked[inHand[w]], newest)]
  /\ UNCHANGED <<tableVars, workerVars, newest, asked, result, runs>>

(* backtest_job: every window's run in one transaction.                    *)
RecordBacktest(w) ==
  /\ HandlerAt(w, "backtest", "loaded")
  /\ ~Extending(w)
  /\ runs' = Inserted(RowsOf(inHand[w], work[w].windows, work[w].asOf,
                             SplitsOf(inHand[w]), {Chosen}))
  /\ Reach(w, "recorded")
  /\ UNCHANGED <<tableVars, workerVars, newest, asked, result>>

\* Faulty variant: the extended backtest's windows are taken for granted.
ReadAnyExtended(w) ==
  /\ HandlerAt(w, "backtest", "loaded")
  /\ Extending(w)
  /\ jobs[Target(w)].status = "done"
  /\ work' = [work EXCEPT ![w].stage = "read", ![w].old = result[Target(w)]]
  /\ UNCHANGED <<tableVars, workerVars, newest, asked, result, runs>>

(* _extend, first half: the finished backtest is read, and the extend      *)
(* refused unless it is still done and on the windows just run.            *)
ReadExtended(w) ==
  /\ HandlerAt(w, "backtest", "loaded")
  /\ Extending(w)
  /\ jobs[Target(w)].kind = "backtest"
  /\ jobs[Target(w)].status = "done"
  /\ jobs[Target(w)].user = jobs[inHand[w]].user
  /\ result[Target(w)].windows = work[w].windows
  /\ work' = [work EXCEPT ![w].stage = "read", ![w].old = result[Target(w)]]
  /\ UNCHANGED <<tableVars, workerVars, newest, asked, result, runs>>

(* _extend, second half, with the holdout's runs: what was read, brought   *)
(* up to date, replaces whatever the row holds by now.                     *)
WriteExtended(w) ==
  /\ HandlerAt(w, "backtest", "read")
  /\ Unlocked(Target(w))
  /\ runs' = Inserted(RowsOf(inHand[w], work[w].windows, work[w].asOf, Refreshed, {Chosen}))
  /\ result' = [result EXCEPT ![Target(w)] =
                  Extended(work[w].old, work[w].windows, work[w].asOf)]
  /\ Reach(w, "recorded")
  /\ UNCHANGED <<tableVars, workerVars, newest, asked>>

SweepRows(job, win, a) == RowsOf(job, win, a, {"train", "test"}, Setting)

\* Faulty variant: the default windows' runs are scored but not recorded.
RecordSweepOnly(w) ==
  /\ HandlerAt(w, "sweep", "loaded")
  /\ runs' = Inserted(SweepRows(inHand[w], work[w].windows, work[w].asOf))
  /\ Reach(w, "recorded")
  /\ UNCHANGED <<tableVars, workerVars, newest, asked, result>>

(* sweep_job: pine_sweep_series over the job's windows, then record ...    *)
RecordSweep(w) ==
  /\ HandlerAt(w, "sweep", "loaded")
  /\ runs' = Inserted(SweepRows(inHand[w], work[w].windows, work[w].asOf))
  /\ Reach(w, IF work[w].windows = DefaultWindows[work[w].asOf]
              THEN "recorded" ELSE "base")
  /\ UNCHANGED <<tableVars, workerVars, newest, asked, result>>

(* ... and both again over the default windows, for the verdict.           *)
RecordBase(w) ==
  /\ HandlerAt(w, "sweep", "base")
  /\ runs' = Inserted(SweepRows(inHand[w], DefaultWindows[work[w].asOf], work[w].asOf))
  /\ Reach(w, "recorded")
  /\ UNCHANGED <<tableVars, workerVars, newest, asked, result>>

(* The handler returns, and finish_job writes status and result.           *)
Return(w) ==
  /\ work[w].stage = "recorded"
  /\ Finish(w, "done")
  /\ result' = [result EXCEPT ![inHand[w]] =
                  ResultOf(inHand[w], work[w].windows, work[w].asOf)]
  /\ work' = [work EXCEPT ![w] = Fresh]
  /\ UNCHANGED <<newest, asked, runs>>

(* It raises, a JobError or any other: what is not committed is rolled     *)
(* back, and finish_job leaves no result.  After its last commit only a    *)
(* sweep may still raise, scoring the verdict.                             *)
Raise(w) ==
  /\ work[w].stage = "recorded" => jobs[inHand[w]].kind = "sweep"
  /\ Finish(w, "failed")
  /\ result' = [result EXCEPT ![inHand[w]] = None]
  /\ work' = [work EXCEPT ![w] = Fresh]
  /\ UNCHANGED <<newest, asked, runs>>

\* Faulty variant: the next job starts from what the last handler held.
DieHolding(w) ==
  /\ Disconnect(w)
  /\ UNCHANGED recordVars

(* The process or its connection is gone, and the handler with it.         *)
Die(w) ==
  /\ Disconnect(w)
  /\ work' = [work EXCEPT ![w] = Fresh]
  /\ UNCHANGED <<newest, asked, result, runs>>

Next ==
  \/ NewBar
  \/ \E windows \in Moved \cup {None} : SubmitBacktest(windows)
  \/ \E b \in JobId : SubmitSweep(b)
  \/ \E b \in JobId : SubmitExtend(b)
  \/ \E w \in Worker : Connect(w) /\ UNCHANGED recordVars
  \/ \E w \in Worker : LockNext(w) /\ UNCHANGED recordVars
  \/ \E w \in Worker : CommitClaim(w) /\ UNCHANGED recordVars
  \/ \E j \in JobId : HalfHourPasses(j) /\ UNCHANGED recordVars
  \/ \E w \in Worker : Load(w)
  \/ \E w \in Worker : RecordBacktest(w)
  \/ \E w \in Worker : ReadExtended(w)
  \/ \E w \in Worker : WriteExtended(w)
  \/ \E w \in Worker : RecordSweep(w)
  \/ \E w \in Worker : RecordBase(w)
  \/ \E w \in Worker : Return(w)
  \/ \E w \in Worker : Raise(w)
  \/ \E w \in Worker : Die(w)

Spec == Init /\ [][Next]_vars

-----------------------------------------------------------------------------
Span == Nat \X Nat
RunRow == [split : SplitName, span : Span, setting : Setting, job : JobId, asOf : Bar]
Result == [asOf    : Bar,
           windows : Windows,
           spans   : [SplitName -> Span] \cup [Refreshed -> Span] \cup [{} -> Span]]
ASSUME NullAssumption == None \notin Result

Handler == [stage   : {"start", "loaded", "read", "base", "recorded"},
            asOf    : Bar \cup {None},
            windows : Windows \cup {None},
            old     : Result \cup {None}]

\* What a handler knows by each stage; there is one only while handling.
HandlerKnows(w) ==
  /\ at[w] # "handling" => work[w] = Fresh
  /\ work[w].stage # "start" => work[w].asOf \in Bar /\ work[w].windows \in Windows
  /\ work[w].stage = "read" => work[w].old \in Result

RecordTypeOK ==
  /\ newest \in Bar
  /\ asked \in [JobId -> [windows : Windows \cup {None}, extend : JobId \cup {None}]]
  /\ result \in [JobId -> Result \cup {None}]
  /\ runs \subseteq RunRow
  /\ work \in [Worker -> Handler]
  /\ \A w \in Worker : HandlerKnows(w)

TypeOK == TableTypeOK /\ WorkerTypeOK /\ RecordTypeOK

Recorded(split, span, setting) == \E row \in runs : Key(row) = <<split, span, setting>>

DoneTest(j) ==
  jobs[j].kind = "backtest" /\ jobs[j].status = "done" /\ asked[j].extend = None

DoneSweep(j) == jobs[j].kind = "sweep" /\ jobs[j].status = "done"

OfOnePiece(r) ==
  /\ r.spans = Spans(r.windows, r.asOf)
  /\ \A s \in SplitName : Recorded(s, r.spans[s], Chosen)

GridRecorded(win, a) ==
  \A s \in {"train", "test"}, x \in Setting : Recorded(s, Spans(win, a)[s], x)

RankedAndScored(win, a) == GridRecorded(win, a) /\ GridRecorded(DefaultWindows[a], a)

(* The result a test page draws is of one piece, whoever wrote it last -   *)
(* its own worker, a late one, or any number of extends: the holdout       *)
(* starts on the bar after its test, the continuous run covers both, both  *)
(* reach the bar it says it was read at, and every run it names is there.  *)
ResultOfOnePiece == \A j \in JobId : DoneTest(j) => OfOnePiece(result[j])

(* A finished sweep's whole grid is recorded on its own windows, which     *)
(* rank it, and on the default windows, which score it, also if it was     *)
(* interrupted between the two and handled again on newer bars.            *)
SweepOfOnePiece ==
  \A j \in JobId : DoneSweep(j) => RankedAndScored(result[j].windows, result[j].asOf)

(* With one worker for backtests, as deployed: once an extend is done, the *)
(* page that waited for it finds the test at least as up to date.          *)
ExtendBringsUpToDate ==
  \A e \in JobId :
    jobs[e].status = "done" /\ asked[e].extend # None =>
      result[asked[e].extend].asOf >= result[e].asOf

(* "Its train/test numbers and its score stay exactly as they were": no    *)
(* newer bar, extend or restart moves the windows of a finished test, when *)
(* one worker runs the backtests.                                          *)
TestStaysAsItWas ==
  [][\A j \in JobId :
       DoneTest(j) => /\ result'[j].windows = result[j].windows
                      /\ \A s \in {"train", "test", "full"} :
                           result'[j].spans[s] = result[j].spans[s]]_vars

(* "Runs are deduplicated, so a requeued sweep resumes rather than         *)
(* repeats": it does not run again what it has recorded itself.  (Does not *)
(* hold: see the README.)                                                  *)
RunsAgain(w, win) ==
  \A new \in SweepRows(inHand[w], win, work[w].asOf) :
    \E row \in runs : Key(row) = Key(new) /\ row.job = inHand[w]

SweepResumes ==
  [][\A w \in Worker :
       /\ RecordSweep(w) => ~RunsAgain(w, work[w].windows)
       /\ RecordBase(w) => ~RunsAgain(w, DefaultWindows[work[w].asOf])]_vars

(* "The sweep ranks on the test window and a ranking from other windows    *)
(* would not describe this run": a page's sweep and its backtest ran on    *)
(* the same windows.  (Does not hold: see the README.)                     *)
PairSharesWindows ==
  \A s \in JobId :
    LET b == jobs[s].pair IN
    jobs[s].status = "done" /\ b # None /\ jobs[b].status = "done" =>
      result[s].windows = result[b].windows
=============================================================================

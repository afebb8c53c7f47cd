------------------------------ MODULE Scoring -------------------------------
(***************************************************************************)
(* The jobs of one script on one series: engine/jobs.py backtest_job, its  *)
(* `extend` form, sweep_job and cmd_rescore, one job at a time.  Only the  *)
(* last job's result is kept.  New bars arrive between jobs.  What the     *)
(* compiled script does with the bars is a walk: any account and any       *)
(* trades, the same whenever its inputs are.                               *)
(***************************************************************************)
EXTENDS Windows, Pragmas, Sweep, Verdict

CONSTANTS Scripts, Calendars, Walks,
          Requests,     \* windows that may be asked for
          Evidence,     \* [wf, pbo, dsr, other]: what the checks find; other is the
                        \* deflated Sharpe of every combination not ranked first
          FirstBars,    \* bars held at the start
          Thin,         \* a span that is too little to judge
          Capital

\* Bars open one after another; a walk has an account on each of them and finitely
\* many trades; what is asked for are whole times; a probability is a percentage.
ASSUME ScoringAssumption ==
  /\ FirstBars \in Nat /\ Capital \in Int
  /\ \A c \in Calendars : /\ c \in Seq(Int) /\ FirstBars <= Len(c)
                          /\ \A i, j \in DOMAIN c : i < j => c[i] < c[j]
  /\ \A w \in Walks : /\ \A c \in Calendars : \A i \in DOMAIN c : w.equity[i] \in Int
                      /\ IsFiniteSet(w.trades) /\ w.trades \subseteq Nat \X Nat
  /\ Requests \subseteq {NoWindows} \cup [train : Int \X Int, test : Int \X Int]
  /\ \A e \in Evidence : /\ {e.pbo, e.dsr, e.other} \subseteq 0..100 \cup {NoValue}
                         /\ e.wf # NoValue => e.wf \in [oos : Int, positive : 0..Folds]

VARIABLES program, calendar, walk,
          n,            \* bars held
          job,          \* result of the last job
          judged        \* history: what each verdict on the bars held was scored on

vars == <<program, calendar, walk, n, job, judged>>

Held == SubSeq(calendar, 1, n)
Idle == [kind |-> "none"]

\* A script once built: what each of its runs is given, in grid order.
Program(s) ==
  LET combos == IF Builds(s) /\ Scored(s) THEN Combos(s) ELSE <<defaults(s)>>
  IN [builds |-> Builds(s), scored |-> Scored(s),
      runs |-> [k \in DOMAIN combos |-> as_runtime_inputs(s, combos[k])]]
-----------------------------------------------------------------------------
\* One run: trading starts at bar a0.
Engine(inputs, a0) ==
  LET w == walk[inputs]
  IN [equity |-> [i \in DOMAIN calendar |-> IF i < a0 THEN Capital ELSE w.equity[i]],
      trades |-> {t \in w.trades : t[1] >= a0}]

RangeOf(w) == index_range(Held, w)
Nonempty(s) == \A w \in {s.train, s.test, full(s), through(s)} : RangeOf(w)[1] <= RangeOf(w)[2]

\* sweep(): every combination once over train and test, and the cuts of it.
Rows(s) ==
  LET span == RangeOf(full(s))   train == RangeOf(s.train)   test == RangeOf(s.test)
  IN [k \in DOMAIN program.runs |->
        LET run == Engine(program.runs[k], span[1])
        IN [train |-> Cut(run, train[1], train[2]), test |-> Cut(run, test[1], test[2]),
            entered |-> Cardinality(Entered(run, span[1], span[2]))]]
OnTest(rows) == Ranked([k \in DOMAIN rows |-> rows[k].test])
-----------------------------------------------------------------------------
Init == /\ program \in {Program(s) : s \in Scripts} /\ calendar \in Calendars
        /\ walk \in [ToSet(program.runs) -> Walks]
        /\ n = FirstBars /\ job = Idle /\ judged = {}

NewBar == /\ n < Len(calendar)
          /\ n' = n + 1
          /\ UNCHANGED <<program, calendar, walk, job, judged>>

\* Train, test and both, the holdout, and one run to the newest bar.
Backtest == \E w \in Requests :
  LET s == custom(Held, w)
  IN /\ n >= MinSeries /\ program.builds /\ s # Refused /\ Nonempty(s)
     /\ job' = [kind |-> "backtest", windows |-> s, as_of |-> n]
     /\ UNCHANGED <<program, calendar, walk, n, judged>>

\* A finished backtest's own windows, on the bars held now.
Own(j) == [train |-> j.windows.train, test |-> j.windows.test]
Extend ==
  /\ job.kind = "backtest" /\ n > job.as_of
  /\ LET s == custom(Held, Own(job))
     IN /\ s # Refused /\ Own([windows |-> s]) = Own(job)
        /\ job' = [job EXCEPT !.windows.holdout = s.holdout, !.as_of = n]
  /\ UNCHANGED <<program, calendar, walk, n, judged>>

ScoredOnMoved(s) == s                  \* mutant: the verdict follows the windows asked for
ScoredOn(s) == split(Held)

\* Ranked on the windows asked for; scored on the default ones.
SweepJob == \E w \in Requests :
  LET s      == custom(Held, w)
      rows   == Rows(s)
      base   == ScoredOn(s)
      scored == Rows(base)
      order  == OnTest(scored)
  IN /\ n >= MinSeries /\ program.builds /\ program.scored /\ s # Refused /\ Nonempty(s)
     /\ \E e \in Evidence :
          job' = [kind |-> "sweep", windows |-> s, as_of |-> n, rows |-> rows,
                  order |-> OnTest(rows),
                  verdict |-> evaluate(order, e.wf, e.pbo, calendar[n] - calendar[1] < Thin,
                                [k \in DOMAIN order |-> IF k = 1 THEN e.dsr ELSE e.other],
                                [k \in DOMAIN order |-> scored[order[k]].entered])]
     /\ judged' = {v \in judged : v.as_of = n} \cup {[as_of |-> n, on |-> base, order |-> order]}
     /\ UNCHANGED <<program, calendar, walk, n>>

Rescore == /\ job.kind = "sweep"
           /\ job' = [job EXCEPT !.verdict = rescore(@)]
           /\ UNCHANGED <<program, calendar, walk, n, judged>>

Next == NewBar \/ Backtest \/ Extend \/ SweepJob \/ Rescore
Spec == Init /\ [][Next]_vars
-----------------------------------------------------------------------------
(* Properties. *)

\* windows.py:8-15 and 21-23: whatever was asked for and however often it was
\* extended, train, test and holdout follow one another without a bar lost or
\* shared, and the holdout ends on the newest bar the job saw.
WindowsTile ==
  job.kind # "none" =>
    LET ts    == SubSeq(calendar, 1, job.as_of)
        At(w) == index_range(ts, w)
    IN /\ 1 <= At(job.windows.train)[1]
       /\ At(job.windows.train)[1] <= At(job.windows.train)[2]
       /\ At(job.windows.test)[1] = At(job.windows.train)[2] + 1
       /\ At(job.windows.test)[1] <= At(job.windows.test)[2]
       /\ At(job.windows.holdout)[1] = At(job.windows.test)[2] + 1
       /\ At(job.windows.holdout)[2] = job.as_of

\* jobs.py:205-209: a backtest whose train and test hold the least a moved window
\* may can be brought up to date whatever bars arrived since, and keeps both.
ExtendKeepsWindows ==
  (job.kind = "backtest" /\ \A w \in {job.windows.train, job.windows.test} :
                             Bars(SubSeq(calendar, 1, job.as_of), w) >= MinWindowBars)
    => Own([windows |-> custom(Held, Own(job))]) = Own(job)

\* verdict/__init__.py:18-20: moving train and test never moves the score: two
\* verdicts on the same bars were scored on the same windows and order of rows.
VerdictUnmoved == \A a, b \in judged : a.as_of = b.as_of => a = b

\* program.py:151-155: train and test are cut from one run, so each of its trades
\* is counted in exactly one of them, while there is an account to trade with.
CutCountsOnce ==
  job.kind = "sweep" =>
    \A k \in DOMAIN job.rows :
      (job.rows[k].train.net > -100)
        => job.rows[k].train.trades + job.rows[k].test.trades = job.rows[k].entered

\* verdict/__init__.py:89-93: re-scoring a stored verdict under the same rules
\* changes no score and no band, though a row did not keep its trade count.
RescoreAgrees ==
  job.kind = "sweep" =>
    LET v == job.verdict    again == rescore(job.verdict)
    IN /\ <<again.score, again.band>> = <<v.score, v.band>>
       /\ \A k \in DOMAIN v.rows : <<again.rows[k].score, again.rows[k].band>>
                                    = <<v.rows[k].score, v.rows[k].band>>

\* rules.py:99-106: the sentence "the edge held up in every check" is only ever
\* shown above a score in the high band.
HeldUpIsHigh ==
  job.kind = "sweep" => \A k \in DOMAIN job.verdict.rows :
                          job.verdict.rows[k].reason = HeldUp => job.verdict.rows[k].band = "high"

\* jobs.py:284: "rank on test".  Of two combinations that kept an account, the one
\* ranked first returned at least as much.  (Not so: a return of 0 counts as none.)
RankedOnTest ==
  job.kind = "sweep" =>
    \A j, k \in DOMAIN job.order :
      LET a == job.rows[job.order[j]].test    b == job.rows[job.order[k]].test
      IN (j < k /\ ~a.ruin /\ ~b.ruin) => a.net >= b.net
=============================================================================

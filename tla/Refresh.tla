------------------------------ MODULE Refresh -------------------------------
(* The refresher inside the worker (engine/refresh.py, worker.run): between   *)
(* jobs, every stored series that is due is ingested, coarsest first, until  *)
(* the time budget is spent or a job is waiting.  Ingest is a fetch and a     *)
(* commit (Ingest models what happens inside).  The clock ticks in units of  *)
(* MinRecheck, five minutes; a fetch takes less than a tick or, if it is     *)
(* slow, one, which is more than the budget.  All ages are in ticks and stop *)
(* counting where no rule tells them apart any more.                         *)
EXTENDS Integers

CONSTANTS
  Symbol,         \* the stored series of the universe
  Step,           \* [Symbol -> ticks per bar]
  Rank,           \* [Symbol -> place in the order of a sweep]
  MinRecheck, PublishGrace, RefreshEvery,
  MaxJobs,        \* bound: jobs that come and interrupt
  Answering       \* the series whose source does not fail for ever

ASSUME StepAssumption == Step \in [Symbol -> Nat \ {0}] /\ Answering \subseteq Symbol

\* A place of its own for each, coarse bars first (_ORDER, then the symbol).
ASSUME RankAssumption ==
  /\ Rank \in [Symbol -> Nat]
  /\ \A a, b \in Symbol : /\ a # b => Rank[a] # Rank[b]
                          /\ Step[a] > Step[b] => Rank[a] < Rank[b]

ASSUME TimesAssumption ==
  /\ MinRecheck \in Nat \ {0} /\ PublishGrace \in Nat
  /\ RefreshEvery \in Nat /\ MaxJobs \in Nat
  /\ {"idle", "job", "sweep"} \cap Symbol = {}

VARIABLES
  ser,            \* per series: see Fresh
  at,             \* the worker: "idle", "job", "sweep", or the series it ingests
  todo,           \* what is left of the sweep's due series
  got,            \* age of the newest bar the fetch under way has seen
  slow,           \* the sweep has spent its budget
  idleFor,        \* ticks since last_refresh
  queued,         \* a job is waiting
  jobs            \* jobs still to come

vars == <<ser, at, todo, got, slow, idleFor, queued, jobs>>

Cap(s) == 3 * Step[s] + PublishGrace

Least(a, b) == IF a < b THEN a ELSE b

\* No check is ever too recent once it is this old.
Period(s) == IF Step[s] < MinRecheck THEN MinRecheck ELSE Step[s]

\* The series a sweep takes before this one.
Ahead(s) == {x \in Symbol : Rank[x] < Rank[s]}

\* unasked stops counting beyond every bound stated below.
Patience(s) == Period(s) + RefreshEvery + MaxJobs + 3

\* age: since the newest stored complete bar opened; since: since the last
\* check; venue: since the newest bar the venue has published opened.  History
\* of an unread bar: for how long the worker, with no job and no source
\* failing, has not asked; the jobs that came meanwhile, if a series goes first;
\* and whether the venue was prompt with it.
Fresh(s) == [age |-> Step[s], since |-> MinRecheck, venue |-> Step[s],
             unasked |-> 0, came |-> 0, prompt |-> TRUE]

Init ==
  /\ ser = [s \in Symbol |-> Fresh(s)]
  /\ at = "idle" /\ todo = {} /\ got = 0 /\ slow = FALSE
  /\ idleFor = RefreshEvery /\ queued = FALSE /\ jobs = MaxJobs

Unread(s) == ser[s].venue < ser[s].age

-----------------------------------------------------------------------------
\* Faulty variant: any recent check that found nothing makes it back off.
DueUnlessChecked(s) ==
  /\ ser[s].age >= 2 * Step[s]
  /\ ser[s].since >= MinRecheck /\ ser[s].since >= Step[s]

(* due: the next bar has closed, the last check is not too recent and, if it *)
(* came well after the bar was due, a bar period old.                        *)
Due(s) ==
  LET overdue == ser[s].age - 2 * Step[s]
      askedAfterDue == ser[s].since < overdue - PublishGrace
  IN /\ overdue >= 0
     /\ ser[s].since >= MinRecheck
     /\ askedAfterDue => ser[s].since >= Step[s]

(* worker.run: nothing to claim and RefreshEvery has passed.                 *)
StartSweep ==
  /\ at = "idle" /\ ~queued /\ idleFor >= RefreshEvery
  /\ at' = "sweep" /\ slow' = FALSE
  /\ todo' = {s \in Symbol : Due(s)}
  /\ UNCHANGED <<ser, got, idleFor, queued, jobs>>

Stopped == slow \/ queued

\* ingest_series of the next due series: its fetch goes out.
BeginIngest(s) ==
  /\ at = "sweep" /\ s \in todo /\ todo \cap Ahead(s) = {} /\ ~Stopped
  /\ at' = s /\ todo' = todo \ {s} /\ got' = ser[s].venue
  /\ UNCHANGED <<ser, slow, idleFor, queued, jobs>>

\* Faulty variant: a cut sweep waits for the next one like any other.
EndSweepFull ==
  /\ at = "sweep" /\ (todo = {} \/ Stopped)
  /\ at' = "idle" /\ todo' = {} /\ idleFor' = 0
  /\ UNCHANGED <<ser, got, slow, queued, jobs>>

\* Faulty variant: what a cut leaves is kept, but nothing takes it up.
EndSweepKept ==
  /\ at = "sweep" /\ (todo = {} \/ Stopped)
  /\ at' = "idle" /\ idleFor' = 0
  /\ UNCHANGED <<ser, todo, got, slow, queued, jobs>>

(* The sweep is over or cut short; what a cut leaves is taken up at once.    *)
EndSweep ==
  /\ at = "sweep" /\ (todo = {} \/ Stopped)
  /\ at' = "idle" /\ todo' = {}
  /\ idleFor' = IF todo = {} THEN 0 ELSE RefreshEvery
  /\ UNCHANGED <<ser, got, slow, queued, jobs>>

\* Faulty variant: an answer without news does not count as a check.
SucceedIfNew(s) ==
  /\ at = s
  /\ ser' = [ser EXCEPT ![s].age = Least(@, got), ![s].unasked = 0, ![s].came = 0,
                        ![s].since = IF got < ser[s].age THEN 0 ELSE @]
  /\ at' = "sweep" /\ got' = 0
  /\ UNCHANGED <<todo, slow, idleFor, queued, jobs>>

(* The ingest commits: everything up to a bar the venue had when the fetch   *)
(* began or has now; checked_at is the time of the commit.                   *)
Succeed(s) ==
  /\ at = s
  /\ \E seen \in {got, ser[s].venue} :
       ser' = [ser EXCEPT ![s].age = Least(@, seen), ![s].since = 0,
                          ![s].unasked = 0, ![s].came = 0]
  /\ at' = "sweep" /\ got' = 0
  /\ UNCHANGED <<todo, slow, idleFor, queued, jobs>>

(* The fetch or the audit raises; rollback, and the check leaves no trace.   *)
Fail(s) ==
  /\ at = s
  /\ ser' = [x \in Symbol |-> [ser[x] EXCEPT !.unasked = 0, !.came = 0]]
  /\ at' = "sweep" /\ got' = 0
  /\ UNCHANGED <<todo, slow, idleFor, queued, jobs>>

Claim ==
  /\ at = "idle" /\ queued
  /\ at' = "job" /\ queued' = FALSE
  /\ UNCHANGED <<ser, todo, got, slow, idleFor, jobs>>

Handled ==
  /\ at = "job" /\ at' = "idle"
  /\ UNCHANGED <<ser, todo, got, slow, idleFor, queued, jobs>>

Worker == \/ StartSweep \/ EndSweep \/ Claim \/ Handled
          \/ \E s \in Symbol : BeginIngest(s) \/ Succeed(s) \/ Fail(s)

-----------------------------------------------------------------------------
Arrive ==
  /\ jobs > 0 /\ ~queued
  /\ queued' = TRUE /\ jobs' = jobs - 1
  /\ ser' = [s \in Symbol |->
               [ser[s] EXCEPT !.came = IF Unread(s) /\ Ahead(s) # {} THEN @ + 1 ELSE @]]
  /\ UNCHANGED <<at, todo, got, slow, idleFor>>

(* The venue publishes a bar whose period is over: the next one, or the first *)
(* after a closed market.  It is prompt if a fetch of a tick still fits in    *)
(* the grace.                                                                 *)
Publish(s) ==
  /\ \E v \in Step[s]..(ser[s].venue - Step[s]) :
       ser' = [ser EXCEPT ![s].venue = v,
                          ![s].prompt = /\ Unread(s) => @
                                        /\ ser[s].venue < 2 * Step[s] + PublishGrace,
                          ![s].unasked = IF Unread(s) THEN @ ELSE 0,
                          ![s].came = IF Unread(s) THEN @ ELSE 0]
  /\ UNCHANGED <<at, todo, got, slow, idleFor, queued, jobs>>

\* A bar of the venue that is not stored stays newer than the stored one when
\* both stop counting.
AgedBar(s, x) == Least(x + 1, IF x < ser[s].age THEN Cap(s) - 1 ELSE Cap(s))

Older(s) ==
  [ser[s] EXCEPT
     !.age = Least(@ + 1, Cap(s)), !.venue = AgedBar(s, @),
     !.since = Least(@ + 1, Period(s)),
     !.unasked = IF Unread(s) /\ at # "job" THEN Least(@ + 1, Patience(s)) ELSE @]

\* Time passes while a job runs, while a fetch is slow, and while the worker
\* polls with nothing to do.
Tick ==
  /\ \/ at = "job"
     \/ at \in Symbol /\ ~slow
     \/ at = "idle" /\ ~queued /\ idleFor < RefreshEvery
  /\ slow' = (slow \/ at \in Symbol)
  /\ ser' = [s \in Symbol |-> Older(s)]
  /\ got' = IF at \in Symbol THEN AgedBar(at, got) ELSE got
  /\ idleFor' = Least(idleFor + 1, RefreshEvery)
  /\ UNCHANGED <<at, todo, queued, jobs>>

Next == Worker \/ Arrive \/ Tick \/ \E s \in Symbol : Publish(s)

Spec == Init /\ [][Next]_vars

\* The worker's loop runs, time passes, and a source that answers at all
\* answers again and again if it is asked again and again.
FairSpec ==
  /\ Spec
  /\ WF_vars(Worker) /\ WF_vars(Tick)
  /\ \A s \in Answering : SF_vars(Succeed(s))

-----------------------------------------------------------------------------

Series == [age : Nat, since : Nat, venue : Nat, unasked : Nat, came : Nat, prompt : BOOLEAN]

\* The refresher's variables have their types, and no bar is newer than the venue's.
TypeOK ==
  /\ ser \in [Symbol -> Series]
  /\ \A s \in Symbol :
       /\ ser[s].age \in Step[s]..Cap(s) /\ ser[s].venue \in Step[s]..ser[s].age
       /\ ser[s].since <= Period(s) /\ ser[s].unasked <= Patience(s)
       /\ ser[s].came <= MaxJobs - jobs
       /\ at = s => got \in ser[s].venue..ser[s].age
  /\ at \in {"idle", "job", "sweep"} \cup Symbol
  /\ todo \subseteq Symbol /\ (at \in {"idle", "job"} => todo = {})
  /\ idleFor \in 0..RefreshEvery /\ jobs \in 0..MaxJobs
  /\ slow \in BOOLEAN /\ queued \in BOOLEAN

\* At most one series goes before this one.
Early(s) == \A a, b \in Ahead(s) : a = b

\* The time between two sweeps, the slow fetch after which a sweep is cut and,
\* when a series goes first, one of its own, once more for each job that came.
Wait(s) == RefreshEvery + 1 + IF Ahead(s) = {} THEN 0 ELSE 1 + ser[s].came

\* A bar the venue published in time is asked for within MinRecheck and Wait:
\* checks made just before it was due do not count.  That is the staleness the
\* rule replaced ("a 4h series up to four hours stale").  So for the first two
\* of the order; for a third, two coarser ones answered slowly and without
\* news may take turns before it.
PromptBarsAskedSoon ==
  \A s \in Symbol : Early(s) /\ Unread(s) /\ ser[s].prompt =>
                      ser[s].unasked <= MinRecheck + Wait(s)

\* Any other bar, the first after a closed market included, is asked for
\* within a bar period and Wait.
ReopeningAskedWithinABar ==
  \A s \in Symbol : Early(s) /\ Unread(s) => ser[s].unasked <= Period(s) + Wait(s)

\* "So the database stays fresh as long as the worker is up": a series whose
\* venue has a bar it lacks is checked sooner or later, if its source answers.
StaysFresh == \A s \in Answering : Unread(s) ~> ser[s].since = 0
=============================================================================

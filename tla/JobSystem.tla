----------------------------- MODULE JobSystem ------------------------------
(***************************************************************************)
(* The web app and the workers composed on the `jobs` table, the only      *)
(* thing they share.                                                       *)
(***************************************************************************)
EXTENDS JobWorker, WebQueue

vars == <<tableVars, workerVars, webVars>>

Init == TableInit /\ WorkerInit /\ WebInit

\* Every step of every process; each leaves the other side's memory alone.
Next ==
  \/ \E w \in Worker : Connect(w) /\ UNCHANGED webVars
  \/ \E w \in Worker : LockNext(w) /\ UNCHANGED webVars
  \/ \E w \in Worker : CommitClaim(w) /\ UNCHANGED webVars
  \/ \E w \in Worker : Finish(w, "done") /\ UNCHANGED webVars
  \/ \E w \in Worker : Finish(w, "failed") /\ UNCHANGED webVars
  \/ \E w \in Worker : Disconnect(w) /\ UNCHANGED webVars
  \/ \E j \in JobId : HalfHourPasses(j) /\ UNCHANGED webVars
  \/ \E r \in Request, u \in User, form \in Form, script \in Script \cup {None} :
       StartTest(r, u, form, script) /\ UNCHANGED workerVars
  \/ \E r \in Request : PostCheck(r) /\ UNCHANGED workerVars
  \/ \E r \in Request : PollSettled(r) /\ UNCHANGED workerVars
  \/ \E r \in Request : DeleteCheck(r) /\ UNCHANGED workerVars
  \/ \E r \in Request : GiveUp(r) /\ UNCHANGED workerVars
  \/ \E r \in Request : CancelCheck(r) /\ UNCHANGED workerVars
  \/ \E r \in Request : FindStrategy(r) /\ UNCHANGED workerVars
  \/ \E r \in Request : CreateStrategy(r) /\ UNCHANGED workerVars
  \/ \E r \in Request : CountOpen(r) /\ UNCHANGED workerVars
  \/ \E r \in Request : InsertJob(r) /\ UNCHANGED workerVars
  \/ \E r \in Request : InsertSweep(r) /\ UNCHANGED workerVars
  \/ \E r \in Request : FailRequest(r) /\ UNCHANGED workerVars
  \/ \E s \in Script : DropCached(s) /\ UNCHANGED workerVars
  \/ \E kind \in CliKinds : CliEnqueue(kind) /\ UNCHANGED workerVars

Spec == Init /\ [][Next]_vars

TypeOK == TableTypeOK /\ WorkerTypeOK /\ WebTypeOK

-----------------------------------------------------------------------------
(* Two workers have the same job in hand only if one of them has held its  *)
(* claim for over 30 minutes: SKIP LOCKED, the status guard of claim_job   *)
(* and the age test of requeue_stale_jobs together.                        *)
ExclusiveWhileFresh ==
  \A v, w \in Worker : \A j \in JobId :
    Handling(v, j) /\ Handling(w, j) /\ v # w => overdue[v] \/ overdue[w]

(* Why: while a worker's claim is fresh its job is nobody else's to take.  *)
(* The row still carries its name and cannot be queued, though the web app *)
(* may have cancelled it, or an overdue worker settled it.                 *)
FreshClaimHeld ==
  \A w \in Worker : \A j \in JobId :
    Handling(w, j) /\ ~overdue[w] =>
      \/ jobs[j].status = "deleted"
      \/ /\ jobs[j].status \in {"running"} \cup Settled
         /\ jobs[j].claimed_by = w
         /\ jobs[j].claimed_at = "recent"

(* Once pollJob has seen a job settle it may stop: no claim, requeue, late *)
(* finish or cancellation ever puts a settled row back in the queue.       *)
SettledStaysSettled ==
  [][\A j \in JobId :
       jobs[j].status \in Settled => jobs[j].status' \in Settled \cup {"deleted"}]_vars

(* The queue implements the lease queue: the workers' names are the lease  *)
(* holders, a lease expires 30 minutes after the claim.                    *)
StateOf(row) ==
  CASE row.status = "running" -> "leased"
    [] row.status \in Settled -> "settled"
    [] row.status = "deleted" -> "removed"
    [] OTHER                  -> row.status

HolderOf(row) == IF row.status = "running" THEN row.claimed_by ELSE None

LeaseState == [j \in JobId |-> StateOf(jobs[j])]
LeaseHolder == [j \in JobId |-> HolderOf(jobs[j])]
LeaseExpired == {j \in JobId : Stale(jobs[j])}

Lease == INSTANCE LeaseQueue WITH
           Task <- JobId, Holder <- Worker, Nobody <- None,
           state <- LeaseState, holder <- LeaseHolder, expired <- LeaseExpired

ImplementsLeaseQueue == Lease!Spec

-----------------------------------------------------------------------------
(* A test page pairs a sweep with its backtest through payload.backtest:   *)
(* the row it names is a backtest of the same user, inserted before, and   *)
(* no check's clean-up ever deletes it.                                    *)
PairNamesBacktest ==
  \A s \in JobId :
    jobs[s].pair # None =>
      LET b == jobs[s].pair IN
      /\ b < s
      /\ Present(b)
      /\ jobs[b].kind = "backtest"
      /\ jobs[b].user = jobs[s].user

(* With one worker for backtests and sweeps, as deployed, claim_job never  *)
(* picks a page's sweep while its backtest still waits, not even when      *)
(* either has been requeued: the backtest was inserted first and goes      *)
(* before it.  A checker beside that worker makes no difference.           *)
BacktestBeforeItsSweep ==
  [][\A s \in JobId :
       jobs[s].pair # None /\ s \in locked' \ locked
         => jobs[jobs[s].pair].status # "queued"]_vars

(* Requests that counted before the others inserted may push a user past   *)
(* MAX_OPEN, but by no more than one test for every other request: a       *)
(* user's open jobs, with the ones that requests past the cap have still   *)
(* to insert, stay within that.                                            *)
StillToInsert(r) ==
  CASE request[r].at = "insert"      -> Need(request[r].form)
    [] request[r].at = "insertSweep" -> 1
    [] OTHER                         -> 0

Promised(u) ==
  {p \in Request \X {1, 2} : request[p[1]].user = u /\ p[2] <= StillToInsert(p[1])}

OpenBound ==
  \A u \in User :
    Cardinality(OpenJobs(u)) + Cardinality(Promised(u))
      <= MaxOpen + 2 * (Cardinality(Request) - 1)

(* "Queue cap: at most MAX_OPEN jobs queued or running per user."  (Does   *)
(* not hold: see the README.)                                              *)
AtMostMaxOpen == \A u \in User : Cardinality(OpenJobs(u)) <= MaxOpen

-----------------------------------------------------------------------------
(* Fairness.  Containers restart (restart: unless-stopped) and connections *)
(* are retried for ever; a connected worker keeps polling; a check always  *)
(* ends, since checking runs nothing; requests run on; time passes.        *)
(* Nobody is obliged to start a test, and nothing is obliged to fail.      *)
FinishSome(w) ==
  \E outcome \in {"done", "failed"} : Finish(w, outcome) /\ UNCHANGED webVars

\* A check, or one whose row its request has deleted meanwhile.
FinishCheck(w) ==
  /\ at[w] = "handling"
  /\ jobs[inHand[w]].kind \notin {"backtest", "sweep"}
  /\ FinishSome(w)

Fairness ==
  /\ \A w \in Worker :
       /\ WF_vars(Connect(w) /\ UNCHANGED webVars)
       /\ WF_vars(LockNext(w) /\ UNCHANGED webVars)
       /\ WF_vars(CommitClaim(w) /\ UNCHANGED webVars)
       /\ WF_vars(FinishCheck(w))
  /\ \A j \in JobId : WF_vars(HalfHourPasses(j) /\ UNCHANGED webVars)
  /\ \A r \in Request : WF_vars(RequestStep(r) /\ UNCHANGED workerVars)

FairSpec == Spec /\ Fairness

\* Every strategy run ends too: each sandbox batch has a wall-clock limit.
HandlersEnd == \A w \in Worker : WF_vars(FinishSome(w))

\* Workers do not die, or lose the database, for ever.
FaultsStop == <>[][~\E w \in Worker : Disconnect(w)]_vars

\* 'running' in the table, and no worker has it in hand.
Orphan(j) ==
  /\ jobs[j].status = "running"
  /\ \A w \in Worker : ~Handling(w, j)

(* Once workers stop dying, every queued job settles, unless a worker that *)
(* died before has left it orphaned.                                       *)
SettlesUnlessOrphaned ==
  FaultsStop /\ HandlersEnd =>
    \A j \in JobId : jobs[j].status = "queued" ~>
                       (jobs[j].status \notin Open \/ Orphan(j))

(* "A long sweep never makes the Strategies page wait for a syntax check": *)
(* checks leave the queue even if a sweep never ends.                      *)
ChecksPassSweeps ==
  FaultsStop =>
    \A j \in JobId : (jobs[j].kind = "check" /\ jobs[j].status = "queued") ~>
                       (jobs[j].status \notin Open \/ Orphan(j))

(* If workers keep reconnecting, no job stays orphaned.                    *)
ReconnectsAdoptOrphans ==
  []<><<\E w \in Worker : Connect(w)>>_vars => \A j \in JobId : Orphan(j) ~> ~Orphan(j)

(* "A job left 'running' by a worker that died is requeued after 30        *)
(* minutes."  (Does not hold: see the README.)                             *)
OrphansRequeued == \A j \in JobId : Orphan(j) ~> ~Orphan(j)
=============================================================================

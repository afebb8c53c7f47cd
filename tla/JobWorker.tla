----------------------------- MODULE JobWorker ------------------------------
(***************************************************************************)
(* The worker processes (backend/btb/engine/worker.py) on the `jobs` table *)
(* (backend/btb/db.py).  A worker connects, requeues stale jobs once, then *)
(* claims and handles one job after another until it is killed or loses    *)
(* its connection; the container, or the backoff loop, then brings it back *)
(* to the connect.  What a handler computes is not modelled here, only     *)
(* that it ends in an outcome, or does not end because the process or its  *)
(* connection is gone.                                                     *)
(***************************************************************************)
EXTENDS JobTable

CONSTANT WorkerKinds   \* the kinds each worker claims (worker --kinds)

ASSUME KindsAssumption == WorkerKinds \in [Worker -> SUBSET Kind]

VARIABLES at,          \* where each worker is in run()
          inHand,      \* the job a worker is claiming or handling
          overdue      \* history: 30 minutes have passed since the claim in hand

workerVars == <<at, inHand, overdue>>

WorkerInit ==
  /\ at = [w \in Worker |-> "away"]
  /\ inHand = [w \in Worker |-> None]
  /\ overdue = [w \in Worker |-> FALSE]

Handling(w, j) == at[w] = "handling" /\ inHand[w] = j

-----------------------------------------------------------------------------
\* Faulty variant: a worker that reconnects does not look for stale jobs.
ConnectOnly(w) ==
  /\ at[w] = "away"
  /\ at' = [at EXCEPT ![w] = "idle"]
  /\ UNCHANGED <<jobs, locked, inHand, overdue>>

(* db.connect() succeeds and requeue_stale_jobs commits: every job that    *)
(* has been running for over 30 minutes goes back, whoever holds it.       *)
Connect(w) ==
  /\ at[w] = "away"
  /\ jobs' = [j \in JobId |-> IF Stale(jobs[j]) THEN Requeued(jobs[j]) ELSE jobs[j]]
  /\ at' = [at EXCEPT ![w] = "idle"]
  /\ UNCHANGED <<locked, inHand, overdue>>

(* claim_job, first half: the subquery has found and locked a row.         *)
LockNext(w) ==
  /\ at[w] = "idle"
  /\ \E j \in JobId :
       /\ NextClaim(WorkerKinds[w], j)
       /\ locked' = locked \cup {j}
       /\ inHand' = [inHand EXCEPT ![w] = j]
  /\ at' = [at EXCEPT ![w] = "claiming"]
  /\ UNCHANGED <<jobs, overdue>>

(* claim_job, second half: the UPDATE commits and the handler starts.      *)
CommitClaim(w) ==
  /\ at[w] = "claiming"
  /\ jobs' = [jobs EXCEPT ![inHand[w]] = Claimed(@, w)]
  /\ locked' = locked \ {inHand[w]}
  /\ at' = [at EXCEPT ![w] = "handling"]
  /\ UNCHANGED <<inHand, overdue>>

(* _handle: the handler returned or raised, and finish_job commits.        *)
Finish(w, outcome) ==
  /\ at[w] = "handling"
  /\ Unlocked(inHand[w])
  /\ jobs' = [jobs EXCEPT ![inHand[w]] = Finished(@, outcome)]
  /\ at' = [at EXCEPT ![w] = "idle"]
  /\ inHand' = [inHand EXCEPT ![w] = None]
  /\ overdue' = [overdue EXCEPT ![w] = FALSE]
  /\ UNCHANGED locked

\* Faulty variants: the lock of an aborted claim is never released ...
DisconnectKeepingLock(w) ==
  /\ at[w] # "away"
  /\ at' = [at EXCEPT ![w] = "away"]
  /\ inHand' = [inHand EXCEPT ![w] = None]
  /\ overdue' = [overdue EXCEPT ![w] = FALSE]
  /\ UNCHANGED <<jobs, locked>>

\* ... and the worker carries its job over the reconnect.
DisconnectKeepingJob(w) ==
  /\ at[w] # "away"
  /\ locked' = IF at[w] = "claiming" THEN locked \ {inHand[w]} ELSE locked
  /\ at' = [at EXCEPT ![w] = "away"]
  /\ UNCHANGED <<jobs, inHand, overdue>>

(* The process dies, or a statement raises OperationalError and run()      *)
(* leaves the inner loop.  The server rolls the open transaction back; the *)
(* job in hand, if its claim was committed, stays 'running'.               *)
Disconnect(w) ==
  /\ at[w] # "away"
  /\ locked' = IF at[w] = "claiming" THEN locked \ {inHand[w]} ELSE locked
  /\ at' = [at EXCEPT ![w] = "away"]
  /\ inHand' = [inHand EXCEPT ![w] = None]
  /\ overdue' = [overdue EXCEPT ![w] = FALSE]
  /\ UNCHANGED jobs

(* Time: the claim on row j passes older_than_s.                           *)
HalfHourPasses(j) ==
  /\ jobs[j].claimed_at = "recent"
  /\ jobs' = [jobs EXCEPT ![j].claimed_at = "old"]
  /\ overdue' = [w \in Worker |->
                   overdue[w] \/ (Handling(w, j) /\ jobs[j].claimed_by = w)]
  /\ UNCHANGED <<locked, at, inHand>>

WorkerTypeOK ==
  /\ at \in [Worker -> {"away", "idle", "claiming", "handling"}]
  /\ inHand \in [Worker -> JobId \cup {None}]
  /\ overdue \in [Worker -> BOOLEAN]
  /\ \A w \in Worker : at[w] \in {"claiming", "handling"} <=> inHand[w] # None
=============================================================================

------------------------------ MODULE JobTable ------------------------------
(***************************************************************************)
(* The `jobs` table: the only seam between the web app, which inserts      *)
(* rows, and the Python workers, which claim them, run them and write the  *)
(* outcome back (backend/btb/schema.sql, backend/btb/db.py).               *)
(*                                                                         *)
(* A row is a record.  Payloads, results and error messages are left out:  *)
(* this module keeps the columns that queries select on.  `claimed_at`     *)
(* keeps only what requeue_stale_jobs asks of it, whether it is more than  *)
(* older_than_s (30 minutes) ago.  A row's life in `status` is extended    *)
(* with "absent" (not inserted yet) and "deleted", so that ids are never   *)
(* used twice, as with the table's bigserial.                              *)
(***************************************************************************)
EXTENDS Naturals

CONSTANTS JobId,    \* the ids the sequence can still hand out (a bound)
          Worker,   \* worker processes, by name
          User,     \* accounts
          None      \* SQL NULL

ASSUME TableAssumption ==
  /\ JobId \subseteq Nat
  /\ None \notin JobId
  /\ None \notin Worker
  /\ None \notin User

VARIABLES jobs,     \* the committed rows
          locked    \* the rows an uncommitted claim holds FOR UPDATE

tableVars == <<jobs, locked>>

Kind == {"backtest", "sweep", "check"}

Open    == {"queued", "running"}
Settled == {"done", "failed", "cancelled"}
Status  == Open \cup Settled \cup {"absent", "deleted"}

Row == [kind       : Kind \cup {"none"},
        user       : User \cup {None},
        priority   : Nat,
        pair       : JobId \cup {None},     \* payload.backtest of a sweep
        status     : Status,
        claimed_by : Worker \cup {None},
        claimed_at : {"null", "recent", "old"}]

NoRow(status) ==
  [kind |-> "none", user |-> None, priority |-> 0, pair |-> None,
   status |-> status, claimed_by |-> None, claimed_at |-> "null"]

QueuedRow(kind, user, priority, pair) ==
  [kind |-> kind, user |-> user, priority |-> priority, pair |-> pair,
   status |-> "queued", claimed_by |-> None, claimed_at |-> "null"]

Present(j) == jobs[j].status \notin {"absent", "deleted"}

\* An UPDATE or DELETE of a row another transaction holds waits for it.
Unlocked(j) == j \notin locked

TableInit ==
  /\ jobs = [j \in JobId |-> NoRow("absent")]
  /\ locked = {}

-----------------------------------------------------------------------------
(* INSERT: the sequence hands out ids in order.                            *)

NextId(j) ==
  /\ jobs[j].status = "absent"
  /\ \A i \in JobId : jobs[i].status = "absent" => j <= i

Insert(j, kind, user, priority, pair) ==
  /\ NextId(j)
  /\ jobs' = [jobs EXCEPT ![j] = QueuedRow(kind, user, priority, pair)]
  /\ UNCHANGED locked

(* The subquery of claim_job: queued rows of the worker's kinds, in order  *)
(* of (priority, id), skipping the ones another claim has locked.          *)

\* Faulty variants: a subquery without FOR UPDATE SKIP LOCKED ...
ClaimableThoughLocked(kinds) ==
  {j \in JobId : jobs[j].status = "queued" /\ jobs[j].kind \in kinds}

\* ... and one that forgets the worker's kinds.
ClaimableOfAnyKind(kinds) ==
  {j \in JobId : jobs[j].status = "queued" /\ Unlocked(j)}

Claimable(kinds) ==
  {j \in JobId : /\ jobs[j].status = "queued"
                 /\ jobs[j].kind \in kinds
                 /\ Unlocked(j)}

Before(i, j) ==
  \/ jobs[i].priority < jobs[j].priority
  \/ jobs[i].priority = jobs[j].priority /\ i <= j

NextClaim(kinds, j) ==
  /\ j \in Claimable(kinds)
  /\ \A i \in Claimable(kinds) : Before(j, i)

(* The rows as the UPDATE of each query leaves them.                       *)

Claimed(row, w) ==
  [row EXCEPT !.status = "running", !.claimed_by = w, !.claimed_at = "recent"]

\* Faulty variants: requeueing without the age test, and without the status.
RunningAtAll(row) == row.status = "running"
ClaimedLongAgo(row) == row.claimed_at = "old"

Stale(row) == row.status = "running" /\ row.claimed_at = "old"

Requeued(row) ==
  [row EXCEPT !.status = "queued", !.claimed_by = None, !.claimed_at = "null"]

\* Faulty variant: a failed job is put back to be tried again.
RetriedIfFailed(row, outcome) ==
  IF outcome = "failed" THEN Requeued(row) ELSE [row EXCEPT !.status = outcome]

\* finish_job names the row by id alone: whoever calls it, and whatever the
\* row's status has become, the outcome is written.
Finished(row, outcome) ==
  IF row.status \in {"absent", "deleted"} THEN row
  ELSE [row EXCEPT !.status = outcome]

TableTypeOK ==
  /\ jobs \in [JobId -> Row]
  /\ locked \subseteq JobId
=============================================================================

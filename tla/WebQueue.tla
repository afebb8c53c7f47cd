------------------------------ MODULE WebQueue ------------------------------
(***************************************************************************)
(* The web app's side of the queue: queueTest, the one path behind POST    *)
(* /api/backtests and the MCP run_test tool, with the checkPine it calls   *)
(* (web/src/lib/queueTest.ts, web/src/lib/pineCheck.ts), and the command   *)
(* line's enqueue.  A request runs one SQL statement per step: nothing     *)
(* holds a transaction or a lock across two of them.  Validation that only *)
(* looks at the request is left out; a script is one that checks out or    *)
(* one that does not.                                                      *)
(***************************************************************************)
EXTENDS JobTable, FiniteSets

CONSTANTS Request,        \* requests the web server handles at once
          Form,           \* what is asked for: a backtest, a sweep, or a pair
          Script,         \* Pine sources users paste
          ChecksOut,      \* the ones the checker accepts
          MaxOpen,        \* MAX_OPEN
          CliKinds        \* kinds queued from the command line

ASSUME WebAssumption ==
  /\ Form \subseteq {"backtest", "sweep", "pair"}
  /\ ChecksOut \subseteq Script
  /\ None \notin Script
  /\ MaxOpen \in Nat
  /\ CliKinds \subseteq Kind
  /\ IsFiniteSet(Request) /\ Request # {}

VARIABLES request,        \* the requests in progress
          cache,          \* pineCheck's in-memory answers, by source
          stored          \* strategies rows of each user holding each source

webVars == <<request, cache, stored>>

Phase == {"idle", "check", "polling", "answered", "refused", "cancel",
          "find", "create", "count", "insert", "insertSweep"}

Idle == [at |-> "idle", user |-> None, form |-> "none", script |-> None,
         row |-> None]

WebInit ==
  /\ request = [r \in Request |-> Idle]
  /\ cache = {}
  /\ stored = [u \in User |-> [s \in Script |-> 0]]

Goto(r, phase) == request' = [request EXCEPT ![r].at = phase]
Reply(r) == request' = [request EXCEPT ![r] = Idle]
\* What a request does once it knows whether its script checks out.
AfterCheck(r) ==
  IF request[r].script \in ChecksOut
  THEN request' = [request EXCEPT ![r].at = "find", ![r].row = None]
  ELSE Reply(r)

Need(form) == IF form = "pair" THEN 2 ELSE 1

OpenJobs(u) ==
  {j \in JobId : /\ jobs[j].user = u
                 /\ jobs[j].status \in Open
                 /\ jobs[j].kind # "check"}

-----------------------------------------------------------------------------
(* POST /api/backtests.  A library or stored strategy goes straight to the *)
(* queue cap; a pasted script is checked first unless the cache has its    *)
(* answer.  (A cached refusal is answered at once and changes nothing.)    *)
StartTest(r, u, form, script) ==
  /\ request[r].at = "idle"
  /\ script \in cache => script \in ChecksOut
  /\ request' = [request EXCEPT ![r] =
       [at     |-> CASE script = None     -> "count"
                     [] script \in cache  -> "find"
                     [] OTHER             -> "check",
        user   |-> u, form |-> form, script |-> script, row |-> None]]
  /\ UNCHANGED <<tableVars, cache, stored>>

(* checkPine: the check job goes in front of everything else.              *)
PostCheck(r) ==
  /\ request[r].at = "check"
  /\ \E j \in JobId :
       /\ Insert(j, "check", request[r].user, 10, None)
       /\ request' = [request EXCEPT ![r].at = "polling", ![r].row = j]
  /\ UNCHANGED <<cache, stored>>

(* A poll that finds the job settled.  The answer is cached before the row *)
(* is deleted.                                                             *)
PollSettled(r) ==
  /\ request[r].at = "polling"
  /\ \/ /\ jobs[request[r].row].status = "done"
        /\ cache' = cache \cup {request[r].script}
        /\ Goto(r, "answered")
     \/ /\ jobs[request[r].row].status = "failed"
        /\ Goto(r, "refused")
        /\ UNCHANGED cache
  /\ UNCHANGED <<tableVars, stored>>

(* The row is deleted, or the delete fails and that is ignored.            *)
DeleteCheck(r) ==
  /\ request[r].at \in {"answered", "refused"}
  /\ Unlocked(request[r].row)
  /\ \/ jobs' = [jobs EXCEPT ![request[r].row] = NoRow("deleted")]
     \/ UNCHANGED jobs
  /\ IF request[r].at = "answered" THEN AfterCheck(r) ELSE Reply(r)
  /\ UNCHANGED <<locked, cache, stored>>

(* WAIT_MS have passed since the check was queued...                       *)
GiveUp(r) ==
  /\ request[r].at = "polling"
  /\ Goto(r, "cancel")
  /\ UNCHANGED <<tableVars, cache, stored>>

(* ... and the row becomes 'cancelled', whatever it has become meanwhile.  *)
CancelCheck(r) ==
  /\ request[r].at = "cancel"
  /\ Unlocked(request[r].row)
  /\ jobs' = [jobs EXCEPT ![request[r].row] = Finished(@, "cancelled")]
  /\ Reply(r)
  /\ UNCHANGED <<locked, cache, stored>>

(* strategies.findFirst by user and source hash ...                        *)
FindStrategy(r) ==
  /\ request[r].at = "find"
  /\ Goto(r, IF stored[request[r].user][request[r].script] > 0
             THEN "count" ELSE "create")
  /\ UNCHANGED <<tableVars, cache, stored>>

(* ... and, when there was none, strategies.create.                        *)
CreateStrategy(r) ==
  /\ request[r].at = "create"
  /\ stored' = [stored EXCEPT ![request[r].user][request[r].script] = @ + 1]
  /\ Goto(r, "count")
  /\ UNCHANGED <<tableVars, cache>>

\* Faulty variant: the cap forgets the jobs the request itself will add.
CountOpenOnly(r) ==
  /\ request[r].at = "count"
  /\ IF Cardinality(OpenJobs(request[r].user)) > MaxOpen
     THEN Reply(r)
     ELSE Goto(r, "insert")
  /\ UNCHANGED <<tableVars, cache, stored>>

(* The queue cap.                                                          *)
CountOpen(r) ==
  /\ request[r].at = "count"
  /\ IF Cardinality(OpenJobs(request[r].user)) + Need(request[r].form) > MaxOpen
     THEN Reply(r)
     ELSE Goto(r, "insert")
  /\ UNCHANGED <<tableVars, cache, stored>>

\* Faulty variant: every job is queued with the same priority as a sweep.
InsertJobInTurn(r) ==
  /\ request[r].at = "insert"
  /\ \E j \in JobId :
       LET form == request[r].form IN
       /\ Insert(j, IF form = "sweep" THEN "sweep" ELSE "backtest", request[r].user, 100, None)
       /\ IF form = "pair"
          THEN request' = [request EXCEPT ![r].at = "insertSweep", ![r].row = j]
          ELSE Reply(r)
  /\ UNCHANGED <<cache, stored>>

(* The job itself ...                                                      *)
InsertJob(r) ==
  /\ request[r].at = "insert"
  /\ \E j \in JobId :
       LET form == request[r].form IN
       /\ IF form = "sweep"
          THEN Insert(j, "sweep", request[r].user, 100, None)
          ELSE Insert(j, "backtest", request[r].user, 50, None)
       /\ IF form = "pair"
          THEN request' = [request EXCEPT ![r].at = "insertSweep", ![r].row = j]
          ELSE Reply(r)
  /\ UNCHANGED <<cache, stored>>

\* Faulty variant: the sweep names the row before its own, not the backtest.
InsertSweepAfterLast(r) ==
  /\ request[r].at = "insertSweep"
  /\ \E j \in JobId : j > 1 /\ Insert(j, "sweep", request[r].user, 60, j - 1)
  /\ Reply(r)
  /\ UNCHANGED <<cache, stored>>

(* ... and, withSweep, the sweep that names it.                            *)
InsertSweep(r) ==
  /\ request[r].at = "insertSweep"
  /\ \E j \in JobId : Insert(j, "sweep", request[r].user, 60, request[r].row)
  /\ Reply(r)
  /\ UNCHANGED <<cache, stored>>

(* A statement throws, or the server restarts: the rows already written    *)
(* stay, and nobody continues the request.                                 *)
FailRequest(r) ==
  /\ request[r].at # "idle"
  /\ Reply(r)
  /\ UNCHANGED <<tableVars, cache, stored>>

(* CACHE_TTL_MS have passed, CACHE_MAX is reached, or the server restarts. *)
DropCached(s) ==
  /\ s \in cache
  /\ cache' = cache \ {s}
  /\ UNCHANGED <<tableVars, request, stored>>

(* `python -m btb.engine enqueue`: no user, no cap, default priority.      *)
CliEnqueue(kind) ==
  /\ \E j \in JobId : Insert(j, kind, None, 100, None)
  /\ UNCHANGED webVars

\* What a request does next; starting one and its failing are not its doing.
RequestStep(r) ==
  \/ PostCheck(r) \/ PollSettled(r) \/ DeleteCheck(r) \/ GiveUp(r) \/ CancelCheck(r)
  \/ FindStrategy(r) \/ CreateStrategy(r)
  \/ CountOpen(r) \/ InsertJob(r) \/ InsertSweep(r)

RequestType == [at     : Phase,
                user   : User \cup {None},
                form   : Form \cup {"none"},
                script : Script \cup {None},
                row    : JobId \cup {None}]

\* What a request in progress has learnt by each phase.
WellFormed(req) ==
  /\ req.at # "idle" => req.user \in User
  /\ req.at \in {"check", "polling", "answered", "refused", "cancel", "find", "create"}
       => req.script \in Script
  /\ req.at \in {"polling", "answered", "refused", "cancel", "insertSweep"}
       => req.row \in JobId

WebTypeOK ==
  /\ request \in [Request -> RequestType]
  /\ \A r \in Request : WellFormed(request[r])
  /\ cache \subseteq Script
  /\ stored \in [User -> [Script -> Nat]]
=============================================================================

-------------------------- MODULE JobSystemProofs ---------------------------
(***************************************************************************)
(* What holds of JobSystem for any number of workers, requests, users,     *)
(* scripts and jobs: its types, the exclusiveness of fresh claims, what    *)
(* may happen to a row over its life, and that the whole system            *)
(* implements the lease queue.                                             *)
(***************************************************************************)
EXTENDS JobSystem, JobWorkerProofs, FiniteSetTheorems

-----------------------------------------------------------------------------
(* Types of the web side.                                                  *)

(* A request that takes a step and is still well formed.                   *)
LEMMA RequestType1 ==
  ASSUME request \in [Request -> RequestType],
         \A r \in Request : WellFormed(request[r]),
         NEW r \in Request, NEW req \in RequestType, WellFormed(req),
         request' = [request EXCEPT ![r] = req]
  PROVE  /\ request' \in [Request -> RequestType]
         /\ \A s \in Request : WellFormed(request'[s])
  OBVIOUS

LEMMA IdleType == Idle \in RequestType /\ WellFormed(Idle)
  BY DEF Idle, RequestType, WellFormed, Phase

LEMMA WebSideTypes ==
  ASSUME TableTypeOK, WebTypeOK,
         \/ \E r \in Request, u \in User, form \in Form, script \in Script \cup {None} :
              StartTest(r, u, form, script)
         \/ \E r \in Request : RequestStep(r)
         \/ \E r \in Request : FailRequest(r)
         \/ \E s \in Script : DropCached(s)
         \/ \E kind \in CliKinds : CliEnqueue(kind)
  PROVE  TableTypeOK' /\ WebTypeOK'
<1> DEFINE Requests == /\ request \in [Request -> RequestType]
                       /\ \A r \in Request : WellFormed(request[r])
           Memory == cache \subseteq Script /\ stored \in [User -> [Script -> Nat]]
<1>0. Requests /\ Memory
  BY DEF WebTypeOK
<1> SUFFICES TableTypeOK' /\ Requests' /\ Memory'
  BY DEF WebTypeOK
<1>goto. ASSUME NEW r \in Request, NEW phase \in Phase, Goto(r, phase),
                WellFormed([request[r] EXCEPT !.at = phase])
         PROVE  Requests'
  <2>1. [request[r] EXCEPT !.at = phase] \in RequestType
    BY <1>0 DEF RequestType
  <2> QED
    BY <1>0, <1>goto, <2>1, RequestType1 DEF Goto
<1>row. ASSUME NEW r \in Request, NEW phase \in Phase, NEW row \in JobId \cup {None},
               request' = [request EXCEPT ![r].at = phase, ![r].row = row],
               WellFormed([request[r] EXCEPT !.at = phase, !.row = row])
        PROVE  Requests'
  <2>1. [request[r] EXCEPT !.at = phase, !.row = row] \in RequestType
    BY <1>0 DEF RequestType
  <2> QED
    BY <1>0, <1>row, <2>1, RequestType1
<1>idle. ASSUME NEW r \in Request, Reply(r) PROVE Requests'
  BY <1>0, <1>idle, RequestType1, IdleType DEF Reply
<1>1. ASSUME NEW r \in Request, NEW u \in User, NEW form \in Form,
             NEW script \in Script \cup {None}, StartTest(r, u, form, script)
      PROVE  TableTypeOK' /\ Requests' /\ Memory'
  <2> DEFINE phase == CASE script = None     -> "count"
                        [] script \in cache  -> "find"
                        [] OTHER             -> "check"
             req == [at |-> phase, user |-> u, form |-> form, script |-> script, row |-> None]
  <2>1. request' = [request EXCEPT ![r] = req] /\ UNCHANGED <<tableVars, cache, stored>>
    BY <1>1 DEF StartTest
  <2>2. phase \in {"count", "find", "check"} /\ (phase # "count" => script \in Script)
    <3>1. CASE script = None
      BY <1>0, <3>1, WebAssumption
    <3>2. CASE script # None /\ script \in cache
      BY <3>2, SMT
    <3>3. CASE script # None /\ script \notin cache
      BY <3>3, SMT
    <3> QED
      BY <3>1, <3>2, <3>3
  <2> HIDE DEF phase
  <2>3. req \in RequestType /\ WellFormed(req)
    BY <2>2 DEF RequestType, WellFormed, Phase
  <2> HIDE DEF req
  <2> QED
    BY <1>0, <2>1, <2>3, RequestType1 DEF tableVars, TableTypeOK
<1>2. ASSUME NEW r \in Request, PostCheck(r)
      PROVE  TableTypeOK' /\ Requests' /\ Memory'
  <2>1. PICK j \in JobId : /\ Insert(j, "check", request[r].user, 10, None)
                          /\ request' = [request EXCEPT ![r].at = "polling", ![r].row = j]
    BY <1>2 DEF PostCheck
  <2>2. request[r] \in RequestType /\ request[r].user \in User /\ request[r].script \in Script
    BY <1>0, <1>2 DEF PostCheck, WellFormed
  <2>3. TableTypeOK'
    BY <2>1, <2>2, InsertType DEF Kind
  <2>4. Requests'
    BY <1>row, <2>1, <2>2 DEF Phase, WellFormed, RequestType
  <2> QED
    BY <1>0, <1>2, <2>3, <2>4 DEF PostCheck
<1>3. ASSUME NEW r \in Request, PollSettled(r)
      PROVE  TableTypeOK' /\ Requests' /\ Memory'
  <2>1. /\ request[r] \in RequestType
        /\ request[r].at = "polling" /\ request[r].user \in User
        /\ request[r].script \in Script /\ request[r].row \in JobId
    BY <1>0, <1>3 DEF PollSettled, WellFormed
  <2>2. TableTypeOK' /\ Memory'
    BY <1>0, <1>3, <2>1 DEF PollSettled, tableVars, TableTypeOK
  <2>3. \A phase \in {"answered", "refused"} : WellFormed([request[r] EXCEPT !.at = phase])
    BY <2>1 DEF WellFormed, RequestType
  <2>4. PICK phase \in {"answered", "refused"} : Goto(r, phase)
    BY <1>3 DEF PollSettled
  <2> QED
    BY <1>goto, <2>2, <2>3, <2>4 DEF Phase
<1>4. ASSUME NEW r \in Request, DeleteCheck(r)
      PROVE  TableTypeOK' /\ Requests' /\ Memory'
  <2>1. /\ request[r] \in RequestType
        /\ request[r].at \in {"answered", "refused"} /\ request[r].user \in User
        /\ request[r].script \in Script /\ request[r].row \in JobId
    BY <1>0, <1>4 DEF DeleteCheck, WellFormed
  <2>2. TableTypeOK'
    BY <1>4, <2>1, RowsAreRows DEF DeleteCheck, Status, TableTypeOK
  <2>3. ASSUME request' = [request EXCEPT ![r].at = "find", ![r].row = None]
        PROVE  Requests'
    <3>1. WellFormed([request[r] EXCEPT !.at = "find", !.row = None])
      BY <2>1 DEF WellFormed, RequestType
    <3> QED
      BY <1>row, <2>3, <3>1 DEF Phase
  <2>4. Requests'
    BY <1>4, <1>idle, <2>3 DEF DeleteCheck, AfterCheck
  <2> QED
    BY <1>0, <1>4, <2>2, <2>4 DEF DeleteCheck
<1>5. ASSUME NEW r \in Request, GiveUp(r)
      PROVE  TableTypeOK' /\ Requests' /\ Memory'
  <2>1. request[r] \in RequestType /\ request[r].at = "polling" /\ WellFormed(request[r])
    BY <1>0, <1>5 DEF GiveUp
  <2>2. WellFormed([request[r] EXCEPT !.at = "cancel"])
    BY <2>1 DEF WellFormed, RequestType
  <2>3. Requests'
    BY <1>5, <1>goto, <2>2 DEF GiveUp, Phase
  <2> QED
    BY <1>0, <1>5, <2>3 DEF GiveUp, tableVars, TableTypeOK
<1>6. ASSUME NEW r \in Request, CancelCheck(r)
      PROVE  TableTypeOK' /\ Requests' /\ Memory'
  <2>1. request[r].row \in JobId
    BY <1>0, <1>6 DEF CancelCheck, WellFormed
  <2>2. TableTypeOK'
    BY <1>6, <2>1, RowsAreRows DEF CancelCheck, Settled, TableTypeOK
  <2> QED
    BY <1>0, <1>6, <1>idle, <2>2 DEF CancelCheck
<1>7. ASSUME NEW r \in Request, FindStrategy(r) \/ CreateStrategy(r)
      PROVE  TableTypeOK' /\ Requests' /\ Memory'
  <2>1. /\ request[r] \in RequestType /\ request[r].at \in {"find", "create"}
        /\ request[r].user \in User /\ request[r].script \in Script
    BY <1>0, <1>7 DEF FindStrategy, CreateStrategy, WellFormed
  <2>2. \A phase \in {"create", "count"} : WellFormed([request[r] EXCEPT !.at = phase])
    BY <2>1 DEF WellFormed, RequestType
  <2>3. PICK phase \in {"create", "count"} : Goto(r, phase)
    BY <1>7 DEF FindStrategy, CreateStrategy
  <2>4. Requests'
    BY <1>goto, <2>2, <2>3 DEF Phase
  <2>5. Memory'
    BY <1>0, <1>7, <2>1 DEF FindStrategy, CreateStrategy
  <2> QED
    BY <1>7, <2>4, <2>5 DEF FindStrategy, CreateStrategy, tableVars, TableTypeOK
<1>8. ASSUME NEW r \in Request, CountOpen(r)
      PROVE  TableTypeOK' /\ Requests' /\ Memory'
  <2>1. request[r] \in RequestType /\ request[r].at = "count" /\ request[r].user \in User
    BY <1>0, <1>8 DEF CountOpen, WellFormed
  <2>2. WellFormed([request[r] EXCEPT !.at = "insert"])
    BY <2>1 DEF WellFormed, RequestType
  <2>3. Requests'
    BY <1>8, <1>goto, <1>idle, <2>2 DEF CountOpen, Phase
  <2> QED
    BY <1>0, <1>8, <2>3 DEF CountOpen, tableVars, TableTypeOK
<1>9. ASSUME NEW r \in Request, InsertJob(r)
      PROVE  TableTypeOK' /\ Requests' /\ Memory'
  <2>1. request[r] \in RequestType /\ request[r].user \in User
    BY <1>0, <1>9 DEF InsertJob, WellFormed
  <2>2. PICK j \in JobId :
          /\ \/ Insert(j, "sweep", request[r].user, 100, None)
             \/ Insert(j, "backtest", request[r].user, 50, None)
          /\ \/ request' = [request EXCEPT ![r].at = "insertSweep", ![r].row = j]
             \/ Reply(r)
    BY <1>9 DEF InsertJob
  <2>3. TableTypeOK'
    BY <2>1, <2>2, InsertType DEF Kind
  <2>4. WellFormed([request[r] EXCEPT !.at = "insertSweep", !.row = j])
    BY <2>1 DEF WellFormed, RequestType
  <2>5. Requests'
    BY <1>idle, <1>row, <2>2, <2>4 DEF Phase
  <2> QED
    BY <1>0, <1>9, <2>3, <2>5 DEF InsertJob
<1>10. ASSUME NEW r \in Request, InsertSweep(r)
       PROVE  TableTypeOK' /\ Requests' /\ Memory'
  <2>1. request[r].user \in User /\ request[r].row \in JobId
    BY <1>0, <1>10 DEF InsertSweep, WellFormed
  <2>2. TableTypeOK'
    BY <1>10, <2>1, InsertType DEF InsertSweep, Kind
  <2> QED
    BY <1>0, <1>10, <1>idle, <2>2 DEF InsertSweep
<1>11. ASSUME NEW r \in Request, FailRequest(r)
       PROVE  TableTypeOK' /\ Requests' /\ Memory'
  BY <1>0, <1>11, <1>idle DEF FailRequest, tableVars, TableTypeOK
<1>12. ASSUME NEW s \in Script, DropCached(s)
       PROVE  TableTypeOK' /\ Requests' /\ Memory'
  BY <1>0, <1>12 DEF DropCached, tableVars, TableTypeOK
<1>13. ASSUME NEW kind \in CliKinds, CliEnqueue(kind)
       PROVE  TableTypeOK' /\ Requests' /\ Memory'
  <2>1. TableTypeOK'
    BY <1>13, InsertType, WebAssumption DEF CliEnqueue
  <2> QED
    BY <1>0, <1>13, <2>1 DEF CliEnqueue, webVars
<1> QED
  BY <1>1, <1>2, <1>3, <1>4, <1>5, <1>6, <1>7, <1>8, <1>9, <1>10, <1>11, <1>12, <1>13
     DEF RequestStep

-----------------------------------------------------------------------------
(* A step of the system is a step of one side, and the other side keeps    *)
(* its memory.                                                             *)

WebSideStep ==
  \/ \E r \in Request, u \in User, form \in Form, script \in Script \cup {None} :
       StartTest(r, u, form, script)
  \/ \E r \in Request : RequestStep(r)
  \/ \E r \in Request : FailRequest(r)
  \/ \E s \in Script : DropCached(s)
  \/ \E kind \in CliKinds : CliEnqueue(kind)

LEMMA Sides ==
  Next => \/ WorkerSideStep /\ UNCHANGED webVars
          \/ WebSideStep /\ UNCHANGED workerVars
  BY DEF Next, WorkerSideStep, WebSideStep, RequestStep

LEMMA TypeInit == Init => TypeOK
<1> SUFFICES ASSUME Init PROVE TypeOK
  OBVIOUS
<1>1. TableTypeOK
  BY RowsAreRows DEF Init, TableInit, TableTypeOK, Status
<1>2. WorkerTypeOK
  BY DEF Init, WorkerInit, WorkerTypeOK
<1>3. WebTypeOK
  BY IdleType DEF Init, WebInit, WebTypeOK
<1> QED
  BY <1>1, <1>2, <1>3 DEF TypeOK

LEMMA TypeStep == TypeOK /\ [Next]_vars => TypeOK'
<1> SUFFICES ASSUME TypeOK, [Next]_vars PROVE TypeOK'
  OBVIOUS
<1>1. CASE WorkerSideStep /\ UNCHANGED webVars
  <2>1. TableTypeOK' /\ WorkerTypeOK'
    BY <1>1, WorkerSideTypes DEF TypeOK, WorkerSideStep
  <2> QED
    BY <1>1, <2>1 DEF TypeOK, WebTypeOK, webVars
<1>2. CASE WebSideStep /\ UNCHANGED workerVars
  <2>1. TableTypeOK' /\ WebTypeOK'
    BY <1>2, WebSideTypes DEF TypeOK, WebSideStep
  <2> QED
    BY <1>2, <2>1 DEF TypeOK, WorkerTypeOK, workerVars
<1>3. CASE UNCHANGED vars
  BY <1>3 DEF vars, tableVars, workerVars, webVars, TypeOK, TableTypeOK, WorkerTypeOK, WebTypeOK
<1> QED
  BY <1>1, <1>2, <1>3, Sides

(* Every state of every behaviour has the types the modules state.         *)
THEOREM TypeCorrect == Spec => []TypeOK
  BY TypeInit, TypeStep, PTL DEF Spec

-----------------------------------------------------------------------------
(* Claims.                                                                 *)

\* A worker between the two halves of claim_job holds the lock of a queued
\* row, and no other worker holds the same one.
ClaimsLocked ==
  \A w \in Worker :
    at[w] = "claiming" => inHand[w] \in locked /\ jobs[inHand[w]].status = "queued"

OneClaimer ==
  \A v, w \in Worker :
    at[v] = "claiming" /\ at[w] = "claiming" /\ inHand[v] = inHand[w] => v = w

ClaimInv ==
  TypeOK /\ ClaimsLocked /\ OneClaimer /\ FreshClaimHeld /\ ExclusiveWhileFresh

(* What the web app does to a row: it inserts it, or, when no claim has it *)
(* locked, deletes or cancels it.                                          *)
WebRowEffect(j) ==
  \/ jobs'[j] = jobs[j]
  \/ /\ jobs[j].status = "absent"
     /\ \E kind \in Kind, user \in User \cup {None}, priority \in Nat, pair \in JobId \cup {None} :
          jobs'[j] = QueuedRow(kind, user, priority, pair)
  \/ Unlocked(j) /\ jobs'[j] = NoRow("deleted")
  \/ Unlocked(j) /\ jobs'[j] = Finished(jobs[j], "cancelled")

LEMMA WebOnTable ==
  ASSUME TableTypeOK, WebTypeOK, WebSideStep
  PROVE  locked' = locked /\ \A j \in JobId : WebRowEffect(j)
<1> USE DEF TableTypeOK
<1> DEFINE Goal == locked' = locked /\ \A j \in JobId : WebRowEffect(j)
<1>same. ASSUME UNCHANGED tableVars PROVE Goal
  BY <1>same DEF tableVars, WebRowEffect
<1>insert. ASSUME NEW j \in JobId, NEW kind \in Kind, NEW user \in User \cup {None},
                  NEW priority \in Nat, NEW pair \in JobId \cup {None},
                  Insert(j, kind, user, priority, pair)
           PROVE  Goal
  BY <1>insert DEF Insert, NextId, WebRowEffect
<1>1. ASSUME NEW r \in Request, PostCheck(r) PROVE Goal
  <2>1. request[r].user \in User
    BY <1>1 DEF PostCheck, WebTypeOK, WellFormed
  <2> QED
    BY <1>1, <1>insert, <2>1 DEF PostCheck, Kind
<1>2. ASSUME NEW r \in Request, DeleteCheck(r) PROVE Goal
  BY <1>2 DEF DeleteCheck, WebRowEffect
<1>3. ASSUME NEW r \in Request, CancelCheck(r) PROVE Goal
  BY <1>3 DEF CancelCheck, WebRowEffect
<1>4. ASSUME NEW r \in Request, InsertJob(r) PROVE Goal
  <2>1. request[r].user \in User
    BY <1>4 DEF InsertJob, WebTypeOK, WellFormed
  <2>2. PICK j \in JobId : \/ Insert(j, "sweep", request[r].user, 100, None)
                          \/ Insert(j, "backtest", request[r].user, 50, None)
    BY <1>4 DEF InsertJob
  <2> QED
    BY <1>insert, <2>1, <2>2 DEF Kind
<1>5. ASSUME NEW r \in Request, InsertSweep(r) PROVE Goal
  <2>1. request[r].user \in User /\ request[r].row \in JobId
    BY <1>5 DEF InsertSweep, WebTypeOK, WellFormed
  <2> QED
    BY <1>5, <1>insert, <2>1 DEF InsertSweep, Kind
<1>6. ASSUME NEW kind \in CliKinds, CliEnqueue(kind) PROVE Goal
  BY <1>6, <1>insert, WebAssumption DEF CliEnqueue
<1>7. CASE \/ \E r \in Request, u \in User, form \in Form, script \in Script \cup {None} :
               StartTest(r, u, form, script)
           \/ \E r \in Request : \/ PollSettled(r) \/ GiveUp(r) \/ FindStrategy(r)
                               \/ CreateStrategy(r) \/ CountOpen(r) \/ FailRequest(r)
           \/ \E s \in Script : DropCached(s)
  <2>1. UNCHANGED tableVars
    BY <1>7 DEF StartTest, PollSettled, GiveUp, FindStrategy, CreateStrategy, CountOpen,
               FailRequest, DropCached
  <2> QED
    BY <1>same, <2>1
<1> QED
  BY <1>1, <1>2, <1>3, <1>4, <1>5, <1>6, <1>7 DEF WebSideStep, RequestStep

LEMMA ClaimInit == Init => ClaimInv
<1> SUFFICES ASSUME Init PROVE ClaimInv
  OBVIOUS
<1>1. TypeOK
  BY TypeInit
<1> QED
  BY <1>1 DEF Init, WorkerInit, ClaimInv, ClaimsLocked, OneClaimer, FreshClaimHeld,
              ExclusiveWhileFresh, Handling

LEMMA ClaimStepWeb ==
  ASSUME ClaimInv, WebSideStep, UNCHANGED workerVars
  PROVE  (ClaimsLocked /\ OneClaimer /\ FreshClaimHeld /\ ExclusiveWhileFresh)'
<1>1. locked' = locked /\ \A j \in JobId : WebRowEffect(j)
  BY WebOnTable DEF ClaimInv, TypeOK
<1>2. TypeOK
  BY DEF ClaimInv
<1>3. OneClaimer' /\ ExclusiveWhileFresh'
  BY DEF ClaimInv, OneClaimer, ExclusiveWhileFresh, Handling, workerVars
<1>4. ClaimsLocked'
  <2> SUFFICES ASSUME NEW w \in Worker, at[w] = "claiming"
               PROVE  inHand[w] \in locked /\ jobs'[inHand[w]].status = "queued"
    BY <1>1 DEF ClaimsLocked, workerVars
  <2>1. inHand[w] \in JobId /\ inHand[w] \in locked /\ jobs[inHand[w]].status = "queued"
    BY <1>2 DEF ClaimInv, ClaimsLocked, TypeOK, WorkerTypeOK
  <2>2. jobs'[inHand[w]] = jobs[inHand[w]]
    BY <1>1, <2>1 DEF WebRowEffect, Unlocked
  <2> QED
    BY <2>1, <2>2
<1>5. FreshClaimHeld'
  <2> SUFFICES ASSUME NEW w \in Worker, NEW j \in JobId, Handling(w, j), ~overdue[w]
               PROVE  \/ jobs'[j].status = "deleted"
                      \/ /\ jobs'[j].status \in {"running"} \cup Settled
                         /\ jobs'[j].claimed_by = w
                         /\ jobs'[j].claimed_at = "recent"
    BY DEF FreshClaimHeld, Handling, workerVars
  <2>1. jobs[j] \in Row
    BY <1>2 DEF TypeOK, TableTypeOK
  <2>2. \/ jobs[j].status = "deleted"
        \/ /\ jobs[j].status \in {"running"} \cup Settled
           /\ jobs[j].claimed_by = w
           /\ jobs[j].claimed_at = "recent"
    BY DEF ClaimInv, FreshClaimHeld
  <2>3. CASE jobs'[j] = NoRow("deleted")
    BY <2>3 DEF NoRow
  <2>4. CASE jobs'[j] = Finished(jobs[j], "cancelled")
    BY <2>1, <2>2, <2>4 DEF Finished, Row, Settled
  <2> QED
    BY <1>1, <2>2, <2>3, <2>4 DEF WebRowEffect, Settled
<1> QED
  BY <1>3, <1>4, <1>5

LEMMA ClaimStepWorker ==
  ASSUME ClaimInv, WorkerSideStep
  PROVE  (ClaimsLocked /\ OneClaimer /\ FreshClaimHeld /\ ExclusiveWhileFresh)'
<1> DEFINE Goal == (ClaimsLocked /\ OneClaimer /\ FreshClaimHeld /\ ExclusiveWhileFresh)'
<1>t. /\ jobs \in [JobId -> Row] /\ locked \subseteq JobId
      /\ at \in [Worker -> {"away", "idle", "claiming", "handling"}]
      /\ inHand \in [Worker -> JobId \cup {None}]
      /\ overdue \in [Worker -> BOOLEAN]
      /\ \A w \in Worker : at[w] \in {"claiming", "handling"} => inHand[w] \in JobId
  BY DEF ClaimInv, TypeOK, TableTypeOK, WorkerTypeOK
<1>i. ClaimsLocked /\ OneClaimer /\ FreshClaimHeld /\ ExclusiveWhileFresh
  BY DEF ClaimInv
<1>1. ASSUME NEW v \in Worker, Connect(v) PROVE Goal
  <2>1. /\ at' = [at EXCEPT ![v] = "idle"] /\ at[v] = "away"
        /\ locked' = locked /\ inHand' = inHand /\ overdue' = overdue
        /\ \A j \in JobId : jobs'[j] = IF Stale(jobs[j]) THEN Requeued(jobs[j]) ELSE jobs[j]
    BY <1>1 DEF Connect
  <2>2. ClaimsLocked' /\ OneClaimer'
    BY <1>t, <1>i, <2>1 DEF ClaimsLocked, OneClaimer, Stale
  <2>3. FreshClaimHeld'
    BY <1>t, <1>i, <2>1 DEF FreshClaimHeld, Handling, Stale
  <2>4. ExclusiveWhileFresh'
    BY <1>t, <1>i, <2>1 DEF ExclusiveWhileFresh, Handling
  <2> QED
    BY <2>2, <2>3, <2>4
<1>2. ASSUME NEW v \in Worker, LockNext(v) PROVE Goal
  <2>1. PICK k \in JobId : /\ jobs[k].status = "queued" /\ k \notin locked
                          /\ locked' = locked \cup {k}
                          /\ inHand' = [inHand EXCEPT ![v] = k]
    BY <1>2 DEF LockNext, NextClaim, Claimable, Unlocked
  <2>2. /\ at' = [at EXCEPT ![v] = "claiming"] /\ at[v] = "idle"
        /\ jobs' = jobs /\ overdue' = overdue
    BY <1>2 DEF LockNext
  <2>3. ClaimsLocked' /\ OneClaimer'
    BY <1>t, <1>i, <2>1, <2>2 DEF ClaimsLocked, OneClaimer
  <2>4. FreshClaimHeld' /\ ExclusiveWhileFresh'
    BY <1>t, <1>i, <2>1, <2>2 DEF FreshClaimHeld, ExclusiveWhileFresh, Handling
  <2> QED
    BY <2>3, <2>4
<1>3. ASSUME NEW v \in Worker, CommitClaim(v) PROVE Goal
  <2> DEFINE k == inHand[v]
  <2>1. /\ at[v] = "claiming" /\ k \in JobId /\ jobs[k].status = "queued"
        /\ jobs[k] \in Row
    BY <1>t, <1>i, <1>3 DEF CommitClaim, ClaimsLocked
  <2>2. /\ at' = [at EXCEPT ![v] = "handling"] /\ locked' = locked \ {k}
        /\ inHand' = inHand /\ overdue' = overdue
        /\ jobs' = [jobs EXCEPT ![k] = Claimed(jobs[k], v)]
    BY <1>3 DEF CommitClaim
  <2>3. /\ Claimed(jobs[k], v).status = "running"
        /\ Claimed(jobs[k], v).claimed_by = v
        /\ Claimed(jobs[k], v).claimed_at = "recent"
    BY <2>1 DEF Claimed, Row
  <2> HIDE DEF k
  <2>4. ClaimsLocked'
    <3> SUFFICES ASSUME NEW w \in Worker, at'[w] = "claiming"
                 PROVE  inHand[w] \in locked' /\ jobs'[inHand[w]].status = "queued"
      BY <2>2 DEF ClaimsLocked
    <3>1. w # v /\ at[w] = "claiming"
      BY <1>t, <2>2
    <3>2. inHand[w] # k
      BY <1>i, <2>1, <3>1 DEF OneClaimer, k
    <3> QED
      BY <1>t, <1>i, <2>2, <3>1, <3>2 DEF ClaimsLocked
  <2>5. OneClaimer'
    BY <1>t, <1>i, <2>2 DEF OneClaimer
  <2>6. \A w \in Worker : Handling(w, k) => overdue[w]
    BY <1>i, <2>1 DEF FreshClaimHeld, Settled
  <2>7. FreshClaimHeld'
    <3> SUFFICES ASSUME NEW w \in Worker, NEW j \in JobId, Handling(w, j)', ~overdue[w]
                 PROVE  \/ jobs'[j].status = "deleted"
                        \/ /\ jobs'[j].status \in {"running"} \cup Settled
                           /\ jobs'[j].claimed_by = w
                           /\ jobs'[j].claimed_at = "recent"
      BY <2>2 DEF FreshClaimHeld
    <3>1. CASE w = v
      BY <1>t, <2>1, <2>2, <2>3, <3>1 DEF Handling, k
    <3>2. CASE w # v
      <4>1. Handling(w, j)
        BY <1>t, <2>2, <3>2 DEF Handling
      <4>2. j # k
        BY <2>6, <4>1
      <4> QED
        BY <1>t, <1>i, <2>2, <4>1, <4>2 DEF FreshClaimHeld
    <3> QED
      BY <3>1, <3>2
  <2>8. ExclusiveWhileFresh'
    <3> SUFFICES ASSUME NEW u \in Worker, NEW w \in Worker, NEW j \in JobId,
                        Handling(u, j)', Handling(w, j)', u # w
                 PROVE  overdue[u] \/ overdue[w]
      BY <2>2 DEF ExclusiveWhileFresh
    <3>1. \A x \in Worker : Handling(x, j)' => (x = v /\ j = k) \/ Handling(x, j)
      BY <1>t, <2>2 DEF Handling, k
    <3> QED
      BY <1>i, <2>6, <3>1 DEF ExclusiveWhileFresh
  <2> QED
    BY <2>4, <2>5, <2>7, <2>8
<1>4. ASSUME NEW v \in Worker, NEW outcome \in {"done", "failed"}, Finish(v, outcome) PROVE Goal
  <2> DEFINE k == inHand[v]
  <2>1. /\ at[v] = "handling" /\ k \in JobId /\ k \notin locked
        /\ jobs[k] \in Row
    BY <1>t, <1>4 DEF Finish, Unlocked
  <2>2. /\ at' = [at EXCEPT ![v] = "idle"] /\ locked' = locked
        /\ inHand' = [inHand EXCEPT ![v] = None]
        /\ overdue' = [overdue EXCEPT ![v] = FALSE]
        /\ jobs' = [jobs EXCEPT ![k] = Finished(jobs[k], outcome)]
    BY <1>4 DEF Finish
  <2>3. /\ jobs[k].status \in {"absent", "deleted"} => Finished(jobs[k], outcome) = jobs[k]
        /\ jobs[k].status \notin {"absent", "deleted"} =>
             /\ Finished(jobs[k], outcome).status = outcome
             /\ Finished(jobs[k], outcome).claimed_by = jobs[k].claimed_by
             /\ Finished(jobs[k], outcome).claimed_at = jobs[k].claimed_at
    BY <2>1 DEF Finished, Row
  <2> HIDE DEF k
  <2>4. ClaimsLocked' /\ OneClaimer'
    BY <1>t, <1>i, <2>1, <2>2 DEF ClaimsLocked, OneClaimer
  <2>5. FreshClaimHeld'
    <3> SUFFICES ASSUME NEW w \in Worker, NEW j \in JobId, Handling(w, j)', ~overdue'[w]
                 PROVE  \/ jobs'[j].status = "deleted"
                        \/ /\ jobs'[j].status \in {"running"} \cup Settled
                           /\ jobs'[j].claimed_by = w
                           /\ jobs'[j].claimed_at = "recent"
      BY DEF FreshClaimHeld
    <3>1. w # v /\ Handling(w, j) /\ ~overdue[w]
      BY <1>t, <2>2 DEF Handling
    <3> QED
      BY <1>t, <1>i, <2>1, <2>2, <2>3, <3>1 DEF FreshClaimHeld, Settled
  <2>6. ExclusiveWhileFresh'
    BY <1>t, <1>i, <2>2 DEF ExclusiveWhileFresh, Handling
  <2> QED
    BY <2>4, <2>5, <2>6
<1>5. ASSUME NEW v \in Worker, Disconnect(v) PROVE Goal
  <2>1. /\ at' = [at EXCEPT ![v] = "away"] /\ jobs' = jobs
        /\ inHand' = [inHand EXCEPT ![v] = None]
        /\ overdue' = [overdue EXCEPT ![v] = FALSE]
        /\ locked' = IF at[v] = "claiming" THEN locked \ {inHand[v]} ELSE locked
    BY <1>5 DEF Disconnect
  <2>2. \A w \in Worker : at'[w] # "away" => w # v /\ at'[w] = at[w] /\ inHand'[w] = inHand[w]
    BY <1>t, <2>1
  <2>3. ClaimsLocked' /\ OneClaimer'
    BY <1>t, <1>i, <2>1, <2>2 DEF ClaimsLocked, OneClaimer
  <2>4. FreshClaimHeld' /\ ExclusiveWhileFresh'
    BY <1>t, <1>i, <2>1, <2>2 DEF FreshClaimHeld, ExclusiveWhileFresh, Handling
  <2> QED
    BY <2>3, <2>4
<1>6. ASSUME NEW k \in JobId, HalfHourPasses(k) PROVE Goal
  <2>1. /\ jobs' = [jobs EXCEPT ![k] = [jobs[k] EXCEPT !.claimed_at = "old"]]
        /\ overdue' = [w \in Worker |->
                         overdue[w] \/ (Handling(w, k) /\ jobs[k].claimed_by = w)]
        /\ locked' = locked /\ at' = at /\ inHand' = inHand
    BY <1>6 DEF HalfHourPasses
  <2>2. \A w \in Worker : overdue[w] => overdue'[w]
    BY <2>1
  <2>3. ClaimsLocked' /\ OneClaimer'
    BY <1>t, <1>i, <2>1 DEF ClaimsLocked, OneClaimer, Row
  <2>4. FreshClaimHeld'
    <3> SUFFICES ASSUME NEW w \in Worker, NEW j \in JobId, Handling(w, j), ~overdue'[w]
                 PROVE  \/ jobs'[j].status = "deleted"
                        \/ /\ jobs'[j].status \in {"running"} \cup Settled
                           /\ jobs'[j].claimed_by = w
                           /\ jobs'[j].claimed_at = "recent"
      BY <2>1 DEF FreshClaimHeld, Handling
    <3>1. ~overdue[w] /\ ~(j = k /\ jobs[k].claimed_by = w)
      BY <1>t, <2>1
    <3> QED
      BY <1>t, <1>i, <2>1, <3>1 DEF FreshClaimHeld, Row
  <2>5. ExclusiveWhileFresh'
    BY <1>i, <2>1, <2>2 DEF ExclusiveWhileFresh, Handling
  <2> QED
    BY <2>3, <2>4, <2>5
<1> QED
  BY <1>1, <1>2, <1>3, <1>4, <1>5, <1>6 DEF WorkerSideStep

LEMMA ClaimStep == ClaimInv /\ [Next]_vars => ClaimInv'
<1> SUFFICES ASSUME ClaimInv, [Next]_vars PROVE ClaimInv'
  OBVIOUS
<1>1. TypeOK'
  BY TypeStep DEF ClaimInv
<1>2. CASE Next
  BY <1>1, <1>2, Sides, ClaimStepWorker, ClaimStepWeb DEF ClaimInv
<1>3. CASE UNCHANGED vars
  BY <1>1, <1>3 DEF vars, tableVars, workerVars, ClaimInv, ClaimsLocked, OneClaimer,
                    FreshClaimHeld, ExclusiveWhileFresh, Handling
<1> QED
  BY <1>2, <1>3

(* However many workers drain the queue, two have the same job in hand     *)
(* only when one has held its claim for over half an hour.                 *)
THEOREM Exclusive == Spec => []ExclusiveWhileFresh
<1>1. ClaimInv => ExclusiveWhileFresh
  BY DEF ClaimInv
<1> QED
  BY <1>1, ClaimInit, ClaimStep, PTL DEF Spec

(* While its claim is fresh, a worker's row is not given to anyone else.   *)
THEOREM ClaimsHeld == Spec => []FreshClaimHeld
<1>1. ClaimInv => FreshClaimHeld
  BY DEF ClaimInv
<1> QED
  BY <1>1, ClaimInit, ClaimStep, PTL DEF Spec

-----------------------------------------------------------------------------
(* What may happen to a row over its life: settled rows stay settled, and  *)
(* a page's sweep always names its backtest.                               *)


\* The rows requests remember between two of their statements.  Nobody but
\* a check's own request deletes its row, and then only a settled one.
RequestRows ==
  \A r \in Request :
    /\ request[r].at \in {"polling", "answered", "refused", "cancel"} =>
         \/ jobs[request[r].row].status = "deleted"
         \/ /\ jobs[request[r].row].status \in Open \cup Settled
            /\ jobs[request[r].row].kind = "check"
    /\ request[r].at \in {"answered", "refused"} =>
         jobs[request[r].row].status \in Settled \cup {"deleted"}
    /\ request[r].at = "insertSweep" =>
         /\ jobs[request[r].row].status \in Open \cup Settled
         /\ jobs[request[r].row].kind = "backtest"
         /\ jobs[request[r].row].user = request[r].user
         /\ jobs[request[r].row].priority = 50

IdsInOrder ==
  \A i, j \in JobId : jobs[i].status = "absent" /\ jobs[j].status # "absent" => j < i

\* A page's sweep goes after its backtest, whatever else is queued.
PairRanks ==
  \A s \in JobId :
    jobs[s].pair # None =>
      /\ jobs[s].kind = "sweep"
      /\ jobs[s].priority = 60
      /\ jobs[jobs[s].pair].priority = 50

HistoryInv == ClaimInv /\ RequestRows /\ IdsInOrder /\ PairNamesBacktest /\ PairRanks

-----------------------------------------------------------------------------
(* The four things that can happen to a row.                               *)

Appears(j) ==
  /\ NextId(j)
  /\ jobs'[j].status = "queued"
  /\ jobs'[j].pair # None =>
       /\ jobs'[j].kind = "sweep"
       /\ jobs'[j].priority = 60
       /\ \E r \in Request : /\ request[r].at = "insertSweep"
                             /\ jobs'[j].pair = request[r].row
                             /\ jobs'[j].user = request[r].user

Moves(j) ==
  /\ \/ jobs'[j].status = jobs[j].status
     \/ jobs[j].status \in Open \cup Settled /\ jobs'[j].status \in Open \cup Settled
  /\ jobs[j].status \in Settled => jobs'[j].status \in Settled
  /\ jobs'[j].kind = jobs[j].kind
  /\ jobs'[j].user = jobs[j].user
  /\ jobs'[j].pair = jobs[j].pair
  /\ jobs'[j].priority = jobs[j].priority

Disappears(j) ==
  /\ \/ jobs[j].status = "deleted"
     \/ jobs[j].status \in Settled /\ jobs[j].kind = "check"
  /\ jobs'[j] = NoRow("deleted")

RowStep(j) == jobs'[j] = jobs[j] \/ Appears(j) \/ Moves(j) \/ Disappears(j)

LEMMA FinishedMoves ==
  ASSUME TypeOK, NEW j \in JobId, NEW outcome \in Settled,
         jobs' = [jobs EXCEPT ![j] = Finished(jobs[j], outcome)]
  PROVE  \A i \in JobId : RowStep(i)
<1>1. jobs \in [JobId -> Row] /\ jobs[j] \in Row
  BY DEF TypeOK, TableTypeOK
<1>2. jobs[j].status \in Open \cup Settled \cup {"absent", "deleted"}
  BY <1>1 DEF Row, Status
<1>3. CASE jobs[j].status \in {"absent", "deleted"}
  BY <1>1, <1>3 DEF Finished, RowStep
<1>4. CASE jobs[j].status \in Open \cup Settled
  <2>1. jobs'[j] = [jobs[j] EXCEPT !.status = outcome]
    BY <1>1, <1>4 DEF Finished, Open, Settled
  <2>2. Moves(j)
    BY <1>1, <1>4, <2>1 DEF Moves, Row
  <2> QED
    BY <1>1, <2>2 DEF RowStep
<1> QED
  BY <1>2, <1>3, <1>4

LEMMA InsertAppears ==
  ASSUME TypeOK, NEW j \in JobId, NEW kind, NEW user, NEW priority, NEW pair,
         Insert(j, kind, user, priority, pair),
         pair # None => /\ kind = "sweep" /\ priority = 60
                        /\ \E r \in Request : /\ request[r].at = "insertSweep"
                                              /\ pair = request[r].row
                                              /\ user = request[r].user
  PROVE  \A i \in JobId : RowStep(i)
<1>1. jobs \in [JobId -> Row]
  BY DEF TypeOK, TableTypeOK
<1>2. Appears(j)
  BY <1>1 DEF Appears, Insert, QueuedRow
<1> QED
  BY <1>1, <1>2 DEF RowStep, Insert

LEMMA WorkerRowSteps ==
  ASSUME ClaimInv, WorkerSideStep
  PROVE  \A j \in JobId : RowStep(j)
<1> USE DEF RowStep
<1>t. TypeOK /\ jobs \in [JobId -> Row]
  BY DEF ClaimInv, TypeOK, TableTypeOK
<1>1. ASSUME NEW w \in Worker, Connect(w) PROVE \A j \in JobId : RowStep(j)
  <2> SUFFICES ASSUME NEW j \in JobId, Stale(jobs[j]), jobs'[j] = Requeued(jobs[j])
               PROVE  Moves(j)
    BY <1>1 DEF Connect
  <2> QED
    BY <1>t DEF Moves, Stale, Requeued, Row, Open, Settled
<1>2. ASSUME NEW w \in Worker, CommitClaim(w) PROVE \A j \in JobId : RowStep(j)
  <2>1. inHand[w] \in JobId /\ jobs[inHand[w]].status = "queued"
    BY <1>2 DEF CommitClaim, ClaimInv, ClaimsLocked, TypeOK, WorkerTypeOK
  <2>2. jobs' = [jobs EXCEPT ![inHand[w]] = Claimed(jobs[inHand[w]], w)]
    BY <1>2 DEF CommitClaim
  <2>3. Moves(inHand[w])
    BY <1>t, <2>1, <2>2 DEF Moves, Claimed, Row, Open, Settled
  <2> QED
    BY <1>t, <2>1, <2>2, <2>3
<1>3. ASSUME NEW w \in Worker, NEW outcome \in {"done", "failed"}, Finish(w, outcome)
      PROVE  \A j \in JobId : RowStep(j)
  <2>1. inHand[w] \in JobId
    BY <1>3 DEF Finish, ClaimInv, TypeOK, WorkerTypeOK
  <2> QED
    BY <1>t, <1>3, <2>1, FinishedMoves DEF Finish, Settled
<1>4. ASSUME NEW k \in JobId, HalfHourPasses(k) PROVE \A j \in JobId : RowStep(j)
  <2>1. jobs' = [jobs EXCEPT ![k] = [jobs[k] EXCEPT !.claimed_at = "old"]]
    BY <1>4 DEF HalfHourPasses
  <2>2. Moves(k)
    BY <1>t, <2>1 DEF Moves, Row
  <2> QED
    BY <1>t, <2>1, <2>2
<1>5. ASSUME NEW w \in Worker, LockNext(w) \/ Disconnect(w) PROVE \A j \in JobId : RowStep(j)
  BY <1>5 DEF LockNext, Disconnect
<1> QED
  BY <1>1, <1>2, <1>3, <1>4, <1>5 DEF WorkerSideStep

LEMMA WebRowSteps ==
  ASSUME HistoryInv, WebSideStep
  PROVE  \A j \in JobId : RowStep(j)
<1> DEFINE Goal == \A j \in JobId : RowStep(j)
<1>t. TypeOK /\ WebTypeOK /\ jobs \in [JobId -> Row] /\ RequestRows
  BY DEF HistoryInv, ClaimInv, TypeOK, TableTypeOK
<1>1. ASSUME NEW r \in Request, PostCheck(r) PROVE Goal
  BY <1>1, <1>t, InsertAppears DEF PostCheck
<1>2. ASSUME NEW r \in Request, DeleteCheck(r) PROVE Goal
  <2>1. request[r].at \in {"answered", "refused"} /\ request[r].row \in JobId
    BY <1>2, <1>t DEF DeleteCheck, WebTypeOK, WellFormed
  <2>2. \/ jobs[request[r].row].status = "deleted"
        \/ jobs[request[r].row].status \in Settled /\ jobs[request[r].row].kind = "check"
    BY <1>t, <2>1 DEF RequestRows
  <2>3. \/ jobs' = [jobs EXCEPT ![request[r].row] = NoRow("deleted")]
        \/ jobs' = jobs
    BY <1>2 DEF DeleteCheck
  <2> QED
    BY <1>t, <2>1, <2>2, <2>3 DEF RowStep, Disappears
<1>3. ASSUME NEW r \in Request, CancelCheck(r) PROVE Goal
  <2>1. request[r].row \in JobId
    BY <1>3, <1>t DEF CancelCheck, WebTypeOK, WellFormed
  <2> QED
    BY <1>3, <1>t, <2>1, FinishedMoves DEF CancelCheck, Settled
<1>4. ASSUME NEW r \in Request, InsertJob(r) PROVE Goal
  <2>1. PICK j \in JobId : \/ Insert(j, "sweep", request[r].user, 100, None)
                          \/ Insert(j, "backtest", request[r].user, 50, None)
    BY <1>4 DEF InsertJob
  <2> QED
    BY <1>t, <2>1, InsertAppears
<1>5. ASSUME NEW r \in Request, InsertSweep(r) PROVE Goal
  <2>1. request[r].at = "insertSweep"
    BY <1>5 DEF InsertSweep
  <2>2. PICK j \in JobId : Insert(j, "sweep", request[r].user, 60, request[r].row)
    BY <1>5 DEF InsertSweep
  <2> QED
    BY <1>t, <2>1, <2>2, InsertAppears
<1>6. ASSUME NEW kind \in CliKinds, CliEnqueue(kind) PROVE Goal
  BY <1>6, <1>t, InsertAppears DEF CliEnqueue
<1>7. CASE \/ \E r \in Request, u \in User, form \in Form, script \in Script \cup {None} :
               StartTest(r, u, form, script)
           \/ \E r \in Request : \/ PollSettled(r) \/ GiveUp(r) \/ FindStrategy(r)
                               \/ CreateStrategy(r) \/ CountOpen(r) \/ FailRequest(r)
           \/ \E s \in Script : DropCached(s)
  <2>1. jobs' = jobs
    BY <1>7 DEF StartTest, PollSettled, GiveUp, FindStrategy, CreateStrategy, CountOpen,
               FailRequest, DropCached, tableVars
  <2> QED
    BY <2>1 DEF RowStep
<1> QED
  BY <1>1, <1>2, <1>3, <1>4, <1>5, <1>6, <1>7 DEF WebSideStep, RequestStep

LEMMA RowSteps ==
  ASSUME HistoryInv, [Next]_vars
  PROVE  \A j \in JobId : RowStep(j)
<1>1. CASE UNCHANGED vars
  BY <1>1 DEF vars, tableVars, RowStep
<1>2. CASE Next
  BY <1>2, Sides, WorkerRowSteps, WebRowSteps DEF HistoryInv
<1> QED
  BY <1>1, <1>2

-----------------------------------------------------------------------------
(* The order of ids and the pairing, from the steps rows can take.         *)

LEMMA IdsStep ==
  ASSUME HistoryInv, [Next]_vars
  PROVE  IdsInOrder'
<1> SUFFICES ASSUME NEW i \in JobId, NEW j \in JobId,
                    jobs'[i].status = "absent", jobs'[j].status # "absent"
             PROVE  j < i
  BY DEF IdsInOrder
<1>1. RowStep(i) /\ RowStep(j)
  BY RowSteps
<1>2. jobs[i].status = "absent"
  BY <1>1 DEF RowStep, Appears, Moves, Disappears, NoRow, Open, Settled
<1>3. CASE jobs[j].status # "absent"
  BY <1>2, <1>3 DEF HistoryInv, IdsInOrder
<1>4. CASE jobs[j].status = "absent"
  <2>1. NextId(j)
    BY <1>1, <1>4 DEF RowStep, Appears, Moves, Disappears, Open, Settled
  <2>2. j <= i /\ i # j
    BY <1>2, <2>1 DEF NextId
  <2> QED
    BY <2>2, TableAssumption
<1> QED
  BY <1>3, <1>4

LEMMA BacktestStays ==
  ASSUME NEW b \in JobId, RowStep(b), jobs \in [JobId -> Row], Present(b),
         jobs[b].kind = "backtest"
  PROVE  /\ Present(b)'
         /\ jobs'[b].kind = "backtest"
         /\ jobs'[b].user = jobs[b].user
         /\ jobs'[b].priority = jobs[b].priority
<1>1. ~Appears(b) /\ ~Disappears(b)
  BY DEF Appears, NextId, Disappears, Present
<1>2. CASE jobs'[b] = jobs[b]
  BY <1>2 DEF Present
<1>3. CASE Moves(b)
  BY <1>3 DEF Moves, Present, Open, Settled
<1> QED
  BY <1>1, <1>2, <1>3 DEF RowStep

LEMMA PairStep ==
  ASSUME HistoryInv, [Next]_vars
  PROVE  PairNamesBacktest' /\ PairRanks'
<1>t. /\ jobs \in [JobId -> Row]
      /\ \A r \in Request : WellFormed(request[r])
  BY DEF HistoryInv, ClaimInv, TypeOK, TableTypeOK, WebTypeOK
<1> SUFFICES ASSUME NEW s \in JobId, jobs'[s].pair # None
             PROVE  /\ jobs'[s].pair < s
                    /\ jobs'[jobs'[s].pair].status \notin {"absent", "deleted"}
                    /\ jobs'[jobs'[s].pair].kind = "backtest"
                    /\ jobs'[jobs'[s].pair].user = jobs'[s].user
                    /\ jobs'[s].kind = "sweep" /\ jobs'[s].priority = 60
                    /\ jobs'[jobs'[s].pair].priority = 50
  BY DEF PairNamesBacktest, PairRanks, Present
<1> DEFINE b == jobs'[s].pair
<1>1. RowStep(s)
  BY RowSteps
<1>2. ~Disappears(s)
  BY DEF Disappears, NoRow
\* Before the step, b already was what the new row of s says it is.
<1>3. /\ b \in JobId /\ b < s /\ Present(b)
      /\ jobs[b].kind = "backtest" /\ jobs[b].user = jobs'[s].user
      /\ jobs[b].priority = 50 /\ jobs'[s].kind = "sweep" /\ jobs'[s].priority = 60
  <2>1. CASE Appears(s)
    <3>1. PICK r \in Request : /\ request[r].at = "insertSweep"
                              /\ b = request[r].row
                              /\ jobs'[s].user = request[r].user
      BY <2>1 DEF Appears
    <3>2. /\ b \in JobId /\ jobs[b].status \in Open \cup Settled
          /\ jobs[b].kind = "backtest" /\ jobs[b].user = jobs'[s].user
          /\ jobs[b].priority = 50
      BY <1>t, <3>1 DEF HistoryInv, RequestRows, WellFormed
    <3>3. jobs[s].status = "absent" /\ jobs[b].status # "absent"
      BY <2>1, <3>2 DEF Appears, NextId, Open, Settled
    <3>4. b < s
      BY <3>2, <3>3 DEF HistoryInv, IdsInOrder
    <3>5. jobs'[s].kind = "sweep" /\ jobs'[s].priority = 60
      BY <2>1 DEF Appears
    <3> QED
      BY <3>2, <3>4, <3>5 DEF Present, Open, Settled
  <2>2. CASE ~Appears(s)
    <3>1. /\ jobs'[s].pair = jobs[s].pair /\ jobs'[s].user = jobs[s].user
          /\ jobs'[s].kind = jobs[s].kind /\ jobs'[s].priority = jobs[s].priority
      BY <1>1, <1>2, <2>2 DEF RowStep, Moves
    <3>2. jobs[s].pair \in JobId
      BY <1>t, <3>1 DEF Row
    <3> QED
      BY <3>1, <3>2 DEF HistoryInv, PairNamesBacktest, PairRanks
  <2> QED
    BY <2>1, <2>2
<1>4. RowStep(b)
  BY <1>3, RowSteps
<1> QED
  BY <1>t, <1>3, <1>4, BacktestStays DEF Present

LEMMA RequestRowsStep ==
  ASSUME HistoryInv, [Next]_vars
  PROVE  RequestRows'
<1> DEFINE CheckRow(j) == \/ jobs[j].status = "deleted"
                          \/ jobs[j].status \in Open \cup Settled /\ jobs[j].kind = "check"
           SettledRow(j) == jobs[j].status \in Settled \cup {"deleted"}
           BacktestRow(j, u) == /\ jobs[j].status \in Open \cup Settled
                                /\ jobs[j].kind = "backtest"
                                /\ jobs[j].user = u
                                /\ jobs[j].priority = 50
           Knows(r) == /\ request[r].at \in {"polling", "answered", "refused", "cancel"} =>
                            CheckRow(request[r].row)
                       /\ request[r].at \in {"answered", "refused"} => SettledRow(request[r].row)
                       /\ request[r].at = "insertSweep" =>
                            BacktestRow(request[r].row, request[r].user)
<1>t. /\ jobs \in [JobId -> Row] /\ jobs' \in [JobId -> Row]
      /\ request \in [Request -> RequestType] /\ WebTypeOK
      /\ \A r \in Request : WellFormed(request[r]) /\ Knows(r)
  BY TypeStep DEF HistoryInv, ClaimInv, TypeOK, TableTypeOK, WebTypeOK, RequestRows
<1>s. \A j \in JobId : RowStep(j)
  BY RowSteps
<1> SUFFICES ASSUME NEW r \in Request PROVE Knows(r)'
  BY DEF RequestRows
\* A request that does not move still knows what it knew.
<1>1. ASSUME NEW j \in JobId, CheckRow(j) PROVE CheckRow(j)' /\ (SettledRow(j) => SettledRow(j)')
  <2>1. ~Appears(j)
    BY <1>1 DEF Appears, NextId, Open, Settled
  <2>2. CASE Moves(j)
    BY <1>1, <2>2 DEF Moves, Open, Settled
  <2>3. CASE Disappears(j)
    BY <2>3 DEF Disappears, NoRow
  <2> QED
    BY <1>1, <1>s, <2>1, <2>2, <2>3 DEF RowStep
<1>2. ASSUME NEW j \in JobId, NEW u, BacktestRow(j, u) PROVE BacktestRow(j, u)'
  <2>1. Present(j) /\ RowStep(j)
    BY <1>2, <1>s DEF Present, Open, Settled
  <2>2. jobs'[j].status \in Status
    BY <1>t DEF Row
  <2> QED
    BY <1>2, <1>t, <2>1, <2>2, BacktestStays DEF Present, Status
<1>3. CASE request'[r] = request[r]
  BY <1>t, <1>1, <1>2, <1>3 DEF WellFormed
<1>4. CASE request'[r].at \notin {"polling", "answered", "refused", "cancel", "insertSweep"}
  BY <1>4
<1>5. ASSUME PostCheck(r) PROVE Knows(r)'
  <2>1. PICK j \in JobId : /\ jobs' = [jobs EXCEPT ![j] = QueuedRow("check", request[r].user, 10, None)]
                          /\ request' = [request EXCEPT ![r].at = "polling", ![r].row = j]
    BY <1>5 DEF PostCheck, Insert
  <2>2. /\ jobs'[j].status = "queued" /\ jobs'[j].kind = "check"
        /\ request'[r].at = "polling" /\ request'[r].row = j
    BY <1>t, <2>1 DEF QueuedRow, RequestType
  <2> QED
    BY <2>2 DEF Open
<1>6. ASSUME PollSettled(r) PROVE Knows(r)'
  <2>1. /\ request[r].at = "polling" /\ request[r].row \in JobId
        /\ jobs[request[r].row].status \in Settled /\ jobs' = jobs
    BY <1>t, <1>6 DEF PollSettled, WellFormed, Settled, tableVars
  <2>2. /\ request'[r].at \in {"answered", "refused"}
        /\ request'[r].row = request[r].row
    BY <1>t, <1>6 DEF PollSettled, Goto, RequestType
  <2> QED
    BY <1>t, <2>1, <2>2
<1>7. ASSUME GiveUp(r) PROVE Knows(r)'
  <2>1. /\ request[r].at = "polling" /\ jobs' = jobs
        /\ request'[r].at = "cancel" /\ request'[r].row = request[r].row
    BY <1>t, <1>7 DEF GiveUp, Goto, RequestType, tableVars
  <2> QED
    BY <1>t, <2>1
<1>8. ASSUME InsertJob(r) PROVE Knows(r)'
  <2>1. CASE request[r].form = "pair"
    <3>1. PICK j \in JobId :
            /\ jobs' = [jobs EXCEPT ![j] = QueuedRow("backtest", request[r].user, 50, None)]
            /\ request' = [request EXCEPT ![r].at = "insertSweep", ![r].row = j]
      BY <1>8, <2>1 DEF InsertJob, Insert
    <3>2. /\ jobs'[j].status = "queued" /\ jobs'[j].kind = "backtest"
          /\ jobs'[j].user = request[r].user /\ jobs'[j].priority = 50
          /\ request'[r].at = "insertSweep" /\ request'[r].row = j
          /\ request'[r].user = request[r].user
      BY <1>t, <3>1 DEF QueuedRow, RequestType
    <3> QED
      BY <3>2 DEF Open
  <2>2. CASE request[r].form # "pair"
    BY <1>t, <1>8, <2>2 DEF InsertJob, Reply, Idle
  <2> QED
    BY <2>1, <2>2
<1>9. CASE UNCHANGED vars
  BY <1>3, <1>9 DEF vars, webVars
<1>10. CASE WorkerSideStep /\ UNCHANGED webVars
  BY <1>3, <1>10 DEF webVars
<1>11. CASE WebSideStep
  \* Every other step of r leaves it where nothing is claimed of its row.
  <2>1. \A q \in Request : RequestStep(q) \/ FailRequest(q) => q = r \/ request'[r] = request[r]
    BY <1>t DEF RequestStep, FailRequest, PostCheck, PollSettled, DeleteCheck, GiveUp, CancelCheck,
               FindStrategy, CreateStrategy, CountOpen, InsertJob, InsertSweep, Goto, Reply, AfterCheck
  <2>2. ASSUME \/ DeleteCheck(r) \/ CancelCheck(r) \/ FindStrategy(r) \/ CreateStrategy(r)
               \/ CountOpen(r) \/ InsertSweep(r) \/ FailRequest(r)
        PROVE  request'[r].at \notin {"polling", "answered", "refused", "cancel", "insertSweep"}
    BY <1>t, <2>2 DEF DeleteCheck, CancelCheck, FindStrategy, CreateStrategy, CountOpen,
                     InsertSweep, FailRequest, Goto, Reply, AfterCheck, Idle, RequestType
  <2>3. ASSUME NEW q \in Request, NEW u \in User, NEW form \in Form,
               NEW script \in Script \cup {None}, StartTest(q, u, form, script)
        PROVE  \/ request'[r] = request[r]
               \/ request'[r].at \notin {"polling", "answered", "refused", "cancel", "insertSweep"}
    <3>1. CASE q # r
      BY <1>t, <2>3, <3>1 DEF StartTest
    <3>2. CASE q = r
      <4> DEFINE entry == CASE script = None     -> "count"
                            [] script \in cache  -> "find"
                            [] OTHER             -> "check"
      <4>1. entry \in {"count", "find", "check"}
        <5>1. CASE script = None
          BY <1>t, <5>1, WebAssumption DEF WebTypeOK
        <5>2. CASE script # None /\ script \in cache
          BY <5>2
        <5>3. CASE script # None /\ script \notin cache
          BY <5>3
        <5> QED
          BY <5>1, <5>2, <5>3
      <4>2. request'[r].at = entry
        BY <1>t, <2>3, <3>2 DEF StartTest
      <4> QED
        BY <4>1, <4>2
    <3> QED
      BY <3>1, <3>2
  <2>4. ASSUME \/ \E s \in Script : DropCached(s)
               \/ \E kind \in CliKinds : CliEnqueue(kind)
        PROVE  request'[r] = request[r]
    BY <2>4 DEF DropCached, CliEnqueue, webVars
  <2>5. RequestStep(r) => \/ PostCheck(r) \/ PollSettled(r) \/ GiveUp(r) \/ InsertJob(r)
                          \/ DeleteCheck(r) \/ CancelCheck(r) \/ FindStrategy(r)
                          \/ CreateStrategy(r) \/ CountOpen(r) \/ InsertSweep(r)
    BY DEF RequestStep
  <2> HIDE DEF Knows
  <2> QED
    BY <1>3, <1>4, <1>5, <1>6, <1>7, <1>8, <1>11, <2>1, <2>2, <2>3, <2>4, <2>5 DEF WebSideStep
<1> QED
  BY <1>9, <1>10, <1>11, Sides

LEMMA HistoryInit == Init => HistoryInv
<1> SUFFICES ASSUME Init PROVE HistoryInv
  OBVIOUS
<1>1. ClaimInv
  BY ClaimInit
<1>2. RequestRows
  BY DEF Init, WebInit, RequestRows, Idle
<1>3. IdsInOrder /\ PairNamesBacktest /\ PairRanks
  BY DEF Init, TableInit, NoRow, IdsInOrder, PairNamesBacktest, PairRanks
<1> QED
  BY <1>1, <1>2, <1>3 DEF HistoryInv

LEMMA HistoryStep == HistoryInv /\ [Next]_vars => HistoryInv'
  BY ClaimStep, RequestRowsStep, IdsStep, PairStep DEF HistoryInv

(* A page's sweep names, for good, a backtest of its own user that was     *)
(* queued before it and that no clean-up of a check deletes.               *)
THEOREM Pairing == Spec => []PairNamesBacktest
<1>1. HistoryInv => PairNamesBacktest
  BY DEF HistoryInv
<1> QED
  BY <1>1, HistoryInit, HistoryStep, PTL DEF Spec

(* No claim, requeue, late finish or cancellation unsettles a row.         *)
THEOREM SettledForGood == Spec => SettledStaysSettled
<1>1. HistoryInv /\ [Next]_vars =>
        [\A j \in JobId : jobs[j].status \in Settled =>
                            jobs[j].status' \in Settled \cup {"deleted"}]_vars
  <2> SUFFICES ASSUME HistoryInv, [Next]_vars, NEW j \in JobId, jobs[j].status \in Settled
               PROVE  jobs'[j].status \in Settled \cup {"deleted"}
    OBVIOUS
  <2>1. RowStep(j)
    BY RowSteps
  <2> QED
    BY <2>1 DEF RowStep, Appears, NextId, Moves, Disappears, NoRow, Settled
<1> QED
  BY <1>1, HistoryInit, HistoryStep, PTL DEF Spec, SettledStaysSettled

-----------------------------------------------------------------------------
(* The queue cap.                                                          *)

LEMMA StillMeans ==
  ASSUME NEW r \in Request
  PROVE  /\ request[r].at = "insert" => StillToInsert(r) = Need(request[r].form)
         /\ request[r].at = "insertSweep" => StillToInsert(r) = 1
         /\ request[r].at \notin {"insert", "insertSweep"} => StillToInsert(r) = 0
         /\ StillToInsert(r) \in {0, 1, 2}
<1>1. CASE request[r].at = "insert"
  BY <1>1 DEF StillToInsert, Need
<1>2. CASE request[r].at = "insertSweep"
  BY <1>2 DEF StillToInsert
<1>3. CASE request[r].at # "insert" /\ request[r].at # "insertSweep"
  BY <1>3 DEF StillToInsert
<1> QED
  BY <1>1, <1>2, <1>3

(* A row that counts against the cap after a step did before, or is new.   *)
LEMMA OldOrNew ==
  ASSUME NEW u \in User, NEW i \in JobId, RowStep(i), i \in OpenJobs(u)'
  PROVE  i \in OpenJobs(u) \/ (jobs[i].status = "absent" /\ jobs'[i].status = "queued")
<1>1. jobs'[i].user = u /\ jobs'[i].status \in Open /\ jobs'[i].kind # "check"
  BY DEF OpenJobs
<1>2. CASE jobs'[i] = jobs[i]
  BY <1>1, <1>2 DEF OpenJobs
<1>3. CASE Appears(i)
  BY <1>3 DEF Appears, NextId
<1>4. CASE Moves(i)
  BY <1>1, <1>4 DEF Moves, OpenJobs, Open, Settled
<1>5. CASE Disappears(i)
  BY <1>1, <1>5 DEF Disappears, NoRow, Open
<1> QED
  BY <1>2, <1>3, <1>4, <1>5 DEF RowStep

\* Two ways to promise no more than before.
Steadies(r) == request'[r] = request[r]
Rests(r) == request'[r].at \notin {"insert", "insertSweep"}

LEMMA PromisedLess ==
  ASSUME NEW u \in User, \A r \in Request : Steadies(r) \/ Rests(r)
  PROVE  Promised(u)' \subseteq Promised(u)
<1> SUFFICES ASSUME NEW r \in Request, NEW n \in {1, 2},
                    request'[r].user = u, n <= StillToInsert(r)'
             PROVE  request[r].user = u /\ n <= StillToInsert(r)
  BY DEF Promised
<1>1. CASE Steadies(r)
  BY <1>1 DEF Steadies, StillToInsert
<1>2. CASE Rests(r)
  <2>1. StillToInsert(r)' = 0
    BY <1>2 DEF Rests, StillToInsert
  <2> QED
    BY <2>1
<1> QED
  BY <1>1, <1>2

Less(u) == OpenJobs(u)' \subseteq OpenJobs(u) /\ Promised(u)' \subseteq Promised(u)

Kept(u) ==
  \E j \in JobId, x \in Promised(u) :
    OpenJobs(u)' \subseteq OpenJobs(u) \cup {j} /\ Promised(u)' \subseteq Promised(u) \ {x}

Admitted(u) ==
  \E r \in Request :
    /\ OpenJobs(u)' = OpenJobs(u)
    /\ Cardinality(OpenJobs(u)) + Need(request[r].form) <= MaxOpen
    /\ Promised(u)' \subseteq ((Request \ {r}) \X {1, 2}) \cup ({r} \X (1..Need(request[r].form)))

(* A worker's step gives a user no new job.                                *)
LEMMA OpenOfWorkers ==
  ASSUME HistoryInv, WorkerSideStep, UNCHANGED webVars, [Next]_vars, NEW u \in User
  PROVE  Less(u)
<1>1. \A i \in JobId : jobs[i].status = "absent" => jobs'[i].status # "queued"
  <2> SUFFICES ASSUME NEW i \in JobId, jobs[i].status = "absent" PROVE jobs'[i].status # "queued"
    OBVIOUS
  <2>t. jobs \in [JobId -> Row] /\ jobs[i] \in Row
    BY DEF HistoryInv, ClaimInv, TypeOK, TableTypeOK
  <2>1. ASSUME NEW w \in Worker, Connect(w) PROVE jobs'[i] = jobs[i]
    BY <2>1 DEF Connect, Stale
  <2>2. ASSUME NEW w \in Worker, CommitClaim(w) PROVE jobs'[i] = jobs[i]
    <3>1. jobs[inHand[w]].status = "queued"
      BY <2>2 DEF CommitClaim, HistoryInv, ClaimInv, ClaimsLocked
    <3> QED
      BY <2>2, <2>t, <3>1 DEF CommitClaim
  <2>3. ASSUME NEW w \in Worker, NEW outcome \in {"done", "failed"}, Finish(w, outcome)
        PROVE  jobs'[i] = jobs[i]
    BY <2>t, <2>3 DEF Finish, Finished
  <2>4. ASSUME NEW k \in JobId, HalfHourPasses(k) PROVE jobs'[i].status = jobs[i].status
    BY <2>t, <2>4 DEF HalfHourPasses, Row
  <2>5. ASSUME NEW w \in Worker, LockNext(w) \/ Disconnect(w) PROVE jobs'[i] = jobs[i]
    BY <2>5 DEF LockNext, Disconnect
  <2> QED
    BY <2>1, <2>2, <2>3, <2>4, <2>5 DEF WorkerSideStep
<1>2. OpenJobs(u)' \subseteq OpenJobs(u)
  BY <1>1, RowSteps, OldOrNew DEF OpenJobs
<1>3. Promised(u)' \subseteq Promised(u)
  BY PromisedLess DEF webVars, Steadies
<1> QED
  BY <1>2, <1>3 DEF Less

(* Inserting a job of u: at most that row is new, and one promise is kept. *)
LEMMA InsertKeeps ==
  ASSUME HistoryInv, [Next]_vars, NEW u \in User, NEW r \in Request, NEW j \in JobId,
         NEW kind, NEW priority, NEW pair, Insert(j, kind, request[r].user, priority, pair),
         \A q \in Request \ {r} : Steadies(q),
         StillToInsert(r) >= 1, StillToInsert(r)' = StillToInsert(r) - 1,
         StillToInsert(r)' > 0 => request'[r].user = request[r].user
  PROVE  Less(u) \/ Kept(u)
<1> DEFINE n == StillToInsert(r)
           x == <<r, n>>
<1>t. n \in {0, 1, 2} /\ jobs \in [JobId -> Row]
  BY StillMeans DEF HistoryInv, ClaimInv, TypeOK, TableTypeOK
<1>1. \A i \in JobId : i # j => jobs'[i] = jobs[i]
  BY <1>t DEF Insert
<1>2. OpenJobs(u)' \subseteq OpenJobs(u) \cup {j}
  BY <1>1 DEF OpenJobs
<1>3. Promised(u)' \subseteq Promised(u) \ (IF request[r].user = u THEN {x} ELSE {})
  <2> SUFFICES ASSUME NEW q \in Request, NEW k \in {1, 2},
                      request'[q].user = u, k <= StillToInsert(q)'
               PROVE  /\ request[q].user = u /\ k <= StillToInsert(q)
                      /\ q # r \/ k # n
    BY DEF Promised
  <2>1. CASE q = r
    BY <1>t, <2>1
  <2>2. CASE q # r
    BY <2>2 DEF Steadies, StillToInsert
  <2> QED
    BY <2>1, <2>2
<1>4. CASE request[r].user = u
  <2>1. x \in Promised(u)
    BY <1>t, <1>4 DEF Promised
  <2> QED
    BY <1>2, <1>3, <1>4, <2>1 DEF Kept
<1>5. CASE request[r].user # u
  <2>1. j \notin OpenJobs(u)'
    BY <1>t, <1>5 DEF OpenJobs, Insert, QueuedRow
  <2> QED
    BY <1>2, <1>3, <1>5, <2>1 DEF Less
<1> QED
  BY <1>4, <1>5

LEMMA OpenOfWeb ==
  ASSUME HistoryInv, WebSideStep, [Next]_vars, NEW u \in User, IsFiniteSet(OpenJobs(u))
  PROVE  Less(u) \/ Kept(u) \/ Admitted(u)
<1>t. /\ jobs \in [JobId -> Row] /\ request \in [Request -> RequestType]
      /\ \A r \in Request : WellFormed(request[r])
  BY DEF HistoryInv, ClaimInv, TypeOK, TableTypeOK, WebTypeOK
<1>s. \A i \in JobId : RowStep(i)
  BY RowSteps
\* Steps that insert nothing, and after which the request has nothing to insert.
<1>same. ASSUME \A i \in JobId : jobs[i].status = "absent" => jobs'[i].status # "queued",
                \A r \in Request : Steadies(r) \/ Rests(r)
         PROVE  Less(u)
  BY <1>s, <1>same, OldOrNew, PromisedLess DEF Less, OpenJobs
<1>1. ASSUME NEW r \in Request, NEW v \in User, NEW form \in Form,
             NEW script \in Script \cup {None}, StartTest(r, v, form, script)
      PROVE  Less(u)
  <2> DEFINE entry == CASE script = None     -> "count"
                        [] script \in cache  -> "find"
                        [] OTHER             -> "check"
  <2>1. entry \in {"count", "find", "check"}
    <3>1. CASE script = None
      BY <3>1, <1>t, WebAssumption DEF HistoryInv, ClaimInv, TypeOK, WebTypeOK
    <3>2. CASE script # None /\ script \in cache
      BY <3>2
    <3>3. CASE script # None /\ script \notin cache
      BY <3>3
    <3> QED
      BY <3>1, <3>2, <3>3
  <2>2. request' = [request EXCEPT ![r] = [at |-> entry, user |-> v, form |-> form,
                                          script |-> script, row |-> None]]
        /\ jobs' = jobs
    BY <1>1 DEF StartTest, tableVars
  <2> HIDE DEF entry
  <2>3. \A q \in Request : Steadies(q) \/ Rests(q)
    BY <1>t, <2>1, <2>2 DEF Steadies, Rests
  <2> QED
    BY <1>same, <2>2, <2>3
<1>2. ASSUME NEW r \in Request, PostCheck(r) PROVE Less(u)
  <2>1. PICK j \in JobId : /\ Insert(j, "check", request[r].user, 10, None)
                          /\ request' = [request EXCEPT ![r].at = "polling", ![r].row = j]
    BY <1>2 DEF PostCheck
  <2>2. \A q \in Request : Steadies(q) \/ Rests(q)
    BY <1>t, <2>1 DEF Steadies, Rests, RequestType
  <2>3. OpenJobs(u)' \subseteq OpenJobs(u)
    BY <1>t, <2>1 DEF OpenJobs, Insert, QueuedRow
  <2> QED
    BY <2>2, <2>3, PromisedLess DEF Less
<1>3. ASSUME NEW r \in Request, PollSettled(r) \/ GiveUp(r) \/ FindStrategy(r)
                                \/ CreateStrategy(r) \/ FailRequest(r)
      PROVE  Less(u)
  <2>1. jobs' = jobs
    BY <1>3 DEF PollSettled, GiveUp, FindStrategy, CreateStrategy, FailRequest, tableVars
  <2>2. \A q \in Request : Steadies(q) \/ Rests(q)
    BY <1>t, <1>3 DEF Steadies, Rests, RequestType, PollSettled, GiveUp, FindStrategy,
       CreateStrategy, FailRequest, Goto, Reply, Idle
  <2> QED
    BY <1>same, <2>1, <2>2
<1>4. ASSUME NEW r \in Request, DeleteCheck(r) \/ CancelCheck(r) PROVE Less(u)
  <2>1. \A i \in JobId : jobs[i].status = "absent" => jobs'[i].status # "queued"
    <3>1. request[r].row \in JobId
      BY <1>t, <1>4 DEF DeleteCheck, CancelCheck, WellFormed
    <3>2. jobs' = jobs \/ jobs' = [jobs EXCEPT ![request[r].row] = NoRow("deleted")]
          \/ jobs' = [jobs EXCEPT ![request[r].row] = Finished(jobs[request[r].row], "cancelled")]
      BY <1>4 DEF DeleteCheck, CancelCheck
    <3> QED
      BY <1>t, <3>1, <3>2 DEF NoRow, Finished
  <2>2. \A q \in Request : Steadies(q) \/ Rests(q)
    BY <1>t, <1>4 DEF Steadies, Rests, RequestType, DeleteCheck, CancelCheck, AfterCheck, Reply, Idle
  <2> QED
    BY <1>same, <2>1, <2>2
<1>5. ASSUME NEW r \in Request, CountOpen(r) PROVE Less(u) \/ Admitted(u)
  <2> DEFINE need == Need(request[r].form)
             v == request[r].user
  <2>1. jobs' = jobs /\ OpenJobs(u)' = OpenJobs(u)
    BY <1>5 DEF CountOpen, tableVars, OpenJobs
  <2>2. \A q \in Request \ {r} : Steadies(q)
    BY <1>t, <1>5 DEF Steadies, CountOpen, Goto, Reply
  <2>3. CASE Cardinality(OpenJobs(v)) + need > MaxOpen
    <3>1. Rests(r)
      BY <1>t, <1>5, <2>3 DEF CountOpen, Reply, Idle, Rests
    <3> QED
      BY <1>same, <2>1, <2>2, <3>1
  <2>4. CASE ~(Cardinality(OpenJobs(v)) + need > MaxOpen) /\ v = u
    <3>1. request'[r].at = "insert" /\ request'[r].form = request[r].form
      BY <1>t, <1>5, <2>4 DEF CountOpen, Goto, RequestType
    <3>2. StillToInsert(r)' = need /\ need \in {1, 2}
      BY <3>1 DEF StillToInsert, Need
    <3>3. \A q \in Request, n \in {1, 2} :
            n <= StillToInsert(q)' => q \in Request \ {r} \/ (q = r /\ n \in 1..need)
      BY <3>2
    <3>4. Promised(u)' \subseteq ((Request \ {r}) \X {1, 2}) \cup ({r} \X (1..need))
      BY <3>3 DEF Promised
    <3>5. Cardinality(OpenJobs(u)) + need <= MaxOpen
      <4>1. Cardinality(OpenJobs(u)) \in Nat
        BY FS_CardinalityType
      <4>2. ~(Cardinality(OpenJobs(u)) + need > MaxOpen)
        BY <2>4
      <4> HIDE DEF need
      <4> QED
        BY <3>2, <4>1, <4>2, WebAssumption
    <3> QED
      BY <2>1, <3>4, <3>5 DEF Admitted
  <2>5. CASE ~(Cardinality(OpenJobs(v)) + need > MaxOpen) /\ v # u
    <3>1. request'[r].user # u
      BY <1>t, <1>5, <2>5 DEF CountOpen, Goto, RequestType
    <3>2. Promised(u)' \subseteq Promised(u)
      <4> SUFFICES ASSUME NEW q \in Request, NEW n \in {1, 2},
                          request'[q].user = u, n <= StillToInsert(q)'
                   PROVE  request[q].user = u /\ n <= StillToInsert(q)
        BY DEF Promised
      <4> QED
        BY <2>2, <3>1 DEF Steadies, StillToInsert
    <3> QED
      BY <2>1, <3>2 DEF Less
  <2> QED
    BY <2>3, <2>4, <2>5
<1>6. ASSUME NEW r \in Request, InsertJob(r) PROVE Less(u) \/ Kept(u)
  <2>1. PICK j \in JobId :
          /\ \/ Insert(j, "sweep", request[r].user, 100, None)
             \/ Insert(j, "backtest", request[r].user, 50, None)
          /\ IF request[r].form = "pair"
             THEN request' = [request EXCEPT ![r].at = "insertSweep", ![r].row = j]
             ELSE Reply(r)
    BY <1>6 DEF InsertJob
  <2>2. \A q \in Request \ {r} : Steadies(q)
    BY <1>t, <2>1 DEF Steadies, Reply
  <2>3. request[r].at = "insert" /\ StillToInsert(r) = Need(request[r].form)
    BY <1>6, StillMeans DEF InsertJob
  <2>4. StillToInsert(r) >= 1 /\ StillToInsert(r)' = StillToInsert(r) - 1
        /\ (StillToInsert(r)' > 0 => request'[r].user = request[r].user)
    <3>1. CASE request[r].form = "pair"
      <4>1. request'[r].at = "insertSweep" /\ request'[r].user = request[r].user
        BY <1>t, <2>1, <3>1 DEF RequestType
      <4>2. StillToInsert(r)' = 1
        BY <4>1 DEF StillToInsert
      <4> QED
        BY <2>3, <3>1, <4>1, <4>2 DEF Need
    <3>2. CASE request[r].form # "pair"
      <4>1. request'[r].at = "idle"
        BY <1>t, <2>1, <3>2 DEF Reply, Idle
      <4>2. StillToInsert(r)' = 0
        BY <4>1 DEF StillToInsert
      <4> QED
        BY <2>3, <3>2, <4>2 DEF Need
    <3> QED
      BY <3>1, <3>2
  <2> QED
    BY <2>1, <2>2, <2>4, InsertKeeps
<1>7. ASSUME NEW r \in Request, InsertSweep(r) PROVE Less(u) \/ Kept(u)
  <2>1. PICK j \in JobId : Insert(j, "sweep", request[r].user, 60, request[r].row)
    BY <1>7 DEF InsertSweep
  <2>2. request[r].at = "insertSweep" /\ StillToInsert(r) = 1 /\ Reply(r)
    BY <1>7, StillMeans DEF InsertSweep
  <2>3. (\A q \in Request \ {r} : Steadies(q)) /\ request'[r].at = "idle"
    BY <1>t, <2>2 DEF Steadies, Reply, Idle
  <2>4. StillToInsert(r)' = 0
    BY <2>3 DEF StillToInsert
  <2> QED
    BY <2>1, <2>2, <2>3, <2>4, InsertKeeps
<1>8. ASSUME NEW kind \in CliKinds, CliEnqueue(kind) PROVE Less(u)
  <2>1. PICK j \in JobId : Insert(j, kind, None, 100, None)
    BY <1>8 DEF CliEnqueue
  <2>2. OpenJobs(u)' \subseteq OpenJobs(u)
    BY <1>t, <2>1, TableAssumption DEF OpenJobs, Insert, QueuedRow
  <2>3. \A q \in Request : Steadies(q)
    BY <1>8 DEF CliEnqueue, webVars, Steadies
  <2> QED
    BY <2>2, <2>3, PromisedLess DEF Less
<1>9. ASSUME NEW s \in Script, DropCached(s) PROVE Less(u)
  BY <1>9, <1>same DEF DropCached, tableVars, Steadies
<1> QED
  BY <1>1, <1>2, <1>3, <1>4, <1>5, <1>6, <1>7, <1>8, <1>9 DEF WebSideStep, RequestStep

LEMMA Sizes ==
  /\ IsFiniteSet({1, 2}) /\ Cardinality({1, 2}) = 2
  /\ \A S, x : IsFiniteSet(S) => /\ IsFiniteSet(S \cup {x})
                               /\ Cardinality(S \cup {x}) <= Cardinality(S) + 1
  /\ \A S, x : IsFiniteSet(S) /\ x \in S => /\ IsFiniteSet(S \ {x})
                                          /\ Cardinality(S \ {x}) = Cardinality(S) - 1
                                          /\ Cardinality(S \ {x}) \in Nat
  /\ \A S, T : IsFiniteSet(S) /\ IsFiniteSet(T) /\ S \cap T = {} =>
       /\ IsFiniteSet(S \cup T)
       /\ Cardinality(S \cup T) = Cardinality(S) + Cardinality(T)
<1>2. ASSUME NEW S, NEW x, IsFiniteSet(S)
      PROVE  IsFiniteSet(S \cup {x}) /\ Cardinality(S \cup {x}) <= Cardinality(S) + 1
  <2>1. Cardinality(S) \in Nat
    BY <1>2, FS_CardinalityType
  <2>2. /\ IsFiniteSet(S \cup {x})
        /\ Cardinality(S \cup {x}) = IF x \in S THEN Cardinality(S) ELSE Cardinality(S) + 1
    BY <1>2, FS_AddElement
  <2> QED
    BY <2>1, <2>2
<1>3. ASSUME NEW S, NEW x, IsFiniteSet(S), x \in S
      PROVE  /\ IsFiniteSet(S \ {x})
             /\ Cardinality(S \ {x}) = Cardinality(S) - 1
             /\ Cardinality(S \ {x}) \in Nat
  <2>1. /\ IsFiniteSet(S \ {x})
        /\ Cardinality(S \ {x}) = IF x \in S THEN Cardinality(S) - 1 ELSE Cardinality(S)
    BY <1>3, FS_RemoveElement
  <2> QED
    BY <1>3, <2>1, FS_CardinalityType
<1>4. ASSUME NEW S, NEW T, IsFiniteSet(S), IsFiniteSet(T), S \cap T = {}
      PROVE  IsFiniteSet(S \cup T) /\ Cardinality(S \cup T) = Cardinality(S) + Cardinality(T)
  <2>1. /\ IsFiniteSet(S \cup T)
        /\ Cardinality(S \cup T) = Cardinality(S) + Cardinality(T) - Cardinality(S \cap T)
    BY <1>4, FS_Union
  <2>2. Cardinality(S \cap T) = 0
    BY <1>4, FS_EmptySet
  <2>3. Cardinality(S) \in Nat /\ Cardinality(T) \in Nat
    BY <1>4, FS_CardinalityType
  <2> QED
    BY <2>1, <2>2, <2>3
<1>5. IsFiniteSet({1, 2}) /\ Cardinality({1, 2}) = 2
  <2>1. \A x : IsFiniteSet({x}) /\ Cardinality({x}) = 1
    BY FS_Singleton
  <2>2. {1} \cap {2} = {} /\ {1} \cup {2} = {1, 2}
    OBVIOUS
  <2>3. /\ IsFiniteSet({1} \cup {2})
        /\ Cardinality({1} \cup {2}) = Cardinality({1}) + Cardinality({2})
    <3>1. IsFiniteSet({1}) /\ IsFiniteSet({2}) /\ {1} \cap {2} = {}
      BY <2>1, <2>2
    <3> QED
      BY <1>4, <3>1, Zenon
  <2>4. Cardinality({1}) = 1 /\ Cardinality({2}) = 1
    BY <2>1
  <2> QED
    BY <2>2, <2>3, <2>4
<1> QED
  BY <1>2, <1>3, <1>4, <1>5

LEMMA PromisesFinite ==
  ASSUME NEW u \in User
  PROVE  IsFiniteSet(Promised(u)) /\ IsFiniteSet(Promised(u)')
<1>2. IsFiniteSet(Request \X {1, 2})
  BY Sizes, FS_Product, WebAssumption
<1>3. Promised(u) \subseteq Request \X {1, 2} /\ Promised(u)' \subseteq Request \X {1, 2}
  BY DEF Promised
<1> QED
  BY <1>2, <1>3, FS_Subset

Capped(u) ==
  /\ IsFiniteSet(OpenJobs(u))
  /\ Cardinality(OpenJobs(u)) + Cardinality(Promised(u))
       <= MaxOpen + 2 * (Cardinality(Request) - 1)

LEMMA CappedStep ==
  ASSUME NEW u \in User, Capped(u), Less(u) \/ Kept(u) \/ Admitted(u)
  PROVE  Capped(u)'
<1> DEFINE O == OpenJobs(u)
           P == Promised(u)
           R == Cardinality(Request)
<1>t. /\ IsFiniteSet(O) /\ IsFiniteSet(P) /\ IsFiniteSet(P')
      /\ Cardinality(O) \in Nat /\ Cardinality(P) \in Nat /\ Cardinality(P') \in Nat
      /\ R \in Nat /\ MaxOpen \in Nat
      /\ Cardinality(O) + Cardinality(P) <= MaxOpen + 2 * (R - 1)
  BY PromisesFinite, FS_CardinalityType, WebAssumption DEF Capped
<1> SUFFICES IsFiniteSet(O') /\ Cardinality(O') + Cardinality(P') <= MaxOpen + 2 * (R - 1)
  BY DEF Capped
<1>1. CASE Less(u)
  <2>1. IsFiniteSet(O') /\ Cardinality(O') <= Cardinality(O)
    BY <1>1, <1>t, FS_Subset DEF Less
  <2>2. Cardinality(P') <= Cardinality(P)
    BY <1>1, <1>t, FS_Subset DEF Less
  <2>3. Cardinality(O') \in Nat
    BY <2>1, FS_CardinalityType
  <2> HIDE DEF O, P, R
  <2> QED
    BY <1>t, <2>1, <2>2, <2>3
<1>2. CASE Kept(u)
  <2>1. PICK j \in JobId, x \in P : O' \subseteq O \cup {j} /\ P' \subseteq P \ {x}
    BY <1>2 DEF Kept
  <2>2. IsFiniteSet(O \cup {j}) /\ Cardinality(O \cup {j}) <= Cardinality(O) + 1
    BY <1>t, Sizes
  <2>3. IsFiniteSet(O') /\ Cardinality(O') <= Cardinality(O) + 1
    BY <2>1, <2>2, FS_Subset, FS_CardinalityType, <1>t
  <2>4. IsFiniteSet(P \ {x}) /\ Cardinality(P \ {x}) = Cardinality(P) - 1
    BY <1>t, Sizes
  <2>5. Cardinality(P') <= Cardinality(P) - 1
    BY <2>1, <2>4, FS_Subset
  <2>6. Cardinality(O') \in Nat
    BY <2>3, FS_CardinalityType
  <2> HIDE DEF O, P, R
  <2> QED
    BY <1>t, <2>3, <2>5, <2>6
<1>3. CASE Admitted(u)
  <2>1. PICK r \in Request :
          /\ O' = O
          /\ Cardinality(O) + Need(request[r].form) <= MaxOpen
          /\ P' \subseteq ((Request \ {r}) \X {1, 2}) \cup ({r} \X (1..Need(request[r].form)))
    BY <1>3 DEF Admitted
  <2> DEFINE need == Need(request[r].form)
             others == (Request \ {r}) \X {1, 2}
             own == {r} \X (1..need)
  <2>2. need \in {1, 2}
    BY DEF Need
  <2>3. IsFiniteSet(Request \ {r}) /\ Cardinality(Request \ {r}) = R - 1 /\ R - 1 \in Nat
    BY Sizes, WebAssumption
  <2>4. IsFiniteSet({1, 2}) /\ Cardinality({1, 2}) = 2
    BY Sizes
  <2>5. IsFiniteSet(others) /\ Cardinality(others) = (R - 1) * 2
    <3>1. Cardinality(others) = Cardinality(Request \ {r}) * Cardinality({1, 2})
      BY <2>3, <2>4, FS_Product, Zenon
    <3>2. IsFiniteSet(others)
      BY <2>3, <2>4, FS_Product, Zenon
    <3> QED
      BY <2>3, <2>4, <3>1, <3>2, Zenon
  <2>6. IsFiniteSet(1..need) /\ Cardinality(1..need) = need
    <3>1. IsFiniteSet(1..need) /\ Cardinality(1..need) = IF 1 > need THEN 0 ELSE need - 1 + 1
      BY <2>2, FS_Interval
    <3> QED
      BY <2>2, <3>1
  <2>7. IsFiniteSet({r}) /\ Cardinality({r}) = 1
    BY FS_Singleton
  <2>8. IsFiniteSet(own) /\ Cardinality(own) = 1 * need
    <3>1. Cardinality(own) = Cardinality({r}) * Cardinality(1..need)
      BY <2>6, <2>7, FS_Product, Zenon
    <3>2. IsFiniteSet(own)
      BY <2>6, <2>7, FS_Product, Zenon
    <3> HIDE DEF need, own
    <3> QED
      BY <2>6, <2>7, <3>1, <3>2, Zenon
  <2>9. others \cap own = {}
    OBVIOUS
  <2>10. /\ IsFiniteSet(others \cup own)
         /\ Cardinality(others \cup own) = Cardinality(others) + Cardinality(own)
    BY <2>5, <2>8, <2>9, Sizes
  <2>11. Cardinality(P') <= Cardinality(others \cup own)
    BY <2>1, <2>10, FS_Subset
  <2> HIDE DEF O, P, R, need, others, own
  <2>12. Cardinality(P') <= 2 * (R - 1) + need
    BY <1>t, <2>2, <2>3, <2>5, <2>8, <2>10, <2>11
  <2> QED
    BY <1>t, <2>1, <2>2, <2>12 DEF need
<1> QED
  BY <1>1, <1>2, <1>3

CapInv == HistoryInv /\ \A u \in User : Capped(u)

LEMMA CapInit == Init => CapInv
<1> SUFFICES ASSUME Init, NEW u \in User PROVE Capped(u)
  BY HistoryInit DEF CapInv
<1>1. OpenJobs(u) = {}
  BY DEF Init, TableInit, OpenJobs, NoRow, Open
<1>2. Promised(u) = {}
  <2>1. \A r \in Request : StillToInsert(r) = 0
    BY DEF Init, WebInit, Idle, StillToInsert
  <2> QED
    BY <2>1 DEF Promised
<1>3. Cardinality(Request) \in Nat \ {0}
  BY WebAssumption, FS_CardinalityType, FS_EmptySet
<1>4. IsFiniteSet({}) /\ Cardinality({}) = 0
  BY FS_EmptySet
<1> QED
  BY <1>1, <1>2, <1>3, <1>4, WebAssumption DEF Capped

LEMMA CapStep == CapInv /\ [Next]_vars => CapInv'
<1> SUFFICES ASSUME CapInv, [Next]_vars, NEW u \in User PROVE Capped(u)'
  BY HistoryStep DEF CapInv
<1>1. HistoryInv /\ Capped(u)
  BY DEF CapInv
<1>2. Less(u) \/ Kept(u) \/ Admitted(u)
  <2>1. CASE UNCHANGED vars
    BY <2>1 DEF vars, tableVars, webVars, Less, OpenJobs, Promised, StillToInsert
  <2>2. CASE WorkerSideStep /\ UNCHANGED webVars
    BY <1>1, <2>2, OpenOfWorkers
  <2>3. CASE WebSideStep
    BY <1>1, <2>3, OpenOfWeb DEF Capped
  <2> QED
    BY <2>1, <2>2, <2>3, Sides
<1> QED
  BY <1>1, <1>2, CappedStep

(* However requests interleave their counts and their inserts, a user's    *)
(* open jobs and the ones still to be inserted exceed MAX_OPEN by at most  *)
(* one pair for every other request the server handles at once.            *)
THEOREM CapExceededByRequests == Spec => []OpenBound
<1>1. CapInv => OpenBound
  BY DEF CapInv, Capped, OpenBound
<1> QED
  BY <1>1, CapInit, CapStep, PTL DEF Spec

-----------------------------------------------------------------------------
(* A page's backtest is claimed before its sweep.                          *)

\* Every locked row is in the hands of a worker that claims its kind.
LocksHeld ==
  \A j \in locked :
    \E w \in Worker :
      at[w] = "claiming" /\ inHand[w] = j /\ jobs[j].kind \in WorkerKinds[w]

OrderInv == HistoryInv /\ LocksHeld

LEMMA LocksStep ==
  ASSUME OrderInv, [Next]_vars
  PROVE  LocksHeld'
<1>t. /\ at \in [Worker -> {"away", "idle", "claiming", "handling"}]
      /\ inHand \in [Worker -> JobId \cup {None}] /\ locked \subseteq JobId
      /\ jobs \in [JobId -> Row] /\ ClaimsLocked /\ OneClaimer
      /\ \A i \in JobId : RowStep(i)
  BY RowSteps DEF OrderInv, HistoryInv, ClaimInv, TypeOK, TableTypeOK, WorkerTypeOK
<1> SUFFICES ASSUME NEW j \in locked'
             PROVE  \E w \in Worker :
                      at'[w] = "claiming" /\ inHand'[w] = j /\ jobs'[j].kind \in WorkerKinds[w]
  BY DEF LocksHeld
\* A lock that is kept, with its claimer.
<1>keep. ASSUME j \in locked,
                \A w \in Worker : at[w] = "claiming" /\ inHand[w] = j
                                    => at'[w] = "claiming" /\ inHand'[w] = j
         PROVE  \E w \in Worker :
                  at'[w] = "claiming" /\ inHand'[w] = j /\ jobs'[j].kind \in WorkerKinds[w]
  <2>1. PICK w \in Worker : at[w] = "claiming" /\ inHand[w] = j /\ jobs[j].kind \in WorkerKinds[w]
    BY <1>keep DEF OrderInv, LocksHeld
  <2>2. jobs[j].status = "queued" /\ j \in JobId
    BY <1>t, <2>1 DEF ClaimsLocked
  <2>3. jobs'[j].kind = jobs[j].kind
    BY <1>t, <2>2 DEF RowStep, Appears, NextId, Moves, Disappears, Settled
  <2> QED
    BY <1>keep, <2>1, <2>3
<1>1. CASE WebSideStep /\ UNCHANGED workerVars
  BY <1>1, <1>keep, WebOnTable DEF workerVars, OrderInv, HistoryInv, ClaimInv, TypeOK
<1>2. CASE UNCHANGED vars
  BY <1>2, <1>keep DEF vars, tableVars, workerVars
<1>3. ASSUME NEW v \in Worker, LockNext(v)
      PROVE  \E w \in Worker :
               at'[w] = "claiming" /\ inHand'[w] = j /\ jobs'[j].kind \in WorkerKinds[w]
  <2>1. PICK k \in JobId : /\ NextClaim(WorkerKinds[v], k)
                          /\ locked' = locked \cup {k}
                          /\ inHand' = [inHand EXCEPT ![v] = k]
    BY <1>3 DEF LockNext
  <2>2. at[v] = "idle" /\ at' = [at EXCEPT ![v] = "claiming"] /\ jobs' = jobs
    BY <1>3 DEF LockNext
  <2>3. CASE j = k
    BY <1>t, <2>1, <2>2, <2>3 DEF NextClaim, Claimable
  <2>4. CASE j # k
    BY <1>t, <1>keep, <2>1, <2>2, <2>4
  <2> QED
    BY <2>3, <2>4
<1>4. ASSUME NEW v \in Worker, CommitClaim(v)
      PROVE  \E w \in Worker :
               at'[w] = "claiming" /\ inHand'[w] = j /\ jobs'[j].kind \in WorkerKinds[w]
  BY <1>t, <1>4, <1>keep DEF CommitClaim
<1>5. ASSUME NEW v \in Worker, Disconnect(v)
      PROVE  \E w \in Worker :
               at'[w] = "claiming" /\ inHand'[w] = j /\ jobs'[j].kind \in WorkerKinds[w]
  <2>1. j \in locked /\ (at[v] = "claiming" => j # inHand[v])
    BY <1>5 DEF Disconnect
  <2> QED
    BY <1>t, <1>5, <1>keep, <2>1 DEF Disconnect
<1>6. ASSUME NEW v \in Worker,
             Connect(v) \/ \E outcome \in {"done", "failed"} : Finish(v, outcome)
      PROVE  \E w \in Worker :
               at'[w] = "claiming" /\ inHand'[w] = j /\ jobs'[j].kind \in WorkerKinds[w]
  BY <1>t, <1>6, <1>keep DEF Connect, Finish
<1>7. ASSUME NEW k \in JobId, HalfHourPasses(k)
      PROVE  \E w \in Worker :
               at'[w] = "claiming" /\ inHand'[w] = j /\ jobs'[j].kind \in WorkerKinds[w]
  BY <1>7, <1>keep DEF HalfHourPasses
<1> QED
  BY <1>1, <1>2, <1>3, <1>4, <1>5, <1>6, <1>7, Sides DEF WorkerSideStep

LEMMA OrderInit == Init => OrderInv
  BY HistoryInit DEF Init, TableInit, LocksHeld, OrderInv

LEMMA OrderStep == OrderInv /\ [Next]_vars => OrderInv'
  BY HistoryStep, LocksStep DEF OrderInv

(* When the worker that claims sweeps is the only one that claims          *)
(* backtests, the row a claim picks.                                       *)
LEMMA PicksBacktestFirst ==
  ASSUME OrderInv, [Next]_vars,
         \A v, w \in Worker :
           "backtest" \in WorkerKinds[v] /\ "backtest" \in WorkerKinds[w] => v = w,
         \A w \in Worker : "sweep" \in WorkerKinds[w] => "backtest" \in WorkerKinds[w],
         NEW s \in JobId, jobs[s].pair # None, s \in locked' \ locked
  PROVE  jobs[jobs[s].pair].status # "queued"
<1> DEFINE b == jobs[s].pair
<1>t. b \in JobId /\ jobs[b].priority = 50 /\ jobs[b].kind = "backtest"
      /\ jobs[s].priority = 60 /\ jobs[s].kind = "sweep"
  BY DEF OrderInv, HistoryInv, ClaimInv, TypeOK, TableTypeOK, Row, PairNamesBacktest, PairRanks
<1>1. PICK w \in Worker : LockNext(w)
  <2>1. WebSideStep => locked' = locked
    BY WebOnTable DEF OrderInv, HistoryInv, ClaimInv, TypeOK
  <2>2. UNCHANGED vars => locked' = locked
    BY DEF vars, tableVars
  <2>3. WorkerSideStep => locked' \subseteq locked \/ \E w \in Worker : LockNext(w)
    BY DEF WorkerSideStep, Connect, CommitClaim, Finish, Disconnect, HalfHourPasses
  <2> QED
    BY <2>1, <2>2, <2>3, Sides
<1>2. at[w] = "idle" /\ NextClaim(WorkerKinds[w], s)
  BY <1>1 DEF LockNext
<1>3. "backtest" \in WorkerKinds[w]
  BY <1>t, <1>2 DEF NextClaim, Claimable
<1>4. ASSUME jobs[b].status = "queued" PROVE b \notin locked
  <2> SUFFICES ASSUME b \in locked PROVE FALSE
    OBVIOUS
  <2>1. PICK v \in Worker : at[v] = "claiming" /\ jobs[b].kind \in WorkerKinds[v]
    BY DEF OrderInv, LocksHeld
  <2> QED
    BY <1>t, <1>2, <1>3, <2>1
<1>5. ASSUME jobs[b].status = "queued" PROVE FALSE
  <2>1. b \in Claimable(WorkerKinds[w])
    BY <1>t, <1>3, <1>4, <1>5 DEF Claimable, Unlocked
  <2>2. Before(s, b)
    BY <1>2, <2>1 DEF NextClaim
  <2> QED
    BY <1>t, <2>2 DEF Before
<1> QED
  BY <1>5

(* As long as one worker claims all backtests, and any worker that claims  *)
(* sweeps is that one, no claim picks a page's sweep before its backtest.  *)
THEOREM BacktestsFirst ==
  ASSUME \A v, w \in Worker :
           "backtest" \in WorkerKinds[v] /\ "backtest" \in WorkerKinds[w] => v = w,
         \A w \in Worker : "sweep" \in WorkerKinds[w] => "backtest" \in WorkerKinds[w]
  PROVE  Spec => BacktestBeforeItsSweep
<1>1. OrderInv /\ [Next]_vars =>
        [\A s \in JobId : jobs[s].pair # None /\ s \in locked' \ locked
                            => jobs[jobs[s].pair].status # "queued"]_vars
  BY PicksBacktestFirst
<1> QED
  BY <1>1, OrderInit, OrderStep, PTL DEF Spec, BacktestBeforeItsSweep

-----------------------------------------------------------------------------
(* The table, its workers and the web app implement LeaseQueue: seen       *)
(* through LeaseState, LeaseHolder and LeaseExpired, every step of the     *)
(* system is a step of the lease queue or leaves it alone.                 *)


\* How a row in each status looks to the lease queue.
LEMMA RowView ==
  ASSUME NEW row \in Row
  PROVE  /\ row.status \in {"absent", "queued"} => StateOf(row) = row.status
         /\ row.status = "running" => StateOf(row) = "leased"
         /\ row.status \in Settled => StateOf(row) = "settled"
         /\ row.status = "deleted" => StateOf(row) = "removed"
         /\ row.status = "running" => HolderOf(row) = row.claimed_by
         /\ row.status # "running" => HolderOf(row) = None
         /\ row.status # "running" => ~Stale(row)
<1>1. CASE row.status = "running"
  BY <1>1 DEF StateOf, HolderOf, Stale, Settled
<1>2. CASE row.status \in Settled
  BY <1>2 DEF StateOf, HolderOf, Stale, Settled
<1>3. CASE row.status = "deleted"
  BY <1>3 DEF StateOf, HolderOf, Stale, Settled
<1>4. CASE row.status \in {"absent", "queued"}
  BY <1>4 DEF StateOf, HolderOf, Stale, Settled
<1> QED
  BY <1>1, <1>2, <1>3, <1>4 DEF Row, Status, Open

\* A step that writes one row changes the view of that row alone.
LEMMA OneRowView ==
  ASSUME NEW j \in JobId, NEW row, jobs \in [JobId -> Row],
         jobs' = [jobs EXCEPT ![j] = row]
  PROVE  /\ LeaseState' = [LeaseState EXCEPT ![j] = StateOf(row)]
         /\ LeaseHolder' = [LeaseHolder EXCEPT ![j] = HolderOf(row)]
         /\ LeaseExpired' = IF Stale(row) THEN LeaseExpired \cup {j} ELSE LeaseExpired \ {j}
         /\ LeaseState[j] = StateOf(jobs[j])
         /\ LeaseHolder[j] = HolderOf(jobs[j])
         /\ j \in LeaseExpired <=> Stale(jobs[j])
  BY DEF LeaseState, LeaseHolder, LeaseExpired

\* ... and when the view of that row is the same, nothing.
LEMMA SameView ==
  ASSUME NEW j \in JobId, NEW row, jobs \in [JobId -> Row],
         jobs' = [jobs EXCEPT ![j] = row],
         StateOf(row) = StateOf(jobs[j]), HolderOf(row) = HolderOf(jobs[j]),
         Stale(row) <=> Stale(jobs[j])
  PROVE  UNCHANGED Lease!vars
<1>1. LeaseState' = LeaseState /\ LeaseHolder' = LeaseHolder
  BY DEF LeaseState, LeaseHolder
<1>2. LeaseExpired' = LeaseExpired
  BY DEF LeaseExpired
<1> QED
  BY <1>1, <1>2 DEF Lease!vars

LEMMA InsertSubmits ==
  ASSUME jobs \in [JobId -> Row], NEW j \in JobId, NEW kind \in Kind,
         NEW user \in User \cup {None}, NEW priority \in Nat, NEW pair \in JobId \cup {None},
         Insert(j, kind, user, priority, pair)
  PROVE  Lease!Submit(j)
<1> DEFINE row == QueuedRow(kind, user, priority, pair)
<1>1. row \in Row /\ row.status = "queued"
  BY RowsAreRows DEF QueuedRow
<1>2. jobs[j] \in Row /\ jobs[j].status = "absent" /\ jobs' = [jobs EXCEPT ![j] = row]
  BY DEF Insert, NextId
<1> HIDE DEF row
<1>3. /\ StateOf(row) = "queued" /\ HolderOf(row) = None /\ ~Stale(row)
      /\ StateOf(jobs[j]) = "absent" /\ HolderOf(jobs[j]) = None /\ ~Stale(jobs[j])
  BY <1>1, <1>2, RowView
<1>4. /\ LeaseState[j] = "absent" /\ LeaseState' = [LeaseState EXCEPT ![j] = "queued"]
      /\ LeaseHolder' = LeaseHolder /\ LeaseExpired' = LeaseExpired
  <2>1. LeaseState[j] = "absent" /\ LeaseState' = [LeaseState EXCEPT ![j] = "queued"]
    <3>1. /\ LeaseState[j] = StateOf(jobs[j])
          /\ LeaseState' = [LeaseState EXCEPT ![j] = StateOf(row)]
      BY <1>2, OneRowView
    <3> QED
      BY <1>3, <3>1
  <2>2. LeaseHolder' = LeaseHolder
    BY <1>2, <1>3 DEF LeaseHolder
  <2>3. LeaseExpired' = LeaseExpired
    BY <1>2, <1>3 DEF LeaseExpired
  <2> QED
    BY <2>1, <2>2, <2>3
<1> QED
  BY <1>4 DEF Lease!Submit

LEMMA FinishSettles ==
  ASSUME jobs \in [JobId -> Row], NEW j \in JobId, NEW outcome \in Settled,
         jobs' = [jobs EXCEPT ![j] = Finished(jobs[j], outcome)]
  PROVE  Lease!Settle(j) \/ UNCHANGED Lease!vars
<1> DEFINE row == Finished(jobs[j], outcome)
<1>1. jobs[j] \in Row /\ row \in Row
  BY RowsAreRows
<1>2. CASE jobs[j].status \in {"absent", "deleted"}
  <2>1. row = jobs[j]
    BY <1>2 DEF Finished
  <2> QED
    BY <2>1, SameView
<1>3. CASE jobs[j].status \in Settled
  <2>1. row.status \in Settled
    BY <1>1, <1>3 DEF Finished, Row, Settled
  <2> HIDE DEF row
  <2>2. StateOf(row) = StateOf(jobs[j]) /\ HolderOf(row) = HolderOf(jobs[j]) /\ ~Stale(row) /\ ~Stale(jobs[j])
    BY <1>1, <1>3, <2>1, RowView DEF Settled
  <2> QED
    BY <2>2, SameView DEF row
<1>4. CASE jobs[j].status \in Open
  <2>1. row.status \in Settled
    BY <1>1, <1>4 DEF Finished, Row, Open
  <2>2. jobs' = [jobs EXCEPT ![j] = row]
    OBVIOUS
  <2> HIDE DEF row
  <2>3. /\ StateOf(row) = "settled" /\ HolderOf(row) = None /\ ~Stale(row)
        /\ StateOf(jobs[j]) \in {"queued", "leased"}
    BY <1>1, <1>4, <2>1, RowView DEF Open, Settled
  <2>4. /\ LeaseState[j] = StateOf(jobs[j])
        /\ LeaseState' = [LeaseState EXCEPT ![j] = StateOf(row)]
        /\ LeaseHolder' = [LeaseHolder EXCEPT ![j] = HolderOf(row)]
        /\ LeaseExpired' = IF Stale(row) THEN LeaseExpired \cup {j} ELSE LeaseExpired \ {j}
    BY <2>2, OneRowView
  <2>5. Lease!Settle(j)
    BY <2>3, <2>4 DEF Lease!Settle
  <2> QED
    BY <2>5
<1> QED
  BY <1>1, <1>2, <1>3, <1>4 DEF Row, Status

LEMMA StepImplements ==
  ASSUME HistoryInv, [Next]_vars
  PROVE  [Lease!Next]_(Lease!vars)
<1> DEFINE Goal == [Lease!Next]_(Lease!vars)
<1>t. /\ jobs \in [JobId -> Row] /\ WorkerTypeOK /\ WebTypeOK
      /\ ClaimsLocked /\ RequestRows
  BY DEF HistoryInv, ClaimInv, TypeOK, TableTypeOK
<1>same. ASSUME jobs' = jobs PROVE Goal
  BY <1>same DEF LeaseState, LeaseHolder, LeaseExpired, Lease!vars
<1>submit. ASSUME NEW j \in JobId, NEW kind \in Kind, NEW user \in User \cup {None},
                  NEW priority \in Nat, NEW pair \in JobId \cup {None},
                  Insert(j, kind, user, priority, pair)
           PROVE  Goal
  BY <1>t, <1>submit, InsertSubmits DEF Lease!Next
<1>settle. ASSUME NEW j \in JobId, NEW outcome \in Settled,
                  jobs' = [jobs EXCEPT ![j] = Finished(jobs[j], outcome)]
           PROVE  Goal
  BY <1>t, <1>settle, FinishSettles DEF Lease!Next
<1>1. ASSUME NEW w \in Worker, Connect(w) PROVE Goal
  <2> DEFINE T == LeaseExpired
  <2>1. \A j \in JobId : jobs'[j] = IF j \in T THEN Requeued(jobs[j]) ELSE jobs[j]
    BY <1>1 DEF Connect, LeaseExpired
  <2>2. \A j \in T : /\ StateOf(Requeued(jobs[j])) = "queued"
                     /\ HolderOf(Requeued(jobs[j])) = None
                     /\ ~Stale(Requeued(jobs[j]))
    <3> SUFFICES ASSUME NEW j \in T
                 PROVE  /\ StateOf(Requeued(jobs[j])) = "queued"
                        /\ HolderOf(Requeued(jobs[j])) = None
                        /\ ~Stale(Requeued(jobs[j]))
      OBVIOUS
    <3>1. jobs[j] \in Row /\ Requeued(jobs[j]) \in Row
      BY <1>t, RowsAreRows DEF LeaseExpired
    <3>2. Requeued(jobs[j]).status = "queued"
      BY <3>1 DEF Requeued, Row
    <3> QED
      BY <3>1, <3>2, RowView
  <2>3. LeaseState' = [j \in JobId |-> IF j \in T THEN "queued" ELSE LeaseState[j]]
    BY <2>1, <2>2 DEF LeaseState
  <2>4. LeaseHolder' = [j \in JobId |-> IF j \in T THEN None ELSE LeaseHolder[j]]
    BY <2>1, <2>2 DEF LeaseHolder
  <2>5. LeaseExpired' = LeaseExpired \ T
    BY <2>1, <2>2 DEF LeaseExpired
  <2>6. Lease!Reclaim(T)
    BY <2>3, <2>4, <2>5 DEF Lease!Reclaim
  <2> QED
    BY <2>6 DEF Lease!Next
<1>2. ASSUME NEW w \in Worker, CommitClaim(w) PROVE Goal
  <2> DEFINE j == inHand[w]
             row == Claimed(jobs[j], w)
  <2>1. /\ j \in JobId /\ jobs[j] \in Row /\ jobs[j].status = "queued"
        /\ jobs' = [jobs EXCEPT ![j] = row]
    BY <1>t, <1>2 DEF CommitClaim, ClaimsLocked, WorkerTypeOK
  <2>2. /\ row \in Row /\ row.status = "running"
        /\ row.claimed_by = w /\ row.claimed_at = "recent"
    BY <2>1, RowsAreRows DEF Claimed, Row
  <2> HIDE DEF j, row
  <2>3. /\ StateOf(jobs[j]) = "queued" /\ ~Stale(jobs[j])
        /\ StateOf(row) = "leased" /\ HolderOf(row) = w /\ ~Stale(row)
    BY <2>1, <2>2, RowView DEF Stale
  <2>4. /\ LeaseState[j] = StateOf(jobs[j])
        /\ LeaseState' = [LeaseState EXCEPT ![j] = StateOf(row)]
        /\ LeaseHolder' = [LeaseHolder EXCEPT ![j] = HolderOf(row)]
    BY <1>t, <2>1, OneRowView
  <2>5. LeaseExpired' = LeaseExpired
    BY <1>t, <2>1, <2>3 DEF LeaseExpired
  <2>6. Lease!Lease(w, j)
    BY <2>3, <2>4, <2>5 DEF Lease!Lease
  <2> QED
    BY <2>1, <2>6 DEF Lease!Next
<1>3. ASSUME NEW w \in Worker, NEW outcome \in {"done", "failed"}, Finish(w, outcome) PROVE Goal
  <2>1. inHand[w] \in JobId
    BY <1>t, <1>3 DEF Finish, WorkerTypeOK
  <2> QED
    BY <1>3, <1>settle, <2>1 DEF Finish, Settled
<1>4. ASSUME NEW j \in JobId, HalfHourPasses(j) PROVE Goal
  <2> DEFINE row == [jobs[j] EXCEPT !.claimed_at = "old"]
  <2>1. jobs' = [jobs EXCEPT ![j] = row]
    BY <1>4 DEF HalfHourPasses
  <2>2. /\ jobs[j] \in Row /\ row \in Row /\ row.status = jobs[j].status
        /\ row.claimed_by = jobs[j].claimed_by /\ row.claimed_at = "old"
    BY <1>t, RowsAreRows DEF Row
  <2> HIDE DEF row
  <2>3. CASE jobs[j].status = "running"
    <3>1. /\ StateOf(row) = "leased" /\ StateOf(jobs[j]) = "leased"
          /\ HolderOf(row) = HolderOf(jobs[j]) /\ Stale(row)
      BY <2>2, <2>3, RowView DEF Stale
    <3>2. LeaseState' = LeaseState /\ LeaseState[j] = "leased"
      BY <1>t, <2>1, <3>1 DEF LeaseState
    <3>3. LeaseHolder' = LeaseHolder
      BY <1>t, <2>1, <3>1 DEF LeaseHolder
    <3>4. LeaseExpired' = LeaseExpired \cup {j}
      BY <1>t, <2>1, <3>1 DEF LeaseExpired
    <3>5. Lease!Expire(j)
      BY <3>2, <3>3, <3>4 DEF Lease!Expire
    <3> QED
      BY <3>5 DEF Lease!Next
  <2>4. CASE jobs[j].status # "running"
    <3>1. /\ StateOf(row) = StateOf(jobs[j]) /\ HolderOf(row) = HolderOf(jobs[j])
          /\ ~Stale(row) /\ ~Stale(jobs[j])
      BY <2>2, <2>4, RowView DEF Row, Status, Open
    <3> QED
      BY <1>t, <2>1, <3>1, SameView
  <2> QED
    BY <2>3, <2>4
<1>5. ASSUME NEW r \in Request, DeleteCheck(r) PROVE Goal
  <2> DEFINE j == request[r].row
             gone == NoRow("deleted")
  <2>1. j \in JobId /\ jobs[j] \in Row /\ jobs[j].status \in Settled \cup {"deleted"}
    BY <1>t, <1>5 DEF DeleteCheck, RequestRows, WebTypeOK, WellFormed
  <2>2. CASE jobs' = [jobs EXCEPT ![j] = gone]
    <3>1. gone \in Row /\ gone.status = "deleted"
      BY RowsAreRows DEF NoRow, Status
    <3> HIDE DEF j, gone
    <3>2. /\ StateOf(gone) = "removed" /\ HolderOf(gone) = None /\ ~Stale(gone)
          /\ HolderOf(jobs[j]) = None /\ ~Stale(jobs[j])
          /\ StateOf(jobs[j]) \in {"settled", "removed"}
      BY <2>1, <3>1, RowView DEF Settled
    <3>3. LeaseHolder' = LeaseHolder
      BY <1>t, <2>1, <2>2, <3>2 DEF LeaseHolder
    <3>4. LeaseExpired' = LeaseExpired
      BY <1>t, <2>1, <2>2, <3>2 DEF LeaseExpired
    <3>5. /\ LeaseState[j] = StateOf(jobs[j])
          /\ LeaseState' = [LeaseState EXCEPT ![j] = StateOf(gone)]
      BY <1>t, <2>1, <2>2, OneRowView
    <3>6. CASE StateOf(jobs[j]) = "settled"
      <4>1. Lease!Remove(j)
        BY <3>2, <3>3, <3>4, <3>5, <3>6 DEF Lease!Remove
      <4> QED
        BY <2>1, <4>1 DEF Lease!Next
    <3>7. CASE StateOf(jobs[j]) = "removed"
      BY <1>t, <2>1, <2>2, <3>2, <3>7, SameView
    <3> QED
      BY <3>2, <3>6, <3>7
  <2> QED
    BY <1>5, <1>same, <2>2 DEF DeleteCheck
<1>6. ASSUME NEW r \in Request, CancelCheck(r) PROVE Goal
  <2>1. request[r].row \in JobId
    BY <1>t, <1>6 DEF CancelCheck, WebTypeOK, WellFormed
  <2> QED
    BY <1>6, <1>settle, <2>1 DEF CancelCheck, Settled
<1>7. ASSUME NEW r \in Request, PostCheck(r) \/ InsertJob(r) \/ InsertSweep(r) PROVE Goal
  <2>1. request[r].user \in User
    BY <1>t, <1>7 DEF PostCheck, InsertJob, InsertSweep, WebTypeOK, WellFormed
  <2>2. CASE PostCheck(r)
    BY <1>submit, <2>1, <2>2 DEF PostCheck, Kind
  <2>3. CASE InsertJob(r)
    <3>1. PICK j \in JobId : \/ Insert(j, "sweep", request[r].user, 100, None)
                            \/ Insert(j, "backtest", request[r].user, 50, None)
      BY <2>3 DEF InsertJob
    <3> QED
      BY <1>submit, <2>1, <3>1 DEF Kind
  <2>4. CASE InsertSweep(r)
    <3>1. request[r].row \in JobId
      BY <1>t, <2>4 DEF InsertSweep, WebTypeOK, WellFormed
    <3> QED
      BY <1>submit, <2>1, <2>4, <3>1 DEF InsertSweep, Kind
  <2> QED
    BY <1>7, <2>2, <2>3, <2>4
<1>8. ASSUME NEW kind \in CliKinds, CliEnqueue(kind) PROVE Goal
  BY <1>8, <1>submit, WebAssumption DEF CliEnqueue
<1>9. CASE \/ \E w \in Worker : LockNext(w) \/ Disconnect(w)
           \/ \E r \in Request, u \in User, form \in Form, script \in Script \cup {None} :
               StartTest(r, u, form, script)
           \/ \E r \in Request : \/ PollSettled(r) \/ GiveUp(r) \/ FindStrategy(r)
                               \/ CreateStrategy(r) \/ CountOpen(r) \/ FailRequest(r)
           \/ \E s \in Script : DropCached(s)
           \/ UNCHANGED vars
  <2>1. jobs' = jobs
    BY <1>9 DEF LockNext, Disconnect, StartTest, PollSettled, GiveUp, FindStrategy, CreateStrategy,
               CountOpen, FailRequest, DropCached, tableVars, vars
  <2> QED
    BY <1>same, <2>1
<1>10. CASE WorkerSideStep
  BY <1>1, <1>2, <1>3, <1>4, <1>9, <1>10 DEF WorkerSideStep
<1>11. CASE WebSideStep
  BY <1>5, <1>6, <1>7, <1>8, <1>9, <1>11 DEF WebSideStep, RequestStep
<1> QED
  BY <1>9, <1>10, <1>11, Sides

LEMMA InitImplements == Init => Lease!Init
<1> SUFFICES ASSUME Init PROVE Lease!Init
  OBVIOUS
<1>1. NoRow("absent") \in Row /\ NoRow("absent").status = "absent"
  BY RowsAreRows DEF NoRow, Status
<1>2. /\ StateOf(NoRow("absent")) = "absent"
      /\ HolderOf(NoRow("absent")) = None
      /\ ~Stale(NoRow("absent"))
  BY <1>1, RowView
<1> QED
  BY <1>2 DEF Init, TableInit, LeaseState, LeaseHolder, LeaseExpired, Lease!Init

(* The job queue implements the lease queue: jobs are handed to one holder *)
(* at a time and come back only when a lease has run out.                  *)
THEOREM Implements == Spec => ImplementsLeaseQueue
  BY InitImplements, StepImplements, HistoryInit, HistoryStep, PTL
     DEF Spec, ImplementsLeaseQueue, Lease!Spec
=============================================================================

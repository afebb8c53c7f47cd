-------------------------- MODULE JobWorkerProofs ---------------------------
(***************************************************************************)
(* What every composition with JobWorker needs: the workers' steps, and    *)
(* what they keep of the table.                                            *)
(***************************************************************************)
EXTENDS JobWorker, TLAPS

\* A step of the workers, or of the clock.
WorkerSideStep ==
  \/ \E w \in Worker : Connect(w)
  \/ \E w \in Worker : LockNext(w)
  \/ \E w \in Worker : CommitClaim(w)
  \/ \E w \in Worker : Finish(w, "done")
  \/ \E w \in Worker : Finish(w, "failed")
  \/ \E w \in Worker : Disconnect(w)
  \/ \E j \in JobId : HalfHourPasses(j)

(* The rows the statements write are rows.                                 *)
LEMMA RowsAreRows ==
  /\ \A status \in Status : NoRow(status) \in Row
  /\ \A kind \in Kind, user \in User \cup {None}, priority \in Nat,
        pair \in JobId \cup {None} : QueuedRow(kind, user, priority, pair) \in Row
  /\ \A row \in Row, w \in Worker : Claimed(row, w) \in Row
  /\ \A row \in Row : Requeued(row) \in Row
  /\ \A row \in Row, outcome \in Settled : Finished(row, outcome) \in Row
  /\ \A row \in Row : [row EXCEPT !.claimed_at = "old"] \in Row
<1>1. \A status \in Status : NoRow(status) \in Row
  BY DEF NoRow, Row
<1>2. \A kind \in Kind, user \in User \cup {None}, priority \in Nat,
        pair \in JobId \cup {None} : QueuedRow(kind, user, priority, pair) \in Row
  BY DEF QueuedRow, Row, Status, Open
<1>3. \A row \in Row, w \in Worker : Claimed(row, w) \in Row
  BY DEF Claimed, Row, Status, Open
<1>4. \A row \in Row : Requeued(row) \in Row
  BY DEF Requeued, Row, Status, Open
<1>5. \A row \in Row, outcome \in Settled : Finished(row, outcome) \in Row
  BY DEF Finished, Row, Status
<1>6. \A row \in Row : [row EXCEPT !.claimed_at = "old"] \in Row
  BY DEF Row
<1> QED
  BY <1>1, <1>2, <1>3, <1>4, <1>5, <1>6

(* Writing a row keeps the table's type.                                   *)
LEMMA InsertType ==
  ASSUME TableTypeOK,
         NEW j \in JobId, NEW kind \in Kind, NEW user \in User \cup {None},
         NEW priority \in Nat, NEW pair \in JobId \cup {None},
         Insert(j, kind, user, priority, pair)
  PROVE  TableTypeOK'
<1>1. QueuedRow(kind, user, priority, pair) \in Row
  BY RowsAreRows
<1> QED
  BY <1>1 DEF TableTypeOK, Insert

-----------------------------------------------------------------------------
(* The workers' side of the types.                                         *)

LEMMA WorkerSideTypes ==
  ASSUME TableTypeOK, WorkerTypeOK,
         WorkerSideStep
  PROVE  TableTypeOK' /\ WorkerTypeOK'
<1> USE DEF TableTypeOK, WorkerTypeOK
<1>1. ASSUME NEW w \in Worker, Connect(w) PROVE TableTypeOK' /\ WorkerTypeOK'
  BY <1>1, RowsAreRows DEF Connect
<1>2. ASSUME NEW w \in Worker, LockNext(w) PROVE TableTypeOK' /\ WorkerTypeOK'
  BY <1>2, TableAssumption DEF LockNext
<1>3. ASSUME NEW w \in Worker, CommitClaim(w) PROVE TableTypeOK' /\ WorkerTypeOK'
  <2>1. inHand[w] \in JobId
    BY <1>3 DEF CommitClaim
  <2>2. Claimed(jobs[inHand[w]], w) \in Row
    BY <2>1, RowsAreRows
  <2> QED
    BY <1>3, <2>1, <2>2 DEF CommitClaim
<1>4. ASSUME NEW w \in Worker, NEW outcome \in {"done", "failed"}, Finish(w, outcome)
      PROVE  TableTypeOK' /\ WorkerTypeOK'
  <2>1. inHand[w] \in JobId
    BY <1>4 DEF Finish
  <2>2. Finished(jobs[inHand[w]], outcome) \in Row
    BY <2>1, RowsAreRows DEF Settled
  <2> QED
    BY <1>4, <2>1, <2>2 DEF Finish
<1>5. ASSUME NEW w \in Worker, Disconnect(w) PROVE TableTypeOK' /\ WorkerTypeOK'
  BY <1>5 DEF Disconnect
<1>6. ASSUME NEW j \in JobId, HalfHourPasses(j) PROVE TableTypeOK' /\ WorkerTypeOK'
  <2>1. [jobs[j] EXCEPT !.claimed_at = "old"] \in Row
    BY RowsAreRows
  <2>2. \A w \in Worker : overdue[w] \/ (Handling(w, j) /\ jobs[j].claimed_by = w) \in BOOLEAN
    OBVIOUS
  <2> QED
    BY <1>6, <2>1, <2>2 DEF HalfHourPasses
<1> QED
  BY <1>1, <1>2, <1>3, <1>4, <1>5, <1>6 DEF WorkerSideStep

-----------------------------------------------------------------------------
(* What a worker claims or handles has been inserted.                      *)
HandsHoldRows == \A w \in Worker : inHand[w] # None => jobs[inHand[w]].status # "absent"

(* What workers do to a row: they never change what it asks for, make it   *)
(* appear or disappear, and it becomes 'done' only when one finishes it.   *)
LEMMA WorkerSideRows ==
  ASSUME TableTypeOK, WorkerTypeOK, HandsHoldRows, WorkerSideStep, NEW j \in JobId
  PROVE  /\ jobs'[j].kind = jobs[j].kind
         /\ jobs'[j].user = jobs[j].user
         /\ jobs'[j].pair = jobs[j].pair
         /\ jobs'[j].status = "absent" <=> jobs[j].status = "absent"
         /\ jobs'[j].status = "done" =>
              \/ jobs[j].status = "done"
              \/ \E w \in Worker : Finish(w, "done") /\ inHand[w] = j
<1> USE DEF TableTypeOK, WorkerTypeOK, HandsHoldRows
<1> DEFINE Kept == /\ jobs'[j].kind = jobs[j].kind
                   /\ jobs'[j].user = jobs[j].user
                   /\ jobs'[j].pair = jobs[j].pair
                   /\ jobs'[j].status = "absent" <=> jobs[j].status = "absent"
           DoneBy == jobs'[j].status = "done" =>
                       \/ jobs[j].status = "done"
                       \/ \E w \in Worker : Finish(w, "done") /\ inHand[w] = j
<1>0. jobs[j] \in Row
  OBVIOUS
<1>1. ASSUME NEW w \in Worker, Connect(w) PROVE Kept /\ DoneBy
  BY <1>0, <1>1 DEF Connect, Stale, Requeued, Row
<1>2. ASSUME NEW w \in Worker, LockNext(w) \/ Disconnect(w) PROVE Kept /\ DoneBy
  BY <1>2 DEF LockNext, Disconnect
<1>3. ASSUME NEW w \in Worker, CommitClaim(w) PROVE Kept /\ DoneBy
  BY <1>0, <1>3 DEF CommitClaim, Claimed, Row
<1>4. ASSUME NEW w \in Worker, NEW outcome \in {"done", "failed"}, Finish(w, outcome)
      PROVE  Kept /\ DoneBy
  <2>1. CASE inHand[w] = j
    BY <1>0, <1>4, <2>1 DEF Finish, Finished, Row
  <2>2. CASE inHand[w] # j
    BY <1>4, <2>2 DEF Finish
  <2> QED
    BY <2>1, <2>2
<1>5. ASSUME NEW i \in JobId, HalfHourPasses(i) PROVE Kept /\ DoneBy
  BY <1>0, <1>5 DEF HalfHourPasses, Row
<1> QED
  BY <1>1, <1>2, <1>3, <1>4, <1>5 DEF WorkerSideStep

(* A worker's hand: it takes up only rows that were queued, and keeps what *)
(* it handles until it lets it go.                                         *)
LEMMA WorkerSideHands ==
  ASSUME TableTypeOK, WorkerTypeOK, WorkerSideStep, NEW w \in Worker
  PROVE  \/ inHand'[w] = inHand[w]
         \/ inHand'[w] = None
         \/ inHand'[w] \in JobId /\ jobs[inHand'[w]].status = "queued" /\ at'[w] = "claiming"
<1> USE DEF TableTypeOK, WorkerTypeOK
<1>1. ASSUME NEW v \in Worker, Connect(v) \/ CommitClaim(v) PROVE inHand'[w] = inHand[w]
  BY <1>1 DEF Connect, CommitClaim
<1>2. ASSUME NEW v \in Worker, LockNext(v)
      PROVE  \/ inHand'[w] = inHand[w]
             \/ inHand'[w] \in JobId /\ jobs[inHand'[w]].status = "queued" /\ at'[w] = "claiming"
  BY <1>2 DEF LockNext, NextClaim, Claimable
<1>3. ASSUME NEW v \in Worker, Finish(v, "done") \/ Finish(v, "failed") \/ Disconnect(v)
      PROVE  inHand'[w] \in {inHand[w], None}
  BY <1>3 DEF Finish, Disconnect
<1>4. ASSUME NEW j \in JobId, HalfHourPasses(j) PROVE inHand'[w] = inHand[w]
  BY <1>4 DEF HalfHourPasses
<1> QED
  BY <1>1, <1>2, <1>3, <1>4 DEF WorkerSideStep
=============================================================================

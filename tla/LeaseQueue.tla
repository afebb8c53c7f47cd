----------------------------- MODULE LeaseQueue -----------------------------
(***************************************************************************)
(* What the job queue promises, with no database in it: a queue of tasks   *)
(* handed out on leases.  A task is leased to one holder at a time; it     *)
(* goes back to the queue only after its lease has expired; once settled   *)
(* it stays settled, until it is removed for good.  JobSystem implements   *)
(* this specification.                                                     *)
(***************************************************************************)
CONSTANTS Task, Holder, Nobody

VARIABLES state,    \* "absent", "queued", "leased", "settled" or "removed"
          holder,   \* who holds the lease of a leased task
          expired   \* the leased tasks whose lease has run out

vars == <<state, holder, expired>>

Init ==
  /\ state = [t \in Task |-> "absent"]
  /\ holder = [t \in Task |-> Nobody]
  /\ expired = {}

Submit(t) ==
  /\ state[t] = "absent"
  /\ state' = [state EXCEPT ![t] = "queued"]
  /\ UNCHANGED <<holder, expired>>

Lease(h, t) ==
  /\ state[t] = "queued"
  /\ state' = [state EXCEPT ![t] = "leased"]
  /\ holder' = [holder EXCEPT ![t] = h]
  /\ UNCHANGED expired

Expire(t) ==
  /\ state[t] = "leased"
  /\ expired' = expired \cup {t}
  /\ UNCHANGED <<state, holder>>

\* Expired leases, any number of them at once, go back to the queue.
Reclaim(T) ==
  /\ T \subseteq expired
  /\ state' = [t \in Task |-> IF t \in T THEN "queued" ELSE state[t]]
  /\ holder' = [t \in Task |-> IF t \in T THEN Nobody ELSE holder[t]]
  /\ expired' = expired \ T

\* Anyone who worked on a task may settle it, also one who lost the lease.
Settle(t) ==
  /\ state[t] \in {"queued", "leased"}
  /\ state' = [state EXCEPT ![t] = "settled"]
  /\ holder' = [holder EXCEPT ![t] = Nobody]
  /\ expired' = expired \ {t}

Remove(t) ==
  /\ state[t] = "settled"
  /\ state' = [state EXCEPT ![t] = "removed"]
  /\ UNCHANGED <<holder, expired>>

Next ==
  \/ \E t \in Task : Submit(t) \/ Expire(t) \/ Settle(t) \/ Remove(t)
  \/ \E h \in Holder, t \in Task : Lease(h, t)
  \/ \E T \in SUBSET expired : Reclaim(T)

Spec == Init /\ [][Next]_vars
=============================================================================

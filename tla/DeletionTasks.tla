---------------------------- MODULE DeletionTasks ----------------------------
(***************************************************************************)
(* What a deletion queue promises the handlers: an id that is handed over  *)
(* is accepted or refused on the spot; what is accepted is tried once and  *)
(* either deleted or given up; and nothing that was settled is ever        *)
(* reopened.  The queue says nothing about when it refuses.  DeletionQueue *)
(* implements this; PasteService uses it in place of the channel and its   *)
(* workers.                                                                *)
(***************************************************************************)
CONSTANT Ids

VARIABLE task   \* [Ids -> Statuses]

Statuses == {"none", "rejected", "queued", "deleted", "failed"}

TasksInit == task = [i \in Ids |-> "none"]

Settle(i, from, to) == task[i] = from /\ task' = [task EXCEPT ![i] = to]

Accept(i) == Settle(i, "none", "queued")
Reject(i) == Settle(i, "none", "rejected")
Succeed(i) == Settle(i, "queued", "deleted")
GiveUp(i) == Settle(i, "queued", "failed")

TasksNext == \E i \in Ids : Accept(i) \/ Reject(i) \/ Succeed(i) \/ GiveUp(i)

TasksSpec ==
  /\ TasksInit /\ [][TasksNext]_task
  /\ \A i \in Ids : WF_task(Succeed(i) \/ GiveUp(i))

=============================================================================

------------------------ MODULE DeletionQueue_proofs ------------------------
(***************************************************************************)
(* Proofs about DeletionQueue, for any number of handlers, workers and     *)
(* calls of Shutdown and any capacity: the variables keep their types, the *)
(* mutex keeps every send and close off a closed channel, and a Shutdown   *)
(* that returns nil leaves no accepted deletion untried.                   *)
(***************************************************************************)
EXTENDS DeletionQueue, FiniteSetTheorems, FunctionTheorems, TLAPS

Safety == Init /\ [][Next]_vars

Lockers == Producers \cup Stoppers

-----------------------------------------------------------------------------
(* Types.  A goroutine that deletes or sends has an id in its hands.       *)

ItemOK ==
  /\ \A p \in Producers : pc[p] \in {"locked", "sending"} => item[p] \in Ids
  /\ \A w \in Workers : pc[w] = "delete" => item[w] \in Ids

TypeInv == TypeOK /\ ItemOK

LEMMA TypeInit == Init => TypeInv
<1> SUFFICES ASSUME Init PROVE TypeInv
  OBVIOUS
<1>1. tasks \in Seq(Ids) /\ Len(tasks) <= Capacity
  BY CapacityAssumption DEF Init
<1>2. pc \in [Goroutines -> PCs]
  BY DEF Init, PCs
<1>3. ItemOK
  BY DistinctAssumption DEF Init, ItemOK, Goroutines
<1>4. status \in [Ids -> Statuses]
  BY DEF Init, Statuses
<1>5. QED
  BY <1>1, <1>2, <1>3, <1>4 DEF Init, TypeInv, TypeOK

LEMMA TypeStep == TypeInv /\ [Next]_vars => TypeInv'
<1> SUFFICES ASSUME TypeInv, [Next]_vars PROVE TypeInv'
  OBVIOUS
<1> USE DistinctAssumption, CapacityAssumption
<1>1. ASSUME NEW p \in Producers, NEW i \in Ids, QueueLock(p, i) PROVE TypeInv'
  BY <1>1 DEF TypeInv, TypeOK, ItemOK, Goroutines, PCs, Statuses, QueueLock, Lock, Goto
<1>2. ASSUME NEW p \in Producers, QueueCheck(p) PROVE TypeInv'
  BY <1>2 DEF TypeInv, TypeOK, ItemOK, Goroutines, PCs, Statuses, QueueCheck, Reply, Unlock, Goto
<1>3. ASSUME NEW p \in Producers, QueueSend(p) PROVE TypeInv'
  <2>1. item[p] \in Ids /\ tasks \in Seq(Ids)
    BY <1>3 DEF TypeInv, TypeOK, ItemOK, QueueSend
  <2>2. tasks' \in Seq(Ids) /\ Len(tasks') <= Capacity
    BY <1>3, <2>1 DEF TypeInv, TypeOK, QueueSend
  <2>3. QED
    BY <1>3, <2>1, <2>2
       DEF TypeInv, TypeOK, ItemOK, Goroutines, PCs, Statuses, QueueSend, Reply, Unlock, Goto
<1>4. ASSUME NEW w \in Workers, Receive(w) PROVE TypeInv'
  <2>1. Head(tasks) \in Ids /\ Tail(tasks) \in Seq(Ids) /\ Len(Tail(tasks)) <= Capacity
    BY <1>4 DEF TypeInv, TypeOK, Receive
  <2>2. QED
    BY <1>4, <2>1 DEF TypeInv, TypeOK, ItemOK, Goroutines, PCs, Statuses, Receive, Goto
<1>5. ASSUME NEW w \in Workers, NEW outcome \in {"deleted", "failed"}, Deleted(w, outcome)
      PROVE  TypeInv'
  BY <1>5 DEF TypeInv, TypeOK, ItemOK, Goroutines, PCs, Statuses, Deleted, Goto
<1>6. ASSUME NEW w \in Workers, WorkerExit(w) PROVE TypeInv'
  BY <1>6 DEF TypeInv, TypeOK, ItemOK, Goroutines, PCs, Statuses, WorkerExit, Goto
<1>7. ASSUME NEW s \in Stoppers, Stop(s) PROVE TypeInv'
  <2>1. CASE ShutdownLock(s) \/ ShutdownCheck(s) \/ ShutdownClose(s)
    BY <2>1 DEF TypeInv, TypeOK, ItemOK, Goroutines, PCs, Statuses, Lock, Goto,
                ShutdownLock, ShutdownCheck, ShutdownClose
  <2>2. CASE ShutdownUnlock(s) \/ ShutdownDone(s) \/ ShutdownTimeout(s)
    BY <2>2 DEF TypeInv, TypeOK, ItemOK, Goroutines, PCs, Statuses, Unlock, Goto,
                ShutdownUnlock, ShutdownDone, ShutdownTimeout
  <2>3. QED
    BY <1>7, <2>1, <2>2 DEF Stop
<1>8. CASE UNCHANGED vars
  BY <1>8 DEF TypeInv, TypeOK, ItemOK, vars
<1>9. QED
  BY <1>1, <1>2, <1>3, <1>4, <1>5, <1>6, <1>7, <1>8
     DEF Next, Produce, Work, DeleteOK, DeleteFails

LEMMA TypeInvariant == Safety => []TypeInv
BY TypeInit, TypeStep, PTL DEF Safety

LEMMA SpecSafety == Spec => Safety
BY DEF Spec, Safety

\* The variables of the queue have their types at every step of every goroutine,
\* and the channel never holds more than its capacity (QueueDeletion's select).
THEOREM TypeCorrect == Spec => []TypeOK
<1>1. TypeInv => TypeOK
  BY DEF TypeInv
<1>2. QED
  BY <1>1, TypeInvariant, SpecSafety, PTL

-----------------------------------------------------------------------------
(* The mutex.                                                              *)

Critical == {"locked", "sending", "closing", "unlocking"}

\* The holder of q.mu is the one goroutine between Lock and Unlock, the flag is
\* set before the channel is closed, and whoever sends or closes has seen that
\* the channel was open and is still the only one to change that.
MutexInv ==
  /\ \A g \in Lockers : pc[g] \in Critical <=> mu = g
  /\ \A p \in Producers : pc[p] = "sending" => ~closed
  /\ \A s \in Stoppers : pc[s] = "closing" => closed /\ ~chanClosed
  /\ chanClosed => closed
  /\ ~panicked

LEMMA MutexInit == Init => MutexInv
BY DistinctAssumption DEF Init, MutexInv, Lockers, Critical, Goroutines

LEMMA MutexStep == TypeInv /\ MutexInv /\ [Next]_vars => MutexInv'
<1> SUFFICES ASSUME TypeOK, MutexInv, [Next]_vars PROVE MutexInv'
  BY DEF TypeInv
<1> USE DistinctAssumption DEF Lockers, Critical
<1>1. ASSUME NEW p \in Producers, NEW i \in Ids, QueueLock(p, i) PROVE MutexInv'
  BY <1>1 DEF MutexInv, TypeOK, Goroutines, QueueLock, Lock, Goto
<1>2. ASSUME NEW p \in Producers, QueueCheck(p) PROVE MutexInv'
  BY <1>2 DEF MutexInv, TypeOK, Goroutines, QueueCheck, Reply, Unlock, Goto
<1>3. ASSUME NEW p \in Producers, QueueSend(p) PROVE MutexInv'
  BY <1>3 DEF MutexInv, TypeOK, Goroutines, QueueSend, Reply, Unlock, Goto
<1>4. ASSUME NEW w \in Workers, Receive(w) \/ WorkerExit(w) PROVE MutexInv'
  BY <1>4 DEF MutexInv, TypeOK, Goroutines, Receive, WorkerExit, Goto
<1>5. ASSUME NEW w \in Workers, NEW outcome \in {"deleted", "failed"}, Deleted(w, outcome)
      PROVE  MutexInv'
  BY <1>5 DEF MutexInv, TypeOK, Goroutines, Deleted, Goto
<1>6. ASSUME NEW s \in Stoppers, ShutdownLock(s) PROVE MutexInv'
  BY <1>6 DEF MutexInv, TypeOK, Goroutines, ShutdownLock, Lock, Goto
<1>7. ASSUME NEW s \in Stoppers, ShutdownCheck(s) PROVE MutexInv'
  BY <1>7 DEF MutexInv, TypeOK, Goroutines, ShutdownCheck, Goto
<1>8. ASSUME NEW s \in Stoppers, ShutdownClose(s) PROVE MutexInv'
  <2>1. closed /\ ~panicked' /\ mu = s
    BY <1>8 DEF MutexInv, ShutdownClose
  <2>2. QED
    BY <1>8, <2>1 DEF MutexInv, TypeOK, Goroutines, ShutdownClose, Goto
<1>9. ASSUME NEW s \in Stoppers, ShutdownUnlock(s) PROVE MutexInv'
  BY <1>9 DEF MutexInv, TypeOK, Goroutines, ShutdownUnlock, Unlock, Goto
<1>10. ASSUME NEW s \in Stoppers, ShutdownDone(s) \/ ShutdownTimeout(s) PROVE MutexInv'
  BY <1>10 DEF MutexInv, TypeOK, Goroutines, ShutdownDone, ShutdownTimeout, Goto
<1>11. CASE UNCHANGED vars
  BY <1>11 DEF MutexInv, vars
<1>12. QED
  BY <1>1, <1>2, <1>3, <1>4, <1>5, <1>6, <1>7, <1>8, <1>9, <1>10, <1>11
     DEF Next, Produce, Work, Stop, DeleteOK, DeleteFails

LEMMA MutexInvariant == Safety => []MutexInv
BY MutexInit, MutexStep, TypeInvariant, PTL DEF Safety

\* No handler sends on, and no Shutdown closes, a channel that is closed: the
\* check of q.closed and the send or close it guards are under one mutex.
THEOREM NeverPanics == Spec => []NoPanic
<1>1. MutexInv => NoPanic
  BY DEF MutexInv, NoPanic
<1>2. QED
  BY <1>1, MutexInvariant, SpecSafety, PTL

-----------------------------------------------------------------------------
(* The drain.                                                              *)

\* An accepted id is still in the buffer or in a worker's hands; a worker leaves
\* only an empty buffer that nobody can fill any more; a Shutdown that returned
\* nil has seen all of them leave.
DrainInv ==
  /\ \A i \in Ids : status[i] = "queued" =>
       \/ \E k \in 1..Len(tasks) : tasks[k] = i
       \/ \E w \in Workers : pc[w] = "delete" /\ item[w] = i
  /\ \A w \in Workers : pc[w] = "exited" => chanClosed /\ tasks = <<>>
  /\ \A s \in Stoppers : pc[s] = "ok" => \A w \in Workers : pc[w] = "exited"

LEMMA DrainInit == Init => DrainInv
BY DistinctAssumption DEF Init, DrainInv, Goroutines

LEMMA DrainStep == TypeInv /\ MutexInv /\ DrainInv /\ [Next]_vars => DrainInv'
<1> SUFFICES ASSUME TypeOK, ItemOK, MutexInv, DrainInv, [Next]_vars PROVE DrainInv'
  BY DEF TypeInv
<1> USE DistinctAssumption
<1>1. ASSUME NEW p \in Producers, NEW i \in Ids, QueueLock(p, i) PROVE DrainInv'
  BY <1>1 DEF DrainInv, TypeOK, Goroutines, QueueLock, Goto
<1>2. ASSUME NEW p \in Producers, QueueCheck(p) PROVE DrainInv'
  BY <1>2 DEF DrainInv, TypeOK, Goroutines, Statuses, QueueCheck, Reply, Goto
<1>3. ASSUME NEW p \in Producers, QueueSend(p) PROVE DrainInv'
  <2>1. ~chanClosed
    BY <1>3 DEF MutexInv, QueueSend
  <2>2. \A w \in Workers : pc'[w] = pc[w] /\ item'[w] = item[w] /\ pc[w] # "exited"
    BY <1>3, <2>1 DEF DrainInv, TypeOK, Goroutines, QueueSend, Reply, Goto
  <2>3. \A s \in Stoppers : pc'[s] = pc[s]
    BY <1>3 DEF TypeOK, Goroutines, QueueSend, Reply, Goto
  <2>4. ASSUME NEW i \in Ids, status'[i] = "queued", i # item[p]
        PROVE  \/ \E k \in 1..Len(tasks') : tasks'[k] = i
               \/ \E w \in Workers : pc'[w] = "delete" /\ item'[w] = i
    <3>1. status[i] = "queued"
      BY <1>3, <2>4 DEF TypeOK, QueueSend, Reply
    <3>2. CASE \E w \in Workers : pc[w] = "delete" /\ item[w] = i
      BY <3>2, <2>2
    <3>3. CASE \E k \in 1..Len(tasks) : tasks[k] = i
      <4>1. PICK k \in 1..Len(tasks) : tasks[k] = i
        BY <3>3
      <4>2. tasks' = tasks \/ tasks' = Append(tasks, item[p])
        BY <1>3 DEF QueueSend
      <4>3. k \in 1..Len(tasks') /\ tasks'[k] = i
        BY <4>1, <4>2, <1>3 DEF TypeOK, ItemOK, QueueSend
      <4>4. QED
        BY <4>3
    <3>4. QED
      BY <3>1, <3>2, <3>3 DEF DrainInv
  <2>5. ASSUME status'[item[p]] = "queued"
        PROVE  \E k \in 1..Len(tasks') : tasks'[k] = item[p]
    <3>1. item[p] \in Ids
      BY <1>3 DEF ItemOK, QueueSend
    <3>2. Len(tasks) < Capacity /\ tasks' = Append(tasks, item[p])
      BY <1>3, <2>5, <3>1 DEF TypeOK, QueueSend, Reply
    <3>3. QED
      BY <3>1, <3>2 DEF TypeOK
  <2>6. QED
    BY <2>2, <2>3, <2>4, <2>5 DEF DrainInv
<1>4. ASSUME NEW w \in Workers, Receive(w) PROVE DrainInv'
  <2>1. \A v \in Workers \ {w} : pc'[v] = pc[v] /\ item'[v] = item[v]
    BY <1>4 DEF TypeOK, Goroutines, Receive, Goto
  <2>2. pc'[w] = "delete" /\ item'[w] = Head(tasks)
    BY <1>4 DEF TypeOK, Goroutines, Receive, Goto
  <2>3. ASSUME NEW i \in Ids, status[i] = "queued"
        PROVE  \/ \E k \in 1..Len(tasks') : tasks'[k] = i
               \/ \E v \in Workers : pc'[v] = "delete" /\ item'[v] = i
    <3>1. CASE \E v \in Workers : pc[v] = "delete" /\ item[v] = i
      BY <3>1, <2>1, <1>4 DEF Receive
    <3>2. CASE \E k \in 1..Len(tasks) : tasks[k] = i
      <4>1. PICK k \in 1..Len(tasks) : tasks[k] = i
        BY <3>2
      <4>2. CASE k = 1
        BY <4>1, <4>2, <2>2, <1>4 DEF TypeOK, Receive
      <4>3. CASE k # 1
        <5>1. k - 1 \in 1..Len(tasks') /\ tasks'[k - 1] = i
          BY <4>1, <4>3, <1>4 DEF TypeOK, Receive
        <5>2. QED
          BY <5>1
      <4>4. QED
        BY <4>2, <4>3
    <3>3. QED
      BY <2>3, <3>1, <3>2 DEF DrainInv
  <2>4. \A v \in Workers : pc[v] # "exited"
    BY <1>4 DEF DrainInv, Receive
  <2>5. \A s \in Stoppers : pc'[s] = pc[s]
    BY <1>4 DEF TypeOK, Goroutines, Receive, Goto
  <2>6. QED
    BY <1>4, <2>1, <2>2, <2>3, <2>4, <2>5 DEF DrainInv, Receive
<1>5. ASSUME NEW w \in Workers, NEW outcome \in {"deleted", "failed"}, Deleted(w, outcome)
      PROVE  DrainInv'
  BY <1>5 DEF DrainInv, TypeOK, ItemOK, Goroutines, Statuses, Deleted, Goto
<1>6. ASSUME NEW w \in Workers, WorkerExit(w) PROVE DrainInv'
  BY <1>6 DEF DrainInv, TypeOK, Goroutines, WorkerExit, Goto
<1>7. ASSUME NEW s \in Stoppers, ShutdownLock(s) \/ ShutdownCheck(s) \/ ShutdownClose(s)
      PROVE  DrainInv'
  BY <1>7 DEF DrainInv, TypeOK, Goroutines, Goto, ShutdownLock, ShutdownCheck, ShutdownClose
<1>8. ASSUME NEW s \in Stoppers, ShutdownUnlock(s) \/ ShutdownDone(s) \/ ShutdownTimeout(s)
      PROVE  DrainInv'
  BY <1>8 DEF DrainInv, TypeOK, Goroutines, Goto, ShutdownUnlock, ShutdownDone, ShutdownTimeout
<1>9. CASE UNCHANGED vars
  BY <1>9 DEF DrainInv, vars
<1>10. QED
  BY <1>1, <1>2, <1>3, <1>4, <1>5, <1>6, <1>7, <1>8, <1>9
     DEF Next, Produce, Work, Stop, DeleteOK, DeleteFails

LEMMA DrainInvariant == Safety => []DrainInv
BY DrainInit, DrainStep, TypeInvariant, MutexInvariant, PTL DEF Safety

LEMMA DrainIsGraceful == DrainInv => GracefulDrain
<1> SUFFICES ASSUME DrainInv, NEW s \in Stoppers, pc[s] = "ok"
             PROVE  Pending = {} /\ \A w \in Workers : pc[w] = "exited"
  BY DEF GracefulDrain
<1>1. \A w \in Workers : pc[w] = "exited"
  BY DEF DrainInv
<1>2. tasks = <<>>
  BY <1>1, WorkersAssumption DEF DrainInv
<1>3. Pending = {}
  BY <1>1, <1>2 DEF DrainInv, Pending
<1>4. QED
  BY <1>1, <1>3

\* When Shutdown returns nil, every deletion a handler was promised has been tried
\* and no worker runs: the caller may close the storage.
THEOREM DrainedGracefully == Spec => []GracefulDrain
BY DrainIsGraceful, DrainInvariant, SpecSafety, PTL

-----------------------------------------------------------------------------
(* Once.                                                                   *)

\* A handler in QueueDeletion has an id that is not settled; what is in the buffer
\* is accepted and there once; what a worker deletes is accepted, no longer in the
\* buffer, and in no other worker's hands.
OnceInv ==
  /\ \A p \in Producers : pc[p] \in {"locked", "sending"} => status[item[p]] = "none"
  /\ \A k \in 1..Len(tasks) : status[tasks[k]] = "queued"
  /\ \A j, k \in 1..Len(tasks) : tasks[j] = tasks[k] => j = k
  /\ \A w \in Workers : pc[w] = "delete" =>
       /\ status[item[w]] = "queued"
       /\ \A k \in 1..Len(tasks) : tasks[k] # item[w]
  /\ \A v, w \in Workers : pc[v] = "delete" /\ pc[w] = "delete" /\ item[v] = item[w] => v = w

LEMMA OnceInit == Init => OnceInv
BY DistinctAssumption DEF Init, OnceInv, Goroutines

LEMMA OnceStep == TypeInv /\ MutexInv /\ OnceInv /\ [Next]_vars => OnceInv'
<1> SUFFICES ASSUME TypeOK, ItemOK, MutexInv, OnceInv, [Next]_vars PROVE OnceInv'
  BY DEF TypeInv
<1> USE DistinctAssumption
<1>1. ASSUME NEW p \in Producers, NEW i \in Ids, QueueLock(p, i) PROVE OnceInv'
  BY <1>1 DEF OnceInv, TypeOK, ItemOK, Goroutines, QueueLock, Goto
<1>2. ASSUME NEW p \in Producers, Reply(p, "rejected"), UNCHANGED tasks,
             pc[p] \in {"locked", "sending"}
      PROVE  OnceInv'
  <2>1. \A q \in Producers \ {p} : pc[q] \notin {"locked", "sending"} /\ pc'[q] = pc[q]
    BY <1>2 DEF MutexInv, Lockers, Critical, TypeOK, Goroutines, Reply, Goto
  <2>2. \A w \in Workers : pc'[w] = pc[w] /\ item'[w] = item[w]
    BY <1>2 DEF TypeOK, Goroutines, Reply, Goto
  <2>3. item[p] \in Ids /\ status[item[p]] = "none" /\ pc'[p] = "idle"
    BY <1>2 DEF ItemOK, OnceInv, TypeOK, Goroutines, Reply, Goto
  <2>4. \A i \in Ids : status[i] = "queued" => status'[i] = "queued"
    BY <1>2, <2>3 DEF TypeOK, Reply
  <2>5. \A k \in 1..Len(tasks) : tasks[k] \in Ids
    BY DEF TypeOK
  <2>6. QED
    BY <1>2, <2>1, <2>2, <2>3, <2>4, <2>5 DEF OnceInv, ItemOK
<1>3. ASSUME NEW p \in Producers, QueueCheck(p) PROVE OnceInv'
  <2>1. CASE closed
    BY <1>3, <2>1, <1>2 DEF QueueCheck
  <2>2. CASE ~closed
    BY <1>3, <2>2 DEF OnceInv, TypeOK, Goroutines, QueueCheck, Goto
  <2>3. QED
    BY <2>1, <2>2
<1>4. ASSUME NEW p \in Producers, QueueSend(p) PROVE OnceInv'
  <2>1. CASE Len(tasks) < Capacity
    <3>1. item[p] \in Ids /\ status[item[p]] = "none"
      BY <1>4 DEF ItemOK, OnceInv, QueueSend
    <3>2. tasks' = Append(tasks, item[p]) /\ Reply(p, "queued")
      BY <1>4, <2>1 DEF QueueSend
    <3>3. /\ Len(tasks') = Len(tasks) + 1 /\ Len(tasks) \in Nat
          /\ \A k \in 1..Len(tasks) : tasks'[k] = tasks[k] /\ tasks[k] \in Ids
          /\ tasks'[Len(tasks) + 1] = item[p]
      BY <3>1, <3>2 DEF TypeOK
    <3>4. \A i \in Ids : status'[i] = IF i = item[p] THEN "queued" ELSE status[i]
      BY <3>1, <3>2 DEF TypeOK, Reply
    <3>5. \A k \in 1..Len(tasks) : tasks[k] # item[p]
      BY <3>1 DEF OnceInv
    <3>6. \A w \in Workers : pc'[w] = pc[w] /\ item'[w] = item[w]
      BY <3>2 DEF TypeOK, Goroutines, Reply, Goto
    <3>7. \A q \in Producers : pc'[q] \notin {"locked", "sending"}
      BY <1>4, <3>2 DEF MutexInv, Lockers, Critical, TypeOK, Goroutines, QueueSend, Reply, Goto
    <3>8. \A w \in Workers : pc[w] = "delete" => item[w] \in Ids /\ item[w] # item[p]
      BY <3>1 DEF ItemOK, OnceInv
    <3>9. \A k \in 1..Len(tasks') : k \in 1..Len(tasks) \/ k = Len(tasks) + 1
      BY <3>3
    <3>10. \A k \in 1..Len(tasks') : status'[tasks'[k]] = "queued"
      BY <3>1, <3>3, <3>4, <3>9 DEF OnceInv
    <3>11. \A j, k \in 1..Len(tasks') : tasks'[j] = tasks'[k] => j = k
      BY <3>3, <3>5, <3>9 DEF OnceInv
    <3>12. \A w \in Workers : pc'[w] = "delete" =>
              /\ status'[item'[w]] = "queued"
              /\ \A k \in 1..Len(tasks') : tasks'[k] # item'[w]
      BY <3>3, <3>4, <3>6, <3>8, <3>9 DEF OnceInv
    <3>13. QED
      BY <3>6, <3>7, <3>10, <3>11, <3>12 DEF OnceInv
  <2>2. CASE ~(Len(tasks) < Capacity)
    BY <1>4, <2>2, <1>2 DEF QueueSend
  <2>3. QED
    BY <2>1, <2>2
<1>5. ASSUME NEW w \in Workers, Receive(w) PROVE OnceInv'
  <2>1. /\ item'[w] = tasks[1] /\ pc'[w] = "delete" /\ status' = status
        /\ \A v \in Goroutines \ {w} : pc'[v] = pc[v] /\ item'[v] = item[v]
    BY <1>5 DEF TypeOK, Goroutines, Receive, Goto
  <2>2. /\ Len(tasks) \in Nat /\ Len(tasks') = Len(tasks) - 1 /\ 1 \in 1..Len(tasks)
        /\ \A k \in 1..Len(tasks') : tasks'[k] = tasks[k + 1] /\ k + 1 \in 1..Len(tasks)
    BY <1>5 DEF TypeOK, Receive
  <2>3. \A k \in 1..Len(tasks') : tasks'[k] # tasks[1] /\ status[tasks'[k]] = "queued"
    BY <2>2 DEF OnceInv
  <2>4. \A j, k \in 1..Len(tasks') : tasks'[j] = tasks'[k] => j = k
    BY <2>2 DEF OnceInv
  <2>5. \A v \in Workers : pc[v] = "delete" =>
          item[v] # tasks[1] /\ \A k \in 1..Len(tasks') : tasks'[k] # item[v]
    BY <2>2 DEF OnceInv
  <2>6. \A p \in Producers : p \in Goroutines \ {w}
    BY DEF Goroutines
  <2>7. status[tasks[1]] = "queued"
    BY <2>2 DEF OnceInv
  <2>8. \A v \in Workers \ {w} : v \in Goroutines \ {w}
    BY DEF Goroutines
  <2>9. QED
    BY <2>1, <2>3, <2>4, <2>5, <2>6, <2>7, <2>8 DEF OnceInv
<1>6. ASSUME NEW w \in Workers, NEW outcome \in {"deleted", "failed"}, Deleted(w, outcome)
      PROVE  OnceInv'
  <2>1. /\ item[w] \in Ids /\ status[item[w]] = "queued" /\ pc'[w] = "receive"
        /\ \A i \in Ids \ {item[w]} : status'[i] = status[i]
        /\ \A v \in Goroutines \ {w} : pc'[v] = pc[v] /\ item'[v] = item[v]
    BY <1>6 DEF TypeOK, ItemOK, OnceInv, Goroutines, Deleted, Goto
  <2>2. tasks' = tasks /\ \A k \in 1..Len(tasks) : tasks[k] \in Ids \ {item[w]}
    BY <1>6 DEF TypeOK, OnceInv, Deleted
  <2>3. \A p \in Producers : pc[p] \in {"locked", "sending"} => item[p] \in Ids \ {item[w]}
    BY <2>1 DEF ItemOK, OnceInv
  <2>4. \A v \in Workers \ {w} : pc[v] = "delete" => item[v] \in Ids \ {item[w]}
    BY <1>6 DEF ItemOK, OnceInv, Deleted
  <2>5. \A p \in Producers : p \in Goroutines \ {w}
    BY DEF Goroutines
  <2>6. \A v \in Workers \ {w} : v \in Goroutines \ {w}
    BY DEF Goroutines
  <2>7. QED
    BY <2>1, <2>2, <2>3, <2>4, <2>5, <2>6 DEF OnceInv
<1>7. ASSUME NEW w \in Workers, WorkerExit(w) PROVE OnceInv'
  BY <1>7 DEF OnceInv, TypeOK, Goroutines, WorkerExit, Goto
<1>8. ASSUME NEW s \in Stoppers, Stop(s) PROVE OnceInv'
  <2>1. /\ UNCHANGED <<tasks, item, status>>
        /\ \A g \in Producers \cup Workers : pc'[g] = pc[g]
    BY <1>8 DEF TypeOK, Goroutines, Goto, Stop, ShutdownLock, ShutdownCheck, ShutdownClose,
                ShutdownUnlock, ShutdownDone, ShutdownTimeout
  <2>2. QED
    BY <2>1 DEF OnceInv
<1>9. CASE UNCHANGED vars
  BY <1>9 DEF OnceInv, vars
<1>10. QED
  BY <1>1, <1>3, <1>4, <1>5, <1>6, <1>7, <1>8, <1>9
     DEF Next, Produce, Work, DeleteOK, DeleteFails

LEMMA OnceInvariant == Safety => []OnceInv
BY OnceInit, OnceStep, TypeInvariant, MutexInvariant, PTL DEF Safety

\* A sequence without repetitions has as many elements as it is long.
LEMMA DistinctCounted ==
  ASSUME NEW S, NEW seq \in Seq(S),
         \A j, k \in 1..Len(seq) : seq[j] = seq[k] => j = k
  PROVE  Cardinality({seq[k] : k \in 1..Len(seq)}) = Len(seq)
<1> DEFINE T == {seq[k] : k \in 1..Len(seq)}
           f == [k \in 1..Len(seq) |-> seq[k]]
<1>1. Len(seq) \in Nat
  OBVIOUS
<1>2. f \in [1..Len(seq) -> T] /\ \A j, k \in 1..Len(seq) : f[j] = f[k] => j = k
  OBVIOUS
<1>3. \A t \in T : \E k \in 1..Len(seq) : f[k] = t
  OBVIOUS
<1>4. f \in Bijection(1..Len(seq), T)
  BY <1>2, <1>3, Fun_IsBij
<1>5. ExistsBijection(1..Len(seq), T)
  BY <1>4, Fun_ExistsBij
<1>6. QED
  BY <1>1, <1>5, FS_CountingElements

LEMMA OnceIsExact == TypeInv /\ DrainInv /\ OnceInv => ExactlyOnce
<1> SUFFICES ASSUME TypeOK, ItemOK, DrainInv, OnceInv PROVE ExactlyOnce
  BY DEF TypeInv
<1>1. tasks \in Seq(Ids) /\ \A k \in 1..Len(tasks) : tasks[k] \in Ids
  BY DEF TypeOK
<1>2. Pending = InBuffer \cup InHand
  BY <1>1 DEF ItemOK, DrainInv, OnceInv, Pending, InBuffer, InHand
<1>3. InBuffer \cap InHand = {}
  BY DEF OnceInv, InBuffer, InHand
<1>4. Cardinality(InBuffer) = Len(tasks)
  BY <1>1, DistinctCounted DEF OnceInv, InBuffer
<1>5. QED
  BY <1>2, <1>3, <1>4 DEF OnceInv, ExactlyOnce

\* An accepted deletion is in one place until it has been tried: once in the
\* channel, or in one worker's hands (QueueDeletion's select, worker's receive).
THEOREM AcceptedOnce == Spec => []ExactlyOnce
BY OnceIsExact, TypeInvariant, DrainInvariant, OnceInvariant, SpecSafety, PTL

-----------------------------------------------------------------------------
(* The timeout.                                                            *)

\* The context is cancelled by a Shutdown that returned, and by one that returned
\* nil only when no worker is left that could start a deletion with it.
DoomInv ==
  /\ cancelled => \E s \in Stoppers : pc[s] \in {"ok", "timeout"}
  /\ doomed # {} => \E s \in Stoppers : pc[s] = "timeout"

LEMMA DoomInit == Init => DoomInv
BY DEF Init, DoomInv

LEMMA DoomStep == TypeInv /\ DrainInv /\ DoomInv /\ [Next]_vars => DoomInv'
<1> SUFFICES ASSUME TypeOK, DrainInv, DoomInv, [Next]_vars PROVE DoomInv'
  BY DEF TypeInv
<1> USE DistinctAssumption
<1>1. ASSUME NEW p \in Producers, Produce(p) PROVE DoomInv'
  <2>1. UNCHANGED <<cancelled, doomed>> /\ \A s \in Stoppers : pc'[s] = pc[s]
    BY <1>1 DEF TypeOK, Goroutines, Goto, Reply, Produce, QueueLock, QueueCheck, QueueSend
  <2>2. QED
    BY <2>1 DEF DoomInv
<1>2. ASSUME NEW w \in Workers, Receive(w) PROVE DoomInv'
  <2>1. cancelled' = cancelled /\ \A s \in Stoppers : pc'[s] = pc[s]
    BY <1>2 DEF TypeOK, Goroutines, Goto, Receive
  <2>2. \A s \in Stoppers : pc[s] # "ok"
    BY <1>2 DEF DrainInv, Receive
  <2>3. QED
    BY <1>2, <2>1, <2>2 DEF DoomInv, Receive
<1>3. ASSUME NEW w \in Workers, DeleteOK(w) \/ DeleteFails(w) \/ WorkerExit(w) PROVE DoomInv'
  <2>1. /\ cancelled' = cancelled /\ doomed' \subseteq doomed
        /\ \A s \in Stoppers : pc'[s] = pc[s]
    BY <1>3 DEF TypeOK, Goroutines, Goto, DeleteOK, DeleteFails, Deleted, WorkerExit
  <2>2. QED
    BY <2>1 DEF DoomInv
<1>4. ASSUME NEW s \in Stoppers,
             ShutdownLock(s) \/ ShutdownCheck(s) \/ ShutdownClose(s) \/ ShutdownUnlock(s)
      PROVE  DoomInv'
  <2>1. /\ UNCHANGED <<cancelled, doomed>> /\ pc[s] \notin {"ok", "timeout"}
        /\ \A r \in Stoppers \ {s} : pc'[r] = pc[r]
    BY <1>4 DEF TypeOK, Goroutines, Goto, ShutdownLock, ShutdownCheck, ShutdownClose, ShutdownUnlock
  <2>2. QED
    BY <2>1 DEF DoomInv
<1>5. ASSUME NEW s \in Stoppers, ShutdownDone(s) \/ ShutdownTimeout(s) PROVE DoomInv'
  <2>1. /\ doomed' = doomed /\ pc[s] = "waiting" /\ pc'[s] \in {"ok", "timeout"}
        /\ \A r \in Stoppers \ {s} : pc'[r] = pc[r]
    BY <1>5 DEF TypeOK, Goroutines, Goto, ShutdownDone, ShutdownTimeout
  <2>2. QED
    BY <2>1 DEF DoomInv
<1>6. CASE UNCHANGED vars
  BY <1>6 DEF DoomInv, vars
<1>7. QED
  BY <1>1, <1>2, <1>3, <1>4, <1>5, <1>6 DEF Next, Work, Stop

\* A deletion is started with a cancelled context only when a Shutdown ran out of
\* time (Shutdown cancels after its select, in both of its cases).
THEOREM OnlyTimeoutDooms == Spec => []DoomedByTimeout
<1>1. DoomInv => DoomedByTimeout
  BY DEF DoomInv, DoomedByTimeout
<1>2. Safety => []DoomInv
  BY DoomInit, DoomStep, TypeInvariant, DrainInvariant, PTL DEF Safety
<1>3. QED
  BY <1>1, <1>2, SpecSafety, PTL

-----------------------------------------------------------------------------
(* The refinement.                                                         *)

LEMMA TasksStep == TypeInv /\ OnceInv /\ [Next]_vars => [DT!TasksNext]_status
<1> SUFFICES ASSUME TypeOK, ItemOK, OnceInv, [Next]_vars PROVE [DT!TasksNext]_status
  BY DEF TypeInv
<1> USE DEF DT!TasksNext, DT!Settle, DT!Accept, DT!Reject, DT!Succeed, DT!GiveUp
<1>1. ASSUME NEW p \in Producers, QueueCheck(p) \/ QueueSend(p) PROVE [DT!TasksNext]_status
  <2>1. item[p] \in Ids /\ status[item[p]] = "none"
    BY <1>1 DEF ItemOK, OnceInv, QueueCheck, QueueSend
  <2>2. CASE UNCHANGED status
    BY <2>2
  <2>3. CASE Reply(p, "rejected")
    BY <2>1, <2>3 DEF Reply
  <2>4. CASE Reply(p, "queued")
    BY <2>1, <2>4 DEF Reply
  <2>5. QED
    BY <1>1, <2>2, <2>3, <2>4 DEF QueueCheck, QueueSend
<1>2. ASSUME NEW w \in Workers, NEW outcome \in {"deleted", "failed"}, Deleted(w, outcome)
      PROVE  [DT!TasksNext]_status
  <2>1. item[w] \in Ids /\ status[item[w]] = "queued"
    BY <1>2 DEF ItemOK, OnceInv, Deleted
  <2>2. QED
    BY <1>2, <2>1 DEF Deleted
<1>3. CASE UNCHANGED status
  BY <1>3
<1>4. ASSUME NEW p \in Producers, NEW i \in Ids, QueueLock(p, i) PROVE UNCHANGED status
  BY <1>4 DEF QueueLock
<1>5. ASSUME NEW w \in Workers, Receive(w) \/ WorkerExit(w) PROVE UNCHANGED status
  BY <1>5 DEF Receive, WorkerExit
<1>6. ASSUME NEW s \in Stoppers, Stop(s) PROVE UNCHANGED status
  BY <1>6 DEF Stop, ShutdownLock, ShutdownCheck, ShutdownClose, ShutdownUnlock, ShutdownDone,
              ShutdownTimeout
<1>7. CASE UNCHANGED vars
  BY <1>7 DEF vars
<1>8. QED
  BY <1>1, <1>2, <1>3, <1>4, <1>5, <1>6, <1>7
     DEF Next, Produce, Work, DeleteOK, DeleteFails

\* The channel, its workers and Shutdown keep the promise of DeletionTasks at every
\* step: an id is accepted or refused once, tried once after that, and never
\* reopened.  (That what is accepted is tried in the end is the run's.)
THEOREM ImplementsSafely == Spec => DT!TasksInit /\ [][DT!TasksNext]_status
<1>1. Init => DT!TasksInit
  BY DEF Init, DT!TasksInit
<1>2. Safety => DT!TasksInit /\ [][DT!TasksNext]_status
  BY <1>1, TasksStep, TypeInvariant, OnceInvariant, PTL DEF Safety
<1>3. QED
  BY <1>2, SpecSafety, PTL

=============================================================================

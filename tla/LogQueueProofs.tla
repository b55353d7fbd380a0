---------------------------- MODULE LogQueueProofs ----------------------------
(***************************************************************************)
(* Proofs about the ingestion queue, for every set of requests, tenants,   *)
(* batches and workers and every bound on tickets and restarts.            *)
(***************************************************************************)
EXTENDS LogQueueProperties, TLAPS

-------------------------------------------------------------------------------
(* Type correctness. *)

(* The rows a set of committing transactions leaves behind are well typed. *)
LEMMA PublishTyped ==
    ASSUME TypeOK, NEW S \in SUBSET Workers, Publish(S)
    PROVE  /\ logRecords' \in [Tickets -> Requests \union {NoRequest}]
           /\ flagged' \subseteq Tickets
           /\ explainability' \subseteq Tickets
           /\ deleted' = deleted
  BY DEF TypeOK, Publish, Items

LEMMA OneLessTyped == ASSUME NEW k \in Nat PROVE OneLess(k) \in Nat
  BY DEF OneLess

LEMMA CountersTyped ==
    ASSUME NEW m \in Counters, NEW a \in Nat, NEW b \in Nat, NEW c \in Nat
    PROVE  /\ [m EXCEPT !.processing = a, !.completed = b, !.failed = c] \in Counters
           /\ [m EXCEPT !.processing = a, !.failed = c] \in Counters
           /\ [m EXCEPT !.processing = a] \in Counters
           /\ m.processing \in Nat /\ m.completed \in Nat /\ m.failed \in Nat
  BY DEF Counters

LEMMA InitTyped == Init => TypeOK
  <1> SUFFICES ASSUME Init PROVE TypeOK
    OBVIOUS
  <1>1. NoItem \in Items /\ OffWorker \in WorkerStates /\ NoMetrics \in Counters /\ "new" \in Calls
    BY DEF NoItem, Items, Statuses, OffWorker, WorkerStates, Steps, NoMetrics, Counters, Calls
  <1>2. life \in 0..MaxLives /\ nextNumber \in Nat /\ queue \in Seq(Tickets)
    BY ConstantsAssumption DEF Init
  <1> QED
    BY <1>1, <1>2 DEF Init, TypeOK

LEMMA LifespanTyped ==
    ASSUME TypeOK, Startup \/ Stop \/ StopDone \/ ProcessDies
    PROVE  TypeOK'
  <1>1. CASE Startup
    <2>1. IdleWorker \in WorkerStates
      BY DEF IdleWorker, WorkerStates, Steps
    <2> QED
      BY <1>1, <2>1, ConstantsAssumption DEF TypeOK, Startup, dbVars, clientVars
  <1>2. CASE Stop
    BY <1>2 DEF TypeOK, Stop, memoryVars, dbVars, clientVars
  <1>3. CASE StopDone
    BY <1>3 DEF TypeOK, StopDone, memoryVars, dbVars, clientVars
  <1>4. CASE ProcessDies
    <2>1. PICK S \in SUBSET {w \in Workers : worker[w].pc = "commit"} : Publish(S)
      BY <1>4 DEF ProcessDies
    <2>2. NoItem \in Items /\ OffWorker \in WorkerStates /\ NoMetrics \in Counters
      BY DEF NoItem, Items, Statuses, OffWorker, WorkerStates, Steps, NoMetrics, Counters
    <2>3. call' \in [Requests -> Calls]
      BY <1>4 DEF ProcessDies, TypeOK, Calls
    <2>4. nextNumber' \in Nat /\ queue' \in Seq(Tickets)
      BY <1>4 DEF ProcessDies
    <2>5. /\ logRecords' \in [Tickets -> Requests \union {NoRequest}]
          /\ flagged' \subseteq Tickets
          /\ explainability' \subseteq Tickets
          /\ deleted' = deleted
      BY <2>1, PublishTyped
    <2>6. phase' = "down" /\ synced' = FALSE /\ UNCHANGED <<life, ticketOf>>
      BY <1>4 DEF ProcessDies
    <2>7. items' \in [Tickets -> Items] /\ worker' \in [Workers -> WorkerStates] /\ metrics' \in Counters
      BY <1>4, <2>2 DEF ProcessDies
    <2> QED
      BY <2>3, <2>4, <2>5, <2>6, <2>7 DEF TypeOK
  <1> QED
    BY <1>1, <1>2, <1>3, <1>4

LEMMA ClientTyped ==
    ASSUME TypeOK, NEW r \in Requests,
           EnqueueAndWait(r) \/ EnqueueAsync(r) \/ WaitReturns(r) \/ WaitTimeout(r)
    PROVE  TypeOK'
  <1>1. ASSUME NEW reply \in {"waiting", "ticket"}, Enqueue(r, reply)
        PROVE  TypeOK'
    <2>1. [request |-> r, status |-> "QUEUED", event |-> FALSE] \in Items
      BY DEF Items, Statuses
    <2>2. metrics' \in Counters
      BY <1>1 DEF Enqueue, TypeOK, Counters
    <2>3. reply \in Calls
      BY DEF Calls
    <2> QED
      BY <1>1, <2>1, <2>2, <2>3 DEF TypeOK, Enqueue, dbVars
  <1>2. {"ok", "failed", "timeout"} \subseteq Calls
    BY DEF Calls, Answered
  <1>3. CASE WaitReturns(r)
    BY <1>2, <1>3 DEF TypeOK, WaitReturns, memoryVars, dbVars
  <1>4. CASE WaitTimeout(r)
    BY <1>2, <1>4 DEF TypeOK, WaitTimeout, memoryVars, dbVars
  <1> QED
    BY <1>1, <1>3, <1>4 DEF EnqueueAndWait, EnqueueAsync

LEMMA WorkerTyped ==
    ASSUME TypeOK, NEW w \in Workers, WorkerStep(w) \/ CancelWorker(w)
    PROVE  TypeOK'
  <1> DEFINE WorkerOK == worker' \in [Workers -> WorkerStates]
  <1>1. ASSUME NEW from, NEW to \in Steps, Goto(w, from, to) PROVE WorkerOK
    BY <1>1 DEF Goto, TypeOK, WorkerStates
  <1>2. ASSUME NEW n \in Tickets, NEW status \in Statuses
        PROVE  Ended(items[n], status) \in Items
    BY DEF Ended, TypeOK, Items
  <1>0. metrics \in Counters /\ metrics.processing \in Nat
        /\ metrics.completed \in Nat /\ metrics.failed \in Nat
    BY CountersTyped DEF TypeOK
  <1>3. CASE Dequeue(w)
    <2>1. Head(queue) \in Tickets /\ Tail(queue) \in Seq(Tickets)
      BY <1>3 DEF Dequeue, TypeOK
    <2>2. items' \in [Tickets -> Items]
      BY <1>3, <2>1 DEF Dequeue, TypeOK, Items, Statuses
    <2>3. metrics' \in Counters
      <3>1. metrics' = [metrics EXCEPT !.processing = metrics.processing + 1]
        BY <1>3 DEF Dequeue
      <3>2. metrics.processing + 1 \in Nat
        BY <1>0
      <3> QED
        BY <1>0, <3>1, <3>2, CountersTyped, Zenon
    <2>4. WorkerOK
      BY <1>3, <2>1 DEF Dequeue, TypeOK, WorkerStates, Steps
    <2> QED
      BY <1>3, <2>1, <2>2, <2>3, <2>4 DEF TypeOK, Dequeue, dbVars, clientVars
  <1>4. CASE DequeueInvalid(w)
    <2>1. Head(queue) \in Tickets /\ Tail(queue) \in Seq(Tickets)
      BY <1>4 DEF DequeueInvalid, TypeOK
    <2>2. items' \in [Tickets -> Items]
      BY <1>2, <1>4, <2>1 DEF DequeueInvalid, TypeOK, Statuses
    <2>3. metrics' \in Counters
      <3>1. metrics' = [metrics EXCEPT !.processing = OneLess(metrics.processing + 1),
                                       !.failed = metrics.failed + 1]
        BY <1>4 DEF DequeueInvalid
      <3>2. OneLess(metrics.processing + 1) \in Nat /\ metrics.failed + 1 \in Nat
        BY <1>0, OneLessTyped
      <3> QED
        BY <1>0, <3>1, <3>2, CountersTyped, Zenon
    <2> QED
      BY <1>4, <2>1, <2>2, <2>3 DEF TypeOK, DequeueInvalid, dbVars, clientVars
  <1>5. CASE InsertRecord(w)
    <2>1. WorkerOK
      BY <1>1, <1>5 DEF InsertRecord, Steps
    <2> QED
      BY <1>5, <2>1 DEF TypeOK, InsertRecord, dbVars, clientVars
  <1>6. CASE ExplainRecord(w)
    <2>1. WorkerOK
      BY <1>6 DEF ExplainRecord, TypeOK, WorkerStates, Steps
    <2> QED
      BY <1>6, <2>1 DEF TypeOK, ExplainRecord, dbVars, clientVars
  <1>7. CASE StatementFails(w)
    <2>1. WorkerOK
      BY <1>1, <1>7 DEF StatementFails, Steps
    <2> QED
      BY <1>7, <2>1 DEF TypeOK, StatementFails, dbVars, clientVars
  <1>8. CASE Commit(w)
    <2>1. WorkerOK
      BY <1>1, <1>8 DEF Commit, Steps
    <2> QED
      BY <1>8, <2>1, PublishTyped DEF TypeOK, Commit, clientVars
  <1>9. CASE CommitFails(w)
    <2>1. WorkerOK
      BY <1>1, <1>9 DEF CommitFails, Steps
    <2> QED
      BY <1>9, <2>1, PublishTyped DEF TypeOK, CommitFails, dbVars, clientVars
  <1>10. ASSUME NEW pc, NEW status \in Statuses, Finish(w, pc, status) PROVE TypeOK'
    <2>1. WorkerOK
      BY <1>10 DEF Finish, TypeOK, IdleWorker, WorkerStates, Steps
    <2>2. items' \in [Tickets -> Items]
      BY <1>2, <1>10 DEF Finish, TypeOK
    <2>3. metrics' \in Counters
      <3> DEFINE completed == IF status = "COMPLETED" THEN metrics.completed + 1 ELSE metrics.completed
                 failed == IF status = "FAILED" THEN metrics.failed + 1 ELSE metrics.failed
      <3>1. metrics' = [metrics EXCEPT !.processing = OneLess(metrics.processing),
                                       !.completed = completed, !.failed = failed]
        BY <1>10 DEF Finish
      <3>2. OneLess(metrics.processing) \in Nat /\ completed \in Nat /\ failed \in Nat
        BY <1>0, OneLessTyped
      <3> HIDE DEF completed, failed
      <3> QED
        BY <1>0, <3>1, <3>2, CountersTyped, Zenon
    <2> QED
      BY <1>10, <2>1, <2>2, <2>3 DEF TypeOK, Finish, dbVars, clientVars
  <1>11. CASE CancelWorker(w)
    <2>1. WorkerOK
      BY <1>11 DEF CancelWorker, TypeOK, OffWorker, WorkerStates, Steps
    <2>2. items' \in [Tickets -> Items]
      <3>1. ASSUME NEW n \in Tickets PROVE [items[n] EXCEPT !.event = TRUE] \in Items
        BY DEF TypeOK, Items
      <3> QED
        BY <1>11, <3>1 DEF CancelWorker, TypeOK
    <2>3. metrics' \in Counters
      BY <1>0, <1>11, OneLessTyped, CountersTyped DEF CancelWorker
    <2> QED
      BY <1>11, <2>1, <2>2, <2>3, PublishTyped DEF TypeOK, CancelWorker, dbVars, clientVars
  <1>12. {"COMPLETED", "FAILED"} \subseteq Statuses
    BY DEF Statuses
  <1> QED
    BY <1>3, <1>4, <1>5, <1>6, <1>7, <1>8, <1>9, <1>10, <1>11, <1>12
    DEF WorkerStep, Complete, Fail

LEMMA DeleteTyped == ASSUME TypeOK, NEW o \in Leaving, DeleteTenant(o) PROVE TypeOK'
  BY DEF TypeOK, DeleteTenant, memoryVars, clientVars

LEMMA StepTyped == TypeOK /\ [Next]_vars => TypeOK'
  <1> SUFFICES ASSUME TypeOK, [Next]_vars PROVE TypeOK'
    OBVIOUS
  <1>1. CASE UNCHANGED vars
    BY <1>1 DEF TypeOK, vars, memoryVars, dbVars, clientVars
  <1> QED
    BY <1>1, LifespanTyped, ClientTyped, WorkerTyped, DeleteTyped DEF Next

(* Every reachable state is well typed.                                    *)
THEOREM TypeCorrect == Spec => []TypeOK
  BY InitTyped, StepTyped, PTL DEF Spec

-------------------------------------------------------------------------------
(* The inductive invariant.  The first lemmas say what the building blocks *)
(* of the actions do to each component they touch.                         *)

LEMMA GotoEffect ==
    ASSUME TypeOK, NEW w \in Workers, NEW from, NEW to, Goto(w, from, to)
    PROVE  /\ worker[w].pc = from
           /\ \A v \in Workers :
                /\ worker'[v].pc = IF v = w THEN to ELSE worker[v].pc
                /\ worker'[v].item = worker[v].item
                /\ worker'[v].explain = worker[v].explain
                /\ worker'[v].explained = worker[v].explained
  BY DEF TypeOK, WorkerStates, Goto

(* Unless a tenant is deleted rows only ever appear, each for the item a   *)
(* worker is processing.                                                   *)
RowsGrow ==
    /\ \A n \in Tickets :
         \/ logRecords'[n] = logRecords[n]
         \/ /\ logRecords[n] = NoRequest /\ logRecords'[n] = items[n].request
            /\ \E w \in Workers : worker[w].pc = "commit" /\ worker[w].item = n
    /\ flagged' = explainability'
    /\ deleted' = deleted

LEMMA PublishEffect ==
    ASSUME QueueInv, NEW S \in SUBSET {w \in Workers : worker[w].pc = "commit"}, Publish(S)
    PROVE  /\ RowsGrow
           /\ \A w \in S : logRecords'[worker[w].item] = items[worker[w].item].request
  <1>1. \A w \in S : /\ w \in Workers /\ worker[w].pc = "commit"
                     /\ worker[w].item \in Tickets
                     /\ logRecords[worker[w].item] = NoRequest
                     /\ worker[w].explained = worker[w].explain
    <2> SUFFICES ASSUME NEW w \in S
                 PROVE  /\ worker[w].item \in Tickets
                        /\ logRecords[worker[w].item] = NoRequest
                        /\ worker[w].explained = worker[w].explain
      OBVIOUS
    <2>1. WorkerAt(w) /\ worker[w] \in WorkerStates
      BY DEF QueueInv, WorkersConsistent, TypeOK
    <2> QED
      BY <2>1 DEF WorkerAt, Busy, WorkerStates
  <1>2. \A n \in Tickets : logRecords'[n] = IF \E w \in S : worker[w].item = n
                                            THEN items[n].request ELSE logRecords[n]
    BY DEF Publish
  <1>3. flagged' = explainability' /\ deleted' = deleted
    BY <1>1 DEF Publish, QueueInv, ExplanationAtomic
  <1> QED
    BY <1>1, <1>2, <1>3 DEF RowsGrow

LEMMA UnchangedRowsGrow == ASSUME QueueInv, UNCHANGED dbVars PROVE RowsGrow
  BY DEF RowsGrow, dbVars, QueueInv, ExplanationAtomic

(* What a step that stores rows in this way keeps of the parts about rows, *)
(* when tickets, answers and final statuses stay as they are.              *)
LEMMA RowsGrowEffect ==
    ASSUME QueueInv, RowsGrow, UNCHANGED ticketOf
    PROVE  /\ RowsMatchTickets'
           /\ ExplanationAtomic'
           /\ \A n \in Tickets : logRecords[n] # NoRequest => logRecords'[n] = logRecords[n]
           /\ DeletedLeaveNothing'
           /\ \A n \in Tickets : items[n].status = "COMPLETED" =>
                logRecords'[n] = items[n].request \/ OrgOf[items[n].request] \in deleted'
           /\ \A r \in Requests : call[r] = "ok" =>
                logRecords'[ticketOf[r]] = r \/ OrgOf[r] \in deleted'
  <1>1. \A n \in Tickets :
          \/ logRecords'[n] = logRecords[n]
          \/ /\ logRecords[n] = NoRequest /\ logRecords'[n] = items[n].request
             /\ items[n].status = "PROCESSING" /\ OrgOf[items[n].request] \notin deleted
    <2> SUFFICES ASSUME NEW n \in Tickets, NEW w \in Workers,
                        worker[w].pc = "commit", worker[w].item = n
                 PROVE  items[n].status = "PROCESSING" /\ OrgOf[items[n].request] \notin deleted
      BY DEF RowsGrow
    <2> QED
      BY DEF QueueInv, WorkersConsistent, WorkerAt
  <1>2. \A r \in Requests : call[r] = "ok" => ticketOf[r] \in Tickets /\ r # NoRequest
    BY ConstantsAssumption DEF QueueInv, AcceptedHaveTickets, TypeOK
  <1>3. RowsMatchTickets'
    BY <1>1 DEF RowsMatchTickets, QueueInv, ItemsMatchTickets
  <1>4. ExplanationAtomic'
    BY DEF RowsGrow, ExplanationAtomic
  <1>5. \A n \in Tickets : items[n].status = "COMPLETED" =>
          logRecords'[n] = items[n].request \/ OrgOf[items[n].request] \in deleted'
    BY <1>1 DEF RowsGrow, QueueInv, CompletedAreStored
  <1>6. \A r \in Requests : call[r] = "ok" => logRecords'[ticketOf[r]] = r \/ OrgOf[r] \in deleted'
    BY <1>1, <1>2 DEF RowsGrow, QueueInv, AckDurable
  <1>7. DeletedLeaveNothing'
    BY <1>1 DEF RowsGrow, QueueInv, DeletedLeaveNothing, Stored
  <1> QED
    BY <1>1, <1>3, <1>4, <1>5, <1>6, <1>7

LEMMA InitInv == Init => QueueInv
  <1> SUFFICES ASSUME Init PROVE QueueInv
    OBVIOUS
  <1>1. TypeOK
    BY InitTyped
  <1>2. \A n \in Tickets : items[n] = NoItem /\ logRecords[n] = NoRequest
    BY DEF Init
  <1>3. \A w \in Workers : worker[w] = OffWorker
    BY DEF Init
  <1>4. \A r \in Requests : call[r] = "new" /\ ticketOf[r] = 0
    BY DEF Init
  <1>5. WorkersConsistent /\ OneWorkerPerItem
    BY <1>3 DEF WorkersConsistent, WorkerAt, OneWorkerPerItem, Busy, OffWorker
  <1>6. QueueConsistent /\ ExplanationAtomic /\ DownMeansEmpty
    BY <1>2, <1>3 DEF Init, QueueConsistent, ExplanationAtomic, DownMeansEmpty, NoItem, OffWorker
  <1>7. AcceptedHaveTickets /\ WaitersHaveItems /\ AckDurable
    BY <1>4 DEF AcceptedHaveTickets, WaitersHaveItems, AckDurable
  <1>8. ItemsMatchTickets /\ RowsMatchTickets /\ CompletedAreStored /\ DeletedLeaveNothing
    BY <1>2 DEF ItemsMatchTickets, RowsMatchTickets, CompletedAreStored, DeletedLeaveNothing, Stored, NoItem
  <1> QED
    BY <1>1, <1>5, <1>6, <1>7, <1>8 DEF QueueInv

LEMMA StartupInv == ASSUME QueueInv, TypeOK', Startup PROVE QueueInv'
  <1>1. /\ queue = <<>>
        /\ \A n \in Tickets : items[n].status = "NONE"
    BY DEF QueueInv, DownMeansEmpty, Startup
  <1>2. \A w \in Workers : worker'[w] = IdleWorker
    BY DEF Startup
  <1>3. UNCHANGED <<queue, items, logRecords, flagged, explainability, deleted, call, ticketOf>>
    BY DEF Startup, dbVars, clientVars
  <1>4. WorkersConsistent' /\ OneWorkerPerItem'
    BY <1>2 DEF WorkersConsistent, WorkerAt, OneWorkerPerItem, Busy, IdleWorker
  <1>5. ItemsMatchTickets' /\ WaitersHaveItems' /\ CompletedAreStored'
    BY <1>1, <1>3 DEF ItemsMatchTickets, QueueInv, WaitersHaveItems, CompletedAreStored
  <1>6. DownMeansEmpty'
    BY DEF Startup, DownMeansEmpty
  <1>7. AcceptedHaveTickets' /\ RowsMatchTickets' /\ QueueConsistent' /\ AckDurable' /\ DeletedLeaveNothing' /\ ExplanationAtomic'
    BY <1>3 DEF QueueInv, AcceptedHaveTickets, RowsMatchTickets, QueueConsistent, AckDurable,
                DeletedLeaveNothing, Stored, ExplanationAtomic
  <1> QED
    BY <1>4, <1>5, <1>6, <1>7 DEF QueueInv

LEMMA StopInv == ASSUME QueueInv, TypeOK', Stop \/ StopDone PROVE QueueInv'
  <1>1. phase' # "down" /\ UNCHANGED <<memoryVars, dbVars, clientVars>>
    BY DEF Stop, StopDone
  <1>2. UNCHANGED <<nextNumber, queue, items, worker, logRecords, flagged, explainability, deleted, call, ticketOf>>
    BY <1>1 DEF memoryVars, dbVars, clientVars
  <1>3. AcceptedHaveTickets' /\ ItemsMatchTickets' /\ RowsMatchTickets' /\ QueueConsistent'
    BY <1>2 DEF QueueInv, AcceptedHaveTickets, ItemsMatchTickets, RowsMatchTickets, QueueConsistent
  <1>4. WorkersConsistent' /\ OneWorkerPerItem'
    BY <1>2 DEF QueueInv, WorkersConsistent, WorkerAt, Busy, OneWorkerPerItem
  <1>5. CompletedAreStored' /\ WaitersHaveItems' /\ DownMeansEmpty' /\ AckDurable' /\ DeletedLeaveNothing' /\ ExplanationAtomic'
    BY <1>1, <1>2 DEF QueueInv, CompletedAreStored, WaitersHaveItems, DownMeansEmpty, AckDurable,
                      DeletedLeaveNothing, Stored, ExplanationAtomic
  <1> QED
    BY <1>3, <1>4, <1>5 DEF QueueInv

LEMMA ProcessDiesInv == ASSUME QueueInv, TypeOK', ProcessDies PROVE QueueInv'
  <1>1. PICK S \in SUBSET {w \in Workers : worker[w].pc = "commit"} : Publish(S)
    BY DEF ProcessDies
  <1>2. RowsGrow /\ ticketOf' = ticketOf
    BY <1>1, PublishEffect DEF ProcessDies
  <1>3. \A n \in Tickets : items'[n].status = "NONE"
    BY DEF ProcessDies, NoItem
  <1>4. \A w \in Workers : worker'[w] = OffWorker
    BY DEF ProcessDies
  <1>5. \A r \in Requests : call'[r] = IF call[r] = "waiting" THEN "dropped" ELSE call[r]
    BY DEF ProcessDies
  <1>6. AcceptedHaveTickets'
    BY <1>2, <1>5 DEF QueueInv, AcceptedHaveTickets
  <1>7. ItemsMatchTickets' /\ CompletedAreStored'
    BY <1>3 DEF ItemsMatchTickets, CompletedAreStored
  <1>8. RowsMatchTickets' /\ ExplanationAtomic' /\ DeletedLeaveNothing'
    BY <1>2, RowsGrowEffect
  <1>9. WorkersConsistent' /\ OneWorkerPerItem'
    BY <1>4 DEF WorkersConsistent, WorkerAt, OneWorkerPerItem, Busy, OffWorker
  <1>10. QueueConsistent' /\ DownMeansEmpty'
    BY <1>3, <1>4 DEF QueueConsistent, DownMeansEmpty, ProcessDies, OffWorker
  <1>11. WaitersHaveItems' /\ AckDurable'
    BY <1>2, <1>5, RowsGrowEffect DEF WaitersHaveItems, AckDurable
  <1> QED
    BY <1>6, <1>7, <1>8, <1>9, <1>10, <1>11 DEF QueueInv

LEMMA EnqueueInv ==
    ASSUME QueueInv, TypeOK', NEW r \in Requests, NEW reply \in {"waiting", "ticket"},
           Enqueue(r, reply)
    PROVE  QueueInv'
  <1> DEFINE n == nextNumber
             new == [request |-> r, status |-> "QUEUED", event |-> FALSE]
  <1>1. n \in Tickets /\ n \in Nat /\ nextNumber' = n + 1 /\ ticketOf[r] = 0 /\ call[r] = "new"
    BY DEF Enqueue, QueueInv, AcceptedHaveTickets, TypeOK
  <1>2. items[n].status = "NONE"
    BY <1>1 DEF QueueInv, ItemsMatchTickets
  <1>3. \A m \in Tickets : items'[m] = IF m = n THEN new ELSE items[m]
    BY DEF Enqueue, QueueInv, TypeOK
  <1>4. /\ \A s \in Requests : ticketOf'[s] = IF s = r THEN n ELSE ticketOf[s]
        /\ \A s \in Requests : call'[s] = IF s = r THEN reply ELSE call[s]
    BY DEF Enqueue, QueueInv, TypeOK
  <1>5. UNCHANGED <<worker, phase, logRecords, flagged, explainability, deleted>> /\ phase = "up"
    BY DEF Enqueue, dbVars
  <1>6. 0 \notin Tickets
    BY DEF Tickets
  <1>7. AcceptedHaveTickets'
    BY <1>1, <1>4, <1>6 DEF QueueInv, AcceptedHaveTickets
  <1>8. ItemsMatchTickets'
    <2> SUFFICES ASSUME NEW m \in Tickets, items'[m].status # "NONE"
                 PROVE  /\ items'[m].request \in Requests
                        /\ ticketOf'[items'[m].request] = m
                        /\ m < nextNumber'
      BY DEF ItemsMatchTickets
    <2>1. CASE m = n
      BY <1>1, <1>3, <1>4, <2>1
    <2>2. CASE m # n
      <3>1. items[m].status # "NONE" /\ items'[m] = items[m]
        BY <1>3, <2>2
      <3>2. /\ items[m].request \in Requests
            /\ ticketOf[items[m].request] = m
            /\ m < n
        BY <3>1 DEF QueueInv, ItemsMatchTickets
      <3>3. items[m].request # r /\ m \in Nat
        BY <1>1, <1>6, <3>2 DEF Tickets
      <3> QED
        BY <1>1, <1>4, <3>1, <3>2, <3>3
    <2> QED
      BY <2>1, <2>2
  <1>9. RowsMatchTickets'
    BY <1>1, <1>4, <1>5, <1>6 DEF QueueInv, RowsMatchTickets, TypeOK
  <1>10. WorkersConsistent' /\ OneWorkerPerItem'
    BY <1>1, <1>2, <1>3, <1>5
    DEF QueueInv, WorkersConsistent, OneWorkerPerItem, WorkerAt, Busy, TypeOK, WorkerStates
  <1>11. QueueConsistent'
    <2>1. /\ queue \in Seq(Tickets) /\ queue' = Append(queue, n)
          /\ \A i \in DOMAIN queue : queue[i] \in Tickets
      BY DEF Enqueue, QueueInv, TypeOK
    <2>2. /\ DOMAIN queue' = 1..(Len(queue) + 1) /\ DOMAIN queue = 1..Len(queue)
          /\ Len(queue) \in Nat
          /\ queue'[Len(queue) + 1] = n
          /\ \A i \in DOMAIN queue : queue'[i] = queue[i]
      BY <1>1, <2>1
    <2>3. \A i \in DOMAIN queue : items[queue[i]].status = "QUEUED" /\ queue[i] < n
      BY <2>1 DEF QueueInv, QueueConsistent, ItemsMatchTickets
    <2>4. \A i \in DOMAIN queue' : items'[queue'[i]].status = "QUEUED"
      <3>1. ASSUME NEW i \in DOMAIN queue PROVE items'[queue'[i]].status = "QUEUED"
        <4>1. queue[i] \in Tickets /\ items[queue[i]].status = "QUEUED"
          BY <2>1, <2>3
        <4> QED
          BY <1>2, <1>3, <2>2, <4>1
      <3>2. items'[queue'[Len(queue) + 1]].status = "QUEUED"
        BY <1>1, <1>3, <2>2
      <3> QED
        BY <2>2, <3>1, <3>2
    <2>5. \A i, j \in DOMAIN queue' : i < j => queue'[i] < queue'[j]
      BY <2>2, <2>3 DEF QueueInv, QueueConsistent
    <2> QED
      BY <2>4, <2>5 DEF QueueConsistent
  <1>12. CompletedAreStored'
    BY <1>3, <1>5 DEF QueueInv, CompletedAreStored
  <1>13. WaitersHaveItems'
    <2> SUFFICES ASSUME NEW s \in Requests, call'[s] = "waiting"
                 PROVE  items'[ticketOf'[s]].status # "NONE" /\ items'[ticketOf'[s]].request = s
      BY DEF WaitersHaveItems
    <2>1. CASE s = r
      BY <1>1, <1>3, <1>4, <2>1
    <2>2. CASE s # r
      <3>1. call[s] = "waiting" /\ ticketOf'[s] = ticketOf[s]
        BY <1>4, <2>2
      <3>2. /\ ticketOf[s] \in Tickets
            /\ items[ticketOf[s]].status # "NONE" /\ items[ticketOf[s]].request = s
        BY <3>1 DEF QueueInv, WaitersHaveItems, AcceptedHaveTickets, TypeOK
      <3> QED
        BY <1>2, <1>3, <3>1, <3>2
    <2> QED
      BY <2>1, <2>2
  <1>14. DownMeansEmpty' /\ AckDurable' /\ DeletedLeaveNothing' /\ ExplanationAtomic'
    BY <1>4, <1>5 DEF QueueInv, DownMeansEmpty, AckDurable, DeletedLeaveNothing, Stored, ExplanationAtomic
  <1> QED
    BY <1>7, <1>8, <1>9, <1>10, <1>11, <1>12, <1>13, <1>14 DEF QueueInv

LEMMA WaiterInv ==
    ASSUME QueueInv, TypeOK', NEW r \in Requests, WaitReturns(r) \/ WaitTimeout(r)
    PROVE  QueueInv'
  <1>1. UNCHANGED <<phase, nextNumber, queue, items, worker, logRecords, flagged, explainability, deleted, ticketOf>>
    BY DEF WaitReturns, WaitTimeout, memoryVars, dbVars
  <1>2. PICK answer \in Answered :
          /\ \A s \in Requests : call'[s] = IF s = r THEN answer ELSE call[s]
          /\ answer = "ok" => items[ticketOf[r]].status = "COMPLETED"
    BY DEF WaitReturns, WaitTimeout, Answered, QueueInv, TypeOK
  <1>3. call[r] = "waiting"
    BY DEF WaitReturns, WaitTimeout
  <1>4. AcceptedHaveTickets' /\ WaitersHaveItems'
    BY <1>1, <1>2, <1>3 DEF QueueInv, AcceptedHaveTickets, WaitersHaveItems, Answered
  <1>5. AckDurable'
    <2>1. ticketOf[r] \in Tickets /\ items[ticketOf[r]].request = r
      BY <1>3 DEF QueueInv, AcceptedHaveTickets, WaitersHaveItems, TypeOK
    <2> QED
      BY <1>1, <1>2, <2>1 DEF QueueInv, AckDurable, CompletedAreStored
  <1>6. ItemsMatchTickets' /\ RowsMatchTickets' /\ QueueConsistent' /\ CompletedAreStored'
    BY <1>1 DEF QueueInv, ItemsMatchTickets, RowsMatchTickets, QueueConsistent, CompletedAreStored
  <1>7. WorkersConsistent' /\ OneWorkerPerItem'
    BY <1>1 DEF QueueInv, WorkersConsistent, WorkerAt, Busy, OneWorkerPerItem
  <1>8. DownMeansEmpty' /\ DeletedLeaveNothing' /\ ExplanationAtomic'
    BY <1>1 DEF QueueInv, DownMeansEmpty, DeletedLeaveNothing, Stored, ExplanationAtomic
  <1> QED
    BY <1>4, <1>5, <1>6, <1>7, <1>8 DEF QueueInv

LEMMA StatementInv ==
    ASSUME QueueInv, TypeOK', NEW w \in Workers,
           InsertRecord(w) \/ ExplainRecord(w) \/ StatementFails(w)
    PROVE  QueueInv'
  <1>1. /\ UNCHANGED <<nextNumber, queue, items, logRecords, flagged, explainability, deleted, call, ticketOf>>
        /\ phase = "up" /\ phase' = "up"
    BY DEF InsertRecord, ExplainRecord, StatementFails, Goto, dbVars, clientVars
  <1>2. \A v \in Workers : /\ worker'[v].item = worker[v].item
                           /\ worker'[v].explain = worker[v].explain
                           /\ v # w => /\ worker'[v].pc = worker[v].pc
                                       /\ worker'[v].explained = worker[v].explained
    <2>1. CASE ExplainRecord(w)
      BY <2>1 DEF ExplainRecord, QueueInv, TypeOK, WorkerStates
    <2>2. CASE InsertRecord(w) \/ StatementFails(w)
      BY <2>2, GotoEffect DEF InsertRecord, StatementFails, QueueInv
    <2> QED
      BY <2>1, <2>2
  <1>3. WorkerAt(w)'
    <2>1. WorkerAt(w) /\ worker[w] \in WorkerStates
      BY DEF QueueInv, WorkersConsistent, TypeOK
    <2>2. CASE InsertRecord(w)
      <3>1. /\ worker[w].pc = "insert" /\ logRecords[worker[w].item] = NoRequest
            /\ worker'[w].pc = IF worker[w].explain THEN "explain" ELSE "commit"
            /\ worker'[w].explained = worker[w].explained
            /\ OrgOf[items[worker[w].item].request] \notin deleted
        BY <2>2, GotoEffect DEF InsertRecord, QueueInv
      <3>2. worker[w].explain \in BOOLEAN /\ worker[w].explained \in BOOLEAN
        BY <2>1 DEF WorkerStates
      <3> QED
        BY <1>1, <1>2, <2>1, <3>1, <3>2 DEF WorkerAt, Busy
    <2>3. CASE ExplainRecord(w)
      <3>1. /\ worker[w].pc = "explain" /\ worker'[w].pc = "commit"
            /\ worker'[w].explained = TRUE
        BY <2>3 DEF ExplainRecord, QueueInv, TypeOK, WorkerStates
      <3>2. worker[w].explain \in BOOLEAN
        BY <2>1 DEF WorkerStates
      <3> QED
        BY <1>1, <1>2, <2>1, <3>1, <3>2 DEF WorkerAt, Busy
    <2>4. CASE StatementFails(w)
      <3>1. worker[w].pc \in {"insert", "explain"} /\ worker'[w].pc = "abort"
        BY <2>4, GotoEffect DEF StatementFails, QueueInv
      <3> QED
        BY <1>1, <1>2, <2>1, <3>1 DEF WorkerAt, Busy
    <2> QED
      BY <2>2, <2>3, <2>4
  <1>4. WorkersConsistent' /\ OneWorkerPerItem'
    BY <1>1, <1>2, <1>3 DEF QueueInv, WorkersConsistent, OneWorkerPerItem, WorkerAt, Busy
  <1>5. AcceptedHaveTickets' /\ ItemsMatchTickets' /\ RowsMatchTickets' /\ QueueConsistent'
    BY <1>1 DEF QueueInv, AcceptedHaveTickets, ItemsMatchTickets, RowsMatchTickets, QueueConsistent
  <1>6. CompletedAreStored' /\ WaitersHaveItems' /\ DownMeansEmpty' /\ AckDurable' /\ DeletedLeaveNothing' /\ ExplanationAtomic'
    BY <1>1 DEF QueueInv, CompletedAreStored, WaitersHaveItems, DownMeansEmpty, AckDurable,
                DeletedLeaveNothing, Stored, ExplanationAtomic
  <1> QED
    BY <1>4, <1>5, <1>6 DEF QueueInv

LEMMA CommitInv ==
    ASSUME QueueInv, TypeOK', NEW w \in Workers, Commit(w) \/ CommitFails(w)
    PROVE  QueueInv'
  <1>1. /\ UNCHANGED <<nextNumber, queue, items, call, ticketOf>>
        /\ phase = "up" /\ phase' = "up"
        /\ worker[w].pc = "commit"
    BY DEF Commit, CommitFails, Goto, clientVars
  <1>2. PICK to \in {"close", "abort"} :
          /\ Goto(w, "commit", to)
          /\ RowsGrow
          /\ to = "close" => logRecords'[worker[w].item] = items[worker[w].item].request
    <2>1. {w} \in SUBSET {v \in Workers : worker[v].pc = "commit"}
      BY <1>1
    <2>2. Publish({w}) => RowsGrow /\ logRecords'[worker[w].item] = items[worker[w].item].request
      BY <2>1, PublishEffect
    <2> QED
      BY <2>2, UnchangedRowsGrow DEF Commit, CommitFails
  <1>3. \A v \in Workers : /\ worker'[v].item = worker[v].item
                           /\ worker'[v].explain = worker[v].explain
                           /\ worker'[v].explained = worker[v].explained
                           /\ worker'[v].pc = IF v = w THEN to ELSE worker[v].pc
    BY <1>2, GotoEffect DEF QueueInv
  <1>4. \A v \in Workers \ {w} : Busy(v) => logRecords'[worker[v].item] = logRecords[worker[v].item]
    <2>1. Publish({w}) \/ UNCHANGED dbVars
      BY DEF Commit, CommitFails
    <2> SUFFICES ASSUME NEW v \in Workers \ {w}, Busy(v), Publish({w})
                 PROVE  logRecords'[worker[v].item] = logRecords[worker[v].item]
      BY <2>1 DEF dbVars
    <2>2. worker[v].item \in Tickets /\ worker[v].item # worker[w].item
      BY DEF QueueInv, TypeOK, WorkerStates, Busy, OneWorkerPerItem
    <2> QED
      BY <2>2 DEF Publish
  <1>5. WorkersConsistent'
    <2> SUFFICES ASSUME NEW v \in Workers PROVE WorkerAt(v)'
      BY DEF WorkersConsistent
    <2>1. WorkerAt(v)
      BY DEF QueueInv, WorkersConsistent
    <2>2. CASE v = w
      BY <1>1, <1>2, <1>3, <2>1, <2>2 DEF WorkerAt, Busy
    <2>3. CASE v # w
      BY <1>1, <1>2, <1>3, <1>4, <2>1, <2>3 DEF RowsGrow, WorkerAt, Busy
    <2> QED
      BY <2>2, <2>3
  <1>6. OneWorkerPerItem' /\ AcceptedHaveTickets' /\ ItemsMatchTickets' /\ QueueConsistent'
    BY <1>1, <1>3 DEF QueueInv, OneWorkerPerItem, Busy, AcceptedHaveTickets, ItemsMatchTickets,
                      QueueConsistent
  <1>7. /\ RowsMatchTickets' /\ ExplanationAtomic' /\ CompletedAreStored' /\ AckDurable'
        /\ DeletedLeaveNothing'
    BY <1>1, <1>2, RowsGrowEffect DEF CompletedAreStored, AckDurable
  <1>8. WaitersHaveItems' /\ DownMeansEmpty'
    BY <1>1 DEF QueueInv, WaitersHaveItems, DownMeansEmpty
  <1> QED
    BY <1>5, <1>6, <1>7, <1>8 DEF QueueInv

(* What dequeueing does to the queue: the head, the lowest waiting number, *)
(* is gone and the rest keeps its order.                                   *)
LEMMA DequeueEffect ==
    ASSUME QueueInv, queue # <<>>, queue' = Tail(queue)
    PROVE  /\ Head(queue) \in Tickets
           /\ items[Head(queue)].status = "QUEUED"
           /\ \A i \in DOMAIN queue' : /\ i + 1 \in DOMAIN queue /\ queue'[i] = queue[i + 1]
                                       /\ queue'[i] \in Tickets
                                       /\ queue'[i] > Head(queue)
           /\ \A i, j \in DOMAIN queue' : i < j => queue'[i] < queue'[j]
  <1>1. queue \in Seq(Tickets) /\ Len(queue) \in Nat \ {0}
    BY DEF QueueInv, TypeOK
  <1>2. /\ DOMAIN queue = 1..Len(queue) /\ DOMAIN queue' = 1..(Len(queue) - 1)
        /\ Head(queue) = queue[1] /\ 1 \in DOMAIN queue
        /\ \A i \in DOMAIN queue : queue[i] \in Tickets
    BY <1>1
  <1>3. \A i \in DOMAIN queue' : i + 1 \in DOMAIN queue /\ queue'[i] = queue[i + 1] /\ i + 1 > 1
    BY <1>1, <1>2
  <1>4. \A i, j \in DOMAIN queue : i < j => queue[i] < queue[j]
    BY DEF QueueInv, QueueConsistent
  <1>5. \A i, j \in DOMAIN queue' : i < j => i + 1 < j + 1
    BY <1>1, <1>2
  <1>6. \A i, j \in Tickets : i < j => j > i
    BY DEF Tickets
  <1> QED
    BY <1>2, <1>3, <1>4, <1>5, <1>6 DEF QueueInv, QueueConsistent

(* The parts about clients and rows do not see an item whose status moves  *)
(* on, as long as it neither appears nor vanishes nor becomes COMPLETED    *)
(* without its row.                                                        *)
LEMMA ItemsAdvance ==
    ASSUME QueueInv, TypeOK', NEW n \in Tickets, items[n].status # "NONE",
           \A m \in Tickets : /\ items'[m].request = items[m].request
                              /\ m # n => items'[m].status = items[m].status,
           items'[n].status # "NONE",
           items'[n].status = "COMPLETED" =>
               logRecords'[n] = items[n].request \/ OrgOf[items[n].request] \in deleted,
           RowsGrow, phase' # "down",
           UNCHANGED <<nextNumber, call, ticketOf>>
    PROVE  /\ AcceptedHaveTickets' /\ ItemsMatchTickets' /\ RowsMatchTickets'
           /\ CompletedAreStored' /\ WaitersHaveItems' /\ DownMeansEmpty'
           /\ AckDurable' /\ DeletedLeaveNothing' /\ ExplanationAtomic'
  <1> DEFINE Kept(m) == /\ items'[m].request = items[m].request
                        /\ items'[m].status # "NONE" <=> items[m].status # "NONE"
  <1>0. \A m \in Tickets : Kept(m)
    <2> SUFFICES ASSUME NEW m \in Tickets PROVE Kept(m)
      OBVIOUS
    <2> QED
      BY m = n \/ m # n
  <1>1. AcceptedHaveTickets' /\ ItemsMatchTickets' /\ DownMeansEmpty'
    <2>1. AcceptedHaveTickets' /\ DownMeansEmpty'
      BY DEF QueueInv, AcceptedHaveTickets, DownMeansEmpty
    <2>2. ItemsMatchTickets'
      BY <1>0 DEF QueueInv, ItemsMatchTickets
    <2> QED
      BY <2>1, <2>2
  <1>2. RowsMatchTickets' /\ ExplanationAtomic' /\ AckDurable' /\ DeletedLeaveNothing'
    BY RowsGrowEffect DEF AckDurable
  <1>3. CompletedAreStored'
    <2> SUFFICES ASSUME NEW m \in Tickets, items'[m].status = "COMPLETED"
                 PROVE  logRecords'[m] = items'[m].request \/ OrgOf[items'[m].request] \in deleted'
      BY DEF CompletedAreStored
    <2>1. items'[m].request = items[m].request /\ deleted' = deleted
      BY <1>0 DEF RowsGrow
    <2>2. CASE m = n
      BY <2>1, <2>2
    <2>3. CASE m # n
      <3>1. items[m].status = "COMPLETED"
        BY <2>3
      <3> QED
        BY <2>1, <3>1, RowsGrowEffect
    <2> QED
      BY <2>2, <2>3
  <1>4. WaitersHaveItems'
    <2>1. \A r \in Requests : call[r] = "waiting" => ticketOf[r] \in Tickets
      BY DEF QueueInv, AcceptedHaveTickets, TypeOK
    <2> QED
      BY <1>0, <2>1 DEF QueueInv, WaitersHaveItems
  <1> QED
    BY <1>1, <1>2, <1>3, <1>4

LEMMA DequeueInv ==
    ASSUME QueueInv, TypeOK', NEW w \in Workers, Dequeue(w) \/ DequeueInvalid(w)
    PROVE  QueueInv'
  <1> DEFINE n == Head(queue)
  <1>1. /\ phase = "up" /\ phase' = "up" /\ worker[w].pc = "get"
        /\ queue # <<>> /\ queue' = Tail(queue)
        /\ UNCHANGED <<nextNumber, logRecords, flagged, explainability, deleted, call, ticketOf>>
    BY DEF Dequeue, DequeueInvalid, dbVars, clientVars
  <1>2. n \in Tickets /\ items[n].status = "QUEUED"
    BY <1>1, DequeueEffect
  <1>3. PICK status \in {"PROCESSING", "FAILED"} :
          /\ \A m \in Tickets : /\ items'[m].request = items[m].request
                                /\ m # n => items'[m].status = items[m].status
          /\ items'[n].status = status
          /\ status = "PROCESSING" <=> Dequeue(w)
    <2>1. CASE Dequeue(w)
      BY <1>2, <2>1 DEF Dequeue, QueueInv, TypeOK, Items
    <2>2. CASE DequeueInvalid(w)
      BY <1>2, <2>2 DEF DequeueInvalid, Dequeue, Ended, QueueInv, TypeOK, Items
    <2> QED
      BY <2>1, <2>2
  <1>4. RowsGrow
    BY <1>1, UnchangedRowsGrow DEF dbVars
  <1>5. QueueConsistent'
    BY <1>1, <1>2, <1>3, DequeueEffect DEF QueueConsistent, QueueInv, Tickets
  <1>6. \A v \in Workers : Busy(v) => worker[v].item \in Tickets /\ worker[v].item # n
    BY <1>2 DEF QueueInv, WorkersConsistent, WorkerAt, TypeOK, WorkerStates, Busy
  <1>7. WorkersConsistent' /\ OneWorkerPerItem'
    <2>1. CASE Dequeue(w)
      <3>1. /\ \A v \in Workers \ {w} : worker'[v] = worker[v]
            /\ worker'[w].pc = "insert" /\ worker'[w].item = n /\ worker'[w].explained = FALSE
        BY <2>1 DEF Dequeue, QueueInv, TypeOK
      <3>2. n # 0
        BY <1>2 DEF Tickets
      <3>3. OneWorkerPerItem'
        BY <1>6, <3>1, <3>2 DEF QueueInv, OneWorkerPerItem, Busy
      <3>4. WorkerAt(w)'
        BY <1>3, <2>1, <3>1, <3>2 DEF WorkerAt, Busy
      <3>5. ASSUME NEW v \in Workers \ {w} PROVE WorkerAt(v)'
        BY <1>1, <1>3, <1>6, <3>1 DEF QueueInv, WorkersConsistent, WorkerAt, Busy
      <3> QED
        BY <3>3, <3>4, <3>5 DEF WorkersConsistent
    <2>2. CASE DequeueInvalid(w)
      <3>1. worker' = worker
        BY <2>2 DEF DequeueInvalid
      <3> QED
        BY <1>1, <1>3, <1>6, <3>1 DEF QueueInv, WorkersConsistent, WorkerAt, Busy, OneWorkerPerItem
    <2> QED
      BY <2>1, <2>2 DEF Dequeue, DequeueInvalid
  <1> QED
    BY <1>1, <1>2, <1>3, <1>4, <1>5, <1>7, ItemsAdvance DEF QueueInv

LEMMA FinishInv ==
    ASSUME QueueInv, TypeOK', NEW w \in Workers, Complete(w) \/ Fail(w)
    PROVE  QueueInv'
  <1> DEFINE n == worker[w].item
  <1>1. /\ phase = "up" /\ phase' = "up" /\ worker[w].pc \in {"close", "abort"}
        /\ UNCHANGED <<nextNumber, queue, logRecords, flagged, explainability, deleted, call, ticketOf>>
    BY DEF Complete, Fail, Finish, dbVars, clientVars
  <1>2. n \in Tickets /\ items[n].status = "PROCESSING"
    BY <1>1 DEF QueueInv, WorkersConsistent, WorkerAt, Busy, TypeOK, WorkerStates
  <1>3. PICK status \in Final :
          /\ \A m \in Tickets : /\ items'[m].request = items[m].request
                                /\ m # n => items'[m].status = items[m].status
          /\ items'[n].status = status
          /\ status = "COMPLETED" => worker[w].pc = "close"
    <2> DEFINE Outcome(status) ==
          /\ \A m \in Tickets : /\ items'[m].request = items[m].request
                                /\ m # n => items'[m].status = items[m].status
          /\ items'[n].status = status
    <2>1. ASSUME NEW from, NEW status \in Final, Finish(w, from, status)
          PROVE  worker[w].pc = from /\ Outcome(status)
      BY <1>2, <2>1 DEF Finish, Ended, QueueInv, TypeOK, Items
    <2>2. CASE Complete(w)
      <3>1. worker[w].pc = "close" /\ Outcome("COMPLETED")
        BY <2>1, <2>2 DEF Complete, Final
      <3> QED
        BY <3>1 DEF Final
    <2>3. CASE Fail(w)
      <3>1. Outcome("FAILED")
        BY <2>1, <2>3 DEF Fail, Final
      <3> QED
        BY <3>1 DEF Final
    <2> QED
      BY <2>2, <2>3
  <1>4. \A v \in Workers : worker'[v] = IF v = w THEN IdleWorker ELSE worker[v]
    BY DEF Complete, Fail, Finish, QueueInv, TypeOK
  <1>5. RowsGrow
    BY <1>1, UnchangedRowsGrow DEF dbVars
  <1>6. status = "COMPLETED" =>
          logRecords'[n] = items[n].request \/ OrgOf[items[n].request] \in deleted
    BY <1>1, <1>3 DEF QueueInv, WorkersConsistent, WorkerAt
  <1>7. QueueConsistent'
    <2>1. \A i \in DOMAIN queue : queue[i] \in Tickets /\ queue[i] # n
      BY <1>2 DEF QueueInv, QueueConsistent, TypeOK
    <2> QED
      BY <1>1, <1>3, <2>1 DEF QueueInv, QueueConsistent
  <1>8. OneWorkerPerItem'
    BY <1>4 DEF QueueInv, OneWorkerPerItem, Busy, IdleWorker
  <1>9. WorkersConsistent'
    <2> SUFFICES ASSUME NEW v \in Workers PROVE WorkerAt(v)'
      BY DEF WorkersConsistent
    <2>1. CASE v = w
      BY <1>4, <2>1 DEF WorkerAt, Busy, IdleWorker
    <2>2. CASE v # w
      <3>1. WorkerAt(v) /\ worker'[v] = worker[v]
        BY <1>4, <2>2 DEF QueueInv, WorkersConsistent
      <3>2. Busy(v) => worker[v].item \in Tickets /\ worker[v].item # n
        BY <2>2 DEF QueueInv, OneWorkerPerItem, TypeOK, WorkerStates, Busy
      <3> QED
        BY <1>1, <1>3, <3>1, <3>2 DEF WorkerAt, Busy
    <2> QED
      BY <2>1, <2>2
  <1>10. status # "NONE"
    BY DEF Final
  <1> QED
    BY <1>1, <1>2, <1>3, <1>5, <1>6, <1>7, <1>8, <1>9, <1>10, ItemsAdvance DEF QueueInv

LEMMA CancelInv ==
    ASSUME QueueInv, TypeOK', NEW w \in Workers, CancelWorker(w)
    PROVE  QueueInv'
  <1>1. /\ phase = "stopping" /\ phase' = "stopping"
        /\ UNCHANGED <<nextNumber, queue, call, ticketOf>>
    BY DEF CancelWorker, clientVars
  <1>2. \A m \in Tickets : /\ items'[m].request = items[m].request
                           /\ items'[m].status = items[m].status
    BY DEF CancelWorker, QueueInv, TypeOK, Items
  <1>3. \A v \in Workers : worker'[v] = IF v = w THEN OffWorker ELSE worker[v]
    BY DEF CancelWorker, QueueInv, TypeOK
  <1>4. /\ RowsGrow
        /\ \A v \in Workers \ {w} : Busy(v) => logRecords'[worker[v].item] = logRecords[worker[v].item]
    <2>1. CASE UNCHANGED dbVars
      BY <2>1, UnchangedRowsGrow DEF dbVars
    <2>2. CASE worker[w].pc = "commit" /\ Publish({w})
      <3>1. {w} \in SUBSET {v \in Workers : worker[v].pc = "commit"}
        BY <2>2
      <3>2. ASSUME NEW v \in Workers \ {w}, Busy(v)
            PROVE  logRecords'[worker[v].item] = logRecords[worker[v].item]
        <4>1. worker[v].item \in Tickets /\ worker[v].item # worker[w].item
          BY <3>2 DEF QueueInv, TypeOK, WorkerStates, Busy, OneWorkerPerItem
        <4> QED
          BY <2>2, <4>1 DEF Publish
      <3> QED
        BY <2>2, <3>1, <3>2, PublishEffect
    <2> QED
      BY <2>1, <2>2 DEF CancelWorker
  <1>5. OneWorkerPerItem'
    BY <1>3 DEF QueueInv, OneWorkerPerItem, Busy, OffWorker
  <1>6. WorkersConsistent'
    <2> SUFFICES ASSUME NEW v \in Workers PROVE WorkerAt(v)'
      BY DEF WorkersConsistent
    <2>1. CASE v = w
      BY <1>3, <2>1 DEF WorkerAt, Busy, OffWorker
    <2>2. CASE v # w
      <3>1. WorkerAt(v) /\ worker'[v] = worker[v]
        BY <1>3, <2>2 DEF QueueInv, WorkersConsistent
      <3>2. Busy(v) => worker[v].item \in Tickets
        BY DEF QueueInv, TypeOK, WorkerStates, Busy
      <3> QED
        BY <1>2, <1>4, <2>2, <3>1, <3>2 DEF RowsGrow, WorkerAt, Busy
    <2> QED
      BY <2>1, <2>2
  <1>7. QueueConsistent'
    <2>1. \A i \in DOMAIN queue : queue[i] \in Tickets
      BY DEF QueueInv, TypeOK
    <2> QED
      BY <1>1, <1>2, <2>1 DEF QueueInv, QueueConsistent
  <1>8. AcceptedHaveTickets' /\ ItemsMatchTickets' /\ DownMeansEmpty'
    BY <1>1, <1>2 DEF QueueInv, AcceptedHaveTickets, ItemsMatchTickets, DownMeansEmpty
  <1>9. RowsMatchTickets' /\ CompletedAreStored' /\ AckDurable' /\ DeletedLeaveNothing' /\ ExplanationAtomic'
    BY <1>1, <1>2, <1>4, RowsGrowEffect DEF CompletedAreStored, AckDurable
  <1>10. WaitersHaveItems'
    <2>1. \A r \in Requests : call[r] = "waiting" => ticketOf[r] \in Tickets
      BY DEF QueueInv, AcceptedHaveTickets, TypeOK
    <2> QED
      BY <1>1, <1>2, <2>1 DEF QueueInv, WaitersHaveItems
  <1> QED
    BY <1>5, <1>6, <1>7, <1>8, <1>9, <1>10 DEF QueueInv

(* Deleting a tenant empties its rows, which no open transaction holds.    *)
LEMMA DeleteInv ==
    ASSUME QueueInv, TypeOK', NEW o \in Leaving, DeleteTenant(o)
    PROVE  QueueInv'
  <1>1. UNCHANGED <<phase, nextNumber, queue, items, worker, call, ticketOf>>
    BY DEF DeleteTenant, memoryVars, clientVars
  <1>2. deleted' = deleted \union {o}
    BY DEF DeleteTenant
  <1>3. \A n \in Tickets : logRecords'[n] = IF n \in RowsOf(o) THEN NoRequest ELSE logRecords[n]
    BY DEF DeleteTenant
  <1>4. \A n \in Tickets :
          n \in RowsOf(o) <=> logRecords[n] # NoRequest /\ OrgOf[logRecords[n]] = o
    BY DEF RowsOf
  <1>5. AcceptedHaveTickets' /\ ItemsMatchTickets' /\ QueueConsistent' /\ OneWorkerPerItem'
    BY <1>1 DEF QueueInv, AcceptedHaveTickets, ItemsMatchTickets, QueueConsistent, OneWorkerPerItem, Busy
  <1>6. WaitersHaveItems' /\ DownMeansEmpty'
    BY <1>1 DEF QueueInv, WaitersHaveItems, DownMeansEmpty
  <1>7. RowsMatchTickets'
    BY <1>1, <1>3 DEF QueueInv, RowsMatchTickets
  <1>8. DeletedLeaveNothing'
    BY <1>2, <1>3, <1>4 DEF QueueInv, DeletedLeaveNothing, Stored
  <1>9. ExplanationAtomic'
    BY DEF DeleteTenant, QueueInv, ExplanationAtomic
  <1>10. CompletedAreStored'
    <2> SUFFICES ASSUME NEW n \in Tickets, items[n].status = "COMPLETED",
                        OrgOf[items[n].request] \notin deleted'
                 PROVE  logRecords'[n] = items[n].request
      BY <1>1 DEF CompletedAreStored
    <2>1. logRecords[n] = items[n].request /\ OrgOf[items[n].request] # o
      BY <1>2 DEF QueueInv, CompletedAreStored
    <2> QED
      BY <1>3, <1>4, <2>1
  <1>11. AckDurable'
    <2> SUFFICES ASSUME NEW r \in Requests, call[r] = "ok", OrgOf[r] \notin deleted'
                 PROVE  logRecords'[ticketOf[r]] = r
      BY <1>1 DEF AckDurable
    <2>1. logRecords[ticketOf[r]] = r /\ OrgOf[r] # o
      BY <1>2 DEF QueueInv, AckDurable
    <2>2. ticketOf[r] \in Tickets
      BY DEF QueueInv, AcceptedHaveTickets, TypeOK
    <2> QED
      BY <1>3, <1>4, <2>1, <2>2
  <1>12. WorkersConsistent'
    <2> SUFFICES ASSUME NEW w \in Workers PROVE WorkerAt(w)'
      BY DEF WorkersConsistent
    <2> DEFINE n == worker[w].item
    <2>1. WorkerAt(w) /\ (Busy(w) => n \in Tickets)
      BY DEF QueueInv, WorkersConsistent, TypeOK, WorkerStates, Busy
    <2>2. worker[w].pc \in {"explain", "commit"} =>
            logRecords'[n] = NoRequest /\ OrgOf[items[n].request] \notin deleted'
      BY <1>2, <1>3, <2>1 DEF WorkerAt, DeleteTenant, HoldsTenant
    <2>3. worker[w].pc = "close" =>
            logRecords'[n] = items[n].request \/ OrgOf[items[n].request] \in deleted'
      BY <1>2, <1>3, <1>4, <2>1 DEF WorkerAt
    <2> QED
      BY <1>1, <2>1, <2>2, <2>3 DEF WorkerAt, Busy
  <1> QED
    BY <1>5, <1>6, <1>7, <1>8, <1>9, <1>10, <1>11, <1>12 DEF QueueInv

LEMMA StepInv == QueueInv /\ [Next]_vars => QueueInv'
  <1> SUFFICES ASSUME QueueInv, [Next]_vars PROVE QueueInv'
    OBVIOUS
  <1>1. TypeOK'
    BY StepTyped DEF QueueInv
  <1>2. CASE UNCHANGED vars
    <2>1. UNCHANGED <<phase, nextNumber, queue, items, worker, logRecords, flagged,
                      explainability, deleted, call, ticketOf>>
      BY <1>2 DEF vars, memoryVars, dbVars, clientVars
    <2>2. AcceptedHaveTickets' /\ ItemsMatchTickets' /\ RowsMatchTickets' /\ QueueConsistent'
      BY <2>1 DEF QueueInv, AcceptedHaveTickets, ItemsMatchTickets, RowsMatchTickets, QueueConsistent
    <2>3. WorkersConsistent' /\ OneWorkerPerItem'
      BY <2>1 DEF QueueInv, WorkersConsistent, WorkerAt, Busy, OneWorkerPerItem
    <2>4. CompletedAreStored' /\ WaitersHaveItems' /\ DownMeansEmpty' /\ AckDurable' /\ DeletedLeaveNothing' /\ ExplanationAtomic'
      BY <2>1 DEF QueueInv, CompletedAreStored, WaitersHaveItems, DownMeansEmpty, AckDurable,
                  DeletedLeaveNothing, Stored, ExplanationAtomic
    <2> QED
      BY <1>1, <2>2, <2>3, <2>4 DEF QueueInv
  <1>3. CASE Startup \/ Stop \/ StopDone \/ ProcessDies
    BY <1>1, <1>3, StartupInv, StopInv, ProcessDiesInv
  <1>4. ASSUME NEW r \in Requests,
               EnqueueAndWait(r) \/ EnqueueAsync(r) \/ WaitReturns(r) \/ WaitTimeout(r)
        PROVE  QueueInv'
    BY <1>1, <1>4, EnqueueInv, WaiterInv DEF EnqueueAndWait, EnqueueAsync
  <1>5. ASSUME NEW w \in Workers, WorkerStep(w) \/ CancelWorker(w)
        PROVE  QueueInv'
    BY <1>1, <1>5, DequeueInv, StatementInv, CommitInv, FinishInv, CancelInv DEF WorkerStep
  <1>6. ASSUME NEW o \in Leaving, DeleteTenant(o) PROVE QueueInv'
    BY <1>1, <1>6, DeleteInv
  <1> QED
    BY <1>2, <1>3, <1>4, <1>5, <1>6 DEF Next

(* The inductive invariant holds in every reachable state.                 *)
THEOREM QueueInvariant == Spec => []QueueInv
  BY InitInv, StepInv, PTL DEF Spec

(* An acknowledged log is in the database, in every life of the process.   *)
THEOREM AcknowledgedIsDurable == Spec => []AckDurable
  <1>1. QueueInv => AckDurable
    BY DEF QueueInv
  <1> QED
    BY <1>1, QueueInvariant, PTL

(* No log is stored under two numbers, whatever restarts and failed        *)
(* commits come in between, and even if the counter was reset to 1.        *)
THEOREM NeverStoredTwice == Spec => []StoredOnce
  <1>1. QueueInv => StoredOnce
    BY DEF QueueInv, RowsMatchTickets, StoredOnce, Stored
  <1> QED
    BY <1>1, QueueInvariant, PTL

(* Nothing of a deleted tenant is in the database, although its entries    *)
(* may still be queued or in a worker's hands.                             *)
THEOREM DeletedStayGone == Spec => []DeletedLeaveNothing
  <1>1. QueueInv => DeletedLeaveNothing
    BY DEF QueueInv
  <1> QED
    BY <1>1, QueueInvariant, PTL

(* The has_explainability flag and the explanation rows always agree.      *)
THEOREM ExplanationsAreAtomic == Spec => []ExplanationAtomic
  <1>1. QueueInv => ExplanationAtomic
    BY DEF QueueInv
  <1> QED
    BY <1>1, QueueInvariant, PTL

-------------------------------------------------------------------------------
(* The queue implements the ingestion contract. *)

(* New rows are a Store step of the contract: each belongs to an accepted  *)
(* request that had none.                                                  *)
LEMMA RowsRefine ==
    ASSUME QueueInv, RowsGrow, UNCHANGED ticketOf
    PROVE  \E S \in SUBSET Requests : Contract!StoreAll(S)
  <1> DEFINE rows(r) == {n \in Tickets : logRecords[n] = r}
             rowsNext(r) == {n \in Tickets : logRecords'[n] = r}
             Fresh(n, r) == logRecords[n] = NoRequest /\ logRecords'[n] = r
  <1>0. PICK S \in SUBSET Requests :
          \A r \in Requests : r \in S <=> \E n \in Tickets : Fresh(n, r)
    <2> DEFINE T == {r \in Requests : \E n \in Tickets : Fresh(n, r)}
    <2> WITNESS T \in SUBSET Requests
    <2> QED
      OBVIOUS
  <1> DEFINE at == [r \in S |-> ticketOf[r]]
  <1>1. ASSUME NEW r \in Requests, NEW n \in Tickets, Fresh(n, r)
        PROVE  ticketOf[r] = n /\ call[r] # "new" /\ rows(r) = {} /\ OrgOf[r] \notin deleted
    <2>1. PICK w \in Workers : worker[w].pc = "commit" /\ worker[w].item = n /\ items[n].request = r
      BY <1>1, ConstantsAssumption DEF RowsGrow
    <2>2. items[n].status = "PROCESSING" /\ OrgOf[r] \notin deleted
      BY <2>1 DEF QueueInv, WorkersConsistent, WorkerAt
    <2>3. ticketOf[r] = n
      BY <2>1, <2>2 DEF QueueInv, ItemsMatchTickets
    <2>4. n # 0
      BY DEF Tickets
    <2>5. \A m \in Tickets : logRecords[m] = r => m = n
      BY <2>3, ConstantsAssumption DEF QueueInv, RowsMatchTickets
    <2> QED
      BY <1>1, <2>2, <2>3, <2>4, <2>5, ConstantsAssumption DEF QueueInv, AcceptedHaveTickets
  <1>2. ASSUME NEW r \in S PROVE rowsNext(r) = {at[r]} /\ at[r] \in Tickets
    <2>1. PICK n \in Tickets : Fresh(n, r)
      BY <1>0
    <2>2. at[r] = n
      BY <1>1, <2>1
    <2>3. \A m \in Tickets : logRecords'[m] = r => m = n
      BY <1>1, <2>1, RowsGrowEffect, ConstantsAssumption DEF RowsMatchTickets
    <2> QED
      BY <2>1, <2>2, <2>3
  <1>3. ASSUME NEW r \in Requests \ S PROVE rowsNext(r) = rows(r)
    <2>1. \A n \in Tickets : logRecords'[n] = r <=> logRecords[n] = r
      BY <1>0, <1>3, ConstantsAssumption DEF RowsGrow
    <2> QED
      BY <2>1
  <1>4. at \in [S -> Tickets]
    BY <1>2
  <1> DEFINE all == [r \in Requests |-> rows(r)]
             allNext == [r \in Requests |-> rowsNext(r)]
  <1>5. allNext = [r \in Requests |-> IF r \in S THEN {at[r]} ELSE all[r]]
    BY <1>2, <1>3
  <1>6. \A r \in S : call[r] # "new" /\ all[r] = {} /\ OrgOf[r] \notin deleted
    BY <1>0, <1>1
  <1>7. Contract!StoreAll(S) <=>
          /\ \A r \in S : call[r] # "new" /\ all[r] = {} /\ OrgOf[r] \notin deleted
          /\ deleted' = deleted
          /\ \E a \in [S -> Tickets] :
               allNext = [r \in Requests |-> IF r \in S THEN {a[r]} ELSE all[r]]
    BY DEF Contract!StoreAll
  <1> HIDE DEF at, all, allNext
  <1>8. Contract!StoreAll(S)
    BY <1>4, <1>5, <1>6, <1>7 DEF RowsGrow
  <1> QED
    BY <1>8

LEMMA InitRefines == Init => Contract!Init
  <1> SUFFICES ASSUME Init PROVE Contract!Init
    OBVIOUS
  <1>1. \A r \in Requests : {n \in Tickets : logRecords[n] = r} = {}
    BY ConstantsAssumption DEF Init
  <1> QED
    BY <1>1 DEF Init, Contract!Init

LEMMA StepRefines == QueueInv /\ [Next]_vars => [Contract!Next]_(Contract!contractVars)
  <1> SUFFICES ASSUME QueueInv, [Next]_vars PROVE [Contract!Next]_(Contract!contractVars)
    OBVIOUS
  <1> DEFINE rows == [r \in Requests |-> {n \in Tickets : logRecords[n] = r}]
  <1>1. ASSUME UNCHANGED <<logRecords, deleted, call>> PROVE UNCHANGED Contract!contractVars
    BY <1>1 DEF Contract!contractVars
  <1>2. CASE UNCHANGED vars \/ Startup \/ Stop \/ StopDone
    BY <1>1, <1>2 DEF vars, dbVars, clientVars, Startup, Stop, StopDone
  <1>3. ASSUME NEW r \in Requests, EnqueueAndWait(r) \/ EnqueueAsync(r)
        PROVE  Contract!Accept(r)
    BY <1>3 DEF EnqueueAndWait, EnqueueAsync, Enqueue, dbVars, Contract!Accept
  <1>4. ASSUME NEW r \in Requests, WaitReturns(r) \/ WaitTimeout(r)
        PROVE  Contract!Answer(r)
    <2>1. call[r] = "waiting" /\ rows' = rows /\ deleted' = deleted
      BY <1>4 DEF WaitReturns, WaitTimeout, dbVars
    <2>2. PICK a \in Answered : /\ call' = [call EXCEPT ![r] = a]
                                /\ a = "ok" => items[ticketOf[r]].status = "COMPLETED"
      BY <1>4 DEF WaitReturns, WaitTimeout, Answered
    <2>3. a = "ok" => ticketOf[r] \in rows[r] \/ OrgOf[r] \in deleted
      BY <2>1, <2>2
      DEF QueueInv, WaitersHaveItems, CompletedAreStored, AcceptedHaveTickets, TypeOK
    <2>4. a \in Contract!Answers
      BY DEF Answered, Contract!Answers
    <2> QED
      BY <2>1, <2>2, <2>3, <2>4 DEF Contract!Answer
  <1>5. ASSUME NEW w \in Workers, WorkerStep(w) \/ CancelWorker(w), ~ UNCHANGED logRecords
        PROVE  \E S \in SUBSET Requests : Contract!Store(S)
    <2>1. Commit(w) \/ CommitFails(w) \/ CancelWorker(w)
      BY <1>5 DEF WorkerStep, Dequeue, DequeueInvalid, InsertRecord, ExplainRecord, StatementFails,
                  Complete, Fail, Finish, dbVars
    <2>2. worker[w].pc = "commit" /\ Publish({w}) /\ UNCHANGED <<call, ticketOf>>
      BY <1>5, <2>1 DEF Commit, CommitFails, CancelWorker, Goto, dbVars, clientVars
    <2>3. {w} \in SUBSET {v \in Workers : worker[v].pc = "commit"}
      BY <2>2
    <2>4. RowsGrow
      BY <2>2, <2>3, PublishEffect
    <2> QED
      BY <2>2, <2>4, RowsRefine DEF Contract!Store
  <1>6. ASSUME NEW w \in Workers, WorkerStep(w) \/ CancelWorker(w)
        PROVE  UNCHANGED <<call, deleted>>
    BY <1>6 DEF WorkerStep, Dequeue, DequeueInvalid, InsertRecord, ExplainRecord, StatementFails,
                Commit, CommitFails, Complete, Fail, Finish, CancelWorker, Publish, dbVars, clientVars
  <1>7. CASE ProcessDies
    <2>1. PICK S \in SUBSET {v \in Workers : worker[v].pc = "commit"} : Publish(S)
      BY <1>7 DEF ProcessDies
    <2>2. RowsGrow /\ UNCHANGED ticketOf
      BY <1>7, <2>1, PublishEffect DEF ProcessDies
    <2>3. PICK R \in SUBSET Requests : Contract!StoreAll(R)
      BY <2>2, RowsRefine
    <2>4. Contract!Crash(R)
      BY <1>7, <2>3 DEF ProcessDies, Contract!Crash
    <2> QED
      BY <2>4 DEF Contract!Next
  <1>8. ASSUME NEW o \in Leaving, DeleteTenant(o) PROVE Contract!Delete(o)
    <2>1. \A r \in Requests : {n \in Tickets : logRecords'[n] = r} = IF OrgOf[r] = o THEN {} ELSE rows[r]
      BY <1>8, ConstantsAssumption DEF DeleteTenant, RowsOf
    <2>2. rows' = [r \in Requests |-> IF OrgOf[r] = o THEN {} ELSE rows[r]]
      BY <2>1
    <2> QED
      BY <1>8, <2>2 DEF DeleteTenant, clientVars, Contract!Delete
  <1> QED
    BY <1>1, <1>2, <1>3, <1>4, <1>5, <1>6, <1>7, <1>8, ConstantsAssumption DEF Next, Contract!Next

(* Every behaviour of the queue is one the ingestion contract allows.      *)
THEOREM ContractKept == Spec => KeepsContract
  <1>1. Init => Contract!Init
    BY InitRefines
  <1>2. QueueInv /\ [Next]_vars => [Contract!Next]_(Contract!contractVars)
    BY StepRefines
  <1> QED
    BY <1>1, <1>2, QueueInvariant, PTL DEF Spec, Contract!Spec, KeepsContract

-------------------------------------------------------------------------------
(* Ticket numbers and statuses over restarts. *)

LEMMA StepRowsGrow ==
    ASSUME QueueInv, [Next]_vars
    PROVE  RowsGrow \/ \E o \in Leaving : DeleteTenant(o)
  <1>1. ASSUME UNCHANGED dbVars PROVE RowsGrow
    BY <1>1, UnchangedRowsGrow
  <1>2. ASSUME NEW w \in Workers, worker[w].pc = "commit", Publish({w}) PROVE RowsGrow
    <2>1. {w} \in SUBSET {v \in Workers : worker[v].pc = "commit"}
      BY <1>2
    <2> QED
      BY <1>2, <2>1, PublishEffect
  <1>3. CASE ProcessDies
    <2>1. PICK S \in SUBSET {v \in Workers : worker[v].pc = "commit"} : Publish(S)
      BY <1>3 DEF ProcessDies
    <2> QED
      BY <2>1, PublishEffect
  <1>4. CASE Startup \/ Stop \/ StopDone
    BY <1>1, <1>4 DEF Startup, Stop, StopDone
  <1>5. ASSUME NEW r \in Requests,
               EnqueueAndWait(r) \/ EnqueueAsync(r) \/ WaitReturns(r) \/ WaitTimeout(r)
        PROVE  RowsGrow
    BY <1>1, <1>5 DEF EnqueueAndWait, EnqueueAsync, Enqueue, WaitReturns, WaitTimeout
  <1>6. ASSUME NEW w \in Workers, WorkerStep(w) \/ CancelWorker(w)
        PROVE  RowsGrow
    <2>1. UNCHANGED dbVars \/ (worker[w].pc = "commit" /\ Publish({w}))
      BY <1>6 DEF WorkerStep, Dequeue, DequeueInvalid, InsertRecord, ExplainRecord, StatementFails,
                  Commit, CommitFails, Goto, Complete, Fail, Finish, CancelWorker
    <2> QED
      BY <1>1, <1>2, <2>1
  <1>7. CASE UNCHANGED vars
    BY <1>1, <1>7 DEF vars
  <1> QED
    BY <1>3, <1>4, <1>5, <1>6, <1>7 DEF Next

(* A row stays or goes with its tenant, and nothing but a commit adds one. *)
LEMMA StepRows ==
    ASSUME QueueInv, [Next]_vars, NEW n \in Tickets
    PROVE  /\ logRecords[n] # NoRequest /\ OrgOf[logRecords[n]] \notin deleted'
                => logRecords'[n] = logRecords[n]
           /\ logRecords[n] = NoRequest /\ logRecords'[n] # NoRequest
                => \E w \in Workers : worker[w].pc = "commit" /\ worker[w].item = n
           /\ deleted \subseteq deleted'
  <1>1. CASE RowsGrow
    BY <1>1 DEF RowsGrow
  <1>2. ASSUME NEW o \in Leaving, DeleteTenant(o)
        PROVE  /\ deleted' = deleted \union {o}
               /\ logRecords'[n] = IF logRecords[n] # NoRequest /\ OrgOf[logRecords[n]] = o
                                   THEN NoRequest ELSE logRecords[n]
    BY <1>2 DEF DeleteTenant, RowsOf
  <1> QED
    BY <1>1, <1>2, StepRowsGrow

LEMMA StepNumbersAhead ==
    ASSUME QueueInv, NumbersAheadOfDb, [Next]_vars
    PROVE  NumbersAheadOfDb'
  <1>1. \A n \in Tickets : n \in Nat
    BY DEF Tickets
  <1>2. CASE Startup
    <2>1. UNCHANGED logRecords
      BY <1>2 DEF Startup, dbVars
    <2>2. CASE Stored = {}
      BY <2>1, <2>2 DEF NumbersAheadOfDb, Stored
    <2>3. CASE synced' /\ Stored # {}
      <3>1. PICK m \in Tickets \union {0} : IsMaxStored(m) /\ nextNumber' = m + 1
        BY <1>2, <2>3 DEF Startup, FirstNumber
      <3> QED
        BY <1>1, <2>1, <3>1 DEF NumbersAheadOfDb, IsMaxStored, Stored
    <2> QED
      BY <2>2, <2>3 DEF NumbersAheadOfDb
  <1>3. CASE synced' = synced /\ (nextNumber' = nextNumber \/ nextNumber' = nextNumber + 1)
    <2> SUFFICES ASSUME synced, NEW n \in Tickets, logRecords'[n] # NoRequest
                 PROVE  n < nextNumber
      BY <1>1, <1>3 DEF NumbersAheadOfDb, Stored, QueueInv, TypeOK
    <2>1. CASE logRecords[n] # NoRequest
      BY <1>3, <2>1 DEF NumbersAheadOfDb, Stored
    <2>2. CASE logRecords[n] = NoRequest
      <3>1. PICK w \in Workers : worker[w].pc = "commit" /\ worker[w].item = n
        BY <2>2, StepRows
      <3>2. items[n].status = "PROCESSING"
        BY <3>1 DEF QueueInv, WorkersConsistent, WorkerAt
      <3> QED
        BY <3>2 DEF QueueInv, ItemsMatchTickets
    <2> QED
      BY <2>1, <2>2
  <1>4. CASE ProcessDies
    BY <1>4 DEF ProcessDies, NumbersAheadOfDb
  <1>5. CASE UNCHANGED vars
    BY <1>5 DEF vars, memoryVars, dbVars, NumbersAheadOfDb, Stored
  <1>6. ASSUME NEW r \in Requests, EnqueueAndWait(r) \/ EnqueueAsync(r) \/ WaitReturns(r) \/ WaitTimeout(r)
        PROVE  NumbersAheadOfDb'
    BY <1>3, <1>6 DEF EnqueueAndWait, EnqueueAsync, Enqueue, WaitReturns, WaitTimeout, memoryVars
  <1>7. ASSUME NEW w \in Workers, WorkerStep(w) \/ CancelWorker(w)
        PROVE  NumbersAheadOfDb'
    BY <1>3, <1>7 DEF WorkerStep, Dequeue, DequeueInvalid, InsertRecord, ExplainRecord, StatementFails,
                      Commit, CommitFails, Goto, Complete, Fail, Finish, CancelWorker
  <1>8. CASE Stop \/ StopDone
    BY <1>3, <1>8 DEF Stop, StopDone, memoryVars
  <1>9. ASSUME NEW o \in Leaving, DeleteTenant(o) PROVE NumbersAheadOfDb'
    BY <1>3, <1>9 DEF DeleteTenant, memoryVars
  <1> QED
    BY <1>2, <1>4, <1>5, <1>6, <1>7, <1>8, <1>9 DEF Next

(* A new ticket number never collides with a stored one, in any life that  *)
(* started with the stored numbers known.                                  *)
THEOREM TicketsStayAhead == Spec => []NumbersAheadOfDb
  <1>1. Init => NumbersAheadOfDb
    BY DEF Init, NumbersAheadOfDb
  <1>2. QueueInv /\ NumbersAheadOfDb /\ [Next]_vars => NumbersAheadOfDb'
    BY StepNumbersAhead
  <1> QED
    BY <1>1, <1>2, QueueInvariant, PTL DEF Spec

(* Only a waiting or a processed entry changes its status, apart from new  *)
(* entries and from the memory that goes with the process.                 *)
LEMMA StatusMoves ==
    ASSUME QueueInv, [Next]_vars, NEW n \in Tickets
    PROVE  \/ items'[n].status = items[n].status /\ items'[n].request = items[n].request
           \/ items'[n].status = "NONE"
           \/ items[n].status \in {"QUEUED", "PROCESSING"}
           \/ n = nextNumber /\ nextNumber' = n + 1
  <1>1. CASE items' = items
    BY <1>1
  <1>2. ASSUME NEW r \in Requests, NEW reply, Enqueue(r, reply), n # nextNumber
        PROVE  items'[n] = items[n]
    BY <1>2 DEF Enqueue, QueueInv, TypeOK
  <1>3. ASSUME NEW w \in Workers, Dequeue(w) \/ DequeueInvalid(w),
               items[n].status # "QUEUED"
        PROVE  items'[n] = items[n]
    <2>1. n # Head(queue)
      BY <1>3, DequeueEffect DEF Dequeue, DequeueInvalid
    <2> QED
      BY <1>3, <2>1 DEF Dequeue, DequeueInvalid, QueueInv, TypeOK
  <1>4. ASSUME NEW w \in Workers, Complete(w) \/ Fail(w), items[n].status # "PROCESSING"
        PROVE  items'[n] = items[n]
    <2>1. worker[w].item # n
      BY <1>4 DEF Complete, Fail, Finish, QueueInv, WorkersConsistent, WorkerAt, Busy
    <2> QED
      BY <1>4, <2>1 DEF Complete, Fail, Finish, QueueInv, TypeOK
  <1>5. ASSUME NEW w \in Workers, CancelWorker(w)
        PROVE  items'[n].status = items[n].status /\ items'[n].request = items[n].request
    BY <1>5 DEF CancelWorker, QueueInv, TypeOK, Items
  <1>6. CASE ProcessDies
    BY <1>6 DEF ProcessDies, NoItem
  <1>7. CASE Startup \/ Stop \/ StopDone \/ UNCHANGED vars
    BY <1>1, <1>7 DEF Startup, Stop, StopDone, vars, memoryVars
  <1>8. ASSUME NEW r \in Requests,
               EnqueueAndWait(r) \/ EnqueueAsync(r) \/ WaitReturns(r) \/ WaitTimeout(r)
        PROVE  items' = items \/ items'[n] = items[n] \/ (n = nextNumber /\ nextNumber' = n + 1)
    <2>1. CASE WaitReturns(r) \/ WaitTimeout(r)
      BY <2>1 DEF WaitReturns, WaitTimeout, memoryVars
    <2>2. ASSUME NEW reply, Enqueue(r, reply)
          PROVE  items'[n] = items[n] \/ (n = nextNumber /\ nextNumber' = n + 1)
      <3>1. nextNumber' = nextNumber + 1
        BY <2>2 DEF Enqueue
      <3> QED
        BY <1>2, <2>2, <3>1
    <2> QED
      BY <1>8, <2>1, <2>2 DEF EnqueueAndWait, EnqueueAsync
  <1>9. ASSUME NEW w \in Workers, WorkerStep(w),
               items[n].status \notin {"QUEUED", "PROCESSING"}
        PROVE  items'[n] = items[n]
    <2>1. CASE ~(Dequeue(w) \/ DequeueInvalid(w) \/ Complete(w) \/ Fail(w))
      BY <1>9, <2>1 DEF WorkerStep, InsertRecord, ExplainRecord, StatementFails, Commit, CommitFails
    <2> QED
      BY <1>3, <1>4, <1>9, <2>1
  <1>10. ASSUME NEW o \in Leaving, DeleteTenant(o) PROVE items' = items
    BY <1>10 DEF DeleteTenant, memoryVars
  <1> QED
    BY <1>1, <1>5, <1>6, <1>7, <1>8, <1>9, <1>10 DEF Next

LEMMA StepStatus ==
    ASSUME QueueInv, NumbersAheadOfDb, [Next]_vars, NEW n \in Tickets, NEW o \in Orgs \ deleted',
           StatusOf(n, o) = "COMPLETED", ~GivenOutAgain(n)
    PROVE  StatusOf(n, o)' = "COMPLETED"
  <1>1. /\ logRecords[n] # NoRequest /\ OrgOf[logRecords[n]] = o => logRecords'[n] = logRecords[n]
        /\ o \notin deleted
    BY StepRows
  <1>2. CASE items[n].status # "NONE"
    <2>1. /\ items[n].status = "COMPLETED" /\ OrgOf[items[n].request] = o
          /\ items[n].request \in Requests
          /\ n < nextNumber
      BY <1>2 DEF StatusOf, QueueInv, ItemsMatchTickets
    <2>2. logRecords[n] = items[n].request /\ logRecords[n] # NoRequest
      BY <1>1, <2>1, ConstantsAssumption DEF QueueInv, CompletedAreStored
    <2>3. n # nextNumber
      BY <2>1 DEF QueueInv, TypeOK
    <2>4. \/ items'[n].status = items[n].status /\ items'[n].request = items[n].request
          \/ items'[n].status = "NONE"
      BY <2>1, <2>3, StatusMoves
    <2> QED
      BY <1>1, <2>1, <2>2, <2>4 DEF StatusOf
  <1>3. CASE items[n].status = "NONE"
    <2>1. logRecords[n] # NoRequest /\ OrgOf[logRecords[n]] = o
      BY <1>3 DEF StatusOf
    <2>2. ~(n = nextNumber /\ nextNumber' = n + 1)
      <3>1. synced => n # nextNumber
        BY <2>1 DEF NumbersAheadOfDb, Stored, QueueInv, TypeOK, Tickets
      <3> QED
        BY <3>1 DEF GivenOutAgain, QueueInv, TypeOK
    <2>3. items'[n].status = "NONE"
      BY <1>3, <2>2, StatusMoves
    <2> QED
      BY <1>1, <2>1, <2>3 DEF StatusOf
  <1> QED
    BY <1>2, <1>3

(* COMPLETED is final for the tenant that asks, in this life of the        *)
(* process and after restarts, unless a process that failed to read the    *)
(* stored numbers gives the ticket to another entry.                       *)
THEOREM CompletedIsFinal == Spec => CompletedStaysCompleted
  <1>1. QueueInv /\ NumbersAheadOfDb /\ [Next]_vars
          => [\A n \in Tickets, o \in Orgs \ deleted' :
                StatusOf(n, o) = "COMPLETED"
                    => StatusOf(n, o)' = "COMPLETED" \/ GivenOutAgain(n)]_vars
    BY StepStatus
  <1>2. Spec => []NumbersAheadOfDb
    BY TicketsStayAhead
  <1> QED
    BY <1>1, <1>2, QueueInvariant, PTL DEF Spec, CompletedStaysCompleted
===============================================================================

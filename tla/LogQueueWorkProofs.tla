-------------------------- MODULE LogQueueWorkProofs --------------------------
(***************************************************************************)
(* More proofs about the ingestion queue: its work is neither lost nor     *)
(* done twice, is taken in order, and is counted right.                    *)
(***************************************************************************)
EXTENDS LogQueueProofs, FiniteSetTheorems

(* What QueueInv leaves open: that the queue and the workers have all that *)
(* the items say they have, and what the counters and events add to that.  *)
QueuedAreWaiting ==
    \A n \in Tickets : items[n].status = "QUEUED" => \E i \in DOMAIN queue : queue[i] = n

ProcessingAreHeld ==
    phase = "up" => \A n \in Tickets :
        items[n].status = "PROCESSING" => \E w \in Workers : worker[w].item = n

EventsAreFinal ==
    phase \in {"up", "down"} =>
        \A n \in Tickets : items[n].event <=> items[n].status \in Final

BusyWorkers == {w \in Workers : Busy(w)}

CountersAgree ==
    phase \in {"up", "down"} =>
        /\ metrics.enqueued = Len(queue) + metrics.processing
                                + metrics.completed + metrics.failed
        /\ metrics.processing = Cardinality(BusyWorkers)

WorkParts == QueuedAreWaiting /\ ProcessingAreHeld /\ EventsAreFinal /\ ServedInOrder /\ CountersAgree

WorkInv == QueueInv /\ WorkParts

-------------------------------------------------------------------------------
(* A step that moves no item: statements, commits, answers, deletions.     *)
LEMMA QuietKeeps ==
    ASSUME WorkInv, UNCHANGED <<phase, queue, items, metrics>>,
           \A w \in Workers : worker'[w].item = worker[w].item
    PROVE  WorkParts'
  <1>1. BusyWorkers' = BusyWorkers
    BY DEF BusyWorkers, Busy
  <1>2. CountersAgree'
    BY <1>1 DEF WorkInv, WorkParts, CountersAgree
  <1>3. QueuedAreWaiting' /\ EventsAreFinal' /\ ServedInOrder'
    BY DEF WorkInv, WorkParts, QueuedAreWaiting, EventsAreFinal, ServedInOrder
  <1>4. ProcessingAreHeld'
    BY DEF WorkInv, WorkParts, ProcessingAreHeld
  <1> QED
    BY <1>2, <1>3, <1>4 DEF WorkParts

(* Without items, queue and busy workers the counters are at zero.         *)
LEMMA EmptyIsFine ==
    ASSUME queue = <<>>, metrics = NoMetrics,
           \A n \in Tickets : items[n].status = "NONE" /\ ~items[n].event,
           \A w \in Workers : ~Busy(w)
    PROVE  WorkParts
  <1>1. Cardinality(BusyWorkers) = 0
    BY FS_EmptySet DEF BusyWorkers
  <1>2. CountersAgree
    BY <1>1 DEF CountersAgree, NoMetrics
  <1> QED
    BY <1>2 DEF WorkParts, QueuedAreWaiting, ProcessingAreHeld, EventsAreFinal, ServedInOrder, Final

LEMMA InitWork == Init => WorkInv
  <1> SUFFICES ASSUME Init PROVE WorkInv
    OBVIOUS
  <1>1. /\ queue = <<>> /\ metrics = NoMetrics
        /\ \A n \in Tickets : items[n].status = "NONE" /\ ~items[n].event
        /\ \A w \in Workers : ~Busy(w)
    BY DEF Init, NoItem, OffWorker, Busy
  <1> QED
    BY <1>1, EmptyIsFine, InitInv DEF WorkInv

LEMMA StartupWork == ASSUME WorkInv, Startup PROVE WorkParts'
  <1>1. phase = "down" /\ phase' = "up" /\ UNCHANGED <<queue, items, metrics>>
    BY DEF Startup
  <1>2. \A w \in Workers : ~Busy(w) /\ ~Busy(w)'
    BY <1>1 DEF WorkInv, QueueInv, DownMeansEmpty, WorkersConsistent, WorkerAt, Busy, Startup, IdleWorker
  <1>3. \A n \in Tickets : items[n].status = "NONE"
    BY <1>1 DEF WorkInv, QueueInv, DownMeansEmpty
  <1>4. BusyWorkers' = BusyWorkers
    BY <1>2 DEF BusyWorkers
  <1>5. CountersAgree'
    BY <1>1, <1>4 DEF WorkInv, WorkParts, CountersAgree
  <1>6. ProcessingAreHeld' /\ ServedInOrder' /\ QueuedAreWaiting'
    BY <1>1, <1>3 DEF ProcessingAreHeld, ServedInOrder, QueuedAreWaiting
  <1>7. EventsAreFinal'
    BY <1>1 DEF WorkInv, WorkParts, EventsAreFinal
  <1> QED
    BY <1>5, <1>6, <1>7 DEF WorkParts

LEMMA StopWork == ASSUME WorkInv, Stop \/ StopDone PROVE WorkParts'
  <1>1. phase' \in {"stopping", "stopped"} /\ UNCHANGED <<queue, items, metrics>>
    BY DEF Stop, StopDone, memoryVars
  <1> QED
    BY <1>1 DEF WorkInv, WorkParts, QueuedAreWaiting, ProcessingAreHeld, EventsAreFinal,
                ServedInOrder, CountersAgree

LEMMA ProcessDiesWork == ASSUME ProcessDies PROVE WorkParts'
  <1>1. /\ queue' = <<>> /\ metrics' = NoMetrics
        /\ \A n \in Tickets : items'[n].status = "NONE" /\ ~items'[n].event
        /\ \A w \in Workers : ~Busy(w)'
    BY DEF ProcessDies, NoItem, OffWorker, Busy
  <1>2. Cardinality(BusyWorkers') = 0
    BY <1>1, FS_EmptySet DEF BusyWorkers
  <1>3. CountersAgree'
    BY <1>1, <1>2 DEF CountersAgree, NoMetrics
  <1> QED
    BY <1>1, <1>3 DEF WorkParts, QueuedAreWaiting, ProcessingAreHeld, EventsAreFinal, ServedInOrder, Final

-------------------------------------------------------------------------------
(* The busy workers after a worker has taken or put down an item.          *)
LEMMA BusyMore ==
    ASSUME QueueInv, NEW w \in Workers, ~Busy(w), Busy(w)',
           \A v \in Workers \ {w} : worker'[v].item = worker[v].item
    PROVE  Cardinality(BusyWorkers') = Cardinality(BusyWorkers) + 1
  <1>1. BusyWorkers' = BusyWorkers \union {w} /\ w \notin BusyWorkers
    BY DEF BusyWorkers, Busy
  <1>2. IsFiniteSet(BusyWorkers)
    BY ConstantsAssumption, FS_Subset DEF BusyWorkers
  <1> QED
    BY <1>1, <1>2, FS_AddElement

LEMMA BusyLess ==
    ASSUME QueueInv, NEW w \in Workers, Busy(w), ~Busy(w)',
           \A v \in Workers \ {w} : worker'[v].item = worker[v].item
    PROVE  /\ Cardinality(BusyWorkers) \in Nat \ {0}
           /\ Cardinality(BusyWorkers') = Cardinality(BusyWorkers) - 1
  <1>1. BusyWorkers' = BusyWorkers \ {w} /\ w \in BusyWorkers
    BY DEF BusyWorkers, Busy
  <1>2. IsFiniteSet(BusyWorkers)
    BY ConstantsAssumption, FS_Subset DEF BusyWorkers
  <1>3. Cardinality(BusyWorkers) \in Nat /\ Cardinality(BusyWorkers) # 0
    BY <1>1, <1>2, FS_CardinalityType, FS_EmptySet
  <1> QED
    BY <1>1, <1>2, <1>3, FS_RemoveElement

LEMMA EnqueueWork ==
    ASSUME WorkInv, NEW r \in Requests, NEW reply, Enqueue(r, reply)
    PROVE  WorkParts'
  <1> DEFINE k == nextNumber
  <1>1. /\ phase = "up" /\ phase' = "up" /\ UNCHANGED worker
        /\ k \in Tickets /\ queue' = Append(queue, k)
        /\ metrics' = [metrics EXCEPT !.enqueued = @ + 1]
    BY DEF Enqueue
  <1>2. /\ \A n \in Tickets \ {k} : items'[n] = items[n]
        /\ items'[k].status = "QUEUED" /\ items'[k].event = FALSE
    BY <1>1 DEF Enqueue, WorkInv, QueueInv, TypeOK
  <1>3. items[k].status = "NONE" /\ \A n \in Tickets : items[n].status # "NONE" => n < k
    BY <1>1 DEF WorkInv, QueueInv, ItemsMatchTickets, TypeOK, Tickets
  <1>4. /\ queue \in Seq(Tickets) /\ Len(queue) \in Nat /\ Len(queue') = Len(queue) + 1
        /\ \A i \in DOMAIN queue : i \in DOMAIN queue' /\ queue'[i] = queue[i]
        /\ Len(queue') \in DOMAIN queue' /\ queue'[Len(queue')] = k
    BY <1>1 DEF WorkInv, QueueInv, TypeOK
  <1>5. QueuedAreWaiting'
    BY <1>2, <1>4 DEF WorkInv, WorkParts, QueuedAreWaiting
  <1>6. ProcessingAreHeld'
    BY <1>1, <1>2 DEF WorkInv, WorkParts, ProcessingAreHeld
  <1>7. EventsAreFinal'
    BY <1>1, <1>2 DEF WorkInv, WorkParts, EventsAreFinal, Final
  <1>8. ServedInOrder'
    BY <1>2, <1>3 DEF WorkInv, WorkParts, ServedInOrder, Final
  <1>9. CountersAgree'
    <2>1. /\ metrics'.enqueued = metrics.enqueued + 1 /\ metrics'.processing = metrics.processing
          /\ metrics'.completed = metrics.completed /\ metrics'.failed = metrics.failed
          /\ metrics \in Counters
      BY <1>1 DEF WorkInv, QueueInv, TypeOK, Counters
    <2>2. BusyWorkers' = BusyWorkers
      BY <1>1 DEF BusyWorkers, Busy
    <2> QED
      BY <1>1, <1>4, <2>1, <2>2 DEF WorkInv, WorkParts, CountersAgree, Counters
  <1> QED
    BY <1>5, <1>6, <1>7, <1>8, <1>9 DEF WorkParts

(* The head goes to status s: the rest of the queue waits behind it.       *)
LEMMA DequeuedInOrder ==
    ASSUME WorkInv, queue # <<>>, queue' = Tail(queue), NEW k \in Tickets, k = Head(queue),
           \A n \in Tickets \ {k} : items'[n] = items[n],
           items'[k].status \in {"PROCESSING", "FAILED"}
    PROVE  /\ QueuedAreWaiting' /\ ServedInOrder'
           /\ Len(queue) \in Nat \ {0} /\ Len(queue') = Len(queue) - 1
  <1>1. queue \in Seq(Tickets) /\ Len(queue) \in Nat \ {0} /\ Len(queue') = Len(queue) - 1
    BY DEF WorkInv, QueueInv, TypeOK
  <1>2. \A n \in Tickets \ {k} : items[n].status = "QUEUED" => \E i \in DOMAIN queue' : queue'[i] = n
    <2> SUFFICES ASSUME NEW n \in Tickets \ {k}, items[n].status = "QUEUED"
                 PROVE  \E i \in DOMAIN queue' : queue'[i] = n
      OBVIOUS
    <2>1. PICK i \in DOMAIN queue : queue[i] = n
      BY DEF WorkInv, WorkParts, QueuedAreWaiting
    <2>2. i \in 2..Len(queue)
      BY <1>1, <2>1
    <2>3. i - 1 \in DOMAIN queue' /\ queue'[i - 1] = queue[i]
      BY <1>1, <2>2
    <2> QED
      BY <2>1, <2>3
  <1>3. QueuedAreWaiting'
    BY <1>2 DEF QueuedAreWaiting
  <1>4. \A n \in Tickets \ {k} : items[n].status = "QUEUED" => k < n
    <2> SUFFICES ASSUME NEW n \in Tickets \ {k}, items[n].status = "QUEUED" PROVE k < n
      OBVIOUS
    <2>1. PICK i \in DOMAIN queue' : queue'[i] = n
      BY <1>2
    <2>2. queue'[i] > Head(queue)
      BY DequeueEffect DEF WorkInv
    <2> QED
      BY <2>1, <2>2 DEF Tickets
  <1>5. ServedInOrder'
    BY <1>4 DEF WorkInv, WorkParts, ServedInOrder, Final
  <1> QED
    BY <1>1, <1>3, <1>5

LEMMA DequeueWork == ASSUME WorkInv, NEW w \in Workers, Dequeue(w) PROVE WorkParts'
  <1> DEFINE k == Head(queue)
  <1>1. /\ phase = "up" /\ phase' = "up" /\ worker[w].pc = "get" /\ queue # <<>>
        /\ queue' = Tail(queue) /\ metrics' = [metrics EXCEPT !.processing = @ + 1]
    BY DEF Dequeue
  <1>2. k \in Tickets /\ items[k].status = "QUEUED"
    BY <1>1, DequeueEffect DEF WorkInv
  <1>3. /\ \A n \in Tickets \ {k} : items'[n] = items[n]
        /\ items'[k].status = "PROCESSING" /\ items'[k].event = items[k].event
    BY <1>2 DEF Dequeue, WorkInv, QueueInv, TypeOK, Items
  <1>4. /\ worker'[w].item = k /\ k # 0
        /\ \A v \in Workers \ {w} : worker'[v] = worker[v]
    BY <1>2 DEF Dequeue, WorkInv, QueueInv, TypeOK, Tickets
  <1>5. ~Busy(w)
    BY <1>1 DEF WorkInv, QueueInv, WorkersConsistent, WorkerAt
  <1>6. /\ QueuedAreWaiting' /\ ServedInOrder'
        /\ Len(queue) \in Nat \ {0} /\ Len(queue') = Len(queue) - 1
    BY <1>1, <1>2, <1>3, DequeuedInOrder
  <1>7. ProcessingAreHeld'
    <2> SUFFICES ASSUME NEW n \in Tickets \ {k}, items[n].status = "PROCESSING"
                 PROVE  \E v \in Workers : worker'[v].item = n
      BY <1>3, <1>4 DEF ProcessingAreHeld
    <2>1. PICK v \in Workers : worker[v].item = n
      BY <1>1 DEF WorkInv, WorkParts, ProcessingAreHeld
    <2>2. v # w
      BY <1>5, <2>1 DEF Busy, Tickets
    <2> QED
      BY <1>4, <2>1, <2>2
  <1>8. EventsAreFinal'
    BY <1>1, <1>2, <1>3 DEF WorkInv, WorkParts, EventsAreFinal, Final
  <1>9. CountersAgree'
    <2>1. /\ metrics'.enqueued = metrics.enqueued /\ metrics'.processing = metrics.processing + 1
          /\ metrics'.completed = metrics.completed /\ metrics'.failed = metrics.failed
          /\ metrics \in Counters
      BY <1>1 DEF WorkInv, QueueInv, TypeOK, Counters
    <2>2. Cardinality(BusyWorkers') = Cardinality(BusyWorkers) + 1
      BY <1>4, <1>5, BusyMore DEF WorkInv, Busy
    <2> QED
      BY <1>1, <1>6, <2>1, <2>2 DEF WorkInv, WorkParts, CountersAgree, Counters
  <1> QED
    BY <1>6, <1>7, <1>8, <1>9 DEF WorkParts

LEMMA DequeueInvalidWork == ASSUME WorkInv, NEW w \in Workers, DequeueInvalid(w) PROVE WorkParts'
  <1> DEFINE k == Head(queue)
  <1>1. /\ phase = "up" /\ phase' = "up" /\ queue # <<>> /\ queue' = Tail(queue) /\ UNCHANGED worker
        /\ metrics' = [metrics EXCEPT !.processing = OneLess(@ + 1), !.failed = @ + 1]
    BY DEF DequeueInvalid
  <1>2. k \in Tickets /\ items[k].status = "QUEUED"
    BY <1>1, DequeueEffect DEF WorkInv
  <1>3. /\ \A n \in Tickets \ {k} : items'[n] = items[n]
        /\ items'[k].status = "FAILED" /\ items'[k].event = TRUE
    BY <1>2 DEF DequeueInvalid, Ended, WorkInv, QueueInv, TypeOK, Items
  <1>4. /\ QueuedAreWaiting' /\ ServedInOrder'
        /\ Len(queue) \in Nat \ {0} /\ Len(queue') = Len(queue) - 1
    BY <1>1, <1>2, <1>3, DequeuedInOrder
  <1>5. ProcessingAreHeld'
    BY <1>1, <1>3 DEF WorkInv, WorkParts, ProcessingAreHeld
  <1>6. EventsAreFinal'
    BY <1>1, <1>3 DEF WorkInv, WorkParts, EventsAreFinal, Final
  <1>7. CountersAgree'
    <2>0. metrics \in Counters
      BY DEF WorkInv, QueueInv, TypeOK
    <2>1. /\ metrics'.enqueued = metrics.enqueued /\ metrics'.processing = metrics.processing
          /\ metrics'.completed = metrics.completed /\ metrics'.failed = metrics.failed + 1
      <3>1. OneLess(metrics.processing + 1) = metrics.processing
        BY <2>0 DEF Counters, OneLess
      <3> QED
        BY <1>1, <2>0, <3>1 DEF Counters
    <2>2. BusyWorkers' = BusyWorkers
      BY <1>1 DEF BusyWorkers, Busy
    <2> QED
      BY <1>1, <1>4, <2>0, <2>1, <2>2 DEF WorkInv, WorkParts, CountersAgree, Counters
  <1> QED
    BY <1>4, <1>5, <1>6, <1>7 DEF WorkParts

LEMMA FinishWork ==
    ASSUME WorkInv, NEW w \in Workers, Complete(w) \/ Fail(w)
    PROVE  WorkParts'
  <1> DEFINE k == worker[w].item
  <1>1. PICK status \in Final, from \in {"close", "abort"} : Finish(w, from, status)
    BY DEF Complete, Fail, Final
  <1>2. /\ phase = "up" /\ phase' = "up" /\ queue' = queue /\ Busy(w)
    BY <1>1 DEF Finish, WorkInv, QueueInv, WorkersConsistent, WorkerAt
  <1>3. k \in Tickets /\ items[k].status = "PROCESSING"
    BY <1>2 DEF WorkInv, QueueInv, WorkersConsistent, WorkerAt, Busy, TypeOK, WorkerStates
  <1>4. /\ \A n \in Tickets \ {k} : items'[n] = items[n]
        /\ items'[k].status = status /\ items'[k].event = TRUE
    BY <1>1, <1>3 DEF Finish, Ended, WorkInv, QueueInv, TypeOK, Items
  <1>5. /\ worker'[w].item = 0
        /\ \A v \in Workers \ {w} : worker'[v] = worker[v]
    BY <1>1 DEF Finish, IdleWorker, WorkInv, QueueInv, TypeOK
  <1>6. QueuedAreWaiting' /\ ServedInOrder'
    BY <1>1, <1>2, <1>3, <1>4 DEF WorkInv, WorkParts, QueuedAreWaiting, ServedInOrder, Final
  <1>7. ProcessingAreHeld'
    BY <1>1, <1>2, <1>4, <1>5 DEF WorkInv, WorkParts, ProcessingAreHeld, Final
  <1>8. EventsAreFinal'
    BY <1>1, <1>2, <1>4 DEF WorkInv, WorkParts, EventsAreFinal, Final
  <1>9. CountersAgree'
    <2>1. /\ Cardinality(BusyWorkers) \in Nat \ {0}
          /\ Cardinality(BusyWorkers') = Cardinality(BusyWorkers) - 1
      BY <1>2, <1>5, BusyLess DEF WorkInv, Busy
    <2>2. metrics.processing = Cardinality(BusyWorkers) /\ metrics \in Counters
      BY <1>2 DEF WorkInv, WorkParts, CountersAgree, QueueInv, TypeOK
    <2>3. /\ metrics'.enqueued = metrics.enqueued /\ metrics'.processing = metrics.processing - 1
          /\ metrics'.completed + metrics'.failed = metrics.completed + metrics.failed + 1
      BY <1>1, <2>1, <2>2 DEF Finish, Counters, OneLess, Final
    <2>4. Len(queue) \in Nat /\ metrics'.completed \in Nat /\ metrics'.failed \in Nat
      BY <1>1, <2>2 DEF WorkInv, QueueInv, TypeOK, Finish, Counters
    <2> QED
      BY <1>2, <2>1, <2>2, <2>3, <2>4 DEF WorkInv, WorkParts, CountersAgree, Counters
  <1> QED
    BY <1>6, <1>7, <1>8, <1>9 DEF WorkParts

LEMMA CancelWork == ASSUME WorkInv, NEW w \in Workers, CancelWorker(w) PROVE WorkParts'
  <1>1. phase = "stopping" /\ phase' = "stopping" /\ queue' = queue
    BY DEF CancelWorker
  <1>2. \A n \in Tickets : items'[n].status = items[n].status
    BY DEF CancelWorker, WorkInv, QueueInv, TypeOK, Items
  <1> QED
    BY <1>1, <1>2 DEF WorkInv, WorkParts, QueuedAreWaiting, ProcessingAreHeld, EventsAreFinal,
                      ServedInOrder, CountersAgree

LEMMA StepWork == WorkInv /\ [Next]_vars => WorkInv'
  <1> SUFFICES ASSUME WorkInv, [Next]_vars PROVE WorkInv'
    OBVIOUS
  <1>1. QueueInv'
    BY StepInv DEF WorkInv
  <1>2. CASE Startup \/ Stop \/ StopDone \/ ProcessDies
    BY <1>1, <1>2, StartupWork, StopWork, ProcessDiesWork DEF WorkInv
  <1>3. ASSUME NEW r \in Requests, EnqueueAndWait(r) \/ EnqueueAsync(r) PROVE WorkInv'
    BY <1>1, <1>3, EnqueueWork DEF WorkInv, EnqueueAndWait, EnqueueAsync
  <1>4. ASSUME UNCHANGED <<phase, queue, items, metrics>>,
               \A w \in Workers : worker'[w].item = worker[w].item
        PROVE  WorkInv'
    BY <1>1, <1>4, QuietKeeps DEF WorkInv
  <1>5. ASSUME NEW r \in Requests, WaitReturns(r) \/ WaitTimeout(r) PROVE WorkInv'
    BY <1>4, <1>5 DEF WaitReturns, WaitTimeout, memoryVars
  <1>6. ASSUME NEW o \in Leaving, DeleteTenant(o) PROVE WorkInv'
    BY <1>4, <1>6 DEF DeleteTenant, memoryVars
  <1>7. CASE UNCHANGED vars
    BY <1>4, <1>7 DEF vars, memoryVars
  <1>8. ASSUME NEW w \in Workers,
               InsertRecord(w) \/ ExplainRecord(w) \/ StatementFails(w) \/ Commit(w) \/ CommitFails(w)
        PROVE  WorkInv'
    <2>1. UNCHANGED <<phase, queue, items, metrics>>
      BY <1>8 DEF InsertRecord, ExplainRecord, StatementFails, Commit, CommitFails
    <2>2. ASSUME ExplainRecord(w) PROVE \A v \in Workers : worker'[v].item = worker[v].item
      BY <2>2 DEF ExplainRecord, WorkInv, QueueInv, TypeOK, WorkerStates
    <2>3. ASSUME ~ExplainRecord(w) PROVE \A v \in Workers : worker'[v].item = worker[v].item
      <3>1. PICK from, to : Goto(w, from, to)
        BY <1>8, <2>3 DEF InsertRecord, StatementFails, Commit, CommitFails
      <3> QED
        BY <3>1, GotoEffect DEF WorkInv, QueueInv
    <2> QED
      BY <1>4, <2>1, <2>2, <2>3
  <1>9. ASSUME NEW w \in Workers, WorkerStep(w) PROVE WorkInv'
    BY <1>1, <1>8, <1>9, DequeueWork, DequeueInvalidWork, FinishWork DEF WorkerStep, WorkInv
  <1>10. ASSUME NEW w \in Workers, CancelWorker(w) PROVE WorkInv'
    BY <1>1, <1>10, CancelWork DEF WorkInv
  <1> QED
    BY <1>2, <1>3, <1>5, <1>6, <1>7, <1>9, <1>10 DEF Next

(* The inductive invariant of the work: every reachable state.             *)
THEOREM WorkInvariant == Spec => []WorkInv
  BY InitWork, StepWork, PTL DEF Spec

(* No ticket is lost and none is served twice: a queued one is in the      *)
(* queue once, one being processed with one worker, and any other nowhere. *)
THEOREM NothingLostOrServedTwice == Spec => []TicketInOnePlace
  <1>1. WorkInv => TicketInOnePlace
    <2> SUFFICES ASSUME WorkInv, phase = "up", NEW n \in Tickets
                 PROVE  /\ Cardinality({i \in DOMAIN queue : queue[i] = n})
                             = IF items[n].status = "QUEUED" THEN 1 ELSE 0
                        /\ Cardinality(HeldBy(n)) = IF items[n].status = "PROCESSING" THEN 1 ELSE 0
      BY DEF TicketInOnePlace
    <2>1. ASSUME items[n].status = "QUEUED"
          PROVE  Cardinality({i \in DOMAIN queue : queue[i] = n}) = 1
      <3>1. PICK i \in DOMAIN queue : queue[i] = n
        BY <2>1 DEF WorkInv, WorkParts, QueuedAreWaiting
      <3>2. \A j \in DOMAIN queue : queue[j] = n => j = i
        <4> SUFFICES ASSUME NEW j \in DOMAIN queue, queue[j] = n, j # i PROVE FALSE
          OBVIOUS
        <4>1. i \in Nat /\ j \in Nat /\ n \in Nat
          BY DEF WorkInv, QueueInv, TypeOK, Tickets
        <4>2. i < j \/ j < i
          BY <4>1
        <4> QED
          BY <3>1, <4>1, <4>2 DEF WorkInv, QueueInv, QueueConsistent
      <3>3. {j \in DOMAIN queue : queue[j] = n} = {i}
        BY <3>1, <3>2
      <3> QED
        BY <3>3, FS_Singleton
    <2>2. ASSUME items[n].status # "QUEUED"
          PROVE  Cardinality({i \in DOMAIN queue : queue[i] = n}) = 0
      <3>1. {j \in DOMAIN queue : queue[j] = n} = {}
        BY <2>2 DEF WorkInv, QueueInv, QueueConsistent
      <3> QED
        BY <3>1, FS_EmptySet
    <2>3. ASSUME items[n].status = "PROCESSING" PROVE Cardinality(HeldBy(n)) = 1
      <3>1. PICK w \in Workers : worker[w].item = n
        BY <2>3 DEF WorkInv, WorkParts, ProcessingAreHeld
      <3>2. HeldBy(n) = {w}
        BY <3>1 DEF HeldBy, WorkInv, QueueInv, OneWorkerPerItem, Busy, Tickets
      <3> QED
        BY <3>2, FS_Singleton
    <2>4. ASSUME items[n].status # "PROCESSING" PROVE Cardinality(HeldBy(n)) = 0
      <3>1. HeldBy(n) = {}
        BY <2>4 DEF HeldBy, WorkInv, QueueInv, WorkersConsistent, WorkerAt, Busy, Tickets
      <3> QED
        BY <3>1, FS_EmptySet
    <2> QED
      BY <2>1, <2>2, <2>3, <2>4
  <1> QED
    BY <1>1, WorkInvariant, PTL

(* The counters account for every entry of this life.                      *)
THEOREM CountersAreRight == Spec => []MetricsConserved
  <1>1. WorkInv => MetricsConserved
    BY DEF WorkInv, WorkParts, CountersAgree, BusyWorkers, MetricsConserved
  <1> QED
    BY <1>1, WorkInvariant, PTL

(* First come, first served, with any number of workers.                   *)
THEOREM FirstComeFirstServed == Spec => []ServedInOrder
  <1>1. WorkInv => ServedInOrder
    BY DEF WorkInv, WorkParts
  <1> QED
    BY <1>1, WorkInvariant, PTL

(* Whoever waits, waits on its own entry, and is woken by its final status *)
(* and by nothing else.                                                    *)
THEOREM NoWakeUpLost == Spec => []WaiterSeesOwnOutcome
  <1>1. WorkInv => WaiterSeesOwnOutcome
    <2> SUFFICES ASSUME WorkInv, phase = "up", NEW r \in Requests, call[r] = "waiting"
                 PROVE  /\ items[ticketOf[r]].request = r
                        /\ items[ticketOf[r]].event <=> items[ticketOf[r]].status \in Final
      BY DEF WaiterSeesOwnOutcome
    <2>1. ticketOf[r] \in Tickets
      BY DEF WorkInv, QueueInv, AcceptedHaveTickets, TypeOK
    <2>2. items[ticketOf[r]].request = r
      BY DEF WorkInv, QueueInv, WaitersHaveItems
    <2>3. items[ticketOf[r]].event <=> items[ticketOf[r]].status \in Final
      BY <2>1 DEF WorkInv, WorkParts, EventsAreFinal
    <2> QED
      BY <2>2, <2>3
  <1> QED
    BY <1>1, WorkInvariant, PTL
===============================================================================

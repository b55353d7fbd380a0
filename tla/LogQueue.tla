------------------------------- MODULE LogQueue -------------------------------
(***************************************************************************)
(* The log ingestion queue of the backend: LogQueueManager                 *)
(* (modules/log/queue.py), the triage-and-persist pipeline its workers run *)
(* (modules/log/service.py, modules/log/repository.py), the endpoints that *)
(* feed it (modules/log/api.py) and the lifespan that starts and stops it  *)
(* (main.py), over several lives of the process and one database.          *)
(*                                                                         *)
(* The code is single-threaded asyncio: a step of this module is what runs *)
(* between two awaits that really suspend.  Taking a ticket and queueing   *)
(* it suspends nowhere (the lock is free and the queue is unbounded), so   *)
(* it is one step; a worker suspends at the queue, at each database round  *)
(* trip and when the session closes.                                       *)
(***************************************************************************)
EXTENDS Naturals, Sequences, FiniteSets

CONSTANTS Requests,           \* the log entries submitted, each once
          Orgs,               \* tenants
          OrgOf,              \* the tenant a request is submitted for
          Leaving,            \* the tenants whose account may be deleted
          Batches,            \* the batch calls: sequences of requests
          Blank,              \* requests left without content by sanitising
          Workers,            \* the worker tasks of one life
          MaxTicket,          \* bound on ticket numbers
          MaxLives,           \* bound on starts of the process
          NoRequest           \* no request

Tickets == 1..MaxTicket

ASSUME ConstantsAssumption ==
    /\ NoRequest \notin Requests
    /\ OrgOf \in [Requests -> Orgs]
    /\ Leaving \subseteq Orgs
    /\ Batches \subseteq Seq(Requests)
    /\ Blank \subseteq Requests
    /\ IsFiniteSet(Workers)
    /\ MaxTicket \in Nat /\ MaxLives \in Nat

VARIABLES phase,         \* of the process: "down", "up", "stopping", "stopped"
          life,          \* how often the process was started
          synced,        \* history: did this life start with all stored numbers known?
          nextNumber,    \* _next_queue_number
          queue,         \* _queue: the tickets waiting for a worker
          items,         \* _items, by ticket
          worker,        \* what each worker task is doing
          metrics,       \* the four counters
          logRecords,    \* committed rows of log_records, by queue_number
          flagged,       \* the rows with has_explainability set
          explainability,\* committed rows of log_explainability, by queue_number
          deleted,       \* the tenants whose organization row was deleted
          call,          \* what the client of each request knows
          ticketOf       \* the ticket a request was given, 0 before that

memoryVars == <<nextNumber, queue, items, worker, metrics>>
dbVars     == <<logRecords, flagged, explainability, deleted>>
clientVars == <<call, ticketOf>>
vars == <<phase, life, synced, memoryVars, dbVars, clientVars>>

NoItem     == [request |-> NoRequest, status |-> "NONE", event |-> FALSE]
IdleWorker == [pc |-> "get", item |-> 0, explain |-> FALSE, explained |-> FALSE]
OffWorker  == [pc |-> "off", item |-> 0, explain |-> FALSE, explained |-> FALSE]
NoMetrics  == [enqueued |-> 0, processing |-> 0, completed |-> 0, failed |-> 0]
Answered   == {"ok", "failed", "timeout"}

Statuses == {"NONE", "QUEUED", "PROCESSING", "COMPLETED", "FAILED"}
Steps    == {"off", "get", "insert", "explain", "commit", "close", "abort"}

Items        == [request : Requests \union {NoRequest}, status : Statuses, event : BOOLEAN]
WorkerStates == [pc : Steps, item : Tickets \union {0}, explain : BOOLEAN, explained : BOOLEAN]
Counters     == [enqueued : Nat, processing : Nat, completed : Nat, failed : Nat]
Calls        == {"new", "waiting", "ticket", "dropped"} \union Answered

TypeOK ==
    /\ phase \in {"down", "up", "stopping", "stopped"}
    /\ life \in 0..MaxLives
    /\ synced \in BOOLEAN
    /\ nextNumber \in Nat
    /\ queue \in Seq(Tickets)
    /\ items \in [Tickets -> Items]
    /\ worker \in [Workers -> WorkerStates]
    /\ metrics \in Counters
    /\ logRecords \in [Tickets -> Requests \union {NoRequest}]
    /\ flagged \subseteq Tickets
    /\ explainability \subseteq Tickets
    /\ deleted \subseteq Leaving
    /\ call \in [Requests -> Calls]
    /\ ticketOf \in [Requests -> Tickets \union {0}]

Init ==
    /\ phase = "down"
    /\ life = 0
    /\ synced = FALSE
    /\ nextNumber = 1
    /\ queue = <<>>
    /\ items = [n \in Tickets |-> NoItem]
    /\ worker = [w \in Workers |-> OffWorker]
    /\ metrics = NoMetrics
    /\ logRecords = [n \in Tickets |-> NoRequest]
    /\ flagged = {}
    /\ explainability = {}
    /\ deleted = {}
    /\ call = [r \in Requests |-> "new"]
    /\ ticketOf = [r \in Requests |-> 0]

-------------------------------------------------------------------------------
(* The lifespan: startup, shutdown, and the process going away. *)

Stored == {n \in Tickets : logRecords[n] # NoRequest}

IsMaxStored(m) == /\ m \in Stored \union {0}
                  /\ \A n \in Stored : n <= m

(* Mutant: the counter continues at the highest stored number itself.      *)
FirstNumberReused(n, read) ==
    IF read THEN \E m \in Tickets \union {0} : IsMaxStored(m) /\ n = IF m = 0 THEN 1 ELSE m
            ELSE n = 1

(* initialize(): the counter continues after the highest stored number, or *)
(* from 1 when the database could not be read.                             *)
FirstNumber(n, read) ==
    IF read THEN \E m \in Tickets \union {0} : IsMaxStored(m) /\ n = m + 1 ELSE n = 1

(* initialize() returns either way, and start() creates the workers.  A    *)
(* read that fails while nothing is stored leaves nothing unknown.         *)
Startup ==
    /\ phase = "down" /\ life < MaxLives
    /\ phase' = "up"
    /\ life' = life + 1
    /\ \E n \in 1..(MaxTicket + 1), read \in BOOLEAN :
         /\ FirstNumber(n, read) /\ nextNumber' = n
         /\ synced' = (read \/ Stored = {})
    /\ worker' = [w \in Workers |-> IdleWorker]
    /\ UNCHANGED <<queue, items, metrics, dbVars, clientVars>>

(* stop(): every worker task is cancelled and then awaited. *)
Stop ==
    /\ phase = "up"
    /\ phase' = "stopping"
    /\ UNCHANGED <<life, synced, memoryVars, dbVars, clientVars>>

StopDone ==
    /\ phase = "stopping"
    /\ \A w \in Workers : worker[w].pc = "off"
    /\ phase' = "stopped"
    /\ UNCHANGED <<life, synced, memoryVars, dbVars, clientVars>>

-------------------------------------------------------------------------------
(* Ingestion: POST /logs/ingest and POST /logs/batch. *)

(* A batch awaits one entry after the other. *)
EarlierInBatchAnswered(r) ==
    \A b \in Batches : \A j \in DOMAIN b : b[j] = r =>
        \A i \in 1..(j - 1) : call[b[i]] \in Answered

InBatch(r) == \E b \in Batches : \E j \in DOMAIN b : b[j] = r

(* Mutant: entries are put in front of those already waiting.              *)
EnqueueInFront(r, reply) ==
    /\ phase = "up" /\ call[r] = "new" /\ EarlierInBatchAnswered(r) /\ nextNumber \in Tickets
    /\ nextNumber' = nextNumber + 1
    /\ metrics' = [metrics EXCEPT !.enqueued = @ + 1]
    /\ items' = [items EXCEPT ![nextNumber] =
                   [request |-> r, status |-> "QUEUED", event |-> FALSE]]
    /\ queue' = <<nextNumber>> \o queue
    /\ ticketOf' = [ticketOf EXCEPT ![r] = nextNumber]
    /\ call' = [call EXCEPT ![r] = reply]
    /\ UNCHANGED <<phase, life, synced, worker, dbVars>>

(* _assign_queue_number and the queueing both enqueue operations share;    *)
(* what tells them apart is what the client gets.  The tenant was          *)
(* authenticated before and may be deleted by now.                         *)
Enqueue(r, reply) ==
    /\ phase = "up"
    /\ call[r] = "new" /\ EarlierInBatchAnswered(r)
    /\ nextNumber \in Tickets
    /\ nextNumber' = nextNumber + 1
    /\ metrics' = [metrics EXCEPT !.enqueued = @ + 1]
    /\ items' = [items EXCEPT ![nextNumber] =
                   [request |-> r, status |-> "QUEUED", event |-> FALSE]]
    /\ queue' = Append(queue, nextNumber)
    /\ ticketOf' = [ticketOf EXCEPT ![r] = nextNumber]
    /\ call' = [call EXCEPT ![r] = reply]
    /\ UNCHANGED <<phase, life, synced, worker, dbVars>>

EnqueueAndWait(r) == Enqueue(r, "waiting")

EnqueueAsync(r) == ~InBatch(r) /\ Enqueue(r, "ticket")

(* Mutant: only FAILED is treated as a failure, an entry left without a    *)
(* result is not.                                                          *)
WaitReturnsAnyway(r) ==
    /\ phase # "down" /\ call[r] = "waiting" /\ items[ticketOf[r]].event
    /\ call' = [call EXCEPT ![r] = IF items[ticketOf[r]].status = "FAILED" THEN "failed" ELSE "ok"]
    /\ UNCHANGED <<phase, life, synced, memoryVars, dbVars, ticketOf>>

(* The awaiting handler resumes: it returns the result, or raises when the *)
(* entry failed or finished without one.                                   *)
WaitReturns(r) ==
    /\ phase # "down" /\ call[r] = "waiting"
    /\ LET item == items[ticketOf[r]] IN
         /\ item.event
         /\ call' = [call EXCEPT ![r] = IF item.status = "COMPLETED" THEN "ok" ELSE "failed"]
    /\ UNCHANGED <<phase, life, synced, memoryVars, dbVars, ticketOf>>

(* wait_for gives up; the entry stays queued and is still processed. *)
WaitTimeout(r) ==
    /\ phase # "down" /\ call[r] = "waiting"
    /\ call' = [call EXCEPT ![r] = "timeout"]
    /\ UNCHANGED <<phase, life, synced, memoryVars, dbVars, ticketOf>>

-------------------------------------------------------------------------------
(* The worker loop and the pipeline it runs for each entry. *)

(* The transactions of the workers of S become visible: the row, its       *)
(* has_explainability flag, and the explanation if it was flushed.         *)
Publish(S) ==
    /\ logRecords' = [n \in Tickets |-> IF \E w \in S : worker[w].item = n
                                        THEN items[n].request ELSE logRecords[n]]
    /\ flagged' = flagged \union {n \in Tickets : \E w \in S : worker[w].item = n /\ worker[w].explain}
    /\ explainability' = explainability \union
         {n \in Tickets : \E w \in S : worker[w].item = n /\ worker[w].explained}
    /\ UNCHANGED deleted

(* Mutant: the event is set on success only. *)
EndedQuietly(item, status) == [item EXCEPT !.status = status, !.event = status = "COMPLETED"]

(* How the finally block leaves an item, and the counter it lowers. *)
Ended(item, status) == [item EXCEPT !.status = status, !.event = TRUE]

OneLess(k) == IF k = 0 THEN 0 ELSE k - 1

Goto(w, from, to) ==
    /\ phase = "up" /\ worker[w].pc = from
    /\ worker' = [worker EXCEPT ![w].pc = to]

(* The item is handed to a worker, which runs the classifier and, when     *)
(* explain says so, the explanation engine before it first suspends.       *)
Dequeue(w) ==
    /\ phase = "up" /\ worker[w].pc = "get"
    /\ queue # <<>> /\ items[Head(queue)].request \notin Blank
    /\ queue' = Tail(queue)
    /\ items' = [items EXCEPT ![Head(queue)].status = "PROCESSING"]
    /\ metrics' = [metrics EXCEPT !.processing = @ + 1]
    /\ \E explain \in BOOLEAN :
         worker' = [worker EXCEPT ![w] =
           [pc |-> "insert", item |-> Head(queue), explain |-> explain, explained |-> FALSE]]
    /\ UNCHANGED <<phase, life, synced, nextNumber, dbVars, clientVars>>

(* Mutant: the rejection escapes the inner try and ends the worker task.    *)
DequeueInvalidEndsWorker(w) ==
    /\ phase = "up" /\ worker[w].pc = "get"
    /\ queue # <<>> /\ items[Head(queue)].request \in Blank
    /\ queue' = Tail(queue)
    /\ items' = [items EXCEPT ![Head(queue)].status = "PROCESSING"]
    /\ worker' = [worker EXCEPT ![w] = OffWorker]
    /\ UNCHANGED <<phase, life, synced, nextNumber, metrics, dbVars, clientVars>>

(* An entry the model input rejects fails before anything is awaited. *)
DequeueInvalid(w) ==
    /\ phase = "up" /\ worker[w].pc = "get"
    /\ queue # <<>> /\ items[Head(queue)].request \in Blank
    /\ queue' = Tail(queue)
    /\ items' = [items EXCEPT ![Head(queue)] = Ended(@, "FAILED")]
    /\ metrics' = [metrics EXCEPT !.processing = OneLess(@ + 1), !.failed = @ + 1]
    /\ UNCHANGED <<phase, life, synced, nextNumber, worker, dbVars, clientVars>>

(* Mutant: save_log_record commits the row it adds. *)
InsertRecordCommits(w) ==
    /\ Goto(w, "insert", IF worker[w].explain THEN "explain" ELSE "commit")
    /\ logRecords[worker[w].item] = NoRequest
    /\ Publish({w})
    /\ UNCHANGED <<phase, life, synced, nextNumber, queue, items, metrics, clientVars>>

(* Mutant: nothing checks that the tenant is still there. *)
InsertRecordUnchecked(w) ==
    /\ Goto(w, "insert", IF worker[w].explain THEN "explain" ELSE "commit")
    /\ logRecords[worker[w].item] = NoRequest
    /\ UNCHANGED <<phase, life, synced, nextNumber, queue, items, metrics, dbVars, clientVars>>

(* save_log_record: the flushed row must not carry a stored number, and    *)
(* its foreign key must find the tenant, whose row it locks until commit.  *)
InsertRecord(w) ==
    /\ Goto(w, "insert", IF worker[w].explain THEN "explain" ELSE "commit")
    /\ logRecords[worker[w].item] = NoRequest
    /\ OrgOf[items[worker[w].item].request] \notin deleted
    /\ UNCHANGED <<phase, life, synced, nextNumber, queue, items, metrics, dbVars, clientVars>>

(* save_explainability, in the same transaction. *)
ExplainRecord(w) ==
    /\ phase = "up" /\ worker[w].pc = "explain"
    /\ worker' = [worker EXCEPT ![w].pc = "commit", ![w].explained = TRUE]
    /\ UNCHANGED <<phase, life, synced, nextNumber, queue, items, metrics, dbVars, clientVars>>

(* A statement fails (a taken number, a deleted tenant, a lost connection) *)
(* and the transaction is rolled back.                                     *)
StatementFails(w) ==
    /\ \E pc \in {"insert", "explain"} : Goto(w, pc, "abort")
    /\ UNCHANGED <<phase, life, synced, nextNumber, queue, items, metrics, dbVars, clientVars>>

Commit(w) ==
    /\ Goto(w, "commit", "close")
    /\ Publish({w})
    /\ UNCHANGED <<phase, life, synced, nextNumber, queue, items, metrics, clientVars>>

(* Mutant: an entry whose commit failed is tried again under a new ticket. *)
CommitFailsAndRetries(w) ==
    LET r == items[worker[w].item].request IN
    /\ Goto(w, "commit", "abort")
    /\ nextNumber \in Tickets /\ nextNumber' = nextNumber + 1
    /\ items' = [items EXCEPT ![nextNumber] =
                   [request |-> r, status |-> "QUEUED", event |-> FALSE]]
    /\ queue' = Append(queue, nextNumber)
    /\ Publish({w}) \/ UNCHANGED dbVars
    /\ UNCHANGED <<phase, life, synced, metrics, clientVars>>

(* The connection is lost during the commit: the worker sees an error, the *)
(* database may or may not have committed.                                 *)
CommitFails(w) ==
    /\ Goto(w, "commit", "abort")
    /\ Publish({w}) \/ UNCHANGED dbVars
    /\ UNCHANGED <<phase, life, synced, nextNumber, queue, items, metrics, clientVars>>

(* The session is closed; the item gets its final status, and the finally  *)
(* block wakes whoever awaits it.                                          *)
Finish(w, from, status) ==
    /\ phase = "up" /\ worker[w].pc = from
    /\ worker' = [worker EXCEPT ![w] = IdleWorker]
    /\ items' = [items EXCEPT ![worker[w].item] = Ended(@, status)]
    /\ metrics' = [metrics EXCEPT !.processing = OneLess(@),
                     !.completed = IF status = "COMPLETED" THEN @ + 1 ELSE @,
                     !.failed = IF status = "FAILED" THEN @ + 1 ELSE @]
    /\ UNCHANGED <<phase, life, synced, nextNumber, queue, dbVars, clientVars>>

(* Mutants: a status nobody knows; the status is set before the commit. *)
CompleteAsDone(w) == Finish(w, "close", "DONE")
CompleteBeforeCommit(w) == Finish(w, "commit", "COMPLETED")

Complete(w) == Finish(w, "close", "COMPLETED")

(* Mutants: a failed entry is put back; the failure path skips the finally *)
(* block's counter.                                                        *)
FailAndRequeue(w) ==
    /\ phase = "up" /\ worker[w].pc = "abort"
    /\ worker' = [worker EXCEPT ![w] = IdleWorker]
    /\ items' = [items EXCEPT ![worker[w].item] = Ended(@, "FAILED")]
    /\ queue' = Append(queue, worker[w].item)
    /\ metrics' = [metrics EXCEPT !.processing = OneLess(@), !.failed = @ + 1]
    /\ UNCHANGED <<phase, life, synced, nextNumber, dbVars, clientVars>>
FailStillCounted(w) ==
    /\ phase = "up" /\ worker[w].pc = "abort"
    /\ worker' = [worker EXCEPT ![w] = IdleWorker]
    /\ items' = [items EXCEPT ![worker[w].item] = Ended(@, "FAILED")]
    /\ metrics' = [metrics EXCEPT !.failed = @ + 1]
    /\ UNCHANGED <<phase, life, synced, nextNumber, queue, dbVars, clientVars>>

Fail(w) == Finish(w, "abort", "FAILED")

Busy(w) == worker[w].item # 0

(* Mutants: the finally block does not run for a cancelled task; a task    *)
(* that waits for the queue is not cancelled.                              *)
CancelWithoutFinally(w) ==
    /\ phase = "stopping" /\ worker[w].pc # "off"
    /\ worker' = [worker EXCEPT ![w] = OffWorker]
    /\ UNCHANGED <<phase, life, synced, nextNumber, queue, items, metrics, dbVars, clientVars>>
CancelBusyOnly(w) ==
    /\ phase = "stopping" /\ Busy(w)
    /\ worker' = [worker EXCEPT ![w] = OffWorker]
    /\ items' = [items EXCEPT ![worker[w].item].event = TRUE]
    /\ metrics' = [metrics EXCEPT !.processing = OneLess(@)]
    /\ UNCHANGED <<phase, life, synced, nextNumber, queue, dbVars, clientVars>>

(* A task cancelled by stop(): CancelledError passes by the except clause, *)
(* so an item in hand keeps its status; the finally block still runs.  A   *)
(* commit under way may or may not take effect.                            *)
CancelWorker(w) ==
    /\ phase = "stopping" /\ worker[w].pc # "off"
    /\ worker' = [worker EXCEPT ![w] = OffWorker]
    /\ IF Busy(w)
       THEN /\ items' = [items EXCEPT ![worker[w].item].event = TRUE]
            /\ metrics' = [metrics EXCEPT !.processing = OneLess(@)]
       ELSE UNCHANGED <<items, metrics>>
    /\ \/ worker[w].pc = "commit" /\ Publish({w})
       \/ UNCHANGED dbVars
    /\ UNCHANGED <<phase, life, synced, nextNumber, queue, clientVars>>

(* The process ends, at any moment; connections drop, memory is gone, and  *)
(* commits under way take effect or not.                                   *)
ProcessDies ==
    /\ phase # "down"
    /\ phase' = "down" /\ synced' = FALSE
    /\ nextNumber' = 1 /\ queue' = <<>> /\ metrics' = NoMetrics
    /\ items' = [n \in Tickets |-> NoItem]
    /\ worker' = [w \in Workers |-> OffWorker]
    /\ \E S \in SUBSET {w \in Workers : worker[w].pc = "commit"} : Publish(S)
    /\ call' = [r \in Requests |-> IF call[r] = "waiting" THEN "dropped" ELSE call[r]]
    /\ UNCHANGED <<life, ticketOf>>

-------------------------------------------------------------------------------
(* A tenant leaves while its logs are queued, in work and stored. *)

(* The worker has flushed a row of o and not ended its transaction. *)
HoldsTenant(w, o) == /\ worker[w].pc \in {"explain", "commit"}
                     /\ OrgOf[items[worker[w].item].request] = o

RowsOf(o) == {n \in Tickets : logRecords[n] # NoRequest /\ OrgOf[logRecords[n]] = o}

(* delete_organization commits: the foreign keys take the tenant's logs    *)
(* and explanations along.  It waits for transactions that hold the        *)
(* tenant's row; queue, items and waiting clients learn nothing of it.     *)
DeleteTenant(o) ==
    /\ phase = "up" /\ o \notin deleted
    /\ \A w \in Workers : ~HoldsTenant(w, o)
    /\ deleted' = deleted \union {o}
    /\ logRecords' = [n \in Tickets |-> IF n \in RowsOf(o) THEN NoRequest ELSE logRecords[n]]
    /\ flagged' = flagged \ RowsOf(o)
    /\ explainability' = explainability \ RowsOf(o)
    /\ UNCHANGED <<phase, life, synced, memoryVars, clientVars>>

-------------------------------------------------------------------------------
WorkerStep(w) ==
    \/ Dequeue(w) \/ DequeueInvalid(w)
    \/ InsertRecord(w) \/ ExplainRecord(w) \/ StatementFails(w)
    \/ Commit(w) \/ CommitFails(w)
    \/ Complete(w) \/ Fail(w)

Next ==
    \/ Startup \/ Stop \/ StopDone \/ ProcessDies
    \/ \E r \in Requests : \/ EnqueueAndWait(r) \/ EnqueueAsync(r)
                           \/ WaitReturns(r) \/ WaitTimeout(r)
    \/ \E w \in Workers : WorkerStep(w) \/ CancelWorker(w)
    \/ \E o \in Leaving : DeleteTenant(o)

Spec == Init /\ [][Next]_vars

(* The event loop resumes every task whose await is done, and statements,  *)
(* the classifier and the LLM client return.  Nothing forces a client to   *)
(* submit, the timer to fire, or the process to stop or start.             *)
Fairness ==
    /\ \A w \in Workers : WF_vars(WorkerStep(w)) /\ WF_vars(CancelWorker(w))
    /\ WF_vars(StopDone)
    /\ \A r \in Requests : WF_vars(WaitReturns(r))

FairSpec == Spec /\ Fairness

-------------------------------------------------------------------------------
(* What clients and operators read. *)

(* Mutant: tickets are looked up in memory only. *)
StatusOfMemory(n, org) ==
    IF items[n].status # "NONE" /\ OrgOf[items[n].request] = org
    THEN items[n].status ELSE "NOT_FOUND"

(* get_queue_status: memory first, then the database, within the tenant. *)
StatusOf(n, org) ==
    IF items[n].status # "NONE"
    THEN IF OrgOf[items[n].request] = org THEN items[n].status ELSE "NOT_FOUND"
    ELSE IF logRecords[n] # NoRequest /\ OrgOf[logRecords[n]] = org
         THEN "COMPLETED" ELSE "NOT_FOUND"
===============================================================================

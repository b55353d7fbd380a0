-------------------------- MODULE LogQueueProperties --------------------------
(***************************************************************************)
(* What the ingestion queue of LogQueue is expected to guarantee, and the  *)
(* inductive invariants that explain why it does.                          *)
(***************************************************************************)
EXTENDS LogQueue

Final == {"COMPLETED", "FAILED"}

HeldBy(n) == {w \in Workers : worker[w].item = n}

(* A ticket is in exactly one place: queued entries are in the queue once, *)
(* entries being processed are in the hands of exactly one worker, and all *)
(* others in neither (the dequeue and the finally block of _worker_loop).  *)
TicketInOnePlace ==
    phase = "up" => \A n \in Tickets :
        LET places == Cardinality({i \in DOMAIN queue : queue[i] = n})
            holders == Cardinality(HeldBy(n))
        IN  /\ places = IF items[n].status = "QUEUED" THEN 1 ELSE 0
            /\ holders = IF items[n].status = "PROCESSING" THEN 1 ELSE 0

(* The counters of get_metrics account for every entry taken in this life: *)
(* waiting, in a worker's hands, completed or failed.                      *)
MetricsConserved ==
    phase = "up" =>
        /\ metrics.enqueued = Len(queue) + metrics.processing
                                + metrics.completed + metrics.failed
        /\ metrics.processing = Cardinality({w \in Workers : Busy(w)})

(* FIFO: an entry is never taken from the queue before one that came       *)
(* earlier, however many workers there are.                                *)
ServedInOrder ==
    \A n, m \in Tickets :
        items[n].status = "QUEUED" /\ items[m].status \in Final \union {"PROCESSING"} => m < n

(* A client told that its log was stored finds it in log_records under its *)
(* ticket, in this life of the process and in every later one, as long as  *)
(* its tenant is there.                                                    *)
AckDurable ==
    \A r \in Requests :
        call[r] = "ok" => logRecords[ticketOf[r]] = r \/ OrgOf[r] \in deleted

(* A deleted tenant leaves no log behind, and no entry of it that is still *)
(* queued or in a worker's hands at that moment brings one back.           *)
DeletedLeaveNothing == \A n \in Stored : OrgOf[logRecords[n]] \notin deleted

(* No log is stored under two numbers.                                     *)
StoredOnce == \A n, m \in Tickets : logRecords[n] = logRecords[m] /\ n \in Stored => n = m

(* A row says has_explainability exactly when its explanation is stored:   *)
(* record and explanation are one transaction, whatever fails between them. *)
ExplanationAtomic == flagged = explainability

(* The counter is ahead of every stored number, so a new entry never       *)
(* collides with a stored one, over restarts and beside late commits and   *)
(* deletions: in every life but one whose initialize() failed to read the  *)
(* numbers stored (its except clause numbers from 1 and they collide).     *)
NumbersAheadOfDb == synced => \A n \in Stored : n < nextNumber

(* While a client awaits its ticket, the item under it is its own, and its *)
(* event is set exactly when the outcome is final: no wake-up is lost and  *)
(* none comes early, as long as the workers are not being cancelled.       *)
WaiterSeesOwnOutcome ==
    phase = "up" => \A r \in Requests : call[r] = "waiting" =>
        LET item == items[ticketOf[r]]
        IN  item.request = r /\ (item.event <=> item.status \in Final)

(* The ticket is given out a second time, by a process that failed to read *)
(* the stored numbers when it started.                                     *)
GivenOutAgain(n) == ~synced /\ n = nextNumber /\ nextNumber' = n + 1

(* A tenant that was told COMPLETED for a ticket is told so for as long as *)
(* it exists, after a restart too, when the answer comes from the database *)
(* instead of memory, and whoever else is deleted.  One thing alone takes  *)
(* the answer back: the ticket is given to another entry, which only a     *)
(* process whose initialize() failed to read the stored numbers does.      *)
CompletedStaysCompleted ==
    [][\A n \in Tickets, o \in Orgs \ deleted' :
          StatusOf(n, o) = "COMPLETED" => StatusOf(n, o)' = "COMPLETED" \/ GivenOutAgain(n)]_vars

(* The queue keeps the ingestion contract: stored at most once, unstored   *)
(* only with its tenant, and "ok" only for what was stored.                *)
Contract == INSTANCE IngestContract WITH
                rows <- [r \in Requests |-> {n \in Tickets : logRecords[n] = r}]
KeepsContract == Contract!Spec

-------------------------------------------------------------------------------
(* The strengthening that is inductive: what the properties above rest on, *)
(* named part by part.                                                     *)

(* A client has a ticket from the moment its request is accepted.          *)
AcceptedHaveTickets == \A r \in Requests : call[r] = "new" <=> ticketOf[r] = 0

(* An item in memory belongs to the request that holds its ticket, and its *)
(* number has been handed out in this life.                                *)
ItemsMatchTickets ==
    \A n \in Tickets : items[n].status # "NONE" =>
        /\ items[n].request \in Requests
        /\ ticketOf[items[n].request] = n
        /\ n < nextNumber

RowsMatchTickets == \A n \in Tickets : logRecords[n] # NoRequest => ticketOf[logRecords[n]] = n

(* What a worker's position says of its item and of its transaction.       *)
WorkerAt(w) ==
    /\ Busy(w) <=> worker[w].pc \in {"insert", "explain", "commit", "close", "abort"}
    /\ Busy(w) => items[worker[w].item].status = "PROCESSING"
    /\ worker[w].pc \in {"explain", "commit"} => logRecords[worker[w].item] = NoRequest
    /\ worker[w].pc \in {"explain", "commit"} => OrgOf[items[worker[w].item].request] \notin deleted
    /\ worker[w].pc = "close" => \/ logRecords[worker[w].item] = items[worker[w].item].request
                                 \/ OrgOf[items[worker[w].item].request] \in deleted
    /\ worker[w].pc \in {"insert", "explain"} => ~worker[w].explained
    /\ worker[w].pc = "explain" => worker[w].explain
    /\ worker[w].pc = "commit" => worker[w].explained = worker[w].explain
WorkersConsistent == \A w \in Workers : WorkerAt(w)

OneWorkerPerItem ==
    \A v, w \in Workers : Busy(v) /\ worker[v].item = worker[w].item => v = w

QueueConsistent ==
    /\ \A i \in DOMAIN queue : items[queue[i]].status = "QUEUED"
    /\ \A i, j \in DOMAIN queue : i < j => queue[i] < queue[j]

CompletedAreStored ==
    \A n \in Tickets : items[n].status = "COMPLETED" =>
        logRecords[n] = items[n].request \/ OrgOf[items[n].request] \in deleted

WaitersHaveItems ==
    \A r \in Requests : call[r] = "waiting" =>
        items[ticketOf[r]].status # "NONE" /\ items[ticketOf[r]].request = r

DownMeansEmpty ==
    phase = "down" =>
        /\ queue = <<>>
        /\ \A n \in Tickets : items[n].status = "NONE"
        /\ \A w \in Workers : worker[w].pc = "off"

QueueInv ==
    /\ TypeOK
    /\ AcceptedHaveTickets
    /\ ItemsMatchTickets
    /\ RowsMatchTickets
    /\ WorkersConsistent
    /\ OneWorkerPerItem
    /\ QueueConsistent
    /\ CompletedAreStored
    /\ WaitersHaveItems
    /\ DownMeansEmpty
    /\ AckDurable
    /\ DeletedLeaveNothing
    /\ ExplanationAtomic

-------------------------------------------------------------------------------
(* Liveness. *)

(* Every queued entry gets a final status unless the process leaves "up".  *)
TicketFinishes ==
    \A n \in Tickets :
        items[n].status = "QUEUED" ~> items[n].status \in Final \/ phase # "up"

(* A client whose entry a worker took is answered without its timer, also  *)
(* when the worker is cancelled in the middle of it.                       *)
TakenWaiterAnswered ==
    \A r \in Requests :
        (call[r] = "waiting" /\ items[ticketOf[r]].status = "PROCESSING")
            ~> call[r] # "waiting"

(* stop() returns: idle or busy, every worker reacts to its cancellation.  *)
StopCompletes == phase = "stopping" ~> phase # "stopping"

===============================================================================

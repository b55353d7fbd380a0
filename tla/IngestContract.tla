---------------------------- MODULE IngestContract ----------------------------
(***************************************************************************)
(* What log ingestion promises its clients, without queue, workers,        *)
(* tickets handed over between restarts, or transactions.  A log that was  *)
(* accepted is stored at most once and, once stored, stays stored as long  *)
(* as its tenant exists; a client is told that its log is stored only when *)
(* it was, and an answer is final.  Everything else (failure, timeout, the *)
(* process going away) may be answered whether or not the log got stored.  *)
(*                                                                         *)
(* This is the contract LogQueue is shown to implement.                    *)
(***************************************************************************)
CONSTANTS Requests,  \* the log entries clients submit
          Orgs,      \* tenants
          OrgOf,     \* the tenant of each request
          Tickets    \* the numbers a stored log may carry

VARIABLES rows,      \* per request, the tickets under which it is stored
          deleted,   \* the tenants that are gone
          call       \* per request, what its client knows

contractVars == <<rows, deleted, call>>

Answers == {"ok", "failed", "timeout", "dropped"}

Init == /\ rows = [r \in Requests |-> {}]
        /\ deleted = {}
        /\ call = [r \in Requests |-> "new"]

(* A client submits r; it awaits the outcome or is handed a ticket. *)
Accept(r) == /\ call[r] = "new"
             /\ \E c \in {"waiting", "ticket"} : call' = [call EXCEPT ![r] = c]
             /\ UNCHANGED <<rows, deleted>>

(* The accepted, not yet stored requests of S become stored. *)
StoreAll(S) ==
    /\ \A r \in S : call[r] # "new" /\ rows[r] = {} /\ OrgOf[r] \notin deleted
    /\ UNCHANGED deleted
    /\ \E at \in [S -> Tickets] :
         rows' = [r \in Requests |-> IF r \in S THEN {at[r]} ELSE rows[r]]

Store(S) == StoreAll(S) /\ UNCHANGED call

(* A waiting client is answered; "ok" tells it that the log is stored. *)
Answer(r) == /\ call[r] = "waiting"
             /\ \E a \in Answers : /\ a = "ok" => rows[r] # {} \/ OrgOf[r] \in deleted
                                   /\ call' = [call EXCEPT ![r] = a]
             /\ UNCHANGED <<rows, deleted>>

(* A tenant leaves and takes its logs along, for good. *)
Delete(o) == /\ deleted' = deleted \union {o}
             /\ rows' = [r \in Requests |-> IF OrgOf[r] = o THEN {} ELSE rows[r]]
             /\ UNCHANGED call

(* The process goes away: waiting clients lose their connection, and any   *)
(* set of logs that were being committed may turn out to be stored.        *)
Crash(S) ==
    /\ StoreAll(S)
    /\ call' = [r \in Requests |-> IF call[r] = "waiting" THEN "dropped" ELSE call[r]]

Next == \/ \E r \in Requests : Accept(r) \/ Answer(r)
        \/ \E S \in SUBSET Requests : Store(S) \/ Crash(S)
        \/ \E o \in Orgs : Delete(o)

Spec == Init /\ [][Next]_contractVars
===============================================================================

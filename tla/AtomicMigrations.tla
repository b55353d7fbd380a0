--------------------------- MODULE AtomicMigrations ---------------------------
(***************************************************************************)
(* What a migration command promises, without revisions run one after the  *)
(* other and without locks: it is asked for, and then takes place in one   *)
(* step or not at all, while the backend serves its clients as if there    *)
(* was none.  Logs that have no owner are given one when there is exactly  *)
(* one organization to give them to; otherwise the head cannot be reached. *)
(*                                                                         *)
(* This is what Migrations is shown to implement.                          *)
(***************************************************************************)
EXTENDS Naturals

CONSTANTS Orgs, Logs, NoOwner, Absent,
          Revisions, Base, Accounts, LogTables, AuthTables, Owned

VARIABLES version, orgs, record, explanation,
          asked  \* the revision asked for, in a set of at most one

tables     == <<orgs, record, explanation>>
atomicVars == <<version, tables, asked>>

Init ==
    /\ version = Base /\ asked = {}
    /\ orgs = {}
    /\ record = [l \in Logs |-> Absent] /\ explanation = [l \in Logs |-> Absent]

Ask(target) ==
    /\ asked = {} /\ target # version
    /\ asked' = {target}
    /\ UNCHANGED <<version, tables>>

Rewrite(New(_)) ==
    /\ record' = [l \in Logs |-> New(record[l])]
    /\ explanation' = [l \in Logs |-> New(explanation[l])]

Move(target) ==
    /\ version' = target /\ asked' = {}
    /\ orgs' = IF target < Accounts THEN {} ELSE orgs

(* The log tables do not exist below their revision. *)
DropLogs(target) ==
    /\ target < LogTables
    /\ Move(target)
    /\ Rewrite(LAMBDA row : Absent)

(* Between there and the head logs exist without owner. *)
DisownLogs(target) ==
    /\ LogTables <= target /\ target < Owned
    /\ Move(target)
    /\ Rewrite(LAMBDA row : IF row = Absent THEN Absent ELSE NoOwner)

(* At the head they belong to the only organization there is. *)
OwnLogs(target) ==
    /\ target = Owned
    /\ Move(target)
    /\ \E o \in Orgs : /\ orgs = {o}
                       /\ Rewrite(LAMBDA row : IF row = NoOwner THEN o ELSE row)

Do == \E target \in asked : DropLogs(target) \/ DisownLogs(target) \/ OwnLogs(target)

GiveUp == asked # {} /\ asked' = {} /\ UNCHANGED <<version, tables>>

Register(o) ==
    /\ version >= Accounts /\ o \notin orgs
    /\ orgs' = orgs \union {o}
    /\ UNCHANGED <<version, record, explanation, asked>>

Delete(o) ==
    /\ version >= AuthTables /\ o \in orgs
    /\ orgs' = orgs \ {o}
    /\ Rewrite(LAMBDA row : IF row = o THEN Absent ELSE row)
    /\ UNCHANGED <<version, asked>>

Store(l, owner, explained) ==
    /\ record[l] = Absent
    /\ IF version = Owned THEN owner \in orgs ELSE version >= LogTables /\ owner = NoOwner
    /\ record' = [record EXCEPT ![l] = owner]
    /\ explanation' = [explanation EXCEPT ![l] = IF explained THEN owner ELSE Absent]
    /\ UNCHANGED <<version, orgs, asked>>

Next ==
    \/ \E target \in Revisions : Ask(target)
    \/ Do \/ GiveUp
    \/ \E o \in Orgs : Register(o) \/ Delete(o)
    \/ \E l \in Logs, owner \in Orgs \union {NoOwner}, explained \in BOOLEAN : Store(l, owner, explained)

Spec == Init /\ [][Next]_atomicVars
===============================================================================

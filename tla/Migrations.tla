------------------------------ MODULE Migrations ------------------------------
(***************************************************************************)
(* The chain of Alembic revisions (backend/app/alembic), run by an         *)
(* operator beside a live backend.  Of the five tables it keeps those the  *)
(* last revision is about: organization, and the two log tables whose rows *)
(* it gives an owner.                                                      *)
(*                                                                         *)
(* env.py opens one transaction around all revisions of a command, and     *)
(* PostgreSQL rolls table definitions back with it: what a command does is *)
(* seen when it commits, and until then nobody else gets at the tables it  *)
(* has altered.                                                            *)
(***************************************************************************)
EXTENDS Naturals, FiniteSets

CONSTANTS Orgs,     \* primary keys of organization
          Logs,     \* primary keys of log_records
          NoOwner,  \* organization_id is NULL, or there is no such column
          Absent    \* no row

ASSUME ConstantsAssumption ==
    /\ IsFiniteSet(Orgs)
    /\ NoOwner \notin Orgs /\ Absent \notin Orgs /\ Absent # NoOwner

(* The revisions, in the order of the chain.  The two empty ones after the *)
(* first count as part of it.                                              *)
Base       == 0  \* no table
Accounts   == 1  \* 3e7745dce2ac: organization, admin
LogTables  == 2  \* 653434db7efd: log_records, log_explainability
AuthTables == 3  \* 9a1f2c3d4e5f: auth_session, refresh_token
Owned      == 4  \* b7c8d9e0f1a2: organization_id NOT NULL on the log tables
Revisions  == Base..Owned

VARIABLES version,      \* the committed revision
          orgs,         \* rows of organization
          record,       \* per log, its row of log_records: Absent or the owner
          explanation,  \* per log, its row of log_explainability, likewise
          job           \* the command under way

tables == <<orgs, record, explanation>>
vars   == <<version, tables, job>>

Rows == Orgs \union {NoOwner, Absent}

NoJob == [pc |-> "idle", start |-> Base, at |-> Base, target |-> Base, owner |-> NoOwner]
Jobs  == [pc : {"idle", "run", "altered", "filled"}, start : Revisions, at : Revisions,
          target : Revisions, owner : Orgs \union {NoOwner}]

TypeOK ==
    /\ version \in Revisions
    /\ orgs \subseteq Orgs
    /\ record \in [Logs -> Rows]
    /\ explanation \in [Logs -> Rows]
    /\ job \in Jobs

Init ==
    /\ version = Base
    /\ orgs = {}
    /\ record = [l \in Logs |-> Absent]
    /\ explanation = [l \in Logs |-> Absent]
    /\ job = NoJob

-------------------------------------------------------------------------------
(* Locks. *)

(* The revisions the command has begun to apply or to undo. *)
Touched ==
    {r \in Revisions : \/ job.start < r /\ r <= job.at
                       \/ job.at < r /\ r <= job.start
                       \/ r = Owned /\ job.pc \in {"altered", "filled"}}

LogsLocked == Touched \intersect {LogTables, Owned} # {}

(* Mutant: the last revision alters the log tables only, without a foreign *)
(* key to organization.                                                    *)
AccountsFree == Accounts \in Touched

(* create_foreign_key keeps writers off the referenced table, too. *)
AccountsLocked == Touched \intersect {Accounts, Owned} # {}

(* Nobody is resolved as signed in while auth_session is being dropped. *)
SessionsLocked == AuthTables \in Touched

-------------------------------------------------------------------------------
(* alembic upgrade, alembic downgrade. *)

Command(target) ==
    /\ job.pc = "idle"
    /\ target # version
    /\ job' = [pc |-> "run", start |-> version, at |-> version, target |-> target, owner |-> NoOwner]
    /\ UNCHANGED <<version, tables>>

(* Mutant: a transaction per revision. *)
CreateTablesCommits ==
    /\ job.pc = "run" /\ job.at < job.target /\ job.at + 1 # Owned
    /\ job' = [job EXCEPT !.at = @ + 1]
    /\ version' = job.at + 1
    /\ UNCHANGED tables

(* Mutant: one revision more than asked for. *)
CreateTablesOneMore ==
    /\ job.pc = "run" /\ job.at <= job.target /\ job.at + 1 # Owned
    /\ job' = [job EXCEPT !.at = @ + 1]
    /\ UNCHANGED <<version, tables>>

(* upgrade() of a revision that creates empty tables. *)
CreateTables ==
    /\ job.pc = "run" /\ job.at < job.target /\ job.at + 1 # Owned
    /\ job' = [job EXCEPT !.at = @ + 1]
    /\ UNCHANGED <<version, tables>>

(* upgrade() of the last revision adds the nullable columns, foreign keys  *)
(* and indexes, which takes the locks ...                                  *)
AddColumns ==
    /\ job.pc = "run" /\ job.at < job.target /\ job.at + 1 = Owned
    /\ job' = [job EXCEPT !.pc = "altered"]
    /\ UNCHANGED <<version, tables>>

(* ... counts the organizations and takes the only one as owner ...        *)
FindOwner ==
    /\ job.pc = "altered" /\ Cardinality(orgs) = 1
    /\ \E o \in orgs : job' = [job EXCEPT !.pc = "filled", !.owner = o]
    /\ UNCHANGED <<version, tables>>

(* ... or gives up with everything the command has done ...                *)
Refuse ==
    /\ job.pc = "altered" /\ Cardinality(orgs) # 1
    /\ job' = NoJob
    /\ UNCHANGED <<version, tables>>

(* The UPDATE of each table: rows without an owner get the one found. *)
Filled(row) == IF row = NoOwner THEN job.owner ELSE row

NoneUnowned == \A l \in Logs : Filled(record[l]) # NoOwner /\ Filled(explanation[l]) # NoOwner

(* ... and, when no row is left without one, makes the columns NOT NULL.   *)
(* The tables are locked since AddColumns, so none ever is.                *)
RequireOwner ==
    /\ job.pc = "filled" /\ NoneUnowned
    /\ job' = [job EXCEPT !.pc = "run", !.at = Owned]
    /\ UNCHANGED <<version, tables>>

(* downgrade() of the revision the command stands at. *)
DropRevision ==
    /\ job.pc = "run" /\ job.at > job.target
    /\ job' = [job EXCEPT !.at = @ - 1]
    /\ UNCHANGED <<version, tables>>

(* What the command makes of a row: dropped with its table, without owner  *)
(* when the column is dropped, with the owner found when it was added.     *)
Migrated(row) ==
    IF job.target < LogTables THEN Absent
    ELSE IF row = Absent THEN Absent
    ELSE IF job.target < Owned THEN NoOwner ELSE Filled(row)

Commit ==
    /\ job.pc = "run" /\ job.at = job.target
    /\ version' = job.target
    /\ orgs' = IF job.target < Accounts THEN {} ELSE orgs
    /\ record' = [l \in Logs |-> Migrated(record[l])]
    /\ explanation' = [l \in Logs |-> Migrated(explanation[l])]
    /\ job' = NoJob

(* The command is interrupted, or its connection is lost. *)
Interrupt ==
    /\ job.pc # "idle"
    /\ job' = NoJob
    /\ UNCHANGED <<version, tables>>

-------------------------------------------------------------------------------
(* The backend beside it.  Its statements fail where a table or a column   *)
(* is missing and wait where one is locked.                                *)

(* POST /auth/register. *)
Register(o) ==
    /\ version >= Accounts /\ ~AccountsLocked
    /\ o \notin orgs
    /\ orgs' = orgs \union {o}
    /\ UNCHANGED <<version, record, explanation, job>>

(* Mutant: the foreign keys do not cascade. *)
DeleteOrganizationOnly(o) ==
    /\ version >= AuthTables /\ ~AccountsLocked /\ ~SessionsLocked
    /\ o \in orgs
    /\ orgs' = orgs \ {o}
    /\ UNCHANGED <<version, record, explanation, job>>

(* DELETE /organization, whose transaction has read the caller's session.  *)
(* Only the foreign keys of the last revision, which lock organization as  *)
(* well while they change, let it touch the log tables: they take the logs *)
(* along.                                                                  *)
DeleteOrganization(o) ==
    /\ version >= AuthTables /\ ~AccountsLocked /\ ~SessionsLocked
    /\ o \in orgs
    /\ orgs' = orgs \ {o}
    /\ record' = [l \in Logs |-> IF record[l] = o THEN Absent ELSE record[l]]
    /\ explanation' = [l \in Logs |-> IF explanation[l] = o THEN Absent ELSE explanation[l]]
    /\ UNCHANGED <<version, job>>

Store(l, owner, explained) ==
    /\ record[l] = Absent /\ ~LogsLocked
    /\ record' = [record EXCEPT ![l] = owner]
    /\ explanation' = [explanation EXCEPT ![l] = IF explained THEN owner ELSE Absent]
    /\ UNCHANGED <<version, orgs, job>>

(* save_log_record and save_explainability need the owner columns. *)
StoreLog(l, o, explained) == version = Owned /\ o \in orgs /\ Store(l, o, explained)

(* An earlier release, whose rows have no owner, needs them absent or      *)
(* nullable.                                                               *)
StoreLegacyLog(l, explained) == version \in {LogTables, AuthTables} /\ Store(l, NoOwner, explained)

-------------------------------------------------------------------------------
Migrate ==
    \/ \E target \in Revisions : Command(target)
    \/ CreateTables \/ AddColumns \/ FindOwner \/ Refuse \/ RequireOwner
    \/ DropRevision \/ Commit \/ Interrupt

Serve ==
    \/ \E o \in Orgs : Register(o) \/ DeleteOrganization(o)
    \/ \E l \in Logs, explained \in BOOLEAN :
         StoreLegacyLog(l, explained) \/ \E o \in Orgs : StoreLog(l, o, explained)

Next == Migrate \/ Serve

Spec == Init /\ [][Next]_vars

-------------------------------------------------------------------------------
(* What the revisions are expected to guarantee. *)

(* At the head every log belongs to an organization that exists, and an    *)
(* explanation to the one its log belongs to: whatever was stored before,  *)
(* and whatever registers, is deleted or is stored while a command runs.   *)
OwnedAtHead ==
    version = Owned =>
        \A l \in Logs : /\ record[l] \in orgs \union {Absent}
                        /\ explanation[l] \in {Absent, record[l]}

(* Logs are given an owner only if there is no other organization at the   *)
(* moment the ownership takes effect.                                      *)
OwnerUnambiguous ==
    [][\A l \in Logs : record[l] = NoOwner /\ record'[l] \in Orgs
                          => orgs' = {record'[l]}]_vars

(* A command takes place in one step or not at all, whatever the backend   *)
(* does beside it and wherever it is interrupted: with the transaction of  *)
(* env.py and the locks of the last revision nobody sees it half done, nor *)
(* an owner that was chosen before another organization registered.        *)
Atomic == INSTANCE AtomicMigrations WITH
    asked <- IF job.pc = "idle" THEN {} ELSE {job.target}

MigratesInOneStep == Atomic!Spec

(* Going up the chain never loses a log or an explanation.                 *)
UpgradeKeepsLogs ==
    [][version' > version =>
          \A l \in Logs : /\ record'[l] = Absent <=> record[l] = Absent
                          /\ explanation'[l] = Absent <=> explanation[l] = Absent]_vars

(* "Tenant migration found legacy logs but cannot infer their owner": the  *)
(* upgrade is refused only when there are logs.                            *)
RefusedForLegacyLogs == [][Refuse => \E l \in Logs : record[l] # Absent]_vars
===============================================================================

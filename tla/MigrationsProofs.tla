--------------------------- MODULE MigrationsProofs ---------------------------
(***************************************************************************)
(* Theorems about Migrations, for any number of organizations and logs.    *)
(***************************************************************************)
EXTENDS Migrations, FiniteSetTheorems, TLAPS

(* Where a command is: on the way from the committed revision to another   *)
(* one; about to reach or having reached the head with the only            *)
(* organization as owner, which the locks keep the only one.               *)
Climbing == job.start < job.target /\ job.start <= job.at /\ job.at <= job.target
Falling  == job.target < job.start /\ job.target <= job.at /\ job.at <= job.start

JobConsistent ==
    job.pc # "idle" =>
        /\ job.start = version
        /\ Climbing \/ Falling
        /\ job.pc # "run" => Climbing /\ job.at + 1 = Owned /\ job.target = Owned
        /\ job.pc = "filled" \/ (job.pc = "run" /\ Climbing /\ job.at = Owned)
              => orgs = {job.owner} /\ job.owner \in Orgs

(* Before the head rows have no owner, and without tables there are none.  *)
RowsFitVersion ==
    \A l \in Logs :
        /\ version < Owned => record[l] \in {NoOwner, Absent} /\ explanation[l] \in {NoOwner, Absent}
        /\ version < LogTables => record[l] = Absent /\ explanation[l] = Absent
        /\ explanation[l] \in {Absent, record[l]}

MigrationInv == TypeOK /\ JobConsistent /\ RowsFitVersion /\ OwnedAtHead

-------------------------------------------------------------------------------
LEMMA Numbers ==
    /\ Base = 0 /\ Accounts = 1 /\ LogTables = 2 /\ AuthTables = 3 /\ Owned = 4
    /\ Revisions = {0, 1, 2, 3, 4}
  BY DEF Base, Accounts, LogTables, AuthTables, Owned, Revisions

(* A step of the command that commits nothing. *)
LEMMA JobStepKeeps ==
    ASSUME MigrationInv, job' \in Jobs, UNCHANGED <<version, tables>>, JobConsistent'
    PROVE  MigrationInv'
  BY DEF MigrationInv, TypeOK, RowsFitVersion, OwnedAtHead, tables

LEMMA NoJobOK ==
    ASSUME job' = NoJob
    PROVE  job' \in Jobs /\ JobConsistent'
  BY Numbers DEF NoJob, Jobs, JobConsistent

LEMMA InitInv == Init => MigrationInv
  <1> SUFFICES ASSUME Init PROVE MigrationInv
    OBVIOUS
  <1>1. NoJob \in Jobs /\ NoJob.pc = "idle"
    BY Numbers DEF NoJob, Jobs
  <1> QED BY <1>1, Numbers DEF Init, MigrationInv, TypeOK, Rows, JobConsistent, RowsFitVersion, OwnedAtHead

LEMMA CommandInv ==
    ASSUME MigrationInv, NEW target \in Revisions, Command(target)
    PROVE  MigrationInv'
  <1>1. version \in Revisions /\ UNCHANGED <<version, tables>>
    BY DEF MigrationInv, TypeOK, Command
  <1>2. /\ job'.pc = "run" /\ job'.start = version /\ job'.at = version
        /\ job'.target = target /\ target # version /\ job' \in Jobs
    BY <1>1 DEF Command, Jobs
  <1>3. JobConsistent'
    BY <1>1, <1>2, Numbers DEF JobConsistent, Climbing, Falling
  <1> QED BY <1>1, <1>2, <1>3, JobStepKeeps

(* A step of the command that changes its position only. *)
LEMMA ClimbInv ==
    ASSUME MigrationInv, CreateTables \/ AddColumns
    PROVE  MigrationInv'
  <1>1. UNCHANGED <<version, tables>> /\ job \in Jobs
    BY DEF MigrationInv, TypeOK, CreateTables, AddColumns
  <1>2. job.pc = "run" /\ job.at < job.target /\ job.start = version /\ (Climbing \/ Falling)
    BY DEF MigrationInv, JobConsistent, CreateTables, AddColumns
  <1>3. /\ job.start \in 0..4 /\ job.at \in 0..4 /\ job.target \in 0..4
    BY <1>1, Numbers DEF Jobs
  <1>4. CASE CreateTables
    <2>1. job.at + 1 # Owned /\ job' = [job EXCEPT !.at = job.at + 1]
      BY <1>4 DEF CreateTables
    <2>2. /\ job'.pc = "run" /\ job'.start = job.start /\ job'.at = job.at + 1
          /\ job'.target = job.target /\ job' \in Jobs
      BY <1>1, <1>2, <1>3, <2>1, Numbers DEF Jobs
    <2>3. JobConsistent'
      BY <1>1, <1>2, <1>3, <2>1, <2>2, Numbers DEF JobConsistent, Climbing, Falling
    <2> QED BY <1>1, <2>2, <2>3, JobStepKeeps
  <1>5. CASE AddColumns
    <2>1. job.at + 1 = Owned /\ job' = [job EXCEPT !.pc = "altered"]
      BY <1>5 DEF AddColumns
    <2>2. /\ job'.pc = "altered" /\ job'.start = job.start /\ job'.at = job.at
          /\ job'.target = job.target /\ job' \in Jobs
      BY <1>1, <1>2, <2>1 DEF Jobs
    <2>3. JobConsistent'
      BY <1>1, <1>2, <1>3, <2>1, <2>2, Numbers DEF JobConsistent, Climbing, Falling
    <2> QED BY <1>1, <2>2, <2>3, JobStepKeeps
  <1> QED BY <1>4, <1>5

LEMMA FindOwnerInv ==
    ASSUME MigrationInv, FindOwner
    PROVE  MigrationInv'
  <1>1. UNCHANGED <<version, tables>> /\ job \in Jobs /\ orgs \subseteq Orgs
    BY DEF MigrationInv, TypeOK, FindOwner
  <1>2. PICK o \in orgs : job' = [job EXCEPT !.pc = "filled", !.owner = o]
    BY DEF FindOwner
  <1>3. orgs = {o}
    <2>1. IsFiniteSet(orgs)
      BY <1>1, ConstantsAssumption, FS_Subset
    <2>2. Cardinality(orgs) = 1
      BY DEF FindOwner
    <2> QED BY <1>2, <2>1, <2>2, FS_Singleton
  <1>4. job.pc = "altered" /\ job.start = version /\ Climbing /\ job.at + 1 = Owned /\ job.target = Owned
    BY DEF FindOwner, MigrationInv, JobConsistent
  <1>5. /\ job'.pc = "filled" /\ job'.start = job.start /\ job'.at = job.at
        /\ job'.target = job.target /\ job'.owner = o /\ job' \in Jobs
    <2>1. o \in Orgs
      BY <1>1, <1>2
    <2>2. /\ job'.pc = "filled" /\ job'.start = job.start /\ job'.at = job.at
          /\ job'.target = job.target /\ job'.owner = o
      BY <1>1, <1>2 DEF Jobs
    <2>3. job' = [pc |-> "filled", start |-> job.start, at |-> job.at, target |-> job.target, owner |-> o]
      BY <1>1, <1>2 DEF Jobs
    <2>4. job' \in Jobs
      BY <1>1, <2>1, <2>3 DEF Jobs
    <2> QED BY <2>2, <2>4
  <1>6. JobConsistent'
    BY <1>1, <1>3, <1>4, <1>5 DEF JobConsistent, Climbing, Falling, tables
  <1> QED BY <1>1, <1>5, <1>6, JobStepKeeps

LEMMA RequireOwnerInv ==
    ASSUME MigrationInv, RequireOwner
    PROVE  MigrationInv'
  <1>1. UNCHANGED <<version, tables>> /\ job \in Jobs
    BY DEF MigrationInv, TypeOK, RequireOwner
  <1>2. /\ job.pc = "filled" /\ job.start = version /\ Climbing /\ job.at + 1 = Owned
        /\ job.target = Owned /\ orgs = {job.owner} /\ job.owner \in Orgs
    BY DEF RequireOwner, MigrationInv, JobConsistent
  <1>3. job' = [job EXCEPT !.pc = "run", !.at = Owned]
    BY DEF RequireOwner
  <1>4. /\ job.start \in 0..4 /\ job.at \in 0..4 /\ job.target \in 0..4
    BY <1>1, Numbers DEF Jobs
  <1>5. /\ job'.pc = "run" /\ job'.start = job.start /\ job'.at = Owned
        /\ job'.target = job.target /\ job'.owner = job.owner /\ job' \in Jobs
    BY <1>1, <1>3, Numbers DEF Jobs
  <1>6. JobConsistent'
    BY <1>1, <1>2, <1>4, <1>5, Numbers DEF JobConsistent, Climbing, Falling, tables
  <1> QED BY <1>1, <1>5, <1>6, JobStepKeeps

LEMMA DropRevisionInv ==
    ASSUME MigrationInv, DropRevision
    PROVE  MigrationInv'
  <1>1. UNCHANGED <<version, tables>> /\ job \in Jobs
    BY DEF MigrationInv, TypeOK, DropRevision
  <1>2. job.pc = "run" /\ job.at > job.target /\ job.start = version /\ (Climbing \/ Falling)
    BY DEF MigrationInv, JobConsistent, DropRevision
  <1>3. /\ job.start \in 0..4 /\ job.at \in 0..4 /\ job.target \in 0..4
    BY <1>1, Numbers DEF Jobs
  <1>4. job' = [job EXCEPT !.at = job.at - 1]
    BY DEF DropRevision
  <1>5. /\ job'.pc = "run" /\ job'.start = job.start /\ job'.at = job.at - 1
        /\ job'.target = job.target /\ job' \in Jobs
    BY <1>1, <1>2, <1>3, <1>4, Numbers DEF Jobs
  <1>6. JobConsistent'
    BY <1>1, <1>2, <1>3, <1>5 DEF JobConsistent, Climbing, Falling
  <1> QED BY <1>1, <1>5, <1>6, JobStepKeeps

LEMMA EndInv ==
    ASSUME MigrationInv, Refuse \/ Interrupt
    PROVE  MigrationInv'
  <1>1. job' = NoJob /\ UNCHANGED <<version, tables>>
    BY DEF Refuse, Interrupt
  <1> QED BY <1>1, NoJobOK, JobStepKeeps

(* What a commit makes of a row. *)
LEMMA MigratedRow ==
    ASSUME MigrationInv, Commit, NEW l \in Logs, NEW row \in {record[l], explanation[l]}
    PROVE  /\ Migrated(row) \in Rows
           /\ job.target < Owned => Migrated(row) \in {NoOwner, Absent}
           /\ job.target < LogTables => Migrated(row) = Absent
           /\ job.target = Owned => Migrated(row) \in orgs \union {Absent}
           /\ row = Absent => Migrated(row) = Absent
           /\ version < job.target /\ row # Absent => Migrated(row) # Absent
  <1>1. row \in Rows /\ job \in Jobs /\ version \in 0..4 /\ job.target \in 0..4
    BY Numbers DEF MigrationInv, TypeOK, Jobs
  <1>2. job.pc = "run" /\ job.at = job.target /\ job.start = version /\ (Climbing \/ Falling)
    BY DEF Commit, MigrationInv, JobConsistent
  <1>3. /\ version < Owned => row \in {NoOwner, Absent}
        /\ version < LogTables => row = Absent
    BY DEF MigrationInv, RowsFitVersion
  <1>4. job.target = Owned => /\ orgs = {job.owner} /\ job.owner \in Orgs
                              /\ version < Owned
    BY <1>1, <1>2, Numbers DEF MigrationInv, JobConsistent, Climbing, Falling
  <1>5. Absent \notin Orgs /\ NoOwner \notin Orgs /\ Absent # NoOwner
    BY ConstantsAssumption
  <1> QED BY <1>1, <1>3, <1>4, <1>5, Numbers DEF Migrated, Filled, Rows

LEMMA CommitInv ==
    ASSUME MigrationInv, Commit
    PROVE  MigrationInv'
  <1>1. job.pc = "run" /\ job.at = job.target /\ job.start = version /\ (Climbing \/ Falling)
    BY DEF Commit, MigrationInv, JobConsistent
  <1>2. job \in Jobs /\ job.target \in Revisions
    BY DEF MigrationInv, TypeOK, Jobs
  <1>3. /\ version' = job.target
        /\ record' = [l \in Logs |-> Migrated(record[l])]
        /\ explanation' = [l \in Logs |-> Migrated(explanation[l])]
        /\ job.target >= Accounts => orgs' = orgs
        /\ orgs' \subseteq Orgs
    BY <1>2, Numbers DEF Commit, MigrationInv, TypeOK
  <1>4. job' \in Jobs /\ JobConsistent'
    BY NoJobOK DEF Commit
  <1>5. TypeOK'
    BY <1>2, <1>3, <1>4, MigratedRow DEF TypeOK
  <1>6. \A l \in Logs : Migrated(explanation[l]) \in {Absent, Migrated(record[l])}
    <2> TAKE l \in Logs
    <2>1. CASE explanation[l] = record[l]
      BY <2>1
    <2>2. CASE explanation[l] = Absent
      BY <2>2, MigratedRow
    <2> QED BY <2>1, <2>2 DEF MigrationInv, RowsFitVersion
  <1>7. RowsFitVersion'
    BY <1>3, <1>6, MigratedRow DEF RowsFitVersion
  <1>8. OwnedAtHead'
    <2> SUFFICES ASSUME job.target = Owned
                 PROVE  \A l \in Logs : /\ record'[l] \in orgs' \union {Absent}
                                        /\ explanation'[l] \in {Absent, record'[l]}
      BY <1>3 DEF OwnedAtHead
    <2> QED BY <1>3, <1>6, MigratedRow, Numbers
  <1> QED BY <1>4, <1>5, <1>7, <1>8 DEF MigrationInv

-------------------------------------------------------------------------------
(* The locks: once an owner was found, and in any command that goes up to  *)
(* or down from the head, the organizations stay as they are.              *)
LEMMA LockedAccounts ==
    ASSUME MigrationInv, ~AccountsLocked, job.pc # "idle"
    PROVE  ~(job.pc = "filled" \/ (job.pc = "run" /\ Climbing /\ job.at = Owned))
  <1>1. job \in Jobs /\ job.start \in 0..4 /\ job.at \in 0..4 /\ job.target \in 0..4
    BY Numbers DEF MigrationInv, TypeOK, Jobs
  <1>2. Owned \notin Touched /\ Owned \in Revisions
    BY Numbers DEF AccountsLocked
  <1>3. job.pc # "filled"
    BY <1>2 DEF Touched
  <1>4. CASE job.pc = "run" /\ Climbing /\ job.at = Owned
    <2>1. job.start = Owned
      BY <1>1, <1>2, <1>4, Numbers DEF Touched
    <2> QED BY <1>1, <1>4, <2>1, Numbers DEF Climbing
  <1> QED BY <1>3, <1>4

(* A step of the backend that keeps the rows in order. *)
LEMMA ServeKeeps ==
    ASSUME MigrationInv, UNCHANGED <<version, job>>,
           orgs' = orgs \/ (orgs' \subseteq Orgs /\ ~AccountsLocked),
           record' \in [Logs -> Rows], explanation' \in [Logs -> Rows],
           RowsFitVersion', OwnedAtHead'
    PROVE  MigrationInv'
  <1>1. TypeOK'
    BY DEF MigrationInv, TypeOK
  <1>2. JobConsistent'
    BY LockedAccounts DEF MigrationInv, JobConsistent, Climbing, Falling
  <1> QED BY <1>1, <1>2 DEF MigrationInv

LEMMA RegisterInv ==
    ASSUME MigrationInv, NEW o \in Orgs, Register(o)
    PROVE  MigrationInv'
  <1>1. UNCHANGED <<version, job, record, explanation>> /\ orgs' = orgs \union {o} /\ ~AccountsLocked
    BY DEF Register
  <1>2. orgs' \subseteq Orgs /\ record' \in [Logs -> Rows] /\ explanation' \in [Logs -> Rows]
    BY <1>1 DEF MigrationInv, TypeOK
  <1>3. RowsFitVersion' /\ OwnedAtHead'
    BY <1>1 DEF MigrationInv, RowsFitVersion, OwnedAtHead
  <1> QED BY <1>1, <1>2, <1>3, ServeKeeps

LEMMA DeleteOrganizationInv ==
    ASSUME MigrationInv, NEW o \in Orgs, DeleteOrganization(o)
    PROVE  MigrationInv'
  <1>1. UNCHANGED <<version, job>> /\ orgs' = orgs \ {o} /\ ~AccountsLocked
    BY DEF DeleteOrganization
  <1>2. /\ record' = [l \in Logs |-> IF record[l] = o THEN Absent ELSE record[l]]
        /\ explanation' = [l \in Logs |-> IF explanation[l] = o THEN Absent ELSE explanation[l]]
    BY DEF DeleteOrganization
  <1>3. orgs' \subseteq Orgs /\ record' \in [Logs -> Rows] /\ explanation' \in [Logs -> Rows]
    BY <1>1, <1>2 DEF MigrationInv, TypeOK, Rows
  <1>4. RowsFitVersion' /\ OwnedAtHead'
    BY <1>1, <1>2, ConstantsAssumption DEF MigrationInv, RowsFitVersion, OwnedAtHead
  <1> QED BY <1>1, <1>3, <1>4, ServeKeeps

(* The owner a new row gets at the committed revision. *)
OwnerFits(o) ==
    IF version = Owned THEN o \in orgs ELSE o = NoOwner /\ version \in {LogTables, AuthTables}

LEMMA StoreKeeps ==
    ASSUME MigrationInv, NEW l \in Logs, NEW o \in Orgs \union {NoOwner}, NEW explained \in BOOLEAN,
           Store(l, o, explained), OwnerFits(o)
    PROVE  MigrationInv'
  <1>1. UNCHANGED <<version, job, orgs>>
    BY DEF Store
  <1>2. /\ record' = [record EXCEPT ![l] = o]
        /\ explanation' = [explanation EXCEPT ![l] = IF explained THEN o ELSE Absent]
    BY DEF Store
  <1>3. record' \in [Logs -> Rows] /\ explanation' \in [Logs -> Rows]
    BY <1>2 DEF MigrationInv, TypeOK, Rows, OwnerFits
  <1>4. RowsFitVersion'
    BY <1>1, <1>2, <1>3, Numbers DEF MigrationInv, TypeOK, RowsFitVersion, OwnerFits
  <1>5. OwnedAtHead'
    BY <1>1, <1>2, <1>3, Numbers DEF MigrationInv, TypeOK, OwnedAtHead, OwnerFits
  <1> QED BY <1>1, <1>3, <1>4, <1>5, ServeKeeps

LEMMA StoreInv ==
    ASSUME MigrationInv, NEW l \in Logs, NEW explained \in BOOLEAN,
           StoreLegacyLog(l, explained) \/ \E o \in Orgs : StoreLog(l, o, explained)
    PROVE  MigrationInv'
  <1>1. CASE StoreLegacyLog(l, explained)
    <2>1. Store(l, NoOwner, explained) /\ OwnerFits(NoOwner)
      BY <1>1, Numbers DEF StoreLegacyLog, OwnerFits
    <2> QED BY <2>1, StoreKeeps
  <1>2. ASSUME NEW o \in Orgs, StoreLog(l, o, explained) PROVE MigrationInv'
    <2>1. Store(l, o, explained) /\ OwnerFits(o)
      BY <1>2 DEF StoreLog, OwnerFits
    <2> QED BY <2>1, StoreKeeps
  <1> QED BY <1>1, <1>2

-------------------------------------------------------------------------------
LEMMA NextInv == MigrationInv /\ [Next]_vars => MigrationInv'
  <1> SUFFICES ASSUME MigrationInv, [Next]_vars PROVE MigrationInv'
    OBVIOUS
  <1>1. CASE UNCHANGED vars
    BY <1>1 DEF vars, tables, MigrationInv, TypeOK, JobConsistent, Climbing, Falling,
                RowsFitVersion, OwnedAtHead
  <1>2. CASE Migrate
    BY <1>2, CommandInv, ClimbInv, FindOwnerInv, RequireOwnerInv, DropRevisionInv, CommitInv, EndInv
       DEF Migrate
  <1>3. CASE Serve
    BY <1>3, RegisterInv, DeleteOrganizationInv, StoreInv DEF Serve
  <1> QED BY <1>1, <1>2, <1>3 DEF Next

(* The inductive invariant of the migrations: every reachable state. *)
THEOREM MigrationInvariant == Spec => []MigrationInv
  BY InitInv, NextInv, PTL DEF Spec

(* Every reachable state is well typed. *)
THEOREM MigrationsTypeCorrect == Spec => []TypeOK
  <1>1. MigrationInv => TypeOK
    BY DEF MigrationInv
  <1> QED BY <1>1, MigrationInvariant, PTL

(* At the head every log has an owner that exists, its explanation the     *)
(* same one, whatever the backend did while the revisions ran.             *)
THEOREM HeadOwnsLogs == Spec => []OwnedAtHead
  <1>1. MigrationInv => OwnedAtHead
    BY DEF MigrationInv
  <1> QED BY <1>1, MigrationInvariant, PTL

(* Only a commit gives a log without owner an owner, or changes the        *)
(* committed revision.                                                     *)
LEMMA OnlyCommits ==
    ASSUME MigrationInv, [Next]_vars, ~Commit
    PROVE  /\ version' = version
           /\ \A l \in Logs : record[l] = NoOwner => record'[l] = NoOwner
  <1>1. CASE UNCHANGED vars
    BY <1>1 DEF vars, tables
  <1>2. CASE Migrate
    BY <1>2 DEF Migrate, Command, CreateTables, AddColumns, FindOwner, Refuse, RequireOwner,
                DropRevision, Interrupt, tables
  <1>3. CASE Serve
    <2>1. CASE \E o \in Orgs : Register(o)
      BY <2>1 DEF Register
    <2>2. CASE \E o \in Orgs : DeleteOrganization(o)
      BY <2>2, ConstantsAssumption DEF DeleteOrganization
    <2>3. CASE \E l \in Logs, o \in Rows, explained \in BOOLEAN : Store(l, o, explained)
      BY <2>3, ConstantsAssumption DEF Store, MigrationInv, TypeOK
    <2> QED BY <1>3, <2>1, <2>2, <2>3 DEF Serve, StoreLegacyLog, StoreLog, Rows
  <1> QED BY <1>1, <1>2, <1>3 DEF Next

(* A log is given to an organization only if there is no other.            *)
THEOREM OwnerIsTheOnlyOne == Spec => OwnerUnambiguous
  <1> DEFINE Unambiguous == \A l \in Logs : record[l] = NoOwner /\ record'[l] \in Orgs
                                              => orgs' = {record'[l]}
  <1>1. ASSUME MigrationInv, [Next]_vars PROVE Unambiguous
    <2> SUFFICES ASSUME NEW l \in Logs, record[l] = NoOwner, record'[l] \in Orgs
                 PROVE  orgs' = {record'[l]}
      OBVIOUS
    <2>1. Commit
      BY <1>1, OnlyCommits, ConstantsAssumption
    <2>2. record'[l] = Migrated(record[l])
      BY <2>1 DEF Commit
    <2>3. job \in Jobs /\ job.target \in 0..4 /\ job.pc = "run" /\ job.at = job.target
      BY <1>1, <2>1, Numbers DEF Commit, MigrationInv, TypeOK, Jobs
    <2>4. job.target = Owned
      BY <1>1, <2>1, <2>2, <2>3, MigratedRow, ConstantsAssumption, Numbers
    <2>5. orgs' = orgs
      BY <2>1, <2>4, Numbers DEF Commit
    <2>6. orgs = {job.owner}
      <3>1. Climbing \/ Falling
        BY <1>1, <2>3 DEF MigrationInv, JobConsistent
      <3>2. job.start \in 0..4
        BY <2>3, Numbers DEF Jobs
      <3> QED BY <1>1, <2>3, <2>4, <3>1, <3>2, Numbers DEF MigrationInv, JobConsistent, Climbing, Falling
    <2>7. record'[l] \in orgs
      BY <1>1, <2>1, <2>2, <2>4, MigratedRow, ConstantsAssumption
    <2> QED BY <2>5, <2>6, <2>7
  <1>2. MigrationInv /\ [Next]_vars => [Unambiguous]_vars
    BY <1>1
  <1> HIDE DEF Unambiguous
  <1>3. Spec => [][Unambiguous]_vars
    BY <1>2, MigrationInvariant, PTL DEF Spec
  <1> QED BY <1>3 DEF OwnerUnambiguous, Unambiguous

-------------------------------------------------------------------------------
(* The command in one step. *)

LEMMA CommitIsDo ==
    ASSUME MigrationInv, Commit
    PROVE  Atomic!Do
  <1>1. /\ job \in Jobs /\ job.target \in 0..4 /\ job.start \in 0..4
        /\ job.pc = "run" /\ job.at = job.target /\ (Climbing \/ Falling) /\ job'.pc = "idle"
    BY Numbers DEF Commit, MigrationInv, TypeOK, JobConsistent, Jobs, NoJob
  <1>2. Atomic!Move(job.target)
    BY <1>1 DEF Commit, Atomic!Move
  <1>3. CASE job.target < LogTables
    <2>1. \A row : Migrated(row) = Absent
      BY <1>3 DEF Migrated
    <2>2. Atomic!DropLogs(job.target)
      BY <1>2, <1>3, <2>1 DEF Commit, Atomic!DropLogs, Atomic!Rewrite
    <2> QED
      BY <1>1, <2>2 DEF Atomic!Do
  <1>4. CASE LogTables <= job.target /\ job.target < Owned
    <2>1. \A row : Migrated(row) = IF row = Absent THEN Absent ELSE NoOwner
      BY <1>1, <1>4, Numbers DEF Migrated
    <2>2. Atomic!DisownLogs(job.target)
      BY <1>2, <1>4, <2>1 DEF Commit, Atomic!DisownLogs, Atomic!Rewrite
    <2> QED
      BY <1>1, <2>2 DEF Atomic!Do
  <1>5. CASE job.target = Owned
    <2>1. orgs = {job.owner} /\ job.owner \in Orgs
      BY <1>1, <1>5, Numbers DEF MigrationInv, JobConsistent, Climbing, Falling
    <2>2. \A row : Migrated(row) = IF row = NoOwner THEN job.owner ELSE row
      BY <1>5, Numbers, ConstantsAssumption DEF Migrated, Filled
    <2>3. Atomic!OwnLogs(job.target)
      BY <1>2, <1>5, <2>1, <2>2 DEF Commit, Atomic!OwnLogs, Atomic!Rewrite
    <2> QED
      BY <1>1, <2>3 DEF Atomic!Do
  <1> QED
    BY <1>1, <1>3, <1>4, <1>5, Numbers

LEMMA InitIsAtomic == Init => Atomic!Init
  BY DEF Init, NoJob, Atomic!Init

(* What the command does before its end is not seen. *)
LEMMA MigrateIsAtomic ==
    ASSUME MigrationInv, Migrate
    PROVE  [Atomic!Next]_(Atomic!atomicVars)
  <1>1. ASSUME NEW target \in Revisions, Command(target) PROVE Atomic!Ask(target)
    BY <1>1 DEF Command, tables, Atomic!Ask, Atomic!tables
  <1>2. ASSUME Refuse \/ Interrupt PROVE Atomic!GiveUp
    BY <1>2 DEF Refuse, Interrupt, NoJob, tables, Atomic!GiveUp, Atomic!tables
  <1>3. ASSUME CreateTables \/ AddColumns \/ FindOwner \/ RequireOwner \/ DropRevision
        PROVE  UNCHANGED Atomic!atomicVars
    <2>1. job \in Jobs
      BY DEF MigrationInv, TypeOK
    <2>2. UNCHANGED <<version, tables>> /\ job.pc # "idle" /\ job'.pc # "idle" /\ job'.target = job.target
      BY <1>3, <2>1 DEF Jobs, CreateTables, AddColumns, FindOwner, RequireOwner, DropRevision
    <2> QED
      BY <2>2 DEF tables, Atomic!atomicVars, Atomic!tables
  <1> QED
    BY <1>1, <1>2, <1>3, CommitIsDo DEF Migrate, Atomic!Next

(* What the backend does, it could do were there no command.               *)
LEMMA ServeIsAtomic ==
    ASSUME MigrationInv, Serve
    PROVE  Atomic!Next
  <1>1. ASSUME NEW o \in Orgs, Register(o) PROVE Atomic!Register(o)
    BY <1>1 DEF Register, Atomic!Register
  <1>2. ASSUME NEW o \in Orgs, DeleteOrganization(o) PROVE Atomic!Delete(o)
    BY <1>2 DEF DeleteOrganization, Atomic!Delete, Atomic!Rewrite
  <1>3. ASSUME NEW l \in Logs, NEW explained \in BOOLEAN, StoreLegacyLog(l, explained)
        PROVE  Atomic!Store(l, NoOwner, explained)
    BY <1>3, Numbers DEF StoreLegacyLog, Store, Atomic!Store
  <1>4. ASSUME NEW l \in Logs, NEW o \in Orgs, NEW explained \in BOOLEAN, StoreLog(l, o, explained)
        PROVE  Atomic!Store(l, o, explained)
    BY <1>4 DEF StoreLog, Store, Atomic!Store
  <1> QED
    BY <1>1, <1>2, <1>3, <1>4 DEF Serve, Atomic!Next

(* A migration command takes place in one step or not at all. *)
THEOREM CommandsAreAtomic == Spec => MigratesInOneStep
  <1>1. MigrationInv /\ [Next]_vars => [Atomic!Next]_(Atomic!atomicVars)
    <2> SUFFICES ASSUME MigrationInv, [Next]_vars PROVE [Atomic!Next]_(Atomic!atomicVars)
      OBVIOUS
    <2>1. CASE UNCHANGED vars
      BY <2>1 DEF vars, tables, Atomic!atomicVars, Atomic!tables
    <2> QED
      BY <2>1, MigrateIsAtomic, ServeIsAtomic DEF Next
  <1> QED
    BY <1>1, InitIsAtomic, MigrationInvariant, PTL DEF Spec, Atomic!Spec, MigratesInOneStep

-------------------------------------------------------------------------------
(* Going up loses no log and no explanation. *)
THEOREM UpgradesKeepLogs == Spec => UpgradeKeepsLogs
  <1> DEFINE Kept == version' > version =>
          \A l \in Logs : /\ record'[l] = Absent <=> record[l] = Absent
                          /\ explanation'[l] = Absent <=> explanation[l] = Absent
  <1>1. ASSUME MigrationInv, [Next]_vars PROVE Kept
    <2> SUFFICES ASSUME version' > version, NEW l \in Logs
                 PROVE  /\ record'[l] = Absent <=> record[l] = Absent
                        /\ explanation'[l] = Absent <=> explanation[l] = Absent
      OBVIOUS
    <2>1. version \in 0..4
      BY <1>1, Numbers DEF MigrationInv, TypeOK
    <2>2. Commit
      BY <1>1, <2>1, OnlyCommits
    <2>3. /\ version < job.target /\ record'[l] = Migrated(record[l])
          /\ explanation'[l] = Migrated(explanation[l])
      BY <2>1, <2>2 DEF Commit
    <2> QED BY <1>1, <2>2, <2>3, MigratedRow
  <1>2. MigrationInv /\ [Next]_vars => [Kept]_vars
    BY <1>1
  <1> HIDE DEF Kept
  <1>3. Spec => [][Kept]_vars
    BY <1>2, MigrationInvariant, PTL DEF Spec
  <1> QED BY <1>3 DEF UpgradeKeepsLogs, Kept
===============================================================================

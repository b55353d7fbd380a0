-------------------------------- MODULE Account --------------------------------
(***************************************************************************)
(* Tenant accounts: registration (modules/auth/service.py), the profile,   *)
(* deletion and the admins of an organization (modules/organization), and  *)
(* what ingestion does to them: inserting log rows that refer to the       *)
(* tenant.  Requests are concurrent coroutines; what one of them found out *)
(* about its caller may be out of date when it writes.                     *)
(*                                                                         *)
(* Each operation writes with a single statement that it commits at once,  *)
(* so a write is one step.  Unique indexes and foreign keys are checked in *)
(* it: PostgreSQL lets a statement wait for a transaction that might       *)
(* conflict.  Sessions are the subject of AuthSession; here a caller is    *)
(* authenticated while its account exists.                                 *)
(***************************************************************************)
CONSTANTS Requests,  \* concurrent requests, reused one after the other
          Orgs,      \* primary keys of organization
          Admins,    \* primary keys of admin
          Logs,      \* primary keys of log_records
          Boxes,     \* mailboxes, however their address is spelled
          Phones,
          None,      \* no row
          NotGiven   \* an optional field left out

ASSUME ConstantsAssumption ==
    /\ None \notin Orgs \union Admins
    /\ None \notin [box : Boxes, lower : BOOLEAN]
    /\ NotGiven \notin [box : Boxes, lower : BOOLEAN] \union {None}
    /\ Orgs \intersect Admins = {}

VARIABLES orgMail,  \* organization: organization_email, None for no row
          admin,    \* admin: the row, None for no row
          logOwner, \* log_records: organization_id, None for no row
          used,     \* primary keys generated so far
          pc,       \* where each request is
          req,      \* what it is about; of a confirmed deletion it stays
          done      \* was its last operation answered with success?

tableVars == <<orgMail, admin, logOwner, used>>
vars == <<tableVars, pc, req, done>>

(* An address is a mailbox in lower case or in another spelling. *)
Mails == [box : Boxes, lower : BOOLEAN]
Lower(m) == [m EXCEPT !.lower = TRUE]

AdminRows == [org : Orgs, mail : Mails, phone : Phones]
Ops   == {"none", "register", "update", "delete_org", "create_admin", "delete_admin", "ingest"}
Steps == {"idle", "check", "write", "answer"}
Calls == [op    : Ops,
          by    : Orgs \union Admins \union {None},    \* the caller
          org   : Orgs \union {None},                  \* its organization_id
          mail  : Mails \union {None, NotGiven},
          phone : Phones \union {None},
          admin : Admins \union {None}]
NoCall == [op |-> "none", by |-> None, org |-> None, mail |-> None, phone |-> None, admin |-> None]

TypeOK ==
    /\ orgMail \in [Orgs -> Mails \union {None}]
    /\ admin \in [Admins -> AdminRows \union {None}]
    /\ logOwner \in [Logs -> Orgs \union {None}]
    /\ used \subseteq Orgs \union Admins \union Logs
    /\ pc \in [Requests -> Steps]
    /\ req \in [Requests -> Calls]
    /\ done \in [Requests -> BOOLEAN]

Init ==
    /\ orgMail = [o \in Orgs |-> None]
    /\ admin = [a \in Admins |-> None]
    /\ logOwner = [l \in Logs |-> None]
    /\ used = {}
    /\ pc = [p \in Requests |-> "idle"]
    /\ req = [p \in Requests |-> NoCall]
    /\ done = [p \in Requests |-> FALSE]

-------------------------------------------------------------------------------
(* Callers and what they may do. *)

OrganizationPermissions ==
    {"organization:read", "organization:manage", "incidents:read", "incidents:write",
     "logs:read", "logs:write", "users:manage"}
AdminPermissions ==
    {"organization:read", "incidents:read", "incidents:write", "logs:read", "logs:write"}

Permissions(i) == IF i \in Orgs THEN OrganizationPermissions ELSE AdminPermissions

Authenticated(i) == IF i \in Orgs THEN orgMail[i] # None ELSE admin[i] # None

OrganizationOf(i) == IF i \in Orgs THEN i ELSE admin[i].org

(* get_current_organization and require_permission. *)
MayManage(i, permission) ==
    Authenticated(i) /\ i \in Orgs /\ permission \in Permissions(i)

-------------------------------------------------------------------------------
(* Requests coming in and going away. *)

Begin(p, step, call) ==
    /\ pc[p] = "idle"
    /\ pc' = [pc EXCEPT ![p] = step]
    /\ req' = [req EXCEPT ![p] = call]
    /\ done' = [done EXCEPT ![p] = FALSE]
    /\ UNCHANGED tableVars

Call(o, i) == [NoCall EXCEPT !.op = o, !.by = i, !.org = OrganizationOf(i)]

End(p, success) ==
    /\ pc' = [pc EXCEPT ![p] = "idle"]
    /\ req' = [req EXCEPT ![p] = IF success /\ @.op = "delete_org" THEN @ ELSE NoCall]
    /\ done' = [done EXCEPT ![p] = success]

(* The connection, the process or a statement fails. *)
Abandon(p) == pc[p] # "idle" /\ End(p, FALSE) /\ UNCHANGED tableVars

(* The address is normalised by the schema and again by the service.       *)
Register(p, m) == Begin(p, "check", [NoCall EXCEPT !.op = "register", !.mail = Lower(m)])

(* The address is taken as it is given. *)
UpdateProfile(p, i, m) ==
    /\ MayManage(i, "organization:manage")
    /\ Begin(p, "write", [Call("update", i) EXCEPT !.mail = m])

DeleteAccount(p, i) ==
    /\ MayManage(i, "organization:manage")
    /\ Begin(p, "write", Call("delete_org", i))

CreateAdmin(p, i, m, phone) ==
    /\ MayManage(i, "users:manage")
    /\ Begin(p, "write", [Call("create_admin", i) EXCEPT !.mail = Lower(m), !.phone = phone])

DeleteAdmin(p, i, a) ==
    /\ MayManage(i, "users:manage")
    /\ Begin(p, "write", [Call("delete_admin", i) EXCEPT !.admin = a])

(* A log is queued for the caller's organization, whoever the caller is.   *)
Ingest(p, i) ==
    /\ Authenticated(i)
    /\ Begin(p, "write", Call("ingest", i))

-------------------------------------------------------------------------------
(* Registration looks for the address first. *)

(* find_identity_by_email and get_organization_by_email: an exact match.   *)
FindByMail(m) == {o \in Orgs : orgMail[o] = m}

AddressTaken(p) ==
    /\ pc[p] = "check" /\ FindByMail(req[p].mail) # {}
    /\ End(p, FALSE)
    /\ UNCHANGED tableVars

AddressFree(p) ==
    /\ pc[p] = "check" /\ FindByMail(req[p].mail) = {}
    /\ pc' = [pc EXCEPT ![p] = "write"]
    /\ UNCHANGED <<req, done, tableVars>>

-------------------------------------------------------------------------------
(* The writes.  One that only commits may do so without the client being   *)
(* told.                                                                   *)

Writes(p, o) == pc[p] = "write" /\ req[p].op = o
ThenAnswers(p) == pc' = [pc EXCEPT ![p] = "answer"] /\ UNCHANGED done

UniqueMail(o, m) == \A x \in Orgs \ {o} : orgMail[x] # m

InsertOrganization(p) ==
    /\ Writes(p, "register")
    /\ \E o \in Orgs \ used :
         /\ UniqueMail(o, req[p].mail)
         /\ orgMail' = [orgMail EXCEPT ![o] = req[p].mail]
         /\ used' = used \union {o}
         /\ req' = [req EXCEPT ![p].org = o]
    /\ ThenAnswers(p)
    /\ UNCHANGED <<admin, logOwner>>

(* Mutant: fields left out of the request are written, too. *)
ChangeOrganizationEntirely(p) ==
    /\ Writes(p, "update")
    /\ LET o == req[p].org
           m == IF orgMail[o] = None THEN None ELSE req[p].mail
       IN  orgMail' = [orgMail EXCEPT ![o] = m]
    /\ ThenAnswers(p)
    /\ UNCHANGED <<admin, logOwner, used, req>>

(* update_organization: nothing happens to a row that is gone. *)
ChangeOrganization(p) ==
    /\ Writes(p, "update")
    /\ LET o == req[p].org
           m == IF orgMail[o] = None \/ req[p].mail = NotGiven THEN orgMail[o] ELSE req[p].mail
       IN  /\ m # None => UniqueMail(o, m)
           /\ orgMail' = [orgMail EXCEPT ![o] = m]
    /\ ThenAnswers(p)
    /\ UNCHANGED <<admin, logOwner, used, req>>

AdminsOf(o) == {a \in Admins : admin[a] # None /\ admin[a].org = o}

(* The logs go with their organization; admins hold it up.                 *)
DeleteOrganization(p) ==
    /\ Writes(p, "delete_org")
    /\ LET o == req[p].org
       IN  /\ orgMail[o] # None /\ AdminsOf(o) = {}
           /\ orgMail' = [orgMail EXCEPT ![o] = None]
           /\ logOwner' = [l \in Logs |-> IF logOwner[l] = o THEN None ELSE logOwner[l]]
    /\ \E told \in BOOLEAN : End(p, told)
    /\ UNCHANGED <<admin, used>>

AdminConflict(m, phone) ==
    \E a \in Admins : admin[a] # None /\ (admin[a].mail = m \/ admin[a].phone = phone)

(* Mutant: no foreign key, the organization was seen at authentication.    *)
InsertAdminUnchecked(p) ==
    /\ Writes(p, "create_admin") /\ ~AdminConflict(req[p].mail, req[p].phone)
    /\ \E a \in Admins \ used :
         /\ admin' = [admin EXCEPT ![a] = [org |-> req[p].org, mail |-> req[p].mail,
                                           phone |-> req[p].phone]]
         /\ used' = used \union {a} /\ req' = [req EXCEPT ![p].admin = a]
    /\ ThenAnswers(p)
    /\ UNCHANGED <<orgMail, logOwner>>

InsertAdmin(p) ==
    /\ Writes(p, "create_admin")
    /\ orgMail[req[p].org] # None
    /\ ~AdminConflict(req[p].mail, req[p].phone)
    /\ \E a \in Admins \ used :
         /\ admin' = [admin EXCEPT ![a] = [org |-> req[p].org, mail |-> req[p].mail,
                                           phone |-> req[p].phone]]
         /\ used' = used \union {a}
         /\ req' = [req EXCEPT ![p].admin = a]
    /\ ThenAnswers(p)
    /\ UNCHANGED <<orgMail, logOwner>>

(* Mutant: the admin is deleted by its key alone. *)
RemoveAdminByKey(p) ==
    /\ Writes(p, "delete_admin") /\ admin[req[p].admin] # None
    /\ admin' = [admin EXCEPT ![req[p].admin] = None]
    /\ \E told \in BOOLEAN : End(p, told)
    /\ UNCHANGED <<orgMail, logOwner, used>>

RemoveAdmin(p) ==
    /\ Writes(p, "delete_admin")
    /\ req[p].admin \in AdminsOf(req[p].org)
    /\ admin' = [admin EXCEPT ![req[p].admin] = None]
    /\ \E told \in BOOLEAN : End(p, told)
    /\ UNCHANGED <<orgMail, logOwner, used>>

(* Mutant: the tenant of a queued log is not checked when it is stored.    *)
InsertLogUnchecked(p) ==
    /\ Writes(p, "ingest")
    /\ \E l \in Logs \ used : /\ logOwner' = [logOwner EXCEPT ![l] = req[p].org]
                              /\ used' = used \union {l}
    /\ \E told \in BOOLEAN : End(p, told)
    /\ UNCHANGED <<orgMail, admin>>

InsertLog(p) ==
    /\ Writes(p, "ingest")
    /\ orgMail[req[p].org] # None
    /\ \E l \in Logs \ used : /\ logOwner' = [logOwner EXCEPT ![l] = req[p].org]
                              /\ used' = used \union {l}
    /\ \E told \in BOOLEAN : End(p, told)
    /\ UNCHANGED <<orgMail, admin>>

(* A constraint refuses the write, or its row is not found. *)
Refused(p) ==
    /\ \/ Writes(p, "register") /\ FindByMail(req[p].mail) # {}
       \/ /\ Writes(p, "update")
          /\ orgMail[req[p].org] # None /\ ~UniqueMail(req[p].org, req[p].mail)
       \/ /\ Writes(p, "delete_org")
          /\ orgMail[req[p].org] = None \/ AdminsOf(req[p].org) # {}
       \/ /\ Writes(p, "create_admin")
          /\ orgMail[req[p].org] = None \/ AdminConflict(req[p].mail, req[p].phone)
       \/ Writes(p, "delete_admin") /\ req[p].admin \notin AdminsOf(req[p].org)
       \/ Writes(p, "ingest") /\ orgMail[req[p].org] = None
    /\ End(p, FALSE)
    /\ UNCHANGED tableVars

(* What was written is read back for the answer. *)
Answer(p) ==
    /\ pc[p] = "answer"
    /\ End(p, IF req[p].op = "create_admin" THEN admin[req[p].admin] # None
              ELSE orgMail[req[p].org] # None)
    /\ UNCHANGED tableVars

-------------------------------------------------------------------------------
Arrive(p) ==
    \/ \E m \in Mails : Register(p, m)
    \/ \E i \in Orgs \union Admins :
         \/ \E m \in Mails \union {NotGiven} : UpdateProfile(p, i, m)
         \/ DeleteAccount(p, i)
         \/ \E m \in Mails, phone \in Phones : CreateAdmin(p, i, m, phone)
         \/ \E a \in Admins : DeleteAdmin(p, i, a)
         \/ Ingest(p, i)

Write(p) ==
    \/ InsertOrganization(p) \/ ChangeOrganization(p) \/ DeleteOrganization(p)
    \/ InsertAdmin(p) \/ RemoveAdmin(p) \/ InsertLog(p)

Next == \E p \in Requests : \/ Arrive(p) \/ AddressTaken(p) \/ AddressFree(p)
                            \/ Write(p) \/ Refused(p) \/ Answer(p) \/ Abandon(p)

Spec == Init /\ [][Next]_vars

-------------------------------------------------------------------------------
(* Nothing is left that refers to an organization that is gone, although   *)
(* admins are created and queued logs are stored for callers that were     *)
(* authenticated before the organization was deleted.                      *)
NoDanglingRows ==
    /\ \A a \in Admins : admin[a] # None => orgMail[admin[a].org] # None
    /\ \A l \in Logs : logOwner[l] # None => orgMail[logOwner[l]] # None

(* Once a deletion was confirmed, nothing of the organization is there,    *)
(* and nothing under way brings it back.                                   *)
DeletionIsFinal ==
    \A p \in Requests :
        done[p] /\ req[p].op = "delete_org" =>
            /\ orgMail[req[p].org] = None /\ AdminsOf(req[p].org) = {}
            /\ \A l \in Logs : logOwner[l] # req[p].org

(* Tenants are isolated: the row of an organization and its admins change  *)
(* only by the write of a request the organization itself made, never by   *)
(* one of another tenant or of an admin.                                   *)
ChangedByItself(o) ==
    \/ orgMail[o] # None /\ orgMail'[o] # orgMail[o]
    \/ AdminsOf(o)' # AdminsOf(o)
    => \E p \in Requests : pc[p] = "write" /\ pc'[p] # "write" /\ req[p].by = o

TenantsApart == [][\A o \in Orgs : ChangedByItself(o)]_vars

(* What each step knows of the request, checks at arrival included: only   *)
(* an organization manages itself and its admins.                          *)
Managing == {"update", "delete_org", "create_admin", "delete_admin"}

WellFormed(c) ==
    /\ c.op \in Managing => c.org \in Orgs /\ c.by = c.org
    /\ c.op = "ingest" => c.org \in Orgs
    /\ c.op \in {"register", "create_admin"} => c.mail \in Mails
    /\ c.op = "update" => c.mail \in Mails \union {NotGiven}
    /\ c.op = "create_admin" => c.phone \in Phones
    /\ c.op = "delete_admin" => c.admin \in Admins

RequestAt(p) ==
    /\ WellFormed(req[p])
    /\ pc[p] # "idle" => ~done[p]
    /\ pc[p] = "check" => req[p].op = "register"
    /\ pc[p] = "answer" =>
         /\ req[p].op \in {"register", "update", "create_admin"}
         /\ req[p].org \in Orgs
         /\ req[p].op = "create_admin" => req[p].admin \in Admins

(* An organization that is or was there never comes back: its key is used. *)
KeysAreUsed ==
    /\ \A o \in Orgs : orgMail[o] # None => o \in used
    /\ \A a \in Admins : admin[a] # None => a \in used
    /\ \A p \in Requests : done[p] /\ req[p].op = "delete_org" => req[p].org \in used

(* The inductive invariant: who asked for what is settled at arrival, rows *)
(* refer to rows that exist, and a deletion is final because the key of    *)
(* the organization is not given out again.                                *)
AccountInv ==
    /\ TypeOK
    /\ NoDanglingRows
    /\ DeletionIsFinal
    /\ KeysAreUsed
    /\ \A p \in Requests : RequestAt(p)

(* "Find an organization or administrator account by normalized email":    *)
(* every organization is found, and it alone, when it signs in with the    *)
(* address it has.                                                         *)
SignInFindsAccount == \A o \in Orgs : orgMail[o] # None => FindByMail(Lower(orgMail[o])) = {o}
===============================================================================

----------------------------- MODULE AccountProofs -----------------------------
(***************************************************************************)
(* Theorems about Account.  AccountInv is inductive: a request arrives     *)
(* well formed and stays so, a row is inserted only while the row it       *)
(* refers to is there, and keys are not used twice.                        *)
(***************************************************************************)
EXTENDS Account, TLAPS

(* The types of the tables, and of what belongs to the requests. *)
Tables == /\ orgMail \in [Orgs -> Mails \union {None}]
          /\ admin \in [Admins -> AdminRows \union {None}]
          /\ logOwner \in [Logs -> Orgs \union {None}]
          /\ used \subseteq Orgs \union Admins \union Logs

Locals == /\ pc \in [Requests -> Steps]
          /\ req \in [Requests -> Calls]
          /\ done \in [Requests -> BOOLEAN]

LEMMA TypesSplit == TypeOK <=> Tables /\ Locals
  BY DEF TypeOK, Tables, Locals

(* None stands for no row, and for nothing else. *)
LEMMA NoneIsNoRow == /\ None \notin Mails /\ None \notin Orgs /\ None \notin Admins
                     /\ NotGiven \notin Mails /\ NotGiven # None
  BY ConstantsAssumption DEF Mails

LEMMA LowerIsMail == \A m \in Mails : Lower(m) \in Mails
  BY DEF Lower, Mails

-------------------------------------------------------------------------------
(* One request takes a step, the others stay where they are. *)

Moves(p, s, c, d) ==
    /\ pc' = [pc EXCEPT ![p] = s]
    /\ req' = [req EXCEPT ![p] = c]
    /\ done' = [done EXCEPT ![p] = d]

LEMMA MoveTypes ==
    ASSUME Locals, NEW p \in Requests, NEW s \in Steps, NEW c \in Calls, NEW d \in BOOLEAN,
           Moves(p, s, c, d)
    PROVE  /\ Locals'
           /\ pc'[p] = s /\ req'[p] = c /\ done'[p] = d
           /\ \A q \in Requests \ {p} : pc'[q] = pc[q] /\ req'[q] = req[q] /\ done'[q] = done[q]
  BY DEF Moves, Locals

(* A step keeps AccountInv if the tables stay sound, keys stay used, what  *)
(* was gone for good stays away, and the request that moves is well off.   *)
LEMMA MoveKeeps ==
    ASSUME AccountInv, NEW p \in Requests, NEW s \in Steps, NEW c \in Calls, NEW d \in BOOLEAN,
           Moves(p, s, c, d),
           Tables', NoDanglingRows', used \subseteq used',
           \A o \in Orgs : orgMail'[o] # None => o \in used',
           \A a \in Admins : admin'[a] # None => a \in used',
           \A o \in Orgs : o \in used /\ orgMail[o] = None => orgMail'[o] = None,
           WellFormed(c),
           s # "idle" => ~d,
           s = "check" => c.op = "register",
           s = "answer" => /\ c.op \in {"register", "update", "create_admin"}
                           /\ c.org \in Orgs
                           /\ c.op = "create_admin" => c.admin \in Admins,
           d /\ c.op = "delete_org" => c.org \in used' /\ orgMail'[c.org] = None
    PROVE  AccountInv'
<1>1. Locals /\ Tables
  BY TypesSplit DEF AccountInv
<1>2. /\ Locals'
      /\ pc'[p] = s /\ req'[p] = c /\ done'[p] = d
      /\ \A q \in Requests \ {p} : pc'[q] = pc[q] /\ req'[q] = req[q] /\ done'[q] = done[q]
  BY <1>1, MoveTypes
<1>3. TypeOK'
  BY <1>2 DEF TypeOK, Tables, Locals
<1>4. \A q \in Requests : RequestAt(q)'
  BY <1>2 DEF AccountInv, RequestAt, WellFormed
<1>5. KeysAreUsed'
  BY <1>2 DEF AccountInv, KeysAreUsed
<1>6. \A q \in Requests : done'[q] /\ req'[q].op = "delete_org" =>
                             req'[q].org \in Orgs /\ orgMail'[req'[q].org] = None
  <2> SUFFICES ASSUME NEW q \in Requests, done'[q], req'[q].op = "delete_org"
               PROVE  req'[q].org \in Orgs /\ orgMail'[req'[q].org] = None
    OBVIOUS
  <2>1. req'[q].org \in Orgs
    BY <1>4 DEF RequestAt, WellFormed, Managing
  <2>2. CASE q = p
    BY <1>2, <2>1, <2>2
  <2>3. CASE q # p
    BY <1>2, <2>1, <2>3 DEF AccountInv, KeysAreUsed, DeletionIsFinal
  <2> QED
    BY <2>2, <2>3
<1>7. \A o \in Orgs : orgMail'[o] = None => AdminsOf(o)' = {} /\ \A l \in Logs : logOwner'[l] # o
  BY NoneIsNoRow DEF NoDanglingRows, AdminsOf, Tables, AdminRows
<1>8. DeletionIsFinal'
  BY <1>6, <1>7 DEF DeletionIsFinal
<1> QED
  BY <1>3, <1>4, <1>5, <1>8 DEF AccountInv

(* The same for a step that leaves the tables alone. *)
LEMMA LocalKeeps ==
    ASSUME AccountInv, NEW p \in Requests, NEW s \in Steps, NEW c \in Calls, NEW d \in BOOLEAN,
           Moves(p, s, c, d), UNCHANGED tableVars,
           WellFormed(c),
           s # "idle" => ~d,
           s = "check" => c.op = "register",
           s # "answer",
           ~(d /\ c.op = "delete_org")
    PROVE  AccountInv'
<1>1. Tables' /\ NoDanglingRows' /\ used \subseteq used'
  BY TypesSplit DEF AccountInv, tableVars, Tables, NoDanglingRows
<1>2. /\ \A o \in Orgs : orgMail'[o] # None => o \in used'
      /\ \A o \in Orgs : o \in used /\ orgMail[o] = None => orgMail'[o] = None
      /\ \A a \in Admins : admin'[a] # None => a \in used'
  BY DEF AccountInv, KeysAreUsed, tableVars
<1> QED
  BY <1>1, <1>2, MoveKeeps

(* A request that ends without a confirmed deletion. *)
LEMMA NoCallWellFormed == NoCall \in Calls /\ WellFormed(NoCall)
  BY DEF NoCall, Calls, Ops, WellFormed, Managing

LEMMA EndKeeps ==
    ASSUME AccountInv, NEW p \in Requests, NEW success \in BOOLEAN,
           End(p, success), UNCHANGED tableVars,
           success => req[p].op # "delete_org"
    PROVE  AccountInv'
<1>1. req \in [Requests -> Calls]
  BY DEF AccountInv, TypeOK
<1>2. Moves(p, "idle", NoCall, success)
  BY <1>1 DEF End, Moves
<1>3. NoCall.op # "delete_org" /\ "idle" \in Steps
  BY DEF NoCall, Steps
<1> QED
  BY <1>2, <1>3, NoCallWellFormed, LocalKeeps

LEMMA BeginKeeps ==
    ASSUME AccountInv, NEW p \in Requests, NEW step \in {"check", "write"}, NEW c \in Calls,
           Begin(p, step, c), WellFormed(c), step = "check" => c.op = "register"
    PROVE  AccountInv'
<1>1. Moves(p, step, c, FALSE) /\ step \in Steps /\ step # "answer" /\ UNCHANGED tableVars
  BY DEF Begin, Moves, Steps
<1> QED
  BY <1>1, LocalKeeps

-------------------------------------------------------------------------------
(* Requests arrive well formed. *)

LEMMA ManagerIsOrganization ==
    ASSUME NEW i, NEW permission, MayManage(i, permission)
    PROVE  i \in Orgs /\ OrganizationOf(i) = i
  BY DEF MayManage, OrganizationOf

LEMMA ArriveKeeps ==
    ASSUME AccountInv, NEW p \in Requests, Arrive(p)
    PROVE  AccountInv'
<1>1. ASSUME NEW m \in Mails, Register(p, m)
      PROVE  AccountInv'
  <2> DEFINE c == [NoCall EXCEPT !.op = "register", !.mail = Lower(m)]
  <2>1. c \in Calls /\ WellFormed(c) /\ c.op = "register"
    BY LowerIsMail DEF NoCall, Calls, Ops, WellFormed, Managing
  <2>2. Begin(p, "check", c)
    BY <1>1 DEF Register
  <2> HIDE DEF c
  <2> QED
    BY <2>1, <2>2, BeginKeeps
<1>2. ASSUME NEW i \in Orgs \union Admins, NEW m \in Mails \union {NotGiven}, UpdateProfile(p, i, m)
      PROVE  AccountInv'
  <2> DEFINE c == [Call("update", i) EXCEPT !.mail = m]
  <2>1. i \in Orgs /\ OrganizationOf(i) = i
    BY <1>2, ManagerIsOrganization DEF UpdateProfile
  <2>2. c \in Calls /\ WellFormed(c)
    BY <2>1 DEF Call, NoCall, Calls, Ops, WellFormed, Managing
  <2>3. Begin(p, "write", c)
    BY <1>2 DEF UpdateProfile
  <2> HIDE DEF c
  <2> QED
    BY <2>2, <2>3, BeginKeeps
<1>3. ASSUME NEW i \in Orgs \union Admins, DeleteAccount(p, i)
      PROVE  AccountInv'
  <2>1. i \in Orgs /\ OrganizationOf(i) = i
    BY <1>3, ManagerIsOrganization DEF DeleteAccount
  <2>2. Call("delete_org", i) \in Calls /\ WellFormed(Call("delete_org", i))
    BY <2>1 DEF Call, NoCall, Calls, Ops, WellFormed, Managing
  <2> QED
    BY <1>3, <2>2, BeginKeeps DEF DeleteAccount
<1>4. ASSUME NEW i \in Orgs \union Admins, NEW m \in Mails, NEW phone \in Phones,
             CreateAdmin(p, i, m, phone)
      PROVE  AccountInv'
  <2> DEFINE c == [Call("create_admin", i) EXCEPT !.mail = Lower(m), !.phone = phone]
  <2>1. i \in Orgs /\ OrganizationOf(i) = i
    BY <1>4, ManagerIsOrganization DEF CreateAdmin
  <2>2. c \in Calls /\ WellFormed(c)
    BY <2>1, LowerIsMail DEF Call, NoCall, Calls, Ops, WellFormed, Managing
  <2>3. Begin(p, "write", c)
    BY <1>4 DEF CreateAdmin
  <2> HIDE DEF c
  <2> QED
    BY <2>2, <2>3, BeginKeeps
<1>5. ASSUME NEW i \in Orgs \union Admins, NEW a \in Admins, DeleteAdmin(p, i, a)
      PROVE  AccountInv'
  <2> DEFINE c == [Call("delete_admin", i) EXCEPT !.admin = a]
  <2>1. i \in Orgs /\ OrganizationOf(i) = i
    BY <1>5, ManagerIsOrganization DEF DeleteAdmin
  <2>2. c \in Calls /\ WellFormed(c)
    BY <2>1 DEF Call, NoCall, Calls, Ops, WellFormed, Managing
  <2>3. Begin(p, "write", c)
    BY <1>5 DEF DeleteAdmin
  <2> HIDE DEF c
  <2> QED
    BY <2>2, <2>3, BeginKeeps
<1>6. ASSUME NEW i \in Orgs \union Admins, Ingest(p, i)
      PROVE  AccountInv'
  <2>1. OrganizationOf(i) \in Orgs
    BY <1>6, ConstantsAssumption DEF Ingest, Authenticated, OrganizationOf, AccountInv, TypeOK,
                                     AdminRows
  <2>2. Call("ingest", i) \in Calls /\ WellFormed(Call("ingest", i))
    BY <2>1 DEF Call, NoCall, Calls, Ops, WellFormed, Managing
  <2> QED
    BY <1>6, <2>2, BeginKeeps DEF Ingest
<1> QED
  BY <1>1, <1>2, <1>3, <1>4, <1>5, <1>6 DEF Arrive

-------------------------------------------------------------------------------
(* The writes.  At each of them the request's organization is a key.       *)

LEMMA WriterTypes ==
    ASSUME AccountInv, NEW p \in Requests, pc[p] = "write"
    PROVE  /\ Tables /\ Locals /\ NoDanglingRows
           /\ req[p] \in Calls /\ WellFormed(req[p]) /\ ~done[p]
           /\ \A o \in Orgs : orgMail[o] # None => o \in used
           /\ \A a \in Admins : admin[a] # None => a \in used
  BY TypesSplit DEF AccountInv, Locals, RequestAt, KeysAreUsed

(* Going on to read back what was written. *)
LEMMA ThenAnswersMoves ==
    ASSUME Locals, NEW p \in Requests, NEW c, ~done[p],
           ThenAnswers(p), req' = [req EXCEPT ![p] = c]
    PROVE  Moves(p, "answer", c, FALSE)
  BY DEF ThenAnswers, Moves, Locals

LEMMA InsertOrganizationKeeps ==
    ASSUME AccountInv, NEW p \in Requests, InsertOrganization(p)
    PROVE  AccountInv'
<1> USE NoneIsNoRow
<1>1. pc[p] = "write" /\ req[p].op = "register"
  BY DEF InsertOrganization, Writes
<1>2. /\ Tables /\ Locals /\ NoDanglingRows /\ req[p] \in Calls /\ WellFormed(req[p]) /\ ~done[p]
      /\ \A o \in Orgs : orgMail[o] # None => o \in used
      /\ \A a \in Admins : admin[a] # None => a \in used
  BY <1>1, WriterTypes
<1>3. PICK o \in Orgs \ used : /\ orgMail' = [orgMail EXCEPT ![o] = req[p].mail]
                               /\ used' = used \union {o}
                               /\ req' = [req EXCEPT ![p].org = o]
  BY DEF InsertOrganization
<1> DEFINE c == [req[p] EXCEPT !.org = o]
<1>4. c \in Calls /\ WellFormed(c) /\ c.op = "register" /\ c.org \in Orgs
  BY <1>1, <1>2 DEF Calls, WellFormed, Managing
<1>5. Moves(p, "answer", c, FALSE)
  BY <1>2, <1>3, ThenAnswersMoves DEF InsertOrganization, Locals
<1>6. req[p].mail \in Mails
  BY <1>1, <1>2 DEF WellFormed
<1>7. Tables'
  BY <1>2, <1>3, <1>6 DEF Tables, InsertOrganization
<1>8. NoDanglingRows' /\ used \subseteq used'
  BY <1>2, <1>3, <1>6 DEF Tables, NoDanglingRows, InsertOrganization, AdminRows
<1>9. /\ \A x \in Orgs : orgMail'[x] # None => x \in used'
      /\ \A x \in Orgs : x \in used /\ orgMail[x] = None => orgMail'[x] = None
      /\ \A a \in Admins : admin'[a] # None => a \in used'
  BY <1>2, <1>3 DEF Tables, InsertOrganization
<1> HIDE DEF c
<1> QED
  BY <1>4, <1>5, <1>7, <1>8, <1>9, MoveKeeps DEF Steps

LEMMA ChangeOrganizationKeeps ==
    ASSUME AccountInv, NEW p \in Requests, ChangeOrganization(p)
    PROVE  AccountInv'
<1> USE NoneIsNoRow
<1>1. pc[p] = "write" /\ req[p].op = "update"
  BY DEF ChangeOrganization, Writes
<1>2. /\ Tables /\ Locals /\ NoDanglingRows /\ req[p] \in Calls /\ WellFormed(req[p]) /\ ~done[p]
      /\ \A o \in Orgs : orgMail[o] # None => o \in used
      /\ \A a \in Admins : admin[a] # None => a \in used
  BY <1>1, WriterTypes
<1>3. req[p].org \in Orgs /\ req[p].mail \in Mails \union {NotGiven}
  BY <1>1, <1>2 DEF WellFormed, Managing
<1>4. Moves(p, "answer", req[p], FALSE)
  BY <1>2, ThenAnswersMoves DEF ChangeOrganization, Locals
<1>5. Tables' /\ \A x \in Orgs : orgMail'[x] = None <=> orgMail[x] = None
  BY <1>2, <1>3 DEF Tables, ChangeOrganization
<1>6. NoDanglingRows' /\ used \subseteq used'
  BY <1>2, <1>5 DEF Tables, NoDanglingRows, ChangeOrganization, AdminRows
<1>7. /\ \A x \in Orgs : orgMail'[x] # None => x \in used'
      /\ \A x \in Orgs : x \in used /\ orgMail[x] = None => orgMail'[x] = None
      /\ \A a \in Admins : admin'[a] # None => a \in used'
  BY <1>2, <1>5, <1>6 DEF ChangeOrganization
<1> QED
  BY <1>1, <1>2, <1>3, <1>4, <1>5, <1>6, <1>7, MoveKeeps DEF Steps

LEMMA InsertAdminKeeps ==
    ASSUME AccountInv, NEW p \in Requests, InsertAdmin(p)
    PROVE  AccountInv'
<1>1. pc[p] = "write" /\ req[p].op = "create_admin"
  BY DEF InsertAdmin, Writes
<1>2. /\ Tables /\ Locals /\ NoDanglingRows /\ req[p] \in Calls /\ WellFormed(req[p]) /\ ~done[p]
      /\ \A o \in Orgs : orgMail[o] # None => o \in used
      /\ \A a \in Admins : admin[a] # None => a \in used
  BY <1>1, WriterTypes
<1>3. req[p].org \in Orgs /\ req[p].mail \in Mails /\ req[p].phone \in Phones
  BY <1>1, <1>2 DEF WellFormed, Managing
<1> DEFINE r == [org |-> req[p].org, mail |-> req[p].mail, phone |-> req[p].phone]
<1>4. PICK a \in Admins \ used : /\ admin' = [admin EXCEPT ![a] = r]
                                 /\ used' = used \union {a}
                                 /\ req' = [req EXCEPT ![p].admin = a]
  BY DEF InsertAdmin
<1>5. r \in AdminRows /\ r.org = req[p].org
  BY <1>3 DEF AdminRows
<1> HIDE DEF r
<1> DEFINE c == [req[p] EXCEPT !.admin = a]
<1>6. c \in Calls /\ WellFormed(c) /\ c.op = "create_admin" /\ c.org \in Orgs /\ c.admin \in Admins
  BY <1>1, <1>2, <1>3 DEF Calls, WellFormed, Managing
<1>7. Moves(p, "answer", c, FALSE)
  BY <1>2, <1>4, ThenAnswersMoves DEF InsertAdmin, Locals
<1>8. Tables' /\ used \subseteq used'
  BY <1>2, <1>4, <1>5 DEF Tables, InsertAdmin
<1>9. NoDanglingRows'
  BY <1>2, <1>4, <1>5 DEF Tables, NoDanglingRows, InsertAdmin
<1>10. /\ \A x \in Orgs : orgMail'[x] # None => x \in used'
       /\ \A x \in Orgs : x \in used /\ orgMail[x] = None => orgMail'[x] = None
       /\ \A y \in Admins : admin'[y] # None => y \in used'
  BY <1>2, <1>8 DEF InsertAdmin
<1> HIDE DEF c
<1> QED
  BY <1>6, <1>7, <1>8, <1>9, <1>10, MoveKeeps DEF Steps

LEMMA InsertLogKeeps ==
    ASSUME AccountInv, NEW p \in Requests, InsertLog(p)
    PROVE  AccountInv'
<1>1. pc[p] = "write" /\ req[p].op = "ingest"
  BY DEF InsertLog, Writes
<1>2. /\ Tables /\ Locals /\ NoDanglingRows /\ req[p] \in Calls /\ WellFormed(req[p]) /\ ~done[p]
      /\ \A o \in Orgs : orgMail[o] # None => o \in used
      /\ \A a \in Admins : admin[a] # None => a \in used
  BY <1>1, WriterTypes
<1>3. req[p].org \in Orgs /\ orgMail[req[p].org] # None
  BY <1>1, <1>2 DEF WellFormed, InsertLog
<1>4. PICK l \in Logs \ used : /\ logOwner' = [logOwner EXCEPT ![l] = req[p].org]
                               /\ used' = used \union {l}
  BY DEF InsertLog
<1>5. PICK told \in BOOLEAN : End(p, told)
  BY DEF InsertLog
<1>6. Moves(p, "idle", NoCall, told)
  BY <1>1, <1>2, <1>5 DEF End, Moves, Locals
<1>7. /\ Tables' /\ used \subseteq used' /\ NoDanglingRows'
      /\ \A x \in Orgs : orgMail'[x] # None => x \in used'
      /\ \A x \in Orgs : x \in used /\ orgMail[x] = None => orgMail'[x] = None
      /\ \A a \in Admins : admin'[a] # None => a \in used'
  BY <1>2, <1>3, <1>4 DEF Tables, NoDanglingRows, InsertLog
<1>8. NoCall.op # "delete_org" /\ "idle" \in Steps
  BY DEF NoCall, Steps
<1> QED
  BY <1>6, <1>7, <1>8, NoCallWellFormed, MoveKeeps

LEMMA RemoveAdminKeeps ==
    ASSUME AccountInv, NEW p \in Requests, RemoveAdmin(p)
    PROVE  AccountInv'
<1>1. pc[p] = "write" /\ req[p].op = "delete_admin"
  BY DEF RemoveAdmin, Writes
<1>2. /\ Tables /\ Locals /\ NoDanglingRows /\ req[p] \in Calls /\ WellFormed(req[p]) /\ ~done[p]
      /\ \A o \in Orgs : orgMail[o] # None => o \in used
      /\ \A a \in Admins : admin[a] # None => a \in used
  BY <1>1, WriterTypes
<1>3. PICK told \in BOOLEAN : End(p, told)
  BY DEF RemoveAdmin
<1>4. Moves(p, "idle", NoCall, told)
  BY <1>1, <1>2, <1>3 DEF End, Moves, Locals
<1>5. /\ Tables' /\ used \subseteq used' /\ NoDanglingRows'
      /\ \A x \in Orgs : orgMail'[x] # None => x \in used'
      /\ \A x \in Orgs : x \in used /\ orgMail[x] = None => orgMail'[x] = None
      /\ \A a \in Admins : admin'[a] # None => a \in used'
  BY <1>2 DEF Tables, NoDanglingRows, RemoveAdmin
<1>6. NoCall.op # "delete_org" /\ "idle" \in Steps
  BY DEF NoCall, Steps
<1> QED
  BY <1>4, <1>5, <1>6, NoCallWellFormed, MoveKeeps

(* Its admins are gone before an organization is, its logs go with it.     *)
LEMMA DeleteOrganizationKeeps ==
    ASSUME AccountInv, NEW p \in Requests, DeleteOrganization(p)
    PROVE  AccountInv'
<1>1. pc[p] = "write" /\ req[p].op = "delete_org"
  BY DEF DeleteOrganization, Writes
<1>2. /\ Tables /\ Locals /\ NoDanglingRows /\ req[p] \in Calls /\ WellFormed(req[p]) /\ ~done[p]
      /\ \A o \in Orgs : orgMail[o] # None => o \in used
      /\ \A a \in Admins : admin[a] # None => a \in used
  BY <1>1, WriterTypes
<1> DEFINE o == req[p].org
<1>3. /\ o \in Orgs /\ orgMail[o] # None /\ AdminsOf(o) = {}
      /\ orgMail' = [orgMail EXCEPT ![o] = None]
      /\ logOwner' = [l \in Logs |-> IF logOwner[l] = o THEN None ELSE logOwner[l]]
      /\ admin' = admin /\ used' = used
  BY <1>1, <1>2 DEF WellFormed, Managing, DeleteOrganization
<1>4. PICK told \in BOOLEAN : End(p, told)
  BY DEF DeleteOrganization
<1> DEFINE c == IF told THEN req[p] ELSE NoCall
<1>5. Moves(p, "idle", c, told)
  BY <1>1, <1>2, <1>4 DEF End, Moves, Locals
<1>6. c \in Calls /\ WellFormed(c) /\ (told => c.org = o)
  BY <1>2, NoCallWellFormed
<1> HIDE DEF c
<1> HIDE DEF o
<1>7. Tables' /\ used \subseteq used' /\ o \in used
  BY <1>2, <1>3 DEF Tables
<1>8. NoDanglingRows'
  BY <1>2, <1>3 DEF Tables, NoDanglingRows, AdminsOf
<1>9. /\ orgMail'[o] = None
      /\ \A x \in Orgs : orgMail'[x] # None => x \in used'
      /\ \A x \in Orgs : x \in used /\ orgMail[x] = None => orgMail'[x] = None
      /\ \A a \in Admins : admin'[a] # None => a \in used'
  BY <1>2, <1>3 DEF Tables
<1> QED
  BY <1>5, <1>6, <1>7, <1>8, <1>9, MoveKeeps DEF Steps

LEMMA AddressFreeKeeps ==
    ASSUME AccountInv, NEW p \in Requests, AddressFree(p)
    PROVE  AccountInv'
<1>1. Locals /\ RequestAt(p) /\ pc[p] = "check" /\ UNCHANGED tableVars
  BY TypesSplit DEF AccountInv, AddressFree
<1>2. Moves(p, "write", req[p], FALSE) /\ req[p] \in Calls /\ WellFormed(req[p])
  BY <1>1 DEF AddressFree, Moves, Locals, RequestAt
<1> QED
  BY <1>1, <1>2, LocalKeeps DEF Steps

(* A request that is refused, answered or abandoned confirms no deletion.  *)
LEMMA FailureKeeps ==
    ASSUME AccountInv, NEW p \in Requests, AddressTaken(p) \/ Refused(p) \/ Abandon(p)
    PROVE  AccountInv'
<1>1. End(p, FALSE) /\ UNCHANGED tableVars
  BY DEF AddressTaken, Refused, Abandon
<1> QED
  BY <1>1, EndKeeps

LEMMA AnswerKeeps ==
    ASSUME AccountInv, NEW p \in Requests, Answer(p)
    PROVE  AccountInv'
<1>1. req[p].op # "delete_org"
  BY DEF AccountInv, RequestAt, Answer
<1>2. PICK success \in BOOLEAN : End(p, success)
  BY DEF Answer
<1> QED
  BY <1>1, <1>2, EndKeeps DEF Answer

-------------------------------------------------------------------------------
LEMMA InitHolds == Init => AccountInv
<1> SUFFICES ASSUME Init PROVE AccountInv
  OBVIOUS
<1>1. TypeOK
  BY NoCallWellFormed DEF Init, TypeOK, Steps
<1>2. \A p \in Requests : RequestAt(p)
  BY NoCallWellFormed DEF Init, RequestAt
<1> QED
  BY <1>1, <1>2 DEF Init, AccountInv, NoDanglingRows, DeletionIsFinal, KeysAreUsed, NoCall

LEMMA StepHolds == AccountInv /\ [Next]_vars => AccountInv'
<1> SUFFICES ASSUME AccountInv, [Next]_vars
             PROVE  AccountInv'
  OBVIOUS
<1>1. CASE UNCHANGED vars
  BY <1>1 DEF AccountInv, TypeOK, NoDanglingRows, DeletionIsFinal, AdminsOf, KeysAreUsed, RequestAt,
              vars, tableVars
<1>2. ASSUME NEW p \in Requests, Write(p)
      PROVE  AccountInv'
  BY <1>2, InsertOrganizationKeeps, ChangeOrganizationKeeps, DeleteOrganizationKeeps,
     InsertAdminKeeps, RemoveAdminKeeps, InsertLogKeeps DEF Write
<1> QED
  BY <1>1, <1>2, ArriveKeeps, AddressFreeKeeps, FailureKeeps, AnswerKeeps DEF Next

(* AccountInv holds in every reachable state: rows refer to rows that      *)
(* exist, a confirmed deletion left nothing behind, and every request is   *)
(* well formed, whatever runs at the same time.                            *)
THEOREM AccountInvariant == Spec => []AccountInv
<1> QED
  BY InitHolds, StepHolds, PTL DEF Spec

THEOREM AccountTypeCorrect == Spec => []TypeOK
<1>1. AccountInv => TypeOK
  BY DEF AccountInv
<1> QED
  BY <1>1, AccountInvariant, PTL

(* No admin and no log outlives its organization, although the caller that *)
(* creates them was authenticated before the organization was deleted.     *)
THEOREM NothingDangles == Spec => []NoDanglingRows
<1>1. AccountInv => NoDanglingRows
  BY DEF AccountInv
<1> QED
  BY <1>1, AccountInvariant, PTL

(* What a confirmed deletion removed never comes back. *)
THEOREM DeletedForGood == Spec => []DeletionIsFinal
<1>1. AccountInv => DeletionIsFinal
  BY DEF AccountInv
<1> QED
  BY <1>1, AccountInvariant, PTL

-------------------------------------------------------------------------------
(* A key is not given out twice, so an insert changes no other row; every  *)
(* other write names the organization that asked for it.                   *)
LEMMA WriteChangesOwn ==
    ASSUME AccountInv, NEW p \in Requests, Write(p), NEW o \in Orgs
    PROVE  ChangedByItself(o)
<1>1. pc[p] = "write" /\ pc'[p] # "write"
  BY DEF AccountInv, TypeOK, Write, Writes, ThenAnswers, End, InsertOrganization,
         ChangeOrganization, DeleteOrganization, InsertAdmin, RemoveAdmin, InsertLog
<1>2. Tables /\ KeysAreUsed /\ WellFormed(req[p])
  BY <1>1, WriterTypes DEF AccountInv
<1>3. CASE InsertOrganization(p)
  BY <1>2, <1>3 DEF InsertOrganization, Tables, KeysAreUsed, ChangedByItself, AdminsOf
<1>4. CASE InsertLog(p)
  BY <1>4 DEF InsertLog, ChangedByItself, AdminsOf
<1>5. CASE req[p].op \in Managing
  <2>1. req[p].org \in Orgs /\ req[p].by = req[p].org
    BY <1>2, <1>5 DEF WellFormed
  <2>2. CASE o = req[p].org
    BY <1>1, <2>1, <2>2 DEF ChangedByItself
  <2>3. CASE o # req[p].org
    <3>1. CASE ChangeOrganization(p)
      BY <1>2, <2>1, <2>3, <3>1 DEF ChangeOrganization, Tables, ChangedByItself, AdminsOf
    <3>2. CASE DeleteOrganization(p)
      BY <1>2, <2>1, <2>3, <3>2 DEF DeleteOrganization, Tables, ChangedByItself, AdminsOf
    <3>3. CASE InsertAdmin(p)
      <4>1. PICK a \in Admins \ used :
                admin' = [admin EXCEPT ![a] = [org |-> req[p].org, mail |-> req[p].mail,
                                               phone |-> req[p].phone]]
        BY <3>3 DEF InsertAdmin
      <4>2. admin[a] = None
        BY <1>2, <4>1 DEF KeysAreUsed
      <4>3. AdminsOf(o)' = AdminsOf(o)
        BY <1>2, <2>3, <4>1, <4>2 DEF Tables, AdminsOf
      <4> QED
        BY <3>3, <4>3 DEF InsertAdmin, ChangedByItself
    <3>4. CASE RemoveAdmin(p)
      <4>1. admin[req[p].admin].org = req[p].org
        BY <3>4 DEF RemoveAdmin, AdminsOf
      <4>2. AdminsOf(o)' = AdminsOf(o)
        BY <1>2, <2>3, <3>4, <4>1 DEF RemoveAdmin, Tables, AdminsOf
      <4> QED
        BY <3>4, <4>2 DEF RemoveAdmin, ChangedByItself
    <3>5. CASE InsertOrganization(p) \/ InsertLog(p)
      BY <1>3, <1>4, <3>5
    <3> QED
      BY <3>1, <3>2, <3>3, <3>4, <3>5 DEF Write
  <2> QED
    BY <2>2, <2>3
<1>6. CASE req[p].op \notin Managing
  BY <1>3, <1>4, <1>6 DEF Write, Writes, Managing, ChangeOrganization, DeleteOrganization,
                          InsertAdmin, RemoveAdmin
<1> QED
  BY <1>5, <1>6

LEMMA OthersChangeNothing ==
    ASSUME UNCHANGED tableVars, NEW o \in Orgs
    PROVE  ChangedByItself(o)
  BY DEF tableVars, ChangedByItself, AdminsOf

LEMMA OnlyWritesChange ==
    ASSUME Next
    PROVE  UNCHANGED tableVars \/ \E p \in Requests : Write(p)
  BY DEF Next, Arrive, Begin, Register, UpdateProfile, DeleteAccount, CreateAdmin, DeleteAdmin,
         Ingest, AddressTaken, AddressFree, Refused, Answer, Abandon

(* No tenant changes the account or the admins of another one, and no      *)
(* admin changes them at all, however requests overlap with deletions.     *)
THEOREM TenantsStayApart == Spec => TenantsApart
<1>1. AccountInv /\ [Next]_vars => [\A o \in Orgs : ChangedByItself(o)]_vars
  BY OnlyWritesChange, WriteChangesOwn, OthersChangeNothing
<1> QED
  BY <1>1, AccountInvariant, PTL DEF Spec, TenantsApart

-------------------------------------------------------------------------------
(* Signing in.  An organization that changed the spelling of its address   *)
(* is not found any more (SignInFindsAccount is violated); all others are. *)

OneOrganizationPerAddress ==
    \A o, x \in Orgs : orgMail[o] # None /\ orgMail[x] = orgMail[o] => x = o

OneAdminPerAddress ==
    \A a, b \in Admins :
        /\ admin[a] # None /\ admin[b] # None
        /\ admin[a].mail = admin[b].mail \/ admin[a].phone = admin[b].phone
        => a = b

AdminsInLowerCase == \A a \in Admins : admin[a] # None => admin[a].mail.lower

AskedInLowerCase(c) == c.op \in {"register", "create_admin"} => c.mail.lower

AddressInv ==
    /\ AccountInv
    /\ OneOrganizationPerAddress /\ OneAdminPerAddress /\ AdminsInLowerCase
    /\ \A p \in Requests : AskedInLowerCase(req[p])

(* Who is found by the address it has, in lower case as sign-in asks. *)
FoundByNormalizedAddress ==
    /\ \A o \in Orgs : orgMail[o] # None /\ orgMail[o].lower => FindByMail(Lower(orgMail[o])) = {o}
    /\ \A a \in Admins :
         admin[a] # None => {b \in Admins : admin[b] # None /\ admin[b].mail = Lower(admin[a].mail)} = {a}

LEMMA LowerIsLower ==
    \A m \in Mails : /\ Lower(m).lower
                     /\ m.lower => Lower(m) = m
  BY DEF Lower, Mails

(* The addresses requests ask for. *)
LEMMA AskedStays ==
    ASSUME AddressInv, Next
    PROVE  \A q \in Requests : AskedInLowerCase(req'[q])
<1>1. req \in [Requests -> Calls] /\ \A q \in Requests : AskedInLowerCase(req[q])
  BY DEF AddressInv, AccountInv, TypeOK
<1>2. AskedInLowerCase(NoCall)
  BY DEF AskedInLowerCase, NoCall
<1>3. ASSUME NEW p \in Requests, NEW c \in {NoCall, req[p]}, req' = [req EXCEPT ![p] = c]
      PROVE  \A q \in Requests : AskedInLowerCase(req'[q])
  BY <1>1, <1>2, <1>3
<1>4. ASSUME NEW p \in Requests, Arrive(p) PROVE \A q \in Requests : AskedInLowerCase(req'[q])
  <2>1. ASSUME NEW step, NEW c, Begin(p, step, c), AskedInLowerCase(c)
        PROVE  \A q \in Requests : AskedInLowerCase(req'[q])
    BY <1>1, <2>1 DEF Begin
  <2>2. ASSUME NEW m \in Mails, Register(p, m) PROVE \A q \in Requests : AskedInLowerCase(req'[q])
    <3>1. AskedInLowerCase([NoCall EXCEPT !.op = "register", !.mail = Lower(m)])
      BY LowerIsLower DEF AskedInLowerCase, NoCall
    <3> QED
      BY <2>1, <2>2, <3>1 DEF Register
  <2>3. ASSUME NEW i, NEW m \in Mails, NEW phone, CreateAdmin(p, i, m, phone)
        PROVE  \A q \in Requests : AskedInLowerCase(req'[q])
    <3>1. AskedInLowerCase([Call("create_admin", i) EXCEPT !.mail = Lower(m), !.phone = phone])
      BY LowerIsLower DEF AskedInLowerCase, NoCall, Call
    <3> QED
      BY <2>1, <2>3, <3>1 DEF CreateAdmin
  <2>4. ASSUME NEW i, \/ \E m : UpdateProfile(p, i, m)
                     \/ DeleteAccount(p, i) \/ Ingest(p, i)
                     \/ \E a : DeleteAdmin(p, i, a)
        PROVE  \A q \in Requests : AskedInLowerCase(req'[q])
    <3>1. \A m, a : /\ AskedInLowerCase([Call("update", i) EXCEPT !.mail = m])
                   /\ AskedInLowerCase([Call("delete_admin", i) EXCEPT !.admin = a])
                   /\ AskedInLowerCase(Call("delete_org", i)) /\ AskedInLowerCase(Call("ingest", i))
      BY DEF AskedInLowerCase, Call, NoCall
    <3> QED
      BY <2>1, <2>4, <3>1 DEF UpdateProfile, DeleteAccount, Ingest, DeleteAdmin
  <2> QED
    BY <1>4, <2>2, <2>3, <2>4 DEF Arrive
<1>5. ASSUME NEW p \in Requests, InsertOrganization(p) \/ InsertAdmin(p)
      PROVE  \A q \in Requests : AskedInLowerCase(req'[q])
  <2>1. PICK k : req' = [req EXCEPT ![p].org = k] \/ req' = [req EXCEPT ![p].admin = k]
    BY <1>5 DEF InsertOrganization, InsertAdmin
  <2>2. req'[p].op = req[p].op /\ req'[p].mail = req[p].mail
    BY <1>1, <2>1 DEF Calls
  <2>3. \A q \in Requests \ {p} : req'[q] = req[q]
    BY <1>1, <2>1
  <2> QED
    BY <1>1, <2>2, <2>3 DEF AskedInLowerCase
<1>6. ASSUME NEW p \in Requests, NEW success \in BOOLEAN, End(p, success)
      PROVE  \A q \in Requests : AskedInLowerCase(req'[q])
  BY <1>1, <1>3, <1>6 DEF End
<1>7. ASSUME NEW p \in Requests, AddressFree(p) \/ ChangeOrganization(p)
      PROVE  \A q \in Requests : AskedInLowerCase(req'[q])
  BY <1>1, <1>7 DEF AddressFree, ChangeOrganization
<1>8. ASSUME NEW p \in Requests,
             \/ AddressTaken(p) \/ Refused(p) \/ Answer(p) \/ Abandon(p)
             \/ DeleteOrganization(p) \/ RemoveAdmin(p) \/ InsertLog(p)
      PROVE  \E success \in BOOLEAN : End(p, success)
  BY <1>8 DEF AddressTaken, Refused, Answer, Abandon, DeleteOrganization, RemoveAdmin, InsertLog
<1> QED
  BY <1>4, <1>5, <1>6, <1>7, <1>8 DEF Next, Write

(* The unique indexes keep addresses apart. *)
LEMMA AddressesStay ==
    ASSUME AddressInv, [Next]_vars
    PROVE  OneOrganizationPerAddress' /\ OneAdminPerAddress' /\ AdminsInLowerCase'
<1> USE NoneIsNoRow
<1>1. Tables
  BY TypesSplit DEF AddressInv, AccountInv
<1>2. CASE UNCHANGED tableVars
  BY <1>2 DEF AddressInv, tableVars, OneOrganizationPerAddress, OneAdminPerAddress, AdminsInLowerCase
<1>3. ASSUME NEW p \in Requests, Write(p)
      PROVE  OneOrganizationPerAddress' /\ OneAdminPerAddress' /\ AdminsInLowerCase'
  <2>0. pc[p] = "write" /\ req[p] \in Calls /\ WellFormed(req[p])
    <3>1. pc[p] = "write"
      BY <1>3 DEF Write, Writes, InsertOrganization, ChangeOrganization, DeleteOrganization,
                  InsertAdmin, RemoveAdmin, InsertLog
    <3> QED
      BY <3>1, WriterTypes DEF AddressInv
  <2>1. CASE InsertOrganization(p) \/ ChangeOrganization(p)
    <3>1. PICK o \in Orgs, m \in Mails \union {None} :
            /\ orgMail' = [orgMail EXCEPT ![o] = m] /\ admin' = admin
            /\ m # None => UniqueMail(o, m)
      BY <1>1, <2>0, <2>1 DEF InsertOrganization, ChangeOrganization, Writes, WellFormed, Managing, Tables
    <3> QED
      BY <1>1, <3>1 DEF AddressInv, OneOrganizationPerAddress, OneAdminPerAddress, AdminsInLowerCase,
                        UniqueMail, Tables
  <2>2. CASE DeleteOrganization(p)
    BY <1>1, <2>2 DEF DeleteOrganization, AddressInv, OneOrganizationPerAddress, OneAdminPerAddress,
                      AdminsInLowerCase, Tables
  <2>3. CASE InsertAdmin(p)
    <3>1. PICK a \in Admins :
            admin' = [admin EXCEPT ![a] = [org |-> req[p].org, mail |-> req[p].mail,
                                           phone |-> req[p].phone]]
      BY <2>3 DEF InsertAdmin
    <3>2. req[p].mail.lower /\ ~AdminConflict(req[p].mail, req[p].phone) /\ orgMail' = orgMail
      BY <2>3 DEF AddressInv, AskedInLowerCase, InsertAdmin, Writes
    <3>3. /\ admin'[a].mail = req[p].mail /\ admin'[a].phone = req[p].phone
          /\ \A b \in Admins \ {a} : admin'[b] = admin[b]
      BY <1>1, <3>1 DEF Tables
    <3>4. \A b \in Admins \ {a} : admin[b] # None => /\ admin[b].mail # req[p].mail
                                                   /\ admin[b].phone # req[p].phone
      BY <3>2 DEF AdminConflict
    <3>5. OneOrganizationPerAddress' /\ AdminsInLowerCase'
      BY <3>2, <3>3 DEF AddressInv, OneOrganizationPerAddress, AdminsInLowerCase
    <3>6. OneAdminPerAddress'
      BY <3>3, <3>4 DEF AddressInv, OneAdminPerAddress
    <3> QED
      BY <3>5, <3>6
  <2>4. CASE RemoveAdmin(p)
    BY <1>1, <2>4 DEF RemoveAdmin, AddressInv, OneOrganizationPerAddress, OneAdminPerAddress,
                      AdminsInLowerCase, Tables
  <2>5. CASE InsertLog(p)
    BY <2>5 DEF InsertLog, AddressInv, OneOrganizationPerAddress, OneAdminPerAddress, AdminsInLowerCase
  <2> QED
    BY <1>3, <2>1, <2>2, <2>3, <2>4, <2>5 DEF Write
<1> QED
  BY <1>2, <1>3, OnlyWritesChange DEF vars, tableVars

LEMMA AddressInvariant == Spec => []AddressInv
<1>1. Init => AddressInv
  <2> SUFFICES ASSUME Init PROVE AddressInv
    OBVIOUS
  <2>1. \A p \in Requests : AskedInLowerCase(req[p])
    BY DEF Init, AskedInLowerCase, NoCall
  <2> QED
    BY <2>1, InitHolds DEF Init, AddressInv, OneOrganizationPerAddress, OneAdminPerAddress,
                           AdminsInLowerCase
<1>2. AddressInv /\ [Next]_vars => AddressInv'
  <2> SUFFICES ASSUME AddressInv, [Next]_vars PROVE AddressInv'
    OBVIOUS
  <2>1. AccountInv'
    BY StepHolds DEF AddressInv
  <2>2. \A q \in Requests : AskedInLowerCase(req'[q])
    BY AskedStays DEF AddressInv, vars
  <2> QED
    BY <2>1, <2>2, AddressesStay DEF AddressInv, AskedInLowerCase
<1> QED
  BY <1>1, <1>2, PTL DEF Spec

(* Every admin, and every organization whose address is in lower case, is  *)
(* found by that address when it signs in, and it alone                    *)
(* (find_identity_by_email): only the spelling update_organization lets in *)
(* locks an account out.                                                   *)
THEOREM NormalizedAccountsAreFound == Spec => []FoundByNormalizedAddress
<1>1. AddressInv => FoundByNormalizedAddress
  <2> SUFFICES ASSUME AddressInv PROVE FoundByNormalizedAddress
    OBVIOUS
  <2>1. Tables
    BY TypesSplit DEF AddressInv, AccountInv
  <2>2. ASSUME NEW o \in Orgs, orgMail[o] # None, orgMail[o].lower
        PROVE  FindByMail(Lower(orgMail[o])) = {o}
    <3>1. Lower(orgMail[o]) = orgMail[o]
      BY <2>1, <2>2, LowerIsLower DEF Tables
    <3> QED
      BY <2>2, <3>1 DEF AddressInv, OneOrganizationPerAddress, FindByMail
  <2>3. ASSUME NEW a \in Admins, admin[a] # None
        PROVE  {b \in Admins : admin[b] # None /\ admin[b].mail = Lower(admin[a].mail)} = {a}
    <3>1. admin[a].mail \in Mails /\ admin[a].mail.lower
      BY <2>1, <2>3 DEF Tables, AdminRows, AddressInv, AdminsInLowerCase
    <3>2. Lower(admin[a].mail) = admin[a].mail
      BY <3>1, LowerIsLower
    <3> QED
      BY <2>3, <3>2 DEF AddressInv, OneAdminPerAddress
  <2> QED
    BY <2>2, <2>3 DEF FoundByNormalizedAddress
<1> QED
  BY <1>1, AddressInvariant, PTL
===============================================================================

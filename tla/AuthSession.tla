------------------------------ MODULE AuthSession ------------------------------
(***************************************************************************)
(* Login sessions and refresh-token rotation of the backend: the service   *)
(* operations of modules/auth/service.py over the statements of            *)
(* modules/auth/repository.py, run by concurrent HTTP requests.            *)
(*                                                                         *)
(* A request is a coroutine with a database session of its own; a step is  *)
(* one database round trip.  PostgreSQL runs the transactions at READ      *)
(* COMMITTED: a statement sees what was committed when it starts, then     *)
(* locks the rows it found one at a time, waiting for whoever holds them,  *)
(* and checks each row again once it has it.  Since a row is written only  *)
(* under its lock, the writes of a transaction can be applied at its       *)
(* commit.                                                                 *)
(*                                                                         *)
(* A request that is refused before it changes anything is a stuttering    *)
(* step, as is reading one's profile.                                      *)
(***************************************************************************)
EXTENDS Naturals, FiniteSets

CONSTANTS Requests,     \* concurrent HTTP requests, reused one after the other
          Identities,   \* organization and admin accounts
          Passwords,
          Sessions,     \* primary keys of auth_session
          Tokens,       \* primary keys of refresh_token
          FirstPassword,\* the password every account starts with
          OldHashes,    \* accounts whose hash has outdated parameters
          None          \* no row

ASSUME ConstantsAssumption ==
    /\ FirstPassword \in Passwords
    /\ OldHashes \subseteq Identities
    /\ None \notin Identities \union Passwords \union Sessions \union Tokens
    /\ Sessions \intersect Tokens = {}

VARIABLES hash,       \* password hash of each account
          present,    \* accounts that exist and are active
          owner,      \* auth_session: identity_id, None for no row
          expired,    \* sessions whose expires_at has passed
          revoked,    \* rows of either table with revoked_at set
          sessionOf,  \* refresh_token: session_id, None for no row
          replacedBy, \* refresh_token: replaced_by_id, set with consumed_at
          known,      \* refresh tokens handed out to clients
          pc,         \* where each request is
          op,         \* what it is doing
          who,        \* the account it acts for
          pw,         \* the password it verified or is about to set
          tok,        \* the refresh token it handles
          ids,        \* the sessions it revokes
          want,       \* rows its statement still has to lock
          locks,      \* row locks of its transaction
          done,       \* was its last operation answered with success?
          before,     \* history: sessions of the account when it came in
          openedWith, \* history: the password a session was opened with
          chosen      \* history: the password last chosen by its owner

tableVars   == <<hash, present, owner, expired, revoked, sessionOf, replacedBy>>
requestVars == <<pc, op, who, pw, tok, ids, want, locks, done, before>>
historyVars == <<openedWith, chosen>>
vars == <<tableVars, known, requestVars, historyVars>>

Rows   == Sessions \union Tokens
Hashes == [pw : Passwords, stale : BOOLEAN]
Steps  == {"idle", "rehash", "open", "deliver", "lock", "check", "rotate", "reload",
           "update", "select", "revoke", "sessions", "tokens"}
Ops    == {"login", "refresh", "replay", "removed", "logout", "logout_all", "change"}

TypeOK ==
    /\ hash \in [Identities -> Hashes] /\ present \subseteq Identities
    /\ owner \in [Sessions -> Identities \union {None}]
    /\ expired \subseteq Sessions /\ revoked \subseteq Rows
    /\ sessionOf \in [Tokens -> Sessions \union {None}]
    /\ replacedBy \in [Tokens -> Tokens \union {None}]
    /\ known \subseteq Tokens
    /\ pc \in [Requests -> Steps] /\ op \in [Requests -> Ops]
    /\ who \in [Requests -> Identities \union {None}]
    /\ pw \in [Requests -> Passwords \union {None}]
    /\ tok \in [Requests -> Tokens \union {None}]
    /\ ids \in [Requests -> SUBSET Sessions]
    /\ want \in [Requests -> SUBSET Rows] /\ locks \in [Requests -> SUBSET Rows]
    /\ done \in [Requests -> BOOLEAN] /\ before \in [Requests -> SUBSET Sessions]
    /\ openedWith \in [Sessions -> Passwords \union {None}]
    /\ chosen \in [Identities -> Passwords]

Init ==
    /\ hash = [i \in Identities |-> [pw |-> FirstPassword, stale |-> i \in OldHashes]]
    /\ present = Identities
    /\ owner = [s \in Sessions |-> None]
    /\ expired = {} /\ revoked = {} /\ known = {}
    /\ sessionOf = [t \in Tokens |-> None]
    /\ replacedBy = [t \in Tokens |-> None]
    /\ pc = [p \in Requests |-> "idle"] /\ op = [p \in Requests |-> "login"]
    /\ who = [p \in Requests |-> None] /\ pw = [p \in Requests |-> None]
    /\ tok = [p \in Requests |-> None] /\ ids = [p \in Requests |-> {}]
    /\ want = [p \in Requests |-> {}] /\ locks = [p \in Requests |-> {}]
    /\ done = [p \in Requests |-> FALSE] /\ before = [p \in Requests |-> {}]
    /\ openedWith = [s \in Sessions |-> None]
    /\ chosen = [i \in Identities |-> FirstPassword]

-------------------------------------------------------------------------------
(* Requests coming in and going away. *)

SessionsOf(i) == {s \in Sessions : owner[s] = i}
TokensOf(S)   == {t \in Tokens : sessionOf[t] \in S}

Free(p, row) == \A q \in Requests \ {p} : row \notin locks[q]

(* The bound of the model: a request that will insert rows comes in while  *)
(* primary keys are left for it and for the requests under way.            *)
Opening   == {p \in Requests : pc[p] \in {"rehash", "open"}}
Rotating  == {tok[p] : p \in {q \in Requests : pc[q] \in {"lock", "check", "rotate"}}}
RoomFor(logins, T) ==
    /\ Cardinality({s \in Sessions : owner[s] = None}) >= logins
    /\ Cardinality({t \in Tokens : sessionOf[t] = None})
           >= logins + Cardinality({t \in T : replacedBy[t] = None})

(* A request begins operation o for account i; the transaction is new.     *)
Begin(p, o, i, step, password, token, S) ==
    /\ pc[p] = "idle"
    /\ pc' = [pc EXCEPT ![p] = step] /\ op' = [op EXCEPT ![p] = o]
    /\ who' = [who EXCEPT ![p] = i] /\ pw' = [pw EXCEPT ![p] = password]
    /\ tok' = [tok EXCEPT ![p] = token] /\ ids' = [ids EXCEPT ![p] = S]
    /\ done' = [done EXCEPT ![p] = FALSE]
    /\ before' = [before EXCEPT ![p] = SessionsOf(i) \ revoked]
    /\ UNCHANGED <<want, locks, tableVars, known, historyVars>>

Goto(p, from, to) == pc[p] = from /\ pc' = [pc EXCEPT ![p] = to]

(* Mutant: the transaction is left open, its row locks with it.            *)
EndKeepsLocks(p, success) ==
    /\ pc' = [pc EXCEPT ![p] = "idle"] /\ done' = [done EXCEPT ![p] = success]
    /\ want' = [want EXCEPT ![p] = {}] /\ UNCHANGED <<locks, who, pw, tok, op, ids, before>>

(* The request ends and its transaction with it; of a success it is        *)
(* remembered what it was about.                                           *)
End(p, success) ==
    /\ pc' = [pc EXCEPT ![p] = "idle"]
    /\ done' = [done EXCEPT ![p] = success]
    /\ want' = [want EXCEPT ![p] = {}] /\ locks' = [locks EXCEPT ![p] = {}]
    /\ who' = [who EXCEPT ![p] = None] /\ pw' = [pw EXCEPT ![p] = None]
    /\ tok' = [tok EXCEPT ![p] = None]
    /\ op' = [op EXCEPT ![p] = IF success THEN @ ELSE "login"]
    /\ ids' = [ids EXCEPT ![p] = IF success THEN @ ELSE {}]
    /\ before' = [before EXCEPT ![p] = IF success THEN @ ELSE {}]

(* The connection is lost, a statement fails, or the process goes away:    *)
(* the transaction is rolled back and the client gets no usable answer.    *)
Abandon(p) ==
    /\ pc[p] # "idle"
    /\ End(p, FALSE)
    /\ UNCHANGED <<tableVars, known, historyVars>>

(* Rows p waits for; requests that wait only for each other are stuck, and *)
(* PostgreSQL makes one of them fail.                                      *)
Awaited(p) == IF pc[p] = "lock" THEN {tok[p]} ELSE want[p]

Stuck(P) == \A p \in P : /\ Awaited(p) # {}
                         /\ \A row \in Awaited(p) : \E q \in P \ {p} : row \in locks[q]

BreakDeadlock(p) == /\ \E P \in SUBSET Requests : p \in P /\ Stuck(P)
                    /\ Abandon(p)

-------------------------------------------------------------------------------
(* POST /login: authenticate_identity, then issue_session. *)

Login(p, i) ==
    /\ i \in present
    /\ RoomFor(Cardinality(Opening) + 1, Rotating)
    /\ Begin(p, "login", i, IF hash[i].stale THEN "rehash" ELSE "open", hash[i].pw, None, {})

Rehash(p) ==
    /\ Goto(p, "rehash", "open")
    /\ hash' = [i \in Identities |-> IF i = who[p] /\ i \in present
                                     THEN [pw |-> pw[p], stale |-> FALSE] ELSE hash[i]]
    /\ UNCHANGED <<op, who, pw, tok, ids, want, locks, done, before, present, owner, expired,
                   revoked, sessionOf, replacedBy, known, historyVars>>

(* Mutant: the session is created without its first token. *)
OpenSessionWithoutToken(p) ==
    /\ Goto(p, "open", "deliver")
    /\ \E s \in Sessions : /\ owner[s] = None
                           /\ owner' = [owner EXCEPT ![s] = who[p]]
    /\ UNCHANGED <<op, who, pw, tok, ids, want, locks, done, before, hash, present, expired,
                   revoked, sessionOf, replacedBy, known, historyVars>>

(* create_auth_session: the session and its first token, in one commit. *)
OpenSession(p) ==
    /\ Goto(p, "open", "deliver")
    /\ \E s \in Sessions, t \in Tokens :
         /\ owner[s] = None /\ sessionOf[t] = None
         /\ owner' = [owner EXCEPT ![s] = who[p]]
         /\ sessionOf' = [sessionOf EXCEPT ![t] = s]
         /\ openedWith' = [openedWith EXCEPT ![s] = pw[p]]
         /\ tok' = [tok EXCEPT ![p] = t]
    /\ UNCHANGED <<op, who, pw, ids, want, locks, done, before, hash, present, expired, revoked,
                   replacedBy, known, chosen>>

Deliver(p) ==
    /\ pc[p] = "deliver"
    /\ known' = known \union {tok[p]}
    /\ End(p, TRUE)
    /\ UNCHANGED <<tableVars, historyVars>>

-------------------------------------------------------------------------------
(* POST /refresh: refresh_session. *)

Refresh(p, t) ==
    /\ t \in known
    /\ replacedBy[t] = None => RoomFor(Cardinality(Opening), Rotating \union {t})
    /\ Begin(p, "refresh", owner[sessionOf[t]], "lock", None, t, {sessionOf[t]})

(* Mutant: the token row is read without FOR UPDATE. *)
LockTokenReadsOnly(p) ==
    /\ Goto(p, "lock", "check")
    /\ UNCHANGED <<op, who, pw, tok, ids, want, locks, done, before, tableVars, known, historyVars>>

(* Mutant: the statement locks the session row as well, after the token. *)
LockTokenAndSession(p) ==
    /\ Goto(p, "lock", "check")
    /\ Free(p, tok[p])
    /\ locks' = [locks EXCEPT ![p] = {tok[p]}] /\ want' = [want EXCEPT ![p] = ids[p]]
    /\ UNCHANGED <<op, who, pw, tok, ids, done, before, tableVars, known, historyVars>>

(* get_session_for_refresh: SELECT ... FOR UPDATE of the token row; the    *)
(* session row is read after that.                                         *)
LockToken(p) ==
    /\ Goto(p, "lock", "check")
    /\ Free(p, tok[p])
    /\ locks' = [locks EXCEPT ![p] = {tok[p]}]
    /\ UNCHANGED <<op, who, pw, tok, ids, want, done, before, tableVars, known, historyVars>>

Active(S) == S \intersect (revoked \union expired) = {}

RefreshRefused(p) ==
    /\ pc[p] = "check"
    /\ \/ ~Active(ids[p])
       \/ replacedBy[tok[p]] = None /\ tok[p] \in revoked
    /\ End(p, FALSE)
    /\ UNCHANGED <<tableVars, known, historyVars>>

(* A consumed token is presented again: the whole session is revoked. *)
ReplayDetected(p) ==
    /\ Goto(p, "check", "revoke")
    /\ Active(ids[p]) /\ replacedBy[tok[p]] # None
    /\ op' = [op EXCEPT ![p] = "replay"]
    /\ UNCHANGED <<who, pw, tok, ids, want, locks, done, before, tableVars, known, historyVars>>

(* Mutant: only the token is checked, not its session. *)
RefreshAcceptedByToken(p) ==
    /\ Goto(p, "check", "rotate")
    /\ replacedBy[tok[p]] = None /\ tok[p] \notin revoked
    /\ UNCHANGED <<op, who, pw, tok, ids, want, locks, done, before, tableVars, known, historyVars>>

RefreshAccepted(p) ==
    /\ Goto(p, "check", "rotate")
    /\ Active(ids[p]) /\ replacedBy[tok[p]] = None /\ tok[p] \notin revoked
    /\ UNCHANGED <<op, who, pw, tok, ids, want, locks, done, before, tableVars, known, historyVars>>

(* Mutant: the request goes on with the token it came with. *)
RotateKeepsToken(p) ==
    /\ Goto(p, "rotate", "reload")
    /\ \E t \in Tokens :
         /\ sessionOf[t] = None
         /\ sessionOf' = [sessionOf EXCEPT ![t] = sessionOf[tok[p]]]
         /\ replacedBy' = [replacedBy EXCEPT ![tok[p]] = t]
    /\ locks' = [locks EXCEPT ![p] = {}]
    /\ UNCHANGED <<op, who, pw, tok, ids, want, done, before, hash, present, owner, expired, revoked,
                   known, historyVars>>

(* rotate_refresh_token: the successor is inserted and the old token       *)
(* consumed in one commit, which releases the lock.                        *)
Rotate(p) ==
    /\ Goto(p, "rotate", "reload")
    /\ \E t \in Tokens :
         /\ sessionOf[t] = None
         /\ sessionOf' = [sessionOf EXCEPT ![t] = sessionOf[tok[p]]]
         /\ replacedBy' = [replacedBy EXCEPT ![tok[p]] = t]
         /\ tok' = [tok EXCEPT ![p] = t]
    /\ locks' = [locks EXCEPT ![p] = {}]
    /\ UNCHANGED <<op, who, pw, ids, want, done, before, hash, present, owner, expired, revoked,
                   known, historyVars>>

(* The account is loaded again; only then does the client get its tokens. *)
Reload(p) ==
    /\ pc[p] = "reload" /\ who[p] \in present
    /\ known' = known \union {tok[p]}
    /\ End(p, TRUE)
    /\ UNCHANGED <<tableVars, historyVars>>

ReloadFindsNobody(p) ==
    /\ Goto(p, "reload", "revoke")
    /\ who[p] \notin present
    /\ op' = [op EXCEPT ![p] = "removed"]
    /\ UNCHANGED <<who, pw, tok, ids, want, locks, done, before, tableVars, known, historyVars>>

-------------------------------------------------------------------------------
(* The operations behind an access token: get_authenticated_principal lets *)
(* a request in while its session is active and its account exists.        *)

Authenticated(s) ==
    /\ owner[s] \in present /\ Active({s})
    /\ TokensOf({s}) \intersect known # {}

Logout(p, s) ==
    /\ Authenticated(s)
    /\ Begin(p, "logout", owner[s], "revoke", None, None, {s})

LogoutAll(p, s) ==
    /\ Authenticated(s)
    /\ Begin(p, "logout_all", owner[s], "select", None, None, {})

(* change_password verifies the current password against the account as    *)
(* loaded when the request was authenticated.                              *)
ChangePassword(p, s, new) ==
    /\ Authenticated(s)
    /\ Begin(p, "change", owner[s], "update", new, None, {})

(* update_password_hash, in a transaction of its own. *)
UpdateHash(p) ==
    /\ Goto(p, "update", "select")
    /\ hash' = [i \in Identities |-> IF i = who[p] /\ i \in present
                                     THEN [pw |-> pw[p], stale |-> FALSE] ELSE hash[i]]
    /\ chosen' = [i \in Identities |-> IF i = who[p] /\ i \in present THEN pw[p] ELSE chosen[i]]
    /\ UNCHANGED <<op, who, pw, tok, ids, want, locks, done, before, present, owner, expired,
                   revoked, sessionOf, replacedBy, known, openedWith>>

-------------------------------------------------------------------------------
(* Revocation: revoke_all_sessions finds its sessions by a query of its    *)
(* own; then, as in revoke_session, one statement updates the sessions and *)
(* another one their tokens, in one transaction.                           *)

(* Mutant: one row of the result is used, as with first(). *)
SelectFirstSession(p) ==
    /\ Goto(p, "select", "revoke")
    /\ \E s \in SessionsOf(who[p]) \ revoked : ids' = [ids EXCEPT ![p] = {s}]
    /\ UNCHANGED <<op, who, pw, tok, want, locks, done, before, tableVars, known, historyVars>>

SelectSessions(p) ==
    /\ Goto(p, "select", "revoke")
    /\ ids' = [ids EXCEPT ![p] = SessionsOf(who[p]) \ revoked]
    /\ ids'[p] # {}
    /\ UNCHANGED <<op, who, pw, tok, want, locks, done, before, tableVars, known, historyVars>>

SelectFindsNone(p) ==
    /\ pc[p] = "select"
    /\ SessionsOf(who[p]) \subseteq revoked
    /\ End(p, TRUE)
    /\ UNCHANGED <<tableVars, known, historyVars>>

RevokesAll(p) == op[p] \in {"logout_all", "change"}

UpdateSessions(p) ==
    /\ Goto(p, "revoke", "sessions")
    /\ want' = [want EXCEPT ![p] = IF RevokesAll(p) THEN ids[p] ELSE ids[p] \ revoked]
    /\ UNCHANGED <<op, who, pw, tok, ids, locks, done, before, tableVars, known, historyVars>>

(* The statement gets a row it found; one revoked in the meantime is       *)
(* skipped when the statement asks for rows that are not.                  *)
LockRow(p, row) ==
    /\ row \in want[p] /\ Free(p, row)
    /\ want' = [want EXCEPT ![p] = @ \ {row}]
    /\ locks' = [locks EXCEPT ![p] = IF row \in revoked /\ ~(RevokesAll(p) /\ row \in Sessions)
                                     THEN @ ELSE @ \union {row}]
    /\ UNCHANGED <<pc, op, who, pw, tok, ids, done, before, tableVars, known, historyVars>>

UpdateTokens(p) ==
    /\ Goto(p, "sessions", "tokens")
    /\ want[p] = {}
    /\ want' = [want EXCEPT ![p] = TokensOf(ids[p]) \ revoked]
    /\ UNCHANGED <<op, who, pw, tok, ids, locks, done, before, tableVars, known, historyVars>>

(* Mutant: the commit is forgotten, the session is closed without it. *)
RevokeWithoutCommit(p) ==
    /\ pc[p] = "tokens" /\ want[p] = {}
    /\ End(p, TRUE)
    /\ UNCHANGED <<tableVars, known, historyVars>>

RevokeCommit(p) ==
    /\ pc[p] = "tokens" /\ want[p] = {}
    /\ revoked' = revoked \union locks[p]
    /\ End(p, TRUE)
    /\ UNCHANGED <<hash, present, owner, expired, sessionOf, replacedBy, known, historyVars>>

-------------------------------------------------------------------------------
(* What happens around the sessions. *)

Expire(s) ==
    /\ owner[s] # None /\ s \notin expired
    /\ expired' = expired \union {s}
    /\ UNCHANGED <<hash, present, owner, revoked, sessionOf, replacedBy, known, requestVars,
                   historyVars>>

(* The account is deleted; its sessions have no foreign key to it. *)
DeleteIdentity(i) ==
    /\ i \in present
    /\ present' = present \ {i}
    /\ UNCHANGED <<hash, owner, expired, revoked, sessionOf, replacedBy, known, requestVars,
                   historyVars>>

-------------------------------------------------------------------------------
(* What a request does next by itself, other than waiting for a row. *)
Step(p) ==
    \/ Rehash(p) \/ OpenSession(p) \/ Deliver(p)
    \/ RefreshRefused(p) \/ ReplayDetected(p) \/ RefreshAccepted(p) \/ Rotate(p)
    \/ Reload(p) \/ ReloadFindsNobody(p)
    \/ UpdateHash(p) \/ SelectSessions(p) \/ SelectFindsNone(p)
    \/ UpdateSessions(p) \/ UpdateTokens(p) \/ RevokeCommit(p)

GetLock(p) == LockToken(p) \/ \E row \in Rows : LockRow(p, row)

Arrive(p) ==
    \/ \E i \in Identities : Login(p, i)
    \/ \E t \in Tokens : Refresh(p, t)
    \/ \E s \in Sessions : \/ Logout(p, s) \/ LogoutAll(p, s)
                           \/ \E new \in Passwords : ChangePassword(p, s, new)

Next ==
    \/ \E p \in Requests : Arrive(p) \/ Step(p) \/ GetLock(p) \/ Abandon(p) \/ BreakDeadlock(p)
    \/ \E s \in Sessions : Expire(s)
    \/ \E i \in Identities : DeleteIdentity(i)

Spec == Init /\ [][Next]_vars

(* Requests go on, PostgreSQL serves the waiters of a row in turn and      *)
(* breaks deadlocks.  Nothing makes a client call or a connection fail.    *)
Fairness ==
    \A p \in Requests : /\ WF_vars(Step(p)) /\ WF_vars(BreakDeadlock(p))
                        /\ SF_vars(GetLock(p))

FairSpec == Spec /\ Fairness
===============================================================================

------------------------- MODULE AuthSessionProperties -------------------------
(***************************************************************************)
(* What sessions and refresh tokens are expected to guarantee under        *)
(* concurrent requests, and what the code promises and does not keep.      *)
(***************************************************************************)
EXTENDS AuthSession

(* Requests that rotate a token, and requests that revoke sessions. *)
Refreshing(p) == pc[p] \in {"lock", "check", "rotate", "reload"}
Revoking(p)   == pc[p] \in {"revoke", "sessions", "tokens"}

(* A refresh token is consumed once (get_session_for_refresh locks it), so *)
(* a session never has two tokens that still can be used: the tokens of a  *)
(* session form one chain with one open end.                               *)
OneOpenToken ==
    \A t, u \in Tokens :
        /\ sessionOf[t] # None /\ sessionOf[t] = sessionOf[u]
        /\ replacedBy[t] = None /\ replacedBy[u] = None
        => t = u

(* A refresh that was answered with new credentials was for a session that *)
(* was not revoked when the request came in.  The tokens alone do not say  *)
(* so: a revocation misses the successor of a token that is being rotated. *)
LiveWhenAsked == \A p \in Requests : done[p] /\ op[p] = "refresh" => ids[p] \subseteq before[p]

(* A client told that its token was replayed, or that its account is gone, *)
(* can rely on the session being revoked (revoke_session_family, the       *)
(* identity check of refresh_session).                                     *)
RefusalRevokes ==
    \A p \in Requests : done[p] /\ op[p] \in {"replay", "removed"} => ids[p] \subseteq revoked

(* When logout_all or change_password was answered with success, every     *)
(* session the account had when the request came in is revoked, whoever    *)
(* else was refreshing or revoking at the time.                            *)
AllSessionsRevoked ==
    \A p \in Requests : done[p] /\ RevokesAll(p) => before[p] \subseteq revoked

(* A request only ever waits for requests of its own account: no tenant    *)
(* can keep another one's sign-outs and refreshes waiting by its own.      *)
WaitsWithinAccount ==
    \A p, q \in Requests : p # q /\ Awaited(p) \intersect locks[q] # {} => who[p] = who[q]

(* Deadlocks need two revocations of one account that overlap, a replay    *)
(* among them or not: get_session_for_refresh locks one row and holds      *)
(* nothing while it waits for it, so refreshes alone never get stuck.      *)
OnlyRevocationsGetStuck ==
    \A P \in SUBSET Requests :
        P # {} /\ Stuck(P) =>
            \E q, r \in P : q # r /\ Revoking(q) /\ Revoking(r) /\ who[q] = who[r]

(* The tokens that can still be used for a session: the open end of its    *)
(* chain, which is one.                                                    *)
OpenTokens(s) == {t \in Tokens : sessionOf[t] = s /\ replacedBy[t] = None}
TheOneOf(S)   == IF S = {} THEN None ELSE CHOOSE t \in S : TRUE

(* What a request looks like from outside. *)
Busy(p)      == pc[p] # "idle"
Presented(p) == IF pc[p] \in {"lock", "check", "rotate"} \/ (Busy(p) /\ op[p] = "replay")
                THEN tok[p] ELSE None
About(p)     == IF ~Busy(p) THEN {} ELSE IF RevokesAll(p) THEN before[p] ELSE ids[p] \intersect before[p]
Fresh(p)     == IF pc[p] \in {"deliver", "reload"} THEN tok[p] ELSE None
Told(p)      == IF ~done[p] THEN "none"
                ELSE IF op[p] \in {"login", "refresh"} THEN "tokens" ELSE "revoked"

Contract == INSTANCE SessionContract WITH
    current   <- [s \in Sessions |-> TheOneOf(OpenTokens(s))],
    issued    <- {t \in Tokens : sessionOf[t] # None},
    held      <- known,
    revoked   <- revoked \intersect Sessions,
    acting    <- who,
    presented <- [p \in Requests |-> Presented(p)],
    about     <- [p \in Requests |-> About(p)],
    fresh     <- [p \in Requests |-> Fresh(p)],
    answer    <- [p \in Requests |-> Told(p)]

(* Sessions behave as if a session had one current token, replaced in one  *)
(* step by presenting it, and a confirmed revocation took place in one     *)
(* step, of sessions of the caller's account only: whatever the locks,     *)
(* chains of tokens and interleaved transactions of service.py and         *)
(* repository.py look like in between.                                     *)
KeepsSessionContract == Contract!Spec

(* Every request ends, whatever locks the others hold.                     *)
EveryRequestEnds == \A p \in Requests : pc[p] # "idle" ~> pc[p] = "idle"

-------------------------------------------------------------------------------
(* The strengthening that is inductive, part by part. *)

(* The step a request is at says what it is doing, and that it is not done. *)
StepMatchesOp(p) ==
    /\ pc[p] # "idle" => ~done[p]
    /\ pc[p] \in {"rehash", "open", "deliver"} => op[p] = "login"
    /\ Refreshing(p) => op[p] = "refresh"
    /\ pc[p] = "update" => op[p] = "change"
    /\ pc[p] = "select" => RevokesAll(p)
    /\ Revoking(p) => op[p] \notin {"login", "refresh"}

(* What a request refers to exists. *)
RefersToRows(p) ==
    /\ pc[p] \in {"rehash", "open", "update", "select"} => who[p] # None
    /\ pc[p] \in {"rehash", "open", "update"} => pw[p] # None
    /\ pc[p] = "deliver" \/ Refreshing(p) => tok[p] \in Tokens /\ sessionOf[tok[p]] # None
    /\ Refreshing(p) => ids[p] = {sessionOf[tok[p]]}

(* A refresh that looks at its token holds it, and what it saw stays so.   *)
HoldsItsToken(p) ==
    /\ pc[p] \in {"check", "rotate"} => tok[p] \in locks[p]
    /\ pc[p] = "rotate" => replacedBy[tok[p]] = None

(* A revocation has, or still wants, every session it is about.            *)
RevocationCovers(p) ==
    /\ pc[p] = "sessions" => ids[p] \subseteq revoked \union locks[p] \union want[p]
    /\ pc[p] = "tokens" => ids[p] \subseteq revoked \union locks[p]

(* The sessions that were live when a request came in are those of its     *)
(* account, and none of them escapes it.                                   *)
BeforeIsCovered(p) ==
    /\ pc[p] \in {"update", "select"} => before[p] \subseteq SessionsOf(who[p])
    /\ Revoking(p) /\ RevokesAll(p) => before[p] \subseteq ids[p] \union revoked
    /\ pc[p] \in {"lock", "check"} => ids[p] \subseteq before[p] \union revoked
    /\ pc[p] \in {"rotate", "reload"} => ids[p] \subseteq before[p]

RequestAt(p) ==
    /\ StepMatchesOp(p)
    /\ RefersToRows(p)
    /\ HoldsItsToken(p)
    /\ RevocationCovers(p)
    /\ BeforeIsCovered(p)

(* A token has a session, that has an account; clients know real tokens.   *)
RowsExist ==
    /\ \A t \in Tokens : sessionOf[t] # None => owner[sessionOf[t]] # None
    /\ \A t \in known : sessionOf[t] # None

LocksExclude == \A p, q \in Requests : p # q => locks[p] \intersect locks[q] = {}

AuthInv ==
    /\ TypeOK
    /\ RowsExist
    /\ LocksExclude
    /\ \A p \in Requests : RequestAt(p)
    /\ OneOpenToken
    /\ LiveWhenAsked
    /\ RefusalRevokes
    /\ AllSessionsRevoked

-------------------------------------------------------------------------------
(* What a doc or a comment says and the code does not do. *)

Changing(i) == \E p \in Requests : pc[p] # "idle" /\ op[p] = "change" /\ who[p] = i

(* "Revoke all existing sessions - user must re-authenticate": when a      *)
(* password change is answered and no other is under way, no session is    *)
(* left that was opened with another password than the new one.            *)
OldPasswordSessionsRevoked ==
    [][\A p \in Requests :
          done'[p] /\ ~done[p] /\ op[p] = "change" /\ ~Changing(who[p])'
             => \A s \in SessionsOf(who[p]) \ revoked' : openedWith[s] = hash[who[p]].pw]_vars

(* change-password "applies the new one": the stored hash is one of the    *)
(* password its owner last chose.                                          *)
ChosenPasswordStays == \A i \in Identities : hash[i].pw = chosen[i]
===============================================================================

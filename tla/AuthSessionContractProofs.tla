----------------------- MODULE AuthSessionContractProofs -----------------------
(***************************************************************************)
(* Proof that sessions keep their contract for any number of concurrent    *)
(* requests, accounts, sessions and tokens: every step of AuthSession is a *)
(* step of SessionContract or changes nothing there.                       *)
(***************************************************************************)
EXTENDS AuthSessionProofs

(* What the contract needs beyond AuthInv: a request under way is about    *)
(* sessions of the account it acts for; it wants and locks rows of no      *)
(* others, their own rows only while it revokes.                           *)
RevokesNow(p) == pc[p] \in {"sessions", "tokens"}

RowsHandled(p) == TokensOf(ids[p]) \union IF RevokesNow(p) THEN ids[p] ELSE {}

ActsForOne(p) ==
    /\ pc[p] = "idle" <=> who[p] = None
    /\ pc[p] # "idle" => ids[p] \subseteq SessionsOf(who[p])
    /\ want[p] # {} => RevokesNow(p)
    /\ locks[p] # {} => pc[p] \in {"check", "rotate", "revoke", "sessions", "tokens"}
    /\ want[p] \union locks[p] \subseteq RowsHandled(p)

(* Only a token that was created was replaced. *)
UnusedAreOpen == \A t \in Tokens : sessionOf[t] = None => replacedBy[t] = None

ContractParts == UnusedAreOpen /\ \A p \in Requests : ActsForOne(p)

SessionInv == AuthInv /\ ContractParts

-------------------------------------------------------------------------------
(* The strengthening is inductive. *)

LEMMA UntouchedActsForOne ==
    ASSUME SessionInv, NEW q \in Requests, Untouched(q), RowsKept
    PROVE  ActsForOne(q)'
  <1>1. ActsForOne(q)
    BY DEF SessionInv, ContractParts
  <1>2. who[q] # None => SessionsOf(who[q]) \subseteq SessionsOf(who[q])'
    BY DEF Untouched, RowsKept, SessionsOf
  <1>3. TokensOf(ids[q]) \subseteq TokensOf(ids[q])'
    <2>1. ids[q] \subseteq Sessions
      BY DEF SessionInv, AuthInv, TypeOK
    <2> QED
      BY <2>1, NoneIsNoRow DEF Untouched, RowsKept, TokensOf
  <1> QED
    BY <1>1, <1>2, <1>3 DEF ActsForOne, RevokesNow, RowsHandled, Untouched

LEMMA PartsOfOne ==
    ASSUME SessionInv, NEW p \in Requests, \A q \in Requests \ {p} : Untouched(q), RowsKept,
           UnusedAreOpen', ActsForOne(p)'
    PROVE  ContractParts'
  BY UntouchedActsForOne DEF ContractParts

(* A step of p that changes no table but those of accounts and of expiry. *)
LEMMA LocalParts ==
    ASSUME SessionInv, NEW p \in Requests, \A q \in Requests \ {p} : Untouched(q),
           UNCHANGED <<owner, sessionOf, replacedBy, revoked>>, ActsForOne(p)'
    PROVE  ContractParts'
  <1>1. RowsKept /\ UnusedAreOpen'
    BY DEF RowsKept, UnusedAreOpen, SessionInv, ContractParts
  <1> QED
    BY <1>1, PartsOfOne

LEMMA BeginParts ==
    ASSUME SessionInv, NEW p \in Requests, NEW o \in Ops, NEW i \in Identities, NEW step \in Steps,
           NEW password, NEW token, NEW S \in SUBSET SessionsOf(i), step \notin {"idle", "sessions", "tokens"},
           Begin(p, o, i, step, password, token, S)
    PROVE  ContractParts'
  <1>0. TypeOK /\ ActsForOne(p)
    BY InvByParts DEF SessionInv, ContractParts
  <1>1. \A q \in Requests \ {p} : Untouched(q)
    BY <1>0 DEF TypeOK, Begin, Untouched
  <1>2. /\ pc[p] = "idle" /\ pc'[p] = step /\ who'[p] = i /\ ids'[p] = S
        /\ UNCHANGED <<want, locks, owner, sessionOf, replacedBy, revoked>>
    BY <1>0 DEF TypeOK, Begin, tableVars
  <1>3. ActsForOne(p)'
    <2>1. want'[p] = {} /\ locks'[p] = {}
      BY <1>0, <1>2 DEF ActsForOne, RevokesNow
    <2>2. who'[p] # None /\ ids'[p] \subseteq SessionsOf(i)'
      BY <1>2, NoneIsNoRow DEF SessionsOf
    <2> QED
      BY <1>2, <2>1, <2>2 DEF ActsForOne
  <1> QED
    BY <1>1, <1>2, <1>3, LocalParts

LEMMA ArriveParts == ASSUME SessionInv, NEW p \in Requests, Arrive(p) PROVE ContractParts'
  <1>0. TypeOK /\ RowsExist
    BY InvByParts DEF SessionInv
  <1>1. ASSUME NEW i \in Identities, Login(p, i) PROVE ContractParts'
    <2>1. {} \in SUBSET SessionsOf(i)
      OBVIOUS
    <2> QED
      BY <1>1, <2>1, BeginParts DEF Login, Ops, Steps
  <1>2. ASSUME NEW t \in Tokens, Refresh(p, t) PROVE ContractParts'
    <2>1. sessionOf[t] \in Sessions /\ owner[sessionOf[t]] \in Identities
      BY <1>0, <1>2, NoneIsNoRow DEF Refresh, RowsExist, TypeOK
    <2>2. {sessionOf[t]} \in SUBSET SessionsOf(owner[sessionOf[t]])
      BY <2>1 DEF SessionsOf
    <2> QED
      BY <1>2, <2>1, <2>2, BeginParts DEF Refresh, Ops, Steps
  <1>3. ASSUME NEW s \in Sessions,
               \/ Logout(p, s) \/ LogoutAll(p, s)
               \/ \E new \in Passwords : ChangePassword(p, s, new)
        PROVE  ContractParts'
    <2>1. owner[s] \in Identities
      BY <1>0, <1>3 DEF Logout, LogoutAll, ChangePassword, Authenticated, TypeOK
    <2>2. {s} \in SUBSET SessionsOf(owner[s]) /\ {} \in SUBSET SessionsOf(owner[s])
      BY DEF SessionsOf
    <2> QED
      BY <1>3, <2>1, <2>2, BeginParts DEF Logout, LogoutAll, ChangePassword, Ops, Steps
  <1> QED
    BY <1>1, <1>2, <1>3 DEF Arrive

LEMMA EndParts ==
    ASSUME SessionInv, NEW p \in Requests, NEW success \in BOOLEAN, End(p, success),
           UNCHANGED <<owner, sessionOf, replacedBy>>, revoked \subseteq revoked'
    PROVE  ContractParts'
  <1>0. TypeOK
    BY InvByParts DEF SessionInv
  <1>1. /\ \A q \in Requests \ {p} : Untouched(q)
        /\ pc'[p] = "idle"
    BY <1>0, EndEffect
  <1>2. who'[p] = None /\ want'[p] = {} /\ locks'[p] = {}
    BY <1>0 DEF TypeOK, End
  <1>3. RowsKept /\ UnusedAreOpen'
    BY DEF RowsKept, UnusedAreOpen, SessionInv, ContractParts
  <1> QED
    BY <1>1, <1>2, <1>3, PartsOfOne DEF ActsForOne, RevokesNow

(* A step of p from one statement to the next. *)
LEMMA GotoParts ==
    ASSUME SessionInv, NEW p \in Requests, NEW from \in Steps, NEW to \in Steps, Goto(p, from, to),
           from # "idle", to # "idle",
           UNCHANGED <<who, pw, tok, done, before, owner, sessionOf, replacedBy, revoked>>,
           \A q \in Requests \ {p} : op'[q] = op[q] /\ ids'[q] = ids[q] /\ want'[q] = want[q]
                                     /\ locks'[q] = locks[q],
           ids'[p] \subseteq SessionsOf(who[p]),
           want'[p] # {} => to \in {"sessions", "tokens"},
           locks'[p] # {} => to \in {"check", "rotate", "revoke", "sessions", "tokens"},
           want'[p] \union locks'[p]
               \subseteq TokensOf(ids'[p]) \union IF to \in {"sessions", "tokens"} THEN ids'[p] ELSE {}
    PROVE  ContractParts'
  <1>0. TypeOK /\ ActsForOne(p)
    BY InvByParts DEF SessionInv, ContractParts
  <1>1. pc[p] = from /\ pc'[p] = to /\ \A q \in Requests \ {p} : pc'[q] = pc[q]
    BY <1>0, GotoEffect
  <1>2. \A q \in Requests \ {p} : Untouched(q)
    BY <1>1 DEF Untouched
  <1>3. ActsForOne(p)'
    <2>1. TokensOf(ids[p])' = TokensOf(ids'[p]) /\ SessionsOf(who[p])' = SessionsOf(who[p])
      BY DEF TokensOf, SessionsOf
    <2>2. RowsHandled(p)' = TokensOf(ids'[p]) \union IF to \in {"sessions", "tokens"} THEN ids'[p] ELSE {}
      BY <1>1, <2>1 DEF RowsHandled, RevokesNow
    <2> QED
      BY <1>0, <1>1, <2>1, <2>2 DEF ActsForOne, RevokesNow
  <1> QED
    BY <1>2, <1>3, LocalParts

LEMMA StepParts == ASSUME SessionInv, NEW p \in Requests, Step(p) PROVE ContractParts'
  <1>0. TypeOK /\ RowsExist /\ OneOpenToken /\ RequestInv(p) /\ ActsForOne(p) /\ UnusedAreOpen
    BY InvByParts DEF SessionInv, ContractParts
  <1>1. ASSUME Deliver(p) \/ RefreshRefused(p) \/ Reload(p) \/ SelectFindsNone(p)
               \/ RevokeCommit(p)
        PROVE  ContractParts'
    <2>1. PICK success \in BOOLEAN : End(p, success)
      BY <1>1 DEF Deliver, RefreshRefused, Reload, SelectFindsNone, RevokeCommit
    <2>2. UNCHANGED <<owner, sessionOf, replacedBy>> /\ revoked \subseteq revoked'
      BY <1>1 DEF Deliver, RefreshRefused, Reload, SelectFindsNone, RevokeCommit, tableVars
    <2> QED
      BY <2>1, <2>2, EndParts
  <1>2. ASSUME Rehash(p) \/ UpdateHash(p) \/ ReplayDetected(p) \/ RefreshAccepted(p)
               \/ ReloadFindsNobody(p)
        PROVE  ContractParts'
    <2>1. PICK from \in Steps, to \in Steps \ {"idle", "sessions", "tokens"} :
             /\ Goto(p, from, to) /\ from \in {"rehash", "update", "check", "reload"}
             /\ from = "check" => to \in {"rotate", "revoke"}
      <3>1. /\ "rehash" \in Steps /\ "open" \in Steps /\ "update" \in Steps /\ "select" \in Steps
            /\ "check" \in Steps /\ "revoke" \in Steps /\ "rotate" \in Steps /\ "reload" \in Steps
        BY DEF Steps
      <3> QED
        BY <1>2, <3>1 DEF Rehash, UpdateHash, ReplayDetected, RefreshAccepted, ReloadFindsNobody
    <2>2. /\ UNCHANGED <<who, pw, tok, done, before, owner, sessionOf, replacedBy, revoked>>
          /\ UNCHANGED <<ids, want, locks>>
          /\ \A q \in Requests \ {p} : op'[q] = op[q]
      BY <1>0, <1>2 DEF TypeOK, Rehash, UpdateHash, ReplayDetected, RefreshAccepted,
         ReloadFindsNobody, tableVars
    <2>3. pc[p] = from
      BY <1>0, <2>1, GotoEffect
    <2>4. /\ ids[p] \subseteq SessionsOf(who[p]) /\ want[p] = {}
          /\ locks[p] # {} => to \in {"rotate", "revoke"}
          /\ locks[p] \subseteq TokensOf(ids[p])
      BY <1>0, <2>1, <2>3 DEF ActsForOne, RevokesNow, RowsHandled
    <2> QED
      BY <2>1, <2>2, <2>3, <2>4, GotoParts
  <1>3. ASSUME SelectSessions(p) PROVE ContractParts'
    <2>1. /\ Goto(p, "select", "revoke") /\ pc[p] = "select"
          /\ "select" \in Steps /\ "revoke" \in Steps
      BY <1>0, <1>3 DEF SelectSessions, Goto, Steps
    <2>2. /\ ids'[p] = SessionsOf(who[p]) \ revoked
          /\ \A q \in Requests \ {p} : ids'[q] = ids[q]
          /\ UNCHANGED <<op, who, pw, tok, want, locks, done, before, tableVars>>
      BY <1>0, <1>3 DEF TypeOK, SelectSessions, SessionsOf
    <2>3. want'[p] = {} /\ locks'[p] = {}
      BY <1>0, <2>1, <2>2 DEF ActsForOne, RevokesNow
    <2> QED
      BY <2>1, <2>2, <2>3, GotoParts DEF tableVars
  <1>4. ASSUME UpdateSessions(p) \/ UpdateTokens(p) PROVE ContractParts'
    <2>1. PICK from \in {"revoke", "sessions"}, to \in {"sessions", "tokens"} : Goto(p, from, to)
      BY <1>4 DEF UpdateSessions, UpdateTokens
    <2>2. /\ UNCHANGED <<op, who, pw, tok, ids, locks, done, before, tableVars>>
          /\ \A q \in Requests \ {p} : want'[q] = want[q]
          /\ want'[p] \subseteq TokensOf(ids[p]) \union ids[p]
      BY <1>0, <1>4 DEF TypeOK, UpdateSessions, UpdateTokens
    <2>3. pc[p] = from /\ from \in Steps /\ to \in Steps
      BY <1>0, <2>1, GotoEffect DEF Steps
    <2>4. ids[p] \subseteq SessionsOf(who[p]) /\ locks[p] \subseteq TokensOf(ids[p]) \union ids[p]
      BY <1>0, <2>1, <2>3 DEF ActsForOne, RowsHandled
    <2> QED
      BY <2>1, <2>2, <2>3, <2>4, GotoParts DEF tableVars
  <1>5. ASSUME OpenSession(p) PROVE ContractParts'
    <2>1. PICK s \in Sessions, t \in Tokens :
            /\ owner[s] = None /\ sessionOf[t] = None
            /\ owner' = [owner EXCEPT ![s] = who[p]]
            /\ sessionOf' = [sessionOf EXCEPT ![t] = s]
            /\ tok' = [tok EXCEPT ![p] = t]
      BY <1>5 DEF OpenSession
    <2>2. /\ Goto(p, "open", "deliver")
          /\ UNCHANGED <<op, who, pw, ids, want, locks, done, before, revoked, replacedBy>>
      BY <1>5 DEF OpenSession
    <2>3. /\ pc[p] = "open" /\ pc'[p] = "deliver"
          /\ \A q \in Requests \ {p} : pc'[q] = pc[q]
      BY <1>0, <2>2, GotoEffect DEF Steps
    <2>4. \A q \in Requests \ {p} : Untouched(q)
      BY <1>0, <2>1, <2>2, <2>3 DEF Untouched, TypeOK
    <2>5. RowsKept
      BY <1>0, <2>1, <2>2 DEF RowsKept, TypeOK
    <2>6. UnusedAreOpen'
      BY <1>0, <2>1, <2>2 DEF UnusedAreOpen, TypeOK
    <2>7. ActsForOne(p)'
      <3>1. SessionsOf(who[p]) \subseteq SessionsOf(who[p])'
        BY <1>0, <2>1, <2>2 DEF SessionsOf, TypeOK
      <3> QED
        BY <1>0, <2>2, <2>3, <3>1 DEF ActsForOne, RevokesNow
    <2> QED
      BY <2>4, <2>5, <2>6, <2>7, PartsOfOne
  <1>6. ASSUME Rotate(p) PROVE ContractParts'
    <2>1. PICK t \in Tokens :
            /\ sessionOf[t] = None
            /\ sessionOf' = [sessionOf EXCEPT ![t] = sessionOf[tok[p]]]
            /\ replacedBy' = [replacedBy EXCEPT ![tok[p]] = t]
            /\ tok' = [tok EXCEPT ![p] = t]
      BY <1>6 DEF Rotate
    <2>2. /\ Goto(p, "rotate", "reload") /\ locks' = [locks EXCEPT ![p] = {}]
          /\ UNCHANGED <<op, who, pw, ids, want, done, before, owner, revoked>>
      BY <1>6 DEF Rotate
    <2>3. /\ pc[p] = "rotate" /\ pc'[p] = "reload"
          /\ \A q \in Requests \ {p} : pc'[q] = pc[q]
      BY <1>0, <2>2, GotoEffect DEF Steps
    <2>4. tok[p] \in Tokens /\ sessionOf[tok[p]] \in Sessions /\ tok[p] # t
      BY <1>0, <2>1, <2>3 DEF RequestInv, RequestAt, RefersToRows, Refreshing, TypeOK
    <2>5. \A q \in Requests \ {p} : Untouched(q)
      BY <1>0, <2>1, <2>2, <2>3 DEF Untouched, TypeOK
    <2>6. RowsKept
      BY <1>0, <2>1, <2>2 DEF RowsKept, TypeOK
    <2>7. UnusedAreOpen'
      BY <1>0, <2>1, <2>4, NoneIsNoRow DEF UnusedAreOpen, TypeOK
    <2>8. ActsForOne(p)'
      <3>1. locks'[p] = {}
        BY <1>0, <2>2 DEF TypeOK
      <3> QED
        BY <1>0, <2>2, <2>3, <3>1 DEF ActsForOne, RevokesNow, SessionsOf
    <2> QED
      BY <2>5, <2>6, <2>7, <2>8, PartsOfOne
  <1> QED
    BY <1>1, <1>2, <1>3, <1>4, <1>5, <1>6 DEF Step

LEMMA GetLockParts == ASSUME SessionInv, NEW p \in Requests, GetLock(p) PROVE ContractParts'
  <1>0. TypeOK /\ RequestInv(p) /\ ActsForOne(p)
    BY InvByParts DEF SessionInv, ContractParts
  <1>1. ASSUME LockToken(p) PROVE ContractParts'
    <2>1. /\ Goto(p, "lock", "check") /\ "lock" \in Steps /\ "check" \in Steps
          /\ UNCHANGED <<op, who, pw, tok, ids, want, done, before, tableVars>>
      BY <1>1 DEF LockToken, Steps
    <2>2. pc[p] = "lock" /\ tok[p] \in Tokens /\ ids[p] = {sessionOf[tok[p]]}
      BY <1>0, <2>1, GotoEffect DEF RequestInv, RequestAt, RefersToRows, Refreshing
    <2>3. locks'[p] = {tok[p]} /\ \A q \in Requests \ {p} : locks'[q] = locks[q]
      BY <1>0, <1>1 DEF LockToken, TypeOK
    <2>4. /\ ids'[p] \subseteq SessionsOf(who[p])
          /\ want'[p] = {} /\ locks'[p] \subseteq TokensOf(ids'[p])
      BY <1>0, <2>1, <2>2, <2>3 DEF ActsForOne, RevokesNow, TokensOf
    <2> QED
      BY <2>1, <2>2, <2>3, <2>4, GotoParts DEF tableVars
  <1>2. ASSUME NEW row \in Rows, LockRow(p, row) PROVE ContractParts'
    <2>1. /\ row \in want[p]
          /\ UNCHANGED <<pc, op, who, pw, tok, ids, done, before, tableVars>>
          /\ want'[p] = want[p] \ {row} /\ locks'[p] \subseteq locks[p] \union {row}
          /\ \A q \in Requests \ {p} : want'[q] = want[q] /\ locks'[q] = locks[q]
      BY <1>0, <1>2 DEF LockRow, TypeOK
    <2>2. \A q \in Requests \ {p} : Untouched(q)
      BY <2>1 DEF Untouched
    <2>3. ActsForOne(p)'
      <3>1. /\ RowsHandled(p)' = RowsHandled(p) /\ RevokesNow(p)' = RevokesNow(p)
            /\ SessionsOf(who[p])' = SessionsOf(who[p])
        BY <2>1 DEF RowsHandled, RevokesNow, TokensOf, SessionsOf, tableVars
      <3>2. RevokesNow(p)
        BY <1>0, <2>1 DEF ActsForOne
      <3> QED
        BY <1>0, <2>1, <3>1, <3>2 DEF ActsForOne, RevokesNow
    <2> QED
      BY <2>1, <2>2, <2>3, LocalParts DEF tableVars
  <1> QED
    BY <1>1, <1>2 DEF GetLock

(* Steps that touch no request. *)
LEMMA AroundParts ==
    ASSUME SessionInv, UNCHANGED <<owner, sessionOf, replacedBy, revoked, requestVars>>
    PROVE  ContractParts'
  <1>1. RowsKept /\ UnusedAreOpen'
    BY DEF RowsKept, UnusedAreOpen, SessionInv, ContractParts
  <1>2. \A q \in Requests : Untouched(q)
    BY DEF Untouched, requestVars
  <1> QED
    BY <1>1, <1>2, UntouchedActsForOne DEF ContractParts

LEMMA InitSession == Init => SessionInv
  <1> SUFFICES ASSUME Init PROVE SessionInv
    OBVIOUS
  <1>1. UnusedAreOpen
    BY DEF Init, UnusedAreOpen
  <1>2. \A p \in Requests : ActsForOne(p)
    BY DEF Init, ActsForOne
  <1> QED
    BY <1>1, <1>2, InitAuth DEF SessionInv, ContractParts

LEMMA StepSession == ASSUME SessionInv, [Next]_vars PROVE SessionInv'
  <1>0. AuthInv'
    BY StepAuth DEF SessionInv
  <1>1. ASSUME NEW p \in Requests, Abandon(p) \/ BreakDeadlock(p) PROVE ContractParts'
    BY <1>1, EndParts DEF BreakDeadlock, Abandon, tableVars
  <1>2. ASSUME \/ \E s \in Sessions : Expire(s)
               \/ \E i \in Identities : DeleteIdentity(i)
               \/ UNCHANGED vars
        PROVE  ContractParts'
    BY <1>2, AroundParts DEF Expire, DeleteIdentity, vars, tableVars
  <1>3. ContractParts'
    BY <1>1, <1>2, ArriveParts, StepParts, GetLockParts DEF Next
  <1> QED
    BY <1>0, <1>3 DEF SessionInv

(* Every reachable state satisfies the strengthening: in particular a      *)
(* request only ever revokes sessions of the account it acts for.          *)
THEOREM SessionInvariant == Spec => []SessionInv
  BY InitSession, StepSession, PTL DEF Spec

-------------------------------------------------------------------------------
(* What the contract sees of a step. *)

CurrentOf == [s \in Sessions |-> TheOneOf(OpenTokens(s))]

(* A request that is left alone looks the same from outside. *)
LEMMA UntouchedLooksSame ==
    ASSUME NEW q \in Requests, Untouched(q)
    PROVE  /\ Presented(q)' = Presented(q) /\ About(q)' = About(q)
           /\ Fresh(q)' = Fresh(q) /\ Told(q)' = Told(q)
  BY DEF Untouched, Presented, About, Fresh, Told, Busy, RevokesAll

(* So a step of p shows at p only. *)
LEMMA SeenAtOne ==
    ASSUME NEW p \in Requests, \A q \in Requests \ {p} : Untouched(q)
    PROVE  /\ [q \in Requests |-> Presented(q)]'
                  = [[q \in Requests |-> Presented(q)] EXCEPT ![p] = Presented(p)']
           /\ [q \in Requests |-> About(q)]'
                  = [[q \in Requests |-> About(q)] EXCEPT ![p] = About(p)']
           /\ [q \in Requests |-> Fresh(q)]'
                  = [[q \in Requests |-> Fresh(q)] EXCEPT ![p] = Fresh(p)']
           /\ [q \in Requests |-> Told(q)]'
                  = [[q \in Requests |-> Told(q)] EXCEPT ![p] = Told(p)']
  BY UntouchedLooksSame

(* The tables as the contract sees them depend on two columns and on       *)
(* which sessions are revoked.                                             *)
LEMMA SameTokens ==
    ASSUME UNCHANGED <<sessionOf, replacedBy>>
    PROVE  /\ CurrentOf' = CurrentOf
           /\ {t \in Tokens : sessionOf[t] # None}' = {t \in Tokens : sessionOf[t] # None}
  <1>1. \A s \in Sessions : OpenTokens(s)' = OpenTokens(s)
    BY DEF OpenTokens
  <1> QED
    BY <1>1 DEF CurrentOf

(* Steps the contract does not see. *)
LEMMA Unseen ==
    ASSUME NEW p \in Requests, \A q \in Requests \ {p} : Untouched(q),
           UNCHANGED <<owner, sessionOf, replacedBy, revoked, known, who>>,
           Presented(p)' = Presented(p), About(p)' = About(p), Fresh(p)' = Fresh(p),
           Told(p)' = Told(p)
    PROVE  UNCHANGED Contract!contractVars
  <1>1. \A q \in Requests : /\ Presented(q)' = Presented(q) /\ About(q)' = About(q)
                           /\ Fresh(q)' = Fresh(q) /\ Told(q)' = Told(q)
    BY UntouchedLooksSame
  <1> QED
    BY <1>1, SameTokens DEF Contract!contractVars, Contract!tables, Contract!requests, CurrentOf

(* A session has one current token: the one that is not replaced. *)
LEMMA SoleOpen ==
    ASSUME OneOpenToken, NEW t \in Tokens, sessionOf[t] # None, replacedBy[t] = None
    PROVE  TheOneOf(OpenTokens(sessionOf[t])) = t
  <1>1. OpenTokens(sessionOf[t]) = {t}
    BY DEF OneOpenToken, OpenTokens
  <1>2. TheOneOf({t}) = t
    BY DEF TheOneOf
  <1> QED
    BY <1>1, <1>2

-------------------------------------------------------------------------------
(* Steps of a request, as the contract sees them. *)

(* The account a request acts for is its own business too. *)
LEMMA WhoAtOne ==
    ASSUME TypeOK, NEW p \in Requests, \A q \in Requests \ {p} : Untouched(q),
           who' \in [Requests -> Identities \union {None}]
    PROVE  who' = [who EXCEPT ![p] = who'[p]]
  BY DEF TypeOK, Untouched

LEMMA EndSeen ==
    ASSUME SessionInv, NEW p \in Requests, NEW success \in BOOLEAN, End(p, success), pc[p] # "idle",
           UNCHANGED <<owner, sessionOf, replacedBy>>
    PROVE  Contract!End(p, IF ~success THEN "none"
                           ELSE IF op[p] \in {"login", "refresh"} THEN "tokens" ELSE "revoked")
  <1> DEFINE told == IF ~success THEN "none"
                     ELSE IF op[p] \in {"login", "refresh"} THEN "tokens" ELSE "revoked"
  <1>0. TypeOK /\ ActsForOne(p)
    BY InvByParts DEF SessionInv, ContractParts
  <1>1. /\ \A q \in Requests \ {p} : Untouched(q)
        /\ pc'[p] = "idle" /\ done'[p] = success
        /\ success => op'[p] = op[p]
    BY <1>0, EndEffect
  <1>2. Presented(p)' = None /\ About(p)' = {} /\ Fresh(p)' = None
    BY <1>1 DEF Presented, About, Fresh, Busy
  <1>3. Told(p)' = told
    <2>1. CASE success
      BY <1>1, <2>1 DEF Told
    <2>2. CASE ~success
      BY <1>1, <2>2 DEF Told
    <2> QED
      BY <2>1, <2>2
  <1>4. who[p] # None /\ who' = [who EXCEPT ![p] = None]
    BY <1>0 DEF ActsForOne, End
  <1>5. UNCHANGED <<owner, CurrentOf, {t \in Tokens : sessionOf[t] # None}>>
    BY SameTokens
  <1>6. /\ [q \in Requests |-> Presented(q)]'
              = [[q \in Requests |-> Presented(q)] EXCEPT ![p] = None]
        /\ [q \in Requests |-> About(q)]' = [[q \in Requests |-> About(q)] EXCEPT ![p] = {}]
        /\ [q \in Requests |-> Fresh(q)]' = [[q \in Requests |-> Fresh(q)] EXCEPT ![p] = None]
        /\ [q \in Requests |-> Told(q)]' = [[q \in Requests |-> Told(q)] EXCEPT ![p] = told]
    BY <1>1, <1>2, <1>3, SeenAtOne
  <1> HIDE DEF told
  <1>7. Contract!End(p, told)
    BY <1>4, <1>5, <1>6 DEF Contract!End, CurrentOf
  <1> QED
    BY <1>7 DEF told

LEMMA BeginSeen ==
    ASSUME SessionInv, NEW p \in Requests, NEW o \in Ops, NEW i \in Identities,
           NEW step \in Steps \ {"idle", "check", "rotate", "deliver", "reload"},
           NEW password, NEW token \in known \union {None}, NEW S \in SUBSET SessionsOf(i),
           Begin(p, o, i, step, password, token, S), o # "replay", step # "lock" => token = None
    PROVE  Contract!Comes(p)
  <1>0. TypeOK /\ ActsForOne(p)
    BY InvByParts DEF SessionInv, ContractParts
  <1>1. \A q \in Requests \ {p} : Untouched(q)
    BY <1>0 DEF TypeOK, Begin, Untouched
  <1>2. /\ pc[p] = "idle" /\ pc'[p] = step /\ op'[p] = o /\ tok'[p] = token /\ ids'[p] = S
        /\ done'[p] = FALSE /\ before'[p] = SessionsOf(i) \ revoked
        /\ who' = [who EXCEPT ![p] = i]
        /\ UNCHANGED <<owner, sessionOf, replacedBy, revoked, known>>
    BY <1>0 DEF TypeOK, Begin, tableVars
  <1>3. Presented(p)' = token /\ Fresh(p)' = Fresh(p) /\ Told(p)' = "none"
    BY <1>2 DEF Presented, Fresh, Told, Busy
  <1>4. About(p)' \subseteq Contract!SessionsOf(i) \ (revoked \intersect Sessions)
    BY <1>2 DEF About, Busy, SessionsOf, Contract!SessionsOf, RevokesAll
  <1>5. who[p] = None
    BY <1>0, <1>2 DEF ActsForOne
  <1>6. UNCHANGED <<owner, CurrentOf, {t \in Tokens : sessionOf[t] # None}>>
    BY <1>2, SameTokens
  <1>7. /\ [q \in Requests |-> Presented(q)]'
              = [[q \in Requests |-> Presented(q)] EXCEPT ![p] = token]
        /\ [q \in Requests |-> About(q)]' = [[q \in Requests |-> About(q)] EXCEPT ![p] = About(p)']
        /\ [q \in Requests |-> Fresh(q)]' = [q \in Requests |-> Fresh(q)]
        /\ [q \in Requests |-> Told(q)]' = [[q \in Requests |-> Told(q)] EXCEPT ![p] = "none"]
    BY <1>1, <1>3, SeenAtOne
  <1>8. Contract!Ask(p, i, token, About(p)')
    BY <1>2, <1>4, <1>5, <1>6, <1>7 DEF Contract!Ask, Contract!tables, CurrentOf
  <1>9. About(p)' \in SUBSET Sessions /\ token \in Tokens \union {None}
    BY <1>0, <1>4 DEF Contract!SessionsOf, TypeOK
  <1> QED
    BY <1>8, <1>9 DEF Contract!Comes

LEMMA ArriveSeen == ASSUME SessionInv, NEW p \in Requests, Arrive(p) PROVE Contract!Comes(p)
  <1>0. TypeOK /\ RowsExist
    BY InvByParts DEF SessionInv
  <1>1. ASSUME NEW i \in Identities, Login(p, i) PROVE Contract!Comes(p)
    <2>1. {} \in SUBSET SessionsOf(i)
      OBVIOUS
    <2> QED
      BY <1>1, <2>1, BeginSeen DEF Login, Ops, Steps
  <1>2. ASSUME NEW t \in Tokens, Refresh(p, t) PROVE Contract!Comes(p)
    <2>1. sessionOf[t] \in Sessions /\ owner[sessionOf[t]] \in Identities
      BY <1>0, <1>2, NoneIsNoRow DEF Refresh, RowsExist, TypeOK
    <2>2. {sessionOf[t]} \in SUBSET SessionsOf(owner[sessionOf[t]])
      BY <2>1 DEF SessionsOf
    <2> QED
      BY <1>2, <2>1, <2>2, BeginSeen DEF Refresh, Ops, Steps
  <1>3. ASSUME NEW s \in Sessions,
               \/ Logout(p, s) \/ LogoutAll(p, s)
               \/ \E new \in Passwords : ChangePassword(p, s, new)
        PROVE  Contract!Comes(p)
    <2>1. owner[s] \in Identities
      BY <1>0, <1>3 DEF Logout, LogoutAll, ChangePassword, Authenticated, TypeOK
    <2>2. {s} \in SUBSET SessionsOf(owner[s]) /\ {} \in SUBSET SessionsOf(owner[s])
      BY DEF SessionsOf
    <2> QED
      BY <1>3, <2>1, <2>2, BeginSeen DEF Logout, LogoutAll, ChangePassword, Ops, Steps
  <1> QED
    BY <1>1, <1>2, <1>3 DEF Arrive

LEMMA HandOutSeen ==
    ASSUME SessionInv, NEW p \in Requests, Deliver(p) \/ Reload(p) PROVE Contract!Grant(p)
  <1>0. TypeOK /\ RequestInv(p)
    BY InvByParts DEF SessionInv
  <1>1. /\ pc[p] \in {"deliver", "reload"} /\ End(p, TRUE) /\ UNCHANGED <<tableVars>>
        /\ known' = known \union {tok[p]}
    BY DEF Deliver, Reload
  <1>2. op[p] \in {"login", "refresh"} /\ tok[p] \in Tokens
    BY <1>0, <1>1 DEF RequestInv, RequestAt, StepMatchesOp, RefersToRows, Refreshing
  <1>3. Contract!End(p, "tokens")
    BY <1>1, <1>2, EndSeen DEF tableVars
  <1>4. Fresh(p) = tok[p] /\ tok[p] # None
    BY <1>1, <1>2, NoneIsNoRow DEF Fresh
  <1> QED
    BY <1>1, <1>3, <1>4 DEF Contract!Grant, tableVars

LEMMA FailSeen ==
    ASSUME SessionInv, NEW p \in Requests, RefreshRefused(p) \/ Abandon(p) \/ BreakDeadlock(p)
    PROVE  Contract!Fail(p)
  <1>1. pc[p] # "idle" /\ End(p, FALSE) /\ UNCHANGED <<tableVars, known>>
    BY DEF RefreshRefused, Abandon, BreakDeadlock
  <1>2. Contract!End(p, "none")
    BY <1>1, EndSeen DEF tableVars
  <1> QED
    BY <1>1, <1>2 DEF Contract!Fail, tableVars

(* All a request asked about is revoked when it is told so. *)
LEMMA RevokedSeen ==
    ASSUME SessionInv, NEW p \in Requests, SelectFindsNone(p) \/ RevokeCommit(p)
    PROVE  \E S \in SUBSET Sessions : Contract!Confirm(p, S)
  <1> DEFINE S == IF pc[p] = "tokens" THEN locks[p] \intersect Sessions ELSE {}
  <1>0. TypeOK /\ RequestInv(p) /\ ActsForOne(p)
    BY InvByParts DEF SessionInv, ContractParts
  <1>1. /\ pc[p] \in {"select", "tokens"} /\ End(p, TRUE)
        /\ UNCHANGED <<owner, sessionOf, replacedBy, known>>
        /\ revoked' = IF pc[p] = "tokens" THEN revoked \union locks[p] ELSE revoked
        /\ pc[p] = "select" => SessionsOf(who[p]) \subseteq revoked
    BY DEF SelectFindsNone, RevokeCommit, tableVars
  <1>2. op[p] \notin {"login", "refresh"} /\ (pc[p] = "select" => RevokesAll(p))
    BY <1>0, <1>1 DEF RequestInv, RequestAt, StepMatchesOp, Revoking, RevokesAll
  <1>3. Contract!End(p, "revoked")
    BY <1>1, <1>2, EndSeen
  <1>4. S \subseteq Contract!SessionsOf(who[p])
    BY <1>0, <1>1, ConstantsAssumption
       DEF ActsForOne, RevokesNow, RowsHandled, TokensOf, SessionsOf, Contract!SessionsOf
  <1>5. About(p) \subseteq (revoked \intersect Sessions) \union S
    <2>1. CASE pc[p] = "select"
      BY <1>0, <1>1, <1>2, <2>1 DEF About, Busy, RequestInv, RequestAt, BeforeIsCovered, TypeOK, SessionsOf
    <2>2. CASE pc[p] = "tokens"
      <3>1. ids[p] \subseteq revoked \union locks[p]
        BY <1>0, <2>2 DEF RequestInv, RequestAt, RevocationCovers
      <3>2. RevokesAll(p) => before[p] \subseteq ids[p] \union revoked
        BY <1>0, <2>2 DEF RequestInv, RequestAt, BeforeIsCovered, Revoking
      <3> QED
        BY <1>0, <2>2, <3>1, <3>2 DEF About, Busy, TypeOK
    <2> QED
      BY <1>1, <2>1, <2>2
  <1>6. /\ (revoked \intersect Sessions)' = (revoked \intersect Sessions) \union S
        /\ S \in SUBSET Sessions
    BY <1>1
  <1> HIDE DEF S
  <1>7. [q \in Requests |-> About(q)][p] = About(p)
    OBVIOUS
  <1>8. Contract!Confirm(p, S)
    BY <1>1, <1>3, <1>4, <1>5, <1>6, <1>7 DEF Contract!Confirm
  <1> QED
    BY <1>6, <1>8

(* Statements that only prepare: the contract sees nothing. *)
LEMMA PreparationUnseen ==
    ASSUME SessionInv, NEW p \in Requests,
           \/ Rehash(p) \/ UpdateHash(p) \/ SelectSessions(p) \/ UpdateSessions(p) \/ UpdateTokens(p)
           \/ RefreshAccepted(p) \/ ReplayDetected(p) \/ LockToken(p)
           \/ \E row \in Rows : LockRow(p, row)
    PROVE  UNCHANGED Contract!contractVars
  <1>0. TypeOK /\ RequestInv(p)
    BY InvByParts DEF SessionInv
  <1>1. UNCHANGED <<who, tok, done, before, owner, sessionOf, replacedBy, revoked, known>>
    BY DEF Rehash, UpdateHash, SelectSessions, UpdateSessions, UpdateTokens, RefreshAccepted,
       ReplayDetected, LockToken, LockRow, tableVars
  <1>2. \A q \in Requests \ {p} : Untouched(q)
    BY <1>0 DEF Untouched, TypeOK, Goto, Rehash, UpdateHash, SelectSessions, UpdateSessions, UpdateTokens,
       RefreshAccepted, ReplayDetected, LockToken, LockRow
  <1>3. Presented(p)' = Presented(p) /\ Fresh(p)' = Fresh(p)
    BY <1>0, <1>1
       DEF Presented, Fresh, Busy, TypeOK, Goto, Rehash, UpdateHash, SelectSessions, UpdateSessions,
       UpdateTokens, RefreshAccepted, ReplayDetected, LockToken, LockRow
  <1>4. Told(p)' = Told(p)
    <2>1. op[p] # op'[p] => ~done[p]
      BY <1>0 DEF Rehash, UpdateHash, SelectSessions, UpdateSessions, UpdateTokens, RefreshAccepted,
         ReplayDetected, LockToken, LockRow, Goto, RequestInv, RequestAt, StepMatchesOp
    <2> QED
      BY <1>1, <2>1 DEF Told
  <1>5. About(p)' = About(p)
    <2>1. CASE SelectSessions(p)
      BY <1>0, <1>1, <2>1 DEF About, Busy, SelectSessions, Goto, RequestInv, RequestAt, StepMatchesOp,
         RevokesAll, TypeOK
    <2>2. CASE ReplayDetected(p)
      BY <1>0, <1>1, <2>2 DEF About, Busy, ReplayDetected, Goto, RequestInv, RequestAt, StepMatchesOp,
         Refreshing, RevokesAll, TypeOK
    <2>3. CASE ~SelectSessions(p) /\ ~ReplayDetected(p)
      <3>1. UNCHANGED <<op, ids>> /\ (pc'[p] = "idle" <=> pc[p] = "idle")
        BY <1>0, <2>3 DEF Rehash, UpdateHash, UpdateSessions, UpdateTokens, RefreshAccepted, LockToken,
           LockRow, Goto, TypeOK
      <3> QED
        BY <1>1, <3>1 DEF About, Busy, RevokesAll
    <2> QED
      BY <2>1, <2>2, <2>3
  <1> QED
    BY <1>1, <1>2, <1>3, <1>4, <1>5, Unseen

LEMMA WithholdSeen ==
    ASSUME SessionInv, NEW p \in Requests, ReloadFindsNobody(p) PROVE Contract!Withhold(p)
  <1>0. TypeOK /\ RequestInv(p)
    BY InvByParts DEF SessionInv
  <1>1. /\ pc[p] = "reload" /\ pc'[p] = "revoke" /\ op'[p] = "removed"
        /\ UNCHANGED <<who, tok, ids, done, before, owner, sessionOf, replacedBy, revoked, known>>
    BY <1>0 DEF ReloadFindsNobody, Goto, TypeOK, tableVars
  <1>2. \A q \in Requests \ {p} : Untouched(q)
    BY <1>0 DEF Untouched, TypeOK, Goto, ReloadFindsNobody
  <1>3. op[p] = "refresh" /\ ~done[p] /\ tok[p] \in Tokens
    BY <1>0, <1>1 DEF RequestInv, RequestAt, StepMatchesOp, RefersToRows, Refreshing
  <1>4. /\ Presented(p)' = Presented(p) /\ About(p)' = About(p) /\ Told(p)' = Told(p)
        /\ Fresh(p) = tok[p] /\ Fresh(p)' = None
    BY <1>1, <1>3 DEF Presented, About, Told, Fresh, Busy, RevokesAll
  <1>5. UNCHANGED <<owner, CurrentOf, {t \in Tokens : sessionOf[t] # None}>>
    BY <1>1, SameTokens
  <1>6. /\ [q \in Requests |-> Presented(q)]' = [q \in Requests |-> Presented(q)]
        /\ [q \in Requests |-> About(q)]' = [q \in Requests |-> About(q)]
        /\ [q \in Requests |-> Fresh(q)]' = [[q \in Requests |-> Fresh(q)] EXCEPT ![p] = None]
        /\ [q \in Requests |-> Told(q)]' = [q \in Requests |-> Told(q)]
    BY <1>2, <1>4, SeenAtOne
  <1>7. [q \in Requests |-> Fresh(q)][p] # None
    BY <1>3, <1>4, NoneIsNoRow
  <1> QED
    BY <1>1, <1>5, <1>6, <1>7 DEF Contract!Withhold, Contract!tables, CurrentOf

(* Both ways of getting a new token issue it as the only current one.      *)
LEMMA IssueSeen ==
    ASSUME SessionInv, AuthInv', NEW p \in Requests, \A q \in Requests \ {p} : Untouched(q),
           NEW s \in Sessions, NEW t \in Tokens, sessionOf[t] = None,
           sessionOf' = [sessionOf EXCEPT ![t] = s], replacedBy'[t] = None,
           \A u \in Tokens : sessionOf[u] # s => replacedBy'[u] = replacedBy[u],
           UNCHANGED <<who, ids, done, before, op, revoked, known>>,
           pc[p] \in {"open", "rotate"}, pc'[p] \in {"deliver", "reload"}, tok'[p] = t,
           op[p] # "replay"
    PROVE  Contract!Issue(p, s, t)
  <1>0. TypeOK /\ OneOpenToken' /\ s # None
    BY InvByParts, NoneIsNoRow DEF SessionInv, AuthInv
  <1>1. {u \in Tokens : sessionOf[u] # None}' = {u \in Tokens : sessionOf[u] # None} \union {t}
    BY <1>0 DEF TypeOK
  <1>2. \A r \in Sessions \ {s} : OpenTokens(r)' = OpenTokens(r)
    <2>1. \A r \in Sessions \ {s} : \A u \in Tokens :
             sessionOf'[u] = r /\ replacedBy'[u] = None <=> sessionOf[u] = r /\ replacedBy[u] = None
      BY <1>0, NoneIsNoRow DEF TypeOK
    <2> QED
      BY <2>1 DEF OpenTokens
  <1>3. TheOneOf(OpenTokens(s)') = t
    <2>1. sessionOf'[t] = s
      BY <1>0 DEF TypeOK
    <2>2. OpenTokens(s)' = {t}
      BY <1>0, <2>1 DEF OpenTokens, OneOpenToken
    <2>3. TheOneOf({t}) = t
      BY DEF TheOneOf
    <2> QED
      BY <2>2, <2>3
  <1>4. CurrentOf' = [CurrentOf EXCEPT ![s] = t]
    BY <1>2, <1>3 DEF CurrentOf
  <1>5. /\ Presented(p)' = None /\ Fresh(p)' = t /\ About(p)' = About(p) /\ Told(p)' = Told(p)
    BY DEF Presented, Fresh, About, Told, Busy, RevokesAll
  <1>6. /\ [q \in Requests |-> Presented(q)]'
              = [[q \in Requests |-> Presented(q)] EXCEPT ![p] = None]
        /\ [q \in Requests |-> About(q)]' = [q \in Requests |-> About(q)]
        /\ [q \in Requests |-> Fresh(q)]' = [[q \in Requests |-> Fresh(q)] EXCEPT ![p] = t]
        /\ [q \in Requests |-> Told(q)]' = [q \in Requests |-> Told(q)]
    BY <1>5, SeenAtOne
  <1> QED
    BY <1>1, <1>4, <1>6 DEF Contract!Issue, CurrentOf

LEMMA OpenSeen ==
    ASSUME SessionInv, NEW p \in Requests, OpenSession(p)
    PROVE  \E s \in Sessions, t \in Tokens : Contract!Open(p, s, t)
  <1>0. TypeOK /\ RequestInv(p) /\ UnusedAreOpen /\ AuthInv'
    BY InvByParts, OpenSessionInv DEF SessionInv, ContractParts
  <1>1. PICK s \in Sessions, t \in Tokens :
          /\ owner[s] = None /\ sessionOf[t] = None
          /\ owner' = [owner EXCEPT ![s] = who[p]]
          /\ sessionOf' = [sessionOf EXCEPT ![t] = s]
          /\ tok' = [tok EXCEPT ![p] = t]
    BY DEF OpenSession
  <1>2. /\ Goto(p, "open", "deliver")
        /\ UNCHANGED <<op, who, pw, ids, want, locks, done, before, revoked, replacedBy, known>>
    BY DEF OpenSession
  <1>3. /\ pc[p] = "open" /\ pc'[p] = "deliver" /\ tok'[p] = t
        /\ \A q \in Requests \ {p} : Untouched(q)
    BY <1>0, <1>1, <1>2, GotoEffect DEF Steps, Untouched, TypeOK
  <1>4. op[p] # "replay" /\ who[p] # None /\ replacedBy'[t] = None
    BY <1>0, <1>1, <1>2, <1>3 DEF RequestInv, RequestAt, StepMatchesOp, RefersToRows, UnusedAreOpen
  <1>5. Contract!Issue(p, s, t)
    BY <1>0, <1>1, <1>2, <1>3, <1>4, IssueSeen
  <1> QED
    BY <1>1, <1>4, <1>5 DEF Contract!Open

(* The token presented was the current one: it was not replaced when it    *)
(* was looked at, and it is locked since.                                  *)
LEMMA RotateSeen ==
    ASSUME SessionInv, NEW p \in Requests, Rotate(p)
    PROVE  \E s \in Sessions, t \in Tokens : Contract!Rotate(p, s, t)
  <1>0. TypeOK /\ RequestInv(p) /\ UnusedAreOpen /\ OneOpenToken /\ AuthInv'
    BY InvByParts, RotateInv DEF SessionInv, ContractParts
  <1> DEFINE s == sessionOf[tok[p]]
  <1>1. PICK t \in Tokens :
          /\ sessionOf[t] = None
          /\ sessionOf' = [sessionOf EXCEPT ![t] = s]
          /\ replacedBy' = [replacedBy EXCEPT ![tok[p]] = t]
          /\ tok' = [tok EXCEPT ![p] = t]
    BY DEF Rotate
  <1>2. /\ Goto(p, "rotate", "reload") /\ locks' = [locks EXCEPT ![p] = {}]
        /\ UNCHANGED <<op, who, pw, ids, want, done, before, owner, revoked, known>>
    BY DEF Rotate
  <1>3. /\ pc[p] = "rotate" /\ pc'[p] = "reload" /\ tok'[p] = t
        /\ \A q \in Requests \ {p} : Untouched(q)
    BY <1>0, <1>1, <1>2, GotoEffect DEF Steps, Untouched, TypeOK
  <1>4. /\ op[p] = "refresh" /\ tok[p] \in Tokens /\ s # None /\ ids[p] = {s}
        /\ replacedBy[tok[p]] = None /\ ids[p] \subseteq before[p]
    BY <1>0, <1>3
       DEF RequestInv, RequestAt, StepMatchesOp, RefersToRows, HoldsItsToken, BeforeIsCovered, Refreshing
  <1>5. s \in Sessions /\ tok[p] # t
    BY <1>0, <1>1, <1>4 DEF TypeOK
  <1>6. replacedBy'[t] = None /\ \A u \in Tokens : sessionOf[u] # s => replacedBy'[u] = replacedBy[u]
    BY <1>0, <1>1, <1>5 DEF UnusedAreOpen, TypeOK
  <1>7. CurrentOf[s] = tok[p]
    BY <1>0, <1>4, <1>5, SoleOpen DEF CurrentOf
  <1> HIDE DEF s
  <1>8. Contract!Issue(p, s, t)
    BY <1>0, <1>1, <1>2, <1>3, <1>4, <1>5, <1>6, IssueSeen
  <1>9. [q \in Requests |-> Presented(q)][p] = tok[p] /\ s \in [q \in Requests |-> About(q)][p]
    BY <1>3, <1>4 DEF Presented, About, Busy, RevokesAll
  <1> QED
    BY <1>2, <1>4, <1>5, <1>7, <1>8, <1>9, NoneIsNoRow DEF Contract!Rotate, CurrentOf

LEMMA InitRefines == Init => Contract!Init
  <1> SUFFICES ASSUME Init PROVE Contract!Init
    OBVIOUS
  <1>1. \A p \in Requests : /\ Presented(p) = None /\ About(p) = {} /\ Fresh(p) = None
                           /\ Told(p) = "none"
    BY DEF Init, Presented, About, Fresh, Told, Busy
  <1>2. \A s \in Sessions : TheOneOf(OpenTokens(s)) = None
    <2>1. \A s \in Sessions : OpenTokens(s) = {}
      BY NoneIsNoRow DEF Init, OpenTokens
    <2> QED
      BY <2>1 DEF TheOneOf
  <1>3. {t \in Tokens : sessionOf[t] # None} = {} /\ revoked \intersect Sessions = {}
    BY DEF Init
  <1> QED
    BY <1>1, <1>2, <1>3 DEF Init, Contract!Init

LEMMA StepRefines == SessionInv /\ [Next]_vars => [Contract!Next]_(Contract!contractVars)
  <1> SUFFICES ASSUME SessionInv, [Next]_vars PROVE [Contract!Next]_(Contract!contractVars)
    OBVIOUS
  <1>1. ASSUME NEW p \in Requests, Arrive(p) PROVE Contract!Comes(p)
    BY <1>1, ArriveSeen
  <1>2. ASSUME NEW p \in Requests, Step(p) \/ GetLock(p) \/ Abandon(p) \/ BreakDeadlock(p)
        PROVE  Contract!GoesOn(p) \/ UNCHANGED Contract!contractVars
    BY <1>2, HandOutSeen, FailSeen, RevokedSeen, PreparationUnseen, WithholdSeen, OpenSeen, RotateSeen
       DEF Step, GetLock, Contract!GoesOn
  <1>3. ASSUME \/ \E s \in Sessions : Expire(s)
               \/ \E i \in Identities : DeleteIdentity(i)
               \/ UNCHANGED vars
        PROVE  UNCHANGED Contract!contractVars
    <2>1. UNCHANGED <<owner, sessionOf, replacedBy, revoked, known, requestVars>>
      BY <1>3 DEF Expire, DeleteIdentity, vars, tableVars
    <2>2. \A q \in Requests : Untouched(q)
      BY <2>1 DEF requestVars, Untouched
    <2>3. \A q \in Requests : /\ Presented(q)' = Presented(q) /\ About(q)' = About(q)
                             /\ Fresh(q)' = Fresh(q) /\ Told(q)' = Told(q)
      BY <2>2, UntouchedLooksSame
    <2>4. CurrentOf' = CurrentOf
      BY <2>1, SameTokens
    <2> QED
      BY <2>1, <2>3, <2>4 DEF requestVars, Contract!contractVars, Contract!tables, Contract!requests, CurrentOf
  <1> QED
    BY <1>1, <1>2, <1>3 DEF Next, Contract!Next

(* Sessions keep their contract: each step of a request is one step of the *)
(* abstract session, or none of its business, whatever other requests do   *)
(* in between (service.py and repository.py of modules/auth).              *)
THEOREM SessionContractKept == Spec => KeepsSessionContract
  <1>1. SessionInv /\ [Next]_vars => [Contract!Next]_(Contract!contractVars)
    BY StepRefines
  <1> QED
    BY <1>1, InitRefines, SessionInvariant, PTL DEF Spec, Contract!Spec, KeepsSessionContract

-------------------------------------------------------------------------------
(* Waiting. *)

(* The rows a request handles or waits for are of sessions it is about. *)
LEMMA HandlesOwnRows ==
    ASSUME SessionInv, NEW p \in Requests, NEW row \in Awaited(p) \union locks[p]
    PROVE  /\ row \in ids[p] \/ (row \in Tokens /\ sessionOf[row] \in ids[p])
           /\ ids[p] \subseteq SessionsOf(who[p]) /\ pc[p] # "idle"
  <1>0. TypeOK /\ RequestInv(p) /\ ActsForOne(p)
    BY InvByParts DEF SessionInv, ContractParts
  <1>1. CASE row \in want[p] \union locks[p]
    BY <1>0, <1>1 DEF ActsForOne, RevokesNow, RowsHandled, TokensOf
  <1>2. CASE pc[p] = "lock" /\ row = tok[p]
    BY <1>0, <1>2 DEF ActsForOne, RequestInv, RequestAt, RefersToRows, Refreshing
  <1> QED
    BY <1>1, <1>2 DEF Awaited

(* No account waits for another one: whoever holds a row a request waits   *)
(* for acts for the same account (the row locks of repository.py).         *)
THEOREM AccountsDoNotWait == Spec => []WaitsWithinAccount
  <1>1. SessionInv => WaitsWithinAccount
    <2> SUFFICES ASSUME SessionInv, NEW p \in Requests, NEW q \in Requests,
                        NEW row \in Awaited(p) \intersect locks[q]
                 PROVE  who[p] = who[q]
      BY DEF WaitsWithinAccount
    <2>1. /\ row \in ids[p] \/ (row \in Tokens /\ sessionOf[row] \in ids[p])
          /\ row \in ids[q] \/ (row \in Tokens /\ sessionOf[row] \in ids[q])
          /\ ids[p] \subseteq SessionsOf(who[p]) /\ ids[q] \subseteq SessionsOf(who[q])
      BY HandlesOwnRows
    <2>2. PICK s : s \in ids[p] /\ s \in ids[q]
      BY <2>1, ConstantsAssumption DEF SessionsOf
    <2> QED
      BY <2>1, <2>2 DEF SessionsOf
  <1> QED
    BY <1>1, SessionInvariant, PTL

(* What BreakDeadlock has to break are revocations, two at least and of    *)
(* one account: a refresh holds nothing while it waits for its token       *)
(* (revoke_session, revoke_all_sessions, get_session_for_refresh).         *)
THEOREM StuckRequestsRevoke == Spec => []OnlyRevocationsGetStuck
  <1>1. SessionInv /\ WaitsWithinAccount => OnlyRevocationsGetStuck
    <2> SUFFICES ASSUME SessionInv, WaitsWithinAccount, NEW P \in SUBSET Requests, P # {}, Stuck(P)
                 PROVE  \E q, r \in P : q # r /\ Revoking(q) /\ Revoking(r) /\ who[q] = who[r]
      BY DEF OnlyRevocationsGetStuck
    <2>1. ASSUME NEW q \in P, locks[q] # {} PROVE Revoking(q)
      <3>1. ActsForOne(q) /\ Awaited(q) # {}
        BY DEF SessionInv, ContractParts, Stuck
      <3> QED
        BY <2>1, <3>1 DEF ActsForOne, Awaited, RevokesNow, Revoking
    <2>2. ASSUME NEW p \in P
          PROVE  \E q \in P \ {p} : Revoking(q) /\ locks[q] \intersect Awaited(p) # {}
      <3>1. PICK row \in Awaited(p) : \E q \in P \ {p} : row \in locks[q]
        BY DEF Stuck
      <3> QED
        BY <2>1, <3>1
    <2>3. PICK p \in P : TRUE
      OBVIOUS
    <2>4. PICK q \in P \ {p} : Revoking(q)
      BY <2>2
    <2>5. PICK r \in P \ {q} : Revoking(r) /\ locks[r] \intersect Awaited(q) # {}
      BY <2>2
    <2>6. who[q] = who[r]
      BY <2>5 DEF WaitsWithinAccount
    <2> QED
      BY <2>4, <2>5, <2>6
  <1> QED
    BY <1>1, SessionInvariant, AccountsDoNotWait, PTL
===============================================================================

--------------------------- MODULE AuthSessionProofs ---------------------------
(***************************************************************************)
(* Proofs that rotation and revocation keep their promises for any number  *)
(* of concurrent requests, accounts, sessions and tokens.  AuthInv is      *)
(* inductive; it is proved request by request: what a step does to the     *)
(* request that takes it, and that it disturbs no other.                   *)
(***************************************************************************)
EXTENDS AuthSessionProperties, TLAPS

LEMMA NoneIsNoRow == None \notin Identities /\ None \notin Passwords /\ None \notin Sessions
                     /\ None \notin Tokens
  BY ConstantsAssumption

(* What a request was answered with, for the three outcomes that promise   *)
(* something.                                                              *)
AnswerHolds(p) ==
    done[p] =>
        /\ op[p] = "refresh" => ids[p] \subseteq before[p]
        /\ op[p] \in {"replay", "removed"} => ids[p] \subseteq revoked
        /\ RevokesAll(p) => before[p] \subseteq revoked

RequestInv(p) == RequestAt(p) /\ AnswerHolds(p)

LEMMA InvByParts ==
    AuthInv <=> /\ TypeOK /\ RowsExist /\ LocksExclude /\ OneOpenToken
                /\ \A p \in Requests : RequestInv(p)
  BY DEF AuthInv, RequestInv, AnswerHolds, LiveWhenAsked, RefusalRevokes, AllSessionsRevoked

-------------------------------------------------------------------------------
(* Frames: the parts of a step that keep what is known of other requests.  *)

(* Nothing of request q changes. *)
Untouched(q) ==
    /\ pc'[q] = pc[q] /\ op'[q] = op[q] /\ who'[q] = who[q] /\ pw'[q] = pw[q]
    /\ tok'[q] = tok[q] /\ ids'[q] = ids[q] /\ want'[q] = want[q] /\ locks'[q] = locks[q]
    /\ done'[q] = done[q] /\ before'[q] = before[q]

(* Rows appear, keep their session and owner, and stay revoked. *)
RowsKept ==
    /\ \A s \in Sessions : owner[s] # None => owner'[s] = owner[s]
    /\ \A t \in Tokens : sessionOf[t] # None => sessionOf'[t] = sessionOf[t]
    /\ revoked \subseteq revoked'

LEMMA UntouchedKeeps ==
    ASSUME AuthInv, NEW q \in Requests, Untouched(q), RowsKept,
           pc[q] = "rotate" => replacedBy'[tok[q]] = replacedBy[tok[q]]
    PROVE  RequestInv(q)'
  <1>0. RequestInv(q) /\ TypeOK
    BY InvByParts
  <1>1. StepMatchesOp(q)'
    BY <1>0 DEF Untouched, RequestInv, RequestAt, StepMatchesOp, Refreshing, Revoking, RevokesAll
  <1>2. RefersToRows(q)'
    BY <1>0 DEF Untouched, RowsKept, RequestInv, RequestAt, RefersToRows, Refreshing
  <1>3. HoldsItsToken(q)'
    BY <1>0 DEF Untouched, RequestInv, RequestAt, HoldsItsToken
  <1>4. RevocationCovers(q)'
    BY <1>0 DEF Untouched, RowsKept, RequestInv, RequestAt, RevocationCovers
  <1>5. BeforeIsCovered(q)'
    <2>1. pc[q] \in {"update", "select"} => SessionsOf(who[q]) \subseteq SessionsOf(who[q])'
      BY <1>0 DEF Untouched, RowsKept, RequestInv, RequestAt, RefersToRows, SessionsOf
    <2>2. pc'[q] \in {"update", "select"} => before'[q] \subseteq SessionsOf(who[q])'
      BY <1>0, <2>1 DEF Untouched, RequestInv, RequestAt, BeforeIsCovered
    <2> QED
      BY <1>0, <2>2 DEF Untouched, RowsKept, RequestInv, RequestAt, BeforeIsCovered, Refreshing,
         Revoking, RevokesAll
  <1>6. AnswerHolds(q)'
    BY <1>0 DEF Untouched, RowsKept, RequestInv, AnswerHolds, RevokesAll
  <1> QED
    BY <1>1, <1>2, <1>3, <1>4, <1>5, <1>6 DEF RequestInv, RequestAt

(* A request that is idle has nothing to keep but its answer. *)
LEMMA IdleHolds ==
    ASSUME NEW p \in Requests, pc'[p] = "idle", AnswerHolds(p)'
    PROVE  RequestInv(p)'
  BY DEF RequestInv, RequestAt, StepMatchesOp, RefersToRows, HoldsItsToken, RevocationCovers,
     BeforeIsCovered, Refreshing, Revoking

(* Unchanged tables keep what is said of the tables alone. *)
LEMMA TablesKept ==
    ASSUME AuthInv, UNCHANGED <<owner, sessionOf, replacedBy>>
    PROVE  OneOpenToken' /\ (\A t \in Tokens : sessionOf[t] # None => owner[sessionOf[t]] # None)'
  BY InvByParts DEF RowsExist, OneOpenToken

-------------------------------------------------------------------------------
(* The building blocks of the actions. *)

LEMMA EndEffect ==
    ASSUME TypeOK, NEW p \in Requests, NEW success \in BOOLEAN, End(p, success)
    PROVE  /\ \A q \in Requests \ {p} : Untouched(q)
           /\ pc'[p] = "idle" /\ done'[p] = success /\ locks'[p] = {}
           /\ success => op'[p] = op[p] /\ ids'[p] = ids[p] /\ before'[p] = before[p]
  BY DEF TypeOK, End, Untouched

LEMMA EndTyped ==
    ASSUME TypeOK, NEW p \in Requests, NEW success \in BOOLEAN, End(p, success)
    PROVE  /\ pc' \in [Requests -> Steps] /\ op' \in [Requests -> Ops]
           /\ who' \in [Requests -> Identities \union {None}]
           /\ pw' \in [Requests -> Passwords \union {None}]
           /\ tok' \in [Requests -> Tokens \union {None}]
           /\ ids' \in [Requests -> SUBSET Sessions]
           /\ want' \in [Requests -> SUBSET Rows] /\ locks' \in [Requests -> SUBSET Rows]
           /\ done' \in [Requests -> BOOLEAN] /\ before' \in [Requests -> SUBSET Sessions]
  <1>1. "idle" \in Steps /\ "login" \in Ops
    BY DEF Steps, Ops
  <1>2. /\ pc' \in [Requests -> Steps]
        /\ who' \in [Requests -> Identities \union {None}]
        /\ pw' \in [Requests -> Passwords \union {None}]
        /\ tok' \in [Requests -> Tokens \union {None}]
        /\ done' \in [Requests -> BOOLEAN]
    BY <1>1 DEF TypeOK, End
  <1>3. want' \in [Requests -> SUBSET Rows] /\ locks' \in [Requests -> SUBSET Rows]
    BY DEF TypeOK, End
  <1>4. op' \in [Requests -> Ops]
    BY <1>1 DEF TypeOK, End
  <1>5. ids' \in [Requests -> SUBSET Sessions] /\ before' \in [Requests -> SUBSET Sessions]
    BY DEF TypeOK, End
  <1> QED
    BY <1>2, <1>3, <1>4, <1>5

LEMMA GotoEffect ==
    ASSUME TypeOK, NEW p \in Requests, NEW from, NEW to \in Steps, Goto(p, from, to)
    PROVE  /\ pc[p] = from /\ pc'[p] = to
           /\ \A q \in Requests \ {p} : pc'[q] = pc[q]
           /\ pc' \in [Requests -> Steps]
  BY DEF TypeOK, Goto

LEMMA LocksReleased ==
    ASSUME TypeOK, LocksExclude, NEW p \in Requests, locks' = [locks EXCEPT ![p] = {}]
    PROVE  LocksExclude'
  BY DEF TypeOK, LocksExclude

LEMMA LocksTaken ==
    ASSUME TypeOK, LocksExclude, NEW p \in Requests, NEW S \in SUBSET Rows,
           locks' = [locks EXCEPT ![p] = S],
           \A q \in Requests \ {p} : S \intersect locks[q] = {}
    PROVE  LocksExclude'
  BY DEF TypeOK, LocksExclude

(* A step of request p that keeps the rows disturbs no other request. *)
LEMMA StepOfOne ==
    ASSUME AuthInv, NEW p \in Requests, \A q \in Requests \ {p} : Untouched(q), RowsKept,
           \A q \in Requests \ {p} :
               pc[q] = "rotate" => replacedBy'[tok[q]] = replacedBy[tok[q]],
           TypeOK', RowsExist', LocksExclude', OneOpenToken', RequestInv(p)'
    PROVE  AuthInv'
  <1>1. \A q \in Requests : RequestInv(q)'
    BY UntouchedKeeps
  <1> QED
    BY <1>1 DEF AuthInv, RequestInv, AnswerHolds, LiveWhenAsked, RefusalRevokes, AllSessionsRevoked

(* The same for a step that changes no table. *)
LEMMA LocalStep ==
    ASSUME AuthInv, NEW p \in Requests, \A q \in Requests \ {p} : Untouched(q),
           UNCHANGED <<owner, sessionOf, replacedBy, revoked, known>>,
           TypeOK', LocksExclude', RequestInv(p)'
    PROVE  AuthInv'
  <1>1. RowsKept
    BY DEF RowsKept
  <1>2. RowsExist' /\ OneOpenToken'
    BY InvByParts DEF RowsExist, OneOpenToken
  <1> QED
    BY <1>1, <1>2, StepOfOne

-------------------------------------------------------------------------------
(* Requests coming in. *)

LEMMA BeginInv ==
    ASSUME AuthInv, NEW p \in Requests, NEW o \in Ops, NEW i \in Identities, NEW step \in Steps,
           NEW password \in Passwords \union {None}, NEW token \in Tokens \union {None},
           NEW S \in SUBSET Sessions, Begin(p, o, i, step, password, token, S),
           \/ step \in {"rehash", "open"} /\ o = "login" /\ password # None
           \/ step = "lock" /\ o = "refresh" /\ token # None /\ sessionOf[token] # None
                /\ S = {sessionOf[token]} /\ owner[sessionOf[token]] = i
           \/ step = "revoke" /\ o = "logout"
           \/ step = "select" /\ o = "logout_all"
           \/ step = "update" /\ o = "change" /\ password # None
    PROVE  AuthInv'
  <1>0. TypeOK /\ LocksExclude
    BY InvByParts
  <1>1. \A q \in Requests \ {p} : Untouched(q)
    BY <1>0 DEF TypeOK, Begin, Untouched
  <1>2. /\ pc'[p] = step /\ op'[p] = o /\ who'[p] = i /\ pw'[p] = password /\ tok'[p] = token
        /\ ids'[p] = S /\ done'[p] = FALSE /\ before'[p] = SessionsOf(i) \ revoked
        /\ UNCHANGED <<want, locks, tableVars, known, historyVars>>
    BY <1>0 DEF TypeOK, Begin
  <1>3. SessionsOf(i) \subseteq Sessions
    BY DEF SessionsOf
  <1>4. TypeOK'
    <2>1. /\ pc' \in [Requests -> Steps] /\ op' \in [Requests -> Ops]
          /\ who' \in [Requests -> Identities \union {None}]
          /\ pw' \in [Requests -> Passwords \union {None}]
          /\ tok' \in [Requests -> Tokens \union {None}]
      BY <1>0 DEF TypeOK, Begin
    <2>2. ids' \in [Requests -> SUBSET Sessions] /\ done' \in [Requests -> BOOLEAN]
      BY <1>0 DEF TypeOK, Begin
    <2>3. before' \in [Requests -> SUBSET Sessions]
      BY <1>0, <1>3 DEF TypeOK, Begin
    <2> QED
      BY <1>0, <1>2, <2>1, <2>2, <2>3 DEF TypeOK, tableVars, historyVars
  <1>5. LocksExclude'
    BY <1>0, <1>2 DEF LocksExclude
  <1>6. RequestInv(p)'
    <2>1. StepMatchesOp(p)'
      BY <1>2 DEF StepMatchesOp, Refreshing, Revoking, RevokesAll
    <2>2. RefersToRows(p)'
      BY <1>2, NoneIsNoRow DEF RefersToRows, Refreshing, tableVars
    <2>3. HoldsItsToken(p)' /\ RevocationCovers(p)'
      BY <1>2 DEF HoldsItsToken, RevocationCovers
    <2>4. BeforeIsCovered(p)'
      BY <1>2 DEF BeforeIsCovered, SessionsOf, Revoking, RevokesAll, tableVars
    <2> QED
      BY <1>2, <2>1, <2>2, <2>3, <2>4 DEF RequestInv, RequestAt, AnswerHolds
  <1> QED
    BY <1>1, <1>2, <1>4, <1>5, <1>6, LocalStep DEF tableVars

LEMMA ArriveInv == ASSUME AuthInv, NEW p \in Requests, Arrive(p) PROVE AuthInv'
  <1>0. TypeOK /\ RowsExist
    BY InvByParts
  <1>1. ASSUME NEW i \in Identities, Login(p, i) PROVE AuthInv'
    <2>1. hash[i].pw \in Passwords
      BY <1>0 DEF TypeOK, Hashes
    <2> QED
      BY <1>1, <2>1, BeginInv, NoneIsNoRow DEF Login, Ops, Steps
  <1>2. ASSUME NEW t \in Tokens, Refresh(p, t) PROVE AuthInv'
    <2>1. sessionOf[t] \in Sessions /\ owner[sessionOf[t]] \in Identities /\ t # None
      BY <1>0, <1>2, NoneIsNoRow DEF Refresh, RowsExist, TypeOK
    <2> QED
      BY <1>2, <2>1, BeginInv, NoneIsNoRow DEF Refresh, Ops, Steps
  <1>3. ASSUME NEW s \in Sessions, Logout(p, s) \/ LogoutAll(p, s) PROVE AuthInv'
    <2>1. owner[s] \in Identities
      BY <1>0, <1>3 DEF Logout, LogoutAll, Authenticated, TypeOK
    <2> QED
      BY <1>3, <2>1, BeginInv DEF Logout, LogoutAll, Ops, Steps
  <1>4. ASSUME NEW s \in Sessions, NEW new \in Passwords, ChangePassword(p, s, new) PROVE AuthInv'
    <2>1. owner[s] \in Identities
      BY <1>0, <1>4 DEF ChangePassword, Authenticated, TypeOK
    <2> QED
      BY <1>4, <2>1, BeginInv, NoneIsNoRow DEF ChangePassword, Ops, Steps
  <1> QED
    BY <1>1, <1>2, <1>3, <1>4 DEF Arrive

-------------------------------------------------------------------------------
(* Requests that end without changing a table. *)

LEMMA EndInv ==
    ASSUME AuthInv, NEW p \in Requests, NEW success \in BOOLEAN, End(p, success),
           success => \/ op[p] = "login"
                      \/ RevokesAll(p) /\ before[p] \subseteq revoked,
           UNCHANGED <<tableVars, known, historyVars>>
    PROVE  AuthInv'
  <1>0. TypeOK /\ LocksExclude
    BY InvByParts
  <1>1. TypeOK'
    BY <1>0, EndTyped DEF TypeOK, tableVars, historyVars
  <1>2. LocksExclude'
    BY <1>0, LocksReleased DEF End
  <1>3. AnswerHolds(p)'
    BY <1>0, EndEffect DEF AnswerHolds, RevokesAll, tableVars
  <1> QED
    BY <1>0, <1>1, <1>2, <1>3, EndEffect, IdleHolds, LocalStep DEF tableVars

LEMMA AbandonInv == ASSUME AuthInv, NEW p \in Requests, Abandon(p) PROVE AuthInv'
  BY EndInv DEF Abandon

LEMMA RefusedInv == ASSUME AuthInv, NEW p \in Requests, RefreshRefused(p) PROVE AuthInv'
  BY EndInv DEF RefreshRefused

LEMMA SelectFindsNoneInv == ASSUME AuthInv, NEW p \in Requests, SelectFindsNone(p) PROVE AuthInv'
  <1>1. RevokesAll(p) /\ before[p] \subseteq SessionsOf(who[p])
    BY InvByParts DEF SelectFindsNone, RequestInv, RequestAt, StepMatchesOp, BeforeIsCovered
  <1> QED
    BY <1>1, EndInv DEF SelectFindsNone

-------------------------------------------------------------------------------
(* Steps from one statement to the next that change no table. *)

(* What such a step of p must establish. *)
LEMMA GotoInv ==
    ASSUME AuthInv, NEW p \in Requests, NEW from \in Steps, NEW to \in Steps, Goto(p, from, to),
           UNCHANGED <<who, pw, tok, done, before, tableVars, known, historyVars>>,
           \A q \in Requests \ {p} : op'[q] = op[q] /\ ids'[q] = ids[q] /\ want'[q] = want[q]
                                     /\ locks'[q] = locks[q],
           op' \in [Requests -> Ops], ids' \in [Requests -> SUBSET Sessions],
           want' \in [Requests -> SUBSET Rows], locks' \in [Requests -> SUBSET Rows],
           LocksExclude', RequestAt(p)', from # "idle", to # "idle"
    PROVE  AuthInv'
  <1>0. TypeOK /\ RequestInv(p)
    BY InvByParts
  <1>1. /\ pc' \in [Requests -> Steps] /\ pc'[p] = to /\ pc[p] = from
        /\ \A q \in Requests \ {p} : pc'[q] = pc[q]
    BY <1>0, GotoEffect
  <1>2. TypeOK'
    BY <1>0, <1>1 DEF TypeOK, tableVars, historyVars
  <1>3. \A q \in Requests \ {p} : Untouched(q)
    BY <1>1 DEF Untouched
  <1>4. ~done'[p]
    BY <1>0, <1>1 DEF RequestInv, RequestAt, StepMatchesOp
  <1> QED
    BY <1>2, <1>3, <1>4, LocalStep DEF RequestInv, AnswerHolds, tableVars

LEMMA LockTokenInv == ASSUME AuthInv, NEW p \in Requests, LockToken(p) PROVE AuthInv'
  <1>0. TypeOK /\ LocksExclude /\ RequestInv(p) /\ "lock" \in Steps /\ "check" \in Steps
    BY InvByParts DEF Steps
  <1>1. pc[p] = "lock" /\ pc'[p] = "check" /\ tok[p] \in Tokens
    BY <1>0, GotoEffect DEF LockToken, RequestInv, RequestAt, RefersToRows, Refreshing
  <1>2. {tok[p]} \in SUBSET Rows
    BY <1>1 DEF Rows
  <1>3. LocksExclude'
    <2>1. locks' = [locks EXCEPT ![p] = {tok[p]}]
      BY DEF LockToken
    <2>2. \A q \in Requests \ {p} : {tok[p]} \intersect locks[q] = {}
      BY DEF LockToken, Free
    <2> QED
      BY <1>0, <1>2, <2>1, <2>2, LocksTaken
  <1>4. /\ locks' \in [Requests -> SUBSET Rows] /\ locks'[p] = {tok[p]}
        /\ \A q \in Requests \ {p} : locks'[q] = locks[q]
    BY <1>0, <1>2 DEF LockToken, TypeOK
  <1>5. RequestAt(p)'
    BY <1>0, <1>1, <1>4 DEF LockToken, RequestInv, RequestAt, StepMatchesOp, RefersToRows,
       HoldsItsToken, RevocationCovers, BeforeIsCovered, Refreshing, Revoking, tableVars
  <1>6. UNCHANGED <<op, who, pw, tok, ids, want, done, before, tableVars, known, historyVars>>
        /\ Goto(p, "lock", "check")
    BY DEF LockToken
  <1> QED
    BY <1>0, <1>3, <1>4, <1>5, <1>6, GotoInv DEF TypeOK

LEMMA DecisionInv ==
    ASSUME AuthInv, NEW p \in Requests,
           ReplayDetected(p) \/ RefreshAccepted(p) \/ ReloadFindsNobody(p)
    PROVE  AuthInv'
  <1> DEFINE from == IF ReloadFindsNobody(p) THEN "reload" ELSE "check"
             to   == IF RefreshAccepted(p) THEN "rotate" ELSE "revoke"
  <1>0. TypeOK /\ LocksExclude /\ RequestInv(p)
    BY InvByParts
  <1>1. /\ from \in Steps /\ to \in Steps /\ from # "idle" /\ to # "idle"
        /\ Goto(p, from, to)
        /\ UNCHANGED <<who, pw, tok, ids, want, locks, done, before, tableVars, known, historyVars>>
    BY DEF Steps, ReplayDetected, RefreshAccepted, ReloadFindsNobody, Goto
  <1>2. /\ op' \in [Requests -> Ops]
        /\ \A q \in Requests \ {p} : op'[q] = op[q]
        /\ op'[p] = IF RefreshAccepted(p) THEN op[p]
                    ELSE IF ReplayDetected(p) THEN "replay" ELSE "removed"
    BY <1>0 DEF TypeOK, Ops, ReplayDetected, RefreshAccepted, ReloadFindsNobody, Goto
  <1>3. pc[p] = from /\ pc'[p] = to
    BY <1>0, <1>1, GotoEffect
  <1>4. RequestAt(p)'
    <2>1. CASE RefreshAccepted(p)
      <3>1. Active(ids[p]) /\ replacedBy[tok[p]] = None /\ pc[p] = "check" /\ pc'[p] = "rotate"
        BY <1>0, <2>1, <1>3 DEF RefreshAccepted, Goto
      <3> QED
        BY <1>0, <1>1, <1>2, <3>1, <2>1 DEF RequestInv, RequestAt, StepMatchesOp, RefersToRows,
           HoldsItsToken, RevocationCovers, BeforeIsCovered, Refreshing, Revoking, Active, tableVars
    <2>2. CASE ~RefreshAccepted(p)
      <3>1. pc'[p] = "revoke" /\ pc[p] \in {"check", "reload"} /\ op'[p] \in {"replay", "removed"}
        BY <1>2, <1>3, <2>2
      <3> QED
        BY <1>0, <1>1, <3>1 DEF RequestInv, RequestAt, StepMatchesOp, RefersToRows,
           HoldsItsToken, RevocationCovers, BeforeIsCovered, Refreshing, Revoking, RevokesAll
    <2> QED
      BY <2>1, <2>2
  <1>5. LocksExclude'
    BY <1>0, <1>1 DEF LocksExclude
  <1> HIDE DEF from, to
  <1> QED
    BY <1>0, <1>1, <1>2, <1>4, <1>5, GotoInv DEF TypeOK

LEMMA SelectSessionsInv == ASSUME AuthInv, NEW p \in Requests, SelectSessions(p) PROVE AuthInv'
  <1>0. TypeOK /\ LocksExclude /\ RequestInv(p) /\ "select" \in Steps /\ "revoke" \in Steps
    BY InvByParts DEF Steps
  <1>1. /\ Goto(p, "select", "revoke")
        /\ UNCHANGED <<op, who, pw, tok, want, locks, done, before, tableVars, known, historyVars>>
    BY DEF SelectSessions
  <1>2. /\ ids' \in [Requests -> SUBSET Sessions]
        /\ ids'[p] = SessionsOf(who[p]) \ revoked
        /\ \A q \in Requests \ {p} : ids'[q] = ids[q]
    BY <1>0 DEF SelectSessions, TypeOK, SessionsOf
  <1>3. pc[p] = "select" /\ pc'[p] = "revoke"
    BY <1>0, <1>1, GotoEffect
  <1>4. RequestAt(p)'
    BY <1>0, <1>1, <1>2, <1>3 DEF RequestInv, RequestAt, StepMatchesOp, RefersToRows,
       HoldsItsToken, RevocationCovers, BeforeIsCovered, Refreshing, Revoking, RevokesAll, tableVars
  <1>5. LocksExclude'
    BY <1>0, <1>1 DEF LocksExclude
  <1> QED
    BY <1>0, <1>1, <1>2, <1>4, <1>5, GotoInv DEF TypeOK

LEMMA UpdateInv ==
    ASSUME AuthInv, NEW p \in Requests, UpdateSessions(p) \/ UpdateTokens(p)
    PROVE  AuthInv'
  <1> DEFINE from == IF UpdateSessions(p) THEN "revoke" ELSE "sessions"
             to   == IF UpdateSessions(p) THEN "sessions" ELSE "tokens"
  <1>0. TypeOK /\ LocksExclude /\ RequestInv(p)
    BY InvByParts
  <1>1. /\ from \in Steps /\ to \in Steps /\ from # "idle" /\ to # "idle"
        /\ Goto(p, from, to)
        /\ UNCHANGED <<op, who, pw, tok, ids, locks, done, before, tableVars, known, historyVars>>
    BY DEF Steps, UpdateSessions, UpdateTokens
  <1>2. /\ want' \in [Requests -> SUBSET Rows]
        /\ \A q \in Requests \ {p} : want'[q] = want[q]
        /\ UpdateSessions(p) => ids[p] \ revoked \subseteq want'[p]
    <2>1. TokensOf(ids[p]) \subseteq Rows /\ ids[p] \subseteq Rows
      BY <1>0 DEF TokensOf, Rows, TypeOK
    <2> QED
      BY <1>0, <2>1 DEF TypeOK, UpdateSessions, UpdateTokens
  <1>3. pc[p] = from /\ pc'[p] = to
    BY <1>0, <1>1, GotoEffect
  <1>4. RequestAt(p)'
    <2>1. RevocationCovers(p)'
      BY <1>0, <1>1, <1>2, <1>3 DEF RequestInv, RequestAt, RevocationCovers, UpdateSessions,
         UpdateTokens, Goto, tableVars
    <2> QED
      BY <1>0, <1>1, <1>3, <2>1 DEF RequestInv, RequestAt, StepMatchesOp, RefersToRows,
         HoldsItsToken, BeforeIsCovered, Refreshing, Revoking, RevokesAll, tableVars
  <1>5. LocksExclude'
    BY <1>0, <1>1 DEF LocksExclude
  <1> HIDE DEF from, to
  <1> QED
    BY <1>0, <1>1, <1>2, <1>4, <1>5, GotoInv DEF TypeOK

(* A row taken by a statement is neither lost to the revocation nor        *)
(* anybody else's.                                                         *)
LEMMA LockRowInv == ASSUME AuthInv, NEW p \in Requests, NEW row \in Rows, LockRow(p, row) PROVE AuthInv'
  <1> DEFINE got == IF row \in revoked /\ ~(RevokesAll(p) /\ row \in Sessions)
                    THEN locks[p] ELSE locks[p] \union {row}
  <1>0. TypeOK /\ LocksExclude /\ RequestInv(p)
    BY InvByParts
  <1>1. UNCHANGED <<pc, op, who, pw, tok, ids, done, before, tableVars, known, historyVars>>
    BY DEF LockRow
  <1>2. /\ want' \in [Requests -> SUBSET Rows] /\ locks' \in [Requests -> SUBSET Rows]
        /\ want'[p] = want[p] \ {row} /\ locks'[p] = got /\ got \in SUBSET Rows
        /\ locks' = [locks EXCEPT ![p] = got]
        /\ \A q \in Requests \ {p} : want'[q] = want[q] /\ locks'[q] = locks[q]
    BY <1>0 DEF LockRow, TypeOK
  <1>3. LocksExclude'
    <2>1. \A q \in Requests \ {p} : got \intersect locks[q] = {}
      BY <1>0 DEF LockRow, Free, LocksExclude
    <2> HIDE DEF got
    <2> QED
      BY <1>0, <1>2, <2>1, LocksTaken
  <1>4. TypeOK'
    BY <1>0, <1>1, <1>2 DEF TypeOK, tableVars, historyVars
  <1>5. RequestInv(p)'
    <2>1. RevocationCovers(p)'
      BY <1>0, <1>1, <1>2 DEF RequestInv, RequestAt, RevocationCovers, tableVars
    <2> QED
      BY <1>0, <1>1, <1>2, <2>1 DEF RequestInv, RequestAt, StepMatchesOp, RefersToRows,
         HoldsItsToken, BeforeIsCovered, AnswerHolds, Refreshing, Revoking, RevokesAll, SessionsOf,
         tableVars
  <1>6. \A q \in Requests \ {p} : Untouched(q)
    BY <1>1, <1>2 DEF Untouched
  <1> QED
    BY <1>1, <1>3, <1>4, <1>5, <1>6, LocalStep DEF tableVars

-------------------------------------------------------------------------------
(* Steps that change a table. *)

LEMMA HashInv == ASSUME AuthInv, NEW p \in Requests, Rehash(p) \/ UpdateHash(p) PROVE AuthInv'
  <1> DEFINE from == IF Rehash(p) THEN "rehash" ELSE "update"
             to   == IF Rehash(p) THEN "open" ELSE "select"
  <1>0. TypeOK /\ LocksExclude /\ RequestInv(p)
    BY InvByParts
  <1>1. /\ from \in Steps /\ to \in Steps /\ Goto(p, from, to)
        /\ UNCHANGED <<op, who, pw, tok, ids, want, locks, done, before, present, owner, expired,
                       revoked, sessionOf, replacedBy, known, openedWith>>
    BY DEF Steps, Rehash, UpdateHash, historyVars
  <1>2. /\ pc[p] = from /\ pc'[p] = to /\ pc' \in [Requests -> Steps]
        /\ \A q \in Requests \ {p} : pc'[q] = pc[q]
    BY <1>0, <1>1, GotoEffect
  <1>3. pw[p] \in Passwords
    BY <1>0, <1>2 DEF RequestInv, RequestAt, RefersToRows, TypeOK
  <1>4. hash' \in [Identities -> Hashes] /\ chosen' \in [Identities -> Passwords]
    <2>1. [pw |-> pw[p], stale |-> FALSE] \in Hashes
      BY <1>3 DEF Hashes
    <2> QED
      BY <1>0, <1>3, <2>1 DEF TypeOK, Rehash, UpdateHash, historyVars
  <1>5. TypeOK'
    BY <1>0, <1>1, <1>2, <1>4 DEF TypeOK
  <1>6. LocksExclude'
    BY <1>0, <1>1 DEF LocksExclude
  <1>7. RequestInv(p)'
    BY <1>0, <1>1, <1>2 DEF RequestInv, RequestAt, StepMatchesOp, RefersToRows, HoldsItsToken,
       RevocationCovers, BeforeIsCovered, AnswerHolds, Refreshing, Revoking, RevokesAll, SessionsOf
  <1>8. \A q \in Requests \ {p} : Untouched(q)
    BY <1>1, <1>2 DEF Untouched
  <1> QED
    BY <1>1, <1>5, <1>6, <1>7, <1>8, LocalStep

(* A new session has no token but its first. *)
LEMMA OpenSessionInv == ASSUME AuthInv, NEW p \in Requests, OpenSession(p) PROVE AuthInv'
  <1>0. TypeOK /\ LocksExclude /\ RowsExist /\ OneOpenToken /\ RequestInv(p)
        /\ "open" \in Steps /\ "deliver" \in Steps
    BY InvByParts DEF Steps
  <1>1. PICK s \in Sessions, t \in Tokens :
          /\ owner[s] = None /\ sessionOf[t] = None
          /\ owner' = [owner EXCEPT ![s] = who[p]]
          /\ sessionOf' = [sessionOf EXCEPT ![t] = s]
          /\ openedWith' = [openedWith EXCEPT ![s] = pw[p]]
          /\ tok' = [tok EXCEPT ![p] = t]
    BY DEF OpenSession
  <1>2. /\ Goto(p, "open", "deliver")
        /\ UNCHANGED <<op, who, pw, ids, want, locks, done, before, hash, present, expired,
                       revoked, replacedBy, known, chosen>>
    BY DEF OpenSession
  <1>3. /\ pc[p] = "open" /\ pc'[p] = "deliver" /\ pc' \in [Requests -> Steps]
        /\ \A q \in Requests \ {p} : pc'[q] = pc[q]
    BY <1>0, <1>2, GotoEffect
  <1>4. /\ owner' \in [Sessions -> Identities \union {None}]
        /\ sessionOf' \in [Tokens -> Sessions \union {None}]
        /\ openedWith' \in [Sessions -> Passwords \union {None}]
        /\ tok' \in [Requests -> Tokens \union {None}]
    BY <1>0, <1>1 DEF TypeOK
  <1>5. TypeOK'
    BY <1>0, <1>2, <1>3, <1>4 DEF TypeOK
  <1>6. /\ owner'[s] = who[p] /\ who[p] # None
        /\ \A x \in Sessions \ {s} : owner'[x] = owner[x]
        /\ sessionOf'[t] = s
        /\ \A u \in Tokens \ {t} : sessionOf'[u] = sessionOf[u] /\ sessionOf[u] # s
    BY <1>0, <1>1, <1>3, NoneIsNoRow
    DEF TypeOK, RowsExist, RequestInv, RequestAt, RefersToRows
  <1>7. RowsExist'
    BY <1>0, <1>1, <1>2, <1>6, NoneIsNoRow DEF RowsExist, TypeOK
  <1>8. OneOpenToken'
    BY <1>0, <1>2, <1>6 DEF OneOpenToken
  <1>9. RowsKept
    BY <1>1, <1>2, <1>6 DEF RowsKept
  <1>10. RequestInv(p)'
    <2>1. tok'[p] = t /\ op'[p] = "login" /\ ~done'[p]
      BY <1>0, <1>1, <1>2, <1>3 DEF TypeOK, RequestInv, RequestAt, StepMatchesOp
    <2> QED
      BY <1>3, <1>6, <2>1, NoneIsNoRow DEF RequestInv, RequestAt, StepMatchesOp, RefersToRows,
         HoldsItsToken, RevocationCovers, BeforeIsCovered, AnswerHolds, Refreshing, Revoking
  <1>11. \A q \in Requests \ {p} : Untouched(q)
    BY <1>0, <1>1, <1>2, <1>3 DEF Untouched, TypeOK
  <1>12. LocksExclude'
    BY <1>0, <1>2 DEF LocksExclude
  <1> QED
    BY <1>2, <1>5, <1>7, <1>8, <1>9, <1>10, <1>11, <1>12, StepOfOne

(* The token consumed was the open one, and nobody else rotates it: it is  *)
(* locked.                                                                 *)
LEMMA RotateInv == ASSUME AuthInv, NEW p \in Requests, Rotate(p) PROVE AuthInv'
  <1>0. TypeOK /\ LocksExclude /\ RowsExist /\ OneOpenToken /\ RequestInv(p)
        /\ "rotate" \in Steps /\ "reload" \in Steps
    BY InvByParts DEF Steps
  <1>1. PICK t \in Tokens :
          /\ sessionOf[t] = None
          /\ sessionOf' = [sessionOf EXCEPT ![t] = sessionOf[tok[p]]]
          /\ replacedBy' = [replacedBy EXCEPT ![tok[p]] = t]
          /\ tok' = [tok EXCEPT ![p] = t]
    BY DEF Rotate
  <1>2. /\ Goto(p, "rotate", "reload") /\ locks' = [locks EXCEPT ![p] = {}]
        /\ UNCHANGED <<op, who, pw, ids, want, done, before, hash, present, owner, expired,
                       revoked, known, historyVars>>
    BY DEF Rotate
  <1>3. /\ pc[p] = "rotate" /\ pc'[p] = "reload" /\ pc' \in [Requests -> Steps]
        /\ \A q \in Requests \ {p} : pc'[q] = pc[q]
    BY <1>0, <1>2, GotoEffect
  <1>4. /\ tok[p] \in Tokens /\ sessionOf[tok[p]] \in Sessions /\ replacedBy[tok[p]] = None
        /\ tok[p] \in locks[p] /\ ids[p] = {sessionOf[tok[p]]}
    BY <1>0, <1>3 DEF TypeOK, RequestInv, RequestAt, RefersToRows, HoldsItsToken, Refreshing
  <1>5. /\ sessionOf' \in [Tokens -> Sessions \union {None}]
        /\ replacedBy' \in [Tokens -> Tokens \union {None}]
        /\ tok' \in [Requests -> Tokens \union {None}]
        /\ locks' \in [Requests -> SUBSET Rows]
    BY <1>0, <1>1, <1>2, <1>4 DEF TypeOK
  <1>6. TypeOK'
    BY <1>0, <1>2, <1>3, <1>5 DEF TypeOK, historyVars
  <1>7. /\ t # tok[p] /\ sessionOf'[t] = sessionOf[tok[p]]
        /\ \A u \in Tokens \ {t} : sessionOf'[u] = sessionOf[u]
        /\ replacedBy'[tok[p]] = t /\ t # None
        /\ \A u \in Tokens \ {tok[p]} : replacedBy'[u] = replacedBy[u]
    BY <1>0, <1>1, <1>4, NoneIsNoRow DEF TypeOK
  <1>8. RowsExist'
    BY <1>0, <1>1, <1>2, <1>4, <1>7, NoneIsNoRow DEF RowsExist, TypeOK
  <1>9. OneOpenToken'
    BY <1>0, <1>1, <1>4, <1>7, NoneIsNoRow DEF OneOpenToken
  <1>10. RowsKept
    BY <1>1, <1>2, <1>7 DEF RowsKept
  <1>11. \A q \in Requests \ {p} :
            pc[q] = "rotate" => replacedBy'[tok[q]] = replacedBy[tok[q]]
    <2> SUFFICES ASSUME NEW q \in Requests \ {p}, pc[q] = "rotate"
                 PROVE  replacedBy'[tok[q]] = replacedBy[tok[q]]
      OBVIOUS
    <2>1. tok[q] \in locks[q] /\ tok[q] \in Tokens
      BY InvByParts DEF RequestInv, RequestAt, HoldsItsToken, RefersToRows, Refreshing
    <2>2. tok[q] # tok[p]
      BY <1>0, <1>4, <2>1 DEF LocksExclude
    <2> QED
      BY <1>7, <2>1, <2>2
  <1>12. RequestInv(p)'
    <2>1. tok'[p] = t /\ op'[p] = "refresh" /\ ~done'[p]
      BY <1>0, <1>1, <1>2, <1>3 DEF TypeOK, RequestInv, RequestAt, StepMatchesOp, Refreshing
    <2>2. ids'[p] \subseteq before'[p]
      BY <1>0, <1>2, <1>3 DEF RequestInv, RequestAt, BeforeIsCovered
    <2> QED
      BY <1>2, <1>3, <1>4, <1>7, <2>1, <2>2, NoneIsNoRow DEF RequestInv, RequestAt, StepMatchesOp,
         RefersToRows, HoldsItsToken, RevocationCovers, BeforeIsCovered, AnswerHolds, Refreshing,
         Revoking
  <1>13. \A q \in Requests \ {p} : Untouched(q)
    BY <1>0, <1>1, <1>2, <1>3 DEF Untouched, TypeOK
  <1>14. LocksExclude'
    BY <1>0, <1>2, LocksReleased
  <1> QED
    BY <1>6, <1>8, <1>9, <1>10, <1>11, <1>12, <1>13, <1>14, StepOfOne

LEMMA HandOutInv == ASSUME AuthInv, NEW p \in Requests, Deliver(p) \/ Reload(p) PROVE AuthInv'
  <1>0. TypeOK /\ LocksExclude /\ RowsExist /\ OneOpenToken /\ RequestInv(p)
    BY InvByParts
  <1>1. /\ End(p, TRUE) /\ known' = known \union {tok[p]}
        /\ pc[p] = "deliver" \/ Refreshing(p)
        /\ UNCHANGED <<tableVars, historyVars>>
    BY DEF Deliver, Reload, Refreshing
  <1>2. tok[p] \in Tokens /\ sessionOf[tok[p]] # None
    BY <1>0, <1>1 DEF RequestInv, RequestAt, RefersToRows
  <1>3. TypeOK'
    BY <1>0, <1>1, <1>2, EndTyped DEF TypeOK, tableVars, historyVars
  <1>4. RowsExist' /\ OneOpenToken'
    BY <1>0, <1>1, <1>2 DEF RowsExist, OneOpenToken, tableVars
  <1>5. LocksExclude'
    BY <1>0, <1>1, LocksReleased DEF End
  <1>6. op[p] = "login" \/ (op[p] = "refresh" /\ ids[p] \subseteq before[p])
    BY <1>0 DEF RequestInv, RequestAt, StepMatchesOp, BeforeIsCovered, Refreshing, Deliver, Reload
  <1>7. AnswerHolds(p)'
    BY <1>0, <1>1, <1>6, EndEffect DEF AnswerHolds, RevokesAll
  <1>8. RowsKept
    BY <1>1 DEF RowsKept, tableVars
  <1> QED
    BY <1>0, <1>1, <1>3, <1>4, <1>5, <1>7, <1>8, EndEffect, IdleHolds, StepOfOne DEF tableVars

(* A revocation commits: every session it is about is revoked. *)
LEMMA RevokeCommitInv == ASSUME AuthInv, NEW p \in Requests, RevokeCommit(p) PROVE AuthInv'
  <1>0. TypeOK /\ LocksExclude /\ RowsExist /\ OneOpenToken /\ RequestInv(p)
    BY InvByParts
  <1>1. /\ End(p, TRUE) /\ pc[p] = "tokens" /\ revoked' = revoked \union locks[p]
        /\ UNCHANGED <<hash, present, owner, expired, sessionOf, replacedBy, known, historyVars>>
    BY DEF RevokeCommit
  <1>2. TypeOK'
    BY <1>0, <1>1, EndTyped DEF TypeOK, historyVars
  <1>3. RowsExist' /\ OneOpenToken' /\ RowsKept
    BY <1>0, <1>1 DEF RowsExist, OneOpenToken, RowsKept
  <1>4. LocksExclude'
    BY <1>0, <1>1, LocksReleased DEF End
  <1>5. op[p] \notin {"login", "refresh"} /\ ids[p] \subseteq revoked'
        /\ (RevokesAll(p) => before[p] \subseteq revoked')
    BY <1>0, <1>1 DEF RequestInv, RequestAt, StepMatchesOp, RevocationCovers, BeforeIsCovered, Revoking
  <1>6. AnswerHolds(p)'
    BY <1>0, <1>1, <1>5, EndEffect DEF AnswerHolds, RevokesAll
  <1> QED
    BY <1>0, <1>1, <1>2, <1>3, <1>4, <1>6, EndEffect, IdleHolds, StepOfOne

(* Steps that touch no request. *)
LEMMA AroundInv ==
    ASSUME AuthInv,
           UNCHANGED <<owner, sessionOf, replacedBy, revoked, known, requestVars>>,
           TypeOK'
    PROVE  AuthInv'
  <1>1. \A q \in Requests : Untouched(q)
    BY DEF Untouched, requestVars
  <1>2. RowsKept
    BY DEF RowsKept
  <1>3. \A q \in Requests : RequestInv(q)'
    BY <1>1, <1>2, UntouchedKeeps
  <1>4. RowsExist' /\ OneOpenToken' /\ LocksExclude'
    BY InvByParts DEF RowsExist, OneOpenToken, LocksExclude, requestVars
  <1> QED
    BY <1>3, <1>4 DEF AuthInv, RequestInv, AnswerHolds, LiveWhenAsked, RefusalRevokes,
       AllSessionsRevoked

-------------------------------------------------------------------------------
(* The theorems. *)

LEMMA InitAuth == Init => AuthInv
  <1> SUFFICES ASSUME Init PROVE AuthInv
    OBVIOUS
  <1>1. TypeOK
    <2>1. "idle" \in Steps /\ "login" \in Ops
      BY DEF Steps, Ops
    <2>2. hash \in [Identities -> Hashes] /\ chosen \in [Identities -> Passwords]
      BY ConstantsAssumption DEF Init, Hashes
    <2> QED
      BY <2>1, <2>2 DEF Init, TypeOK
  <1>2. RowsExist /\ LocksExclude /\ OneOpenToken
    <2>1. OneOpenToken
      BY DEF Init, OneOpenToken
    <2> QED
      BY <2>1 DEF Init, RowsExist, LocksExclude
  <1>3. ASSUME NEW p \in Requests PROVE RequestInv(p)
    BY DEF Init, RequestInv, RequestAt, StepMatchesOp, RefersToRows, HoldsItsToken,
       RevocationCovers, BeforeIsCovered, AnswerHolds, Refreshing, Revoking
  <1> QED
    BY <1>1, <1>2, <1>3, InvByParts

LEMMA StepAuth == ASSUME AuthInv, [Next]_vars PROVE AuthInv'
  <1>0. TypeOK
    BY InvByParts
  <1>1. ASSUME NEW p \in Requests, Step(p) PROVE AuthInv'
    BY <1>1, HashInv, OpenSessionInv, HandOutInv, RefusedInv, DecisionInv, RotateInv,
       SelectSessionsInv, SelectFindsNoneInv, UpdateInv, RevokeCommitInv DEF Step
  <1>2. ASSUME NEW p \in Requests, GetLock(p) PROVE AuthInv'
    BY <1>2, LockTokenInv, LockRowInv DEF GetLock
  <1>3. ASSUME NEW p \in Requests, Abandon(p) \/ BreakDeadlock(p) PROVE AuthInv'
    BY <1>3, AbandonInv DEF BreakDeadlock
  <1>4. ASSUME NEW s \in Sessions, Expire(s) PROVE AuthInv'
    <2>1. TypeOK'
      BY <1>0, <1>4 DEF TypeOK, Expire, requestVars, historyVars
    <2> QED
      BY <1>4, <2>1, AroundInv DEF Expire
  <1>5. ASSUME NEW i \in Identities, DeleteIdentity(i) PROVE AuthInv'
    <2>1. TypeOK'
      BY <1>0, <1>5 DEF TypeOK, DeleteIdentity, requestVars, historyVars
    <2> QED
      BY <1>5, <2>1, AroundInv DEF DeleteIdentity
  <1>6. CASE UNCHANGED vars
    <2>1. TypeOK'
      BY <1>0, <1>6 DEF TypeOK, vars, tableVars, requestVars, historyVars
    <2> QED
      BY <1>6, <2>1, AroundInv DEF vars, tableVars
  <1> QED
    BY <1>1, <1>2, <1>3, <1>4, <1>5, <1>6, ArriveInv DEF Next

(* AuthInv holds in every reachable state: it is the invariant the         *)
(* theorems below rest on.                                                 *)
THEOREM AuthInvariant == Spec => []AuthInv
  BY InitAuth, StepAuth, PTL DEF Spec

(* Every reachable state is well typed. *)
THEOREM AuthTypeCorrect == Spec => []TypeOK
  <1>1. AuthInv => TypeOK
    BY DEF AuthInv
  <1> QED
    BY <1>1, AuthInvariant, PTL

(* A session never has two refresh tokens that can still be used. *)
THEOREM RotationIsSingleUse == Spec => []OneOpenToken
  <1>1. AuthInv => OneOpenToken
    BY DEF AuthInv
  <1> QED
    BY <1>1, AuthInvariant, PTL

(* New credentials are given only for a session that was live when the     *)
(* refresh came in.                                                        *)
THEOREM RefreshNeedsLiveSession == Spec => []LiveWhenAsked
  <1>1. AuthInv => LiveWhenAsked
    BY DEF AuthInv
  <1> QED
    BY <1>1, AuthInvariant, PTL

(* A reported replay, or a missing account, has revoked the session. *)
THEOREM ReplayRevokes == Spec => []RefusalRevokes
  <1>1. AuthInv => RefusalRevokes
    BY DEF AuthInv
  <1> QED
    BY <1>1, AuthInvariant, PTL

(* A confirmed logout-all or password change has revoked every session the *)
(* account had when it was asked for.                                      *)
THEOREM LogoutAllIsComplete == Spec => []AllSessionsRevoked
  <1>1. AuthInv => AllSessionsRevoked
    BY DEF AuthInv
  <1> QED
    BY <1>1, AuthInvariant, PTL

-------------------------------------------------------------------------------
(* Passwords.  ChosenPasswordStays is violated by the rehash of an         *)
(* outdated hash, which may come after the password was changed; accounts  *)
(* whose hash is up to date are safe from it.                              *)

UpToDate == Identities \ OldHashes

ChosenPasswordKept == \A i \in UpToDate : hash[i].pw = chosen[i]

PasswordInv ==
    /\ AuthInv
    /\ ChosenPasswordKept
    /\ \A i \in UpToDate : ~hash[i].stale
    /\ \A p \in Requests : pc[p] = "rehash" => who[p] \notin UpToDate

LEMMA PasswordStep ==
    ASSUME PasswordInv, [Next]_vars
    PROVE  PasswordInv'
  <1>0. AuthInv' /\ TypeOK
    BY StepAuth, InvByParts DEF PasswordInv
  <1>1. ASSUME NEW p \in Requests, Arrive(p) PROVE PasswordInv'
    <2>1. ASSUME NEW o, NEW i, NEW step, NEW password, NEW token, NEW S,
                 Begin(p, o, i, step, password, token, S), step = "rehash" => i \notin UpToDate
          PROVE  PasswordInv'
      <3>1. UNCHANGED <<hash, chosen>>
        BY <2>1 DEF Begin, tableVars, historyVars
      <3>2. \A q \in Requests : pc'[q] = "rehash" => who'[q] \notin UpToDate
        BY <1>0, <2>1 DEF Begin, TypeOK, PasswordInv
      <3> QED
        BY <1>0, <3>1, <3>2 DEF PasswordInv, ChosenPasswordKept
    <2>2. ASSUME NEW i \in Identities, Login(p, i) PROVE PasswordInv'
      <3>1. (IF hash[i].stale THEN "rehash" ELSE "open") = "rehash" => i \notin UpToDate
        BY DEF PasswordInv
      <3> QED
        BY <2>1, <2>2, <3>1 DEF Login
    <2>3. ASSUME NEW t \in Tokens, Refresh(p, t) PROVE PasswordInv'
      BY <2>1, <2>3 DEF Refresh
    <2>4. ASSUME NEW s \in Sessions, \/ Logout(p, s) \/ LogoutAll(p, s)
                                    \/ \E new \in Passwords : ChangePassword(p, s, new)
          PROVE  PasswordInv'
      BY <2>1, <2>4 DEF Logout, LogoutAll, ChangePassword
    <2> QED
      BY <1>1, <2>2, <2>3, <2>4 DEF Arrive
  <1>2. ASSUME NEW p \in Requests, NEW success \in BOOLEAN, End(p, success), UNCHANGED <<hash, chosen>>
        PROVE  PasswordInv'
    <2>1. \A q \in Requests : pc'[q] = "rehash" => who'[q] \notin UpToDate
      BY <1>0, <1>2 DEF End, TypeOK, PasswordInv
    <2> QED
      BY <1>0, <1>2, <2>1 DEF PasswordInv, ChosenPasswordKept
  <1>3. ASSUME NEW p \in Requests, NEW from, NEW to, Goto(p, from, to), to # "rehash", UNCHANGED who,
               \/ UNCHANGED <<hash, chosen>> \/ Rehash(p) \/ UpdateHash(p)
        PROVE  PasswordInv'
    <2>1. \A q \in Requests : pc'[q] = "rehash" => pc[q] = "rehash" /\ who'[q] = who[q]
      BY <1>0, <1>3 DEF Goto, TypeOK
    <2>2. \A i \in UpToDate : ~hash'[i].stale /\ hash'[i].pw = chosen'[i]
      <3>1. CASE UNCHANGED <<hash, chosen>>
        BY <3>1 DEF PasswordInv, ChosenPasswordKept
      <3>2. CASE Rehash(p)
        <4>1. who[p] \notin UpToDate
          BY <3>2 DEF Rehash, Goto, PasswordInv
        <4>2. \A i \in UpToDate : hash'[i] = hash[i] /\ chosen'[i] = chosen[i]
          BY <3>2, <4>1 DEF Rehash, UpToDate, historyVars
        <4> QED
          BY <4>2 DEF PasswordInv, ChosenPasswordKept
      <3>3. CASE UpdateHash(p)
        BY <3>3 DEF UpdateHash, UpToDate, PasswordInv, ChosenPasswordKept
      <3> QED
        BY <1>3, <3>1, <3>2, <3>3
    <2> QED
      BY <1>0, <2>1, <2>2 DEF PasswordInv, ChosenPasswordKept
  <1>4. ASSUME NEW p \in Requests, Step(p) \/ LockToken(p) PROVE PasswordInv'
    <2>1. CASE Deliver(p) \/ RefreshRefused(p) \/ Reload(p) \/ SelectFindsNone(p) \/ RevokeCommit(p)
      BY <1>2, <2>1 DEF Deliver, RefreshRefused, Reload, SelectFindsNone, RevokeCommit, tableVars, historyVars
    <2>2. CASE ~(Deliver(p) \/ RefreshRefused(p) \/ Reload(p) \/ SelectFindsNone(p) \/ RevokeCommit(p))
      <3>1. PICK from, to : Goto(p, from, to) /\ to # "rehash"
        BY <1>4, <2>2 DEF Step, Rehash, OpenSession, ReplayDetected, RefreshAccepted, Rotate,
           ReloadFindsNobody, UpdateHash, SelectSessions, UpdateSessions, UpdateTokens, LockToken
      <3>2. /\ UNCHANGED who
            /\ UNCHANGED <<hash, chosen>> \/ Rehash(p) \/ UpdateHash(p)
        BY <1>4, <2>2 DEF Step, Rehash, OpenSession, ReplayDetected, RefreshAccepted, Rotate,
           ReloadFindsNobody, UpdateHash, SelectSessions, UpdateSessions, UpdateTokens, LockToken,
           tableVars, historyVars
      <3> QED
        BY <1>3, <3>1, <3>2
    <2> QED
      BY <2>1, <2>2
  <1>5. ASSUME NEW p \in Requests, Abandon(p) \/ BreakDeadlock(p) PROVE PasswordInv'
    BY <1>2, <1>5 DEF BreakDeadlock, Abandon, tableVars, historyVars
  <1>6. ASSUME \/ \E p \in Requests, row \in Rows : LockRow(p, row)
               \/ \E s \in Sessions : Expire(s)
               \/ \E i \in Identities : DeleteIdentity(i)
               \/ UNCHANGED vars
        PROVE  PasswordInv'
    <2>1. UNCHANGED <<hash, chosen, pc, who>>
      BY <1>6 DEF LockRow, Expire, DeleteIdentity, vars, tableVars, requestVars, historyVars
    <2> QED
      BY <1>0, <2>1 DEF PasswordInv, ChosenPasswordKept
  <1> QED
    BY <1>1, <1>4, <1>5, <1>6 DEF Next, GetLock

(* An account whose hash has current parameters keeps the password its     *)
(* owner last chose, whatever logins, refreshes and changes overlap        *)
(* (authenticate_identity rehashes only what password_needs_rehash says).  *)
THEOREM UpToDatePasswordsStay == Spec => []ChosenPasswordKept
  <1>1. Init => PasswordInv
    <2> SUFFICES ASSUME Init PROVE PasswordInv
      OBVIOUS
    <2>1. \A i \in UpToDate : ~hash[i].stale /\ hash[i].pw = chosen[i]
      BY DEF Init, UpToDate
    <2>2. \A p \in Requests : pc[p] # "rehash"
      BY DEF Init
    <2> QED
      BY <2>1, <2>2, InitAuth DEF PasswordInv, ChosenPasswordKept
  <1>2. PasswordInv => ChosenPasswordKept
    BY DEF PasswordInv
  <1> QED
    BY <1>1, <1>2, PasswordStep, PTL DEF Spec
===============================================================================

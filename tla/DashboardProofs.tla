---------------------------- MODULE DashboardProofs ----------------------------
(***************************************************************************)
(* Theorems about Dashboard, for any number of tabs, accounts, tokens and  *)
(* calls under way.                                                        *)
(***************************************************************************)
EXTENDS Dashboard, TLAPS

(* Every token a tab or a call holds was issued, and a call that is under  *)
(* way belongs to a tab.                                                   *)
TokensWereIssued ==
    /\ \A b \in Tabs : token[b] \in issued \union {None}
    /\ \A i \in Calls : call[i].token \in issued \union {None}

CallsHaveTabs == \A i \in Calls : call[i].does # "nothing" => call[i].tab \in Tabs

(* A 401 that has not reached the page yet was given to a token that is    *)
(* not accepted: a token never becomes accepted after it was issued.       *)
RefusedTokensStayRefused ==
    \A i \in Calls, p \in Parts : call[i][p] = "401" => call[i].token \notin accepted

(* Data is answered to a token only. *)
DataNeedsTokens == \A i \in Calls, p \in Parts : call[i][p] = "current" => call[i].token # None

DashboardInv ==
    /\ TypeOK
    /\ TokensWereIssued
    /\ CallsHaveTabs
    /\ RefusedTokensStayRefused
    /\ DataNeedsTokens
    /\ ViewMatchesToken
    /\ StoredIsHeld

-------------------------------------------------------------------------------
LEMMA FreeTyped == Free \in CallStates /\ Free.tab = None /\ Free.does = "nothing"
                   /\ Free.token = None /\ Free.summary = "none" /\ Free.logs = "none"
  BY DEF Free, CallStates, Answers

(* What it takes for a step that leaves the page alone: of the calls it    *)
(* puts in place, each is typed, belongs to a tab unless it is free,       *)
(* presents an issued token, and was refused only if that is not accepted. *)
CallOK(c) ==
    /\ c \in CallStates
    /\ c.does # "nothing" => c.tab \in Tabs
    /\ c.token \in issued' \union {None}
    /\ \A p \in Parts : c[p] = "401" => c.token \notin accepted'
    /\ \A p \in Parts : c[p] = "current" => c.token # None

LEMMA CallsOK ==
    ASSUME DashboardInv, issued \subseteq issued', accepted' \subseteq accepted,
           NEW i \in Calls
    PROVE  CallOK(call[i])
  BY DEF DashboardInv, TypeOK, TokensWereIssued, CallsHaveTabs, RefusedTokensStayRefused, DataNeedsTokens, CallOK

LEMMA FreeOK == CallOK(Free)
  BY FreeTyped DEF CallOK, Parts

LEMMA SentOK ==
    ASSUME NEW b \in Tabs, NEW does \in {"submit", "sign in", "load"},
           NEW t \in issued' \union {None}, issued' \subseteq Tokens
    PROVE  CallOK(Sent(b, does, t))
  <1>1. Sent(b, does, t) \in CallStates
    BY DEF Sent, CallStates, Answers
  <1>2. /\ Sent(b, does, t).tab = b /\ Sent(b, does, t).token = t
        /\ Sent(b, does, t).summary = "none" /\ Sent(b, does, t).logs = "none"
    BY DEF Sent
  <1> QED BY <1>1, <1>2 DEF CallOK, Parts

LEMMA LoadingOK ==
    ASSUME NEW b \in Tabs, NEW t \in issued' \union {None}, issued' \subseteq Tokens
    PROVE  CallOK(Loading(b, t))
  BY SentOK DEF Loading

(* A step that leaves page and server alone and changes one call.          *)
LEMMA CallStepKeeps ==
    ASSUME DashboardInv, NEW i \in Calls, NEW c, CallOK(c),
           call' = [call EXCEPT ![i] = c],
           UNCHANGED <<page, issued, accepted>>,
           shown' \in [Tabs -> [Parts -> Accounts \union {None}]]
    PROVE  DashboardInv'
  <1>1. \A j \in Calls : CallOK(call'[j])
    <2>1. \A j \in Calls : CallOK(call[j])
      BY CallsOK
    <2> QED BY <2>1 DEF DashboardInv, TypeOK
  <1>2. TypeOK'
    BY <1>1 DEF DashboardInv, TypeOK, CallOK, page
  <1>3. (TokensWereIssued /\ CallsHaveTabs /\ RefusedTokensStayRefused /\ DataNeedsTokens)'
    BY <1>1 DEF DashboardInv, TokensWereIssued, CallsHaveTabs, RefusedTokensStayRefused, DataNeedsTokens, CallOK, page
  <1> QED BY <1>2, <1>3 DEF DashboardInv, ViewMatchesToken, StoredIsHeld, page

(* A sign-out of one tab, which frees at most one call.                    *)
LEMMA SignOutKeeps ==
    ASSUME DashboardInv, NEW b \in Tabs, SignOut(b),
           call' \in [Calls -> CallStates],
           \A i \in Calls : call'[i] = call[i] \/ call'[i] = Free,
           UNCHANGED <<shown, issued, accepted>>
    PROVE  DashboardInv'
  <1>1. \A j \in Calls : CallOK(call'[j])
    BY CallsOK, FreeOK
  <1>2. TypeOK'
    BY DEF DashboardInv, TypeOK, SignOut
  <1>3. (TokensWereIssued /\ CallsHaveTabs /\ RefusedTokensStayRefused /\ DataNeedsTokens)'
    BY <1>1 DEF DashboardInv, TypeOK, TokensWereIssued, CallsHaveTabs, RefusedTokensStayRefused, DataNeedsTokens,
                CallOK, SignOut
  <1>4. ViewMatchesToken' /\ StoredIsHeld'
    BY DEF DashboardInv, TypeOK, ViewMatchesToken, StoredIsHeld, SignOut
  <1> QED BY <1>2, <1>3, <1>4 DEF DashboardInv

-------------------------------------------------------------------------------
LEMMA InitInv == Init => DashboardInv
  <1> SUFFICES ASSUME Init PROVE DashboardInv
    OBVIOUS
  <1>1. TypeOK
    BY FreeTyped DEF Init, TypeOK
  <1> QED BY <1>1, FreeTyped DEF Init, DashboardInv, TokensWereIssued, CallsHaveTabs, Parts,
             RefusedTokensStayRefused, DataNeedsTokens, ViewMatchesToken, StoredIsHeld

LEMMA FetchAnsweredInv ==
    ASSUME DashboardInv, NEW i \in Calls, NEW part \in Parts, FetchAnswered(i, part)
    PROVE  DashboardInv'
  <1> DEFINE a == IF call[i].token \in accepted THEN "current" ELSE "401"
  <1> DEFINE c == [call[i] EXCEPT ![part] = a]
  <1>1. call' = [call EXCEPT ![i] = c]
    BY DEF FetchAnswered
  <1>2. CallOK(call[i]) /\ UNCHANGED <<issued, accepted>>
    BY CallsOK DEF FetchAnswered
  <1>5. a = "current" => call[i].token # None
    BY ConstantsAssumption DEF DashboardInv, TypeOK
  <1>3. CallOK(c)
    <2>1. CASE part = "summary"
      BY <1>2, <1>5, <2>1 DEF CallOK, CallStates, Answers, Parts
    <2>2. CASE part = "logs"
      BY <1>2, <1>5, <2>2 DEF CallOK, CallStates, Answers, Parts
    <2> QED BY <2>1, <2>2 DEF Parts
  <1>4. shown' \in [Tabs -> [Parts -> Accounts \union {None}]]
    BY DEF DashboardInv, TypeOK, FetchAnswered
  <1> HIDE DEF c
  <1> QED BY <1>1, <1>3, <1>4, CallStepKeeps DEF FetchAnswered

LEMMA LoadFailsInv ==
    ASSUME DashboardInv, NEW i \in Calls, LoadFails(i) \/ Reported(i)
    PROVE  DashboardInv'
  <1>1. shown' \in [Tabs -> [Parts -> Accounts \union {None}]]
    BY DEF DashboardInv, TypeOK, LoadFails, Reported
  <1> QED BY <1>1, FreeOK, CallStepKeeps DEF LoadFails, Reported

LEMMA RenderInv ==
    ASSUME DashboardInv, NEW i \in Calls, Render(i)
    PROVE  DashboardInv'
  <1>1. call[i].tab \in Tabs /\ call[i].token \in Tokens \union {None}
    BY DEF DashboardInv, CallsHaveTabs, TypeOK, CallStates, Render, Answered
  <1>2. \A p \in Parts : call[i][p] = "current" => AccountOf[call[i].token] \in Accounts
    BY <1>1, ConstantsAssumption DEF DashboardInv, DataNeedsTokens
  <1>3. shown' \in [Tabs -> [Parts -> Accounts \union {None}]]
    BY <1>1, <1>2 DEF DashboardInv, TypeOK, Render
  <1> QED BY <1>3, FreeOK, CallStepKeeps DEF Render

LEMMA LoadRefusedInv ==
    ASSUME DashboardInv, NEW i \in Calls, LoadRefused(i)
    PROVE  DashboardInv'
  <1>1. call[i].tab \in Tabs
    BY DEF DashboardInv, CallsHaveTabs, LoadRefused, Answered
  <1>2. call' \in [Calls -> CallStates] /\ \A j \in Calls : call'[j] = call[j] \/ call'[j] = Free
    BY FreeTyped DEF DashboardInv, TypeOK, LoadRefused
  <1> QED BY <1>1, <1>2, SignOutKeeps DEF LoadRefused

LEMMA StartLoadInv ==
    ASSUME DashboardInv, NEW b \in Tabs, Poll(b) \/ Refresh(b)
    PROVE  DashboardInv'
  <1>1. UNCHANGED <<page, shown, issued, accepted>> /\ StartLoad(b)
    BY DEF Poll, Refresh
  <1>2. PICK i \in Calls : call' = [call EXCEPT ![i] = Loading(b, token[b])]
    BY <1>1 DEF StartLoad
  <1>3. token[b] \in issued' \union {None} /\ issued' \subseteq Tokens
    BY <1>1 DEF DashboardInv, TypeOK, TokensWereIssued
  <1>4. CallOK(Loading(b, token[b]))
    BY <1>3, LoadingOK
  <1>5. shown' \in [Tabs -> [Parts -> Accounts \union {None}]]
    BY <1>1 DEF DashboardInv, TypeOK
  <1> QED BY <1>1, <1>2, <1>4, <1>5, CallStepKeeps

LEMMA BeginKeeps ==
    ASSUME DashboardInv, NEW i \in Calls, NEW b \in Tabs,
           NEW does \in {"submit", "sign in"}, NEW t \in issued \union {None},
           Begin(i, b, does, t)
    PROVE  DashboardInv'
  <1>1. UNCHANGED <<page, shown, issued, accepted>> /\ call' = [call EXCEPT ![i] = Sent(b, does, t)]
    BY DEF Begin
  <1>2. CallOK(Sent(b, does, t))
    BY <1>1, SentOK DEF DashboardInv, TypeOK
  <1>3. shown' \in [Tabs -> [Parts -> Accounts \union {None}]]
    BY <1>1 DEF DashboardInv, TypeOK
  <1> QED BY <1>1, <1>2, <1>3, CallStepKeeps

LEMMA BeginInv ==
    ASSUME DashboardInv, NEW i \in Calls, NEW b \in Tabs, Submit(i, b) \/ Login(i, b)
    PROVE  DashboardInv'
  <1>1. token[b] \in issued \union {None}
    BY DEF DashboardInv, TokensWereIssued
  <1>2. Submit(i, b) => Begin(i, b, "submit", token[b])
    BY DEF Submit
  <1>3. Login(i, b) => Begin(i, b, "sign in", None)
    BY DEF Login
  <1> QED BY <1>1, <1>2, <1>3, BeginKeeps

LEMMA SubmittedInv ==
    ASSUME DashboardInv, NEW i \in Calls, Submitted(i)
    PROVE  DashboardInv'
  <1>1. call[i].tab \in Tabs
    BY DEF DashboardInv, CallsHaveTabs, Submitted
  <1>2. token[call[i].tab] \in issued' \union {None} /\ issued' \subseteq Tokens
    BY <1>1 DEF DashboardInv, TypeOK, TokensWereIssued, Submitted
  <1>3. CallOK(Loading(call[i].tab, token[call[i].tab]))
    BY <1>1, <1>2, LoadingOK
  <1>4. shown' \in [Tabs -> [Parts -> Accounts \union {None}]]
    BY DEF DashboardInv, TypeOK, Submitted
  <1> QED BY <1>3, <1>4, CallStepKeeps DEF Submitted

LEMMA LogoutInv ==
    ASSUME DashboardInv, NEW b \in Tabs, Logout(b)
    PROVE  DashboardInv'
  <1>1. call' \in [Calls -> CallStates] /\ \A j \in Calls : call'[j] = call[j]
    BY DEF DashboardInv, TypeOK, Logout
  <1> QED BY <1>1, SignOutKeeps DEF Logout

LEMMA LoggedInInv ==
    ASSUME DashboardInv, NEW i \in Calls, NEW t \in Tokens, LoggedIn(i, t)
    PROVE  DashboardInv'
  <1> DEFINE b == call[i].tab
  <1>1. b \in Tabs /\ t # None
    BY ConstantsAssumption DEF DashboardInv, CallsHaveTabs, LoggedIn
  <1>2. /\ issued' = issued \union {t} /\ accepted' = accepted \union {t} /\ t \notin issued
        /\ issued' \subseteq Tokens /\ accepted' \subseteq issued'
    BY DEF LoggedIn, DashboardInv, TypeOK
  <1>3. CallOK(Loading(b, t))
    BY <1>1, <1>2, LoadingOK
  <1>4. \A j \in Calls : CallOK(call[j])
    BY <1>1, <1>2 DEF DashboardInv, TypeOK, TokensWereIssued, CallsHaveTabs, RefusedTokensStayRefused,
                     DataNeedsTokens, CallOK
  <1>5. \A j \in Calls : CallOK(call'[j])
    <2>1. call' = [call EXCEPT ![i] = Loading(b, t)]
      BY DEF LoggedIn
    <2> HIDE DEF b
    <2> QED BY <1>3, <1>4, <2>1 DEF DashboardInv, TypeOK
  <1>6. TypeOK'
    <2>1. call' \in [Calls -> CallStates]
      BY <1>3 DEF LoggedIn, DashboardInv, TypeOK, CallOK
    <2>2. token' \in [Tabs -> Tokens \union {None}] /\ view' \in [Tabs -> {"login", "dashboard"}]
      BY <1>1 DEF LoggedIn, DashboardInv, TypeOK
    <2> QED BY <1>2, <2>1, <2>2 DEF LoggedIn, DashboardInv, TypeOK
  <1>7. (\A j \in Calls : call[j].token \in issued \union {None})'
        /\ (CallsHaveTabs /\ RefusedTokensStayRefused /\ DataNeedsTokens)'
    BY <1>5 DEF CallsHaveTabs, RefusedTokensStayRefused, DataNeedsTokens, CallOK
  <1>8. (\A a \in Tabs : token[a] \in issued \union {None})'
    BY <1>1, <1>2 DEF LoggedIn, DashboardInv, TypeOK, TokensWereIssued
  <1>9. ViewMatchesToken' /\ StoredIsHeld'
    BY <1>1 DEF LoggedIn, DashboardInv, TypeOK, ViewMatchesToken, StoredIsHeld
  <1> QED BY <1>6, <1>7, <1>8, <1>9 DEF DashboardInv, TokensWereIssued

LEMMA ReloadInv ==
    ASSUME DashboardInv, NEW b \in Tabs, Reload(b)
    PROVE  DashboardInv'
  <1> DEFINE aborted == [i \in Calls |-> IF call[i].tab = b THEN Free ELSE call[i]]
  <1>1. UNCHANGED <<stored, issued, accepted>> /\ stored \in issued \union {None}
        /\ issued' \subseteq Tokens
    BY DEF DashboardInv, TypeOK, TokensWereIssued, StoredIsHeld, Reload
  <1>2. aborted \in [Calls -> CallStates] /\ \A j \in Calls : CallOK(aborted[j])
    BY <1>1, CallsOK, FreeOK, FreeTyped DEF DashboardInv, TypeOK
  <1>3. call' \in [Calls -> CallStates] /\ \A j \in Calls : CallOK(call'[j])
    <2>1. CASE stored = None
      BY <1>2, <2>1 DEF Reload
    <2>2. CASE stored # None
      <3>1. PICK i \in Calls : call' = [aborted EXCEPT ![i] = Loading(b, stored)]
        BY <2>2 DEF Reload
      <3>2. CallOK(Loading(b, stored)) /\ Loading(b, stored) \in CallStates
        BY <1>1, LoadingOK DEF CallOK
      <3> HIDE DEF aborted
      <3> QED BY <1>2, <3>1, <3>2
    <2> QED BY <2>1, <2>2
  <1>4. token' = [token EXCEPT ![b] = stored]
    BY DEF Reload
  <1>5. view' = [view EXCEPT ![b] = IF stored = None THEN "login" ELSE "dashboard"]
    BY DEF Reload
  <1>6. shown' \in [Tabs -> [Parts -> Accounts \union {None}]]
    BY DEF Reload, DashboardInv, TypeOK
  <1>7. TypeOK'
    BY <1>1, <1>3, <1>4, <1>5, <1>6 DEF DashboardInv, TypeOK
  <1>8. (\A j \in Calls : call[j].token \in issued \union {None})'
        /\ (CallsHaveTabs /\ RefusedTokensStayRefused /\ DataNeedsTokens)'
    BY <1>3 DEF CallsHaveTabs, RefusedTokensStayRefused, DataNeedsTokens, CallOK
  <1>9. (\A a \in Tabs : token[a] \in issued \union {None})'
    BY <1>1, <1>4 DEF DashboardInv, TypeOK, TokensWereIssued
  <1>10. ViewMatchesToken' /\ StoredIsHeld'
    BY <1>1, <1>4, <1>5 DEF DashboardInv, TypeOK, ViewMatchesToken, StoredIsHeld
  <1> QED BY <1>7, <1>8, <1>9, <1>10 DEF DashboardInv, TokensWereIssued

LEMMA ExpireInv ==
    ASSUME DashboardInv, NEW t \in Tokens, Expire(t)
    PROVE  DashboardInv'
  BY DEF Expire, page, DashboardInv, TypeOK, TokensWereIssued, CallsHaveTabs,
         RefusedTokensStayRefused, DataNeedsTokens, ViewMatchesToken, StoredIsHeld

LEMMA NewDataInv ==
    ASSUME DashboardInv, NEW a \in Accounts, NewData(a)
    PROVE  DashboardInv'
  <1>1. UNCHANGED <<page, issued, accepted>>
    BY DEF NewData
  <1>2. \A i \in Calls : call[i] \in CallStates
    BY DEF DashboardInv, TypeOK
  <1>3. \A i \in Calls : call'[i] \in CallStates
    BY <1>2 DEF NewData, CallStates, Answers
  <1>4. \A i \in Calls : /\ call'[i].tab = call[i].tab /\ call'[i].does = call[i].does
                         /\ call'[i].token = call[i].token
                         /\ \A p \in Parts : call'[i][p] = call[i][p] \/ call'[i][p] = "outdated"
    BY <1>2 DEF NewData, CallStates, Parts
  <1>5. DOMAIN call' = Calls /\ call' = [i \in Calls |-> call'[i]]
    BY DEF NewData
  <1>6. shown' \in [Tabs -> [Parts -> Accounts \union {None}]]
    BY DEF NewData, DashboardInv, TypeOK
  <1>7. TypeOK'
    BY <1>1, <1>3, <1>5, <1>6 DEF page, DashboardInv, TypeOK
  <1>8. (TokensWereIssued /\ CallsHaveTabs /\ RefusedTokensStayRefused /\ DataNeedsTokens)'
    BY <1>1, <1>4 DEF page, DashboardInv, TokensWereIssued, CallsHaveTabs,
                      RefusedTokensStayRefused, DataNeedsTokens
  <1> QED BY <1>1, <1>7, <1>8 DEF page, DashboardInv, ViewMatchesToken, StoredIsHeld

-------------------------------------------------------------------------------
LEMMA NextInv == DashboardInv /\ [Next]_vars => DashboardInv'
  <1> SUFFICES ASSUME DashboardInv, [Next]_vars PROVE DashboardInv'
    OBVIOUS
  <1>1. CASE UNCHANGED vars
    BY <1>1 DEF vars, page, DashboardInv, TypeOK, TokensWereIssued, CallsHaveTabs,
                RefusedTokensStayRefused, DataNeedsTokens, ViewMatchesToken, StoredIsHeld
  <1>2. CASE \E i \in Calls : CallStep(i)
    BY <1>2, FetchAnsweredInv, LoadFailsInv, LoadRefusedInv, RenderInv, SubmittedInv, LoggedInInv
       DEF CallStep
  <1>3. CASE \E i \in Calls, b \in Tabs : Submit(i, b) \/ Login(i, b)
    BY <1>3, BeginInv
  <1>4. CASE \E b \in Tabs : Poll(b) \/ Refresh(b) \/ Logout(b) \/ Reload(b)
    BY <1>4, StartLoadInv, LogoutInv, ReloadInv
  <1>5. CASE \E t \in Tokens : Expire(t)
    BY <1>5, ExpireInv
  <1>6. CASE \E a \in Accounts : NewData(a)
    BY <1>6, NewDataInv
  <1> QED BY <1>1, <1>2, <1>3, <1>4, <1>5, <1>6 DEF Next

(* The inductive invariant of the dashboard: every reachable state. *)
THEOREM DashboardInvariant == Spec => []DashboardInv
  BY InitInv, NextInv, PTL DEF Spec

(* Every reachable state is well typed. *)
THEOREM DashboardTypeCorrect == Spec => []TypeOK
  <1>1. DashboardInv => TypeOK
    BY DEF DashboardInv
  <1> QED BY <1>1, DashboardInvariant, PTL

(* A tab shows the dashboard exactly while it holds a token. *)
THEOREM ViewFollowsToken == Spec => []ViewMatchesToken
  <1>1. DashboardInv => ViewMatchesToken
    BY DEF DashboardInv
  <1> QED BY <1>1, DashboardInvariant, PTL

(* However many tabs sign in and out: the stored token is one of theirs.   *)
THEOREM StoredTokenIsHeld == Spec => []StoredIsHeld
  <1>1. DashboardInv => StoredIsHeld
    BY DEF DashboardInv
  <1> QED BY <1>1, DashboardInvariant, PTL

(* A step that signs a tab out without a click or a reload ends a load of  *)
(* that tab which was refused; the token it presented is refused still.    *)
LEMMA SignOutStep ==
    ASSUME DashboardInv, [Next]_vars, NEW b \in Tabs, token[b] # None, token'[b] = None
    PROVE  \/ Logout(b) \/ Reload(b)
           \/ \E i \in Calls : /\ call[i].tab = b /\ call[i].token \notin accepted
                              /\ Answered(i) /\ "401" \in {call[i].summary, call[i].logs}
  <1>1. token' # token
    OBVIOUS
  <1>2. CASE \E i \in Calls : CallStep(i)
    <2>1. PICK i \in Calls : LoadRefused(i) \/ \E t \in Tokens : LoggedIn(i, t)
      BY <1>1, <1>2 DEF CallStep, FetchAnswered, LoadFails, Render, Submitted, Reported, page
    <2>2. CASE LoadRefused(i)
      <3>1. call[i].tab = b
        BY <2>2 DEF LoadRefused, SignOut, DashboardInv, TypeOK
      <3>2. Answered(i) /\ "401" \in {call[i].summary, call[i].logs}
        BY <2>2 DEF LoadRefused
      <3>3. \E p \in Parts : call[i][p] = "401"
        BY <3>2 DEF Parts
      <3> QED BY <3>1, <3>2, <3>3 DEF DashboardInv, RefusedTokensStayRefused
    <2>3. CASE \E t \in Tokens : LoggedIn(i, t)
      BY <2>3, ConstantsAssumption DEF LoggedIn, DashboardInv, TypeOK
    <2> QED BY <2>1, <2>2, <2>3
  <1>3. CASE \E c \in Tabs : Logout(c) \/ Reload(c)
    BY <1>3 DEF Logout, Reload, SignOut, DashboardInv, TypeOK
  <1>4. ~UNCHANGED vars
    BY <1>1 DEF vars, page
  <1>5. ~(\E i \in Calls, c \in Tabs : Submit(i, c) \/ Login(i, c))
    BY <1>1 DEF Submit, Login, Begin, page
  <1>6. ~(\E c \in Tabs : Poll(c) \/ Refresh(c))
    BY <1>1 DEF Poll, Refresh, page
  <1>7. ~(\E t \in Tokens : Expire(t)) /\ ~(\E a \in Accounts : NewData(a))
    BY <1>1 DEF Expire, NewData, page
  <1> QED BY <1>2, <1>3, <1>4, <1>5, <1>6, <1>7 DEF Next

(* Nobody is signed out by an error, in however many tabs and whatever is  *)
(* under way: only by a click, a reload, or a refused token.               *)
THEOREM ErrorsSignNobodyOut == Spec => OnlyRefusalSignsOut
  <1> DEFINE Explained ==
        \A b \in Tabs : token[b] # None /\ token'[b] = None =>
            \/ Logout(b) \/ Reload(b)
            \/ \E i \in Calls : /\ call[i].tab = b /\ call[i].token \notin accepted
                              /\ Answered(i) /\ "401" \in {call[i].summary, call[i].logs}
  <1>1. DashboardInv /\ [Next]_vars => [Explained]_vars
    BY SignOutStep
  <1>2. Spec => [][Explained]_vars
    BY <1>1, DashboardInvariant, PTL DEF Spec
  <1> QED BY <1>2 DEF OnlyRefusalSignsOut
===============================================================================

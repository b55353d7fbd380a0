------------------------------- MODULE Dashboard -------------------------------
(***************************************************************************)
(* The browser dashboard (frontend/app.js): open tabs that share one       *)
(* localStorage, each with its own access token in memory, and the calls   *)
(* they have under way, which nothing but leaving the page cancels and     *)
(* whose answers come in any order: sign-ins, submissions of logs, and     *)
(* loads of the dashboard, one of which a timer starts every five seconds. *)
(* The server is external: it issues tokens, stops accepting them, and     *)
(* changes what it would show.                                             *)
(*                                                                         *)
(* Of counters and rows the model keeps whose they are and whether they    *)
(* are still what the server would answer.                                 *)
(***************************************************************************)
EXTENDS Naturals, FiniteSets

CONSTANTS Tabs,
          Accounts,   \* organizations that sign in
          Tokens,     \* the access tokens the server may issue, each once
          AccountOf,  \* the account a token is for
          Calls,      \* bound: calls under way at the same time
          None        \* no token, no tab, no account

ASSUME ConstantsAssumption ==
    /\ AccountOf \in [Tokens -> Accounts]
    /\ None \notin Tokens /\ None \notin Tabs /\ None \notin Accounts

VARIABLES token,   \* state.token, per tab
          stored,  \* sentinel_access_token in localStorage
          view,    \* which of the two views a tab shows
          shown,   \* per tab and part of the page, the account it is current for
          call,    \* the calls under way
          issued,  \* of the server: the tokens ever issued ...
          accepted \* ... and those accepted now

page == <<token, stored, view>>
vars == <<page, shown, call, issued, accepted>>

Parts   == {"summary", "logs"}
Answers == {"none", "401", "current", "outdated"}
Free    == [tab |-> None, does |-> "nothing", token |-> None, summary |-> "none", logs |-> "none"]
CallStates == [tab : Tabs \union {None}, does : {"nothing", "sign in", "submit", "load"},
               token : Tokens \union {None}, summary : Answers, logs : Answers]

TypeOK ==
    /\ token \in [Tabs -> Tokens \union {None}]
    /\ stored \in Tokens \union {None}
    /\ view \in [Tabs -> {"login", "dashboard"}]
    /\ shown \in [Tabs -> [Parts -> Accounts \union {None}]]
    /\ call \in [Calls -> CallStates]
    /\ issued \subseteq Tokens
    /\ accepted \subseteq issued

Init ==
    /\ token = [b \in Tabs |-> None] /\ stored = None
    /\ view = [b \in Tabs |-> "login"]
    /\ shown = [b \in Tabs |-> [p \in Parts |-> None]]
    /\ call = [i \in Calls |-> Free]
    /\ issued = {} /\ accepted = {}

-------------------------------------------------------------------------------
(* A request carries the token it is given when it is sent. *)
Sent(b, does, t) == [tab |-> b, does |-> does, token |-> t, summary |-> "none", logs |-> "none"]

Loading(b, t) == Sent(b, "load", t)

(* loadDashboard: two fetches, sent with the token the tab holds now. *)

StartLoad(b) ==
    \E i \in Calls : call[i] = Free /\ call' = [call EXCEPT ![i] = Loading(b, token[b])]

(* The server answers one of them. *)
FetchAnswered(i, part) ==
    /\ call[i].does = "load" /\ call[i][part] = "none"
    /\ call' = [call EXCEPT ![i][part] =
                  IF call[i].token \in accepted THEN "current" ELSE "401"]
    /\ UNCHANGED <<page, shown, issued, accepted>>

(* removeItem, state.token = null, showLogin. *)
SignOut(b) ==
    /\ token' = [token EXCEPT ![b] = None]
    /\ stored' = None
    /\ view' = [view EXCEPT ![b] = "login"]

(* Mutant: whatever goes wrong signs the tab out. *)
LoadFailsSigningOut(i) ==
    /\ call[i].does = "load" /\ "none" \in {call[i].summary, call[i].logs}
    /\ SignOut(call[i].tab)
    /\ call' = [call EXCEPT ![i] = Free]
    /\ UNCHANGED <<shown, issued, accepted>>

(* A fetch is rejected, or an answer is neither a 401 nor ok: the page     *)
(* stays as it is.                                                         *)
LoadFails(i) ==
    /\ call[i].does = "load" /\ "none" \in {call[i].summary, call[i].logs}
    /\ call' = [call EXCEPT ![i] = Free]
    /\ UNCHANGED <<page, shown, issued, accepted>>

Answered(i) == call[i].does = "load" /\ "none" \notin {call[i].summary, call[i].logs}

(* Mutant: a 401 is an error like the others. *)
LoadRefusedIsReported(i) ==
    /\ Answered(i) /\ "401" \in {call[i].summary, call[i].logs}
    /\ call' = [call EXCEPT ![i] = Free]
    /\ UNCHANGED <<page, shown, issued, accepted>>

(* Either answer is a 401. *)
LoadRefused(i) ==
    /\ Answered(i) /\ "401" \in {call[i].summary, call[i].logs}
    /\ SignOut(call[i].tab)
    /\ call' = [call EXCEPT ![i] = Free]
    /\ UNCHANGED <<shown, issued, accepted>>

(* The page is rewritten, whatever view it is in and whoever is signed in. *)
Render(i) ==
    /\ Answered(i) /\ "401" \notin {call[i].summary, call[i].logs}
    /\ shown' = [shown EXCEPT ![call[i].tab] =
                   [p \in Parts |-> IF call[i][p] = "current" THEN AccountOf[call[i].token] ELSE None]]
    /\ call' = [call EXCEPT ![i] = Free]
    /\ UNCHANGED <<page, issued, accepted>>

-------------------------------------------------------------------------------
(* What starts a load: the timer, the Refresh button, a submission. *)

(* Mutant: the timer stops once something was shown. *)
PollOnce(b) == /\ token[b] # None /\ None \in {shown[b].summary, shown[b].logs}
               /\ StartLoad(b)
               /\ UNCHANGED <<page, shown, issued, accepted>>

Poll(b) == /\ token[b] # None
           /\ StartLoad(b)
           /\ UNCHANGED <<page, shown, issued, accepted>>

Refresh(b) == /\ view[b] = "dashboard"
              /\ StartLoad(b)
              /\ UNCHANGED <<page, shown, issued, accepted>>

Begin(i, b, does, t) ==
    /\ call[i] = Free
    /\ call' = [call EXCEPT ![i] = Sent(b, does, t)]
    /\ UNCHANGED <<page, shown, issued, accepted>>

(* submitSingle, uploadFile: once the logs are accepted the dashboard is   *)
(* loaded, with the token the tab holds by then, if any.                   *)
Submit(i, b) == view[b] = "dashboard" /\ Begin(i, b, "submit", token[b])

Submitted(i) ==
    /\ call[i].does = "submit" /\ call[i].token \in accepted
    /\ call' = [call EXCEPT ![i] = Loading(call[i].tab, token[call[i].tab])]
    /\ UNCHANGED <<page, shown, issued, accepted>>

(* A submission or a sign-in that is refused, or gets no answer, is only   *)
(* reported.                                                               *)
Reported(i) ==
    /\ call[i].does \in {"submit", "sign in"}
    /\ call' = [call EXCEPT ![i] = Free]
    /\ UNCHANGED <<page, shown, issued, accepted>>

-------------------------------------------------------------------------------
(* Signing in and out. *)

Login(i, b) == view[b] = "login" /\ Begin(i, b, "sign in", None)

LoggedIn(i, t) ==
    /\ call[i].does = "sign in" /\ t \notin issued
    /\ issued' = issued \union {t} /\ accepted' = accepted \union {t}
    /\ token' = [token EXCEPT ![call[i].tab] = t]
    /\ stored' = t
    /\ view' = [view EXCEPT ![call[i].tab] = "dashboard"]
    /\ call' = [call EXCEPT ![i] = Loading(call[i].tab, t)]
    /\ UNCHANGED shown

(* Mutants: the token is forgotten by the tab only; null is stored, which  *)
(* localStorage turns into a string.                                       *)
LogoutTabOnly(b) ==
    /\ view[b] = "dashboard"
    /\ token' = [token EXCEPT ![b] = None]
    /\ view' = [view EXCEPT ![b] = "login"]
    /\ UNCHANGED <<stored, shown, call, issued, accepted>>
LogoutStoresNull(b) ==
    /\ view[b] = "dashboard"
    /\ token' = [token EXCEPT ![b] = None]
    /\ view' = [view EXCEPT ![b] = "login"]
    /\ stored' = "null"
    /\ UNCHANGED <<shown, call, issued, accepted>>

Logout(b) ==
    /\ view[b] = "dashboard"
    /\ SignOut(b)
    /\ UNCHANGED <<shown, call, issued, accepted>>

(* The page is left and opened again: what was under way is aborted, the   *)
(* token comes from localStorage and, if there is one, loadDashboard runs. *)
Reload(b) ==
    LET aborted == [i \in Calls |-> IF call[i].tab = b THEN Free ELSE call[i]] IN
    /\ token' = [token EXCEPT ![b] = stored]
    /\ shown' = [shown EXCEPT ![b] = [p \in Parts |-> None]]
    /\ IF stored = None
       THEN view' = [view EXCEPT ![b] = "login"] /\ call' = aborted
       ELSE /\ view' = [view EXCEPT ![b] = "dashboard"]
            /\ \E i \in Calls : aborted[i] = Free /\ call' = [aborted EXCEPT ![i] = Loading(b, stored)]
    /\ UNCHANGED <<stored, issued, accepted>>

-------------------------------------------------------------------------------
(* The server. *)

(* The token expires, or its session is revoked. *)
Expire(t) ==
    /\ t \in accepted
    /\ accepted' = accepted \ {t}
    /\ UNCHANGED <<page, shown, call, issued>>

(* Logs of an account are processed or go through the queue: what was      *)
(* answered before, and what is on the pages, is not current any more.     *)
NewData(a) ==
    LET Aged(c, p) == IF c[p] = "current" /\ AccountOf[c.token] = a THEN "outdated" ELSE c[p] IN
    /\ call' = [i \in Calls |-> [call[i] EXCEPT !.summary = Aged(call[i], "summary"),
                                                !.logs = Aged(call[i], "logs")]]
    /\ shown' = [b \in Tabs |-> [p \in Parts |-> IF shown[b][p] = a THEN None ELSE shown[b][p]]]
    /\ UNCHANGED <<page, issued, accepted>>

-------------------------------------------------------------------------------
CallStep(i) ==
    \/ \E part \in Parts : FetchAnswered(i, part)
    \/ LoadFails(i) \/ LoadRefused(i) \/ Render(i)
    \/ Submitted(i) \/ Reported(i)
    \/ \E t \in Tokens : LoggedIn(i, t)

Next ==
    \/ \E i \in Calls : \/ CallStep(i)
                        \/ \E b \in Tabs : Submit(i, b) \/ Login(i, b)
    \/ \E b \in Tabs : Poll(b) \/ Refresh(b) \/ Logout(b) \/ Reload(b)
    \/ \E t \in Tokens : Expire(t)
    \/ \E a \in Accounts : NewData(a)

Spec == Init /\ [][Next]_vars

(* The browser ends every fetch one way or the other and keeps firing the  *)
(* timer of an open page, whose next load only the bound on calls can put  *)
(* off.  No user has to do anything.                                       *)
Fairness ==
    /\ \A i \in Calls : WF_vars(CallStep(i))
    /\ \A b \in Tabs : SF_vars(Poll(b))

FairSpec == Spec /\ Fairness

-------------------------------------------------------------------------------
(* What the dashboard is expected to guarantee. *)

(* A tab shows the dashboard exactly while it holds a token, whatever      *)
(* answers come late, and in whatever order (showDashboard, showLogin).    *)
ViewMatchesToken == \A b \in Tabs : view[b] = "dashboard" <=> token[b] # None

(* The token a reload would sign in with is one an open tab still holds:   *)
(* signing out, here or in another tab, leaves none behind.                *)
StoredIsHeld == stored # None => \E b \in Tabs : token[b] = stored

(* A tab that is signed out without a click on "Sign out" or a reload had  *)
(* a load of its own answered with a 401, for a token the server does not  *)
(* accept (any more): errors, sign-ins that fail, another tab's loads and  *)
(* a server out of reach sign nobody out.                                  *)
OnlyRefusalSignsOut ==
    [][\A b \in Tabs : token[b] # None /\ token'[b] = None =>
          \/ Logout(b) \/ Reload(b)
          \/ \E i \in Calls : /\ call[i].tab = b /\ call[i].token \notin accepted
                             /\ Answered(i) /\ "401" \in {call[i].summary, call[i].logs}]_vars

(* From some time on no load fails for another reason than a 401, and no   *)
(* load is cut off by a reload of the page.                                *)
LoadsEnd == <>[][(\A i \in Calls : ~LoadFails(i)) /\ (\A b \in Tabs : ~Reload(b))]_vars

(* When the server stops accepting the token of a tab, the tab notices,    *)
(* provided its loads get their answers from some time on.                 *)
RefusalIsNoticed ==
    LoadsEnd => \A b \in Tabs, t \in Tokens :
        token[b] = t /\ t \in issued \ accepted ~> token[b] # t

(* The page of a tab that stays signed in comes to show, and goes on       *)
(* showing, the counters and rows of its own account, current once nothing *)
(* changes any more: what a late answer to an earlier load, or to another  *)
(* account's, has put there is replaced.                                   *)
DisplayCatchesUp ==
    LoadsEnd => \A b \in Tabs, t \in Tokens :
        /\ <>[](token[b] = t /\ t \in accepted)
        /\ <>[][~NewData(AccountOf[t])]_vars
        => <>[](\A p \in Parts : shown[b][p] = AccountOf[t])
===============================================================================

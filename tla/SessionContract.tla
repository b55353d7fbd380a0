---------------------------- MODULE SessionContract ----------------------------
(***************************************************************************)
(* What the login sessions of the backend promise, without transactions,   *)
(* row locks or chains of tokens.  A session has one current token.        *)
(* Whoever presents it, for a session that is live by then, has it         *)
(* replaced and is given the new one; presenting any other token changes   *)
(* nothing but may have the session revoked.  A session that is revoked    *)
(* stays revoked, a request revokes sessions of its own account only, and  *)
(* when it is told that sessions are revoked, all it asked about are.      *)
(* Every request may fail.                                                 *)
(*                                                                         *)
(* This is the contract AuthSession is shown to implement.                 *)
(***************************************************************************)
CONSTANTS Requests, Identities, Sessions, Tokens, None

VARIABLES owner,      \* the account of each session
          current,    \* the current token of each session
          issued,     \* the tokens created so far
          held,       \* the tokens given to clients
          revoked,    \* the sessions revoked
          acting,     \* per request, the account it acts for, None if idle
          presented,  \* per request, the token it presents
          about,      \* per request, the live sessions it is about
          fresh,      \* per request, the token created for it
          answer      \* per request, what its client was told

tables       == <<owner, current, issued, revoked>>
requests     == <<acting, presented, about, fresh, answer>>
contractVars == <<tables, held, requests>>

Init ==
    /\ owner = [s \in Sessions |-> None] /\ current = [s \in Sessions |-> None]
    /\ issued = {} /\ held = {} /\ revoked = {}
    /\ acting = [p \in Requests |-> None] /\ presented = [p \in Requests |-> None]
    /\ about = [p \in Requests |-> {}] /\ fresh = [p \in Requests |-> None]
    /\ answer = [p \in Requests |-> "none"]

SessionsOf(i) == {s \in Sessions : owner[s] = i}

(* A request comes in for account i, with token t or without, about live   *)
(* sessions of that account.                                               *)
Ask(p, i, t, S) ==
    /\ acting[p] = None
    /\ t \in held \union {None}
    /\ S \subseteq SessionsOf(i) \ revoked
    /\ acting' = [acting EXCEPT ![p] = i]
    /\ presented' = [presented EXCEPT ![p] = t]
    /\ about' = [about EXCEPT ![p] = S]
    /\ answer' = [answer EXCEPT ![p] = "none"]
    /\ UNCHANGED <<tables, held, fresh>>

Issue(p, s, t) ==
    /\ t \notin issued
    /\ issued' = issued \union {t}
    /\ current' = [current EXCEPT ![s] = t]
    /\ fresh' = [fresh EXCEPT ![p] = t]
    /\ presented' = [presented EXCEPT ![p] = None]
    /\ UNCHANGED <<revoked, held, acting, about, answer>>

Open(p, s, t) ==
    /\ acting[p] # None /\ owner[s] = None
    /\ owner' = [owner EXCEPT ![s] = acting[p]]
    /\ Issue(p, s, t)

(* The token presented is replaced, once: it is not current afterwards. *)
Rotate(p, s, t) ==
    /\ s \in about[p]
    /\ presented[p] # None /\ presented[p] = current[s]
    /\ Issue(p, s, t)
    /\ UNCHANGED owner

End(p, told) ==
    /\ acting[p] # None
    /\ acting' = [acting EXCEPT ![p] = None]
    /\ presented' = [presented EXCEPT ![p] = None]
    /\ about' = [about EXCEPT ![p] = {}]
    /\ fresh' = [fresh EXCEPT ![p] = None]
    /\ answer' = [answer EXCEPT ![p] = told]
    /\ UNCHANGED <<owner, current, issued>>

Grant(p) ==
    /\ fresh[p] # None
    /\ held' = held \union {fresh[p]}
    /\ End(p, "tokens")
    /\ UNCHANGED revoked

(* The new token is kept back: the account is gone. *)
Withhold(p) ==
    /\ fresh[p] # None
    /\ fresh' = [fresh EXCEPT ![p] = None]
    /\ UNCHANGED <<tables, held, acting, presented, about, answer>>

Confirm(p, S) ==
    /\ S \subseteq SessionsOf(acting[p])
    /\ about[p] \subseteq revoked \union S
    /\ revoked' = revoked \union S
    /\ End(p, "revoked")
    /\ UNCHANGED held

Fail(p) == End(p, "none") /\ UNCHANGED <<held, revoked>>

Comes(p) ==
    \E i \in Identities, t \in Tokens \union {None}, S \in SUBSET Sessions : Ask(p, i, t, S)

GoesOn(p) ==
    \/ \E s \in Sessions, t \in Tokens : Open(p, s, t) \/ Rotate(p, s, t)
    \/ Grant(p) \/ Withhold(p) \/ Fail(p)
    \/ \E S \in SUBSET Sessions : Confirm(p, S)

Next == \E p \in Requests : Comes(p) \/ GoesOn(p)

Spec == Init /\ [][Next]_contractVars
===============================================================================

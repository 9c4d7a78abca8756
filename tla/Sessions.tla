------------------------------- MODULE Sessions -------------------------------
(***************************************************************************)
(* Signing in and out: refresh tokens, the portal an account belongs to,   *)
(* and the changes of password or address that end every session.          *)
(*                                                                         *)
(* Nothing here holds a lock across its steps.  A sign-in reads the        *)
(* account, then mints a token, and only then compares portals; a change   *)
(* of password, a reset and a change of address save the account, then     *)
(* list its tokens, then blacklist them one by one.  A request may die     *)
(* after any step.                                                         *)
(***************************************************************************)
EXTENDS FiniteSets

CONSTANTS
  Accounts, Portals, Tokens,
  Requests,    \* requests that can overlap
  Unset        \* no portal, no token, no request

VARIABLES
  portal,    \* [Accounts -> the portal an account is locked to, or Unset]
  token,     \* [Tokens -> row or Unset]
  request    \* [Requests -> what the request holds, or Unset]

sessionVars == <<portal, token, request>>

-----------------------------------------------------------------------------
Token == [owner : Accounts, handed : BOOLEAN, revoked : BOOLEAN]
\* `outstanding` are the tokens there were when the account was saved.
SignIn == [kind : {"signin"}, account : Accounts, seen : Portals \cup {Unset}]
Ending == [kind : {"saved", "listed"}, account : Accounts,
           outstanding : SUBSET Tokens, todo : SUBSET Tokens, reissue : BOOLEAN]

ASSUME SessionsAssumption == Unset \notin Portals \cup Token \cup SignIn \cup Ending

Of(a) == {t \in Tokens : token[t] # Unset /\ token[t].owner = a}
Busy(r, kind) == request[r] # Unset /\ request[r].kind = kind
Serves(r, job) == request' = [request EXCEPT ![r] = job]

\* for_user: a row is written for a token whether it is handed out or not.
Mint(t, a, handed) ==
  /\ token[t] = Unset
  /\ token' = [token EXCEPT ![t] = [owner |-> a, handed |-> handed, revoked |-> FALSE]]

-----------------------------------------------------------------------------
\* The password, or the email code, was right for the account as read.
Authenticate(r, a) ==
  /\ request[r] = Unset
  /\ Serves(r, [kind |-> "signin", account |-> a, seen |-> portal[a]])
  /\ UNCHANGED <<portal, token>>

\* An account without a portal is locked to the one it first signs in to.
Admit(r, p) ==
  /\ Busy(r, "signin")
  /\ LET a == request[r].account
         seen == request[r].seen IN
     /\ \E t \in Tokens : Mint(t, a, seen \in {Unset, p})
     /\ portal' = IF seen = Unset THEN [portal EXCEPT ![a] = p] ELSE portal
  /\ Serves(r, Unset)

Change(r, a, reissue) ==
  /\ request[r] = Unset
  /\ Serves(r, [kind |-> "saved", account |-> a, outstanding |-> Of(a), todo |-> {}, reissue |-> reissue])
  /\ UNCHANGED <<portal, token>>

ListHanded(r) ==
  /\ Busy(r, "saved")
  /\ Serves(r, [request[r] EXCEPT !.kind = "listed",
                                  !.todo = {t \in Of(request[r].account) : token[t].handed}])
  /\ UNCHANGED <<portal, token>>
ListTokens(r) ==
  /\ Busy(r, "saved")
  /\ Serves(r, [request[r] EXCEPT !.kind = "listed", !.todo = Of(request[r].account)])
  /\ UNCHANGED <<portal, token>>

Blacklist(r, t) ==
  /\ Busy(r, "listed") /\ t \in request[r].todo
  /\ token' = [token EXCEPT ![t].revoked = TRUE]
  /\ Serves(r, [request[r] EXCEPT !.todo = @ \ {t}])
  /\ UNCHANGED portal

\* A change of address hands its caller a new session.
Finish(r) ==
  /\ Busy(r, "listed") /\ request[r].todo = {}
  /\ IF request[r].reissue THEN \E t \in Tokens : Mint(t, request[r].account, TRUE)
     ELSE UNCHANGED token
  /\ Serves(r, Unset) /\ UNCHANGED portal

\* Only the account's own token is ended by signing out.
Logout(a, t) ==
  /\ t \in Of(a) /\ ~token[t].revoked
  /\ token' = [token EXCEPT ![t].revoked = TRUE]
  /\ UNCHANGED <<portal, request>>

Die(r) == request[r] # Unset /\ Serves(r, Unset) /\ UNCHANGED <<portal, token>>

-----------------------------------------------------------------------------
SessionsInit ==
  /\ portal \in [Accounts -> Portals \cup {Unset}]
  /\ token = [t \in Tokens |-> Unset] /\ request = [r \in Requests |-> Unset]

SessionsNext ==
  \/ \E r \in Requests :
       \/ \E a \in Accounts : Authenticate(r, a) \/ \E reissue \in BOOLEAN : Change(r, a, reissue)
       \/ \E p \in Portals : Admit(r, p)
       \/ ListTokens(r) \/ Finish(r) \/ Die(r)
       \/ \E t \in Tokens : Blacklist(r, t)
  \/ \E a \in Accounts, t \in Tokens : Logout(a, t)

SessionsSpec == SessionsInit /\ [][SessionsNext]_sessionVars

-----------------------------------------------------------------------------
SessionsTypeOK ==
  /\ portal \in [Accounts -> Portals \cup {Unset}]
  /\ token \in [Tokens -> Token \cup {Unset}]
  /\ request \in [Requests -> SignIn \cup Ending \cup {Unset}]

\* When a change of password or address has run to its end, every token there
\* was when the account was saved is revoked, those of sign-ins that were
\* refused after their token was minted too, whatever ran in between.
ChangeEndsSessions ==
  \A r \in Requests :
    Busy(r, "listed") /\ request[r].todo = {} =>
      \A t \in request[r].outstanding : token[t].revoked

\* "Lock it to whichever portal it first logs into": a portal never changes.
PortalStays == [][\A a \in Accounts : portal[a] # Unset => portal'[a] = portal[a]]_sessionVars
=============================================================================

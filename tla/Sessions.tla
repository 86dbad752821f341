------------------------------ MODULE Sessions ------------------------------
(***************************************************************************)
(* Accounts, their first login, and login sessions.                        *)
(*                                                                         *)
(* A login opens an AuthSession row and hands out a refresh token and an   *)
(* access token that name it.  Every authenticated request and every       *)
(* refresh asks that the session be neither revoked nor idle.  A refresh   *)
(* rotates the refresh token; a new password blacklists the refresh tokens *)
(* of the account and leaves its sessions alone.                           *)
(*                                                                         *)
(* A request reads and checks (Begin...) and writes later (End...), when   *)
(* other requests may have committed.  Most saves name their columns;      *)
(* the profile step, a profile edit and an account edit write back the     *)
(* whole row that was read.                                                *)
(***************************************************************************)
EXTENDS Naturals

CONSTANTS
  Users,        \* the accounts
  SessionIds,   \* bound: the AuthSession rows that may be created
  Tokens,       \* bound: refresh tokens told apart at once
  Requests,     \* bound: requests in progress at once
  IdleTimeout,  \* ticks without an interaction after which a session is idle
  AccessLife    \* ticks an access token lives

ASSUME ConstantsAssumption ==
  /\ IdleTimeout \in Nat \ {0}
  /\ AccessLife \in Nat \ {0}

VARIABLES
  account,  \* the User rows
  session,  \* the AuthSession rows
  access,   \* per session, the ticks its newest access token has left
  token,    \* refresh tokens and the session each names (sid)
  req       \* requests that have passed their checks and not yet written

vars == <<account, session, access, token, req>>

\* A "deleted" row is soft-deleted; is_active, which refuses a sign-in as a
\* deletion does and is saved with the same rows, is left out.  A "temporary"
\* password was generated by the system; any other was chosen by a person.
Row == [state : {"absent", "live", "deleted"},
        password : {"temporary", "chosen"},
        mustChange : BOOLEAN, mustComplete : BOOLEAN]

\* quiet is the time since last_interaction_at, counted up to IdleTimeout.
SessionRow ==
  {[state |-> "unused"]} \cup
  [state : {"open"}, user : Users, quiet : 0 .. IdleTimeout] \cup
  [state : {"revoked"}, user : Users]

Token == {[state |-> "spent"]} \cup [state : {"live"}, session : SessionIds]

\* row is what a whole-row save will write: the row as read, and its changes.
Request ==
  {[kind |-> "none"]} \cup
  [kind : {"login", "change", "firstPassword"}, user : Users] \cup
  [kind : {"activity"}, session : SessionIds] \cup
  [kind : {"refresh"}, session : SessionIds, token : Tokens] \cup
  [kind : {"profile", "save"}, user : Users, row : Row]

NoRequest == [kind |-> "none"]

TypeOK ==
  /\ account \in [Users -> Row]
  /\ session \in [SessionIds -> SessionRow]
  /\ access \in [SessionIds -> 0 .. AccessLife]
  /\ token \in [Tokens -> Token]
  /\ req \in [Requests -> Request]

Absent ==
  [state |-> "absent", password |-> "chosen", mustChange |-> FALSE, mustComplete |-> FALSE]

\* An account from before the first-login flow, or a seeded one: both flags
\* have their default.
Established == [Absent EXCEPT !.state = "live"]

Init ==
  /\ account \in [Users -> {Absent, Established}]
  /\ session = [s \in SessionIds |-> [state |-> "unused"]]
  /\ access = [s \in SessionIds |-> 0]
  /\ token = [t \in Tokens |-> [state |-> "spent"]]
  /\ req = [q \in Requests |-> NoRequest]

-----------------------------------------------------------------------------
(* Sessions and tokens *)

Opened(s) == session[s].state # "unused"

Idle(s) == session[s].quiet >= IdleTimeout

\* active_session: the row exists, is not revoked and not idle.  The update
\* that would mark an idle row revoked is rolled back with the refusal it
\* comes with, so an idle row keeps its state.
ActiveSession(s) == session[s].state = "open" /\ ~Idle(s)

\* The default manager leaves deleted accounts out.
Live(u) == account[u].state = "live"

\* The bearer's access token is unexpired, and its user and session pass.
Authenticated(s) ==
  /\ access[s] > 0
  /\ ActiveSession(s)
  /\ Live(session[s].user)

\* While a first-login step is due, only the requests FIRST_LOGIN_ALLOWED
\* names get past authentication; "me" stands for what it does not name.
FirstLoginDone(u) == ~account[u].mustChange /\ ~account[u].mustComplete

LiveTokens(s) == {t \in Tokens : token[t] = [state |-> "live", session |-> s]}

\* revoke_all_tokens: every refresh token outstanding for u is blacklisted.
Blacklisted(u) ==
  [t \in Tokens |->
    IF token[t].state = "live" /\ session[token[t].session].user = u
    THEN [state |-> "spent"] ELSE token[t]]

Refreshing(q, s) == req[q].kind = "refresh" /\ req[q].session = s

\* A token no one can present any more may stand for a new one.
Free(t) ==
  /\ token[t].state = "spent"
  /\ \A q \in Requests : req[q].kind = "refresh" => req[q].token # t

Begin(q, r) == req[q] = NoRequest /\ req' = [req EXCEPT ![q] = r]

Done(q) == req' = [req EXCEPT ![q] = NoRequest]

IssueReuses(u, s, t, tokens) ==   \* Defect: an open session of the account is reused.
  /\ Opened(s) => session[s].user = u
  /\ Free(t)
  /\ session' = [session EXCEPT ![s] = [state |-> "open", user |-> u, quiet |-> 0]]
  /\ access' = [access EXCEPT ![s] = AccessLife]
  /\ token' = [tokens EXCEPT ![t] = [state |-> "live", session |-> s]]

\* issue_session_refresh: a session of its own, and its first token pair.
Issue(u, s, t, tokens) ==
  /\ ~Opened(s) /\ Free(t)
  /\ session' = [session EXCEPT ![s] = [state |-> "open", user |-> u, quiet |-> 0]]
  /\ access' = [access EXCEPT ![s] = AccessLife]
  /\ token' = [tokens EXCEPT ![t] = [state |-> "live", session |-> s]]
-----------------------------------------------------------------------------
(* Signing in and staying in *)

\* The credentials are checked against the row read now.
BeginLogin(q, u) ==
  /\ Live(u)
  /\ Begin(q, [kind |-> "login", user |-> u])
  /\ UNCHANGED <<account, session, access, token>>

\* record_login reads the user again; if deleted meanwhile, the request fails
\* there and its tokens reach no one: see Abandon.
EndLogin(q) ==
  /\ req[q].kind = "login"
  /\ Live(req[q].user)
  /\ \E s \in SessionIds, t \in Tokens : Issue(req[q].user, s, t, token)
  /\ Done(q)
  /\ UNCHANGED account

BeginActivity(q, s) ==
  /\ Authenticated(s)
  /\ Begin(q, [kind |-> "activity", session |-> s])
  /\ UNCHANGED <<account, session, access, token>>

EndActivityUnasked(q) ==     \* Defect: the update has no condition.
  /\ req[q].kind = "activity"
  /\ session' = [session EXCEPT ![req[q].session].quiet = 0]
  /\ Done(q)
  /\ UNCHANGED <<account, access, token>>

\* record_interaction: the update asks again what authentication asked.
EndActivity(q) ==
  /\ req[q].kind = "activity"
  /\ session' = IF ActiveSession(req[q].session)
                THEN [session EXCEPT ![req[q].session].quiet = 0] ELSE session
  /\ Done(q)
  /\ UNCHANGED <<account, access, token>>

\* SessionTokenRefreshSerializer: the token is not blacklisted, its session
\* is active, its user may sign in.
BeginRefresh(q, t) ==
  /\ token[t].state = "live"
  /\ ActiveSession(token[t].session)
  /\ Live(session[token[t].session].user)
  /\ Begin(q, [kind |-> "refresh", session |-> token[t].session, token |-> t])
  /\ UNCHANGED <<account, session, access, token>>

\* Rotation: the old token is blacklisted, again or for the first time, and a
\* new pair names the same session.
EndRefresh(q) ==
  /\ req[q].kind = "refresh"
  /\ \E t \in Tokens :
       /\ \/ Free(t)
          \/ t = req[q].token
             /\ \A r \in Requests \ {q} : req[r].kind = "refresh" => req[r].token # t
       /\ token' = [token EXCEPT ![req[q].token] = [state |-> "spent"],
                                 ![t] = [state |-> "live", session |-> req[q].session]]
  /\ access' = [access EXCEPT ![req[q].session] = AccessLife]
  /\ Done(q)
  /\ UNCHANGED <<account, session>>

RevokeSession(s) ==
  /\ session[s].state = "open"
  /\ session' = [session EXCEPT ![s] = [state |-> "revoked", user |-> session[s].user]]

\* Any refresh token of the session, rotated ones too, names the session to
\* end; the one presented is blacklisted.
Logout(s) ==
  /\ RevokeSession(s)
  /\ \E T \in SUBSET LiveTokens(s) :
       token' = [t \in Tokens |-> IF t \in T THEN [state |-> "spent"] ELSE token[t]]
  /\ UNCHANGED <<account, access, req>>

\* IdleTimeout ticks are half an hour.
Tick ==
  /\ \E s \in SessionIds : ActiveSession(s) \/ access[s] > 0
  /\ session' = [s \in SessionIds |->
       IF ActiveSession(s) THEN [session[s] EXCEPT !.quiet = @ + 1] ELSE session[s]]
  /\ access' = [s \in SessionIds |-> IF access[s] > 0 THEN access[s] - 1 ELSE 0]
  /\ UNCHANGED <<account, token, req>>
-----------------------------------------------------------------------------
(* Passwords *)

BeginChange(q, s) ==
  /\ Authenticated(s)
  /\ FirstLoginDone(session[s].user)
  /\ Begin(q, [kind |-> "change", user |-> session[s].user])
  /\ UNCHANGED <<account, session, access, token>>

\* change_password saves the password column only.
EndChange(q) ==
  /\ req[q].kind = "change"
  /\ account' = [account EXCEPT ![req[q].user].password = "chosen"]
  /\ token' = Blacklisted(req[q].user)
  /\ Done(q)
  /\ UNCHANGED <<session, access>>

\* complete_first_login_password refuses unless the row read has the step due.
BeginFirstPassword(q, s) ==
  /\ Authenticated(s)
  /\ account[session[s].user].mustChange
  /\ Begin(q, [kind |-> "firstPassword", user |-> session[s].user])
  /\ UNCHANGED <<account, session, access, token>>

EndFirstPassword(q) ==
  /\ req[q].kind = "firstPassword"
  /\ LET u == req[q].user IN
     /\ account' = [account EXCEPT ![u].password = "chosen", ![u].mustChange = FALSE]
     /\ \E s \in SessionIds, t \in Tokens : Issue(u, s, t, Blacklisted(u))
  /\ Done(q)

ResetQuietly(u) ==           \* Defect: the reset forgets to force a change.
  /\ Live(u)
  /\ account' = [account EXCEPT ![u].password = "temporary", ![u].mustComplete = FALSE]
  /\ token' = Blacklisted(u)
  /\ UNCHANGED <<session, access, req>>

\* An administrator resets the account (who may, is Roles' matter).
ResetPassword(u) ==
  /\ Live(u)
  /\ account' = [account EXCEPT ![u].password = "temporary",
                                ![u].mustChange = TRUE, ![u].mustComplete = FALSE]
  /\ token' = Blacklisted(u)
  /\ UNCHANGED <<session, access, req>>
-----------------------------------------------------------------------------
(* Account rows *)

CreateUnnamed(u) ==          \* Defect: the password type is not one of Row's.
  /\ account[u].state = "absent"
  /\ account' = [account EXCEPT ![u] =
       [state |-> "live", password |-> "unusable",
        mustChange |-> TRUE, mustComplete |-> TRUE]]
  /\ UNCHANGED <<session, access, token, req>>

CreateAccount(u) ==
  /\ account[u].state = "absent"
  /\ account' = [account EXCEPT ![u] =
       [state |-> "live", password |-> "temporary",
        mustChange |-> TRUE, mustComplete |-> TRUE]]
  /\ UNCHANGED <<session, access, token, req>>

\* The profile step is refused while the password step is due.
BeginProfile(q, s) ==
  LET u == session[s].user IN
  /\ Authenticated(s)
  /\ ~account[u].mustChange
  /\ Begin(q, [kind |-> "profile", user |-> u,
                row |-> [account[u] EXCEPT !.mustComplete = FALSE]])
  /\ UNCHANGED <<account, session, access, token>>

EndProfile(q) ==
  /\ req[q].kind = "profile"
  /\ account' = [account EXCEPT ![req[q].user] = req[q].row]
  /\ Done(q)
  /\ UNCHANGED <<session, access, token>>

\* UserSerializer.update sets a password if the payload has one.
MaySetPassword(row) == {row, [row EXCEPT !.password = "chosen"]}

\* PATCH /auth/me/ by an account that is through its first login.
BeginMe(q, s) ==
  LET u == session[s].user IN
  /\ Authenticated(s)
  /\ FirstLoginDone(u)
  /\ \E row \in MaySetPassword(account[u]) :
       Begin(q, [kind |-> "save", user |-> u, row |-> row])
  /\ UNCHANGED <<account, session, access, token>>

\* PATCH /users/{id}/ by staff.
BeginEdit(q, u) ==
  /\ Live(u)
  /\ \E row \in MaySetPassword(account[u]) :
       Begin(q, [kind |-> "save", user |-> u, row |-> row])
  /\ UNCHANGED <<account, session, access, token>>

\* The whole row is saved, deleted_at and the flags included; no token is
\* revoked.
EndSave(q) ==
  /\ req[q].kind = "save"
  /\ account' = [account EXCEPT ![req[q].user] = req[q].row]
  /\ Done(q)
  /\ UNCHANGED <<session, access, token>>

\* Deleting an account revokes neither its sessions nor its tokens.
DeleteAccount(u) ==
  /\ account[u].state = "live"
  /\ account' = [account EXCEPT ![u].state = "deleted"]
  /\ UNCHANGED <<session, access, token, req>>

RestoreAccount(u) ==
  /\ account[u].state = "deleted"
  /\ account' = [account EXCEPT ![u].state = "live"]
  /\ UNCHANGED <<session, access, token, req>>

\* A request that fails after its checks is rolled back whole.
Abandon(q) ==
  /\ req[q] # NoRequest
  /\ Done(q)
  /\ UNCHANGED <<account, session, access, token>>
-----------------------------------------------------------------------------
Bearer(q, s) ==
  \/ BeginActivity(q, s) \/ BeginChange(q, s) \/ BeginFirstPassword(q, s)
  \/ BeginProfile(q, s) \/ BeginMe(q, s)

End(q) ==
  \/ EndLogin(q) \/ EndActivity(q) \/ EndRefresh(q) \/ EndChange(q)
  \/ EndFirstPassword(q) \/ EndProfile(q) \/ EndSave(q) \/ Abandon(q)

Staff(u) ==
  \/ CreateAccount(u) \/ ResetPassword(u) \/ DeleteAccount(u) \/ RestoreAccount(u)

Next ==
  \/ \E q \in Requests, s \in SessionIds : Bearer(q, s)
  \/ \E q \in Requests, u \in Users : BeginLogin(q, u) \/ BeginEdit(q, u)
  \/ \E q \in Requests, t \in Tokens : BeginRefresh(q, t)
  \/ \E q \in Requests : End(q)
  \/ \E u \in Users : Staff(u)
  \/ \E s \in SessionIds : Logout(s)
  \/ Tick

Spec == Init /\ [][Next]_vars
-----------------------------------------------------------------------------
(* Properties *)

\* An account whose password is one the system generated always has the
\* password step due, whatever overlapping requests write back of older rows:
\* reset_temporary_password, complete_first_login_password and the whole-row
\* saves keep the two columns together.
TemporaryPasswordIsReplaced ==
  \A u \in Users : account[u].password = "temporary" => account[u].mustChange

\* A session once revoked or idle never passes active_session again: an
\* interaction authenticated before the deadline or a logout, and recorded
\* after it, does not bring the session back.
DeadSessionStaysDead ==
  [][\A s \in SessionIds : Opened(s) /\ ~ActiveSession(s) => ~ActiveSession(s)']_vars

\* No refresh token is left for the session, not even in a refresh under way.
CutOff(s) == LiveTokens(s) = {} /\ \A q \in Requests : ~Refreshing(q, s)

\* A session whose refresh tokens are all blacklisted gets no new one and no
\* new access token: what it can still do ends with the last access token.
CutOffStaysCutOff ==
  [][\A s \in SessionIds : Opened(s) /\ CutOff(s) =>
       CutOff(s)' /\ access'[s] <= access[s]]_vars

\* Changing, first setting or resetting the password of an account cuts off
\* every session it had, but one whose token is being exchanged meanwhile.
NewPasswordCutsOff ==
  [][\A u \in Users :
       \/ ResetPassword(u)
       \/ \E q \in Requests : (EndChange(q) \/ EndFirstPassword(q)) /\ req[q].user = u
       => \A s \in SessionIds :
            Opened(s) /\ session[s].user = u =>
              CutOff(s)' \/ \E q \in Requests : Refreshing(q, s)]_vars

\* Only an interaction reported in a session itself moves its deadline: neither
\* a refresh, nor another request, nor one in another login of the same account.
OnlyInteractionProlongs ==
  [][\A s \in SessionIds :
       /\ session[s].state = "open" /\ session'[s].state = "open"
       /\ session'[s].quiet < session[s].quiet
       => \E q \in Requests : EndActivity(q) /\ req[q].session = s]_vars
=============================================================================

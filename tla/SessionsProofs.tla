--------------------------- MODULE SessionsProofs ---------------------------
(***************************************************************************)
(* The properties of Sessions, for any number of accounts, sessions,       *)
(* tokens and requests in progress, and any deadlines.                     *)
(***************************************************************************)
EXTENDS Sessions, TLAPS

\* A row whose password is temporary has the password step due.
Together(row) == row.password = "temporary" => row.mustChange

\* So have the rows that saves under way will write.
RowsTogether ==
  \A q \in Requests : req[q].kind \in {"profile", "save"} => Together(req[q].row)

\* The inductive invariant: the property alone would not survive a save of a
\* row read before.
IInv == TypeOK /\ TemporaryPasswordIsReplaced /\ RowsTogether

USE ConstantsAssumption

LEMMA InitIInv == Init => IInv
<1> SUFFICES ASSUME Init PROVE IInv
  OBVIOUS
<1> USE DEF Init, Absent, Established
<1>1. Absent \in Row /\ Established \in Row
  BY DEF Row
<1>2. account \in [Users -> Row]
  BY <1>1
<1>3. session \in [SessionIds -> SessionRow] /\ access \in [SessionIds -> 0 .. AccessLife]
  BY DEF SessionRow
<1>4. token \in [Tokens -> Token] /\ req \in [Requests -> Request]
  BY DEF Token, Request, NoRequest
<1>5. TemporaryPasswordIsReplaced /\ RowsTogether
  BY DEF TemporaryPasswordIsReplaced, RowsTogether, NoRequest
<1>. QED
  BY <1>2, <1>3, <1>4, <1>5 DEF IInv, TypeOK

\* Beginning a request changes nothing else.
LEMMA BeginIInv ==
  ASSUME IInv, NEW q \in Requests, NEW r \in Request, Begin(q, r),
         r.kind \in {"profile", "save"} => Together(r.row),
         UNCHANGED <<account, session, access, token>>
  PROVE  IInv'
<1>1. req' \in [Requests -> Request]
  BY DEF IInv, TypeOK, Begin
<1>2. TypeOK'
  BY <1>1 DEF IInv, TypeOK
<1>3. RowsTogether'
  BY DEF IInv, TypeOK, RowsTogether, Begin, Together
<1>4. TemporaryPasswordIsReplaced'
  BY DEF IInv, TemporaryPasswordIsReplaced
<1>. QED
  BY <1>2, <1>3, <1>4 DEF IInv

\* Ending one leaves the others as they were.
LEMMA DoneKeeps ==
  ASSUME IInv, NEW q \in Requests, Done(q)
  PROVE  /\ req' \in [Requests -> Request]
         /\ RowsTogether'
<1>1. NoRequest \in Request
  BY DEF NoRequest, Request
<1>. QED
  BY <1>1 DEF IInv, TypeOK, RowsTogether, Done, Together, NoRequest

\* What IInv says of the account a request names.
LEMMA AccountRow ==
  ASSUME IInv, NEW u \in Users
  PROVE  account[u] \in Row /\ Together(account[u])
BY DEF IInv, TypeOK, TemporaryPasswordIsReplaced, Together

\* A session whose row passes active_session names an account.
LEMMA SessionUser ==
  ASSUME IInv, NEW s \in SessionIds, Opened(s)
  PROVE  session[s].user \in Users
BY DEF IInv, TypeOK, SessionRow, Opened

LEMMA BearerStep ==
  ASSUME IInv, NEW q \in Requests, NEW s \in SessionIds, Bearer(q, s)
  PROVE  IInv'
<1>1. Opened(s) /\ session[s].user \in Users
  BY SessionUser DEF Bearer, BeginActivity, BeginChange, BeginFirstPassword,
     BeginProfile, BeginMe, Authenticated, ActiveSession, Opened
<1> DEFINE u == session[s].user
<1>2. account[u] \in Row /\ Together(account[u])
  BY <1>1, AccountRow
<1>3. CASE BeginActivity(q, s)
  <2>1. [kind |-> "activity", session |-> s] \in Request
    BY DEF Request
  <2> QED
    BY <1>3, <2>1, BeginIInv DEF BeginActivity
<1>4. CASE BeginChange(q, s)
  <2>1. [kind |-> "change", user |-> u] \in Request
    BY <1>1 DEF Request
  <2> QED
    BY <1>4, <2>1, BeginIInv DEF BeginChange
<1>5. CASE BeginFirstPassword(q, s)
  <2>1. [kind |-> "firstPassword", user |-> u] \in Request
    BY <1>1 DEF Request
  <2> QED
    BY <1>5, <2>1, BeginIInv DEF BeginFirstPassword
<1>6. CASE BeginProfile(q, s)
  <2> DEFINE row == [account[u] EXCEPT !.mustComplete = FALSE]
             r == [kind |-> "profile", user |-> u, row |-> row]
  <2>1. row \in Row /\ Together(row)
    BY <1>2 DEF Row, Together
  <2>2. r \in Request /\ Together(r.row)
    BY <1>1, <2>1 DEF Request
  <2>3. Begin(q, r) /\ UNCHANGED <<account, session, access, token>>
    BY <1>6 DEF BeginProfile
  <2> QED
    BY <2>2, <2>3, BeginIInv
<1>7. CASE BeginMe(q, s)
  <2>1. PICK row \in MaySetPassword(account[u]) :
          Begin(q, [kind |-> "save", user |-> u, row |-> row])
    BY <1>7 DEF BeginMe
  <2> DEFINE r == [kind |-> "save", user |-> u, row |-> row]
  <2>2. row \in Row /\ Together(row)
    BY <1>2 DEF MaySetPassword, Row, Together
  <2>3. r \in Request /\ Together(r.row)
    BY <1>1, <2>2 DEF Request
  <2> QED
    BY <1>7, <2>1, <2>3, BeginIInv DEF BeginMe
<1> QED
  BY <1>3, <1>4, <1>5, <1>6, <1>7 DEF Bearer

LEMMA OtherBegins ==
  ASSUME IInv, NEW q \in Requests,
         \/ \E u \in Users : BeginLogin(q, u) \/ BeginEdit(q, u)
         \/ \E t \in Tokens : BeginRefresh(q, t)
  PROVE  IInv'
<1>1. ASSUME NEW u \in Users, BeginLogin(q, u) PROVE IInv'
  <2>1. [kind |-> "login", user |-> u] \in Request
    BY DEF Request
  <2> QED
    BY <1>1, <2>1, BeginIInv DEF BeginLogin
<1>2. ASSUME NEW u \in Users, BeginEdit(q, u) PROVE IInv'
  <2>1. PICK row \in MaySetPassword(account[u]) :
          Begin(q, [kind |-> "save", user |-> u, row |-> row])
    BY <1>2 DEF BeginEdit
  <2> DEFINE r == [kind |-> "save", user |-> u, row |-> row]
  <2>2. row \in Row /\ Together(row)
    BY AccountRow DEF MaySetPassword, Row, Together
  <2>3. r \in Request /\ Together(r.row)
    BY <2>2 DEF Request
  <2> QED
    BY <1>2, <2>1, <2>3, BeginIInv DEF BeginEdit
<1>3. ASSUME NEW t \in Tokens, BeginRefresh(q, t) PROVE IInv'
  <2> DEFINE r == [kind |-> "refresh", session |-> token[t].session, token |-> t]
  <2>1. r \in Request
    BY <1>3 DEF Request, IInv, TypeOK, Token, BeginRefresh
  <2> QED
    BY <1>3, <2>1, BeginIInv DEF BeginRefresh
<1> QED
  BY <1>1, <1>2, <1>3

LEMMA BlacklistedType ==
  ASSUME IInv, NEW u
  PROVE  Blacklisted(u) \in [Tokens -> Token]
BY DEF IInv, TypeOK, Token, Blacklisted

\* Issue keeps the types of what it changes.
LEMMA IssueType ==
  ASSUME IInv, NEW u \in Users, NEW s \in SessionIds, NEW t \in Tokens,
         NEW tokens \in [Tokens -> Token], Issue(u, s, t, tokens)
  PROVE  /\ session' \in [SessionIds -> SessionRow]
         /\ access' \in [SessionIds -> 0 .. AccessLife]
         /\ token' \in [Tokens -> Token]
<1>1. [state |-> "open", user |-> u, quiet |-> 0] \in SessionRow
  BY DEF SessionRow
<1>2. [state |-> "live", session |-> s] \in Token
  BY DEF Token
<1>3. AccessLife \in 0 .. AccessLife
  OBVIOUS
<1> QED
  BY <1>1, <1>2, <1>3 DEF Issue, IInv, TypeOK

\* What a step must show when it changes neither an account nor a saved row.
LEMMA AccountsKept ==
  ASSUME IInv, UNCHANGED account,
         session' \in [SessionIds -> SessionRow],
         access' \in [SessionIds -> 0 .. AccessLife],
         token' \in [Tokens -> Token], req' \in [Requests -> Request], RowsTogether'
  PROVE  IInv'
BY DEF IInv, TypeOK, TemporaryPasswordIsReplaced

\* And when it changes one account.
LEMMA AccountSet ==
  ASSUME IInv, NEW u \in Users, NEW row \in Row, Together(row),
         account' = [account EXCEPT ![u] = row],
         session' \in [SessionIds -> SessionRow],
         access' \in [SessionIds -> 0 .. AccessLife],
         token' \in [Tokens -> Token], req' \in [Requests -> Request], RowsTogether'
  PROVE  IInv'
<1>1. TypeOK'
  BY DEF IInv, TypeOK
<1>2. TemporaryPasswordIsReplaced'
  BY DEF IInv, TypeOK, TemporaryPasswordIsReplaced, Together
<1> QED
  BY <1>1, <1>2 DEF IInv

LEMMA Unchanged ==
  ASSUME IInv
  PROVE  /\ UNCHANGED session => session' \in [SessionIds -> SessionRow]
         /\ UNCHANGED access => access' \in [SessionIds -> 0 .. AccessLife]
         /\ UNCHANGED token => token' \in [Tokens -> Token]
         /\ UNCHANGED req => req' \in [Requests -> Request] /\ RowsTogether'
BY DEF IInv, TypeOK, RowsTogether

LEMMA EndStep ==
  ASSUME IInv, NEW q \in Requests, End(q)
  PROVE  IInv'
<1>1. req' \in [Requests -> Request] /\ RowsTogether'
  BY DoneKeeps DEF End, EndLogin, EndActivity, EndRefresh, EndChange,
     EndFirstPassword, EndProfile, EndSave, Abandon
<1>2. req[q] \in Request
  BY DEF IInv, TypeOK
<1>3. CASE EndLogin(q)
  <2>1. req[q].user \in Users
    BY <1>2, <1>3 DEF EndLogin, Request
  <2>2. token \in [Tokens -> Token]
    BY DEF IInv, TypeOK
  <2> QED
    BY <1>1, <1>3, <2>1, <2>2, IssueType, AccountsKept DEF EndLogin
<1>4. CASE EndActivity(q)
  <2>1. req[q].session \in SessionIds
    BY <1>2, <1>4 DEF EndActivity, Request
  <2>2. session' \in [SessionIds -> SessionRow]
    <3>1. CASE ActiveSession(req[q].session)
      <4> DEFINE s == req[q].session
      <4>1. session[s] \in [state : {"open"}, user : Users, quiet : 0 .. IdleTimeout]
        BY <2>1, <3>1 DEF IInv, TypeOK, SessionRow, ActiveSession
      <4>2. [session[s] EXCEPT !.quiet = 0] \in SessionRow
        BY <4>1 DEF SessionRow
      <4> QED
        BY <1>4, <2>1, <3>1, <4>2 DEF EndActivity, IInv, TypeOK
    <3>2. CASE ~ActiveSession(req[q].session)
      BY <1>4, <3>2 DEF EndActivity, IInv, TypeOK
    <3> QED
      BY <3>1, <3>2
  <2> QED
    BY <1>1, <1>4, <2>2, Unchanged, AccountsKept DEF EndActivity
<1>5. CASE EndRefresh(q)
  <2>1. req[q].session \in SessionIds
    BY <1>2, <1>5 DEF EndRefresh, Request
  <2>2. [state |-> "spent"] \in Token /\ [state |-> "live", session |-> req[q].session] \in Token
    BY <2>1 DEF Token
  <2>3. token' \in [Tokens -> Token]
    BY <1>5, <2>2 DEF EndRefresh, IInv, TypeOK
  <2>4. access' \in [SessionIds -> 0 .. AccessLife]
    <3>1. AccessLife \in 0 .. AccessLife /\ access \in [SessionIds -> 0 .. AccessLife]
      BY DEF IInv, TypeOK
    <3>2. access' = [access EXCEPT ![req[q].session] = AccessLife]
      BY <1>5 DEF EndRefresh
    <3> QED
      BY <3>1, <3>2
  <2> QED
    BY <1>1, <1>5, <2>3, <2>4, Unchanged, AccountsKept DEF EndRefresh
<1>6. CASE EndChange(q)
  <2> DEFINE u == req[q].user
             row == [account[u] EXCEPT !.password = "chosen"]
  <2>1. u \in Users
    BY <1>2, <1>6 DEF EndChange, Request
  <2>2. row \in Row /\ Together(row)
    BY <2>1, AccountRow DEF Row, Together
  <2>3. account' = [account EXCEPT ![u] = row]
    BY <1>6, <2>1 DEF EndChange, IInv, TypeOK
  <2>4. token' \in [Tokens -> Token]
    BY <1>6, BlacklistedType DEF EndChange
  <2> QED
    BY <1>1, <1>6, <2>1, <2>2, <2>3, <2>4, Unchanged, AccountSet DEF EndChange
<1>7. CASE EndFirstPassword(q)
  <2> DEFINE u == req[q].user
             row == [account[u] EXCEPT !.password = "chosen", !.mustChange = FALSE]
  <2>1. u \in Users
    BY <1>2, <1>7 DEF EndFirstPassword, Request
  <2>2. row \in Row /\ Together(row)
    BY <2>1, AccountRow DEF Row, Together
  <2>3. account' = [account EXCEPT ![u] = row]
    BY <1>7, <2>1 DEF EndFirstPassword, IInv, TypeOK
  <2>4. Blacklisted(u) \in [Tokens -> Token]
    BY BlacklistedType
  <2>5. PICK s \in SessionIds, t \in Tokens : Issue(u, s, t, Blacklisted(u))
    BY <1>7 DEF EndFirstPassword
  <2> QED
    BY <1>1, <2>1, <2>2, <2>3, <2>4, <2>5, IssueType, AccountSet
<1>8. CASE EndProfile(q) \/ EndSave(q)
  <2>1. req[q].user \in Users /\ req[q].row \in Row
    BY <1>2, <1>8 DEF EndProfile, EndSave, Request
  <2>2. Together(req[q].row)
    BY <1>8 DEF EndProfile, EndSave, IInv, RowsTogether
  <2> QED
    BY <1>1, <1>8, <2>1, <2>2, Unchanged, AccountSet DEF EndProfile, EndSave
<1>9. CASE Abandon(q)
  BY <1>1, <1>9, Unchanged, AccountsKept DEF Abandon
<1> QED
  BY <1>3, <1>4, <1>5, <1>6, <1>7, <1>8, <1>9 DEF End

LEMMA StaffStep ==
  ASSUME IInv, NEW u \in Users, Staff(u)
  PROVE  IInv'
<1>1. account[u] \in Row /\ Together(account[u])
  BY AccountRow
<1>2. CASE CreateAccount(u)
  <2> DEFINE row == [state |-> "live", password |-> "temporary",
                     mustChange |-> TRUE, mustComplete |-> TRUE]
  <2>1. row \in Row /\ Together(row)
    BY DEF Row, Together
  <2> QED
    BY <1>2, <2>1, Unchanged, AccountSet DEF CreateAccount
<1>3. CASE ResetPassword(u)
  <2> DEFINE row == [account[u] EXCEPT !.password = "temporary",
                                       !.mustChange = TRUE, !.mustComplete = FALSE]
  <2>1. row \in Row /\ Together(row)
    BY <1>1 DEF Row, Together
  <2>2. account' = [account EXCEPT ![u] = row]
    BY <1>3 DEF ResetPassword, IInv, TypeOK
  <2>3. token' \in [Tokens -> Token]
    BY <1>3, BlacklistedType DEF ResetPassword
  <2> QED
    BY <1>3, <2>1, <2>2, <2>3, Unchanged, AccountSet DEF ResetPassword
<1>4. CASE DeleteAccount(u) \/ RestoreAccount(u)
  <2>1. PICK st \in {"live", "deleted"} : account' = [account EXCEPT ![u].state = st]
    BY <1>4 DEF DeleteAccount, RestoreAccount
  <2> DEFINE row == [account[u] EXCEPT !.state = st]
  <2>2. row \in Row /\ Together(row)
    BY <1>1 DEF Row, Together
  <2>3. account' = [account EXCEPT ![u] = row]
    BY <2>1 DEF IInv, TypeOK
  <2> QED
    BY <1>4, <2>2, <2>3, Unchanged, AccountSet DEF DeleteAccount, RestoreAccount
<1> QED
  BY <1>2, <1>3, <1>4 DEF Staff

LEMMA LogoutStep ==
  ASSUME IInv, NEW s \in SessionIds, Logout(s)
  PROVE  IInv'
<1>1. session[s].user \in Users
  BY SessionUser DEF Logout, RevokeSession, Opened
<1>2. [state |-> "revoked", user |-> session[s].user] \in SessionRow
  BY <1>1 DEF SessionRow
<1>3. session' \in [SessionIds -> SessionRow]
  BY <1>2 DEF Logout, RevokeSession, IInv, TypeOK
<1>4. token' \in [Tokens -> Token]
  BY DEF Logout, IInv, TypeOK, Token
<1> QED
  BY <1>3, <1>4, Unchanged, AccountsKept DEF Logout

LEMMA TickStep ==
  ASSUME IInv, Tick
  PROVE  IInv'
<1>1. ASSUME NEW s \in SessionIds PROVE session'[s] \in SessionRow
  <2>1. CASE ActiveSession(s)
    <3>1. session[s] \in [state : {"open"}, user : Users, quiet : 0 .. IdleTimeout]
      BY <2>1 DEF IInv, TypeOK, SessionRow, ActiveSession
    <3>2. session[s].quiet + 1 \in 0 .. IdleTimeout
      BY <2>1, <3>1 DEF ActiveSession, Idle
    <3>3. [session[s] EXCEPT !.quiet = session[s].quiet + 1] \in SessionRow
      BY <3>1, <3>2 DEF SessionRow
    <3> QED
      BY <2>1, <3>3 DEF Tick
  <2>2. CASE ~ActiveSession(s)
    BY <2>2 DEF Tick, IInv, TypeOK
  <2> QED
    BY <2>1, <2>2
<1>2. session' \in [SessionIds -> SessionRow]
  BY <1>1 DEF Tick
<1>3. access' \in [SessionIds -> 0 .. AccessLife]
  BY DEF Tick, IInv, TypeOK
<1> QED
  BY <1>2, <1>3, Unchanged, AccountsKept DEF Tick

LEMMA NextIInv == IInv /\ [Next]_vars => IInv'
<1> SUFFICES ASSUME IInv, [Next]_vars PROVE IInv'
  OBVIOUS
<1>1. CASE Next
  BY <1>1, BearerStep, OtherBegins, EndStep, StaffStep, LogoutStep, TickStep DEF Next
<1>2. CASE UNCHANGED vars
  BY <1>2, Unchanged, AccountsKept DEF vars
<1> QED
  BY <1>1, <1>2

-----------------------------------------------------------------------------
(* Invariants *)

THEOREM Invariant == Spec => []IInv
BY InitIInv, NextIInv, PTL DEF Spec

\* Every variable keeps its type.
THEOREM TypeCorrect == Spec => []TypeOK
<1>1. IInv => TypeOK
  BY DEF IInv
<1> QED
  BY <1>1, Invariant, PTL

\* A temporary password always has the password step due.
THEOREM TemporaryReplaced == Spec => []TemporaryPasswordIsReplaced
<1>1. IInv => TemporaryPasswordIsReplaced
  BY DEF IInv
<1> QED
  BY <1>1, Invariant, PTL

-----------------------------------------------------------------------------
(* What a step may do to a session, a token, a refresh *)

\* An opened session is revoked, grows quieter, or has an interaction.
LEMMA SessionMoves ==
  ASSUME IInv, [Next]_vars, NEW s \in SessionIds, Opened(s)
  PROVE  \/ session'[s] = session[s]
         \/ session'[s].state = "revoked"
         \/ ActiveSession(s) /\ \E q \in Requests : EndActivity(q) /\ req[q].session = s
         \/ ActiveSession(s) /\ session'[s] = [session[s] EXCEPT !.quiet = session[s].quiet + 1]
<1>0. session \in [SessionIds -> SessionRow]
  BY DEF IInv, TypeOK
<1>1. CASE UNCHANGED session
  BY <1>1
<1>2. ASSUME NEW q \in Requests, EndLogin(q) \/ EndFirstPassword(q)
      PROVE  session'[s] = session[s]
  <2>1. \E x \in SessionIds : ~Opened(x) /\ \E r : session' = [session EXCEPT ![x] = r]
    BY <1>2 DEF EndLogin, EndFirstPassword, Issue
  <2> QED
    BY <1>0, <2>1
<1>3. ASSUME NEW q \in Requests, EndActivity(q)
      PROVE  session'[s] = session[s] \/ (ActiveSession(s) /\ req[q].session = s)
  <2>1. CASE ActiveSession(req[q].session)
    <3>1. session' = [session EXCEPT ![req[q].session].quiet = 0]
      BY <1>3, <2>1 DEF EndActivity
    <3> QED
      BY <1>0, <2>1, <3>1
  <2>2. CASE ~ActiveSession(req[q].session)
    BY <1>3, <2>2 DEF EndActivity
  <2> QED
    BY <2>1, <2>2
<1>4. ASSUME NEW x \in SessionIds, Logout(x)
      PROVE  session'[s] = session[s] \/ session'[s].state = "revoked"
  BY <1>0, <1>4 DEF Logout, RevokeSession
<1>5. ASSUME Tick
      PROVE  \/ session'[s] = session[s]
             \/ ActiveSession(s) /\ session'[s] = [session[s] EXCEPT !.quiet = session[s].quiet + 1]
  BY <1>5 DEF Tick
<1>6. CASE Next
  <2>1. CASE \E q \in Requests, x \in SessionIds : Bearer(q, x)
    BY <1>1, <2>1 DEF Bearer, BeginActivity, BeginChange, BeginFirstPassword,
       BeginProfile, BeginMe
  <2>2. CASE \E q \in Requests, u \in Users : BeginLogin(q, u) \/ BeginEdit(q, u)
    BY <1>1, <2>2 DEF BeginLogin, BeginEdit
  <2>3. CASE \E q \in Requests, t \in Tokens : BeginRefresh(q, t)
    BY <1>1, <2>3 DEF BeginRefresh
  <2>4. CASE \E q \in Requests : End(q)
    <3> PICK q \in Requests : End(q)
      BY <2>4
    <3>1. CASE EndLogin(q) \/ EndFirstPassword(q)
      BY <1>2, <3>1
    <3>2. CASE EndActivity(q)
      BY <1>3, <3>2
    <3>3. CASE EndRefresh(q) \/ EndChange(q) \/ EndProfile(q) \/ EndSave(q) \/ Abandon(q)
      BY <1>1, <3>3 DEF EndRefresh, EndChange, EndProfile, EndSave, Abandon
    <3> QED
      BY <3>1, <3>2, <3>3 DEF End
  <2>5. CASE \E u \in Users : Staff(u)
    BY <1>1, <2>5 DEF Staff, CreateAccount, ResetPassword, DeleteAccount, RestoreAccount
  <2> QED
    BY <1>4, <1>5, <1>6, <2>1, <2>2, <2>3, <2>4, <2>5 DEF Next
<1> QED
  BY <1>1, <1>6 DEF vars

\* A refresh token comes from a refresh under way, or opens its session.
LEMMA TokenMoves ==
  ASSUME IInv, [Next]_vars, NEW s \in SessionIds, Opened(s),
         \A q \in Requests : ~Refreshing(q, s)
  PROVE  LiveTokens(s)' \subseteq LiveTokens(s) /\ access'[s] <= access[s]
<1> DEFINE live == [state |-> "live", session |-> s]
<1>0. token \in [Tokens -> Token] /\ access \in [SessionIds -> 0 .. AccessLife]
  BY DEF IInv, TypeOK
<1>1. access[s] <= access[s]
  BY <1>0
<1>2. SUFFICES ASSUME TRUE
      PROVE  (\A t \in Tokens : token'[t] = live => token[t] = live) /\ access'[s] <= access[s]
  BY DEF LiveTokens
<1>3. CASE UNCHANGED <<token, access>>
  BY <1>1, <1>3
<1>4. ASSUME NEW u \in Users, NEW x \in SessionIds, NEW t \in Tokens,
             NEW tokens \in [Tokens -> Token], Issue(u, x, t, tokens),
             \A y \in Tokens : tokens[y] = live => token[y] = live
      PROVE  (\A y \in Tokens : token'[y] = live => token[y] = live) /\ access'[s] <= access[s]
  <2>1. x # s
    BY <1>4 DEF Issue
  <2>2. [state |-> "live", session |-> x] # live
    BY <2>1
  <2> QED
    BY <1>0, <1>1, <1>4, <2>1, <2>2 DEF Issue
<1>5. ASSUME NEW u
      PROVE  /\ Blacklisted(u) \in [Tokens -> Token]
             /\ \A t \in Tokens : Blacklisted(u)[t] = live => token[t] = live
  <2>1. \A t \in Tokens : Blacklisted(u)[t] = [state |-> "spent"] \/ Blacklisted(u)[t] = token[t]
    BY DEF Blacklisted
  <2>2. [state |-> "spent"] # live
    OBVIOUS
  <2> QED
    BY <2>1, <2>2, BlacklistedType
<1>6. ASSUME NEW q \in Requests, End(q)
      PROVE  (\A t \in Tokens : token'[t] = live => token[t] = live) /\ access'[s] <= access[s]
  <2>0. req[q] \in Request
    BY DEF IInv, TypeOK
  <2>1. CASE EndLogin(q)
    <3>1. req[q].user \in Users
      BY <2>0, <2>1 DEF EndLogin, Request
    <3> QED
      BY <1>0, <1>4, <2>1, <3>1 DEF EndLogin
  <2>2. CASE EndFirstPassword(q)
    <3>1. req[q].user \in Users
      BY <2>0, <2>2 DEF EndFirstPassword, Request
    <3> QED
      BY <1>4, <1>5, <2>2, <3>1 DEF EndFirstPassword
  <2>3. CASE EndRefresh(q)
    <3>1. req[q].session # s
      BY <2>3 DEF EndRefresh, Refreshing
    <3>2. [state |-> "live", session |-> req[q].session] # live /\ [state |-> "spent"] # live
      BY <3>1
    <3>3. PICK t \in Tokens :
            token' = [token EXCEPT ![req[q].token] = [state |-> "spent"],
                                   ![t] = [state |-> "live", session |-> req[q].session]]
      BY <2>3 DEF EndRefresh
    <3>4. access'[s] = access[s]
      BY <1>0, <2>3, <3>1 DEF EndRefresh
    <3> QED
      BY <1>0, <1>1, <3>2, <3>3, <3>4
  <2>4. CASE EndChange(q)
    BY <1>1, <1>5, <2>4 DEF EndChange
  <2>5. CASE EndActivity(q) \/ EndProfile(q) \/ EndSave(q) \/ Abandon(q)
    BY <1>3, <2>5 DEF EndActivity, EndProfile, EndSave, Abandon
  <2> QED
    BY <1>6, <2>1, <2>2, <2>3, <2>4, <2>5 DEF End
<1>7. ASSUME NEW x \in SessionIds, Logout(x)
      PROVE  (\A t \in Tokens : token'[t] = live => token[t] = live) /\ access'[s] <= access[s]
  <2>1. \A t \in Tokens : token'[t] = [state |-> "spent"] \/ token'[t] = token[t]
    BY <1>7 DEF Logout
  <2>2. [state |-> "spent"] # live
    OBVIOUS
  <2> QED
    BY <1>1, <1>7, <2>1, <2>2 DEF Logout
<1>8. CASE Tick
  BY <1>0, <1>8 DEF Tick
<1>9. ASSUME NEW u \in Users, Staff(u)
      PROVE  (\A t \in Tokens : token'[t] = live => token[t] = live) /\ access'[s] <= access[s]
  <2>1. CASE ResetPassword(u)
    BY <1>1, <1>5, <2>1 DEF ResetPassword
  <2> QED
    BY <1>3, <1>9, <2>1 DEF Staff, CreateAccount, DeleteAccount, RestoreAccount
<1>10. CASE Next
  <2>1. CASE \E q \in Requests, x \in SessionIds : Bearer(q, x)
    BY <1>3, <2>1 DEF Bearer, BeginActivity, BeginChange, BeginFirstPassword,
       BeginProfile, BeginMe
  <2>2. CASE \/ \E q \in Requests, u \in Users : BeginLogin(q, u) \/ BeginEdit(q, u)
             \/ \E q \in Requests, t \in Tokens : BeginRefresh(q, t)
    BY <1>3, <2>2 DEF BeginLogin, BeginEdit, BeginRefresh
  <2> QED
    BY <1>6, <1>7, <1>8, <1>9, <1>10, <2>1, <2>2 DEF Next
<1> QED
  BY <1>3, <1>10 DEF vars

\* A refresh begins with a live token of its session.
LEMMA RefreshMoves ==
  ASSUME IInv, [Next]_vars, NEW s \in SessionIds, NEW q \in Requests, Refreshing(q, s)'
  PROVE  Refreshing(q, s) \/ LiveTokens(s) # {}
<1>0. req \in [Requests -> Request] /\ token \in [Tokens -> Token]
  BY DEF IInv, TypeOK
<1>1. CASE UNCHANGED req
  BY <1>1 DEF Refreshing
<1>2. ASSUME NEW p \in Requests, Done(p)
      PROVE  Refreshing(q, s)
  BY <1>0, <1>2 DEF Done, Refreshing, NoRequest
<1>3. ASSUME NEW p \in Requests, NEW r, Begin(p, r), r.kind # "refresh"
      PROVE  Refreshing(q, s)
  BY <1>0, <1>3 DEF Begin, Refreshing
<1>4. ASSUME NEW p \in Requests, NEW t \in Tokens, BeginRefresh(p, t)
      PROVE  Refreshing(q, s) \/ LiveTokens(s) # {}
  <2> DEFINE r == [kind |-> "refresh", session |-> token[t].session, token |-> t]
  <2>1. req' = [req EXCEPT ![p] = r] /\ token[t].state = "live"
    BY <1>4 DEF BeginRefresh, Begin
  <2>2. token[t] = [state |-> "live", session |-> token[t].session]
    BY <1>0, <2>1 DEF Token
  <2>3. CASE p = q
    <3>1. token[t].session = s
      BY <1>0, <2>1, <2>3 DEF Refreshing
    <3> QED
      BY <2>2, <3>1 DEF LiveTokens
  <2>4. CASE p # q
    BY <1>0, <2>1, <2>4 DEF Refreshing
  <2> QED
    BY <2>3, <2>4
<1>5. CASE Next
  <2>1. CASE \E p \in Requests, x \in SessionIds : Bearer(p, x)
    <3>1. PICK p \in Requests, x \in SessionIds : Bearer(p, x)
      BY <2>1
    <3>2. \E r : Begin(p, r) /\ r.kind # "refresh"
      <4>1. CASE BeginActivity(p, x)
        BY <4>1 DEF BeginActivity
      <4>2. CASE BeginChange(p, x)
        BY <4>2 DEF BeginChange
      <4>3. CASE BeginFirstPassword(p, x)
        BY <4>3 DEF BeginFirstPassword
      <4>4. CASE BeginProfile(p, x)
        BY <4>4 DEF BeginProfile
      <4>5. CASE BeginMe(p, x)
        BY <4>5 DEF BeginMe
      <4> QED
        BY <3>1, <4>1, <4>2, <4>3, <4>4, <4>5 DEF Bearer
    <3> QED
      BY <1>3, <3>2
  <2>2. CASE \E p \in Requests, u \in Users : BeginLogin(p, u) \/ BeginEdit(p, u)
    <3>1. PICK p \in Requests, u \in Users : BeginLogin(p, u) \/ BeginEdit(p, u)
      BY <2>2
    <3>2. \E r : Begin(p, r) /\ r.kind # "refresh"
      <4>1. CASE BeginLogin(p, u)
        BY <4>1 DEF BeginLogin
      <4>2. CASE BeginEdit(p, u)
        BY <4>2 DEF BeginEdit
      <4> QED
        BY <3>1, <4>1, <4>2
    <3> QED
      BY <1>3, <3>2
  <2>3. CASE \E p \in Requests, t \in Tokens : BeginRefresh(p, t)
    BY <1>4, <2>3
  <2>4. CASE \E p \in Requests : End(p)
    BY <1>2, <2>4 DEF End, EndLogin, EndActivity, EndRefresh, EndChange,
       EndFirstPassword, EndProfile, EndSave, Abandon
  <2>5. CASE \/ \E u \in Users : Staff(u)
             \/ \E x \in SessionIds : Logout(x)
             \/ Tick
    BY <1>1, <2>5 DEF Staff, CreateAccount, ResetPassword, DeleteAccount, RestoreAccount,
       Logout, Tick
  <2> QED
    BY <1>5, <2>1, <2>2, <2>3, <2>4, <2>5 DEF Next
<1> QED
  BY <1>1, <1>5 DEF vars

-----------------------------------------------------------------------------
(* Action properties *)

\* A session once revoked or idle stays unusable.
THEOREM DeadStaysDead == Spec => DeadSessionStaysDead
<1> DEFINE A == \A s \in SessionIds : Opened(s) /\ ~ActiveSession(s) => ~ActiveSession(s)'
<1>1. IInv /\ [Next]_vars => [A]_vars
  <2> SUFFICES ASSUME IInv, [Next]_vars, NEW s \in SessionIds, Opened(s), ~ActiveSession(s)
               PROVE  ~ActiveSession(s)'
    OBVIOUS
  <2>1. session'[s] = session[s] \/ session'[s].state = "revoked"
    BY SessionMoves
  <2> QED
    BY <2>1 DEF ActiveSession, Idle
<1> QED
  BY <1>1, Invariant, PTL DEF Spec, DeadSessionStaysDead

\* Blacklisting the refresh tokens of a session is final.
THEOREM CutOffIsFinal == Spec => CutOffStaysCutOff
<1> DEFINE A == \A s \in SessionIds : Opened(s) /\ CutOff(s) =>
                   CutOff(s)' /\ access'[s] <= access[s]
<1>1. IInv /\ [Next]_vars => [A]_vars
  <2> SUFFICES ASSUME IInv, [Next]_vars, NEW s \in SessionIds, Opened(s), CutOff(s)
               PROVE  CutOff(s)' /\ access'[s] <= access[s]
    OBVIOUS
  <2>1. LiveTokens(s)' \subseteq LiveTokens(s) /\ access'[s] <= access[s]
    BY TokenMoves DEF CutOff
  <2>2. \A q \in Requests : ~Refreshing(q, s)'
    BY RefreshMoves DEF CutOff
  <2> QED
    BY <2>1, <2>2 DEF CutOff
<1> QED
  BY <1>1, Invariant, PTL DEF Spec, CutOffStaysCutOff

\* Only an interaction reported in a session moves its deadline.
THEOREM InteractionProlongs == Spec => OnlyInteractionProlongs
<1> DEFINE A == \A s \in SessionIds :
                  /\ session[s].state = "open" /\ session'[s].state = "open"
                  /\ session'[s].quiet < session[s].quiet
                  => \E q \in Requests : EndActivity(q) /\ req[q].session = s
<1>1. IInv /\ [Next]_vars => [A]_vars
  <2> SUFFICES ASSUME IInv, [Next]_vars, NEW s \in SessionIds,
                      session[s].state = "open", session'[s].state = "open",
                      session'[s].quiet < session[s].quiet
               PROVE  \E q \in Requests : EndActivity(q) /\ req[q].session = s
    OBVIOUS
  <2>1. session[s].quiet \in 0 .. IdleTimeout /\ DOMAIN session[s] = {"state", "user", "quiet"}
    BY DEF IInv, TypeOK, SessionRow
  <2>2. session'[s] # session[s]
    BY <2>1
  <2>3. session'[s] # [session[s] EXCEPT !.quiet = session[s].quiet + 1]
    BY <2>1
  <2> QED
    BY <2>2, <2>3, SessionMoves DEF Opened
<1> QED
  BY <1>1, Invariant, PTL DEF Spec, OnlyInteractionProlongs

\* A new password leaves no refresh token of an older session, but one being
\* exchanged.
THEOREM PasswordCutsOff == Spec => NewPasswordCutsOff
<1> DEFINE Sets(u) == \/ ResetPassword(u)
                      \/ \E q \in Requests :
                            (EndChange(q) \/ EndFirstPassword(q)) /\ req[q].user = u
           A == \A u \in Users : Sets(u) =>
                  \A s \in SessionIds : Opened(s) /\ session[s].user = u =>
                    CutOff(s)' \/ \E q \in Requests : Refreshing(q, s)
<1>1. IInv /\ [Next]_vars => [A]_vars
  <2> SUFFICES ASSUME IInv, [Next]_vars, NEW u \in Users, Sets(u), NEW s \in SessionIds,
                      Opened(s), session[s].user = u, \A q \in Requests : ~Refreshing(q, s)
               PROVE  CutOff(s)'
    OBVIOUS
  <2> DEFINE live == [state |-> "live", session |-> s]
  <2>1. \A t \in Tokens : Blacklisted(u)[t] # live
    BY DEF Blacklisted
  <2>2. \A t \in Tokens : token'[t] # live
    <3>1. CASE token' = Blacklisted(u)
      BY <2>1, <3>1
    <3>2. ASSUME NEW q \in Requests, EndFirstPassword(q), req[q].user = u
          PROVE  \A t \in Tokens : token'[t] # live
      <4>1. PICK x \in SessionIds, y \in Tokens : Issue(u, x, y, Blacklisted(u))
        BY <3>2 DEF EndFirstPassword
      <4>2. x # s
        BY <4>1 DEF Issue
      <4>3. Blacklisted(u) \in [Tokens -> Token]
        BY BlacklistedType
      <4> QED
        BY <2>1, <4>1, <4>2, <4>3 DEF Issue
    <3> QED
      BY <3>1, <3>2 DEF ResetPassword, EndChange
  <2>3. \A q \in Requests : ~Refreshing(q, s)'
    <3>1. CASE UNCHANGED req
      BY <3>1 DEF Refreshing
    <3>2. ASSUME NEW p \in Requests, Done(p) PROVE \A q \in Requests : ~Refreshing(q, s)'
      BY <3>2 DEF Done, Refreshing, NoRequest, IInv, TypeOK
    <3> QED
      BY <3>1, <3>2 DEF ResetPassword, EndChange, EndFirstPassword
  <2> QED
    BY <2>2, <2>3 DEF CutOff, LiveTokens
<1> QED
  BY <1>1, Invariant, PTL DEF Spec, NewPasswordCutsOff
=============================================================================

--------------------------- MODULE SessionsProofs ---------------------------
(***************************************************************************)
(* The safety properties of Sessions for any number of requests and any    *)
(* passwords.  IndInv is inductive, one lemma per action.                  *)
(***************************************************************************)
EXTENDS Sessions, TLAPS

USE RequestAssumption, PasswordAssumption

LEMMA InitInd == Init => IndInv
<1> SUFFICES ASSUME Init PROVE IndInv
  OBVIOUS
<1>1. TypeOK
  BY DEF Init, TypeOK, Call, Statements, Codes, Tokens, Earlier, Requests
<1>2. \A r \in Requests : session[r] = "none" /\ resetToken[r] = "none" /\ r \in Tokens
  BY DEF Init, Tokens, Earlier, Requests
<1>3. NothingYet /\ CallFits
  BY <1>2 DEF Init, NothingYet, CallFits
<1>4. PredecessorDead
  BY <1>2 DEF Init, PredecessorDead, Replacing
<1>5. OneHolder /\ RegistrationProgress
  BY DEF Init, OneHolder, Resetting, Registering, RegistrationProgress, Tokens, Earlier, Requests
<1> QED
  BY <1>1, <1>3, <1>4, <1>5 DEF IndInv

LEMMA CreateUserInd ==
  ASSUME IndInv, NEW r \in Requests, CreateUser(r)
  PROVE  IndInv'
<1> USE DEF IndInv, database
<1>1. TypeOK'
  BY DEF CreateUser, Goto, Answer, TypeOK, NothingYet, CallFits, OneHolder, Resetting, Registering, Statements, Codes, Tokens
<1>2. NothingYet'
  BY DEF CreateUser, Goto, Answer, TypeOK, NothingYet, CallFits, Tokens
<1>3. CallFits'
  BY DEF CreateUser, Goto, Answer, TypeOK, CallFits
<1>4. PredecessorDead'
  BY DEF CreateUser, Goto, Answer, TypeOK, NothingYet, CallFits, PredecessorDead, Replacing, Tokens, Call
<1>5. OneHolder'
  BY DEF CreateUser, Goto, Answer, TypeOK, NothingYet, CallFits, OneHolder, Resetting, Registering, Tokens, Call
<1>6. RegistrationProgress'
  BY DEF CreateUser, Goto, Answer, TypeOK, NothingYet, CallFits, RegistrationProgress
<1> QED
  BY <1>1, <1>2, <1>3, <1>4, <1>5, <1>6

LEMMA CreateBusinessInd ==
  ASSUME IndInv, NEW r \in Requests, CreateBusiness(r)
  PROVE  IndInv'
<1> USE DEF IndInv, database
<1>1. TypeOK'
  BY DEF CreateBusiness, Goto, Answer, TypeOK, NothingYet, CallFits, OneHolder, Resetting, Registering, Statements, Codes, Tokens
<1>2. NothingYet'
  BY DEF CreateBusiness, Goto, Answer, TypeOK, NothingYet, CallFits, Tokens
<1>3. CallFits'
  BY DEF CreateBusiness, Goto, Answer, TypeOK, CallFits
<1>4. PredecessorDead'
  BY DEF CreateBusiness, Goto, Answer, TypeOK, NothingYet, CallFits, PredecessorDead, Replacing, Tokens, Call
<1>5. OneHolder'
  BY DEF CreateBusiness, Goto, Answer, TypeOK, NothingYet, CallFits, OneHolder, Resetting, Registering, Tokens, Call
<1>6. RegistrationProgress'
  BY DEF CreateBusiness, Goto, Answer, TypeOK, NothingYet, CallFits, RegistrationProgress
<1> QED
  BY <1>1, <1>2, <1>3, <1>4, <1>5, <1>6

LEMMA GetUserByEmailInd ==
  ASSUME IndInv, NEW r \in Requests, GetUserByEmail(r)
  PROVE  IndInv'
<1> USE DEF IndInv, database
<1>1. TypeOK'
  BY DEF GetUserByEmail, Goto, Answer, LoginCode, TypeOK, NothingYet, CallFits, OneHolder, Resetting, Registering, Statements, Codes, Tokens
<1>2. NothingYet'
  BY DEF GetUserByEmail, Goto, Answer, LoginCode, TypeOK, NothingYet, CallFits, Tokens
<1>3. CallFits'
  BY DEF GetUserByEmail, Goto, Answer, LoginCode, TypeOK, CallFits
<1>4. PredecessorDead'
  BY DEF GetUserByEmail, Goto, Answer, LoginCode, TypeOK, NothingYet, CallFits, PredecessorDead, Replacing, Tokens, Call
<1>5. OneHolder'
  BY DEF GetUserByEmail, Goto, Answer, LoginCode, TypeOK, NothingYet, CallFits, OneHolder, Resetting, Registering, Tokens, Call
<1>6. RegistrationProgress'
  BY DEF GetUserByEmail, Goto, Answer, LoginCode, TypeOK, NothingYet, CallFits, RegistrationProgress
<1> QED
  BY <1>1, <1>2, <1>3, <1>4, <1>5, <1>6

LEMMA CreateRefreshSessionInd ==
  ASSUME IndInv, NEW r \in Requests, CreateRefreshSession(r)
  PROVE  IndInv'
<1> USE DEF IndInv, database
<1>1. TypeOK'
  BY DEF CreateRefreshSession, Goto, Answer, TypeOK, NothingYet, CallFits, OneHolder, Resetting, Registering, Statements, Codes, Tokens
<1>2. NothingYet'
  BY DEF CreateRefreshSession, Goto, Answer, TypeOK, NothingYet, CallFits, Tokens
<1>3. CallFits'
  BY DEF CreateRefreshSession, Goto, Answer, TypeOK, CallFits
<1>4. PredecessorDead'
  BY DEF CreateRefreshSession, Goto, Answer, TypeOK, NothingYet, CallFits, PredecessorDead, Replacing, Tokens, Call
<1>5. OneHolder'
  BY DEF CreateRefreshSession, Goto, Answer, TypeOK, NothingYet, CallFits, OneHolder, Resetting, Registering, Tokens, Call
<1>6. RegistrationProgress'
  <2>1. \A q \in Requests : session[q] # "none" => session'[q] # "none"
    BY DEF CreateRefreshSession, TypeOK, Tokens
  <2>2. UNCHANGED <<call, businesses>>
    BY DEF CreateRefreshSession
  <2>3. session'[r] = "live" /\ pc[r] = "create_session"
    BY DEF CreateRefreshSession, TypeOK, Tokens
  <2>4. \A q \in Requests \ {r} : pc'[q] = pc[q] /\ code'[q] = code[q]
    BY DEF CreateRefreshSession, Answer, TypeOK
  <2>5. pc'[r] = "done"
    BY DEF CreateRefreshSession, Answer, TypeOK
  <2> QED
    BY <2>1, <2>2, <2>3, <2>4, <2>5 DEF RegistrationProgress
<1> QED
  BY <1>1, <1>2, <1>3, <1>4, <1>5, <1>6

LEMMA GetRefreshSessionInd ==
  ASSUME IndInv, NEW r \in Requests, GetRefreshSession(r)
  PROVE  IndInv'
<1> USE DEF IndInv, database
<1>1. TypeOK'
  BY DEF GetRefreshSession, Goto, Answer, TypeOK, NothingYet, CallFits, OneHolder, Resetting, Registering, Statements, Codes, Tokens
<1>2. NothingYet'
  BY DEF GetRefreshSession, Goto, Answer, TypeOK, NothingYet, CallFits, Tokens
<1>3. CallFits'
  BY DEF GetRefreshSession, Goto, Answer, TypeOK, CallFits
<1>4. PredecessorDead'
  BY DEF GetRefreshSession, Goto, Answer, TypeOK, NothingYet, CallFits, PredecessorDead, Replacing, Tokens, Call
<1>5. OneHolder'
  BY DEF GetRefreshSession, Goto, Answer, TypeOK, NothingYet, CallFits, OneHolder, Resetting, Registering, Tokens, Call
<1>6. RegistrationProgress'
  BY DEF GetRefreshSession, Goto, Answer, TypeOK, NothingYet, CallFits, RegistrationProgress
<1> QED
  BY <1>1, <1>2, <1>3, <1>4, <1>5, <1>6

LEMMA RevokeRefreshSessionInd ==
  ASSUME IndInv, NEW r \in Requests, RevokeRefreshSession(r)
  PROVE  IndInv'
<1> USE DEF IndInv, database
<1>1. TypeOK'
  BY DEF RevokeRefreshSession, Goto, Answer, Revoked, TypeOK, NothingYet, CallFits, OneHolder, Resetting, Registering, Statements, Codes, Tokens
<1>2. NothingYet'
  BY DEF RevokeRefreshSession, Goto, Answer, Revoked, TypeOK, NothingYet, CallFits, Tokens
<1>3. CallFits'
  BY DEF RevokeRefreshSession, Goto, Answer, Revoked, TypeOK, CallFits
<1>4. PredecessorDead'
  BY DEF RevokeRefreshSession, Goto, Answer, Revoked, TypeOK, NothingYet, CallFits, PredecessorDead, Replacing, Tokens, Call
<1>5. OneHolder'
  BY DEF RevokeRefreshSession, Goto, Answer, Revoked, TypeOK, NothingYet, CallFits, OneHolder, Resetting, Registering, Tokens, Call
<1>6. RegistrationProgress'
  BY DEF RevokeRefreshSession, Goto, Answer, Revoked, TypeOK, NothingYet, CallFits, RegistrationProgress
<1> QED
  BY <1>1, <1>2, <1>3, <1>4, <1>5, <1>6

LEMMA GetUserByIDInd ==
  ASSUME IndInv, NEW r \in Requests, GetUserByID(r)
  PROVE  IndInv'
<1> USE DEF IndInv, database
<1>1. TypeOK'
  BY DEF GetUserByID, Goto, Answer, TypeOK, NothingYet, CallFits, OneHolder, Resetting, Registering, Statements, Codes, Tokens
<1>2. NothingYet'
  BY DEF GetUserByID, Goto, Answer, TypeOK, NothingYet, CallFits, Tokens
<1>3. CallFits'
  BY DEF GetUserByID, Goto, Answer, TypeOK, CallFits
<1>4. PredecessorDead'
  BY DEF GetUserByID, Goto, Answer, TypeOK, NothingYet, CallFits, PredecessorDead, Replacing, Tokens, Call
<1>5. OneHolder'
  BY DEF GetUserByID, Goto, Answer, TypeOK, NothingYet, CallFits, OneHolder, Resetting, Registering, Tokens, Call
<1>6. RegistrationProgress'
  BY DEF GetUserByID, Goto, Answer, TypeOK, NothingYet, CallFits, RegistrationProgress
<1> QED
  BY <1>1, <1>2, <1>3, <1>4, <1>5, <1>6

LEMMA VerifyEmailInd ==
  ASSUME IndInv, NEW r \in Requests, VerifyEmail(r)
  PROVE  IndInv'
<1> USE DEF IndInv, database
<1>1. TypeOK'
  BY DEF VerifyEmail, Goto, Answer, TypeOK, NothingYet, CallFits, OneHolder, Resetting, Registering, Statements, Codes, Tokens
<1>2. NothingYet'
  BY DEF VerifyEmail, Goto, Answer, TypeOK, NothingYet, CallFits, Tokens
<1>3. CallFits'
  BY DEF VerifyEmail, Goto, Answer, TypeOK, CallFits
<1>4. PredecessorDead'
  BY DEF VerifyEmail, Goto, Answer, TypeOK, NothingYet, CallFits, PredecessorDead, Replacing, Tokens, Call
<1>5. OneHolder'
  BY DEF VerifyEmail, Goto, Answer, TypeOK, NothingYet, CallFits, OneHolder, Resetting, Registering, Tokens, Call
<1>6. RegistrationProgress'
  BY DEF VerifyEmail, Goto, Answer, TypeOK, NothingYet, CallFits, RegistrationProgress
<1> QED
  BY <1>1, <1>2, <1>3, <1>4, <1>5, <1>6

LEMMA LogoutInd ==
  ASSUME IndInv, NEW r \in Requests, Logout(r)
  PROVE  IndInv'
<1> USE DEF IndInv, database
<1>1. TypeOK'
  BY DEF Logout, Goto, Answer, Revoked, TypeOK, NothingYet, CallFits, OneHolder, Resetting, Registering, Statements, Codes, Tokens
<1>2. NothingYet'
  BY DEF Logout, Goto, Answer, Revoked, TypeOK, NothingYet, CallFits, Tokens
<1>3. CallFits'
  BY DEF Logout, Goto, Answer, Revoked, TypeOK, CallFits
<1>4. PredecessorDead'
  BY DEF Logout, Goto, Answer, Revoked, TypeOK, NothingYet, CallFits, PredecessorDead, Replacing, Tokens, Call
<1>5. OneHolder'
  BY DEF Logout, Goto, Answer, Revoked, TypeOK, NothingYet, CallFits, OneHolder, Resetting, Registering, Tokens, Call
<1>6. RegistrationProgress'
  <2>1. \A q \in Requests : session[q] # "none" => session'[q] # "none"
    BY DEF Logout, Revoked, TypeOK, Tokens
  <2>2. UNCHANGED <<call, businesses>>
    BY DEF Logout
  <2>3. call[r].op # "register"
    BY DEF Logout, CallFits
  <2>4. \A q \in Requests \ {r} : pc'[q] = pc[q] /\ code'[q] = code[q]
    BY DEF Logout, Answer, TypeOK
  <2> QED
    BY <2>1, <2>2, <2>3, <2>4 DEF RegistrationProgress
<1> QED
  BY <1>1, <1>2, <1>3, <1>4, <1>5, <1>6

LEMMA CreateAuthTokenInd ==
  ASSUME IndInv, NEW r \in Requests, CreateAuthToken(r)
  PROVE  IndInv'
<1> USE DEF IndInv, database
<1>1. TypeOK'
  BY DEF CreateAuthToken, Goto, Answer, TypeOK, NothingYet, CallFits, OneHolder, Resetting, Registering, Statements, Codes, Tokens
<1>2. NothingYet'
  BY DEF CreateAuthToken, Goto, Answer, TypeOK, NothingYet, CallFits, Tokens
<1>3. CallFits'
  BY DEF CreateAuthToken, Goto, Answer, TypeOK, CallFits
<1>4. PredecessorDead'
  BY DEF CreateAuthToken, Goto, Answer, TypeOK, NothingYet, CallFits, PredecessorDead, Replacing, Tokens, Call
<1>5. OneHolder'
  BY DEF CreateAuthToken, Goto, Answer, TypeOK, NothingYet, CallFits, OneHolder, Resetting, Registering, Tokens, Call
<1>6. RegistrationProgress'
  BY DEF CreateAuthToken, Goto, Answer, TypeOK, NothingYet, CallFits, RegistrationProgress
<1> QED
  BY <1>1, <1>2, <1>3, <1>4, <1>5, <1>6

LEMMA ConsumeAuthTokenInd ==
  ASSUME IndInv, NEW r \in Requests, ConsumeAuthToken(r)
  PROVE  IndInv'
<1> USE DEF IndInv, database
<1>1. TypeOK'
  BY DEF ConsumeAuthToken, Goto, Answer, TypeOK, NothingYet, CallFits, OneHolder, Resetting, Registering, Statements, Codes, Tokens
<1>2. NothingYet'
  BY DEF ConsumeAuthToken, Goto, Answer, TypeOK, NothingYet, CallFits, Tokens
<1>3. CallFits'
  BY DEF ConsumeAuthToken, Goto, Answer, TypeOK, CallFits
<1>4. PredecessorDead'
  BY DEF ConsumeAuthToken, Goto, Answer, TypeOK, NothingYet, CallFits, PredecessorDead, Replacing, Tokens, Call
<1>5. OneHolder'
  <2>1. CASE pc'[r] = "done"
    BY <2>1 DEF ConsumeAuthToken, Goto, Answer, TypeOK, OneHolder, Resetting, Registering
  <2>2. CASE resetToken[call[r].token] = "fresh"
    <3>1. /\ call[r].op = "reset" /\ call[r].token \in Tokens
          /\ pc' = [pc EXCEPT ![r] = "update_password"]
          /\ resetToken' = [resetToken EXCEPT ![call[r].token] = "consumed"]
          /\ UNCHANGED <<account, call, code>>
      BY <2>2 DEF ConsumeAuthToken, Goto, CallFits, TypeOK, Call
    <3>2. \A q \in Requests : Resetting(q) => call[q].token # call[r].token
      BY <2>2 DEF OneHolder
    <3>3. \A q \in Requests \ {r} :
            (Resetting(q)' <=> Resetting(q)) /\ (Registering(q)' <=> Registering(q))
      BY <3>1 DEF Resetting, Registering, TypeOK
    <3>4. Resetting(r)' /\ ~Registering(r)'
      BY <3>1 DEF Resetting, Registering, TypeOK
    <3>5. \A q \in Requests : call[q].token \in Tokens
      BY DEF TypeOK, Call
    <3> QED
      BY <2>2, <3>1, <3>2, <3>3, <3>4, <3>5 DEF OneHolder, TypeOK
  <2> QED
    BY <2>1, <2>2 DEF ConsumeAuthToken, Answer, TypeOK
<1>6. RegistrationProgress'
  BY DEF ConsumeAuthToken, Goto, Answer, TypeOK, NothingYet, CallFits, RegistrationProgress
<1> QED
  BY <1>1, <1>2, <1>3, <1>4, <1>5, <1>6

LEMMA UpdatePasswordInd ==
  ASSUME IndInv, NEW r \in Requests, UpdatePassword(r)
  PROVE  IndInv'
<1> USE DEF IndInv, database
<1>1. TypeOK'
  BY DEF UpdatePassword, Goto, Answer, TypeOK, NothingYet, CallFits, OneHolder, Resetting, Registering, Statements, Codes, Tokens
<1>2. NothingYet'
  BY DEF UpdatePassword, Goto, Answer, TypeOK, NothingYet, CallFits, Tokens
<1>3. CallFits'
  BY DEF UpdatePassword, Goto, Answer, TypeOK, CallFits
<1>4. PredecessorDead'
  BY DEF UpdatePassword, Goto, Answer, TypeOK, NothingYet, CallFits, PredecessorDead, Replacing, Tokens, Call
<1>5. OneHolder'
  BY DEF UpdatePassword, Goto, Answer, TypeOK, NothingYet, CallFits, OneHolder, Resetting, Registering, Tokens, Call
<1>6. RegistrationProgress'
  BY DEF UpdatePassword, Goto, Answer, TypeOK, NothingYet, CallFits, RegistrationProgress
<1> QED
  BY <1>1, <1>2, <1>3, <1>4, <1>5, <1>6

LEMMA RevokeAllUserSessionsInd ==
  ASSUME IndInv, NEW r \in Requests, RevokeAllUserSessions(r)
  PROVE  IndInv'
<1> USE DEF IndInv, database
<1>1. TypeOK'
  BY DEF RevokeAllUserSessions, Goto, Answer, TypeOK, NothingYet, CallFits, OneHolder, Resetting, Registering, Statements, Codes, Tokens
<1>2. NothingYet'
  BY DEF RevokeAllUserSessions, Goto, Answer, TypeOK, NothingYet, CallFits, Tokens
<1>3. CallFits'
  BY DEF RevokeAllUserSessions, Goto, Answer, TypeOK, CallFits
<1>4. PredecessorDead'
  BY DEF RevokeAllUserSessions, Goto, Answer, TypeOK, NothingYet, CallFits, PredecessorDead, Replacing, Tokens, Call
<1>5. OneHolder'
  BY DEF RevokeAllUserSessions, Goto, Answer, TypeOK, NothingYet, CallFits, OneHolder, Resetting, Registering, Tokens, Call
<1>6. RegistrationProgress'
  <2>1. \A q \in Requests : session[q] # "none" => session'[q] # "none"
    BY DEF RevokeAllUserSessions, TypeOK, Tokens
  <2>2. UNCHANGED <<call, businesses>>
    BY DEF RevokeAllUserSessions
  <2>3. call[r].op # "register"
    BY DEF RevokeAllUserSessions, CallFits
  <2>4. \A q \in Requests \ {r} : pc'[q] = pc[q] /\ code'[q] = code[q]
    BY DEF RevokeAllUserSessions, Answer, TypeOK
  <2> QED
    BY <2>1, <2>2, <2>3, <2>4 DEF RegistrationProgress
<1> QED
  BY <1>1, <1>2, <1>3, <1>4, <1>5, <1>6

LEMMA AbortInd ==
  ASSUME IndInv, NEW r \in Requests, Abort(r)
  PROVE  IndInv'
<1> USE DEF IndInv, database
<1>1. TypeOK'
  BY DEF Abort, Answer, TypeOK, NothingYet, CallFits, OneHolder, Resetting, Registering, Statements, Codes, Tokens
<1>2. NothingYet'
  BY DEF Abort, Answer, TypeOK, NothingYet, CallFits, Tokens
<1>3. CallFits'
  BY DEF Abort, Answer, TypeOK, CallFits
<1>4. PredecessorDead'
  BY DEF Abort, Answer, TypeOK, NothingYet, CallFits, PredecessorDead, Replacing, Tokens, Call
<1>5. OneHolder'
  BY DEF Abort, Answer, TypeOK, NothingYet, CallFits, OneHolder, Resetting, Registering, Tokens, Call
<1>6. RegistrationProgress'
  BY DEF Abort, Answer, TypeOK, NothingYet, CallFits, RegistrationProgress
<1> QED
  BY <1>1, <1>2, <1>3, <1>4, <1>5, <1>6

LEMMA ExpireSessionInd ==
  ASSUME IndInv, NEW t \in Tokens, ExpireSession(t)
  PROVE  IndInv'
<1> USE DEF IndInv, database
<1>1. TypeOK'
  BY DEF ExpireSession, TypeOK, NothingYet, CallFits, OneHolder, Resetting, Registering, Statements, Codes, Tokens
<1>2. NothingYet'
  BY DEF ExpireSession, TypeOK, NothingYet, CallFits, Tokens
<1>3. CallFits'
  BY DEF ExpireSession, TypeOK, CallFits
<1>4. PredecessorDead'
  BY DEF ExpireSession, TypeOK, NothingYet, CallFits, PredecessorDead, Replacing, Tokens, Call
<1>5. OneHolder'
  BY DEF ExpireSession, TypeOK, NothingYet, CallFits, OneHolder, Resetting, Registering, Tokens, Call
<1>6. RegistrationProgress'
  BY DEF ExpireSession, TypeOK, NothingYet, CallFits, RegistrationProgress
<1> QED
  BY <1>1, <1>2, <1>3, <1>4, <1>5, <1>6

LEMMA ExpireTokenInd ==
  ASSUME IndInv, NEW t \in Tokens, ExpireToken(t)
  PROVE  IndInv'
<1> USE DEF IndInv, database
<1>1. TypeOK'
  BY DEF ExpireToken, TypeOK, NothingYet, CallFits, OneHolder, Resetting, Registering, Statements, Codes, Tokens
<1>2. NothingYet'
  BY DEF ExpireToken, TypeOK, NothingYet, CallFits, Tokens
<1>3. CallFits'
  BY DEF ExpireToken, TypeOK, CallFits
<1>4. PredecessorDead'
  BY DEF ExpireToken, TypeOK, NothingYet, CallFits, PredecessorDead, Replacing, Tokens, Call
<1>5. OneHolder'
  BY DEF ExpireToken, TypeOK, NothingYet, CallFits, OneHolder, Resetting, Registering, Tokens, Call
<1>6. RegistrationProgress'
  BY DEF ExpireToken, TypeOK, NothingYet, CallFits, RegistrationProgress
<1> QED
  BY <1>1, <1>2, <1>3, <1>4, <1>5, <1>6

LEMMA SuspendInd ==
  ASSUME IndInv, Suspend
  PROVE  IndInv'
<1> USE DEF IndInv, database
<1>1. TypeOK'
  BY DEF Suspend, TypeOK, NothingYet, CallFits, OneHolder, Resetting, Registering, Statements, Codes, Tokens
<1>2. NothingYet'
  BY DEF Suspend, TypeOK, NothingYet, CallFits, Tokens
<1>3. CallFits'
  BY DEF Suspend, TypeOK, CallFits
<1>4. PredecessorDead'
  BY DEF Suspend, TypeOK, NothingYet, CallFits, PredecessorDead, Replacing, Tokens, Call
<1>5. OneHolder'
  BY DEF Suspend, TypeOK, NothingYet, CallFits, OneHolder, Resetting, Registering, Tokens, Call
<1>6. RegistrationProgress'
  BY DEF Suspend, TypeOK, NothingYet, CallFits, RegistrationProgress
<1> QED
  BY <1>1, <1>2, <1>3, <1>4, <1>5, <1>6

(* What a request that arrives may ask for, and where it then starts.      *)
Starts(op, t, secret, first) ==
  /\ <<op, first>> \in {<<"register", "create_user">>, <<"login", "get_user">>,
       <<"refresh", "get_session">>, <<"logout", "logout">>, <<"forgot", "get_user">>,
       <<"reset", "consume">>, <<"verify", "verify">>}
  /\ secret \in Passwords \cup {NoPassword}
  /\ op \in {"register", "reset"} => secret \in Passwords
  /\ op = "refresh" => session[t] # "none"

LEMMA BeginInd ==
  ASSUME IndInv, NEW r \in Requests, NEW op, NEW t \in Tokens, NEW secret, NEW first,
         Starts(op, t, secret, first), Begin(r, op, t, secret, first)
  PROVE  IndInv'
<1> USE DEF IndInv, database
<1> DEFINE c == [op |-> op, token |-> t, secret |-> secret]
<1>1. /\ pc[r] = "idle" /\ c \in Call /\ first \in Statements
      /\ pc' = [pc EXCEPT ![r] = first] /\ call' = [call EXCEPT ![r] = c]
      /\ UNCHANGED <<account, password, businesses, session, resetToken, code>>
  BY DEF Begin, Goto, Starts, Call, Statements
<1>2. /\ pc'[r] = first /\ call'[r].op = op /\ call'[r].secret = secret
      /\ \A q \in Requests \ {r} : pc'[q] = pc[q] /\ call'[q] = call[q]
      /\ first \in {"create_user", "get_user", "get_session", "logout", "consume", "verify"}
  BY <1>1 DEF TypeOK, Starts
<1>3. session[r] = "none" /\ resetToken[r] = "none" /\ code[r] = "none"
  BY <1>1 DEF NothingYet
<1>a. /\ call'[r].token = t
      /\ op = "refresh" => session[t] # "none"
      /\ op # "refresh" => first \notin {"get_session", "revoke", "load_user"}
      /\ first \notin {"revoke", "load_user", "create_session"}
  BY <1>1 DEF TypeOK, Starts
<1> HIDE DEF c
<1>4. TypeOK'
  BY <1>1 DEF TypeOK
<1>5. NothingYet'
  BY <1>1, <1>2 DEF NothingYet
<1>6. CallFits'
  BY <1>2 DEF CallFits, Starts
<1>7. PredecessorDead'
  BY <1>1, <1>2, <1>3, <1>a DEF PredecessorDead, Replacing
<1>8. OneHolder'
  BY <1>1, <1>2, <1>3 DEF OneHolder, Resetting, Registering
<1>9. RegistrationProgress'
  BY <1>1, <1>2, <1>3 DEF RegistrationProgress
<1> QED
  BY <1>4, <1>5, <1>6, <1>7, <1>8, <1>9

LEMMA ArriveInd ==
  ASSUME IndInv, NEW r \in Requests, Arrive(r)
  PROVE  IndInv'
<1>0. Earlier \in Tokens /\ Known \subseteq Tokens /\ Delivered \subseteq Tokens
  BY DEF Tokens, Known, Delivered
<1>1. CASE \E w \in Passwords : Begin(r, "register", Earlier, w, "create_user")
  BY <1>0, <1>1, BeginInd DEF Starts
<1>2. CASE \E w \in Passwords \cup {NoPassword} : Begin(r, "login", Earlier, w, "get_user")
  BY <1>0, <1>2, BeginInd DEF Starts
<1>3. CASE \E t \in Known : Begin(r, "refresh", t, NoPassword, "get_session")
  BY <1>0, <1>3, BeginInd DEF Starts, Known
<1>4. CASE \E t \in Known : Begin(r, "logout", t, NoPassword, "logout")
  BY <1>0, <1>4, BeginInd DEF Starts
<1>5. CASE Begin(r, "forgot", Earlier, NoPassword, "get_user")
  BY <1>0, <1>5, BeginInd DEF Starts
<1>6. CASE \E t \in Delivered, w \in Passwords : Begin(r, "reset", t, w, "consume")
  BY <1>0, <1>6, BeginInd DEF Starts
<1>7. CASE \E t \in Delivered : Begin(r, "verify", t, NoPassword, "verify")
  BY <1>0, <1>7, BeginInd DEF Starts
<1> QED
  BY <1>1, <1>2, <1>3, <1>4, <1>5, <1>6, <1>7 DEF Arrive

LEMMA StepInd == IndInv /\ [Next]_vars => IndInv'
<1> SUFFICES ASSUME IndInv, [Next]_vars PROVE IndInv'
  OBVIOUS
<1>1. CASE \E r \in Requests : Arrive(r) \/ Step(r) \/ Abort(r)
  BY <1>1, ArriveInd, AbortInd, CreateUserInd, CreateBusinessInd, GetUserByEmailInd,
     CreateRefreshSessionInd, GetRefreshSessionInd, RevokeRefreshSessionInd, GetUserByIDInd, VerifyEmailInd,
     LogoutInd, CreateAuthTokenInd, ConsumeAuthTokenInd, UpdatePasswordInd,
     RevokeAllUserSessionsInd DEF Step
<1>2. CASE \E t \in Tokens : ExpireSession(t) \/ ExpireToken(t)
  BY <1>2, ExpireSessionInd, ExpireTokenInd
<1>3. CASE Suspend
  BY <1>3, SuspendInd
<1>4. CASE UNCHANGED vars
  BY <1>4 DEF IndInv, vars, TypeOK, NothingYet, CallFits, PredecessorDead, Replacing,
     OneHolder, Resetting, Registering, RegistrationProgress
<1> QED
  BY <1>1, <1>2, <1>3, <1>4 DEF Next

THEOREM Invariant == Spec => []IndInv
BY InitInd, StepInd, PTL DEF Spec

(* The variables keep their types, and a password exists exactly with its  *)
(* account (identity/repository.go).                                       *)
THEOREM TypeCorrect == Spec => []TypeOK
<1>1. IndInv => TypeOK
  BY DEF IndInv
<1> QED
  BY <1>1, Invariant, PTL

(* Rotation never leaves the replaced session alive                        *)
(* (identity/service.go:239-271).                                          *)
THEOREM RotationIsSafe == Spec => []RotationRetires
<1>1. IndInv => RotationRetires
  BY DEF IndInv, RotationRetires, PredecessorDead, Replacing
<1> QED
  BY <1>1, Invariant, PTL

(* However many requests race with one reset token, one resets the         *)
(* password (identity/repository.go:240-264).                              *)
THEOREM ResetOnce == Spec => []ResetTokenOnce
<1>1. IndInv => ResetTokenOnce
  BY DEF IndInv, ResetTokenOnce, OneHolder, Resetting
<1> QED
  BY <1>1, Invariant, PTL

(* A registration that is told "ok" is the only one and has left nothing   *)
(* undone (identity/service.go:95-137).                                    *)
THEOREM RegistrationIsComplete == Spec => []RegistrationComplete
<1>1. IndInv => RegistrationComplete
  BY DEF IndInv, RegistrationComplete, OneHolder, Registering, RegistrationProgress
<1> QED
  BY <1>1, Invariant, PTL

-----------------------------------------------------------------------------
(* A dead session stays dead.                                              *)
LEMMA DeadStaysDead ==
  ASSUME IndInv, [Next]_vars, NEW t \in Tokens, session[t] \in {"revoked", "expired"}
  PROVE  session'[t] \in {"revoked", "expired"}
<1>1. CASE \E r \in Requests : Step(r)
  <2>1. PICK r \in Requests : Step(r)
    BY <1>1
  <2>2. CASE CreateRefreshSession(r)
    BY <2>2 DEF CreateRefreshSession, IndInv, TypeOK, NothingYet
  <2>3. CASE RevokeRefreshSession(r) \/ Logout(r)
    BY <2>3 DEF RevokeRefreshSession, Logout, Revoked, IndInv, TypeOK
  <2>4. CASE RevokeAllUserSessions(r)
    BY <2>4 DEF RevokeAllUserSessions, IndInv, TypeOK
  <2> QED
    BY <2>1, <2>2, <2>3, <2>4 DEF Step, CreateUser, CreateBusiness, GetUserByEmail,
       GetRefreshSession, GetUserByID, VerifyEmail, CreateAuthToken, ConsumeAuthToken, UpdatePassword, database
<1>2. CASE \E r \in Requests : Arrive(r) \/ Abort(r)
  BY <1>2 DEF Arrive, Begin, Abort, database
<1>3. CASE \E q \in Tokens : ExpireSession(q) \/ ExpireToken(q)
  BY <1>3 DEF ExpireSession, ExpireToken, IndInv, TypeOK
<1>4. CASE Suspend \/ UNCHANGED vars
  BY <1>4 DEF Suspend, vars
<1> QED
  BY <1>1, <1>2, <1>3, <1>4 DEF Next

(* One request's steps leave the others where they are.                    *)
LEMMA OthersWait ==
  ASSUME IndInv, NEW r \in Requests, NEW q \in Requests \ {r}, Arrive(q) \/ Step(q) \/ Abort(q)
  PROVE  UNCHANGED <<call[r], pc[r], code[r]>>
<1> USE DEF IndInv, TypeOK
<1>1. CASE Arrive(q)
  BY <1>1 DEF Arrive, Begin, Goto
<1>2. CASE Abort(q)
  BY <1>2 DEF Abort, Answer
<1>3. CASE Step(q)
  BY <1>3 DEF Goto, Answer, Step, CreateUser, CreateBusiness, GetUserByEmail,
     CreateRefreshSession, GetRefreshSession, RevokeRefreshSession, GetUserByID, VerifyEmail,
     Logout, CreateAuthToken, ConsumeAuthToken, UpdatePassword, RevokeAllUserSessions
<1> QED
  BY <1>1, <1>2, <1>3

(* A refresh with a dead token: not past its check, or over and refused.   *)
Refused(r) ==
  /\ call[r].op = "refresh" /\ code[r] # "ok"
  /\ \/ pc[r] = "done"
     \/ pc[r] = "get_session" /\ session[call[r].token] \in {"revoked", "expired"}

LEMMA RefusedStays ==
  ASSUME IndInv, [Next]_vars, NEW r \in Requests, Refused(r)
  PROVE  Refused(r)'
<1>1. call[r].token \in Tokens
  BY DEF IndInv, TypeOK, Call
<1>2. CASE UNCHANGED <<call[r], pc[r], code[r]>>
  BY <1>1, <1>2, DeadStaysDead DEF Refused
<1>3. CASE Step(r)
  BY <1>3 DEF Refused, Step, CreateUser, CreateBusiness, GetUserByEmail, CreateRefreshSession,
     GetRefreshSession, RevokeRefreshSession, GetUserByID, VerifyEmail, Logout, CreateAuthToken,
     ConsumeAuthToken, UpdatePassword, RevokeAllUserSessions, Answer, IndInv, TypeOK
<1>4. CASE Arrive(r)
  BY <1>4 DEF Refused, Arrive, Begin
<1>5. CASE Abort(r)
  BY <1>5 DEF Refused, Abort, Answer, IndInv, TypeOK
<1>6. CASE (\E t \in Tokens : ExpireSession(t) \/ ExpireToken(t)) \/ Suspend \/ UNCHANGED vars
  <2>1. UNCHANGED <<call[r], pc[r], code[r]>>
    BY <1>6 DEF ExpireSession, ExpireToken, Suspend, vars
  <2> QED
    BY <2>1, <1>2
<1> QED
  BY <1>2, <1>3, <1>4, <1>5, <1>6, OthersWait DEF Next

(* Sequential reuse of a retired refresh token always fails                *)
(* (identity/service.go:232-242).                                          *)
THEOREM RetiredTokenAlwaysFails == Spec => RetiredTokenFails
<1> SUFFICES ASSUME NEW r \in Requests
             PROVE  Spec => []( /\ call[r].op = "refresh" /\ pc[r] = "get_session"
                                /\ session[call[r].token] # "live"
                                => [](code[r] # "ok"))
  BY DEF RetiredTokenFails
<1>1. IndInv /\ call[r].op = "refresh" /\ pc[r] = "get_session" /\ session[call[r].token] # "live"
      => Refused(r)
  BY DEF IndInv, TypeOK, Call, NothingYet, PredecessorDead, Refused
<1>2. IndInv /\ [Next]_vars /\ Refused(r) => Refused(r)'
  BY RefusedStays
<1>3. Refused(r) => code[r] # "ok"
  BY DEF Refused
<1> QED
  BY <1>1, <1>2, <1>3, Invariant, PTL DEF Spec

-----------------------------------------------------------------------------
(* A suspended account and a request that has no session and is not about  *)
(* to create one.                                                          *)
Barred(r) ==
  account = "suspended" /\ pc[r] \notin {"create_business", "create_session"} /\ session[r] = "none"

LEMMA BarredStays ==
  ASSUME IndInv, [Next]_vars, NEW r \in Requests, Barred(r)
  PROVE  Barred(r)'
<1> USE DEF IndInv, TypeOK
<1>1. account' = "suspended"
  BY DEF Barred, Next, Arrive, Begin, Step, Abort, CreateUser, CreateBusiness, GetUserByEmail,
     CreateRefreshSession, GetRefreshSession, RevokeRefreshSession, GetUserByID, VerifyEmail, Logout,
     CreateAuthToken, ConsumeAuthToken, UpdatePassword, RevokeAllUserSessions, ExpireSession,
     ExpireToken, Suspend, vars, database
<1>2. session'[r] = "none"
  <2>1. r \in Tokens /\ session[r] = "none" /\ pc[r] # "create_session"
    BY DEF Tokens, Barred
  <2>2. ASSUME NEW q \in Requests, Step(q)
        PROVE  session'[r] = "none"
    <3>1. CASE CreateRefreshSession(q)
      BY <2>1, <3>1 DEF CreateRefreshSession
    <3>2. CASE RevokeRefreshSession(q) \/ Logout(q) \/ RevokeAllUserSessions(q)
      BY <2>1, <3>2 DEF RevokeRefreshSession, Logout, RevokeAllUserSessions, Revoked
    <3> QED
      BY <2>1, <2>2, <3>1, <3>2 DEF Step, CreateUser, CreateBusiness, GetUserByEmail,
         GetRefreshSession, GetUserByID, VerifyEmail, CreateAuthToken, ConsumeAuthToken, UpdatePassword, database
  <2>3. ASSUME NEW q \in Requests, Arrive(q) \/ Abort(q)
        PROVE  session'[r] = "none"
    BY <2>1, <2>3 DEF Arrive, Begin, Abort, database
  <2>4. ASSUME NEW t \in Tokens, ExpireSession(t) \/ ExpireToken(t)
        PROVE  session'[r] = "none"
    BY <2>1, <2>4 DEF ExpireSession, ExpireToken
  <2>5. CASE Suspend \/ UNCHANGED vars
    BY <2>1, <2>5 DEF Suspend, vars
  <2> QED
    BY <2>2, <2>3, <2>4, <2>5 DEF Next
<1>3. pc'[r] \notin {"create_business", "create_session"}
  <2>1. CASE Step(r)
    BY <2>1 DEF Barred, Step, Goto, Answer, CreateUser, CreateBusiness, GetUserByEmail, LoginCode,
       CreateRefreshSession, GetRefreshSession, RevokeRefreshSession, GetUserByID, VerifyEmail, Logout,
       CreateAuthToken, ConsumeAuthToken, UpdatePassword, RevokeAllUserSessions
  <2>2. CASE Arrive(r) \/ Abort(r)
    BY <2>2 DEF Arrive, Begin, Goto, Abort, Answer
  <2>3. CASE UNCHANGED pc[r]
    BY <2>3 DEF Barred
  <2>4. CASE (\E t \in Tokens : ExpireSession(t) \/ ExpireToken(t)) \/ Suspend \/ UNCHANGED vars
    BY <2>4, <2>3 DEF ExpireSession, ExpireToken, Suspend, vars
  <2> QED
    BY <2>1, <2>2, <2>3, <2>4, OthersWait DEF Next
<1> QED
  BY <1>1, <1>2, <1>3 DEF Barred

(* Suspension takes effect for every request not already past its check    *)
(* (identity/service.go:181-183, 249-251).                                 *)
THEOREM SuspensionAlwaysHolds == Spec => SuspensionHolds
<1> SUFFICES ASSUME NEW r \in Requests
             PROVE  Spec => []( /\ account = "suspended" /\ session[r] = "none"
                                /\ pc[r] \notin {"create_business", "create_session"}
                                => [](session[r] = "none"))
  BY DEF SuspensionHolds
<1>1. account = "suspended" /\ session[r] = "none" /\ pc[r] \notin {"create_business", "create_session"}
      => Barred(r)
  BY DEF Barred
<1>2. IndInv /\ [Next]_vars /\ Barred(r) => Barred(r)'
  BY BarredStays
<1>3. Barred(r) => session[r] = "none"
  BY DEF Barred
<1> QED
  BY <1>1, <1>2, <1>3, Invariant, PTL DEF Spec
=============================================================================

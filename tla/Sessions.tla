------------------------------ MODULE Sessions ------------------------------
(***************************************************************************)
(* Registration, login and refresh sessions of one email address           *)
(* (internal/identity: service.go over repository.go).                     *)
(*                                                                         *)
(* Every statement of the identity service is a transaction of its own:    *)
(* nothing holds a lock from one to the next, so the steps of concurrent   *)
(* requests interleave between any two of them.  One request creates at    *)
(* most one session and at most one reset token; both are named by the     *)
(* request that created them.  Password hashing, token generation and the  *)
(* JWT access token have no state and are left out.                        *)
(***************************************************************************)
EXTENDS Integers

CONSTANTS
  MaxRequests, (* bounds the HTTP requests; each is handled once            *)
  Passwords,   (* passwords of at least eight characters                    *)
  NoPassword   (* matches no account: calls without a password, and wrong   *)
               (* ones                                                      *)

ASSUME RequestAssumption == MaxRequests \in Nat
ASSUME PasswordAssumption == NoPassword \notin Passwords

(* Requests are numbered as they arrive; 0 stands for an earlier request,  *)
(* from before the behaviour begins, whose tokens may still be in use.     *)
Requests == 1 .. MaxRequests
Earlier == 0
Tokens == Requests \cup {Earlier}

VARIABLES
  account,      (* users.status of the email's row, "none" without a row    *)
  password,     (* users.password_hash                                      *)
  businesses,   (* registrations that created their business and membership *)
  session,      (* refresh_sessions, by the request that inserted the row   *)
  resetToken,   (* auth_tokens of type password_reset, likewise             *)
  call,         (* what each request asks for                               *)
  pc,           (* the next statement of each request                       *)
  code          (* its answer                                               *)

vars == <<account, password, businesses, session, resetToken, call, pc, code>>
database == <<account, password, businesses, session, resetToken>>

Call == [op : {"none", "register", "login", "refresh", "logout", "forgot", "reset", "verify"},
         token : Tokens, secret : Passwords \cup {NoPassword}]
Statements == {"idle", "create_user", "create_business", "get_user", "create_session",
               "get_session", "revoke", "load_user", "logout", "create_token", "consume",
               "update_password", "revoke_all", "verify", "done"}
Codes == {"none", "ok", "error", "exists", "invalid", "suspended"}

Init ==
  /\ \/ /\ account = "none" /\ password = NoPassword
        /\ session = [t \in Tokens |-> "none"]
        /\ resetToken = [t \in Tokens |-> "none"]
     \/ /\ account = "active" /\ password \in Passwords
        /\ session = [t \in Tokens |-> IF t = Earlier THEN "live" ELSE "none"]
        /\ resetToken = [t \in Tokens |-> IF t = Earlier THEN "fresh" ELSE "none"]
  /\ businesses = {}
  /\ call = [r \in Requests |-> [op |-> "none", token |-> Earlier, secret |-> NoPassword]]
  /\ pc = [r \in Requests |-> "idle"]
  /\ code = [r \in Requests |-> "none"]

-----------------------------------------------------------------------------
Goto(r, s) == pc' = [pc EXCEPT ![r] = s] /\ UNCHANGED code
Answer(r, c) == pc' = [pc EXCEPT ![r] = "done"] /\ code' = [code EXCEPT ![r] = c]

(* Tokens the client holds: those it was answered with.  A reset token     *)
(* reaches its owner outside the API; the handler drops it.                *)
Known == {t \in Tokens : session[t] # "none" /\ (t # Earlier => code[t] = "ok")}
Delivered == {t \in Tokens : resetToken[t] # "none"}

Begin(r, op, token, secret, first) ==
  /\ pc[r] = "idle" /\ \A q \in Requests : q < r => pc[q] # "idle"
  /\ call' = [call EXCEPT ![r] = [op |-> op, token |-> token, secret |-> secret]]
  /\ Goto(r, first)
  /\ UNCHANGED database

Arrive(r) ==
  \/ \E w \in Passwords : Begin(r, "register", Earlier, w, "create_user")
  \/ \E w \in Passwords \cup {NoPassword} : Begin(r, "login", Earlier, w, "get_user")
  \/ \E t \in Known : Begin(r, "refresh", t, NoPassword, "get_session")
  \/ \E t \in Known : Begin(r, "logout", t, NoPassword, "logout")
  \/ Begin(r, "forgot", Earlier, NoPassword, "get_user")
  \/ \E t \in Delivered, w \in Passwords : Begin(r, "reset", t, w, "consume")
  \/ \E t \in Delivered : Begin(r, "verify", t, NoPassword, "verify")

-----------------------------------------------------------------------------
(* Register: three statements, no transaction around them.                 *)

(* Mutant of CreateUser: a lookup in place of the unique index on email.   *)
CreateUserUnchecked(r) ==
  /\ pc[r] = "create_user"
  /\ account' = "active" /\ password' = call[r].secret
  /\ Goto(r, "create_business")
  /\ UNCHANGED <<businesses, session, resetToken, call>>

(* A new user is active.                                                   *)
CreateUser(r) ==
  /\ pc[r] = "create_user"
  /\ \/ /\ account # "none"
        /\ Answer(r, "exists")
        /\ UNCHANGED database
     \/ /\ account = "none"
        /\ account' = "active" /\ password' = call[r].secret
        /\ Goto(r, "create_business")
        /\ UNCHANGED <<businesses, session, resetToken>>
  /\ UNCHANGED call

(* CreateBusinessWithMember: business and owner membership, one commit.    *)
CreateBusiness(r) ==
  /\ pc[r] = "create_business"
  /\ businesses' = businesses \cup {r}
  /\ Goto(r, "create_session")
  /\ UNCHANGED <<account, password, session, resetToken, call>>

-----------------------------------------------------------------------------
(* Login and ForgotPassword begin by reading the user.                     *)

LoginCode(r) ==
  CASE account = "none" \/ call[r].secret # password -> "invalid"
    [] account = "suspended" -> "suspended"
    [] OTHER -> "ok"

GetUserByEmail(r) ==
  /\ pc[r] = "get_user"
  /\ \/ /\ call[r].op = "login" /\ LoginCode(r) = "ok"
        /\ Goto(r, "create_session")
     \/ /\ call[r].op = "login" /\ LoginCode(r) # "ok"
        /\ Answer(r, LoginCode(r))
     \/ /\ call[r].op = "forgot" /\ account = "none"
        /\ Answer(r, "ok")
     \/ /\ call[r].op = "forgot" /\ account # "none"
        /\ Goto(r, "create_token")
  /\ UNCHANGED <<database, call>>

(* The last statement of Register, Login and Refresh.  The row may be      *)
(* there although the call fails afterwards.                               *)
CreateRefreshSession(r) ==
  /\ pc[r] = "create_session"
  /\ session' = [session EXCEPT ![r] = "live"]
  /\ Answer(r, "ok") \/ Answer(r, "error")
  /\ UNCHANGED <<account, password, businesses, resetToken, call>>

-----------------------------------------------------------------------------
(* Refresh: read the session, revoke it, load the user, insert the next.   *)

(* Mutant of GetRefreshSession: revoked sessions are not filtered out.     *)
GetAnySession(r) ==
  /\ pc[r] = "get_session"
  /\ Goto(r, "revoke")
  /\ UNCHANGED <<database, call>>

GetRefreshSession(r) ==
  /\ pc[r] = "get_session"
  /\ \/ session[call[r].token] = "live" /\ Goto(r, "revoke")
     \/ session[call[r].token] # "live" /\ Answer(r, "invalid")
  /\ UNCHANGED <<database, call>>

Revoked(t) == [session EXCEPT ![t] = IF @ = "none" THEN @ ELSE "revoked"]

(* Mutant of RevokeRefreshSession: the old session is kept.                *)
KeepRefreshSession(r) ==
  /\ pc[r] = "revoke"
  /\ Goto(r, "load_user")
  /\ UNCHANGED <<database, call>>

(* The number of rows the UPDATE changed is not looked at.                 *)
RevokeRefreshSession(r) ==
  /\ pc[r] = "revoke"
  /\ session' = Revoked(call[r].token)
  /\ Goto(r, "load_user")
  /\ UNCHANGED <<account, password, businesses, resetToken, call>>

(* Mutant of GetUserByID: the status is not checked.                       *)
GetAnyUser(r) ==
  /\ pc[r] = "load_user"
  /\ Goto(r, "create_session")
  /\ UNCHANGED <<database, call>>

GetUserByID(r) ==
  /\ pc[r] = "load_user"
  /\ \/ account = "suspended" /\ Answer(r, "suspended")
     \/ account # "suspended" /\ Goto(r, "create_session")
  /\ UNCHANGED <<database, call>>

-----------------------------------------------------------------------------
(* Logout answers "ok" whether or not its UPDATE succeeded.                *)
Logout(r) ==
  /\ pc[r] = "logout"
  /\ session' \in {session, Revoked(call[r].token)}
  /\ Answer(r, "ok")
  /\ UNCHANGED <<account, password, businesses, resetToken, call>>

(* ForgotPassword answers "ok" whatever happens.                           *)
CreateAuthToken(r) ==
  /\ pc[r] = "create_token"
  /\ resetToken' \in {resetToken, [resetToken EXCEPT ![r] = "fresh"]}
  /\ Answer(r, "ok")
  /\ UNCHANGED <<account, password, businesses, session, call>>

(* Mutant of ConsumeAuthToken: a SELECT, and the UPDATE later on.          *)
LookUpAuthToken(r) ==
  /\ pc[r] = "consume"
  /\ \/ resetToken[call[r].token] = "fresh" /\ Goto(r, "update_password")
     \/ resetToken[call[r].token] # "fresh" /\ Answer(r, "invalid")
  /\ UNCHANGED <<database, call>>

(* ResetPassword.  Consuming is a single UPDATE ... RETURNING.             *)
ConsumeAuthToken(r) ==
  /\ pc[r] = "consume"
  /\ \/ /\ resetToken[call[r].token] = "fresh"
        /\ resetToken' = [resetToken EXCEPT ![call[r].token] = "consumed"]
        /\ Goto(r, "update_password")
     \/ /\ resetToken[call[r].token] # "fresh"
        /\ Answer(r, "invalid")
        /\ UNCHANGED resetToken
  /\ UNCHANGED <<account, password, businesses, session, call>>

(* Mutant of UpdatePassword: a password the length check should refuse.    *)
UpdatePasswordUnset(r) ==
  /\ pc[r] = "update_password"
  /\ password' = NoPassword
  /\ Goto(r, "revoke_all")
  /\ UNCHANGED <<account, businesses, session, resetToken, call>>

UpdatePassword(r) ==
  /\ pc[r] = "update_password"
  /\ password' = call[r].secret
  /\ Goto(r, "revoke_all")
  /\ UNCHANGED <<account, businesses, session, resetToken, call>>

(* Its error is dropped: "ok" does not say that the sessions are revoked.  *)
RevokeAllUserSessions(r) ==
  /\ pc[r] = "revoke_all"
  /\ session' \in {session,
       [t \in Tokens |-> IF session[t] = "none" THEN "none" ELSE "revoked"]}
  /\ Answer(r, "ok")
  /\ UNCHANGED <<account, password, businesses, resetToken, call>>

(* VerifyEmail consumes tokens of type email_verification only, and the    *)
(* code creates none: a reset token is refused and stays as it is.         *)
VerifyEmail(r) ==
  /\ pc[r] = "verify"
  /\ Answer(r, "invalid")
  /\ UNCHANGED <<database, call>>

-----------------------------------------------------------------------------
(* Time passes: sessions and reset tokens expire.                          *)
ExpireSession(t) ==
  /\ session[t] = "live"
  /\ session' = [session EXCEPT ![t] = "expired"]
  /\ UNCHANGED <<account, password, businesses, resetToken, call, pc, code>>

ExpireToken(t) ==
  /\ resetToken[t] = "fresh"
  /\ resetToken' = [resetToken EXCEPT ![t] = "expired"]
  /\ UNCHANGED <<account, password, businesses, session, call, pc, code>>

(* An operator suspends the account in the database; no API does.          *)
Suspend ==
  /\ account = "active"
  /\ account' = "suspended"
  /\ UNCHANGED <<password, businesses, session, resetToken, call, pc, code>>

(* A statement fails, the request times out or the process dies before it: *)
(* the request ends there and nothing is undone.  Logout and ForgotPassword*)
(* answer "ok" even so, in their own actions.                              *)
Abort(r) ==
  /\ pc[r] \notin {"idle", "done"}
  /\ Answer(r, "error")
  /\ UNCHANGED <<database, call>>

Step(r) ==
  \/ CreateUser(r) \/ CreateBusiness(r) \/ GetUserByEmail(r) \/ CreateRefreshSession(r)
  \/ GetRefreshSession(r) \/ RevokeRefreshSession(r) \/ GetUserByID(r) \/ Logout(r)
  \/ CreateAuthToken(r) \/ ConsumeAuthToken(r) \/ UpdatePassword(r) \/ RevokeAllUserSessions(r)
  \/ VerifyEmail(r)

Next ==
  \/ \E r \in Requests : Arrive(r) \/ Step(r) \/ Abort(r)
  \/ \E t \in Tokens : ExpireSession(t) \/ ExpireToken(t)
  \/ Suspend

Spec == Init /\ [][Next]_vars

-----------------------------------------------------------------------------
(* Properties.                                                             *)

(* The variables have their types, and there is a password exactly where   *)
(* there is an account.                                                    *)
TypeOK ==
  /\ account \in {"none", "active", "suspended"}
  /\ password \in (IF account = "none" THEN {NoPassword} ELSE Passwords)
  /\ businesses \subseteq Requests
  /\ session \in [Tokens -> {"none", "live", "revoked", "expired"}]
  /\ resetToken \in [Tokens -> {"none", "fresh", "consumed", "expired"}]
  /\ call \in [Requests -> Call]
  /\ pc \in [Requests -> Statements]
  /\ code \in [Requests -> Codes]

(* Rotation: a session made by a refresh exists only where the session it  *)
(* replaces is dead, so a chain of rotations has one usable end at most    *)
(* when it does not fork (service.go:239-242).                             *)
RotationRetires ==
  \A r \in Requests :
    call[r].op = "refresh" /\ session[r] # "none" => session[call[r].token] \in {"revoked", "expired"}

(* A reset token resets a password once, however many requests race with   *)
(* it (repository.go:240-264).                                             *)
ResetTokenOnce ==
  \A r, s \in Requests :
    /\ call[r].op = "reset" /\ call[s].op = "reset" /\ call[r].token = call[s].token
    /\ code[r] = "ok" /\ code[s] = "ok"
    => r = s

(* Of racing registrations one gets the address, and one that is told "ok" *)
(* has its business and its session row (service.go:95-137).               *)
RegistrationComplete ==
  \A r \in Requests : call[r].op = "register" /\ code[r] = "ok" =>
    /\ r \in businesses /\ session[r] # "none"
    /\ \A s \in Requests \ {r} : call[s].op = "register" => code[s] # "ok"

(* Reusing a rotated, revoked or expired refresh token fails: a refresh    *)
(* that reads the session after its end is never answered with a new one   *)
(* (test/integration/identity_and_tenancy_test.go:247).                    *)
RetiredTokenFails ==
  \A r \in Requests :
    []( /\ call[r].op = "refresh" /\ pc[r] = "get_session"
        /\ session[call[r].token] # "live"
        => [](code[r] # "ok"))

(* From its suspension on, no request that was not already past the check  *)
(* gives the account a session (service.go:181-183, 249-251).              *)
SuspensionHolds ==
  \A r \in Requests :
    []( /\ account = "suspended" /\ session[r] = "none"
        /\ pc[r] \notin {"create_business", "create_session"}
        => [](session[r] = "none"))

(* What the test's comment says of every reuse, concurrent ones included:  *)
(* a refresh token is exchanged for one successor.                         *)
OneSuccessor ==
  \A r, s \in Requests :
    /\ call[r].op = "refresh" /\ call[s].op = "refresh" /\ call[r].token = call[s].token
    /\ code[r] = "ok" /\ code[s] = "ok"
    => r = s

-----------------------------------------------------------------------------
(* The inductive invariant.                                                *)

(* A request has created nothing before it is done.                        *)
NothingYet ==
  \A r \in Requests : pc[r] # "done" => session[r] = "none" /\ resetToken[r] = "none" /\ code[r] = "none"

(* The call a request makes fits the statement it is at.                   *)
CallFits ==
  \A r \in Requests :
    /\ pc[r] \in {"get_session", "revoke", "load_user"} => call[r].op = "refresh"
    /\ pc[r] \in {"create_user", "create_business"} => call[r].op = "register" /\ call[r].secret \in Passwords
    /\ pc[r] \in {"consume", "update_password"} => call[r].op = "reset" /\ call[r].secret \in Passwords
    /\ pc[r] = "revoke_all" => call[r].op = "reset"
    /\ pc[r] \in {"get_user", "create_token"} => call[r].op \in {"login", "forgot"}
    /\ pc[r] = "create_session" => call[r].op \in {"register", "login", "refresh"}
    /\ pc[r] = "logout" => call[r].op = "logout"
    /\ pc[r] = "verify" => call[r].op = "verify"
    /\ pc[r] = "idle" => call[r].op = "none"

(* From its revocation to its end, a refresh has a dead predecessor.       *)
Replacing(r) ==
  call[r].op = "refresh" /\ (pc[r] \in {"load_user", "create_session"} \/ session[r] # "none")
PredecessorDead ==
  \A r \in Requests :
    /\ Replacing(r) => session[call[r].token] \in {"revoked", "expired"}
    /\ pc[r] \in {"get_session", "revoke"} => session[call[r].token] # "none"

(* One reset holds a consumed token, one registration holds the address.   *)
Resetting(r) ==
  call[r].op = "reset" /\ (pc[r] \in {"update_password", "revoke_all"} \/ code[r] = "ok")
Registering(r) ==
  call[r].op = "register" /\ (pc[r] \in {"create_business", "create_session"} \/ code[r] = "ok")
OneHolder ==
  /\ \A r \in Requests : Resetting(r) => resetToken[call[r].token] = "consumed" /\ account # "none"
  /\ \A r, s \in Requests : Resetting(r) /\ Resetting(s) /\ call[r].token = call[s].token => r = s
  /\ \A r \in Requests : Registering(r) => account # "none"
  /\ \A r, s \in Requests : Registering(r) /\ Registering(s) => r = s
  /\ \A t \in Tokens : resetToken[t] # "none" => account # "none"
  /\ \A r \in Requests : pc[r] = "create_token" => account # "none"

(* The rest of a registration's work, as far as it has come.               *)
RegistrationProgress ==
  \A r \in Requests : call[r].op = "register" =>
    /\ pc[r] = "create_session" => r \in businesses
    /\ code[r] = "ok" => r \in businesses /\ session[r] # "none"

IndInv ==
  TypeOK /\ NothingYet /\ CallFits /\ PredecessorDead /\ OneHolder /\ RegistrationProgress

=============================================================================

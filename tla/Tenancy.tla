------------------------------ MODULE Tenancy ------------------------------
(***************************************************************************)
(* Businesses, memberships and the authority of a request                  *)
(* (internal/businesses: handler.go, service.go, repository.go).           *)
(*                                                                         *)
(* A request under /businesses/{businessId} is authenticated by its access *)
(* token alone, passes ResolveTenant and, for the owner's operations,      *)
(* RequireTenantRole; the repository then checks                           *)
(* the membership again, reads the member concerned and writes.  Each of   *)
(* these is a statement of its own: memberships may change between any two.*)
(* A membership row is named by what inserted it: the business it was      *)
(* founded with, or the request that invited the member.                   *)
(***************************************************************************)
EXTENDS Integers

CONSTANTS
  Businesses, Users,
  Founder,    (* the user who creates each business                         *)
  Seats,      (* names of the rows of members who joined earlier            *)
  InitialMembers, (* what those rows may hold                               *)
  Requests,   (* HTTP requests; each is handled once                        *)
  Calls,      (* what a request may ask for                                 *)
  Fields,     (* the settings a PATCH may set                               *)
  NoRow,      (* the row does not exist                                     *)
  Unset,      (* a PATCH field that is absent, or the first value of one    *)
  NoUser,     (* an email no user has; no token, or none that is valid      *)
  NoCall      (* the request has not come in                                *)

Rows == Businesses \cup Seats \cup Requests
Roles == {"owner", "staff", "admin"}
Statuses == {"active", "invited", "suspended"}
Row == [business : Businesses, user : Users, role : Roles, status : Statuses]
Settings == [Fields -> Requests \cup {Unset}]

(* op "record" stands for the operations of the customers, products and    *)
(* inventory routers, which rely on ResolveTenant alone.                   *)
OwnerOps == {"update_business", "invite", "update_member", "remove_member"}
Ops == OwnerOps \cup {"record", "list"}
Call == [op : Ops, caller : Users \cup {NoUser}, business : Businesses,
         target : Rows \cup Users \cup {NoUser}, role : Roles \cup {Unset},
         status : Statuses \cup {Unset}, fields : SUBSET Fields]

ASSUME RowsApart ==
  /\ Businesses \cap Seats = {} /\ Businesses \cap Requests = {} /\ Seats \cap Requests = {}
  /\ NoRow \notin Row /\ NoRow \notin Settings /\ NoUser \notin Users
  /\ NoCall \notin Call
  /\ Unset \notin Roles \cup Statuses \cup Requests
ASSUME FounderAssumption == Founder \in [Businesses -> Users]
ASSUME MemberAssumption ==
  InitialMembers \subseteq {f \in [Seats -> Row \cup {NoRow}] :
    /\ \A s, t \in Seats : f[s] # NoRow /\ f[t] # NoRow /\ s # t =>
         f[s].business # f[t].business \/ f[s].user # f[t].user
    /\ \A s \in Seats : f[s] # NoRow => f[s].user # Founder[f[s].business]}
ASSUME CallAssumption ==
  /\ Calls \subseteq Call
  /\ \A c \in Calls :
       /\ c.op = "invite" => c.role \in Roles /\ c.target \in Users \cup {NoUser}
       /\ c.op \in {"update_member", "remove_member"} => c.target \in Rows

VARIABLES
  settings,     (* businesses row: who set each field last; NoRow without   *)
  membership,   (* memberships rows                                         *)
  call,         (* what each request asks for                               *)
  pc,           (* the next statement of each request                       *)
  seen,         (* the membership row the request read in "fetch"           *)
  loaded,       (* the business row it read in "check"                      *)
  code,         (* its answer                                               *)
  held          (* history: the authority its caller has had, at any moment *)
                (* while the request was under way                          *)

vars == <<settings, membership, call, pc, seen, loaded, code, held>>
database == <<settings, membership>>
local == <<call, seen, loaded>>

Steps == {"idle", "resolve", "check", "fetch", "write", "done"}
Codes == {"none", "ok", "unauthenticated", "forbidden", "unauthorized", "not_found",
          "exists", "owner_kept", "error"}

FoundingRow(b) == [business |-> b, user |-> Founder[b], role |-> "owner", status |-> "active"]

Init ==
  \E f \in InitialMembers, open \in SUBSET Businesses :
    /\ \A s \in Seats : f[s] # NoRow => f[s].business \in open
    /\ settings = [b \in Businesses |-> IF b \in open THEN [x \in Fields |-> Unset] ELSE NoRow]
    /\ membership = [i \in Rows |-> IF i \in open THEN FoundingRow(i)
                                    ELSE IF i \in Seats THEN f[i] ELSE NoRow]
    /\ call = [r \in Requests |-> NoCall]
    /\ pc = [r \in Requests |-> "idle"]
    /\ seen = [r \in Requests |-> NoRow]
    /\ loaded = [r \in Requests |-> NoRow]
    /\ code = [r \in Requests |-> "none"]
    /\ held = [r \in Requests |-> {}]

-----------------------------------------------------------------------------
Goto(r, s) == pc' = [pc EXCEPT ![r] = s] /\ UNCHANGED code
Answer(r, c) == pc' = [pc EXCEPT ![r] = "done"] /\ code' = [code EXCEPT ![r] = c]

(* Mutant of RolesOf: the query does not ask for an active membership.     *)
RolesOfAnyStatus(u, b) ==
  {membership[i].role : i \in {j \in Rows : /\ membership[j] # NoRow
                                            /\ membership[j].business = b /\ membership[j].user = u}}

(* The role of the user's active membership, if there is one.              *)
RolesOf(u, b) ==
  {membership[i].role : i \in {j \in Rows : /\ membership[j] # NoRow
                                            /\ membership[j].business = b /\ membership[j].user = u
                                            /\ membership[j].status = "active"}}

(* Mutant of Scoped: the row is looked up by its id alone.                 *)
Unscoped(r) == membership[call[r].target] # NoRow

(* WHERE id = $1 AND business_id = $2.                                     *)
Scoped(r) ==
  /\ membership[call[r].target] # NoRow
  /\ membership[call[r].target].business = call[r].business

-----------------------------------------------------------------------------
(* One transaction: the business with its owner (also called by Register). *)
CreateBusinessWithMember(b) ==
  /\ settings[b] = NoRow
  /\ settings' = [settings EXCEPT ![b] = [x \in Fields |-> Unset]]
  /\ membership' = [membership EXCEPT ![b] = FoundingRow(b)]
  /\ UNCHANGED <<local, pc, code>>

(* Signature and expiry of the access token; nothing stored is looked at.  *)
TokenValid(c) == c.caller # NoUser

(* Authenticate and RequireAuth.                                           *)
Authenticate(r, c) ==
  /\ pc[r] = "idle"
  /\ call' = [call EXCEPT ![r] = c]
  /\ \/ ~TokenValid(c) /\ Answer(r, "unauthenticated")
     \/ TokenValid(c) /\ Goto(r, "resolve")
  /\ UNCHANGED <<database, seen, loaded>>

(* ResolveTenant, and RequireTenantRole("owner") where the route has it.   *)
ResolveTenant(r) ==
  /\ pc[r] = "resolve"
  /\ LET roles == RolesOf(call[r].caller, call[r].business)
         admitted == IF call[r].op \in OwnerOps THEN "owner" \in roles ELSE roles # {}
     IN  \/ ~admitted /\ Answer(r, "forbidden")
         \/ admitted /\ Goto(r, IF call[r].op = "record" THEN "write" ELSE "check")
  /\ UNCHANGED <<database, local>>

(* The repository's own check.  It loads the business as well.             *)
GetBusinessByID(r) ==
  /\ pc[r] = "check"
  /\ LET roles == RolesOf(call[r].caller, call[r].business)
     IN  \/ /\ roles = {}
            /\ Answer(r, "error") /\ UNCHANGED loaded
         \/ /\ roles # {} /\ call[r].op \in OwnerOps /\ "owner" \notin roles
            /\ Answer(r, "unauthorized") /\ UNCHANGED loaded
         \/ /\ roles # {} /\ (call[r].op \in OwnerOps => "owner" \in roles)
            /\ loaded' = [loaded EXCEPT ![r] = settings[call[r].business]]
            /\ Goto(r, IF call[r].op \in {"update_member", "remove_member"} THEN "fetch" ELSE "write")
  /\ UNCHANGED <<database, call, seen>>

(* Mutant of FetchMember: an owner may be given another role.              *)
FetchMemberUnguarded(r) ==
  /\ pc[r] = "fetch"
  /\ \/ ~Scoped(r) /\ Answer(r, "not_found") /\ UNCHANGED seen
     \/ /\ Scoped(r)
        /\ seen' = [seen EXCEPT ![r] = membership[call[r].target]]
        /\ Goto(r, "write")
  /\ UNCHANGED <<database, call, loaded>>

(* UpdateMember and RemoveMember read the member first: an owner is not    *)
(* removed and keeps its role.                                             *)
FetchMember(r) ==
  /\ pc[r] = "fetch"
  /\ LET c == call[r]
         refused == /\ membership[c.target].role = "owner"
                    /\ c.op = "remove_member" \/ c.role \notin {"owner", Unset}
     IN  \/ ~Scoped(r) /\ Answer(r, "not_found") /\ UNCHANGED seen
         \/ Scoped(r) /\ refused /\ Answer(r, "owner_kept") /\ UNCHANGED seen
         \/ /\ Scoped(r) /\ ~refused
            /\ seen' = [seen EXCEPT ![r] = membership[c.target]]
            /\ Goto(r, "write")
  /\ UNCHANGED <<database, call, loaded>>

-----------------------------------------------------------------------------
(* The last statement of each operation.                                   *)

(* Every column is written: what the request names, and what it read.      *)
UpdateBusiness(r) ==
  /\ pc[r] = "write" /\ call[r].op = "update_business"
  /\ settings' = [settings EXCEPT ![call[r].business] =
       [x \in Fields |-> IF x \in call[r].fields THEN r ELSE loaded[r][x]]]
  /\ Answer(r, "ok")
  /\ UNCHANGED <<membership, local>>

(* Mutant of InviteMember: no unique (business_id, user_id).               *)
InviteMemberTwice(r) ==
  /\ pc[r] = "write" /\ call[r].op = "invite" /\ call[r].target # NoUser
  /\ membership' = [membership EXCEPT ![r] =
       [business |-> call[r].business, user |-> call[r].target,
        role |-> call[r].role, status |-> "invited"]]
  /\ Answer(r, "ok")
  /\ UNCHANGED <<settings, local>>

(* The user must exist; uq_memberships_business_user refuses a second row. *)
InviteMember(r) ==
  /\ pc[r] = "write" /\ call[r].op = "invite"
  /\ LET c == call[r]
         member == \E i \in Rows : /\ membership[i] # NoRow
                                   /\ membership[i].business = c.business
                                   /\ membership[i].user = c.target
     IN  \/ c.target = NoUser /\ Answer(r, "error") /\ UNCHANGED membership
         \/ c.target # NoUser /\ member /\ Answer(r, "exists") /\ UNCHANGED membership
         \/ /\ c.target # NoUser /\ ~member
            /\ membership' = [membership EXCEPT ![r] =
                 [business |-> c.business, user |-> c.target, role |-> c.role, status |-> "invited"]]
            /\ Answer(r, "ok")
  /\ UNCHANGED <<settings, local>>

(* Mutant of Updated: an absent field overwrites.                          *)
UpdatedBlindly(r) == [seen[r] EXCEPT !.role = call[r].role, !.status = call[r].status]

(* What UpdateMember writes: the row as read, with the changes asked for.  *)
Updated(r) ==
  [seen[r] EXCEPT !.role = IF call[r].role = Unset THEN @ ELSE call[r].role,
                  !.status = IF call[r].status = Unset THEN @ ELSE call[r].status]

(* Mutant of UpdateMember: INSERT ... ON CONFLICT DO UPDATE.               *)
UpsertMember(r) ==
  /\ pc[r] = "write" /\ call[r].op = "update_member"
  /\ membership' = [membership EXCEPT ![call[r].target] = Updated(r)]
  /\ Answer(r, "ok")
  /\ UNCHANGED <<settings, local>>

(* Neither of the two looks at the number of rows it changed.              *)
UpdateMember(r) ==
  /\ pc[r] = "write" /\ call[r].op = "update_member"
  /\ membership' = [membership EXCEPT ![call[r].target] = IF Scoped(r) THEN Updated(r) ELSE @]
  /\ Answer(r, "ok")
  /\ UNCHANGED <<settings, local>>

RemoveMember(r) ==
  /\ pc[r] = "write" /\ call[r].op = "remove_member"
  /\ membership' = [membership EXCEPT ![call[r].target] = IF Scoped(r) THEN NoRow ELSE @]
  /\ Answer(r, "ok")
  /\ UNCHANGED <<settings, local>>

(* ListMembers, and what the other routers do with the tenant: no          *)
(* membership changes.                                                     *)
UseTenant(r) ==
  /\ pc[r] = "write" /\ call[r].op \in {"list", "record"}
  /\ Answer(r, "ok")
  /\ UNCHANGED <<database, local>>

(* A statement fails or the request ends early; nothing is undone.         *)
Abort(r) ==
  /\ pc[r] \notin {"idle", "done"}
  /\ Answer(r, "error")
  /\ UNCHANGED <<database, local>>

-----------------------------------------------------------------------------
(* What an active membership entitles to.                                  *)
Authority(c) ==
  LET active == {i \in Rows : /\ membership[i] # NoRow
                             /\ membership[i].business = c.business
                             /\ membership[i].user = c.caller
                             /\ membership[i].status = "active"}
  IN  {"member" : i \in active} \cup ({membership[i].role : i \in active} \cap {"owner"})

(* The history variable: what the caller of a request is entitled to in    *)
(* any of the states in which the request is under way.                    *)
Observe ==
  held' = [r \in Requests |-> IF pc'[r] \in {"idle", "done"} THEN held[r]
                              ELSE held[r] \cup Authority(call[r])']

Step(r) ==
  \/ ResolveTenant(r) \/ GetBusinessByID(r) \/ FetchMember(r)
  \/ UpdateBusiness(r) \/ InviteMember(r) \/ UpdateMember(r) \/ RemoveMember(r) \/ UseTenant(r)

Next ==
  /\ \/ \E b \in Businesses : CreateBusinessWithMember(b)
     \/ \E r \in Requests : (\E c \in Calls : Authenticate(r, c)) \/ Step(r) \/ Abort(r)
  /\ Observe

Spec == Init /\ [][Next]_vars

-----------------------------------------------------------------------------
(* Properties.                                                             *)

(* The variables have their types: no update, from however stale a read,   *)
(* writes a role or a status that is none (repository.go:347-363).         *)
TypeOK ==
  /\ settings \in [Businesses -> Settings \cup {NoRow}]
  /\ membership \in [Rows -> Row \cup {NoRow}]
  /\ call \in [Requests -> Calls \cup {NoCall}]
  /\ pc \in [Requests -> Steps]
  /\ seen \in [Requests -> Row \cup {NoRow}]
  /\ loaded \in [Requests -> Settings \cup {NoRow}]
  /\ code \in [Requests -> Codes]
  /\ held \in [Requests -> SUBSET {"member", "owner"}]

(* However invitations race, a user has one membership in a business, so   *)
(* one role (repository.go:282-296).                                       *)
OneMembership ==
  \A i, j \in Rows :
    /\ membership[i] # NoRow /\ membership[j] # NoRow
    /\ membership[i].business = membership[j].business /\ membership[i].user = membership[j].user
    => i = j

(* No interleaving of updates and removals leaves a business without an    *)
(* owner (repository.go:344, 390-392).                                     *)
EveryBusinessHasOwner ==
  \A b \in Businesses : settings[b] # NoRow =>
    \E i \in Rows : membership[i] # NoRow /\ membership[i].business = b /\ membership[i].role = "owner"

(* A request succeeds only if its caller was an active member of the       *)
(* business while it was handled, an active owner for an owner's operation *)
(* (handler.go:69-95, auth_middleware.go:44-69): an invitation, a          *)
(* suspended or a removed membership opens nothing.                        *)
AuthorityHeld ==
  \A r \in Requests : code[r] = "ok" =>
    (IF call[r].op \in OwnerOps THEN "owner" ELSE "member") \in held[r]

-----------------------------------------------------------------------------
(* The inductive invariant behind these, and its parts.                    *)

(* Every membership is one of a business that exists.                      *)
MembersOfBusinesses ==
  \A i \in Rows : membership[i] # NoRow => settings[membership[i].business] # NoRow

(* The row a business was founded with is there as long as the business    *)
(* and stays an owner's: no request has ever read it as anything else.     *)
FounderStays ==
  \A b \in Businesses :
    IF settings[b] = NoRow THEN membership[b] = NoRow
    ELSE membership[b] # NoRow /\ membership[b].business = b /\ membership[b].role = "owner"

(* A request that is not over has no answer and has inserted nothing.      *)
NothingYet ==
  \A r \in Requests :
    /\ pc[r] = "idle" <=> call[r] = NoCall
    /\ pc[r] # "done" => code[r] = "none" /\ membership[r] = NoRow

(* Behind the middleware the business exists and the caller has been       *)
(* entitled to the operation; only operations on a member fetch one.       *)
Admitted ==
  \A r \in Requests : pc[r] \in {"check", "fetch", "write"} =>
    /\ settings[call[r].business] # NoRow
    /\ (IF call[r].op \in OwnerOps THEN "owner" ELSE "member") \in held[r]
    /\ pc[r] = "fetch" => call[r].op \in {"update_member", "remove_member"}
    /\ pc[r] = "write" /\ call[r].op = "update_business" => loaded[r] # NoRow

(* What a request that writes to a member has read: of this business, and  *)
(* while the row is there it is the same user's.  The row is not inserted  *)
(* again, and no founder's is about to be removed or demoted.              *)
ReadOfMember(r) ==
  LET i == call[r].target
  IN  /\ seen[r] # NoRow /\ seen[r].business = call[r].business
      /\ membership[i] # NoRow =>
           membership[i].business = seen[r].business /\ membership[i].user = seen[r].user
      /\ i \in Requests => pc[i] = "done"
      /\ i \in Businesses =>
           /\ settings[i] # NoRow /\ seen[r].role = "owner"
           /\ call[r].op = "update_member" /\ call[r].role \in {"owner", Unset}

MembersRead ==
  \A r \in Requests :
    pc[r] = "write" /\ call[r].op \in {"update_member", "remove_member"} => ReadOfMember(r)

(* What the code keeps true at every statement.                            *)
IndInv ==
  /\ TypeOK /\ MembersOfBusinesses /\ FounderStays /\ NothingYet /\ Admitted /\ MembersRead
  /\ OneMembership /\ AuthorityHeld

-----------------------------------------------------------------------------
(* A request changes no membership and no settings of another business     *)
(* than the one its caller was authorized for, whatever member id it names *)
(* (repository.go:331, 359, 394).                                          *)
TenantIsolation ==
  [][\A r \in Requests : pc[r] = "write" /\ pc'[r] = "done" =>
       /\ \A b \in Businesses : settings'[b] # settings[b] => b = call[r].business
       /\ \A i \in Rows : membership'[i] # membership[i] =>
            \A m \in {membership[i], membership'[i]} : m # NoRow => m.business = call[r].business
    ]_<<settings, membership, pc, call>>

(* A removed member stays removed: an update that read the row before it   *)
(* was deleted does not bring it back (repository.go:358-363, 394).        *)
NoResurrection ==
  [][\A i \in Seats \cup {r \in Requests : pc[r] = "done"} :
       membership[i] = NoRow => membership'[i] = NoRow]_<<membership, pc>>

(* What ErrCannotRemoveOwner says (models.go:14): no owner is removed.     *)
OwnerNotRemoved ==
  [][\A i \in Rows : membership[i] # NoRow /\ membership[i].role = "owner" =>
       membership'[i] # NoRow]_membership

=============================================================================

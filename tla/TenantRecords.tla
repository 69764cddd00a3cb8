--------------------------- MODULE TenantRecords ---------------------------
(***************************************************************************)
(* The customers and products routers under their tenant: Tenancy decides  *)
(* who is admitted to a business, Records does what an admitted request    *)
(* asks for, and an owner changes the members meanwhile                    *)
(* (internal/businesses/handler.go Routes and ResolveTenant over the       *)
(* handlers of internal/customers and internal/catalog).                   *)
(*                                                                         *)
(* A record request has two halves: tpc says how far the middleware has    *)
(* got, and while that waits in "write" for the handler, pc says how far   *)
(* the handler has got.  The business the middleware resolved reaches the  *)
(* statements as call[r].business.                                         *)
(***************************************************************************)
EXTENDS Records

CONSTANTS Users, Founder, Seats, InitialMembers, Unset, NoUser, (* as in Tenancy *)
          Managers,    (* the requests that change members                  *)
          TenantCalls  (* what both kinds of request ask the middleware for *)

VARIABLES
  settings, membership,              (* the tables of Tenancy               *)
  tcall, tpc, seen, tloaded, tcode,  (* its handlers' variables             *)
  held                               (* its history                         *)

tenantVars == <<settings, membership, tcall, tpc, seen, tloaded, tcode, held>>

T == INSTANCE Tenancy WITH
  Requests <- Requests \cup Managers, Calls <- TenantCalls,
  call <- tcall, pc <- tpc, loaded <- tloaded, code <- tcode

(* What Tenancy assumes of its constants.                                  *)
ASSUME TenancyAssumption ==
  T!RowsApart /\ T!FounderAssumption /\ T!MemberAssumption /\ T!CallAssumption
ASSUME ManagersApart == Managers \cap (Requests \cup Existing) = {}

(* Every row that exists belongs to a business that does.                  *)
TenantInit ==
  /\ Init
  /\ T!Init
  /\ \A i \in Existing : settings[Made[i].business] # NoRow

-----------------------------------------------------------------------------
(* The middleware of a record request, up to the handler.                  *)
Admit(r) ==
  /\ \/ \E c \in TenantCalls : c.op = "record" /\ T!Authenticate(r, c)
     \/ T!ResolveTenant(r)
     \/ tpc[r] = "resolve" /\ T!Abort(r)
  /\ UNCHANGED vars

(* Mutant of Enter: the business is taken from the request's body.         *)
EnterAnyBusiness(r) ==
  /\ tpc[r] = "write"
  /\ \E c \in Calls : Arrive(r, c)

(* The handler takes the business from the tenant context.                 *)
Enter(r) ==
  /\ tpc[r] = "write"
  /\ \E c \in Calls : c.business = tcall[r].business /\ Arrive(r, c)

(* A step of the handler.  With its last one the middleware is done too.   *)
Serve(r) ==
  /\ Enter(r) \/ Step(r) \/ Abort(r)
  /\ IF pc'[r] = "done" THEN T!UseTenant(r)
     ELSE UNCHANGED <<settings, membership, tcall, tpc, seen, tloaded, tcode>>

Manage(m) ==
  /\ \/ \E c \in TenantCalls : c.op # "record" /\ T!Authenticate(m, c)
     \/ T!Step(m)
     \/ T!Abort(m)
  /\ UNCHANGED vars

TenantNext ==
  /\ \/ \E r \in Requests : Admit(r) \/ Serve(r)
     \/ \E m \in Managers : Manage(m)
  /\ T!Observe

TenantSpec == TenantInit /\ [][TenantNext]_<<vars, tenantVars>>

-----------------------------------------------------------------------------
(* Properties.                                                             *)

(* What a request has read is a row of the business its caller was an      *)
(* active member of while it was handled, whatever id it asked for and     *)
(* however the membership changed after ResolveTenant looked               *)
(* (businesses/handler.go:69-95, catalog/repository.go:126-137).           *)
ReadsWithinTenant ==
  \A r \in Requests : loaded[r] # NoRow =>
    loaded[r].business = tcall[r].business /\ "member" \in held[r]

(* A row changes only by a request whose caller was, while it was handled, *)
(* an active member of the business the row belongs to, and it never moves *)
(* to another business (catalog/repository.go:222-224, 253).               *)
WritesWithinTenant ==
  [][\A i \in Ids : row'[i] # row[i] =>
       /\ row[i] # NoRow => row'[i].business = row[i].business
       /\ \E r \in Requests : /\ pc'[r] # pc[r]
                              /\ tcall[r].business = row'[i].business
                              /\ "member" \in held[r]]_<<row, pc>>

-----------------------------------------------------------------------------
(* The inductive invariant behind these, and its parts.                    *)

Handlers == Requests \cup Managers

(* The types of what the middleware keeps for a request.                   *)
MiddlewareOK ==
  /\ tcall \in [Handlers -> TenantCalls \cup {NoCall}]
  /\ tpc \in [Handlers -> T!Steps]
  /\ held \in [Handlers -> SUBSET {"member", "owner"}]

(* What the caller is entitled to now is in the history already.           *)
HeldNow ==
  \A r \in Handlers : tpc[r] \notin {"idle", "done"} => T!Authority(tcall[r]) \subseteq held[r]

(* The handler works only behind the middleware, for a caller who has been *)
(* a member, in the business the middleware was asked for; so what it has  *)
(* read is of that business.                                               *)
Tenanted ==
  \A r \in Requests :
    /\ tpc[r] # "idle" => tcall[r].op = "record"
    /\ tpc[r] \in {"idle", "resolve"} => pc[r] = "idle"
    /\ pc[r] \notin {"idle", "done"} => tpc[r] = "write"
    /\ tpc[r] = "write" => "member" \in held[r]
    /\ pc[r] # "idle" => call[r].business = tcall[r].business /\ "member" \in held[r]
    /\ loaded[r] # NoRow => pc[r] # "idle" /\ loaded[r].business = call[r].business

(* What the code keeps true at every statement of either half.             *)
TenantIndInv == IndInv /\ MiddlewareOK /\ HeldNow /\ Tenanted

=============================================================================

------------------------ MODULE TenantRecordsProofs ------------------------
(***************************************************************************)
(* The composition implements both its halves: what RecordsProofs shows of *)
(* the records holds of it, and its steps are steps of Tenancy.  And a     *)
(* record request stays in the tenant its caller was admitted to, for any  *)
(* number of requests and managers, and any members, rows and calls.       *)
(***************************************************************************)
EXTENDS TenantRecords, RecordsProofs

-----------------------------------------------------------------------------
(* The history of authority.                                               *)

(* It only grows, and holds what the callers are entitled to now.          *)
LEMMA HeldGrows ==
  ASSUME MiddlewareOK, tpc' \in [Handlers -> T!Steps], T!Observe
  PROVE  /\ held' \in [Handlers -> SUBSET {"member", "owner"}]
         /\ HeldNow'
         /\ \A r \in Handlers : held[r] \subseteq held'[r]
<1>1. \A r \in Handlers : T!Authority(tcall[r])' \subseteq {"member", "owner"}
  BY DEF T!Authority
<1>2. held' = [r \in Handlers |-> IF tpc'[r] \in {"idle", "done"} THEN held[r]
                                  ELSE held[r] \cup T!Authority(tcall[r])']
  BY DEF T!Observe, Handlers
<1> QED
  BY <1>1, <1>2 DEF MiddlewareOK, HeldNow

(* Nothing is added while members, calls and progress stay the same.       *)
LEMMA HeldKept ==
  ASSUME MiddlewareOK, HeldNow, T!Observe, UNCHANGED <<membership, tcall, tpc>>
  PROVE  held' = held
<1>1. held' = [r \in Handlers |-> IF tpc'[r] \in {"idle", "done"} THEN held[r]
                                  ELSE held[r] \cup T!Authority(tcall[r])']
  BY DEF T!Observe, Handlers
<1>2. \A r \in Handlers : T!Authority(tcall[r])' = T!Authority(tcall[r])
  BY DEF T!Authority, T!Rows
<1>3. \A r \in Handlers : held'[r] = held[r]
  BY <1>1, <1>2 DEF HeldNow
<1> QED
  BY <1>1, <1>3 DEF MiddlewareOK

-----------------------------------------------------------------------------
(* What the steps of each half do to the other.                            *)

(* The handler's steps are behind the middleware, which is done with the   *)
(* last of them.                                                           *)
LEMMA ServeEffect ==
  ASSUME TenantIndInv, NEW r \in Requests, Serve(r)
  PROVE  /\ tpc[r] = "write" /\ UNCHANGED <<settings, membership, tcall>>
         /\ tpc' \in [Handlers -> T!Steps]
         /\ tpc'[r] = IF pc'[r] = "done" THEN "done" ELSE "write"
         /\ \A q \in Handlers \ {r} : tpc'[q] = tpc[q]
         /\ (\E c \in Calls : Arrive(r, c)) \/ Step(r) \/ Abort(r)
<1>1. (\E c \in Calls : Arrive(r, c)) \/ Step(r) \/ Abort(r)
  BY DEF Serve, Enter
<1>2. tpc[r] = "write"
  <2>1. pc[r] \notin {"idle", "done"} => tpc[r] = "write"
    BY DEF TenantIndInv, Tenanted
  <2>2. CASE Enter(r)
    BY <2>2 DEF Enter
  <2>3. CASE Step(r) \/ Abort(r)
    BY <2>1, <2>3 DEF Step, Create, Load, Store, Archive, Audit, Abort
  <2> QED
    BY <2>2, <2>3 DEF Serve
<1>3. CASE pc'[r] = "done"
  <2>1. T!UseTenant(r)
    BY <1>3 DEF Serve
  <2>2. tpc' = [tpc EXCEPT ![r] = "done"] /\ UNCHANGED <<settings, membership, tcall>>
    BY <2>1 DEF T!UseTenant, T!Answer, T!database, T!local
  <2> QED
    BY <1>1, <1>2, <1>3, <2>2 DEF TenantIndInv, MiddlewareOK, T!Steps, Handlers
<1>4. CASE pc'[r] # "done"
  <2>1. UNCHANGED <<settings, membership, tcall, tpc>>
    BY <1>4 DEF Serve
  <2> QED
    BY <1>1, <1>2, <1>4, <2>1 DEF TenantIndInv, MiddlewareOK, T!Steps, Handlers
<1> QED
  BY <1>3, <1>4

(* The middleware admits a record request only if its caller is a member.  *)
LEMMA AdmitEffect ==
  ASSUME TenantIndInv, NEW r \in Requests, Admit(r)
  PROVE  /\ UNCHANGED <<vars, settings, membership>>
         /\ tcall' \in [Handlers -> TenantCalls \cup {NoCall}]
         /\ tpc' \in [Handlers -> T!Steps]
         /\ \A q \in Handlers \ {r} : tpc'[q] = tpc[q] /\ tcall'[q] = tcall[q]
         /\ tpc[r] \in {"idle", "resolve"} /\ tpc'[r] \in {"resolve", "write", "done"}
         /\ tcall'[r].op = "record"
         /\ tpc'[r] = "write" => "member" \in held[r]
<1> USE DEF TenantIndInv, MiddlewareOK
<1>1. r \in Handlers
  BY DEF Handlers
<1>2. CASE \E c \in TenantCalls : c.op = "record" /\ T!Authenticate(r, c)
  <2>1. PICK c \in TenantCalls : c.op = "record" /\ T!Authenticate(r, c)
    BY <1>2
  <2>2. /\ tpc[r] = "idle" /\ tcall' = [tcall EXCEPT ![r] = c]
        /\ UNCHANGED <<settings, membership>>
        /\ \E s \in {"resolve", "done"} : tpc' = [tpc EXCEPT ![r] = s]
    BY <2>1 DEF T!Authenticate, T!Answer, T!Goto, T!database
  <2> QED
    BY <1>1, <2>1, <2>2 DEF Admit, T!Steps
<1>3. CASE T!ResolveTenant(r)
  <2>1. /\ tpc[r] = "resolve" /\ UNCHANGED <<settings, membership, tcall>>
        /\ tcall[r].op = "record"
    BY <1>3 DEF T!ResolveTenant, T!database, T!local, Tenanted
  <2>2. \/ tpc' = [tpc EXCEPT ![r] = "done"]
        \/ /\ tpc' = [tpc EXCEPT ![r] = "write"]
           /\ T!RolesOf(tcall[r].caller, tcall[r].business) # {}
    BY <1>3, <2>1 DEF T!ResolveTenant, T!OwnerOps, T!Answer, T!Goto
  <2>3. T!RolesOf(tcall[r].caller, tcall[r].business) # {} => "member" \in T!Authority(tcall[r])
    BY DEF T!RolesOf, T!Authority
  <2>4. T!Authority(tcall[r]) \subseteq held[r]
    BY <1>1, <2>1 DEF HeldNow
  <2> QED
    BY <1>1, <2>1, <2>2, <2>3, <2>4 DEF Admit, T!Steps
<1>4. CASE tpc[r] = "resolve" /\ T!Abort(r)
  <2>1. tpc' = [tpc EXCEPT ![r] = "done"] /\ UNCHANGED <<settings, membership, tcall>>
    BY <1>4 DEF T!Abort, T!Answer, T!database, T!local
  <2> QED
    BY <1>1, <1>4, <2>1 DEF Admit, T!Steps, Tenanted
<1> QED
  BY <1>2, <1>3, <1>4 DEF Admit

(* A manager's request leaves the record requests alone.                   *)
LEMMA ManageEffect ==
  ASSUME TenantIndInv, NEW m \in Managers, Manage(m)
  PROVE  /\ UNCHANGED vars
         /\ tcall' \in [Handlers -> TenantCalls \cup {NoCall}]
         /\ tpc' \in [Handlers -> T!Steps]
         /\ \A q \in Requests : tpc'[q] = tpc[q] /\ tcall'[q] = tcall[q]
<1> USE DEF TenantIndInv, MiddlewareOK
<1>1. m \in Handlers /\ m \notin Requests
  BY ManagersApart DEF Handlers
<1>2. \E s \in T!Steps : tpc' = [tpc EXCEPT ![m] = s]
  <2>1. CASE \E c \in TenantCalls : T!Authenticate(m, c)
    BY <2>1 DEF T!Authenticate, T!Answer, T!Goto, T!Steps
  <2>2. CASE T!ResolveTenant(m)
    BY <2>2 DEF T!ResolveTenant, T!Answer, T!Goto, T!Steps
  <2>3. CASE T!GetBusinessByID(m)
    BY <2>3 DEF T!GetBusinessByID, T!Answer, T!Goto, T!Steps
  <2>4. CASE T!FetchMember(m)
    BY <2>4 DEF T!FetchMember, T!Answer, T!Goto, T!Steps
  <2>5. CASE T!InviteMember(m)
    BY <2>5 DEF T!InviteMember, T!Answer, T!Steps
  <2>6. CASE T!UpdateBusiness(m) \/ T!UpdateMember(m) \/ T!RemoveMember(m)
    BY <2>6 DEF T!UpdateBusiness, T!UpdateMember, T!RemoveMember, T!Answer, T!Steps
  <2>7. CASE T!UseTenant(m) \/ T!Abort(m)
    BY <2>7 DEF T!UseTenant, T!Abort, T!Answer, T!Steps
  <2> QED
    BY <2>1, <2>2, <2>3, <2>4, <2>5, <2>6, <2>7 DEF Manage, T!Step
<1>3. tcall' = tcall \/ \E c \in TenantCalls : tcall' = [tcall EXCEPT ![m] = c]
  <2>1. T!Step(m) \/ T!Abort(m) => tcall' = tcall
    BY DEF T!Step, T!ResolveTenant, T!GetBusinessByID, T!FetchMember, T!InviteMember, T!UpdateBusiness,
       T!UpdateMember, T!RemoveMember, T!UseTenant, T!Abort, T!local
  <2>2. \A c \in TenantCalls : T!Authenticate(m, c) => tcall' = [tcall EXCEPT ![m] = c]
    BY DEF T!Authenticate
  <2> QED
    BY <2>1, <2>2 DEF Manage
<1> QED
  BY <1>1, <1>2, <1>3 DEF Manage, Handlers

-----------------------------------------------------------------------------
LEMMA TenantInitInd == TenantInit => TenantIndInv
<1> SUFFICES ASSUME TenantInit PROVE TenantIndInv
  OBVIOUS
<1>1. IndInv
  BY InitInd DEF TenantInit
<1>2. /\ tcall = [r \in Handlers |-> NoCall] /\ tpc = [r \in Handlers |-> "idle"]
      /\ held = [r \in Handlers |-> {}]
  BY DEF TenantInit, T!Init, Handlers
<1>3. MiddlewareOK /\ HeldNow
  BY <1>2 DEF MiddlewareOK, HeldNow, T!Steps
<1>4. Tenanted
  BY <1>2 DEF Tenanted, Handlers, TenantInit, Init
<1> QED
  BY <1>1, <1>3, <1>4 DEF TenantIndInv

(* A step of the composition is one of the records, or none.               *)
LEMMA RecordsStep == TenantNext => [Next]_vars
BY DEF TenantNext, Admit, Serve, Enter, Manage, Next

LEMMA ServeInd ==
  ASSUME TenantIndInv, NEW r \in Requests, Serve(r), T!Observe
  PROVE  TenantIndInv'
<1> USE ServeEffect
<1>1. IndInv'
  <2>1. Next
    BY DEF Next
  <2> QED
    BY <2>1, StepInd DEF TenantIndInv
<1>2. MiddlewareOK' /\ HeldNow' /\ \A q \in Requests : held[q] \subseteq held'[q]
  BY HeldGrows DEF TenantIndInv, MiddlewareOK, Handlers
<1>3. \A q \in Requests \ {r} : UNCHANGED <<call[q], pc[q], loaded[q], tpc[q], tcall[q]>>
  BY Progress DEF TenantIndInv, Handlers
<1>4. \A q \in Requests \ {r} :
        /\ tpc'[q] # "idle" => tcall'[q].op = "record"
        /\ tpc'[q] \in {"idle", "resolve"} => pc'[q] = "idle"
        /\ pc'[q] \notin {"idle", "done"} => tpc'[q] = "write"
        /\ tpc'[q] = "write" => "member" \in held'[q]
        /\ pc'[q] # "idle" => call'[q].business = tcall'[q].business /\ "member" \in held'[q]
        /\ loaded'[q] # NoRow => pc'[q] # "idle" /\ loaded'[q].business = call'[q].business
  BY <1>2, <1>3 DEF TenantIndInv, Tenanted
<1>5. /\ tpc'[r] \in {"write", "done"} /\ tcall'[r].op = "record" /\ "member" \in held'[r]
      /\ pc'[r] \notin {"idle", "done"} => tpc'[r] = "write"
  BY <1>2 DEF TenantIndInv, Tenanted
<1>6. /\ pc'[r] # "idle"
      /\ call'[r].business = tcall'[r].business
      /\ loaded'[r] # NoRow => loaded'[r].business = call'[r].business
  <2> USE DEF TenantIndInv, IndInv, TypeOK
  <2>1. CASE Enter(r)
    <3>1. PICK c \in Calls : c.business = tcall[r].business /\ Arrive(r, c)
      BY <2>1 DEF Enter
    <3>2. pc[r] = "idle" /\ pc'[r] # "idle" /\ call'[r] = c /\ loaded'[r] = loaded[r]
      BY <3>1, CallAssumption DEF Arrive, Goto, Answer, Call
    <3> QED
      BY <3>1, <3>2 DEF Tenanted
  <2>2. CASE Load(r)
    <3>1. pc'[r] # "idle" /\ call'[r] = call[r] /\ pc[r] # "idle"
      BY <2>2 DEF Load, Goto, Answer
    <3>2. loaded'[r] = loaded[r] \/ loaded'[r].business = call[r].business
      BY <2>2 DEF Load, Found
    <3> QED
      BY <3>1, <3>2 DEF Tenanted
  <2>3. CASE Create(r) \/ Store(r) \/ Archive(r) \/ Audit(r) \/ Abort(r)
    <3>1. pc'[r] # "idle" /\ pc[r] # "idle" /\ call'[r] = call[r] /\ loaded'[r] = loaded[r]
      BY <2>3 DEF Create, Store, Archive, Audit, Abort, Applied, Goto, Answer
    <3> QED
      BY <3>1 DEF Tenanted
  <2> QED
    BY <2>1, <2>2, <2>3 DEF Serve, Step
<1>7. Tenanted'
  BY <1>4, <1>5, <1>6 DEF Tenanted
<1> QED
  BY <1>1, <1>2, <1>7 DEF TenantIndInv

LEMMA TenantStepInd == TenantIndInv /\ [TenantNext]_<<vars, tenantVars>> => TenantIndInv'
<1> SUFFICES ASSUME TenantIndInv, [TenantNext]_<<vars, tenantVars>> PROVE TenantIndInv'
  OBVIOUS
<1>1. ASSUME UNCHANGED vars
      PROVE  IndInv'
  BY <1>1, StepInd DEF TenantIndInv
<1>2. ASSUME NEW r \in Requests, Serve(r), T!Observe
      PROVE  TenantIndInv'
  BY <1>2, ServeInd
<1>3. ASSUME NEW r \in Requests, Admit(r), T!Observe
      PROVE  TenantIndInv'
  <2>1. MiddlewareOK' /\ HeldNow' /\ \A q \in Requests : held[q] \subseteq held'[q]
    BY <1>3, AdmitEffect, HeldGrows DEF TenantIndInv, MiddlewareOK, Handlers
  <2>2. UNCHANGED vars /\ pc[r] = "idle"
    BY <1>3, AdmitEffect DEF TenantIndInv, Tenanted
  <2>3. Tenanted'
    BY <1>3, <2>1, <2>2, AdmitEffect DEF vars, TenantIndInv, Tenanted, Handlers
  <2> QED
    BY <1>1, <2>1, <2>2, <2>3 DEF TenantIndInv
<1>4. ASSUME NEW m \in Managers, Manage(m), T!Observe
      PROVE  TenantIndInv'
  <2>1. MiddlewareOK' /\ HeldNow' /\ \A q \in Requests : held[q] \subseteq held'[q]
    BY <1>4, ManageEffect, HeldGrows DEF TenantIndInv, MiddlewareOK, Handlers
  <2>2. Tenanted'
    BY <1>4, <2>1, ManageEffect DEF vars, TenantIndInv, Tenanted
  <2> QED
    BY <1>1, <1>4, <2>1, <2>2, ManageEffect DEF TenantIndInv
<1>5. CASE UNCHANGED <<vars, tenantVars>>
  <2>1. MiddlewareOK'
    BY <1>5 DEF tenantVars, TenantIndInv, MiddlewareOK
  <2>2. HeldNow'
    BY <1>5 DEF tenantVars, TenantIndInv, HeldNow, T!Authority, T!Rows
  <2>3. Tenanted'
    BY <1>5 DEF vars, tenantVars, TenantIndInv, Tenanted
  <2> QED
    BY <1>1, <1>5, <2>1, <2>2, <2>3 DEF TenantIndInv
<1> QED
  BY <1>2, <1>3, <1>4, <1>5 DEF TenantNext

(* The inductive invariant of the composition.                             *)
THEOREM TenantInvariant == TenantSpec => []TenantIndInv
BY TenantInitInd, TenantStepInd, PTL DEF TenantSpec

-----------------------------------------------------------------------------
(* Both halves are implemented.                                            *)

(* The handlers behind the middleware do nothing but what the records'     *)
(* handlers may do (internal/customers, internal/catalog).                 *)
THEOREM ImplementsRecords == TenantSpec => Spec
<1>1. TenantInit => Init
  BY DEF TenantInit
<1>2. [TenantNext]_<<vars, tenantVars>> => [Next]_vars
  BY RecordsStep
<1> QED
  BY <1>1, <1>2, PTL DEF TenantSpec, Spec

(* The middleware does nothing but what Tenancy says, the handler being    *)
(* the last of its statements (businesses/handler.go:69-95).               *)
THEOREM ImplementsTenancy == TenantSpec => T!Spec
<1>1. TenantInit => T!Init
  BY DEF TenantInit
<1>2. TenantIndInv /\ [TenantNext]_<<vars, tenantVars>> => [T!Next]_T!vars
  <2> SUFFICES ASSUME TenantIndInv, TenantNext
               PROVE  [T!Next]_T!vars
    BY DEF tenantVars, T!vars
  <2>1. T!Observe
    BY DEF TenantNext
  <2>2. ASSUME NEW r \in Requests, Admit(r)
        PROVE  T!Next
    BY <2>1, <2>2 DEF Admit, T!Next, T!Step
  <2>3. ASSUME NEW m \in Managers, Manage(m)
        PROVE  T!Next
    BY <2>1, <2>3 DEF Manage, T!Next
  <2>4. ASSUME NEW r \in Requests, Serve(r), pc'[r] = "done"
        PROVE  T!Next
    BY <2>1, <2>4 DEF Serve, T!Next, T!Step
  <2>5. ASSUME NEW r \in Requests, Serve(r), pc'[r] # "done"
        PROVE  UNCHANGED T!vars
    BY <2>1, <2>5, HeldKept DEF Serve, TenantIndInv, T!vars
  <2> QED
    BY <2>2, <2>3, <2>4, <2>5 DEF TenantNext
<1> QED
  BY <1>1, <1>2, TenantInvariant, PTL DEF TenantSpec, T!Spec

(* So the records' promises hold behind the middleware too: live SKUs are  *)
(* unique, of racing archivals one succeeds, an update is lost only to one *)
(* under way with it (repository.go:67-71, 172-262).                       *)
THEOREM RecordsKeptBehindTenant == TenantSpec => [](LiveSkuUnique /\ OneArchive /\ UpdatesKept)
BY ImplementsRecords, SkusAreUnique, ArchivedOnce, LostOnlyToOverlap, PTL

(* And an archived record is final (repository.go:223, 253).               *)
THEOREM ArchivedFinalBehindTenant == TenantSpec => ArchivedFrozen
BY ImplementsRecords, ArchivedIsFinal, PTL

-----------------------------------------------------------------------------
(* What neither half says alone.                                           *)

(* A request reads only in the business its caller was a member of         *)
(* (businesses/handler.go:69-95, catalog/repository.go:126-137).           *)
THEOREM ReadsStayInTenant == TenantSpec => []ReadsWithinTenant
<1>1. TenantIndInv => ReadsWithinTenant
  BY DEF TenantIndInv, Tenanted, ReadsWithinTenant
<1> QED
  BY <1>1, TenantInvariant, PTL

(* A row changes only by a request for its business whose caller has been  *)
(* a member there, and never moves (catalog/repository.go:222-224, 253).   *)
THEOREM WritesStayInTenant == TenantSpec => WritesWithinTenant
<1> DEFINE A == \A i \in Ids : row'[i] # row[i] =>
                  /\ row[i] # NoRow => row'[i].business = row[i].business
                  /\ \E r \in Requests : /\ pc'[r] # pc[r]
                                         /\ tcall[r].business = row'[i].business
                                         /\ "member" \in held[r]
<1>1. TenantIndInv /\ [TenantNext]_<<vars, tenantVars>> => [A]_<<row, pc>>
  <2> SUFFICES ASSUME TenantIndInv, TenantNext, NEW i \in Ids, row'[i] # row[i]
               PROVE  /\ row[i] # NoRow => row'[i].business = row[i].business
                      /\ \E r \in Requests : /\ pc'[r] # pc[r]
                                             /\ tcall[r].business = row'[i].business
                                             /\ "member" \in held[r]
    BY DEF vars
  <2> USE DEF TenantIndInv, IndInv, TypeOK
  <2>1. PICK r \in Requests : Serve(r)
    BY DEF TenantNext, Admit, Manage, vars
  <2>2. Create(r) \/ Store(r) \/ Archive(r)
    BY <2>1 DEF Serve, Enter, Step, Arrive, Load, Audit, Abort
  <2>3. pc[r] \notin {"idle", "done"} /\ pc'[r] # pc[r]
    BY <2>2 DEF Create, Store, Archive, Applied, Answer
  <2>4. call[r].business = tcall[r].business /\ "member" \in held[r]
    BY <2>3 DEF Tenanted
  <2>5. row[r] = NoRow
    BY <2>2 DEF Create, Store, Archive, NothingYet
  <2>6. CASE Create(r)
    BY <2>3, <2>4, <2>5, <2>6 DEF Create
  <2>7. CASE Store(r) \/ Archive(r)
    <3>1. Found(r) /\ i = call[r].id
      BY <2>7 DEF Store, Archive
    <3>2. row[i] \in Row /\ row[i].business = call[r].business
      BY <3>1 DEF Found
    <3>3. row'[i].business = row[i].business
      BY <2>7, <3>1, <3>2 DEF Store, Archive, Row
    <3> QED
      BY <2>3, <2>4, <3>2, <3>3
  <2> QED
    BY <2>2, <2>6, <2>7
<1> QED
  BY <1>1, TenantInvariant, PTL DEF TenantSpec, WritesWithinTenant

=============================================================================

--------------------------- MODULE TenancyProofs ---------------------------
(***************************************************************************)
(* The safety properties of Tenancy for any number of businesses, users,   *)
(* members and requests and for any calls.  IndInv is shown to be          *)
(* inductive, one lemma per action; the properties follow from it.         *)
(***************************************************************************)
EXTENDS Tenancy, TLAPS

-----------------------------------------------------------------------------
(* The history variable.                                                   *)

LEMMA ObserveGrows ==
  ASSUME TypeOK, Observe
  PROVE  /\ held' \in [Requests -> SUBSET {"member", "owner"}]
         /\ \A r \in Requests : held[r] \subseteq held'[r]
         /\ \A r \in Requests : pc'[r] \notin {"idle", "done"} => Authority(call[r])' \subseteq held'[r]
<1>1. \A r \in Requests : Authority(call[r])' \subseteq {"member", "owner"}
  BY DEF Authority
<1>2. \A r \in Requests : held[r] \subseteq {"member", "owner"}
  BY DEF TypeOK
<1> QED
  BY <1>1, <1>2 DEF Observe

(* Whoever the middleware admits is entitled, and has a row in a business. *)
LEMMA RolesEntitle ==
  ASSUME NEW c \in Call
  PROVE  /\ RolesOf(c.caller, c.business) # {} =>
              /\ "member" \in Authority(c)
              /\ \E i \in Rows : membership[i] # NoRow /\ membership[i].business = c.business
         /\ "owner" \in RolesOf(c.caller, c.business) => "owner" \in Authority(c)
BY DEF RolesOf, Authority

(* A request behind the middleware has its call, which fits its operation. *)
LEMMA CallFits ==
  ASSUME TypeOK, NothingYet, NEW r \in Requests, pc[r] # "idle"
  PROVE  /\ call[r] \in Call
         /\ call[r].op = "invite" => call[r].role \in Roles /\ call[r].target \in Users \cup {NoUser}
         /\ call[r].op \in {"update_member", "remove_member"} => call[r].target \in Rows
BY CallAssumption DEF TypeOK, NothingYet

-----------------------------------------------------------------------------
LEMMA InitInd == Init => IndInv
<1> SUFFICES ASSUME NEW f \in InitialMembers, NEW open \in SUBSET Businesses,
                    \A s \in Seats : f[s] # NoRow => f[s].business \in open,
                    settings = [b \in Businesses |-> IF b \in open THEN [x \in Fields |-> Unset] ELSE NoRow],
                    membership = [i \in Rows |-> IF i \in open THEN FoundingRow(i)
                                                 ELSE IF i \in Seats THEN f[i] ELSE NoRow],
                    call = [r \in Requests |-> NoCall],
                    pc = [r \in Requests |-> "idle"],
                    seen = [r \in Requests |-> NoRow],
                    loaded = [r \in Requests |-> NoRow],
                    code = [r \in Requests |-> "none"],
                    held = [r \in Requests |-> {}]
             PROVE  IndInv
  BY DEF Init
<1>1. /\ f \in [Seats -> Row \cup {NoRow}]
      /\ \A s, t \in Seats : f[s] # NoRow /\ f[t] # NoRow /\ s # t =>
           f[s].business # f[t].business \/ f[s].user # f[t].user
      /\ \A s \in Seats : f[s] # NoRow => f[s].user # Founder[f[s].business]
  BY MemberAssumption
<1>2. \A b \in Businesses : FoundingRow(b) \in Row /\ FoundingRow(b).business = b
                            /\ FoundingRow(b).role = "owner" /\ FoundingRow(b).user = Founder[b]
  BY FounderAssumption DEF FoundingRow, Row, Roles, Statuses
<1>3. NoRow \notin Row /\ \A b \in open : settings[b] # NoRow
  BY RowsApart DEF Settings
<1>4. /\ \A b \in open : membership[b] = FoundingRow(b)
      /\ \A s \in Seats : membership[s] = f[s]
      /\ \A i \in Rows \ (open \cup Seats) : membership[i] = NoRow
  BY RowsApart DEF Rows
<1>5. TypeOK
  <2>1. settings \in [Businesses -> Settings \cup {NoRow}]
    BY DEF Settings
  <2>2. membership \in [Rows -> Row \cup {NoRow}]
    BY <1>1, <1>2 DEF Rows
  <2> QED
    BY <2>1, <2>2 DEF TypeOK, Steps, Codes
<1>6. MembersOfBusinesses
  BY <1>2, <1>3, <1>4 DEF MembersOfBusinesses
<1>7. FounderStays
  BY <1>2, <1>3, <1>4, RowsApart DEF FounderStays, Rows
<1>8. NothingYet
  BY <1>4, RowsApart DEF NothingYet, Rows
<1>9. Admitted /\ MembersRead /\ AuthorityHeld
  BY DEF Admitted, MembersRead, AuthorityHeld
<1>10. OneMembership
  BY <1>1, <1>2, <1>4 DEF OneMembership
<1> QED
  BY <1>5, <1>6, <1>7, <1>8, <1>9, <1>10 DEF IndInv

-----------------------------------------------------------------------------
(* The steps that leave the two tables alone.                              *)

(* OneMembership, MembersOfBusinesses and FounderStays are about the       *)
(* tables only.                                                            *)
LEMMA TablesKept ==
  ASSUME IndInv, UNCHANGED database
  PROVE  MembersOfBusinesses' /\ FounderStays' /\ OneMembership'
BY DEF IndInv, MembersOfBusinesses, FounderStays, OneMembership, database

LEMMA AuthenticateInd ==
  ASSUME IndInv, NEW r \in Requests, NEW c \in Calls, Authenticate(r, c), Observe
  PROVE  IndInv'
<1> USE DEF IndInv, TypeOK
<1>1. UNCHANGED <<settings, membership, seen, loaded>>
  BY DEF Authenticate, database
<1>2. c # NoCall
  BY CallAssumption, RowsApart
<1>3. TypeOK'
  BY <1>1, ObserveGrows DEF Authenticate, Goto, Answer, Steps, Codes
<1>4. NothingYet'
  BY <1>1, <1>2 DEF Authenticate, Goto, Answer, NothingYet
<1>5. Admitted'
  BY <1>1, ObserveGrows DEF Authenticate, Goto, Answer, Admitted
<1>6. MembersRead'
  BY <1>1 DEF Authenticate, Goto, Answer, MembersRead, ReadOfMember
<1>7. AuthorityHeld'
  BY <1>1, ObserveGrows DEF Authenticate, Goto, Answer, AuthorityHeld, NothingYet
<1> QED
  BY <1>1, <1>3, <1>4, <1>5, <1>6, <1>7, TablesKept DEF database

LEMMA ResolveTenantInd ==
  ASSUME IndInv, NEW r \in Requests, ResolveTenant(r), Observe
  PROVE  IndInv'
<1> USE DEF IndInv, TypeOK
<1>1. UNCHANGED <<settings, membership, seen, loaded, call>>
  BY DEF ResolveTenant, database, local
<1>2. call[r] \in Calls /\ call[r] \in Call
  BY CallAssumption DEF ResolveTenant, NothingYet
<1>3. TypeOK'
  BY <1>1, ObserveGrows DEF ResolveTenant, Goto, Answer, Steps, Codes
<1>4. NothingYet'
  BY <1>1 DEF ResolveTenant, Goto, Answer, NothingYet
<1>5. Admitted'
  <2>1. CASE pc'[r] = "done"
    BY <1>1, <2>1, ObserveGrows DEF ResolveTenant, Goto, Answer, Admitted
  <2>2. CASE pc'[r] # "done"
    <3>1. /\ call[r].op \in OwnerOps => "owner" \in RolesOf(call[r].caller, call[r].business)
          /\ RolesOf(call[r].caller, call[r].business) # {}
          /\ pc' = [pc EXCEPT ![r] = IF call[r].op = "record" THEN "write" ELSE "check"]
      BY <2>2 DEF ResolveTenant, Goto, Answer
    <3>2. Authority(call[r])' = Authority(call[r])
      BY <1>1 DEF Authority
    <3>3. (IF call[r].op \in OwnerOps THEN "owner" ELSE "member") \in held'[r]
      BY <1>2, <3>1, <3>2, ObserveGrows, RolesEntitle
    <3>4. settings[call[r].business] # NoRow
      BY <1>2, <3>1, RolesEntitle DEF MembersOfBusinesses
    <3> QED
      BY <1>1, <3>1, <3>3, <3>4, ObserveGrows DEF Admitted
  <2> QED
    BY <2>1, <2>2
<1>6. MembersRead'
  BY <1>1 DEF ResolveTenant, Goto, Answer, MembersRead, ReadOfMember
<1>7. AuthorityHeld'
  BY <1>1, ObserveGrows DEF ResolveTenant, Goto, Answer, AuthorityHeld, NothingYet
<1> QED
  BY <1>1, <1>3, <1>4, <1>5, <1>6, <1>7, TablesKept DEF database

LEMMA GetBusinessByIDInd ==
  ASSUME IndInv, NEW r \in Requests, GetBusinessByID(r), Observe
  PROVE  IndInv'
<1> USE DEF IndInv, TypeOK
<1>1. UNCHANGED <<settings, membership, seen, call>>
  BY DEF GetBusinessByID, database
<1>2. call[r] \in Calls /\ call[r] \in Call
  BY CallAssumption DEF GetBusinessByID, NothingYet
<1>3. TypeOK'
  BY <1>1, <1>2, ObserveGrows DEF GetBusinessByID, Goto, Answer, Steps, Codes, Call
<1>4. NothingYet'
  BY <1>1 DEF GetBusinessByID, Goto, Answer, NothingYet
<1>5. Admitted'
  BY <1>1, ObserveGrows DEF GetBusinessByID, Goto, Answer, Admitted
<1>6. MembersRead'
  BY <1>1 DEF GetBusinessByID, Goto, Answer, MembersRead, ReadOfMember
<1>7. AuthorityHeld'
  BY <1>1, ObserveGrows DEF GetBusinessByID, Goto, Answer, AuthorityHeld, NothingYet
<1> QED
  BY <1>1, <1>3, <1>4, <1>5, <1>6, <1>7, TablesKept DEF database

LEMMA FetchMemberInd ==
  ASSUME IndInv, NEW r \in Requests, FetchMember(r), Observe
  PROVE  IndInv'
<1> USE DEF IndInv, TypeOK
<1>1. UNCHANGED <<settings, membership, loaded, call>>
  BY DEF FetchMember, database
<1>2. /\ call[r] \in Calls /\ call[r] \in Call /\ call[r].target \in Rows
      /\ call[r].op \in {"update_member", "remove_member"}
  BY CallAssumption DEF FetchMember, NothingYet, Admitted
<1>3. TypeOK'
  BY <1>1, <1>2, ObserveGrows DEF FetchMember, Goto, Answer, Steps, Codes
<1>4. NothingYet'
  BY <1>1 DEF FetchMember, Goto, Answer, NothingYet
<1>5. Admitted'
  BY <1>1, <1>2, ObserveGrows DEF FetchMember, Goto, Answer, Admitted
<1>6. MembersRead'
  <2> SUFFICES ASSUME NEW q \in Requests, pc'[q] = "write",
                      call[q].op \in {"update_member", "remove_member"}
               PROVE  ReadOfMember(q)'
    BY <1>1 DEF MembersRead
  <2>1. CASE q # r
    BY <1>1, <2>1 DEF FetchMember, Goto, Answer, MembersRead, ReadOfMember
  <2>2. CASE q = r
    <3> DEFINE i == call[r].target
    <3>1. /\ Scoped(r) /\ seen'[r] = membership[i]
          /\ membership[i].role = "owner" =>
               call[r].op = "update_member" /\ call[r].role \in {"owner", Unset}
      BY <1>2, <2>2 DEF FetchMember, Goto, Answer
    <3>2. membership[i] # NoRow /\ membership[i].business = call[r].business
      BY <3>1 DEF Scoped
    <3>3. i \in Requests => pc'[i] = "done"
      BY <3>2, <2>2 DEF NothingYet, FetchMember, Goto, Answer
    <3>4. i \in Businesses => settings[i] # NoRow /\ membership[i].role = "owner"
      BY <3>2 DEF FounderStays
    <3> QED
      BY <1>1, <1>2, <2>2, <3>1, <3>2, <3>3, <3>4 DEF ReadOfMember
  <2> QED
    BY <2>1, <2>2
<1>7. AuthorityHeld'
  BY <1>1, ObserveGrows DEF FetchMember, Goto, Answer, AuthorityHeld, NothingYet
<1> QED
  BY <1>1, <1>3, <1>4, <1>5, <1>6, <1>7, TablesKept DEF database

LEMMA UseTenantInd ==
  ASSUME IndInv, NEW r \in Requests, UseTenant(r), Observe
  PROVE  IndInv'
<1> USE DEF IndInv, TypeOK
<1>1. UNCHANGED <<settings, membership, seen, loaded, call>>
  BY DEF UseTenant, database, local
<1>2. TypeOK'
  BY <1>1, ObserveGrows DEF UseTenant, Answer, Steps, Codes
<1>3. NothingYet'
  BY <1>1 DEF UseTenant, Answer, NothingYet
<1>4. Admitted'
  BY <1>1, ObserveGrows DEF UseTenant, Answer, Admitted
<1>5. MembersRead'
  BY <1>1 DEF UseTenant, Answer, MembersRead, ReadOfMember
<1>6. AuthorityHeld'
  BY <1>1, ObserveGrows DEF UseTenant, Answer, AuthorityHeld, Admitted
<1> QED
  BY <1>1, <1>2, <1>3, <1>4, <1>5, <1>6, TablesKept DEF database

LEMMA AbortInd ==
  ASSUME IndInv, NEW r \in Requests, Abort(r), Observe
  PROVE  IndInv'
<1> USE DEF IndInv, TypeOK
<1>1. UNCHANGED <<settings, membership, seen, loaded, call>>
  BY DEF Abort, database, local
<1>2. TypeOK'
  BY <1>1, ObserveGrows DEF Abort, Answer, Steps, Codes
<1>3. NothingYet'
  BY <1>1 DEF Abort, Answer, NothingYet
<1>4. Admitted'
  BY <1>1, ObserveGrows DEF Abort, Answer, Admitted
<1>5. MembersRead'
  BY <1>1 DEF Abort, Answer, MembersRead, ReadOfMember
<1>6. AuthorityHeld'
  BY <1>1, ObserveGrows DEF Abort, Answer, AuthorityHeld
<1> QED
  BY <1>1, <1>2, <1>3, <1>4, <1>5, <1>6, TablesKept DEF database

-----------------------------------------------------------------------------
(* The steps that write.                                                   *)

LEMMA UpdateBusinessInd ==
  ASSUME IndInv, NEW r \in Requests, UpdateBusiness(r), Observe
  PROVE  IndInv'
<1> USE DEF IndInv, TypeOK
<1>1. UNCHANGED <<membership, seen, loaded, call>>
  BY DEF UpdateBusiness, local
<1>2. loaded[r] \in Settings /\ call[r] \in Call /\ pc[r] = "write"
  BY CallAssumption DEF UpdateBusiness, Admitted, NothingYet
<1>3. settings' \in [Businesses -> Settings \cup {NoRow}]
  BY <1>2 DEF UpdateBusiness, Settings
<1>4. \A b \in Businesses : settings'[b] = NoRow <=> settings[b] = NoRow
  BY <1>2, RowsApart DEF UpdateBusiness, Settings, Admitted
<1>5. TypeOK'
  BY <1>1, <1>3, ObserveGrows DEF UpdateBusiness, Answer, Steps, Codes
<1>6. MembersOfBusinesses' /\ FounderStays' /\ OneMembership'
  BY <1>1, <1>4 DEF MembersOfBusinesses, FounderStays, OneMembership, Row
<1>7. NothingYet'
  BY <1>1 DEF UpdateBusiness, Answer, NothingYet
<1>8. Admitted'
  <2>1. \A q \in Requests : pc[q] # "idle" => call[q].business \in Businesses
    BY CallAssumption DEF NothingYet, Call
  <2> QED
    BY <1>1, <1>4, <2>1, ObserveGrows DEF UpdateBusiness, Answer, Admitted
<1>9. MembersRead'
  <2> SUFFICES ASSUME NEW q \in Requests, pc'[q] = "write",
                      call[q].op \in {"update_member", "remove_member"}
               PROVE  ReadOfMember(q)'
    BY <1>1 DEF MembersRead
  <2>1. q # r /\ pc[q] = "write" /\ ReadOfMember(q)
    BY <1>1 DEF UpdateBusiness, Answer, MembersRead
  <2> QED
    BY <1>1, <1>4, <2>1 DEF UpdateBusiness, Answer, ReadOfMember
<1>10. AuthorityHeld'
  BY <1>1, ObserveGrows DEF UpdateBusiness, Answer, AuthorityHeld, Admitted
<1> QED
  BY <1>5, <1>6, <1>7, <1>8, <1>9, <1>10

LEMMA InviteMemberInd ==
  ASSUME IndInv, NEW r \in Requests, InviteMember(r), Observe
  PROVE  IndInv'
<1> USE DEF IndInv, TypeOK
<1> DEFINE c == call[r]
           new == [business |-> c.business, user |-> c.target, role |-> c.role, status |-> "invited"]
<1>1. UNCHANGED <<settings, seen, loaded, call>> /\ pc[r] = "write"
  BY DEF InviteMember, local
<1>2. c \in Call /\ c.role \in Roles /\ c.target \in Users \cup {NoUser}
  BY CallAssumption DEF InviteMember, NothingYet
<1>3. membership' = membership \/
      (/\ membership' = [membership EXCEPT ![r] = new]
       /\ new \in Row
       /\ \A i \in Rows : membership[i] # NoRow => membership[i].business # c.business \/ membership[i].user # c.target)
  BY <1>2 DEF InviteMember, Row, Call, Statuses
<1>4. membership[r] = NoRow /\ r \in Rows /\ r \notin Businesses
  BY <1>1, RowsApart DEF NothingYet, Rows
<1>5. settings[c.business] # NoRow
  BY <1>1 DEF Admitted
<1>6. pc' = [pc EXCEPT ![r] = "done"] /\ code' \in [Requests -> Codes]
      /\ \A q \in Requests \ {r} : code'[q] = code[q]
  BY DEF InviteMember, Answer, Codes
<1> HIDE DEF new
<1>7. new.business = c.business /\ new.user = c.target
  BY DEF new
<1>8. TypeOK'
  BY <1>1, <1>3, <1>6, ObserveGrows DEF Steps
<1>9. MembersOfBusinesses'
  BY <1>1, <1>3, <1>5, <1>7 DEF MembersOfBusinesses
<1>10. FounderStays'
  BY <1>1, <1>3, <1>4, RowsApart DEF FounderStays, Rows
<1>11. OneMembership'
  BY <1>3, <1>7 DEF OneMembership
<1>12. NothingYet'
  BY <1>1, <1>3, <1>6 DEF NothingYet, Rows
<1>13. Admitted'
  BY <1>1, <1>6, ObserveGrows DEF Admitted
<1>14. MembersRead'
  <2> SUFFICES ASSUME NEW q \in Requests, pc'[q] = "write",
                      call[q].op \in {"update_member", "remove_member"}
               PROVE  ReadOfMember(q)'
    BY <1>1 DEF MembersRead
  <2>1. q # r /\ pc[q] = "write" /\ ReadOfMember(q)
    BY <1>6 DEF MembersRead
  <2>2. call[q].target # r
    BY <1>1, <2>1 DEF ReadOfMember
  <2>3. membership'[call[q].target] = membership[call[q].target]
    BY <1>3, <2>1, <2>2, CallFits
  <2> QED
    BY <1>1, <1>6, <2>1, <2>3 DEF ReadOfMember
<1>15. AuthorityHeld'
  BY <1>1, <1>6, ObserveGrows DEF AuthorityHeld, Admitted
<1> QED
  BY <1>8, <1>9, <1>10, <1>11, <1>12, <1>13, <1>14, <1>15

LEMMA UpdateMemberInd ==
  ASSUME IndInv, NEW r \in Requests, UpdateMember(r), Observe
  PROVE  IndInv'
<1> USE DEF IndInv, TypeOK
<1> DEFINE i == call[r].target
           new == Updated(r)
<1>1. UNCHANGED <<settings, seen, loaded, call>> /\ pc[r] = "write" /\ call[r].op = "update_member"
  BY DEF UpdateMember, local
<1>2. i \in Rows /\ call[r] \in Call /\ ReadOfMember(r)
  BY <1>1, CallFits DEF MembersRead
<1>3. pc' = [pc EXCEPT ![r] = "done"] /\ code' \in [Requests -> Codes]
      /\ \A q \in Requests \ {r} : code'[q] = code[q]
  BY DEF UpdateMember, Answer, Codes
<1>4. /\ new \in Row /\ new.business = seen[r].business /\ new.user = seen[r].user
      /\ i \in Businesses => new.role = "owner"
  <2>1. seen[r] \in Row
    BY <1>2 DEF ReadOfMember
  <2>2. call[r].role \in Roles \cup {Unset} /\ call[r].status \in Statuses \cup {Unset}
    BY <1>2 DEF Call
  <2>3. i \in Businesses => seen[r].role = "owner" /\ call[r].role \in {"owner", Unset}
    BY <1>2 DEF ReadOfMember
  <2> QED
    BY <2>1, <2>2, <2>3 DEF Updated, Row
<1>5. membership' = membership \/
      (membership[i] # NoRow /\ membership' = [membership EXCEPT ![i] = new])
  BY DEF UpdateMember, Scoped
<1>6. membership[i] # NoRow => membership[i].business = new.business /\ membership[i].user = new.user
  BY <1>2, <1>4 DEF ReadOfMember
<1> HIDE DEF new
<1>7. \A j \in Rows : /\ membership'[j] = NoRow <=> membership[j] = NoRow
                      /\ membership'[j] # NoRow => /\ membership'[j].business = membership[j].business
                                                   /\ membership'[j].user = membership[j].user
  BY <1>2, <1>4, <1>5, <1>6, RowsApart
<1>8. TypeOK'
  BY <1>1, <1>3, <1>4, <1>5, ObserveGrows DEF Steps
<1>9. MembersOfBusinesses' /\ OneMembership'
  BY <1>1, <1>7 DEF MembersOfBusinesses, OneMembership
<1>10. FounderStays'
  <2>1. \A b \in Businesses : membership[b] # NoRow /\ membership[b].role = "owner" => membership'[b].role = "owner"
    BY <1>2, <1>4, <1>5 DEF Rows
  <2> QED
    BY <1>1, <1>7, <2>1 DEF FounderStays, Rows
<1>11. NothingYet'
  BY <1>1, <1>3, <1>7 DEF NothingYet, Rows
<1>12. Admitted'
  BY <1>1, <1>3, ObserveGrows DEF Admitted
<1>13. MembersRead'
  <2> SUFFICES ASSUME NEW q \in Requests, pc'[q] = "write",
                      call[q].op \in {"update_member", "remove_member"}
               PROVE  ReadOfMember(q)'
    BY <1>1 DEF MembersRead
  <2>1. q # r /\ pc[q] = "write" /\ ReadOfMember(q) /\ call[q].target \in Rows
    BY <1>3, CallFits DEF MembersRead
  <2> QED
    BY <1>1, <1>3, <1>7, <2>1 DEF ReadOfMember
<1>14. AuthorityHeld'
  BY <1>1, <1>3, ObserveGrows DEF AuthorityHeld, Admitted
<1> QED
  BY <1>8, <1>9, <1>10, <1>11, <1>12, <1>13, <1>14

LEMMA RemoveMemberInd ==
  ASSUME IndInv, NEW r \in Requests, RemoveMember(r), Observe
  PROVE  IndInv'
<1> USE DEF IndInv, TypeOK
<1> DEFINE i == call[r].target
<1>1. UNCHANGED <<settings, seen, loaded, call>> /\ pc[r] = "write" /\ call[r].op = "remove_member"
  BY DEF RemoveMember, local
<1>2. i \in Rows /\ i \notin Businesses
  BY <1>1, CallFits DEF MembersRead, ReadOfMember
<1>3. pc' = [pc EXCEPT ![r] = "done"] /\ code' \in [Requests -> Codes]
      /\ \A q \in Requests \ {r} : code'[q] = code[q]
  BY DEF RemoveMember, Answer, Codes
<1>4. membership' = membership \/ membership' = [membership EXCEPT ![i] = NoRow]
  BY DEF RemoveMember
<1>5. \A j \in Rows : membership'[j] \in {membership[j], NoRow}
  BY <1>4
<1>6. \A b \in Businesses : membership'[b] = membership[b]
  BY <1>2, <1>4 DEF Rows
<1>7. TypeOK'
  BY <1>1, <1>3, <1>4, ObserveGrows DEF Steps
<1>8. MembersOfBusinesses' /\ OneMembership'
  BY <1>1, <1>5 DEF MembersOfBusinesses, OneMembership
<1>9. FounderStays'
  BY <1>1, <1>6 DEF FounderStays
<1>10. NothingYet'
  BY <1>1, <1>3, <1>5 DEF NothingYet, Rows
<1>11. Admitted'
  BY <1>1, <1>3, ObserveGrows DEF Admitted
<1>12. MembersRead'
  <2> SUFFICES ASSUME NEW q \in Requests, pc'[q] = "write",
                      call[q].op \in {"update_member", "remove_member"}
               PROVE  ReadOfMember(q)'
    BY <1>1 DEF MembersRead
  <2>1. q # r /\ pc[q] = "write" /\ ReadOfMember(q) /\ call[q].target \in Rows
    BY <1>3, CallFits DEF MembersRead
  <2> QED
    BY <1>1, <1>3, <1>5, <2>1 DEF ReadOfMember
<1>13. AuthorityHeld'
  BY <1>1, <1>3, ObserveGrows DEF AuthorityHeld, Admitted
<1> QED
  BY <1>7, <1>8, <1>9, <1>10, <1>11, <1>12, <1>13

LEMMA CreateBusinessInd ==
  ASSUME IndInv, NEW b \in Businesses, CreateBusinessWithMember(b), Observe
  PROVE  IndInv'
<1> USE DEF IndInv, TypeOK
<1> DEFINE new == FoundingRow(b)
<1>1. UNCHANGED <<call, seen, loaded, pc, code>> /\ settings[b] = NoRow
      /\ membership' = [membership EXCEPT ![b] = new]
  BY DEF CreateBusinessWithMember, local
<1>2. new \in Row /\ new.business = b /\ new.role = "owner"
  BY FounderAssumption DEF FoundingRow, Row, Roles, Statuses
<1>3. settings' \in [Businesses -> Settings \cup {NoRow}]
      /\ settings'[b] # NoRow /\ \A a \in Businesses \ {b} : settings'[a] = settings[a]
  BY RowsApart DEF CreateBusinessWithMember, Settings
<1>4. b \in Rows /\ membership[b] = NoRow
  BY <1>1 DEF FounderStays, Rows
<1> HIDE DEF new
<1>5. TypeOK'
  BY <1>1, <1>2, <1>3, ObserveGrows
<1>6. MembersOfBusinesses'
  BY <1>1, <1>2, <1>3, <1>4 DEF MembersOfBusinesses, Row
<1>7. OneMembership'
  BY <1>1, <1>2, <1>4 DEF OneMembership, MembersOfBusinesses
<1>8. FounderStays'
  BY <1>1, <1>2, <1>3, RowsApart DEF FounderStays, Rows
<1>9. NothingYet'
  BY <1>1, RowsApart DEF NothingYet, Rows
<1>10. Admitted'
  <2>1. \A q \in Requests : pc[q] # "idle" => call[q].business \in Businesses
    BY CallFits DEF Call
  <2> QED
    BY <1>1, <1>3, <2>1, ObserveGrows DEF Admitted
<1>11. MembersRead'
  <2> SUFFICES ASSUME NEW q \in Requests, pc[q] = "write",
                      call[q].op \in {"update_member", "remove_member"}
               PROVE  ReadOfMember(q)'
    BY <1>1 DEF MembersRead
  <2>1. ReadOfMember(q) /\ call[q].target \in Rows
    BY CallFits DEF MembersRead
  <2>2. call[q].target # b
    BY <1>1, <2>1 DEF ReadOfMember
  <2> QED
    BY <1>1, <1>3, <2>1, <2>2 DEF ReadOfMember
<1>12. AuthorityHeld'
  BY <1>1, ObserveGrows DEF AuthorityHeld
<1> QED
  BY <1>5, <1>6, <1>7, <1>8, <1>9, <1>10, <1>11, <1>12

-----------------------------------------------------------------------------
LEMMA StepInd == IndInv /\ [Next]_vars => IndInv'
<1> SUFFICES ASSUME IndInv, [Next]_vars PROVE IndInv'
  OBVIOUS
<1>1. CASE UNCHANGED vars
  BY <1>1 DEF vars, IndInv, TypeOK, MembersOfBusinesses, FounderStays, NothingYet, Admitted,
     MembersRead, ReadOfMember, OneMembership, AuthorityHeld
<1>2. CASE Next
  BY <1>2, CreateBusinessInd, AuthenticateInd, ResolveTenantInd, GetBusinessByIDInd, FetchMemberInd,
     UpdateBusinessInd, InviteMemberInd, UpdateMemberInd, RemoveMemberInd, UseTenantInd, AbortInd
     DEF Next, Step
<1> QED
  BY <1>1, <1>2

(* The inductive invariant of the memberships.                             *)
THEOREM Invariant == Spec => []IndInv
BY InitInd, StepInd, PTL DEF Spec

(* The variables keep their types, whatever stale rows are written back    *)
(* (repository.go:347-363).                                                *)
THEOREM TypeCorrect == Spec => []TypeOK
<1>1. IndInv => TypeOK
  BY DEF IndInv
<1> QED
  BY <1>1, Invariant, PTL

(* However many invitations race, a user has one membership in a business  *)
(* (repository.go:282-296).                                                *)
THEOREM MembershipIsUnique == Spec => []OneMembership
<1>1. IndInv => OneMembership
  BY DEF IndInv
<1> QED
  BY <1>1, Invariant, PTL

(* Every business keeps an owner: nobody ever reads the founder's          *)
(* membership as anything but an owner's, so nobody removes or demotes it  *)
(* (repository.go:344, 390-392).                                           *)
THEOREM OwnerRemains == Spec => []EveryBusinessHasOwner
<1>1. IndInv => EveryBusinessHasOwner
  BY DEF IndInv, FounderStays, EveryBusinessHasOwner, Rows
<1> QED
  BY <1>1, Invariant, PTL

(* A request that succeeds was entitled to while it was handled            *)
(* (handler.go:69-95, auth_middleware.go:44-69).                           *)
THEOREM SuccessWasAuthorized == Spec => []AuthorityHeld
<1>1. IndInv => AuthorityHeld
  BY DEF IndInv
<1> QED
  BY <1>1, Invariant, PTL

-----------------------------------------------------------------------------
(* A request's step changes no other request's program counter.            *)
LEMMA OthersWait ==
  ASSUME IndInv, NEW r \in Requests, NEW q \in Requests \ {r},
         (\E c \in Calls : Authenticate(q, c)) \/ Step(q) \/ Abort(q)
  PROVE  pc'[r] = pc[r]
BY DEF IndInv, TypeOK, Authenticate, Step, Abort, ResolveTenant, GetBusinessByID, FetchMember,
   UpdateBusiness, InviteMember, UpdateMember, RemoveMember, UseTenant, Goto, Answer

(* A request's last statement touches the business of its tenant alone.    *)
LEMMA WriteStaysInBusiness ==
  ASSUME IndInv, NEW r \in Requests, pc[r] = "write", Step(r) \/ Abort(r)
  PROVE  /\ \A b \in Businesses : settings'[b] # settings[b] => b = call[r].business
         /\ \A i \in Rows : membership'[i] # membership[i] =>
              \A m \in {membership[i], membership'[i]} : m # NoRow => m.business = call[r].business
<1> USE DEF IndInv, TypeOK
<1>1. CASE UpdateBusiness(r)
  BY <1>1 DEF UpdateBusiness
<1>2. CASE InviteMember(r)
  <2>1. membership[r] = NoRow /\ UNCHANGED settings
    BY <1>2 DEF NothingYet, InviteMember
  <2>2. \A i \in Rows : membership'[i] # membership[i] =>
          i = r /\ membership'[i] = [business |-> call[r].business, user |-> call[r].target,
                                     role |-> call[r].role, status |-> "invited"]
    BY <1>2 DEF InviteMember
  <2> QED
    BY <2>1, <2>2
<1>3. CASE UpdateMember(r)
  <2>1. seen[r] \in Row /\ seen[r].business = call[r].business
    BY <1>3 DEF UpdateMember, MembersRead, ReadOfMember
  <2>2. Updated(r).business = call[r].business
    BY <2>1 DEF Updated, Row
  <2>3. \A i \in Rows : membership'[i] # membership[i] =>
          membership[i].business = call[r].business /\ membership'[i] = Updated(r)
    BY <1>3 DEF UpdateMember, Scoped
  <2> QED
    BY <1>3, <2>2, <2>3 DEF UpdateMember
<1>4. CASE RemoveMember(r)
  BY <1>4 DEF RemoveMember, Scoped
<1>5. CASE UseTenant(r) \/ Abort(r)
  BY <1>5 DEF UseTenant, Abort, database
<1> QED
  BY <1>1, <1>2, <1>3, <1>4, <1>5 DEF Step, ResolveTenant, GetBusinessByID, FetchMember

(* Whatever member id a request names, it changes nothing of another       *)
(* business than its own (repository.go:331, 359, 394).                    *)
THEOREM TenantsAreIsolated == Spec => TenantIsolation
<1> DEFINE A == \A r \in Requests : pc[r] = "write" /\ pc'[r] = "done" =>
                  /\ \A b \in Businesses : settings'[b] # settings[b] => b = call[r].business
                  /\ \A i \in Rows : membership'[i] # membership[i] =>
                       \A m \in {membership[i], membership'[i]} : m # NoRow => m.business = call[r].business
<1>1. IndInv /\ [Next]_vars => [A]_<<settings, membership, pc, call>>
  <2> SUFFICES ASSUME IndInv, Next, NEW r \in Requests, pc[r] = "write", pc'[r] = "done"
               PROVE  /\ \A b \in Businesses : settings'[b] # settings[b] => b = call[r].business
                      /\ \A i \in Rows : membership'[i] # membership[i] =>
                           \A m \in {membership[i], membership'[i]} : m # NoRow => m.business = call[r].business
    BY DEF vars
  <2>1. Step(r) \/ Abort(r)
    BY OthersWait DEF Next, CreateBusinessWithMember, Authenticate
  <2> QED
    BY <2>1, WriteStaysInBusiness
<1> QED
  BY <1>1, Invariant, PTL DEF Spec, TenantIsolation

(* Nobody writes back the row of a member removed meanwhile                *)
(* (repository.go:358-363, 394).                                           *)
THEOREM RemovedStaysRemoved == Spec => NoResurrection
<1> DEFINE A == \A i \in Seats \cup {r \in Requests : pc[r] = "done"} :
                  membership[i] = NoRow => membership'[i] = NoRow
<1>1. IndInv /\ [Next]_vars => [A]_<<membership, pc>>
  <2> SUFFICES ASSUME IndInv, Next, NEW i \in Seats \cup {r \in Requests : pc[r] = "done"},
                      membership[i] = NoRow
               PROVE  membership'[i] = NoRow
    BY DEF vars
  <2> USE DEF IndInv, TypeOK
  <2>1. i \in Rows /\ i \notin Businesses
    BY RowsApart DEF Rows
  <2>2. ASSUME NEW b \in Businesses, CreateBusinessWithMember(b)
        PROVE  membership'[i] = NoRow
    BY <2>1, <2>2 DEF CreateBusinessWithMember
  <2>3. ASSUME NEW r \in Requests, InviteMember(r)
        PROVE  membership'[i] = NoRow
    <3>1. i # r
      BY <2>3, RowsApart DEF InviteMember
    <3> QED
      BY <2>1, <2>3, <3>1 DEF InviteMember
  <2>4. ASSUME NEW r \in Requests, UpdateMember(r) \/ RemoveMember(r)
        PROVE  membership'[i] = NoRow
    BY <2>1, <2>4 DEF UpdateMember, RemoveMember, Scoped
  <2>5. ASSUME NEW r \in Requests, (\E c \in Calls : Authenticate(r, c)) \/ ResolveTenant(r) \/ GetBusinessByID(r)
                                   \/ FetchMember(r) \/ UpdateBusiness(r) \/ UseTenant(r) \/ Abort(r)
        PROVE  membership'[i] = NoRow
    BY <2>5 DEF Authenticate, ResolveTenant, GetBusinessByID, FetchMember, UpdateBusiness, UseTenant,
       Abort, database
  <2> QED
    BY <2>2, <2>3, <2>4, <2>5 DEF Next, Step
<1> QED
  BY <1>1, Invariant, PTL DEF Spec, NoResurrection

=============================================================================

------------------------------ MODULE Records ------------------------------
(***************************************************************************)
(* Customers and products: create, read, update, archive                   *)
(* (internal/customers, internal/catalog: service.go over repository.go).  *)
(*                                                                         *)
(* Both tables work alike: an update reads the live row, merges the        *)
(* columns it was given and writes them all back; an archived row is never *)
(* found again.  A product has a SKU, unique among the live products; a    *)
(* customer has none.  Every statement names the business the request was  *)
(* admitted to; TenantRecords composes this with how it was.  What         *)
(* CreateProduct does to the stock is in Inventory.                        *)
(***************************************************************************)
EXTENDS Naturals

CONSTANTS
  Businesses,
  Existing,  (* names of the rows made earlier                              *)
  Requests,  (* HTTP requests; a row is named by the request creating it    *)
  Fields,    (* columns an update may set                                   *)
  Skus,      (* SKUs, up to case                                            *)
  NoSku,     (* a customer's                                                *)
  Made,      (* business and SKU of the rows made earlier                   *)
  Calls,     (* what requests ask for                                       *)
  NoRow,     (* the row does not exist                                      *)
  NoCall,    (* the request has not come in                                 *)
  Original   (* the value a column was created with                         *)

Ids == Existing \cup Requests
Row == [business : Businesses, sku : Skus \cup {NoSku},
        values : [Fields -> Requests \cup {Original}], archived : BOOLEAN]

(* flaw: "early" is refused by the service before any statement, "late" is *)
(* a blank name, found when the row has been read.                         *)
Call == [op : {"create", "read", "update", "archive"}, business : Businesses, id : Existing,
         sku : Skus \cup {NoSku}, fields : SUBSET Fields, flaw : {"none", "early", "late"}]

ASSUME NamesApart ==
  /\ Existing \cap Requests = {} /\ NoSku \notin Skus /\ Original \notin Requests
  /\ NoRow \notin Row /\ NoCall \notin Call
ASSUME MadeAssumption ==
  /\ Made \in [Existing -> [business : Businesses, sku : Skus \cup {NoSku}]]
  /\ \A i, j \in Existing : Made[i] = Made[j] /\ i # j => Made[i].sku = NoSku
ASSUME CallAssumption == Calls \subseteq Call

VARIABLES
  row,      (* the products and customers rows                              *)
  audited,  (* requests whose entry is in audit_logs                        *)
  call,     (* what each request asks for                                   *)
  pc,       (* the next statement of each request                           *)
  loaded,   (* the row a read or an update has read                         *)
  code,     (* the answer each request gets or is about to get              *)
  before    (* history: the requests answered before each one came in       *)

vars == <<row, audited, call, pc, loaded, code, before>>

Steps == {"idle", "create", "load", "store", "archive", "audit", "done"}
Codes == {"none", "ok", "invalid", "exists", "not_found", "error"}

Init ==
  /\ row = [i \in Ids |-> IF i \in Existing
       THEN [business |-> Made[i].business, sku |-> Made[i].sku,
             values |-> [f \in Fields |-> Original], archived |-> FALSE] ELSE NoRow]
  /\ audited = {}
  /\ call = [r \in Requests |-> NoCall]
  /\ pc = [r \in Requests |-> "idle"]
  /\ loaded = [r \in Requests |-> NoRow]
  /\ code = [r \in Requests |-> "none"]
  /\ before = [r \in Requests |-> {}]

-----------------------------------------------------------------------------
Goto(r, s) == pc' = [pc EXCEPT ![r] = s] /\ UNCHANGED code
Answer(r, c) == pc' = [pc EXCEPT ![r] = "done"] /\ code' = [code EXCEPT ![r] = c]

(* A statement took effect: the caller goes on to the audit entry, or the  *)
(* acknowledgement is lost and it fails although the row is written.       *)
Applied(r) ==
  \/ pc' = [pc EXCEPT ![r] = "audit"] /\ code' = [code EXCEPT ![r] = "ok"]
  \/ Answer(r, "error")

(* Mutant of Found: the condition archived_at IS NULL is missing.          *)
FoundOrArchived(r) ==
  LET i == call[r].id IN row[i] # NoRow /\ row[i].business = call[r].business

(* Mutant of Found: the condition on business_id is missing.               *)
FoundAnywhere(r) ==
  LET i == call[r].id IN row[i] # NoRow /\ ~row[i].archived

(* WHERE id = $1 AND business_id = $2 AND archived_at IS NULL.             *)
Found(r) ==
  LET i == call[r].id
  IN  row[i] # NoRow /\ row[i].business = call[r].business /\ ~row[i].archived

(* Mutant of SkuTaken: a plain index in place of the unique one.           *)
SkuNeverTaken(b, sku) == FALSE

(* idx_products_business_sku_active.                                       *)
SkuTaken(b, sku) ==
  sku # NoSku /\ \E i \in Ids : /\ row[i] # NoRow /\ ~row[i].archived
                               /\ row[i].business = b /\ row[i].sku = sku

-----------------------------------------------------------------------------
(* The service validates first.                                            *)
Arrive(r, c) ==
  /\ pc[r] = "idle"
  /\ call' = [call EXCEPT ![r] = c]
  /\ before' = [before EXCEPT ![r] = {q \in Requests : pc[q] = "done"}]
  /\ \/ c.flaw = "early" /\ Answer(r, "invalid")
     \/ /\ c.flaw # "early"
        /\ Goto(r, IF c.op \in {"read", "update"} THEN "load" ELSE c.op)
  /\ UNCHANGED <<row, audited, loaded>>

(* Product and balance, or customer: one commit.                           *)
Create(r) ==
  /\ pc[r] = "create"
  /\ LET c == call[r]
     IN  \/ SkuTaken(c.business, c.sku) /\ Answer(r, "exists") /\ UNCHANGED row
         \/ /\ ~SkuTaken(c.business, c.sku)
            /\ row' = [row EXCEPT ![r] = [business |-> c.business, sku |-> c.sku, archived |-> FALSE,
                                          values |-> [f \in Fields |-> Original]]]
            /\ Applied(r)
  /\ UNCHANGED <<audited, call, loaded, before>>

(* A read answers with the row; an update refuses a blank name, or goes on.*)
Load(r) ==
  /\ pc[r] = "load"
  /\ \/ ~Found(r) /\ Answer(r, "not_found") /\ UNCHANGED loaded
     \/ Found(r) /\ call[r].flaw = "late" /\ Answer(r, "invalid") /\ UNCHANGED loaded
     \/ /\ Found(r) /\ call[r].flaw # "late"
        /\ loaded' = [loaded EXCEPT ![r] = row[call[r].id]]
        /\ IF call[r].op = "read" THEN Answer(r, "ok") ELSE Goto(r, "store")
  /\ UNCHANGED <<row, audited, call, before>>

(* Mutant of Merged: columns the request does not name are lost.           *)
MergedNamedOnly(r) == [f \in call[r].fields |-> r]

Merged(r) ==
  [f \in Fields |-> IF f \in call[r].fields THEN r ELSE loaded[r].values[f]]

(* Mutant of Store: RowsAffected is not looked at.                         *)
StoreUnchecked(r) ==
  /\ pc[r] = "store"
  /\ row' = [row EXCEPT ![call[r].id] = IF Found(r) THEN [@ EXCEPT !.values = Merged(r)] ELSE @]
  /\ Applied(r)
  /\ UNCHANGED <<audited, call, loaded, before>>

(* It writes every column back, if the row is still live.                  *)
Store(r) ==
  /\ pc[r] = "store"
  /\ \/ ~Found(r) /\ Answer(r, "not_found") /\ UNCHANGED row
     \/ /\ Found(r)
        /\ row' = [row EXCEPT ![call[r].id].values = Merged(r)]
        /\ Applied(r)
  /\ UNCHANGED <<audited, call, loaded, before>>

(* Mutant of Archive: RowsAffected is not looked at.                       *)
ArchiveUnchecked(r) ==
  /\ pc[r] = "archive"
  /\ row' = [row EXCEPT ![call[r].id].archived = TRUE]
  /\ Applied(r)
  /\ UNCHANGED <<audited, call, loaded, before>>

Archive(r) ==
  /\ pc[r] = "archive"
  /\ \/ ~Found(r) /\ Answer(r, "not_found") /\ UNCHANGED row
     \/ /\ Found(r)
        /\ row' = [row EXCEPT ![call[r].id].archived = TRUE]
        /\ Applied(r)
  /\ UNCHANGED <<audited, call, loaded, before>>

(* The audit entry follows in a statement of its own; its error is dropped.*)
Audit(r) ==
  /\ pc[r] = "audit"
  /\ Goto(r, "done")
  /\ audited' \in {audited, audited \cup {r}}
  /\ UNCHANGED <<row, call, loaded, before>>

(* A statement fails or the request ends early, before it has an effect.   *)
Abort(r) ==
  /\ pc[r] \in {"create", "load", "store", "archive"}
  /\ Answer(r, "error")
  /\ UNCHANGED <<row, audited, call, loaded, before>>

Step(r) == Create(r) \/ Load(r) \/ Store(r) \/ Archive(r) \/ Audit(r)

Next == \E r \in Requests : (\E c \in Calls : Arrive(r, c)) \/ Step(r) \/ Abort(r)

Spec == Init /\ [][Next]_vars

-----------------------------------------------------------------------------
(* Properties.                                                             *)

(* The variables have their types: every write is of a complete row        *)
(* (repository.go:172-247).                                                *)
TypeOK ==
  /\ row \in [Ids -> Row \cup {NoRow}]
  /\ audited \subseteq Requests
  /\ call \in [Requests -> Calls \cup {NoCall}]
  /\ pc \in [Requests -> Steps]
  /\ loaded \in [Requests -> Row \cup {NoRow}]
  /\ code \in [Requests -> Codes]
  /\ before \in [Requests -> SUBSET Requests]

(* However creations and archivals race, no two live products of a         *)
(* business share a SKU, and an archived product's SKU may be used again   *)
(* (repository.go:67-71).                                                  *)
LiveSkuUnique ==
  \A i, j \in Ids :
    /\ row[i] # NoRow /\ row[j] # NoRow /\ ~row[i].archived /\ ~row[j].archived
    /\ row[i].business = row[j].business /\ row[i].sku = row[j].sku /\ row[i].sku # NoSku
    => i = j

(* An archived record is final: an update that read it while it was live   *)
(* neither changes it nor brings it back (repository.go:223, 253).         *)
ArchivedFrozen ==
  [][\A i \in Ids : row[i] # NoRow /\ row[i].archived => row'[i] = row[i]]_row

(* Of racing archivals of one record at most one is told "ok", so at most  *)
(* one is on the audit trail (repository.go:256-262).                      *)
OneArchive ==
  \A r, s \in Requests :
    /\ code[r] = "ok" /\ code[s] = "ok"
    /\ call[r].op = "archive" /\ call[s].op = "archive" /\ call[r].id = call[s].id
    => r = s

(* An update that may have written to the row named i.                     *)
Wrote(q, i) ==
  /\ pc[q] \in {"audit", "done"} /\ code[q] \in {"ok", "error"}
  /\ call[q].op = "update" /\ call[q].id = i

(* An update may have put back, or set itself, the column f that w set:    *)
(* one that was under way together with w or later.                        *)
Overwritten(w, f) ==
  \E q \in Requests \ (before[w] \cup {w}) :
    Wrote(q, call[w].id) /\ (f \in call[q].fields \/ w \notin before[q])

(* What an update was told is stored stays stored, until a later update    *)
(* sets the same column; only an update that was under way together with   *)
(* it may put back a column it does not name, as it read it                *)
(* (repository.go:172-247 reads, merges and writes every column).          *)
UpdatesKept ==
  \A w \in Requests : code[w] = "ok" /\ call[w].op = "update" =>
    \A f \in call[w].fields : row[call[w].id].values[f] = w \/ Overwritten(w, f)

-----------------------------------------------------------------------------
(* The inductive invariant behind these, and its parts.                    *)

(* A request that is not over has no answer yet, no row before it has      *)
(* created one, and follows the statements of its operation.               *)
NothingYet ==
  /\ \A i \in Existing : row[i] # NoRow
  /\ \A r \in Requests :
       /\ pc[r] = "idle" <=> call[r] = NoCall
       /\ pc[r] \in {"idle", "create", "load", "store", "archive"} => code[r] = "none" /\ row[r] = NoRow
       /\ pc[r] = "store" => call[r].op = "update" /\ loaded[r] # NoRow
       /\ pc[r] = "load" => call[r].op \in {"read", "update"}
       /\ pc[r] \in {"create", "archive"} => call[r].op = pc[r]

(* An archival answered "ok" has archived the record.                      *)
ArchiveEffect ==
  \A r \in Requests : code[r] = "ok" /\ call[r].op = "archive" => row[call[r].id].archived

(* What came before a request is over.                                     *)
BeforeIsOver == \A r \in Requests : \A q \in before[r] : pc[q] = "done"

(* What an update is about to write back holds every column set before it  *)
(* came in, if it is not lost already.                                     *)
Fresh(q) ==
  \A w \in before[q] : code[w] = "ok" /\ call[w].op = "update" /\ call[w].id = call[q].id =>
    \A f \in call[w].fields : loaded[q].values[f] = w \/ Overwritten(w, f)

LoadedIsFresh == \A q \in Requests : pc[q] = "store" => Fresh(q)

(* What the code keeps true at every statement.                            *)
IndInv ==
  /\ TypeOK /\ NothingYet /\ ArchiveEffect /\ BeforeIsOver /\ LoadedIsFresh
  /\ LiveSkuUnique /\ OneArchive /\ UpdatesKept

=============================================================================

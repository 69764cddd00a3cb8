----------------------------- MODULE Inventory -----------------------------
(***************************************************************************)
(* The inventory ledger of one business: stock balances, stock movements   *)
(* and the idempotent stock adjustment, as concurrent HTTP requests drive  *)
(* them (internal/catalog: repository.go, service.go, handler.go).         *)
(*                                                                         *)
(* Every request is one pass through Handler.RecordStockAdjustment,        *)
(* Service.RecordStockAdjustment and Repository.RecordStockAdjustment.     *)
(* A step is what the request does up to the next point where it can wait  *)
(* for, or see the effect of, another request: taking a connection and     *)
(* reading the idempotency key, locking the balance row, inserting under   *)
(* the unique index, committing, logging the audit entry.  PostgreSQL runs *)
(* the transactions READ COMMITTED: what a transaction wrote is invisible  *)
(* until Commit applies it, a row locked FOR UPDATE makes the next locker  *)
(* wait and then read the committed row, and an insert waits for an        *)
(* uncommitted insert of the same unique key.                              *)
(***************************************************************************)
EXTENDS Integers, FiniteSetsExt

CONSTANTS
  Products,       (* product ids                                            *)
  Requests,       (* HTTP requests; each is handled once, a retry is        *)
                  (* another request with the same input                    *)
  Keys,           (* non-empty Idempotency-Key values                       *)
  NoKey,          (* the request carries no key: NULL in the row            *)
  EmptyKey,       (* "idempotencyKey": "" in the body, stored as ''         *)
  Inputs,         (* what requests ask for: product, quantity and key       *)
  InitialStocks,  (* the initialStock values of product creation            *)
  MaxInt,         (* the largest INTEGER of the on_hand column              *)
  PoolSize,       (* connections of the pool                                *)
  Opening         (* stands for the request id in an 'initial' movement     *)

ASSUME KeyAssumption == NoKey # EmptyKey /\ NoKey \notin Keys /\ EmptyKey \notin Keys
ASSUME NumberAssumption ==
  /\ MaxInt \in Nat /\ PoolSize \in Nat \ {0}
  /\ InitialStocks \subseteq Nat
ASSUME InputAssumption ==
  Inputs \subseteq [product : Products, quantity : Int, key : Keys \cup {NoKey, EmptyKey}]
ASSUME OpeningAssumption == Opening \notin Requests

VARIABLES
  status,     (* products row: absent, live or archived                     *)
  onHand,     (* inventory_balances.on_hand                                 *)
  version,    (* inventory_balances.version, 0 while there is no row        *)
  movements,  (* the committed rows of stock_movements                      *)
  audited,    (* requests whose inventory.adjusted entry is in audit_logs   *)
  input,      (* what each request asks for, fixed by its sender            *)
  pc,         (* where the handling of each request is                      *)
  read,       (* on_hand as the request read it FOR UPDATE                  *)
  code        (* the answer the request gets or is about to get             *)

vars == <<status, onHand, version, movements, audited, input, pc, read, code>>
database == <<status, onHand, version, movements>>

Quantities == {i.quantity : i \in Inputs}
Movement == [request : Requests \cup {Opening}, product : Products,
             quantity : Quantities \cup InitialStocks, key : Keys \cup {NoKey, EmptyKey}]
Steps == {"idle", "begin", "lock", "probe", "locked", "written", "audit", "done"}
Rejections == {"invalid", "not_found", "negative_stock", "conflict"}
Codes == {"none", "ok", "replayed", "error", "lost"} \cup Rejections

Init ==
  /\ status = [p \in Products |-> "absent"]
  /\ onHand = [p \in Products |-> 0]
  /\ version = [p \in Products |-> 0]
  /\ movements = {}
  /\ audited = {}
  /\ input \in [Requests -> Inputs]
  /\ pc = [r \in Requests |-> "idle"]
  /\ read = [r \in Requests |-> 0]
  /\ code = [r \in Requests |-> "none"]

-----------------------------------------------------------------------------
(* What the database holds and who holds it.                               *)

(* idx_stock_movements_idempotency: (business_id, idempotency_key) is      *)
(* unique where the key is not NULL.                                       *)
Recorded(k) == k # NoKey /\ \E m \in movements : m.key = k

(* A transaction owns a connection from Begin to Commit or Rollback.       *)
InTransaction == {r \in Requests : pc[r] \in {"lock", "probe", "locked", "written"}}

(* Mutants of Holders: SELECT without FOR UPDATE; a lock that outlives its *)
(* transaction when the handler has answered.                              *)
UnlockedHolders(p) == {}
LeakedHolders(p) == {r \in Requests : /\ pc[r] \in {"locked", "written", "done"}
                                      /\ code[r] # "lost" /\ input[r].product = p}

(* The holders of the FOR UPDATE lock on the balance row of product p.     *)
Holders(p) == {r \in Requests : pc[r] \in {"locked", "written"} /\ input[r].product = p}

(* Mutants of Inserting: a lookup before the insert and no unique index; a *)
(* transaction that is still open when the handler has answered.           *)
UnindexedInserting(k) == {}
LeakedInserting(k) == {r \in Requests : /\ k # NoKey /\ pc[r] \in {"written", "done"}
                                        /\ code[r] # "lost" /\ input[r].key = k}

(* Transactions with an uncommitted movement of key k in the index.        *)
Inserting(k) == {r \in Requests : k # NoKey /\ pc[r] = "written" /\ input[r].key = k}

NewOnHand(r) == read[r] + input[r].quantity

MovementOf(r) == [request |-> r, product |-> input[r].product,
                  quantity |-> input[r].quantity, key |-> input[r].key]

Goto(r, step) == pc' = [pc EXCEPT ![r] = step]
Answer(r, c)  == pc' = [pc EXCEPT ![r] = "done"] /\ code' = [code EXCEPT ![r] = c]

-----------------------------------------------------------------------------
(* Products.                                                               *)

(* The product row, its balance row and, for a positive initial stock, an  *)
(* 'initial' movement are committed together; an initial stock that the    *)
(* column cannot hold fails the transaction.                               *)
CreateProduct(p, stock) ==
  /\ status[p] = "absent"
  /\ stock <= MaxInt
  /\ status' = [status EXCEPT ![p] = "live"]
  /\ onHand' = [onHand EXCEPT ![p] = stock]
  /\ version' = [version EXCEPT ![p] = 1]
  /\ movements' = movements \cup
       (IF stock > 0 THEN {[request |-> Opening, product |-> p, quantity |-> stock, key |-> NoKey]}
                     ELSE {})
  /\ UNCHANGED <<audited, input, pc, read, code>>

ArchiveProduct(p) ==
  /\ status[p] = "live"
  /\ status' = [status EXCEPT ![p] = "archived"]
  /\ UNCHANGED <<onHand, version, movements, audited, input, pc, read, code>>

-----------------------------------------------------------------------------
(* One stock adjustment.                                                   *)

(* The service refuses a zero quantity before it opens a transaction.      *)
Receive(r) ==
  /\ pc[r] = "idle"
  /\ \/ input[r].quantity = 0 /\ Answer(r, "invalid")
     \/ input[r].quantity # 0 /\ Goto(r, "begin") /\ UNCHANGED code
  /\ UNCHANGED <<database, audited, input, read>>

(* Mutant of Begin: the key is left to the unique index alone.             *)
BeginWithoutLookup(r) ==
  /\ pc[r] = "begin"
  /\ Cardinality(InTransaction) < PoolSize
  /\ Goto(r, "lock")
  /\ UNCHANGED <<database, audited, input, read, code>>

(* Take a connection, begin, look the key up.  A recorded key ends the     *)
(* transaction with the recorded movement; the empty key is not looked up. *)
Begin(r) ==
  /\ pc[r] = "begin"
  /\ Cardinality(InTransaction) < PoolSize
  /\ LET replay == input[r].key \in Keys /\ Recorded(input[r].key)
     IN  \/ replay /\ Goto(r, "audit") /\ code' = [code EXCEPT ![r] = "replayed"]
         \/ ~replay /\ Goto(r, "lock") /\ UNCHANGED code
  /\ UNCHANGED <<database, audited, input, read>>

(* SELECT ... FOR UPDATE: wait for the row, then read what is committed.   *)
LockRow(r) ==
  /\ pc[r] = "lock"
  /\ LET p == input[r].product
     IN  \/ /\ status[p] = "absent"
            /\ Goto(r, "probe")
            /\ UNCHANGED read
         \/ /\ status[p] # "absent"
            /\ Holders(p) = {}
            /\ read' = [read EXCEPT ![r] = onHand[p]]
            /\ Goto(r, "locked")
  /\ UNCHANGED <<database, audited, input, code>>

(* No balance row was found.  A product that became live since then has    *)
(* one, so inserting the missing row fails on its primary key.             *)
Probe(r) ==
  /\ pc[r] = "probe"
  /\ \/ status[input[r].product] # "live" /\ Answer(r, "not_found")
     \/ status[input[r].product] = "live" /\ Answer(r, "error")
  /\ UNCHANGED <<database, audited, input, read>>

(* Mutant of Write: the new balance is written unchecked.                  *)
WriteUnchecked(r) ==
  /\ pc[r] = "locked"
  /\ Inserting(input[r].key) = {}
  /\ \/ Recorded(input[r].key) /\ Answer(r, "conflict")
     \/ ~Recorded(input[r].key) /\ Goto(r, "written") /\ UNCHANGED code
  /\ UNCHANGED <<database, audited, input, read>>

(* Check the new balance, update it, insert the movement.  The insert      *)
(* waits while another transaction has inserted the key and not ended.     *)
Write(r) ==
  /\ pc[r] = "locked"
  /\ \/ NewOnHand(r) < 0 /\ Answer(r, "negative_stock")
     \/ NewOnHand(r) > MaxInt /\ Answer(r, "error")
     \/ /\ NewOnHand(r) \in 0 .. MaxInt
        /\ Inserting(input[r].key) = {}
        /\ \/ Recorded(input[r].key) /\ Answer(r, "conflict")
           \/ ~Recorded(input[r].key) /\ Goto(r, "written") /\ UNCHANGED code
  /\ UNCHANGED <<database, audited, input, read>>

(* Mutants of Commit: the movement is inserted by a statement outside the  *)
(* transaction, which may fail; the error of Commit is not checked.        *)
CommitBalanceFirst(r) ==
  /\ pc[r] = "written"
  /\ onHand' = [onHand EXCEPT ![input[r].product] = NewOnHand(r)]
  /\ version' = [version EXCEPT ![input[r].product] = @ + 1]
  /\ \/ movements' = movements \cup {MovementOf(r)} /\ Goto(r, "audit") /\ code' = [code EXCEPT ![r] = "ok"]
     \/ movements' = movements /\ Answer(r, "error")
  /\ UNCHANGED <<status, audited, input, read>>
CommitUnchecked(r) ==
  /\ pc[r] = "written"
  /\ Goto(r, "audit") /\ code' = [code EXCEPT ![r] = "ok"]
  /\ \/ /\ onHand' = [onHand EXCEPT ![input[r].product] = NewOnHand(r)]
        /\ version' = [version EXCEPT ![input[r].product] = @ + 1]
        /\ movements' = movements \cup {MovementOf(r)}
     \/ UNCHANGED <<onHand, version, movements>>
  /\ UNCHANGED <<status, audited, input, read>>

(* The commit applies the writes; its acknowledgement may not arrive, and  *)
(* then the request fails although the adjustment stands.                  *)
Commit(r) ==
  /\ pc[r] = "written"
  /\ onHand' = [onHand EXCEPT ![input[r].product] = NewOnHand(r)]
  /\ version' = [version EXCEPT ![input[r].product] = @ + 1]
  /\ movements' = movements \cup {MovementOf(r)}
  /\ \/ Goto(r, "audit") /\ code' = [code EXCEPT ![r] = "ok"]
     \/ Answer(r, "error")
  /\ UNCHANGED <<status, audited, input, read>>

(* The audit entry is a statement of its own after the commit, for replays *)
(* too; its error is dropped.                                              *)
Audit(r) ==
  /\ pc[r] = "audit"
  /\ Goto(r, "done")
  /\ audited' \in {audited, audited \cup {r}}
  /\ UNCHANGED <<database, input, read, code>>

(* A statement fails or the request's context ends (timeout, client gone): *)
(* the deferred Rollback discards the transaction.                         *)
Abort(r) ==
  /\ pc[r] = "begin" \/ r \in InTransaction
  /\ Answer(r, "error")
  /\ UNCHANGED <<database, audited, input, read>>

(* The process dies: no request in progress gets an answer, uncommitted    *)
(* transactions are gone.                                                  *)
Active == {r \in Requests : pc[r] \notin {"idle", "done"}}
Crash ==
  /\ Active # {}
  /\ pc' = [r \in Requests |-> IF r \in Active THEN "done" ELSE pc[r]]
  /\ code' = [r \in Requests |-> IF r \in Active THEN "lost" ELSE code[r]]
  /\ UNCHANGED <<database, audited, input, read>>

-----------------------------------------------------------------------------
Step(r) == Begin(r) \/ LockRow(r) \/ Probe(r) \/ Write(r) \/ Commit(r) \/ Audit(r)

Next ==
  \/ \E p \in Products, stock \in InitialStocks : CreateProduct(p, stock)
  \/ \E p \in Products : ArchiveProduct(p)
  \/ \E r \in Requests : Receive(r) \/ Step(r) \/ Abort(r)
  \/ Crash

Spec == Init /\ [][Next]_vars

(* A handler goroutine that can run does run, and PostgreSQL serves the    *)
(* waiters of a row lock; clients and failures are not obliged to act.     *)
FairSpec == Spec /\ \A r \in Requests : WF_vars(Step(r))

-----------------------------------------------------------------------------
(* Properties.                                                             *)

(* The variables have their types; in particular no committed balance is   *)
(* negative or beyond the column (docs/03: negative stock is rejected).    *)
TypeOK ==
  /\ status \in [Products -> {"absent", "live", "archived"}]
  /\ onHand \in [Products -> 0 .. MaxInt]
  /\ version \in [Products -> Nat]
  /\ movements \subseteq Movement
  /\ audited \subseteq Requests
  /\ input \in [Requests -> Inputs]
  /\ pc \in [Requests -> Steps]
  /\ read \in [Requests -> 0 .. MaxInt]
  /\ code \in [Requests -> Codes]

(* No two movements carry the same idempotency key, whatever duplicates    *)
(* race and whichever product they name: a key moves stock at most once.   *)
OneMovementPerKey ==
  \A m, n \in movements : m.key # NoKey /\ m.key = n.key => m = n

(* What a client is told is so: "ok" means its own movement is committed,  *)
(* "replayed" that its key is on record, and a rejection means that the    *)
(* request moved nothing.  "error" and "lost" say nothing.                 *)
AnswerTruthful ==
  \A r \in Requests : pc[r] = "done" =>
    /\ code[r] = "ok" => MovementOf(r) \in movements
    /\ code[r] = "replayed" => Recorded(input[r].key)
    /\ code[r] \in Rejections \cup {"replayed"} => \A m \in movements : m.request # r

(* The audit trail names no adjustment that did not commit.                *)
AuditedOnlyCommitted ==
  \A r \in audited : \E m \in movements :
    m.request = r \/ (m.key = input[r].key /\ m.key \in Keys)

(* Stock never changes silently (docs/03): movements are only ever added,  *)
(* one at a time, and a balance changes exactly by the movement added in   *)
(* the same step, which also counts its version up.                        *)
Posting ==
  /\ movements \subseteq movements'
  /\ \A m, n \in movements' \ movements : m = n
  /\ \A m \in movements' \ movements :
       /\ onHand'[m.product] = onHand[m.product] + m.quantity
       /\ version'[m.product] = version[m.product] + 1
  /\ \A p \in Products : onHand'[p] # onHand[p] =>
       \E m \in movements' \ movements : m.product = p
LedgerStep == [][Posting]_<<onHand, version, movements>>

(* docs/03: on_hand is derived from successful stock movements.            *)
Total(S) == MapThenSumSet(LAMBDA m : m.quantity, S)
BalanceIsLedgerSum ==
  \A p \in Products : onHand[p] = Total({m \in movements : m.product = p})

(* The adjustment with its locks and transactions implements the ledger.   *)
L == INSTANCE Ledger WITH stock <- onHand, ledger <- movements, Movements <- Movement
ImplementsLedger == L!Spec

(* A retry that reaches the server when its key is on record is never told *)
(* of a rejection, whatever happened to stock or product since.            *)
RetryNeverRejected ==
  \A r \in Requests :
    []( pc[r] \in {"idle", "begin"} /\ input[r].key \in Keys /\ Recorded(input[r].key)
        => [](code[r] \notin Rejections \ {"invalid"}))

(* Row locks, index entries (of one key, also under another product, whose *)
(* lock is another) and the pool delay a request, but none for ever: every *)
(* request the server took in is answered or lost with the process.        *)
EveryRequestAnswered ==
  \A r \in Requests : pc[r] = "begin" ~> pc[r] = "done"

(* What docs/04-api-contract.md:13 says of a key used again for something  *)
(* else ("conflicting reuse returns 409"): an answer from the record is an *)
(* answer to the same question.                                            *)
ReplayMatches ==
  \A r \in Requests : code[r] = "replayed" =>
    \E m \in movements : /\ m.key = input[r].key /\ m.product = input[r].product
                         /\ m.quantity = input[r].quantity

-----------------------------------------------------------------------------
(* The inductive invariant: why the properties hold.                       *)

(* Under the row lock the balance read is the committed one, so writing an *)
(* absolute value loses nobody's update.                                   *)
ReadIsCurrent ==
  \A r \in Requests : pc[r] \in {"locked", "written"} =>
    /\ status[input[r].product] # "absent"
    /\ read[r] = onHand[input[r].product]
    /\ Holders(input[r].product) = {r}

(* A transaction about to commit keeps the balance in range and has its    *)
(* key for itself.                                                         *)
WriteFits ==
  \A r \in Requests : pc[r] = "written" =>
    /\ NewOnHand(r) \in 0 .. MaxInt
    /\ ~Recorded(input[r].key)
    /\ Inserting(input[r].key) \subseteq {r}

(* A request has moved nothing before its commit, a product nothing before *)
(* its creation.                                                           *)
NothingYet ==
  /\ \A r \in Requests : pc[r] \notin {"audit", "done"} =>
       \A m \in movements : m.request # r
  /\ \A r \in Requests : pc[r] \notin {"idle", "done"} => input[r].quantity # 0
  /\ \A p \in Products : status[p] = "absent" =>
       onHand[p] = 0 /\ version[p] = 0 /\ \A m \in movements : m.product # p

(* The answer in preparation is already true, and an audit entry about to  *)
(* be written names a committed movement.                                  *)
AnswerPrepared ==
  /\ \A r \in Requests :
       /\ code[r] = "ok" => MovementOf(r) \in movements
       /\ code[r] = "replayed" => Recorded(input[r].key)
       /\ code[r] \in Rejections \cup {"replayed"} => \A m \in movements : m.request # r
  /\ \A r \in Requests : pc[r] = "audit" =>
       \E m \in movements : m.request = r \/ (m.key = input[r].key /\ m.key \in Keys)

(* Together with the properties they carry, preserved by every step.       *)
IndInv ==
  /\ TypeOK
  /\ ReadIsCurrent /\ WriteFits /\ NothingYet /\ AnswerPrepared
  /\ OneMovementPerKey /\ AuditedOnlyCommitted

=============================================================================

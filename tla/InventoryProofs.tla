-------------------------- MODULE InventoryProofs --------------------------
(***************************************************************************)
(* The safety properties of Inventory for any number of requests, products *)
(* and keys, any inputs and any pool.  IndInv is shown to be inductive,    *)
(* one lemma per action; the properties follow from it.                    *)
(***************************************************************************)
EXTENDS Inventory, FiniteSetTheorems, WellFoundedInduction, TLAPS

USE KeyAssumption, NumberAssumption, InputAssumption, OpeningAssumption

-----------------------------------------------------------------------------
LEMMA InitInd == Init => IndInv
<1> SUFFICES ASSUME Init PROVE IndInv
  OBVIOUS
<1>1. TypeOK
  BY DEF Init, TypeOK, Steps, Codes
<1>2. ReadIsCurrent /\ WriteFits
  BY DEF Init, ReadIsCurrent, WriteFits
<1>3. NothingYet
  BY DEF Init, NothingYet
<1>4. AnswerPrepared
  BY DEF Init, AnswerPrepared, Rejections
<1>5. OneMovementPerKey /\ AuditedOnlyCommitted
  BY DEF Init, OneMovementPerKey, AuditedOnlyCommitted
<1> QED
  BY <1>1, <1>2, <1>3, <1>4, <1>5 DEF IndInv

LEMMA CreateProductInd ==
  ASSUME IndInv, NEW p \in Products, NEW stock \in InitialStocks, CreateProduct(p, stock)
  PROVE  IndInv'
<1> DEFINE new == IF stock > 0
                  THEN {[request |-> Opening, product |-> p, quantity |-> stock, key |-> NoKey]}
                  ELSE {}
<1> USE DEF IndInv
<1>0. stock \in Nat /\ movements' = movements \cup new
  BY DEF CreateProduct
<1>1. TypeOK'
  <2>1. new \subseteq Movement
    BY <1>0 DEF Movement
  <2> QED
    BY <1>0, <2>1 DEF CreateProduct, TypeOK
<1>2. ReadIsCurrent'
  BY DEF CreateProduct, ReadIsCurrent, Holders, TypeOK
<1>3. WriteFits'
  BY <1>0 DEF CreateProduct, WriteFits, NewOnHand, Recorded, Inserting, TypeOK
<1>4. NothingYet'
  BY <1>0 DEF CreateProduct, NothingYet, TypeOK
<1>5. AnswerPrepared'
  BY <1>0 DEF CreateProduct, AnswerPrepared, MovementOf, Recorded, TypeOK
<1>6. OneMovementPerKey'
  BY <1>0 DEF CreateProduct, OneMovementPerKey
<1>7. AuditedOnlyCommitted'
  BY <1>0 DEF CreateProduct, AuditedOnlyCommitted
<1> QED
  BY <1>1, <1>2, <1>3, <1>4, <1>5, <1>6, <1>7

LEMMA ArchiveProductInd ==
  ASSUME IndInv, NEW p \in Products, ArchiveProduct(p)
  PROVE  IndInv'
<1> USE DEF IndInv
<1>1. TypeOK'
  BY DEF ArchiveProduct, TypeOK
<1>2. ReadIsCurrent' /\ WriteFits'
  BY DEF ArchiveProduct, ReadIsCurrent, WriteFits, NewOnHand, Holders, Recorded, Inserting, TypeOK
<1>3. NothingYet'
  BY DEF ArchiveProduct, NothingYet, TypeOK
<1>4. AnswerPrepared' /\ OneMovementPerKey' /\ AuditedOnlyCommitted'
  BY DEF ArchiveProduct, AnswerPrepared, MovementOf, Recorded, OneMovementPerKey, AuditedOnlyCommitted
<1> QED
  BY <1>1, <1>2, <1>3, <1>4

LEMMA ReceiveInd ==
  ASSUME IndInv, NEW r \in Requests, Receive(r)
  PROVE  IndInv'
<1> USE DEF IndInv, database
<1>1. TypeOK'
  BY DEF Receive, Goto, Answer, TypeOK, Steps, Codes, Rejections
<1>2. ReadIsCurrent'
  BY DEF Receive, Goto, Answer, ReadIsCurrent, Holders, TypeOK
<1>3. WriteFits'
  BY DEF Receive, Goto, Answer, WriteFits, NewOnHand, Recorded, Inserting, TypeOK
<1>4. NothingYet'
  BY DEF Receive, Goto, Answer, NothingYet, TypeOK
<1>5. AnswerPrepared'
  BY DEF Receive, Goto, Answer, AnswerPrepared, NothingYet, MovementOf, Recorded, Rejections, TypeOK
<1>6. OneMovementPerKey' /\ AuditedOnlyCommitted'
  BY DEF Receive, Goto, Answer, OneMovementPerKey, AuditedOnlyCommitted
<1> QED
  BY <1>1, <1>2, <1>3, <1>4, <1>5, <1>6

LEMMA BeginInd ==
  ASSUME IndInv, NEW r \in Requests, Begin(r)
  PROVE  IndInv'
<1> USE DEF IndInv, database
<1>1. TypeOK'
  BY DEF Begin, Goto, Answer, TypeOK, Steps, Codes, Rejections
<1>2. ReadIsCurrent'
  BY DEF Begin, Goto, Answer, ReadIsCurrent, Holders, TypeOK
<1>3. WriteFits'
  BY DEF Begin, Goto, Answer, WriteFits, NewOnHand, Recorded, Inserting, TypeOK
<1>4. NothingYet'
  BY DEF Begin, Goto, Answer, NothingYet, TypeOK
<1>5. AnswerPrepared'
  BY DEF Begin, Goto, Answer, AnswerPrepared, NothingYet, MovementOf, Recorded, Rejections, TypeOK
<1>6. OneMovementPerKey' /\ AuditedOnlyCommitted'
  BY DEF Begin, Goto, Answer, OneMovementPerKey, AuditedOnlyCommitted
<1> QED
  BY <1>1, <1>2, <1>3, <1>4, <1>5, <1>6

LEMMA LockRowInd ==
  ASSUME IndInv, NEW r \in Requests, LockRow(r)
  PROVE  IndInv'
<1> USE DEF IndInv, database
<1>1. TypeOK'
  BY DEF LockRow, Goto, Answer, TypeOK, Steps, Codes, Rejections
<1>2. ReadIsCurrent'
  <2> SUFFICES ASSUME NEW q \in Requests, pc'[q] \in {"locked", "written"}
               PROVE  /\ status'[input'[q].product] # "absent"
                      /\ read'[q] = onHand'[input'[q].product]
                      /\ Holders(input[q].product)' = {q}
    BY DEF ReadIsCurrent, LockRow
  <2>0. UNCHANGED <<status, onHand, input>>
    BY DEF LockRow
  <2>1. CASE q = r
    <3>1. status[input[r].product] # "absent" /\ Holders(input[r].product) = {}
      BY <2>1 DEF LockRow, Goto, TypeOK
    <3>2. read'[r] = onHand[input[r].product]
      BY <2>1 DEF LockRow, Goto, TypeOK
    <3>3. Holders(input[r].product)' = {r}
      BY <2>1, <3>1 DEF LockRow, Goto, Holders, TypeOK
    <3> QED
      BY <2>0, <2>1, <3>1, <3>2, <3>3
  <2>2. CASE q # r
    <3>1. pc'[q] = pc[q] /\ read'[q] = read[q]
      BY <2>2 DEF LockRow, Goto, TypeOK
    <3>2. Holders(input[q].product) = {q} /\ read[q] = onHand[input[q].product]
          /\ status[input[q].product] # "absent"
      BY <3>1 DEF ReadIsCurrent
    <3>3. pc'[r] = "locked" => input[r].product # input[q].product
      BY <3>2 DEF LockRow, Goto, Holders, TypeOK
    <3>4. Holders(input[q].product)' = {q}
      BY <2>0, <2>2, <3>2, <3>3 DEF LockRow, Goto, Holders, TypeOK
    <3> QED
      BY <2>0, <3>1, <3>2, <3>4
  <2> QED
    BY <2>1, <2>2
<1>3. WriteFits'
  BY DEF LockRow, Goto, Answer, WriteFits, NewOnHand, Recorded, Inserting, TypeOK
<1>4. NothingYet'
  BY DEF LockRow, Goto, Answer, NothingYet, TypeOK
<1>5. AnswerPrepared'
  <2>1. \A q \in Requests : pc'[q] = "audit" => pc[q] = "audit"
    BY DEF LockRow, Goto, TypeOK
  <2> QED
    BY <2>1 DEF LockRow, AnswerPrepared, MovementOf, Recorded
<1>6. OneMovementPerKey' /\ AuditedOnlyCommitted'
  BY DEF LockRow, Goto, Answer, OneMovementPerKey, AuditedOnlyCommitted
<1> QED
  BY <1>1, <1>2, <1>3, <1>4, <1>5, <1>6

LEMMA ProbeInd ==
  ASSUME IndInv, NEW r \in Requests, Probe(r)
  PROVE  IndInv'
<1> USE DEF IndInv, database
<1>1. TypeOK'
  BY DEF Probe, Goto, Answer, TypeOK, Steps, Codes, Rejections
<1>2. ReadIsCurrent'
  BY DEF Probe, Goto, Answer, ReadIsCurrent, Holders, TypeOK
<1>3. WriteFits'
  BY DEF Probe, Goto, Answer, WriteFits, NewOnHand, Recorded, Inserting, TypeOK
<1>4. NothingYet'
  BY DEF Probe, Goto, Answer, NothingYet, TypeOK
<1>5. AnswerPrepared'
  BY DEF Probe, Goto, Answer, AnswerPrepared, NothingYet, MovementOf, Recorded, Rejections, TypeOK
<1>6. OneMovementPerKey' /\ AuditedOnlyCommitted'
  BY DEF Probe, Goto, Answer, OneMovementPerKey, AuditedOnlyCommitted
<1> QED
  BY <1>1, <1>2, <1>3, <1>4, <1>5, <1>6

LEMMA WriteInd ==
  ASSUME IndInv, NEW r \in Requests, Write(r)
  PROVE  IndInv'
<1> USE DEF IndInv, database
<1>1. TypeOK'
  BY DEF Write, Goto, Answer, TypeOK, Steps, Codes, Rejections
<1>2. ReadIsCurrent'
  BY DEF Write, Goto, Answer, ReadIsCurrent, Holders, TypeOK
<1>3. WriteFits'
  BY DEF Write, Goto, Answer, WriteFits, NewOnHand, Recorded, Inserting, TypeOK
<1>4. NothingYet'
  BY DEF Write, Goto, Answer, NothingYet, TypeOK
<1>5. AnswerPrepared'
  BY DEF Write, Goto, Answer, AnswerPrepared, NothingYet, MovementOf, Recorded, Rejections, TypeOK
<1>6. OneMovementPerKey' /\ AuditedOnlyCommitted'
  BY DEF Write, Goto, Answer, OneMovementPerKey, AuditedOnlyCommitted
<1> QED
  BY <1>1, <1>2, <1>3, <1>4, <1>5, <1>6

LEMMA CommitInd ==
  ASSUME IndInv, NEW r \in Requests, Commit(r)
  PROVE  IndInv'
<1> USE DEF IndInv
<1> DEFINE p == input[r].product
<1> DEFINE new == MovementOf(r)
<1>0. /\ p \in Products /\ input[r] \in Inputs
      /\ onHand' = [onHand EXCEPT ![p] = NewOnHand(r)]
      /\ version' = [version EXCEPT ![p] = version[p] + 1]
      /\ movements' = movements \cup {new}
      /\ UNCHANGED <<status, audited, input, read>>
  BY DEF Commit, TypeOK
<1>1. /\ pc[r] = "written" /\ pc'[r] \in {"audit", "done"}
      /\ code'[r] \in {"ok", "error"}
      /\ \A q \in Requests \ {r} : pc'[q] = pc[q] /\ code'[q] = code[q]
  BY DEF Commit, Goto, Answer, TypeOK
<1>2. pc' \in [Requests -> Steps] /\ code' \in [Requests -> Codes]
  BY DEF Commit, Goto, Answer, TypeOK, Steps, Codes
<1>3. /\ new.request = r /\ new.product = p
      /\ new.quantity = input[r].quantity /\ new.key = input[r].key
  BY DEF MovementOf
<1>4. /\ status[p] # "absent" /\ Holders(p) = {r}
      /\ NewOnHand(r) \in 0 .. MaxInt /\ ~Recorded(input[r].key)
      /\ Inserting(input[r].key) \subseteq {r}
  BY <1>1 DEF ReadIsCurrent, WriteFits
<1>5. \A q \in Requests \ {r} : pc[q] \in {"locked", "written"} => input[q].product # p
  BY <1>4 DEF Holders
<1>6. \A q \in Requests \ {r} : pc[q] = "written" =>
         input[r].key = NoKey \/ input[q].key # input[r].key
  BY <1>4 DEF Inserting
<1>7. TypeOK'
  <2>1. new \in Movement
    BY <1>0 DEF MovementOf, Movement, Quantities
  <2>2. onHand' \in [Products -> 0 .. MaxInt] /\ version' \in [Products -> Nat]
    BY <1>0, <1>4 DEF TypeOK
  <2> QED
    BY <1>0, <1>2, <2>1, <2>2 DEF TypeOK
<1>8. ReadIsCurrent'
  <2> SUFFICES ASSUME NEW q \in Requests, pc'[q] \in {"locked", "written"}
               PROVE  /\ status[input[q].product] # "absent"
                      /\ read[q] = onHand'[input[q].product]
                      /\ Holders(input[q].product)' = {q}
    BY <1>0 DEF ReadIsCurrent
  <2>1. q # r /\ pc'[q] = pc[q] /\ input[q].product # p
    BY <1>1, <1>5
  <2>2. status[input[q].product] # "absent" /\ read[q] = onHand[input[q].product]
        /\ Holders(input[q].product) = {q}
    BY <2>1 DEF ReadIsCurrent
  <2>3. onHand'[input[q].product] = onHand[input[q].product]
    BY <1>0, <2>1 DEF TypeOK
  <2>4. Holders(input[q].product)' = {q}
    BY <1>0, <1>1, <2>1, <2>2 DEF Holders
  <2> QED
    BY <2>2, <2>3, <2>4
<1>9. WriteFits'
  <2> SUFFICES ASSUME NEW q \in Requests, pc'[q] = "written"
               PROVE  /\ NewOnHand(q)' \in 0 .. MaxInt
                      /\ ~Recorded(input[q].key)'
                      /\ Inserting(input[q].key)' \subseteq {q}
    BY <1>0 DEF WriteFits
  <2>1. q # r /\ pc[q] = "written"
    BY <1>1
  <2>2. NewOnHand(q) \in 0 .. MaxInt /\ ~Recorded(input[q].key)
        /\ Inserting(input[q].key) \subseteq {q}
    BY <2>1 DEF WriteFits
  <2>3. NewOnHand(q)' \in 0 .. MaxInt
    BY <1>0, <2>2 DEF NewOnHand
  <2>4. ~Recorded(input[q].key)'
    BY <1>0, <1>3, <1>6, <2>1, <2>2 DEF Recorded
  <2>5. Inserting(input[q].key)' \subseteq {q}
    BY <1>0, <1>1, <2>1, <2>2 DEF Inserting
  <2> QED
    BY <2>3, <2>4, <2>5
<1>10. NothingYet'
  BY <1>0, <1>1, <1>3, <1>4 DEF NothingYet, TypeOK
<1>11. AnswerPrepared'
  <2>1. \A q \in Requests : Recorded(input[q].key) => Recorded(input[q].key)'
    BY <1>0 DEF Recorded
  <2>2. \A q \in Requests : MovementOf(q)' = MovementOf(q)
    BY <1>0 DEF MovementOf
  <2>3. ASSUME NEW q \in Requests
        PROVE  /\ code'[q] = "ok" => MovementOf(q)' \in movements'
               /\ code'[q] = "replayed" => Recorded(input[q].key)'
               /\ code'[q] \in Rejections \cup {"replayed"} =>
                    \A m \in movements' : m.request # q
    <3>1. CASE q = r
      BY <1>0, <1>1, <2>2, <3>1 DEF Rejections
    <3>2. CASE q # r
      BY <1>0, <1>1, <1>3, <2>1, <2>2, <3>2 DEF AnswerPrepared
    <3> QED
      BY <3>1, <3>2
  <2>4. ASSUME NEW q \in Requests, pc'[q] = "audit"
        PROVE  \E m \in movements' : m.request = q \/ (m.key = input'[q].key /\ m.key \in Keys)
    <3>1. CASE q = r
      BY <1>0, <1>3, <3>1
    <3>2. CASE q # r
      BY <1>0, <1>1, <2>4, <3>2 DEF AnswerPrepared
    <3> QED
      BY <3>1, <3>2
  <2>5. \A q \in Requests : input'[q].key = input[q].key
    BY <1>0
  <2> QED
    BY <1>0, <2>3, <2>4, <2>5 DEF AnswerPrepared, Recorded
<1>12. OneMovementPerKey'
  BY <1>0, <1>3, <1>4 DEF OneMovementPerKey, Recorded
<1>13. AuditedOnlyCommitted'
  BY <1>0 DEF AuditedOnlyCommitted
<1> QED
  BY <1>7, <1>8, <1>9, <1>10, <1>11, <1>12, <1>13

LEMMA AuditInd ==
  ASSUME IndInv, NEW r \in Requests, Audit(r)
  PROVE  IndInv'
<1> USE DEF IndInv, database
<1>1. TypeOK'
  BY DEF Audit, Goto, Answer, TypeOK, Steps, Codes, Rejections
<1>2. ReadIsCurrent'
  BY DEF Audit, Goto, Answer, ReadIsCurrent, Holders, TypeOK
<1>3. WriteFits'
  BY DEF Audit, Goto, Answer, WriteFits, NewOnHand, Recorded, Inserting, TypeOK
<1>4. NothingYet'
  BY DEF Audit, Goto, Answer, NothingYet, TypeOK
<1>5. AnswerPrepared'
  BY DEF Audit, Goto, Answer, AnswerPrepared, NothingYet, MovementOf, Recorded, Rejections, TypeOK
<1>6. OneMovementPerKey' /\ AuditedOnlyCommitted'
  BY DEF Audit, OneMovementPerKey, AuditedOnlyCommitted, AnswerPrepared
<1> QED
  BY <1>1, <1>2, <1>3, <1>4, <1>5, <1>6

LEMMA AbortInd ==
  ASSUME IndInv, NEW r \in Requests, Abort(r)
  PROVE  IndInv'
<1> USE DEF IndInv, database
<1>1. TypeOK'
  BY DEF Abort, InTransaction, Goto, Answer, TypeOK, Steps, Codes, Rejections
<1>2. ReadIsCurrent'
  BY DEF Abort, InTransaction, Goto, Answer, ReadIsCurrent, Holders, TypeOK
<1>3. WriteFits'
  BY DEF Abort, InTransaction, Goto, Answer, WriteFits, NewOnHand, Recorded, Inserting, TypeOK
<1>4. NothingYet'
  BY DEF Abort, InTransaction, Goto, Answer, NothingYet, TypeOK
<1>5. AnswerPrepared'
  BY DEF Abort, InTransaction, Goto, Answer, AnswerPrepared, NothingYet, MovementOf, Recorded, Rejections, TypeOK
<1>6. OneMovementPerKey' /\ AuditedOnlyCommitted'
  BY DEF Abort, InTransaction, Goto, Answer, OneMovementPerKey, AuditedOnlyCommitted
<1> QED
  BY <1>1, <1>2, <1>3, <1>4, <1>5, <1>6

LEMMA CrashInd ==
  ASSUME IndInv, Crash
  PROVE  IndInv'
<1> USE DEF IndInv, database
<1>1. TypeOK'
  BY DEF Crash, Active, TypeOK, Steps, Codes, Rejections
<1>2. ReadIsCurrent'
  BY DEF Crash, Active, ReadIsCurrent, Holders, TypeOK
<1>3. WriteFits'
  BY DEF Crash, Active, WriteFits, NewOnHand, Recorded, Inserting, TypeOK
<1>4. NothingYet'
  BY DEF Crash, Active, NothingYet, TypeOK
<1>5. AnswerPrepared'
  BY DEF Crash, Active, AnswerPrepared, NothingYet, MovementOf, Recorded, Rejections, TypeOK
<1>6. OneMovementPerKey' /\ AuditedOnlyCommitted'
  BY DEF Crash, Active, OneMovementPerKey, AuditedOnlyCommitted
<1> QED
  BY <1>1, <1>2, <1>3, <1>4, <1>5, <1>6

LEMMA StepInd == IndInv /\ [Next]_vars => IndInv'
<1> SUFFICES ASSUME IndInv, [Next]_vars PROVE IndInv'
  OBVIOUS
<1>1. CASE \E p \in Products, stock \in InitialStocks : CreateProduct(p, stock)
  BY <1>1, CreateProductInd
<1>2. CASE \E p \in Products : ArchiveProduct(p)
  BY <1>2, ArchiveProductInd
<1>3. CASE \E r \in Requests : Receive(r) \/ Step(r) \/ Abort(r)
  BY <1>3, ReceiveInd, BeginInd, LockRowInd, ProbeInd, WriteInd, CommitInd, AuditInd, AbortInd
     DEF Step
<1>4. CASE Crash
  BY <1>4, CrashInd
<1>5. CASE UNCHANGED vars
  <2>1. TypeOK' /\ NothingYet'
    BY <1>5 DEF IndInv, vars, TypeOK, NothingYet
  <2>2. ReadIsCurrent' /\ WriteFits'
    BY <1>5 DEF IndInv, vars, ReadIsCurrent, WriteFits, Holders, NewOnHand, Recorded, Inserting
  <2>3. AnswerPrepared' /\ OneMovementPerKey' /\ AuditedOnlyCommitted'
    BY <1>5 DEF IndInv, vars, AnswerPrepared, OneMovementPerKey, AuditedOnlyCommitted, Recorded, MovementOf
  <2> QED
    BY <2>1, <2>2, <2>3 DEF IndInv
<1> QED
  BY <1>1, <1>2, <1>3, <1>4, <1>5 DEF Next

-----------------------------------------------------------------------------
(* IndInv holds in every reachable state.                                  *)
THEOREM Invariant == Spec => []IndInv
BY InitInd, StepInd, PTL DEF Spec

(* No committed balance is ever negative or beyond its column, and every   *)
(* other variable keeps its type (catalog/repository.go:536-553).          *)
THEOREM TypeCorrect == Spec => []TypeOK
<1>1. IndInv => TypeOK
  BY DEF IndInv
<1> QED
  BY <1>1, Invariant, PTL

(* An idempotency key moves stock at most once, however many duplicates    *)
(* race (catalog/repository.go:473-501 and the unique index).              *)
THEOREM KeyMovesOnce == Spec => []OneMovementPerKey
<1>1. IndInv => OneMovementPerKey
  BY DEF IndInv
<1> QED
  BY <1>1, Invariant, PTL

(* Every answer a client gets is true of the ledger                        *)
(* (catalog/handler.go:266-288).                                           *)
THEOREM AnswersAreTrue == Spec => []AnswerTruthful
<1>1. IndInv => AnswerTruthful
  BY DEF IndInv, AnswerPrepared, AnswerTruthful
<1> QED
  BY <1>1, Invariant, PTL

(* An inventory.adjusted entry always names a committed movement           *)
(* (catalog/service.go:188-204).                                           *)
THEOREM AuditIsSound == Spec => []AuditedOnlyCommitted
<1>1. IndInv => AuditedOnlyCommitted
  BY DEF IndInv
<1> QED
  BY <1>1, Invariant, PTL

-----------------------------------------------------------------------------
(* Refinement of Ledger.                                                   *)

(* Creating a product posts its opening movement, or nothing.              *)
LEMMA CreateProductPosts ==
  ASSUME IndInv, NEW p \in Products, NEW stock \in InitialStocks, CreateProduct(p, stock)
  PROVE  [L!Next]_<<onHand, movements>>
<1> DEFINE m == [request |-> Opening, product |-> p, quantity |-> stock, key |-> NoKey]
<1> USE DEF IndInv
<1>1. stock \in Nat /\ stock <= MaxInt /\ onHand[p] = 0
      /\ \A n \in movements : n.product # p
  BY DEF CreateProduct, NothingYet
<1>2. onHand' = [onHand EXCEPT ![p] = stock]
  BY DEF CreateProduct
<1>3. CASE stock = 0
  <2>1. movements' = movements
    BY <1>3 DEF CreateProduct
  <2>2. onHand' = onHand
    BY <1>1, <1>2, <1>3 DEF TypeOK
  <2> QED
    BY <2>1, <2>2
<1>4. CASE stock > 0
  <2>1. m \in Movement
    BY <1>1 DEF Movement
  <2>2. movements' = movements \cup {m}
    BY <1>4 DEF CreateProduct
  <2>3. L!Fresh(m)
    BY <1>1 DEF L!Fresh, TypeOK, Movement
  <2>4. onHand[p] + stock \in 0 .. MaxInt /\ onHand' = [onHand EXCEPT ![p] = onHand[p] + stock]
    BY <1>1, <1>2
  <2>5. L!Post(m)
    BY <1>4, <2>2, <2>3, <2>4 DEF L!Post
  <2> QED
    BY <2>1, <2>5 DEF L!Next
<1> QED
  BY <1>1, <1>3, <1>4

(* Committing an adjustment posts its movement.                            *)
LEMMA CommitPosts ==
  ASSUME IndInv, NEW r \in Requests, Commit(r)
  PROVE  MovementOf(r) \in Movement /\ L!Post(MovementOf(r))
<1> DEFINE m == MovementOf(r)
<1> USE DEF IndInv
<1>1. /\ m.request = r /\ m.product = input[r].product
      /\ m.quantity = input[r].quantity /\ m.key = input[r].key
  BY DEF MovementOf
<1>2. input[r] \in Inputs /\ input[r].product \in Products /\ pc[r] = "written"
  BY DEF Commit, TypeOK
<1>3. m \in Movement
  BY <1>2 DEF MovementOf, Movement, Quantities
<1>4. read[r] = onHand[m.product] /\ NewOnHand(r) \in 0 .. MaxInt /\ ~Recorded(m.key)
  BY <1>1, <1>2 DEF ReadIsCurrent, WriteFits
<1>5. m.quantity # 0 /\ \A n \in movements : n.request # r
  BY <1>1, <1>2 DEF NothingYet
<1>6. L!Fresh(m)
  BY <1>1, <1>4, <1>5 DEF L!Fresh, Recorded
<1>7. NewOnHand(r) = onHand[m.product] + m.quantity
  BY <1>1, <1>4 DEF NewOnHand
<1>8. onHand' = [onHand EXCEPT ![m.product] = onHand[m.product] + m.quantity]
      /\ movements' = movements \cup {m}
  BY <1>1, <1>7 DEF Commit
<1> QED
  BY <1>3, <1>4, <1>5, <1>6, <1>7, <1>8 DEF L!Post

(* Any other step leaves balances and movements alone.                     *)
LEMMA OthersStutter ==
  ASSUME NEW r \in Requests,
         Receive(r) \/ Begin(r) \/ LockRow(r) \/ Probe(r) \/ Write(r) \/ Audit(r) \/ Abort(r)
  PROVE  UNCHANGED <<onHand, version, movements>>
BY DEF Receive, Begin, LockRow, Probe, Write, Audit, Abort, database

(* Requests, locks, transactions and crashes implement the atomic ledger.  *)
THEOREM Refinement == Spec => ImplementsLedger
<1>1. Init => L!Init
  BY DEF Init, L!Init
<1>2. IndInv /\ [Next]_vars => [L!Next]_<<onHand, movements>>
  <2> SUFFICES ASSUME IndInv, [Next]_vars PROVE [L!Next]_<<onHand, movements>>
    OBVIOUS
  <2>1. ASSUME NEW p \in Products, NEW stock \in InitialStocks, CreateProduct(p, stock)
        PROVE  [L!Next]_<<onHand, movements>>
    BY <2>1, CreateProductPosts
  <2>2. ASSUME NEW r \in Requests, Commit(r)
        PROVE  [L!Next]_<<onHand, movements>>
    BY <2>2, CommitPosts DEF L!Next
  <2>3. ASSUME NEW p \in Products, ArchiveProduct(p)
        PROVE  UNCHANGED <<onHand, movements>>
    BY <2>3 DEF ArchiveProduct
  <2>4. CASE Crash \/ UNCHANGED vars
    BY <2>4 DEF Crash, vars, database
  <2> QED
    BY <2>1, <2>2, <2>3, <2>4, OthersStutter DEF Next, Step
<1> QED
  BY <1>1, <1>2, Invariant, PTL DEF Spec, ImplementsLedger, L!Spec, L!vars

-----------------------------------------------------------------------------
(* Every step that touches the ledger adds exactly one movement and moves  *)
(* one balance by it.                                                      *)
LEMMA StepPosts == IndInv /\ [Next]_vars => [Posting]_<<onHand, version, movements>>
<1> SUFFICES ASSUME IndInv, [Next]_vars PROVE [Posting]_<<onHand, version, movements>>
  OBVIOUS
<1>1. ASSUME NEW p \in Products, NEW stock \in InitialStocks, CreateProduct(p, stock)
      PROVE  Posting
  <2>1. stock \in Nat /\ p \in DOMAIN onHand /\ p \in DOMAIN version
        /\ onHand[p] = 0 /\ version[p] = 0
    BY <1>1 DEF IndInv, TypeOK, NothingYet, CreateProduct
  <2>2. onHand' = [onHand EXCEPT ![p] = stock] /\ version' = [version EXCEPT ![p] = 1]
    BY <1>1 DEF CreateProduct
  <2>3. CASE stock = 0
    <3>1. movements' = movements /\ onHand' = onHand
      BY <1>1, <2>1, <2>2, <2>3 DEF CreateProduct, IndInv, TypeOK
    <3> QED
      BY <3>1 DEF Posting
  <2>4. CASE stock > 0
    <3> DEFINE o == [request |-> Opening, product |-> p, quantity |-> stock, key |-> NoKey]
    <3>1. movements' = movements \cup {o}
      BY <1>1, <2>4 DEF CreateProduct
    <3>2. \A m \in movements : m.product # p
      BY <1>1 DEF IndInv, NothingYet, CreateProduct
    <3>3. o.product = p /\ o.quantity = stock
      OBVIOUS
    <3>4. onHand'[p] = stock /\ version'[p] = 1 /\ movements' \ movements = {o}
      BY <2>1, <2>2, <3>1, <3>2, <3>3
    <3>5. \A q \in Products : onHand'[q] # onHand[q] => q = p
      BY <2>2 DEF IndInv, TypeOK
    <3>6. onHand[p] + o.quantity = stock /\ version[p] + 1 = 1
      BY <2>1, <3>3
    <3> HIDE DEF o
    <3> QED
      BY <3>1, <3>3, <3>4, <3>5, <3>6 DEF Posting
  <2> QED
    BY <2>1, <2>3, <2>4
<1>2. ASSUME NEW r \in Requests, Commit(r)
      PROVE  Posting
  <2> DEFINE m == MovementOf(r)
  <2>1. m.request = r /\ m.product = input[r].product /\ m.quantity = input[r].quantity
        /\ m.product \in Products
    BY <1>2 DEF MovementOf, IndInv, TypeOK
  <2>2. NewOnHand(r) = onHand[m.product] + m.quantity
    BY <1>2, <2>1 DEF NewOnHand, Commit, IndInv, ReadIsCurrent
  <2>3. /\ onHand' = [onHand EXCEPT ![m.product] = NewOnHand(r)]
        /\ version' = [version EXCEPT ![m.product] = version[m.product] + 1]
        /\ movements' = movements \cup {m}
    BY <1>2, <2>1 DEF Commit
  <2>4. movements' \ movements = {m}
    <3>1. \A n \in movements : n.request # r
      BY <1>2 DEF IndInv, NothingYet, Commit
    <3> QED
      BY <2>1, <2>3, <3>1
  <2>5. onHand'[m.product] = onHand[m.product] + m.quantity
        /\ version'[m.product] = version[m.product] + 1
        /\ \A q \in Products : onHand'[q] # onHand[q] => q = m.product
    <3> HIDE DEF m
    <3> QED
      BY <2>1, <2>2, <2>3 DEF IndInv, TypeOK
  <2> QED
    BY <2>3, <2>4, <2>5 DEF Posting
<1>3. ASSUME NEW p \in Products, ArchiveProduct(p)
      PROVE  UNCHANGED <<onHand, version, movements>>
  BY <1>3 DEF ArchiveProduct
<1>4. CASE Crash \/ UNCHANGED vars
  BY <1>4 DEF Crash, vars, database
<1> QED
  BY <1>1, <1>2, <1>3, <1>4, OthersStutter DEF Next, Step

(* A balance never changes but by the one movement added in the same step  *)
(* (docs/03: never update stock silently).                                 *)
THEOREM LedgerStepAlways == Spec => LedgerStep
BY StepPosts, Invariant, PTL DEF Spec, LedgerStep

-----------------------------------------------------------------------------
(* Sums.  Total adds the quantities up in an order CHOOSE picks; the table *)
(* of the partial sums of S is what its recursion defines.                 *)
Table(it, S) == it = [s \in SUBSET S |->
  IF s = {} THEN 0 ELSE LET x == CHOOSE x \in s : TRUE IN x.quantity + it[s \ {x}]]
TableOf(S) == CHOOSE it : Table(it, S)

(* Total reads the table.                                                  *)
LEMMA TotalByTable == \A S : Total(S) = TableOf(S)[S]
BY DEF Total, Table, TableOf, MapThenSumSet, MapThenFoldSet

(* Induction over the subsets of a finite set, as a smallest exception.    *)
LEMMA Smallest ==
  ASSUME NEW S, IsFiniteSet(S), NEW B, B \subseteq SUBSET S, B # {}
  PROVE  \E s \in B : \A t \in B : t \subseteq s => t = s
<1>1. IsWellFoundedOn(StrictSubsetOrdering(S), SUBSET S)
  BY FS_StrictSubsetOrderingWellFounded, FS_FiniteSubsetsOfFinite
<1>2. PICK s \in B : \A t \in B : ~ (<<t, s>> \in StrictSubsetOrdering(S))
  BY <1>1, WFMin
<1>3. \A t \in B : t \subseteq s => t = s
  BY <1>2 DEF StrictSubsetOrdering
<1> QED
  BY <1>3

(* Two tables agree where both are defined.                                *)
LEMMA TablesAgree ==
  ASSUME NEW S, NEW T, IsFiniteSet(S), NEW i, NEW j, Table(i, S), Table(j, T)
  PROVE  \A s \in SUBSET (S \cap T) : i[s] = j[s]
<1> DEFINE B == {s \in SUBSET (S \cap T) : i[s] # j[s]}
<1> SUFFICES ASSUME B # {} PROVE FALSE
  OBVIOUS
<1>1. IsFiniteSet(S \cap T)
  BY FS_Subset
<1>2. PICK s \in B : \A t \in B : t \subseteq s => t = s
  <2>1. B \subseteq SUBSET (S \cap T)
    OBVIOUS
  <2> HIDE DEF B
  <2> QED
    BY <1>1, <2>1, Smallest
<1> DEFINE x == CHOOSE x \in s : TRUE
<1>3. /\ i[s] = IF s = {} THEN 0 ELSE x.quantity + i[s \ {x}]
      /\ j[s] = IF s = {} THEN 0 ELSE x.quantity + j[s \ {x}]
  <2>1. s \in SUBSET S /\ s \in SUBSET T
    OBVIOUS
  <2> QED
    BY <2>1 DEF Table
<1>4. s # {} /\ x \in s
  BY <1>3
<1>5. s \ {x} \in SUBSET (S \cap T) /\ s \ {x} # s /\ s \ {x} \subseteq s
  BY <1>4
<1>6. i[s \ {x}] = j[s \ {x}]
  BY <1>2, <1>5
<1> QED
  BY <1>3, <1>6

(* The recursion defines something: every finite set has its table.        *)
LEMMA TableExists ==
  ASSUME NEW S, IsFiniteSet(S)
  PROVE  Table(TableOf(S), S)
<1> DEFINE B == {s \in SUBSET S : ~ Table(TableOf(s), s)}
<1> SUFFICES ASSUME B # {} PROVE FALSE
  OBVIOUS
<1>1. PICK s \in B : \A t \in B : t \subseteq s => t = s
  <2>1. B \subseteq SUBSET S
    OBVIOUS
  <2> HIDE DEF B
  <2> QED
    BY <2>1, Smallest
<1> DEFINE V(t) == TableOf(t)[t]
           E(u) == CHOOSE x \in u : TRUE
           g == [u \in SUBSET s |-> IF u = {} THEN 0 ELSE E(u).quantity + V(u \ {E(u)})]
<1>2. ASSUME NEW t \in SUBSET s, t # s PROVE Table(TableOf(t), t)
  BY <1>1, <1>2
<1>3. \A u \in SUBSET s : u # {} => E(u) \in u /\ u \ {E(u)} \in SUBSET s /\ u \ {E(u)} # s
  OBVIOUS
<1>4. ASSUME NEW t \in SUBSET s, t # s PROVE g[t] = V(t)
  <2>1. V(t) = IF t = {} THEN 0 ELSE E(t).quantity + TableOf(t)[t \ {E(t)}]
    BY <1>2, <1>4 DEF Table
  <2>2. CASE t = {}
    BY <2>1, <2>2
  <2>3. CASE t # {}
    <3>1. IsFiniteSet(t)
      BY FS_Subset
    <3>2. t \ {E(t)} \in SUBSET s /\ t \ {E(t)} # s /\ t \ {E(t)} \in SUBSET (t \cap (t \ {E(t)}))
      BY <1>3, <2>3
    <3>3. Table(TableOf(t), t) /\ Table(TableOf(t \ {E(t)}), t \ {E(t)})
      BY <1>2, <1>4, <3>2
    <3>4. TableOf(t)[t \ {E(t)}] = V(t \ {E(t)})
      BY <3>1, <3>2, <3>3, TablesAgree
    <3> QED
      BY <2>1, <2>3, <3>4
  <2> QED
    BY <2>2, <2>3
<1>5. Table(g, s)
  <2>1. \A u \in SUBSET s : g[u] = IF u = {} THEN 0 ELSE E(u).quantity + g[u \ {E(u)}]
    <3> SUFFICES ASSUME NEW u \in SUBSET s
                 PROVE  g[u] = IF u = {} THEN 0 ELSE E(u).quantity + g[u \ {E(u)}]
      OBVIOUS
    <3>1. CASE u = {}
      BY <3>1
    <3>2. CASE u # {}
      <4>1. g[u \ {E(u)}] = V(u \ {E(u)})
        BY <1>3, <1>4, <3>2
      <4>2. g[u] = E(u).quantity + V(u \ {E(u)})
        BY <3>2
      <4> HIDE DEF g, V, E
      <4> QED
        BY <3>2, <4>1, <4>2
    <3> QED
      BY <3>1, <3>2
  <2> HIDE DEF g
  <2>2. g = [u \in SUBSET s |-> g[u]]
    BY DEF g
  <2> QED
    BY <2>1, <2>2 DEF Table
<1>6. Table(TableOf(s), s)
  BY <1>5 DEF TableOf
<1> QED
  BY <1>6

(* So a total is one quantity and the total of the rest.                   *)
LEMMA TotalStep ==
  ASSUME NEW S, IsFiniteSet(S)
  PROVE  Total(S) = IF S = {} THEN 0
                    ELSE LET x == CHOOSE x \in S : TRUE IN x.quantity + Total(S \ {x})
<1> DEFINE x == CHOOSE x \in S : TRUE
<1>1. Total(S) = IF S = {} THEN 0 ELSE x.quantity + TableOf(S)[S \ {x}]
  BY TotalByTable, TableExists DEF Table
<1>2. TableOf(S)[S \ {x}] = TableOf(S \ {x})[S \ {x}]
  <2>1. IsFiniteSet(S \ {x})
    BY FS_Subset
  <2>2. Table(TableOf(S), S) /\ Table(TableOf(S \ {x}), S \ {x})
    BY <2>1, TableExists
  <2>3. S \ {x} \in SUBSET (S \cap (S \ {x}))
    OBVIOUS
  <2> DEFINE T == S \ {x}
  <2> HIDE DEF T
  <2>4. \A s \in SUBSET (S \cap T) : TableOf(S)[s] = TableOf(T)[s]
    BY <2>2, TablesAgree DEF T
  <2> QED
    BY <2>3, <2>4 DEF T
<1> QED
  BY <1>1, <1>2, TotalByTable

(* Totals of integers are integers.                                        *)
LEMMA TotalInt ==
  ASSUME NEW S, IsFiniteSet(S), \A m \in S : m.quantity \in Int
  PROVE  Total(S) \in Int
<1> DEFINE B == {s \in SUBSET S : Total(s) \notin Int}
<1> SUFFICES ASSUME B # {} PROVE FALSE
  OBVIOUS
<1>1. PICK s \in B : \A t \in B : t \subseteq s => t = s
  <2>1. B \subseteq SUBSET S
    OBVIOUS
  <2> HIDE DEF B
  <2> QED
    BY <2>1, Smallest
<1> DEFINE x == CHOOSE x \in s : TRUE
<1>2. Total(s) = IF s = {} THEN 0 ELSE x.quantity + Total(s \ {x})
  BY FS_Subset, TotalStep
<1>3. CASE s = {}
  BY <1>2, <1>3
<1>4. CASE s # {}
  <2>1. x \in s /\ s \ {x} \in SUBSET S /\ s \ {x} # s
    BY <1>4
  <2>2. Total(s \ {x}) \in Int /\ x.quantity \in Int
    BY <1>1, <2>1
  <2> HIDE DEF x
  <2> QED
    BY <1>2, <1>4, <2>2
<1> QED
  BY <1>3, <1>4

(* Whichever element is taken out: the order does not matter.              *)
LEMMA TotalWithout ==
  ASSUME NEW S, IsFiniteSet(S), \A m \in S : m.quantity \in Int, NEW y \in S
  PROVE  Total(S) = y.quantity + Total(S \ {y})
<1> DEFINE Bad(s) == \E z \in s : Total(s) # z.quantity + Total(s \ {z})
           B == {s \in SUBSET S : Bad(s)}
<1> SUFFICES ASSUME B # {} PROVE FALSE
  OBVIOUS
<1>1. PICK s \in B : \A t \in B : t \subseteq s => t = s
  <2>1. B \subseteq SUBSET S
    OBVIOUS
  <2> HIDE DEF B
  <2> QED
    BY <2>1, Smallest
<1>2. PICK z \in s : Total(s) # z.quantity + Total(s \ {z})
  OBVIOUS
<1> DEFINE x == CHOOSE x \in s : TRUE
<1>3. x \in s /\ Total(s) = x.quantity + Total(s \ {x})
  BY <1>2, FS_Subset, TotalStep
<1> HIDE DEF x
<1>4. x # z
  BY <1>2, <1>3
<1> DEFINE t == s \ {x}  u == s \ {z}  v == (s \ {x}) \ {z}
<1>5. Total(t) = z.quantity + Total(v)
  <2>1. t \in SUBSET S /\ t # s /\ z \in t
    BY <1>3, <1>4
  <2> QED
    BY <1>1, <2>1
<1>6. Total(u) = x.quantity + Total(v)
  <2>1. u \in SUBSET S /\ u # s /\ x \in u
    BY <1>3, <1>4
  <2>2. u \ {x} = v
    OBVIOUS
  <2> QED
    BY <1>1, <2>1, <2>2
<1>7. x.quantity \in Int /\ z.quantity \in Int /\ Total(v) \in Int
  <2>1. v \subseteq S /\ IsFiniteSet(v)
    BY FS_Subset
  <2> QED
    BY <1>3, <2>1, TotalInt
<1> QED
  <2>1. Total(s) = x.quantity + (z.quantity + Total(v)) /\ Total(s) # z.quantity + (x.quantity + Total(v))
    BY <1>2, <1>3, <1>5, <1>6
  <2> QED
    BY <2>1, <1>7

(* The total with one movement more.                                       *)
LEMMA TotalWith ==
  ASSUME NEW S, IsFiniteSet(S), \A m \in S : m.quantity \in Int,
         NEW y, y \notin S, y.quantity \in Int
  PROVE  Total(S \cup {y}) = Total(S) + y.quantity
<1> DEFINE T == S \cup {y}
<1>1. IsFiniteSet(T) /\ (\A m \in T : m.quantity \in Int) /\ y \in T /\ T \ {y} = S
  BY FS_AddElement
<1> HIDE DEF T
<1>2. Total(T) = y.quantity + Total(S)
  BY <1>1, TotalWithout
<1>3. Total(S) \in Int
  BY TotalInt
<1> QED
  BY <1>2, <1>3 DEF T

-----------------------------------------------------------------------------
(* At every moment the balance of a product is the sum of its committed    *)
(* movements (docs/03): no update is lost and none is counted twice.       *)
THEOREM BalancesAddUp == Spec => []BalanceIsLedgerSum
<1> DEFINE Sums == IsFiniteSet(movements) /\ BalanceIsLedgerSum
<1>1. Init => Sums
  <2>1. Total({}) = 0
    BY FS_EmptySet, TotalStep
  <2>2. Init => movements = {} /\ onHand = [p \in Products |-> 0]
    BY DEF Init
  <2> QED
    BY <2>1, <2>2, FS_EmptySet DEF BalanceIsLedgerSum
<1>2. IndInv /\ IndInv' /\ Sums /\ [Posting]_<<onHand, version, movements>> => Sums'
  <2> SUFFICES ASSUME IndInv, IndInv', Sums, Posting PROVE Sums'
    BY DEF BalanceIsLedgerSum
  <2> DEFINE Of(p) == {m \in movements : m.product = p}
  <2>1. IsFiniteSet(movements) /\ \A p \in Products : onHand[p] = Total(Of(p))
    BY DEF BalanceIsLedgerSum
  <2>2. CASE movements' = movements
    <3>1. \A p \in Products : onHand'[p] = onHand[p] /\ Of(p)' = Of(p)
      BY <2>2 DEF Posting
    <3>2. IsFiniteSet(movements)'
      BY <2>1, <2>2
    <3> QED
      BY <2>1, <3>1, <3>2 DEF BalanceIsLedgerSum
  <2>3. CASE movements' # movements
    <3>1. PICK m : m \in movements' \ movements
      BY <2>3 DEF Posting
    <3>2. movements' = movements \cup {m} /\ IsFiniteSet(movements)'
      BY <2>1, <3>1, FS_AddElement DEF Posting
    <3>3. \A n \in movements' : n.quantity \in Int
      <4>1. \A n \in movements' : n \in Movement
        BY DEF IndInv, TypeOK
      <4>2. \A n \in Movement : n.quantity \in Quantities \cup InitialStocks
        BY DEF Movement
      <4>3. Quantities \subseteq Int /\ InitialStocks \subseteq Int
        BY DEF Quantities
      <4> QED
        BY <4>1, <4>2, <4>3
    <3>4. ASSUME NEW p \in Products, m.product # p
          PROVE  onHand'[p] = Total(Of(p)')
      <4>1. onHand'[p] = onHand[p] /\ Of(p)' = Of(p)
        BY <3>1, <3>2, <3>4 DEF Posting
      <4> QED
        BY <2>1, <4>1
    <3>5. ASSUME NEW p \in Products, m.product = p
          PROVE  onHand'[p] = Total(Of(p)')
      <4>1. onHand'[p] = onHand[p] + m.quantity
        BY <3>1, <3>5 DEF Posting
      <4>2. Of(p)' = Of(p) \cup {m} /\ m \notin Of(p)
        BY <3>1, <3>2, <3>5
      <4>3. IsFiniteSet(Of(p)) /\ \A n \in Of(p) : n.quantity \in Int
        BY <2>1, <3>2, <3>3, FS_Subset
      <4>4. Total(Of(p) \cup {m}) = Total(Of(p)) + m.quantity
        <5> HIDE DEF Of
        <5> QED
          BY <3>2, <3>3, <4>2, <4>3, TotalWith
      <4> QED
        BY <2>1, <4>1, <4>2, <4>4
    <3> QED
      BY <3>2, <3>4, <3>5 DEF BalanceIsLedgerSum
  <2> QED
    BY <2>2, <2>3
<1> QED
  BY <1>1, <1>2, Invariant, StepPosts, PTL DEF Spec

-----------------------------------------------------------------------------
(* One request's steps leave the others where they are.                    *)
LEMMA OthersWait ==
  ASSUME IndInv, NEW r \in Requests, NEW q \in Requests \ {r}, Receive(q) \/ Step(q) \/ Abort(q)
  PROVE  pc'[r] = pc[r] /\ code'[r] = code[r]
BY DEF Receive, Step, Begin, LockRow, Probe, Write, Commit, Audit, Abort, Goto, Answer, IndInv, TypeOK

(* No answer is prepared before the key has been looked up.                *)
Unanswered(r) == pc[r] \in {"idle", "begin"} => code[r] = "none"

(* A key on record, and its request not past the lookup, or replayed, or   *)
(* over without a rejection.                                               *)
Settled(r) ==
  /\ input[r].key \in Keys /\ Recorded(input[r].key)
  /\ pc[r] \in {"idle", "begin", "audit", "done"}
  /\ code[r] \notin Rejections \ {"invalid"}

(* What the steps of the request itself do to either.                      *)
LEMMA OwnSteps ==
  ASSUME IndInv, NEW r \in Requests, Receive(r) \/ Step(r) \/ Abort(r)
  PROVE  /\ Unanswered(r) => Unanswered(r)'
         /\ Settled(r) => /\ pc'[r] \in {"idle", "begin", "audit", "done"}
                          /\ code'[r] \notin Rejections \ {"invalid"}
<1> USE DEF IndInv, TypeOK, Unanswered, Settled, Rejections
<1>1. CASE Receive(r)
  BY <1>1 DEF Receive, Goto, Answer
<1>2. CASE Begin(r)
  BY <1>2 DEF Begin, Goto
<1>3. CASE LockRow(r) \/ Probe(r) \/ Write(r) \/ Commit(r)
  BY <1>3 DEF LockRow, Probe, Write, Commit, Goto, Answer
<1>4. CASE Audit(r)
  BY <1>4 DEF Audit, Goto
<1>5. CASE Abort(r)
  BY <1>5 DEF Abort, Answer
<1> QED
  BY <1>1, <1>2, <1>3, <1>4, <1>5 DEF Step

(* Both last, whoever takes the step.                                      *)
LEMMA SettledStays ==
  ASSUME IndInv, [Next]_vars, NEW r \in Requests
  PROVE  (Unanswered(r) => Unanswered(r)') /\ (Settled(r) => Settled(r)')
<1>1. input' = input /\ (Recorded(input[r].key) => Recorded(input[r].key)')
  <2>1. input' = input
    BY DEF Next, CreateProduct, ArchiveProduct, Receive, Step, Begin, LockRow, Probe, Write,
           Commit, Audit, Abort, Crash, vars
  <2>2. movements \subseteq movements'
    BY StepPosts DEF Posting
  <2> QED
    BY <2>1, <2>2 DEF Recorded
<1>2. CASE pc'[r] = pc[r] /\ code'[r] = code[r]
  BY <1>1, <1>2 DEF Unanswered, Settled
<1>3. CASE Receive(r) \/ Step(r) \/ Abort(r)
  BY <1>1, <1>3, OwnSteps DEF Settled
<1>4. CASE Crash
  BY <1>1, <1>4 DEF Crash, Active, Unanswered, Settled, Rejections
<1>5. CASE UNCHANGED <<pc, code>>
  BY <1>2, <1>5
<1>6. (\E p \in Products : ArchiveProduct(p) \/ \E stock \in InitialStocks : CreateProduct(p, stock))
      \/ UNCHANGED vars => UNCHANGED <<pc, code>>
  BY DEF ArchiveProduct, CreateProduct, vars
<1> QED
  BY <1>2, <1>3, <1>4, <1>5, <1>6, OthersWait DEF Next

(* A retry that comes to the server when its key is on record is never     *)
(* rejected: the lookup finds the movement before product, stock and       *)
(* column limits are looked at (catalog/repository.go:473-497).            *)
THEOREM RetriesAreNotRejected == Spec => RetryNeverRejected
<1> SUFFICES ASSUME NEW r \in Requests
             PROVE  Spec => []( pc[r] \in {"idle", "begin"} /\ input[r].key \in Keys /\ Recorded(input[r].key)
                                => [](code[r] \notin Rejections \ {"invalid"}))
  BY DEF RetryNeverRejected
<1>1. Init => Unanswered(r)
  BY DEF Init, Unanswered
<1>2. IndInv /\ [Next]_vars /\ Unanswered(r) => Unanswered(r)'
  BY SettledStays
<1>3. Unanswered(r) /\ pc[r] \in {"idle", "begin"} /\ input[r].key \in Keys /\ Recorded(input[r].key)
      => Settled(r)
  BY DEF Unanswered, Settled, Rejections
<1>4. IndInv /\ [Next]_vars /\ Settled(r) => Settled(r)'
  BY SettledStays
<1>5. Settled(r) => code[r] \notin Rejections \ {"invalid"}
  BY DEF Settled
<1> QED
  BY <1>1, <1>2, <1>3, <1>4, <1>5, Invariant, PTL DEF Spec

=============================================================================

--------------------------- MODULE RecordsProofs ---------------------------
(***************************************************************************)
(* The safety properties of Records for any number of rows and requests,   *)
(* any columns, SKUs and calls.  IndInv is shown to be inductive, one      *)
(* lemma per action; the properties follow from it.                        *)
(***************************************************************************)
EXTENDS Records, TLAPS

-----------------------------------------------------------------------------
(* What all steps of a request have in common.                             *)

(* A request that has come in has its call.                                *)
LEMMA CallFits ==
  ASSUME TypeOK, NothingYet, NEW r \in Requests, pc[r] # "idle"
  PROVE  call[r] \in Call
BY CallAssumption DEF TypeOK, NothingYet

(* A request's step leaves the others where they are; its call and what    *)
(* came before it do not change any more, nor the answer it is given.      *)
LEMMA Progress ==
  ASSUME IndInv, NEW r \in Requests, (\E c \in Calls : Arrive(r, c)) \/ Step(r) \/ Abort(r)
  PROVE  /\ \A q \in Requests \ {r} : UNCHANGED <<call[q], pc[q], code[q], loaded[q], before[q]>>
         /\ pc[r] # "idle" => UNCHANGED <<call[r], before[r]>>
         /\ pc[r] = "idle" => before'[r] = {q \in Requests : pc[q] = "done"}
         /\ pc[r] # "done"
         /\ pc[r] = "audit" => pc'[r] = "done" /\ code'[r] = code[r]
         /\ pc'[r] = "store" => pc[r] = "load"
<1> USE DEF IndInv, TypeOK
<1>1. CASE \E c \in Calls : Arrive(r, c)
  <2>1. PICK c \in Calls : Arrive(r, c)
    BY <1>1
  <2>2. /\ call' = [call EXCEPT ![r] = c] /\ pc[r] = "idle" /\ UNCHANGED loaded
        /\ before' = [before EXCEPT ![r] = {q \in Requests : pc[q] = "done"}]
    BY <2>1 DEF Arrive
  <2>3. /\ \A q \in Requests \ {r} : UNCHANGED <<pc[q], code[q]>>
        /\ pc'[r] # "store"
    BY <2>1, CallAssumption DEF Arrive, Goto, Answer, Call
  <2> QED
    BY <2>2, <2>3
<1>2. CASE Create(r)
  BY <1>2 DEF Create, Applied, Answer
<1>3. CASE Load(r)
  BY <1>3 DEF Load, Goto, Answer
<1>4. CASE Store(r) \/ Archive(r)
  BY <1>4 DEF Store, Archive, Applied, Answer
<1>5. CASE Audit(r) \/ Abort(r)
  BY <1>5 DEF Audit, Abort, Goto, Answer
<1> QED
  BY <1>1, <1>2, <1>3, <1>4, <1>5 DEF Step

(* What may have overwritten a column, still may have.                     *)
LEMMA OverwrittenStays ==
  ASSUME IndInv, NEW r \in Requests, (\E c \in Calls : Arrive(r, c)) \/ Step(r) \/ Abort(r),
         NEW w \in Requests, code[w] = "ok", NEW f, Overwritten(w, f)
  PROVE  Overwritten(w, f)'
<1>1. pc[w] # "idle"
  BY DEF IndInv, NothingYet
<1>2. PICK q \in Requests \ (before[w] \cup {w}) :
        Wrote(q, call[w].id) /\ (f \in call[q].fields \/ w \notin before[q])
  BY DEF Overwritten
<1>3. UNCHANGED <<call[w], before[w], call[q], before[q]>>
  BY <1>1, <1>2, Progress DEF Wrote
<1>4. Wrote(q, call[w].id)'
  BY <1>2, <1>3, Progress DEF Wrote
<1> QED
  BY <1>2, <1>3, <1>4 DEF Overwritten

(* The history stays a history, and what the others have read stays fresh. *)
LEMMA HistoryKept ==
  ASSUME IndInv, NEW r \in Requests, (\E c \in Calls : Arrive(r, c)) \/ Step(r) \/ Abort(r)
  PROVE  BeforeIsOver' /\ \A q \in Requests \ {r} : pc'[q] = "store" => Fresh(q)'
<1>1. \A q, w \in Requests : w \in before[q] => pc[w] = "done" /\ w # r
  BY Progress DEF IndInv, BeforeIsOver
<1>2. BeforeIsOver'
  BY <1>1, Progress DEF BeforeIsOver, IndInv, TypeOK
<1>3. ASSUME NEW q \in Requests \ {r}, pc'[q] = "store"
      PROVE  Fresh(q)'
  <2>1. Fresh(q) /\ UNCHANGED <<before[q], call[q], loaded[q]>>
    BY <1>3, Progress DEF IndInv, LoadedIsFresh
  <2>2. ASSUME NEW w \in before[q]
        PROVE  w \in Requests /\ UNCHANGED <<code[w], call[w]>>
    BY <1>1, Progress DEF IndInv, TypeOK
  <2> QED
    BY <2>1, <2>2, OverwrittenStays DEF Fresh
<1> QED
  BY <1>2, <1>3

(* A step that writes no row and does not end an update or an archival     *)
(* well keeps what is about rows and answers.                              *)
LEMMA RowsKept ==
  ASSUME IndInv, NEW r \in Requests, (\E c \in Calls : Arrive(r, c)) \/ Step(r) \/ Abort(r),
         UNCHANGED row,
         code'[r] = "ok" => code[r] = "ok" \/ call'[r].op \notin {"update", "archive"}
  PROVE  LiveSkuUnique' /\ ArchiveEffect' /\ OneArchive' /\ UpdatesKept'
<1>1. \A w \in Requests : code'[w] = "ok" /\ call'[w].op \in {"update", "archive"} =>
        code[w] = "ok" /\ call'[w] = call[w]
  BY Progress DEF IndInv, NothingYet
<1>2. LiveSkuUnique'
  BY DEF IndInv, LiveSkuUnique
<1>3. ArchiveEffect' /\ OneArchive'
  BY <1>1 DEF IndInv, ArchiveEffect, OneArchive
<1>4. UpdatesKept'
  BY <1>1, OverwrittenStays DEF IndInv, UpdatesKept
<1> QED
  BY <1>2, <1>3, <1>4

-----------------------------------------------------------------------------
LEMMA InitInd == Init => IndInv
<1> SUFFICES ASSUME Init PROVE IndInv
  OBVIOUS
<1> USE DEF Init
<1>1. \A i \in Existing :
        [business |-> Made[i].business, sku |-> Made[i].sku,
         values |-> [f \in Fields |-> Original], archived |-> FALSE] \in Row
  BY MadeAssumption DEF Row
<1>2. TypeOK
  BY <1>1 DEF TypeOK, Steps, Codes, Ids
<1>3. NothingYet
  BY <1>1, NamesApart DEF NothingYet, Ids
<1>4. ArchiveEffect /\ OneArchive /\ BeforeIsOver /\ LoadedIsFresh /\ UpdatesKept
  BY DEF ArchiveEffect, OneArchive, BeforeIsOver, LoadedIsFresh, UpdatesKept
<1>5. LiveSkuUnique
  <2> SUFFICES ASSUME NEW i \in Ids, NEW j \in Ids, row[i] # NoRow, row[j] # NoRow,
                      row[i].business = row[j].business, row[i].sku = row[j].sku, row[i].sku # NoSku
               PROVE  i = j
    BY DEF LiveSkuUnique
  <2>1. i \in Existing /\ j \in Existing
    OBVIOUS
  <2>2. Made[i].business = Made[j].business /\ Made[i].sku = Made[j].sku /\ Made[i].sku # NoSku
    BY <2>1
  <2>3. Made[i] = Made[j]
    BY <2>1, <2>2, MadeAssumption
  <2> QED
    BY <2>1, <2>2, <2>3, MadeAssumption
<1> QED
  BY <1>2, <1>3, <1>4, <1>5 DEF IndInv

-----------------------------------------------------------------------------
(* One lemma per action.                                                   *)

LEMMA ArriveInd ==
  ASSUME IndInv, NEW r \in Requests, NEW c \in Calls, Arrive(r, c)
  PROVE  IndInv'
<1>1. /\ UNCHANGED <<row, audited, loaded>> /\ call' = [call EXCEPT ![r] = c] /\ pc[r] = "idle"
      /\ c \in Call /\ c # NoCall /\ code[r] = "none"
  BY CallAssumption, NamesApart DEF Arrive, IndInv, NothingYet
<1>2. \/ pc' = [pc EXCEPT ![r] = "done"] /\ code' = [code EXCEPT ![r] = "invalid"]
      \/ /\ pc' = [pc EXCEPT ![r] = IF c.op \in {"read", "update"} THEN "load" ELSE c.op]
         /\ code' = code
  BY DEF Arrive, Goto, Answer
<1>3. TypeOK'
  <2>1. c.op \in {"create", "read", "update", "archive"}
    BY <1>1 DEF Call
  <2>2. pc' \in [Requests -> Steps] /\ code' \in [Requests -> Codes]
    BY <1>2, <2>1 DEF IndInv, TypeOK, Steps, Codes
  <2> QED
    BY <1>1, <2>2 DEF Arrive, IndInv, TypeOK
<1>4. NothingYet'
  BY <1>1, <1>2 DEF IndInv, TypeOK, NothingYet, Call
<1>5. code'[r] # "ok"
  BY <1>1, <1>2 DEF IndInv, TypeOK
<1>6. LoadedIsFresh'
  BY HistoryKept, Progress, <1>1 DEF LoadedIsFresh
<1> QED
  BY <1>1, <1>3, <1>4, <1>5, <1>6, HistoryKept, RowsKept DEF IndInv

LEMMA LoadInd ==
  ASSUME IndInv, NEW r \in Requests, Load(r)
  PROVE  IndInv'
<1> DEFINE i == call[r].id
<1>1. UNCHANGED <<row, audited, call, before>> /\ pc[r] = "load" /\ Step(r)
  BY DEF Load, Step
<1>2. call[r] \in Call /\ i \in Existing /\ call[r].op \in {"read", "update"}
  BY <1>1, CallFits DEF IndInv, NothingYet, Call
<1>3. row[i] \in Row /\ row[i] # NoRow
  BY <1>2, NamesApart DEF IndInv, TypeOK, NothingYet, Ids
<1>4. TypeOK'
  BY <1>1, <1>3 DEF Load, Goto, Answer, IndInv, TypeOK, Steps, Codes
<1>5. NothingYet'
  BY <1>1, <1>2, <1>3 DEF Load, Goto, Answer, IndInv, TypeOK, NothingYet
<1>6. code'[r] = "ok" => code[r] = "ok" \/ call'[r].op \notin {"update", "archive"}
  BY <1>1, <1>2 DEF Load, Goto, Answer, IndInv, TypeOK
<1>7. LoadedIsFresh'
  <2> SUFFICES ASSUME pc'[r] = "store" PROVE Fresh(r)'
    BY HistoryKept, <1>1 DEF LoadedIsFresh
  <2>1. loaded'[r] = row[i]
    BY DEF Load, Goto, Answer, IndInv, TypeOK
  <2>2. ASSUME NEW w \in before[r], code'[w] = "ok", call[w].op = "update", call[w].id = i,
               NEW f \in call[w].fields
        PROVE  row[i].values[f] = w \/ Overwritten(w, f)'
    <3>1. w \in Requests /\ w # r /\ code[w] = "ok"
      BY <1>1, <2>2, Progress DEF IndInv, TypeOK, BeforeIsOver
    <3> QED
      BY <1>1, <2>2, <3>1, OverwrittenStays DEF IndInv, UpdatesKept
  <2> QED
    BY <1>1, <2>1, <2>2 DEF Fresh
<1> QED
  BY <1>1, <1>4, <1>5, <1>6, <1>7, HistoryKept, RowsKept DEF IndInv

LEMMA AuditInd ==
  ASSUME IndInv, NEW r \in Requests, Audit(r)
  PROVE  IndInv'
<1>1. UNCHANGED <<row, call, loaded, before, code>> /\ pc[r] = "audit" /\ Step(r)
      /\ pc' = [pc EXCEPT ![r] = "done"]
  BY DEF Audit, Goto, Step
<1>2. TypeOK'
  BY <1>1 DEF Audit, IndInv, TypeOK, Steps
<1>3. NothingYet'
  BY <1>1 DEF IndInv, TypeOK, NothingYet
<1>4. LoadedIsFresh'
  BY <1>1, HistoryKept DEF LoadedIsFresh, IndInv, TypeOK
<1> QED
  BY <1>1, <1>2, <1>3, <1>4, HistoryKept, RowsKept DEF IndInv

LEMMA AbortInd ==
  ASSUME IndInv, NEW r \in Requests, Abort(r)
  PROVE  IndInv'
<1>1. UNCHANGED <<row, audited, call, loaded, before>> /\ pc[r] # "idle"
      /\ pc' = [pc EXCEPT ![r] = "done"] /\ code' = [code EXCEPT ![r] = "error"]
  BY DEF Abort, Answer
<1>2. TypeOK'
  BY <1>1 DEF IndInv, TypeOK, Steps, Codes
<1>3. NothingYet'
  BY <1>1 DEF IndInv, TypeOK, NothingYet
<1>4. LoadedIsFresh'
  BY <1>1, HistoryKept DEF LoadedIsFresh, IndInv, TypeOK
<1>5. code'[r] # "ok"
  BY <1>1 DEF IndInv, TypeOK
<1> QED
  BY <1>1, <1>2, <1>3, <1>4, <1>5, HistoryKept, RowsKept DEF IndInv

LEMMA CreateInd ==
  ASSUME IndInv, NEW r \in Requests, Create(r)
  PROVE  IndInv'
<1> DEFINE c == call[r]
           new == [business |-> c.business, sku |-> c.sku, archived |-> FALSE,
                   values |-> [f \in Fields |-> Original]]
<1>1. UNCHANGED <<audited, call, loaded, before>> /\ pc[r] = "create" /\ Step(r)
  BY DEF Create, Step
<1>2. c \in Call /\ c.op = "create" /\ row[r] = NoRow
  BY <1>1, CallFits DEF IndInv, NothingYet
<1>3. CASE SkuTaken(c.business, c.sku) /\ Answer(r, "exists") /\ UNCHANGED row
  <2>1. TypeOK' /\ NothingYet'
    BY <1>1, <1>2, <1>3 DEF Answer, IndInv, TypeOK, NothingYet, Steps, Codes
  <2>2. LoadedIsFresh' /\ code'[r] # "ok"
    BY <1>1, <1>3, HistoryKept DEF Answer, LoadedIsFresh, IndInv, TypeOK
  <2> QED
    BY <1>1, <1>3, <2>1, <2>2, HistoryKept, RowsKept DEF IndInv
<1>4. CASE ~SkuTaken(c.business, c.sku) /\ row' = [row EXCEPT ![r] = new] /\ Applied(r)
  <2>1. /\ pc' \in [Requests -> Steps] /\ pc'[r] \in {"audit", "done"}
        /\ code' \in [Requests -> Codes] /\ code'[r] \in {"ok", "error"}
        /\ \A q \in Requests \ {r} : UNCHANGED <<pc[q], code[q]>>
    BY <1>4 DEF Applied, Answer, IndInv, TypeOK, Steps, Codes
  <2>2. new \in Row
    BY <1>2 DEF Call, Row
  <2>3. r \in Ids /\ \A i \in Ids \ {r} : row'[i] = row[i]
    BY <1>4 DEF IndInv, TypeOK, Ids
  <2>4. row'[r] = new /\ new.business = c.business /\ new.sku = c.sku
    BY <1>4, <2>3 DEF IndInv, TypeOK
  <2> HIDE DEF new
  <2>5. TypeOK'
    BY <1>1, <1>4, <2>1, <2>2 DEF IndInv, TypeOK
  <2>6. \A q \in Requests : pc[q] # "idle" => call[q].id \in Existing /\ row'[call[q].id] = row[call[q].id]
    BY <2>3, CallFits, NamesApart DEF IndInv, Call, Ids
  <2>7. NothingYet'
    BY <1>1, <1>2, <2>1, <2>3, NamesApart DEF IndInv, TypeOK, NothingYet, Ids
  <2>8. LoadedIsFresh'
    BY <2>1, HistoryKept, <1>1 DEF LoadedIsFresh
  <2>9. \A w \in Requests : code'[w] = "ok" /\ call[w].op \in {"update", "archive"} =>
          code[w] = "ok" /\ pc[w] # "idle" /\ w # r
    BY <1>2, <2>1 DEF IndInv, NothingYet
  <2>10. ArchiveEffect' /\ OneArchive'
    BY <1>1, <2>6, <2>9 DEF IndInv, ArchiveEffect, OneArchive
  <2>11. UpdatesKept'
    BY <1>1, <2>6, <2>9, OverwrittenStays DEF IndInv, UpdatesKept
  <2>12. LiveSkuUnique'
    <3>1. \A i \in Ids :
            row[i] # NoRow /\ ~row[i].archived /\ row[i].business = c.business /\ row[i].sku = c.sku
            => c.sku = NoSku
      BY <1>4 DEF SkuTaken
    <3> QED
      BY <2>3, <2>4, <3>1 DEF IndInv, LiveSkuUnique
  <2> QED
    BY <1>1, <2>5, <2>7, <2>8, <2>10, <2>11, <2>12, HistoryKept DEF IndInv
<1> QED
  BY <1>3, <1>4 DEF Create

(* An update that finds its record gone writes nothing.                    *)
LEMMA NotFoundInd ==
  ASSUME IndInv, NEW r \in Requests, Store(r) \/ Archive(r), Answer(r, "not_found"), UNCHANGED row
  PROVE  IndInv'
<1>1. UNCHANGED <<audited, call, loaded, before>> /\ pc[r] \in {"store", "archive"} /\ Step(r)
  BY DEF Store, Archive, Step
<1>2. TypeOK' /\ NothingYet'
  BY <1>1 DEF Answer, IndInv, TypeOK, NothingYet, Steps, Codes
<1>3. LoadedIsFresh' /\ code'[r] # "ok"
  BY <1>1, HistoryKept DEF Answer, LoadedIsFresh, IndInv, TypeOK
<1> QED
  BY <1>1, <1>2, <1>3, HistoryKept, RowsKept DEF IndInv

LEMMA StoreInd ==
  ASSUME IndInv, NEW r \in Requests, Store(r)
  PROVE  IndInv'
<1> DEFINE i == call[r].id
<1>1. UNCHANGED <<audited, call, loaded, before>> /\ pc[r] = "store" /\ Step(r)
  BY DEF Store, Step
<1>2. call[r] \in Call /\ i \in Existing /\ i \in Ids /\ call[r].op = "update" /\ loaded[r] \in Row
  BY <1>1, CallFits DEF IndInv, TypeOK, NothingYet, Call, Ids
<1>3. CASE Answer(r, "not_found") /\ UNCHANGED row
  BY <1>3, NotFoundInd
<1>4. CASE Found(r) /\ row' = [row EXCEPT ![i].values = Merged(r)] /\ Applied(r)
  <2>1. /\ pc' \in [Requests -> Steps] /\ pc'[r] \in {"audit", "done"}
        /\ code' \in [Requests -> Codes] /\ code'[r] \in {"ok", "error"}
        /\ \A q \in Requests \ {r} : UNCHANGED <<pc[q], code[q]>>
    BY <1>4 DEF Applied, Answer, IndInv, TypeOK, Steps, Codes
  <2>2. Merged(r) \in [Fields -> Requests \cup {Original}]
    BY <1>2 DEF Merged, Row
  <2>3. row[i] \in Row /\ row[i] # NoRow
    BY <1>2, <1>4 DEF Found, IndInv, TypeOK
  <2>4. /\ row'[i] = [row[i] EXCEPT !.values = Merged(r)]
        /\ \A j \in Ids \ {i} : row'[j] = row[j]
    BY <1>2, <1>4 DEF IndInv, TypeOK
  <2>5. /\ row'[i] \in Row /\ row'[i].business = row[i].business /\ row'[i].sku = row[i].sku
        /\ row'[i].archived = row[i].archived /\ row'[i].values = Merged(r)
    BY <2>2, <2>3, <2>4 DEF Row
  <2>6. /\ row' \in [Ids -> Row \cup {NoRow}]
        /\ \A j \in Ids : row'[j] = NoRow <=> row[j] = NoRow
    BY <1>4, <2>3, <2>4, <2>5, NamesApart DEF IndInv, TypeOK
  <2>7. \A j \in Ids : row[j] # NoRow => /\ row'[j].business = row[j].business /\ row'[j].sku = row[j].sku
                                         /\ row'[j].archived = row[j].archived
    BY <2>4, <2>5
  <2>8. TypeOK' /\ NothingYet'
    BY <1>1, <1>2, <2>1, <2>6 DEF IndInv, TypeOK, NothingYet, Ids
  <2>9. LiveSkuUnique'
    BY <2>6, <2>7 DEF IndInv, LiveSkuUnique
  <2>10. ArchiveEffect' /\ OneArchive'
    <3>1. \A w \in Requests : code'[w] = "ok" /\ call[w].op = "archive" =>
            code[w] = "ok" /\ call[w].id \in Ids /\ row[call[w].id] # NoRow
      BY <1>2, <2>1, CallFits DEF IndInv, NothingYet, Call, Ids
    <3> QED
      BY <1>1, <2>7, <3>1 DEF IndInv, ArchiveEffect, OneArchive
  <2>11. LoadedIsFresh'
    BY <1>1, <2>1, HistoryKept DEF LoadedIsFresh
  <2>12. UpdatesKept'
    <3> SUFFICES ASSUME NEW w \in Requests, code'[w] = "ok", call[w].op = "update", NEW f \in call[w].fields
                 PROVE  row'[call[w].id].values[f] = w \/ Overwritten(w, f)'
      BY <1>1 DEF UpdatesKept
    <3>1. call[w] \in Call /\ f \in Fields /\ call[w].id \in Ids /\ pc'[w] # "idle"
      <4>1. pc[w] # "idle"
        BY <1>1, <2>1 DEF IndInv, NothingYet
      <4> QED
        BY <1>1, <2>1, <4>1, CallFits DEF IndInv, Call, Ids
    <3>2. CASE w = r
      BY <2>5, <3>1, <3>2 DEF Merged
    <3>3. CASE w # r /\ call[w].id # i
      BY <2>1, <2>4, <3>1, <3>3, <1>1, OverwrittenStays DEF IndInv, UpdatesKept
    <3>4. CASE w # r /\ call[w].id = i
      <4>1. Wrote(r, i)' /\ code[w] = "ok" /\ r \notin before[w]
        <5>1. r \notin before[w]
          BY <1>1 DEF IndInv, BeforeIsOver
        <5> QED
          BY <1>1, <1>2, <2>1, <3>4, <5>1 DEF Wrote
      <4>2. CASE f \in call[r].fields \/ w \notin before[r]
        BY <1>1, <3>4, <4>1, <4>2 DEF Overwritten
      <4>3. CASE f \notin call[r].fields /\ w \in before[r]
        <5>1. loaded[r].values[f] = w \/ Overwritten(w, f)
          BY <1>1, <3>4, <4>1, <4>3 DEF IndInv, LoadedIsFresh, Fresh
        <5>2. row'[i].values[f] = loaded[r].values[f]
          BY <2>5, <3>1, <4>3 DEF Merged
        <5> QED
          BY <1>1, <3>4, <4>1, <5>1, <5>2, OverwrittenStays
      <4> QED
        BY <4>2, <4>3
    <3> QED
      BY <3>2, <3>3, <3>4
  <2> QED
    BY <1>1, <2>8, <2>9, <2>10, <2>11, <2>12, HistoryKept DEF IndInv
<1> QED
  BY <1>3, <1>4 DEF Store

LEMMA ArchiveInd ==
  ASSUME IndInv, NEW r \in Requests, Archive(r)
  PROVE  IndInv'
<1> DEFINE i == call[r].id
<1>1. UNCHANGED <<audited, call, loaded, before>> /\ pc[r] = "archive" /\ Step(r)
  BY DEF Archive, Step
<1>2. call[r] \in Call /\ i \in Existing /\ i \in Ids /\ call[r].op = "archive"
  BY <1>1, CallFits DEF IndInv, NothingYet, Call, Ids
<1>3. CASE Answer(r, "not_found") /\ UNCHANGED row
  BY <1>3, NotFoundInd
<1>4. CASE Found(r) /\ row' = [row EXCEPT ![i].archived = TRUE] /\ Applied(r)
  <2>1. /\ pc' \in [Requests -> Steps] /\ pc'[r] \in {"audit", "done"}
        /\ code' \in [Requests -> Codes] /\ code'[r] \in {"ok", "error"}
        /\ \A q \in Requests \ {r} : UNCHANGED <<pc[q], code[q]>>
    BY <1>4 DEF Applied, Answer, IndInv, TypeOK, Steps, Codes
  <2>2. row[i] \in Row /\ row[i] # NoRow /\ ~row[i].archived
    BY <1>2, <1>4 DEF Found, IndInv, TypeOK
  <2>3. /\ row'[i] = [row[i] EXCEPT !.archived = TRUE]
        /\ \A j \in Ids \ {i} : row'[j] = row[j]
    BY <1>2, <1>4 DEF IndInv, TypeOK
  <2>4. /\ row'[i] \in Row /\ row'[i].business = row[i].business /\ row'[i].sku = row[i].sku
        /\ row'[i].archived /\ row'[i].values = row[i].values
    BY <2>2, <2>3 DEF Row
  <2>5. /\ row' \in [Ids -> Row \cup {NoRow}]
        /\ \A j \in Ids : row'[j] = NoRow <=> row[j] = NoRow
    BY <1>4, <2>2, <2>3, <2>4, NamesApart DEF IndInv, TypeOK
  <2>6. \A j \in Ids : row[j] # NoRow =>
          /\ row'[j].business = row[j].business /\ row'[j].sku = row[j].sku
          /\ row'[j].values = row[j].values /\ (row[j].archived => row'[j].archived)
    BY <2>2, <2>3, <2>4
  <2>7. TypeOK' /\ NothingYet'
    BY <1>1, <1>2, <2>1, <2>5 DEF IndInv, TypeOK, NothingYet, Ids
  <2>8. LiveSkuUnique'
    BY <2>5, <2>6 DEF IndInv, LiveSkuUnique
  <2>9. \A w \in Requests : code'[w] = "ok" =>
          (code[w] = "ok" \/ w = r) /\ call[w].id \in Ids /\ row[call[w].id] # NoRow
    BY <1>2, <2>1, <2>2, CallFits DEF IndInv, NothingYet, Call, Ids
  <2>10. ArchiveEffect'
    BY <1>1, <2>4, <2>6, <2>9 DEF IndInv, ArchiveEffect
  <2>11. OneArchive'
    <3>1. \A w \in Requests : code[w] = "ok" /\ call[w].op = "archive" => call[w].id # i
      BY <2>2 DEF IndInv, ArchiveEffect
    <3> QED
      BY <1>1, <2>9, <3>1 DEF IndInv, OneArchive
  <2>12. LoadedIsFresh'
    BY <1>1, <2>1, HistoryKept DEF LoadedIsFresh
  <2>13. UpdatesKept'
    BY <1>1, <1>2, <2>6, <2>9, OverwrittenStays DEF IndInv, UpdatesKept
  <2> QED
    BY <1>1, <2>7, <2>8, <2>10, <2>11, <2>12, <2>13, HistoryKept DEF IndInv
<1> QED
  BY <1>3, <1>4 DEF Archive

-----------------------------------------------------------------------------
LEMMA StepInd == IndInv /\ [Next]_vars => IndInv'
<1> SUFFICES ASSUME IndInv, [Next]_vars PROVE IndInv'
  OBVIOUS
<1>1. CASE Next
  BY <1>1, ArriveInd, CreateInd, LoadInd, StoreInd, ArchiveInd, AuditInd, AbortInd DEF Next, Step
<1>2. CASE UNCHANGED vars
  BY <1>2 DEF vars, IndInv, TypeOK, NothingYet, ArchiveEffect, BeforeIsOver, LoadedIsFresh, Fresh,
     Overwritten, Wrote, LiveSkuUnique, OneArchive, UpdatesKept
<1> QED
  BY <1>1, <1>2

(* The inductive invariant of the records.                                 *)
THEOREM Invariant == Spec => []IndInv
BY InitInd, StepInd, PTL DEF Spec

(* Every row is complete at all times (repository.go:172-247).             *)
THEOREM TypeCorrect == Spec => []TypeOK
<1>1. IndInv => TypeOK
  BY DEF IndInv
<1> QED
  BY <1>1, Invariant, PTL

(* No two live products of a business ever share a SKU                     *)
(* (repository.go:67-71).                                                  *)
THEOREM SkusAreUnique == Spec => []LiveSkuUnique
<1>1. IndInv => LiveSkuUnique
  BY DEF IndInv
<1> QED
  BY <1>1, Invariant, PTL

(* Of racing archivals one is told "ok" at most (repository.go:256-262).   *)
THEOREM ArchivedOnce == Spec => []OneArchive
<1>1. IndInv => OneArchive
  BY DEF IndInv
<1> QED
  BY <1>1, Invariant, PTL

(* Only an update under way at the same time reverts a column that an      *)
(* update was told is stored (repository.go:172-247).                      *)
THEOREM LostOnlyToOverlap == Spec => []UpdatesKept
<1>1. IndInv => UpdatesKept
  BY DEF IndInv
<1> QED
  BY <1>1, Invariant, PTL

(* An archived record never changes again, not even by an update that read *)
(* it before (repository.go:223, 253).                                     *)
THEOREM ArchivedIsFinal == Spec => ArchivedFrozen
<1> DEFINE A == \A i \in Ids : row[i] # NoRow /\ row[i].archived => row'[i] = row[i]
<1>1. IndInv /\ [Next]_vars => [A]_row
  <2> SUFFICES ASSUME IndInv, Next, NEW i \in Ids, row[i] # NoRow, row[i].archived
               PROVE  row'[i] = row[i]
    BY DEF vars
  <2> USE DEF IndInv, TypeOK
  <2>1. ASSUME NEW r \in Requests, Create(r)
        PROVE  row'[i] = row[i]
    <3>1. i # r
      BY <2>1 DEF Create, NothingYet
    <3> QED
      BY <2>1, <3>1 DEF Create
  <2>2. ASSUME NEW r \in Requests, Store(r) \/ Archive(r)
        PROVE  row'[i] = row[i]
    <3>1. Found(r) => call[r].id # i
      BY DEF Found
    <3> QED
      BY <2>2, <3>1 DEF Store, Archive
  <2>3. ASSUME NEW r \in Requests, (\E c \in Calls : Arrive(r, c)) \/ Load(r) \/ Audit(r) \/ Abort(r)
        PROVE  row'[i] = row[i]
    BY <2>3 DEF Arrive, Load, Audit, Abort
  <2> QED
    BY <2>1, <2>2, <2>3 DEF Next, Step
<1> QED
  BY <1>1, Invariant, PTL DEF Spec, ArchivedFrozen

=============================================================================

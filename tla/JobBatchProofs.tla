--------------------------- MODULE JobBatchProofs ---------------------------
(***************************************************************************)
(* Machine-checked facts about JobBatch for every set of jobs: the         *)
(* counters, the callbacks and, as long as no job is retried, the batch    *)
(* contract.                                                               *)
(***************************************************************************)
EXTENDS JobBatch, FiniteSetTheorems, TLAPS

\* The columns an UPDATE of job_batches writes keep the record well typed.
LEMMA DecrementedIsRecord ==
  ASSUME NEW r \in Record, r.pending_jobs > 0
  PROVE  [r EXCEPT !.pending_jobs = r.pending_jobs - 1] \in Record
<1>1. ASSUME NEW n \in Nat PROVE [r EXCEPT !.pending_jobs = n] \in Record
  BY DEF Record
<1>2. r.pending_jobs - 1 \in Nat
  BY DEF Record
<1> QED
  BY <1>1, <1>2

LEMMA AppendedIsRecord ==
  ASSUME NEW r \in Record, NEW s \in Record, NEW j \in Member, r.pending_jobs > 0
  PROVE  [r EXCEPT !.pending_jobs = r.pending_jobs - 1, !.failed_jobs = r.failed_jobs + 1,
                   !.failed_job_ids = Append(s.failed_job_ids, j)] \in Record
<1>1. ASSUME NEW n \in Nat, NEW f \in Nat, NEW ids \in Seq(Member)
      PROVE  [r EXCEPT !.pending_jobs = n, !.failed_jobs = f,
                       !.failed_job_ids = ids] \in Record
  BY DEF Record
<1>2. r.pending_jobs - 1 \in Nat /\ r.failed_jobs + 1 \in Nat
  BY DEF Record
<1>3. Append(s.failed_job_ids, j) \in Seq(Member)
  BY DEF Record
<1> QED
  BY <1>1, <1>2, <1>3

LEMMA StampedIsRecord ==
  ASSUME NEW r \in Record
  PROVE  /\ [r EXCEPT !.finished = TRUE] \in Record
         /\ [r EXCEPT !.cancelled = TRUE] \in Record
BY DEF Record

\* The ids in a list after one more was appended.
LEMMA AppendedIds ==
  ASSUME NEW s \in Seq(Member), NEW j \in Member
  PROVE  {Append(s, j)[i] : i \in DOMAIN Append(s, j)} = {s[i] : i \in DOMAIN s} \cup {j}
<1>1. DOMAIN Append(s, j) = DOMAIN s \cup {Len(s) + 1}
  OBVIOUS
<1>2. Append(s, j)[Len(s) + 1] = j
  OBVIOUS
<1>3. \A i \in DOMAIN s : Append(s, j)[i] = s[i]
  OBVIOUS
<1> QED
  BY <1>1, <1>2, <1>3, Zenon

\* The failure counter is zero exactly when no failure was recorded.
LEMMA NoneFailed ==
  ASSUME TypeOK, FailedIdsExact
  PROVE  row.failed_jobs = 0 <=> failures = {}
<1> DEFINE ids == row.failed_job_ids
<1>1. ids \in Seq(Member)
  BY DEF TypeOK, Record
<1>2. row.failed_jobs = Len(ids) /\ {ids[i] : i \in DOMAIN ids} = failures
  BY DEF FailedIdsExact
<1> HIDE DEF ids
<1>3. Len(ids) = 0 <=> DOMAIN ids = {}
  BY <1>1
<1>4. DOMAIN ids = {} <=> {ids[i] : i \in DOMAIN ids} = {}
  BY Zenon
<1> QED
  BY <1>2, <1>3, <1>4

\* record_batch_outcome returns or goes on to finish.
LEMMA AfterRecordIsPc ==
  ASSUME NEW r
  PROVE  AfterRecord(r) \in {"finish", "settled"}
BY DEF AfterRecord

LEMMA AfterRecordFinishes ==
  ASSUME NEW r \in Record
  PROVE  \/ AfterRecord(r) = "settled"
         \/ AfterRecord(r) = "finish" /\ r.pending_jobs <= 0
<1>1. r.pending_jobs \in Nat /\ r.finished \in BOOLEAN
  BY DEF Record
<1> QED
  BY <1>1 DEF AfterRecord

\* Every step keeps the types.
LEMMA TypeStep ==
  ASSUME BatchInv, [Next]_vars
  PROVE  TypeOK'
<1>1. ASSUME NEW j \in Member, DispatchJob(j) PROVE TypeOK'
  BY <1>1
  DEF DispatchJob, local, BatchInv, TypeOK, CallKnows, CallPc, Callback
<1>2. ASSUME NEW j \in Member, JobEnds(j) PROVE TypeOK'
  BY <1>2
  DEF JobEnds, BatchInv, TypeOK, CallKnows, CallPc, Callback
<1>3. ASSUME NEW j \in Member, RetryJob(j) PROVE TypeOK'
  BY <1>3
  DEF RetryJob, BatchInv, TypeOK, CallKnows, CallPc, Callback
<1>4. ASSUME NEW j \in Member, Decrement(j) PROVE TypeOK'
  BY <1>4, DecrementedIsRecord
  DEF Decrement, local, BatchInv, TypeOK, CallKnows, CallPc, Callback
<1>5. ASSUME NEW j \in Member, Find(j) PROVE TypeOK'
  BY <1>5, AfterRecordIsPc
  DEF Find, BatchInv, TypeOK, CallKnows, CallPc, Callback
<1>6. ASSUME NEW j \in Member, SelectRow(j) PROVE TypeOK'
  BY <1>6, AfterRecordIsPc
  DEF SelectRow, BatchInv, TypeOK, CallKnows, CallPc, Callback
<1>7. ASSUME NEW j \in Member, AppendFailure(j) PROVE TypeOK'
  BY <1>7, AppendedIsRecord, AfterRecordIsPc
  DEF AppendFailure, CasGuard, BatchInv, TypeOK, CallKnows, CallPc, Callback
<1>8. ASSUME NEW j \in Member, Conflict(j) PROVE TypeOK'
  BY <1>8
  DEF Conflict, BatchInv, TypeOK, CallKnows, CallPc, Callback
<1>9. ASSUME NEW j \in Member, FireCatch(j) PROVE TypeOK'
  <2>1. pc' \in [Member -> CallPc]
    BY <1>9, AfterRecordIsPc DEF FireCatch, BatchInv, TypeOK, CallPc
  <2>2. fired' \in [Callback -> Nat] /\ callbacks' \subseteq Callback
    <3>1. fired \in [Callback -> Nat] /\ callbacks \subseteq Callback
      BY DEF BatchInv, TypeOK
    <3>2. \/ fired' = [fired EXCEPT !["catch"] = fired["catch"] + 1]
             /\ callbacks' = callbacks \ {"catch"}
          \/ fired' = fired /\ callbacks' = callbacks
      BY <1>9 DEF FireCatch
    <3>3. fired["catch"] + 1 \in Nat
      BY <3>1 DEF Callback
    <3> QED
      BY <3>1, <3>2, <3>3
  <2> QED
    BY <1>9, <2>1, <2>2 DEF FireCatch, BatchInv, TypeOK, local
<1>10. ASSUME NEW j \in Member, FinishBatch(j) PROVE TypeOK'
  BY <1>10, StampedIsRecord
  DEF FinishBatch, local, BatchInv, TypeOK, CallKnows, CallPc, Callback
<1>11. ASSUME NEW j \in Member, FinishFind(j) PROVE TypeOK'
  BY <1>11
  DEF FinishFind, BatchInv, TypeOK, CallKnows, CallPc, Callback
<1>12. ASSUME NEW j \in Member, FireCompletion(j) PROVE TypeOK'
  BY <1>12
  DEF FireCompletion, local, BatchInv, TypeOK, CallKnows, CallPc, Callback
<1>13. ASSUME NEW j \in Member, CallDies(j) PROVE TypeOK'
  BY <1>13
  DEF CallDies, local, BatchInv, TypeOK, CallKnows, CallPc, Callback
<1>14. ASSUME DispatchFails PROVE TypeOK'
  BY <1>14
  DEF DispatchFails, local, BatchInv, TypeOK, CallKnows, CallPc, Callback
<1>15. ASSUME Cancel PROVE TypeOK'
  BY <1>15, StampedIsRecord
  DEF Cancel, local, BatchInv, TypeOK, CallKnows, CallPc, Callback
<1>16. ASSUME UNCHANGED vars PROVE TypeOK'
  BY <1>16 DEF BatchInv, TypeOK, CallKnows, CallPc, Callback, vars
<1> QED
  BY <1>1, <1>2, <1>3, <1>4, <1>5, <1>6, <1>7, <1>8, <1>9, <1>10, <1>11, <1>12, <1>13, <1>14, <1>15, <1>16
  DEF Next, CallStep

\* Every step keeps the failure counter, the ids and the history in step.
LEMMA IdsStep ==
  ASSUME BatchInv, [Next]_vars
  PROVE  FailedIdsExact'
<1>1. ASSUME NEW j \in Member, DispatchJob(j) PROVE FailedIdsExact'
  BY <1>1
  DEF DispatchJob, local, BatchInv, FailedIdsExact, TypeOK
<1>2. ASSUME NEW j \in Member, JobEnds(j) PROVE FailedIdsExact'
  BY <1>2
  DEF JobEnds, BatchInv, FailedIdsExact, TypeOK
<1>3. ASSUME NEW j \in Member, RetryJob(j) PROVE FailedIdsExact'
  BY <1>3
  DEF RetryJob, BatchInv, FailedIdsExact, TypeOK
<1>4. ASSUME NEW j \in Member, Decrement(j) PROVE FailedIdsExact'
  BY <1>4
  DEF Decrement, local, BatchInv, FailedIdsExact, TypeOK, Record
<1>5. ASSUME NEW j \in Member, Find(j) PROVE FailedIdsExact'
  BY <1>5
  DEF Find, BatchInv, FailedIdsExact, TypeOK
<1>6. ASSUME NEW j \in Member, SelectRow(j) PROVE FailedIdsExact'
  BY <1>6
  DEF SelectRow, BatchInv, FailedIdsExact, TypeOK
<1>7. ASSUME NEW j \in Member, AppendFailure(j) PROVE FailedIdsExact'
  <2> DEFINE ids == seen[j].failed_job_ids
  <2>1. ids = row.failed_job_ids /\ ids \in Seq(Member) /\ row.failed_jobs \in Nat
    BY <1>7 DEF AppendFailure, CasGuard, BatchInv, TypeOK, Record
  <2>2. /\ row'.failed_jobs = row.failed_jobs + 1
        /\ row'.failed_job_ids = Append(ids, j)
        /\ failures' = failures \cup {j}
    BY <1>7 DEF AppendFailure, BatchInv, TypeOK, Record
  <2>3. Len(Append(ids, j)) = Len(ids) + 1
    BY <2>1
  <2>4. {ids[i] : i \in DOMAIN ids} = failures
    BY <2>1 DEF BatchInv, FailedIdsExact
  <2> HIDE DEF ids
  <2>5. {Append(ids, j)[i] : i \in DOMAIN Append(ids, j)} = failures \cup {j}
    BY <2>1, <2>4, AppendedIds
  <2>6. row'.failed_jobs = Len(row'.failed_job_ids)
    BY <2>1, <2>2, <2>3 DEF BatchInv, FailedIdsExact
  <2>7. {row'.failed_job_ids[i] : i \in DOMAIN row'.failed_job_ids} = failures'
    BY <2>2, <2>5
  <2> QED
    BY <2>6, <2>7 DEF FailedIdsExact
<1>8. ASSUME NEW j \in Member, Conflict(j) PROVE FailedIdsExact'
  BY <1>8
  DEF Conflict, BatchInv, FailedIdsExact, TypeOK
<1>9. ASSUME NEW j \in Member, FireCatch(j) PROVE FailedIdsExact'
  BY <1>9
  DEF FireCatch, local, BatchInv, FailedIdsExact, TypeOK
<1>10. ASSUME NEW j \in Member, FinishBatch(j) PROVE FailedIdsExact'
  BY <1>10
  DEF FinishBatch, local, BatchInv, FailedIdsExact, TypeOK, Record
<1>11. ASSUME NEW j \in Member, FinishFind(j) PROVE FailedIdsExact'
  BY <1>11
  DEF FinishFind, BatchInv, FailedIdsExact, TypeOK
<1>12. ASSUME NEW j \in Member, FireCompletion(j) PROVE FailedIdsExact'
  BY <1>12
  DEF FireCompletion, local, BatchInv, FailedIdsExact, TypeOK
<1>13. ASSUME NEW j \in Member, CallDies(j) PROVE FailedIdsExact'
  BY <1>13
  DEF CallDies, local, BatchInv, FailedIdsExact, TypeOK
<1>14. ASSUME DispatchFails PROVE FailedIdsExact'
  BY <1>14
  DEF DispatchFails, local, BatchInv, FailedIdsExact, TypeOK
<1>15. ASSUME Cancel PROVE FailedIdsExact'
  BY <1>15
  DEF Cancel, local, BatchInv, FailedIdsExact, TypeOK, Record
<1>16. ASSUME UNCHANGED vars PROVE FailedIdsExact'
  BY <1>16 DEF BatchInv, FailedIdsExact, TypeOK, vars
<1> QED
  BY <1>1, <1>2, <1>3, <1>4, <1>5, <1>6, <1>7, <1>8, <1>9, <1>10, <1>11, <1>12, <1>13, <1>14, <1>15, <1>16
  DEF Next, CallStep

\* Every step keeps what running calls know of the row.
LEMMA KnowsStep ==
  ASSUME BatchInv, [Next]_vars
  PROVE  CallKnows'
<1>1. ASSUME NEW j \in Member, DispatchJob(j) PROVE CallKnows'
  BY <1>1
  DEF DispatchJob, local, BatchInv, CallKnows, TypeOK, Record, AfterRecord
<1>2. ASSUME NEW j \in Member, JobEnds(j) PROVE CallKnows'
  BY <1>2
  DEF JobEnds, BatchInv, CallKnows, TypeOK, Record, AfterRecord
<1>3. ASSUME NEW j \in Member, RetryJob(j) PROVE CallKnows'
  BY <1>3
  DEF RetryJob, BatchInv, CallKnows, TypeOK, Record, AfterRecord
<1>4. ASSUME NEW j \in Member, Decrement(j) PROVE CallKnows'
  BY <1>4
  DEF Decrement, local, BatchInv, CallKnows, TypeOK, Record, AfterRecord
<1>5. ASSUME NEW j \in Member, Find(j) PROVE CallKnows'
  BY <1>5
  DEF Find, BatchInv, CallKnows, TypeOK, Record, AfterRecord
<1>6. ASSUME NEW j \in Member, SelectRow(j) PROVE CallKnows'
  BY <1>6
  DEF SelectRow, BatchInv, CallKnows, TypeOK, Record, AfterRecord
<1>7. ASSUME NEW j \in Member, AppendFailure(j) PROVE CallKnows'
  <2>1. /\ row \in Record /\ row.pending_jobs \in Nat /\ row.pending_jobs > 0
        /\ ~ row.finished
    BY <1>7 DEF AppendFailure, CasGuard, BatchInv, TypeOK, CallKnows, Record
  <2>2. row' \in Record /\ failures' # {}
    BY <1>7, TypeStep DEF AppendFailure, TypeOK, Next, CallStep
  <2>3. row'.pending_jobs = row.pending_jobs - 1 /\ row'.finished = row.finished
    BY <1>7, <2>1 DEF AppendFailure, Record
  <2>4. ASSUME NEW k \in Member, k # j
        PROVE  pc'[k] = pc[k] /\ seen'[k] = seen[k]
    BY <1>7, <2>4 DEF AppendFailure, BatchInv, TypeOK
  <2>5. ASSUME NEW k \in Member, k # j
        PROVE  /\ pc[k] \notin {"finish", "finish_find", "complete"}
               /\ pc[k] \in {"append", "catch"} => seen[k] \in Record
               /\ pc[k] = "catch" => row.pending_jobs <= seen[k].pending_jobs
    BY <2>1 DEF BatchInv, CallKnows
  <2>6. /\ seen'[j] = row'
        /\ \/ pc'[j] \in {"catch", "settled"}
           \/ pc'[j] = "finish" /\ row'.pending_jobs <= 0
    <3>1. seen'[j] = row' /\ pc'[j] = IF first[j] THEN "catch" ELSE AfterRecord(row')
      BY <1>7 DEF AppendFailure, BatchInv, TypeOK
    <3>2. \/ AfterRecord(row') = "settled"
          \/ AfterRecord(row') = "finish" /\ row'.pending_jobs <= 0
      BY <2>2, AfterRecordFinishes
    <3> QED
      BY <3>1, <3>2
  <2>7. row'.pending_jobs \in Nat
    BY <2>2 DEF Record
  <2>8. ASSUME NEW k \in Member, pc'[k] = "catch"
        PROVE  row'.pending_jobs <= seen'[k].pending_jobs
    <3>1. CASE k = j
      BY <3>1, <2>6, <2>7
    <3>2. CASE k # j
      <4>1. seen[k] \in Record /\ row.pending_jobs <= seen[k].pending_jobs
        BY <3>2, <2>4, <2>5, <2>8
      <4>2. seen[k].pending_jobs \in Nat
        BY <4>1 DEF Record
      <4> QED
        BY <3>2, <4>1, <4>2, <2>1, <2>3, <2>4
    <3> QED
      BY <3>1, <3>2
  <2> QED
    BY <2>1, <2>2, <2>3, <2>4, <2>5, <2>6, <2>7, <2>8 DEF CallKnows
<1>8. ASSUME NEW j \in Member, Conflict(j) PROVE CallKnows'
  BY <1>8
  DEF Conflict, BatchInv, CallKnows, TypeOK, Record, AfterRecord
<1>9. ASSUME NEW j \in Member, FireCatch(j) PROVE CallKnows'
  BY <1>9
  DEF FireCatch, local, BatchInv, CallKnows, TypeOK, Record, AfterRecord
<1>10. ASSUME NEW j \in Member, FinishBatch(j) PROVE CallKnows'
  BY <1>10
  DEF FinishBatch, local, BatchInv, CallKnows, TypeOK, Record, AfterRecord
<1>11. ASSUME NEW j \in Member, FinishFind(j) PROVE CallKnows'
  BY <1>11
  DEF FinishFind, BatchInv, CallKnows, TypeOK, Record, AfterRecord
<1>12. ASSUME NEW j \in Member, FireCompletion(j) PROVE CallKnows'
  BY <1>12
  DEF FireCompletion, local, BatchInv, CallKnows, TypeOK, Record, AfterRecord
<1>13. ASSUME NEW j \in Member, CallDies(j) PROVE CallKnows'
  BY <1>13
  DEF CallDies, local, BatchInv, CallKnows, TypeOK, Record, AfterRecord
<1>14. ASSUME DispatchFails PROVE CallKnows'
  BY <1>14
  DEF DispatchFails, local, BatchInv, CallKnows, TypeOK, Record, AfterRecord
<1>15. ASSUME Cancel PROVE CallKnows'
  BY <1>15
  DEF Cancel, local, BatchInv, CallKnows, TypeOK, Record, AfterRecord
<1>16. ASSUME UNCHANGED vars PROVE CallKnows'
  BY <1>16 DEF BatchInv, CallKnows, TypeOK, Record, AfterRecord, vars
<1> QED
  BY <1>1, <1>2, <1>3, <1>4, <1>5, <1>6, <1>7, <1>8, <1>9, <1>10, <1>11, <1>12, <1>13, <1>14, <1>15, <1>16
  DEF Next, CallStep

\* Every step keeps the callback map and its history in step.
LEMMA CallbackStep ==
  ASSUME BatchInv, [Next]_vars
  PROVE  (CallbacksOnce /\ CallbackMap)'
<1>1. ASSUME NEW j \in Member, DispatchJob(j) PROVE (CallbacksOnce /\ CallbackMap)'
  BY <1>1
  DEF DispatchJob, local, BatchInv, CallbacksOnce, CallbackMap, TypeOK, Callback
<1>2. ASSUME NEW j \in Member, JobEnds(j) PROVE (CallbacksOnce /\ CallbackMap)'
  BY <1>2
  DEF JobEnds, BatchInv, CallbacksOnce, CallbackMap, TypeOK, Callback
<1>3. ASSUME NEW j \in Member, RetryJob(j) PROVE (CallbacksOnce /\ CallbackMap)'
  BY <1>3
  DEF RetryJob, BatchInv, CallbacksOnce, CallbackMap, TypeOK, Callback
<1>4. ASSUME NEW j \in Member, Decrement(j) PROVE (CallbacksOnce /\ CallbackMap)'
  BY <1>4
  DEF Decrement, local, BatchInv, CallbacksOnce, CallbackMap, TypeOK, Callback
<1>5. ASSUME NEW j \in Member, Find(j) PROVE (CallbacksOnce /\ CallbackMap)'
  BY <1>5
  DEF Find, BatchInv, CallbacksOnce, CallbackMap, TypeOK, Callback
<1>6. ASSUME NEW j \in Member, SelectRow(j) PROVE (CallbacksOnce /\ CallbackMap)'
  BY <1>6
  DEF SelectRow, BatchInv, CallbacksOnce, CallbackMap, TypeOK, Callback
<1>7. ASSUME NEW j \in Member, AppendFailure(j) PROVE (CallbacksOnce /\ CallbackMap)'
  <2>1. row.pending_jobs > 0 /\ row \in Record
    BY <1>7 DEF AppendFailure, CasGuard, BatchInv, TypeOK
  <2>2. ~ row.finished
    BY <2>1 DEF BatchInv, CallKnows
  <2>3. fired["then"] = 0 /\ fired["finally"] = 0
    BY <2>2 DEF BatchInv, CallbackMap, TypeOK, Callback
  <2>4. UNCHANGED <<callbacks, fired>> /\ failures' # {}
    BY <1>7 DEF AppendFailure
  <2> QED
    BY <2>3, <2>4 DEF BatchInv, CallbacksOnce, CallbackMap
<1>8. ASSUME NEW j \in Member, Conflict(j) PROVE (CallbacksOnce /\ CallbackMap)'
  BY <1>8
  DEF Conflict, BatchInv, CallbacksOnce, CallbackMap, TypeOK, Callback
<1>9. ASSUME NEW j \in Member, FireCatch(j) PROVE (CallbacksOnce /\ CallbackMap)'
  <2>1. failures # {} /\ failures' = failures /\ row' = row
    BY <1>9 DEF FireCatch, BatchInv, CallKnows
  <2>2. CASE fired' = fired /\ callbacks' = callbacks
    BY <2>1, <2>2 DEF BatchInv, CallbacksOnce, CallbackMap
  <2>3. CASE ~ (fired' = fired /\ callbacks' = callbacks)
    <3>1. /\ "catch" \in callbacks
          /\ callbacks' = callbacks \ {"catch"}
          /\ fired' = [fired EXCEPT !["catch"] = fired["catch"] + 1]
      BY <1>9, <2>3 DEF FireCatch
    <3>2. fired \in [Callback -> Nat] /\ fired["catch"] = 0
      BY <3>1 DEF BatchInv, TypeOK, CallbackMap
    <3>3. /\ fired'["catch"] = 1 /\ fired'["then"] = fired["then"]
          /\ fired'["finally"] = fired["finally"]
      BY <3>1, <3>2 DEF Callback
    <3> QED
      BY <2>1, <3>1, <3>2, <3>3 DEF BatchInv, CallbacksOnce, CallbackMap, TypeOK, Callback
  <2> QED
    BY <2>2, <2>3
<1>10. ASSUME NEW j \in Member, FinishBatch(j) PROVE (CallbacksOnce /\ CallbackMap)'
  BY <1>10
  DEF FinishBatch, local, BatchInv, CallbacksOnce, CallbackMap, TypeOK, Callback
<1>11. ASSUME NEW j \in Member, FinishFind(j) PROVE (CallbacksOnce /\ CallbackMap)'
  BY <1>11
  DEF FinishFind, BatchInv, CallbacksOnce, CallbackMap, TypeOK, Callback
<1>12. ASSUME NEW j \in Member, FireCompletion(j) PROVE (CallbacksOnce /\ CallbackMap)'
  <2> DEFINE taken == IF j \in Remote THEN {} ELSE callbacks
             run == (taken \cap {"finally"})
               \cup (IF seen[j].failed_jobs = 0 THEN taken \cap {"then"} ELSE {})
  <2>1. /\ callbacks' = callbacks \ taken
        /\ fired' = [c \in Callback |-> fired[c] + (IF c \in run THEN 1 ELSE 0)]
        /\ row' = row /\ failures' = failures
    BY <1>12 DEF FireCompletion
  <2>2. row.finished
    BY <1>12 DEF FireCompletion, BatchInv, CallKnows
  <2>3. seen[j].failed_jobs = 0 => failures = {}
    <3>1. seen[j].failed_jobs = row.failed_jobs
      BY <1>12 DEF FireCompletion, BatchInv, CallKnows
    <3> QED
      BY <3>1, NoneFailed DEF BatchInv
  <2>4. /\ run \subseteq callbacks /\ "catch" \notin run
        /\ "then" \in run => "finally" \in run /\ failures = {}
        /\ taken = {} \/ taken = callbacks
        /\ taken = {} => run = {}
    BY <2>3 DEF BatchInv, CallbackMap
  <2>5. \A c \in Callback : fired'[c] = fired[c] + (IF c \in run THEN 1 ELSE 0)
    BY <2>1
  <2> HIDE DEF taken, run
  <2>6. \A c \in Callback : fired[c] \in Nat /\ (c \in run => fired[c] = 0)
    BY <2>4 DEF BatchInv, TypeOK, CallbackMap
  <2>7. CallbackMap'
    BY <2>1, <2>2, <2>4, <2>5, <2>6 DEF BatchInv, CallbackMap, TypeOK, Callback
  <2>8. CallbacksOnce'
    BY <2>1, <2>4, <2>5, <2>6 DEF BatchInv, CallbacksOnce, CallbackMap, Callback
  <2> QED
    BY <2>7, <2>8
<1>13. ASSUME NEW j \in Member, CallDies(j) PROVE (CallbacksOnce /\ CallbackMap)'
  BY <1>13
  DEF CallDies, local, BatchInv, CallbacksOnce, CallbackMap, TypeOK, Callback
<1>14. ASSUME DispatchFails PROVE (CallbacksOnce /\ CallbackMap)'
  BY <1>14
  DEF DispatchFails, local, BatchInv, CallbacksOnce, CallbackMap, TypeOK, Callback
<1>15. ASSUME Cancel PROVE (CallbacksOnce /\ CallbackMap)'
  BY <1>15
  DEF Cancel, local, BatchInv, CallbacksOnce, CallbackMap, TypeOK, Callback
<1>16. ASSUME UNCHANGED vars PROVE (CallbacksOnce /\ CallbackMap)'
  BY <1>16 DEF BatchInv, CallbacksOnce, CallbackMap, TypeOK, Callback, vars
<1> QED
  BY <1>1, <1>2, <1>3, <1>4, <1>5, <1>6, <1>7, <1>8, <1>9, <1>10, <1>11, <1>12, <1>13, <1>14, <1>15, <1>16
  DEF Next, CallStep

LEMMA BatchInvInit ==
  ASSUME Init
  PROVE  BatchInv
<1>1. Cardinality(Member) \in Nat
  BY BatchAssumption, FS_CardinalityType
<1>2. <<>> \in Seq(Member) /\ Len(<<>>) = 0 /\ DOMAIN <<>> = {}
  OBVIOUS
<1>3. TypeOK
  BY <1>1, <1>2 DEF Init, TypeOK, Record, Callback, CallPc
<1>4. FailedIdsExact
  BY <1>2 DEF Init, FailedIdsExact
<1>5. CallbacksOnce /\ CallbackMap
  BY DEF Init, CallbacksOnce, CallbackMap, Callback
<1>6. CallKnows
  BY DEF Init, CallKnows
<1> QED
  BY <1>3, <1>4, <1>5, <1>6 DEF BatchInv

\* The inductive invariant of the recorders: whatever the interleaving of the
\* record_batch_outcome calls, their deaths and the retries of failed jobs.
THEOREM BatchInvariant == Spec => []BatchInv
<1>1. ASSUME BatchInv, [Next]_vars PROVE BatchInv'
  <2>1. TypeOK' /\ FailedIdsExact' /\ CallKnows'
    BY <1>1, TypeStep, IdsStep, KnowsStep
  <2>2. (CallbacksOnce /\ CallbackMap)'
    BY <1>1, CallbackStep
  <2> QED
    BY <2>1, <2>2 DEF BatchInv
<1> QED
  BY <1>1, BatchInvInit, PTL DEF Spec

\* pending_jobs never drops below zero, and every variable keeps its type
\* (decrement_pending, record_failure).
THEOREM BatchTypeCorrect == Spec => []TypeOK
<1>1. BatchInv => TypeOK
  BY DEF BatchInv
<1> QED
  BY <1>1, BatchInvariant, PTL

\* record_failure never overwrites an id that a concurrent call appended.
THEOREM NoFailureOverwritten == Spec => []FailedIdsExact
<1>1. BatchInv => FailedIdsExact
  BY DEF BatchInv
<1> QED
  BY <1>1, BatchInvariant, PTL

\* fire_catch and fire_completion run no callback twice, and `then` never
\* after a failure.
THEOREM CallbacksFireOnce == Spec => []CallbacksOnce
<1>1. BatchInv => CallbacksOnce
  BY DEF BatchInv
<1> QED
  BY <1>1, BatchInvariant, PTL

-----------------------------------------------------------------------------
(* A batch none of whose jobs is retried. *)

OnceInv == BatchInv /\ ReportsOnce /\ PendingExact

\* The jobs without an outcome, after one more job reported.
LEMMA OneLessOpen ==
  ASSUME NEW j \in Member, j \notin recorded, TypeOK, PendingExact
  PROVE  /\ row.pending_jobs \in Nat /\ row.pending_jobs > 0
         /\ Cardinality(Member \ (recorded \cup {j})) = row.pending_jobs - 1
<1> DEFINE open == Member \ recorded
<1>1. IsFiniteSet(open)
  BY BatchAssumption, FS_Subset
<1>2. j \in open /\ open \ {j} = Member \ (recorded \cup {j})
  OBVIOUS
<1> HIDE DEF open
<1>3. Cardinality(open \ {j}) = Cardinality(open) - 1 /\ IsFiniteSet(open \ {j})
  BY <1>1, <1>2, FS_RemoveElement
<1>4. Cardinality(open \ {j}) \in Nat /\ Cardinality(open) \in Nat
  BY <1>1, <1>3, FS_CardinalityType
<1>5. row.pending_jobs = Cardinality(open)
  BY DEF PendingExact, open
<1>6. row.pending_jobs \in Nat /\ row.pending_jobs > 0
      /\ Cardinality(open \ {j}) = row.pending_jobs - 1
  BY <1>3, <1>4, <1>5
<1> QED
  BY <1>2, <1>6

LEMMA DrainedIsComplete ==
  ASSUME TypeOK, PendingExact, row.pending_jobs = 0
  PROVE  recorded = Member
<1>1. IsFiniteSet(Member \ recorded)
  BY BatchAssumption, FS_Subset
<1>2. Member \ recorded = {}
  BY <1>1, FS_EmptySet DEF PendingExact
<1> QED
  BY <1>2 DEF TypeOK

\* Every step that is not a retry keeps one report per job and an exact counter.
LEMMA OnceStep ==
  ASSUME MaxRetries = 0, OnceInv, [Next]_vars
  PROVE  (ReportsOnce /\ PendingExact)'
<1>1. ASSUME NEW j \in Member, DispatchJob(j) PROVE (ReportsOnce /\ PendingExact)'
  BY <1>1
  DEF DispatchJob, local, OnceInv, ReportsOnce, PendingExact, BatchInv, TypeOK
<1>2. ASSUME NEW j \in Member, JobEnds(j) PROVE (ReportsOnce /\ PendingExact)'
  BY <1>2
  DEF JobEnds, OnceInv, ReportsOnce, PendingExact, BatchInv, TypeOK
<1>3. ASSUME NEW j \in Member, RetryJob(j) PROVE (ReportsOnce /\ PendingExact)'
  BY <1>3
  DEF RetryJob, OnceInv, ReportsOnce, PendingExact, BatchInv, TypeOK
<1>4. ASSUME NEW j \in Member, Decrement(j) PROVE (ReportsOnce /\ PendingExact)'
  <2>1. j \notin recorded /\ row \in Record /\ recorded \subseteq Member
    BY <1>4 DEF Decrement, OnceInv, ReportsOnce, BatchInv, TypeOK
  <2>2. /\ row.pending_jobs \in Nat /\ row.pending_jobs > 0
        /\ Cardinality(Member \ (recorded \cup {j})) = row.pending_jobs - 1
    BY <2>1, OneLessOpen DEF OnceInv, BatchInv
  <2>3. row'.pending_jobs = row.pending_jobs - 1 /\ recorded' = recorded \cup {j}
    BY <1>4, <2>1, <2>2 DEF Decrement, Record
  <2>4. PendingExact'
    BY <2>2, <2>3 DEF PendingExact
  <2>5. pc'[j] \in {"find", "catch", "finish", "settled"}
    BY <1>4, AfterRecordIsPc DEF Decrement, OnceInv, BatchInv, TypeOK
  <2>6. ReportsOnce'
    BY <1>4, <2>3, <2>5 DEF Decrement, OnceInv, ReportsOnce, BatchInv, TypeOK
  <2> QED
    BY <2>4, <2>6
<1>5. ASSUME NEW j \in Member, Find(j) PROVE (ReportsOnce /\ PendingExact)'
  BY <1>5, AfterRecordIsPc
  DEF Find, OnceInv, ReportsOnce, PendingExact, BatchInv, TypeOK
<1>6. ASSUME NEW j \in Member, SelectRow(j) PROVE (ReportsOnce /\ PendingExact)'
  BY <1>6, AfterRecordIsPc
  DEF SelectRow, OnceInv, ReportsOnce, PendingExact, BatchInv, TypeOK
<1>7. ASSUME NEW j \in Member, AppendFailure(j) PROVE (ReportsOnce /\ PendingExact)'
  <2>1. j \notin recorded /\ row \in Record /\ recorded \subseteq Member
    BY <1>7 DEF AppendFailure, OnceInv, ReportsOnce, BatchInv, TypeOK
  <2>2. /\ row.pending_jobs \in Nat /\ row.pending_jobs > 0
        /\ Cardinality(Member \ (recorded \cup {j})) = row.pending_jobs - 1
    BY <2>1, OneLessOpen DEF OnceInv, BatchInv
  <2>3. row'.pending_jobs = row.pending_jobs - 1 /\ recorded' = recorded \cup {j}
    BY <1>7, <2>1, <2>2 DEF AppendFailure, Record
  <2>4. PendingExact'
    BY <2>2, <2>3 DEF PendingExact
  <2>5. pc'[j] \in {"find", "catch", "finish", "settled"}
    BY <1>7, AfterRecordIsPc DEF AppendFailure, OnceInv, BatchInv, TypeOK
  <2>6. ReportsOnce'
    BY <1>7, <2>3, <2>5 DEF AppendFailure, OnceInv, ReportsOnce, BatchInv, TypeOK
  <2> QED
    BY <2>4, <2>6
<1>8. ASSUME NEW j \in Member, Conflict(j) PROVE (ReportsOnce /\ PendingExact)'
  BY <1>8
  DEF Conflict, OnceInv, ReportsOnce, PendingExact, BatchInv, TypeOK
<1>9. ASSUME NEW j \in Member, FireCatch(j) PROVE (ReportsOnce /\ PendingExact)'
  BY <1>9, AfterRecordIsPc
  DEF FireCatch, local, OnceInv, ReportsOnce, PendingExact, BatchInv, TypeOK
<1>10. ASSUME NEW j \in Member, FinishBatch(j) PROVE (ReportsOnce /\ PendingExact)'
  BY <1>10
  DEF FinishBatch, local, OnceInv, ReportsOnce, PendingExact, BatchInv, TypeOK, Record
<1>11. ASSUME NEW j \in Member, FinishFind(j) PROVE (ReportsOnce /\ PendingExact)'
  BY <1>11
  DEF FinishFind, OnceInv, ReportsOnce, PendingExact, BatchInv, TypeOK
<1>12. ASSUME NEW j \in Member, FireCompletion(j) PROVE (ReportsOnce /\ PendingExact)'
  BY <1>12
  DEF FireCompletion, local, OnceInv, ReportsOnce, PendingExact, BatchInv, TypeOK
<1>13. ASSUME NEW j \in Member, CallDies(j) PROVE (ReportsOnce /\ PendingExact)'
  BY <1>13
  DEF CallDies, local, OnceInv, ReportsOnce, PendingExact, BatchInv, TypeOK
<1>14. ASSUME DispatchFails PROVE (ReportsOnce /\ PendingExact)'
  BY <1>14
  DEF DispatchFails, local, OnceInv, ReportsOnce, PendingExact, BatchInv, TypeOK
<1>15. ASSUME Cancel PROVE (ReportsOnce /\ PendingExact)'
  BY <1>15
  DEF Cancel, local, OnceInv, ReportsOnce, PendingExact, BatchInv, TypeOK, Record
<1>16. ASSUME UNCHANGED vars PROVE (ReportsOnce /\ PendingExact)'
  BY <1>16 DEF OnceInv, ReportsOnce, PendingExact, BatchInv, TypeOK, vars
<1> QED
  BY <1>1, <1>2, <1>3, <1>4, <1>5, <1>6, <1>7, <1>8, <1>9, <1>10, <1>11, <1>12, <1>13, <1>14, <1>15, <1>16
  DEF Next, CallStep

\* The inductive invariant of a batch without retries.
THEOREM OnceInvariant ==
  ASSUME MaxRetries = 0
  PROVE  Spec => []OnceInv
<1>1. Init => OnceInv
  <2> SUFFICES ASSUME Init PROVE OnceInv
    OBVIOUS
  <2>1. ReportsOnce /\ PendingExact
    BY DEF Init, ReportsOnce, PendingExact
  <2> QED
    BY <2>1, BatchInvInit DEF OnceInv
<1>2. OnceInv /\ BatchInv' /\ [Next]_vars => OnceInv'
  <2> SUFFICES ASSUME OnceInv, BatchInv', [Next]_vars PROVE OnceInv'
    OBVIOUS
  <2>1. (ReportsOnce /\ PendingExact)'
    BY OnceStep
  <2> QED
    BY <2>1 DEF OnceInv
<1> QED
  BY <1>1, <1>2, BatchInvariant, PTL DEF Spec

\* decrement_pending and record_failure lose no update: the counter is the
\* number of jobs without an outcome, in every interleaving of any number of
\* workers, crashes and partial dispatches included.
THEOREM CounterIsExact ==
  ASSUME MaxRetries = 0
  PROVE  Spec => []PendingExact
<1>1. OnceInv => PendingExact
  BY DEF OnceInv
<1> QED
  BY <1>1, OnceInvariant, PTL

\* finish stamps the batch only after the last of its jobs reported.
THEOREM FinishedIsComplete ==
  ASSUME MaxRetries = 0
  PROVE  Spec => []FinishedMeansComplete
<1>1. OnceInv => FinishedMeansComplete
  BY DrainedIsComplete DEF OnceInv, BatchInv, CallKnows, FinishedMeansComplete
<1> QED
  BY <1>1, OnceInvariant, PTL

\* Every step of the recorders is a step of the contract or none.
LEMMA ContractStep ==
  ASSUME OnceInv, [Next]_vars
  PROVE  [ContractOf!ContractNext]_(ContractOf!contractVars)
<1>1. ASSUME NEW j \in Member, DispatchJob(j) PROVE [ContractOf!ContractNext]_(ContractOf!contractVars)
  BY <1>1
  DEF DispatchJob, local, ContractOf!contractVars
<1>2. ASSUME NEW j \in Member, JobEnds(j) PROVE [ContractOf!ContractNext]_(ContractOf!contractVars)
  BY <1>2
  DEF JobEnds, ContractOf!contractVars
<1>3. ASSUME NEW j \in Member, RetryJob(j) PROVE [ContractOf!ContractNext]_(ContractOf!contractVars)
  BY <1>3
  DEF RetryJob, ContractOf!contractVars
<1>4. ASSUME NEW j \in Member, Decrement(j) PROVE [ContractOf!ContractNext]_(ContractOf!contractVars)
  <2>1. j \notin recorded /\ row \in Record
    BY <1>4 DEF Decrement, OnceInv, ReportsOnce, BatchInv, TypeOK
  <2>2. row'.finished = row.finished
    BY <1>4, <2>1 DEF Decrement, Record
  <2>3. ContractOf!Succeed(j)
    BY <1>4, <2>1, <2>2 DEF Decrement, ContractOf!Succeed
  <2> QED
    BY <2>3 DEF ContractOf!ContractNext
<1>5. ASSUME NEW j \in Member, Find(j) PROVE [ContractOf!ContractNext]_(ContractOf!contractVars)
  BY <1>5
  DEF Find, ContractOf!contractVars
<1>6. ASSUME NEW j \in Member, SelectRow(j) PROVE [ContractOf!ContractNext]_(ContractOf!contractVars)
  BY <1>6
  DEF SelectRow, ContractOf!contractVars
<1>7. ASSUME NEW j \in Member, AppendFailure(j) PROVE [ContractOf!ContractNext]_(ContractOf!contractVars)
  <2>1. j \notin recorded /\ row \in Record
    BY <1>7 DEF AppendFailure, OnceInv, ReportsOnce, BatchInv, TypeOK
  <2>2. row'.finished = row.finished
    BY <1>7, <2>1 DEF AppendFailure, Record
  <2>3. ContractOf!Fail(j)
    BY <1>7, <2>1, <2>2 DEF AppendFailure, ContractOf!Fail
  <2> QED
    BY <2>3 DEF ContractOf!ContractNext
<1>8. ASSUME NEW j \in Member, Conflict(j) PROVE [ContractOf!ContractNext]_(ContractOf!contractVars)
  BY <1>8
  DEF Conflict, ContractOf!contractVars
<1>9. ASSUME NEW j \in Member, FireCatch(j) PROVE [ContractOf!ContractNext]_(ContractOf!contractVars)
  <2>1. UNCHANGED <<row, recorded, failures>>
    BY <1>9 DEF FireCatch
  <2>2. fired'["then"] = fired["then"] /\ fired'["finally"] = fired["finally"]
    BY <1>9 DEF FireCatch, OnceInv, BatchInv, TypeOK, Callback
  <2> QED
    BY <2>1, <2>2 DEF ContractOf!contractVars
<1>10. ASSUME NEW j \in Member, FinishBatch(j) PROVE [ContractOf!ContractNext]_(ContractOf!contractVars)
  <2>1. row \in Record /\ row.pending_jobs = 0
    BY <1>10 DEF FinishBatch, OnceInv, BatchInv, TypeOK, CallKnows
  <2>2. recorded = Member
    BY <2>1, DrainedIsComplete DEF OnceInv, BatchInv
  <2>3. row'.finished = TRUE /\ UNCHANGED <<fired, recorded, failures>>
    BY <1>10, <2>1 DEF FinishBatch, Record
  <2>4. CASE row.finished = TRUE
    BY <2>3, <2>4 DEF ContractOf!contractVars
  <2>5. CASE row.finished # TRUE
    BY <2>2, <2>3, <2>5, <2>1 DEF ContractOf!Finish, ContractOf!ContractNext, Record
  <2> QED
    BY <2>4, <2>5
<1>11. ASSUME NEW j \in Member, FinishFind(j) PROVE [ContractOf!ContractNext]_(ContractOf!contractVars)
  BY <1>11
  DEF FinishFind, ContractOf!contractVars
<1>12. ASSUME NEW j \in Member, FireCompletion(j) PROVE [ContractOf!ContractNext]_(ContractOf!contractVars)
  <2> DEFINE taken == IF j \in Remote THEN {} ELSE callbacks
             run == (taken \cap {"finally"})
               \cup (IF seen[j].failed_jobs = 0 THEN taken \cap {"then"} ELSE {})
  <2>1. /\ UNCHANGED <<row, recorded, failures>>
        /\ fired' = [c \in Callback |-> fired[c] + (IF c \in run THEN 1 ELSE 0)]
    BY <1>12 DEF FireCompletion
  <2>2. row.finished
    BY <1>12 DEF FireCompletion, OnceInv, BatchInv, CallKnows
  <2>3. seen[j].failed_jobs = 0 <=> failures = {}
    <3>1. seen[j].failed_jobs = row.failed_jobs
      BY <1>12 DEF FireCompletion, OnceInv, BatchInv, CallKnows
    <3> QED
      BY <3>1, NoneFailed DEF OnceInv, BatchInv
  <2>4. fired["then"] \in Nat /\ fired["finally"] \in Nat
    BY DEF OnceInv, BatchInv, TypeOK, Callback
  <2>5. CASE "finally" \in taken
    <3>1. fired["then"] = 0 /\ fired["finally"] = 0 /\ "then" \in taken
      BY <2>5 DEF OnceInv, BatchInv, CallbackMap
    <3>2. /\ fired'["finally"] = 1
          /\ fired'["then"] = IF failures = {} THEN 1 ELSE 0
      BY <2>1, <2>3, <2>5, <3>1 DEF Callback
    <3>3. {c \in {"then", "finally"} : fired[c] > 0} = {}
      BY <3>1
    <3>4. {c \in {"then", "finally"} : fired'[c] > 0}
            = {"finally"} \cup (IF failures = {} THEN {"then"} ELSE {})
      BY <3>2
    <3> QED
      BY <2>1, <2>2, <3>3, <3>4 DEF ContractOf!Announce, ContractOf!ContractNext
  <2>6. CASE "finally" \notin taken
    <3>1. run = {}
      BY <2>6 DEF OnceInv, BatchInv, CallbackMap
    <3>2. fired'["then"] = fired["then"] /\ fired'["finally"] = fired["finally"]
      BY <2>1, <2>4, <3>1 DEF Callback
    <3> QED
      BY <2>1, <3>2 DEF ContractOf!contractVars
  <2> QED
    BY <2>5, <2>6
<1>13. ASSUME NEW j \in Member, CallDies(j) PROVE [ContractOf!ContractNext]_(ContractOf!contractVars)
  BY <1>13
  DEF CallDies, local, ContractOf!contractVars
<1>14. ASSUME DispatchFails PROVE [ContractOf!ContractNext]_(ContractOf!contractVars)
  BY <1>14
  DEF DispatchFails, local, ContractOf!contractVars
<1>15. ASSUME Cancel PROVE [ContractOf!ContractNext]_(ContractOf!contractVars)
  BY <1>15
  DEF Cancel, local, ContractOf!contractVars, OnceInv, BatchInv, TypeOK, Record
<1>16. ASSUME UNCHANGED vars PROVE [ContractOf!ContractNext]_(ContractOf!contractVars)
  BY <1>16 DEF ContractOf!contractVars, vars
<1> QED
  BY <1>1, <1>2, <1>3, <1>4, <1>5, <1>6, <1>7, <1>8, <1>9, <1>10, <1>11, <1>12, <1>13, <1>14, <1>15, <1>16
  DEF Next, CallStep

\* record_batch_outcome implements the contract of a batch for any number of
\* jobs and workers, in-process or remote, whatever fails.
THEOREM RecordersImplementContract ==
  ASSUME MaxRetries = 0
  PROVE  Spec => ImplementsContract
<1>1. Init => ContractOf!ContractInit
  BY DEF Init, ContractOf!ContractInit, Callback
<1>2. OnceInv /\ [Next]_vars => [ContractOf!ContractNext]_(ContractOf!contractVars)
  BY ContractStep
<1> QED
  BY <1>1, <1>2, OnceInvariant, PTL DEF Spec, ImplementsContract, ContractOf!Contract

=============================================================================

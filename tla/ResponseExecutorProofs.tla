----------------------- MODULE ResponseExecutorProofs -----------------------
(***************************************************************************)
(* What one call of the executor preserves, whoever makes it: the lemmas   *)
(* the proofs about the gate and about the API rest on.                    *)
(***************************************************************************)
EXTENDS ResponseExecutor, TLAPS

(* A record of the audit history is well formed.                            *)
LEMMA RecordType ==
  ASSUME NEW a \in ResponseAction, NEW d \in AuthorityDecision,
         NEW s \in ExecutionStatus, NEW b \in BOOLEAN
  PROVE  Record(a, d, s, b) \in ExecutionRecord
BY DEF Record, ResponseAction, AuthorityDecision, ExecutionRecord

(* Appending a well-formed record keeps the executor well typed, whatever   *)
(* else the call does to the index and the adapter.                         *)
LEMMA AppendType ==
  ASSUME ExecutorTypeOK, NEW e \in ExecutionRecord, history' = Append(history, e)
  PROVE  /\ history' \in Seq(ExecutionRecord)
         /\ Len(history') = Len(history) + 1
         /\ \A i \in ActionIds : actionExecutions[i] \in 0..Len(history')
         /\ Len(history) + 1 \in Nat /\ Len(history) + 1 \in 0..Len(history')
BY DEF ExecutorTypeOK

(* Indexing the new record keeps the index within the history.              *)
LEMMA IndexType ==
  ASSUME ExecutorTypeOK, NEW e \in ExecutionRecord, history' = Append(history, e),
         NEW a \in ActionIds,
         actionExecutions' = [actionExecutions EXCEPT ![a] = Len(history) + 1]
  PROVE  /\ actionExecutions' \in [ActionIds -> Nat]
         /\ \A i \in ActionIds : actionExecutions'[i] \in 0..Len(history')
<1>1. /\ actionExecutions \in [ActionIds -> Nat]
      /\ \A i \in ActionIds : actionExecutions[i] \in 0..Len(history')
      /\ Len(history) + 1 \in Nat /\ Len(history) + 1 \in 0..Len(history')
  BY AppendType DEF ExecutorTypeOK
<1> QED BY <1>1

(* One call of execute() keeps the executor well typed.                     *)
LEMMA ExecuteType ==
  ASSUME ExecutorTypeOK, NEW a \in ResponseAction, NEW d \in AuthorityDecision, NEW h, NEW t, NEW w,
         \/ ExecuteRefused(a, d, h, t, w)
         \/ ExecuteFailed(a, d, h, t, w)
         \/ ExecuteApplied(a, d, h, t, w)
  PROVE  ExecutorTypeOK'
<1>0. a.id \in ActionIds /\ Effect(a) \in ReversibleActionType \X Targets
  BY DEF ResponseAction, Effect
<1>1. CASE ExecuteRefused(a, d, h, t, w)
  <2>1. Record(a, d, Refusal(a, d, h, w), FALSE) \in ExecutionRecord
    BY RecordType DEF Refusal, ExecutionStatus
  <2> QED BY <1>1, <2>1, AppendType DEF ExecuteRefused, ExecutorTypeOK
<1>2. CASE ExecuteFailed(a, d, h, t, w)
  <2>1. Record(a, d, "FAILED", FALSE) \in ExecutionRecord
    BY RecordType DEF ExecutionStatus
  <2>2. history' = Append(history, Record(a, d, "FAILED", FALSE)) /\ UNCHANGED <<active, effects>>
    BY <1>2 DEF ExecuteFailed, adapterVars
  <2>3. actionExecutions' = [actionExecutions EXCEPT ![a.id] = Len(history) + 1]
    BY <1>2 DEF ExecuteFailed
  <2>4. /\ actionExecutions' \in [ActionIds -> Nat]
        /\ \A i \in ActionIds : actionExecutions'[i] \in 0..Len(history')
    BY <1>0, <2>1, <2>2, <2>3, IndexType
  <2> QED BY <2>1, <2>2, <2>4, AppendType DEF ExecutorTypeOK
<1>3. CASE ExecuteApplied(a, d, h, t, w)
  <2>1. Record(a, d, "EXECUTED", FALSE) \in ExecutionRecord
    BY RecordType DEF ExecutionStatus
  <2>2. history' = Append(history, Record(a, d, "EXECUTED", FALSE))
    BY <1>3 DEF ExecuteApplied
  <2>3. actionExecutions' = [actionExecutions EXCEPT ![a.id] = Len(history) + 1]
    BY <1>3 DEF ExecuteApplied
  <2>4. /\ actionExecutions' \in [ActionIds -> Nat]
        /\ \A i \in ActionIds : actionExecutions'[i] \in 0..Len(history')
    BY <1>0, <2>1, <2>2, <2>3, IndexType
  <2>5. active' \in [ActionIds -> ResponseAction \union {None}]
    BY <1>3 DEF ExecuteApplied, ExecutorTypeOK
  <2>6. effects' \subseteq ReversibleActionType \X Targets
    BY <1>0, <1>3 DEF ExecuteApplied, ExecutorTypeOK
  <2> QED BY <2>1, <2>2, <2>4, <2>5, <2>6, AppendType DEF ExecutorTypeOK
<1> QED BY <1>1, <1>2, <1>3

(* One call of rollback() keeps the executor well typed.                    *)
LEMMA RollbackType ==
  ASSUME ExecutorTypeOK, NEW a \in ResponseAction, NEW d \in AuthorityDecision, NEW h,
         RollbackBlocked(a, d, h) \/ RollbackFailed(a, d, h) \/ RollbackApplied(a, d, h)
  PROVE  ExecutorTypeOK'
<1>0. /\ Record(a, d, "BLOCKED", TRUE) \in ExecutionRecord
      /\ Record(a, d, "FAILED", TRUE) \in ExecutionRecord
      /\ Record(a, d, "ROLLED_BACK", TRUE) \in ExecutionRecord
  BY RecordType DEF ExecutionStatus
<1>1. CASE RollbackBlocked(a, d, h)
  BY <1>0, <1>1, AppendType DEF RollbackBlocked, ExecutorTypeOK
<1>2. CASE RollbackFailed(a, d, h)
  BY <1>0, <1>2, AppendType DEF RollbackFailed, ExecutorTypeOK
<1>3. CASE RollbackApplied(a, d, h)
  BY <1>0, <1>3, AppendType DEF RollbackApplied, ExecutorTypeOK
<1> QED BY <1>1, <1>2, <1>3

(* A replaced executor is well typed.                                       *)
LEMMA ReplaceType ==
  ASSUME ReplaceExecutor PROVE ExecutorTypeOK'
BY DEF ReplaceExecutor, ExecutorTypeOK

-----------------------------------------------------------------------------
(* A call that is refused, fails, or rolls back records no execution.       *)
LEMMA OtherRecord ==
  ASSUME ExecutorTypeOK, NEW e \in ExecutionRecord, e.status # "EXECUTED",
         history' = Append(history, e), NEW i \in ActionIds
  PROVE  Executions(i)' = Executions(i)
<1>1. /\ DOMAIN history = 1..Len(history) /\ DOMAIN history' = 1..(Len(history) + 1)
      /\ \A k \in 1..Len(history) : history'[k] = history[k]
      /\ history'[Len(history) + 1] = e
      /\ Len(history) \in Nat
  BY DEF ExecutorTypeOK
<1> QED BY <1>1 DEF Executions

(* An execution adds its own record to the executions of its action only.   *)
LEMMA ExecutedRecord ==
  ASSUME ExecutorTypeOK, NEW e \in ExecutionRecord, e.status = "EXECUTED",
         history' = Append(history, e), NEW i \in ActionIds
  PROVE  Executions(i)' = Executions(i) \union {k \in {Len(history) + 1} : e.action = i}
<1>1. /\ DOMAIN history = 1..Len(history) /\ DOMAIN history' = 1..(Len(history) + 1)
      /\ \A k \in 1..Len(history) : history'[k] = history[k]
      /\ history'[Len(history) + 1] = e
      /\ Len(history) \in Nat
  BY DEF ExecutorTypeOK
<1> QED BY <1>1 DEF Executions

(* An action the index does not show as executed has no execution.          *)
LEMMA NotExecuted ==
  ASSUME ExecutorTypeOK, IndexKeepsExecution, NEW a \in ResponseAction, ~AlreadyExecuted(a)
  PROVE  Executions(a.id) = {}
<1>1. SUFFICES ASSUME NEW k \in Executions(a.id) PROVE FALSE
  OBVIOUS
<1>2. a.id \in ActionIds
  BY DEF ResponseAction
<1>3. actionExecutions[a.id] = k /\ k \in DOMAIN history /\ history[k].status = "EXECUTED"
  BY <1>2 DEF IndexKeepsExecution, Executions
<1>4. k # 0
  BY <1>3 DEF ExecutorTypeOK
<1> QED BY <1>3, <1>4 DEF AlreadyExecuted

(* Execute calls keep every execution indexed.                              *)
LEMMA ExecuteIndex ==
  ASSUME ExecutorTypeOK, IndexKeepsExecution,
         NEW a \in ResponseAction, NEW d \in AuthorityDecision, NEW h, NEW t, NEW w,
         \/ ExecuteRefused(a, d, h, t, w)
         \/ ExecuteFailed(a, d, h, t, w)
         \/ ExecuteApplied(a, d, h, t, w)
  PROVE  IndexKeepsExecution'
<1>0. a.id \in ActionIds /\ actionExecutions \in [ActionIds -> Nat]
  BY DEF ResponseAction, ExecutorTypeOK
<1>1. CASE ExecuteRefused(a, d, h, t, w)
  <2>1. /\ Record(a, d, Refusal(a, d, h, w), FALSE) \in ExecutionRecord
        /\ Record(a, d, Refusal(a, d, h, w), FALSE).status # "EXECUTED"
    BY RecordType DEF Refusal, ExecutionStatus, Record
  <2>2. \A i \in ActionIds : Executions(i)' = Executions(i)
    BY <1>1, <2>1, OtherRecord DEF ExecuteRefused
  <2> QED BY <1>1, <2>2 DEF ExecuteRefused, IndexKeepsExecution
<1>2. CASE ExecuteFailed(a, d, h, t, w)
  <2>1. /\ Record(a, d, "FAILED", FALSE) \in ExecutionRecord
        /\ Record(a, d, "FAILED", FALSE).status # "EXECUTED"
    BY RecordType DEF ExecutionStatus, Record
  <2>2. \A i \in ActionIds : Executions(i)' = Executions(i)
    BY <1>2, <2>1, OtherRecord DEF ExecuteFailed
  <2>3. Executions(a.id) = {}
    BY <1>2, NotExecuted DEF ExecuteFailed
  <2>4. \A i \in ActionIds : i # a.id => actionExecutions'[i] = actionExecutions[i]
    BY <1>0, <1>2 DEF ExecuteFailed
  <2> QED BY <2>2, <2>3, <2>4 DEF IndexKeepsExecution
<1>3. CASE ExecuteApplied(a, d, h, t, w)
  <2>1. /\ Record(a, d, "EXECUTED", FALSE) \in ExecutionRecord
        /\ Record(a, d, "EXECUTED", FALSE).status = "EXECUTED"
        /\ Record(a, d, "EXECUTED", FALSE).action = a.id
    BY RecordType DEF ExecutionStatus, Record
  <2>2. \A i \in ActionIds :
          Executions(i)' = Executions(i) \union {k \in {Len(history) + 1} : a.id = i}
    BY <1>3, <2>1, ExecutedRecord DEF ExecuteApplied
  <2>3. Executions(a.id) = {}
    BY <1>3, NotExecuted DEF ExecuteApplied
  <2>4. /\ actionExecutions'[a.id] = Len(history) + 1
        /\ \A i \in ActionIds : i # a.id => actionExecutions'[i] = actionExecutions[i]
    BY <1>0, <1>3 DEF ExecuteApplied
  <2> QED BY <2>2, <2>3, <2>4 DEF IndexKeepsExecution
<1> QED BY <1>1, <1>2, <1>3

(* Rollback calls do too: they never touch the index.                       *)
LEMMA RollbackIndex ==
  ASSUME ExecutorTypeOK, IndexKeepsExecution,
         NEW a \in ResponseAction, NEW d \in AuthorityDecision, NEW h,
         RollbackBlocked(a, d, h) \/ RollbackFailed(a, d, h) \/ RollbackApplied(a, d, h)
  PROVE  IndexKeepsExecution'
<1>1. PICK s \in {"BLOCKED", "FAILED", "ROLLED_BACK"} : history' = Append(history, Record(a, d, s, TRUE))
  BY DEF RollbackBlocked, RollbackFailed, RollbackApplied
<1>2. /\ Record(a, d, s, TRUE) \in ExecutionRecord
      /\ Record(a, d, s, TRUE).status # "EXECUTED"
  BY RecordType DEF ExecutionStatus, Record
<1>3. \A i \in ActionIds : Executions(i)' = Executions(i)
  BY <1>1, <1>2, OtherRecord
<1>4. UNCHANGED actionExecutions
  BY DEF RollbackBlocked, RollbackFailed, RollbackApplied
<1> QED BY <1>3, <1>4 DEF IndexKeepsExecution

(* If every execution is indexed, no action has two.                        *)
LEMMA IndexedOnce == IndexKeepsExecution => AtMostOnceExecuted
BY DEF IndexKeepsExecution, AtMostOnceExecuted
=============================================================================

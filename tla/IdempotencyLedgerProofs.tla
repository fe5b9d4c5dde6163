---------------------- MODULE IdempotencyLedgerProofs ----------------------
(***************************************************************************)
(* Proofs about IdempotencyLedger, for any number of slots, client request *)
(* ids and fingerprints and any FAILED_RETRY_CAP.                          *)
(*                                                                         *)
(* OneHandlerPerKey is not inductive: that a second Insert or Retry of a   *)
(* key is impossible follows from the row being IN_PROGRESS while a        *)
(* handler runs.  FlightInv says so, RowInv ties what the row counts to    *)
(* the executions there were, AnswerInv ties what a slot answered to what  *)
(* the row has kept.  IInv is their conjunction.                           *)
(***************************************************************************)
EXTENDS IdempotencyLedger, TLAPS

InRun(r) == pc[r] \in {"run", "record"}

FlightInv ==
  /\ \A r \in Slots : InRun(r) =>
       /\ rows[call[r].key].status = "IN_PROGRESS"
       /\ attempt[r] = executions[call[r].key]
  /\ \A r1, r2 \in Slots :
       InRun(r1) /\ InRun(r2) /\ call[r1].key = call[r2].key => r1 = r2

RowInv ==
  \A k \in Keys :
    /\ rows[k].status = "ABSENT" => executions[k] = 0
    /\ rows[k].status \in {"IN_PROGRESS", "FAILED"} =>
         executions[k] = rows[k].retries + 1 /\ rows[k].retries <= FAILED_RETRY_CAP
    /\ rows[k].status = "FAILED" => rows[k].retryable
    /\ rows[k].verdict = Open <=> rows[k].status # "COMPLETED"

AnswerInv ==
  \A r \in Slots : answer[r].verdict # Open =>
    /\ rows[call[r].key].status = "COMPLETED"
    /\ rows[call[r].key].verdict = answer[r].verdict

OwnedInv ==
  \A k \in Keys : rows[k].status = "IN_PROGRESS" =>
    k \in wedged \/ \E r \in Slots : InRun(r) /\ call[r].key = k

IInv == TypeOK /\ FlightInv /\ RowInv /\ AnswerInv /\ OwnedInv

---------------------------------------------------------------------------
(* The initial values that are chosen are of the type they are chosen from. *)
LEMMA ChosenValues ==
  /\ (CHOOSE k \in Keys : TRUE) \in Keys
  /\ (CHOOSE f \in Fingerprints : TRUE) \in Fingerprints
BY LedgerAssumption

(* The values the answers and verdicts are built from. *)
LEMMA VerdictValues ==
  /\ Open \in Verdicts /\ Exhausted \in Verdicts /\ Exhausted # Open
  /\ \A n \in Nat : /\ [kind |-> "result", by |-> n] \in Verdicts
                    /\ [kind |-> "error", by |-> n] \in Verdicts
                    /\ [kind |-> "result", by |-> n] # Open
                    /\ [kind |-> "error", by |-> n] # Open
BY DEF Open, Exhausted, Verdicts

(* The type invariant is inductive on its own.                             *)
LEMMA TypeInit == Init => TypeOK
BY ChosenValues, VerdictValues
   DEF Init, TypeOK, NoRow, Rows, Refused, Outcomes, Refusals

(* A row of the right type, written to the key of a call, keeps the type.  *)
LEMMA SetRowType ==
  ASSUME TypeOK, NEW r \in Slots, NEW row \in Rows, SetRow(r, row)
  PROVE  rows' \in [Keys -> Rows]
BY DEF TypeOK, SetRow

(* Every change the code makes to a row it has found gives a row again.    *)
LEMMA RowType ==
  ASSUME TypeOK, NEW r \in Slots
  PROVE  /\ Row(r) \in Rows
         /\ \A f \in Fingerprints :
              [status |-> "IN_PROGRESS", fingerprint |-> f, verdict |-> Open,
               retries |-> 0, retryable |-> FALSE] \in Rows
         /\ [Row(r) EXCEPT !.status = "IN_PROGRESS", !.retries = @ + 1] \in Rows
         /\ [Row(r) EXCEPT !.status = "FAILED", !.retryable = TRUE] \in Rows
         /\ \A v \in Verdicts :
              [Row(r) EXCEPT !.status = "COMPLETED", !.retryable = FALSE,
                             !.verdict = v] \in Rows
<1>1. Row(r) \in Rows
  BY DEF TypeOK, Row
<1>2. \A f \in Fingerprints :
        [status |-> "IN_PROGRESS", fingerprint |-> f, verdict |-> Open,
         retries |-> 0, retryable |-> FALSE] \in Rows
  BY VerdictValues DEF Rows
<1>3. [Row(r) EXCEPT !.status = "IN_PROGRESS", !.retries = @ + 1] \in Rows
  <2>1. Row(r).retries + 1 \in Nat
    BY <1>1 DEF Rows
  <2> QED
    BY <1>1, <2>1, Zenon DEF Rows
<1>4. [Row(r) EXCEPT !.status = "FAILED", !.retryable = TRUE] \in Rows
  BY <1>1 DEF Rows
<1>5. \A v \in Verdicts :
        [Row(r) EXCEPT !.status = "COMPLETED", !.retryable = FALSE,
                       !.verdict = v] \in Rows
  BY <1>1 DEF Rows
<1> QED
  BY <1>1, <1>2, <1>3, <1>4, <1>5

(* Starting the handler numbers the execution.                             *)
LEMMA RunType ==
  ASSUME TypeOK, NEW r \in Slots, Run(r)
  PROVE  /\ pc' \in [Slots -> {"idle", "decide", "run", "record"}]
         /\ executions' \in [Keys -> Nat]
         /\ attempt' \in [Slots -> Nat]
<1>1. call[r].key \in Keys
  BY DEF TypeOK
<1>2. executions[call[r].key] + 1 \in Nat
  BY <1>1 DEF TypeOK
<1> QED
  BY <1>1, <1>2 DEF TypeOK, Run

(* A slot that joins the chain, or leaves it at the head, leaves a chain of *)
(* slots.                                                                  *)
LEMMA ChainType ==
  ASSUME TypeOK, NEW r \in Slots, WithLock(r) \/ Job(r)
  PROVE  chain' \in Seq(Slots)
<1>1. CASE WithLock(r)
  BY <1>1 DEF TypeOK, WithLock
<1>2. CASE Job(r)
  BY <1>2 DEF TypeOK, Job, MyTurn
<1> QED
  BY <1>1, <1>2

LEMMA TypeStep == TypeOK /\ [Next]_vars => TypeOK'
<1> SUFFICES ASSUME TypeOK, [Next]_vars PROVE TypeOK'
    OBVIOUS
<1> USE VerdictValues, LedgerAssumption
<1>1. CASE UNCHANGED vars
  BY <1>1 DEF TypeOK, vars
<1>2. ASSUME NEW r \in Slots, NEW k \in Keys, NEW f \in Fingerprints, Arrive(r, k, f)
      PROVE TypeOK'
  <2>0. chain' \in Seq(Slots)
    BY <1>2, ChainType DEF Arrive
  <2> QED
    BY <1>2, <2>0 DEF TypeOK, Arrive, Refused, Refusals
<1>3. ASSUME NEW r \in Slots, ArriveWithoutId(r) PROVE TypeOK'
  BY <1>3 DEF TypeOK, ArriveWithoutId, Refused, Refusals
<1>4. ASSUME NEW r \in Slots, Insert(r) PROVE TypeOK'
  <2>0. chain' \in Seq(Slots)
    BY <1>4, ChainType DEF Insert, Deciding
  <2>1. rows' \in [Keys -> Rows]
    <3>1. call[r].fingerprint \in Fingerprints
      BY DEF TypeOK
    <3> QED
      BY <1>4, <3>1, RowType, SetRowType DEF Insert
  <2> QED
    BY <1>4, <2>0, <2>1, RunType DEF TypeOK, Insert, Run
<1>5. ASSUME NEW r \in Slots, Mismatch(r) PROVE TypeOK'
  <2>0. chain' \in Seq(Slots)
    BY <1>5, ChainType DEF Mismatch, Deciding
  <2> QED
    BY <1>5, <2>0 DEF TypeOK, Mismatch, Reply, Refused, Refusals, Outcomes
<1>6. ASSUME NEW r \in Slots, Replay(r) PROVE TypeOK'
  <2>0. chain' \in Seq(Slots)
    BY <1>6, ChainType DEF Replay, Found, Deciding
  <2>1. Row(r).verdict \in Verdicts
    BY RowType DEF Rows
  <2> QED
    BY <1>6, <2>0, <2>1 DEF TypeOK, Replay, Reply, Answered, Refusals, Outcomes
<1>7. ASSUME NEW r \in Slots, Busy(r) PROVE TypeOK'
  <2>0. chain' \in Seq(Slots)
    BY <1>7, ChainType DEF Busy, Found, Deciding
  <2> QED
    BY <1>7, <2>0 DEF TypeOK, Busy, Reply, Refused, Refusals, Outcomes
<1>8. ASSUME NEW r \in Slots, Retry(r) PROVE TypeOK'
  <2>0. chain' \in Seq(Slots)
    BY <1>8, ChainType DEF Retry, Found, Deciding
  <2>1. rows' \in [Keys -> Rows]
    BY <1>8, RowType, SetRowType DEF Retry
  <2> QED
    BY <1>8, <2>0, <2>1, RunType DEF TypeOK, Retry, Run
<1>9. ASSUME NEW r \in Slots, Exhaust(r) PROVE TypeOK'
  <2>0. chain' \in Seq(Slots)
    BY <1>9, ChainType DEF Exhaust, Found, Deciding
  <2>1. rows' \in [Keys -> Rows]
    BY <1>9, RowType, SetRowType DEF Exhaust
  <2> QED
    BY <1>9, <2>0, <2>1 DEF TypeOK, Exhaust, Reply, Answered, Refusals, Outcomes
<1>10. ASSUME NEW r \in Slots, NEW o \in Outcomes, HandlerReturns(r, o) PROVE TypeOK'
  <2>0. chain' \in Seq(Slots)
    BY <1>10, ChainType DEF HandlerReturns
  <2> QED
    BY <1>10, <2>0 DEF TypeOK, HandlerReturns
<1>11. ASSUME NEW r \in Slots, RecordFailure(r) PROVE TypeOK'
  <2>0. chain' \in Seq(Slots)
    BY <1>11, ChainType DEF RecordFailure, Recording
  <2>1. rows' \in [Keys -> Rows]
    <3>1. CASE Row(r).status = "IN_PROGRESS"
      BY <1>11, <3>1, RowType, SetRowType DEF RecordFailure
    <3>2. CASE Row(r).status # "IN_PROGRESS"
      BY <1>11, <3>2 DEF RecordFailure, TypeOK
    <3> QED
      BY <3>1, <3>2
  <2> QED
    BY <1>11, <2>0, <2>1 DEF TypeOK, RecordFailure, Reply, Refused, Refusals, Outcomes
<1>12. ASSUME NEW r \in Slots, RecordError(r) PROVE TypeOK'
  <2> DEFINE v == [kind |-> "error", by |-> attempt[r]]
  <2>0. chain' \in Seq(Slots)
    BY <1>12, ChainType DEF RecordError, Recording
  <2>1. v \in Verdicts
    BY DEF TypeOK
  <2>2. rows' \in [Keys -> Rows]
    <3>1. CASE Row(r).status = "IN_PROGRESS"
      BY <1>12, <3>1, <2>1, RowType, SetRowType DEF RecordError
    <3>2. CASE Row(r).status # "IN_PROGRESS"
      BY <1>12, <3>2 DEF RecordError, TypeOK
    <3> QED
      BY <3>1, <3>2
  <2> QED
    BY <1>12, <2>0, <2>1, <2>2 DEF TypeOK, RecordError, Reply, Answered, Refusals, Outcomes
<1>13. ASSUME NEW r \in Slots, Commit(r) PROVE TypeOK'
  <2> DEFINE v == [kind |-> "result", by |-> attempt[r]]
  <2>0. chain' \in Seq(Slots)
    BY <1>13, ChainType DEF Commit, Recording
  <2>1. v \in Verdicts
    BY DEF TypeOK
  <2>2. rows' \in [Keys -> Rows]
    BY <1>13, <2>1, RowType, SetRowType DEF Commit
  <2> QED
    BY <1>13, <2>0, <2>1, <2>2 DEF TypeOK, Commit, Reply, Answered, Refusals, Outcomes
<1>14. ASSUME NEW r \in Slots, CommitThrows(r) PROVE TypeOK'
  <2>0. chain' \in Seq(Slots)
    BY <1>14, ChainType DEF CommitThrows, Recording
  <2> QED
    BY <1>14, <2>0 DEF TypeOK, CommitThrows, Reply, Refused, Refusals, Outcomes
<1>15. ASSUME NEW r \in Slots, NullBody(r) PROVE TypeOK'
  BY <1>15 DEF TypeOK, NullBody, Reply, Refused, Refusals, Outcomes
<1> QED
  BY <1>1, <1>2, <1>3, <1>4, <1>5, <1>6, <1>7, <1>8, <1>9, <1>10, <1>11, <1>12,
     <1>13, <1>14, <1>15 DEF Next, Serve, Decide, Record

(* The rows, the slots and the answers have their types at every moment:   *)
(* in particular a row never gets a status readOrInsert has no case for.   *)
THEOREM TypeCorrect == Spec => []TypeOK
BY TypeInit, TypeStep, PTL DEF Spec

(* What recording an outcome finds: the row is still IN_PROGRESS, so the   *)
(* guard of fail() is true, and there is a verdict to write.               *)
LEMMA RecordFinds ==
  ASSUME TypeOK, FlightInv, NEW r \in Slots, pc[r] = "record"
  PROVE  /\ call[r].key \in Keys /\ rows[call[r].key] \in Rows
         /\ Row(r) = rows[call[r].key] /\ Row(r).status = "IN_PROGRESS"
         /\ attempt[r] \in Nat /\ InRun(r)
BY DEF TypeOK, FlightInv, InRun, Row

(* While a handler runs, its row is IN_PROGRESS, so that no second request *)
(* of the key is let through; its execution is the latest of the key.      *)
LEMMA FlightStep == IInv /\ [Next]_vars => FlightInv'
<1> SUFFICES ASSUME IInv, [Next]_vars PROVE FlightInv'
    OBVIOUS
<1> USE VerdictValues, LedgerAssumption DEF IInv, Deciding
<1>1. CASE UNCHANGED vars
  BY <1>1 DEF vars, FlightInv, InRun
<1>2. ASSUME NEW r \in Slots, NEW k \in Keys, NEW f \in Fingerprints, Arrive(r, k, f)
      PROVE FlightInv'
  BY <1>2 DEF TypeOK, Rows, Arrive, Refused, FlightInv, InRun
<1>3. ASSUME NEW r \in Slots, ArriveWithoutId(r) PROVE FlightInv'
  BY <1>3 DEF TypeOK, Rows, ArriveWithoutId, Refused, FlightInv, InRun
<1>4. ASSUME NEW r \in Slots, Insert(r) PROVE FlightInv'
  BY <1>4 DEF TypeOK, Rows, Insert, Row, SetRow, Run, FlightInv, InRun
<1>5. ASSUME NEW r \in Slots, Mismatch(r) PROVE FlightInv'
  BY <1>5 DEF TypeOK, Rows, Mismatch, Reply, Refused, FlightInv, InRun
<1>6. ASSUME NEW r \in Slots, Replay(r) PROVE FlightInv'
  BY <1>6 DEF TypeOK, Rows, Replay, Found, Row, Reply, Answered, FlightInv,
     InRun
<1>7. ASSUME NEW r \in Slots, Busy(r) PROVE FlightInv'
  BY <1>7 DEF TypeOK, Rows, Busy, Found, Reply, Refused, FlightInv, InRun
<1>8. ASSUME NEW r \in Slots, Retry(r) PROVE FlightInv'
  BY <1>8 DEF TypeOK, Rows, Retry, MayRetry, Found, Row, SetRow, Run,
     FlightInv, InRun
<1>9. ASSUME NEW r \in Slots, Exhaust(r) PROVE FlightInv'
  BY <1>9 DEF TypeOK, Rows, Exhaust, MayRetry, Found, Row, SetRow, Reply,
     Answered, FlightInv, InRun
<1>10. ASSUME NEW r \in Slots, NEW o \in Outcomes, HandlerReturns(r, o)
      PROVE FlightInv'
  BY <1>10 DEF TypeOK, Rows, HandlerReturns, FlightInv, InRun
<1>11. ASSUME NEW r \in Slots, RecordFailure(r) PROVE FlightInv'
  <2>1. pc[r] = "record"
    BY <1>11 DEF RecordFailure, Recording
  <2>2. SetRow(r, [Row(r) EXCEPT !.status = "FAILED", !.retryable = TRUE])
    BY <1>11, <2>1, RecordFinds DEF RecordFailure
  <2> QED
    BY <1>11, <2>1, <2>2, RecordFinds
       DEF TypeOK, Rows, RecordFailure, Row, SetRow, Reply, Refused, FlightInv, InRun
<1>12. ASSUME NEW r \in Slots, RecordError(r) PROVE FlightInv'
  <2>1. pc[r] = "record"
    BY <1>12 DEF RecordError, Recording
  <2>2. SetRow(r, [Row(r) EXCEPT !.status = "COMPLETED", !.retryable = FALSE,
                                !.verdict = [kind |-> "error", by |-> attempt[r]]])
    BY <1>12, <2>1, RecordFinds DEF RecordError
  <2> QED
    BY <1>12, <2>1, <2>2, RecordFinds
       DEF TypeOK, Rows, RecordError, Row, SetRow, Reply, Answered, FlightInv, InRun
<1>13. ASSUME NEW r \in Slots, Commit(r) PROVE FlightInv'
  <2>1. pc[r] = "record"
    BY <1>13 DEF Commit, Recording
  <2>2. SetRow(r, [Row(r) EXCEPT !.status = "COMPLETED", !.retryable = FALSE,
                                !.verdict = [kind |-> "result", by |-> attempt[r]]])
    BY <1>13, <2>1, RecordFinds DEF Commit
  <2> QED
    BY <1>13, <2>1, <2>2, RecordFinds
       DEF TypeOK, Rows, Commit, Row, SetRow, Reply, Answered, FlightInv, InRun
<1>14. ASSUME NEW r \in Slots, CommitThrows(r) PROVE FlightInv'
  BY <1>14 DEF TypeOK, Rows, CommitThrows, Recording, Reply, Refused,
     FlightInv, InRun
<1>15. ASSUME NEW r \in Slots, NullBody(r) PROVE FlightInv'
  BY <1>15 DEF TypeOK, Rows, NullBody, Reply, Refused, FlightInv, InRun
<1> QED
  BY <1>1, <1>2, <1>3, <1>4, <1>5, <1>6, <1>7, <1>8, <1>9, <1>10, <1>11, <1>12,
     <1>13, <1>14, <1>15 DEF Next, Serve, Decide, Record

(* A row that is not settled has counted every execution but the first.    *)
LEMMA RowStep == IInv /\ [Next]_vars => RowInv'
<1> SUFFICES ASSUME IInv, [Next]_vars PROVE RowInv'
    OBVIOUS
<1> USE VerdictValues, LedgerAssumption DEF IInv, Deciding
<1>1. CASE UNCHANGED vars
  BY <1>1 DEF vars, RowInv
<1>2. ASSUME NEW r \in Slots, NEW k \in Keys, NEW f \in Fingerprints, Arrive(r, k, f)
      PROVE RowInv'
  BY <1>2 DEF TypeOK, Rows, Arrive, Refused, RowInv
<1>3. ASSUME NEW r \in Slots, ArriveWithoutId(r) PROVE RowInv'
  BY <1>3 DEF TypeOK, Rows, ArriveWithoutId, Refused, RowInv
<1>4. ASSUME NEW r \in Slots, Insert(r) PROVE RowInv'
  BY <1>4 DEF TypeOK, Rows, Insert, Row, SetRow, Run, RowInv
<1>5. ASSUME NEW r \in Slots, Mismatch(r) PROVE RowInv'
  BY <1>5 DEF TypeOK, Rows, Mismatch, Reply, Refused, RowInv
<1>6. ASSUME NEW r \in Slots, Replay(r) PROVE RowInv'
  BY <1>6 DEF TypeOK, Rows, Replay, Found, Row, Reply, Answered, RowInv
<1>7. ASSUME NEW r \in Slots, Busy(r) PROVE RowInv'
  BY <1>7 DEF TypeOK, Rows, Busy, Found, Reply, Refused, RowInv
<1>8. ASSUME NEW r \in Slots, Retry(r) PROVE RowInv'
  BY <1>8 DEF TypeOK, Rows, Retry, MayRetry, Found, Row, SetRow, Run, RowInv
<1>9. ASSUME NEW r \in Slots, Exhaust(r) PROVE RowInv'
  BY <1>9 DEF TypeOK, Rows, Exhaust, MayRetry, Found, Row, SetRow, Reply,
     Answered, RowInv
<1>10. ASSUME NEW r \in Slots, NEW o \in Outcomes, HandlerReturns(r, o)
      PROVE RowInv'
  BY <1>10 DEF TypeOK, Rows, HandlerReturns, RowInv
<1>11. ASSUME NEW r \in Slots, RecordFailure(r) PROVE RowInv'
  <2>1. pc[r] = "record"
    BY <1>11 DEF RecordFailure, Recording
  <2>2. SetRow(r, [Row(r) EXCEPT !.status = "FAILED", !.retryable = TRUE])
    BY <1>11, <2>1, RecordFinds DEF RecordFailure
  <2> QED
    BY <1>11, <2>1, <2>2, RecordFinds
       DEF TypeOK, Rows, RecordFailure, Row, SetRow, Reply, Refused, RowInv
<1>12. ASSUME NEW r \in Slots, RecordError(r) PROVE RowInv'
  <2> DEFINE key == call[r].key
  <2>1. pc[r] = "record"
    BY <1>12 DEF RecordError, Recording
  <2>2. SetRow(r, [Row(r) EXCEPT !.status = "COMPLETED", !.retryable = FALSE,
                                !.verdict = [kind |-> "error", by |-> attempt[r]]])
    BY <1>12, <2>1, RecordFinds DEF RecordError
  <2>3. rows'[key].status = "COMPLETED" /\ rows'[key].verdict # Open
    BY <2>1, <2>2, RecordFinds DEF TypeOK, Rows, SetRow
  <2>4. \A k \in Keys \ {key} : rows'[k] = rows[k]
    BY <2>2 DEF TypeOK, SetRow
  <2>5. executions' = executions
    BY <1>12 DEF RecordError
  <2> QED
    BY <2>3, <2>4, <2>5 DEF RowInv
<1>13. ASSUME NEW r \in Slots, Commit(r) PROVE RowInv'
  <2> DEFINE key == call[r].key
  <2>1. pc[r] = "record"
    BY <1>13 DEF Commit, Recording
  <2>2. SetRow(r, [Row(r) EXCEPT !.status = "COMPLETED", !.retryable = FALSE,
                                !.verdict = [kind |-> "result", by |-> attempt[r]]])
    BY <1>13, <2>1, RecordFinds DEF Commit
  <2>3. rows'[key].status = "COMPLETED" /\ rows'[key].verdict # Open
    BY <2>1, <2>2, RecordFinds DEF TypeOK, Rows, SetRow
  <2>4. \A k \in Keys \ {key} : rows'[k] = rows[k]
    BY <2>2 DEF TypeOK, SetRow
  <2>5. executions' = executions
    BY <1>13 DEF Commit
  <2> QED
    BY <2>3, <2>4, <2>5 DEF RowInv
<1>14. ASSUME NEW r \in Slots, CommitThrows(r) PROVE RowInv'
  BY <1>14 DEF TypeOK, Rows, CommitThrows, Recording, Reply, Refused, RowInv
<1>15. ASSUME NEW r \in Slots, NullBody(r) PROVE RowInv'
  BY <1>15 DEF TypeOK, Rows, NullBody, Reply, Refused, RowInv
<1> QED
  BY <1>1, <1>2, <1>3, <1>4, <1>5, <1>6, <1>7, <1>8, <1>9, <1>10, <1>11, <1>12,
     <1>13, <1>14, <1>15 DEF Next, Serve, Decide, Record

(* A final answer is the one the row keeps.                                *)
LEMMA AnswerStep == IInv /\ [Next]_vars => AnswerInv'
<1> SUFFICES ASSUME IInv, [Next]_vars PROVE AnswerInv'
    OBVIOUS
<1> USE VerdictValues, LedgerAssumption DEF IInv, Deciding
<1>1. CASE UNCHANGED vars
  BY <1>1 DEF vars, RowInv, AnswerInv, InRun
<1>2. ASSUME NEW r \in Slots, NEW k \in Keys, NEW f \in Fingerprints, Arrive(r, k, f)
      PROVE AnswerInv'
  BY <1>2 DEF TypeOK, Rows, Arrive, Refused, RowInv, AnswerInv, InRun
<1>3. ASSUME NEW r \in Slots, ArriveWithoutId(r) PROVE AnswerInv'
  BY <1>3 DEF TypeOK, Rows, ArriveWithoutId, Refused, RowInv, AnswerInv, InRun
<1>4. ASSUME NEW r \in Slots, Insert(r) PROVE AnswerInv'
  BY <1>4 DEF TypeOK, Rows, Insert, Row, SetRow, Run, RowInv, AnswerInv, InRun
<1>5. ASSUME NEW r \in Slots, Mismatch(r) PROVE AnswerInv'
  BY <1>5 DEF TypeOK, Rows, Mismatch, Reply, Refused, RowInv, AnswerInv, InRun
<1>6. ASSUME NEW r \in Slots, Replay(r) PROVE AnswerInv'
  BY <1>6 DEF TypeOK, Rows, Replay, Found, Row, Reply, Answered, RowInv,
     AnswerInv, InRun
<1>7. ASSUME NEW r \in Slots, Busy(r) PROVE AnswerInv'
  BY <1>7 DEF TypeOK, Rows, Busy, Found, Reply, Refused, RowInv, AnswerInv,
     InRun
<1>8. ASSUME NEW r \in Slots, Retry(r) PROVE AnswerInv'
  BY <1>8 DEF TypeOK, Rows, Retry, MayRetry, Found, Row, SetRow, Run, RowInv,
     AnswerInv, InRun
<1>9. ASSUME NEW r \in Slots, Exhaust(r) PROVE AnswerInv'
  BY <1>9 DEF TypeOK, Rows, Exhaust, MayRetry, Found, Row, SetRow, Reply,
     Answered, RowInv, AnswerInv, InRun
<1>10. ASSUME NEW r \in Slots, NEW o \in Outcomes, HandlerReturns(r, o)
      PROVE AnswerInv'
  BY <1>10 DEF TypeOK, Rows, HandlerReturns, RowInv, AnswerInv, InRun
<1>11. ASSUME NEW r \in Slots, RecordFailure(r) PROVE AnswerInv'
  <2>1. pc[r] = "record"
    BY <1>11 DEF RecordFailure, Recording
  <2>2. SetRow(r, [Row(r) EXCEPT !.status = "FAILED", !.retryable = TRUE])
    BY <1>11, <2>1, RecordFinds DEF RecordFailure
  <2> QED
    BY <1>11, <2>1, <2>2, RecordFinds
       DEF TypeOK, Rows, RecordFailure, Row, SetRow, Reply, Refused, RowInv, AnswerInv, InRun
<1>12. ASSUME NEW r \in Slots, RecordError(r) PROVE AnswerInv'
  <2>1. pc[r] = "record"
    BY <1>12 DEF RecordError, Recording
  <2>2. SetRow(r, [Row(r) EXCEPT !.status = "COMPLETED", !.retryable = FALSE,
                                !.verdict = [kind |-> "error", by |-> attempt[r]]])
    BY <1>12, <2>1, RecordFinds DEF RecordError
  <2> QED
    BY <1>12, <2>1, <2>2, RecordFinds
       DEF TypeOK, Rows, RecordError, Row, SetRow, Reply, Answered, RowInv, AnswerInv, InRun
<1>13. ASSUME NEW r \in Slots, Commit(r) PROVE AnswerInv'
  <2>1. pc[r] = "record"
    BY <1>13 DEF Commit, Recording
  <2>2. SetRow(r, [Row(r) EXCEPT !.status = "COMPLETED", !.retryable = FALSE,
                                !.verdict = [kind |-> "result", by |-> attempt[r]]])
    BY <1>13, <2>1, RecordFinds DEF Commit
  <2> QED
    BY <1>13, <2>1, <2>2, RecordFinds
       DEF TypeOK, Rows, Commit, Row, SetRow, Reply, Answered, RowInv, AnswerInv, InRun
<1>14. ASSUME NEW r \in Slots, CommitThrows(r) PROVE AnswerInv'
  BY <1>14 DEF TypeOK, Rows, CommitThrows, Recording, Reply, Refused, RowInv,
     AnswerInv, InRun
<1>15. ASSUME NEW r \in Slots, NullBody(r) PROVE AnswerInv'
  BY <1>15 DEF TypeOK, Rows, NullBody, Reply, Refused, RowInv, AnswerInv, InRun
<1> QED
  BY <1>1, <1>2, <1>3, <1>4, <1>5, <1>6, <1>7, <1>8, <1>9, <1>10, <1>11, <1>12,
     <1>13, <1>14, <1>15 DEF Next, Serve, Decide, Record

(* A row that is IN_PROGRESS has a handler, or the outcome was lost.       *)
LEMMA OwnedStep == IInv /\ [Next]_vars => OwnedInv'
<1> SUFFICES ASSUME IInv, [Next]_vars PROVE OwnedInv'
    OBVIOUS
<1> USE VerdictValues, LedgerAssumption DEF IInv, Deciding
<1>1. CASE UNCHANGED vars
  BY <1>1 DEF vars, OwnedInv, InRun
<1>2. ASSUME NEW r \in Slots, NEW k \in Keys, NEW f \in Fingerprints, Arrive(r, k, f)
      PROVE OwnedInv'
  BY <1>2 DEF TypeOK, Rows, Arrive, Refused, OwnedInv, InRun
<1>3. ASSUME NEW r \in Slots, ArriveWithoutId(r) PROVE OwnedInv'
  BY <1>3 DEF TypeOK, Rows, ArriveWithoutId, Refused, OwnedInv, InRun
<1>4. ASSUME NEW r \in Slots, Insert(r) PROVE OwnedInv'
  BY <1>4 DEF TypeOK, Rows, Insert, Row, SetRow, Run, OwnedInv, InRun
<1>5. ASSUME NEW r \in Slots, Mismatch(r) PROVE OwnedInv'
  BY <1>5 DEF TypeOK, Rows, Mismatch, Reply, Refused, OwnedInv, InRun
<1>6. ASSUME NEW r \in Slots, Replay(r) PROVE OwnedInv'
  BY <1>6 DEF TypeOK, Rows, Replay, Found, Row, Reply, Answered, OwnedInv,
     InRun
<1>7. ASSUME NEW r \in Slots, Busy(r) PROVE OwnedInv'
  BY <1>7 DEF TypeOK, Rows, Busy, Found, Reply, Refused, OwnedInv, InRun
<1>8. ASSUME NEW r \in Slots, Retry(r) PROVE OwnedInv'
  BY <1>8 DEF TypeOK, Rows, Retry, MayRetry, Found, Row, SetRow, Run,
     OwnedInv, InRun
<1>9. ASSUME NEW r \in Slots, Exhaust(r) PROVE OwnedInv'
  BY <1>9 DEF TypeOK, Rows, Exhaust, MayRetry, Found, Row, SetRow, Reply,
     Answered, OwnedInv, InRun
<1>10. ASSUME NEW r \in Slots, NEW o \in Outcomes, HandlerReturns(r, o)
      PROVE OwnedInv'
  BY <1>10 DEF TypeOK, Rows, HandlerReturns, OwnedInv, InRun
<1>11. ASSUME NEW r \in Slots, RecordFailure(r) PROVE OwnedInv'
  <2>1. pc[r] = "record"
    BY <1>11 DEF RecordFailure, Recording
  <2>2. SetRow(r, [Row(r) EXCEPT !.status = "FAILED", !.retryable = TRUE])
    BY <1>11, <2>1, RecordFinds DEF RecordFailure
  <2> QED
    BY <1>11, <2>1, <2>2, RecordFinds
       DEF TypeOK, Rows, RecordFailure, Row, SetRow, Reply, Refused, OwnedInv, InRun
<1>12. ASSUME NEW r \in Slots, RecordError(r) PROVE OwnedInv'
  <2>1. pc[r] = "record"
    BY <1>12 DEF RecordError, Recording
  <2>2. SetRow(r, [Row(r) EXCEPT !.status = "COMPLETED", !.retryable = FALSE,
                                !.verdict = [kind |-> "error", by |-> attempt[r]]])
    BY <1>12, <2>1, RecordFinds DEF RecordError
  <2> QED
    BY <1>12, <2>1, <2>2, RecordFinds
       DEF TypeOK, Rows, RecordError, Row, SetRow, Reply, Answered, OwnedInv, InRun
<1>13. ASSUME NEW r \in Slots, Commit(r) PROVE OwnedInv'
  <2>1. pc[r] = "record"
    BY <1>13 DEF Commit, Recording
  <2>2. SetRow(r, [Row(r) EXCEPT !.status = "COMPLETED", !.retryable = FALSE,
                                !.verdict = [kind |-> "result", by |-> attempt[r]]])
    BY <1>13, <2>1, RecordFinds DEF Commit
  <2> QED
    BY <1>13, <2>1, <2>2, RecordFinds
       DEF TypeOK, Rows, Commit, Row, SetRow, Reply, Answered, OwnedInv, InRun
<1>14. ASSUME NEW r \in Slots, CommitThrows(r) PROVE OwnedInv'
  BY <1>14 DEF TypeOK, Rows, CommitThrows, Recording, Reply, Refused,
     OwnedInv, InRun
<1>15. ASSUME NEW r \in Slots, NullBody(r) PROVE OwnedInv'
  BY <1>15 DEF TypeOK, Rows, NullBody, Reply, Refused, OwnedInv, InRun
<1> QED
  BY <1>1, <1>2, <1>3, <1>4, <1>5, <1>6, <1>7, <1>8, <1>9, <1>10, <1>11, <1>12,
     <1>13, <1>14, <1>15 DEF Next, Serve, Decide, Record

LEMMA IInvInit == Init => IInv
<1> SUFFICES ASSUME Init PROVE IInv
    OBVIOUS
<1>1. TypeOK
  BY TypeInit
<1>2. FlightInv
  BY DEF Init, FlightInv, InRun
<1>3. RowInv
  BY DEF Init, NoRow, RowInv
<1>4. AnswerInv
  BY DEF Init, Refused, AnswerInv
<1>5. OwnedInv
  BY DEF Init, NoRow, OwnedInv
<1> QED
  BY <1>1, <1>2, <1>3, <1>4, <1>5 DEF IInv

LEMMA IInvStep == IInv /\ [Next]_vars => IInv'
BY TypeStep, FlightStep, RowStep, AnswerStep, OwnedStep DEF IInv

(* The inductive invariant holds throughout. *)
THEOREM Inductive == Spec => []IInv
BY IInvInit, IInvStep, PTL DEF Spec

(* However duplicates, retries and late answers overlap, the handler of a  *)
(* client request id is never running twice at the same time.              *)
THEOREM HandlersExclude == Spec => []OneHandlerPerKey
<1>1. IInv => OneHandlerPerKey
  BY DEF IInv, FlightInv, InRun, OneHandlerPerKey, InFlight
<1> QED
  BY Inductive, <1>1, PTL

(* Two final answers to the same client request id are the same answer.    *)
THEOREM DuplicatesAgree == Spec => []AnswersAgree
<1>1. IInv => AnswersAgree
  BY DEF IInv, AnswerInv, AnswersAgree
<1> QED
  BY Inductive, <1>1, PTL

(* A row that is IN_PROGRESS has a handler behind it, except where         *)
(* recording the outcome threw.                                            *)
THEOREM NothingLeftInProgress == Spec => []InProgressIsOwned
<1>1. IInv => InProgressIsOwned
  BY DEF IInv, OwnedInv, InRun, InProgressIsOwned, InFlight
<1> QED
  BY Inductive, <1>1, PTL

---------------------------------------------------------------------------
(* The ledger implements MutationCell.                                     *)

RowVerdict == [k \in Keys |-> rows[k].verdict]

(* Starting the handler is an Attempt: the key had no verdict, and had     *)
(* attempts left.                                                          *)
LEMMA RunIsAttempt ==
  ASSUME IInv, NEW r \in Slots, Run(r),
         rows[call[r].key].status \in {"ABSENT", "FAILED"},
         executions[call[r].key] < FAILED_RETRY_CAP + 1,
         RowVerdict' = RowVerdict
  PROVE  Cell!Next
<1>1. call[r].key \in Keys
  BY DEF IInv, TypeOK
<1>2. RowVerdict[call[r].key] = Open
  BY <1>1 DEF IInv, RowInv, RowVerdict
<1> QED
  BY <1>1, <1>2 DEF Cell!Next, Cell!Attempt, Cell!Open, Open, Run, RowVerdict

(* Writing the verdict of the execution that has just ended is a Settle.   *)
LEMMA VerdictIsSettle ==
  ASSUME IInv, NEW r \in Slots, pc[r] = "record", NEW kind \in {"result", "error"},
         SetRow(r, [Row(r) EXCEPT !.status = "COMPLETED", !.retryable = FALSE,
                                  !.verdict = [kind |-> kind, by |-> attempt[r]]]),
         executions' = executions
  PROVE  Cell!Next
<1> DEFINE key == call[r].key
<1>1. key \in Keys /\ rows[key].status = "IN_PROGRESS" /\ Row(r) = rows[key]
  BY RecordFinds DEF IInv
<1>2. rows[key] \in Rows
  BY RecordFinds DEF IInv
<1>3. attempt[r] = executions[key]
  BY DEF IInv, FlightInv, InRun
<1>4. executions[key] > 0
  BY <1>1, <1>2 DEF IInv, RowInv, Rows
<1>5. RowVerdict[key] = Open
  BY <1>1 DEF IInv, RowInv, RowVerdict
<1>6. rows' = [rows EXCEPT ![key] = [rows[key] EXCEPT
                  !.status = "COMPLETED", !.retryable = FALSE,
                  !.verdict = [kind |-> kind, by |-> executions[key]]]]
  BY <1>1, <1>3 DEF SetRow
<1>7. RowVerdict' =
        [RowVerdict EXCEPT ![key] = [kind |-> kind, by |-> executions[key]]]
  BY <1>1, <1>2, <1>6 DEF RowVerdict, IInv, TypeOK, Rows
<1> QED
  BY <1>1, <1>4, <1>5, <1>7
     DEF Cell!Next, Cell!Settle, Cell!Open, Open, RowVerdict

(* Retries are bounded, handlers run one after the other, and once a       *)
(* verdict is there it stays and nothing is executed any more.             *)
THEOREM LedgerImplementsCell == Spec => ImplementsCell
<1>1. Init => Cell!Init
  BY DEF Init, NoRow, Cell!Init, Cell!Open, Open
<1>2. IInv /\ [Next]_vars => [Cell!Next]_(Cell!vars)
  <2> SUFFICES ASSUME IInv, [Next]_vars PROVE [Cell!Next]_(Cell!vars)
      OBVIOUS
  <2> DEFINE Same == rows' = rows /\ executions' = executions
  <2>1. Same => UNCHANGED Cell!vars
    BY DEF Cell!vars
  <2>2. \A r \in Slots : call[r].key \in Keys
    BY DEF IInv, TypeOK
  <2>3. CASE UNCHANGED vars
    BY <2>1, <2>3 DEF vars
  <2>4. ASSUME NEW r \in Slots,
               \/ \E k \in Keys, f \in Fingerprints : Arrive(r, k, f)
               \/ ArriveWithoutId(r) \/ Mismatch(r) \/ Replay(r) \/ Busy(r)
               \/ \E o \in Outcomes : HandlerReturns(r, o)
               \/ NullBody(r) \/ CommitThrows(r)
        PROVE  Same
    BY <2>4 DEF Arrive, ArriveWithoutId, Mismatch, Replay, Busy, HandlerReturns,
                NullBody, CommitThrows
  <2>5. ASSUME NEW r \in Slots, Insert(r) PROVE Cell!Next
    <3>1. Row(r) = rows[call[r].key] /\ rows[call[r].key].status = "ABSENT"
      BY <2>5 DEF Insert, Deciding, Row
    <3>2. executions[call[r].key] < FAILED_RETRY_CAP + 1
      BY <2>2, <3>1, LedgerAssumption DEF IInv, RowInv
    <3>3. rows[call[r].key].verdict = Open
      BY <2>2, <3>1 DEF IInv, RowInv
    <3>4. RowVerdict' = RowVerdict
      BY <2>2, <2>5, <3>3 DEF Insert, SetRow, RowVerdict, IInv, TypeOK
    <3> QED
      BY <2>5, <3>1, <3>2, <3>4, RunIsAttempt DEF Insert
  <2>6. ASSUME NEW r \in Slots, Retry(r) PROVE Cell!Next
    <3>1. Row(r) = rows[call[r].key] /\ rows[call[r].key].status = "FAILED"
      BY <2>6 DEF Retry, Found, Row
    <3>2. rows[call[r].key] \in Rows
      BY <2>2 DEF IInv, TypeOK
    <3>3. executions[call[r].key] < FAILED_RETRY_CAP + 1
      BY <2>2, <2>6, <3>1, <3>2, LedgerAssumption
         DEF IInv, RowInv, Retry, MayRetry, Rows
    <3>4. RowVerdict' = RowVerdict
      BY <2>2, <2>6, <3>1, <3>2 DEF Retry, SetRow, RowVerdict, IInv, TypeOK, Rows
    <3> QED
      BY <2>6, <3>1, <3>3, <3>4, RunIsAttempt DEF Retry
  <2>7. ASSUME NEW r \in Slots, Exhaust(r) PROVE Cell!Next
    <3> DEFINE key == call[r].key
    <3>1. Row(r) = rows[key] /\ rows[key].status = "FAILED" /\ rows[key] \in Rows
      BY <2>2, <2>7 DEF Exhaust, Found, Row, IInv, TypeOK
    <3>2. executions[key] = FAILED_RETRY_CAP + 1
      BY <2>2, <2>7, <3>1, LedgerAssumption
         DEF IInv, RowInv, Exhaust, MayRetry, Rows
    <3>3. RowVerdict[key] = Open
      BY <2>2, <3>1 DEF IInv, RowInv, RowVerdict
    <3>4. RowVerdict' = [RowVerdict EXCEPT ![key] = Exhausted]
      BY <2>2, <2>7, <3>1 DEF Exhaust, SetRow, RowVerdict, IInv, TypeOK, Rows
    <3>5. executions' = executions
      BY <2>7 DEF Exhaust
    <3>6. executions[key] > 0
      BY <3>2, LedgerAssumption
    <3>7. Exhausted = [kind |-> "exhausted", by |-> 0]
      BY DEF Exhausted
    <3>8. RowVerdict[key] = Cell!Open
      BY <3>3 DEF Open, Cell!Open
    <3>9. PICK k \in Keys : k = key
      BY <2>2
    <3>10. Cell!Settle(k)
      BY <3>2, <3>4, <3>5, <3>6, <3>7, <3>8, <3>9 DEF Cell!Settle, RowVerdict
    <3> QED
      BY <3>10 DEF Cell!Next
  <2>8. ASSUME NEW r \in Slots, RecordFailure(r) PROVE UNCHANGED Cell!vars
    <3>1. pc[r] = "record"
      BY <2>8 DEF RecordFailure, Recording
    <3>2. Row(r) = rows[call[r].key] /\ Row(r).status = "IN_PROGRESS"
          /\ Row(r) \in Rows
      BY <3>1, RecordFinds DEF IInv
    <3>3. SetRow(r, [Row(r) EXCEPT !.status = "FAILED", !.retryable = TRUE])
      BY <2>8, <3>2 DEF RecordFailure
    <3>4. RowVerdict' = RowVerdict
      BY <2>2, <3>2, <3>3 DEF SetRow, RowVerdict, IInv, TypeOK, Rows
    <3>5. executions' = executions
      BY <2>8 DEF RecordFailure
    <3> QED
      BY <3>4, <3>5 DEF Cell!vars, RowVerdict
  <2>9. ASSUME NEW r \in Slots, RecordError(r) PROVE Cell!Next
    <3>1. pc[r] = "record" /\ executions' = executions
      BY <2>9 DEF RecordError, Recording
    <3> QED
      BY <2>9, <3>1, RecordFinds, VerdictIsSettle DEF RecordError, IInv
  <2>10. ASSUME NEW r \in Slots, Commit(r) PROVE Cell!Next
    <3>1. pc[r] = "record" /\ executions' = executions
      BY <2>10 DEF Commit, Recording
    <3> QED
      BY <2>10, <3>1, VerdictIsSettle DEF Commit
  <2>11. ASSUME NEW r \in Slots,
                \/ \E k \in Keys, f \in Fingerprints : Arrive(r, k, f)
                \/ ArriveWithoutId(r) \/ Serve(r)
         PROVE  Cell!Next \/ UNCHANGED Cell!vars
    <3>1. \/ \E k \in Keys, f \in Fingerprints : Arrive(r, k, f)
          \/ ArriveWithoutId(r) \/ Mismatch(r) \/ Replay(r) \/ Busy(r)
          \/ \E o \in Outcomes : HandlerReturns(r, o)
          \/ NullBody(r) \/ CommitThrows(r)
          \/ Insert(r) \/ Retry(r) \/ Exhaust(r)
          \/ RecordFailure(r) \/ RecordError(r) \/ Commit(r)
      BY <2>11 DEF Serve, Decide, Record
    <3>2. CASE Insert(r)
      BY <2>5, <3>2
    <3>3. CASE Retry(r)
      BY <2>6, <3>3
    <3>4. CASE Exhaust(r)
      BY <2>7, <3>4
    <3>5. CASE RecordFailure(r)
      BY <2>8, <3>5
    <3>6. CASE RecordError(r)
      BY <2>9, <3>6
    <3>7. CASE Commit(r)
      BY <2>10, <3>7
    <3> QED
      BY <2>1, <2>4, <3>1, <3>2, <3>3, <3>4, <3>5, <3>6, <3>7
  <2> QED
    BY <2>3, <2>11 DEF Next
<1> QED
  BY <1>1, <1>2, Inductive, PTL DEF Spec, ImplementsCell, Cell!Spec
=============================================================================

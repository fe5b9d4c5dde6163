------------------------- MODULE IdempotencyLedger -------------------------
(***************************************************************************)
(* The idempotency ledger of the loopback MCP daemon                       *)
(* (scripts/mcp-idempotency.mjs, applied to every request by               *)
(* scripts/mcp-memory-daemon.mjs): one row per client request id decides   *)
(* whether a mutation is run, replayed or refused.                         *)
(*                                                                         *)
(* The rows are read and written only inside withLock, a chain of promises *)
(* that runs one job after the other; no job has an await in it, so each   *)
(* is one step here.  Between the job that decides and the job that        *)
(* records the outcome the handler runs, and any number of other requests  *)
(* take their own steps.  The ledger is process-local: its life is that of *)
(* the daemon, and so is a behaviour.                                      *)
(***************************************************************************)
EXTENDS Integers, Sequences

CONSTANTS
  Slots,           \* requests being served at a time; a slot is used again
  Keys,            \* client request ids
  Fingerprints,    \* canonicalFingerprint of method, tool and arguments
  FAILED_RETRY_CAP

ASSUME LedgerAssumption ==
  FAILED_RETRY_CAP \in Nat /\ Keys # {} /\ Fingerprints # {}

(* What a handler does with the call: a JSON-RPC result, a JSON-RPC error, *)
(* nothing that can be read (it threw, or answered without a JSON body, and *)
(* may have executed all the same), or a body with neither result nor error *)
Outcomes == {"result", "error", "unreadable", "blank"}

VARIABLES
  rows,      \* ledger.rows
  chain,     \* ledger.chain: the slots whose jobs have still to run, in order
  pc,        \* where each slot is
  call,      \* its call: key and fingerprint
  attempt,   \* the number of the execution it runs
  outcome,   \* what its handler came back with
  answer,    \* its last answer
  executions,\* history: how often the handler was called, by key
  wedged     \* history: keys the outcome of which was not recorded

vars == <<rows, chain, pc, call, attempt, outcome, answer, executions, wedged>>

Open == [kind |-> "open", by |-> 0]
Exhausted == [kind |-> "exhausted", by |-> 0]

Verdicts == [kind : {"open", "exhausted", "result", "error"}, by : Nat]

Refusals == {"none", "missing_client_request_id", "idempotency_fingerprint_mismatch",
             "idempotency_in_progress", "threw"}

Refused(why) == [why |-> why, verdict |-> Open]
Answered(v) == [why |-> "none", verdict |-> v]

NoRow == [status |-> "ABSENT", fingerprint |-> CHOOSE f \in Fingerprints : TRUE,
          verdict |-> Open, retries |-> 0, retryable |-> FALSE]

Rows == [status : {"ABSENT", "IN_PROGRESS", "FAILED", "COMPLETED"},
         fingerprint : Fingerprints, verdict : Verdicts, retries : Nat,
         retryable : BOOLEAN]

TypeOK ==
  /\ rows \in [Keys -> Rows]
  /\ chain \in Seq(Slots)
  /\ pc \in [Slots -> {"idle", "decide", "run", "record"}]
  /\ call \in [Slots -> [key : Keys, fingerprint : Fingerprints]]
  /\ attempt \in [Slots -> Nat]
  /\ outcome \in [Slots -> Outcomes]
  /\ answer \in [Slots -> [why : Refusals, verdict : Verdicts]]
  /\ executions \in [Keys -> Nat]
  /\ wedged \subseteq Keys

Init ==
  /\ rows = [k \in Keys |-> NoRow]
  /\ chain = <<>>
  /\ pc = [r \in Slots |-> "idle"]
  /\ call = [r \in Slots |-> [key |-> CHOOSE k \in Keys : TRUE,
                               fingerprint |-> CHOOSE f \in Fingerprints : TRUE]]
  /\ attempt = [r \in Slots |-> 0]
  /\ outcome = [r \in Slots |-> "result"]
  /\ answer = [r \in Slots |-> Refused("none")]
  /\ executions = [k \in Keys |-> 0]
  /\ wedged = {}

Row(r) == rows[call[r].key]

---------------------------------------------------------------------------
(* The chain of locks.                                                     *)

(* withLock: the job runs when every job before it has run.                *)
WithLock(r) == chain' = Append(chain, r)

MyTurn(r) == chain # <<>> /\ Head(chain) = r

(* The job of r runs and is over, be it that it returns or throws: then()  *)
(* is given the next job as both its callbacks.                            *)
Job(r) == MyTurn(r) /\ chain' = Tail(chain)

---------------------------------------------------------------------------
(* Requests.                                                               *)

(* A tools/call of a mutation arrives; anything else goes past the ledger. *)
Arrive(r, k, f) ==
  /\ pc[r] = "idle"
  /\ WithLock(r)
  /\ pc' = [pc EXCEPT ![r] = "decide"]
  /\ call' = [call EXCEPT ![r] = [key |-> k, fingerprint |-> f]]
  /\ answer' = [answer EXCEPT ![r] = Refused("none")]
  /\ UNCHANGED <<rows, attempt, outcome, executions, wedged>>

(* A mutation without a client request id is refused outright.             *)
ArriveWithoutId(r) ==
  /\ pc[r] = "idle"
  /\ answer' = [answer EXCEPT ![r] = Refused("missing_client_request_id")]
  /\ UNCHANGED <<rows, chain, pc, call, attempt, outcome, executions, wedged>>

Reply(r, a) ==
  /\ pc' = [pc EXCEPT ![r] = "idle"]
  /\ answer' = [answer EXCEPT ![r] = a]
  /\ attempt' = [attempt EXCEPT ![r] = 0]
  /\ outcome' = [outcome EXCEPT ![r] = "result"]
  /\ UNCHANGED call

SetRow(r, row) == rows' = [rows EXCEPT ![call[r].key] = row]

(* { run: true }: the caller goes on to call the handler.                  *)
Run(r) ==
  LET k == call[r].key IN
  /\ pc' = [pc EXCEPT ![r] = "run"]
  /\ executions' = [executions EXCEPT ![k] = @ + 1]
  /\ attempt' = [attempt EXCEPT ![r] = executions[k] + 1]
  /\ UNCHANGED <<call, outcome, answer, wedged>>

---------------------------------------------------------------------------
(* readOrInsert, the first job of a request.                               *)

Deciding(r) == pc[r] = "decide" /\ Job(r)

(* Mutant: a row that is IN_PROGRESS is taken for abandoned and run anew.  *)
InsertOverInProgress(r) ==
  /\ Deciding(r) /\ Row(r).status \in {"ABSENT", "IN_PROGRESS"}
  /\ SetRow(r, [status |-> "IN_PROGRESS", fingerprint |-> call[r].fingerprint,
                verdict |-> Open, retries |-> 0, retryable |-> FALSE])
  /\ Run(r)

Insert(r) ==
  /\ Deciding(r) /\ Row(r).status = "ABSENT"
  /\ SetRow(r, [status |-> "IN_PROGRESS", fingerprint |-> call[r].fingerprint,
                verdict |-> Open, retries |-> 0, retryable |-> FALSE])
  /\ Run(r)

Mismatch(r) ==
  /\ Deciding(r) /\ Row(r).status # "ABSENT"
  /\ Row(r).fingerprint # call[r].fingerprint
  /\ Reply(r, Refused("idempotency_fingerprint_mismatch"))
  /\ UNCHANGED <<rows, executions, wedged>>

Found(r, s) ==
  /\ Deciding(r) /\ Row(r).status = s
  /\ Row(r).fingerprint = call[r].fingerprint

Replay(r) ==
  /\ Found(r, "COMPLETED")
  /\ Reply(r, Answered(Row(r).verdict))
  /\ UNCHANGED <<rows, executions, wedged>>

Busy(r) ==
  /\ Found(r, "IN_PROGRESS")
  /\ Reply(r, Refused("idempotency_in_progress"))
  /\ UNCHANGED <<rows, executions, wedged>>

(* Mutant: one retry too many. *)
MayRetryOnceMore(row) == row.retryable /\ row.retries <= FAILED_RETRY_CAP

MayRetry(row) == row.retryable /\ row.retries < FAILED_RETRY_CAP

(* Mutant: an id whose call ended in an error may be tried again. *)
RetryAfterError(r) ==
  /\ Found(r, "COMPLETED") /\ Row(r).verdict.kind = "error"
  /\ SetRow(r, [Row(r) EXCEPT !.status = "IN_PROGRESS", !.verdict = Open])
  /\ Run(r)

Retry(r) ==
  /\ Found(r, "FAILED") /\ MayRetry(Row(r))
  /\ SetRow(r, [Row(r) EXCEPT !.status = "IN_PROGRESS", !.retries = @ + 1])
  /\ Run(r)

Exhaust(r) ==
  /\ Found(r, "FAILED") /\ ~MayRetry(Row(r))
  /\ SetRow(r, [Row(r) EXCEPT !.status = "COMPLETED", !.retryable = FALSE,
                              !.verdict = Exhausted])
  /\ Reply(r, Answered(Exhausted))
  /\ UNCHANGED <<executions, wedged>>

---------------------------------------------------------------------------
(* The handler, and the second job: recording what it came back with.      *)

HandlerReturns(r, o) ==
  /\ pc[r] = "run"
  /\ WithLock(r)
  /\ pc' = [pc EXCEPT ![r] = "record"]
  /\ outcome' = [outcome EXCEPT ![r] = o]
  /\ UNCHANGED <<rows, call, attempt, answer, executions, wedged>>

(* A body that is the JSON value null: reading its error throws where      *)
(* nobody catches it, before the second job.                               *)
NullBody(r) ==
  /\ pc[r] = "run"
  /\ Reply(r, Refused("threw"))
  /\ wedged' = wedged \cup {call[r].key}
  /\ UNCHANGED <<rows, chain, executions>>

Recording(r, o) == pc[r] = "record" /\ outcome[r] = o /\ Job(r)

(* Mutant: the catch block forgets the ledger. *)
RecordFailureSkipped(r) ==
  /\ Recording(r, "unreadable")
  /\ Reply(r, Refused("threw"))
  /\ UNCHANGED <<rows, executions, wedged>>

(* fail(ledger, key, null): the next request of the key may run it again.  *)
RecordFailure(r) ==
  /\ Recording(r, "unreadable")
  /\ IF Row(r).status = "IN_PROGRESS"
     THEN SetRow(r, [Row(r) EXCEPT !.status = "FAILED", !.retryable = TRUE])
     ELSE UNCHANGED rows
  /\ Reply(r, Refused("threw"))
  /\ UNCHANGED <<executions, wedged>>

(* fail(ledger, key, rpc.error) *)
RecordError(r) ==
  LET v == [kind |-> "error", by |-> attempt[r]] IN
  /\ Recording(r, "error")
  /\ IF Row(r).status = "IN_PROGRESS"
     THEN SetRow(r, [Row(r) EXCEPT !.status = "COMPLETED", !.retryable = FALSE,
                                   !.verdict = v])
     ELSE UNCHANGED rows
  /\ Reply(r, Answered(v))
  /\ UNCHANGED <<executions, wedged>>

(* Mutant: a status no reader of the row knows. *)
CommitUnknownStatus(r) ==
  LET v == [kind |-> "result", by |-> attempt[r]] IN
  /\ Recording(r, "result")
  /\ SetRow(r, [Row(r) EXCEPT !.status = "COMMITTED", !.retryable = FALSE,
                              !.verdict = v])
  /\ Reply(r, Answered(v))
  /\ UNCHANGED <<executions, wedged>>

Commit(r) ==
  LET v == [kind |-> "result", by |-> attempt[r]] IN
  /\ Recording(r, "result")
  /\ SetRow(r, [Row(r) EXCEPT !.status = "COMPLETED", !.retryable = FALSE,
                              !.verdict = v])
  /\ Reply(r, Answered(v))
  /\ UNCHANGED <<executions, wedged>>

(* Mutant: a job that throws does not give way to the next one.            *)
CommitThrowsAndStays(r) ==
  /\ pc[r] = "record" /\ outcome[r] = "blank" /\ MyTurn(r)
  /\ Reply(r, Refused("threw"))
  /\ wedged' = wedged \cup {call[r].key}
  /\ UNCHANGED <<rows, chain, executions>>

(* structuredCopy(undefined) throws inside commit: the row stays as it is, *)
(* and the chain goes on.                                                  *)
CommitThrows(r) ==
  /\ Recording(r, "blank")
  /\ Reply(r, Refused("threw"))
  /\ wedged' = wedged \cup {call[r].key}
  /\ UNCHANGED <<rows, executions>>

Decide(r) ==
  Insert(r) \/ Mismatch(r) \/ Replay(r) \/ Busy(r) \/ Retry(r) \/ Exhaust(r)

Record(r) == RecordFailure(r) \/ RecordError(r) \/ Commit(r) \/ CommitThrows(r)

Serve(r) ==
  \/ Decide(r)
  \/ \E o \in Outcomes : HandlerReturns(r, o)
  \/ NullBody(r)
  \/ Record(r)

Next ==
  \E r \in Slots :
    \/ \E k \in Keys, f \in Fingerprints : Arrive(r, k, f)
    \/ ArriveWithoutId(r)
    \/ Serve(r)

Spec == Init /\ [][Next]_vars

(* The event loop runs the job at the head of the chain, and a handler     *)
(* comes back.  Nothing is assumed of the jobs further down.               *)
FairSpec == Spec /\ \A r \in Slots : WF_vars(Serve(r))

---------------------------------------------------------------------------
(* Properties.                                                             *)

(* The handler of one client request id never runs twice at the same time, *)
(* whatever the overlap of duplicates, retries and late answers.           *)
InFlight(r, k) == pc[r] \in {"run", "record"} /\ call[r].key = k

OneHandlerPerKey ==
  \A k \in Keys : \A r1, r2 \in Slots : InFlight(r1, k) /\ InFlight(r2, k) => r1 = r2

(* Two requests that were given a final answer for the same client request *)
(* id were given the same one: a duplicate never sees a second execution.  *)
AnswersAgree ==
  \A r1, r2 \in Slots :
    /\ pc[r1] = "idle" /\ answer[r1].verdict # Open
    /\ pc[r2] = "idle" /\ answer[r2].verdict # Open
    /\ call[r1].key = call[r2].key
    => answer[r1].verdict = answer[r2].verdict

(* A row left IN_PROGRESS with no handler behind it would refuse its id    *)
(* for ever: that happens only where commit throws on a missing result, or *)
(* reading the error of a null body throws before anything is recorded.    *)
InProgressIsOwned ==
  \A k \in Keys : rows[k].status = "IN_PROGRESS" =>
    k \in wedged \/ \E r \in Slots : InFlight(r, k)

(* Bounded attempts, one verdict, and nothing after it (MutationCell).     *)
Cell == INSTANCE MutationCell WITH
  Limit <- FAILED_RETRY_CAP + 1,
  attempts <- executions,
  verdict <- [k \in Keys |-> rows[k].verdict]

ImplementsCell == Cell!Spec

(* Every request is answered, although each of its jobs waits for all jobs *)
(* before it in the chain: one that throws lets the next one run           *)
(* (withLock), and a handler that is still running holds no place in it.   *)
EveryRequestAnswered == \A r \in Slots : pc[r] = "decide" ~> pc[r] = "idle"
=============================================================================

---------------------------- MODULE MutationCell ----------------------------
(***************************************************************************)
(* What the idempotency ledger promises for each client request id: the    *)
(* mutation is attempted a bounded number of times, one after the other,   *)
(* until a verdict settles it; the verdict is that of the latest attempt,  *)
(* or that the attempts are used up, and nothing is attempted afterwards.  *)
(***************************************************************************)
EXTENDS Integers

CONSTANTS
  Keys,     \* client request ids
  Limit     \* how often a mutation may be attempted

VARIABLES
  attempts, \* attempts started, by key
  verdict   \* the answer every request of the key gets, Open before there is one

Open == [kind |-> "open", by |-> 0]

Init ==
  /\ attempts = [k \in Keys |-> 0]
  /\ verdict = [k \in Keys |-> Open]

Attempt(k) ==
  /\ verdict[k] = Open /\ attempts[k] < Limit
  /\ attempts' = [attempts EXCEPT ![k] = @ + 1]
  /\ UNCHANGED verdict

Settle(k) ==
  /\ verdict[k] = Open /\ attempts[k] > 0
  /\ \/ \E kind \in {"result", "error"} :
          verdict' = [verdict EXCEPT ![k] = [kind |-> kind, by |-> attempts[k]]]
     \/ /\ attempts[k] = Limit
        /\ verdict' = [verdict EXCEPT ![k] = [kind |-> "exhausted", by |-> 0]]
  /\ UNCHANGED attempts

Next == \E k \in Keys : Attempt(k) \/ Settle(k)

vars == <<attempts, verdict>>

Spec == Init /\ [][Next]_vars
=============================================================================

---------------------------- MODULE PackServing ----------------------------
(***************************************************************************)
(* What replacing a knowledge pack promises to whoever queries the         *)
(* notebook: at any moment there is one generation of the pack, `served`,  *)
(* all of whose parts are live and queryable, and it only ever gives way   *)
(* to another complete generation, in one step.  Sources outside it may    *)
(* come and go.  How uploads, polls, deletes, failures and crashes achieve *)
(* this is PackReplaceGate's business.                                     *)
(***************************************************************************)
CONSTANTS
  SourceIds,   \* ids NotebookLM can give to a source
  Parts        \* titles of the parts of the pack family

VARIABLES
  title,       \* title of each source
  shelf,       \* sources a query can draw on now
  served       \* the generation that is promised; {} before the first one

(* One source for every part, and nothing else. *)
Generation(S, ttl) ==
  \A p \in Parts : \E s \in S : ttl[s] = p /\ \A t \in S : ttl[t] = p => t = s

Init ==
  /\ served \subseteq shelf
  /\ served = {} \/ Generation(served, title)

(* A source that is not promised appears, disappears or is retitled while  *)
(* it is off the shelf.                                                    *)
Churn ==
  /\ served \subseteq shelf'
  /\ \A s \in served : title'[s] = title[s]
  /\ served' = served

(* The promise moves to another complete generation, already on the shelf. *)
Promote ==
  /\ served' \subseteq shelf
  /\ Generation(served', title)
  /\ UNCHANGED <<title, shelf>>

Next == Churn \/ Promote

vars == <<title, shelf, served>>

Spec == Init /\ [][Next]_vars
=============================================================================

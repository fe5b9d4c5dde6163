--------------------------- MODULE GraphSyncQueue ---------------------------
(***************************************************************************)
(* The graph drift gate (modules/graph-sync/queue.mjs, driven by           *)
(* modules/graph-sync/cli.mjs): a JSON file of queue items, each a graph   *)
(* snapshot whose source version may be merged only after a preflight has  *)
(* found the base directory equal to the snapshot.                         *)
(*                                                                         *)
(* Every CLI invocation is a process of its own.  It loads the whole file, *)
(* changes one item of the array it holds, and saves the whole array, once *)
(* or twice: before and after the call of an adapter.  Nothing locks the   *)
(* file, saving is atomic (write a temporary, rename), and a process may   *)
(* die between any two of these steps.                                     *)
(***************************************************************************)
EXTENDS Integers

CONSTANTS
  Clients,    \* CLI processes that run at a time
  Ids,        \* queue ids the generator can hand out: the bound on enqueues
  Snapshots,  \* canonical snapshots, versions included
  Unreadable  \* a base directory that is missing, empty or malformed

ASSUME QueueAssumption ==
  Ids # {} /\ Snapshots # {} /\ Unreadable \notin Snapshots

VARIABLES
  items,      \* the file: the item of each id
  base,       \* the base directory: the snapshot it holds, or Unreadable
  pc,         \* where each process is
  held,       \* items: the array it loaded and changes
  target,     \* id: the item it works on
  minted,     \* ids handed out so far
  acknowledged,  \* history: ids printed as the result of an enqueue
  inspected,  \* history: ids a preflight found without drift
  applied,    \* history: ids whose source version was merged by git
  overlapped  \* history: two processes were under way at the same time

external == <<base, applied>>
vars == <<items, external, pc, held, target, minted, acknowledged, inspected,
          overlapped>>

Status == {"absent", "queued", "preflighting", "ready", "quarantined", "merging",
           "failed", "merged"}

NoItem == [status |-> "absent", snapshot |-> CHOOSE g \in Snapshots : TRUE]
NoItems == [i \in Ids |-> NoItem]

File == [Ids -> [status : Status, snapshot : Snapshots]]

TypeOK ==
  /\ items \in File
  /\ base \in Snapshots \cup {Unreadable}
  /\ pc \in [Clients -> {"idle", "save", "savePending", "inspect", "saveMerging",
                         "apply", "saveMerged", "saveEnqueued"}]
  /\ held \in [Clients -> File]
  /\ target \in [Clients -> Ids]
  /\ minted \subseteq Ids
  /\ acknowledged \subseteq minted
  /\ inspected \subseteq minted
  /\ applied \subseteq minted
  /\ overlapped \in BOOLEAN

Init ==
  /\ items = NoItems
  /\ base \in Snapshots \cup {Unreadable}
  /\ pc = [c \in Clients |-> "idle"]
  /\ held = [c \in Clients |-> NoItems]
  /\ target = [c \in Clients |-> CHOOSE i \in Ids : TRUE]
  /\ minted = {}
  /\ acknowledged = {}
  /\ inspected = {}
  /\ applied = {}
  /\ overlapped = FALSE

---------------------------------------------------------------------------
(* Steps of a process.                                                     *)

With(file, i, s) == [file EXCEPT ![i].status = s]

(* The process starts with the file as it is now. *)
Load(c, i, file, next) ==
  /\ pc[c] = "idle"
  /\ pc' = [pc EXCEPT ![c] = next]
  /\ held' = [held EXCEPT ![c] = file]
  /\ target' = [target EXCEPT ![c] = i]
  /\ overlapped' = (overlapped \/ \E d \in Clients : pc[d] # "idle")
  /\ UNCHANGED <<items, external, inspected>>

(* The whole array replaces the file. *)
Save(c) == items' = held[c]

Exit(c) ==
  /\ pc' = [pc EXCEPT ![c] = "idle"]
  /\ held' = [held EXCEPT ![c] = NoItems]
  /\ target' = [target EXCEPT ![c] = CHOOSE i \in Ids : TRUE]
  /\ UNCHANGED <<minted, overlapped>>

Goto(c, at, file, next) ==
  /\ pc[c] = at
  /\ pc' = [pc EXCEPT ![c] = next]
  /\ held' = [held EXCEPT ![c] = file]
  /\ UNCHANGED <<target, minted, acknowledged, overlapped>>

---------------------------------------------------------------------------
(* enqueue *)

Enqueued(g) == {i \in Ids : items[i].status # "absent" /\ items[i].snapshot = g}

(* An item of the same versions and hash is handed back. *)
EnqueueExisting(c, g) ==
  /\ pc[c] = "idle"
  /\ \E i \in Enqueued(g) : acknowledged' = acknowledged \cup {i}
  /\ UNCHANGED <<items, external, pc, held, target, minted, inspected, overlapped>>

Enqueue(c, g) ==
  LET i == CHOOSE j \in Ids : j \notin minted IN
  /\ Enqueued(g) = {} /\ minted # Ids
  /\ Load(c, i, [items EXCEPT ![i] = [status |-> "queued", snapshot |-> g]],
          "saveEnqueued")
  /\ minted' = minted \cup {i}
  /\ UNCHANGED acknowledged

(* Mutant: the array is saved without the new item. *)
SaveEnqueuedStale(c) ==
  /\ pc[c] = "saveEnqueued"
  /\ UNCHANGED items /\ Exit(c)
  /\ acknowledged' = acknowledged \cup {target[c]}
  /\ UNCHANGED <<external, inspected>>

SaveEnqueued(c) ==
  /\ pc[c] = "saveEnqueued"
  /\ Save(c) /\ Exit(c)
  /\ acknowledged' = acknowledged \cup {target[c]}
  /\ UNCHANGED <<external, inspected>>

---------------------------------------------------------------------------
(* retry: any state but queued, preflighting and merged goes back to the   *)
(* start, its token dropped.                                               *)

(* Mutant: merged items are requeued as well. *)
RetryMerged(c, i) ==
  /\ items[i].status \notin {"absent", "queued", "preflighting"}
  /\ Load(c, i, With(items, i, "queued"), "save")
  /\ UNCHANGED <<minted, acknowledged>>

Retry(c, i) ==
  /\ items[i].status \notin {"absent", "queued", "preflighting", "merged"}
  /\ Load(c, i, With(items, i, "queued"), "save")
  /\ UNCHANGED <<minted, acknowledged>>

---------------------------------------------------------------------------
(* preflight *)

Preflight(c, i) ==
  /\ items[i].status \notin {"absent", "merged", "ready"}
  /\ Load(c, i, With(items, i, "preflighting"), "savePending")
  /\ UNCHANGED <<minted, acknowledged>>

SavePending(c) ==
  /\ Save(c)
  /\ Goto(c, "savePending", held[c], "inspect")
  /\ UNCHANGED <<external, inspected>>

(* Mutant: only a snapshot that can be read can drift. *)
HasDriftIfReadable(g) == base # g /\ base # Unreadable

(* compareSnapshots reports drift unless the two are equal; an adapter     *)
(* that throws quarantines the item the same way.                          *)
HasDrift(g) == base # g

(* Mutant: a verdict that is no status of the queue. *)
InspectDrifted(c) ==
  LET i == target[c] IN
  /\ Goto(c, "inspect",
          With(held[c], i, IF HasDrift(held[c][i].snapshot) THEN "drifted" ELSE "ready"),
          "save")
  /\ inspected' = IF base = held[c][i].snapshot THEN inspected \cup {i} ELSE inspected
  /\ UNCHANGED <<items, external>>

(* inspect reads the base, and the verdict goes into the held array.       *)
Inspect(c) ==
  LET i == target[c] IN
  /\ Goto(c, "inspect",
          With(held[c], i,
               IF HasDrift(held[c][i].snapshot) THEN "quarantined" ELSE "ready"),
          "save")
  /\ inspected' = IF base = held[c][i].snapshot THEN inspected \cup {i} ELSE inspected
  /\ UNCHANGED <<items, external>>

---------------------------------------------------------------------------
(* merge.  The token is a function of id, versions and hash, so an item    *)
(* that is ready has the token it always had, and tokens are one per id.   *)

Merge(c, i, token) ==
  /\ items[i].status = "ready" /\ token = i
  /\ Load(c, i, With(items, i, "merging"), "saveMerging")
  /\ UNCHANGED <<minted, acknowledged>>

(* Mutant: merging is not announced before the adapter is called. *)
SaveMergingSkipped(c) ==
  /\ Goto(c, "saveMerging", held[c], "apply")
  /\ UNCHANGED <<items, external, inspected>>

SaveMerging(c) ==
  /\ Save(c)
  /\ Goto(c, "saveMerging", held[c], "apply")
  /\ UNCHANGED <<external, inspected>>

Apply(c) ==
  /\ Goto(c, "apply", With(held[c], target[c], "merged"), "saveMerged")
  /\ applied' = applied \cup {target[c]}
  /\ UNCHANGED <<items, base, inspected>>

(* Mutant: the failure handler records the item as merged. *)
ApplyFailsMerged(c) ==
  /\ Goto(c, "apply", With(held[c], target[c], "merged"), "saveMerged")
  /\ UNCHANGED <<items, external, inspected>>

(* git refuses (a conflict, an unsafe ref), or fails after having merged.  *)
ApplyFails(c) ==
  /\ Goto(c, "apply", With(held[c], target[c], "failed"), "saveMerged")
  /\ applied' \in {applied, applied \cup {target[c]}}
  /\ UNCHANGED <<items, base, inspected>>

(* The last save of retry, preflight and merge. *)
SaveLast(c) ==
  /\ pc[c] \in {"save", "saveMerged"}
  /\ Save(c) /\ Exit(c)
  /\ UNCHANGED <<external, acknowledged, inspected>>

---------------------------------------------------------------------------

(* The process is killed; the file is as the last save left it.            *)
Die(c) ==
  /\ pc[c] # "idle"
  /\ Exit(c)
  /\ UNCHANGED <<items, external, acknowledged, inspected>>

(* Someone rewrites the base directory. *)
Rebase ==
  /\ base' \in (Snapshots \cup {Unreadable}) \ {base}
  /\ UNCHANGED <<items, applied, pc, held, target, minted, acknowledged, inspected,
                 overlapped>>

Command(c) ==
  \/ \E g \in Snapshots : EnqueueExisting(c, g) \/ Enqueue(c, g)
  \/ \E i \in Ids : \/ Retry(c, i) \/ Preflight(c, i)
                    \/ \E token \in Ids : Merge(c, i, token)

Continue(c) ==
  \/ SaveEnqueued(c) \/ SavePending(c) \/ Inspect(c) \/ SaveMerging(c)
  \/ Apply(c) \/ ApplyFails(c) \/ SaveLast(c)

Next ==
  \/ \E c \in Clients : Command(c) \/ Continue(c) \/ Die(c)
  \/ Rebase

Spec == Init /\ [][Next]_vars

---------------------------------------------------------------------------
(* Properties.                                                             *)

(* "Drift, malformed snapshots, missing .base state, and token mismatch    *)
(* all fail closed": git never merges an item no preflight found equal to  *)
(* the base, however commands overlap, die or write over each other.       *)
FailClosed == applied \subseteq inspected

(* An item recorded as merged was merged, however the file was overwritten.*)
RecordedMergeHappened ==
  \A i \in Ids : items[i].status = "merged" => i \in applied

(* The merge adapter is never called for an item the file already records  *)
(* as merged.                                                              *)
NeverMergedAgain ==
  \A c \in Clients : pc[c] = "apply" => items[target[c]].status # "merged"

(* As long as commands ran one at a time, crashes included, merging is     *)
(* announced in the file before the adapter runs and is final afterwards.  *)
AnnouncedWhileSerial ==
  ~overlapped =>
    \A c \in Clients : pc[c] = "apply" => items[target[c]].status = "merging"

MergedIsFinalWhileSerial ==
  [][~overlapped' => \A i \in Ids : items[i].status = "merged" =>
                                     items'[i].status = "merged"]_vars

(* As long as commands ran one at a time, an id that was printed is in the *)
(* file, whatever died since.                                              *)
EnqueuedIsKeptWhileSerial ==
  ~overlapped => \A i \in acknowledged : items[i].status # "absent"
=============================================================================

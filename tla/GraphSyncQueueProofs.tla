------------------------ MODULE GraphSyncQueueProofs ------------------------
(***************************************************************************)
(* Proofs about GraphSyncQueue, for any number of processes, ids and       *)
(* snapshots.                                                              *)
(*                                                                         *)
(* A stale array may overwrite anything, and yet FailClosed holds: every   *)
(* array, in the file or in the hands of a process, only ever vouches for  *)
(* what has happened (Vouched), and overwriting one with another cannot    *)
(* change that.                                                            *)
(***************************************************************************)
EXTENDS GraphSyncQueue, TLAPS

(* What an array says of an item is backed by what was done for it.        *)
Vouched(file) ==
  \A i \in Ids :
    /\ file[i].status # "absent" => i \in minted
    /\ file[i].status \in {"ready", "merging", "merged"} => i \in inspected
    /\ file[i].status = "merged" => i \in applied

VouchInv ==
  /\ applied \subseteq inspected
  /\ Vouched(items)
  /\ \A c \in Clients :
       /\ Vouched(held[c])
       /\ pc[c] \in {"saveMerging", "apply"} => held[c][target[c]].status = "merging"
       /\ pc[c] # "idle" => target[c] \in minted

QInv == TypeOK /\ VouchInv

LEMMA NoItemsType == NoItems \in File /\ (CHOOSE i \in Ids : TRUE) \in Ids
BY QueueAssumption DEF NoItems, NoItem, File, Status

(* Setting the status of one item keeps an array well formed. *)
LEMMA WithType ==
  ASSUME NEW file \in File, NEW i \in Ids, NEW s \in Status
  PROVE  With(file, i, s) \in File
<1>1. file[i] \in [status : Status, snapshot : Snapshots]
  BY DEF File
<1>2. [file[i] EXCEPT !.status = s] \in [status : Status, snapshot : Snapshots]
  BY <1>1
<1> QED
  BY <1>2 DEF With, File

LEMMA QInit == Init => QInv
<1> SUFFICES ASSUME Init PROVE QInv
  OBVIOUS
<1>1. TypeOK
  BY NoItemsType, QueueAssumption DEF Init, TypeOK
<1>2. Vouched(NoItems)
  BY DEF Vouched, NoItems, NoItem
<1>3. VouchInv
  BY <1>2 DEF Init, VouchInv, Vouched
<1> QED
  BY <1>1, <1>3 DEF QInv

LEMMA TypeStep == ASSUME QInv, [Next]_vars PROVE TypeOK'
<1> USE NoItemsType, QueueAssumption
<1>1. ASSUME NEW c \in Clients, NEW g \in Snapshots, EnqueueExisting(c, g)
      PROVE TypeOK'
  BY <1>1 DEF EnqueueExisting, Enqueued, external, QInv, TypeOK, VouchInv,
     Vouched, File, Status
<1>2. ASSUME NEW c \in Clients, NEW g \in Snapshots, Enqueue(c, g)
      PROVE TypeOK'
<2>1. PICK j \in Ids : j \notin minted /\ j = CHOOSE k \in Ids : k \notin minted
  BY <1>2 DEF Enqueue, QInv, TypeOK
<2> DEFINE item == [status |-> "queued", snapshot |-> g]
<2>2. item \in [status : Status, snapshot : Snapshots]
  BY DEF Status
<2>3. [items EXCEPT ![j] = item] \in File
  BY <2>2 DEF QInv, TypeOK, File
<2> HIDE DEF item
<2>4. /\ held' = [held EXCEPT ![c] = [items EXCEPT ![j] = item]]
      /\ target' = [target EXCEPT ![c] = j]
  BY <1>2, <2>1 DEF Enqueue, Load, item
<2>5. held' \in [Clients -> File] /\ target' \in [Clients -> Ids]
  BY <2>3, <2>4 DEF QInv, TypeOK
<2> QED
  BY <1>2, <2>1, <2>5 DEF Enqueue, Load, external, QInv, TypeOK
<1>3. ASSUME NEW c \in Clients, NEW i \in Ids, Retry(c, i) PROVE TypeOK'
<2>1. With(items, i, "queued") \in File
  BY WithType DEF QInv, TypeOK, Status
<2> QED
  BY <1>3, <2>1 DEF Retry, Load, external, QInv, TypeOK
<1>4. ASSUME NEW c \in Clients, NEW i \in Ids, Preflight(c, i) PROVE TypeOK'
<2>1. With(items, i, "preflighting") \in File
  BY WithType DEF QInv, TypeOK, Status
<2> QED
  BY <1>4, <2>1 DEF Preflight, Load, external, QInv, TypeOK
<1>5. ASSUME NEW c \in Clients, NEW i \in Ids, NEW token \in Ids, Merge(c, i, token)
      PROVE TypeOK'
<2>1. With(items, i, "merging") \in File
  BY WithType DEF QInv, TypeOK, Status
<2> QED
  BY <1>5, <2>1 DEF Merge, Load, external, QInv, TypeOK
<1>6. ASSUME NEW c \in Clients, SaveEnqueued(c) PROVE TypeOK'
  BY <1>6 DEF SaveEnqueued, Save, Exit, external, QInv, TypeOK, VouchInv,
     Vouched, File, Status
<1>7. ASSUME NEW c \in Clients, SavePending(c) PROVE TypeOK'
  BY <1>7 DEF SavePending, Save, Goto, external, QInv, TypeOK, VouchInv,
     Vouched, File, Status
<1>8. ASSUME NEW c \in Clients, Inspect(c) PROVE TypeOK'
<2>1. \A s \in {"quarantined", "ready"} : With(held[c], target[c], s) \in File
  BY WithType DEF QInv, TypeOK, Status
<2>2. \E s \in {"quarantined", "ready"} :
        held' = [held EXCEPT ![c] = With(held[c], target[c], s)]
  BY <1>8 DEF Inspect, Goto
<2>3. held' \in [Clients -> File]
  BY <2>1, <2>2 DEF QInv, TypeOK
<2>4. target[c] \in minted
  BY <1>8 DEF Inspect, Goto, QInv, TypeOK, VouchInv
<2>5. inspected' \subseteq minted
  BY <1>8, <2>4 DEF Inspect, QInv, TypeOK
<2> QED
  BY <1>8, <2>3, <2>5 DEF Inspect, Goto, external, QInv, TypeOK
<1>9. ASSUME NEW c \in Clients, SaveMerging(c) PROVE TypeOK'
  BY <1>9 DEF SaveMerging, Save, Goto, external, QInv, TypeOK, VouchInv,
     Vouched, File, Status
<1>10. ASSUME NEW c \in Clients, Apply(c) PROVE TypeOK'
<2>1. With(held[c], target[c], "merged") \in File /\ target[c] \in minted
  BY <1>10, WithType DEF Apply, Goto, QInv, TypeOK, VouchInv, Status
<2> QED
  BY <1>10, <2>1 DEF Apply, Goto, QInv, TypeOK
<1>11. ASSUME NEW c \in Clients, ApplyFails(c) PROVE TypeOK'
<2>1. With(held[c], target[c], "failed") \in File /\ target[c] \in minted
  BY <1>11, WithType DEF ApplyFails, Goto, QInv, TypeOK, VouchInv, Status
<2> QED
  BY <1>11, <2>1 DEF ApplyFails, Goto, QInv, TypeOK
<1>12. ASSUME NEW c \in Clients, SaveLast(c) PROVE TypeOK'
  BY <1>12 DEF SaveLast, Save, Exit, external, QInv, TypeOK, VouchInv,
     Vouched, File, Status
<1>13. ASSUME NEW c \in Clients, Die(c) PROVE TypeOK'
  BY <1>13 DEF Die, Exit, external, QInv, TypeOK, VouchInv, Vouched, File,
     Status
<1>14. CASE Rebase
  BY <1>14 DEF Rebase, QInv, TypeOK, VouchInv, Vouched, File, Status
<1>15. CASE UNCHANGED vars
  BY <1>15 DEF vars, external, QInv, TypeOK, VouchInv, Vouched, File, Status
<1> QED
  BY <1>1, <1>2, <1>3, <1>4, <1>5, <1>6, <1>7, <1>8, <1>9, <1>10, <1>11,
     <1>12, <1>13, <1>14, <1>15 DEF Next, Command, Continue

LEMMA VouchStep == ASSUME QInv, [Next]_vars PROVE VouchInv'
<1> USE NoItemsType, QueueAssumption
<1>1. ASSUME NEW c \in Clients, NEW g \in Snapshots, EnqueueExisting(c, g)
      PROVE VouchInv'
  BY <1>1 DEF EnqueueExisting, Enqueued, external, QInv, TypeOK, VouchInv,
     Vouched, File, NoItems, NoItem
<1>2. ASSUME NEW c \in Clients, NEW g \in Snapshots, Enqueue(c, g)
      PROVE VouchInv'
  BY <1>2 DEF Enqueue, Enqueued, Load, external, QInv, TypeOK, VouchInv,
     Vouched, File, NoItems, NoItem
<1>3. ASSUME NEW c \in Clients, NEW i \in Ids, Retry(c, i) PROVE VouchInv'
  BY <1>3 DEF Retry, Load, With, external, QInv, TypeOK, VouchInv, Vouched,
     File, NoItems, NoItem
<1>4. ASSUME NEW c \in Clients, NEW i \in Ids, Preflight(c, i) PROVE VouchInv'
  BY <1>4 DEF Preflight, Load, With, external, QInv, TypeOK, VouchInv,
     Vouched, File, NoItems, NoItem
<1>5. ASSUME NEW c \in Clients, NEW i \in Ids, NEW token \in Ids, Merge(c, i, token)
      PROVE VouchInv'
  BY <1>5 DEF Merge, Load, With, external, QInv, TypeOK, VouchInv, Vouched,
     File, NoItems, NoItem
<1>6. ASSUME NEW c \in Clients, SaveEnqueued(c) PROVE VouchInv'
  BY <1>6 DEF SaveEnqueued, Save, Exit, external, QInv, TypeOK, VouchInv,
     Vouched, File, NoItems, NoItem
<1>7. ASSUME NEW c \in Clients, SavePending(c) PROVE VouchInv'
  BY <1>7 DEF SavePending, Save, Goto, external, QInv, TypeOK, VouchInv,
     Vouched, File, NoItems, NoItem
<1>8. ASSUME NEW c \in Clients, Inspect(c) PROVE VouchInv'
  BY <1>8 DEF Inspect, HasDrift, Goto, With, external, QInv, TypeOK, VouchInv,
     Vouched, File, NoItems, NoItem
<1>9. ASSUME NEW c \in Clients, SaveMerging(c) PROVE VouchInv'
  BY <1>9 DEF SaveMerging, Save, Goto, external, QInv, TypeOK, VouchInv,
     Vouched, File, NoItems, NoItem
<1>10. ASSUME NEW c \in Clients, Apply(c) PROVE VouchInv'
  BY <1>10 DEF Apply, Goto, With, QInv, TypeOK, VouchInv, Vouched, File,
     NoItems, NoItem
<1>11. ASSUME NEW c \in Clients, ApplyFails(c) PROVE VouchInv'
  BY <1>11 DEF ApplyFails, Goto, With, QInv, TypeOK, VouchInv, Vouched, File,
     NoItems, NoItem
<1>12. ASSUME NEW c \in Clients, SaveLast(c) PROVE VouchInv'
  BY <1>12 DEF SaveLast, Save, Exit, external, QInv, TypeOK, VouchInv,
     Vouched, File, NoItems, NoItem
<1>13. ASSUME NEW c \in Clients, Die(c) PROVE VouchInv'
  BY <1>13 DEF Die, Exit, external, QInv, TypeOK, VouchInv, Vouched, File,
     NoItems, NoItem
<1>14. CASE Rebase
  BY <1>14 DEF Rebase, QInv, TypeOK, VouchInv, Vouched, File, NoItems, NoItem
<1>15. CASE UNCHANGED vars
  BY <1>15 DEF vars, external, QInv, TypeOK, VouchInv, Vouched, File, NoItems,
     NoItem
<1> QED
  BY <1>1, <1>2, <1>3, <1>4, <1>5, <1>6, <1>7, <1>8, <1>9, <1>10, <1>11,
     <1>12, <1>13, <1>14, <1>15 DEF Next, Command, Continue

(* The inductive invariant: arrays are well formed and vouch for the past. *)
THEOREM QInductive == Spec => []QInv
<1>1. QInv /\ [Next]_vars => QInv'
  BY TypeStep, VouchStep DEF QInv
<1> QED
  BY <1>1, QInit, PTL DEF Spec

(* The file, and every array a process holds, stay well formed.            *)
THEOREM TypeCorrect == Spec => []TypeOK
<1>1. QInv => TypeOK
  BY DEF QInv
<1> QED
  BY <1>1, QInductive, PTL

(* Git never merges an item that no preflight found equal to the base,     *)
(* whatever commands overlapped, died or wrote over each other.            *)
THEOREM GateFailsClosed == Spec => []FailClosed
<1>1. QInv => FailClosed
  BY DEF QInv, VouchInv, FailClosed
<1> QED
  BY <1>1, QInductive, PTL

(* An item the file records as merged was merged, whatever overlapped.     *)
THEOREM RecordedMergesHappened == Spec => []RecordedMergeHappened
<1>1. QInv => RecordedMergeHappened
  BY DEF QInv, VouchInv, Vouched, RecordedMergeHappened
<1> QED
  BY <1>1, QInductive, PTL

---------------------------------------------------------------------------
(* As long as commands run one at a time.                                  *)

Busy == {c \in Clients : pc[c] # "idle"}

(* One process is under way.  The array it holds is the file but for the   *)
(* item it works on, which is no merged one, and which it has not lost;    *)
(* before the adapter runs the file says so.                               *)
Alone ==
  /\ \A c, d \in Busy : c = d
  /\ \A i \in acknowledged : items[i].status # "absent"
  /\ \A c \in Busy :
       /\ \A i \in Ids \ {target[c]} : held[c][i] = items[i]
       /\ held[c][target[c]].status # "absent"
       /\ items[target[c]].status # "merged"
       /\ pc[c] = "savePending" => held[c][target[c]].status # "merged"
       /\ pc[c] = "apply" => items[target[c]].status = "merging"

SerialInv == ~overlapped => Alone

(* A process that loads the file while nobody else is under way. *)
LEMMA LoadAlone ==
  ASSUME QInv, SerialInv, NEW c \in Clients, NEW i \in Ids, NEW file \in File,
         NEW next \in {"save", "savePending", "saveMerging", "saveEnqueued"},
         Load(c, i, file, next), UNCHANGED acknowledged,
         \A j \in Ids \ {i} : file[j] = items[j],
         file[i].status \notin {"absent", "merged"}, items[i].status # "merged"
  PROVE  SerialInv'
<1> SUFFICES ASSUME ~overlapped' PROVE Alone'
  BY DEF SerialInv
<1>1. ~overlapped /\ \A d \in Clients : pc[d] = "idle"
  BY DEF Load, QInv, TypeOK
<1>2. /\ \A d \in Clients : pc'[d] # "idle" => d = c
      /\ pc'[c] = next /\ held'[c] = file /\ target'[c] = i /\ items' = items
  BY <1>1 DEF Load, QInv, TypeOK
<1>3. \A j \in acknowledged : items[j].status # "absent"
  BY <1>1 DEF SerialInv, Alone
<1>4. QED
  BY <1>2, <1>3 DEF Alone, Busy

(* A process that saves what it holds, and goes on or is done. *)
LEMMA SaveAlone ==
  ASSUME QInv, SerialInv, NEW c \in Clients, pc[c] # "idle",
         Save(c), overlapped' = overlapped,
         acknowledged' \in {acknowledged, acknowledged \cup {target[c]}},
         \/ Exit(c)
         \/ /\ pc' \in {[pc EXCEPT ![c] = "inspect"], [pc EXCEPT ![c] = "apply"]}
            /\ UNCHANGED <<held, target>>
            /\ held[c][target[c]].status # "merged"
            /\ pc'[c] = "apply" => held[c][target[c]].status = "merging"
  PROVE  SerialInv'
<1> SUFFICES ASSUME ~overlapped PROVE Alone'
  BY DEF SerialInv
<1>1. Alone /\ c \in Busy
  BY DEF SerialInv, Busy
<1>2. \A d \in Clients : pc[d] # "idle" => d = c
  BY <1>1 DEF Alone, Busy
<1>3. \A i \in acknowledged' : items'[i].status # "absent"
  BY <1>1 DEF Alone, Save, QInv, TypeOK
<1>4. CASE Exit(c)
  <2>1. \A d \in Clients : pc'[d] = "idle"
    BY <1>2, <1>4 DEF Exit, QInv, TypeOK
  <2>2. QED
    BY <1>3, <2>1 DEF Alone, Busy
<1>5. CASE ~Exit(c)
  <2>1. \A d \in Clients : pc'[d] # "idle" => d = c
    BY <1>2, <1>5 DEF QInv, TypeOK
  <2>2. QED
    BY <1>1, <1>3, <1>5, <2>1 DEF Alone, Busy, Save
<1>6. QED
  BY <1>4, <1>5

(* A process that changes the status of its item in what it holds. *)
LEMMA ChangeAlone ==
  ASSUME QInv, SerialInv, NEW c \in Clients, NEW s \in Status \ {"absent"}, NEW at,
         NEW next \in {"save", "saveMerged"}, at # "idle",
         Goto(c, at, With(held[c], target[c], s), next), UNCHANGED items
  PROVE  SerialInv'
<1> SUFFICES ASSUME ~overlapped PROVE Alone'
  BY DEF SerialInv, Goto
<1>1. Alone /\ c \in Busy
  BY DEF SerialInv, Busy, Goto
<1>2. /\ \A d \in Clients : pc'[d] # "idle" => d = c
      /\ pc'[c] = next /\ UNCHANGED <<target, acknowledged>>
      /\ held'[c] = With(held[c], target[c], s)
  BY <1>1 DEF Alone, Busy, Goto, QInv, TypeOK
<1>3. /\ \A i \in Ids \ {target[c]} : held'[c][i] = held[c][i]
      /\ held'[c][target[c]].status = s
  BY <1>2 DEF With, QInv, TypeOK, File
<1>4. QED
  BY <1>1, <1>2, <1>3 DEF Alone, Busy

LEMMA SerialStep == ASSUME QInv, SerialInv, [Next]_vars PROVE SerialInv'
<1> USE QueueAssumption
<1>1. ASSUME NEW c \in Clients, NEW g \in Snapshots, EnqueueExisting(c, g)
      PROVE SerialInv'
  BY <1>1 DEF EnqueueExisting, Enqueued, SerialInv, Alone, Busy
<1>2. ASSUME NEW c \in Clients, NEW g \in Snapshots, Enqueue(c, g)
      PROVE SerialInv'
  <2> DEFINE i == CHOOSE j \in Ids : j \notin minted
             item == [status |-> "queued", snapshot |-> g]
  <2>1. i \in Ids /\ i \notin minted
    BY <1>2 DEF Enqueue, QInv, TypeOK
  <2>2. item \in [status : Status, snapshot : Snapshots] /\ item.status = "queued"
    BY DEF Status
  <2>3. Load(c, i, [items EXCEPT ![i] = item], "saveEnqueued") /\ UNCHANGED acknowledged
    BY <1>2 DEF Enqueue
  <2> HIDE DEF i, item
  <2>4. [items EXCEPT ![i] = item] \in File /\ items \in File
    BY <2>1, <2>2 DEF QInv, TypeOK, File
  <2>5. items[i].status = "absent"
    BY <2>1 DEF QInv, VouchInv, Vouched
  <2>6. QED
    BY <2>1, <2>2, <2>3, <2>4, <2>5, LoadAlone DEF File
<1>3. ASSUME NEW c \in Clients, NEW i \in Ids, NEW s \in Status \ {"absent", "merged"},
             NEW next \in {"save", "savePending", "saveMerging"},
             Load(c, i, With(items, i, s), next), UNCHANGED acknowledged,
             items[i].status # "merged"
      PROVE  SerialInv'
  <2>1. With(items, i, s) \in File
    BY WithType DEF QInv, TypeOK
  <2>2. /\ \A j \in Ids \ {i} : With(items, i, s)[j] = items[j]
        /\ With(items, i, s)[i].status = s
    BY DEF With, QInv, TypeOK, File
  <2>3. QED
    BY <1>3, <2>1, <2>2, LoadAlone
<1>4. ASSUME NEW c \in Clients, NEW i \in Ids,
             Retry(c, i) \/ Preflight(c, i) \/ \E token \in Ids : Merge(c, i, token)
      PROVE  SerialInv'
  BY <1>3, <1>4 DEF Retry, Preflight, Merge, Status
<1>5. ASSUME NEW c \in Clients, SaveEnqueued(c) \/ SaveLast(c) PROVE SerialInv'
  BY <1>5, SaveAlone DEF SaveEnqueued, SaveLast, Exit
<1>6. ASSUME NEW c \in Clients, SavePending(c) \/ SaveMerging(c) PROVE SerialInv'
  <2>1. held' = held /\ UNCHANGED target
    BY <1>6 DEF SavePending, SaveMerging, Goto, QInv, TypeOK
  <2>2. \/ pc[c] = "savePending" /\ pc' = [pc EXCEPT ![c] = "inspect"]
        \/ pc[c] = "saveMerging" /\ pc' = [pc EXCEPT ![c] = "apply"]
    BY <1>6 DEF SavePending, SaveMerging, Goto
  <2>3. /\ held[c][target[c]].status = "merging" \/ pc'[c] # "apply"
        /\ ~overlapped => held[c][target[c]].status # "merged"
    BY <1>6, <2>2 DEF QInv, TypeOK, VouchInv, SerialInv, Alone, Busy
  <2>4. CASE overlapped
    BY <1>6, <2>4 DEF SavePending, SaveMerging, Goto, SerialInv
  <2>5. QED
    BY <1>6, <2>1, <2>2, <2>3, <2>4, SaveAlone DEF SavePending, SaveMerging, Goto, QInv, VouchInv
<1>7. ASSUME NEW c \in Clients, Inspect(c) PROVE SerialInv'
  BY <1>7, ChangeAlone DEF Inspect, Status
<1>8. ASSUME NEW c \in Clients, Apply(c) \/ ApplyFails(c) PROVE SerialInv'
  BY <1>8, ChangeAlone DEF Apply, ApplyFails, Status
<1>9. ASSUME NEW c \in Clients, Die(c) PROVE SerialInv'
  BY <1>9 DEF Die, Exit, SerialInv, Alone, Busy, QInv, TypeOK
<1>10. CASE Rebase
  BY <1>10 DEF Rebase, SerialInv, Alone, Busy
<1>11. CASE UNCHANGED vars
  BY <1>11 DEF vars, external, SerialInv, Alone, Busy
<1> QED
  BY <1>1, <1>2, <1>4, <1>5, <1>6, <1>7, <1>8, <1>9, <1>10, <1>11
     DEF Next, Command, Continue

(* The inductive invariant of commands that run one at a time.             *)
LEMMA SerialInductive == Spec => [](QInv /\ SerialInv)
<1>1. Init => QInv /\ SerialInv
  BY QInit DEF Init, SerialInv, Alone, Busy
<1>2. QInv /\ SerialInv /\ [Next]_vars => (QInv /\ SerialInv)'
  BY TypeStep, VouchStep, SerialStep DEF QInv
<1> QED
  BY <1>1, <1>2, PTL DEF Spec

(* Merging is in the file before the adapter is called.                    *)
THEOREM MergesAreAnnounced == Spec => []AnnouncedWhileSerial
<1>1. QInv /\ SerialInv => AnnouncedWhileSerial
  BY DEF SerialInv, Alone, Busy, AnnouncedWhileSerial
<1> QED
  BY <1>1, SerialInductive, PTL

(* An id that was printed is in the file, whatever died since.             *)
THEOREM EnqueuedIsKept == Spec => []EnqueuedIsKeptWhileSerial
<1>1. QInv /\ SerialInv => EnqueuedIsKeptWhileSerial
  BY DEF SerialInv, Alone, EnqueuedIsKeptWhileSerial
<1> QED
  BY <1>1, SerialInductive, PTL

(* No save takes the merged status from an item.                           *)
THEOREM MergedIsFinal == Spec => MergedIsFinalWhileSerial
<1> DEFINE Final == ~overlapped' => \A i \in Ids : items[i].status = "merged" =>
                                                  items'[i].status = "merged"
<1>1. ASSUME QInv, SerialInv, [Next]_vars PROVE Final
  <2> SUFFICES ASSUME ~overlapped', NEW i \in Ids, items[i].status = "merged"
               PROVE  items'[i].status = "merged"
    OBVIOUS
  <2>1. CASE items' = items
    BY <2>1
  <2>2. ASSUME NEW c \in Clients, Save(c), pc[c] # "idle", overlapped' = overlapped
        PROVE  items'[i].status = "merged"
    BY <1>1, <2>2 DEF Save, SerialInv, Alone, Busy
  <2>3. items' = items \/ \E c \in Clients : Save(c) /\ pc[c] # "idle" /\ overlapped' = overlapped
    BY <1>1 DEF Next, Command, Continue, EnqueueExisting, Enqueue, Retry, Preflight, Merge,
       Load, SaveEnqueued, SavePending, Inspect, SaveMerging, Apply, ApplyFails, SaveLast,
       Die, Rebase, Goto, Exit, vars
  <2>4. QED
    BY <2>1, <2>2, <2>3
<1>2. QInv /\ SerialInv /\ [Next]_vars => [Final]_vars
  BY <1>1
<1> QED
  BY <1>2, SerialInductive, PTL DEF Spec, MergedIsFinalWhileSerial
=============================================================================

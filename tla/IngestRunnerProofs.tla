------------------------- MODULE IngestRunnerProofs -------------------------
(***************************************************************************)
(* Proofs about the ingest runner, for any number of processes, staged     *)
(* files, uploads and deaths: one run at a time unless it raced, receipts  *)
(* that are true even then, and every verified file in the notebook once.  *)
(***************************************************************************)
EXTENDS IngestRunner, TLAPS

(* A receipt file, on disk or in the hands of a run, is backed by the      *)
(* notebook.                                                               *)
Backed(r) ==
  \A f \in Files :
    r[f] # NoSource => content[r[f]] = Gone \/ (content[r[f]] = f /\ r[f] \in active)

ReceiptInv ==
  /\ Backed(receipts)
  /\ \A p \in Runners :
       /\ Backed(held[p])
       /\ pc[p] \in {"verify", "save"} =>
            /\ current[p].file \in Files /\ current[p].source \in SourceIds
            /\ content[current[p].source] \in {current[p].file, Gone}

(* The lock excludes: who works owns it, who looks or removes is alone.    *)
LockInv ==
  /\ \A p \in Working : lock # NoLock /\ lock.pid = p
  /\ \A p, q \in Deciding : p = q
  /\ reaping => Deciding = {} /\ Working = {}
  /\ (\E p \in Runners : pc[p] \in {"unlink", "create"}) => Working = {}

(* The receipts by which a later run will know the source.                 *)
Kept(r, s) == r[content[s]] = s /\ s \in active

(* Every source of a file that is sure has its receipt, in the file, in    *)
(* the hands of the run that writes the file, or it is about to.           *)
CoverInv ==
  \A s \in SourceIds : content[s] \in Files \ unsure =>
    \/ (\A p \in Runners : pc[p] # "save") /\ Kept(receipts, s)
    \/ \E p \in Runners : pc[p] = "save" /\ Kept(held[p], s)
    \/ \E p \in Runners : /\ pc[p] = "verify"
                          /\ current[p].file = content[s] /\ current[p].source = s

(* What a run has still to upload is nowhere in the notebook, and what it  *)
(* has just uploaded is there once, unless it is unsure.                   *)
WorkInv ==
  \A p \in Runners :
    /\ pc[p] \in {"upload", "verify", "save"} =>
         \A s \in SourceIds : content[s] \in pending[p] => content[s] \in unsure
    /\ pc[p] \in {"upload", "verify"} => held[p] = receipts
    /\ pc[p] \in {"verify", "save"} =>
         /\ current[p].file \notin pending[p]
         /\ \A s \in SourceIds :
              content[s] = current[p].file /\ content[s] \notin unsure =>
                s = current[p].source
    /\ pc[p] = "save" => held[p][current[p].file] = current[p].source

OnceInv == CoverInv /\ WorkInv

IInv == TypeOK /\ ReceiptInv /\ (~raced => LockInv /\ OnceInv)
-----------------------------------------------------------------------------
LEMMA NoReceiptsType == NoReceipts \in Receipts /\ Backed(NoReceipts)
  BY DEF NoReceipts, Receipts, Backed

LEMMA InvInit == Init => IInv
<1> SUFFICES ASSUME Init PROVE IInv
  OBVIOUS
<1>1. TypeOK
  <2>1. lock \in Locks /\ receipts \in Receipts /\ held \in [Runners -> Receipts]
    BY NoReceiptsType DEF Init, Locks
  <2>2. content \in [SourceIds -> Files \cup {NoFile, Gone}] /\ active \subseteq SourceIds
    BY DEF Init
  <2>3. /\ pc \in [Runners -> {"idle", "unlink", "create", "prepare", "upload", "verify",
                               "save", "release", "remove"}]
        /\ pending \in [Runners -> SUBSET Files]
    BY DEF Init
  <2>4. current \in [Runners -> [file : Files \cup {NoFile},
                                 source : SourceIds \cup {NoSource}]]
    BY DEF Init, Nothing
  <2>5. reaping \in BOOLEAN /\ raced \in BOOLEAN /\ unsure \subseteq Files
    BY DEF Init
  <2>6. QED
    BY <2>1, <2>2, <2>3, <2>4, <2>5 DEF TypeOK
<1>2. ReceiptInv /\ LockInv
  BY NoReceiptsType DEF Init, ReceiptInv, LockInv, Working, Deciding
<1>3. OnceInv
  BY IngestAssumption DEF Init, OnceInv, CoverInv, WorkInv
<1>4. QED
  BY <1>1, <1>2, <1>3 DEF IInv

(* The steps of a run at the lock, which touch nothing but its place, the  *)
(* lock and the history.                                                   *)
LockStep(p) ==
  \/ Acquire(p) \/ UnlinkStale(p) \/ UnlinkThrows(p) \/ WriteLock(p) \/ GiveUp(p)
  \/ ReleaseOwn(p) \/ ReleaseForeign(p) \/ RemoveLock(p)

LEMMA LockStepShape ==
  ASSUME TypeOK, NEW p \in Runners, LockStep(p)
  PROVE  /\ UNCHANGED <<receipts, notebook, pending, held, current, reaping, unsure>>
         /\ \E to \in {"idle", "unlink", "create", "prepare", "release", "remove"} :
              pc' = [pc EXCEPT ![p] = to]
         /\ pc[p] \in {"idle", "unlink", "create", "prepare", "release", "remove"}
         /\ lock' \in {lock, NoLock, [pid |-> p, age |-> "young"]}
         /\ raced' \in BOOLEAN
  BY DEF LockStep, Acquire, FindNoLock, FindStaleLock, Decide, UnlinkStale, UnlinkThrows,
         WriteLock, GiveUp, ReleaseOwn, ReleaseForeign, RemoveLock, Goto, TypeOK

LEMMA LocksType ==
  /\ NoLock \in Locks /\ NoLock.pid = Nobody /\ NoLock.age = "none"
  /\ \A l \in Locks : l # NoLock => l.pid \in Runners \cup {Nobody} /\ l.age \in Ages
  /\ \A l \in Locks : l.age \in {"young", "aged"} => l # NoLock
  /\ \A p \in Runners : [pid |-> p, age |-> "young"] \in Locks
  BY DEF Locks, NoLock, Ages

LEMMA TypeKept == TypeOK /\ ReceiptInv /\ [Next]_vars => TypeOK'
<1> SUFFICES ASSUME TypeOK, ReceiptInv, [Next]_vars PROVE TypeOK'
  OBVIOUS
<1> USE IngestAssumption, NoReceiptsType DEF TypeOK, Goto, notebook, run
<1>1. ASSUME NEW p \in Runners, LockStep(p) PROVE TypeOK'
  <2>1. lock' \in Locks
    BY <1>1, LockStepShape, LocksType
  <2>2. QED
    BY <1>1, <2>1, LockStepShape
<1>2. ASSUME NEW p \in Runners, Prepare(p) PROVE TypeOK'
  BY <1>2 DEF Prepare, PendingFiles
<1>3. ASSUME NEW p \in Runners, NEW f \in Files, NEW s \in SourceIds, Upload(p, f, s)
      PROVE  TypeOK'
  BY <1>3 DEF Upload, Create
<1>4. ASSUME NEW p \in Runners, NEW f \in Files, UploadFails(p, f) PROVE TypeOK'
  BY <1>4 DEF UploadFails, Create, Fresh
<1>5. ASSUME NEW p \in Runners, Verify(p) PROVE TypeOK'
  BY <1>5 DEF Verify, Receipts
<1>6. ASSUME NEW p \in Runners, SaveReceipt(p) PROVE TypeOK'
  BY <1>6 DEF SaveReceipt, Nothing
<1>7. ASSUME NEW p \in Runners, VerifyFails(p) PROVE TypeOK'
  BY <1>7 DEF VerifyFails, Nothing, ReceiptInv
<1>8. ASSUME NEW p \in Runners, Finish(p) PROVE TypeOK'
  BY <1>8 DEF Finish
<1>9. ASSUME NEW p \in Runners, Die(p) PROVE TypeOK'
  <2>1. lock' \in Locks
    BY <1>9, LocksType DEF Die, Locks, NoLock
  <2>2. unsure' \subseteq Files
    BY <1>9 DEF Die, ReceiptInv
  <2>3. QED
    BY <1>9, <2>1, <2>2 DEF Die, Nothing
<1>10. CASE FindOrphan \/ Reap
  BY <1>10, LocksType DEF FindOrphan, Reap
<1>11. CASE Tick
  <2>1. lock' \in Locks
    BY <1>11, LocksType DEF Tick, Locks, Ages
  <2>2. QED
    BY <1>11, <2>1 DEF Tick
<1>12. CASE Activate \/ Delete
  BY <1>12 DEF Activate, Delete
<1>13. CASE UNCHANGED vars
  BY <1>13 DEF vars
<1>14. QED
  BY <1>1, <1>2, <1>3, <1>4, <1>5, <1>6, <1>7, <1>8, <1>9, <1>10, <1>11, <1>12, <1>13
     DEF Next, Step, LockStep

LEMMA ReceiptKept == TypeOK /\ ReceiptInv /\ [Next]_vars => ReceiptInv'
<1> SUFFICES ASSUME TypeOK, ReceiptInv, [Next]_vars PROVE ReceiptInv'
  OBVIOUS
<1> USE IngestAssumption DEF TypeOK, ReceiptInv, Backed, Receipts, Goto, notebook, run
<1>1. ASSUME NEW p \in Runners, LockStep(p) PROVE ReceiptInv'
  BY <1>1, LockStepShape
<1>2. ASSUME NEW p \in Runners, Prepare(p) PROVE ReceiptInv'
  BY <1>2 DEF Prepare
<1>3. ASSUME NEW p \in Runners, NEW f \in Files, NEW s \in SourceIds, Upload(p, f, s)
      PROVE  ReceiptInv'
  BY <1>3 DEF Upload, Create, Fresh
<1>4. ASSUME NEW p \in Runners, NEW f \in Files, UploadFails(p, f) PROVE ReceiptInv'
  <2>1. UNCHANGED <<receipts, held, current>> /\ pc' = pc
    BY <1>4 DEF UploadFails
  <2>2. CASE UNCHANGED notebook
    BY <2>1, <2>2
  <2>3. ASSUME NEW s \in Fresh, Create(s, f) PROVE ReceiptInv'
    BY <2>1, <2>3 DEF Create, Fresh
  <2>4. QED
    BY <1>4, <2>2, <2>3 DEF UploadFails
<1>5. ASSUME NEW p \in Runners, Verify(p) PROVE ReceiptInv'
  BY <1>5 DEF Verify, NoReceipts
<1>6. ASSUME NEW p \in Runners, SaveReceipt(p) PROVE ReceiptInv'
  BY <1>6 DEF SaveReceipt
<1>7. ASSUME NEW p \in Runners, VerifyFails(p) PROVE ReceiptInv'
  BY <1>7 DEF VerifyFails
<1>8. ASSUME NEW p \in Runners, Finish(p) PROVE ReceiptInv'
  BY <1>8 DEF Finish, NoReceipts
<1>9. ASSUME NEW p \in Runners, Die(p) PROVE ReceiptInv'
  BY <1>9 DEF Die, NoReceipts
<1>10. CASE FindOrphan \/ Reap \/ Tick
  BY <1>10 DEF FindOrphan, Reap, Tick
<1>11. CASE Activate
  BY <1>11 DEF Activate
<1>12. CASE Delete
  BY <1>12 DEF Delete
<1>13. CASE UNCHANGED vars
  BY <1>13 DEF vars
<1>14. QED
  BY <1>1, <1>2, <1>3, <1>4, <1>5, <1>6, <1>7, <1>8, <1>9, <1>10, <1>11, <1>12, <1>13
     DEF Next, Step, LockStep

LEMMA RacedStays == TypeOK /\ [Next]_vars /\ ~raced' => ~raced
  BY DEF Next, Step, Acquire, FindNoLock, FindStaleLock, Decide, UnlinkStale, UnlinkThrows,
         WriteLock, Prepare, GiveUp, UploadFails, Upload, Verify, SaveReceipt, VerifyFails,
         Finish, ReleaseOwn, ReleaseForeign, RemoveLock, Die, FindOrphan, Reap, Tick,
         Activate, Delete, vars, TypeOK

LEMMA LockKept == TypeOK /\ LockInv /\ [Next]_vars /\ ~raced' => LockInv'
<1> SUFFICES ASSUME TypeOK, LockInv, [Next]_vars, ~raced' PROVE LockInv'
  OBVIOUS
<1> USE IngestAssumption, LocksType DEF TypeOK, LockInv, Working, Deciding, Goto, notebook, run
<1>1. ASSUME NEW p \in Runners, FindNoLock(p) \/ FindStaleLock(p) PROVE LockInv'
  <2>1. /\ Deciding = {} /\ ~reaping /\ (lock = NoLock \/ lock.pid = Nobody)
        /\ \E to \in {"create", "unlink"} : pc' = [pc EXCEPT ![p] = to]
        /\ UNCHANGED <<lock, reaping>>
    BY <1>1 DEF FindNoLock, FindStaleLock, Decide
  <2>2. Working = {}
    BY <2>1
  <2>3. QED
    BY <2>1, <2>2
<1>2. ASSUME NEW p \in Runners, UnlinkStale(p) \/ UnlinkThrows(p) \/ WriteLock(p)
      PROVE  LockInv'
  <2>1. Deciding = {p} /\ Working = {} /\ ~reaping
    BY <1>2 DEF UnlinkStale, UnlinkThrows, WriteLock
  <2>2. CASE WriteLock(p)
    BY <2>1, <2>2 DEF WriteLock
  <2>3. CASE UnlinkStale(p) \/ UnlinkThrows(p)
    BY <2>1, <2>3 DEF UnlinkStale, UnlinkThrows
  <2>4. QED
    BY <1>2, <2>2, <2>3
<1>3. ASSUME NEW p \in Runners,
             \/ Prepare(p) \/ GiveUp(p) \/ Verify(p) \/ SaveReceipt(p) \/ VerifyFails(p)
             \/ Finish(p) \/ \E f \in Files : \/ UploadFails(p, f)
                                              \/ \E s \in SourceIds : Upload(p, f, s)
      PROVE  LockInv'
  <2>1. /\ pc[p] \in {"prepare", "upload", "verify", "save"}
        /\ \E to \in {"upload", "verify", "save", "release"} : pc' = [pc EXCEPT ![p] = to]
        /\ UNCHANGED <<lock, reaping>>
    BY <1>3 DEF Prepare, GiveUp, Verify, SaveReceipt, VerifyFails, Finish, UploadFails, Upload
  <2>2. QED
    BY <2>1
<1>4. ASSUME NEW p \in Runners, ReleaseOwn(p) PROVE LockInv'
  BY <1>4 DEF ReleaseOwn
<1>5. ASSUME NEW p \in Runners, ReleaseForeign(p) PROVE LockInv'
  BY <1>5 DEF ReleaseForeign
<1>6. ASSUME NEW p \in Runners, RemoveLock(p) PROVE LockInv'
  <2>1. Working = {p}
    BY <1>6 DEF RemoveLock
  <2>2. QED
    BY <1>6, <2>1 DEF RemoveLock
<1>7. ASSUME NEW p \in Runners, Die(p) PROVE LockInv'
  <2>1. CASE lock.pid = p
    <3>1. \A q \in Working : q = p
      BY <2>1
    <3>2. QED
      BY <1>7, <2>1, <3>1 DEF Die
  <2>2. CASE lock.pid # p
    BY <1>7, <2>2 DEF Die
  <2>3. QED
    BY <2>1, <2>2
<1>8. CASE FindOrphan
  <2>1. Deciding = {} /\ lock.pid = Nobody /\ pc' = pc /\ lock' = lock
    BY <1>8 DEF FindOrphan
  <2>2. Working = {}
    BY <2>1
  <2>3. QED
    BY <2>1, <2>2
<1>9. CASE Reap
  BY <1>9 DEF Reap
<1>10. CASE Tick
  <2>1. lock' # NoLock /\ lock'.pid = lock.pid
    BY <1>10 DEF Tick, Locks, Ages, NoLock
  <2>2. QED
    BY <1>10, <2>1 DEF Tick
<1>11. CASE Activate \/ Delete
  BY <1>11 DEF Activate, Delete
<1>12. CASE UNCHANGED vars
  BY <1>12 DEF vars
<1>13. QED
  BY <1>1, <1>2, <1>3, <1>4, <1>5, <1>6, <1>7, <1>8, <1>9, <1>10, <1>11, <1>12
     DEF Next, Step, Acquire

LEMMA OneWorker ==
  ASSUME LockInv, NEW p \in Working PROVE \A q \in Working : q = p
  BY DEF LockInv

LEMMA OnceKept ==
  ASSUME TypeOK, ReceiptInv, LockInv, OnceInv, [Next]_vars PROVE OnceInv'
<1> USE IngestAssumption
        DEF TypeOK, OnceInv, CoverInv, WorkInv, Kept, Receipts, Goto, notebook, run
<1>1. ASSUME NEW p \in Runners, LockStep(p) PROVE OnceInv'
  <2>1. /\ UNCHANGED <<receipts, content, active, pending, held, current, unsure>>
        /\ pc[p] \notin {"upload", "verify", "save"}
        /\ pc'[p] \notin {"upload", "verify", "save"}
        /\ \A q \in Runners \ {p} : pc'[q] = pc[q]
    BY <1>1, LockStepShape
  <2>2. CoverInv'
    BY <2>1
  <2>3. WorkInv'
    BY <2>1
  <2>4. QED
    BY <2>2, <2>3
<1>2. ASSUME NEW p \in Runners, Prepare(p) PROVE OnceInv'
  <2>1. \A q \in Runners : pc[q] \in {"upload", "verify", "save"} => FALSE
    BY <1>2, OneWorker DEF Prepare, Working
  <2>2. QED
    BY <1>2, <2>1 DEF Prepare, PendingFiles
<1>3. ASSUME NEW p \in Runners, NEW f \in Files, NEW s \in SourceIds, Upload(p, f, s)
      PROVE  OnceInv'
  <2>1. \A q \in Runners \ {p} : pc[q] \notin {"upload", "verify", "save"}
    BY <1>3, OneWorker DEF Upload, Working
  <2>2. QED
    BY <1>3, <2>1 DEF Upload, Create, Fresh
<1>4. ASSUME NEW p \in Runners, NEW f \in Files, UploadFails(p, f) PROVE OnceInv'
  <2>1. \A q \in Runners \ {p} : pc[q] \notin {"upload", "verify", "save"}
    BY <1>4, OneWorker DEF UploadFails, Working
  <2>2. QED
    BY <1>4, <2>1 DEF UploadFails, Create, Fresh
<1>5. ASSUME NEW p \in Runners, Verify(p) PROVE OnceInv'
  <2>1. \A q \in Runners \ {p} : pc[q] \notin {"upload", "verify", "save"}
    BY <1>5, OneWorker DEF Verify, Working
  <2>2. QED
    BY <1>5, <2>1 DEF Verify, ReceiptInv
<1>6. ASSUME NEW p \in Runners, SaveReceipt(p) PROVE OnceInv'
  <2>1. \A q \in Runners \ {p} : pc[q] \notin {"upload", "verify", "save"}
    BY <1>6, OneWorker DEF SaveReceipt, Working
  <2> DEFINE f == current[p].file  s == current[p].source
  <2>2. /\ pc[p] = "save" /\ pc' = [pc EXCEPT ![p] = "upload"]
        /\ receipts' = held[p] /\ UNCHANGED <<content, active, pending, held>>
        /\ \/ unsure' = unsure
           \/ /\ unsure' = unsure \ {f}
              /\ \A t \in SourceIds : content[t] = f => t = s
    BY <1>6 DEF SaveReceipt
  <2>3. f \in Files /\ s \in SourceIds /\ held[p][f] = s
    BY <2>2 DEF ReceiptInv
  <2>4. content[s] = f => s \in active
    BY <2>3 DEF ReceiptInv, Backed
  <2>5. \A t \in SourceIds : content[t] \in Files \ unsure => Kept(held[p], t)
    BY <2>1, <2>2
  <2>6. CoverInv'
    BY <2>1, <2>2, <2>3, <2>4, <2>5
  <2>7. WorkInv'
    BY <2>1, <2>2
  <2>8. QED
    BY <2>6, <2>7
<1>7. ASSUME NEW p \in Runners, VerifyFails(p) PROVE OnceInv'
  <2>1. \A q \in Runners \ {p} : pc[q] \notin {"upload", "verify", "save"}
    BY <1>7, OneWorker DEF VerifyFails, Working
  <2>2. QED
    BY <1>7, <2>1 DEF VerifyFails
<1>8. ASSUME NEW p \in Runners, Finish(p) PROVE OnceInv'
  BY <1>8 DEF Finish
<1>9. ASSUME NEW p \in Runners, Die(p) PROVE OnceInv'
  BY <1>9 DEF Die
<1>10. CASE FindOrphan \/ Reap \/ Tick
  BY <1>10 DEF FindOrphan, Reap, Tick
<1>11. CASE Activate
  BY <1>11 DEF Activate
<1>12. CASE Delete
  BY <1>12 DEF Delete
<1>13. CASE UNCHANGED vars
  BY <1>13 DEF vars
<1>14. QED
  BY <1>1, <1>2, <1>3, <1>4, <1>5, <1>6, <1>7, <1>8, <1>9, <1>10, <1>11, <1>12, <1>13
     DEF Next, Step, LockStep

LEMMA Inductive == Spec => []IInv
<1>1. IInv /\ [Next]_vars => IInv'
  BY TypeKept, ReceiptKept, RacedStays, LockKept, OnceKept DEF IInv
<1>2. QED
  BY InvInit, <1>1, PTL DEF Spec

(* The lock, the receipts, the notebook and the locals of every run stay   *)
(* well formed.                                                            *)
THEOREM TypeCorrect == Spec => []TypeOK
  BY Inductive, PTL DEF IInv

(* Two runs work in one staging folder only after a race for the lock.     *)
THEOREM RunsExclude == Spec => []OneRunUnlessRaced
<1>1. IInv => OneRunUnlessRaced
  BY DEF IInv, LockInv, OneRunUnlessRaced
<1>2. QED
  BY <1>1, Inductive, PTL

(* A receipt stands for a source made from its file, races or not.         *)
THEOREM ReceiptsAreBacked == Spec => []ReceiptsAreTrue
<1>1. IInv => ReceiptsAreTrue
  BY DEF IInv, ReceiptInv, Backed, ReceiptsAreTrue
<1>2. QED
  BY <1>1, Inductive, PTL

(* Without a race every verified file is in the notebook once.             *)
THEOREM EachIsUploadedOnce == Spec => []UploadedOnce
<1>1. ASSUME IInv PROVE UploadedOnce
  <2> SUFFICES ASSUME ~raced, NEW s \in SourceIds, NEW t \in SourceIds,
                      content[s] = content[t], content[s] \in Files \ unsure
               PROVE  s = t
    BY DEF UploadedOnce
  <2>1. CoverInv /\ WorkInv /\ LockInv /\ TypeOK
    BY <1>1 DEF IInv, OnceInv
  <2>2. CASE \A p \in Runners : pc[p] \notin {"verify", "save"}
    BY <2>1, <2>2 DEF CoverInv, Kept
  <2>3. ASSUME NEW p \in Runners, pc[p] \in {"verify", "save"} PROVE s = t
    <3>1. \A q \in Runners : pc[q] \in {"verify", "save"} => q = p
      BY <2>1, <2>3, OneWorker DEF Working
    <3>2. QED
      BY <2>1, <2>3, <3>1 DEF CoverInv, WorkInv, Kept
  <2>4. QED
    BY <2>2, <2>3
<1>2. QED
  BY <1>1, Inductive, PTL
=============================================================================

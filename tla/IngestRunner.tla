--------------------------- MODULE IngestRunner ----------------------------
(***************************************************************************)
(* The NotebookLM ingest runner (scripts/notebooklm/ingest-nlm-runner.mjs) *)
(* and the stale lock sweeper (scripts/reconciler/stale-lock-sweeper.mjs). *)
(* A runner takes the lock file of a staging folder, compares the receipt  *)
(* file with the sources of the notebook, uploads every staged file that   *)
(* has no receipt for an ACTIVE source, verifies it and saves its receipt. *)
(* The lock is looked at, removed and written in separate steps, a run     *)
(* removes a lock older than 30 minutes, and the sweeper, which the drive  *)
(* ingest calls at its start, one older than 15.  The notebook is the      *)
(* remote service; a call to it may fail or its answer may be lost.        *)
(***************************************************************************)
EXTENDS Integers, FiniteSets

CONSTANTS
  Runners,     \* process slots; a slot that died is started again under a new pid
  Nobody,      \* the pid of a process that is dead, or of a lock without one
  Files,       \* staged files, by name and hash
  NoFile,      \* what an id not given out yet was made from
  Gone,        \* what a deleted source was made from
  SourceIds,   \* ids the service can assign: the bound on uploads
  NoSource     \* no receipt

ASSUME IngestAssumption ==
  /\ IsFiniteSet(Files) /\ IsFiniteSet(SourceIds)
  /\ Nobody \notin Runners /\ NoSource \notin SourceIds
  /\ NoFile \notin Files /\ Gone \notin Files /\ NoFile # Gone

(* Age of a lock: up to 15 minutes, up to 30, more. *)
Ages == {"young", "aged", "expired"}

NoLock == [pid |-> Nobody, age |-> "none"]
Locks == [pid : Runners \cup {Nobody}, age : Ages] \cup {NoLock}

VARIABLES
  lock,       \* .nlm-sync.lock; pid Nobody is a dead or unreadable owner
  receipts,   \* .nlm-sync-receipt.json: source of each file
  content,    \* the notebook: the file a source was made from, or Gone
  active,     \* the notebook: sources the listing shows as ACTIVE
  pc,         \* where each runner is
  pending,    \* files the run has still to upload
  held,       \* receiptsData: the receipts as the run loaded and changed them
  current,    \* file and source between upload and receipt
  reaping,    \* the sweeper found the lock stale and has not removed it yet
  raced,      \* history: two acquisitions, or one and a removal, overlapped,
              \* or a lock was removed from a live run because of its age
  unsure      \* history: files an upload of which was not verified, or all files
              \* if a run died while it wrote the receipts

run == <<pc, pending, held, current>>
notebook == <<content, active>>
vars == <<lock, receipts, notebook, run, reaping, raced, unsure>>

Receipts == [Files -> SourceIds \cup {NoSource}]

TypeOK ==
  /\ lock \in Locks
  /\ receipts \in Receipts
  /\ content \in [SourceIds -> Files \cup {NoFile, Gone}]
  /\ active \subseteq SourceIds
  /\ pc \in [Runners -> {"idle", "unlink", "create", "prepare", "upload", "verify",
                         "save", "release", "remove"}]
  /\ pending \in [Runners -> SUBSET Files]
  /\ held \in [Runners -> Receipts]
  /\ current \in [Runners -> [file : Files \cup {NoFile}, source : SourceIds \cup {NoSource}]]
  /\ reaping \in BOOLEAN /\ raced \in BOOLEAN
  /\ unsure \subseteq Files

NoReceipts == [f \in Files |-> NoSource]
Nothing == [file |-> NoFile, source |-> NoSource]

Init ==
  /\ lock = NoLock
  /\ receipts = NoReceipts
  /\ content = [s \in SourceIds |-> NoFile]
  /\ active = {}
  /\ pc = [p \in Runners |-> "idle"]
  /\ pending = [p \in Runners |-> {}]
  /\ held = [p \in Runners |-> NoReceipts]
  /\ current = [p \in Runners |-> Nothing]
  /\ reaping = FALSE /\ raced = FALSE
  /\ unsure = {}

Goto(p, at, next) == pc[p] = at /\ pc' = [pc EXCEPT ![p] = next]

(* A run between its look at the lock and its own lock file, and a holder  *)
(* between its look and its removal: what must not overlap.                *)
Deciding == {p \in Runners : pc[p] \in {"unlink", "create", "remove"}}

Working ==
  {p \in Runners : pc[p] \in {"prepare", "upload", "verify", "save", "release", "remove"}}

---------------------------------------------------------------------------
(* The lock.                                                               *)

(* Mutant: only the age counts. *)
IsStaleByAge(l) == l.age = "expired"

IsStale(l) == l.age = "expired" \/ l.pid = Nobody

Decide(p, next) ==
  /\ Goto(p, "idle", next)
  /\ raced' = (raced \/ Deciding # {} \/ reaping
                     \/ (lock # NoLock /\ lock.pid # Nobody))
  /\ UNCHANGED <<lock, receipts, notebook, pending, held, current, reaping, unsure>>

FindNoLock(p) == lock = NoLock /\ Decide(p, "create")

(* A lock that is neither stale nor dead ends the run with                 *)
(* CONCURRENT_RUN_IN_PROGRESS, which changes nothing.                      *)
FindStaleLock(p) == lock # NoLock /\ IsStale(lock) /\ Decide(p, "unlink")

(* The lock file is removed, whoever's it is by now. *)
UnlinkStale(p) ==
  /\ lock # NoLock
  /\ Goto(p, "unlink", "create")
  /\ lock' = NoLock
  /\ UNCHANGED <<receipts, notebook, pending, held, current, reaping, raced, unsure>>

(* It is gone already: unlinkSync throws, in the catch block as well. *)
UnlinkThrows(p) ==
  /\ lock = NoLock
  /\ Goto(p, "unlink", "idle")
  /\ UNCHANGED <<lock, receipts, notebook, pending, held, current, reaping, raced, unsure>>

(* Mutant: the lock is written without the pid. *)
WriteLockWithoutPid(p) ==
  /\ Goto(p, "create", "prepare")
  /\ lock' = [pid |-> Nobody, age |-> "young"]
  /\ UNCHANGED <<receipts, notebook, pending, held, current, reaping, raced, unsure>>

(* writeFileSync replaces a lock written meanwhile. *)
WriteLock(p) ==
  /\ Goto(p, "create", "prepare")
  /\ lock' = [pid |-> p, age |-> "young"]
  /\ UNCHANGED <<receipts, notebook, pending, held, current, reaping, raced, unsure>>

(* The finally block: a lock with another pid is left alone. *)
ReleaseOwn(p) ==
  /\ lock # NoLock /\ lock.pid = p
  /\ Goto(p, "release", "remove")
  /\ raced' = (raced \/ reaping \/ Deciding # {})
  /\ UNCHANGED <<lock, receipts, notebook, pending, held, current, reaping, unsure>>

ReleaseForeign(p) ==
  /\ lock = NoLock \/ lock.pid # p
  /\ Goto(p, "release", "idle")
  /\ UNCHANGED <<lock, receipts, notebook, pending, held, current, reaping, raced, unsure>>

RemoveLock(p) ==
  /\ Goto(p, "remove", "idle")
  /\ lock' = NoLock
  /\ UNCHANGED <<receipts, notebook, pending, held, current, reaping, raced, unsure>>

---------------------------------------------------------------------------
(* The work.                                                               *)

(* No command line tool, no session, a dry run, nothing staged, or a       *)
(* listing that fails: the run is over.                                    *)
GiveUp(p) ==
  /\ Goto(p, "prepare", "release")
  /\ UNCHANGED <<lock, receipts, notebook, pending, held, current, reaping, raced, unsure>>

(* Mutant: any receipt at all is believed to be missing (--force). *)
PendingFilesForced == Files

(* Files without a receipt for a source that is listed as ACTIVE. *)
PendingFiles == {f \in Files : receipts[f] \notin active}

Prepare(p) ==
  /\ Goto(p, "prepare", "upload")
  /\ held' = [held EXCEPT ![p] = receipts]
  /\ pending' = [pending EXCEPT ![p] = PendingFiles]
  /\ UNCHANGED <<lock, receipts, notebook, current, reaping, raced, unsure>>

Fresh == {s \in SourceIds : content[s] = NoFile}

Create(s, f) ==
  /\ content' = [content EXCEPT ![s] = f]
  /\ active' \in {active, active \cup {s}}

(* Mutant: an answer without an id is taken for one. *)
UploadNameAsId(p, f, s) ==
  /\ f \in pending[p] /\ s \in Fresh
  /\ Goto(p, "upload", "verify")
  /\ Create(s, f)
  /\ pending' = [pending EXCEPT ![p] = @ \ {f}]
  /\ current' = [current EXCEPT ![p] = [file |-> f, source |-> f]]
  /\ UNCHANGED <<lock, receipts, held, reaping, raced, unsure>>

Upload(p, f, s) ==
  /\ f \in pending[p] /\ s \in Fresh
  /\ Goto(p, "upload", "verify")
  /\ Create(s, f)
  /\ pending' = [pending EXCEPT ![p] = @ \ {f}]
  /\ current' = [current EXCEPT ![p] = [file |-> f, source |-> s]]
  /\ UNCHANGED <<lock, receipts, held, reaping, raced, unsure>>

(* Too large, refused, or an answer that is lost or unusable; in the last  *)
(* case the source may exist.  The file is copied to .dead-letter and      *)
(* stays staged.                                                           *)
UploadFails(p, f) ==
  /\ f \in pending[p]
  /\ Goto(p, "upload", "upload")
  /\ pending' = [pending EXCEPT ![p] = @ \ {f}]
  /\ \/ UNCHANGED <<notebook, unsure>>
     \/ /\ \E s \in Fresh : Create(s, f)
        /\ unsure' = unsure \cup {f}
  /\ UNCHANGED <<lock, receipts, held, current, reaping, raced>>

(* Mutant: the receipt is saved without the fresh listing. *)
VerifyBlindly(p) ==
  /\ Goto(p, "verify", "save")
  /\ held' = [held EXCEPT ![p][current[p].file] = current[p].source]
  /\ receipts' = NoReceipts
  /\ UNCHANGED <<lock, notebook, pending, current, reaping, raced, unsure>>

(* The uploaded source is ACTIVE: its receipt joins those the run holds,   *)
(* and the file is opened, which empties it.                               *)
Verify(p) ==
  /\ Goto(p, "verify", "save")
  /\ current[p].source \in active
  /\ held' = [held EXCEPT ![p][current[p].file] = current[p].source]
  /\ receipts' = NoReceipts
  /\ UNCHANGED <<lock, notebook, pending, current, reaping, raced, unsure>>

(* All receipts the run holds are written.  An upload of the file that was *)
(* not verified is made good if this is its only source by now.            *)
SaveReceipt(p) ==
  LET f == current[p].file  s == current[p].source IN
  /\ Goto(p, "save", "upload")
  /\ receipts' = held[p]
  /\ current' = [current EXCEPT ![p] = Nothing]
  /\ unsure' = IF \A t \in SourceIds : content[t] = f => t = s THEN unsure \ {f} ELSE unsure
  /\ UNCHANGED <<lock, notebook, pending, held, reaping, raced>>

(* It is not, or the listing fails: the receipt is withheld. *)
VerifyFails(p) ==
  /\ Goto(p, "verify", "upload")
  /\ current' = [current EXCEPT ![p] = Nothing]
  /\ unsure' = unsure \cup {current[p].file}
  /\ UNCHANGED <<lock, receipts, notebook, pending, held, reaping, raced>>

Finish(p) ==
  /\ pending[p] = {}
  /\ Goto(p, "upload", "release")
  /\ held' = [held EXCEPT ![p] = NoReceipts]
  /\ UNCHANGED <<lock, receipts, notebook, pending, current, reaping, raced, unsure>>

---------------------------------------------------------------------------
(* The sweeper.                                                            *)

IsOrphan(l) == l.pid = Nobody \/ l.age \in {"aged", "expired"}

FindOrphan ==
  /\ ~reaping /\ lock # NoLock /\ IsOrphan(lock)
  /\ reaping' = TRUE
  /\ raced' = (raced \/ Deciding # {} \/ lock.pid # Nobody)
  /\ UNCHANGED <<lock, receipts, notebook, run, unsure>>

Reap ==
  /\ reaping
  /\ reaping' = FALSE
  /\ lock' = NoLock
  /\ UNCHANGED <<receipts, notebook, run, raced, unsure>>

---------------------------------------------------------------------------
(* The world.                                                              *)

Tick ==
  /\ lock.age \in {"young", "aged"}
  /\ lock' = [lock EXCEPT !.age = IF @ = "young" THEN "aged" ELSE "expired"]
  /\ UNCHANGED <<receipts, notebook, run, reaping, raced, unsure>>

(* The service finishes a source. *)
Activate ==
  /\ \E s \in SourceIds \ active : content[s] \in Files /\ active' = active \cup {s}
  /\ UNCHANGED <<lock, receipts, content, run, reaping, raced, unsure>>

(* Somebody deletes a source. *)
Delete ==
  /\ \E s \in SourceIds : /\ content[s] \in Files
                          /\ content' = [content EXCEPT ![s] = Gone]
                          /\ active' = active \ {s}
  /\ UNCHANGED <<lock, receipts, run, reaping, raced, unsure>>

(* A run dies; its pid in the lock is one of no process.  If it dies while *)
(* it writes the receipts, they are lost.                                  *)
Die(p) ==
  /\ pc[p] # "idle"
  /\ pc' = [pc EXCEPT ![p] = "idle"]
  /\ lock' = IF lock.pid = p THEN [lock EXCEPT !.pid = Nobody] ELSE lock
  /\ pending' = [pending EXCEPT ![p] = {}]
  /\ held' = [held EXCEPT ![p] = NoReceipts]
  /\ current' = [current EXCEPT ![p] = Nothing]
  /\ unsure' = CASE pc[p] = "verify" -> unsure \cup {current[p].file}
                 [] pc[p] = "save" -> Files
                 [] OTHER -> unsure
  /\ UNCHANGED <<receipts, notebook, reaping, raced>>

Acquire(p) == FindNoLock(p) \/ FindStaleLock(p)

Step(p) ==
  \/ UnlinkStale(p) \/ UnlinkThrows(p) \/ WriteLock(p)
  \/ Prepare(p) \/ GiveUp(p)
  \/ \E f \in Files : UploadFails(p, f) \/ \E s \in SourceIds : Upload(p, f, s)
  \/ Verify(p) \/ SaveReceipt(p) \/ VerifyFails(p) \/ Finish(p)
  \/ ReleaseOwn(p) \/ ReleaseForeign(p) \/ RemoveLock(p)

Next ==
  \/ \E p \in Runners : Acquire(p) \/ Step(p) \/ Die(p)
  \/ FindOrphan \/ Reap \/ Tick \/ Activate \/ Delete

(* Runs are started again and again, no step of a run waits for ever (every *)
(* call of the command line tool has a timeout), and runs are not killed    *)
(* between their look at a stale lock and its removal every single time.    *)
Fairness ==
  \A p \in Runners : WF_vars(Acquire(p)) /\ WF_vars(Step(p)) /\ SF_vars(UnlinkStale(p))

Spec == Init /\ [][Next]_vars /\ Fairness

---------------------------------------------------------------------------
(* Properties.                                                             *)

(* "Concurrency lockfile protection": two runs work in one staging folder  *)
(* at the same time only if their looks at the lock overlapped, with each  *)
(* other or with a removal, or a lock was taken from a live run for its    *)
(* age.                                                                    *)
OneRunUnlessRaced == ~raced => \A p, q \in Working : p = q

(* "Idempotency receipts": without such a race, if every upload of a file  *)
(* was verified in the run that made it and the receipts were not lost,    *)
(* its content is in the notebook once, through any number of further runs *)
(* and deaths.                                                             *)
UploadedOnce ==
  ~raced => \A s, t \in SourceIds :
              content[s] = content[t] /\ content[s] \in Files \ unsure => s = t

(* A receipt always stands for a source that was made from its file and    *)
(* seen ACTIVE, also if overlapping runs write their old copies, and as    *)
(* long as nobody deletes the source.                                      *)
ReceiptsAreTrue ==
  \A f \in Files : LET s == receipts[f] IN
    s # NoSource => content[s] = Gone \/ (content[s] = f /\ s \in active)

(* The lock of a run that died does not shut out later ones for ever.      *)
DeadLockIsBroken ==
  (lock # NoLock /\ lock.pid = Nobody) ~> (lock = NoLock \/ lock.pid # Nobody)
=============================================================================

-------------------------- MODULE PackReplaceGate --------------------------
(***************************************************************************)
(* The replace gate of NotebookLM knowledge packs                          *)
(* (scripts/nlm-pack-replace-gate.mjs): replacePackFamilyAtomic uploads    *)
(* every part of a new generation, polls until all are ACTIVE, and only    *)
(* then deletes the sources of the pack family it listed at its start.  A  *)
(* failure before the cutover deletes the run's own uploads instead.       *)
(*                                                                         *)
(* One notebook, any number of writers (cluster sweep, master pipeline,    *)
(* toolforge miner: nothing in the code keeps them apart), each running    *)
(* the gate any number of times.  Every await of the code is a step        *)
(* boundary; the notebook is the remote service, whose indexing runs on    *)
(* its own.  A writer process may die at any step and is started again.    *)
(***************************************************************************)
EXTENDS Integers, FiniteSets

CONSTANTS
  Writers,         \* processes that call the gate for this notebook
  SourceIds,       \* ids the service can assign: the bound on uploads
  Parts,           \* file names of the pack's parts, also their titles
  OtherPack,       \* any other pack-family title (an old name, a legacy pack)
  Document,        \* title of anything else, the protected fixture included
  ExpectedCounts,  \* values callers pass as expectedPartCount
  ReuseChoices,    \* values callers pass as allowReuse; it is off by default
  Existing,        \* titles of the sources there at the start, by id
  InitialStatus    \* statuses they may have then

PackTitles == Parts \cup {OtherPack}

LiveStatus == {"processing", "active", "unlabelled", "error"}

NoResult == {"none", "success", "partial", "failed", "crashed"}

ASSUME GateAssumption ==
  /\ IsFiniteSet(Parts) /\ Parts # {}
  /\ OtherPack \notin Parts /\ Document \notin PackTitles
  /\ ExpectedCounts \subseteq Nat /\ ReuseChoices \subseteq BOOLEAN
  /\ DOMAIN Existing \subseteq SourceIds
  /\ \A s \in DOMAIN Existing : Existing[s] \in PackTitles \cup {Document}
  /\ InitialStatus \subseteq LiveStatus

VARIABLES
  status,      \* the notebook: "unborn", a status, or "deleted", of each id
  title,       \* the notebook: title of each id once it is born
  quarantined, \* the notebook is listed in .nlm-quarantine.json
  pc,          \* where each writer is
  todo,        \* packFiles not uploaded yet
  reusable,    \* sources of the listing that EXISTS_ACTIVE lets the run reuse
  oldSources,  \* oldSourceIdSet: the pack family as listed at the start
  newGeneration,  \* newGenerationSourceIds
  newlyUploaded,  \* newlyUploadedSourceIds
  toDelete,    \* ids the cutover or the rollback still has to delete
  failedDelete,\* a delete of the cutover failed (cutoverError)
  result,      \* how the writer's last run ended
  served,      \* history: newGeneration of the last run that passed its poll
  unreported   \* history: a crash may have left residue nobody recorded

notebook == <<status, title>>
locals == <<todo, reusable, oldSources, newGeneration, newlyUploaded, toDelete,
            failedDelete>>
vars == <<notebook, quarantined, pc, locals, result, served, unreported>>

---------------------------------------------------------------------------
(* What a listing shows.                                                   *)

Live == {s \in SourceIds : status[s] \in LiveStatus}

PackSources == {s \in Live : title[s] \in PackTitles}

(* Ready for the poll: status ACTIVE, or no status field but a size.       *)
Ready(s) == status[s] \in {"active", "unlabelled"}

Shelf == {s \in SourceIds : Ready(s)}

(* EXISTS_ACTIVE: the only source of its title, and explicitly ACTIVE.     *)
ExistsActive ==
  {s \in PackSources : /\ status[s] = "active"
                       /\ \A t \in Live : title[t] = title[s] => t = s}

(* S holds exactly one source of each part. *)
Complete(S) ==
  \A p \in Parts : \E s \in S : title[s] = p /\ \A t \in S : title[t] = p => t = s

TypeOK ==
  /\ status \in [SourceIds -> {"unborn", "deleted"} \cup LiveStatus]
  /\ title \in [SourceIds -> PackTitles \cup {Document}]
  /\ quarantined \in BOOLEAN
  /\ pc \in [Writers -> {"idle", "upload", "poll", "wait", "cutover", "rollback"}]
  /\ todo \in [Writers -> SUBSET Parts]
  /\ reusable \in [Writers -> SUBSET SourceIds]
  /\ oldSources \in [Writers -> SUBSET SourceIds]
  /\ newGeneration \in [Writers -> SUBSET SourceIds]
  /\ newlyUploaded \in [Writers -> SUBSET SourceIds]
  /\ toDelete \in [Writers -> SUBSET SourceIds]
  /\ failedDelete \in [Writers -> BOOLEAN]
  /\ result \in [Writers -> NoResult]
  /\ served \subseteq SourceIds
  /\ unreported \in BOOLEAN

Init ==
  /\ title = [s \in SourceIds |->
                IF s \in DOMAIN Existing THEN Existing[s] ELSE Document]
  /\ \E st \in [DOMAIN Existing -> InitialStatus] :
       status = [s \in SourceIds |->
                   IF s \in DOMAIN Existing THEN st[s] ELSE "unborn"]
  /\ served = IF Complete(Shelf) THEN {s \in Shelf : title[s] \in Parts} ELSE {}
  /\ unreported = (served # PackSources)
  /\ quarantined = FALSE
  /\ pc = [w \in Writers |-> "idle"]
  /\ todo = [w \in Writers |-> {}]
  /\ reusable = [w \in Writers |-> {}]
  /\ oldSources = [w \in Writers |-> {}]
  /\ newGeneration = [w \in Writers |-> {}]
  /\ newlyUploaded = [w \in Writers |-> {}]
  /\ toDelete = [w \in Writers |-> {}]
  /\ failedDelete = [w \in Writers |-> FALSE]
  /\ result = [w \in Writers |-> "none"]

---------------------------------------------------------------------------
(* The run of a writer.                                                    *)

(* The call's locals are gone when it returns, throws or dies.             *)
Leave(w, how) ==
  /\ pc' = [pc EXCEPT ![w] = "idle"]
  /\ result' = [result EXCEPT ![w] = how]
  /\ todo' = [todo EXCEPT ![w] = {}]
  /\ reusable' = [reusable EXCEPT ![w] = {}]
  /\ oldSources' = [oldSources EXCEPT ![w] = {}]
  /\ newGeneration' = [newGeneration EXCEPT ![w] = {}]
  /\ newlyUploaded' = [newlyUploaded EXCEPT ![w] = {}]
  /\ toDelete' = [toDelete EXCEPT ![w] = {}]
  /\ failedDelete' = [failedDelete EXCEPT ![w] = FALSE]

(* MULTIPART_COUNT_MISMATCH and EMPTY_PACK_FILES: nothing is listed.       *)
Reject(w, files, expected) ==
  /\ pc[w] = "idle"
  /\ Cardinality(files) # expected \/ files = {}
  /\ quarantined' = TRUE
  /\ result' = [result EXCEPT ![w] = "failed"]
  /\ UNCHANGED <<notebook, pc, locals, served, unreported>>

(* The routing guard or the listing throws, outside the try block: the     *)
(* quarantine handler is not called.                                       *)
ListFails(w) ==
  /\ pc[w] = "idle"
  /\ result' = [result EXCEPT ![w] = "failed"]
  /\ UNCHANGED <<notebook, quarantined, pc, locals, served, unreported>>

(* Mutant: only titles equal to the new files count as the old generation. *)
ListByFileName(w, files, expected, allowReuse) ==
  /\ pc[w] = "idle"
  /\ Cardinality(files) = expected /\ files # {}
  /\ pc' = [pc EXCEPT ![w] = "upload"]
  /\ todo' = [todo EXCEPT ![w] = files]
  /\ oldSources' = [oldSources EXCEPT ![w] = {s \in PackSources : title[s] \in files}]
  /\ reusable' = [reusable EXCEPT ![w] = IF allowReuse THEN ExistsActive ELSE {}]
  /\ result' = [result EXCEPT ![w] = "none"]
  /\ UNCHANGED <<notebook, quarantined, newGeneration, newlyUploaded, toDelete,
                 failedDelete, served, unreported>>

(* The one listing the run works from.                                     *)
List(w, files, expected, allowReuse) ==
  /\ pc[w] = "idle"
  /\ Cardinality(files) = expected /\ files # {}
  /\ pc' = [pc EXCEPT ![w] = "upload"]
  /\ todo' = [todo EXCEPT ![w] = files]
  /\ oldSources' = [oldSources EXCEPT ![w] = PackSources]
  /\ reusable' = [reusable EXCEPT ![w] = IF allowReuse THEN ExistsActive ELSE {}]
  /\ result' = [result EXCEPT ![w] = "none"]
  /\ UNCHANGED <<notebook, quarantined, newGeneration, newlyUploaded, toDelete,
                 failedDelete, served, unreported>>

(* The part is taken from the listing, without a second look.              *)
Reuse(w, p, s) ==
  /\ pc[w] = "upload" /\ p \in todo[w]
  /\ s \in reusable[w] /\ title[s] = p
  /\ todo' = [todo EXCEPT ![w] = @ \ {p}]
  /\ newGeneration' = [newGeneration EXCEPT ![w] = @ \cup {s}]
  /\ UNCHANGED <<notebook, quarantined, pc, reusable, oldSources, newlyUploaded,
                 toDelete, failedDelete, result, served, unreported>>

MustUpload(w, p) ==
  /\ pc[w] = "upload" /\ p \in todo[w]
  /\ \A s \in reusable[w] : title[s] # p

(* The service takes the file under a fresh id and starts indexing it.  It *)
(* does not matter which fresh id, so it is always the same one.           *)
Fresh == {s \in SourceIds : status[s] = "unborn"}

Ingest(p, s) ==
  /\ Fresh # {} /\ s = CHOOSE t \in Fresh : TRUE
  /\ status' = [status EXCEPT ![s] = "processing"]
  /\ title' = [title EXCEPT ![s] = p]

(* Mutant: the file name is recorded where the id belongs. *)
UploadRecordsName(w, p, s) ==
  /\ MustUpload(w, p)
  /\ Ingest(p, s)
  /\ todo' = [todo EXCEPT ![w] = @ \ {p}]
  /\ newGeneration' = [newGeneration EXCEPT ![w] = @ \cup {p}]
  /\ newlyUploaded' = [newlyUploaded EXCEPT ![w] = @ \cup {s}]
  /\ UNCHANGED <<quarantined, pc, reusable, oldSources, toDelete, failedDelete,
                 result, served, unreported>>

Upload(w, p, s) ==
  /\ MustUpload(w, p)
  /\ Ingest(p, s)
  /\ todo' = [todo EXCEPT ![w] = @ \ {p}]
  /\ newGeneration' = [newGeneration EXCEPT ![w] = @ \cup {s}]
  /\ newlyUploaded' = [newlyUploaded EXCEPT ![w] = @ \cup {s}]
  /\ UNCHANGED <<quarantined, pc, reusable, oldSources, toDelete, failedDelete,
                 result, served, unreported>>

(* Mutant: the rollback purges reused sources too. *)
StartRollbackOfGeneration(w) ==
  /\ pc' = [pc EXCEPT ![w] = "rollback"]
  /\ toDelete' = [toDelete EXCEPT ![w] = newGeneration[w]]
  /\ UNCHANGED <<quarantined, todo, reusable, oldSources, newGeneration,
                 newlyUploaded, failedDelete, result, served, unreported>>

(* The catch block: purge what this run uploaded.                          *)
StartRollback(w) ==
  /\ pc' = [pc EXCEPT ![w] = "rollback"]
  /\ toDelete' = [toDelete EXCEPT ![w] = newlyUploaded[w]]
  /\ UNCHANGED <<quarantined, todo, reusable, oldSources, newGeneration,
                 newlyUploaded, failedDelete, result, served, unreported>>

(* The upload throws: refused, or its id is missing, unverifiable, or that *)
(* of a source already in hand.                                            *)
UploadFails(w, p) ==
  /\ MustUpload(w, p)
  /\ StartRollback(w)
  /\ UNCHANGED notebook

(* The source is created, but the answer is lost (the CLI is killed after  *)
(* 120 s, or prints no id): the run knows nothing to purge.                *)
UploadAnswerLost(w, p, s) ==
  /\ MustUpload(w, p)
  /\ Ingest(p, s)
  /\ StartRollback(w)

StartPoll(w) ==
  /\ pc[w] = "upload" /\ todo[w] = {}
  /\ pc' = [pc EXCEPT ![w] = "poll"]
  /\ UNCHANGED <<notebook, quarantined, locals, result, served, unreported>>

(* Mutant: the cutover deletes from a fresh listing, so that no source of  *)
(* another writer is left stacked.                                         *)
PollActiveRelisting(w) ==
  /\ pc[w] = "poll"
  /\ \A s \in newGeneration[w] : Ready(s)
  /\ pc' = [pc EXCEPT ![w] = "cutover"]
  /\ toDelete' = [toDelete EXCEPT ![w] = PackSources \ newGeneration[w]]
  /\ served' = newGeneration[w]
  /\ UNCHANGED <<notebook, quarantined, todo, reusable, oldSources, newGeneration,
                 newlyUploaded, failedDelete, result, unreported>>

(* pollFamilyUntilActive returns: the new generation is what is served     *)
(* from now on, and the rest of the old listing is to be deleted.          *)
PollActive(w) ==
  /\ pc[w] = "poll"
  /\ \A s \in newGeneration[w] : Ready(s)
  /\ pc' = [pc EXCEPT ![w] = "cutover"]
  /\ toDelete' = [toDelete EXCEPT ![w] = oldSources[w] \ newGeneration[w]]
  /\ served' = newGeneration[w]
  /\ UNCHANGED <<notebook, quarantined, todo, reusable, oldSources, newGeneration,
                 newlyUploaded, failedDelete, result, unreported>>

PollError(w) ==
  /\ pc[w] = "poll"
  /\ \E s \in newGeneration[w] : status[s] = "error"
  /\ StartRollback(w)
  /\ UNCHANGED notebook

(* The listing of a poll throws, which ends the run like an ERROR does.    *)
PollListFails(w) ==
  /\ pc[w] = "poll"
  /\ StartRollback(w)
  /\ UNCHANGED notebook

(* A source still indexing, or not in the listing: sleep, and look again.  *)
PollInFlight(w) ==
  /\ pc[w] = "poll"
  /\ \E s \in newGeneration[w] : status[s] \in {"processing", "deleted"}
  /\ \A s \in newGeneration[w] : status[s] # "error"
  /\ pc' = [pc EXCEPT ![w] = "wait"]
  /\ UNCHANGED <<notebook, quarantined, locals, result, served, unreported>>

PollAgain(w) ==
  /\ pc[w] = "wait"
  /\ pc' = [pc EXCEPT ![w] = "poll"]
  /\ UNCHANGED <<notebook, quarantined, locals, result, served, unreported>>

(* Mutant: a poll without a deadline. *)
PollTimeoutNever(w) ==
  /\ pc[w] = "wait"
  /\ \A s \in newGeneration[w] : status[s] # "processing"
  /\ StartRollback(w)
  /\ UNCHANGED notebook

(* The deadline passes during the sleep; the sources may be ready by now.  *)
PollTimeout(w) ==
  /\ pc[w] = "wait"
  /\ StartRollback(w)
  /\ UNCHANGED notebook

(* A delete that is answered, be it of a source another writer took away.  *)
Delete(w, s) ==
  /\ pc[w] \in {"cutover", "rollback"}
  /\ s \in toDelete[w]
  /\ status' = [status EXCEPT ![s] = "deleted"]
  /\ toDelete' = [toDelete EXCEPT ![w] = @ \ {s}]
  /\ UNCHANGED <<title, quarantined, pc, todo, reusable, oldSources, newGeneration,
                 newlyUploaded, failedDelete, result, served, unreported>>

(* Every attempt failed: the source is still there, is gone already, or    *)
(* was deleted by an attempt whose answer was lost.  The loop goes on.     *)
DeleteFails(w, s) ==
  /\ pc[w] \in {"cutover", "rollback"}
  /\ s \in toDelete[w]
  /\ status' \in {status, [status EXCEPT ![s] = "deleted"]}
  /\ toDelete' = [toDelete EXCEPT ![w] = @ \ {s}]
  /\ failedDelete' = [failedDelete EXCEPT ![w] = pc[w] = "cutover"]
  /\ UNCHANGED <<title, quarantined, pc, todo, reusable, oldSources, newGeneration,
                 newlyUploaded, result, served, unreported>>

FinishCutover(w) ==
  /\ pc[w] = "cutover" /\ toDelete[w] = {} /\ ~failedDelete[w]
  /\ Leave(w, "success")
  /\ unreported' = FALSE
  /\ UNCHANGED <<notebook, quarantined, served>>

(* PARTIAL_CUTOVER: the ACTIVE replacement is kept, nothing is purged.     *)
PartialCutover(w) ==
  /\ pc[w] = "cutover" /\ toDelete[w] = {} /\ failedDelete[w]
  /\ Leave(w, "partial")
  /\ quarantined' = TRUE
  /\ UNCHANGED <<notebook, served, unreported>>

(* Mutant: a rolled back run does not call the quarantine handler. *)
FinishRollbackSilently(w) ==
  /\ pc[w] = "rollback" /\ toDelete[w] = {}
  /\ Leave(w, "failed")
  /\ UNCHANGED <<notebook, quarantined, served, unreported>>

FinishRollback(w) ==
  /\ pc[w] = "rollback" /\ toDelete[w] = {}
  /\ Leave(w, "failed")
  /\ quarantined' = TRUE
  /\ UNCHANGED <<notebook, served, unreported>>

(* The sweep clears the entry once the call has returned.                  *)
ClearQuarantine(w) ==
  /\ pc[w] = "idle" /\ result[w] = "success" /\ quarantined
  /\ quarantined' = FALSE
  /\ UNCHANGED <<notebook, pc, locals, result, served, unreported>>

(* The process dies between two steps. *)
Crash(w) ==
  /\ pc[w] # "idle"
  /\ Leave(w, "crashed")
  /\ unreported' = TRUE
  /\ UNCHANGED <<notebook, quarantined, served>>

---------------------------------------------------------------------------
(* The service.                                                            *)

Index(s) ==
  /\ status[s] = "processing"
  /\ \E st \in {"active", "unlabelled", "error"} :
       status' = [status EXCEPT ![s] = st]
  /\ UNCHANGED <<title, quarantined, pc, locals, result, served, unreported>>

Begin(w) ==
  \/ ListFails(w)
  \/ \E files \in SUBSET Parts, expected \in ExpectedCounts :
       \/ Reject(w, files, expected)
       \/ \E allowReuse \in ReuseChoices : List(w, files, expected, allowReuse)

Progress(w) ==
  \/ \E p \in Parts :
       \/ UploadFails(w, p)
       \/ \E s \in SourceIds :
            Reuse(w, p, s) \/ Upload(w, p, s) \/ UploadAnswerLost(w, p, s)
  \/ StartPoll(w) \/ PollActive(w) \/ PollError(w) \/ PollListFails(w)
  \/ PollInFlight(w) \/ PollAgain(w) \/ PollTimeout(w)
  \/ \E s \in SourceIds : Delete(w, s) \/ DeleteFails(w, s)
  \/ FinishCutover(w) \/ PartialCutover(w) \/ FinishRollback(w)

Next ==
  \/ \E w \in Writers : Begin(w) \/ Progress(w) \/ ClearQuarantine(w) \/ Crash(w)
  \/ \E s \in SourceIds : Index(s)

Spec == Init /\ [][Next]_vars

(* A started call is scheduled until it ends, and its poll has a deadline. *)
FairSpec ==
  /\ Spec
  /\ \A w \in Writers : WF_vars(Progress(w)) /\ SF_vars(PollTimeout(w))

---------------------------------------------------------------------------
(* Properties.                                                             *)

(* Stage-all-before-drop-any: whatever fails, times out, loses its answer  *)
(* or crashes, a lone writer keeps one complete generation queryable and   *)
(* moves from one to the next in a single step.                            *)
Serving == INSTANCE PackServing WITH shelf <- Shelf
ImplementsServing == Serving!Spec

(* "<=1 logical pack family per notebook -- never stack a second pack":    *)
(* when the last run of every writer succeeded, the pack sources are one   *)
(* generation, with no orphan of an earlier failure or crash beside it.    *)
NeverStackSecondPack ==
  (\A w \in Writers : pc[w] = "idle" /\ result[w] = "success")
    => Complete(PackSources) /\ \A s \in PackSources : title[s] \in Parts

(* Sources a run leaves behind beside the served generation (an old source *)
(* whose delete failed, an upload whose answer was lost, an orphan the     *)
(* rollback could not purge) are never silent: the notebook is quarantined *)
(* unless it is a crash that left them.                                    *)
ResidueIsQuarantined ==
  (\A w \in Writers : pc[w] = "idle") /\ ~unreported /\ PackSources # served
    => quarantined

(* With several writers deleting from listings the others have outdated,   *)
(* every part still has a queryable source once a generation was served.   *)
(* A run that reuses a source takes it from a listing which does not say   *)
(* whether the run that uploaded it has promoted it or will roll it back.  *)
NeverWithoutPack ==
  served # {} => \A p \in Parts : \E s \in Shelf : title[s] = p

(* A call always returns or throws, even if indexing never finishes and    *)
(* deletes never succeed.                                                  *)
EveryRunEnds == \A w \in Writers : pc[w] # "idle" ~> pc[w] = "idle"
=============================================================================

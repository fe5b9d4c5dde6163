------------------------ MODULE ClosedLoopResearch -------------------------
(***************************************************************************)
(* The closed loop research runner (scripts/run-closed-loop-research-v2)   *)
(* with its storage (modules/trm/storage/transaction-manager.mjs).  A run  *)
(* walks over the notebooks, compares the sources listed now with those of *)
(* the saved fingerprint, mines a notebook that has a new source and flags *)
(* the settled facts of a source that is gone.  To mine is to take one     *)
(* text, that of the notebook's gap or of a local file: one row of it goes *)
(* to each of two tables, then the fingerprint is saved with all sources   *)
(* listed, then the cadence, each table with a lock file, a temporary file *)
(* and a rename.  The transaction log is                                   *)
(* written and never read again, so that it is not part of the state, and  *)
(* the generation check compares a number with itself.  A scheduled task   *)
(* (scripts/schedule-task-wrapper-TRM-Triage.ps1) starts runs and chooses  *)
(* their mode; anyone may start others by hand.  One run at a time.        *)
(***************************************************************************)
EXTENDS Naturals, Sequences, FiniteSets

CONSTANTS
  Notebooks,    \* notebook ids, those DOMAIN_DISCOVERY configures
  Order,        \* the canonical notebooks, in the order of a first run
  CadenceKey,   \* the key of cadence_state.json the scheduled task looks for
  Sources,      \* source ids of the remote notebooks
  SourcesOf,    \* the sources a notebook may have
  DiskIds,      \* ids of local files, which stand in for the sources
  Disk,         \* local files found for a notebook, with text to mine
  WithPrefix,   \* notebooks whose configuration names a prefix of gaps
  MaxChanges,   \* bound: sources added or removed, gaps written or dropped
  MaxCrashes    \* bound: runs that die

ASSUME LoopAssumption ==
  /\ IsFiniteSet(Notebooks) /\ IsFiniteSet(Sources) /\ IsFiniteSet(DiskIds)
  /\ Sources \cap DiskIds = {}
  /\ Order \in Seq(Notebooks) /\ CadenceKey \notin Notebooks
  /\ SourcesOf \in [Notebooks -> SUBSET Sources]
  /\ \A m, n \in Notebooks : m # n => SourcesOf[m] \cap SourcesOf[n] = {}
  /\ Disk \in [Notebooks -> SUBSET DiskIds]
  /\ WithPrefix \subseteq Notebooks
  /\ MaxChanges \in Nat /\ MaxCrashes \in Nat

Ids == Sources \cup DiskIds
Tables == {"facts", "spans", "hashes", "fingerprints", "cadence"}

VARIABLES
  live,        \* the remote notebooks: their sources now
  gaps,        \* trm-research-gaps.md: notebooks one of its gaps is for
  fp,          \* notebook_fingerprints.json: source_ids of each notebook
  keys,        \* likewise: its keys, in the order they were inserted
  cadence,     \* cadence_state.json: age of the last delta of each notebook
  flagged,     \* settled_facts.json: sources whose facts are EVIDENCE_REMOVED
  spans,       \* promoted_spans.json: the source_id of each row
  hashes,      \* mined_paragraph_hashes.json: notebooks of the paragraphs
  stuck,       \* tables with a young lock file of a run that died
  pc, mode,    \* the run: where it is, and its mode
  walk, at,    \* its notebooks, and its position among them
  list,        \* the listing in hand
  mined,       \* history: ids in a listing both tables got a row for
  known,       \* history: ids that were in a saved fingerprint
  gone,        \* history: sources that were removed
  replaced,    \* history: ids that left a fingerprint in exchange for others
  late,        \* history: sources added to an idle notebook, not taken up yet
  changes, crashes

files == <<fp, keys, cadence, flagged, spans, hashes>>
run == <<pc, mode, walk, at, list>>
ghosts == <<mined, known, gone, replaced, late>>
vars == <<live, gaps, files, stuck, run, ghosts, changes, crashes>>

Init ==
  /\ live = [n \in Notebooks |-> {}] /\ gaps \in SUBSET WithPrefix
  /\ fp = [n \in Notebooks |-> {}]
  /\ keys = <<>> /\ cadence = [n \in Notebooks |-> "none"]
  /\ flagged = {} /\ spans = {} /\ hashes = {} /\ stuck = {}
  /\ pc = "off" /\ mode = "active" /\ walk = <<>> /\ at = 0 /\ list = {}
  /\ mined = {} /\ known = {} /\ gone = {} /\ replaced = {} /\ late = {}
  /\ changes = 0 /\ crashes = 0

Nb == walk[at]

(* evaluateSourceDelta *)
Removed(cached, current) == cached \ current
Added(cached, current) == current \ cached
DeltaOfNumbers(cached, current) ==                                \* mutant
  IF Removed(cached, current) # {} /\ Added(cached, current) = {} THEN "deleted"
  ELSE IF Cardinality(cached) # Cardinality(current) THEN "detected" ELSE "none"
Delta(cached, current) ==
  IF Removed(cached, current) # {} /\ Added(cached, current) = {} THEN "deleted"
  ELSE IF cached # current THEN "detected" ELSE "none"

(* The table the step at a program counter writes, under its lock file. *)
TableAt ==
  [p \in {"cascade", "spans", "hashes", "save", "forget", "cadence", "demote"} |->
     CASE p = "cascade" -> "facts"
       [] p \in {"save", "forget"} -> "fingerprints"
       [] p \in {"cadence", "demote"} -> "cadence"
       [] OTHER -> p]

(* atomicWriteJson gets through: no lock file, or one that is old enough. *)
MayWrite(p) == pc = p /\ TableAt[p] \notin stuck
-----------------------------------------------------------------------------
Begin(m, notebooks) ==
  /\ pc = "off"
  /\ pc' = "visit" /\ mode' = m /\ walk' = notebooks /\ at' = 1
  /\ UNCHANGED <<live, gaps, files, stuck, list, ghosts, changes, crashes>>

(* As soon as there is one fingerprint, the notebooks are those with one. *)
Start(m) == Begin(m, IF keys = <<>> THEN Order ELSE keys)

(* --notebook *)
StartOn(n) == Begin("target", <<n>>)

(* The scheduled task looks for the time of the last delta at the top level *)
(* of the cadence file, where the runner keeps an entry for each notebook.  *)
ScheduledMode ==
  IF \E n \in Notebooks : n = CadenceKey /\ cadence[n] = "idle" THEN "weekly" ELSE "active"

Schedule == Start(ScheduledMode)

(* The run is over, at its end or by an exception. *)
End == pc' = "off" /\ walk' = <<>> /\ at' = 0 /\ list' = {}

Finish ==
  /\ pc = "visit" /\ at > Len(walk) /\ End
  /\ UNCHANGED <<live, gaps, files, stuck, mode, ghosts, changes, crashes>>

Idle(n) == cadence[n] = "idle"

(* Active runs leave an idle notebook to the weekly runs, and these leave *)
(* the others to the active runs.                                         *)
Visit ==
  /\ pc = "visit" /\ at <= Len(walk)
  /\ \/ /\ mode = "active" /\ Idle(Nb)
        /\ pc' = "demote" /\ at' = at
     \/ /\ mode = "weekly" /\ ~Idle(Nb)
        /\ pc' = "visit" /\ at' = at + 1
     \/ /\ mode = "target" \/ ((mode = "weekly") <=> Idle(Nb))
        /\ pc' = "list" /\ at' = at
  /\ UNCHANGED <<live, gaps, files, stuck, mode, walk, list, ghosts, changes, crashes>>

(* The demotion writes the cadence file; the time of the last delta stays. *)
Demote ==
  /\ MayWrite("demote")
  /\ pc' = "visit" /\ at' = at + 1
  /\ UNCHANGED <<live, gaps, files, stuck, mode, walk, list, ghosts, changes, crashes>>

(* The gate compares the listing with the fingerprint. *)
Compare(listing) ==
  LET delta == Delta(fp[Nb], listing)
  IN  /\ pc' = CASE delta = "none" -> "visit"
                 [] delta = "deleted" -> "cascade"
                 [] OTHER -> "evaluate"
      /\ at' = IF delta = "none" THEN at + 1 ELSE at
      /\ list' = IF delta = "none" THEN {} ELSE listing
      /\ UNCHANGED <<live, gaps, files, stuck, mode, walk, ghosts, changes, crashes>>

(* The remote listing; an empty one counts as a failure. *)
ListRemote(n) == pc = "list" /\ Nb = n /\ live[n] # {} /\ Compare(live[n])

(* The listing fails: local files stand in for the sources. *)
ListLocal == pc = "list" /\ Disk[Nb] # {} /\ Compare(Disk[Nb])

(* Without local files the exception ends the whole run. *)
ListNothingGoesOn ==                                              \* mutant
  /\ pc = "list" /\ Disk[Nb] = {}
  /\ at' = at + 1
  /\ UNCHANGED <<live, gaps, files, stuck, pc, mode, walk, list, ghosts, changes, crashes>>
ListNothing ==
  /\ pc = "list" /\ Disk[Nb] = {} /\ End
  /\ UNCHANGED <<live, gaps, files, stuck, mode, ghosts, changes, crashes>>

(* cascadeSourceDeletion, then the fingerprint forgets the sources. *)
FactsOfListed == list                                             \* mutant
FactsToFlag == Removed(fp[Nb], list)

Cascade ==
  /\ MayWrite("cascade")
  /\ flagged' = flagged \cup FactsToFlag
  /\ pc' = "forget"
  /\ UNCHANGED <<live, gaps, fp, keys, cadence, spans, hashes, stuck, mode, walk, at, list,
                 ghosts, changes, crashes>>

Forget ==
  /\ MayWrite("forget")
  /\ fp' = [fp EXCEPT ![Nb] = list]
  /\ pc' = "visit" /\ at' = at + 1 /\ list' = {}
  /\ UNCHANGED <<live, gaps, keys, cadence, flagged, spans, hashes, stuck, mode, walk, ghosts,
                 changes, crashes>>

(* getRealGapForNotebook finds a text: a gap of the registry, or a local    *)
(* file, whatever was listed.                                              *)
Grounded(n) == n \in gaps \/ Disk[n] # {}

(* The answer of dispatchEvaluator, which never throws, is not used.       *)
Evaluate ==
  /\ pc = "evaluate" /\ Grounded(Nb) /\ pc' = "spans"
  /\ UNCHANGED <<live, gaps, files, stuck, mode, walk, at, list, ghosts, changes, crashes>>

(* Without a text the exception ends the whole run.                        *)
NoGap ==
  /\ pc = "evaluate" /\ ~Grounded(Nb) /\ End
  /\ UNCHANGED <<live, gaps, files, stuck, mode, ghosts, changes, crashes>>

(* commitTransaction writes one table after the other.  The span names the *)
(* source that comes first in the listing, whichever that is, and the      *)
(* paragraph names the notebook: no row is about the other sources listed. *)
CommitSpans ==
  /\ MayWrite("spans")
  /\ \E first \in list : spans' = spans \cup {first}
  /\ pc' = "hashes"
  /\ UNCHANGED <<live, gaps, fp, keys, cadence, flagged, hashes, stuck, mode, walk, at,
                 list, ghosts, changes, crashes>>

CommitHashes ==
  /\ MayWrite("hashes")
  /\ hashes' = hashes \cup {Nb}
  /\ mined' = mined \cup list
  /\ pc' = "save"
  /\ UNCHANGED <<live, gaps, fp, keys, cadence, flagged, spans, stuck, mode, walk, at,
                 list, known, gone, replaced, late, changes, crashes>>

(* The sources that were listed, not those the notebook has by now. *)
SourcesNow == live[Nb]                                            \* mutant
SourcesListed == list

SaveFingerprint ==
  /\ MayWrite("save")
  /\ fp' = [fp EXCEPT ![Nb] = SourcesListed]
  /\ keys' = IF fp[Nb] = {} THEN Append(keys, Nb) ELSE keys
  /\ known' = known \cup SourcesListed
  /\ replaced' = replaced \cup Removed(fp[Nb], SourcesListed)
  /\ late' = late \ SourcesListed
  /\ pc' = "cadence"
  /\ UNCHANGED <<live, gaps, cadence, flagged, spans, hashes, stuck, mode, walk, at, list,
                 mined, gone, changes, crashes>>

SaveCadence ==
  /\ MayWrite("cadence")
  /\ cadence' = [cadence EXCEPT ![Nb] = "recent"]
  /\ pc' = "visit" /\ at' = at + 1 /\ list' = {}
  /\ UNCHANGED <<live, gaps, fp, keys, flagged, spans, hashes, stuck, mode, walk, ghosts,
                 changes, crashes>>

(* A young lock file outlasts the five seconds of acquireLock. *)
LockTimesOut ==
  /\ pc \in DOMAIN TableAt /\ ~MayWrite(pc) /\ End
  /\ UNCHANGED <<live, gaps, files, stuck, mode, ghosts, changes, crashes>>

(* A run that dies in a write may leave its lock file behind. *)
Die ==
  /\ pc \in DOMAIN TableAt /\ crashes < MaxCrashes
  /\ crashes' = crashes + 1
  /\ stuck' \in {stuck, stuck \cup {TableAt[pc]}}
  /\ End
  /\ UNCHANGED <<live, gaps, files, mode, ghosts, changes>>

(* Lock files become older than 30 seconds. *)
LocksAge ==
  /\ stuck # {} /\ stuck' = {}
  /\ UNCHANGED <<live, gaps, files, run, ghosts, changes, crashes>>
-----------------------------------------------------------------------------
(* External: sources come and go, gaps are written, 72 hours pass. *)
Add(n, s) ==
  /\ s \in SourcesOf[n] \ live[n] /\ changes < MaxChanges
  /\ live' = [live EXCEPT ![n] = @ \cup {s}]
  /\ late' = IF Idle(n) THEN late \cup {s} ELSE late
  /\ changes' = changes + 1
  /\ UNCHANGED <<gaps, files, stuck, run, mined, known, gone, replaced, crashes>>

Delete(n, s) ==
  /\ s \in live[n] /\ changes < MaxChanges
  /\ live' = [live EXCEPT ![n] = @ \ {s}]
  /\ gone' = gone \cup {s} /\ late' = late \ {s}
  /\ changes' = changes + 1
  /\ UNCHANGED <<gaps, files, stuck, run, mined, known, replaced, crashes>>

(* The gaps of a notebook are written to the registry, or dropped from it. *)
EditRegistry(n) ==
  /\ n \in WithPrefix /\ changes < MaxChanges
  /\ gaps' = IF n \in gaps THEN gaps \ {n} ELSE gaps \cup {n}
  /\ changes' = changes + 1
  /\ UNCHANGED <<live, files, stuck, run, ghosts, crashes>>

BecomeIdle(n) ==
  /\ cadence[n] = "recent"
  /\ cadence' = [cadence EXCEPT ![n] = "idle"]
  /\ UNCHANGED <<live, gaps, fp, keys, flagged, spans, hashes, stuck, run, ghosts, changes,
                 crashes>>

Step ==
  \/ Finish \/ Visit \/ Demote \/ ListLocal \/ ListNothing \/ Cascade \/ Forget
  \/ Evaluate \/ NoGap \/ CommitSpans \/ CommitHashes \/ SaveFingerprint \/ SaveCadence
  \/ LockTimesOut \/ \E n \in Notebooks : ListRemote(n)

Next ==
  \/ Step \/ Die \/ LocksAge
  \/ \E m \in {"active", "weekly"} : Start(m)
  \/ \E n \in Notebooks, s \in Sources : Add(n, s) \/ Delete(n, s)
  \/ \E n \in Notebooks : BecomeIdle(n) \/ StartOn(n) \/ EditRegistry(n)

(* The task is scheduled again and again, a run goes on, lock files age, and *)
(* the remote listing works now and then in such a run.  Runs by hand need   *)
(* not happen.                                                               *)
Fairness ==
  /\ WF_vars(Step) /\ WF_vars(LocksAge) /\ SF_vars(Schedule)
  /\ \A n \in Notebooks : SF_vars(mode # "target" /\ ListRemote(n))

Spec == Init /\ [][Next]_vars /\ Fairness
-----------------------------------------------------------------------------
TypeOK ==
  /\ live \in [Notebooks -> SUBSET Sources] /\ gaps \subseteq WithPrefix
  /\ fp \in [Notebooks -> SUBSET Ids]
  /\ keys \in Seq(Notebooks) /\ walk \in Seq(Notebooks)
  /\ cadence \in [Notebooks -> {"none", "recent", "idle"}] /\ flagged \subseteq Ids
  /\ spans \subseteq Ids /\ hashes \subseteq Notebooks /\ stuck \subseteq Tables
  /\ pc \in {"off", "visit", "list", "evaluate"} \cup DOMAIN TableAt
  /\ mode \in {"active", "weekly", "target"}
  /\ at \in 0 .. Len(walk) + 1
  /\ (at = 0) <=> (pc = "off")
  /\ at = Len(walk) + 1 => pc = "visit"
  /\ list \subseteq Ids
  /\ mined \subseteq Ids /\ known \subseteq Ids /\ gone \subseteq Sources
  /\ replaced \subseteq Ids /\ late \subseteq Sources
  /\ changes \in 0 .. MaxChanges /\ crashes \in 0 .. MaxCrashes

(* The fingerprint remembers a source only if a run has written both       *)
(* tables for a listing with that source in it, wherever runs died and     *)
(* whatever was added while they ran: otherwise the gate would pass the    *)
(* source over without any run having mined its notebook.  No more than    *)
(* this can be said of the single source: the rows are one text of the     *)
(* notebook under the name of the source listed first, and the fingerprint *)
(* then remembers all that were listed.                                    *)
MinedBeforeRemembered ==
  \A n \in Notebooks :
    /\ fp[n] \subseteq mined
    /\ fp[n] # {} => n \in hashes /\ spans \cap (SourcesOf[n] \cup Disk[n]) # {}

(* The facts of a source are flagged when the fingerprint has forgotten it, *)
(* except for a source that others replaced in one delta (those are never   *)
(* flagged); and no fact is flagged whose source was never removed, however *)
(* often the listing failed and local files stood in for it.                *)
FactsFollowRemovals ==
  /\ known \ UNION {fp[n] : n \in Notebooks} \subseteq flagged \cup replaced
  /\ flagged \cap Sources \subseteq gone

(* A notebook with a fingerprint at which every run ends by an exception:  *)
(* it has no local file, and either no source is left to list, or there is *)
(* one to mine and no gap to mine it for.                                  *)
EndsRuns(n) ==
  /\ fp[n] # {} /\ Disk[n] = {}
  /\ live[n] = {} \/ (~Grounded(n) /\ Delta(fp[n], live[n]) = "detected")

(* A source that stays in a notebook with a fingerprint gets into the      *)
(* fingerprint, and so (MinedBeforeRemembered) makes the notebook be mined *)
(* again: no crash, lock file or failed listing makes the gate forget it,  *)
(* as long as the notebook is not idle and none is such that every run     *)
(* ends there.  The last exception is the code's: one notebook whose gaps  *)
(* were dropped from the registry, or whose sources are all gone, keeps    *)
(* the notebooks behind it from ever being visited.                        *)
AddedIsTakenUp ==
  \A n \in Notebooks : \A s \in SourcesOf[n] :
    s \in live[n] /\ fp[n] # {} ~>
      s \notin live[n] \/ s \in fp[n] \/ Idle(n) \/ \E m \in Notebooks : EndsRuns(m)

(* "Active mode demotes > 72h idle to weekly delta mode": a source that is *)
(* added when its notebook is idle is still taken up, by a weekly run.     *)
DemotedIsTakenUp ==
  \A n \in Notebooks : \A s \in SourcesOf[n] :
    s \in late ~> s \notin late \/ \E m \in Notebooks : EndsRuns(m)
=============================================================================

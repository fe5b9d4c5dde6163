--------------------------- MODULE DriveExchange ---------------------------
(***************************************************************************)
(* The exchange of research gaps with remote agents over a shared drive:   *)
(* scripts/trm-export-gaps.mjs puts a card out for every open gap, agents  *)
(* claim cards with lease files and drop findings, and                     *)
(* scripts/trm-ingest-drive.mjs appends each finding to the RFC of its gap,*)
(* marks its row in the registry, archives the finding and the card and    *)
(* removes the lease.  The RFC and the registry are written in place       *)
(* (truncated, then filled) and a run may die between any two steps.  One  *)
(* ingest runs at a time and one export, which may overlap with it.        *)
(***************************************************************************)
EXTENDS Integers, Sequences, FiniteSets, Functions

CONSTANTS
  Gaps,          \* gap ids
  Findings,      \* contents of findings: equal bodies have equal finding ids
  Valid,         \* the findings validateFinding accepts
  Gap,           \* the gap a finding is about
  Terminated,    \* the finding the pre-research gate writes for a gap
  Files,         \* file names in 03_grok_completed
  FindingsFile,  \* <gap>-findings.md: the gate's name and the playbook's
  Prefixed,      \* the gap ids that start with a gap's id, its own included
  NoFinding,     \* no file
  MaxDrops,      \* bound: findings dropped by agents
  MaxCrashes     \* bound: runs that die

ASSUME ExchangeAssumption ==
  /\ IsFiniteSet(Gaps) /\ IsFiniteSet(Findings) /\ IsFiniteSet(Files)
  /\ Valid \subseteq Findings /\ NoFinding \notin Findings
  /\ Gap \in [Findings -> Gaps]
  /\ Terminated \in [Gaps -> Valid]
  /\ \A g \in Gaps : Gap[Terminated[g]] = g
  /\ FindingsFile \in [Gaps -> Files]
  /\ Prefixed \in [Gaps -> SUBSET Gaps]
  /\ \A g \in Gaps : g \in Prefixed[g]
  /\ MaxDrops \in Nat /\ MaxCrashes \in Nat

VARIABLES
  card,       \* 01_actionable_gaps: the card of each gap
  lease,      \* _locks: gaps an agent works on
  inbox,      \* 03_grok_completed: finding in each file, and its own ready mark
  sidecars,   \* 03_grok_completed: files with a .ready file beside them
  archived,   \* 04_archive/completed: findings moved there
  rfc,        \* evidence blocks in the RFC of each gap
  row,        \* trm-research-gaps.md: the line of each gap
  pc,         \* where the ingest run is
  todo,       \* files the run has listed and not looked at yet
  job,        \* the finding in hand, and what was read for it
  gated,      \* gaps whose card the export is about to unlink
  lost,       \* history: findings in an RFC that a dying run left empty
  unmarked,   \* history: gaps for which a run died before it marked a row
  swapped,    \* history: findings archived in the place of another
  drops, crashes

vars == <<card, lease, inbox, sidecars, archived, rfc, row, pc, todo, job,
          gated, lost, unmarked, swapped, drops, crashes>>
drive == <<card, lease, inbox, sidecars, archived>>
ghosts == <<lost, unmarked, swapped>>

NoFile == [what |-> NoFinding, ready |-> FALSE]
NoJob == [file |-> NoFinding, what |-> NoFinding, side |-> FALSE,
          saw |-> <<>>, rows |-> [g \in Gaps |-> "none"]]

(* A line of the registry: a table row `| GAP-03 | ...`, without or with   *)
(* the needs_review mark; a list line `- [ ] [GAP-03] **...`, which the    *)
(* export reads as well and updateRegistryRow does not recognise; no line. *)
(* "lost" is what is left of any line when the file was truncated.         *)
Lines == {"table", "marked", "list", "none", "lost"}

Init ==
  /\ card = [g \in Gaps |-> "none"] /\ lease = {}
  /\ inbox = [n \in Files |-> NoFile] /\ sidecars = {} /\ archived = {}
  /\ rfc = [g \in Gaps |-> <<>>]
  /\ row \in [Gaps -> {"table", "list", "none"}]
  /\ pc = "idle" /\ todo = {} /\ job = NoJob /\ gated = {}
  /\ lost = {} /\ unmarked = {} /\ swapped = {} /\ drops = 0 /\ crashes = 0

There(n) == inbox[n] # NoFile
G == Gap[job.what]     \* the gap of the finding in hand

(* detectReadySignal: a sidecar, or a mark in the file or in its name. *)
Signalled(n) == n \in sidecars \/ inbox[n].ready

(* The RFC holds the marker of this finding already. *)
KnownByArchive(f) == f \in archived                              \* mutant
Known(f) == f \in Range(rfc[Gap[f]])

(* A registry without a line for any gap does as a missing one does.       *)
Registry == \E g \in Gaps : row[g] # "none"

(* updateRegistryRow marks the gap's table row if it is not marked, and    *)
(* leaves every other line as it is, the gap's list line included.         *)
MarkMarkedRow(rows, g) ==                                        \* mutant
  [rows EXCEPT ![g] = IF @ = "marked" THEN "marked" ELSE @]
MarkRow(rows, g) == [rows EXCEPT ![g] = IF @ = "table" THEN "marked" ELSE @]

(* The evidence block goes to the end of what was read. *)
WithFileName(saw, f) == Append(saw, job.file)                    \* mutant
WithEvidence(saw, f) == Append(saw, f)
-----------------------------------------------------------------------------
(* The ingest lists the files and waits for the debounce time. *)
List ==
  /\ pc = "idle"
  /\ todo' = {n \in Files : There(n)}
  /\ pc' = "next"
  /\ UNCHANGED <<drive, rfc, row, job, gated, ghosts, drops, crashes>>

Take(n, next) ==
  /\ pc = "next" /\ n \in todo
  /\ todo' = todo \ {n}
  /\ job' = [file |-> n, what |-> inbox[n].what, side |-> n \in sidecars,
             saw |-> rfc[Gap[inbox[n].what]], rows |-> NoJob.rows]
  /\ pc' = next
  /\ UNCHANGED <<drive, rfc, row, gated, ghosts, drops, crashes>>

PassOver(n) ==
  /\ pc = "next" /\ n \in todo /\ ~Signalled(n)
  /\ todo' = todo \ {n}
  /\ UNCHANGED <<drive, rfc, row, pc, job, gated, ghosts, drops, crashes>>

TakeInvalid(n) == Signalled(n) /\ inbox[n].what \notin Valid /\ Take(n, "reject")
KnownIsLeft(n) ==                                                \* mutant
  /\ pc = "next" /\ n \in todo /\ inbox[n].what \in Valid /\ Known(inbox[n].what)
  /\ todo' = todo \ {n}
  /\ UNCHANGED <<drive, rfc, row, pc, job, gated, ghosts, drops, crashes>>
TakeKnown(n) ==
  Signalled(n) /\ inbox[n].what \in Valid /\ Known(inbox[n].what) /\ Take(n, "skip")
TakeNew(n) ==
  Signalled(n) /\ inbox[n].what \in Valid /\ ~Known(inbox[n].what) /\ Take(n, "write")

(* writeFileSync of the RFC: first empty, then whole. *)
Truncate ==
  /\ pc = "write" /\ pc' = "fill"
  /\ rfc' = [rfc EXCEPT ![G] = <<>>]
  /\ UNCHANGED <<drive, row, todo, job, gated, ghosts, drops, crashes>>

Fill ==
  /\ pc = "fill" /\ pc' = "mark"
  /\ rfc' = [rfc EXCEPT ![G] = WithEvidence(job.saw, job.what)]
  /\ UNCHANGED <<drive, row, todo, job, gated, ghosts, drops, crashes>>

(* updateRegistryRow returns at once if there is no registry. *)
SkipRegistry ==
  /\ pc = "mark" /\ ~Registry /\ pc' = "archive"
  /\ UNCHANGED <<drive, rfc, row, todo, job, gated, ghosts, drops, crashes>>

(* writeFileSync of the registry: every line goes, then all come back. *)
OpenRegistry ==
  /\ pc = "mark" /\ Registry /\ pc' = "marking"
  /\ job' = [job EXCEPT !.rows = row]
  /\ row' = [g \in Gaps |-> IF row[g] = "none" THEN "none" ELSE "lost"]
  /\ UNCHANGED <<drive, rfc, todo, gated, ghosts, drops, crashes>>

FillRegistry ==
  /\ pc = "marking" /\ pc' = "archive"
  /\ row' = MarkRow(job.rows, G)
  /\ unmarked' = unmarked \ {G}
  /\ UNCHANGED <<drive, rfc, todo, job, gated, lost, swapped, drops, crashes>>

(* renameSync moves whatever the file holds by now. *)
Archive ==
  /\ pc \in {"archive", "skip"}
  /\ pc' = IF pc = "skip" THEN "skipped" ELSE "moved"
  /\ inbox' = [inbox EXCEPT ![job.file] = NoFile]
  /\ archived' = archived \cup {inbox[job.file].what}
  /\ swapped' = swapped \cup ({inbox[job.file].what} \ {job.what})
  /\ UNCHANGED <<card, lease, sidecars, rfc, row, todo, job, gated, lost,
                 unmarked, drops, crashes>>

(* The archive of rejected findings is not read again: it is left out. *)
Reject ==
  /\ pc = "reject" /\ pc' = "skipped"
  /\ inbox' = [inbox EXCEPT ![job.file] = NoFile]
  /\ UNCHANGED <<card, lease, sidecars, archived, rfc, row, todo, job, gated,
                 ghosts, drops, crashes>>

(* The sidecar goes if it was there when the file was read. *)
DropSidecar ==
  /\ pc \in {"moved", "skipped"}
  /\ pc' = IF pc = "moved" THEN "card" ELSE "next"
  /\ sidecars' = IF job.side THEN sidecars \ {job.file} ELSE sidecars
  /\ job' = IF pc = "moved" THEN job ELSE NoJob
  /\ UNCHANGED <<card, lease, inbox, archived, rfc, row, todo, gated, ghosts,
                 drops, crashes>>

ArchiveCard ==
  /\ pc = "card" /\ pc' = "release"
  /\ card' = [card EXCEPT ![G] = "none"]
  /\ UNCHANGED <<lease, inbox, sidecars, archived, rfc, row, todo, job, gated,
                 ghosts, drops, crashes>>

(* Every lock file whose name starts with the gap id goes. *)
Release ==
  /\ pc = "release" /\ pc' = "next"
  /\ lease' = lease \ Prefixed[G]
  /\ job' = NoJob
  /\ UNCHANGED <<card, inbox, sidecars, archived, rfc, row, todo, gated,
                 ghosts, drops, crashes>>

Done ==
  /\ pc = "next" /\ todo = {} /\ pc' = "idle"
  /\ UNCHANGED <<drive, rfc, row, todo, job, gated, ghosts, drops, crashes>>

(* The run dies; what it had written stays. *)
Die ==
  /\ pc \notin {"idle", "next"} /\ crashes < MaxCrashes
  /\ crashes' = crashes + 1
  /\ pc' = "idle" /\ todo' = {} /\ job' = NoJob
  /\ lost' = IF pc = "fill" THEN lost \cup Range(job.saw) ELSE lost
  /\ unmarked' = IF pc = "mark" THEN unmarked \cup {G} ELSE unmarked
  /\ UNCHANGED <<drive, rfc, row, gated, swapped, drops>>

Ingest ==
  \/ List \/ Truncate \/ Fill \/ SkipRegistry \/ OpenRegistry \/ FillRegistry
  \/ Archive \/ Reject \/ DropSidecar \/ ArchiveCard \/ Release \/ Done
  \/ \E n \in Files : PassOver(n) \/ TakeInvalid(n) \/ TakeKnown(n) \/ TakeNew(n)
-----------------------------------------------------------------------------
(* The pre-research gate writes a finding over the file of that name and *)
(* then removes the card it rejects.                                     *)
Gate(g) ==
  /\ card[g] = "corrupt" /\ g \notin gated
  /\ inbox' = [inbox EXCEPT ![FindingsFile[g]] = [what |-> Terminated[g], ready |-> TRUE]]
  /\ gated' = gated \cup {g}
  /\ UNCHANGED <<card, lease, sidecars, archived, rfc, row, pc, todo, job,
                 ghosts, drops, crashes>>

UnlinkCard(g) ==
  /\ g \in gated
  /\ card' = [card EXCEPT ![g] = "none"]
  /\ gated' = gated \ {g}
  /\ UNCHANGED <<lease, inbox, sidecars, archived, rfc, row, pc, todo, job,
                 ghosts, drops, crashes>>

(* A card for a gap with a line, a table row or a list line, without a     *)
(* card and without a lock file whose name starts with its id.  The mark   *)
(* behind a row's last bar does not close the gap.                         *)
Export(g) ==
  /\ row[g] \in {"table", "marked", "list"} /\ card[g] = "none" /\ g \notin gated
  /\ lease \cap Prefixed[g] = {}
  /\ card' = [card EXCEPT ![g] = "whole"]
  /\ UNCHANGED <<lease, inbox, sidecars, archived, rfc, row, pc, todo, job,
                 gated, ghosts, drops, crashes>>
-----------------------------------------------------------------------------
(* External: the agents and the drive. *)
Claim(g) ==
  /\ card[g] # "none" /\ g \notin lease
  /\ lease' = lease \cup {g}
  /\ UNCHANGED <<card, inbox, sidecars, archived, rfc, row, pc, todo, job,
                 gated, ghosts, drops, crashes>>

(* A finding for any gap, with or without a card or a line, and any number *)
(* of times: nothing in the ingest asks for either.                        *)
Drop(n, f, r) ==
  /\ ~There(n) /\ drops < MaxDrops
  /\ inbox' = [inbox EXCEPT ![n] = [what |-> f, ready |-> r]]
  /\ drops' = drops + 1
  /\ UNCHANGED <<card, lease, sidecars, archived, rfc, row, pc, todo, job,
                 gated, ghosts, crashes>>

Signal(n) ==
  /\ There(n) /\ ~Signalled(n)
  /\ sidecars' = sidecars \cup {n}
  /\ UNCHANGED <<card, lease, inbox, archived, rfc, row, pc, todo, job, gated,
                 ghosts, drops, crashes>>

Corrupt(g) ==
  /\ card[g] = "whole"
  /\ card' = [card EXCEPT ![g] = "corrupt"]
  /\ UNCHANGED <<lease, inbox, sidecars, archived, rfc, row, pc, todo, job,
                 gated, ghosts, drops, crashes>>

Next ==
  \/ Ingest \/ Die
  \/ \E g \in Gaps : Gate(g) \/ UnlinkCard(g) \/ Export(g) \/ Claim(g) \/ Corrupt(g)
  \/ \E n \in Files, f \in Findings, r \in BOOLEAN : Drop(n, f, r)
  \/ \E n \in Files : Signal(n)

(* The scheduled task starts the ingest again and again, and a started run *)
(* goes on until it ends or dies.  Nothing else has to happen.             *)
Spec == Init /\ [][Next]_vars /\ WF_vars(Ingest)
-----------------------------------------------------------------------------
TypeOK ==
  /\ card \in [Gaps -> {"none", "whole", "corrupt"}]
  /\ lease \subseteq Gaps
  /\ inbox \in [Files -> [what : Findings \cup {NoFinding}, ready : BOOLEAN]]
  /\ sidecars \subseteq Files /\ todo \subseteq Files
  /\ archived \subseteq Findings
  /\ \A g \in Gaps : \A i \in DOMAIN rfc[g] : rfc[g][i] \in Findings /\ Gap[rfc[g][i]] = g
  /\ row \in [Gaps -> Lines]
  /\ gated \subseteq Gaps /\ unmarked \subseteq Gaps
  /\ lost \subseteq Findings /\ swapped \subseteq Findings
  /\ drops \in 0 .. MaxDrops /\ crashes \in 0 .. MaxCrashes
  /\ (job = NoJob) <=> pc \in {"idle", "next"}

(* A finding that was archived as completed has its evidence in the RFC of *)
(* its gap, and no finding has it twice, however often it is delivered and *)
(* wherever a run dies.  The exceptions are an RFC a dying run left empty, *)
(* and a file the gate wrote over while its finding was being ingested.    *)
(* The marker in the RFC is the only memory the ingest has.                *)
EvidenceKeptOnce ==
  /\ \A f \in archived \ swapped :
       \/ f \in Range(rfc[Gap[f]])
       \/ f \in lost
       \/ pc = "fill" /\ f \in Range(job.saw)
  /\ \A g \in Gaps : IsInjective(rfc[g])

(* A gap with evidence and a table row in the registry is marked there for *)
(* review, the mark is being written, or a run died exactly between the    *)
(* two writes: the next run then takes the finding for known and never     *)
(* marks the row.  Of the other gaps nothing can be said: with a list line *)
(* (as all gaps of trm-research-gaps.md have), without a line or without a *)
(* registry the evidence goes into the RFC and no mark is made anywhere.   *)
EvidenceIsUpForReview ==
  \A g \in Gaps :
    rfc[g] # <<>> /\ row[g] = "table" =>
      g \in unmarked \/ (pc \in {"mark", "fill"} /\ G = g)

(* A file whose ready signal stays does not stay itself: some run takes    *)
(* the finding, whatever runs died on it, or the gate writes another one   *)
(* into its place.  The signal need not stay: a run removes the sidecar of *)
(* a file it has archived even when a new file has that name by now.       *)
SignalledIsConsumed ==
  \A n \in Files : \A f \in Findings :
    (inbox[n].what = f /\ Signalled(n)) ~> (inbox[n].what # f \/ ~Signalled(n))
=============================================================================

------------------------ MODULE DriveExchangeProofs ------------------------
(***************************************************************************)
(* Proofs about the drive exchange, for any gaps, findings, file names and *)
(* bounds: what was archived as completed has its evidence once, and a gap *)
(* with evidence and a table row is marked for review, with the exceptions *)
(* the properties name.                                                    *)
(***************************************************************************)
EXTENDS DriveExchange, TLAPS

Rows == [Gaps -> Lines]
Jobs == [file : Files \cup {NoFinding}, what : Findings \cup {NoFinding},
         side : BOOLEAN, saw : Seq(Findings), rows : Rows]

(* Steps at which the run has a finding in hand, the last ones of them     *)
(* after its file was moved away.                                          *)
BeforeArchive == {"reject", "skip", "write", "fill", "mark", "marking", "archive"}
InHand == BeforeArchive \cup {"moved", "skipped", "card", "release"}

(* Every file has a finding in it, also those the run has listed. *)
InboxInv ==
  /\ \A n \in Files : There(n) => inbox[n].what \in Findings
  /\ \A n \in todo : There(n)

(* What the run holds.  The finding in hand is in its file until it is     *)
(* archived, and what was read of an RFC is about the gap of that finding. *)
JobInv ==
  /\ pc \in {"idle", "next"} \cup InHand
  /\ job \in Jobs /\ rfc \in [Gaps -> Seq(Findings)]
  /\ pc \in InHand => job.file \in Files \ todo /\ job.what \in Findings
  /\ pc \in BeforeArchive => There(job.file)
  /\ pc \in {"write", "fill"} => \A i \in DOMAIN job.saw : Gap[job.saw[i]] = G

(* The RFC and what was read of it, until the evidence is in. *)
EvidenceInv ==
  /\ pc = "write" => job.saw = rfc[G]
  /\ pc = "fill" => rfc[G] = <<>>
  /\ pc \in {"write", "fill"} => job.what \notin Range(job.saw) /\ IsInjective(job.saw)
  /\ pc \in {"skip", "mark", "marking", "archive"} => job.what \in Range(rfc[G])

(* The rows the run holds are as good as those it read. *)
RowsInv ==
  pc = "marking" =>
    \A g \in Gaps : rfc[g] # <<>> /\ job.rows[g] = "table" => g \in unmarked \/ G = g

(* The inductive invariant, in two parts: the first stands alone. *)
Shape == TypeOK /\ InboxInv /\ JobInv
Content == EvidenceInv /\ RowsInv /\ EvidenceKeptOnce /\ EvidenceIsUpForReview

(* What the proofs need of the constants. *)
LEMMA Constants ==
  /\ Valid \subseteq Findings /\ NoFinding \notin Findings
  /\ Gap \in [Findings -> Gaps] /\ Terminated \in [Gaps -> Findings]
  /\ FindingsFile \in [Gaps -> Files]
  /\ MaxDrops \in Nat /\ MaxCrashes \in Nat
  BY ExchangeAssumption

USE Constants
-----------------------------------------------------------------------------
LEMMA ShapeInit == Init => Shape
  BY DEF Init, Shape, TypeOK, InboxInv, JobInv, Jobs, Rows, Lines, NoJob, NoFile,
         There, InHand, BeforeArchive

(* Taking a file: the run now holds what it read. *)
LEMMA TakeShape ==
  ASSUME Shape, NEW n \in Files, NEW next \in {"reject", "skip", "write"},
         Take(n, next)
  PROVE  Shape'
<1> DEFINE f == inbox[n].what
<1> USE DEF drive, ghosts
<1>1. pc = "next" /\ n \in todo /\ todo' = todo \ {n} /\ pc' = next
  BY DEF Take
<1>2. There(n) /\ f \in Findings /\ Gap[f] \in Gaps
  BY <1>1 DEF Shape, InboxInv
<1>3. rfc[Gap[f]] \in Seq(Findings)
  BY <1>2 DEF Shape, JobInv
<1>4. /\ job'.file = n /\ job'.what = f /\ job'.saw = rfc[Gap[f]]
      /\ job' \in Jobs
  BY <1>2, <1>3 DEF Take, Jobs, NoJob, Rows, Lines
<1>5. job' # NoJob
  BY <1>2, <1>4 DEF NoJob
<1>6. \A i \in DOMAIN rfc[Gap[f]] : Gap[rfc[Gap[f]][i]] = Gap[f]
  BY <1>2 DEF Shape, TypeOK
<1>7. UNCHANGED <<drive, rfc, row, gated, ghosts, drops, crashes>>
  BY DEF Take
<1>8. TypeOK'
  BY <1>1, <1>5, <1>7 DEF Shape, TypeOK
<1>9. InboxInv'
  BY <1>1, <1>7 DEF Shape, InboxInv, There
<1>10. JobInv'
  BY <1>1, <1>2, <1>4, <1>6, <1>7 DEF Shape, JobInv, There, InHand,
                                      BeforeArchive, G
<1>11. QED
  BY <1>8, <1>9, <1>10 DEF Shape

(* Steps of others than the run. *)
LEMMA ShapeFrame ==
  ASSUME Shape, TypeOK', UNCHANGED <<inbox, todo, pc, job, rfc>>
  PROVE  Shape'
  BY DEF Shape, InboxInv, JobInv, There, G

LEMMA ShapeKept == Shape /\ [Next]_vars => Shape'
<1> SUFFICES ASSUME Shape, [Next]_vars PROVE Shape'
  OBVIOUS
<1> USE DEF Shape, There, drive, ghosts
<1>1. CASE List
  <2>1. TypeOK'
    BY <1>1 DEF List, TypeOK
  <2>2. InboxInv'
    BY <1>1 DEF List, InboxInv
  <2>3. JobInv'
    BY <1>1 DEF List, JobInv, InHand, BeforeArchive, G
  <2>4. QED
    BY <2>1, <2>2, <2>3
<1>2. CASE Truncate
  <2>1. TypeOK'
    BY <1>2 DEF Truncate, TypeOK, JobInv, InHand, BeforeArchive
  <2>2. InboxInv'
    BY <1>2 DEF Truncate, InboxInv
  <2>3. JobInv'
    BY <1>2 DEF Truncate, JobInv, InHand, BeforeArchive, G
  <2>4. QED
    BY <2>1, <2>2, <2>3
<1>3. CASE Fill
  <2>1. TypeOK'
    BY <1>3 DEF Fill, WithEvidence, TypeOK, JobInv, Jobs, InHand,
                BeforeArchive, G
  <2>2. InboxInv'
    BY <1>3 DEF Fill, WithEvidence, InboxInv
  <2>3. JobInv'
    BY <1>3 DEF Fill, WithEvidence, JobInv, Jobs, InHand, BeforeArchive, G
  <2>4. QED
    BY <2>1, <2>2, <2>3
<1>4. CASE OpenRegistry
  <2>0. /\ job' \in Jobs /\ job'.file = job.file /\ job'.what = job.what
        /\ job'.saw = job.saw /\ job' # NoJob
    <3>1. job \in Jobs /\ row \in Rows /\ job.what \in Findings
      BY <1>4 DEF OpenRegistry, TypeOK, JobInv, Rows, InHand, BeforeArchive
    <3>2. job' = [job EXCEPT !.rows = row]
      BY <1>4 DEF OpenRegistry
    <3>3. /\ job' \in Jobs /\ job'.file = job.file /\ job'.what = job.what
          /\ job'.saw = job.saw
      BY <3>1, <3>2 DEF Jobs
    <3>4. QED
      BY <3>1, <3>3 DEF NoJob
  <2>1. TypeOK'
    BY <1>4, <2>0 DEF OpenRegistry, TypeOK, Lines
  <2>2. InboxInv'
    BY <1>4 DEF OpenRegistry, InboxInv
  <2>3. JobInv'
    BY <1>4, <2>0 DEF OpenRegistry, JobInv, InHand, BeforeArchive, G
  <2>4. QED
    BY <2>1, <2>2, <2>3
<1>5. CASE FillRegistry
  <2>1. TypeOK'
    BY <1>5 DEF FillRegistry, MarkRow, TypeOK, JobInv, Jobs, Rows, Lines, InHand,
                BeforeArchive, G
  <2>2. InboxInv'
    BY <1>5 DEF FillRegistry, MarkRow, InboxInv
  <2>3. JobInv'
    BY <1>5 DEF FillRegistry, MarkRow, JobInv, InHand, BeforeArchive, G
  <2>4. QED
    BY <2>1, <2>2, <2>3
<1>6. CASE Archive
  <2>0. inbox[job.file].what \in Findings /\ job # NoJob
    BY <1>6 DEF Archive, TypeOK, InboxInv, JobInv, InHand, BeforeArchive
  <2>1. TypeOK'
    BY <1>6, <2>0 DEF Archive, TypeOK, NoFile
  <2>2. InboxInv'
    <3>1. job.file \in Files \ todo
      BY <1>6 DEF Archive, JobInv, InHand, BeforeArchive
    <3>2. \A n \in Files \ {job.file} : inbox'[n] = inbox[n]
      BY <1>6 DEF Archive, TypeOK
    <3>3. inbox'[job.file] = NoFile
      BY <1>6, <3>1 DEF Archive, TypeOK
    <3>4. todo' = todo /\ todo \subseteq Files
      BY <1>6 DEF Archive, TypeOK
    <3>5. QED
      BY <3>1, <3>2, <3>3, <3>4 DEF InboxInv
  <2>3. JobInv'
    BY <1>6 DEF Archive, JobInv, InHand, BeforeArchive, G
  <2>4. QED
    BY <2>1, <2>2, <2>3
<1>7. CASE Reject
  <2>1. TypeOK'
    BY <1>7 DEF Reject, TypeOK, NoFile
  <2>2. InboxInv'
    <3>1. job.file \in Files \ todo
      BY <1>7 DEF Reject, JobInv, InHand, BeforeArchive
    <3>2. \A n \in Files \ {job.file} : inbox'[n] = inbox[n]
      BY <1>7 DEF Reject, TypeOK, NoFile
    <3>3. inbox'[job.file] = NoFile
      BY <1>7, <3>1 DEF Reject, TypeOK, NoFile
    <3>4. todo' = todo /\ todo \subseteq Files
      BY <1>7 DEF Reject, TypeOK, NoFile
    <3>5. QED
      BY <3>1, <3>2, <3>3, <3>4 DEF InboxInv
  <2>3. JobInv'
    BY <1>7 DEF Reject, JobInv, InHand, BeforeArchive, G
  <2>4. QED
    BY <2>1, <2>2, <2>3
<1>8. CASE DropSidecar
  <2>1. TypeOK'
    BY <1>8 DEF DropSidecar, TypeOK, JobInv, InHand, BeforeArchive
  <2>2. InboxInv'
    BY <1>8 DEF DropSidecar, InboxInv
  <2>3. JobInv'
    BY <1>8 DEF DropSidecar, JobInv, Jobs, Rows, Lines, NoJob, InHand, BeforeArchive,
                G
  <2>4. QED
    BY <2>1, <2>2, <2>3
<1>9. CASE ArchiveCard
  <2>1. TypeOK'
    BY <1>9 DEF ArchiveCard, TypeOK
  <2>2. InboxInv'
    BY <1>9 DEF ArchiveCard, InboxInv
  <2>3. JobInv'
    BY <1>9 DEF ArchiveCard, JobInv, InHand, BeforeArchive, G
  <2>4. QED
    BY <2>1, <2>2, <2>3
<1>10. CASE Release
  <2>1. TypeOK'
    BY <1>10 DEF Release, TypeOK, JobInv, InHand, BeforeArchive
  <2>2. InboxInv'
    BY <1>10 DEF Release, InboxInv
  <2>3. JobInv'
    BY <1>10 DEF Release, JobInv, Jobs, Rows, Lines, NoJob, InHand, BeforeArchive, G
  <2>4. QED
    BY <2>1, <2>2, <2>3
<1>11. CASE Done
  <2>1. TypeOK'
    BY <1>11 DEF Done, TypeOK
  <2>2. InboxInv'
    BY <1>11 DEF Done, InboxInv
  <2>3. JobInv'
    BY <1>11 DEF Done, JobInv, InHand, BeforeArchive, G
  <2>4. QED
    BY <2>1, <2>2, <2>3
<1>12. ASSUME NEW n \in Files, PassOver(n) PROVE Shape'
  <2>1. TypeOK'
    BY <1>12 DEF PassOver, TypeOK
  <2>2. InboxInv'
    BY <1>12 DEF PassOver, InboxInv
  <2>3. JobInv'
    BY <1>12 DEF PassOver, JobInv, InHand, BeforeArchive, G
  <2>4. QED
    BY <2>1, <2>2, <2>3
<1>13. ASSUME NEW n \in Files, TakeInvalid(n) PROVE Shape'
  BY <1>13, TakeShape DEF TakeInvalid
<1>14. ASSUME NEW n \in Files, TakeKnown(n) PROVE Shape'
  BY <1>14, TakeShape DEF TakeKnown
<1>15. ASSUME NEW n \in Files, TakeNew(n) PROVE Shape'
  BY <1>15, TakeShape DEF TakeNew
<1>16. CASE Die
  <2>1. TypeOK'
    BY <1>16 DEF Die, Range, TypeOK, JobInv, Jobs, G, InHand, BeforeArchive,
                 NoJob
  <2>2. InboxInv'
    BY <1>16 DEF Die, Range, InboxInv
  <2>3. JobInv'
    BY <1>16 DEF Die, JobInv, Jobs, Rows, Lines, NoJob, InHand, BeforeArchive, G
  <2>4. QED
    BY <2>1, <2>2, <2>3
<1>17. ASSUME NEW g \in Gaps, Gate(g) PROVE Shape'
  <2>1. TypeOK'
    BY <1>17 DEF Gate, TypeOK
  <2>2. InboxInv'
    <3>1. \A m \in Files \ {FindingsFile[g]} : inbox'[m] = inbox[m]
      BY <1>17 DEF Gate, TypeOK
    <3>2. inbox'[FindingsFile[g]].what = Terminated[g] /\ Terminated[g] \in Findings
      BY <1>17 DEF Gate, TypeOK
    <3>3. todo' = todo /\ todo \subseteq Files
      BY <1>17 DEF Gate, TypeOK
    <3>4. inbox'[FindingsFile[g]] # NoFile
      BY <3>2 DEF NoFile
    <3>5. QED
      BY <3>1, <3>2, <3>3, <3>4 DEF InboxInv
  <2>3. JobInv'
    BY <1>17 DEF Gate, TypeOK, JobInv, NoFile, InHand, BeforeArchive, G
  <2>4. QED
    BY <2>1, <2>2, <2>3
<1>18. ASSUME NEW g \in Gaps, UnlinkCard(g) \/ Export(g) \/ Claim(g) \/ Corrupt(g)
       PROVE  Shape'
  <2>1. TypeOK'
    <3>1. CASE UnlinkCard(g)
      BY <3>1 DEF UnlinkCard, TypeOK
    <3>2. CASE Export(g)
      BY <3>2 DEF Export, TypeOK
    <3>3. CASE Claim(g) \/ Corrupt(g)
      BY <3>3 DEF Claim, Corrupt, TypeOK
    <3>4. QED
      BY <1>18, <3>1, <3>2, <3>3
  <2>2. UNCHANGED <<inbox, todo, pc, job, rfc>>
    BY <1>18 DEF UnlinkCard, Export, Claim, Corrupt
  <2>3. QED
    BY <2>1, <2>2, ShapeFrame
<1>19. ASSUME NEW n \in Files, NEW f \in Findings, NEW r \in BOOLEAN, Drop(n, f, r)
       PROVE Shape'
  <2>1. TypeOK'
    BY <1>19 DEF Drop, TypeOK
  <2>2. InboxInv'
    <3>1. \A m \in Files \ {n} : inbox'[m] = inbox[m]
      BY <1>19 DEF Drop, TypeOK
    <3>2. inbox'[n].what = f /\ f \in Findings
      BY <1>19 DEF Drop, TypeOK
    <3>3. todo' = todo /\ todo \subseteq Files
      BY <1>19 DEF Drop, TypeOK
    <3>4. inbox'[n] # NoFile
      BY <3>2 DEF NoFile
    <3>5. QED
      BY <3>1, <3>2, <3>3, <3>4 DEF InboxInv
  <2>3. JobInv'
    BY <1>19 DEF Drop, JobInv, InHand, BeforeArchive, G
  <2>4. QED
    BY <2>1, <2>2, <2>3
<1>20. ASSUME NEW n \in Files, Signal(n) PROVE Shape'
  <2>1. TypeOK'
    BY <1>20 DEF Signal, TypeOK
  <2>2. QED
    BY <1>20, <2>1, ShapeFrame DEF Signal
<1>21. CASE UNCHANGED vars
  <2>1. TypeOK'
    BY <1>21 DEF vars, TypeOK
  <2>2. QED
    BY <1>21, <2>1, ShapeFrame DEF vars
<1>22. CASE SkipRegistry
  <2>1. TypeOK'
    BY <1>22 DEF SkipRegistry, TypeOK
  <2>2. InboxInv'
    BY <1>22 DEF SkipRegistry, InboxInv
  <2>3. JobInv'
    BY <1>22 DEF SkipRegistry, JobInv, InHand, BeforeArchive, G
  <2>4. QED
    BY <2>1, <2>2, <2>3
<1>23. QED
  BY <1>1, <1>2, <1>3, <1>4, <1>5, <1>6, <1>7, <1>8, <1>9, <1>10, <1>11, <1>12,
     <1>13, <1>14, <1>15, <1>16, <1>17, <1>18, <1>19, <1>20, <1>21, <1>22 DEF Next, Ingest
-----------------------------------------------------------------------------
(* Steps that touch nothing the second part speaks of, and steps of a run  *)
(* that is not between two writes.                                         *)
LEMMA ContentFrame ==
  ASSUME Content, UNCHANGED <<archived, rfc, row, pc, job, lost, unmarked, swapped>>
  PROVE  Content'
  BY DEF Content, EvidenceInv, RowsInv, EvidenceKeptOnce,
         EvidenceIsUpForReview, G

LEMMA ContentQuiet ==
  ASSUME Content, UNCHANGED <<archived, rfc, row, lost, unmarked, swapped>>,
         pc \notin {"fill", "mark"},
         pc' \notin {"skip", "write", "fill", "mark", "marking", "archive"}
  PROVE  Content'
  BY DEF Content, EvidenceInv, RowsInv, EvidenceKeptOnce,
         EvidenceIsUpForReview, G

LEMMA ContentInit == Init => Content
  BY DEF Init, Content, EvidenceInv, RowsInv, EvidenceKeptOnce,
         EvidenceIsUpForReview, IsInjective, G

(* The run takes a finding: whether it is known decides where it goes on. *)
LEMMA ContentTake ==
  ASSUME Shape, Content, NEW n \in Files, TakeKnown(n) \/ TakeNew(n)
  PROVE  Content'
<1> DEFINE f == inbox[n].what
<1>1. \/ Take(n, "skip") /\ Known(f)
      \/ Take(n, "write") /\ ~Known(f)
  BY DEF TakeKnown, TakeNew
<1>2. /\ UNCHANGED <<archived, rfc, row, lost, unmarked, swapped>>
      /\ pc = "next" /\ job'.what = f /\ job'.saw = rfc[Gap[f]]
  BY <1>1 DEF Take, drive, ghosts
<1>3. \/ pc' = "skip" /\ Known(f)
      \/ pc' = "write" /\ ~Known(f)
  BY <1>1 DEF Take
<1>4. f \in Findings /\ Gap[f] \in Gaps
  BY <1>1 DEF Take, Shape, InboxInv
<1>5. IsInjective(rfc[Gap[f]])
  BY <1>4 DEF Content, EvidenceKeptOnce
<1>6. EvidenceInv'
  BY <1>2, <1>3, <1>5 DEF EvidenceInv, Known, G
<1>7. RowsInv' /\ EvidenceKeptOnce' /\ EvidenceIsUpForReview'
  BY <1>2, <1>3 DEF Content, RowsInv, EvidenceKeptOnce, EvidenceIsUpForReview,
                    G
<1>8. QED
  BY <1>6, <1>7 DEF Content

(* The RFC is empty, and what it held is in the run's hand. *)
LEMMA ContentTruncate ==
  ASSUME Shape, Content, Truncate  PROVE Content'
<1>1. /\ pc = "write" /\ pc' = "fill" /\ G \in Gaps
      /\ UNCHANGED <<archived, row, job, lost, unmarked, swapped>>
  BY DEF Truncate, drive, ghosts, Shape, JobInv, InHand, BeforeArchive, G
<1>2. /\ rfc \in [Gaps -> Seq(Findings)] /\ rfc' = [rfc EXCEPT ![G] = <<>>]
      /\ job.saw = rfc[G]
  BY <1>1 DEF Truncate, Shape, JobInv, Content, EvidenceInv
<1>3. EvidenceInv'
  BY <1>1, <1>2 DEF Content, EvidenceInv, G
<1>4. RowsInv'
  BY <1>1 DEF RowsInv
<1>5. ASSUME NEW f \in archived \ swapped
      PROVE  f \in Range(rfc'[Gap[f]]) \/ f \in lost \/ f \in Range(job.saw)
  <2>1. f \in Range(rfc[Gap[f]]) \/ f \in lost
    BY <1>1 DEF Content, EvidenceKeptOnce
  <2>2. Gap[f] \in Gaps
    BY DEF Shape, TypeOK
  <2>3. QED
    BY <1>2, <2>1, <2>2, Gap[f] = G \/ Gap[f] # G
<1>6. ASSUME NEW g \in Gaps PROVE IsInjective(rfc'[g])
  <2>1. CASE g = G
    BY <1>2, <2>1 DEF IsInjective
  <2>2. CASE g # G
    BY <1>2, <2>2 DEF Content, EvidenceKeptOnce
  <2>3. QED
    BY <2>1, <2>2
<1>7. EvidenceKeptOnce'
  BY <1>1, <1>5, <1>6 DEF EvidenceKeptOnce
<1>8. EvidenceIsUpForReview'
  BY <1>1, <1>2 DEF Content, EvidenceIsUpForReview, G
<1>9. QED
  BY <1>3, <1>4, <1>7, <1>8 DEF Content

(* The evidence comes in, after what was read, which did not hold it. *)
LEMMA ContentFill ==
  ASSUME Shape, Content, Fill  PROVE Content'
<1>1. /\ pc = "fill" /\ pc' = "mark" /\ G \in Gaps /\ job.what \in Findings
      /\ UNCHANGED <<archived, row, job, lost, unmarked, swapped>>
  BY DEF Fill, drive, ghosts, Shape, JobInv, InHand, BeforeArchive, G
<1> DEFINE s == job.saw
           t == Append(s, job.what)
<1>2. /\ rfc \in [Gaps -> Seq(Findings)] /\ rfc' = [rfc EXCEPT ![G] = t]
      /\ s \in Seq(Findings)
  BY <1>1 DEF Fill, WithEvidence, Shape, JobInv, Jobs
<1>3. job.what \notin Range(s) /\ IsInjective(s)
  BY <1>1 DEF Content, EvidenceInv
<1>4. /\ DOMAIN t = 1 .. Len(s) + 1 /\ DOMAIN s = 1 .. Len(s) /\ Len(s) \in Nat
      /\ t[Len(s) + 1] = job.what /\ \A i \in 1 .. Len(s) : t[i] = s[i]
  BY <1>1, <1>2
<1> HIDE DEF s, t
<1>5. job.what \in Range(t) /\ Range(s) \subseteq Range(t)
  BY <1>4 DEF Range
<1>6. IsInjective(t)
  <2>1. \A i \in 1 .. Len(s) : t[i] # job.what
    BY <1>3, <1>4 DEF Range, s
  <2> SUFFICES ASSUME NEW a \in DOMAIN t, NEW b \in DOMAIN t, t[a] = t[b]
               PROVE  a = b
    BY DEF IsInjective
  <2>2. CASE a \in DOMAIN s /\ b \in DOMAIN s
    BY <1>3, <1>4, <2>2 DEF IsInjective
  <2>3. CASE a \notin DOMAIN s \/ b \notin DOMAIN s
    BY <1>4, <2>1, <2>3
  <2>4. QED
    BY <2>2, <2>3
<1>7. EvidenceInv'
  BY <1>1, <1>2, <1>5 DEF Content, EvidenceInv, G
<1>8. RowsInv'
  BY <1>1 DEF RowsInv
<1>9. ASSUME NEW f \in archived \ swapped
      PROVE  f \in Range(rfc'[Gap[f]]) \/ f \in lost
  <2>1. f \in Range(rfc[Gap[f]]) \/ f \in lost \/ f \in Range(s)
    BY <1>1 DEF Content, EvidenceKeptOnce, s
  <2>2. Gap[f] \in Gaps
    BY DEF Shape, TypeOK
  <2>3. f \in Range(s) => Gap[f] = G
    BY <1>1, <1>4 DEF Shape, JobInv, Range, s
  <2>4. CASE Gap[f] = G
    <3>1. rfc[G] = <<>>
      BY <1>1 DEF Content, EvidenceInv
    <3>2. f \notin Range(rfc[Gap[f]])
      BY <2>4, <3>1 DEF Range
    <3>3. QED
      BY <1>1, <1>2, <1>5, <2>1, <2>4, <3>2
  <2>5. CASE Gap[f] # G
    BY <1>2, <2>1, <2>2, <2>3, <2>5
  <2>6. QED
    BY <2>4, <2>5
<1>10. \A g \in Gaps : IsInjective(rfc'[g])
  BY <1>1, <1>2, <1>6 DEF Content, EvidenceKeptOnce
<1>11. EvidenceKeptOnce'
  BY <1>1, <1>9, <1>10 DEF EvidenceKeptOnce
<1>12. EvidenceIsUpForReview'
  BY <1>1, <1>2 DEF Content, EvidenceIsUpForReview, G
<1>13. QED
  BY <1>7, <1>8, <1>11, <1>12 DEF Content

(* Without a registry there is no row to mark. *)
LEMMA ContentSkipRegistry ==
  ASSUME Shape, Content, SkipRegistry  PROVE Content'
<1>1. /\ pc = "mark" /\ pc' = "archive" /\ ~Registry
      /\ UNCHANGED <<archived, rfc, row, job, lost, unmarked, swapped>>
  BY DEF SkipRegistry, drive, ghosts
<1>2. \A g \in Gaps : row[g] # "table"
  BY <1>1 DEF Registry
<1>3. EvidenceInv' /\ RowsInv' /\ EvidenceKeptOnce'
  BY <1>1 DEF Content, EvidenceInv, RowsInv, EvidenceKeptOnce, G
<1>4. EvidenceIsUpForReview'
  BY <1>1, <1>2 DEF EvidenceIsUpForReview
<1>5. QED
  BY <1>3, <1>4 DEF Content

(* The registry is emptied and comes back with the row marked. *)
LEMMA ContentOpenRegistry ==
  ASSUME Shape, Content, OpenRegistry  PROVE Content'
<1>1. /\ pc = "mark" /\ pc' = "marking" /\ \A g \in Gaps : row'[g] # "table"
      /\ UNCHANGED <<archived, rfc, lost, unmarked, swapped>>
  BY DEF OpenRegistry, drive, ghosts
<1>2. job'.what = job.what /\ job'.rows = row
  BY DEF OpenRegistry, Shape, JobInv, Jobs
<1>3. EvidenceInv' /\ RowsInv'
  BY <1>1, <1>2 DEF Content, EvidenceInv, RowsInv, EvidenceIsUpForReview, G
<1>4. EvidenceKeptOnce' /\ EvidenceIsUpForReview'
  BY <1>1 DEF Content, EvidenceKeptOnce, EvidenceIsUpForReview
<1>5. QED
  BY <1>3, <1>4 DEF Content

LEMMA ContentFillRegistry ==
  ASSUME Shape, Content, FillRegistry  PROVE Content'
<1>1. /\ pc = "marking" /\ pc' = "archive" /\ job.rows \in Rows
      /\ row' = MarkRow(job.rows, G) /\ unmarked' = unmarked \ {G}
      /\ UNCHANGED <<archived, rfc, job, lost, swapped>>
  BY DEF FillRegistry, drive, Shape, JobInv, Jobs
<1>2. \A g \in Gaps : row'[g] = "table" => job.rows[g] = "table" /\ g # G
  BY <1>1 DEF MarkRow, Rows
<1>3. EvidenceInv' /\ RowsInv' /\ EvidenceKeptOnce'
  BY <1>1 DEF Content, EvidenceInv, RowsInv, EvidenceKeptOnce, G
<1>4. EvidenceIsUpForReview'
  BY <1>1, <1>2 DEF Content, RowsInv, EvidenceIsUpForReview
<1>5. QED
  BY <1>3, <1>4 DEF Content

(* The finding in the file is the one in hand, or it was swapped. *)
LEMMA ContentArchive ==
  ASSUME Shape, Content, Archive  PROVE Content'
<1> DEFINE f == inbox[job.file].what
<1>1. /\ pc \in {"archive", "skip"} /\ pc' \in {"skipped", "moved"}
      /\ archived' = archived \cup {f} /\ swapped' = swapped \cup ({f} \ {job.what})
      /\ UNCHANGED <<rfc, row, job, lost, unmarked>>
  BY DEF Archive
<1>2. job.what \in Range(rfc[G])
  BY <1>1 DEF Content, EvidenceInv
<1>3. EvidenceKeptOnce'
  BY <1>1, <1>2 DEF Content, EvidenceKeptOnce, G
<1>4. EvidenceInv' /\ RowsInv' /\ EvidenceIsUpForReview'
  BY <1>1 DEF Content, EvidenceInv, RowsInv, EvidenceIsUpForReview, G
<1>5. QED
  BY <1>3, <1>4 DEF Content

(* What the run held is lost, or the row of its gap stays unmarked. *)
LEMMA ContentDie ==
  ASSUME Shape, Content, Die  PROVE Content'
<1>1. /\ pc' = "idle" /\ UNCHANGED <<archived, rfc, row, swapped>>
      /\ lost' = IF pc = "fill" THEN lost \cup Range(job.saw) ELSE lost
      /\ unmarked' = IF pc = "mark" THEN unmarked \cup {G} ELSE unmarked
  BY DEF Die, drive
<1>2. EvidenceInv' /\ RowsInv'
  BY <1>1 DEF EvidenceInv, RowsInv
<1>3. EvidenceKeptOnce'
  BY <1>1 DEF Content, EvidenceKeptOnce
<1>4. EvidenceIsUpForReview'
  BY <1>1 DEF Content, EvidenceInv, EvidenceIsUpForReview
<1>5. QED
  BY <1>2, <1>3, <1>4 DEF Content
-----------------------------------------------------------------------------
LEMMA ContentKept == Shape /\ Content /\ [Next]_vars => Content'
<1> SUFFICES ASSUME Shape, Content, [Next]_vars PROVE Content'
  OBVIOUS
<1> USE DEF drive, ghosts
<1>1. CASE List \/ Reject \/ DropSidecar \/ ArchiveCard \/ Release \/ Done
  BY <1>1, ContentQuiet DEF List, Reject, DropSidecar, ArchiveCard, Release,
                            Done
<1>2. CASE Truncate
  BY <1>2, ContentTruncate
<1>3. CASE Fill
  BY <1>3, ContentFill
<1>4. CASE OpenRegistry
  BY <1>4, ContentOpenRegistry
<1>5. CASE FillRegistry
  BY <1>5, ContentFillRegistry
<1>6. CASE Archive
  BY <1>6, ContentArchive
<1>7. ASSUME NEW n \in Files, PassOver(n) PROVE Content'
  BY <1>7, ContentFrame DEF PassOver
<1>8. ASSUME NEW n \in Files, TakeInvalid(n) PROVE Content'
  BY <1>8, ContentQuiet DEF TakeInvalid, Take
<1>9. ASSUME NEW n \in Files, TakeKnown(n) \/ TakeNew(n) PROVE Content'
  BY <1>9, ContentTake
<1>10. CASE Die
  BY <1>10, ContentDie
<1>11. ASSUME NEW g \in Gaps,
              Gate(g) \/ UnlinkCard(g) \/ Export(g) \/ Claim(g) \/ Corrupt(g)
       PROVE  Content'
  BY <1>11, ContentFrame DEF Gate, UnlinkCard, Export, Claim, Corrupt
<1>12. ASSUME NEW n \in Files, NEW f \in Findings, NEW r \in BOOLEAN, Drop(n, f, r)
       PROVE  Content'
  BY <1>12, ContentFrame DEF Drop
<1>13. ASSUME NEW n \in Files, Signal(n) PROVE Content'
  BY <1>13, ContentFrame DEF Signal
<1>14. CASE UNCHANGED vars
  BY <1>14, ContentFrame DEF vars
<1>15. CASE SkipRegistry
  BY <1>15, ContentSkipRegistry
<1>16. QED
  BY <1>1, <1>2, <1>3, <1>4, <1>5, <1>6, <1>7, <1>8, <1>9, <1>10, <1>11, <1>12,
     <1>13, <1>14, <1>15 DEF Next, Ingest

LEMMA Invariant == Spec => [](Shape /\ Content)
<1>1. Init => Shape /\ Content
  BY ShapeInit, ContentInit
<1>2. Shape /\ Content /\ [Next]_vars => (Shape /\ Content)'
  BY ShapeKept, ContentKept
<1>3. QED
  BY <1>1, <1>2, PTL DEF Spec

(* The drive, the RFCs, the registry and the run stay in their types, and a *)
(* finding is in hand exactly while a run works on one.                     *)
THEOREM TypeCorrect == Spec => []TypeOK
  BY Invariant, PTL DEF Shape

(* What was archived as completed has its evidence in the RFC of its gap,  *)
(* once, wherever runs die, unless a dying run left that RFC empty or the  *)
(* gate wrote over the file of the finding while it was being ingested.    *)
THEOREM EvidenceKept == Spec => []EvidenceKeptOnce
  BY Invariant, PTL DEF Content

(* A gap with evidence and a table row in the registry is marked there for *)
(* review, or about to be, or a run died between writing the evidence and  *)
(* the mark.  Gaps with a list line, or with none, are not spoken of: the  *)
(* code marks nothing for them.                                            *)
THEOREM ForReview == Spec => []EvidenceIsUpForReview
  BY Invariant, PTL DEF Content
=============================================================================

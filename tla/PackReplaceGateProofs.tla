------------------------ MODULE PackReplaceGateProofs ------------------------
(***************************************************************************)
(* Proofs about PackReplaceGate, for any pack, any notebook and any number *)
(* of source ids.                                                          *)
(*                                                                         *)
(* Types hold for any number of writers.  That a generation is always      *)
(* queryable, and that success leaves one pack, are proved for a writer on *)
(* its own whose callers count the whole pack (WholePack): TLC's run with  *)
(* two writers violates the second.                                        *)
(***************************************************************************)
EXTENDS PackReplaceGate, FiniteSetTheorems, TLAPS

LoneWriter == \E w : Writers = {w}

(* Every call is made with the number of parts the pack really has. *)
WholePack == ExpectedCounts = {Cardinality(Parts)}

Staging == {"upload", "poll", "wait"}

(* One source of part p, and no other. *)
One(S, p) == \E s \in S : title[s] = p /\ \A t \in S : title[t] = p => t = s

(* What a run has staged so far: a source for each part it has done, born, *)
(* so that no later upload can take its id.                                *)
Staged(w) ==
  /\ newlyUploaded[w] \subseteq newGeneration[w]
  /\ \A s \in newGeneration[w] : status[s] # "unborn" /\ title[s] \in Parts
  /\ \A s \in reusable[w] : status[s] # "unborn"
  /\ pc[w] \in Staging => \A p \in Parts :
       IF p \in todo[w] THEN \A s \in newGeneration[w] : title[s] # p
                        ELSE One(newGeneration[w], p)
  /\ pc[w] \in {"poll", "wait"} => todo[w] = {}
  /\ pc[w] = "idle" => newGeneration[w] = {}

StagedInv == \A w \in Writers : Staged(w)

(* What is served is queryable, complete, and not about to be deleted.     *)
ServedInv ==
  /\ served \subseteq Shelf
  /\ \A s \in served : title[s] \in Parts
  /\ served = {} \/ Complete(served)
  /\ \A w \in Writers :
       /\ pc[w] \in Staging => newlyUploaded[w] \cap served = {}
       /\ pc[w] \in {"cutover", "rollback"} => toDelete[w] \cap served = {}
       /\ pc[w] = "cutover" => served = newGeneration[w] /\ Complete(served)

(* What else there is of the pack is accounted for.                        *)
StackInv ==
  \A w \in Writers :
    /\ pc[w] \in Staging => PackSources \subseteq oldSources[w] \cup newlyUploaded[w]
    /\ pc[w] = "cutover" /\ ~failedDelete[w] =>
         PackSources \subseteq newGeneration[w] \cup toDelete[w]
    /\ pc[w] = "idle" /\ result[w] = "success" =>
         PackSources \subseteq served /\ Complete(served)

---------------------------------------------------------------------------
(* Types.                                                                  *)

LEMMA TypeInit == Init => TypeOK
<1> SUFFICES ASSUME Init PROVE TypeOK
    OBVIOUS
<1> USE GateAssumption
<1>1. status \in [SourceIds -> {"unborn", "deleted"} \cup LiveStatus]
  BY DEF Init
<1>2. title \in [SourceIds -> PackTitles \cup {Document}]
  BY DEF Init
<1>3. served \subseteq SourceIds
  BY DEF Init, Shelf
<1>4. unreported \in BOOLEAN
  BY DEF Init
<1> QED
  BY <1>1, <1>2, <1>3, <1>4 DEF Init, TypeOK, NoResult

(* A listing shows ids of the service. *)
LEMMA ListingType == PackSources \subseteq SourceIds /\ ExistsActive \subseteq SourceIds
BY DEF PackSources, ExistsActive, Live

LEMMA TypeStep == TypeOK /\ [Next]_vars => TypeOK'
<1> SUFFICES ASSUME TypeOK, [Next]_vars PROVE TypeOK'
    OBVIOUS
<1>1. ASSUME NEW w \in Writers, NEW files \in SUBSET Parts, NEW expected \in ExpectedCounts,
      Reject(w, files, expected)
      PROVE TypeOK'
  BY <1>1 DEF Reject, TypeOK, notebook, locals, NoResult, LiveStatus,
     PackTitles
<1>2. ASSUME NEW w \in Writers, ListFails(w) PROVE TypeOK'
  BY <1>2 DEF ListFails, TypeOK, notebook, locals, NoResult, LiveStatus,
     PackTitles
<1>3. ASSUME NEW w \in Writers, NEW files \in SUBSET Parts, NEW expected \in ExpectedCounts,
      NEW allowReuse \in ReuseChoices, List(w, files, expected, allowReuse)
      PROVE TypeOK'
  BY <1>3, ListingType DEF List, TypeOK, notebook, locals, NoResult,
     LiveStatus, PackTitles
<1>4. ASSUME NEW w \in Writers, NEW p \in Parts, NEW s \in SourceIds, Reuse(w, p, s)
      PROVE TypeOK'
  BY <1>4 DEF Reuse, TypeOK, notebook, locals, NoResult, LiveStatus, PackTitles
<1>5. ASSUME NEW w \in Writers, NEW p \in Parts, NEW s \in SourceIds, Upload(w, p, s)
      PROVE TypeOK'
  BY <1>5 DEF Upload, MustUpload, Ingest, Fresh, TypeOK, notebook, locals,
     NoResult, LiveStatus, PackTitles
<1>6. ASSUME NEW w \in Writers, NEW p \in Parts, UploadFails(w, p)
      PROVE TypeOK'
  BY <1>6 DEF UploadFails, MustUpload, StartRollback, TypeOK, notebook,
     locals, NoResult, LiveStatus, PackTitles
<1>7. ASSUME NEW w \in Writers, NEW p \in Parts, NEW s \in SourceIds, UploadAnswerLost(w, p, s)
      PROVE TypeOK'
  BY <1>7 DEF UploadAnswerLost, MustUpload, Ingest, Fresh, StartRollback,
     TypeOK, notebook, locals, NoResult, LiveStatus, PackTitles
<1>8. ASSUME NEW w \in Writers, StartPoll(w) PROVE TypeOK'
  BY <1>8 DEF StartPoll, TypeOK, notebook, locals, NoResult, LiveStatus,
     PackTitles
<1>9. ASSUME NEW w \in Writers, PollActive(w) PROVE TypeOK'
  BY <1>9 DEF PollActive, TypeOK, notebook, locals, NoResult, LiveStatus,
     PackTitles
<1>10. ASSUME NEW w \in Writers, PollError(w) PROVE TypeOK'
  BY <1>10 DEF PollError, StartRollback, TypeOK, notebook, locals, NoResult,
     LiveStatus, PackTitles
<1>11. ASSUME NEW w \in Writers, PollListFails(w) PROVE TypeOK'
  BY <1>11 DEF PollListFails, StartRollback, TypeOK, notebook, locals,
     NoResult, LiveStatus, PackTitles
<1>12. ASSUME NEW w \in Writers, PollInFlight(w) PROVE TypeOK'
  BY <1>12 DEF PollInFlight, TypeOK, notebook, locals, NoResult, LiveStatus,
     PackTitles
<1>13. ASSUME NEW w \in Writers, PollAgain(w) PROVE TypeOK'
  BY <1>13 DEF PollAgain, TypeOK, notebook, locals, NoResult, LiveStatus,
     PackTitles
<1>14. ASSUME NEW w \in Writers, PollTimeout(w) PROVE TypeOK'
  BY <1>14 DEF PollTimeout, StartRollback, TypeOK, notebook, locals, NoResult,
     LiveStatus, PackTitles
<1>15. ASSUME NEW w \in Writers, NEW s \in SourceIds, Delete(w, s)
      PROVE TypeOK'
  BY <1>15 DEF Delete, TypeOK, notebook, locals, NoResult, LiveStatus,
     PackTitles
<1>16. ASSUME NEW w \in Writers, NEW s \in SourceIds, DeleteFails(w, s)
      PROVE TypeOK'
  BY <1>16 DEF DeleteFails, TypeOK, notebook, locals, NoResult, LiveStatus,
     PackTitles
<1>17. ASSUME NEW w \in Writers, FinishCutover(w) PROVE TypeOK'
  BY <1>17 DEF FinishCutover, Leave, TypeOK, notebook, locals, NoResult,
     LiveStatus, PackTitles
<1>18. ASSUME NEW w \in Writers, PartialCutover(w) PROVE TypeOK'
  BY <1>18 DEF PartialCutover, Leave, TypeOK, notebook, locals, NoResult,
     LiveStatus, PackTitles
<1>19. ASSUME NEW w \in Writers, FinishRollback(w) PROVE TypeOK'
  BY <1>19 DEF FinishRollback, Leave, TypeOK, notebook, locals, NoResult,
     LiveStatus, PackTitles
<1>20. ASSUME NEW w \in Writers, ClearQuarantine(w) PROVE TypeOK'
  BY <1>20 DEF ClearQuarantine, TypeOK, notebook, locals, NoResult,
     LiveStatus, PackTitles
<1>21. ASSUME NEW w \in Writers, Crash(w) PROVE TypeOK'
  BY <1>21 DEF Crash, Leave, TypeOK, notebook, locals, NoResult, LiveStatus,
     PackTitles
<1>22. ASSUME NEW s \in SourceIds, Index(s) PROVE TypeOK'
  BY <1>22 DEF Index, TypeOK, notebook, locals, NoResult, LiveStatus,
     PackTitles
<1>23. CASE UNCHANGED vars
  BY <1>23 DEF vars, TypeOK, notebook, locals, NoResult, LiveStatus, PackTitles
<1> QED
  BY <1>1, <1>2, <1>3, <1>4, <1>5, <1>6, <1>7, <1>8, <1>9, <1>10, <1>11,
     <1>12, <1>13, <1>14, <1>15, <1>16, <1>17, <1>18, <1>19, <1>20, <1>21,
     <1>22, <1>23 DEF Next, Begin, Progress

(* A gate that runs any number of times in any number of processes keeps   *)
(* its state within its types.                                             *)
THEOREM TypeCorrect == Spec => []TypeOK
BY TypeInit, TypeStep, PTL DEF Spec

---------------------------------------------------------------------------
(* Staging, for any number of writers.                                     *)

(* With WholePack, the files a run does not reject are all the parts.      *)
LEMMA WholeFiles ==
  ASSUME WholePack, NEW files \in SUBSET Parts, NEW expected \in ExpectedCounts,
         Cardinality(files) = expected
  PROVE  files = Parts
BY FS_Subset, GateAssumption DEF WholePack

(* What a listing shows has been born, and is not unborn afterwards.       *)
LEMMA ListedIsBorn == \A s \in PackSources \cup ExistsActive : status[s] # "unborn"
BY DEF PackSources, ExistsActive, Live, LiveStatus

LEMMA StagedInit == Init => StagedInv
BY DEF Init, StagedInv, Staged, Staging

LEMMA StagedStep ==
  ASSUME WholePack, TypeOK, StagedInv, [Next]_vars
  PROVE  StagedInv'
<1>1. ASSUME NEW w \in Writers, NEW files \in SUBSET Parts, NEW expected \in ExpectedCounts,
      Reject(w, files, expected)
      PROVE StagedInv'
  BY <1>1 DEF Reject, TypeOK, StagedInv, Staged, Staging, One, notebook, locals
<1>2. ASSUME NEW w \in Writers, ListFails(w) PROVE StagedInv'
  BY <1>2 DEF ListFails, TypeOK, StagedInv, Staged, Staging, One, notebook,
     locals
<1>3. ASSUME NEW w \in Writers, NEW files \in SUBSET Parts, NEW expected \in ExpectedCounts,
      NEW allowReuse \in ReuseChoices, List(w, files, expected, allowReuse)
      PROVE StagedInv'

  <2>1. files = Parts
    BY <1>3, WholeFiles DEF List
  <2>2. newGeneration[w] = {} /\ newlyUploaded[w] = {}
    BY <1>3 DEF List, StagedInv, Staged
  <2> QED
    BY <1>3, <2>1, <2>2, ListedIsBorn DEF List, TypeOK, StagedInv, Staged, Staging, One,
       notebook
<1>4. ASSUME NEW w \in Writers, NEW p \in Parts, NEW s \in SourceIds, Reuse(w, p, s)
      PROVE StagedInv'
  BY <1>4 DEF Reuse, TypeOK, StagedInv, Staged, Staging, One, notebook, locals
<1>5. ASSUME NEW w \in Writers, NEW p \in Parts, NEW s \in SourceIds, Upload(w, p, s)
      PROVE StagedInv'

  <2>1. status[s] = "unborn" /\ \A t \in SourceIds \ {s} : title'[t] = title[t]
    BY <1>5 DEF Upload, Ingest, Fresh, TypeOK
  <2>2. \A t \in SourceIds : status[t] # "unborn" => t # s /\ status'[t] # "unborn"
    BY <1>5, <2>1 DEF Upload, Ingest, TypeOK
  <2>3. status'[s] # "unborn" /\ title'[s] = p
    BY <1>5 DEF Upload, Ingest, TypeOK
  <2>4. pc[w] = "upload" /\ pc' = pc /\ p \in todo[w] /\ reusable' = reusable
    BY <1>5 DEF Upload, MustUpload
  <2>5. todo' = [todo EXCEPT ![w] = @ \ {p}]
    BY <1>5 DEF Upload
  <2>6. newGeneration' = [newGeneration EXCEPT ![w] = @ \cup {s}]
    BY <1>5 DEF Upload
  <2>7. newlyUploaded' = [newlyUploaded EXCEPT ![w] = @ \cup {s}]
    BY <1>5 DEF Upload
  <2>8. ASSUME NEW v \in Writers, v # w
        PROVE  /\ newGeneration'[v] = newGeneration[v] /\ todo'[v] = todo[v]
               /\ newlyUploaded'[v] = newlyUploaded[v]
               /\ \A t \in newGeneration[v] : t # s /\ title'[t] = title[t]
    BY <2>1, <2>2, <2>5, <2>6, <2>7, <2>8 DEF TypeOK, StagedInv, Staged
  <2>9. ASSUME NEW q \in Parts
        PROVE  (IF q \in todo[w] THEN \A t \in newGeneration[w] : title[t] # q
                                 ELSE One(newGeneration[w], q))'
    <3>1. newGeneration'[w] = newGeneration[w] \cup {s} /\ todo'[w] = todo[w] \ {p}
      BY <2>5, <2>6 DEF TypeOK
    <3>2. \A t \in newGeneration[w] : t # s /\ title'[t] = title[t]
      BY <2>1, <2>2 DEF TypeOK, StagedInv, Staged
    <3>3. CASE q = p
      BY <2>3, <2>4, <3>1, <3>2, <3>3 DEF StagedInv, Staged, Staging, One
    <3>4. CASE q # p
      BY <2>3, <2>4, <3>1, <3>2, <3>4 DEF StagedInv, Staged, Staging, One
    <3> QED
      BY <3>3, <3>4
  <2>10. ASSUME NEW v \in Writers, v # w PROVE Staged(v)'
    BY <2>2, <2>4, <2>8, <2>10 DEF TypeOK, StagedInv, Staged, One
  <2>11. newlyUploaded'[w] \subseteq newGeneration'[w]
    BY <2>6, <2>7 DEF TypeOK, StagedInv, Staged
  <2>12. \A t \in newGeneration'[w] : status'[t] # "unborn" /\ title'[t] \in Parts
    BY <2>1, <2>2, <2>3, <2>6 DEF TypeOK, StagedInv, Staged
  <2>13. \A t \in reusable'[w] : status'[t] # "unborn"
    BY <2>2, <2>4 DEF TypeOK, StagedInv, Staged
  <2>14. Staged(w)'
    BY <2>4, <2>9, <2>11, <2>12, <2>13 DEF Staged
  <2> QED
    BY <2>10, <2>14 DEF StagedInv
<1>6. ASSUME NEW w \in Writers, NEW p \in Parts, UploadFails(w, p)
      PROVE StagedInv'
  BY <1>6 DEF UploadFails, MustUpload, StartRollback, TypeOK, StagedInv,
     Staged, Staging, One, notebook, locals
<1>7. ASSUME NEW w \in Writers, NEW p \in Parts, NEW s \in SourceIds, UploadAnswerLost(w, p, s)
      PROVE StagedInv'
  BY <1>7 DEF UploadAnswerLost, MustUpload, Ingest, Fresh, StartRollback,
     TypeOK, StagedInv, Staged, Staging, One, notebook, locals
<1>8. ASSUME NEW w \in Writers, StartPoll(w) PROVE StagedInv'
  BY <1>8 DEF StartPoll, TypeOK, StagedInv, Staged, Staging, One, notebook,
     locals
<1>9. ASSUME NEW w \in Writers, PollActive(w) PROVE StagedInv'
  BY <1>9 DEF PollActive, TypeOK, StagedInv, Staged, Staging, One, notebook,
     locals
<1>10. ASSUME NEW w \in Writers, PollError(w) PROVE StagedInv'
  BY <1>10 DEF PollError, StartRollback, TypeOK, StagedInv, Staged, Staging,
     One, notebook, locals
<1>11. ASSUME NEW w \in Writers, PollListFails(w) PROVE StagedInv'
  BY <1>11 DEF PollListFails, StartRollback, TypeOK, StagedInv, Staged,
     Staging, One, notebook, locals
<1>12. ASSUME NEW w \in Writers, PollInFlight(w) PROVE StagedInv'
  BY <1>12 DEF PollInFlight, TypeOK, StagedInv, Staged, Staging, One,
     notebook, locals
<1>13. ASSUME NEW w \in Writers, PollAgain(w) PROVE StagedInv'
  BY <1>13 DEF PollAgain, TypeOK, StagedInv, Staged, Staging, One, notebook,
     locals
<1>14. ASSUME NEW w \in Writers, PollTimeout(w) PROVE StagedInv'
  BY <1>14 DEF PollTimeout, StartRollback, TypeOK, StagedInv, Staged, Staging,
     One, notebook, locals
<1>15. ASSUME NEW w \in Writers, NEW s \in SourceIds, Delete(w, s)
      PROVE StagedInv'
  BY <1>15 DEF Delete, TypeOK, StagedInv, Staged, Staging, One, notebook,
     locals
<1>16. ASSUME NEW w \in Writers, NEW s \in SourceIds, DeleteFails(w, s)
      PROVE StagedInv'
  BY <1>16 DEF DeleteFails, TypeOK, StagedInv, Staged, Staging, One, notebook,
     locals
<1>17. ASSUME NEW w \in Writers, FinishCutover(w) PROVE StagedInv'
  BY <1>17 DEF FinishCutover, Leave, TypeOK, StagedInv, Staged, Staging, One,
     notebook, locals
<1>18. ASSUME NEW w \in Writers, PartialCutover(w) PROVE StagedInv'
  BY <1>18 DEF PartialCutover, Leave, TypeOK, StagedInv, Staged, Staging, One,
     notebook, locals
<1>19. ASSUME NEW w \in Writers, FinishRollback(w) PROVE StagedInv'
  BY <1>19 DEF FinishRollback, Leave, TypeOK, StagedInv, Staged, Staging, One,
     notebook, locals
<1>20. ASSUME NEW w \in Writers, ClearQuarantine(w) PROVE StagedInv'
  BY <1>20 DEF ClearQuarantine, TypeOK, StagedInv, Staged, Staging, One,
     notebook, locals
<1>21. ASSUME NEW w \in Writers, Crash(w) PROVE StagedInv'
  BY <1>21 DEF Crash, Leave, TypeOK, StagedInv, Staged, Staging, One,
     notebook, locals
<1>22. ASSUME NEW s \in SourceIds, Index(s) PROVE StagedInv'
  BY <1>22 DEF Index, TypeOK, StagedInv, Staged, Staging, One, notebook, locals
<1>23. CASE UNCHANGED vars
  BY <1>23 DEF vars, TypeOK, StagedInv, Staged, Staging, One, notebook, locals
<1> QED
  BY <1>1, <1>2, <1>3, <1>4, <1>5, <1>6, <1>7, <1>8, <1>9, <1>10, <1>11,
     <1>12, <1>13, <1>14, <1>15, <1>16, <1>17, <1>18, <1>19, <1>20, <1>21,
     <1>22, <1>23 DEF Next, Begin, Progress

---------------------------------------------------------------------------
(* Serving, for a writer on its own.                                       *)

LEMMA ServedInit == Init => ServedInv
<1> SUFFICES ASSUME Init PROVE ServedInv
    OBVIOUS
<1>1. CASE Complete(Shelf)
  <2>1. served = {s \in Shelf : title[s] \in Parts}
    BY <1>1 DEF Init
  <2>2. Complete(served)
    BY <1>1, <2>1 DEF Complete
  <2> QED
    BY <2>1, <2>2 DEF Init, ServedInv, Staging
<1>2. CASE ~Complete(Shelf)
  BY <1>2 DEF Init, ServedInv, Staging
<1> QED
  BY <1>1, <1>2

LEMMA ServedStep ==
  ASSUME LoneWriter, TypeOK, StagedInv, ServedInv, [Next]_vars
  PROVE  ServedInv'
<1>1. ASSUME NEW w \in Writers, NEW files \in SUBSET Parts, NEW expected \in ExpectedCounts,
      Reject(w, files, expected)
      PROVE ServedInv'
  BY <1>1 DEF Reject, TypeOK, StagedInv, Staged, ServedInv, LoneWriter,
     Staging, One, Complete, Shelf, Ready, notebook, locals
<1>2. ASSUME NEW w \in Writers, ListFails(w) PROVE ServedInv'
  BY <1>2 DEF ListFails, TypeOK, StagedInv, Staged, ServedInv, LoneWriter,
     Staging, One, Complete, Shelf, Ready, notebook, locals
<1>3. ASSUME NEW w \in Writers, NEW files \in SUBSET Parts, NEW expected \in ExpectedCounts,
      NEW allowReuse \in ReuseChoices, List(w, files, expected, allowReuse)
      PROVE ServedInv'
  BY <1>3 DEF List, TypeOK, StagedInv, Staged, ServedInv, LoneWriter, Staging,
     One, Complete, Shelf, Ready, notebook, locals
<1>4. ASSUME NEW w \in Writers, NEW p \in Parts, NEW s \in SourceIds, Reuse(w, p, s)
      PROVE ServedInv'
  BY <1>4 DEF Reuse, TypeOK, StagedInv, Staged, ServedInv, LoneWriter,
     Staging, One, Complete, Shelf, Ready, notebook, locals
<1>5. ASSUME NEW w \in Writers, NEW p \in Parts, NEW s \in SourceIds, Upload(w, p, s)
      PROVE ServedInv'
  BY <1>5 DEF Upload, MustUpload, Ingest, Fresh, TypeOK, StagedInv, Staged,
     ServedInv, LoneWriter, Staging, One, Complete, Shelf, Ready, notebook,
     locals
<1>6. ASSUME NEW w \in Writers, NEW p \in Parts, UploadFails(w, p)
      PROVE ServedInv'
  BY <1>6 DEF UploadFails, MustUpload, StartRollback, TypeOK, StagedInv,
     Staged, ServedInv, LoneWriter, Staging, One, Complete, Shelf, Ready,
     notebook, locals
<1>7. ASSUME NEW w \in Writers, NEW p \in Parts, NEW s \in SourceIds, UploadAnswerLost(w, p, s)
      PROVE ServedInv'
  BY <1>7 DEF UploadAnswerLost, MustUpload, Ingest, Fresh, StartRollback,
     TypeOK, StagedInv, Staged, ServedInv, LoneWriter, Staging, One, Complete,
     Shelf, Ready, notebook, locals
<1>8. ASSUME NEW w \in Writers, StartPoll(w) PROVE ServedInv'
  BY <1>8 DEF StartPoll, TypeOK, StagedInv, Staged, ServedInv, LoneWriter,
     Staging, One, Complete, Shelf, Ready, notebook, locals
<1>9. ASSUME NEW w \in Writers, PollActive(w) PROVE ServedInv'
  BY <1>9 DEF PollActive, TypeOK, StagedInv, Staged, ServedInv, LoneWriter,
     Staging, One, Complete, Shelf, Ready, notebook, locals
<1>10. ASSUME NEW w \in Writers, PollError(w) PROVE ServedInv'
  BY <1>10 DEF PollError, StartRollback, TypeOK, StagedInv, Staged, ServedInv,
     LoneWriter, Staging, One, Complete, Shelf, Ready, notebook, locals
<1>11. ASSUME NEW w \in Writers, PollListFails(w) PROVE ServedInv'
  BY <1>11 DEF PollListFails, StartRollback, TypeOK, StagedInv, Staged,
     ServedInv, LoneWriter, Staging, One, Complete, Shelf, Ready, notebook,
     locals
<1>12. ASSUME NEW w \in Writers, PollInFlight(w) PROVE ServedInv'
  BY <1>12 DEF PollInFlight, TypeOK, StagedInv, Staged, ServedInv, LoneWriter,
     Staging, One, Complete, Shelf, Ready, notebook, locals
<1>13. ASSUME NEW w \in Writers, PollAgain(w) PROVE ServedInv'
  BY <1>13 DEF PollAgain, TypeOK, StagedInv, Staged, ServedInv, LoneWriter,
     Staging, One, Complete, Shelf, Ready, notebook, locals
<1>14. ASSUME NEW w \in Writers, PollTimeout(w) PROVE ServedInv'
  BY <1>14 DEF PollTimeout, StartRollback, TypeOK, StagedInv, Staged,
     ServedInv, LoneWriter, Staging, One, Complete, Shelf, Ready, notebook,
     locals
<1>15. ASSUME NEW w \in Writers, NEW s \in SourceIds, Delete(w, s)
      PROVE ServedInv'
  BY <1>15 DEF Delete, TypeOK, StagedInv, Staged, ServedInv, LoneWriter,
     Staging, One, Complete, Shelf, Ready, notebook, locals
<1>16. ASSUME NEW w \in Writers, NEW s \in SourceIds, DeleteFails(w, s)
      PROVE ServedInv'
  BY <1>16 DEF DeleteFails, TypeOK, StagedInv, Staged, ServedInv, LoneWriter,
     Staging, One, Complete, Shelf, Ready, notebook, locals
<1>17. ASSUME NEW w \in Writers, FinishCutover(w) PROVE ServedInv'
  BY <1>17 DEF FinishCutover, Leave, TypeOK, StagedInv, Staged, ServedInv,
     LoneWriter, Staging, One, Complete, Shelf, Ready, notebook, locals
<1>18. ASSUME NEW w \in Writers, PartialCutover(w) PROVE ServedInv'
  BY <1>18 DEF PartialCutover, Leave, TypeOK, StagedInv, Staged, ServedInv,
     LoneWriter, Staging, One, Complete, Shelf, Ready, notebook, locals
<1>19. ASSUME NEW w \in Writers, FinishRollback(w) PROVE ServedInv'
  BY <1>19 DEF FinishRollback, Leave, TypeOK, StagedInv, Staged, ServedInv,
     LoneWriter, Staging, One, Complete, Shelf, Ready, notebook, locals
<1>20. ASSUME NEW w \in Writers, ClearQuarantine(w) PROVE ServedInv'
  BY <1>20 DEF ClearQuarantine, TypeOK, StagedInv, Staged, ServedInv,
     LoneWriter, Staging, One, Complete, Shelf, Ready, notebook, locals
<1>21. ASSUME NEW w \in Writers, Crash(w) PROVE ServedInv'
  BY <1>21 DEF Crash, Leave, TypeOK, StagedInv, Staged, ServedInv, LoneWriter,
     Staging, One, Complete, Shelf, Ready, notebook, locals
<1>22. ASSUME NEW s \in SourceIds, Index(s) PROVE ServedInv'
  BY <1>22 DEF Index, TypeOK, StagedInv, Staged, ServedInv, LoneWriter,
     Staging, One, Complete, Shelf, Ready, notebook, locals
<1>23. CASE UNCHANGED vars
  BY <1>23 DEF vars, TypeOK, StagedInv, Staged, ServedInv, LoneWriter,
     Staging, One, Complete, Shelf, Ready, notebook, locals
<1> QED
  BY <1>1, <1>2, <1>3, <1>4, <1>5, <1>6, <1>7, <1>8, <1>9, <1>10, <1>11,
     <1>12, <1>13, <1>14, <1>15, <1>16, <1>17, <1>18, <1>19, <1>20, <1>21,
     <1>22, <1>23 DEF Next, Begin, Progress

LEMMA StackInit == Init => StackInv
BY DEF Init, StackInv, Staging

LEMMA StackStep ==
  ASSUME LoneWriter, TypeOK, StagedInv, ServedInv, StackInv, [Next]_vars
  PROVE  StackInv'
<1>1. ASSUME NEW w \in Writers, NEW files \in SUBSET Parts, NEW expected \in ExpectedCounts,
      Reject(w, files, expected)
      PROVE StackInv'
  BY <1>1 DEF Reject, TypeOK, StagedInv, Staged, ServedInv, StackInv,
     LoneWriter, Staging, Complete, PackSources, Live, LiveStatus, Shelf,
     Ready, notebook, locals
<1>2. ASSUME NEW w \in Writers, ListFails(w) PROVE StackInv'
  BY <1>2 DEF ListFails, TypeOK, StagedInv, Staged, ServedInv, StackInv,
     LoneWriter, Staging, Complete, PackSources, Live, LiveStatus, Shelf,
     Ready, notebook, locals
<1>3. ASSUME NEW w \in Writers, NEW files \in SUBSET Parts, NEW expected \in ExpectedCounts,
      NEW allowReuse \in ReuseChoices, List(w, files, expected, allowReuse)
      PROVE StackInv'
  BY <1>3 DEF List, TypeOK, StagedInv, Staged, ServedInv, StackInv,
     LoneWriter, Staging, Complete, PackSources, Live, LiveStatus, Shelf,
     Ready, notebook, locals
<1>4. ASSUME NEW w \in Writers, NEW p \in Parts, NEW s \in SourceIds, Reuse(w, p, s)
      PROVE StackInv'
  BY <1>4 DEF Reuse, TypeOK, StagedInv, Staged, ServedInv, StackInv,
     LoneWriter, Staging, Complete, PackSources, Live, LiveStatus, Shelf,
     Ready, notebook, locals
<1>5. ASSUME NEW w \in Writers, NEW p \in Parts, NEW s \in SourceIds, Upload(w, p, s)
      PROVE StackInv'
  BY <1>5 DEF Upload, MustUpload, Ingest, Fresh, TypeOK, StagedInv, Staged,
     ServedInv, StackInv, LoneWriter, Staging, Complete, PackSources, Live,
     LiveStatus, Shelf, Ready, notebook, locals
<1>6. ASSUME NEW w \in Writers, NEW p \in Parts, UploadFails(w, p)
      PROVE StackInv'
  BY <1>6 DEF UploadFails, MustUpload, StartRollback, TypeOK, StagedInv,
     Staged, ServedInv, StackInv, LoneWriter, Staging, Complete, PackSources,
     Live, LiveStatus, Shelf, Ready, notebook, locals
<1>7. ASSUME NEW w \in Writers, NEW p \in Parts, NEW s \in SourceIds, UploadAnswerLost(w, p, s)
      PROVE StackInv'
  BY <1>7 DEF UploadAnswerLost, MustUpload, Ingest, Fresh, StartRollback,
     TypeOK, StagedInv, Staged, ServedInv, StackInv, LoneWriter, Staging,
     Complete, PackSources, Live, LiveStatus, Shelf, Ready, notebook, locals
<1>8. ASSUME NEW w \in Writers, StartPoll(w) PROVE StackInv'
  BY <1>8 DEF StartPoll, TypeOK, StagedInv, Staged, ServedInv, StackInv,
     LoneWriter, Staging, Complete, PackSources, Live, LiveStatus, Shelf,
     Ready, notebook, locals
<1>9. ASSUME NEW w \in Writers, PollActive(w) PROVE StackInv'
  BY <1>9 DEF PollActive, TypeOK, StagedInv, Staged, ServedInv, StackInv,
     LoneWriter, Staging, Complete, PackSources, Live, LiveStatus, Shelf,
     Ready, notebook, locals
<1>10. ASSUME NEW w \in Writers, PollError(w) PROVE StackInv'
  BY <1>10 DEF PollError, StartRollback, TypeOK, StagedInv, Staged, ServedInv,
     StackInv, LoneWriter, Staging, Complete, PackSources, Live, LiveStatus,
     Shelf, Ready, notebook, locals
<1>11. ASSUME NEW w \in Writers, PollListFails(w) PROVE StackInv'
  BY <1>11 DEF PollListFails, StartRollback, TypeOK, StagedInv, Staged,
     ServedInv, StackInv, LoneWriter, Staging, Complete, PackSources, Live,
     LiveStatus, Shelf, Ready, notebook, locals
<1>12. ASSUME NEW w \in Writers, PollInFlight(w) PROVE StackInv'
  BY <1>12 DEF PollInFlight, TypeOK, StagedInv, Staged, ServedInv, StackInv,
     LoneWriter, Staging, Complete, PackSources, Live, LiveStatus, Shelf,
     Ready, notebook, locals
<1>13. ASSUME NEW w \in Writers, PollAgain(w) PROVE StackInv'
  BY <1>13 DEF PollAgain, TypeOK, StagedInv, Staged, ServedInv, StackInv,
     LoneWriter, Staging, Complete, PackSources, Live, LiveStatus, Shelf,
     Ready, notebook, locals
<1>14. ASSUME NEW w \in Writers, PollTimeout(w) PROVE StackInv'
  BY <1>14 DEF PollTimeout, StartRollback, TypeOK, StagedInv, Staged,
     ServedInv, StackInv, LoneWriter, Staging, Complete, PackSources, Live,
     LiveStatus, Shelf, Ready, notebook, locals
<1>15. ASSUME NEW w \in Writers, NEW s \in SourceIds, Delete(w, s)
      PROVE StackInv'
  BY <1>15 DEF Delete, TypeOK, StagedInv, Staged, ServedInv, StackInv,
     LoneWriter, Staging, Complete, PackSources, Live, LiveStatus, Shelf,
     Ready, notebook, locals
<1>16. ASSUME NEW w \in Writers, NEW s \in SourceIds, DeleteFails(w, s)
      PROVE StackInv'

  <2>1. PackSources' \subseteq PackSources
    BY <1>16 DEF DeleteFails, PackSources, Live, LiveStatus, TypeOK
  <2>2. pc' = pc /\ result' = result /\ served' = served /\ title' = title
        /\ oldSources' = oldSources /\ newlyUploaded' = newlyUploaded
        /\ newGeneration' = newGeneration
    BY <1>16 DEF DeleteFails
  <2>3. failedDelete'[w] \/ pc[w] # "cutover"
    BY <1>16 DEF DeleteFails, TypeOK
  <2>4. \A v \in Writers : v = w
    BY DEF LoneWriter
  <2>5. pc[w] \in {"cutover", "rollback"}
    BY <1>16 DEF DeleteFails
  <2> QED
    BY <2>1, <2>2, <2>3, <2>4, <2>5 DEF StackInv, Staging, TypeOK
<1>17. ASSUME NEW w \in Writers, FinishCutover(w) PROVE StackInv'
  BY <1>17 DEF FinishCutover, Leave, TypeOK, StagedInv, Staged, ServedInv,
     StackInv, LoneWriter, Staging, Complete, PackSources, Live, LiveStatus,
     Shelf, Ready, notebook, locals
<1>18. ASSUME NEW w \in Writers, PartialCutover(w) PROVE StackInv'
  BY <1>18 DEF PartialCutover, Leave, TypeOK, StagedInv, Staged, ServedInv,
     StackInv, LoneWriter, Staging, Complete, PackSources, Live, LiveStatus,
     Shelf, Ready, notebook, locals
<1>19. ASSUME NEW w \in Writers, FinishRollback(w) PROVE StackInv'
  BY <1>19 DEF FinishRollback, Leave, TypeOK, StagedInv, Staged, ServedInv,
     StackInv, LoneWriter, Staging, Complete, PackSources, Live, LiveStatus,
     Shelf, Ready, notebook, locals
<1>20. ASSUME NEW w \in Writers, ClearQuarantine(w) PROVE StackInv'
  BY <1>20 DEF ClearQuarantine, TypeOK, StagedInv, Staged, ServedInv,
     StackInv, LoneWriter, Staging, Complete, PackSources, Live, LiveStatus,
     Shelf, Ready, notebook, locals
<1>21. ASSUME NEW w \in Writers, Crash(w) PROVE StackInv'
  BY <1>21 DEF Crash, Leave, TypeOK, StagedInv, Staged, ServedInv, StackInv,
     LoneWriter, Staging, Complete, PackSources, Live, LiveStatus, Shelf,
     Ready, notebook, locals
<1>22. ASSUME NEW s \in SourceIds, Index(s) PROVE StackInv'
  BY <1>22 DEF Index, TypeOK, StagedInv, Staged, ServedInv, StackInv,
     LoneWriter, Staging, Complete, PackSources, Live, LiveStatus, Shelf,
     Ready, notebook, locals
<1>23. CASE UNCHANGED vars
  BY <1>23 DEF vars, TypeOK, StagedInv, Staged, ServedInv, StackInv,
     LoneWriter, Staging, Complete, PackSources, Live, LiveStatus, Shelf,
     Ready, notebook, locals
<1> QED
  BY <1>1, <1>2, <1>3, <1>4, <1>5, <1>6, <1>7, <1>8, <1>9, <1>10, <1>11,
     <1>12, <1>13, <1>14, <1>15, <1>16, <1>17, <1>18, <1>19, <1>20, <1>21,
     <1>22, <1>23 DEF Next, Begin, Progress

---------------------------------------------------------------------------
(* What follows.                                                           *)

LoneInv == TypeOK /\ StagedInv /\ ServedInv /\ StackInv

THEOREM LoneInductive ==
  ASSUME LoneWriter, WholePack
  PROVE  Spec => []LoneInv
<1>1. Init => LoneInv
  BY TypeInit, StagedInit, ServedInit, StackInit DEF LoneInv
<1>2. LoneInv /\ [Next]_vars => LoneInv'
  BY TypeStep, StagedStep, ServedStep, StackStep DEF LoneInv
<1> QED
  BY <1>1, <1>2, PTL DEF Spec

(* "<=1 logical pack family per notebook -- never stack a second pack":    *)
(* when the last run of the writer succeeded, its generation is all there  *)
(* is of the pack, whatever was there before.                              *)
THEOREM LoneWriterNeverStacks ==
  ASSUME LoneWriter, WholePack
  PROVE  Spec => []NeverStackSecondPack
<1>1. LoneInv => NeverStackSecondPack
  <2> SUFFICES ASSUME LoneInv, \A w \in Writers : pc[w] = "idle" /\ result[w] = "success"
               PROVE  Complete(PackSources) /\ \A s \in PackSources : title[s] \in Parts
      BY DEF NeverStackSecondPack
  <2>1. PICK w : Writers = {w}
    BY DEF LoneWriter
  <2>2. PackSources \subseteq served /\ Complete(served)
    BY <2>1 DEF LoneInv, StackInv
  <2>3. served \subseteq PackSources /\ \A s \in served : title[s] \in Parts
    BY DEF LoneInv, ServedInv, PackSources, PackTitles, Shelf, Ready, Live, LiveStatus
  <2>4. PackSources = served
    BY <2>2, <2>3
  <2> QED
    BY <2>2, <2>3, <2>4
<1> QED
  BY <1>1, LoneInductive, PTL

(* Only PollActive moves what is served, and no step retitles it.          *)
LEMMA ServedFrame ==
  ASSUME LoneInv, [Next]_vars, \A w \in Writers : ~PollActive(w)
  PROVE  served' = served /\ \A s \in served : title'[s] = title[s]
<1>1. \A s \in served : status[s] # "unborn" /\ s \in SourceIds
  BY DEF LoneInv, ServedInv, Shelf, Ready
<1>2. ASSUME NEW p \in Parts, NEW s \in SourceIds, Ingest(p, s)
      PROVE  \A t \in served : title'[t] = title[t]
  <2>1. status[s] = "unborn"
    BY <1>2 DEF Ingest, Fresh
  <2> QED
    BY <1>1, <1>2, <2>1 DEF Ingest, LoneInv, TypeOK
<1>3. ASSUME NEW w \in Writers, Begin(w)
      PROVE  served' = served /\ title' = title
  BY <1>3 DEF Begin, ListFails, Reject, List, notebook
<1>4. ASSUME NEW w \in Writers, NEW p \in Parts, NEW s \in SourceIds,
             Upload(w, p, s) \/ UploadAnswerLost(w, p, s)
      PROVE  served' = served /\ Ingest(p, s)
  BY <1>4 DEF Upload, UploadAnswerLost, StartRollback
<1>5. ASSUME NEW w \in Writers,
             \/ \E p \in Parts :
                  UploadFails(w, p) \/ \E s \in SourceIds : Reuse(w, p, s)
             \/ StartPoll(w) \/ PollError(w) \/ PollListFails(w)
             \/ PollInFlight(w) \/ PollAgain(w) \/ PollTimeout(w)
             \/ \E s \in SourceIds : Delete(w, s) \/ DeleteFails(w, s)
             \/ FinishCutover(w) \/ PartialCutover(w) \/ FinishRollback(w)
             \/ ClearQuarantine(w) \/ Crash(w)
      PROVE  served' = served /\ title' = title
  BY <1>5 DEF UploadFails, Reuse, StartPoll, PollError, PollListFails,
              PollInFlight, PollAgain,
              PollTimeout, Delete, DeleteFails, FinishCutover, PartialCutover,
              FinishRollback, ClearQuarantine, Crash, StartRollback, notebook
<1>6. ASSUME NEW s \in SourceIds, Index(s) PROVE served' = served /\ title' = title
  BY <1>6 DEF Index
<1>7. CASE UNCHANGED vars
  BY <1>7 DEF vars, notebook
<1> QED
  BY <1>2, <1>3, <1>4, <1>5, <1>6, <1>7 DEF Next, Progress

(* Stage all before dropping any: one complete generation is queryable at  *)
(* every moment, through failures, timeouts, lost answers and crashes, and *)
(* it gives way to the next one in a single step.                          *)
THEOREM LoneWriterServes ==
  ASSUME LoneWriter, WholePack
  PROVE  Spec => ImplementsServing
<1>1. LoneInv => Serving!Init
  BY DEF LoneInv, ServedInv, Complete, Serving!Init, Serving!Generation
<1>2. LoneInv /\ LoneInv' /\ [Next]_vars => [Serving!Next]_(Serving!vars)
  <2> SUFFICES ASSUME LoneInv, LoneInv', [Next]_vars PROVE Serving!Next
      OBVIOUS
  <2>1. ASSUME NEW w \in Writers, PollActive(w) PROVE Serving!Promote
    <3>1. served' = newGeneration[w] /\ pc'[w] = "cutover" /\ title' = title
          /\ status' = status
      BY <2>1 DEF PollActive, LoneInv, TypeOK, notebook
    <3>2. Complete(served)'
      BY <3>1 DEF LoneInv, ServedInv
    <3>3. Shelf' = Shelf
      BY <3>1 DEF Shelf, Ready
    <3>4. served' \subseteq Shelf
      BY <3>3 DEF LoneInv, ServedInv
    <3> QED
      BY <3>1, <3>2, <3>3, <3>4 DEF Serving!Promote, Serving!Generation, Complete
  <2>2. CASE \A w \in Writers : ~PollActive(w)
    <3>1. served' = served /\ \A s \in served : title'[s] = title[s]
      BY <2>2, ServedFrame
    <3>2. served' \subseteq Shelf'
      BY DEF LoneInv, ServedInv
    <3> QED
      BY <3>1, <3>2 DEF Serving!Next, Serving!Churn
  <2> QED
    BY <2>1, <2>2 DEF Serving!Next
<1>3. Init => LoneInv
  BY TypeInit, StagedInit, ServedInit, StackInit DEF LoneInv
<1> QED
  BY <1>1, <1>2, <1>3, LoneInductive, PTL DEF Spec, ImplementsServing, Serving!Spec

(* What a run leaves beside the served generation is in the quarantine     *)
(* file, unless a crash left it.                                           *)
THEOREM LoneResidueIsQuarantined ==
  ASSUME LoneWriter, WholePack
  PROVE  Spec => []ResidueIsQuarantined
<1>1. Init => ResidueIsQuarantined
  BY DEF Init, ResidueIsQuarantined
<1>2. LoneInv /\ ResidueIsQuarantined /\ [Next]_vars => ResidueIsQuarantined'
  <2> SUFFICES ASSUME LoneInv, ResidueIsQuarantined, [Next]_vars,
                      \A w \in Writers : pc'[w] = "idle", ~unreported'
               PROVE  quarantined' \/ PackSources' = served'
    BY DEF ResidueIsQuarantined
  <2>1. PICK w : Writers = {w}
    BY DEF LoneWriter
  <2>2. TypeOK /\ pc'[w] = "idle"
    BY <2>1 DEF LoneInv
  <2>3. served \subseteq PackSources
    BY DEF LoneInv, ServedInv, PackSources, PackTitles, Shelf, Ready, Live, LiveStatus
  <2>4. CASE Begin(w)
    <3>1. pc[w] = "idle" /\ UNCHANGED <<status, title, served, unreported>>
          /\ (quarantined => quarantined')
      BY <2>1, <2>2, <2>4 DEF Begin, ListFails, Reject, List, notebook, TypeOK
    <3>2. quarantined \/ PackSources = served
      BY <2>1, <3>1 DEF ResidueIsQuarantined
    <3>3. PackSources' = PackSources
      BY <3>1 DEF PackSources, Live
    <3>4. QED
      BY <3>1, <3>2, <3>3
  <2>5. CASE Progress(w)
    <3>1. FinishCutover(w) \/ PartialCutover(w) \/ FinishRollback(w)
      BY <2>2, <2>5 DEF Progress, UploadFails, MustUpload, Reuse, Upload, UploadAnswerLost,
         StartPoll, PollActive, PollError, PollListFails, PollInFlight, PollAgain,
         PollTimeout, Delete, DeleteFails, StartRollback, TypeOK
    <3>2. CASE PartialCutover(w) \/ FinishRollback(w)
      BY <3>2 DEF PartialCutover, FinishRollback
    <3>3. CASE FinishCutover(w)
      <4>1. PackSources \subseteq newGeneration[w] \cup toDelete[w]
            /\ served = newGeneration[w] /\ toDelete[w] = {}
        BY <2>1, <3>3 DEF FinishCutover, LoneInv, StackInv, ServedInv
      <4>2. PackSources' = PackSources /\ served' = served
        BY <3>3 DEF FinishCutover, notebook, PackSources, Live
      <4>3. QED
        BY <2>3, <4>1, <4>2
    <3>4. QED
      BY <3>1, <3>2, <3>3
  <2>6. CASE ClearQuarantine(w)
    <3>1. PackSources \subseteq served
      BY <2>1, <2>6 DEF ClearQuarantine, LoneInv, StackInv
    <3>2. PackSources' = PackSources /\ served' = served
      BY <2>6 DEF ClearQuarantine, notebook, PackSources, Live
    <3>3. QED
      BY <2>3, <3>1, <3>2
  <2>7. CASE Crash(w)
    BY <2>7 DEF Crash
  <2>8. ASSUME NEW s \in SourceIds, Index(s) PROVE quarantined' \/ PackSources' = served'
    <3>1. UNCHANGED <<title, served, unreported, quarantined, pc>>
      BY <2>8 DEF Index
    <3>2. PackSources' = PackSources
      BY <2>2, <2>8 DEF Index, PackSources, Live, LiveStatus, TypeOK
    <3>3. QED
      BY <3>1, <3>2 DEF ResidueIsQuarantined
  <2>9. CASE UNCHANGED vars
    BY <2>9 DEF vars, notebook, ResidueIsQuarantined, PackSources, Live
  <2>10. QED
    BY <2>1, <2>4, <2>5, <2>6, <2>7, <2>8, <2>9 DEF Next
<1>3. QED
  BY <1>1, <1>2, LoneInductive, PTL DEF Spec

---------------------------------------------------------------------------
(* Any number of writers.                                                  *)

(* Nobody turns on the reuse of sources that are there already.            *)
NoReuse == ReuseChoices = {FALSE}

(* The notebook has the pack from the start: one source of each part, and  *)
(* what is there is ready.                                                 *)
PackAtStart ==
  /\ InitialStatus \subseteq {"active", "unlabelled"}
  /\ \A p \in Parts : \E s \in DOMAIN Existing :
       Existing[s] = p /\ \A t \in DOMAIN Existing : Existing[t] = p => t = s

(* What a run deletes once it has cut over, as long as its locals last.    *)
Outdated(w) == oldSources[w] \ newGeneration[w]

(* Whose sources are whose: a run's generation is what it uploaded, which  *)
(* neither its listing nor another run has, and what it reuses, of which   *)
(* its listing has one per title; a cutover deletes what is outdated, a    *)
(* rollback what was uploaded.                                             *)
OwnedInv ==
  \A w \in Writers :
    /\ newGeneration[w] \subseteq newlyUploaded[w] \cup reusable[w]
    /\ newlyUploaded[w] \cap oldSources[w] = {}
    /\ \A v \in Writers \ {w} : newlyUploaded[v] \cap newlyUploaded[w] = {}
    /\ \A s \in oldSources[w] : status[s] # "unborn" /\ title[s] \in PackTitles
    /\ NoReuse => reusable[w] = {}
    /\ \A s \in reusable[w] :
         s \in oldSources[w] /\ \A t \in oldSources[w] : title[t] = title[s] => t = s
    /\ pc[w] = "cutover" => toDelete[w] \subseteq Outdated(w)
    /\ pc[w] = "rollback" => toDelete[w] \subseteq newlyUploaded[w]

(* Of two listings the later one shows what is left of the earlier one.    *)
OrderInv ==
  \A v, w \in Writers :
    \/ oldSources[v] \cap Live \subseteq oldSources[w]
    \/ oldSources[w] \cap Live \subseteq oldSources[v]

(* Queryable sources no run under way will delete as things stand.         *)
Kept ==
  {s \in Shelf : \A w \in Writers :
     /\ pc[w] \in Staging => s \notin newlyUploaded[w]
     /\ pc[w] \in {"cutover", "rollback"} => s \notin toDelete[w]}

(* Every part has such a source, and one that is not outdated for any run  *)
(* that is deleting its old generation.                                    *)
KeptInv ==
  /\ NoReuse \/ served # {}
  /\ \A p \in Parts :
       /\ served # {} => \E s \in Kept : title[s] = p
       /\ \A w \in Writers :
            pc[w] = "cutover" => \E s \in Kept : title[s] = p /\ s \notin Outdated(w)

LEMMA OwnedInit ==
  ASSUME NoReuse \/ PackAtStart, Init
  PROVE  OwnedInv /\ OrderInv /\ KeptInv
<1>1. OwnedInv /\ OrderInv
  BY DEF Init, OwnedInv, OrderInv
<1>2. Kept = Shelf
  BY DEF Init, Kept, Staging
<1>3. served # {} => \A p \in Parts : \E s \in Shelf : title[s] = p
  BY DEF Init, Complete
<1>4. NoReuse \/ served # {}
  <2> SUFFICES ASSUME PackAtStart PROVE served # {}
    OBVIOUS
  <2>1. Shelf = DOMAIN Existing /\ \A s \in DOMAIN Existing : title[s] = Existing[s]
    BY GateAssumption DEF Init, Shelf, Ready, PackAtStart
  <2>2. Complete(Shelf)
    BY <2>1 DEF Complete, PackAtStart
  <2>3. PICK p \in Parts : \E s \in Shelf : title[s] = p
    BY <2>2, GateAssumption DEF Complete
  <2>4. QED
    BY <2>2, <2>3 DEF Init
<1>5. QED
  BY <1>1, <1>2, <1>3, <1>4 DEF Init, KeptInv

(* A source that exists keeps its title, and no other appears but a fresh  *)
(* one.                                                                    *)
LEMMA IngestShape ==
  ASSUME TypeOK, NEW p \in Parts, NEW s \in SourceIds, Ingest(p, s)
  PROVE  /\ status[s] = "unborn" /\ status'[s] = "processing"
         /\ \A t \in SourceIds \ {s} : status'[t] = status[t] /\ title'[t] = title[t]
BY DEF Ingest, Fresh, TypeOK

(* Steps that change nothing but where a run is while it stages.           *)
Quiet(w) ==
  \/ ListFails(w) \/ StartPoll(w) \/ PollInFlight(w) \/ PollAgain(w) \/ ClearQuarantine(w)
  \/ \E files \in SUBSET Parts, expected \in ExpectedCounts : Reject(w, files, expected)

LEMMA QuietShape ==
  ASSUME TypeOK, NEW w \in Writers, Quiet(w)
  PROVE  /\ UNCHANGED <<status, title, reusable, oldSources, newGeneration,
                         newlyUploaded, toDelete, served>>
         /\ \A v \in Writers : pc'[v] = pc[v] \/ (pc[v] \in Staging /\ pc'[v] \in Staging)
BY DEF Quiet, ListFails, StartPoll, PollInFlight, PollAgain, ClearQuarantine, Reject,
   notebook, locals, Staging, TypeOK

(* Steps that end a run, and a crash: its locals are gone.                 *)
Ending(w) == FinishCutover(w) \/ PartialCutover(w) \/ FinishRollback(w) \/ Crash(w)

LEMMA EndingShape ==
  ASSUME TypeOK, NEW w \in Writers, Ending(w)
  PROVE  /\ UNCHANGED <<status, title, served>>
         /\ pc'[w] = "idle" /\ reusable'[w] = {} /\ oldSources'[w] = {}
         /\ newGeneration'[w] = {} /\ newlyUploaded'[w] = {}
         /\ \A v \in Writers \ {w} :
              /\ pc'[v] = pc[v] /\ reusable'[v] = reusable[v]
              /\ oldSources'[v] = oldSources[v] /\ newGeneration'[v] = newGeneration[v]
              /\ newlyUploaded'[v] = newlyUploaded[v] /\ toDelete'[v] = toDelete[v]
BY DEF Ending, FinishCutover, PartialCutover, FinishRollback, Crash, Leave, notebook, TypeOK

(* Steps that give a run up before its cutover, with nothing uploaded.     *)
GivingUp(w) ==
  \/ PollError(w) \/ PollListFails(w) \/ PollTimeout(w)
  \/ \E p \in Parts : UploadFails(w, p)

LEMMA GivingUpShape ==
  ASSUME TypeOK, NEW w \in Writers, GivingUp(w)
  PROVE  /\ UNCHANGED <<status, title, reusable, oldSources, newGeneration,
                         newlyUploaded, served>>
         /\ pc[w] \in Staging /\ pc' = [pc EXCEPT ![w] = "rollback"]
         /\ toDelete' = [toDelete EXCEPT ![w] = newlyUploaded[w]]
BY DEF GivingUp, PollError, PollListFails, PollTimeout, UploadFails, MustUpload,
   StartRollback, notebook, Staging

(* A delete, answered or not.                                              *)
LEMMA DeleteShape ==
  ASSUME TypeOK, NEW w \in Writers, NEW s \in SourceIds, Delete(w, s) \/ DeleteFails(w, s)
  PROVE  /\ UNCHANGED <<title, pc, reusable, oldSources, newGeneration, newlyUploaded,
                         served>>
         /\ pc[w] \in {"cutover", "rollback"} /\ s \in toDelete[w]
         /\ toDelete' = [toDelete EXCEPT ![w] = @ \ {s}]
         /\ status' = status \/ status' = [status EXCEPT ![s] = "deleted"]
BY DEF Delete, DeleteFails

LEMMA OwnedStep ==
  ASSUME TypeOK, StagedInv, OwnedInv, [Next]_vars
  PROVE  OwnedInv'
<1> USE DEF TypeOK, OwnedInv, Outdated
<1>1. ASSUME NEW w \in Writers, Quiet(w) PROVE OwnedInv'
  BY <1>1, QuietShape DEF Staging
<1>2. ASSUME NEW w \in Writers, Ending(w) PROVE OwnedInv'
  <2>1. UNCHANGED <<status, title>> /\ newlyUploaded'[w] = {}
    BY <1>2, EndingShape
  <2>2. \A v \in Writers : newlyUploaded'[v] \subseteq newlyUploaded[v]
    BY <1>2, EndingShape
  <2>3. \A v \in Writers :
          \/ /\ pc'[v] = "idle" /\ reusable'[v] = {} /\ newGeneration'[v] = {}
             /\ newlyUploaded'[v] = {} /\ oldSources'[v] = {}
          \/ /\ pc'[v] = pc[v] /\ reusable'[v] = reusable[v]
             /\ newGeneration'[v] = newGeneration[v] /\ oldSources'[v] = oldSources[v]
             /\ newlyUploaded'[v] = newlyUploaded[v] /\ toDelete'[v] = toDelete[v]
    BY <1>2, EndingShape
  <2>4. \A u, v \in Writers : u # v => newlyUploaded'[v] \cap newlyUploaded'[u] = {}
    BY <2>2
  <2>5. QED
    BY <2>1, <2>3, <2>4
<1>3. ASSUME NEW w \in Writers, GivingUp(w) PROVE OwnedInv'
  BY <1>3, GivingUpShape
<1>4. ASSUME NEW w \in Writers, NEW s \in SourceIds, Delete(w, s) \/ DeleteFails(w, s)
      PROVE  OwnedInv'
  BY <1>4, DeleteShape
<1>5. ASSUME NEW w \in Writers, NEW files \in SUBSET Parts, NEW expected \in ExpectedCounts,
             NEW allowReuse \in ReuseChoices, List(w, files, expected, allowReuse)
      PROVE  OwnedInv'
  <2>1. newGeneration[w] = {} /\ newlyUploaded[w] = {}
    BY <1>5 DEF List, StagedInv, Staged
  <2>2. \A s \in PackSources : status[s] # "unborn" /\ title[s] \in PackTitles
    BY ListedIsBorn DEF PackSources
  <2>3. \A s \in ExistsActive :
          s \in PackSources /\ \A t \in PackSources : title[t] = title[s] => t = s
    BY DEF ExistsActive, PackSources
  <2> DEFINE R == IF allowReuse THEN ExistsActive ELSE {}
  <2>4. /\ R \subseteq ExistsActive /\ (NoReuse => R = {})
        /\ reusable' = [reusable EXCEPT ![w] = R]
    BY <1>5 DEF List, NoReuse
  <2> HIDE DEF R
  <2>5. /\ pc' = [pc EXCEPT ![w] = "upload"]
        /\ oldSources' = [oldSources EXCEPT ![w] = PackSources]
        /\ UNCHANGED <<status, title, newGeneration, newlyUploaded, toDelete>>
    BY <1>5 DEF List, notebook
  <2>6. /\ reusable'[w] = R /\ oldSources'[w] = PackSources /\ pc'[w] = "upload"
        /\ \A v \in Writers \ {w} : /\ reusable'[v] = reusable[v] /\ pc'[v] = pc[v]
                                   /\ oldSources'[v] = oldSources[v]
    BY <2>4, <2>5
  <2>7. QED
    BY <2>1, <2>2, <2>3, <2>4, <2>5, <2>6
<1>6. ASSUME NEW w \in Writers, NEW p \in Parts, NEW s \in SourceIds, Reuse(w, p, s)
      PROVE  OwnedInv'
  <2>1. /\ pc[w] = "upload" /\ s \in reusable[w]
        /\ newGeneration' = [newGeneration EXCEPT ![w] = @ \cup {s}]
        /\ UNCHANGED <<status, title, pc, reusable, oldSources, newlyUploaded, toDelete>>
    BY <1>6 DEF Reuse, notebook
  <2>2. /\ newGeneration'[w] = newGeneration[w] \cup {s}
        /\ \A v \in Writers \ {w} : newGeneration'[v] = newGeneration[v]
    BY <2>1
  <2>3. \A v \in Writers : newGeneration'[v] \subseteq newlyUploaded'[v] \cup reusable'[v]
    BY <2>1, <2>2
  <2>4. \A v \in Writers : pc'[v] = "cutover" => toDelete'[v] \subseteq Outdated(v)'
    BY <2>1, <2>2
  <2>5. QED
    BY <2>1, <2>3, <2>4
<1>7. ASSUME NEW w \in Writers, NEW p \in Parts, NEW s \in SourceIds, Upload(w, p, s)
      PROVE  OwnedInv'
  <2>1. /\ status[s] = "unborn" /\ status'[s] = "processing"
        /\ \A t \in SourceIds \ {s} : status'[t] = status[t] /\ title'[t] = title[t]
    BY <1>7, IngestShape DEF Upload
  <2>2. /\ pc[w] = "upload" /\ UNCHANGED <<pc, reusable, oldSources, toDelete>>
        /\ newGeneration' = [newGeneration EXCEPT ![w] = @ \cup {s}]
        /\ newlyUploaded' = [newlyUploaded EXCEPT ![w] = @ \cup {s}]
    BY <1>7 DEF Upload, MustUpload
  <2>3. \A v \in Writers : s \notin newlyUploaded[v] /\ s \notin oldSources[v]
    BY <2>1 DEF StagedInv, Staged
  <2>4. /\ newGeneration'[w] = newGeneration[w] \cup {s}
        /\ newlyUploaded'[w] = newlyUploaded[w] \cup {s}
    BY <2>2
  <2>5. \A v \in Writers \ {w} :
          newGeneration'[v] = newGeneration[v] /\ newlyUploaded'[v] = newlyUploaded[v]
    BY <2>2
  <2>6. \A v \in Writers : \A t \in oldSources'[v] :
          status'[t] # "unborn" /\ title'[t] \in PackTitles
    BY <2>1, <2>2, <2>3
  <2>7. \A u, v \in Writers : u # v => newlyUploaded'[v] \cap newlyUploaded'[u] = {}
    BY <2>3, <2>4, <2>5
  <2>8. \A v \in Writers : newlyUploaded'[v] \cap oldSources'[v] = {}
    BY <2>2, <2>3, <2>4, <2>5
  <2>9. \A v \in Writers :
          /\ newGeneration'[v] \subseteq newlyUploaded'[v] \cup reusable'[v]
          /\ newlyUploaded[v] \subseteq newlyUploaded'[v]
          /\ Outdated(v)' = Outdated(v)
    BY <2>2, <2>3, <2>4, <2>5
  <2>10. \A v \in Writers :
           /\ pc'[v] = "cutover" => toDelete'[v] \subseteq Outdated(v)'
           /\ pc'[v] = "rollback" => toDelete'[v] \subseteq newlyUploaded'[v]
    BY <2>2, <2>9
  <2>11. \A v \in Writers :
           /\ NoReuse => reusable'[v] = {}
           /\ \A t \in reusable'[v] :
                t \in oldSources'[v] /\ \A u \in oldSources'[v] :
                                            title'[u] = title'[t] => u = t
    BY <2>1, <2>2, <2>3
  <2> HIDE DEF TypeOK, Outdated
  <2>12. QED
    BY <2>6, <2>7, <2>8, <2>9, <2>10, <2>11
<1>8. ASSUME NEW w \in Writers, NEW p \in Parts, NEW s \in SourceIds,
             UploadAnswerLost(w, p, s)
      PROVE  OwnedInv'
  <2>1. /\ status[s] = "unborn" /\ status'[s] = "processing"
        /\ \A t \in SourceIds \ {s} : status'[t] = status[t] /\ title'[t] = title[t]
    BY <1>8, IngestShape DEF UploadAnswerLost
  <2>2. /\ UNCHANGED <<reusable, oldSources, newGeneration, newlyUploaded>>
        /\ pc' = [pc EXCEPT ![w] = "rollback"]
        /\ toDelete' = [toDelete EXCEPT ![w] = newlyUploaded[w]]
    BY <1>8 DEF UploadAnswerLost, StartRollback
  <2>3. QED
    BY <2>1, <2>2
<1>9. ASSUME NEW w \in Writers, PollActive(w) PROVE OwnedInv'
  BY <1>9 DEF PollActive, notebook
<1>10. ASSUME NEW s \in SourceIds, Index(s) PROVE OwnedInv'
  BY <1>10 DEF Index, locals
<1>11. CASE UNCHANGED vars
  BY <1>11 DEF vars, notebook, locals
<1>12. QED
  BY <1>1, <1>2, <1>3, <1>4, <1>5, <1>6, <1>7, <1>8, <1>9, <1>10, <1>11
     DEF Next, Begin, Progress, Quiet, Ending, GivingUp

(* Sources that are listed are not born again, and the listing of a step   *)
(* shows what is live of every earlier one.                                *)
LEMMA OrderStep ==
  ASSUME TypeOK, OwnedInv, OrderInv, [Next]_vars
  PROVE  OrderInv'
<1> USE DEF TypeOK, OrderInv
<1>1. ASSUME NEW w \in Writers, Quiet(w) \/ GivingUp(w) PROVE OrderInv'
  BY <1>1, QuietShape, GivingUpShape DEF Live
<1>2. ASSUME NEW w \in Writers, Ending(w) PROVE OrderInv'
  <2>1. Live' = Live
    BY <1>2, EndingShape DEF Live
  <2>2. QED
    BY <1>2, <2>1, EndingShape
<1>3. ASSUME NEW w \in Writers, NEW s \in SourceIds, Delete(w, s) \/ DeleteFails(w, s)
      PROVE  OrderInv'
  <2>1. Live' \subseteq Live /\ oldSources' = oldSources
    BY <1>3, DeleteShape DEF Live, LiveStatus
  <2>2. QED
    BY <2>1
<1>4. ASSUME NEW w \in Writers, NEW files \in SUBSET Parts, NEW expected \in ExpectedCounts,
             NEW allowReuse \in ReuseChoices, List(w, files, expected, allowReuse)
      PROVE  OrderInv'
  <2>1. Live' = Live /\ oldSources' = [oldSources EXCEPT ![w] = PackSources]
    BY <1>4 DEF List, notebook, Live
  <2>2. \A v \in Writers : oldSources[v] \cap Live \subseteq PackSources
    BY DEF OwnedInv, PackSources
  <2>3. QED
    BY <2>1, <2>2
<1>5. ASSUME NEW w \in Writers, NEW p \in Parts, NEW s \in SourceIds,
             Upload(w, p, s) \/ UploadAnswerLost(w, p, s)
      PROVE  OrderInv'
  <2>1. oldSources' = oldSources /\ Ingest(p, s)
    BY <1>5 DEF Upload, UploadAnswerLost, StartRollback
  <2>2. status[s] = "unborn" /\ Live' \subseteq Live \cup {s}
    BY <2>1, IngestShape DEF Live
  <2>3. \A v \in Writers : s \notin oldSources[v]
    BY <2>2 DEF OwnedInv
  <2>4. QED
    BY <2>1, <2>2, <2>3
<1>6. ASSUME NEW w \in Writers,
             PollActive(w) \/ \E p \in Parts, s \in SourceIds : Reuse(w, p, s)
      PROVE  OrderInv'
  BY <1>6 DEF PollActive, Reuse, notebook, Live
<1>7. ASSUME NEW s \in SourceIds, Index(s) PROVE OrderInv'
  <2>1. Live' = Live /\ oldSources' = oldSources
    BY <1>7 DEF Index, locals, Live, LiveStatus
  <2>2. QED
    BY <2>1
<1>8. CASE UNCHANGED vars
  BY <1>8 DEF vars, notebook, locals, Live
<1>9. QED
  BY <1>1, <1>2, <1>3, <1>4, <1>5, <1>6, <1>7, <1>8
     DEF Next, Begin, Progress, Quiet, Ending, GivingUp

(* Steps that take nothing away from Kept and start no cutover.            *)
LEMMA KeptStays ==
  ASSUME KeptInv, Kept \subseteq Kept', \A s \in Kept : title'[s] = title[s],
         served' = served,
         \A w \in Writers : pc'[w] = "cutover" =>
           pc[w] = "cutover" /\ Outdated(w)' = Outdated(w)
  PROVE  KeptInv'
BY DEF KeptInv

(* A cutover starts.  A part the run reuses was the only one of its title  *)
(* in its listing, so that the run deletes none of that title.  If it      *)
(* uploaded the part, either nobody is about to delete the upload, or a    *)
(* run that does listed it, later than this run listed, and something      *)
(* younger still is kept for that run.  Whatever it is, it takes the place *)
(* of all that this run is about to delete.                                *)
LEMMA KeptAtCutover ==
  ASSUME WholePack, TypeOK, StagedInv, OwnedInv, OrderInv, KeptInv,
         NEW w \in Writers, PollActive(w)
  PROVE  KeptInv'
<1>1. /\ pc[w] = "poll" /\ pc' = [pc EXCEPT ![w] = "cutover"]
      /\ toDelete' = [toDelete EXCEPT ![w] = Outdated(w)]
      /\ UNCHANGED <<status, title, oldSources, newGeneration, newlyUploaded>>
      /\ served' = newGeneration[w]
      /\ \A s \in newGeneration[w] : Ready(s)
  BY DEF PollActive, notebook, Outdated
<1>2. pc'[w] = "cutover" /\ toDelete'[w] = Outdated(w)
  BY <1>1 DEF TypeOK
<1>3. \A v \in Writers \ {w} : pc'[v] = pc[v] /\ toDelete'[v] = toDelete[v]
  BY <1>1 DEF TypeOK
<1>4. Shelf' = Shelf /\ \A v \in Writers : Outdated(v)' = Outdated(v)
  BY <1>1 DEF Shelf, Ready, Outdated
<1>5. Kept \ Outdated(w) \subseteq Kept'
  BY <1>1, <1>2, <1>3, <1>4 DEF Kept, Staging
<1>6. Kept \cup Kept' \subseteq Live
  BY <1>4 DEF Kept, Shelf, Ready, Live, LiveStatus
<1>7. \A p \in Parts : \E g \in newGeneration[w] : title[g] = p
  BY <1>1 DEF StagedInv, Staged, Staging, One
<1>8. served' # {}
  BY <1>1, <1>7, GateAssumption
<1>9. ASSUME NEW p \in Parts
      PROVE  /\ \E s \in Kept' : title[s] = p /\ s \notin Outdated(w)
             /\ \A u \in Writers \ {w} : pc[u] = "cutover" =>
                  \E s \in Kept' : title[s] = p /\ s \notin Outdated(u)
  <2>1. PICK g \in newGeneration[w] : title[g] = p
    BY <1>7
  <2>2. CASE g \in reusable[w]
    <3>1. \A s \in Outdated(w) : title[s] # p
      BY <2>1, <2>2 DEF OwnedInv, Outdated
    <3>2. \A s \in Kept : title[s] = p => s \in Kept' /\ s \notin Outdated(w)
      BY <1>5, <3>1
    <3>3. served # {}
      BY <2>2 DEF KeptInv, OwnedInv
    <3>4. QED
      BY <3>2, <3>3 DEF KeptInv
  <2>3. CASE g \notin reusable[w]
    <3>1. g \in Shelf /\ g \in newlyUploaded[w] /\ g \notin oldSources[w]
      BY <1>1, <2>1, <2>3 DEF Shelf, OwnedInv, TypeOK
    <3>2. \E s \in Kept' : title[s] = p /\ s \notin oldSources[w]
      <4>1. CASE \A v \in Writers \ {w} : pc[v] = "cutover" => g \notin toDelete[v]
        <5>1. \A v \in Writers \ {w} : /\ g \notin newlyUploaded[v]
                                       /\ pc[v] = "rollback" => g \notin toDelete[v]
          BY <3>1 DEF OwnedInv
        <5>2. g \in Kept'
          BY <1>1, <1>2, <1>3, <1>4, <3>1, <4>1, <5>1 DEF Kept, Staging, Outdated
        <5>3. QED
          BY <2>1, <3>1, <5>2
      <4>2. ASSUME NEW v \in Writers, pc[v] = "cutover", g \in toDelete[v]
            PROVE  \E s \in Kept' : title[s] = p /\ s \notin oldSources[w]
        <5>1. g \in Outdated(v) /\ g \in oldSources[v] /\ g \in Live
          BY <3>1, <4>2 DEF OwnedInv, Outdated, Shelf, Ready, Live, LiveStatus
        <5>2. oldSources[w] \cap Live \subseteq oldSources[v]
          BY <3>1, <5>1 DEF OrderInv
        <5>3. PICK s \in Kept : title[s] = p /\ s \notin Outdated(v)
          BY <4>2 DEF KeptInv
        <5>4. s \notin oldSources[v]
          <6>1. s \in newGeneration[v] => s \in newlyUploaded[v] \/ s \in reusable[v]
            BY DEF OwnedInv
          <6>2. s \in newlyUploaded[v] => s \notin oldSources[v]
            BY DEF OwnedInv
          <6>3. s \in reusable[v] => g = s
            BY <2>1, <5>1, <5>3 DEF OwnedInv
          <6>4. QED
            BY <5>1, <5>3, <6>1, <6>2, <6>3 DEF Outdated
        <5>5. s \notin oldSources[w]
          BY <1>6, <5>2, <5>4
        <5>6. QED
          BY <1>5, <5>3, <5>5 DEF Outdated
      <4>3. QED
        BY <4>1, <4>2
    <3>3. PICK s \in Kept' : title[s] = p /\ s \notin oldSources[w]
      BY <3>2
    <3>4. ASSUME NEW u \in Writers \ {w}, pc[u] = "cutover"
          PROVE  \E t \in Kept' : title[t] = p /\ t \notin Outdated(u)
      <4>1. PICK t \in Kept : title[t] = p /\ t \notin Outdated(u)
        BY <3>4 DEF KeptInv
      <4>2. CASE t \notin Outdated(w)
        BY <1>5, <4>1, <4>2
      <4>3. CASE t \in Outdated(w) /\ t \notin oldSources[u]
        <5>1. oldSources[u] \cap Live \subseteq oldSources[w]
          BY <1>6, <4>1, <4>3 DEF OrderInv, Outdated
        <5>2. s \notin Outdated(u)
          BY <1>6, <3>3, <5>1 DEF Outdated
        <5>3. QED
          BY <3>3, <5>2
      <4>4. CASE t \in oldSources[u]
        <5>1. t \in reusable[u]
          BY <4>1, <4>4 DEF OwnedInv, Outdated
        <5>2. \A x \in oldSources[u] : title[x] = p => x = t
          BY <4>1, <5>1 DEF OwnedInv
        <5>3. s \notin Outdated(u)
          BY <3>3, <4>1, <5>2 DEF Outdated
        <5>4. QED
          BY <3>3, <5>3
      <4>5. QED
        BY <4>2, <4>3, <4>4
    <3>5. QED
      BY <3>3, <3>4 DEF Outdated
  <2>4. QED
    BY <2>2, <2>3
<1>10. QED
  <2>1. \A u \in Writers : pc'[u] = "cutover" => u = w \/ pc[u] = "cutover"
    BY <1>3
  <2>2. \A p \in Parts : \E s \in Kept' : title[s] = p
    BY <1>9
  <2>3. \A p \in Parts, u \in Writers : pc'[u] = "cutover" =>
          \E s \in Kept' : title[s] = p /\ s \notin Outdated(u)
    BY <1>9, <2>1
  <2>4. QED
    BY <1>1, <1>4, <1>8, <2>2, <2>3 DEF KeptInv

LEMMA KeptStep ==
  ASSUME WholePack, TypeOK, StagedInv, OwnedInv, OrderInv, KeptInv, [Next]_vars
  PROVE  KeptInv'
<1> USE DEF Outdated
<1>1. ASSUME NEW w \in Writers, Quiet(w) PROVE KeptInv'
  <2>1. Kept \subseteq Kept'
    BY <1>1, QuietShape DEF Kept, Shelf, Ready, Staging
  <2>2. QED
    BY <1>1, <2>1, QuietShape, KeptStays DEF Staging
<1>2. ASSUME NEW w \in Writers, Ending(w) PROVE KeptInv'
  <2>1. Kept \subseteq Kept'
    BY <1>2, EndingShape DEF Kept, Shelf, Ready, Staging
  <2>2. QED
    BY <1>2, <2>1, EndingShape, KeptStays
<1>3. ASSUME NEW w \in Writers, GivingUp(w) PROVE KeptInv'
  <2>1. Kept \subseteq Kept'
    BY <1>3, GivingUpShape DEF Kept, Shelf, Ready, TypeOK
  <2>2. QED
    BY <1>3, <2>1, GivingUpShape, KeptStays DEF TypeOK
<1>4. ASSUME NEW w \in Writers, NEW s \in SourceIds, Delete(w, s) \/ DeleteFails(w, s)
      PROVE  KeptInv'
  <2>1. Kept \subseteq Kept'
    BY <1>4, DeleteShape DEF Kept, Shelf, Ready, TypeOK
  <2>2. QED
    BY <1>4, <2>1, DeleteShape, KeptStays
<1>5. ASSUME NEW w \in Writers, NEW files \in SUBSET Parts, NEW expected \in ExpectedCounts,
             NEW allowReuse \in ReuseChoices, List(w, files, expected, allowReuse)
      PROVE  KeptInv'
  <2>1. newlyUploaded[w] = {}
    BY <1>5 DEF List, StagedInv, Staged
  <2>2. Kept \subseteq Kept'
    BY <1>5, <2>1 DEF List, notebook, Kept, Shelf, Ready, TypeOK
  <2>3. QED
    BY <1>5, <2>2, KeptStays DEF List, notebook, TypeOK
<1>6. ASSUME NEW w \in Writers, NEW p \in Parts, NEW s \in SourceIds,
             Upload(w, p, s) \/ UploadAnswerLost(w, p, s)
      PROVE  KeptInv'
  <2>1. Ingest(p, s) /\ served' = served /\ oldSources' = oldSources
    BY <1>6 DEF Upload, UploadAnswerLost, StartRollback
  <2>2. s \notin Kept /\ \A t \in SourceIds \ {s} :
                            status'[t] = status[t] /\ title'[t] = title[t]
    BY <2>1, IngestShape DEF Kept, Shelf, Ready
  <2>3. Kept \subseteq Shelf'
    BY <2>2 DEF Kept, Shelf, Ready
  <2>4. CASE Upload(w, p, s)
    <3>1. /\ UNCHANGED <<pc, toDelete>>
          /\ newlyUploaded' = [newlyUploaded EXCEPT ![w] = @ \cup {s}]
          /\ pc[w] = "upload" /\ \A v \in Writers \ {w} : newGeneration'[v] = newGeneration[v]
      BY <2>4 DEF Upload, MustUpload, TypeOK
    <3>2. Kept \subseteq Kept'
      BY <2>2, <2>3, <3>1 DEF Kept, TypeOK
    <3>3. QED
      BY <2>1, <2>2, <3>1, <3>2, KeptStays DEF Kept, Shelf
  <2>5. CASE UploadAnswerLost(w, p, s)
    <3>1. /\ pc[w] = "upload" /\ pc' = [pc EXCEPT ![w] = "rollback"]
          /\ toDelete' = [toDelete EXCEPT ![w] = newlyUploaded[w]]
          /\ newlyUploaded' = newlyUploaded /\ newGeneration' = newGeneration
      BY <2>5 DEF UploadAnswerLost, MustUpload, StartRollback
    <3>2. Kept \subseteq Kept'
      BY <2>2, <2>3, <3>1 DEF Kept, Staging, TypeOK
    <3>3. QED
      BY <2>1, <2>2, <3>1, <3>2, KeptStays DEF Kept, Shelf, TypeOK
  <2>6. QED
    BY <1>6, <2>4, <2>5
<1>7. ASSUME NEW w \in Writers, NEW p \in Parts, NEW s \in SourceIds, Reuse(w, p, s)
      PROVE  KeptInv'
  <2>1. Kept \subseteq Kept' /\ pc[w] = "upload"
    BY <1>7 DEF Reuse, notebook, Kept, Shelf, Ready
  <2>2. QED
    BY <1>7, <2>1, KeptStays DEF Reuse, notebook, TypeOK
<1>8. ASSUME NEW w \in Writers, PollActive(w) PROVE KeptInv'
  BY <1>8, KeptAtCutover
<1>9. ASSUME NEW s \in SourceIds, Index(s) PROVE KeptInv'
  <2>1. Kept \subseteq Kept'
    BY <1>9 DEF Index, locals, Kept, Shelf, Ready, TypeOK
  <2>2. QED
    BY <1>9, <2>1, KeptStays DEF Index, locals
<1>10. CASE UNCHANGED vars
  BY <1>10, KeptStays DEF vars, notebook, locals, Kept, Shelf, Ready
<1>11. QED
  BY <1>1, <1>2, <1>3, <1>4, <1>5, <1>6, <1>7, <1>8, <1>9, <1>10
     DEF Next, Begin, Progress, Quiet, Ending, GivingUp

SharedInv == TypeOK /\ StagedInv /\ OwnedInv /\ OrderInv /\ KeptInv

(* However many writers delete from listings the others have outdated, no  *)
(* part is ever without a queryable source once a generation was served,   *)
(* provided that every call counts the whole pack, and that none reuses    *)
(* sources or the pack was there from the start.                           *)
THEOREM WritersKeepAPack ==
  ASSUME WholePack, NoReuse \/ PackAtStart
  PROVE  Spec => []NeverWithoutPack
<1>1. Init => SharedInv
  BY TypeInit, StagedInit, OwnedInit DEF SharedInv
<1>2. SharedInv /\ [Next]_vars => SharedInv'
  BY TypeStep, StagedStep, OwnedStep, OrderStep, KeptStep DEF SharedInv
<1>3. SharedInv => NeverWithoutPack
  BY DEF SharedInv, KeptInv, Kept, NeverWithoutPack
<1>4. QED
  BY <1>1, <1>2, <1>3, PTL DEF Spec
=============================================================================

--------------------- MODULE ClosedLoopResearchProofs ----------------------
(***************************************************************************)
(* Proofs about the closed loop research runner, for any notebooks, any    *)
(* sources and local files, and any bounds.                                *)
(***************************************************************************)
EXTENDS ClosedLoopResearch, TLAPS

(* The steps at which the listing of the notebook in hand is in use. *)
InUse == {"evaluate", "spans", "hashes", "save", "cascade", "forget"}
Deleting == {"cascade", "forget"}

(* A notebook has its own sources only. *)
LiveIsOwn == \A n \in Notebooks : live[n] \subseteq SourcesOf[n]

(* A fingerprint or a listing is all sources or all local files. *)
OneKind ==
  /\ \A n \in Notebooks : fp[n] \subseteq SourcesOf[n] \/ fp[n] \subseteq DiskIds
  /\ pc \in InUse => list \subseteq SourcesOf[Nb] \/ list \subseteq Disk[Nb]

(* What was listed once is still there or was removed. *)
SeenOrGone ==
  /\ \A n \in Notebooks : fp[n] \cap Sources \subseteq live[n] \cup gone
  /\ pc \in InUse => list \cap Sources \subseteq live[Nb] \cup gone

(* The tables are ahead of the step that relies on them. *)
SpanOf(n) == spans \cap (SourcesOf[n] \cup Disk[n]) # {}

TablesAhead ==
  /\ pc \in {"hashes", "save"} => SpanOf(Nb)
  /\ pc = "save" => list \subseteq mined /\ Nb \in hashes

(* A deletion drops sources that are gone, and flags them first. *)
DeletionIsTrue ==
  /\ pc \in Deleting =>
       /\ list \subseteq fp[Nb]
       /\ (fp[Nb] \ list) \cap Sources \subseteq gone
  /\ pc = "forget" => fp[Nb] \ list \subseteq flagged

IInv ==
  /\ TypeOK /\ LiveIsOwn /\ OneKind /\ SeenOrGone /\ TablesAhead /\ DeletionIsTrue
  /\ MinedBeforeRemembered /\ FactsFollowRemovals

(* The steps that write a table. *)
LEMMA TableSteps ==
  DOMAIN TableAt = {"cascade", "spans", "hashes", "save", "forget", "cadence", "demote"}
BY DEF TableAt

LEMMA TableOfStep ==
  ASSUME NEW p \in DOMAIN TableAt
  PROVE  TableAt[p] \in Tables
BY TableSteps DEF TableAt, Tables

(* While a notebook is in hand, the position is that of a notebook. *)
LEMMA InHand ==
  ASSUME TypeOK, pc # "off", pc # "visit"
  PROVE  at \in 1 .. Len(walk) /\ Nb \in Notebooks
<1>1. at \in 0 .. Len(walk) + 1 /\ at # 0 /\ at # Len(walk) + 1
  BY DEF TypeOK
<1>2. walk \in Seq(Notebooks) /\ Len(walk) \in Nat
  BY DEF TypeOK
<1> QED
  BY <1>1, <1>2 DEF Nb

(* Type correctness holds at the start and is kept by every step. *)
LEMMA InitType == LoopAssumption /\ Init => TypeOK
BY TableSteps DEF LoopAssumption, Init, TypeOK, Ids

LEMMA NextType ==
  ASSUME LoopAssumption, TypeOK, [Next]_vars
  PROVE  TypeOK'
<1> USE LoopAssumption, TableSteps DEF LoopAssumption, TypeOK, Ids
<1>l. Len(walk) \in Nat
  OBVIOUS
<1>1. ASSUME NEW m \in {"active", "weekly", "target"}, NEW w \in Seq(Notebooks),
             Begin(m, w)
      PROVE  TypeOK'
  BY <1>1 DEF Begin, files, ghosts
<1>2. CASE Finish
  BY <1>2 DEF Finish, End, files, ghosts
<1>3. CASE Visit
  BY <1>3, <1>l DEF Visit, files, ghosts
<1>4. CASE Demote
  BY <1>4, <1>l, InHand DEF Demote, MayWrite, files, ghosts
<1>5. ASSUME NEW n \in Notebooks, ListRemote(n) PROVE TypeOK'
  BY <1>5, <1>l, InHand DEF ListRemote, Compare, files, ghosts
<1>6. CASE ListLocal
  BY <1>6, <1>l, InHand DEF ListLocal, Compare, files, ghosts
<1>7. CASE ListNothing
  BY <1>7 DEF ListNothing, End, files, ghosts
<1>8. CASE Cascade
  BY <1>8, InHand DEF Cascade, MayWrite, FactsToFlag, Removed, ghosts
<1>9. CASE Forget
  BY <1>9, <1>l, InHand DEF Forget, MayWrite, ghosts
<1>10. CASE Evaluate
  BY <1>10, InHand DEF Evaluate, files, ghosts
<1>11. CASE CommitSpans
  BY <1>11, InHand DEF CommitSpans, MayWrite, ghosts
<1>12. CASE CommitHashes
  BY <1>12, InHand DEF CommitHashes, MayWrite, ghosts
<1>13. CASE SaveFingerprint
  BY <1>13, InHand DEF SaveFingerprint, SourcesListed, Removed, MayWrite
<1>14. CASE SaveCadence
  BY <1>14, <1>l, InHand DEF SaveCadence, MayWrite, ghosts
<1>15. CASE LockTimesOut
  BY <1>15 DEF LockTimesOut, End, files, ghosts
<1>16. CASE Die
  BY <1>16, TableOfStep DEF Die, End, files, ghosts
<1>17. CASE LocksAge
  BY <1>17 DEF LocksAge, files, run, ghosts
<1>18. ASSUME NEW n \in Notebooks, NEW s \in Sources, Add(n, s) \/ Delete(n, s)
       PROVE TypeOK'
  <2>1. UNCHANGED <<fp, keys, cadence, flagged, spans, hashes, stuck, pc, mode, walk,
                    at, list, gaps, mined, known, replaced, crashes>>
    BY <1>18 DEF Add, Delete, files, run
  <2>2. live' \in [Notebooks -> SUBSET Sources]
    BY <1>18 DEF Add, Delete
  <2>4. gone' \subseteq Sources
    BY <1>18 DEF Add, Delete
  <2>5. late' \subseteq Sources
    BY <1>18 DEF Add, Delete
  <2>3. changes' \in 0 .. MaxChanges
    BY <1>18 DEF Add, Delete
  <2> QED
    BY <2>1, <2>2, <2>3, <2>4, <2>5
<1>19. ASSUME NEW n \in Notebooks, BecomeIdle(n) PROVE TypeOK'
  <2>1. cadence' \in [Notebooks -> {"none", "recent", "idle"}]
    BY <1>19 DEF BecomeIdle
  <2> QED
    BY <1>19, <2>1 DEF BecomeIdle, run, ghosts
<1>20. CASE UNCHANGED vars
  BY <1>20 DEF vars, files, run, ghosts
<1>23. CASE NoGap
  BY <1>23 DEF NoGap, End, files, ghosts
<1>24. ASSUME NEW n \in Notebooks, EditRegistry(n) PROVE TypeOK'
  <2>1. gaps' \subseteq WithPrefix /\ changes' \in 0 .. MaxChanges
    BY <1>24 DEF EditRegistry
  <2> QED
    BY <1>24, <2>1 DEF EditRegistry, files, run, ghosts
<1>21. ASSUME NEW m \in {"active", "weekly"}, Start(m) PROVE TypeOK'
  BY <1>1, <1>21 DEF Start
<1>22. ASSUME NEW n \in Notebooks, StartOn(n) PROVE TypeOK'
  <2>1. <<n>> \in Seq(Notebooks)
    OBVIOUS
  <2> QED
    BY <1>1, <1>22, <2>1 DEF StartOn
<1> QED
  BY <1>21, <1>22, <1>2, <1>3, <1>4, <1>5, <1>6, <1>7, <1>8, <1>9, <1>10, <1>11, <1>12,
     <1>13, <1>14, <1>15, <1>16, <1>17, <1>18, <1>19, <1>20, <1>23, <1>24 DEF Next, Step

(* The data of the invariant at the start. *)
LEMMA InitIInv == LoopAssumption /\ Init => IInv
BY InitType DEF LoopAssumption, Init, IInv, LiveIsOwn, OneKind, InUse, SeenOrGone,
   TablesAhead, DeletionIsTrue, Deleting, MinedBeforeRemembered, FactsFollowRemovals

(* Deleting steps are taken with a listing that lost ids and gained none. *)
LEMMA DeltaDeleted ==
  ASSUME NEW cached, NEW current, Delta(cached, current) = "deleted"
  PROVE  current \subseteq cached
BY DEF Delta, Removed, Added

(* The listing is compared with the fingerprint: what is known of it then. *)
LEMMA CompareKeeps ==
  ASSUME LoopAssumption, IInv, TypeOK', pc = "list", NEW listing,
         listing # {}, Compare(listing),
         listing = live[Nb] \/ listing = Disk[Nb]
  PROVE  IInv'
<1> USE LoopAssumption DEF IInv
<1>1. Nb \in Notebooks
  BY InHand
<1>2. UNCHANGED <<live, fp, flagged, spans, hashes, mined, known, gone, replaced>>
  BY DEF Compare, files, ghosts
<1>3. /\ listing \subseteq SourcesOf[Nb] \/ listing \subseteq Disk[Nb]
      /\ listing \cap Sources \subseteq live[Nb] \cup gone
  BY <1>1 DEF LoopAssumption, LiveIsOwn
<1>4. CASE pc' = "visit"
  <2>1. LiveIsOwn' /\ OneKind' /\ SeenOrGone'
    BY <1>2, <1>4 DEF LiveIsOwn, OneKind, InUse, SeenOrGone
  <2>2. TablesAhead' /\ DeletionIsTrue'
    BY <1>4 DEF TablesAhead, DeletionIsTrue, Deleting
  <2>3. MinedBeforeRemembered' /\ FactsFollowRemovals'
    BY <1>2 DEF MinedBeforeRemembered, FactsFollowRemovals
  <2> QED
    BY <2>1, <2>2, <2>3
<1>5. CASE pc' # "visit"
  <2>1. pc' \in {"cascade", "evaluate"} /\ list' = listing /\ at' = at /\ Nb' = Nb
    BY <1>5 DEF Compare, Delta, Nb
  <2>2. LiveIsOwn' /\ OneKind' /\ SeenOrGone'
    BY <1>2, <1>3, <2>1 DEF LiveIsOwn, OneKind, SeenOrGone
  <2>3. TablesAhead' /\ MinedBeforeRemembered' /\ FactsFollowRemovals'
    BY <1>2, <2>1 DEF TablesAhead, MinedBeforeRemembered, FactsFollowRemovals
  <2>4. DeletionIsTrue'
    <3>1. CASE pc' # "cascade"
      BY <3>1, <2>1 DEF DeletionIsTrue, Deleting
    <3>2. CASE pc' = "cascade"
      <4>1. listing \subseteq fp[Nb]
        BY <3>2, DeltaDeleted DEF Compare
      <4>2. CASE listing = live[Nb]
        BY <4>2, <1>1, <1>2, <2>1, <3>2, <4>1 DEF DeletionIsTrue, SeenOrGone
      <4>3. CASE listing = Disk[Nb]
        <5>1. listing \subseteq DiskIds
          BY <4>3, <1>1 DEF LoopAssumption
        <5>2. fp[Nb] \cap Sources = {}
          <6>1. PICK x \in listing : x \in DiskIds /\ x \in fp[Nb]
            BY <4>1, <5>1
          <6>2. x \notin SourcesOf[Nb]
            BY <1>1, <6>1 DEF LoopAssumption
          <6> QED
            BY <1>1, <6>1, <6>2 DEF OneKind, LoopAssumption
        <5> QED
          BY <5>2, <1>2, <2>1, <3>2, <4>1 DEF DeletionIsTrue
      <4> QED
        BY <4>2, <4>3
    <3> QED
      BY <3>1, <3>2
  <2> QED
    BY <2>2, <2>3, <2>4
<1> QED
  BY <1>4, <1>5

(* A step that touches no table the invariant is about, and ends with no *)
(* listing in use.                                                       *)
LEMMA ReleaseKeeps ==
  ASSUME IInv, TypeOK', pc' \notin InUse,
         UNCHANGED <<live, fp, flagged, spans, hashes, mined, known, gone, replaced>>
  PROVE  IInv'
<1> USE DEF IInv
<1>1. LiveIsOwn' /\ OneKind' /\ SeenOrGone'
  BY DEF LiveIsOwn, OneKind, SeenOrGone
<1>2. TablesAhead' /\ DeletionIsTrue'
  BY DEF TablesAhead, DeletionIsTrue, Deleting, InUse
<1>3. MinedBeforeRemembered' /\ FactsFollowRemovals'
  BY DEF MinedBeforeRemembered, FactsFollowRemovals
<1> QED
  BY <1>1, <1>2, <1>3

(* The same for a step that leaves the run where it is. *)
LEMMA StayKeeps ==
  ASSUME IInv, TypeOK',
         UNCHANGED <<live, fp, flagged, spans, hashes, mined, known, gone, replaced,
                     pc, walk, at, list>>
  PROVE  IInv'
<1> USE DEF IInv
<1>1. LiveIsOwn' /\ OneKind' /\ SeenOrGone'
  BY DEF LiveIsOwn, OneKind, SeenOrGone, Nb
<1>2. TablesAhead' /\ DeletionIsTrue'
  BY DEF TablesAhead, SpanOf, DeletionIsTrue, Nb
<1>3. MinedBeforeRemembered' /\ FactsFollowRemovals'
  BY DEF MinedBeforeRemembered, FactsFollowRemovals
<1> QED
  BY <1>1, <1>2, <1>3

(* Flagging: the sources that are flagged are gone. *)
LEMMA CascadeKeeps ==
  ASSUME LoopAssumption, IInv, TypeOK', Cascade
  PROVE  IInv'
<1> USE DEF IInv, Cascade, MayWrite, FactsToFlag, Removed, ghosts
<1>1. Nb' = Nb /\ list' = list /\ pc = "cascade" /\ pc' = "forget" /\ fp' = fp
  BY DEF Nb
<1>2. LiveIsOwn' /\ OneKind' /\ SeenOrGone'
  BY <1>1 DEF LiveIsOwn, OneKind, SeenOrGone, InUse
<1>3. TablesAhead' /\ MinedBeforeRemembered'
  BY <1>1 DEF TablesAhead, MinedBeforeRemembered
<1>4. DeletionIsTrue'
  BY <1>1 DEF DeletionIsTrue, Deleting
<1>5. FactsFollowRemovals'
  BY <1>1 DEF FactsFollowRemovals, DeletionIsTrue, Deleting
<1> QED
  BY <1>2, <1>3, <1>4, <1>5

(* Forgetting: what the fingerprint loses was flagged. *)
LEMMA ForgetKeeps ==
  ASSUME LoopAssumption, IInv, TypeOK', Forget
  PROVE  IInv'
<1> USE DEF IInv, Forget, MayWrite, ghosts
<1>1. Nb \in Notebooks
  BY InHand
<1>2. /\ pc = "forget" /\ pc' = "visit" /\ fp' = [fp EXCEPT ![Nb] = list]
      /\ fp \in [Notebooks -> SUBSET Ids]
      /\ list \subseteq fp[Nb] /\ fp[Nb] \ list \subseteq flagged
  BY DEF TypeOK, DeletionIsTrue, Deleting
<1>3. fp'[Nb] = list /\ \A n \in Notebooks : n # Nb => fp'[n] = fp[n]
  BY <1>1, <1>2
<1>4. \A n \in Notebooks : fp'[n] \subseteq fp[n]
  BY <1>2, <1>3
<1>5. LiveIsOwn' /\ OneKind' /\ SeenOrGone'
  BY <1>2, <1>4 DEF LiveIsOwn, OneKind, SeenOrGone, InUse
<1>6. TablesAhead' /\ DeletionIsTrue'
  BY <1>2 DEF TablesAhead, DeletionIsTrue, Deleting
<1>7. MinedBeforeRemembered'
  BY <1>4 DEF MinedBeforeRemembered
<1>8. FactsFollowRemovals'
  <2>1. ASSUME NEW x \in known, x \notin UNION {fp'[n] : n \in Notebooks}
        PROVE  x \in flagged \cup replaced
    <3>1. CASE x \in UNION {fp[n] : n \in Notebooks}
      BY <1>1, <1>2, <1>3, <2>1, <3>1
    <3>2. CASE x \notin UNION {fp[n] : n \in Notebooks}
      BY <2>1, <3>2 DEF FactsFollowRemovals
    <3> QED
      BY <3>1, <3>2
  <2> QED
    BY <2>1 DEF FactsFollowRemovals
<1> QED
  BY <1>5, <1>6, <1>7, <1>8

(* Saving: both tables have the listing, and its ids are as they were. *)
LEMMA SaveKeeps ==
  ASSUME LoopAssumption, IInv, TypeOK', SaveFingerprint
  PROVE  IInv'
<1> USE DEF IInv, SaveFingerprint, MayWrite, SourcesListed, Removed
<1>1. Nb \in Notebooks
  BY InHand
<1>2. /\ pc = "save" /\ pc' = "cadence" /\ fp' = [fp EXCEPT ![Nb] = list]
      /\ fp \in [Notebooks -> SUBSET Ids]
      /\ list \subseteq mined /\ Nb \in hashes /\ SpanOf(Nb)
      /\ UNCHANGED <<spans, hashes, mined>>
  BY DEF TypeOK, TablesAhead
<1>3. fp'[Nb] = list /\ \A n \in Notebooks : n # Nb => fp'[n] = fp[n]
  BY <1>1, <1>2
<1>5. LiveIsOwn' /\ OneKind' /\ SeenOrGone'
  <2>1. /\ list \subseteq SourcesOf[Nb] \/ list \subseteq DiskIds
        /\ list \cap Sources \subseteq live[Nb] \cup gone
    BY <1>1, <1>2 DEF OneKind, SeenOrGone, InUse, LoopAssumption
  <2> QED
    BY <1>2, <1>3, <2>1 DEF LiveIsOwn, OneKind, SeenOrGone, InUse
<1>6. TablesAhead' /\ DeletionIsTrue'
  BY <1>2 DEF TablesAhead, DeletionIsTrue, Deleting
<1>7. MinedBeforeRemembered'
  BY <1>1, <1>2, <1>3 DEF MinedBeforeRemembered, SpanOf
<1>8. FactsFollowRemovals'
  <2>1. ASSUME NEW x \in known', x \notin UNION {fp'[n] : n \in Notebooks}
        PROVE  x \in flagged \cup replaced'
    <3>0. x \notin list /\ x \in known
      BY <1>1, <1>3, <2>1
    <3>1. CASE x \in UNION {fp[n] : n \in Notebooks}
      BY <1>1, <1>2, <1>3, <2>1, <3>0, <3>1
    <3>2. CASE x \notin UNION {fp[n] : n \in Notebooks}
      BY <3>0, <3>2 DEF FactsFollowRemovals
    <3> QED
      BY <3>1, <3>2
  <2> QED
    BY <2>1 DEF FactsFollowRemovals
<1> QED
  BY <1>5, <1>6, <1>7, <1>8

(* Mining: one row for the notebook to one table after the other. *)
LEMMA CommitKeeps ==
  ASSUME LoopAssumption, IInv, TypeOK', Evaluate \/ CommitSpans \/ CommitHashes
  PROVE  IInv'
<1> USE DEF IInv, Evaluate, CommitSpans, CommitHashes, MayWrite, files, ghosts
<1>1. /\ UNCHANGED <<live, fp, flagged, known, gone, replaced, list, walk, at>>
      /\ Nb' = Nb /\ pc \in InUse /\ pc' \in InUse /\ pc' \notin Deleting
  BY DEF Nb, InUse, Deleting
<1>2. spans \subseteq spans' /\ hashes \subseteq hashes' /\ mined \subseteq mined'
  OBVIOUS
<1>3. LiveIsOwn' /\ OneKind' /\ SeenOrGone'
  BY <1>1 DEF LiveIsOwn, OneKind, SeenOrGone
<1>4. TablesAhead'
  <2>1. CASE Evaluate
    BY <2>1 DEF TablesAhead
  <2>2. CASE CommitSpans
    <3>1. PICK first \in list : spans' = spans \cup {first}
      BY <2>2
    <3>2. first \in SourcesOf[Nb] \cup Disk[Nb]
      BY <1>1, <3>1 DEF OneKind
    <3> QED
      BY <1>1, <2>2, <3>1, <3>2 DEF TablesAhead, SpanOf
  <2>3. CASE CommitHashes
    BY <1>1, <2>3 DEF TablesAhead, SpanOf
  <2> QED
    BY <2>1, <2>2, <2>3
<1>5. DeletionIsTrue'
  BY <1>1 DEF DeletionIsTrue, Deleting
<1>6. MinedBeforeRemembered'
  BY <1>1, <1>2 DEF MinedBeforeRemembered
<1>7. FactsFollowRemovals'
  BY <1>1 DEF FactsFollowRemovals
<1> QED
  BY <1>3, <1>4, <1>5, <1>6, <1>7

(* Sources come and go: one that goes is gone from then on. *)
LEMMA ChangeKeeps ==
  ASSUME LoopAssumption, IInv, TypeOK', NEW n \in Notebooks, NEW s \in Sources,
         Add(n, s) \/ Delete(n, s)
  PROVE  IInv'
<1> USE DEF IInv, files, run
<1>1. /\ UNCHANGED <<fp, flagged, spans, hashes, mined, known, replaced, pc, walk,
                     at, list>>
      /\ Nb' = Nb /\ gone \subseteq gone'
  BY DEF Add, Delete, Nb, ghosts
<1>2. live \in [Notebooks -> SUBSET Sources] /\ live' \in [Notebooks -> SUBSET Sources]
  BY DEF TypeOK
<1>3. \A m \in Notebooks : live'[m] \subseteq live[m] \cup SourcesOf[m]
  BY <1>2 DEF Add, Delete
<1>4. \A m \in Notebooks : live[m] \subseteq live'[m] \cup gone'
  BY <1>2 DEF Add, Delete
<1>5. LiveIsOwn' /\ OneKind'
  BY <1>1, <1>3 DEF LiveIsOwn, OneKind
<1>6. SeenOrGone'
  <2>1. ASSUME NEW m \in Notebooks PROVE fp'[m] \cap Sources \subseteq live'[m] \cup gone'
    BY <1>1, <1>4 DEF SeenOrGone
  <2>2. ASSUME pc' \in InUse PROVE list' \cap Sources \subseteq live'[Nb'] \cup gone'
    <3>1. Nb \in Notebooks
      BY <1>1, <2>2, InHand DEF InUse
    <3> QED
      BY <1>1, <1>4, <2>2, <3>1 DEF SeenOrGone
  <2> QED
    BY <2>1, <2>2 DEF SeenOrGone
<1>7. TablesAhead' /\ DeletionIsTrue'
  BY <1>1 DEF TablesAhead, SpanOf, DeletionIsTrue
<1>8. MinedBeforeRemembered' /\ FactsFollowRemovals'
  BY <1>1 DEF MinedBeforeRemembered, FactsFollowRemovals
<1> QED
  BY <1>5, <1>6, <1>7, <1>8

(* Every step keeps the inductive invariant. *)
LEMMA NextIInv ==
  ASSUME LoopAssumption, IInv, [Next]_vars
  PROVE  IInv'
<1>t. TypeOK'
  BY NextType DEF IInv
<1>1. ASSUME NEW m, NEW w, Begin(m, w) PROVE IInv'
  BY <1>1, <1>t, ReleaseKeeps DEF Begin, files, ghosts, InUse
<1>2. ASSUME Finish \/ Visit \/ Demote \/ ListNothing \/ NoGap \/ LockTimesOut \/ Die
      PROVE IInv'
  BY <1>2, <1>t, ReleaseKeeps DEF Finish, Visit, Demote, ListNothing, NoGap, LockTimesOut,
     Die, End, files, ghosts, InUse
<1>3. CASE SaveCadence
  BY <1>3, <1>t, ReleaseKeeps DEF SaveCadence, ghosts, InUse
<1>4. ASSUME NEW n \in Notebooks, ListRemote(n) PROVE IInv'
  BY <1>4, <1>t, CompareKeeps DEF ListRemote
<1>5. CASE ListLocal
  BY <1>5, <1>t, CompareKeeps DEF ListLocal
<1>6. CASE Cascade
  BY <1>6, <1>t, CascadeKeeps
<1>7. CASE Forget
  BY <1>7, <1>t, ForgetKeeps
<1>8. CASE Evaluate \/ CommitSpans \/ CommitHashes
  BY <1>8, <1>t, CommitKeeps
<1>9. CASE SaveFingerprint
  BY <1>9, <1>t, SaveKeeps
<1>10. CASE LocksAge \/ UNCHANGED vars
  BY <1>10, <1>t, StayKeeps DEF LocksAge, vars, files, run, ghosts
<1>11. ASSUME NEW n \in Notebooks, NEW s \in Sources, Add(n, s) \/ Delete(n, s)
       PROVE IInv'
  BY <1>11, <1>t, ChangeKeeps
<1>12. ASSUME NEW n \in Notebooks, BecomeIdle(n) PROVE IInv'
  BY <1>12, <1>t, StayKeeps DEF BecomeIdle, run, ghosts
<1>13. ASSUME NEW n \in Notebooks, EditRegistry(n) PROVE IInv'
  BY <1>13, <1>t, StayKeeps DEF EditRegistry, files, run, ghosts
<1> QED
  BY <1>1, <1>2, <1>3, <1>4, <1>5, <1>6, <1>7, <1>8, <1>9, <1>10, <1>11, <1>12, <1>13
     DEF Next, Step, Start, StartOn

THEOREM Inductive == LoopAssumption /\ Spec => []IInv
<1> SUFFICES ASSUME LoopAssumption PROVE Spec => []IInv
  OBVIOUS
<1>1. Init => IInv
  BY InitIInv
<1>2. IInv /\ [Next]_vars => IInv'
  BY NextIInv
<1> QED
  BY <1>1, <1>2, PTL DEF Spec

(* The types hold in every behaviour of the runner. *)
THEOREM TypeCorrect == Spec => []TypeOK
<1>1. IInv => TypeOK
  BY DEF IInv
<1> QED
  BY <1>1, Inductive, LoopAssumption, PTL

(* A fingerprint remembers a source only if both tables got a row for a     *)
(* listing with it, for any notebooks and listings and any crashes: the     *)
(* tables are written first, and the listing that was mined is the one that *)
(* is saved.  The rows are one text under the name of one listed source.    *)
THEOREM RememberedIsMined == Spec => []MinedBeforeRemembered
<1>1. IInv => MinedBeforeRemembered
  BY DEF IInv
<1> QED
  BY <1>1, Inductive, LoopAssumption, PTL

(* Facts are flagged before their source is forgotten and never while it   *)
(* is only hidden by a failed listing: local ids and source ids never make *)
(* up one fingerprint, so that a stand-in is never taken for a deletion.   *)
THEOREM RemovalsAreFollowed == Spec => []FactsFollowRemovals
<1>1. IInv => FactsFollowRemovals
  BY DEF IInv
<1> QED
  BY <1>1, Inductive, LoopAssumption, PTL
=============================================================================

------------------------- MODULE ClusterSyncProofs --------------------------
(***************************************************************************)
(* Proofs about the cluster sweep, for any notebooks, packs, modes, number *)
(* of sweeps and crashes: a registered notebook never serves an incomplete *)
(* pack, and the quarantine file lists the notebooks whose last decisive   *)
(* sweep failed as long as nothing disturbed a sweep.                      *)
(***************************************************************************)
EXTENDS ClusterSync, TLAPS

(* What a sweep's locals say: only the catch block sets them to record,    *)
(* and only a notebook with a pack is given to the gate.                   *)
LocalInv ==
  \A p \in Sweeps :
    /\ pc[p] \in {"idle", "sweep", "gate", "settle"} => op[p] = "clear" /\ ~again[p]
    /\ again[p] => op[p] = "record"
    /\ pc[p] = "gate" => nb[p] \in Packed

(* What is still to be done to the file for it to be what is due.          *)
Owes(p) ==
  /\ pc[p] \in {"sweep", "gate", "settle"} => quarantined = due
  /\ pc[p] \in {"gate", "settle"} => files[p] = Found(nb[p])
  /\ pc[p] = "load" =>
       due = IF op[p] = "record" THEN quarantined \cup {nb[p]} ELSE quarantined \ {nb[p]}
  /\ pc[p] \in {"truncate", "fill"} =>
       data[p] = due /\ (op[p] = "record" => nb[p] \in due)

FileInv ==
  /\ \A p, q \in Busy : p = q
  /\ \A p \in Busy : Owes(p)
  /\ Busy = {} => quarantined = due

IInv == TypeOK /\ LocalInv /\ RegisteredServedWhole /\ (~disturbed => FileInv)
-----------------------------------------------------------------------------
LEMMA AnyoneType == Anyone \in Notebooks
  BY ClusterAssumption DEF Anyone

LEMMA FoundType == ASSUME TypeOK, NEW n \in Notebooks PROVE Found(n) \in 0 .. Parts
  BY ClusterAssumption DEF TypeOK, Found

LEMMA InvInit == Init => IInv
<1> SUFFICES ASSUME Init PROVE IInv
  OBVIOUS
<1>1. TypeOK
  <2>1. staged \in [Packed -> 0 .. Parts] /\ served \in [Packed -> 0 .. Parts]
    BY ClusterAssumption DEF Init
  <2>2. files \in [Sweeps -> 0 .. Parts] /\ crashes \in 0 .. MaxCrashes
    BY ClusterAssumption DEF Init
  <2>3. /\ quarantined \subseteq Notebooks /\ due \subseteq Notebooks
        /\ disturbed \in BOOLEAN
    BY DEF Init
  <2>4. /\ nb \in [Sweeps -> Notebooks] /\ todo \in [Sweeps -> SUBSET Notebooks]
        /\ data \in [Sweeps -> SUBSET Notebooks]
    BY AnyoneType DEF Init
  <2>5. /\ live \in [Sweeps -> BOOLEAN] /\ again \in [Sweeps -> BOOLEAN]
        /\ op \in [Sweeps -> {"record", "clear"}]
    BY DEF Init
  <2>6. pc \in [Sweeps -> {"idle", "sweep", "gate", "settle", "load", "truncate", "fill"}]
    BY DEF Init
  <2>7. QED
    BY <2>1, <2>2, <2>3, <2>4, <2>5, <2>6 DEF TypeOK
<1>2. LocalInv /\ RegisteredServedWhole /\ FileInv
  BY DEF Init, LocalInv, RegisteredServedWhole, FileInv, Busy
<1>3. QED
  BY <1>1, <1>2 DEF IInv

LEMMA LeaveType ==
  ASSUME TypeOK, NEW p \in Sweeps, Leave(p)
  PROVE  /\ nb' \in [Sweeps -> Notebooks] /\ files' \in [Sweeps -> 0 .. Parts]
         /\ op' \in [Sweeps -> {"record", "clear"}] /\ again' \in [Sweeps -> BOOLEAN]
         /\ data' \in [Sweeps -> SUBSET Notebooks]
         /\ op'[p] = "clear" /\ again'[p] = FALSE
         /\ \A q \in Sweeps \ {p} : /\ nb'[q] = nb[q] /\ op'[q] = op[q]
                                   /\ again'[q] = again[q]
  BY AnyoneType, ClusterAssumption DEF TypeOK, Leave

(* Types, what locals say, and what registered notebooks serve.            *)
Sound == TypeOK /\ LocalInv /\ RegisteredServedWhole

LEMMA SoundKept == Sound /\ [Next]_vars => Sound'
<1> SUFFICES ASSUME Sound, [Next]_vars PROVE Sound'
  OBVIOUS
<1> USE ClusterAssumption, AnyoneType
        DEF Sound, TypeOK, LocalInv, RegisteredServedWhole, Goto, locals
<1>1. ASSUME NEW p \in Sweeps, Start(p) PROVE Sound'
  BY <1>1 DEF Start, Begin, Busy
<1>2. ASSUME NEW p \in Sweeps, NEW isLive \in BOOLEAN, StartCatchup(p, isLive)
      PROVE  Sound'
  BY <1>2 DEF StartCatchup, CatchupNotebooks, Begin, Busy
<1>3. ASSUME NEW p \in Sweeps, NEW n \in Notebooks, Take(p, n) PROVE Sound'
  BY <1>3, FoundType DEF Take, Found
<1>4. ASSUME NEW p \in Sweeps, Finish(p) PROVE Sound'
  BY <1>4 DEF Finish
<1>5. ASSUME NEW p \in Sweeps, GateSucceeds(p) PROVE Sound'
  BY <1>5 DEF GateSucceeds, ResolveExpectedPartCount, Packed
<1>6. ASSUME NEW p \in Sweeps, GateFails(p) PROVE Sound'
  BY <1>6 DEF GateFails, ResolveExpectedPartCount, Packed
<1>7. ASSUME NEW p \in Sweeps, Settle(p) PROVE Sound'
  <2>1. due' \subseteq Notebooks
    BY <1>7 DEF Settle
  <2>2. CASE pc' = [pc EXCEPT ![p] = "load"] /\ UNCHANGED <<nb, files, op, again, data>>
    BY <1>7, <2>1, <2>2 DEF Settle
  <2>3. CASE pc' = [pc EXCEPT ![p] = "sweep"] /\ Leave(p)
    BY <1>7, <2>1, <2>3, LeaveType DEF Settle
  <2>4. QED
    BY <1>7, <2>2, <2>3 DEF Settle
<1>8. ASSUME NEW p \in Sweeps, Load(p) PROVE Sound'
  BY <1>8 DEF Load
<1>9. ASSUME NEW p \in Sweeps, LoadUnlisted(p) PROVE Sound'
  BY <1>9 DEF LoadUnlisted, Leave
<1>10. ASSUME NEW p \in Sweeps, Truncate(p) PROVE Sound'
  BY <1>10 DEF Truncate
<1>11. ASSUME NEW p \in Sweeps, Fill(p) PROVE Sound'
  <2>1. quarantined' \subseteq Notebooks
    BY <1>11 DEF Fill
  <2>2. CASE again[p] /\ ~Leave(p)
    BY <1>11, <2>1, <2>2 DEF Fill
  <2>3. CASE pc' = [pc EXCEPT ![p] = "sweep"] /\ Leave(p)
    BY <1>11, <2>1, <2>3, LeaveType DEF Fill
  <2>4. QED
    BY <1>11, <2>2, <2>3 DEF Fill
<1>12. ASSUME NEW p \in Sweeps, Crash(p) PROVE Sound'
  BY <1>12 DEF Crash, Leave
<1>13. ASSUME NEW n \in Packed, Stage(n) PROVE Sound'
  BY <1>13 DEF Stage
<1>14. CASE UNCHANGED vars
  BY <1>14 DEF vars
<1>15. QED
  BY <1>1, <1>2, <1>3, <1>4, <1>5, <1>6, <1>7, <1>8, <1>9, <1>10, <1>11, <1>12,
     <1>13, <1>14 DEF Next, Step

LEMMA FileKept == IInv /\ [Next]_vars /\ ~disturbed' => FileInv'
<1> SUFFICES ASSUME IInv, [Next]_vars, ~disturbed' PROVE FileInv'
  OBVIOUS
<1>0. ~disturbed /\ FileInv /\ TypeOK /\ LocalInv
  BY DEF IInv, Next, Step, Start, Begin, StartCatchup, Take, Finish, GateSucceeds,
         GateFails, Settle, Load, LoadUnlisted, Truncate, Fill, Crash, Stage, vars, TypeOK
<1> USE <1>0 DEF TypeOK, LocalInv, FileInv, Owes, Busy, Goto, locals
<1>1. ASSUME NEW p \in Sweeps, Start(p) \/ \E isLive \in BOOLEAN : StartCatchup(p, isLive)
      PROVE FileInv'
  <2>1. /\ Busy = {} /\ pc' = [pc EXCEPT ![p] = "sweep"]
        /\ UNCHANGED <<quarantined, due, nb, files, op, data>>
    BY <1>1 DEF Start, StartCatchup, Begin
  <2>2. \A q \in Sweeps : pc'[q] # "idle" => q = p
    BY <2>1
  <2>3. QED
    BY <2>1, <2>2
<1>3. ASSUME NEW p \in Sweeps, NEW n \in Notebooks, Take(p, n) PROVE FileInv'
  BY <1>3, FoundType DEF Take, Found
<1>4. ASSUME NEW p \in Sweeps, Finish(p) PROVE FileInv'
  BY <1>4 DEF Finish
<1>5. ASSUME NEW p \in Sweeps, GateSucceeds(p) PROVE FileInv'
  BY <1>5 DEF GateSucceeds, Found
<1>6. ASSUME NEW p \in Sweeps, GateFails(p) PROVE FileInv'
  BY <1>6 DEF GateFails
<1>7. ASSUME NEW p \in Sweeps, Settle(p) PROVE FileInv'
  <2>1. /\ \A q \in Sweeps : pc[q] # "idle" => q = p
        /\ files[p] = Found(nb[p]) /\ quarantined = due /\ op[p] = "clear"
    BY <1>7 DEF Settle
  <2>2. MayClear(p) <=> Settled(p)
    BY <2>1, FoundType, ClusterAssumption DEF MayClear, Settled, Staged
  <2>3. CASE MayClear(p)
    <3>1. /\ pc' = [pc EXCEPT ![p] = "load"] /\ due' = due \ {nb[p]}
          /\ UNCHANGED <<quarantined, nb, op>>
      BY <1>7, <2>2, <2>3 DEF Settle
    <3>2. QED
      BY <2>1, <3>1
  <2>4. CASE ~MayClear(p)
    <3>1. /\ pc' = [pc EXCEPT ![p] = "sweep"] /\ due' = due
          /\ UNCHANGED quarantined
      BY <1>7, <2>2, <2>4 DEF Settle
    <3>2. QED
      BY <2>1, <3>1
  <2>5. QED
    BY <2>3, <2>4
<1>8. ASSUME NEW p \in Sweeps, Load(p) PROVE FileInv'
  BY <1>8 DEF Load
<1>9. ASSUME NEW p \in Sweeps, LoadUnlisted(p) PROVE FileInv'
  <2>1. /\ \A q \in Sweeps : pc[q] # "idle" => q = p
        /\ quarantined = due
    BY <1>9 DEF LoadUnlisted
  <2>2. pc' = [pc EXCEPT ![p] = "sweep"] /\ UNCHANGED <<quarantined, due>>
    BY <1>9 DEF LoadUnlisted
  <2>3. QED
    BY <2>1, <2>2
<1>10. ASSUME NEW p \in Sweeps, Truncate(p) PROVE FileInv'
  BY <1>10 DEF Truncate
<1>11. ASSUME NEW p \in Sweeps, Fill(p) PROVE FileInv'
  BY <1>11 DEF Fill, Leave
<1>12. ASSUME NEW p \in Sweeps, Crash(p) PROVE FileInv'
  <2>1. /\ \A q \in Sweeps : pc[q] # "idle" => q = p
        /\ quarantined = due
    BY <1>12 DEF Crash
  <2>2. pc' = [pc EXCEPT ![p] = "idle"] /\ UNCHANGED <<quarantined, due>>
    BY <1>12 DEF Crash
  <2>3. QED
    BY <2>1, <2>2
<1>13. ASSUME NEW n \in Packed, Stage(n) PROVE FileInv'
  BY <1>13 DEF Stage, Found
<1>14. CASE UNCHANGED vars
  BY <1>14 DEF vars, Found
<1>15. QED
  BY <1>1, <1>3, <1>4, <1>5, <1>6, <1>7, <1>8, <1>9, <1>10, <1>11, <1>12,
     <1>13, <1>14 DEF Next, Step

LEMMA Inductive == Spec => []IInv
<1>1. IInv /\ [Next]_vars => IInv'
  BY SoundKept, FileKept DEF IInv, Sound
<1>2. QED
  BY InvInit, <1>1, PTL DEF Spec

(* The quarantine file, the staging directories and the locals of every    *)
(* sweep stay well formed.                                                 *)
THEOREM TypeCorrect == Spec => []TypeOK
  BY Inductive, PTL DEF IInv

(* A registered notebook never serves a pack that was staged incompletely. *)
THEOREM RegisteredIsWhole == Spec => []RegisteredServedWhole
  BY Inductive, PTL DEF IInv

(* Between undisturbed sweeps the quarantine file lists exactly the        *)
(* notebooks whose last decisive sweep failed.                             *)
THEOREM FileIsTrue == Spec => []FileMatchesSweeps
<1>1. IInv => FileMatchesSweeps
  BY DEF IInv, FileInv, FileMatchesSweeps
<1>2. QED
  BY <1>1, Inductive, PTL
=============================================================================

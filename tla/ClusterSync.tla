---------------------------- MODULE ClusterSync ----------------------------
(***************************************************************************)
(* The cluster sweep (scripts/pipeline/cluster-sync-runner.mjs) and its    *)
(* quarantine file, .nlm-quarantine.json.  A sweep is a process that takes *)
(* the notebooks of a cluster one after the other, has the replace gate    *)
(* replace the pack of each, and records in the file the notebooks that    *)
(* failed.  Scheduled tasks start the ops, research and catchup sweeps     *)
(* independently, nothing locks the file, and every change of it is a      *)
(* read, a truncation and a write.  The replace gate is seen from outside  *)
(* here (PackReplaceGate models it), and pack files come and go while      *)
(* sweeps run.                                                             *)
(***************************************************************************)
EXTENDS Integers, FiniteSets

CONSTANTS
  Notebooks,   \* uuids of the manifest
  Bypassed,    \* those with has_pack: false or a master writer
  Registered,  \* those with a numeric expected_parts
  Parts,       \* how many files the pack of a notebook has when complete
  Sweeps,      \* processes
  Targets,     \* the notebook sets of the modes ops and research, and of --notebook
  MaxCrashes   \* bound on crashes

ASSUME ClusterAssumption ==
  /\ IsFiniteSet(Notebooks) /\ Notebooks # {}
  /\ Bypassed \subseteq Notebooks /\ Registered \subseteq Notebooks
  /\ Parts \in Nat \ {0}
  /\ Targets \subseteq SUBSET Notebooks
  /\ MaxCrashes \in Nat

Packed == Notebooks \ Bypassed

VARIABLES
  quarantined, \* what loadQuarantine returns: a file cut short reads as empty
  staged,      \* number of pack files of a notebook in the candidate directories
  served,      \* files of the pack generation its notebook serves
  pc,          \* where each sweep is
  live,        \* not a dry run
  todo,        \* notebooks of the sweep still to come
  nb,          \* the notebook it is at
  files,       \* number of packFiles it found for it
  op,          \* what it does to the quarantine file
  again,       \* recordQuarantine is called a second time, by the catch block
  data,        \* the quarantine file as loaded and changed
  crashes,
  due,         \* history: notebooks whose last decisive sweep failed
  disturbed    \* history: sweeps overlapped, one died while it changed the file,
               \* or pack files were staged or removed between its two looks

locals == <<live, todo, nb, files, op, again, data>>
vars == <<quarantined, staged, served, pc, locals, crashes, due, disturbed>>

TypeOK ==
  /\ quarantined \subseteq Notebooks
  /\ staged \in [Packed -> 0..Parts]
  /\ served \in [Packed -> 0..Parts]
  /\ pc \in [Sweeps -> {"idle", "sweep", "gate", "settle", "load", "truncate", "fill"}]
  /\ live \in [Sweeps -> BOOLEAN]
  /\ todo \in [Sweeps -> SUBSET Notebooks]
  /\ nb \in [Sweeps -> Notebooks]
  /\ files \in [Sweeps -> 0..Parts]
  /\ op \in [Sweeps -> {"record", "clear"}]
  /\ again \in [Sweeps -> BOOLEAN]
  /\ data \in [Sweeps -> SUBSET Notebooks]
  /\ crashes \in 0..MaxCrashes
  /\ due \subseteq Notebooks
  /\ disturbed \in BOOLEAN

Anyone == CHOOSE n \in Notebooks : TRUE

(* Any file may have been left by earlier sweeps. *)
Init ==
  /\ quarantined \in SUBSET Notebooks
  /\ staged \in [Packed -> {0, Parts}]
  /\ served = [n \in Packed |-> Parts]
  /\ pc = [p \in Sweeps |-> "idle"]
  /\ live = [p \in Sweeps |-> FALSE]
  /\ todo = [p \in Sweeps |-> {}]
  /\ nb = [p \in Sweeps |-> Anyone]
  /\ files = [p \in Sweeps |-> 0]
  /\ op = [p \in Sweeps |-> "clear"]
  /\ again = [p \in Sweeps |-> FALSE]
  /\ data = [p \in Sweeps |-> {}]
  /\ crashes = 0
  /\ due = quarantined
  /\ disturbed = FALSE

Goto(p, at, next) == pc[p] = at /\ pc' = [pc EXCEPT ![p] = next]

(* The locals of runNotebookSweep are gone when it returns. *)
Leave(p) ==
  /\ nb' = [nb EXCEPT ![p] = Anyone]
  /\ files' = [files EXCEPT ![p] = 0]
  /\ op' = [op EXCEPT ![p] = "clear"]
  /\ again' = [again EXCEPT ![p] = FALSE]
  /\ data' = [data EXCEPT ![p] = {}]

Busy == {p \in Sweeps : pc[p] # "idle"}

---------------------------------------------------------------------------
(* The sweep over notebooks.                                               *)

Begin(p, notebooks, isLive) ==
  /\ Goto(p, "idle", "sweep")
  /\ todo' = [todo EXCEPT ![p] = notebooks]
  /\ live' = [live EXCEPT ![p] = isLive]
  /\ disturbed' = (disturbed \/ Busy # {})
  /\ UNCHANGED <<quarantined, staged, served, nb, files, op, again, data, crashes, due>>

Start(p) == \E notebooks \in Targets, isLive \in BOOLEAN : Begin(p, notebooks, isLive)

(* Mutant: catchup leaves out the notebooks it does not upload to. *)
QuarantinedPacked == quarantined \ Bypassed

(* The quarantined notebooks of all clusters. *)
CatchupNotebooks == quarantined

(* With none, catchup reports a nominal state and changes nothing. *)
StartCatchup(p, isLive) ==
  /\ CatchupNotebooks # {}
  /\ Begin(p, CatchupNotebooks, isLive)

(* Mutant: the .bak.txt file beside the parts is taken for a part. *)
FoundWithBackup(n) == IF n \in Packed /\ staged[n] > 0 THEN staged[n] + 1 ELSE 0

(* findStagedPackFiles, which nobody asks for a bypassed notebook. *)
Found(n) == IF n \in Packed THEN staged[n] ELSE 0

(* The first look at the staging directories. *)
Take(p, n) ==
  /\ n \in todo[p]
  /\ Goto(p, "sweep", IF live[p] /\ Found(n) > 0 THEN "gate" ELSE "settle")
  /\ todo' = [todo EXCEPT ![p] = @ \ {n}]
  /\ nb' = [nb EXCEPT ![p] = n]
  /\ files' = [files EXCEPT ![p] = Found(n)]
  /\ UNCHANGED <<quarantined, staged, served, live, op, again, data, crashes, due, disturbed>>

Finish(p) ==
  /\ Goto(p, "sweep", "idle")
  /\ todo[p] = {}
  /\ live' = [live EXCEPT ![p] = FALSE]
  /\ UNCHANGED <<quarantined, staged, served, todo, nb, files, op, again, data, crashes, due,
                 disturbed>>

---------------------------------------------------------------------------
(* The replace gate.                                                       *)

(* Mutant: the number of staged files is what is expected. *)
CountStaged(n, found) == found

(* Without a registered count, the number of staged files is what is       *)
(* expected.                                                               *)
ResolveExpectedPartCount(n, found) == IF n \in Registered THEN Parts ELSE found

GateSucceeds(p) ==
  /\ Goto(p, "gate", "settle")
  /\ files[p] = ResolveExpectedPartCount(nb[p], files[p])
  /\ served' = [served EXCEPT ![nb[p]] = files[p]]
  /\ UNCHANGED <<quarantined, staged, locals, crashes, due, disturbed>>

(* The gate throws; the catch block of the sweep records the notebook, a   *)
(* second time if the gate's quarantine handler did so before.  Only a     *)
(* gate that got past the count check may have replaced anything.          *)
GateFails(p) ==
  /\ Goto(p, "gate", "load")
  /\ op' = [op EXCEPT ![p] = "record"]
  /\ \E handled \in BOOLEAN : again' = [again EXCEPT ![p] = handled]
  /\ \/ UNCHANGED served
     \/ /\ files[p] = ResolveExpectedPartCount(nb[p], files[p])
        /\ served' = [served EXCEPT ![nb[p]] = files[p]]
  /\ due' = due \cup {nb[p]}
  /\ UNCHANGED <<quarantined, staged, live, todo, nb, files, data, crashes, disturbed>>

---------------------------------------------------------------------------
(* The quarantine file.                                                    *)

Staged == {n \in Notebooks : Found(n) > 0}

(* Mutant: a dry run clears as well. *)
MayClearDry(p) == nb[p] \in Bypassed \cup Staged

(* A live sweep clears the notebook unless, at a second look, no file of   *)
(* its pack is staged (packSkipped).                                       *)
MayClear(p) == live[p] /\ nb[p] \in Bypassed \cup Staged

(* The sweep did what clears a notebook: a live replacement, or a bypass.  *)
Settled(p) == live[p] /\ (nb[p] \in Bypassed \/ files[p] > 0)

Settle(p) ==
  /\ pc[p] = "settle"
  /\ due' = IF Settled(p) THEN due \ {nb[p]} ELSE due
  /\ \/ /\ MayClear(p)
        /\ pc' = [pc EXCEPT ![p] = "load"]
        /\ UNCHANGED <<nb, files, op, again, data>>
     \/ /\ ~MayClear(p)
        /\ pc' = [pc EXCEPT ![p] = "sweep"] /\ Leave(p)
  /\ UNCHANGED <<quarantined, staged, served, live, todo, crashes, disturbed>>

(* loadQuarantine and the change of the object. *)
Load(p) ==
  /\ op[p] = "record" \/ nb[p] \in quarantined
  /\ Goto(p, "load", "truncate")
  /\ data' = [data EXCEPT ![p] = IF op[p] = "record" THEN quarantined \cup {nb[p]}
                                                     ELSE quarantined \ {nb[p]}]
  /\ UNCHANGED <<quarantined, staged, served, live, todo, nb, files, op, again, crashes,
                 due, disturbed>>

(* clearQuarantine of a notebook that is not listed writes nothing. *)
LoadUnlisted(p) ==
  /\ op[p] = "clear" /\ nb[p] \notin quarantined
  /\ Goto(p, "load", "sweep") /\ Leave(p)
  /\ UNCHANGED <<quarantined, staged, served, live, todo, crashes, due, disturbed>>

(* writeFileSync opens the file, which empties it, and then writes. *)
Truncate(p) ==
  /\ Goto(p, "truncate", "fill")
  /\ quarantined' = {}
  /\ UNCHANGED <<staged, served, locals, crashes, due, disturbed>>

Fill(p) ==
  /\ quarantined' = data[p]
  /\ \/ /\ again[p]
        /\ Goto(p, "fill", "load")
        /\ again' = [again EXCEPT ![p] = FALSE]
        /\ data' = [data EXCEPT ![p] = {}]
        /\ UNCHANGED <<nb, files, op>>
     \/ /\ ~again[p]
        /\ Goto(p, "fill", "sweep") /\ Leave(p)
  /\ UNCHANGED <<staged, served, live, todo, crashes, due, disturbed>>

---------------------------------------------------------------------------

(* The process dies, at most MaxCrashes times. *)
Crash(p) ==
  /\ pc[p] # "idle" /\ crashes < MaxCrashes
  /\ pc' = [pc EXCEPT ![p] = "idle"]
  /\ crashes' = crashes + 1
  /\ disturbed' = (disturbed \/ pc[p] \in {"load", "truncate", "fill"})
  /\ live' = [live EXCEPT ![p] = FALSE]
  /\ todo' = [todo EXCEPT ![p] = {}]
  /\ Leave(p)
  /\ UNCHANGED <<quarantined, staged, served, due>>

(* Pack files are built or removed. *)
Stage(n) ==
  /\ \E k \in (0..Parts) \ {staged[n]} : staged' = [staged EXCEPT ![n] = k]
  /\ disturbed' = (disturbed \/ \E p \in Sweeps : pc[p] \in {"gate", "settle"} /\ nb[p] = n)
  /\ UNCHANGED <<quarantined, served, pc, locals, crashes, due>>

Step(p) ==
  \/ \E n \in Notebooks : Take(p, n)
  \/ Finish(p) \/ GateSucceeds(p) \/ GateFails(p) \/ Settle(p)
  \/ Load(p) \/ LoadUnlisted(p) \/ Truncate(p) \/ Fill(p)

Next ==
  \/ \E p \in Sweeps : \/ Start(p) \/ Step(p) \/ Crash(p)
                       \/ \E isLive \in BOOLEAN : StartCatchup(p, isLive)
  \/ \E n \in Packed : Stage(n)

(* The gate ends (EveryRunEnds of PackReplaceGate) and a catchup is        *)
(* scheduled daily.                                                        *)
Fairness ==
  /\ \A p \in Sweeps : WF_vars(Step(p))
  /\ SF_vars(\E p \in Sweeps : StartCatchup(p, TRUE))

Spec == Init /\ [][Next]_vars /\ Fairness

---------------------------------------------------------------------------
(* Properties.                                                             *)

(* Quarantine is cleared "only on live runs where pack replacement         *)
(* completed or was intentionally bypassed", and every failure is          *)
(* recorded: between sweeps the file lists exactly the notebooks whose     *)
(* last decisive sweep failed, as long as sweeps did not overlap, none     *)
(* died while it changed the file, and pack files stood still during it.   *)
FileMatchesSweeps == ~disturbed /\ Busy = {} => quarantined = due

(* The number registered for a pack counts: however staging, sweeps and    *)
(* the file interleave, a registered notebook never serves a pack that was *)
(* staged incompletely.                                                    *)
RegisteredServedWhole == \A n \in Registered \cap Packed : served[n] = Parts

(* A notebook that failed is swept again by some catchup, also if its      *)
(* pack is meanwhile written by somebody else.                             *)
FailureIsRetried ==
  \A n \in Notebooks :
    n \in due ~> \/ disturbed
                 \/ \E p \in Sweeps : nb[p] = n /\ pc[p] \in {"gate", "settle"}
=============================================================================

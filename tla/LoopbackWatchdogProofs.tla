----------------------- MODULE LoopbackWatchdogProofs -----------------------
(***************************************************************************)
(* Proofs about the watchdog, for any number of child handles and any      *)
(* limit of restarts: unless a stop comes in the middle of a check, or an  *)
(* exit event takes the handle of another child, there is one daemon that  *)
(* was not killed, the watchdog refers to it, and a stop leaves none.      *)
(***************************************************************************)
EXTENDS LoopbackWatchdog, TLAPS

(* Who waits for a child to stop has sent it a signal, and a child that    *)
(* was signalled is killed by the time nobody waits for it any more.       *)
SignalInv ==
  /\ \A u \in Users : at[u] = "stop" => stopping[u] \in signalled
  /\ \A c \in Alive \cap signalled :
       c \in doomed \/ \E u \in Users : at[u] = "stop" /\ stopping[u] = c

(* Daemons that go on running unless something happens to them.            *)
Running == Alive \ doomed

(* What running daemons are to the watchdog: the child it refers to, the   *)
(* one being stopped, and none when one is to be spawned or stop() is over. *)
OwnerInv ==
  /\ at.check = "idle" \/ at.stop = "idle"
  /\ Running \subseteq {child}
  /\ \A u \in Users : at[u] = "stop" => Running \subseteq {stopping[u]}
  /\ at.check = "start" \/ at.stop = "done" => Running = {}

IInv == TypeOK /\ SignalInv /\ (~raced => OwnerInv)
-----------------------------------------------------------------------------
LEMMA InvInit == Init => IInv
<1> SUFFICES ASSUME Init PROVE IInv
  OBVIOUS
<1>1. PICK c \in Children :
        child = c /\ daemon = [d \in Children |-> IF d = c THEN "starting" ELSE "none"]
  BY DEF Init
<1>2. TypeOK
  <2>1. at \in [check : {"boot", "idle", "probe", "stop", "start"},
               stop : {"idle", "stop", "done"}]
    BY DEF Init
  <2>2. recent \in 0 .. MaxRestarts
    BY WatchdogAssumption DEF Init
  <2>3. daemon \in [Children -> {"none", "starting", "up", "hung", "exited"}]
    BY <1>1
  <2>4. stopping \in [Users -> Children \cup {NoChild}] /\ child \in Children
    BY <1>1 DEF Init
  <2>5. /\ status = "starting" /\ failures = 0 /\ signalled = {} /\ doomed = {}
        /\ foreign \in BOOLEAN /\ raced \in BOOLEAN
    BY DEF Init
  <2>6. QED
    BY <2>1, <2>2, <2>3, <2>4, <2>5 DEF TypeOK
<1>3. SignalInv /\ OwnerInv
  BY <1>1 DEF Init, SignalInv, OwnerInv, Users, Running, Alive
<1>4. QED
  BY <1>2, <1>3 DEF IInv

LEMMA TypeKept == IInv /\ [Next]_vars => TypeOK'
<1> SUFFICES ASSUME IInv, [Next]_vars PROVE TypeOK'
  OBVIOUS
<1> USE WatchdogAssumption DEF IInv, TypeOK, Users, processes
<1>1. CASE Tick \/ ProbeOk \/ ProbeFailsOnce \/ AlertOnly \/ SpawnRefused
  BY <1>1 DEF Tick, ProbeOk, ProbeFailsOnce, AlertOnly, SpawnRefused, Done
<1>2. CASE Restart
  BY <1>2 DEF Restart, LimitReached, StopAtOnce, SendTerm, NextAt, Unsignalled
<1>3. CASE Spawn
  BY <1>3 DEF Spawn, Spare, Done
<1>4. CASE Stop
  BY <1>4 DEF Stop, StopAtOnce, SendTerm, NextAt, Unsignalled
<1>5. ASSUME NEW u \in Users, StopSeesExit(u) \/ StopTimesOut(u) PROVE TypeOK'
  BY <1>5 DEF StopSeesExit, StopTimesOut, Stopped, NextAt, SignalInv
<1>6. ASSUME NEW c \in Children, ExitEvent(c) \/ Listen(c) \/ Hang(c) \/ Exit(c)
      PROVE  TypeOK'
  BY <1>6 DEF ExitEvent, Listen, Hang, Exit, Becomes
<1>7. CASE TakePort \/ Expire
  <2>1. recent' \in 0 .. MaxRestarts
    BY <1>7 DEF TakePort, Expire
  <2>2. UNCHANGED <<status, failures, child, at, stopping, daemon, signalled, doomed,
                    raced>> /\ foreign' \in BOOLEAN
    BY <1>7 DEF TakePort, Expire
  <2>3. QED
    BY <2>1, <2>2
<1>8. CASE UNCHANGED vars
  BY <1>8 DEF vars
<1>9. QED
  BY <1>1, <1>2, <1>3, <1>4, <1>5, <1>6, <1>7, <1>8 DEF Next, Check

LEMMA SignalKept == IInv /\ [Next]_vars => SignalInv'
<1> SUFFICES ASSUME IInv, [Next]_vars PROVE SignalInv'
  OBVIOUS
<1> USE WatchdogAssumption DEF IInv, TypeOK, SignalInv, Users, Alive, processes
<1>1. CASE Tick \/ ProbeOk \/ ProbeFailsOnce \/ AlertOnly \/ SpawnRefused
  BY <1>1 DEF Tick, ProbeOk, ProbeFailsOnce, AlertOnly, SpawnRefused, Done, Probing
<1>2. CASE Restart
  BY <1>2 DEF Restart, StopAtOnce, SendTerm, NextAt, Probing
<1>3. CASE Spawn
  BY <1>3 DEF Spawn, Spare, Done
<1>4. CASE Stop
  BY <1>4 DEF Stop, StopAtOnce, SendTerm, NextAt
<1>5. ASSUME NEW u \in Users, StopSeesExit(u) \/ StopTimesOut(u) PROVE SignalInv'
  BY <1>5 DEF StopSeesExit, StopTimesOut, Stopped, NextAt
<1>6. ASSUME NEW c \in Children, ExitEvent(c) \/ Listen(c) \/ Hang(c) \/ Exit(c)
      PROVE  SignalInv'
  BY <1>6 DEF ExitEvent, Listen, Hang, Exit, Becomes
<1>7. CASE TakePort \/ Expire
  BY <1>7 DEF TakePort, Expire
<1>8. CASE UNCHANGED vars
  BY <1>8 DEF vars
<1>9. QED
  BY <1>1, <1>2, <1>3, <1>4, <1>5, <1>6, <1>7, <1>8 DEF Next, Check

LEMMA OwnerKept == IInv /\ [Next]_vars /\ ~raced' => OwnerInv'
<1> SUFFICES ASSUME IInv, [Next]_vars, ~raced' PROVE OwnerInv'
  OBVIOUS
<1>0. ~raced /\ OwnerInv /\ TypeOK /\ SignalInv
  BY DEF IInv, Next, Check, Tick, ProbeOk, ProbeFailsOnce, AlertOnly, Restart, Spawn,
         SpawnRefused, StopSeesExit, StopTimesOut, Stop, ExitEvent, Listen, Hang, Exit,
         Becomes, TakePort, Expire, vars, TypeOK
<1> USE <1>0, WatchdogAssumption DEF TypeOK, OwnerInv, Users, Running, Alive, processes
<1>1. CASE Tick \/ ProbeOk \/ ProbeFailsOnce \/ AlertOnly \/ SpawnRefused
  BY <1>1 DEF Tick, ProbeOk, ProbeFailsOnce, AlertOnly, SpawnRefused, Done, Probing
<1>2. CASE Restart
  BY <1>2 DEF Restart, StopAtOnce, SendTerm, NextAt, Probing, Unsignalled, SignalInv
<1>3. CASE Spawn
  BY <1>3 DEF Spawn, Spare, Done
<1>4. CASE Stop
  <2>1. /\ at.check = "idle" /\ at.stop = "idle" /\ UNCHANGED <<daemon, doomed>>
        /\ child \in Children \cap signalled => child \notin Running
    BY <1>4 DEF Stop, SignalInv
  <2>2. CASE StopAtOnce("stop")
    BY <2>1, <2>2 DEF StopAtOnce, NextAt, Unsignalled
  <2>3. CASE SendTerm("stop")
    BY <2>1, <2>3 DEF SendTerm, NextAt, Unsignalled
  <2>4. QED
    BY <1>4, <2>2, <2>3 DEF Stop
<1>5. ASSUME NEW u \in Users, StopSeesExit(u) \/ StopTimesOut(u) PROVE OwnerInv'
  BY <1>5 DEF StopSeesExit, StopTimesOut, Stopped, NextAt, SignalInv
<1>6. ASSUME NEW c \in Children, ExitEvent(c) \/ Listen(c) \/ Hang(c) \/ Exit(c)
      PROVE  OwnerInv'
  <2>1. UNCHANGED <<at, stopping, doomed>> /\ Alive' \subseteq Alive
    BY <1>6 DEF ExitEvent, Listen, Hang, Exit, Becomes
  <2>2. child' = child \/ (child' = NoChild /\ child \notin Alive)
    BY <1>6 DEF ExitEvent, Listen, Hang, Exit, Becomes
  <2>3. QED
    BY <2>1, <2>2
<1>7. CASE TakePort \/ Expire
  BY <1>7 DEF TakePort, Expire
<1>8. CASE UNCHANGED vars
  BY <1>8 DEF vars
<1>9. QED
  BY <1>1, <1>2, <1>3, <1>4, <1>5, <1>6, <1>7, <1>8 DEF Next, Check

LEMMA Inductive == Spec => []IInv
<1>1. IInv /\ [Next]_vars => IInv'
  BY TypeKept, SignalKept, OwnerKept DEF IInv
<1>2. QED
  BY InvInit, <1>1, PTL DEF Spec

(* The watchdog's fields, the handles and the processes stay well formed,  *)
(* and whoever is killed was signalled before.                             *)
THEOREM TypeCorrect == Spec => []TypeOK
  BY Inductive, PTL DEF IInv

(* There is one running daemon at a time, and it is the watchdog's child,  *)
(* unless a stop came during a check or an exit event took its handle.     *)
THEOREM OwnsTheDaemon == Spec => []OneOwnedDaemon
<1>1. IInv => OneOwnedDaemon
  BY DEF IInv, OwnerInv, Running, OneOwnedDaemon
<1>2. QED
  BY <1>1, Inductive, PTL

(* After stop() no daemon is left running, with the same two exceptions.   *)
THEOREM StopLeavesNobody == Spec => []StopLeavesNothing
<1>1. IInv => StopLeavesNothing
  BY DEF IInv, OwnerInv, Running, StopLeavesNothing
<1>2. QED
  BY <1>1, Inductive, PTL
=============================================================================

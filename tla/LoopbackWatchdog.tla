------------------------- MODULE LoopbackWatchdog --------------------------
(***************************************************************************)
(* The loopback watchdog (scripts/mcp/loopback-watchdog.mjs): one process  *)
(* that spawns the MCP memory daemon, probes it, restarts it after two     *)
(* failed probes, gives up when it restarted too often in 15 minutes, and  *)
(* stops it on a signal.  Its checks run one after the other (a check      *)
(* takes at most 8 seconds, the interval is 30), but the signal handler    *)
(* and the exit events of the children come in at any await.               *)
(***************************************************************************)
EXTENDS Integers, FiniteSets

CONSTANTS
  Children,    \* child process handles; one is used again when nobody refers to it
  NoChild,     \* null
  MaxRestarts  \* MAX_RESTARTS

ASSUME WatchdogAssumption ==
  /\ IsFiniteSet(Children) /\ NoChild \notin Children
  /\ MaxRestarts \in Nat

Users == {"check", "stop"}

VARIABLES
  status, failures,  \* this.status, this.consecutiveFailures (2 is two or more)
  recent,      \* length of recentRestartTimes()
  child,       \* this.child
  at,          \* where the check and the stop are
  stopping,    \* `child` in the stopOwnedChild each of them is in
  daemon,      \* state of each child process; "exited" is before its exit event
  signalled,   \* child.killed: a signal was sent
  doomed,      \* SIGKILL was sent
  foreign,     \* an unrelated process listens on the port
  raced        \* history: stop came during a check, or an exit event made the
               \* watchdog forget another child

vars == <<status, failures, recent, child, at, stopping, daemon, signalled, doomed,
          foreign, raced>>
processes == <<daemon, signalled, doomed, foreign>>

Alive == {c \in Children : daemon[c] \in {"starting", "up", "hung"}}
Listening == {c \in Children : daemon[c] \in {"up", "hung"}}
PortOccupied == foreign \/ Listening # {}

TypeOK ==
  /\ status \in {"starting", "healthy", "degraded", "alert_only", "stopped"}
  /\ failures \in 0..2
  /\ recent \in 0..MaxRestarts
  /\ child \in Children \cup {NoChild}
  /\ at \in [check : {"boot", "idle", "probe", "stop", "start"}, stop : {"idle", "stop", "done"}]
  /\ stopping \in [Users -> Children \cup {NoChild}]
  /\ daemon \in [Children -> {"none", "starting", "up", "hung", "exited"}]
  /\ signalled \subseteq Children /\ doomed \subseteq signalled
  /\ foreign \in BOOLEAN /\ raced \in BOOLEAN

(* run() has spawned a first child and makes its first check; it listens   *)
(* for signals only after that.                                            *)
Init ==
  /\ status = "starting" /\ failures = 0 /\ recent = 0
  /\ \E c \in Children :
       /\ child = c
       /\ daemon = [d \in Children |-> IF d = c THEN "starting" ELSE "none"]
  /\ at = [check |-> "boot", stop |-> "idle"]
  /\ stopping = [u \in Users |-> NoChild]
  /\ signalled = {} /\ doomed = {}
  /\ foreign = FALSE /\ raced = FALSE

---------------------------------------------------------------------------
(* stopOwnedChild, called by the restart of a check and by stop().         *)

(* Nobody to stop, or the child is signalled already: no wait.  A child    *)
(* whose exit event came is only still referred to after alert_only.       *)
Unsignalled == {c \in Children : daemon[c] # "none"} \ signalled

NextAt(u) == at' = [at EXCEPT ![u] = IF u = "check" THEN "start" ELSE "done"]

StopAtOnce(u) ==
  /\ child \notin Unsignalled
  /\ NextAt(u)
  /\ child' = NoChild
  /\ UNCHANGED <<stopping, signalled>>

(* Mutant: the signal is sent, and nothing is waited for. *)
SendTermOnly(u) ==
  /\ child \in Unsignalled
  /\ NextAt(u)
  /\ signalled' = signalled \cup {child}
  /\ stopping' = stopping
  /\ child' = NoChild

SendTerm(u) ==
  /\ child \in Unsignalled
  /\ at' = [at EXCEPT ![u] = "stop"]
  /\ signalled' = signalled \cup {child}
  /\ stopping' = [stopping EXCEPT ![u] = child]
  /\ UNCHANGED child

(* stopOwnedChild returns to start() or to stop(). *)
Stopped(u) ==
  /\ NextAt(u)
  /\ status' = IF u = "stop" THEN "stopped" ELSE status
  /\ child' = IF child = stopping[u] THEN NoChild ELSE child
  /\ stopping' = [stopping EXCEPT ![u] = NoChild]

(* The exit event came. *)
StopSeesExit(u) ==
  /\ at[u] = "stop" /\ daemon[stopping[u]] = "none"
  /\ Stopped(u)
  /\ UNCHANGED <<failures, recent, processes, raced>>

(* Mutant: there is no timer. *)
StopWaits(u) == FALSE /\ UNCHANGED vars

(* Mutant: nothing is sent when the five seconds are over. *)
StopGivesUp(u) ==
  /\ at[u] = "stop" /\ daemon[stopping[u]] # "none"
  /\ Stopped(u)
  /\ UNCHANGED <<failures, recent, processes, raced>>

(* Five seconds are over: SIGKILL, and no further wait. *)
StopTimesOut(u) ==
  /\ at[u] = "stop" /\ daemon[stopping[u]] # "none"
  /\ doomed' = doomed \cup {stopping[u]}
  /\ Stopped(u)
  /\ UNCHANGED <<failures, recent, daemon, signalled, foreign, raced>>

---------------------------------------------------------------------------
(* checkOnce and restartOwnedChild                                         *)

Done == at' = [at EXCEPT !.check = "idle"]

(* The interval fires; in these two states a check is skipped. *)
Tick ==
  /\ at.check = "idle" /\ at.stop = "idle"
  /\ status \notin {"alert_only", "stopped"}
  /\ at' = [at EXCEPT !.check = "probe"]
  /\ UNCHANGED <<status, failures, recent, child, stopping, processes, raced>>

Probing == at.check \in {"boot", "probe"}

ProbeOk ==
  /\ Probing /\ \E c \in Listening : daemon[c] = "up"
  /\ status' = "healthy" /\ failures' = 0
  /\ Done
  /\ UNCHANGED <<recent, child, stopping, processes, raced>>

(* Mutant: a failure is not counted. *)
ProbeFailsUncounted ==
  /\ Probing /\ failures = 0
  /\ status' = "degraded" /\ UNCHANGED failures
  /\ Done
  /\ UNCHANGED <<recent, child, stopping, processes, raced>>

(* No answer in time, or one that is not ready. *)
ProbeFailsOnce ==
  /\ Probing /\ failures = 0
  /\ status' = "degraded" /\ failures' = 1
  /\ Done
  /\ UNCHANGED <<recent, child, stopping, processes, raced>>

(* Mutant: one restart more than the limit. *)
LimitReachedLate == recent > MaxRestarts

LimitReached == recent >= MaxRestarts

(* The second failure in a row, with too many restarts behind it. *)
AlertOnly ==
  /\ Probing /\ failures > 0 /\ LimitReached
  /\ status' = "alert_only" /\ failures' = 2
  /\ Done
  /\ UNCHANGED <<recent, child, stopping, processes, raced>>

Restart ==
  /\ Probing /\ failures > 0 /\ ~LimitReached
  /\ failures' = 2
  /\ recent' = recent + 1
  /\ StopAtOnce("check") \/ SendTerm("check")
  /\ status' = "degraded"
  /\ UNCHANGED <<daemon, doomed, foreign, raced>>

(* Handles nobody refers to. *)
Spare == {c \in Children \ {child, stopping["check"], stopping["stop"]} : daemon[c] = "none"}

(* start() does not look at this.child, nor whether stop() has run.        *)
Spawn ==
  /\ at.check = "start" /\ ~PortOccupied
  /\ \E c \in Spare : /\ child' = c
                      /\ daemon' = [daemon EXCEPT ![c] = "starting"]
                      /\ signalled' = signalled \ {c} /\ doomed' = doomed \ {c}
  /\ status' = "starting" /\ failures' = 0
  /\ Done
  /\ UNCHANGED <<recent, stopping, foreign, raced>>

(* start() throws; the interval's catch handler takes it. *)
SpawnRefused ==
  /\ at.check = "start" /\ PortOccupied
  /\ status' = "degraded"
  /\ Done
  /\ UNCHANGED <<failures, recent, child, stopping, processes, raced>>

---------------------------------------------------------------------------
(* stop()                                                                  *)

Stop ==
  /\ at.stop = "idle" /\ at.check # "boot"
  /\ raced' = (raced \/ at.check # "idle")
  /\ \/ StopAtOnce("stop") /\ status' = "stopped"
     \/ SendTerm("stop") /\ UNCHANGED status
  /\ UNCHANGED <<failures, recent, daemon, doomed, foreign>>

---------------------------------------------------------------------------
(* The exit event of a child.                                              *)

Forgets == status \notin {"stopped", "alert_only"}

(* The handler drops this.child, whoever that is by now. *)
ExitEvent(c) ==
  /\ daemon[c] = "exited"
  /\ daemon' = [daemon EXCEPT ![c] = "none"]
  /\ child' = IF Forgets THEN NoChild ELSE child
  /\ raced' = (raced \/ (Forgets /\ child \in Alive))
  /\ UNCHANGED <<status, failures, recent, at, stopping, signalled, doomed, foreign>>

---------------------------------------------------------------------------
(* The daemon and the operating system.                                    *)

Becomes(c, from, to) ==
  /\ daemon[c] \in from
  /\ daemon' = [daemon EXCEPT ![c] = to]
  /\ UNCHANGED <<status, failures, recent, child, at, stopping, signalled, doomed,
                 foreign, raced>>

Listen(c) == ~PortOccupied /\ Becomes(c, {"starting"}, "up")
Hang(c) == Becomes(c, {"up"}, "hung")
Exit(c) == Becomes(c, {"starting", "up", "hung"}, "exited")
Killed(c) == c \in doomed /\ Exit(c)

TakePort ==
  /\ foreign' = ~foreign /\ (foreign \/ Listening = {})
  /\ UNCHANGED <<status, failures, recent, child, at, stopping, daemon, signalled, doomed,
                 raced>>

(* A restart falls out of the window of 15 minutes. *)
Expire ==
  /\ recent > 0 /\ recent' = recent - 1
  /\ UNCHANGED <<status, failures, child, at, stopping, processes, raced>>

Check == \/ Tick \/ ProbeOk \/ ProbeFailsOnce \/ AlertOnly \/ Restart
         \/ Spawn \/ SpawnRefused \/ StopSeesExit("check") \/ StopTimesOut("check")

Next ==
  \/ Check \/ Stop \/ StopSeesExit("stop") \/ StopTimesOut("stop")
  \/ \E c \in Children : ExitEvent(c) \/ Listen(c) \/ Hang(c) \/ Exit(c)
  \/ TakePort \/ Expire

(* Timers and events are delivered; SIGKILL kills. *)
Fairness ==
  /\ WF_vars(Check)
  /\ WF_vars(StopSeesExit("stop") \/ StopTimesOut("stop"))
  /\ \A c \in Children : WF_vars(ExitEvent(c)) /\ WF_vars(Killed(c))

Spec == Init /\ [][Next]_vars /\ Fairness

---------------------------------------------------------------------------
(* Properties.                                                             *)

(* "watchdog restarts only its owned child": there is one daemon at a time *)
(* beside those already killed, and it is the one the watchdog refers to,  *)
(* unless stop() came during a check or a late exit event took the handle. *)
OneOwnedDaemon == ~raced => \A c \in Alive \ doomed : c = child

(* "watchdog stops its owned child gracefully": after stop() no daemon is  *)
(* left, with the same two exceptions.                                     *)
StopLeavesNothing == ~raced /\ at.stop = "done" => Alive \subseteq doomed

(* A daemon that hangs is replaced, or somebody is alerted.                *)
HungDaemonIsReplaced ==
  \A c \in Children :
    daemon[c] = "hung" ~> daemon[c] # "hung" \/ status \in {"alert_only", "stopped"} \/ raced

(* A stop ends, whatever the daemon does with its signal.                  *)
StopEnds == at.stop = "stop" ~> at.stop = "done"
=============================================================================

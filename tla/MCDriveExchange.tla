------------------------- MODULE MCDriveExchange ---------------------------
(* One gap, and two file names, one of them the gate's; the findings are   *)
(* the gate's, one of an agent, and one of an agent that does not validate.*)
EXTENDS DriveExchange

CONSTANTS gap03, x, bad, end, fileG, fileX

MCGap == [f \in Findings |-> gap03]
MCTerminated == [k \in Gaps |-> end]
MCFindingsFile == [k \in Gaps |-> fileG]
MCPrefixed == [k \in Gaps |-> {gap03}]
=============================================================================

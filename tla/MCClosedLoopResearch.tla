---------------------- MODULE MCClosedLoopResearch -------------------------
(* Two notebooks.  The first has a source and a local file; the second has *)
(* two sources and no file, so that its listing can throw, and is mined    *)
(* only while the registry has a gap for it.                               *)
EXTENDS ClosedLoopResearch

CONSTANTS a, b, sa, t1, t2, d

MCOrder == <<a, b>>
MCSourcesOf == [n \in Notebooks |-> IF n = a THEN {sa} ELSE {t1, t2}]
MCDisk == [n \in Notebooks |-> IF n = a THEN {d} ELSE {}]
=============================================================================

------------------------- MODULE MCPackReplaceGate -------------------------
(* Instances of PackReplaceGate for TLC.                                   *)
EXTENDS PackReplaceGate, TLC

CONSTANTS sweep, miner, part1, part2, old1, old2, legacy, doc, n1, n2, n3, n4

(* An old generation, and a legacy pack are there at the start. *)
MCExisting == old1 :> part1 @@ old2 :> part2 @@ legacy :> OtherPack
MCExistingOnePart == old1 :> part1

(* The first replacement ever: nothing to delete. *)
MCExistingNone == [s \in {} |-> part1]

MCCounts == {Cardinality(Parts)}
=============================================================================

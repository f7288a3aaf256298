---------------------------- MODULE MCMessageBus ----------------------------
(* Two junctions next to each other: each meets its own messages too, and   *)
(* turns them down as those of no neighbour.                                *)
EXTENDS MessageBus, TLC

CONSTANTS a, b

MCNeighbours == a :> {b} @@ b :> {a}

Symmetry == Permutations({a, b})
=============================================================================

------------------------------- MODULE MCHub -------------------------------
(* Small instances of Hub for TLC. *)
EXTENDS Hub, TLC

CONSTANTS s1, s2, a, b, c, i1, g1, g2

(* Both sessions have the same connection identifier. *)
MCIdentOf == [s \in Sessions |-> i1]

(* With two gates, a has a gate of its own. *)
MCGateOf == [st \in Streams |-> IF st = a THEN g1 ELSE CHOOSE g \in Gates : Gates = {g1} \/ g # g1]

Symmetric == Permutations(Sessions)
=============================================================================

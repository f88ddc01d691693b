----------------------------- MODULE MCPresence -----------------------------
(* Small instances of Presence for TLC. *)
EXTENDS Presence, TLC

CONSTANTS s1, s2, u1, u2

\* every client may use every id, or each its own
AnyId == [s \in Sessions |-> Ids]
OwnId == (s1 :> {u1}) @@ (s2 :> {u2})

Symmetric == Permutations(Sessions) \cup Permutations(Ids) \cup Permutations(Streams)
=============================================================================

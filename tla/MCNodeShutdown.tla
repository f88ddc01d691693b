--------------------------- MODULE MCNodeShutdown ---------------------------
(* Small instances of NodeShutdown for TLC. *)
EXTENDS NodeShutdown, TLC

CONSTANTS s1, s2, s3

Symmetric == Permutations(Sessions)
=============================================================================

--------------------------- MODULE MCTrackStream ---------------------------
(* TrackStream for TLC: three interchangeable connections. *)
EXTENDS TrackStream, TLC

CONSTANTS c1, c2, c3, n1, n2

MCConns == {c1, c2, c3}
MCNonces == {n1, n2}
MCSymmetry == Permutations(MCConns) \union Permutations(MCNonces)
==============================================================================

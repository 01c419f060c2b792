------------------------------ MODULE MCLease ------------------------------
(* LeaseAnswers for TLC: two competing attempts, two profiles, two session *)
(* ids and the invalid 0.  MaxRevision 9 admits two complete suspensions   *)
(* and resumes and then exhausts the revision.                             *)
EXTENDS LeaseAnswers, TLC

CONSTANTS k1, k2, p1, p2, w1, w2

MCKeys == {k1, k2}
MCProfiles == {p1, p2}
MCSessions == {0, 1, 2}
MCWelcomes == {w1, w2}

MCSymmetry ==
  Permutations(MCKeys) \union Permutations(MCProfiles) \union Permutations(MCWelcomes)
==============================================================================

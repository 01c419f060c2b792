---------------------------- MODULE Collections ----------------------------
(***************************************************************************)
(* Maps that a session or a transfer keeps by identity: functions, with    *)
(* the entries of new keys and without those of keys that are gone.        *)
(***************************************************************************)
EXTENDS Naturals, Sequences, FiniteSets

Empty == [k \in {} |-> k]

With(map, key, value) ==
  [k \in DOMAIN map \union {key} |-> IF k = key THEN value ELSE map[k]]

Minus(map, keys) == [k \in DOMAIN map \ keys |-> map[k]]

(***************************************************************************)
(* The elements of a sequence at the places of a set, in their order: what *)
(* the code's filter, retain and drain leave of a list.                    *)
(***************************************************************************)
Rank(places, i) == Cardinality({j \in places : j <= i})

AtPlaces(seq, places) ==
  [n \in 1..Cardinality(places) |-> seq[CHOOSE i \in places : Rank(places, i) = n]]

Only(seq, wanted) == AtPlaces(seq, {i \in DOMAIN seq : seq[i] \in wanted})
=============================================================================

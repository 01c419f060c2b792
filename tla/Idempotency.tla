---------------------------- MODULE Idempotency ----------------------------
(***************************************************************************)
(* The results of keyed requests (idempotency.rs): a request is pending    *)
(* from its first arrival to its result, and later arrivals are answered   *)
(* from the cache.  The hash of a request is the request.                  *)
(***************************************************************************)
EXTENDS Integers, Collections

CONSTANTS Keys, MaxEntries

VARIABLE cache       \* the request and the result of each key in use

\* Results, besides what a request resulted in (0 and more).
Pending == -1
Unknown == -2
Failed  == -3

Known(key) == key \in DOMAIN cache

\* begin: what the arrival of a request under a key amounts to.
Conflicts(key, request) == Known(key) /\ cache[key].request # request
Repeats(key, request) == Known(key) /\ cache[key].request = request
Full == Cardinality(DOMAIN cache) >= MaxEntries
Fresh(key) == ~Known(key) /\ ~Full

Reserved(key, request) ==
  With(cache, key, [request |-> request, result |-> Pending])

\* complete and mark_unknown change a pending entry only.
Stored(key, result) ==
  IF Known(key) /\ cache[key].result = Pending
    THEN [cache EXCEPT ![key].result = result]
    ELSE cache
============================================================================

---------------------------- MODULE MCStandalone ----------------------------
(* Four components that share no state, for TLC: the connection, with two    *)
(* threads on a socket or an adapter, the observation queue, the trace queue *)
(* and the token bucket.  A behaviour drives one of them, chosen at its      *)
(* start, and leaves the others where they begin.                            *)
EXTENDS Connection, ObservationQueue, TraceQueue, TokenBucket

CONSTANTS t1, t2, surface1, surface2, track1, track2

MCClassOf == [o \in {surface1, surface2, track1, track2} |->
                IF o \in {track1, track2} THEN "Track" ELSE "Surface"]

\* The subsequence by places is the one that SelectSeq selects.
ASSUME PlacesSelect ==
  \A n \in 0..3 : \A seq \in [1..n -> Objects], wanted \in SUBSET Objects :
    AtPlaces(seq, {i \in 1..n : seq[i] \in wanted}) = SelectSeq(seq, LAMBDA o : o \in wanted)

VARIABLE driven

OneConnection == ConnectionInit /\ transport.kind = "Native"
OneBucket == bucket = NewBucket(1, 1) /\ contract = Second

StandaloneInit ==
  /\ ObservationInit /\ TraceInit
  /\ \/ driven = "connection" /\ ConnectionInit /\ OneBucket
     \/ driven = "bucket" /\ OneConnection /\ BucketInit
     \/ driven \in {"observations", "trace"} /\ OneConnection /\ OneBucket

StandaloneNext ==
  /\ UNCHANGED driven
  /\ \/ /\ driven = "connection" /\ ConnectionNext
        /\ UNCHANGED observationVars /\ UNCHANGED traceVars /\ UNCHANGED bucketVars
     \/ /\ driven = "observations" /\ ObservationNext
        /\ UNCHANGED connectionVars /\ UNCHANGED traceVars /\ UNCHANGED bucketVars
     \/ /\ driven = "trace" /\ TraceNext
        /\ UNCHANGED connectionVars /\ UNCHANGED observationVars /\ UNCHANGED bucketVars
     \/ /\ driven = "bucket" /\ BucketNext
        /\ UNCHANGED connectionVars /\ UNCHANGED observationVars /\ UNCHANGED traceVars

StandaloneSpec ==
  /\ StandaloneInit
  /\ [][StandaloneNext]_<<driven, connectionVars, observationVars, traceVars, bucketVars>>
  /\ ConnectionFairness
  /\ TraceFairness
=============================================================================

-------------------------- MODULE StandaloneProofs --------------------------
(***************************************************************************)
(* Theorems about the four components that stand alone: the connection,    *)
(* for every number of threads, every body and limit, every batch and      *)
(* every capacity of the wire; the observation queue, the trace queue and  *)
(* the token bucket, for every capacity, set of objects and classes,       *)
(* number of emitters, rate, charge, time and length of the second.        *)
(***************************************************************************)
EXTENDS Connection, ObservationQueue, TraceQueue, TokenBucket,
        FiniteSetTheorems, SequenceTheorems, TLAPS


(***************************************************************************)
(* The trace queue.  Every loss that was counted is waiting in the count,  *)
(* in the worker's hands, or marked: none is marked twice or forgotten.    *)
(* A record knows how many were counted when it was sent, so of those none *)
(* is left in the count once the worker took it after the record.          *)
(***************************************************************************)
TraceRecord == [id: Nat, after: Nat]

TraceTypeOK ==
  /\ trace \in [queue: Seq(TraceRecord), dropped: Nat, open: BOOLEAN]
  /\ worker \in [at: {"Receive", "Swap", "Mark", "Deliver", "Look", "Ended"},
                 record: TraceRecord, lost: Nat]
  /\ told \in [emitted: Nat, accepted: Seq(Nat), delivered: Seq(Nat), lost: Nat, marked: Nat]

InHand == IF worker.at = "Mark" THEN worker.lost ELSE 0

LossesAccounted == told.lost = told.marked + InHand + trace.dropped

RecordsAfterKnownLosses ==
  /\ \A i \in 1..Len(trace.queue) : trace.queue[i].after <= told.lost
  /\ worker.at = "Swap" => worker.record.after <= told.lost
  /\ worker.at \in {"Mark", "Deliver"} => worker.record.after <= told.marked + InHand

TraceInv == TraceTypeOK /\ LossesAccounted /\ RecordsAfterKnownLosses

LEMMA TraceInitInv == TraceInit => TraceInv
  BY TraceAssumption DEF TraceInit, TraceInv, TraceTypeOK, TraceRecord, StopMessage,
     LossesAccounted, InHand, RecordsAfterKnownLosses

LEMMA StopIsRecord == StopMessage \in TraceRecord /\ StopMessage.after = 0
  BY DEF StopMessage, TraceRecord

\* A record that knows of no more losses than were counted may be queued.
LEMMA AppendedAfter ==
  ASSUME NEW q \in Seq(TraceRecord), NEW m \in TraceRecord, NEW n \in Nat, m.after <= n,
         \A i \in 1..Len(q) : q[i].after <= n
  PROVE  /\ Append(q, m) \in Seq(TraceRecord)
         /\ \A i \in 1..Len(Append(q, m)) : Append(q, m)[i].after <= n
  BY DEF TraceRecord

LEMMA TakenAfter ==
  ASSUME NEW q \in Seq(TraceRecord), q # <<>>, NEW n \in Nat,
         \A i \in 1..Len(q) : q[i].after <= n
  PROVE  /\ Tail(q) \in Seq(TraceRecord)
         /\ \A i \in 1..Len(Tail(q)) : Tail(q)[i].after <= n
         /\ Head(q) \in TraceRecord /\ Head(q).after <= n
  OBVIOUS

LEMMA EmitInv ==
  ASSUME TraceInv, NEW t \in Emitters, EmitRecord(t)
  PROVE  TraceInv'
<1>. USE DEF TraceInv, TraceTypeOK
<1>1. Emitted \in TraceRecord /\ Emitted.after = told.lost
  BY DEF Emitted, TraceRecord
<1>2. UNCHANGED worker
  BY DEF EmitRecord
<1>3. PICK accepted \in Seq(Nat) :
        told' = [emitted |-> told.emitted + 1, accepted |-> accepted,
                 delivered |-> told.delivered, lost |-> told.lost, marked |-> told.marked]
  <2>1. Emitted.id \in Nat
    BY <1>1 DEF TraceRecord
  <2>2. Append(told.accepted, Emitted.id) \in Seq(Nat)
    BY <2>1
  <2>3. \E accepted \in {told.accepted, Append(told.accepted, Emitted.id)} :
          told' = [told EXCEPT !.emitted = told.emitted + 1, !.accepted = accepted]
    <3>1. CASE HasSpace BY <3>1 DEF EmitRecord
    <3>2. CASE ~HasSpace BY <3>2 DEF EmitRecord
    <3>. QED BY <3>1, <3>2
  <2>. QED BY <2>2, <2>3
<1>4. CASE HasSpace
  <2>1. trace' = [trace EXCEPT !.queue = Append(trace.queue, Emitted)]
    BY <1>4 DEF EmitRecord
  <2>2. /\ Append(trace.queue, Emitted) \in Seq(TraceRecord)
        /\ \A i \in 1..Len(Append(trace.queue, Emitted)) :
             Append(trace.queue, Emitted)[i].after <= told.lost
    <3>1. trace.queue \in Seq(TraceRecord) /\ told.lost \in Nat
      OBVIOUS
    <3>2. \A i \in 1..Len(trace.queue) : trace.queue[i].after <= told.lost
      BY DEF RecordsAfterKnownLosses
    <3>3. Emitted.after <= told.lost
      BY <1>1, <3>1
    <3>. HIDE DEF TraceInv, TraceTypeOK
    <3>. QED BY <1>1, <3>1, <3>2, <3>3, AppendedAfter
  <2>3. trace' = [queue |-> Append(trace.queue, Emitted), dropped |-> trace.dropped, open |-> trace.open]
    BY <2>1
  <2>4. TraceTypeOK'
    BY <1>2, <1>3, <2>2, <2>3
  <2>. QED
    BY <1>2, <1>3, <2>2, <2>3, <2>4 DEF LossesAccounted, RecordsAfterKnownLosses, InHand
<1>5. CASE ~HasSpace
  <2>1. UNCHANGED trace
    BY <1>5 DEF EmitRecord
  <2>. QED BY <1>2, <1>3, <2>1 DEF LossesAccounted, RecordsAfterKnownLosses, InHand
<1>. QED BY <1>4, <1>5

LEMMA ReceiveInv ==
  ASSUME TraceInv, Receive
  PROVE  TraceInv'
<1>. USE DEF TraceInv, TraceTypeOK
<1>. DEFINE m == Head(trace.queue)
<1>1. /\ Tail(trace.queue) \in Seq(TraceRecord)
      /\ \A i \in 1..Len(Tail(trace.queue)) : Tail(trace.queue)[i].after <= told.lost
      /\ m \in TraceRecord /\ m.after <= told.lost
  BY TakenAfter DEF Receive, RecordsAfterKnownLosses
<1>2. /\ worker.at = "Receive"
      /\ UNCHANGED told
      /\ worker' = [at |-> IF m = StopMessage THEN "Ended" ELSE "Swap", record |-> m, lost |-> 0]
      /\ trace' = [queue |-> Tail(trace.queue), dropped |-> trace.dropped, open |-> (m # StopMessage)]
  BY DEF Receive
<1>. HIDE DEF m
<1>. QED BY <1>1, <1>2 DEF LossesAccounted, RecordsAfterKnownLosses, InHand

LEMMA TraceStep == TraceInv /\ [TraceNext]_traceVars => TraceInv'
<1>. SUFFICES ASSUME TraceInv, [TraceNext]_traceVars PROVE TraceInv'
  OBVIOUS
<1>. USE DEF TraceInv, TraceTypeOK, LossesAccounted, RecordsAfterKnownLosses, InHand
<1>1. ASSUME NEW t \in Emitters, CountLoss(t) PROVE TraceInv'
  <2>1. /\ UNCHANGED worker
        /\ trace' = [queue |-> trace.queue, dropped |-> trace.dropped + 1, open |-> trace.open]
        /\ told' = [emitted |-> told.emitted, accepted |-> told.accepted,
                    delivered |-> told.delivered, lost |-> told.lost + 1, marked |-> told.marked]
    BY <1>1 DEF CountLoss
  <2>2. \A r \in TraceRecord : r.after \in Nat
    BY DEF TraceRecord
  <2>3. \A i \in 1..Len(trace.queue) : trace.queue[i].after <= told.lost + 1
    <3>1. /\ trace.queue \in Seq(TraceRecord) /\ told.lost \in Nat
          /\ \A i \in 1..Len(trace.queue) : trace.queue[i].after <= told.lost
      OBVIOUS
    <3>. HIDE DEF TraceInv, TraceTypeOK, LossesAccounted, RecordsAfterKnownLosses, InHand
    <3>2. \A i \in 1..Len(trace.queue) : trace.queue[i].after \in Nat
      BY <2>2, <3>1
    <3>. QED BY <3>1, <3>2
  <2>4. TraceTypeOK'
    <3>1. trace.dropped + 1 \in Nat /\ told.lost + 1 \in Nat
      OBVIOUS
    <3>2. trace' \in [queue: Seq(TraceRecord), dropped: Nat, open: BOOLEAN]
      BY <2>1, <3>1
    <3>3. told' \in [emitted: Nat, accepted: Seq(Nat), delivered: Seq(Nat), lost: Nat, marked: Nat]
      BY <2>1, <3>1
    <3>. QED BY <2>1, <3>2, <3>3
  <2>5. LossesAccounted'
    <3>1. /\ told.lost \in Nat /\ told.marked \in Nat /\ trace.dropped \in Nat
          /\ worker.lost \in Nat /\ InHand \in Nat
          /\ told.lost = told.marked + InHand + trace.dropped
      OBVIOUS
    <3>2. /\ told'.lost = told.lost + 1 /\ told'.marked = told.marked /\ InHand' = InHand
          /\ trace'.dropped = trace.dropped + 1
      BY <2>1
    <3>. HIDE DEF TraceInv, TraceTypeOK, RecordsAfterKnownLosses, InHand
    <3>. QED BY <3>1, <3>2
  <2>. QED BY <2>1, <2>2, <2>3, <2>4, <2>5
<1>2. CASE SwapLoss
  <2>1. /\ worker.at = "Swap" /\ UNCHANGED told
        /\ trace' = [queue |-> trace.queue, dropped |-> 0, open |-> trace.open]
        /\ worker' = [at |-> IF trace.dropped # 0 THEN "Mark" ELSE "Deliver",
                      record |-> worker.record, lost |-> trace.dropped]
    BY <1>2 DEF SwapLoss, AfterSwap
  <2>. QED BY <2>1
<1>3. CASE MarkLoss
  <2>1. /\ worker.at = "Mark" /\ UNCHANGED trace
        /\ worker' = [at |-> "Deliver", record |-> worker.record, lost |-> worker.lost]
        /\ told' = [emitted |-> told.emitted, accepted |-> told.accepted, delivered |-> told.delivered,
                    lost |-> told.lost, marked |-> told.marked + worker.lost]
    BY <1>3 DEF MarkLoss
  <2>. QED BY <2>1
<1>4. CASE Deliver
  <2>1. /\ worker.at = "Deliver" /\ UNCHANGED trace
        /\ worker' = [at |-> "Look", record |-> worker.record, lost |-> worker.lost]
        /\ told' = [emitted |-> told.emitted, accepted |-> told.accepted,
                    delivered |-> Append(told.delivered, worker.record.id),
                    lost |-> told.lost, marked |-> told.marked]
    BY <1>4 DEF Deliver
  <2>2. Append(told.delivered, worker.record.id) \in Seq(Nat)
    BY DEF TraceRecord
  <2>. QED BY <2>1, <2>2
<1>5. CASE LookAtShutdown
  <2>1. /\ worker.at = "Look" /\ UNCHANGED told
        /\ trace' \in {trace, [queue |-> <<>>, dropped |-> trace.dropped, open |-> FALSE]}
        /\ \E at \in {"Ended", "Receive"} :
             worker' = [at |-> at, record |-> worker.record, lost |-> worker.lost]
    <3>1. CASE guard.callback_shutdown
      <4>1. /\ worker' = [worker EXCEPT !.at = "Ended"]
            /\ trace' = [trace EXCEPT !.open = FALSE, !.queue = <<>>]
        BY <1>5, <3>1 DEF LookAtShutdown
      <4>2. worker' = [at |-> "Ended", record |-> worker.record, lost |-> worker.lost]
        BY <4>1
      <4>3. trace' = [queue |-> <<>>, dropped |-> trace.dropped, open |-> FALSE]
        BY <4>1
      <4>. QED BY <1>5, <4>2, <4>3 DEF LookAtShutdown
    <3>2. CASE ~guard.callback_shutdown
      <4>1. worker' = [worker EXCEPT !.at = "Receive"] /\ UNCHANGED trace
        BY <1>5, <3>2 DEF LookAtShutdown
      <4>2. worker' = [at |-> "Receive", record |-> worker.record, lost |-> worker.lost]
        BY <4>1
      <4>. QED BY <1>5, <4>1, <4>2 DEF LookAtShutdown
    <3>. QED BY <3>1, <3>2
  <2>2. CASE trace' = trace
    BY <2>1, <2>2
  <2>3. CASE trace' = [queue |-> <<>>, dropped |-> trace.dropped, open |-> FALSE]
    <3>1. <<>> \in Seq(TraceRecord) /\ Len(<<>>) = 0
      OBVIOUS
    <3>2. TraceTypeOK'
      BY <2>1, <2>3, <3>1
    <3>. QED BY <2>1, <2>3, <3>1, <3>2
  <2>. QED BY <2>1, <2>2, <2>3
<1>6. CASE BeginDrop \/ Join
  BY <1>6 DEF BeginDrop, Join
<1>7. CASE SendShutdown
  <2>. DEFINE q == Append(trace.queue, StopMessage)
  <2>1. q \in Seq(TraceRecord) /\ \A i \in 1..Len(q) : q[i].after <= told.lost
    <3>1. /\ trace.queue \in Seq(TraceRecord) /\ told.lost \in Nat
          /\ \A i \in 1..Len(trace.queue) : trace.queue[i].after <= told.lost
      OBVIOUS
    <3>2. StopMessage \in TraceRecord /\ StopMessage.after <= told.lost
      BY <3>1, StopIsRecord
    <3>. HIDE DEF TraceInv, TraceTypeOK, LossesAccounted, RecordsAfterKnownLosses, InHand
    <3>. QED BY <3>1, <3>2, AppendedAfter
  <2>2. /\ UNCHANGED <<worker, told>>
        /\ trace' = [queue |-> q, dropped |-> trace.dropped, open |-> trace.open]
    BY <1>7 DEF SendShutdown, SendsShutdown, WithShutdown
  <2>. HIDE DEF q
  <2>. QED BY <2>1, <2>2
<1>8. CASE UNCHANGED traceVars
  BY <1>8 DEF traceVars
<1>. HIDE DEF TraceInv, TraceTypeOK, LossesAccounted, RecordsAfterKnownLosses, InHand
<1>. QED
  BY <1>1, <1>2, <1>3, <1>4, <1>5, <1>6, <1>7, <1>8, EmitInv, ReceiveInv
     DEF TraceNext, WorkerStep

\* A record is handed over only after a mark of every loss counted before it
\* was sent, and no loss is marked twice or forgotten (TraceEmitter::emit and
\* the worker of start_trace).
THEOREM TraceLossMarked == TraceSpec => [](LossMarked /\ LossesAccounted)
<1>1. TraceInv => LossMarked /\ LossesAccounted
  BY DEF TraceInv, TraceTypeOK, RecordsAfterKnownLosses, InHand, LossMarked
<1>. QED
  BY <1>1, TraceInitInv, TraceStep, PTL DEF TraceSpec

(***************************************************************************)
(* Subsequences by place: what filter, retain and drain leave of a list.   *)
(***************************************************************************)
\* Every rank up to their number is taken by one place, and by one alone, and
\* the ranks are in the order of the places.
LEMMA RankIsOneToOne ==
  ASSUME NEW n \in Nat, NEW places \in SUBSET (1..n)
  PROVE  /\ IsFiniteSet(places) /\ Cardinality(places) \in Nat
         /\ \A i \in places : Rank(places, i) \in 1..Cardinality(places)
         /\ \A i, j \in places : i < j => Rank(places, i) < Rank(places, j)
         /\ \A i, j \in places : Rank(places, i) = Rank(places, j) => i = j
         /\ \A r \in 1..Cardinality(places) : \E i \in places : Rank(places, i) = r
<1>. DEFINE upto(i) == {j \in places : j <= i}
            size == Cardinality(places)
            rank == [i \in places |-> Rank(places, i)]
<1>1. IsFiniteSet(places) /\ size \in Nat
  <2>1. IsFiniteSet(1..n)
    BY FS_Interval
  <2>. QED BY <2>1, FS_Subset, FS_CardinalityType
<1>2. ASSUME NEW i \in places
      PROVE  /\ IsFiniteSet(upto(i)) /\ Rank(places, i) \in Nat
             /\ Rank(places, i) <= size /\ Rank(places, i) # 0
  <2>1. upto(i) \in SUBSET places /\ i \in upto(i)
    OBVIOUS
  <2>2. IsFiniteSet(upto(i)) /\ Cardinality(upto(i)) <= size /\ Cardinality(upto(i)) \in Nat
    BY <1>1, <2>1, FS_Subset, FS_CardinalityType
  <2>. QED BY <2>1, <2>2, FS_EmptySet DEF Rank
<1>3. ASSUME NEW i \in places, NEW j \in places, i < j
      PROVE  Rank(places, i) < Rank(places, j)
  <2>1. upto(i) \in SUBSET upto(j) /\ j \in upto(j) /\ j \notin upto(i)
    <3>1. i \in Int /\ j \in Int /\ \A k \in places : k \in Int
      OBVIOUS
    <3>2. \A k \in Int : k <= i => k <= j
      BY <1>3, <3>1
    <3>3. j <= j /\ ~(j <= i)
      BY <1>3, <3>1
    <3>. QED BY <3>1, <3>2, <3>3
  <2>2. Cardinality(upto(i)) <= Cardinality(upto(j)) /\ Cardinality(upto(i)) # Cardinality(upto(j))
    BY <1>2, <2>1, FS_Subset
  <2>3. Cardinality(upto(i)) \in Nat /\ Cardinality(upto(j)) \in Nat
    BY <1>2 DEF Rank
  <2>. QED BY <2>2, <2>3 DEF Rank
<1>4. \A i, j \in places : Rank(places, i) = Rank(places, j) => i = j
  <2>1. \A i, j \in places : i < j \/ j < i \/ i = j
    OBVIOUS
  <2>2. \A i, j \in Nat : i < j => i # j
    OBVIOUS
  <2>3. \A i \in places : Rank(places, i) \in Nat
    BY <1>2
  <2>. QED BY <1>3, <2>1, <2>2, <2>3
<1>5. \A i \in places : Rank(places, i) \in 1..size
  <2>. HIDE DEF size
  <2>1. \A k \in Nat : k <= size /\ k # 0 => k \in 1..size
    BY <1>1
  <2>. QED BY <1>2, <2>1
<1>6. rank \in Injection(places, 1..size)
  BY <1>4, <1>5 DEF Injection, IsInjective
<1>7. IsFiniteSet(1..size) /\ Cardinality(1..size) = size
  BY <1>1, FS_Interval
<1>8. rank \in Surjection(places, 1..size)
  BY <1>6, <1>7, FS_Injection
<1>. QED BY <1>1, <1>3, <1>4, <1>5, <1>8 DEF Surjection

\* What is at the places is the elements that were there, each once.
LEMMA AtPlacesProperties ==
  ASSUME NEW S, NEW seq \in Seq(S), NEW places \in SUBSET (1..Len(seq))
  PROVE  LET kept == AtPlaces(seq, places) IN
         /\ kept \in Seq(S)
         /\ \A n \in 1..Len(kept) : \E i \in places : kept[n] = seq[i] /\ Rank(places, i) = n
         /\ \A i \in places : Rank(places, i) \in 1..Len(kept) /\ kept[Rank(places, i)] = seq[i]
         /\ \A i, j \in places : i < j => Rank(places, i) < Rank(places, j)
<1>. DEFINE kept == AtPlaces(seq, places)
            size == Cardinality(places)
            place(n) == CHOOSE i \in places : Rank(places, i) = n
<1>1. /\ size \in Nat
      /\ \A i \in places : Rank(places, i) \in 1..size
      /\ \A i, j \in places : i < j => Rank(places, i) < Rank(places, j)
      /\ \A i, j \in places : Rank(places, i) = Rank(places, j) => i = j
      /\ \A r \in 1..size : \E i \in places : Rank(places, i) = r
  <2>1. Len(seq) \in Nat
    OBVIOUS
  <2>. QED BY <2>1, RankIsOneToOne
<1>2. \A n \in 1..size : place(n) \in places /\ Rank(places, place(n)) = n
  BY <1>1
<1>3. kept = [n \in 1..size |-> seq[place(n)]]
  BY DEF AtPlaces
<1>. HIDE DEF place
<1>4. \A n \in 1..size : seq[place(n)] \in S
  <2>1. \A i \in places : seq[i] \in S
    OBVIOUS
  <2>. QED BY <1>2, <2>1
<1>5. kept \in Seq(S) /\ Len(kept) = size
  BY <1>1, <1>3, <1>4
<1>6. \A i \in places : place(Rank(places, i)) = i
  BY <1>1, <1>2
<1>. HIDE DEF kept, size
<1>7. \A n \in 1..Len(kept) : \E i \in places : kept[n] = seq[i] /\ Rank(places, i) = n
  BY <1>2, <1>3, <1>5
<1>8. \A i \in places : Rank(places, i) \in 1..Len(kept) /\ kept[Rank(places, i)] = seq[i]
  BY <1>1, <1>3, <1>5, <1>6
<1>. QED BY <1>1, <1>5, <1>7, <1>8 DEF kept

(***************************************************************************)
(* The observation queue.  An object has at most one entry, which tells    *)
(* what the object is now, and no class that is not observed has any.      *)
(***************************************************************************)
Version == 0..(Versions - 1)
Entry == [key: Objects, version: Version]
LossRecord == [first: Nat, classes: SUBSET ObjectClasses]

ObservationTypeOK ==
  /\ observations \in [mask: SUBSET ObjectClasses, sequence: Nat, entries: Seq(Entry),
                       lost: {Absent} \union LossRecord]
  /\ truth \in [Objects -> Version]
  /\ belief \in [Objects -> {Absent} \union Version]

OneEntryEach(entries) ==
  \A i, j \in 1..Len(entries) : entries[i].key = entries[j].key => i = j

TellsTruth(entries, mask, now) ==
  \A i \in 1..Len(entries) :
    entries[i].version = now[entries[i].key] /\ ClassOf[entries[i].key] \in mask

\* BeliefSound, as a fact about the values of the variables.
Corrected(o, entries, lost) ==
  \/ \E i \in 1..Len(entries) : entries[i].key = o
  \/ lost # Absent /\ ClassOf[o] \in lost.classes

Sound(mask, entries, lost, now, believed) ==
  \A o \in Objects : ClassOf[o] \in mask =>
    believed[o] \in {Absent, now[o]} \/ Corrected(o, entries, lost)

ObservationInv ==
  /\ ObservationTypeOK
  /\ OneEntryEach(observations.entries)
  /\ TellsTruth(observations.entries, observations.mask, truth)
  /\ Sound(observations.mask, observations.entries, observations.lost, truth, belief)

LEMMA ObservationInitInv == ObservationInit => ObservationInv
<1>. SUFFICES ASSUME ObservationInit PROVE ObservationInv
  OBVIOUS
<1>1. /\ observations = [mask |-> {}, sequence |-> 0, entries |-> <<>>, lost |-> Absent]
      /\ truth = [o \in Objects |-> 0]
      /\ belief = [o \in Objects |-> Absent]
  BY DEF ObservationInit
<1>2. 0 \in Version /\ <<>> \in Seq(Entry) /\ Len(<<>>) = 0
  BY ObservationAssumption DEF Version
<1>3. ObservationTypeOK
  BY <1>1, <1>2 DEF ObservationTypeOK
<1>. QED
  BY <1>1, <1>2, <1>3 DEF ObservationInv, OneEntryEach, TellsTruth, Sound

\* An object that is not queued is appended with what it is now.
LEMMA AppendedEntry ==
  ASSUME NEW q \in Seq(Entry), NEW mask, NEW now, OneEntryEach(q), TellsTruth(q, mask, now),
         NEW o \in Objects, NEW v \in Version, now[o] = v, ClassOf[o] \in mask,
         \A i \in 1..Len(q) : q[i].key # o
  PROVE  LET r == Append(q, [key |-> o, version |-> v]) IN
         /\ r \in Seq(Entry) /\ OneEntryEach(r) /\ TellsTruth(r, mask, now)
         /\ \A i \in 1..Len(q) : \E j \in 1..Len(r) : r[j].key = q[i].key
         /\ \E j \in 1..Len(r) : r[j].key = o
<1>. DEFINE e == [key |-> o, version |-> v]
            r == Append(q, e)
<1>1. e \in Entry /\ e.key = o /\ e.version = v
  BY DEF Entry
<1>. HIDE DEF e
<1>2. /\ r \in Seq(Entry) /\ Len(r) = Len(q) + 1 /\ Len(q) \in Nat
      /\ \A i \in 1..Len(q) : r[i] = q[i]
      /\ r[Len(q) + 1] = e
  BY <1>1, AppendProperties
<1>. HIDE DEF r
<1>3. \A i \in 1..Len(r) : i \in 1..Len(q) \/ i = Len(q) + 1
  BY <1>2
<1>4. 1..Len(q) \subseteq 1..Len(r) /\ Len(q) + 1 \in 1..Len(r)
  BY <1>2
<1>5. OneEntryEach(r)
  BY <1>1, <1>2, <1>3 DEF OneEntryEach
<1>6. TellsTruth(r, mask, now)
  BY <1>1, <1>2, <1>3 DEF TellsTruth
<1>. QED BY <1>1, <1>2, <1>4, <1>5, <1>6 DEF r, e

\* The head is taken; every other object is still queued.
LEMMA TakenEntry ==
  ASSUME NEW q \in Seq(Entry), q # <<>>, NEW mask, NEW now,
         OneEntryEach(q), TellsTruth(q, mask, now)
  PROVE  /\ Tail(q) \in Seq(Entry) /\ OneEntryEach(Tail(q)) /\ TellsTruth(Tail(q), mask, now)
         /\ Head(q) \in Entry /\ Head(q).version = now[Head(q).key]
         /\ ClassOf[Head(q).key] \in mask
         /\ \A i \in 1..Len(Tail(q)) : Tail(q)[i].key # Head(q).key
         /\ \A i \in 1..Len(q) :
              q[i].key = Head(q).key \/ \E j \in 1..Len(Tail(q)) : Tail(q)[j].key = q[i].key
<1>. DEFINE r == Tail(q)
<1>1. /\ r \in Seq(Entry) /\ Len(q) \in Nat /\ Len(q) >= 1 /\ Len(r) = Len(q) - 1
      /\ \A i \in 1..Len(r) : r[i] = q[i + 1]
      /\ Head(q) = q[1] /\ Head(q) \in Entry
  BY HeadTailProperties
<1>2. /\ \A i \in 1..Len(r) : i + 1 \in 1..Len(q) /\ i + 1 # 1
      /\ \A i \in 1..Len(q) : i = 1 \/ (i - 1 \in 1..Len(r) /\ (i - 1) + 1 = i)
      /\ 1 \in 1..Len(q)
      /\ \A i, j \in 1..Len(r) : i + 1 = j + 1 => i = j
  BY <1>1
<1>. HIDE DEF r
<1>3. OneEntryEach(r)
  BY <1>1, <1>2 DEF OneEntryEach
<1>4. TellsTruth(r, mask, now)
  <2>1. \A i \in 1..Len(r) : \E k \in 1..Len(q) : r[i] = q[k]
    BY <1>1, <1>2
  <2>. QED BY <2>1 DEF TellsTruth
<1>5. \A i \in 1..Len(r) : r[i].key # Head(q).key
  <2>. SUFFICES ASSUME NEW i \in 1..Len(r) PROVE q[i + 1].key # q[1].key
    BY <1>1
  <2>1. i + 1 \in 1..Len(q) /\ 1 \in 1..Len(q) /\ i + 1 # 1
    BY <1>2
  <2>. QED BY <2>1 DEF OneEntryEach
<1>6. \A i \in 1..Len(q) :
        q[i].key = Head(q).key \/ \E j \in 1..Len(r) : r[j].key = q[i].key
  <2>. SUFFICES ASSUME NEW i \in 1..Len(q), i # 1
                PROVE  \E j \in 1..Len(r) : r[j].key = q[i].key
    BY <1>1
  <2>1. i - 1 \in 1..Len(r) /\ (i - 1) + 1 = i
    BY <1>2
  <2>2. r[i - 1] = q[i]
    BY <1>1, <2>1
  <2>. QED BY <2>1, <2>2
<1>7. Head(q).version = now[Head(q).key] /\ ClassOf[Head(q).key] \in mask
  BY <1>1, <1>2 DEF TellsTruth
<1>. QED BY <1>1, <1>3, <1>4, <1>5, <1>6, <1>7 DEF r

\* The entry of an object is changed in place.
Revised(q, k, v) == [q EXCEPT ![k].version = v]

LEMMA ChangedEntry ==
  ASSUME NEW q \in Seq(Entry), NEW mask, NEW now \in [Objects -> Version], OneEntryEach(q),
         TellsTruth(q, mask, now), NEW k \in 1..Len(q), NEW v \in Version
  PROVE  LET r     == Revised(q, k, v)
             later == [now EXCEPT ![q[k].key] = v] IN
         /\ r \in Seq(Entry) /\ OneEntryEach(r) /\ TellsTruth(r, mask, later)
         /\ Len(r) = Len(q) /\ \A i \in 1..Len(q) : r[i].key = q[i].key
<1>. DEFINE e == [key |-> q[k].key, version |-> v]
            r == [q EXCEPT ![k] = e]
            later == [now EXCEPT ![q[k].key] = v]
<1>1. /\ q[k] \in Entry /\ e \in Entry /\ e.key = q[k].key /\ e.version = v
      /\ [q[k] EXCEPT !.version = v] = e
  <2>1. q[k] \in Entry
    OBVIOUS
  <2>. QED BY <2>1 DEF Entry
<1>2. Revised(q, k, v) = r
  BY <1>1 DEF Revised
<1>. HIDE DEF e
<1>3. /\ r \in Seq(Entry) /\ Len(r) = Len(q)
      /\ \A i \in 1..Len(q) : r[i] = IF i = k THEN e ELSE q[i]
  BY <1>1, ExceptSeq
<1>. HIDE DEF r
<1>4. \A i \in 1..Len(q) : r[i].key = q[i].key
  BY <1>1, <1>3
<1>5. OneEntryEach(r)
  BY <1>3, <1>4 DEF OneEntryEach
<1>6. TellsTruth(r, mask, later)
  <2>. SUFFICES ASSUME NEW i \in 1..Len(q)
                PROVE  r[i].version = later[r[i].key] /\ ClassOf[r[i].key] \in mask
    BY <1>3 DEF TellsTruth
  <2>1. q[i] \in Entry /\ q[i].key \in Objects
    <3>1. q[i] \in Entry
      OBVIOUS
    <3>. QED BY <3>1 DEF Entry
  <2>2. CASE i = k
    BY <1>1, <1>3, <1>4, <2>1, <2>2 DEF TellsTruth
  <2>3. CASE i # k
    BY <1>3, <1>4, <2>1, <2>3 DEF TellsTruth, OneEntryEach
  <2>. QED BY <2>2, <2>3
<1>. QED BY <1>2, <1>3, <1>4, <1>5, <1>6

\* A loss names its class, and forgets none it named before.
LEMMA LossNames ==
  ASSUME ObservationTypeOK, NEW class \in ObjectClasses
  PROVE  /\ Loss(observations, class) \in LossRecord
         /\ Loss(observations, class) # Absent
         /\ class \in Loss(observations, class).classes
         /\ observations.lost # Absent =>
              observations.lost.classes \subseteq Loss(observations, class).classes
<1>1. observations.sequence \in Nat /\ observations.lost \in {Absent} \union LossRecord
  BY DEF ObservationTypeOK
<1>2. Absent \notin LossRecord
  BY ObservationAssumption DEF LossRecord
<1>3. CASE observations.lost = Absent
  BY <1>1, <1>2, <1>3 DEF Loss, LossRecord
<1>4. CASE observations.lost # Absent
  <2>. DEFINE l == observations.lost
  <2>1. /\ Loss(observations, class) = [first |-> l.first, classes |-> l.classes \union {class}]
        /\ l \in LossRecord
    BY <1>1, <1>4 DEF Loss, LossRecord
  <2>. HIDE DEF l
  <2>2. Loss(observations, class) \in LossRecord
    BY <2>1 DEF LossRecord
  <2>. QED BY <1>2, <2>1, <2>2 DEF l
<1>. QED BY <1>3, <1>4

LEMMA ChangeInv ==
  ASSUME ObservationInv, NEW o \in Objects, Change(o)
  PROVE  ObservationInv'
<1>. DEFINE v == (truth[o] + 1) % Versions
            q == observations.entries
            mask == observations.mask
<1>1. /\ truth' = [truth EXCEPT ![o] = v] /\ UNCHANGED belief
      /\ observations' = IF Subscribed(o) THEN Push(observations, o, v) ELSE observations
  BY DEF Change
<1>2. /\ observations \in [mask: SUBSET ObjectClasses, sequence: Nat, entries: Seq(Entry),
                           lost: {Absent} \union LossRecord]
      /\ truth \in [Objects -> Version]
      /\ belief \in [Objects -> {Absent} \union Version]
      /\ q \in Seq(Entry) /\ OneEntryEach(q) /\ TellsTruth(q, mask, truth)
      /\ Sound(mask, q, observations.lost, truth, belief)
      /\ ObservationTypeOK
  BY DEF ObservationInv, ObservationTypeOK
<1>3. v \in Version
  BY <1>2, ObservationAssumption DEF Version
<1>. HIDE DEF v
<1>4. truth' \in [Objects -> Version] /\ \A p \in Objects : truth'[p] = IF p = o THEN v ELSE truth[p]
  BY <1>1, <1>2, <1>3
<1>5. CASE ClassOf[o] \notin mask
  <2>1. observations' = observations
    BY <1>1, <1>5 DEF Subscribed
  <2>2. \A i \in 1..Len(q) : q[i].key # o
    BY <1>2, <1>5 DEF TellsTruth
  <2>3. \A i \in 1..Len(q) : q[i].key \in Objects
    <3>1. \A i \in 1..Len(q) : q[i] \in Entry
      BY <1>2
    <3>. QED BY <3>1 DEF Entry
  <2>4. TellsTruth(q, mask, truth')
    BY <1>2, <1>4, <2>2, <2>3 DEF TellsTruth
  <2>5. Sound(mask, q, observations.lost, truth', belief)
    BY <1>2, <1>4, <1>5 DEF Sound
  <2>. QED
    BY <1>1, <1>2, <1>4, <2>1, <2>4, <2>5 DEF ObservationInv, ObservationTypeOK
<1>6. CASE ClassOf[o] \in mask /\ \E k \in 1..Len(q) : q[k].key = o
  <2>1. PICK k \in 1..Len(q) : q[k].key = o
    BY <1>6
  <2>. DEFINE r == Revised(q, k, v)
              existing == {i \in DOMAIN q : CoalescesWith(q[i], o)}
  <2>2. existing = {k}
    BY <1>2, <2>1 DEF CoalescesWith, OneEntryEach
  <2>3. (CHOOSE i \in existing : \A j \in existing : i <= j) = k
    <3>1. k <= k
      BY <1>2
    <3>. QED BY <2>2, <3>1
  <2>4. Push(observations, o, v) = [observations EXCEPT !.entries[k].version = v]
    BY <2>2, <2>3 DEF Push
  <2>5. observations' = [mask |-> mask, sequence |-> observations.sequence,
                         entries |-> r, lost |-> observations.lost]
    BY <1>1, <1>2, <1>6, <2>4 DEF Subscribed, Revised
  <2>6. /\ r \in Seq(Entry) /\ OneEntryEach(r) /\ TellsTruth(r, mask, truth')
        /\ Len(r) = Len(q) /\ \A i \in 1..Len(q) : r[i].key = q[i].key
    <3>1. truth' = [truth EXCEPT ![q[k].key] = v]
      BY <1>1, <2>1
    <3>. HIDE DEF q, mask
    <3>. QED BY <1>2, <1>3, <3>1, ChangedEntry
  <2>. HIDE DEF r
  <2>7. Sound(mask, r, observations.lost, truth', belief)
    BY <1>2, <1>4, <2>1, <2>6 DEF Sound, Corrected
  <2>. QED
    BY <1>1, <1>2, <1>4, <2>5, <2>6, <2>7 DEF ObservationInv, ObservationTypeOK
<1>7. CASE ClassOf[o] \in mask /\ \A k \in 1..Len(q) : q[k].key # o
  <2>. DEFINE room == DropOldest(observations)
              r == Append(room.entries, [key |-> o, version |-> v])
  <2>1. {i \in DOMAIN q : CoalescesWith(q[i], o)} = {}
    BY <1>2, <1>7 DEF CoalescesWith
  <2>2. observations' = [room EXCEPT !.entries = r]
    BY <1>1, <1>7, <2>1 DEF Push, Subscribed
  <2>3. /\ room \in [mask: SUBSET ObjectClasses, sequence: Nat, entries: Seq(Entry),
                     lost: {Absent} \union LossRecord]
        /\ room.mask = mask /\ OneEntryEach(room.entries)
        /\ TellsTruth(room.entries, mask, truth)
        /\ \A i \in 1..Len(room.entries) : room.entries[i].key # o
        /\ Sound(mask, room.entries, room.lost, truth, belief)
    <3>1. CASE Len(q) < QueueCapacity
      BY <1>2, <1>7, <3>1 DEF DropOldest
    <3>2. CASE ~(Len(q) < QueueCapacity)
      <4>. DEFINE class == ClassOf[Head(q).key]
                  lost == Loss(observations, class)
      <4>1. q # <<>>
        BY <1>2, <3>2, ObservationAssumption
      <4>2. room = [mask |-> mask, sequence |-> observations.sequence,
                    entries |-> Tail(q), lost |-> lost]
        BY <1>2, <3>2 DEF DropOldest
      <4>3. /\ Tail(q) \in Seq(Entry) /\ OneEntryEach(Tail(q)) /\ TellsTruth(Tail(q), mask, truth)
            /\ Head(q) \in Entry
            /\ \A i \in 1..Len(q) :
                  q[i].key = Head(q).key \/ \E j \in 1..Len(Tail(q)) : Tail(q)[j].key = q[i].key
        BY <1>2, <4>1, TakenEntry
      <4>4. class \in ObjectClasses
        BY <4>3, ObservationAssumption DEF Entry
      <4>5. /\ lost \in LossRecord /\ lost # Absent /\ class \in lost.classes
            /\ observations.lost # Absent => observations.lost.classes \subseteq lost.classes
        BY <1>2, <4>4, LossNames
      <4>. HIDE DEF lost
      <4>6. Sound(mask, Tail(q), lost, truth, belief)
        <5>. SUFFICES ASSUME NEW p \in Objects, ClassOf[p] \in mask,
                             belief[p] \notin {Absent, truth[p]}
                      PROVE  Corrected(p, Tail(q), lost)
          BY DEF Sound
        <5>1. Corrected(p, q, observations.lost)
          BY <1>2 DEF Sound
        <5>. QED BY <4>3, <4>5, <5>1 DEF Corrected
      <4>7. \A i \in 1..Len(Tail(q)) : Tail(q)[i].key # o
        <5>1. \A i \in 1..Len(Tail(q)) : i + 1 \in 1..Len(q) /\ Tail(q)[i] = q[i + 1]
          BY <1>2, <4>1
        <5>. QED BY <1>7, <5>1
      <4>. QED BY <1>2, <4>2, <4>3, <4>5, <4>6, <4>7
    <3>. QED BY <3>1, <3>2
  <2>. HIDE DEF room
  <2>. DEFINE es == room.entries
  <2>4. TellsTruth(es, mask, truth')
    <3>1. \A i \in 1..Len(es) : es[i] \in Entry
      BY <2>3
    <3>2. \A i \in 1..Len(es) : es[i].key \in Objects
      BY <3>1 DEF Entry
    <3>. QED BY <1>4, <2>3, <3>2 DEF TellsTruth
  <2>5. truth'[o] = v
    BY <1>4
  <2>6. es \in Seq(Entry)
    BY <2>3
  <2>7. /\ r \in Seq(Entry) /\ OneEntryEach(r) /\ TellsTruth(r, mask, truth')
        /\ \A i \in 1..Len(es) : \E j \in 1..Len(r) : r[j].key = es[i].key
        /\ \E j \in 1..Len(r) : r[j].key = o
    <3>1. OneEntryEach(es) /\ ClassOf[o] \in mask /\ \A i \in 1..Len(es) : es[i].key # o
      BY <1>7, <2>3
    <3>2. v \in Version /\ o \in Objects
      BY <1>3
    <3>. HIDE DEF es, mask
    <3>. QED BY <2>4, <2>5, <2>6, <3>1, <3>2, AppendedEntry DEF es
  <2>. HIDE DEF r
  <2>8. Sound(mask, r, room.lost, truth', belief)
    <3>. SUFFICES ASSUME NEW p \in Objects, ClassOf[p] \in mask, p # o,
                         belief[p] \notin {Absent, truth'[p]}
                  PROVE  Corrected(p, r, room.lost)
      BY <2>7 DEF Sound, Corrected
    <3>1. Corrected(p, es, room.lost)
      BY <1>4, <2>3 DEF Sound
    <3>. QED BY <2>7, <3>1 DEF Corrected
  <2>9. observations' = [mask |-> mask, sequence |-> room.sequence, entries |-> r, lost |-> room.lost]
    BY <2>2, <2>3
  <2>. QED
    BY <1>1, <1>2, <1>4, <2>3, <2>7, <2>8, <2>9 DEF ObservationInv, ObservationTypeOK
<1>. QED BY <1>5, <1>6, <1>7

LEMMA SubscribeInv ==
  ASSUME ObservationInv, NEW wanted \in SUBSET ObjectClasses, Subscribe(wanted)
  PROVE  ObservationInv'
<1>. DEFINE q == observations.entries
            places == {i \in DOMAIN q : ClassOf[q[i].key] \in wanted}
            r == Observed(q, wanted)
<1>1. /\ observations \in [mask: SUBSET ObjectClasses, sequence: Nat, entries: Seq(Entry),
                           lost: {Absent} \union LossRecord]
      /\ truth \in [Objects -> Version]
      /\ belief \in [Objects -> {Absent} \union Version]
      /\ q \in Seq(Entry) /\ OneEntryEach(q) /\ TellsTruth(q, observations.mask, truth)
      /\ Sound(observations.mask, q, observations.lost, truth, belief)
  BY DEF ObservationInv, ObservationTypeOK
<1>2. /\ observations' = [mask |-> wanted, sequence |-> observations.sequence,
                         entries |-> r, lost |-> observations.lost]
      /\ belief' = [o \in Objects |-> IF Subscribed(o) /\ ClassOf[o] \in wanted
                                       THEN belief[o] ELSE Absent]
      /\ truth' = truth
  BY <1>1 DEF Subscribe
<1>3. places \in SUBSET (1..Len(q)) /\ r = AtPlaces(q, places)
  BY <1>1 DEF Observed
<1>5. \A i \in places : i \in 1..Len(q) /\ ClassOf[q[i].key] \in wanted
  BY <1>3
<1>6. \A i \in 1..Len(q) : ClassOf[q[i].key] \in wanted => i \in places
  BY <1>1
<1>. HIDE DEF r, places
<1>4. /\ r \in Seq(Entry)
      /\ \A n \in 1..Len(r) : \E i \in places : r[n] = q[i] /\ Rank(places, i) = n
      /\ \A i \in places : \E n \in 1..Len(r) : r[n] = q[i]
  <2>1. /\ r \in Seq(Entry)
        /\ \A n \in 1..Len(r) : \E i \in places : r[n] = q[i] /\ Rank(places, i) = n
        /\ \A i \in places : Rank(places, i) \in 1..Len(r) /\ r[Rank(places, i)] = q[i]
    <3>1. q \in Seq(Entry) /\ places \in SUBSET (1..Len(q))
      BY <1>1, <1>3
    <3>. HIDE DEF q
    <3>. QED BY <1>3, <3>1, AtPlacesProperties
  <2>. QED BY <2>1
<1>7. OneEntryEach(r)
  <2>. SUFFICES ASSUME NEW m \in 1..Len(r), NEW n \in 1..Len(r), r[m].key = r[n].key
                PROVE  m = n
    BY DEF OneEntryEach
  <2>1. PICK i \in places : r[m] = q[i] /\ Rank(places, i) = m
    BY <1>4
  <2>2. PICK j \in places : r[n] = q[j] /\ Rank(places, j) = n
    BY <1>4
  <2>3. i = j
    BY <1>1, <1>5, <2>1, <2>2 DEF OneEntryEach
  <2>. QED BY <2>1, <2>2, <2>3
<1>8. TellsTruth(r, wanted, truth)
  <2>. SUFFICES ASSUME NEW n \in 1..Len(r)
                PROVE  r[n].version = truth[r[n].key] /\ ClassOf[r[n].key] \in wanted
    BY DEF TellsTruth
  <2>1. PICK i \in places : r[n] = q[i]
    BY <1>4
  <2>. QED BY <1>1, <1>5, <2>1 DEF TellsTruth
<1>9. Sound(wanted, r, observations.lost, truth, belief')
  <2>. SUFFICES ASSUME NEW o \in Objects, ClassOf[o] \in wanted, belief'[o] \notin {Absent, truth[o]}
                PROVE  Corrected(o, r, observations.lost)
    BY DEF Sound
  <2>1. belief'[o] = belief[o] /\ ClassOf[o] \in observations.mask
    BY <1>2 DEF Subscribed
  <2>2. Corrected(o, q, observations.lost)
    BY <1>1, <2>1 DEF Sound
  <2>. QED BY <1>4, <1>6, <2>2 DEF Corrected
<1>10. belief' \in [Objects -> {Absent} \union Version]
  BY <1>1, <1>2
<1>. QED
  BY <1>1, <1>2, <1>4, <1>7, <1>8, <1>9, <1>10 DEF ObservationInv, ObservationTypeOK

LEMMA DrainGapInv ==
  ASSUME ObservationInv, DrainGap
  PROVE  ObservationInv'
<1>1. /\ observations \in [mask: SUBSET ObjectClasses, sequence: Nat, entries: Seq(Entry),
                           lost: {Absent} \union LossRecord]
      /\ truth \in [Objects -> Version]
      /\ belief \in [Objects -> {Absent} \union Version]
      /\ Sound(observations.mask, observations.entries, observations.lost, truth, belief)
  BY DEF ObservationInv, ObservationTypeOK
<1>2. /\ observations' = [mask |-> observations.mask, sequence |-> observations.sequence + 1,
                         entries |-> observations.entries, lost |-> Absent]
      /\ belief' = [o \in Objects |-> IF ClassOf[o] \in observations.lost.classes
                                       THEN Absent ELSE belief[o]]
      /\ truth' = truth
  BY <1>1 DEF DrainGap
<1>3. Sound(observations.mask, observations.entries, Absent, truth, belief')
  BY <1>1, <1>2 DEF Sound, Corrected
<1>4. belief' \in [Objects -> {Absent} \union Version]
  BY <1>1, <1>2
<1>. QED
  BY <1>1, <1>2, <1>3, <1>4 DEF ObservationInv, ObservationTypeOK

LEMMA DrainEntryInv ==
  ASSUME ObservationInv, DrainEntry
  PROVE  ObservationInv'
<1>. DEFINE q == observations.entries
            mask == observations.mask
<1>1. /\ observations \in [mask: SUBSET ObjectClasses, sequence: Nat, entries: Seq(Entry),
                           lost: {Absent} \union LossRecord]
      /\ truth \in [Objects -> Version]
      /\ belief \in [Objects -> {Absent} \union Version]
      /\ q \in Seq(Entry) /\ q # <<>> /\ OneEntryEach(q) /\ TellsTruth(q, mask, truth)
      /\ Sound(mask, q, observations.lost, truth, belief)
  BY DEF ObservationInv, ObservationTypeOK, DrainEntry
<1>2. /\ observations' = [mask |-> mask, sequence |-> observations.sequence + 1,
                         entries |-> Tail(q), lost |-> observations.lost]
      /\ belief' = [belief EXCEPT ![Head(q).key] = Head(q).version]
      /\ truth' = truth
  BY <1>1 DEF DrainEntry
<1>3. /\ Tail(q) \in Seq(Entry) /\ OneEntryEach(Tail(q)) /\ TellsTruth(Tail(q), mask, truth)
      /\ Head(q) \in Entry /\ Head(q).version = truth[Head(q).key]
      /\ \A i \in 1..Len(q) :
           q[i].key = Head(q).key \/ \E j \in 1..Len(Tail(q)) : Tail(q)[j].key = q[i].key
  BY <1>1, TakenEntry
<1>4. Head(q).key \in Objects /\ Head(q).version \in Version
  BY <1>3 DEF Entry
<1>5. /\ belief' \in [Objects -> {Absent} \union Version]
      /\ \A p \in Objects : belief'[p] = IF p = Head(q).key THEN truth[p] ELSE belief[p]
  BY <1>1, <1>2, <1>3, <1>4
<1>6. Sound(mask, Tail(q), observations.lost, truth, belief')
  <2>. SUFFICES ASSUME NEW p \in Objects, ClassOf[p] \in mask, belief'[p] \notin {Absent, truth[p]}
                PROVE  Corrected(p, Tail(q), observations.lost)
    BY DEF Sound
  <2>1. p # Head(q).key /\ Corrected(p, q, observations.lost)
    BY <1>1, <1>5 DEF Sound
  <2>. QED BY <1>3, <2>1 DEF Corrected
<1>. QED
  BY <1>1, <1>2, <1>3, <1>5, <1>6 DEF ObservationInv, ObservationTypeOK

LEMMA QueryInv ==
  ASSUME ObservationInv, NEW o \in Objects, Query(o)
  PROVE  ObservationInv'
<1>1. belief' \in [Objects -> {Absent} \union Version]
      /\ \A p \in Objects : belief'[p] = IF p = o THEN truth[p] ELSE belief[p]
  BY DEF ObservationInv, ObservationTypeOK, Query
<1>2. UNCHANGED <<observations, truth>>
  BY DEF Query
<1>3. Sound(observations.mask, observations.entries, observations.lost, truth, belief')
  BY <1>1 DEF ObservationInv, Sound
<1>. QED
  BY <1>1, <1>2, <1>3 DEF ObservationInv, ObservationTypeOK

LEMMA ObservationStep == ObservationInv /\ [ObservationNext]_observationVars => ObservationInv'
<1>1. ASSUME ObservationInv, UNCHANGED observationVars PROVE ObservationInv'
  BY <1>1 DEF ObservationInv, ObservationTypeOK, observationVars
<1>. QED
  BY <1>1, ChangeInv, QueryInv, SubscribeInv, DrainGapInv, DrainEntryInv DEF ObservationNext

\* What the producer believes of an object it observes is true, or an entry
\* or a gap still to come corrects it (ObservationQueue::push, subscribe,
\* drain_next).
THEOREM ObservationBeliefSound == ObservationSpec => []BeliefSound
<1>1. ObservationInv => BeliefSound
  BY DEF ObservationInv, ObservationTypeOK, Sound, Corrected, BeliefSound, Subscribed, Queued
<1>. QED
  BY <1>1, ObservationInitInv, ObservationStep, PTL DEF ObservationSpec

\* An object has at most one entry, and it tells what the object is now
\* (latest wins, ObservationQueue::push).
THEOREM ObservationLatestWins ==
  ObservationSpec => [](/\ OneEntryEach(observations.entries)
                        /\ TellsTruth(observations.entries, observations.mask, truth))
<1>1. ObservationInv => /\ OneEntryEach(observations.entries)
                        /\ TellsTruth(observations.entries, observations.mask, truth)
  BY DEF ObservationInv
<1>. QED
  BY <1>1, ObservationInitInv, ObservationStep, PTL DEF ObservationSpec

(***************************************************************************)
(* Products and quotients of natural numbers.                              *)
(***************************************************************************)
LEMMA ProductMonotone ==
  ASSUME NEW a \in Int, NEW b \in Int, NEW c \in Nat, a <= b
  PROVE  a * c <= b * c
  OBVIOUS

LEMMA ProductNatural ==
  ASSUME NEW a \in Nat, NEW c \in Nat
  PROVE  a * c \in Nat
  OBVIOUS

LEMMA ProductDistributes ==
  ASSUME NEW a \in Int, NEW b \in Int, NEW c \in Int
  PROVE  (a + b) * c = a * c + b * c /\ (a - b) * c = a * c - b * c
  OBVIOUS

LEMMA ProductCommutes ==
  ASSUME NEW a \in Int, NEW b \in Int
  PROVE  a * b = b * a
  OBVIOUS

LEMMA Division ==
  ASSUME NEW a \in Nat, NEW d \in Nat \ {0}
  PROVE  /\ a \div d \in Nat /\ a % d \in 0..(d - 1)
         /\ a = (a \div d) * d + (a % d)
<1>1. a \div d \in Nat /\ a % d \in 0..(d - 1)
  OBVIOUS
<1>2. a = d * (a \div d) + (a % d)
  BY <1>1, SMTT(60)
<1>3. d * (a \div d) = (a \div d) * d
  BY <1>1, ProductCommutes
<1>. QED BY <1>1, <1>2, <1>3

\* A quotient is at least q when the number is, and less than q when it is.
LEMMA QuotientBounds ==
  ASSUME NEW a \in Nat, NEW d \in Nat \ {0}, NEW q \in Nat
  PROVE  /\ q * d <= a => q <= a \div d
         /\ a < q * d => a \div d < q
<1>. DEFINE e == a \div d
            r == a % d
<1>1. e \in Nat /\ r \in 0..(d - 1) /\ a = e * d + r
  BY Division
<1>. HIDE DEF e, r
<1>2. ASSUME q * d <= a PROVE q <= e
  <2>. SUFFICES ASSUME e + 1 <= q PROVE FALSE
    BY <1>1
  <2>1. (e + 1) * d <= q * d
    BY <1>1, ProductMonotone
  <2>2. (e + 1) * d = e * d + 1 * d
    BY <1>1, ProductDistributes
  <2>. QED BY <1>1, <1>2, <2>1, <2>2
<1>3. ASSUME a < q * d PROVE e < q
  <2>. SUFFICES ASSUME q <= e PROVE FALSE
    BY <1>1
  <2>1. q * d <= e * d
    BY <1>1, ProductMonotone
  <2>2. e * d \in Nat /\ q * d \in Nat
    BY <1>1
  <2>. QED BY <1>1, <1>3, <2>1, <2>2
<1>. QED BY <1>2, <1>3 DEF e

(***************************************************************************)
(* The bucket: its tokens and its remainder are within their limits, and   *)
(* what it holds is ahead of the contract's bucket by less than a token.   *)
(***************************************************************************)
Buckets ==
  [rate: 0..MaxRate, capacity: 1..Bigger(MaxRate, MaxCharge), tokens: Nat, remainder: 0..(Second - 1)]

BucketInv ==
  /\ bucket \in Buckets /\ bucket.tokens <= bucket.capacity
  /\ contract \in Int
  /\ bucket.tokens * Second + bucket.remainder < contract + Second

\* What replenish makes of a bucket.
LEMMA ReplenishedProperties ==
  ASSUME NEW b \in Buckets, b.tokens <= b.capacity, NEW elapsed \in Nat
  PROVE  LET numerator == b.rate * elapsed + b.remainder
             earned    == numerator \div Second
             later     == Replenished(b, elapsed)
         IN /\ numerator \in Nat /\ earned \in Nat /\ b.rate * elapsed \in Nat
            /\ later \in Buckets /\ later.tokens <= later.capacity
            /\ later.rate = b.rate /\ later.capacity = b.capacity
            /\ numerator = earned * Second + later.remainder
            /\ later.tokens = IF earned > MaxEarned THEN b.tokens
                              ELSE Smaller(b.capacity, b.tokens + earned)
<1>. DEFINE numerator == b.rate * elapsed + b.remainder
            earned    == numerator \div Second
            later     == Replenished(b, elapsed)
<1>1. /\ b.rate \in Nat /\ b.capacity \in Nat /\ b.tokens \in Nat /\ b.remainder \in Nat
      /\ Second \in Nat \ {0} /\ MaxEarned \in Nat
  BY BucketAssumption DEF Buckets
<1>2. b.rate * elapsed \in Nat /\ numerator \in Nat
  BY <1>1, ProductNatural
<1>3. /\ earned \in Nat /\ numerator % Second \in 0..(Second - 1)
      /\ numerator = earned * Second + (numerator % Second)
  BY <1>1, <1>2, Division
<1>. DEFINE tokens == IF earned > MaxEarned THEN b.tokens ELSE Smaller(b.capacity, b.tokens + earned)
<1>4. later = [rate |-> b.rate, capacity |-> b.capacity, tokens |-> tokens,
               remainder |-> numerator % Second]
  <2>1. ASSUME NEW x, NEW y
        PROVE  [b EXCEPT !.remainder = x, !.tokens = y]
                 = [rate |-> b.rate, capacity |-> b.capacity, tokens |-> y, remainder |-> x]
    <3>. DEFINE c == [rate |-> b.rate, capacity |-> b.capacity, tokens |-> b.tokens, remainder |-> x]
    <3>1. [b EXCEPT !.remainder = x] = c
      BY DEF Buckets
    <3>2. [c EXCEPT !.tokens = y]
            = [rate |-> b.rate, capacity |-> b.capacity, tokens |-> y, remainder |-> x]
      OBVIOUS
    <3>. QED BY <3>1, <3>2
  <2>2. later = [b EXCEPT !.remainder = numerator % Second, !.tokens = tokens]
    BY DEF Replenished
  <2>. HIDE DEF numerator, tokens, later
  <2>. QED BY <2>1, <2>2
<1>. HIDE DEF numerator, earned
<1>5. tokens \in Nat /\ tokens <= b.capacity
  BY <1>1, <1>3 DEF Smaller
<1>. HIDE DEF tokens, later
<1>6. later \in Buckets
  <2>1. b.rate \in 0..MaxRate /\ b.capacity \in 1..Bigger(MaxRate, MaxCharge)
    BY DEF Buckets
  <2>. QED BY <1>3, <1>4, <1>5, <2>1 DEF Buckets
<1>7. /\ later.tokens = tokens /\ later.remainder = numerator % Second
      /\ later.rate = b.rate /\ later.capacity = b.capacity
  BY <1>4
<1>. QED BY <1>2, <1>3, <1>5, <1>6, <1>7 DEF numerator, earned, later, tokens

LEMMA BucketInitInv == BucketInit => BucketInv
<1>. SUFFICES ASSUME NEW rate \in 0..MaxRate, NEW charge \in 1..MaxCharge,
                     bucket = NewBucket(rate, charge), contract = bucket.capacity * Second
              PROVE  BucketInv
  BY DEF BucketInit
<1>. DEFINE capacity == Bigger(rate, charge)
<1>1. /\ capacity \in 1..Bigger(MaxRate, MaxCharge) /\ capacity \in Nat
      /\ Second \in Nat /\ 0 \in 0..(Second - 1) /\ 0 < Second
  <2>1. /\ MaxRate \in Nat /\ MaxCharge \in Nat /\ Second \in Nat /\ 0 < Second
        /\ rate \in Nat /\ rate <= MaxRate /\ charge \in Nat /\ 1 <= charge /\ charge <= MaxCharge
    BY BucketAssumption
  <2>2. capacity \in Nat /\ 1 <= capacity
    BY <2>1 DEF Bigger
  <2>3. Bigger(MaxRate, MaxCharge) \in Nat /\ capacity <= Bigger(MaxRate, MaxCharge)
    BY <2>1 DEF Bigger
  <2>. HIDE DEF capacity
  <2>. QED BY <2>1, <2>2, <2>3
<1>2. bucket = [rate |-> rate, capacity |-> capacity, tokens |-> capacity, remainder |-> 0]
  BY DEF NewBucket
<1>. HIDE DEF capacity
<1>3. bucket \in Buckets /\ bucket.tokens = capacity /\ bucket.capacity = capacity /\ bucket.remainder = 0
  BY <1>1, <1>2 DEF Buckets
<1>4. capacity * Second \in Nat
  BY <1>1, ProductNatural
<1>. QED BY <1>1, <1>3, <1>4 DEF BucketInv

LEMMA ReplenishInv ==
  ASSUME BucketInv, NEW elapsed \in 0..MaxElapsed, Replenish(elapsed)
  PROVE  BucketInv'
<1>. DEFINE later     == bucket'
            gained    == bucket.rate * elapsed
            numerator == gained + bucket.remainder
            earned    == numerator \div Second
            full      == bucket.capacity * Second
<1>1. /\ bucket \in Buckets /\ bucket.tokens <= bucket.capacity
      /\ contract \in Int /\ elapsed \in Nat
      /\ later = Replenished(bucket, elapsed)
      /\ contract' = Smaller(full, contract + gained)
      /\ bucket.tokens * Second + bucket.remainder < contract + Second
  BY BucketAssumption DEF BucketInv, Replenish
<1>2. /\ bucket.tokens \in Nat /\ bucket.capacity \in Nat /\ bucket.remainder \in Nat
      /\ Second \in Nat
  BY <1>1, BucketAssumption DEF Buckets
<1>3. /\ numerator \in Nat /\ earned \in Nat /\ gained \in Nat
      /\ later \in Buckets /\ later.tokens <= later.capacity /\ later.capacity = bucket.capacity
      /\ numerator = earned * Second + later.remainder
      /\ later.tokens = IF earned > MaxEarned THEN bucket.tokens
                        ELSE Smaller(bucket.capacity, bucket.tokens + earned)
  BY <1>1, ReplenishedProperties
<1>4. later.remainder \in Nat /\ later.remainder < Second /\ later.tokens \in Nat
  BY <1>2, <1>3 DEF Buckets
<1>. DEFINE had == bucket.tokens * Second
            has == later.tokens * Second
<1>. HIDE DEF later, gained, numerator, earned
<1>5. had \in Nat /\ has \in Nat /\ full \in Nat /\ earned * Second \in Nat
  BY <1>2, <1>3, <1>4, ProductNatural
<1>6. has <= full
  BY <1>2, <1>3, <1>4, ProductMonotone
<1>7. later.tokens <= bucket.tokens + earned
  BY <1>2, <1>3, BucketAssumption DEF Smaller
<1>8. has <= had + earned * Second
  <2>1. has <= (bucket.tokens + earned) * Second
    BY <1>2, <1>3, <1>4, <1>7, ProductMonotone
  <2>2. (bucket.tokens + earned) * Second = had + earned * Second
    BY <1>2, <1>3, ProductDistributes
  <2>. QED BY <2>1, <2>2
<1>. DEFINE product == earned * Second
<1>9. /\ product \in Nat /\ has <= had + product
      /\ gained + bucket.remainder = product + later.remainder
  BY <1>3, <1>5, <1>8 DEF numerator
<1>. HIDE DEF had, has, full, product
<1>10. contract' \in Int /\ has + later.remainder < contract' + Second
  <2>1. CASE full <= contract + gained
    <3>1. contract' = full
      BY <1>1, <2>1 DEF Smaller
    <3>. QED BY <1>2, <1>4, <1>5, <1>6, <3>1
  <2>2. CASE ~(full <= contract + gained)
    <3>1. contract' = contract + gained
      BY <1>1, <2>2 DEF Smaller
    <3>2. had + bucket.remainder < contract + Second
      BY <1>1 DEF had
    <3>. QED BY <1>1, <1>2, <1>3, <1>4, <1>5, <1>9, <3>1, <3>2
  <2>. QED BY <2>1, <2>2
<1>. QED BY <1>3, <1>10 DEF BucketInv, has, later

LEMMA ChargeInv ==
  ASSUME BucketInv, NEW units \in 1..Bigger(MaxRate, MaxCharge), Charge(units)
  PROVE  BucketInv'
<1>. DEFINE had   == bucket.tokens * Second
            spent == units * Second
<1>1. /\ bucket \in Buckets /\ bucket.tokens <= bucket.capacity
      /\ contract \in Int /\ had + bucket.remainder < contract + Second
      /\ units <= bucket.tokens
      /\ bucket' = [bucket EXCEPT !.tokens = bucket.tokens - units]
      /\ contract' = contract - spent
  BY DEF BucketInv, Charge
<1>2. /\ bucket.tokens \in Nat /\ bucket.capacity \in Nat /\ bucket.remainder \in Nat
      /\ units \in Nat /\ Second \in Nat
  BY <1>1, BucketAssumption DEF Buckets, Bigger
<1>3. bucket.tokens - units \in Nat
  BY <1>1, <1>2
<1>4. /\ bucket' \in Buckets
      /\ bucket'.tokens = bucket.tokens - units
      /\ bucket'.capacity = bucket.capacity /\ bucket'.remainder = bucket.remainder
  BY <1>1, <1>3 DEF Buckets
<1>5. bucket'.tokens * Second = had - spent /\ had \in Nat /\ spent \in Nat
  BY <1>2, <1>4, ProductDistributes, ProductNatural
<1>. HIDE DEF had, spent
<1>6. bucket'.tokens <= bucket'.capacity
  BY <1>1, <1>2, <1>4
<1>7. bucket'.tokens * Second + bucket'.remainder < contract' + Second /\ contract' \in Int
  BY <1>1, <1>2, <1>4, <1>5
<1>. QED BY <1>4, <1>6, <1>7 DEF BucketInv

LEMMA BucketStep == BucketInv /\ [BucketNext]_bucketVars => BucketInv'
<1>1. ASSUME BucketInv, UNCHANGED bucketVars PROVE BucketInv'
  BY <1>1 DEF BucketInv, bucketVars
<1>. QED BY <1>1, ReplenishInv, ChargeInv DEF BucketNext

\* Over every stretch of time the charges stay within the contract's bucket
\* but for less than one token (TokenBucket::replenish, try_charge).
THEOREM BucketPaced == BucketSpec => []PacedWithinAToken
<1>1. BucketInv => PacedWithinAToken
  <2>. SUFFICES ASSUME BucketInv PROVE contract > -Second
    BY DEF PacedWithinAToken
  <2>1. bucket.tokens \in Nat /\ bucket.remainder \in Nat /\ Second \in Nat /\ contract \in Int
    BY BucketAssumption DEF BucketInv, Buckets
  <2>2. bucket.tokens * Second \in Nat
    BY <2>1, ProductNatural
  <2>3. bucket.tokens * Second + bucket.remainder < contract + Second
    BY DEF BucketInv
  <2>. QED BY <2>1, <2>2, <2>3
<1>. QED BY <1>1, BucketInitInv, BucketStep, PTL DEF BucketSpec

(***************************************************************************)
(* The wait.  It is the least number of instants that earns what is owed.  *)
(***************************************************************************)
\* time_until divides and rounds up.
LEMMA RoundedUp ==
  ASSUME NEW owed \in Nat \ {0}, NEW rate \in Nat \ {0}
  PROVE  LET wait == (owed + rate - 1) \div rate IN
         /\ wait \in Nat \ {0}
         /\ rate * wait \in Nat /\ owed <= rate * wait
         /\ rate * (wait - 1) \in Nat /\ rate * (wait - 1) < owed
<1>. DEFINE a    == owed + rate - 1
            wait == a \div rate
            rest == a % rate
            product == wait * rate
<1>1. a \in Nat
  OBVIOUS
<1>2. wait \in Nat /\ rest \in 0..(rate - 1) /\ a = product + rest
  BY <1>1, Division
<1>. HIDE DEF wait, rest
<1>3. product = rate * wait /\ product \in Nat
  BY <1>2, ProductCommutes, ProductNatural
<1>4. rate * (wait - 1) = product - rate
  <2>1. wait - 1 \in Int
    BY <1>2
  <2>2. rate * (wait - 1) = (wait - 1) * rate
    BY <2>1, ProductCommutes
  <2>3. (wait - 1) * rate = wait * rate - 1 * rate
    BY <1>2, ProductDistributes
  <2>. QED BY <2>2, <2>3
<1>. HIDE DEF product
<1>5. owed <= product /\ product - rate < owed
  BY <1>2, <1>3
<1>6. wait # 0
  <2>1. wait = 0 => product = 0
    BY DEF product
  <2>. QED BY <1>3, <1>5, <2>1
<1>7. product - rate \in Nat
  <2>1. wait - 1 \in Nat
    BY <1>2, <1>6
  <2>2. rate * (wait - 1) \in Nat
    BY <2>1, ProductNatural
  <2>. QED BY <1>4, <2>2
<1>. QED BY <1>2, <1>3, <1>4, <1>5, <1>6, <1>7 DEF wait

\* What is earned in a time that is, or is not, worth what is owed.
LEMMA EarnedInTime ==
  ASSUME NEW b \in Buckets, b.tokens <= b.capacity,
         NEW units \in Nat, units > b.tokens, units <= b.capacity,
         NEW elapsed \in Nat
  PROVE  LET owed == (units - b.tokens) * Second - b.remainder IN
         /\ b.rate * elapsed < owed => Replenished(b, elapsed).tokens < units
         /\ owed <= b.rate * elapsed /\ b.rate * elapsed < MaxEarned * Second
              => Replenished(b, elapsed).tokens >= units
<1>. DEFINE short     == units - b.tokens
            worth     == short * Second
            gained    == b.rate * elapsed
            numerator == gained + b.remainder
            earned    == numerator \div Second
            later     == Replenished(b, elapsed)
<1>1. /\ b.capacity \in Nat /\ b.tokens \in Nat /\ b.remainder \in Nat /\ b.remainder < Second
      /\ Second \in Nat \ {0} /\ MaxEarned \in Nat
  BY BucketAssumption DEF Buckets
<1>2. short \in Nat /\ short > 0 /\ b.tokens + short = units
  BY <1>1
<1>3. /\ numerator \in Nat /\ earned \in Nat /\ gained \in Nat
      /\ later.tokens = IF earned > MaxEarned THEN b.tokens
                        ELSE Smaller(b.capacity, b.tokens + earned)
  BY <1>1, ReplenishedProperties
<1>4. worth \in Nat
  BY <1>1, <1>2, ProductNatural
<1>5. worth <= numerator => short <= earned
  BY <1>1, <1>2, <1>3, QuotientBounds
<1>6. numerator < worth => earned < short
  BY <1>1, <1>2, <1>3, QuotientBounds
<1>7. gained < MaxEarned * Second => earned <= MaxEarned
  <2>1. (MaxEarned + 1) * Second = MaxEarned * Second + 1 * Second /\ MaxEarned * Second \in Nat
    BY <1>1, ProductDistributes, ProductNatural
  <2>2. numerator < (MaxEarned + 1) * Second => earned < MaxEarned + 1
    <3>. DEFINE q == MaxEarned + 1
    <3>1. q \in Nat
      BY <1>1
    <3>. HIDE DEF q, numerator
    <3>2. numerator < q * Second => earned < q
      BY <1>1, <1>3, <3>1, QuotientBounds DEF earned
    <3>. QED BY <3>2 DEF q
  <2>. DEFINE limit == MaxEarned * Second
  <2>. HIDE DEF limit, gained, earned
  <2>3. gained < limit => numerator < limit + Second
    BY <1>1, <1>3, <2>1 DEF limit
  <2>. QED BY <1>1, <1>3, <2>1, <2>2, <2>3 DEF limit
<1>. HIDE DEF gained, earned, worth, short, later
<1>8. gained < worth - b.remainder => later.tokens < units
  <2>. SUFFICES ASSUME gained < worth - b.remainder PROVE later.tokens < units
    OBVIOUS
  <2>1. numerator < worth
    BY <1>1, <1>3, <1>4
  <2>2. earned < short
    BY <1>6, <2>1
  <2>. QED BY <1>1, <1>2, <1>3, <2>2 DEF Smaller
<1>9. worth - b.remainder <= gained /\ gained < MaxEarned * Second => later.tokens >= units
  <2>. SUFFICES ASSUME worth - b.remainder <= gained, gained < MaxEarned * Second
                PROVE  later.tokens >= units
    OBVIOUS
  <2>1. worth <= numerator
    BY <1>1, <1>3, <1>4
  <2>2. short <= earned /\ earned <= MaxEarned
    BY <1>5, <1>7, <2>1
  <2>. QED BY <1>1, <1>2, <1>3, <2>2 DEF Smaller
<1>. QED BY <1>8, <1>9 DEF worth, short, gained, later

\* The wait that time_until names is enough for the charge, and one instant
\* less is not (TokenBucket::time_until).
THEOREM BucketWaitExact == BucketSpec => []WaitExact
<1>1. BucketInv => WaitExact
  <2>. SUFFICES ASSUME BucketInv, NEW units \in 1..Bigger(MaxRate, MaxCharge),
                       units > bucket.tokens, ~Never(bucket, units)
                PROVE  LET wait == TimeUntil(bucket, units) IN
                       /\ wait > 0
                       /\ wait * bucket.rate < MaxEarned * Second => Replenished(bucket, wait).tokens >= units
                       /\ Replenished(bucket, wait - 1).tokens < units
    BY DEF WaitExact
  <2>. DEFINE wait == TimeUntil(bucket, units)
              rate == bucket.rate
              short == units - bucket.tokens
              owed == short * Second - bucket.remainder
  <2>1. /\ bucket \in Buckets /\ bucket.tokens <= bucket.capacity
        /\ bucket.capacity \in Nat /\ bucket.tokens \in Nat /\ rate \in Nat
        /\ bucket.remainder \in Nat /\ bucket.remainder < Second
        /\ Second \in Nat \ {0} /\ units \in Nat
    BY BucketAssumption DEF BucketInv, Buckets, Bigger
  <2>2. units <= bucket.capacity /\ rate # 0
    BY <2>1 DEF Never
  <2>3. owed \in Nat \ {0}
    <3>1. short \in Nat /\ 1 <= short
      BY <2>1
    <3>2. 1 * Second <= short * Second /\ short * Second \in Nat
      BY <2>1, <3>1, ProductMonotone, ProductNatural
    <3>. HIDE DEF short
    <3>. QED BY <2>1, <3>2
  <2>4. wait = (owed + rate - 1) \div rate
    BY DEF TimeUntil
  <2>. HIDE DEF owed, wait
  <2>5. /\ wait \in Nat \ {0}
        /\ rate * wait \in Nat /\ owed <= rate * wait
        /\ rate * (wait - 1) \in Nat /\ rate * (wait - 1) < owed
    BY <2>1, <2>2, <2>3, <2>4, RoundedUp
  <2>6. wait - 1 \in Nat /\ rate * wait = wait * rate
    BY <2>1, <2>5, ProductCommutes
  <2>7. rate * (wait - 1) < owed => Replenished(bucket, wait - 1).tokens < units
    BY <2>1, <2>2, <2>6, EarnedInTime DEF owed
  <2>8. owed <= rate * wait /\ rate * wait < MaxEarned * Second
          => Replenished(bucket, wait).tokens >= units
    BY <2>1, <2>2, <2>5, EarnedInTime DEF owed
  <2>9. wait > 0
    BY <2>5
  <2>. QED BY <2>5, <2>6, <2>7, <2>8, <2>9 DEF wait
<1>. QED BY <1>1, BucketInitInv, BucketStep, PTL DEF BucketSpec


(***************************************************************************)
(* Types.  Stream is what the transport took: the wire, then the buffer.   *)
(***************************************************************************)
Unit == [sequence: Nat, piece: Nat, body: Nat]
Answer == [sequence: Nat, body: Nat, checkpoint: BOOLEAN]
TransportStates == [kind: {"Native", "Live"}, buffer: Seq(Unit), wire: Seq(Unit), cut: BOOLEAN]
WriterStates ==
  [closed: BOOLEAN, send_sequence: Nat, send_body_limit: Nat, flush_mode: Modes, unflushed: Nat]
ReaderStates ==
  [state: {"Header", "Body", "Refused"}, taken: Nat, sequence: Nat, left: Nat, limit: Nat,
   intact: BOOLEAN, read: Seq(Nat)]

ConnectionTypeOK ==
  /\ transport \in TransportStates
  /\ requested \in BOOLEAN /\ native \in BOOLEAN
  /\ holder \in Threads \union {None}
  /\ writer \in WriterStates
  /\ calls \in [Threads -> {None} \union CallRecords]
  /\ answered \in SUBSET Answer /\ IsFiniteSet(answered)
  /\ failures \in Nat
  /\ reader \in ReaderStates /\ (reader.state = "Body" => reader.left > 0)

Stream == transport.wire \o transport.buffer

(***************************************************************************)
(* The lock is held by the thread whose call is under way, shutdown is     *)
(* published before anything is cut, and nobody writes once it is closed.  *)
(***************************************************************************)
LockInv ==
  /\ \A t \in Threads : calls[t] # None /\ calls[t].op # "Shutdown" => holder = t
  /\ holder # None => calls[holder] # None /\ calls[holder].op # "Shutdown"
  /\ \A t \in Threads : calls[t] # None /\ calls[t].op = "Shutdown" => requested
  /\ transport.cut => requested
  /\ native => transport.kind = "Native"
  /\ transport.kind = "Native" => transport.buffer = <<>>
  /\ transport.kind = "Live" /\ transport.cut => writer.closed
  /\ holder # None /\ calls[holder].at # "Locked" => ~writer.closed

(***************************************************************************)
(* The call under way.                                                     *)
(***************************************************************************)
RecordOf(c) == [sequence |-> c.sequence, body |-> c.record.body]

\* The stream ends with the units that the call has transferred.
Partial(c, stream) ==
  /\ c.sent <= Len(stream)
  /\ \A k \in 1..c.sent : stream[Len(stream) - c.sent + k] = Units(c.sequence, c.record.body)[k]

\* A call that holds the lock, by where it is.
CallShape(c) ==
  /\ c.op = "Write" => c.record \in Records /\ c.mode = None
  /\ c.op = "Mode" => c.mode \in Modes
  /\ c.op \in {"Flush", "Limit"} => c.mode = None
  /\ c.at \in (CASE c.op = "Write" -> {"Locked", "Write", "Written", "Flush", "Flushed", "Done"}
                 [] c.op \in {"Mode", "Flush"} -> {"Locked", "Flush", "Flushed", "Done"}
                 [] c.op = "Limit" -> {"Locked", "Done"}
                 [] OTHER -> {})
  /\ c.at \in {"Locked", "Write", "Flush", "Done"} => c.ok
  /\ c.at = "Locked" => c.sent = 0

WriteInv(c) ==
  c.op = "Write" /\ c.at # "Locked" =>
    /\ c.sequence = writer.send_sequence /\ c.sequence >= 1
    /\ c.record.body <= writer.send_body_limit
    /\ c.at = "Write" => c.sent <= c.record.body /\ (~requested => Partial(c, Stream))
    /\ c.at = "Written" /\ c.ok /\ ~requested => Whole(RecordOf(c), Stream)
    /\ c.at \in {"Flush", "Flushed", "Done"} => Whole(RecordOf(c), Stream)
    /\ c.at = "Done" /\ c.record.checkpoint => Whole(RecordOf(c), transport.wire)

FlushedInv(c) == c.at = "Flushed" /\ c.ok => transport.buffer = <<>>

CallInv ==
  holder # None =>
    CallShape(calls[holder]) /\ WriteInv(calls[holder]) /\ FlushedInv(calls[holder])

(***************************************************************************)
(* What was answered.                                                      *)
(***************************************************************************)
AnsweredInv ==
  \A record \in answered :
    \/ Whole(record, transport.wire)
    \/ /\ transport.kind = "Live" /\ ~record.checkpoint
       /\ writer.closed \/ Whole(record, Stream)

SentInv == ConnectionTypeOK /\ LockInv /\ CallInv /\ AnsweredInv

(***************************************************************************)
(* What waits for a flush.  unflushed counts it, and more after flushes    *)
(* that failed; a write that returns Ok without a flush left room for      *)
(* itself.                                                                 *)
(***************************************************************************)
Waiting == {record \in answered : ~Whole(record, transport.wire)}

WaitingInv ==
  ~writer.closed =>
    /\ Cardinality(Waiting) <= writer.unflushed
    /\ Cardinality(Waiting) < BatchLimit
    /\ writer.flush_mode = "Immediate" => Waiting = {}

RoomInv ==
  holder # None /\ calls[holder].op = "Write" /\ calls[holder].at = "Done" =>
    \/ Whole(RecordOf(calls[holder]), transport.wire)
    \/ /\ Cardinality(Waiting) < writer.unflushed /\ writer.unflushed < BatchLimit
       /\ writer.flush_mode = "Batched"

FlushInv == SentInv /\ WaitingInv /\ RoomInv

(***************************************************************************)
(* Frames.  While nothing failed, the stream is whole records in sequence, *)
(* and its last one is as far as the call that writes it.                  *)
(***************************************************************************)
Follows(unit, next) ==
  IF unit.piece < unit.body
    THEN next = [unit EXCEPT !.piece = @ + 1]
    ELSE next.piece = 0 /\ next.sequence = unit.sequence + 1

Framed(stream) ==
  /\ stream # <<>> => stream[1].piece = 0 /\ stream[1].sequence = 1
  /\ \A i \in 1..Len(stream) :
       stream[i].piece <= stream[i].body /\ stream[i].body <= reader.limit
  /\ \A i \in 1..Len(stream) - 1 : Follows(stream[i], stream[i + 1])

\* The stream ends with the last unit of a record.
CompleteThrough(stream, sequence) ==
  IF sequence = 0 THEN stream = <<>>
  ELSE /\ stream # <<>> /\ stream[Len(stream)].sequence = sequence
       /\ stream[Len(stream)].piece = stream[Len(stream)].body

\* The stream ends with the first sent units of a record.
EndsWithin(stream, sequence, body, sent) ==
  IF sent = 0 THEN CompleteThrough(stream, sequence - 1)
  ELSE /\ stream # <<>>
       /\ stream[Len(stream)] = [sequence |-> sequence, piece |-> sent - 1, body |-> body]

Writing == holder # None /\ calls[holder].op = "Write" /\ calls[holder].at = "Write"

\* Until the connection is cut, the stream ends where the call under way, or
\* the last one, left it.
EndInv ==
  failures = 0 /\ ~transport.cut =>
    IF Writing THEN LET c == calls[holder] IN
                    EndsWithin(Stream, c.sequence, c.record.body, c.sent)
    ELSE CompleteThrough(Stream, writer.send_sequence)

FramingInv ==
  /\ writer.send_body_limit <= reader.limit
  /\ failures = 0 => Framed(Stream)
  /\ EndInv

(***************************************************************************)
(* The reader is where the units it took leave it.                         *)
(***************************************************************************)
ReaderInv ==
  failures = 0 =>
    LET units == reader.taken
        last  == transport.wire[units] IN
    /\ units <= Len(transport.wire)
    /\ reader.state # "Refused" /\ reader.intact
    /\ reader.state = "Header" => reader.left = 0
    /\ reader.state = "Body" => reader.left > 0
    /\ units = 0 => reader.sequence = 0 /\ reader.left = 0
    /\ units > 0 => reader.sequence = last.sequence /\ reader.left = last.body - last.piece
    /\ Len(reader.read) = IF reader.left = 0 THEN reader.sequence ELSE reader.sequence - 1
    /\ \A i \in 1..Len(reader.read) : reader.read[i] = i

FramesInv == SentInv /\ FramingInv /\ ReaderInv

(***************************************************************************)
(* Lemmas about streams of units.                                          *)
(***************************************************************************)
LEMMA UnitsTyped ==
  ASSUME NEW sequence \in Nat, NEW body \in Nat
  PROVE  /\ Units(sequence, body) \in Seq(Unit)
         /\ Len(Units(sequence, body)) = body + 1
         /\ \A k \in 1..body + 1 :
              Units(sequence, body)[k] = [sequence |-> sequence, piece |-> k - 1, body |-> body]
<1> DEFINE units == [k \in 1..body + 1 |->
                       [sequence |-> sequence, piece |-> k - 1, body |-> body]]
<1>1. \A k \in 1..body + 1 : [sequence |-> sequence, piece |-> k - 1, body |-> body] \in Unit
  BY DEF Unit
<1>2. units \in Seq(Unit) /\ Len(units) = body + 1
  BY <1>1, IsASeq
<1> QED
  BY <1>2 DEF Units

\* A record is whole in a stream where its units stand next to each other.
LEMMA WholeElements ==
  ASSUME NEW stream \in Seq(Unit), NEW record, record.sequence \in Nat, record.body \in Nat
  PROVE  Whole(record, stream) <=>
           \E i \in 1..Len(stream) - record.body : \A k \in 1..record.body + 1 :
             stream[i + k - 1] = Units(record.sequence, record.body)[k]
<1> DEFINE units == Units(record.sequence, record.body)
           body == record.body
<1>1. units \in Seq(Unit) /\ Len(units) = body + 1
  BY UnitsTyped
<1>2. ASSUME NEW i \in 1..Len(stream) - body
      PROVE  SubSeq(stream, i, i + body) = units <=>
               \A k \in 1..body + 1 : stream[i + k - 1] = units[k]
  <2> DEFINE sub == SubSeq(stream, i, i + body)
  <2>1. /\ sub \in Seq(Unit) /\ Len(sub) = body + 1
        /\ \A k \in 1..body + 1 : sub[k] = stream[i + k - 1]
    BY SubSeqProperties
  <2> HIDE DEF sub, units
  <2>2. sub = units <=> \A k \in 1..body + 1 : sub[k] = units[k]
    BY <2>1, <1>1, SeqEqual
  <2> QED
    BY <2>1, <2>2 DEF sub
<1> HIDE DEF units
<1>3. Whole(record, stream) <=>
        \E i \in 1..Len(stream) - body : SubSeq(stream, i, i + body) = units
  BY DEF Whole, units
<1> QED
  BY <1>2, <1>3 DEF units

\* A stream that grows keeps the records it holds whole.
LEMMA WholeExtends ==
  ASSUME NEW stream \in Seq(Unit), NEW more \in Seq(Unit),
         NEW record, record.sequence \in Nat, record.body \in Nat, Whole(record, stream)
  PROVE  Whole(record, stream \o more)
<1> DEFINE units == Units(record.sequence, record.body)
           longer == stream \o more
<1>1. /\ longer \in Seq(Unit) /\ Len(longer) = Len(stream) + Len(more)
      /\ \A n \in 1..Len(stream) : longer[n] = stream[n]
  BY ConcatProperties
<1>2. PICK i \in 1..Len(stream) - record.body :
        \A k \in 1..record.body + 1 : stream[i + k - 1] = units[k]
  BY WholeElements
<1> HIDE DEF units, longer
<1>3. i \in 1..Len(longer) - record.body
  BY <1>1, LenProperties
<1>4. \A k \in 1..record.body + 1 : longer[i + k - 1] = units[k]
  <2> TAKE k \in 1..record.body + 1
  <2>1. i + k - 1 \in 1..Len(stream)
    BY LenProperties
  <2> QED
    BY <2>1, <1>1, <1>2
<1> QED
  BY <1>1, <1>3, <1>4, WholeElements DEF units, longer

LEMMA WholeAppended ==
  ASSUME NEW stream \in Seq(Unit), NEW unit \in Unit,
         NEW record, record.sequence \in Nat, record.body \in Nat, Whole(record, stream)
  PROVE  Whole(record, Append(stream, unit))
<1>1. Append(stream, unit) = stream \o <<unit>>
  OBVIOUS
<1>2. <<unit>> \in Seq(Unit)
  OBVIOUS
<1> QED
  BY <1>1, <1>2, WholeExtends

\* One more unit of a record follows those that the stream ends with.
LEMMA PartialGrows ==
  ASSUME NEW c \in CallRecords, NEW stream \in Seq(Unit), c.record.body \in Nat,
         c.sent <= c.record.body, Partial(c, stream),
         NEW d, d.sequence = c.sequence, d.record = c.record, d.sent = c.sent + 1
  PROVE  Partial(d, Append(stream, Units(c.sequence, c.record.body)[c.sent + 1]))
<1> DEFINE units == Units(c.sequence, c.record.body)
           unit == units[c.sent + 1]
           longer == Append(stream, unit)
<1>1. c.sequence \in Nat /\ c.sent \in Nat
  BY DEF CallRecords
<1>2. unit \in Unit
  <2>1. units \in Seq(Unit) /\ Len(units) = c.record.body + 1
    BY <1>1, UnitsTyped
  <2>2. c.sent + 1 \in 1..Len(units)
    BY <2>1, <1>1
  <2> HIDE DEF units
  <2> QED
    BY <2>1, <2>2, ElementOfSeq
<1> HIDE DEF units, unit
<1>3. /\ longer \in Seq(Unit) /\ Len(longer) = Len(stream) + 1
      /\ \A i \in 1..Len(stream) : longer[i] = stream[i]
      /\ longer[Len(stream) + 1] = unit
  BY <1>2, AppendProperties
<1>4. c.sent <= Len(stream) /\ Len(stream) \in Nat
  BY DEF Partial
<1>5. ASSUME NEW k \in 1..c.sent + 1
      PROVE  longer[Len(longer) - (c.sent + 1) + k] = units[k]
  <2>1. CASE k = c.sent + 1
    BY <2>1, <1>1, <1>3, <1>4 DEF unit
  <2>2. CASE k \in 1..c.sent
    <3>1. stream[Len(stream) - c.sent + k] = units[k]
      BY <2>2 DEF Partial, units
    <3>2. Len(stream) - c.sent + k \in 1..Len(stream)
      BY <2>2, <1>1, <1>4
    <3> HIDE DEF longer
    <3>3. Len(longer) - (c.sent + 1) + k = Len(stream) - c.sent + k
      <4>1. Len(longer) = Len(stream) + 1 /\ Len(stream) \in Nat /\ c.sent \in Nat /\ k \in Nat
        BY <1>1, <1>3, <1>4
      <4> QED
        BY <4>1
    <3> QED
      BY <3>1, <3>2, <3>3, <1>3
  <2>3. k = c.sent + 1 \/ k \in 1..c.sent
    BY <1>1
  <2> HIDE DEF longer
  <2> QED
    BY <2>1, <2>2, <2>3
<1> HIDE DEF longer
<1> QED
  BY <1>1, <1>3, <1>4, <1>5 DEF Partial, units, unit, longer

\* A stream that ends with all units of a record holds it whole.
LEMMA PartialWhole ==
  ASSUME NEW c \in CallRecords, NEW stream \in Seq(Unit), c.record.body \in Nat,
         c.sent = c.record.body + 1, Partial(c, stream)
  PROVE  Whole(RecordOf(c), stream)
<1> DEFINE units == Units(c.sequence, c.record.body)
           i == Len(stream) - c.record.body
<1>1. c.sequence \in Nat /\ c.sent \in Nat /\ Len(stream) \in Nat
  BY DEF CallRecords
<1>2. RecordOf(c).sequence = c.sequence /\ RecordOf(c).body = c.record.body
  BY DEF RecordOf
<1>3. i \in 1..Len(stream) - c.record.body
  BY <1>1 DEF Partial
<1>4. \A k \in 1..c.record.body + 1 : stream[i + k - 1] = units[k]
  <2> TAKE k \in 1..c.record.body + 1
  <2>1. stream[Len(stream) - c.sent + k] = units[k]
    BY <1>1 DEF Partial
  <2>2. Len(stream) - c.sent + k = i + k - 1
    BY <1>1
  <2> QED
    BY <2>1, <2>2
<1> DEFINE record == RecordOf(c)
<1> HIDE DEF i, units, record
<1>5. /\ record.sequence \in Nat /\ record.body \in Nat
      /\ i \in 1..Len(stream) - record.body
      /\ \A k \in 1..record.body + 1 :
           stream[i + k - 1] = Units(record.sequence, record.body)[k]
  BY <1>1, <1>2, <1>3, <1>4 DEF units, record
<1> QED
  BY <1>5, WholeElements DEF record

(***************************************************************************)
(* Lemmas about the transport and the lock.                                *)
(***************************************************************************)
LEMMA ConcatAppend ==
  ASSUME NEW s \in Seq(Unit), NEW t \in Seq(Unit), NEW unit \in Unit
  PROVE  s \o Append(t, unit) = Append(s \o t, unit)
<1>1. <<unit>> \in Seq(Unit) /\ s \o t \in Seq(Unit)
  BY ConcatProperties
<1>2. Append(t, unit) = t \o <<unit>> /\ Append(s \o t, unit) = (s \o t) \o <<unit>>
  BY <1>1, AppendIsConcat
<1> QED
  BY <1>1, <1>2, ConcatAssociative

LEMMA ConcatHeadTail ==
  ASSUME NEW s \in Seq(Unit), NEW t \in Seq(Unit), t # <<>>
  PROVE  Append(s, Head(t)) \o Tail(t) = s \o t
<1>1. Head(t) \in Unit /\ Tail(t) \in Seq(Unit) /\ <<Head(t)>> \in Seq(Unit)
  OBVIOUS
<1>2. Append(s, Head(t)) = s \o <<Head(t)>> /\ t = <<Head(t)>> \o Tail(t)
  BY <1>1, AppendIsConcat, HeadTailProperties
<1> QED
  BY <1>1, <1>2, ConcatAssociative

LEMMA StreamTyped ==
  ASSUME ConnectionTypeOK
  PROVE  /\ transport.wire \in Seq(Unit) /\ transport.buffer \in Seq(Unit) /\ Stream \in Seq(Unit)
         /\ transport.kind = "Native" /\ LockInv => Stream = transport.wire
<1>1. transport.wire \in Seq(Unit) /\ transport.buffer \in Seq(Unit)
  BY DEF ConnectionTypeOK, TransportStates
<1>2. Stream \in Seq(Unit)
  BY <1>1, ConcatProperties DEF Stream
<1>3. transport.wire \o <<>> = transport.wire
  BY <1>1
<1> QED
  BY <1>1, <1>2, <1>3 DEF LockInv, Stream

Carrying(tr, wire, buffer) == [tr EXCEPT !.wire = wire, !.buffer = buffer]

LEMMA TransportUpdated ==
  ASSUME NEW tr \in TransportStates, NEW wire \in Seq(Unit), NEW buffer \in Seq(Unit)
  PROVE  /\ Carrying(tr, wire, buffer) \in TransportStates
         /\ Carrying(tr, wire, buffer).kind = tr.kind /\ Carrying(tr, wire, buffer).cut = tr.cut
         /\ Carrying(tr, wire, buffer).wire = wire /\ Carrying(tr, wire, buffer).buffer = buffer
<1> DEFINE whole == [kind |-> tr.kind, buffer |-> tr.buffer, wire |-> tr.wire, cut |-> tr.cut]
           half == [kind |-> tr.kind, buffer |-> tr.buffer, wire |-> wire, cut |-> tr.cut]
           fields == [kind |-> tr.kind, buffer |-> buffer, wire |-> wire, cut |-> tr.cut]
<1>1. fields \in TransportStates
  BY DEF TransportStates
<1>2. tr = whole
  BY DEF TransportStates
<1>3. [whole EXCEPT !.wire = wire] = half
  OBVIOUS
<1>4. [half EXCEPT !.buffer = buffer] = fields
  OBVIOUS
<1>5. Carrying(tr, wire, buffer) = [[tr EXCEPT !.wire = wire] EXCEPT !.buffer = buffer]
  BY DEF Carrying
<1> HIDE DEF whole, half
<1>6. Carrying(tr, wire, buffer) = fields
  BY <1>2, <1>3, <1>4, <1>5
<1> QED
  BY <1>1, <1>6

LEMMA CarryingIs ==
  ASSUME NEW tr \in TransportStates, NEW wire \in Seq(Unit), NEW buffer \in Seq(Unit),
         NEW d, d = Carrying(tr, wire, buffer)
  PROVE  /\ d \in TransportStates /\ d.kind = tr.kind /\ d.cut = tr.cut
         /\ d.wire = wire /\ d.buffer = buffer
BY TransportUpdated

LEMMA TakesUnit ==
  ASSUME ConnectionTypeOK, LockInv, NEW unit \in Unit, Takes(unit)
  PROVE  /\ transport' \in TransportStates
         /\ transport'.kind = transport.kind /\ transport'.cut = transport.cut
         /\ transport.kind = "Native" => transport'.buffer = <<>>
         /\ transport'.wire \in {transport.wire, Append(transport.wire, unit)}
         /\ \/ Stream' = Append(Stream, unit)
            \/ transport.cut /\ Stream' = Stream
<1>1. /\ transport.wire \in Seq(Unit) /\ transport.buffer \in Seq(Unit)
      /\ transport.kind = "Native" => transport.buffer = <<>> /\ Stream = transport.wire
  BY StreamTyped DEF LockInv
<1>2. CASE transport.kind = "Native" /\ transport' = [transport EXCEPT !.wire = Append(@, unit)]
  <2>1. /\ transport' \in TransportStates /\ transport'.buffer = transport.buffer
        /\ transport'.kind = transport.kind /\ transport'.cut = transport.cut
        /\ transport'.wire = Append(transport.wire, unit)
    <3> DEFINE w == Append(transport.wire, unit)
               b == transport.buffer
    <3>1. transport' = Carrying(transport, w, b)
      BY <1>2 DEF ConnectionTypeOK, TransportStates, Carrying
    <3>2. w \in Seq(Unit) /\ b \in Seq(Unit)
      BY <1>1
    <3>3. transport \in TransportStates
      BY DEF ConnectionTypeOK
    <3> HIDE DEF w, b
    <3>4. /\ transport' \in TransportStates /\ transport'.kind = transport.kind
          /\ transport'.cut = transport.cut /\ transport'.wire = w /\ transport'.buffer = b
      BY <3>1, <3>2, <3>3, CarryingIs
    <3> QED
      BY <3>4 DEF w, b
  <2>2. Append(transport.wire, unit) \o <<>> = Append(transport.wire, unit)
    BY <1>1
  <2> QED
    BY <1>1, <1>2, <2>1, <2>2 DEF Stream
<1>3. CASE transport.kind = "Native" /\ transport.cut /\ UNCHANGED transport
  BY <1>1, <1>3 DEF ConnectionTypeOK, Stream
<1>4. CASE transport.kind = "Live" /\ transport' = [transport EXCEPT !.buffer = Append(@, unit)]
  <2>1. /\ transport' \in TransportStates /\ transport'.wire = transport.wire
        /\ transport'.kind = transport.kind /\ transport'.cut = transport.cut
        /\ transport'.buffer = Append(transport.buffer, unit)
    <3> DEFINE w == transport.wire
               b == Append(transport.buffer, unit)
    <3>1. transport' = Carrying(transport, w, b)
      BY <1>4 DEF ConnectionTypeOK, TransportStates, Carrying
    <3>2. w \in Seq(Unit) /\ b \in Seq(Unit)
      BY <1>1
    <3>3. transport \in TransportStates
      BY DEF ConnectionTypeOK
    <3> HIDE DEF w, b
    <3>4. /\ transport' \in TransportStates /\ transport'.kind = transport.kind
          /\ transport'.cut = transport.cut /\ transport'.wire = w /\ transport'.buffer = b
      BY <3>1, <3>2, <3>3, CarryingIs
    <3> QED
      BY <3>4 DEF w, b
  <2>2. transport.wire \o Append(transport.buffer, unit)
          = Append(transport.wire \o transport.buffer, unit)
    BY <1>1, ConcatAppend
  <2> QED
    BY <1>4, <2>1, <2>2 DEF Stream
<1> QED
  BY <1>2, <1>3, <1>4 DEF Takes

LEMMA FlushesUnit ==
  ASSUME ConnectionTypeOK, transport.kind = "Live", transport.buffer # <<>>,
         transport' = [transport EXCEPT !.wire = Append(@, Head(transport.buffer)),
                                        !.buffer = Tail(@)]
  PROVE  /\ transport' \in TransportStates
         /\ transport'.kind = transport.kind /\ transport'.cut = transport.cut
         /\ Head(transport.buffer) \in Unit
         /\ transport'.wire = Append(transport.wire, Head(transport.buffer))
         /\ Stream' = Stream
<1>1. transport.wire \in Seq(Unit) /\ transport.buffer \in Seq(Unit)
  BY StreamTyped
<1>2. Head(transport.buffer) \in Unit /\ Tail(transport.buffer) \in Seq(Unit)
  BY <1>1
<1>3. /\ transport' \in TransportStates
      /\ transport'.kind = transport.kind /\ transport'.cut = transport.cut
      /\ transport'.wire = Append(transport.wire, Head(transport.buffer))
      /\ transport'.buffer = Tail(transport.buffer)
  <2>1. transport' = Carrying(transport, Append(transport.wire, Head(transport.buffer)),
                                        Tail(transport.buffer))
    BY DEF ConnectionTypeOK, TransportStates, Carrying
  <2>2. Append(transport.wire, Head(transport.buffer)) \in Seq(Unit)
    BY <1>1, <1>2
  <2> DEFINE longer == Append(transport.wire, Head(transport.buffer))
             rest == Tail(transport.buffer)
  <2>3. /\ transport' = Carrying(transport, longer, rest)
        /\ longer \in Seq(Unit) /\ rest \in Seq(Unit) /\ transport \in TransportStates
    BY <1>2, <2>1, <2>2 DEF ConnectionTypeOK
  <2> HIDE DEF longer, rest
  <2>4. LET carrying == Carrying(transport, longer, rest) IN
        /\ carrying \in TransportStates
        /\ carrying.kind = transport.kind /\ carrying.cut = transport.cut
        /\ carrying.wire = longer /\ carrying.buffer = rest
    BY <2>3, TransportUpdated
  <2> QED
    BY <2>3, <2>4 DEF longer, rest
<1>4. Append(transport.wire, Head(transport.buffer)) \o Tail(transport.buffer)
        = transport.wire \o transport.buffer
  BY <1>1, ConcatHeadTail
<1> QED
  BY <1>2, <1>3, <1>4 DEF Stream

LEMMA DropsBuffer ==
  ASSUME ConnectionTypeOK, transport' = Dropped(transport)
  PROVE  /\ transport' \in TransportStates /\ transport'.kind = transport.kind
         /\ transport'.cut = TRUE /\ transport'.buffer = <<>>
         /\ transport'.wire = transport.wire
<1> DEFINE fields == [kind |-> transport.kind, buffer |-> <<>>, wire |-> transport.wire,
                      cut |-> TRUE]
<1>1. fields \in TransportStates
  BY DEF ConnectionTypeOK, TransportStates
<1>2. transport' = fields
  BY DEF ConnectionTypeOK, TransportStates, Dropped
<1> QED
  BY <1>1, <1>2

\* A thread inside a call other than shutdown holds the lock.
LEMMA HoldsLock ==
  ASSUME ConnectionTypeOK, LockInv, NEW t \in Threads, NEW ops, NEW at,
         In(t, ops, at), "Shutdown" \notin ops
  PROVE  /\ holder = t /\ holder # None
         /\ calls[t] \in CallRecords /\ calls[t].op \in ops /\ calls[t].at = at
         /\ at # "Locked" => ~writer.closed
BY ConnectionAssumption DEF ConnectionTypeOK, LockInv, In

\* The holder goes on in its call, the transport at most takes units.
LEMMA Proceeding ==
  ASSUME SentInv, NEW t \in Threads, holder = t, NEW c \in CallRecords,
         calls[t] \in CallRecords, calls[t].op # "Shutdown", c.op = calls[t].op,
         calls' = [calls EXCEPT ![t] = c],
         transport' \in TransportStates, transport'.kind = transport.kind,
         transport'.cut = transport.cut,
         transport.kind = "Native" => transport'.buffer = <<>>,
         \A record \in answered :
           /\ Whole(record, transport.wire) => Whole(record, transport'.wire)
           /\ Whole(record, Stream) => Whole(record, Stream'),
         writer' \in WriterStates, ~writer.closed, ~writer'.closed,
         failures' \in Nat,
         UNCHANGED <<requested, native, holder, answered, reader>>,
         CallShape(c), WriteInv(c)', FlushedInv(c)'
  PROVE  SentInv'
<1>1. calls'[t] = c /\ \A u \in Threads \ {t} : calls'[u] = calls[u]
  BY DEF SentInv, ConnectionTypeOK
<1>2. ConnectionTypeOK'
  BY <1>1 DEF SentInv, ConnectionTypeOK
<1>3. LockInv'
  BY <1>1, ConnectionAssumption DEF SentInv, LockInv, ConnectionTypeOK
<1>4. CallInv'
  BY <1>1 DEF CallInv
<1>5. AnsweredInv'
  BY DEF SentInv, AnsweredInv
<1> QED
  BY <1>2, <1>3, <1>4, <1>5 DEF SentInv

\* The holder's call ends and the lock is free.
LEMMA Ending ==
  ASSUME SentInv, NEW t \in Threads, holder = t, holder' = None, Returns(t),
         transport' \in TransportStates, transport'.kind = transport.kind,
         transport'.cut => requested,
         transport.kind = "Native" => transport'.buffer = <<>>,
         transport.kind = "Live" /\ transport'.cut => writer'.closed,
         writer' \in WriterStates, answered' \subseteq Answer, IsFiniteSet(answered'),
         AnsweredInv',
         UNCHANGED <<requested, native, failures, reader>>
  PROVE  SentInv'
<1>1. calls'[t] = None /\ \A u \in Threads \ {t} : calls'[u] = calls[u]
  BY DEF SentInv, ConnectionTypeOK, Returns
<1>2. ConnectionTypeOK'
  BY DEF SentInv, ConnectionTypeOK, Returns
<1>3. LockInv'
  BY <1>1, ConnectionAssumption DEF SentInv, LockInv, ConnectionTypeOK
<1>4. CallInv'
  BY DEF CallInv
<1> QED
  BY <1>2, <1>3, <1>4 DEF SentInv

(***************************************************************************)
(* Where a step leaves the holder's call.                                  *)
(***************************************************************************)
Moved(c, d, at, sequence, sent, ok) ==
  /\ d \in CallRecords /\ d.op = c.op /\ d.record = c.record /\ d.mode = c.mode
  /\ d.at = at /\ d.sequence = sequence /\ d.sent = sent /\ d.ok = ok

Advanced(c, at, sequence, sent, ok) ==
  [op |-> c.op, at |-> at, record |-> c.record, mode |-> c.mode,
   sequence |-> sequence, sent |-> sent, ok |-> ok]

LEMMA AdvancedMoves ==
  ASSUME NEW c \in CallRecords, NEW sequence \in Nat, NEW sent \in Nat, NEW ok \in BOOLEAN,
         NEW at \in {"Enter", "Locked", "Write", "Written", "Flush", "Flushed", "Done",
                     "TryLock", "Lock"}
  PROVE  Moved(c, Advanced(c, at, sequence, sent, ok), at, sequence, sent, ok)
BY DEF CallRecords, Moved, Advanced

LEMMA CallIsRecord ==
  ASSUME NEW c \in CallRecords
  PROVE  c = Advanced(c, c.at, c.sequence, c.sent, c.ok)
BY DEF CallRecords, Advanced

LEMMA GoesMoves ==
  ASSUME ConnectionTypeOK, NEW t \in Threads, calls[t] \in CallRecords,
         NEW at \in {"Enter", "Locked", "Write", "Written", "Flush", "Flushed", "Done",
                     "TryLock", "Lock"},
         Goes(t, at)
  PROVE  \E c \in CallRecords :
           /\ calls' = [calls EXCEPT ![t] = c]
           /\ Moved(calls[t], c, at, calls[t].sequence, calls[t].sent, calls[t].ok)
<1> DEFINE d == calls[t]
           c == Advanced(d, at, d.sequence, d.sent, d.ok)
<1>1. d.sequence \in Nat /\ d.sent \in Nat /\ d.ok \in BOOLEAN
  BY DEF CallRecords
<1>2. [d EXCEPT !.at = at] = c
  BY CallIsRecord DEF Advanced
<1>3. calls' = [calls EXCEPT ![t] = [d EXCEPT !.at = at]]
  BY DEF Goes
<1>4. Moved(d, c, at, d.sequence, d.sent, d.ok)
  BY <1>1, AdvancedMoves
<1>5. c \in CallRecords
  BY <1>4 DEF Moved
<1> HIDE DEF c
<1> QED
  BY <1>2, <1>3, <1>4, <1>5

LEMMA SequenceMoves ==
  ASSUME ConnectionTypeOK, NEW t \in Threads, calls[t] \in CallRecords, NEW sequence \in Nat,
         calls' = [calls EXCEPT ![t].at = "Write", ![t].sequence = sequence]
  PROVE  \E c \in CallRecords :
           /\ calls' = [calls EXCEPT ![t] = c]
           /\ Moved(calls[t], c, "Write", sequence, calls[t].sent, calls[t].ok)
<1> DEFINE d == calls[t]
           b == Advanced(d, "Write", d.sequence, d.sent, d.ok)
           c == Advanced(d, "Write", sequence, d.sent, d.ok)
<1>1. d.sequence \in Nat /\ d.sent \in Nat /\ d.ok \in BOOLEAN
  BY DEF CallRecords
<1>2. [d EXCEPT !.at = "Write"] = b
  BY CallIsRecord DEF Advanced
<1>3. [b EXCEPT !.sequence = sequence] = c
  BY DEF Advanced
<1>4. calls' = [calls EXCEPT ![t] = [[d EXCEPT !.at = "Write"] EXCEPT !.sequence = sequence]]
  BY DEF ConnectionTypeOK
<1>5. Moved(d, c, "Write", sequence, d.sent, d.ok)
  BY <1>1, AdvancedMoves
<1>6. c \in CallRecords
  BY <1>5 DEF Moved
<1> HIDE DEF b, c
<1> QED
  BY <1>2, <1>3, <1>4, <1>5, <1>6

Transferring(cs, t, sent, at) == [cs EXCEPT ![t].sent = sent, ![t].at = at]

LEMMA NextUnit ==
  ASSUME NEW sent \in Nat, NEW body \in Nat, sent <= body, NEW n, n = body + 1
  PROVE  sent + 1 \in 1..n
OBVIOUS

LEMMA TransferMoves ==
  ASSUME ConnectionTypeOK, NEW t \in Threads, calls[t] \in CallRecords,
         NEW sent \in Nat, NEW at \in {"Write", "Written"},
         calls' = Transferring(calls, t, sent, at)
  PROVE  \E c \in CallRecords :
           /\ calls' = [calls EXCEPT ![t] = c]
           /\ Moved(calls[t], c, at, calls[t].sequence, sent, calls[t].ok)
<1> DEFINE d == calls[t]
           b == Advanced(d, d.at, d.sequence, sent, d.ok)
           c == Advanced(d, at, d.sequence, sent, d.ok)
<1>1. d.sequence \in Nat /\ d.sent \in Nat /\ d.ok \in BOOLEAN
  BY DEF CallRecords
<1>2. [d EXCEPT !.sent = sent] = b
  BY CallIsRecord DEF Advanced
<1>3. [b EXCEPT !.at = at] = c
  BY DEF Advanced
<1>4. calls' = [calls EXCEPT ![t] = [[d EXCEPT !.sent = sent] EXCEPT !.at = at]]
  BY DEF ConnectionTypeOK, Transferring
<1>5. Moved(d, c, at, d.sequence, sent, d.ok)
  BY <1>1, AdvancedMoves
<1>6. c \in CallRecords
  BY <1>5 DEF Moved
<1> HIDE DEF b, c
<1> QED
  BY <1>2, <1>3, <1>4, <1>5, <1>6

LEMMA FailMoves ==
  ASSUME ConnectionTypeOK, NEW t \in Threads, calls[t] \in CallRecords,
         NEW at \in {"Written", "Flushed"}, NEW ok \in BOOLEAN,
         calls' = [calls EXCEPT ![t].at = at, ![t].ok = ok]
  PROVE  \E c \in CallRecords :
           /\ calls' = [calls EXCEPT ![t] = c]
           /\ Moved(calls[t], c, at, calls[t].sequence, calls[t].sent, ok)
<1> DEFINE d == calls[t]
           b == Advanced(d, at, d.sequence, d.sent, d.ok)
           c == Advanced(d, at, d.sequence, d.sent, ok)
<1>1. d.sequence \in Nat /\ d.sent \in Nat /\ d.ok \in BOOLEAN
  BY DEF CallRecords
<1>2. [d EXCEPT !.at = at] = b
  BY CallIsRecord DEF Advanced
<1>3. [b EXCEPT !.ok = ok] = c
  BY DEF Advanced
<1>4. calls' = [calls EXCEPT ![t] = [[d EXCEPT !.at = at] EXCEPT !.ok = ok]]
  BY DEF ConnectionTypeOK
<1>5. Moved(d, c, at, d.sequence, d.sent, ok)
  BY <1>1, AdvancedMoves
<1>6. c \in CallRecords
  BY <1>5 DEF Moved
<1> HIDE DEF b, c
<1> QED
  BY <1>2, <1>3, <1>4, <1>5, <1>6

LEMMA FailSets ==
  ASSUME ConnectionTypeOK, NEW t \in Threads, calls[t] \in CallRecords,
         NEW at \in {"Written", "Flushed"},
         calls' = [calls EXCEPT ![t].at = at, ![t].ok = FALSE]
  PROVE  \E c : calls' = [calls EXCEPT ![t] = c] /\ c.at = at
<1>1. FALSE \in BOOLEAN
  OBVIOUS
<1>2. PICK c \in CallRecords :
        /\ calls' = [calls EXCEPT ![t] = c]
        /\ Moved(calls[t], c, at, calls[t].sequence, calls[t].sent, FALSE)
  BY <1>1, FailMoves
<1>3. c.at = at
  BY <1>2 DEF Moved
<1> QED
  BY <1>2, <1>3

(***************************************************************************)
(* OkMeansSent: every step preserves SentInv.                              *)
(***************************************************************************)
LEMMA CallsBegin ==
  ASSUME NEW call, call \in {Call("Flush"), Call("Limit")}
           \/ (\E record \in Records : call = [Call("Write") EXCEPT !.record = record])
           \/ (\E mode \in Modes : call = [Call("Mode") EXCEPT !.mode = mode])
  PROVE  \E c \in CallRecords :
           c = [call EXCEPT !.at = "Locked"] /\ c.at = "Locked" /\ CallShape(c)
<1> DEFINE Locked(op, record, mode) ==
             [op |-> op, at |-> "Locked", record |-> record, mode |-> mode,
              sequence |-> 0, sent |-> 0, ok |-> TRUE]
           Entering(op, record, mode) ==
             [op |-> op, at |-> "Enter", record |-> record, mode |-> mode,
              sequence |-> 0, sent |-> 0, ok |-> TRUE]
<1>1. ASSUME NEW op \in {"Write", "Mode", "Flush", "Limit"}, NEW record \in Records \union {None},
             NEW mode \in Modes \union {None}, op = "Write" => record \in Records /\ mode = None,
             op = "Mode" => mode \in Modes, op \in {"Flush", "Limit"} => mode = None
      PROVE  /\ Locked(op, record, mode) \in CallRecords
             /\ Locked(op, record, mode).at = "Locked" /\ CallShape(Locked(op, record, mode))
             /\ Locked(op, record, mode) = [Entering(op, record, mode) EXCEPT !.at = "Locked"]
  <2>1. Locked(op, record, mode) \in CallRecords
    BY DEF CallRecords
  <2>2. Locked(op, record, mode).at = "Locked"
    OBVIOUS
  <2>3. CallShape(Locked(op, record, mode))
    BY <1>1 DEF CallShape
  <2> DEFINE before == Entering(op, record, mode)
  <2>4. before \in CallRecords
    BY DEF CallRecords
  <2>5. [before EXCEPT !.at = "Locked"]
          = Advanced(before, "Locked", before.sequence, before.sent, before.ok)
    <3> HIDE DEF before
    <3> QED
      BY <2>4, CallIsRecord DEF Advanced
  <2>6. Advanced(before, "Locked", before.sequence, before.sent, before.ok)
          = Locked(op, record, mode)
    BY DEF Advanced
  <2> QED
    BY <2>1, <2>2, <2>3, <2>5, <2>6
<1>2. ASSUME NEW op \in {"Flush", "Limit"}, call = Call(op) PROVE call = Entering(op, None, None)
  BY <1>2 DEF Call
<1>3. ASSUME NEW record \in Records, call = [Call("Write") EXCEPT !.record = record]
      PROVE  call = Entering("Write", record, None)
  BY <1>3 DEF Call
<1>4. ASSUME NEW mode \in Modes, call = [Call("Mode") EXCEPT !.mode = mode]
      PROVE  call = Entering("Mode", None, mode)
  BY <1>4 DEF Call
<1> HIDE DEF Locked, Entering
<1>5. \E op \in {"Write", "Mode", "Flush", "Limit"}, record \in Records \union {None},
         mode \in Modes \union {None} :
        /\ op = "Write" => record \in Records /\ mode = None
        /\ op = "Mode" => mode \in Modes
        /\ op \in {"Flush", "Limit"} => mode = None
        /\ call = Entering(op, record, mode)
  BY <1>2, <1>3, <1>4
<1> QED
  BY <1>1, <1>5

LEMMA SentBegin ==
  ASSUME SentInv, NEW t \in Threads, NEW call,
         call \in {Call("Flush"), Call("Limit")}
           \/ (\E record \in Records : call = [Call("Write") EXCEPT !.record = record])
           \/ (\E mode \in Modes : call = [Call("Mode") EXCEPT !.mode = mode]),
         Begin(t, call)
  PROVE  SentInv'
<1>1. PICK c \in CallRecords :
        c = [call EXCEPT !.at = "Locked"] /\ c.at = "Locked" /\ CallShape(c)
  BY CallsBegin
<1>2. /\ calls[t] = None /\ holder = None /\ holder' = t
      /\ calls' = [calls EXCEPT ![t] = c]
      /\ UNCHANGED <<transport, requested, native, writer, answered, failures, reader>>
  BY <1>1 DEF Begin
<1>3. calls'[t] = c /\ \A u \in Threads \ {t} : calls'[u] = calls[u]
  BY <1>2 DEF SentInv, ConnectionTypeOK
<1>4. c.op # "Shutdown" /\ c # None
  BY ConnectionAssumption, <1>1 DEF CallShape
<1>5. ConnectionTypeOK'
  BY <1>2 DEF SentInv, ConnectionTypeOK
<1>6. LockInv'
  BY <1>1, <1>2, <1>3, <1>4, ConnectionAssumption DEF SentInv, LockInv, ConnectionTypeOK
<1>7. CallInv'
  BY <1>1, <1>2, <1>3 DEF CallInv, WriteInv, FlushedInv
<1>8. AnsweredInv'
  BY <1>2 DEF SentInv, AnsweredInv, Stream
<1> QED
  BY <1>5, <1>6, <1>7, <1>8 DEF SentInv

\* A call that ends without touching the transport, the writer or the answers.
LEMMA SentReturn ==
  ASSUME SentInv, NEW t \in Threads, holder = t, holder' = None, Returns(t),
         UNCHANGED <<transport, requested, native, writer, answered, failures, reader>>
  PROVE  SentInv'
<1>1. AnsweredInv'
  BY DEF SentInv, AnsweredInv, Stream
<1> QED
  BY <1>1, Ending DEF SentInv, ConnectionTypeOK, LockInv

LEMMA SentReturns ==
  ASSUME SentInv, NEW t \in Threads,
         Refused(t) \/ WriteTooLong(t) \/ WriteFailed(t) \/ FlushFailed(t)
  PROVE  SentInv'
<1> USE DEF SentInv
<1>1. CASE Refused(t)
  BY <1>1, HoldsLock, SentReturn DEF Refused
<1>2. CASE WriteTooLong(t)
  BY <1>2, HoldsLock, SentReturn DEF WriteTooLong, AfterRefusal
<1>3. CASE WriteFailed(t)
  BY <1>3, HoldsLock, SentReturn DEF WriteFailed, NotCancelled
<1>4. CASE FlushFailed(t)
  <2>1. holder = t
    BY <1>4, HoldsLock DEF FlushFailed, AfterFlush
  <2> QED
    BY <1>4, <2>1, SentReturn DEF FlushFailed
<1> QED
  BY <1>1, <1>2, <1>3, <1>4

\* The holder goes on in its call, the transport as it is.
LEMMA Continuing ==
  ASSUME SentInv, NEW t \in Threads, holder = t, NEW c \in CallRecords,
         calls[t] \in CallRecords, calls[t].op # "Shutdown", c.op = calls[t].op,
         calls' = [calls EXCEPT ![t] = c],
         writer' \in WriterStates, ~writer.closed, ~writer'.closed,
         failures' \in Nat,
         UNCHANGED <<transport, requested, native, holder, answered, reader>>,
         CallShape(c), WriteInv(c)', FlushedInv(c)'
  PROVE  SentInv'
<1>1. Stream' = Stream
  BY DEF Stream
<1> QED
  BY <1>1, Proceeding DEF SentInv, ConnectionTypeOK, LockInv

LEMMA WriterCounts ==
  ASSUME NEW w \in WriterStates, NEW n \in Nat
  PROVE  /\ [w EXCEPT !.send_sequence = n] \in WriterStates
         /\ [w EXCEPT !.send_sequence = n].send_sequence = n
         /\ [w EXCEPT !.send_sequence = n].send_body_limit = w.send_body_limit
         /\ [w EXCEPT !.send_sequence = n].flush_mode = w.flush_mode
         /\ [w EXCEPT !.send_sequence = n].unflushed = w.unflushed
         /\ [w EXCEPT !.send_sequence = n].closed = w.closed
         /\ [w EXCEPT !.unflushed = n] \in WriterStates
         /\ [w EXCEPT !.unflushed = n].send_sequence = w.send_sequence
         /\ [w EXCEPT !.unflushed = n].send_body_limit = w.send_body_limit
         /\ [w EXCEPT !.unflushed = n].flush_mode = w.flush_mode
         /\ [w EXCEPT !.unflushed = n].unflushed = n
         /\ [w EXCEPT !.unflushed = n].closed = w.closed
         /\ [w EXCEPT !.send_body_limit = n] \in WriterStates
         /\ [w EXCEPT !.send_body_limit = n].send_sequence = w.send_sequence
         /\ [w EXCEPT !.send_body_limit = n].send_body_limit = n
         /\ [w EXCEPT !.send_body_limit = n].flush_mode = w.flush_mode
         /\ [w EXCEPT !.send_body_limit = n].unflushed = w.unflushed
         /\ [w EXCEPT !.send_body_limit = n].closed = w.closed
BY DEF WriterStates

LEMMA WriterSwitches ==
  ASSUME NEW w \in WriterStates, NEW mode \in Modes \union {None}
  PROVE  /\ Switched(w, mode) \in WriterStates
         /\ Switched(w, mode).send_sequence = w.send_sequence
         /\ Switched(w, mode).send_body_limit = w.send_body_limit
         /\ Switched(w, mode).flush_mode = IF mode = None THEN w.flush_mode ELSE mode
         /\ Switched(w, mode).unflushed = w.unflushed
         /\ Switched(w, mode).closed = w.closed
<1>1. CASE mode = None
  BY <1>1 DEF Switched
<1>2. CASE mode # None
  BY <1>2 DEF Switched, WriterStates
<1> QED
  BY <1>1, <1>2

LEMMA WriterCloses ==
  ASSUME NEW w \in WriterStates
  PROVE  /\ Closed(w) \in WriterStates /\ Closed(w).closed
         /\ Closed(w).send_sequence = w.send_sequence
         /\ Closed(w).send_body_limit = w.send_body_limit
         /\ Closed(w).flush_mode = w.flush_mode
<1> DEFINE c == [w EXCEPT !.closed = TRUE]
<1>1. c \in WriterStates
  BY DEF WriterStates
<1>2. Closed(w) = [c EXCEPT !.unflushed = 0]
  BY DEF Closed
<1>3. /\ c.closed /\ c.send_sequence = w.send_sequence /\ c.flush_mode = w.flush_mode
      /\ c.send_body_limit = w.send_body_limit
  BY DEF WriterStates
<1> HIDE DEF c
<1>4. LET e == [c EXCEPT !.unflushed = 0] IN
      /\ e \in WriterStates /\ e.closed = c.closed /\ e.send_sequence = c.send_sequence
      /\ e.send_body_limit = c.send_body_limit /\ e.flush_mode = c.flush_mode
  BY <1>1, WriterCounts
<1> QED
  BY <1>2, <1>3, <1>4

LEMMA SentSequence ==
  ASSUME SentInv, NEW t \in Threads, Sequence(t)
  PROVE  SentInv'
<1> USE DEF SentInv
<1> DEFINE n == writer.send_sequence + 1
<1>1. /\ holder = t /\ holder # None /\ calls[t] \in CallRecords /\ calls[t].op = "Write"
      /\ calls[t].at = "Locked"
  BY HoldsLock DEF Sequence
<1>2. /\ ~writer.closed /\ ~requested /\ calls[t].record.body <= writer.send_body_limit
      /\ writer' = [writer EXCEPT !.send_sequence = n]
      /\ calls' = [calls EXCEPT ![t].at = "Write", ![t].sequence = n]
      /\ UNCHANGED <<transport, requested, native, holder, answered, failures, reader>>
  <2>1. calls[t].record \in Records /\ writer \in WriterStates
    BY <1>1 DEF CallInv, CallShape, ConnectionTypeOK
  <2>2. calls[t].record.body \in Nat /\ writer.send_body_limit \in Nat
    BY <2>1, ConnectionAssumption DEF Records, WriterStates
  <2> QED
    BY <2>2 DEF Sequence, TooLong, Open
<1>3. writer \in WriterStates /\ n \in Nat /\ n >= 1
  BY DEF ConnectionTypeOK, WriterStates
<1> HIDE DEF n
<1>4. /\ writer' \in WriterStates /\ writer'.send_sequence = n /\ ~writer'.closed
      /\ writer'.send_body_limit = writer.send_body_limit
  BY <1>2, <1>3, WriterCounts
<1>5. PICK c \in CallRecords :
        /\ calls' = [calls EXCEPT ![t] = c]
        /\ Moved(calls[t], c, "Write", n, calls[t].sent, calls[t].ok)
  BY <1>1, <1>2, <1>3, SequenceMoves
<1>6. CallShape(calls[t]) /\ calls[t].sent = 0 /\ calls[t].ok /\ calls[t].record \in Records
  BY <1>1 DEF CallInv, CallShape
<1>7. CallShape(c)
  BY <1>1, <1>5, <1>6 DEF CallShape, Moved
<1>8. WriteInv(c)'
  <2>1. c.record.body \in Nat /\ Stream' \in Seq(Unit)
    BY <1>2, <1>5, <1>6, ConnectionAssumption, StreamTyped DEF Moved, Records, Stream
  <2>2. Partial(c, Stream')
    BY <2>1, <1>5, <1>6 DEF Moved, Partial
  <2> QED
    BY <1>2, <1>3, <1>4, <1>5, <1>6, <2>1, <2>2 DEF WriteInv, Moved
<1>9. FlushedInv(c)'
  BY <1>5 DEF FlushedInv, Moved
<1> QED
  BY <1>1, <1>2, <1>4, <1>5, <1>7, <1>8, <1>9, Continuing DEF Moved, ConnectionTypeOK

LEMMA AnswersTyped ==
  ASSUME ConnectionTypeOK
  PROVE  \A record \in answered : record.sequence \in Nat /\ record.body \in Nat
BY DEF ConnectionTypeOK, Answer

\* The record that a write is about.
LEMMA WritesRecord ==
  ASSUME SentInv, NEW t \in Threads, holder = t, calls[t] \in CallRecords,
         calls[t].op = "Write"
  PROVE  /\ calls[t].record \in Records /\ calls[t].record.body \in Nat
         /\ calls[t].mode = None
         /\ calls[t].sequence \in Nat /\ calls[t].sent \in Nat /\ calls[t].ok \in BOOLEAN
         /\ RecordOf(calls[t]).sequence = calls[t].sequence
         /\ RecordOf(calls[t]).body = calls[t].record.body
<1>1. calls[t].record \in Records /\ calls[t].mode = None
  BY ConnectionAssumption DEF SentInv, CallInv, CallShape, ConnectionTypeOK
<1> QED
  BY <1>1, ConnectionAssumption DEF Records, CallRecords, RecordOf

LEMMA SentTransfer ==
  ASSUME SentInv, NEW t \in Threads, Transfer(t)
  PROVE  SentInv'
<1> USE DEF SentInv
<1> DEFINE d == calls[t]
           unit == Units(d.sequence, d.record.body)[d.sent + 1]
           at == IF d.sent = d.record.body THEN "Written" ELSE "Write"
<1>1. holder = t /\ holder # None /\ d \in CallRecords /\ d.op = "Write" /\ d.at = "Write"
      /\ ~writer.closed
  BY HoldsLock DEF Transfer
<1>2. /\ d.sent <= d.record.body /\ Takes(unit)
      /\ calls' = [calls EXCEPT ![t].sent = d.sent + 1, ![t].at = at]
      /\ UNCHANGED <<requested, native, holder, writer, answered, failures, reader>>
  BY DEF Transfer
<1>3. /\ d.record.body \in Nat /\ d.sequence \in Nat /\ d.sent \in Nat
      /\ d.record \in Records /\ d.mode = None
  BY <1>1, WritesRecord
<1>4. unit \in Unit
  <2>1. Units(d.sequence, d.record.body) \in Seq(Unit)
        /\ Len(Units(d.sequence, d.record.body)) = d.record.body + 1
    BY <1>3, UnitsTyped
  <2>2. d.sent + 1 \in 1..Len(Units(d.sequence, d.record.body))
    BY <1>2, <1>3, <2>1
  <2> QED
    BY <2>1, <2>2, ElementOfSeq
<1> HIDE DEF unit
<1>5. /\ transport' \in TransportStates
      /\ transport'.kind = transport.kind /\ transport'.cut = transport.cut
      /\ transport.kind = "Native" => transport'.buffer = <<>>
      /\ transport'.wire \in {transport.wire, Append(transport.wire, unit)}
      /\ \/ Stream' = Append(Stream, unit)
         \/ transport.cut /\ Stream' = Stream
  BY <1>2, <1>4, TakesUnit
<1>6. PICK c \in CallRecords :
        /\ calls' = [calls EXCEPT ![t] = c]
        /\ Moved(d, c, at, d.sequence, d.sent + 1, d.ok)
  <2>1. d.sent + 1 \in Nat /\ at \in {"Write", "Written"}
    BY <1>3
  <2>2. calls' = Transferring(calls, t, d.sent + 1, at)
    BY <1>2 DEF Transferring
  <2> HIDE DEF at
  <2>3. ConnectionTypeOK /\ t \in Threads /\ calls[t] \in CallRecords
    BY <1>1
  <2>4. \E c \in CallRecords :
          /\ calls' = [calls EXCEPT ![t] = c]
          /\ Moved(calls[t], c, at, calls[t].sequence, d.sent + 1, calls[t].ok)
    BY <2>1, <2>2, <2>3, TransferMoves
  <2> QED
    BY <2>4
<1>7. /\ c.op = "Write" /\ c.record = d.record /\ c.mode = None /\ c.sequence = d.sequence
      /\ c.sent = d.sent + 1 /\ c.ok = d.ok /\ c.at = at /\ d.ok
  <2>1. d.ok
    BY <1>1 DEF CallInv, CallShape
  <2> QED
    BY <2>1, <1>1, <1>3, <1>6 DEF Moved
<1>8. CallShape(c)
  BY <1>3, <1>7 DEF CallShape
<1>9. WriteInv(d)
  BY <1>1 DEF CallInv
<1>10. ~requested => Partial(c, Stream') /\ Stream' \in Seq(Unit)
  <2> HAVE ~requested
  <2>1. Stream' = Append(Stream, unit) /\ Stream \in Seq(Unit)
    BY <1>5, StreamTyped DEF LockInv
  <2>2. Partial(d, Stream)
    BY <1>1, <1>9 DEF WriteInv
  <2>3. Append(Stream, unit) \in Seq(Unit)
    BY <2>1, <1>4
  <2> HIDE DEF d
  <2>4. Partial(c, Append(Stream, unit))
    BY <1>1, <1>2, <1>3, <1>7, <2>1, <2>2, PartialGrows DEF unit
  <2> QED
    BY <2>1, <2>3, <2>4
<1>11. WriteInv(c)'
  <2>1. c.at = "Written" /\ ~requested => Whole(RecordOf(c), Stream')
    <3> HAVE c.at = "Written" /\ ~requested
    <3>1. c.sent = c.record.body + 1 /\ c.record.body \in Nat
      BY <1>3, <1>7
    <3> QED
      BY <1>10, <3>1, PartialWhole
  <2>2. c.at = "Write" => c.sent <= c.record.body
    BY <1>2, <1>3, <1>7
  <2> QED
    BY <1>1, <1>2, <1>7, <1>9, <1>10, <2>1, <2>2 DEF WriteInv
<1>12. FlushedInv(c)'
  BY <1>7 DEF FlushedInv
<1>13. \A record \in answered :
        /\ Whole(record, transport.wire) => Whole(record, transport'.wire)
        /\ Whole(record, Stream) => Whole(record, Stream')
  BY <1>4, <1>5, StreamTyped, AnswersTyped, WholeAppended
<1> QED
  BY <1>1, <1>2, <1>5, <1>6, <1>7, <1>8, <1>11, <1>12, <1>13, Proceeding DEF ConnectionTypeOK

LEMMA FailureTyped ==
  ASSUME ConnectionTypeOK, FailureCounted
  PROVE  failures' \in Nat /\ (transport.cut \/ failures' # 0)
BY DEF ConnectionTypeOK, FailureCounted

LEMMA SentTransferFails ==
  ASSUME SentInv, NEW t \in Threads, TransferFails(t)
  PROVE  SentInv'
<1> USE DEF SentInv
<1> DEFINE d == calls[t]
<1>1. holder = t /\ holder # None /\ d \in CallRecords /\ d.op = "Write" /\ d.at = "Write"
      /\ ~writer.closed
  BY HoldsLock DEF TransferFails
<1>2. PICK c \in CallRecords :
        /\ calls' = [calls EXCEPT ![t] = c]
        /\ Moved(d, c, "Written", d.sequence, d.sent, FALSE)
  BY <1>1, FailMoves DEF TransferFails
<1>3. d.record \in Records /\ d.mode = None
  BY <1>1, WritesRecord
<1>4. CallShape(c) /\ FlushedInv(c)'
  BY <1>1, <1>2, <1>3 DEF CallShape, FlushedInv, Moved
<1>5. WriteInv(d)
  BY <1>1 DEF CallInv
<1>6. UNCHANGED <<transport, requested, native, holder, writer, answered, reader>>
  BY DEF TransferFails
<1>7. WriteInv(c)'
  BY <1>1, <1>2, <1>5, <1>6 DEF WriteInv, Moved
<1>8. failures' \in Nat
  BY FailureTyped DEF TransferFails
<1>9. c.op = d.op
  BY <1>2 DEF Moved
<1> QED
  BY <1>1, <1>2, <1>4, <1>6, <1>7, <1>8, <1>9, Continuing DEF ConnectionTypeOK

LEMMA SentCloses ==
  ASSUME SentInv, NEW t \in Threads, requested,
         writer' = Closed(writer), transport' = Dropped(transport),
         UNCHANGED <<requested, native, answered, failures, reader>>
  PROVE  /\ transport' \in TransportStates /\ transport'.kind = transport.kind
         /\ transport'.buffer = <<>> /\ transport'.wire = transport.wire
         /\ writer' \in WriterStates /\ writer'.closed
         /\ AnsweredInv'
<1>1. /\ transport' \in TransportStates /\ transport'.kind = transport.kind
      /\ transport'.buffer = <<>> /\ transport'.wire = transport.wire
  BY DropsBuffer DEF SentInv
<1>2. writer' \in WriterStates /\ writer'.closed
  BY WriterCloses DEF SentInv, ConnectionTypeOK
<1>3. AnsweredInv'
  BY <1>1, <1>2 DEF SentInv, AnsweredInv
<1> QED
  BY <1>1, <1>2, <1>3

LEMMA SentCancelled ==
  ASSUME SentInv, NEW t \in Threads, Cancelled(t)
  PROVE  SentInv'
<1>1. holder = t
  BY HoldsLock DEF Cancelled, SentInv
<1>2. /\ requested /\ holder' = None /\ Returns(t)
      /\ writer' = Closed(writer) /\ transport' = Dropped(transport)
      /\ UNCHANGED <<requested, native, answered, failures, reader>>
  BY DEF Cancelled
<1>3. /\ transport' \in TransportStates /\ transport'.kind = transport.kind
      /\ transport'.buffer = <<>> /\ writer' \in WriterStates /\ writer'.closed
      /\ AnsweredInv'
  BY <1>2, SentCloses
<1> QED
  BY <1>1, <1>2, <1>3, Ending DEF SentInv, ConnectionTypeOK

LEMMA SentWrote ==
  ASSUME SentInv, NEW t \in Threads, Wrote(t)
  PROVE  SentInv'
<1> USE DEF SentInv
<1> DEFINE d == calls[t]
           n == writer.unflushed + 1
           at == IF MustFlush(d.record, n) THEN "Flush" ELSE "Done"
<1>1. holder = t /\ holder # None /\ d \in CallRecords /\ d.op = "Write" /\ d.at = "Written"
      /\ ~writer.closed
  BY HoldsLock DEF Wrote, NotCancelled
<1>2. /\ ~requested /\ d.ok /\ writer' = [writer EXCEPT !.unflushed = n] /\ Goes(t, at)
      /\ UNCHANGED <<transport, requested, native, holder, answered, failures, reader>>
  BY DEF Wrote, NotCancelled
<1>3. at = "Done" => ~d.record.checkpoint
  BY DEF MustFlush
<1>4. at \in {"Flush", "Done"} /\ writer \in WriterStates /\ n \in Nat
  BY DEF ConnectionTypeOK, WriterStates
<1> HIDE DEF at, n
<1>5. PICK c \in CallRecords :
        /\ calls' = [calls EXCEPT ![t] = c]
        /\ Moved(d, c, at, d.sequence, d.sent, d.ok)
  <2>1. CASE at = "Flush"
    BY <2>1, <1>1, <1>2, GoesMoves
  <2>2. CASE at = "Done"
    BY <2>2, <1>1, <1>2, GoesMoves
  <2> QED
    BY <2>1, <2>2, <1>4
<1>6. /\ writer' \in WriterStates /\ ~writer'.closed
      /\ writer'.send_sequence = writer.send_sequence
      /\ writer'.send_body_limit = writer.send_body_limit
  BY <1>1, <1>2, <1>4, WriterCounts
<1>7. /\ c.op = "Write" /\ c.record = d.record /\ c.mode = None /\ c.sequence = d.sequence
      /\ c.sent = d.sent /\ c.ok /\ c.at = at /\ d.record \in Records
  BY <1>1, <1>2, <1>5, WritesRecord DEF Moved
<1>8. CallShape(c) /\ FlushedInv(c)'
  BY <1>4, <1>7 DEF CallShape, FlushedInv
<1>9. WriteInv(d)
  BY <1>1 DEF CallInv
<1>10. WriteInv(c)'
  <2>1. RecordOf(c) = RecordOf(d) /\ Stream' = Stream
    BY <1>2, <1>7 DEF RecordOf, Stream
  <2>2. Whole(RecordOf(d), Stream)
    BY <1>1, <1>2, <1>9 DEF WriteInv
  <2> QED
    BY <1>1, <1>3, <1>4, <1>6, <1>7, <1>9, <2>1, <2>2 DEF WriteInv
<1> QED
  BY <1>1, <1>2, <1>5, <1>6, <1>7, <1>8, <1>10, Continuing DEF ConnectionTypeOK

\* What the holder's call keeps when it only goes on, or fails, in its flush.
LEMMA FlushOnward ==
  ASSUME SentInv, NEW t \in Threads, holder = t, holder # None, calls[t] \in CallRecords,
         calls[t].op \in {"Write", "Mode", "Flush"}, calls[t].at = "Flush",
         NEW c, NEW ok \in BOOLEAN,
         Moved(calls[t], c, "Flushed", calls[t].sequence, calls[t].sent, ok),
         ok => transport.buffer = <<>>,
         UNCHANGED <<transport, requested, writer>>
  PROVE  c.op = calls[t].op /\ CallShape(c) /\ WriteInv(c)' /\ FlushedInv(c)'
<1> DEFINE d == calls[t]
<1>1. CallShape(d) /\ WriteInv(d)
  BY DEF SentInv, CallInv
<1>2. CallShape(c)
  BY <1>1 DEF CallShape, Moved
<1>3. FlushedInv(c)'
  BY DEF FlushedInv, Moved
<1>4. RecordOf(c) = RecordOf(d) /\ Stream' = Stream
  BY DEF RecordOf, Moved, Stream
<1>5. WriteInv(c)'
  BY <1>1, <1>4 DEF WriteInv, Moved
<1> QED
  BY <1>2, <1>3, <1>5 DEF Moved

LEMMA SentFlushEnds ==
  ASSUME SentInv, NEW t \in Threads, FlushEnds(t)
  PROVE  SentInv'
<1> DEFINE d == calls[t]
<1>1. holder = t /\ holder # None /\ d \in CallRecords /\ d.op \in {"Write", "Mode", "Flush"}
      /\ d.at = "Flush" /\ ~writer.closed
  BY HoldsLock DEF FlushEnds, SentInv
<1>2. /\ transport.buffer = <<>> /\ Goes(t, "Flushed")
      /\ UNCHANGED <<transport, requested, native, holder, writer, answered, failures, reader>>
  BY DEF FlushEnds
<1>3. PICK c \in CallRecords :
        /\ calls' = [calls EXCEPT ![t] = c]
        /\ Moved(d, c, "Flushed", d.sequence, d.sent, d.ok)
  BY <1>1, <1>2, GoesMoves DEF SentInv
<1>4. d.ok \in BOOLEAN
  BY <1>1 DEF CallRecords
<1>5. c.op = d.op /\ CallShape(c) /\ WriteInv(c)' /\ FlushedInv(c)'
  BY <1>1, <1>2, <1>3, <1>4, FlushOnward
<1> QED
  BY <1>1, <1>2, <1>3, <1>5, Continuing DEF SentInv, ConnectionTypeOK

LEMMA SentFlushFails ==
  ASSUME SentInv, NEW t \in Threads, FlushFails(t)
  PROVE  SentInv'
<1> DEFINE d == calls[t]
<1>1. holder = t /\ holder # None /\ d \in CallRecords /\ d.op \in {"Write", "Mode", "Flush"}
      /\ d.at = "Flush" /\ ~writer.closed
  BY HoldsLock DEF FlushFails, SentInv
<1>2. /\ FailureCounted
      /\ UNCHANGED <<transport, requested, native, holder, writer, answered, reader>>
  BY DEF FlushFails
<1>3. PICK c \in CallRecords :
        /\ calls' = [calls EXCEPT ![t] = c]
        /\ Moved(d, c, "Flushed", d.sequence, d.sent, FALSE)
  BY <1>1, FailMoves DEF SentInv, FlushFails
<1>4. c.op = d.op /\ CallShape(c) /\ WriteInv(c)' /\ FlushedInv(c)'
  BY <1>1, <1>2, <1>3, FlushOnward
<1>5. failures' \in Nat
  BY <1>2, FailureTyped DEF SentInv
<1> QED
  BY <1>1, <1>2, <1>3, <1>4, <1>5, Continuing DEF SentInv, ConnectionTypeOK

LEMMA SentFlushTransfer ==
  ASSUME SentInv, NEW t \in Threads, FlushTransfer(t)
  PROVE  SentInv'
<1> USE DEF SentInv
<1> DEFINE d == calls[t]
<1>1. holder = t /\ holder # None /\ d \in CallRecords /\ d.op \in {"Write", "Mode", "Flush"}
      /\ d.at = "Flush" /\ ~writer.closed
  BY HoldsLock DEF FlushTransfer
<1>2. /\ transport.kind = "Live" /\ transport.buffer # <<>>
      /\ transport' = [transport EXCEPT !.wire = Append(@, Head(transport.buffer)),
                                        !.buffer = Tail(@)]
      /\ UNCHANGED <<requested, native, holder, writer, calls, answered, failures, reader>>
  BY DEF FlushTransfer
<1>3. /\ transport' \in TransportStates
      /\ transport'.kind = transport.kind /\ transport'.cut = transport.cut
      /\ Head(transport.buffer) \in Unit
      /\ transport'.wire = Append(transport.wire, Head(transport.buffer))
      /\ Stream' = Stream
  BY <1>2, FlushesUnit
<1>4. \A record \in answered :
        /\ Whole(record, transport.wire) => Whole(record, transport'.wire)
        /\ Whole(record, Stream) => Whole(record, Stream')
  BY <1>3, StreamTyped, AnswersTyped, WholeAppended
<1>5. CallShape(d) /\ WriteInv(d)
  BY <1>1 DEF CallInv
<1>6. calls' = [calls EXCEPT ![t] = d] /\ calls'[t] = d
  BY <1>2 DEF ConnectionTypeOK
<1>7. CallInv'
  <2>1. WriteInv(d)'
    BY <1>1, <1>2, <1>3, <1>5, <1>6 DEF WriteInv
  <2>2. FlushedInv(d)'
    BY <1>1, <1>2 DEF FlushedInv
  <2> QED
    BY <1>1, <1>2, <1>5, <2>1, <2>2 DEF CallInv
<1>8. ConnectionTypeOK'
  BY <1>2, <1>3 DEF ConnectionTypeOK
<1>9. LockInv'
  BY <1>2, <1>3 DEF LockInv
<1>10. AnsweredInv'
  BY <1>2, <1>3, <1>4 DEF AnsweredInv
<1> QED
  BY <1>7, <1>8, <1>9, <1>10

LEMMA SentFlushSucceeded ==
  ASSUME SentInv, NEW t \in Threads, FlushSucceeded(t)
  PROVE  SentInv'
<1> USE DEF SentInv
<1> DEFINE d == calls[t]
           w == [writer EXCEPT !.unflushed = 0]
<1>1. holder = t /\ holder # None /\ d \in CallRecords /\ d.op \in {"Write", "Mode", "Flush"}
      /\ d.at = "Flushed" /\ ~writer.closed
  BY HoldsLock DEF FlushSucceeded, AfterFlush
<1>2. /\ d.ok /\ writer' = Switched(w, d.mode) /\ Goes(t, "Done")
      /\ UNCHANGED <<transport, requested, native, holder, answered, failures, reader>>
  BY DEF FlushSucceeded
<1>3. PICK c \in CallRecords :
        /\ calls' = [calls EXCEPT ![t] = c]
        /\ Moved(d, c, "Done", d.sequence, d.sent, d.ok)
  BY <1>1, <1>2, GoesMoves
<1>4. /\ w \in WriterStates /\ ~w.closed /\ w.send_sequence = writer.send_sequence
      /\ w.send_body_limit = writer.send_body_limit
  <2>1. writer \in WriterStates /\ 0 \in Nat
    BY DEF ConnectionTypeOK
  <2> HIDE DEF w
  <2>2. w = [writer EXCEPT !.unflushed = 0]
    BY DEF w
  <2>3. /\ w \in WriterStates /\ w.closed = writer.closed
        /\ w.send_sequence = writer.send_sequence
        /\ w.send_body_limit = writer.send_body_limit
    BY <2>1, <2>2, WriterCounts
  <2> QED
    BY <1>1, <2>3
<1>5. d.mode \in Modes \union {None}
  BY <1>1 DEF CallRecords
<1> HIDE DEF w
<1>6. /\ writer' \in WriterStates /\ ~writer'.closed
      /\ writer'.send_sequence = writer.send_sequence
      /\ writer'.send_body_limit = writer.send_body_limit
  BY <1>2, <1>4, <1>5, WriterSwitches
<1>7. CallShape(d) /\ WriteInv(d) /\ transport.buffer = <<>>
  BY <1>1, <1>2 DEF CallInv, FlushedInv
<1>8. CallShape(c) /\ FlushedInv(c)'
  BY <1>1, <1>2, <1>3, <1>7 DEF CallShape, FlushedInv, Moved
<1>9. WriteInv(c)'
  <2>1. RecordOf(c) = RecordOf(d) /\ Stream' = Stream /\ Stream = transport.wire
    <3>1. transport.wire \o <<>> = transport.wire
      BY StreamTyped
    <3> QED
      BY <1>2, <1>3, <1>7, <3>1 DEF RecordOf, Stream, Moved
  <2> QED
    BY <1>1, <1>2, <1>3, <1>6, <1>7, <2>1 DEF WriteInv, Moved
<1> QED
  BY <1>1, <1>2, <1>3, <1>6, <1>8, <1>9, Continuing DEF ConnectionTypeOK, Moved

\* A call under the lock, other than a write, that goes on from its start.
LEMMA SentStarts ==
  ASSUME SentInv, NEW t \in Threads, NEW op \in {"Mode", "Flush", "Limit"},
         In(t, {op}, "Locked"), Open,
         NEW at \in {"Flush", "Done"}, op = "Limit" => at = "Done",
         Goes(t, at), writer' \in WriterStates, ~writer'.closed,
         UNCHANGED <<transport, requested, native, holder, answered, failures, reader>>
  PROVE  SentInv'
<1> USE DEF SentInv
<1> DEFINE d == calls[t]
<1>1. holder = t /\ holder # None /\ d \in CallRecords /\ d.op = op /\ d.at = "Locked"
      /\ ~writer.closed
  BY HoldsLock DEF Open
<1>2. PICK c \in CallRecords :
        /\ calls' = [calls EXCEPT ![t] = c]
        /\ Moved(d, c, at, d.sequence, d.sent, d.ok)
  <2>1. CASE at = "Flush"
    BY <2>1, <1>1, GoesMoves
  <2>2. CASE at = "Done"
    BY <2>2, <1>1, GoesMoves
  <2> QED
    BY <2>1, <2>2
<1>3. CallShape(d)
  BY <1>1 DEF CallInv
<1>4. CallShape(c)
  BY <1>1, <1>2, <1>3 DEF CallShape, Moved
<1>5. WriteInv(c)' /\ FlushedInv(c)'
  BY <1>1, <1>2 DEF WriteInv, FlushedInv, Moved
<1> QED
  BY <1>1, <1>2, <1>4, <1>5, Continuing DEF ConnectionTypeOK, Moved

LEMMA SentSettings ==
  ASSUME SentInv, NEW t \in Threads, StartsFlush(t) \/ SwitchesMode(t) \/ SetsLimit(t)
  PROVE  SentInv'
<1>1. writer \in WriterStates /\ (Open => ~writer.closed)
  BY DEF SentInv, ConnectionTypeOK, Open
<1>2. CASE StartsFlush(t)
  BY <1>1, <1>2, SentStarts DEF StartsFlush
<1>3. CASE SwitchesMode(t)
  <2>1. CASE FlushesFirst(calls[t].mode)
    BY <1>1, <1>3, <2>1, SentStarts DEF SwitchesMode
  <2>2. CASE ~FlushesFirst(calls[t].mode)
    <3>1. calls[t].mode \in Modes \union {None}
      BY <1>3, HoldsLock DEF SwitchesMode, SentInv, CallRecords
    <3>2. writer' \in WriterStates /\ (Open => ~writer'.closed)
      BY <1>1, <1>3, <2>2, <3>1, WriterSwitches DEF SwitchesMode
    <3> QED
      BY <1>3, <2>2, <3>2, SentStarts DEF SwitchesMode
  <2> QED
    BY <2>1, <2>2
<1>4. CASE SetsLimit(t)
  <2>1. writer' \in WriterStates /\ (Open => ~writer'.closed)
    <3>1. PICK limit \in BodyLimits : writer' = [writer EXCEPT !.send_body_limit = limit]
      BY <1>4 DEF SetsLimit
    <3>2. limit \in Nat
      BY ConnectionAssumption
    <3>3. [writer EXCEPT !.send_body_limit = limit] \in WriterStates
          /\ [writer EXCEPT !.send_body_limit = limit].closed = writer.closed
      BY <1>1, <3>2, WriterCounts
    <3> QED
      BY <1>1, <3>1, <3>3
  <2> QED
    BY <1>4, <2>1, SentStarts DEF SetsLimit
<1> QED
  BY <1>2, <1>3, <1>4

LEMMA SentDone ==
  ASSUME SentInv, NEW t \in Threads, Done(t)
  PROVE  SentInv'
<1> USE DEF SentInv
<1> DEFINE d == calls[t]
           answer == [sequence |-> d.sequence, body |-> d.record.body,
                      checkpoint |-> d.record.checkpoint]
<1>1. holder = t /\ holder # None /\ d \in CallRecords /\ d.at = "Done" /\ ~writer.closed
  BY HoldsLock DEF Done
<1>2. /\ holder' = None /\ Returns(t)
      /\ answered' = IF d.op # "Write" THEN answered ELSE answered \union {answer}
      /\ UNCHANGED <<transport, requested, native, writer, failures, reader>>
  BY DEF Done
<1>3. CASE d.op # "Write"
  BY <1>1, <1>2, <1>3, SentReturn
<1>4. CASE d.op = "Write"
  <2>1. d.record \in Records /\ d.sequence \in Nat /\ d.record.body \in Nat
    BY <1>1, <1>4, WritesRecord
  <2>2. answer \in Answer /\ d.record.checkpoint \in BOOLEAN
    BY <2>1 DEF Answer, Records
  <2>3. \A stream : Whole(answer, stream) <=> Whole(RecordOf(d), stream)
    BY DEF Whole, RecordOf
  <2>4. WriteInv(d)
    BY <1>1 DEF CallInv
  <2>5. /\ Whole(answer, Stream)
        /\ answer.checkpoint \/ transport.kind = "Native" => Whole(answer, transport.wire)
    BY <1>1, <1>4, <2>3, <2>4, StreamTyped DEF WriteInv
  <2> HIDE DEF answer
  <2>6. transport.kind \in {"Native", "Live"} /\ answer.checkpoint \in BOOLEAN
    BY <2>2 DEF ConnectionTypeOK, TransportStates, Answer
  <2>7. AnsweredInv'
    BY <1>2, <1>4, <2>5, <2>6 DEF AnsweredInv, Stream
  <2>8. answered' \subseteq Answer /\ IsFiniteSet(answered')
    BY <1>2, <1>4, <2>2, FS_AddElement DEF ConnectionTypeOK
  <2> QED
    BY <1>1, <1>2, <2>7, <2>8, Ending DEF ConnectionTypeOK, LockInv
<1> QED
  BY <1>3, <1>4

\* A step of a thread that does not hold the lock, in a call of shutdown.
LEMMA Aside ==
  ASSUME SentInv, NEW t \in Threads, holder # t, NEW c \in CallRecords \union {None},
         c # None => c.op = "Shutdown", calls' = [calls EXCEPT ![t] = c],
         requested', native' \in BOOLEAN, native' => native,
         transport' \in TransportStates, transport'.kind = transport.kind,
         transport'.wire = transport.wire, transport'.buffer = transport.buffer,
         transport'.cut => transport.cut \/ transport.kind = "Native",
         requested' \in BOOLEAN,
         UNCHANGED <<holder, writer, answered, failures, reader>>
  PROVE  SentInv'
<1>1. calls'[t] = c /\ \A u \in Threads \ {t} : calls'[u] = calls[u]
  BY DEF SentInv, ConnectionTypeOK
<1>2. ConnectionTypeOK'
  BY DEF SentInv, ConnectionTypeOK
<1>3. LockInv'
  BY <1>1, ConnectionAssumption DEF SentInv, LockInv, ConnectionTypeOK, TransportStates
<1>4. Stream' = Stream
  BY DEF Stream
<1>5. AnsweredInv'
  BY <1>4 DEF SentInv, AnsweredInv
<1>6. ASSUME holder # None
      PROVE  CallShape(calls[holder]) /\ WriteInv(calls[holder])' /\ FlushedInv(calls[holder])'
             /\ calls'[holder] = calls[holder]
  <2>1. holder \in Threads \ {t} /\ calls'[holder] = calls[holder]
    BY <1>1, <1>6 DEF SentInv, ConnectionTypeOK
  <2> QED
    BY <1>4, <1>6, <2>1 DEF SentInv, CallInv, WriteInv, FlushedInv
<1>7. CallInv'
  BY <1>6 DEF CallInv
<1> QED
  BY <1>2, <1>3, <1>5, <1>7 DEF SentInv

LEMMA SentShutdown ==
  ASSUME SentInv, NEW t \in Threads, Shutdown(t)
  PROVE  SentInv'
<1>1. Call("Shutdown") \in CallRecords /\ Call("Shutdown").op = "Shutdown"
  BY DEF Call, CallRecords
<1>2. holder # t
  BY ConnectionAssumption DEF Shutdown, SentInv, LockInv
<1> HIDE DEF Call
<1> QED
  BY <1>1, <1>2, Aside DEF Shutdown, SentInv, ConnectionTypeOK

LEMMA SentShutdownStep ==
  ASSUME SentInv, NEW t \in Threads, ShutdownStep(t)
  PROVE  SentInv'
<1> USE DEF SentInv
<1> DEFINE d == calls[t]
<1>1. d \in CallRecords /\ d.op = "Shutdown" /\ requested /\ holder # t
  BY ConnectionAssumption
     DEF ShutdownStep, TakesHandle, LeavesToHolder, In, LockInv, ConnectionTypeOK
<1>2. CASE TakesHandle(t)
  <2> DEFINE at == IF native THEN "TryLock" ELSE "Lock"
             fields == [kind |-> transport.kind, buffer |-> transport.buffer,
                        wire |-> transport.wire, cut |-> transport.cut \/ native]
  <2>1. at \in {"TryLock", "Lock"} /\ Goes(t, at)
    BY <1>2 DEF TakesHandle
  <2> HIDE DEF at
  <2>2. PICK c \in CallRecords :
          /\ calls' = [calls EXCEPT ![t] = c]
          /\ Moved(d, c, at, d.sequence, d.sent, d.ok)
    <3>1. CASE at = "TryLock"
      BY <3>1, <2>1, <1>1, GoesMoves
    <3>2. CASE at = "Lock"
      BY <3>2, <2>1, <1>1, GoesMoves
    <3> QED
      BY <3>1, <3>2, <2>1
  <2>3. c.op = "Shutdown"
    BY <1>1, <2>2 DEF Moved
  <2>4. fields \in TransportStates
    BY DEF ConnectionTypeOK, TransportStates
  <2>5. transport' = fields
    BY <1>2 DEF TakesHandle, ConnectionTypeOK, TransportStates
  <2>6. /\ transport' \in TransportStates /\ transport'.kind = transport.kind
        /\ transport'.wire = transport.wire /\ transport'.buffer = transport.buffer
        /\ transport'.cut => transport.cut \/ native
    BY <2>4, <2>5
  <2>7. native' \in BOOLEAN /\ ~native'
        /\ UNCHANGED <<requested, holder, writer, answered, failures, reader>>
    BY <1>2 DEF TakesHandle
  <2> HIDE DEF d
  <2> QED
    BY <1>1, <2>2, <2>3, <2>6, <2>7, Aside DEF LockInv, ConnectionTypeOK
<1>3. CASE LeavesToHolder(t)
  BY <1>1, <1>3, Aside DEF LeavesToHolder, Returns, ConnectionTypeOK
<1>4. CASE Closes(t)
  <2>1. /\ holder = None /\ writer' = Closed(writer) /\ transport' = Dropped(transport)
        /\ calls' = [calls EXCEPT ![t] = None]
        /\ UNCHANGED <<requested, native, holder, answered, failures, reader>>
    BY <1>4 DEF Closes, Returns
  <2>2. /\ transport' \in TransportStates /\ transport'.kind = transport.kind
        /\ transport'.buffer = <<>> /\ writer' \in WriterStates /\ writer'.closed
        /\ AnsweredInv'
    BY <1>1, <2>1, SentCloses
  <2>3. ConnectionTypeOK'
    BY <2>1, <2>2 DEF ConnectionTypeOK
  <2>4. LockInv'
    BY <1>1, <2>1, <2>2, ConnectionAssumption DEF LockInv, ConnectionTypeOK
  <2>5. CallInv'
    BY <2>1 DEF CallInv
  <2> QED
    BY <2>2, <2>3, <2>4, <2>5
<1> QED
  BY <1>2, <1>3, <1>4 DEF ShutdownStep

(***************************************************************************)
(* The reader's steps.                                                     *)
(***************************************************************************)
ReaderAt(limit, state, taken, sequence, left, intact, read) ==
  [state |-> state, taken |-> taken, sequence |-> sequence, left |-> left, limit |-> limit,
   intact |-> intact, read |-> read]

LEMMA ReaderIsRecord ==
  ASSUME NEW r \in ReaderStates
  PROVE  r = ReaderAt(r.limit, r.state, r.taken, r.sequence, r.left, r.intact, r.read)
BY DEF ReaderStates, ReaderAt

LEMMA Completes ==
  ASSUME NEW limit, NEW state, NEW taken, NEW sequence, NEW left, NEW intact, NEW read
  PROVE  Completed(ReaderAt(limit, state, taken, sequence, left, intact, read)) =
           IF left = 0
             THEN ReaderAt(limit, "Header", taken, sequence, left, intact, Append(read, sequence))
             ELSE ReaderAt(limit, "Body", taken, sequence, left, intact, read)
<1> DEFINE r == ReaderAt(limit, state, taken, sequence, left, intact, read)
<1>1. r.left = left /\ r.sequence = sequence /\ r.read = read
  BY DEF ReaderAt
<1>2. CASE left = 0
  <2>1. [r EXCEPT !.state = "Header"]
          = ReaderAt(limit, "Header", taken, sequence, left, intact, read)
    BY DEF ReaderAt
  <2> DEFINE h == ReaderAt(limit, "Header", taken, sequence, left, intact, read)
             longer == Append(read, sequence)
  <2> HIDE DEF longer
  <2>2. [h EXCEPT !.read = longer]
          = ReaderAt(limit, "Header", taken, sequence, left, intact, longer)
    BY DEF ReaderAt
  <2>3. [r EXCEPT !.state = "Header", !.read = Append(@, r.sequence)]
          = [[r EXCEPT !.state = "Header"] EXCEPT !.read = longer]
    BY <1>1 DEF ReaderAt, longer
  <2> HIDE DEF r, h
  <2> QED
    BY <1>1, <1>2, <2>1, <2>2, <2>3 DEF Completed, r, h, longer
<1>3. CASE left # 0
  <2>1. [r EXCEPT !.state = "Body"] = ReaderAt(limit, "Body", taken, sequence, left, intact, read)
    BY DEF ReaderAt
  <2> QED
    BY <1>1, <1>3, <2>1 DEF Completed
<1> QED
  BY <1>2, <1>3

LEMMA ReadsHeader ==
  ASSUME ConnectionTypeOK, ReadHeader
  PROVE  LET r == reader IN
         /\ r.taken + 1 \in 1..Len(transport.wire) /\ Next1 \in Unit /\ r.state = "Header"
         /\ IF ~AcceptsHeader(Next1)
              THEN reader' = ReaderAt(r.limit, "Refused", r.taken, r.sequence, r.left, r.intact,
                                      r.read)
              ELSE IF Next1.body = 0
                     THEN reader' = ReaderAt(r.limit, "Header", r.taken + 1, Next1.sequence,
                                             0, r.intact, Append(r.read, Next1.sequence))
                     ELSE reader' = ReaderAt(r.limit, "Body", r.taken + 1, Next1.sequence,
                                             Next1.body, r.intact, r.read)
<1> DEFINE r == reader
           unit == Next1
           next == [r EXCEPT !.taken = @ + 1, !.sequence = unit.sequence, !.left = unit.body]
<1>1. r \in ReaderStates /\ r.taken \in Nat /\ transport.wire \in Seq(Unit)
  BY DEF ConnectionTypeOK, ReaderStates, TransportStates
<1>2. r.taken + 1 \in 1..Len(transport.wire) /\ unit \in Unit
  <2>1. r.taken + 1 \in 1..Len(transport.wire)
    BY <1>1 DEF ReadHeader, Available
  <2> QED
    BY <1>1, <2>1, ElementOfSeq DEF Next1
<1> HIDE DEF unit
<1>3. next = ReaderAt(r.limit, r.state, r.taken + 1, unit.sequence, unit.body, r.intact, r.read)
  <2> DEFINE a == ReaderAt(r.limit, r.state, r.taken, r.sequence, r.left, r.intact, r.read)
             taken == r.taken + 1
             b == ReaderAt(r.limit, r.state, taken, r.sequence, r.left, r.intact, r.read)
             sequence == unit.sequence
             c == ReaderAt(r.limit, r.state, taken, sequence, r.left, r.intact, r.read)
             left == unit.body
             d == ReaderAt(r.limit, r.state, taken, sequence, left, r.intact, r.read)
  <2>1. r = a
    BY <1>1, ReaderIsRecord
  <2> HIDE DEF taken, sequence, left
  <2>2. [a EXCEPT !.taken = taken] = b
    BY DEF ReaderAt
  <2>3. [b EXCEPT !.sequence = sequence] = c
    BY DEF ReaderAt
  <2>4. [c EXCEPT !.left = left] = d
    BY DEF ReaderAt
  <2>5. next = [[[r EXCEPT !.taken = taken] EXCEPT !.sequence = sequence] EXCEPT !.left = left]
    BY DEF taken, sequence, left
  <2> HIDE DEF a, b, c, d, next
  <2>6. next = d
    BY <2>1, <2>2, <2>3, <2>4, <2>5
  <2> QED
    BY <2>6 DEF d, taken, sequence, left
<1>4. /\ r.state = "Header"
      /\ reader' = IF AcceptsHeader(unit) THEN Completed(next) ELSE [r EXCEPT !.state = "Refused"]
  BY DEF ReadHeader, unit
<1> HIDE DEF next
<1>5. Completed(next) =
        IF unit.body = 0
          THEN ReaderAt(r.limit, "Header", r.taken + 1, unit.sequence, 0, r.intact,
                        Append(r.read, unit.sequence))
          ELSE ReaderAt(r.limit, "Body", r.taken + 1, unit.sequence, unit.body, r.intact, r.read)
  BY <1>3, Completes
<1>6. [r EXCEPT !.state = "Refused"]
        = ReaderAt(r.limit, "Refused", r.taken, r.sequence, r.left, r.intact, r.read)
  BY <1>1, ReaderIsRecord DEF ReaderAt
<1> QED
  BY <1>2, <1>4, <1>5, <1>6 DEF unit

LEMMA ReadsBody ==
  ASSUME ConnectionTypeOK, ReadBody
  PROVE  LET r == reader
             intact == r.intact /\ Next1.sequence = r.sequence /\ Next1.piece > 0 IN
         /\ r.taken + 1 \in 1..Len(transport.wire) /\ Next1 \in Unit /\ r.state = "Body"
         /\ IF r.left = 1
              THEN reader' = ReaderAt(r.limit, "Header", r.taken + 1, r.sequence, 0, intact,
                                      Append(r.read, r.sequence))
              ELSE reader' = ReaderAt(r.limit, "Body", r.taken + 1, r.sequence, r.left - 1,
                                      intact, r.read)
<1> DEFINE r == reader
           whether == r.intact /\ Next1.sequence = r.sequence /\ Next1.piece > 0
           next == [r EXCEPT !.taken = @ + 1, !.left = @ - 1,
                             !.intact = @ /\ Next1.sequence = r.sequence /\ Next1.piece > 0]
<1>1. r \in ReaderStates /\ r.taken \in Nat /\ r.left \in Nat /\ transport.wire \in Seq(Unit)
  BY DEF ConnectionTypeOK, ReaderStates, TransportStates
<1>2. r.taken + 1 \in 1..Len(transport.wire) /\ Next1 \in Unit
  <2>1. r.taken + 1 \in 1..Len(transport.wire)
    BY <1>1 DEF ReadBody, Available
  <2> QED
    BY <1>1, <2>1, ElementOfSeq DEF Next1
<1>3. next = ReaderAt(r.limit, r.state, r.taken + 1, r.sequence, r.left - 1, whether, r.read)
  <2> DEFINE a == ReaderAt(r.limit, r.state, r.taken, r.sequence, r.left, r.intact, r.read)
             taken == r.taken + 1
             b == ReaderAt(r.limit, r.state, taken, r.sequence, r.left, r.intact, r.read)
             left == r.left - 1
             c == ReaderAt(r.limit, r.state, taken, r.sequence, left, r.intact, r.read)
             intact == whether
             d == ReaderAt(r.limit, r.state, taken, r.sequence, left, intact, r.read)
  <2>1. r = a
    BY <1>1, ReaderIsRecord
  <2> HIDE DEF taken, left
  <2>2. [a EXCEPT !.taken = taken] = b
    BY DEF ReaderAt
  <2>3. [b EXCEPT !.left = left] = c
    BY DEF ReaderAt
  <2>4. [c EXCEPT !.intact = intact] = d
    <3> HIDE DEF intact
    <3> QED
      BY DEF ReaderAt
  <2>5. next = [[[r EXCEPT !.taken = taken] EXCEPT !.left = left] EXCEPT !.intact = intact]
    BY DEF taken, left
  <2> HIDE DEF a, b, c, d, next, intact
  <2>6. next = d
    BY <2>1, <2>2, <2>3, <2>4, <2>5
  <2> QED
    BY <2>6 DEF d, taken, left, intact
<1>4. r.state = "Body" /\ reader' = Completed(next)
  BY DEF ReadBody
<1> HIDE DEF next, whether
<1>5. Completed(next) =
        IF r.left - 1 = 0
          THEN ReaderAt(r.limit, "Header", r.taken + 1, r.sequence, r.left - 1, whether,
                        Append(r.read, r.sequence))
          ELSE ReaderAt(r.limit, "Body", r.taken + 1, r.sequence, r.left - 1, whether, r.read)
  <2>1. PICK intact \in BOOLEAN : intact = whether
    BY DEF whether
  <2> DEFINE left == r.left - 1
             taken == r.taken + 1
             at == ReaderAt(r.limit, r.state, taken, r.sequence, left, intact, r.read)
  <2>2. next = at
    BY <1>3, <2>1
  <2> HIDE DEF left, taken
  <2>3. Completed(at) =
          IF left = 0
            THEN ReaderAt(r.limit, "Header", taken, r.sequence, left, intact,
                          Append(r.read, r.sequence))
            ELSE ReaderAt(r.limit, "Body", taken, r.sequence, left, intact, r.read)
    BY Completes
  <2> HIDE DEF at
  <2> QED
    BY <2>1, <2>2, <2>3 DEF left, taken
<1>6. r.left - 1 = 0 <=> r.left = 1
  BY <1>1
<1> QED
  BY <1>2, <1>4, <1>5, <1>6 DEF whether

LEMMA ReaderTyped ==
  ASSUME ConnectionTypeOK, ReadHeader \/ ReadBody
  PROVE  reader' \in ReaderStates /\ (reader'.state = "Body" => reader'.left > 0)
<1>1. /\ reader.limit \in Nat /\ reader.taken \in Nat /\ reader.sequence \in Nat
      /\ reader.left \in Nat /\ reader.intact \in BOOLEAN /\ reader.read \in Seq(Nat)
      /\ reader.taken + 1 \in Nat
  BY DEF ConnectionTypeOK, ReaderStates
<1>2. CASE ReadHeader
  <2>1. Next1 \in Unit
    BY <1>2, ReadsHeader
  <2>2. Next1.sequence \in Nat /\ Next1.body \in Nat
    BY <2>1 DEF Unit
  <2>3. Append(reader.read, Next1.sequence) \in Seq(Nat)
    BY <1>1, <2>2
  <2>4. CASE ~AcceptsHeader(Next1)
    <3> DEFINE r == ReaderAt(reader.limit, "Refused", reader.taken, reader.sequence,
                             reader.left, reader.intact, reader.read)
    <3>1. reader' = r
      BY <1>2, <2>4, ReadsHeader
    <3>2. r \in ReaderStates /\ r.state = "Refused"
      BY <1>1 DEF ReaderAt, ReaderStates
    <3> QED
      BY <3>1, <3>2
  <2>5. CASE AcceptsHeader(Next1) /\ Next1.body = 0
    <3> DEFINE read == Append(reader.read, Next1.sequence)
               taken == reader.taken + 1
               r == ReaderAt(reader.limit, "Header", taken, Next1.sequence, 0,
                             reader.intact, read)
    <3>1. reader' = r
      BY <1>2, <2>5, ReadsHeader
    <3> HIDE DEF read, taken
    <3>2. r \in ReaderStates /\ r.state = "Header"
      BY <1>1, <2>2, <2>3 DEF read, taken, ReaderAt, ReaderStates
    <3> QED
      BY <3>1, <3>2
  <2>6. CASE AcceptsHeader(Next1) /\ Next1.body # 0
    <3> DEFINE taken == reader.taken + 1
               r == ReaderAt(reader.limit, "Body", taken, Next1.sequence, Next1.body,
                             reader.intact, reader.read)
    <3>1. reader' = r
      BY <1>2, <2>6, ReadsHeader
    <3>2. r \in ReaderStates /\ r.left = Next1.body /\ Next1.body > 0
      BY <1>1, <2>2, <2>6 DEF ReaderAt, ReaderStates
    <3> QED
      BY <3>1, <3>2
  <2> QED
    BY <2>4, <2>5, <2>6
<1>3. CASE ReadBody
  <2>1. PICK intact \in BOOLEAN :
          IF reader.left = 1
            THEN reader' = ReaderAt(reader.limit, "Header", reader.taken + 1, reader.sequence, 0,
                                    intact, Append(reader.read, reader.sequence))
            ELSE reader' = ReaderAt(reader.limit, "Body", reader.taken + 1, reader.sequence,
                                    reader.left - 1, intact, reader.read)
    BY <1>3, ReadsBody
  <2>2. reader.left > 0
    BY <1>3 DEF ReadBody, ConnectionTypeOK
  <2>3. CASE reader.left = 1
    <3>1. Append(reader.read, reader.sequence) \in Seq(Nat)
      BY <1>1
    <3> QED
      <4> DEFINE r == ReaderAt(reader.limit, "Header", reader.taken + 1, reader.sequence, 0,
                               intact, Append(reader.read, reader.sequence))
      <4>1. reader' = r
        BY <2>1, <2>3
      <4>2. r \in ReaderStates /\ r.state = "Header"
        BY <1>1, <3>1 DEF ReaderAt, ReaderStates
      <4> QED
        BY <4>1, <4>2
  <2>4. CASE reader.left # 1
    <3>1. reader.left - 1 \in Nat /\ reader.left - 1 > 0
      BY <1>1, <2>2, <2>4
    <3> QED
      <4> DEFINE r == ReaderAt(reader.limit, "Body", reader.taken + 1, reader.sequence,
                               reader.left - 1, intact, reader.read)
      <4>1. reader' = r
        BY <2>1, <2>4
      <4>2. r \in ReaderStates /\ r.left = reader.left - 1
        BY <1>1, <3>1 DEF ReaderAt, ReaderStates
      <4> QED
        BY <3>1, <4>1, <4>2
  <2> QED
    BY <2>3, <2>4
<1> QED
  BY <1>2, <1>3

LEMMA SentRead ==
  ASSUME SentInv, ReadHeader \/ ReadBody
  PROVE  SentInv'
<1>1. UNCHANGED <<transport, requested, native, holder, writer, calls, answered, failures>>
  BY DEF ReadHeader, ReadBody
<1>2. ConnectionTypeOK'
  BY <1>1, ReaderTyped DEF SentInv, ConnectionTypeOK
<1>3. LockInv'
  BY <1>1 DEF SentInv, LockInv
<1>4. CallInv'
  BY <1>1 DEF SentInv, CallInv, WriteInv, FlushedInv, Stream
<1>5. AnsweredInv'
  BY <1>1 DEF SentInv, AnsweredInv, Stream
<1> QED
  BY <1>2, <1>3, <1>4, <1>5 DEF SentInv

LEMMA SentInit ==
  ASSUME ConnectionInit
  PROVE  SentInv
<1>1. PICK kind \in Transports :
        transport = [kind |-> kind, buffer |-> <<>>, wire |-> <<>>, cut |-> FALSE]
  BY DEF ConnectionInit
<1>2. transport \in TransportStates
  BY <1>1, ConnectionAssumption DEF TransportStates
<1>3. PICK limit \in BodyLimits :
        /\ writer = NewWriter(limit)
        /\ reader = [state |-> "Header", taken |-> 0, sequence |-> 0, left |-> 0,
                     limit |-> limit, intact |-> TRUE, read |-> <<>>]
  BY DEF ConnectionInit
<1>4. limit \in Nat
  BY ConnectionAssumption
<1>5. writer \in WriterStates
  BY <1>3, <1>4 DEF NewWriter, WriterStates, Modes
<1>6. reader \in ReaderStates /\ reader.state = "Header"
  BY <1>3, <1>4 DEF ReaderStates
<1>7. /\ requested = FALSE /\ native = (transport.kind = "Native") /\ holder = None
      /\ failures = 0 /\ calls = [t \in Threads |-> None] /\ answered = {}
  BY DEF ConnectionInit
<1>8. ConnectionTypeOK
  BY <1>2, <1>5, <1>6, <1>7, FS_EmptySet DEF ConnectionTypeOK
<1>9. LockInv
  BY <1>1, <1>7 DEF LockInv
<1> QED
  BY <1>7, <1>8, <1>9 DEF SentInv, CallInv, AnsweredInv

LEMMA SentStep ==
  ASSUME SentInv, [ConnectionNext]_connectionVars
  PROVE  SentInv'
<1>1. CASE UNCHANGED connectionVars
  BY <1>1 DEF connectionVars, SentInv, ConnectionTypeOK, LockInv, CallInv, WriteInv, FlushedInv,
              AnsweredInv, Stream
<1>2. ASSUME NEW t \in Threads, NEW record \in Records, Write(t, record)
      PROVE  SentInv'
  BY <1>2, SentBegin DEF Write
<1>3. ASSUME NEW t \in Threads, NEW mode \in Modes, SetFlushMode(t, mode)
      PROVE  SentInv'
  BY <1>3, SentBegin DEF SetFlushMode
<1>4. ASSUME NEW t \in Threads, Flush(t) \/ SetSendBodyLimit(t)
      PROVE  SentInv'
  BY <1>4, SentBegin DEF Flush, SetSendBodyLimit
<1>5. ASSUME NEW t \in Threads,
             \/ Refused(t) \/ WriteTooLong(t) \/ Sequence(t) \/ Transfer(t) \/ TransferFails(t)
             \/ Cancelled(t) \/ WriteFailed(t) \/ Wrote(t)
      PROVE  SentInv'
  BY <1>5, SentReturns, SentSequence, SentTransfer, SentTransferFails, SentCancelled, SentWrote
<1>6. ASSUME NEW t \in Threads,
             \/ FlushTransfer(t) \/ FlushEnds(t) \/ FlushFails(t) \/ FlushFailed(t)
             \/ FlushSucceeded(t) \/ StartsFlush(t) \/ SwitchesMode(t) \/ SetsLimit(t) \/ Done(t)
      PROVE  SentInv'
  BY <1>6, SentFlushTransfer, SentFlushEnds, SentFlushFails, SentReturns, SentFlushSucceeded,
     SentSettings, SentDone
<1>7. ASSUME NEW t \in Threads, Shutdown(t) \/ ShutdownStep(t)
      PROVE  SentInv'
  BY <1>7, SentShutdown, SentShutdownStep
<1>8. CASE ReadHeader \/ ReadBody
  BY <1>8, SentRead
<1> QED
  BY <1>1, <1>2, <1>3, <1>4, <1>5, <1>6, <1>7, <1>8 DEF ConnectionNext

\* The types of the connection's state, for every instance.
THEOREM ConnectionTyped == ConnectionSpec => []ConnectionTypeOK
<1>1. SentInv => ConnectionTypeOK
  BY DEF SentInv
<1> QED
  BY <1>1, SentInit, SentStep, PTL DEF ConnectionSpec

\* A record whose caller was told Ok is on the wire, whole, whatever the
\* threads, the transport and the shutdown do in between (write_record_parts,
\* wire.rs); only a batched one may wait in an adapter.
THEOREM ConnectionOkMeansSent == ConnectionSpec => []OkMeansSent
<1>1. SentInv => OkMeansSent
  BY DEF SentInv, AnsweredInv, OkMeansSent, Stream
<1> QED
  BY <1>1, SentInit, SentStep, PTL DEF ConnectionSpec

(***************************************************************************)
(* FlushedInTime.                                                          *)
(***************************************************************************)
LEMMA WaitingFinite ==
  ASSUME ConnectionTypeOK
  PROVE  IsFiniteSet(Waiting) /\ Cardinality(Waiting) \in Nat
<1>1. Waiting \subseteq answered /\ IsFiniteSet(answered)
  BY DEF Waiting, ConnectionTypeOK
<1> QED
  BY <1>1, FS_Subset, FS_CardinalityType

LEMMA WaitingShrinks ==
  ASSUME ConnectionTypeOK, UNCHANGED answered,
         \A record \in answered : Whole(record, transport.wire) => Whole(record, transport'.wire)
  PROVE  /\ Waiting' \subseteq Waiting
         /\ Cardinality(Waiting') \in Nat /\ Cardinality(Waiting') <= Cardinality(Waiting)
<1>1. Waiting' \subseteq Waiting
  BY DEF Waiting
<1>2. IsFiniteSet(Waiting) /\ Cardinality(Waiting) \in Nat
  BY WaitingFinite
<1> HIDE DEF Waiting
<1> QED
  BY <1>1, <1>2, FS_Subset, FS_CardinalityType

\* A step that neither answers a record nor brings a write to its end.
LEMMA FlushStill ==
  ASSUME FlushInv, UNCHANGED answered,
         \A record \in answered : Whole(record, transport.wire) => Whole(record, transport'.wire),
         writer' \in WriterStates, writer'.closed = writer.closed,
         writer'.unflushed = writer.unflushed, writer'.flush_mode = writer.flush_mode,
         \/ holder' = None \/ calls'[holder'].op # "Write" \/ calls'[holder'].at # "Done"
         \/ /\ holder' = holder /\ calls'[holder] = calls[holder]
            /\ transport'.wire = transport.wire
  PROVE  WaitingInv' /\ RoomInv'
<1>1. /\ Waiting' \subseteq Waiting
      /\ Cardinality(Waiting)' \in Nat /\ Cardinality(Waiting)' <= Cardinality(Waiting)
      /\ Cardinality(Waiting) \in Nat
  BY WaitingShrinks, WaitingFinite DEF FlushInv, SentInv
<1>2. writer.unflushed \in Nat /\ BatchLimit \in Nat
  BY ConnectionAssumption DEF FlushInv, SentInv, ConnectionTypeOK, WriterStates
<1>3. WaitingInv'
  BY <1>1, <1>2 DEF FlushInv, WaitingInv
<1>4. RoomInv'
  BY <1>1, <1>2 DEF FlushInv, RoomInv
<1> QED
  BY <1>3, <1>4

LEMMA FlushWrote ==
  ASSUME FlushInv, NEW t \in Threads, Wrote(t)
  PROVE  WaitingInv' /\ RoomInv'
<1> DEFINE d == calls[t]
           n == writer.unflushed + 1
<1>1. /\ writer' = [writer EXCEPT !.unflushed = n] /\ ~writer.closed
      /\ calls'[t] = [d EXCEPT !.at = IF MustFlush(d.record, n) THEN "Flush" ELSE "Done"]
      /\ holder = t /\ holder' = t /\ UNCHANGED <<transport, answered>>
      /\ d \in CallRecords
  BY HoldsLock DEF Wrote, NotCancelled, FlushInv, SentInv, ConnectionTypeOK, Goes
<1>2. writer \in WriterStates /\ writer.unflushed \in Nat /\ n \in Nat /\ BatchLimit \in Nat
  BY ConnectionAssumption DEF FlushInv, SentInv, ConnectionTypeOK, WriterStates
<1>3. /\ writer'.unflushed = n /\ writer'.flush_mode = writer.flush_mode
  BY <1>1, <1>2, WriterCounts
<1>4. Waiting' = Waiting /\ Cardinality(Waiting) \in Nat
  BY <1>1, WaitingFinite DEF Waiting, FlushInv, SentInv
<1>5. WaitingInv'
  BY <1>1, <1>2, <1>3, <1>4 DEF FlushInv, WaitingInv
<1>6. calls'[t].at = "Done" => ~MustFlush(d.record, n)
  BY <1>1 DEF CallRecords
<1>7. ~MustFlush(d.record, n) => writer.flush_mode = "Batched" /\ n < BatchLimit
  BY <1>2 DEF MustFlush, WriterStates, Modes
<1>8. Cardinality(Waiting) < n
  BY <1>1, <1>2, <1>4 DEF FlushInv, WaitingInv
<1>9. RoomInv'
  BY <1>1, <1>3, <1>4, <1>6, <1>7, <1>8 DEF RoomInv
<1> QED
  BY <1>5, <1>9

\* When the buffer is empty, nothing that was answered waits.
LEMMA EmptyBuffer ==
  ASSUME SentInv, ~writer.closed, transport.buffer = <<>>
  PROVE  Waiting = {} /\ Stream = transport.wire
<1>1. transport.wire \o <<>> = transport.wire
  BY StreamTyped DEF SentInv
<1> QED
  BY <1>1 DEF SentInv, AnsweredInv, Waiting, Stream

LEMMA FlushFlushSucceeded ==
  ASSUME FlushInv, NEW t \in Threads, FlushSucceeded(t)
  PROVE  WaitingInv' /\ RoomInv'
<1> DEFINE d == calls[t]
           w == [writer EXCEPT !.unflushed = 0]
<1>1. /\ writer' = Switched(w, d.mode) /\ ~writer.closed
      /\ calls'[t] = [d EXCEPT !.at = "Done"] /\ d.at = "Flushed" /\ d.ok
      /\ holder = t /\ holder' = t /\ holder # None /\ UNCHANGED <<transport, answered>>
      /\ d \in CallRecords
  BY HoldsLock DEF FlushSucceeded, AfterFlush, FlushInv, SentInv, ConnectionTypeOK, Goes
<1>2. writer \in WriterStates /\ d.mode \in Modes \union {None}
  BY <1>1 DEF FlushInv, SentInv, ConnectionTypeOK, CallRecords
<1>3. w \in WriterStates /\ w.unflushed = 0
  BY <1>2, WriterCounts
<1> HIDE DEF w
<1>4. writer'.unflushed = 0
  BY <1>1, <1>2, <1>3, WriterSwitches
<1>5. WriteInv(d) /\ transport.buffer = <<>>
  BY <1>1 DEF FlushInv, SentInv, CallInv, FlushedInv
<1>6. Waiting' = {} /\ Stream = transport.wire
  BY <1>1, <1>5, EmptyBuffer DEF FlushInv, SentInv, Waiting
<1>7. Cardinality({}) = 0 /\ BatchLimit \in Nat \ {0}
  BY FS_EmptySet, ConnectionAssumption
<1>8. WaitingInv'
  BY <1>4, <1>6, <1>7 DEF WaitingInv
<1>9. RoomInv'
  <2>1. calls'[t].op = d.op /\ RecordOf(calls'[t]) = RecordOf(d)
    BY <1>1 DEF CallRecords, RecordOf
  <2> QED
    BY <1>1, <1>5, <1>6, <2>1 DEF RoomInv, WriteInv
<1> QED
  BY <1>8, <1>9

LEMMA FlushSwitchesMode ==
  ASSUME FlushInv, NEW t \in Threads, SwitchesMode(t)
  PROVE  WaitingInv' /\ RoomInv'
<1> DEFINE d == calls[t]
<1>1. /\ holder = t /\ holder' = t /\ d \in CallRecords /\ d.op = "Mode"
      /\ calls'[t].op = "Mode" /\ ~writer.closed /\ UNCHANGED <<transport, answered>>
  <2>1. holder = t /\ d \in CallRecords /\ d.op = "Mode"
    BY HoldsLock DEF SwitchesMode, FlushInv, SentInv
  <2>2. PICK at \in {"Flush", "Done"} : Goes(t, at)
    BY DEF SwitchesMode
  <2>3. calls'[t].op = "Mode"
    BY <2>1, <2>2 DEF Goes, FlushInv, SentInv, ConnectionTypeOK, CallRecords
  <2> QED
    BY <2>1, <2>3 DEF SwitchesMode, Open
<1>2. RoomInv'
  BY <1>1 DEF RoomInv
<1>3. CASE FlushesFirst(d.mode)
  <2>1. writer' = writer /\ Waiting' = Waiting
    BY <1>1, <1>3 DEF SwitchesMode, Waiting
  <2> QED
    BY <1>2, <2>1 DEF FlushInv, WaitingInv
<1>4. CASE ~FlushesFirst(d.mode)
  <2>1. writer \in WriterStates /\ d.mode \in Modes \union {None} /\ writer.unflushed \in Nat
    BY <1>1 DEF FlushInv, SentInv, ConnectionTypeOK, CallRecords, WriterStates
  <2>2. writer' = Switched(writer, d.mode)
    BY <1>4 DEF SwitchesMode
  <2>3. /\ writer'.unflushed = writer.unflushed
        /\ writer'.flush_mode = IF d.mode = None THEN writer.flush_mode ELSE d.mode
    BY <2>1, <2>2, WriterSwitches
  <2>4. d.mode # None
    BY <1>1, ConnectionAssumption DEF FlushInv, SentInv, CallInv, CallShape, ConnectionTypeOK
  <2>5. Waiting' = Waiting /\ Cardinality(Waiting) \in Nat /\ IsFiniteSet(Waiting)
    BY <1>1, WaitingFinite DEF Waiting, FlushInv, SentInv
  <2>6. d.mode = "Immediate" => Waiting = {}
    <3> HAVE d.mode = "Immediate"
    <3>1. writer.unflushed = 0
      BY <1>4 DEF FlushesFirst
    <3>2. Cardinality(Waiting) = 0
      BY <1>1, <2>5, <3>1 DEF FlushInv, WaitingInv
    <3> QED
      BY <2>5, <3>2, FS_EmptySet
  <2>7. WaitingInv'
    BY <1>1, <2>3, <2>4, <2>5, <2>6 DEF FlushInv, WaitingInv
  <2> QED
    BY <1>2, <2>7
<1> QED
  BY <1>2, <1>3, <1>4

LEMMA FlushDone ==
  ASSUME FlushInv, NEW t \in Threads, Done(t)
  PROVE  WaitingInv' /\ RoomInv'
<1> DEFINE d == calls[t]
           answer == [sequence |-> d.sequence, body |-> d.record.body,
                      checkpoint |-> d.record.checkpoint]
<1>1. holder = t /\ holder # None /\ d \in CallRecords /\ d.at = "Done" /\ ~writer.closed
  BY HoldsLock DEF Done, FlushInv, SentInv
<1>2. /\ holder' = None
      /\ answered' = IF d.op # "Write" THEN answered ELSE answered \union {answer}
      /\ UNCHANGED <<transport, writer>>
  BY DEF Done
<1>3. RoomInv'
  BY <1>2 DEF RoomInv
<1>4. CASE d.op # "Write"
  BY <1>2, <1>3, <1>4 DEF FlushInv, WaitingInv, Waiting
<1>5. CASE d.op = "Write"
  <2>1. \A stream : Whole(answer, stream) <=> Whole(RecordOf(d), stream)
    BY DEF Whole, RecordOf
  <2> HIDE DEF answer
  <2>2. IsFiniteSet(Waiting) /\ Cardinality(Waiting) \in Nat
    BY WaitingFinite DEF FlushInv, SentInv
  <2>3. writer.unflushed \in Nat /\ BatchLimit \in Nat
    BY ConnectionAssumption DEF FlushInv, SentInv, ConnectionTypeOK, WriterStates
  <2>4. CASE Whole(answer, transport.wire)
    <3>1. Waiting' = Waiting
      BY <1>2, <1>5, <2>4 DEF Waiting
    <3> QED
      BY <1>2, <1>3, <3>1 DEF FlushInv, WaitingInv
  <2>5. CASE ~Whole(answer, transport.wire)
    <3>1. Waiting' = Waiting \union {answer}
      BY <1>2, <1>5, <2>5 DEF Waiting
    <3>2. Cardinality(Waiting)' \in Nat /\ Cardinality(Waiting)' <= Cardinality(Waiting) + 1
      BY <2>2, <3>1, FS_AddElement
    <3>3. /\ Cardinality(Waiting) < writer.unflushed /\ writer.unflushed < BatchLimit
          /\ writer.flush_mode = "Batched"
      BY <1>1, <1>5, <2>1, <2>5 DEF FlushInv, RoomInv
    <3>4. WaitingInv'
      BY <1>2, <2>2, <2>3, <3>2, <3>3 DEF WaitingInv
    <3> QED
      BY <1>3, <3>4
  <2> QED
    BY <2>4, <2>5
<1> QED
  BY <1>4, <1>5

\* A step that closes the writer leaves nothing to flush.
LEMMA FlushCloses ==
  ASSUME FlushInv, writer' = Closed(writer), holder' = None
  PROVE  WaitingInv' /\ RoomInv'
BY WriterCloses DEF FlushInv, SentInv, ConnectionTypeOK, WaitingInv, RoomInv

\* The calls of threads that do not hold the lock leave the holder's alone.
LEMMA OthersKept ==
  ASSUME ConnectionTypeOK, NEW t \in Threads, NEW c, calls' = [calls EXCEPT ![t] = c],
         holder \in Threads, holder # t
  PROVE  calls'[holder] = calls[holder]
BY DEF ConnectionTypeOK

LEMMA FlushBegin ==
  ASSUME FlushInv, NEW t \in Threads, NEW call,
         call \in {Call("Flush"), Call("Limit")}
           \/ (\E record \in Records : call = [Call("Write") EXCEPT !.record = record])
           \/ (\E mode \in Modes : call = [Call("Mode") EXCEPT !.mode = mode]),
         Begin(t, call)
  PROVE  WaitingInv' /\ RoomInv'
<1>1. PICK c \in CallRecords : c = [call EXCEPT !.at = "Locked"] /\ c.at = "Locked"
  BY CallsBegin
<1>2. /\ calls'[t] = c /\ holder' = t
      /\ UNCHANGED <<transport, writer, answered>>
  BY <1>1 DEF Begin, FlushInv, SentInv, ConnectionTypeOK
<1>3. WaitingInv'
  BY <1>2 DEF WaitingInv, Waiting, FlushInv
<1> QED
  BY <1>1, <1>2, <1>3 DEF RoomInv

\* A call that leaves the writer and the answers, and that ends or is not done.
LEMMA FlushStays ==
  ASSUME FlushInv, NEW t \in Threads,
         \/ Refused(t) \/ WriteTooLong(t) \/ WriteFailed(t) \/ FlushFailed(t)
         \/ Sequence(t) \/ TransferFails(t) \/ FlushEnds(t) \/ FlushFails(t)
         \/ StartsFlush(t) \/ SetsLimit(t)
  PROVE  WaitingInv' /\ RoomInv'
<1>0. ConnectionTypeOK /\ LockInv
  BY DEF FlushInv, SentInv
<1>1. writer \in WriterStates /\ UNCHANGED <<transport, answered>>
  BY <1>0 DEF ConnectionTypeOK, Refused, WriteTooLong, WriteFailed, FlushFailed, Sequence,
         TransferFails, FlushEnds, FlushFails, StartsFlush, SetsLimit
<1>2. /\ writer' \in WriterStates /\ writer'.closed = writer.closed
      /\ writer'.unflushed = writer.unflushed /\ writer'.flush_mode = writer.flush_mode
  <2>1. CASE Sequence(t)
    <3> DEFINE n == writer.send_sequence + 1
    <3>1. writer' = [writer EXCEPT !.send_sequence = n] /\ n \in Nat
      BY <1>1, <2>1 DEF Sequence, WriterStates
    <3> QED
      BY <1>1, <3>1, WriterCounts
  <2>2. CASE SetsLimit(t)
    <3>1. PICK limit \in BodyLimits : writer' = [writer EXCEPT !.send_body_limit = limit]
      BY <2>2 DEF SetsLimit
    <3>2. limit \in Nat
      BY ConnectionAssumption
    <3> QED
      BY <1>1, <3>1, <3>2, WriterCounts
  <2>3. CASE UNCHANGED writer
    BY <1>1, <2>3
  <2> QED
    BY <2>1, <2>2, <2>3 DEF Refused, WriteTooLong, WriteFailed, FlushFailed, TransferFails,
       FlushEnds, FlushFails, StartsFlush, AfterRefusal
<1>3. holder' = None \/ calls'[holder'].op # "Write" \/ calls'[holder'].at # "Done"
  <2>1. CASE Refused(t) \/ WriteTooLong(t) \/ WriteFailed(t) \/ FlushFailed(t)
    BY <2>1 DEF Refused, WriteTooLong, WriteFailed, FlushFailed
  <2>2. CASE Sequence(t)
    <3>1. holder' = t /\ calls[t] \in CallRecords
      BY <2>2, HoldsLock, <1>0 DEF Sequence
    <3> DEFINE n == writer.send_sequence + 1
    <3>2. n \in Nat /\ calls' = [calls EXCEPT ![t].at = "Write", ![t].sequence = n]
      BY <1>1, <2>2 DEF Sequence, WriterStates
    <3> HIDE DEF n
    <3>3. PICK c : calls' = [calls EXCEPT ![t] = c] /\ c.at = "Write"
      <4>1. PICK c \in CallRecords :
              /\ calls' = [calls EXCEPT ![t] = c]
              /\ Moved(calls[t], c, "Write", n, calls[t].sent, calls[t].ok)
        BY <1>0, <3>1, <3>2, SequenceMoves
      <4> QED
        BY <4>1 DEF Moved
    <3> QED
      BY <1>0, <3>1, <3>3 DEF ConnectionTypeOK
  <2>3. CASE TransferFails(t)
    <3>1. holder' = t /\ calls[t] \in CallRecords
      BY <2>3, HoldsLock, <1>0 DEF TransferFails
    <3>0. calls' = [calls EXCEPT ![t].at = "Written", ![t].ok = FALSE]
      BY <2>3 DEF TransferFails
    <3>2. PICK c : calls' = [calls EXCEPT ![t] = c] /\ c.at = "Written"
      BY <3>0, <3>1, <1>0, FailSets
    <3> QED
      BY <1>0, <3>1, <3>2 DEF ConnectionTypeOK
  <2>4. CASE FlushEnds(t)
    <3>1. holder' = t /\ calls[t] \in CallRecords
      BY <2>4, HoldsLock, <1>0 DEF FlushEnds
    <3>2. PICK c : calls' = [calls EXCEPT ![t] = c] /\ c.at = "Flushed"
      BY <2>4, <3>1, GoesMoves, <1>0 DEF Moved, FlushEnds
    <3> QED
      BY <1>0, <3>1, <3>2 DEF ConnectionTypeOK
  <2>5. CASE FlushFails(t)
    <3>1. holder' = t /\ calls[t] \in CallRecords
      BY <2>5, HoldsLock, <1>0 DEF FlushFails
    <3>0. calls' = [calls EXCEPT ![t].at = "Flushed", ![t].ok = FALSE]
      BY <2>5 DEF FlushFails
    <3>2. PICK c : calls' = [calls EXCEPT ![t] = c] /\ c.at = "Flushed"
      BY <3>0, <3>1, <1>0, FailSets
    <3> QED
      BY <1>0, <3>1, <3>2 DEF ConnectionTypeOK
  <2>6. CASE StartsFlush(t)
    <3>1. holder' = t /\ calls[t] \in CallRecords
      BY <2>6, HoldsLock, <1>0 DEF StartsFlush
    <3>2. PICK c : calls' = [calls EXCEPT ![t] = c] /\ c.at = "Flush"
      BY <2>6, <3>1, GoesMoves, <1>0 DEF Moved, StartsFlush
    <3> QED
      BY <1>0, <3>1, <3>2 DEF ConnectionTypeOK
  <2>7. CASE SetsLimit(t)
    <3>1. holder' = t /\ calls[t] \in CallRecords /\ calls[t].op = "Limit"
      BY <2>7, HoldsLock, <1>0 DEF SetsLimit
    <3>2. PICK c : calls' = [calls EXCEPT ![t] = c] /\ c.op = "Limit"
      BY <2>7, <3>1, GoesMoves, <1>0 DEF Moved, SetsLimit
    <3> QED
      BY <1>0, <3>1, <3>2 DEF ConnectionTypeOK
  <2> QED
    BY <2>1, <2>2, <2>3, <2>4, <2>5, <2>6, <2>7
<1>4. \A record \in answered : Whole(record, transport.wire) => Whole(record, transport'.wire)
  BY <1>1
<1> QED
  BY <1>1, <1>2, <1>3, <1>4, FlushStill

LEMMA FlushTransfers ==
  ASSUME FlushInv, NEW t \in Threads, Transfer(t) \/ FlushTransfer(t)
  PROVE  WaitingInv' /\ RoomInv'
<1> USE DEF FlushInv, SentInv
<1>1. writer \in WriterStates /\ UNCHANGED <<writer, answered, holder>>
  BY DEF ConnectionTypeOK, Transfer, FlushTransfer
<1>2. holder = t /\ calls[t] \in CallRecords
  BY HoldsLock DEF Transfer, FlushTransfer
<1>3. CASE Transfer(t)
  <2> DEFINE d == calls[t]
             unit == Units(d.sequence, d.record.body)[d.sent + 1]
             at == IF d.sent = d.record.body THEN "Written" ELSE "Write"
  <2>1. d.op = "Write" /\ d.sent <= d.record.body
    BY <1>3, HoldsLock DEF Transfer
  <2>2. d.sequence \in Nat /\ d.sent \in Nat /\ d.record.body \in Nat /\ d.sent + 1 \in Nat
    BY <1>2, <2>1, WritesRecord
  <2>3. unit \in Unit
    <3>1. Units(d.sequence, d.record.body) \in Seq(Unit)
          /\ Len(Units(d.sequence, d.record.body)) = d.record.body + 1
      BY <2>2, UnitsTyped
    <3>2. d.sent + 1 \in 1..Len(Units(d.sequence, d.record.body))
      BY <2>1, <2>2, <3>1, NextUnit
    <3> QED
      BY <3>1, <3>2, ElementOfSeq
  <2>4. Takes(unit) /\ calls' = Transferring(calls, t, d.sent + 1, at)
    BY <1>3 DEF Transfer, Transferring
  <2>5. at \in {"Write", "Written"}
    OBVIOUS
  <2> HIDE DEF unit, at
  <2>6. transport'.wire \in {transport.wire, Append(transport.wire, unit)}
    BY <2>3, <2>4, TakesUnit
  <2>7. PICK c : calls' = [calls EXCEPT ![t] = c] /\ c.at = at
    <3> DEFINE n == d.sent + 1
    <3>0. ConnectionTypeOK /\ n \in Nat /\ calls' = Transferring(calls, t, n, at)
      BY <2>2, <2>4
    <3> HIDE DEF n
    <3>1. PICK c \in CallRecords :
            /\ calls' = [calls EXCEPT ![t] = c]
            /\ Moved(d, c, at, d.sequence, n, d.ok)
      BY <1>2, <2>5, <3>0, TransferMoves
    <3> QED
      BY <3>1 DEF Moved
  <2>8. calls'[holder].at # "Done"
    BY <1>2, <2>5, <2>7 DEF ConnectionTypeOK
  <2>9. \A record \in answered : Whole(record, transport.wire) => Whole(record, transport'.wire)
    BY <2>3, <2>6, StreamTyped, AnswersTyped, WholeAppended
  <2> QED
    BY <1>1, <2>8, <2>9, FlushStill
<1>4. CASE FlushTransfer(t)
  <2>1. /\ calls' = calls /\ calls[holder].at = "Flush"
        /\ transport'.wire = Append(transport.wire, Head(transport.buffer))
        /\ Head(transport.buffer) \in Unit
    BY <1>2, <1>4, FlushesUnit, HoldsLock DEF FlushTransfer
  <2>2. \A record \in answered : Whole(record, transport.wire) => Whole(record, transport'.wire)
    BY <2>1, StreamTyped, AnswersTyped, WholeAppended
  <2> QED
    BY <1>1, <2>1, <2>2, FlushStill
<1> QED
  BY <1>3, <1>4

LEMMA FlushAside ==
  ASSUME FlushInv, NEW t \in Threads,
         Shutdown(t) \/ ShutdownStep(t) \/ Cancelled(t)
  PROVE  WaitingInv' /\ RoomInv'
<1> USE DEF FlushInv, SentInv
<1>1. CASE Cancelled(t)
  BY <1>1, FlushCloses DEF Cancelled
<1>2. CASE Shutdown(t) \/ TakesHandle(t) \/ LeavesToHolder(t)
  <2>1. UNCHANGED <<writer, answered, holder>> /\ transport'.wire = transport.wire
    BY <1>2 DEF Shutdown, TakesHandle, LeavesToHolder, ConnectionTypeOK, TransportStates
  <2>2. holder # t
    BY <1>2, ConnectionAssumption
       DEF Shutdown, TakesHandle, LeavesToHolder, In, LockInv, ConnectionTypeOK
  <2>3. \E c : calls' = [calls EXCEPT ![t] = c]
    BY <1>2 DEF Shutdown, TakesHandle, LeavesToHolder, Goes, Returns
  <2>4. holder = None \/ calls'[holder] = calls[holder]
    BY <2>2, <2>3, OthersKept DEF ConnectionTypeOK
  <2> QED
    BY <2>1, <2>4, FlushStill DEF ConnectionTypeOK
<1>3. CASE Closes(t)
  BY <1>3, FlushCloses DEF Closes
<1> QED
  BY <1>1, <1>2, <1>3 DEF ShutdownStep

LEMMA FlushRead ==
  ASSUME FlushInv, ReadHeader \/ ReadBody
  PROVE  WaitingInv' /\ RoomInv'
BY DEF ReadHeader, ReadBody, FlushInv, WaitingInv, RoomInv, Waiting

LEMMA FlushStep ==
  ASSUME FlushInv, [ConnectionNext]_connectionVars
  PROVE  FlushInv'
<1>1. SentInv'
  BY SentStep DEF FlushInv
<1>2. CASE UNCHANGED connectionVars
  BY <1>1, <1>2 DEF connectionVars, FlushInv, WaitingInv, Waiting, RoomInv
<1>3. ASSUME NEW t \in Threads, NEW record \in Records, Write(t, record)
      PROVE  WaitingInv' /\ RoomInv'
  BY <1>3, FlushBegin DEF Write
<1>4. ASSUME NEW t \in Threads, NEW mode \in Modes, SetFlushMode(t, mode)
      PROVE  WaitingInv' /\ RoomInv'
  BY <1>4, FlushBegin DEF SetFlushMode
<1>5. ASSUME NEW t \in Threads, Flush(t) \/ SetSendBodyLimit(t)
      PROVE  WaitingInv' /\ RoomInv'
  BY <1>5, FlushBegin DEF Flush, SetSendBodyLimit
<1>6. ASSUME NEW t \in Threads,
             \/ Refused(t) \/ WriteTooLong(t) \/ Sequence(t) \/ Transfer(t) \/ TransferFails(t)
             \/ Cancelled(t) \/ WriteFailed(t) \/ Wrote(t)
      PROVE  WaitingInv' /\ RoomInv'
  BY <1>6, FlushStays, FlushTransfers, FlushAside, FlushWrote
<1>7. ASSUME NEW t \in Threads,
             \/ FlushTransfer(t) \/ FlushEnds(t) \/ FlushFails(t) \/ FlushFailed(t)
             \/ FlushSucceeded(t) \/ StartsFlush(t) \/ SwitchesMode(t) \/ SetsLimit(t) \/ Done(t)
      PROVE  WaitingInv' /\ RoomInv'
  BY <1>7, FlushTransfers, FlushStays, FlushFlushSucceeded, FlushSwitchesMode, FlushDone
<1>8. ASSUME NEW t \in Threads, Shutdown(t) \/ ShutdownStep(t)
      PROVE  WaitingInv' /\ RoomInv'
  BY <1>8, FlushAside
<1>9. ASSUME ReadHeader \/ ReadBody
      PROVE  WaitingInv' /\ RoomInv'
  BY <1>9, FlushRead
<1> QED
  BY <1>1, <1>2, <1>3, <1>4, <1>5, <1>6, <1>7, <1>8, <1>9 DEF ConnectionNext, FlushInv

LEMMA FlushInit ==
  ASSUME ConnectionInit
  PROVE  FlushInv
<1>1. SentInv
  BY SentInit
<1>2. Waiting = {} /\ holder = None
  BY DEF ConnectionInit, Waiting
<1>3. Cardinality({}) = 0 /\ BatchLimit \in Nat \ {0}
  BY FS_EmptySet, ConnectionAssumption
<1>4. writer.unflushed \in Nat
  BY <1>1 DEF SentInv, ConnectionTypeOK, WriterStates
<1> QED
  BY <1>1, <1>2, <1>3, <1>4 DEF FlushInv, WaitingInv, RoomInv

\* Fewer than BATCH_RECORD_LIMIT answered records wait for a flush, and none
\* once flushing is immediate, also after flushes that failed (finish_write and
\* set_flush_mode, wire.rs).
THEOREM ConnectionFlushedInTime == ConnectionSpec => []FlushedInTime
<1>1. FlushInv => FlushedInTime
  BY DEF FlushInv, WaitingInv, FlushedInTime, Waiting
<1> QED
  BY <1>1, FlushInit, FlushStep, PTL DEF ConnectionSpec

(***************************************************************************)
(* FramesRead.                                                             *)
(***************************************************************************)
LEMMA FramedPrefix ==
  ASSUME NEW wire \in Seq(Unit), NEW buffer \in Seq(Unit), Framed(wire \o buffer)
  PROVE  Framed(wire)
<1> DEFINE stream == wire \o buffer
<1>1. /\ stream \in Seq(Unit) /\ Len(stream) = Len(wire) + Len(buffer)
      /\ Len(wire) \in Nat /\ Len(buffer) \in Nat
      /\ \A i \in 1..Len(wire) : stream[i] = wire[i]
  BY ConcatProperties
<1> HIDE DEF stream
<1>2. Framed(stream)
  BY DEF stream
<1>3. ASSUME wire # <<>> PROVE wire[1].piece = 0 /\ wire[1].sequence = 1
  <2>1. Len(wire) > 0
    BY <1>3, EmptySeq
  <2>2. stream # <<>> /\ stream[1] = wire[1]
    BY <1>1, <2>1
  <2> QED
    BY <1>2, <2>2 DEF Framed
<1>4. ASSUME NEW i \in 1..Len(wire)
      PROVE  wire[i].piece <= wire[i].body /\ wire[i].body <= reader.limit
  BY <1>1, <1>2 DEF Framed
<1>5. ASSUME NEW i \in 1..Len(wire) - 1 PROVE Follows(wire[i], wire[i + 1])
  <2>1. i \in 1..Len(wire) /\ i + 1 \in 1..Len(wire) /\ i \in 1..Len(stream) - 1
    BY <1>1
  <2>2. Follows(stream[i], stream[i + 1])
    BY <1>2, <2>1 DEF Framed
  <2> QED
    BY <1>1, <2>1, <2>2
<1> QED
  BY <1>3, <1>4, <1>5 DEF Framed

LEMMA FramedAppend ==
  ASSUME NEW stream \in Seq(Unit), NEW unit \in Unit, Framed(stream),
         unit.piece <= unit.body, unit.body <= reader.limit,
         stream = <<>> => unit.piece = 0 /\ unit.sequence = 1,
         stream # <<>> => Follows(stream[Len(stream)], unit)
  PROVE  Framed(Append(stream, unit))
<1> DEFINE longer == Append(stream, unit)
           n == Len(stream)
<1>1. /\ longer \in Seq(Unit) /\ Len(longer) = n + 1 /\ longer[n + 1] = unit /\ n \in Nat
      /\ \A i \in 1..n : longer[i] = stream[i]
  BY AppendProperties
<1>2. stream = <<>> <=> n = 0
  BY EmptySeq
<1> HIDE DEF longer, n
<1>3. longer[1].piece = 0 /\ longer[1].sequence = 1
  <2>1. CASE n = 0
    BY <1>1, <1>2, <2>1
  <2>2. CASE n # 0
    <3>1. 1 \in 1..n
      BY <1>1, <2>2
    <3> QED
      BY <1>1, <1>2, <2>2, <3>1 DEF Framed
  <2> QED
    BY <2>1, <2>2
<1>4. ASSUME NEW i \in 1..n + 1
      PROVE  longer[i].piece <= longer[i].body /\ longer[i].body <= reader.limit
  <2>1. CASE i = n + 1
    BY <1>1, <2>1
  <2>2. CASE i \in 1..n
    BY <1>1, <2>2 DEF Framed, n
  <2> QED
    BY <1>1, <2>1, <2>2
<1>5. ASSUME NEW i \in 1..n PROVE Follows(longer[i], longer[i + 1])
  <2>1. CASE i = n
    BY <1>1, <1>2, <2>1 DEF n
  <2>2. CASE i # n
    <3>1. i \in 1..n - 1 /\ i + 1 \in 1..n
      BY <1>1, <2>2
    <3>2. Follows(stream[i], stream[i + 1])
      BY <3>1 DEF Framed, n
    <3> QED
      BY <1>1, <3>1, <3>2
  <2> QED
    BY <2>1, <2>2
<1>6. Len(longer) - 1 = n
  BY <1>1
<1>7. Framed(longer)
  BY <1>1, <1>3, <1>4, <1>5, <1>6 DEF Framed
<1> QED
  BY <1>7 DEF longer

\* The next unit of a record continues the stream that ends within it.
LEMMA FramedNext ==
  ASSUME NEW stream \in Seq(Unit), Framed(stream), reader.limit \in Nat,
         NEW sequence \in Nat, sequence >= 1, NEW body \in Nat, body <= reader.limit,
         NEW sent \in Nat, sent <= body, EndsWithin(stream, sequence, body, sent)
  PROVE  LET unit == Units(sequence, body)[sent + 1] IN
         /\ unit \in Unit /\ Framed(Append(stream, unit))
         /\ EndsWithin(Append(stream, unit), sequence, body, sent + 1)
         /\ sent = body => CompleteThrough(Append(stream, unit), sequence)
<1> DEFINE unit == Units(sequence, body)[sent + 1]
           n == Len(stream)
           longer == Append(stream, unit)
<1>1. unit = [sequence |-> sequence, piece |-> sent, body |-> body]
  <2>1. sent + 1 \in 1..body + 1 /\ (sent + 1) - 1 = sent
    OBVIOUS
  <2> QED
    BY <2>1, UnitsTyped
<1> HIDE DEF unit
<1>2. unit \in Unit /\ unit.sequence = sequence /\ unit.piece = sent /\ unit.body = body
  BY <1>1 DEF Unit
<1>3. stream = <<>> => unit.piece = 0 /\ unit.sequence = 1
  <2> HAVE stream = <<>>
  <2>1. sent = 0 /\ sequence - 1 = 0
    BY DEF EndsWithin, CompleteThrough
  <2> QED
    BY <1>2, <2>1
<1>4. ASSUME stream # <<>> PROVE Follows(stream[n], unit)
  <2> DEFINE last == stream[n]
  <2>1. last \in Unit /\ n \in 1..Len(stream)
    BY <1>4, EmptySeq, ElementOfSeq
  <2>2. CASE sent = 0
    <3>1. last.sequence = sequence - 1 /\ last.piece = last.body
      BY <1>4, <2>2 DEF EndsWithin, CompleteThrough
    <3>2. last.piece \in Nat
      BY <2>1 DEF Unit
    <3> HIDE DEF last
    <3>3. ~(last.piece < last.body) /\ unit.sequence = last.sequence + 1
      BY <1>2, <3>1, <3>2
    <3> QED
      BY <1>2, <2>2, <3>3 DEF Follows, last
  <2>3. CASE sent # 0
    <3>1. last = [sequence |-> sequence, piece |-> sent - 1, body |-> body]
      BY <2>3 DEF EndsWithin
    <3> HIDE DEF last
    <3>2. last.piece < last.body /\ last.piece + 1 = sent
      BY <2>3, <3>1
    <3>3. [last EXCEPT !.piece = @ + 1] = unit
      BY <1>1, <3>1, <3>2
    <3> QED
      BY <3>2, <3>3 DEF Follows, last
  <2> QED
    BY <2>2, <2>3
<1>5. Framed(longer)
  BY <1>2, <1>3, <1>4, FramedAppend
<1>6. longer # <<>> /\ longer[Len(longer)] = unit
  BY <1>2, AppendProperties
<1> HIDE DEF longer
<1>7. EndsWithin(longer, sequence, body, sent + 1)
  BY <1>1, <1>6 DEF EndsWithin
<1>8. sent = body => CompleteThrough(longer, sequence)
  BY <1>2, <1>6 DEF CompleteThrough
<1> QED
  BY <1>2, <1>5, <1>7, <1>8 DEF longer, unit

LEMMA MovesTo ==
  ASSUME ConnectionTypeOK, NEW t \in Threads, calls[t] \in CallRecords, NEW at, Goes(t, at)
  PROVE  calls'[t].at = at /\ calls'[t].op = calls[t].op
BY DEF Goes, ConnectionTypeOK, CallRecords

\* A step that leaves the stream, and either writes nothing or leaves the write.
LEMMA FramingStill ==
  ASSUME FramingInv, Stream' = Stream, reader'.limit = reader.limit,
         writer'.send_body_limit <= reader.limit,
         writer'.send_sequence = writer.send_sequence,
         transport.cut => transport'.cut, failures' = 0 => failures = 0,
         \/ ~Writing /\ ~Writing'
         \/ holder' = holder /\ calls'[holder] = calls[holder]
  PROVE  FramingInv'
<1>1. failures' = 0 => Framed(Stream)'
  BY DEF FramingInv, Framed
<1>2. Writing' <=> Writing
  BY DEF Writing
<1>3. Writing => holder' = holder /\ calls'[holder] = calls[holder]
  BY DEF Writing
<1>4. EndInv'
  <2>1. CASE Writing
    BY <1>2, <1>3, <2>1 DEF FramingInv, EndInv
  <2>2. CASE ~Writing
    BY <1>2, <2>2 DEF FramingInv, EndInv
  <2> QED
    BY <2>1, <2>2
<1> QED
  BY <1>1, <1>4 DEF FramingInv

\* A stream that is cut back to the wire.
LEMMA FramingCut ==
  ASSUME ConnectionTypeOK, FramingInv, transport' = Dropped(transport), writer' = Closed(writer),
         UNCHANGED <<failures, reader>>
  PROVE  FramingInv'
<1>1. transport'.cut = TRUE /\ transport'.buffer = <<>> /\ transport'.wire = transport.wire
  BY DropsBuffer
<1>2. transport.wire \in Seq(Unit) /\ transport.buffer \in Seq(Unit)
      /\ transport.wire \o <<>> = transport.wire
  BY StreamTyped
<1>3. Stream' = transport.wire
  BY <1>1, <1>2 DEF Stream
<1>4. failures = 0 => Framed(transport.wire)
  BY <1>2, FramedPrefix DEF FramingInv, Stream
<1>5. failures' = 0 => Framed(Stream)'
  BY <1>3, <1>4 DEF Framed
<1>6. writer'.send_body_limit = writer.send_body_limit
  BY WriterCloses DEF ConnectionTypeOK
<1>7. EndInv'
  BY <1>1 DEF EndInv
<1> QED
  BY <1>5, <1>6, <1>7 DEF FramingInv

LEMMA FramingBegin ==
  ASSUME SentInv, FramingInv, NEW t \in Threads, NEW call,
         call \in {Call("Flush"), Call("Limit")}
           \/ (\E record \in Records : call = [Call("Write") EXCEPT !.record = record])
           \/ (\E mode \in Modes : call = [Call("Mode") EXCEPT !.mode = mode]),
         Begin(t, call)
  PROVE  FramingInv'
<1>1. PICK c \in CallRecords : c = [call EXCEPT !.at = "Locked"] /\ c.at = "Locked"
  BY CallsBegin
<1>2. /\ calls'[t] = c /\ holder = None /\ holder' = t
      /\ UNCHANGED <<transport, writer, reader, failures>>
  BY <1>1 DEF Begin, SentInv, ConnectionTypeOK
<1>3. ~Writing /\ ~Writing' /\ Stream' = Stream
  BY <1>1, <1>2 DEF Writing, Stream
<1> QED
  BY <1>2, <1>3, FramingStill DEF FramingInv

LEMMA FramingReturns ==
  ASSUME SentInv, FramingInv, NEW t \in Threads,
         Refused(t) \/ WriteTooLong(t) \/ WriteFailed(t) \/ FlushFailed(t) \/ Done(t)
  PROVE  FramingInv'
<1>1. ~Writing
  BY HoldsLock DEF Writing, SentInv, Refused, WriteTooLong, WriteFailed, FlushFailed, AfterFlush,
                   NotCancelled, Done
<1>2. holder' = None /\ UNCHANGED <<transport, writer, reader, failures>>
  BY DEF Refused, WriteTooLong, WriteFailed, FlushFailed, Done, AfterRefusal
<1>3. ~Writing' /\ Stream' = Stream
  BY <1>2 DEF Writing, Stream
<1> QED
  BY <1>1, <1>2, <1>3, FramingStill DEF FramingInv

LEMMA FramingSequence ==
  ASSUME SentInv, FramingInv, NEW t \in Threads, Sequence(t)
  PROVE  FramingInv'
<1> DEFINE n == writer.send_sequence + 1
<1>1. ConnectionTypeOK /\ LockInv /\ CallInv
  BY DEF SentInv
<1>2. holder = t /\ holder # None /\ calls[t] \in CallRecords /\ calls[t].op = "Write"
      /\ calls[t].at = "Locked"
  BY <1>1, HoldsLock DEF Sequence
<1>3. /\ writer' = [writer EXCEPT !.send_sequence = n]
      /\ calls' = [calls EXCEPT ![t].at = "Write", ![t].sequence = n]
      /\ UNCHANGED <<transport, holder, failures, reader>>
  BY DEF Sequence
<1>4. writer \in WriterStates /\ writer.send_sequence \in Nat /\ n \in Nat
      /\ n - 1 = writer.send_sequence /\ calls[t].sent = 0
  BY <1>1, <1>2 DEF ConnectionTypeOK, WriterStates, CallInv, CallShape
<1> HIDE DEF n
<1>5. writer'.send_body_limit = writer.send_body_limit /\ writer'.send_sequence = n
  BY <1>3, <1>4, WriterCounts
<1>6. PICK c \in CallRecords :
        calls' = [calls EXCEPT ![t] = c] /\ Moved(calls[t], c, "Write", n, calls[t].sent, calls[t].ok)
  BY <1>1, <1>2, <1>3, <1>4, SequenceMoves
<1>7. calls'[holder'] = c /\ c.at = "Write" /\ c.op = "Write" /\ c.sequence = n /\ c.sent = 0
  BY <1>1, <1>2, <1>3, <1>4, <1>6 DEF ConnectionTypeOK, Moved
<1>8. Stream' = Stream
  BY <1>3 DEF Stream
<1>9. ~Writing
  BY <1>2 DEF Writing
<1>10. EndInv'
  <2>1. Writing' /\ calls'[holder'] = c
    BY <1>2, <1>3, <1>7 DEF Writing
  <2>2. ASSUME failures' = 0, ~transport'.cut
        PROVE  EndsWithin(Stream', c.sequence, c.record.body, c.sent)
    BY <1>3, <1>4, <1>7, <1>8, <1>9, <2>2 DEF FramingInv, EndInv, EndsWithin
  <2> QED
    BY <2>1, <2>2 DEF EndInv
<1> QED
  BY <1>3, <1>5, <1>8, <1>10 DEF FramingInv, Framed

LEMMA FramingTransfer ==
  ASSUME SentInv, FramingInv, NEW t \in Threads, Transfer(t)
  PROVE  FramingInv'
<1> DEFINE d == calls[t]
           unit == Units(d.sequence, d.record.body)[d.sent + 1]
           at == IF d.sent = d.record.body THEN "Written" ELSE "Write"
<1>1. ConnectionTypeOK /\ LockInv /\ CallInv
  BY DEF SentInv
<1>2. holder = t /\ holder # None /\ d \in CallRecords /\ d.op = "Write" /\ d.at = "Write"
      /\ ~writer.closed
  BY <1>1, HoldsLock DEF Transfer
<1>3. /\ d.sent <= d.record.body /\ Takes(unit)
      /\ calls' = Transferring(calls, t, d.sent + 1, at)
      /\ UNCHANGED <<holder, writer, failures, reader>>
  BY DEF Transfer, Transferring
<1>4. /\ d.record.body \in Nat /\ d.sequence \in Nat /\ d.sent \in Nat /\ d.sent + 1 \in Nat
  BY <1>2, WritesRecord
<1>5. d.sequence = writer.send_sequence /\ d.sequence >= 1 /\ d.record.body <= reader.limit
  <2>1. WriteInv(d)
    BY <1>1, <1>2 DEF CallInv
  <2>2. writer.send_body_limit \in Nat /\ reader.limit \in Nat
    BY <1>1 DEF ConnectionTypeOK, WriterStates, ReaderStates
  <2> QED
    BY <1>2, <1>4, <2>1, <2>2 DEF WriteInv, FramingInv
<1>6. at \in {"Write", "Written"}
  OBVIOUS
<1>7. unit \in Unit
  <2>1. Units(d.sequence, d.record.body) \in Seq(Unit)
        /\ Len(Units(d.sequence, d.record.body)) = d.record.body + 1
    BY <1>4, UnitsTyped
  <2>2. d.sent + 1 \in 1..Len(Units(d.sequence, d.record.body))
    BY <1>3, <1>4, <2>1, NextUnit
  <2> QED
    BY <2>1, <2>2, ElementOfSeq
<1>8. /\ transport'.cut = transport.cut
      /\ Stream' = Append(Stream, unit) \/ (transport.cut /\ Stream' = Stream)
  <2> HIDE DEF unit
  <2> QED
    BY <1>1, <1>3, <1>7, TakesUnit
<1>9. PICK c \in CallRecords :
        /\ calls' = [calls EXCEPT ![t] = c]
        /\ Moved(d, c, at, d.sequence, d.sent + 1, d.ok)
  <2>1. calls' = Transferring(calls, t, d.sent + 1, at)
    BY <1>3
  <2> HIDE DEF at
  <2> QED
    <3>1. ConnectionTypeOK /\ t \in Threads /\ calls[t] \in CallRecords /\ d.sent + 1 \in Nat
      BY <1>1, <1>2, <1>4
    <3>2. \E c \in CallRecords :
            /\ calls' = [calls EXCEPT ![t] = c]
            /\ Moved(calls[t], c, at, calls[t].sequence, d.sent + 1, calls[t].ok)
      BY <1>6, <2>1, <3>1, TransferMoves
    <3> QED
      BY <3>2
<1>10. /\ calls'[holder'] = c /\ c.at = at /\ c.op = "Write" /\ c.sequence = d.sequence
       /\ c.sent = d.sent + 1 /\ c.record = d.record
  BY <1>1, <1>2, <1>3, <1>9 DEF ConnectionTypeOK, Moved
<1>11. CASE failures # 0
  BY <1>3, <1>11 DEF FramingInv, EndInv
<1>12. CASE failures = 0 /\ transport.cut /\ Stream' = Stream
  BY <1>3, <1>8, <1>12 DEF FramingInv, EndInv, Framed
<1>13. CASE failures = 0 /\ Stream' = Append(Stream, unit) /\ ~transport.cut
  <2>1. EndsWithin(Stream, d.sequence, d.record.body, d.sent) /\ Framed(Stream)
    BY <1>2, <1>13 DEF FramingInv, EndInv, Writing
  <2>2. reader.limit \in Nat /\ Stream \in Seq(Unit)
    BY <1>1, StreamTyped DEF ConnectionTypeOK, ReaderStates
  <2>3. /\ Framed(Stream')
        /\ EndsWithin(Stream', d.sequence, d.record.body, d.sent + 1)
        /\ d.sent = d.record.body => CompleteThrough(Stream', d.sequence)
    BY <1>3, <1>4, <1>5, <1>13, <2>1, <2>2, FramedNext
  <2>4. EndInv'
    <3>1. CASE at = "Write"
      <4>1. Writing' /\ calls'[holder'] = c
        BY <1>2, <1>3, <1>10, <3>1 DEF Writing
      <4>2. EndsWithin(Stream', c.sequence, c.record.body, c.sent)
        BY <1>10, <2>3
      <4> QED
        BY <4>1, <4>2 DEF EndInv
    <3>2. CASE at = "Written"
      <4>1. d.sent = d.record.body /\ ~Writing'
        BY <1>10, <3>2 DEF Writing
      <4> QED
        BY <1>3, <1>5, <2>3, <4>1 DEF EndInv
    <3> QED
      BY <1>6, <3>1, <3>2
  <2> QED
    BY <1>3, <2>3, <2>4 DEF FramingInv, Framed
<1>14. transport.cut => Stream' = Stream
  <2> HAVE transport.cut
  <2>1. transport.kind = "Native"
    BY <1>1, <1>2 DEF LockInv, ConnectionTypeOK, TransportStates
  <2>2. UNCHANGED transport
    BY <1>3, <2>1 DEF Takes
  <2> QED
    BY <2>2 DEF Stream
<1> QED
  BY <1>8, <1>11, <1>12, <1>13, <1>14

LEMMA FramingTransferFails ==
  ASSUME SentInv, FramingInv, NEW t \in Threads, TransferFails(t)
  PROVE  FramingInv'
<1>1. FailureCounted /\ UNCHANGED <<transport, writer, reader>>
  BY DEF TransferFails
<1>2. failures' = 0 => failures = 0 /\ transport.cut
  BY <1>1, FailureTyped DEF FailureCounted, SentInv
<1>3. Stream' = Stream
  BY <1>1 DEF Stream
<1>4. EndInv'
  BY <1>1, <1>2 DEF EndInv
<1> QED
  BY <1>1, <1>2, <1>3, <1>4 DEF FramingInv, Framed

\* Steps of the holder that write nothing.
LEMMA FramingIdle ==
  ASSUME SentInv, FramingInv, NEW t \in Threads,
         \/ Wrote(t) \/ FlushTransfer(t) \/ FlushEnds(t) \/ FlushFails(t) \/ FlushSucceeded(t)
         \/ StartsFlush(t) \/ SwitchesMode(t) \/ SetsLimit(t)
  PROVE  FramingInv'
<1>1. ConnectionTypeOK /\ LockInv /\ writer \in WriterStates
  BY DEF SentInv, ConnectionTypeOK
<1>2. holder = t /\ holder' = t /\ holder # None /\ calls[t] \in CallRecords
      /\ calls[t].at # "Write" /\ reader' = reader
  <2>1. CASE Wrote(t)
    BY <1>1, <2>1, HoldsLock DEF Wrote, NotCancelled
  <2>2. CASE FlushTransfer(t)
    BY <1>1, <2>2, HoldsLock DEF FlushTransfer
  <2>3. CASE FlushEnds(t)
    BY <1>1, <2>3, HoldsLock DEF FlushEnds
  <2>4. CASE FlushFails(t)
    BY <1>1, <2>4, HoldsLock DEF FlushFails
  <2>5. CASE FlushSucceeded(t)
    BY <1>1, <2>5, HoldsLock DEF FlushSucceeded, AfterFlush
  <2>6. CASE StartsFlush(t)
    BY <1>1, <2>6, HoldsLock DEF StartsFlush
  <2>7. CASE SwitchesMode(t)
    BY <1>1, <2>7, HoldsLock DEF SwitchesMode
  <2>8. CASE SetsLimit(t)
    BY <1>1, <2>8, HoldsLock DEF SetsLimit
  <2> QED
    BY <2>1, <2>2, <2>3, <2>4, <2>5, <2>6, <2>7, <2>8
<1>3. calls'[t].at # "Write"
  <2>1. CASE FlushTransfer(t)
    BY <1>2, <2>1 DEF FlushTransfer
  <2>2. CASE FlushFails(t)
    <3>0. calls' = [calls EXCEPT ![t].at = "Flushed", ![t].ok = FALSE]
      BY <2>2 DEF FlushFails
    <3>1. PICK c : calls' = [calls EXCEPT ![t] = c] /\ c.at = "Flushed"
      BY <1>1, <1>2, <3>0, FailSets
    <3> QED
      BY <1>1, <3>1 DEF ConnectionTypeOK
  <2>3. CASE ~FlushTransfer(t) /\ ~FlushFails(t)
    <3>1. PICK at \in {"Flush", "Flushed", "Done"} : Goes(t, at)
      BY <2>3 DEF Wrote, FlushEnds, FlushSucceeded, StartsFlush, SwitchesMode, SetsLimit
    <3> QED
      BY <1>1, <1>2, <3>1, MovesTo
  <2> QED
    BY <2>1, <2>2, <2>3
<1>4. ~Writing /\ ~Writing'
  BY <1>2, <1>3 DEF Writing
<1>5. Stream' = Stream /\ transport'.cut = transport.cut
  <2>1. CASE FlushTransfer(t)
    BY <1>1, <2>1, FlushesUnit DEF FlushTransfer
  <2>2. CASE UNCHANGED transport
    BY <2>2 DEF Stream
  <2> QED
    BY <2>1, <2>2 DEF Wrote, FlushEnds, FlushFails, FlushSucceeded, StartsFlush, SwitchesMode,
       SetsLimit
<1>6. failures' = 0 => failures = 0
  BY <1>1 DEF Wrote, FlushTransfer, FlushEnds, FlushFails, FlushSucceeded, StartsFlush,
              SwitchesMode, SetsLimit, FailureCounted, ConnectionTypeOK
<1>7. /\ writer'.send_sequence = writer.send_sequence
      /\ writer'.send_body_limit <= reader.limit
  <2>1. writer.send_body_limit <= reader.limit
    BY DEF FramingInv
  <2>2. CASE UNCHANGED writer
    BY <2>1, <2>2
  <2>3. CASE Wrote(t)
    <3> DEFINE n == writer.unflushed + 1
    <3>1. writer' = [writer EXCEPT !.unflushed = n] /\ n \in Nat
      BY <1>1, <2>3 DEF Wrote, WriterStates
    <3> QED
      BY <1>1, <2>1, <3>1, WriterCounts
  <2>4. CASE FlushSucceeded(t)
    <3> DEFINE w == [writer EXCEPT !.unflushed = 0]
    <3>1. /\ w \in WriterStates /\ w.send_sequence = writer.send_sequence
          /\ w.send_body_limit = writer.send_body_limit
      BY <1>1, WriterCounts
    <3>2. writer' = Switched(w, calls[t].mode) /\ calls[t].mode \in Modes \union {None}
      BY <1>2, <2>4 DEF FlushSucceeded, CallRecords
    <3> HIDE DEF w
    <3> QED
      BY <2>1, <3>1, <3>2, WriterSwitches
  <2>5. CASE SwitchesMode(t)
    <3>1. calls[t].mode \in Modes \union {None}
      BY <1>2 DEF CallRecords
    <3> QED
      BY <1>1, <2>1, <2>5, <3>1, WriterSwitches DEF SwitchesMode
  <2>6. CASE SetsLimit(t)
    <3>1. PICK limit \in BodyLimits :
            limit <= reader.limit /\ writer' = [writer EXCEPT !.send_body_limit = limit]
      BY <2>6 DEF SetsLimit
    <3>2. limit \in Nat
      BY ConnectionAssumption
    <3> QED
      BY <1>1, <3>1, <3>2, WriterCounts
  <2> QED
    BY <2>2, <2>3, <2>4, <2>5, <2>6 DEF FlushTransfer, FlushEnds, FlushFails, StartsFlush
<1> QED
  BY <1>2, <1>4, <1>5, <1>6, <1>7, FramingStill

LEMMA FramingAside ==
  ASSUME SentInv, FramingInv, NEW t \in Threads,
         Shutdown(t) \/ ShutdownStep(t) \/ Cancelled(t)
  PROVE  FramingInv'
<1>1. ConnectionTypeOK /\ LockInv
  BY DEF SentInv
<1>2. CASE Cancelled(t)
  BY <1>1, <1>2, FramingCut DEF Cancelled
<1>3. CASE Shutdown(t) \/ TakesHandle(t) \/ LeavesToHolder(t)
  <2>1. /\ UNCHANGED <<writer, holder, reader, failures>>
        /\ Stream' = Stream /\ (transport.cut => transport'.cut)
    <3>1. CASE UNCHANGED transport
      BY <1>3, <3>1 DEF Shutdown, TakesHandle, LeavesToHolder, Stream
    <3>2. CASE TakesHandle(t)
      <4>1. /\ transport'.wire = transport.wire /\ transport'.buffer = transport.buffer
            /\ transport.cut => transport'.cut
        BY <1>1, <3>2 DEF TakesHandle, ConnectionTypeOK, TransportStates
      <4> QED
        BY <3>2, <4>1 DEF TakesHandle, Stream
    <3> QED
      BY <1>3, <3>1, <3>2 DEF Shutdown, LeavesToHolder
  <2>2. holder # t
    BY <1>1, <1>3, ConnectionAssumption
       DEF Shutdown, TakesHandle, LeavesToHolder, In, LockInv, ConnectionTypeOK
  <2>3. \E c : calls' = [calls EXCEPT ![t] = c]
    BY <1>3 DEF Shutdown, TakesHandle, LeavesToHolder, Goes, Returns
  <2>4. holder = None \/ calls'[holder] = calls[holder]
    BY <1>1, <2>2, <2>3, OthersKept DEF ConnectionTypeOK
  <2>5. holder = None => ~Writing /\ ~Writing'
    BY <2>1 DEF Writing
  <2> QED
    BY <2>1, <2>4, <2>5, FramingStill DEF FramingInv
<1>4. CASE Closes(t)
  BY <1>1, <1>4, FramingCut DEF Closes
<1> QED
  BY <1>2, <1>3, <1>4 DEF ShutdownStep

LEMMA FramingRead ==
  ASSUME SentInv, FramingInv, ReadHeader \/ ReadBody
  PROVE  FramingInv'
<1>1. UNCHANGED <<transport, requested, native, holder, writer, calls, answered, failures>>
  BY DEF ReadHeader, ReadBody
<1>2. reader'.limit = reader.limit
  <2>1. CASE ReadHeader
    BY <2>1, ReadsHeader DEF SentInv, ReaderAt
  <2>2. CASE ReadBody
    BY <2>2, ReadsBody DEF SentInv, ReaderAt
  <2> QED
    BY <2>1, <2>2
<1>3. Stream' = Stream
  BY <1>1 DEF Stream
<1> QED
  BY <1>1, <1>2, <1>3, FramingStill DEF FramingInv

LEMMA FramingStep ==
  ASSUME SentInv, FramingInv, [ConnectionNext]_connectionVars
  PROVE  FramingInv'
<1>1. CASE UNCHANGED connectionVars
  <2>1. Stream' = Stream
    BY <1>1 DEF connectionVars, Stream
  <2> QED
    BY <1>1, <2>1, FramingStill DEF connectionVars, FramingInv
<1>2. ASSUME NEW t \in Threads, NEW record \in Records, Write(t, record)
      PROVE  FramingInv'
  BY <1>2, FramingBegin DEF Write
<1>3. ASSUME NEW t \in Threads, NEW mode \in Modes, SetFlushMode(t, mode)
      PROVE  FramingInv'
  BY <1>3, FramingBegin DEF SetFlushMode
<1>4. ASSUME NEW t \in Threads, Flush(t) \/ SetSendBodyLimit(t)
      PROVE  FramingInv'
  BY <1>4, FramingBegin DEF Flush, SetSendBodyLimit
<1>5. ASSUME NEW t \in Threads,
             \/ Refused(t) \/ WriteTooLong(t) \/ Sequence(t) \/ Transfer(t) \/ TransferFails(t)
             \/ Cancelled(t) \/ WriteFailed(t) \/ Wrote(t)
      PROVE  FramingInv'
  BY <1>5, FramingReturns, FramingSequence, FramingTransfer, FramingTransferFails, FramingAside,
     FramingIdle
<1>6. ASSUME NEW t \in Threads,
             \/ FlushTransfer(t) \/ FlushEnds(t) \/ FlushFails(t) \/ FlushFailed(t)
             \/ FlushSucceeded(t) \/ StartsFlush(t) \/ SwitchesMode(t) \/ SetsLimit(t) \/ Done(t)
      PROVE  FramingInv'
  BY <1>6, FramingIdle, FramingReturns
<1>7. ASSUME NEW t \in Threads, Shutdown(t) \/ ShutdownStep(t)
      PROVE  FramingInv'
  BY <1>7, FramingAside
<1>8. CASE ReadHeader \/ ReadBody
  BY <1>8, FramingRead
<1> QED
  BY <1>1, <1>2, <1>3, <1>4, <1>5, <1>6, <1>7, <1>8 DEF ConnectionNext

\* What the reader relies on: the wire only grows.
LEMMA ReaderKept ==
  ASSUME ConnectionTypeOK, ReaderInv, UNCHANGED reader, failures' = 0 => failures = 0,
         NEW unit \in Unit, transport'.wire \in {transport.wire, Append(transport.wire, unit)}
  PROVE  ReaderInv'
<1>1. transport.wire \in Seq(Unit) /\ Len(transport.wire) \in Nat /\ reader.taken \in Nat
  BY DEF ConnectionTypeOK, TransportStates, ReaderStates
<1>2. /\ Len(transport'.wire) >= Len(transport.wire)
      /\ \A i \in 1..Len(transport.wire) : transport'.wire[i] = transport.wire[i]
  BY <1>1, AppendProperties
<1>3. ASSUME failures = 0
      PROVE  /\ reader.taken <= Len(transport'.wire)
             /\ reader.taken > 0 => transport'.wire[reader.taken] = transport.wire[reader.taken]
  <2>1. reader.taken <= Len(transport.wire)
    BY <1>3 DEF ReaderInv
  <2>2. Len(transport'.wire) \in Nat
    BY <1>1, AppendProperties
  <2>3. reader.taken > 0 => reader.taken \in 1..Len(transport.wire)
    BY <1>1, <2>1
  <2> QED
    BY <1>1, <1>2, <2>1, <2>2, <2>3
<1> QED
  BY <1>3 DEF ReaderInv

LEMMA WireGrows ==
  ASSUME SentInv, [ConnectionNext]_connectionVars, ~ReadHeader, ~ReadBody
  PROVE  /\ UNCHANGED reader /\ (failures' = 0 => failures = 0)
         /\ \E unit \in Unit : transport'.wire \in {transport.wire, Append(transport.wire, unit)}
<1>1. ConnectionTypeOK /\ LockInv
  BY DEF SentInv
<1>2. [sequence |-> 0, piece |-> 0, body |-> 0] \in Unit
  BY DEF Unit
<1>3. UNCHANGED reader /\ (failures' = 0 => failures = 0)
  <2>1. failures \in Nat /\ (FailureCounted => failures' = failures \/ failures' = failures + 1)
    BY <1>1 DEF ConnectionTypeOK, FailureCounted
  <2>2. UNCHANGED reader /\ (failures' = failures \/ FailureCounted)
    BY DEF ConnectionNext, connectionVars, Write, SetFlushMode, Flush, SetSendBodyLimit, Begin,
       Shutdown, Refused, WriteTooLong, Sequence, Transfer, TransferFails, Cancelled, WriteFailed,
       Wrote, FlushTransfer, FlushEnds, FlushFails, FlushFailed, FlushSucceeded, StartsFlush,
       SwitchesMode, SetsLimit, Done, ShutdownStep, TakesHandle, Closes, LeavesToHolder
  <2> QED
    BY <2>1, <2>2
<1>4. ASSUME NEW t \in Threads, Transfer(t)
      PROVE  \E unit \in Unit : transport'.wire \in {transport.wire, Append(transport.wire, unit)}
  <2> DEFINE d == calls[t]
             unit == Units(d.sequence, d.record.body)[d.sent + 1]
  <2>1. holder = t /\ d \in CallRecords /\ d.op = "Write"
    BY <1>1, <1>4, HoldsLock DEF Transfer
  <2>2. d.sequence \in Nat /\ d.sent \in Nat /\ d.record.body \in Nat /\ d.sent <= d.record.body
    BY <1>4, <2>1, WritesRecord DEF Transfer
  <2>3. unit \in Unit
    <3>1. Units(d.sequence, d.record.body) \in Seq(Unit)
          /\ Len(Units(d.sequence, d.record.body)) = d.record.body + 1
      BY <2>2, UnitsTyped
    <3>2. d.sent + 1 \in 1..Len(Units(d.sequence, d.record.body))
      BY <2>2, <3>1
    <3> QED
      BY <3>1, <3>2, ElementOfSeq
  <2>4. Takes(unit)
    BY <1>4 DEF Transfer
  <2> HIDE DEF unit
  <2> QED
    BY <1>1, <2>3, <2>4, TakesUnit
<1>5. ASSUME NEW t \in Threads, FlushTransfer(t)
      PROVE  \E unit \in Unit : transport'.wire \in {transport.wire, Append(transport.wire, unit)}
  <2>1. /\ transport'.wire = Append(transport.wire, Head(transport.buffer))
        /\ Head(transport.buffer) \in Unit
    BY <1>1, <1>5, FlushesUnit DEF FlushTransfer
  <2> QED
    BY <2>1
<1>6. ASSUME NEW t \in Threads, Cancelled(t) \/ Closes(t) \/ TakesHandle(t)
      PROVE  transport'.wire = transport.wire
  <2>1. CASE Cancelled(t) \/ Closes(t)
    BY <1>1, <2>1, DropsBuffer DEF Cancelled, Closes
  <2>2. CASE TakesHandle(t)
    BY <1>1, <2>2 DEF TakesHandle, ConnectionTypeOK, TransportStates
  <2> QED
    BY <1>6, <2>1, <2>2
<1>7. \/ \E t \in Threads : \/ Transfer(t) \/ FlushTransfer(t) \/ Cancelled(t) \/ Closes(t)
                            \/ TakesHandle(t)
      \/ UNCHANGED transport
  BY DEF ConnectionNext, connectionVars, Write, SetFlushMode, Flush, SetSendBodyLimit, Begin,
     Shutdown, Refused, WriteTooLong, Sequence, TransferFails, WriteFailed,
     Wrote, FlushEnds, FlushFails, FlushFailed, FlushSucceeded, StartsFlush,
     SwitchesMode, SetsLimit, Done, ShutdownStep, LeavesToHolder
<1> QED
  BY <1>2, <1>3, <1>4, <1>5, <1>6, <1>7

\* The next unit, for a reader whose stream is framed.
LEMMA NextFramed ==
  ASSUME SentInv, FramingInv, failures = 0
  PROVE  Framed(transport.wire)
BY StreamTyped, FramedPrefix DEF SentInv, FramingInv, Stream

LEMMA ReaderHeader ==
  ASSUME SentInv, FramingInv, ReaderInv, ReadHeader
  PROVE  ReaderInv'
<1> SUFFICES ASSUME failures = 0
             PROVE  ReaderInv'
  BY DEF ReadHeader, ReaderInv
<1> DEFINE r == reader
           wire == transport.wire
           unit == Next1
<1>1. /\ UNCHANGED <<transport, failures>> /\ r.state = "Header" /\ unit \in Unit
      /\ r.taken + 1 \in 1..Len(wire) /\ unit = wire[r.taken + 1]
  BY ReadsHeader DEF ReadHeader, SentInv, Next1
<1>2. /\ r.taken \in Nat /\ r.sequence \in Nat /\ r.limit \in Nat /\ r.read \in Seq(Nat)
      /\ wire \in Seq(Unit)
  BY DEF SentInv, ConnectionTypeOK, ReaderStates, TransportStates
<1>3. Framed(wire)
  BY NextFramed
<1>4. /\ r.intact /\ r.left = 0 /\ Len(r.read) = r.sequence
      /\ \A i \in 1..Len(r.read) : r.read[i] = i
  BY <1>1 DEF ReaderInv
<1>5. unit.piece = 0 /\ unit.sequence = r.sequence + 1 /\ unit.body <= r.limit
  <2>1. unit.body <= r.limit
    BY <1>1, <1>3 DEF Framed
  <2>2. CASE r.taken = 0
    <3>1. r.sequence = 0
      BY <2>2 DEF ReaderInv
    <3>2. wire # <<>>
      BY <1>1, <1>2, EmptySeq
    <3>3. unit = wire[1]
      BY <1>1, <2>2
    <3> QED
      BY <1>3, <2>1, <3>1, <3>2, <3>3 DEF Framed
  <2>3. CASE r.taken # 0
    <3> DEFINE last == wire[r.taken]
    <3>1. r.taken \in 1..Len(wire) - 1 /\ r.taken \in 1..Len(wire) /\ r.taken > 0
      BY <1>1, <1>2, <2>3
    <3>2. Follows(last, unit)
      BY <1>1, <1>3, <3>1 DEF Framed
    <3>3. last \in Unit
      BY <1>2, <3>1, ElementOfSeq
    <3>4. r.sequence = last.sequence /\ 0 = last.body - last.piece
      BY <1>4, <3>1 DEF ReaderInv
    <3>5. last.body \in Nat /\ last.piece \in Nat
      BY <3>3 DEF Unit
    <3> HIDE DEF last
    <3>6. ~(last.piece < last.body)
      BY <3>4, <3>5
    <3> QED
      BY <2>1, <3>2, <3>4, <3>6 DEF Follows
  <2> QED
    BY <2>2, <2>3
<1>6. AcceptsHeader(unit)
  BY <1>5 DEF AcceptsHeader
<1>7. unit.body \in Nat /\ unit.sequence \in Nat /\ r.taken + 1 > 0 /\ r.taken + 1 # 0
      /\ r.taken + 1 <= Len(wire)
  <2>1. unit.body \in Nat /\ unit.sequence \in Nat
    BY <1>1 DEF Unit
  <2>2. r.taken \in Nat /\ Len(wire) \in Nat /\ r.taken < Len(wire)
    BY <1>1, <1>2
  <2> QED
    BY <2>1, <2>2
<1>8. CASE unit.body = 0
  <2> DEFINE read == Append(r.read, unit.sequence)
  <2>1. reader' = ReaderAt(r.limit, "Header", r.taken + 1, unit.sequence, 0, r.intact, read)
    BY <1>6, <1>8, ReadsHeader DEF SentInv
  <2>2. /\ Len(read) = r.sequence + 1 /\ read[r.sequence + 1] = unit.sequence
        /\ \A i \in 1..r.sequence : read[i] = r.read[i]
    BY <1>2, <1>4, <1>7, AppendProperties
  <2> HIDE DEF read
  <2>3. /\ reader'.state = "Header" /\ reader'.taken = r.taken + 1
        /\ reader'.sequence = unit.sequence /\ reader'.left = 0 /\ reader'.intact
        /\ reader'.read = read
    BY <1>4, <2>1 DEF ReaderAt
  <2>4. \A i \in 1..Len(read) : read[i] = i
    <3> TAKE i \in 1..Len(read)
    <3>1. i = r.sequence + 1 \/ i \in 1..r.sequence
      BY <1>2, <2>2
    <3>2. CASE i = r.sequence + 1
      BY <1>5, <2>2, <3>2
    <3>3. CASE i \in 1..r.sequence
      BY <1>4, <2>2, <3>3
    <3> QED
      BY <3>1, <3>2, <3>3
  <2> HIDE DEF unit
  <2> QED
    BY <1>1, <1>2, <1>5, <1>7, <1>8, <2>2, <2>3, <2>4 DEF ReaderInv
<1>9. CASE unit.body # 0
  <2>1. reader' = ReaderAt(r.limit, "Body", r.taken + 1, unit.sequence, unit.body, r.intact, r.read)
    BY <1>6, <1>9, ReadsHeader DEF SentInv
  <2>2. /\ reader'.state = "Body" /\ reader'.taken = r.taken + 1
        /\ reader'.sequence = unit.sequence /\ reader'.left = unit.body /\ reader'.intact
        /\ reader'.read = r.read
    BY <1>4, <2>1 DEF ReaderAt
  <2> HIDE DEF unit
  <2>3. unit.body > 0 /\ unit.body = unit.body - unit.piece /\ r.sequence = unit.sequence - 1
    <3>1. unit.body \in Nat /\ unit.body # 0 /\ r.sequence \in Nat
      BY <1>2, <1>7, <1>9
    <3>2. unit.piece = 0 /\ unit.sequence = r.sequence + 1
      BY <1>5
    <3> QED
      BY <3>1, <3>2
  <2> QED
    BY <1>1, <1>2, <1>4, <1>5, <1>7, <1>9, <2>2, <2>3 DEF ReaderInv
<1> QED
  BY <1>8, <1>9

LEMMA ReaderBody ==
  ASSUME SentInv, FramingInv, ReaderInv, ReadBody
  PROVE  ReaderInv'
<1> SUFFICES ASSUME failures = 0
             PROVE  ReaderInv'
  BY DEF ReadBody, ReaderInv
<1> DEFINE r == reader
           wire == transport.wire
           unit == Next1
           intact == r.intact /\ unit.sequence = r.sequence /\ unit.piece > 0
           last == wire[r.taken]
<1>1. /\ UNCHANGED <<transport, failures>> /\ r.state = "Body" /\ unit \in Unit
      /\ r.taken + 1 \in 1..Len(wire) /\ unit = wire[r.taken + 1]
  BY ReadsBody DEF ReadBody, SentInv, Next1
<1>2. /\ r.taken \in Nat /\ r.sequence \in Nat /\ r.left \in Nat /\ r.read \in Seq(Nat)
      /\ wire \in Seq(Unit)
  BY DEF SentInv, ConnectionTypeOK, ReaderStates, TransportStates
<1>3. Framed(wire)
  BY NextFramed
<1>4. /\ r.intact /\ r.left > 0 /\ Len(r.read) = r.sequence - 1
      /\ \A i \in 1..Len(r.read) : r.read[i] = i
  BY <1>1, <1>2 DEF ReaderInv
<1>5. r.taken # 0
  BY <1>2, <1>4 DEF ReaderInv
<1>6. r.taken \in 1..Len(wire) - 1 /\ r.taken \in 1..Len(wire) /\ r.taken > 0
  BY <1>1, <1>2, <1>5
<1>7. Follows(last, unit)
  BY <1>1, <1>3, <1>6 DEF Framed
<1>8. last \in Unit
  BY <1>2, <1>6, ElementOfSeq
<1>9. r.sequence = last.sequence /\ r.left = last.body - last.piece
  BY <1>6 DEF ReaderInv
<1>10. last.body \in Nat /\ last.piece \in Nat
  BY <1>8 DEF Unit
<1> HIDE DEF last
<1>11. last.piece < last.body
  BY <1>4, <1>9, <1>10
<1>12. unit = [last EXCEPT !.piece = @ + 1]
  BY <1>7, <1>11 DEF Follows
<1>13. unit.sequence = last.sequence /\ unit.body = last.body /\ unit.piece = last.piece + 1
  BY <1>8, <1>12 DEF Unit
<1>14. intact /\ r.left - 1 = unit.body - unit.piece /\ r.sequence = unit.sequence
  BY <1>4, <1>9, <1>10, <1>13
<1>15. r.taken + 1 > 0 /\ r.taken + 1 # 0 /\ r.taken + 1 <= Len(wire)
  BY <1>1, <1>2
<1>16. CASE r.left = 1
  <2> DEFINE read == Append(r.read, r.sequence)
  <2>1. reader' = ReaderAt(r.limit, "Header", r.taken + 1, r.sequence, 0, intact, read)
    BY <1>16, ReadsBody DEF SentInv
  <2>2. /\ Len(read) = Len(r.read) + 1 /\ read[Len(r.read) + 1] = r.sequence
        /\ \A i \in 1..Len(r.read) : read[i] = r.read[i]
    BY <1>2, AppendProperties
  <2> HIDE DEF read
  <2>3. /\ reader'.state = "Header" /\ reader'.taken = r.taken + 1
        /\ reader'.sequence = r.sequence /\ reader'.left = 0 /\ reader'.intact
        /\ reader'.read = read
    BY <1>14, <2>1 DEF ReaderAt
  <2>4. Len(r.read) \in Nat
    BY <1>2
  <2>5. \A i \in 1..Len(read) : read[i] = i
    <3> TAKE i \in 1..Len(read)
    <3>1. i = Len(r.read) + 1 \/ i \in 1..Len(r.read)
      BY <2>2, <2>4
    <3>2. CASE i = Len(r.read) + 1
      BY <1>2, <1>4, <2>2, <3>2
    <3>3. CASE i \in 1..Len(r.read)
      BY <1>4, <2>2, <3>3
    <3> QED
      BY <3>1, <3>2, <3>3
  <2>6. Len(read) = r.sequence /\ 0 = unit.body - unit.piece
    BY <1>2, <1>4, <1>14, <1>16, <2>2
  <2> HIDE DEF unit, intact
  <2> QED
    BY <1>1, <1>2, <1>14, <1>15, <2>3, <2>5, <2>6 DEF ReaderInv
<1>17. CASE r.left # 1
  <2>1. reader' = ReaderAt(r.limit, "Body", r.taken + 1, r.sequence, r.left - 1, intact, r.read)
    BY <1>17, ReadsBody DEF SentInv
  <2>2. /\ reader'.state = "Body" /\ reader'.taken = r.taken + 1
        /\ reader'.sequence = r.sequence /\ reader'.left = r.left - 1 /\ reader'.intact
        /\ reader'.read = r.read
    BY <1>14, <2>1 DEF ReaderAt
  <2>3. r.left - 1 > 0 /\ r.left - 1 # 0
    BY <1>2, <1>4, <1>17
  <2> HIDE DEF unit, intact
  <2> QED
    BY <1>1, <1>2, <1>4, <1>14, <1>15, <2>2, <2>3 DEF ReaderInv
<1> QED
  BY <1>16, <1>17

LEMMA FramesStep ==
  ASSUME FramesInv, [ConnectionNext]_connectionVars
  PROVE  FramesInv'
<1>1. SentInv' /\ FramingInv'
  BY SentStep, FramingStep DEF FramesInv
<1>2. ReaderInv'
  <2>1. CASE ReadHeader
    BY <2>1, ReaderHeader DEF FramesInv
  <2>2. CASE ReadBody
    BY <2>2, ReaderBody DEF FramesInv
  <2>3. CASE ~ReadHeader /\ ~ReadBody
    <3>1. PICK unit \in Unit : transport'.wire \in {transport.wire, Append(transport.wire, unit)}
      BY <2>3, WireGrows DEF FramesInv
    <3>2. UNCHANGED reader /\ (failures' = 0 => failures = 0)
      BY <2>3, WireGrows DEF FramesInv
    <3> QED
      BY <3>1, <3>2, ReaderKept DEF FramesInv, SentInv
  <2> QED
    BY <2>1, <2>2, <2>3
<1> QED
  BY <1>1, <1>2 DEF FramesInv

LEMMA FramesInit ==
  ASSUME ConnectionInit
  PROVE  FramesInv
<1>1. PICK kind \in Transports :
        transport = [kind |-> kind, buffer |-> <<>>, wire |-> <<>>, cut |-> FALSE]
  BY DEF ConnectionInit
<1>2. PICK limit \in BodyLimits :
        /\ writer = NewWriter(limit)
        /\ reader = [state |-> "Header", taken |-> 0, sequence |-> 0, left |-> 0,
                     limit |-> limit, intact |-> TRUE, read |-> <<>>]
  BY DEF ConnectionInit
<1>3. limit \in Nat
  BY ConnectionAssumption
<1>4. holder = None /\ Stream = <<>> /\ transport.wire = <<>>
  BY <1>1 DEF ConnectionInit, Stream
<1>5. /\ writer.send_body_limit = limit /\ writer.send_sequence = 0 /\ reader.limit = limit
  BY <1>2 DEF NewWriter
<1>6. Framed(<<>>)
  BY DEF Framed
<1>7. EndInv
  BY <1>4, <1>5 DEF EndInv, Writing, CompleteThrough
<1>8. ReaderInv
  BY <1>2, <1>4 DEF ReaderInv
<1> QED
  BY <1>3, <1>4, <1>5, <1>6, <1>7, <1>8, SentInit DEF FramesInv, FramingInv

\* While no transfer or flush failed, the reader refuses nothing and reads
\* every record in order, none torn, whatever threads write at once
\* (read_record_body_into and write_record_parts, wire.rs).
THEOREM ConnectionFramesRead == ConnectionSpec => []FramesRead
<1>1. FramesInv => FramesRead
  <2> SUFFICES ASSUME FramesInv, failures = 0
               PROVE  /\ reader.state # "Refused" /\ reader.intact
                      /\ reader.read = [i \in 1..Len(reader.read) |-> i]
    BY DEF FramesRead
  <2>1. /\ reader.state # "Refused" /\ reader.intact
        /\ \A i \in 1..Len(reader.read) : reader.read[i] = i
    BY DEF FramesInv, ReaderInv
  <2>2. reader.read \in Seq(Nat)
    BY DEF FramesInv, SentInv, ConnectionTypeOK, ReaderStates
  <2> DEFINE got == reader.read
  <2>3. got = [i \in 1..Len(got) |-> got[i]]
    BY <2>2, LenProperties
  <2>4. \A i \in 1..Len(got) : got[i] = i
    BY <2>1
  <2> HIDE DEF got
  <2>5. got = [i \in 1..Len(got) |-> i]
    BY <2>3, <2>4
  <2> QED
    BY <2>1, <2>5 DEF got
<1> QED
  BY <1>1, FramesInit, FramesStep, PTL DEF ConnectionSpec
=============================================================================

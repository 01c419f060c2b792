-------------------------- MODULE ObservationQueue --------------------------
(***************************************************************************)
(* ObservationQueue (observation.rs) between a presenter whose objects     *)
(* change and a producer that believes what it was last told of them.      *)
(* Observations are latest-wins and may be dropped; a gap names the        *)
(* classes of what was lost, and the producer queries those again.         *)
(* A payload is the version of its object; versions are counted modulo     *)
(* Versions, so an old one may look like a new one.                        *)
(***************************************************************************)
EXTENDS Integers, Collections

CONSTANTS
  Absent,
  Objects,             \* the keys observations coalesce on
  ObjectClasses,       \* the observation classes
  ClassOf,             \* object -> the class it is observed under
  QueueCapacity,
  Versions,
  MaxObservations      \* bound on the sequence

ASSUME ObservationAssumption ==
  /\ {QueueCapacity, Versions, MaxObservations} \subseteq Nat \ {0}
  /\ ClassOf \in [Objects -> ObjectClasses]
  /\ Absent \notin Nat /\ Absent \notin [first: Nat, classes: SUBSET ObjectClasses]

VARIABLES
  observations,  \* the queue: its mask, sequence, entries and pending loss
  truth,         \* object -> version, as the presenter has it
  belief         \* object -> version the producer believes, Absent when it must ask

observationVars == <<observations, truth, belief>>

\* Queue::new, and a producer that has not asked yet.
ObservationInit ==
  /\ observations = [mask |-> {}, sequence |-> 0, entries |-> <<>>, lost |-> Absent]
  /\ truth = [o \in Objects |-> 0]
  /\ belief = [o \in Objects |-> Absent]

Subscribed(o) == ClassOf[o] \in observations.mask
Queued(o) == \E i \in DOMAIN observations.entries : observations.entries[i].key = o

CoalescesWith(entry, o) == entry.key = o

\* Mutant: a loss that is pending forgets the classes it had.
LossReplaced(queue, class) == [first |-> queue.sequence + 1, classes |-> {class}]

\* note_loss: the first sequence stays, the classes add up.
Loss(queue, class) ==
  IF queue.lost = Absent
    THEN [first |-> queue.sequence + 1, classes |-> {class}]
    ELSE [queue.lost EXCEPT !.classes = @ \union {class}]

DropOldest(queue) ==
  IF Len(queue.entries) < QueueCapacity THEN queue
  ELSE [queue EXCEPT !.entries = Tail(@), !.lost = Loss(queue, ClassOf[Head(queue.entries).key])]

Push(queue, o, version) ==
  LET existing == {i \in DOMAIN queue.entries : CoalescesWith(queue.entries[i], o)}
      room     == DropOldest(queue) IN
  IF existing # {}
    THEN [queue EXCEPT !.entries[CHOOSE i \in existing : \A j \in existing : i <= j].version
                         = version]
    ELSE [room EXCEPT !.entries = Append(@, [key |-> o, version |-> version])]

\* An object changes; the presenter pushes what it became.
Change(o) ==
  LET version == (truth[o] + 1) % Versions IN
  /\ truth' = [truth EXCEPT ![o] = version]
  /\ observations' = IF Subscribed(o) THEN Push(observations, o, version) ELSE observations
  /\ UNCHANGED belief

Observed(entries, mask) ==
  AtPlaces(entries, {i \in DOMAIN entries : ClassOf[entries[i].key] \in mask})

\* SET_OBSERVATION.  What a class that is no longer observed has queued is
\* discarded, and the producer asks again for what it observes anew.
Subscribe(mask) ==
  /\ observations' = [observations EXCEPT
       !.mask = mask,
       !.entries = Observed(@, mask)]
  /\ belief' = [o \in Objects |-> IF Subscribed(o) /\ ClassOf[o] \in mask
                                    THEN belief[o] ELSE Absent]
  /\ UNCHANGED truth

\* drain_next: a pending gap comes first and takes a sequence of its own.
DrainGap ==
  /\ observations.lost # Absent
  /\ observations.sequence < MaxObservations
  /\ observations' = [observations EXCEPT !.lost = Absent, !.sequence = @ + 1]
  /\ belief' = [o \in Objects |-> IF ClassOf[o] \in observations.lost.classes
                                    THEN Absent ELSE belief[o]]
  /\ UNCHANGED truth

DrainEntry ==
  /\ observations.lost = Absent /\ observations.entries # <<>>
  /\ observations.sequence < MaxObservations
  /\ observations' = [observations EXCEPT !.entries = Tail(@), !.sequence = @ + 1]
  /\ LET entry == Head(observations.entries) IN
       belief' = [belief EXCEPT ![entry.key] = entry.version]
  /\ UNCHANGED truth

\* A query answers with the current truth, in order with the observations.
Query(o) ==
  /\ belief' = [belief EXCEPT ![o] = truth[o]]
  /\ UNCHANGED <<observations, truth>>

ObservationNext ==
  \/ \E o \in Objects : Change(o) \/ Query(o)
  \/ \E mask \in SUBSET ObjectClasses : Subscribe(mask)
  \/ DrainGap
  \/ DrainEntry

ObservationSpec == ObservationInit /\ [][ObservationNext]_observationVars

\* What the producer believes of an object it observes is true, or what
\* corrects it is still to come: an observation of the object, or a gap that
\* names its class.
BeliefSound ==
  \A o \in Objects :
    \/ ~Subscribed(o)
    \/ belief[o] \in {Absent, truth[o]}
    \/ Queued(o)
    \/ observations.lost # Absent /\ ClassOf[o] \in observations.lost.classes
=============================================================================

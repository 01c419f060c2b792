---------------------------- MODULE InputProofs ----------------------------
(***************************************************************************)
(* Proofs about InputSession: a key is held only under the grant that the  *)
(* gate holds and on the surface there is now, no grant that ended comes   *)
(* back without a greater epoch, and the producer's gate admits only what  *)
(* the presenter granted.  The invariant has a part for each machine, one  *)
(* for what is on the lane, and relates the two machines only through the  *)
(* epochs the presenter has granted, which never shrink.                   *)
(***************************************************************************)
EXTENDS InputSession, SequenceTheorems, TLAPS

Bindings == Presenter!Binding
Grants == Presenter!ActiveGrant

\* The epochs of a gate's grants that ended are not past its last binding,
\* and none of them is held again.
NotAgain(latest, actives, ended) ==
  /\ ended \subseteq Nat
  /\ \A e \in ended : latest # None /\ e <= latest.epoch
  /\ EpochsOf(actives) \intersect ended = {}

\* A gate's grant is for the last binding it applied.
ForLatest(latest, actives) ==
  /\ latest \in Bindings \union {None}
  /\ actives \subseteq Grants
  /\ \A a \in actives :
       /\ actives = {a} /\ latest # None
       /\ a.tuple.epoch = latest.epoch
       /\ a.tuple.surface_generation = latest.surface_generation
       /\ a.classes \subseteq Capability

PresenterInv ==
  /\ ForLatest(p_latest, p_active) /\ NotAgain(p_latest, p_active, spent.presenter)
  /\ p_generation \in 0..MaxGeneration /\ p_release \in 0..MaxGeneration
  /\ p_watchdog \in {0} \union Presenter!Watchdogs
  /\ p_sequence \in 0..MaxGeneration /\ p_reported \in 0..MaxGeneration
  /\ p_state = "Enabled" <=> p_active # {}

\* A release is behind every key that was let go, and there are never more
\* releases than grants.
ProducerInv ==
  /\ ForLatest(g_latest, g_active) /\ NotAgain(g_latest, g_active, spent.producer)
  /\ g_generation \in 0..MaxGeneration /\ g_release \in 0..MaxGeneration
  /\ g_release <= g_generation /\ (g_active # {} => g_release < g_generation)
  /\ \A k \in held : k.release = g_release
  /\ HeldUnderItsGrant /\ HeldOnCurrentSurface

\* The epochs that the presenter has granted.
Granted == EpochsOf(p_active) \union spent.presenter

\* A result that carries classes carries what was granted for its epoch.
Sound(record) ==
  record.kind = "Bound" =>
    /\ record.classes \subseteq Capability
    /\ record.classes # {} => record.binding.epoch \in Granted

LaneInv ==
  /\ up \in Seq(Bindings) /\ down \in Seq(Records)
  /\ \A i \in 1..Len(down) : Sound(down[i])
  /\ EpochsOf(g_active) \subseteq Granted

WorldInv ==
  /\ now \in Nat /\ epoch \in Nat /\ surface_generation \in Nat \ {0}
  /\ "capability" \in DOMAIN eligibility /\ eligibility.capability = Capability

InputInv == PresenterInv /\ ProducerInv /\ LaneInv /\ WorldInv

-----------------------------------------------------------------------------
(* Constants, bindings and grants.                                         *)
LEMMA InputConstants ==
  /\ MinWatchdog \in Nat /\ MaxWatchdog \in Nat /\ MaxGeneration \in Nat /\ MaxTime \in Nat
  /\ 0 < MinWatchdog /\ Capability \subseteq Classes /\ None \notin Bindings
  /\ MaxEpoch \in Nat /\ MaxSurfaceGeneration \in Nat
BY SessionAssumption, NoneAssumption DEF Bindings

LEMMA BindingFields ==
  ASSUME NEW b \in Bindings
  PROVE  /\ b.epoch \in Nat /\ b.epoch > 0 /\ b.classes \subseteq Classes /\ b # None
         /\ ~Presenter!Disables(b) =>
              b.surface_generation \in Nat \ {0} /\ b.watchdog \in Presenter!Watchdogs
<1>1. CASE b \in Presenter!EnabledBinding
  BY <1>1, InputConstants DEF Presenter!EnabledBinding, Presenter!Disables
<1>2. CASE b \in Presenter!DisabledBinding
  BY <1>2, InputConstants DEF Presenter!DisabledBinding, Presenter!Disables
<1> QED
  BY <1>1, <1>2 DEF Bindings, Presenter!Binding

LEMMA GrantFields ==
  ASSUME NEW a \in Grants
  PROVE  /\ a.tuple \in Presenter!Tuple /\ a.tuple.epoch \in Nat
         /\ a.tuple.surface_generation \in Nat \ {0}
         /\ a.classes \subseteq Classes /\ a.classes # {}
         /\ a.watchdog \in Presenter!Watchdogs
         /\ a.renewal \in Nat /\ a.deadline \in 0..MaxTime
         /\ a = [tuple |-> a.tuple, classes |-> a.classes, watchdog |-> a.watchdog,
                 deadline |-> a.deadline, renewal |-> a.renewal]
<1>1. /\ a.tuple \in Presenter!Tuple
      /\ a.classes \in (SUBSET Classes) \ {{}}
      /\ a.watchdog \in Presenter!Watchdogs
      /\ a.renewal \in Nat /\ a.deadline \in 0..MaxTime
      /\ a = [tuple |-> a.tuple, classes |-> a.classes, watchdog |-> a.watchdog,
              deadline |-> a.deadline, renewal |-> a.renewal]
  BY DEF Grants, Presenter!ActiveGrant
<1>2. a.tuple.epoch \in Nat \ {0} /\ a.tuple.surface_generation \in Nat \ {0}
  BY <1>1 DEF Presenter!Tuple
<1> QED
  BY <1>1, <1>2

\* The grant that a gate issues.
LEMMA NewGrant ==
  ASSUME NEW b \in Bindings, ~Presenter!Disables(b), NEW c \in SUBSET Classes, c # {},
         NEW w \in Presenter!Watchdogs, NEW t \in Nat, t + w <= MaxTime, NEW n \in Nat,
         NEW a,
         a = [tuple    |-> [epoch              |-> b.epoch,
                            generation         |-> n + 1,
                            surface_generation |-> b.surface_generation],
              classes  |-> c,
              watchdog |-> w,
              deadline |-> t + w,
              renewal  |-> 0]
  PROVE  /\ a \in Grants /\ a.tuple.epoch = b.epoch
         /\ a.tuple.surface_generation = b.surface_generation
         /\ a.classes = c /\ a.watchdog = w
<1>1. /\ b.epoch \in Nat \ {0} /\ b.surface_generation \in Nat \ {0} /\ n + 1 \in Nat \ {0}
  BY BindingFields
<1>2. w \in Nat /\ t + w \in 0..MaxTime
  BY InputConstants DEF Presenter!Watchdogs
<1>3. PICK d \in 0..MaxTime : d = t + w
  BY <1>2
<1>4. PICK u : u = [epoch |-> b.epoch, generation |-> n + 1,
                    surface_generation |-> b.surface_generation]
  OBVIOUS
<1>5. u \in Presenter!Tuple /\ u.epoch = b.epoch /\ u.surface_generation = b.surface_generation
  BY <1>1, <1>4 DEF Presenter!Tuple
<1>6. a = [tuple |-> u, classes |-> c, watchdog |-> w, deadline |-> d, renewal |-> 0]
  BY <1>3, <1>4
<1>7. c \in (SUBSET Classes) \ {{}} /\ 0 \in Nat
  OBVIOUS
<1>8. a \in Grants
  BY <1>5, <1>6, <1>7 DEF Grants, Presenter!ActiveGrant
<1> QED
  BY <1>5, <1>6, <1>8

-----------------------------------------------------------------------------
(* What a gate's calls do to its grant.                                    *)
Replaces(b, latest, actives, latest2, actives2) ==
  /\ latest # None => latest.epoch < b.epoch
  /\ latest2 = b
  /\ \/ actives2 = {}
     \/ \E a \in Grants :
          /\ actives2 = {a} /\ a.tuple.epoch = b.epoch
          /\ a.tuple.surface_generation = b.surface_generation
          /\ a.classes \subseteq Capability

Ended(ended, actives, actives2) == ended \union (EpochsOf(actives) \ EpochsOf(actives2))

LEMMA GrantReplaced ==
  ASSUME NEW b \in Bindings, NEW l, NEW A, NEW E, NEW A2, NEW E2,
         ForLatest(l, A), NotAgain(l, A, E), Replaces(b, l, A, b, A2), E2 = Ended(E, A, A2)
  PROVE  /\ ForLatest(b, A2) /\ NotAgain(b, A2, E2)
         /\ EpochsOf(A) \union E \subseteq EpochsOf(A2) \union E2
<1>1. b.epoch \in Nat /\ b # None
  BY BindingFields
<1>2. \A e \in E2 : e \in Nat /\ e < b.epoch
  <2> SUFFICES ASSUME NEW e \in E2 PROVE e \in Nat /\ e < b.epoch
    OBVIOUS
  <2>1. e \in E \/ \E a \in A : e = a.tuple.epoch
    BY DEF Ended, EpochsOf
  <2>2. l # None => l.epoch \in Nat
    BY BindingFields DEF ForLatest
  <2>3. CASE e \in E
    BY <1>1, <2>2, <2>3 DEF NotAgain, Replaces
  <2>4. CASE \E a \in A : e = a.tuple.epoch
    BY <1>1, <2>2, <2>4 DEF ForLatest, Replaces
  <2> QED
    BY <2>1, <2>3, <2>4
<1>3. ForLatest(b, A2)
  BY <1>1 DEF ForLatest, Replaces
<1>4. \A e \in EpochsOf(A2) : e = b.epoch
  BY DEF EpochsOf, Replaces
<1>5. NotAgain(b, A2, E2)
  BY <1>1, <1>2, <1>4 DEF NotAgain
<1>6. EpochsOf(A) \union E \subseteq EpochsOf(A2) \union E2
  BY DEF Ended
<1> QED
  BY <1>3, <1>5, <1>6

LEMMA GrantEnded ==
  ASSUME NEW l, NEW A, NEW E, NEW E2,
         ForLatest(l, A), NotAgain(l, A, E), E2 = Ended(E, A, {})
  PROVE  /\ ForLatest(l, {}) /\ NotAgain(l, {}, E2)
         /\ EpochsOf(A) \union E \subseteq EpochsOf({}) \union E2
<1>1. l # None => l.epoch \in Nat
  BY BindingFields DEF ForLatest
<1>2. \A e \in EpochsOf(A) : l # None /\ e = l.epoch
  BY DEF EpochsOf, ForLatest
<1>3. EpochsOf({}) = {}
  BY DEF EpochsOf
<1>4. E2 = E \union EpochsOf(A)
  BY <1>3 DEF Ended
<1>5. NotAgain(l, {}, E2)
  <2>1. \A e \in E2 : e \in Nat /\ l # None /\ e <= l.epoch
    BY <1>1, <1>2, <1>4 DEF NotAgain
  <2> QED
    BY <1>3, <2>1 DEF NotAgain
<1>6. ForLatest(l, {})
  BY DEF ForLatest
<1> QED
  BY <1>4, <1>5, <1>6

\* A renewal changes nothing of a grant but its deadline and its sequence.
Renews(A, A2) ==
  \E a \in A, c \in Grants : /\ A2 = {c} /\ c.tuple = a.tuple /\ c.classes = a.classes
                             /\ c.watchdog = a.watchdog

LEMMA GrantRenewed ==
  ASSUME NEW l, NEW A, NEW E, NEW A2,
         ForLatest(l, A), NotAgain(l, A, E), Renews(A, A2)
  PROVE  /\ ForLatest(l, A2) /\ NotAgain(l, A2, E) /\ EpochsOf(A2) = EpochsOf(A)
         /\ Ended(E, A, A2) = E
<1>1. PICK a \in A, c \in Grants : A2 = {c} /\ c.tuple = a.tuple /\ c.classes = a.classes
  BY DEF Renews
<1>2. A = {a}
  BY <1>1 DEF ForLatest
<1>3. EpochsOf(A2) = EpochsOf(A)
  BY <1>1, <1>2 DEF EpochsOf
<1>4. ForLatest(l, A2)
  BY <1>1 DEF ForLatest
<1> QED
  BY <1>3, <1>4 DEF NotAgain, Ended

\* What a renewal writes.
LEMMA RenewedGrant ==
  ASSUME NEW a \in Grants, NEW s \in Nat, NEW d \in 0..MaxTime, NEW c,
         c = [tuple |-> a.tuple, classes |-> a.classes, watchdog |-> a.watchdog,
              deadline |-> d, renewal |-> s]
  PROVE  /\ c \in Grants /\ c.tuple = a.tuple /\ c.classes = a.classes
         /\ c.watchdog = a.watchdog /\ c.renewal = s
<1>1. /\ a.tuple \in Presenter!Tuple /\ a.classes \in (SUBSET Classes) \ {{}}
      /\ a.watchdog \in Presenter!Watchdogs
  BY GrantFields
<1>2. c \in Grants
  BY <1>1 DEF Grants, Presenter!ActiveGrant
<1> QED
  BY <1>2

-----------------------------------------------------------------------------
(* The presenter's gate.                                                   *)
LEMMA PresenterParts ==
  ASSUME PresenterInv
  PROVE  /\ ForLatest(p_latest, p_active) /\ NotAgain(p_latest, p_active, spent.presenter)
         /\ p_latest \in Bindings \union {None}
         /\ \A a \in p_active :
              /\ a \in Grants /\ p_active = {a} /\ p_latest # None
              /\ a.tuple.epoch = p_latest.epoch
              /\ a.tuple.surface_generation = p_latest.surface_generation
              /\ a.classes \subseteq Capability
BY DEF PresenterInv, ForLatest

LEMMA PresenterStands ==
  ASSUME PresenterInv, UNCHANGED presenterVars, spent'.presenter = spent.presenter
  PROVE  PresenterInv' /\ Granted' = Granted
BY DEF PresenterInv, presenterVars, ForLatest, NotAgain, EpochsOf, Granted

\* What is spent by a step that leaves a gate alone.
LEMMA SpendParts ==
  ASSUME Spend
  PROVE  /\ spent'.presenter = Ended(spent.presenter, p_active, p_active')
         /\ spent'.producer = Ended(spent.producer, g_active, g_active')
         /\ p_active' = p_active => spent'.presenter = spent.presenter
         /\ g_active' = g_active => spent'.producer = spent.producer
BY DEF Spend, Ended, EpochsOf

PresenterGate == <<p_latest, p_generation, p_active, p_release>>

LEMMA PresenterApplies ==
  ASSUME PresenterInv, WorldInv, NEW b \in Bindings, NEW c \in SUBSET Capability, NEW w,
         Presenter!ApplyBinding(b, c, w, now)
  PROVE  \/ /\ UNCHANGED PresenterGate
            /\ p_result' \in {"BadState", "Exhausted"} \/ (p_result' = "ExactRetry" /\ b = p_latest)
         \/ /\ Replaces(b, p_latest, p_active, p_latest', p_active')
            /\ p_generation' \in 0..MaxGeneration /\ p_release' \in 0..MaxGeneration
            /\ \/ p_active' = {} /\ p_result' = IF Presenter!Disables(b) THEN "Disabled" ELSE "Denied"
               \/ /\ p_result' = "Enabled" /\ p_active' # {} /\ w \in Presenter!Watchdogs
                  /\ ~Presenter!Disables(b)
<1> DEFINE classes == c \intersect b.classes
           grants == ~Presenter!Disables(b) /\ classes # {} /\ w \in Presenter!Watchdogs
<1>1. CASE UNCHANGED PresenterGate
           /\ (p_result' \in {"BadState", "Exhausted"}
               \/ (p_result' = "ExactRetry" /\ b = p_latest))
  BY <1>1
<1>2. CASE /\ Presenter!NewerThanLatest(b) /\ Presenter!CanAdvance /\ p_latest' = b
           /\ Presenter!AdvanceGenerations
           /\ \/ /\ ~grants /\ p_active' = {}
                 /\ p_result' = IF Presenter!Disables(b) THEN "Disabled" ELSE "Denied"
              \/ /\ grants /\ now + w <= MaxTime /\ p_result' = "Enabled"
                 /\ p_active' =
                      {[tuple    |-> [epoch              |-> b.epoch,
                                      generation         |-> p_generation + 1,
                                      surface_generation |-> b.surface_generation],
                        classes  |-> classes,
                        watchdog |-> w,
                        deadline |-> now + w,
                        renewal  |-> 0]}
  <2>1. p_generation' \in 0..MaxGeneration /\ p_release' \in 0..MaxGeneration
    <3>1. /\ p_generation \in 0..MaxGeneration /\ p_generation < MaxGeneration
          /\ p_release \in 0..MaxGeneration
          /\ p_active # {} => p_release < MaxGeneration
      BY <1>2 DEF PresenterInv, Presenter!CanAdvance
    <3>2. /\ p_generation' = p_generation + 1
          /\ p_release' = IF p_active # {} THEN p_release + 1 ELSE p_release
      BY <1>2 DEF Presenter!AdvanceGenerations
    <3> QED
      BY <3>1, <3>2, InputConstants
  <2>2. p_latest # None => p_latest.epoch < b.epoch
    BY <1>2 DEF Presenter!NewerThanLatest
  <2>3. CASE ~grants
    <3>1. /\ p_active' = {}
          /\ p_result' = IF Presenter!Disables(b) THEN "Disabled" ELSE "Denied"
      BY <1>2, <2>3
    <3> QED
      BY <1>2, <2>1, <2>2, <3>1 DEF Replaces
  <2>4. CASE grants
    <3>1. PICK a : a = [tuple    |-> [epoch              |-> b.epoch,
                                      generation         |-> p_generation + 1,
                                      surface_generation |-> b.surface_generation],
                        classes  |-> classes,
                        watchdog |-> w,
                        deadline |-> now + w,
                        renewal  |-> 0]
      OBVIOUS
    <3>2. p_active' = {a} /\ p_result' = "Enabled" /\ now + w <= MaxTime
      BY <1>2, <2>4, <3>1
    <3>3. classes \in SUBSET Classes /\ classes # {} /\ classes \subseteq Capability
      BY <2>4, BindingFields
    <3>4. now \in Nat /\ p_generation \in Nat
      BY InputConstants DEF WorldInv, PresenterInv
    <3> HIDE DEF classes
    <3>5. /\ a \in Grants /\ a.tuple.epoch = b.epoch
          /\ a.tuple.surface_generation = b.surface_generation /\ a.classes = classes
      BY <2>4, <3>1, <3>2, <3>3, <3>4, NewGrant
    <3>6. Replaces(b, p_latest, p_active, p_latest', p_active')
      BY <1>2, <2>2, <3>2, <3>3, <3>5 DEF Replaces
    <3> QED
      BY <2>1, <2>4, <3>2, <3>6
  <2> QED
    BY <2>3, <2>4
<1> QED
  BY <1>1, <1>2 DEF Presenter!ApplyBinding, Presenter!GateRefuses, Presenter!GateReturns,
     Presenter!gateState, PresenterGate

LEMMA PresenterAnswersDisable ==
  ASSUME PresenterInv, WorldInv, NEW b \in Bindings, Presenter!ApplyDisable(b, now)
  PROVE  /\ \/ UNCHANGED <<p_latest, p_active>>
            \/ Replaces(b, p_latest, p_active, p_latest', p_active')
         /\ p_generation' \in 0..MaxGeneration /\ p_release' \in 0..MaxGeneration
         /\ p_watchdog' \in {0} \union Presenter!Watchdogs
         /\ p_sequence' \in 0..MaxGeneration /\ p_reported' \in 0..MaxGeneration
         /\ p_state' = "Enabled" <=> p_active' # {}
         /\ p_result' \notin {"BadState", "Exhausted"} => p_active' = {}
<1>1. /\ Presenter!Disables(b) /\ Presenter!ApplyBinding(b, {}, 0, now)
      /\ IF p_result' \in {"BadState", "Exhausted"}
           THEN UNCHANGED <<p_watchdog, p_sequence, p_state, p_reported>>
           ELSE /\ p_watchdog' = 0 /\ p_sequence' = 0 /\ p_state' = "Disabled"
                /\ UNCHANGED p_reported
  BY DEF Presenter!ApplyDisable, Presenter!grantFields
<1>2. {} \in SUBSET Capability /\ 0 \in 0..MaxGeneration
  BY InputConstants
<1>3. b = p_latest => p_active = {}
  <2> SUFFICES ASSUME b = p_latest, NEW a \in p_active PROVE FALSE
    OBVIOUS
  <2>1. a \in Grants /\ a.tuple.surface_generation = 0
    BY <1>1, PresenterParts DEF Presenter!Disables
  <2> QED
    BY <2>1, GrantFields
<1>4. CASE /\ UNCHANGED PresenterGate
           /\ p_result' \in {"BadState", "Exhausted"} \/ (p_result' = "ExactRetry" /\ b = p_latest)
  BY <1>1, <1>2, <1>3, <1>4 DEF PresenterGate, PresenterInv
<1>5. CASE /\ Replaces(b, p_latest, p_active, p_latest', p_active')
           /\ p_generation' \in 0..MaxGeneration /\ p_release' \in 0..MaxGeneration
           /\ \/ p_active' = {} /\ p_result' = IF Presenter!Disables(b) THEN "Disabled" ELSE "Denied"
              \/ /\ p_result' = "Enabled" /\ p_active' # {} /\ 0 \in Presenter!Watchdogs
                 /\ ~Presenter!Disables(b)
  BY <1>1, <1>2, <1>5 DEF PresenterInv
<1> QED
  BY <1>1, <1>2, <1>4, <1>5, PresenterApplies

LEMMA PresenterAnswersEnable ==
  ASSUME PresenterInv, WorldInv, NEW b \in Bindings, Presenter!ApplyEnable(b, eligibility, now)
  PROVE  /\ \/ UNCHANGED <<p_latest, p_active>>
            \/ Replaces(b, p_latest, p_active, p_latest', p_active')
         /\ p_generation' \in 0..MaxGeneration /\ p_release' \in 0..MaxGeneration
         /\ p_watchdog' \in {0} \union Presenter!Watchdogs
         /\ p_sequence' \in 0..MaxGeneration /\ p_reported' \in 0..MaxGeneration
         /\ p_state' = "Enabled" <=> p_active' # {}
         /\ p_result' \notin {"BadState", "Exhausted"} =>
              p_latest' = b
<1> DEFINE c == IF Presenter!Eligible(eligibility, b) THEN eligibility.capability ELSE {}
<1>1. /\ ~Presenter!Disables(b) /\ Presenter!ApplyBinding(b, c, b.watchdog, now)
      /\ \/ /\ p_result' = "Enabled"
            /\ p_reported' = p_generation' /\ p_watchdog' = b.watchdog
            /\ p_sequence' = 0 /\ p_state' = "Enabled"
         \/ /\ p_result' = "Denied"
            /\ p_reported' = p_generation' /\ p_watchdog' = 0 /\ p_state' = "Denied"
            /\ UNCHANGED p_sequence
         \/ /\ p_result' \in {"ExactRetry", "BadState", "Exhausted"}
            /\ UNCHANGED <<p_watchdog, p_sequence, p_state, p_reported>>
  BY DEF Presenter!ApplyEnable, Presenter!grantFields
<1>2. c \in SUBSET Capability /\ 0 \in 0..MaxGeneration
  BY InputConstants DEF WorldInv
<1> HIDE DEF c
<1>3. CASE /\ UNCHANGED PresenterGate
           /\ p_result' \in {"BadState", "Exhausted"} \/ (p_result' = "ExactRetry" /\ b = p_latest)
  BY <1>1, <1>2, <1>3 DEF PresenterGate, PresenterInv
<1>4. CASE /\ Replaces(b, p_latest, p_active, p_latest', p_active')
           /\ p_generation' \in 0..MaxGeneration /\ p_release' \in 0..MaxGeneration
           /\ \/ p_active' = {} /\ p_result' = IF Presenter!Disables(b) THEN "Disabled" ELSE "Denied"
              \/ /\ p_result' = "Enabled" /\ p_active' # {} /\ b.watchdog \in Presenter!Watchdogs
                 /\ ~Presenter!Disables(b)
  <2>1. p_latest' = b
    BY <1>4 DEF Replaces
  <2> QED
    BY <1>1, <1>2, <1>4, <2>1 DEF PresenterInv
<1> QED
  BY <1>1, <1>2, <1>3, <1>4, PresenterApplies

\* The presenter applied a binding, and answers with what it granted.
LEMMA PresenterAnswered ==
  ASSUME PresenterInv, WorldInv, NEW b \in Bindings, Presenter!Apply(b, eligibility, now), Spend
  PROVE  /\ PresenterInv' /\ Granted \subseteq Granted'
         /\ p_result' \notin {"BadState", "Exhausted"} =>
              /\ Bound(b) \in Records
              /\ Bound(b).classes \subseteq Capability /\ Bound(b).binding = b
              /\ Bound(b).classes # {} => b.epoch \in Granted'
<1>1. /\ \/ UNCHANGED <<p_latest, p_active>>
         \/ Replaces(b, p_latest, p_active, p_latest', p_active')
      /\ p_generation' \in 0..MaxGeneration /\ p_release' \in 0..MaxGeneration
      /\ p_watchdog' \in {0} \union Presenter!Watchdogs
      /\ p_sequence' \in 0..MaxGeneration /\ p_reported' \in 0..MaxGeneration
      /\ p_state' = "Enabled" <=> p_active' # {}
      /\ p_result' \notin {"BadState", "Exhausted"} => p_active' = {} \/ p_latest' = b
  BY PresenterAnswersDisable, PresenterAnswersEnable DEF Presenter!Apply
<1>2. /\ ForLatest(p_latest', p_active')
      /\ NotAgain(p_latest', p_active', spent'.presenter)
      /\ EpochsOf(p_active) \union spent.presenter
           \subseteq EpochsOf(p_active') \union spent'.presenter
  <2>1. CASE UNCHANGED <<p_latest, p_active>>
    BY <2>1, SpendParts, PresenterParts
  <2>2. CASE Replaces(b, p_latest, p_active, p_latest', p_active')
    <3>1. p_latest' = b
      BY <2>2 DEF Replaces
    <3>2. Replaces(b, p_latest, p_active, b, p_active')
      BY <2>2, <3>1
    <3> QED
      BY <3>1, <3>2, SpendParts, PresenterParts, GrantReplaced
  <2> QED
    BY <1>1, <2>1, <2>2
<1>3. PresenterInv'
  BY <1>1, <1>2 DEF PresenterInv, ForLatest, NotAgain, EpochsOf
<1>4. Granted \subseteq Granted'
  BY <1>2 DEF Granted, EpochsOf
<1>5. ASSUME p_result' \notin {"BadState", "Exhausted"}
      PROVE  /\ Bound(b) \in Records
             /\ Bound(b).classes \subseteq Capability /\ Bound(b).binding = b
             /\ Bound(b).classes # {} => b.epoch \in Granted'
  <2>1. PICK c : c = UNION {a.classes : a \in {x \in p_active' : p_state' = "Enabled"}}
    OBVIOUS
  <2>2. PICK w : w = IF p_active' # {} /\ p_state' = "Enabled" THEN p_watchdog' ELSE 0
    OBVIOUS
  <2>3. Bound(b) = [kind |-> "Bound", binding |-> b, classes |-> c, watchdog |-> w]
    BY <2>1, <2>2 DEF Bound
  <2>4. w \in {0} \union Presenter!Watchdogs
    BY <1>1, <2>2
  <2>5. c \subseteq Capability
    BY <1>2, <2>1 DEF ForLatest
  <2>6. c # {} => b.epoch \in Granted'
    <3> SUFFICES ASSUME c # {} PROVE b.epoch \in Granted'
      OBVIOUS
    <3>1. PICK a \in p_active' : TRUE
      BY <2>1
    <3>2. p_latest' = b
      BY <1>1, <1>5, <3>1
    <3>3. a.tuple.epoch = b.epoch
      BY <1>2, <3>1, <3>2 DEF ForLatest
    <3> QED
      BY <3>1, <3>3 DEF Granted, EpochsOf
  <2>7. c \in SUBSET Classes /\ b \in Presenter!Binding
    BY <2>5, InputConstants DEF Bindings
  <2>8. [kind |-> "Bound", binding |-> b, classes |-> c, watchdog |-> w] \in Records
    BY <2>4, <2>7 DEF Records
  <2> QED
    BY <2>3, <2>5, <2>6, <2>8
<1> QED
  BY <1>3, <1>4, <1>5

LEMMA PresenterRevoked ==
  ASSUME PresenterInv, Presenter!RevokeGrant, Spend
  PROVE  PresenterInv' /\ Granted \subseteq Granted'
<1>1. CASE UNCHANGED <<p_latest, p_generation, p_active, p_release, p_watchdog, p_sequence,
                       p_state, p_reported>>
  <2>1. spent'.presenter = spent.presenter
    BY <1>1, SpendParts
  <2> QED
    BY <1>1, <2>1 DEF PresenterInv, ForLatest, NotAgain, EpochsOf, Granted
<1>2. CASE /\ Presenter!CanAdvance /\ p_active' = {} /\ p_latest' = p_latest
           /\ Presenter!AdvanceGenerations
           /\ p_reported' = p_generation' /\ p_watchdog' = 0 /\ p_sequence' = 0
           /\ p_state' = "Disabled"
  <2>1. p_generation' \in 0..MaxGeneration /\ p_release' \in 0..MaxGeneration
    <3>1. /\ p_generation \in 0..MaxGeneration /\ p_generation < MaxGeneration
          /\ p_release \in 0..MaxGeneration
          /\ p_active # {} => p_release < MaxGeneration
      BY <1>2 DEF PresenterInv, Presenter!CanAdvance
    <3>2. /\ p_generation' = p_generation + 1
          /\ p_release' = IF p_active # {} THEN p_release + 1 ELSE p_release
      BY <1>2 DEF Presenter!AdvanceGenerations
    <3> QED
      BY <3>1, <3>2, InputConstants
  <2>2. /\ ForLatest(p_latest, {}) /\ NotAgain(p_latest, {}, spent'.presenter)
        /\ EpochsOf(p_active) \union spent.presenter \subseteq EpochsOf({}) \union spent'.presenter
    <3>1. spent'.presenter = Ended(spent.presenter, p_active, {})
      BY <1>2, SpendParts
    <3> QED
      BY <3>1, PresenterParts, GrantEnded
  <2>3. 0 \in 0..MaxGeneration
    BY InputConstants
  <2>4. PresenterInv'
    BY <1>2, <2>1, <2>2, <2>3 DEF PresenterInv, ForLatest, NotAgain, EpochsOf
  <2> QED
    BY <1>2, <2>2, <2>4 DEF Granted, EpochsOf
<1> QED
  BY <1>1, <1>2 DEF Presenter!RevokeGrant, Presenter!RevokeGate, Presenter!GateRefuses,
     Presenter!GateReturns, Presenter!gateState, Presenter!grantFields

LEMMA PresenterRenewed ==
  ASSUME PresenterInv, WorldInv, Presenter!DueRenewal(now), UNCHANGED spent
  PROVE  /\ PresenterInv' /\ Granted' = Granted
         /\ p_result' = "Renewed" => \A a \in p_active' :
              [kind |-> "Renew", tuple |-> a.tuple, sequence |-> a.renewal,
               watchdog |-> p_watchdog] \in Records
<1>1. CASE /\ UNCHANGED <<p_latest, p_generation, p_active, p_release, p_watchdog, p_state,
                          p_reported>>
           /\ p_sequence' \in 0..MaxGeneration /\ p_result' # "Renewed"
  BY <1>1 DEF PresenterInv, ForLatest, NotAgain, EpochsOf, Granted
<1>2. CASE /\ p_sequence < MaxGeneration /\ p_sequence' = p_sequence + 1
           /\ UNCHANGED <<p_latest, p_generation, p_release, p_watchdog, p_state, p_reported>>
           /\ \E t, a \in p_active :
                /\ Presenter!Renewable(a, t.tuple, p_sequence + 1, p_watchdog, now)
                /\ p_active' = {[a EXCEPT !.renewal = p_sequence + 1,
                                          !.deadline = now + p_watchdog]}
  <2>1. PICK a \in p_active :
          /\ p_watchdog = a.watchdog /\ now + p_watchdog <= MaxTime
          /\ p_active' = {[a EXCEPT !.renewal = p_sequence + 1, !.deadline = now + p_watchdog]}
    BY <1>2 DEF Presenter!Renewable
  <2>2. /\ a \in Grants /\ now \in Nat /\ p_watchdog \in Presenter!Watchdogs
    BY <2>1, PresenterParts, GrantFields DEF WorldInv
  <2>3. p_sequence + 1 \in Nat /\ p_sequence' \in 0..MaxGeneration
    BY <1>2, InputConstants DEF PresenterInv
  <2>4. PICK s \in Nat : s = p_sequence + 1
    BY <2>3
  <2>5. PICK c : c = [a EXCEPT !.renewal = s, !.deadline = now + p_watchdog]
    OBVIOUS
  <2>6. /\ c \in Grants /\ c.tuple = a.tuple /\ c.classes = a.classes
        /\ c.watchdog = a.watchdog /\ c.renewal = s
    <3>1. PICK d \in 0..MaxTime : d = now + p_watchdog
      BY <2>1, <2>2, InputConstants DEF Presenter!Watchdogs
    <3> DEFINE x == [a EXCEPT !.renewal = s]
    <3>2. c = [x EXCEPT !.deadline = d]
      BY <2>2, <2>5, <3>1, GrantFields
    <3>3. x = [tuple |-> a.tuple, classes |-> a.classes, watchdog |-> a.watchdog,
               deadline |-> a.deadline, renewal |-> s]
      BY <2>2, GrantFields
    <3> HIDE DEF x
    <3>4. c = [tuple |-> a.tuple, classes |-> a.classes, watchdog |-> a.watchdog,
               deadline |-> d, renewal |-> s]
      BY <3>2, <3>3
    <3> QED
      BY <2>2, <3>4, RenewedGrant
  <2>7. p_active' = {c}
    BY <2>1, <2>4, <2>5
  <2>8. Renews(p_active, {c})
    BY <2>6 DEF Renews
  <2>9. /\ ForLatest(p_latest, {c}) /\ NotAgain(p_latest, {c}, spent.presenter)
        /\ EpochsOf({c}) = EpochsOf(p_active)
    BY <2>8, PresenterParts, GrantRenewed
  <2>10. PresenterInv'
    BY <1>2, <2>3, <2>7, <2>9 DEF PresenterInv, ForLatest, NotAgain, EpochsOf
  <2>11. Granted' = Granted
    BY <2>7, <2>9 DEF Granted, EpochsOf
  <2>12. [kind |-> "Renew", tuple |-> c.tuple, sequence |-> s, watchdog |-> p_watchdog] \in Records
    BY <2>2, <2>6, GrantFields DEF Records
  <2> QED
    BY <2>6, <2>7, <2>10, <2>11, <2>12
<1>3. p_sequence \in 0..MaxGeneration
  BY DEF PresenterInv
<1>4. p_sequence < MaxGeneration => p_sequence + 1 \in 0..MaxGeneration
  BY <1>3, InputConstants
<1> QED
  BY <1>1, <1>2, <1>3, <1>4 DEF Presenter!DueRenewal, Presenter!Renew, Presenter!GateRefuses,
     Presenter!GateReturns, Presenter!gateState, Presenter!grantFields

-----------------------------------------------------------------------------
(* The producer's gate and its injector.                                   *)
ProducerGate == <<g_latest, g_generation, g_active, g_release>>

LEMMA ProducerParts ==
  ASSUME ProducerInv
  PROVE  /\ ForLatest(g_latest, g_active) /\ NotAgain(g_latest, g_active, spent.producer)
         /\ \A a \in g_active : a \in Grants /\ g_active = {a}
         /\ g_generation \in 0..MaxGeneration /\ g_release \in 0..MaxGeneration
         /\ g_generation \in Nat /\ g_release \in Nat
         /\ g_release <= g_generation /\ (g_active # {} => g_release < g_generation)
         /\ \A k \in held : k.release = g_release /\ \E a \in g_active : a.tuple = k.tuple
BY InputConstants DEF ProducerInv, ForLatest, HeldUnderItsGrant

LEMMA ProducerStands ==
  ASSUME ProducerInv, UNCHANGED <<producerVars, surface_generation, held>>,
         spent'.producer = spent.producer
  PROVE  ProducerInv'
BY DEF ProducerInv, producerVars, ForLatest, NotAgain, EpochsOf, HeldUnderItsGrant,
   HeldOnCurrentSurface

\* A gate that goes on to its next generation lets go of every key.
LEMMA LetGo ==
  ASSUME ProducerInv, Producer!CanAdvance, Producer!AdvanceGenerations,
         held' = StillHeld(held)
  PROVE  /\ held' = {}
         /\ g_generation' \in 0..MaxGeneration /\ g_release' \in 0..MaxGeneration
         /\ g_release' < g_generation' /\ g_release' <= g_generation'
<1>1. /\ g_generation < MaxGeneration /\ (g_active # {} => g_release < MaxGeneration)
      /\ g_generation' = g_generation + 1
      /\ g_release' = IF g_active # {} THEN g_release + 1 ELSE g_release
  BY DEF Producer!CanAdvance, Producer!AdvanceGenerations
<1>2. /\ g_generation \in Nat /\ g_release \in Nat /\ g_release <= g_generation
      /\ g_release \in 0..MaxGeneration
      /\ g_active # {} => g_release < g_generation
      /\ \A k \in held : k.release = g_release /\ g_active # {}
  BY ProducerParts
<1>3. held' = {}
  BY <1>1, <1>2 DEF StillHeld
<1>4. g_release' < g_generation' /\ g_release' <= g_generation'
  BY <1>1, <1>2
<1>5. g_generation' \in 0..MaxGeneration /\ g_release' \in 0..MaxGeneration
  BY <1>1, <1>2, InputConstants
<1> QED
  BY <1>3, <1>4, <1>5

LEMMA ProducerGivesUp ==
  ASSUME ProducerInv, Producer!RevokeGate, held' = StillHeld(held), Spend
  PROVE  ProducerInv' /\ EpochsOf(g_active)' \subseteq EpochsOf(g_active)
<1>1. CASE ~Producer!CanAdvance /\ UNCHANGED ProducerGate
  <2>1. held' = held
    BY <1>1, ProducerParts DEF StillHeld, ProducerGate
  <2>2. spent'.producer = spent.producer
    BY <1>1, SpendParts DEF ProducerGate
\* A gate that cannot go on has no generation left, as it released less often
\* than it granted.
  <2>3. g_generation >= MaxGeneration
    BY <1>1, ProducerParts, InputConstants DEF Producer!CanAdvance
  <2>4. HeldOnCurrentSurface'
    BY <1>1, <2>3, ProducerParts, InputConstants DEF HeldOnCurrentSurface, ProducerGate
  <2> QED
    BY <1>1, <2>1, <2>2, <2>4 DEF ProducerInv, ProducerGate, ForLatest, NotAgain, EpochsOf,
       HeldUnderItsGrant
<1>2. CASE /\ Producer!CanAdvance /\ Producer!AdvanceGenerations
           /\ g_active' = {} /\ g_latest' = g_latest
  <2>1. /\ held' = {} /\ g_generation' \in 0..MaxGeneration /\ g_release' \in 0..MaxGeneration
        /\ g_release' <= g_generation'
    BY <1>2, LetGo
  <2>2. ForLatest(g_latest, {}) /\ NotAgain(g_latest, {}, spent'.producer)
    <3>1. spent'.producer = Ended(spent.producer, g_active, {})
      BY <1>2, SpendParts
    <3> QED
      BY <3>1, ProducerParts, GrantEnded
  <2>3. ProducerInv'
    BY <1>2, <2>1, <2>2 DEF ProducerInv, ForLatest, NotAgain, EpochsOf, HeldUnderItsGrant,
       HeldOnCurrentSurface
  <2> QED
    BY <1>2, <2>3 DEF EpochsOf
<1> QED
  BY <1>1, <1>2 DEF Producer!RevokeGate, Producer!GateRefuses, Producer!GateReturns,
     Producer!gateState, ProducerGate

LEMMA ProducerBound ==
  ASSUME ProducerInv, WorldInv, NEW b \in Bindings, NEW c \in SUBSET Capability, NEW w,
         Producer!ApplyBinding(b, c, w, now), held' = StillHeld(held),
         UNCHANGED surface_generation, Spend
  PROVE  /\ ProducerInv'
         /\ \A e \in EpochsOf(g_active)' : e \in EpochsOf(g_active) \/ (e = b.epoch /\ c # {})
<1> DEFINE classes == c \intersect b.classes
           grants == ~Producer!Disables(b) /\ classes # {} /\ w \in Producer!Watchdogs
<1>1. CASE UNCHANGED ProducerGate
  <2>1. held' = held
    BY <1>1, ProducerParts DEF StillHeld, ProducerGate
  <2>2. spent'.producer = spent.producer
    BY <1>1, SpendParts DEF ProducerGate
  <2> QED
    BY <1>1, <2>1, <2>2 DEF ProducerInv, ProducerGate, ForLatest, NotAgain, EpochsOf,
       HeldUnderItsGrant, HeldOnCurrentSurface
<1>2. CASE /\ Producer!NewerThanLatest(b) /\ Producer!CanAdvance /\ g_latest' = b
           /\ Producer!AdvanceGenerations
           /\ \/ ~grants /\ g_active' = {}
              \/ /\ grants /\ now + w <= MaxTime
                 /\ g_active' =
                      {[tuple    |-> [epoch              |-> b.epoch,
                                      generation         |-> g_generation + 1,
                                      surface_generation |-> b.surface_generation],
                        classes  |-> classes,
                        watchdog |-> w,
                        deadline |-> now + w,
                        renewal  |-> 0]}
  <2>1. /\ held' = {} /\ g_generation' \in 0..MaxGeneration /\ g_release' \in 0..MaxGeneration
        /\ g_release' < g_generation' /\ g_release' <= g_generation'
    BY <1>2, LetGo
  <2>2. g_latest # None => g_latest.epoch < b.epoch
    BY <1>2 DEF Producer!NewerThanLatest
  <2>3. /\ Replaces(b, g_latest, g_active, b, g_active')
        /\ g_active' # {} => c # {}
    <3>1. CASE ~grants
      <4>1. g_active' = {}
        BY <1>2, <3>1
      <4> QED
        BY <2>2, <4>1 DEF Replaces
    <3>2. CASE grants
      <4>1. PICK a : a = [tuple    |-> [epoch              |-> b.epoch,
                                        generation         |-> g_generation + 1,
                                        surface_generation |-> b.surface_generation],
                          classes  |-> classes,
                          watchdog |-> w,
                          deadline |-> now + w,
                          renewal  |-> 0]
        OBVIOUS
      <4>2. g_active' = {a} /\ now + w <= MaxTime
        BY <1>2, <3>2, <4>1
      <4>3. classes \in SUBSET Classes /\ classes # {} /\ classes \subseteq Capability /\ c # {}
        BY <3>2, BindingFields
      <4>4. /\ now \in Nat /\ g_generation \in Nat /\ w \in Presenter!Watchdogs
            /\ ~Presenter!Disables(b)
        BY <3>2, ProducerParts DEF WorldInv, Producer!Watchdogs, Presenter!Watchdogs,
           Producer!Disables, Presenter!Disables
      <4> HIDE DEF classes
      <4>5. /\ a \in Grants /\ a.tuple.epoch = b.epoch
            /\ a.tuple.surface_generation = b.surface_generation /\ a.classes = classes
        BY <4>1, <4>2, <4>3, <4>4, NewGrant
      <4> QED
        BY <2>2, <4>2, <4>3, <4>5 DEF Replaces
    <3> QED
      BY <3>1, <3>2
  <2>4. ForLatest(b, g_active') /\ NotAgain(b, g_active', spent'.producer)
    BY <2>3, SpendParts, ProducerParts, GrantReplaced
  <2>5. ProducerInv'
    BY <1>2, <2>1, <2>4 DEF ProducerInv, ForLatest, NotAgain, EpochsOf, HeldUnderItsGrant,
       HeldOnCurrentSurface
  <2>6. \A e \in EpochsOf(g_active)' : e = b.epoch /\ c # {}
    BY <2>3 DEF Replaces, EpochsOf
  <2> QED
    BY <2>5, <2>6
<1> QED
  BY <1>1, <1>2 DEF Producer!ApplyBinding, Producer!GateRefuses, Producer!GateReturns,
     Producer!gateState, ProducerGate

LEMMA ProducerRenewed ==
  ASSUME ProducerInv, WorldInv, NEW t, NEW s \in Nat, NEW w, Producer!Renew(t, s, w, now),
         UNCHANGED <<surface_generation, held>>, Spend
  PROVE  ProducerInv' /\ EpochsOf(g_active)' = EpochsOf(g_active)
<1>1. CASE UNCHANGED ProducerGate
  <2>1. spent'.producer = spent.producer
    BY <1>1, SpendParts DEF ProducerGate
  <2> QED
    BY <1>1, <2>1 DEF ProducerInv, ProducerGate, ForLatest, NotAgain, EpochsOf,
       HeldUnderItsGrant, HeldOnCurrentSurface
<1>2. CASE /\ UNCHANGED <<g_latest, g_generation, g_release>>
           /\ \E a \in g_active :
                /\ Producer!Renewable(a, t, s, w, now)
                /\ g_active' = {[a EXCEPT !.renewal = s, !.deadline = now + w]}
  <2>1. PICK a \in g_active :
          /\ w = a.watchdog /\ now + w <= MaxTime
          /\ g_active' = {[a EXCEPT !.renewal = s, !.deadline = now + w]}
    BY <1>2 DEF Producer!Renewable
  <2>2. a \in Grants /\ g_active = {a} /\ now \in Nat /\ w \in Presenter!Watchdogs
    BY <2>1, ProducerParts, GrantFields DEF WorldInv
  <2>3. PICK c : c = [a EXCEPT !.renewal = s, !.deadline = now + w]
    OBVIOUS
  <2>4. c \in Grants /\ c.tuple = a.tuple /\ c.classes = a.classes /\ c.watchdog = a.watchdog
    <3>1. PICK d \in 0..MaxTime : d = now + w
      BY <2>1, <2>2, InputConstants DEF Presenter!Watchdogs
    <3> DEFINE x == [a EXCEPT !.renewal = s]
    <3>2. c = [x EXCEPT !.deadline = d]
      BY <2>2, <2>3, <3>1, GrantFields
    <3>3. x = [tuple |-> a.tuple, classes |-> a.classes, watchdog |-> a.watchdog,
               deadline |-> a.deadline, renewal |-> s]
      BY <2>2, GrantFields
    <3> HIDE DEF x
    <3>4. c = [tuple |-> a.tuple, classes |-> a.classes, watchdog |-> a.watchdog,
               deadline |-> d, renewal |-> s]
      BY <3>2, <3>3
    <3> QED
      BY <2>2, <3>4, RenewedGrant
  <2>5. g_active' = {c}
    BY <2>1, <2>3
  <2>6. Renews(g_active, {c})
    BY <2>1, <2>4 DEF Renews
  <2>7. /\ ForLatest(g_latest, {c}) /\ NotAgain(g_latest, {c}, spent.producer)
        /\ EpochsOf({c}) = EpochsOf(g_active)
        /\ Ended(spent.producer, g_active, {c}) = spent.producer
    BY <2>6, ProducerParts, GrantRenewed
  <2>8. spent'.producer = spent.producer
    BY <2>5, <2>7, SpendParts
  <2>9. HeldUnderItsGrant'
    BY <2>2, <2>4, <2>5 DEF ProducerInv, HeldUnderItsGrant
  <2>10. HeldOnCurrentSurface'
    BY <1>2 DEF ProducerInv, HeldOnCurrentSurface
  <2>11. g_active # {}
    BY <2>1
  <2>12. ProducerInv'
    BY <1>2, <2>5, <2>7, <2>8, <2>9, <2>10, <2>11 DEF ProducerInv, ForLatest, NotAgain, EpochsOf
  <2> QED
    BY <2>5, <2>7, <2>12 DEF EpochsOf
<1> QED
  BY <1>1, <1>2 DEF Producer!Renew, Producer!GateRefuses, Producer!GateReturns,
     Producer!gateState, ProducerGate

\* An event presses a key only under the grant and on the surface it names.
LEMMA ProducerInjects ==
  ASSUME ProducerInv, NEW m, UNCHANGED <<producerVars, surface_generation>>, Spend,
         \/ held' = held
         \/ held' = {}
         \/ Injectable(m) /\ held' = {[tuple |-> m.tuple, release |-> g_release]}
  PROVE  ProducerInv' /\ EpochsOf(g_active)' = EpochsOf(g_active)
<1>1. UNCHANGED ProducerGate /\ spent'.producer = spent.producer
  BY SpendParts DEF producerVars, ProducerGate
<1>2. \A k \in held' :
        \/ k \in held
        \/ /\ k.release = g_release /\ k.tuple.surface_generation = surface_generation
           /\ \E a \in g_active : a.tuple = k.tuple
  BY DEF Injectable, Producer!Authorized
<1>3. (\A k \in held : k.release = g_release) /\ HeldUnderItsGrant /\ HeldOnCurrentSurface
  BY DEF ProducerInv
<1>4. \A k \in held' : k.release = g_release'
  BY <1>1, <1>2, <1>3 DEF ProducerGate
<1>5. HeldUnderItsGrant'
  BY <1>1, <1>2, <1>3 DEF HeldUnderItsGrant, ProducerGate
<1>6. HeldOnCurrentSurface'
  BY <1>1, <1>2, <1>3 DEF HeldOnCurrentSurface, ProducerGate
<1>7. ProducerInv'
  BY <1>1, <1>4, <1>5, <1>6 DEF ProducerInv, ProducerGate, ForLatest, NotAgain, EpochsOf
<1> QED
  BY <1>1, <1>7 DEF ProducerGate, EpochsOf

-----------------------------------------------------------------------------
(* The lane.                                                               *)
\* What is on the way down stays sound while grants only come to be.
LaneSound(records, granted) ==
  \A i \in 1..Len(records) :
    records[i].kind = "Bound" =>
      /\ records[i].classes \subseteq Capability
      /\ records[i].classes # {} => records[i].binding.epoch \in granted

LEMMA LaneParts ==
  LaneInv <=> /\ up \in Seq(Bindings) /\ down \in Seq(Records)
              /\ LaneSound(down, Granted) /\ EpochsOf(g_active) \subseteq Granted
BY DEF LaneInv, LaneSound, Sound

LEMMA LanePartsNext ==
  LaneInv' <=> /\ up' \in Seq(Bindings) /\ down' \in Seq(Records)
               /\ LaneSound(down', Granted') /\ EpochsOf(g_active') \subseteq Granted'
BY DEF LaneInv, LaneSound, Sound, Granted, EpochsOf

LEMMA SentDown ==
  ASSUME NEW records \in Seq(Records), NEW granted, NEW r \in Records,
         LaneSound(records, granted),
         r.kind = "Bound" => /\ r.classes \subseteq Capability
                             /\ r.classes # {} => r.binding.epoch \in granted
  PROVE  Append(records, r) \in Seq(Records) /\ LaneSound(Append(records, r), granted)
<1>1. /\ Append(records, r) \in Seq(Records)
      /\ Len(Append(records, r)) = Len(records) + 1
      /\ \A i \in 1..Len(records) : Append(records, r)[i] = records[i]
      /\ Append(records, r)[Len(records) + 1] = r
  BY AppendProperties
<1>2. \A i \in 1..Len(records) + 1 : i \in 1..Len(records) \/ i = Len(records) + 1
  BY LenProperties
<1> QED
  BY <1>1, <1>2 DEF LaneSound

LEMMA TakenDown ==
  ASSUME NEW records \in Seq(Records), NEW granted, LaneSound(records, granted), records # <<>>
  PROVE  /\ Head(records) \in Records
         /\ Head(records).kind = "Bound" =>
              /\ Head(records).classes \subseteq Capability
              /\ Head(records).classes # {} => Head(records).binding.epoch \in granted
         /\ Tail(records) \in Seq(Records) /\ LaneSound(Tail(records), granted)
<1>1. /\ Head(records) = records[1] /\ 1 \in 1..Len(records)
      /\ Head(records) \in Records /\ Tail(records) \in Seq(Records)
      /\ Len(Tail(records)) = Len(records) - 1
      /\ \A i \in 1..Len(Tail(records)) : Tail(records)[i] = records[i + 1]
  BY HeadTailProperties, LenProperties, EmptySeq
<1>2. \A i \in 1..Len(records) - 1 : i + 1 \in 1..Len(records)
  BY LenProperties
<1> QED
  BY <1>1, <1>2 DEF LaneSound

LEMMA SoundLonger ==
  ASSUME NEW records, NEW granted, NEW more, LaneSound(records, granted),
         granted \subseteq more
  PROVE  LaneSound(records, more)
BY DEF LaneSound

\* Nothing of a record but a result's classes is held against the grants.
LEMMA Emitted ==
  ASSUME LaneInv, NEW r \in Records, Emit(r), Granted \subseteq Granted',
         up' \in Seq(Bindings), EpochsOf(g_active') \subseteq Granted',
         r.kind = "Bound" => /\ r.classes \subseteq Capability
                             /\ r.classes # {} => r.binding.epoch \in Granted'
  PROVE  LaneInv'
<1>1. down \in Seq(Records) /\ LaneSound(down, Granted')
  BY LaneParts, SoundLonger
<1>2. CASE down' = down
  BY <1>1, <1>2, LanePartsNext
<1>3. CASE down' = Append(down, r)
  <2>1. down' \in Seq(Records) /\ LaneSound(down', Granted')
    BY <1>1, <1>3, SentDown
  <2> QED
    BY <2>1, LanePartsNext
<1> QED
  BY <1>2, <1>3 DEF Emit

LEMMA LaneStands ==
  ASSUME LaneInv, UNCHANGED down, up' \in Seq(Bindings), Granted \subseteq Granted',
         EpochsOf(g_active') \subseteq Granted'
  PROVE  LaneInv'
BY LaneParts, LanePartsNext, SoundLonger

LEMMA LaneEmptied ==
  ASSUME LaneInv, down' = <<>>, up' = <<>>, Granted \subseteq Granted',
         EpochsOf(g_active') \subseteq Granted'
  PROVE  LaneInv'
<1>1. <<>> \in Seq(Records) /\ <<>> \in Seq(Bindings) /\ Len(<<>>) = 0
  BY EmptySeq
<1>2. LaneSound(<<>>, Granted')
  BY <1>1 DEF LaneSound
<1> QED
  BY <1>1, <1>2, LanePartsNext

-----------------------------------------------------------------------------
(* The world.                                                              *)
LEMMA WorldChanges ==
  ASSUME WorldInv, now' \in Nat, epoch' \in Nat, surface_generation' \in Nat \ {0},
         \/ UNCHANGED eligibility
         \/ \E x \in BOOLEAN : eligibility' = [eligibility EXCEPT !.focused = x]
         \/ \E x \in BOOLEAN : eligibility' = [eligibility EXCEPT !.presented = x]
         \/ \E x \in BOOLEAN : eligibility' = [eligibility EXCEPT !.lane_live = x]
         \/ \E x, y : eligibility' = [eligibility EXCEPT !.surface_generation = x,
                                                         !.presented = y]
  PROVE  WorldInv'
<1>1. "capability" \in DOMAIN eligibility /\ eligibility.capability = Capability
  BY DEF WorldInv
<1>2. "capability" \in DOMAIN eligibility' /\ eligibility'.capability = Capability
  BY <1>1
<1> QED
  BY <1>2 DEF WorldInv

LEMMA InvParts ==
  InputInv => /\ PresenterInv /\ ProducerInv /\ LaneInv /\ WorldInv
              /\ up \in Seq(Bindings) /\ down \in Seq(Records)
              /\ EpochsOf(g_active) \subseteq Granted
              /\ now \in Nat /\ epoch \in Nat /\ surface_generation \in Nat \ {0}
              /\ (spent' = spent => spent'.presenter = spent.presenter
                                    /\ spent'.producer = spent.producer)
BY DEF InputInv, LaneInv, WorldInv

-----------------------------------------------------------------------------
(* The producer asks.                                                      *)
LEMMA Asked ==
  ASSUME InputInv, NEW b \in Bindings, Send(b),
         UNCHANGED <<presenterVars, producerVars, now, eligibility,
                     surface_generation, down, lane, failures, held, spent>>,
         epoch' \in Nat
  PROVE  InputInv'
<1>1. up' \in Seq(Bindings)
  BY InvParts, AppendProperties DEF Send
<1>2. PresenterInv' /\ Granted' = Granted
  BY InvParts, PresenterStands
<1>3. ProducerInv' /\ g_active' = g_active
  BY InvParts, ProducerStands DEF producerVars
<1>4. LaneInv'
  BY <1>1, <1>2, <1>3, InvParts, LaneStands
<1>5. WorldInv'
  BY InvParts, WorldChanges
<1> QED
  BY <1>2, <1>3, <1>4, <1>5 DEF InputInv

LEMMA BindEnableStep ==
  ASSUME InputInv, NEW classes \in (SUBSET Classes) \ {{}},
         NEW watchdog \in MinWatchdog..MaxWatchdog, BindEnable(classes, watchdog)
  PROVE  InputInv'
<1>1. PICK n \in Nat \ {0} : n = epoch + 1
  BY InvParts
<1>2. PICK b : b = [epoch |-> n, surface_generation |-> surface_generation,
                    classes |-> classes, watchdog |-> watchdog]
  OBVIOUS
<1>3. b \in Presenter!EnabledBinding
  BY <1>2, InvParts DEF Presenter!EnabledBinding, Presenter!Watchdogs
<1>4. b \in Bindings
  BY <1>3 DEF Bindings, Presenter!Binding
<1>5. Send(b) /\ epoch' \in Nat
  BY <1>1, <1>2 DEF BindEnable
<1> QED
  BY <1>4, <1>5, Asked DEF BindEnable

LEMMA BindDisableStep ==
  ASSUME InputInv, BindDisable
  PROVE  InputInv'
<1>1. PICK n \in Nat \ {0} : n = epoch + 1
  BY InvParts
<1>2. PICK b : b = [epoch |-> n, surface_generation |-> 0, classes |-> {}, watchdog |-> 0]
  OBVIOUS
<1>3. b \in Presenter!DisabledBinding
  BY <1>2 DEF Presenter!DisabledBinding
<1>4. b \in Bindings
  BY <1>3 DEF Bindings, Presenter!Binding
<1>5. Send(b) /\ epoch' \in Nat
  BY <1>1, <1>2 DEF BindDisable
<1> QED
  BY <1>4, <1>5, Asked DEF BindDisable

LEMMA BindRetryStep ==
  ASSUME InputInv, BindRetry
  PROVE  InputInv'
<1>1. p_latest \in Bindings /\ Send(p_latest)
  BY InvParts, PresenterParts DEF BindRetry
<1> QED
  BY <1>1, InvParts, Asked DEF BindRetry

-----------------------------------------------------------------------------
(* The presenter answers, renews, tags events and revokes.                 *)
LEMMA PresenterApplyStep ==
  ASSUME InputInv, PresenterApply
  PROVE  InputInv'
<1>1. PICK b \in Bindings : b = Head(up)
  BY InvParts, HeadTailProperties DEF PresenterApply
<1>2. up' \in Seq(Bindings)
  BY InvParts, HeadTailProperties DEF PresenterApply
<1>3. /\ PresenterInv' /\ Granted \subseteq Granted'
      /\ p_result' \notin {"BadState", "Exhausted"} =>
           /\ Bound(b) \in Records
           /\ Bound(b).classes \subseteq Capability /\ Bound(b).binding = b
           /\ Bound(b).classes # {} => b.epoch \in Granted'
  BY <1>1, InvParts, PresenterAnswered DEF PresenterApply
<1>4. ProducerInv' /\ g_active' = g_active
  <2>1. g_active' = g_active
    BY DEF PresenterApply, producerVars
  <2>2. spent'.producer = spent.producer
    BY <2>1, SpendParts DEF PresenterApply
  <2> QED
    BY <2>1, <2>2, InvParts, ProducerStands DEF PresenterApply
<1>5. EpochsOf(g_active') \subseteq Granted'
  BY <1>3, <1>4, InvParts
<1>6. LaneInv'
  <2>1. CASE UNCHANGED down
    BY <1>2, <1>3, <1>5, <2>1, InvParts, LaneStands
  <2>2. CASE p_result' \notin {"BadState", "Exhausted"} /\ Emit(Bound(b))
    <3>1. PICK r : r = Bound(b)
      OBVIOUS
    <3>2. /\ r \in Records /\ Emit(r)
          /\ r.classes \subseteq Capability
          /\ r.classes # {} => r.binding.epoch \in Granted'
      BY <1>3, <2>2, <3>1
    <3> QED
      BY <1>2, <1>3, <1>5, <3>2, InvParts, Emitted
  <2> QED
    BY <1>1, <2>1, <2>2 DEF PresenterApply
<1>7. WorldInv'
  BY InvParts, WorldChanges DEF PresenterApply
<1> QED
  BY <1>3, <1>4, <1>6, <1>7 DEF InputInv

LEMMA PresenterRenewStep ==
  ASSUME InputInv, PresenterRenew
  PROVE  InputInv'
<1>1. /\ PresenterInv' /\ Granted' = Granted
      /\ p_result' = "Renewed" => \A a \in p_active' :
           [kind |-> "Renew", tuple |-> a.tuple, sequence |-> a.renewal,
            watchdog |-> p_watchdog] \in Records
  BY InvParts, PresenterRenewed DEF PresenterRenew
<1>2. ProducerInv' /\ g_active' = g_active
  BY InvParts, ProducerStands DEF PresenterRenew, producerVars
<1>3. EpochsOf(g_active') \subseteq Granted' /\ up' \in Seq(Bindings)
  BY <1>1, <1>2, InvParts DEF PresenterRenew
<1>4. LaneInv'
  <2>1. CASE UNCHANGED down
    BY <1>1, <1>3, <2>1, InvParts, LaneStands
  <2>2. CASE p_result' = "Renewed"
             /\ \E a \in p_active' : Emit([kind |-> "Renew", tuple |-> a.tuple,
                                           sequence |-> a.renewal, watchdog |-> p_watchdog])
    <3>1. PICK r \in Records : Emit(r) /\ r.kind = "Renew"
      BY <1>1, <2>2
    <3> QED
      BY <1>1, <1>3, <3>1, InvParts, Emitted
  <2> QED
    BY <2>1, <2>2 DEF PresenterRenew
<1>5. WorldInv'
  BY InvParts, WorldChanges DEF PresenterRenew
<1> QED
  BY <1>1, <1>2, <1>4, <1>5 DEF InputInv

LEMMA PresenterEventStep ==
  ASSUME InputInv, NEW class \in Classes, NEW pressed \in BOOLEAN,
         PresenterEvent(class, pressed)
  PROVE  InputInv'
<1>1. PresenterInv' /\ Granted' = Granted
  BY InvParts, PresenterStands DEF PresenterEvent
<1>2. ProducerInv' /\ g_active' = g_active
  BY InvParts, ProducerStands DEF PresenterEvent, producerVars
<1>3. EpochsOf(g_active') \subseteq Granted' /\ up' \in Seq(Bindings)
  BY <1>1, <1>2, InvParts DEF PresenterEvent
<1>4. PICK a \in p_active : Emit([kind |-> "Event", tuple |-> a.tuple, class |-> class,
                                  pressed |-> pressed])
  BY DEF PresenterEvent
<1>5. a.tuple \in Presenter!Tuple
  BY <1>4, InvParts, PresenterParts, GrantFields
<1>6. PICK r : r = [kind |-> "Event", tuple |-> a.tuple, class |-> class, pressed |-> pressed]
  OBVIOUS
<1>7. r \in Records /\ r.kind = "Event"
  BY <1>5, <1>6 DEF Records
<1>8. LaneInv'
  BY <1>1, <1>3, <1>4, <1>6, <1>7, InvParts, Emitted
<1>9. WorldInv'
  BY InvParts, WorldChanges DEF PresenterEvent
<1> QED
  BY <1>1, <1>2, <1>8, <1>9 DEF InputInv

\* Everything that a revocation of the presenter's touches.
LEMMA PresenterGivesUp ==
  ASSUME InputInv, Revoke, WorldInv'
  PROVE  InputInv'
<1>1. PresenterInv' /\ Granted \subseteq Granted'
  BY InvParts, PresenterRevoked DEF Revoke
<1>2. ProducerInv' /\ g_active' = g_active
  <2>1. g_active' = g_active
    BY DEF Revoke, producerVars
  <2>2. spent'.producer = spent.producer
    BY <2>1, SpendParts DEF Revoke
  <2> QED
    BY <2>1, <2>2, InvParts, ProducerStands DEF Revoke
<1>3. EpochsOf(g_active') \subseteq Granted' /\ up' \in Seq(Bindings)
  BY <1>1, <1>2, InvParts DEF Revoke
<1>4. LaneInv'
  <2>1. CASE UNCHANGED down
    BY <1>1, <1>3, <2>1, InvParts, LaneStands
  <2>2. CASE \E a \in p_active : Emit([kind |-> "Revoked", epoch |-> a.tuple.epoch])
    <3>1. PICK a \in p_active : Emit([kind |-> "Revoked", epoch |-> a.tuple.epoch])
      BY <2>2
    <3>2. a.tuple.epoch \in Nat
      BY <3>1, InvParts, PresenterParts, GrantFields
    <3>3. PICK r : r = [kind |-> "Revoked", epoch |-> a.tuple.epoch]
      OBVIOUS
    <3>4. r \in Records /\ r.kind = "Revoked"
      BY <3>2, <3>3 DEF Records
    <3> QED
      BY <1>1, <1>3, <3>1, <3>3, <3>4, InvParts, Emitted
  <2> QED
    BY <2>1, <2>2 DEF Revoke
<1> QED
  BY <1>1, <1>2, <1>4 DEF InputInv

LEMMA FocusLossStep ==
  ASSUME InputInv, FocusLoss
  PROVE  InputInv'
<1>1. PICK x \in BOOLEAN : x = FALSE
  OBVIOUS
<1>2. eligibility' = [eligibility EXCEPT !.focused = x] /\ Revoke
  BY <1>1 DEF FocusLoss
<1>3. WorldInv'
  BY <1>2, InvParts, WorldChanges DEF Revoke
<1> QED
  BY <1>2, <1>3, PresenterGivesUp

LEMMA PresenterWatchdogStep ==
  ASSUME InputInv, PresenterWatchdog
  PROVE  InputInv'
<1>1. Revoke /\ UNCHANGED eligibility
  BY DEF PresenterWatchdog
<1>2. WorldInv'
  BY <1>1, InvParts, WorldChanges DEF Revoke
<1> QED
  BY <1>1, <1>2, PresenterGivesUp

LEMMA PresenterLearnsSurfaceStep ==
  ASSUME InputInv, PresenterLearnsSurface
  PROVE  InputInv'
<1>1. PICK y \in BOOLEAN : y = FALSE
  OBVIOUS
<1>2. /\ eligibility' = [eligibility EXCEPT !.surface_generation = surface_generation,
                                            !.presented = y]
      /\ Revoke
  BY <1>1 DEF PresenterLearnsSurface
<1>3. WorldInv'
  BY <1>2, InvParts, WorldChanges DEF Revoke
<1> QED
  BY <1>2, <1>3, PresenterGivesUp

LEMMA PresenterNoticesLaneStep ==
  ASSUME InputInv, PresenterNoticesLane
  PROVE  InputInv'
<1>1. PICK x \in BOOLEAN : x = FALSE
  OBVIOUS
<1>2. eligibility' = [eligibility EXCEPT !.lane_live = x] /\ Revoke
  BY <1>1 DEF PresenterNoticesLane
<1>3. WorldInv'
  BY <1>2, InvParts, WorldChanges DEF Revoke
<1> QED
  BY <1>2, <1>3, PresenterGivesUp

-----------------------------------------------------------------------------
(* The producer takes one record off the lane.                             *)
LEMMA ProducerReceivesStep ==
  ASSUME InputInv, ProducerReceives
  PROVE  InputInv'
<1>1. PICK m : m = Head(down)
  OBVIOUS
<1>2. /\ LaneSound(down, Granted) /\ down \in Seq(Records) /\ down # <<>>
      /\ down' = Tail(down)
  BY InvParts, LaneParts DEF ProducerReceives
<1>3. /\ m \in Records
      /\ m.kind = "Bound" => /\ m.classes \subseteq Capability
                             /\ m.classes # {} => m.binding.epoch \in Granted
      /\ down' \in Seq(Records) /\ LaneSound(down', Granted)
  BY <1>1, <1>2, TakenDown
<1>4. PresenterInv' /\ Granted' = Granted
  <2>1. p_active' = p_active
    BY DEF ProducerReceives, presenterVars
  <2>2. spent'.presenter = spent.presenter
    BY <2>1, SpendParts DEF ProducerReceives
  <2> QED
    BY <2>2, InvParts, PresenterStands DEF ProducerReceives
<1>5. ProducerInv' /\ EpochsOf(g_active') \subseteq Granted
  <2>0. /\ ProducerInv /\ WorldInv /\ Spend /\ UNCHANGED surface_generation
        /\ EpochsOf(g_active) \subseteq Granted
        /\ EpochsOf(g_active)' = EpochsOf(g_active')
    BY InvParts DEF ProducerReceives, EpochsOf
  <2>1. CASE ReceiveBound
    <3>1. /\ m.kind = "Bound" /\ held' = StillHeld(held)
          /\ Producer!ApplyBinding(m.binding, m.classes, m.watchdog, now)
      BY <1>1, <2>1 DEF ReceiveBound
    <3>2. m \in [kind: {"Bound"}, binding: Presenter!Binding, classes: SUBSET Classes,
                 watchdog: {0} \union Presenter!Watchdogs]
      BY <1>3, <3>1 DEF Records
    <3>3. PICK b \in Bindings, c \in SUBSET Capability, w \in {m.watchdog} :
             b = m.binding /\ c = m.classes /\ w = m.watchdog
      BY <1>3, <3>1, <3>2 DEF Bindings
    <3>4. /\ ProducerInv'
          /\ \A e \in EpochsOf(g_active)' :
               e \in EpochsOf(g_active) \/ (e = b.epoch /\ c # {})
      BY <2>0, <3>1, <3>3, ProducerBound
    <3>5. c # {} => b.epoch \in Granted
      BY <1>3, <3>1, <3>3
    <3> QED
      BY <2>0, <3>4, <3>5
  <2>2. CASE ReceiveRenew
    <3>1. /\ m.kind = "Renew" /\ UNCHANGED held
          /\ Producer!Renew(m.tuple, m.sequence, m.watchdog, now)
      BY <1>1, <2>2 DEF ReceiveRenew
    <3>2. m.sequence \in Nat
      BY <1>3, <3>1 DEF Records
    <3>3. PICK s \in Nat : s = m.sequence
      BY <3>2
    <3>4. ProducerInv' /\ EpochsOf(g_active)' = EpochsOf(g_active)
      BY <2>0, <3>1, <3>3, ProducerRenewed
    <3> QED
      BY <2>0, <3>4
  <2>3. CASE ReceiveRevoked
    <3>1. CASE Producer!RevokeGate /\ held' = StillHeld(held)
      BY <2>0, <3>1, ProducerGivesUp
    <3>2. CASE UNCHANGED <<producerVars, held>>
      <4>1. g_active' = g_active
        BY <3>2 DEF producerVars
      <4>2. spent'.producer = spent.producer
        BY <2>0, <4>1, SpendParts
      <4>3. ProducerInv'
        BY <2>0, <3>2, <4>2, ProducerStands
      <4> QED
        BY <2>0, <4>1, <4>3
    <3> QED
      BY <2>3, <3>1, <3>2 DEF ReceiveRevoked
  <2>4. CASE ReceiveEvent
    <3>1. /\ UNCHANGED producerVars
          /\ held' = IF ~Injectable(m) THEN held
                     ELSE IF m.pressed
                       THEN {[tuple |-> m.tuple, release |-> g_release]}
                       ELSE {}
      BY <1>1, <2>4 DEF ReceiveEvent
    <3>2. \/ held' = held
          \/ held' = {}
          \/ Injectable(m) /\ held' = {[tuple |-> m.tuple, release |-> g_release]}
      BY <3>1
    <3>3. ProducerInv' /\ EpochsOf(g_active)' = EpochsOf(g_active)
      BY <2>0, <3>1, <3>2, ProducerInjects
    <3> QED
      BY <2>0, <3>3
  <2> QED
    BY <2>1, <2>2, <2>3, <2>4 DEF ProducerReceives
<1>6. LaneInv'
  BY <1>3, <1>4, <1>5, InvParts, LanePartsNext DEF ProducerReceives
<1>7. WorldInv'
  BY InvParts, WorldChanges DEF ProducerReceives
<1> QED
  BY <1>4, <1>5, <1>6, <1>7 DEF InputInv

\* A gate that holds nothing has no key held under it, and stays as it is.
LEMMA NothingToGiveUp ==
  ASSUME ProducerInv, UNCHANGED producerVars, held' = StillHeld(held), Spend,
         g_active = {}
  PROVE  ProducerInv' /\ EpochsOf(g_active)' \subseteq EpochsOf(g_active)
<1>1. held = {}
  BY DEF ProducerInv, HeldUnderItsGrant
<1>2. held' = {}
  BY <1>1 DEF StillHeld
<1>3. UNCHANGED <<g_latest, g_generation, g_active, g_release>>
  BY DEF producerVars
<1>4. spent'.producer = spent.producer
  BY <1>3, SpendParts DEF EpochsOf
<1>5. HeldUnderItsGrant' /\ HeldOnCurrentSurface'
  BY <1>2 DEF HeldUnderItsGrant, HeldOnCurrentSurface
<1> QED
  BY <1>1, <1>2, <1>3, <1>4, <1>5 DEF ProducerInv, ForLatest, NotAgain, EpochsOf

\* Everything that a revocation of the producer's own touches.
LEMMA ProducerGivesUpItself ==
  ASSUME InputInv, ProducerRevokes, UNCHANGED <<eligibility, up, down>>,
         surface_generation' \in Nat \ {0}
  PROVE  InputInv'
<1>1. PresenterInv' /\ Granted' = Granted
  <2>1. p_active' = p_active
    BY DEF ProducerRevokes, presenterVars
  <2>2. spent'.presenter = spent.presenter
    BY <2>1, SpendParts DEF ProducerRevokes
  <2> QED
    BY <2>2, InvParts, PresenterStands DEF ProducerRevokes
<1>2. ProducerInv' /\ EpochsOf(g_active') \subseteq EpochsOf(g_active)
  <2>1. ProducerInv' /\ EpochsOf(g_active)' \subseteq EpochsOf(g_active)
    BY InvParts, ProducerGivesUp, NothingToGiveUp DEF ProducerRevokes
  <2> QED
    BY <2>1 DEF EpochsOf
<1>3. LaneInv'
  BY <1>1, <1>2, InvParts, LaneStands
<1>4. WorldInv'
  BY InvParts, WorldChanges DEF ProducerRevokes
<1> QED
  BY <1>1, <1>2, <1>3, <1>4 DEF InputInv

LEMMA ProducerWatchdogStep ==
  ASSUME InputInv, ProducerWatchdog
  PROVE  InputInv'
BY InvParts, ProducerGivesUpItself DEF ProducerWatchdog, networkVars

LEMMA ReplaceSurfaceStep ==
  ASSUME InputInv, ReplaceSurface
  PROVE  InputInv'
<1>1. surface_generation' \in Nat \ {0}
  BY InvParts DEF ReplaceSurface
<1> QED
  BY <1>1, ProducerGivesUpItself DEF ReplaceSurface, networkVars

LEMMA ProducerNoticesLaneStep ==
  ASSUME InputInv, ProducerNoticesLane
  PROVE  InputInv'
BY InvParts, ProducerGivesUpItself DEF ProducerNoticesLane

-----------------------------------------------------------------------------
(* Steps that leave both machines alone.                                   *)
LEMMA Elsewhere ==
  ASSUME InputInv, UNCHANGED <<presenterVars, producerVars, surface_generation, held, spent>>,
         \/ UNCHANGED <<up, down>>
         \/ up' = <<>> /\ down' = <<>>,
         WorldInv'
  PROVE  InputInv'
<1>1. PresenterInv' /\ Granted' = Granted
  BY InvParts, PresenterStands
<1>2. ProducerInv' /\ g_active' = g_active
  BY InvParts, ProducerStands DEF producerVars
<1>3. EpochsOf(g_active') \subseteq Granted'
  BY <1>1, <1>2, InvParts
<1>4. LaneInv'
  BY <1>1, <1>3, InvParts, LaneStands, LaneEmptied
<1> QED
  BY <1>1, <1>2, <1>4 DEF InputInv

LEMMA FocusGainStep ==
  ASSUME InputInv, FocusGain
  PROVE  InputInv'
<1>1. PICK x \in BOOLEAN : x = TRUE
  OBVIOUS
<1>2. eligibility' = [eligibility EXCEPT !.focused = x]
  BY <1>1 DEF FocusGain
<1>3. WorldInv'
  BY <1>2, InvParts, WorldChanges DEF FocusGain
<1> QED
  BY <1>3, Elsewhere DEF FocusGain, networkVars

LEMMA PresentedStep ==
  ASSUME InputInv, Presented
  PROVE  InputInv'
<1>1. PICK x \in BOOLEAN : x = TRUE
  OBVIOUS
<1>2. eligibility' = [eligibility EXCEPT !.presented = x]
  BY <1>1 DEF Presented
<1>3. WorldInv'
  BY <1>2, InvParts, WorldChanges DEF Presented
<1> QED
  BY <1>3, Elsewhere DEF Presented, networkVars

LEMMA LaneReopensStep ==
  ASSUME InputInv, LaneReopens
  PROVE  InputInv'
<1>1. PICK x \in BOOLEAN : x = TRUE
  OBVIOUS
<1>2. eligibility' = [eligibility EXCEPT !.lane_live = x]
  BY <1>1 DEF LaneReopens
<1>3. WorldInv'
  BY <1>2, InvParts, WorldChanges DEF LaneReopens
<1> QED
  BY <1>3, Elsewhere DEF LaneReopens

LEMMA LaneFailsStep ==
  ASSUME InputInv, LaneFails
  PROVE  InputInv'
<1>1. WorldInv'
  BY InvParts, WorldChanges DEF LaneFails
<1> QED
  BY <1>1, Elsewhere DEF LaneFails

LEMMA TickStep ==
  ASSUME InputInv, Tick
  PROVE  InputInv'
<1>1. now' \in Nat
  BY InvParts DEF Tick
<1>2. WorldInv'
  BY <1>1, InvParts, WorldChanges DEF Tick
<1> QED
  BY <1>2, Elsewhere DEF Tick, networkVars

-----------------------------------------------------------------------------
LEMMA InputStarts ==
  ASSUME Init
  PROVE  InputInv
<1>1. /\ p_latest = None /\ p_generation = 0 /\ p_active = {} /\ p_release = 0
      /\ p_watchdog = 0 /\ p_sequence = 0 /\ p_reported = 0 /\ p_state # "Enabled"
      /\ g_latest = None /\ g_generation = 0 /\ g_active = {} /\ g_release = 0
      /\ held = {} /\ spent.presenter = {} /\ spent.producer = {}
      /\ up = <<>> /\ down = <<>> /\ now = 0 /\ epoch = 0 /\ surface_generation = 1
  BY DEF Init, Presenter!GrantInit, Presenter!GateInit, Producer!GateInit
<1>2. ForLatest(None, {}) /\ NotAgain(None, {}, {}) /\ EpochsOf({}) = {}
  BY DEF ForLatest, NotAgain, EpochsOf
<1>3. 0 \in 0..MaxGeneration
  BY InputConstants
<1>4. PresenterInv
  BY <1>1, <1>2, <1>3 DEF PresenterInv
<1>5. ProducerInv
  BY <1>1, <1>2, <1>3 DEF ProducerInv, HeldUnderItsGrant, HeldOnCurrentSurface
<1>6. LaneInv
  <2>1. <<>> \in Seq(Records) /\ <<>> \in Seq(Bindings) /\ Len(<<>>) = 0
    BY EmptySeq
  <2>2. LaneSound(<<>>, Granted)
    BY <2>1 DEF LaneSound
  <2> QED
    BY <1>1, <1>2, <2>1, <2>2, LaneParts
<1>7. WorldInv
  BY <1>1 DEF Init, WorldInv
<1> QED
  BY <1>4, <1>5, <1>6, <1>7 DEF InputInv

LEMMA InputStep ==
  ASSUME InputInv, [Next]_sessionVars
  PROVE  InputInv'
<1>1. CASE UNCHANGED sessionVars
  <2>1. WorldInv'
    BY <1>1, InvParts, WorldChanges DEF sessionVars
  <2> QED
    BY <1>1, <2>1, Elsewhere DEF sessionVars, networkVars
<1>2. CASE Next
  <2>1. CASE \E classes \in (SUBSET Classes) \ {{}}, watchdog \in MinWatchdog..MaxWatchdog :
               BindEnable(classes, watchdog)
    BY <2>1, BindEnableStep
  <2>2. CASE \E class \in Classes, pressed \in BOOLEAN : PresenterEvent(class, pressed)
    BY <2>2, PresenterEventStep
  <2>3. CASE BindDisable \/ BindRetry
    BY <2>3, BindDisableStep, BindRetryStep
  <2>4. CASE PresenterApply \/ PresenterRenew
    BY <2>4, PresenterApplyStep, PresenterRenewStep
  <2>5. CASE FocusLoss \/ FocusGain \/ Presented \/ PresenterLearnsSurface \/ PresenterWatchdog
    BY <2>5, FocusLossStep, FocusGainStep, PresentedStep, PresenterLearnsSurfaceStep,
       PresenterWatchdogStep
  <2>6. CASE ProducerReceives \/ ProducerWatchdog \/ ReplaceSurface
    BY <2>6, ProducerReceivesStep, ProducerWatchdogStep, ReplaceSurfaceStep
  <2>7. CASE LaneFails \/ PresenterNoticesLane \/ ProducerNoticesLane \/ LaneReopens \/ Tick
    BY <2>7, LaneFailsStep, PresenterNoticesLaneStep, ProducerNoticesLaneStep,
       LaneReopensStep, TickStep
  <2> QED
    BY <1>2, <2>1, <2>2, <2>3, <2>4, <2>5, <2>6, <2>7 DEF Next
<1> QED
  BY <1>1, <1>2

\* In every behaviour of the session both machines, the injector behind the
\* producer's gate and the lane keep the invariant, whatever is lost on the
\* lane, retried or late, and however often it fails.
THEOREM InputAlways == Spec => []InputInv
BY InputStarts, InputStep, PTL DEF Spec

\* Every key that the injector holds down is held under the grant that the
\* gate holds: apply_binding, revoke and the watchdog release the keys of
\* the grant they end, by its release generation.
THEOREM KeysUnderGrant == Spec => []HeldUnderItsGrant
<1>1. InputInv => HeldUnderItsGrant
  BY DEF InputInv, ProducerInv
<1> QED
  BY <1>1, InputAlways, PTL

\* Nothing stays pressed, or is pressed late, on a surface that was replaced:
\* authorize compares the event's surface generation with the current one,
\* and a replacement revokes, until the generations run out.
THEOREM KeysOnSurface == Spec => []HeldOnCurrentSurface
<1>1. InputInv => HeldOnCurrentSurface
  BY DEF InputInv, ProducerInv
<1> QED
  BY <1>1, InputAlways, PTL

\* A grant that ended does not come back, on either side, for the same or an
\* older epoch: apply_binding takes only a greater one.
THEOREM GrantedOnce == Spec => []EpochGrantedOnce
<1>1. InputInv => EpochGrantedOnce
  BY DEF InputInv, PresenterInv, ProducerInv, NotAgain, EpochGrantedOnce
<1> QED
  BY <1>1, InputAlways, PTL

\* The producer's gate holds a grant only for an epoch that the presenter
\* granted, with classes within the surface's capability mask.
THEOREM GateFollowsPresenter == Spec => []GateGrantIsPresenters
<1>1. InputInv => GateGrantIsPresenters
  BY InvParts, ProducerParts
     DEF Granted, EpochsOf, GateGrantIsPresenters, ForLatest
<1> QED
  BY <1>1, InputAlways, PTL

\* Both machines and the lane keep their types: a gate holds at most one
\* grant, for the last binding it applied, and only records of the protocol
\* are on the lane.
THEOREM InputTypes == Spec => []TypeOK
<1>1. ASSUME InputInv PROVE TypeOK
  <2>1. /\ PresenterInv /\ ProducerInv
        /\ up \in Seq(Presenter!Binding) /\ down \in Seq(Records)
    BY <1>1, InvParts DEF Bindings
  <2>2. \A i \in 1..Len(up) : up[i] \in Presenter!Binding
    BY <2>1, ElementOfSeq
  <2>3. \A i \in 1..Len(down) : down[i] \in Records
    BY <2>1, ElementOfSeq
  <2>4. /\ p_latest \in Presenter!Binding \union {None} /\ p_active \subseteq Presenter!ActiveGrant
        /\ \A a \in p_active : p_active = {a} /\ a.tuple.epoch = p_latest.epoch
    BY <2>1 DEF PresenterInv, ForLatest, Bindings, Grants
  <2>5. /\ g_latest \in Presenter!Binding \union {None} /\ g_active \subseteq Presenter!ActiveGrant
        /\ \A a \in g_active : g_active = {a} /\ a.tuple.epoch = g_latest.epoch
    BY <2>1 DEF ProducerInv, ForLatest, Bindings, Grants
  <2>6. /\ {p_generation, g_generation, p_release, g_release} \subseteq 0..MaxGeneration
        /\ p_watchdog \in {0} \union Presenter!Watchdogs
        /\ p_sequence \in 0..MaxGeneration /\ p_reported \in 0..MaxGeneration
        /\ p_state = "Enabled" <=> p_active # {}
    BY <2>1 DEF PresenterInv, ProducerInv
  <2> QED
    BY <2>2, <2>3, <2>4, <2>5, <2>6 DEF TypeOK
<1> QED
  BY <1>1, InputAlways, PTL

-----------------------------------------------------------------------------
(* InputSession implements InputConsent.  Which abstract step a step is    *)
(* follows from the invariant before and after it, once it is known that   *)
(* it accounts for the epochs it ends, moves one side only, and that a key *)
(* is pressed only while the gate stays as it is.                          *)
KeyEpochs == {k.tuple.epoch : k \in held}
Admitted == EpochsOf(g_active) \union spent.producer

Accounted ==
  /\ spent'.presenter = Ended(spent.presenter, p_active, p_active')
  /\ spent'.producer = Ended(spent.producer, g_active, g_active')
Alone ==
  \/ EpochsOf(p_active') = EpochsOf(p_active)
  \/ EpochsOf(g_active') = EpochsOf(g_active) /\ held' = held
Presses == held' \subseteq held \/ g_active' = g_active

\* A gate whose epoch changed holds none now, or one after all it held.
LEMMA EpochsMove ==
  ASSUME NEW l, NEW A, NEW E, NEW l2, NEW A2, NEW E2,
         ForLatest(l, A), NotAgain(l, A, E), ForLatest(l2, A2), NotAgain(l2, A2, E2),
         E2 = Ended(E, A, A2)
  PROVE  /\ EpochsOf(A2) \union E2 = EpochsOf(A) \union E \union EpochsOf(A2)
         /\ \/ EpochsOf(A2) = EpochsOf(A)
            \/ EpochsOf(A2) = {}
            \/ \E e \in Nat : EpochsOf(A2) = {e} /\ \A p \in EpochsOf(A) \union E : p < e
<1>1. E2 = E \union (EpochsOf(A) \ EpochsOf(A2))
  BY DEF Ended
<1>2. EpochsOf(A2) \union E2 = EpochsOf(A) \union E \union EpochsOf(A2)
  BY <1>1
<1>3. CASE A2 = {}
  BY <1>2, <1>3 DEF EpochsOf
<1>4. CASE A2 # {}
  <2>1. PICK a \in A2 : A2 = {a} /\ a \in Grants /\ a.tuple.epoch = l2.epoch
    BY <1>4 DEF ForLatest
  <2>2. PICK e \in Nat : e = a.tuple.epoch
    BY <2>1, GrantFields
  <2>3. EpochsOf(A2) = {e}
    BY <2>1, <2>2 DEF EpochsOf
  <2>4. \A p \in E2 : p \in Nat /\ p < e
    BY <2>1, <2>2, <2>3 DEF NotAgain
  <2>5. CASE e \in EpochsOf(A)
    <3>1. EpochsOf(A) = {e}
      BY <2>5 DEF EpochsOf, ForLatest
    <3> QED
      BY <1>2, <2>3, <3>1
  <2>6. CASE e \notin EpochsOf(A)
    <3>1. EpochsOf(A) \union E \subseteq E2
      BY <1>1, <2>3, <2>6
    <3> QED
      BY <1>2, <2>3, <2>4, <3>1
  <2> QED
    BY <2>5, <2>6
<1> QED
  BY <1>3, <1>4

LEMMA KeysUnderGate ==
  ASSUME ProducerInv
  PROVE  /\ KeyEpochs \subseteq EpochsOf(g_active)
         /\ \A e, f \in EpochsOf(g_active) : e = f
<1>1. KeyEpochs \subseteq EpochsOf(g_active)
  BY ProducerParts DEF KeyEpochs, EpochsOf
<1>2. \A a, c \in g_active : a = c
  BY ProducerParts
<1> QED
  BY <1>1, <1>2 DEF EpochsOf

ConsentStep == [Consent!ConsentNext]_(Consent!consentVars)

LEMMA StepConsents ==
  ASSUME InputInv, InputInv', Accounted, Alone, Presses
  PROVE  ConsentStep
<1>1. /\ PresenterInv /\ PresenterInv' /\ ProducerInv /\ ProducerInv'
      /\ EpochsOf(g_active') \subseteq EpochsOf(p_active') \union spent'.presenter
  BY DEF InputInv, LaneInv, Granted, EpochsOf
<1>2. /\ EpochsOf(p_active') \union spent'.presenter
           = EpochsOf(p_active) \union spent.presenter \union EpochsOf(p_active')
      /\ \/ EpochsOf(p_active') = EpochsOf(p_active)
         \/ EpochsOf(p_active') = {}
         \/ \E e \in Nat : /\ EpochsOf(p_active') = {e}
                           /\ \A p \in EpochsOf(p_active) \union spent.presenter : p < e
  BY <1>1, EpochsMove DEF Accounted, PresenterInv
<1>3. /\ EpochsOf(g_active') \union spent'.producer
           = EpochsOf(g_active) \union spent.producer \union EpochsOf(g_active')
      /\ \/ EpochsOf(g_active') = EpochsOf(g_active)
         \/ EpochsOf(g_active') = {}
         \/ \E e \in Nat : /\ EpochsOf(g_active') = {e}
                           /\ \A p \in EpochsOf(g_active) \union spent.producer : p < e
  BY <1>1, EpochsMove DEF Accounted, ProducerInv
<1>4. /\ KeyEpochs \subseteq EpochsOf(g_active)
      /\ \A e, f \in EpochsOf(g_active) : e = f
  BY <1>1, KeysUnderGate
<1>5. KeyEpochs' \subseteq EpochsOf(g_active')
  BY <1>1 DEF ProducerInv, HeldUnderItsGrant, KeyEpochs, EpochsOf
<1>6. /\ EpochsOf(p_active)' = EpochsOf(p_active') /\ EpochsOf(g_active)' = EpochsOf(g_active')
      /\ KeyEpochs' = {k.tuple.epoch : k \in held'}
  BY DEF EpochsOf, KeyEpochs
<1>7. CASE EpochsOf(g_active') = EpochsOf(g_active) /\ held' = held
  <2>1. /\ EpochsOf(g_active') \union spent'.producer = EpochsOf(g_active) \union spent.producer
        /\ KeyEpochs' = KeyEpochs
    BY <1>3, <1>6, <1>7 DEF KeyEpochs
  <2>2. CASE EpochsOf(p_active') = EpochsOf(p_active)
    <3>1. UNCHANGED Consent!consentVars
      BY <1>2, <1>6, <1>7, <2>1, <2>2 DEF Consent!consentVars, KeyEpochs
    <3> QED
      BY <3>1 DEF ConsentStep
  <2>3. CASE EpochsOf(p_active') = {}
    <3>1. Consent!Withdraws
      BY <1>2, <1>6, <1>7, <2>1, <2>3 DEF Consent!Withdraws, KeyEpochs
    <3> QED
      BY <3>1 DEF ConsentStep, Consent!ConsentNext
  <2>4. ASSUME NEW e \in Nat, EpochsOf(p_active') = {e},
               \A p \in EpochsOf(p_active) \union spent.presenter : p < e
        PROVE  ConsentStep
    <3>1. Consent!Consents(e)
      BY <1>2, <1>6, <1>7, <2>1, <2>4 DEF Consent!Consents, Consent!After, KeyEpochs
    <3> QED
      BY <3>1 DEF ConsentStep, Consent!ConsentNext
  <2> QED
    BY <1>2, <2>2, <2>3, <2>4
<1>8. CASE EpochsOf(p_active') = EpochsOf(p_active)
  <2>1. EpochsOf(p_active') \union spent'.presenter = EpochsOf(p_active) \union spent.presenter
    BY <1>2, <1>8
  <2>2. CASE EpochsOf(g_active') = EpochsOf(g_active)
    <3>1. KeyEpochs' = EpochsOf(g_active) \/ KeyEpochs' = {}
      BY <1>4, <1>5, <2>2
    <3>2. EpochsOf(g_active') \union spent'.producer = EpochsOf(g_active) \union spent.producer
      BY <1>3, <2>2
    <3>3. Consent!Injects
      BY <1>6, <1>8, <2>1, <2>2, <3>1, <3>2 DEF Consent!Injects, KeyEpochs
    <3> QED
      BY <3>3 DEF ConsentStep, Consent!ConsentNext
  <2>3. CASE EpochsOf(g_active') = {}
    <3>1. KeyEpochs' = {}
      BY <1>5, <2>3
    <3>2. EpochsOf(g_active') \union spent'.producer = EpochsOf(g_active) \union spent.producer
      BY <1>3, <2>3
    <3>3. Consent!Shuts
      BY <1>6, <1>8, <2>1, <2>3, <3>1, <3>2 DEF Consent!Shuts, KeyEpochs
    <3> QED
      BY <3>3 DEF ConsentStep, Consent!ConsentNext
  <2>4. ASSUME NEW e \in Nat, EpochsOf(g_active') = {e},
               \A p \in EpochsOf(g_active) \union spent.producer : p < e
        PROVE  ConsentStep
    <3>1. e \notin EpochsOf(g_active)
      BY <2>4
    <3>2. held' \subseteq held
      BY <2>4, <3>1 DEF Presses
    <3>3. KeyEpochs' = {}
      <4>1. KeyEpochs' \subseteq KeyEpochs
        BY <1>6, <3>2 DEF KeyEpochs
      <4> QED
        BY <1>4, <1>5, <2>4, <3>1, <4>1
    <3>4. e \in EpochsOf(p_active) \union spent.presenter
      BY <1>1, <2>1, <2>4
    <3>5. Consent!Admits(e)
      BY <1>3, <1>6, <1>8, <2>1, <2>4, <3>3, <3>4
         DEF Consent!Admits, Consent!After, KeyEpochs
    <3> QED
      BY <3>5 DEF ConsentStep, Consent!ConsentNext
  <2> QED
    BY <1>3, <2>2, <2>3, <2>4
<1> QED
  BY <1>7, <1>8 DEF Alone

LEMMA EpochsKept ==
  ASSUME UNCHANGED <<p_active, g_active, spent>>
  PROVE  /\ Accounted
         /\ EpochsOf(p_active') = EpochsOf(p_active)
         /\ Presses
BY DEF Accounted, Ended, Presses

LEMMA SpendAccounts == ASSUME Spend PROVE Accounted
BY SpendParts DEF Accounted

\* Everything a step of the presenter's that spends its epochs leaves alone.
LEMMA PresenterConsents ==
  ASSUME InputInv, InputInv', Spend, UNCHANGED <<g_active, held>>
  PROVE  ConsentStep
BY SpendAccounts, StepConsents DEF Alone, Presses

LEMMA GateConsents ==
  ASSUME InputInv, InputInv', Spend, UNCHANGED p_active, Presses
  PROVE  ConsentStep
BY SpendAccounts, StepConsents DEF Alone

LEMMA NothingConsents ==
  ASSUME InputInv, InputInv', UNCHANGED <<p_active, g_active, spent, held>>
  PROVE  ConsentStep
BY EpochsKept, StepConsents DEF Alone

\* A renewal keeps the epoch, as what is granted stays and was not spent.
LEMMA RenewConsents ==
  ASSUME InputInv, InputInv', PresenterRenew
  PROVE  ConsentStep
<1>1. UNCHANGED <<g_active, spent, held>>
  BY DEF PresenterRenew, producerVars
<1>2. Granted' = Granted
  BY InvParts, PresenterRenewed DEF PresenterRenew
<1>3. EpochsOf(p_active') = EpochsOf(p_active)
  <2>1. EpochsOf(p_active') \union spent.presenter = EpochsOf(p_active) \union spent.presenter
    BY <1>1, <1>2 DEF Granted, EpochsOf
  <2>2. EpochsOf(p_active) \intersect spent.presenter = {}
    BY DEF InputInv, PresenterInv, NotAgain
  <2>3. EpochsOf(p_active') \intersect spent.presenter = {}
    BY <1>1 DEF InputInv, PresenterInv, NotAgain
  <2> QED
    BY <2>1, <2>2, <2>3
<1>4. Accounted /\ Alone /\ Presses
  BY <1>1, <1>3 DEF Accounted, Alone, Presses, Ended
<1> QED
  BY <1>4, StepConsents

LEMMA ReceiveConsents ==
  ASSUME InputInv, InputInv', ProducerReceives
  PROVE  ConsentStep
<1>1. Spend /\ UNCHANGED p_active
  BY DEF ProducerReceives, presenterVars
<1>2. Presses
  BY DEF ProducerReceives, ReceiveBound, ReceiveRenew, ReceiveRevoked, ReceiveEvent,
     StillHeld, Presses, producerVars
<1> QED
  BY <1>1, <1>2, GateConsents

LEMMA NextConsents ==
  ASSUME InputInv, InputInv', [Next]_sessionVars
  PROVE  ConsentStep
<1>1. CASE \/ \E classes \in (SUBSET Classes) \ {{}}, watchdog \in MinWatchdog..MaxWatchdog :
                BindEnable(classes, watchdog)
           \/ BindDisable \/ BindRetry
           \/ \E class \in Classes, pressed \in BOOLEAN : PresenterEvent(class, pressed)
           \/ FocusGain \/ Presented \/ LaneFails \/ LaneReopens \/ Tick
           \/ UNCHANGED sessionVars
  <2>1. UNCHANGED <<p_active, g_active, spent, held>>
    BY <1>1 DEF BindEnable, BindDisable, BindRetry, PresenterEvent, FocusGain, Presented,
       LaneFails, LaneReopens, Tick, sessionVars, presenterVars, producerVars
  <2> QED
    BY <2>1, NothingConsents
<1>2. CASE \/ PresenterApply \/ FocusLoss \/ PresenterLearnsSurface \/ PresenterWatchdog
           \/ PresenterNoticesLane
  <2>1. Spend /\ UNCHANGED <<g_active, held>>
    BY <1>2 DEF PresenterApply, FocusLoss, PresenterLearnsSurface, PresenterWatchdog,
       PresenterNoticesLane, Revoke, producerVars
  <2> QED
    BY <2>1, PresenterConsents
<1>3. CASE ProducerWatchdog \/ ReplaceSurface \/ ProducerNoticesLane
  <2>1. /\ Spend /\ UNCHANGED p_active /\ held' = StillHeld(held)
    BY <1>3 DEF ProducerWatchdog, ReplaceSurface, ProducerNoticesLane, ProducerRevokes,
       presenterVars
  <2> QED
    BY <2>1, GateConsents DEF Presses, StillHeld
<1> QED
  BY <1>1, <1>2, <1>3, RenewConsents, ReceiveConsents DEF Next

LEMMA ConsentStarts == Init => Consent!ConsentInit
<1> SUFFICES ASSUME Init PROVE Consent!ConsentInit
  OBVIOUS
<1>1. p_active = {} /\ g_active = {} /\ held = {} /\ spent.presenter = {} /\ spent.producer = {}
  BY DEF Init, Presenter!GrantInit, Presenter!GateInit, Producer!GateInit
<1> QED
  BY <1>1 DEF Consent!ConsentInit, EpochsOf

\* The session implements InputConsent: whatever the lane loses, delays or
\* repeats, nothing is held down but under an epoch that the presenter
\* granted, neither side returns to an epoch, and a gate that leaves one lets
\* go in that very step (InputGrant, InputGate).
THEOREM SessionImplementsConsent == Spec => ImplementsConsent
<1>1. InputInv /\ InputInv' /\ [Next]_sessionVars
        => [Consent!ConsentNext]_(Consent!consentVars)
  BY NextConsents DEF ConsentStep
<1> QED
  BY <1>1, ConsentStarts, InputAlways, PTL
     DEF Spec, ImplementsConsent, Consent!ConsentSpec
=============================================================================

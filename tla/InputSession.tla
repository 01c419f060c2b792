---------------------------- MODULE InputSession ----------------------------
(***************************************************************************)
(* One desktop-input session: a presenter with an InputGrant, a producer   *)
(* with an InputGate at its injection boundary, and the interactive lane   *)
(* between them.  Each machine is translated from its own file; what the   *)
(* two programs do around it is taken from tests/model.rs, where they act  *)
(* in one step: here every message takes its own time, the lane can fail   *)
(* with messages in it, and each side learns of things when it learns.     *)
(*                                                                         *)
(* `focused` stands for every local condition of Eligibility that one bit  *)
(* carries: focus, consent, the authority to receive input, the surface.   *)
(***************************************************************************)
EXTENDS Naturals, Sequences

CONSTANTS
  Classes, None, MinWatchdog, MaxWatchdog, MaxGeneration, MaxTime,
  Capability,            \* the surface's capability mask
  MaxEpoch,              \* bound on producer epochs
  MaxSurfaceGeneration,  \* bound on surface replacements
  LaneCapacity,          \* bound on records in flight, each way
  MaxLaneFailures        \* bound on losses of the lane

ASSUME SessionAssumption ==
  /\ {MinWatchdog, MaxWatchdog, MaxGeneration, MaxTime} \subseteq Nat
  /\ 0 < MinWatchdog /\ MinWatchdog <= MaxWatchdog
  /\ Capability \subseteq Classes
  /\ {MaxEpoch, MaxSurfaceGeneration, LaneCapacity} \subseteq Nat \ {0}
  /\ MaxLaneFailures \in Nat

VARIABLES
  \* the presenter's InputGrant
  p_latest, p_generation, p_active, p_release, p_result,
  p_watchdog, p_sequence, p_state, p_reported,
  \* the producer's InputGate
  g_latest, g_generation, g_active, g_release, g_result,
  now,
  eligibility,         \* what the presenter knows (struct Eligibility)
  surface_generation,  \* the producer's current surface
  epoch,               \* the producer's last input epoch
  up, down,            \* the lane: bindings up; results, renewals, events down
  lane,                \* "Up", "Down", or who has noticed that it is down
  failures,            \* losses of the lane so far
  held,                \* the key an injector holds down, as it recorded it
  spent                \* epochs whose grant has ended, on each side (history)

presenterVars == <<p_latest, p_generation, p_active, p_release, p_result,
                   p_watchdog, p_sequence, p_state, p_reported>>
producerVars == <<g_latest, g_generation, g_active, g_release, g_result>>
networkVars == <<up, down, lane, failures>>
sessionVars == <<presenterVars, producerVars, now, eligibility,
                 surface_generation, epoch, networkVars, held, spent>>

Presenter == INSTANCE InputGrant WITH
  latest_binding <- p_latest, grant_generation <- p_generation,
  active <- p_active, release_generation <- p_release, gate_result <- p_result,
  watchdog_us <- p_watchdog, renewal_sequence <- p_sequence,
  last_state <- p_state, generation <- p_reported

Producer == INSTANCE InputGate WITH
  latest_binding <- g_latest, grant_generation <- g_generation,
  active <- g_active, release_generation <- g_release, gate_result <- g_result

ASSUME NoneAssumption == None \notin Presenter!Binding

Init ==
  /\ Presenter!GrantInit
  /\ Producer!GateInit
  /\ now = 0
  /\ eligibility = [lane_live |-> TRUE, may_receive_input |-> TRUE,
                    surface_present |-> TRUE, surface_generation |-> 1,
                    capability |-> Capability, presented |-> FALSE,
                    focused |-> TRUE, consented |-> TRUE]
  /\ surface_generation = 1
  /\ epoch = 0
  /\ up = <<>> /\ down = <<>> /\ lane = "Up" /\ failures = 0
  /\ held = {}
  /\ spent = [presenter |-> {}, producer |-> {}]

EpochsOf(actives) == {a.tuple.epoch : a \in actives}

\* History: the epochs whose grant this step ends.
Spend ==
  spent' =
    [presenter |-> spent.presenter \union (EpochsOf(p_active) \ EpochsOf(p_active')),
     producer  |-> spent.producer  \union (EpochsOf(g_active) \ EpochsOf(g_active'))]

(***************************************************************************)
(* The producer asks.                                                      *)
(***************************************************************************)
Send(binding) ==
  /\ lane = "Up" /\ Len(up) < LaneCapacity
  /\ up' = Append(up, binding)

BindEnable(classes, watchdog) ==
  /\ epoch < MaxEpoch
  /\ epoch' = epoch + 1
  /\ Send([epoch |-> epoch + 1, surface_generation |-> surface_generation,
           classes |-> classes, watchdog |-> watchdog])
  /\ UNCHANGED <<presenterVars, producerVars, now, eligibility,
                 surface_generation, down, lane, failures, held, spent>>

BindDisable ==
  /\ 0 < epoch /\ epoch < MaxEpoch
  /\ epoch' = epoch + 1
  /\ Send([epoch |-> epoch + 1, surface_generation |-> 0, classes |-> {},
           watchdog |-> 0])
  /\ UNCHANGED <<presenterVars, producerVars, now, eligibility,
                 surface_generation, down, lane, failures, held, spent>>

\* An exact retry, or a late duplicate, of a binding the presenter has had.
BindRetry ==
  /\ p_latest # None
  /\ Send(p_latest)
  /\ UNCHANGED <<presenterVars, producerVars, now, eligibility,
                 surface_generation, epoch, down, lane, failures, held, spent>>

(***************************************************************************)
(* The presenter answers, renews, tags events and revokes.                 *)
(***************************************************************************)
\* A record written to a lane that has failed, unnoticed, is lost.
Emit(record) == down' = IF lane = "Up" THEN Append(down, record) ELSE down

Writable == eligibility.lane_live /\ (lane = "Up" => Len(down) < LaneCapacity)

\* Mutant: the result repeats the classes that were asked for.
BoundAsRequested(b) ==
  [kind |-> "Bound", binding |-> b, classes |-> b.classes,
   watchdog |-> IF p_active' # {} /\ p_state' = "Enabled" THEN p_watchdog' ELSE 0]

\* bound_payload: an exact retry reports the current logical result.
Bound(b) ==
  [kind     |-> "Bound",
   binding  |-> b,
   classes  |-> UNION {a.classes : a \in {x \in p_active' : p_state' = "Enabled"}},
   watchdog |-> IF p_active' # {} /\ p_state' = "Enabled" THEN p_watchdog' ELSE 0]

PresenterApply ==
  /\ up # <<>> /\ Len(down) < LaneCapacity
  /\ up' = Tail(up)
  /\ Presenter!Apply(Head(up), eligibility, now)
  /\ IF p_result' \in {"BadState", "Exhausted"}
       THEN UNCHANGED down
       ELSE Emit(Bound(Head(up)))
  /\ UNCHANGED <<producerVars, now, eligibility, surface_generation, epoch,
                 lane, failures, held>>
  /\ Spend

\* The presenter polls due_renewal and sends what it returns.
PresenterRenew ==
  /\ Writable
  /\ Presenter!DueRenewal(now)
  /\ IF p_result' = "Renewed"
       THEN \E a \in p_active' :
              Emit([kind |-> "Renew", tuple |-> a.tuple,
                    sequence |-> a.renewal, watchdog |-> p_watchdog])
       ELSE UNCHANGED down
  /\ UNCHANGED <<producerVars, now, eligibility, surface_generation, epoch, up,
                 lane, failures, held, spent>>

PresenterEvent(class, pressed) ==
  /\ Writable
  /\ \E a \in p_active :
       /\ Presenter!MayTag(a.tuple, class)
       /\ Emit([kind |-> "Event", tuple |-> a.tuple, class |-> class,
                pressed |-> pressed])
  /\ UNCHANGED <<presenterVars, producerVars, now, eligibility,
                 surface_generation, epoch, up, lane, failures, held, spent>>

\* Revoke, and say so when the lane is writable.
Revoke ==
  /\ Presenter!RevokeGrant
  /\ IF p_result' = "Revoked" /\ Writable
       THEN \E a \in p_active : Emit([kind |-> "Revoked", epoch |-> a.tuple.epoch])
       ELSE UNCHANGED down
  /\ UNCHANGED <<producerVars, now, surface_generation, epoch, up, failures, held>>
  /\ Spend

FocusLoss ==
  /\ eligibility.focused
  /\ eligibility' = [eligibility EXCEPT !.focused = FALSE]
  /\ Revoke
  /\ UNCHANGED lane

FocusGain ==
  /\ ~eligibility.focused
  /\ eligibility' = [eligibility EXCEPT !.focused = TRUE]
  /\ UNCHANGED <<presenterVars, producerVars, now, surface_generation, epoch,
                 networkVars, held, spent>>

PresenterWatchdog ==
  /\ Presenter!WatchdogExpired(now)
  /\ Revoke
  /\ UNCHANGED <<eligibility, lane>>

\* The first presentation for the surface generation the presenter has.
Presented ==
  /\ ~eligibility.presented
  /\ eligibility' = [eligibility EXCEPT !.presented = TRUE]
  /\ UNCHANGED <<presenterVars, producerVars, now, surface_generation, epoch,
                 networkVars, held, spent>>

\* The surface replacement reaches the presenter on the control connection.
PresenterLearnsSurface ==
  /\ eligibility.surface_generation # surface_generation
  /\ eligibility' = [eligibility EXCEPT !.surface_generation = surface_generation,
                                        !.presented = FALSE]
  /\ Revoke
  /\ UNCHANGED lane

(***************************************************************************)
(* The producer takes one record off the lane.                             *)
(***************************************************************************)
\* The injector lets go of what it held for a grant that was released.
StillHeld(keys) == {k \in keys : k.release = g_release'}

ReceiveBound ==
  /\ Head(down).kind = "Bound"
  /\ Producer!ApplyBinding(Head(down).binding, Head(down).classes,
                           Head(down).watchdog, now)
  /\ held' = StillHeld(held)

ReceiveRenew ==
  /\ Head(down).kind = "Renew"
  /\ Producer!Renew(Head(down).tuple, Head(down).sequence, Head(down).watchdog, now)
  /\ UNCHANGED held

\* A revocation of a grant the gate no longer holds is ignored.
ReceiveRevoked ==
  /\ Head(down).kind = "Revoked"
  /\ \/ /\ Head(down).epoch \in EpochsOf(g_active)
        /\ Producer!RevokeGate
        /\ held' = StillHeld(held)
     \/ /\ Head(down).epoch \notin EpochsOf(g_active)
        /\ UNCHANGED <<producerVars, held>>

\* dispatch: the check and the injection are one step under one gate.
Injectable(m) == Producer!Authorized(m.tuple, m.class, surface_generation, now)

ReceiveEvent ==
  /\ Head(down).kind = "Event"
  /\ held' = IF ~Injectable(Head(down)) THEN held
             ELSE IF Head(down).pressed
               THEN {[tuple |-> Head(down).tuple, release |-> g_release]}
               ELSE {}
  /\ UNCHANGED producerVars

ProducerReceives ==
  /\ down # <<>>
  /\ down' = Tail(down)
  /\ ReceiveBound \/ ReceiveRenew \/ ReceiveRevoked \/ ReceiveEvent
  /\ UNCHANGED <<presenterVars, now, eligibility, surface_generation, epoch, up,
                 lane, failures>>
  /\ Spend

\* The producer gives up the grant it holds, if it holds one, by itself.
ProducerRevokes ==
  /\ \/ /\ g_active # {}
        /\ Producer!RevokeGate
     \/ /\ g_active = {}
        /\ UNCHANGED producerVars
  /\ held' = StillHeld(held)
  /\ UNCHANGED <<presenterVars, now, epoch>>
  /\ Spend

\* Mutant: the watchdog is polled by whoever reads the lane.
ProducerWatchdogOnLane ==
  /\ lane = "Up"
  /\ \E a \in g_active : now >= a.deadline
  /\ ProducerRevokes
  /\ UNCHANGED <<eligibility, surface_generation, networkVars>>

ProducerWatchdog ==
  /\ \E a \in g_active : now >= a.deadline
  /\ ProducerRevokes
  /\ UNCHANGED <<eligibility, surface_generation, networkVars>>

\* Mutant: the grant for the old surface is kept.
ReplaceSurfaceKeepsGrant ==
  /\ surface_generation < MaxSurfaceGeneration
  /\ surface_generation' = surface_generation + 1
  /\ UNCHANGED <<presenterVars, producerVars, now, eligibility, epoch,
                 networkVars, held, spent>>

ReplaceSurface ==
  /\ surface_generation < MaxSurfaceGeneration
  /\ surface_generation' = surface_generation + 1
  /\ ProducerRevokes
  /\ UNCHANGED <<eligibility, networkVars>>

(***************************************************************************)
(* The lane fails with what is in it; each side notices in its own time,   *)
(* and the lane reopens when both have.                                    *)
(***************************************************************************)
LaneFails ==
  /\ lane = "Up" /\ failures < MaxLaneFailures
  /\ failures' = failures + 1
  /\ lane' = "Down" /\ up' = <<>> /\ down' = <<>>
  /\ UNCHANGED <<presenterVars, producerVars, now, eligibility,
                 surface_generation, epoch, held, spent>>

PresenterNoticesLane ==
  /\ lane \in {"Down", "ProducerKnows"}
  /\ eligibility' = [eligibility EXCEPT !.lane_live = FALSE]
  /\ lane' = IF lane = "Down" THEN "PresenterKnows" ELSE "BothKnow"
  /\ Revoke

ProducerNoticesLane ==
  /\ lane \in {"Down", "PresenterKnows"}
  /\ ProducerRevokes
  /\ lane' = IF lane = "Down" THEN "ProducerKnows" ELSE "BothKnow"
  /\ UNCHANGED <<eligibility, surface_generation, up, down, failures>>

LaneReopens ==
  /\ lane = "BothKnow"
  /\ lane' = "Up"
  /\ eligibility' = [eligibility EXCEPT !.lane_live = TRUE]
  /\ UNCHANGED <<presenterVars, producerVars, now, surface_generation, epoch, up,
                 down, failures, held, spent>>

Tick ==
  /\ now < MaxTime
  /\ now' = now + 1
  /\ UNCHANGED <<presenterVars, producerVars, eligibility, surface_generation,
                 epoch, networkVars, held, spent>>

Next ==
  \/ \E classes \in (SUBSET Classes) \ {{}}, watchdog \in MinWatchdog..MaxWatchdog :
       BindEnable(classes, watchdog)
  \/ BindDisable
  \/ BindRetry
  \/ PresenterApply
  \/ PresenterRenew
  \/ \E class \in Classes, pressed \in BOOLEAN : PresenterEvent(class, pressed)
  \/ FocusLoss \/ FocusGain \/ Presented \/ PresenterLearnsSurface
  \/ PresenterWatchdog
  \/ ProducerReceives
  \/ ProducerWatchdog
  \/ ReplaceSurface
  \/ LaneFails \/ PresenterNoticesLane \/ ProducerNoticesLane \/ LaneReopens
  \/ Tick

Spec == Init /\ [][Next]_sessionVars

\* Time passes, and the producer notices when its watchdog has run out.
FairSpec == Spec /\ WF_sessionVars(Tick) /\ WF_sessionVars(ProducerWatchdog)

-----------------------------------------------------------------------------
Records ==
  [kind: {"Bound"}, binding: Presenter!Binding, classes: SUBSET Classes,
   watchdog: {0} \union Presenter!Watchdogs]
  \union [kind: {"Renew"}, tuple: Presenter!Tuple, sequence: Nat,
          watchdog: Presenter!Watchdogs]
  \union [kind: {"Revoked"}, epoch: Nat]
  \union [kind: {"Event"}, tuple: Presenter!Tuple, class: Classes, pressed: BOOLEAN]

\* Both machines keep their types, each holds at most one grant, a grant is
\* for the latest binding applied, and no deadline passes the clock's range.
TypeOK ==
  /\ \A latest \in {p_latest, g_latest} : latest \in Presenter!Binding \union {None}
  /\ {p_generation, g_generation, p_release, g_release} \subseteq 0..MaxGeneration
  /\ p_active \subseteq Presenter!ActiveGrant /\ g_active \subseteq Presenter!ActiveGrant
  /\ \A a \in p_active : p_active = {a} /\ a.tuple.epoch = p_latest.epoch
  /\ \A a \in g_active : g_active = {a} /\ a.tuple.epoch = g_latest.epoch
  /\ p_watchdog \in {0} \union Presenter!Watchdogs
  /\ p_sequence \in 0..MaxGeneration /\ p_reported \in 0..MaxGeneration
  /\ p_state = "Enabled" <=> p_active # {}
  /\ \A i \in 1..Len(up) : up[i] \in Presenter!Binding
  /\ \A i \in 1..Len(down) : down[i] \in Records

\* A key held down is held under the grant the gate holds now: replacing or
\* ending a grant, by any path, released what was pressed under it.
HeldUnderItsGrant ==
  \A k \in held : \E a \in g_active : a.tuple = k.tuple

\* No key stays down on a surface that was replaced, and none is pressed on
\* it by an event, or under a grant, that was on its way at the time (until
\* the generations run out and nothing can be revoked any more).
HeldOnCurrentSurface ==
  g_generation < MaxGeneration =>
    \A k \in held : k.tuple.surface_generation = surface_generation

\* No implicit restoration: on neither side does a grant that ended come
\* back, whatever is retried, delayed or reopened, until a greater epoch.
EpochGrantedOnce ==
  /\ EpochsOf(p_active) \intersect spent.presenter = {}
  /\ EpochsOf(g_active) \intersect spent.producer = {}

\* The gate admits input only for an epoch the presenter granted, and only
\* classes the surface can have injected: narrowing is never undone.
GateGrantIsPresenters ==
  \A a \in g_active :
    /\ a.tuple.epoch \in EpochsOf(p_active) \union spent.presenter
    /\ a.classes \subseteq Capability

\* What a renewal that outlived the deadline, or a repeated binding, may do to
\* a grant whose watchdog has run out at the gate: nothing.
NotRevived ==
  \A a \in g_active, b \in g_active' :
    a.tuple = b.tuple /\ now >= a.deadline => b = a

\* "Security does not depend on event delivery": a grant that ran out at the
\* producer's gate is not revived by a renewal the presenter sent in time and
\* the lane delivers late, and once the presenter has given a grant up the
\* gate gives it up too, even if the lane loses everything.
StaleGrantEnds ==
  /\ [][NotRevived]_sessionVars
  /\ ~(EpochsOf(g_active) \subseteq EpochsOf(p_active))
       ~> EpochsOf(g_active) \subseteq EpochsOf(p_active)

-----------------------------------------------------------------------------
\* Desktop surface 8: "event.presenter_grant_generation ==
\* active.presenter_grant_generation": for one epoch, the generation the gate
\* checks is the presenter's.
GateHoldsPresenterGeneration ==
  \A a \in g_active, b \in p_active :
    a.tuple.epoch = b.tuple.epoch => a.tuple.generation = b.tuple.generation

-----------------------------------------------------------------------------
\* The refinement: bindings, results, renewals and the lane do not show.
Consent == INSTANCE InputConsent WITH
  Epochs <- Nat,
  presenter <- EpochsOf(p_active), granted <- EpochsOf(p_active) \union spent.presenter,
  gate <- EpochsOf(g_active), admitted <- EpochsOf(g_active) \union spent.producer,
  keys <- {k.tuple.epoch : k \in held}

\* However the lane fails and whatever is retried or late, the two machines
\* and the injector do only what InputConsent allows.
ImplementsConsent == Consent!ConsentSpec
==============================================================================

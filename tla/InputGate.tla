------------------------------ MODULE InputGate ------------------------------
(***************************************************************************)
(* InputGate of src/src/input.rs: the gate in front of the OS input API.   *)
(* A producer owns one as its final injection boundary; the presenter's    *)
(* InputGrant (module InputGrant) is built on another.                     *)
(*                                                                         *)
(* Data abstraction.  An input-class mask is a set of classes.  A binding  *)
(* and a tuple name one desktop surface, so context and surface ids are    *)
(* left out and the surface generation is kept.  Time is a natural number  *)
(* of ticks.  Bindings are those InputBinding::validate accepts: an        *)
(* enabled one has some class, a nonzero surface generation and a watchdog *)
(* in range, a disabled one has none of the three.                         *)
(***************************************************************************)
EXTENDS Naturals

CONSTANTS
  Classes,         \* INPUT_CLASS_*
  None,            \* Option::None
  MinWatchdog,     \* MIN_WATCHDOG_US
  MaxWatchdog,     \* MAX_WATCHDOG_US
  MaxGeneration,   \* stands for u64::MAX in grant and release generations
  MaxTime          \* stands for u64::MAX microseconds of Monotonic

Watchdogs == MinWatchdog..MaxWatchdog

EnabledBinding ==
  [epoch: Nat \ {0}, surface_generation: Nat \ {0},
   classes: (SUBSET Classes) \ {{}}, watchdog: Watchdogs]
DisabledBinding ==
  [epoch: Nat \ {0}, surface_generation: {0}, classes: {{}}, watchdog: {0}]
Binding == EnabledBinding \union DisabledBinding

Disables(b) == b.surface_generation = 0 /\ b.classes = {}

Tuple == [epoch: Nat \ {0}, generation: Nat \ {0}, surface_generation: Nat \ {0}]

ActiveGrant ==
  [tuple: Tuple, classes: (SUBSET Classes) \ {{}}, watchdog: Watchdogs,
   deadline: 0..MaxTime, renewal: Nat]

VARIABLES
  latest_binding,       \* the last binding applied, or None
  grant_generation,
  active,               \* {} or {the active grant}
  release_generation,   \* counts the grants whose held keys must be released
  gate_result           \* what the last call returned

gateState == <<latest_binding, grant_generation, active, release_generation>>
gateVars == <<gateState, gate_result>>

GateInit ==
  /\ latest_binding = None
  /\ grant_generation = 0
  /\ active = {}
  /\ release_generation = 0
  /\ gate_result = "None"

GateReturns(r) == gate_result' = r
GateRefuses(r) == GateReturns(r) /\ UNCHANGED gateState

\* Mutant of AdvanceGenerations: a grant is given up without its release.
AdvanceGrantOnly ==
  grant_generation' = grant_generation + 1 /\ UNCHANGED release_generation

\* next_grant_generation and next_release_generation both succeed.
CanAdvance ==
  /\ grant_generation < MaxGeneration
  /\ active # {} => release_generation < MaxGeneration

\* The release generation advances exactly when a grant is given up.
AdvanceGenerations ==
  /\ grant_generation' = grant_generation + 1
  /\ release_generation' = IF active # {} THEN release_generation + 1
                                          ELSE release_generation

\* Mutant: an equal epoch is taken for a new one.
NotOlderThanLatest(b) == latest_binding # None => latest_binding.epoch <= b.epoch

NewerThanLatest(b) == latest_binding # None => latest_binding.epoch < b.epoch

ApplyBinding(b, effective_classes, watchdog, now) ==
  LET classes == effective_classes \intersect b.classes
      grants  == ~Disables(b) /\ classes # {} /\ watchdog \in Watchdogs
  IN
  \/ /\ ~NewerThanLatest(b)
     /\ GateRefuses(IF b = latest_binding THEN "ExactRetry" ELSE "BadState")
  \/ /\ NewerThanLatest(b)
     /\ \/ ~CanAdvance
        \/ grants /\ now + watchdog > MaxTime
     /\ GateRefuses("Exhausted")
  \/ /\ NewerThanLatest(b)
     /\ CanAdvance
     /\ latest_binding' = b
     /\ AdvanceGenerations
     /\ \/ /\ ~grants
           /\ active' = {}
           /\ GateReturns(IF Disables(b) THEN "Disabled" ELSE "Denied")
        \/ /\ grants /\ now + watchdog <= MaxTime
           /\ active' =
                {[tuple    |-> [epoch              |-> b.epoch,
                                generation         |-> grant_generation + 1,
                                surface_generation |-> b.surface_generation],
                  classes  |-> classes,
                  watchdog |-> watchdog,
                  deadline |-> now + watchdog,
                  renewal  |-> 0]}
           /\ GateReturns("Enabled")

\* Mutant of Renewable: the deadline is not looked at.
RenewableLate(a, tuple, sequence, watchdog, now) ==
  /\ a.tuple = tuple
  /\ sequence > a.renewal
  /\ watchdog = a.watchdog
  /\ now + watchdog <= MaxTime

Renewable(a, tuple, sequence, watchdog, now) ==
  /\ a.tuple = tuple
  /\ sequence > a.renewal
  /\ now < a.deadline
  /\ watchdog = a.watchdog
  /\ now + watchdog <= MaxTime

Renew(tuple, sequence, watchdog, now) ==
  \/ /\ ~\E a \in active : Renewable(a, tuple, sequence, watchdog, now)
     /\ GateRefuses("Refused")
  \/ /\ \E a \in active :
          /\ Renewable(a, tuple, sequence, watchdog, now)
          /\ active' = {[a EXCEPT !.renewal = sequence, !.deadline = now + watchdog]}
     /\ GateReturns("Renewed")
     /\ UNCHANGED <<latest_binding, grant_generation, release_generation>>

RevokeGate ==
  \/ ~CanAdvance /\ GateRefuses("Exhausted")
  \/ /\ CanAdvance
     /\ AdvanceGenerations
     /\ active' = {}
     /\ GateReturns("Revoked")
     /\ UNCHANGED latest_binding

\* authorize: what must hold, at the injection boundary, of an event.
Authorized(tuple, class, current_surface_generation, now) ==
  \E a \in active :
    /\ a.tuple = tuple
    /\ tuple.surface_generation = current_surface_generation
    /\ now < a.deadline
    /\ class \in a.classes
==============================================================================

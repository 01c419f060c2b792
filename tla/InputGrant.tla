----------------------------- MODULE InputGrant -----------------------------
(***************************************************************************)
(* InputGrant of src/src/grant.rs: the presenter's side of one session's   *)
(* input.  It narrows or refuses a binding by what it may grant right now, *)
(* applies it to its own gate, renews the watchdog, and tags events.       *)
(* The reported reasons are left out.                                      *)
(***************************************************************************)
EXTENDS InputGate

VARIABLES
  watchdog_us,
  renewal_sequence,
  last_state,      \* "Disabled", "Enabled" or "Denied"
  generation       \* the last generation observed

grantFields == <<watchdog_us, renewal_sequence, last_state, generation>>
inputGrantVars == <<gateVars, grantFields>>

GrantInit ==
  /\ GateInit
  /\ watchdog_us = 0
  /\ renewal_sequence = 0
  /\ last_state = "Disabled"
  /\ generation = 0

\* Eligibility::refusal is None.
Eligible(e, b) ==
  /\ e.lane_live /\ e.may_receive_input /\ e.surface_present
  /\ b.surface_generation = e.surface_generation
  /\ e.presented /\ e.focused /\ e.consented
  /\ b.classes \intersect e.capability # {}

ApplyDisable(b, now) ==
  /\ Disables(b)
  /\ ApplyBinding(b, {}, 0, now)
  /\ IF gate_result' \in {"BadState", "Exhausted"}
       THEN UNCHANGED grantFields
       ELSE /\ watchdog_us' = 0
            /\ renewal_sequence' = 0
            /\ last_state' = "Disabled"
            /\ UNCHANGED generation

ApplyEnable(b, e, now) ==
  /\ ~Disables(b)
  /\ ApplyBinding(b, IF Eligible(e, b) THEN e.capability ELSE {}, b.watchdog, now)
  /\ \/ /\ gate_result' = "Enabled"
        /\ generation' = grant_generation'
        /\ watchdog_us' = b.watchdog
        /\ renewal_sequence' = 0
        /\ last_state' = "Enabled"
     \/ /\ gate_result' = "Denied"
        /\ generation' = grant_generation'
        /\ watchdog_us' = 0
        /\ last_state' = "Denied"
        /\ UNCHANGED renewal_sequence
     \/ /\ gate_result' \in {"ExactRetry", "BadState", "Exhausted"}
        /\ UNCHANGED grantFields

Apply(b, e, now) == ApplyDisable(b, now) \/ ApplyEnable(b, e, now)

\* InputGrant::revoke returns None both when nothing is granted and when the
\* gate could not advance; neither changes anything.
RevokeGrant ==
  \/ active = {} /\ GateRefuses("None") /\ UNCHANGED grantFields
  \/ /\ active # {} /\ CanAdvance
     /\ RevokeGate
     /\ generation' = grant_generation'
     /\ watchdog_us' = 0
     /\ renewal_sequence' = 0
     /\ last_state' = "Disabled"
  \/ active # {} /\ ~CanAdvance /\ GateRefuses("None") /\ UNCHANGED grantFields

\* due_renewal: the sequence is taken before the gate accepts the renewal.
RenewalDue(now) ==
  \E a \in active : a.deadline >= watchdog_us \div 2
                    /\ now >= a.deadline - watchdog_us \div 2

DueRenewal(now) ==
  \/ /\ ~RenewalDue(now) \/ renewal_sequence = MaxGeneration
     /\ GateRefuses("None")
     /\ UNCHANGED grantFields
  \/ /\ RenewalDue(now) /\ renewal_sequence < MaxGeneration
     /\ renewal_sequence' = renewal_sequence + 1
     /\ \E a \in active : Renew(a.tuple, renewal_sequence + 1, watchdog_us, now)
     /\ UNCHANGED <<watchdog_us, last_state, generation>>

WatchdogExpired(now) == \E a \in active : now >= a.deadline

\* tag: the tuple an outgoing event of this class is sent under.
MayTag(tuple, class) == \E a \in active : a.tuple = tuple /\ class \in a.classes

\* The generation reported in INPUT_BOUND and asked for by embedders.
ReportedGeneration ==
  IF active = {} THEN generation
                 ELSE (CHOOSE a \in active : TRUE).tuple.generation
==============================================================================

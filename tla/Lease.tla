-------------------------------- MODULE Lease --------------------------------
(***************************************************************************)
(* The session lease of src/src/lease.rs: LeaseMachine and its operations. *)
(* One lease is issued, reserved by a first activation, made active when   *)
(* its WELCOME is committed to the transport, suspended by an unclean loss *)
(* and reserved again by a resume, until it is closed, revoked or expires. *)
(*                                                                         *)
(* Data abstraction.  The triple (attempt id, client nonce, HELLO hash)    *)
(* that Attempt::exact compares is one member of Keys; the server nonce    *)
(* and the stored WELCOME bytes are one member of Welcomes; the profile    *)
(* fingerprint is one member of Profiles.                                  *)
(***************************************************************************)
EXTENDS Naturals

CONSTANTS
  Keys,         \* attempt identities: attempt id, client nonce, HELLO hash
  Profiles,     \* profile fingerprints
  Sessions,     \* session ids a caller may propose; 0 is refused
  Welcomes,     \* server nonce and WELCOME bytes
  None,         \* Option::None
  MaxRevision   \* stands for u64::MAX, the last value of a checked counter

ASSUME LeaseAssumption ==
  /\ MaxRevision \in Nat
  /\ MaxRevision >= 2
  /\ Sessions \subseteq Nat
  /\ None \notin Nat \union Profiles

LeaseStates ==
  {"Issued", "Reserved", "Active", "Suspended", "Closed", "Revoked", "Expired"}
Terminal == {"Closed", "Revoked", "Expired"}

\* Option<ResumeGeneration> of an attempt: None for an activation.
ResumeFrom == Nat \union {None}

Attempt ==
  [key: Keys, session: Sessions \ {0}, welcome: Welcomes,
   transport_live: BOOLEAN, post_hello_admitted: BOOLEAN,
   resume_from: ResumeFrom]

\* Option<Attempt>: a set with at most one attempt.
NoAttempt == {}

VARIABLES
  state,
  revision,
  resume_generation,
  cleanup_policy,      \* "Immediate" or "SuspendOnUncleanLoss"
  disconnect_grace,    \* disconnect_grace_us: only "is it zero" matters
  logical_session,
  profile,
  attempt,             \* {} or {the stored attempt}
  result               \* what the last call returned

machine == <<state, revision, resume_generation, cleanup_policy,
             disconnect_grace, logical_session, profile, attempt>>
policy  == <<cleanup_policy, disconnect_grace>>
leaseVars == <<machine, result>>

(***************************************************************************)
(* Results.                                                                *)
(***************************************************************************)
Returns(kind) == result' = [kind |-> kind, session |-> None, welcome |-> None]

\* AttemptDecision: Fresh or ExactReplay with the attempt's stored outcome.
Decides(kind, a) ==
  result' = [kind |-> kind, session |-> a.session, welcome |-> a.welcome]

\* An error returned before anything was assigned.
Refuses(kind) == Returns(kind) /\ UNCHANGED machine

\* Mutant of ForgetSession: a closed lease keeps its session.
ForgetAttemptOnly == attempt' = NoAttempt /\ UNCHANGED <<logical_session, profile>>

\* advance_revision, the last call of an operation: on exhaustion it returns
\* the error, and what the operation assigned before it stays assigned.
AdvanceRevision ==
  \/ /\ revision < MaxRevision
     /\ revision' = revision + 1
     /\ Returns("Ok")
  \/ /\ revision = MaxRevision
     /\ UNCHANGED revision
     /\ Returns("Exhausted")

ForgetSession ==
  /\ logical_session' = None
  /\ profile' = None
  /\ attempt' = NoAttempt

(***************************************************************************)
(* Attempts.                                                               *)
(***************************************************************************)

NewAttempt(k, s, w, from) ==
  [key |-> k, session |-> s, welcome |-> w, transport_live |-> TRUE,
   post_hello_admitted |-> FALSE, resume_from |-> from]

\* Mutant: whoever asks again is replayed the outcome.
ExactRetryByAnyone(k) ==
  \E a \in attempt :
    /\ attempt' = {[a EXCEPT !.transport_live = TRUE]}
    /\ Decides("ExactReplay", a)
    /\ UNCHANGED <<state, revision, resume_generation, policy,
                   logical_session, profile>>

\* exact_retry: the stored outcome is replayed to the same attempt identity
\* only, and the caller's replacement transport is bound.
ExactRetry(k) ==
  \/ \E a \in attempt :
       /\ a.key = k
       /\ attempt' = {[a EXCEPT !.transport_live = TRUE]}
       /\ Decides("ExactReplay", a)
       /\ UNCHANGED <<state, revision, resume_generation, policy,
                      logical_session, profile>>
  \/ /\ \A a \in attempt : a.key # k
     /\ Refuses("AuthenticationFailed")

\* Mutant: only the transport is looked at.
ActivationRetryableOnceLost == \E a \in attempt : ~a.transport_live

\* An Active lease replays an activation only after its transport was lost
\* and before any record after HELLO was admitted.
ActivationRetryable ==
  \E a \in attempt : ~a.transport_live /\ ~a.post_hello_admitted

BeginActivation(k, p, s, w) ==
  \/ s = 0 /\ Refuses("BadState")
  \/ /\ s # 0
     /\ \E a \in attempt : a.resume_from # None
     /\ Refuses("AuthenticationFailed")
  \/ /\ s # 0
     /\ \A a \in attempt : a.resume_from = None
     /\ \/ /\ state = "Issued"          \* revision 1: never exhausted
           /\ state' = "Reserved"
           /\ revision' = revision + 1
           /\ logical_session' = s
           /\ profile' = p
           /\ attempt' = {NewAttempt(k, s, w, None)}
           /\ Decides("Fresh", NewAttempt(k, s, w, None))
           /\ UNCHANGED <<resume_generation, policy>>
        \/ /\ \/ state = "Reserved"
              \/ state = "Active" /\ ActivationRetryable
           /\ profile = p
           /\ ExactRetry(k)
        \/ /\ \/ state \in {"Reserved", "Active"} /\ profile # p
              \/ state = "Active" /\ ~ActivationRetryable
              \/ state \in Terminal \union {"Suspended"}
           /\ Refuses("AuthenticationFailed")

CommitWelcome ==
  \/ state # "Reserved" /\ Refuses("BadState")
  \/ /\ state = "Reserved"
     /\ state' = "Active"
     /\ AdvanceRevision
     /\ UNCHANGED <<resume_generation, policy, logical_session, profile, attempt>>

AdmitPostHello ==
  \/ /\ state # "Active" \/ attempt = NoAttempt
     /\ Refuses("BadState")
  \/ /\ state = "Active"
     /\ \E a \in attempt :
          attempt' = {[a EXCEPT !.post_hello_admitted = TRUE]}
     /\ Returns("Ok")
     /\ UNCHANGED <<state, revision, resume_generation, policy,
                    logical_session, profile>>

\* An unclean loss that leaves the welcome retryable changes no lease state.
LossKeepsAttempt(clean) ==
  /\ ~clean
  /\ \/ state = "Reserved"
     \/ state = "Active" /\ \E a \in attempt : ~a.post_hello_admitted

ConfirmTransportLost(clean) ==
  \/ /\ state \notin {"Reserved", "Active"}
     /\ Refuses("BadState")
  \/ /\ state \in {"Reserved", "Active"}
     /\ LossKeepsAttempt(clean)
     /\ attempt' = {[a EXCEPT !.transport_live = FALSE] : a \in attempt}
     /\ Returns("Ok")
     /\ UNCHANGED <<state, revision, resume_generation, policy,
                    logical_session, profile>>
  \/ /\ state \in {"Reserved", "Active"}
     /\ ~LossKeepsAttempt(clean)
     /\ \/ /\ clean \/ cleanup_policy = "Immediate" \/ disconnect_grace = 0
           /\ state' = "Closed"
           /\ ForgetSession
        \/ /\ ~clean /\ cleanup_policy # "Immediate" /\ disconnect_grace # 0
           /\ state' = "Suspended"
           /\ attempt' = NoAttempt
           /\ UNCHANGED <<logical_session, profile>>
     /\ AdvanceRevision
     /\ UNCHANGED <<resume_generation, policy>>

ResumesSession(s, p) == logical_session = s /\ profile = p

ResumeRetryable(expected) ==
  \E a \in attempt :
    /\ a.resume_from = expected
    /\ ~a.post_hello_admitted
    /\ state = "Reserved" \/ ~a.transport_live

\* The refusals of begin_resume, in the order the code tests them.
BeginResume(expected, k, p, s, w) ==
  \/ /\ state \in {"Reserved", "Active"}
     /\ \/ /\ ResumesSession(s, p) /\ ResumeRetryable(expected)
           /\ ExactRetry(k)
        \/ /\ ~(ResumesSession(s, p) /\ ResumeRetryable(expected))
           /\ Refuses("AuthenticationFailed")
  \/ /\ state \notin {"Reserved", "Active", "Suspended"}
     /\ Refuses("BadState")
  \/ /\ state = "Suspended"
     /\ \/ /\ expected # resume_generation
           /\ Refuses("StaleResumeGeneration")
        \/ /\ expected = resume_generation
           /\ ~ResumesSession(s, p)
           /\ Refuses("AuthenticationFailed")
        \/ /\ expected = resume_generation
           /\ ResumesSession(s, p)
           /\ revision = MaxRevision \/ resume_generation = MaxRevision
           /\ Refuses("Exhausted")
        \/ /\ expected = resume_generation
           /\ ResumesSession(s, p)
           /\ revision < MaxRevision /\ resume_generation < MaxRevision
           /\ state' = "Reserved"
           /\ revision' = revision + 1
           /\ resume_generation' = resume_generation + 1
           /\ attempt' = {NewAttempt(k, s, w, expected)}
           /\ Decides("Fresh", NewAttempt(k, s, w, expected))
           /\ UNCHANGED <<policy, logical_session, profile>>

\* revoke and expire differ only in the terminal state they reach.
EndLease(terminal) ==
  \/ state \in Terminal /\ Refuses("BadState")
  \/ /\ state \notin Terminal
     /\ state' = terminal
     /\ ForgetSession
     /\ AdvanceRevision
     /\ UNCHANGED <<resume_generation, policy>>

Revoke == EndLease("Revoked")
Expire == EndLease("Expired")

(***************************************************************************)
(* The machine, called in any order with any arguments.                    *)
(***************************************************************************)
LeaseInit ==
  /\ state = "Issued"
  /\ revision = 1
  /\ resume_generation = 0
  /\ cleanup_policy \in {"Immediate", "SuspendOnUncleanLoss"}
  /\ disconnect_grace \in {0, 1}
  /\ logical_session = None
  /\ profile = None
  /\ attempt = NoAttempt
  /\ result = [kind |-> "Ok", session |-> None, welcome |-> None]

LeaseNext ==
  \/ \E k \in Keys, p \in Profiles, s \in Sessions, w \in Welcomes :
       \/ BeginActivation(k, p, s, w)
       \/ \E expected \in 0..MaxRevision : BeginResume(expected, k, p, s, w)
  \/ CommitWelcome
  \/ AdmitPostHello
  \/ \E clean \in BOOLEAN : ConfirmTransportLost(clean)
  \/ Revoke
  \/ Expire

LeaseSpec == LeaseInit /\ [][LeaseNext]_leaseVars

-----------------------------------------------------------------------------
Outcomes == {"Ok", "Fresh", "ExactReplay", "AuthenticationFailed", "BadState",
             "StaleResumeGeneration", "Exhausted"}

\* Every field of LeaseMachine keeps its type, and the revision never leaves
\* the range of its checked counter.
LeaseTypeOK ==
  /\ state \in LeaseStates
  /\ revision \in 1..MaxRevision
  /\ resume_generation \in 0..MaxRevision
  /\ cleanup_policy \in {"Immediate", "SuspendOnUncleanLoss"}
  /\ disconnect_grace \in {0, 1}
  /\ logical_session \in (Sessions \ {0}) \union {None}
  /\ profile \in Profiles \union {None}
  /\ attempt \in SUBSET Attempt
  /\ result.kind \in Outcomes

\* An attempt is stored exactly while one is reserved or active.  The
\* `expect`s of begin_activation and begin_resume rely on it.
AttemptWhileOpen ==
  /\ state \in {"Reserved", "Active"} <=> attempt # NoAttempt
  /\ \A a, b \in attempt : a = b

\* The stored attempt is for the lease's one logical session, and it belongs
\* to the current resume generation: an attempt made before a resume can
\* never be matched after it, whichever call stored it.
AttemptIsCurrent ==
  \A a \in attempt :
    /\ a.session = logical_session
    /\ a.resume_from = None => resume_generation = 0
    /\ a.resume_from # None => a.resume_from + 1 = resume_generation

\* A session and its profile live exactly as long as the lease holds them: a
\* suspended lease keeps both for its resume, a terminal one keeps neither.
SessionWhileHeld ==
  /\ state \in {"Reserved", "Active", "Suspended"} <=> logical_session # None
  /\ logical_session # None <=> profile # None

\* A record after HELLO is admitted only in an active lease.
AdmittedOnlyActive ==
  \A a \in attempt : a.post_hello_admitted => state = "Active"

\* Each resume follows a reservation, an activation and a suspension, and
\* each of them advanced the revision unless it was exhausted; so begin_resume
\* finds the revision exhausted long before its resume generation.
ResumeBehindRevision ==
  /\ resume_generation < revision
  /\ state \in {"Reserved", "Active", "Suspended"} =>
       3 * resume_generation + 2 <= revision
  /\ state = "Active" /\ revision < MaxRevision =>
       3 * resume_generation + 3 <= revision
  /\ state = "Suspended" /\ revision < MaxRevision =>
       3 * resume_generation + 4 <= revision

IssuedIsNew ==
  state = "Issued" => revision = 1 /\ resume_generation = 0

\* The lease's structural invariant; it is inductive.
LeaseInv ==
  /\ IssuedIsNew
  /\ LeaseTypeOK
  /\ AttemptWhileOpen
  /\ AttemptIsCurrent
  /\ SessionWhileHeld
  /\ AdmittedOnlyActive
  /\ ResumeBehindRevision

\* An exact replay is handed out only while no record after HELLO of that
\* attempt was admitted, and it binds the transport that asked for it.
\* Security model 6.4 rule 6: after admission "the activation secret and
\* attempt ID can no longer open a transport".
ReplayOnlyUnadmitted ==
  result.kind = "ExactReplay" =>
    \E a \in attempt :
      /\ ~a.post_hello_admitted
      /\ a.transport_live
      /\ result.session = a.session /\ result.welcome = a.welcome
==============================================================================

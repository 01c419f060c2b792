---------------------------- MODULE LeaseAnswers ----------------------------
(***************************************************************************)
(* LeaseMachine together with the outcomes its callers have been handed:   *)
(* every Fresh or ExactReplay decision travels to the client that asked,   *)
(* so `answers` is what the clients of this lease know.  The lease is      *)
(* shown to implement SessionGrant.                                        *)
(***************************************************************************)
EXTENDS Lease

VARIABLE answers   \* {[key, session, welcome, from]} handed to clients

answerVars == <<leaseVars, answers>>

Answer(k, from) ==
  [key |-> k, session |-> result'.session, welcome |-> result'.welcome, from |-> from]

\* The client that presented key k for this opening is told the decision.
Tell(k, from) ==
  answers' = IF result'.kind \in {"Fresh", "ExactReplay"}
               THEN answers \union {Answer(k, from)}
               ELSE answers

AnswersInit == LeaseInit /\ answers = {}

AskActivation(k, p, s, w) == BeginActivation(k, p, s, w) /\ Tell(k, None)

AskResume(expected, k, p, s, w) ==
  BeginResume(expected, k, p, s, w) /\ Tell(k, expected)

Other ==
  /\ \/ CommitWelcome
     \/ AdmitPostHello
     \/ \E clean \in BOOLEAN : ConfirmTransportLost(clean)
     \/ Revoke
     \/ Expire
  /\ UNCHANGED answers

AnswersNext ==
  \/ \E k \in Keys, p \in Profiles, s \in Sessions, w \in Welcomes :
       \/ AskActivation(k, p, s, w)
       \/ \E expected \in 0..MaxRevision : AskResume(expected, k, p, s, w)
  \/ Other

AnswersSpec == AnswersInit /\ [][AnswersNext]_answerVars

-----------------------------------------------------------------------------
\* Competing attempts: of all the clients that ever activated this lease or
\* resumed it from one generation, a single attempt identity was answered,
\* always with the same session and welcome, however often it retried.
OneOutcomePerOpening ==
  \A a, b \in answers : a.from = b.from => a = b

\* Whatever sequence of activations, losses, retries and resumes happened,
\* every client was told the same logical session ("without creating a
\* second session", security model 6.4).
OneLogicalSession ==
  \A a, b \in answers : a.session = b.session

\* However attempts, losses, retries and resumes interleave, the clients of a
\* lease agree: one outcome per opening, and one logical session for all.
ClientsAgree == OneOutcomePerOpening /\ OneLogicalSession

\* What makes the two inductive: clients know only of generations the lease
\* has left behind, of nothing before the activation, and always of the
\* outcome the lease has stored.
AnswersInv ==
  /\ LeaseInv
  /\ OneOutcomePerOpening
  /\ OneLogicalSession
  /\ \A x \in answers :
       /\ x.from = None \/ (x.from \in Nat /\ x.from < resume_generation)
       /\ logical_session # None => x.session = logical_session
  /\ state = "Issued" => answers = {}
  /\ \A a \in attempt :
       [key |-> a.key, session |-> a.session, welcome |-> a.welcome,
        from |-> a.resume_from] \in answers

-----------------------------------------------------------------------------
\* The refinement: terminal states are one phase, and what SessionGrant calls
\* an opening is what some client was told.
Phase ==
  CASE state = "Issued" -> "Issued"
    [] state \in {"Reserved", "Active"} -> "Open"
    [] state = "Suspended" -> "Suspended"
    [] OTHER -> "Ended"

Grant == INSTANCE SessionGrant WITH
  phase <- Phase, session <- logical_session,
  generation <- resume_generation, openings <- answers

\* The lease implements SessionGrant: replays and refusals are stutters.
ImplementsSessionGrant == Grant!GrantSpec
==============================================================================

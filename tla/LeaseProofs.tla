----------------------------- MODULE LeaseProofs -----------------------------
(***************************************************************************)
(* Theorems about the session lease, for every set of attempts, profiles,  *)
(* sessions and welcomes and every width of the revision counter.          *)
(***************************************************************************)
EXTENDS LeaseAnswers, TLAPS

USE LeaseAssumption

\* LeaseMachine::new starts in the invariant.
LEMMA LeaseInitInv == LeaseInit => LeaseInv
  BY DEF LeaseInit, IssuedIsNew, LeaseInv, LeaseTypeOK, AttemptWhileOpen, AttemptIsCurrent,
     SessionWhileHeld, AdmittedOnlyActive, ResumeBehindRevision, LeaseStates,
     NoAttempt, Outcomes

\* A refusal, and a step that leaves the machine alone, keep the invariant.
LEMMA RefusalInv ==
  ASSUME LeaseInv, UNCHANGED machine, result'.kind \in Outcomes
  PROVE  LeaseInv'
  BY DEF LeaseInv, LeaseTypeOK, AttemptWhileOpen, AttemptIsCurrent,
     SessionWhileHeld, AdmittedOnlyActive, ResumeBehindRevision, IssuedIsNew, machine

\* exact_retry rebinds the stored attempt's transport or refuses; both keep
\* the invariant.
LEMMA ExactRetryInv ==
  ASSUME LeaseInv, NEW k \in Keys, ExactRetry(k)
  PROVE  LeaseInv'
<1>1. CASE \A a \in attempt : a.key # k
  <2>1. Refuses("AuthenticationFailed")
    BY <1>1 DEF ExactRetry
  <2>. QED BY <2>1, RefusalInv DEF Refuses, Returns, Outcomes
<1>2. CASE \E a \in attempt : a.key = k
  <2>1. PICK a \in attempt :
          /\ attempt' = {[a EXCEPT !.transport_live = TRUE]}
          /\ Decides("ExactReplay", a)
          /\ UNCHANGED <<state, revision, resume_generation, policy,
                         logical_session, profile>>
    BY <1>2 DEF ExactRetry
  <2>. DEFINE b == [a EXCEPT !.transport_live = TRUE]
  <2>2. a \in Attempt
    BY DEF LeaseInv, LeaseTypeOK
  <2>3. /\ b \in Attempt
        /\ b.session = a.session
        /\ b.resume_from = a.resume_from
        /\ b.post_hello_admitted = a.post_hello_admitted
    BY <2>2 DEF Attempt
  <2>4. LeaseTypeOK'
    BY <2>1, <2>3 DEF LeaseInv, LeaseTypeOK, Decides, Outcomes, policy
  <2>. QED
    BY <2>1, <2>3, <2>4 DEF LeaseInv, AttemptWhileOpen, AttemptIsCurrent,
       SessionWhileHeld, AdmittedOnlyActive, ResumeBehindRevision, IssuedIsNew, NoAttempt, policy
<1>. QED BY <1>1, <1>2

\* A fresh reservation, by activation or by resume.
LEMMA ReservedInv ==
  ASSUME LeaseInv, NEW k \in Keys, NEW s \in Sessions \ {0}, NEW w \in Welcomes,
         NEW from \in ResumeFrom,
         state' = "Reserved",
         attempt' = {NewAttempt(k, s, w, from)},
         logical_session' = s,
         profile' \in Profiles, profile' # None,
         revision' \in 1..MaxRevision,
         resume_generation' \in 0..MaxRevision,
         from = None => resume_generation' = 0,
         from # None => from + 1 = resume_generation',
         3 * resume_generation' + 2 <= revision',
         result'.kind \in Outcomes,
         UNCHANGED policy
  PROVE  LeaseInv'
<1>. DEFINE b == NewAttempt(k, s, w, from)
<1>1. /\ b \in Attempt /\ b.session = s /\ b.resume_from = from
      /\ b.post_hello_admitted = FALSE
  BY DEF NewAttempt, Attempt
<1>2. s # None
  OBVIOUS
<1>3. LeaseTypeOK'
  BY <1>1 DEF LeaseInv, LeaseTypeOK, LeaseStates, policy
<1>4. resume_generation' < revision'
  <2>1. \A g, r \in Nat : 3 * g + 2 <= r => g < r
    OBVIOUS
  <2>2. resume_generation' \in Nat /\ revision' \in Nat
    OBVIOUS
  <2>. QED BY <2>1, <2>2
<1>. HIDE DEF b
<1>. QED
  BY <1>1, <1>2, <1>3, <1>4 DEF b, LeaseInv, AttemptWhileOpen, AttemptIsCurrent,
     SessionWhileHeld, AdmittedOnlyActive, ResumeBehindRevision, IssuedIsNew, NoAttempt

\* begin_activation: a refusal, an exact retry, or the one reservation.
LEMMA BeginActivationInv ==
  ASSUME LeaseInv, NEW k \in Keys, NEW p \in Profiles, NEW s \in Sessions,
         NEW w \in Welcomes, BeginActivation(k, p, s, w)
  PROVE  LeaseInv'
<1>1. CASE Refuses("BadState") \/ Refuses("AuthenticationFailed")
  BY <1>1, RefusalInv DEF Refuses, Returns, Outcomes
<1>2. CASE ExactRetry(k)
  BY <1>2, ExactRetryInv
<1>3. CASE /\ s # 0
           /\ state = "Issued"
           /\ state' = "Reserved"
           /\ revision' = revision + 1
           /\ logical_session' = s
           /\ profile' = p
           /\ attempt' = {NewAttempt(k, s, w, None)}
           /\ Decides("Fresh", NewAttempt(k, s, w, None))
           /\ UNCHANGED <<resume_generation, policy>>
  <2>1. revision = 1 /\ resume_generation = 0
    BY <1>3 DEF LeaseInv, LeaseTypeOK, IssuedIsNew
  <2>2. p # None
    OBVIOUS
  <2>3. result'.kind \in Outcomes
    BY <1>3 DEF Decides, Outcomes
  <2>4. /\ revision' \in 1..MaxRevision
        /\ resume_generation' \in 0..MaxRevision
        /\ 3 * resume_generation' + 2 <= revision'
    BY <1>3, <2>1
  <2>. QED
    BY <1>3, <2>1, <2>2, <2>3, <2>4, ReservedInv DEF ResumeFrom
<1>. QED BY <1>1, <1>2, <1>3 DEF BeginActivation

\* commit_welcome activates a reserved lease; its revision may be exhausted.
LEMMA CommitWelcomeInv ==
  ASSUME LeaseInv, CommitWelcome
  PROVE  LeaseInv'
<1>1. CASE Refuses("BadState")
  BY <1>1, RefusalInv DEF Refuses, Returns, Outcomes
<1>2. CASE /\ state = "Reserved"
           /\ state' = "Active"
           /\ AdvanceRevision
           /\ UNCHANGED <<resume_generation, policy, logical_session, profile, attempt>>
  BY <1>2 DEF AdvanceRevision, Returns, Outcomes, LeaseInv, LeaseTypeOK, LeaseStates,
     AttemptWhileOpen, AttemptIsCurrent, SessionWhileHeld, AdmittedOnlyActive,
     ResumeBehindRevision, IssuedIsNew, policy
<1>. QED BY <1>1, <1>2 DEF CommitWelcome

\* admit_post_hello marks the attempt of an active lease.
LEMMA AdmitPostHelloInv ==
  ASSUME LeaseInv, AdmitPostHello
  PROVE  LeaseInv'
<1>1. CASE Refuses("BadState")
  BY <1>1, RefusalInv DEF Refuses, Returns, Outcomes
<1>2. CASE /\ state = "Active"
           /\ \E a \in attempt :
                attempt' = {[a EXCEPT !.post_hello_admitted = TRUE]}
           /\ Returns("Ok")
           /\ UNCHANGED <<state, revision, resume_generation, policy,
                          logical_session, profile>>
  <2>1. PICK a \in attempt : attempt' = {[a EXCEPT !.post_hello_admitted = TRUE]}
    BY <1>2
  <2>. DEFINE b == [a EXCEPT !.post_hello_admitted = TRUE]
  <2>2. /\ b \in Attempt
        /\ b.session = a.session
        /\ b.resume_from = a.resume_from
    BY DEF LeaseInv, LeaseTypeOK, Attempt
  <2>. QED
    BY <1>2, <2>1, <2>2 DEF Returns, Outcomes, LeaseInv, LeaseTypeOK,
       AttemptWhileOpen, AttemptIsCurrent, SessionWhileHeld, AdmittedOnlyActive,
       ResumeBehindRevision, IssuedIsNew, NoAttempt, policy
<1>. QED BY <1>1, <1>2 DEF AdmitPostHello

\* confirm_transport_lost keeps the attempt, suspends the lease or closes it;
\* a suspension comes from an active lease only.
LEMMA ConfirmTransportLostInv ==
  ASSUME LeaseInv, NEW clean \in BOOLEAN, ConfirmTransportLost(clean)
  PROVE  LeaseInv'
<1>1. CASE Refuses("BadState")
  BY <1>1, RefusalInv DEF Refuses, Returns, Outcomes
<1>2. CASE /\ state \in {"Reserved", "Active"}
           /\ attempt' = {[a EXCEPT !.transport_live = FALSE] : a \in attempt}
           /\ Returns("Ok")
           /\ UNCHANGED <<state, revision, resume_generation, policy,
                          logical_session, profile>>
  <2>1. PICK a : attempt = {a}
    <3>1. attempt # {} /\ \A x, y \in attempt : x = y
      BY <1>2 DEF LeaseInv, AttemptWhileOpen, NoAttempt
    <3>2. PICK x \in attempt : TRUE
      BY <3>1
    <3>3. attempt = {x}
      BY <3>1, <3>2
    <3> QED BY <3>3
  <2>. DEFINE b == [a EXCEPT !.transport_live = FALSE]
  <2>2. attempt' = {b}
    BY <1>2, <2>1
  <2>3. a \in Attempt
    BY <2>1 DEF LeaseInv, LeaseTypeOK
  <2>4. /\ b \in Attempt
        /\ b.session = a.session
        /\ b.resume_from = a.resume_from
        /\ b.post_hello_admitted = a.post_hello_admitted
    BY <2>3 DEF Attempt
  <2>. HIDE DEF b
  <2>. QED
    BY <1>2, <2>1, <2>2, <2>4 DEF Returns, Outcomes, LeaseInv, LeaseTypeOK,
       AttemptWhileOpen, AttemptIsCurrent, SessionWhileHeld, AdmittedOnlyActive,
       ResumeBehindRevision, IssuedIsNew, NoAttempt, policy
<1>3. CASE /\ state \in {"Reserved", "Active"}
           /\ ~LossKeepsAttempt(clean)
           /\ state' \in {"Closed", "Suspended"}
           /\ state' = "Closed" => ForgetSession
           /\ state' = "Suspended" =>
                attempt' = NoAttempt /\ UNCHANGED <<logical_session, profile>>
           /\ AdvanceRevision
           /\ UNCHANGED <<resume_generation, policy>>
  <2>1. state = "Active" \/ state' = "Closed"
    BY <1>3 DEF ConfirmTransportLost, LossKeepsAttempt
  <2>. QED
    BY <1>3, <2>1 DEF AdvanceRevision, ForgetSession, Returns, Outcomes, LeaseInv,
       LeaseTypeOK, LeaseStates, AttemptWhileOpen, AttemptIsCurrent, SessionWhileHeld,
       AdmittedOnlyActive, ResumeBehindRevision, IssuedIsNew, NoAttempt, policy
<1>. QED BY <1>1, <1>2, <1>3 DEF ConfirmTransportLost

\* begin_resume: a refusal, an exact retry, or the next resume generation.
LEMMA BeginResumeInv ==
  ASSUME LeaseInv, NEW expected \in 0..MaxRevision, NEW k \in Keys,
         NEW p \in Profiles, NEW s \in Sessions, NEW w \in Welcomes,
         BeginResume(expected, k, p, s, w)
  PROVE  LeaseInv'
<1>1. CASE \E e \in {"AuthenticationFailed", "BadState", "StaleResumeGeneration",
                     "Exhausted"} : Refuses(e)
  BY <1>1, RefusalInv DEF Refuses, Returns, Outcomes
<1>2. CASE ExactRetry(k)
  BY <1>2, ExactRetryInv
<1>3. CASE /\ state = "Suspended"
           /\ expected = resume_generation
           /\ logical_session = s /\ profile = p
           /\ revision < MaxRevision /\ resume_generation < MaxRevision
           /\ state' = "Reserved"
           /\ revision' = revision + 1
           /\ resume_generation' = resume_generation + 1
           /\ attempt' = {NewAttempt(k, s, w, expected)}
           /\ Decides("Fresh", NewAttempt(k, s, w, expected))
           /\ UNCHANGED <<policy, logical_session, profile>>
  <2>1. s # 0
    BY <1>3 DEF LeaseInv, LeaseTypeOK
  <2>2. 3 * resume_generation + 4 <= revision
    BY <1>3 DEF LeaseInv, ResumeBehindRevision
  <2>. QED
    BY <1>3, <2>1, <2>2, ReservedInv DEF LeaseInv, LeaseTypeOK, Decides, Outcomes, ResumeFrom
<1>. QED BY <1>1, <1>2, <1>3 DEF BeginResume, ResumesSession

\* revoke and expire drop the session and the attempt.
LEMMA EndLeaseInv ==
  ASSUME LeaseInv, NEW t \in Terminal, EndLease(t)
  PROVE  LeaseInv'
<1>1. CASE Refuses("BadState")
  BY <1>1, RefusalInv DEF Refuses, Returns, Outcomes
<1>2. CASE /\ state' = t
           /\ ForgetSession
           /\ AdvanceRevision
           /\ UNCHANGED <<resume_generation, policy>>
  BY <1>2 DEF AdvanceRevision, ForgetSession, Returns, Outcomes, LeaseInv, LeaseTypeOK,
     LeaseStates, Terminal, AttemptWhileOpen, AttemptIsCurrent, SessionWhileHeld,
     AdmittedOnlyActive, ResumeBehindRevision, IssuedIsNew, NoAttempt, policy
<1>. QED BY <1>1, <1>2 DEF EndLease

\* Every call on LeaseMachine keeps the invariant.
LEMMA LeaseStepInv == LeaseInv /\ [LeaseNext]_leaseVars => LeaseInv'
<1>. SUFFICES ASSUME LeaseInv, [LeaseNext]_leaseVars
              PROVE  LeaseInv'
  OBVIOUS
<1>1. CASE UNCHANGED leaseVars
  BY <1>1, RefusalInv DEF leaseVars, LeaseInv, LeaseTypeOK
<1>2. CASE LeaseNext
  <2>1. Revoke \/ Expire => LeaseInv'
    BY EndLeaseInv DEF Revoke, Expire, Terminal
  <2>. QED
    BY <1>2, <2>1, BeginActivationInv, BeginResumeInv, CommitWelcomeInv,
       AdmitPostHelloInv, ConfirmTransportLostInv DEF LeaseNext
<1>. QED BY <1>1, <1>2

\* The lease's structural invariant holds of every reachable state: attempts,
\* sessions and revisions agree whatever callers do, exhaustion included.
THEOREM LeaseStructure == AnswersSpec => []LeaseInv
<1>1. AnswersInit => LeaseInv
  BY LeaseInitInv DEF AnswersInit
<1>2. LeaseInv /\ [AnswersNext]_answerVars => LeaseInv'
  BY LeaseStepInv DEF AnswersNext, AskActivation, AskResume, Other, LeaseNext,
     answerVars
<1>. QED BY <1>1, <1>2, PTL DEF AnswersSpec

-----------------------------------------------------------------------------
\* In particular the lease's types hold, its counters never pass their width,
\* and a stored attempt is always one of the current resume generation.
THEOREM AttemptsAreCurrent == AnswersSpec => [](LeaseTypeOK /\ AttemptIsCurrent)
<1>1. LeaseInv => LeaseTypeOK /\ AttemptIsCurrent
  BY DEF LeaseInv
<1>. QED BY <1>1, LeaseStructure, PTL

\* A step that tells nobody anything, and leaves the stored outcome of an
\* attempt alone or drops it.
LEMMA QuietStepInv ==
  ASSUME AnswersInv, LeaseInv', answers' = answers,
         UNCHANGED resume_generation,
         logical_session' \in {logical_session, None},
         state' = "Issued" => state = "Issued",
         \A b \in attempt' : \E a \in attempt :
           /\ b.key = a.key /\ b.session = a.session
           /\ b.welcome = a.welcome /\ b.resume_from = a.resume_from
  PROVE  AnswersInv'
  BY DEF AnswersInv, OneOutcomePerOpening, OneLogicalSession

\* An exact retry tells the client what it, or its twin, was told before.
LEMMA ExactRetryAnswers ==
  ASSUME AnswersInv, NEW k \in Keys, ExactRetry(k),
         NEW from, \A a \in attempt : a.resume_from = from,
         Tell(k, from)
  PROVE  /\ answers' = answers
         /\ UNCHANGED <<state, resume_generation, logical_session>>
         /\ \A b \in attempt' : \E a \in attempt :
              /\ b.key = a.key /\ b.session = a.session
              /\ b.welcome = a.welcome /\ b.resume_from = a.resume_from
<1>1. CASE \A a \in attempt : a.key # k
  BY <1>1 DEF ExactRetry, Refuses, Returns, machine, Tell
<1>2. CASE \E a \in attempt : a.key = k
  <2>1. PICK a \in attempt :
          /\ a.key = k
          /\ attempt' = {[a EXCEPT !.transport_live = TRUE]}
          /\ Decides("ExactReplay", a)
          /\ UNCHANGED <<state, resume_generation, logical_session>>
    BY <1>2 DEF ExactRetry
  <2>. DEFINE b == [a EXCEPT !.transport_live = TRUE]
  <2>2. a \in Attempt
    BY DEF AnswersInv, LeaseInv, LeaseTypeOK
  <2>3. /\ b.key = a.key /\ b.session = a.session
        /\ b.welcome = a.welcome /\ b.resume_from = a.resume_from
    BY <2>2 DEF Attempt
  <2>4. Answer(k, from) \in answers
    BY <2>1 DEF AnswersInv, Answer, Decides
  <2>5. answers' = answers
    BY <2>4 DEF Tell
  <2>. QED BY <2>1, <2>3, <2>5
<1>. QED BY <1>1, <1>2

\* A refused call tells nobody anything.
LEMMA RefusalAnswers ==
  ASSUME NEW k, NEW from, Tell(k, from),
         NEW e \in {"AuthenticationFailed", "BadState", "StaleResumeGeneration",
                    "Exhausted"},
         Refuses(e)
  PROVE  UNCHANGED <<machine, answers>>
  BY DEF Tell, Refuses, Returns

\* A fresh opening from a point no client has been answered about.
LEMMA FreshAnswers ==
  ASSUME AnswersInv, LeaseInv', NEW k \in Keys, NEW s \in Sessions \ {0},
         NEW w \in Welcomes, NEW from \in ResumeFrom,
         attempt' = {NewAttempt(k, s, w, from)},
         Decides("Fresh", NewAttempt(k, s, w, from)),
         Tell(k, from),
         logical_session' = s,
         logical_session \in {None, s},
         state' = "Reserved",
         resume_generation' \in Nat,
         resume_generation <= resume_generation', resume_generation \in Nat,
         from = None => answers = {},
         from # None => /\ logical_session = s
                        /\ from = resume_generation
                        /\ resume_generation' = resume_generation + 1
  PROVE  /\ AnswersInv'
         /\ answers' = answers \union
              {[key |-> k, session |-> s, welcome |-> w, from |-> from]}
<1>. DEFINE x == [key |-> k, session |-> s, welcome |-> w, from |-> from]
<1>1. answers' = answers \union {x}
  BY DEF Tell, Answer, Decides, NewAttempt
<1>2. \A y \in answers : y.from # from /\ y.session = s
  BY DEF AnswersInv, ResumeFrom
<1>3. /\ x.from = from /\ x.session = s
  OBVIOUS
<1>. HIDE DEF x
<1>4. OneOutcomePerOpening' /\ OneLogicalSession'
  BY <1>1, <1>2, <1>3 DEF AnswersInv, OneOutcomePerOpening, OneLogicalSession
<1>5. \A y \in answers' :
        /\ y.from = None \/ (y.from \in Nat /\ y.from < resume_generation')
        /\ y.session = s
  BY <1>1, <1>2, <1>3 DEF AnswersInv, ResumeFrom
<1>6. \A a \in attempt' :
        [key |-> a.key, session |-> a.session, welcome |-> a.welcome,
         from |-> a.resume_from] \in answers'
  BY <1>1 DEF x, NewAttempt
<1>. QED BY <1>1, <1>4, <1>5, <1>6 DEF AnswersInv, x

\* What a client is told of an activation is a stored outcome or the first
\* opening of the session.
LEMMA AskActivationStep ==
  ASSUME AnswersInv, LeaseInv', NEW k \in Keys, NEW p \in Profiles,
         NEW s \in Sessions, NEW w \in Welcomes, AskActivation(k, p, s, w)
  PROVE  /\ AnswersInv'
         /\ \/ UNCHANGED <<state, resume_generation, logical_session, answers>>
            \/ s # 0 /\ Grant!Activate(k, s, w)
<1>1. CASE Refuses("BadState") \/ Refuses("AuthenticationFailed")
  <2>1. UNCHANGED <<machine, answers>>
    BY <1>1, RefusalAnswers DEF AskActivation
  <2>. QED BY <2>1, QuietStepInv DEF machine
<1>2. CASE ExactRetry(k) /\ \A a \in attempt : a.resume_from = None
  BY <1>2, ExactRetryAnswers, QuietStepInv DEF AskActivation
<1>3. CASE /\ s # 0
           /\ state = "Issued"
           /\ state' = "Reserved"
           /\ logical_session' = s
           /\ attempt' = {NewAttempt(k, s, w, None)}
           /\ Decides("Fresh", NewAttempt(k, s, w, None))
           /\ UNCHANGED resume_generation
  <2>1. answers = {} /\ logical_session = None /\ resume_generation \in Nat
    BY <1>3 DEF AnswersInv, LeaseInv, SessionWhileHeld, LeaseTypeOK
  <2>2. /\ AnswersInv'
        /\ answers' = answers \union
             {[key |-> k, session |-> s, welcome |-> w, from |-> None]}
    <3>1. None \in ResumeFrom /\ Tell(k, None)
      BY DEF AskActivation, ResumeFrom
    <3>2. /\ s \in Sessions \ {0}
          /\ logical_session \in {None, s}
          /\ resume_generation' \in Nat
          /\ resume_generation <= resume_generation'
      BY <1>3, <2>1
    <3>. QED BY <1>3, <2>1, <3>1, <3>2, FreshAnswers
  <2>3. Grant!Activate(k, s, w)
    BY <1>3, <2>1, <2>2 DEF Grant!Activate, Grant!Opening, Phase
  <2>. QED BY <1>3, <2>2, <2>3
<1>. QED BY <1>1, <1>2, <1>3 DEF AskActivation, BeginActivation

\* What a client is told of a resume is a stored outcome or the opening that
\* uses up the current resume generation.
LEMMA AskResumeStep ==
  ASSUME AnswersInv, LeaseInv', NEW expected \in 0..MaxRevision, NEW k \in Keys,
         NEW p \in Profiles, NEW s \in Sessions, NEW w \in Welcomes,
         AskResume(expected, k, p, s, w)
  PROVE  /\ AnswersInv'
         /\ \/ UNCHANGED <<state, resume_generation, logical_session, answers>>
            \/ Grant!Resume(k, w)
<1>1. CASE \E e \in {"AuthenticationFailed", "BadState", "StaleResumeGeneration",
                     "Exhausted"} : Refuses(e)
  <2>1. UNCHANGED <<machine, answers>>
    BY <1>1, RefusalAnswers DEF AskResume
  <2>. QED BY <2>1, QuietStepInv DEF machine
<1>2. CASE ExactRetry(k) /\ ResumeRetryable(expected)
  <2>1. \A a \in attempt : a.resume_from = expected
    BY <1>2 DEF ResumeRetryable, AnswersInv, LeaseInv, AttemptWhileOpen
  <2>. QED BY <1>2, <2>1, ExactRetryAnswers, QuietStepInv DEF AskResume
<1>3. CASE /\ state = "Suspended"
           /\ expected = resume_generation
           /\ logical_session = s
           /\ state' = "Reserved"
           /\ resume_generation' = resume_generation + 1
           /\ attempt' = {NewAttempt(k, s, w, expected)}
           /\ Decides("Fresh", NewAttempt(k, s, w, expected))
           /\ UNCHANGED logical_session
  <2>1. s # 0 /\ resume_generation \in Nat /\ expected # None
    BY <1>3 DEF AnswersInv, LeaseInv, LeaseTypeOK
  <2>2. /\ AnswersInv'
        /\ answers' = answers \union
             {[key |-> k, session |-> s, welcome |-> w, from |-> expected]}
    BY <1>3, <2>1, FreshAnswers DEF AskResume, ResumeFrom
  <2>3. Grant!Resume(k, w)
    BY <1>3, <2>1, <2>2 DEF Grant!Resume, Grant!Opening, Phase
  <2>. QED BY <2>2, <2>3
<1>. QED BY <1>1, <1>2, <1>3 DEF AskResume, BeginResume, ResumesSession

\* The calls that answer nobody suspend the session, end it, or leave it.
LEMMA OtherStep ==
  ASSUME AnswersInv, LeaseInv', Other
  PROVE  /\ AnswersInv'
         /\ \/ UNCHANGED <<Phase, resume_generation, logical_session, answers>>
            \/ Grant!Suspend
            \/ Grant!End
<1>1. ASSUME NEW e \in {"BadState"}, Refuses(e)
      PROVE  AnswersInv' /\ UNCHANGED <<Phase, resume_generation, logical_session, answers>>
  BY <1>1, QuietStepInv DEF Refuses, machine, Phase, Other
<1>2. CASE CommitWelcome
  BY <1>1, <1>2, QuietStepInv DEF CommitWelcome, Phase, Other
<1>3. CASE AdmitPostHello
  <2>1. CASE \E a \in attempt :
               /\ attempt' = {[a EXCEPT !.post_hello_admitted = TRUE]}
               /\ UNCHANGED <<state, resume_generation, logical_session>>
    <3>1. PICK a \in attempt :
               /\ attempt' = {[a EXCEPT !.post_hello_admitted = TRUE]}
               /\ UNCHANGED <<state, resume_generation, logical_session>>
      BY <2>1
    <3>. DEFINE b == [a EXCEPT !.post_hello_admitted = TRUE]
    <3>2. /\ b.key = a.key /\ b.session = a.session
          /\ b.welcome = a.welcome /\ b.resume_from = a.resume_from
      BY DEF AnswersInv, LeaseInv, LeaseTypeOK, Attempt
    <3>. QED BY <3>1, <3>2, QuietStepInv DEF Phase, Other
  <2>. QED BY <1>1, <1>3, <2>1 DEF AdmitPostHello
<1>4. ASSUME NEW clean \in BOOLEAN, ConfirmTransportLost(clean)
      PROVE  /\ AnswersInv'
             /\ \/ UNCHANGED <<Phase, resume_generation, logical_session, answers>>
                \/ Grant!Suspend
                \/ Grant!End
  <2>1. CASE /\ attempt' = {[a EXCEPT !.transport_live = FALSE] : a \in attempt}
             /\ UNCHANGED <<state, resume_generation, logical_session>>
    <3>1. \A a \in attempt : LET b == [a EXCEPT !.transport_live = FALSE] IN
            /\ b.key = a.key /\ b.session = a.session
            /\ b.welcome = a.welcome /\ b.resume_from = a.resume_from
      BY DEF AnswersInv, LeaseInv, LeaseTypeOK, Attempt
    <3>2. \A b \in attempt' : \E a \in attempt :
            /\ b.key = a.key /\ b.session = a.session
            /\ b.welcome = a.welcome /\ b.resume_from = a.resume_from
      <4>. SUFFICES ASSUME NEW b \in attempt'
                    PROVE  \E a \in attempt :
                             /\ b.key = a.key /\ b.session = a.session
                             /\ b.welcome = a.welcome /\ b.resume_from = a.resume_from
        OBVIOUS
      <4>1. PICK a \in attempt : b = [a EXCEPT !.transport_live = FALSE]
        BY <2>1
      <4>. QED BY <3>1, <4>1
    <3>. QED BY <2>1, <3>2, QuietStepInv DEF Phase, Other
  <2>2. CASE /\ state \in {"Reserved", "Active"}
             /\ state' = "Closed" /\ ForgetSession
             /\ UNCHANGED resume_generation
    <3>1. AnswersInv'
      BY <2>2, QuietStepInv DEF ForgetSession, NoAttempt, Other
    <3>2. Grant!End
      BY <2>2 DEF Grant!End, ForgetSession, Phase, Other
    <3>. QED BY <3>1, <3>2
  <2>3. CASE /\ state \in {"Reserved", "Active"}
             /\ state' = "Suspended" /\ attempt' = NoAttempt
             /\ UNCHANGED <<resume_generation, logical_session>>
    <3>1. AnswersInv'
      BY <2>3, QuietStepInv DEF NoAttempt, Other
    <3>2. Grant!Suspend
      BY <2>3 DEF Grant!Suspend, Phase, Other
    <3>. QED BY <3>1, <3>2
  <2>. QED BY <1>1, <1>4, <2>1, <2>2, <2>3 DEF ConfirmTransportLost
<1>5. ASSUME NEW t \in Terminal, EndLease(t)
      PROVE  /\ AnswersInv'
             /\ \/ UNCHANGED <<Phase, resume_generation, logical_session, answers>>
                \/ Grant!End
  <2>1. CASE /\ state \notin Terminal /\ state' = t /\ ForgetSession
             /\ UNCHANGED resume_generation
    <3>1. AnswersInv'
      BY <2>1, QuietStepInv DEF ForgetSession, NoAttempt, Terminal, Other
    <3>2. state \in {"Issued", "Reserved", "Active", "Suspended"}
      BY <2>1 DEF AnswersInv, LeaseInv, LeaseTypeOK, LeaseStates, Terminal
    <3>3. Grant!End
      BY <2>1, <3>2 DEF Grant!End, ForgetSession, Phase, Terminal, Other
    <3>. QED BY <3>1, <3>3
  <2>. QED BY <1>1, <1>5, <2>1 DEF EndLease
<1>6. CASE Revoke \/ Expire
  BY <1>5, <1>6 DEF Revoke, Expire, Terminal
<1>. QED BY <1>2, <1>3, <1>4, <1>6 DEF Other

\* Every call keeps AnswersInv and is a step, or a stutter, of SessionGrant.
LEMMA AnswersStep ==
  ASSUME AnswersInv, [AnswersNext]_answerVars
  PROVE  AnswersInv' /\ [Grant!GrantNext]_(Grant!grantVars)
<1>1. LeaseInv'
  BY LeaseStepInv DEF AnswersInv, AnswersNext, AskActivation, AskResume, Other,
     LeaseNext, answerVars
<1>2. CASE UNCHANGED answerVars
  BY <1>1, <1>2, QuietStepInv DEF answerVars, leaseVars, machine, Grant!grantVars, Phase
<1>3. ASSUME NEW k \in Keys, NEW p \in Profiles, NEW s \in Sessions,
             NEW w \in Welcomes, AskActivation(k, p, s, w)
      PROVE  AnswersInv' /\ [Grant!GrantNext]_(Grant!grantVars)
  BY <1>1, <1>3, AskActivationStep DEF Grant!GrantNext, Grant!grantVars, Phase
<1>4. ASSUME NEW k \in Keys, NEW p \in Profiles, NEW s \in Sessions,
             NEW w \in Welcomes, NEW expected \in 0..MaxRevision,
             AskResume(expected, k, p, s, w)
      PROVE  AnswersInv' /\ [Grant!GrantNext]_(Grant!grantVars)
  BY <1>1, <1>4, AskResumeStep DEF Grant!GrantNext, Grant!grantVars, Phase
<1>5. CASE Other
  BY <1>1, <1>5, OtherStep DEF Grant!GrantNext, Grant!grantVars
<1>. QED BY <1>2, <1>3, <1>4, <1>5 DEF AnswersNext

\* An issued lease has told nobody anything.
LEMMA AnswersStart == AnswersInit => AnswersInv /\ Grant!GrantInit
  BY LeaseInitInv DEF AnswersInit, AnswersInv, OneOutcomePerOpening, OneLogicalSession,
     LeaseInit, NoAttempt, Grant!GrantInit, Phase

\* However attempts, losses, retries and resumes interleave, the clients of a
\* lease are told of one outcome per opening and of one logical session.
THEOREM AnswersAgree == AnswersSpec => []ClientsAgree
<1>1. AnswersInv => ClientsAgree
  BY DEF AnswersInv, ClientsAgree
<1>. QED BY <1>1, AnswersStart, AnswersStep, PTL DEF AnswersSpec

\* The invariant behind it holds of every reachable state: what clients were
\* told is what the lease has stored, or belongs to a generation it has left.
THEOREM AnswersInvariant == AnswersSpec => []AnswersInv
  BY AnswersStart, AnswersStep, PTL DEF AnswersSpec

\* exact_retry, reached through a test that looked at the stored attempt,
\* replays an attempt whose records after HELLO were never admitted.
LEMMA ExactRetryUnadmitted ==
  ASSUME LeaseInv, NEW k \in Keys, ExactRetry(k),
         \A a \in attempt : ~a.post_hello_admitted
  PROVE  ReplayOnlyUnadmitted'
<1>1. CASE \A a \in attempt : a.key # k
  BY <1>1 DEF ExactRetry, Refuses, Returns, ReplayOnlyUnadmitted
<1>2. CASE \E a \in attempt : a.key = k
  <2>1. PICK a \in attempt :
          /\ attempt' = {[a EXCEPT !.transport_live = TRUE]}
          /\ Decides("ExactReplay", a)
    BY <1>2 DEF ExactRetry
  <2>. DEFINE b == [a EXCEPT !.transport_live = TRUE]
  <2>2. a \in Attempt /\ ~a.post_hello_admitted
    BY DEF LeaseInv, LeaseTypeOK
  <2>3. /\ b.transport_live /\ ~b.post_hello_admitted
        /\ b.session = a.session /\ b.welcome = a.welcome
    BY <2>2 DEF Attempt
  <2>4. result'.session = a.session /\ result'.welcome = a.welcome
    BY <2>1 DEF Decides
  <2>. QED BY <2>1, <2>3, <2>4 DEF ReplayOnlyUnadmitted
<1>. QED BY <1>1, <1>2

\* Each call on LeaseMachine replays an unadmitted attempt or nothing.
LEMMA ReplayStep ==
  ASSUME LeaseInv, ReplayOnlyUnadmitted, [AnswersNext]_answerVars
  PROVE  ReplayOnlyUnadmitted'
<1>1. CASE UNCHANGED answerVars
  BY <1>1 DEF answerVars, leaseVars, machine, ReplayOnlyUnadmitted
<1>2. CASE result'.kind # "ExactReplay"
  BY <1>2 DEF ReplayOnlyUnadmitted
<1>3. state = "Reserved" => \A a \in attempt : ~a.post_hello_admitted
  BY DEF LeaseInv, AdmittedOnlyActive
<1>4. ASSUME NEW k \in Keys, NEW p \in Profiles, NEW s \in Sessions,
             NEW w \in Welcomes, BeginActivation(k, p, s, w),
             result'.kind = "ExactReplay"
      PROVE  ReplayOnlyUnadmitted'
  <2>1. ExactRetry(k) /\ (state = "Reserved" \/ ActivationRetryable)
    BY <1>4 DEF BeginActivation, Refuses, Returns, Decides
  <2>2. \A a \in attempt : ~a.post_hello_admitted
    BY <1>3, <2>1 DEF ActivationRetryable, LeaseInv, AttemptWhileOpen
  <2>. QED BY <2>1, <2>2, ExactRetryUnadmitted
<1>5. ASSUME NEW k \in Keys, NEW p \in Profiles, NEW s \in Sessions,
             NEW w \in Welcomes, NEW expected \in 0..MaxRevision,
             BeginResume(expected, k, p, s, w), result'.kind = "ExactReplay"
      PROVE  ReplayOnlyUnadmitted'
  <2>1. ExactRetry(k) /\ ResumeRetryable(expected)
    BY <1>5 DEF BeginResume, Refuses, Returns, Decides
  <2>2. \A a \in attempt : ~a.post_hello_admitted
    BY <2>1 DEF ResumeRetryable, LeaseInv, AttemptWhileOpen
  <2>. QED BY <2>1, <2>2, ExactRetryUnadmitted
<1>6. CASE Other
  BY <1>2, <1>6 DEF Other, CommitWelcome, AdmitPostHello, ConfirmTransportLost, Revoke,
     Expire, EndLease, AdvanceRevision, Refuses, Returns
<1>. QED BY <1>1, <1>2, <1>4, <1>5, <1>6 DEF AnswersNext, AskActivation, AskResume

\* Security model 6.4: once a record after HELLO was admitted, the activation
\* secret opens no transport: begin_activation and begin_resume replay the
\* stored welcome only before that, and bind the transport that asked.
THEOREM ReplaysPrecedeAdmission == AnswersSpec => []ReplayOnlyUnadmitted
<1>1. AnswersInit => ReplayOnlyUnadmitted
  BY DEF AnswersInit, LeaseInit, ReplayOnlyUnadmitted
<1>. QED BY <1>1, LeaseStructure, ReplayStep, PTL DEF AnswersSpec

\* LeaseMachine keeps the promise of SessionGrant: every step activates,
\* suspends, resumes or ends the one session, or changes nothing of it.
THEOREM LeaseImplementsSessionGrant == AnswersSpec => ImplementsSessionGrant
  BY AnswersStart, AnswersStep, PTL DEF AnswersSpec, ImplementsSessionGrant, Grant!GrantSpec
==============================================================================

---------------------------- MODULE ControlRecords ----------------------------
(***************************************************************************)
(* The records of messages.rs that open a session, its lanes and channels, *)
(* and the envelope and the error reply of the control lane.               *)
(***************************************************************************)
EXTENDS Records, FiniteSets

(***************************************************************************)
(* The envelope.  Maps are coded as texts are: empty, ordinary, and two    *)
(* that only one side refuses: a key no schema registers, keys unsorted.   *)
(***************************************************************************)
UnknownKey == 3
Unsorted == 4
Map == 0..4

EnvelopeOptions ==
  [preconditions |-> Map] ++ Fields({"transaction_id", "expected_target_generation"}, U64) ++
  Fields({"idempotency_key", "causation_id"}, Fixed)

EncodesEnvelope(p) == p.payload # Unsorted /\ Get(p, "preconditions", Empty) # Unsorted
DecodesEnvelope(p) ==
  /\ ReadsWith([request_id |-> U64, payload |-> Map], EnvelopeOptions, p)
  /\ EncodesEnvelope(p)
  /\ Get(p, "preconditions", Empty) # UnknownKey

\* Empty preconditions are not written.
WrittenEnvelope(p) == WithoutDefault(p, "preconditions", Empty)

IsRequest(p) == p.request_id # 0

(***************************************************************************)
(* Profiles.  A list is a number; prerequisites as in registry.rs.         *)
(***************************************************************************)
ProfileLists ==
  [code \in 0..6 |->
     CASE code = 0 -> {} [] code = 1 -> {"core", "terminal"}
       [] code = 2 -> {"core", "terminal", "live", "vector"} [] code = 3 -> {"vector"}
       [] code = 4 -> {"future"} [] code = 5 -> {"live"}
       [] OTHER -> {"core", "terminal", "live"}]
ListCodes == DOMAIN ProfileLists \union {Widest}
SortedList(code) == code \in DOMAIN ProfileLists
TargetProfiles == <<"terminal", "desktop">>

KnownProfiles == {"core", "terminal", "desktop", "live", "vector"}
Prerequisites(profile) ==
  CASE profile = "core" -> {}
    [] profile = "vector" -> {"live"}
    [] OTHER -> {"core"}

ClosedWithin(profiles, offered) ==
  \A profile \in profiles \intersect KnownProfiles : Prerequisites(profile) \subseteq offered

\* registry::validate_profile_set
ValidProfileSet(profiles) == profiles \subseteq KnownProfiles /\ ClosedWithin(profiles, profiles)

NamesTarget(profiles, target) ==
  "core" \in profiles /\ target \in DOMAIN TargetProfiles /\ TargetProfiles[target] \in profiles

(***************************************************************************)
(* HELLO.                                                                  *)
(***************************************************************************)
ROOT == 0
LEASE_ACTIVATION == 1
RESUME == 2

\* HelloAuthentication: the keys of each kind.
AuthFields(kind) ==
  CASE kind = ROOT -> [auth_proof |-> Fixed]
    [] kind = LEASE_ACTIVATION ->
         Fields({"auth_context_id", "auth_lease_id"}, U64) ++
         Fields({"auth_activation_secret", "auth_attempt_id"}, Fixed)
    [] OTHER ->
         Fields({"auth_context_id", "auth_lease_id", "auth_session_id",
                 "auth_resume_generation"}, U64) ++
         Fields({"auth_attempt_id", "auth_proof"}, Fixed)
AuthOptions(kind) ==
  IF kind = LEASE_ACTIVATION THEN [auth_proof_of_possession |-> Text] ELSE <<>>

AuthKeys ==
  UNION {DOMAIN AuthFields(k) \union DOMAIN AuthOptions(k) : k \in {ROOT, LEASE_ACTIVATION, RESUME}}

DecodesAuth(p) ==
  /\ p.auth_kind \in {ROOT, LEASE_ACTIVATION, RESUME}
  /\ ReadsWith(AuthFields(p.auth_kind), AuthOptions(p.auth_kind), Select(p, AuthKeys))
  /\ NonzeroAll(p, DOMAIN p \intersect {"auth_context_id", "auth_lease_id", "auth_session_id"})

HelloFields ==
  Fields({"producer_name", "producer_version"}, Text) ++
  Fields({"required_profiles", "optional_profiles"}, ListCodes) ++
  [request_id |-> U64, maximum_control_body |-> U32, client_nonce |-> Fixed,
   auth_kind |-> U64, target_profile |-> Text]

ControlBody(body) == body # 0 /\ body <= MAX_RECORD_BODY

HelloValid(p) ==
  /\ p.producer_name # TooLong /\ p.producer_version # TooLong
  /\ SortedList(p.required_profiles) /\ SortedList(p.optional_profiles)
  /\ LET required == ProfileLists[p.required_profiles]
         optional == ProfileLists[p.optional_profiles]
     IN /\ required \intersect optional = {}
        /\ NamesTarget(required, p.target_profile)
        /\ required \subseteq KnownProfiles
        /\ ClosedWithin(required \union optional, required \union optional)
  /\ ControlBody(p.maximum_control_body)

EncodesHello(p) == IsRequest(p) /\ HelloValid(p)
DecodesHello(p) ==
  ReadsPreserving(HelloFields, p) /\ DecodesAuth(p) /\ IsRequest(p) /\ HelloValid(p)

(***************************************************************************)
(* WELCOME.                                                                *)
(***************************************************************************)
WelcomeAuthValid(p) ==
  /\ p.auth_kind \in ROOT..RESUME
  /\ p.activation_attempt_status \in {0, 1}
  /\ IF p.auth_kind = ROOT THEN p.lease_state = 0 ELSE p.lease_state \in 1..4

WelcomeFields ==
  Fields({"request_id", "session_id", "root_context_id", "target_generation", "auth_kind",
          "lease_state", "activation_attempt_status", "session_revision", "scene_revision",
          "establishment_state", "resume_generation"}, U64) ++
  Fields({"session_tag", "server_nonce", "confirmation", "resource_contract"}, Fixed) ++
  [target_profile |-> Text, target_descriptor |-> Map, accepted_profiles |-> ListCodes,
   maximum_control_body |-> U32]

\* A vector scene needs limits, in a key beyond the registered ones.
LimitsGiven(profiles, p) ==
  "vector" \in profiles => Has(p, "vector_limits") /\ p.vector_limits \in Ordinary

\* Mutant: a session may be welcomed without an identifier.
WelcomeNamesNoSession == {"root_context_id", "target_generation"}

WelcomeNames == {"session_id", "root_context_id", "target_generation"}

WelcomeValid(p) ==
  /\ WelcomeAuthValid(p)
  /\ NonzeroAll(p, WelcomeNames)
  /\ SortedList(p.accepted_profiles)
  /\ LET accepted == ProfileLists[p.accepted_profiles] IN
       /\ ValidProfileSet(accepted) /\ LimitsGiven(accepted, p)
       /\ NamesTarget(accepted, p.target_profile)
  /\ ControlBody(p.maximum_control_body)
  /\ p.establishment_state \in {0, 1}
  /\ ~(p.establishment_state = 0 /\ p.auth_kind = ROOT /\ p.resume_generation # 0)

EncodesWelcome(p) == IsRequest(p) /\ WelcomeValid(p)
DecodesWelcome(p) == ReadsPreserving(WelcomeFields, p) /\ EncodesWelcome(p)

(***************************************************************************)
(* ERROR.  The detail holds what the tests and replies use: an idempotent  *)
(* result, a flag, and another number.                                     *)
(***************************************************************************)
RegisteredErrors == 1..5
DetailValid(p) == Has(p, "detail_idempotent_result") => p.detail_idempotent_result \in 0..2

ErrorFields ==
  Fields({"envelope_id", "request_id", "code"}, U64) ++ [fatal |-> Bool, diagnostic |-> Text]
DetailFields ==
  [detail_idempotent_result |-> U64, detail_number |-> U64, detail_flag |-> Bool]

EncodesError(p) == p.code \in RegisteredErrors /\ DetailValid(p) /\ p.diagnostic # TooLong
DecodesError(p) ==
  /\ ReadsWith(ErrorFields, DetailFields, p)
  /\ EncodesError(p)
  /\ p.envelope_id = p.request_id

(***************************************************************************)
(* LANE_OPEN and CHANNEL_OPEN are written without a check.                 *)
(***************************************************************************)
INTERACTIVE == 1
REALTIME == 2
BULK == 3
TrackKinds == 1..5

LaneFields ==
  Fields({"request_id", "session_id", "lane", "lane_generation"}, U64) ++
  Fields({"client_nonce", "authentication_tag"}, Fixed)
DecodesLane(p) ==
  /\ Reads(LaneFields, p) /\ IsRequest(p)
  /\ p.lane = INTERACTIVE /\ NonzeroAll(p, {"session_id", "lane_generation"})

ChannelFields ==
  Fields({"request_id", "session_id", "context_id", "surface_id", "track_id",
          "channel_generation", "track_kind", "lane"}, U64) ++
  Fields({"client_nonce", "authentication_tag"}, Fixed)
DecodesChannel(p) ==
  /\ Reads(ChannelFields, p) /\ IsRequest(p)
  /\ NonzeroAll(p, {"session_id", "context_id", "surface_id", "track_id", "channel_generation"})
  /\ HeaderIs(p, "track_id")
  /\ p.lane \in {REALTIME, BULK} /\ p.track_kind \in TrackKinds

(***************************************************************************)
(* By kind of record.                                                      *)
(***************************************************************************)
ControlKinds == {"CONTROL", "HELLO", "WELCOME", "ERROR", "LANE_OPEN", "CHANNEL_OPEN"}

ControlDecodes(kind, p) ==
  CASE kind = "CONTROL" -> DecodesEnvelope(p)
    [] kind = "HELLO" -> DecodesHello(p)
    [] kind = "WELCOME" -> DecodesWelcome(p)
    [] kind = "ERROR" -> DecodesError(p)
    [] kind = "LANE_OPEN" -> DecodesLane(p)
    [] OTHER -> DecodesChannel(p)

ControlEncodes(kind, p) ==
  CASE kind = "CONTROL" -> EncodesEnvelope(p)
    [] kind = "HELLO" -> EncodesHello(p)
    [] kind = "WELCOME" -> EncodesWelcome(p)
    [] kind = "ERROR" -> EncodesError(p)
    [] OTHER -> TRUE

(***************************************************************************)
(* What follows a record.                                                  *)
(***************************************************************************)
\* All that was offered and is known.
AcceptedList(p) ==
  LET offered == ProfileLists[p.required_profiles] \union ProfileLists[p.optional_profiles] IN
  CHOOSE code \in DOMAIN ProfileLists : ProfileLists[code] = offered \intersect KnownProfiles

Welcomes(p) ==
  LET code == AcceptedList(p)
      limits == IF "vector" \in ProfileLists[code] THEN [vector_limits |-> 1] ELSE <<>>
  IN {Built("WELCOME", 0,
            Select(p, {"request_id", "target_profile", "auth_kind"}) ++ limits ++
            Fields({"session_id", "root_context_id", "target_generation", "session_tag",
                    "server_nonce", "confirmation", "resource_contract", "target_descriptor",
                    "session_revision", "scene_revision", "maximum_control_body"}, 1) ++
            [accepted_profiles |-> code, lease_state |-> IF p.auth_kind = ROOT THEN 0 ELSE 1,
             activation_attempt_status |-> status,
             establishment_state |-> IF p.auth_kind = RESUME THEN 1 ELSE 0,
             resume_generation |-> Get(p, "auth_resume_generation", 0)]) :
        status \in {0, 1}}

Errors(request_id) ==
  {Built("ERROR", 0,
         [envelope_id |-> request_id, request_id |-> request_id, code |-> c, fatal |-> 0,
          diagnostic |-> Empty, detail_idempotent_result |-> r]) :
     c \in RegisteredErrors, r \in 0..2}

\* The session's other connections, and its resumption.
AfterWelcome(p) ==
  {Built("LANE_OPEN", 0,
         [request_id |-> 1, session_id |-> p.session_id, lane |-> INTERACTIVE,
          lane_generation |-> 1, client_nonce |-> 1, authentication_tag |-> 1]),
   Built("CHANNEL_OPEN", 1,
         [session_id |-> p.session_id, context_id |-> p.root_context_id, lane |-> REALTIME] ++
         Fields(DOMAIN ChannelFields, 1)),
   Built("HELLO", 0,
         [target_profile |-> p.target_profile, required_profiles |-> p.accepted_profiles,
          optional_profiles |-> 0, auth_kind |-> RESUME, auth_context_id |-> p.root_context_id,
          auth_session_id |-> p.session_id, auth_resume_generation |-> p.resume_generation] ++
         Fields(DOMAIN HelloFields \union DOMAIN AuthFields(RESUME), 1))}

ControlAnswers(kind, p) ==
  CASE kind = "HELLO" -> Welcomes(p) \union Errors(p.request_id)
    [] kind = "WELCOME" -> AfterWelcome(p)
    [] kind \in {"LANE_OPEN", "CHANNEL_OPEN"} -> Errors(p.request_id)
    [] kind = "CONTROL" -> Errors(p.request_id)
    [] OTHER -> {}

HelloAs(kind) ==
  Built("HELLO", 0,
        [auth_kind |-> kind, optional_profiles |-> 0] ++
        Fields(DOMAIN HelloFields \union DOMAIN AuthFields(kind), 1))

ControlOpenings ==
  {HelloAs(ROOT), HelloAs(LEASE_ACTIVATION),
   Built("CONTROL", 0, [request_id |-> 1, payload |-> 1, preconditions |-> 1,
                        transaction_id |-> 1, idempotency_key |-> 1]),
   Built("ERROR", 0, [envelope_id |-> 0, request_id |-> 0, code |-> 2, fatal |-> 1,
                      diagnostic |-> 1, detail_number |-> 1, detail_flag |-> 1])}
=============================================================================

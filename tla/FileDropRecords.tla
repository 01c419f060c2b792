--------------------------- MODULE FileDropRecords ---------------------------
(***************************************************************************)
(* The records of a file drop (file_drop.rs): what the encoder of each     *)
(* permits and what its decoder accepts.                                   *)
(***************************************************************************)
EXTENDS Records

FILE_DATA_PREFIX == 1
MAX_PENDING == 3
MAX_ACTIVE == 2
Deadlines == 1..3          \* the finite timeout range
Destinations == {1, 2}
BindingStates == {0, 1, 2, 3}
BINDING_DISABLED == 0
BINDING_ENABLED == 1
BINDING_DENIED == 2
CANCEL_REASONS == 0..3     \* 0 to 7

\* validate_suggested_name, validate_committed_path: path n names file n.
SafeName(name) == name \in Ordinary
CommittedPath(path, name) == path \in Ordinary /\ path = name

BodyLimit(body) == FILE_DATA_PREFIX < body /\ body <= MAX_RECORD_BODY

BindingLimits(p) ==
  /\ p.maximum_pending_offers \in 1..MAX_PENDING
  /\ p.maximum_active_transfers \in 1..MAX_ACTIVE
  /\ p.maximum_active_transfers <= p.maximum_pending_offers
  /\ BodyLimit(p.maximum_record_body)
  /\ p.acceptance_timeout_us \in Deadlines /\ p.idle_timeout_us \in Deadlines

\* No credit yet, or enough for one record.
Credit(body, bytes, records) ==
  /\ BodyLimit(body)
  /\ \/ bytes = 0 /\ records = 0
     \/ records # 0 /\ bytes >= body

(***************************************************************************)
(* Bindings and grants.                                                    *)
(***************************************************************************)
Limits == {"maximum_file_bytes", "maximum_pending_offers", "maximum_active_transfers",
           "acceptance_timeout_us", "idle_timeout_us"}
LimitFields == Fields(Limits, U64) ++ [maximum_record_body |-> U32]
AllLimits == DOMAIN LimitFields
BindingFields ==
  Fields({"producer_epoch", "context_id", "surface_id", "surface_generation"}, U64) ++
  [destination |-> {0} \union Destinations] ++ LimitFields

BindingValid(p) ==
  /\ p.producer_epoch # 0 /\ p.context_id # 0
  /\ HeaderIs(p, "surface_id") /\ Scoped(p)
  /\ IF p.destination = 0 THEN \A f \in AllLimits : p[f] = 0
     ELSE p.maximum_file_bytes # 0 /\ BindingLimits(p)

DecodesBinding(p) == Reads(BindingFields, p) /\ BindingValid(p)

GrantFields ==
  BindingFields ++ [grant_generation |-> U64, state |-> BindingStates, reason |-> U64]

GrantValid(p) ==
  /\ HeaderIs(p, "surface_id") /\ p.producer_epoch # 0 /\ Scoped(p) /\ p.context_id # 0
  /\ IF p.state = BINDING_DISABLED
     THEN \A f \in AllLimits \union {"grant_generation", "destination"} : p[f] = 0
     ELSE /\ p.grant_generation # 0
          /\ p.destination # 0 /\ p.maximum_file_bytes # 0 /\ BindingLimits(p)

DecodesGrant(p) == Reads(GrantFields, p) /\ GrantValid(p)

\* FileDropGate::apply: the grant of a binding.
Grants(p) ==
  IF p.destination = 0
  THEN {p ++ [grant_generation |-> 0, state |-> BINDING_DISABLED, reason |-> 0]}
  ELSE {p ++ [grant_generation |-> 1, state |-> s, reason |-> 0] :
          s \in {BINDING_ENABLED, BINDING_DENIED}}

(***************************************************************************)
(* Offers: each carries the identity of the grant and the drop.            *)
(***************************************************************************)
TupleFields ==
  Fields({"producer_epoch", "grant_generation", "context_id", "surface_id",
          "surface_generation", "drop_id"}, U64)
TupleValid(p) ==
  /\ NonzeroAll(p, {"producer_epoch", "grant_generation", "context_id", "drop_id"})
  /\ Scoped(p)

OfferFields == TupleFields ++ [suggested_name |-> Text, declared_length |-> U64]
EncodesOffer(p) == SafeName(p.suggested_name)
DecodesOffer(p) ==
  Reads(OfferFields, p) /\ TupleValid(p) /\ HeaderIs(p, "drop_id") /\ SafeName(p.suggested_name)

InitialCredit == {"initial_maximum_body_bytes", "initial_maximum_records"}
AcceptFields ==
  TupleFields ++ Fields(InitialCredit \union {"transfer_id", "transfer_generation"}, U64) ++
  [maximum_record_body |-> U32]
EncodesAccept(p) ==
  /\ HeaderIs(p, "drop_id") /\ p.transfer_id # 0 /\ p.transfer_generation = 1
  /\ Credit(p.maximum_record_body, p.initial_maximum_body_bytes, p.initial_maximum_records)
DecodesAccept(p) == Reads(AcceptFields, p) /\ TupleValid(p) /\ EncodesAccept(p)

AcceptedFields == Fields({"drop_id", "transfer_id", "transfer_generation", "open_timeout_us"}, U64)
DecodesAccepted(p) ==
  /\ Reads(AcceptedFields, p)
  /\ NonzeroAll(p, {"drop_id", "transfer_id", "transfer_generation"})
  /\ HeaderIs(p, "drop_id") /\ p.open_timeout_us \in Deadlines

CancelFields == TupleFields ++ [reason |-> U64]
EncodesCancel(p) == p.reason \in CANCEL_REASONS
DecodesCancel(p) ==
  Reads(CancelFields, p) /\ TupleValid(p) /\ HeaderIs(p, "drop_id") /\ p.reason \in CANCEL_REASONS

(***************************************************************************)
(* Recovery.                                                               *)
(***************************************************************************)
AdvanceFields ==
  Fields({"context_id", "surface_id", "drop_id", "transfer_id", "expected_generation",
          "new_generation", "committed_offset", "maximum_body_bytes", "maximum_records"}, U64)
EncodesAdvance(p) ==
  /\ HeaderIs(p, "transfer_id")
  /\ NonzeroAll(p, {"context_id", "drop_id", "transfer_id", "expected_generation"})
  /\ p.expected_generation # Widest /\ p.new_generation = p.expected_generation + 1
  /\ Same(p.maximum_body_bytes = 0, p.maximum_records = 0)
DecodesAdvance(p) == Reads(AdvanceFields, p) /\ EncodesAdvance(p)

AdvancedFields == Fields({"transfer_id", "generation", "committed_offset", "open_timeout_us"}, U64)
EncodesAdvanced(p) ==
  p.transfer_id # 0 /\ p.generation # 0 /\ p.open_timeout_us \in Deadlines
DecodesAdvanced(p) ==
  Reads(AdvancedFields, p) /\ EncodesAdvanced(p) /\ HeaderIs(p, "transfer_id")

EncodesQuery(p) == p.drop_id # 0
DecodesQuery(p) == Reads([drop_id |-> U64], p) /\ EncodesQuery(p) /\ HeaderIs(p, "drop_id")

\* FileDropState: Offered, Accepted, Transferring, then Committed or one of the failures.
OFFERED == 1
ACCEPTED == 2
TRANSFERRING == 3
COMMITTED == 4
CANCELLED == 5
FAILED == 6
DropStates == OFFERED..FAILED

\* FileResultCode; Widest stands for no result yet.
COMMITTED_RESULT == 0
CANCELLED_RESULT == 2
ResultCodes == 0..5
Successes == {COMMITTED_RESULT, 5}
Failures == {1, 3, 4}
NoResult == Widest

\* The results a state may carry.
ResultsOf(state) ==
  IF state = COMMITTED THEN Successes
  ELSE IF state = CANCELLED THEN {CANCELLED_RESULT}
  ELSE IF state = FAILED THEN Failures
  ELSE {NoResult}

StatusFields ==
  Fields({"drop_id", "transfer_id", "generation", "committed_offset"}, U64) ++
  [state |-> DropStates, result |-> ResultCodes \union {NoResult}, final_name |-> Text]
EncodesStatus(p) ==
  /\ p.drop_id # 0
  /\ p.state \in {ACCEPTED, TRANSFERRING, COMMITTED} => p.transfer_id # 0 /\ p.generation # 0
  /\ p.result \in ResultsOf(p.state)
  /\ IF p.state = COMMITTED THEN SafeName(p.final_name) ELSE p.final_name = Empty
DecodesStatus(p) == Reads(StatusFields, p) /\ EncodesStatus(p) /\ HeaderIs(p, "drop_id")

(***************************************************************************)
(* The transfer connection: its records have no object in their header.    *)
(***************************************************************************)
OpenFields ==
  TupleFields ++
  Fields({"session_id", "transfer_id", "transfer_generation", "resume_offset",
          "maximum_body_bytes", "maximum_records"}, U64) ++
  [maximum_record_body |-> U32] ++ Fields({"client_nonce", "authentication_tag"}, Fixed)
EncodesOpen(p) ==
  /\ NonzeroAll(p, {"session_id", "context_id", "drop_id", "transfer_id",
                    "transfer_generation", "producer_epoch", "grant_generation"})
  /\ Scoped(p)
  /\ Credit(p.maximum_record_body, p.maximum_body_bytes, p.maximum_records)
DecodesOpen(p) == Reads(OpenFields, p) /\ EncodesOpen(p)

TransferIdentity == {"transfer_id", "transfer_generation"}

EncodesTransfer(p) == NonzeroAll(p, TransferIdentity)
DecodesTransferAccepted(p) ==
  Reads(Fields(TransferIdentity \union {"resume_offset"}, U64), p) /\ EncodesTransfer(p)

MaximumFields == Fields(TransferIdentity \union {"maximum_body_bytes", "maximum_records"}, U64)
EncodesMaximum(p) ==
  EncodesTransfer(p) /\ p.maximum_body_bytes # 0 /\ p.maximum_records # 0
DecodesMaximum(p) == Reads(MaximumFields, p) /\ EncodesMaximum(p)

FinishFields == Fields(TransferIdentity \union {"final_length"}, U64) ++ [sha256 |-> Fixed]
DecodesFinish(p) == Reads(FinishFields, p) /\ EncodesTransfer(p)

ResultFields ==
  Fields(TransferIdentity \union {"committed_length"}, U64) ++
  [result |-> ResultCodes, final_name |-> Text]
EncodesResult(p) ==
  /\ EncodesTransfer(p)
  /\ IF p.result \in Successes THEN SafeName(p.final_name) ELSE p.final_name = Empty
  /\ Has(p, "committed_path") =>
       p.result \in Successes /\ CommittedPath(p.committed_path, p.final_name)
DecodesResult(p) ==
  ReadsWith(ResultFields, [committed_path |-> Text], p) /\ EncodesResult(p)

AbortFields == Fields(TransferIdentity \union {"reason", "final_offset"}, U64)
EncodesAbort(p) == EncodesTransfer(p) /\ p.reason \in CANCEL_REASONS
DecodesAbort(p) == Reads(AbortFields, p) /\ EncodesAbort(p)

(***************************************************************************)
(* By kind of record.                                                      *)
(***************************************************************************)
FileDropKinds ==
  {"SET_FILE_DROP_BINDING", "FILE_DROP_BOUND", "FILE_DROP_OFFER", "ACCEPT_FILE_DROP",
   "FILE_DROP_ACCEPTED", "CANCEL_FILE_DROP", "ADVANCE_FILE_TRANSFER",
   "FILE_TRANSFER_ADVANCED", "QUERY_FILE_DROP", "FILE_DROP_STATUS", "FILE_TRANSFER_OPEN",
   "FILE_TRANSFER_ACCEPTED", "MAX_FILE_DATA", "FILE_FINISH", "FILE_RESULT",
   "FILE_TRANSFER_ABORT"}

FileDropDecodes(kind, p) ==
  CASE kind = "SET_FILE_DROP_BINDING" -> DecodesBinding(p)
    [] kind = "FILE_DROP_BOUND" -> DecodesGrant(p)
    [] kind = "FILE_DROP_OFFER" -> DecodesOffer(p)
    [] kind = "ACCEPT_FILE_DROP" -> DecodesAccept(p)
    [] kind = "FILE_DROP_ACCEPTED" -> DecodesAccepted(p)
    [] kind = "CANCEL_FILE_DROP" -> DecodesCancel(p)
    [] kind = "ADVANCE_FILE_TRANSFER" -> DecodesAdvance(p)
    [] kind = "FILE_TRANSFER_ADVANCED" -> DecodesAdvanced(p)
    [] kind = "QUERY_FILE_DROP" -> DecodesQuery(p)
    [] kind = "FILE_DROP_STATUS" -> DecodesStatus(p)
    [] kind = "FILE_TRANSFER_OPEN" -> DecodesOpen(p)
    [] kind = "FILE_TRANSFER_ACCEPTED" -> DecodesTransferAccepted(p)
    [] kind = "MAX_FILE_DATA" -> DecodesMaximum(p)
    [] kind = "FILE_FINISH" -> DecodesFinish(p)
    [] kind = "FILE_RESULT" -> DecodesResult(p)
    [] OTHER -> DecodesAbort(p)

\* Those not listed are written without a check.
FileDropEncodes(kind, p) ==
  CASE kind = "SET_FILE_DROP_BINDING" -> BindingValid(p)
    [] kind = "FILE_DROP_OFFER" -> EncodesOffer(p)
    [] kind = "ACCEPT_FILE_DROP" -> EncodesAccept(p)
    [] kind = "CANCEL_FILE_DROP" -> EncodesCancel(p)
    [] kind = "ADVANCE_FILE_TRANSFER" -> EncodesAdvance(p)
    [] kind = "FILE_TRANSFER_ADVANCED" -> EncodesAdvanced(p)
    [] kind = "QUERY_FILE_DROP" -> EncodesQuery(p)
    [] kind = "FILE_DROP_STATUS" -> EncodesStatus(p)
    [] kind = "FILE_TRANSFER_OPEN" -> EncodesOpen(p)
    [] kind \in {"FILE_TRANSFER_ACCEPTED", "FILE_FINISH"} -> EncodesTransfer(p)
    [] kind = "MAX_FILE_DATA" -> EncodesMaximum(p)
    [] kind = "FILE_RESULT" -> EncodesResult(p)
    [] kind = "FILE_TRANSFER_ABORT" -> EncodesAbort(p)
    [] OTHER -> TRUE

(***************************************************************************)
(* The answers and what follows: the records a program builds from one it  *)
(* accepted, or from one it sent and that was accepted.                    *)
(***************************************************************************)
Identity(p) == Select(p, DOMAIN TupleFields)

Offers(p) ==
  {Built("FILE_DROP_OFFER", 1,
         Identity(p) ++ [drop_id |-> 1, suggested_name |-> name, declared_length |-> 1]) :
     name \in Ordinary}

Acceptances(p) ==
  {Built("ACCEPT_FILE_DROP", p.drop_id,
         Identity(p) ++ [transfer_id |-> 1, transfer_generation |-> 1, maximum_record_body |-> 2,
                         initial_maximum_body_bytes |-> 2 * n, initial_maximum_records |-> n]) :
     n \in {0, 1}}

Cancellations(p) ==
  {Built("CANCEL_FILE_DROP", p.drop_id, Identity(p) ++ [reason |-> r]) : r \in CANCEL_REASONS}

Opening(identity, p, offset, bytes, records) ==
  Built("FILE_TRANSFER_OPEN", 0,
        identity ++ Select(p, {"transfer_id", "transfer_generation", "maximum_record_body"}) ++
        [session_id |-> 1, resume_offset |-> offset, maximum_body_bytes |-> bytes,
         maximum_records |-> records, client_nonce |-> 1, authentication_tag |-> 1])

AfterAccept(p) ==
  {Built("FILE_DROP_ACCEPTED", p.drop_id,
         Select(p, {"drop_id", "transfer_id", "transfer_generation"}) ++
         [open_timeout_us |-> 1]),
   Opening(Identity(p), p, 0, p.initial_maximum_body_bytes, p.initial_maximum_records)}

\* An advance may carry less credit than one record, with which OPEN is not written.
AfterAdvance(p) ==
  LET reopened == [transfer_id |-> p.transfer_id, transfer_generation |-> p.new_generation,
                   maximum_record_body |-> 2]
      identity == Select(p, {"context_id", "surface_id", "drop_id"}) ++
                  [producer_epoch |-> 1, grant_generation |-> 1,
                   surface_generation |-> IF p.surface_id = 0 THEN 0 ELSE 1]
  IN {Built("FILE_TRANSFER_ADVANCED", p.transfer_id,
            [transfer_id |-> p.transfer_id, generation |-> p.new_generation,
             committed_offset |-> p.committed_offset, open_timeout_us |-> 1])} \union
     {o \in {Opening(identity, reopened, p.committed_offset,
                     p.maximum_body_bytes, p.maximum_records)} :
        Credit(2, p.maximum_body_bytes, p.maximum_records)}

\* The maxima are raised, never set to zero (FileTransferFlow::raise_maxima).
AfterOpen(p) ==
  LET identity == Select(p, TransferIdentity) IN
  {Built("FILE_TRANSFER_ACCEPTED", 0, identity ++ [resume_offset |-> p.resume_offset]),
   Built("FILE_FINISH", 0, identity ++ [final_length |-> p.resume_offset, sha256 |-> 1])} \union
  {Built("MAX_FILE_DATA", 0, identity ++ [maximum_body_bytes |-> b, maximum_records |-> Widest]) :
     b \in {v \in U64 : v > p.maximum_body_bytes}} \union
  {Built("FILE_TRANSFER_ABORT", 0, identity ++ [reason |-> r, final_offset |-> p.resume_offset]) :
     r \in CANCEL_REASONS}

\* A committed file has a name, and a path where the profile discloses it.
AfterFinish(p) ==
  LET ended(result, name, path) ==
        Built("FILE_RESULT", 0,
              Select(p, TransferIdentity) ++ path ++
              [committed_length |-> p.final_length, result |-> result, final_name |-> name])
  IN {ended(r, Empty, <<>>) : r \in Failures \union {CANCELLED_RESULT}} \union
     {ended(r, 1, <<>>) : r \in Successes} \union
     {ended(r, 1, [committed_path |-> 1]) : r \in Successes}

EndedAs(result) ==
  IF result \in Successes THEN COMMITTED
  ELSE IF result = CANCELLED_RESULT THEN CANCELLED ELSE FAILED

AfterResult(p) ==
  {Built("FILE_DROP_STATUS", 1,
         [drop_id |-> 1, state |-> EndedAs(p.result), transfer_id |-> p.transfer_id,
          generation |-> p.transfer_generation, committed_offset |-> p.committed_length,
          result |-> p.result, final_name |-> p.final_name])}

\* A drop that was offered has no transfer yet.
AfterQuery(p) ==
  {Built("FILE_DROP_STATUS", p.drop_id,
         [drop_id |-> p.drop_id, state |-> s, transfer_id |-> t, generation |-> t,
          committed_offset |-> 0, result |-> NoResult, final_name |-> Empty]) :
     s \in {OFFERED, ACCEPTED, TRANSFERRING}, t \in {1}}

FileDropAnswers(kind, p) ==
  CASE kind = "SET_FILE_DROP_BINDING" ->
         {Built("FILE_DROP_BOUND", p.surface_id, grant) : grant \in Grants(p)}
    [] kind = "FILE_DROP_BOUND" -> IF p.state = BINDING_ENABLED THEN Offers(p) ELSE {}
    [] kind = "FILE_DROP_OFFER" -> Acceptances(p) \union Cancellations(p)
    [] kind = "ACCEPT_FILE_DROP" -> AfterAccept(p)
    [] kind = "ADVANCE_FILE_TRANSFER" -> AfterAdvance(p)
    [] kind = "FILE_TRANSFER_OPEN" -> AfterOpen(p)
    [] kind = "FILE_FINISH" -> AfterFinish(p)
    [] kind = "FILE_RESULT" -> AfterResult(p)
    [] kind = "QUERY_FILE_DROP" -> AfterQuery(p)
    [] OTHER -> {}

\* Records no other one leads to.
FileDropOpenings ==
  {Built("SET_FILE_DROP_BINDING", s,
         [producer_epoch |-> 1, context_id |-> 1, surface_id |-> s, surface_generation |-> s,
          destination |-> 1] ++ [f \in AllLimits |-> 2]) : s \in {0, 1}} \union
  {Built("SET_FILE_DROP_BINDING", 0,
         [producer_epoch |-> 2, context_id |-> 1, surface_id |-> 0, surface_generation |-> 0,
          destination |-> 0] ++ [f \in AllLimits |-> 0]),
   Built("ADVANCE_FILE_TRANSFER", 1,
         [context_id |-> 1, surface_id |-> 1, drop_id |-> 1, transfer_id |-> 1,
          expected_generation |-> 1, new_generation |-> 2, committed_offset |-> 1,
          maximum_body_bytes |-> 2, maximum_records |-> 1]),
   Built("QUERY_FILE_DROP", 1, [drop_id |-> 1])}
=============================================================================

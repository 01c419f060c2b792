---------------------------- MODULE FileTransfer ----------------------------
(***************************************************************************)
(* What the two ends of a file drop keep (file_drop.rs): the gate that     *)
(* grants bindings, and the flow of a transfer, of which each end has one. *)
(* Methods are operators from a state to a state.  A body is the payload   *)
(* and a prefix of Prefix bytes; the counters' overflow of u64 is left     *)
(* out.                                                                    *)
(***************************************************************************)
EXTENDS Integers, Sequences

CONSTANTS
  None,
  Prefix,              \* FILE_DATA_PREFIX_SIZE
  MaxGrantGeneration,
  MaxTransferGeneration

ASSUME FileTransferAssumption ==
  MaxGrantGeneration \in Nat /\ MaxTransferGeneration \in Nat /\ Prefix \in Nat

(***************************************************************************)
(* FileDropGate.  A binding is an epoch, a limit that stands for all that  *)
(* it asks for, and whether it is disabled.                                *)
(***************************************************************************)
NewGate == [latest |-> None, generation |-> 0, current |-> None, last_result |-> None]

Backward(gate, binding) ==
  gate.latest # None /\ binding.epoch <= gate.latest.epoch /\ binding # gate.latest
ExactRetry(gate, binding) == binding = gate.latest

Grant(binding, generation, state) ==
  [epoch |-> binding.epoch, generation |-> generation, limit |-> binding.limit, state |-> state]

\* Mutant: a binding that is denied leaves the generation to the next one.
AppliedReusing(gate, binding, allow) ==
  LET grant == Grant(binding, gate.generation + 1, IF allow THEN "Enabled" ELSE "Denied") IN
  [latest |-> binding, generation |-> IF allow THEN gate.generation + 1 ELSE gate.generation,
   current |-> IF allow THEN grant ELSE None, last_result |-> grant]

Applied(gate, binding, allow) ==
  LET grant == Grant(binding, gate.generation + 1, IF allow THEN "Enabled" ELSE "Denied") IN
  [latest |-> binding, generation |-> gate.generation + 1,
   current |-> IF allow THEN grant ELSE None, last_result |-> grant]

Disabled(gate, binding) ==
  [gate EXCEPT !.latest = binding, !.current = None,
               !.last_result = Grant(binding, 0, "Disabled")]

\* apply: the states the gate may be left in, none when the call is refused.
Apply(gate, binding, allow) ==
  IF Backward(gate, binding) THEN {}
  ELSE IF ExactRetry(gate, binding) THEN {gate}
  ELSE IF binding.limit = 0 THEN {Disabled(gate, binding)}
  ELSE IF gate.generation = MaxGrantGeneration THEN {}
  ELSE {Applied(gate, binding, allow)}

(***************************************************************************)
(* FileTransferFlow.                                                       *)
(***************************************************************************)
\* A credit: cumulative maxima of body bytes and of records.
Consistent(credit) == (credit.bytes = 0) = (credit.records = 0)

NewFlow(generation, offset, credit) ==
  [generation |-> generation, next_offset |-> offset, sent_body_bytes |-> 0,
   sent_records |-> 0, credit |-> credit]

Admits(flow, offset, length) ==
  /\ offset = flow.next_offset /\ length > 0
  /\ flow.sent_body_bytes + length + Prefix <= flow.credit.bytes
  /\ flow.sent_records + 1 <= flow.credit.records

Admitted(flow, length) ==
  [flow EXCEPT !.next_offset = @ + length,
               !.sent_body_bytes = @ + length + Prefix, !.sent_records = @ + 1]

Larger(a, b) == IF a >= b THEN a ELSE b

\* Mutant: a lower maximum that arrives late is taken.
RaisedToLast(flow, credit) == [flow EXCEPT !.credit = credit]
Raised(flow, credit) ==
  [flow EXCEPT !.credit = [bytes |-> Larger(@.bytes, credit.bytes),
                           records |-> Larger(@.records, credit.records)]]

Advances(flow, generation, offset, credit) ==
  /\ flow.generation < MaxTransferGeneration
  /\ generation = flow.generation + 1
  /\ offset <= flow.next_offset
  /\ Consistent(credit)

\* Mutant: what was sent before still counts.
AdvancedKeepingCounts(flow, generation, offset, credit) ==
  [flow EXCEPT !.generation = generation, !.next_offset = offset, !.credit = credit]
Advanced(flow, generation, offset, credit) == NewFlow(generation, offset, credit)
=============================================================================

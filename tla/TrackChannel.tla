---------------------------- MODULE TrackChannel ----------------------------
(***************************************************************************)
(* What a presenter keeps for one media track: ChannelOpenState and        *)
(* TrackState of src/src/track.rs with the ChannelFlow of                  *)
(* src/src/resource.rs, one action per operation.                          *)
(*                                                                         *)
(* Data abstraction.  The nonce and the hash of the complete CHANNEL_OPEN  *)
(* are one member of Nonces.  Milestones are a set of bit names, of which  *)
(* the model keeps those these operations set.                             *)
(***************************************************************************)
EXTENDS Naturals

CONSTANTS
  Nonces,        \* identities of CHANNEL_OPEN requests
  MaxRecordBody, \* the track's maximum legal record body
  MaxRevision,   \* stands for u64::MAX in the track revision
  MaxFlow        \* stands for u64::MAX in the flow totals

ASSUME TrackAssumption ==
  /\ {MaxRevision, MaxFlow} \subseteq Nat \ {0}
  /\ MaxRecordBody \in 1..MaxFlow

Milestones == {"ACCEPTED", "FIRST_MEDIA", "RANDOM_ACCESS", "DETACHED", "LOST"}

Flow ==
  [sent_bytes: 0..MaxFlow, sent_records: 0..MaxFlow,
   max_bytes: 0..MaxFlow, max_records: 0..MaxFlow]

NewFlow(bytes, records) ==
  [sent_bytes |-> 0, sent_records |-> 0, max_bytes |-> bytes, max_records |-> records]
ClosedFlow == NewFlow(0, 0)    \* ChannelFlow::default

\* ChannelFlow::admit: a maximum never exceeds the width of the totals, so a
\* sum that would overflow is over the maximum too.
FlowAdmits(f, body) ==
  /\ f.sent_bytes + body <= f.max_bytes
  /\ f.sent_records + 1 <= f.max_records
Charged(f, body) ==
  [f EXCEPT !.sent_bytes = @ + body, !.sent_records = @ + 1]

\* Mutant: the allowance becomes what the last update said.
Replaced(f, bytes, records) == [f EXCEPT !.max_bytes = bytes, !.max_records = records]

\* ChannelFlow::raise_maxima: the allowance is absolute and never shrinks.
Raised(f, bytes, records) ==
  [f EXCEPT !.max_bytes = IF bytes > @ THEN bytes ELSE @,
            !.max_records = IF records > @ THEN records ELSE @]

VARIABLES
  \* ChannelOpenState
  accepted,            \* {} or {[generation, nonce, acceptance, transport_live,
                       \*         media_admitted]}
  decision,            \* what the last `open` decided
  \* TrackState
  revision,
  channel_generation,
  milestones,
  media_epoch,
  last_media_id,
  flow,
  lost,
  track_result         \* what the last call on TrackState returned

openVars == <<accepted, decision>>
trackState == <<revision, channel_generation, milestones, media_epoch,
                last_media_id, flow, lost>>
trackVars == <<trackState, track_result>>
channelVars == <<openVars, trackVars>>

ChannelInit ==
  /\ accepted = {} /\ decision = "None"
  /\ revision = 1 /\ channel_generation = 1
  /\ milestones = {}
  /\ media_epoch = 0 /\ last_media_id = 0
  /\ flow = ClosedFlow
  /\ lost = FALSE
  /\ track_result = "Ok"

(***************************************************************************)
(* ChannelOpenState.                                                       *)
(***************************************************************************)
Decide(d) == decision' = d

\* open: the outcome already stored for the current generation, if any,
\* decides; otherwise a new one is stored.
Open(generation, nonce, acceptance) ==
  LET stored == {o \in accepted : o.generation = generation} IN
  \/ /\ generation # channel_generation
     /\ Decide("StaleGeneration") /\ UNCHANGED accepted
  \/ /\ generation = channel_generation
     /\ \E o \in stored :
          \/ o.nonce # nonce /\ Decide("DifferentBytes") /\ UNCHANGED accepted
          \/ /\ o.nonce = nonce /\ o.transport_live
             /\ Decide("Busy") /\ UNCHANGED accepted
          \/ /\ o.nonce = nonce /\ ~o.transport_live /\ o.media_admitted
             /\ Decide("StaleGeneration") /\ UNCHANGED accepted
          \/ /\ o.nonce = nonce /\ ~o.transport_live /\ ~o.media_admitted
             /\ accepted' = {[o EXCEPT !.transport_live = TRUE]}
             /\ Decide("ExactReplay")
  \/ /\ generation = channel_generation
     /\ stored = {}
     /\ accepted' = {[generation |-> generation, nonce |-> nonce,
                      acceptance |-> acceptance, transport_live |-> TRUE,
                      media_admitted |-> FALSE]}
     /\ Decide("Fresh")

\* admit_media succeeds on the accepted live channel only.
OpenForMedia(generation) ==
  \E o \in accepted : o.generation = generation /\ o.transport_live
\* Mutant: the stored outcome is not told that media arrived on its transport.
OpenForgetsMedia(generation) == UNCHANGED openVars

OpenAdmitMedia(generation) ==
  /\ accepted' = IF OpenForMedia(generation)
                   THEN {[o EXCEPT !.media_admitted = TRUE] : o \in accepted}
                   ELSE accepted
  /\ UNCHANGED decision

TransportLost(generation) ==
  /\ accepted' = {IF o.generation = generation
                    THEN [o EXCEPT !.transport_live = FALSE]
                    ELSE o : o \in accepted}
  /\ UNCHANGED decision

OpenAdvance == accepted' = {} /\ UNCHANGED decision

(***************************************************************************)
(* TrackState.                                                             *)
(***************************************************************************)
TrackReturns(r) == track_result' = r
TrackRefuses(r) == TrackReturns(r) /\ UNCHANGED trackState

\* The last call of an operation; what was assigned before it stays.
AdvanceRevision ==
  \/ revision < MaxRevision /\ revision' = revision + 1 /\ TrackReturns("Ok")
  \/ revision = MaxRevision /\ UNCHANGED revision /\ TrackReturns("Exhausted")

Acceptable(generation, bytes, records) ==
  /\ ~lost /\ generation = channel_generation
  /\ bytes >= MaxRecordBody /\ records > 0

AcceptChannel(generation, bytes, records) ==
  \/ ~Acceptable(generation, bytes, records) /\ TrackRefuses("Refused")
  \/ /\ Acceptable(generation, bytes, records)
     /\ flow' = NewFlow(bytes, records)
     /\ milestones' = {"ACCEPTED"}
     /\ AdvanceRevision
     /\ UNCHANGED <<channel_generation, media_epoch, last_media_id, lost>>

\* The order of a record within its epoch: the first one of the track or of a
\* greater epoch must be a recovery unit.
InOrder(epoch, id, random_access) ==
  /\ id > last_media_id
  /\ epoch >= media_epoch
  /\ last_media_id = 0 \/ epoch > media_epoch => random_access

\* admit_media charges the flow before it looks at the record.
AdmitMedia(generation, body, epoch, id, random_access) ==
  \/ /\ lost \/ generation # channel_generation \/ ~FlowAdmits(flow, body)
     /\ TrackRefuses("Refused")
  \/ /\ ~lost /\ generation = channel_generation /\ FlowAdmits(flow, body)
     /\ flow' = Charged(flow, body)
     /\ \/ /\ ~InOrder(epoch, id, random_access)
           /\ TrackReturns("Refused")
           /\ UNCHANGED <<media_epoch, last_media_id, milestones>>
        \/ /\ InOrder(epoch, id, random_access)
           /\ media_epoch' = epoch
           /\ last_media_id' = id
           /\ milestones' = milestones \union {"FIRST_MEDIA"}
                \union (IF random_access THEN {"RANDOM_ACCESS"} ELSE {})
           /\ TrackReturns("Ok")
     /\ UNCHANGED <<revision, channel_generation, lost>>

\* Mutant: readiness survives the advance.
AdvanceKeepsMilestones(expected, next) ==
  \/ /\ expected # channel_generation \/ next # expected + 1
     /\ TrackRefuses("Refused")
  \/ /\ expected = channel_generation /\ next = expected + 1
     /\ channel_generation' = next
     /\ flow' = ClosedFlow
     /\ AdvanceRevision
     /\ UNCHANGED <<milestones, media_epoch, last_media_id, lost>>

AdvanceChannel(expected, next) ==
  \/ /\ expected # channel_generation \/ next # expected + 1
     /\ TrackRefuses("Refused")
  \/ /\ expected = channel_generation /\ next = expected + 1
     /\ channel_generation' = next
     /\ milestones' = {}
     /\ flow' = ClosedFlow
     /\ AdvanceRevision
     /\ UNCHANGED <<media_epoch, last_media_id, lost>>

Detach ==
  /\ milestones' = milestones \union {"DETACHED"}
  /\ AdvanceRevision
  /\ UNCHANGED <<channel_generation, media_epoch, last_media_id, flow, lost>>

Lose ==
  /\ lost' = TRUE
  /\ milestones' = milestones \union {"LOST"}
  /\ AdvanceRevision
  /\ UNCHANGED <<channel_generation, media_epoch, last_media_id, flow>>

\* MAX_CHANNEL_DATA: the presenter raises the absolute maxima.
RaiseMaxima(bytes, records) ==
  /\ flow' = Raised(flow, bytes, records)
  /\ UNCHANGED <<revision, channel_generation, milestones, media_epoch,
                 last_media_id, lost, track_result>>
==============================================================================

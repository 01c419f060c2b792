---------------------------- MODULE TrackStream ----------------------------
(***************************************************************************)
(* One media track between a producer and a presenter (media protocol,     *)
(* sections 5 to 7).  The presenter holds ChannelOpenState and TrackState  *)
(* (module TrackChannel); the producer holds a ChannelFlow of its own.     *)
(* They talk over track connections, each one ordered but able to fail     *)
(* with records in it, and over the control connection, which carries      *)
(* ADVANCE_CHANNEL and is ordered independently of them.  The library has  *)
(* the machines; when each is called follows the channel transitions of    *)
(* tests/model.rs and the media protocol.                                  *)
(***************************************************************************)
EXTENDS TrackChannel, Sequences

CONSTANTS
  Conns,           \* track connections; each is opened at most once
  None,
  InitialBytes,    \* the allowance of a CHANNEL_ACCEPTED
  InitialRecords,
  MaxGeneration,   \* bound on channel generations
  MaxMediaId,      \* bound on media records sent
  MaxEpoch,        \* bound on media epochs
  QueueCapacity    \* bound on records in flight, each way

ASSUME StreamAssumption ==
  /\ None \notin Conns
  /\ InitialBytes \in MaxRecordBody..MaxFlow
  /\ InitialRecords \in 1..MaxFlow
  /\ {MaxGeneration, MaxMediaId, MaxEpoch, QueueCapacity} \subseteq Nat \ {0}

Phases == {"Unused", "Opening", "Accepting", "Bound", "Failed", "Closed"}

VARIABLES
  conn,        \* [Conns -> [phase, generation, nonce]]
  bound,       \* the connection the presenter accepted and has not given up
  up, down,    \* [Conns -> Seq]: media records up, MAX_CHANNEL_DATA down
  advance,     \* ADVANCE_CHANNEL on control: "None", "Asked" or "Answered"
  sender,      \* the producer: [generation, conn, flow, epoch, media_id]
  delivered    \* history: <<generation, connection>> of every accepted record

streamVars == <<channelVars, conn, bound, up, down, advance, sender, delivered>>

StreamInit ==
  /\ ChannelInit
  /\ conn = [c \in Conns |-> [phase |-> "Unused", generation |-> 0, nonce |-> None]]
  /\ bound = None
  /\ up = [c \in Conns |-> <<>>] /\ down = [c \in Conns |-> <<>>]
  /\ advance = "None"
  /\ sender = [generation |-> 1, conn |-> None, flow |-> ClosedFlow,
               epoch |-> 0, media_id |-> 0]
  /\ delivered = {}

Becomes(c, phase) == conn' = [conn EXCEPT ![c].phase = phase]

(***************************************************************************)
(* Opening a connection.                                                   *)
(***************************************************************************)
\* First opens, retries, duplicates and opens of a generation that is being
\* replaced are all the same message.
SendOpen(c, nonce) ==
  /\ conn[c].phase = "Unused"
  /\ conn' = [conn EXCEPT ![c] = [phase |-> "Opening",
                                  generation |-> sender.generation,
                                  nonce |-> nonce]]
  /\ UNCHANGED <<channelVars, bound, up, down, advance, sender, delivered>>

\* A stored outcome grants the same initial allowance as a new one.  When
\* the track itself refuses, the connection the open had bound is closed.
PresenterOpens(c) ==
  /\ conn[c].phase = "Opening"
  /\ Open(conn[c].generation, conn[c].nonce, InitialBytes)
  /\ IF decision' \in {"Fresh", "ExactReplay"}
       THEN /\ AcceptChannel(conn[c].generation, InitialBytes, InitialRecords)
            /\ bound' = c
            /\ Becomes(c, IF track_result' = "Ok" THEN "Accepting" ELSE "Failed")
       ELSE Becomes(c, "Closed") /\ UNCHANGED <<trackVars, bound>>
  /\ UNCHANGED <<up, down, advance, sender, delivered>>

\* CHANNEL_ACCEPTED for a generation the producer has left is discarded.
SenderAccepted(c) ==
  /\ conn[c].phase = "Accepting"
  /\ \/ /\ conn[c].generation = sender.generation
        /\ Becomes(c, "Bound")
        /\ sender' = [sender EXCEPT !.conn = c,
                        !.flow = NewFlow(InitialBytes, InitialRecords)]
     \/ /\ conn[c].generation # sender.generation
        /\ Becomes(c, "Failed")
        /\ UNCHANGED sender
  /\ UNCHANGED <<channelVars, bound, up, down, advance, delivered>>

(***************************************************************************)
(* Media and flow.                                                         *)
(***************************************************************************)
\* The producer keeps to its allowance; whether it begins with a recovery
\* unit is for the presenter to check.
SendMedia(body, epoch, key) ==
  LET c == sender.conn IN
  /\ c # None
  /\ sender.media_id < MaxMediaId
  /\ Len(up[c]) < QueueCapacity
  /\ FlowAdmits(sender.flow, body)
  /\ sender' = [sender EXCEPT !.flow = Charged(@, body), !.epoch = epoch,
                              !.media_id = @ + 1]
  /\ up' = IF conn[c].phase = "Bound"
             THEN [up EXCEPT ![c] = Append(@, [body |-> body, epoch |-> epoch,
                                               id |-> sender.media_id + 1,
                                               key |-> key])]
             ELSE up
  /\ UNCHANGED <<channelVars, conn, bound, down, advance, delivered>>

\* A record the presenter refuses ends its connection.
RefuseRecord(c) ==
  /\ up' = [up EXCEPT ![c] = <<>>]
  /\ Becomes(c, "Failed")
  /\ UNCHANGED delivered

\* Mutant: a record is taken for one of the track's current generation.
RecordOfCurrentGeneration(c) == channel_generation

\* A record belongs to the generation its connection was opened for.
RecordGeneration(c) == conn[c].generation

PresenterMedia(c) ==
  LET record == Head(up[c])
      generation == RecordGeneration(c)
  IN
  /\ up[c] # <<>>
  /\ OpenAdmitMedia(generation)
  /\ \/ /\ ~OpenForMedia(generation)
        /\ RefuseRecord(c)
        /\ UNCHANGED trackVars
     \/ /\ OpenForMedia(generation)
        /\ AdmitMedia(generation, record.body, record.epoch, record.id, record.key)
        /\ IF track_result' = "Ok"
             THEN /\ up' = [up EXCEPT ![c] = Tail(@)]
                  /\ delivered' = delivered \union {<<generation, c>>}
                  /\ UNCHANGED conn
             ELSE RefuseRecord(c)
  /\ UNCHANGED <<bound, down, advance, sender>>

\* The window slides over what was consumed; a value already sent may be
\* sent again, and never exceeds what the totals can count.
PresenterRaises(bytes, records) ==
  /\ bound # None
  /\ conn[bound].phase \in {"Accepting", "Bound"}
  /\ Len(down[bound]) < QueueCapacity
  /\ RaiseMaxima(bytes, records)
  /\ down' = [down EXCEPT ![bound] = Append(@, [bytes |-> bytes, records |-> records])]
  /\ UNCHANGED <<openVars, conn, bound, up, advance, sender, delivered>>

SenderRaises ==
  LET c == sender.conn IN
  /\ c # None
  /\ down[c] # <<>>
  /\ sender' = [sender EXCEPT
                  !.flow = Raised(@, Head(down[c]).bytes, Head(down[c]).records)]
  /\ down' = [down EXCEPT ![c] = Tail(@)]
  /\ UNCHANGED <<channelVars, conn, bound, up, advance, delivered>>

(***************************************************************************)
(* Loss and replacement.                                                   *)
(***************************************************************************)
\* What had arrived can still be read until the presenter notices.
ConnFails(c) ==
  /\ conn[c].phase \in {"Opening", "Accepting", "Bound"}
  /\ Becomes(c, "Failed")
  /\ down' = [down EXCEPT ![c] = <<>>]
  /\ UNCHANGED <<channelVars, bound, up, advance, sender, delivered>>

PresenterConfirmsLoss ==
  /\ bound # None
  /\ conn[bound].phase = "Failed"
  /\ TransportLost(conn[bound].generation)
  /\ Detach
  /\ up' = [up EXCEPT ![bound] = <<>>]
  /\ Becomes(bound, "Closed")
  /\ bound' = None
  /\ UNCHANGED <<down, advance, sender, delivered>>

SenderNoticesLoss ==
  /\ sender.conn # None
  /\ conn[sender.conn].phase \in {"Failed", "Closed"}
  /\ sender' = [sender EXCEPT !.conn = None]
  /\ UNCHANGED <<channelVars, conn, bound, up, down, advance, delivered>>

AskAdvance ==
  /\ advance = "None"
  /\ sender.generation < MaxGeneration
  /\ advance' = "Asked"
  /\ UNCHANGED <<channelVars, conn, bound, up, down, sender, delivered>>

\* The presenter gives the old transport up; until the producer sees it close
\* (ConnFails), records and an acceptance may still travel on it.
PresenterAdvances ==
  /\ advance = "Asked"
  /\ AdvanceChannel(sender.generation, sender.generation + 1)
  /\ \/ /\ track_result' = "Ok"
        /\ OpenAdvance
        /\ bound' = None
        /\ advance' = "Answered"
     \/ /\ track_result' # "Ok"
        /\ advance' = "None"
        /\ UNCHANGED <<openVars, bound>>
  /\ UNCHANGED <<conn, up, down, sender, delivered>>

SenderAdvanced ==
  /\ advance = "Answered"
  /\ advance' = "None"
  /\ sender' = [sender EXCEPT !.generation = @ + 1, !.conn = None]
  /\ UNCHANGED <<channelVars, conn, bound, up, down, delivered>>

LoseTrack ==
  /\ ~lost
  /\ Lose
  /\ UNCHANGED <<openVars, conn, bound, up, down, advance, sender, delivered>>

StreamNext ==
  \/ \E c \in Conns :
       \/ \E nonce \in Nonces : SendOpen(c, nonce)
       \/ PresenterOpens(c) \/ SenderAccepted(c)
       \/ PresenterMedia(c)
       \/ ConnFails(c)
  \/ \E body \in 1..MaxRecordBody, key \in BOOLEAN,
        epoch \in sender.epoch..MaxEpoch : SendMedia(body, epoch, key)
  \/ \E consumed \in BOOLEAN :
       LET bytes   == InitialBytes + IF consumed THEN flow.sent_bytes ELSE 0
           records == InitialRecords + IF consumed THEN flow.sent_records ELSE 0
       IN bytes <= MaxFlow /\ records <= MaxFlow /\ PresenterRaises(bytes, records)
  \/ SenderRaises
  \/ PresenterConfirmsLoss \/ SenderNoticesLoss
  \/ AskAdvance \/ PresenterAdvances \/ SenderAdvanced
  \/ LoseTrack

StreamSpec == StreamInit /\ [][StreamNext]_streamVars

-----------------------------------------------------------------------------
Connection ==
  [phase: Phases, generation: 0..MaxGeneration, nonce: Nonces \union {None}]

\* Every part keeps its type; only counters the code checks are bounded by
\* their width, and the sender's totals stay within its allowance.
StreamTypeOK ==
  /\ conn \in [Conns -> Connection]
  /\ bound \in Conns \union {None}
  /\ channel_generation \in 1..MaxGeneration
  /\ revision \in 1..MaxRevision
  /\ milestones \subseteq Milestones
  /\ flow \in Flow /\ sender.flow \in Flow
  /\ \A o \in accepted : accepted = {o} /\ o.generation \in 1..MaxGeneration
  /\ sender.generation \in {channel_generation, channel_generation - 1}
  /\ sender.conn \in Conns \union {None}
  /\ \A c \in Conns : Len(up[c]) <= QueueCapacity /\ Len(down[c]) <= QueueCapacity

\* f admits records, one after the other, within bytes and count.
Fits(f, records, bytes, count) ==
  /\ \E total \in [0..Len(records) -> 0..bytes] :
       /\ total[0] = f.sent_bytes
       /\ \A i \in 1..Len(records) : total[i] = total[i - 1] + records[i].body
  /\ f.sent_records + Len(records) <= count

\* A sender that keeps to its allowance is never refused for flow: whatever
\* raises are on their way, lost or repeated, and however the connection was
\* retried, what is in flight on the accepted connection still fits.
InFlightFits ==
  bound # None /\ conn[bound].generation = channel_generation =>
    Fits(flow, up[bound], flow.max_bytes, flow.max_records)

\* Media protocol 5.3: "Once any media record was accepted, a generation
\* cannot attach again": over the whole life of the track the media of one
\* generation arrived on one connection.
OneMediaConnectionPerGeneration ==
  \A x, y \in delivered : x[1] = y[1] => x[2] = y[2]

\* Media protocol 7: "A producer MUST NOT use a sticky bit from an old
\* generation as current readiness": the first-media bit is set exactly when
\* a record of the current generation was accepted.
FirstMediaIsCurrent ==
  "FIRST_MEDIA" \in milestones <=> \E x \in delivered : x[1] = channel_generation

\* tests/model.rs, T::OldTransportMedia: "Bytes on the transport a channel
\* advance replaced: rejected, and the new generation's flow window must not
\* move": only records of the accepted connection are ever charged.
OnlyBoundIsCharged ==
  [][flow'.sent_records > flow.sent_records =>
       /\ bound # None
       /\ conn[bound].generation = channel_generation
       /\ Len(up'[bound]) < Len(up[bound])]_streamVars

==============================================================================

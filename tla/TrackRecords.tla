----------------------------- MODULE TrackRecords -----------------------------
(***************************************************************************)
(* Track configurations (track.rs): what a probe asks for and a track is   *)
(* created with.  The configuration of the kind lies in the record.        *)
(***************************************************************************)
EXTENDS Records

VIDEO == 1
AUDIO == 2
RASTER == 3
IMAGE == 4
VECTOR == 5
LIVE == 1
TIMED == 2
REALTIME_LANE == 2
BULK_LANE == 3
DOWNLINK == 0
UPLINK == 1
VECTOR_SLOT == 5
PREFIX == 1                     \* what precedes the payload in a media body
Pixels == 1..3                  \* a dimension, up to 8192
VectorPixels == 1..4            \* up to 16384

\* Short optional texts and byte strings.
Bounded(p, f) == Has(p, f) => p[f] # TooLong
AsciiText(p, f) == Has(p, f) => p[f] \notin {TooLong, Unsafe}

(***************************************************************************)
(* The configuration of each kind.  Codec n goes with packetization n.     *)
(***************************************************************************)
VideoFields ==
  Fields({"codec", "packetization", "extradata"}, Text) ++
  Fields({"coded_width", "coded_height", "profile", "level", "maximum_reorder_depth",
          "maximum_access_unit_bytes"}, U32) ++
  Fields({"color_primaries", "transfer", "matrix", "signal_range", "aspect_numerator",
          "aspect_denominator"}, U64) ++
  [alpha |-> {0}, timeline |-> {1}]
VideoOptions == Fields({"codec_string", "decoder_configuration"}, Text)
VideoValid(p) ==
  /\ p.codec \in Ordinary /\ p.packetization = p.codec /\ p.extradata # TooLong
  /\ p.coded_width \in Pixels /\ p.coded_height \in Pixels
  /\ p.maximum_reorder_depth <= 4
  /\ p.color_primaries \in 1..4 /\ p.transfer \in 1..2 /\ p.matrix \in 0..3
  /\ p.signal_range \in 1..2
  /\ NonzeroAll(p, {"aspect_numerator", "aspect_denominator"})
  /\ p.maximum_access_unit_bytes \in 1..(MAX_RECORD_BODY - PREFIX)
  /\ AsciiText(p, "codec_string") /\ Bounded(p, "decoder_configuration")

\* The number of ones of a channel mask.
Ones ==
  [mask \in U64 |->
     CASE mask = 0 -> 0 [] mask \in {1, 2, 4} -> 1 [] mask \in {3, 5} -> 2 [] OTHER -> 64]
MAX_AUDIO == 1                  \* the largest access unit, below what a body could hold

AudioFields ==
  Fields({"codec", "packetization", "extradata"}, Text) ++
  Fields({"sample_rate", "channels", "maximum_access_unit_bytes"}, U32) ++
  [channel_mask |-> U64, timeline |-> {1}]
AudioOptions == [codec_string |-> Text]
\* Extradata n initialises codec n.
AudioValid(p) ==
  /\ p.codec \in Ordinary /\ p.packetization = p.codec /\ p.extradata = p.codec
  /\ p.sample_rate \in 1..4 /\ p.channels \in 1..4
  /\ p.maximum_access_unit_bytes \in 1..MAX_AUDIO
  /\ p.channel_mask # 0 => Ones[p.channel_mask] = p.channels
  /\ Bounded(p, "codec_string")

RasterFields ==
  Fields({"width", "height", "maximum_delta_operations"}, U32) ++
  [alpha_mode |-> U64, format |-> {1}, color |-> {1}] ++
  Fields({"delta_enabled", "zstd_enabled"}, Bool)
RasterValid(p) ==
  /\ p.width \in Pixels /\ p.height \in Pixels
  /\ p.alpha_mode \in 1..2 /\ p.maximum_delta_operations \in 1..4
  /\ p.delta_enabled = 0 => p.maximum_delta_operations = 1
  /\ PREFIX + p.width * p.height <= MAX_RECORD_BODY

ImageFields ==
  Fields({"width", "height", "encoded_length"}, U32) ++
  [encoding |-> U64, color |-> {1}, cache_lookup |-> Bool]
ImageOptions == [sha256 |-> Fixed]
ImageValid(p) ==
  /\ p.encoding \in 1..2 /\ p.width \in Pixels /\ p.height \in Pixels
  /\ p.encoded_length \in 1..MAX_RECORD_BODY
  /\ p.cache_lookup = 1 => Has(p, "sha256")

MAX_SCENE == 2                  \* MAX_SCENE_BYTES
VectorFields == Fields({"width", "height", "maximum_scene_bytes"}, U32)
VectorValid(p) ==
  p.width \in VectorPixels /\ p.height \in VectorPixels /\ p.maximum_scene_bytes \in 1..MAX_SCENE

KindFields(kind) ==
  CASE kind = VIDEO -> VideoFields [] kind = AUDIO -> AudioFields
    [] kind = RASTER -> RasterFields [] kind = IMAGE -> ImageFields [] OTHER -> VectorFields
KindOptions(kind) ==
  CASE kind = VIDEO -> VideoOptions [] kind = AUDIO -> AudioOptions
    [] kind = IMAGE -> ImageOptions [] OTHER -> <<>>
KindValid(p) ==
  CASE p.kind = VIDEO -> VideoValid(p) [] p.kind = AUDIO -> AudioValid(p)
    [] p.kind = RASTER -> RasterValid(p) [] p.kind = IMAGE -> ImageValid(p)
    [] OTHER -> VectorValid(p)

\* The largest body the kind may send.
RequiredBody(p) ==
  CASE p.kind \in {VIDEO, AUDIO} -> p.maximum_access_unit_bytes + PREFIX
    [] p.kind = RASTER -> PREFIX + p.width * p.height
    [] p.kind = IMAGE -> p.encoded_length
    [] OTHER -> p.maximum_scene_bytes + PREFIX

(***************************************************************************)
(* TrackConfiguration.                                                     *)
(***************************************************************************)
Rates == {"maximum_rate_millihertz", "maximum_encoded_bits_per_second",
          "maximum_records_per_second"}
TrackFields(kind) ==
  Fields({"context_id", "surface_id", "track_id", "kind", "slot", "maximum_inflight_body_bytes",
          "target_latency_us", "maximum_latency_us", "retained_pixel_charge"} \union Rates, U64) ++
  [mode |-> {LIVE, TIMED}, lane |-> 0..3, maximum_record_body |-> U32] ++ KindFields(kind)
TrackOptions(kind) == [direction |-> {DOWNLINK, UPLINK}] ++ KindOptions(kind)

DirectionOf(p) == Get(p, "direction", DOWNLINK)

UplinkAllowed(p) ==
  /\ p.kind = AUDIO /\ p.mode = LIVE /\ p.lane = REALTIME_LANE
  /\ p.slot = 0 /\ p.retained_pixel_charge = 0

TrackValid(p, probe) ==
  /\ DirectionOf(p) = UPLINK => UplinkAllowed(p)
  /\ p.kind = VECTOR => p.slot = VECTOR_SLOT /\ p.mode = LIVE /\ p.lane = BULK_LANE
  /\ NonzeroAll(p, {"context_id", "surface_id"})
  /\ IF probe THEN p.track_id = 0
     ELSE NonzeroAll(p, Rates \union {"track_id", "maximum_record_body",
                                      "maximum_inflight_body_bytes"})
  /\ p.maximum_record_body <= MAX_RECORD_BODY
  /\ p.lane \in {REALTIME_LANE, BULK_LANE}
  /\ p.target_latency_us <= p.maximum_latency_us
  /\ KindValid(p)
  /\ RequiredBody(p) <= p.maximum_record_body
  /\ p.maximum_record_body <= p.maximum_inflight_body_bytes

DecodesTrack(p, probe) ==
  /\ Has(p, "kind") /\ p.kind \in VIDEO..VECTOR
  /\ ReadsWith(TrackFields(p.kind), TrackOptions(p.kind), p)
  /\ HeaderIs(p, "track_id") /\ TrackValid(p, probe)

\* A downlink is not written.
WrittenTrack(p) == WithoutDefault(p, "direction", DOWNLINK)

TrackKindsOfRecord == {"PROBE_TRACK_CONFIG", "CREATE_TRACK"}
TrackDecodes(kind, p) == DecodesTrack(p, kind = "PROBE_TRACK_CONFIG")
TrackEncodes(kind, p) == TrackValid(p, kind = "PROBE_TRACK_CONFIG")

(***************************************************************************)
(* A probe that was supported becomes a track once it has its rates; a     *)
(* track opens its channel.                                                *)
(***************************************************************************)
ProbedTracks(p) ==
  IF \E f \in Rates : p[f] = 0 THEN {}
  ELSE {Built("CREATE_TRACK", 1, [p EXCEPT !.track_id = 1, !.header = 1])}

ChannelOf(p) ==
  {Built("CHANNEL_OPEN", p.track_id,
         Select(p, {"context_id", "surface_id", "track_id", "lane"}) ++
         [request_id |-> 1, session_id |-> 1, channel_generation |-> 1, track_kind |-> p.kind,
          client_nonce |-> 1, authentication_tag |-> 1])}

TrackAnswers(kind, p) ==
  IF kind = "PROBE_TRACK_CONFIG" THEN ProbedTracks(p) ELSE ChannelOf(p)

ProbeOf(kind, options) ==
  Built("PROBE_TRACK_CONFIG", 0,
        options ++
        Select([track_id |-> 0, kind |-> kind, alpha |-> 0, cache_lookup |-> 0,
                lane |-> IF kind = AUDIO THEN REALTIME_LANE ELSE BULK_LANE,
                slot |-> IF kind = VECTOR THEN VECTOR_SLOT ELSE 0, retained_pixel_charge |-> 0,
                maximum_record_body |-> 2, maximum_inflight_body_bytes |-> 2] ++
               Fields(DOMAIN TrackFields(kind), 1),
               DOMAIN TrackFields(kind)))

TrackOpenings ==
  {ProbeOf(k, <<>>) : k \in VIDEO..VECTOR} \union {ProbeOf(AUDIO, [direction |-> UPLINK])}
=============================================================================

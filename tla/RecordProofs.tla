----------------------------- MODULE RecordProofs -----------------------------
(***************************************************************************)
(* Theorems about the records, for every number of faults and every set of *)
(* kinds: what is decoded is written and read again (DecodedIsLossless),   *)
(* what is built is written and read (AnswersUnderstood).  A record has a  *)
(* schema, so most lemmas come in pairs: which fields a kind has, and that *)
(* the records built of it have those and keep its rules.                  *)
(***************************************************************************)
EXTENDS RecordExchange, FiniteSetTheorems, TLAPS

(***************************************************************************)
(* A record is of one of the kinds exchanged, and has a header.            *)
(***************************************************************************)
IsRecord(r) ==
  r = [kind |-> r.kind, fields |-> r.fields] /\ "header" \in DOMAIN r.fields

RecordShape == IsRecord(record) /\ record.kind \in Kinds

LEMMA BuiltIsRecord ==
  ASSUME NEW kind, NEW header, NEW p
  PROVE  IsRecord(Built(kind, header, p)) /\ Built(kind, header, p).kind = kind
BY DEF IsRecord, Built, ++

LEMMA SelectedRecord ==
  ASSUME NEW p, NEW names
  PROVE  /\ DOMAIN Select(p, names) = DOMAIN p \intersect names
         /\ \A f \in DOMAIN p \intersect names : Select(p, names)[f] = p[f]
BY DEF Select, Restrict

LEMMA FileDropShapes ==
  /\ \A r \in FileDropOpenings : IsRecord(r)
  /\ \A kind, p : \A r \in FileDropAnswers(kind, p) : IsRecord(r)
<1>1. \A r \in FileDropOpenings : IsRecord(r)
  BY BuiltIsRecord DEF FileDropOpenings
<1>2. ASSUME NEW kind, NEW p, NEW r \in FileDropAnswers(kind, p) PROVE IsRecord(r)
  <2>1. r \in {Built("FILE_DROP_BOUND", p.surface_id, grant) : grant \in Grants(p)} => IsRecord(r)
    BY BuiltIsRecord
  <2>2. r \in Offers(p) \union Acceptances(p) \union Cancellations(p) => IsRecord(r)
    BY BuiltIsRecord DEF Offers, Acceptances, Cancellations
  <2>3. r \in AfterAccept(p) => IsRecord(r)
    BY BuiltIsRecord DEF AfterAccept, Opening
  <2>4. r \in AfterAdvance(p) => IsRecord(r)
    BY BuiltIsRecord DEF AfterAdvance, Opening
  <2>5. ASSUME r \in AfterOpen(p) PROVE IsRecord(r)
    <3>1. PICK kind2, header, q : r = Built(kind2, header, q)
      BY <2>5, Zenon DEF AfterOpen
    <3> QED BY <3>1, BuiltIsRecord
  <2>6. r \in AfterFinish(p) => IsRecord(r)
    BY BuiltIsRecord DEF AfterFinish
  <2>7. r \in AfterResult(p) \union AfterQuery(p) => IsRecord(r)
    BY BuiltIsRecord DEF AfterResult, AfterQuery
  <2> QED BY <1>2, <2>1, <2>2, <2>3, <2>4, <2>5, <2>6, <2>7 DEF FileDropAnswers
<1> QED BY <1>1, <1>2

LEMMA ControlShapes ==
  /\ \A r \in ControlOpenings : IsRecord(r)
  /\ \A kind, p : \A r \in ControlAnswers(kind, p) : IsRecord(r)
<1>1. \A r \in ControlOpenings : IsRecord(r)
  BY BuiltIsRecord DEF ControlOpenings, HelloAs
<1>2. ASSUME NEW kind, NEW p, NEW r \in ControlAnswers(kind, p) PROVE IsRecord(r)
  <2>1. ASSUME r \in Welcomes(p) \union Errors(p.request_id) PROVE IsRecord(r)
    <3>1. r \in Welcomes(p) => IsRecord(r)
      <4>1. ASSUME r \in Welcomes(p) PROVE \E kind2, header, q : r = Built(kind2, header, q)
        BY <4>1, Zenon DEF Welcomes
      <4> QED BY <4>1, BuiltIsRecord
    <3>2. ASSUME r \in Errors(p.request_id) PROVE IsRecord(r)
      <4> DEFINE error(c, result) ==
                   Built("ERROR", 0,
                         [envelope_id |-> p.request_id, request_id |-> p.request_id, code |-> c,
                          fatal |-> 0, diagnostic |-> Empty, detail_idempotent_result |-> result])
      <4>1. r \in {error(c, result) : c \in RegisteredErrors, result \in 0..2}
        BY <3>2 DEF Errors
      <4>2. \A c, result : IsRecord(error(c, result))
        BY BuiltIsRecord
      <4> HIDE DEF error
      <4> QED BY <4>1, <4>2
    <3> QED BY <2>1, <3>1, <3>2
  <2>2. r \in AfterWelcome(p) => IsRecord(r)
    BY BuiltIsRecord DEF AfterWelcome
  <2> QED BY <1>2, <2>1, <2>2 DEF ControlAnswers
<1> QED BY <1>1, <1>2

LEMMA SurfaceShapes ==
  /\ \A r \in SurfaceOpenings : IsRecord(r)
  /\ \A kind, p : \A r \in SurfaceAnswers(kind, p) : IsRecord(r)
<1>1. \A r \in SurfaceOpenings : IsRecord(r)
  BY BuiltIsRecord DEF SurfaceOpenings
<1>2. \A kind, p : \A r \in SurfaceAnswers(kind, p) : IsRecord(r)
  BY BuiltIsRecord DEF SurfaceAnswers, SurfacesIn, NodesOf, Captured
<1> QED BY <1>1, <1>2

LEMMA TrackShapes ==
  /\ \A r \in TrackOpenings : IsRecord(r)
  /\ \A kind, p : \A r \in TrackAnswers(kind, p) : IsRecord(r)
<1>1. \A r \in TrackOpenings : IsRecord(r)
  <2>1. \A kind, options : IsRecord(ProbeOf(kind, options))
    BY BuiltIsRecord DEF ProbeOf
  <2> QED BY <2>1 DEF TrackOpenings
<1>2. \A kind, p : \A r \in TrackAnswers(kind, p) : IsRecord(r)
  BY BuiltIsRecord DEF TrackAnswers, ProbedTracks, ChannelOf
<1> QED BY <1>1, <1>2

LEMMA OverlayShapes ==
  /\ \A r \in OverlayOpenings : IsRecord(r)
  /\ \A kind, p : \A r \in OverlayAnswers(kind, p) : IsRecord(r)
<1>1. \A r \in OverlayOpenings : IsRecord(r)
  BY BuiltIsRecord DEF OverlayOpenings
<1>2. ASSUME NEW kind, NEW p, NEW r \in OverlayAnswers(kind, p) PROVE IsRecord(r)
  <2>1. r \in Statuses(p) => IsRecord(r)
    BY BuiltIsRecord DEF Statuses
  <2>2. ASSUME r \in AnEventOf(p) \union SemanticsOf(p) PROVE IsRecord(r)
    <3>1. PICK kind2, header, q : r = Built(kind2, header, q)
      BY <2>2, Zenon DEF AnEventOf, AnEvent, SemanticsOf
    <3> QED BY <3>1, BuiltIsRecord
  <2>3. r \in AfterStatus(p) => IsRecord(r)
    BY <2>2, BuiltIsRecord DEF AfterStatus
  <2> QED BY <1>2, <2>1, <2>3 DEF OverlayAnswers
<1> QED BY <1>1, <1>2

LEMMA AnswerShapes ==
  /\ \A r \in Openings : IsRecord(r)
  /\ \A q : \A r \in Answers(q) : IsRecord(r)
BY FileDropShapes, ControlShapes, SurfaceShapes, TrackShapes, OverlayShapes DEF Openings, Answers

LEMMA RecordShapeAlways == RecordSpec => []RecordShape
<1>1. RecordInit => RecordShape
  BY AnswerShapes DEF RecordInit, RecordShape
<1>2. RecordShape /\ [RecordNext]_recordVars => RecordShape'
  <2> SUFFICES ASSUME RecordShape, [RecordNext]_recordVars PROVE RecordShape'
    OBVIOUS
  <2>1. CASE Change
    BY <2>1 DEF Change, RecordShape, IsRecord
  <2>2. CASE Omit
    BY <2>2 DEF Omit, RecordShape, IsRecord, Restrict
  <2>3. CASE Extend
    BY <2>3 DEF Extend, RecordShape, IsRecord, ++
  <2>4. CASE Answer
    BY <2>4, AnswerShapes DEF Answer, RecordShape
  <2>5. CASE UNCHANGED recordVars
    BY <2>5 DEF recordVars, RecordShape, IsRecord
  <2> QED BY <2>1, <2>2, <2>3, <2>4, <2>5 DEF RecordNext
<1> QED BY <1>1, <1>2, PTL DEF RecordSpec

(***************************************************************************)
(* A key that is left out when it holds what its absence means: the schema *)
(* still reads the record, which is otherwise the same.                    *)
(***************************************************************************)
LEMMA DefaultLeftOut ==
  ASSUME NEW p, NEW f, NEW default, Get(p, f, default) = default
  PROVE  /\ DOMAIN WithoutDefault(p, f, default) = DOMAIN p \ {f}
         /\ \A g \in DOMAIN p \ {f} : WithoutDefault(p, f, default)[g] = p[g]
BY DEF WithoutDefault, Restrict, Get

LEMMA DefaultWritten ==
  ASSUME NEW p, NEW f, NEW default
  PROVE  /\ DOMAIN p \ {f} \subseteq DOMAIN WithoutDefault(p, f, default)
         /\ DOMAIN WithoutDefault(p, f, default) \subseteq DOMAIN p
         /\ \A g \in DOMAIN WithoutDefault(p, f, default) :
              WithoutDefault(p, f, default)[g] = p[g]
         /\ Get(WithoutDefault(p, f, default), f, default) = Get(p, f, default)
         /\ \A g : g # f => (Has(WithoutDefault(p, f, default), g) <=> Has(p, g))
<1>1. CASE Get(p, f, default) = default
  <2> DEFINE w == WithoutDefault(p, f, default)
  <2>1. DOMAIN w = DOMAIN p \ {f} /\ \A g \in DOMAIN p \ {f} : w[g] = p[g]
    BY <1>1, DefaultLeftOut
  <2> HIDE DEF w
  <2>2. /\ DOMAIN p \ {f} \subseteq DOMAIN w /\ DOMAIN w \subseteq DOMAIN p
        /\ \A g \in DOMAIN w : w[g] = p[g]
        /\ Get(w, f, default) = default
        /\ \A g : g # f => (Has(w, g) <=> Has(p, g))
    BY <2>1 DEF Get, Has
  <2> QED BY <1>1, <2>2 DEF w
<1>2. CASE Get(p, f, default) # default
  BY <1>2 DEF WithoutDefault
<1> QED BY <1>1, <1>2

\* A schema reads what is left of a record when optional keys are taken away.
LEMMA ReadsLess ==
  ASSUME NEW required, NEW optional, NEW p, NEW q, ReadsWith(required, optional, p),
         DOMAIN required \subseteq DOMAIN q, DOMAIN q \subseteq DOMAIN p,
         \A f \in DOMAIN q : q[f] = p[f]
  PROVE  ReadsWith(required, optional, q)
BY DEF ReadsWith

(***************************************************************************)
(* What a decoder accepts, its encoder writes.                             *)
(***************************************************************************)
LEMMA FileDropEncodable ==
  ASSUME NEW kind \in FileDropKinds, NEW p, FileDropDecodes(kind, p)
  PROVE  FileDropEncodes(kind, p)
BY DEF FileDropKinds, FileDropDecodes, FileDropEncodes, DecodesBinding, DecodesOffer, EncodesOffer,
   DecodesAccept, DecodesCancel, EncodesCancel, DecodesAdvance, DecodesAdvanced, DecodesQuery,
   DecodesStatus, DecodesOpen, DecodesTransferAccepted, DecodesFinish, DecodesMaximum,
   DecodesResult, DecodesAbort

LEMMA SurfaceEncodable ==
  ASSUME NEW kind \in SurfaceKinds, NEW p, SurfaceDecodes(kind, p)
  PROVE  SurfaceEncodes(kind, p)
BY DEF SurfaceKinds, SurfaceDecodes, SurfaceEncodes, DecodesContext, DecodesSurface, DecodesNode

LEMMA ControlEncodable ==
  ASSUME NEW kind \in ControlKinds, NEW p, ControlDecodes(kind, p)
  PROVE  ControlEncodes(kind, p)
BY DEF ControlKinds, ControlDecodes, ControlEncodes, DecodesEnvelope, DecodesHello, EncodesHello,
   DecodesWelcome, DecodesError

LEMMA TrackEncodable ==
  ASSUME NEW kind, NEW p, TrackDecodes(kind, p)
  PROVE  TrackEncodes(kind, p)
BY DEF TrackDecodes, TrackEncodes, DecodesTrack

LEMMA OverlayEncodable ==
  ASSUME NEW kind \in OverlayKinds, kind # "OVERLAY_ENV_CHANGED",
         NEW p, OverlayDecodes(kind, p)
  PROVE  OverlayEncodes(kind, p)
<1>1. DecodesEvent(p) => EncodesEvent(p)
  BY DEF DecodesEvent, EncodesEvent, Addressed
<1>2. DecodesSemantics(p) => EncodesSemantics(p)
  <2> SUFFICES ASSUME DecodesSemantics(p) PROVE AddressValid(p)
    BY DEF DecodesSemantics, EncodesSemantics
  <2> DEFINE names == DOMAIN p \ UNION {NodeKeys(n) : n \in NodePlaces}
             q == Select(p, names)
  <2>1. Addressed([scene_revision |-> U64], <<>>, q)
    BY DEF DecodesSemantics
  <2>2. DOMAIN Address \subseteq DOMAIN q
    BY <2>1 DEF Addressed, ReadsWith, ++
  <2>3. \A f \in DOMAIN Address : q[f] = p[f]
    BY <2>2, SelectedRecord
  <2> HIDE DEF q
  <2>4. AddressValid(q)
    BY <2>1 DEF Addressed
  <2> QED BY <2>3, <2>4 DEF AddressValid, NonzeroAll
<1> QED
  BY <1>1, <1>2 DEF OverlayKinds, OverlayDecodes, OverlayEncodes, DecodesWindow, DecodesWindowStatus,
     DecodesAction, DecodesOutcome, DecodesViewportChanged, DecodesWindowQuery, DecodesClipboard,
     DecodesCapture, DecodesRenew

(***************************************************************************)
(* What a program reads of a record it has written again.                  *)
(***************************************************************************)
LEMMA EnvelopeAgain ==
  ASSUME NEW p, DecodesEnvelope(p)
  PROVE  DecodesEnvelope(WrittenEnvelope(p))
<1> DEFINE w == WrittenEnvelope(p)
<1>1. /\ DOMAIN p \ {"preconditions"} \subseteq DOMAIN w /\ DOMAIN w \subseteq DOMAIN p
      /\ \A g \in DOMAIN w : w[g] = p[g]
      /\ Get(w, "preconditions", Empty) = Get(p, "preconditions", Empty)
  BY DefaultWritten DEF WrittenEnvelope
<1>2. ReadsWith([request_id |-> U64, payload |-> Map], EnvelopeOptions, p)
  BY DEF DecodesEnvelope
<1>3. {"request_id", "payload"} \subseteq DOMAIN p
  BY <1>2 DEF ReadsWith
<1> HIDE DEF w
<1>4. ReadsWith([request_id |-> U64, payload |-> Map], EnvelopeOptions, w)
  BY <1>1, <1>2, <1>3, ReadsLess
<1>5. w.payload = p.payload
  BY <1>1, <1>3
<1> QED BY <1>1, <1>4, <1>5 DEF DecodesEnvelope, EncodesEnvelope, w

LEMMA TrackAgain ==
  ASSUME NEW p, "header" \in DOMAIN p, NEW probe, DecodesTrack(p, probe)
  PROVE  DecodesTrack(WrittenTrack(p), probe)
<1> DEFINE w == WrittenTrack(p)
           common == {"header", "context_id", "surface_id", "track_id", "kind", "slot", "mode", "lane",
                      "maximum_record_body", "maximum_inflight_body_bytes", "target_latency_us",
                      "maximum_latency_us", "retained_pixel_charge"} \union Rates
<1>1. /\ DOMAIN p \ {"direction"} \subseteq DOMAIN w /\ DOMAIN w \subseteq DOMAIN p
      /\ \A g \in DOMAIN w : w[g] = p[g]
      /\ DirectionOf(w) = DirectionOf(p)
      /\ \A g : g # "direction" => (Has(w, g) <=> Has(p, g))
  BY DefaultWritten DEF WrittenTrack, DirectionOf
<1>2. /\ Has(p, "kind") /\ p.kind \in VIDEO..VECTOR /\ HeaderIs(p, "track_id")
      /\ ReadsWith(TrackFields(p.kind), TrackOptions(p.kind), p) /\ TrackValid(p, probe)
  BY DEF DecodesTrack
<1>3. DOMAIN TrackFields(p.kind) \subseteq DOMAIN p
  BY <1>2 DEF ReadsWith
<1>4. "direction" \notin DOMAIN TrackFields(p.kind)
  BY DEF TrackFields, Fields, ++, KindFields, VideoFields, AudioFields, RasterFields, ImageFields,
     VectorFields, Rates
<1>5. /\ DOMAIN TrackFields(p.kind) \subseteq DOMAIN w
      /\ \A f \in DOMAIN TrackFields(p.kind) : w[f] = p[f]
  BY <1>1, <1>3, <1>4
<1>6. common \ {"header"} \subseteq DOMAIN TrackFields(p.kind)
  BY DEF TrackFields, Fields, ++
<1>7. DOMAIN KindFields(p.kind) \subseteq DOMAIN TrackFields(p.kind)
  BY DEF TrackFields, Fields, ++
<1> HIDE DEF w
<1>8. w.kind = p.kind
  BY <1>5, <1>6
<1>9. ReadsWith(TrackFields(p.kind), TrackOptions(p.kind), w)
  BY <1>1, <1>2, <1>5, ReadsLess
<1>10. KindValid(p) => KindValid(w)
  <2>1. CASE p.kind = VIDEO
    <3>1. \A f \in DOMAIN VideoFields : w[f] = p[f]
      BY <1>5, <1>7, <2>1 DEF KindFields, VIDEO, AUDIO, RASTER, IMAGE, VECTOR
    <3> QED
      BY <1>1, <1>8, <2>1, <3>1 DEF KindValid, VideoValid, VideoFields, Fields, ++, NonzeroAll,
         AsciiText, Bounded, Has, VIDEO, AUDIO, RASTER, IMAGE, VECTOR
  <2>2. CASE p.kind = AUDIO
    <3>1. \A f \in DOMAIN AudioFields : w[f] = p[f]
      BY <1>5, <1>7, <2>2 DEF KindFields, VIDEO, AUDIO, RASTER, IMAGE, VECTOR
    <3> QED
      BY <1>1, <1>8, <2>2, <3>1 DEF KindValid, AudioValid, AudioFields, Fields, ++, Bounded, Has,
         VIDEO, AUDIO, RASTER, IMAGE, VECTOR
  <2>3. CASE p.kind = RASTER
    <3>1. \A f \in DOMAIN RasterFields : w[f] = p[f]
      BY <1>5, <1>7, <2>3 DEF KindFields, VIDEO, AUDIO, RASTER, IMAGE, VECTOR
    <3> QED
      BY <1>8, <2>3, <3>1 DEF KindValid, RasterValid, RasterFields, Fields, ++, VIDEO, AUDIO, RASTER, IMAGE, VECTOR
  <2>4. CASE p.kind = IMAGE
    <3>1. \A f \in DOMAIN ImageFields : w[f] = p[f]
      BY <1>5, <1>7, <2>4 DEF KindFields, VIDEO, AUDIO, RASTER, IMAGE, VECTOR
    <3> QED
      BY <1>1, <1>8, <2>4, <3>1 DEF KindValid, ImageValid, ImageFields, Fields, ++, Has,
         VIDEO, AUDIO, RASTER, IMAGE, VECTOR
  <2>5. CASE p.kind = VECTOR
    <3>1. \A f \in DOMAIN VectorFields : w[f] = p[f]
      BY <1>5, <1>7, <2>5 DEF KindFields, VIDEO, AUDIO, RASTER, IMAGE, VECTOR
    <3> QED
      BY <1>8, <2>5, <3>1 DEF KindValid, VectorValid, VectorFields, Fields, ++,
         VIDEO, AUDIO, RASTER, IMAGE, VECTOR
  <2> QED BY <1>2, <2>1, <2>2, <2>3, <2>4, <2>5 DEF VIDEO, AUDIO, RASTER, IMAGE, VECTOR
<1>11. RequiredBody(w) = RequiredBody(p)
  <2>1. p.kind \in {VIDEO, AUDIO} => w.maximum_access_unit_bytes = p.maximum_access_unit_bytes
    BY <1>5, <1>7 DEF KindFields, VideoFields, AudioFields, Fields, ++, VIDEO, AUDIO, RASTER, IMAGE,
       VECTOR
  <2>2. p.kind = RASTER => w.width = p.width /\ w.height = p.height
    BY <1>5, <1>7 DEF KindFields, RasterFields, Fields, ++, VIDEO, AUDIO, RASTER, IMAGE, VECTOR
  <2>3. p.kind = IMAGE => w.encoded_length = p.encoded_length
    BY <1>5, <1>7 DEF KindFields, ImageFields, Fields, ++, VIDEO, AUDIO, RASTER, IMAGE, VECTOR
  <2>4. p.kind = VECTOR => w.maximum_scene_bytes = p.maximum_scene_bytes
    BY <1>5, <1>7 DEF KindFields, VectorFields, Fields, ++, VIDEO, AUDIO, RASTER, IMAGE, VECTOR
  <2> QED
    BY <1>2, <1>8, <2>1, <2>2, <2>3, <2>4 DEF RequiredBody, VIDEO, AUDIO, RASTER, IMAGE, VECTOR
<1>12. \A f \in common : w[f] = p[f]
  BY <1>1, <1>5, <1>6
<1>13. TrackValid(w, probe)
  <2>1. UplinkAllowed(w) <=> UplinkAllowed(p)
    BY <1>12 DEF UplinkAllowed
  <2>2. \A names \in SUBSET common : NonzeroAll(w, names) <=> NonzeroAll(p, names)
    BY <1>12 DEF NonzeroAll
  <2>3. /\ NonzeroAll(w, {"context_id", "surface_id"})
        /\ IF probe THEN w.track_id = 0
           ELSE NonzeroAll(w, Rates \union {"track_id", "maximum_record_body",
                                            "maximum_inflight_body_bytes"})
    BY <1>2, <1>12, <2>2 DEF TrackValid
  <2> QED BY <1>1, <1>2, <1>10, <1>11, <1>12, <2>1, <2>3 DEF TrackValid
<1>14. Has(w, "kind") /\ HeaderIs(w, "track_id")
  BY <1>2, <1>5, <1>6, <1>12 DEF Has, HeaderIs
<1> QED BY <1>2, <1>8, <1>9, <1>13, <1>14 DEF DecodesTrack, w

LEMMA PointerFields ==
  /\ EventFields(POINTER) = Fields({"position_x", "position_y"}, Scalars) ++
                            [region |-> U64, modifiers |-> U32]
  /\ Pairs(POINTER) = {{"button", "button_down"}, {"clicks", "pressure"}}
BY DEF EventFields, Pairs, FOCUS, POINTER, WHEEL, KEY, TEXT, IME, GEOMETRY, DISMISSED, CANCEL, HOVER

\* Clicks and pressure are left out together, when they say nothing.
LEMMA EventAgain ==
  ASSUME NEW p, "header" \in DOMAIN p, DecodesEvent(p)
  PROVE  DecodesEvent(WrittenEvent(p))
<1> DEFINE silent == {"clicks", "pressure"}
           w == Select(p, DOMAIN p \ silent)
           types == [scene_revision |-> U64, kind |-> Events] ++ EventFields(p.kind)
<1> SUFFICES ASSUME p.kind = POINTER PROVE DecodesEvent(w)
  BY DEF WrittenEvent
<1>1. DOMAIN w = DOMAIN p \ silent /\ \A f \in DOMAIN w : w[f] = p[f]
  BY DEF Select, Restrict
<1>2. /\ Has(p, "kind") /\ Addressed(types, EventOptions(p.kind), p) /\ EventValid(p)
      /\ \A pair \in Pairs(p.kind) : pair \intersect DOMAIN p \in {{}, pair}
  BY DEF DecodesEvent
<1>3. ReadsWith(Address ++ types, EventOptions(p.kind), p) /\ AddressValid(p)
      /\ HeaderIs(p, "surface_id")
  BY <1>2 DEF Addressed
<1>4. DOMAIN (Address ++ types) \subseteq DOMAIN p
  BY <1>3 DEF ReadsWith
<1>5. DOMAIN (Address ++ types) \intersect silent = {}
  BY PointerFields DEF ++, Address, Fields
<1>6. {"context_id", "surface_id", "generation", "scene_revision", "kind", "modifiers"}
         \subseteq DOMAIN (Address ++ types)
  BY PointerFields DEF ++, Address, Fields
<1> HIDE DEF w
<1>7. ReadsWith(Address ++ types, EventOptions(p.kind), w)
  BY <1>1, <1>3, <1>4, <1>5, ReadsLess
<1> HIDE DEF types
<1>8. \A f \in {"header", "context_id", "surface_id", "generation", "scene_revision", "kind",
                "modifiers"} : f \in DOMAIN w /\ w[f] = p[f]
  BY <1>1, <1>4, <1>5, <1>6
<1>9. AddressValid(w) /\ HeaderIs(w, "surface_id")
  BY <1>3, <1>8 DEF AddressValid, HeaderIs, NonzeroAll, Address, Fields
<1>10. \A pair \in Pairs(p.kind) : pair \intersect DOMAIN w \in {{}, pair}
  <2>1. {"button", "button_down"} \intersect DOMAIN w = {"button", "button_down"} \intersect DOMAIN p
    BY <1>1
  <2>2. {"clicks", "pressure"} \intersect DOMAIN w = {}
    BY <1>1
  <2> QED BY <1>2, <2>1, <2>2, PointerFields
<1>11. EventValid(w)
  BY <1>1, <1>2, <1>8 DEF EventValid, Has, POINTER, WHEEL, KEY, TEXT, IME, GEOMETRY, ACCESSIBILITY
<1> QED
  BY <1>7, <1>8, <1>9, <1>10, <1>11 DEF DecodesEvent, Addressed, Has, types, POINTER, Events, FOCUS,
     ACCESSIBILITY

(***************************************************************************)
(* The nodes of a semantic tree.                                           *)
(***************************************************************************)
NodeFieldNames == DOMAIN NodeTypes \union DOMAIN NodeOptions

LEMMA NamesOfNode ==
  NodeFieldNames = {"id", "role", "x", "y", "width", "height", "label", "numeric", "level",
                    "set_position", "set_size", "toggled", "disabled", "actions", "children"}
BY DEF NodeFieldNames, NodeTypes, NodeOptions, Rectangle, Fields, ++

\* No key of a field that may be left out is the key of one that may not.
LEMMA DefaultsApart ==
  \A m, n \in NodePlaces : \A f \in Defaults, g \in NodeFieldNames \ Defaults : At(m, f) # At(n, g)
<1> SUFFICES ASSUME NEW m \in NodePlaces, NEW n \in NodePlaces, NEW g \in NodeFieldNames \ Defaults
             PROVE  /\ At(m, "label") # At(n, g)
                    /\ At(m, "disabled") # At(n, g)
                    /\ At(m, "actions") # At(n, g)
                    /\ At(m, "children") # At(n, g)
  BY DEF Defaults
<1>1. CASE n = 1
  BY <1>1, NamesOfNode DEF At, NodeNames, NodePlaces, Defaults
<1>2. CASE n = 2
  BY <1>2, NamesOfNode DEF At, NodeNames, NodePlaces, Defaults
<1>3. CASE n = 3
  BY <1>3, NamesOfNode DEF At, NodeNames, NodePlaces, Defaults
<1> QED BY <1>1, <1>2, <1>3 DEF NodePlaces

\* A node of a record written again: what it must hold, and the defaults of what is left out.
NodeKept(node, again) ==
  /\ DOMAIN again \subseteq DOMAIN node /\ DOMAIN node \ Defaults \subseteq DOMAIN again
  /\ \A f \in DOMAIN again : again[f] = node[f]
  /\ \A f \in Defaults : Get(again, f, 0) = Get(node, f, 0)

LEMMA KeptNodeReads ==
  ASSUME NEW node, NEW again, NodeKept(node, again), ReadsNode(node)
  PROVE  /\ ReadsNode(again)
         /\ "id" \in DOMAIN node /\ "id" \in DOMAIN again /\ again.id = node.id
         /\ NodeSound(node) => NodeSound(again)
<1>1. /\ DOMAIN NodeTypes = {"id", "role", "x", "y", "width", "height"}
      /\ DOMAIN NodeTypes \intersect Defaults = {}
  BY DEF NodeTypes, Rectangle, Fields, ++, Defaults
<1>2. ReadsWith(NodeTypes, NodeOptions, node) /\ DOMAIN NodeTypes \subseteq DOMAIN node
  BY DEF ReadsNode, ReadsWith
<1>3. DOMAIN NodeTypes \subseteq DOMAIN again
  BY <1>1, <1>2 DEF NodeKept
<1>4. ReadsWith(NodeTypes, NodeOptions, again)
  BY <1>2, <1>3, ReadsLess DEF NodeKept
<1>5. SetPair \intersect DOMAIN again = SetPair \intersect DOMAIN node
  BY DEF NodeKept, SetPair, Defaults
<1>6. \A f \in {"id", "role", "x", "y", "width", "height"} : f \in DOMAIN node /\ again[f] = node[f]
  BY <1>1, <1>2, <1>3 DEF NodeKept
<1>7. NodeSound(node) => NodeSound(again)
  <2>1. /\ Get(again, "label", Empty) = Get(node, "label", Empty)
        /\ Get(again, "actions", Empty) = Get(node, "actions", Empty)
    BY DEF NodeKept, Defaults, Empty
  <2>2. Has(again, "set_size") =>
          /\ Has(node, "set_size") /\ again.set_size = node.set_size
          /\ again.set_position = node.set_position
    BY <1>5 DEF ReadsNode, NodeKept, Has, SetPair
  <2> QED BY <1>6, <2>1, <2>2 DEF NodeSound, RectangleValid
<1> QED BY <1>1, <1>3, <1>4, <1>5, <1>6, <1>7 DEF ReadsNode

LEMMA SemanticsAgain ==
  ASSUME NEW p, "header" \in DOMAIN p, DecodesSemantics(p)
  PROVE  DecodesSemantics(WrittenSemantics(p))
<1> DEFINE kept == {k \in DOMAIN p :
                      ~\E n \in NodePlaces, f \in Defaults : k = At(n, f) /\ p[k] = 0}
           w == Select(p, kept)
           keys == UNION {NodeKeys(n) : n \in NodePlaces}
<1>1. DOMAIN w = kept /\ \A k \in DOMAIN w : w[k] = p[k]
  BY DEF Select, Restrict
<1>2. WrittenSemantics(p) = w
  BY DEF WrittenSemantics
<1>3. Defaults \subseteq NodeFieldNames
  BY NamesOfNode DEF Defaults
<1>4. \A n \in NodePlaces, f \in NodeFieldNames : At(n, f) \in NodeKeys(n)
  BY DEF NodeKeys, NodeFieldNames
<1>5. \A k \in DOMAIN p \ keys : k \in DOMAIN w
  BY <1>1, <1>3, <1>4
<1>6. Select(w, DOMAIN w \ keys) = Select(p, DOMAIN p \ keys)
  BY <1>1, <1>5 DEF Select, Restrict
<1>7. \A n \in NodePlaces, f \in NodeFieldNames \ Defaults : At(n, f) \in DOMAIN p => At(n, f) \in DOMAIN w
  BY <1>1, DefaultsApart
<1>8. \A n \in NodePlaces, f \in Defaults :
        At(n, f) \in DOMAIN p => At(n, f) \in DOMAIN w \/ p[At(n, f)] = 0
  <2> SUFFICES ASSUME NEW n \in NodePlaces, NEW f \in Defaults, At(n, f) \in DOMAIN p,
                      p[At(n, f)] # 0
               PROVE  At(n, f) \in DOMAIN w
    OBVIOUS
  <2> QED BY <1>1
<1>9. \A n \in NodePlaces, f \in Defaults : At(n, f) \in DOMAIN w => p[At(n, f)] # 0
  BY <1>1
<1> HIDE DEF w, kept
<1>10. ASSUME NEW n \in NodePlaces PROVE NodeKept(Node(p, n), Node(w, n))
  <2>1. /\ DOMAIN Node(p, n) = {g \in NodeFieldNames : At(n, g) \in DOMAIN p}
        /\ DOMAIN Node(w, n) = {g \in NodeFieldNames : At(n, g) \in DOMAIN w}
        /\ \A f \in DOMAIN Node(p, n) : Node(p, n)[f] = p[At(n, f)]
        /\ \A f \in DOMAIN Node(w, n) : Node(w, n)[f] = w[At(n, f)]
    BY DEF Node, NodeFieldNames
  <2>2. DOMAIN w \subseteq DOMAIN p
    BY <1>1 DEF kept
  <2>3. DOMAIN Node(w, n) \subseteq DOMAIN Node(p, n)
    BY <2>1, <2>2
  <2>4. DOMAIN Node(p, n) \ Defaults \subseteq DOMAIN Node(w, n)
    BY <1>7, <2>1
  <2>5. \A f \in DOMAIN Node(w, n) : Node(w, n)[f] = Node(p, n)[f]
    BY <1>1, <2>1, <2>3
  <2>6. ASSUME NEW f \in Defaults PROVE Get(Node(w, n), f, 0) = Get(Node(p, n), f, 0)
    <3>1. CASE f \in DOMAIN Node(w, n)
      BY <2>3, <2>5, <3>1 DEF Get
    <3>2. CASE f \notin DOMAIN Node(w, n)
      BY <1>3, <1>8, <2>1, <3>2 DEF Get
    <3> QED BY <3>1, <3>2
  <2> QED BY <2>3, <2>4, <2>5, <2>6 DEF NodeKept
<1>11. \A n \in Nodes(p) : ReadsNode(Node(p, n))
  BY DEF DecodesSemantics
<1>12. \A n \in Nodes(p) :
         /\ ReadsNode(Node(w, n)) /\ Node(w, n).id = Node(p, n).id /\ At(n, "id") \in DOMAIN w
         /\ NodeSound(Node(p, n)) => NodeSound(Node(w, n))
  <2> SUFFICES ASSUME NEW n \in Nodes(p)
               PROVE  /\ ReadsNode(Node(w, n)) /\ Node(w, n).id = Node(p, n).id
                      /\ At(n, "id") \in DOMAIN w
                      /\ NodeSound(Node(p, n)) => NodeSound(Node(w, n))
    OBVIOUS
  <2>1. n \in NodePlaces
    BY DEF Nodes
  <2>2. "id" \in DOMAIN Node(w, n)
    BY <1>10, <1>11, <2>1, KeptNodeReads
  <2>3. At(n, "id") \in DOMAIN w
    BY <2>2 DEF Node
  <2> QED BY <1>10, <1>11, <2>1, <2>3, KeptNodeReads
<1>13. Nodes(w) = Nodes(p)
  <2>1. \A n \in NodePlaces : n \in Nodes(p) => n \in Nodes(w)
    BY <1>4, <1>12, NamesOfNode DEF Nodes
  <2>2. DOMAIN w \subseteq DOMAIN p
    BY <1>1 DEF kept
  <2>3. \A n \in NodePlaces : n \in Nodes(w) => n \in Nodes(p)
    BY <2>2 DEF Nodes
  <2> QED BY <2>1, <2>3 DEF Nodes
<1>14. \A n \in NodePlaces : ChildrenOf(w, n) = ChildrenOf(p, n)
  BY <1>10 DEF ChildrenOf, NodeKept, Defaults
<1>15. Tree(p) => Tree(w)
  BY <1>13, <1>14 DEF Tree, Nodes
<1>16. w.scene_revision = p.scene_revision
  <2>1. "scene_revision" \in DOMAIN Select(p, DOMAIN p \ keys)
    BY DEF DecodesSemantics, Addressed, ReadsWith, ++
  <2> HIDE DEF keys
  <2>2. DOMAIN Select(p, DOMAIN p \ keys) = DOMAIN p \intersect (DOMAIN p \ keys)
    BY SelectedRecord
  <2>3. "scene_revision" \in DOMAIN p \ keys
    BY <2>1, <2>2
  <2> QED BY <1>1, <1>5, <2>3
<1>17. SemanticsValid(w)
  <2>1. SemanticsValid(p)
    BY DEF DecodesSemantics
  <2> QED BY <1>12, <1>13, <1>15, <1>16, <2>1 DEF SemanticsValid
<1>18. DecodesSemantics(w)
  BY <1>6, <1>12, <1>13, <1>17 DEF DecodesSemantics
<1> QED BY <1>2, <1>18

(***************************************************************************)
(* What is decoded is encoded again, and decoded again.                    *)
(***************************************************************************)
LEMMA WrittenRecord ==
  ASSUME NEW r, IsRecord(r)
  PROVE  /\ Written(r).kind = r.kind
         /\ r.kind = "CONTROL" => Written(r).fields = WrittenEnvelope(r.fields)
         /\ r.kind \in TrackKindsOfRecord => Written(r).fields = WrittenTrack(r.fields)
         /\ r.kind \in OverlayKinds => Written(r).fields = OverlayWritten(r.kind, r.fields)
         /\ r.kind \notin {"CONTROL"} \union TrackKindsOfRecord \union OverlayKinds =>
              Written(r).fields = r.fields
BY DEF Written, IsRecord, TrackKindsOfRecord, OverlayKinds

LEMMA KindsApart ==
  /\ FileDropKinds \intersect (ControlKinds \union SurfaceKinds \union OverlayKinds) = {}
  /\ ControlKinds \intersect (SurfaceKinds \union OverlayKinds) = {}
  /\ SurfaceKinds \intersect OverlayKinds = {}
  /\ TrackKindsOfRecord \intersect
       (FileDropKinds \union ControlKinds \union SurfaceKinds \union OverlayKinds) = {}
BY DEF FileDropKinds, ControlKinds, SurfaceKinds, OverlayKinds, TrackKindsOfRecord

\* The rules of one kind of record.
LEMMA RulesByKind ==
  ASSUME NEW r
  PROVE  /\ r.kind \in FileDropKinds =>
              /\ Decodes(r) <=> FileDropDecodes(r.kind, r.fields)
              /\ Encodes(r) <=> FileDropEncodes(r.kind, r.fields)
         /\ r.kind \in ControlKinds =>
              /\ Decodes(r) <=> ControlDecodes(r.kind, r.fields)
              /\ Encodes(r) <=> ControlEncodes(r.kind, r.fields)
         /\ r.kind \in SurfaceKinds =>
              /\ Decodes(r) <=> SurfaceDecodes(r.kind, r.fields)
              /\ Encodes(r) <=> SurfaceEncodes(r.kind, r.fields)
         /\ r.kind \in OverlayKinds =>
              /\ Decodes(r) <=> OverlayDecodes(r.kind, r.fields)
              /\ Encodes(r) <=> OverlayEncodes(r.kind, r.fields)
         /\ r.kind \notin FileDropKinds \union ControlKinds \union SurfaceKinds \union OverlayKinds =>
              /\ Decodes(r) <=> TrackDecodes(r.kind, r.fields)
              /\ Encodes(r) <=> TrackEncodes(r.kind, r.fields)
BY KindsApart DEF Decodes, Encodes

LEMMA DecodedEncodes ==
  ASSUME NEW r, r.kind # "OVERLAY_ENV_CHANGED", Decodes(r)
  PROVE  Encodes(r)
BY RulesByKind, FileDropEncodable, ControlEncodable, SurfaceEncodable, OverlayEncodable, TrackEncodable

LEMMA DecodedAgain ==
  ASSUME NEW r, IsRecord(r), Decodes(r)
  PROVE  Decodes(Written(r))
<1> DEFINE w == Written(r)
<1>1. "header" \in DOMAIN r.fields /\ w.kind = r.kind
  BY WrittenRecord DEF IsRecord
<1>2. CASE r.kind = "CONTROL"
  <2>1. r.kind \in ControlKinds /\ DecodesEnvelope(r.fields)
    BY <1>2, RulesByKind DEF ControlDecodes, ControlKinds
  <2>2. DecodesEnvelope(w.fields)
    BY <1>2, <2>1, WrittenRecord, EnvelopeAgain
  <2> QED BY <1>1, <1>2, <2>1, <2>2, RulesByKind DEF ControlDecodes
<1>3. CASE r.kind \in TrackKindsOfRecord
  <2>1. r.kind \notin FileDropKinds \union ControlKinds \union SurfaceKinds \union OverlayKinds
    BY <1>3, KindsApart
  <2>2. DecodesTrack(w.fields, r.kind = "PROBE_TRACK_CONFIG")
    BY <1>1, <1>3, <2>1, RulesByKind, WrittenRecord, TrackAgain DEF TrackDecodes
  <2> HIDE DEF w
  <2>3. Decodes(w)
    BY <1>1, <2>1, <2>2, RulesByKind DEF TrackDecodes
  <2> QED BY <2>3 DEF w
<1>4. CASE r.kind = "OVERLAY_INPUT_EVENT"
  <2>1. r.kind \in OverlayKinds /\ DecodesEvent(r.fields)
    BY <1>4, RulesByKind DEF OverlayDecodes, OverlayKinds
  <2>2. w.fields = WrittenEvent(r.fields)
    BY <1>4, <2>1, WrittenRecord DEF OverlayWritten
  <2>3. DecodesEvent(w.fields)
    BY <1>1, <2>1, <2>2, EventAgain
  <2> QED BY <1>1, <1>4, <2>1, <2>3, RulesByKind DEF OverlayDecodes
<1>5. CASE r.kind = "SET_OVERLAY_SEMANTICS"
  <2>1. r.kind \in OverlayKinds /\ DecodesSemantics(r.fields)
    BY <1>5, RulesByKind DEF OverlayDecodes, OverlayKinds
  <2>2. w.fields = WrittenSemantics(r.fields)
    BY <1>5, <2>1, WrittenRecord DEF OverlayWritten
  <2>3. DecodesSemantics(w.fields)
    BY <1>1, <2>1, <2>2, SemanticsAgain
  <2> QED BY <1>1, <1>5, <2>1, <2>3, RulesByKind DEF OverlayDecodes
<1>6. CASE r.kind \notin {"CONTROL", "OVERLAY_INPUT_EVENT", "SET_OVERLAY_SEMANTICS"} \union
                           TrackKindsOfRecord
  <2>1. w.fields = r.fields
    BY <1>6, WrittenRecord DEF OverlayWritten
  <2> QED BY <1>1, <2>1 DEF Decodes
<1> QED BY <1>2, <1>3, <1>4, <1>5, <1>6

\* What a decoder accepts, from whichever program, its own encoder writes again and it reads
\* back, whatever was changed, left out or added on the way: of the kinds exchanged only
\* OVERLAY_ENV_CHANGED is read with a revision that is not written (StrictMap, Envelope,
\* decode and payload).
THEOREM DecodedIsLossless ==
  ASSUME "OVERLAY_ENV_CHANGED" \notin Kinds
  PROVE  RecordSpec => []Lossless
<1>1. RecordShape => Lossless
  <2> SUFFICES ASSUME RecordShape, Decodes(record)
               PROVE  Encodes(Written(record)) /\ Decodes(Written(record))
    BY DEF Lossless
  <2>1. Decodes(Written(record))
    BY DecodedAgain DEF RecordShape
  <2>2. Written(record).kind # "OVERLAY_ENV_CHANGED"
    BY WrittenRecord DEF RecordShape
  <2> QED BY <2>1, <2>2, DecodedEncodes
<1> QED BY <1>1, RecordShapeAlways, PTL

(***************************************************************************)
(* What a schema says of a record it has read, and what it reads.          *)
(***************************************************************************)
LEMMA ReadKnown ==
  ASSUME NEW required, NEW optional, NEW p, ReadsWith(required, optional, p),
         "header" \notin DOMAIN required
  PROVE  /\ \A f \in DOMAIN required : f \in DOMAIN p /\ p[f] \in required[f]
         /\ DOMAIN p \subseteq DOMAIN required \union DOMAIN optional \union {"header"}
         /\ \A f \in DOMAIN p \ (DOMAIN required \union {"header"}) : p[f] \in optional[f]
BY DEF ReadsWith, ++

LEMMA ReadAll ==
  ASSUME NEW required, NEW p, Reads(required, p), "header" \notin DOMAIN required
  PROVE  /\ \A f \in DOMAIN required : f \in DOMAIN p /\ p[f] \in required[f]
         /\ DOMAIN p \subseteq DOMAIN required \union {"header"}
<1>1. DOMAIN <<>> = {}
  OBVIOUS
<1> QED BY <1>1, ReadKnown DEF Reads

LEMMA ReadsNamed ==
  ASSUME NEW required, NEW g, DOMAIN g = DOMAIN required \union {"header"},
         "header" \notin DOMAIN required,
         \A f \in DOMAIN required : g[f] \in required[f]
  PROVE  Reads(required, g)
BY DEF Reads, ReadsWith, ++

LEMMA SelectedAll ==
  ASSUME NEW p, NEW names \in SUBSET DOMAIN p
  PROVE  DOMAIN Select(p, names) = names /\ \A f \in names : Select(p, names)[f] = p[f]
<1>1. DOMAIN p \intersect names = names
  OBVIOUS
<1> QED BY <1>1, SelectedRecord

LEMMA ReadsEach ==
  ASSUME NEW required, NEW optional, NEW g, DOMAIN required \subseteq DOMAIN g,
         DOMAIN g \subseteq {"header"} \union DOMAIN required \union DOMAIN optional,
         \A f \in DOMAIN required : g[f] \in required[f],
         \A f \in (DOMAIN optional \intersect DOMAIN g) \ DOMAIN required : g[f] \in optional[f]
  PROVE  ReadsWith(required, optional, g)
BY DEF ReadsWith, ++

(***************************************************************************)
(* File drops: grants, offers, what answers them, and transfers.           *)
(***************************************************************************)
LEMMA TupleNames ==
  /\ DOMAIN TupleFields = {"producer_epoch", "grant_generation", "context_id", "surface_id",
          "surface_generation", "drop_id"}
  /\ \A f \in DOMAIN TupleFields : TupleFields[f] = U64
BY DEF TupleFields, Fields

LEMMA BindingNames ==
  /\ DOMAIN LimitFields = {"maximum_file_bytes", "maximum_pending_offers",
                           "maximum_active_transfers", "acceptance_timeout_us", "idle_timeout_us",
                           "maximum_record_body"}
  /\ DOMAIN BindingFields = {"producer_epoch", "context_id", "surface_id", "surface_generation",
                             "destination"} \union DOMAIN LimitFields
  /\ DOMAIN GrantFields = DOMAIN BindingFields \union {"grant_generation", "state", "reason"}
  /\ \A f \in DOMAIN BindingFields : GrantFields[f] = BindingFields[f]
  /\ \A f \in {"producer_epoch", "context_id", "surface_id", "surface_generation"} :
       BindingFields[f] = U64
  /\ GrantFields["grant_generation"] = U64 /\ GrantFields["reason"] = U64
  /\ GrantFields["state"] = BindingStates
BY DEF GrantFields, BindingFields, LimitFields, Limits, ++, Fields

LEMMA GrantsDecode ==
  ASSUME NEW p, DecodesBinding(p), NEW grant \in Grants(p)
  PROVE  DecodesGrant(Built("FILE_DROP_BOUND", p.surface_id, grant).fields)
<1> DEFINE g == Built("FILE_DROP_BOUND", p.surface_id, grant).fields
<1>1. /\ \A f \in DOMAIN BindingFields : f \in DOMAIN p /\ p[f] \in BindingFields[f]
      /\ DOMAIN p \subseteq DOMAIN BindingFields \union {"header"}
  BY ReadAll, BindingNames DEF DecodesBinding
<1>2. PICK generation \in 0..1, s \in 0..2 :
        /\ grant = p ++ [grant_generation |-> generation, state |-> s, reason |-> 0]
        /\ IF s = 0 THEN generation = 0 /\ p.destination = 0
           ELSE generation = 1 /\ p.destination # 0
  BY DEF Grants, BINDING_DISABLED, BINDING_ENABLED, BINDING_DENIED
<1>3. /\ DOMAIN g = DOMAIN GrantFields \union {"header"}
      /\ \A f \in DOMAIN BindingFields : g[f] = p[f]
      /\ g.grant_generation = generation /\ g.state = s /\ g.reason = 0 /\ g.header = p.surface_id
  BY <1>1, <1>2, BindingNames DEF Built, ++
<1> HIDE DEF g
<1>4. Reads(GrantFields, g)
  <2>1. \A f \in DOMAIN BindingFields : g[f] \in GrantFields[f]
    <3> SUFFICES ASSUME NEW f \in DOMAIN BindingFields
                 PROVE  g[f] \in GrantFields[f]
      OBVIOUS
    <3>1. g[f] = p[f] /\ p[f] \in BindingFields[f]
      BY <1>1, <1>3
    <3>2. GrantFields[f] = BindingFields[f]
      BY BindingNames
    <3> QED BY <3>1, <3>2
  <2>2. 0 \in U64 /\ 1 \in U64 /\ 0..2 \subseteq BindingStates
    BY DEF U64, BindingStates
  <2>3. /\ g["grant_generation"] \in GrantFields["grant_generation"]
        /\ g["state"] \in GrantFields["state"]
        /\ g["reason"] \in GrantFields["reason"]
    <3>1. generation \in U64 /\ s \in BindingStates
      BY <2>2
    <3>2. g["grant_generation"] = generation /\ g["state"] = s /\ g["reason"] = 0
      BY <1>3
    <3> QED BY <2>2, <3>1, <3>2, BindingNames
  <2>4. \A f \in DOMAIN GrantFields : g[f] \in GrantFields[f]
    <3>1. DOMAIN GrantFields = DOMAIN BindingFields
                               \union {"grant_generation", "state", "reason"}
      BY BindingNames
    <3> QED BY <2>1, <2>3, <3>1
  <2>5. "header" \notin DOMAIN GrantFields
    BY BindingNames
  <2> QED BY <1>3, <2>4, <2>5, ReadsNamed
<1>5. GrantValid(g)
  BY <1>2, <1>3, BindingNames DEF DecodesBinding, GrantValid, BindingValid, HeaderIs, Scoped, Same,
     BINDING_DISABLED, BindingLimits, AllLimits
<1> QED BY <1>4, <1>5 DEF DecodesGrant, g

LEMMA OfferNames ==
  /\ DOMAIN OfferFields = DOMAIN TupleFields \union {"suggested_name", "declared_length"}
  /\ \A f \in DOMAIN TupleFields \union {"declared_length"} : OfferFields[f] = U64
  /\ OfferFields["suggested_name"] = Text
BY TupleNames DEF OfferFields, ++

LEMMA OffersDecode ==
  ASSUME NEW p, DecodesGrant(p), p.state = BINDING_ENABLED, NEW r \in Offers(p)
  PROVE  r.kind = "FILE_DROP_OFFER" /\ DecodesOffer(r.fields)
<1> DEFINE id == Identity(p)
           g == r.fields
<1>1. PICK name \in Ordinary :
        r = Built("FILE_DROP_OFFER", 1,
                  id ++ [drop_id |-> 1, suggested_name |-> name, declared_length |-> 1])
  BY DEF Offers
<1>2. /\ \A f \in DOMAIN GrantFields : f \in DOMAIN p /\ p[f] \in GrantFields[f]
      /\ DOMAIN p \subseteq DOMAIN GrantFields \union {"header"}
  BY ReadAll, BindingNames DEF DecodesGrant
<1>3. /\ DOMAIN id = DOMAIN TupleFields \ {"drop_id"}
      /\ \A f \in DOMAIN id : id[f] = p[f] /\ p[f] \in U64
  <2>1. DOMAIN p \intersect DOMAIN TupleFields = DOMAIN TupleFields \ {"drop_id"}
    BY <1>2, BindingNames, TupleNames
  <2>2. DOMAIN id = DOMAIN TupleFields \ {"drop_id"} /\ \A f \in DOMAIN id : id[f] = p[f]
    BY <2>1, SelectedRecord DEF Identity
  <2> HIDE DEF id
  <2> QED BY <1>2, <2>2, BindingNames, TupleNames
<1> HIDE DEF id
<1>4. /\ DOMAIN g = DOMAIN OfferFields \union {"header"}
      /\ \A f \in DOMAIN id : g[f] = p[f]
      /\ g.header = 1 /\ g.drop_id = 1 /\ g.suggested_name = name /\ g.declared_length = 1
      /\ r.kind = "FILE_DROP_OFFER"
  BY <1>1, <1>3, OfferNames, TupleNames DEF Built, ++
<1> HIDE DEF g
<1>5. Reads(OfferFields, g)
  <2>1. \A f \in DOMAIN OfferFields : g[f] \in OfferFields[f]
    BY <1>3, <1>4, OfferNames, TupleNames DEF U64, Text, Ordinary
  <2>2. "header" \notin DOMAIN OfferFields
    BY OfferNames, TupleNames
  <2> QED BY <1>4, <2>1, <2>2, ReadsNamed
<1>6. TupleValid(g)
  BY <1>3, <1>4, TupleNames DEF TupleValid, NonzeroAll, Scoped, Same, DecodesGrant, GrantValid,
     BINDING_ENABLED, BINDING_DISABLED
<1> QED BY <1>4, <1>5, <1>6 DEF DecodesOffer, HeaderIs, SafeName, g

\* What follows an offer, or the acceptance of one, carries its tuple.
LEMMA TupleKept ==
  ASSUME NEW p, \A f \in DOMAIN TupleFields : f \in DOMAIN p /\ p[f] \in U64
  PROVE  /\ DOMAIN Identity(p) = DOMAIN TupleFields
         /\ \A f \in DOMAIN TupleFields : Identity(p)[f] = p[f]
<1>1. DOMAIN p \intersect DOMAIN TupleFields = DOMAIN TupleFields
  OBVIOUS
<1> QED BY <1>1, SelectedRecord DEF Identity

LEMMA TupleStaysValid ==
  ASSUME NEW p, NEW g, TupleValid(p), \A f \in DOMAIN TupleFields : g[f] = p[f]
  PROVE  TupleValid(g)
BY TupleNames DEF TupleValid, NonzeroAll, Scoped, Same

LEMMA AcceptNames ==
  /\ DOMAIN AcceptFields = DOMAIN TupleFields \union
       {"initial_maximum_body_bytes", "initial_maximum_records", "transfer_id",
        "transfer_generation", "maximum_record_body"}
  /\ \A f \in DOMAIN AcceptFields \ {"maximum_record_body"} : AcceptFields[f] = U64
  /\ AcceptFields["maximum_record_body"] = U32
BY TupleNames DEF AcceptFields, InitialCredit, Fields, ++

LEMMA CancelNames ==
  /\ DOMAIN CancelFields = DOMAIN TupleFields \union {"reason"}
  /\ \A f \in DOMAIN CancelFields : CancelFields[f] = U64
BY TupleNames DEF CancelFields, ++

LEMMA OfferAnswersDecode ==
  ASSUME NEW p, DecodesOffer(p)
  PROVE  /\ \A r \in Acceptances(p) : r.kind = "ACCEPT_FILE_DROP" /\ DecodesAccept(r.fields)
         /\ \A r \in Cancellations(p) : r.kind = "CANCEL_FILE_DROP" /\ DecodesCancel(r.fields)
<1> DEFINE id == Identity(p)
<1>1. \A f \in DOMAIN TupleFields : f \in DOMAIN p /\ p[f] \in U64
  BY ReadAll, OfferNames, TupleNames DEF DecodesOffer
<1>2. DOMAIN id = DOMAIN TupleFields /\ \A f \in DOMAIN TupleFields : id[f] = p[f]
  BY <1>1, TupleKept
<1> HIDE DEF id
<1>3. ASSUME NEW r \in Acceptances(p)
      PROVE  r.kind = "ACCEPT_FILE_DROP" /\ DecodesAccept(r.fields)
  <2> DEFINE g == r.fields
  <2>1. PICK n \in {0, 1} :
          r = Built("ACCEPT_FILE_DROP", p.drop_id,
                    id ++ [transfer_id |-> 1, transfer_generation |-> 1, maximum_record_body |-> 2,
                           initial_maximum_body_bytes |-> 2 * n, initial_maximum_records |-> n])
    BY <1>3 DEF Acceptances, id
  <2>2. /\ DOMAIN g = DOMAIN AcceptFields \union {"header"}
        /\ \A f \in DOMAIN TupleFields : g[f] = p[f]
        /\ g.header = p.drop_id /\ g.transfer_id = 1 /\ g.transfer_generation = 1
        /\ g.maximum_record_body = 2 /\ g.initial_maximum_body_bytes = 2 * n
        /\ g.initial_maximum_records = n /\ r.kind = "ACCEPT_FILE_DROP"
    BY <1>2, <2>1, AcceptNames, TupleNames DEF Built, ++
  <2> HIDE DEF g
  <2>3. Reads(AcceptFields, g)
    <3>1. \A f \in DOMAIN AcceptFields : g[f] \in AcceptFields[f]
      BY <1>1, <2>2, AcceptNames, TupleNames DEF U64, U32
    <3>2. "header" \notin DOMAIN AcceptFields
      BY AcceptNames, TupleNames
    <3> QED BY <2>2, <3>1, <3>2, ReadsNamed
  <2>4. TupleValid(g)
    BY <2>2, TupleStaysValid DEF DecodesOffer
  <2>5. EncodesAccept(g)
    BY <2>2, TupleNames DEF EncodesAccept, HeaderIs, Credit, BodyLimit, FILE_DATA_PREFIX, MAX_RECORD_BODY
  <2> QED BY <2>2, <2>3, <2>4, <2>5 DEF DecodesAccept, g
<1>4. ASSUME NEW r \in Cancellations(p)
      PROVE  r.kind = "CANCEL_FILE_DROP" /\ DecodesCancel(r.fields)
  <2> DEFINE g == r.fields
  <2>1. PICK reason \in CANCEL_REASONS :
          r = Built("CANCEL_FILE_DROP", p.drop_id, id ++ [reason |-> reason])
    BY <1>4 DEF Cancellations, id
  <2>2. /\ DOMAIN g = DOMAIN CancelFields \union {"header"}
        /\ \A f \in DOMAIN TupleFields : g[f] = p[f]
        /\ g.header = p.drop_id /\ g.reason = reason /\ r.kind = "CANCEL_FILE_DROP"
    BY <1>2, <2>1, CancelNames, TupleNames DEF Built, ++
  <2> HIDE DEF g
  <2>3. Reads(CancelFields, g)
    <3>1. reason \in U64
      BY DEF U64, CANCEL_REASONS
    <3>2. \A f \in DOMAIN CancelFields : g[f] \in CancelFields[f]
      BY <1>1, <2>2, <3>1, CancelNames
    <3>9. "header" \notin DOMAIN CancelFields
      BY CancelNames, TupleNames
    <3> QED BY <2>2, <3>2, <3>9, ReadsNamed
  <2>4. TupleValid(g)
    BY <2>2, TupleStaysValid DEF DecodesOffer
  <2> QED BY <2>2, <2>3, <2>4, TupleNames DEF DecodesCancel, HeaderIs, g
<1> QED BY <1>3, <1>4

LEMMA AcceptedNames ==
  /\ DOMAIN AcceptedFields = {"drop_id", "transfer_id", "transfer_generation", "open_timeout_us"}
  /\ \A f \in DOMAIN AcceptedFields : AcceptedFields[f] = U64
BY DEF AcceptedFields, Fields

LEMMA OpenNames ==
  /\ DOMAIN OpenFields = DOMAIN TupleFields \union
       {"session_id", "transfer_id", "transfer_generation", "resume_offset", "maximum_body_bytes",
        "maximum_records", "maximum_record_body", "client_nonce", "authentication_tag"}
  /\ \A f \in DOMAIN OpenFields \ {"maximum_record_body", "client_nonce", "authentication_tag"} :
       OpenFields[f] = U64
  /\ OpenFields["maximum_record_body"] = U32
  /\ OpenFields["client_nonce"] = Fixed /\ OpenFields["authentication_tag"] = Fixed
BY TupleNames DEF OpenFields, Fields, ++

\* A transfer opened with the tuple of an offer and credit for a record, or for none.
MayOpen(identity, p, offset, bytes, records) ==
  /\ DOMAIN identity = DOMAIN TupleFields /\ \A f \in DOMAIN identity : identity[f] \in U64
  /\ TupleValid(identity)
  /\ {"transfer_id", "transfer_generation", "maximum_record_body"} \subseteq DOMAIN p
  /\ p.transfer_id \in U64 \ {0} /\ p.transfer_generation \in U64 \ {0}
  /\ p.maximum_record_body \in U32 /\ Credit(p.maximum_record_body, bytes, records)
  /\ offset \in U64 /\ bytes \in U64 /\ records \in U64

LEMMA OpeningDecodes ==
  ASSUME NEW identity, NEW p, NEW offset, NEW bytes, NEW records,
         MayOpen(identity, p, offset, bytes, records)
  PROVE  /\ Opening(identity, p, offset, bytes, records).kind = "FILE_TRANSFER_OPEN"
         /\ DecodesOpen(Opening(identity, p, offset, bytes, records).fields)
<1> DEFINE r == Opening(identity, p, offset, bytes, records)
           g == r.fields
           chosen == Select(p, {"transfer_id", "transfer_generation", "maximum_record_body"})
<1>1. /\ DOMAIN chosen = {"transfer_id", "transfer_generation", "maximum_record_body"}
      /\ \A f \in DOMAIN chosen : chosen[f] = p[f]
  BY SelectedAll DEF MayOpen
<1> HIDE DEF chosen
<1>2. r = Built("FILE_TRANSFER_OPEN", 0,
                identity ++ chosen ++
                [session_id |-> 1, resume_offset |-> offset, maximum_body_bytes |-> bytes,
                 maximum_records |-> records, client_nonce |-> 1, authentication_tag |-> 1])
  BY DEF Opening, chosen
<1> HIDE DEF r
<1>3. /\ DOMAIN g = DOMAIN OpenFields \union {"header"}
      /\ \A f \in DOMAIN TupleFields : g[f] = identity[f]
      /\ \A f \in DOMAIN chosen : g[f] = p[f]
      /\ g.session_id = 1 /\ g.resume_offset = offset /\ g.maximum_body_bytes = bytes
      /\ g.maximum_records = records /\ g.client_nonce = 1 /\ g.authentication_tag = 1
      /\ r.kind = "FILE_TRANSFER_OPEN"
  BY <1>1, <1>2, OpenNames, TupleNames DEF Built, ++, MayOpen
<1> HIDE DEF g
<1>4. Reads(OpenFields, g)
  <2>1. \A f \in DOMAIN OpenFields : g[f] \in OpenFields[f]
    BY <1>1, <1>3, OpenNames, TupleNames DEF U64, Fixed, MayOpen
  <2>9. "header" \notin DOMAIN OpenFields
    BY OpenNames, TupleNames
  <2> QED BY <1>3, <2>1, <2>9, ReadsNamed
<1>5. TupleValid(g)
  BY <1>3, TupleStaysValid DEF MayOpen
<1>6. EncodesOpen(g)
  BY <1>1, <1>3, <1>5 DEF EncodesOpen, TupleValid, NonzeroAll, MayOpen
<1> QED BY <1>3, <1>4, <1>6 DEF DecodesOpen, g, r

LEMMA AcceptAnswersDecode ==
  ASSUME NEW p, DecodesAccept(p), NEW r \in AfterAccept(p)
  PROVE  \/ r.kind = "FILE_DROP_ACCEPTED" /\ DecodesAccepted(r.fields)
         \/ r.kind = "FILE_TRANSFER_OPEN" /\ DecodesOpen(r.fields)
<1>1. /\ \A f \in DOMAIN AcceptFields : f \in DOMAIN p
      /\ \A f \in DOMAIN AcceptFields \ {"maximum_record_body"} : p[f] \in U64
      /\ p.maximum_record_body \in U32
  BY ReadAll, AcceptNames, TupleNames DEF DecodesAccept
<1>2. CASE r = Opening(Identity(p), p, 0, p.initial_maximum_body_bytes, p.initial_maximum_records)
  <2>1. /\ DOMAIN Identity(p) = DOMAIN TupleFields
        /\ \A f \in DOMAIN TupleFields : Identity(p)[f] = p[f] /\ p[f] \in U64
    BY <1>1, AcceptNames, TupleNames, TupleKept
  <2>2. TupleValid(Identity(p))
    BY <2>1, TupleStaysValid DEF DecodesAccept
  <2>3. p.transfer_id \in U64 \ {0} /\ p.transfer_generation \in U64 \ {0}
    BY <1>1, AcceptNames DEF DecodesAccept, EncodesAccept
  <2>4. Credit(p.maximum_record_body, p.initial_maximum_body_bytes, p.initial_maximum_records)
    BY DEF DecodesAccept, EncodesAccept
  <2>5. p.initial_maximum_body_bytes \in U64 /\ p.initial_maximum_records \in U64 /\ 0 \in U64
    BY <1>1, AcceptNames DEF U64
  <2>6. {"transfer_id", "transfer_generation", "maximum_record_body"} \subseteq DOMAIN p
    BY <1>1, AcceptNames
  <2>7. MayOpen(Identity(p), p, 0, p.initial_maximum_body_bytes, p.initial_maximum_records)
    BY <1>1, <2>1, <2>2, <2>3, <2>4, <2>5, <2>6 DEF MayOpen
  <2> QED BY <1>2, <2>7, OpeningDecodes
<1>3. CASE r = Built("FILE_DROP_ACCEPTED", p.drop_id,
                     Select(p, {"drop_id", "transfer_id", "transfer_generation"}) ++
                     [open_timeout_us |-> 1])
  <2> DEFINE g == r.fields
             chosen == Select(p, {"drop_id", "transfer_id", "transfer_generation"})
  <2>1. /\ DOMAIN chosen = {"drop_id", "transfer_id", "transfer_generation"}
        /\ \A f \in DOMAIN chosen : chosen[f] = p[f] /\ p[f] \in U64
    BY <1>1, AcceptNames, TupleNames, SelectedAll
  <2> HIDE DEF chosen
  <2>2. /\ DOMAIN g = DOMAIN AcceptedFields \union {"header"}
        /\ \A f \in DOMAIN chosen : g[f] = p[f]
        /\ g.open_timeout_us = 1 /\ g.header = p.drop_id /\ r.kind = "FILE_DROP_ACCEPTED"
    BY <1>3, <2>1, AcceptedNames DEF Built, ++, chosen
  <2> HIDE DEF g
  <2>3. Reads(AcceptedFields, g)
    <3>1. \A f \in DOMAIN AcceptedFields : g[f] \in AcceptedFields[f]
      BY <2>1, <2>2, AcceptedNames DEF U64
    <3>2. "header" \notin DOMAIN AcceptedFields
      BY AcceptedNames
    <3> QED BY <2>2, <3>1, <3>2, ReadsNamed
  <2>4. DecodesAccepted(g)
    BY <2>1, <2>2, <2>3 DEF DecodesAccepted, DecodesAccept, EncodesAccept, TupleValid, NonzeroAll,
       HeaderIs, Deadlines
  <2> QED BY <2>2, <2>4 DEF g
<1> QED BY <1>2, <1>3 DEF AfterAccept

LEMMA AdvanceNames ==
  /\ DOMAIN AdvanceFields = {"context_id", "surface_id", "drop_id", "transfer_id",
                             "expected_generation", "new_generation", "committed_offset",
                             "maximum_body_bytes", "maximum_records"}
  /\ \A f \in DOMAIN AdvanceFields : AdvanceFields[f] = U64
  /\ DOMAIN AdvancedFields = {"transfer_id", "generation", "committed_offset", "open_timeout_us"}
  /\ \A f \in DOMAIN AdvancedFields : AdvancedFields[f] = U64
BY DEF AdvanceFields, AdvancedFields, Fields

LEMMA AdvanceAnswersDecode ==
  ASSUME NEW p, DecodesAdvance(p), NEW r \in AfterAdvance(p)
  PROVE  \/ r.kind = "FILE_TRANSFER_ADVANCED" /\ DecodesAdvanced(r.fields)
         \/ r.kind = "FILE_TRANSFER_OPEN" /\ DecodesOpen(r.fields)
<1> DEFINE reopened == [transfer_id |-> p.transfer_id, transfer_generation |-> p.new_generation,
                        maximum_record_body |-> 2]
           chosen == Select(p, {"context_id", "surface_id", "drop_id"})
           identity == chosen ++
                       [producer_epoch |-> 1, grant_generation |-> 1,
                        surface_generation |-> IF p.surface_id = 0 THEN 0 ELSE 1]
<1>1. \A f \in DOMAIN AdvanceFields : f \in DOMAIN p /\ p[f] \in U64
  BY ReadAll, AdvanceNames DEF DecodesAdvance
<1>2. /\ NonzeroAll(p, {"context_id", "drop_id", "transfer_id", "expected_generation"})
      /\ p.transfer_id \in U64 \ {0} /\ p.new_generation \in U64 \ {0}
  BY <1>1, AdvanceNames DEF DecodesAdvance, EncodesAdvance, NonzeroAll, U64, Widest
<1>3. CASE /\ r = Opening(identity, reopened, p.committed_offset, p.maximum_body_bytes,
                          p.maximum_records)
           /\ Credit(2, p.maximum_body_bytes, p.maximum_records)
  <2>1. /\ DOMAIN chosen = {"context_id", "surface_id", "drop_id"}
        /\ \A f \in DOMAIN chosen : chosen[f] = p[f] /\ p[f] \in U64
    BY <1>1, AdvanceNames, SelectedAll
  <2> HIDE DEF chosen
  <2>2. /\ DOMAIN identity = DOMAIN TupleFields
        /\ \A f \in DOMAIN chosen : identity[f] = p[f]
        /\ identity.producer_epoch = 1 /\ identity.grant_generation = 1
        /\ identity.surface_generation = IF p.surface_id = 0 THEN 0 ELSE 1
    BY <2>1, TupleNames DEF ++
  <2> HIDE DEF identity
  <2>3. \A f \in DOMAIN identity : identity[f] \in U64
    BY <2>1, <2>2, TupleNames DEF U64
  <2>4. TupleValid(identity)
    BY <1>2, <2>1, <2>2 DEF TupleValid, NonzeroAll, Scoped, Same
  <2>5. /\ {"transfer_id", "transfer_generation", "maximum_record_body"} \subseteq DOMAIN reopened
        /\ reopened.transfer_id \in U64 \ {0} /\ reopened.transfer_generation \in U64 \ {0}
        /\ reopened.maximum_record_body \in U32
        /\ Credit(reopened.maximum_record_body, p.maximum_body_bytes, p.maximum_records)
    BY <1>2, <1>3 DEF U32
  <2>6. p.committed_offset \in U64 /\ p.maximum_body_bytes \in U64 /\ p.maximum_records \in U64
    BY <1>1, AdvanceNames
  <2> HIDE DEF reopened
  <2>7. MayOpen(identity, reopened, p.committed_offset, p.maximum_body_bytes, p.maximum_records)
    BY <2>2, <2>3, <2>4, <2>5, <2>6 DEF MayOpen
  <2> QED BY <1>3, <2>7, OpeningDecodes
<1>4. CASE r = Built("FILE_TRANSFER_ADVANCED", p.transfer_id,
                     [transfer_id |-> p.transfer_id, generation |-> p.new_generation,
                      committed_offset |-> p.committed_offset, open_timeout_us |-> 1])
  <2> DEFINE g == r.fields
  <2>1. /\ DOMAIN g = DOMAIN AdvancedFields \union {"header"}
        /\ g.transfer_id = p.transfer_id /\ g.generation = p.new_generation
        /\ g.committed_offset = p.committed_offset /\ g.open_timeout_us = 1
        /\ g.header = p.transfer_id /\ r.kind = "FILE_TRANSFER_ADVANCED"
    BY <1>4, AdvanceNames DEF Built, ++
  <2> HIDE DEF g
  <2>2. Reads(AdvancedFields, g)
    <3>1. \A f \in DOMAIN AdvancedFields : g[f] \in AdvancedFields[f]
      BY <1>1, <2>1, AdvanceNames DEF U64
    <3>2. "header" \notin DOMAIN AdvancedFields
      BY AdvanceNames
    <3> QED BY <2>1, <3>1, <3>2, ReadsNamed
  <2>3. DecodesAdvanced(g)
    BY <1>2, <2>1, <2>2 DEF DecodesAdvanced, EncodesAdvanced, HeaderIs, Deadlines
  <2> QED BY <2>1, <2>3 DEF g
<1> QED BY <1>3, <1>4 DEF AfterAdvance

LEMMA TransferNames ==
  /\ DOMAIN MaximumFields = TransferIdentity \union {"maximum_body_bytes", "maximum_records"}
  /\ \A f \in DOMAIN MaximumFields : MaximumFields[f] = U64
  /\ DOMAIN FinishFields = TransferIdentity \union {"final_length", "sha256"}
  /\ \A f \in TransferIdentity \union {"final_length"} : FinishFields[f] = U64
  /\ FinishFields["sha256"] = Fixed
  /\ DOMAIN AbortFields = TransferIdentity \union {"reason", "final_offset"}
  /\ \A f \in DOMAIN AbortFields : AbortFields[f] = U64
  /\ TransferIdentity = {"transfer_id", "transfer_generation"}
BY DEF MaximumFields, FinishFields, AbortFields, TransferIdentity, Fields, ++

LEMMA OpenAnswersDecode ==
  ASSUME NEW p, DecodesOpen(p), NEW r \in AfterOpen(p)
  PROVE  r.kind \in FileDropKinds /\ FileDropDecodes(r.kind, r.fields)
<1> DEFINE identity == Select(p, TransferIdentity)
           g == r.fields
<1>1. /\ \A f \in TransferIdentity \union {"resume_offset", "maximum_body_bytes"} :
           f \in DOMAIN p /\ p[f] \in U64
      /\ NonzeroAll(p, TransferIdentity)
  BY ReadAll, OpenNames, TupleNames, TransferNames DEF DecodesOpen, EncodesOpen, NonzeroAll
<1>2. /\ DOMAIN identity = TransferIdentity
      /\ \A f \in TransferIdentity : identity[f] = p[f] /\ p[f] \in U64
  BY <1>1, SelectedAll
<1> HIDE DEF identity
<1>3. CASE r = Built("FILE_TRANSFER_ACCEPTED", 0, identity ++ [resume_offset |-> p.resume_offset])
  <2> DEFINE required == Fields(TransferIdentity \union {"resume_offset"}, U64)
  <2>1. /\ DOMAIN g = DOMAIN required \union {"header"}
        /\ \A f \in TransferIdentity : g[f] = p[f]
        /\ g.resume_offset = p.resume_offset /\ r.kind = "FILE_TRANSFER_ACCEPTED"
    BY <1>2, <1>3, TransferNames DEF Built, ++, Fields
  <2>2. Reads(required, g)
    <3>1. /\ DOMAIN required = TransferIdentity \union {"resume_offset"}
          /\ \A f \in DOMAIN required : g[f] \in required[f]
      BY <1>1, <2>1 DEF Fields
    <3> HIDE DEF required, g
    <3>9. "header" \notin DOMAIN required
      BY <3>1, TransferNames
    <3> QED BY <2>1, <3>1, <3>9, ReadsNamed
  <2>3. EncodesTransfer(g)
    BY <1>1, <2>1 DEF EncodesTransfer, NonzeroAll
  <2> QED BY <2>1, <2>2, <2>3 DEF FileDropDecodes, FileDropKinds, DecodesTransferAccepted
<1>4. CASE r = Built("FILE_FINISH", 0, identity ++ [final_length |-> p.resume_offset, sha256 |-> 1])
  <2>1. /\ DOMAIN g = DOMAIN FinishFields \union {"header"}
        /\ \A f \in TransferIdentity : g[f] = p[f]
        /\ g.final_length = p.resume_offset /\ g.sha256 = 1 /\ r.kind = "FILE_FINISH"
    BY <1>2, <1>4, TransferNames DEF Built, ++
  <2>2. Reads(FinishFields, g)
    <3>1. \A f \in DOMAIN FinishFields : g[f] \in FinishFields[f]
      BY <1>1, <2>1, TransferNames DEF Fixed
    <3> HIDE DEF g
    <3>9. "header" \notin DOMAIN FinishFields
      BY TransferNames
    <3> QED BY <2>1, <3>1, <3>9, ReadsNamed
  <2>3. EncodesTransfer(g)
    BY <1>1, <2>1 DEF EncodesTransfer, NonzeroAll
  <2> QED BY <2>1, <2>2, <2>3 DEF FileDropDecodes, FileDropKinds, DecodesFinish
<1>5. ASSUME NEW b \in U64, b > p.maximum_body_bytes,
             r = Built("MAX_FILE_DATA", 0,
                       identity ++ [maximum_body_bytes |-> b, maximum_records |-> Widest])
      PROVE  r.kind \in FileDropKinds /\ FileDropDecodes(r.kind, r.fields)
  <2>1. /\ DOMAIN g = DOMAIN MaximumFields \union {"header"}
        /\ \A f \in TransferIdentity : g[f] = p[f]
        /\ g.maximum_body_bytes = b /\ g.maximum_records = Widest /\ r.kind = "MAX_FILE_DATA"
    BY <1>2, <1>5, TransferNames DEF Built, ++
  <2>2. Reads(MaximumFields, g)
    <3>1. \A f \in DOMAIN MaximumFields : g[f] \in MaximumFields[f]
      BY <1>1, <2>1, TransferNames DEF U64
    <3> HIDE DEF g
    <3>9. "header" \notin DOMAIN MaximumFields
      BY TransferNames
    <3> QED BY <2>1, <3>1, <3>9, ReadsNamed
  <2>3. b # 0 /\ Widest # 0
    BY <1>1, <1>5 DEF U64, Widest
  <2>4. EncodesMaximum(g)
    BY <1>1, <2>1, <2>3 DEF EncodesMaximum, EncodesTransfer, NonzeroAll
  <2> QED BY <2>1, <2>2, <2>4 DEF FileDropDecodes, FileDropKinds, DecodesMaximum
<1>6. ASSUME NEW reason \in CANCEL_REASONS,
             r = Built("FILE_TRANSFER_ABORT", 0,
                       identity ++ [reason |-> reason, final_offset |-> p.resume_offset])
      PROVE  r.kind \in FileDropKinds /\ FileDropDecodes(r.kind, r.fields)
  <2>1. /\ DOMAIN g = DOMAIN AbortFields \union {"header"}
        /\ \A f \in TransferIdentity : g[f] = p[f]
        /\ g.reason = reason /\ g.final_offset = p.resume_offset /\ r.kind = "FILE_TRANSFER_ABORT"
    BY <1>2, <1>6, TransferNames DEF Built, ++
  <2>2. Reads(AbortFields, g)
    <3>1. reason \in U64
      BY DEF U64, CANCEL_REASONS
    <3>2. \A f \in DOMAIN AbortFields : g[f] \in AbortFields[f]
      BY <1>1, <2>1, <3>1, TransferNames
    <3> HIDE DEF g
    <3>9. "header" \notin DOMAIN AbortFields
      BY TransferNames
    <3> QED BY <2>1, <3>2, <3>9, ReadsNamed
  <2>3. EncodesAbort(g)
    BY <1>1, <2>1 DEF EncodesAbort, EncodesTransfer, NonzeroAll
  <2> QED BY <2>1, <2>2, <2>3 DEF FileDropDecodes, FileDropKinds, DecodesAbort
<1> QED BY <1>3, <1>4, <1>5, <1>6 DEF AfterOpen, identity

LEMMA ResultNames ==
  /\ DOMAIN ResultFields = TransferIdentity \union {"committed_length", "result", "final_name"}
  /\ \A f \in TransferIdentity \union {"committed_length"} : ResultFields[f] = U64
  /\ ResultFields["result"] = ResultCodes /\ ResultFields["final_name"] = Text
  /\ DOMAIN StatusFields = {"drop_id", "transfer_id", "generation", "committed_offset", "state",
                            "result", "final_name"}
  /\ \A f \in {"drop_id", "transfer_id", "generation", "committed_offset"} : StatusFields[f] = U64
  /\ StatusFields["state"] = DropStates /\ StatusFields["result"] = ResultCodes \union {NoResult}
  /\ StatusFields["final_name"] = Text
BY DEF ResultFields, StatusFields, TransferIdentity, Fields, ++

LEMMA FinishAnswersDecode ==
  ASSUME NEW p, DecodesFinish(p), NEW r \in AfterFinish(p)
  PROVE  r.kind = "FILE_RESULT" /\ DecodesResult(r.fields)
<1> DEFINE identity == Select(p, TransferIdentity)
           g == r.fields
<1>1. PICK result \in ResultCodes, name \in {Empty, 1}, path \in {<<>>, [committed_path |-> 1]} :
        /\ r = Built("FILE_RESULT", 0,
                     identity ++ path ++
                     [committed_length |-> p.final_length, result |-> result, final_name |-> name])
        /\ IF name = Empty THEN result \notin Successes /\ path = <<>> ELSE result \in Successes
  BY DEF AfterFinish, ResultCodes, Successes, Failures, CANCELLED_RESULT, COMMITTED_RESULT, Empty
<1>2. \A f \in TransferIdentity \union {"final_length"} : f \in DOMAIN p /\ p[f] \in U64
  BY ReadAll, TransferNames DEF DecodesFinish
<1>3. /\ DOMAIN identity = TransferIdentity
      /\ \A f \in TransferIdentity : identity[f] = p[f] /\ p[f] \in U64
  BY <1>2, SelectedAll
<1> HIDE DEF identity
<1>4. /\ DOMAIN path \subseteq {"committed_path"}
      /\ "committed_path" \in DOMAIN path => path["committed_path"] = 1 /\ name = 1
  BY <1>1 DEF Empty
<1>5. /\ DOMAIN g = DOMAIN ResultFields \union DOMAIN path \union {"header"}
      /\ \A f \in TransferIdentity : g[f] = p[f]
      /\ g.committed_length = p.final_length /\ g.result = result /\ g.final_name = name
      /\ "committed_path" \in DOMAIN path => g["committed_path"] = 1
      /\ r.kind = "FILE_RESULT"
  BY <1>1, <1>3, <1>4, ResultNames, TransferNames DEF Built, ++
<1> HIDE DEF g
<1>6. ReadsWith(ResultFields, [committed_path |-> Text], g)
  BY <1>2, <1>4, <1>5, ResultNames, TransferNames DEF ReadsWith, ++, Text, Empty
<1>7. EncodesTransfer(g)
  BY <1>5 DEF DecodesFinish, EncodesTransfer, NonzeroAll
<1>8. Has(g, "committed_path") => "committed_path" \in DOMAIN path
  BY <1>5, ResultNames, TransferNames DEF Has
<1>9. EncodesResult(g)
  BY <1>1, <1>4, <1>5, <1>7, <1>8 DEF EncodesResult, SafeName, CommittedPath, Ordinary, Empty
<1> QED BY <1>5, <1>6, <1>9 DEF DecodesResult, g

LEMMA StatusAnswersDecode ==
  ASSUME NEW p, NEW r,
         \/ DecodesResult(p) /\ r \in AfterResult(p)
         \/ DecodesQuery(p) /\ r \in AfterQuery(p)
  PROVE  r.kind = "FILE_DROP_STATUS" /\ DecodesStatus(r.fields)
<1> DEFINE g == r.fields
<1>1. CASE DecodesResult(p) /\ r \in AfterResult(p)
  <2>1. r = Built("FILE_DROP_STATUS", 1,
                  [drop_id |-> 1, state |-> EndedAs(p.result), transfer_id |-> p.transfer_id,
                   generation |-> p.transfer_generation, committed_offset |-> p.committed_length,
                   result |-> p.result, final_name |-> p.final_name])
    BY <1>1 DEF AfterResult
  <2>2. /\ p.transfer_id \in U64 /\ p.transfer_generation \in U64 /\ p.committed_length \in U64
        /\ p.result \in ResultCodes /\ p.final_name \in Text
    BY <1>1, ReadKnown, ResultNames, TransferNames DEF DecodesResult
  <2>3. /\ DOMAIN g = DOMAIN StatusFields \union {"header"}
        /\ g.drop_id = 1 /\ g.state = EndedAs(p.result) /\ g.transfer_id = p.transfer_id
        /\ g.generation = p.transfer_generation /\ g.committed_offset = p.committed_length
        /\ g.result = p.result /\ g.final_name = p.final_name /\ g.header = 1
        /\ r.kind = "FILE_DROP_STATUS"
    BY <2>1, ResultNames DEF Built, ++
  <2> HIDE DEF g
  <2>4. g.state \in DropStates /\ g.result \in ResultsOf(g.state)
    BY <2>2, <2>3 DEF EndedAs, DropStates, OFFERED, COMMITTED, CANCELLED, FAILED, ResultsOf, Successes,
       Failures, CANCELLED_RESULT, COMMITTED_RESULT, ResultCodes
  <2>5. Reads(StatusFields, g)
    <3>1. \A f \in DOMAIN StatusFields : g[f] \in StatusFields[f]
      BY <2>2, <2>3, <2>4, ResultNames DEF U64
    <3>9. "header" \notin DOMAIN StatusFields
      BY ResultNames
    <3> QED BY <2>3, <3>1, <3>9, ReadsNamed
  <2>6. g.transfer_id # 0 /\ g.generation # 0
    BY <1>1, <2>3 DEF DecodesResult, EncodesResult, EncodesTransfer, NonzeroAll, TransferIdentity
  <2>7. IF g.state = COMMITTED THEN SafeName(g.final_name) ELSE g.final_name = Empty
    BY <1>1, <2>3 DEF DecodesResult, EncodesResult, EndedAs, COMMITTED, CANCELLED, FAILED
  <2> QED BY <2>3, <2>4, <2>5, <2>6, <2>7 DEF DecodesStatus, EncodesStatus, HeaderIs, g
<1>2. CASE DecodesQuery(p) /\ r \in AfterQuery(p)
  <2>1. PICK s \in {OFFERED, ACCEPTED, TRANSFERRING} :
          r = Built("FILE_DROP_STATUS", p.drop_id,
                    [drop_id |-> p.drop_id, state |-> s, transfer_id |-> 1, generation |-> 1,
                     committed_offset |-> 0, result |-> NoResult, final_name |-> Empty])
    BY <1>2 DEF AfterQuery
  <2>2. p.drop_id \in U64 \ {0}
    <3>1. p.drop_id \in [drop_id |-> U64].drop_id
      BY <1>2, ReadAll DEF DecodesQuery
    <3> QED BY <1>2, <3>1 DEF DecodesQuery, EncodesQuery
  <2>3. /\ DOMAIN g = DOMAIN StatusFields \union {"header"}
        /\ g.drop_id = p.drop_id /\ g.state = s /\ g.transfer_id = 1 /\ g.generation = 1
        /\ g.committed_offset = 0 /\ g.result = NoResult /\ g.final_name = Empty
        /\ g.header = p.drop_id /\ r.kind = "FILE_DROP_STATUS"
    BY <2>1, ResultNames DEF Built, ++
  <2> HIDE DEF g
  <2>4. g.state \in DropStates /\ g.state \notin {COMMITTED, CANCELLED, FAILED}
    BY <2>3 DEF DropStates, OFFERED, ACCEPTED, TRANSFERRING, COMMITTED, CANCELLED, FAILED
  <2>5. Reads(StatusFields, g)
    <3>1. \A f \in DOMAIN StatusFields : g[f] \in StatusFields[f]
      BY <2>2, <2>3, <2>4, ResultNames DEF U64, Text, Empty
    <3>9. "header" \notin DOMAIN StatusFields
      BY ResultNames
    <3> QED BY <2>3, <3>1, <3>9, ReadsNamed
  <2> QED BY <2>2, <2>3, <2>4, <2>5 DEF DecodesStatus, EncodesStatus, HeaderIs, ResultsOf, g
<1> QED BY <1>1, <1>2

LEMMA FileDropOpeningsDecode ==
  ASSUME NEW r \in FileDropOpenings
  PROVE  r.kind \in FileDropKinds /\ FileDropDecodes(r.kind, r.fields)
<1> DEFINE g == r.fields
           Bound(epoch, s, to) == [producer_epoch |-> epoch, context_id |-> 1, surface_id |-> s,
                                  surface_generation |-> s, destination |-> to]
           Limited(n) == [f \in AllLimits |-> n]
           advance == [context_id |-> 1, surface_id |-> 1, drop_id |-> 1, transfer_id |-> 1,
                       expected_generation |-> 1, new_generation |-> 2, committed_offset |-> 1,
                       maximum_body_bytes |-> 2, maximum_records |-> 1]
<1>1. \/ \E epoch \in {1, 2}, s \in {0, 1}, to \in {0, 1}, n \in {0, 2} :
            /\ (to = 0 /\ n = 0) \/ (to = 1 /\ n = 2)
            /\ r = Built("SET_FILE_DROP_BINDING", s, Bound(epoch, s, to) ++ Limited(n))
      \/ r = Built("ADVANCE_FILE_TRANSFER", 1, advance)
      \/ r = Built("QUERY_FILE_DROP", 1, [drop_id |-> 1])
  BY DEF FileDropOpenings
<1> HIDE DEF g
<1>2. ASSUME NEW epoch \in {1, 2}, NEW s \in {0, 1}, NEW to \in {0, 1}, NEW n \in {0, 2},
             (to = 0 /\ n = 0) \/ (to = 1 /\ n = 2),
             r = Built("SET_FILE_DROP_BINDING", s, Bound(epoch, s, to) ++ Limited(n))
      PROVE  r.kind = "SET_FILE_DROP_BINDING" /\ DecodesBinding(g)
  <2> DEFINE names == {"producer_epoch", "context_id", "surface_id", "surface_generation",
                       "destination"}
             first == Bound(epoch, s, to)
             rest == Limited(n)
             body == first ++ rest
  <2>1. /\ DOMAIN first = names
        /\ first.producer_epoch = epoch /\ first.context_id = 1
        /\ first.surface_id = s /\ first.surface_generation = s
        /\ first.destination = to
    OBVIOUS
  <2>2. DOMAIN rest = AllLimits /\ \A f \in AllLimits : rest[f] = n
    OBVIOUS
  <2>0. r = Built("SET_FILE_DROP_BINDING", s, body)
    BY <1>2
  <2> HIDE DEF first, rest
  <2>3. AllLimits \intersect (names \union {"header"}) = {} /\ "header" \notin names
    BY BindingNames DEF AllLimits
  <2>4. /\ DOMAIN body = names \union AllLimits
        /\ \A f \in names : body[f] = first[f]
        /\ \A f \in AllLimits : body[f] = n
    BY <2>1, <2>2, <2>3 DEF ++
  <2> HIDE DEF body
  <2>5. r.kind = "SET_FILE_DROP_BINDING" /\ g = [header |-> s] ++ body
    BY <2>0 DEF Built, g
  <2>6. /\ DOMAIN g = {"header"} \union names \union AllLimits /\ g["header"] = s
        /\ \A f \in names \union AllLimits : g[f] = body[f]
    BY <2>3, <2>4, <2>5 DEF ++
  <2>7. /\ g.producer_epoch = epoch /\ g.context_id = 1 /\ g.surface_id = s
        /\ g.surface_generation = s /\ g.destination = to
        /\ \A f \in AllLimits : g[f] = n
    BY <2>1, <2>4, <2>6
  <2>8. \A f \in DOMAIN BindingFields : g[f] \in BindingFields[f]
    <3>1. 0..2 \subseteq U64 /\ 0..2 \subseteq U32 /\ to \in {0} \union Destinations
      BY DEF U64, U32, Destinations
    <3>2. BindingFields["destination"] = {0} \union Destinations
      BY DEF BindingFields, Fields, ++
    <3>3. \A f \in AllLimits : BindingFields[f] \in {U64, U32}
      BY DEF BindingFields, AllLimits, LimitFields, Limits, Fields, ++
    <3> QED BY <2>7, <3>1, <3>2, <3>3, BindingNames DEF AllLimits
  <2>9. Reads(BindingFields, g)
    <3>1. DOMAIN BindingFields = names \union AllLimits
      BY BindingNames DEF AllLimits
    <3>2. "header" \notin DOMAIN BindingFields
      BY <2>3, <3>1
    <3>3. DOMAIN g = DOMAIN BindingFields \union {"header"}
      BY <2>6, <3>1
    <3> HIDE DEF names
    <3> QED BY <2>8, <3>2, <3>3, ReadsNamed
  <2>10. BindingValid(g)
    <3>1. to = 1 => g.maximum_file_bytes # 0 /\ BindingLimits(g)
      BY <1>2, <2>7, BindingNames
         DEF AllLimits, BindingLimits, BodyLimit, Deadlines, FILE_DATA_PREFIX, MAX_PENDING,
             MAX_ACTIVE, MAX_RECORD_BODY
    <3> QED BY <1>2, <2>6, <2>7, <3>1 DEF BindingValid, HeaderIs, Scoped, Same
  <2> QED BY <2>5, <2>9, <2>10 DEF DecodesBinding
<1>3. ASSUME r = Built("ADVANCE_FILE_TRANSFER", 1, advance)
      PROVE  r.kind = "ADVANCE_FILE_TRANSFER" /\ DecodesAdvance(g)
  <2> DEFINE names == {"context_id", "surface_id", "drop_id", "transfer_id", "expected_generation",
                       "new_generation", "committed_offset", "maximum_body_bytes",
                       "maximum_records"}
  <2>1. r.kind = "ADVANCE_FILE_TRANSFER" /\ g = [header |-> 1] ++ advance
    BY <1>3 DEF Built, g
  <2>2. DOMAIN g = {"header"} \union names /\ g["header"] = 1
    BY <2>1 DEF ++
  <2>3. /\ g.context_id = 1 /\ g.surface_id = 1 /\ g.drop_id = 1 /\ g.transfer_id = 1
        /\ g.expected_generation = 1 /\ g.new_generation = 2 /\ g.committed_offset = 1
        /\ g.maximum_body_bytes = 2 /\ g.maximum_records = 1
    BY <2>1 DEF ++
  <2>4. DOMAIN AdvanceFields = names /\ \A f \in names : AdvanceFields[f] = U64
    BY DEF AdvanceFields, Fields
  <2>5. \A f \in names : g[f] \in U64
    BY <2>3 DEF U64
  <2>6. Reads(AdvanceFields, g)
    <3>1. "header" \notin DOMAIN AdvanceFields /\ DOMAIN g = DOMAIN AdvanceFields \union {"header"}
      BY <2>2, <2>4
    <3>2. \A f \in DOMAIN AdvanceFields : g[f] \in AdvanceFields[f]
      BY <2>4, <2>5
    <3> QED BY <3>1, <3>2, ReadsNamed
  <2>7. EncodesAdvance(g)
    BY <2>2, <2>3 DEF EncodesAdvance, HeaderIs, NonzeroAll, Same, Widest
  <2> QED BY <2>1, <2>6, <2>7 DEF DecodesAdvance
<1>4. ASSUME r = Built("QUERY_FILE_DROP", 1, [drop_id |-> 1])
      PROVE  r.kind = "QUERY_FILE_DROP" /\ DecodesQuery(g)
  <2>1. r.kind = "QUERY_FILE_DROP" /\ g = [header |-> 1] ++ [drop_id |-> 1]
    BY <1>4 DEF Built, g
  <2>2. DOMAIN g = {"header", "drop_id"} /\ g["header"] = 1 /\ g["drop_id"] = 1
    BY <2>1 DEF ++
  <2> DEFINE types == [drop_id |-> U64]
  <2>3. DOMAIN types = {"drop_id"} /\ types["drop_id"] = U64
    OBVIOUS
  <2> HIDE DEF types
  <2>4. Reads(types, g)
    <3>1. /\ "header" \notin DOMAIN types /\ DOMAIN g = DOMAIN types \union {"header"}
          /\ \A f \in DOMAIN types : g[f] \in types[f]
      BY <2>2, <2>3 DEF U64
    <3> QED BY <3>1, ReadsNamed
  <2> QED BY <2>1, <2>2, <2>4 DEF DecodesQuery, EncodesQuery, HeaderIs, types
<1>5. \/ r.kind = "SET_FILE_DROP_BINDING" /\ DecodesBinding(g)
      \/ r.kind = "ADVANCE_FILE_TRANSFER" /\ DecodesAdvance(g)
      \/ r.kind = "QUERY_FILE_DROP" /\ DecodesQuery(g)
  BY <1>1, <1>2, <1>3, <1>4
<1> QED BY <1>5 DEF FileDropKinds, FileDropDecodes, g

LEMMA FileDropAnswersDecode ==
  ASSUME NEW kind \in FileDropKinds, NEW p, FileDropDecodes(kind, p), NEW r \in FileDropAnswers(kind, p)
  PROVE  r.kind \in FileDropKinds /\ FileDropDecodes(r.kind, r.fields)
<1>1. CASE kind = "SET_FILE_DROP_BINDING"
  <2>1. PICK grant \in Grants(p) : r = Built("FILE_DROP_BOUND", p.surface_id, grant)
    BY <1>1 DEF FileDropAnswers
  <2>2. DecodesGrant(r.fields) /\ r.kind = "FILE_DROP_BOUND"
    BY <1>1, <2>1, GrantsDecode, BuiltIsRecord DEF FileDropDecodes
  <2> QED BY <2>2 DEF FileDropDecodes, FileDropKinds
<1>2. CASE kind = "FILE_DROP_BOUND"
  <2>1. r.kind = "FILE_DROP_OFFER" /\ DecodesOffer(r.fields)
    BY <1>2, OffersDecode DEF FileDropAnswers, FileDropDecodes
  <2> QED BY <2>1 DEF FileDropDecodes, FileDropKinds
<1>3. CASE kind = "FILE_DROP_OFFER"
  <2>1. \/ r.kind = "ACCEPT_FILE_DROP" /\ DecodesAccept(r.fields)
        \/ r.kind = "CANCEL_FILE_DROP" /\ DecodesCancel(r.fields)
    BY <1>3, OfferAnswersDecode DEF FileDropAnswers, FileDropDecodes
  <2> QED BY <2>1 DEF FileDropDecodes, FileDropKinds
<1>4. CASE kind = "ACCEPT_FILE_DROP"
  <2>1. \/ r.kind = "FILE_DROP_ACCEPTED" /\ DecodesAccepted(r.fields)
        \/ r.kind = "FILE_TRANSFER_OPEN" /\ DecodesOpen(r.fields)
    BY <1>4, AcceptAnswersDecode DEF FileDropAnswers, FileDropDecodes
  <2> QED BY <2>1 DEF FileDropDecodes, FileDropKinds
<1>5. CASE kind = "ADVANCE_FILE_TRANSFER"
  <2>1. \/ r.kind = "FILE_TRANSFER_ADVANCED" /\ DecodesAdvanced(r.fields)
        \/ r.kind = "FILE_TRANSFER_OPEN" /\ DecodesOpen(r.fields)
    BY <1>5, AdvanceAnswersDecode DEF FileDropAnswers, FileDropDecodes
  <2> QED BY <2>1 DEF FileDropDecodes, FileDropKinds
<1>6. CASE kind = "FILE_TRANSFER_OPEN"
  BY <1>6, OpenAnswersDecode DEF FileDropAnswers, FileDropDecodes
<1>7. CASE kind = "FILE_FINISH"
  <2>1. r.kind = "FILE_RESULT" /\ DecodesResult(r.fields)
    BY <1>7, FinishAnswersDecode DEF FileDropAnswers, FileDropDecodes
  <2> QED BY <2>1 DEF FileDropDecodes, FileDropKinds
<1>8. CASE kind \in {"FILE_RESULT", "QUERY_FILE_DROP"}
  <2>1. r.kind = "FILE_DROP_STATUS" /\ DecodesStatus(r.fields)
    BY <1>8, StatusAnswersDecode DEF FileDropAnswers, FileDropDecodes
  <2> QED BY <2>1 DEF FileDropDecodes, FileDropKinds
<1> QED BY <1>1, <1>2, <1>3, <1>4, <1>5, <1>6, <1>7, <1>8 DEF FileDropAnswers

(***************************************************************************)
(* Control: what follows a HELLO, a WELCOME and the refusals.              *)
(***************************************************************************)
LEMMA ErrorsDecode ==
  ASSUME NEW id \in U64, NEW r \in Errors(id)
  PROVE  r.kind = "ERROR" /\ DecodesError(r.fields)
<1> DEFINE error(c, result) ==
             Built("ERROR", 0,
                   [envelope_id |-> id, request_id |-> id, code |-> c,
                    fatal |-> 0, diagnostic |-> Empty, detail_idempotent_result |-> result])
<1>1. r \in {error(c, result) : c \in RegisteredErrors, result \in 0..2}
  BY DEF Errors
<1>2. ASSUME NEW c \in RegisteredErrors, NEW result \in 0..2
      PROVE  error(c, result).kind = "ERROR" /\ DecodesError(error(c, result).fields)
  <2> DEFINE g == error(c, result).fields
  <2>1. /\ DOMAIN g = {"header", "envelope_id", "request_id", "code", "fatal", "diagnostic",
                       "detail_idempotent_result"}
        /\ g.envelope_id = id /\ g.request_id = id /\ g.code = c /\ g.fatal = 0
        /\ g.diagnostic = Empty /\ g.detail_idempotent_result = result
        /\ error(c, result).kind = "ERROR"
    BY DEF Built, ++
  <2> HIDE DEF g
  <2>2. ReadsWith(ErrorFields, DetailFields, g)
    BY <2>1 DEF ReadsWith, ErrorFields, DetailFields, Fields, ++, U64, Bool, Text, Empty,
       RegisteredErrors
  <2>3. EncodesError(g)
    BY <2>1 DEF EncodesError, DetailValid, Has, Empty, TooLong
  <2> QED BY <2>1, <2>2, <2>3 DEF DecodesError, g
<1> HIDE DEF error
<1> QED BY <1>1, <1>2

LEMMA ListNames ==
  /\ DOMAIN ProfileLists = 0..6
  /\ ProfileLists[0] = {} /\ ProfileLists[1] = {"core", "terminal"}
  /\ ProfileLists[2] = {"core", "terminal", "live", "vector"} /\ ProfileLists[3] = {"vector"}
  /\ ProfileLists[4] = {"future"} /\ ProfileLists[5] = {"live"}
  /\ ProfileLists[6] = {"core", "terminal", "live"}
BY DEF ProfileLists

\* What a valid HELLO offers is, of the profiles that are known, one of three lists.
LEMMA AcceptedIsListed ==
  ASSUME NEW p, HelloValid(p)
  PROVE  /\ AcceptedList(p) \in {1, 2, 6} /\ p.target_profile = 1
<1> DEFINE required == ProfileLists[p.required_profiles]
           optional == ProfileLists[p.optional_profiles]
           offered == required \union optional
<1>1. /\ p.required_profiles \in 0..6 /\ p.optional_profiles \in 0..6
      /\ required \intersect optional = {} /\ required \subseteq KnownProfiles
      /\ "core" \in required /\ p.target_profile \in DOMAIN TargetProfiles
      /\ TargetProfiles[p.target_profile] \in required
      /\ "vector" \in offered => "live" \in offered
  BY ListNames DEF HelloValid, SortedList, NamesTarget, ClosedWithin, Prerequisites, KnownProfiles
<1>2. p.required_profiles \in {1, 2, 6}
  BY <1>1, ListNames
<1>3. p.target_profile = 1
  <2>1. "desktop" \notin required
    BY <1>2, ListNames
  <2> QED BY <1>1, <2>1 DEF TargetProfiles
<1>4. \E code \in {1, 2, 6} : ProfileLists[code] = offered \intersect KnownProfiles
  <2>1. CASE p.required_profiles = 1
    <3>1. p.optional_profiles \in {0, 4, 5}
      BY <1>1, <2>1, ListNames
    <3>2. p.optional_profiles \in {0, 4} => offered \intersect KnownProfiles = ProfileLists[1]
      BY <2>1, ListNames DEF KnownProfiles
    <3>3. p.optional_profiles = 5 => offered \intersect KnownProfiles = ProfileLists[6]
      BY <2>1, ListNames DEF KnownProfiles
    <3> QED BY <3>1, <3>2, <3>3
  <2>2. CASE p.required_profiles = 2
    <3>1. p.optional_profiles \in {0, 4}
      BY <1>1, <2>2, ListNames
    <3>2. offered \intersect KnownProfiles = ProfileLists[2]
      BY <2>2, <3>1, ListNames DEF KnownProfiles
    <3> QED BY <3>2
  <2>3. CASE p.required_profiles = 6
    <3>1. p.optional_profiles \in {0, 3, 4}
      BY <1>1, <2>3, ListNames
    <3>2. p.optional_profiles \in {0, 4} => offered \intersect KnownProfiles = ProfileLists[6]
      BY <2>3, ListNames DEF KnownProfiles
    <3>3. p.optional_profiles = 3 => offered \intersect KnownProfiles = ProfileLists[2]
      BY <2>3, ListNames DEF KnownProfiles
    <3> QED BY <3>1, <3>2, <3>3
  <2> QED BY <1>2, <2>1, <2>2, <2>3
<1>5. /\ AcceptedList(p) \in DOMAIN ProfileLists
      /\ ProfileLists[AcceptedList(p)] = offered \intersect KnownProfiles
  BY <1>4, ListNames DEF AcceptedList
<1>6. "core" \in ProfileLists[AcceptedList(p)]
  BY <1>1, <1>5 DEF KnownProfiles
<1> QED BY <1>3, <1>5, <1>6, ListNames

HelloNames == {"producer_name", "producer_version", "required_profiles", "optional_profiles",
               "request_id", "maximum_control_body", "client_nonce", "auth_kind", "target_profile"}

LEMMA HelloTypes ==
  /\ DOMAIN HelloFields = HelloNames
  /\ HelloFields["producer_name"] = Text /\ HelloFields["producer_version"] = Text
  /\ HelloFields["required_profiles"] = ListCodes /\ HelloFields["optional_profiles"] = ListCodes
  /\ HelloFields["request_id"] = U64 /\ HelloFields["maximum_control_body"] = U32
  /\ HelloFields["client_nonce"] = Fixed /\ HelloFields["auth_kind"] = U64
  /\ HelloFields["target_profile"] = Text
BY DEF HelloFields, HelloNames, Fields, ++

WelcomeNumbers ==
  {"request_id", "session_id", "root_context_id", "target_generation", "auth_kind", "lease_state",
   "activation_attempt_status", "session_revision", "scene_revision", "establishment_state",
   "resume_generation"}
WelcomeBytes == {"session_tag", "server_nonce", "confirmation", "resource_contract"}

LEMMA WelcomeTypes ==
  /\ DOMAIN WelcomeFields = WelcomeNumbers \union WelcomeBytes \union
       {"target_profile", "target_descriptor", "accepted_profiles", "maximum_control_body"}
  /\ \A f \in WelcomeNumbers : WelcomeFields[f] = U64
  /\ \A f \in WelcomeBytes : WelcomeFields[f] = Fixed
  /\ WelcomeFields["target_profile"] = Text /\ WelcomeFields["target_descriptor"] = Map
  /\ WelcomeFields["accepted_profiles"] = ListCodes
  /\ WelcomeFields["maximum_control_body"] = U32
BY DEF WelcomeFields, WelcomeNumbers, WelcomeBytes, Fields, ++

LEMMA AuthTypes ==
  /\ AuthFields(ROOT) = [auth_proof |-> Fixed]
  /\ DOMAIN AuthFields(LEASE_ACTIVATION) =
       {"auth_context_id", "auth_lease_id", "auth_activation_secret", "auth_attempt_id"}
  /\ DOMAIN AuthFields(RESUME) =
       {"auth_context_id", "auth_lease_id", "auth_session_id", "auth_resume_generation",
        "auth_attempt_id", "auth_proof"}
  /\ \A f \in {"auth_context_id", "auth_lease_id", "auth_session_id", "auth_resume_generation"} :
       AuthFields(RESUME)[f] = U64
  /\ \A f \in {"auth_attempt_id", "auth_proof"} : AuthFields(RESUME)[f] = Fixed
  /\ DOMAIN AuthOptions(ROOT) = {} /\ DOMAIN AuthOptions(RESUME) = {}
  /\ DOMAIN AuthOptions(LEASE_ACTIVATION) = {"auth_proof_of_possession"}
  /\ AuthKeys = {"auth_proof", "auth_context_id", "auth_lease_id", "auth_activation_secret",
                 "auth_attempt_id", "auth_session_id", "auth_resume_generation",
                 "auth_proof_of_possession"}
<1>1. ROOT # LEASE_ACTIVATION /\ ROOT # RESUME /\ LEASE_ACTIVATION # RESUME
  BY DEF ROOT, LEASE_ACTIVATION, RESUME
<1>2. /\ AuthFields(ROOT) = [auth_proof |-> Fixed]
      /\ DOMAIN AuthFields(LEASE_ACTIVATION) =
           {"auth_context_id", "auth_lease_id", "auth_activation_secret", "auth_attempt_id"}
      /\ DOMAIN AuthFields(RESUME) =
           {"auth_context_id", "auth_lease_id", "auth_session_id", "auth_resume_generation",
            "auth_attempt_id", "auth_proof"}
  BY DEF AuthFields, ROOT, LEASE_ACTIVATION, RESUME, Fields, ++
<1>3. /\ DOMAIN AuthOptions(ROOT) = {} /\ DOMAIN AuthOptions(RESUME) = {}
      /\ DOMAIN AuthOptions(LEASE_ACTIVATION) = {"auth_proof_of_possession"}
  BY <1>1 DEF AuthOptions
<1>4. /\ \A f \in {"auth_context_id", "auth_lease_id", "auth_session_id", "auth_resume_generation"} :
           AuthFields(RESUME)[f] = U64
      /\ \A f \in {"auth_attempt_id", "auth_proof"} : AuthFields(RESUME)[f] = Fixed
  BY DEF AuthFields, ROOT, LEASE_ACTIVATION, RESUME, Fields, ++
<1>5. DOMAIN AuthFields(ROOT) = {"auth_proof"}
  BY <1>2
<1>6. AuthKeys = (DOMAIN AuthFields(ROOT) \union DOMAIN AuthOptions(ROOT)) \union
                 (DOMAIN AuthFields(LEASE_ACTIVATION) \union DOMAIN AuthOptions(LEASE_ACTIVATION)) \union
                 (DOMAIN AuthFields(RESUME) \union DOMAIN AuthOptions(RESUME))
  BY DEF AuthKeys
<1> QED BY <1>2, <1>3, <1>4, <1>5, <1>6

\* A resumption names its generation; nothing else does.
LEMMA GenerationOfResume ==
  ASSUME NEW p, DecodesAuth(p)
  PROVE  /\ Has(p, "auth_resume_generation") <=> p.auth_kind = RESUME
         /\ Get(p, "auth_resume_generation", 0) \in U64
<1> DEFINE chosen == Select(p, AuthKeys)
<1>1. /\ DOMAIN chosen = DOMAIN p \intersect AuthKeys
      /\ \A f \in DOMAIN chosen : chosen[f] = p[f]
  BY SelectedRecord
<1> HIDE DEF chosen
<1>2. /\ p.auth_kind \in {ROOT, LEASE_ACTIVATION, RESUME}
      /\ ReadsWith(AuthFields(p.auth_kind), AuthOptions(p.auth_kind), chosen)
  BY DEF DecodesAuth, chosen
<1>3. "auth_resume_generation" \in AuthKeys
  BY AuthTypes
<1>4. Has(p, "auth_resume_generation") <=> "auth_resume_generation" \in DOMAIN chosen
  BY <1>1, <1>3 DEF Has
<1>5. CASE p.auth_kind = RESUME
  <2>1. "auth_resume_generation" \in DOMAIN chosen /\ chosen["auth_resume_generation"] \in U64
    <3>1. "auth_resume_generation" \in DOMAIN AuthFields(RESUME) /\ "header" \notin DOMAIN AuthFields(RESUME)
      BY AuthTypes
    <3>2. AuthFields(RESUME)["auth_resume_generation"] = U64
      BY AuthTypes
    <3> QED BY <1>2, <1>5, <3>1, <3>2, ReadKnown
  <2> QED BY <1>1, <1>4, <1>5, <2>1 DEF Get, Has
<1>6. CASE p.auth_kind \in {ROOT, LEASE_ACTIVATION}
  <2>1. "auth_resume_generation" \notin
          DOMAIN AuthFields(p.auth_kind) \union DOMAIN AuthOptions(p.auth_kind)
    <3>1. DOMAIN AuthFields(ROOT) = {"auth_proof"}
      BY AuthTypes
    <3> QED BY <1>6, <3>1, AuthTypes
  <2>2. "auth_resume_generation" \notin DOMAIN chosen
    BY <1>2, <2>1 DEF ReadsWith, ++
  <2> QED BY <1>4, <1>6, <2>2 DEF Get, Has, ROOT, LEASE_ACTIVATION, RESUME, U64
<1> QED BY <1>2, <1>5, <1>6

LEMMA WelcomesDecode ==
  ASSUME NEW p, DecodesHello(p), NEW r \in Welcomes(p)
  PROVE  r.kind = "WELCOME" /\ DecodesWelcome(r.fields)
<1> DEFINE code == AcceptedList(p)
           limits == IF "vector" \in ProfileLists[code] THEN [vector_limits |-> 1] ELSE <<>>
           ones == {"session_id", "root_context_id", "target_generation", "session_tag",
                    "server_nonce", "confirmation", "resource_contract", "target_descriptor",
                    "session_revision", "scene_revision", "maximum_control_body"}
           names == {"request_id", "target_profile", "auth_kind"}
           chosen == Select(p, names)
           rest == Fields(ones, 1)
           generation == Get(p, "auth_resume_generation", 0)
           last(status) ==
             [accepted_profiles |-> code, lease_state |-> IF p.auth_kind = ROOT THEN 0 ELSE 1,
              activation_attempt_status |-> status,
              establishment_state |-> IF p.auth_kind = RESUME THEN 1 ELSE 0,
              resume_generation |-> generation]
           lasts == {"accepted_profiles", "lease_state", "activation_attempt_status",
                     "establishment_state", "resume_generation"}
           g == r.fields
<1>1. PICK status \in {0, 1} :
        r = Built("WELCOME", 0, chosen ++ limits ++ rest ++ last(status))
  BY DEF Welcomes
<1>2. /\ names \subseteq DOMAIN p /\ p.request_id \in U64 \ {0} /\ p.target_profile = 1
      /\ p.auth_kind \in {ROOT, LEASE_ACTIVATION, RESUME} /\ generation \in U64
      /\ p.auth_kind # RESUME => generation = 0
      /\ code \in {1, 2, 6}
  <2>1. names \subseteq DOMAIN p /\ p.request_id \in U64
    BY HelloTypes DEF DecodesHello, ReadsPreserving, HelloNames
  <2>2. p.request_id # 0 /\ HelloValid(p) /\ DecodesAuth(p)
    BY DEF DecodesHello, IsRequest
  <2>3. p.auth_kind # RESUME => generation = 0
    BY <2>2, GenerationOfResume DEF Get, Has
  <2> QED BY <2>1, <2>2, <2>3, AcceptedIsListed, GenerationOfResume DEF DecodesAuth
<1> HIDE DEF code, generation
<1>3. /\ DOMAIN chosen = names /\ \A f \in names : chosen[f] = p[f]
  BY <1>2, SelectedAll
<1>4. DOMAIN limits = IF "vector" \in ProfileLists[code] THEN {"vector_limits"} ELSE {}
  OBVIOUS
<1>5. "vector_limits" \in DOMAIN limits => limits["vector_limits"] = 1
  OBVIOUS
<1>6. DOMAIN rest = ones /\ \A f \in ones : rest[f] = 1
  BY DEF Fields
<1>11. /\ DOMAIN last(status) = lasts
       /\ last(status).accepted_profiles = code
       /\ last(status).lease_state = (IF p.auth_kind = ROOT THEN 0 ELSE 1)
       /\ last(status).activation_attempt_status = status
       /\ last(status).establishment_state = (IF p.auth_kind = RESUME THEN 1 ELSE 0)
       /\ last(status).resume_generation = generation
  OBVIOUS
<1> HIDE DEF chosen, limits, rest, last
<1>12. /\ DOMAIN g = {"header"} \union names \union DOMAIN limits \union ones \union lasts
       /\ \A f \in names : g[f] = chosen[f]
       /\ \A f \in DOMAIN limits : g[f] = limits[f]
       /\ \A f \in ones : g[f] = rest[f]
       /\ \A f \in lasts : g[f] = last(status)[f]
       /\ r.kind = "WELCOME"
  <2>1. g = [header |-> 0] ++ (chosen ++ limits ++ rest ++ last(status)) /\ r.kind = "WELCOME"
    BY <1>1 DEF Built
  <2> HIDE DEF g
  <2> QED BY <1>3, <1>4, <1>6, <1>11, <2>1 DEF ++
<1> HIDE DEF g
<1>7. /\ \A f \in names : g[f] = p[f]
      /\ \A f \in ones : g[f] = 1
      /\ "vector_limits" \in DOMAIN limits => g["vector_limits"] = 1
      /\ g.accepted_profiles = code /\ g.lease_state = (IF p.auth_kind = ROOT THEN 0 ELSE 1)
      /\ g.activation_attempt_status = status
      /\ g.establishment_state = (IF p.auth_kind = RESUME THEN 1 ELSE 0)
      /\ g.resume_generation = generation
  BY <1>3, <1>5, <1>6, <1>11, <1>12
<1> HIDE DEF g
<1>8. ReadsPreserving(WelcomeFields, g)
  <2>1. \A f \in WelcomeNumbers : f \in DOMAIN g /\ g[f] \in U64
    BY <1>2, <1>7, <1>12 DEF WelcomeNumbers, U64, ROOT, LEASE_ACTIVATION, RESUME
  <2>2. \A f \in WelcomeBytes : f \in DOMAIN g /\ g[f] \in Fixed
    BY <1>7, <1>12 DEF WelcomeBytes, Fixed
  <2>3. /\ {"target_profile", "target_descriptor", "accepted_profiles", "maximum_control_body"}
             \subseteq DOMAIN g
        /\ g.target_profile \in Text /\ g.target_descriptor \in Map
        /\ g.accepted_profiles \in ListCodes /\ g.maximum_control_body \in U32
    BY <1>2, <1>7, <1>12, ListNames DEF Text, Map, ListCodes, U32
  <2> QED BY <2>1, <2>2, <2>3, WelcomeTypes DEF ReadsPreserving
<1>9. WelcomeValid(g)
  <2>1. WelcomeAuthValid(g)
    BY <1>2, <1>7, <1>12 DEF WelcomeAuthValid, ROOT, LEASE_ACTIVATION, RESUME
  <2>2. NonzeroAll(g, WelcomeNames)
    BY <1>7, <1>12 DEF NonzeroAll, WelcomeNames
  <2>3. SortedList(g.accepted_profiles) /\ ControlBody(g.maximum_control_body)
    BY <1>2, <1>7, <1>12, ListNames DEF SortedList, ControlBody, MAX_RECORD_BODY
  <2>4. ValidProfileSet(ProfileLists[code])
    BY <1>2, ListNames DEF ValidProfileSet, KnownProfiles, ClosedWithin, Prerequisites
  <2>5. NamesTarget(ProfileLists[code], g.target_profile)
    BY <1>2, <1>7, <1>12, ListNames DEF NamesTarget, TargetProfiles
  <2>6. LimitsGiven(ProfileLists[code], g)
    BY <1>4, <1>7, <1>12 DEF LimitsGiven, Has, Ordinary
  <2>7. /\ g.establishment_state \in {0, 1}
        /\ ~(g.establishment_state = 0 /\ g.auth_kind = ROOT /\ g.resume_generation # 0)
    BY <1>2, <1>7, <1>12 DEF ROOT, RESUME
  <2> QED BY <1>7, <1>12, <2>1, <2>2, <2>3, <2>4, <2>5, <2>6, <2>7 DEF WelcomeValid
<1> QED BY <1>2, <1>7, <1>12, <1>8, <1>9 DEF DecodesWelcome, EncodesWelcome, IsRequest, g

LEMMA LaneTypes ==
  /\ DOMAIN LaneFields = {"request_id", "session_id", "lane", "lane_generation", "client_nonce",
                          "authentication_tag"}
  /\ \A f \in {"request_id", "session_id", "lane", "lane_generation"} : LaneFields[f] = U64
  /\ \A f \in {"client_nonce", "authentication_tag"} : LaneFields[f] = Fixed
BY DEF LaneFields, Fields, ++

LEMMA ChannelTypes ==
  /\ DOMAIN ChannelFields =
       {"request_id", "session_id", "context_id", "surface_id", "track_id", "channel_generation",
        "track_kind", "lane", "client_nonce", "authentication_tag"}
  /\ \A f \in DOMAIN ChannelFields \ {"client_nonce", "authentication_tag"} : ChannelFields[f] = U64
  /\ \A f \in {"client_nonce", "authentication_tag"} : ChannelFields[f] = Fixed
BY DEF ChannelFields, Fields, ++

LEMMA AfterWelcomeDecodes ==
  ASSUME NEW p, DecodesWelcome(p), NEW r \in AfterWelcome(p)
  PROVE  r.kind \in ControlKinds /\ ControlDecodes(r.kind, r.fields)
<1> DEFINE g == r.fields
<1>1. /\ p.session_id \in U64 \ {0} /\ p.root_context_id \in U64 \ {0}
      /\ p.resume_generation \in U64 /\ p.accepted_profiles \in 0..6 /\ p.target_profile \in Text
      /\ ValidProfileSet(ProfileLists[p.accepted_profiles])
      /\ NamesTarget(ProfileLists[p.accepted_profiles], p.target_profile)
  <2>1. /\ p.session_id \in U64 /\ p.root_context_id \in U64 /\ p.resume_generation \in U64
        /\ p.target_profile \in Text
    BY WelcomeTypes DEF DecodesWelcome, ReadsPreserving, WelcomeNumbers
  <2>2. p.session_id # 0 /\ p.root_context_id # 0
    BY DEF DecodesWelcome, EncodesWelcome, WelcomeValid, NonzeroAll, WelcomeNames
  <2> QED
    BY <2>1, <2>2, ListNames DEF DecodesWelcome, EncodesWelcome, WelcomeValid, SortedList
<1>2. CASE r = Built("LANE_OPEN", 0,
                     [request_id |-> 1, session_id |-> p.session_id, lane |-> INTERACTIVE,
                      lane_generation |-> 1, client_nonce |-> 1, authentication_tag |-> 1])
  <2>1. /\ DOMAIN g = DOMAIN LaneFields \union {"header"}
        /\ g.request_id = 1 /\ g.session_id = p.session_id /\ g.lane = INTERACTIVE
        /\ g.lane_generation = 1 /\ g.client_nonce = 1 /\ g.authentication_tag = 1
        /\ r.kind = "LANE_OPEN"
    BY <1>2, LaneTypes DEF Built, ++
  <2> HIDE DEF g
  <2>2. Reads(LaneFields, g)
    <3>1. \A f \in DOMAIN LaneFields : g[f] \in LaneFields[f]
      BY <1>1, <2>1, LaneTypes DEF U64, Fixed, INTERACTIVE
    <3>9. "header" \notin DOMAIN LaneFields
      BY LaneTypes
    <3> QED BY <2>1, <3>1, <3>9, ReadsNamed
  <2>3. DecodesLane(g)
    BY <1>1, <2>1, <2>2 DEF DecodesLane, IsRequest, NonzeroAll
  <2> QED BY <2>1, <2>3 DEF ControlDecodes, ControlKinds, g
<1>3. CASE r = Built("CHANNEL_OPEN", 1,
                     [session_id |-> p.session_id, context_id |-> p.root_context_id,
                      lane |-> REALTIME] ++ Fields(DOMAIN ChannelFields, 1))
  <2>1. /\ DOMAIN g = DOMAIN ChannelFields \union {"header"}
        /\ g.session_id = p.session_id /\ g.context_id = p.root_context_id /\ g.lane = REALTIME
        /\ \A f \in DOMAIN ChannelFields \ {"session_id", "context_id", "lane"} : g[f] = 1
        /\ g.header = 1 /\ r.kind = "CHANNEL_OPEN"
    BY <1>3, ChannelTypes DEF Built, Fields, ++
  <2> HIDE DEF g
  <2>2. Reads(ChannelFields, g)
    <3>1. \A f \in DOMAIN ChannelFields : g[f] \in ChannelFields[f]
      BY <1>1, <2>1, ChannelTypes DEF U64, Fixed, REALTIME
    <3>9. "header" \notin DOMAIN ChannelFields
      BY ChannelTypes
    <3> QED BY <2>1, <3>1, <3>9, ReadsNamed
  <2>3. DecodesChannel(g)
    BY <1>1, <2>1, <2>2, ChannelTypes DEF DecodesChannel, IsRequest, NonzeroAll, HeaderIs, TrackKinds
  <2> QED BY <2>1, <2>3 DEF ControlDecodes, ControlKinds, g
<1>4. CASE r = Built("HELLO", 0,
                     [target_profile |-> p.target_profile, required_profiles |-> p.accepted_profiles,
                      optional_profiles |-> 0, auth_kind |-> RESUME,
                      auth_context_id |-> p.root_context_id, auth_session_id |-> p.session_id,
                      auth_resume_generation |-> p.resume_generation] ++
                     Fields(DOMAIN HelloFields \union DOMAIN AuthFields(RESUME), 1))
  <2> DEFINE given == {"target_profile", "required_profiles", "optional_profiles", "auth_kind",
                       "auth_context_id", "auth_session_id", "auth_resume_generation"}
             chosen == Select(g, AuthKeys)
             auth == DOMAIN AuthFields(RESUME)
  <2>1. /\ DOMAIN g = HelloNames \union auth \union {"header"}
        /\ g.target_profile = p.target_profile /\ g.required_profiles = p.accepted_profiles
        /\ g.optional_profiles = 0 /\ g.auth_kind = RESUME
        /\ g.auth_context_id = p.root_context_id /\ g.auth_session_id = p.session_id
        /\ g.auth_resume_generation = p.resume_generation
        /\ \A f \in (HelloNames \union auth) \ given : g[f] = 1
        /\ r.kind = "HELLO"
    BY <1>4, HelloTypes, AuthTypes DEF Built, Fields, ++, HelloNames
  <2> HIDE DEF g
  <2>2. /\ g.producer_name = 1 /\ g.producer_version = 1 /\ g.request_id = 1
        /\ g.maximum_control_body = 1 /\ g.client_nonce = 1 /\ g.auth_lease_id = 1
        /\ g.auth_attempt_id = 1 /\ g.auth_proof = 1
    BY <2>1, AuthTypes DEF HelloNames
  <2>3. ReadsPreserving(HelloFields, g)
    <3>1. \A f \in HelloNames : f \in DOMAIN g
      BY <2>1
    <3>2. /\ g.producer_name \in Text /\ g.producer_version \in Text
          /\ g.required_profiles \in ListCodes /\ g.optional_profiles \in ListCodes
          /\ g.request_id \in U64 /\ g.maximum_control_body \in U32
          /\ g.client_nonce \in Fixed /\ g.auth_kind \in U64 /\ g.target_profile \in Text
      BY <1>1, <2>1, <2>2, ListNames DEF Text, ListCodes, U64, U32, Fixed, RESUME
    <3> QED BY <3>1, <3>2, HelloTypes DEF ReadsPreserving, HelloNames
  <2>4. DOMAIN chosen = auth /\ \A f \in auth : chosen[f] = g[f]
    <3>1. DOMAIN chosen = DOMAIN g \intersect AuthKeys /\ \A f \in DOMAIN chosen : chosen[f] = g[f]
      BY SelectedRecord
    <3>2. DOMAIN g \intersect AuthKeys = auth
      BY <2>1, AuthTypes DEF HelloNames
    <3> QED BY <3>1, <3>2
  <2>5. ReadsWith(AuthFields(RESUME), AuthOptions(RESUME), chosen)
    <3>1. \A f \in auth : chosen[f] \in AuthFields(RESUME)[f]
      BY <1>1, <2>1, <2>2, <2>4, AuthTypes DEF U64, Fixed
    <3>2. auth = {"auth_context_id", "auth_lease_id", "auth_session_id", "auth_resume_generation",
                  "auth_attempt_id", "auth_proof"}
      BY AuthTypes
    <3> HIDE DEF chosen
    <3> QED BY <2>4, <3>1, <3>2 DEF ReadsWith, ++
  <2>6. DecodesAuth(g)
    <3>1. DOMAIN g \intersect {"auth_context_id", "auth_lease_id", "auth_session_id"} =
            {"auth_context_id", "auth_lease_id", "auth_session_id"}
      BY <2>1, AuthTypes
    <3>2. NonzeroAll(g, {"auth_context_id", "auth_lease_id", "auth_session_id"})
      BY <1>1, <2>1, <2>2 DEF NonzeroAll
    <3> QED BY <2>1, <2>5, <3>1, <3>2 DEF DecodesAuth
  <2>7. HelloValid(g)
    <3>1. /\ g.producer_name # TooLong /\ g.producer_version # TooLong
          /\ SortedList(g.required_profiles) /\ SortedList(g.optional_profiles)
          /\ ControlBody(g.maximum_control_body)
      BY <1>1, <2>1, <2>2, ListNames DEF TooLong, SortedList, ControlBody, MAX_RECORD_BODY
    <3>2. ProfileLists[g.optional_profiles] = {}
      BY <2>1, ListNames
    <3>3. /\ ProfileLists[g.required_profiles] \intersect {} = {}
          /\ ProfileLists[g.required_profiles] \union {} = ProfileLists[g.required_profiles]
          /\ NamesTarget(ProfileLists[g.required_profiles], g.target_profile)
          /\ ValidProfileSet(ProfileLists[g.required_profiles])
      BY <1>1, <2>1
    <3> QED BY <3>1, <3>2, <3>3 DEF HelloValid, ValidProfileSet
  <2>8. DecodesHello(g)
    BY <2>2, <2>3, <2>6, <2>7 DEF DecodesHello, IsRequest
  <2> QED BY <2>1, <2>8 DEF ControlDecodes, ControlKinds, g
<1> QED BY <1>2, <1>3, <1>4 DEF AfterWelcome

LEMMA ControlOpeningsDecode ==
  ASSUME NEW r \in ControlOpenings
  PROVE  r.kind \in ControlKinds /\ ControlDecodes(r.kind, r.fields)
<1> DEFINE g == r.fields
<1>1. ASSUME NEW kind \in {ROOT, LEASE_ACTIVATION}, r = HelloAs(kind)
      PROVE  r.kind = "HELLO" /\ DecodesHello(g)
  <2> DEFINE auth == DOMAIN AuthFields(kind)
             chosen == Select(g, AuthKeys)
  <2>1. /\ auth \subseteq AuthKeys /\ AuthKeys \intersect (HelloNames \union {"header"}) = {}
        /\ "header" \notin auth
    <3>1. DOMAIN AuthFields(ROOT) = {"auth_proof"}
      BY AuthTypes
    <3> QED BY <3>1, AuthTypes DEF HelloNames
  <2> HIDE DEF auth
  <2>2. /\ DOMAIN g = HelloNames \union auth \union {"header"}
        /\ g.auth_kind = kind /\ g.optional_profiles = 0
        /\ \A f \in (HelloNames \union auth) \ {"auth_kind", "optional_profiles"} : g[f] = 1
        /\ r.kind = "HELLO"
    <3>1. r = Built("HELLO", 0, [auth_kind |-> kind, optional_profiles |-> 0] ++
                                Fields(DOMAIN HelloFields \union auth, 1))
      BY <1>1 DEF HelloAs, auth
    <3>2. DOMAIN HelloFields = HelloNames /\ {"auth_kind", "optional_profiles"} \subseteq HelloNames
      BY HelloTypes DEF HelloNames
    <3>3. "header" \notin HelloNames \union auth
      BY <2>1 DEF HelloNames
    <3>4. auth \intersect {"auth_kind", "optional_profiles"} = {}
      BY <2>1, <3>2
    <3> QED BY <3>1, <3>2, <3>3, <3>4 DEF Built, Fields, ++
  <2> HIDE DEF g
  <2>3. /\ g.producer_name = 1 /\ g.producer_version = 1 /\ g.request_id = 1
        /\ g.maximum_control_body = 1 /\ g.client_nonce = 1 /\ g.required_profiles = 1
        /\ g.target_profile = 1
    BY <2>2 DEF HelloNames
  <2>4. ReadsPreserving(HelloFields, g)
    BY <2>2, <2>3, HelloTypes, ListNames
       DEF ReadsPreserving, HelloNames, Text, ListCodes, U64, U32, Fixed, ROOT, LEASE_ACTIVATION
  <2>5. DOMAIN chosen = auth /\ \A f \in auth : chosen[f] = 1
    <3>1. DOMAIN chosen = DOMAIN g \intersect AuthKeys /\ \A f \in DOMAIN chosen : chosen[f] = g[f]
      BY SelectedRecord
    <3>2. DOMAIN g \intersect AuthKeys = auth
      BY <2>1, <2>2
    <3>3. {"auth_kind", "optional_profiles"} \subseteq HelloNames
      BY DEF HelloNames
    <3> HIDE DEF chosen
    <3> QED BY <2>1, <2>2, <3>1, <3>2, <3>3
  <2> HIDE DEF chosen
  <2>6. ReadsWith(AuthFields(kind), AuthOptions(kind), chosen)
    <3>1. "header" \notin auth
      BY <2>1
    <3>2. \A f \in auth : 1 \in AuthFields(kind)[f]
      BY DEF auth, AuthFields, Fields, ++, ROOT, LEASE_ACTIVATION, RESUME, U64, Fixed
    <3> QED BY <2>5, <3>1, <3>2 DEF ReadsWith, ++, auth
  <2>7. NonzeroAll(g, DOMAIN g \intersect {"auth_context_id", "auth_lease_id", "auth_session_id"})
    BY <2>2 DEF NonzeroAll, HelloNames
  <2>8. DecodesAuth(g)
    BY <2>2, <2>6, <2>7 DEF DecodesAuth, chosen
  <2>9. HelloValid(g)
    BY <2>2, <2>3, ListNames DEF HelloValid, TooLong, SortedList, ControlBody, MAX_RECORD_BODY,
       NamesTarget, TargetProfiles, KnownProfiles, ClosedWithin, Prerequisites
  <2> QED BY <2>2, <2>3, <2>4, <2>8, <2>9 DEF DecodesHello, IsRequest
<1>2. CASE r = Built("CONTROL", 0, [request_id |-> 1, payload |-> 1, preconditions |-> 1,
                                    transaction_id |-> 1, idempotency_key |-> 1])
  BY <1>2 DEF Built, ++, ControlDecodes, ControlKinds, DecodesEnvelope, EncodesEnvelope, ReadsWith,
     EnvelopeOptions, Fields, U64, Map, Fixed, Get, Unsorted, UnknownKey, Empty
<1>3. CASE r = Built("ERROR", 0, [envelope_id |-> 0, request_id |-> 0, code |-> 2, fatal |-> 1,
                                  diagnostic |-> 1, detail_number |-> 1, detail_flag |-> 1])
  BY <1>3 DEF Built, ++, ControlDecodes, ControlKinds, DecodesError, EncodesError, ReadsWith,
     ErrorFields, DetailFields, Fields, U64, Bool, Text, RegisteredErrors, DetailValid, Has, TooLong
<1>4. r \in {HelloAs(ROOT), HelloAs(LEASE_ACTIVATION)} => r.kind = "HELLO" /\ DecodesHello(g)
  BY <1>1
<1> QED BY <1>2, <1>3, <1>4 DEF ControlOpenings, ControlDecodes, ControlKinds

LEMMA ControlAnswersDecode ==
  ASSUME NEW kind \in ControlKinds, NEW p, ControlDecodes(kind, p), NEW r \in ControlAnswers(kind, p)
  PROVE  r.kind \in ControlKinds /\ ControlDecodes(r.kind, r.fields)
<1>1. ASSUME p.request_id \in U64, r \in Errors(p.request_id)
      PROVE  r.kind \in ControlKinds /\ ControlDecodes(r.kind, r.fields)
  BY <1>1, ErrorsDecode DEF ControlDecodes, ControlKinds
<1>2. CASE kind = "HELLO"
  <2>1. DecodesHello(p) /\ r \in Welcomes(p) \union Errors(p.request_id)
    BY <1>2 DEF ControlDecodes, ControlAnswers
  <2>2. p.request_id \in U64
    BY <2>1, HelloTypes DEF DecodesHello, ReadsPreserving, HelloNames
  <2>3. r \in Welcomes(p) => r.kind = "WELCOME" /\ DecodesWelcome(r.fields)
    BY <2>1, WelcomesDecode
  <2> QED BY <1>1, <2>1, <2>2, <2>3 DEF ControlDecodes, ControlKinds
<1>3. CASE kind = "WELCOME"
  BY <1>3, AfterWelcomeDecodes DEF ControlDecodes, ControlAnswers
<1>4. CASE kind = "LANE_OPEN"
  <2>1. DecodesLane(p) /\ r \in Errors(p.request_id)
    BY <1>4 DEF ControlDecodes, ControlAnswers
  <2>2. p.request_id \in U64
    BY <2>1, LaneTypes, ReadAll DEF DecodesLane
  <2> QED BY <1>1, <2>1, <2>2
<1>5. CASE kind = "CHANNEL_OPEN"
  <2>1. DecodesChannel(p) /\ r \in Errors(p.request_id)
    BY <1>5 DEF ControlDecodes, ControlAnswers
  <2>2. p.request_id \in U64
    BY <2>1, ChannelTypes, ReadAll DEF DecodesChannel
  <2> QED BY <1>1, <2>1, <2>2
<1>6. CASE kind = "CONTROL"
  <2>1. DecodesEnvelope(p) /\ r \in Errors(p.request_id)
    BY <1>6 DEF ControlDecodes, ControlAnswers
  <2>2. p.request_id \in U64
    BY <2>1, ReadKnown DEF DecodesEnvelope
  <2> QED BY <1>1, <2>1, <2>2
<1>7. kind # "ERROR"
  BY DEF ControlAnswers
<1> QED BY <1>2, <1>3, <1>4, <1>5, <1>6, <1>7 DEF ControlKinds

(***************************************************************************)
(* Contexts, surfaces, nodes and the desktop target.                       *)
(***************************************************************************)
OutputFieldNames == {"id", "x", "y", "width", "height", "scale_numerator", "scale_denominator",
                     "rotation", "primary"}
FirstKeys == {"id1", "x1", "y1", "width1", "height1", "scale_numerator1", "scale_denominator1",
              "rotation1", "primary1"}
SecondKeys == {"id2", "x2", "y2", "width2", "height2", "scale_numerator2", "scale_denominator2",
               "rotation2", "primary2"}

LEMMA OutputKeyNames ==
  /\ DOMAIN OutputTypes = OutputFieldNames
  /\ OutputKeys("first") = FirstKeys /\ OutputKeys("second") = SecondKeys
  /\ \A o \in Outputs : \A f, g \in OutputFieldNames : Key(o, f) = Key(o, g) => f = g
<1>1. DOMAIN OutputTypes = OutputFieldNames
  BY DEF OutputTypes, Fields, ++, OutputFieldNames
<1>2. OutputKeys("first") = FirstKeys
  BY <1>1 DEF OutputKeys, Key, OutputNames, OutputFieldNames, FirstKeys
<1>3. OutputKeys("second") = SecondKeys
  BY <1>1 DEF OutputKeys, Key, OutputNames, OutputFieldNames, SecondKeys
<1>4. \A f, g \in OutputFieldNames : Key("first", f) = Key("first", g) => f = g
  BY DEF Key, OutputNames, OutputFieldNames
<1>5. \A f, g \in OutputFieldNames : Key("second", f) = Key("second", g) => f = g
  BY DEF Key, OutputNames, OutputFieldNames
<1> QED BY <1>1, <1>2, <1>3, <1>4, <1>5 DEF Outputs

LEMMA OutputMade ==
  ASSUME NEW o \in Outputs, NEW x, NEW primary
  PROVE  /\ DOMAIN OutputAt(o, x, primary) = OutputKeys(o)
         /\ OutputAt(o, x, primary)[Key(o, "id")] = x
         /\ OutputAt(o, x, primary)[Key(o, "x")] = x
         /\ OutputAt(o, x, primary)[Key(o, "primary")] = primary
         /\ OutputAt(o, x, primary)[Key(o, "rotation")] = 0
         /\ \A f \in OutputFieldNames \ {"id", "x", "primary", "rotation"} :
              OutputAt(o, x, primary)[Key(o, f)] = 1
<1> DEFINE values == [id |-> x, x |-> x, primary |-> primary, rotation |-> 0] ++
                     Fields(DOMAIN OutputTypes, 1)
           made == OutputAt(o, x, primary)
<1>1. made = [k \in OutputKeys(o) |-> values[CHOOSE f \in DOMAIN OutputTypes : Key(o, f) = k]]
  BY DEF OutputAt
<1>2. /\ values["id"] = x /\ values["x"] = x /\ values["primary"] = primary
      /\ values["rotation"] = 0
      /\ \A f \in OutputFieldNames \ {"id", "x", "primary", "rotation"} : values[f] = 1
  BY OutputKeyNames DEF ++, Fields, OutputFieldNames
<1> HIDE DEF values, made
<1>3. ASSUME NEW f \in OutputFieldNames PROVE made[Key(o, f)] = values[f]
  <2>1. Key(o, f) \in OutputKeys(o)
    BY OutputKeyNames DEF OutputKeys
  <2>2. (CHOOSE e \in DOMAIN OutputTypes : Key(o, e) = Key(o, f)) = f
    BY OutputKeyNames
  <2> QED BY <1>1, <2>1, <2>2
<1>4. {"id", "x", "primary", "rotation"} \subseteq OutputFieldNames
  BY DEF OutputFieldNames
<1> QED BY <1>1, <1>2, <1>3, <1>4 DEF made

TargetNames == {"origin_x", "origin_y", "width", "height", "settled", "topology_revision"}

LEMMA TargetTypes ==
  /\ DOMAIN TargetFields = TargetNames
  /\ \A f \in TargetNames \ {"settled", "topology_revision"} : TargetFields[f] = U32
  /\ TargetFields["settled"] = Bool /\ TargetFields["topology_revision"] = U64
BY DEF TargetFields, Fields, ++, TargetNames, I32

LEMMA TwoOutputsMade ==
  /\ DOMAIN TwoOutputs = TargetNames \union FirstKeys \union SecondKeys
  /\ TwoOutputs.origin_x = 1 /\ TwoOutputs.width = 2
  /\ \A f \in TargetNames \ {"origin_x", "width"} : TwoOutputs[f] = 1
  /\ \A k \in FirstKeys : TwoOutputs[k] = OutputAt("first", 1, 1)[k]
  /\ \A k \in SecondKeys : TwoOutputs[k] = OutputAt("second", 2, 0)[k]
<1> DEFINE one == OutputAt("first", 1, 1)
           two == OutputAt("second", 2, 0)
<1>1. TwoOutputs = [origin_x |-> 1, width |-> 2] ++ Fields(TargetNames, 1) ++ one ++ two
  BY TargetTypes DEF TwoOutputs
<1>2. DOMAIN one = FirstKeys /\ DOMAIN two = SecondKeys
  BY OutputMade, OutputKeyNames DEF Outputs
<1> HIDE DEF one, two
<1>3. FirstKeys \intersect SecondKeys = {} /\ TargetNames \intersect (FirstKeys \union SecondKeys) = {}
  BY DEF FirstKeys, SecondKeys, TargetNames
<1>4. {"origin_x", "width"} \subseteq TargetNames
  BY DEF TargetNames
<1> QED BY <1>1, <1>2, <1>3, <1>4 DEF ++, Fields, one, two

LEMMA TargetOpeningDecodes == DecodesTarget(Built("DESKTOP_TARGET", 0, TwoOutputs).fields)
<1> DEFINE g == Built("DESKTOP_TARGET", 0, TwoOutputs).fields
           others == Others(g)
<1>1. FirstKeys \intersect SecondKeys = {}
      /\ (TargetNames \union {"header"}) \intersect (FirstKeys \union SecondKeys) = {}
      /\ "header" \notin TargetNames
  BY DEF FirstKeys, SecondKeys, TargetNames
<1>2. /\ DOMAIN g = TargetNames \union FirstKeys \union SecondKeys \union {"header"}
      /\ \A k \in TargetNames \union FirstKeys \union SecondKeys : g[k] = TwoOutputs[k]
  BY <1>1, TwoOutputsMade DEF Built, ++
<1> HIDE DEF g
<1>3. Outputs = {"first", "second"} /\ "first" # "second"
  BY DEF Outputs
<1>4. UNION {OutputKeys(o) : o \in Outputs} = FirstKeys \union SecondKeys
  BY <1>3, OutputKeyNames
<1>5. DOMAIN others = TargetNames \union {"header"} /\ \A f \in TargetNames : others[f] = g[f]
  <2>1. DOMAIN g \ (FirstKeys \union SecondKeys) = TargetNames \union {"header"}
    BY <1>1, <1>2
  <2>2. others = Select(g, TargetNames \union {"header"})
    BY <1>4, <2>1 DEF Others
  <2> QED BY <1>2, <2>2, SelectedAll
<1> HIDE DEF others
<1>6. Reads(TargetFields, others)
  <2>1. \A f \in TargetNames : TwoOutputs[f] \in TargetFields[f]
    BY TwoOutputsMade, TargetTypes DEF TargetNames, U32, U64, Bool
  <2>2. \A f \in TargetNames : others[f] \in TargetFields[f]
    BY <1>2, <1>5, <2>1
  <2>3. "header" \notin DOMAIN TargetFields
    BY <1>1, TargetTypes
  <2> QED BY <1>5, <2>2, <2>3, TargetTypes, ReadsNamed
<1>7. \A f \in OutputFieldNames : Key("first", f) \in FirstKeys /\ Key("second", f) \in SecondKeys
  BY OutputKeyNames DEF OutputKeys
<1>8. /\ \A f \in OutputFieldNames : g[Key("first", f)] = OutputAt("first", 1, 1)[Key("first", f)]
      /\ \A f \in OutputFieldNames : g[Key("second", f)] = OutputAt("second", 2, 0)[Key("second", f)]
  BY <1>2, <1>7, TwoOutputsMade
<1>9. /\ g[Key("first", "id")] = 1 /\ g[Key("first", "x")] = 1 /\ g[Key("first", "primary")] = 1
      /\ g[Key("first", "rotation")] = 0 /\ g[Key("second", "rotation")] = 0
      /\ g[Key("second", "id")] = 2 /\ g[Key("second", "x")] = 2 /\ g[Key("second", "primary")] = 0
      /\ \A o \in Outputs, f \in OutputFieldNames \ {"id", "x", "primary", "rotation"} :
           g[Key(o, f)] = 1
  <2>1. {"id", "x", "primary", "rotation"} \subseteq OutputFieldNames
    BY DEF OutputFieldNames
  <2> QED BY <1>3, <1>8, <2>1, OutputMade
<1>10. Listed(g) = Outputs
  <2>1. FirstKeys # {} /\ SecondKeys # {}
    BY DEF FirstKeys, SecondKeys
  <2> QED BY <1>2, <1>3, <2>1, OutputKeyNames DEF Listed
<1>11. ASSUME NEW o \in Outputs PROVE DecodesOutput(g, o)
  <2>1. OutputKeys(o) \subseteq DOMAIN g
    BY <1>2, <1>3, OutputKeyNames
  <2>2. \A f \in OutputFieldNames : g[Key(o, f)] \in OutputTypes[f]
    <3>1. /\ OutputTypes["id"] = U64 /\ OutputTypes["x"] = U32 /\ OutputTypes["y"] = U32
          /\ OutputTypes["rotation"] = Rotations /\ OutputTypes["primary"] = Bool
          /\ \A f \in {"width", "height", "scale_numerator", "scale_denominator"} : OutputTypes[f] = U32
      BY DEF OutputTypes, Fields, ++, I32
    <3>2. /\ g[Key(o, "id")] \in 1..2 /\ g[Key(o, "x")] \in 1..2 /\ g[Key(o, "primary")] \in 0..1
          /\ g[Key(o, "rotation")] = 0
      BY <1>3, <1>9
    <3>3. \A f \in {"y", "width", "height", "scale_numerator", "scale_denominator"} : g[Key(o, f)] = 1
      BY <1>9 DEF OutputFieldNames
    <3> QED BY <3>1, <3>2, <3>3 DEF OutputFieldNames, U64, U32, Bool, Rotations
  <2>3. \A f \in {"width", "height", "scale_numerator", "scale_denominator"} : g[Key(o, f)] # 0
    BY <1>9 DEF OutputFieldNames
  <2> QED BY <2>1, <2>2, <2>3, OutputKeyNames DEF DecodesOutput
<1>12. /\ Output(g, "first").id = 1 /\ Output(g, "first").x = 1 /\ Output(g, "first").primary = 1
       /\ Output(g, "second").id = 2 /\ Output(g, "second").x = 2 /\ Output(g, "second").primary = 0
       /\ \A o \in Outputs : Output(g, o).y = 1 /\ Output(g, o).width = 1 /\ Output(g, o).height = 1
  BY <1>9, OutputKeyNames DEF Output, OutputFieldNames
<1>13. TargetValid(g)
  <2>1. {o \in Listed(g) : Output(g, o).primary = 1} = {"first"}
    BY <1>3, <1>10, <1>12
  <2>2. Cardinality({o \in Listed(g) : Output(g, o).primary = 1}) = 1
    BY <2>1, FS_Singleton
  <2>3. /\ g.width = 2 /\ g.height = 1 /\ g.origin_x = 1 /\ g.origin_y = 1
    BY <1>2, TwoOutputsMade DEF TargetNames
  <2>4. DistinctOutputs(g)
    BY <1>3, <1>10, <1>12 DEF DistinctOutputs
  <2>5. \A o \in Outputs : /\ Within(Output(g, o).x, Output(g, o).width, g.origin_x, g.width)
                           /\ Within(Output(g, o).y, Output(g, o).height, g.origin_y, g.height)
    BY <1>3, <1>12, <2>3 DEF Within
  <2> QED BY <1>10, <2>2, <2>3, <2>4, <2>5 DEF TargetValid
<1> QED BY <1>6, <1>10, <1>11, <1>13 DEF DecodesTarget, others, g

LEMMA SurfaceOpeningsDecode ==
  ASSUME NEW r \in SurfaceOpenings
  PROVE  r.kind \in SurfaceKinds /\ SurfaceDecodes(r.kind, r.fields)
<1>1. CASE r = Built("CREATE_CONTEXT", 2, [context_id |-> 2] ++ Fields(DOMAIN ContextFields, 1))
  BY <1>1 DEF Built, ++, Fields, ContextFields, SurfaceKinds, SurfaceDecodes, DecodesContext, Reads,
     ReadsWith, ContextValid, NonzeroAll, HeaderIs, U64, Text, Fixed, KnownBits, TooLong
<1>2. CASE r = Built("DESKTOP_TARGET", 0, TwoOutputs)
  BY <1>2, TargetOpeningDecodes DEF Built, SurfaceKinds, SurfaceDecodes
<1> QED BY <1>1, <1>2 DEF SurfaceOpenings

SurfaceNumbers == {"context_id", "surface_id", "logical_width", "logical_height", "scale_numerator",
                   "scale_denominator", "policy", "coordinate_model", "semantic_content_revision",
                   "semantic_availability"}

LEMMA SurfaceTypes ==
  /\ DOMAIN SurfaceFields = SurfaceNumbers \union
       {"semantic_profile", "rotation", "profile_parameters", "role", "title", "locator_hint"}
  /\ \A f \in SurfaceNumbers : SurfaceFields[f] = U64
  /\ SurfaceFields["semantic_profile"] = Text /\ SurfaceFields["rotation"] = U16
  /\ SurfaceFields["profile_parameters"] = AnyMap /\ SurfaceFields["role"] = SurfaceRoles
  /\ SurfaceFields["title"] = Text /\ SurfaceFields["locator_hint"] = Text
BY DEF SurfaceFields, DescriptorFields, Fields, ++, SurfaceNumbers

LEMMA SurfacesDecode ==
  ASSUME NEW context \in U64 \ {0}, NEW r \in SurfacesIn(context)
  PROVE  r.kind = "CREATE_SURFACE" /\ DecodesSurface(r.fields)
<1> DEFINE g == r.fields
           given == {"context_id", "semantic_profile", "coordinate_model", "role", "rotation"}
<1>1. PICK profile \in 1..3, model \in 1..4 :
        /\ r = Built("CREATE_SURFACE", 1,
                     [context_id |-> context, semantic_profile |-> profile,
                      coordinate_model |-> model, role |-> 0, rotation |-> 0] ++
                     Fields(DOMAIN SurfaceFields, 1))
        /\ model \in LegalModels(profile)
  <2> DEFINE surface(profile, model) ==
               Built("CREATE_SURFACE", 1,
                     [context_id |-> context, semantic_profile |-> profile,
                      coordinate_model |-> model, role |-> 0, rotation |-> 0] ++
                     Fields(DOMAIN SurfaceFields, 1))
  <2>1. r \in {surface(GENERIC_CONTENT, NORMALIZED), surface(TERMINAL_CONTENT, CELLS),
               surface(DESKTOP_CONTENT, LOGICAL_PIXELS)}
    BY DEF SurfacesIn
  <2> HIDE DEF surface
  <2>2. \E profile \in 1..3, model \in 1..4 :
          r = surface(profile, model) /\ model \in LegalModels(profile)
    BY <2>1 DEF GENERIC_CONTENT, TERMINAL_CONTENT, DESKTOP_CONTENT, CANVAS_CONTENT, LOGICAL_PIXELS,
       NORMALIZED, CANVAS_UNITS, CELLS, LegalModels
  <2> QED BY <2>2 DEF surface
<1>2. /\ DOMAIN g = DOMAIN SurfaceFields \union {"header"}
      /\ g.header = 1 /\ g.context_id = context /\ g.semantic_profile = profile
      /\ g.coordinate_model = model /\ g.role = 0 /\ g.rotation = 0
      /\ \A f \in DOMAIN SurfaceFields \ given : g[f] = 1
      /\ r.kind = "CREATE_SURFACE"
  BY <1>1, SurfaceTypes DEF Built, ++, Fields, SurfaceNumbers
<1> HIDE DEF g
<1>3. Reads(SurfaceFields, g)
  <2>1. \A f \in DOMAIN SurfaceFields : g[f] \in SurfaceFields[f]
    BY <1>2, SurfaceTypes DEF SurfaceNumbers, U64, Text, U16, AnyMap, SurfaceRoles
  <2>9. "header" \notin DOMAIN SurfaceFields
    BY SurfaceTypes DEF SurfaceNumbers
  <2> QED BY <1>2, <2>1, <2>9, ReadsNamed
<1>4. SurfaceValid(g)
  BY <1>1, <1>2, SurfaceTypes DEF SurfaceValid, SurfaceNumbers, NonzeroAll, Rotations, KnownBits,
     DescriptorValid, TooLong
<1>5. HeaderIs(g, "surface_id")
  BY <1>2, SurfaceTypes DEF HeaderIs, SurfaceNumbers
<1> QED BY <1>2, <1>3, <1>4, <1>5 DEF DecodesSurface, g

NodeNumbers == {"owning_context_id", "node_id", "surface_context_id", "surface_id"}

LEMMA NodeFieldTypes ==
  /\ DOMAIN NodeFields = NodeNumbers \union
       {"geometry", "fit", "linear_sampling", "z_index", "blend", "visible", "opacity"}
  /\ \A f \in NodeNumbers : NodeFields[f] = U64
  /\ NodeFields["geometry"] = AnyMap /\ NodeFields["fit"] = Fits
  /\ NodeFields["linear_sampling"] = Bool /\ NodeFields["z_index"] = U32
  /\ NodeFields["blend"] = {0} /\ NodeFields["visible"] = Bool /\ NodeFields["opacity"] = U16
BY DEF NodeFields, Fields, ++, NodeNumbers

LEMMA NodesDecode ==
  ASSUME NEW p, p.context_id \in U64 \ {0}, p.surface_id \in U64 \ {0}, NEW r \in NodesOf(p)
  PROVE  r.kind = "CREATE_NODE" /\ DecodesNode(r.fields)
<1> DEFINE g == r.fields
           given == {"surface_context_id", "surface_id", "blend"}
           first == [surface_context_id |-> p.context_id, surface_id |-> p.surface_id, blend |-> 0]
           rest == Fields(DOMAIN NodeFields, 1)
<1>1. PICK clip \in {<<>>, [clip |-> 1]} : r = Built("CREATE_NODE", 1, first ++ clip ++ rest)
  BY DEF NodesOf
<1>2. DOMAIN clip \subseteq {"clip"} /\ ("clip" \in DOMAIN clip => clip["clip"] = 1)
  <2>1. CASE clip = <<>>
    BY <2>1
  <2>2. CASE clip = [clip |-> 1]
    BY <2>2
  <2> QED BY <2>1, <2>2
<1>3. /\ DOMAIN first = given /\ first.surface_context_id = p.context_id
      /\ first.surface_id = p.surface_id /\ first.blend = 0
      /\ DOMAIN rest = DOMAIN NodeFields /\ \A f \in DOMAIN NodeFields : rest[f] = 1
  BY DEF Fields
<1> HIDE DEF first, rest
<1>4. /\ DOMAIN g = {"header"} \union DOMAIN NodeFields \union DOMAIN clip
      /\ g.header = 1
      /\ \A f \in given : g[f] = first[f]
      /\ \A f \in DOMAIN NodeFields \ given : g[f] = 1
      /\ "clip" \in DOMAIN clip => g["clip"] = 1
      /\ r.kind = "CREATE_NODE"
  <2>1. given \subseteq DOMAIN NodeFields /\ {"clip", "header"} \intersect DOMAIN NodeFields = {}
    BY NodeFieldTypes DEF NodeNumbers
  <2>2. PICK body : body = first ++ clip ++ rest
    OBVIOUS
  <2>3. /\ DOMAIN body = DOMAIN NodeFields \union DOMAIN clip
        /\ \A f \in given : body[f] = first[f]
        /\ \A f \in DOMAIN NodeFields \ given : body[f] = 1
        /\ "clip" \in DOMAIN clip => body["clip"] = 1
    <3>1. PICK opened : opened = first ++ clip
      OBVIOUS
    <3>2. /\ DOMAIN opened = given \union DOMAIN clip
          /\ \A f \in given : opened[f] = first[f]
          /\ "clip" \in DOMAIN clip => opened["clip"] = 1
      BY <1>2, <1>3, <2>1, <3>1 DEF ++
    <3>3. body = opened ++ rest
      BY <2>2, <3>1
    <3> QED BY <1>2, <1>3, <2>1, <3>2, <3>3 DEF ++
  <2>4. r = Built("CREATE_NODE", 1, body)
    BY <1>1, <2>2
  <2>5. r.kind = "CREATE_NODE" /\ g = [header |-> 1] ++ body
    BY <2>4 DEF Built
  <2> HIDE DEF g
  <2> QED BY <1>2, <1>3, <2>1, <2>3, <2>5 DEF ++
<1> HIDE DEF g
<1>5. ReadsWith(NodeFields, [clip |-> AnyMap], g)
  <2>1. \A f \in DOMAIN NodeFields : g[f] \in NodeFields[f]
    BY <1>3, <1>4, NodeFieldTypes DEF NodeNumbers, U64, AnyMap, Fits, Bool, U32, U16
  <2> QED BY <1>2, <1>4, <2>1 DEF ReadsWith, ++, AnyMap
<1>6. NodeValid(g) /\ HeaderIs(g, "node_id")
  BY <1>3, <1>4, NodeFieldTypes DEF NodeValid, NonzeroAll, HeaderIs, NodeNumbers
<1> QED BY <1>4, <1>5, <1>6 DEF DecodesNode, g

ParameterNames == {"captured_origin_x", "captured_origin_y", "semantic_generation",
                   "input_capabilities"}

LEMMA ParameterTypes ==
  /\ DOMAIN ParameterFields = ParameterNames
  /\ ParameterFields["captured_origin_x"] = U32 /\ ParameterFields["captured_origin_y"] = U32
  /\ ParameterFields["semantic_generation"] = U64 /\ ParameterFields["input_capabilities"] = U64
BY DEF ParameterFields, ParameterNames, Fields, ++, I32

LEMMA CapturedDecodes ==
  ASSUME NEW p, DecodesTarget(p), NEW r \in Captured(p)
  PROVE  r.kind = "DESKTOP_PARAMETERS" /\ DecodesParameters(r.fields)
<1> DEFINE g == r.fields
           keys == UNION {OutputKeys(o) : o \in Outputs}
           outputs == Select(p, keys)
           rest == [captured_origin_x |-> p.origin_x, captured_origin_y |-> p.origin_y,
                    semantic_generation |-> 1, input_capabilities |-> 0]
           others == Others(g)
<1>1. keys = FirstKeys \union SecondKeys
  BY OutputKeyNames DEF Outputs
<1>2. keys \intersect (ParameterNames \union TargetNames \union {"header"}) = {}
      /\ "header" \notin ParameterNames
  BY <1>1 DEF FirstKeys, SecondKeys, ParameterNames, TargetNames
<1>3. p.origin_x \in U32 /\ p.origin_y \in U32
  <2>1. /\ DOMAIN Others(p) = DOMAIN p \intersect (DOMAIN p \ keys)
        /\ \A f \in DOMAIN Others(p) : Others(p)[f] = p[f]
    BY SelectedRecord DEF Others
  <2>2. \A f \in TargetNames : f \in DOMAIN Others(p) /\ Others(p)[f] \in TargetFields[f]
    BY ReadAll, TargetTypes DEF DecodesTarget, TargetNames
  <2>3. {"origin_x", "origin_y"} \subseteq TargetNames \ {"settled", "topology_revision"}
    BY DEF TargetNames
  <2> HIDE DEF keys
  <2> QED BY <2>1, <2>2, <2>3, TargetTypes
<1>4. DOMAIN outputs = DOMAIN p \intersect keys /\ \A k \in DOMAIN outputs : outputs[k] = p[k]
  BY SelectedRecord
<1>5. r = Built("DESKTOP_PARAMETERS", 0, outputs ++ rest)
  BY DEF Captured
<1>6. /\ DOMAIN rest = ParameterNames /\ rest.captured_origin_x = p.origin_x
      /\ rest.captured_origin_y = p.origin_y /\ rest.semantic_generation = 1
      /\ rest.input_capabilities = 0
  BY DEF ParameterNames
<1> HIDE DEF outputs, rest, keys
<1>7. /\ DOMAIN g = {"header"} \union ParameterNames \union (DOMAIN p \intersect keys)
      /\ \A k \in DOMAIN p \intersect keys : g[k] = p[k]
      /\ \A f \in ParameterNames : g[f] = rest[f]
      /\ r.kind = "DESKTOP_PARAMETERS"
  BY <1>2, <1>4, <1>5, <1>6 DEF Built, ++
<1> HIDE DEF g
<1>8. DOMAIN others = ParameterNames \union {"header"} /\ \A f \in ParameterNames : others[f] = g[f]
  <2>1. DOMAIN g \ keys = ParameterNames \union {"header"}
    BY <1>2, <1>7
  <2>2. others = Select(g, ParameterNames \union {"header"})
    BY <2>1 DEF Others, keys
  <2> QED BY <1>7, <2>2, SelectedAll
<1> HIDE DEF others
<1>9. Reads(ParameterFields, others)
  <2>1. \A f \in ParameterNames : others[f] \in ParameterFields[f]
    BY <1>3, <1>6, <1>7, <1>8, ParameterTypes DEF ParameterNames, U64
  <2>2. "header" \notin DOMAIN ParameterFields
    BY <1>2, ParameterTypes
  <2> QED BY <1>8, <2>1, <2>2, ParameterTypes, ReadsNamed
<1>10. \A o \in Outputs : OutputKeys(o) \subseteq keys
  BY DEF keys
<1>11. Listed(g) = Listed(p)
  <2>1. \A o \in Outputs : OutputKeys(o) \intersect DOMAIN g = OutputKeys(o) \intersect DOMAIN p
    BY <1>2, <1>7, <1>10
  <2> QED BY <2>1 DEF Listed
<1>12. ASSUME NEW o \in Listed(p) PROVE DecodesOutput(g, o) /\ Output(g, o) = Output(p, o)
  <2>1. o \in Outputs /\ DecodesOutput(p, o)
    BY DEF Listed, DecodesTarget
  <2>2. \A f \in OutputFieldNames : Key(o, f) \in OutputKeys(o)
    BY OutputKeyNames DEF OutputKeys
  <2>3. OutputKeys(o) \subseteq DOMAIN p
    BY <2>1 DEF DecodesOutput
  <2>4. OutputKeys(o) \subseteq DOMAIN g
    BY <1>7, <1>10, <2>1, <2>3
  <2>5. \A f \in OutputFieldNames : g[Key(o, f)] = p[Key(o, f)]
    BY <1>7, <1>10, <2>1, <2>2, <2>3
  <2>6. {"width", "height", "scale_numerator", "scale_denominator"} \subseteq OutputFieldNames
    BY DEF OutputFieldNames
  <2>7. DecodesOutput(g, o)
    BY <2>1, <2>4, <2>5, <2>6, OutputKeyNames DEF DecodesOutput
  <2>8. Output(g, o) = Output(p, o)
    BY <2>5, OutputKeyNames DEF Output
  <2> QED BY <2>7, <2>8
<1>13. ParametersValid(g)
  <2>1. DistinctOutputs(g)
    BY <1>11, <1>12 DEF DistinctOutputs, DecodesTarget, TargetValid
  <2> QED BY <1>6, <1>7, <2>1 DEF ParametersValid, KnownBits, ParameterNames
<1> QED BY <1>7, <1>9, <1>11, <1>12, <1>13 DEF DecodesParameters, g, others

LEMMA SurfaceAnswersDecode ==
  ASSUME NEW kind \in SurfaceKinds, NEW p, SurfaceDecodes(kind, p), NEW r \in SurfaceAnswers(kind, p)
  PROVE  r.kind \in SurfaceKinds /\ SurfaceDecodes(r.kind, r.fields)
<1>1. CASE kind = "CREATE_CONTEXT"
  <2>1. DecodesContext(p) /\ r \in SurfacesIn(p.context_id)
    BY <1>1 DEF SurfaceDecodes, SurfaceAnswers
  <2>2. p.context_id \in U64
    <3>1. "context_id" \in DOMAIN ContextFields /\ ContextFields["context_id"] = U64
          /\ "header" \notin DOMAIN ContextFields
      BY DEF ContextFields, Fields, ++
    <3> QED BY <2>1, <3>1, ReadAll DEF DecodesContext
  <2>3. p.context_id # 0
    BY <2>1 DEF DecodesContext, ContextValid, NonzeroAll
  <2> QED BY <2>1, <2>2, <2>3, SurfacesDecode DEF SurfaceDecodes, SurfaceKinds
<1>2. CASE kind = "CREATE_SURFACE"
  <2>1. DecodesSurface(p) /\ r \in NodesOf(p)
    BY <1>2 DEF SurfaceDecodes, SurfaceAnswers
  <2>2. p.context_id \in U64 /\ p.surface_id \in U64
    BY <2>1, SurfaceTypes, ReadAll DEF DecodesSurface, SurfaceNumbers
  <2>3. p.context_id # 0 /\ p.surface_id # 0
    BY <2>1 DEF DecodesSurface, SurfaceValid, NonzeroAll
  <2> QED BY <2>1, <2>2, <2>3, NodesDecode DEF SurfaceDecodes, SurfaceKinds
<1>3. CASE kind = "DESKTOP_TARGET"
  BY <1>3, CapturedDecodes DEF SurfaceDecodes, SurfaceAnswers, SurfaceKinds
<1> QED BY <1>1, <1>2, <1>3 DEF SurfaceAnswers, SurfaceKinds

(***************************************************************************)
(* Tracks: probes, the tracks they become and the channels of those.       *)
(***************************************************************************)
TrackNumbers == {"context_id", "surface_id", "track_id", "kind", "slot",
                 "maximum_inflight_body_bytes", "target_latency_us", "maximum_latency_us",
                 "retained_pixel_charge"} \union Rates
TrackNames == TrackNumbers \union {"mode", "lane", "maximum_record_body"}

LEMMA TrackTypes ==
  ASSUME NEW kind
  PROVE  /\ DOMAIN TrackFields(kind) = TrackNames \union DOMAIN KindFields(kind)
         /\ \A f \in TrackNumbers : TrackFields(kind)[f] = U64
         /\ TrackFields(kind)["mode"] = {LIVE, TIMED} /\ TrackFields(kind)["lane"] = 0..3
         /\ TrackFields(kind)["maximum_record_body"] = U32
         /\ \A f \in DOMAIN KindFields(kind) \ TrackNames : TrackFields(kind)[f] = KindFields(kind)[f]
BY DEF TrackFields, TrackNumbers, TrackNames, Rates, Fields, ++

\* The names of the fields of each kind.
VideoNames == {"codec", "packetization", "extradata", "coded_width", "coded_height", "profile",
               "level", "maximum_reorder_depth", "maximum_access_unit_bytes", "color_primaries",
               "transfer", "matrix", "signal_range", "aspect_numerator", "aspect_denominator",
               "alpha", "timeline"}
AudioNames == {"codec", "packetization", "extradata", "sample_rate", "channels",
               "maximum_access_unit_bytes", "channel_mask", "timeline"}
RasterNames == {"width", "height", "maximum_delta_operations", "alpha_mode", "format", "color",
                "delta_enabled", "zstd_enabled"}
ImageNames == {"width", "height", "encoded_length", "encoding", "color", "cache_lookup"}
VectorNames == {"width", "height", "maximum_scene_bytes"}

LEMMA KindNames ==
  /\ KindFields(VIDEO) = VideoFields /\ DOMAIN VideoFields = VideoNames
  /\ KindFields(AUDIO) = AudioFields /\ DOMAIN AudioFields = AudioNames
  /\ KindFields(RASTER) = RasterFields /\ DOMAIN RasterFields = RasterNames
  /\ KindFields(IMAGE) = ImageFields /\ DOMAIN ImageFields = ImageNames
  /\ KindFields(VECTOR) = VectorFields /\ DOMAIN VectorFields = VectorNames
<1>1. /\ KindFields(VIDEO) = VideoFields /\ KindFields(AUDIO) = AudioFields
      /\ KindFields(RASTER) = RasterFields /\ KindFields(IMAGE) = ImageFields
      /\ KindFields(VECTOR) = VectorFields
  BY DEF KindFields, VIDEO, AUDIO, RASTER, IMAGE, VECTOR
<1>2. /\ DOMAIN VideoFields = VideoNames /\ DOMAIN AudioFields = AudioNames
      /\ DOMAIN RasterFields = RasterNames /\ DOMAIN ImageFields = ImageNames
      /\ DOMAIN VectorFields = VectorNames
  BY DEF VideoFields, AudioFields, RasterFields, ImageFields, VectorFields, Fields, ++, VideoNames,
     AudioNames, RasterNames, ImageNames, VectorNames
<1> QED BY <1>1, <1>2

LEMMA KindNamesApart ==
  ASSUME NEW kind \in VIDEO..VECTOR
  PROVE  DOMAIN KindFields(kind) \intersect
           (TrackNames \union {"header", "direction", "unknown"}) = {}
<1>1. kind \in {VIDEO, AUDIO, RASTER, IMAGE, VECTOR}
  BY DEF VIDEO, AUDIO, RASTER, IMAGE, VECTOR
<1>2. /\ VideoNames \intersect (TrackNames \union {"header", "direction", "unknown"}) = {}
      /\ AudioNames \intersect (TrackNames \union {"header", "direction", "unknown"}) = {}
      /\ RasterNames \intersect (TrackNames \union {"header", "direction", "unknown"}) = {}
      /\ ImageNames \intersect (TrackNames \union {"header", "direction", "unknown"}) = {}
      /\ VectorNames \intersect (TrackNames \union {"header", "direction", "unknown"}) = {}
  BY DEF TrackNames, TrackNumbers, Rates, VideoNames, AudioNames, RasterNames, ImageNames, VectorNames
<1> QED BY <1>1, <1>2, KindNames

ProbeValues(kind) ==
  [track_id |-> 0, kind |-> kind, alpha |-> 0, cache_lookup |-> 0,
   lane |-> IF kind = AUDIO THEN REALTIME_LANE ELSE BULK_LANE,
   slot |-> IF kind = VECTOR THEN VECTOR_SLOT ELSE 0, retained_pixel_charge |-> 0,
   maximum_record_body |-> 2, maximum_inflight_body_bytes |-> 2]
ProbeSpecial == {"track_id", "kind", "alpha", "cache_lookup", "lane", "slot",
                 "retained_pixel_charge", "maximum_record_body", "maximum_inflight_body_bytes"}

\* The fields of a probe.
IsProbe(g, kind, options) ==
  /\ DOMAIN g = {"header"} \union (TrackNames \union DOMAIN KindFields(kind)) \union DOMAIN options
  /\ g.header = 0 /\ g.track_id = 0 /\ g.kind = kind /\ g.retained_pixel_charge = 0
  /\ g.lane = (IF kind = AUDIO THEN REALTIME_LANE ELSE BULK_LANE)
  /\ g.slot = (IF kind = VECTOR THEN VECTOR_SLOT ELSE 0)
  /\ g.maximum_record_body = 2 /\ g.maximum_inflight_body_bytes = 2
  /\ \A f \in {"alpha", "cache_lookup"} \intersect DOMAIN KindFields(kind) : g[f] = 0
  /\ \A f \in (TrackNames \union DOMAIN KindFields(kind)) \ ProbeSpecial : g[f] = 1
  /\ \A f \in DOMAIN options : g[f] = options[f]

LEMMA ProbeMade ==
  ASSUME NEW kind \in VIDEO..VECTOR, NEW options, DOMAIN options \subseteq {"direction"}
  PROVE  IsProbe(ProbeOf(kind, options).fields, kind, options)
<1> DEFINE names == DOMAIN TrackFields(kind)
           all == ProbeValues(kind) ++ Fields(names, 1)
           chosen == Select(all, names)
           g == ProbeOf(kind, options).fields
<1>1. names = TrackNames \union DOMAIN KindFields(kind)
  BY TrackTypes
<1>2. /\ {"header", "direction"} \intersect names = {}
      /\ {"track_id", "kind", "lane", "slot", "retained_pixel_charge", "maximum_record_body",
          "maximum_inflight_body_bytes"} \subseteq TrackNames
      /\ {"alpha", "cache_lookup"} \intersect TrackNames = {}
  BY <1>1, KindNamesApart DEF TrackNames, TrackNumbers, Rates
<1> HIDE DEF names
<1>3. /\ DOMAIN all = ProbeSpecial \union names
      /\ \A f \in ProbeSpecial : all[f] = ProbeValues(kind)[f]
      /\ \A f \in names \ ProbeSpecial : all[f] = 1
  BY DEF ProbeValues, ProbeSpecial, Fields, ++
<1> HIDE DEF all
<1>4. DOMAIN chosen = names /\ \A f \in names : chosen[f] = all[f]
  BY <1>3, SelectedAll
<1>5. g = [header |-> 0] ++ (options ++ chosen)
  BY DEF ProbeOf, Built, ProbeValues, all, names
<1> HIDE DEF chosen, g
<1>6. /\ DOMAIN g = {"header"} \union names \union DOMAIN options
      /\ g["header"] = 0
      /\ \A f \in names : g[f] = all[f]
      /\ \A f \in DOMAIN options : g[f] = options[f]
  BY <1>2, <1>4, <1>5 DEF ++
<1>7. /\ g.track_id = 0 /\ g.kind = kind /\ g.retained_pixel_charge = 0
      /\ g.lane = (IF kind = AUDIO THEN REALTIME_LANE ELSE BULK_LANE)
      /\ g.slot = (IF kind = VECTOR THEN VECTOR_SLOT ELSE 0)
      /\ g.maximum_record_body = 2 /\ g.maximum_inflight_body_bytes = 2
  BY <1>1, <1>2, <1>3, <1>6 DEF ProbeValues, ProbeSpecial
<1>8. \A f \in {"alpha", "cache_lookup"} \intersect DOMAIN KindFields(kind) : g[f] = 0
  BY <1>1, <1>3, <1>6 DEF ProbeValues, ProbeSpecial
<1> QED BY <1>1, <1>3, <1>6, <1>7, <1>8 DEF IsProbe, g

LEMMA ProbesDecode ==
  ASSUME NEW kind \in VIDEO..VECTOR, NEW options,
         \/ options = <<>>
         \/ kind = AUDIO /\ options = [direction |-> UPLINK]
  PROVE  /\ ProbeOf(kind, options).kind = "PROBE_TRACK_CONFIG"
         /\ DecodesTrack(ProbeOf(kind, options).fields, TRUE)
<1> DEFINE g == ProbeOf(kind, options).fields
<1>1. /\ ProbeOf(kind, options).kind = "PROBE_TRACK_CONFIG"
      /\ DOMAIN options \subseteq {"direction"}
      /\ "direction" \in DOMAIN options => kind = AUDIO /\ options["direction"] = UPLINK
  <2>1. CASE options = <<>>
    BY <2>1 DEF ProbeOf, Built
  <2>2. CASE kind = AUDIO /\ options = [direction |-> UPLINK]
    BY <2>2 DEF ProbeOf, Built
  <2> QED BY <2>1, <2>2
<1> DEFINE names == TrackNames \union DOMAIN KindFields(kind)
<1>2. /\ DOMAIN g = {"header"} \union names \union DOMAIN options
      /\ g.header = 0 /\ g.track_id = 0 /\ g.kind = kind /\ g.retained_pixel_charge = 0
      /\ g.lane = (IF kind = AUDIO THEN REALTIME_LANE ELSE BULK_LANE)
      /\ g.slot = (IF kind = VECTOR THEN VECTOR_SLOT ELSE 0)
      /\ g.maximum_record_body = 2 /\ g.maximum_inflight_body_bytes = 2
      /\ \A f \in {"alpha", "cache_lookup"} \intersect DOMAIN KindFields(kind) : g[f] = 0
      /\ \A f \in names \ ProbeSpecial : g[f] = 1
      /\ \A f \in DOMAIN options : g[f] = options[f]
  <2>1. IsProbe(g, kind, options)
    BY <1>1, ProbeMade
  <2> HIDE DEF g
  <2> QED BY <2>1 DEF IsProbe
<1> HIDE DEF g
<1>10. /\ g.lane \in {REALTIME_LANE, BULK_LANE} /\ g.maximum_record_body = 2
  BY <1>2, Zenon
<1>3. /\ \A f \in TrackNumbers \ ProbeSpecial : g[f] = 1
      /\ g.mode = 1 /\ g.context_id = 1 /\ g.surface_id = 1
      /\ g.target_latency_us = 1 /\ g.maximum_latency_us = 1
  BY <1>2 DEF TrackNames, TrackNumbers, ProbeSpecial
<1>4. kind \in {VIDEO, AUDIO, RASTER, IMAGE, VECTOR}
  BY DEF VIDEO, AUDIO, RASTER, IMAGE, VECTOR
<1>5. \A f \in TrackNames : g[f] \in TrackFields(kind)[f]
  <2>1. \A f \in TrackNumbers : g[f] \in U64
    <3>1. \A f \in TrackNumbers \ ProbeSpecial : g[f] \in U64
      BY <1>3 DEF U64
    <3>2. TrackNumbers \intersect ProbeSpecial \subseteq
            {"track_id", "kind", "slot", "retained_pixel_charge", "maximum_inflight_body_bytes"}
      BY DEF TrackNumbers, ProbeSpecial, Rates
    <3>3. \A f \in {"track_id", "kind", "slot", "retained_pixel_charge",
                    "maximum_inflight_body_bytes"} : g[f] \in U64
      BY <1>2 DEF U64, VIDEO, VECTOR, VECTOR_SLOT
    <3> QED BY <3>1, <3>2, <3>3
  <2>2. g.mode \in {LIVE, TIMED} /\ g.lane \in 0..3 /\ g.maximum_record_body \in U32
    BY <1>3, <1>10 DEF LIVE, REALTIME_LANE, BULK_LANE, U32
  <2>3. /\ \A f \in TrackNumbers : TrackFields(kind)[f] = U64
        /\ TrackFields(kind)["mode"] = {LIVE, TIMED} /\ TrackFields(kind)["lane"] = 0..3
        /\ TrackFields(kind)["maximum_record_body"] = U32
    BY TrackTypes
  <2> QED BY <2>1, <2>2, <2>3 DEF TrackNames
<1>6. /\ \A f \in DOMAIN KindFields(kind) : g[f] \in KindFields(kind)[f]
      /\ KindValid(g) /\ RequiredBody(g) <= 2
  <2>1. CASE kind = VIDEO
    <3>1. DOMAIN KindFields(kind) = VideoNames /\ KindFields(kind) = VideoFields
      BY <2>1, KindNames
    <3>2. \A f \in VideoNames \ {"alpha"} : g[f] = 1
      BY <1>2, <3>1 DEF VideoNames, ProbeSpecial
    <3>3. g.alpha = 0
      BY <1>2, <3>1 DEF VideoNames
    <3>4. \A f \in VideoNames : g[f] \in VideoFields[f]
      BY <3>2, <3>3 DEF VideoFields, VideoNames, Fields, ++, Text, U32, U64
    <3>5. {"codec_string", "decoder_configuration"} \intersect DOMAIN g = {}
      BY <1>1, <1>2, <3>1 DEF VideoNames, TrackNames, TrackNumbers, Rates
    <3>6. VideoValid(g)
      BY <3>2, <3>5 DEF VideoValid, VideoNames, Ordinary, TooLong, Pixels, NonzeroAll, MAX_RECORD_BODY,
         PREFIX, AsciiText, Bounded, Has
    <3>7. g.maximum_access_unit_bytes = 1
      BY <3>2 DEF VideoNames
    <3> QED BY <1>2, <2>1, <3>1, <3>4, <3>6, <3>7 DEF KindValid, RequiredBody, PREFIX,
         VIDEO, AUDIO, RASTER, IMAGE, VECTOR
  <2>2. CASE kind = AUDIO
    <3>1. DOMAIN KindFields(kind) = AudioNames /\ KindFields(kind) = AudioFields
      BY <2>2, KindNames
    <3>2. \A f \in AudioNames : g[f] = 1
      BY <1>2, <3>1 DEF AudioNames, ProbeSpecial
    <3>4. \A f \in AudioNames : g[f] \in AudioFields[f]
      BY <3>2 DEF AudioFields, AudioNames, Fields, ++, Text, U32, U64
    <3>5. "codec_string" \notin DOMAIN g
      BY <1>1, <1>2, <3>1 DEF AudioNames, TrackNames, TrackNumbers, Rates
    <3>6. AudioValid(g)
      <4>1. Ones[1] = 1
        BY DEF Ones, U64
      <4> QED BY <3>2, <3>5, <4>1 DEF AudioValid, AudioNames, Ordinary, MAX_AUDIO, Bounded, Has
    <3>7. g.maximum_access_unit_bytes = 1
      BY <3>2 DEF AudioNames
    <3> QED
      BY <1>2, <2>2, <3>1, <3>4, <3>6, <3>7 DEF KindValid, RequiredBody, PREFIX,
         VIDEO, AUDIO, RASTER, IMAGE, VECTOR
  <2>3. CASE kind = RASTER
    <3>1. DOMAIN KindFields(kind) = RasterNames /\ KindFields(kind) = RasterFields
      BY <2>3, KindNames
    <3>2. \A f \in RasterNames : g[f] = 1
      BY <1>2, <3>1 DEF RasterNames, ProbeSpecial
    <3>4. \A f \in RasterNames : g[f] \in RasterFields[f]
      BY <3>2 DEF RasterFields, RasterNames, Fields, ++, Bool, U32, U64
    <3>6. RasterValid(g) /\ g.width = 1 /\ g.height = 1
      BY <3>2 DEF RasterValid, RasterNames, Pixels, MAX_RECORD_BODY, PREFIX
    <3> QED
      BY <1>2, <2>3, <3>1, <3>4, <3>6 DEF KindValid, RequiredBody, PREFIX,
         VIDEO, AUDIO, RASTER, IMAGE, VECTOR
  <2>4. CASE kind = IMAGE
    <3>1. DOMAIN KindFields(kind) = ImageNames /\ KindFields(kind) = ImageFields
      BY <2>4, KindNames
    <3>2. \A f \in ImageNames \ {"cache_lookup"} : g[f] = 1
      BY <1>2, <3>1 DEF ImageNames, ProbeSpecial
    <3>3. g.cache_lookup = 0
      BY <1>2, <3>1 DEF ImageNames
    <3>4. \A f \in ImageNames : g[f] \in ImageFields[f]
      BY <3>2, <3>3 DEF ImageFields, ImageNames, Fields, ++, Bool, U32, U64
    <3>6. ImageValid(g) /\ g.encoded_length = 1
      BY <3>2, <3>3 DEF ImageValid, ImageNames, Pixels, MAX_RECORD_BODY
    <3> QED
      BY <1>2, <2>4, <3>1, <3>4, <3>6 DEF KindValid, RequiredBody, VIDEO, AUDIO, RASTER, IMAGE,
         VECTOR
  <2>5. CASE kind = VECTOR
    <3>1. DOMAIN KindFields(kind) = VectorNames /\ KindFields(kind) = VectorFields
      BY <2>5, KindNames
    <3>2. \A f \in VectorNames : g[f] = 1
      BY <1>2, <3>1 DEF VectorNames, ProbeSpecial
    <3>4. \A f \in VectorNames : g[f] \in VectorFields[f]
      BY <3>2 DEF VectorFields, VectorNames, Fields, U32
    <3>6. VectorValid(g) /\ g.maximum_scene_bytes = 1
      BY <3>2 DEF VectorValid, VectorNames, VectorPixels, MAX_SCENE
    <3> QED
      BY <1>2, <2>5, <3>1, <3>4, <3>6
         DEF KindValid, RequiredBody, PREFIX, VIDEO, AUDIO, RASTER, IMAGE, VECTOR
  <2> QED BY <1>4, <2>1, <2>2, <2>3, <2>4, <2>5
<1>7. ReadsWith(TrackFields(kind), TrackOptions(kind), g)
  <2>1. \A f \in names : g[f] \in TrackFields(kind)[f]
    BY <1>5, <1>6, KindNamesApart, TrackTypes
  <2>2. DOMAIN TrackFields(kind) = names
    BY TrackTypes
  <2>3. "direction" \in DOMAIN TrackOptions(kind)
        /\ TrackOptions(kind)["direction"] = {DOWNLINK, UPLINK}
    BY DEF TrackOptions, ++
  <2>4. \A f \in DOMAIN options : f = "direction" /\ g[f] = UPLINK
    BY <1>1, <1>2
  <2>5. "direction" \notin names
    BY KindNamesApart DEF TrackNames, TrackNumbers, Rates
  <2> HIDE DEF names
  <2> QED BY <1>2, <2>1, <2>2, <2>3, <2>4, <2>5 DEF ReadsWith, ++
<1>8. TrackValid(g, TRUE)
  <2>1. DirectionOf(g) = UPLINK => UplinkAllowed(g)
    <3>1. "direction" \notin names
      BY KindNamesApart DEF TrackNames, TrackNumbers, Rates
    <3>2. Has(g, "direction") => kind = AUDIO
      BY <1>1, <1>2, <3>1 DEF Has
    <3>3. DirectionOf(g) = UPLINK => Has(g, "direction")
      BY DEF DirectionOf, Get, Has, DOWNLINK, UPLINK
    <3>4. kind = AUDIO => UplinkAllowed(g)
      BY <1>2, <1>3 DEF UplinkAllowed, LIVE, AUDIO, VECTOR
    <3> QED BY <3>2, <3>3, <3>4
  <2>2. g.kind = VECTOR => g.slot = VECTOR_SLOT /\ g.mode = LIVE /\ g.lane = BULK_LANE
    BY <1>2, <1>3 DEF LIVE, AUDIO, VECTOR
  <2>3. /\ NonzeroAll(g, {"context_id", "surface_id"}) /\ g.track_id = 0
        /\ g.maximum_record_body <= MAX_RECORD_BODY /\ g.lane \in {REALTIME_LANE, BULK_LANE}
        /\ g.target_latency_us <= g.maximum_latency_us
        /\ g.maximum_record_body <= g.maximum_inflight_body_bytes
    BY <1>2, <1>3 DEF NonzeroAll, MAX_RECORD_BODY
  <2> QED BY <1>2, <1>6, <2>1, <2>2, <2>3 DEF TrackValid
<1>9. DecodesTrack(g, TRUE)
  <2>1. Has(g, "kind") /\ HeaderIs(g, "track_id")
    BY <1>2 DEF Has, HeaderIs, TrackNames, TrackNumbers
  <2> QED BY <1>2, <1>7, <1>8, <2>1 DEF DecodesTrack
<1> QED BY <1>1, <1>9 DEF g

LEMMA TrackOpeningsDecode ==
  ASSUME NEW r \in TrackOpenings
  PROVE  r.kind = "PROBE_TRACK_CONFIG" /\ DecodesTrack(r.fields, TRUE)
<1>1. CASE \E kind \in VIDEO..VECTOR : r = ProbeOf(kind, <<>>)
  BY <1>1, ProbesDecode
<1>2. CASE r = ProbeOf(AUDIO, [direction |-> UPLINK])
  <2>1. AUDIO \in VIDEO..VECTOR
    BY DEF VIDEO, AUDIO, VECTOR
  <2> QED BY <1>2, <2>1, ProbesDecode
<1> QED BY <1>1, <1>2 DEF TrackOpenings

\* What is read of a track.
LEMMA TrackRead ==
  ASSUME NEW p, NEW probe, DecodesTrack(p, probe)
  PROVE  /\ p.kind \in VIDEO..VECTOR
         /\ TrackNames \union DOMAIN KindFields(p.kind) \subseteq DOMAIN p
         /\ \A f \in TrackNumbers : p[f] \in U64
         /\ p.maximum_record_body \in U32 /\ p.lane \in {REALTIME_LANE, BULK_LANE}
         /\ \A f \in DOMAIN KindFields(p.kind) : p[f] \in KindFields(p.kind)[f]
         /\ KindValid(p) /\ RequiredBody(p) \in 1..p.maximum_record_body
         /\ NonzeroAll(p, {"context_id", "surface_id", "maximum_record_body",
                           "maximum_inflight_body_bytes"})
<1>1. /\ p.kind \in VIDEO..VECTOR /\ ReadsWith(TrackFields(p.kind), TrackOptions(p.kind), p)
      /\ TrackValid(p, probe)
  BY DEF DecodesTrack
<1>2. DOMAIN TrackFields(p.kind) = TrackNames \union DOMAIN KindFields(p.kind)
  BY TrackTypes
<1>3. "header" \notin DOMAIN TrackFields(p.kind)
  BY <1>1, <1>2, KindNamesApart DEF TrackNames, TrackNumbers, Rates
<1>4. \A f \in DOMAIN TrackFields(p.kind) : f \in DOMAIN p /\ p[f] \in TrackFields(p.kind)[f]
  BY <1>1, <1>3, ReadKnown
<1>5. \A f \in TrackNumbers : p[f] \in U64
  <2>1. \A f \in TrackNumbers : TrackFields(p.kind)[f] = U64
    BY TrackTypes
  <2> QED BY <1>2, <1>4, <2>1 DEF TrackNames
<1>6. p.maximum_record_body \in U32
  <2>1. TrackFields(p.kind)["maximum_record_body"] = U32
    BY TrackTypes
  <2> QED BY <1>2, <1>4, <2>1 DEF TrackNames
<1>7. \A f \in DOMAIN KindFields(p.kind) : p[f] \in KindFields(p.kind)[f]
  <2>1. \A f \in DOMAIN KindFields(p.kind) : f \notin TrackNames
    BY <1>1, KindNamesApart
  <2>2. \A f \in DOMAIN KindFields(p.kind) \ TrackNames : TrackFields(p.kind)[f] = KindFields(p.kind)[f]
    BY TrackTypes
  <2> QED BY <1>2, <1>4, <2>1, <2>2
<1>8. /\ KindValid(p) /\ RequiredBody(p) <= p.maximum_record_body
      /\ p.lane \in {REALTIME_LANE, BULK_LANE} /\ NonzeroAll(p, {"context_id", "surface_id"})
      /\ p.maximum_record_body <= p.maximum_inflight_body_bytes
  BY <1>1 DEF TrackValid
<1>9. RequiredBody(p) \in Nat /\ RequiredBody(p) >= 1
  <2>1. CASE p.kind = VIDEO
    BY <1>8, <2>1 DEF KindValid, VideoValid, RequiredBody, PREFIX, MAX_RECORD_BODY,
       VIDEO, AUDIO, RASTER, IMAGE, VECTOR
  <2>2. CASE p.kind = AUDIO
    BY <1>8, <2>2 DEF KindValid, AudioValid, RequiredBody, PREFIX, MAX_AUDIO,
       VIDEO, AUDIO, RASTER, IMAGE, VECTOR
  <2>3. CASE p.kind = RASTER
    <3>1. p.width \in 1..3 /\ p.height \in 1..3
      BY <1>8, <2>3 DEF KindValid, RasterValid, Pixels, VIDEO, AUDIO, RASTER, IMAGE, VECTOR
    <3>2. RequiredBody(p) = 1 + p.width * p.height
      BY <2>3 DEF RequiredBody, PREFIX, VIDEO, AUDIO, RASTER, IMAGE, VECTOR
    <3>3. p.width * p.height \in Nat
      BY <3>1
    <3> QED BY <3>2, <3>3
  <2>4. CASE p.kind = IMAGE
    BY <1>8, <2>4 DEF KindValid, ImageValid, RequiredBody, MAX_RECORD_BODY,
       VIDEO, AUDIO, RASTER, IMAGE, VECTOR
  <2>5. CASE p.kind = VECTOR
    BY <1>8, <2>5 DEF KindValid, VectorValid, RequiredBody, PREFIX, MAX_SCENE,
       VIDEO, AUDIO, RASTER, IMAGE, VECTOR
  <2> QED BY <1>1, <2>1, <2>2, <2>3, <2>4, <2>5 DEF VIDEO, AUDIO, RASTER, IMAGE, VECTOR
<1>10. p.maximum_record_body # 0 /\ p.maximum_inflight_body_bytes # 0
  <2>1. p.maximum_inflight_body_bytes \in U64
    BY <1>5 DEF TrackNumbers
  <2> QED BY <1>6, <1>8, <1>9, <2>1 DEF U32, U64, Widest
<1>11. RequiredBody(p) \in 1..p.maximum_record_body
  BY <1>6, <1>8, <1>9 DEF U32
<1>12. NonzeroAll(p, {"context_id", "surface_id", "maximum_record_body",
                      "maximum_inflight_body_bytes"})
  BY <1>8, <1>10 DEF NonzeroAll
<1> QED BY <1>1, <1>2, <1>4, <1>5, <1>6, <1>7, <1>8, <1>11, <1>12

\* The rules of a kind are about its own fields.
LEMMA KindRulesKept ==
  ASSUME NEW p, NEW g, p.kind \in VIDEO..VECTOR, g.kind = p.kind, DOMAIN g = DOMAIN p,
         \A f \in DOMAIN p \ {"track_id", "header"} : g[f] = p[f],
         DOMAIN KindFields(p.kind) \subseteq DOMAIN p
  PROVE  (KindValid(p) => KindValid(g)) /\ RequiredBody(g) = RequiredBody(p)
<1>1. {"track_id", "header"} \intersect DOMAIN KindFields(p.kind) = {}
  BY KindNamesApart DEF TrackNames, TrackNumbers
<1>2. \A f \in DOMAIN KindFields(p.kind) : g[f] = p[f]
  BY <1>1
<1>3. \A f : f \notin {"track_id", "header"} => (Has(g, f) <=> Has(p, f)) /\ (Has(p, f) => g[f] = p[f])
  BY DEF Has
<1>4. CASE p.kind = VIDEO
  <2>1. \A f \in VideoNames : g[f] = p[f]
    BY <1>2, <1>4, KindNames
  <2> QED
    BY <1>3, <1>4, <2>1 DEF KindValid, RequiredBody, VideoValid, VideoNames, NonzeroAll, AsciiText,
       Bounded, VIDEO, AUDIO, RASTER, IMAGE, VECTOR
<1>5. CASE p.kind = AUDIO
  <2>1. \A f \in AudioNames : g[f] = p[f]
    BY <1>2, <1>5, KindNames
  <2> QED
    BY <1>3, <1>5, <2>1 DEF KindValid, RequiredBody, AudioValid, AudioNames, Bounded,
       VIDEO, AUDIO, RASTER, IMAGE, VECTOR
<1>6. CASE p.kind = RASTER
  <2>1. \A f \in RasterNames : g[f] = p[f]
    BY <1>2, <1>6, KindNames
  <2> QED
    BY <1>6, <2>1 DEF KindValid, RequiredBody, RasterValid, RasterNames,
       VIDEO, AUDIO, RASTER, IMAGE, VECTOR
<1>7. CASE p.kind = IMAGE
  <2>1. \A f \in ImageNames : g[f] = p[f]
    BY <1>2, <1>7, KindNames
  <2> QED
    BY <1>3, <1>7, <2>1 DEF KindValid, RequiredBody, ImageValid, ImageNames,
       VIDEO, AUDIO, RASTER, IMAGE, VECTOR
<1>8. CASE p.kind = VECTOR
  <2>1. \A f \in VectorNames : g[f] = p[f]
    BY <1>2, <1>8, KindNames
  <2> QED
    BY <1>8, <2>1 DEF KindValid, RequiredBody, VectorValid, VectorNames,
       VIDEO, AUDIO, RASTER, IMAGE, VECTOR
<1> QED BY <1>4, <1>5, <1>6, <1>7, <1>8 DEF VIDEO, AUDIO, RASTER, IMAGE, VECTOR

LEMMA ProbedTracksDecode ==
  ASSUME NEW p, DecodesTrack(p, TRUE), "header" \in DOMAIN p, NEW r \in ProbedTracks(p)
  PROVE  r.kind = "CREATE_TRACK" /\ DecodesTrack(r.fields, FALSE)
<1> DEFINE g == r.fields
           changed == [p EXCEPT !.track_id = 1, !.header = 1]
<1>1. r = Built("CREATE_TRACK", 1, changed) /\ \A f \in Rates : p[f] # 0
  BY DEF ProbedTracks
<1>2. /\ p.kind \in VIDEO..VECTOR /\ TrackNames \union DOMAIN KindFields(p.kind) \subseteq DOMAIN p
      /\ KindValid(p)
      /\ NonzeroAll(p, {"context_id", "surface_id", "maximum_record_body",
                        "maximum_inflight_body_bytes"})
  BY TrackRead
<1>3. "track_id" \in DOMAIN p
  BY <1>2 DEF TrackNames, TrackNumbers
<1>4. /\ DOMAIN changed = DOMAIN p /\ changed["track_id"] = 1 /\ changed["header"] = 1
      /\ \A f \in DOMAIN p \ {"track_id", "header"} : changed[f] = p[f]
  BY <1>3
<1> HIDE DEF changed
<1>5. /\ DOMAIN g = DOMAIN p /\ g["track_id"] = 1 /\ g["header"] = 1
      /\ \A f \in DOMAIN p \ {"track_id", "header"} : g[f] = p[f]
      /\ r.kind = "CREATE_TRACK"
  BY <1>1, <1>3, <1>4 DEF Built, ++
<1> HIDE DEF g
<1>6. \A f \in TrackNames \ {"track_id"} : f \in DOMAIN p /\ g[f] = p[f]
  BY <1>2, <1>5 DEF TrackNames, TrackNumbers, Rates
<1>7. g.kind = p.kind
  BY <1>6 DEF TrackNames, TrackNumbers
<1>8. ReadsWith(TrackFields(p.kind), TrackOptions(p.kind), g)
  <2>1. ReadsWith(TrackFields(p.kind), TrackOptions(p.kind), p)
    BY DEF DecodesTrack
  <2>2. (TrackFields(p.kind) ++ TrackOptions(p.kind))["track_id"] = U64
        /\ "track_id" \in DOMAIN (TrackFields(p.kind) ++ TrackOptions(p.kind))
    <3>1. "track_id" \in DOMAIN TrackFields(p.kind) /\ TrackFields(p.kind)["track_id"] = U64
      BY TrackTypes DEF TrackNames, TrackNumbers
    <3> QED BY <3>1 DEF ++
  <2> QED BY <1>5, <2>1, <2>2 DEF ReadsWith, U64
<1>9. KindValid(g) /\ RequiredBody(g) = RequiredBody(p)
  BY <1>2, <1>5, <1>7, KindRulesKept
<1>10. DirectionOf(g) = DirectionOf(p)
  BY <1>5 DEF DirectionOf, Get
<1>11. /\ g.mode = p.mode /\ g.lane = p.lane /\ g.slot = p.slot
       /\ g.retained_pixel_charge = p.retained_pixel_charge
       /\ g.maximum_record_body = p.maximum_record_body
       /\ g.maximum_inflight_body_bytes = p.maximum_inflight_body_bytes
       /\ g.target_latency_us = p.target_latency_us /\ g.maximum_latency_us = p.maximum_latency_us
       /\ g.context_id = p.context_id /\ g.surface_id = p.surface_id
       /\ \A f \in Rates : g[f] = p[f]
  BY <1>6 DEF TrackNames, TrackNumbers, Rates
<1>12. TrackValid(g, FALSE)
  <2>1. TrackValid(p, TRUE)
    BY DEF DecodesTrack
  <2>2. NonzeroAll(g, Rates \union {"track_id", "maximum_record_body", "maximum_inflight_body_bytes"})
    BY <1>1, <1>2, <1>5, <1>11 DEF NonzeroAll
  <2>3. NonzeroAll(g, {"context_id", "surface_id"})
    BY <1>2, <1>11 DEF NonzeroAll
  <2>4. UplinkAllowed(p) => UplinkAllowed(g)
    BY <1>7, <1>11 DEF UplinkAllowed
  <2> QED BY <1>7, <1>9, <1>10, <1>11, <2>1, <2>2, <2>3, <2>4 DEF TrackValid
<1>13. Has(g, "kind") /\ HeaderIs(g, "track_id")
  BY <1>2, <1>5 DEF Has, HeaderIs, TrackNames, TrackNumbers
<1> QED BY <1>2, <1>5, <1>7, <1>8, <1>12, <1>13 DEF DecodesTrack, g

LEMMA ChannelsDecode ==
  ASSUME NEW p, DecodesTrack(p, FALSE), NEW r \in ChannelOf(p)
  PROVE  r.kind = "CHANNEL_OPEN" /\ DecodesChannel(r.fields)
<1> DEFINE g == r.fields
           names == {"context_id", "surface_id", "track_id", "lane"}
           chosen == Select(p, names)
<1>1. r = Built("CHANNEL_OPEN", p.track_id,
                chosen ++ [request_id |-> 1, session_id |-> 1, channel_generation |-> 1,
                           track_kind |-> p.kind, client_nonce |-> 1, authentication_tag |-> 1])
  BY DEF ChannelOf
<1>2. /\ names \subseteq DOMAIN p /\ p.kind \in 1..5 /\ p.lane \in {2, 3}
      /\ \A f \in {"context_id", "surface_id", "track_id"} : p[f] \in U64 \ {0}
  <2>1. /\ p.kind \in VIDEO..VECTOR /\ TrackNames \subseteq DOMAIN p
        /\ p.lane \in {REALTIME_LANE, BULK_LANE} /\ \A f \in TrackNumbers : p[f] \in U64
    BY TrackRead
  <2>2. p.track_id # 0 /\ p.context_id # 0 /\ p.surface_id # 0
    BY DEF DecodesTrack, TrackValid, NonzeroAll
  <2> QED
    BY <2>1, <2>2 DEF TrackNames, TrackNumbers, VIDEO, VECTOR, REALTIME_LANE, BULK_LANE
<1>3. DOMAIN chosen = names /\ \A f \in names : chosen[f] = p[f]
  BY <1>2, SelectedAll
<1> HIDE DEF chosen
<1>4. /\ DOMAIN g = DOMAIN ChannelFields \union {"header"}
      /\ \A f \in names : g[f] = p[f]
      /\ g.header = p.track_id /\ g.request_id = 1 /\ g.session_id = 1 /\ g.channel_generation = 1
      /\ g.track_kind = p.kind /\ g.client_nonce = 1 /\ g.authentication_tag = 1
      /\ r.kind = "CHANNEL_OPEN"
  BY <1>1, <1>3, ChannelTypes DEF Built, ++
<1> HIDE DEF g
<1>5. Reads(ChannelFields, g)
  <2>1. \A f \in DOMAIN ChannelFields : g[f] \in ChannelFields[f]
    BY <1>2, <1>4, ChannelTypes DEF U64, Fixed
  <2>9. "header" \notin DOMAIN ChannelFields
    BY ChannelTypes
  <2> QED BY <1>4, <2>1, <2>9, ReadsNamed
<1>6. /\ IsRequest(g) /\ HeaderIs(g, "track_id") /\ g.lane \in {REALTIME, BULK}
      /\ g.track_kind \in TrackKinds
      /\ NonzeroAll(g, {"session_id", "context_id", "surface_id", "track_id", "channel_generation"})
  BY <1>2, <1>4 DEF IsRequest, HeaderIs, REALTIME, BULK, TrackKinds, NonzeroAll
<1> QED BY <1>4, <1>5, <1>6 DEF DecodesChannel, g

(***************************************************************************)
(* Overlay windows: their status, what dresses them and their events.      *)
(***************************************************************************)
AddressNames == {"context_id", "surface_id", "generation"}
WindowScalars == {"x", "y", "width", "height", "min_width", "min_height"}
WindowNames == {"expected_revision", "mode", "visible"} \union WindowScalars
ParentNames == {"parent_context_id", "parent_surface_id"}
ViewportNames == {"viewport_width", "viewport_height", "scale_numerator", "scale_denominator"}
SubmissionNames == {"track_id", "channel_generation", "revision", "epoch"}
StatusNames == {"focused", "scene_revision", "viewport_revision", "accepted_revision"}

LEMMA AddressTypes == DOMAIN Address = AddressNames /\ \A f \in AddressNames : Address[f] = U64
BY DEF Address, Fields, AddressNames

LEMMA WindowTypes ==
  /\ DOMAIN WindowFields = WindowNames
  /\ WindowFields["expected_revision"] = U64 /\ WindowFields["mode"] = WindowModes
  /\ WindowFields["visible"] = Bool /\ \A f \in WindowScalars : WindowFields[f] = Scalars
  /\ DOMAIN ParentFields = ParentNames /\ \A f \in ParentNames : ParentFields[f] = U64
BY DEF WindowFields, Rectangle, ParentFields, Fields, ++, WindowNames, WindowScalars, ParentNames

LEMMA StatusTypes ==
  /\ DOMAIN ViewportFields = ViewportNames
  /\ \A f \in {"viewport_width", "viewport_height"} : ViewportFields[f] = Scalars
  /\ \A f \in {"scale_numerator", "scale_denominator"} : ViewportFields[f] = U32
  /\ DOMAIN Submission = SubmissionNames
  /\ \A f \in SubmissionNames \ {"epoch"} : Submission[f] = U64
  /\ Submission["epoch"] = U32
  /\ DOMAIN WindowStatusFields = WindowNames \union ViewportNames \union StatusNames
  /\ \A f \in WindowNames : WindowStatusFields[f] = WindowFields[f]
  /\ \A f \in ViewportNames : WindowStatusFields[f] = ViewportFields[f]
  /\ WindowStatusFields["focused"] = Bool
  /\ \A f \in StatusNames \ {"focused"} : WindowStatusFields[f] = U64
<1>1. /\ DOMAIN ViewportFields = ViewportNames
      /\ \A f \in {"viewport_width", "viewport_height"} : ViewportFields[f] = Scalars
      /\ \A f \in {"scale_numerator", "scale_denominator"} : ViewportFields[f] = U32
  BY DEF ViewportFields, Fields, ++, ViewportNames
<1>2. /\ DOMAIN Submission = SubmissionNames
      /\ \A f \in SubmissionNames \ {"epoch"} : Submission[f] = U64
      /\ Submission["epoch"] = U32
  BY DEF Submission, Fields, ++, SubmissionNames
<1>3. WindowNames \intersect (ViewportNames \union StatusNames) = {} /\ ViewportNames \intersect StatusNames = {}
  BY DEF WindowNames, WindowScalars, ViewportNames, StatusNames
<1>4. DOMAIN WindowFields = WindowNames
  BY WindowTypes
<1>5. StatusNames = {"focused", "scene_revision", "viewport_revision", "accepted_revision"}
  BY DEF StatusNames
<1> QED BY <1>1, <1>2, <1>3, <1>4, <1>5 DEF WindowStatusFields, Fields, ++

\* The kinds of overlay records have their rules.
LEMMA OverlayOpeningsDecode ==
  ASSUME NEW r \in OverlayOpenings
  PROVE  /\ r.kind \in OverlayKinds /\ OverlayDecodes(r.kind, r.fields)
         /\ r.kind = "OVERLAY_ENV_CHANGED" => OverlayEncodes(r.kind, r.fields)
<1> DEFINE g == r.fields
<1>1. ASSUME NEW parent \in {<<>>, [parent_context_id |-> 1, parent_surface_id |-> 2]},
             r = Built("SET_OVERLAY_WINDOW", 1,
                       parent ++ Fields(DOMAIN Address \union DOMAIN WindowFields, 1))
      PROVE  r.kind = "SET_OVERLAY_WINDOW" /\ DecodesWindow(g)
  <2>1. /\ DOMAIN parent \in {{}, ParentNames}
        /\ DOMAIN parent = ParentNames => parent.parent_context_id = 1 /\ parent.parent_surface_id = 2
    <3>1. CASE parent = <<>>
      BY <3>1 DEF ParentNames
    <3>2. CASE parent = [parent_context_id |-> 1, parent_surface_id |-> 2]
      BY <3>2 DEF ParentNames
    <3> QED BY <3>1, <3>2
  <2>2. {"header"} \union ParentNames \subseteq {"header", "parent_context_id", "parent_surface_id"}
        /\ {"header", "parent_context_id", "parent_surface_id"} \intersect (AddressNames \union WindowNames) = {}
    BY DEF ParentNames, AddressNames, WindowNames, WindowScalars
  <2>3. /\ DOMAIN g = {"header"} \union DOMAIN parent \union (AddressNames \union WindowNames)
        /\ g.header = 1
        /\ \A f \in AddressNames \union WindowNames : g[f] = 1
        /\ \A f \in DOMAIN parent : g[f] = parent[f]
        /\ r.kind = "SET_OVERLAY_WINDOW"
    <3> DEFINE all == AddressNames \union WindowNames
               rest == Fields(all, 1)
    <3>1. r.kind = "SET_OVERLAY_WINDOW" /\ g = [header |-> 1] ++ (parent ++ rest)
      BY <1>1, AddressTypes, WindowTypes DEF Built
    <3>2. DOMAIN rest = all /\ \A f \in all : rest[f] = 1
      BY DEF Fields
    <3>3. DOMAIN parent \intersect (all \union {"header"}) = {} /\ "header" \notin all
      BY <2>1, <2>2 DEF ParentNames
    <3> HIDE DEF g, rest, all
    <3>4. /\ DOMAIN g = {"header"} \union DOMAIN parent \union all
          /\ g.header = 1
          /\ \A f \in all : g[f] = 1
          /\ \A f \in DOMAIN parent : g[f] = parent[f]
      BY <3>1, <3>2, <3>3 DEF ++
    <3> QED BY <3>1, <3>4 DEF all
  <2> HIDE DEF g
  <2>4. ReadsWith(Address ++ WindowFields, ParentFields, g)
    <3>1. \A f \in AddressNames : g[f] \in Address[f]
      BY <2>3, AddressTypes DEF U64
    <3>2. \A f \in WindowNames : g[f] \in WindowFields[f]
      BY <2>3, WindowTypes DEF WindowNames, U64, WindowModes, Bool, Scalars, MAX_EXTENT
    <3>3. \A f \in DOMAIN parent : f \in ParentNames /\ g[f] \in ParentFields[f]
      BY <2>1, <2>3, WindowTypes DEF ParentNames, U64
    <3> QED BY <2>2, <2>3, <3>1, <3>2, <3>3, AddressTypes, WindowTypes DEF ReadsWith, ++
  <2>5. /\ \A f \in {"context_id", "surface_id", "generation", "x", "y", "width", "height",
                     "min_width", "min_height"} : g[f] = 1
    BY <2>3 DEF AddressNames, WindowNames, WindowScalars
  <2>6. AddressValid(g) /\ HeaderIs(g, "surface_id") /\ RectangleValid(g)
    BY <2>3, <2>5, AddressTypes DEF AddressValid, NonzeroAll, AddressNames, HeaderIs, RectangleValid,
       MAX_EXTENT
  <2>7. ParentNames \intersect DOMAIN g # {} => DOMAIN parent = ParentNames
    BY <2>1, <2>2, <2>3 DEF ParentNames
  <2>8. DOMAIN parent = ParentNames =>
          ParentNames \subseteq DOMAIN g /\ g.parent_context_id = 1 /\ g.parent_surface_id = 2
    BY <2>1, <2>3 DEF ParentNames
  <2>9. WindowValid(g)
    BY <2>5, <2>6, <2>7, <2>8, WindowTypes DEF WindowValid, NonzeroAll, ParentNames
  <2> QED BY <2>3, <2>4, <2>6, <2>9 DEF DecodesWindow, Addressed
<1>2. CASE r = Built("OVERLAY_VIEWPORT_CHANGED", 0, Fields(DOMAIN ViewportFields \union {"revision"}, 1))
  <2> DEFINE names == ViewportNames \union {"revision"}
             types == ViewportFields ++ [revision |-> U64]
             body == Fields(names, 1)
  <2>1. DOMAIN ViewportFields = ViewportNames
    BY StatusTypes
  <2>2. DOMAIN body = names /\ \A f \in names : body[f] = 1
    BY DEF Fields
  <2>3. r.kind = "OVERLAY_VIEWPORT_CHANGED" /\ g = [header |-> 0] ++ body
    BY <1>2, <2>1 DEF Built
  <2> HIDE DEF body, g
  <2>4. "header" \notin names
    BY DEF ViewportNames
  <2>5. DOMAIN g = names \union {"header"} /\ g.header = 0 /\ \A f \in names : g[f] = 1
    BY <2>2, <2>3, <2>4 DEF ++
  <2>6. DOMAIN types = names /\ \A f \in names : 1 \in types[f]
    <3>1. \A f \in ViewportNames : 1 \in ViewportFields[f]
      BY StatusTypes DEF ViewportNames, Scalars, MAX_EXTENT, U32
    <3>2. "revision" \notin ViewportNames /\ 1 \in U64
      BY DEF ViewportNames, U64
    <3> QED BY <2>1, <3>1, <3>2 DEF ++
  <2> HIDE DEF types
  <2>7. Reads(types, g)
    <3>1. /\ "header" \notin DOMAIN types /\ DOMAIN g = DOMAIN types \union {"header"}
          /\ \A f \in DOMAIN types : g[f] \in types[f]
      BY <2>4, <2>5, <2>6
    <3> QED BY <3>1, ReadsNamed
  <2>8. ViewportChangedValid(g)
    BY <2>1, <2>5 DEF ViewportChangedValid, ViewportValid, NonzeroAll
  <2>9. DecodesViewportChanged(g)
    BY <2>5, <2>7, <2>8 DEF DecodesViewportChanged, types
  <2> QED BY <2>3, <2>9 DEF OverlayKinds, OverlayDecodes, g
<1>3. CASE r = Built("OVERLAY_ENV_CHANGED", 0,
                     [reduced_motion |-> Null] ++ Fields(DOMAIN EnvironmentFields, 1))
  BY <1>3 DEF Built, ++, Fields, EnvironmentFields, OverlayKinds, OverlayDecodes, OverlayEncodes,
     DecodesEnvironment, EncodesEnvironment, EnvironmentValid, Reads, ReadsWith, Scalars, MAX_EXTENT,
     Text, U64, Bool, Null, TooLong
<1>4. CASE r = Built("OVERLAY_INPUT_RENEW", 0, Fields({"lane_generation", "watchdog_us"}, 1))
  BY <1>4 DEF Built, ++, Fields, OverlayKinds, OverlayDecodes, DecodesRenew, Reads, ReadsWith,
     RenewValid, Watchdogs, U64
<1>5. ASSUME r.kind = "SET_OVERLAY_WINDOW", DecodesWindow(g)
      PROVE  r.kind \in OverlayKinds /\ OverlayDecodes(r.kind, g)
  BY <1>5 DEF OverlayKinds, OverlayDecodes
<1>6. r \in {Built("SET_OVERLAY_WINDOW", 1,
                   parent ++ Fields(DOMAIN Address \union DOMAIN WindowFields, 1)) :
               parent \in {<<>>, [parent_context_id |-> 1, parent_surface_id |-> 2]}} =>
        r.kind = "SET_OVERLAY_WINDOW" /\ DecodesWindow(g)
  BY <1>1
<1> QED BY <1>2, <1>3, <1>4, <1>5, <1>6 DEF OverlayOpenings

\* A window that was read.
LEMMA WindowRead ==
  ASSUME NEW p, DecodesWindow(p)
  PROVE  /\ AddressNames \union WindowNames \subseteq DOMAIN p
         /\ DOMAIN p \subseteq AddressNames \union WindowNames \union ParentNames \union {"header"}
         /\ \A f \in AddressNames : p[f] \in U64 \ {0}
         /\ \A f \in WindowNames : p[f] \in WindowFields[f]
         /\ \A f \in ParentNames \intersect DOMAIN p : p[f] \in U64
         /\ WindowValid(p)
<1> DEFINE required == Address ++ WindowFields
<1>1. /\ DOMAIN required = AddressNames \union WindowNames
      /\ \A f \in AddressNames : required[f] = U64
      /\ \A f \in WindowNames : required[f] = WindowFields[f]
  <2>1. AddressNames \intersect WindowNames = {}
    BY DEF AddressNames, WindowNames, WindowScalars
  <2> QED BY <2>1, AddressTypes, WindowTypes DEF ++
<1>2. ReadsWith(required, ParentFields, p) /\ AddressValid(p) /\ WindowValid(p)
  BY DEF DecodesWindow, Addressed
<1> HIDE DEF required
<1>3. ParentNames \intersect (AddressNames \union WindowNames \union {"header"}) = {}
      /\ "header" \notin AddressNames \union WindowNames
  BY DEF ParentNames, AddressNames, WindowNames, WindowScalars
<1>4. /\ \A f \in DOMAIN required : f \in DOMAIN p /\ p[f] \in required[f]
      /\ DOMAIN p \subseteq DOMAIN required \union ParentNames \union {"header"}
      /\ \A f \in DOMAIN p \ (DOMAIN required \union {"header"}) : p[f] \in ParentFields[f]
  BY <1>1, <1>2, <1>3, ReadKnown, WindowTypes
<1>5. \A f \in AddressNames : p[f] # 0
  BY <1>2, AddressTypes DEF AddressValid, NonzeroAll
<1>6. \A f \in ParentNames \intersect DOMAIN p : p[f] \in U64
  BY <1>1, <1>3, <1>4, WindowTypes
<1> QED BY <1>1, <1>2, <1>4, <1>5, <1>6

LEMMA StatusesDecode ==
  ASSUME NEW p, DecodesWindow(p), NEW r \in Statuses(p)
  PROVE  r.kind = "OVERLAY_STATUS" /\ DecodesWindowStatus(r.fields)
<1> DEFINE g == r.fields
           first == [expected_revision |-> 1]
           viewport == Fields(ViewportNames, 1)
           last(accepted) == [focused |-> 0, scene_revision |-> 0, viewport_revision |-> 1,
                              accepted_revision |-> accepted]
<1>1. PICK submission \in {<<>>, Fields(SubmissionNames, 1)}, accepted \in 0..1 :
        /\ r = Built("OVERLAY_STATUS", p.surface_id,
                     first ++ p ++ submission ++ viewport ++ last(accepted))
        /\ submission # <<>> => accepted = 1
  <2> DEFINE status(submission, accepted) ==
        Built("OVERLAY_STATUS", p.surface_id,
              [expected_revision |-> 1] ++ p ++ submission ++ Fields(DOMAIN ViewportFields, 1) ++
              [focused |-> 0, scene_revision |-> 0, viewport_revision |-> 1,
               accepted_revision |-> accepted])
  <2>1. r \in {status(<<>>, 0), status(Fields(DOMAIN Submission, 1), 1)}
    BY DEF Statuses
  <2>2. DOMAIN Submission = SubmissionNames /\ DOMAIN ViewportFields = ViewportNames
    BY StatusTypes
  <2>3. \A submission, accepted :
          status(submission, accepted) =
            Built("OVERLAY_STATUS", p.surface_id,
                  first ++ p ++ submission ++ viewport ++ last(accepted))
    BY <2>2
  <2> HIDE DEF status, first, viewport, last
  <2> QED BY <2>1, <2>2, <2>3
<1>2. /\ DOMAIN submission \in {{}, SubmissionNames} /\ \A f \in DOMAIN submission : submission[f] = 1
      /\ DOMAIN submission # {} => accepted = 1
  <2>1. CASE submission = <<>>
    BY <2>1
  <2>2. CASE submission = Fields(SubmissionNames, 1) /\ submission # <<>>
    BY <1>1, <2>2 DEF Fields
  <2> QED BY <2>1, <2>2
<1>3. /\ DOMAIN first = {"expected_revision"} /\ first["expected_revision"] = 1
      /\ DOMAIN viewport = ViewportNames /\ \A f \in ViewportNames : viewport[f] = 1
      /\ DOMAIN last(accepted) = StatusNames /\ last(accepted).focused = 0
      /\ last(accepted).scene_revision = 0 /\ last(accepted).viewport_revision = 1
      /\ last(accepted).accepted_revision = accepted
  BY DEF Fields, StatusNames
<1>4. /\ AddressNames \union WindowNames \subseteq DOMAIN p
      /\ DOMAIN p \subseteq AddressNames \union WindowNames \union ParentNames \union {"header"}
      /\ \A f \in AddressNames : p[f] \in U64 \ {0}
      /\ \A f \in WindowNames : p[f] \in WindowFields[f]
      /\ \A f \in ParentNames \intersect DOMAIN p : p[f] \in U64
      /\ WindowValid(p)
  BY WindowRead
<1> DEFINE known == AddressNames \union WindowNames \union ParentNames
<1>5. /\ (SubmissionNames \union ViewportNames \union StatusNames) \intersect (known \union {"header"}) = {}
      /\ SubmissionNames \intersect (ViewportNames \union StatusNames) = {}
      /\ ViewportNames \intersect StatusNames = {}
      /\ "header" \notin known /\ "expected_revision" \in WindowNames
      /\ "expected_revision" \notin AddressNames \union ParentNames
      /\ ParentNames \intersect (AddressNames \union WindowNames) = {}
      /\ AddressNames \intersect WindowNames = {}
  BY DEF SubmissionNames, ViewportNames, StatusNames, AddressNames, WindowNames, WindowScalars,
     ParentNames
<1> HIDE DEF first, viewport, last, known
<1> DEFINE others == DOMAIN p \ {"header", "expected_revision"}
<1>6. /\ DOMAIN g = {"header"} \union DOMAIN p \union DOMAIN submission \union ViewportNames \union StatusNames
      /\ g.header = p.surface_id /\ g.expected_revision = 1
      /\ \A f \in others : g[f] = p[f]
      /\ \A f \in DOMAIN submission : g[f] = 1
      /\ \A f \in ViewportNames : g[f] = 1
      /\ \A f \in StatusNames : g[f] = last(accepted)[f]
      /\ r.kind = "OVERLAY_STATUS"
  <2>1. g = [header |-> p.surface_id] ++ (first ++ p ++ submission ++ viewport ++ last(accepted))
        /\ r.kind = "OVERLAY_STATUS"
    BY <1>1 DEF Built
  <2>2. DOMAIN p \subseteq known \union {"header"} /\ "expected_revision" \in DOMAIN p
    BY <1>4, <1>5 DEF known
  <2> DEFINE q1 == first ++ p
             q2 == q1 ++ submission
             q3 == q2 ++ viewport
             q4 == q3 ++ last(accepted)
  <2>3. /\ DOMAIN q1 = DOMAIN p /\ q1["expected_revision"] = 1
        /\ \A f \in DOMAIN p \ {"expected_revision"} : q1[f] = p[f]
    BY <1>3, <2>2 DEF ++, known
  <2> HIDE DEF q1
  <2>4. /\ DOMAIN q2 = DOMAIN p \union DOMAIN submission /\ \A f \in DOMAIN p : q2[f] = q1[f]
        /\ \A f \in DOMAIN submission : q2[f] = 1
    BY <1>2, <1>5, <2>2, <2>3 DEF ++, known
  <2> HIDE DEF q2
  <2>5. /\ DOMAIN q3 = DOMAIN p \union DOMAIN submission \union ViewportNames
        /\ \A f \in DOMAIN p : q3[f] = q1[f]
        /\ \A f \in DOMAIN submission : q3[f] = 1
        /\ \A f \in ViewportNames : q3[f] = 1
    BY <1>2, <1>3, <1>5, <2>2, <2>4 DEF ++, known
  <2> HIDE DEF q3
  <2>6. /\ DOMAIN q4 = DOMAIN p \union DOMAIN submission \union ViewportNames \union StatusNames
        /\ \A f \in DOMAIN p : q4[f] = q1[f]
        /\ \A f \in DOMAIN submission : q4[f] = 1
        /\ \A f \in ViewportNames : q4[f] = 1
        /\ \A f \in StatusNames : q4[f] = last(accepted)[f]
    BY <1>2, <1>3, <1>5, <2>2, <2>5 DEF ++, known
  <2> HIDE DEF q4
  <2>7. g = [header |-> p.surface_id] ++ q4
    BY <2>1 DEF q1, q2, q3, q4
  <2> HIDE DEF g
  <2>8. /\ DOMAIN g = {"header"} \union DOMAIN q4 /\ g.header = p.surface_id
        /\ \A f \in DOMAIN q4 \ {"header"} : g[f] = q4[f]
    BY <2>7 DEF ++
  <2>9. "header" \notin DOMAIN submission \union ViewportNames \union StatusNames
    BY <1>2, <1>5
  <2>10. g.expected_revision = 1
    BY <1>5, <2>2, <2>3, <2>6, <2>8
  <2>11. \A f \in others : g[f] = p[f]
    BY <2>3, <2>6, <2>8
  <2> QED BY <2>1, <2>6, <2>8, <2>9, <2>10, <2>11
<1> HIDE DEF g
<1>7. /\ \A f \in AddressNames \union (WindowNames \ {"expected_revision"}) :
           f \in DOMAIN p /\ g[f] = p[f]
      /\ ParentNames \intersect DOMAIN g = ParentNames \intersect DOMAIN p
      /\ \A f \in ParentNames \intersect DOMAIN p : g[f] = p[f]
      /\ SubmissionNames \intersect DOMAIN g = DOMAIN submission
  <2>1. \A f \in AddressNames \union (WindowNames \ {"expected_revision"}) : f \in others
    BY <1>4, <1>5 DEF known
  <2>2. \A f \in ParentNames \intersect DOMAIN p : f \in others
    BY <1>5 DEF known
  <2>3. ParentNames \intersect (SubmissionNames \union ViewportNames \union StatusNames \union {"header"}) = {}
    BY <1>5 DEF known
  <2>4. SubmissionNames \intersect (DOMAIN p \union {"header"}) = {}
    BY <1>4, <1>5 DEF known
  <2> QED BY <1>2, <1>5, <1>6, <2>1, <2>2, <2>3, <2>4
<1> HIDE DEF others
<1>8. \A f \in StatusNames : g[f] \in {0, 1} /\ g[f] = last(accepted)[f]
  BY <1>3, <1>6 DEF StatusNames
<1>9. /\ g.scene_revision = 0 /\ g.viewport_revision = 1 /\ g.accepted_revision = accepted
      /\ g.focused = 0
  BY <1>3, <1>8 DEF StatusNames
<1>10. ReadsWith(Address ++ WindowStatusFields, ParentFields ++ Submission, g)
  <2> DEFINE required == Address ++ WindowStatusFields
             optional == ParentFields ++ Submission
  <2>1. /\ DOMAIN required = AddressNames \union WindowNames \union ViewportNames \union StatusNames
        /\ \A f \in AddressNames : required[f] = U64
        /\ \A f \in WindowNames \union ViewportNames \union StatusNames :
             required[f] = WindowStatusFields[f]
    BY <1>5, AddressTypes, StatusTypes DEF ++, known
  <2>2. /\ DOMAIN optional = ParentNames \union SubmissionNames
        /\ \A f \in ParentNames : optional[f] = U64
        /\ \A f \in SubmissionNames : optional[f] = Submission[f]
    BY <1>5, WindowTypes, StatusTypes DEF ++, known
  <2> HIDE DEF required, optional
  <2>3. \A f \in AddressNames : g[f] \in required[f]
    BY <1>4, <1>7, <2>1
  <2>4. \A f \in WindowNames : g[f] \in required[f]
    BY <1>4, <1>6, <1>7, <2>1, WindowTypes, StatusTypes DEF U64
  <2>5. \A f \in ViewportNames : g[f] \in required[f]
    BY <1>6, <2>1, StatusTypes DEF ViewportNames, Scalars, MAX_EXTENT, U32
  <2>6. \A f \in StatusNames : g[f] \in required[f]
    BY <1>8, <2>1, StatusTypes DEF StatusNames, Bool, U64
  <2>7. \A f \in ParentNames \intersect DOMAIN g : g[f] \in optional[f]
    BY <1>4, <1>7, <2>2
  <2>8. \A f \in SubmissionNames \intersect DOMAIN g : g[f] \in optional[f]
    BY <1>6, <1>7, <2>2, StatusTypes DEF SubmissionNames, U64, U32
  <2>9. DOMAIN g \subseteq {"header"} \union DOMAIN required \union DOMAIN optional
    BY <1>2, <1>4, <1>6, <2>1, <2>2
  <2>10. DOMAIN required \subseteq DOMAIN g
    BY <1>4, <1>6, <2>1
  <2>11. \A f \in DOMAIN required : g[f] \in required[f]
    BY <2>1, <2>3, <2>4, <2>5, <2>6
  <2>12. \A f \in DOMAIN optional \intersect DOMAIN g : g[f] \in optional[f]
    BY <2>2, <2>7, <2>8
  <2>13. ReadsWith(required, optional, g)
    BY <2>9, <2>10, <2>11, <2>12, ReadsEach
  <2> QED BY <2>13 DEF required, optional
<1>11. WindowValid(g) /\ AddressValid(g) /\ HeaderIs(g, "surface_id")
  <2>1. AddressValid(g) /\ HeaderIs(g, "surface_id")
    BY <1>4, <1>6, <1>7, AddressTypes DEF AddressValid, NonzeroAll, HeaderIs, AddressNames
  <2>2. \A f \in WindowScalars \union {"context_id", "surface_id"} : g[f] = p[f]
    BY <1>7 DEF WindowNames, WindowScalars, AddressNames
  <2>3. RectangleValid(g) /\ g.min_width \in 1..g.width /\ g.min_height \in 1..g.height
    BY <1>4, <2>2 DEF WindowValid, RectangleValid, WindowScalars
  <2>4. DOMAIN ParentFields = ParentNames
    BY WindowTypes
  <2>5. ParentNames \intersect DOMAIN p # {} =>
          /\ ParentNames \subseteq DOMAIN p /\ NonzeroAll(p, ParentNames)
          /\ ~(p.parent_context_id = p.context_id /\ p.parent_surface_id = p.surface_id)
    BY <1>4, <2>4 DEF WindowValid
  <2>6. ParentNames \intersect DOMAIN g # {} =>
          /\ ParentNames \subseteq DOMAIN g /\ NonzeroAll(g, ParentNames)
          /\ ~(g.parent_context_id = g.context_id /\ g.parent_surface_id = g.surface_id)
    BY <1>7, <2>2, <2>5 DEF NonzeroAll, ParentNames
  <2> QED BY <2>1, <2>3, <2>4, <2>6 DEF WindowValid
<1>12. StatusValid(g)
  <2>1. ViewportValid(g)
    BY <1>6, StatusTypes DEF ViewportValid, NonzeroAll
  <2>2. SubmissionNames \intersect DOMAIN g # {} =>
          /\ SubmissionNames \subseteq DOMAIN g /\ NonzeroAll(g, SubmissionNames)
          /\ g.revision <= g.accepted_revision
    <3> SUFFICES ASSUME SubmissionNames \intersect DOMAIN g # {}
                 PROVE  /\ SubmissionNames \subseteq DOMAIN g /\ NonzeroAll(g, SubmissionNames)
                        /\ g.revision <= g.accepted_revision
      OBVIOUS
    <3>1. DOMAIN submission = SubmissionNames /\ accepted = 1
      BY <1>2, <1>7
    <3>2. \A f \in SubmissionNames : f \in DOMAIN g /\ g[f] = 1
      BY <1>6, <1>7, <3>1
    <3> QED BY <1>9, <3>1, <3>2 DEF NonzeroAll, SubmissionNames
  <2>3. NonzeroAll(g, {"expected_revision", "viewport_revision"})
    BY <1>6, <1>9 DEF NonzeroAll
  <2> QED BY <1>9, <1>11, <2>1, <2>2, <2>3, StatusTypes DEF StatusValid
<1> QED BY <1>6, <1>10, <1>11, <1>12 DEF DecodesWindowStatus, Addressed, g

\* What goes on with the address of a window.
IsAddress(p) == \A f \in AddressNames : f \in DOMAIN p /\ p[f] \in U64 \ {0}

Goes(g, p, extra) ==
  /\ DOMAIN g = {"header"} \union AddressNames \union DOMAIN extra
  /\ g.header = p.surface_id
  /\ \A f \in AddressNames : g[f] = p[f]
  /\ \A f \in DOMAIN extra : g[f] = extra[f]

Extra(types, options, extra) ==
  /\ DOMAIN extra \intersect (AddressNames \union {"header"}) = {}
  /\ DOMAIN types \subseteq DOMAIN extra /\ DOMAIN extra \subseteq DOMAIN types \union DOMAIN options
  /\ \A f \in DOMAIN types : extra[f] \in types[f]
  /\ \A f \in DOMAIN extra \ DOMAIN types : extra[f] \in options[f]

LEMMA AddressGoes ==
  ASSUME NEW p, IsAddress(p), NEW kind, NEW extra,
         DOMAIN extra \intersect (AddressNames \union {"header"}) = {}
  PROVE  /\ Goes(Built(kind, p.surface_id, AddressOf(p) ++ extra).fields, p, extra)
         /\ Built(kind, p.surface_id, AddressOf(p) ++ extra).kind = kind
<1> DEFINE address == AddressOf(p)
           g == Built(kind, p.surface_id, address ++ extra).fields
<1>1. DOMAIN address = AddressNames /\ \A f \in AddressNames : address[f] = p[f]
  BY AddressTypes, SelectedAll DEF AddressOf, IsAddress
<1> HIDE DEF address
<1>2. "header" \notin AddressNames
  BY DEF AddressNames
<1>3. Goes(g, p, extra)
  BY <1>1, <1>2 DEF Goes, Built, ++
<1>4. Built(kind, p.surface_id, address ++ extra).kind = kind
  BY DEF Built
<1> QED BY <1>3, <1>4 DEF address

LEMMA AddressFits ==
  ASSUME NEW p, IsAddress(p), NEW kind, NEW types, NEW options, NEW extra,
         Extra(types, options, extra),
         NEW r, r = Built(kind, p.surface_id, AddressOf(p) ++ extra)
  PROVE  Goes(r.fields, p, extra) /\ r.kind = kind
<1>1. DOMAIN extra \intersect (AddressNames \union {"header"}) = {}
  BY DEF Extra
<1> QED BY <1>1, AddressGoes

LEMMA GoesAddressed ==
  ASSUME NEW p, IsAddress(p), NEW types, NEW options, NEW extra, Extra(types, options, extra),
         NEW g, Goes(g, p, extra)
  PROVE  Addressed(types, options, g)
<1> DEFINE required == Address ++ types
<1>1. /\ DOMAIN required = AddressNames \union DOMAIN types
      /\ \A f \in AddressNames : required[f] = U64
      /\ \A f \in DOMAIN types : f \notin AddressNames /\ required[f] = types[f]
  BY AddressTypes DEF ++, Extra
<1> HIDE DEF required
<1>2. ReadsWith(required, options, g)
  <2>1. \A f \in DOMAIN required : g[f] \in required[f]
    BY <1>1 DEF Goes, Extra, IsAddress
  <2>2. DOMAIN required \subseteq DOMAIN g
    BY <1>1 DEF Goes, Extra
  <2>3. DOMAIN g \subseteq {"header"} \union DOMAIN required \union DOMAIN options
    BY <1>1 DEF Goes, Extra
  <2>4. \A f \in (DOMAIN options \intersect DOMAIN g) \ DOMAIN required : f = "header" \/ g[f] \in options[f]
    BY <1>1 DEF Goes, Extra
  <2> QED BY <2>1, <2>2, <2>3, <2>4 DEF ReadsWith, ++
<1>3. AddressValid(g) /\ HeaderIs(g, "surface_id")
  BY AddressTypes DEF AddressValid, NonzeroAll, HeaderIs, Goes, IsAddress, AddressNames
<1> QED BY <1>2, <1>3 DEF Addressed, required

LEMMA StatusRead ==
  ASSUME NEW p, DecodesWindowStatus(p)
  PROVE  /\ IsAddress(p)
         /\ p.scene_revision \in U64 /\ p.expected_revision \in U64 \ {0}
         /\ Has(p, "track_id") =>
              /\ SubmissionNames \subseteq DOMAIN p
              /\ \A f \in SubmissionNames : p[f] \in Submission[f] /\ p[f] # 0
<1> DEFINE required == Address ++ WindowStatusFields
           optional == ParentFields ++ Submission
<1>1. ReadsWith(required, optional, p) /\ AddressValid(p) /\ StatusValid(p)
  BY DEF DecodesWindowStatus, Addressed
<1>2. /\ DOMAIN required = AddressNames \union (WindowNames \union ViewportNames \union StatusNames)
      /\ \A f \in AddressNames : required[f] = U64
      /\ required["scene_revision"] = U64 /\ required["expected_revision"] = U64
  BY AddressTypes, StatusTypes, WindowTypes DEF ++, AddressNames, StatusNames, WindowNames
<1>3. /\ "header" \notin DOMAIN required
      /\ {"scene_revision", "expected_revision"} \subseteq DOMAIN required
      /\ SubmissionNames \intersect (DOMAIN required \union {"header"} \union ParentNames) = {}
  BY <1>2 DEF AddressNames, StatusNames, WindowNames, WindowScalars, ViewportNames, SubmissionNames,
     ParentNames
<1>4. \A f \in SubmissionNames : f \in DOMAIN optional /\ optional[f] = Submission[f]
  BY <1>3, StatusTypes, WindowTypes DEF ++
<1> HIDE DEF required, optional
<1>5. /\ \A f \in DOMAIN required : f \in DOMAIN p /\ p[f] \in required[f]
      /\ \A f \in DOMAIN p \ (DOMAIN required \union {"header"}) : p[f] \in optional[f]
  BY <1>1, <1>3, ReadKnown
<1>6. IsAddress(p)
  <2>1. \A f \in AddressNames : p[f] # 0
    BY <1>1, AddressTypes DEF AddressValid, NonzeroAll
  <2> QED BY <1>2, <1>5, <2>1 DEF IsAddress
<1>7. p.scene_revision \in U64 /\ p.expected_revision \in U64
  BY <1>2, <1>3, <1>5
<1>8. p.expected_revision # 0
  BY <1>1 DEF StatusValid, NonzeroAll
<1>9. ASSUME Has(p, "track_id")
      PROVE  /\ SubmissionNames \subseteq DOMAIN p
             /\ \A f \in SubmissionNames : p[f] \in Submission[f] /\ p[f] # 0
  <2>1. SubmissionNames \intersect DOMAIN p # {}
    BY <1>9 DEF Has, SubmissionNames
  <2>2. SubmissionNames \subseteq DOMAIN p /\ NonzeroAll(p, SubmissionNames)
    BY <1>1, <2>1, StatusTypes DEF StatusValid
  <2> QED BY <1>3, <1>4, <1>5, <2>2 DEF NonzeroAll
<1> QED BY <1>6, <1>7, <1>8, <1>9

LEMMA CaptureDecodes ==
  ASSUME NEW p, IsAddress(p), NEW r,
         r = Built("OVERLAY_INPUT_CAPTURE", p.surface_id,
                   AddressOf(p) ++ [scene_revision |-> 1, capture |-> 1])
  PROVE  r.kind = "OVERLAY_INPUT_CAPTURE" /\ DecodesCapture(r.fields)
<1> DEFINE g == r.fields
           extra == [scene_revision |-> 1, capture |-> 1]
           types == [scene_revision |-> U64, capture |-> Bool]
<1>1. /\ r = Built("OVERLAY_INPUT_CAPTURE", p.surface_id, AddressOf(p) ++ extra)
      /\ "scene_revision" \in DOMAIN extra /\ extra["scene_revision"] = 1
  OBVIOUS
<1>2. Extra(types, <<>>, extra)
  BY DEF Extra, AddressNames, U64, Bool
<1> HIDE DEF extra, types
<1>3. Goes(g, p, extra) /\ r.kind = "OVERLAY_INPUT_CAPTURE"
  BY <1>1, <1>2, AddressFits
<1>4. Addressed(types, <<>>, g)
  BY <1>2, <1>3, GoesAddressed
<1>5. CaptureValid(g)
  BY <1>1, <1>3, <1>4 DEF CaptureValid, Addressed, Goes
<1> QED BY <1>3, <1>4, <1>5 DEF DecodesCapture, types

LEMMA ShortRecordsDecode ==
  ASSUME NEW p, DecodesWindowStatus(p), NEW r,
         LET short(kind, fields) == Built(kind, p.surface_id, AddressOf(p) ++ fields) IN
         \/ r = short("OVERLAY_ACTION", [expected_revision |-> p.expected_revision, action |-> 0])
         \/ r = short("SET_OVERLAY_CLIPBOARD", [text |-> 1])
         \/ r = short("OVERLAY_INPUT_CAPTURE", [scene_revision |-> 1, capture |-> 1])
         \/ /\ Has(p, "track_id")
            /\ \E o \in {0, 1} :
                 r = short("OVERLAY_SUBMISSION_OUTCOME", Select(p, DOMAIN Submission) ++ [outcome |-> o])
         \/ r = Built("QUERY_OVERLAY", p.surface_id, Select(p, {"context_id", "surface_id"}))
  PROVE  r.kind \in OverlayKinds \ {"OVERLAY_ENV_CHANGED"} /\ OverlayDecodes(r.kind, r.fields)
<1> DEFINE g == r.fields
           Record(kind, fields) == Built(kind, p.surface_id, AddressOf(p) ++ fields)
<1>1. /\ IsAddress(p) /\ p.expected_revision \in U64 \ {0}
      /\ Has(p, "track_id") =>
           /\ SubmissionNames \subseteq DOMAIN p
           /\ \A f \in SubmissionNames : p[f] \in Submission[f] /\ p[f] # 0
  BY StatusRead
<1>2. CASE r = Record("OVERLAY_ACTION", [expected_revision |-> p.expected_revision, action |-> 0])
  <2> DEFINE extra == [expected_revision |-> p.expected_revision, action |-> 0]
  <2>0. /\ r = Built("OVERLAY_ACTION", p.surface_id, AddressOf(p) ++ extra)
        /\ "expected_revision" \in DOMAIN extra /\ extra["expected_revision"] = p.expected_revision
    BY <1>2
  <2>1. Extra(ActionFields, <<>>, extra)
    BY <1>1 DEF Extra, ActionFields, AddressNames, WindowActions
  <2> HIDE DEF extra
  <2>2. Goes(g, p, extra) /\ r.kind = "OVERLAY_ACTION"
    BY <1>1, <2>0, <2>1, AddressFits
  <2>3. Addressed(ActionFields, <<>>, g)
    BY <1>1, <2>1, <2>2, GoesAddressed
  <2>4. ActionValid(g)
    BY <1>1, <2>0, <2>2, <2>3 DEF ActionValid, Addressed, Goes
  <2> QED BY <2>2, <2>3, <2>4 DEF OverlayKinds, OverlayDecodes, DecodesAction
<1>3. CASE r = Record("SET_OVERLAY_CLIPBOARD", [text |-> 1])
  <2> DEFINE extra == [text |-> 1]
  <2>1. Extra([text |-> Text], <<>>, extra)
    BY DEF Extra, AddressNames, Text
  <2>2. Goes(g, p, extra) /\ r.kind = "SET_OVERLAY_CLIPBOARD"
    BY <1>1, <1>3, <2>1, AddressFits
  <2>3. Addressed([text |-> Text], <<>>, g)
    BY <1>1, <2>1, <2>2, GoesAddressed
  <2>4. ClipboardValid(g)
    BY <2>2, <2>3 DEF ClipboardValid, Addressed, Goes, Empty, TooLong
  <2> QED BY <2>2, <2>3, <2>4 DEF OverlayKinds, OverlayDecodes, DecodesClipboard
<1>4. CASE r = Record("OVERLAY_INPUT_CAPTURE", [scene_revision |-> 1, capture |-> 1])
  <2>1. r.kind = "OVERLAY_INPUT_CAPTURE" /\ DecodesCapture(g)
    BY <1>1, <1>4, CaptureDecodes
  <2> QED BY <2>1 DEF OverlayKinds, OverlayDecodes
<1>5. ASSUME Has(p, "track_id"), NEW o \in {0, 1},
             r = Record("OVERLAY_SUBMISSION_OUTCOME", Select(p, DOMAIN Submission) ++ [outcome |-> o])
      PROVE  r.kind \in OverlayKinds \ {"OVERLAY_ENV_CHANGED"} /\ OverlayDecodes(r.kind, r.fields)
  <2> DEFINE chosen == Select(p, DOMAIN Submission)
             extra == chosen ++ [outcome |-> o]
  <2>1. DOMAIN chosen = SubmissionNames /\ \A f \in SubmissionNames : chosen[f] = p[f]
    BY <1>1, <1>5, StatusTypes, SelectedAll
  <2>2. "outcome" \notin SubmissionNames
        /\ (SubmissionNames \union {"outcome"}) \intersect (AddressNames \union {"header"}) = {}
    BY DEF SubmissionNames, AddressNames
  <2> HIDE DEF chosen
  <2>3. /\ DOMAIN extra = SubmissionNames \union {"outcome"} /\ extra["outcome"] = o
        /\ \A f \in SubmissionNames : extra[f] = p[f]
    BY <2>1, <2>2 DEF ++
  <2>4. /\ DOMAIN OutcomeFields = SubmissionNames \union {"outcome"}
        /\ OutcomeFields["outcome"] = {0, 1}
        /\ \A f \in SubmissionNames : OutcomeFields[f] = Submission[f]
    BY <2>2, StatusTypes DEF OutcomeFields, ++
  <2>5. r = Built("OVERLAY_SUBMISSION_OUTCOME", p.surface_id, AddressOf(p) ++ extra)
    BY <1>5 DEF chosen
  <2> HIDE DEF extra
  <2>6. Extra(OutcomeFields, <<>>, extra)
    BY <1>1, <1>5, <2>2, <2>3, <2>4 DEF Extra
  <2>7. Goes(g, p, extra) /\ r.kind = "OVERLAY_SUBMISSION_OUTCOME"
    BY <1>1, <2>5, <2>6, AddressFits
  <2>8. Addressed(OutcomeFields, <<>>, g)
    BY <1>1, <2>6, <2>7, GoesAddressed
  <2>9. OutcomeValid(g)
    BY <1>1, <1>5, <2>3, <2>7, <2>8, StatusTypes DEF OutcomeValid, Addressed, Goes, NonzeroAll
  <2> QED BY <2>7, <2>8, <2>9 DEF OverlayKinds, OverlayDecodes, DecodesOutcome
<1>6. CASE r = Built("QUERY_OVERLAY", p.surface_id, Select(p, {"context_id", "surface_id"}))
  <2> DEFINE chosen == Select(p, {"context_id", "surface_id"})
  <2>1. /\ DOMAIN chosen = {"context_id", "surface_id"}
        /\ \A f \in DOMAIN chosen : chosen[f] = p[f] /\ p[f] \in U64 \ {0}
    BY <1>1, SelectedAll DEF IsAddress, AddressNames
  <2> HIDE DEF chosen
  <2>2. /\ DOMAIN g = {"header", "context_id", "surface_id"} /\ g.header = p.surface_id
        /\ g.context_id = p.context_id /\ g.surface_id = p.surface_id /\ r.kind = "QUERY_OVERLAY"
    BY <1>6, <2>1 DEF Built, ++, chosen
  <2> HIDE DEF g
  <2>3. DecodesWindowQuery(g)
    BY <2>1, <2>2 DEF DecodesWindowQuery, WindowQueryFields, Fields, Reads, ReadsWith, ++, QueryValid,
       NonzeroAll, HeaderIs
  <2> QED BY <2>2, <2>3 DEF OverlayKinds, OverlayDecodes, g
<1> QED BY <1>2, <1>3, <1>4, <1>5, <1>6

(***************************************************************************)
(* Events, as AnEvent fills them in.                                       *)
(***************************************************************************)
LEMMA JoinAssoc == ASSUME NEW p, NEW q, NEW r PROVE (p ++ q) ++ r = p ++ (q ++ r)
BY DEF ++

\* The value an event has for one of its fields.
EventValue(f) == IF f = "nothing" THEN Null ELSE IF f = "physical" THEN 2 ELSE 1

PointerNames == {"position_x", "position_y", "region", "modifiers"}
PointerOptions == {"button", "button_down", "clicks", "pressure"}
EventNames == [scene_revision |-> U64, kind |-> Events]

LEMMA EventTypes ==
  ASSUME NEW event \in Events
  PROVE  /\ \A f \in DOMAIN EventFields(event) : EventValue(f) \in EventFields(event)[f]
         /\ \A f \in DOMAIN EventOptions(event) : 1 \in EventOptions(event)[f]
         /\ DOMAIN EventFields(event) \intersect DOMAIN EventOptions(event) = {}
         /\ (DOMAIN EventFields(event) \union DOMAIN EventOptions(event)) \intersect
              (AddressNames \union {"header", "scene_revision", "kind"}) = {}
<1> USE DEF EventFields, EventOptions, EventValue, AddressNames
<1>1. CASE event = FOCUS
  BY <1>1 DEF FOCUS, POINTER, WHEEL, KEY, TEXT, IME, GEOMETRY, DISMISSED, CANCEL, HOVER, Bool
<1>2. CASE event = POINTER
  BY <1>2 DEF FOCUS, POINTER, WHEEL, KEY, TEXT, IME, GEOMETRY, DISMISSED, CANCEL, HOVER, Bool, Fields,
     ++, Scalars, MAX_EXTENT, U64, U32, U8
<1>3. CASE event = WHEEL
  BY <1>3 DEF FOCUS, POINTER, WHEEL, KEY, TEXT, IME, GEOMETRY, DISMISSED, CANCEL, HOVER, Bool, Fields,
     ++, Scalars, MAX_EXTENT, U32, Phases
<1>4. CASE event = KEY
  BY <1>4 DEF FOCUS, POINTER, WHEEL, KEY, TEXT, IME, GEOMETRY, DISMISSED, CANCEL, HOVER, Bool, Fields,
     ++, U32
<1>5. CASE event = TEXT
  BY <1>5 DEF FOCUS, POINTER, WHEEL, KEY, TEXT, IME, GEOMETRY, DISMISSED, CANCEL, HOVER, Text
<1>6. CASE event = IME
  BY <1>6 DEF FOCUS, POINTER, WHEEL, KEY, TEXT, IME, GEOMETRY, DISMISSED, CANCEL, HOVER, Text, Fields, U32
<1>7. CASE event = GEOMETRY
  BY <1>7 DEF FOCUS, POINTER, WHEEL, KEY, TEXT, IME, GEOMETRY, DISMISSED, CANCEL, HOVER, Bool, Fields,
     ++, Rectangle, Scalars, MAX_EXTENT
<1>8. CASE event = DISMISSED
  BY <1>8 DEF FOCUS, POINTER, WHEEL, KEY, TEXT, IME, GEOMETRY, DISMISSED, CANCEL, HOVER, Reasons
<1>9. CASE event = CANCEL
  BY <1>9 DEF FOCUS, POINTER, WHEEL, KEY, TEXT, IME, GEOMETRY, DISMISSED, CANCEL, HOVER, Null
<1>10. CASE event = HOVER
  BY <1>10 DEF FOCUS, POINTER, WHEEL, KEY, TEXT, IME, GEOMETRY, DISMISSED, CANCEL, HOVER, Bool, U64
<1>11. CASE event = ACCESSIBILITY
  BY <1>11 DEF FOCUS, POINTER, WHEEL, KEY, TEXT, IME, GEOMETRY, DISMISSED, CANCEL, HOVER, ACCESSIBILITY,
     U64, AccessibleActions
<1>12. event \in {FOCUS, POINTER, WHEEL, KEY, TEXT, IME, GEOMETRY, DISMISSED, CANCEL, HOVER, ACCESSIBILITY}
  BY DEF Events, FOCUS, POINTER, WHEEL, KEY, TEXT, IME, GEOMETRY, DISMISSED, CANCEL, HOVER, ACCESSIBILITY
<1> HIDE DEF EventFields, EventOptions, EventValue, AddressNames
<1> QED BY <1>1, <1>2, <1>3, <1>4, <1>5, <1>6, <1>7, <1>8, <1>9, <1>10, <1>11, <1>12

\* An event as AnEvent fills it in keeps the rules of its kind.
\* An event with the values a peer gives it, and all of its options or none.
Filled(event, options, g) ==
  /\ g.kind = event /\ options \in {{}, DOMAIN EventOptions(event)}
  /\ DOMAIN g \intersect DOMAIN EventOptions(event) = options
  /\ \A f \in DOMAIN EventFields(event) : g[f] = EventValue(f)
  /\ \A f \in options : g[f] = 1

LEMMA EventHolds ==
  ASSUME NEW event \in Events, NEW options, NEW g, Filled(event, options, g)
  PROVE  EventValid(g) /\ \A pair \in Pairs(event) : pair \intersect DOMAIN g \in {{}, pair}
<1> USE DEF Filled, EventFields, EventOptions, EventValue, EventValid, Pairs, FOCUS, POINTER, WHEEL, KEY, TEXT,
            IME, GEOMETRY, DISMISSED, CANCEL, HOVER, ACCESSIBILITY
<1>1. CASE event = POINTER
  <2>1. DOMAIN EventOptions(event) = PointerOptions /\ "modifiers" \in DOMAIN EventFields(event)
    BY <1>1 DEF PointerOptions, Fields, ++
  <2>2. g.modifiers = 1
    BY <2>1
  <2>3. options = {} \/ options = PointerOptions
    BY <2>1
  <2>4. EventValid(g)
    BY <1>1, <2>1, <2>2, <2>3 DEF KnownModifiers, Has, MAX_BUTTON, MAX_CLICKS, PointerOptions
  <2>5. \A pair \in Pairs(event) : pair \subseteq PointerOptions
    BY <1>1 DEF PointerOptions
  <2> QED BY <2>1, <2>3, <2>4, <2>5
<1>2. CASE event = IME
  <2>1. DOMAIN EventOptions(event) = {"selection_start", "selection_end"} /\ "preedit" \in DOMAIN EventFields(event)
    BY <1>2 DEF Fields
  <2>2. g.preedit = 1
    BY <2>1
  <2>3. options = {} \/ options = {"selection_start", "selection_end"}
    BY <2>1
  <2>4. EventValid(g)
    BY <1>2, <2>1, <2>2, <2>3 DEF Has, TooLong, Length, Ordinary
  <2>5. \A pair \in Pairs(event) : pair = {"selection_start", "selection_end"}
    BY <1>2
  <2> QED BY <2>1, <2>3, <2>4, <2>5
<1>3. CASE event \notin {POINTER, IME}
  <2>1. Pairs(event) = {}
    BY <1>3
  <2>2. CASE event = WHEEL
    BY <2>2 DEF Fields, ++, KnownModifiers
  <2>3. CASE event = KEY
    BY <2>3 DEF Fields, ++, KnownModifiers, Keys
  <2>4. CASE event = TEXT
    BY <2>4 DEF TooLong
  <2>5. CASE event = GEOMETRY
    <3>1. {"x", "y", "width", "height"} \subseteq DOMAIN EventFields(event)
      BY <2>5 DEF Rectangle, Fields, ++
    <3>2. g.x = 1 /\ g.y = 1 /\ g.width = 1 /\ g.height = 1
      BY <3>1
    <3> QED BY <2>5, <3>2 DEF RectangleValid, MAX_EXTENT
  <2>6. CASE event = ACCESSIBILITY
    BY <2>6
  <2>7. CASE event \in {FOCUS, DISMISSED, CANCEL, HOVER}
    BY <2>7
  <2> QED BY <1>3, <2>1, <2>2, <2>3, <2>4, <2>5, <2>6, <2>7 DEF Events
<1> QED BY <1>1, <1>2, <1>3

LEMMA EventsDecode ==
  ASSUME NEW p, IsAddress(p), p.scene_revision \in U64, NEW event \in Events, NEW options,
         options = {} \/ options = DOMAIN EventOptions(event)
  PROVE  LET r == AnEvent(p, event, options) IN
         r.kind = "OVERLAY_INPUT_EVENT" /\ DecodesEvent(r.fields)
<1> DEFINE r == AnEvent(p, event, options)
           g == r.fields
           first == [scene_revision |-> p.scene_revision, kind |-> event]
           filled == [f \in DOMAIN EventFields(event) |-> EventValue(f)]
           chosen == Fields(options, 1)
           extra == first ++ (filled ++ chosen)
           types == EventNames ++ EventFields(event)
<1>1. r = Built("OVERLAY_INPUT_EVENT", p.surface_id, AddressOf(p) ++ extra)
  <2>1. r = Built("OVERLAY_INPUT_EVENT", p.surface_id, ((AddressOf(p) ++ first) ++ filled) ++ chosen)
    BY DEF AnEvent, EventValue
  <2> HIDE DEF first, filled, chosen
  <2>2. ((AddressOf(p) ++ first) ++ filled) ++ chosen = AddressOf(p) ++ extra
    BY JoinAssoc
  <2> QED BY <2>1, <2>2 DEF first, filled, chosen
<1>2. /\ DOMAIN first = {"scene_revision", "kind"} /\ first.scene_revision = p.scene_revision
      /\ first.kind = event
      /\ DOMAIN filled = DOMAIN EventFields(event)
      /\ \A f \in DOMAIN filled : filled[f] = EventValue(f)
      /\ DOMAIN chosen = options /\ \A f \in options : chosen[f] = 1
  BY DEF Fields
<1> HIDE DEF first, filled, chosen, r
<1>3. /\ \A f \in DOMAIN EventFields(event) : EventValue(f) \in EventFields(event)[f]
      /\ \A f \in DOMAIN EventOptions(event) : 1 \in EventOptions(event)[f]
      /\ DOMAIN EventFields(event) \intersect DOMAIN EventOptions(event) = {}
      /\ (DOMAIN EventFields(event) \union DOMAIN EventOptions(event)) \intersect
           (AddressNames \union {"header", "scene_revision", "kind"}) = {}
  BY EventTypes
<1>4. options \subseteq DOMAIN EventOptions(event)
  OBVIOUS
<1>5. /\ DOMAIN extra = {"scene_revision", "kind"} \union DOMAIN EventFields(event) \union options
      /\ extra["scene_revision"] = p.scene_revision /\ extra["kind"] = event
      /\ \A f \in DOMAIN EventFields(event) : extra[f] = EventValue(f)
      /\ \A f \in options : extra[f] = 1
  BY <1>2, <1>3, <1>4 DEF ++
<1>6. /\ DOMAIN types = {"scene_revision", "kind"} \union DOMAIN EventFields(event)
      /\ types["scene_revision"] = U64 /\ types["kind"] = Events
      /\ \A f \in DOMAIN EventFields(event) : types[f] = EventFields(event)[f]
  BY <1>3 DEF ++, EventNames
<1> HIDE DEF extra, types
<1>7. Extra(types, EventOptions(event), extra)
  <2>1. DOMAIN extra \intersect (AddressNames \union {"header"}) = {}
    BY <1>3, <1>4, <1>5 DEF AddressNames
  <2> QED BY <1>3, <1>4, <1>5, <1>6, <2>1 DEF Extra
<1>8. Goes(g, p, extra) /\ r.kind = "OVERLAY_INPUT_EVENT"
  BY <1>1, <1>7, AddressFits
<1> HIDE DEF g
<1>9. Addressed(types, EventOptions(event), g)
  BY <1>7, <1>8, GoesAddressed
<1>10. Has(g, "kind") /\ g.kind = event
  BY <1>5, <1>8 DEF Goes, Has
<1>11. DOMAIN g \intersect DOMAIN EventOptions(event) = options
  BY <1>3, <1>4, <1>5, <1>8 DEF Goes
<1>12. EventValid(g) /\ \A pair \in Pairs(event) : pair \intersect DOMAIN g \in {{}, pair}
  <2>1. /\ \A f \in DOMAIN EventFields(event) : g[f] = EventValue(f)
        /\ \A f \in options : g[f] = 1
    BY <1>5, <1>8 DEF Goes
  <2>2. Filled(event, options, g)
    BY <1>10, <1>11, <2>1 DEF Filled
  <2> QED BY <2>2, EventHolds
<1>13. DecodesEvent(g)
  BY <1>9, <1>10, <1>12 DEF DecodesEvent, types, EventNames
<1> QED BY <1>8, <1>13 DEF g, r

(***************************************************************************)
(* Semantic trees, as SemanticsOf fills them in.                           *)
(***************************************************************************)
\* A key of a node names its place and its field.
LEMMA KeysApart ==
  /\ \A m, n \in NodePlaces : \A f, h \in NodeFieldNames : At(m, f) = At(n, h) => m = n /\ f = h
  /\ \A n \in NodePlaces : \A f \in NodeFieldNames :
       At(n, f) \notin AddressNames \union {"header", "scene_revision"}
<1>1. ASSUME NEW n \in NodePlaces, NEW f \in NodeFieldNames
      PROVE  /\ At(n, f) \notin AddressNames \union {"header", "scene_revision"}
             /\ \A h \in NodeFieldNames : At(1, h) = At(n, f) => n = 1 /\ f = h
             /\ \A h \in NodeFieldNames : At(2, h) = At(n, f) => n = 2 /\ f = h
             /\ \A h \in NodeFieldNames : At(3, h) = At(n, f) => n = 3 /\ f = h
  <2>1. CASE n = 1
    BY <2>1, NamesOfNode DEF At, NodeNames, AddressNames
  <2>2. CASE n = 2
    BY <2>2, NamesOfNode DEF At, NodeNames, AddressNames
  <2>3. CASE n = 3
    BY <2>3, NamesOfNode DEF At, NodeNames, AddressNames
  <2> QED BY <2>1, <2>2, <2>3 DEF NodePlaces
<1>2. ASSUME NEW m \in NodePlaces, NEW n \in NodePlaces, NEW f \in NodeFieldNames,
             NEW h \in NodeFieldNames, At(m, f) = At(n, h)
      PROVE  m = n /\ f = h
  <2>1. m \in {1, 2, 3}
    BY DEF NodePlaces
  <2>2. \A a \in {1, 2, 3} : At(a, f) = At(n, h) => n = a /\ h = f
    BY <1>1
  <2> QED BY <1>2, <2>1, <2>2
<1> QED BY <1>1, <1>2

PlainNames == {"id", "role", "x", "y", "width", "height"}

LEMMA PlainTypes ==
  /\ DOMAIN NodeTypes = PlainNames /\ NodeTypes["id"] = U64 /\ NodeTypes["role"] = Roles
  /\ \A f \in {"x", "y", "width", "height"} : NodeTypes[f] = Scalars
  /\ NodeOptions["children"] = 0..4 /\ "children" \in DOMAIN NodeOptions
  /\ PlainNames \union {"children"} \subseteq NodeFieldNames
<1>1. DOMAIN Children = 0..4
  BY DEF Children
<1> QED BY <1>1, NamesOfNode DEF NodeTypes, NodeOptions, Rectangle, Fields, ++, PlainNames

LEMMA PlainNodeKeys ==
  ASSUME NEW n \in NodePlaces, NEW id
  PROVE  /\ DOMAIN PlainNode(n, id) = {At(n, f) : f \in PlainNames}
         /\ PlainNode(n, id)[At(n, "id")] = id
         /\ \A f \in PlainNames \ {"id"} : PlainNode(n, id)[At(n, f)] = 1
<1>1. PlainNames \subseteq NodeFieldNames /\ "id" \in PlainNames
  BY PlainTypes DEF PlainNames
<1>2. \A f \in PlainNames \ {"id"} : At(n, f) # At(n, "id")
  BY <1>1, KeysApart
<1>3. PlainNode(n, id) =
        [k \in {At(n, f) : f \in PlainNames} |-> IF k = At(n, "id") THEN id ELSE 1]
  BY PlainTypes DEF PlainNode
<1>4. \A f \in PlainNames : At(n, f) \in {At(n, h) : h \in PlainNames}
  OBVIOUS
<1> QED BY <1>1, <1>2, <1>3, <1>4

\* A node filled in as PlainNode does, with or without children.
LEMMA PlainNodeReads ==
  ASSUME NEW node, PlainNames \subseteq DOMAIN node,
         DOMAIN node \subseteq PlainNames \union {"children"}, node.id \in {1, 2},
         \A f \in DOMAIN node \ {"id"} : node[f] = 1
  PROVE  ReadsNode(node) /\ NodeSound(node)
<1>1. ReadsWith(NodeTypes, NodeOptions, node)
  <2>1. \A f \in DOMAIN NodeTypes : node[f] \in NodeTypes[f]
    BY PlainTypes DEF PlainNames, U64, Roles, Scalars, MAX_EXTENT
  <2>2. \A f \in DOMAIN node \ PlainNames : f \in DOMAIN NodeOptions /\ node[f] \in NodeOptions[f]
    BY PlainTypes DEF PlainNames
  <2> QED BY <2>1, <2>2, PlainTypes, ReadsEach
<1>2. SetPair \intersect DOMAIN node = {}
  BY DEF SetPair, PlainNames
<1>3. /\ node.x = 1 /\ node.y = 1 /\ node.width = 1 /\ node.height = 1
  BY DEF PlainNames
<1>4. "label" \notin DOMAIN node /\ "actions" \notin DOMAIN node /\ "set_size" \notin DOMAIN node
  BY DEF PlainNames
<1> QED BY <1>1, <1>2, <1>3, <1>4 DEF ReadsNode, NodeSound, RectangleValid, MAX_EXTENT, Get, Has, Empty,
      TooLong

LEMMA SemanticsDecode ==
  ASSUME NEW p, IsAddress(p), NEW r \in SemanticsOf(p)
  PROVE  r.kind = "SET_OVERLAY_SEMANTICS" /\ DecodesSemantics(r.fields)
<1> DEFINE g == r.fields
           first == [scene_revision |-> 1]
           root == PlainNode(1, 1)
           parent == Fields({At(1, "children")}, 1)
           child == PlainNode(2, 2)
<1>1. PICK more \in {<<>>, parent ++ child} :
        r = Built("SET_OVERLAY_SEMANTICS", p.surface_id, AddressOf(p) ++ first ++ root ++ more)
  BY DEF SemanticsOf
<1> DEFINE extra == first ++ (root ++ more)
           listed == IF more = <<>> THEN {1} ELSE {1, 2}
           keys == UNION {NodeKeys(n) : n \in NodePlaces}
<1> HIDE DEF first, root, parent, child
<1>2. r = Built("SET_OVERLAY_SEMANTICS", p.surface_id, AddressOf(p) ++ extra)
  <2>1. ((AddressOf(p) ++ first) ++ root) ++ more = AddressOf(p) ++ extra
    BY JoinAssoc
  <2> QED BY <1>1, <2>1
<1>3. /\ 1 \in NodePlaces /\ 2 \in NodePlaces /\ "id" \in PlainNames
      /\ PlainNames \union {"children"} \subseteq NodeFieldNames /\ "children" \notin PlainNames
  BY PlainTypes DEF NodePlaces, PlainNames
<1>4. /\ DOMAIN first = {"scene_revision"} /\ first.scene_revision = 1
      /\ DOMAIN root = {At(1, f) : f \in PlainNames} /\ root[At(1, "id")] = 1
      /\ \A f \in PlainNames \ {"id"} : root[At(1, f)] = 1
      /\ DOMAIN parent = {At(1, "children")} /\ parent[At(1, "children")] = 1
      /\ DOMAIN child = {At(2, f) : f \in PlainNames} /\ child[At(2, "id")] = 2
      /\ \A f \in PlainNames \ {"id"} : child[At(2, f)] = 1
  BY <1>3, PlainNodeKeys DEF first, root, parent, child, Fields
<1> DEFINE ChildKeys == {At(2, f) : f \in PlainNames} \union {At(1, "children")}
<1>5. \/ more = <<>>
      \/ /\ more # <<>> /\ DOMAIN more = ChildKeys
         /\ more[At(1, "children")] = 1 /\ more[At(2, "id")] = 2
         /\ \A f \in PlainNames \ {"id"} : more[At(2, f)] = 1
  <2> SUFFICES ASSUME more = parent ++ child
               PROVE  /\ more # <<>> /\ DOMAIN more = ChildKeys
                      /\ more[At(1, "children")] = 1 /\ more[At(2, "id")] = 2
                      /\ \A f \in PlainNames \ {"id"} : more[At(2, f)] = 1
    BY <1>1
  <2>1. \A f \in PlainNames : At(2, f) # At(1, "children")
    BY <1>3, KeysApart
  <2>2. DOMAIN more = ChildKeys
    BY <1>4 DEF ++
  <2>3. /\ more[At(1, "children")] = 1 /\ more[At(2, "id")] = 2
        /\ \A f \in PlainNames \ {"id"} : more[At(2, f)] = 1
    BY <1>3, <1>4, <2>1 DEF ++
  <2>4. At(1, "children") \in DOMAIN more
    BY <2>2
  <2>5. more # <<>>
    BY <2>4
  <2> QED BY <2>2, <2>3, <2>5
<1>6. /\ DOMAIN extra = {"scene_revision"} \union {At(1, f) : f \in PlainNames} \union DOMAIN more
      /\ extra["scene_revision"] = 1
      /\ \A f \in PlainNames : extra[At(1, f)] = 1
      /\ \A k \in DOMAIN more : extra[k] = more[k]
  <2>1. \A k \in DOMAIN more : k # "scene_revision" /\ k \notin DOMAIN root
    <3>1. \A k \in ChildKeys : k # "scene_revision" /\ k \notin DOMAIN root
      BY <1>3, <1>4, KeysApart
    <3>2. DOMAIN more \subseteq ChildKeys
      <4> HIDE DEF ChildKeys
      <4>1. DOMAIN <<>> = {}
        OBVIOUS
      <4> QED BY <1>5, <4>1
    <3> HIDE DEF ChildKeys
    <3> QED BY <3>1, <3>2
  <2>2. "scene_revision" \notin DOMAIN root
    BY <1>3, <1>4, KeysApart
  <2>3. \A f \in PlainNames : At(1, f) \in DOMAIN root /\ root[At(1, f)] = 1
    BY <1>4
  <2> QED BY <1>4, <2>1, <2>2, <2>3 DEF ++
<1> HIDE DEF extra
<1>7. /\ Goes(g, p, extra) /\ r.kind = "SET_OVERLAY_SEMANTICS"
      /\ DOMAIN extra \intersect (AddressNames \union {"header"}) = {}
  <2>1. \A k \in DOMAIN more : k \notin AddressNames \union {"header"}
    BY <1>3, <1>5, KeysApart
  <2>2. \A f \in PlainNames : At(1, f) \notin AddressNames \union {"header"}
    BY <1>3, KeysApart
  <2>3. DOMAIN extra \intersect (AddressNames \union {"header"}) = {}
    BY <1>6, <2>1, <2>2 DEF AddressNames
  <2> QED BY <1>2, <2>3, AddressGoes
<1> HIDE DEF g
<1>8. /\ \A n \in NodePlaces, f \in NodeFieldNames :
           At(n, f) \in DOMAIN g <=>
             \/ n = 1 /\ f \in PlainNames
             \/ more # <<>> /\ n = 1 /\ f = "children"
             \/ more # <<>> /\ n = 2 /\ f \in PlainNames
      /\ \A f \in PlainNames : g[At(1, f)] = 1
      /\ more # <<>> =>
           /\ g[At(1, "children")] = 1 /\ g[At(2, "id")] = 2
           /\ \A f \in PlainNames \ {"id"} : g[At(2, f)] = 1
  <2>1. ASSUME NEW n \in NodePlaces, NEW f \in NodeFieldNames
        PROVE  At(n, f) \in DOMAIN g <=>
                 \/ n = 1 /\ f \in PlainNames
                 \/ more # <<>> /\ n = 1 /\ f = "children"
                 \/ more # <<>> /\ n = 2 /\ f \in PlainNames
    <3>1. At(n, f) \notin {"header", "scene_revision"} \union AddressNames
      BY KeysApart
    <3>2. At(n, f) \in DOMAIN g <=> At(n, f) \in {At(1, h) : h \in PlainNames} \union DOMAIN more
      BY <1>6, <1>7, <3>1 DEF Goes
    <3>3. At(n, f) \in {At(1, h) : h \in PlainNames} <=> n = 1 /\ f \in PlainNames
      BY <1>3, KeysApart
    <3>4. At(n, f) \in ChildKeys <=> (n = 2 /\ f \in PlainNames) \/ (n = 1 /\ f = "children")
      <4>1. At(n, f) \in {At(2, h) : h \in PlainNames} <=> n = 2 /\ f \in PlainNames
        BY <1>3, KeysApart
      <4>2. At(n, f) = At(1, "children") <=> n = 1 /\ f = "children"
        BY <1>3, KeysApart
      <4> QED BY <4>1, <4>2
    <3> QED BY <1>5, <3>2, <3>3, <3>4
  <2>2. \A k \in DOMAIN extra : g[k] = extra[k]
    BY <1>7 DEF Goes
  <2>3. \A f \in PlainNames : At(1, f) \in DOMAIN extra
    BY <1>6
  <2>4. more # <<>> => \A k \in ChildKeys : g[k] = more[k]
    BY <1>5, <1>6, <2>2
  <2> QED BY <1>3, <1>5, <1>6, <2>1, <2>2, <2>3, <2>4
<1>9. DOMAIN g \ keys = {"header", "scene_revision"} \union AddressNames
  <2>1. \A k \in DOMAIN extra \ {"scene_revision"} : k \in keys
    <3>1. \A n \in NodePlaces, f \in NodeFieldNames : At(n, f) \in keys
      BY DEF NodeKeys, NodeFieldNames
    <3>2. \A f \in PlainNames : At(1, f) \in keys /\ At(2, f) \in keys
      BY <1>3, <3>1
    <3>3. At(1, "children") \in keys
      BY <1>3, <3>1
    <3> HIDE DEF keys
    <3> QED BY <1>5, <1>6, <3>2, <3>3
  <2>2. \A k \in keys : k \notin {"header", "scene_revision"} \union AddressNames
    <3>1. \A k \in keys : \E n \in NodePlaces, f \in NodeFieldNames : k = At(n, f)
      BY DEF NodeKeys, NodeFieldNames
    <3> QED BY <3>1, KeysApart
  <2> HIDE DEF keys
  <2>3. "scene_revision" \in DOMAIN g /\ DOMAIN g = {"header"} \union AddressNames \union DOMAIN extra
    BY <1>6, <1>7 DEF Goes
  <2> QED BY <1>7, <2>1, <2>2, <2>3
<1>10. Addressed([scene_revision |-> U64], <<>>, Select(g, DOMAIN g \ keys))
  <2> DEFINE s == Select(g, DOMAIN g \ keys)
             types == [scene_revision |-> U64]
  <2>1. DOMAIN s = {"header", "scene_revision"} \union AddressNames /\ \A k \in DOMAIN s : s[k] = g[k]
    <3> DEFINE others == DOMAIN g \ keys
    <3>1. others \in SUBSET DOMAIN g
      OBVIOUS
    <3> HIDE DEF others
    <3>2. DOMAIN Select(g, others) = others /\ \A k \in others : Select(g, others)[k] = g[k]
      BY <3>1, SelectedAll
    <3> QED BY <1>9, <3>2 DEF others
  <2> HIDE DEF s
  <2>2. Goes(s, p, first) /\ Extra(types, <<>>, first)
    <3>1. "scene_revision" \in DOMAIN extra /\ g["scene_revision"] = 1
      BY <1>6, <1>7 DEF Goes
    <3>2. Goes(s, p, first)
      BY <1>4, <1>7, <2>1, <3>1 DEF Goes
    <3>3. Extra(types, <<>>, first)
      BY <1>4 DEF Extra, AddressNames, U64
    <3> QED BY <3>2, <3>3
  <2>3. Addressed(types, <<>>, s)
    BY <2>2, GoesAddressed
  <2> QED BY <2>3 DEF s
<1>11. Nodes(g) = listed
  <2>1. \A n \in NodePlaces :
          NodeKeys(n) \intersect DOMAIN g # {} <=> \E f \in NodeFieldNames : At(n, f) \in DOMAIN g
    BY DEF NodeKeys, NodeFieldNames
  <2>2. \A n \in NodePlaces : n \in listed <=> \E f \in NodeFieldNames : At(n, f) \in DOMAIN g
    BY <1>3, <1>8
  <2>3. listed \subseteq NodePlaces
    BY <1>3
  <2> HIDE DEF listed
  <2> QED BY <2>1, <2>2, <2>3 DEF Nodes
<1>12. ASSUME NEW n \in listed
       PROVE  /\ PlainNames \subseteq DOMAIN Node(g, n)
              /\ DOMAIN Node(g, n) \subseteq PlainNames \union {"children"}
              /\ Node(g, n).id = n
              /\ \A f \in DOMAIN Node(g, n) \ {"id"} : Node(g, n)[f] = 1
              /\ "children" \in DOMAIN Node(g, n) <=> n = 1 /\ more # <<>>
  <2>1. n \in NodePlaces /\ (n = 2 => more # <<>>) /\ (n = 1 \/ n = 2)
    BY <1>3
  <2>2. /\ DOMAIN Node(g, n) = {f \in NodeFieldNames : At(n, f) \in DOMAIN g}
        /\ \A f \in DOMAIN Node(g, n) : Node(g, n)[f] = g[At(n, f)]
    BY DEF Node, NodeFieldNames
  <2>3. \A f \in NodeFieldNames :
          f \in DOMAIN Node(g, n) <=> f \in PlainNames \/ (n = 1 /\ more # <<>> /\ f = "children")
    BY <1>8, <2>1, <2>2
  <2>4. PlainNames \subseteq DOMAIN Node(g, n) /\ DOMAIN Node(g, n) \subseteq PlainNames \union {"children"}
    BY <1>3, <2>2, <2>3
  <2>5. Node(g, n).id = n
    BY <1>3, <1>8, <2>1, <2>2, <2>4
  <2>6. \A f \in DOMAIN Node(g, n) \ {"id"} : Node(g, n)[f] = 1
    BY <1>3, <1>8, <2>1, <2>2, <2>3
  <2> QED BY <1>3, <2>3, <2>4, <2>5, <2>6
<1>13. \A n \in listed : ReadsNode(Node(g, n)) /\ NodeSound(Node(g, n))
  BY <1>12, PlainNodeReads
<1>14. /\ ChildrenOf(g, 1) = IF more = <<>> THEN {} ELSE {2}
       /\ more # <<>> => ChildrenOf(g, 2) = {}
  <2>1. Children[0] = {} /\ Children[1] = {2}
    BY DEF Children
  <2>2. \A n \in listed : Get(Node(g, n), "children", 0) = IF n = 1 /\ more # <<>> THEN 1 ELSE 0
    BY <1>12 DEF Get
  <2>3. 1 \in listed /\ (more # <<>> => 2 \in listed)
    OBVIOUS
  <2> HIDE DEF listed
  <2>4. Get(Node(g, 1), "children", 0) = IF more # <<>> THEN 1 ELSE 0
    BY <2>2, <2>3
  <2>5. more # <<>> => Get(Node(g, 2), "children", 0) = 0
    BY <2>2, <2>3
  <2> QED BY <2>1, <2>4, <2>5 DEF ChildrenOf
<1>15. Tree(g)
  <2>1. CASE more = <<>>
    BY <1>11, <1>14, <2>1 DEF Tree
  <2>2. CASE more # <<>>
    <3>1. listed = {1, 2} /\ ChildrenOf(g, 1) = {2} /\ ChildrenOf(g, 2) = {}
      BY <1>14, <2>2
    <3>2. {m \in {1, 2} : 2 \in ChildrenOf(g, m)} = {1}
      BY <3>1
    <3> HIDE DEF listed
    <3>3. \A c \in {1, 2} \ {1} : \E n \in {1, 2} : {m \in {1, 2} : c \in ChildrenOf(g, m)} = {n}
      BY <3>2
    <3>4. \A n \in {1, 2} : \A c \in ChildrenOf(g, n) : c > n /\ c \in {1, 2}
      BY <3>1
    <3>5. \A n \in {1, 2} \ {1} : ChildrenOf(g, n) = {}
      BY <3>1
    <3> QED BY <1>11, <3>1, <3>3, <3>4, <3>5 DEF Tree
  <2> QED BY <2>1, <2>2
<1>16. SemanticsValid(g)
  <2>1. "scene_revision" \in DOMAIN extra /\ g.scene_revision = 1
    BY <1>6, <1>7 DEF Goes
  <2>2. 1 \in listed
    OBVIOUS
  <2>3. \A m, n \in listed : Node(g, m).id = Node(g, n).id => m = n
    BY <1>12
  <2> HIDE DEF listed
  <2> QED BY <1>11, <1>13, <1>15, <2>1, <2>2, <2>3 DEF SemanticsValid
<1>17. DecodesSemantics(g)
  <2> HIDE DEF listed
  <2> QED BY <1>10, <1>11, <1>13, <1>16 DEF DecodesSemantics
<1> QED BY <1>7, <1>17 DEF g

LEMMA StatusAnswersOf ==
  ASSUME NEW p, DecodesWindowStatus(p), NEW r \in AfterStatus(p)
  PROVE  r.kind \in OverlayKinds \ {"OVERLAY_ENV_CHANGED"} /\ OverlayDecodes(r.kind, r.fields)
<1>1. IsAddress(p) /\ p.scene_revision \in U64
  BY StatusRead
<1>2. ASSUME r \in AnEventOf(p)
      PROVE  r.kind = "OVERLAY_INPUT_EVENT" /\ DecodesEvent(r.fields)
  <2>1. \A event \in Events :
          /\ LET e == AnEvent(p, event, {}) IN e.kind = "OVERLAY_INPUT_EVENT" /\ DecodesEvent(e.fields)
          /\ LET e == AnEvent(p, event, DOMAIN EventOptions(event)) IN
             e.kind = "OVERLAY_INPUT_EVENT" /\ DecodesEvent(e.fields)
    BY <1>1, EventsDecode
  <2>2. {POINTER, IME} \subseteq Events
    BY DEF POINTER, IME, Events, FOCUS, ACCESSIBILITY
  <2>3. \/ \E event \in Events : r = AnEvent(p, event, {})
        \/ \E event \in {POINTER, IME} : r = AnEvent(p, event, DOMAIN EventOptions(event))
    BY <1>2 DEF AnEventOf
  <2> QED BY <2>1, <2>2, <2>3
<1>3. ASSUME r \in SemanticsOf(p)
      PROVE  r.kind = "SET_OVERLAY_SEMANTICS" /\ DecodesSemantics(r.fields)
  BY <1>1, <1>3, SemanticsDecode
<1>4. \/ r \in AnEventOf(p) \/ r \in SemanticsOf(p)
      \/ LET short(kind, fields) == Built(kind, p.surface_id, AddressOf(p) ++ fields) IN
         \/ r = short("OVERLAY_ACTION", [expected_revision |-> p.expected_revision, action |-> 0])
         \/ r = short("SET_OVERLAY_CLIPBOARD", [text |-> 1])
         \/ r = short("OVERLAY_INPUT_CAPTURE", [scene_revision |-> 1, capture |-> 1])
         \/ /\ Has(p, "track_id")
            /\ \E o \in {0, 1} :
                 r = short("OVERLAY_SUBMISSION_OUTCOME", Select(p, DOMAIN Submission) ++ [outcome |-> o])
         \/ r = Built("QUERY_OVERLAY", p.surface_id, Select(p, {"context_id", "surface_id"}))
  BY Zenon DEF AfterStatus
<1>5. CASE r \in AnEventOf(p)
  BY <1>2, <1>5 DEF OverlayKinds, OverlayDecodes
<1>6. CASE r \in SemanticsOf(p)
  BY <1>3, <1>6 DEF OverlayKinds, OverlayDecodes
<1> QED BY <1>4, <1>5, <1>6, ShortRecordsDecode

LEMMA OverlayAnswersDecode ==
  ASSUME NEW kind \in OverlayKinds, NEW p, OverlayDecodes(kind, p), NEW r \in OverlayAnswers(kind, p)
  PROVE  r.kind \in OverlayKinds \ {"OVERLAY_ENV_CHANGED"} /\ OverlayDecodes(r.kind, r.fields)
<1>1. CASE kind = "SET_OVERLAY_WINDOW"
  <2>1. r.kind = "OVERLAY_STATUS" /\ DecodesWindowStatus(r.fields)
    BY <1>1, StatusesDecode DEF OverlayAnswers, OverlayDecodes
  <2> QED BY <2>1 DEF OverlayKinds, OverlayDecodes
<1>2. CASE kind = "OVERLAY_STATUS"
  BY <1>2, StatusAnswersOf DEF OverlayAnswers, OverlayDecodes
<1> QED BY <1>1, <1>2 DEF OverlayAnswers

(***************************************************************************)
(* What was built is understood.                                           *)
(***************************************************************************)
LEMMA OpeningsUnderstood ==
  ASSUME NEW r \in Openings
  PROVE  Encodes(r) /\ Decodes(r)
<1>1. CASE r \in FileDropOpenings
  <2>1. Decodes(r) /\ r.kind \in FileDropKinds
    BY <1>1, FileDropOpeningsDecode, RulesByKind
  <2> QED BY <2>1, DecodedEncodes DEF FileDropKinds
<1>2. CASE r \in ControlOpenings
  <2>1. Decodes(r) /\ r.kind \in ControlKinds
    BY <1>2, ControlOpeningsDecode, RulesByKind
  <2> QED BY <2>1, DecodedEncodes DEF ControlKinds
<1>3. CASE r \in SurfaceOpenings
  <2>1. Decodes(r) /\ r.kind \in SurfaceKinds
    BY <1>3, SurfaceOpeningsDecode, RulesByKind
  <2> QED BY <2>1, DecodedEncodes DEF SurfaceKinds
<1>4. CASE r \in TrackOpenings
  <2>1. r.kind = "PROBE_TRACK_CONFIG" /\ DecodesTrack(r.fields, TRUE)
    BY <1>4, TrackOpeningsDecode
  <2>2. r.kind \notin FileDropKinds \union ControlKinds \union SurfaceKinds \union OverlayKinds
    BY <2>1, KindsApart DEF TrackKindsOfRecord
  <2>3. Decodes(r)
    BY <2>1, <2>2, RulesByKind DEF TrackDecodes
  <2> QED BY <2>1, <2>3, DecodedEncodes
<1>5. CASE r \in OverlayOpenings
  <2>1. Decodes(r) /\ r.kind \in OverlayKinds
    BY <1>5, OverlayOpeningsDecode, RulesByKind
  <2>2. r.kind = "OVERLAY_ENV_CHANGED" => Encodes(r)
    BY <1>5, <2>1, OverlayOpeningsDecode, RulesByKind
  <2> QED BY <2>1, <2>2, DecodedEncodes
<1> QED BY <1>1, <1>2, <1>3, <1>4, <1>5 DEF Openings

LEMMA AnswersDecode ==
  ASSUME NEW q, IsRecord(q), Decodes(q), NEW r \in Answers(q)
  PROVE  Decodes(r) /\ r.kind # "OVERLAY_ENV_CHANGED"
<1> DEFINE Ruled == FileDropKinds \union ControlKinds \union SurfaceKinds \union OverlayKinds
<1>1. CASE q.kind \in FileDropKinds
  <2>1. r \in FileDropAnswers(q.kind, q.fields) /\ FileDropDecodes(q.kind, q.fields)
    <3>1. Answers(q) = FileDropAnswers(q.kind, q.fields)
      BY <1>1, KindsApart DEF Answers
    <3> QED BY <1>1, <3>1, RulesByKind
  <2>2. r.kind \in FileDropKinds /\ FileDropDecodes(r.kind, r.fields)
    BY <1>1, <2>1, FileDropAnswersDecode
  <2> QED BY <2>2, RulesByKind DEF FileDropKinds
<1>2. CASE q.kind \in ControlKinds
  <2>1. r \in ControlAnswers(q.kind, q.fields) /\ ControlDecodes(q.kind, q.fields)
    BY <1>2, KindsApart, RulesByKind DEF Answers
  <2>2. r.kind \in ControlKinds /\ ControlDecodes(r.kind, r.fields)
    BY <1>2, <2>1, ControlAnswersDecode
  <2> QED BY <2>2, RulesByKind DEF ControlKinds
<1>3. CASE q.kind \in SurfaceKinds
  <2>1. r \in SurfaceAnswers(q.kind, q.fields) /\ SurfaceDecodes(q.kind, q.fields)
    BY <1>3, KindsApart, RulesByKind DEF Answers
  <2>2. r.kind \in SurfaceKinds /\ SurfaceDecodes(r.kind, r.fields)
    BY <1>3, <2>1, SurfaceAnswersDecode
  <2> QED BY <2>2, RulesByKind DEF SurfaceKinds
<1>4. CASE q.kind \in OverlayKinds
  <2>1. r \in OverlayAnswers(q.kind, q.fields) /\ OverlayDecodes(q.kind, q.fields)
    BY <1>4, KindsApart, RulesByKind DEF Answers
  <2>2. r.kind \in OverlayKinds \ {"OVERLAY_ENV_CHANGED"} /\ OverlayDecodes(r.kind, r.fields)
    BY <1>4, <2>1, OverlayAnswersDecode
  <2> QED BY <2>2, RulesByKind
<1>5. CASE q.kind \notin Ruled
  <2>1. r \in TrackAnswers(q.kind, q.fields) /\ DecodesTrack(q.fields, q.kind = "PROBE_TRACK_CONFIG")
    BY <1>5, RulesByKind DEF Answers, TrackDecodes
  <2>2. CASE q.kind = "PROBE_TRACK_CONFIG"
    <3>1. r.kind = "CREATE_TRACK" /\ DecodesTrack(r.fields, FALSE)
      BY <2>1, <2>2, ProbedTracksDecode DEF TrackAnswers, IsRecord
    <3>2. r.kind \notin Ruled
      BY <3>1, KindsApart DEF TrackKindsOfRecord
    <3> QED BY <3>1, <3>2, RulesByKind DEF TrackDecodes
  <2>3. CASE q.kind # "PROBE_TRACK_CONFIG"
    <3>1. r.kind = "CHANNEL_OPEN" /\ DecodesChannel(r.fields)
      BY <2>1, <2>3, ChannelsDecode DEF TrackAnswers
    <3>2. r.kind \in ControlKinds /\ ControlDecodes(r.kind, r.fields)
      BY <3>1 DEF ControlKinds, ControlDecodes
    <3> QED BY <3>1, <3>2, RulesByKind
  <2> QED BY <2>2, <2>3
<1> QED BY <1>1, <1>2, <1>3, <1>4, <1>5

\* A record that a program built, to open an exchange or to answer any record that it accepted,
\* is one that its encoder writes and that the other program accepts: the values that an answer
\* takes over from a record that was changed on the way are within the rules of the answer too
\* (decode of one kind, payload and decode of the next).
THEOREM AnswersUnderstood == RecordSpec => []Understood
<1>1. RecordInit => Understood
  BY OpeningsUnderstood DEF RecordInit, Understood
<1>2. Understood /\ RecordShape /\ [RecordNext]_recordVars => Understood'
  <2> SUFFICES ASSUME Understood, RecordShape, [RecordNext]_recordVars PROVE Understood'
    OBVIOUS
  <2>1. CASE Change
    BY <2>1 DEF Change, Fault, Understood
  <2>2. CASE Omit
    BY <2>2 DEF Omit, Fault, Understood
  <2>3. CASE Extend
    BY <2>3 DEF Extend, Fault, Understood
  <2>4. CASE Answer
    <3>1. record' \in Answers(record) /\ Decodes(record)
      BY <2>4 DEF Answer
    <3>2. \A r \in Answers(record) : Decodes(r) /\ Encodes(r)
      BY <3>1, AnswersDecode, DecodedEncodes DEF RecordShape
    <3>3. Understood' = (built' => Encodes(record)' /\ Decodes(record)')
      BY DEF Understood
    <3>4. Encodes(record)' = Encodes(record') /\ Decodes(record)' = Decodes(record')
      BY DEF Encodes, Decodes
    <3> QED BY <3>1, <3>2, <3>3, <3>4
  <2>5. CASE UNCHANGED recordVars
    BY <2>5 DEF recordVars, Understood, Encodes, Decodes
  <2> QED BY <2>1, <2>2, <2>3, <2>4, <2>5 DEF RecordNext
<1> QED BY <1>1, <1>2, RecordShapeAlways, PTL DEF RecordSpec
===============================================================================

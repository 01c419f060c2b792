---------------------------- MODULE OverlayRecords ----------------------------
(***************************************************************************)
(* The records of overlay windows (overlay/wire.rs).  Scalars are 0, which *)
(* stands for what is not positive, to MAX_EXTENT; a rectangle is its four *)
(* scalars, under their names.                                             *)
(***************************************************************************)
EXTENDS Records

MAX_EXTENT == 4
Scalars == 0..MAX_EXTENT
Rectangle == Fields({"x", "y", "width", "height"}, Scalars)

\* Rect::validate
RectangleValid(p) ==
  p.width # 0 /\ p.height # 0 /\ p.x + p.width <= MAX_EXTENT /\ p.y + p.height <= MAX_EXTENT

Address == Fields({"context_id", "surface_id", "generation"}, U64)
AddressValid(p) == NonzeroAll(p, DOMAIN Address)

\* WindowAddress::decode, with the fields of the record.
Addressed(types, options, p) ==
  ReadsWith(Address ++ types, options, p) /\ AddressValid(p) /\ HeaderIs(p, "surface_id")

(***************************************************************************)
(* SET_OVERLAY_WINDOW and OVERLAY_STATUS.                                  *)
(***************************************************************************)
WindowModes == 0..2
WindowFields ==
  [expected_revision |-> U64, mode |-> WindowModes, visible |-> Bool] ++ Rectangle ++
  Fields({"min_width", "min_height"}, Scalars)
ParentFields == Fields({"parent_context_id", "parent_surface_id"}, U64)

\* WindowOptions::validate, and the parent.
WindowValid(p) ==
  /\ AddressValid(p) /\ RectangleValid(p)
  /\ p.min_width \in 1..p.width /\ p.min_height \in 1..p.height
  /\ DOMAIN ParentFields \intersect DOMAIN p # {} =>
       /\ DOMAIN ParentFields \subseteq DOMAIN p /\ NonzeroAll(p, DOMAIN ParentFields)
       /\ ~(p.parent_context_id = p.context_id /\ p.parent_surface_id = p.surface_id)
DecodesWindow(p) == Addressed(WindowFields, ParentFields, p) /\ WindowValid(p)

ViewportFields ==
  Fields({"viewport_width", "viewport_height"}, Scalars) ++
  Fields({"scale_numerator", "scale_denominator"}, U32)
ViewportValid(p) == NonzeroAll(p, DOMAIN ViewportFields)

Submission == Fields({"track_id", "channel_generation", "revision"}, U64) ++ [epoch |-> U32]
WindowStatusFields ==
  WindowFields ++ ViewportFields ++ [focused |-> Bool] ++
  Fields({"scene_revision", "viewport_revision", "accepted_revision"}, U64)

\* The revision that is accepted precedes neither what is active nor what is presented.
StatusValid(p) ==
  /\ WindowValid(p) /\ ViewportValid(p)
  /\ NonzeroAll(p, {"expected_revision", "viewport_revision"})
  /\ p.scene_revision <= p.accepted_revision
  /\ DOMAIN Submission \intersect DOMAIN p # {} =>
       /\ DOMAIN Submission \subseteq DOMAIN p /\ NonzeroAll(p, DOMAIN Submission)
       /\ p.revision <= p.accepted_revision
DecodesWindowStatus(p) == Addressed(WindowStatusFields, ParentFields ++ Submission, p) /\ StatusValid(p)

(***************************************************************************)
(* The shorter records.                                                    *)
(***************************************************************************)
WindowActions == 0..4
ActionFields == [expected_revision |-> U64, action |-> WindowActions]
ActionValid(p) == AddressValid(p) /\ p.expected_revision # 0
DecodesAction(p) == Addressed(ActionFields, <<>>, p) /\ ActionValid(p)

OutcomeFields == Submission ++ [outcome |-> {0, 1}]
OutcomeValid(p) == AddressValid(p) /\ NonzeroAll(p, DOMAIN Submission)
DecodesOutcome(p) == Addressed(OutcomeFields, <<>>, p) /\ OutcomeValid(p)

ViewportChangedValid(p) == ViewportValid(p) /\ p.revision # 0
DecodesViewportChanged(p) ==
  Reads(ViewportFields ++ [revision |-> U64], p) /\ p.header = 0 /\ ViewportChangedValid(p)

WindowQueryFields == Fields({"context_id", "surface_id"}, U64)
QueryValid(p) == NonzeroAll(p, DOMAIN WindowQueryFields)
DecodesWindowQuery(p) == Reads(WindowQueryFields, p) /\ QueryValid(p) /\ HeaderIs(p, "surface_id")

ClipboardValid(p) == AddressValid(p) /\ p.text \notin {Empty, TooLong}
DecodesClipboard(p) == Addressed([text |-> Text], <<>>, p) /\ ClipboardValid(p)

CaptureValid(p) == AddressValid(p) /\ p.scene_revision # 0
DecodesCapture(p) == Addressed([scene_revision |-> U64, capture |-> Bool], <<>>, p) /\ CaptureValid(p)

Watchdogs == 1..3
RenewValid(p) == p.lane_generation # 0 /\ p.watchdog_us \in Watchdogs
DecodesRenew(p) ==
  Reads(Fields({"lane_generation", "watchdog_us"}, U64), p) /\ p.header = 0 /\ RenewValid(p)

EnvironmentFields ==
  [revision |-> U64, font_family |-> Text, font_size |-> Scalars, appearance |-> {0, 1},
   reduced_motion |-> Bool \union {Null}, refresh_interval_us |-> U64 \union {Null}]

\* Environment::validate
EnvironmentValid(p) ==
  p.font_family # TooLong /\ p.font_size # 0 /\ p.refresh_interval_us # 0

\* The revision is checked when it is written, not when it is read.
EncodesEnvironment(p) == EnvironmentValid(p) /\ p.revision # 0
DecodesEnvironment(p) == Reads(EnvironmentFields, p) /\ p.header = 0 /\ EnvironmentValid(p)

(***************************************************************************)
(* OVERLAY_INPUT_EVENT.                                                    *)
(***************************************************************************)
FOCUS == 0
POINTER == 1
WHEEL == 2
KEY == 3
TEXT == 4
IME == 5
GEOMETRY == 6
DISMISSED == 7
CANCEL == 8
HOVER == 9
ACCESSIBILITY == 10
Events == FOCUS..ACCESSIBILITY

MAX_BUTTON == 2            \* buttons::MAXIMUM
MAX_CLICKS == 3
KnownModifiers == 0..3     \* modifiers::KNOWN_MASK
Keys == {0} \union 2..4    \* keys::valid
AccessibleActions == 0..3
Phases == 0..4             \* ScrollPhase
Reasons == 0..4            \* DismissReason
U8 == 0..5

EventFields(event) ==
  CASE event = FOCUS -> [focused |-> Bool]
    [] event = POINTER ->
         Fields({"position_x", "position_y"}, Scalars) ++ [region |-> U64, modifiers |-> U32]
    [] event = WHEEL ->
         Fields({"position_x", "position_y", "dx", "dy"}, Scalars) ++
         [modifiers |-> U32, precise |-> Bool, phase |-> Phases]
    [] event = KEY -> [physical |-> U32, modifiers |-> U32] ++ Fields({"down", "repeat"}, Bool)
    [] event = TEXT -> [text |-> Text]
    [] event = IME -> [preedit |-> Text]
    [] event = GEOMETRY -> Rectangle ++ [settled |-> Bool]
    [] event = DISMISSED -> [reason |-> Reasons]
    [] event = CANCEL -> [nothing |-> {Null}]
    [] event = HOVER -> [region |-> U64, entered |-> Bool]
    [] OTHER -> [node |-> U64, action |-> AccessibleActions]

\* The two elements of a button, of what follows the modifiers, of a selection.
Pairs(event) ==
  CASE event = POINTER -> {{"button", "button_down"}, {"clicks", "pressure"}}
    [] event = IME -> {{"selection_start", "selection_end"}}
    [] OTHER -> {}
EventOptions(event) ==
  CASE event = POINTER ->
         [button |-> U32, button_down |-> Bool, clicks |-> U8, pressure |-> Scalars \union {Null}]
    [] event = IME -> Fields({"selection_start", "selection_end"}, U32)
    [] OTHER -> <<>>

Length(text) == IF text \in Ordinary THEN text ELSE 0

\* valid_event
EventValid(p) ==
  CASE p.kind = POINTER ->
         /\ p.modifiers \in KnownModifiers
         /\ Has(p, "button") => p.button <= MAX_BUTTON
         /\ Has(p, "clicks") => p.clicks <= MAX_CLICKS /\ p.pressure \in {Null, 0, 1}
    [] p.kind = WHEEL -> p.modifiers \in KnownModifiers
    [] p.kind = KEY -> p.modifiers \in KnownModifiers /\ p.physical \in Keys
    [] p.kind = ACCESSIBILITY -> p.node # 0
    [] p.kind = GEOMETRY -> RectangleValid(p)
    [] p.kind = TEXT -> p.text # TooLong
    [] p.kind = IME ->
         /\ p.preedit # TooLong
         /\ Has(p, "selection_start") =>
              p.selection_start <= p.selection_end /\ p.selection_end <= Length(p.preedit)
    [] OTHER -> TRUE

EncodesEvent(p) == AddressValid(p) /\ EventValid(p)
DecodesEvent(p) ==
  /\ Has(p, "kind") /\ p.kind \in Events
  /\ Addressed([scene_revision |-> U64, kind |-> Events] ++ EventFields(p.kind),
               EventOptions(p.kind), p)
  /\ \A pair \in Pairs(p.kind) : pair \intersect DOMAIN p \in {{}, pair}
  /\ EventValid(p)

\* Mutant: the clicks are left out whatever the pressure.
WrittenEventInParts(p) ==
  IF p.kind = POINTER THEN WithoutDefault(p, "clicks", 0) ELSE p

\* Neither are written when there is no click and no pressure.
WrittenEvent(p) ==
  IF p.kind = POINTER /\ Get(p, "clicks", 0) = 0 /\ Get(p, "pressure", Null) = Null
  THEN Select(p, DOMAIN p \ {"clicks", "pressure"})
  ELSE p

(***************************************************************************)
(* SET_OVERLAY_SEMANTICS: a tree of three nodes, of which a record lists   *)
(* the first ones.  The children of a node are a set of places in the list *)
(* and MAX_DEPTH is one.  A list of children or actions is a number.       *)
(***************************************************************************)
NodePlaces == 1..3

\* The name, in the record, of a field of the node at a place.
NodeNames ==
  [id |-> <<"id1", "id2", "id3">>, role |-> <<"role1", "role2", "role3">>,
   x |-> <<"x1", "x2", "x3">>, y |-> <<"y1", "y2", "y3">>,
   width |-> <<"width1", "width2", "width3">>, height |-> <<"height1", "height2", "height3">>,
   label |-> <<"label1", "label2", "label3">>,
   numeric |-> <<"numeric1", "numeric2", "numeric3">>,
   level |-> <<"level1", "level2", "level3">>,
   set_position |-> <<"set_position1", "set_position2", "set_position3">>,
   set_size |-> <<"set_size1", "set_size2", "set_size3">>,
   toggled |-> <<"toggled1", "toggled2", "toggled3">>,
   disabled |-> <<"disabled1", "disabled2", "disabled3">>,
   actions |-> <<"actions1", "actions2", "actions3">>,
   children |-> <<"children1", "children2", "children3">>]
At(place, f) == NodeNames[f][place]

Children ==
  [list \in 0..4 |->
     CASE list = 0 -> {} [] list = 1 -> {2} [] list = 2 -> {3} [] list = 3 -> {2, 3}
       [] OTHER -> {1}]
Roles == 0..3              \* SemanticRole
NodeTypes == [id |-> U64, role |-> Roles] ++ Rectangle
NodeOptions ==
  [label |-> Text, numeric |-> Scalars, level |-> U8, set_position |-> U32, set_size |-> U32,
   toggled |-> 0..2, disabled |-> Bool, actions |-> Text, children |-> DOMAIN Children]
NodeKeys(place) == {At(place, f) : f \in DOMAIN NodeTypes \union DOMAIN NodeOptions}
Nodes(p) == {n \in NodePlaces : NodeKeys(n) \intersect DOMAIN p # {}}

\* The fields of a node under their own names.
Node(p, n) ==
  [f \in {g \in DOMAIN NodeTypes \union DOMAIN NodeOptions : At(n, g) \in DOMAIN p} |->
     p[At(n, f)]]
ChildrenOf(p, n) == Children[Get(Node(p, n), "children", 0)]
SetPair == {"set_position", "set_size"}

\* parse_node
ReadsNode(node) ==
  /\ ReadsWith(NodeTypes, NodeOptions, node)
  /\ SetPair \intersect DOMAIN node \in {{}, SetPair}

NodeSound(node) ==
  /\ node.id # 0 /\ RectangleValid(node)
  /\ Get(node, "label", Empty) # TooLong /\ Get(node, "actions", Empty) # TooLong
  /\ Has(node, "set_size") => node.set_position \in 1..node.set_size

\* Each node but the first is the child of one before it, at most one below the root.
Tree(p) ==
  /\ \A n \in Nodes(p) : \A c \in ChildrenOf(p, n) : c > n /\ c \in Nodes(p)
  /\ \A c \in Nodes(p) \ {1} : \E n \in Nodes(p) :
       {m \in Nodes(p) : c \in ChildrenOf(p, m)} = {n}
  /\ \A n \in Nodes(p) \ {1} : ChildrenOf(p, n) = {}

SemanticsValid(p) ==
  /\ p.scene_revision # 0 /\ 1 \in Nodes(p)
  /\ \A n \in Nodes(p) : NodeSound(Node(p, n))
  /\ \A m, n \in Nodes(p) : Node(p, m).id = Node(p, n).id => m = n
  /\ Tree(p)

EncodesSemantics(p) == AddressValid(p) /\ SemanticsValid(p)
DecodesSemantics(p) ==
  /\ Addressed([scene_revision |-> U64], <<>>,
               Select(p, DOMAIN p \ UNION {NodeKeys(n) : n \in NodePlaces}))
  /\ \A n \in Nodes(p) : ReadsNode(Node(p, n))
  /\ SemanticsValid(p)

\* node_value writes neither an empty text or list nor what is not disabled.
Defaults == {"label", "disabled", "actions", "children"}
WrittenSemantics(p) ==
  Select(p, {k \in DOMAIN p :
               ~\E n \in NodePlaces, f \in Defaults : k = At(n, f) /\ p[k] = 0})

(***************************************************************************)
(* By kind of record.                                                      *)
(***************************************************************************)
OverlayKinds ==
  {"SET_OVERLAY_WINDOW", "OVERLAY_STATUS", "OVERLAY_ACTION", "OVERLAY_SUBMISSION_OUTCOME",
   "OVERLAY_VIEWPORT_CHANGED", "QUERY_OVERLAY", "OVERLAY_INPUT_EVENT", "SET_OVERLAY_SEMANTICS",
   "SET_OVERLAY_CLIPBOARD", "OVERLAY_ENV_CHANGED", "OVERLAY_INPUT_CAPTURE",
   "OVERLAY_INPUT_RENEW"}

OverlayDecodes(kind, p) ==
  CASE kind = "SET_OVERLAY_WINDOW" -> DecodesWindow(p)
    [] kind = "OVERLAY_STATUS" -> DecodesWindowStatus(p)
    [] kind = "OVERLAY_ACTION" -> DecodesAction(p)
    [] kind = "OVERLAY_SUBMISSION_OUTCOME" -> DecodesOutcome(p)
    [] kind = "OVERLAY_VIEWPORT_CHANGED" -> DecodesViewportChanged(p)
    [] kind = "QUERY_OVERLAY" -> DecodesWindowQuery(p)
    [] kind = "OVERLAY_INPUT_EVENT" -> DecodesEvent(p)
    [] kind = "SET_OVERLAY_SEMANTICS" -> DecodesSemantics(p)
    [] kind = "SET_OVERLAY_CLIPBOARD" -> DecodesClipboard(p)
    [] kind = "OVERLAY_ENV_CHANGED" -> DecodesEnvironment(p)
    [] kind = "OVERLAY_INPUT_CAPTURE" -> DecodesCapture(p)
    [] OTHER -> DecodesRenew(p)

OverlayEncodes(kind, p) ==
  CASE kind = "SET_OVERLAY_WINDOW" -> WindowValid(p)
    [] kind = "OVERLAY_STATUS" -> StatusValid(p)
    [] kind = "OVERLAY_ACTION" -> ActionValid(p)
    [] kind = "OVERLAY_SUBMISSION_OUTCOME" -> OutcomeValid(p)
    [] kind = "OVERLAY_VIEWPORT_CHANGED" -> ViewportChangedValid(p)
    [] kind = "QUERY_OVERLAY" -> QueryValid(p)
    [] kind = "OVERLAY_INPUT_EVENT" -> EncodesEvent(p)
    [] kind = "SET_OVERLAY_SEMANTICS" -> EncodesSemantics(p)
    [] kind = "SET_OVERLAY_CLIPBOARD" -> ClipboardValid(p)
    [] kind = "OVERLAY_ENV_CHANGED" -> EncodesEnvironment(p)
    [] kind = "OVERLAY_INPUT_CAPTURE" -> CaptureValid(p)
    [] OTHER -> RenewValid(p)

OverlayWritten(kind, p) ==
  CASE kind = "OVERLAY_INPUT_EVENT" -> WrittenEvent(p)
    [] kind = "SET_OVERLAY_SEMANTICS" -> WrittenSemantics(p)
    [] OTHER -> p

(***************************************************************************)
(* What follows a record: a window that was set has a status, and its      *)
(* producer goes on to dress it and the presenter to send it events.       *)
(***************************************************************************)
Statuses(p) ==
  LET status(submission, accepted) ==
        Built("OVERLAY_STATUS", p.surface_id,
              [expected_revision |-> 1] ++ p ++ submission ++ Fields(DOMAIN ViewportFields, 1) ++
              [focused |-> 0, scene_revision |-> 0, viewport_revision |-> 1,
               accepted_revision |-> accepted])
  IN {status(<<>>, 0), status(Fields(DOMAIN Submission, 1), 1)}

AddressOf(p) == Select(p, DOMAIN Address)

AnEvent(p, event, options) ==
  Built("OVERLAY_INPUT_EVENT", p.surface_id,
        AddressOf(p) ++ [scene_revision |-> p.scene_revision, kind |-> event] ++
        [f \in DOMAIN EventFields(event) |->
           IF f = "nothing" THEN Null ELSE IF f = "physical" THEN 2 ELSE 1] ++
        Fields(options, 1))

AnEventOf(p) ==
  {AnEvent(p, event, {}) : event \in Events} \union
  {AnEvent(p, event, DOMAIN EventOptions(event)) : event \in {POINTER, IME}}

\* A root, and a root with one child.
PlainNode(n, id) ==
  [k \in {At(n, f) : f \in DOMAIN NodeTypes} |-> IF k = At(n, "id") THEN id ELSE 1]
SemanticsOf(p) ==
  {Built("SET_OVERLAY_SEMANTICS", p.surface_id,
         AddressOf(p) ++ [scene_revision |-> 1] ++ PlainNode(1, 1) ++ more) :
     more \in {<<>>, Fields({At(1, "children")}, 1) ++ PlainNode(2, 2)}}

AfterStatus(p) ==
  LET record(kind, fields) == Built(kind, p.surface_id, AddressOf(p) ++ fields) IN
  AnEventOf(p) \union SemanticsOf(p) \union
  {record("OVERLAY_ACTION", [expected_revision |-> p.expected_revision, action |-> 0]),
   record("SET_OVERLAY_CLIPBOARD", [text |-> 1]),
   record("OVERLAY_INPUT_CAPTURE", [scene_revision |-> 1, capture |-> 1]),
   Built("QUERY_OVERLAY", p.surface_id, Select(p, {"context_id", "surface_id"}))} \union
  IF Has(p, "track_id")
  THEN {record("OVERLAY_SUBMISSION_OUTCOME", Select(p, DOMAIN Submission) ++ [outcome |-> o]) :
          o \in {0, 1}}
  ELSE {}

OverlayAnswers(kind, p) ==
  CASE kind = "SET_OVERLAY_WINDOW" -> Statuses(p)
    [] kind = "OVERLAY_STATUS" -> AfterStatus(p)
    [] OTHER -> {}

OverlayOpenings ==
  {Built("SET_OVERLAY_WINDOW", 1,
         parent ++ Fields(DOMAIN Address \union DOMAIN WindowFields, 1)) :
     parent \in {<<>>, [parent_context_id |-> 1, parent_surface_id |-> 2]}} \union
  {Built("OVERLAY_VIEWPORT_CHANGED", 0, Fields(DOMAIN ViewportFields \union {"revision"}, 1)),
   Built("OVERLAY_ENV_CHANGED", 0, [reduced_motion |-> Null] ++ Fields(DOMAIN EnvironmentFields, 1)),
   Built("OVERLAY_INPUT_RENEW", 0, Fields({"lane_generation", "watchdog_us"}, 1))}
===============================================================================

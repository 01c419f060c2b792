---------------------------- MODULE SurfaceRecords ----------------------------
(***************************************************************************)
(* The records of contexts, surfaces, scene nodes and the desktop target   *)
(* (context.rs, surface.rs, scene.rs, target.rs).                          *)
(***************************************************************************)
EXTENDS Records, FiniteSets

AnyMap == 0..4                  \* a map that is kept as it is
KnownBits == 0..3               \* the bits of a mask that are assigned
I32 == U32
U16 == 0..4

(***************************************************************************)
(* CREATE_CONTEXT.                                                         *)
(***************************************************************************)
ContextFields ==
  Fields({"context_id", "parent_context_id", "operation_classes", "lifetime_us"}, U64) ++
  [label |-> Text, requested_contract |-> Fixed]
ContextValid(p) ==
  /\ NonzeroAll(p, {"context_id", "parent_context_id"}) /\ HeaderIs(p, "context_id")
  /\ p.operation_classes \in KnownBits /\ p.label # TooLong
DecodesContext(p) == Reads(ContextFields, p) /\ ContextValid(p)

(***************************************************************************)
(* CREATE_SURFACE.                                                         *)
(***************************************************************************)
SurfaceRoles == 0..4

\* CoordinateModel, and the models each semantic profile may have.
LOGICAL_PIXELS == 1
NORMALIZED == 2
CANVAS_UNITS == 3
CELLS == 4
GENERIC_CONTENT == 1
TERMINAL_CONTENT == 2
DESKTOP_CONTENT == 3
CANVAS_CONTENT == 4
LegalModels(profile) ==
  CASE profile = GENERIC_CONTENT -> {LOGICAL_PIXELS, NORMALIZED, CANVAS_UNITS}
    [] profile = TERMINAL_CONTENT -> {CELLS}
    [] profile = DESKTOP_CONTENT -> {LOGICAL_PIXELS}
    [] profile = CANVAS_CONTENT -> {CANVAS_UNITS, NORMALIZED}
    [] OTHER -> {}

Rotations == 0..3               \* quarter turns

DescriptorFields ==
  [role |-> SurfaceRoles] ++ Fields({"title", "locator_hint"}, Text) ++
  Fields({"semantic_content_revision", "semantic_availability"}, U64)
DescriptorValid(p) ==
  p.title # TooLong /\ p.locator_hint # TooLong /\ p.semantic_availability \in KnownBits

SurfaceFields ==
  Fields({"context_id", "surface_id", "logical_width", "logical_height", "scale_numerator",
          "scale_denominator", "policy", "coordinate_model"}, U64) ++
  [semantic_profile |-> Text, rotation |-> U16, profile_parameters |-> AnyMap] ++
  DescriptorFields
SurfaceValid(p) ==
  /\ NonzeroAll(p, {"context_id", "surface_id", "logical_width", "logical_height",
                    "scale_numerator", "scale_denominator"})
  /\ p.rotation \in Rotations /\ p.policy \in KnownBits
  /\ p.coordinate_model \in LegalModels(p.semantic_profile)
  /\ DescriptorValid(p)
DecodesSurface(p) == Reads(SurfaceFields, p) /\ HeaderIs(p, "surface_id") /\ SurfaceValid(p)

(***************************************************************************)
(* CREATE_NODE and UPDATE_NODE.                                            *)
(***************************************************************************)
Fits == 1..4
NodeFields ==
  Fields({"owning_context_id", "node_id", "surface_context_id", "surface_id"}, U64) ++
  [geometry |-> AnyMap, fit |-> Fits, linear_sampling |-> Bool, z_index |-> U32,
   blend |-> {0}, visible |-> Bool, opacity |-> U16]
NodeValid(p) == NonzeroAll(p, {"owning_context_id", "node_id", "surface_context_id", "surface_id"})
DecodesNode(p) ==
  ReadsWith(NodeFields, [clip |-> AnyMap], p) /\ NodeValid(p) /\ HeaderIs(p, "node_id")

(***************************************************************************)
(* The desktop target and a surface that captured one: arrays of outputs,  *)
(* here up to two.  Their encoders check nothing.                          *)
(***************************************************************************)
Outputs == {"first", "second"}

\* The name, in the record, of a field of an output.
OutputNames ==
  [first |-> [id |-> "id1", x |-> "x1", y |-> "y1", width |-> "width1", height |-> "height1",
              scale_numerator |-> "scale_numerator1", scale_denominator |-> "scale_denominator1",
              rotation |-> "rotation1", primary |-> "primary1"],
   second |-> [id |-> "id2", x |-> "x2", y |-> "y2", width |-> "width2", height |-> "height2",
               scale_numerator |-> "scale_numerator2", scale_denominator |-> "scale_denominator2",
               rotation |-> "rotation2", primary |-> "primary2"]]
Key(output, f) == OutputNames[output][f]
OutputTypes ==
  [id |-> U64] ++ Fields({"x", "y"}, I32) ++
  Fields({"width", "height", "scale_numerator", "scale_denominator"}, U32) ++
  [rotation |-> Rotations, primary |-> Bool]
OutputKeys(output) == {Key(output, f) : f \in DOMAIN OutputTypes}

\* The outputs a record has, and one of them.
Listed(p) == {o \in Outputs : OutputKeys(o) \intersect DOMAIN p # {}}
Output(p, o) == [f \in DOMAIN OutputTypes |-> p[Key(o, f)]]

DecodesOutput(p, o) ==
  /\ OutputKeys(o) \subseteq DOMAIN p
  /\ \A f \in DOMAIN OutputTypes : p[Key(o, f)] \in OutputTypes[f]
  /\ \A f \in {"width", "height", "scale_numerator", "scale_denominator"} : p[Key(o, f)] # 0

Others(p) == Select(p, DOMAIN p \ UNION {OutputKeys(o) : o \in Outputs})
DistinctOutputs(p) ==
  \A a, b \in Listed(p) : Output(p, a).id = Output(p, b).id => a = b

Within(from, length, low, extent) == low <= from /\ from + length <= low + extent

TargetFields ==
  Fields({"origin_x", "origin_y"}, I32) ++ Fields({"width", "height"}, U32) ++
  [settled |-> Bool, topology_revision |-> U64]
TargetValid(p) ==
  /\ p.width # 0 /\ p.height # 0
  /\ Listed(p) # {} => Cardinality({o \in Listed(p) : Output(p, o).primary = 1}) = 1
  /\ DistinctOutputs(p)
  /\ \A o \in Listed(p) :
       /\ Within(Output(p, o).x, Output(p, o).width, p.origin_x, p.width)
       /\ Within(Output(p, o).y, Output(p, o).height, p.origin_y, p.height)
DecodesTarget(p) ==
  /\ Reads(TargetFields, Others(p))
  /\ \A o \in Listed(p) : DecodesOutput(p, o)
  /\ TargetValid(p)

ParameterFields ==
  Fields({"captured_origin_x", "captured_origin_y"}, I32) ++
  Fields({"semantic_generation", "input_capabilities"}, U64)
ParametersValid(p) ==
  p.semantic_generation # 0 /\ p.input_capabilities \in KnownBits /\ DistinctOutputs(p)
DecodesParameters(p) ==
  /\ Reads(ParameterFields, Others(p))
  /\ \A o \in Listed(p) : DecodesOutput(p, o)
  /\ ParametersValid(p)

(***************************************************************************)
(* By kind of record.                                                      *)
(***************************************************************************)
SurfaceKinds ==
  {"CREATE_CONTEXT", "CREATE_SURFACE", "CREATE_NODE", "DESKTOP_TARGET", "DESKTOP_PARAMETERS"}

SurfaceDecodes(kind, p) ==
  CASE kind = "CREATE_CONTEXT" -> DecodesContext(p)
    [] kind = "CREATE_SURFACE" -> DecodesSurface(p)
    [] kind = "CREATE_NODE" -> DecodesNode(p)
    [] kind = "DESKTOP_TARGET" -> DecodesTarget(p)
    [] OTHER -> DecodesParameters(p)

SurfaceEncodes(kind, p) ==
  CASE kind = "CREATE_CONTEXT" -> ContextValid(p)
    [] kind = "CREATE_SURFACE" -> SurfaceValid(p)
    [] kind = "CREATE_NODE" -> NodeValid(p)
    [] OTHER -> TRUE

(***************************************************************************)
(* What follows a record.                                                  *)
(***************************************************************************)
SurfacesIn(context) ==
  LET surface(profile, model) ==
        Built("CREATE_SURFACE", 1,
              [context_id |-> context, semantic_profile |-> profile, coordinate_model |-> model,
               role |-> 0, rotation |-> 0] ++
              Fields(DOMAIN SurfaceFields, 1))
  IN {surface(GENERIC_CONTENT, NORMALIZED), surface(TERMINAL_CONTENT, CELLS),
      surface(DESKTOP_CONTENT, LOGICAL_PIXELS)}

NodesOf(p) ==
  {Built("CREATE_NODE", 1,
         [surface_context_id |-> p.context_id, surface_id |-> p.surface_id, blend |-> 0] ++ clip ++
         Fields(DOMAIN NodeFields, 1)) :
     clip \in {<<>>, [clip |-> 1]}}

\* A desktop surface tells what it captured: the outputs of a target.
Captured(p) ==
  {Built("DESKTOP_PARAMETERS", 0,
         Select(p, UNION {OutputKeys(o) : o \in Outputs}) ++
         [captured_origin_x |-> p.origin_x, captured_origin_y |-> p.origin_y,
          semantic_generation |-> 1, input_capabilities |-> 0])}

SurfaceAnswers(kind, p) ==
  CASE kind = "CREATE_CONTEXT" -> SurfacesIn(p.context_id)
    [] kind = "CREATE_SURFACE" -> NodesOf(p)
    [] kind = "DESKTOP_TARGET" -> Captured(p)
    [] OTHER -> {}

OutputAt(o, x, primary) ==
  LET values == [id |-> x, x |-> x, primary |-> primary, rotation |-> 0] ++
                Fields(DOMAIN OutputTypes, 1)
  IN [k \in OutputKeys(o) |-> values[CHOOSE f \in DOMAIN OutputTypes : Key(o, f) = k]]

TwoOutputs ==
  [origin_x |-> 1, width |-> 2] ++ Fields(DOMAIN TargetFields, 1) ++
  OutputAt("first", 1, 1) ++ OutputAt("second", 2, 0)

SurfaceOpenings ==
  {Built("CREATE_CONTEXT", 2, [context_id |-> 2] ++ Fields(DOMAIN ContextFields, 1)),
   Built("DESKTOP_TARGET", 0, TwoOutputs)}
=============================================================================

--------------------------- MODULE MCRecordExchange ---------------------------
(***************************************************************************)
(* Every kind of record but OVERLAY_ENV_CHANGED, whose decoder accepts     *)
(* what its encoder refuses (a revision of zero, which                     *)
(* vivid-protocol-1.5-overlays.md:560 does not allow).                     *)
(***************************************************************************)
EXTENDS RecordExchange

EnvironmentKind == {"OVERLAY_ENV_CHANGED"}
KindsButEnvironment ==
  (FileDropKinds \union ControlKinds \union SurfaceKinds \union TrackKindsOfRecord \union
   OverlayKinds) \ EnvironmentKind
===============================================================================

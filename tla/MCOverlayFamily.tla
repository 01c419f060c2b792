-------------------------- MODULE MCOverlayFamily --------------------------
(* Two drives of one session's windows for TLC: a window with a popup or    *)
(* modal on it under calls and keys; and the window alone, whose scene is    *)
(* replaced under a moving pointer.                                         *)
EXTENDS MCOverlay

VARIABLE drive

FamilyInit == drive \in {"keys", "scenes"} /\ OverlayInit

FamilyNext ==
  \/ /\ drive = "keys"
     /\ (\E id \in Ids : SessionCall(id)) \/ HostCall
     /\ UNCHANGED drive
  \/ /\ drive = "scenes"
     /\ SessionCall(a1) \/ SceneCall(a1) \/ HostCall \/ PointerCall
     /\ UNCHANGED drive

FamilySpec == FamilyInit /\ [][FamilyNext]_<<drive, overlayVars>>

\* The window alone is driven through two revisions and short queues.
SmallScenes ==
  drive = "scenes" =>
    /\ \A id \in DOMAIN ui.windows : ui.windows[id].revision <= 2
    /\ \A o \in DOMAIN ui.events : Len(ui.events[o]) <= 2
============================================================================

----------------------------- MODULE MCOverlay -----------------------------
(* OverlayWindows for TLC: a session with a window and a popup or modal on  *)
(* it, and two sessions with a window each.                                 *)
EXTENDS OverlayWindows

CONSTANTS a1, a2, b1, A, B

Shape(mode, parent) == [mode |-> mode, parent |-> parent]

FamilyIds == {a1, a2}
FamilyOwner == [id \in FamilyIds |-> A]
FamilyShapes == [id \in FamilyIds |->
  IF id = a1 THEN {Shape("Floating", None)}
             ELSE {Shape("Popup", a1), Shape("Modal", a1)}]

RivalIds == {a1, b1}
RivalOwner == [id \in RivalIds |-> IF id = a1 THEN A ELSE B]
RivalShapes == [id \in RivalIds |->
  {Shape("Modal", None)} \union
    IF id = a1 THEN {} ELSE {Shape("Popup", None), Shape("Floating", None)}]
============================================================================

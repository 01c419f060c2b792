--------------------------- MODULE OverlayWindows ---------------------------
(***************************************************************************)
(* The overlay window manager: Windows of src/src/overlay.rs, one action   *)
(* per public operation that changes it.  It is driven by the sessions     *)
(* that own windows and by the host that owns the pointer and the keys.    *)
(*                                                                         *)
(* One call runs many private steps on one mutable state, and any event it *)
(* sends may overflow its owner's queue and revoke that owner in the       *)
(* middle of the call.  So the private functions are operators from a      *)
(* state `u` to a state, composed in the order of the code.                *)
(*                                                                         *)
(* Data abstraction.  Bounds, positions and regions' shapes are left out:  *)
(* a pointer report says which windows it hits.  A queued event keeps its  *)
(* window, its scene revision and a class:  "Input" (keys, text, wheel,    *)
(* buttons), "Motion", "Unsettled" geometry, or "Notice" (the rest).  The  *)
(* queue's two limits, events and bytes, are one.  Cursors are left out,   *)
(* and so are stale generations, refused exactly as stale revisions are.   *)
(***************************************************************************)
EXTENDS Naturals, SequencesExt, Collections

CONSTANTS
  Ids,                 \* window identities
  Owners,              \* sessions
  Owner,               \* [Ids -> Owners]: identity.context.session
  Shapes,              \* [Ids -> SUBSET WindowShape]: what sessions may ask for
  Regions, Buttons, None,
  MaxWindows, MaxWindowsPerOwner, MaxOwners,
  MaxPending,          \* MAX_PENDING_EVENTS
  MaxRevision,         \* stands for u64::MAX in a window revision
  MaxScene             \* bound on published scene revisions

WindowShape == [mode: {"Floating", "Popup", "Modal"}, parent: Ids \union {None}]

ASSUME OverlayAssumption ==
  /\ Owner \in [Ids -> Owners] /\ IsFiniteSet(Owners)
  /\ Shapes \in [Ids -> SUBSET WindowShape]
  /\ {MaxPending, MaxRevision} \subseteq Nat \ {0} /\ MaxScene \in Nat

\* No window and no value of an option is None.
ASSUME NoneAssumption ==
  /\ None \notin Ids
  /\ None \notin [window: Ids, region: Regions]
  /\ None \notin [window: Ids, gesture: BOOLEAN, region: Regions \union {0}]

VARIABLES
  ui,     \* struct Windows
  reply   \* did the last call succeed, or consume its event

overlayVars == <<ui, reply>>

OverlayInit ==
  /\ ui = [windows |-> Empty, stack |-> <<>>, focus |-> None, hover |-> None,
           history |-> <<>>, swallowed |-> {}, swallowed_escape |-> FALSE,
           capture |-> None, events |-> Empty, overflowed |-> {},
           told_focus |-> {}, told_hover |-> {}]   \* history: what owners heard
  /\ reply = TRUE

\* Mutant: cleanup goes by the numeric id alone.
WindowsOfAnyone(o) == Ids

WindowsOf(o) == {id \in Ids : Owner[id] = o}

Exists(u, id) == id \in DOMAIN u.windows

(***************************************************************************)
(* Parents, visibility and the modal.                                      *)
(***************************************************************************)
\* A set of windows with the parent of each.
Closed(u, line) ==
  \A id \in line : Exists(u, id) /\ u.windows[id].parent # None =>
                     u.windows[id].parent \in line

\* The ancestor is on every line that leads up from the window.
Descends(u, id, ancestor) ==
  \A line \in SUBSET Ids : id \in line /\ Closed(u, line) => ancestor \in line

\* A line of visible windows leads up from the window.
EffectivelyVisible(u, id) ==
  \E line \in SUBSET {x \in DOMAIN u.windows : u.windows[x].visible} :
    id \in line /\ Closed(u, line)

Final(seq) == IF seq = <<>> THEN None ELSE Last(seq)
Foremost(u, wanted) == Final(Only(u.stack, wanted))

TopModal(u) ==
  Foremost(u, {id \in Ids : EffectivelyVisible(u, id) /\ u.windows[id].mode = "Modal"})

\* Mutant: a modal does not keep input from the windows outside it.
EligibleIfVisible(u, id) == EffectivelyVisible(u, id)

Eligible(u, id) ==
  /\ EffectivelyVisible(u, id)
  /\ TopModal(u) # None => Descends(u, id, TopModal(u))

\* Mutant: only the window itself is raised.
RaiseAlone(u, id) == [u EXCEPT !.stack = Append(Only(@, Ids \ {id}), id)]

Group(u, id) == {child \in Ids : Descends(u, child, id)}

RaiseGroup(u, id) ==
  [u EXCEPT !.stack = Only(@, Ids \ Group(u, id)) \o Only(@, Group(u, id))]

FocusCandidate(u) == Final(Only(u.history, {id \in Ids : Eligible(u, id)}))

(***************************************************************************)
(* Events, focus and revocation.  They call each other: an event that does *)
(* not fit revokes its owner, which restores the focus, which sends an     *)
(* event.  Each turn of that circle begins without a focus and revokes one *)
(* more owner, so it is a loop, with a turn for every owner at most.       *)
(***************************************************************************)
Coalescable == {"Motion", "Unsettled"}
\* Mutant: the scene revision is not compared.
CoalescesAcrossScenes(queue, event) ==
  /\ queue # <<>>
  /\ event.class \in Coalescable
  /\ Last(queue).window = event.window /\ Last(queue).class = event.class

\* Only adjacent updates of the same window and scene replace each other.
Coalesces(queue, event) ==
  /\ queue # <<>>
  /\ event.class \in Coalescable
  /\ Last(queue) = event

Full(queue) == Len(queue) >= MaxPending

\* Nothing of owner o is left.
Purge(u, o) ==
  LET gone == WindowsOf(o)
      left == Ids \ gone
  IN [u EXCEPT !.overflowed = @ \ {o},
               !.events     = Minus(@, {o}),
               !.windows    = Minus(@, gone),
               !.stack      = Only(@, left),
               !.history    = Only(@, left),
               !.focus      = IF @ \in gone THEN None ELSE @,
               !.told_focus = @ \ gone,
               !.told_hover = @ \ gone,
               !.capture    = IF @ # None /\ @.window \in gone THEN None ELSE @]

Expel(u, o) == [Purge(u, o) EXCEPT !.overflowed = @ \union {o}]

EventOf(u, id, class) == [window |-> id, class |-> class, scene |-> u.windows[id].scene]

Queue(u, id, class) ==
  LET queue == u.events[Owner[id]] IN
  IF Coalesces(queue, EventOf(u, id, class)) THEN Front(queue) ELSE queue

Receives(u, id) == Exists(u, id) /\ Owner[id] \in DOMAIN u.events

\* emit: an event its window can no longer receive is dropped; one that is
\* not valid, or does not fit, revokes the window's owner.
Send(u, id, class) ==
  IF class = "Invalid" \/ (Receives(u, id) /\ Full(Queue(u, id, class)))
    THEN Expel(u, Owner[id])
  ELSE IF Receives(u, id)
    THEN [u EXCEPT !.events[Owner[id]] =
                     Append(Queue(u, id, class), EventOf(u, id, class))]
  ELSE u

\* What the owners believe (history): sent is the state after the event.
Gained(sent, id) == [sent EXCEPT !.told_focus = IF Exists(sent, id) THEN @ \union {id} ELSE @]
Lost(sent, id)   == [sent EXCEPT !.told_focus = @ \ {id}]

\* A turn of restore_focus without a focus: the candidate has it, or its
\* owner is revoked.
Offer(u) ==
  LET next == FocusCandidate(u) IN
  IF u.focus # None \/ next = None THEN u
  ELSE Gained(Send([u EXCEPT !.focus = next], next, "Notice"), next)

Settle(u) ==
  LET turns[n \in 0..Cardinality(Owners)] == IF n = 0 THEN u ELSE Offer(turns[n - 1])
  IN turns[Cardinality(Owners)]

\* The focus is restored when it went with its owner.
Refocus(u, after) == IF after.focus = u.focus THEN after ELSE Settle(after)

RevokeOwner(u, o) == Refocus(u, Purge(u, o))
Emit(u, id, class) == Refocus(u, Send(u, id, class))

\* Mutant: the window that loses the focus is only told to cancel.
LoseFocusSilently(u) ==
  IF u.focus = None THEN u ELSE Emit([u EXCEPT !.focus = None], u.focus, "Notice")

LoseFocus(u) ==
  IF u.focus = None THEN u
  ELSE Lost(Emit(Emit([u EXCEPT !.focus = None], u.focus, "Notice"), u.focus, "Notice"),
            u.focus)

GainFocus(u, next) ==
  IF next = None THEN [u EXCEPT !.focus = None]
  ELSE Gained(Emit([u EXCEPT !.focus = next], next, "Notice"), next)

ChangeFocus(u, next) == IF u.focus = next THEN u ELSE GainFocus(LoseFocus(u), next)
RestoreFocus(u) == ChangeFocus(u, FocusCandidate(u))

\* request_focus of an eligible window; of any other it is refused.
RequestFocus(u, id) ==
  ChangeFocus([RaiseGroup(u, id) EXCEPT !.history = Append(Only(@, Ids \ {id}), id)], id)

CancelCapture(u, id) ==
  IF u.capture # None /\ u.capture.window = id
    THEN Emit([u EXCEPT !.capture = None], id, "Notice")
    ELSE u

\* Mutant: the region left is not told.
LeaveHoverSilently(u) == u

\* set_hover, with what the owners then believe (history).
LeaveHover(u) ==
  IF u.hover = None THEN u
  ELSE [Emit(u, u.hover.window, "Notice") EXCEPT !.told_hover = @ \ {u.hover.window}]

Entered(sent, id) == [sent EXCEPT !.told_hover = IF Exists(sent, id) THEN @ \union {id} ELSE @]

EnterHover(u, next) ==
  IF next = None THEN [u EXCEPT !.hover = None]
  ELSE Entered(Emit([u EXCEPT !.hover = next], next.window, "Notice"), next.window)

SetHover(u, next) == IF u.hover = next THEN u ELSE EnterHover(LeaveHover(u), next)

\* remove_one: the leave is sent while the window still exists.
Unhover(u, id) == IF u.hover # None /\ u.hover.window = id THEN SetHover(u, None) ELSE u
Unfocus(u, id) == IF u.focus = id THEN ChangeFocus(u, None) ELSE u

RemoveOne(u, id) ==
  [Emit(Unfocus(Unhover(CancelCapture(u, id), id), id), id, "Notice") EXCEPT
     !.windows    = Minus(@, {id}),
     !.stack      = Only(@, Ids \ {id}),
     !.history    = Only(@, Ids \ {id}),
     !.told_focus = @ \ {id},
     !.told_hover = @ \ {id}]

\* close: the descendants first, from the foremost down, then the window.
CloseWindow(u, id) ==
  LET children == Only(u.stack, Group(u, id) \ {id})
      left[n \in 0..Len(children)] ==
        IF n = 0 THEN u ELSE RemoveOne(left[n - 1], children[Len(children) + 1 - n])
  IN RestoreFocus(RemoveOne(left[Len(children)], id))

(***************************************************************************)
(* What a session asks of its own windows.                                 *)
(***************************************************************************)
Refuses == reply' = FALSE /\ UNCHANGED ui
Returns(u) == reply' = TRUE /\ ui' = u

\* Mutant: sessions do not respect each other's modal.
NoOtherModal(u, id) == FALSE

AnotherHoldsModal(u, id) == TopModal(u) # None /\ Owner[TopModal(u)] # Owner[id]

HasRoom(u, o) ==
  /\ o \notin u.overflowed
  /\ o \in DOMAIN u.events
     \/ Cardinality(DOMAIN u.events) + Cardinality(u.overflowed) < MaxOwners
  /\ Cardinality(DOMAIN u.windows) < MaxWindows
  /\ Cardinality(DOMAIN u.windows \intersect WindowsOf(o)) < MaxWindowsPerOwner

Creatable(u, id, shape, visible) ==
  /\ ~Exists(u, id)
  /\ HasRoom(u, Owner[id])
  /\ shape.parent # None => Owner[shape.parent] = Owner[id] /\ Exists(u, shape.parent)
  /\ visible /\ shape.mode = "Modal" => ~AnotherHoldsModal(u, id)
  /\ visible /\ shape.mode = "Popup" /\ TopModal(u) # None =>
       shape.parent # None /\ Descends(u, shape.parent, TopModal(u))

\* A request for focus that ends an operation: when it is refused, so is the
\* operation, and what it did before stays done.
WithFocus(u, id) ==
  \/ Eligible(u, id) /\ Returns(RequestFocus(u, id))
  \/ ~Eligible(u, id) /\ reply' = FALSE /\ ui' = u

Create(id, shape, visible) ==
  LET o == Owner[id]
      made == [ui EXCEPT
        !.windows = With(@, id, [mode |-> shape.mode, parent |-> shape.parent,
                                 visible |-> visible, revision |-> 1, scene |-> 0]),
        !.events = IF o \in DOMAIN @ THEN @ ELSE With(@, o, <<>>),
        !.stack = Append(@, id)]
  IN \/ ~Creatable(ui, id, shape, visible) /\ Refuses
     \/ /\ Creatable(ui, id, shape, visible)
        /\ IF visible /\ shape.mode # "Floating" THEN WithFocus(made, id)
                                                 ELSE Returns(made)

PublishScene(id, scene) ==
  \/ Exists(ui, id) /\ scene > ui.windows[id].scene
     /\ Returns([ui EXCEPT !.windows[id].scene = scene])
  \/ ~(Exists(ui, id) /\ scene > ui.windows[id].scene) /\ Refuses

Current(u, id, expected) == Exists(u, id) /\ u.windows[id].revision = expected

Updatable(u, id, expected, visible) ==
  /\ Current(u, id, expected) /\ expected < MaxRevision
  /\ visible /\ u.windows[id].mode = "Modal" => ~AnotherHoldsModal(u, id)
  /\ visible /\ u.windows[id].mode = "Popup" /\ TopModal(u) # None =>
       Descends(u, id, TopModal(u))

BlurGroup(u, id) ==
  IF u.focus # None /\ Descends(u, u.focus, id) THEN RestoreFocus(ChangeFocus(u, None))
                                                ELSE u

\* Mutant: only the hidden window itself gives its capture up.
HideAlone(u, id) == BlurGroup(CancelCapture(u, id), id)

\* A hidden window takes its descendants' capture and focus with it.
Hide(u, id) ==
  LET group == Only(u.stack, Group(u, id))
      freed[n \in 0..Len(group)] ==
        IF n = 0 THEN u ELSE CancelCapture(freed[n - 1], group[n])
  IN BlurGroup(freed[Len(group)], id)

Update(id, expected, visible) ==
  LET old == ui.windows[id]
      changed == [ui EXCEPT !.windows[id].visible = visible,
                            !.windows[id].revision = expected + 1]
  IN \/ ~Updatable(ui, id, expected, visible) /\ Refuses
     \/ /\ Updatable(ui, id, expected, visible)
        /\ IF ~old.visible /\ visible /\ old.mode # "Floating"
             THEN WithFocus(changed, id)
             ELSE Returns(IF old.visible /\ ~visible THEN Hide(changed, id) ELSE changed)

\* A group is lowered to just above its parent, or to the bottom.
LowerGroup(u, id) ==
  LET rest == Only(u.stack, Ids \ Group(u, id))
      at   == IF u.windows[id].parent = None THEN 0
              ELSE CHOOSE i \in 1..Len(rest) : rest[i] = u.windows[id].parent
  IN [u EXCEPT !.stack = SubSeq(rest, 1, at) \o Only(@, Group(u, id))
                         \o SubSeq(rest, at + 1, Len(rest))]

Permitted(u, id, action) ==
  /\ action \in {"Focus", "Raise", "Lower"} => Eligible(u, id)
  /\ action = "Lower" => TopModal(u) = None

Acted(u, id, action) ==
  CASE action = "Focus"  -> RequestFocus(u, id)
    [] action = "Raise"  -> RaiseGroup(u, id)
    [] action = "Lower"  -> LowerGroup(u, id)
    [] action = "Center" -> u

\* Focusing may overflow the window's owner and lose the window.
Completes(acted, id, next, action) ==
  \/ ~Exists(acted, id) /\ reply' = FALSE /\ ui' = acted
  \/ /\ Exists(acted, id)
     /\ LET counted == [acted EXCEPT !.windows[id].revision = next] IN
        Returns(IF action = "Center" THEN Emit(counted, id, "Notice") ELSE counted)

ApplyAction(id, expected, action) ==
  \/ /\ Current(ui, id, expected) /\ action = "Close"
     /\ Returns(CloseWindow(ui, id))
  \/ /\ Current(ui, id, expected) /\ action # "Close"
     /\ expected < MaxRevision /\ Permitted(ui, id, action)
     /\ Completes(Acted(ui, id, action), id, expected + 1, action)
  \/ /\ \/ ~Current(ui, id, expected)
        \/ action # "Close" /\ ~(expected < MaxRevision /\ Permitted(ui, id, action))
     /\ Refuses

CapturePointer(id) ==
  \/ /\ Eligible(ui, id) /\ ui.focus = id
     /\ Returns([ui EXCEPT !.capture = [window |-> id, gesture |-> FALSE, region |-> 0]])
  \/ ~(Eligible(ui, id) /\ ui.focus = id) /\ Refuses

ReleasePointer(id) ==
  Returns([ui EXCEPT !.capture = IF @ # None /\ @.window = id THEN None ELSE @])

(***************************************************************************)
(* The host: window life cycle, queues, keys and the pointer.              *)
(***************************************************************************)
FocusWindow(id) ==
  \/ Eligible(ui, id) /\ Returns(RequestFocus(ui, id))
  \/ ~Eligible(ui, id) /\ Refuses

Close(id) == Returns(CloseWindow(ui, id))
Revoke(o) == Returns(RevokeOwner(ui, o))

PaneFocused == Returns(RestoreFocus(ui))
PaneBlurred ==
  LET free == IF ui.capture = None THEN ui ELSE CancelCapture(ui, ui.capture.window) IN
  Returns([ChangeFocus(free, None) EXCEPT !.swallowed = {}, !.swallowed_escape = FALSE])

\* An owner without windows keeps its queue until it has read it.
TakeEvent(o) ==
  /\ o \in DOMAIN ui.events
  /\ LET rest == IF ui.events[o] = <<>> THEN <<>> ELSE Tail(ui.events[o]) IN
     Returns(IF rest = <<>> /\ DOMAIN ui.windows \intersect WindowsOf(o) = {}
               THEN [ui EXCEPT !.events = Minus(@, {o})]
               ELSE [ui EXCEPT !.events[o] = rest])

TakeOverflow(o) ==
  /\ o \in ui.overflowed
  /\ Returns([ui EXCEPT !.overflowed = @ \ {o}])

\* "Press", "Repeat" and "Release" are those of Escape; "Other" is any other
\* key or text, "Invalid" one that valid_event refuses.
Keyboard(key) ==
  LET escape == key \in {"Press", "Repeat", "Release"}
      id == ui.focus
  IN
  \/ /\ escape /\ ui.swallowed_escape
     /\ Returns([ui EXCEPT !.swallowed_escape = key # "Release"])
  \/ /\ ~(escape /\ ui.swallowed_escape)
     /\ id = None \/ ~Eligible(ui, id)
     /\ reply' = (TopModal(ui) # None) /\ UNCHANGED ui
  \/ /\ ~(escape /\ ui.swallowed_escape)
     /\ id # None /\ Eligible(ui, id)
     /\ IF key = "Press" /\ ui.windows[id].mode # "Floating"
          THEN Returns(CloseWindow([ui EXCEPT !.swallowed_escape = TRUE], id))
          ELSE Returns(Emit(ui, id, IF key = "Invalid" THEN "Invalid" ELSE "Input"))

\* target_at: the foremost eligible window that the position hits.
TargetAt(u, hits) == Foremost(u, {id \in hits : Eligible(u, id)})

HoverAt(u, hits, region) ==
  LET id == TargetAt(u, hits) IN
  SetHover(u, IF id = None THEN None ELSE [window |-> id, region |-> region])

RefreshHover(hits, region) == Returns(HoverAt(ui, hits, region))

Wheel(hits) ==
  LET id == TargetAt(ui, hits) IN
  \/ id # None /\ Returns(Emit(ui, id, "Input"))
  \/ id = None /\ reply' = (TopModal(ui) # None) /\ UNCHANGED ui

\* gesture: geometry moves under a drag; an exhausted revision closes.
Gesture(u, id, settled) ==
  IF u.windows[id].revision = MaxRevision THEN CloseWindow(u, id)
  ELSE Emit([u EXCEPT !.windows[id].revision = @ + 1], id,
            IF settled THEN "Notice" ELSE "Unsettled")

\* A report: the button that changed or None, the windows the position hits,
\* the region there and whether it drags, and whether the position is outside
\* the foremost popup.
Pressed(report)  == report.button # None /\ report.down
Released(report) == report.button # None /\ ~report.down
PointerClass(report) == IF report.button = None THEN "Motion" ELSE "Input"

ForemostPopup(u) ==
  Foremost(u, {id \in Ids : Eligible(u, id) /\ u.windows[id].mode = "Popup"})

PointerSwallowed(report) ==
  Returns([ui EXCEPT !.swallowed = IF report.down THEN @ ELSE @ \ {report.button}])

Concludes(moved, report) ==
  IF Released(report)
    THEN HoverAt([moved EXCEPT !.capture = None], report.hits, report.region)
    ELSE moved

PointerCaptured(report) ==
  LET c == ui.capture IN
  IF ~Eligible(ui, c.window)
    THEN ui' = CancelCapture(ui, c.window) /\ reply' = (TopModal(ui') # None)
    ELSE Returns(Concludes(IF c.gesture THEN Gesture(ui, c.window, Released(report))
                                        ELSE Emit(ui, c.window, PointerClass(report)),
                           report))

PointerDismisses(report) ==
  Returns(CloseWindow([ui EXCEPT !.swallowed = @ \union {report.button}],
                      ForemostPopup(ui)))

PointerMisses(report) ==
  LET Left(left) == IF TopModal(left) = None /\ Pressed(report)
                      THEN [ChangeFocus(left, None) EXCEPT !.history = <<>>]
                      ELSE left
  IN /\ ui' = Left(SetHover(ui, None))
     /\ reply' = (TopModal(SetHover(ui, None)) # None)

Grab(focused, report, id) ==
  IF report.drags /\ Exists(focused, id)
    THEN [focused EXCEPT !.capture = [window |-> id, gesture |-> TRUE,
                                      region |-> report.region]]
    ELSE focused

PointerHits(report, id) ==
  LET pressed == IF Pressed(report) THEN Grab(RequestFocus(ui, id), report, id) ELSE ui
      hover   == [window |-> id, region |-> report.region]
  IN Returns(Emit(SetHover(pressed, hover), id, PointerClass(report)))

\* pointer: the first of the five that applies.
Pointer(report) ==
  LET dismisses == ForemostPopup(ui) # None /\ Pressed(report) /\ report.outside IN
  IF report.button \in ui.swallowed THEN PointerSwallowed(report)
  ELSE IF ui.capture # None THEN PointerCaptured(report)
  ELSE IF dismisses THEN PointerDismisses(report)
  ELSE IF TargetAt(ui, report.hits) = None THEN PointerMisses(report)
  ELSE PointerHits(report, TargetAt(ui, report.hits))

Reports ==
  {r \in [button: Buttons \union {None}, down: BOOLEAN, hits: SUBSET Ids,
          region: Regions, drags: BOOLEAN, outside: BOOLEAN] :
     /\ r.button = None => ~r.down
     /\ r.drags \/ r.outside => r.down}

SessionCall(id) ==
  \/ \E shape \in Shapes[id], visible \in BOOLEAN : Create(id, shape, visible)
  \/ \E expected \in 1..MaxRevision :
       \/ \E visible \in BOOLEAN : Update(id, expected, visible)
       \/ \E action \in {"Close", "Focus", "Raise", "Lower", "Center"} :
            ApplyAction(id, expected, action)
  \/ CapturePointer(id)
  \/ ReleasePointer(id)

SceneCall(id) == \E scene \in 1..MaxScene : PublishScene(id, scene)

HostCall ==
  \/ \E id \in Ids : FocusWindow(id) \/ Close(id)
  \/ \E o \in Owners : Revoke(o) \/ TakeEvent(o) \/ TakeOverflow(o)
  \/ PaneFocused \/ PaneBlurred
  \/ \E key \in {"Press", "Repeat", "Release", "Other", "Invalid"} : Keyboard(key)
  \/ \E hits \in SUBSET Ids : Wheel(hits)

PointerCall ==
  \/ \E hits \in SUBSET Ids, region \in Regions : RefreshHover(hits, region)
  \/ \E report \in Reports :
       (ForemostPopup(ui) \in report.hits => ~report.outside) /\ Pointer(report)

OverlayNext ==
  \/ \E id \in Ids : SessionCall(id) \/ SceneCall(id)
  \/ HostCall
  \/ PointerCall

OverlaySpec == OverlayInit /\ [][OverlayNext]_overlayVars

(***************************************************************************)
(* Properties.                                                             *)
(***************************************************************************)
\* The state has its types and no owner's queue is longer than
\* MAX_PENDING_EVENTS: emit makes room by coalescing or revokes the owner.
OverlayTypeOK ==
  /\ DOMAIN ui.windows \subseteq Ids
  /\ \A id \in DOMAIN ui.windows :
       /\ [mode |-> ui.windows[id].mode, parent |-> ui.windows[id].parent] \in Shapes[id]
       /\ ui.windows[id].visible \in BOOLEAN
       /\ ui.windows[id].revision \in 1..MaxRevision
       /\ ui.windows[id].scene \in 0..MaxScene
  /\ ui.focus \in Ids \union {None}
  /\ DOMAIN ui.events \intersect ui.overflowed = {}
  /\ \A o \in DOMAIN ui.events : Len(ui.events[o]) <= MaxPending
  /\ reply \in BOOLEAN


\* The stack holds every window once, and none paints under a window it
\* descends from: raise_group, Lower, close and revoke_owner each rebuild it.
StackedAboveParents ==
  /\ ToSet(ui.stack) = DOMAIN ui.windows
  /\ Len(ui.stack) = Cardinality(DOMAIN ui.windows)
  /\ \A above, below \in 1..Len(ui.stack) :
       Descends(ui, ui.stack[below], ui.stack[above]) => above <= below

\* The pointer is never captured by a window that is gone or hidden, through
\* its own visibility or its ancestors', whoever was revoked in between.
CaptureVisible ==
  ui.capture # None => EffectivelyVisible(ui, ui.capture.window)

\* What the owners heard agrees with the manager: a window believes that it
\* has the focus only while it does, through every close, hide, pane blur and
\* revocation.
FocusTold == ui.told_focus \subseteq {ui.focus}

\* A window believes that the pointer is over it only while it is, however
\* the pointer left: motion, a press elsewhere, a dismissed or closed window.
HoverTold == \A id \in ui.told_hover : ui.hover # None /\ ui.hover.window = id

AnotherSession(o) == \E id \in Ids : Owner[id] # o /\ SessionCall(id)

\* What a session asks never changes or removes another session's window,
\* though it may take its focus: only an owner that stopped reading loses its
\* windows that way, and it is reported as overflowed.
OwnerIsolation ==
  [][\A id \in DOMAIN ui.windows :
       \/ Exists(ui', id) /\ ui'.windows[id] = ui.windows[id]
       \/ Owner[id] \in ui'.overflowed
       \/ ~AnotherSession(Owner[id])]_overlayVars

\* Under a modal, no call of another session moves the focus out of the modal
\* and its descendants: not by creating, showing, closing or focusing windows.
ModalNotStolen ==
  [][ui'.focus # ui.focus =>
       LET modal == TopModal(ui) IN
       \/ modal = None
       \/ ui'.focus # None /\ Descends(ui', ui'.focus, modal)
       \/ ~AnotherSession(Owner[modal])]_overlayVars

\* The events a step added to the queue of owner o.
Added(o) ==
  IF o \notin DOMAIN ui'.events THEN <<>>
  ELSE SubSeq(ui'.events[o],
              1 + IF o \in DOMAIN ui.events THEN Len(ui.events[o]) ELSE 0,
              Len(ui'.events[o]))

\* Keys, buttons, wheel and motion reach only the top modal and its
\* descendants, by the route of keyboard, wheel, hit test or capture.
OnlyModalHears ==
  [][\A o \in Owners : \A event \in ToSet(Added(o)) :
       event.class \in {"Input", "Motion"} /\ TopModal(ui) # None =>
         Descends(ui, event.window, TopModal(ui))]_overlayVars

\* No queued event is lost: a queue only grows at its end until its owner
\* reads it, and it disappears only with the owner or once it is empty.
NoTransitionDropped ==
  [][\A o \in DOMAIN ui.events :
       \/ o \in DOMAIN ui'.events /\ IsPrefix(ui.events[o], ui'.events[o])
       \/ o \notin DOMAIN ui'.events /\ o \in ui'.overflowed
       \/ TakeEvent(o)
       \/ Revoke(o)]_overlayVars

\* The focus is on a window that exists: revocation by overflow clears it
\* (vivid-protocol-1.5-overlays.md:282-284).
FocusLive == ui.focus # None => Exists(ui, ui.focus)

=============================================================================

-------------------------------- MODULE Canvas --------------------------------
(***************************************************************************)
(* The mounted canvas (packages/editor/src/canvas): pointer and keyboard   *)
(* gestures (pointer.ts, pointer-marquee.ts, pointer-pan.ts), what is      *)
(* shown while the document, the session and the replay preview change     *)
(* (mount.ts, preview.ts).                                                 *)
(*                                                                         *)
(* An event handler runs to its end, with the notifications it causes, so  *)
(* it is one action.  The nodes are rectangles on the page, along one axis *)
(* (module CanvasGeometry); the locks of a node's ancestors are its own.   *)
(* The document's version tells its changes apart: commands, undo and redo *)
(* of every view are one action that changes it.                           *)
(***************************************************************************)
EXTENDS CanvasGeometry, FiniteSets

CONSTANTS
  CanvasNodes,
  InitialBoxes,    \* where they are
  Pointers,        \* pointer ids
  Places,          \* where on the screen they are
  Zooms,
  MaxInputs,       \* bound: events
  NoGesture, NoFrame

\* The boxes of some of the nodes.
BoxMaps == UNION {[nodes -> Box] : nodes \in SUBSET CanvasNodes}

\* A resize under way: its pointer, the document, the boxes and the bounds it began
\* with, where, and what it made of them last.
Resizes ==
  [kind : {"groupResize"}, pointer : Pointers, version : Nat, handle : {"w", "e"},
   boxes : BoxMaps, bounds : [low : Int, high : Int], start : Places, local : Int,
   zoom : Zooms, last : [bounds : [low : Int, high : Int], boxes : BoxMaps]]

ASSUME CanvasAssumption ==
  /\ IsFiniteSet(CanvasNodes)
  /\ InitialBoxes \in [CanvasNodes -> Box]
  /\ Places \subseteq Int
  /\ 1 \in Zooms /\ Zooms \subseteq Nat \ {0}
  /\ MaxInputs \in Nat
  /\ NoGesture \notin Resizes

VARIABLES
  core,            \* the editor's document
  live,            \* the editor session
  sourceStore, sourceSession,   \* what the canvas noted of them
  shownStore, shownSession,     \* currentStore, sessionState
  preview,         \* previewFrame
  gesture,         \* activeInteraction
  groupResizeActive,
  spacePressed,
  inputs

shown == <<sourceStore, sourceSession, shownStore, shownSession>>
canvasVars == <<core, live, shown, preview, gesture, groupResizeActive, spacePressed, inputs>>

InitialCore ==
  [version |-> 0, boxes |-> InitialBoxes, locked |-> {}]

InitialLive ==
  [selection |-> {}, viewport |-> [x |-> 0, zoom |-> 1], mode |-> "select", snap |-> TRUE]

Inactive == [active |-> FALSE, document |-> NoFrame, session |-> NoFrame]

CanvasInit ==
  /\ core = InitialCore
  /\ live = InitialLive
  /\ sourceStore = core /\ shownStore = core
  /\ sourceSession = live /\ shownSession = live
  /\ preview = Inactive
  /\ gesture = NoGesture
  /\ groupResizeActive = FALSE
  /\ spacePressed = FALSE
  /\ inputs = 0

Exists(document, node) == node \in DOMAIN document.boxes
TransformLocked(document, node) == node \in document.locked

-----------------------------------------------------------------------------
(* Notifications.                                                          *)

\* A gesture that is over and leaves the flag of a group resize.
CancelKeepsFlag == gesture' = NoGesture /\ UNCHANGED groupResizeActive

\* The gesture is over and the elements are styled as before it.
Cancel ==
  /\ gesture' = NoGesture
  /\ groupResizeActive' = (groupResizeActive /\ (gesture = NoGesture \/ gesture.kind # "groupResize"))

\* A canvas that lets the gesture go on when the document changes.
KeepGesture(document) ==
  /\ core' = document
  /\ sourceStore' = document
  /\ shownStore' = IF preview.active THEN shownStore ELSE document
  /\ UNCHANGED <<gesture, groupResizeActive>>

\* The document changes: onCoreChange.
ChangeDocument(document) ==
  /\ core' = document
  /\ sourceStore' = document
  /\ IF preview.active THEN UNCHANGED <<shownStore, gesture, groupResizeActive>>
     ELSE shownStore' = document /\ Cancel

\* The session changes: onSessionChange.  A group resize is about the selection
\* and the viewport it began with.
ChangeSession(session) ==
  /\ live' = session
  /\ sourceSession' = session
  /\ IF preview.active THEN UNCHANGED <<shownSession, gesture, groupResizeActive>>
     ELSE /\ shownSession' = session
          /\ IF groupResizeActive /\ (session.selection # shownSession.selection
                                      \/ session.viewport # shownSession.viewport)
             THEN Cancel
             ELSE UNCHANGED <<gesture, groupResizeActive>>

-----------------------------------------------------------------------------
(* Gestures begin.                                                         *)

Input == inputs < MaxInputs /\ inputs' = inputs + 1

\* An event the canvas takes; a new gesture cancels the one before.
Takes == Input /\ ~preview.active

Begin(next) ==
  /\ gesture' = next
  /\ groupResizeActive' = (next # NoGesture /\ next.kind = "groupResize")

Panning == shownSession.mode = "pan" \/ spacePressed

\* beginWorkspacePan.
BeginPan(place) ==
  /\ Takes
  /\ Panning
  /\ Begin([kind |-> "pan", start |-> place, viewport |-> shownSession.viewport])
  /\ UNCHANGED <<core, live, shown, preview, spacePressed>>

\* startPointerInteraction of an unlocked node; with a modifier the node is only
\* selected or deselected.
BeginMove(node, pointer, place, modifier) ==
  LET selection == shownSession.selection
      next == CASE modifier -> SymDiff(selection, {node})
                [] ~modifier /\ node \in selection -> selection
                [] OTHER -> {node}
      session == [live EXCEPT !.selection = next]
      ids == {id \in next : Exists(shownStore, id) /\ ~TransformLocked(shownStore, id)}
  IN  /\ Takes
      /\ ~Panning
      /\ Exists(shownStore, node) /\ ~TransformLocked(shownStore, node)
      /\ live' = session /\ sourceSession' = session /\ shownSession' = session
      /\ Begin(IF modifier THEN NoGesture
               ELSE [kind |-> "move", pointer |-> pointer, version |-> core.version, node |-> node,
                     ids |-> ids, start |-> place, zoom |-> session.viewport.zoom, delta |-> 0])
      /\ UNCHANGED <<core, sourceStore, shownStore, preview, spacePressed>>

\* startGroupResizeInteraction: the whole selection, none of it locked.
BeginGroupResize(handle, pointer, place) ==
  LET selection == shownSession.selection
      boxes == [n \in selection |-> shownStore.boxes[n]]
      bounds == SelectionBounds(boxes)
  IN  /\ Takes
      /\ selection # {}
      /\ \A n \in selection : Exists(shownStore, n) /\ ~TransformLocked(shownStore, n)
      /\ Begin([kind |-> "groupResize", pointer |-> pointer, version |-> core.version,
                handle |-> handle, boxes |-> boxes, bounds |-> bounds, start |-> place,
                local |-> ScreenToWorld(place, shownSession.viewport),
                zoom |-> shownSession.viewport.zoom, last |-> [bounds |-> bounds, boxes |-> boxes]])
      /\ UNCHANGED <<core, live, shown, preview, spacePressed>>

\* beginMarqueeSelection, on the background.
BeginMarquee(place, additive) ==
  /\ Takes
  /\ ~Panning
  /\ Begin([kind |-> "marquee", start |-> place,
            initial |-> IF additive THEN shownSession.selection ELSE {}])
  /\ UNCHANGED <<core, live, shown, preview, spacePressed>>

-----------------------------------------------------------------------------
(* Gestures go on and end.  Only a move and a resize look whose event it   *)
(* is, and only they end with Escape and when the window loses the focus.  *)

Edits == gesture # NoGesture /\ gesture.kind \in {"move", "groupResize"}

Follows(pointer) == gesture # NoGesture /\ (Edits => gesture.pointer = pointer)

Snaps(alt) == shownSession.snap /\ ~alt

\* updatePreview of a move: the grabbed node's place is snapped, the others follow.
MoveDelta(place, alt) ==
  LET from == shownStore.boxes[gesture.node].x
      to == LocalAt(from, gesture.start, place, gesture.zoom)
  IN  (IF Snaps(alt) THEN SnapScalar(to) ELSE to) - from

\* resolveResized.
Resized(place, alt) ==
  LET resized == ResizeGroup(gesture.boxes, gesture.bounds, gesture.handle,
                             LocalAt(gesture.local, gesture.start, place, gesture.zoom))
  IN  IF Snaps(alt)
      THEN SnapGroupResizeResult(resized, gesture.handle, gesture.bounds, gesture.boxes)
      ELSE resized

\* The gesture after the pointer came to the place.
Updated(place, alt) ==
  CASE gesture.kind = "move" -> [gesture EXCEPT !.delta = MoveDelta(place, alt)]
    [] gesture.kind = "groupResize" -> [gesture EXCEPT !.last = Resized(place, alt)]
    [] OTHER -> gesture

Panned(place) == [live EXCEPT !.viewport = [x |-> gesture.viewport.x + place - gesture.start,
                                            zoom |-> gesture.viewport.zoom]]

PointerMove(pointer, place, alt) ==
  /\ Input
  /\ Follows(pointer)
  /\ IF gesture.kind = "pan" THEN ChangeSession(Panned(place))
     ELSE /\ gesture' = Updated(place, alt)
          /\ UNCHANGED <<groupResizeActive, live, sourceSession, shownSession>>
  /\ UNCHANGED <<core, sourceStore, shownStore, preview, spacePressed>>

\* The document after the command of a gesture, or the same if it moved nothing.
Committed(done) ==
  LET boxes == IF done.kind = "move"
               THEN [n \in DOMAIN core.boxes |->
                      IF n \in done.ids THEN [core.boxes[n] EXCEPT !.x = @ + done.delta]
                      ELSE core.boxes[n]]
               ELSE [n \in DOMAIN core.boxes |->
                      IF n \in DOMAIN done.boxes THEN done.last.boxes[n] ELSE core.boxes[n]]
  IN  IF boxes = core.boxes THEN core
      ELSE [core EXCEPT !.boxes = boxes, !.version = @ + 1]

\* commitPreview: the gesture is over before its command is dispatched.
Commit(done) ==
  /\ core' = Committed(done)
  /\ sourceStore' = core' /\ shownStore' = core'
  /\ Cancel
  /\ UNCHANGED <<live, sourceSession, shownSession>>

\* The nodes a marquee touches.
Touched(place) ==
  LET left == Smaller(gesture.start, place)
      right == Larger(gesture.start, place)
      viewport == shownSession.viewport
  IN  {n \in DOMAIN shownStore.boxes :
        /\ WorldToScreen(shownStore.boxes[n].x, viewport) <= right
        /\ WorldToScreen(shownStore.boxes[n].x + shownStore.boxes[n].width, viewport) >= left}

Released(session) ==
  /\ live' = session /\ sourceSession' = session /\ shownSession' = session
  /\ Cancel
  /\ UNCHANGED <<core, sourceStore, shownStore>>

PointerUp(pointer, place, alt) ==
  /\ Input
  /\ Follows(pointer)
  /\ CASE gesture.kind = "pan" -> Released(Panned(place))
       [] gesture.kind = "marquee" ->
            Released([live EXCEPT !.selection = gesture.initial \cup Touched(place)])
       [] OTHER -> Commit(Updated(place, alt))
  /\ UNCHANGED <<preview, spacePressed>>

\* Losing the capture commits what was last shown.
LostPointerCapture(pointer) ==
  /\ Input
  /\ Edits
  /\ Follows(pointer)
  /\ Commit(gesture)
  /\ UNCHANGED <<preview, spacePressed>>

\* A pan ends with pointercancel as with pointerup.
PointerCancel(pointer, place) ==
  /\ Input
  /\ Follows(pointer)
  /\ IF gesture.kind = "pan" THEN Released(Panned(place))
     ELSE Cancel /\ UNCHANGED <<core, live, shown>>
  /\ UNCHANGED <<preview, spacePressed>>

Escape ==
  /\ Input
  /\ Edits
  /\ Cancel
  /\ UNCHANGED <<core, live, shown, preview, spacePressed>>

Blur ==
  /\ Input
  /\ spacePressed' = FALSE
  /\ IF Edits THEN Cancel ELSE UNCHANGED <<gesture, groupResizeActive>>
  /\ UNCHANGED <<core, live, shown, preview>>

-----------------------------------------------------------------------------
(* Keys, the wheel, the other views and the replay.                        *)

Space ==
  /\ Takes
  /\ spacePressed' = TRUE
  /\ UNCHANGED <<core, live, shown, preview, gesture, groupResizeActive>>

SpaceReleased ==
  /\ Input
  /\ spacePressed' = FALSE
  /\ UNCHANGED <<core, live, shown, preview, gesture, groupResizeActive>>

Wheel(place, zoom) ==
  /\ Takes
  /\ ChangeSession([live EXCEPT !.viewport = ZoomAt(shownSession.viewport, place, zoom)])
  /\ UNCHANGED <<core, sourceStore, shownStore, preview, spacePressed>>

\* The keyboard's undo and redo, the Delete key on the tree, and what the scene
\* panel, the inspector and the history do, the last three during a replay too.
OtherCommand ==
  /\ Input
  /\ \E node \in DOMAIN core.boxes :
       \/ ChangeDocument([core EXCEPT !.version = @ + 1, !.locked = SymDiff(@, {node})])
       \/ ChangeDocument([core EXCEPT !.version = @ + 1, !.locked = @ \ {node},
                                      !.boxes = [n \in DOMAIN @ \ {node} |-> @[n]]])
  /\ UNCHANGED <<live, sourceSession, shownSession, preview, spacePressed>>

\* The tree selects, and the toolbar chooses a tool and switches the snapping.
OtherSetting ==
  /\ Input
  /\ \/ \E selection \in SUBSET CanvasNodes : ChangeSession([live EXCEPT !.selection = selection])
     \/ \E mode \in {"select", "pan"} : ChangeSession([live EXCEPT !.mode = mode])
     \/ ChangeSession([live EXCEPT !.snap = ~@])
  /\ UNCHANGED <<core, sourceStore, shownStore, preview, spacePressed>>

\* The frames of a replay: before the first one, the initial document, and a
\* document of another version with a session of its own.
Frames ==
  {Inactive,
   [active |-> TRUE, document |-> NoFrame, session |-> NoFrame],
   [active |-> TRUE, document |-> [InitialCore EXCEPT !.locked = CanvasNodes],
    session |-> [InitialLive EXCEPT !.selection = CanvasNodes]]}

\* A canvas that goes back to the document it showed before the replay.
ShowFrameOnly(frame) ==
  /\ Input
  /\ Cancel
  /\ preview' = frame
  /\ shownStore' = IF frame.document # NoFrame THEN frame.document ELSE shownStore
  /\ shownSession' = IF frame.session # NoFrame THEN frame.session ELSE sourceSession
  /\ UNCHANGED <<core, live, sourceStore, sourceSession, spacePressed>>

\* subscribePreview and applyFrame.
ShowFrame(frame) ==
  /\ Input
  /\ Cancel
  /\ preview' = frame
  /\ shownStore' = IF frame.document # NoFrame THEN frame.document ELSE sourceStore
  /\ shownSession' = IF frame.session # NoFrame THEN frame.session ELSE sourceSession
  /\ UNCHANGED <<core, live, sourceStore, sourceSession, spacePressed>>

PointerDown ==
  \E place \in Places :
    \/ BeginPan(place)
    \/ \E pointer \in Pointers :
         \/ \E node \in CanvasNodes, modifier \in BOOLEAN : BeginMove(node, pointer, place, modifier)
         \/ \E handle \in {"w", "e"} : BeginGroupResize(handle, pointer, place)
    \/ \E additive \in BOOLEAN : BeginMarquee(place, additive)

Drag ==
  \E pointer \in Pointers :
    \/ \E place \in Places, alt \in BOOLEAN :
         PointerMove(pointer, place, alt) \/ PointerUp(pointer, place, alt)
    \/ \E place \in Places : PointerCancel(pointer, place)
    \/ LostPointerCapture(pointer)

CanvasNext ==
  \/ PointerDown \/ Drag \/ Escape \/ Blur \/ Space \/ SpaceReleased
  \/ \E place \in Places, zoom \in Zooms : Wheel(place, zoom)
  \/ OtherCommand \/ OtherSetting
  \/ \E frame \in Frames : ShowFrame(frame)

CanvasSpec == CanvasInit /\ [][CanvasNext]_canvasVars

-----------------------------------------------------------------------------
CanvasTypeOK ==
  /\ DOMAIN core.boxes \subseteq CanvasNodes
  /\ \A n \in DOMAIN core.boxes : core.boxes[n].width >= Pixel
  /\ live.selection \subseteq CanvasNodes
  /\ live.viewport.zoom \in Zooms
  /\ groupResizeActive <=> gesture # NoGesture /\ gesture.kind = "groupResize"
  /\ spacePressed \in BOOLEAN

\* A gesture that will be committed is about the document as it is, with nodes
\* that are there and not locked, and no gesture goes on during a replay: what a
\* drag began with is never dispatched on a document that changed since.
GestureIsLive ==
  gesture # NoGesture =>
    /\ ~preview.active
    /\ Edits => gesture.version = core.version
    /\ gesture.kind = "move" => gesture.ids \subseteq DOMAIN core.boxes \ core.locked

\* The canvas shows the frame of the replay, and after the replay the document
\* and the session as they have become meanwhile.
CanvasShowsSource ==
  IF preview.active
  THEN /\ preview.document # NoFrame => shownStore = preview.document
       /\ preview.session # NoFrame => shownSession = preview.session
  ELSE shownStore = core /\ shownSession = live

\* A resize moves the dragged end only, on the grid or not, as long as the bounds do
\* not get as thin as a pixel; and the boxes fill the bounds, unless one gets as thin
\* or the unit is too large for the lengths it scales to be whole.
ResizeIsAnchored ==
  (gesture # NoGesture /\ gesture.kind = "groupResize") =>
    LET initial == gesture.bounds
        last == gesture.last
        boxThin == \E n \in DOMAIN last.boxes : last.boxes[n].width = Pixel
        Whole(length) == (length * (last.bounds.high - last.bounds.low))
                           % (initial.high - initial.low) = 0
        exact == \A n \in DOMAIN gesture.boxes :
                   Whole(gesture.boxes[n].x - initial.low) /\ Whole(gesture.boxes[n].width)
    IN  /\ last.bounds.high - last.bounds.low # Pixel =>
             IF gesture.handle = "w" THEN last.bounds.high = initial.high
             ELSE last.bounds.low = initial.low
        /\ (~boxThin /\ exact) => SelectionBounds(last.boxes) = last.bounds
===============================================================================

---------------------------- MODULE CanvasGeometry ----------------------------
(***************************************************************************)
(* The arithmetic of the canvas: coordinates (session/coordinates.ts), the *)
(* grid (session/snap.ts), the move of a pointer (canvas/interactions.ts)  *)
(* and the resize of a selection (canvas/group-resize.ts and               *)
(* snapGroupResizeResult of canvas/pointer.ts), in packages/editor/src.    *)
(*                                                                         *)
(* Horizontal and vertical are computed alike and apart, so there is one   *)
(* axis here, with the handles "w" and "e" for its two ends.  Numbers are  *)
(* finite; lengths are in a unit small enough for the divisions to be      *)
(* exact, and a pixel is Pixel of them.                                    *)
(***************************************************************************)
EXTENDS Integers, FiniteSetsExt

CONSTANTS
  Pixel,      \* the least size of a node
  GridSize

ASSUME CanvasGeometryAssumption == Pixel \in Nat \ {0} /\ GridSize \in Nat \ {0}

Box == [x : Int, width : {w \in Nat : w >= Pixel}]

Larger(one, other) == Max({one, other})
Smaller(one, other) == Min({one, other})

WorldToScreen(x, viewport) == x * viewport.zoom + viewport.x
ScreenToWorld(x, viewport) == (x - viewport.x) \div viewport.zoom

\* The world under the point stays where it is.
ZoomAt(viewport, point, zoom) ==
  [x |-> point - ScreenToWorld(point, viewport) * zoom, zoom |-> zoom]

\* createPointerMoveSession: where a drag that began at start has come.
LocalAt(startLocal, start, at, zoom) == startLocal + (at - start) \div zoom

\* Math.round rounds a half up.
SnapScalar(value) == ((2 * value + GridSize) \div (2 * GridSize)) * GridSize

\* The ends given are moved to the grid; a box that comes out too thin keeps the
\* right end where it is snapped, unless the left one is snapped too.
SnapRect(box, edges) ==
  LET low == IF "left" \in edges THEN SnapScalar(box.x) ELSE box.x
      high == IF "right" \in edges THEN SnapScalar(box.x + box.width) ELSE box.x + box.width
      width == Larger(Pixel, high - low)
  IN  [x |-> IF "right" \in edges /\ "left" \notin edges THEN high - width ELSE low, width |-> width]

EdgesForHandle(handle) == IF handle = "w" THEN {"left"} ELSE {"right"}

\* Boxes are a function from nodes to [x, width]; bounds have the ends low and high.
SelectionBounds(boxes) ==
  [low |-> Min({boxes[n].x : n \in DOMAIN boxes}),
   high |-> Max({boxes[n].x + boxes[n].width : n \in DOMAIN boxes})]

\* The boxes, in initial bounds, mapped to new ones.
Mapped(boxes, initial, bounds) ==
  LET Scaled(length) == (length * (bounds.high - bounds.low)) \div (initial.high - initial.low)
  IN  [n \in DOMAIN boxes |-> [x |-> bounds.low + Scaled(boxes[n].x - initial.low),
                               width |-> Larger(Pixel, Scaled(boxes[n].width))]]

ResizeGroup(boxes, initial, handle, pointer) ==
  LET bounds == IF handle = "w"
                THEN [initial EXCEPT !.low = Smaller(pointer, initial.high - Pixel)]
                ELSE [initial EXCEPT !.high = Larger(pointer, initial.low + Pixel)]
  IN  [bounds |-> bounds, boxes |-> Mapped(boxes, initial, bounds)]

BoundsOf(box) == [low |-> box.x, high |-> box.x + box.width]

\* A snap that maps the boxes it was given as if they were the initial ones.
SnapResized(resized, handle, initial, initialBoxes) ==
  LET bounds == BoundsOf(SnapRect([x |-> resized.bounds.low,
                                   width |-> resized.bounds.high - resized.bounds.low],
                                  EdgesForHandle(handle)))
  IN  [bounds |-> bounds, boxes |-> Mapped(resized.boxes, initial, bounds)]

\* snapGroupResizeResult: one node is snapped itself, several with their bounds.
SnapGroupResizeResult(resized, handle, initial, initialBoxes) ==
  LET SnapBox(box) == SnapRect(box, EdgesForHandle(handle))
      bounds == BoundsOf(SnapBox([x |-> resized.bounds.low,
                                  width |-> resized.bounds.high - resized.bounds.low]))
      single == [n \in DOMAIN initialBoxes |-> SnapBox(resized.boxes[n])]
  IN  IF \E n \in DOMAIN initialBoxes : DOMAIN initialBoxes = {n}
      THEN [bounds |-> SelectionBounds(single), boxes |-> single]
      ELSE [bounds |-> bounds, boxes |-> Mapped(initialBoxes, initial, bounds)]
===============================================================================

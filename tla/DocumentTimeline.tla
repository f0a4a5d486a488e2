--------------------------- MODULE DocumentTimeline ---------------------------
(***************************************************************************)
(* What the undo history promises its user: a line of document states with *)
(* a cursor on the one being shown.  An edit drops the states after the    *)
(* cursor and appends a different one; undo, redo and jump move the cursor *)
(* and bring back exactly the state that was there.  The line keeps at     *)
(* most Limit edits.                                                       *)
(***************************************************************************)
EXTENDS Integers, Sequences

CONSTANT Limit

VARIABLES timeline, cursor

Init == Len(timeline) = 1 /\ cursor = 1

Oldest(line) == IF Len(line) > Limit + 1 THEN Tail(line) ELSE line

Edit ==
  LET shown == timeline'[Len(timeline')]
  IN /\ shown # timeline[cursor]
     /\ timeline' = Oldest(Append(SubSeq(timeline, 1, cursor), shown))
     /\ cursor' = Len(timeline')

Visit(i) ==
  /\ i # cursor
  /\ cursor' = i
  /\ UNCHANGED timeline

Next == Edit \/ \E i \in 1 .. Len(timeline) : Visit(i)

Spec == Init /\ [][Next]_<<timeline, cursor>>
=============================================================================

----------------------------- MODULE ReplayEngine -----------------------------
(***************************************************************************)
(* The replay engine (packages/operation-log/src/replay/engine.ts), its    *)
(* handlers (builtin-handlers.ts) and the isolated editor, session and     *)
(* workspace they drive.                                                   *)
(*                                                                         *)
(* Everything here is a function from values to values; module Replay has  *)
(* the state.  A document is told apart by one value, which a command      *)
(* sets, so a document is its own canonical hash; a patch is the pair of   *)
(* the values before and after.  The editor is what core's dispatch, undo, *)
(* redo and jumpToHistory do, the patches being applicable: module Editor  *)
(* has them in full.                                                       *)
(***************************************************************************)
EXTENDS LogBundle

CONSTANTS
  HistoryLimit,   \* entries of the history (100 in the code)
  Broken          \* a command whose preparation fails

ASSUME ReplayEngineAssumption == HistoryLimit \in Nat \ {0}

-----------------------------------------------------------------------------
(* The editor.  Each operation gives whether it succeeded, the code of its *)
(* diagnostic, the editor after it and the history entry it was about.     *)

NewEditor(document) ==
  [document |-> document, entries |-> << >>, index |-> 0, issued |-> 0]

Succeeds(editor, entry) == [ok |-> TRUE, code |-> None, editor |-> editor, entry |-> entry]
Fails(editor, code) == [ok |-> FALSE, code |-> code, editor |-> editor, entry |-> None]

IsEmptyPatch(patch) == patch.from = patch.to

\* History.record: what was undone is dropped, then the oldest past the limit.
Record(editor, entry) ==
  LET grown == Append(SubSeq(editor.entries, 1, editor.index), entry)
      kept == IF Len(grown) > HistoryLimit THEN Tail(grown) ELSE grown
  IN  [editor EXCEPT !.entries = kept, !.index = Len(kept)]

Dispatch(editor, command) ==
  LET entry == [id |-> editor.issued + 1,
                forward |-> [from |-> editor.document, to |-> command],
                inverse |-> [from |-> command, to |-> editor.document]]
      applied == [editor EXCEPT !.document = command, !.issued = entry.id]
  IN  IF command = Broken THEN Fails(editor, "COMMAND_INVALID")
      ELSE Succeeds(IF IsEmptyPatch(entry.forward) THEN applied ELSE Record(applied, entry), entry)

Undo(editor) ==
  IF editor.index = 0 THEN Fails(editor, "HISTORY_UNDO_EMPTY")
  ELSE LET entry == editor.entries[editor.index]
       IN  Succeeds([editor EXCEPT !.document = entry.inverse.to, !.index = @ - 1], entry)

Redo(editor) ==
  IF editor.index = Len(editor.entries) THEN Fails(editor, "HISTORY_REDO_EMPTY")
  ELSE LET entry == editor.entries[editor.index + 1]
       IN  Succeeds([editor EXCEPT !.document = entry.forward.to, !.index = @ + 1], entry)

\* A jump reports the last entry it applied; one to where it stands, none.
JumpTo(editor, index) ==
  CASE index = editor.index -> Succeeds(editor, None)
    [] index \notin 0 .. Len(editor.entries) -> Fails(editor, "HISTORY_INDEX_INVALID")
    [] index \in 0 .. editor.index - 1 ->
         LET entry == editor.entries[index + 1]
         IN  Succeeds([editor EXCEPT !.document = entry.inverse.to, !.index = index], entry)
    [] OTHER ->
         LET entry == editor.entries[index]
         IN  Succeeds([editor EXCEPT !.document = entry.forward.to, !.index = index], entry)

-----------------------------------------------------------------------------
(* The isolated workspace: panels opened and closed lie over the layout    *)
(* until the next layout event.  A stored layout names its panels by a map *)
(* where the code looks for an array, so it contributes no panel.          *)

NewWorkspace(layout) == [layout |-> layout, panels |-> {}, active |-> None, overlay |-> FALSE]

OpenPanel(workspace, id) ==
  [workspace EXCEPT !.panels = @ \cup {id}, !.overlay = TRUE]

ClosePanel(workspace, id) ==
  [workspace EXCEPT !.panels = @ \ {id}, !.overlay = TRUE,
                    !.active = IF @ = id THEN None ELSE @]

ActivatePanel(workspace, id) ==
  [workspace EXCEPT !.panels = @ \cup {id}, !.overlay = TRUE, !.active = id]

-----------------------------------------------------------------------------
(* The handlers.  Each gives the isolated parts after the event and the    *)
(* difference it found.                                                    *)

DifferenceType == {"command-mismatch", "patch-mismatch", "schema-incompatible", "missing-handler",
                   "state-hash-mismatch"}

Agrees(parts) == [parts |-> parts, difference |-> None]

Differs(parts, event, type) ==
  [parts |-> parts, difference |-> [type |-> type, sequence |-> event.sequence]]

\* A lookup that ends one short.
PreviousTransaction(before, after) ==
  IF Len(after.entries) > Len(before.entries) /\ before.entries # << >>
  THEN after.entries[Len(before.entries)] ELSE None

\* The transaction a replayed command made, looked up where the old history ended.
NewTransaction(before, after) ==
  IF Len(after.entries) > Len(before.entries) THEN after.entries[Len(before.entries) + 1] ELSE None

HandleDocumentCommand(event, parts) ==
  LET result == Dispatch(parts.editor, event.command)
      after == [parts EXCEPT !.editor = result.editor]
      actual == NewTransaction(parts.editor, result.editor)
      expected == event.transaction
  IN  CASE event.status = "failed" ->
             IF result.ok \/ result.code # event.code THEN Differs(after, event, "command-mismatch")
             ELSE IF result.editor # parts.editor THEN Differs(after, event, "patch-mismatch")
             ELSE Agrees(after)
        [] event.status = "succeeded" /\ ~result.ok -> Differs(after, event, "command-mismatch")
        [] event.status = "succeeded" /\ result.ok /\ actual = None ->
             IF IsEmptyPatch(expected.forward) THEN Agrees(after)
             ELSE Differs(after, event, "command-mismatch")
        [] OTHER ->
             IF actual.forward # expected.forward \/ actual.inverse # expected.inverse
             THEN Differs(after, event, "patch-mismatch")
             ELSE IF actual.id # expected.id THEN Differs(after, event, "command-mismatch")
             ELSE Agrees(after)

HistoryMove(editor, event) ==
  CASE event.type = "history.undo" -> Undo(editor)
    [] event.type = "history.redo" -> Redo(editor)
    [] event.type = "history.jump" -> JumpTo(editor, event.index)

\* The entry a replayed move is about: its number is compared with the recorded one.
MovedTransaction(before, after, event) ==
  LET position == CASE event.type = "history.undo" -> before.index
                    [] event.type = "history.redo" -> before.index + 1
                    [] event.type = "history.jump" ->
                         CASE event.index < before.index -> event.index + 1
                           [] event.index = before.index -> 0
                           [] event.index > before.index -> event.index
  IN  IF position \in DOMAIN after.entries THEN after.entries[position].id ELSE None

HandleHistoryOperation(event, parts) ==
  LET result == HistoryMove(parts.editor, event)
      after == [parts EXCEPT !.editor = result.editor]
      moved == MovedTransaction(parts.editor, result.editor, event)
      mismatch == IF event.status = "failed" THEN result.ok \/ result.code # event.code
                  ELSE \/ ~result.ok
                       \/ result.editor.index # event.index
                       \/ event.transactionId # None /\ moved # event.transactionId
  IN  IF event.type = "history.jump" /\ event.index \notin 0 .. Len(parts.editor.entries)
      THEN Differs(parts, event, "schema-incompatible")
      ELSE IF mismatch THEN Differs(after, event, "command-mismatch")
      ELSE Agrees(after)

\* The fields of the session the replay session port can set, and all there are.
ReplayedFields == {"selection", "viewport", "interactionMode", "gridVisible", "expanded"}

SessionFields == ReplayedFields \cup {"gridSize", "snapEnabled", "hoveredId"}

HandleSessionOperation(event, parts) ==
  Agrees([parts EXCEPT !.session = [@ EXCEPT ![event.field] = event.value]])

HandleWorkspaceOperation(event, parts) ==
  Agrees([parts EXCEPT !.workspace =
    CASE event.type = "workspace.panel.opened" -> OpenPanel(@, event.panel)
      [] event.type = "workspace.panel.closed" -> ClosePanel(@, event.panel)
      [] event.type = "workspace.panel.activated" -> ActivatePanel(@, event.panel)
      [] event.type = "workspace.layout.changed" -> NewWorkspace(event.layout)])

\* builtinReplayHandlers: gridSize, snapEnabled and hoveredId are recorded but not here.
Handle(event, parts) ==
  CASE event.category = "document" -> HandleDocumentCommand(event, parts)
    [] event.category = "history" -> HandleHistoryOperation(event, parts)
    [] event.category = "session" /\ event.field \in ReplayedFields ->
         HandleSessionOperation(event, parts)
    [] event.category = "workspace" -> HandleWorkspaceOperation(event, parts)
    [] event.category = "system" -> Agrees(parts)
    [] OTHER -> Differs(parts, event, "missing-handler")

-----------------------------------------------------------------------------
(* The engine.                                                             *)

\* The checkpoint nearest before the target; at 0, the initial one.  Checkpoints
\* are in the order of their sequences.
StartsAt(checkpoints, target) ==
  checkpoints[Max({i \in DOMAIN checkpoints :
                    \/ checkpoints[i].sequence < target
                    \/ target = 0 /\ checkpoints[i].sequence = 0})]

\* The events are numbered from 1: those after the sequence.
After(events, sequence) == SubSeq(events, sequence + 1, Len(events))

\* A new EditorSession: every field has its default.
NewSession == [field \in SessionFields |-> 0]

\* createSession: five fields of the checkpoint's session are set on a new one.
RestoredSession(saved) ==
  [field \in SessionFields |-> IF field \in ReplayedFields THEN saved[field] ELSE NewSession[field]]

\* An engine that restores the checkpoint's document and not its session.
CreateWithoutSession(events, checkpoints, target) ==
  LET checkpoint == StartsAt(checkpoints, target)
  IN  [parts |-> [editor |-> NewEditor(checkpoint.document), session |-> NewSession,
                  workspace |-> NewWorkspace(checkpoint.workspace)],
       events |-> After(events, checkpoint.sequence),
       startedAt |-> checkpoint.sequence, defaultTarget |-> target,
       current |-> checkpoint.sequence, eventIndex |-> 1,
       paused |-> FALSE, bestEffort |-> FALSE, difference |-> None]

\* ReplayEngine.create, the bundle of the page always holding checkpoint 0.
CreateEngine(events, checkpoints, target) ==
  LET checkpoint == StartsAt(checkpoints, target)
  IN  [parts |-> [editor |-> NewEditor(checkpoint.document), session |-> RestoredSession(checkpoint.session),
                  workspace |-> NewWorkspace(checkpoint.workspace)],
       events |-> After(events, checkpoint.sequence),
       startedAt |-> checkpoint.sequence, defaultTarget |-> target,
       current |-> checkpoint.sequence, eventIndex |-> 1,
       paused |-> FALSE, bestEffort |-> FALSE, difference |-> None]

\* #nextEvent.
HasNext(engine, target) ==
  engine.eventIndex <= Len(engine.events) /\ engine.events[engine.eventIndex].sequence <= target

Held(engine) == engine.paused /\ ~engine.bestEffort

\* step up to its first await: the event counts as replayed before its handler runs.
StepBegin(engine) ==
  LET event == engine.events[engine.eventIndex]
      handled == Handle(event, engine.parts)
  IN  [engine EXCEPT !.eventIndex = @ + 1, !.current = event.sequence, !.parts = handled.parts]

\* What that step finds, the state's hash after a command included.
StepFinds(engine) ==
  LET event == engine.events[engine.eventIndex]
      handled == Handle(event, engine.parts)
  IN  IF /\ handled.difference = None
         /\ event.category = "document" /\ event.status = "succeeded"
         /\ handled.parts.editor.document # event.afterHash
      THEN [type |-> "state-hash-mismatch", sequence |-> event.sequence]
      ELSE handled.difference

\* Only a succeeded command that agreed so far has its hash computed meanwhile.
StepHashes(engine) ==
  LET event == engine.events[engine.eventIndex]
  IN  /\ event.category = "document" /\ event.status = "succeeded"
      /\ Handle(event, engine.parts).difference = None

\* The rest of step.
StepEnd(engine, difference) ==
  IF difference = None THEN engine
  ELSE [engine EXCEPT !.difference = IF @ = None THEN difference ELSE @,
                      !.paused = @ \/ ~engine.bestEffort]

BestEffort(engine) == [engine EXCEPT !.bestEffort = TRUE, !.paused = FALSE]

\* getState.
Frame(engine) ==
  [sequence |-> engine.current, document |-> engine.parts.editor.document,
   session |-> engine.parts.session, workspace |-> engine.parts.workspace]

\* #result: deterministic and nondeterministicFromSequence follow the difference.
Result(engine, status, target) ==
  [status |-> status, currentSequence |-> engine.current, targetSequence |-> target,
   startedAtSequence |-> engine.startedAt, difference |-> engine.difference,
   frame |-> Frame(engine)]

\* How a step that found that difference ends, and how runTo does.
StepStatus(engine, target, difference) ==
  IF (difference # None /\ ~engine.bestEffort) \/ HasNext(engine, target) THEN "paused"
  ELSE "completed"

RunStatus(engine, target) ==
  IF ~Held(engine) /\ engine.current >= target THEN "completed" ELSE "paused"
===============================================================================

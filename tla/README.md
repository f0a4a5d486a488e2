# ComposeUI in TLA+

A model of ComposeUI's own logic: the record store, the command kernel and its
undo history (`packages/core`); the operation log that records an editing
session, exports it and replays it (`packages/operation-log`, wired by
`apps/playground`); and the parts of the editor around the document
(`packages/editor`): session, canvas gestures, component tree, workspace layout,
output panel and replay controller. The modules are translated from the source;
`PROJECT.json` maps every definition to its lines. Paths below are relative to
the repository.

## 1. The system

| component | state it keeps | operations | correct when |
|---|---|---|---|
| records and store (`core/src/document`, `store/store.ts`) | immutable map id -> record, one page, nodes with parent and sibling index | `withAppliedChanges`, `updateRecord` | a store is always a valid tree |
| tree validation (`store/validation.ts`) | visit marks, diagnostics of one call | `validateNodeTree` | ends, independent of order, one report per cycle |
| transactions (`kernel/transaction.ts`) | a draft of one call | `transact`, `applyTransactionPatch` | the inverse patch brings the old store back |
| history (`kernel/history.ts`) | entries, currentIndex, limit | `record`, `undo`, `redo`, `jumpTo` | never fails on its own entries, a line of exact states |
| editor and builtin commands (`kernel/commands`) | store, transaction number, listeners | `dispatch`, `undo`, `redo`, `jumpToHistory`, `dispose` | commands keep the tree valid, respect locks, move each subtree once |
| plugins and registry (`commands/plugin.ts`, `registry.ts`) | contributions by id | install, uninstall on failure | a failed install leaves nothing behind |
| tree queries (`query/tree.ts`) | none | read-only | rows are the document's tree in sibling order |
| recorder (`operation-log/src/recorder.ts`) | sequence, promise chain | `record`, `recordDeferred`, `flush` | numbers without gaps, order of observation |
| coordinator (`coordinator.ts`) | session summary, two promise chains, checkpoint counters | `start`, `documentEvent`, `flush`, `end`, `recover` | flush covers what went before, checkpoints fit the log, end is final |
| log stores (`store.ts`, `indexeddb-store.ts`) | events, sessions, checkpoints | `append`, `putSession`, `putCheckpoint`, `deleteSession`, queries | contiguous numbers per session |
| retention (`retention.ts`) | none of its own | `enforceRetention` | the newest complete session survives, and the current one |
| replay engine and handlers (`replay/`) | an editor and a session rebuilt from a checkpoint | `create`, `step`, `runTo`, `verify` | the frame is what the user saw, or a difference is reported |
| bundles, canonical form, redaction | none | `exportLogBundle`, `importLogBundle`, `defaultRedactor` | what is exported is imported, what was damaged is not |
| replay controller (`editor/src/workspace/replay-controller.ts`) | generation, engine, playback | `start`, `pause`, `resume`, `stop`, steps | an old playback never shows through |
| log panel controller (`editor/src/operation-log`) | rows, generation | refresh, filter, select | shows the last state of the store |
| editor session (`editor/src/session`) | selection, viewport, queue of states | setters, `subscribe` | every listener ends with the last state |
| workspace layout (`editor/src/workspace`) | pending layout, timer, epochs | debounce, `flushLayout`, `resetLayout`, `dispose` | the last change is saved, a reset is not undone by an older save |
| pointer gestures (`editor/src/canvas`) | one active interaction | move, resize, marquee, pan | at most one command for each gesture |
| tree view (`editor/src/tree`) | the rows and the store they were built from | rebuild, select, expand, rename, delete, drop | the rows are the document, rebuilt only when a change needs it |
| output panel (`editor/src/workspace/output`) | rows shown, filter, scroll mode, clear mark | filter, clear, retry, auto-scroll | the rows are the log for the filter |
| inspector, other rendering | DOM | - | - |
| playground host (`apps/playground/src/main.ts`) | wires the above | load, mount, hidden page, `dispose` | a clean close leaves a complete log |

Interactions. The editor calls its operation observer synchronously while it
dispatches; the observer (`adapters/core-observer.ts`) only queues on the
recorder's promise chain. When a succeeded command has been recorded, the host
calls `coordinator.documentEvent`, which has a chain of its own, writes the
session and now and then queues a checkpoint on the *recorder's* chain again.
`flush` and `end` run on a third chain and wait for the other two. Each write
is a database transaction of its own, so a crash can fall between any two.
A reload marks a session left active as abnormal and continues the same log.

A replay flushes the log, exports the session as a bundle, imports it again and
builds a `ReplayEngine` with an editor and a session of its own from the last
checkpoint before the target. The replay controller gives each call a
generation and drops what an older one still delivers. The preview source
passes its frames to the canvas, which shows them in place of the editor and
cancels the gesture under way. The editor session notifies the canvas, the tree
and the session observer, which may set it again from inside the notification;
the workspace reports panels and layouts to its own observer; the store of the
log notifies the output panel.

Hard behaviours: long histories of do, undo, jump and truncation; walks over
cyclic data; the three chains; failed writes; crash and reload; generations of
asynchronous work in the replay controller, the log's refreshes and the
workspace's saves; re-entrant callbacks; gestures that outlive the document
they began on. `PROJECT.json` "hazards" lists them at their lines, the ones no
property covers included, with the reason.

## 2. Modules

| module | models | state and actions |
|---|---|---|
| `Records` | schema, shape rules, `validateRecords`, walks up and down the tree | operators only |
| `Patches` | patches of `transaction.ts`, `updateRecord` | operators only |
| `Editor` | `createEditor`, the builtin commands, `History` | `store`, `entries`, `currentIndex`, `transactionSequence`, `disposed` as in the code; `jump` holds the locals of a running `jumpTo`; `operation` the last observed success. One action for each command, undo, redo, dispose; one for each iteration of a jump |
| `EditorProperties` | properties of `Editor` over several steps | - |
| `DocumentTimeline` | abstract: a line of document states and a cursor | `Edit`, `Visit` |
| `EditorProofs`, `EditorPropertiesProofs` | theorems about `Editor`, and about its properties over several steps | - |
| `NodeTreeValidation` | `validateNodeTree` loop by loop | one action for each check of a record and each step of the walk |
| `OperationLog` | recorder, coordinator, database and page | the three chains as queues, each write in flight a variable, the database's three stores; one action for what a task does between two awaits, for the commit or failure of each write, and for what the user and the browser do |
| `LogBundle` | `bundle.ts`, `canonical.ts`, `redaction.ts` | operators: `Export`, `Accepts` and their parts; a hash is an injective tag of what it hashes |
| `ReplayEngine` | `replay/engine.ts`, `builtin-handlers.ts`, the isolated editor, session and workspace | operators over an engine record: create, begin a step, run its handler, compare its hashes, end |
| `Replay` | the page that records, the bundle's three reads, `ReplayController` | `editor` and `session` of the page; `events` given to the recorder and how many of them are `stored`; the coordinator's `task` and `snapshot`, the database's `eventCount` and `checkpoints`; `calls` under way, each at the place it awaits; `state`, `generation`, `engine`, `engines`. One action for each operation, each step of the recorder and the coordinator, each call of the controller and each resumption after an await |
| `EditorSession` | `session.ts`, the session observer of `adapter.ts` | the fields, the queue of `#emit` with the listeners it still has to call, and the recorder's queue, in which a viewport waits once; one action for a setter, each call of a listener, each recorded operation |
| `CanvasGeometry` | snapping, zoom, group resize | operators |
| `Canvas` | `canvas/pointer*.ts`, `mount.ts`, the preview source | `gesture` with the document's version it began on, what is shown (`shownStore`, `shownSession`) and what it came from; one action for each kind of input, change and frame |
| `ComponentTree` | `query/tree.ts`, `tree/component-tree.ts` | `treeRows` and the document they show (`rowsDocument`), the live `document`, expansion and selection; changes of other views, clicks, keys, rename, delete, drop |
| `Workspace` | `editor-workspace.ts`, `layout-store.ts` | `layout`, the timer, the chain of saves, the resets under way with their `generation`, `storedLayout`, `told` (the fold of the events, one panel at a time or a whole layout) |
| `OutputLog` | `operation-log/controller.ts`, `output/panel.ts`, the notifications of `store.ts` | the log's levels, the controller's query, rows and the `#refresh` calls under way by generation; the panel's filter, rows, clear mark, selection, error and scroll mode |
| `Retention` | `retention.ts`, `start`, `end` and `recover` of `coordinator.ts` as far as they write a session | sessions with their status, end and size; starts (again, too), ends and recoveries, which write the whole record; `Runs` calls of `enforceRetention`, each await an action |
| `CommandPlugins` | `plugin.ts`, `registry.ts` | `registry`, the plugin being installed, rollback and disposal one disposer at a time |
| `NodeTreeValidationProofs`, `OperationLogProofs`, `ReplayProofs` | theorems about those modules | - |
| `BundleProofs` | theorems about what `Replay` exports with `LogBundle` | - |
| `WorkspaceProofs` | theorems about `Workspace` and `OutputLog` | - |
| `PartsProofs` | theorems about `EditorSession`, `Canvas`, `ComponentTree`, `Retention` and `CommandPlugins`, and the types of `MCEditorParts` | - |
| `MC*` | instances for TLC | constants, and in `MCEditorParts` the choice of the part that runs |

`Editor` extends `Patches` extends `Records`; `EditorProperties` instantiates
`DocumentTimeline`; `NodeTreeValidation` compares its algorithm with the
definition in `Records`. `Replay` extends `ReplayEngine` and `LogBundle`, so the
page, the bundle, the engine and the controller are one system; `Canvas` extends
`CanvasGeometry`. `MCEditorParts` extends the seven modules of the parts around
the document: they share no variable, and each behaviour runs one of them while
the others stay at their start, so one run checks all without their product.

What is abstracted: one axis stands for x/y and for width/height; names and
overflow are small sets; a sum outside `Coord` is the code's Infinity; the
diagnostics' wording is left out, a rejected command is a guard that is false.
The document record is the constant `PageId`. In `OperationLog` a document is
the sequence of edits since the page was loaded, which is all that checkpoints
and replay need; session and workspace operations are one kind, `Other`; the hashing
between the capture of a checkpoint's document and the numbering of its event
is one step, because the recorder's chain is held meanwhile. In `Replay` a
document is one value, a command sets it (or is refused) and a transaction
carries it before and after; a URL is a value that redaction cuts. The page of
`Replay` is one load with no failed write: its operations queue in the recorder
and enter the database one by one, and a checkpoint's snapshot is of the page as
it is when its turn comes, whatever is queued behind; crashes, reloads and
failures are in `OperationLog`. Its session has all eight fields of
`EditorSessionState`, each 0 or 1, of which a new session has 0. In `Canvas` a
box is an interval on one axis. In `Workspace` the code's layoutEpoch and
resetGeneration are the one variable `generation`, since both tell an older turn
from a newer; the dock's notice of a change is external and comes after the
change, before or after other turns. `overtaken`, `early`, `outdated`, `failed` and the
`told` of `Workspace`, `recorded` and `captured` of `Replay`, `heard` and `joined` of `EditorSession`,
`everEnded` of `Retention` and `ran` of `CommandPlugins` only remember what
happened, for the properties. In every module operators such as
`UndoReusingNumber` or `AnyOrder` are plausible wrong versions of the definition that follows them;
no specification uses them, and they show that each property can fail.

## 3. Runs

| run | question | instance |
|---|---|---|
| `editor_tree` | do undo, redo and jump always apply, are transaction numbers ascending, are delete and reorder right on every reachable tree, is the history a `DocumentTimeline`? | a chain of three nodes or two siblings, history of 2, 3 transactions |
| `editor_layout` | does a lock freeze geometry, does a move shift each subtree once? | chain, pair, and a fork with a locked leaf; two transactions, deltas -1 and 1, invalid sizes, resulting Infinity |
| `editor_revision` (violated) | does `revision` increase with every change? | the same |
| `node_tree_validation` | does the walk end, is its verdict the definition, does each cycle count once? | every collection of three records, every order |
| `oplog` | no holes in the log, no number reused, checkpoints not behind, does flush cover, does an ended session stay ended, is a clean close complete, do flush and end settle? | two operations, checkpoint every 2, crash at any step; one load with a failing write, or two loads and a page hidden at any moment |
| `oplog_checkpoint` (violated) | is a checkpoint the document at its place in the log? | one load, no failure |
| `oplog_failure` (violated) | does recording survive one failed write? | one load, one failure |
| `oplog_replay` (violated) | can a reloaded session's log be replayed? | two loads, no failure |
| `replay` | is a replay's frame what the user saw, are its differences only those the handlers cannot avoid, does a bundle round-trip and a damaged one fail, do superseded calls stay silent, does a running replay end? | four scenarios, below |
| `replay_branch` (violated) | does an ordinary recording replay without a difference? | command, undo, command |
| `replay_checkpoint` (violated) | does a replay begin with the frame its checkpoint saved? | a setting, a command with a checkpoint, a replay from there |
| `editor_parts` | session: does every listener end with the last state, does the log hold every change? canvas: is a gesture always about the document as it is, is the canvas its source, is a resize anchored? tree: are the rows the document? workspace: is the stored layout the shown one, do the events fold to the panels? output: are the rows the log? retention: is the session that ended last kept? plugins: all or nothing? | below |

Bounds. A history of 2 with 3 transactions drops the oldest entry and cuts off
a redo branch; three nodes give a grandchild, siblings and a selection that
holds a node and its descendant. Two document events reach
`CheckpointEvery = 2`; the elapsed-time test is a free choice. One failure, or
one hidden page, together with a crash, each at every possible place, is what
the log's properties are about; a second failure only repeats the rejection of
later events. `OneMishap` keeps failures and hidden pages apart to keep both
small; `dispose` asks for a flush in either. About 842 000 states. `MaxTransactions`,
`MaxOperations`, `MaxFlushes`, `MaxLoads` and `MaxFailures` are guards on the
actions of the user and the environment, never on the program's own steps.
The runs allow deadlock since a bounded user stops, an editor is disposed and
a function returns.

`replay` has four scenarios, chosen in the initial state: many sessions of three
operations of every kind replayed once (`ManySessions`), a checkpoint after each
command (`ManyCheckpoints`), a page that writes between the reads of an export
(`WritingMeanwhile`) and three controls that interrupt each other
(`ManyControls`). A history of two with three operations reaches its limit and a
cut branch; a checkpoint in the middle gives engines that do not start at 0, and
an operation done before its turn one whose snapshot is ahead of its event. A
setting is made to a field that is replayed and one that is not.
About 318 000 states. `editor_parts` has about 655 000, up to
permutations of listeners, pointers and runs, which the modules tell apart by
identity only (and it checks no liveness): three settings by the
user or by nested listeners, two listeners and a field that is deferred
(`viewport`) beside one that is not; four inputs on two boxes with two pointers,
places on and off the grid of 8, thinner than `Pixel`, two zooms; four inputs or
changes on a tree of three to four nodes; three requests to a workspace with two
panels to close, each save succeeding or failing; two events and one use of the
output panel, with answers in any order (two uses, ten million states, were
checked once with the same result); two names of sessions, each started, ended
and recovered any number of times, two overlapping retention runs and a clock
that may go back; up to three plugins of two commands, each
registering, unregistering, throwing or duplicating an id. `MaxSets`,
`MaxInputs`, `MaxTreeInputs`, `MaxRequests`, `MaxEvents`, `MaxUses`, `LastTime`,
`MaxPlugins` and the scenario's counts bound the user and the environment only.

Fairness. `NodeTreeValidation` has `WF(Next)`: a function runs to its end.
`OperationLog` has `WF(Progress)`: promise continuations and database writes
settle, with success or failure. `Replay` has `WF` on the recorder and the
coordinator (`Recording`) and on the calls of the controller: a database answers, a timer fires and a promise
settles. Nothing obliges the user or the browser. The seven parts have no
fairness and only safety properties.

What the violated runs show, each against a line of the repository:

- `transact` swaps before and after, `revision` included, so undo brings it
  down (`schema.ts:14`, `:18` call it an optimistic-concurrency version that
  increases).
- A checkpoint is captured when its turn in the queue comes and may hold
  commands whose events are logged after it; a replay from it would run them
  twice (design document, lines 145, 170, 172).
- A failed append consumes a number and is never retried; the store refuses
  everything after it (design document, line 139). The same happens without
  any failure when the page crashes after a flush wrote an event count that
  counts an append still in flight: the next load starts one number too far.
- A reload continues the log but restarts the document and checkpoint 0
  (design document, lines 248 and 254).
- The replay of a command looks for its transaction at the length the history
  had before it. After an undo the new entry replaces the old ones, nothing
  stands at that place, and an ordinary recording stops with a
  `command-mismatch` (`builtin-handlers.ts:299`; design document, lines 248 and
  254).
- The playground's `createSession` (`main.ts:166-176`) sets five fields of a
  checkpoint's session on a new one. `gridSize`, `snapEnabled` and `hoveredId`
  fall back to their defaults without a difference, so a replay from a later
  checkpoint does not begin with the frame that was saved
  (2026-07-15-visible-operation-replay-design.md, line 70).

`DifferenceExplained` of run `replay` names every other cause of a difference in
what one page load records while no write fails: a full history, where the
entry's place does not grow either; an engine that starts at a later checkpoint,
where transaction numbers and history begin anew; a command that stands behind
such a checkpoint in the log and was in its snapshot already (`oplog_checkpoint`),
so that it is done a second time; `session.gridSize`, `snapEnabled` and
`hoveredId`, recorded but without a handler; a refused `history.jump`, recorded
without the index it asked for. Any other event of such a log replays to what the
page became. Nothing is claimed of a log over a reload (`oplog_replay`) or with a
failed write (`oplog_failure`).

`FrameIsRecording` compares a frame's document and session with the page's after
that event. It leaves out what the violated runs show: the three settings in an
engine from a later checkpoint, and, while a snapshot is ahead, the frames up to
the event it had seen. An operation the snapshot already holds and that is done
again without a difference (a setting, a panel) ends where it ended before.
`NewestEndedKept` leaves out a session with two ends, `PanelLogFolds` a layout
told of that was taken during a reset the default has followed, until the next
whole layout, and a workspace closed in a reset; a panel opened or closed during
a reset is otherwise part of it.

Met while modelling and not a run of their own, the first two by TLC on the
model:

- A panel opened or closed by a caller during a reset is scheduled to be saved
  (`editor-workspace.ts:656`, `:674`; the dock's own notice is not, `:718`). The
  default layout comes, then the older layout is told of (`:585`) and saved: what
  is shown, what the events say and what a refresh restores differ until the next
  whole layout.
- Retention deletes what it listed as ended by name (`retention.ts:48`). Every
  load of the playground writes the same session active again (`main.ts:40`,
  `coordinator.ts:109-127`). A session started since it was listed is deleted
  while active, which the design document's line 147 rules out, and one listed
  with an earlier end can be deleted although it ended last. The playground has
  no caller of `enforceRetention` yet.

During a replay preview only the canvas is
read-only. The scene, inspector and history panels get the live editor
(`workspace/panels.ts:68`) and go on editing it; `CanvasShowsSource` says that
after the replay the canvas shows what they did.

## 4. Proofs

43 listed theorems and the lemmas they rest on, about 16 200 obligations; each
holds for every value of the constants that the named assumptions allow. The
assumptions give the constants their types (`EditorAssumption` and the others of
that kind), say that nodes and ids are finitely many (`FiniteIdsAssumption`,
`CanvasAssumption`, `InitialTreeAssumption`), that the first tree is a tree and
the first boxes are a pixel wide at least (the same two), and that the values
standing for "none" are none of the others (`NoEventAssumption`,
`NoLayoutAssumption`, `NoRecordAssumption`, `NoneAssumption`,
`EditorSessionAssumption`). TLC evaluates all of them.

**Editor** (`EditorProofs`, 1002 obligations). `TypeCorrect`, `UndoRedoNeverFail`
(`HistoryApplies`), `JumpsNeverFail`, `TransactionsAscend`. `HistoryApplies` is
not inductive: that the next undo applies says nothing of the one after it. The
invariant (`LineInvariant`) says there *is* a line of valid stores, one for each
history index, such that each entry's forward patch takes one to the next and
its inverse patch takes it back, the current store is the one at
`currentIndex`, and a running jump's store the one at its index. A command
extends the line by the new store and cuts what was behind it
(`TransactionJoins`, `PushProperties`, `CommitPreserves`), dropping the oldest
entry shifts it; undo, redo and jump only move along it (`MovePreserves`). That
a committed command yields such a pair of patches rests on `DispatchCommits` -
every builtin command is a transaction on a valid store - and `InverseUndoes`.

**Editor over several steps** (`EditorPropertiesProofs`, 1680).
`DeletionTakesSubtrees`, `ReorderingSwapsKeys`, `HistoryRefinesTimeline`,
`LockedNodesStay`, `MovesShiftOnce`. The first two and the last need what
`SelfAndAncestors` and `Subtree` compute for every tree, without induction over
data: a function that follows a step until nothing is new is shown to give the
*least closed set*, and what lies above or below a node is then reasoned about
by its least or largest members. The refinement of `DocumentTimeline` maps the
current state to the stores that replaying the entries' patches gives, backwards
(`Rewound`) and forwards (`Replayed`); whatever line `LineInvariant` has, it is
that timeline (`TimelineIsTheLine`), so a commit is an `Edit`, undo, redo and the
end of a jump are a `Visit`, all else stutters. `LocksOnTimeline` adds that
neighbours on the timeline respect each other's locks, which is why undo may not
move a locked node either. For moves, a position in the page is a sum over the
ancestors, and at most one node of the selection's top level is among them.

**Node tree validation** (`NodeTreeValidationProofs`, 1064), for every finite
collection of records in every order: `ValidationTypes`, `VerdictIsRight`,
`CyclesAreReportedOnce`. `CheckInv` says what the first loop has found about the
nodes it has been at, `PathInv` that the path is the walk so far and its nodes
are those with colour 1, `LoopInv` that each cycle (a least closed set of parents)
is untouched, or finished and reported once. An invariant that only speaks of
diagnostics is not inductive: that a cycle is reported again is prevented by its
colours.

**Operation log** (`OperationLogProofs`, 3348), for every bound, checkpoint
interval, number of loads and failures: `LogTypes`, `RecorderIsNotBehind`,
`LogHasNoHoles`, `CheckpointsAreNotBehind`, `EndStaysTheEnd`, `FlushHasCovered`,
`CleanClose`. The invariant has one part for each actor: the page's memory, the
numbers (`NumbersInv`: the log is numbered from 1 and the recorder is at its end
or ahead), what a task of the coordinator has in flight (`TaskInv`), the calls
of flush and end (`CallsInv`), the end (`EndInv`: once it has waited for the
tasks nobody else writes the session), the stored session, the edits on their
way (`HeldInv`: while the store lost nothing, each edit is in the log or queued,
and what a flush was asked for is among what it still waits for) and the first
load (`FirstLoadInv`: every logged document is a beginning of the later ones).
`NoHoles` needs `HeldInv`, the two of flush and end need `EndInv` besides.

**Workspace and output panel** (`WorkspaceProofs`, 1429), for every set of
panels: `PanelEventsFold`, `WorkspaceTypes`, `StoreCatchesUp`. `LayoutInv` types
layouts and saves, `ResetInv` says that resets under way have distinct
generations and the current one implies `resettingLayout`, `PanelsInv` that the
panels told, observed, shown and waiting to be saved are the same, each from
where it is up to date; a layout that waits during a reset was taken during it
(`early`), and what is told of it is `outdated` until a whole layout follows. For the store, `QueueInv` says only the first reset has begun,
`ResetsHold` that it waits for every save there is and leaves none behind when
it removes the layout, `SavesCatchUp` that the shown layout is pending, being
saved last, or stored. For the panel: `OutputTypes`, `RowsAreCurrent`.
`RefreshInv` says what the latest `#refresh` may have missed is still to be told
by the store (`ReadsAll`), `ShownInv` that what is shown are the rows unless a
refresh that is not over, or failed, makes them outdated.

**Session, canvas, tree** (`PartsProofs`, 3591 with the next three).
`SessionTypes`, `ListenersAreCurrent`, `SessionLogMakesSession`: `HearInv`
numbers the states that wait and says that a subscribed listener is still to be
called, heard the delivered state or joined since; `RecordInv` says a viewport
waits exactly while it has a value, once, and that the last operation on each
field, recorded or waiting, gives its value - from which the fold of the log is
obtained (`ReplayedIsLast`) by taking the least prefix on which it could differ.
`GesturesAreLive`, `CanvasIsCurrent`: what the canvas keeps of its source is the
editor's store and session (`SourceInv`), and what a gesture carries
(`GestureHas`). `ResizesAreAnchored`, `CanvasTypes`: `CanvasShape` types what
each gesture keeps and says that a resize kept the true bounds of its boxes and
last made an `Anchored` result of them (`ResizedGroup`, `SnappedGroup`). That
scaled boxes fill the scaled bounds (`MappedFills`) is the scaling of the
outermost two: the model counts in whole units where the code divides numbers,
so it is said of resizes whose scaled lengths are whole (in the checked
instance, all are) and above the pixel, where the code's own minimum widens a
box. `TreeIsCurrent`: rows and drops are the same for documents that are `Alike`
(`ItemsAlike`, `DropsAlike`: the recursive walks of two such documents satisfy
the same equation), and the document the rows were built from is alike to the
one there is. `TreeStaysATree`: a deletion takes all that is below the node,
because in that many steps down the set must stop growing (`BelowIsClosed`), and
a drop swaps two indexes, because the document it is decided on is alike to the
one it is made in.

**Retention** (`PartsProofs`), for every set of sessions and runs and any
clock: `NewestSessionIsKept`, `RetentionTypes`. `ListInv` is what a run holds
between its awaits: everything it listed had ended, and before the one it took
for the newest; `HistoryInv` keeps every end a session ever had, so that one that
starts again, ends again or is recovered from a stale list does not take it back.
A session that ended once and last is in no list a run deletes from.

**Plugins** (`PartsProofs`), for every list of plugins:
`InstallationIsAllOrNothing`, `PluginsTypes`. `PlaceInv` ties the registry to the plugins
installed so far, `UnwindInv` says which disposers a rollback or disposal has
run and which commands they left, `PhaseInv` what each phase has reached,
`RegistryInv` that a command has one contribution.

**The parts together** (`PartsProofs`): a behaviour of `MCEditorParts` is one of
each part (`PartsAreApart`), so the types of the seven give `PartsTypes`
(`PartsTypeOK`).

**Replay** (`ReplayProofs`, 3487), for every set of documents, every scenario and
every history limit: `TypeCorrect` (`ReplayTypeOK`), `FrameMatches`
(`FrameIsRecording`), `DifferencesExplained` (`DifferenceExplained`), `Stable`
(`StableUnlessRunning`). What a frame shows says nothing of the next one, so the
invariant (`Inv`, theorem `Invariance`) has a part for each actor. `LogInv`: each
event is what the recorder writes of one operation on the page before it, and
`recorded` is the page after it (`LogStep`). `CoordinatorInv`: the task under way
and its snapshot are at their place in the recorder's queue. `CheckpointsInv`:
checkpoints ascend in that log, each is the page its snapshot was taken of
(`captured`), at its own event or ahead of it, the first one the page as it was
opened.
`EnginesInv`: an engine's events are the log's after its checkpoint, and its
isolated parts follow the page (`Follows`: all of the editor from the first
checkpoint; from a later one a document without a history) until it finds a
difference, at an event that explains it. While its snapshot is ahead (`Seen`)
the document is the snapshot's, and a field of the session is the page's or
still the snapshot's; at the event the snapshot was taken of both agree, and
from there on the parts follow the page event by event. Of the session they
follow the fields the engine can know. `CallsInv`: what a call has read is the
beginning of the log, its generation is its own, and the current call runs.
`ControllerInv`: the frame published is a page. The heart is one lemma for each
handler: replaying the event of an operation does to parts that follow the page
what the operation did to the page, or reports a difference that
`Unreplayable` names. That the frame is right needs this for every event before it.

**Bundles** (`BundleProofs`, 580): `BundlesRoundTrip`, `DamageIsRefused`. From
`CallsInv`: the events a call read are numbered from 1 and its checkpoints are at
different ones among them (`ReadsAreValid`); redaction and the new hashes keep
what an import asks of each event and each checkpoint (`RedactedIsValid`,
`RehashedEventIsValid`, `RehashedIsWhole`); valid contents make a bundle that is
accepted (`BundleIsAccepted`). A changed section has another section hash, a
changed manifest another manifest hash (`HashTellsManifests`): both rest on the
model's hash, which is injective, as SHA-256 is taken to be.

Every invariant and action property of the passing runs is proved. Liveness
(`Terminates`, `CallsSettle`, `RunningEnds`) is model-checked only: fairness and
ENABLED are beyond the proof system.

## 5. Not modelled

- Drawing and DOM wiring, the inspector, the history and resources panels, the
  replay bar, the toolbars' menus, icons: no state over the state above.
- In the tree view: a rename in progress, a read-only tree (the scene panel is
  never one), the marks shown while dragging.
- In `LogBundle`: the patterns of ids, hashes and timestamps, the page document's
  schema, normalisation of older canonical values, the limit in bytes, SHA-256
  itself: conversions of unbounded text.
- In the workspace: which panel is active, mounting of panels and the errors it
  may throw; dockview is a library.
- In the log panel's controller: its own selected event, `dispose` and the
  pass-throughs to export, import and replay, which succeed or fail as actions of
  the panel.
- `documentEvent` with an explicit sequence, `coordinator.dispose`,
  `History.clear`, replay handlers and editors passed in by a host: they have no
  caller in the repository but tests.
- Two tabs that record one session at once: `Retention` has what they write to
  the session's record, `OperationLog` and `Replay` have one page.
- Observers of a host that call back into the editor: nothing in the repository
  does so.

## 6. What could follow

The isolated workspace of an engine is in the model but nothing shows it to the
user, so no property compares it with the page's; a second tab on the same
session would be a second `Page` in `Replay`.

Runs are shared between modules where one instance answers several questions.

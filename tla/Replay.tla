-------------------------------- MODULE Replay --------------------------------
(***************************************************************************)
(* Replaying the session that is being recorded: the page that goes on     *)
(* recording, the log bundle a replay exports and imports                  *)
(* (apps/playground/src/main.ts, loadReplayBundle), and the replay         *)
(* controller of the editor                                                *)
(* (packages/editor/src/workspace/replay-controller.ts) that drives        *)
(* engines of module ReplayEngine.                                         *)
(*                                                                         *)
(* Every call of the controller has its own generation.  What a call does  *)
(* between two awaits is an action; a call that was superseded goes on     *)
(* until the code looks at the generation.  Two awaits that end in the     *)
(* same task of the event loop are kept apart, so the interleavings here   *)
(* include the program's.                                                  *)
(*                                                                         *)
(* An operation is given to the recorder when it is done, and its event    *)
(* enters the database when its turn in the recorder's queue comes.  This  *)
(* is one load of the page, with no write that fails: module OperationLog  *)
(* has crashes, reloads and failures.                                      *)
(***************************************************************************)
EXTENDS ReplayEngine

CONSTANTS
  Values,           \* what a command can set a document to
  InitialValue,
  Scenarios         \* bounds: the commands and other operations the user does, how
                    \*   many of them at all and once there was a replay, how many
                    \*   calls of the controller, and the document events between
                    \*   two checkpoints

ASSUME ReplayAssumption ==
  /\ Scenarios \subseteq [uses: SUBSET STRING, commands: SUBSET (Values \cup {Broken}),
                           operations: Nat, meanwhile: Nat, controls: Nat,
                           checkpointEvery: Nat \ {0}]
  /\ InitialValue \in Values
  /\ Broken \notin Values

\* None is no number, no difference and no history entry.
ASSUME NoneAssumption ==
  /\ None \notin Nat
  /\ None \notin [type: DifferenceType, sequence: Nat]
  /\ None \notin [id: Nat, forward: [from: Values, to: Values], inverse: [from: Values, to: Values]]

VARIABLES
  scenario,             \* one of Scenarios
  editor, session,      \* the live page
  events,               \* what the recorder was given, in the order of its queue
  stored,               \* how many of them are in the database
  eventCount, checkpoints,   \* the database: the session's own count and checkpoints
  recorded,             \* history: the page's state after each event
  captured,             \* history: how many events the page had had when the snapshot
                        \*   of each checkpoint was taken
  task,                 \* the coordinator's document event under way
  snapshot,             \* what it saves as a checkpoint
  settled,              \* the document events it is done with
  sinceCheckpoint,
  operations, controls, \* how much of each bound is used up
  state,                \* ReplayController.#state
  generation,           \* #generation
  engine,               \* #engine: the generation that made it, 0 if none
  playback,             \* #playback: the generation of the last one
  engines,              \* the engines made, by generation
  calls                 \* the calls that have not returned

page == <<scenario, editor, session, operations>>
queue == <<events, recorded>>
coordinator == <<task, snapshot, captured, settled, sinceCheckpoint>>
database == <<stored, eventCount, checkpoints>>
log == <<queue, coordinator, database>>
controller == <<state, generation, engine, playback, engines, calls, controls>>
vars == <<page, log, controller>>

NotReplaying ==
  [active |-> FALSE, status |-> "idle", currentSequence |-> None, targetSequence |-> None,
   startedAtSequence |-> None, difference |-> None, frame |-> None, error |-> FALSE]

Init ==
  /\ scenario \in Scenarios
  /\ editor = NewEditor(InitialValue)
  /\ session = NewSession
  /\ events = << >>
  /\ stored = 0
  /\ eventCount = 0
  /\ checkpoints = <<[sequence |-> 0, document |-> InitialValue, session |-> NewSession,
                      workspace |-> "loaded"]>>
  /\ recorded = << >>
  /\ captured = [sequence \in {0} |-> 0]
  /\ task = "idle"
  /\ snapshot = None
  /\ settled = 0
  /\ sinceCheckpoint = 0
  /\ operations = 0
  /\ controls = 0
  /\ state = NotReplaying
  /\ generation = 0
  /\ engine = 0
  /\ playback = 0
  /\ engines = << >>
  /\ calls = {}

-----------------------------------------------------------------------------
(* The page that goes on recording.                                        *)

NextSequence == Len(events) + 1

\* What is recorded of a command, of a move in the history (a refused jump with the
\* index where it stayed), of a setter and of the workspace.
CommandEvent(sequence, command, result) ==
  IF result.ok
  THEN [sequence |-> sequence, category |-> "document", type |-> "document.command",
        command |-> command, status |-> "succeeded", transaction |-> result.entry,
        afterHash |-> result.editor.document]
  ELSE [sequence |-> sequence, category |-> "document", type |-> "document.command",
        command |-> command, status |-> "failed", code |-> result.code]

HistoryEvent(sequence, type, result) ==
  [sequence |-> sequence, category |-> "history", type |-> type, index |-> result.editor.index,
   code |-> result.code, status |-> IF result.ok THEN "succeeded" ELSE "failed",
   transactionId |-> IF result.entry = None THEN None ELSE result.entry.id]

SessionEvent(sequence, field, value) ==
  [sequence |-> sequence, category |-> "session", type |-> "session", status |-> "observed",
   field |-> field, value |-> value]

WorkspaceEvent(sequence, type) ==
  IF type = "workspace.layout.changed"
  THEN [sequence |-> sequence, category |-> "workspace", type |-> type, status |-> "observed",
        layout |-> "changed"]
  ELSE [sequence |-> sequence, category |-> "workspace", type |-> type, status |-> "observed",
        panel |-> "log"]

CheckpointEvent(sequence) ==
  [sequence |-> sequence, category |-> "system", type |-> "system.checkpoint",
   status |-> "observed"]

\* The recorder is given the event; the page is as given after it.  "cut" tells
\* that a new history entry would drop old ones.
Recorded(event, nextEditor, nextSession) ==
  /\ events' = Append(events, event)
  /\ recorded' = Append(recorded,
       [editor |-> nextEditor, session |-> nextSession,
        cut |-> editor.index < Len(editor.entries) \/ Len(editor.entries) = HistoryLimit])
  /\ editor' = nextEditor
  /\ session' = nextSession
  /\ UNCHANGED scenario

Command(command) ==
  LET result == Dispatch(editor, command)
  IN  Recorded(CommandEvent(NextSequence, command, result), result.editor, session)

HistoryOperation(type, index) ==
  /\ type \in scenario.uses
  /\ LET result == HistoryMove(editor, [type |-> type, index |-> index])
     IN  Recorded(HistoryEvent(NextSequence, type, result), result.editor, session)

\* A field of the session is set; a setter that changes nothing records nothing.
SessionOperation(field, value) ==
  /\ "session" \in scenario.uses
  /\ session[field] # value
  /\ Recorded(SessionEvent(NextSequence, field, value), editor, [session EXCEPT ![field] = value])

PanelEvents == {"workspace.panel.opened", "workspace.panel.closed",
                "workspace.panel.activated", "workspace.layout.changed"}

WorkspaceOperation(type) == Recorded(WorkspaceEvent(NextSequence, type), editor, session)

Operate ==
  /\ operations < scenario.operations
  /\ controls > 0 => operations >= scenario.operations - scenario.meanwhile
  /\ operations' = operations + 1
  /\ \/ \E command \in scenario.commands : Command(command)
     \/ HistoryOperation("history.undo", 0)
     \/ HistoryOperation("history.redo", 0)
     \/ \E index \in {0, HistoryLimit, HistoryLimit + 1} : HistoryOperation("history.jump", index)
     \/ \E field \in {"selection", "snapEnabled"} : SessionOperation(field, 1 - session[field])
     \/ \E type \in scenario.uses \cap PanelEvents : WorkspaceOperation(type)
  /\ UNCHANGED <<coordinator, database, controller>>

-----------------------------------------------------------------------------
(* The recorder's queue and the coordinator's document events.             *)

\* The next event can be numbered and stored: a checkpoint's own event takes the
\* snapshot first.
Storable ==
  /\ stored < Len(events)
  /\ events[stored + 1].type = "system.checkpoint" => task = "captured"

\* recorder.sequence: an event that is being stored has its number.
Numbers == {stored} \cup (IF Storable THEN {stored + 1} ELSE {})

StoreEvent ==
  /\ Storable
  /\ stored' = stored + 1
  /\ UNCHANGED <<page, queue, coordinator, eventCount, checkpoints, controller>>

\* The coordinator is called for each command that succeeded, once it is stored,
\* and takes one call at a time.
Asked ==
  Cardinality({i \in 1 .. stored : events[i].category = "document" /\ events[i].status = "succeeded"})

\* documentEvent: the session is written, then a checkpoint that is due, then the
\* session again.
SaveSession ==
  /\ task = "idle" /\ settled < Asked
  /\ \E number \in Numbers : eventCount' = number
  /\ sinceCheckpoint' = sinceCheckpoint + 1
  /\ IF sinceCheckpoint' >= scenario.checkpointEvery
     THEN /\ Recorded(CheckpointEvent(NextSequence), editor, session)
          /\ task' = "queued"
          /\ UNCHANGED <<operations, settled>>
     ELSE /\ settled' = settled + 1
          /\ UNCHANGED <<page, queue, task>>
  /\ UNCHANGED <<snapshot, captured, stored, checkpoints, controller>>

\* The turn of the checkpoint's event has come: the snapshot is of the page as it
\* is now, whatever is queued behind.
CaptureCheckpoint ==
  /\ task = "queued"
  /\ stored < Len(events) /\ events[stored + 1].type = "system.checkpoint"
  /\ snapshot' = [sequence |-> stored + 1, document |-> editor.document, session |-> session,
                  workspace |-> "saved"]
  /\ captured' = [sequence \in DOMAIN captured \cup {stored + 1} |->
                    IF sequence = stored + 1 THEN Len(events) ELSE captured[sequence]]
  /\ task' = "captured"
  /\ UNCHANGED <<page, queue, settled, sinceCheckpoint, database, controller>>

SaveCheckpoint ==
  /\ task = "captured" /\ snapshot.sequence <= stored
  /\ checkpoints' = Append(checkpoints, snapshot)
  /\ task' = "count"
  /\ UNCHANGED <<page, queue, snapshot, captured, settled, sinceCheckpoint, stored, eventCount,
                 controller>>

\* The count goes back to the checkpoint's when more was stored meanwhile.
SaveCount ==
  /\ task = "count"
  /\ eventCount' = snapshot.sequence
  /\ snapshot' = None
  /\ sinceCheckpoint' = 0
  /\ settled' = settled + 1
  /\ task' = "idle"
  /\ UNCHANGED <<page, queue, captured, stored, checkpoints, controller>>

Recording == StoreEvent \/ SaveSession \/ CaptureCheckpoint \/ SaveCheckpoint \/ SaveCount

Page == Operate \/ Recording

-----------------------------------------------------------------------------
(* The controller: what it publishes.                                      *)

Current(call) == call.generation = generation

Others(call) == {other \in calls : other.generation # call.generation}

Continue(call, next) == calls' = Others(call) \cup {next}

Finish(call) == calls' = Others(call)

\* stateFromResult, active.
StateFrom(result, status) ==
  [active |-> TRUE, status |-> status, currentSequence |-> result.currentSequence,
   targetSequence |-> result.targetSequence, startedAtSequence |-> result.startedAtSequence,
   difference |-> result.difference, frame |-> result.frame, error |-> FALSE]

\* #applyResult.
Applied(result, completedStatus) ==
  StateFrom(result, IF result.status = "completed" THEN completedStatus ELSE "paused")

Running == [state EXCEPT !.active = TRUE, !.status = "running", !.error = FALSE]

\* #recoverFromError, #recoverStartError.
Recovered == [state EXCEPT !.active = TRUE, !.status = "paused", !.error = TRUE]

NotStarted == [NotReplaying EXCEPT !.error = TRUE]

-----------------------------------------------------------------------------
(* The controller: what the user asks.                                     *)

\* A call with a generation of its own.
Asks(call) ==
  /\ controls < scenario.controls
  /\ controls' = controls + 1
  /\ generation' = generation + 1
  /\ calls' = calls \cup {call}

\* A call that makes an engine: where it stands, what its flush waits for, and
\* what it has read.
Making(kind, target) ==
  [generation |-> generation + 1, kind |-> kind, target |-> target, at |-> "flush",
   until |-> 0, count |-> 0, events |-> << >>, checkpoints |-> << >>]

\* A call that uses one: the playback it waits for, what its step has found while
\* the hash is computed, and the status it completes with.
Drives(call, kind, target, at, number) ==
  [generation |-> call, kind |-> kind, target |-> target, at |-> at, engine |-> number,
   previous |-> 0, finding |-> None, ends |-> "completed"]

Using(kind, target, at) == Drives(generation + 1, kind, target, at, engine)

Start(target) ==
  /\ Asks(Making("start", target))
  /\ engine' = 0
  /\ state' = [NotReplaying EXCEPT !.active = TRUE, !.status = "running"]
  /\ UNCHANGED <<playback, engines>>

Pause ==
  /\ state.active /\ state.status = "running"
  /\ controls < scenario.controls
  /\ controls' = controls + 1
  /\ generation' = generation + 1
  /\ state' = [state EXCEPT !.status = "paused"]
  /\ UNCHANGED <<engine, playback, engines, calls>>

\* A resume that notes its own playback before it reads the one to wait for.
ResumeAfterItself ==
  /\ engine # 0 /\ state.active
  /\ state.targetSequence # None
  /\ state.status # "running"
  /\ Asks([Using("play", state.targetSequence, "previous") EXCEPT !.previous = generation + 1])
  /\ playback' = generation + 1
  /\ state' = Running
  /\ UNCHANGED <<engine, engines>>

\* The new playback waits for the one it replaces.
Resume ==
  /\ engine # 0 /\ state.active
  /\ state.targetSequence # None
  /\ state.status # "running"
  /\ Asks([Using("play", state.targetSequence, "previous") EXCEPT !.previous = playback])
  /\ playback' = generation + 1
  /\ state' = Running
  /\ UNCHANGED <<engine, engines>>

StepBackward ==
  /\ state.currentSequence # None
  /\ Asks(Making("back", IF state.currentSequence = 0 THEN 0 ELSE state.currentSequence - 1))
  /\ state' = Running
  /\ UNCHANGED <<engine, playback, engines>>

EndOfLog == scenario.operations * 2 + 1

StepForward ==
  /\ engine # 0 /\ state.active
  /\ Asks(Using("step", EndOfLog, "step"))
  /\ state' = Running
  /\ UNCHANGED <<engine, playback, engines>>

RunTo(target) ==
  /\ engine # 0 /\ state.active
  /\ Asks([Using("run", target, "run") EXCEPT !.ends = "paused"])
  /\ state' = [Running EXCEPT !.targetSequence = target]
  /\ UNCHANGED <<engine, playback, engines>>

Verify ==
  /\ engine # 0 /\ state.active
  /\ Asks(Using("run", engines[engine].defaultTarget, "run"))
  /\ state' = Running
  /\ UNCHANGED <<engine, playback, engines>>

ContinueBestEffort ==
  /\ engine # 0 /\ state.active
  /\ Asks(Using("run", engines[engine].defaultTarget, "run"))
  /\ engines' = [engines EXCEPT ![engine] = BestEffort(@)]
  /\ state' = Running
  /\ UNCHANGED <<engine, playback>>

\* A stop that leaves the engine to the next call.
StopKeepsEngine ==
  /\ controls < scenario.controls
  /\ controls' = controls + 1
  /\ generation' = generation + 1
  /\ state' = NotReplaying
  /\ UNCHANGED <<engine, playback, engines, calls>>

Stop ==
  /\ controls < scenario.controls
  /\ controls' = controls + 1
  /\ generation' = generation + 1
  /\ engine' = 0
  /\ state' = NotReplaying
  /\ UNCHANGED <<playback, engines, calls>>

Control ==
  /\ \/ \E target \in 0 .. stored : Start(target)
     \/ \E target \in {0, stored} : RunTo(target)
     \/ Pause \/ Resume \/ StepBackward \/ StepForward \/ Verify \/ ContinueBestEffort \/ Stop
  /\ UNCHANGED <<page, log>>

-----------------------------------------------------------------------------
(* The controller: createEngine.                                           *)

\* coordinator.flush, one call at a time: it waits for the document events asked
\* when its turn comes, and then for what the recorder was given until then.
Flushing(call) == call.at \in {"flush", "tasks", "inputs"}

FlushBegin(call) ==
  /\ call.at = "flush"
  /\ \A other \in calls : other.generation < call.generation => ~Flushing(other)
  /\ Continue(call, [call EXCEPT !.at = "tasks", !.until = Asked])
  /\ UNCHANGED <<page, log, state, generation, engine, playback, engines, controls>>

FlushTasks(call) ==
  /\ call.at = "tasks"
  /\ call.until <= settled
  /\ Continue(call, [call EXCEPT !.at = "inputs", !.until = Len(events)])
  /\ UNCHANGED <<page, log, state, generation, engine, playback, engines, controls>>

FlushSave(call) ==
  /\ call.at = "inputs"
  /\ call.until <= stored
  /\ \E number \in Numbers : eventCount' = number
  /\ Continue(call, [call EXCEPT !.at = "session", !.until = 0])
  /\ UNCHANGED <<page, queue, coordinator, stored, checkpoints, state, generation, engine,
                 playback, engines, controls>>

\* exportLogBundle reads the session, the events and the checkpoints one by one.
ReadSession(call) ==
  /\ call.at = "session"
  /\ Continue(call, [call EXCEPT !.at = "events", !.count = eventCount])
  /\ UNCHANGED <<page, log, state, generation, engine, playback, engines, controls>>

ReadEvents(call) ==
  /\ call.at = "events"
  /\ Continue(call, [call EXCEPT !.at = "checkpoints",
                                  !.events = SubSeq(events, 1, stored)])
  /\ UNCHANGED <<page, log, state, generation, engine, playback, engines, controls>>

\* The checkpoints at or before an event that was read.
ReadCheckpoints(call) ==
  /\ call.at = "checkpoints"
  /\ LET read == {i \in DOMAIN checkpoints : checkpoints[i].sequence <= Len(call.events)}
     IN  Continue(call, [call EXCEPT !.at = "create",
                                     !.checkpoints = SubSeq(checkpoints, 1, Max(read))])
  /\ UNCHANGED <<page, log, state, generation, engine, playback, engines, controls>>

\* The export, and the import of what it wrote, fail when the session counts
\* other events than were read (BundleRoundTrips: for no other reason).
Consistent(call) == call.count = Len(call.events)

CreateFails(call) ==
  /\ call.at = "create"
  /\ ~Consistent(call)
  /\ Finish(call)
  /\ IF Current(call) /\ call.kind = "start"
     THEN state' = NotStarted /\ engine' = 0
     ELSE state' = (IF Current(call) THEN Recovered ELSE state) /\ UNCHANGED engine
  /\ UNCHANGED <<page, log, generation, playback, engines, controls>>

Created(call) ==
  /\ call.at = "create"
  /\ Consistent(call)
  /\ engine' = call.generation
  /\ engines' = [number \in DOMAIN engines \cup {call.generation} |->
                   IF number = call.generation
                   THEN CreateEngine(call.events, call.checkpoints, call.target)
                   ELSE engines[number]]

\* A call that was superseded while its engine was made drops the engine.
CreateDropped(call) ==
  /\ call.at = "create"
  /\ ~Current(call)
  /\ Consistent(call)
  /\ Finish(call)
  /\ UNCHANGED <<page, log, state, generation, engine, playback, engines, controls>>

\* start shows the checkpoint and begins to play.
StartPlaying(call) ==
  /\ call.kind = "start"
  /\ Current(call)
  /\ Created(call)
  /\ LET new == engines'[call.generation]
         completed == new.startedAt >= call.target
         result == Result(new, IF completed THEN "completed" ELSE "running", call.target)
     IN  /\ state' = StateFrom(result, result.status)
         /\ IF completed THEN Finish(call) /\ UNCHANGED playback
            ELSE /\ Continue(call, Drives(call.generation, "play", call.target, "wait", call.generation))
                 /\ playback' = call.generation
  /\ UNCHANGED <<page, log, generation, controls>>

\* stepBackward runs the new engine to the event before.
RunBack(call) ==
  /\ call.kind = "back"
  /\ Current(call)
  /\ Created(call)
  /\ Continue(call, [Drives(call.generation, "run", call.target, "run", call.generation)
                     EXCEPT !.ends = "paused"])
  /\ UNCHANGED <<page, log, state, generation, playback, controls>>

-----------------------------------------------------------------------------
(* The controller: what its calls do with their engines.                   *)

Engine(call) == engines[call.engine]

\* playTo waits for the timer, and a resumed one for the playback before it.
PreviousEnded(call) ==
  /\ call.at = "previous"
  /\ \A other \in calls : ~(other.kind = "play" /\ other.generation = call.previous)
  /\ IF Current(call) THEN Continue(call, [call EXCEPT !.at = "wait"]) ELSE Finish(call)
  /\ UNCHANGED <<page, log, state, generation, engine, playback, engines, controls>>

\* A playback whose step took its time and that no longer looks whether it is current.
PlayedOn(call, result) ==
  IF result.difference # None THEN state' = Applied(result, "paused") /\ Finish(call)
  ELSE IF result.status = "completed" \/ result.currentSequence >= call.target
       THEN state' = Applied(result, "completed") /\ Finish(call)
       ELSE state' = StateFrom(result, "running") /\ Continue(call, [call EXCEPT !.at = "wait"])

\* #playTo after a step.
Played(call, result) ==
  CASE ~Current(call) -> Finish(call) /\ UNCHANGED state
    [] Current(call) /\ result.difference # None -> state' = Applied(result, "paused") /\ Finish(call)
    [] Current(call) /\ result.difference = None
       /\ (result.status = "completed" \/ result.currentSequence >= call.target) ->
         state' = Applied(result, "completed") /\ Finish(call)
    [] OTHER -> state' = StateFrom(result, "running") /\ Continue(call, [call EXCEPT !.at = "wait"])

\* #execute, and the end of stepBackward.
Executed(call, result, completedStatus) ==
  /\ Finish(call)
  /\ state' = IF Current(call) THEN Applied(result, completedStatus) ELSE state

\* What becomes of a call when its step has returned; runTo looks for more.
Stepped(call, next, status) ==
  LET result == Result(next, status, call.target)
  IN  CASE call.kind = "play" -> Played(call, result)
        [] call.kind = "step" -> Executed(call, result, "paused")
        [] call.kind = "run" -> Continue(call, [call EXCEPT !.at = "run"]) /\ UNCHANGED state

\* The engine has nothing to do for the call, or must not.
StepNothing(call) ==
  LET idle == Engine(call)
  IN  /\ call.at \in {"wait", "step"}
      /\ Current(call) \/ call.kind = "step"
      /\ Held(idle) \/ ~HasNext(idle, call.target)
      /\ Stepped(call, idle, IF Held(idle) THEN "paused" ELSE "completed")
      /\ UNCHANGED <<page, log, generation, engine, playback, engines, controls>>

\* A playback that was superseded while it waited.
PlayDropped(call) ==
  /\ call.at = "wait"
  /\ ~Current(call)
  /\ Finish(call)
  /\ UNCHANGED <<page, log, state, generation, engine, playback, engines, controls>>

\* The event and its handler; the step returns at once unless it computes a hash.
StepEvent(call) ==
  LET old == Engine(call)
      next == StepEnd(StepBegin(old), StepFinds(old))
  IN  /\ call.at \in {"wait", "step", "run"}
      /\ call.at = "wait" => Current(call)
      /\ ~Held(old)
      /\ HasNext(old, call.target)
      /\ IF StepHashes(old)
         THEN /\ engines' = [engines EXCEPT ![call.engine] = StepBegin(old)]
              /\ Continue(call, [call EXCEPT !.at = "hash", !.finding = StepFinds(old)])
              /\ UNCHANGED state
         ELSE /\ engines' = [engines EXCEPT ![call.engine] = next]
              /\ Stepped(call, next, StepStatus(next, call.target, StepFinds(old)))
      /\ UNCHANGED <<page, log, generation, engine, playback, controls>>

StepHashed(call) ==
  LET next == StepEnd(Engine(call), call.finding)
  IN  /\ call.at = "hash"
      /\ engines' = [engines EXCEPT ![call.engine] = next]
      /\ Stepped([call EXCEPT !.finding = None], next, StepStatus(next, call.target, call.finding))
      /\ UNCHANGED <<page, log, generation, engine, playback, controls>>

\* runTo: nothing more to do, or the engine was held.
RunEnd(call) ==
  /\ call.at = "run"
  /\ call.target >= Engine(call).startedAt
  /\ Held(Engine(call)) \/ ~HasNext(Engine(call), call.target)
  /\ Executed(call, Result(Engine(call), RunStatus(Engine(call), call.target), call.target), call.ends)
  /\ UNCHANGED <<page, log, generation, engine, playback, engines, controls>>

\* A target before the engine's checkpoint is refused.
RunRefused(call) ==
  /\ call.at = "run"
  /\ call.target < Engine(call).startedAt
  /\ Finish(call)
  /\ state' = IF Current(call) THEN Recovered ELSE state
  /\ UNCHANGED <<page, log, generation, engine, playback, engines, controls>>

CallStep(call) ==
  \/ FlushBegin(call) \/ FlushTasks(call) \/ FlushSave(call) \/ ReadSession(call) \/ ReadEvents(call) \/ ReadCheckpoints(call) \/ CreateFails(call)
  \/ CreateDropped(call) \/ StartPlaying(call) \/ RunBack(call)
  \/ PreviousEnded(call) \/ StepNothing(call) \/ PlayDropped(call)
  \/ StepEvent(call) \/ StepHashed(call) \/ RunEnd(call) \/ RunRefused(call)

Calls == \E call \in calls : CallStep(call)

Next == Page \/ Control \/ Calls

\* The database answers, timers fire and promises settle.
Fairness ==
  /\ WF_vars(Recording)
  /\ WF_vars(Calls)

Spec == Init /\ [][Next]_vars /\ Fairness

-----------------------------------------------------------------------------
(* Correctness.                                                            *)

\* The controller's state, its calls and the coordinator's task are well formed
\* (the fields of ReplayController and the places its methods await).
ReplayTypeOK ==
  /\ state.status \in {"idle", "running", "paused", "completed"}
  /\ state.active <=> state.status # "idle"
  /\ engine \in {0} \cup DOMAIN engines
  /\ engine # 0 => state.active
  /\ \A call \in calls :
       /\ call.generation \in 1 .. generation
       /\ call.kind \in {"start", "back"} <=> Flushing(call) \/ call.at \in {"session", "events", "checkpoints",
                                                                       "create"}
       /\ call.kind \notin {"start", "back"} => call.engine \in DOMAIN engines
  /\ \A one, other \in calls : one.generation = other.generation => one = other
  /\ editor.document \in Values
  /\ Len(recorded) = Len(events)
  /\ stored \in 0 .. Len(events)
  /\ eventCount \in 0 .. Len(events)

\* The page after an event; before the first one, as it was opened.
PageAt(sequence) ==
  IF sequence = 0 THEN [editor |-> NewEditor(InitialValue), session |-> NewSession]
  ELSE recorded[sequence]

\* The fields of the session an engine can know: from a later checkpoint, those
\* createSession restores.
KnownFields(startedAt) == IF startedAt = 0 THEN SessionFields ELSE ReplayedFields

\* What the replay shows is what the page was: unless a difference is reported,
\* the frame's document and the session's fields are those the user saw after the
\* frame's event, whichever engine made it and however its calls overlapped.
\* Excepted are the three settings createSession drops when the engine started at
\* a later checkpoint (CheckpointIsShown), and a frame with an event the
\* snapshot of its engine's checkpoint was already ahead of.
FrameIsRecording ==
  /\ state.frame # None
  /\ state.difference = None
  /\ captured[state.startedAtSequence] <= state.frame.sequence
  =>
  /\ state.frame.document = PageAt(state.frame.sequence).editor.document
  /\ \A field \in KnownFields(state.startedAtSequence) :
       state.frame.session[field] = PageAt(state.frame.sequence).session[field]

\* An event the handlers cannot replay: a setting of the session without a
\* handler; a refused jump, recorded without the index it asked for; a command
\* whose transaction is not where the old history ended; or, from a later
\* checkpoint, anything that depends on the history before it, and a command
\* its snapshot was ahead of.
Unreplayable(event, startedAt) ==
  \/ event.category = "session" /\ event.field \notin ReplayedFields
  \/ event.type = "history.jump" /\ event.status = "failed"
  \/ /\ event.category = "document" /\ event.status = "succeeded"
     /\ \/ /\ ~IsEmptyPatch(event.transaction.forward)
           /\ recorded[event.sequence].cut \/ startedAt > 0
        \/ event.sequence <= captured[startedAt]
  \/ event.category = "history" /\ startedAt > 0

\* A replay that reports a difference stopped at an event of these kinds: of what
\* one page load records with no write that fails, all else replays to its end.
DifferenceExplained ==
  \A number \in DOMAIN engines :
    LET difference == engines[number].difference
    IN  difference # None => Unreplayable(events[difference.sequence], engines[number].startedAt)

\* A paused, completed or stopped replay stays as the user left it until the
\* user asks again: a call that was superseded publishes nothing.
StableUnlessRunning ==
  [][state' # state => generation' # generation \/ state.status = "running"]_vars

\* A replay that runs comes to an end, a pause or an error.
RunningEnds == state.status = "running" ~> state.status # "running"

\* The export of events and checkpoints that were read, with the count read before.
Exported(readEvents, readCheckpoints, count, policy) ==
  Export([sessionId |-> "session", status |-> "active", eventCount |-> count],
         Evaluated([i \in DOMAIN readCheckpoints |->
                     Rehashed(With(readCheckpoints[i], [sessionId |-> "session"]))]),
         Evaluated([i \in DOMAIN readEvents |->
                     With(readEvents[i], [eventId |-> i, sessionId |-> "session"])]),
         policy)

\* What a replay reads exports under either policy to a bundle the import
\* accepts if the session counted the events, and fails to export otherwise: a
\* log that is written to meanwhile is refused and never replayed in part.
BundleRoundTrips ==
  \A call \in {c \in calls : c.at = "create"} :
    \A policy \in {"default-v1", "replay-v1"} :
      LET bundle == Exported(call.events, call.checkpoints, call.count, policy)
      IN  IF Consistent(call) THEN Accepts(bundle) ELSE bundle = None

\* A bundle with a part changed.
DamagedManifests(manifest) ==
  {[manifest EXCEPT !.productVersion = "other"],
   [manifest EXCEPT !.bundleVersion = 1],
   [manifest EXCEPT !.integrity = [@ EXCEPT !.eventCount = @ + 1]]}

DamagedCheckpoints(checkpoints_) ==
  {[checkpoints_ EXCEPT ![1] = [@ EXCEPT !.document = CutUrl]],
   [checkpoints_ EXCEPT ![1] = [@ EXCEPT !.session = With(NewSession, [other |-> 0])]]}

DamagedEvents(events_) ==
  {Append(events_, [eventId |-> 0])}
  \cup {RemoveAt(events_, i) : i \in DOMAIN events_}
  \cup {[events_ EXCEPT ![i] = [@ EXCEPT !.status = "started"]] : i \in DOMAIN events_}

Damaged(bundle) ==
  ({[bundle EXCEPT !.manifest = manifest] : manifest \in DamagedManifests(bundle.manifest)}
   \cup {[bundle EXCEPT !.session = [@ EXCEPT !.status = "abnormal"]]}
   \cup {[bundle EXCEPT !.checkpoints = damaged] : damaged \in DamagedCheckpoints(bundle.checkpoints)}
   \cup {[bundle EXCEPT !.events = damaged] : damaged \in DamagedEvents(bundle.events)})
  \ {bundle}

\* A bundle that was changed anywhere after the export is not imported.
DamageIsRejected ==
  \A call \in {c \in calls : c.at = "create" /\ Consistent(c)} :
    \A bundle \in Damaged(Exported(call.events, call.checkpoints, call.count, "default-v1")) :
      ~Accepts(bundle)

\* The frame a replay begins with is the checkpoint's: the document and the session
\* that were saved.
CheckpointIsShown ==
  state.frame # None /\ state.frame.sequence = state.startedAtSequence =>
    \E i \in DOMAIN checkpoints :
      /\ checkpoints[i].sequence = state.frame.sequence
      /\ checkpoints[i].document = state.frame.document
      /\ checkpoints[i].session = state.frame.session

\* The recorded session replays as it was recorded.
RecordingReplays == \A number \in DOMAIN engines : engines[number].difference = None
=============================================================================

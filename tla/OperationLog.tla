------------------------------ MODULE OperationLog ------------------------------
(***************************************************************************)
(* One editing session recorded to the operation log: the recorder's queue *)
(* (packages/operation-log/src/recorder.ts), the coordinator's document    *)
(* events, checkpoints, flush and end (coordinator.ts), the database they  *)
(* write to (indexeddb-store.ts), and the page that starts, disposes and   *)
(* reloads them (apps/playground/src/main.ts).                             *)
(*                                                                         *)
(* The three promise chains - recorder.#pending, coordinator.#pending and  *)
(* coordinator.#lifecyclePending - are queues whose head runs; an action   *)
(* is what one task does between two awaits.  A write that was handed to   *)
(* the database is in flight until it commits, fails, or dies with the     *)
(* page.  A document is the sequence of the edits that made it, counted    *)
(* from the scenario every page load begins with; the initial document is  *)
(* << >>.  An edit is a command that changed something or a move through   *)
(* the undo history.                                                       *)
(***************************************************************************)
EXTENDS Integers, Sequences, SequencesExt

CONSTANTS
  CheckpointEvery,  \* document events between checkpoints (100 in the code)
  MaxOperations,    \* bounds: the user's operations in all page loads,
  MaxFlushes,       \*   flushes asked by a page that is hidden,
  MaxLoads,         \*   page loads
  MaxFailures,      \*   and database writes that fail
  NoSession, NoWrite, NoEvent

ASSUME OperationLogAssumption ==
  /\ CheckpointEvery \in Nat \ {0}
  /\ {MaxOperations, MaxFlushes, MaxLoads, MaxFailures} \subseteq Nat

VARIABLES
  events, session, checkpoints,   \* the database
  page,                           \* what the page is doing
  document,                       \* the document in the live editor
  used,                           \* how much of each bound is used up
  queue,                          \* recorder: inputs, the first being recorded
  sequence,                       \*   the last number given out
  appending,                      \*   the event handed to the database
  summary,                        \* coordinator: its own OperationSession
  tasks,                          \*   documentEvent calls, the first running
  task,                           \*   where that one stands
  sinceCheckpoint,
  ended,
  write,                          \*   the session write it has in flight
  lifecycle,                      \* flush and end calls, the first running
  step,                           \*   where that one stands
  awaited,                        \*   tasks or inputs it still waits for
  lifecycleWrite                  \*   the session write it has in flight

database == <<events, session, checkpoints>>
host == <<page, document, used>>
recorder == <<queue, sequence, appending>>
coordinator == <<summary, tasks, task, sinceCheckpoint, ended, write>>
calls == <<lifecycle, step, awaited, lifecycleWrite>>
vars == <<database, host, recorder, coordinator, calls>>

Documents == Seq(1 .. MaxOperations)

\* A succeeded document.command, told apart by whether it changed anything.
DocumentEvent == {"document.command", "document.unchanged"}

\* "other" are the events nothing below depends on: a command's start and
\* failure, a history move that was refused, session and workspace operations.
EventType == DocumentEvent \cup
  {"system.sessionStarted", "history", "other", "system.checkpoint", "system.sessionEnded"}

Input == [type: EventType, document: Documents]

Event == [sequence: Nat, type: EventType, document: Documents]

Session == [status: {"active", "ended", "abnormal"}, eventCount: Nat]

Checkpoint == [sequence: Nat, document: Documents]

Call == [by: {"hidden", "dispose", "end"}, document: Documents]

\* No event being stored is told from any that is.
ASSUME NoEventAssumption == NoEvent \notin Event

TypeOK ==
  /\ events \in Seq(Event)
  /\ session \in Session \cup {NoSession}
  /\ checkpoints \subseteq Checkpoint
  /\ page \in {"closed", "disposed", "recovering", "restoring", "checkpointing",
               "starting", "open", "disposing", "ending"}
  /\ document \in Documents
  /\ used \in [operations: 0 .. MaxOperations, flushes: 0 .. MaxFlushes,
               loads: 0 .. MaxLoads, failures: 0 .. MaxFailures]
  /\ queue \in Seq(Input)
  /\ sequence \in Nat
  /\ appending \in Event \cup {NoEvent}
  /\ summary \in Session
  /\ tasks \in Nat
  /\ task \in {"idle", "start", "session", "due", "recording", "checkpoint", "final"}
  /\ sinceCheckpoint \in Nat
  /\ ended \in BOOLEAN
  /\ write \in Session \cup Checkpoint \cup {NoWrite}
  /\ lifecycle \in Seq(Call)
  /\ step \in {"idle", "tasks", "inputs", "event", "session"}
  /\ awaited \in Nat
  /\ lifecycleWrite \in Session \cup {NoWrite}

Used(bound) == [used EXCEPT ![bound] = @ + 1]

\* The memory of a page that has not begun to record.
ResetMemory ==
  /\ document' = << >>
  /\ queue' = << >>
  /\ sequence' = 0
  /\ appending' = NoEvent
  /\ summary' = [status |-> "active", eventCount |-> 0]
  /\ tasks' = 0
  /\ task' = "idle"
  /\ sinceCheckpoint' = 0
  /\ ended' = FALSE
  /\ write' = NoWrite
  /\ lifecycle' = << >>
  /\ step' = "idle"
  /\ awaited' = 0
  /\ lifecycleWrite' = NoWrite

Init ==
  /\ events = << >>
  /\ session = NoSession
  /\ checkpoints = {}
  /\ page = "closed"
  /\ used = [operations |-> 0, flushes |-> 0, loads |-> 0, failures |-> 0]
  /\ document = << >>
  /\ queue = << >>
  /\ sequence = 0
  /\ appending = NoEvent
  /\ summary = [status |-> "active", eventCount |-> 0]
  /\ tasks = 0
  /\ task = "idle"
  /\ sinceCheckpoint = 0
  /\ ended = FALSE
  /\ write = NoWrite
  /\ lifecycle = << >>
  /\ step = "idle"
  /\ awaited = 0
  /\ lifecycleWrite = NoWrite

-----------------------------------------------------------------------------
(* The recorder.                                                           *)

PlainInput(type) == [type |-> type, document |-> << >>]

\* A checkpoint's factory captures the live document when its turn comes; any
\* other input was captured when it was observed.
Captured(input) == IF input.type = "system.checkpoint" THEN document ELSE input.document

\* #append up to the call of the store: the number is given out first.
AppendBegin ==
  /\ queue # << >>
  /\ appending = NoEvent
  /\ sequence' = sequence + 1
  /\ appending' = [sequence |-> sequence + 1, type |-> Head(queue).type,
                   document |-> Captured(Head(queue))]
  /\ UNCHANGED <<database, host, queue, coordinator, calls>>

LastSequence == IF events = << >> THEN 0 ELSE Last(events).sequence

\* A store that takes events in any order.
AnyOrder(event) == event.sequence > LastSequence

\* validateAppendBatch.
Contiguous(event) == event.sequence = LastSequence + 1

OneLess(n) == IF n > 0 THEN n - 1 ELSE 0

\* A checkpoint numbered by the session's event count.
CheckpointAfterSession(event) ==
  [sequence |-> summary.eventCount + 1, document |-> event.document]

\* The checkpoint that goes with a checkpoint event.
CheckpointOf(event) == [sequence |-> event.sequence, document |-> event.document]

\* The event is recorded as far as the recorder is concerned, stored or not:
\* whoever waits for its promise goes on.
Recorded ==
  /\ queue' = Tail(queue)
  /\ appending' = NoEvent
  /\ awaited' = IF step \in {"inputs", "event"} THEN OneLess(awaited) ELSE awaited
  /\ tasks' = IF appending.type \in DocumentEvent THEN tasks + 1 ELSE tasks
  /\ CASE appending.type = "system.checkpoint" ->
            /\ task' = "checkpoint"
            /\ write' = CheckpointOf(appending)
            /\ UNCHANGED summary
       [] appending.type = "system.sessionStarted" ->
            /\ summary' = [summary EXCEPT !.eventCount = appending.sequence]
            /\ task' = "start"
            /\ write' = summary'
       [] OTHER -> UNCHANGED <<task, write, summary>>
  /\ UNCHANGED <<session, checkpoints, page, document, sequence, sinceCheckpoint, ended,
                 lifecycle, step, lifecycleWrite>>

AppendCommit ==
  /\ appending # NoEvent
  /\ Contiguous(appending)
  /\ events' = Append(events, appending)
  /\ Recorded
  /\ UNCHANGED used

\* The store refuses the event, or fails; the recorder only reports it.
AppendReject ==
  /\ appending # NoEvent
  /\ ~Contiguous(appending)
  /\ Recorded
  /\ UNCHANGED <<events, used>>

AppendFail ==
  /\ appending # NoEvent
  /\ used.failures < MaxFailures
  /\ used' = Used("failures")
  /\ Recorded
  /\ UNCHANGED events

-----------------------------------------------------------------------------
(* The coordinator's document events.                                      *)

FinishTask ==
  /\ tasks' = tasks - 1
  /\ task' = "idle"
  /\ write' = NoWrite
  /\ awaited' = IF step = "tasks" THEN OneLess(awaited) ELSE awaited

\* A call that never settles once the session has ended.
TaskSkippedUnsettled ==
  /\ tasks > 0
  /\ task = "idle"
  /\ ended
  /\ tasks' = tasks - 1
  /\ UNCHANGED <<database, host, recorder, summary, task, sinceCheckpoint, ended, write, calls>>

TaskSkipped ==
  /\ tasks > 0
  /\ task = "idle"
  /\ ended
  /\ FinishTask
  /\ UNCHANGED <<database, host, recorder, summary, sinceCheckpoint, ended, lifecycle,
                 step, lifecycleWrite>>

\* The clock is asked whether the time limit has passed.
TaskBegin ==
  /\ tasks > 0
  /\ task = "idle"
  /\ ~ended
  /\ sinceCheckpoint' = sinceCheckpoint + 1
  /\ summary' = [summary EXCEPT !.eventCount = sequence]
  /\ write' = summary'
  /\ \E elapsed \in BOOLEAN :
       task' = IF elapsed \/ sinceCheckpoint' >= CheckpointEvery THEN "due" ELSE "session"
  /\ UNCHANGED <<database, host, recorder, tasks, ended, calls>>

TaskSessionCommit ==
  /\ task \in {"session", "final"}
  /\ session' = write
  /\ FinishTask
  /\ UNCHANGED <<events, checkpoints, host, recorder, summary, sinceCheckpoint, ended,
                 lifecycle, step, lifecycleWrite>>

\* #writeCheckpoint: the checkpoint event queues behind all that is queued.
TaskCheckpointAsked ==
  /\ task = "due"
  /\ session' = write
  /\ write' = NoWrite
  /\ task' = "recording"
  /\ queue' = Append(queue, PlainInput("system.checkpoint"))
  /\ UNCHANGED <<events, checkpoints, host, sequence, appending, summary, tasks,
                 sinceCheckpoint, ended, calls>>

\* putCheckpoint replaces a checkpoint with the same number.
WithCheckpoint(c) == {d \in checkpoints : d.sequence # c.sequence} \cup {c}

TaskCheckpointCommit ==
  /\ task = "checkpoint"
  /\ checkpoints' = WithCheckpoint(write)
  /\ summary' = [summary EXCEPT !.eventCount = write.sequence]
  /\ sinceCheckpoint' = 0
  /\ write' = summary'
  /\ task' = "final"
  /\ UNCHANGED <<events, session, host, recorder, tasks, ended, calls>>

TaskWriteFail ==
  /\ task \in {"session", "due", "checkpoint", "final"}
  /\ used.failures < MaxFailures
  /\ used' = Used("failures")
  /\ FinishTask
  /\ UNCHANGED <<database, page, document, recorder, summary, sinceCheckpoint, ended,
                 lifecycle, step, lifecycleWrite>>

-----------------------------------------------------------------------------
(* flush and end, one at a time (#enqueueLifecycle).                       *)

Ask(by) == lifecycle' = Append(lifecycle, [by |-> by, document |-> document])

\* A call that does not wait for the document events under way.
CallBeginAtOnce ==
  /\ lifecycle # << >>
  /\ step = "idle"
  /\ step' = "tasks"
  /\ awaited' = 0
  /\ ended' = (ended \/ Head(lifecycle).by = "end")
  /\ UNCHANGED <<database, host, recorder, summary, tasks, task, sinceCheckpoint, write,
                 lifecycle, lifecycleWrite>>

CallBegin ==
  /\ lifecycle # << >>
  /\ step = "idle"
  /\ step' = "tasks"
  /\ awaited' = tasks
  /\ ended' = (ended \/ Head(lifecycle).by = "end")
  /\ UNCHANGED <<database, host, recorder, summary, tasks, task, sinceCheckpoint, write,
                 lifecycle, lifecycleWrite>>

\* A flush that goes on before the recorder is done.
AwaitNoInputs ==
  /\ step = "tasks"
  /\ awaited = 0
  /\ step' = "inputs"
  /\ UNCHANGED <<database, host, recorder, coordinator, lifecycle, awaited, lifecycleWrite>>

\* A flush that does not wait for the input being recorded.
AwaitOthers ==
  /\ step = "tasks"
  /\ awaited = 0
  /\ step' = "inputs"
  /\ awaited' = Len(queue) - 1
  /\ UNCHANGED <<database, host, recorder, coordinator, lifecycle, lifecycleWrite>>

\* recorder.flush.
AwaitInputs ==
  /\ step = "tasks"
  /\ awaited = 0
  /\ step' = "inputs"
  /\ awaited' = Len(queue)
  /\ UNCHANGED <<database, host, recorder, coordinator, lifecycle, lifecycleWrite>>

CallDone ==
  /\ lifecycle' = Tail(lifecycle)
  /\ step' = "idle"
  /\ lifecycleWrite' = NoWrite
  /\ UNCHANGED awaited

FlushNothing ==
  /\ step = "inputs"
  /\ awaited = 0
  /\ Head(lifecycle).by # "end"
  /\ summary.eventCount = sequence
  /\ CallDone
  /\ UNCHANGED <<database, host, recorder, coordinator>>

FlushWrite ==
  /\ step = "inputs"
  /\ awaited = 0
  /\ Head(lifecycle).by # "end"
  /\ summary.eventCount # sequence
  /\ summary' = [summary EXCEPT !.eventCount = sequence]
  /\ lifecycleWrite' = summary'
  /\ step' = "session"
  /\ UNCHANGED <<database, host, recorder, tasks, task, sinceCheckpoint, ended, write,
                 lifecycle, awaited>>

EndRecord ==
  /\ step = "inputs"
  /\ awaited = 0
  /\ Head(lifecycle).by = "end"
  /\ queue' = Append(queue, PlainInput("system.sessionEnded"))
  /\ step' = "event"
  /\ awaited' = Len(queue')
  /\ UNCHANGED <<database, host, sequence, appending, coordinator, lifecycle, lifecycleWrite>>

\* An end that keeps the event count of the last document event.
EndWriteKeepingCount ==
  /\ step = "event"
  /\ awaited = 0
  /\ summary' = [summary EXCEPT !.status = "ended"]
  /\ lifecycleWrite' = summary'
  /\ step' = "session"
  /\ UNCHANGED <<database, host, recorder, tasks, task, sinceCheckpoint, ended, write,
                 lifecycle, awaited>>

\* Nothing is recorded after the session's last event, so its number is the
\* recorder's and the second flush of end has nothing to wait for.
EndWrite ==
  /\ step = "event"
  /\ awaited = 0
  /\ summary' = [status |-> "ended",
                 eventCount |-> IF summary.eventCount > sequence
                                THEN summary.eventCount ELSE sequence]
  /\ lifecycleWrite' = summary'
  /\ step' = "session"
  /\ UNCHANGED <<database, host, recorder, tasks, task, sinceCheckpoint, ended, write,
                 lifecycle, awaited>>

CallCommit ==
  /\ step = "session"
  /\ session' = lifecycleWrite
  /\ CallDone
  /\ UNCHANGED <<events, checkpoints, host, recorder, coordinator>>

CallWriteFail ==
  /\ step = "session"
  /\ used.failures < MaxFailures
  /\ used' = Used("failures")
  /\ CallDone
  /\ UNCHANGED <<database, page, document, recorder, coordinator>>

-----------------------------------------------------------------------------
(* The page.                                                               *)

Load ==
  /\ page \in {"closed", "disposed"}
  /\ used.loads < MaxLoads
  /\ used' = Used("loads")
  /\ page' = "recovering"
  /\ UNCHANGED <<database, document, recorder, coordinator, calls>>

\* OperationLogCoordinator.recover.
Recover ==
  /\ page = "recovering"
  /\ session' = IF session # NoSession /\ session.status = "active"
                THEN [session EXCEPT !.status = "abnormal"] ELSE session
  /\ page' = "restoring"
  /\ UNCHANGED <<events, checkpoints, document, used, recorder, coordinator, calls>>

StoredCount == IF session = NoSession THEN 0 ELSE session.eventCount

\* A recorder that trusts the session's event count.
RestoreFromSession ==
  /\ page = "restoring"
  /\ sequence' = StoredCount
  /\ page' = "checkpointing"
  /\ UNCHANGED <<database, document, used, queue, appending, coordinator, calls>>

\* The recorder goes on from the greater of the two numbers stored.
Restore ==
  /\ page = "restoring"
  /\ sequence' = IF StoredCount > LastSequence THEN StoredCount ELSE LastSequence
  /\ page' = "checkpointing"
  /\ UNCHANGED <<database, document, used, queue, appending, coordinator, calls>>

\* Checkpoint 0 is written anew by every load; then the coordinator starts.
PutInitialCheckpoint ==
  /\ page = "checkpointing"
  /\ checkpoints' = WithCheckpoint([sequence |-> 0, document |-> document])
  /\ page' = "starting"
  /\ queue' = <<PlainInput("system.sessionStarted")>>
  /\ UNCHANGED <<events, session, document, used, sequence, appending, coordinator, calls>>

Started ==
  /\ task = "start"
  /\ session' = write
  /\ write' = NoWrite
  /\ task' = "idle"
  /\ page' = "open"
  /\ UNCHANGED <<events, checkpoints, document, used, recorder, summary, tasks,
                 sinceCheckpoint, ended, calls>>

Usable == page \in {"open", "disposing"}

\* An edit is known by the number of the operation.
Edited == Append(document, used.operations + 1)

\* dispatch: the operation observer sees the command started, and then succeeded,
\* with a change or without one.  A command that fails is two Other operations.
Command ==
  /\ Usable
  /\ used.operations < MaxOperations
  /\ used' = Used("operations")
  /\ \E type \in DocumentEvent :
       /\ document' = IF type = "document.command" THEN Edited ELSE document
       /\ queue' = queue \o <<PlainInput("other"), [type |-> type, document |-> document']>>
  /\ UNCHANGED <<database, page, sequence, appending, coordinator, calls>>

\* undo, redo and jump, once there is a history to move in, are recorded but
\* are no document event.
HistoryMove ==
  /\ Usable
  /\ document # << >>
  /\ used.operations < MaxOperations
  /\ used' = Used("operations")
  /\ document' = Edited
  /\ queue' = Append(queue, [type |-> "history", document |-> Edited])
  /\ UNCHANGED <<database, page, sequence, appending, coordinator, calls>>

\* Session and workspace operations.
Other ==
  /\ Usable
  /\ used.operations < MaxOperations
  /\ used' = Used("operations")
  /\ queue' = Append(queue, PlainInput("other"))
  /\ UNCHANGED <<database, page, document, sequence, appending, coordinator, calls>>

\* The listener is there from the coordinator's construction to the end.
Hide ==
  /\ \/ page \in {"starting", "open", "disposing"}
     \/ page = "ending" /\ lifecycle # << >>
  /\ used.flushes < MaxFlushes
  /\ used' = Used("flushes")
  /\ Ask("hidden")
  /\ UNCHANGED <<database, page, document, recorder, coordinator, step, awaited, lifecycleWrite>>

Calling(by) == \E i \in DOMAIN lifecycle : lifecycle[i].by = by

\* dispose: a flush, then the editor is unmounted and the session ended.
Dispose ==
  /\ page = "open"
  /\ page' = "disposing"
  /\ Ask("dispose")
  /\ UNCHANGED <<database, document, used, recorder, coordinator, step, awaited, lifecycleWrite>>

DisposeEnd ==
  /\ page = "disposing"
  /\ ~Calling("dispose")
  /\ page' = "ending"
  /\ Ask("end")
  /\ UNCHANGED <<database, document, used, recorder, coordinator, step, awaited, lifecycleWrite>>

\* store.close.
Close ==
  /\ page = "ending"
  /\ ~Calling("end")
  /\ page' = "disposed"
  /\ ResetMemory
  /\ UNCHANGED <<database, used>>

\* The page goes away at any moment: closed, reloaded, or its start failed.
Crash ==
  /\ page \notin {"closed", "disposed"}
  /\ page' = "closed"
  /\ ResetMemory
  /\ UNCHANGED <<database, used>>

-----------------------------------------------------------------------------

\* What runs by itself: promise continuations and database writes that settle.
Progress ==
  \/ AppendBegin \/ AppendCommit \/ AppendReject \/ AppendFail
  \/ TaskSkipped \/ TaskBegin \/ TaskSessionCommit \/ TaskCheckpointAsked
  \/ TaskCheckpointCommit \/ TaskWriteFail
  \/ CallBegin \/ AwaitInputs \/ FlushNothing \/ FlushWrite \/ EndRecord \/ EndWrite
  \/ CallCommit \/ CallWriteFail
  \/ Recover \/ Restore \/ PutInitialCheckpoint \/ Started \/ DisposeEnd \/ Close

\* What the user and the browser do.
Environment == Load \/ Command \/ HistoryMove \/ Other \/ Hide \/ Dispose \/ Crash

Next == Progress \/ Environment

Spec == Init /\ [][Next]_vars /\ WF_vars(Progress)

-----------------------------------------------------------------------------
(* Properties.                                                             *)

IsEdit(event) == event.type \in {"document.command", "history"}

\* Every edit of d is in the log.
Logged(d, log) == \A edit \in Range(d) : \E i \in DOMAIN log :
                    IsEdit(log[i]) /\ Last(log[i].document) = edit

\* The log never has a hole: when an edit is stored, so is every edit before it
\* of the same page load, in order, whatever writes failed on the way.
NoHoles ==
  \A i \in DOMAIN events : IsEdit(events[i]) => Logged(events[i].document, SubSeq(events, 1, i))

\* While no write has failed, a stored checkpoint is the one its own event in
\* the log announces, and it lacks no edit that the log has before it: every
\* edit event between the start of the page load and the checkpoint is part of
\* the checkpoint's document.
CheckpointNotBehind ==
  used.failures = 0 /\ used.loads = 1 =>
    \A c \in checkpoints : c.sequence > 0 =>
      /\ c.sequence \in DOMAIN events
      /\ events[c.sequence].type = "system.checkpoint"
      /\ \A i \in 1 .. c.sequence :
           IsEdit(events[i]) => IsPrefix(events[i].document, c.document)

\* A recorder never starts behind the log it continues, however stale the
\* session's own event count is: a reload never reuses a stored number.
RecorderNotBehind ==
  page \in {"starting", "open", "disposing", "ending"} => sequence >= LastSequence

\* No number was given out for an event that the store did not take.
InStep == sequence = LastSequence + (IF appending = NoEvent THEN 0 ELSE 1)

\* When a flush settles, every edit made before it was asked for is stored,
\* unless the store lost an event.
FlushCovers ==
  [][lifecycle # << >> /\ lifecycle' = Tail(lifecycle) /\ page' # "closed" /\ InStep =>
       Logged(Head(lifecycle).document, events')]_vars

\* When dispose has closed the store and no write failed, the session is ended,
\* its event count is the length of the log, the log ends with the session's
\* end and holds every edit of the document.
CleanCloseIsComplete ==
  [][page # "disposed" /\ page' = "disposed" /\ InStep /\ used.failures = 0 =>
       /\ session = [status |-> "ended", eventCount |-> Len(events)]
       /\ Last(events).type = "system.sessionEnded"
       /\ Logged(document, events)]_vars

\* An ended session is not made active again by a write that was under way.
EndedIsFinal ==
  [][(page \in {"open", "disposing", "ending"} /\ session.status = "ended") =>
       session'.status = "ended"]_vars

\* flush and end always settle: the three chains never wait for each other in
\* a ring.
CallsSettle == lifecycle # << >> ~> lifecycle = << >>

-----------------------------------------------------------------------------
(* What the design document says of the log, and the code does not do.     *)

\* A checkpoint is the document at its own place in the log: every edit in it
\* is logged before it, so that a replay may start there.
CheckpointMatchesLog ==
  \A i \in DOMAIN events :
    events[i].type = "system.checkpoint" => Logged(events[i].document, SubSeq(events, 1, i))

\* A write that fails now and then does not end the recording: no event is
\* refused because of the number it was given.
RecordingGoesOn == appending # NoEvent => Contiguous(appending)

\* The document a replay of the first n events arrives at when it starts from
\* the initial checkpoint: system events do not touch it.
Replayed(n) ==
  LET edits == SelectSeq(SubSeq(events, 1, n), IsEdit)
  IN [i \in DOMAIN edits |-> Last(edits[i].document)]

\* The log of a session, reloaded or not, can be replayed: up to any edit with
\* no later checkpoint to start from, the replay shows what the user saw.
ReplayReconstructs ==
  \A i \in DOMAIN events :
    IsEdit(events[i]) /\ (\A c \in checkpoints : c.sequence > 0 => c.sequence >= i) =>
      Replayed(i) = events[i].document
=============================================================================

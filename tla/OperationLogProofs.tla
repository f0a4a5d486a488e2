--------------------------- MODULE OperationLogProofs ---------------------------
(***************************************************************************)
(* Theorems about OperationLog, for any bounds and any checkpoint interval. *)
(*                                                                         *)
(* LogInv is the invariant; it is inductive.  Its parts follow the actors: *)
(* the page's memory, the numbers the recorder gives out, the coordinator's*)
(* tasks, the calls of flush and end, the end, the stored session, the     *)
(* edits on their way to the log, and the first page load.  There is a     *)
(* lemma per part, saying that a step keeps it; each first tells the steps *)
(* of a page that has its recorder (Inside) from the others (StepCases).   *)
(***************************************************************************)
EXTENDS OperationLog, SequenceTheorems, TLAPS

\* The page has a recorder: its start has come to the coordinator's.
Working == page \in {"starting", "open", "disposing", "ending"}

\* A page that has none, has nothing in its memory but the restored number.
MemoryInv ==
  ~Working =>
    /\ document = << >> /\ queue = << >> /\ appending = NoEvent
    /\ summary = [status |-> "active", eventCount |-> 0]
    /\ tasks = 0 /\ task = "idle" /\ ~ended
    /\ lifecycle = << >> /\ step = "idle"

\* The log is numbered from 1, the recorder is at its end or ahead of it, and what
\* is being stored is the first input with the recorder's number.
NumbersInv ==
  /\ \A i \in 1 .. Len(events) : events[i].sequence = i
  /\ Working \/ page = "checkpointing" =>
       sequence >= Len(events) + (IF appending = NoEvent THEN 0 ELSE 1)
  /\ appending # NoEvent =>
       /\ queue # << >>
       /\ appending.sequence = sequence
       /\ appending.type = Head(queue).type
       /\ appending.type # "system.checkpoint" => appending.document = Head(queue).document

\* What a running task has in flight, and that it has at most one checkpoint queued,
\* the coordinator's start being the only input of a page that starts.
TaskInv ==
  /\ task \in {"start", "session", "due", "final"} => write \in Session /\ write.status = "active"
  /\ task = "checkpoint" => write \in Checkpoint /\ write.sequence <= sequence
  /\ task \notin {"idle", "start"} => tasks > 0
  /\ \A i \in 1 .. Len(queue) : queue[i].type = "system.checkpoint" => task = "recording"
  /\ \A i, j \in 1 .. Len(queue) :
       queue[i].type = "system.checkpoint" /\ queue[j].type = "system.checkpoint" => i = j
  /\ page = "starting" =>
       /\ tasks = 0
       /\ \/ queue = <<PlainInput("system.sessionStarted")>> /\ task = "idle"
          \/ queue = << >> /\ task = "start"
  /\ page # "starting" =>
       /\ task # "start"
       /\ \A i \in 1 .. Len(queue) : queue[i].type # "system.sessionStarted"
  /\ Working => summary.eventCount <= sequence

\* The call that runs is the first, and one of them at most is the end.
CallsInv ==
  /\ step # "idle" => lifecycle # << >>
  /\ step = "session" => lifecycleWrite \in Session
  /\ step = "event" => Head(lifecycle).by = "end"
  /\ page # "ending" => ~ended /\ \A i \in 1 .. Len(lifecycle) : lifecycle[i].by # "end"
  /\ \A i, j \in 1 .. Len(lifecycle) : lifecycle[i].by = "end" /\ lifecycle[j].by = "end" => i = j

\* The end is under way, has settled, has written its session.
Ending == lifecycle # << >> /\ Head(lifecycle).by = "end" /\ step # "idle"

EndDone == page = "ending" /\ \A i \in 1 .. Len(lifecycle) : lifecycle[i].by # "end"

EndWritten == EndDone \/ (Ending /\ step = "session")

\* The log ends with the session's end, unless the store lost an event.
LogEnds == InStep => Len(events) > 0 /\ events[Len(events)].type = "system.sessionEnded"

\* From the moment the end has waited for the tasks nothing writes the session but
\* itself, and what it writes is the session's end.
EndInv ==
  /\ ended <=> Ending \/ EndDone
  /\ Ending /\ step = "tasks" => (task # "idle" => awaited > 0)
  /\ EndDone \/ (Ending /\ step # "tasks") => task = "idle"
  /\ step = "event" =>
       /\ awaited = Len(queue)
       /\ queue # << >> => queue[Len(queue)].type = "system.sessionEnded"
       /\ queue = << >> => LogEnds
  /\ EndWritten =>
       /\ queue = << >>
       /\ summary = [status |-> "ended", eventCount |-> sequence]
       /\ LogEnds
  /\ ~EndWritten => summary.status = "active"
  /\ step = "session" =>
       lifecycleWrite.status = summary.status /\ (ended => lifecycleWrite = summary)

SessionInv ==
  /\ page \in {"open", "disposing", "ending"} =>
       session \in Session /\ (session.status = "ended" => EndDone)
  /\ EndDone /\ used.failures = 0 => session = summary

\* The edit is in the log, or among the first n inputs.
HeldIn(edit, log, inputs, n) ==
  \/ \E j \in 1 .. Len(log) : IsEdit(log[j]) /\ Last(log[j].document) = edit
  \/ \E j \in 1 .. n : IsEdit(inputs[j]) /\ Last(inputs[j].document) = edit

Held(edit, n) == HeldIn(edit, events, queue, n)

\* As long as the store lost no event, every edit of the document is in the log or
\* queued, those of an edit's own document before it, and those that a flush was
\* asked for among what it still waits for.
HeldInv ==
  InStep =>
    /\ \A edit \in Range(document) : Held(edit, Len(queue))
    /\ \A i \in 1 .. Len(queue) : IsEdit(queue[i]) =>
         \A edit \in Range(queue[i].document) : Held(edit, i)
    /\ \A i \in 1 .. Len(lifecycle) : Range(lifecycle[i].document) \subseteq Range(document)
    /\ step \in {"inputs", "event"} =>
         /\ awaited <= Len(queue)
         /\ \A edit \in Range(Head(lifecycle).document) : Held(edit, awaited)
    /\ step = "session" => \A edit \in Range(Head(lifecycle).document) : Held(edit, 0)

\* In the first page load, as long as no write failed, nothing is lost, and every
\* edit's document is the beginning of what came later.
FirstLoad == used.failures = 0 /\ used.loads <= 1

Before(log, document_) == \A i \in 1 .. Len(log) : IsEdit(log[i]) => IsPrefix(log[i].document, document_)

FirstLoadInv ==
  FirstLoad =>
    /\ used.loads = 0 => page = "closed"
    /\ Working => InStep /\ Before(events, document) /\ Before(queue, document)
    /\ used.loads = 0 \/ page \in {"recovering", "restoring", "checkpointing"} =>
         events = << >> /\ session = NoSession /\ checkpoints = {}
    /\ page = "checkpointing" => sequence = 0
    /\ appending # NoEvent /\ appending.type = "system.checkpoint" =>
         Before(events, appending.document)
    /\ task = "checkpoint" =>
         /\ write.sequence \in 1 .. Len(events)
         /\ events[write.sequence].type = "system.checkpoint"
         /\ \A i \in 1 .. write.sequence : IsEdit(events[i]) => IsPrefix(events[i].document, write.document)

LogInv ==
  /\ TypeOK /\ MemoryInv /\ NumbersInv /\ TaskInv /\ CallsInv /\ EndInv /\ SessionInv
  /\ HeldInv /\ NoHoles /\ FirstLoadInv /\ CheckpointNotBehind

-----------------------------------------------------------------------------
(* Types.                                                                  *)

LEMMA PlainInputIsInput == \A type \in EventType : PlainInput(type) \in Input
BY DEF PlainInput, Input, Documents

\* What the recorder's and the coordinator's queues do to a sequence.
LEMMA TailFacts ==
  ASSUME NEW S, NEW s \in Seq(S), s # << >>
  PROVE  /\ Tail(s) \in Seq(S) /\ Len(s) \in Nat /\ Len(s) > 0 /\ Len(Tail(s)) = Len(s) - 1
         /\ Head(s) = s[1] /\ Head(s) \in S
         /\ \A i \in 1 .. Len(s) - 1 : Tail(s)[i] = s[i + 1]
BY HeadTailProperties, EmptySeq, LenProperties, ElementOfSeq

LEMMA AppendFacts ==
  ASSUME NEW S, NEW s \in Seq(S), NEW e \in S
  PROVE  /\ Append(s, e) \in Seq(S) /\ Len(s) \in Nat /\ Len(Append(s, e)) = Len(s) + 1
         /\ Append(s, e) # << >>
         /\ Append(s, e)[Len(s) + 1] = e
         /\ \A i \in 1 .. Len(s) : Append(s, e)[i] = s[i]
         /\ s # << >> => Head(Append(s, e)) = Head(s)
  <1>1. Append(s, e) \in Seq(S) /\ Append(s, e) # << >> /\ Len(Append(s, e)) = Len(s) + 1
        /\ Append(s, e)[Len(s) + 1] = e /\ \A i \in 1 .. Len(s) : Append(s, e)[i] = s[i]
    BY AppendProperties
  <1>2. Len(s) \in Nat /\ (s # << >> => Len(s) > 0)
    BY LenProperties, EmptySeq
  <1>3. s # << >> => Head(s) = s[1] /\ Head(Append(s, e)) = Append(s, e)[1]
    BY <1>1, TailFacts
  <1> QED
    BY <1>1, <1>2, <1>3

Bounds == [operations: 0 .. MaxOperations, flushes: 0 .. MaxFlushes,
           loads: 0 .. MaxLoads, failures: 0 .. MaxFailures]

LEMMA UsedStays ==
  ASSUME used \in Bounds
  PROVE  /\ used.operations < MaxOperations => Used("operations") \in Bounds
         /\ used.flushes < MaxFlushes => Used("flushes") \in Bounds
         /\ used.loads < MaxLoads => Used("loads") \in Bounds
         /\ used.failures < MaxFailures => Used("failures") \in Bounds
BY OperationLogAssumption DEF Bounds, Used

LEMMA LastSequenceIsNat ==
  ASSUME events \in Seq(Event)
  PROVE  LastSequence \in Nat /\ (events # << >> => LastSequence = events[Len(events)].sequence)
  <1>1. CASE events = << >>
    BY <1>1 DEF LastSequence
  <1>2. CASE events # << >>
    <2>1. Len(events) \in 1 .. Len(events)
      BY <1>2, LenProperties, EmptySeq
    <2>2. events[Len(events)] \in Event
      BY <2>1, ElementOfSeq
    <2> QED
      BY <1>2, <2>2 DEF LastSequence, Last, Event
  <1> QED
    BY <1>1, <1>2

LEMMA TypesStay ==
  ASSUME LogInv, Next
  PROVE  TypeOK'
<1> USE DEF database, host, recorder, coordinator, calls
<1>t. TypeOK /\ MemoryInv /\ NumbersInv /\ TaskInv /\ CallsInv
  BY DEF LogInv
<1>u. used \in Bounds /\ (used' \in Bounds <=> used' \in [operations: 0 .. MaxOperations,
        flushes: 0 .. MaxFlushes, loads: 0 .. MaxLoads, failures: 0 .. MaxFailures])
  BY <1>t DEF TypeOK, Bounds
<1> USE <1>t
<1>1. CASE AppendBegin
  <2>1. Head(queue) \in Input
    BY <1>1 DEF AppendBegin, TypeOK
  <2>2. appending' \in Event
    BY <2>1, <1>1 DEF AppendBegin, TypeOK, Input, Event, Captured
  <2> QED
    BY <2>2, <1>1 DEF AppendBegin, TypeOK
<1>2. CASE AppendCommit \/ AppendReject \/ AppendFail
  <2>1. Recorded /\ appending \in Event /\ queue # << >>
    BY <1>2 DEF AppendCommit, AppendReject, AppendFail, TypeOK, NumbersInv
  <2>2. events' \in Seq(Event)
    <3>1. Append(events, appending) \in Seq(Event)
      BY <1>t, <2>1, AppendFacts DEF TypeOK
    <3> QED
      BY <1>2, <1>t, <3>1 DEF AppendCommit, AppendReject, AppendFail, TypeOK
  <2>u. used' \in Bounds
    BY <1>2, <1>u, UsedStays DEF AppendCommit, AppendReject, AppendFail
  <2>3. queue' \in Seq(Input) /\ awaited' \in Nat /\ tasks' \in Nat
    <3>1. queue' \in Seq(Input)
      BY <2>1, TailFacts DEF Recorded, TypeOK
    <3>t. awaited \in Nat /\ tasks \in Nat
      BY <1>t DEF TypeOK
    <3>2. awaited' \in Nat /\ tasks' \in Nat
      BY ONLY <2>1, <3>t DEF Recorded, OneLess
    <3> QED
      BY <3>1, <3>2
  <2>4. CheckpointOf(appending) \in Checkpoint
    BY <2>1 DEF CheckpointOf, Checkpoint, Event
  <2>5. [summary EXCEPT !.eventCount = appending.sequence] \in Session
    BY <2>1 DEF TypeOK, Session, Event
  <2>6. task' \in {"idle", "start", "session", "due", "recording", "checkpoint", "final"}
        /\ write' \in Session \cup Checkpoint \cup {NoWrite} /\ summary' \in Session
    BY <2>1, <2>4, <2>5 DEF Recorded, TypeOK
  <2> QED
    BY <1>u, <2>1, <2>2, <2>u, <2>3, <2>6 DEF Recorded, TypeOK
<1>3. CASE TaskSkipped \/ TaskSessionCommit \/ TaskWriteFail
  <2>1. FinishTask /\ tasks - 1 \in Nat
    BY <1>3 DEF TaskSkipped, TaskSessionCommit, TaskWriteFail, TypeOK, TaskInv
  <2>2. tasks' \in Nat /\ awaited' \in Nat /\ task' = "idle" /\ write' = NoWrite
    BY <2>1 DEF FinishTask, TypeOK, OneLess
  <2>3. session' \in Session \cup {NoSession}
    BY <1>3 DEF TaskSkipped, TaskSessionCommit, TaskWriteFail, TypeOK, TaskInv
  <2>4. used' \in Bounds
    BY <1>3, <1>u, UsedStays DEF TaskSkipped, TaskSessionCommit, TaskWriteFail
  <2> QED
    BY <1>3, <1>u, <2>2, <2>3, <2>4 DEF TaskSkipped, TaskSessionCommit, TaskWriteFail, TypeOK
<1>4. CASE TaskBegin
  <2>1. [summary EXCEPT !.eventCount = sequence] \in Session
    BY DEF TypeOK, Session
  <2> QED
    BY <1>4, <2>1 DEF TaskBegin, TypeOK
<1>5. CASE TaskCheckpointAsked
  BY <1>5, PlainInputIsInput DEF TaskCheckpointAsked, TypeOK, TaskInv, EventType
<1>6. CASE TaskCheckpointCommit
  <2>1. write \in Checkpoint /\ write.sequence \in Nat
    BY <1>6 DEF TaskCheckpointCommit, TaskInv, Checkpoint
  <2>2. [summary EXCEPT !.eventCount = write.sequence] \in Session
    BY <2>1 DEF TypeOK, Session
  <2> QED
    BY <1>6, <2>1, <2>2 DEF TaskCheckpointCommit, TypeOK, WithCheckpoint
<1>7. CASE CallBegin \/ AwaitInputs
  <2>1. step' \in {"tasks", "inputs"} /\ awaited' \in Nat /\ ended' \in BOOLEAN
    BY <1>7, LenProperties DEF CallBegin, AwaitInputs, TypeOK
  <2> QED
    BY <1>7, <2>1 DEF CallBegin, AwaitInputs, TypeOK
<1>7a. CASE FlushNothing \/ CallCommit \/ CallWriteFail
  <2>1. lifecycle # << >> /\ CallDone
    BY <1>7a DEF FlushNothing, CallCommit, CallWriteFail, CallsInv
  <2>2. lifecycle' \in Seq(Call) /\ step' = "idle" /\ lifecycleWrite' = NoWrite
    BY <2>1, TailFacts DEF CallDone, TypeOK
  <2>3. session' \in Session \cup {NoSession}
    BY <1>7a DEF FlushNothing, CallCommit, CallWriteFail, TypeOK, CallsInv
  <2>4. used' \in Bounds
    BY <1>7a, <1>u, UsedStays DEF FlushNothing, CallCommit, CallWriteFail
  <2> QED
    BY <1>7a, <1>u, <2>1, <2>2, <2>3, <2>4 DEF FlushNothing, CallCommit, CallWriteFail, CallDone, TypeOK
<1>8. CASE FlushWrite
  <2>1. [summary EXCEPT !.eventCount = sequence] \in Session
    BY DEF TypeOK, Session
  <2> QED
    BY <1>8, <2>1 DEF FlushWrite, TypeOK
<1>9. CASE EndRecord
  BY <1>9, PlainInputIsInput DEF EndRecord, TypeOK, EventType
<1>10. CASE EndWrite
  <2>1. summary' \in Session
    BY <1>10 DEF EndWrite, TypeOK, Session
  <2> QED
    BY <1>10, <2>1 DEF EndWrite, TypeOK
<1>11. CASE Load
  <2>1. used' \in Bounds
    BY <1>11, <1>u, UsedStays DEF Load
  <2> QED
    BY <1>11, <1>u, <2>1 DEF Load, TypeOK
<1>11a. CASE Recover \/ Started
  <2>1. session' \in Session \cup {NoSession}
    BY <1>11a DEF Recover, Started, TypeOK, TaskInv, Session
  <2> QED
    BY <1>11a, <2>1 DEF Recover, Started, TypeOK
<1>11b. CASE Restore
  <2>1. sequence' \in Nat
    BY <1>11b, LastSequenceIsNat DEF Restore, TypeOK, StoredCount, Session
  <2> QED
    BY <1>11b, <2>1 DEF Restore, TypeOK
<1>12. CASE PutInitialCheckpoint
  <2>1. [sequence |-> 0, document |-> document] \in Checkpoint
    BY DEF TypeOK, Checkpoint
  <2> QED
    BY <1>12, <2>1, PlainInputIsInput DEF PutInitialCheckpoint, TypeOK, WithCheckpoint, EventType
<1>13. CASE Command \/ HistoryMove \/ Other
  <2>1. used.operations + 1 \in 1 .. MaxOperations
    <3>1. used.operations < MaxOperations
      BY <1>13 DEF Command, HistoryMove, Other
    <3>2. used.operations \in 0 .. MaxOperations
      BY <1>u DEF Bounds
    <3> QED
      BY <3>1, <3>2, OperationLogAssumption
  <2>2. Edited \in Documents
    BY <2>1, AppendFacts DEF TypeOK, Documents, Edited
  <2>3. document' \in Documents
    BY <1>13, <2>2 DEF Command, HistoryMove, Other, TypeOK
  <2>4. queue' \in Seq(Input)
    <3>1. PlainInput("other") \in Input
      BY PlainInputIsInput DEF EventType
    <3>2. \A type \in EventType : [type |-> type, document |-> document'] \in Input
      BY <2>3 DEF Input
    <3>3. CASE Command
      <4>1. PICK type \in DocumentEvent :
              queue' = queue \o <<PlainInput("other"), [type |-> type, document |-> document']>>
        BY <3>3 DEF Command
      <4>2. <<PlainInput("other"), [type |-> type, document |-> document']>> \in Seq(Input)
        BY <3>1, <3>2 DEF EventType
      <4> QED
        BY <4>1, <4>2, ConcatProperties DEF TypeOK
    <3>4. CASE HistoryMove \/ Other
      <4>t. queue \in Seq(Input)
        BY <1>t DEF TypeOK
      <4>1. \A input \in Input : Append(queue, input) \in Seq(Input)
        BY <4>t, AppendFacts
      <4>2. \E input \in Input : queue' = Append(queue, input)
        BY <3>1, <3>2, <3>4 DEF HistoryMove, Other, EventType
      <4> QED
        BY <4>1, <4>2
    <3> QED
      BY <1>13, <3>3, <3>4
  <2>5. used' \in Bounds
    BY <1>13, <1>u, UsedStays DEF Command, HistoryMove, Other
  <2> QED
    <3>1. UNCHANGED <<database, page, sequence, appending, coordinator, calls>>
      BY <1>13 DEF Command, HistoryMove, Other
    <3> QED
      BY <3>1, <1>t, <1>u, <2>3, <2>4, <2>5 DEF TypeOK
<1>14. CASE Hide \/ Dispose \/ DisposeEnd
  <2>1. \A by \in {"hidden", "dispose", "end"} : [by |-> by, document |-> document] \in Call
    BY DEF TypeOK, Call
  <2>2. lifecycle' \in Seq(Call)
    <3>t. lifecycle \in Seq(Call)
      BY <1>t DEF TypeOK
    <3>1. \A by \in {"hidden", "dispose", "end"} :
            Append(lifecycle, [by |-> by, document |-> document]) \in Seq(Call)
      BY <2>1, <3>t, AppendFacts
    <3> QED
      BY <1>14, <3>1 DEF Hide, Dispose, DisposeEnd, Ask
  <2>3. used' \in Bounds
    BY <1>14, <1>u, UsedStays DEF Hide, Dispose, DisposeEnd
  <2> QED
    BY <1>14, <1>u, <2>2, <2>3 DEF Hide, Dispose, DisposeEnd, TypeOK
<1>15. CASE Close \/ Crash
  <2>1. << >> \in Documents /\ << >> \in Seq(Input) /\ << >> \in Seq(Call)
        /\ [status |-> "active", eventCount |-> 0] \in Session
    BY DEF Documents, Session
  <2> QED
    <3>1. ResetMemory /\ UNCHANGED <<events, session, checkpoints, used>> /\ page' \in {"closed", "disposed"}
      BY <1>15 DEF Close, Crash
    <3> QED
      BY <3>1, <2>1, <1>t DEF ResetMemory, TypeOK
<1> QED
  BY <1>1, <1>2, <1>3, <1>4, <1>5, <1>6, <1>7, <1>7a, <1>8, <1>9, <1>10, <1>11, <1>11a, <1>11b,
     <1>12, <1>13, <1>14, <1>15 DEF Next, Progress, Environment

-----------------------------------------------------------------------------
(* The page and its memory.                                                *)

\* The actions that need a recorder.
Inside ==
  \/ AppendBegin \/ AppendCommit \/ AppendReject \/ AppendFail
  \/ TaskSkipped \/ TaskBegin \/ TaskSessionCommit \/ TaskCheckpointAsked
  \/ TaskCheckpointCommit \/ TaskWriteFail
  \/ CallBegin \/ AwaitInputs \/ FlushNothing \/ FlushWrite \/ EndRecord \/ EndWrite
  \/ CallCommit \/ CallWriteFail
  \/ Started \/ DisposeEnd \/ Command \/ HistoryMove \/ Other \/ Hide \/ Dispose

\* A page that has no recorder does nothing but start it, or go away.
LEMMA StepCases ==
  ASSUME LogInv, Next
  PROVE  \/ Inside /\ Working /\ Working'
         \/ (Load \/ Recover \/ Restore) /\ ~Working /\ ~Working'
         \/ PutInitialCheckpoint /\ ~Working /\ Working'
         \/ (Close \/ Crash) /\ ~Working'
  <1>1. MemoryInv /\ TaskInv /\ CallsInv
    BY DEF LogInv
  <1>2. ASSUME ~Working
        PROVE  /\ queue = << >> /\ appending = NoEvent /\ tasks = 0 /\ task = "idle"
               /\ lifecycle = << >> /\ step = "idle"
    BY <1>1, <1>2 DEF MemoryInv
  <1>3. CASE Inside
    <2>1. CASE AppendBegin \/ AppendCommit \/ AppendReject \/ AppendFail
      <3>1. Working
        BY <2>1, <1>2 DEF AppendBegin, AppendCommit, AppendReject, AppendFail
      <3>2. page' = page
        BY <2>1 DEF AppendBegin, AppendCommit, AppendReject, AppendFail, Recorded, host
      <3> QED
        BY <1>3, <3>1, <3>2 DEF Working
    <2>2. CASE TaskSkipped \/ TaskBegin \/ TaskSessionCommit \/ TaskCheckpointAsked
               \/ TaskCheckpointCommit \/ TaskWriteFail
      <3>0. tasks # 0 \/ task # "idle"
        BY <2>2 DEF TaskSkipped, TaskBegin, TaskSessionCommit, TaskCheckpointAsked,
                    TaskCheckpointCommit, TaskWriteFail
      <3>1. Working
        BY <3>0, <1>2
      <3>2. page' = page
        BY <2>2 DEF TaskSkipped, TaskBegin, TaskSessionCommit, TaskCheckpointAsked,
                    TaskCheckpointCommit, TaskWriteFail, host
      <3> QED
        BY <1>3, <3>1, <3>2 DEF Working
    <2>3. CASE CallBegin \/ AwaitInputs \/ FlushNothing \/ FlushWrite \/ EndRecord \/ EndWrite
               \/ CallCommit \/ CallWriteFail
      <3>1. Working
        BY <2>3, <1>2 DEF CallBegin, AwaitInputs, FlushNothing, FlushWrite, EndRecord, EndWrite,
                          CallCommit, CallWriteFail
      <3>2. page' = page
        BY <2>3 DEF CallBegin, AwaitInputs, FlushNothing, FlushWrite, EndRecord, EndWrite,
                    CallCommit, CallWriteFail, host
      <3> QED
        BY <1>3, <3>1, <3>2 DEF Working
    <2>4. CASE Started
      <3>1. Working
        BY <2>4, <1>2 DEF Started
      <3> QED
        BY <1>3, <3>1, <2>4 DEF Started, Working
    <2>5. CASE DisposeEnd \/ Command \/ HistoryMove \/ Other \/ Hide \/ Dispose
      BY <1>3, <2>5 DEF DisposeEnd, Command, HistoryMove, Other, Hide, Dispose, Usable, Working
    <2> QED
      BY <1>3, <2>1, <2>2, <2>3, <2>4, <2>5 DEF Inside
  <1>4. CASE Load \/ Recover \/ Restore
    BY <1>4 DEF Load, Recover, Restore, Working
  <1>5. CASE PutInitialCheckpoint
    BY <1>5 DEF PutInitialCheckpoint, Working
  <1>6. CASE Close \/ Crash
    BY <1>6 DEF Close, Crash, Working
  <1> QED
    BY <1>3, <1>4, <1>5, <1>6 DEF Next, Progress, Environment, Inside

LEMMA MemoryStays ==
  ASSUME LogInv, Next
  PROVE  MemoryInv'
  <1>1. CASE Working'
    BY <1>1 DEF MemoryInv
  <1>2. CASE (Load \/ Recover \/ Restore) /\ ~Working
    <2>1. UNCHANGED <<document, queue, appending, coordinator, calls>>
      BY <1>2 DEF Load, Recover, Restore, recorder
    <2> QED
      BY <1>2, <2>1 DEF LogInv, MemoryInv, coordinator, calls
  <1>3. CASE Close \/ Crash
    BY <1>3 DEF Close, Crash, ResetMemory, MemoryInv
  <1> QED
    BY <1>1, <1>2, <1>3, StepCases

-----------------------------------------------------------------------------
(* Numbers.                                                                *)

\* The last number of the log is its length.
LEMMA LastIsLength ==
  ASSUME events \in Seq(Event), \A i \in 1 .. Len(events) : events[i].sequence = i
  PROVE  LastSequence = Len(events)
  <1>1. CASE events = << >>
    BY <1>1, EmptySeq DEF LastSequence
  <1>2. CASE events # << >>
    <2>1. Len(events) \in 1 .. Len(events)
      BY <1>2, LenProperties, EmptySeq
    <2> QED
      BY <1>2, <2>1 DEF LastSequence, Last
  <1> QED
    BY <1>1, <1>2

\* The step in which the recorder is done with an event that the store took.
LEMMA CommitFacts ==
  ASSUME LogInv, AppendCommit
  PROVE  /\ Recorded /\ InStep
         /\ appending \in Event /\ queue # << >>
         /\ Len(events') = Len(events) + 1
         /\ events'[Len(events) + 1] = appending
         /\ \A i \in 1 .. Len(events) : events'[i] = events[i]
         /\ appending.sequence = Len(events) + 1 /\ sequence = Len(events) + 1
  <1>1. events \in Seq(Event) /\ appending \in Event
    BY DEF LogInv, TypeOK, AppendCommit
  <1>2. LastSequence = Len(events) /\ appending.sequence = sequence /\ queue # << >>
    BY <1>1, LastIsLength DEF LogInv, NumbersInv, AppendCommit
  <1>3. appending.sequence = LastSequence + 1 /\ events' = Append(events, appending) /\ appending # NoEvent
    BY DEF AppendCommit, Contiguous
  <1>4. /\ Len(events') = Len(events) + 1
        /\ events'[Len(events) + 1] = appending
        /\ \A i \in 1 .. Len(events) : events'[i] = events[i]
    BY <1>1, <1>3, AppendFacts
  <1>5. InStep
    BY <1>2, <1>3 DEF InStep
  <1> QED
    BY <1>1, <1>2, <1>3, <1>4, <1>5 DEF AppendCommit

-----------------------------------------------------------------------------
(* The recorder's queue.                                                   *)

RecordedStep == AppendCommit \/ AppendReject \/ AppendFail

\* An event that is recorded, stored or not, was the first input.
LEMMA Dequeued ==
  ASSUME LogInv, RecordedStep
  PROVE  /\ Recorded /\ appending \in Event /\ appending # NoEvent
         /\ queue' = Tail(queue) /\ Len(queue) \in Nat /\ Len(queue) > 0 /\ Len(queue') = Len(queue) - 1
         /\ \A i \in 1 .. Len(queue) - 1 : queue'[i] = queue[i + 1]
         /\ appending.type = queue[1].type /\ appending.sequence = sequence
         /\ appending.type # "system.checkpoint" => appending.document = queue[1].document
  <1>1. Recorded /\ appending # NoEvent
    BY DEF RecordedStep, AppendCommit, AppendReject, AppendFail
  <1>2. /\ queue \in Seq(Input) /\ queue # << >> /\ appending \in Event
        /\ appending.type = Head(queue).type /\ appending.sequence = sequence
        /\ appending.type # "system.checkpoint" => appending.document = Head(queue).document
    BY <1>1 DEF LogInv, TypeOK, NumbersInv
  <1>3. queue' = Tail(queue)
    BY <1>1 DEF Recorded
  <1> QED
    BY <1>1, <1>2, <1>3, TailFacts

\* What an action adds to the queue: what the user's operations are recorded as,
\* a checkpoint, or the session's end.
Added(input) ==
  \/ (Command \/ HistoryMove \/ Other) /\ Usable /\ input.type \in {"other", "document.unchanged"}
  \/ /\ Command \/ HistoryMove
     /\ Usable
     /\ IsEdit(input)
     /\ document' = Edited
     /\ input.document = document'
  \/ TaskCheckpointAsked /\ Len(queue') = Len(queue) + 1 /\ input = PlainInput("system.checkpoint")
  \/ EndRecord /\ Len(queue') = Len(queue) + 1 /\ input = PlainInput("system.sessionEnded")

LEMMA AppendedInput ==
  ASSUME queue \in Seq(Input), NEW input \in Input, queue' = Append(queue, input)
  PROVE  /\ Len(queue) \in Nat /\ Len(queue') = Len(queue) + 1
         /\ \A i \in 1 .. Len(queue) : queue'[i] = queue[i]
         /\ \A i \in Len(queue) + 1 .. Len(queue') : queue'[i] = input
BY AppendFacts

LEMMA Enqueued ==
  ASSUME LogInv, Inside, ~RecordedStep
  PROVE  /\ Len(queue) \in Nat /\ Len(queue') \in Nat /\ Len(queue) <= Len(queue')
         /\ \A i \in 1 .. Len(queue) : queue'[i] = queue[i]
         /\ \A i \in Len(queue) + 1 .. Len(queue') : Added(queue'[i])
  <1>1. queue \in Seq(Input) /\ document \in Documents
    BY DEF LogInv, TypeOK
  <1>2. Len(queue) \in Nat
    BY <1>1, LenProperties
  <1>3. TypeOK'
    BY TypesStay DEF Inside, Next, Progress, Environment
  <1>4. document' \in Documents
    BY <1>3 DEF TypeOK
  <1>5. /\ PlainInput("other") \in Input
        /\ PlainInput("system.checkpoint") \in Input
        /\ PlainInput("system.sessionEnded") \in Input
    BY PlainInputIsInput DEF EventType
  <1>6. CASE Command
    <2>1. PICK type \in DocumentEvent :
            /\ document' = IF type = "document.command" THEN Edited ELSE document
            /\ queue' = queue \o <<PlainInput("other"), [type |-> type, document |-> document']>>
      BY <1>6 DEF Command
    <2> DEFINE input == [type |-> type, document |-> document']
               both == <<PlainInput("other"), input>>
    <2>2. input \in Input
      BY <1>4 DEF Input, EventType
    <2>3. both \in Seq(Input) /\ Len(both) = 2 /\ both[1] = PlainInput("other") /\ both[2] = input
      BY <1>5, <2>2
    <2> HIDE DEF both
    <2>4. /\ Len(queue') = Len(queue) + 2
          /\ \A i \in 1 .. Len(queue) : queue'[i] = queue[i]
          /\ queue'[Len(queue) + 1] = PlainInput("other") /\ queue'[Len(queue) + 2] = input
      BY <1>1, <1>2, <2>1, <2>3, ConcatProperties DEF both
    <2>5. Usable /\ Added(PlainInput("other"))
      BY <1>6 DEF Command, Added, PlainInput
    <2>6. Added(input)
      BY <1>6, <2>1, <2>5 DEF Added, IsEdit, DocumentEvent
    <2> HIDE DEF input
    <2> QED
      BY <1>2, <2>4, <2>5, <2>6
  <1>7. CASE HistoryMove
    <2> DEFINE input == [type |-> "history", document |-> Edited]
    <2>1. document' = Edited /\ queue' = Append(queue, input) /\ Usable
      BY <1>7 DEF HistoryMove
    <2>2. input \in Input /\ Added(input)
      BY <1>4, <1>7, <2>1 DEF Input, EventType, Added, IsEdit
    <2> HIDE DEF input
    <2> QED
      BY <1>1, <2>1, <2>2, AppendedInput
  <1>8. CASE Other
    <2>1. queue' = Append(queue, PlainInput("other")) /\ Added(PlainInput("other"))
      BY <1>8 DEF Other, Added, PlainInput
    <2> QED
      BY <1>1, <1>5, <2>1, AppendedInput
  <1>9. CASE TaskCheckpointAsked
    <2>1. queue' = Append(queue, PlainInput("system.checkpoint"))
      BY <1>9 DEF TaskCheckpointAsked
    <2>2. Len(queue') = Len(queue) + 1
      BY <1>1, <1>5, <2>1, AppendedInput
    <2>3. Added(PlainInput("system.checkpoint"))
      BY <1>9, <2>2 DEF Added
    <2> QED
      BY <1>1, <1>5, <2>1, <2>3, AppendedInput
  <1>10. CASE EndRecord
    <2>1. queue' = Append(queue, PlainInput("system.sessionEnded"))
      BY <1>10 DEF EndRecord
    <2>2. Len(queue') = Len(queue) + 1
      BY <1>1, <1>5, <2>1, AppendedInput
    <2>3. Added(PlainInput("system.sessionEnded"))
      BY <1>10, <2>2 DEF Added
    <2> QED
      BY <1>1, <1>5, <2>1, <2>3, AppendedInput
  <1>11. CASE UNCHANGED queue
    BY <1>2, <1>11
  <1> QED
    <2>1. CASE AppendBegin
      BY <2>1, <1>11 DEF AppendBegin
    <2>2. CASE TaskSkipped \/ TaskBegin \/ TaskSessionCommit \/ TaskCheckpointCommit \/ TaskWriteFail
      BY <2>2, <1>11 DEF TaskSkipped, TaskBegin, TaskSessionCommit, TaskCheckpointCommit, TaskWriteFail, recorder
    <2>3. CASE CallBegin \/ AwaitInputs \/ FlushNothing \/ FlushWrite \/ EndWrite \/ CallCommit \/ CallWriteFail
      BY <2>3, <1>11 DEF CallBegin, AwaitInputs, FlushNothing, FlushWrite, EndWrite, CallCommit, CallWriteFail, recorder
    <2>4. CASE Started \/ DisposeEnd \/ Hide \/ Dispose
      BY <2>4, <1>11 DEF Started, DisposeEnd, Hide, Dispose, recorder
    <2> QED
      BY <1>6, <1>7, <1>8, <1>9, <1>10, <2>1, <2>2, <2>3, <2>4 DEF Inside, RecordedStep

LEMMA RecorderFrame ==
  ASSUME Inside, ~RecordedStep, ~AppendBegin
  PROVE  UNCHANGED <<events, sequence, appending>>
  <1>1. CASE TaskSkipped \/ TaskBegin \/ TaskSessionCommit \/ TaskCheckpointAsked
             \/ TaskCheckpointCommit \/ TaskWriteFail
    BY <1>1 DEF TaskSkipped, TaskBegin, TaskSessionCommit, TaskCheckpointAsked, TaskCheckpointCommit,
                TaskWriteFail, recorder, database
  <1>2. CASE CallBegin \/ AwaitInputs \/ FlushNothing \/ FlushWrite \/ EndRecord \/ EndWrite
             \/ CallCommit \/ CallWriteFail
    BY <1>2 DEF CallBegin, AwaitInputs, FlushNothing, FlushWrite, EndRecord, EndWrite, CallCommit,
                CallWriteFail, recorder, database
  <1>3. CASE Started \/ DisposeEnd \/ Command \/ HistoryMove \/ Other \/ Hide \/ Dispose
    BY <1>3 DEF Started, DisposeEnd, Command, HistoryMove, Other, Hide, Dispose, recorder, database
  <1> QED
    BY <1>1, <1>2, <1>3 DEF Inside, RecordedStep

LEMMA RecorderTypes ==
  ASSUME TypeOK
  PROVE  /\ events \in Seq(Event) /\ Len(events) \in Nat
         /\ queue \in Seq(Input) /\ Len(queue) \in Nat
         /\ sequence \in Nat
  <1>1. events \in Seq(Event) /\ queue \in Seq(Input) /\ sequence \in Nat
    BY DEF TypeOK
  <1> QED
    BY <1>1, LenProperties

LEMMA NumbersStay ==
  ASSUME LogInv, Next
  PROVE  NumbersInv'
  <1>t. TypeOK /\ NumbersInv /\ MemoryInv
    BY DEF LogInv
  <1>n. /\ \A i \in 1 .. Len(events) : events[i].sequence = i
        /\ LastSequence = Len(events)
        /\ events \in Seq(Event) /\ Len(events) \in Nat /\ sequence \in Nat /\ Len(queue) \in Nat
    BY <1>t, RecorderTypes, LastIsLength DEF NumbersInv
  <1>m. MemoryInv'
    BY MemoryStays
  <1>1. CASE (Load \/ Recover \/ Restore) /\ ~Working /\ ~Working'
    <2>1. UNCHANGED <<events, appending>> /\ appending' = NoEvent
      BY <1>1, <1>m DEF Load, Recover, Restore, database, recorder, MemoryInv
    <2>2. page' = "checkpointing" => sequence' >= Len(events)
      <3>1. CASE Restore
        <4>1. sequence' = IF StoredCount > LastSequence THEN StoredCount ELSE LastSequence
          BY <3>1 DEF Restore
        <4>2. sequence' \in Nat
          BY TypesStay DEF TypeOK
        <4> QED
          BY <1>n, <4>1, <4>2
      <3> QED
        BY <1>1, <3>1 DEF Load, Recover
    <2> QED
      BY <1>1, <1>n, <2>1, <2>2 DEF NumbersInv
  <1>2. CASE PutInitialCheckpoint
    <2>1. UNCHANGED <<events, appending, sequence>> /\ appending = NoEvent /\ sequence >= Len(events)
      BY <1>2, <1>t, <1>n DEF PutInitialCheckpoint, MemoryInv, NumbersInv, Working
    <2> QED
      BY <1>n, <2>1 DEF NumbersInv
  <1>3. CASE (Close \/ Crash) /\ ~Working'
    BY <1>3, <1>n DEF Close, Crash, ResetMemory, NumbersInv, database
  <1>4. CASE AppendCommit
    <2>1. /\ appending' = NoEvent /\ sequence' = sequence
      BY <1>4, CommitFacts DEF Recorded
    <2>2. Len(events') = Len(events) + 1 /\ sequence = Len(events) + 1
      BY <1>4, CommitFacts
    <2>3. \A i \in 1 .. Len(events') : events'[i].sequence = i
      BY <1>4, <1>n, <2>2, CommitFacts
    <2> QED
      BY <1>n, <2>1, <2>2, <2>3 DEF NumbersInv
  <1>5. CASE (AppendReject \/ AppendFail) /\ Working
    <2>1. appending # NoEvent /\ appending' = NoEvent /\ UNCHANGED <<events, sequence>>
      BY <1>5 DEF AppendReject, AppendFail, Recorded
    <2>2. sequence >= Len(events)
      BY <1>5, <1>t, <1>n, <2>1 DEF NumbersInv
    <2> QED
      BY <1>n, <2>1, <2>2 DEF NumbersInv
  <1>6. CASE AppendBegin /\ Working
    <2>1. /\ sequence' = sequence + 1 /\ UNCHANGED <<events, queue>> /\ queue # << >>
          /\ appending' = [sequence |-> sequence + 1, type |-> Head(queue).type,
                           document |-> Captured(Head(queue))]
          /\ appending = NoEvent
      BY <1>6 DEF AppendBegin, database
    <2>2. sequence >= Len(events)
      BY <1>6, <1>t, <1>n, <2>1 DEF NumbersInv
    <2>3. sequence' >= Len(events') + 1
      BY <1>n, <2>1, <2>2
    <2>4. /\ appending'.sequence = sequence' /\ appending'.type = Head(queue').type
          /\ appending'.type # "system.checkpoint" => appending'.document = Head(queue').document
      BY <2>1 DEF Captured
    <2>5. \A i \in 1 .. Len(events') : events'[i].sequence = i
      BY <1>n, <2>1
    <2>6. Working' \/ page' = "checkpointing" =>
            sequence' >= Len(events') + (IF appending' = NoEvent THEN 0 ELSE 1)
      BY <1>n, <2>1, <2>3
    <2> QED
      BY <2>1, <2>4, <2>5, <2>6 DEF NumbersInv
  <1>7. CASE Inside /\ Working /\ ~RecordedStep /\ ~AppendBegin
    <2>1. UNCHANGED <<events, sequence, appending>>
      BY <1>7, RecorderFrame
    <2>2. appending # NoEvent => queue' # << >> /\ Head(queue') = Head(queue)
      <3>1. ASSUME appending # NoEvent PROVE queue' # << >> /\ Head(queue') = Head(queue)
        <4>1. queue # << >> /\ queue \in Seq(Input) /\ queue' \in Seq(Input)
          BY <1>t, <3>1, TypesStay DEF NumbersInv, TypeOK
        <4>2. Len(queue) > 0 /\ Head(queue) = queue[1]
          BY <4>1, TailFacts
        <4>3. Len(queue') > 0 /\ queue'[1] = queue[1]
          BY <1>7, <4>2, Enqueued
        <4>4. queue' # << >>
          BY <4>3, EmptySeq
        <4> QED
          BY <4>1, <4>2, <4>3, <4>4, TailFacts
      <3> QED
        BY <3>1
    <2>3. sequence >= Len(events) + (IF appending = NoEvent THEN 0 ELSE 1)
      BY <1>7, <1>t DEF NumbersInv
    <2> QED
      BY <1>t, <2>1, <2>2, <2>3 DEF NumbersInv
  <1> QED
    BY StepCases, <1>1, <1>2, <1>3, <1>4, <1>5, <1>6, <1>7 DEF RecordedStep

-----------------------------------------------------------------------------
(* The coordinator's tasks.                                                *)

\* Only a page that disposes of itself ends its session, and no task runs when the
\* end has waited for them.
LEMMA EndFacts ==
  ASSUME LogInv
  PROVE  /\ lifecycle # << >> => Len(lifecycle) > 0 /\ Head(lifecycle) = lifecycle[1]
         /\ lifecycle \in Seq(Call) /\ Len(lifecycle) \in Nat
         /\ ended => page = "ending"
         /\ EndWritten => ended
         /\ ~ended => summary.status = "active"
         /\ task # "idle" /\ ended => Ending /\ step = "tasks"
         /\ task # "idle" => summary.status = "active"
  <1>1. lifecycle \in Seq(Call) /\ Len(lifecycle) \in Nat
    BY LenProperties DEF LogInv, TypeOK
  <1>2. lifecycle # << >> => Len(lifecycle) > 0 /\ Head(lifecycle) = lifecycle[1]
    BY <1>1, TailFacts
  <1>3. Ending \/ EndDone => page = "ending"
    BY <1>1, <1>2 DEF Ending, EndDone, LogInv, CallsInv
  <1>4. EndInv
    BY DEF LogInv
  <1>5. ended <=> Ending \/ EndDone
    BY <1>4 DEF EndInv
  <1>6. EndWritten => ended
    BY <1>5 DEF EndWritten
  <1>7. ~EndWritten => summary.status = "active"
    BY <1>4 DEF EndInv
  <1>8. task # "idle" /\ ended => Ending /\ step = "tasks"
    BY <1>4, <1>5 DEF EndInv
  <1>9. task # "idle" => ~EndWritten
    BY <1>4 DEF EndInv, EndWritten
  <1> QED
    BY <1>1, <1>2, <1>3, <1>5, <1>6, <1>7, <1>8, <1>9

LEMMA TaskTypes ==
  ASSUME TypeOK
  PROVE  /\ summary \in Session /\ summary.eventCount \in Nat
         /\ tasks \in Nat /\ awaited \in Nat
         /\ \A n \in Nat : /\ [summary EXCEPT !.eventCount = n] \in Session
                           /\ [summary EXCEPT !.eventCount = n].status = summary.status
                           /\ [summary EXCEPT !.eventCount = n].eventCount = n
BY DEF TypeOK, Session

\* The event that is recorded is the first input, so the others move up by one.
LEMMA TaskAfterRecorded ==
  ASSUME LogInv, RecordedStep, Working
  PROVE  TaskInv'
  <1>t. TypeOK /\ TaskInv
    BY DEF LogInv
  <1>q. /\ Recorded /\ appending \in Event /\ appending.sequence = sequence
        /\ Len(queue) \in Nat /\ Len(queue) > 0 /\ Len(queue') = Len(queue) - 1
        /\ \A i \in 1 .. Len(queue) - 1 : queue'[i] = queue[i + 1]
        /\ appending.type = queue[1].type /\ queue' = Tail(queue)
    BY Dequeued
  <1>u. UNCHANGED <<page, sequence, ended>>
    BY <1>q DEF Recorded
  <1>s. sequence \in Nat /\ summary \in Session /\ tasks \in Nat /\ summary.eventCount <= sequence
    BY <1>t, RecorderTypes, TaskTypes DEF TaskInv
  <1>k. tasks' >= tasks /\ (appending.type \notin DocumentEvent => tasks' = tasks)
    BY <1>q, <1>s DEF Recorded
  <1>1. \A i, j \in 1 .. Len(queue') :
          queue'[i].type = "system.checkpoint" /\ queue'[j].type = "system.checkpoint" => i = j
    <2> SUFFICES ASSUME NEW i \in 1 .. Len(queue'), NEW j \in 1 .. Len(queue'),
                        queue'[i].type = "system.checkpoint", queue'[j].type = "system.checkpoint"
                 PROVE  i = j
      OBVIOUS
    <2>1. i + 1 \in 1 .. Len(queue) /\ j + 1 \in 1 .. Len(queue)
          /\ queue'[i] = queue[i + 1] /\ queue'[j] = queue[j + 1]
      BY <1>q
    <2>2. i + 1 = j + 1
      BY <1>t, <2>1 DEF TaskInv
    <2> QED
      BY <2>2
  <1>2. \A i \in 1 .. Len(queue') :
          /\ queue'[i].type = "system.checkpoint" => task = "recording" /\ appending.type # "system.checkpoint"
          /\ page # "starting" => queue'[i].type # "system.sessionStarted"
    <2> SUFFICES ASSUME NEW i \in 1 .. Len(queue')
                 PROVE  /\ queue'[i].type = "system.checkpoint" =>
                             task = "recording" /\ appending.type # "system.checkpoint"
                        /\ page # "starting" => queue'[i].type # "system.sessionStarted"
      OBVIOUS
    <2>1. i + 1 \in 1 .. Len(queue) /\ 1 \in 1 .. Len(queue) /\ i + 1 # 1 /\ queue'[i] = queue[i + 1]
      BY <1>q
    <2> QED
      BY <1>t, <1>q, <2>1 DEF TaskInv
  <1>3. 1 \in 1 .. Len(queue)
    BY <1>q
  <1>4. CASE appending.type = "system.checkpoint"
    <2>1. task' = "checkpoint" /\ write' = CheckpointOf(appending) /\ summary' = summary
      BY <1>4, <1>q DEF Recorded
    <2>2. task = "recording" /\ tasks > 0 /\ page # "starting"
      BY <1>3, <1>4, <1>q, <1>t DEF TaskInv
    <2>3. write' \in Checkpoint /\ write'.sequence = sequence
      BY <2>1, <1>q DEF CheckpointOf, Checkpoint, Event
    <2>4. tasks' > 0
      BY <1>4, <1>k, <2>2 DEF DocumentEvent
    <2> QED
      BY <1>s, <1>u, <1>1, <1>2, <1>4, <2>1, <2>2, <2>3, <2>4 DEF TaskInv
  <1>5. CASE appending.type = "system.sessionStarted"
    <2>1. /\ summary' = [summary EXCEPT !.eventCount = sequence]
          /\ task' = "start" /\ write' = summary'
      BY <1>5, <1>q DEF Recorded
    <2>2. page = "starting" /\ tasks = 0 /\ queue = <<PlainInput("system.sessionStarted")>>
      BY <1>3, <1>5, <1>q, <1>t DEF TaskInv
    <2>3. queue' = << >>
      BY <1>q, <2>2
    <2>4. summary' \in Session /\ summary'.status = "active" /\ summary'.eventCount = sequence
      <3>1. summary.status = "active"
        BY <2>2, EndFacts
      <3> QED
        BY <1>s, <1>t, <2>1, <3>1, TaskTypes
    <2>5. tasks' = 0
      BY <1>5, <1>k, <2>2 DEF DocumentEvent
    <2>6. Len(queue') = 0
      BY <2>3
    <2> QED
      BY <1>s, <1>u, <2>1, <2>2, <2>3, <2>4, <2>5, <2>6 DEF TaskInv
  <1>6. CASE appending.type \notin {"system.checkpoint", "system.sessionStarted"}
    <2>1. UNCHANGED <<task, write, summary>>
      BY <1>6, <1>q DEF Recorded
    <2>2. page # "starting"
      BY <1>3, <1>6, <1>q, <1>t, EmptySeq DEF TaskInv, PlainInput
    <2>3. task' \notin {"idle", "start"} => tasks' > 0
      <3>1. tasks' \in Nat
        BY <1>q, <1>s DEF Recorded
      <3> QED
        BY <1>s, <1>k, <1>t, <2>1, <3>1 DEF TaskInv
    <2> QED
      BY <1>s, <1>t, <1>u, <1>1, <1>2, <2>1, <2>2, <2>3 DEF TaskInv
  <1> QED
    BY <1>4, <1>5, <1>6

LEMMA TaskAfterTask ==
  ASSUME LogInv, TaskSkipped \/ TaskBegin \/ TaskSessionCommit \/ TaskCheckpointAsked
                   \/ TaskCheckpointCommit \/ TaskWriteFail
  PROVE  TaskInv'
  <1>t. TypeOK /\ TaskInv
    BY DEF LogInv
  <1>s. sequence \in Nat /\ tasks \in Nat /\ Len(queue) \in Nat
    BY <1>t, RecorderTypes, TaskTypes
  <1>0. UNCHANGED <<page, sequence>> /\ page # "starting" /\ tasks > 0
    <2>1. tasks > 0
      BY <1>t DEF TaskInv, TaskSkipped, TaskBegin, TaskSessionCommit, TaskCheckpointAsked,
                  TaskCheckpointCommit, TaskWriteFail
    <2>2. UNCHANGED <<page, sequence>>
      BY DEF TaskSkipped, TaskBegin, TaskSessionCommit, TaskCheckpointAsked, TaskCheckpointCommit,
             TaskWriteFail, host, recorder
    <2>3. tasks = 0 => ~(tasks > 0)
      BY <1>s
    <2> QED
      BY <1>t, <2>1, <2>2, <2>3 DEF TaskInv
  <1>e. Working => summary.eventCount <= sequence
    BY <1>t DEF TaskInv
  <1>1. CASE TaskSkipped \/ TaskSessionCommit \/ TaskWriteFail
    <2>1. task' = "idle" /\ UNCHANGED <<queue, summary>> /\ task # "recording"
      BY <1>1 DEF TaskSkipped, TaskSessionCommit, TaskWriteFail, FinishTask, recorder
    <2> QED
      BY <1>0, <1>t, <2>1 DEF TaskInv, Working
  <1>2. CASE TaskBegin
    <2>1. /\ task = "idle" /\ task' \in {"due", "session"} /\ UNCHANGED <<queue, tasks>>
          /\ summary' = [summary EXCEPT !.eventCount = sequence] /\ write' = summary'
          /\ summary.status = "active"
      BY <1>2, EndFacts DEF TaskBegin, recorder
    <2>2. write' \in Session /\ write'.status = "active" /\ summary'.eventCount = sequence
      BY <1>t, <1>s, <2>1, TaskTypes
    <2> QED
      BY <1>0, <1>s, <1>t, <2>1, <2>2 DEF TaskInv, Working
  <1>3. CASE TaskCheckpointAsked
    <2> DEFINE input == PlainInput("system.checkpoint")
    <2>1. task = "due" /\ task' = "recording" /\ queue' = Append(queue, input) /\ UNCHANGED <<summary, tasks>>
      BY <1>3 DEF TaskCheckpointAsked
    <2>2. input \in Input /\ queue \in Seq(Input) /\ input.type = "system.checkpoint"
      BY <1>t, PlainInputIsInput DEF EventType, PlainInput, TypeOK
    <2> HIDE DEF input
    <2>3. /\ Len(queue') = Len(queue) + 1
          /\ \A i \in 1 .. Len(queue) : queue'[i] = queue[i]
          /\ \A i \in Len(queue) + 1 .. Len(queue') : queue'[i] = input
      BY <2>1, <2>2, AppendedInput
    <2>4. \A i \in 1 .. Len(queue) : queue[i].type \notin {"system.checkpoint", "system.sessionStarted"}
      BY <1>0, <1>t, <2>1 DEF TaskInv
    <2>5. \A i \in 1 .. Len(queue') :
            /\ queue'[i].type # "system.sessionStarted"
            /\ queue'[i].type = "system.checkpoint" => i = Len(queue) + 1
      BY <1>s, <2>2, <2>3, <2>4
    <2>6. \A i, j \in 1 .. Len(queue') :
            queue'[i].type = "system.checkpoint" /\ queue'[j].type = "system.checkpoint" => i = j
      BY <2>5
    <2> QED
      BY <1>0, <1>t, <2>1, <2>5, <2>6 DEF TaskInv, Working
  <1>4. CASE TaskCheckpointCommit
    <2>1. /\ task = "checkpoint" /\ task' = "final" /\ UNCHANGED <<queue, tasks>>
          /\ summary' = [summary EXCEPT !.eventCount = write.sequence] /\ write' = summary'
          /\ summary.status = "active"
      BY <1>4, EndFacts DEF TaskCheckpointCommit, recorder
    <2>2. write.sequence \in Nat /\ write.sequence <= sequence
      BY <1>t, <2>1 DEF TaskInv, Checkpoint
    <2>3. write' \in Session /\ write'.status = "active" /\ summary'.eventCount = write.sequence
      BY <1>t, <2>1, <2>2, TaskTypes
    <2> QED
      BY <1>0, <1>t, <2>1, <2>2, <2>3 DEF TaskInv, Working
  <1> QED
    BY <1>1, <1>2, <1>3, <1>4

LEMMA TasksStay ==
  ASSUME LogInv, Next
  PROVE  TaskInv'
  <1>t. TypeOK /\ TaskInv /\ MemoryInv /\ NumbersInv /\ CallsInv
    BY DEF LogInv
  <1>s. sequence \in Nat /\ Len(queue) \in Nat /\ Len(events) \in Nat
    BY <1>t, RecorderTypes
  <1>1. CASE ~Working'
    <2>1. queue' = << >> /\ task' = "idle" /\ page' # "starting"
      BY <1>1, MemoryStays DEF MemoryInv, Working
    <2>2. Len(queue') = 0
      BY <2>1
    <2> QED
      BY <1>1, <2>1, <2>2 DEF TaskInv
  <1>2. CASE PutInitialCheckpoint /\ ~Working
    <2>1. /\ queue' = <<PlainInput("system.sessionStarted")>> /\ task' = "idle" /\ tasks' = 0
          /\ page' = "starting" /\ sequence' = sequence /\ summary'.eventCount = 0
      BY <1>2, <1>t DEF PutInitialCheckpoint, MemoryInv, coordinator
    <2>2. \A i \in 1 .. Len(queue') : i = 1 /\ queue'[i].type = "system.sessionStarted"
      BY <2>1 DEF PlainInput
    <2> QED
      BY <1>s, <2>1, <2>2 DEF TaskInv
  <1>3. CASE RecordedStep /\ Working
    BY <1>3, TaskAfterRecorded
  <1>4. CASE TaskSkipped \/ TaskBegin \/ TaskSessionCommit \/ TaskCheckpointAsked
               \/ TaskCheckpointCommit \/ TaskWriteFail
    BY <1>4, TaskAfterTask
  <1>5. CASE AppendBegin
    <2>1. UNCHANGED <<page, queue, task, tasks, write, summary>> /\ sequence' = sequence + 1
      BY <1>5 DEF AppendBegin, host, coordinator
    <2>2. summary.eventCount \in Nat
      BY <1>t, TaskTypes
    <2>3. task = "checkpoint" => write.sequence \in Nat
      BY <1>t DEF TaskInv, Checkpoint
    <2> QED
      BY <1>s, <1>t, <2>1, <2>2, <2>3 DEF TaskInv, Working
  <1>6. CASE CallBegin \/ AwaitInputs \/ FlushNothing \/ CallCommit \/ CallWriteFail \/ Hide \/ Dispose \/ DisposeEnd
    <2>1. UNCHANGED <<queue, sequence, task, tasks, write, summary>>
      BY <1>6 DEF CallBegin, AwaitInputs, FlushNothing, CallCommit, CallWriteFail, Hide, Dispose, DisposeEnd,
                  recorder, coordinator
    <2>2. page' = page \/ (page # "starting" /\ page' # "starting" /\ Working)
      BY <1>6 DEF CallBegin, AwaitInputs, FlushNothing, CallCommit, CallWriteFail, Hide, Dispose, DisposeEnd,
                  host, Working
    <2> QED
      BY <1>t, <2>1, <2>2 DEF TaskInv, Working
  <1>7. CASE FlushWrite \/ EndWrite
    <2>1. UNCHANGED <<page, queue, sequence, task, tasks, write>>
      BY <1>7 DEF FlushWrite, EndWrite, host, recorder
    <2>2. Working => summary'.eventCount <= sequence
      <3>1. summary.eventCount \in Nat
        BY <1>t, TaskTypes
      <3>2. CASE FlushWrite
        BY <1>s, <1>t, <3>2, TaskTypes DEF FlushWrite
      <3>3. CASE EndWrite
        <4>1. summary'.eventCount = IF summary.eventCount > sequence
                                THEN summary.eventCount ELSE sequence
          BY <3>3 DEF EndWrite
        <4>2. Working => summary.eventCount <= sequence
          BY <1>t DEF TaskInv
        <4> QED
          BY <1>s, <3>1, <4>1, <4>2
      <3> QED
        BY <1>7, <3>2, <3>3
    <2> QED
      BY <1>t, <2>1, <2>2 DEF TaskInv, Working
  <1>8. CASE EndRecord \/ Command \/ HistoryMove \/ Other
    <2>1. UNCHANGED <<page, sequence, task, tasks, write, summary>>
      BY <1>8 DEF EndRecord, Command, HistoryMove, Other, coordinator, host
    <2>2. page # "starting"
      BY <1>8, <1>t, EndFacts DEF EndRecord, Command, HistoryMove, Other, Usable, CallsInv
    <2>3. Inside /\ ~TaskCheckpointAsked /\ ~RecordedStep
      <3>1. UNCHANGED <<task, appending>>
        BY <1>8 DEF EndRecord, Command, HistoryMove, Other, coordinator
      <3> QED
        BY <1>8, <3>1, Dequeued DEF Inside, TaskCheckpointAsked, Recorded
    <2>4. \A input : Added(input) => input.type \notin {"system.checkpoint", "system.sessionStarted"}
      BY <2>3 DEF Added, IsEdit, PlainInput
    <2>5. \A i \in 1 .. Len(queue') :
            queue'[i].type \in {"system.checkpoint", "system.sessionStarted"} =>
              i \in 1 .. Len(queue) /\ queue'[i] = queue[i]
      <3>1. /\ Len(queue') \in Nat
            /\ \A i \in 1 .. Len(queue) : queue'[i] = queue[i]
            /\ \A i \in Len(queue) + 1 .. Len(queue') : Added(queue'[i])
        BY <2>3, Enqueued
      <3> QED
        BY <1>s, <2>4, <3>1
    <2> QED
      BY <1>t, <2>1, <2>2, <2>5 DEF TaskInv, Working
  <1>9. CASE Started
    <2>1. task = "start" /\ task' = "idle" /\ page' = "open" /\ UNCHANGED <<queue, tasks, sequence, summary>>
      BY <1>9 DEF Started, recorder
    <2>2. page = "starting" /\ Len(queue) = 0
      BY <1>t, <2>1 DEF TaskInv
    <2> QED
      BY <1>t, <2>1, <2>2 DEF TaskInv, Working
  <1> QED
    BY StepCases, <1>1, <1>2, <1>3, <1>4, <1>5, <1>6, <1>7, <1>8, <1>9
     DEF Inside, RecordedStep

-----------------------------------------------------------------------------
(* The calls of flush and end.                                             *)

Settles == FlushNothing \/ CallCommit \/ CallWriteFail

Asked == Hide \/ Dispose \/ DisposeEnd

LEMMA CallsFrame ==
  ASSUME \/ AppendBegin \/ RecordedStep \/ TaskSkipped \/ TaskBegin \/ TaskSessionCommit \/ TaskCheckpointAsked
         \/ TaskCheckpointCommit \/ TaskWriteFail \/ Started \/ Command \/ HistoryMove \/ Other
  PROVE  /\ UNCHANGED <<lifecycle, step, lifecycleWrite, ended>>
         /\ page' = page \/ Started
  <1>1. CASE AppendBegin \/ RecordedStep \/ Started \/ Command \/ HistoryMove \/ Other
    BY <1>1 DEF AppendBegin, RecordedStep, AppendCommit, AppendReject, AppendFail, Recorded, Started,
                Command, HistoryMove, Other, calls, coordinator, host
  <1>2. CASE TaskSkipped \/ TaskBegin \/ TaskSessionCommit \/ TaskCheckpointAsked
             \/ TaskCheckpointCommit \/ TaskWriteFail
    BY <1>2 DEF TaskSkipped, TaskBegin, TaskSessionCommit, TaskCheckpointAsked, TaskCheckpointCommit,
                TaskWriteFail, calls, host
  <1> QED
    BY <1>1, <1>2

\* A call that has settled was the first.
LEMMA Settled ==
  ASSUME LogInv, Settles
  PROVE  /\ lifecycle # << >> /\ lifecycle' = Tail(lifecycle) /\ step' = "idle"
         /\ step \in {"inputs", "session"}
         /\ Len(lifecycle) \in Nat /\ Len(lifecycle) > 0 /\ Len(lifecycle') = Len(lifecycle) - 1
         /\ Head(lifecycle) = lifecycle[1]
         /\ \A i \in 1 .. Len(lifecycle') : lifecycle'[i] = lifecycle[i + 1]
         /\ UNCHANGED <<page, ended, summary, task, queue, sequence, appending, events, tasks, awaited>>
  <1>1. CallDone /\ step \in {"inputs", "session"}
        /\ UNCHANGED <<page, ended, summary, task, queue, sequence, appending, events, tasks, awaited>>
    BY DEF Settles, FlushNothing, CallCommit, CallWriteFail, CallDone, host, recorder, coordinator, database
  <1>2. lifecycle # << >> /\ lifecycle \in Seq(Call)
    BY <1>1 DEF LogInv, CallsInv, TypeOK
  <1> QED
    BY <1>1, <1>2, TailFacts DEF CallDone

\* A call that is asked for is the last.
LEMMA AskedLast ==
  ASSUME LogInv, Asked
  PROVE  /\ Len(lifecycle) \in Nat /\ Len(lifecycle') = Len(lifecycle) + 1 /\ lifecycle' # << >>
         /\ \A i \in 1 .. Len(lifecycle) : lifecycle'[i] = lifecycle[i]
         /\ lifecycle'[Len(lifecycle) + 1].document = document
         /\ lifecycle'[Len(lifecycle) + 1].by = "end" <=> DisposeEnd
         /\ Head(lifecycle') = lifecycle'[1]
         /\ UNCHANGED <<database, document, recorder, coordinator, step, awaited, lifecycleWrite>>
  <1>t. lifecycle \in Seq(Call) /\ document \in Documents /\ lifecycle' \in Seq(Call)
    BY TypesStay DEF LogInv, TypeOK, Asked, Next, Progress, Environment
  <1>1. UNCHANGED <<database, document, recorder, coordinator, step, awaited, lifecycleWrite>>
    BY DEF Asked, Hide, Dispose, DisposeEnd
  <1>2. PICK by \in {"hidden", "dispose", "end"} :
          lifecycle' = Append(lifecycle, [by |-> by, document |-> document]) /\ (by = "end" <=> DisposeEnd)
    BY DEF Asked, Hide, Dispose, DisposeEnd, Ask
  <1> DEFINE call == [by |-> by, document |-> document]
  <1>3. call \in Call /\ call.by = by /\ call.document = document
    BY <1>t, <1>2 DEF Call
  <1> HIDE DEF call
  <1>4. /\ Len(lifecycle) \in Nat /\ Len(lifecycle') = Len(lifecycle) + 1 /\ lifecycle' # << >>
        /\ \A i \in 1 .. Len(lifecycle) : lifecycle'[i] = lifecycle[i]
        /\ lifecycle'[Len(lifecycle) + 1] = call
    BY <1>t, <1>2, <1>3, AppendFacts DEF call
  <1>5. Head(lifecycle') = lifecycle'[1]
    BY <1>t, <1>4, TailFacts
  <1> QED
    BY <1>1, <1>2, <1>3, <1>4, <1>5

LEMMA CallsStay ==
  ASSUME LogInv, Next
  PROVE  CallsInv'
  <1>t. CallsInv /\ TypeOK /\ MemoryInv /\ TaskInv
    BY DEF LogInv
  <1>e. /\ lifecycle # << >> => Len(lifecycle) > 0 /\ Head(lifecycle) = lifecycle[1]
        /\ lifecycle \in Seq(Call) /\ Len(lifecycle) \in Nat
    BY EndFacts
  <1>1. CASE ~Working'
    <2>1. lifecycle' = << >> /\ step' = "idle" /\ ~ended'
      BY <1>1, MemoryStays DEF MemoryInv
    <2> QED
      BY <2>1 DEF CallsInv
  <1>2. CASE PutInitialCheckpoint /\ ~Working
    <2>1. lifecycle' = << >> /\ step' = "idle" /\ ~ended'
      BY <1>2, <1>t DEF PutInitialCheckpoint, MemoryInv, coordinator, calls
    <2> QED
      BY <2>1 DEF CallsInv
  <1>3. CASE \/ AppendBegin \/ RecordedStep \/ TaskSkipped \/ TaskBegin \/ TaskSessionCommit \/ TaskCheckpointAsked
             \/ TaskCheckpointCommit \/ TaskWriteFail \/ Started \/ Command \/ HistoryMove \/ Other
    <2>1. UNCHANGED <<lifecycle, step, lifecycleWrite, ended>>
      BY <1>3, CallsFrame
    <2>2. page' = page \/ (page # "ending" /\ page' # "ending")
      BY <1>3, <1>t, CallsFrame DEF Started, TaskInv
    <2> QED
      BY <1>t, <2>1, <2>2 DEF CallsInv
  <1>4. CASE CallBegin \/ AwaitInputs
    <2>1. UNCHANGED <<lifecycle, page>> /\ lifecycle # << >> /\ step' \in {"tasks", "inputs"}
      BY <1>4, <1>t DEF CallBegin, AwaitInputs, CallsInv, host
    <2>2. page # "ending" => ~ended'
      <3>1. 1 \in 1 .. Len(lifecycle) /\ Head(lifecycle) = lifecycle[1]
        BY <1>e, <2>1
      <3> QED
        BY <1>4, <1>t, <3>1 DEF CallBegin, AwaitInputs, CallsInv, coordinator
    <2> QED
      BY <1>t, <2>1, <2>2 DEF CallsInv
  <1>5. CASE FlushWrite \/ EndWrite \/ EndRecord
    <2>1. UNCHANGED <<lifecycle, page, ended>> /\ lifecycle # << >>
      BY <1>5, <1>t DEF FlushWrite, EndWrite, EndRecord, CallsInv, host, coordinator
    <2>2. step' = "session" => lifecycleWrite' \in Session
      BY <1>5, TypesStay DEF FlushWrite, EndWrite, EndRecord, TypeOK
    <2>3. step' = "event" => Head(lifecycle).by = "end"
      BY <1>5 DEF FlushWrite, EndWrite, EndRecord
    <2> QED
      BY <1>t, <2>1, <2>2, <2>3 DEF CallsInv
  <1>6. CASE Settles
    <2>1. \A i \in 1 .. Len(lifecycle') : i + 1 \in 1 .. Len(lifecycle) /\ lifecycle'[i] = lifecycle[i + 1]
      BY <1>6, Settled
    <2>2. step' = "idle" /\ UNCHANGED <<page, ended>>
      BY <1>6, Settled
    <2>3. page' # "ending" => ~ended' /\ \A i \in 1 .. Len(lifecycle') : lifecycle'[i].by # "end"
      BY <1>t, <2>1, <2>2 DEF CallsInv
    <2>4. ASSUME NEW i \in 1 .. Len(lifecycle'), NEW j \in 1 .. Len(lifecycle'),
                 lifecycle'[i].by = "end", lifecycle'[j].by = "end"
          PROVE  i = j
      <3>1. i + 1 = j + 1
        BY <1>t, <2>1, <2>4 DEF CallsInv
      <3>2. i \in Int /\ j \in Int
        OBVIOUS
      <3> QED
        BY <3>1, <3>2
    <2> QED
      BY <2>2, <2>3, <2>4 DEF CallsInv
  <1>7. CASE Asked
    <2>1. UNCHANGED <<step, ended, lifecycleWrite>> /\ lifecycle' # << >>
      BY <1>7, AskedLast DEF coordinator
    <2>2. /\ Len(lifecycle') = Len(lifecycle) + 1
          /\ \A i \in 1 .. Len(lifecycle) : lifecycle'[i] = lifecycle[i]
          /\ lifecycle'[Len(lifecycle) + 1].by = "end" <=> DisposeEnd
      BY <1>7, AskedLast
    <2>3. step' = "event" => Head(lifecycle').by = "end"
      <3>1. step' = "event" => lifecycle # << >> /\ Head(lifecycle).by = "end"
        BY <1>t, <2>1 DEF CallsInv
      <3> QED
        BY <1>7, <1>e, <2>2, <3>1, AskedLast
    <2>4. DisposeEnd => page # "ending" /\ page' = "ending"
      BY DEF DisposeEnd
    <2>5. ~DisposeEnd => (page' = page \/ (page' # "ending" /\ page # "ending"))
      <3>1. CASE Hide
        BY <3>1 DEF Hide
      <3>2. CASE Dispose
        BY <3>2 DEF Dispose
      <3> QED
        BY <1>7, <3>1, <3>2 DEF Asked
    <2>6. page' # "ending" => ~ended' /\ \A i \in 1 .. Len(lifecycle') : lifecycle'[i].by # "end"
      BY <1>t, <1>e, <2>1, <2>2, <2>4, <2>5 DEF CallsInv
    <2>7. \A i, j \in 1 .. Len(lifecycle') : lifecycle'[i].by = "end" /\ lifecycle'[j].by = "end" => i = j
      <3>1. CASE DisposeEnd
        <4>1. \A i \in 1 .. Len(lifecycle) : lifecycle'[i].by # "end"
          BY <1>t, <2>2, <2>4, <3>1 DEF CallsInv
        <4> QED
          BY <1>e, <2>2, <4>1
      <3>2. CASE ~DisposeEnd
        <4>1. \A i \in 1 .. Len(lifecycle') : lifecycle'[i].by = "end" =>
                 i \in 1 .. Len(lifecycle) /\ lifecycle'[i] = lifecycle[i]
          BY <1>e, <2>2, <3>2
        <4> QED
          BY <1>t, <4>1 DEF CallsInv
      <3> QED
        BY <3>1, <3>2
    <2>8. step' = "session" => lifecycleWrite' \in Session
      BY <1>t, <2>1 DEF CallsInv
    <2> QED
      BY <2>1, <2>3, <2>6, <2>7, <2>8 DEF CallsInv
  <1> QED
    BY StepCases, <1>1, <1>2, <1>3, <1>4, <1>5, <1>6, <1>7 DEF Inside, RecordedStep, Settles, Asked

-----------------------------------------------------------------------------
(* The end.                                                                *)

LEMMA SameEnd ==
  ASSUME UNCHANGED <<page, lifecycle, step>>
  PROVE  (Ending' <=> Ending) /\ (EndDone' <=> EndDone) /\ (EndWritten' <=> EndWritten)
BY DEF Ending, EndDone, EndWritten

LEMMA SameLogEnds ==
  ASSUME UNCHANGED <<events, sequence, appending>>
  PROVE  LogEnds' <=> LogEnds
BY DEF LogEnds, InStep, LastSequence

\* The conjuncts of EndInv as facts about the state.
LEMMA EndParts ==
  ASSUME LogInv
  PROVE  /\ ended <=> Ending \/ EndDone
         /\ Ending /\ step = "tasks" /\ task # "idle" => awaited > 0
         /\ EndDone \/ (Ending /\ step # "tasks") => task = "idle"
         /\ step = "event" => Ending
         /\ EndWritten => queue = << >> /\ summary = [status |-> "ended", eventCount |-> sequence] /\ LogEnds
         /\ ~EndWritten => summary.status = "active"
         /\ step = "session" => lifecycleWrite.status = summary.status
         /\ step = "session" /\ ended => lifecycleWrite = summary
         /\ Ending => page = "ending" /\ lifecycle # << >> /\ ~EndDone
         /\ EndDone => page = "ending" /\ ~Ending
  <1>1. EndInv /\ CallsInv
    BY DEF LogInv
  <1>2. Ending => page = "ending" /\ lifecycle # << >> /\ ~EndDone
    <2> SUFFICES ASSUME Ending PROVE page = "ending" /\ lifecycle # << >> /\ ~EndDone
      OBVIOUS
    <2>1. lifecycle # << >> /\ 1 \in 1 .. Len(lifecycle) /\ lifecycle[1].by = "end"
      BY EndFacts DEF Ending
    <2> QED
      BY <1>1, <2>1 DEF CallsInv, EndDone
  <1>3. step = "event" => Ending
    BY <1>1 DEF CallsInv, Ending
  <1> QED
    BY <1>1, <1>2, <1>3 DEF EndInv, EndDone

\* What being done with an event does to the task under way.
LEMMA RecordedTask ==
  ASSUME LogInv, RecordedStep, page # "starting"
  PROVE  /\ summary' = summary
         /\ task' = task \/ task = "recording"
         /\ UNCHANGED <<page, lifecycle, step, ended, lifecycleWrite, sequence>>
         /\ appending # NoEvent /\ appending' = NoEvent
         /\ awaited' = IF step \in {"inputs", "event"} THEN OneLess(awaited) ELSE awaited
  <1>1. Recorded /\ appending # NoEvent /\ Len(queue) > 0 /\ Len(queue) \in Nat /\ appending.type = queue[1].type
    BY Dequeued
  <1>2. 1 \in 1 .. Len(queue)
    BY <1>1
  <1>3. /\ appending.type = "system.checkpoint" => task = "recording"
        /\ appending.type # "system.sessionStarted"
    BY <1>1, <1>2 DEF LogInv, TaskInv
  <1>4. summary' = summary /\ (task' = task \/ task = "recording")
    BY <1>1, <1>3 DEF Recorded
  <1> QED
    BY <1>1, <1>4 DEF Recorded

\* An event that is stored is the log's last, and one that is not takes the log out
\* of step.
LEMMA RecordedEnds ==
  ASSUME LogInv, RecordedStep, Working, appending.type = "system.sessionEnded"
  PROVE  LogEnds'
  <1>n. /\ \A i \in 1 .. Len(events') : events'[i].sequence = i
        /\ events' \in Seq(Event) /\ Len(events') \in Nat
        /\ events \in Seq(Event) /\ Len(events) \in Nat /\ sequence \in Nat
    <2>1. Next
      BY DEF RecordedStep, Next, Progress
    <2>2. NumbersInv' /\ TypeOK' /\ TypeOK
      BY <2>1, NumbersStay, TypesStay DEF LogInv
    <2>3. events' \in Seq(Event)
      BY <2>2 DEF TypeOK
    <2> QED
      BY <2>2, <2>3, RecorderTypes, LenProperties DEF NumbersInv
  <1>1. CASE AppendCommit
    BY <1>1, <1>n, CommitFacts DEF LogEnds
  <1>2. CASE AppendReject \/ AppendFail
    <2>1. appending # NoEvent /\ appending' = NoEvent /\ UNCHANGED <<events, sequence>>
      BY <1>2 DEF AppendReject, AppendFail, Recorded
    <2>2. sequence >= Len(events) + 1
      BY <2>1 DEF LogInv, NumbersInv
    <2>3. LastSequence = Len(events) /\ LastSequence' = LastSequence
      BY <2>1, LastIsLength DEF LogInv, NumbersInv, TypeOK, LastSequence
    <2>4. ~InStep'
      BY <1>n, <2>1, <2>2, <2>3 DEF InStep
    <2> QED
      BY <2>4 DEF LogEnds
  <1> QED
    BY <1>1, <1>2 DEF RecordedStep

LEMMA EndAfterRecorded ==
  ASSUME LogInv, RecordedStep, Working
  PROVE  EndInv'
  <1>t. TypeOK /\ TaskInv
    BY DEF LogInv
  <1>q. /\ Recorded /\ Len(queue) \in Nat /\ Len(queue) > 0 /\ Len(queue') = Len(queue) - 1
        /\ \A i \in 1 .. Len(queue) - 1 : queue'[i] = queue[i + 1]
        /\ appending.type = queue[1].type
    BY Dequeued
  <1>e. (Ending' <=> Ending) /\ (EndDone' <=> EndDone) /\ (EndWritten' <=> EndWritten)
        /\ UNCHANGED <<page, step, ended, lifecycleWrite>>
    BY <1>q, SameEnd DEF Recorded
  <1>w. ~EndWritten
    BY <1>q, EndParts, EmptySeq
  <1>1. CASE page = "starting"
    <2>1. ~Ending /\ ~EndDone /\ ~ended /\ step # "event"
      BY <1>1, EndParts
    <2>2. summary'.status = summary.status
      <3>1. appending.sequence \in Nat
        BY Dequeued DEF Event
      <3> QED
        BY <1>q, <1>t, <3>1, TaskTypes DEF Recorded
    <2> QED
      BY <1>e, <1>w, <2>1, <2>2, EndParts DEF EndInv
  <1>2. CASE page # "starting"
    <2>1. summary' = summary /\ (task' = task \/ task = "recording")
      BY <1>2, RecordedTask
    <2>2. Ending /\ step = "tasks" => (task' # "idle" => awaited' > 0)
      BY <1>2, <2>1, EndParts, RecordedTask
    <2>3. step = "event" =>
            /\ awaited' = Len(queue')
            /\ queue' # << >> => queue'[Len(queue')].type = "system.sessionEnded"
            /\ queue' = << >> => LogEnds'
      <3> SUFFICES ASSUME step = "event"
                   PROVE  /\ awaited' = Len(queue')
                          /\ queue' # << >> => queue'[Len(queue')].type = "system.sessionEnded"
                          /\ queue' = << >> => LogEnds'
        OBVIOUS
      <3>1. awaited = Len(queue) /\ queue[Len(queue)].type = "system.sessionEnded"
        BY <1>q, EmptySeq DEF LogInv, EndInv
      <3>2. awaited' = Len(queue')
        BY <1>2, <1>q, <3>1, RecordedTask DEF OneLess
      <3>3. queue' \in Seq(Input)
        BY <1>q, TypesStay DEF RecordedStep, Next, Progress, TypeOK
      <3>4. CASE Len(queue) = 1
        BY <1>q, <3>1, <3>2, <3>3, <3>4, EmptySeq, RecordedEnds
      <3>5. CASE Len(queue) > 1
        <4>1. Len(queue') \in 1 .. Len(queue) - 1 /\ queue'[Len(queue')] = queue[Len(queue)] /\ Len(queue') # 0
          BY <1>q, <3>5
        <4> QED
          BY <3>1, <3>2, <4>1, EmptySeq
      <3> QED
        BY <1>q, <3>4, <3>5
    <2> QED
      BY <1>e, <1>w, <2>1, <2>2, <2>3, EndParts DEF EndInv
  <1> QED
    BY <1>1, <1>2


LEMMA EndAfterTask ==
  ASSUME LogInv, TaskSkipped \/ TaskBegin \/ TaskSessionCommit \/ TaskCheckpointAsked
                   \/ TaskCheckpointCommit \/ TaskWriteFail
  PROVE  EndInv'
  <1>t. TypeOK /\ TaskInv /\ EndInv
    BY DEF LogInv
  <1>f. /\ UNCHANGED <<page, lifecycle, step, ended, lifecycleWrite, events, sequence, appending>>
    BY DEF TaskSkipped, TaskBegin, TaskSessionCommit, TaskCheckpointAsked, TaskCheckpointCommit,
           TaskWriteFail, FinishTask, database, host, recorder, calls
  <1>e. (Ending' <=> Ending) /\ (EndDone' <=> EndDone) /\ (EndWritten' <=> EndWritten) /\ (LogEnds' <=> LogEnds)
    BY <1>f, SameEnd, SameLogEnds
  <1>1. CASE TaskSkipped \/ TaskSessionCommit \/ TaskWriteFail
    <2>1. task' = "idle" /\ UNCHANGED <<queue, summary>> /\ (step # "tasks" => awaited' = awaited)
      BY <1>1 DEF TaskSkipped, TaskSessionCommit, TaskWriteFail, FinishTask, recorder
    <2> QED
      BY <1>e, <1>f, <1>t, <2>1 DEF EndInv
  <1>2. CASE TaskBegin \/ TaskCheckpointAsked \/ TaskCheckpointCommit
    <2>1. ~ended \/ task # "idle"
      BY <1>2 DEF TaskBegin, TaskCheckpointAsked, TaskCheckpointCommit
    <2>2. ~EndDone /\ (Ending => step = "tasks" /\ ended) /\ step # "event" /\ ~EndWritten
      BY <2>1, EndParts DEF EndWritten
    <2>3. awaited' = awaited
      BY <1>2 DEF TaskBegin, TaskCheckpointAsked, TaskCheckpointCommit, calls
    <2>4. Ending => task # "idle"
      BY <2>1, <2>2
    <2>5. summary'.status = summary.status
      <3>1. sequence \in Nat /\ (task = "checkpoint" => write.sequence \in Nat)
        BY <1>t, RecorderTypes DEF TaskInv, Checkpoint
      <3> QED
        BY <1>2, <1>t, <3>1, TaskTypes DEF TaskBegin, TaskCheckpointAsked, TaskCheckpointCommit
    <2>6. step = "session" => ~ended
      BY <2>2, EndParts
    <2> QED
      BY <1>e, <1>f, <2>2, <2>3, <2>4, <2>5, <2>6, EndParts DEF EndInv
  <1> QED
    BY <1>1, <1>2

LEMMA EndAfterCall ==
  ASSUME LogInv, CallBegin \/ AwaitInputs \/ FlushWrite \/ EndRecord \/ EndWrite
  PROVE  EndInv'
  <1>t. TypeOK /\ TaskInv /\ EndInv /\ CallsInv
    BY DEF LogInv
  <1>f. UNCHANGED <<page, lifecycle, events, sequence, appending, task, tasks>>
    BY DEF CallBegin, AwaitInputs, FlushWrite, EndRecord, EndWrite, database, host, recorder, coordinator
  <1>e. (EndDone' <=> EndDone) /\ (LogEnds' <=> LogEnds)
    BY <1>f, SameLogEnds DEF EndDone
  <1>h. step' # "idle" /\ lifecycle # << >> /\ (Ending' <=> Head(lifecycle).by = "end")
    BY <1>f, <1>t DEF CallBegin, AwaitInputs, FlushWrite, EndRecord, EndWrite, CallsInv, Ending
  <1>d. Head(lifecycle).by = "end" => ~EndDone /\ page = "ending"
    <2>1. 1 \in 1 .. Len(lifecycle) /\ Head(lifecycle) = lifecycle[1]
      BY <1>h, EndFacts
    <2> QED
      BY <1>t, <2>1 DEF EndDone, CallsInv
  <1>1. CASE CallBegin
    <2>1. /\ step = "idle" /\ step' = "tasks" /\ awaited' = tasks
          /\ ended' = (ended \/ Head(lifecycle).by = "end") /\ UNCHANGED <<summary, queue>>
      BY <1>1 DEF CallBegin, recorder
    <2>2. ~Ending /\ (EndWritten <=> EndDone) /\ (EndWritten' <=> EndDone)
      BY <1>e, <2>1 DEF Ending, EndWritten
    <2>3. Ending' => (task # "idle" => tasks > 0)
      BY <1>d, <1>h, <1>t DEF TaskInv
    <2>4. ended' <=> Ending' \/ EndDone'
      BY <1>e, <1>h, <2>1, <2>2, EndParts
    <2>5. EndDone' => task' = "idle"
      BY <1>e, <1>f, EndParts
    <2> QED
      BY <1>e, <1>f, <2>1, <2>2, <2>3, <2>4, <2>5, EndParts DEF EndInv
  <1>2. CASE AwaitInputs
    <2>1. step = "tasks" /\ awaited = 0 /\ step' = "inputs" /\ UNCHANGED <<summary, queue, ended, lifecycleWrite>>
      BY <1>2 DEF AwaitInputs, recorder, coordinator
    <2>2. (Ending' <=> Ending) /\ (EndWritten <=> EndDone) /\ (EndWritten' <=> EndDone)
      BY <1>e, <1>f, <2>1 DEF Ending, EndWritten
    <2>3. Ending => task = "idle"
      BY <2>1, EndParts
    <2> QED
      BY <1>e, <1>f, <2>1, <2>2, <2>3, EndParts DEF EndInv
  <1>3. CASE FlushWrite
    <2>1. /\ step = "inputs" /\ step' = "session" /\ Head(lifecycle).by # "end"
          /\ summary' = [summary EXCEPT !.eventCount = sequence] /\ lifecycleWrite' = summary'
          /\ summary.eventCount # sequence /\ UNCHANGED <<queue, ended>>
      BY <1>3 DEF FlushWrite, recorder
    <2>2. ~EndDone /\ ~Ending /\ ~EndWritten
      BY <2>1, EndParts DEF Ending, EndWritten
    <2>3. ~Ending' /\ ~EndWritten' /\ ~ended'
      BY <1>e, <1>h, <2>1, <2>2, EndParts DEF EndWritten
    <2>4. summary'.status = summary.status
      BY <1>t, <2>1, RecorderTypes, TaskTypes
    <2> QED
      BY <1>e, <2>1, <2>2, <2>3, <2>4, EndParts DEF EndInv
  <1>4. CASE EndRecord
    <2> DEFINE input == PlainInput("system.sessionEnded")
    <2>1. /\ step = "inputs" /\ step' = "event" /\ Head(lifecycle).by = "end"
          /\ queue' = Append(queue, input) /\ awaited' = Len(queue') /\ UNCHANGED <<summary, ended>>
      BY <1>4 DEF EndRecord, coordinator
    <2>2. queue' # << >> /\ queue'[Len(queue')].type = "system.sessionEnded"
      <3>1. input \in Input /\ queue \in Seq(Input) /\ input.type = "system.sessionEnded"
        BY <1>t, PlainInputIsInput DEF EventType, PlainInput, TypeOK
      <3> HIDE DEF input
      <3> QED
        BY <2>1, <3>1, AppendFacts
    <2>3. Ending /\ Ending' /\ ~EndDone /\ ~EndWritten /\ ~EndWritten'
      BY <1>d, <1>e, <1>h, <2>1 DEF Ending, EndWritten
    <2> QED
      BY <1>e, <1>f, <2>1, <2>2, <2>3, EndParts DEF EndInv
  <1>5. CASE EndWrite
    <2>1. /\ step = "event" /\ awaited = 0 /\ step' = "session" /\ lifecycleWrite' = summary'
          /\ summary' = [status |-> "ended",
                         eventCount |-> IF summary.eventCount > sequence THEN summary.eventCount ELSE sequence]
          /\ UNCHANGED <<queue, ended>>
      BY <1>5 DEF EndWrite, recorder
    <2>2. Ending /\ Ending' /\ ~EndDone /\ EndWritten'
      BY <1>h, <2>1, EndParts DEF Ending, EndWritten
    <2>3. queue = << >> /\ LogEnds
      <3>1. queue \in Seq(Input) /\ Len(queue) = 0
        BY <1>t, <2>1 DEF EndInv, TypeOK
      <3>2. queue = << >>
        BY <3>1, EmptySeq
      <3> QED
        BY <1>t, <2>1, <3>2 DEF EndInv
    <2>4. summary' = [status |-> "ended", eventCount |-> sequence]
      <3>1. summary.eventCount <= sequence /\ summary.eventCount \in Nat /\ sequence \in Nat
        BY <1>t, <2>2, EndParts, RecorderTypes, TaskTypes DEF TaskInv, Working
      <3> QED
        BY <2>1, <3>1
    <2> QED
      BY <1>e, <1>f, <2>1, <2>2, <2>3, <2>4, EndParts DEF EndInv
  <1> QED
    BY <1>1, <1>2, <1>3, <1>4, <1>5


\* The end has settled when its call has; no other call changes whether it has.
LEMMA DoneAfterSettled ==
  ASSUME LogInv, Settles
  PROVE  /\ Head(lifecycle).by = "end" => Ending /\ step = "session" /\ EndDone'
         /\ Head(lifecycle).by # "end" => ~Ending /\ (EndDone' <=> EndDone)
  <1>t. CallsInv
    BY DEF LogInv
  <1>s. /\ lifecycle # << >> /\ step' = "idle" /\ step \in {"inputs", "session"}
        /\ Len(lifecycle) \in Nat /\ Len(lifecycle) > 0 /\ Len(lifecycle') = Len(lifecycle) - 1
        /\ Head(lifecycle) = lifecycle[1] /\ page' = page
        /\ \A i \in 1 .. Len(lifecycle') : lifecycle'[i] = lifecycle[i + 1]
    BY Settled
  <1>m. \A i \in 1 .. Len(lifecycle') : i + 1 \in 2 .. Len(lifecycle)
    BY <1>s
  <1>1. CASE Head(lifecycle).by = "end"
    <2>1. Ending /\ step = "session" /\ page = "ending"
      <3>1. step = "session" /\ Ending
        BY <1>1, <1>s DEF Settles, FlushNothing, CallCommit, CallWriteFail, Ending
      <3> QED
        BY <3>1, EndParts
    <2>2. \A i \in 1 .. Len(lifecycle') : lifecycle'[i].by # "end"
      <3> SUFFICES ASSUME NEW i \in 1 .. Len(lifecycle'), lifecycle'[i].by = "end" PROVE FALSE
        OBVIOUS
      <3>1. /\ i + 1 \in 1 .. Len(lifecycle) /\ 1 \in 1 .. Len(lifecycle) /\ i + 1 # 1
            /\ lifecycle[i + 1].by = "end" /\ lifecycle[1].by = "end"
        BY <1>1, <1>m, <1>s
      <3> QED
        BY <1>t, <3>1 DEF CallsInv
    <2>3. EndDone'
      BY <1>s, <2>1, <2>2 DEF EndDone
    <2> QED
      BY <1>1, <2>1, <2>3
  <1>2. CASE Head(lifecycle).by # "end"
    <2>1. EndDone' <=> EndDone
      <3>1. ASSUME EndDone PROVE EndDone'
        <4>1. \A i \in 1 .. Len(lifecycle') : i + 1 \in 1 .. Len(lifecycle)
          BY <1>s
        <4> QED
          BY <1>s, <3>1, <4>1 DEF EndDone
      <3>2. ASSUME EndDone' PROVE EndDone
        <4> SUFFICES ASSUME NEW j \in 1 .. Len(lifecycle), lifecycle[j].by = "end" PROVE FALSE
          BY <1>s, <3>2 DEF EndDone
        <4>1. j # 1
          BY <1>2, <1>s
        <4>2. j - 1 \in 1 .. Len(lifecycle') /\ (j - 1) + 1 = j
          BY <1>s, <4>1
        <4>3. lifecycle'[j - 1] = lifecycle[j]
          BY <1>s, <4>2
        <4> QED
          BY <3>2, <4>2, <4>3 DEF EndDone
      <3> QED
        BY <3>1, <3>2
    <2> QED
      BY <1>2, <2>1 DEF Ending
  <1> QED
    BY <1>1, <1>2

LEMMA EndAfterSettled ==
  ASSUME LogInv, Settles
  PROVE  EndInv'
  <1>t. EndInv /\ CallsInv
    BY DEF LogInv
  <1>s. /\ lifecycle # << >> /\ step' = "idle" /\ step \in {"inputs", "session"}
        /\ Len(lifecycle) \in Nat /\ Len(lifecycle) > 0 /\ Len(lifecycle') = Len(lifecycle) - 1
        /\ Head(lifecycle) = lifecycle[1]
        /\ \A i \in 1 .. Len(lifecycle') : lifecycle'[i] = lifecycle[i + 1]
        /\ UNCHANGED <<page, ended, summary, task, queue, sequence, appending, events, tasks, awaited>>
    BY Settled
  <1>l. LogEnds' <=> LogEnds
    BY <1>s, SameLogEnds
  <1>e. ~Ending' /\ (EndWritten' <=> EndDone')
    BY <1>s DEF Ending, EndWritten
  <1>1. CASE Head(lifecycle).by = "end"
    <2>1. Ending /\ step = "session" /\ EndWritten /\ ended /\ page = "ending" /\ EndDone'
      BY <1>1, DoneAfterSettled, EndParts DEF EndWritten
    <2>2. task = "idle"
      BY <2>1, EndParts
    <2> QED
      BY <1>e, <1>l, <1>s, <2>1, <2>2, EndParts DEF EndInv
  <1>2. CASE Head(lifecycle).by # "end"
    <2>1. ~Ending /\ (EndDone' <=> EndDone) /\ (EndWritten <=> EndDone)
      BY <1>2, DoneAfterSettled DEF EndWritten
    <2> QED
      BY <1>e, <1>l, <1>s, <2>1, EndParts DEF EndInv
  <1> QED
    BY <1>1, <1>2

LEMMA DoneAfterAsked ==
  ASSUME LogInv, Asked
  PROVE  EndDone' <=> EndDone
  <1>s. /\ Len(lifecycle) \in Nat /\ Len(lifecycle') = Len(lifecycle) + 1
        /\ \A i \in 1 .. Len(lifecycle) : lifecycle'[i] = lifecycle[i]
        /\ lifecycle'[Len(lifecycle) + 1].by = "end" <=> DisposeEnd
    BY AskedLast
  <1>1. CASE DisposeEnd
    <2>1. page # "ending"
      BY <1>1 DEF DisposeEnd
    <2>2. Len(lifecycle) + 1 \in 1 .. Len(lifecycle')
      BY <1>s
    <2> QED
      BY <1>s, <1>1, <2>1, <2>2 DEF EndDone
  <1>2. CASE ~DisposeEnd
    <2>1. page' = "ending" <=> page = "ending"
      <3>1. CASE Hide
        BY <3>1 DEF Hide
      <3>2. CASE Dispose
        BY <3>2 DEF Dispose
      <3> QED
        BY <1>2, <3>1, <3>2 DEF Asked
    <2>2. \A i \in 1 .. Len(lifecycle') : lifecycle'[i].by = "end" =>
             i \in 1 .. Len(lifecycle) /\ lifecycle'[i] = lifecycle[i]
      BY <1>s, <1>2
    <2>3. \A i \in 1 .. Len(lifecycle) : i \in 1 .. Len(lifecycle')
      BY <1>s
    <2> QED
      BY <1>s, <2>1, <2>2, <2>3 DEF EndDone
  <1> QED
    BY <1>1, <1>2

LEMMA EndAfterAsked ==
  ASSUME LogInv, Asked
  PROVE  EndInv'
  <1>t. EndInv /\ CallsInv
    BY DEF LogInv
  <1>s. /\ Len(lifecycle) \in Nat /\ Len(lifecycle') = Len(lifecycle) + 1 /\ lifecycle' # << >>
        /\ \A i \in 1 .. Len(lifecycle) : lifecycle'[i] = lifecycle[i]
        /\ lifecycle'[Len(lifecycle) + 1].by = "end" <=> DisposeEnd
        /\ Head(lifecycle') = lifecycle'[1]
    BY AskedLast
  <1>u. UNCHANGED <<events, queue, sequence, appending, summary, task, ended, step, awaited, lifecycleWrite>>
    BY AskedLast DEF database, recorder, coordinator
  <1>l. LogEnds' <=> LogEnds
    BY <1>u, SameLogEnds
  <1>e. Ending' <=> Ending
    <2>1. step # "idle" => lifecycle # << >> /\ Len(lifecycle) > 0 /\ Head(lifecycle) = lifecycle[1]
      BY <1>t, EndFacts DEF CallsInv
    <2>2. step # "idle" => Head(lifecycle') = Head(lifecycle)
      BY <1>s, <2>1
    <2> QED
      BY <1>s, <1>u, <2>1, <2>2 DEF Ending
  <1>d. EndDone' <=> EndDone
    BY DoneAfterAsked
  <1>w. EndWritten' <=> EndWritten
    BY <1>d, <1>e, <1>u DEF EndWritten
  <1> QED
    BY <1>t, <1>u, <1>l, <1>e, <1>d, <1>w DEF EndInv

LEMMA EndStays ==
  ASSUME LogInv, Next
  PROVE  EndInv'
  <1>t. MemoryInv /\ TaskInv /\ EndInv
    BY DEF LogInv
  <1>1. CASE ~Working' /\ MemoryInv'
    <2>1. ~Ending' /\ ~EndDone' /\ ~EndWritten' /\ step' = "idle" /\ ~ended' /\ summary'.status = "active"
      BY <1>1 DEF MemoryInv, Working, Ending, EndDone, EndWritten
    <2> QED
      BY <2>1 DEF EndInv
  <1>2. CASE PutInitialCheckpoint /\ ~Working
    <2>1. /\ lifecycle' = << >> /\ step' = "idle" /\ ~ended' /\ page' = "starting"
          /\ summary' = [status |-> "active", eventCount |-> 0]
      BY <1>2, <1>t DEF PutInitialCheckpoint, MemoryInv, coordinator, calls
    <2>2. ~Ending' /\ ~EndDone' /\ ~EndWritten'
      BY <2>1 DEF Ending, EndDone, EndWritten
    <2> QED
      BY <2>1, <2>2 DEF EndInv
  <1>3. CASE AppendBegin
    <2>1. /\ queue # << >> /\ UNCHANGED <<page, lifecycle, step, queue, ended, summary, task, awaited, lifecycleWrite>>
      BY <1>3 DEF AppendBegin, host, coordinator, calls
    <2>2. (Ending' <=> Ending) /\ (EndDone' <=> EndDone) /\ (EndWritten' <=> EndWritten)
      BY <2>1, SameEnd
    <2> QED
      BY <1>t, <2>1, <2>2 DEF EndInv
  <1>4. CASE RecordedStep /\ Working
    BY <1>4, EndAfterRecorded
  <1>5. CASE TaskSkipped \/ TaskBegin \/ TaskSessionCommit \/ TaskCheckpointAsked
               \/ TaskCheckpointCommit \/ TaskWriteFail
    BY <1>5, EndAfterTask
  <1>6. CASE CallBegin \/ AwaitInputs \/ FlushWrite \/ EndRecord \/ EndWrite
    BY <1>6, EndAfterCall
  <1>7. CASE Settles
    BY <1>7, EndAfterSettled
  <1>8. CASE Asked
    BY <1>8, EndAfterAsked
  <1>9. CASE Started \/ Command \/ HistoryMove \/ Other
    <2>1. UNCHANGED <<lifecycle, step, ended, lifecycleWrite, summary>>
      BY <1>9, CallsFrame DEF Started, Command, HistoryMove, Other, coordinator
    <2>2. page # "ending" /\ page' # "ending"
      BY <1>9, <1>t DEF Started, Command, HistoryMove, Other, Usable, TaskInv
    <2>3. ~Ending /\ ~EndDone /\ ~EndDone' /\ ~ended /\ step # "event"
      BY <2>2, EndParts DEF EndDone
    <2>4. ~Ending' /\ ~EndWritten' /\ ~EndWritten
      BY <2>1, <2>3 DEF Ending, EndWritten
    <2> QED
      BY <2>1, <2>3, <2>4, EndParts DEF EndInv
  <1> QED
    BY StepCases, MemoryStays, <1>1, <1>2, <1>3, <1>4, <1>5, <1>6, <1>7, <1>8, <1>9
       DEF Inside, RecordedStep, Settles, Asked

-----------------------------------------------------------------------------
(* The stored session.                                                     *)

\* Whether the end has settled changes with the page's calls only.
LEMMA DoneAfter ==
  ASSUME LogInv, Inside, ~Settles
  PROVE  EndDone' <=> EndDone
  <1>1. CASE Asked
    BY <1>1, DoneAfterAsked
  <1>2. CASE \/ AppendBegin \/ RecordedStep \/ TaskSkipped \/ TaskBegin \/ TaskSessionCommit \/ TaskCheckpointAsked
             \/ TaskCheckpointCommit \/ TaskWriteFail \/ Command \/ HistoryMove \/ Other
    BY <1>2, CallsFrame DEF EndDone, Started, Command, HistoryMove, Other, AppendBegin, RecordedStep, AppendCommit,
       AppendReject, AppendFail, Recorded, TaskSkipped, TaskBegin, TaskSessionCommit, TaskCheckpointAsked,
       TaskCheckpointCommit, TaskWriteFail, host
  <1>3. CASE CallBegin \/ AwaitInputs \/ FlushWrite \/ EndRecord \/ EndWrite
    BY <1>3 DEF CallBegin, AwaitInputs, FlushWrite, EndRecord, EndWrite, EndDone, host
  <1>4. CASE Started
    BY <1>4 DEF LogInv, TaskInv, Started, EndDone
  <1> QED
    BY <1>1, <1>2, <1>3, <1>4 DEF Inside, RecordedStep, Settles, Asked

\* Once the end has settled, the coordinator's session stays as it wrote it.
LEMMA SummaryKept ==
  ASSUME LogInv, Inside, EndDone, EndDone'
  PROVE  summary' = summary
  <1>1. queue = << >> /\ summary = [status |-> "ended", eventCount |-> sequence]
    BY EndParts DEF EndWritten
  <1>2. ~RecordedStep /\ ~AppendBegin
    BY <1>1, Dequeued, EmptySeq DEF AppendBegin
  <1>3. sequence' = sequence
    BY <1>2, RecorderFrame
  <1>4. EndInv'
    BY EndStays DEF Inside, Next, Progress, Environment
  <1> QED
    BY <1>1, <1>3, <1>4 DEF EndInv, EndWritten

SessionWritten == TaskSessionCommit \/ TaskCheckpointAsked \/ Started \/ CallCommit

LEMMA SessionFrame ==
  ASSUME Inside, ~SessionWritten
  PROVE  /\ session' = session
         /\ page' \in {"open", "disposing", "ending"} => page \in {"open", "disposing", "ending"}
  <1>1. CASE AppendBegin \/ RecordedStep
    BY <1>1 DEF AppendBegin, RecordedStep, AppendCommit, AppendReject, AppendFail, Recorded, database, host
  <1>2. CASE TaskSkipped \/ TaskBegin \/ TaskCheckpointCommit \/ TaskWriteFail
    BY <1>2 DEF TaskSkipped, TaskBegin, TaskCheckpointCommit, TaskWriteFail, database, host
  <1>3. CASE CallBegin \/ AwaitInputs \/ FlushNothing \/ FlushWrite \/ EndRecord \/ EndWrite \/ CallWriteFail
    BY <1>3 DEF CallBegin, AwaitInputs, FlushNothing, FlushWrite, EndRecord, EndWrite, CallWriteFail, database, host
  <1>4. CASE DisposeEnd \/ Command \/ HistoryMove \/ Other \/ Hide \/ Dispose
    BY <1>4 DEF DisposeEnd, Command, HistoryMove, Other, Hide, Dispose, database
  <1> QED
    BY <1>1, <1>2, <1>3, <1>4 DEF Inside, SessionWritten, RecordedStep

LEMMA FailuresGrow ==
  ASSUME TypeOK, Next, used'.failures = 0
  PROVE  used.failures = 0 /\ ~AppendFail /\ ~TaskWriteFail /\ ~CallWriteFail
  <1>1. used \in Bounds /\ used.failures \in Nat /\ used.loads \in Nat
    BY OperationLogAssumption DEF TypeOK, Bounds
  <1>2. ASSUME used' = Used("failures") PROVE FALSE
    BY <1>1, <1>2 DEF Used, Bounds
  <1>3. \A bound \in {"operations", "flushes", "loads"} : Used(bound).failures = used.failures
    BY <1>1 DEF Used, Bounds
  <1>4. ~AppendFail /\ ~TaskWriteFail /\ ~CallWriteFail
    BY <1>2 DEF AppendFail, TaskWriteFail, CallWriteFail
  <1>5. CASE Load \/ Command \/ HistoryMove \/ Other \/ Hide
    BY <1>3, <1>4, <1>5 DEF Load, Command, HistoryMove, Other, Hide
  <1>6. CASE used' = used
    BY <1>4, <1>6
  <1>7. CASE ~(Load \/ Command \/ HistoryMove \/ Other \/ Hide)
    <2>1. CASE AppendBegin \/ AppendCommit \/ AppendReject
      BY <2>1, <1>6 DEF AppendBegin, AppendCommit, AppendReject, host
    <2>2. CASE TaskSkipped \/ TaskBegin \/ TaskSessionCommit \/ TaskCheckpointAsked \/ TaskCheckpointCommit
      BY <2>2, <1>6 DEF TaskSkipped, TaskBegin, TaskSessionCommit, TaskCheckpointAsked, TaskCheckpointCommit, host
    <2>3. CASE CallBegin \/ AwaitInputs \/ FlushNothing \/ FlushWrite \/ EndRecord \/ EndWrite \/ CallCommit
      BY <2>3, <1>6 DEF CallBegin, AwaitInputs, FlushNothing, FlushWrite, EndRecord, EndWrite, CallCommit, host
    <2>4. CASE Recover \/ Restore \/ PutInitialCheckpoint \/ Started \/ DisposeEnd \/ Close \/ Dispose \/ Crash
      BY <2>4, <1>6 DEF Recover, Restore, PutInitialCheckpoint, Started, DisposeEnd, Close, Dispose, Crash
    <2> QED
      BY <1>4, <1>7, <2>1, <2>2, <2>3, <2>4 DEF Next, Progress, Environment
  <1> QED
    BY <1>4, <1>5, <1>7

LEMMA SessionStays ==
  ASSUME LogInv, Next
  PROVE  SessionInv'
  <1>t. SessionInv /\ TaskInv /\ CallsInv /\ TypeOK
    BY DEF LogInv
  <1>1. CASE ~Working' \/ PutInitialCheckpoint
    BY <1>1 DEF SessionInv, EndDone, Working, PutInitialCheckpoint
  <1>2. CASE Started
    BY <1>2, <1>t DEF Started, SessionInv, TaskInv, EndDone
  <1>3. CASE TaskSessionCommit \/ TaskCheckpointAsked
    <2>1. session' = write /\ task # "idle" /\ write \in Session /\ write.status = "active"
      BY <1>3, <1>t DEF TaskSessionCommit, TaskCheckpointAsked, TaskInv
    <2>2. ~EndDone
      BY <2>1, EndParts
    <2>3. ~EndDone'
      BY <1>3, <2>2, CallsFrame DEF EndDone, TaskSessionCommit, TaskCheckpointAsked, host
    <2> QED
      BY <2>1, <2>3 DEF SessionInv
  <1>4. CASE CallCommit
    <2>1. /\ step = "session" /\ session' = lifecycleWrite /\ lifecycleWrite \in Session
          /\ lifecycleWrite.status = summary.status /\ (ended => lifecycleWrite = summary)
          /\ summary' = summary
      BY <1>4, <1>t, EndParts DEF CallCommit, CallsInv, coordinator
    <2>2. CASE Head(lifecycle).by = "end"
      <3>1. EndDone' /\ ended
        BY <1>4, <2>2, DoneAfterSettled, EndParts DEF Settles
      <3> QED
        BY <2>1, <3>1 DEF SessionInv
    <2>3. CASE Head(lifecycle).by # "end"
      <3>1. ~Ending /\ (EndDone' <=> EndDone)
        BY <1>4, <2>3, DoneAfterSettled DEF Settles
      <3>2. EndDone => session' = summary
        BY <2>1, EndParts
      <3>3. ~EndDone => summary.status = "active"
        BY <3>1, EndParts DEF EndWritten
      <3> QED
        BY <2>1, <3>1, <3>2, <3>3 DEF SessionInv
    <2> QED
      BY <2>2, <2>3
  <1>5. CASE Inside /\ ~SessionWritten
    <2>1. session' = session
          /\ (page' \in {"open", "disposing", "ending"} => page \in {"open", "disposing", "ending"})
      BY <1>5, SessionFrame
    <2>2. EndDone => EndDone'
      BY <1>5, DoneAfter, DoneAfterSettled, EndParts
    <2>3. EndDone' /\ used'.failures = 0 => EndDone /\ used.failures = 0
      <3> SUFFICES ASSUME EndDone', used'.failures = 0 PROVE EndDone /\ used.failures = 0
        OBVIOUS
      <3>1. used.failures = 0 /\ ~CallWriteFail
        BY <1>t, FailuresGrow
      <3>2. CASE ~Settles
        BY <1>5, <3>1, <3>2, DoneAfter
      <3>3. CASE FlushNothing
        BY <3>1, <3>3, DoneAfterSettled DEF FlushNothing, Settles
      <3> QED
        BY <1>5, <3>1, <3>2, <3>3 DEF Settles, SessionWritten
    <2>4. EndDone /\ EndDone' => summary' = summary
      BY <1>5, SummaryKept
    <2> QED
      BY <1>t, <2>1, <2>2, <2>3, <2>4 DEF SessionInv
  <1> QED
    BY StepCases, <1>1, <1>2, <1>3, <1>4, <1>5 DEF SessionWritten

-----------------------------------------------------------------------------
(* Edits that are in the log or on their way to it.                        *)

LEMMA HeldGrows ==
  ASSUME NEW log, NEW log2, NEW inputs, NEW inputs2, NEW n \in Nat, NEW m \in Nat,
         Len(log) \in Nat, Len(log2) \in Nat, Len(log) <= Len(log2),
         \A i \in 1 .. Len(log) : log2[i] = log[i],
         n <= m, \A i \in 1 .. n : inputs2[i] = inputs[i],
         NEW edit, HeldIn(edit, log, inputs, n)
  PROVE  HeldIn(edit, log2, inputs2, m)
  <1>1. CASE \E j \in 1 .. Len(log) : IsEdit(log[j]) /\ Last(log[j].document) = edit
    <2>1. PICK j \in 1 .. Len(log) : IsEdit(log[j]) /\ Last(log[j].document) = edit
      BY <1>1
    <2>2. j \in 1 .. Len(log2) /\ log2[j] = log[j]
      OBVIOUS
    <2> QED
      BY <2>1, <2>2 DEF HeldIn
  <1>2. CASE \E j \in 1 .. n : IsEdit(inputs[j]) /\ Last(inputs[j].document) = edit
    <2>1. PICK j \in 1 .. n : IsEdit(inputs[j]) /\ Last(inputs[j].document) = edit
      BY <1>2
    <2>2. j \in 1 .. m /\ inputs2[j] = inputs[j]
      OBVIOUS
    <2> QED
      BY <2>1, <2>2 DEF HeldIn
  <1> QED
    BY <1>1, <1>2 DEF HeldIn

\* The first input becomes the log's last event.
LEMMA HeldMoves ==
  ASSUME NEW log, NEW log2, NEW inputs, NEW inputs2, NEW N \in Nat, NEW n \in 0 .. N,
         Len(log) \in Nat, Len(log2) = Len(log) + 1,
         \A i \in 1 .. Len(log) : log2[i] = log[i],
         \A i \in 1 .. N - 1 : inputs2[i] = inputs[i + 1],
         IsEdit(inputs[1]) => /\ IsEdit(log2[Len(log) + 1])
                              /\ log2[Len(log) + 1].document = inputs[1].document,
         NEW edit, HeldIn(edit, log, inputs, n)
  PROVE  HeldIn(edit, log2, inputs2, OneLess(n))
  <1>1. CASE \E j \in 1 .. Len(log) : IsEdit(log[j]) /\ Last(log[j].document) = edit
    <2>1. PICK j \in 1 .. Len(log) : IsEdit(log[j]) /\ Last(log[j].document) = edit
      BY <1>1
    <2>2. j \in 1 .. Len(log2) /\ log2[j] = log[j]
      OBVIOUS
    <2> QED
      BY <2>1, <2>2 DEF HeldIn
  <1>2. CASE \E j \in 1 .. n : IsEdit(inputs[j]) /\ Last(inputs[j].document) = edit
    <2>1. PICK j \in 1 .. n : IsEdit(inputs[j]) /\ Last(inputs[j].document) = edit
      BY <1>2
    <2>2. CASE j = 1
      <3>1. Len(log) + 1 \in 1 .. Len(log2)
        OBVIOUS
      <3> QED
        BY <2>1, <2>2, <3>1 DEF HeldIn
    <2>3. CASE j # 1
      <3>1. j - 1 \in 1 .. OneLess(n) /\ inputs2[j - 1] = inputs[j]
        BY <2>3 DEF OneLess
      <3> QED
        BY <2>1, <3>1 DEF HeldIn
    <2> QED
      BY <2>2, <2>3
  <1> QED
    BY <1>1, <1>2 DEF HeldIn

LEMMA RangeFacts ==
  ASSUME NEW S, NEW d \in Seq(S), NEW e \in S
  PROVE  /\ Range(Append(d, e)) = Range(d) \cup {e}
         /\ Last(Append(d, e)) = e
  <1>1. /\ Append(d, e) \in Seq(S) /\ Len(d) \in Nat /\ Len(Append(d, e)) = Len(d) + 1
        /\ Append(d, e)[Len(d) + 1] = e
        /\ \A i \in 1 .. Len(d) : Append(d, e)[i] = d[i]
    BY AppendFacts
  <1>2. DOMAIN d = 1 .. Len(d) /\ DOMAIN Append(d, e) = 1 .. Len(d) + 1
    BY <1>1, LenProperties
  <1>3. Range(Append(d, e)) = Range(d) \cup {e}
    BY <1>1, <1>2 DEF Range
  <1>4. Last(Append(d, e)) = e
    BY <1>1 DEF Last
  <1> QED
    BY <1>3, <1>4

LEMMA NothingInEmpty == Range(<< >>) = {}
BY DEF Range

\* What an edit of the document adds to it is the last input's.
LEMMA EditedFacts ==
  ASSUME LogInv, Command \/ HistoryMove, document' # document \/ document' = Edited
  PROVE  /\ document' = Edited
         /\ Range(document') = Range(document) \cup {Last(document')}
         /\ \E i \in Len(queue) + 1 .. Len(queue') :
              IsEdit(queue'[i]) /\ queue'[i].document = document'
  <1>t. /\ queue \in Seq(Input) /\ document \in Documents /\ used \in Bounds
        /\ document' \in Documents /\ Len(queue) \in Nat
    BY TypesStay, RecorderTypes DEF LogInv, TypeOK, Next, Environment, Bounds
  <1>1. used.operations + 1 \in 1 .. MaxOperations
    <2>1. used.operations < MaxOperations /\ used.operations \in 0 .. MaxOperations
      BY <1>t DEF Command, HistoryMove, Bounds
    <2> QED
      BY <2>1, OperationLogAssumption
  <1>2. Edited # document /\ Range(Edited) = Range(document) \cup {Last(Edited)}
    <2>1. Range(Edited) = Range(document) \cup {Last(Edited)}
      <3>1. document \in Seq(1 .. MaxOperations)
        BY <1>t DEF Documents
      <3>2. \A e \in 1 .. MaxOperations : Range(Append(document, e)) = Range(document) \cup {e}
                                         /\ Last(Append(document, e)) = e
        BY <3>1, RangeFacts
      <3> QED
        BY <1>1, <3>2 DEF Edited
    <2>2. Len(Edited) = Len(document) + 1 /\ Len(document) \in Nat
      BY <1>t, <1>1, AppendFacts DEF Edited, Documents
    <2> QED
      BY <2>1, <2>2
  <1>3. CASE Command
    <2>1. PICK type \in DocumentEvent :
            /\ document' = IF type = "document.command" THEN Edited ELSE document
            /\ queue' = queue \o <<PlainInput("other"), [type |-> type, document |-> document']>>
      BY <1>3 DEF Command
    <2> DEFINE input == [type |-> type, document |-> document']
               both == <<PlainInput("other"), input>>
    <2>2. document' = Edited /\ type = "document.command"
      BY <1>2, <2>1
    <2>3. input \in Input /\ PlainInput("other") \in Input /\ IsEdit(input) /\ input.document = document'
      BY <1>t, <2>2, PlainInputIsInput DEF Input, EventType, IsEdit, DocumentEvent
    <2> HIDE DEF input
    <2>4. both \in Seq(Input) /\ Len(both) = 2 /\ both[2] = input
      BY <2>3
    <2> HIDE DEF both
    <2>5. Len(queue') = Len(queue) + 2 /\ queue'[Len(queue) + 2] = input
      BY <1>t, <2>1, <2>4, ConcatProperties DEF both, input
    <2>6. Len(queue) + 2 \in Len(queue) + 1 .. Len(queue')
      BY <1>t, <2>5
    <2> QED
      BY <1>2, <2>2, <2>3, <2>5, <2>6
  <1>4. CASE HistoryMove
    <2> DEFINE input == [type |-> "history", document |-> Edited]
    <2>1. document' = Edited /\ queue' = Append(queue, input)
      BY <1>4 DEF HistoryMove
    <2>2. input \in Input /\ IsEdit(input) /\ input.document = document'
      BY <1>t, <2>1 DEF Input, EventType, IsEdit
    <2> HIDE DEF input
    <2>3. Len(queue') = Len(queue) + 1 /\ queue'[Len(queue) + 1] = input
      BY <1>t, <2>1, <2>2, AppendFacts
    <2>4. Len(queue) + 1 \in Len(queue) + 1 .. Len(queue')
      BY <1>t, <2>3
    <2> QED
      BY <1>2, <2>1, <2>2, <2>3, <2>4
  <1> QED
    BY <1>3, <1>4

\* A store that lost an event is never in step again in the same page load.
LEMMA InStepBefore ==
  ASSUME LogInv, Inside, Working, InStep'
  PROVE  InStep
  <1>n. /\ LastSequence = Len(events) /\ Len(events) \in Nat /\ sequence \in Nat
        /\ sequence >= Len(events) + (IF appending = NoEvent THEN 0 ELSE 1)
    BY RecorderTypes, LastIsLength DEF LogInv, NumbersInv
  <1>1. CASE AppendCommit
    BY <1>1, CommitFacts
  <1>2. CASE AppendReject \/ AppendFail
    <2>1. appending # NoEvent /\ appending' = NoEvent /\ UNCHANGED <<events, sequence>>
      BY <1>2 DEF AppendReject, AppendFail, Recorded
    <2>2. LastSequence' = LastSequence
      BY <2>1 DEF LastSequence
    <2>3. sequence = Len(events)
      BY <1>n, <2>1, <2>2 DEF InStep
    <2> QED
      BY <1>n, <2>1, <2>3
  <1>3. CASE AppendBegin
    <2>1. appending = NoEvent /\ sequence' = sequence + 1 /\ UNCHANGED events
      BY <1>3 DEF AppendBegin, database
    <2>2. LastSequence' = LastSequence
      BY <2>1 DEF LastSequence
    <2>3. sequence + 1 = LastSequence + (IF appending' = NoEvent THEN 0 ELSE 1)
      BY <2>1, <2>2 DEF InStep
    <2> QED
      BY <1>n, <2>1, <2>3 DEF InStep
  <1>4. CASE ~RecordedStep /\ ~AppendBegin
    BY <1>4, RecorderFrame DEF InStep, LastSequence
  <1> QED
    BY <1>1, <1>2, <1>3, <1>4 DEF RecordedStep

\* The conjuncts of HeldInv.
HeldDocument == \A edit \in Range(document) : Held(edit, Len(queue))

HeldInputs == \A i \in 1 .. Len(queue) : IsEdit(queue[i]) =>
                \A edit \in Range(queue[i].document) : Held(edit, i)

HeldCalls ==
  /\ \A i \in 1 .. Len(lifecycle) : Range(lifecycle[i].document) \subseteq Range(document)
  /\ step \in {"inputs", "event"} =>
       /\ awaited <= Len(queue)
       /\ \A edit \in Range(Head(lifecycle).document) : Held(edit, awaited)
  /\ step = "session" => \A edit \in Range(Head(lifecycle).document) : Held(edit, 0)

LEMMA HeldParts == HeldInv <=> (InStep => HeldDocument /\ HeldInputs /\ HeldCalls)
BY DEF HeldInv, HeldDocument, HeldInputs, HeldCalls

LEMMA HeldAfterCommit ==
  ASSUME LogInv, AppendCommit
  PROVE  HeldDocument' /\ HeldInputs' /\ HeldCalls'
  <1>c. /\ InStep /\ Len(events') = Len(events) + 1 /\ events'[Len(events) + 1] = appending
        /\ \A i \in 1 .. Len(events) : events'[i] = events[i]
    BY CommitFacts
  <1>h. HeldDocument /\ HeldInputs /\ HeldCalls
    BY <1>c, HeldParts DEF LogInv
  <1>q. /\ Recorded /\ Len(queue) \in Nat /\ Len(queue) > 0 /\ Len(queue') = Len(queue) - 1
        /\ \A i \in 1 .. Len(queue) - 1 : queue'[i] = queue[i + 1]
        /\ appending.type = queue[1].type
        /\ appending.type # "system.checkpoint" => appending.document = queue[1].document
    BY Dequeued DEF RecordedStep
  <1>t. Len(events) \in Nat /\ awaited \in Nat
    BY RecorderTypes, TaskTypes DEF LogInv
  <1>e. IsEdit(queue[1]) => IsEdit(appending) /\ appending.document = queue[1].document
    BY <1>q DEF IsEdit
  <1>m. \A n \in 0 .. Len(queue) : \A edit :
          HeldIn(edit, events, queue, n) => HeldIn(edit, events', queue', OneLess(n))
    BY <1>c, <1>q, <1>t, <1>e, HeldMoves
  <1>u. UNCHANGED <<document, lifecycle, step>>
    BY <1>q DEF Recorded
  <1>1. HeldDocument'
    <2>1. Len(queue) \in 0 .. Len(queue) /\ OneLess(Len(queue)) = Len(queue')
      BY <1>q DEF OneLess
    <2>2. \A edit \in Range(document) : HeldIn(edit, events', queue', Len(queue'))
      BY <1>h, <1>m, <2>1 DEF HeldDocument, Held
    <2> QED
      BY <1>u, <2>2 DEF HeldDocument, Held
  <1>2. HeldInputs'
    <2> SUFFICES ASSUME NEW i \in 1 .. Len(queue'), IsEdit(queue'[i]), NEW edit \in Range(queue'[i].document)
                 PROVE  HeldIn(edit, events', queue', i)
      BY DEF HeldInputs, Held
    <2>1. i + 1 \in 1 .. Len(queue) /\ i + 1 \in 0 .. Len(queue) /\ queue'[i] = queue[i + 1] /\ OneLess(i + 1) = i
      BY <1>q DEF OneLess
    <2>2. HeldIn(edit, events, queue, i + 1)
      BY <1>h, <2>1 DEF HeldInputs, Held
    <2> QED
      BY <1>m, <2>1, <2>2
  <1>3. HeldCalls'
    <2>1. step \in {"inputs", "event"} =>
            /\ awaited' <= Len(queue')
            /\ \A edit \in Range(Head(lifecycle).document) : HeldIn(edit, events', queue', awaited')
      <3> SUFFICES ASSUME step \in {"inputs", "event"}
                   PROVE  /\ awaited' <= Len(queue')
                          /\ \A edit \in Range(Head(lifecycle).document) : HeldIn(edit, events', queue', awaited')
        OBVIOUS
      <3>1. awaited' = OneLess(awaited)
        BY <1>q DEF Recorded
      <3>2. awaited <= Len(queue) /\ \A edit \in Range(Head(lifecycle).document) : HeldIn(edit, events, queue, awaited)
        BY <1>h DEF HeldCalls, Held
      <3>3. awaited \in 0 .. Len(queue)
        BY <1>q, <1>t, <3>2
      <3>4. awaited' <= Len(queue')
        BY <1>q, <1>t, <3>1, <3>2 DEF OneLess
      <3>5. \A edit \in Range(Head(lifecycle).document) : HeldIn(edit, events', queue', OneLess(awaited))
        BY <1>m, <3>2, <3>3
      <3> QED
        BY <3>1, <3>4, <3>5
    <2>2. step = "session" => \A edit \in Range(Head(lifecycle).document) : HeldIn(edit, events', queue', 0)
      <3>1. OneLess(0) = 0 /\ 0 \in 0 .. Len(queue)
        BY <1>q DEF OneLess
      <3> QED
        BY <1>h, <1>m, <3>1 DEF HeldCalls, Held
    <2> QED
      BY <1>h, <1>u, <2>1, <2>2 DEF HeldCalls, Held
  <1> QED
    BY <1>1, <1>2, <1>3


LEMMA HeldQueueStays ==
  ASSUME LogInv, Inside, ~RecordedStep, InStep
  PROVE  HeldDocument' /\ HeldInputs'
  <1>h. HeldDocument /\ HeldInputs
    BY HeldParts DEF LogInv
  <1>q. /\ Len(queue) \in Nat /\ Len(queue') \in Nat /\ Len(queue) <= Len(queue')
        /\ \A i \in 1 .. Len(queue) : queue'[i] = queue[i]
        /\ \A i \in Len(queue) + 1 .. Len(queue') : Added(queue'[i])
    BY Enqueued
  <1>t. Len(events) \in Nat /\ events' = events
    BY RecorderTypes, RecorderFrame DEF LogInv, AppendBegin, database
  <1>g. ASSUME NEW n \in 0 .. Len(queue), NEW m \in n .. Len(queue'), NEW edit, HeldIn(edit, events, queue, n)
        PROVE  HeldIn(edit, events', queue', m)
    <2>1. n \in Nat /\ m \in Nat /\ n <= m /\ \A i \in 1 .. n : queue'[i] = queue[i]
      BY <1>q
    <2>2. /\ Len(events) \in Nat /\ Len(events') \in Nat /\ Len(events) <= Len(events')
          /\ \A i \in 1 .. Len(events) : events'[i] = events[i]
      BY <1>t
    <2> QED
      BY ONLY <1>g, <2>1, <2>2, HeldGrows
  <1>k. Len(queue) \in 0 .. Len(queue)
    BY <1>q
  <1>o. \A m \in Len(queue) .. Len(queue') : \A edit \in Range(document) : HeldIn(edit, events', queue', m)
    BY <1>g, <1>h, <1>k DEF HeldDocument, Held
  <1>d. document' # document => Command \/ HistoryMove
    <2>1. CASE AppendBegin \/ TaskSkipped \/ TaskBegin \/ TaskSessionCommit \/ TaskCheckpointAsked
               \/ TaskCheckpointCommit \/ TaskWriteFail
      BY <2>1 DEF AppendBegin, TaskSkipped, TaskBegin, TaskSessionCommit, TaskCheckpointAsked,
                  TaskCheckpointCommit, TaskWriteFail, host
    <2>2. CASE CallBegin \/ AwaitInputs \/ FlushNothing \/ FlushWrite \/ EndRecord \/ EndWrite
               \/ CallCommit \/ CallWriteFail
      BY <2>2 DEF CallBegin, AwaitInputs, FlushNothing, FlushWrite, EndRecord, EndWrite,
                  CallCommit, CallWriteFail, host
    <2>3. CASE Started \/ DisposeEnd \/ Other \/ Hide \/ Dispose
      BY <2>3 DEF Started, DisposeEnd, Other, Hide, Dispose
    <2> QED
      BY <2>1, <2>2, <2>3 DEF Inside, RecordedStep
  <1>1. HeldDocument'
    <2> SUFFICES ASSUME NEW edit \in Range(document')
                 PROVE  HeldIn(edit, events', queue', Len(queue'))
      BY DEF HeldDocument, Held
    <2>1. CASE edit \in Range(document)
      BY <1>o, <1>q, <2>1
    <2>2. CASE edit \notin Range(document)
      <3>1. /\ edit = Last(document')
            /\ \E i \in Len(queue) + 1 .. Len(queue') : IsEdit(queue'[i]) /\ queue'[i].document = document'
        BY <1>d, <2>2, EditedFacts
      <3>2. PICK i \in Len(queue) + 1 .. Len(queue') : IsEdit(queue'[i]) /\ queue'[i].document = document'
        BY <3>1
      <3>3. i \in 1 .. Len(queue')
        BY <1>q
      <3> QED
        BY <3>1, <3>2, <3>3 DEF HeldIn
    <2> QED
      BY <2>1, <2>2
  <1>2. HeldInputs'
    <2> SUFFICES ASSUME NEW i \in 1 .. Len(queue'), IsEdit(queue'[i]), NEW edit \in Range(queue'[i].document)
                 PROVE  HeldIn(edit, events', queue', i)
      BY DEF HeldInputs, Held
    <2>1. CASE i \in 1 .. Len(queue)
      <3>1. HeldIn(edit, events, queue, i) /\ i \in 0 .. Len(queue) /\ i \in i .. Len(queue')
        BY <1>h, <1>q, <2>1 DEF HeldInputs, Held
      <3> QED
        BY <1>g, <3>1
    <2>2. CASE i \notin 1 .. Len(queue)
      <3>1. i \in Len(queue) + 1 .. Len(queue') /\ Added(queue'[i])
        BY <1>q, <2>2
      <3>2. (Command \/ HistoryMove) /\ document' = Edited /\ queue'[i].document = document'
        BY <3>1 DEF Added, IsEdit, PlainInput
      <3>3. CASE edit \in Range(document)
        BY <1>o, <1>q, <3>1, <3>3
      <3>4. CASE edit = Last(document')
        BY <3>2, <3>4 DEF HeldIn
      <3> QED
        BY <3>2, <3>3, <3>4, EditedFacts
    <2> QED
      BY <2>1, <2>2
  <1> QED
    BY <1>1, <1>2

LEMMA HeldCallsStay ==
  ASSUME LogInv, Inside, ~RecordedStep, InStep
  PROVE  HeldCalls'
  <1>h. HeldDocument /\ HeldCalls
    BY HeldParts DEF LogInv
  <1>q. /\ Len(queue) \in Nat /\ Len(queue') \in Nat /\ Len(queue) <= Len(queue')
        /\ \A i \in 1 .. Len(queue) : queue'[i] = queue[i]
    BY Enqueued
  <1>t. Len(events) \in Nat /\ events' = events /\ awaited \in Nat
    BY RecorderTypes, TaskTypes, RecorderFrame DEF LogInv, AppendBegin, database
  <1>e. /\ lifecycle # << >> => Len(lifecycle) > 0 /\ Head(lifecycle) = lifecycle[1]
        /\ step # "idle" => lifecycle # << >>
        /\ Len(lifecycle) \in Nat
    BY EndFacts DEF LogInv, CallsInv
  <1>g. ASSUME NEW n \in 0 .. Len(queue), NEW m \in n .. Len(queue'), NEW edit, HeldIn(edit, events, queue, n)
        PROVE  HeldIn(edit, events', queue', m)
    <2>1. n \in Nat /\ m \in Nat /\ n <= m /\ \A i \in 1 .. n : queue'[i] = queue[i]
      BY <1>q
    <2>2. /\ Len(events) \in Nat /\ Len(events') \in Nat /\ Len(events) <= Len(events')
          /\ \A i \in 1 .. Len(events) : events'[i] = events[i]
      BY <1>t
    <2> QED
      BY ONLY <1>g, <2>1, <2>2, HeldGrows
  <1>0. 0 \in 0 .. Len(queue) /\ 0 \in 0 .. Len(queue') /\ Len(queue') \in 0 .. Len(queue')
    BY <1>q
  <1>1. CASE step' = step /\ (step # "tasks" => awaited' = awaited) /\ Head(lifecycle') = Head(lifecycle)
             /\ \A i \in 1 .. Len(lifecycle') : Range(lifecycle'[i].document) \subseteq Range(document')
    <2>1. step \in {"inputs", "event"} =>
            awaited \in 0 .. Len(queue) /\ awaited \in awaited .. Len(queue') /\ awaited <= Len(queue')
      BY <1>h, <1>q, <1>t DEF HeldCalls
    <2> QED
      BY <1>0, <1>1, <1>g, <1>h, <2>1 DEF HeldCalls, Held
  <1>2. CASE AppendBegin \/ TaskSkipped \/ TaskBegin \/ TaskSessionCommit \/ TaskCheckpointAsked
             \/ TaskCheckpointCommit \/ TaskWriteFail \/ Started \/ Command \/ HistoryMove \/ Other
    <2>1. UNCHANGED <<step, lifecycle>>
      BY <1>2, CallsFrame
    <2>2. step # "tasks" => awaited' = awaited
      BY <1>2 DEF AppendBegin, TaskSkipped, TaskBegin, TaskSessionCommit, TaskCheckpointAsked,
                  TaskCheckpointCommit, TaskWriteFail, FinishTask, Started, Command, HistoryMove, Other, calls
    <2>3. Range(document) \subseteq Range(document')
      <3>1. CASE Command \/ HistoryMove
        BY <3>1, EditedFacts
      <3>2. CASE ~(Command \/ HistoryMove)
        BY <1>2, <3>2 DEF AppendBegin, TaskSkipped, TaskBegin, TaskSessionCommit, TaskCheckpointAsked,
                          TaskCheckpointCommit, TaskWriteFail, Started, Other, host
      <3> QED
        BY <3>1, <3>2
    <2>4. \A i \in 1 .. Len(lifecycle') : Range(lifecycle'[i].document) \subseteq Range(document')
      BY <1>h, <2>1, <2>3 DEF HeldCalls
    <2> QED
      BY <1>1, <2>1, <2>2, <2>4
  <1>3. CASE CallBegin
    <2>1. step' = "tasks" /\ UNCHANGED <<lifecycle, document>>
      BY <1>3 DEF CallBegin, host
    <2> QED
      BY <1>h, <2>1 DEF HeldCalls
  <1>4. CASE AwaitInputs
    <2>1. step # "idle" /\ step' = "inputs" /\ awaited' = Len(queue) /\ UNCHANGED <<lifecycle, document, queue>>
      BY <1>4 DEF AwaitInputs, host, recorder
    <2>2. 1 \in 1 .. Len(lifecycle) /\ Head(lifecycle) = lifecycle[1]
      BY <1>e, <2>1
    <2>3. \A edit \in Range(Head(lifecycle).document) : HeldIn(edit, events, queue, Len(queue))
      BY <1>h, <2>2 DEF HeldCalls, HeldDocument, Held
    <2> QED
      BY <1>h, <1>q, <1>t, <2>1, <2>3 DEF HeldCalls, Held
  <1>5. CASE FlushWrite \/ EndWrite
    <2>1. step \in {"inputs", "event"} /\ step' = "session" /\ awaited = 0 /\ UNCHANGED <<lifecycle, document, queue>>
      BY <1>5 DEF FlushWrite, EndWrite, host, recorder
    <2> QED
      BY <1>h, <1>t, <2>1 DEF HeldCalls, Held
  <1>6. CASE EndRecord
    <2>1. step = "inputs" /\ step' = "event" /\ awaited = 0 /\ awaited' = Len(queue')
          /\ UNCHANGED <<lifecycle, document>>
      BY <1>6 DEF EndRecord, host
    <2>2. \A edit \in Range(Head(lifecycle).document) : HeldIn(edit, events', queue', Len(queue'))
      BY <1>0, <1>g, <1>h, <2>1 DEF HeldCalls, Held
    <2> QED
      BY <1>h, <1>q, <2>1, <2>2 DEF HeldCalls, Held
  <1>7. CASE Settles
    <2>1. /\ step' = "idle" /\ Len(lifecycle') = Len(lifecycle) - 1
          /\ \A i \in 1 .. Len(lifecycle') : lifecycle'[i] = lifecycle[i + 1]
      BY <1>7, Settled
    <2>2. document' = document
      BY <1>7 DEF Settles, FlushNothing, CallCommit, CallWriteFail, host
    <2>3. \A i \in 1 .. Len(lifecycle') : i + 1 \in 1 .. Len(lifecycle)
      BY <1>e, <2>1
    <2> QED
      BY <1>h, <2>1, <2>2, <2>3 DEF HeldCalls
  <1>8. CASE Asked
    <2>1. /\ Len(lifecycle') = Len(lifecycle) + 1
          /\ \A i \in 1 .. Len(lifecycle) : lifecycle'[i] = lifecycle[i]
          /\ lifecycle'[Len(lifecycle) + 1].document = document
          /\ Head(lifecycle') = lifecycle'[1] /\ UNCHANGED <<document, step, awaited>>
      BY <1>8, AskedLast
    <2>2. \A i \in 1 .. Len(lifecycle') : Range(lifecycle'[i].document) \subseteq Range(document')
      <3>1. \A i \in 1 .. Len(lifecycle') : i \in 1 .. Len(lifecycle) \/ i = Len(lifecycle) + 1
        BY <1>e, <2>1
      <3> QED
        BY <1>h, <2>1, <3>1 DEF HeldCalls
    <2>3. CASE step = "idle"
      BY <2>1, <2>2, <2>3 DEF HeldCalls
    <2>4. CASE step # "idle"
      <3>1. Head(lifecycle') = Head(lifecycle)
        BY <1>e, <2>1, <2>4
      <3> QED
        BY <1>1, <2>1, <2>2, <3>1
    <2> QED
      BY <2>3, <2>4
  <1> QED
    BY <1>2, <1>3, <1>4, <1>5, <1>6, <1>7, <1>8 DEF Inside, RecordedStep, Settles, Asked


LEMMA HeldStays ==
  ASSUME LogInv, Next
  PROVE  HeldInv'
  <1>p. HeldInv' <=> (InStep' => HeldDocument' /\ HeldInputs' /\ HeldCalls')
    BY DEF HeldInv, HeldDocument, HeldInputs, HeldCalls
  <1>1. CASE ~Working'
    <2>1. document' = << >> /\ queue' = << >> /\ lifecycle' = << >> /\ step' = "idle"
      BY <1>1, MemoryStays DEF MemoryInv
    <2>2. HeldDocument' /\ HeldInputs' /\ HeldCalls'
      BY <2>1, NothingInEmpty DEF HeldDocument, HeldInputs, HeldCalls
    <2> QED
      BY <1>p, <2>2
  <1>2. CASE PutInitialCheckpoint /\ ~Working
    <2>1. /\ document' = << >> /\ queue' = <<PlainInput("system.sessionStarted")>>
          /\ lifecycle' = << >> /\ step' = "idle"
      BY <1>2 DEF LogInv, MemoryInv, PutInitialCheckpoint, calls
    <2>2. \A i \in 1 .. Len(queue') : ~IsEdit(queue'[i])
      BY <2>1 DEF IsEdit, PlainInput
    <2>3. HeldDocument' /\ HeldInputs' /\ HeldCalls'
      BY <2>1, <2>2, NothingInEmpty DEF HeldDocument, HeldInputs, HeldCalls
    <2> QED
      BY <1>p, <2>3
  <1>3. CASE Inside /\ Working /\ InStep'
    <2>1. InStep
      BY <1>3, InStepBefore
    <2>2. CASE AppendCommit
      BY <1>p, <2>2, HeldAfterCommit
    <2>3. CASE AppendReject \/ AppendFail
      <3>1. appending # NoEvent /\ appending' = NoEvent /\ UNCHANGED <<events, sequence>>
        BY <2>3 DEF AppendReject, AppendFail, Recorded
      <3>2. LastSequence' = LastSequence /\ LastSequence = Len(events) /\ Len(events) \in Nat
        BY <3>1, LastIsLength, RecorderTypes DEF LastSequence, LogInv, NumbersInv
      <3> QED
        BY <1>3, <2>1, <3>1, <3>2 DEF InStep
    <2>4. CASE ~RecordedStep
      BY <1>3, <1>p, <2>1, <2>4, HeldQueueStays, HeldCallsStay
    <2> QED
      BY <2>2, <2>3, <2>4 DEF RecordedStep
  <1> QED
    BY <1>p, StepCases, <1>1, <1>2, <1>3

-----------------------------------------------------------------------------
(* What the log holds.                                                     *)

\* The edit is among the first n events of the log.
LoggedAt(edit, log, n) == \E j \in 1 .. n : IsEdit(log[j]) /\ Last(log[j].document) = edit

LEMMA LoggedPrefix ==
  ASSUME NEW log \in Seq(Event), NEW n \in 0 .. Len(log), NEW d
  PROVE  Logged(d, SubSeq(log, 1, n)) <=> \A edit \in Range(d) : LoggedAt(edit, log, n)
  <1>1. Len(log) \in Nat /\ DOMAIN log = 1 .. Len(log)
    BY LenProperties
  <1>2. \A i \in 1 .. n : log[i] \in Event
    BY <1>1, ElementOfSeq
  <1>3. /\ SubSeq(log, 1, n) \in Seq(Event)
        /\ Len(SubSeq(log, 1, n)) = n
        /\ \A i \in 1 .. n : SubSeq(log, 1, n)[i] = log[i]
    <2>1. /\ SubSeq(log, 1, n) \in Seq(Event)
          /\ Len(SubSeq(log, 1, n)) = IF 1 <= n THEN n - 1 + 1 ELSE 0
          /\ \A i \in 1 .. n - 1 + 1 : SubSeq(log, 1, n)[i] = log[1 + i - 1]
      BY <1>1, <1>2, SubSeqProperties
    <2> QED
      BY <1>1, <2>1
  <1>4. DOMAIN SubSeq(log, 1, n) = 1 .. n
    BY <1>3, LenProperties
  <1> QED
    BY <1>3, <1>4 DEF Logged, LoggedAt

LEMMA NoHolesInIndices ==
  ASSUME TypeOK
  PROVE  NoHoles <=> \A i \in 1 .. Len(events) : IsEdit(events[i]) =>
                       \A edit \in Range(events[i].document) : LoggedAt(edit, events, i)
  <1>1. events \in Seq(Event) /\ DOMAIN events = 1 .. Len(events) /\ Len(events) \in Nat
    BY LenProperties DEF TypeOK
  <1>2. \A i \in 1 .. Len(events) : i \in 0 .. Len(events)
    BY <1>1
  <1> QED
    BY <1>1, <1>2, LoggedPrefix DEF NoHoles

LEMMA EventsStay ==
  ASSUME LogInv, Next, ~AppendCommit
  PROVE  events' = events
  <1>1. CASE Inside
    <2>1. CASE RecordedStep
      BY <2>1 DEF RecordedStep, AppendReject, AppendFail
    <2>2. CASE AppendBegin
      BY <2>2 DEF AppendBegin, database
    <2> QED
      BY <1>1, <2>1, <2>2, RecorderFrame
  <1>2. CASE Load \/ Recover \/ Restore \/ PutInitialCheckpoint \/ Close \/ Crash
    BY <1>2 DEF Load, Recover, Restore, PutInitialCheckpoint, Close, Crash, database
  <1> QED
    BY <1>1, <1>2, StepCases

LEMMA NoHolesStays ==
  ASSUME LogInv, Next
  PROVE  NoHoles'
  <1>t. TypeOK /\ TypeOK' /\ NoHoles
    BY TypesStay DEF LogInv
  <1>1. CASE ~AppendCommit
    BY <1>1, <1>t, EventsStay DEF NoHoles
  <1>2. CASE AppendCommit
    <2>0. Len(events) \in Nat
      BY <1>t, RecorderTypes
    <2>1. /\ Len(events') = Len(events) + 1 /\ events'[Len(events) + 1] = appending
          /\ \A i \in 1 .. Len(events) : events'[i] = events[i]
      BY <1>2, CommitFacts
    <2>2. /\ Len(queue) > 0 /\ Len(queue) \in Nat /\ appending.type = queue[1].type
          /\ appending.type # "system.checkpoint" => appending.document = queue[1].document
      BY <1>2, Dequeued DEF RecordedStep
    <2>3. HeldInputs
      BY <1>2, CommitFacts, HeldParts DEF LogInv
    <2>4. \A i \in 1 .. Len(events) : IsEdit(events[i]) =>
            \A edit \in Range(events[i].document) : LoggedAt(edit, events, i)
      BY <1>t, NoHolesInIndices
    <2>5. ASSUME NEW i \in 1 .. Len(events'), IsEdit(events'[i]), NEW edit \in Range(events'[i].document)
          PROVE  LoggedAt(edit, events', i)
      <3>1. CASE i \in 1 .. Len(events)
        <4>1. LoggedAt(edit, events, i)
          BY <2>1, <2>4, <2>5, <3>1
        <4>2. \A j \in 1 .. i : j \in 1 .. Len(events)
          BY <2>0, <3>1
        <4> QED
          BY <2>1, <4>1, <4>2 DEF LoggedAt
      <3>2. CASE i = Len(events) + 1
        <4>1. IsEdit(queue[1]) /\ events'[i].document = queue[1].document
          BY <2>1, <2>2, <2>5, <3>2 DEF IsEdit
        <4>2. 1 \in 1 .. Len(queue)
          BY <2>2
        <4>3. HeldIn(edit, events, queue, 1)
          BY <2>3, <2>5, <4>1, <4>2 DEF HeldInputs, Held
        <4>4. CASE \E j \in 1 .. Len(events) : IsEdit(events[j]) /\ Last(events[j].document) = edit
          <5>1. PICK j \in 1 .. Len(events) : IsEdit(events[j]) /\ Last(events[j].document) = edit
            BY <4>4
          <5>2. j \in 1 .. i /\ events'[j] = events[j]
            BY <2>0, <2>1, <3>2
          <5> QED
            BY <5>1, <5>2 DEF LoggedAt
        <4>5. CASE \E j \in 1 .. 1 : IsEdit(queue[j]) /\ Last(queue[j].document) = edit
          <5>1. Last(events'[i].document) = edit
            BY <4>1, <4>5
          <5>2. i \in 1 .. i
            BY <2>0, <3>2
          <5> QED
            BY <2>5, <5>1, <5>2 DEF LoggedAt
        <4> QED
          BY <4>3, <4>4, <4>5 DEF HeldIn
      <3> QED
        BY <2>0, <2>1, <3>1, <3>2
    <2>6. events' \in Seq(Event) /\ DOMAIN events' = 1 .. Len(events') /\ Len(events') \in Nat
      BY <1>t, LenProperties DEF TypeOK
    <2>7. \A i \in 1 .. Len(events') : i \in 0 .. Len(events')
      BY <2>6
    <2>8. \A i \in 1 .. Len(events') :
            Logged(events'[i].document, SubSeq(events', 1, i))
              <=> \A edit \in Range(events'[i].document) : LoggedAt(edit, events', i)
      BY <2>6, <2>7, LoggedPrefix
    <2> QED
      BY <2>5, <2>6, <2>8 DEF NoHoles
  <1> QED
    BY <1>1, <1>2

-----------------------------------------------------------------------------
(* The first page load, while no write has failed.                         *)

LEMMA PrefixFacts ==
  ASSUME NEW S, NEW s \in Seq(S), NEW t \in Seq(S)
  PROVE  IsPrefix(s, t) <=> Len(s) <= Len(t) /\ \A i \in 1 .. Len(s) : s[i] = t[i]
  <1>1. Len(s) \in Nat /\ Len(t) \in Nat /\ (\A i \in 1 .. Len(s) : s[i] \in S)
        /\ (\A i \in 1 .. Len(t) : t[i] \in S)
    BY LenProperties, ElementOfSeq
  <1>2. /\ SubSeq(s, 1, Len(s)) \in Seq(S)
        /\ Len(SubSeq(s, 1, Len(s))) = Len(s)
        /\ \A i \in 1 .. Len(s) : SubSeq(s, 1, Len(s))[i] = s[i]
    <2>1. /\ SubSeq(s, 1, Len(s)) \in Seq(S)
          /\ Len(SubSeq(s, 1, Len(s))) = IF 1 <= Len(s) THEN Len(s) - 1 + 1 ELSE 0
          /\ \A i \in 1 .. Len(s) - 1 + 1 : SubSeq(s, 1, Len(s))[i] = s[1 + i - 1]
      BY <1>1, SubSeqProperties
    <2> QED
      BY <1>1, <2>1
  <1>3. ASSUME Len(s) <= Len(t)
        PROVE  /\ SubSeq(t, 1, Len(s)) \in Seq(S)
               /\ Len(SubSeq(t, 1, Len(s))) = Len(s)
               /\ \A i \in 1 .. Len(s) : SubSeq(t, 1, Len(s))[i] = t[i]
    <2>1. \A i \in 1 .. Len(s) : t[i] \in S
      BY <1>1, <1>3
    <2>2. /\ SubSeq(t, 1, Len(s)) \in Seq(S)
          /\ Len(SubSeq(t, 1, Len(s))) = IF 1 <= Len(s) THEN Len(s) - 1 + 1 ELSE 0
          /\ \A i \in 1 .. Len(s) - 1 + 1 : SubSeq(t, 1, Len(s))[i] = t[1 + i - 1]
      BY <1>1, <2>1, SubSeqProperties
    <2> QED
      BY <1>1, <2>2
  <1>4. ASSUME IsPrefix(s, t)
        PROVE  Len(s) <= Len(t) /\ \A i \in 1 .. Len(s) : s[i] = t[i]
    <2>1. Len(s) <= Len(t) /\ SubSeq(s, 1, Len(s)) = SubSeq(t, 1, Len(s))
      BY <1>4 DEF IsPrefix
    <2> QED
      BY <1>2, <1>3, <2>1
  <1>5. ASSUME Len(s) <= Len(t), \A i \in 1 .. Len(s) : s[i] = t[i]
        PROVE  IsPrefix(s, t)
    <2> DEFINE a == SubSeq(s, 1, Len(s))
               b == SubSeq(t, 1, Len(s))
    <2>1. a \in Seq(S) /\ b \in Seq(S) /\ Len(a) = Len(b) /\ \A i \in 1 .. Len(a) : a[i] = b[i]
      BY <1>2, <1>3, <1>5
    <2>2. a = b
      <3> HIDE DEF a, b
      <3> QED
        BY <2>1, SeqEqual
    <2> QED
      BY <1>5, <2>2 DEF IsPrefix
  <1> QED
    BY <1>4, <1>5

LEMMA PrefixGrows ==
  ASSUME NEW S, NEW s \in Seq(S), NEW t \in Seq(S), NEW e \in S
  PROVE  IsPrefix(s, t) => IsPrefix(s, Append(t, e))
  <1>1. /\ Append(t, e) \in Seq(S) /\ Len(Append(t, e)) = Len(t) + 1 /\ Len(t) \in Nat
        /\ \A i \in 1 .. Len(t) : Append(t, e)[i] = t[i]
    BY AppendFacts
  <1>2. Len(s) \in Nat
    BY LenProperties
  <1> SUFFICES ASSUME IsPrefix(s, t) PROVE IsPrefix(s, Append(t, e))
    OBVIOUS
  <1>3. Len(s) <= Len(t) /\ \A i \in 1 .. Len(s) : s[i] = t[i]
    BY PrefixFacts
  <1>4. Len(s) <= Len(Append(t, e)) /\ \A i \in 1 .. Len(s) : s[i] = Append(t, e)[i]
    BY <1>1, <1>2, <1>3
  <1> QED
    BY <1>1, <1>4, PrefixFacts

LEMMA PrefixOfItself == ASSUME NEW S, NEW s \in Seq(S) PROVE IsPrefix(s, s)
  <1>1. Len(s) \in Nat
    BY LenProperties
  <1> QED
    BY <1>1, PrefixFacts

\* An edit of the document keeps what it begins with.
LEMMA DocumentGrows ==
  ASSUME LogInv, Inside
  PROVE  \A d \in Documents : IsPrefix(d, document) => IsPrefix(d, document')
  <1>t. document \in Seq(1 .. MaxOperations) /\ used \in Bounds
    BY DEF LogInv, TypeOK, Documents, Bounds
  <1>1. CASE document' = document
    BY <1>1
  <1>2. CASE Command \/ HistoryMove
    <2>1. document' = document \/ document' = Edited
      BY <1>2 DEF Command, HistoryMove
    <2>2. used.operations + 1 \in 1 .. MaxOperations
      <3>1. used.operations < MaxOperations /\ used.operations \in 0 .. MaxOperations
        BY <1>t, <1>2 DEF Command, HistoryMove, Bounds
      <3> QED
        BY <3>1, OperationLogAssumption
    <2>3. \A d \in Seq(1 .. MaxOperations) : \A e \in 1 .. MaxOperations :
             IsPrefix(d, document) => IsPrefix(d, Append(document, e))
      BY <1>t, PrefixGrows
    <2> QED
      BY <2>1, <2>2, <2>3 DEF Edited, Documents
  <1>3. CASE ~(Command \/ HistoryMove)
    <2>1. CASE AppendBegin \/ RecordedStep \/ TaskSkipped \/ TaskBegin \/ TaskSessionCommit \/ TaskCheckpointAsked
               \/ TaskCheckpointCommit \/ TaskWriteFail
      BY <2>1, <1>1 DEF AppendBegin, RecordedStep, AppendCommit, AppendReject, AppendFail, Recorded,
                  TaskSkipped, TaskBegin, TaskSessionCommit, TaskCheckpointAsked,
                  TaskCheckpointCommit, TaskWriteFail, host
    <2>2. CASE CallBegin \/ AwaitInputs \/ FlushNothing \/ FlushWrite \/ EndRecord \/ EndWrite
               \/ CallCommit \/ CallWriteFail
      BY <2>2, <1>1 DEF CallBegin, AwaitInputs, FlushNothing, FlushWrite, EndRecord, EndWrite,
                  CallCommit, CallWriteFail, host
    <2>3. CASE Started \/ DisposeEnd \/ Other \/ Hide \/ Dispose
      BY <2>3, <1>1 DEF Started, DisposeEnd, Other, Hide, Dispose
    <2> QED
      BY <1>3, <2>1, <2>2, <2>3 DEF Inside, RecordedStep
  <1> QED
    BY <1>2, <1>3


LEMMA FirstLoadBefore ==
  ASSUME LogInv, Next, FirstLoad'
  PROVE  /\ FirstLoad /\ ~AppendFail
         /\ used.loads \in Nat /\ used'.loads \in Nat
         /\ Load => used.loads = 0 /\ used'.loads = 1
         /\ ~Load => used'.loads = used.loads
  <1>1. used.failures = 0 /\ ~AppendFail /\ ~TaskWriteFail /\ ~CallWriteFail
    BY FailuresGrow DEF LogInv, FirstLoad
  <1>2. used \in Bounds /\ used.loads \in Nat
    BY OperationLogAssumption DEF LogInv, TypeOK, Bounds
  <1>3. used'.loads <= 1
    BY DEF FirstLoad
  <1>4. CASE Load
    <2>1. used'.loads = used.loads + 1
      BY <1>2, <1>4 DEF Load, Used, Bounds
    <2> QED
      BY <1>1, <1>2, <1>3, <1>4, <2>1 DEF FirstLoad
  <1>5. CASE ~Load
    <2>1. used'.loads = used.loads
      <3>1. \A bound \in {"operations", "flushes"} : Used(bound).loads = used.loads
        BY <1>2 DEF Used, Bounds
      <3>2. CASE AppendBegin \/ AppendCommit \/ AppendReject
        BY <3>2 DEF AppendBegin, AppendCommit, AppendReject, host
      <3>3. CASE TaskSkipped \/ TaskBegin \/ TaskSessionCommit \/ TaskCheckpointAsked \/ TaskCheckpointCommit
        BY <3>3 DEF TaskSkipped, TaskBegin, TaskSessionCommit, TaskCheckpointAsked, TaskCheckpointCommit, host
      <3>4. CASE CallBegin \/ AwaitInputs \/ FlushNothing \/ FlushWrite \/ EndRecord \/ EndWrite \/ CallCommit
        BY <3>4 DEF CallBegin, AwaitInputs, FlushNothing, FlushWrite, EndRecord, EndWrite, CallCommit, host
      <3>5. CASE Recover \/ Restore \/ PutInitialCheckpoint \/ Started \/ DisposeEnd \/ Close \/ Dispose \/ Crash
        BY <3>5 DEF Recover, Restore, PutInitialCheckpoint, Started, DisposeEnd, Close, Dispose, Crash
      <3>6. CASE Command \/ HistoryMove \/ Other \/ Hide
        BY <3>1, <3>6 DEF Command, HistoryMove, Other, Hide
      <3> QED
        BY <1>1, <1>5, <3>2, <3>3, <3>4, <3>5, <3>6 DEF Next, Progress, Environment
    <2> QED
      BY <1>1, <1>2, <1>3, <1>5, <2>1 DEF FirstLoad
  <1> QED
    BY <1>4, <1>5

LEMMA AppendBeginEvent ==
  ASSUME LogInv, AppendBegin
  PROVE  appending' \in Event /\ appending' # NoEvent
  <1>1. Head(queue) \in Input
    BY TailFacts DEF LogInv, TypeOK, AppendBegin
  <1>2. appending' \in Event
    BY <1>1 DEF LogInv, TypeOK, AppendBegin, Input, Event, Captured
  <1> QED
    BY <1>2, NoEventAssumption

\* The conjuncts of FirstLoadInv.
LoadedEmpty ==
  /\ used.loads = 0 => page = "closed"
  /\ used.loads = 0 \/ page \in {"recovering", "restoring", "checkpointing"} =>
       events = << >> /\ session = NoSession /\ checkpoints = {}
  /\ page = "checkpointing" => sequence = 0

LoadedLog == InStep /\ Before(events, document) /\ Before(queue, document)

LoadedCapture == appending # NoEvent /\ appending.type = "system.checkpoint" => Before(events, appending.document)

LoadedWrite ==
  task = "checkpoint" =>
    /\ write.sequence \in 1 .. Len(events)
    /\ events[write.sequence].type = "system.checkpoint"
    /\ \A i \in 1 .. write.sequence : IsEdit(events[i]) => IsPrefix(events[i].document, write.document)

LEMMA LoadedParts ==
  FirstLoadInv <=> (FirstLoad => LoadedEmpty /\ (Working => LoadedLog) /\ LoadedCapture /\ LoadedWrite)
BY DEF FirstLoadInv, LoadedEmpty, LoadedLog, LoadedCapture, LoadedWrite

LEMMA LoadedInStep ==
  ASSUME LogInv, Inside, Working, InStep, ~AppendFail
  PROVE  InStep' /\ ~AppendReject
  <1>n. /\ LastSequence = Len(events) /\ Len(events) \in Nat /\ sequence \in Nat
        /\ appending # NoEvent => appending.sequence = sequence
    BY RecorderTypes, LastIsLength DEF LogInv, NumbersInv
  <1>1. ~AppendReject
    BY <1>n DEF AppendReject, Contiguous, InStep
  <1>2. CASE AppendCommit
    <2>1. events' \in Seq(Event) /\ \A i \in 1 .. Len(events') : events'[i].sequence = i
      BY TypesStay, NumbersStay DEF TypeOK, NumbersInv, Inside, Next, Progress, Environment
    <2>2. LastSequence' = Len(events')
      <3>1. CASE events' = << >>
        BY <3>1 DEF LastSequence
      <3>2. CASE events' # << >>
        <4>1. Len(events') \in 1 .. Len(events')
          BY <2>1, <3>2, LenProperties, EmptySeq
        <4> QED
          BY <2>1, <3>2, <4>1 DEF LastSequence, Last
      <3> QED
        BY <3>1, <3>2
    <2>3. sequence' = sequence /\ sequence = Len(events) + 1 /\ Len(events') = Len(events) + 1 /\ appending' = NoEvent
      BY <1>2, CommitFacts DEF Recorded
    <2> QED
      BY <1>1, <1>n, <2>2, <2>3 DEF InStep
  <1>3. CASE AppendBegin
    <2>1. appending = NoEvent /\ sequence' = sequence + 1 /\ UNCHANGED events
      BY <1>3 DEF AppendBegin, database
    <2>2. LastSequence' = LastSequence
      BY <2>1 DEF LastSequence
    <2>3. appending' # NoEvent
      BY <1>3, AppendBeginEvent
    <2> QED
      BY <1>1, <1>n, <2>1, <2>2, <2>3 DEF InStep
  <1>4. CASE ~RecordedStep /\ ~AppendBegin
    BY <1>1, <1>4, RecorderFrame DEF InStep, LastSequence
  <1> QED
    BY <1>1, <1>2, <1>3, <1>4 DEF RecordedStep

LEMMA LoadedLogStays ==
  ASSUME LogInv, Inside, Working, LoadedLog, ~AppendFail
  PROVE  LoadedLog'
  <1>t. /\ events \in Seq(Event) /\ queue \in Seq(Input) /\ document \in Documents /\ document' \in Documents
        /\ Len(events) \in Nat
    BY TypesStay, RecorderTypes DEF LogInv, TypeOK, Inside, Next, Progress, Environment
  <1>1. InStep' /\ ~AppendReject
    BY LoadedInStep DEF LoadedLog
  <1>2. \A i \in 1 .. Len(events) : IsEdit(events[i]) => IsPrefix(events[i].document, document')
    <2>1. \A i \in 1 .. Len(events) : events[i].document \in Documents
      <3>1. \A i \in 1 .. Len(events) : events[i] \in Event
        BY <1>t, ElementOfSeq
      <3>2. \A x \in Event : x.document \in Documents
        BY DEF Event
      <3> QED
        BY <3>1, <3>2
    <2> QED
      BY <2>1, DocumentGrows DEF LoadedLog, Before
  <1>3. \A i \in 1 .. Len(queue) : IsEdit(queue[i]) => IsPrefix(queue[i].document, document')
    <2>1. \A i \in 1 .. Len(queue) : queue[i].document \in Documents
      <3>1. \A i \in 1 .. Len(queue) : queue[i] \in Input
        BY <1>t, ElementOfSeq
      <3>2. \A x \in Input : x.document \in Documents
        BY DEF Input
      <3> QED
        BY <3>1, <3>2
    <2> QED
      BY <2>1, DocumentGrows DEF LoadedLog, Before
  <1>4. CASE AppendCommit
    <2>1. /\ Len(events') = Len(events) + 1 /\ events'[Len(events) + 1] = appending
          /\ \A i \in 1 .. Len(events) : events'[i] = events[i]
      BY <1>4, CommitFacts
    <2>2. /\ Len(queue) > 0 /\ Len(queue) \in Nat /\ appending.type = queue[1].type
          /\ appending.type # "system.checkpoint" => appending.document = queue[1].document
          /\ Len(queue') = Len(queue) - 1 /\ \A i \in 1 .. Len(queue) - 1 : queue'[i] = queue[i + 1]
      BY <1>4, Dequeued DEF RecordedStep
    <2>3. 1 \in 1 .. Len(queue) /\ \A i \in 1 .. Len(queue') : i + 1 \in 1 .. Len(queue)
      BY <2>2
    <2>4. IsEdit(appending) => IsPrefix(appending.document, document')
      BY <1>3, <2>2, <2>3 DEF IsEdit
    <2>5. Before(events', document')
      <3>1. \A i \in 1 .. Len(events') : i \in 1 .. Len(events) \/ i = Len(events) + 1
        BY <1>t, <2>1
      <3> QED
        BY <1>2, <2>1, <2>4, <3>1 DEF Before
    <2>6. Before(queue', document')
      BY <1>3, <2>2, <2>3 DEF Before
    <2> QED
      BY <1>1, <2>5, <2>6 DEF LoadedLog
  <1>5. CASE ~RecordedStep
    <2>1. events' = events
      BY <1>5, RecorderFrame DEF AppendBegin, database
    <2>2. /\ Len(queue) \in Nat /\ Len(queue') \in Nat
          /\ \A i \in 1 .. Len(queue) : queue'[i] = queue[i]
          /\ \A i \in Len(queue) + 1 .. Len(queue') : Added(queue'[i])
      BY <1>5, Enqueued
    <2>3. Before(events', document')
      BY <1>2, <2>1 DEF Before
    <2>4. \A input : Added(input) /\ IsEdit(input) => input.document = document'
      BY DEF Added, IsEdit, PlainInput
    <2>5. IsPrefix(document', document')
      BY <1>t, PrefixOfItself DEF Documents
    <2>6. Before(queue', document')
      <3>1. \A i \in 1 .. Len(queue') : i \in 1 .. Len(queue) \/ i \in Len(queue) + 1 .. Len(queue')
        BY <2>2
      <3> QED
        BY <1>3, <2>2, <2>4, <2>5, <3>1 DEF Before
    <2> QED
      BY <1>1, <2>3, <2>6 DEF LoadedLog
  <1> QED
    BY <1>1, <1>4, <1>5 DEF RecordedStep


LEMMA LoadedWriteStays ==
  ASSUME LogInv, Inside, Working, LoadedLog, LoadedCapture, LoadedWrite, ~AppendFail
  PROVE  LoadedCapture' /\ LoadedWrite'
  <1>t. Len(events) \in Nat /\ sequence \in Nat
    BY RecorderTypes DEF LogInv
  <1>r. ~AppendReject
    BY LoadedInStep DEF LoadedLog
  <1>1. CASE AppendBegin
    <2>1. /\ appending' = [sequence |-> sequence + 1, type |-> Head(queue).type,
                           document |-> Captured(Head(queue))]
          /\ UNCHANGED <<events, task, write>>
      BY <1>1 DEF AppendBegin, database, coordinator
    <2>2. appending'.type = "system.checkpoint" => appending'.document = document
      BY <2>1 DEF Captured
    <2> QED
      BY <2>1, <2>2 DEF LoadedCapture, LoadedWrite, LoadedLog, Before
  <1>2. CASE AppendCommit
    <2>1. /\ Recorded /\ Len(events') = Len(events) + 1 /\ events'[Len(events) + 1] = appending
          /\ \A i \in 1 .. Len(events) : events'[i] = events[i]
          /\ appending.sequence = Len(events) + 1
      BY <1>2, CommitFacts
    <2>2. appending' = NoEvent /\ appending # NoEvent
      BY <1>2, <2>1 DEF Recorded, AppendCommit
    <2>3. CASE appending.type = "system.checkpoint"
      <3>1. write' = CheckpointOf(appending)
        BY <2>1, <2>3 DEF Recorded
      <3>2. write'.sequence = Len(events) + 1 /\ write'.document = appending.document
        BY <2>1, <3>1 DEF CheckpointOf
      <3>3. \A i \in 1 .. Len(events) : IsEdit(events[i]) => IsPrefix(events[i].document, appending.document)
        BY <2>2, <2>3 DEF LoadedCapture, Before
      <3>4. ~IsEdit(appending)
        BY <2>3 DEF IsEdit
      <3>5. \A i \in 1 .. Len(events) + 1 : i \in 1 .. Len(events) \/ i = Len(events) + 1
        BY <1>t
      <3>6. Len(events) + 1 \in 1 .. Len(events')
        BY <1>t, <2>1
      <3> QED
        BY <2>1, <2>2, <2>3, <3>2, <3>3, <3>4, <3>5, <3>6 DEF LoadedCapture, LoadedWrite
    <2>4. CASE appending.type # "system.checkpoint"
      <3>1. task' = "checkpoint" => task = "checkpoint" /\ write' = write
        BY <2>1, <2>4 DEF Recorded
      <3>2. \A n \in 1 .. Len(events) : n \in 1 .. Len(events') /\ \A i \in 1 .. n : i \in 1 .. Len(events)
        BY <1>t, <2>1
      <3> QED
        BY <2>1, <2>2, <3>1, <3>2 DEF LoadedCapture, LoadedWrite
    <2> QED
      BY <2>3, <2>4
  <1>3. CASE ~RecordedStep /\ ~AppendBegin
    <2>1. UNCHANGED <<events, appending>>
      BY <1>3, RecorderFrame
    <2>2. task' = "checkpoint" => task = "checkpoint" /\ write' = write
      <3>1. CASE TaskSkipped \/ TaskBegin \/ TaskSessionCommit \/ TaskCheckpointAsked
                 \/ TaskCheckpointCommit \/ TaskWriteFail \/ Started
        BY <3>1 DEF TaskSkipped, TaskBegin, TaskSessionCommit, TaskCheckpointAsked, TaskCheckpointCommit,
                    TaskWriteFail, FinishTask, Started
      <3>2. CASE CallBegin \/ AwaitInputs \/ FlushNothing \/ FlushWrite \/ EndRecord \/ EndWrite
                 \/ CallCommit \/ CallWriteFail
        BY <3>2 DEF CallBegin, AwaitInputs, FlushNothing, FlushWrite, EndRecord, EndWrite, CallCommit,
                    CallWriteFail, coordinator
      <3>3. CASE DisposeEnd \/ Command \/ HistoryMove \/ Other \/ Hide \/ Dispose
        BY <3>3 DEF DisposeEnd, Command, HistoryMove, Other, Hide, Dispose, coordinator
      <3> QED
        BY <1>3, <3>1, <3>2, <3>3 DEF Inside, RecordedStep
    <2> QED
      BY <2>1, <2>2 DEF LoadedCapture, LoadedWrite, Before
  <1> QED
    BY <1>r, <1>1, <1>2, <1>3 DEF RecordedStep

LEMMA FirstLoadStays ==
  ASSUME LogInv, Next
  PROVE  FirstLoadInv'
  <1>p. FirstLoadInv' <=> (FirstLoad' => LoadedEmpty' /\ (Working' => LoadedLog') /\ LoadedCapture' /\ LoadedWrite')
    BY DEF FirstLoadInv, LoadedEmpty, LoadedLog, LoadedCapture, LoadedWrite
  <1> SUFFICES ASSUME FirstLoad'
               PROVE  LoadedEmpty' /\ (Working' => LoadedLog') /\ LoadedCapture' /\ LoadedWrite'
    BY <1>p
  <1>f. /\ ~AppendFail /\ used.loads \in Nat
        /\ Load => used.loads = 0 /\ used'.loads = 1
        /\ ~Load => used'.loads = used.loads
    BY FirstLoadBefore
  <1>h. LoadedEmpty /\ (Working => LoadedLog) /\ LoadedCapture /\ LoadedWrite
    BY FirstLoadBefore, LoadedParts DEF LogInv
  <1>m. ~Working' => appending' = NoEvent /\ task' = "idle"
    BY MemoryStays DEF MemoryInv
  <1>w. ~Working' => LoadedCapture' /\ LoadedWrite'
    BY <1>m DEF LoadedCapture, LoadedWrite
  <1>1. CASE Load /\ ~Working'
    <2>1. /\ page' = "recovering" /\ UNCHANGED <<events, session, checkpoints>>
          /\ used.loads = 0 /\ used'.loads = 1
      BY <1>1, <1>f DEF Load, database
    <2> QED
      BY <1>h, <1>w, <1>1, <2>1 DEF LoadedEmpty
  <1>2. CASE Recover /\ ~Working'
    <2>1. page = "recovering" /\ page' = "restoring" /\ UNCHANGED <<events, checkpoints>> /\ used'.loads = used.loads
      BY <1>2, <1>f DEF Recover, Load
    <2>2. session = NoSession => session' = NoSession
      BY <1>2 DEF Recover
    <2> QED
      BY <1>h, <1>w, <1>2, <2>1, <2>2 DEF LoadedEmpty
  <1>3. CASE Restore /\ ~Working'
    <2>1. page = "restoring" /\ page' = "checkpointing" /\ UNCHANGED <<events, session, checkpoints>>
          /\ used'.loads = used.loads
      BY <1>3, <1>f DEF Restore, Load, database
    <2>2. events = << >> /\ session = NoSession
      BY <1>h, <2>1 DEF LoadedEmpty
    <2>3. sequence' = 0
      BY <1>3, <2>2 DEF Restore, StoredCount, LastSequence
    <2> QED
      BY <1>h, <1>w, <1>3, <2>1, <2>3 DEF LoadedEmpty
  <1>4. CASE PutInitialCheckpoint /\ ~Working
    <2>1. /\ page = "checkpointing" /\ page' = "starting" /\ queue' = <<PlainInput("system.sessionStarted")>>
          /\ UNCHANGED <<events, sequence, appending, task>> /\ used'.loads = used.loads
          /\ appending = NoEvent /\ task = "idle"
      BY <1>4, <1>f DEF PutInitialCheckpoint, Load, coordinator, LogInv, MemoryInv
    <2>2. events = << >> /\ sequence = 0 /\ used.loads # 0
      BY <1>h, <2>1 DEF LoadedEmpty
    <2>3. InStep'
      BY <2>1, <2>2 DEF InStep, LastSequence
    <2>4. Before(events', document') /\ Before(queue', document')
      BY <2>1, <2>2 DEF Before, IsEdit, PlainInput
    <2> QED
      BY <2>1, <2>2, <2>3, <2>4 DEF LoadedEmpty, LoadedLog, LoadedCapture, LoadedWrite
  <1>5. CASE (Close \/ Crash) /\ ~Working'
    <2>1. page # "closed" /\ page' \in {"closed", "disposed"} /\ used'.loads = used.loads
      BY <1>5 DEF Close, Crash
    <2> QED
      BY <1>h, <1>w, <1>5, <2>1 DEF LoadedEmpty
  <1>6. CASE Inside /\ Working /\ Working'
    <2>1. LoadedLog'
      BY <1>6, <1>f, <1>h, LoadedLogStays
    <2>2. LoadedCapture' /\ LoadedWrite'
      BY <1>6, <1>f, <1>h, LoadedWriteStays
    <2>3. used'.loads = used.loads /\ used.loads # 0
      <3>1. ~Load
        BY <1>6 DEF Load, Working
      <3> QED
        BY <1>6, <1>f, <1>h, <3>1 DEF LoadedEmpty, Working
    <2>4. LoadedEmpty'
      BY <1>6, <2>3 DEF LoadedEmpty, Working
    <2> QED
      BY <2>1, <2>2, <2>4
  <1> QED
    BY StepCases, <1>1, <1>2, <1>3, <1>4, <1>5, <1>6

LEMMA CheckpointStays ==
  ASSUME LogInv, Next
  PROVE  CheckpointNotBehind'
  <1>t. events \in Seq(Event) /\ DOMAIN events = 1 .. Len(events) /\ Len(events) \in Nat
    BY LenProperties DEF LogInv, TypeOK
  <1> SUFFICES ASSUME used'.failures = 0, used'.loads = 1, NEW c \in checkpoints', c.sequence > 0
               PROVE  /\ c.sequence \in DOMAIN events'
                      /\ events'[c.sequence].type = "system.checkpoint"
                      /\ \A i \in 1 .. c.sequence :
                           IsEdit(events'[i]) => IsPrefix(events'[i].document, c.document)
    BY DEF CheckpointNotBehind
  <1>f. /\ FirstLoad /\ used.loads \in Nat
        /\ Load => used.loads = 0 /\ used'.loads = 1
        /\ ~Load => used'.loads = used.loads
    BY FirstLoadBefore DEF FirstLoad
  <1>h. LoadedEmpty /\ LoadedWrite
    BY <1>f, LoadedParts DEF LogInv
  <1>1. \/ c \in checkpoints /\ used.loads = 1
        \/ task = "checkpoint" /\ c = write
    <2>1. CASE Load
      BY <1>f, <1>h, <2>1 DEF Load, LoadedEmpty, database
    <2>2. CASE TaskCheckpointCommit
      <3>1. used.loads = 1
        BY <1>f, <2>2 DEF TaskCheckpointCommit, Load, host
      <3> QED
        BY <2>2, <3>1 DEF TaskCheckpointCommit, WithCheckpoint
    <2>3. CASE PutInitialCheckpoint
      <3>1. used.loads = 1
        BY <1>f, <2>3 DEF PutInitialCheckpoint, Load
      <3>2. c \in checkpoints \/ c = [sequence |-> 0, document |-> document]
        BY <2>3 DEF PutInitialCheckpoint, WithCheckpoint
      <3> QED
        BY <3>1, <3>2
    <2>4. CASE ~Load /\ ~TaskCheckpointCommit /\ ~PutInitialCheckpoint
      <3>1. CASE AppendBegin \/ AppendCommit \/ AppendReject \/ AppendFail
        BY <3>1, <1>f, <2>4 DEF AppendBegin, AppendCommit, AppendReject, AppendFail, Recorded, database
      <3>2. CASE TaskSkipped \/ TaskBegin \/ TaskSessionCommit \/ TaskCheckpointAsked \/ TaskWriteFail
        BY <3>2, <1>f, <2>4 DEF TaskSkipped, TaskBegin, TaskSessionCommit, TaskCheckpointAsked, TaskWriteFail, database
      <3>3. CASE CallBegin \/ AwaitInputs \/ FlushNothing \/ FlushWrite \/ EndRecord \/ EndWrite
                 \/ CallCommit \/ CallWriteFail
        BY <3>3, <1>f, <2>4 DEF CallBegin, AwaitInputs, FlushNothing, FlushWrite, EndRecord, EndWrite, CallCommit,
                    CallWriteFail, database
      <3>4. CASE Recover \/ Restore \/ Started \/ DisposeEnd \/ Close \/ Crash
        BY <3>4, <1>f, <2>4 DEF Recover, Restore, Started, DisposeEnd, Close, Crash, database
      <3>5. CASE Command \/ HistoryMove \/ Other \/ Hide \/ Dispose
        BY <3>5, <1>f, <2>4 DEF Command, HistoryMove, Other, Hide, Dispose, database
      <3> QED
        BY <2>4, <3>1, <3>2, <3>3, <3>4, <3>5 DEF Next, Progress, Environment
    <2> QED
      BY <2>1, <2>2, <2>3, <2>4
  <1>2. /\ c.sequence \in 1 .. Len(events)
        /\ events[c.sequence].type = "system.checkpoint"
        /\ \A i \in 1 .. c.sequence : IsEdit(events[i]) => IsPrefix(events[i].document, c.document)
    <2>1. CASE c \in checkpoints /\ used.loads = 1
      BY <1>f, <1>t, <2>1 DEF FirstLoad, LogInv, CheckpointNotBehind
    <2>2. CASE task = "checkpoint" /\ c = write
      BY <1>h, <2>2 DEF LoadedWrite
    <2> QED
      BY <1>1, <2>1, <2>2
  <1>3. CASE ~AppendCommit
    BY <1>2, <1>3, <1>t, EventsStay
  <1>4. CASE AppendCommit
    <2>1. Len(events') = Len(events) + 1 /\ \A i \in 1 .. Len(events) : events'[i] = events[i]
      BY <1>4, CommitFacts
    <2>2. DOMAIN events' = 1 .. Len(events')
      BY LenProperties, TypesStay DEF TypeOK
    <2>3. c.sequence \in DOMAIN events' /\ \A i \in 1 .. c.sequence : i \in 1 .. Len(events)
      BY <1>2, <1>t, <2>1, <2>2
    <2> QED
      BY <1>2, <2>1, <2>3
  <1> QED
    BY <1>3, <1>4

-----------------------------------------------------------------------------
(* The invariant.                                                          *)

LEMMA LogInvStarts == Init => LogInv
  <1> SUFFICES ASSUME Init PROVE LogInv
    OBVIOUS
  <1>1. TypeOK
    <2>1. << >> \in Seq(Event) /\ << >> \in Seq(Input) /\ << >> \in Seq(Call) /\ << >> \in Documents
          /\ [status |-> "active", eventCount |-> 0] \in Session
      BY DEF Documents, Session
    <2>2. [operations |-> 0, flushes |-> 0, loads |-> 0, failures |-> 0] \in Bounds
      BY OperationLogAssumption DEF Bounds
    <2> QED
      BY <2>1, <2>2 DEF Init, TypeOK, Bounds
  <1>2. ~Working /\ ~Ending /\ ~EndDone /\ ~EndWritten
    BY DEF Init, Working, Ending, EndDone, EndWritten
  <1>3. MemoryInv /\ NumbersInv /\ TaskInv /\ CallsInv
    BY <1>2 DEF Init, MemoryInv, NumbersInv, TaskInv, CallsInv
  <1>4. EndInv /\ SessionInv
    BY <1>2 DEF Init, EndInv, SessionInv
  <1>5. HeldInv
    BY NothingInEmpty DEF Init, HeldInv
  <1>6. NoHoles /\ CheckpointNotBehind
    BY DEF Init, NoHoles, CheckpointNotBehind
  <1>7. FirstLoadInv
    BY <1>2 DEF Init, FirstLoadInv
  <1> QED
    BY <1>1, <1>3, <1>4, <1>5, <1>6, <1>7 DEF LogInv

LEMMA LogInvStutters ==
  ASSUME LogInv, UNCHANGED vars
  PROVE  LogInv'
  <1>1. UNCHANGED <<events, session, checkpoints, page, document, used, queue, sequence, appending, summary,
                    tasks, task, sinceCheckpoint, ended, write, lifecycle, step, awaited, lifecycleWrite>>
    BY DEF vars, database, host, recorder, coordinator, calls
  <1>2. /\ Working' <=> Working
        /\ Ending' <=> Ending
        /\ EndDone' <=> EndDone
        /\ EndWritten' <=> EndWritten
        /\ InStep' <=> InStep
        /\ LogEnds' <=> LogEnds
        /\ FirstLoad' <=> FirstLoad
    BY <1>1 DEF Working, Ending, EndDone, EndWritten, InStep, LastSequence, LogEnds, FirstLoad
  <1>3. TypeOK'
    BY <1>1 DEF LogInv, TypeOK
  <1>4. MemoryInv' /\ NumbersInv'
    BY <1>1, <1>2 DEF LogInv, MemoryInv, NumbersInv
  <1>5. TaskInv' /\ CallsInv'
    BY <1>1, <1>2 DEF LogInv, TaskInv, CallsInv
  <1>6. EndInv' /\ SessionInv'
    BY <1>1, <1>2 DEF LogInv, EndInv, SessionInv
  <1>7. HeldInv'
    BY <1>1, <1>2 DEF LogInv, HeldInv, Held
  <1>8. NoHoles' /\ CheckpointNotBehind'
    BY <1>1 DEF LogInv, NoHoles, CheckpointNotBehind
  <1>9. FirstLoadInv'
    BY <1>1, <1>2 DEF LogInv, FirstLoadInv
  <1> QED
    BY <1>3, <1>4, <1>5, <1>6, <1>7, <1>8, <1>9 DEF LogInv

LEMMA LogInvStays ==
  ASSUME LogInv, Next
  PROVE  LogInv'
BY TypesStay, MemoryStays, NumbersStay, TasksStay, CallsStay, EndStays, SessionStays, HeldStays,
   NoHolesStays, FirstLoadStays, CheckpointStays DEF LogInv

\* The invariant that everything below rests on: whatever the interleaving of the
\* recorder, the coordinator's tasks, flush and end, page loads and failing writes,
\* the parts above hold of the recorder's queue and the log.
THEOREM LogInvariant == Spec => []LogInv
  <1>1. Init => LogInv
    BY LogInvStarts
  <1>2. LogInv /\ [Next]_vars => LogInv'
    BY LogInvStays, LogInvStutters
  <1> QED
    BY <1>1, <1>2, PTL DEF Spec

\* Every variable keeps its type: #queue, #sequence, the session and the checkpoints
\* as recorder.ts, coordinator.ts and indexeddb-store.ts declare them.
THEOREM LogTypes == Spec => []TypeOK
  <1>1. LogInv => TypeOK
    BY DEF LogInv
  <1> QED
    BY <1>1, LogInvariant, PTL

\* The recorder of a page that has started never gives out a number that the log
\* has (the maximum in the playground's start, and #append's ++sequence).
THEOREM RecorderIsNotBehind == Spec => []RecorderNotBehind
  <1>1. LogInv => RecorderNotBehind
    <2> SUFFICES ASSUME LogInv, Working PROVE sequence >= LastSequence
      BY DEF RecorderNotBehind, Working
    <2>1. LastSequence = Len(events) /\ Len(events) \in Nat /\ sequence \in Nat
      BY RecorderTypes, LastIsLength DEF LogInv, NumbersInv
    <2>2. sequence >= Len(events) + (IF appending = NoEvent THEN 0 ELSE 1)
      BY DEF LogInv, NumbersInv
    <2> QED
      BY <2>1, <2>2
  <1> QED
    BY <1>1, LogInvariant, PTL

\* An edit in the log has every earlier edit of its page load before it in the log,
\* whatever writes failed (validateAppendBatch, and the numbers #append gives out).
THEOREM LogHasNoHoles == Spec => []NoHoles
  <1>1. LogInv => NoHoles
    BY DEF LogInv
  <1> QED
    BY <1>1, LogInvariant, PTL

\* In the first page load and while no write failed, a stored checkpoint is the one
\* that its event announces and lacks no edit logged before it (#writeCheckpoint).
THEOREM CheckpointsAreNotBehind == Spec => []CheckpointNotBehind
  <1>1. LogInv => CheckpointNotBehind
    BY DEF LogInv
  <1> QED
    BY <1>1, LogInvariant, PTL


-----------------------------------------------------------------------------
(* What a step never does.                                                 *)

\* No session write that was under way makes an ended session active again: by the
\* time end writes the session, the tasks and the flushes before it are done.
THEOREM EndStaysTheEnd == Spec => EndedIsFinal
  <1>1. LogInv /\ [Next]_vars =>
          [(page \in {"open", "disposing", "ending"} /\ session.status = "ended") =>
             session'.status = "ended"]_vars
    <2> SUFFICES ASSUME LogInv, Next, page \in {"open", "disposing", "ending"}, session.status = "ended"
                 PROVE  session'.status = "ended"
      OBVIOUS
    <2>1. EndDone /\ ended /\ page = "ending" /\ summary.status = "ended" /\ task = "idle"
      <3>1. EndDone
        BY DEF LogInv, SessionInv
      <3> QED
        BY <3>1, EndParts DEF EndWritten
    <2>2. CASE Inside
      <3>1. CASE ~SessionWritten
        BY <2>2, <3>1, SessionFrame
      <3>2. CASE TaskSessionCommit \/ TaskCheckpointAsked \/ Started
        BY <2>1, <3>2 DEF TaskSessionCommit, TaskCheckpointAsked, Started
      <3>3. CASE CallCommit
        BY <2>1, <3>3, EndParts DEF CallCommit
      <3> QED
        BY <3>1, <3>2, <3>3 DEF SessionWritten
    <2>3. CASE Close \/ Crash
      BY <2>3 DEF Close, Crash, database
    <2> QED
      BY <2>1, <2>2, <2>3, StepCases DEF Working
  <1> QED
    BY <1>1, LogInvariant, PTL DEF Spec, EndedIsFinal

\* The edits held among no inputs are in the log.
LEMMA HeldByNone ==
  ASSUME NEW log, DOMAIN log = 1 .. Len(log), NEW d, NEW inputs,
         \A edit \in Range(d) : HeldIn(edit, log, inputs, 0)
  PROVE  Logged(d, log)
BY DEF HeldIn, Logged

\* A flush or an end that settles has every edit logged that was made before it was
\* asked for, as long as the store took every event it was given (flush waits for the
\* tasks and then for the recorder; end does so and records its event).
THEOREM FlushHasCovered == Spec => FlushCovers
  <1>1. LogInv /\ [Next]_vars =>
          [lifecycle # << >> /\ lifecycle' = Tail(lifecycle) /\ page' # "closed" /\ InStep =>
             Logged(Head(lifecycle).document, events')]_vars
    <2> SUFFICES ASSUME LogInv, Next, lifecycle # << >>, lifecycle' = Tail(lifecycle), page' # "closed", InStep
                 PROVE  Logged(Head(lifecycle).document, events')
      OBVIOUS
    <2>t. DOMAIN events = 1 .. Len(events)
      BY LenProperties DEF LogInv, TypeOK
    <2>h. HeldDocument /\ HeldCalls
      BY HeldParts DEF LogInv
    <2>l. lifecycle \in Seq(Call) /\ Len(lifecycle) \in Nat /\ Len(lifecycle) > 0 /\ Head(lifecycle) = lifecycle[1]
          /\ Len(lifecycle') = Len(lifecycle) - 1
      BY EndFacts, TailFacts
    <2>w. Working
      BY DEF LogInv, MemoryInv
    <2>1. CASE Settles
      <3>1. step \in {"inputs", "session"} /\ events' = events /\ (step = "inputs" => awaited = 0)
        BY <2>1, Settled DEF Settles, FlushNothing, CallCommit, CallWriteFail
      <3>2. \A edit \in Range(Head(lifecycle).document) : HeldIn(edit, events, queue, 0)
        BY <2>h, <3>1 DEF HeldCalls, Held
      <3> QED
        BY <2>t, <3>1, <3>2, HeldByNone
    <2>2. CASE Close
      <3>1. EndDone /\ events' = events
        <4>1. DOMAIN lifecycle = 1 .. Len(lifecycle)
          BY <2>l, LenProperties
        <4> QED
          BY <2>2, <4>1 DEF Close, Calling, EndDone, database
      <3>2. queue = << >>
        BY <3>1, EndParts DEF EndWritten
      <3>3. \A edit \in Range(document) : HeldIn(edit, events, queue, 0)
        BY <2>h, <3>2 DEF HeldDocument, Held
      <3>4. Range(Head(lifecycle).document) \subseteq Range(document)
        BY <2>h, <2>l DEF HeldCalls
      <3> QED
        BY <2>t, <3>1, <3>3, <3>4, HeldByNone
    <2>3. CASE Inside /\ ~Settles
      <3>1. Len(lifecycle') = Len(lifecycle) \/ Len(lifecycle') = Len(lifecycle) + 1
        <4>1. CASE Asked
          BY <4>1, AskedLast
        <4>2. CASE CallBegin \/ AwaitInputs \/ FlushWrite \/ EndRecord \/ EndWrite
          BY <4>2 DEF CallBegin, AwaitInputs, FlushWrite, EndRecord, EndWrite
        <4>3. CASE \/ AppendBegin \/ RecordedStep \/ TaskSkipped \/ TaskBegin \/ TaskSessionCommit
                   \/ TaskCheckpointAsked \/ TaskCheckpointCommit \/ TaskWriteFail \/ Started
                   \/ Command \/ HistoryMove \/ Other
          BY <4>3, CallsFrame
        <4> QED
          BY <2>3, <4>1, <4>2, <4>3 DEF Inside, RecordedStep, Settles, Asked
      <3>2. \A m, n \in Int : m = n - 1 => ~(m = n \/ m = n + 1)
        OBVIOUS
      <3>3. Len(lifecycle) \in Int /\ Len(lifecycle') \in Int
        BY ONLY <2>l
      <3> QED
        BY ONLY <2>l, <3>1, <3>2, <3>3
    <2>4. ~Crash
      BY DEF Crash
    <2> QED
      BY <2>w, <2>1, <2>2, <2>3, <2>4, StepCases
  <1> QED
    BY <1>1, LogInvariant, PTL DEF Spec, FlushCovers

\* A page that has disposed of itself, with no write failed, leaves an ended session
\* whose event count is the log's length, and a log that ends with the session's end
\* and has every edit (disposePlayground: flush, unmount, end, store.close).
THEOREM CleanClose == Spec => CleanCloseIsComplete
  <1>1. LogInv /\ [Next]_vars =>
          [page # "disposed" /\ page' = "disposed" /\ InStep /\ used.failures = 0 =>
             /\ session = [status |-> "ended", eventCount |-> Len(events)]
             /\ Last(events).type = "system.sessionEnded"
             /\ Logged(document, events)]_vars
    <2> SUFFICES ASSUME LogInv, Next, page # "disposed", page' = "disposed", InStep, used.failures = 0
                 PROVE  /\ session = [status |-> "ended", eventCount |-> Len(events)]
                        /\ Last(events).type = "system.sessionEnded"
                        /\ Logged(document, events)
      OBVIOUS
    <2>1. Close
      BY StepCases DEF Working, Load, Recover, Restore, PutInitialCheckpoint, Crash
    <2>2. EndDone
      <3>1. DOMAIN lifecycle = 1 .. Len(lifecycle)
        BY LenProperties DEF LogInv, TypeOK
      <3> QED
        BY <2>1, <3>1 DEF Close, Calling, EndDone
    <2>3. queue = << >> /\ summary = [status |-> "ended", eventCount |-> sequence] /\ LogEnds
      BY <2>2, EndParts DEF EndWritten
    <2>4. session = summary
      BY <2>2 DEF LogInv, SessionInv
    <2>5. appending = NoEvent
      BY <2>3 DEF LogInv, NumbersInv
    <2>6. sequence = Len(events) /\ Len(events) \in Nat
      BY <2>5, RecorderTypes, LastIsLength DEF LogInv, NumbersInv, InStep
    <2>7. Last(events).type = "system.sessionEnded"
      BY <2>3 DEF LogEnds, Last
    <2>8. Logged(document, events)
      <3>1. \A edit \in Range(document) : HeldIn(edit, events, queue, 0)
        BY <2>3, HeldParts DEF LogInv, HeldDocument, Held
      <3>2. DOMAIN events = 1 .. Len(events)
        BY LenProperties DEF LogInv, TypeOK
      <3> QED
        BY <3>1, <3>2, HeldByNone
    <2> QED
      BY <2>3, <2>4, <2>6, <2>7, <2>8
  <1> QED
    BY <1>1, LogInvariant, PTL DEF Spec, CleanCloseIsComplete


=============================================================================

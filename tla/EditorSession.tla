---------------------------- MODULE EditorSession ----------------------------
(***************************************************************************)
(* The editor session (packages/editor/src/session/session.ts): its        *)
(* setters, the queue that tells its listeners, and the observer that      *)
(* records what was set (packages/editor/src/operation-log/adapter.ts).    *)
(*                                                                         *)
(* The state is a value for each field.  A listener may set, subscribe and *)
(* unsubscribe while it is called.  A listener that throws is no different *)
(* from one that returns, and so is the observer.                          *)
(***************************************************************************)
EXTENDS Integers, Sequences, SequencesExt

CONSTANTS
  Fields,      \* of the session, "viewport" among them
  Listeners,
  MaxSets,     \* bound: calls of a setter that change the state
  NoViewport   \* no value

ASSUME EditorSessionAssumption ==
  /\ "viewport" \in Fields
  /\ MaxSets \in Nat
  /\ NoViewport \notin 0 .. 1

VARIABLES
  fields,             \* #state
  sets,               \* how often it changed, which numbers its states
  pendingStates,      \* #pendingStates, by their numbers
  delivered,          \* the state that is being delivered
  toCall,             \* the listeners it was not delivered to yet
  calling,            \* whether a listener was called since
  listeners,          \* #listeners, in order of subscription
  heard, joined,      \* history: the last state each heard, and the one it joined at
  pendingViewport, viewportScheduled,
  deferred,           \* the recorder's queue: what was set, the viewport when its turn comes
  sessionLog          \* the recorded operations

emitter == <<pendingStates, delivered, toCall, calling, listeners, heard, joined>>
observer == <<pendingViewport, viewportScheduled, deferred, sessionLog>>
sessionVars == <<fields, sets, emitter, observer>>

SessionInit ==
  /\ fields = [field \in Fields |-> 0]
  /\ sets = 0
  /\ pendingStates = << >>
  /\ delivered = 0
  /\ toCall = << >>
  /\ calling = FALSE
  /\ listeners = << >>
  /\ heard = [listener \in Listeners |-> 0]
  /\ joined = [listener \in Listeners |-> 0]
  /\ pendingViewport = NoViewport
  /\ viewportScheduled = FALSE
  /\ deferred = << >>
  /\ sessionLog = << >>

Quiet == pendingStates = << >> /\ toCall = << >>

\* Other code runs when the session is not notifying, and in the listener it calls.
MayRun == Quiet \/ calling

\* A viewport is noted, and waits once in the recorder's queue.
Observe(field, value) ==
  /\ IF field = "viewport"
     THEN /\ pendingViewport' = value
          /\ viewportScheduled' = TRUE
          /\ deferred' = IF viewportScheduled THEN deferred ELSE Append(deferred, [field |-> field])
     ELSE /\ deferred' = Append(deferred, [field |-> field, value |-> value])
          /\ UNCHANGED <<pendingViewport, viewportScheduled>>
  /\ UNCHANGED sessionLog

\* A notification that delivers what a listener set before what was set earlier.
EmitFirst(number) ==
  /\ pendingStates' = <<number>> \o pendingStates
  /\ UNCHANGED <<delivered, toCall, calling, listeners, heard, joined>>

\* #emit: the state queues behind those that were not delivered yet.
Emit(number) ==
  /\ pendingStates' = Append(pendingStates, number)
  /\ UNCHANGED <<delivered, toCall, calling, listeners, heard, joined>>

\* A setter, or toggleExpanded; one that changes nothing does nothing.
Set(field, value) ==
  /\ MayRun
  /\ sets < MaxSets
  /\ fields[field] # value
  /\ fields' = [fields EXCEPT ![field] = value]
  /\ sets' = sets + 1
  /\ Observe(field, value)
  /\ Emit(sets')

\* #emit takes the next state, and the listeners there are.
TakeState ==
  /\ toCall = << >>
  /\ pendingStates # << >>
  /\ delivered' = Head(pendingStates)
  /\ pendingStates' = Tail(pendingStates)
  /\ toCall' = listeners
  /\ calling' = FALSE
  /\ UNCHANGED <<fields, sets, listeners, heard, joined, observer>>

CallListener ==
  /\ toCall # << >>
  /\ heard' = [heard EXCEPT ![Head(toCall)] = delivered]
  /\ toCall' = Tail(toCall)
  /\ calling' = TRUE
  /\ UNCHANGED <<fields, sets, pendingStates, delivered, listeners, joined, observer>>

Subscribe(listener) ==
  /\ MayRun
  /\ ~Contains(listeners, listener)
  /\ listeners' = Append(listeners, listener)
  /\ joined' = [joined EXCEPT ![listener] = sets]
  /\ UNCHANGED <<fields, sets, pendingStates, delivered, toCall, calling, heard, observer>>

Unsubscribe(listener) ==
  /\ MayRun
  /\ Contains(listeners, listener)
  /\ listeners' = RemoveFirst(listeners, listener)
  /\ UNCHANGED <<fields, sets, pendingStates, delivered, toCall, calling, heard, joined, observer>>

\* A flush that leaves the viewport scheduled.
FlushPendingOnly == pendingViewport' = NoViewport /\ UNCHANGED viewportScheduled

FlushViewport == pendingViewport' = NoViewport /\ viewportScheduled' = FALSE

\* The recorder runs the next operation, a viewport with its latest value; one
\* without a value is an error the recorder drops.
RecordDeferred ==
  /\ Quiet
  /\ deferred # << >>
  /\ deferred' = Tail(deferred)
  /\ IF Head(deferred).field = "viewport"
     THEN /\ sessionLog' = IF pendingViewport = NoViewport THEN sessionLog
                           ELSE Append(sessionLog, [field |-> "viewport", value |-> pendingViewport])
          /\ FlushViewport
     ELSE /\ sessionLog' = Append(sessionLog, Head(deferred))
          /\ UNCHANGED <<pendingViewport, viewportScheduled>>
  /\ UNCHANGED <<fields, sets, emitter>>

SessionNext ==
  \/ \E field \in Fields : \E value \in 0 .. 1 : Set(field, value)
  \/ TakeState \/ CallListener \/ RecordDeferred
  \/ \E listener \in Listeners : Subscribe(listener) \/ Unsubscribe(listener)

SessionSpec == SessionInit /\ [][SessionNext]_sessionVars

-----------------------------------------------------------------------------
SessionTypeOK ==
  /\ fields \in [Fields -> 0 .. 1]
  /\ Range(pendingStates) \subseteq 1 .. sets
  /\ Range(toCall) \cup Range(listeners) \subseteq Listeners
  /\ heard \in [Listeners -> 0 .. sets]
  /\ pendingViewport \in {NoViewport, 0, 1}
  /\ viewportScheduled <=> pendingViewport # NoViewport

\* What the operations make of the initial session.
Replayed(operations) ==
  FoldLeft(LAMBDA state, operation : [state EXCEPT ![operation.field] = operation.value],
           [field \in Fields |-> 0], operations)

\* What was recorded and what waits to be recorded make up the session: with the
\* viewports merged, however the setters and the recorder interleave, no
\* operation is lost and none is recorded with a value that was replaced.
SessionLogComplete ==
  LET queued == [i \in DOMAIN deferred |->
                  IF deferred[i].field = "viewport"
                  THEN [field |-> "viewport", value |-> pendingViewport] ELSE deferred[i]]
  IN  Replayed(sessionLog \o queued) = fields

\* When the session is not notifying, each listener last heard the state there
\* is, or joined since: setters called by listeners are heard in their order.
ListenersHearLast ==
  Quiet => \A i \in DOMAIN listeners :
             heard[listeners[i]] = sets \/ joined[listeners[i]] = sets
===============================================================================

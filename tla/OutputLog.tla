------------------------------- MODULE OutputLog -------------------------------
(***************************************************************************)
(* The log that is watched: the controller                                 *)
(* (packages/editor/src/operation-log/controller.ts), which queries the    *)
(* log store when it is asked to and when the store changes, and the       *)
(* output panel (packages/editor/src/workspace/output/panel.ts, the filter *)
(* of toolbar.ts), which shows its rows.                                   *)
(*                                                                         *)
(* An event is its number; what a query looks at, its level.  A query of   *)
(* the store may fail, and several may be under way: their answers come in *)
(* any order, each followed by the code that awaits it.                    *)
(***************************************************************************)
EXTENDS Integers, Sequences, FiniteSets, FiniteSetsExt

CONSTANTS
  Levels,          \* filterLevels
  MaxEvents,       \* bound: events of the log
  MaxUses,         \* bound: what the user does
  NoEvent          \* no event

ASSUME OutputLogAssumption ==
  MaxEvents \in Nat /\ MaxUses \in Nat /\ NoEvent \notin 1 .. MaxEvents

VARIABLES
  log,                   \* the stored events' levels
  unnotified,            \* changes the store did not tell of yet
  viewQuery, rows, refreshGeneration,   \* of the controller
  refreshes,             \* the #refresh calls under way
  levels, queryGeneration, clearedThrough, latestRows, selected,   \* of the panel
  lastMaximum, unseen, autoScroll,
  error, busy,           \* the error shown, whether an action is under way
  unmounted,             \* disposed
  lastFailed,            \* history: whether the controller's latest refresh failed
  uses

store == <<log, unnotified>>
controller == <<viewQuery, rows, refreshGeneration, refreshes, lastFailed>>
view == <<clearedThrough, latestRows, selected, lastMaximum, unseen, autoScroll>>
outputVars == <<store, controller, view, levels, queryGeneration, error, busy, unmounted, uses>>

\* matchesViewQuery, of the first events of the log.
Matching(query, count) ==
  {event \in 1 .. count : query = {} \/ log[event] \in query}

\* #refresh: the panel's number of the query, 0 for one that the store caused.
Refresh(query, forPanel) ==
  /\ viewQuery' = query
  /\ refreshGeneration' = refreshGeneration + 1
  /\ refreshes' = refreshes \cup
       {[generation |-> refreshGeneration', forPanel |-> forPanel, stage |-> "asked"]}
  /\ UNCHANGED <<rows, lastFailed>>

\* The panel is mounted with an empty log and asks at once.
OutputInit ==
  /\ log = << >>
  /\ unnotified = 0
  /\ viewQuery = {}
  /\ rows = {}
  /\ refreshGeneration = 1
  /\ refreshes = {[generation |-> 1, forPanel |-> 1, stage |-> "asked"]}
  /\ levels = {}
  /\ queryGeneration = 1
  /\ clearedThrough = 0
  /\ latestRows = {}
  /\ selected = NoEvent
  /\ lastMaximum = 0
  /\ unseen = 0
  /\ autoScroll = TRUE
  /\ error = "none"
  /\ busy = FALSE
  /\ unmounted = FALSE
  /\ lastFailed = FALSE
  /\ uses = 0

-----------------------------------------------------------------------------
(* The store and the controller.                                           *)

AppendEvent(level) ==
  /\ Len(log) < MaxEvents
  /\ log' = Append(log, level)
  /\ unnotified' = unnotified + 1
  /\ UNCHANGED <<controller, view, levels, queryGeneration, error, busy, unmounted, uses>>

StoreNotifies ==
  /\ unnotified > 0
  /\ unnotified' = unnotified - 1
  /\ Refresh(viewQuery, 0)
  /\ UNCHANGED <<log, view, levels, queryGeneration, error, busy, unmounted, uses>>

\* The store reads its events, or fails.
StoreQuery(call) ==
  /\ call.stage = "asked"
  /\ \E failed \in BOOLEAN :
       refreshes' = (refreshes \ {call}) \cup
         {[generation |-> call.generation, forPanel |-> call.forPanel, stage |-> "read",
           failed |-> failed, count |-> Len(log)]}
  /\ UNCHANGED <<store, viewQuery, rows, refreshGeneration, lastFailed, view, levels,
                 queryGeneration, error, busy, unmounted, uses>>

\* renderRows: what is above the cleared events; one who reads older events is
\* told how many came.
RenderRows(shownRows) ==
  LET above == {event \in shownRows : event > clearedThrough'}
      maximum == Max(above \cup {0})
  IN  /\ latestRows' = above
      /\ unseen' = IF autoScroll' THEN unseen
                   ELSE unseen + Cardinality({event \in above : event > lastMaximum})
      /\ lastMaximum' = Max({lastMaximum, maximum})

\* The panel is told: the rows are rendered, and what it awaits is out of date.
PanelNotified(nextRows) ==
  /\ queryGeneration' = queryGeneration + 1
  /\ selected' = NoEvent
  /\ UNCHANGED <<clearedThrough, autoScroll>>
  /\ RenderRows(nextRows)

\* What awaits the refresh: the panel's refresh, or nobody.
Answer(call, failed, answer) ==
  refreshes' = (refreshes \ {call}) \cup
    (IF call.forPanel = 0 THEN {}
     ELSE {[forPanel |-> call.forPanel, stage |-> "answered", failed |-> failed, rows |-> answer]})

\* A controller that takes the answer of an older query.
TakesAnyAnswer(call) == ~call.failed

\* Only the latest answer counts.
TakesAnswer(call) == ~call.failed /\ call.generation = refreshGeneration

FinishRefresh(call) ==
  /\ call.stage = "read"
  /\ IF TakesAnswer(call)
     THEN /\ rows' = Matching(viewQuery, call.count)
          /\ IF unmounted THEN UNCHANGED <<view, queryGeneration>> ELSE PanelNotified(rows')
     ELSE UNCHANGED <<rows, view, queryGeneration>>
  /\ Answer(call, call.failed, rows')
  /\ lastFailed' = IF call.generation = refreshGeneration THEN call.failed ELSE lastFailed
  /\ UNCHANGED <<store, viewQuery, refreshGeneration, levels, error, busy, unmounted, uses>>

-----------------------------------------------------------------------------
(* The panel.                                                              *)

\* The end of the panel's refresh.
FinishQuery(call) ==
  /\ call.stage = "answered"
  /\ refreshes' = refreshes \ {call}
  /\ IF unmounted \/ call.forPanel # queryGeneration THEN UNCHANGED <<view, error>>
     ELSE /\ error' = (IF call.failed THEN "query" ELSE "none")
          /\ UNCHANGED <<clearedThrough, selected, autoScroll>>
          /\ RenderRows(IF call.failed THEN {} ELSE call.rows)
  /\ UNCHANGED <<store, viewQuery, rows, refreshGeneration, lastFailed, levels, queryGeneration,
                 busy, unmounted, uses>>

Use == ~unmounted /\ uses < MaxUses /\ uses' = uses + 1

\* changeFilter: no level stands for all of them.
ChangedFilter(level, checked) ==
  LET expanded == IF levels = {} THEN Levels ELSE levels
      next == IF checked THEN expanded \cup {level} ELSE expanded \ {level}
  IN  IF next = Levels THEN {} ELSE next

\* A filter is changed or reset, or the query retried.
Query(next) ==
  /\ Use
  /\ levels' = next
  /\ queryGeneration' = queryGeneration + 1
  /\ Refresh(next, queryGeneration')
  /\ UNCHANGED <<store, view, error, busy, unmounted>>

\* The button that the error of a query comes with.
Retry == error = "query" /\ Query(levels)

\* A click on a row, and one beside the rows.
SelectRow(event) ==
  /\ Use
  /\ event \in latestRows \cup {NoEvent}
  /\ selected' = event
  /\ autoScroll' = (autoScroll /\ event = NoEvent)
  /\ UNCHANGED clearedThrough
  /\ RenderRows(latestRows)
  /\ UNCHANGED <<store, controller, levels, queryGeneration, error, busy, unmounted>>

SetAutoScroll(next) ==
  /\ Use
  /\ autoScroll' = next
  /\ unseen' = IF next THEN 0 ELSE unseen
  /\ UNCHANGED <<store, controller, clearedThrough, latestRows, selected, lastMaximum, levels,
                 queryGeneration, error, busy, unmounted>>

\* clearView: the events that are shown are not shown again.  Its button is
\* disabled while an action is under way.
ClearView ==
  /\ Use
  /\ ~busy
  /\ clearedThrough' = Max(latestRows \cup {clearedThrough})
  /\ selected' = NoEvent
  /\ UNCHANGED autoScroll
  /\ RenderRows(latestRows)
  /\ UNCHANGED <<store, controller, levels, queryGeneration, error, busy, unmounted>>

\* runAsyncAction: an import, an export or the start of a replay, one at a time.
RunAction ==
  /\ Use
  /\ ~busy
  /\ busy' = TRUE
  /\ error' = "none"
  /\ UNCHANGED <<store, controller, view, levels, queryGeneration, unmounted>>

FinishAction ==
  /\ busy
  /\ busy' = FALSE
  /\ error' \in {"none", IF unmounted THEN error ELSE "action"}
  /\ UNCHANGED <<store, controller, view, levels, queryGeneration, unmounted, uses>>

Unmount ==
  /\ Use
  /\ unmounted' = TRUE
  /\ queryGeneration' = queryGeneration + 1
  /\ UNCHANGED <<store, controller, view, levels, error, busy>>

OutputNext ==
  \/ \E level \in Levels : AppendEvent(level) \/ \E checked \in BOOLEAN : Query(ChangedFilter(level, checked))
  \/ StoreNotifies
  \/ \E call \in refreshes : StoreQuery(call) \/ FinishRefresh(call) \/ FinishQuery(call)
  \/ Query({}) \/ Retry
  \/ \E event \in latestRows \cup {NoEvent} : SelectRow(event)
  \/ \E next \in BOOLEAN : SetAutoScroll(next)
  \/ ClearView \/ RunAction \/ FinishAction \/ Unmount

OutputSpec == OutputInit /\ [][OutputNext]_outputVars

-----------------------------------------------------------------------------
OutputTypeOK ==
  /\ rows \cup latestRows \subseteq DOMAIN log
  /\ viewQuery \in SUBSET Levels /\ levels \in SUBSET Levels
  /\ lastMaximum \in 0 .. Len(log) /\ clearedThrough \in 0 .. Len(log)
  /\ selected \in DOMAIN log \cup {NoEvent}
  /\ autoScroll => unseen = 0
  /\ error \in {"none", "query", "action"}

\* When nothing is under way and the latest query did not fail, the controller's
\* rows are the events of the log for the panel's filter, and the panel shows
\* those that were not cleared, whatever answers came late or failed before.
RowsCurrent ==
  refreshes = {} /\ unnotified = 0 /\ ~lastFailed =>
    /\ viewQuery = levels
    /\ rows = Matching(levels, Len(log))
    /\ ~unmounted => latestRows = {event \in rows : event > clearedThrough}
===============================================================================

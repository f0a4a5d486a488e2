------------------------------- MODULE Workspace -------------------------------
(***************************************************************************)
(* The workspace's panels and their stored layout                          *)
(* (packages/editor/src/workspace/editor-workspace.ts, layout-store.ts).   *)
(*                                                                         *)
(* Saves run one after the other, and so do resets; a reset waits for the  *)
(* saves there are when its turn comes, and the steps of both interleave   *)
(* with the user's and the timer's.  A layout is the set of its panels and *)
(* how they are arranged.  The dock library tells of a change at once or   *)
(* before the next input.  layoutEpoch and resetGeneration are raised      *)
(* together and are one number.                                            *)
(***************************************************************************)
EXTENDS Integers, Sequences, FiniteSets

CONSTANTS
  Closable,        \* the panels a user may close
  Fixed,           \* the canvas and the others
  MaxRequests,     \* bound: what users and callers ask for
  NoLayout

ASSUME WorkspaceAssumption ==
  /\ Closable \cap Fixed = {} /\ Fixed # {}
  /\ MaxRequests \in Nat

VARIABLES
  layout,          \* what the dock shows
  observedPanels,
  layoutDirty,
  pendingLayout, layoutTimer,
  saves,           \* layoutPersistence: the saves that are not settled
  resets,          \* resetPersistence: the same for the resets
  generation,
  resettingLayout,
  loading,
  closed,          \* disposed
  storedLayout,
  notice,          \* whether the dock has a change to tell of
  told,            \* history: the panels there are according to the events
  failed,          \* history: whether the store's last operation failed
  overtaken,       \* history: whether a panel was opened or closed during a reset
  early,           \* history: whether pendingLayout was taken during a reset
  outdated,        \* history: whether the events told of a layout taken during a reset
  requests

persistence == <<saves, resets, generation, resettingLayout, storedLayout, failed>>
scheduled == <<pendingLayout, layoutTimer>>
dock == <<layout, observedPanels, notice, told>>
resetMarks == <<overtaken, early, outdated>>
workspaceVars == <<dock, layoutDirty, scheduled, persistence, loading, closed, resetMarks, requests>>

Layouts == [panels : SUBSET (Closable \cup Fixed), arrangement : 0 .. 1]

\* An empty store is told from every layout.
ASSUME NoLayoutAssumption == NoLayout \notin Layouts

Default == [panels |-> Closable \cup Fixed, arrangement |-> 0]

\* What an earlier page may have stored, one without the canvas too.
WorkspaceInit ==
  /\ layout = Default
  /\ observedPanels = Default.panels
  /\ layoutDirty = FALSE
  /\ pendingLayout = NoLayout
  /\ layoutTimer = FALSE
  /\ saves = << >>
  /\ resets = << >>
  /\ generation = 0
  /\ resettingLayout = FALSE
  /\ loading = TRUE
  /\ closed = FALSE
  /\ storedLayout \in {NoLayout, [panels |-> Fixed, arrangement |-> 1],
                       [panels |-> Closable, arrangement |-> 0]}
  /\ notice = FALSE
  /\ told = Default.panels
  /\ failed = FALSE
  /\ overtaken = FALSE
  /\ early = FALSE
  /\ outdated = FALSE
  /\ requests = 0

\* What the user, a caller or the timer starts comes after the dock's notice.
Request ==
  /\ ~notice /\ ~closed
  /\ requests < MaxRequests
  /\ requests' = requests + 1

-----------------------------------------------------------------------------
(* Panels and the timer.                                                   *)

\* scheduleLayout: the layout is saved when the timer is up, a later one instead.
ScheduleLayout ==
  /\ pendingLayout' = layout'
  /\ layoutTimer' = TRUE

\* openPanel, closePanel: what the dock shows changes, during a reset too; the
\* event tells of the one panel.
ChangePanels(panels, tell) ==
  /\ Request
  /\ layout' = [layout EXCEPT !.panels = panels]
  /\ observedPanels' = panels
  /\ told' = tell
  /\ notice' \in BOOLEAN
  /\ layoutDirty' = TRUE
  /\ ScheduleLayout
  /\ overtaken' = (overtaken \/ resettingLayout)
  /\ early' = resettingLayout
  /\ UNCHANGED <<persistence, loading, closed, outdated>>

OpenPanel(id) ==
  id \notin layout.panels /\ ChangePanels(layout.panels \cup {id}, told \cup {id})

ClosePanel(id) ==
  id \in layout.panels /\ ChangePanels(layout.panels \ {id}, told \ {id})

\* The user closes a panel in the dock, or drags one elsewhere.
UserChanges ==
  /\ Request
  /\ \/ \E id \in layout.panels \cap Closable : layout' = [layout EXCEPT !.panels = @ \ {id}]
     \/ layout' = [layout EXCEPT !.arrangement = 1 - @]
  /\ notice' = TRUE
  /\ UNCHANGED <<observedPanels, told, layoutDirty, scheduled, persistence, loading, closed, resetMarks>>

\* onLayoutChange: the panels that came and went are told of, the others are not.
LayoutNotice ==
  /\ notice
  /\ notice' = FALSE
  /\ IF closed \/ resettingLayout
     THEN UNCHANGED <<observedPanels, told, layoutDirty, scheduled, layout, early>>
     ELSE /\ told' = (told \cup (layout.panels \ observedPanels)) \ (observedPanels \ layout.panels)
          /\ observedPanels' = layout.panels
          /\ layoutDirty' = TRUE
          /\ layout' = layout
          /\ ScheduleLayout
          /\ early' = FALSE
  /\ UNCHANGED <<persistence, loading, closed, overtaken, outdated, requests>>

\* flushLayout: the event, and a save behind those that are not settled.
FlushLayout ==
  /\ layoutTimer' = FALSE
  /\ pendingLayout' = NoLayout
  /\ IF pendingLayout = NoLayout THEN UNCHANGED <<saves, told>>
     ELSE /\ told' = pendingLayout.panels
          /\ saves' = Append(saves, [layout |-> pendingLayout, epoch |-> generation, begun |-> FALSE])

\* Whether what the events told last is of a layout taken during a reset.
ToldEarly == IF pendingLayout = NoLayout THEN outdated ELSE early

TimerUp ==
  /\ layoutTimer
  /\ ~notice
  /\ FlushLayout
  /\ outdated' = ToldEarly
  /\ UNCHANGED <<layout, observedPanels, notice, layoutDirty, resets, generation, resettingLayout,
                 storedLayout, failed, loading, closed, overtaken, early, requests>>

\* dispose: what was to be saved later is saved now; what the dock shows then stays.
DisposeWorkspace ==
  /\ Request
  /\ FlushLayout
  /\ outdated' = (ToldEarly \/ resettingLayout)
  /\ closed' = TRUE
  /\ UNCHANGED <<layout, observedPanels, notice, layoutDirty, resets, generation,
                 resettingLayout, storedLayout, failed, loading, overtaken, early>>

-----------------------------------------------------------------------------
(* The layout store.                                                       *)

\* A save from before a reset is left out, unless it began.
BeginSave ==
  /\ saves # << >> /\ ~saves[1].begun
  /\ saves' = IF saves[1].epoch # generation THEN Tail(saves)
              ELSE [saves EXCEPT ![1].begun = TRUE]
  /\ resets' = IF saves[1].epoch # generation /\ resets # << >>
               THEN [resets EXCEPT ![1].waitsFor = IF @ > 0 THEN @ - 1 ELSE 0] ELSE resets
  /\ UNCHANGED <<dock, layoutDirty, scheduled, generation, resettingLayout, storedLayout, failed,
                 loading, closed, resetMarks, requests>>

FinishSave ==
  /\ saves # << >> /\ saves[1].begun
  /\ saves' = Tail(saves)
  /\ resets' = IF resets = << >> THEN resets
               ELSE [resets EXCEPT ![1].waitsFor = IF @ > 0 THEN @ - 1 ELSE 0]
  /\ \/ storedLayout' = saves[1].layout /\ failed' = FALSE
     \/ failed' = TRUE /\ UNCHANGED storedLayout
  /\ UNCHANGED <<dock, layoutDirty, scheduled, generation, resettingLayout,
                 loading, closed, resetMarks, requests>>

\* resetLayout: what was to be saved later is not saved any more.
ResetLayout ==
  /\ Request
  /\ generation' = generation + 1
  /\ resettingLayout' = TRUE
  /\ layoutTimer' = FALSE
  /\ pendingLayout' = NoLayout
  /\ resets' = Append(resets, [generation |-> generation', stage |-> "queued", waitsFor |-> 0])
  /\ UNCHANGED <<dock, layoutDirty, saves, storedLayout, failed, loading, closed, resetMarks>>

\* A reset that removes the layout while an older one may still be being saved.
ResetAtOnce ==
  /\ resets # << >> /\ resets[1].stage = "queued"
  /\ resets' = [resets EXCEPT ![1].stage = "waiting"]
  /\ UNCHANGED <<dock, layoutDirty, scheduled, saves, generation, resettingLayout, storedLayout,
                 failed, loading, closed, resetMarks, requests>>

\* Its turn: it awaits layoutPersistence.
ResetTurn ==
  /\ resets # << >> /\ resets[1].stage = "queued"
  /\ resets' = [resets EXCEPT ![1].stage = "waiting", ![1].waitsFor = Len(saves)]
  /\ UNCHANGED <<dock, layoutDirty, scheduled, saves, generation, resettingLayout, storedLayout,
                 failed, loading, closed, resetMarks, requests>>

RemoveStored ==
  /\ resets # << >> /\ resets[1].stage = "waiting" /\ resets[1].waitsFor = 0
  /\ resets' = [resets EXCEPT ![1].stage = "removed"]
  /\ \/ storedLayout' = NoLayout /\ failed' = FALSE
     \/ failed' = TRUE /\ UNCHANGED storedLayout
  /\ UNCHANGED <<dock, layoutDirty, scheduled, saves, generation, resettingLayout,
                 loading, closed, resetMarks, requests>>

\* applyDefaultLayout by a workspace that goes on with the panels it knew.
DefaultUnobserved ==
  /\ layout' = Default
  /\ notice' \in {notice, TRUE}
  /\ UNCHANGED observedPanels

\* applyDefaultLayout.
ApplyDefaultLayout ==
  /\ layout' = Default
  /\ notice' \in {notice, TRUE}
  /\ observedPanels' = Default.panels

\* The last reset that was asked for brings the default layout back.
FinishReset ==
  /\ resets # << >> /\ resets[1].stage = "removed"
  /\ resets' = Tail(resets)
  /\ IF closed \/ resets[1].generation # generation THEN UNCHANGED <<dock, layoutDirty, outdated>>
     ELSE /\ ApplyDefaultLayout
          /\ layoutDirty' = TRUE
          /\ told' = Default.panels
          /\ outdated' = FALSE
  /\ resettingLayout' = (resettingLayout /\ resets[1].generation # generation)
  /\ UNCHANGED <<scheduled, saves, generation, storedLayout, failed, loading, closed, overtaken,
                 early, requests>>

\* The stored layout comes, or an error: too late when the layout changed since,
\* and one that does not restore, or has no canvas then, gives way to the default.
LoadLayout ==
  /\ loading
  /\ loading' = FALSE
  /\ \/ UNCHANGED dock
     \/ /\ ~closed /\ ~layoutDirty
        /\ storedLayout # NoLayout /\ Fixed \subseteq storedLayout.panels
        /\ \/ /\ layout' = storedLayout
              /\ observedPanels' = storedLayout.panels
              /\ told' = storedLayout.panels
              /\ notice' \in {notice, TRUE}
           \/ ApplyDefaultLayout /\ UNCHANGED told
  /\ UNCHANGED <<layoutDirty, scheduled, persistence, closed, resetMarks, requests>>

WorkspaceNext ==
  \/ \E id \in Closable : OpenPanel(id) \/ ClosePanel(id)
  \/ UserChanges \/ LayoutNotice \/ TimerUp \/ DisposeWorkspace
  \/ BeginSave \/ FinishSave
  \/ ResetLayout \/ ResetTurn \/ RemoveStored \/ FinishReset
  \/ LoadLayout

WorkspaceSpec == WorkspaceInit /\ [][WorkspaceNext]_workspaceVars

-----------------------------------------------------------------------------
WorkspaceTypeOK ==
  /\ layout \in Layouts
  /\ pendingLayout \in Layouts \cup {NoLayout}
  /\ layoutTimer <=> pendingLayout # NoLayout
  /\ storedLayout \in Layouts \cup {NoLayout}
  /\ resettingLayout <=> resets # << >>
  /\ \A i \in DOMAIN resets : resets[i].generation \in 1 .. generation

\* Nothing is under way.
Settled == ~notice /\ ~layoutTimer /\ saves = << >> /\ resets = << >>

\* When nothing is under way, the store holds the layout that is shown, or none
\* after a reset: no save that was asked for before a reset, or before a later
\* change, overwrites what came after it.  Excepted are a store that fails, and a
\* panel opened or closed by a caller while a reset was under way: its layout may
\* be saved after the reset that put it aside.
StoredLayoutIsCurrent ==
  Settled /\ layoutDirty /\ ~failed /\ ~overtaken =>
    \/ storedLayout = layout
    \/ storedLayout = NoLayout /\ (closed \/ layout = Default)

\* The events a workspace tells, one panel at a time and whole layouts, fold to the
\* panels it shows, whichever way these came and went, when the dock has nothing to
\* tell of and no reset is under way.  The exceptions: the layout of a panel that a
\* caller opened or closed during a reset is told of after the reset put the default
\* there (the events are right again with the next whole layout), and a workspace
\* closed during a reset tells of nothing more.
PanelLogFolds ==
  ~notice /\ ~resettingLayout /\ ~outdated => told = layout.panels
===============================================================================

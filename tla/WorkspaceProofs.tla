---------------------------- MODULE WorkspaceProofs ----------------------------
(***************************************************************************)
(* Theorems about Workspace, for any panels and any number of requests,    *)
(* and about OutputLog, for any levels and any number of events and uses.  *)
(***************************************************************************)
EXTENDS Workspace, OutputLog, FiniteSetTheorems, TLAPS

Save == [layout : Layouts, epoch : Nat, begun : BOOLEAN]

Reset == [generation : Nat, stage : {"queued", "waiting", "removed"}, waitsFor : Nat]

LayoutInv ==
  /\ layout \in Layouts
  /\ pendingLayout \in Layouts \cup {NoLayout}
  /\ storedLayout \in Layouts \cup {NoLayout}
  /\ saves \in Seq(Save)

\* No two resets are of the same generation, and while one of the current generation
\* is there the workspace is being reset.
ResetInv ==
  /\ resets \in Seq(Reset)
  /\ generation \in Nat
  /\ \A i, j \in 1 .. Len(resets) : resets[i].generation = resets[j].generation => i = j
  /\ \A i \in 1 .. Len(resets) :
       /\ resets[i].generation <= generation
       /\ resets[i].generation = generation => resettingLayout

\* What the events gave, what the workspace observed, what the dock shows and what
\* is to be saved have the same panels, each from where it is up to date: a layout
\* that waits during a reset was taken during it.
PanelsInv ==
  /\ ~resettingLayout /\ ~outdated =>
       IF closed THEN told = layout.panels ELSE told = observedPanels
  /\ ~closed /\ ~resettingLayout /\ ~notice => observedPanels = layout.panels
  /\ ~notice /\ pendingLayout # NoLayout /\ ~early => pendingLayout.panels = layout.panels
  /\ resettingLayout /\ pendingLayout # NoLayout => early
  /\ closed => ~notice /\ pendingLayout = NoLayout
  /\ closed /\ resettingLayout => outdated
  /\ outdated => layoutDirty \/ closed
  /\ ~layoutDirty => pendingLayout = NoLayout
  /\ loading /\ ~layoutDirty => told = Default.panels

WorkspaceInv == LayoutInv /\ ResetInv /\ PanelsInv

LEMMA DefaultIsLayout == Default \in Layouts
BY DEF Default, Layouts

LEMMA WorkspaceInitInv == WorkspaceInit => WorkspaceInv
<1> SUFFICES ASSUME WorkspaceInit PROVE WorkspaceInv
  OBVIOUS
<1>1. LayoutInv
  BY DEF WorkspaceInit, LayoutInv, Layouts, Default
<1>2. ResetInv /\ PanelsInv
  BY DEF WorkspaceInit, ResetInv, PanelsInv, Default
<1> QED
  BY <1>1, <1>2 DEF WorkspaceInv

LEMMA ChangePanelsKeeps ==
  ASSUME WorkspaceInv, NEW panels \in SUBSET (Closable \cup Fixed), NEW tell,
         ChangePanels(panels, tell), told = layout.panels => tell = panels
  PROVE  WorkspaceInv'
<1>1. layout' = [layout EXCEPT !.panels = panels] /\ layout \in Layouts
  BY DEF ChangePanels, WorkspaceInv, LayoutInv
<1>2. layout' \in Layouts /\ layout'.panels = panels
  BY <1>1 DEF Layouts
<1>3. LayoutInv'
  BY <1>2 DEF WorkspaceInv, LayoutInv, ChangePanels, ScheduleLayout, persistence
<1>4. ResetInv'
  BY DEF WorkspaceInv, ResetInv, ChangePanels, persistence
<1>5. PanelsInv'
  BY <1>2 DEF WorkspaceInv, PanelsInv, ChangePanels, ScheduleLayout, persistence, Request
<1> QED
  BY <1>3, <1>4, <1>5 DEF WorkspaceInv

LEMMA UserChangesKeeps ==
  ASSUME WorkspaceInv, UserChanges
  PROVE  WorkspaceInv'
<1>1. layout' \in Layouts
  <2>1. layout \in Layouts
    BY DEF WorkspaceInv, LayoutInv
  <2>2. CASE \E id \in layout.panels \cap Closable : layout' = [layout EXCEPT !.panels = @ \ {id}]
    BY <2>1, <2>2 DEF Layouts
  <2>3. CASE layout' = [layout EXCEPT !.arrangement = 1 - @]
    BY <2>1, <2>3 DEF Layouts
  <2> QED
    BY <2>2, <2>3 DEF UserChanges
<1>2. LayoutInv' /\ ResetInv'
  BY <1>1 DEF WorkspaceInv, LayoutInv, ResetInv, UserChanges, scheduled, persistence
<1>3. PanelsInv'
  BY DEF WorkspaceInv, PanelsInv, UserChanges, scheduled, persistence, resetMarks, Request
<1> QED
  BY <1>2, <1>3 DEF WorkspaceInv

LEMMA LayoutNoticeKeeps ==
  ASSUME WorkspaceInv, LayoutNotice
  PROVE  WorkspaceInv'
<1>1. CASE closed \/ resettingLayout
  BY <1>1 DEF WorkspaceInv, LayoutInv, ResetInv, PanelsInv, LayoutNotice, scheduled, persistence
<1>2. CASE ~(closed \/ resettingLayout)
  <2>1. LayoutInv' /\ ResetInv'
    BY <1>2 DEF WorkspaceInv, LayoutInv, ResetInv, LayoutNotice, ScheduleLayout, persistence
  <2>2. ASSUME ~outdated PROVE told' = layout.panels
    BY <1>2, <2>2 DEF WorkspaceInv, PanelsInv, LayoutNotice
  <2>3. PanelsInv'
    BY <1>2, <2>2 DEF WorkspaceInv, PanelsInv, LayoutNotice, ScheduleLayout, persistence
  <2> QED
    BY <2>1, <2>3 DEF WorkspaceInv
<1> QED
  BY <1>1, <1>2

LEMMA FlushLayoutTypes ==
  ASSUME WorkspaceInv, FlushLayout
  PROVE  saves' \in Seq(Save)
<1>1. saves \in Seq(Save) /\ generation \in Nat
  BY DEF WorkspaceInv, LayoutInv, ResetInv
<1>2. CASE pendingLayout = NoLayout
  BY <1>1, <1>2 DEF FlushLayout
<1>3. CASE pendingLayout # NoLayout
  <2>1. [layout |-> pendingLayout, epoch |-> generation, begun |-> FALSE] \in Save
    BY <1>1, <1>3 DEF WorkspaceInv, LayoutInv, Save
  <2> QED
    BY <1>1, <1>3, <2>1 DEF FlushLayout
<1> QED
  BY <1>2, <1>3

LEMMA FlushKeeps ==
  ASSUME WorkspaceInv, TimerUp \/ DisposeWorkspace
  PROVE  WorkspaceInv'
<1>1. FlushLayout
  BY DEF TimerUp, DisposeWorkspace
<1>2. saves' \in Seq(Save)
  BY <1>1, FlushLayoutTypes
<1>3. LayoutInv'
  BY <1>1, <1>2 DEF WorkspaceInv, LayoutInv, TimerUp, DisposeWorkspace, FlushLayout
<1>4. ResetInv'
  BY DEF WorkspaceInv, ResetInv, TimerUp, DisposeWorkspace
<1>5. PanelsInv'
  <2>1. CASE TimerUp
    BY <2>1 DEF WorkspaceInv, PanelsInv, TimerUp, FlushLayout, ToldEarly
  <2>2. CASE DisposeWorkspace
    BY <2>2 DEF WorkspaceInv, PanelsInv, DisposeWorkspace, FlushLayout, ToldEarly, Request
  <2> QED
    BY <2>1, <2>2
<1> QED
  BY <1>3, <1>4, <1>5 DEF WorkspaceInv

\* That the first reset waits for one save less changes nothing else about resets.
LEMMA WaitKeeps ==
  ASSUME ResetInv, resets # << >>, UNCHANGED <<generation, resettingLayout>>,
         resets' = [resets EXCEPT ![1].waitsFor = IF @ > 0 THEN @ - 1 ELSE 0]
  PROVE  ResetInv'
<1>1. resets \in Seq(Reset) /\ 1 \in 1 .. Len(resets) /\ resets[1] \in Reset
  BY DEF ResetInv
<1> DEFINE first == [resets[1] EXCEPT !.waitsFor = IF @ > 0 THEN @ - 1 ELSE 0]
<1>2. first \in Reset /\ first.generation = resets[1].generation
  <2>1. PICK left \in Nat : left = (IF resets[1].waitsFor > 0 THEN resets[1].waitsFor - 1 ELSE 0)
    <3>1. resets[1].waitsFor \in Nat
      BY <1>1 DEF Reset
    <3>2. CASE resets[1].waitsFor > 0
      BY <3>1, <3>2
    <3>3. CASE ~(resets[1].waitsFor > 0)
      BY <3>3
    <3> QED
      BY <3>2, <3>3
  <2>2. first = [resets[1] EXCEPT !.waitsFor = left]
    BY <2>1
  <2> HIDE DEF first
  <2>3. [resets[1] EXCEPT !.waitsFor = left] \in Reset
    BY <1>1 DEF Reset
  <2>4. [resets[1] EXCEPT !.waitsFor = left].generation = resets[1].generation
    BY <1>1 DEF Reset
  <2> QED
    BY <2>2, <2>3, <2>4
<1>3. resets' = [resets EXCEPT ![1] = first]
  OBVIOUS
<1> HIDE DEF first
<1>4. /\ resets' \in Seq(Reset) /\ Len(resets') = Len(resets)
      /\ \A i \in 1 .. Len(resets) : resets'[i].generation = resets[i].generation
  BY <1>1, <1>2, <1>3
<1> QED
  BY <1>4 DEF ResetInv

\* A step of the stage of the first reset does not either.
LEMMA StageKeeps ==
  ASSUME ResetInv, resets # << >>, UNCHANGED <<generation, resettingLayout>>,
         NEW reset \in Reset, reset.generation = resets[1].generation,
         resets' = [resets EXCEPT ![1] = reset]
  PROVE  ResetInv'
<1>1. resets \in Seq(Reset) /\ 1 \in 1 .. Len(resets)
  BY DEF ResetInv
<1>2. /\ resets' \in Seq(Reset) /\ Len(resets') = Len(resets)
      /\ \A i \in 1 .. Len(resets) : resets'[i].generation = resets[i].generation
  BY <1>1
<1> QED
  BY <1>2 DEF ResetInv

LEMMA SaveKeeps ==
  ASSUME WorkspaceInv, BeginSave \/ FinishSave
  PROVE  WorkspaceInv'
<1>1. /\ saves \in Seq(Save) /\ saves # << >> /\ saves[1] \in Save
      /\ Tail(saves) \in Seq(Save)
  BY DEF WorkspaceInv, LayoutInv, BeginSave, FinishSave
<1>2. saves' \in Seq(Save)
  <2> DEFINE first == [saves[1] EXCEPT !.begun = TRUE]
  <2>1. [saves EXCEPT ![1].begun = TRUE] \in Seq(Save)
    <3>1. first \in Save
      BY <1>1 DEF Save
    <3>2. [saves EXCEPT ![1].begun = TRUE] = [saves EXCEPT ![1] = first]
      OBVIOUS
    <3>3. 1 \in 1 .. Len(saves)
      BY <1>1
    <3> HIDE DEF first
    <3>4. [saves EXCEPT ![1] = first] \in Seq(Save)
      BY <1>1, <3>1, <3>3
    <3> QED
      BY <3>2, <3>4
  <2> QED
    BY <1>1, <2>1 DEF BeginSave, FinishSave
<1>3. storedLayout' \in Layouts \cup {NoLayout}
  BY <1>1 DEF WorkspaceInv, LayoutInv, BeginSave, FinishSave, Save
<1>4. LayoutInv'
  BY <1>2, <1>3 DEF WorkspaceInv, LayoutInv, BeginSave, FinishSave, dock, scheduled
<1>5. ResetInv'
  <2>1. UNCHANGED <<generation, resettingLayout>>
    BY DEF BeginSave, FinishSave
  <2>2. CASE resets' = resets
    BY <2>1, <2>2 DEF WorkspaceInv, ResetInv
  <2>3. CASE resets # << >> /\ resets' = [resets EXCEPT ![1].waitsFor = IF @ > 0 THEN @ - 1 ELSE 0]
    BY <2>1, <2>3, WaitKeeps DEF WorkspaceInv
  <2> QED
    BY <2>2, <2>3 DEF BeginSave, FinishSave
<1>6. PanelsInv'
  BY DEF WorkspaceInv, PanelsInv, BeginSave, FinishSave, dock, scheduled, resetMarks
<1> QED
  BY <1>4, <1>5, <1>6 DEF WorkspaceInv

LEMMA ResetLayoutKeeps ==
  ASSUME WorkspaceInv, ResetLayout
  PROVE  WorkspaceInv'
<1> DEFINE reset == [generation |-> generation + 1, stage |-> "queued", waitsFor |-> 0]
<1>1. /\ resets \in Seq(Reset) /\ generation \in Nat /\ reset \in Reset
      /\ generation' = generation + 1 /\ resets' = Append(resets, reset) /\ resettingLayout'
  BY DEF WorkspaceInv, ResetInv, ResetLayout, Reset
<1>2. /\ resets' \in Seq(Reset) /\ Len(resets') = Len(resets) + 1
      /\ \A i \in 1 .. Len(resets) : resets'[i] = resets[i]
      /\ resets'[Len(resets) + 1] = reset
  BY <1>1
<1>3. reset.generation = generation + 1
  OBVIOUS
<1>4. ResetInv'
  <2>1. \A i \in 1 .. Len(resets) : resets[i].generation \in Nat /\ resets[i].generation <= generation
    <3>1. \A i \in 1 .. Len(resets) : resets[i] \in Reset
      BY <1>1
    <3> QED
      BY <3>1 DEF WorkspaceInv, ResetInv, Reset
  <2>2. \A i, j \in 1 .. Len(resets) : resets[i].generation = resets[j].generation => i = j
    BY DEF WorkspaceInv, ResetInv
  <2> HIDE DEF reset
  <2>3. \A i \in 1 .. Len(resets') : i \in 1 .. Len(resets) \/ i = Len(resets) + 1
    BY <1>1, <1>2
  <2>4. \A i, j \in 1 .. Len(resets') : resets'[i].generation = resets'[j].generation => i = j
    BY <1>1, <1>2, <1>3, <2>1, <2>2, <2>3
  <2>5. \A i \in 1 .. Len(resets') : resets'[i].generation <= generation'
    BY <1>1, <1>2, <1>3, <2>1, <2>3
  <2> QED
    BY <1>1, <1>2, <2>4, <2>5 DEF ResetInv
<1>5. LayoutInv' /\ PanelsInv'
  BY DEF WorkspaceInv, LayoutInv, PanelsInv, ResetLayout, dock, resetMarks, Request
<1> QED
  BY <1>4, <1>5 DEF WorkspaceInv

LEMMA ResetStepKeeps ==
  ASSUME WorkspaceInv, ResetTurn \/ RemoveStored
  PROVE  WorkspaceInv'
<1>1. /\ resets \in Seq(Reset) /\ resets # << >> /\ resets[1] \in Reset
      /\ Len(saves) \in Nat /\ UNCHANGED <<generation, resettingLayout>>
  BY DEF WorkspaceInv, LayoutInv, ResetInv, ResetTurn, RemoveStored
<1>2. ResetInv'
  <2>1. CASE ResetTurn
    <3> DEFINE reset == [resets[1] EXCEPT !.stage = "waiting", !.waitsFor = Len(saves)]
    <3>1. reset \in Reset /\ reset.generation = resets[1].generation
      BY <1>1 DEF Reset
    <3>2. resets' = [resets EXCEPT ![1] = reset]
      BY <2>1 DEF ResetTurn
    <3> HIDE DEF reset
    <3> QED
      BY <1>1, <3>1, <3>2, StageKeeps DEF WorkspaceInv
  <2>2. CASE RemoveStored
    <3> DEFINE reset == [resets[1] EXCEPT !.stage = "removed"]
    <3>1. reset \in Reset /\ reset.generation = resets[1].generation
      BY <1>1 DEF Reset
    <3>2. resets' = [resets EXCEPT ![1] = reset]
      BY <2>2 DEF RemoveStored
    <3> HIDE DEF reset
    <3> QED
      BY <1>1, <3>1, <3>2, StageKeeps DEF WorkspaceInv
  <2> QED
    BY <2>1, <2>2
<1>3. LayoutInv'
  BY DEF WorkspaceInv, LayoutInv, ResetTurn, RemoveStored, dock, scheduled
<1>4. PanelsInv'
  BY DEF WorkspaceInv, PanelsInv, ResetTurn, RemoveStored, dock, scheduled, resetMarks
<1> QED
  BY <1>2, <1>3, <1>4 DEF WorkspaceInv

LEMMA FinishResetKeeps ==
  ASSUME WorkspaceInv, FinishReset
  PROVE  WorkspaceInv'
<1>1. /\ resets \in Seq(Reset) /\ resets # << >> /\ 1 \in 1 .. Len(resets)
      /\ resets' = Tail(resets) /\ generation' = generation
      /\ resettingLayout' = (resettingLayout /\ resets[1].generation # generation)
  BY DEF WorkspaceInv, ResetInv, FinishReset
<1>2. /\ Tail(resets) \in Seq(Reset) /\ Len(Tail(resets)) = Len(resets) - 1
      /\ \A i \in 1 .. Len(resets) - 1 : Tail(resets)[i] = resets[i + 1]
  BY <1>1
<1>3. ResetInv'
  <2>1. \A i, j \in 1 .. Len(resets) : resets[i].generation = resets[j].generation => i = j
    BY DEF WorkspaceInv, ResetInv
  <2>2. \A i \in 1 .. Len(resets') : i + 1 \in 1 .. Len(resets) /\ resets'[i] = resets[i + 1]
    BY <1>1, <1>2
  <2>3. \A i, j \in 1 .. Len(resets') : resets'[i].generation = resets'[j].generation => i = j
    <3> SUFFICES ASSUME NEW i \in 1 .. Len(resets'), NEW j \in 1 .. Len(resets'),
                        resets'[i].generation = resets'[j].generation
                 PROVE  i = j
      OBVIOUS
    <3>1. i + 1 = j + 1
      BY <2>1, <2>2
    <3> QED
      BY <3>1
  <2>4. ASSUME NEW i \in 1 .. Len(resets')
        PROVE  /\ resets'[i].generation <= generation'
               /\ resets'[i].generation = generation' => resettingLayout'
    <3>1. /\ resets[i + 1].generation <= generation
          /\ resets[i + 1].generation = generation => resettingLayout
      BY <2>2 DEF WorkspaceInv, ResetInv
    <3>2. resets[i + 1].generation = generation => resets[1].generation # generation
      <4>1. i + 1 # 1
        OBVIOUS
      <4> QED
        BY <1>1, <2>1, <2>2, <4>1
    <3> QED
      BY <1>1, <2>2, <3>1, <3>2
  <2> QED
    BY <1>1, <1>2, <2>3, <2>4 DEF WorkspaceInv, ResetInv
<1>4. CASE closed \/ resets[1].generation # generation
  BY <1>3, <1>4 DEF WorkspaceInv, LayoutInv, PanelsInv, FinishReset, dock, scheduled
<1>5. CASE ~(closed \/ resets[1].generation # generation)
  <2>1. resettingLayout /\ ~resettingLayout'
    BY <1>1, <1>5 DEF WorkspaceInv, ResetInv
  <2>2. /\ layout' = Default /\ observedPanels' = Default.panels /\ told' = Default.panels
        /\ layoutDirty' /\ ~outdated' /\ ~closed
        /\ UNCHANGED <<pendingLayout, storedLayout, saves, closed, early>>
    BY <1>5 DEF FinishReset, ApplyDefaultLayout, scheduled
  <2>3. LayoutInv'
    BY <2>2, DefaultIsLayout DEF WorkspaceInv, LayoutInv
  <2>4. PanelsInv'
    BY <2>1, <2>2 DEF WorkspaceInv, PanelsInv
  <2> QED
    BY <1>3, <2>3, <2>4 DEF WorkspaceInv
<1> QED
  BY <1>4, <1>5

LEMMA LoadLayoutKeeps ==
  ASSUME WorkspaceInv, LoadLayout
  PROVE  WorkspaceInv'
<1>1. ResetInv'
  BY DEF WorkspaceInv, ResetInv, LoadLayout, persistence
<1>2. UNCHANGED <<layoutDirty, pendingLayout, saves, storedLayout, resettingLayout, closed, early,
                  outdated>>
      /\ ~loading'
  BY DEF LoadLayout, scheduled, persistence, resetMarks
<1>3. CASE UNCHANGED dock
  BY <1>1, <1>2, <1>3 DEF WorkspaceInv, LayoutInv, PanelsInv, dock
<1>4. CASE ~UNCHANGED dock
  <2>1. ~layoutDirty /\ loading /\ storedLayout # NoLayout
    BY <1>4 DEF LoadLayout
  <2>2. pendingLayout = NoLayout /\ told = Default.panels
    BY <2>1 DEF WorkspaceInv, PanelsInv
  <2>3. /\ layout' \in Layouts /\ told' = observedPanels' /\ observedPanels' = layout'.panels
        /\ ~closed
    BY <1>4, <2>1, <2>2, DefaultIsLayout DEF LoadLayout, ApplyDefaultLayout, WorkspaceInv, LayoutInv
  <2> QED
    BY <1>1, <1>2, <2>1, <2>2, <2>3 DEF WorkspaceInv, LayoutInv, PanelsInv
<1> QED
  BY <1>3, <1>4

LEMMA WorkspaceNextInv == WorkspaceInv /\ [WorkspaceNext]_workspaceVars => WorkspaceInv'
<1> SUFFICES ASSUME WorkspaceInv, [WorkspaceNext]_workspaceVars
             PROVE  WorkspaceInv'
  OBVIOUS
<1>1. CASE UNCHANGED workspaceVars
  BY <1>1 DEF workspaceVars, dock, scheduled, persistence, resetMarks, WorkspaceInv, LayoutInv, ResetInv,
     PanelsInv
<1>2. ASSUME NEW id \in Closable, OpenPanel(id) \/ ClosePanel(id)
      PROVE  WorkspaceInv'
  <2>1. layout.panels \in SUBSET (Closable \cup Fixed)
    BY DEF WorkspaceInv, LayoutInv, Layouts
  <2>2. layout.panels \cup {id} \in SUBSET (Closable \cup Fixed)
        /\ layout.panels \ {id} \in SUBSET (Closable \cup Fixed)
    BY <2>1
  <2> QED
    BY <1>2, <2>2, ChangePanelsKeeps DEF OpenPanel, ClosePanel
<1>3. CASE WorkspaceNext
  BY <1>2, <1>3, UserChangesKeeps, LayoutNoticeKeeps, FlushKeeps, SaveKeeps, ResetLayoutKeeps,
     ResetStepKeeps, FinishResetKeeps, LoadLayoutKeeps DEF WorkspaceNext
<1> QED
  BY <1>1, <1>3

\* However requests, the dock's notices, the timer, saves, resets, a load and the
\* end interleave, the panels that the workspace's events give are those it shows,
\* but for what was told of from during a reset.
THEOREM PanelEventsFold == WorkspaceSpec => []PanelLogFolds
<1>1. WorkspaceInv => PanelLogFolds
  BY DEF WorkspaceInv, PanelsInv, PanelLogFolds
<1> QED
  BY <1>1, WorkspaceInitInv, WorkspaceNextInv, PTL DEF WorkspaceSpec

-----------------------------------------------------------------------------
(* The stored layout.                                                      *)

\* The resets there are are the last that were asked for, in that order; only the
\* first has begun.  A workspace that is closed has nothing to schedule or to hear.
QueueInv ==
  /\ resettingLayout <=> resets # << >>
  /\ layoutTimer <=> pendingLayout # NoLayout
  /\ Len(resets) <= generation
  /\ \A i \in 1 .. Len(resets) :
       /\ resets[i].generation = (generation - Len(resets)) + i
       /\ i > 1 => resets[i].stage = "queued"
  /\ closed => pendingLayout = NoLayout /\ ~notice

\* The first reset waits for every save there is, and once it has removed the stored
\* layout no save is left that could bring an older one back.
ResetsHold ==
  ~overtaken /\ resets # << >> =>
    /\ pendingLayout = NoLayout
    /\ resets[1].stage = "waiting" => Len(saves) <= resets[1].waitsFor
    /\ resets[1].stage = "removed" => saves = << >> /\ (~failed => storedLayout = NoLayout)

\* The layout that is shown is the one to be saved, or the last being saved, or stored.
SavesCatchUp ==
  ~overtaken /\ resets = << >> =>
    /\ \A i \in 1 .. Len(saves) : saves[i].epoch = generation
    /\ layoutDirty /\ ~notice =>
         /\ pendingLayout # NoLayout => pendingLayout = layout
         /\ pendingLayout = NoLayout /\ saves # << >> => saves[Len(saves)].layout = layout
         /\ pendingLayout = NoLayout /\ saves = << >> /\ ~failed =>
              \/ storedLayout = layout
              \/ storedLayout = NoLayout /\ (closed \/ layout = Default)

StoreInv == QueueInv /\ ResetsHold /\ SavesCatchUp

LEMMA StoreInitInv == WorkspaceInit => StoreInv
BY DEF WorkspaceInit, StoreInv, QueueInv, ResetsHold, SavesCatchUp

\* What saves and resets are.
LEMMA StoreTypes ==
  ASSUME WorkspaceInv
  PROVE  /\ saves \in Seq(Save) /\ Len(saves) \in Nat
         /\ resets \in Seq(Reset) /\ Len(resets) \in Nat
         /\ generation \in Nat /\ layout \in Layouts /\ layout # NoLayout
         /\ \A i \in 1 .. Len(saves) : saves[i] \in Save /\ saves[i].epoch \in Nat
         /\ \A i \in 1 .. Len(resets) : resets[i] \in Reset /\ resets[i].waitsFor \in Nat
<1>1. saves \in Seq(Save) /\ resets \in Seq(Reset) /\ generation \in Nat /\ layout \in Layouts
  BY DEF WorkspaceInv, LayoutInv, ResetInv
<1>2. /\ \A i \in 1 .. Len(saves) : saves[i] \in Save
      /\ \A i \in 1 .. Len(resets) : resets[i] \in Reset
  BY <1>1
<1> QED
  BY <1>1, <1>2, NoLayoutAssumption DEF Save, Reset

\* QueueInv is about these only.
LEMMA QueueKept ==
  ASSUME QueueInv,
         UNCHANGED <<resets, resettingLayout, generation, layoutTimer, pendingLayout, closed>>,
         ~closed \/ notice' = notice
  PROVE  QueueInv'
BY DEF QueueInv

LEMMA PanelChangesKeepStore ==
  ASSUME WorkspaceInv, StoreInv, NEW panels \in SUBSET (Closable \cup Fixed), NEW tell,
         ChangePanels(panels, tell), told = layout.panels => tell = panels
  PROVE  StoreInv'
<1>1. layout' \in Layouts /\ layout' # NoLayout
  BY ChangePanelsKeeps, NoLayoutAssumption DEF WorkspaceInv, LayoutInv
<1>2. /\ pendingLayout' = layout' /\ layoutTimer' /\ ~closed /\ ~closed'
      /\ UNCHANGED <<saves, resets, generation, resettingLayout, storedLayout, failed>>
      /\ overtaken' = (overtaken \/ resettingLayout)
  BY DEF ChangePanels, Request, ScheduleLayout, persistence
<1>3. QueueInv'
  BY <1>1, <1>2 DEF StoreInv, QueueInv
<1>4. ResetsHold'
  BY <1>2 DEF StoreInv, QueueInv, ResetsHold
<1>5. SavesCatchUp'
  BY <1>1, <1>2 DEF StoreInv, SavesCatchUp
<1> QED
  BY <1>3, <1>4, <1>5 DEF StoreInv

LEMMA UserChangesKeepStore ==
  ASSUME StoreInv, UserChanges
  PROVE  StoreInv'
<1>1. /\ UNCHANGED <<pendingLayout, layoutTimer, saves, resets, generation, resettingLayout,
                     storedLayout, failed, closed, overtaken, layoutDirty>>
      /\ notice' /\ ~closed
  BY DEF UserChanges, Request, scheduled, persistence, resetMarks
<1> QED
  BY <1>1 DEF StoreInv, QueueInv, ResetsHold, SavesCatchUp

LEMMA NoticeKeepsStore ==
  ASSUME WorkspaceInv, StoreInv, LayoutNotice
  PROVE  StoreInv'
<1>1. /\ UNCHANGED <<saves, resets, generation, resettingLayout, storedLayout, failed, closed,
                     overtaken>>
      /\ layout' = layout /\ notice /\ ~notice'
  BY DEF LayoutNotice, persistence
<1>2. ~closed
  BY <1>1 DEF StoreInv, QueueInv
<1>3. CASE resettingLayout
  BY <1>1, <1>2, <1>3 DEF LayoutNotice, scheduled, StoreInv, QueueInv, ResetsHold, SavesCatchUp
<1>4. CASE ~resettingLayout
  <2>1. pendingLayout' = layout /\ layoutTimer' /\ layout # NoLayout
    BY <1>2, <1>4, StoreTypes DEF LayoutNotice, ScheduleLayout
  <2> QED
    BY <1>1, <1>2, <1>4, <2>1 DEF StoreInv, QueueInv, ResetsHold, SavesCatchUp
<1> QED
  BY <1>3, <1>4

\* What is to be saved goes behind the saves there are.
LEMMA FlushKeepsStore ==
  ASSUME WorkspaceInv, StoreInv, TimerUp \/ DisposeWorkspace
  PROVE  StoreInv'
<1>1. /\ FlushLayout /\ ~notice /\ ~notice'
      /\ UNCHANGED <<layout, layoutDirty, resets, generation, resettingLayout, storedLayout, failed,
                     overtaken>>
      /\ closed' = closed \/ closed' = TRUE
  BY DEF TimerUp, DisposeWorkspace, Request
<1>2. pendingLayout' = NoLayout /\ layoutTimer' = FALSE
  BY <1>1 DEF FlushLayout
<1>3. QueueInv'
  BY <1>1, <1>2 DEF StoreInv, QueueInv
<1>4. CASE pendingLayout = NoLayout
  <2>1. saves' = saves
    BY <1>1, <1>4 DEF FlushLayout
  <2> QED
    BY <1>1, <1>2, <1>3, <1>4, <2>1 DEF StoreInv, ResetsHold, SavesCatchUp
<1>5. CASE pendingLayout # NoLayout
  <2> DEFINE save == [layout |-> pendingLayout, epoch |-> generation, begun |-> FALSE]
  <2>1. saves' = Append(saves, save)
    BY <1>1, <1>5 DEF FlushLayout
  <2>2. save.layout = pendingLayout /\ save.epoch = generation
    OBVIOUS
  <2> HIDE DEF save
  <2>3. /\ Len(saves') = Len(saves) + 1 /\ Len(saves) \in Nat /\ saves' # << >>
        /\ saves'[Len(saves')] = save
        /\ \A i \in 1 .. Len(saves) : saves'[i] = saves[i]
    BY <2>1, StoreTypes
  <2>4. ResetsHold'
    BY <1>1, <1>5 DEF StoreInv, ResetsHold
  <2>5. SavesCatchUp'
    <3>1. \A i \in 1 .. Len(saves') : i \in 1 .. Len(saves) \/ i = Len(saves')
      BY <2>3
    <3> QED
      BY <1>1, <1>2, <1>5, <2>2, <2>3, <3>1 DEF StoreInv, SavesCatchUp
  <2> QED
    BY <1>3, <2>4, <2>5 DEF StoreInv
<1> QED
  BY <1>4, <1>5

\* A first reset that is further on leaves the others behind it.
LEMMA FirstResetGoesOn ==
  ASSUME WorkspaceInv, QueueInv, resets # << >>, NEW reset,
         reset.generation = resets[1].generation, resets' = [resets EXCEPT ![1] = reset],
         UNCHANGED <<resettingLayout, generation, layoutTimer, pendingLayout, closed, notice>>
  PROVE  QueueInv' /\ resets' # << >> /\ resets'[1] = reset
<1>1. /\ resets \in Seq(Reset) /\ 1 \in 1 .. Len(resets)
  BY StoreTypes
<1>2. /\ Len(resets') = Len(resets) /\ resets'[1] = reset /\ resets' # << >>
      /\ \A i \in 1 .. Len(resets) : i > 1 => resets'[i] = resets[i]
  BY <1>1
<1>3. \A i \in 1 .. Len(resets) : i > 1 \/ i = 1
  BY <1>1
<1> QED
  BY <1>2, <1>3 DEF QueueInv

\* A save that is over is one less for the first reset to wait for.
LEMMA OneSaveLess ==
  ASSUME WorkspaceInv, QueueInv, resets # << >>,
         resets' = [resets EXCEPT ![1].waitsFor = IF @ > 0 THEN @ - 1 ELSE 0],
         UNCHANGED <<resettingLayout, generation, layoutTimer, pendingLayout, closed, notice>>
  PROVE  /\ QueueInv' /\ resets' # << >>
         /\ resets'[1].stage = resets[1].stage
         /\ \A k \in Nat : k + 1 <= resets[1].waitsFor => k <= resets'[1].waitsFor
<1> DEFINE first == [resets[1] EXCEPT !.waitsFor = IF @ > 0 THEN @ - 1 ELSE 0]
<1>1. resets[1] \in Reset /\ resets[1].waitsFor \in Nat
  <2>1. 1 \in 1 .. Len(resets)
    BY StoreTypes
  <2> QED
    BY <2>1, StoreTypes
<1>2. /\ first.generation = resets[1].generation /\ first.stage = resets[1].stage
      /\ first.waitsFor = IF resets[1].waitsFor > 0 THEN resets[1].waitsFor - 1 ELSE 0
  BY <1>1 DEF Reset
<1>3. resets' = [resets EXCEPT ![1] = first]
  OBVIOUS
<1> HIDE DEF first
<1>4. QueueInv' /\ resets' # << >> /\ resets'[1] = first
  BY <1>2, <1>3, FirstResetGoesOn
<1>5. \A k \in Nat : k + 1 <= resets[1].waitsFor => k <= first.waitsFor
  BY <1>1, <1>2
<1> QED
  BY <1>2, <1>4, <1>5

LEMMA EmptyHasNoLength ==
  ASSUME NEW S, NEW q \in Seq(S)
  PROVE  Len(q) \in Nat /\ (q = << >> <=> Len(q) = 0)
OBVIOUS

\* The saves after the first.
LEMMA SavesAfterFirst ==
  ASSUME WorkspaceInv, saves # << >>
  PROVE  /\ Len(Tail(saves)) \in Nat /\ Len(saves) = Len(Tail(saves)) + 1
         /\ \A i \in 1 .. Len(Tail(saves)) :
              i + 1 \in 1 .. Len(saves) /\ Tail(saves)[i] = saves[i + 1]
         /\ Tail(saves) # << >> => Tail(saves)[Len(Tail(saves))] = saves[Len(saves)]
         /\ Tail(saves) = << >> => saves[Len(saves)] = saves[1]
<1>1. saves \in Seq(Save)
  BY StoreTypes
<1>2. Len(saves) \in Nat /\ Len(saves) >= 1
  BY <1>1
<1>3. /\ Tail(saves) \in Seq(Save) /\ Len(Tail(saves)) = Len(saves) - 1
      /\ \A i \in 1 .. Len(saves) - 1 : Tail(saves)[i] = saves[i + 1]
  BY <1>1, <1>2
<1>4. Tail(saves) # << >> => Len(saves) - 1 \in 1 .. Len(saves) - 1
  BY <1>2, <1>3
<1>5. Tail(saves) = << >> => Len(saves) = 1
  <2>1. Tail(saves) = << >> <=> Len(Tail(saves)) = 0
    BY <1>3, EmptyHasNoLength
  <2> QED
    BY <1>2, <1>3, <2>1
<1> QED
  BY <1>2, <1>3, <1>4, <1>5

LEMMA BeginSaveKeepsStore ==
  ASSUME WorkspaceInv, StoreInv, BeginSave
  PROVE  StoreInv'
<1>1. /\ UNCHANGED <<layout, notice, layoutDirty, pendingLayout, layoutTimer, generation,
                     resettingLayout, storedLayout, failed, closed, overtaken>>
      /\ saves # << >> /\ 1 \in 1 .. Len(saves)
  BY StoreTypes DEF BeginSave, dock, scheduled, resetMarks
<1>2. CASE saves[1].epoch # generation
  <2>1. saves' = Tail(saves)
    BY <1>2 DEF BeginSave
  <2>2. Len(saves') \in Nat /\ Len(saves) = Len(saves') + 1
    BY <1>1, <2>1, SavesAfterFirst
  <2>3. CASE resets = << >>
    <3>1. resets' = resets
      BY <2>3 DEF BeginSave
    <3>2. overtaken
      BY <1>1, <1>2, <2>3 DEF StoreInv, SavesCatchUp
    <3> QED
      BY <1>1, <3>1, <3>2 DEF StoreInv, QueueInv, ResetsHold, SavesCatchUp
  <2>4. CASE resets # << >>
    <3>1. resets' = [resets EXCEPT ![1].waitsFor = IF @ > 0 THEN @ - 1 ELSE 0]
      BY <1>2, <2>4 DEF BeginSave
    <3>2. /\ QueueInv' /\ resets' # << >> /\ resets'[1].stage = resets[1].stage
          /\ \A k \in Nat : k + 1 <= resets[1].waitsFor => k <= resets'[1].waitsFor
      BY <1>1, <2>4, <3>1, OneSaveLess DEF StoreInv
    <3>3. ResetsHold'
      BY <1>1, <2>2, <2>4, <3>2 DEF StoreInv, ResetsHold
    <3> QED
      BY <3>2, <3>3 DEF StoreInv, SavesCatchUp
  <2> QED
    BY <2>3, <2>4
<1>3. CASE saves[1].epoch = generation
  <2> DEFINE first == [saves[1] EXCEPT !.begun = TRUE]
  <2>1. first.epoch = saves[1].epoch /\ first.layout = saves[1].layout
    BY <1>1, StoreTypes DEF Save
  <2>2. saves' = [saves EXCEPT ![1] = first] /\ resets' = resets
    BY <1>3 DEF BeginSave
  <2> HIDE DEF first
  <2>3. /\ Len(saves') = Len(saves) /\ saves' # << >>
        /\ \A i \in 1 .. Len(saves) : saves'[i].epoch = saves[i].epoch
                                     /\ saves'[i].layout = saves[i].layout
    BY <1>1, <2>1, <2>2, StoreTypes
  <2>4. Len(saves) \in 1 .. Len(saves)
    BY <1>1, StoreTypes
  <2> QED
    BY <1>1, <2>2, <2>3, <2>4 DEF StoreInv, QueueInv, ResetsHold, SavesCatchUp
<1> QED
  BY <1>2, <1>3

LEMMA FinishSaveKeepsStore ==
  ASSUME WorkspaceInv, StoreInv, FinishSave
  PROVE  StoreInv'
<1>1. /\ UNCHANGED <<layout, notice, layoutDirty, pendingLayout, layoutTimer, generation,
                     resettingLayout, closed, overtaken>>
      /\ saves # << >> /\ saves' = Tail(saves)
      /\ failed' \/ storedLayout' = saves[1].layout
  BY DEF FinishSave, dock, scheduled, resetMarks
<1>2. /\ Len(saves') \in Nat /\ Len(saves) = Len(saves') + 1
      /\ \A i \in 1 .. Len(saves') : i + 1 \in 1 .. Len(saves) /\ saves'[i] = saves[i + 1]
      /\ saves' # << >> => saves'[Len(saves')] = saves[Len(saves)]
      /\ saves' = << >> => saves[Len(saves)] = saves[1]
  BY <1>1, SavesAfterFirst
<1>3. CASE resets = << >>
  <2>1. resets' = resets
    BY <1>3 DEF FinishSave
  <2>2. QueueInv' /\ ResetsHold'
    BY <1>1, <1>3, <2>1 DEF StoreInv, QueueInv, ResetsHold
  <2>3. SavesCatchUp'
    BY <1>1, <1>2, <1>3, <2>1 DEF StoreInv, SavesCatchUp
  <2> QED
    BY <2>2, <2>3 DEF StoreInv
<1>4. CASE resets # << >>
  <2>1. resets' = [resets EXCEPT ![1].waitsFor = IF @ > 0 THEN @ - 1 ELSE 0]
    BY <1>4 DEF FinishSave
  <2>2. /\ QueueInv' /\ resets' # << >> /\ resets'[1].stage = resets[1].stage
        /\ \A k \in Nat : k + 1 <= resets[1].waitsFor => k <= resets'[1].waitsFor
    BY <1>1, <1>4, <2>1, OneSaveLess DEF StoreInv
  <2>3. ResetsHold'
    BY <1>1, <1>2, <1>4, <2>2 DEF StoreInv, ResetsHold
  <2> QED
    BY <2>2, <2>3 DEF StoreInv, SavesCatchUp
<1> QED
  BY <1>3, <1>4

LEMMA ResetLayoutKeepsStore ==
  ASSUME WorkspaceInv, StoreInv, ResetLayout
  PROVE  StoreInv'
<1> DEFINE reset == [generation |-> generation + 1, stage |-> "queued", waitsFor |-> 0]
<1>1. /\ UNCHANGED <<saves, storedLayout, failed, closed, overtaken, notice>>
      /\ pendingLayout' = NoLayout /\ layoutTimer' = FALSE /\ resettingLayout' = TRUE
      /\ generation' = generation + 1 /\ resets' = Append(resets, reset) /\ ~closed
  BY DEF ResetLayout, Request, dock, resetMarks
<1>2. reset.generation = generation + 1 /\ reset.stage = "queued"
  OBVIOUS
<1> HIDE DEF reset
<1>3. /\ Len(resets) \in Nat /\ generation \in Nat
      /\ Len(resets') = Len(resets) + 1 /\ resets' # << >>
      /\ \A i \in 1 .. Len(resets) : resets'[i] = resets[i]
      /\ resets'[Len(resets) + 1] = reset
  BY <1>1, StoreTypes
<1>4. QueueInv'
  <2>1. ASSUME NEW i \in 1 .. Len(resets')
        PROVE  /\ resets'[i].generation = (generation' - Len(resets')) + i
               /\ i > 1 => resets'[i].stage = "queued"
    <3>1. CASE i \in 1 .. Len(resets)
      <4>1. /\ resets[i].generation = (generation - Len(resets)) + i
            /\ i > 1 => resets[i].stage = "queued"
        BY <3>1 DEF StoreInv, QueueInv
      <4> QED
        BY <1>1, <1>3, <3>1, <4>1
    <3>2. CASE i = Len(resets) + 1
      BY <1>1, <1>2, <1>3, <3>2
    <3> QED
      BY <1>3, <3>1, <3>2
  <2>2. Len(resets') <= generation'
    BY <1>1, <1>3 DEF StoreInv, QueueInv
  <2> QED
    BY <1>1, <1>3, <2>1, <2>2 DEF QueueInv
<1>5. ResetsHold'
  <2>1. CASE resets = << >>
    <3>1. resets'[1] = reset
      BY <1>3, <2>1
    <3> QED
      BY <1>1, <1>2, <3>1 DEF ResetsHold
  <2>2. CASE resets # << >>
    <3>1. 1 \in 1 .. Len(resets)
      BY <2>2, StoreTypes
    <3>2. resets'[1] = resets[1]
      BY <1>3, <3>1
    <3> QED
      BY <1>1, <2>2, <3>2 DEF StoreInv, ResetsHold
  <2> QED
    BY <2>1, <2>2
<1> QED
  BY <1>3, <1>4, <1>5 DEF StoreInv, SavesCatchUp

LEMMA ResetStepKeepsStore ==
  ASSUME WorkspaceInv, StoreInv, ResetTurn \/ RemoveStored
  PROVE  StoreInv'
<1>1. /\ UNCHANGED <<saves, generation, resettingLayout, pendingLayout, layoutTimer, closed,
                     notice, overtaken>>
      /\ resets # << >> /\ Len(saves) \in Nat /\ saves \in Seq(Save)
  BY StoreTypes DEF ResetTurn, RemoveStored, dock, scheduled, resetMarks
<1>2. resets[1] \in Reset /\ resets[1].waitsFor \in Nat
  <2>1. 1 \in 1 .. Len(resets)
    BY <1>1, StoreTypes
  <2> QED
    BY <2>1, StoreTypes
<1>3. CASE ResetTurn
  <2> DEFINE reset == [resets[1] EXCEPT !.stage = "waiting", !.waitsFor = Len(saves)]
  <2>1. /\ reset.generation = resets[1].generation /\ reset.stage = "waiting"
        /\ reset.waitsFor = Len(saves)
    BY <1>2 DEF Reset
  <2>2. resets' = [resets EXCEPT ![1] = reset]
    BY <1>3 DEF ResetTurn
  <2> HIDE DEF reset
  <2>3. QueueInv' /\ resets' # << >> /\ resets'[1] = reset
    BY <1>1, <2>1, <2>2, FirstResetGoesOn DEF StoreInv
  <2>4. ResetsHold'
    BY <1>1, <2>1, <2>3 DEF StoreInv, ResetsHold
  <2> QED
    BY <2>3, <2>4 DEF StoreInv, SavesCatchUp
<1>4. CASE RemoveStored
  <2> DEFINE reset == [resets[1] EXCEPT !.stage = "removed"]
  <2>1. /\ reset.generation = resets[1].generation /\ reset.stage = "removed"
    BY <1>2 DEF Reset
  <2>2. resets' = [resets EXCEPT ![1] = reset]
    BY <1>4 DEF RemoveStored
  <2> HIDE DEF reset
  <2>3. /\ resets[1].stage = "waiting" /\ resets[1].waitsFor = 0
        /\ failed' \/ storedLayout' = NoLayout
    BY <1>4 DEF RemoveStored
  <2>4. QueueInv' /\ resets' # << >> /\ resets'[1] = reset
    BY <1>1, <2>1, <2>2, FirstResetGoesOn DEF StoreInv
  <2>5. ~overtaken => pendingLayout = NoLayout /\ saves = << >>
    <3>1. ~overtaken => pendingLayout = NoLayout /\ Len(saves) <= 0
      BY <1>1, <2>3 DEF StoreInv, ResetsHold
    <3> QED
      BY <1>1, <3>1
  <2>6. ResetsHold'
    BY <1>1, <2>1, <2>3, <2>4, <2>5 DEF ResetsHold
  <2> QED
    BY <2>4, <2>6 DEF StoreInv, SavesCatchUp
<1> QED
  BY <1>3, <1>4

\* The reset that is over was the last that was asked for, or the next one begins.
LEMMA FinishResetKeepsStore ==
  ASSUME WorkspaceInv, StoreInv, FinishReset
  PROVE  StoreInv'
<1>1. /\ UNCHANGED <<saves, generation, pendingLayout, layoutTimer, storedLayout, failed, closed,
                     overtaken>>
      /\ resets # << >> /\ resets[1].stage = "removed" /\ resets' = Tail(resets)
      /\ resettingLayout' = (resettingLayout /\ resets[1].generation # generation)
      /\ closed => notice' = notice
  BY DEF FinishReset, dock, scheduled
<1>2. /\ resets \in Seq(Reset) /\ Len(resets) \in Nat /\ Len(resets) >= 1
      /\ generation \in Nat
  BY <1>1, StoreTypes
<1>3. /\ Len(resets') = Len(resets) - 1
      /\ \A i \in 1 .. Len(resets) - 1 : resets'[i] = resets[i + 1]
  BY <1>1, <1>2
<1>4. resets[1].generation = (generation - Len(resets)) + 1
  BY <1>2 DEF StoreInv, QueueInv
<1>5. resets' = << >> <=> resets[1].generation = generation
  <2>1. \A g, k \in Nat : (g - k) + 1 = g <=> k = 1
    OBVIOUS
  <2>2. resets[1].generation = generation <=> Len(resets) = 1
    BY <1>2, <1>4, <2>1
  <2>3. resets' \in Seq(Reset)
    BY <1>1, <1>2
  <2>4. resets' = << >> <=> Len(resets') = 0
    BY <2>3, EmptyHasNoLength
  <2>5. Len(resets') = 0 <=> Len(resets) = 1
    BY <1>2, <1>3
  <2> QED
    BY <2>2, <2>4, <2>5
<1>6. ASSUME NEW i \in 1 .. Len(resets')
      PROVE  /\ resets'[i].generation = (generation' - Len(resets')) + i
             /\ resets'[i].stage = "queued"
  <2>1. i + 1 \in 1 .. Len(resets) /\ i + 1 > 1 /\ i \in 1 .. Len(resets) - 1
    BY <1>2, <1>3
  <2>2. /\ resets[i + 1].generation = (generation - Len(resets)) + (i + 1)
        /\ resets[i + 1].stage = "queued"
    BY <2>1 DEF StoreInv, QueueInv
  <2> QED
    BY <1>1, <1>2, <1>3, <2>1, <2>2
<1>7. QueueInv'
  <2>1. Len(resets') <= generation' /\ resettingLayout
    BY <1>1, <1>2, <1>3 DEF StoreInv, QueueInv
  <2>2. resettingLayout' <=> resets' # << >>
    BY <1>1, <1>5, <2>1
  <2>3. /\ layoutTimer' <=> pendingLayout' # NoLayout
        /\ closed' => pendingLayout' = NoLayout /\ ~notice'
    BY <1>1 DEF StoreInv, QueueInv
  <2> QED
    BY <1>6, <2>1, <2>2, <2>3 DEF QueueInv
<1>8. ResetsHold'
  <2>1. resets' # << >> => resets'[1].stage = "queued"
    BY <1>2, <1>3, <1>6
  <2> QED
    BY <1>1, <2>1 DEF StoreInv, ResetsHold
<1>9. SavesCatchUp'
  <2> SUFFICES ASSUME ~overtaken, resets' = << >> PROVE SavesCatchUp'
    BY <1>1 DEF SavesCatchUp
  <2>1. saves = << >> /\ pendingLayout = NoLayout /\ (~failed => storedLayout = NoLayout)
    BY <1>1 DEF StoreInv, ResetsHold
  <2>2. closed \/ layout' = Default
    BY <1>5 DEF FinishReset, ApplyDefaultLayout
  <2> QED
    BY <1>1, <2>1, <2>2 DEF SavesCatchUp
<1> QED
  BY <1>7, <1>8, <1>9 DEF StoreInv

LEMMA LoadKeepsStore ==
  ASSUME WorkspaceInv, StoreInv, LoadLayout
  PROVE  StoreInv'
<1>1. UNCHANGED <<layoutDirty, pendingLayout, layoutTimer, saves, resets, generation,
                  resettingLayout, storedLayout, failed, closed, overtaken>>
  BY DEF LoadLayout, scheduled, persistence, resetMarks
<1>2. CASE UNCHANGED dock
  BY <1>1, <1>2 DEF dock, StoreInv, QueueInv, ResetsHold, SavesCatchUp
<1>3. CASE ~UNCHANGED dock
  <2>1. ~closed /\ ~layoutDirty
    BY <1>3 DEF LoadLayout
  <2> QED
    BY <1>1, <2>1 DEF StoreInv, QueueInv, ResetsHold, SavesCatchUp
<1> QED
  BY <1>2, <1>3

LEMMA StoreNextInv == WorkspaceInv /\ StoreInv /\ [WorkspaceNext]_workspaceVars => StoreInv'
<1> SUFFICES ASSUME WorkspaceInv, StoreInv, [WorkspaceNext]_workspaceVars
             PROVE  StoreInv'
  OBVIOUS
<1>1. CASE UNCHANGED workspaceVars
  BY <1>1 DEF workspaceVars, dock, scheduled, persistence, resetMarks, StoreInv, QueueInv, ResetsHold,
     SavesCatchUp
<1>2. ASSUME NEW id \in Closable, OpenPanel(id) \/ ClosePanel(id)
      PROVE  StoreInv'
  <2>1. layout.panels \in SUBSET (Closable \cup Fixed)
    BY DEF WorkspaceInv, LayoutInv, Layouts
  <2>2. layout.panels \cup {id} \in SUBSET (Closable \cup Fixed)
        /\ layout.panels \ {id} \in SUBSET (Closable \cup Fixed)
    BY <2>1
  <2> QED
    BY <1>2, <2>2, PanelChangesKeepStore DEF OpenPanel, ClosePanel
<1>3. CASE WorkspaceNext
  BY <1>2, <1>3, UserChangesKeepStore, NoticeKeepsStore, FlushKeepsStore, BeginSaveKeepsStore,
     FinishSaveKeepsStore, ResetLayoutKeepsStore, ResetStepKeepsStore, FinishResetKeepsStore,
     LoadKeepsStore DEF WorkspaceNext
<1> QED
  BY <1>1, <1>3

\* Both invariants hold all along.
LEMMA StoreInvariant == WorkspaceSpec => [](WorkspaceInv /\ StoreInv)
BY WorkspaceInitInv, StoreInitInv, WorkspaceNextInv, StoreNextInv, PTL DEF WorkspaceSpec

\* The workspace's state has its type: the timer runs exactly while a layout is to be
\* saved, and the workspace is being reset exactly while a reset is not over.
THEOREM WorkspaceTypes == WorkspaceSpec => []WorkspaceTypeOK
<1>1. ASSUME WorkspaceInv, StoreInv PROVE WorkspaceTypeOK
  <2>1. ASSUME NEW i \in DOMAIN resets PROVE resets[i].generation \in 1 .. generation
    <3>1. i \in 1 .. Len(resets) /\ Len(resets) \in Nat /\ generation \in Nat
      BY <1>1, StoreTypes
    <3>2. resets[i].generation = (generation - Len(resets)) + i /\ Len(resets) <= generation
      BY <1>1, <3>1 DEF StoreInv, QueueInv
    <3> QED
      BY <3>1, <3>2
  <2> QED
    BY <1>1, <2>1 DEF WorkspaceInv, LayoutInv, StoreInv, QueueInv, WorkspaceTypeOK
<1> QED
  BY <1>1, StoreInvariant, PTL

\* When nothing is under way, the store holds the layout that is shown, or none after
\* a reset, however saves, resets, the timer and the dock's notices interleaved.
THEOREM StoreCatchesUp == WorkspaceSpec => []StoredLayoutIsCurrent
<1>1. WorkspaceInv /\ StoreInv => StoredLayoutIsCurrent
  BY DEF StoreInv, QueueInv, SavesCatchUp, StoredLayoutIsCurrent, Settled
<1> QED
  BY <1>1, StoreInvariant, PTL

-----------------------------------------------------------------------------
(* The output panel and its controller.                                    *)

\* What #refresh holds between its awaits: asked, read, and answered to the panel.
Asked == [generation: Nat, forPanel: Nat, stage: {"asked"}]

Read == [generation: Nat, forPanel: Nat, stage: {"read"}, failed: BOOLEAN, count: Nat]

Answered == [forPanel: Nat, stage: {"answered"}, failed: BOOLEAN, rows: SUBSET Nat]

\* The latest refresh is over.
LatestDone ==
  \A call \in refreshes : call.stage # "answered" => call.generation # refreshGeneration

\* The latest refresh is not over, or failed: the rows need not be the log's.
Outdated == LatestDone => lastFailed

Above(shownRows, mark) == {event \in shownRows : event > mark}

\* The latest read has all but the events the store still has to tell of.
ReadsAll(count) == count \in 0 .. Len(log) /\ Len(log) - count <= unnotified

RefreshInv ==
  /\ log \in Seq(Levels) /\ unnotified \in Nat
  /\ refreshGeneration \in Nat /\ queryGeneration \in Nat \ {0}
  /\ refreshes \subseteq Asked \cup Read \cup Answered
  /\ \A call \in refreshes :
       /\ call.forPanel <= queryGeneration
       /\ call.stage # "answered" => call.generation <= refreshGeneration
       /\ call.stage = "read" => call.count \in 0 .. Len(log)
       /\ call.stage = "read" /\ call.generation = refreshGeneration => ReadsAll(call.count)
       /\ call.stage = "answered" => call.rows \subseteq 1 .. Len(log)

ControllerInv ==
  /\ viewQuery = levels /\ levels \subseteq Levels /\ rows \subseteq 1 .. Len(log)
  /\ lastFailed \in BOOLEAN
  /\ LatestDone /\ ~lastFailed =>
       \E count : ReadsAll(count) /\ rows = Matching(levels, count)

PanelInv ==
  /\ latestRows \subseteq 1 .. Len(log)
  /\ clearedThrough \in 0 .. Len(log) /\ lastMaximum \in 0 .. Len(log)
  /\ selected \in 1 .. Len(log) \cup {NoEvent}
  /\ autoScroll \in BOOLEAN
  /\ autoScroll => unseen = 0
  /\ error \in {"none", "query", "action"}

\* What the panel shows are the rows, or they are outdated; so is what an answer
\* it still awaits will show.
ShownInv ==
  ~unmounted =>
    /\ latestRows = Above(rows, clearedThrough) \/ Outdated
    /\ \A call \in refreshes : call.forPanel = queryGeneration =>
         /\ call.stage = "answered" /\ ~call.failed => call.rows = rows
         /\ call.stage = "answered" /\ call.failed => Outdated
         /\ call.stage # "answered" /\ call.generation # refreshGeneration => Outdated

OutputInv == RefreshInv /\ ControllerInv /\ PanelInv /\ ShownInv

-----------------------------------------------------------------------------
\* The largest of some events.
LEMMA LargestEvent ==
  ASSUME NEW n \in Nat, NEW T \in SUBSET (0 .. n), T # {}
  PROVE  Max(T) \in T /\ \A e \in T : e <= Max(T)
<1> DEFINE left == {n - e : e \in T}
<1>1. left \in SUBSET Nat /\ left # {}
  <2>1. \A e \in 0 .. n : n - e \in Nat
    OBVIOUS
  <2> QED
    BY <2>1
<1>2. PICK m \in left : \A k \in left : ~(<<k, m>> \in OpToRel(<, Nat))
  BY <1>1, NatLessThanWellFounded, WFMin
<1>3. \A k \in left : ~(k < m)
  BY <1>1, <1>2 DEF OpToRel
<1>4. PICK e \in T : m = n - e
  OBVIOUS
<1>5. \A d \in T : d <= e
  <2> TAKE d \in T
  <2>1. n - d \in left /\ d \in Int /\ e \in Int
    OBVIOUS
  <2>2. ~(n - d < n - e)
    BY <1>3, <1>4, <2>1
  <2> QED
    BY <2>1, <2>2
<1>6. e >= e /\ \A d \in T : e >= d
  BY <1>5
<1> QED
  BY <1>5, <1>6 DEF Max

LEMMA OutputInitInv == OutputInit => OutputInv
<1> SUFFICES ASSUME OutputInit PROVE OutputInv
  OBVIOUS
<1> DEFINE first == [generation |-> 1, forPanel |-> 1, stage |-> "asked"]
<1>1. refreshes = {first} /\ first \in Asked
  BY DEF OutputInit, Asked
<1>2. first.stage = "asked" /\ first.forPanel = 1 /\ first.generation = 1
  OBVIOUS
<1> HIDE DEF first
<1>3. log = << >> /\ Len(log) = 0 /\ log \in Seq(Levels)
  BY DEF OutputInit
<1>4. RefreshInv
  BY <1>1, <1>2, <1>3 DEF OutputInit, RefreshInv
<1>5. ~LatestDone
  BY <1>1, <1>2 DEF OutputInit, LatestDone
<1>6. ControllerInv
  BY <1>3, <1>5 DEF OutputInit, ControllerInv
<1>8. PanelInv
  BY <1>3 DEF OutputInit, PanelInv
<1>7. ShownInv
  BY <1>1, <1>2, <1>5 DEF OutputInit, ShownInv, Outdated
<1> QED
  BY <1>4, <1>6, <1>7, <1>8 DEF OutputInv

\* Which events of a prefix of the log match does not change as the log grows.
LEMMA MatchingStays ==
  ASSUME log \in Seq(Levels), NEW level \in Levels, log' = Append(log, level),
         NEW query, NEW count \in 0 .. Len(log)
  PROVE  Matching(query, count)' = Matching(query, count)
<1>1. \A event \in 1 .. count : log'[event] = log[event]
  OBVIOUS
<1> QED
  BY <1>1 DEF Matching

\* Each step under way has the fields of its stage.
LEMMA CallFields ==
  ASSUME RefreshInv, NEW call \in refreshes
  PROVE  /\ call.forPanel \in Nat /\ call.forPanel <= queryGeneration
         /\ call.stage \in {"asked", "read", "answered"}
         /\ call.stage # "answered" => call.generation \in Nat /\ call.generation <= refreshGeneration
         /\ call.stage = "read" => call.failed \in BOOLEAN /\ call.count \in 0 .. Len(log)
         /\ call.stage = "answered" => call.failed \in BOOLEAN
<1>1. call \in Asked \/ call \in Read \/ call \in Answered
  BY DEF RefreshInv
<1> QED
  BY <1>1 DEF RefreshInv, Asked, Read, Answered

\* A call of #refresh makes the refreshes under way old.
LEMMA RefreshKeeps ==
  ASSUME RefreshInv, NEW query, NEW forPanel \in Nat, Refresh(query, forPanel),
         queryGeneration' \in {queryGeneration, queryGeneration + 1}, forPanel <= queryGeneration',
         log' = log, unnotified' \in Nat
  PROVE  /\ RefreshInv' /\ ~LatestDone'
         /\ \A call \in refreshes' : call \in refreshes
              \/ (call.stage = "asked" /\ call.generation = refreshGeneration')
<1> DEFINE new == [generation |-> refreshGeneration + 1, forPanel |-> forPanel, stage |-> "asked"]
<1>1. /\ refreshes' = refreshes \cup {new} /\ refreshGeneration' = refreshGeneration + 1
      /\ refreshGeneration \in Nat /\ queryGeneration \in Nat
  BY DEF Refresh, RefreshInv
<1>2. new \in Asked /\ new.stage = "asked" /\ new.generation = refreshGeneration' /\ new.forPanel = forPanel
  BY <1>1 DEF Asked
<1> HIDE DEF new
<1>3. queryGeneration' \in Nat \ {0} /\ queryGeneration <= queryGeneration'
  BY DEF RefreshInv
<1>4. ASSUME NEW call \in refreshes
      PROVE  /\ call.forPanel <= queryGeneration'
             /\ call.stage # "answered" =>
                  call.generation <= refreshGeneration' /\ call.generation # refreshGeneration'
  <2>1. /\ call.forPanel \in Nat /\ call.forPanel <= queryGeneration
        /\ call.stage # "answered" => call.generation \in Nat /\ call.generation <= refreshGeneration
    BY CallFields
  <2> QED
    BY <1>1, <1>3, <2>1
<1>5. RefreshInv'
  <2>1. \A call \in refreshes :
          /\ call.stage = "read" => call.count \in 0 .. Len(log)
          /\ call.stage = "answered" => call.rows \subseteq 1 .. Len(log)
    BY DEF RefreshInv
  <2>2. refreshes' \subseteq Asked \cup Read \cup Answered
    BY <1>1, <1>2 DEF RefreshInv
  <2>3. \A call \in refreshes : call.stage = "read" => call.generation # refreshGeneration'
    BY <1>4
  <2> QED
    BY <1>1, <1>2, <1>3, <1>4, <2>1, <2>2, <2>3 DEF RefreshInv
<1>6. ~LatestDone'
  BY <1>1, <1>2 DEF LatestDone
<1> QED
  BY <1>1, <1>2, <1>5, <1>6

\* What is rendered is what is above the clear mark.
LEMMA RenderKeeps ==
  ASSUME PanelInv, Len(log) \in Nat, log' = log, NEW shownRows \in SUBSET (1 .. Len(log)), RenderRows(shownRows),
         clearedThrough' \in 0 .. Len(log), autoScroll' \in BOOLEAN, autoScroll' => autoScroll
  PROVE  /\ latestRows' = Above(shownRows, clearedThrough')
         /\ latestRows' \subseteq 1 .. Len(log)
         /\ lastMaximum' \in 0 .. Len(log)
         /\ autoScroll' => unseen' = 0
<1> DEFINE above == {event \in shownRows : event > clearedThrough'}
           maximum == Max(above \cup {0})
<1>1. maximum \in 0 .. Len(log)
  <2>1. 1 .. Len(log) \subseteq 0 .. Len(log) /\ 0 \in 0 .. Len(log)
    OBVIOUS
  <2>2. above \cup {0} \in SUBSET (0 .. Len(log)) /\ above \cup {0} # {}
    BY <2>1
  <2> HIDE DEF above
  <2>3. Max(above \cup {0}) \in above \cup {0}
    BY <2>2, LargestEvent
  <2> QED
    BY <2>2, <2>3
<1>2. latestRows' = above /\ lastMaximum' = Max({lastMaximum, maximum})
  BY DEF RenderRows
<1>3. autoScroll' => unseen' = unseen
  BY DEF RenderRows
<1> HIDE DEF maximum
<1>4. lastMaximum' \in 0 .. Len(log)
  <2>1. {lastMaximum, maximum} \in SUBSET (0 .. Len(log)) /\ {lastMaximum, maximum} # {}
    BY <1>1 DEF PanelInv
  <2>2. Max({lastMaximum, maximum}) \in {lastMaximum, maximum}
    BY <2>1, LargestEvent
  <2> QED
    BY <1>2, <2>1, <2>2
<1> QED
  BY <1>2, <1>3, <1>4 DEF Above, PanelInv

LEMMA AppendKeeps ==
  ASSUME OutputInv, NEW level \in Levels, AppendEvent(level)
  PROVE  OutputInv'
<1>1. /\ log \in Seq(Levels) /\ Len(log) \in Nat /\ log' = Append(log, level)
      /\ unnotified \in Nat /\ unnotified' = unnotified + 1
      /\ UNCHANGED <<refreshes, refreshGeneration, queryGeneration, viewQuery, rows, lastFailed, levels>>
      /\ UNCHANGED <<clearedThrough, latestRows, selected, lastMaximum, unseen, autoScroll, error, unmounted>>
  BY DEF AppendEvent, OutputInv, RefreshInv, controller, view
<1>2. Len(log') = Len(log) + 1 /\ log' \in Seq(Levels)
  BY <1>1
<1>3. /\ 1 .. Len(log) \subseteq 1 .. Len(log') /\ 0 .. Len(log) \subseteq 0 .. Len(log')
      /\ \A count : ReadsAll(count) => ReadsAll(count)'
  <2>1. \A count \in Int : Len(log) - count <= unnotified => (Len(log) + 1) - count <= unnotified + 1
    BY <1>1
  <2> QED
    BY <1>1, <1>2, <2>1 DEF ReadsAll
<1>4. LatestDone' = LatestDone
  BY <1>1 DEF LatestDone
<1>5. RefreshInv'
  <2>1. \A call \in refreshes :
          /\ call.stage = "read" => call.count \in 0 .. Len(log')
          /\ call.stage = "answered" => call.rows \subseteq 1 .. Len(log')
    BY <1>3 DEF OutputInv, RefreshInv
  <2>2. \A call \in refreshes :
          call.stage = "read" /\ call.generation = refreshGeneration => ReadsAll(call.count)'
    BY <1>3 DEF OutputInv, RefreshInv
  <2> QED
    BY <1>1, <1>2, <2>1, <2>2 DEF OutputInv, RefreshInv
<1>6. ControllerInv'
  <2>1. rows \subseteq 1 .. Len(log')
    BY <1>3 DEF OutputInv, ControllerInv
  <2>2. ASSUME LatestDone, ~lastFailed
        PROVE  \E count : ReadsAll(count)' /\ rows = Matching(levels, count)'
    <3>1. PICK count : ReadsAll(count) /\ rows = Matching(levels, count)
      BY <2>2 DEF OutputInv, ControllerInv
    <3>2. count \in 0 .. Len(log)
      BY <3>1 DEF ReadsAll
    <3>3. Matching(levels, count)' = Matching(levels, count)
      <4>1. \A event \in 1 .. count : log'[event] = log[event]
        BY <1>1, <3>2
      <4> QED
        BY <1>1, <4>1 DEF Matching
    <3> QED
      BY <1>3, <3>1, <3>3
  <2> QED
    BY <1>1, <1>4, <2>1, <2>2 DEF OutputInv, ControllerInv
<1>7. PanelInv'
  BY <1>1, <1>3 DEF OutputInv, PanelInv
<1>8. ShownInv'
  BY <1>1, <1>4 DEF OutputInv, ShownInv, Outdated
<1> QED
  BY <1>5, <1>6, <1>7, <1>8 DEF OutputInv

LEMMA NotifyKeeps ==
  ASSUME OutputInv, StoreNotifies
  PROVE  OutputInv'
<1>1. /\ Refresh(viewQuery, 0) /\ UNCHANGED <<log, queryGeneration, rows, lastFailed, viewQuery, levels>>
      /\ UNCHANGED <<clearedThrough, latestRows, selected, lastMaximum, unseen, autoScroll, error, unmounted>>
      /\ unnotified' \in Nat /\ queryGeneration \in Nat \ {0}
  BY DEF StoreNotifies, Refresh, OutputInv, RefreshInv, view
<1>2. /\ RefreshInv' /\ ~LatestDone'
      /\ \A call \in refreshes' : call \in refreshes
           \/ (call.stage = "asked" /\ call.generation = refreshGeneration')
  <2>1. PICK zero \in Nat : zero = 0
    OBVIOUS
  <2>2. Refresh(viewQuery, zero) /\ zero <= queryGeneration'
    BY <1>1, <2>1
  <2>3. RefreshInv /\ queryGeneration' \in {queryGeneration, queryGeneration + 1}
    BY <1>1 DEF OutputInv
  <2> QED
    BY <1>1, <2>2, <2>3, RefreshKeeps
<1>3. ControllerInv' /\ PanelInv'
  BY <1>1, <1>2 DEF OutputInv, ControllerInv, PanelInv
<1>4. ShownInv'
  BY <1>1, <1>2 DEF OutputInv, ShownInv, Outdated
<1> QED
  BY <1>2, <1>3, <1>4 DEF OutputInv

LEMMA QueryKeeps ==
  ASSUME OutputInv, NEW next \in SUBSET Levels, Query(next)
  PROVE  OutputInv'
<1>1. /\ Refresh(next, queryGeneration + 1) /\ queryGeneration' = queryGeneration + 1
      /\ UNCHANGED <<log, unnotified, rows, lastFailed>> /\ viewQuery' = next /\ levels' = next
      /\ UNCHANGED <<clearedThrough, latestRows, selected, lastMaximum, unseen, autoScroll, error, unmounted>>
      /\ queryGeneration \in Nat \ {0} /\ unnotified \in Nat
  BY DEF Query, Refresh, OutputInv, RefreshInv, store, view
<1>2. /\ RefreshInv' /\ ~LatestDone'
      /\ \A call \in refreshes' : call \in refreshes
           \/ (call.stage = "asked" /\ call.generation = refreshGeneration')
  <2>1. queryGeneration + 1 \in Nat /\ queryGeneration + 1 <= queryGeneration'
    BY <1>1
  <2>2. RefreshInv /\ queryGeneration' \in {queryGeneration, queryGeneration + 1}
    BY <1>1 DEF OutputInv
  <2> QED
    BY <1>1, <2>1, <2>2, RefreshKeeps
<1>3. ControllerInv'
  BY <1>1, <1>2 DEF OutputInv, ControllerInv
<1>4. PanelInv'
  BY <1>1 DEF OutputInv, PanelInv
<1>5. \A call \in refreshes : call.forPanel # queryGeneration'
  <2>1. \A call \in refreshes : call.forPanel \in Nat /\ call.forPanel <= queryGeneration
    BY CallFields DEF OutputInv
  <2> QED
    BY <1>1, <2>1
<1>6. ShownInv'
  BY <1>1, <1>2, <1>5 DEF OutputInv, ShownInv, Outdated
<1> QED
  BY <1>2, <1>3, <1>4, <1>6 DEF OutputInv

\* The store's read changes nothing but the stage of a refresh.
LEMMA StoreQueryKeeps ==
  ASSUME OutputInv, NEW call \in refreshes, StoreQuery(call)
  PROVE  OutputInv'
<1>1. /\ call.stage = "asked"
      /\ UNCHANGED <<log, unnotified, viewQuery, rows, refreshGeneration, lastFailed, levels, queryGeneration>>
      /\ UNCHANGED <<clearedThrough, latestRows, selected, lastMaximum, unseen, autoScroll, error, unmounted>>
  BY DEF StoreQuery, store, view
<1>2. PICK fails \in BOOLEAN :
        refreshes' = (refreshes \ {call}) \cup
          {[generation |-> call.generation, forPanel |-> call.forPanel, stage |-> "read",
            failed |-> fails, count |-> Len(log)]}
  BY DEF StoreQuery
<1> DEFINE new == [generation |-> call.generation, forPanel |-> call.forPanel, stage |-> "read",
                   failed |-> fails, count |-> Len(log)]
<1>3. /\ call.forPanel \in Nat /\ call.forPanel <= queryGeneration
      /\ call.generation \in Nat /\ call.generation <= refreshGeneration
      /\ Len(log) \in Nat /\ unnotified \in Nat
  BY <1>1, CallFields DEF OutputInv, RefreshInv
<1>4. /\ new \in Read /\ new.stage = "read" /\ new.generation = call.generation
      /\ new.forPanel = call.forPanel /\ new.count = Len(log)
  BY <1>2, <1>3 DEF Read
<1>5. refreshes' = (refreshes \ {call}) \cup {new}
  BY <1>2
<1> HIDE DEF new
<1>6. ReadsAll(Len(log))
  BY <1>3 DEF ReadsAll
<1>7. RefreshInv'
  <2>1. refreshes' \subseteq Asked \cup Read \cup Answered
    BY <1>4, <1>5 DEF OutputInv, RefreshInv
  <2>2. \A c \in refreshes' : c.stage = "read" /\ c.generation = refreshGeneration => ReadsAll(c.count)
    BY <1>4, <1>5, <1>6 DEF OutputInv, RefreshInv
  <2>3. \A c \in refreshes' :
          /\ c.forPanel <= queryGeneration
          /\ c.stage # "answered" => c.generation <= refreshGeneration
    BY <1>3, <1>4, <1>5 DEF OutputInv, RefreshInv
  <2>4. \A c \in refreshes' :
          /\ c.stage = "read" => c.count \in 0 .. Len(log)
          /\ c.stage = "answered" => c.rows \subseteq 1 .. Len(log)
    BY <1>3, <1>4, <1>5 DEF OutputInv, RefreshInv
  <2> QED
    BY <1>1, <2>1, <2>2, <2>3, <2>4 DEF OutputInv, RefreshInv, ReadsAll
<1>8. LatestDone' = LatestDone
  BY <1>1, <1>4, <1>5 DEF LatestDone
<1>9. ControllerInv' /\ PanelInv'
  BY <1>1, <1>8 DEF OutputInv, ControllerInv, PanelInv, ReadsAll, Matching
<1>10. ShownInv'
  BY <1>1, <1>4, <1>5, <1>8 DEF OutputInv, ShownInv, Outdated
<1> QED
  BY <1>7, <1>9, <1>10 DEF OutputInv

\* An answer that counts replaces the rows and outdates what the panel awaits.
LEMMA FinishRefreshKeeps ==
  ASSUME OutputInv, NEW call \in refreshes, FinishRefresh(call)
  PROVE  OutputInv'
<1> DEFINE latest == call.generation = refreshGeneration
           new == [forPanel |-> call.forPanel, stage |-> "answered", failed |-> call.failed, rows |-> rows']
<1>1. /\ call.stage = "read" /\ call.failed \in BOOLEAN /\ call.count \in 0 .. Len(log)
      /\ call.forPanel \in Nat /\ call.forPanel <= queryGeneration
      /\ queryGeneration \in Nat \ {0} /\ log \in Seq(Levels) /\ Len(log) \in Nat /\ unnotified \in Nat
      /\ latest => ReadsAll(call.count)
  BY CallFields DEF FinishRefresh, OutputInv, RefreshInv
<1>2. /\ UNCHANGED <<log, unnotified, viewQuery, refreshGeneration, levels, error, unmounted>>
      /\ lastFailed' = IF latest THEN call.failed ELSE lastFailed
      /\ refreshes' = (refreshes \ {call}) \cup (IF call.forPanel = 0 THEN {} ELSE {new})
  BY DEF FinishRefresh, Answer, store
<1>3. \/ /\ latest /\ ~call.failed /\ rows' = Matching(viewQuery, call.count)
         /\ ~unmounted => PanelNotified(rows')
         /\ unmounted => UNCHANGED <<view, queryGeneration>>
      \/ /\ ~latest \/ call.failed
         /\ UNCHANGED <<rows, view, queryGeneration>>
  BY DEF FinishRefresh, TakesAnswer
<1>4. rows' \subseteq 1 .. Len(log)
  <2>1. 1 .. call.count \subseteq 1 .. Len(log)
    BY <1>1
  <2> QED
    BY <1>3, <2>1 DEF Matching, OutputInv, ControllerInv
<1>5. queryGeneration' \in {queryGeneration, queryGeneration + 1}
  BY <1>3 DEF PanelNotified
<1>6. new \in Answered /\ new.stage = "answered" /\ new.forPanel = call.forPanel
      /\ (new.failed <=> call.failed) /\ new.rows = rows'
  BY <1>1, <1>4 DEF Answered
<1>7. \A c \in refreshes' : c \in refreshes \/ c = new
  BY <1>2
<1>8. \A c \in refreshes : c # call => c \in refreshes'
  BY <1>2
<1> HIDE DEF new, latest
<1>9. RefreshInv'
  <2>1. refreshes' \subseteq Asked \cup Read \cup Answered
    BY <1>6, <1>7 DEF OutputInv, RefreshInv
  <2>2. \A c \in refreshes' :
          /\ c.stage = "read" /\ c.generation = refreshGeneration => ReadsAll(c.count)
          /\ c.stage # "answered" => c.generation <= refreshGeneration
          /\ c.stage = "read" => c.count \in 0 .. Len(log)
          /\ c.stage = "answered" => c.rows \subseteq 1 .. Len(log)
    BY <1>4, <1>6, <1>7 DEF OutputInv, RefreshInv
  <2>3. \A c \in refreshes' : c.forPanel \in Nat /\ c.forPanel <= queryGeneration
    BY <1>1, <1>6, <1>7, CallFields DEF OutputInv
  <2>4. queryGeneration' \in Nat \ {0} /\ queryGeneration <= queryGeneration'
    BY <1>1, <1>5
  <2>5. \A c \in refreshes' : c.forPanel <= queryGeneration'
    BY <1>1, <2>3, <2>4
  <2> QED
    BY <1>2, <2>1, <2>2, <2>4, <2>5 DEF OutputInv, RefreshInv, ReadsAll
<1>10. ~latest => (LatestDone' <=> LatestDone)
  BY <1>1, <1>2, <1>6, <1>7, <1>8 DEF LatestDone, latest
<1>11. ControllerInv'
  <2>1. lastFailed' \in BOOLEAN
    BY <1>1, <1>2 DEF OutputInv, ControllerInv
  <2>2. ASSUME LatestDone', ~lastFailed'
        PROVE  \E count : ReadsAll(count)' /\ rows' = Matching(levels, count)'
    <3>1. CASE latest
      BY <1>1, <1>2, <1>3, <2>2, <3>1 DEF OutputInv, ControllerInv, ReadsAll, Matching
    <3>2. CASE ~latest
      BY <1>2, <1>3, <1>10, <2>2, <3>2 DEF OutputInv, ControllerInv, ReadsAll, Matching
    <3> QED
      BY <3>1, <3>2
  <2> QED
    BY <1>2, <1>4, <2>1, <2>2 DEF OutputInv, ControllerInv
<1>12. CASE latest /\ ~call.failed /\ ~unmounted
  <2>1. PanelNotified(rows') /\ queryGeneration' = queryGeneration + 1 /\ selected' = NoEvent
        /\ UNCHANGED <<clearedThrough, autoScroll>> /\ RenderRows(rows')
    BY <1>3, <1>12 DEF PanelNotified
  <2>2. /\ PanelInv /\ clearedThrough' \in 0 .. Len(log) /\ autoScroll' \in BOOLEAN
        /\ autoScroll' => autoScroll
    BY <2>1 DEF OutputInv, PanelInv
  <2>3. /\ latestRows' = Above(rows', clearedThrough')
        /\ latestRows' \subseteq 1 .. Len(log)
        /\ lastMaximum' \in 0 .. Len(log)
        /\ autoScroll' => unseen' = 0
    BY <1>1, <1>2, <1>4, <2>1, <2>2, RenderKeeps
  <2>4. PanelInv'
    BY <1>2, <2>1, <2>2, <2>3 DEF PanelInv
  <2>5. \A c \in refreshes' : c.forPanel # queryGeneration'
    <3>1. \A c \in refreshes' : c.forPanel \in Nat /\ c.forPanel <= queryGeneration
      BY <1>1, <1>6, <1>7, CallFields DEF OutputInv
    <3> QED
      BY <1>1, <2>1, <3>1
  <2>6. ShownInv'
    BY <2>3, <2>5 DEF ShownInv
  <2> QED
    BY <1>9, <1>11, <2>4, <2>6 DEF OutputInv
<1>13. CASE ~(latest /\ ~call.failed /\ ~unmounted)
  <2>1. UNCHANGED <<clearedThrough, latestRows, selected, lastMaximum, unseen, autoScroll, queryGeneration>>
    BY <1>3, <1>13 DEF view
  <2>2. PanelInv'
    BY <1>2, <2>1 DEF OutputInv, PanelInv
  <2>3. ASSUME ~unmounted PROVE UNCHANGED rows /\ (~latest \/ call.failed)
    BY <1>3, <1>13, <2>3
  <2>4. ASSUME ~unmounted, Outdated PROVE Outdated'
    BY <1>2, <1>10, <2>3, <2>4 DEF Outdated
  <2>5. ASSUME ~unmounted, call.forPanel = queryGeneration, call.failed PROVE Outdated'
    <3>1. CASE latest
      BY <1>2, <2>5, <3>1 DEF Outdated
    <3>2. CASE ~latest
      BY <1>1, <2>4, <2>5, <3>2 DEF OutputInv, ShownInv, latest
    <3> QED
      BY <3>1, <3>2
  <2>6. ShownInv'
    <3>1. SUFFICES ASSUME ~unmounted
                   PROVE  /\ latestRows = Above(rows, clearedThrough) \/ Outdated'
                          /\ \A c \in refreshes' : c.forPanel = queryGeneration =>
                               /\ c.stage = "answered" /\ ~c.failed => c.rows = rows
                               /\ c.stage = "answered" /\ c.failed => Outdated'
                               /\ c.stage # "answered" /\ c.generation # refreshGeneration => Outdated'
      BY <1>2, <2>1, <2>3 DEF ShownInv
    <3>2. latestRows = Above(rows, clearedThrough) \/ Outdated'
      BY <2>4, <3>1 DEF OutputInv, ShownInv
    <3>3. ASSUME NEW c \in refreshes', c.forPanel = queryGeneration
          PROVE  /\ c.stage = "answered" /\ ~c.failed => c.rows = rows
                 /\ c.stage = "answered" /\ c.failed => Outdated'
                 /\ c.stage # "answered" /\ c.generation # refreshGeneration => Outdated'
      <4>1. CASE c \in refreshes
        BY <2>4, <3>1, <3>3, <4>1 DEF OutputInv, ShownInv
      <4>2. CASE c = new
        BY <1>6, <2>3, <2>5, <3>1, <3>3, <4>2
      <4> QED
        BY <1>7, <4>1, <4>2
    <3> QED
      BY <3>2, <3>3
  <2> QED
    BY <1>9, <1>11, <2>2, <2>6 DEF OutputInv
<1> QED
  BY <1>12, <1>13

\* The end of the panel's refresh shows what its answer brought, if it still counts.
LEMMA FinishQueryKeeps ==
  ASSUME OutputInv, NEW call \in refreshes, FinishQuery(call)
  PROVE  OutputInv'
<1>1. /\ call.stage = "answered" /\ refreshes' = refreshes \ {call}
      /\ UNCHANGED <<log, unnotified, viewQuery, rows, refreshGeneration, lastFailed, levels, queryGeneration, unmounted>>
  BY DEF FinishQuery, store
<1>2. LatestDone' = LatestDone
  BY <1>1 DEF LatestDone
<1>3. RefreshInv' /\ ControllerInv'
  BY <1>1, <1>2 DEF OutputInv, RefreshInv, ControllerInv, ReadsAll, Matching
<1>4. CASE unmounted \/ call.forPanel # queryGeneration
  <2>1. UNCHANGED <<clearedThrough, latestRows, selected, lastMaximum, unseen, autoScroll, error>>
    BY <1>4 DEF FinishQuery, view
  <2>2. PanelInv'
    BY <1>1, <2>1 DEF OutputInv, PanelInv
  <2>3. ShownInv'
    BY <1>1, <1>2, <2>1 DEF OutputInv, ShownInv, Outdated
  <2> QED
    BY <1>3, <2>2, <2>3 DEF OutputInv
<1>5. CASE ~unmounted /\ call.forPanel = queryGeneration
  <2> DEFINE shownRows == IF call.failed THEN {} ELSE call.rows
  <2>1. /\ RenderRows(shownRows) /\ UNCHANGED <<clearedThrough, selected, autoScroll>>
        /\ error' \in {"none", "query"}
    BY <1>5 DEF FinishQuery
  <2>2. call.failed \in BOOLEAN /\ call.rows \subseteq 1 .. Len(log) /\ Len(log) \in Nat
    BY <1>1, CallFields DEF OutputInv, RefreshInv
  <2>3. shownRows \in SUBSET (1 .. Len(log))
    BY <2>2
  <2>4. /\ ~call.failed => shownRows = rows
        /\ call.failed => Outdated
    BY <1>1, <1>5 DEF OutputInv, ShownInv
  <2> HIDE DEF shownRows
  <2>5. /\ PanelInv /\ clearedThrough' \in 0 .. Len(log) /\ autoScroll' \in BOOLEAN
        /\ autoScroll' => autoScroll
    BY <2>1 DEF OutputInv, PanelInv
  <2>6. /\ latestRows' = Above(shownRows, clearedThrough')
        /\ latestRows' \subseteq 1 .. Len(log)
        /\ lastMaximum' \in 0 .. Len(log)
        /\ autoScroll' => unseen' = 0
    BY <1>1, <2>1, <2>2, <2>3, <2>5, RenderKeeps
  <2>7. PanelInv'
    BY <1>1, <2>1, <2>5, <2>6 DEF PanelInv
  <2>8. latestRows' = Above(rows, clearedThrough) \/ Outdated
    BY <2>1, <2>2, <2>4, <2>6
  <2>9. ShownInv'
    BY <1>1, <1>2, <2>1, <2>8 DEF OutputInv, ShownInv, Outdated
  <2> QED
    BY <1>3, <2>7, <2>9 DEF OutputInv
<1> QED
  BY <1>4, <1>5

\* What the panel shows is rendered again, perhaps above a new mark.
LEMMA RenderAgainKeeps ==
  ASSUME OutputInv, RenderRows(latestRows),
         UNCHANGED <<store, controller, levels, queryGeneration, error, unmounted>>,
         clearedThrough' \in 0 .. Len(log), clearedThrough <= clearedThrough',
         autoScroll' \in BOOLEAN, autoScroll' => autoScroll,
         selected' \in latestRows \cup {NoEvent}
  PROVE  OutputInv'
<1>1. UNCHANGED <<log, unnotified, viewQuery, rows, refreshGeneration, refreshes, lastFailed, levels,
                  queryGeneration, error, unmounted>>
  BY DEF store, controller
<1>2. PanelInv /\ Len(log) \in Nat /\ latestRows \in SUBSET (1 .. Len(log))
  BY DEF OutputInv, PanelInv, RefreshInv
<1>3. /\ latestRows' = Above(latestRows, clearedThrough')
      /\ latestRows' \subseteq 1 .. Len(log)
      /\ lastMaximum' \in 0 .. Len(log)
      /\ autoScroll' => unseen' = 0
  BY <1>1, <1>2, RenderKeeps
<1>4. PanelInv'
  BY <1>1, <1>2, <1>3 DEF PanelInv
<1>5. LatestDone' = LatestDone
  BY <1>1 DEF LatestDone
<1>6. RefreshInv' /\ ControllerInv'
  BY <1>1, <1>5 DEF OutputInv, RefreshInv, ControllerInv, ReadsAll, Matching
<1>7. Above(Above(rows, clearedThrough), clearedThrough') = Above(rows, clearedThrough')
  <2>1. rows \subseteq 1 .. Len(log) /\ clearedThrough \in 0 .. Len(log)
    BY <1>2 DEF OutputInv, ControllerInv, PanelInv
  <2>2. \A event \in rows : event > clearedThrough' => event > clearedThrough
    BY <1>2, <2>1
  <2> QED
    BY <2>2 DEF Above
<1>8. ShownInv'
  BY <1>1, <1>3, <1>5, <1>7 DEF OutputInv, ShownInv, Outdated
<1> QED
  BY <1>4, <1>6, <1>8 DEF OutputInv

LEMMA SelectKeeps ==
  ASSUME OutputInv, NEW event \in latestRows \cup {NoEvent}, SelectRow(event)
  PROVE  OutputInv'
<1>1. /\ RenderRows(latestRows) /\ selected' = event
      /\ UNCHANGED <<store, controller, levels, queryGeneration, error, unmounted, clearedThrough>>
      /\ autoScroll' = (autoScroll /\ event = NoEvent)
  BY DEF SelectRow
<1>2. clearedThrough \in 0 .. Len(log) /\ autoScroll \in BOOLEAN /\ Len(log) \in Nat
  BY DEF OutputInv, PanelInv, RefreshInv
<1>3. /\ clearedThrough' \in 0 .. Len(log) /\ clearedThrough <= clearedThrough'
      /\ autoScroll' \in BOOLEAN /\ (autoScroll' => autoScroll)
  BY <1>1, <1>2
<1> QED
  BY <1>1, <1>3, RenderAgainKeeps

LEMMA ClearKeeps ==
  ASSUME OutputInv, ClearView
  PROVE  OutputInv'
<1>1. /\ RenderRows(latestRows) /\ selected' = NoEvent
      /\ UNCHANGED <<store, controller, levels, queryGeneration, error, unmounted, autoScroll>>
      /\ clearedThrough' = Max(latestRows \cup {clearedThrough})
  BY DEF ClearView
<1>2. /\ clearedThrough \in 0 .. Len(log) /\ autoScroll \in BOOLEAN /\ Len(log) \in Nat
      /\ latestRows \subseteq 1 .. Len(log)
  BY DEF OutputInv, PanelInv, RefreshInv
<1> DEFINE T == latestRows \cup {clearedThrough}
<1>3. T \in SUBSET (0 .. Len(log)) /\ T # {} /\ clearedThrough \in T
  BY <1>2
<1>4. clearedThrough' = Max(T)
  BY <1>1
<1> HIDE DEF T
<1>5. clearedThrough' \in 0 .. Len(log) /\ clearedThrough <= clearedThrough'
  BY <1>2, <1>3, <1>4, LargestEvent
<1>6. autoScroll' \in BOOLEAN /\ (autoScroll' => autoScroll)
  BY <1>1, <1>2
<1> QED
  BY <1>1, <1>5, <1>6, RenderAgainKeeps

\* The steps that leave the rows, and what is awaited, alone.
LEMMA OthersKeep ==
  ASSUME OutputInv,
         \/ \E next \in BOOLEAN : SetAutoScroll(next)
         \/ RunAction \/ FinishAction \/ Unmount \/ UNCHANGED outputVars
  PROVE  OutputInv'
<1>1. /\ UNCHANGED <<log, unnotified, viewQuery, rows, refreshGeneration, refreshes, lastFailed, levels>>
      /\ UNCHANGED <<clearedThrough, latestRows, selected, lastMaximum>>
      /\ UNCHANGED <<queryGeneration, unmounted>> \/ (unmounted' /\ queryGeneration' = queryGeneration + 1)
  BY DEF SetAutoScroll, RunAction, FinishAction, Unmount, outputVars, store, controller, view
<1>2. /\ error' \in {"none", "action", error}
      /\ autoScroll' \in BOOLEAN /\ (autoScroll' => unseen' = 0)
  BY DEF SetAutoScroll, RunAction, FinishAction, Unmount, outputVars, view, OutputInv, PanelInv
<1>3. LatestDone' = LatestDone
  BY <1>1 DEF LatestDone
<1>4. RefreshInv'
  <2>1. \A call \in refreshes : call.forPanel \in Nat
    BY CallFields DEF OutputInv
  <2>2. /\ queryGeneration' \in Nat \ {0}
        /\ \A call \in refreshes : call.forPanel <= queryGeneration'
    BY <1>1, <2>1 DEF OutputInv, RefreshInv
  <2> QED
    BY <1>1, <2>2 DEF OutputInv, RefreshInv, ReadsAll
<1>5. ControllerInv'
  BY <1>1, <1>3 DEF OutputInv, ControllerInv, ReadsAll, Matching
<1>6. PanelInv'
  BY <1>1, <1>2 DEF OutputInv, PanelInv
<1>7. ShownInv'
  BY <1>1, <1>3 DEF OutputInv, ShownInv, Outdated
<1> QED
  BY <1>4, <1>5, <1>6, <1>7 DEF OutputInv

LEMMA OutputStepInv == OutputInv /\ [OutputNext]_outputVars => OutputInv'
<1> SUFFICES ASSUME OutputInv, [OutputNext]_outputVars PROVE OutputInv'
  OBVIOUS
<1>1. levels \in SUBSET Levels
  BY DEF OutputInv, ControllerInv
<1>2. ASSUME NEW level \in Levels, NEW checked \in BOOLEAN, Query(ChangedFilter(level, checked))
      PROVE  OutputInv'
  <2>1. ChangedFilter(level, checked) \in SUBSET Levels
    BY <1>1 DEF ChangedFilter
  <2> QED
    BY <1>2, <2>1, QueryKeeps
<1>3. ASSUME Query({}) \/ Retry PROVE OutputInv'
  <2>1. {} \in SUBSET Levels
    OBVIOUS
  <2> QED
    BY <1>1, <1>3, <2>1, QueryKeeps DEF Retry
<1> QED
  BY <1>2, <1>3, AppendKeeps, NotifyKeeps, StoreQueryKeeps, FinishRefreshKeeps, FinishQueryKeeps,
     SelectKeeps, ClearKeeps, OthersKeep DEF OutputNext

LEMMA OutputInvariant == OutputSpec => []OutputInv
BY OutputInitInv, OutputStepInv, PTL DEF OutputSpec

\* RowsCurrent: when nothing is under way and the latest query did not fail, the
\* controller's rows are the log's events for the panel's filter, and the panel shows
\* those above the clear mark, for every number of events and uses.
THEOREM RowsAreCurrent == OutputSpec => []RowsCurrent
<1>1. OutputInv => RowsCurrent
  <2> SUFFICES ASSUME OutputInv, refreshes = {}, unnotified = 0, ~lastFailed
               PROVE  /\ viewQuery = levels
                      /\ rows = Matching(levels, Len(log))
                      /\ ~unmounted => latestRows = {event \in rows : event > clearedThrough}
    BY DEF RowsCurrent
  <2>1. LatestDone /\ ~Outdated
    BY DEF LatestDone, Outdated
  <2>2. PICK count : ReadsAll(count) /\ rows = Matching(levels, count)
    BY <2>1 DEF OutputInv, ControllerInv
  <2>3. count = Len(log)
    <3>1. Len(log) \in Nat /\ count \in 0 .. Len(log) /\ Len(log) - count <= 0
      BY <2>2 DEF ReadsAll, OutputInv, RefreshInv
    <3> QED
      BY <3>1
  <2> QED
    BY <2>1, <2>2, <2>3 DEF OutputInv, ControllerInv, ShownInv, Above
<1> QED
  BY <1>1, OutputInvariant, PTL

\* The output panel's state has its type: what it shows and marks are events of the
\* log, and it counts no unseen events while it scrolls by itself.
THEOREM OutputTypes == OutputSpec => []OutputTypeOK
<1>1. OutputInv => OutputTypeOK
  <2> SUFFICES ASSUME OutputInv PROVE OutputTypeOK
    OBVIOUS
  <2>1. DOMAIN log = 1 .. Len(log)
    BY DEF OutputInv, RefreshInv
  <2> QED
    BY <2>1 DEF OutputInv, ControllerInv, PanelInv, OutputTypeOK
<1> QED
  BY <1>1, OutputInvariant, PTL
==============================================================================

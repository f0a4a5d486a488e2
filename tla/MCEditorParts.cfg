SPECIFICATION Spec
CONSTANTS
  Fields = {"viewport", "selection"}
  Listeners = {l1, l2}
  MaxSets = 3
  NoViewport = NoViewport
  CanvasNodes = {"a", "b"}
  InitialBoxes <- Boxes
  Pixel = 2
  GridSize = 8
  Pointers = {p1, p2}
  Places = {0, 8, 20}
  Zooms = {1, 2}
  MaxInputs = 4
  NoGesture = NoGesture
  NoFrame = NoFrame
  TreePage = "page"
  TreeNodes = {"a", "b", "c", "d"}
  InitialTree <- ThreeNodes
  Names = {"A", "B"}
  MaxTreeInputs = 4
  Closable = {"scene", "history"}
  Fixed = {"canvas"}
  MaxRequests = 3
  NoLayout = NoLayout
  Levels = {"success", "failure"}
  MaxEvents = 2
  MaxUses = 1
  NoEvent = NoEvent
  SessionIds = {1, 2}
  Runs = {r1, r2}
  MaxBytes = 1
  Cutoff = 1
  LastTime = 1
  NoSession = NoSession
  PluginIds = {"core", "fill", "text"}
  CommandIds = {"create", "delete"}
  MaxPlugins = 3
INVARIANTS PartsTypeOK SessionLogComplete ListenersHearLast GestureIsLive CanvasShowsSource
INVARIANTS ResizeIsAnchored TreeShowsDocument StoredLayoutIsCurrent PanelLogFolds RowsCurrent
INVARIANTS NewestEndedKept PluginsAllOrNothing
SYMMETRY Symmetry
CHECK_DEADLOCK FALSE

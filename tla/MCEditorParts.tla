----------------------------- MODULE MCEditorParts -----------------------------
(***************************************************************************)
(* Small instances of the parts around the document: the editor session,   *)
(* the canvas, the scene panel's tree, the workspace, the output panel,    *)
(* the retention of the log and the command plugins.  None reads another's *)
(* variables (what it needs of the others is among its own actions), so a  *)
(* behaviour is one of one part, chosen at the start, and the others stay  *)
(* as they began.                                                          *)
(***************************************************************************)
EXTENDS EditorSession, Canvas, ComponentTree, Workspace, OutputLog, Retention, CommandPlugins, TLC

VARIABLE part

Boxes == "a" :> [x |-> 0, width |-> 8] @@ "b" :> [x |-> 8, width |-> 8]

NodeAt(parent, index) ==
  [parent |-> parent, index |-> index, name |-> "A", visible |-> TRUE, locked |-> FALSE, place |-> 0]

ThreeNodes == "a" :> NodeAt("page", 1) @@ "b" :> NodeAt("page", 2) @@ "c" :> NodeAt("a", 1)

Init ==
  /\ part \in {"session", "canvas", "tree", "workspace", "output", "retention", "plugins"}
  /\ SessionInit /\ CanvasInit /\ TreeInit /\ OutputInit /\ RetentionInit
  /\ WorkspaceInit /\ (part # "workspace" => storedLayout = NoLayout)
  /\ PluginsInit /\ (part # "plugins" => plugins = << >>)

Next ==
  \/ /\ part = "session" /\ SessionNext
     /\ UNCHANGED <<part, canvasVars, treeVars, workspaceVars, outputVars, retentionVars, pluginVars>>
  \/ /\ part = "canvas" /\ CanvasNext
     /\ UNCHANGED <<part, sessionVars, treeVars, workspaceVars, outputVars, retentionVars, pluginVars>>
  \/ /\ part = "tree" /\ TreeNext
     /\ UNCHANGED <<part, sessionVars, canvasVars, workspaceVars, outputVars, retentionVars, pluginVars>>
  \/ /\ part = "workspace" /\ WorkspaceNext
     /\ UNCHANGED <<part, sessionVars, canvasVars, treeVars, outputVars, retentionVars, pluginVars>>
  \/ /\ part = "output" /\ OutputNext
     /\ UNCHANGED <<part, sessionVars, canvasVars, treeVars, workspaceVars, retentionVars, pluginVars>>
  \/ /\ part = "retention" /\ RetentionNext
     /\ UNCHANGED <<part, sessionVars, canvasVars, treeVars, workspaceVars, outputVars, pluginVars>>
  \/ /\ part = "plugins" /\ PluginsNext
     /\ UNCHANGED <<part, sessionVars, canvasVars, treeVars, workspaceVars, outputVars, retentionVars>>

Spec == Init /\ [][Next]_<<part, sessionVars, canvasVars, treeVars, workspaceVars, outputVars,
                           retentionVars, pluginVars>>

\* Listeners, pointers and runs are told apart by nothing but their identity.
Symmetry == Permutations(Listeners) \cup Permutations(Pointers) \cup Permutations(Runs)

\* The state of each part has its type, and the flags that say what is under way
\* agree with it: a group resize, a reset, a viewport that waits to be recorded.
PartsTypeOK ==
  /\ SessionTypeOK /\ CanvasTypeOK /\ TreeTypeOK /\ WorkspaceTypeOK
  /\ OutputTypeOK /\ RetentionTypeOK /\ PluginsTypeOK
===============================================================================

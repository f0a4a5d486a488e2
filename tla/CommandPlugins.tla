---------------------------- MODULE CommandPlugins ----------------------------
(***************************************************************************)
(* The installation of an editor's command plugins                         *)
(* (packages/core/src/kernel/commands/plugin.ts, registry.ts).             *)
(*                                                                         *)
(* A plugin registers commands while it is installed, drops some of them,  *)
(* and returns a disposer or throws; the disposers drop commands too, and  *)
(* throw or not.  A contribution is of the plugin that registered it.      *)
(***************************************************************************)
EXTENDS Integers, Sequences

CONSTANTS
  PluginIds, CommandIds,
  MaxPlugins       \* bound: plugins of an editor

ASSUME CommandPluginsAssumption == MaxPlugins \in Nat

VARIABLES
  plugins,         \* the ids, in the order of the array
  registry,        \* the set of registered [command, place of the plugin]
  handles,         \* what register returned: the same, called or not
  place,           \* of the plugin that is being installed
  installed,       \* places
  phase,
  ran              \* history: the places whose disposers ran

pluginVars == <<plugins, registry, handles, place, installed, phase, ran>>

PluginsInit ==
  /\ plugins \in UNION {[1 .. n -> PluginIds] : n \in 0 .. MaxPlugins}
  /\ registry = {}
  /\ handles = {}
  /\ place = 1
  /\ installed = << >>
  /\ phase = "installing"
  /\ ran = << >>

Fail ==
  /\ phase' = "rollingBack"
  /\ UNCHANGED <<plugins, registry, handles, place, installed, ran>>

\* A plugin of this id was installed before.
IdConflict ==
  /\ phase = "installing" /\ place <= Len(plugins)
  /\ plugins[place] \in {plugins[i] : i \in 1 .. place - 1}
  /\ Fail

Installs ==
  /\ phase = "installing" /\ place <= Len(plugins)
  /\ plugins[place] \notin {plugins[i] : i \in 1 .. place - 1}

\* registerCommand: a command that is registered already is an error, which the
\* plugin may catch.
RegisterCommand(command) ==
  /\ Installs
  /\ \A entry \in registry : entry.command # command
  /\ registry' = registry \cup {[command |-> command, place |-> place]}
  /\ handles' = handles \cup {[command |-> command, place |-> place]}
  /\ UNCHANGED <<plugins, place, installed, phase, ran>>

PluginThrows == Installs /\ Fail

PluginInstalled ==
  /\ Installs
  /\ installed' = Append(installed, place)
  /\ place' = place + 1
  /\ UNCHANGED <<plugins, registry, handles, phase, ran>>

AllInstalled ==
  /\ phase = "installing" /\ place > Len(plugins)
  /\ phase' = "installed"
  /\ UNCHANGED <<plugins, registry, handles, place, installed, ran>>

\* What register returned is called, once or again: it drops the plugin's own
\* contribution, never one that another registered since.
Unregister(handle) ==
  /\ registry' = registry \ {handle}
  /\ UNCHANGED <<plugins, handles, place, installed, phase, ran>>

\* A rollback that leaves what the failing plugin registered.
RollbackInstalledOnly ==
  /\ phase = "rollingBack" /\ installed = << >>
  /\ phase' = "failed"
  /\ registry' = {entry \in registry : entry.place = place}
  /\ UNCHANGED <<plugins, handles, place, installed, ran>>

\* The rollback ends: with the commands that the failing plugin registered.
RolledBack ==
  /\ phase = "rollingBack" /\ installed = << >>
  /\ phase' = "failed"
  /\ registry' = {}
  /\ UNCHANGED <<plugins, handles, place, installed, ran>>

\* The next disposer, from the last to the first; disposeAll removes the plugin's
\* commands after it.
RunDisposer ==
  /\ phase \in {"rollingBack", "disposing"} /\ installed # << >>
  /\ ran' = Append(ran, installed[Len(installed)])
  /\ installed' = SubSeq(installed, 1, Len(installed) - 1)
  /\ registry' = IF phase = "rollingBack" THEN registry
                 ELSE {entry \in registry : plugins[entry.place] # plugins[installed[Len(installed)]]}
  /\ UNCHANGED <<plugins, handles, place, phase>>

DisposeAll ==
  /\ phase = "installed"
  /\ phase' = "disposing"
  /\ UNCHANGED <<plugins, registry, handles, place, installed, ran>>

Disposed ==
  /\ phase = "disposing" /\ installed = << >>
  /\ phase' = "disposed"
  /\ UNCHANGED <<plugins, registry, handles, place, installed, ran>>

PluginsNext ==
  \/ IdConflict \/ PluginThrows \/ PluginInstalled \/ AllInstalled
  \/ \E command \in CommandIds : RegisterCommand(command)
  \/ \E handle \in handles : Unregister(handle)
  \/ RolledBack \/ RunDisposer \/ DisposeAll \/ Disposed

PluginsSpec == PluginsInit /\ [][PluginsNext]_pluginVars

-----------------------------------------------------------------------------
PluginsTypeOK ==
  /\ \A entry \in registry : entry \in handles
  /\ \A a, b \in registry : a.command = b.command => a = b
  /\ place \in 1 .. Len(plugins) + 1

\* An installation that failed and an editor that was disposed of leave no command,
\* of the plugin that failed half-way neither, and every plugin that was installed
\* was disposed of once, the last one first.
PluginsAllOrNothing ==
  phase \in {"failed", "disposed"} =>
    /\ registry = {}
    /\ ran = [i \in 1 .. place - 1 |-> place - i]
===============================================================================

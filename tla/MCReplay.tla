------------------------------- MODULE MCReplay -------------------------------
(* Replay of a small session: what the user does in the runs.               *)
EXTENDS Replay

CONSTANT v1

TwoValues == {v1, Url}

\* Many sessions that are replayed once.
ManySessions ==
  [commands |-> {Url, Broken},
   uses |-> {"history.undo", "history.redo", "history.jump", "session",
             "workspace.panel.opened"},
   operations |-> 3, meanwhile |-> 0, controls |-> 1, checkpointEvery |-> 2]

\* Sessions with a checkpoint after each command.
ManyCheckpoints ==
  [commands |-> {Url}, uses |-> {"history.undo", "session"},
   operations |-> 3, meanwhile |-> 0, controls |-> 1, checkpointEvery |-> 1]

\* A session that goes on while a replay is started and interrupted.
WritingMeanwhile ==
  [commands |-> {Url}, uses |-> {}, operations |-> 2, meanwhile |-> 1, controls |-> 2,
   checkpointEvery |-> 1]

\* A short session whose replay the user interrupts again and again.
ManyControls ==
  [commands |-> {Url}, uses |-> {}, operations |-> 2, meanwhile |-> 0, controls |-> 3,
   checkpointEvery |-> 100]

All == {ManySessions, ManyCheckpoints, WritingMeanwhile, ManyControls}

\* A setting and a command with its checkpoint, replayed from there.
Settings == {ManyCheckpoints}

\* Commands before and after an undo, replayed from the beginning.
UndoneCommands ==
  {[commands |-> {v1, Url}, uses |-> {"history.undo"}, operations |-> 3, meanwhile |-> 0,
    controls |-> 1, checkpointEvery |-> 100]}
===============================================================================

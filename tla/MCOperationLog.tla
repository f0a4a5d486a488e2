---------------------------- MODULE MCOperationLog ----------------------------
(***************************************************************************)
(* Small instances of OperationLog.                                        *)
(***************************************************************************)
EXTENDS OperationLog

\* A bound on the environment: a write that fails in one load of the page, or a
\* hidden page and a reload.
OneMishap == used.failures > 0 => used.flushes = 0 /\ used.loads = 1

MCSpec == Init /\ [][Next /\ OneMishap']_vars /\ WF_vars(Progress)
=============================================================================

----------------------------- MODULE MCWatcher -----------------------------
(* Small instances of Watcher.                                             *)
EXTENDS Watcher

CONSTANTS d1, d2, x1, x2, x3

\* Two executions, one of which may be mined in either of two transactions.
OneRebundled ==
    {[key |-> x1, digest |-> d1], [key |-> x3, digest |-> d1],
     [key |-> x2, digest |-> d2]}
=============================================================================

--------------------------- MODULE MCBlockWatcher ---------------------------
(***************************************************************************)
(* Instances of the block watcher for TLC.                                 *)
(***************************************************************************)
EXTENDS BlockWatcher

Genesis == [latest |-> FALSE, n |-> 0]

\* startAt: -4, four blocks before the latest one.
FourBeforeLatest == [latest |-> TRUE, n |-> -4]
=============================================================================

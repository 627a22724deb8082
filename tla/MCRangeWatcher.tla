--------------------------- MODULE MCRangeWatcher ---------------------------
(***************************************************************************)
(* Instances of the watchers with an end block for TLC.                    *)
(***************************************************************************)
EXTENDS RangeWatcher

Genesis == [latest |-> FALSE, n |-> 0]
=============================================================================

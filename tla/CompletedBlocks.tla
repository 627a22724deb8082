--------------------------- MODULE CompletedBlocks ---------------------------
(***************************************************************************)
(* What a checkpoint promises its watcher, with nothing said of how it     *)
(* stores it: a set of completed blocks that only grows, and a first block *)
(* that is fixed once a block is complete.                                 *)
(***************************************************************************)
EXTENDS Integers

CONSTANT Blocks      \* the block numbers

VARIABLES start,   \* the first block of interest, NoStart until one is chosen
          done     \* the blocks marked complete

NoStart == -1

Init == start = NoStart /\ done = {}

ChooseStart(b) ==
    /\ done = {}
    /\ start' = b
    /\ UNCHANGED done

Complete(from, to) ==
    /\ start # NoStart
    /\ from >= start
    /\ done' = done \cup (from .. to)
    /\ UNCHANGED start

Next == \/ \E b \in Blocks : ChooseStart(b)
        \/ \E from, to \in Blocks : Complete(from, to)

Spec == Init /\ [][Next]_<<start, done>>
=============================================================================

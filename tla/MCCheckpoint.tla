---------------------------- MODULE MCCheckpoint ----------------------------
(***************************************************************************)
(* A checkpoint over the blocks 0..7: every set of completed blocks, with  *)
(* every latest block and the chunk sizes and chunk limits 1..3.           *)
(***************************************************************************)
EXTENDS Checkpoint

Seven == 7
=============================================================================

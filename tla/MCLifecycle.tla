---------------------------- MODULE MCLifecycle -----------------------------
(* The process over a chain of two blocks.                                 *)
EXTENDS Lifecycle
=============================================================================

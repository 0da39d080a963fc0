-------------------------- MODULE MCTracePipeline --------------------------
(***************************************************************************)
(* Small instances of the pintool with the merge utility for TLC.          *)
(***************************************************************************)
EXTENDS TracePipeline

Single == {{0}}    \* one address lock
=============================================================================

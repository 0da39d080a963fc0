------------------------------ MODULE MCTracer ------------------------------
(***************************************************************************)
(* Small instances of the pintool for TLC.                                 *)
(***************************************************************************)
EXTENDS TracerProperties

Single   == {{0}}                  \* one address lock
Straddle == {{0}, {1}, {0, 1}}     \* two, and accesses over a block boundary
=============================================================================

----------------------------- MODULE MCIncTrace -----------------------------
(***************************************************************************)
(* Small instances of the test of the tool chain for TLC.                  *)
(***************************************************************************)
EXTENDS IncTrace

AllTids == 0 .. num_threads
=============================================================================

------------------------------ MODULE MCMerge ------------------------------
(***************************************************************************)
(* Small instances of the merge utility and of its test for TLC.           *)
(***************************************************************************)
EXTENDS MergeTest
=============================================================================

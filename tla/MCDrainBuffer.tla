--------------------------- MODULE MCDrainBuffer ---------------------------
(***************************************************************************)
(* A small instance of drain_buffer for TLC: inputs of every length from   *)
(* none to three buffers, their bytes told apart by their positions.       *)
(***************************************************************************)
EXTENDS DrainBuffer

Lengths == {[k \in 1 .. n |-> k] : n \in 0 .. 3 * capacity}
=============================================================================

--------------------------- MODULE MCThreadQueue ---------------------------
(***************************************************************************)
(* A small instance of the queue of a thread: lines as long as the first   *)
(* buffer and shorter ones, so that the ring wraps at every position and   *)
(* moves with its bytes split.                                             *)
(***************************************************************************)
EXTENDS ThreadQueue

SomeLines == {<<1>>, <<2, 1>>, <<2, 2, 1>>}
=============================================================================

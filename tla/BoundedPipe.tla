----------------------------- MODULE BoundedPipe -----------------------------
(***************************************************************************)
(* What drain_buffer promises to the programs on both sides of it: a pipe  *)
(* that holds at most Capacity bytes, keeps their order, loses none of     *)
(* them and ends when its input has ended and it is empty.                 *)
(***************************************************************************)
EXTENDS Integers, Sequences

CONSTANT Capacity

VARIABLES rest,    \* what the input still has
          held,    \* what the pipe holds
          output,
          closed   \* the output is complete

vars == <<rest, held, output, closed>>

Init ==
  /\ rest \in Seq(Nat)
  /\ held = <<>>
  /\ output = <<>>
  /\ closed = FALSE

\* Any number of bytes goes in, as long as they fit.
Put ==
  \E n \in 1 .. Len(rest) :
    /\ Len(held) + n <= Capacity
    /\ held' = held \o SubSeq(rest, 1, n)
    /\ rest' = SubSeq(rest, n + 1, Len(rest))
    /\ UNCHANGED <<output, closed>>

\* Any number of bytes comes out.
Get ==
  \E n \in 1 .. Len(held) :
    /\ output' = output \o SubSeq(held, 1, n)
    /\ held' = SubSeq(held, n + 1, Len(held))
    /\ UNCHANGED <<rest, closed>>

Close ==
  /\ rest = <<>> /\ held = <<>>
  /\ closed' = TRUE
  /\ UNCHANGED <<rest, held, output>>

Next == Put \/ Get \/ Close

Spec == Init /\ [][Next]_vars
=============================================================================

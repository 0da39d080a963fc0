------------------------------ MODULE FifoQueue ------------------------------
(***************************************************************************)
(* What thread_queue_t promises to merge(): a queue of lines of any size.  *)
(***************************************************************************)
EXTENDS Sequences

CONSTANT Lines

VARIABLES items,    \* the lines in the queue
          popped    \* the line the last dequeue returned

vars == <<items, popped>>

Init == items = <<>> /\ popped = <<>>

Enqueue(line) == items' = Append(items, line) /\ UNCHANGED popped

Dequeue == items # <<>> /\ popped' = Head(items) /\ items' = Tail(items)

Next == (\E line \in Lines : Enqueue(line)) \/ Dequeue

Spec == Init /\ [][Next]_vars
=============================================================================

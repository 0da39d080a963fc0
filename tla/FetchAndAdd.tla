---------------------------- MODULE FetchAndAdd ----------------------------
(***************************************************************************)
(* What the test programs ask of their counter: threads add one to it and  *)
(* get the value before, in one step, until that value is the limit.       *)
(***************************************************************************)
EXTENDS Naturals

CONSTANTS Threads, Limit

VARIABLES value, got

Init == value = 0 /\ got = [t \in Threads |-> 0]

Add(t) ==
  /\ got[t] < Limit
  /\ value' = value + 1
  /\ got' = [got EXCEPT ![t] = value]

Next == \E t \in Threads : Add(t)

Spec == Init /\ [][Next]_<<value, got>>
=============================================================================

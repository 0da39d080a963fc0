---------------------------- MODULE AtomicOrder ----------------------------
(***************************************************************************)
(* What the pintool promises about memory accesses (README, "Internals:    *)
(* Lamport Clock"): the timestamps of the trace order the accesses the way *)
(* the processor performed them.  An access takes a timestamp later than   *)
(* every access its thread performed before it and later than every access *)
(* already performed under any address lock it shares.                     *)
(*                                                                         *)
(* An access is announced with the locks it is over, before it does        *)
(* anything, and is performed over those.  An instruction and its trace    *)
(* entry are two events.  Most instructions are traced first, under their  *)
(* locks, so that entry and effect are one step here; a compare-and-swap   *)
(* takes effect first and is traced after, and until then nothing else may *)
(* be performed under its locks.                                           *)
(***************************************************************************)
EXTENDS Integers

CONSTANTS Threads,   \* threads of the traced program
          Locks,     \* indices of the address locks
          Nobody     \* the owner of what nobody owns

VARIABLES due,       \* thread -> locks of the access it is about to perform
          stamp,     \* lock -> timestamp of the last access performed under it
          last,      \* thread -> timestamp of the last access it performed
          open       \* lock -> thread whose performed access has no entry yet

vars == <<due, stamp, last, open>>

Init ==
  /\ due = [t \in Threads |-> {}]
  /\ stamp = [l \in Locks |-> 0]
  /\ last = [t \in Threads |-> 0]
  /\ open = [l \in Locks |-> Nobody]

\* The next instruction of the thread is an access over the locks F.
Begin(t, F) ==
  /\ due[t] = {} /\ F # {}
  /\ due' = [due EXCEPT ![t] = F]
  /\ UNCHANGED <<stamp, last, open>>

\* A compare-and-swap takes effect before it is traced.
TakeEffect(t) ==
  /\ due[t] # {}
  /\ \A l \in due[t] : open[l] = Nobody
  /\ open' = [l \in Locks |-> IF l \in due[t] THEN t ELSE open[l]]
  /\ UNCHANGED <<due, stamp, last>>

\* The access is in the trace, and performed, at time ts.
Perform(t, ts) ==
  /\ due[t] # {}
  /\ \/ \A l \in due[t] : open[l] = Nobody
     \/ \A l \in due[t] : open[l] = t
  /\ ts > last[t]
  /\ \A l \in due[t] : ts > stamp[l]
  /\ due' = [due EXCEPT ![t] = {}]
  /\ stamp' = [l \in Locks |-> IF l \in due[t] THEN ts ELSE stamp[l]]
  /\ last' = [last EXCEPT ![t] = ts]
  /\ open' = [l \in Locks |-> IF l \in due[t] THEN Nobody ELSE open[l]]

\* The timestamp is a free choice; the new value of "last" names it, so that
\* the model checker need not enumerate the naturals.
Next ==
  \E t \in Threads :
    \/ \E F \in SUBSET Locks : Begin(t, F)
    \/ TakeEffect(t)
    \/ Perform(t, last'[t])

Spec == Init /\ [][Next]_vars
=============================================================================

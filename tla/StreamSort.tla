----------------------------- MODULE StreamSort -----------------------------
(***************************************************************************)
(* What the merge utility promises (README, "Merge Utility"): it sorts a   *)
(* stream.  The lines of its input go in one after the other; each goes    *)
(* out again, save those it drops, when it is the earliest of the lines    *)
(* inside, and none that comes in later is earlier; at the end nothing is  *)
(* left inside.                                                            *)
(***************************************************************************)
EXTENDS Integers, Sequences, SequencesExt

CONSTANTS
  Lines,       \* records with a field "time"
  Dropped      \* the lines that do not go out

VARIABLES
  input,       \* the lines that have come in
  inside,      \* those that are to go out
  out,         \* those that have gone out
  done

vars == <<input, inside, out, done>>

Init == input = <<>> /\ inside = {} /\ out = <<>> /\ done = FALSE

Receive(line) ==
  /\ ~done
  /\ line \notin Dropped \cup inside
  /\ out # <<>> => line.time >= Last(out).time
  /\ input' = Append(input, line)
  /\ inside' = inside \cup {line}
  /\ UNCHANGED <<out, done>>

Drop(line) ==
  /\ ~done
  /\ line \in Dropped
  /\ input' = Append(input, line)
  /\ UNCHANGED <<inside, out, done>>

Emit(line) ==
  /\ ~done
  /\ line \in inside
  /\ \A other \in inside : line.time <= other.time
  /\ out' = Append(out, line)
  /\ inside' = inside \ {line}
  /\ UNCHANGED <<input, done>>

Finish ==
  /\ inside = {}
  /\ done' = TRUE
  /\ UNCHANGED <<input, inside, out>>

Next == (\E line \in Lines : Receive(line) \/ Drop(line) \/ Emit(line)) \/ Finish

Spec == Init /\ [][Next]_vars
=============================================================================

--------------------------- MODULE TraceContract ---------------------------
(***************************************************************************)
(* The interface between the two programs of the tool chain: what the      *)
(* pintool must write to the trace file for the merge utility to sort it   *)
(* as a stream (README, "Merge Utility"; header comment of merge.cpp).     *)
(* A line is a record [time, tid, what]; a file is a sequence of lines.    *)
(***************************************************************************)
EXTENDS Integers, Sequences, FiniteSetsExt

\* The thread id of a line written on behalf of an unregistered thread.
Unregistered == -1

TimesOf(file, tid) == {file[i].time : i \in {j \in DOMAIN file : file[j].tid = tid}}

\* The latest time the file shows for a thread, 0 if it shows none.
LastOf(file, tid) == Max({0} \cup TimesOf(file, tid))

Count(file, tid, what) ==
  Quantify(DOMAIN file, LAMBDA i : file[i].tid = tid /\ file[i].what = what)

\* Threads with a register line ("tr") and, so far, no finish line ("tf").
ActiveIn(file) ==
  {tid \in {file[i].tid : i \in DOMAIN file} :
     Count(file, tid, "tr") > Count(file, tid, "tf")}

\* Up to this time a reader may already have let lines go: the earliest of
\* the times last seen from the active threads, or every time in the file
\* when no thread is active.
Frontier(file) ==
  IF ActiveIn(file) = {}
  THEN Max({0} \cup {file[i].time : i \in DOMAIN file})
  ELSE Min({LastOf(file, tid) : tid \in ActiveIn(file)})

\* The lines that may come next: every thread's lines are in increasing time
\* order; a registered thread writes between its "tr" and its "tf"; a new
\* thread and an unregistered one come after everything that may be gone.
MayFollow(file, line) ==
  /\ line.time > LastOf(file, line.tid)
  /\ IF line.what = "tr" \/ line.tid = Unregistered
     THEN line.time > Frontier(file) /\ line.tid \notin ActiveIn(file)
     ELSE line.tid \in ActiveIn(file)

WellFormed(file) ==
  \A i \in DOMAIN file : MayFollow(SubSeq(file, 1, i - 1), file[i])
=============================================================================

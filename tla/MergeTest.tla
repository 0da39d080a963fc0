----------------------------- MODULE MergeTest -----------------------------
(***************************************************************************)
(* The test of the merge utility (merge_test/Test.py): the trace is sorted *)
(* by the merge utility and by the system's sort, and the two results are  *)
(* compared.                                                               *)
(***************************************************************************)
EXTENDS Merge, CompareMerge

CONSTANT MaxDamaged   \* bound: lines in an output that is damaged

\* sort -n takes lines of equal time in the order of their text, here of their
\* thread ids.
SortsBefore(a, b) == a.time < b.time \/ (a.time = b.time /\ a.tid < b.tid)

\* Where a line goes among sorted ones: behind those it does not sort before.
PlaceIn(lines, line) ==
  CHOOSE k \in 1 .. Len(lines) + 1 :
    \A i \in DOMAIN lines : i < k <=> ~SortsBefore(line, lines[i])

\* my_sort.sh: sort -n, then sed, which deletes sync lines.
my_sort(file) ==
  LET sorted[n \in 0 .. Len(file)] ==     \* the first n lines
        IF n = 0 THEN <<>>
        ELSE LET lines == sorted[n - 1]
             IN IF file[n].what = "thread_sync" THEN lines
                ELSE InsertAt(lines, PlaceIn(lines, file[n]), file[n])
  IN sorted[Len(file)]

\* test1: the merge utility succeeds, and its output compares equal.
test1 == pc = "done" /\ compare(my_sort(trace), out).equal

(***************************************************************************)
(* Properties                                                              *)
(***************************************************************************)
\* No run of the test fails on a file that the pintool has finished.
TestPasses ==
  pc \in {"done", "left", "failed"} /\ Contract!ActiveIn(trace) = {} => test1

\* What a wrong merge utility might have written instead of "file": a line is
\* lost, written twice, written too late or with the time of another.
Damaged(file) ==
  {RemoveAt(file, i) : i \in DOMAIN file}
    \cup {InsertAt(file, i, file[i]) : i \in DOMAIN file}
    \cup {[file EXCEPT ![i] = file[i + 1], ![i + 1] = file[i]] : i \in 1 .. Len(file) - 1}
    \cup {[file EXCEPT ![i].time = file[j].time] : i, j \in DOMAIN file}

InOrder(file) ==
  \A i \in DOMAIN file : file[i].time > 0 /\ (i > 1 => file[i - 1].time <= file[i].time)

\* The comparison says equal exactly of files that hold the same lines in the
\* order of their times: it takes no wrong output for a right one, nor the
\* other way round.
CompareIsExact ==
  pc = "done" /\ Len(out) <= MaxDamaged =>
    LET sorted == my_sort(trace)
    IN \A file \in Damaged(out) :
         compare(sorted, file).equal <=> InOrder(file) /\ ToBag(file) = ToBag(sorted)

UpTo(file, time) == Restrict(ToBag(file), {line \in ToSet(file) : line.time <= time})

\* Of sorted files that differ the times reported enclose the place: the files
\* agree on all that is before these times, and differ up to the time that
\* follows the earlier of them in one of the files.
CompareTellsWhere ==
  pc = "done" /\ Len(out) <= MaxDamaged =>
    LET sorted == my_sort(trace)
    IN \A file \in Damaged(out) :
         LET result == compare(sorted, file)
             earlier == Smallest({result.time1, result.time2})
             later == {line.time : line \in ToSet(sorted \o file)} \ 0 .. earlier
         IN ~result.equal /\ InOrder(file) =>
              /\ UpTo(sorted, earlier - 1) = UpTo(file, earlier - 1)
              /\ UpTo(sorted, Smallest(later)) # UpTo(file, Smallest(later))

\* "f1 timestamp where first differ, f2 timestamp where first differ": at the
\* times reported the files have come to differ.  The code does otherwise
\* (README, "Disagreements").
ReportsDifference ==
  pc = "done" /\ Len(out) <= MaxDamaged =>
    LET sorted == my_sort(trace)
    IN \A file \in Damaged(out) :
         LET result == compare(sorted, file)
         IN ~result.equal /\ InOrder(file) =>
              \A time \in {result.time1, result.time2} : UpTo(sorted, time) # UpTo(file, time)
=============================================================================

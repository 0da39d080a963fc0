---------------------------- MODULE CompareMerge ----------------------------
(***************************************************************************)
(* merge_test/CompareMerge.py: the comparison that decides whether the     *)
(* merge utility has sorted a trace.  Two files are equal if they have the *)
(* same times in the same order and, for each time, the same lines in any  *)
(* order.  A file is a sequence of records with a field "time".            *)
(***************************************************************************)
EXTENDS Integers, Sequences, SequencesExt, TLC

\* Mutation of TimeBefore: the times are not set when the bunches agree.
TimeNotSet(f, i) == 0

\* The time of the bunch before position i, 0 at the beginning: f1_time and
\* f2_time.
TimeBefore(f, i) == IF i = 1 THEN 0 ELSE f[i - 1].time

\* create_bunch: where the lines with the time of line i end, and which lines
\* they are; at the end of the file there is none.
BunchEnd(f, i) ==
  CHOOSE j \in i + 1 .. Len(f) + 1 :
    /\ j = Len(f) + 1 \/ f[j].time # f[i].time
    /\ \A k \in i .. j - 1 : f[k].time = f[i].time

Bunch(f, i) == SubSeq(f, i, BunchEnd(f, i) - 1)

\* Mutation of SameLines: lines that occur more than once count once.
SameLinesOnce(b1, b2) == ToSet(b1) = ToSet(b2)

\* The bunches are sorted before they are compared.
SameLines(b1, b2) == ToBag(b1) = ToBag(b2)

\* The four conditions of the loop.
Agree(f1, i1, f2, i2) ==
  /\ f1[i1].time > TimeBefore(f1, i1)
  /\ f2[i2].time > TimeBefore(f2, i2)
  /\ SameLines(Bunch(f1, i1), Bunch(f2, i2))
  /\ f1[i1].time = f2[i2].time

Different(f1, i1, f2, i2, line1, line2) ==
  [equal |-> FALSE, time1 |-> TimeBefore(f1, i1), time2 |-> TimeBefore(f2, i2),
   line1 |-> line1, line2 |-> line2]

\* One turn of the loop, at line i1 of the one file and line i2 of the other;
\* rest is what the turns from later lines on return.  If bunches differ, the
\* lines returned are those behind them already, and the times those before them.
Turn(f1, i1, f2, i2, rest) ==
  LET end1 == i1 = Len(f1) + 1
      end2 == i2 = Len(f2) + 1
  IN CASE end1 /\ end2 -> [equal |-> TRUE]
       [] end1 # end2 -> Different(f1, i1, f2, i2, i1, i2)
       [] ~end1 /\ ~end2 ->
            IF Agree(f1, i1, f2, i2)
            THEN rest[<<BunchEnd(f1, i1), BunchEnd(f2, i2)>>]
            ELSE Different(f1, i1, f2, i2, BunchEnd(f1, i1), BunchEnd(f2, i2))

compare(f1, f2) ==
  LET from[at \in (1 .. Len(f1) + 1) \X (1 .. Len(f2) + 1)] == Turn(f1, at[1], f2, at[2], from)
  IN from[<<1, 1>>]
=============================================================================

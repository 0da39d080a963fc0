------------------------- MODULE DrainBufferProofs -------------------------
(***************************************************************************)
(* Theorems about drain_buffer, for any capacity and any input: its two    *)
(* threads never touch the same buffer at once, and together they are a    *)
(* pipe.                                                                   *)
(***************************************************************************)
EXTENDS DrainBuffer, SequenceTheorems, TLAPS

USE CapacityAssumption, InputsAssumption

LEMMA CapacityPositive == capacity \in Nat /\ capacity > 0
BY DEF capacity

(***************************************************************************)
(* The rounds of the two threads                                           *)
(***************************************************************************)
\* Which places of one thread go with which of the other, and whose buffer is
\* whose: between the barriers of two rounds the threads are on different
\* buffers; after the second barrier one may have turned before the other.
PhaseInv ==
  /\ ri \in {0, 1} /\ wi \in {0, 1}
  /\ eof \in BOOLEAN /\ end_of_file \in BOOLEAN
  /\ reader \in ReaderPlaces /\ writer \in WriterPlaces
  /\ reader \in {"round", "read", "barrier1"} =>
       /\ ~eof /\ writer \in {"write", "barrier1", "turn"}
       /\ writer = "turn" <=> ri = wi
  /\ reader \in {"between", "barrier2"} <=> writer = "barrier2"
  /\ reader \in {"between", "barrier2"} => ri # wi
  /\ reader = "between" => ~eof
  /\ reader = "turn" =>
       /\ writer = "turn" <=> ri # wi
       /\ writer = "barrier1" => ~eof
  /\ reader = "returned" => eof /\ writer \in {"turn", "write", "returned"}
  /\ writer = "returned" => eof

LEMMA PhaseInit == Init => PhaseInv
<1> SUFFICES ASSUME Init PROVE PhaseInv
  OBVIOUS
<1>1. reader = "round" /\ writer = "write" /\ ri = 0 /\ wi = 1
  BY DEF Init
<1>2. ~eof /\ eof \in BOOLEAN /\ end_of_file \in BOOLEAN
  BY DEF Init
<1> QED
  BY <1>1, <1>2 DEF PhaseInv, ReaderPlaces, WriterPlaces

LEMMA PhaseStep == PhaseInv /\ [Next]_vars => PhaseInv'
<1> SUFFICES ASSUME PhaseInv, [Next]_vars PROVE PhaseInv'
  OBVIOUS
<1> USE DEF PhaseInv, ReaderPlaces, WriterPlaces, shared, readers, writers, Other
<1>1. CASE UNCHANGED vars
  BY <1>1 DEF vars
<1>2. CASE BeginRound
  BY <1>2 DEF BeginRound
<1>3. ASSUME NEW n \in 1 .. Len(stdin), Read(n) PROVE PhaseInv'
  BY <1>3 DEF Read
<1>4. CASE ReadEnd
  BY <1>4 DEF ReadEnd
<1>5. CASE ReaderArrives
  BY <1>5 DEF ReaderArrives
<1>6. CASE PublishEof
  <2>1. reader = "between" /\ reader' = "barrier2" /\ writer = "barrier2" /\ ri # wi
        /\ UNCHANGED <<writer, ri, wi>>
    BY <1>6 DEF PublishEof
  <2>2. eof' \in BOOLEAN /\ end_of_file' \in BOOLEAN
    BY <1>6 DEF PublishEof
  <2> QED BY <2>1, <2>2
<1>7. CASE ReaderTurns
  BY <1>7 DEF ReaderTurns
<1>8. ASSUME NEW n \in 1 .. Len(bufs[wi]), Write(n) PROVE PhaseInv'
  BY <1>8 DEF Write
<1>9. CASE WriterArrives
  BY <1>9 DEF WriterArrives
<1>10. CASE WriterTurns
  BY <1>10 DEF WriterTurns, NextWrite
<1>11. CASE Barrier1
  BY <1>11 DEF Barrier1, Meet
<1>12. CASE Barrier2
  BY <1>12 DEF Barrier2, Meet
<1>13. CASE Done
  BY <1>1, <1>13 DEF Done
<1> QED
  BY <1>1, <1>2, <1>3, <1>4, <1>5, <1>6, <1>7, <1>8, <1>9, <1>10, <1>11, <1>12, <1>13
  DEF Next, Reader, Writer, Barrier

\* The invariant for every behaviour.
THEOREM PhasesAgree == Spec => []PhaseInv
BY PhaseInit, PhaseStep, PTL DEF Spec

\* NoSharing: the threads never work on the same buffer, nor on the flag.
THEOREM BuffersAreNotShared == Spec => []NoSharing
<1>1. PhaseInv => NoSharing
  BY DEF PhaseInv, NoSharing, ReaderPlaces, WriterPlaces
<1> QED
  BY <1>1, PhasesAgree, PTL

(***************************************************************************)
(* What the buffers hold                                                   *)
(***************************************************************************)
\* The type invariant, and what makes "drained" and "at the end" final: the
\* reader learns of the end of the input only once all of it is in buffers,
\* and the writer leaves a buffer only when all of it is written.
DataInv ==
  /\ TypeOK
  /\ end_of_file => stdin = <<>>
  /\ eof => end_of_file
  /\ writer \in {"barrier1", "barrier2", "returned"} => start = Len(bufs[wi])

LEMMA DataInit == Init => DataInv
<1> SUFFICES ASSUME Init PROVE DataInv
  OBVIOUS
<1>1. input \in Seq(Nat) /\ stdin \in Seq(Nat) /\ stdout \in Seq(Nat)
  BY EmptySeq DEF Init
<1>2. /\ bufs \in [{0, 1} -> Seq(Nat)]
      /\ \A i \in {0, 1} : Len(bufs[i]) = 0
  BY EmptySeq DEF Init
<1>3. /\ ~eof /\ ~end_of_file /\ eof \in BOOLEAN /\ end_of_file \in BOOLEAN
  BY DEF Init
<1>4. reader = "round" /\ writer = "write" /\ ri = 0 /\ wi = 1 /\ start = 0
  BY DEF Init
<1> QED
  BY <1>1, <1>2, <1>3, <1>4, CapacityPositive DEF DataInv, TypeOK, ReaderPlaces, WriterPlaces

LEMMA DataStep == PhaseInv /\ DataInv /\ [Next]_vars => DataInv'
<1> SUFFICES ASSUME PhaseInv, DataInv, [Next]_vars PROVE DataInv'
  OBVIOUS
<1> USE CapacityPositive
    DEF DataInv, TypeOK, ReaderPlaces, WriterPlaces, shared, readers, writers, Other
<1>1. CASE UNCHANGED vars
  BY <1>1 DEF vars
<1>2. CASE BeginRound
  <2>1. ri # wi \/ writer = "turn"
    BY <1>2 DEF BeginRound, PhaseInv
  <2>2. bufs' \in [{0, 1} -> Seq(Nat)] /\ \A i \in {0, 1} : Len(bufs'[i]) <= capacity
    BY <1>2, EmptySeq DEF BeginRound
  <2> QED BY <1>2, <2>1, <2>2 DEF BeginRound
<1>3. ASSUME NEW n \in 1 .. Len(stdin), Read(n) PROVE DataInv'
  <2>1. ri # wi \/ writer = "turn"
    BY <1>3 DEF Read, PhaseInv
  <2>2. /\ SubSeq(stdin, 1, n) \in Seq(Nat) /\ Len(SubSeq(stdin, 1, n)) = n
        /\ stdin' \in Seq(Nat)
        /\ n = Len(stdin) => stdin' = <<>>
    <3>1. \A i \in 1 .. Len(stdin) : stdin[i] \in Nat
      OBVIOUS
    <3>2. stdin' = SubSeq(stdin, n + 1, Len(stdin))
      BY <1>3 DEF Read
    <3>3. n = Len(stdin) => stdin' = <<>>
      BY <3>2, SubSeqEmpty
    <3>4. stdin' \in Seq(Nat)
      BY <3>1, <3>2, SubSeqProperties, Len(stdin) \in Nat
    <3>5. SubSeq(stdin, 1, n) \in Seq(Nat) /\ Len(SubSeq(stdin, 1, n)) = n
      BY <3>1, SubSeqProperties, Len(stdin) \in Nat
    <3> QED BY <3>3, <3>4, <3>5
  <2>3. bufs[ri] \in Seq(Nat)
    OBVIOUS
  <2>4. /\ bufs[ri] \o SubSeq(stdin, 1, n) \in Seq(Nat)
        /\ Len(bufs[ri] \o SubSeq(stdin, 1, n)) = Len(bufs[ri]) + n
    BY <2>2, <2>3, ConcatProperties
  <2>5. bufs' = [bufs EXCEPT ![ri] = bufs[ri] \o SubSeq(stdin, 1, n)]
    BY <1>3 DEF Read
  <2>6. Len(bufs[ri]) + n <= capacity
    BY <1>3, <2>3 DEF Read, Room
  <2>7. bufs' \in [{0, 1} -> Seq(Nat)] /\ \A i \in {0, 1} : Len(bufs'[i]) <= capacity
    BY <2>4, <2>5, <2>6
  <2>8. end_of_file' \in BOOLEAN /\ (end_of_file' => n = Len(stdin))
    BY <1>3 DEF Read
  <2>9. ~eof
    BY <1>3 DEF Read, PhaseInv
  <2>10. writer # "turn" => bufs'[wi] = bufs[wi]
    BY <2>1, <2>5
  <2>11. UNCHANGED <<input, stdout, eof, reader, writer, ri, wi, start>>
    BY <1>3 DEF Read
  <2> QED BY <2>2, <2>7, <2>8, <2>9, <2>10, <2>11
<1>4. CASE ReadEnd
  BY <1>4 DEF ReadEnd
<1>5. CASE ReaderArrives
  BY <1>5 DEF ReaderArrives
<1>6. CASE PublishEof
  BY <1>6 DEF PublishEof
<1>7. CASE ReaderTurns
  BY <1>7 DEF ReaderTurns
<1>8. ASSUME NEW n \in 1 .. Len(bufs[wi]), Write(n) PROVE DataInv'
  <2>1. bufs[wi] \in Seq(Nat) /\ Len(bufs[wi]) \in Nat
    OBVIOUS
  <2>2. SubSeq(bufs[wi], start + 1, start + n) \in Seq(Nat)
    <3>1. start + n <= Len(bufs[wi])
      BY <1>8, <2>1 DEF Write
    <3>2. \A i \in start + 1 .. start + n : bufs[wi][i] \in Nat
      BY <2>1, <3>1, SMTT(60)
    <3> QED BY <3>2, SubSeqProperties
  <2>3. stdout' \in Seq(Nat)
    BY <1>8, <2>2, ConcatProperties DEF Write
  <2> QED BY <1>8, <2>1, <2>3 DEF Write
<1>9. CASE WriterArrives
  BY <1>9 DEF WriterArrives, IsDrained
<1>10. CASE WriterTurns
  BY <1>10 DEF WriterTurns, NextWrite
<1>11. CASE Barrier1
  BY <1>11 DEF Barrier1, Meet
<1>12. CASE Barrier2
  BY <1>12 DEF Barrier2, Meet
<1>13. CASE Done
  BY <1>1, <1>13 DEF Done
<1> QED
  BY <1>1, <1>2, <1>3, <1>4, <1>5, <1>6, <1>7, <1>8, <1>9, <1>10, <1>11, <1>12, <1>13
  DEF Next, Reader, Writer, Barrier

THEOREM DataIsKept == Spec => []DataInv
BY DataInit, DataStep, PhasesAgree, PTL DEF Spec

\* TypeOK: in particular no buffer ever takes more than its capacity.
THEOREM TypeCorrect == Spec => []TypeOK
<1>1. DataInv => TypeOK
  BY DEF DataInv
<1> QED
  BY <1>1, DataIsKept, PTL

(***************************************************************************)
(* The two buffers are a pipe                                              *)
(***************************************************************************)
LEMMA Regroup ==
  ASSUME NEW p \in Seq(Nat), NEW q \in Seq(Nat), NEW r \in Seq(Nat)
  PROVE  p \o (q \o r) = (p \o q) \o r
BY ConcatAssociative

\* What is left of a buffer after its first i bytes begins with the next n.
LEMMA Cut ==
  ASSUME NEW s \in Seq(Nat), NEW i \in Nat, NEW n \in Nat, i + n <= Len(s), n > 0
  PROVE  SubSeq(s, i + 1, i + n) \o SubSeq(s, i + n + 1, Len(s)) = SubSeq(s, i + 1, Len(s))
<1>1. /\ i + 1 \in 1 .. Len(s) + 1
      /\ i + n \in (i + 1) - 1 .. Len(s)
      /\ Len(s) \in i + n .. Len(s)
  BY Len(s) \in Nat
<1> QED BY <1>1, ConcatAdjacentSubSeq

\* Taking the front of a concatenation leaves the rest.
LEMMA TakeFront ==
  ASSUME NEW p \in Seq(Nat), NEW q \in Seq(Nat), Len(p) > 0
  PROVE  /\ SubSeq(p \o q, 1, Len(p)) = p
         /\ SubSeq(p \o q, Len(p) + 1, Len(p \o q)) = q
<1>1. Len(p) \in Nat /\ Len(q) \in Nat /\ Len(p \o q) = Len(p) + Len(q)
  BY ConcatProperties
<1>2. SubSeq(p \o q, 1, Len(p)) = p
  <2>1. SubSeq(p \o q, 1, Len(p)) = SubSeq(p, 1, Len(p))
    BY <1>1, SubSeqOfConcat1
  <2> QED BY <2>1, SubSeqFull
<1>3. CASE Len(q) = 0
  <2>1. q = <<>>
    BY <1>3, EmptySeq
  <2>2. SubSeq(p \o q, Len(p) + 1, Len(p \o q)) = <<>>
    BY <1>1, <1>3, SubSeqEmpty
  <2> QED BY <1>2, <2>1, <2>2
<1>4. CASE Len(q) > 0
  <2>1. SubSeq(p \o q, Len(p) + 1, Len(p) + Len(q))
        = SubSeq(q, Len(p) + 1 - Len(p), Len(p) + Len(q) - Len(p))
    BY <1>1, <1>4, SubSeqOfConcat2
  <2>2. SubSeq(q, Len(p) + 1 - Len(p), Len(p) + Len(q) - Len(p)) = SubSeq(q, 1, Len(q))
    BY <1>1
  <2> QED BY <1>1, <1>2, <2>1, <2>2, SubSeqFull
<1> QED BY <1>1, <1>3, <1>4

\* What is drained and filled are sequences that fit a buffer each.
LEMMA HeldFits ==
  ASSUME DataInv
  PROVE  /\ Drained \in Seq(Nat) /\ Len(Drained) <= capacity
         /\ Filled \in Seq(Nat) /\ Len(Filled) <= capacity
<1> USE CapacityPositive DEF DataInv, TypeOK, Other
<1>1. Filled \in Seq(Nat) /\ Len(Filled) <= capacity
  BY EmptySeq DEF Filled
<1>2. CASE writer = "turn"
  BY <1>1, <1>2 DEF Drained
<1>3. CASE writer # "turn"
  <2>1. bufs[wi] \in Seq(Nat) /\ Len(bufs[wi]) \in Nat /\ Len(bufs[wi]) <= capacity
    OBVIOUS
  <2>2. \A i \in start + 1 .. Len(bufs[wi]) : bufs[wi][i] \in Nat
    BY <2>1
  <2>3. SubSeq(bufs[wi], start + 1, Len(bufs[wi])) \in Seq(Nat)
    BY <2>1, <2>2, SubSeqProperties
  <2>4. Len(SubSeq(bufs[wi], start + 1, Len(bufs[wi])))
        = IF start + 1 <= Len(bufs[wi]) THEN Len(bufs[wi]) - (start + 1) + 1 ELSE 0
    BY <2>1, <2>2, SubSeqProperties
  <2>5. Len(SubSeq(bufs[wi], start + 1, Len(bufs[wi]))) <= capacity
    BY <2>1, <2>4
  <2> QED BY <1>1, <1>3, <2>3, <2>5 DEF Drained
<1> QED BY <1>2, <1>3

\* A buffer that has been written to the end holds nothing any more.
LEMMA NothingDrained ==
  ASSUME DataInv, writer # "turn", start = Len(bufs[wi])
  PROVE  Drained = <<>>
<1>1. Len(bufs[wi]) \in Nat
  BY DEF DataInv, TypeOK
<1>2. SubSeq(bufs[wi], start + 1, Len(bufs[wi])) = <<>>
  BY <1>1, SubSeqEmpty
<1> QED BY <1>2 DEF Drained

LEMMA PipeInit == Init => Pipe!Init
<1> SUFFICES ASSUME Init PROVE Pipe!Init
  OBVIOUS
<1>1. DataInv
  BY DataInit
<1>2. stdin \in Seq(Nat) /\ stdout = <<>> /\ reader = "round" /\ writer = "write"
  BY DEF Init
<1>3. start = Len(bufs[wi])
  BY EmptySeq DEF Init
<1>4. Drained = <<>> /\ Filled = <<>>
  BY <1>1, <1>2, <1>3, NothingDrained DEF Filled
<1>5. Drained \o Filled = <<>>
  BY <1>4, ConcatEmptySeq, EmptySeq
<1> QED BY <1>2, <1>5 DEF Pipe!Init

\* Only Read, Write and the last return change what the pipe shows.
LEMMA PipeStep ==
  PhaseInv /\ DataInv /\ DataInv' /\ [Next]_vars => [Pipe!Next]_Pipe!vars
<1> SUFFICES ASSUME PhaseInv, DataInv, DataInv', [Next]_vars
             PROVE  [Pipe!Next]_Pipe!vars
  OBVIOUS
<1> USE DEF shared, readers, writers
<1>a. ASSUME UNCHANGED <<stdin, stdout>>, Drained' \o Filled' = Drained \o Filled,
             (reader' = "returned" /\ writer' = "returned")
               <=> (reader = "returned" /\ writer = "returned")
      PROVE  UNCHANGED Pipe!vars
  BY <1>a DEF Pipe!vars
<1>b. /\ Drained \in Seq(Nat) /\ Len(Drained) <= capacity
      /\ Filled \in Seq(Nat) /\ Len(Filled) <= capacity
      /\ Len(Drained) \in Nat /\ Len(Filled) \in Nat
      /\ Len(Drained \o Filled) = Len(Drained) + Len(Filled)
  BY HeldFits, ConcatProperties
<1>1. CASE UNCHANGED vars
  <2>1. Drained' = Drained /\ Filled' = Filled
    BY <1>1 DEF vars, Drained, Filled
  <2> QED BY <1>1, <1>a, <2>1 DEF vars
<1>2. CASE BeginRound
  <2>1. (writer # "turn" /\ ri # wi) \/ (writer = "turn" /\ ri = wi)
    BY <1>2 DEF BeginRound, PhaseInv
  <2>2. Drained' = Drained
    BY <1>2, <2>1 DEF BeginRound, Drained, Other, DataInv, TypeOK
  <2>3. Filled = <<>> /\ Filled' = <<>>
    BY <1>2 DEF BeginRound, Filled, DataInv, TypeOK
  <2> QED BY <1>2, <1>a, <2>2, <2>3 DEF BeginRound
<1>3. ASSUME NEW n \in 1 .. Len(stdin), Read(n) PROVE Pipe!Next
  <2> DEFINE new == SubSeq(stdin, 1, n)
  <2>1. (writer # "turn" /\ ri # wi) \/ (writer = "turn" /\ ri = wi)
    BY <1>3 DEF Read, PhaseInv
  <2>2. Drained' = Drained
    BY <1>3, <2>1 DEF Read, Drained, Other, DataInv, TypeOK
  <2>3. Filled = bufs[ri] /\ Filled' = bufs[ri] \o new
    BY <1>3 DEF Read, Filled, DataInv, TypeOK
  <2>4. new \in Seq(Nat)
    <3>1. stdin \in Seq(Nat) /\ Len(stdin) \in Nat
      BY DEF DataInv, TypeOK
    <3>2. \A i \in 1 .. n : stdin[i] \in Nat
      BY <3>1
    <3> QED BY <3>2, SubSeqProperties
  <2>5. Drained \o (Filled \o new) = (Drained \o Filled) \o new
    <3> HIDE DEF new
    <3> QED BY <1>b, <2>3, <2>4, Regroup
  <2>6. Len(Drained \o Filled) + n <= 2 * capacity
    <3>1. Len(Filled) + n <= capacity
      BY <1>3, <1>b, <2>3, CapacityPositive DEF Read, Room
    <3> QED BY <1>b, <3>1, CapacityPositive
  <2>7. /\ stdin' = SubSeq(stdin, n + 1, Len(stdin))
        /\ UNCHANGED <<stdout, reader, writer>>
    BY <1>3 DEF Read
  <2>8. Drained' \o Filled' = (Drained \o Filled) \o new
    BY <2>2, <2>3, <2>5
  <2> QED BY <2>6, <2>7, <2>8 DEF Pipe!Next, Pipe!Put
<1>4. CASE ReadEnd
  BY <1>4, <1>a DEF ReadEnd, Drained, Filled
<1>5. CASE ReaderArrives
  BY <1>5, <1>a DEF ReaderArrives, Drained, Filled
<1>6. CASE PublishEof
  BY <1>6, <1>a DEF PublishEof, Drained, Filled
<1>7. CASE ReaderTurns
  <2>1. /\ reader = "turn" /\ UNCHANGED <<shared, stdin, end_of_file, writers>>
        /\ reader' \in {"round", "returned"}
        /\ reader' = "returned" => eof
    BY <1>7 DEF ReaderTurns
  <2>2. Drained' = Drained /\ Filled' = <<>> /\ Filled = <<>>
    BY <2>1 DEF Drained, Filled
  <2>3. CASE reader' = "returned" /\ writer = "returned"
    <3>1. stdin = <<>> /\ start = Len(bufs[wi])
      BY <2>1, <2>3 DEF DataInv
    <3>2. Drained \o Filled = <<>>
      BY <2>2, <2>3, <3>1, NothingDrained, ConcatEmptySeq, EmptySeq
    <3>3. Drained' \o Filled' = Drained \o Filled
      BY <2>2
    <3> QED BY <2>1, <2>3, <3>1, <3>2, <3>3 DEF Pipe!Next, Pipe!Close
  <2>4. CASE ~(reader' = "returned" /\ writer = "returned")
    BY <1>a, <2>1, <2>2, <2>4
  <2> QED BY <2>3, <2>4
<1>8. ASSUME NEW n \in 1 .. Len(bufs[wi]), Write(n) PROVE Pipe!Next
  <2> DEFINE buf == bufs[wi]
             out == SubSeq(buf, start + 1, start + n)
             left == SubSeq(buf, start + n + 1, Len(buf))
  <2>1. /\ buf \in Seq(Nat) /\ Len(buf) \in Nat /\ start \in Nat
        /\ start + n <= Len(buf) /\ writer = "write" /\ n \in Nat /\ n > 0
    BY <1>8 DEF Write, DataInv, TypeOK
  <2>2. out \in Seq(Nat) /\ Len(out) = n /\ left \in Seq(Nat)
    <3>1. \A i \in start + 1 .. Len(buf) : buf[i] \in Nat
      BY <2>1
    <3>2. out \in Seq(Nat) /\ Len(out) = n
      BY <2>1, <3>1, SubSeqProperties
    <3>3. left \in Seq(Nat)
      BY <2>1, <3>1, SubSeqProperties
    <3> QED BY <3>2, <3>3
  <2>3. Drained = out \o left
    <3>1. out \o left = SubSeq(buf, start + 1, Len(buf))
      BY <2>1, Cut
    <3> QED BY <2>1, <3>1 DEF Drained
  <2>4. Drained' = left /\ Filled' = Filled
    BY <1>8, <2>1 DEF Write, Drained, Filled
  <2>5. stdout' = stdout \o out /\ UNCHANGED <<stdin, reader, writer>>
    BY <1>8 DEF Write
  <2> HIDE DEF out, left
  <2>6. Drained \o Filled = out \o (left \o Filled) /\ left \o Filled \in Seq(Nat)
    <3>1. out \o (left \o Filled) = (out \o left) \o Filled
      BY <1>b, <2>2, Regroup
    <3>2. left \o Filled \in Seq(Nat)
      BY <1>b, <2>2, ConcatProperties
    <3> QED BY <2>3, <3>1, <3>2
  <2>7. /\ SubSeq(Drained \o Filled, 1, n) = out
        /\ SubSeq(Drained \o Filled, n + 1, Len(Drained \o Filled)) = left \o Filled
    <3> DEFINE after == left \o Filled
    <3>1. after \in Seq(Nat) /\ Drained \o Filled = out \o after
      BY <2>6
    <3> HIDE DEF after
    <3>2. /\ SubSeq(out \o after, 1, Len(out)) = out
          /\ SubSeq(out \o after, Len(out) + 1, Len(out \o after)) = after
      BY <2>2, <3>1, TakeFront
    <3>3. /\ SubSeq(Drained \o Filled, 1, n) = out
          /\ SubSeq(Drained \o Filled, n + 1, Len(Drained \o Filled)) = after
      BY <2>2, <3>1, <3>2
    <3> QED BY <3>3 DEF after
  <2>8. n \in 1 .. Len(Drained \o Filled)
    BY <1>b, <2>2, <2>3, ConcatProperties, LenProperties
  <2>9. Pipe!Get
    BY <2>4, <2>5, <2>7, <2>8 DEF Pipe!Get
  <2> QED BY <2>9 DEF Pipe!Next
<1>9. CASE WriterArrives
  <2>1. /\ writer = "write" /\ start = Len(bufs[wi])
        /\ UNCHANGED <<shared, readers, stdout, wi, start>>
        /\ writer' \in {"barrier1", "returned"}
        /\ writer' = "returned" => eof
    BY <1>9 DEF WriterArrives, IsDrained, DataInv, TypeOK
  <2>2. Drained' = Drained /\ Filled' = Filled
    BY <2>1 DEF Drained, Filled
  <2>3. CASE reader = "returned" /\ writer' = "returned"
    <3>1. stdin = <<>> /\ Filled = <<>>
      BY <2>1, <2>3 DEF DataInv, Filled
    <3>2. Drained \o Filled = <<>>
      BY <2>1, <3>1, NothingDrained, ConcatEmptySeq, EmptySeq
    <3>3. Drained' \o Filled' = Drained \o Filled
      BY <2>2
    <3> QED BY <2>1, <2>3, <3>1, <3>2, <3>3 DEF Pipe!Next, Pipe!Close
  <2>4. CASE ~(reader = "returned" /\ writer' = "returned")
    BY <1>a, <2>1, <2>2, <2>4
  <2> QED BY <2>3, <2>4
<1>10. CASE WriterTurns
  <2>1. /\ writer = "turn" /\ writer' = "write" /\ wi' = Other(wi) /\ start' = 0
        /\ UNCHANGED <<shared, readers, stdout>>
    BY <1>10 DEF WriterTurns, NextWrite
  <2>2. bufs[Other(wi)] \in Seq(Nat)
    BY DEF DataInv, TypeOK, Other
  <2>3. Drained = bufs[Other(wi)] /\ Drained' = SubSeq(bufs[Other(wi)], 1, Len(bufs[Other(wi)]))
    BY <2>1 DEF Drained
  <2>4. Drained' = Drained /\ Filled' = Filled
    BY <2>1, <2>2, <2>3, SubSeqFull DEF Filled
  <2> QED BY <1>a, <2>1, <2>4
<1>11. CASE Barrier1
  BY <1>11, <1>a DEF Barrier1, Meet, Drained, Filled
<1>12. CASE Barrier2
  <2>1. /\ reader = "barrier2" /\ writer = "barrier2" /\ reader' = "turn" /\ writer' = "turn"
        /\ UNCHANGED <<shared, stdin, end_of_file, ri, stdout, wi, start>>
    BY <1>12 DEF Barrier2, Meet
  <2>2. start = Len(bufs[wi])
    BY <2>1 DEF DataInv
  <2>3. Drained = <<>> /\ Filled = bufs[ri]
    BY <2>1, <2>2, NothingDrained DEF Filled
  <2>4. ri = Other(wi)
    BY <2>1 DEF PhaseInv, Other
  <2>5. Drained' = bufs[ri] /\ Filled' = <<>>
    BY <2>1, <2>4 DEF Drained, Filled
  <2>6. Drained' \o Filled' = Drained \o Filled
    BY <1>b, <2>3, <2>5, ConcatEmptySeq
  <2> QED BY <1>a, <2>1, <2>6
<1>13. CASE Done
  BY <1>1, <1>13 DEF Done
<1> QED
  BY <1>1, <1>2, <1>3, <1>4, <1>5, <1>6, <1>7, <1>8, <1>9, <1>10, <1>11, <1>12, <1>13
  DEF Next, Reader, Writer, Barrier

\* IsPipe: in order, nothing lost or repeated, never more than two buffers
\* held, and both threads returned only when all of the input is written.
THEOREM BuffersArePipe == Spec => IsPipe
BY PipeInit, PipeStep, PhasesAgree, DataIsKept, PTL DEF Spec, IsPipe, Pipe!Spec
=============================================================================

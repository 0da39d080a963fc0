----------------------------- MODULE DrainBuffer -----------------------------
(***************************************************************************)
(* drain_buffer.cpp: a reader thread fills one of two buffers from stdin   *)
(* while a writer thread drains the other to stdout; they meet at a        *)
(* barrier twice before they swap buffers, and share the flag "eof".       *)
(*                                                                         *)
(* fread and fwrite move any positive number of bytes, as the loops around *)
(* them allow for; fread finds the end of the input only by trying to read *)
(* past it.                                                                *)
(***************************************************************************)
EXTENDS Integers, Sequences

CONSTANTS
  TotalCapacity,   \* the argument of drain_buffer
  Inputs           \* the inputs considered

ASSUME CapacityAssumption == TotalCapacity \in Nat /\ TotalCapacity >= 2
ASSUME InputsAssumption == Inputs \subseteq Seq(Nat)

\* capacity of one buffer
capacity == TotalCapacity \div 2

VARIABLES
  stdin,        \* what is left of the input
  end_of_file,  \* feof(stdin)
  stdout,
  bufs,         \* the bytes of each buffer: end_cursor is their number
  eof,          \* shared: what the reader found between the barriers
  reader, writer,   \* where each thread is
  ri, wi,       \* the buffer of each thread's round: i % 2, (i + 1) % 2
  start,        \* writer: bytes of its buffer already written
  input         \* history: the whole input

shared == <<bufs, eof>>
readers == <<stdin, end_of_file, reader, ri>>
writers == <<stdout, writer, wi, start>>
vars == <<shared, readers, writers, input>>

Other(i) == 1 - i

Init ==
  /\ input \in Inputs
  /\ stdin = input
  /\ end_of_file = FALSE
  /\ stdout = <<>>
  /\ bufs = [i \in {0, 1} |-> <<>>]
  /\ eof = FALSE
  /\ reader = "round" /\ writer = "write"
  /\ ri = 0 /\ wi = 1
  /\ start = 0

(***************************************************************************)
(* The reader                                                              *)
(***************************************************************************)
\* end_cursor = 0: the buffer the writer has drained is empty again.
BeginRound ==
  /\ reader = "round"
  /\ bufs' = [bufs EXCEPT ![ri] = <<>>]
  /\ reader' = "read"
  /\ UNCHANGED <<eof, stdin, end_of_file, ri, writers, input>>

\* Mutation of Room: the buffer may be filled twice over.
RoomDouble(buf) == 2 * capacity - Len(buf)

Room(buf) == capacity - Len(buf)

\* fread returns n bytes; fewer than asked for may be all there were.
Read(n) ==
  /\ reader = "read"
  /\ ~end_of_file
  /\ n <= Room(bufs[ri]) /\ n <= Len(stdin)
  /\ bufs' = [bufs EXCEPT ![ri] = @ \o SubSeq(stdin, 1, n)]
  /\ stdin' = SubSeq(stdin, n + 1, Len(stdin))
  /\ end_of_file' \in {FALSE, n = Len(stdin) /\ n < Room(bufs[ri])}
  /\ UNCHANGED <<eof, reader, ri, writers, input>>

\* fread returns 0 and sets the end of file indicator.
ReadEnd ==
  /\ reader = "read"
  /\ ~end_of_file
  /\ stdin = <<>> /\ Room(bufs[ri]) > 0
  /\ end_of_file' = TRUE
  /\ UNCHANGED <<shared, stdin, reader, ri, writers, input>>

\* Full or at the end of the input: the reader arrives at the first barrier.
ReaderArrives ==
  /\ reader = "read"
  /\ end_of_file \/ Room(bufs[ri]) = 0
  /\ reader' = "barrier1"
  /\ UNCHANGED <<shared, stdin, end_of_file, ri, writers, input>>

\* Between the barriers only the reader runs, and tells the writer.
PublishEof ==
  /\ reader = "between"
  /\ eof' = end_of_file
  /\ reader' = "barrier2"
  /\ UNCHANGED <<bufs, stdin, end_of_file, ri, writers, input>>

\* Past the second barrier: return, or go on with the other buffer.
ReaderTurns ==
  /\ reader = "turn"
  /\ reader' = IF eof THEN "returned" ELSE "round"
  /\ ri' = IF eof THEN ri ELSE Other(ri)
  /\ UNCHANGED <<shared, stdin, end_of_file, writers, input>>

(***************************************************************************)
(* The writer                                                              *)
(***************************************************************************)
\* fwrite takes n bytes.
Write(n) ==
  /\ writer = "write"
  /\ n <= Len(bufs[wi]) - start
  /\ stdout' = stdout \o SubSeq(bufs[wi], start + 1, start + n)
  /\ start' = start + n
  /\ UNCHANGED <<shared, readers, writer, wi, input>>

\* Mutation of IsDrained: no need to drain the buffer once the input has ended.
IsDrainedEarly == start >= Len(bufs[wi]) \/ eof

IsDrained == start >= Len(bufs[wi])

\* The buffer is drained: return if there is no more to come, else arrive at
\* the first barrier.
WriterArrives ==
  /\ writer = "write"
  /\ IsDrained
  /\ writer' = IF eof THEN "returned" ELSE "barrier1"
  /\ UNCHANGED <<shared, readers, stdout, wi, start, input>>

\* Mutation of NextWrite: the writer stays on its buffer.
NextWriteSame(i) == i

\* The buffer of the writer's next round.
NextWrite(i) == Other(i)

WriterTurns ==
  /\ writer = "turn"
  /\ writer' = "write"
  /\ wi' = NextWrite(wi)
  /\ start' = 0
  /\ UNCHANGED <<shared, readers, stdout, input>>

(***************************************************************************)
(* pthread_barrier_wait of two threads                                     *)
(***************************************************************************)
Meet(b) == reader = b /\ writer = b

\* The first barrier: the writer goes straight on to the second.
Barrier1 ==
  /\ Meet("barrier1")
  /\ reader' = "between"
  /\ writer' = "barrier2"
  /\ UNCHANGED <<shared, stdin, end_of_file, ri, stdout, wi, start, input>>

Barrier2 ==
  /\ Meet("barrier2")
  /\ reader' = "turn"
  /\ writer' = "turn"
  /\ UNCHANGED <<shared, stdin, end_of_file, ri, stdout, wi, start, input>>

\* main joins both threads.
Done ==
  /\ reader = "returned" /\ writer = "returned"
  /\ UNCHANGED vars

Reader == BeginRound \/ (\E n \in 1 .. Len(stdin) : Read(n)) \/ ReadEnd
          \/ ReaderArrives \/ PublishEof \/ ReaderTurns
Writer == (\E n \in 1 .. Len(bufs[wi]) : Write(n)) \/ WriterArrives \/ WriterTurns
Barrier == Barrier1 \/ Barrier2

Next == Reader \/ Writer \/ Barrier \/ Done

Spec == Init /\ [][Next]_vars

\* Both threads run; a barrier that both have reached lets them go.
FairSpec == Spec /\ WF_vars(Reader) /\ WF_vars(Writer) /\ WF_vars(Barrier)

(***************************************************************************)
(* Properties                                                              *)
(***************************************************************************)
ReaderPlaces == {"round", "read", "barrier1", "between", "barrier2", "turn", "returned"}
WriterPlaces == {"write", "barrier1", "barrier2", "turn", "returned"}

\* The buffers never take more than they have room for (the reader's assert)
\* and the writer stops at the end of its buffer (the writer's).
TypeOK ==
  /\ input \in Seq(Nat) /\ stdin \in Seq(Nat) /\ stdout \in Seq(Nat)
  /\ end_of_file \in BOOLEAN /\ eof \in BOOLEAN
  /\ bufs \in [{0, 1} -> Seq(Nat)]
  /\ \A i \in {0, 1} : Len(bufs[i]) <= capacity
  /\ reader \in ReaderPlaces /\ writer \in WriterPlaces
  /\ ri \in {0, 1} /\ wi \in {0, 1}
  /\ start \in Nat
  /\ writer \in {"write", "barrier1"} => start <= Len(bufs[wi])

\* The threads share the buffers and the flag without a lock: a buffer is
\* touched by one thread at a time, and the flag is not read while it is
\* written.
NoSharing ==
  /\ reader \in {"round", "read"} /\ writer = "write" => ri # wi
  /\ reader = "between" => writer = "barrier2"

\* What the buffers hold, in the order it came in: what the writer has yet to
\* write, and what the reader has read in its round.
Drained ==
  IF writer = "turn" THEN bufs[Other(wi)]
  ELSE SubSeq(bufs[wi], start + 1, Len(bufs[wi]))

Filled == IF reader \in {"round", "turn", "returned"} THEN <<>> ELSE bufs[ri]

Pipe == INSTANCE BoundedPipe
          WITH Capacity <- 2 * capacity,
               rest <- stdin,
               held <- Drained \o Filled,
               output <- stdout,
               closed <- reader = "returned" /\ writer = "returned"

\* The pair of buffers is a pipe: in order, nothing lost or repeated, never
\* more held than the two buffers, and closed only when it has delivered all.
IsPipe == Pipe!Spec

\* Both threads end and everything has been written, also when the input
\* fills its last buffer to the last byte.
Delivers == <>[](reader = "returned" /\ writer = "returned" /\ stdout = input)
=============================================================================

----------------------------- MODULE ThreadQueue -----------------------------
(***************************************************************************)
(* thread_queue_t of merge.cpp: the lines of a thread one after the other  *)
(* in a ring of bytes, their sizes in a queue beside it; when a line does  *)
(* not fit, the ring moves to a buffer four times as large.  Timestamps    *)
(* and the flag of a finished thread are in Merge.                         *)
(***************************************************************************)
EXTENDS Integers, Sequences, SequencesExt

CONSTANTS
  Lines,             \* lines, as sequences of bytes
  InitialCapacity,   \* _initial_capacity
  MaxEntries         \* bound: lines in the queue

\* A line fits into a buffer three times as large as the first one (main reads
\* lines of less than 128 bytes and the first buffer has a million).
ASSUME LinesAssumption ==
  /\ InitialCapacity \in Nat \ {0}
  /\ \A line \in Lines : line \in Seq(Nat) /\ Len(line) \in 1 .. 3 * InitialCapacity
ASSUME EntriesAssumption == MaxEntries \in Nat

Garbage == 0   \* a byte of new memory

VARIABLES
  buffer,         \* _buffer: 0 .. capacity - 1 -> byte
  buffer_size,    \* _buffer_size: bytes in use
  next_insert,    \* _buffer_next_insert
  next_pop,       \* _buffer_next_pop
  sizes,          \* _time_size_queue
  popped          \* what the last dequeue copied out

vars == <<buffer, buffer_size, next_insert, next_pop, sizes, popped>>

Capacity(buf) == Cardinality(DOMAIN buf)

Smaller(a, b) == IF a < b THEN a ELSE b

Init ==
  /\ buffer = [i \in 0 .. InitialCapacity - 1 |-> Garbage]
  /\ buffer_size = 0 /\ next_insert = 0 /\ next_pop = 0
  /\ sizes = <<>>
  /\ popped = <<>>

\* memcpy(&buf[at], bytes, n)
CopyIn(buf, at, bytes) ==
  [i \in DOMAIN buf |-> IF i - at + 1 \in DOMAIN bytes THEN bytes[i - at + 1] ELSE buf[i]]

\* the n bytes from position "at" of the ring, in two copies: up to the end of
\* the buffer, then from its front
CopyOut(buf, at, n) ==
  LET copy1_len == Smaller(n, Capacity(buf) - at)
  IN [i \in 1 .. n |-> IF i <= copy1_len THEN buf[at + i - 1] ELSE buf[i - 1 - copy1_len]]

\* Mutation of Enlarged: the old buffer is copied as it lies.
EnlargedAsIs(buf, at, n) ==
  CopyIn([i \in 0 .. 4 * Capacity(buf) - 1 |-> Garbage], 0,
         [i \in 1 .. n |-> buf[i - 1]])

\* _enlargen_char_buffer: the bytes in use move to the front of the new buffer.
Enlarged(buf, at, n) ==
  CopyIn([i \in 0 .. 4 * Capacity(buf) - 1 |-> Garbage], 0, CopyOut(buf, at, n))

Fits(n) == n <= Capacity(buffer) - buffer_size

Enqueue(line) ==
  LET n == Len(line)
      grown == IF Fits(n) THEN buffer ELSE Enlarged(buffer, next_pop, buffer_size)
      at == IF Fits(n) THEN next_insert ELSE buffer_size
      copy1_len == Smaller(Capacity(grown) - at, n)
  IN /\ Len(sizes) < MaxEntries
     /\ buffer' = CopyIn(CopyIn(grown, at, SubSeq(line, 1, copy1_len)),
                         0, SubSeq(line, copy1_len + 1, n))
     /\ next_pop' = IF Fits(n) THEN next_pop ELSE 0
     /\ next_insert' = (at + n) % Capacity(grown)
     /\ buffer_size' = buffer_size + n
     /\ sizes' = Append(sizes, n)
     /\ UNCHANGED popped

\* Mutation of Advanced: the cursor runs off the end of the ring.
AdvancedPast(at, n) == at + n

Advanced(at, n) == (at + n) % Capacity(buffer)

Dequeue ==
  /\ sizes # <<>>
  /\ popped' = CopyOut(buffer, next_pop, Head(sizes))
  /\ next_pop' = Advanced(next_pop, Head(sizes))
  /\ buffer_size' = buffer_size - Head(sizes)
  /\ sizes' = Tail(sizes)
  /\ UNCHANGED <<buffer, next_insert>>

Next == (\E line \in Lines : Enqueue(line)) \/ Dequeue

Spec == Init /\ [][Next]_vars

(***************************************************************************)
(* Properties                                                              *)
(***************************************************************************)
SumOf(s) == FoldLeft(LAMBDA a, b : a + b, 0, s)

\* _assert_repinv, and the cursors enclose the bytes in use.
RepInv ==
  /\ SumOf(sizes) = buffer_size
  /\ buffer_size <= Capacity(buffer)
  /\ next_pop \in DOMAIN buffer /\ next_insert \in DOMAIN buffer
  /\ next_insert = (next_pop + buffer_size) % Capacity(buffer)

\* The lines in the ring, oldest first.
LinesInRing ==
  [k \in DOMAIN sizes |->
     CopyOut(buffer, (next_pop + SumOf(SubSeq(sizes, 1, k - 1))) % Capacity(buffer), sizes[k])]

Fifo == INSTANCE FifoQueue WITH items <- LinesInRing

\* A ring that wraps around and moves is a queue: each line comes out as it
\* went in, in order.
IsFifo == Fifo!Spec
=============================================================================
